-------------------------------- MODULE MCClient --------------------------------
(***************************************************************************)
(* Small instances of what a client does with its server: calls            *)
(* (RpcSession), the lines of a remote pane (RenderSync) and the sets of   *)
(* rows that both ends talk about (RangeSet).  They share no state here.   *)
(* A behavior is one of a single module, named by part, with its fairness. *)
(***************************************************************************)
EXTENDS RpcSession, RenderSync, RangeSet

VARIABLE part

ASSUME RowsAssumption /\ ImageRowsAssumption /\ LinesBoundsAssumption

allVars == <<part, vars, lineVars, rangeVars>>

MCInit == part \in {"calls", "lines", "rows"} /\ Init /\ LinesInit /\ RangesInit

CallStep(step) == part = "calls" /\ step /\ UNCHANGED <<part, lineVars, rangeVars>>
LineStep(step) == part = "lines" /\ step /\ UNCHANGED <<part, vars, rangeVars>>

MCNext ==
    \/ CallStep(Next)
    \/ LineStep(LinesNext)
    \/ part = "rows" /\ RangesNext /\ UNCHANGED <<part, vars, lineVars>>

\* The fairness of RpcSession and of RenderSync.
MCFairSpec ==
    /\ MCInit /\ [][MCNext]_allVars
    /\ WF_allVars(CallStep(Client)) /\ WF_allVars(CallStep(Server))
    /\ WF_allVars(LineStep(BeginPush))
    /\ WF_allVars(LineStep(ReadDirty))
    /\ WF_allVars(LineStep(SendPush))
    /\ SF_allVars(LineStep(ServeFetch))
    /\ WF_allVars(LineStep(MainThread(1)))
    /\ WF_allVars(LineStep(ImagesArrive))
    /\ WF_allVars(LineStep(Repaint))
    /\ SF_allVars(LineStep(Repaint /\ due'))

------------------------------------------------------------------------------
(* The properties of RenderSync and RangeSet are theirs, but for one.       *)

\* The rows in view come to be those of the server (RenderSync).
ScreenCatchesUp == part = "lines" => ViewportCatchesUp

=============================================================================
