------------------------------- MODULE MCPanes -------------------------------
(***************************************************************************)
(* Small instances of the registry of the mux (MuxLifecycle) and of the    *)
(* way of the output of a pane to its terminal (PaneOutput).  They share   *)
(* no state.  A behavior is one of either module, named by part, while the *)
(* other stays as it was made.                                             *)
(***************************************************************************)
EXTENDS MuxLifecycle, PaneOutput

VARIABLE part

ASSUME BuffersAssumption

\* With exit_behavior Close it matters most what else than a program a pane is.
MCMaxSpecial == [b \in Behaviours |-> IF b = "Close" THEN 1 ELSE 0]

allVars == <<part, vars, outputVars>>

MCInit ==
    /\ part \in {"registry", "output"}
    /\ Init
    /\ OutputInit
    /\ part # "registry" => behaviour = "Hold"

MCNext ==
    \/ part = "registry" /\ Next /\ UNCHANGED <<part, outputVars>>
    \/ part = "output" /\ OutputNext /\ UNCHANGED <<part, vars>>

\* The fairness of the two modules.
MCFairSpec ==
    /\ MCInit /\ [][MCNext]_allVars
    /\ []<> ~ (part = "registry" /\ Ready) \/ []<><<RunTask>>_vars
    /\ WF_outputVars(ReaderThread)
    /\ WF_outputVars(ParserThread)
    /\ WF_outputVars(Elapse)

=============================================================================
