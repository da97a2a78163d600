----------------------------- MODULE MCTerminals -----------------------------
(***************************************************************************)
(* Small instances of what the output of a pane may be taken for: the      *)
(* lines of a screen (TerminalScreen), or the control protocol of tmux     *)
(* (TmuxControl).  They share no state.  A behavior is one of either       *)
(* module, named by part, while the other stays as it was made.            *)
(***************************************************************************)
EXTENDS TmuxControl, TerminalScreen

VARIABLE part

\* A screen on which all text wraps, one of a single column, and one less narrow.
ScreenSizes == {<<2, 2>>, <<4, 1>>, <<2, 3>>}

ASSUME BoundsAssumption
ASSUME ScreenAssumption

allVars == <<part, vars, screenVars>>

MCInit ==
    /\ part \in {"tmux", "screen"}
    /\ Init
    /\ ScreenInit
    /\ part # "screen" => Active(term).cols = 2 /\ scrollback = 0

TmuxDoes(step) == part = "tmux" /\ step /\ UNCHANGED <<part, screenVars>>

MCNext ==
    \/ TmuxDoes(Next)
    \/ part = "screen" /\ ScreenNext /\ UNCHANGED <<part, vars>>

\* The fairness of TmuxControl.
MCFairSpec ==
    /\ MCInit /\ [][MCNext]_allVars
    /\ WF_vars(TmuxDoes(Execute))
    /\ WF_vars(TmuxDoes(Parse))
    /\ WF_vars(TmuxDoes(Main))

\* A resize keeps the text, and the cursor on its letter (TerminalScreen's
\* ResizeKeepsTextAndCursor, which takes long, where there is a screen).
KeptByResize == part = "screen" => ResizeKeepsTextAndCursor

=============================================================================
