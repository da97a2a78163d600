---------------------------- MODULE OutputStream ----------------------------
(***************************************************************************)
(* What the mux promises about the output of a pane: what the program      *)
(* writes is shown in the order written, in batches, and no batch ends     *)
(* inside a synchronized update, save at the start of another one or when  *)
(* nothing more can come.  A pane that is gone shows nothing more.         *)
(***************************************************************************)
EXTENDS Sequences, Naturals

CONSTANT Kinds  \* "begin" and "end" of a synchronized update and the rest

VARIABLES
    waiting,  \* what is written and not shown yet
    framed,   \* what was shown last is inside an update
    ended     \* the program has closed its output

vars == <<waiting, framed, ended>>

Init ==
    /\ waiting = << >>
    /\ framed = FALSE
    /\ ended = FALSE

Write ==
    /\ ~ ended
    /\ \E kind \in Kinds : waiting' = Append(waiting, kind)
    /\ UNCHANGED <<framed, ended>>

End == ended' = TRUE /\ UNCHANGED <<waiting, framed>>

\* Whether a batch leaves an update open, given how it started.
Opens(batch, before) ==
    \/ \E i \in DOMAIN batch :
          batch[i] = "begin" /\ \A k \in DOMAIN batch : k > i => batch[k] # "end"
    \/ before /\ \A i \in DOMAIN batch : batch[i] # "end"

Show ==
    \E n \in 1 .. Len(waiting) :
        LET batch == SubSeq(waiting, 1, n)
        IN /\ \/ ~ Opens(batch, framed)
              \/ batch[n] = "begin"
              \/ ended /\ n = Len(waiting)
           /\ waiting' = SubSeq(waiting, n + 1, Len(waiting))
           /\ framed' = Opens(batch, framed)
           /\ UNCHANGED ended

Next == Write \/ End \/ Show

Spec == Init /\ [][Next]_vars

=============================================================================
