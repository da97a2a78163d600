------------------------------ MODULE Executor ------------------------------
(***************************************************************************)
(* What the promise crate promises about the main thread's executor        *)
(* (promise/src/spawn.rs): functions are spawned from any thread with      *)
(* normal or low priority, the main thread runs one at a time, those of    *)
(* one priority in the order they were spawned, and low priority ones only *)
(* while no other is waiting.  Under FairSpec none waits for ever.         *)
(***************************************************************************)
EXTENDS Sequences

CONSTANTS Funcs, NoFunc

VARIABLES
    fresh,   \* the functions not spawned yet
    high,    \* those waiting with normal priority
    low,     \* those waiting with low priority
    running  \* the function the main thread is in

vars == <<fresh, high, low, running>>

Init ==
    /\ fresh = Funcs
    /\ high = << >>
    /\ low = << >>
    /\ running = NoFunc

SpawnHigh ==
    /\ \E f \in fresh : fresh' = fresh \ {f} /\ high' = Append(high, f)
    /\ UNCHANGED <<low, running>>

SpawnLow ==
    /\ \E f \in fresh : fresh' = fresh \ {f} /\ low' = Append(low, f)
    /\ UNCHANGED <<high, running>>

StartHigh ==
    /\ running = NoFunc
    /\ high # << >>
    /\ running' = Head(high)
    /\ high' = Tail(high)
    /\ UNCHANGED <<fresh, low>>

StartLow ==
    /\ running = NoFunc
    /\ high = << >>
    /\ low # << >>
    /\ running' = Head(low)
    /\ low' = Tail(low)
    /\ UNCHANGED <<fresh, high>>

Finish ==
    /\ running # NoFunc
    /\ running' = NoFunc
    /\ UNCHANGED <<fresh, high, low>>

Start == StartHigh \/ StartLow

Next == SpawnHigh \/ SpawnLow \/ Start \/ Finish

Spec == Init /\ [][Next]_vars

FairSpec == Spec /\ WF_vars(Start) /\ WF_vars(Finish)

=============================================================================
