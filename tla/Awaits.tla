------------------------------- MODULE Awaits -------------------------------
(***************************************************************************)
(* The two ways a task of the main thread awaits a result that someone     *)
(* else produces (promise crate).                                          *)
(*                                                                         *)
(* A Future of promise/src/lib.rs shares result and waker with its Promise *)
(* under one lock; the window connections (with_window_inner) keep the     *)
(* promise from a spawned function, or drop it when the window has gone.   *)
(*                                                                         *)
(* spawn_into_new_thread (promise/src/spawn.rs) hands the result of a new  *)
(* thread through a channel and guards only the waker by a lock: its poll  *)
(* looks into the channel and stores the waker in two steps, its thread    *)
(* sends and takes the waker in two steps.                                 *)
(***************************************************************************)
EXTENDS Naturals

CONSTANTS
    Promised,  \* the calls that await a Future
    Threaded   \* the calls that await a new thread

CallsAssumption == Promised \cap Threaded = {}

VARIABLES
    source,  \* the promise: "working", "finished" or "gone" (dropped); the
             \* thread: also "sent", between send and wake; "gone": panicked
    slot,    \* the place of the result: "empty", "full" or "taken"
    waker,   \* whether a waker is stored
    task     \* the task that awaits the call

vars == <<source, slot, waker, task>>

Calls == Promised \cup Threaded

Init ==
    /\ source = [c \in Calls |-> "working"]
    /\ slot = [c \in Calls |-> "empty"]
    /\ waker = [c \in Calls |-> FALSE]
    /\ task = [c \in Calls |-> "scheduled"]

(* The main thread runs one task at a time.                                *)
MainThreadFree == \A c \in Calls : task[c] # "polling"

Scheduled(c) == MainThreadFree /\ task[c] = "scheduled"

(* waker.take() and wake(): async_task queues the task again.              *)
TakeWaker(c) ==
    /\ waker' = [waker EXCEPT ![c] = FALSE]
    /\ task' = IF waker[c] THEN [task EXCEPT ![c] = "scheduled"] ELSE task

-----------------------------------------------------------------------------
(* Promise and Future.                                                     *)

(* Mutant: the waker is taken and not woken.                               *)
MutSetResult(c) ==
    /\ source[c] = "working"
    /\ source' = [source EXCEPT ![c] = "finished"]
    /\ slot' = [slot EXCEPT ![c] = "full"]
    /\ waker' = [waker EXCEPT ![c] = FALSE]
    /\ UNCHANGED task

SetResult(c) ==
    /\ source[c] = "working"
    /\ source' = [source EXCEPT ![c] = "finished"]
    /\ slot' = [slot EXCEPT ![c] = "full"]
    /\ TakeWaker(c)

DropPromise(c) ==
    /\ source[c] = "working"
    /\ source' = [source EXCEPT ![c] = "gone"]
    /\ UNCHANGED <<slot, waker, task>>

PollFuture(c) ==
    /\ Scheduled(c)
    /\ \/ /\ slot[c] = "full"
          /\ slot' = [slot EXCEPT ![c] = "taken"]
          /\ task' = [task EXCEPT ![c] = "ready"]
          /\ UNCHANGED waker
       \/ /\ slot[c] # "full"
          /\ waker' = [waker EXCEPT ![c] = TRUE]
          /\ task' = [task EXCEPT ![c] = "waiting"]
          /\ UNCHANGED slot
    /\ UNCHANGED source

-----------------------------------------------------------------------------
(* spawn_into_new_thread.                                                  *)

(* f() returns and tx.send(res) puts its result into the channel.          *)
Send(c) ==
    /\ source[c] = "working"
    /\ source' = [source EXCEPT ![c] = "sent"]
    /\ slot' = [slot EXCEPT ![c] = "full"]
    /\ UNCHANGED <<waker, task>>

(* Mutant: the waker is left where it is.                                  *)
MutWake(c) ==
    /\ source[c] = "sent"
    /\ source' = [source EXCEPT ![c] = "finished"]
    /\ UNCHANGED <<slot, waker, task>>

Wake(c) ==
    /\ source[c] = "sent"
    /\ source' = [source EXCEPT ![c] = "finished"]
    /\ TakeWaker(c)
    /\ UNCHANGED slot

(* f() panics: the unwinding thread drops tx and wakes nobody.             *)
Panic(c) ==
    /\ source[c] = "working"
    /\ source' = [source EXCEPT ![c] = "gone"]
    /\ UNCHANGED <<slot, waker, task>>

PollResult(c) ==
    /\ Scheduled(c)
    /\ slot[c] = "full"
    /\ slot' = [slot EXCEPT ![c] = "taken"]
    /\ task' = [task EXCEPT ![c] = "ready"]
    /\ UNCHANGED <<source, waker>>

PollDisconnected(c) ==
    /\ Scheduled(c)
    /\ slot[c] = "empty"
    /\ source[c] = "gone"
    /\ task' = [task EXCEPT ![c] = "failed"]
    /\ UNCHANGED <<source, slot, waker>>

PollEmpty(c) ==
    /\ Scheduled(c)
    /\ slot[c] = "empty"
    /\ source[c] # "gone"
    /\ task' = [task EXCEPT ![c] = "polling"]
    /\ UNCHANGED <<source, slot, waker>>

StoreWaker(c) ==
    /\ task[c] = "polling"
    /\ task' = [task EXCEPT ![c] = "waiting"]
    /\ waker' = [waker EXCEPT ![c] = TRUE]
    /\ UNCHANGED <<source, slot>>

PollThread(c) == PollResult(c) \/ PollDisconnected(c) \/ PollEmpty(c) \/ StoreWaker(c)

Next ==
    \/ \E c \in Promised : SetResult(c) \/ DropPromise(c) \/ PollFuture(c)
    \/ \E c \in Threaded : Send(c) \/ Wake(c) \/ Panic(c) \/ PollThread(c)

Spec == Init /\ [][Next]_vars

(* The main thread polls what is scheduled (SpawnQueue: every function     *)
(* queued for it runs), and a thread that has sent its result goes on.     *)
(* Nothing says that a promise is kept or that f() returns.                *)
FairSpec ==
    /\ Spec
    /\ \A c \in Promised : WF_vars(PollFuture(c))
    /\ \A c \in Threaded : WF_vars(Wake(c)) /\ WF_vars(PollThread(c))

-----------------------------------------------------------------------------
(* Properties.                                                             *)

(* The states of a call fit together: the result is taken exactly when the *)
(* task is ready, a source that produced one has left it, a task fails     *)
(* only if its source is gone, and one that waits for a source still at    *)
(* work has left its waker.                                                *)
TypeOK ==
    \A c \in Calls :
        /\ source[c] \in {"working", "sent", "finished", "gone"}
        /\ task[c] \in {"scheduled", "polling", "waiting", "ready", "failed"}
        /\ (slot[c] = "taken") = (task[c] = "ready")
        /\ (slot[c] # "empty") = (source[c] \in {"sent", "finished"})
        /\ task[c] = "failed" => source[c] = "gone"
        /\ task[c] = "waiting" /\ source[c] \in {"working", "sent"} => waker[c]

(* A promise that is kept completes its future, whichever of result() and  *)
(* poll() came first.                                                      *)
KeptPromiseCompletes == \A c \in Promised : source[c] = "finished" ~> task[c] = "ready"

(* "If someone polled the thread before we got here, they will have        *)
(* populated the waker" (spawn.rs): when the thread, its result sent, gets *)
(* to the waker and finds one, the task is polled again and yields the     *)
(* result, however many polls came before.                                 *)
PolledThreadCompletes ==
    \A c \in Threaded : waker[c] /\ source[c] = "sent" ~> task[c] = "ready"

(* "Returns a JoinHandle [...] that can be used to await and yield the     *)
(* return value from the thread" (spawn.rs): what the thread has sent, the *)
(* task yields.  It does not hold: if the thread looks for a waker between *)
(* the two steps of a poll that found nothing, it finds none.              *)
ThreadResultIsDelivered == \A c \in Threaded : source[c] = "sent" ~> task[c] = "ready"

=============================================================================
