----------------------------- MODULE SpawnQueue -----------------------------
(***************************************************************************)
(* The queue of functions for the GUI's main thread on Linux               *)
(* (window/src/spawn.rs) and the message loops that run it                 *)
(* (window/src/os/x11/connection.rs, window/src/os/wayland/connection.rs). *)
(*                                                                         *)
(* A thread pushes a function and then, in a second step, writes one byte  *)
(* to a non-blocking pipe; the write fails when the pipe is full.  The     *)
(* loop runs one function, drains the pipe by one read, looks whether more *)
(* is queued, and only otherwise sleeps in poll().  mio registers the pipe *)
(* edge triggered: `ready` is the edge not reported yet, so bytes that are *)
(* left in the pipe do not wake the loop by themselves.  On the kernels    *)
(* that wake pollers only when a pipe stops being empty, a write into a    *)
(* pipe that holds bytes raises no edge (EveryWriteWakes = FALSE).         *)
(***************************************************************************)
EXTENDS Integers, Sequences, FiniteSets

CONSTANTS
    Funcs,           \* the functions that may be spawned, each once
    NoFunc,
    Threads,         \* the threads that spawn, the main thread included
    Main,
    Capacity,        \* bytes the pipe holds (65536 on Linux)
    Chunk,           \* bytes one read takes (64)
    EveryWriteWakes  \* how the kernel reports writes to a pipe with bytes

ASSUME NoFuncAssumption == NoFunc \notin Funcs
ASSUME ThreadsAssumption == IsFiniteSet(Threads) /\ Main \in Threads
ASSUME ChunkAssumption == Chunk \in Nat \ {0}
ASSUME CapacityAssumption == Capacity \in Nat /\ Cardinality(Threads) < Capacity
ASSUME KernelAssumption ==
    /\ EveryWriteWakes \in BOOLEAN
    /\ EveryWriteWakes \/ Cardinality(Threads) < Chunk

VARIABLES
    fresh,    \* the functions not spawned yet
    high,     \* spawned_funcs
    low,      \* spawned_funcs_low_pri
    pipe,     \* the bytes in the pipe
    ready,    \* a readiness edge of the pipe that poll() has not reported
    writing,  \* the threads between queue_func and the write
    loop,     \* where the main thread is
    func      \* the function popped by this round of run_impl

vars == <<fresh, high, low, pipe, ready, writing, loop, func>>

Stages == {"pop", "run", "drain", "check_high", "check_low", "more", "poll"}

Executor == INSTANCE Executor WITH running <- IF loop = "run" THEN func ELSE NoFunc

-----------------------------------------------------------------------------

Init ==
    /\ fresh = Funcs
    /\ high = << >>
    /\ low = << >>
    /\ pipe = 0
    /\ ready = FALSE
    /\ writing = {}
    /\ loop = "pop"
    /\ func = NoFunc

(* queue_func.  The main thread spawns from the functions it runs.         *)
Push(t) ==
    /\ t \notin writing
    /\ t = Main => loop = "run"
    /\ \E f \in fresh :
         /\ fresh' = fresh \ {f}
         /\ \/ high' = Append(high, f) /\ UNCHANGED low
            \/ low' = Append(low, f) /\ UNCHANGED high
    /\ writing' = writing \cup {t}
    /\ UNCHANGED <<pipe, ready, loop, func>>

(* Mutant: the function is queued and nothing is written to the pipe.      *)
MutSignal(t) ==
    /\ t \in writing
    /\ writing' = writing \ {t}
    /\ UNCHANGED <<fresh, high, low, pipe, ready, loop, func>>

(* The rest of spawn_impl: a full pipe is only logged.                     *)
Signal(t) ==
    /\ t \in writing
    /\ writing' = writing \ {t}
    /\ IF pipe < Capacity
       THEN /\ pipe' = pipe + 1
            /\ ready' = (ready \/ EveryWriteWakes \/ pipe = 0)
       ELSE UNCHANGED <<pipe, ready>>
    /\ UNCHANGED <<fresh, high, low, loop, func>>

(* Mutant: the low priority queue is looked at first.                      *)
MutPop ==
    /\ loop = "pop"
    /\ IF low # << >>
       THEN func' = Head(low) /\ low' = Tail(low) /\ loop' = "run" /\ UNCHANGED high
       ELSE IF high # << >>
       THEN func' = Head(high) /\ high' = Tail(high) /\ loop' = "run" /\ UNCHANGED low
       ELSE loop' = "drain" /\ UNCHANGED <<high, low, func>>
    /\ UNCHANGED <<fresh, pipe, ready, writing>>

(* pop_func: the lock of the normal queue is held while the low priority   *)
(* queue is looked at (the temporary of an if-let lives through its else). *)
Pop ==
    /\ loop = "pop"
    /\ \/ /\ high # << >>
          /\ func' = Head(high)
          /\ high' = Tail(high)
          /\ loop' = "run"
          /\ UNCHANGED low
       \/ /\ high = << >>
          /\ low # << >>
          /\ func' = Head(low)
          /\ low' = Tail(low)
          /\ loop' = "run"
          /\ UNCHANGED high
       \/ /\ high = << >>
          /\ low = << >>
          /\ loop' = "drain"
          /\ UNCHANGED <<high, low, func>>
    /\ UNCHANGED <<fresh, pipe, ready, writing>>

Return ==
    /\ loop = "run"
    /\ Main \notin writing
    /\ loop' = "drain"
    /\ UNCHANGED <<fresh, high, low, pipe, ready, writing, func>>

(* Mutant: the pipe is drained only when there was nothing to run.         *)
MutDrainWhenIdle ==
    /\ loop = "drain"
    /\ pipe' = IF func # NoFunc THEN pipe ELSE IF pipe > Chunk THEN pipe - Chunk ELSE 0
    /\ func' = NoFunc
    /\ loop' = "check_high"
    /\ UNCHANGED <<fresh, high, low, ready, writing>>

(* One read, whether or not a function was popped.                         *)
Drain ==
    /\ loop = "drain"
    /\ pipe' = IF pipe > Chunk THEN pipe - Chunk ELSE 0
    /\ func' = NoFunc
    /\ loop' = "check_high"
    /\ UNCHANGED <<fresh, high, low, ready, writing>>

(* Mutant: the normal queue alone decides whether the loop may sleep.      *)
MutCheckHigh ==
    /\ loop = "check_high"
    /\ loop' = IF high # << >> THEN "more" ELSE "poll"
    /\ UNCHANGED <<fresh, high, low, pipe, ready, writing, func>>

(* has_any_queued takes one lock after the other.                          *)
CheckHigh ==
    /\ loop = "check_high"
    /\ loop' = IF high # << >> THEN "more" ELSE "check_low"
    /\ UNCHANGED <<fresh, high, low, pipe, ready, writing, func>>

CheckLow ==
    /\ loop = "check_low"
    /\ loop' = IF low # << >> THEN "more" ELSE "poll"
    /\ UNCHANGED <<fresh, high, low, pipe, ready, writing, func>>

(* The X11 loop goes round at once.                                        *)
ContinueX11 ==
    /\ loop = "more"
    /\ loop' = "pop"
    /\ UNCHANGED <<fresh, high, low, pipe, ready, writing, func>>

(* The Wayland loop polls with a timeout of zero first.                    *)
ContinueWayland ==
    /\ loop = "more"
    /\ loop' = "pop"
    /\ ready' = FALSE
    /\ UNCHANGED <<fresh, high, low, pipe, writing, func>>

PollSpawned ==
    /\ loop = "poll"
    /\ ready
    /\ ready' = FALSE
    /\ loop' = "pop"
    /\ UNCHANGED <<fresh, high, low, pipe, writing, func>>

(* The display connection became readable, or poll() was interrupted.      *)
PollOther ==
    /\ loop = "poll"
    /\ ready' \in {ready, FALSE}
    /\ loop' = "pop"
    /\ UNCHANGED <<fresh, high, low, pipe, writing, func>>

Run == Pop \/ Return \/ Drain \/ CheckHigh \/ CheckLow

Continue == ContinueX11 \/ ContinueWayland

Next == (\E t \in Threads : Push(t) \/ Signal(t)) \/ Run \/ Continue \/ PollSpawned \/ PollOther

Spec == Init /\ [][Next]_vars

(* Threads and the loop keep running, and spawned functions return.  No    *)
(* event of the display is counted on, and no thread has to spawn.         *)
FairSpec ==
    /\ Spec
    /\ \A t \in Threads : WF_vars(Signal(t))
    /\ WF_vars(Run)
    /\ WF_vars(Continue)
    /\ WF_vars(PollSpawned)

-----------------------------------------------------------------------------
(* Properties.                                                             *)

(* The type of every field of SpawnQueue and of the loop around it.        *)
TypeOK ==
    /\ fresh \subseteq Funcs
    /\ high \in Seq(Funcs)
    /\ low \in Seq(Funcs)
    /\ pipe \in 0 .. Capacity
    /\ ready \in BOOLEAN
    /\ writing \subseteq Threads
    /\ loop \in Stages
    /\ func \in Funcs \cup {NoFunc}

(* "It does guarantee a wakeup if the main thread is asleep and we enqueue *)
(* some number of items" (spawn.rs): the loop never sleeps on a queue that *)
(* holds a function unless a wakeup is on its way, full pipes and pushes   *)
(* between the two checks of has_any_queued included.                      *)
NoLostWakeup ==
    loop = "poll" /\ (high # << >> \/ low # << >>) => ready \/ writing # {}

(* The loop that goes to sleep has left room for the next write, so the    *)
(* "Failed to signal spawn queue pipe" branch of spawn_impl never hides    *)
(* the wakeup of a sleeping loop.                                          *)
SleepsWithRoomInPipe == loop = "poll" => ready \/ pipe < Capacity

(* So a sleeping loop is woken by every spawn, those already queued and    *)
(* the next: neither is of use without the other.                          *)
WakeupComes == NoLostWakeup /\ SleepsWithRoomInPipe

(* The queue is an executor as the promise crate promises one: one         *)
(* function at a time, in order, normal priority first, and every function *)
(* that is spawned runs, without any event of the display.                 *)
ImplementsExecutor == Executor!FairSpec

=============================================================================
