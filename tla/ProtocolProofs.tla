--------------------------- MODULE ProtocolProofs ---------------------------
(***************************************************************************)
(* The two protocols of the main thread and of the processes that run for  *)
(* any number of threads, functions, settings and writes: the queue of     *)
(* spawned functions (SpawnQueue), then the file of settings               *)
(* (SettingsFile).                                                         *)
(***************************************************************************)
EXTENDS SpawnQueue, SettingsFile, FiniteSetTheorems, SequenceTheorems, TLAPS

(***************************************************************************)
(* SpawnQueue for any number of threads and functions, any pipe that holds *)
(* more bytes than there are threads, and both kinds of kernel: types, no  *)
(* lost wakeup, room in the pipe of a sleeping loop, and the safety part   *)
(* of the refinement of Executor.                                          *)
(*                                                                         *)
(* NoLostWakeup is not inductive.  A loop that is about to sleep may have  *)
(* left bytes in the pipe, because one read takes Chunk bytes only, and on *)
(* a kernel that reports the first byte alone these bytes would hide every *)
(* later write.  BytesAreAccounted counts them: every byte, and every byte *)
(* still to be written, stands for a function that waits or runs, but for  *)
(* one per thread.  A read that leaves bytes therefore leaves functions,   *)
(* and a loop that finds functions does not sleep.                         *)
(***************************************************************************)

N == Cardinality(Threads)

Popped == IF func = NoFunc THEN 0 ELSE 1

(* A popped function is being run, or its round is about to drain.         *)
PoppedIsRun ==
    /\ loop = "run" => func # NoFunc
    /\ func # NoFunc => loop \in {"run", "drain"}

BytesAreAccounted ==
    pipe + Cardinality(writing) <= Len(high) + Len(low) + N + Popped

(* What the loop knows of the pipe on its way to sleep, on either kernel.  *)
FewBytesLeft ==
    EveryWriteWakes =>
        /\ loop = "check_low" => ready \/ pipe <= Len(low) + N
        /\ loop = "poll" => ready \/ pipe <= N

NoBytesLeft ==
    ~EveryWriteWakes =>
        /\ loop = "check_high" => ready \/ pipe = 0 \/ high # << >> \/ low # << >>
        /\ loop = "check_low" => ready \/ pipe = 0 \/ low # << >>
        /\ loop = "poll" => ready \/ pipe = 0

(* What was pushed behind the first check of has_any_queued.               *)
PushBehindCheck ==
    loop = "check_low" => high = << >> \/ low # << >> \/ ready \/ writing # {}

QueueInv ==
    /\ TypeOK
    /\ PoppedIsRun
    /\ BytesAreAccounted
    /\ FewBytesLeft
    /\ NoBytesLeft
    /\ PushBehindCheck
    /\ NoLostWakeup

-----------------------------------------------------------------------------
(* Counting writers and the functions of a queue.                          *)

(* There is a thread, and no more of them write than there are.            *)
LEMMA Writers ==
    ASSUME NEW W \in SUBSET Threads
    PROVE  /\ N \in Nat \ {0}
           /\ IsFiniteSet(W)
           /\ Cardinality(W) \in Nat
           /\ Cardinality(W) <= N
  <1>1. IsFiniteSet(Threads) /\ Main \in Threads
    BY ThreadsAssumption
  <1>2. IsFiniteSet(W) /\ Cardinality(W) <= N
    BY <1>1, FS_Subset DEF N
  <1>3. Cardinality(W) \in Nat /\ N \in Nat
    BY <1>1, <1>2, FS_CardinalityType DEF N
  <1>4. N # 0
    BY <1>1, FS_EmptySet DEF N
  <1> QED BY <1>2, <1>3, <1>4

(* A thread that enters or leaves spawn_impl changes their number by one.  *)
LEMMA OneWriter ==
    ASSUME NEW W \in SUBSET Threads, NEW t \in Threads
    PROVE  /\ t \notin W => Cardinality(W \cup {t}) = Cardinality(W) + 1
           /\ t \in W => Cardinality(W \ {t}) = Cardinality(W) - 1
  BY Writers, FS_AddElement, FS_RemoveElement

(* What Append, Head and Tail do to a queue of functions.                  *)
LEMMA Queues ==
    ASSUME NEW q \in Seq(Funcs), NEW f \in Funcs
    PROVE  /\ Len(q) \in Nat
           /\ Append(q, f) \in Seq(Funcs)
           /\ Len(Append(q, f)) = Len(q) + 1
           /\ q # << >> => /\ Head(q) \in Funcs
                           /\ Tail(q) \in Seq(Funcs)
                           /\ Len(Tail(q)) = Len(q) - 1
  OBVIOUS

(* A queue is empty when nothing is counted in it.                         *)
LEMMA EmptyQueue ==
    ASSUME NEW q \in Seq(Funcs)
    PROVE  Len(q) \in Nat /\ (q = << >> <=> Len(q) = 0)
  OBVIOUS

-----------------------------------------------------------------------------
(* The inductive invariant.                                                *)

LEMMA QueueInitially == Init => QueueInv
  <1> SUFFICES ASSUME Init PROVE QueueInv
    OBVIOUS
  <1>1. TypeOK
    <2>1. << >> \in Seq(Funcs)
      OBVIOUS
    <2>2. 0 \in 0 .. Capacity
      BY CapacityAssumption
    <2> QED BY <2>1, <2>2, Zenon DEF Init, TypeOK, Stages
  <1>2. BytesAreAccounted
    BY Writers, FS_EmptySet DEF Init, BytesAreAccounted, Popped
  <1> QED
    BY <1>1, <1>2 DEF Init, QueueInv, PoppedIsRun, FewBytesLeft, NoBytesLeft,
                      PushBehindCheck, NoLostWakeup

(* A function is pushed: one more waits, one more byte is to be written.   *)
LEMMA PushStep == ASSUME QueueInv, NEW t \in Threads, Push(t) PROVE QueueInv'
  <1> USE DEF QueueInv
  <1>1. PICK f \in fresh :
            /\ fresh' = fresh \ {f}
            /\ \/ high' = Append(high, f) /\ UNCHANGED low
               \/ low' = Append(low, f) /\ UNCHANGED high
    BY DEF Push
  <1>2. /\ t \notin writing
        /\ writing' = writing \cup {t}
        /\ UNCHANGED <<pipe, ready, loop, func>>
    BY DEF Push
  <1>3. f \in Funcs /\ high \in Seq(Funcs) /\ low \in Seq(Funcs) /\ writing \in SUBSET Threads
    BY <1>1 DEF TypeOK
  <1>4. Cardinality(writing') = Cardinality(writing) + 1 /\ Cardinality(writing) \in Nat /\ N \in Nat
    BY <1>2, <1>3, OneWriter, Writers
  <1>5. /\ high' \in Seq(Funcs) /\ low' \in Seq(Funcs)
        /\ Len(high) \in Nat /\ Len(low) \in Nat /\ Len(high') \in Nat /\ Len(low') \in Nat
        /\ Len(high') + Len(low') = Len(high) + Len(low) + 1
        /\ Len(high') >= Len(high) /\ Len(low') >= Len(low)
    <2>1. CASE high' = Append(high, f) /\ UNCHANGED low
      BY <2>1, <1>3, Queues
    <2>2. CASE low' = Append(low, f) /\ UNCHANGED high
      BY <2>2, <1>3, Queues
    <2> QED BY <1>1, <2>1, <2>2
  <1>6. TypeOK'
    BY <1>1, <1>2, <1>3, <1>5 DEF TypeOK
  <1>7. PoppedIsRun'
    BY <1>2 DEF PoppedIsRun
  <1>8. BytesAreAccounted'
    BY <1>2, <1>4, <1>5 DEF BytesAreAccounted, Popped, TypeOK
  <1>9. FewBytesLeft'
    BY <1>2, <1>4, <1>5 DEF FewBytesLeft, TypeOK
  <1>10. (high # << >> => high' # << >>) /\ (low # << >> => low' # << >>)
    BY <1>1, <1>3, <1>5, EmptyQueue, Queues
  <1>11. NoBytesLeft'
    BY <1>2, <1>10 DEF NoBytesLeft
  <1>12. PushBehindCheck' /\ NoLostWakeup'
    BY <1>2 DEF PushBehindCheck, NoLostWakeup
  <1> QED BY <1>6, <1>7, <1>8, <1>9, <1>11, <1>12

(* A byte is written, or dropped by a full pipe.  On a kernel that reports *)
(* the first byte alone, a pipe with bytes belongs to a loop that will see *)
(* a function before it sleeps.                                            *)
LEMMA SignalStep == ASSUME QueueInv, NEW t \in Threads, Signal(t) PROVE QueueInv'
  <1> USE DEF QueueInv
  <1>1. /\ t \in writing
        /\ writing' = writing \ {t}
        /\ IF pipe < Capacity
           THEN /\ pipe' = pipe + 1
                /\ ready' = (ready \/ EveryWriteWakes \/ pipe = 0)
           ELSE UNCHANGED <<pipe, ready>>
        /\ UNCHANGED <<fresh, high, low, loop, func>>
    BY DEF Signal
  <1>2. /\ pipe \in 0 .. Capacity /\ ready \in BOOLEAN /\ writing \in SUBSET Threads
        /\ high \in Seq(Funcs) /\ low \in Seq(Funcs)
    BY DEF TypeOK
  <1>3. /\ Cardinality(writing') = Cardinality(writing) - 1
        /\ Cardinality(writing) \in Nat /\ N \in Nat \ {0}
    BY <1>1, <1>2, OneWriter, Writers
  <1>4. /\ Len(high) \in Nat /\ Len(low) \in Nat
        /\ low = << >> <=> Len(low) = 0
    BY <1>2, EmptyQueue
  <1>5. Capacity \in Nat /\ N < Capacity /\ EveryWriteWakes \in BOOLEAN
    BY CapacityAssumption, KernelAssumption DEF N
  <1>6. TypeOK'
    <2>1. pipe' \in 0 .. Capacity
      BY <1>1, <1>2, <1>5
    <2>2. ready' \in BOOLEAN
      BY <1>1, <1>2, Zenon
    <2> QED BY <1>1, <1>2, <2>1, <2>2, Zenon DEF TypeOK
  <1>7. PoppedIsRun'
    BY <1>1 DEF PoppedIsRun
  <1>8. BytesAreAccounted'
    BY <1>1, <1>2, <1>3, <1>4 DEF BytesAreAccounted, Popped
  <1>9. ready => ready'
    BY <1>1
  <1>10. FewBytesLeft'
    BY <1>1, <1>9 DEF FewBytesLeft
  <1>11. NoBytesLeft'
    BY <1>1, <1>9 DEF NoBytesLeft
  <1>12. PushBehindCheck'
    <2>1. CASE pipe < Capacity
      BY <2>1, <1>1, <1>9 DEF PushBehindCheck, NoBytesLeft
    <2>2. CASE ~(pipe < Capacity)
      <3>1. pipe > N /\ pipe # 0
        BY <2>2, <1>2, <1>3, <1>5
      <3>2. loop = "check_low" => ready \/ low # << >>
        BY <3>1, <1>2, <1>3, <1>4, <1>5 DEF FewBytesLeft, NoBytesLeft
      <3> QED BY <3>2, <1>1, <1>9 DEF PushBehindCheck
    <2> QED BY <2>1, <2>2
  <1>13. NoLostWakeup'
    <2>1. CASE pipe < Capacity
      BY <2>1, <1>1, <1>9 DEF NoLostWakeup, NoBytesLeft
    <2>2. CASE ~(pipe < Capacity)
      <3>1. pipe > N /\ pipe # 0
        BY <2>2, <1>2, <1>3, <1>5
      <3>2. loop = "poll" => ready
        BY <3>1, <1>2, <1>3, <1>5 DEF FewBytesLeft, NoBytesLeft
      <3> QED BY <3>2, <1>1, <1>9 DEF NoLostWakeup
    <2> QED BY <2>1, <2>2
  <1> QED BY <1>6, <1>7, <1>8, <1>10, <1>11, <1>12, <1>13

(* A function moves from a queue to the loop, or the round finds none.     *)
LEMMA PopStep == ASSUME QueueInv, Pop PROVE QueueInv'
  <1> USE DEF QueueInv
  <1>1. loop = "pop" /\ UNCHANGED <<fresh, pipe, ready, writing>>
    BY DEF Pop
  <1>2. func = NoFunc /\ loop' \in {"run", "drain"}
    BY <1>1 DEF Pop, PoppedIsRun
  <1>3. /\ pipe \in 0 .. Capacity /\ writing \in SUBSET Threads
        /\ high \in Seq(Funcs) /\ low \in Seq(Funcs)
    BY DEF TypeOK
  <1>4. /\ Cardinality(writing) \in Nat /\ N \in Nat
        /\ Len(high) \in Nat /\ Len(low) \in Nat
    BY <1>3, Writers, EmptyQueue
  <1>5. /\ high' \in Seq(Funcs) /\ low' \in Seq(Funcs)
        /\ func' \in Funcs \cup {NoFunc}
        /\ loop' = "run" => func' # NoFunc
        /\ Len(high') + Len(low') + (IF func' = NoFunc THEN 0 ELSE 1) = Len(high) + Len(low)
    <2>1. CASE high # << >> /\ func' = Head(high) /\ high' = Tail(high) /\ UNCHANGED low
      <3>1. Head(high) \in Funcs /\ Tail(high) \in Seq(Funcs) /\ Len(Tail(high)) = Len(high) - 1
        BY <2>1, <1>3
      <3>2. func' \in Funcs /\ func' # NoFunc
        BY <3>1, <2>1, NoFuncAssumption
      <3>3. high' \in Seq(Funcs) /\ low' \in Seq(Funcs)
        BY <3>1, <2>1, <1>3
      <3>4. Len(high') + Len(low') + 1 = Len(high) + Len(low)
        BY <3>1, <2>1, <1>4
      <3> QED BY <3>2, <3>3, <3>4
    <2>2. CASE low # << >> /\ func' = Head(low) /\ low' = Tail(low) /\ UNCHANGED high
      <3>1. Head(low) \in Funcs /\ Tail(low) \in Seq(Funcs) /\ Len(Tail(low)) = Len(low) - 1
        BY <2>2, <1>3
      <3>2. func' \in Funcs /\ func' # NoFunc
        BY <3>1, <2>2, NoFuncAssumption
      <3>3. high' \in Seq(Funcs) /\ low' \in Seq(Funcs)
        BY <3>1, <2>2, <1>3
      <3>4. Len(high') + Len(low') + 1 = Len(high) + Len(low)
        BY <3>1, <2>2, <1>4
      <3> QED BY <3>2, <3>3, <3>4
    <2>3. CASE loop' = "drain" /\ UNCHANGED <<high, low, func>>
      BY <2>3, <1>2, <1>3, <1>4
    <2> QED BY <2>1, <2>2, <2>3 DEF Pop
  <1>6. TypeOK'
    BY <1>1, <1>2, <1>5 DEF TypeOK, Stages
  <1>7. PoppedIsRun'
    BY <1>2, <1>5 DEF PoppedIsRun
  <1>8. BytesAreAccounted'
    <2>1. Len(high') \in Nat /\ Len(low') \in Nat
      BY <1>5, EmptyQueue
    <2> QED BY <2>1, <1>1, <1>2, <1>3, <1>4, <1>5 DEF BytesAreAccounted, Popped
  <1> QED
    BY <1>2, <1>6, <1>7, <1>8 DEF FewBytesLeft, NoBytesLeft, PushBehindCheck, NoLostWakeup

(* The function of this round has returned.                                *)
LEMMA ReturnStep == ASSUME QueueInv, Return PROVE QueueInv'
  BY DEF QueueInv, Return, TypeOK, Stages, PoppedIsRun, BytesAreAccounted, Popped, FewBytesLeft,
         NoBytesLeft, PushBehindCheck, NoLostWakeup

(* One read: it empties the pipe, or it leaves bytes and then, by the      *)
(* count of bytes, more functions.                                         *)
LEMMA DrainStep == ASSUME QueueInv, Drain PROVE QueueInv'
  <1> USE DEF QueueInv
  <1>1. /\ loop = "drain" /\ loop' = "check_high" /\ func' = NoFunc
        /\ pipe' = IF pipe > Chunk THEN pipe - Chunk ELSE 0
        /\ UNCHANGED <<fresh, high, low, ready, writing>>
    BY DEF Drain
  <1>2. /\ pipe \in 0 .. Capacity /\ writing \in SUBSET Threads
        /\ high \in Seq(Funcs) /\ low \in Seq(Funcs)
    BY DEF TypeOK
  <1>3. /\ Cardinality(writing) \in Nat /\ N \in Nat /\ Cardinality(writing) <= N
        /\ Len(high) \in Nat /\ Len(low) \in Nat
        /\ high = << >> <=> Len(high) = 0
        /\ low = << >> <=> Len(low) = 0
    BY <1>2, Writers, EmptyQueue
  <1>4. Chunk \in Nat \ {0} /\ Capacity \in Nat /\ (EveryWriteWakes \/ N < Chunk)
    BY ChunkAssumption, CapacityAssumption, KernelAssumption DEF N
  <1>5. TypeOK'
    <2>1. pipe' \in 0 .. Capacity
      BY <1>1, <1>2, <1>4
    <2> QED BY <2>1, <1>1 DEF TypeOK, Stages
  <1>6. PoppedIsRun'
    BY <1>1 DEF PoppedIsRun
  <1>7. BytesAreAccounted'
    BY <1>1, <1>2, <1>3, <1>4 DEF BytesAreAccounted, Popped
  <1>8. NoBytesLeft'
    <2> SUFFICES ASSUME ~EveryWriteWakes, pipe' # 0
                 PROVE  high # << >> \/ low # << >>
      BY <1>1 DEF NoBytesLeft
    <2>1. pipe > Chunk /\ Chunk > N
      BY <1>1, <1>4
    <2>2. pipe <= Len(high) + Len(low) + N + 1
      BY <1>2, <1>3 DEF BytesAreAccounted, Popped
    <2>3. Len(high) + Len(low) > 0
      BY <2>1, <2>2, <1>2, <1>3, <1>4
    <2> QED BY <2>3, <1>3
  <1> QED
    BY <1>1, <1>5, <1>6, <1>7, <1>8 DEF FewBytesLeft, PushBehindCheck, NoLostWakeup

(* The first check: the loop goes on when a normal function waits.         *)
LEMMA CheckHighStep == ASSUME QueueInv, CheckHigh PROVE QueueInv'
  <1> USE DEF QueueInv
  <1>1. /\ loop = "check_high"
        /\ loop' = IF high # << >> THEN "more" ELSE "check_low"
        /\ UNCHANGED <<fresh, high, low, pipe, ready, writing, func>>
    BY DEF CheckHigh
  <1>2. TypeOK'
    BY <1>1 DEF TypeOK, Stages
  <1>3. PoppedIsRun' /\ BytesAreAccounted' /\ NoBytesLeft' /\ PushBehindCheck' /\ NoLostWakeup'
    BY <1>1 DEF PoppedIsRun, BytesAreAccounted, Popped, NoBytesLeft, PushBehindCheck, NoLostWakeup
  <1>4. FewBytesLeft'
    <2>1. high \in Seq(Funcs) /\ low \in Seq(Funcs) /\ writing \in SUBSET Threads /\ pipe \in 0 .. Capacity
      BY DEF TypeOK
    <2>2. Cardinality(writing) \in Nat /\ N \in Nat /\ Len(low) \in Nat /\ Capacity \in Nat
          /\ (high = << >> <=> Len(high) = 0)
      BY <2>1, Writers, EmptyQueue, CapacityAssumption
    <2>3. func = NoFunc
      BY <1>1 DEF PoppedIsRun
    <2>4. high = << >> => pipe <= Len(low) + N
      BY <2>1, <2>2, <2>3 DEF BytesAreAccounted, Popped
    <2> QED BY <2>4, <1>1 DEF FewBytesLeft
  <1> QED BY <1>2, <1>3, <1>4

(* The second check: the loop goes to sleep when none waits.               *)
LEMMA CheckLowStep == ASSUME QueueInv, CheckLow PROVE QueueInv'
  <1> USE DEF QueueInv
  <1>1. /\ loop = "check_low"
        /\ loop' = IF low # << >> THEN "more" ELSE "poll"
        /\ UNCHANGED <<fresh, high, low, pipe, ready, writing, func>>
    BY DEF CheckLow
  <1>2. TypeOK'
    BY <1>1 DEF TypeOK, Stages
  <1>3. PoppedIsRun' /\ BytesAreAccounted' /\ NoBytesLeft' /\ PushBehindCheck' /\ NoLostWakeup'
    BY <1>1 DEF PoppedIsRun, BytesAreAccounted, Popped, NoBytesLeft, PushBehindCheck, NoLostWakeup
  <1>4. FewBytesLeft'
    <2>1. N \in Nat
      BY Writers
    <2>2. low = << >> => Len(low) + N = N
      BY <2>1
    <2> QED BY <2>2, <1>1 DEF FewBytesLeft
  <1> QED BY <1>2, <1>3, <1>4

(* The loop wakes or goes round: nothing is promised until its next round. *)
LEMMA RoundStep == ASSUME QueueInv, Continue \/ PollSpawned \/ PollOther PROVE QueueInv'
  <1>1. /\ loop' = "pop" /\ func = NoFunc /\ ready' \in BOOLEAN
        /\ UNCHANGED <<fresh, high, low, pipe, writing, func>>
    BY DEF Continue, ContinueX11, ContinueWayland, PollSpawned, PollOther, QueueInv, TypeOK, PoppedIsRun
  <1> QED
    BY <1>1 DEF QueueInv, TypeOK, Stages, PoppedIsRun, BytesAreAccounted, Popped, FewBytesLeft,
                NoBytesLeft, PushBehindCheck, NoLostWakeup

LEMMA StutterStep == ASSUME QueueInv, UNCHANGED vars PROVE QueueInv'
  BY DEF vars, QueueInv, TypeOK, PoppedIsRun, BytesAreAccounted, Popped, FewBytesLeft, NoBytesLeft,
         PushBehindCheck, NoLostWakeup

THEOREM QueueInvariance == Spec => []QueueInv
  <1>1. Init => QueueInv
    BY QueueInitially
  <1>2. QueueInv /\ [Next]_vars => QueueInv'
    BY PushStep, SignalStep, PopStep, ReturnStep, DrainStep, CheckHighStep, CheckLowStep, RoundStep,
       StutterStep DEF Next, Run
  <1> QED BY <1>1, <1>2, PTL DEF Spec

-----------------------------------------------------------------------------
(* Results.                                                                *)

(* Every field of the queue and of the loop keeps its type, so the pipe    *)
(* never holds more than its capacity and a round never runs a function    *)
(* that it did not pop.                                                    *)
THEOREM QueueTypeCorrect == Spec => []TypeOK
  <1>1. QueueInv => TypeOK
    BY DEF QueueInv
  <1> QED BY <1>1, QueueInvariance, PTL

(* The main loop never sleeps on a function without a wakeup on its way.   *)
THEOREM WakeupGuaranteed == Spec => []NoLostWakeup
  <1>1. QueueInv => NoLostWakeup
    BY DEF QueueInv
  <1> QED BY <1>1, QueueInvariance, PTL

(* A sleeping loop has room in its pipe: the wakeup of the next spawn is   *)
(* never dropped.                                                          *)
THEOREM RoomForWakeup == Spec => []SleepsWithRoomInPipe
  <1>1. ASSUME QueueInv PROVE SleepsWithRoomInPipe
    <2>1. N \in Nat \ {0} /\ N < Capacity /\ Capacity \in Nat /\ EveryWriteWakes \in BOOLEAN
      BY Writers, CapacityAssumption, KernelAssumption DEF N
    <2>2. pipe \in 0 .. Capacity
      BY <1>1 DEF QueueInv, TypeOK
    <2> QED BY <1>1, <2>1, <2>2 DEF QueueInv, FewBytesLeft, NoBytesLeft, SleepsWithRoomInPipe
  <1> QED BY <1>1, QueueInvariance, PTL

(* A sleeping loop is woken by every spawn.                                *)
THEOREM WakeupAlwaysComes == Spec => []WakeupComes
  <1>1. NoLostWakeup /\ SleepsWithRoomInPipe => WakeupComes
    BY DEF WakeupComes
  <1> QED BY <1>1, WakeupGuaranteed, RoomForWakeup, PTL

(* Every step of the queue is a step of the executor that the promise      *)
(* crate promises, or does not touch it: one function at a time, in the    *)
(* order of spawning, normal priority first.                               *)
THEOREM RefinesExecutor == Spec => Executor!Spec
  <1>1. Init => Executor!Init
    BY DEF Init, Executor!Init
  <1>2. ASSUME QueueInv, [Next]_vars PROVE [Executor!Next]_(Executor!vars)
    <2> USE <1>2 DEF Executor!vars
    <2>1. ASSUME NEW t \in Threads, Push(t) PROVE Executor!SpawnHigh \/ Executor!SpawnLow
      BY <2>1 DEF Push, Executor!SpawnHigh, Executor!SpawnLow
    <2>2. ASSUME NEW t \in Threads, Signal(t) PROVE UNCHANGED Executor!vars
      BY <2>2 DEF Signal
    <2>3. CASE Pop
      BY <2>3, NoFuncAssumption DEF Pop, Executor!StartHigh, Executor!StartLow, Executor!Next, Executor!Start
    <2>4. CASE Return
      BY <2>4 DEF Return, QueueInv, PoppedIsRun, Executor!Finish, Executor!Next
    <2>5. CASE Drain \/ CheckHigh \/ CheckLow \/ Continue \/ PollSpawned \/ PollOther
      BY <2>5 DEF Drain, CheckHigh, CheckLow, Continue, ContinueX11, ContinueWayland, PollSpawned, PollOther
    <2>6. CASE UNCHANGED vars
      BY <2>6 DEF vars
    <2> QED BY <2>1, <2>2, <2>3, <2>4, <2>5, <2>6 DEF Next, Run, Executor!Next
  <1> QED BY <1>1, <1>2, QueueInvariance, PTL DEF Spec, Executor!Spec

-----------------------------------------------------------------------------
(***************************************************************************)
(* SettingsFile for any settings and any number of writes, edits and       *)
(* failures: the terminal and the settings window follow the file.         *)
(*                                                                         *)
(* What a process may rely on is that it has heard of every change or has  *)
(* it still before it (Heard): a change is news to who watches and missed  *)
(* by who does not.  For the terminal that is not enough: a load that      *)
(* fails because the file has gone must be followed by another.  It is,    *)
(* since the variable that demands the file (named) is set only while the  *)
(* terminal watches, and is cleared when a reload finds no file (Named).   *)
(***************************************************************************)

Texts == SUBSET Settings

Places == {"idle", "missing", "generating", "beside", "found", "loaded"}
Pages == {"closed", "missing", "loading", "open", "saving", "beside"}

Watches == [Processes -> [on : BOOLEAN, news : BOOLEAN, settling : BOOLEAN]]

Types ==
    /\ file \in Texts \cup {Absent, Torn}
    /\ terminal \in [at : Places, config : Texts, failed : BOOLEAN, named : BOOLEAN]
    /\ window \in [at : Pages, form : Texts, base : Texts, dirty : BOOLEAN, banner : BOOLEAN]
    /\ watch \in Watches
    /\ missed \in [Processes -> BOOLEAN]

\* Nothing that a process has heard or missed is still to be dealt with.
Heard(p) == Quiet(p) /\ ~ missed[p]

(* The terminal demands a file only when it would hear of its loss.        *)
Named ==
    terminal.named =>
        /\ terminal.at \notin {"missing", "generating", "beside"}
        /\ terminal.at = "loaded" \/ watch["terminal"].on
        /\ terminal.at = "found" /\ Quiet("terminal") => file # Absent

(* From the load on, terminal and file agree.                              *)
Synced == terminal.at \in {"idle", "loaded"} /\ Heard("terminal") => InSync

FileInv == Types /\ Named /\ Synced /\ WindowFollowsTheFile

------------------------------------------------------------------------------
(* Changes of the file, and steps of one process.                           *)

\* A change of the file is news to a process that watches, and is missed by
\* one that does not: nobody has heard of it.
LEMMA ChangesTells ==
    ASSUME Types, NEW content \in Texts \cup {Absent, Torn}, Changes(content)
    PROVE  /\ file' = content
           /\ watch' \in Watches /\ missed' \in [Processes -> BOOLEAN]
           /\ \A p \in Processes : /\ watch'[p].on = watch[p].on
                                   /\ watch'[p].on => ~ Quiet(p)'
                                   /\ ~ Heard(p)'
  <1>1. \A p \in Processes : watch[p] \in [on : BOOLEAN, news : BOOLEAN, settling : BOOLEAN]
    BY DEF Types, Watches
  <1>2. \A p \in Processes : /\ watch'[p] = [watch[p] EXCEPT !.news = @ \/ watch[p].on]
                             /\ missed'[p] = (missed[p] \/ ~ watch[p].on)
    BY DEF Changes
  <1>3. watch' \in Watches
    BY <1>1 DEF Changes, Watches
  <1>4. missed' \in [Processes -> BOOLEAN]
    BY <1>1 DEF Changes, Types
  <1>5. ASSUME NEW p \in Processes
        PROVE  /\ watch'[p].on = watch[p].on
               /\ watch'[p].on => ~ Quiet(p)'
               /\ ~ Heard(p)'
    BY <1>1, <1>2 DEF Quiet, Heard
  <1> QED  BY <1>3, <1>4, <1>5 DEF Changes

\* The window stays as it is, and what it has heard of has not changed.
LEMMA WindowKept ==
    ASSUME WindowFollowsTheFile, UNCHANGED window,
           Heard("window")' => Heard("window") /\ file' = file
    PROVE  WindowFollowsTheFile'
  BY DEF WindowFollowsTheFile, Heard, WindowAt, Loads

\* The same of the terminal, which a change can also catch with a file that
\* has lost its name.
LEMMA TerminalKept ==
    ASSUME Named, Synced,
           \/ terminal' = terminal
           \/ terminal' = [terminal EXCEPT !.at = "beside"] /\ terminal.at = "generating",
           Types, Types',
           watch'["terminal"].on = watch["terminal"].on,
           Heard("terminal")' => Heard("terminal") /\ file' = file,
           watch'["terminal"].on /\ Quiet("terminal")' => Quiet("terminal") /\ file' = file
    PROVE  Named' /\ Synced'
  BY DEF Named, Synced, InSync, Types

\* Any change of the file that leaves the terminal alone: it falls to no
\* process as heard.
LEMMA Changed ==
    ASSUME FileInv, NEW content \in Texts \cup {Absent, Torn}, Changes(content), Types',
           \/ terminal' = terminal
           \/ terminal' = [terminal EXCEPT !.at = "beside"] /\ terminal.at = "generating"
    PROVE  FileInv'
  <1>1. \A p \in Processes : /\ watch'[p].on = watch[p].on
                             /\ watch'[p].on => ~ Quiet(p)'
                             /\ ~ Heard(p)'
    BY ChangesTells DEF FileInv
  <1>2. ~ Heard("window")' /\ ~ Heard("terminal")'
    BY <1>1 DEF Processes
  <1>3. WindowFollowsTheFile'
    BY <1>2 DEF WindowFollowsTheFile, Heard
  <1>4. Named' /\ Synced'
    BY <1>1, <1>2, TerminalKept DEF FileInv, Processes
  <1> QED  BY <1>3, <1>4 DEF FileInv

\* Nothing that matters changed.
LEMMA SameStep ==
    ASSUME FileInv, UNCHANGED <<file, terminal, window, watch, missed>>
    PROVE  FileInv'
  BY DEF FileInv, Types, Named, Synced, InSync, Heard, Quiet, WindowFollowsTheFile,
         WindowAt, Loads

\* The window alone moved, and is open only if it follows the file.
LEMMA WindowMoved ==
    ASSUME FileInv, Types', WindowFollowsTheFile',
           UNCHANGED <<file, terminal>>,
           watch'["terminal"] = watch["terminal"], missed'["terminal"] = missed["terminal"]
    PROVE  FileInv'
  <1>1. Named' /\ Synced'
    BY DEF FileInv, Named, Synced, InSync, Heard, Quiet
  <1> QED  BY <1>1 DEF FileInv

\* The terminal alone moved.
LEMMA TerminalMoved ==
    ASSUME FileInv, Types', Named', Synced',
           UNCHANGED <<file, window>>,
           watch'["window"] = watch["window"], missed'["window"] = missed["window"]
    PROVE  FileInv'
  <1>1. WindowFollowsTheFile'
    BY DEF FileInv, WindowFollowsTheFile, WindowAt, Loads, Quiet
  <1> QED  BY <1>1 DEF FileInv

------------------------------------------------------------------------------
(* The terminal.                                                            *)

\* A watcher that lets its news settle has not heard all.
LEMMA WakesStep ==
    ASSUME FileInv, NEW p \in Processes, Wakes(p)
    PROVE  FileInv'
  <1>1. /\ watch' = [watch EXCEPT ![p] = [@ EXCEPT !.news = FALSE, !.settling = TRUE]]
        /\ UNCHANGED <<file, terminal, window, missed>>
        /\ watch[p] \in [on : BOOLEAN, news : BOOLEAN, settling : BOOLEAN]
    BY DEF Wakes, FileInv, Types, Watches
  <1>2. Types'
    BY <1>1 DEF FileInv, Types, Watches
  <1>3. /\ watch'[p].on = watch[p].on /\ ~ Quiet(p)'
        /\ \A q \in Processes : q # p => watch'[q] = watch[q]
    BY <1>1 DEF FileInv, Types, Watches, Quiet
  <1>4. CASE p = "terminal"
    <2>1. watch'["window"] = watch["window"]
      BY <1>3, <1>4 DEF Processes
    <2>2. Named' /\ Synced'
      BY <1>1, <1>2, <1>3, <1>4, TerminalKept DEF FileInv, Heard
    <2> QED  BY <1>1, <1>2, <2>1, <2>2, TerminalMoved
  <1>5. CASE p = "window"
    <2>1. watch'["terminal"] = watch["terminal"]
      BY <1>3, <1>5 DEF Processes
    <2>2. WindowFollowsTheFile'
      BY <1>3, <1>5 DEF WindowFollowsTheFile
    <2> QED  BY <1>1, <1>2, <2>1, <2>2, WindowMoved
  <1> QED  BY <1>4, <1>5 DEF Processes

\* What the end of the wait does to the watches.
LEMMA Settled ==
    ASSUME Types, NEW p \in Processes, Settles(p)
    PROVE  /\ watch' \in Watches
           /\ watch'[p].on = watch[p].on
           /\ \A q \in Processes : q # p => watch'[q] = watch[q]
  <1>1. PICK late \in {FALSE, watch[p].news} :
           watch' = [watch EXCEPT ![p].news = late, ![p].settling = FALSE]
    BY DEF Settles
  <1>2. /\ watch[p] \in [on : BOOLEAN, news : BOOLEAN, settling : BOOLEAN]
        /\ late \in BOOLEAN /\ watch \in Watches
    BY DEF Types, Watches
  <1> DEFINE w == [watch[p] EXCEPT !.news = late, !.settling = FALSE]
  <1>3. w \in [on : BOOLEAN, news : BOOLEAN, settling : BOOLEAN] /\ w.on = watch[p].on
    BY <1>2
  <1>4. watch' = [watch EXCEPT ![p] = w]
    BY <1>1, <1>2 DEF Watches
  <1> HIDE DEF w
  <1> QED  BY <1>2, <1>3, <1>4 DEF Watches

\* A reload begins: a missing file is noticed, and the variable that names it
\* cleared, before the load, so a load that is to find a file under this name
\* was begun when there was one.
LEMMA LookStep ==
    ASSUME FileInv, Look, UNCHANGED <<file, window, missed>>, watch' \in Watches,
           watch'["terminal"].on = watch["terminal"].on,
           watch'["window"] = watch["window"]
    PROVE  FileInv'
  <1>1. Types'
    BY DEF FileInv, Types, Look, Places
  <1>2. Named'
    BY DEF FileInv, Types, Named, Look, TermAt
  <1>3. Synced'
    BY DEF FileInv, Types, Synced, Look
  <1> QED  BY <1>1, <1>2, <1>3, TerminalMoved

\* A reload that is asked for, or that news brings about.
LEMMA ReloadStep ==
    ASSUME FileInv, Reload \/ ReloadSettled PROVE FileInv'
  <1>1. CASE Reload
    BY <1>1, LookStep DEF Reload, FileInv, Types
  <1>2. CASE ReloadSettled
    <2>1. "terminal" \in Processes /\ "window" \in Processes
      BY DEF Processes
    <2> QED  BY <1>2, <2>1, Settled, LookStep DEF ReloadSettled, FileInv
  <1> QED  BY <1>1, <1>2

\* The terminal makes the file: it changes the file itself, in the midst of a
\* reload.
LEMMA GenerateStep ==
    ASSUME ShippedAssumption, FileInv, Generate PROVE FileInv'
  <1>1. ASSUME NEW content \in Texts, Changes(content), ~ terminal.named,
               NEW place \in {"generating", "found"},
               terminal' = [terminal EXCEPT !.at = place], UNCHANGED window
        PROVE  FileInv'
    <2>1. ~ Heard("window")' /\ watch' \in Watches /\ missed' \in [Processes -> BOOLEAN] /\ file' = content
      BY <1>1, ChangesTells DEF FileInv, Processes
    <2>2. Types'
      BY <1>1, <2>1 DEF FileInv, Types, Places
    <2>3. Named' /\ Synced'
      BY <1>1 DEF FileInv, Types, Named, Synced
    <2>4. WindowFollowsTheFile'
      BY <2>1 DEF WindowFollowsTheFile, Heard
    <2> QED  BY <2>2, <2>3, <2>4 DEF FileInv
  <1>2. ASSUME UNCHANGED <<file, watch, missed, window>>, ~ terminal.named,
               terminal' = [terminal EXCEPT !.at = "found"]
        PROVE  FileInv'
    <2>1. Types'
      BY <1>2 DEF FileInv, Types, Places
    <2>2. Named' /\ Synced'
      BY <1>2 DEF FileInv, Types, Named, Synced
    <2> QED  BY <1>2, <2>1, <2>2, TerminalMoved
  <1>3. TermAt("missing") \/ TermAt("generating") \/ TermAt("beside") => ~ terminal.named
    BY DEF FileInv, Named, TermAt
  <1>4. CASE TermAt("missing") /\ Changes({}) /\ terminal' = [terminal EXCEPT !.at = "generating"]
             /\ UNCHANGED window
    BY <1>1, <1>3, <1>4 DEF Texts
  <1>5. CASE TermAt("generating") /\ Changes(Shipped) /\ terminal' = [terminal EXCEPT !.at = "found"]
             /\ UNCHANGED window
    BY <1>1, <1>3, <1>5 DEF Texts, ShippedAssumption
  <1>6. CASE (TermAt("missing") \/ TermAt("beside")) /\ Keeps
             /\ terminal' = [terminal EXCEPT !.at = "found"] /\ UNCHANGED window
    BY <1>2, <1>3, <1>6 DEF Keeps
  <1> QED  BY <1>4, <1>5, <1>6 DEF Generate

\* try_load: whatever it finds, terminal and file agree afterwards, unless
\* there is news. That a file is gone which the variable demands is news.
LEMMA LoadStep ==
    ASSUME ContentAssumption, FileInv, Load PROVE FileInv'
  <1>1. /\ TermAt("found") /\ UNCHANGED <<file, window, watch>>
        /\ missed' = [missed EXCEPT !["terminal"] = FALSE]
        /\ Types /\ Named
    BY DEF Load, FileInv
  <1>2. missed' \in [Processes -> BOOLEAN] /\ missed'["window"] = missed["window"]
    BY <1>1 DEF Types, Processes
  <1>3. Loads => file \in Texts
    BY <1>1 DEF Types, Loads
  <1>4. CASE Loads
    <2>1. terminal' = [at |-> "loaded", config |-> file, failed |-> FALSE, named |-> TRUE]
      BY <1>4 DEF Load
    <2>2. Types'
      BY <1>1, <1>2, <1>3, <1>4, <2>1 DEF Types, Places
    <2>3. Named' /\ Synced'
      BY <1>1, <1>4, <2>1 DEF Named, Synced, InSync, Loads
    <2> QED  BY <1>1, <1>2, <2>2, <2>3, TerminalMoved
  <1>5. CASE ~ Loads /\ file = Absent /\ ~ terminal.named
    <2>1. terminal' = [at |-> "loaded", config |-> {}, failed |-> FALSE, named |-> FALSE]
      BY <1>5 DEF Load
    <2>2. Types'
      BY <1>1, <1>2, <2>1 DEF Types, Places, Texts
    <2>3. Named' /\ Synced'
      BY <1>1, <1>5, <2>1 DEF Named, Synced, InSync, ContentAssumption
    <2> QED  BY <1>1, <1>2, <2>2, <2>3, TerminalMoved
  <1>6. CASE ~ Loads /\ ~ (file = Absent /\ ~ terminal.named)
    <2>1. terminal' = [terminal EXCEPT !.at = "loaded", !.failed = TRUE]
      BY <1>6 DEF Load
    <2>2. Types'
      BY <1>1, <1>2, <2>1 DEF Types, Places
    <2>3. Named'
      BY <1>1, <2>1 DEF Types, Named
    <2>4. Heard("terminal")' => file = Torn
      BY <1>1, <1>6 DEF Named, Heard, Quiet, TermAt, Loads
    <2>5. Synced'
      BY <1>1, <2>1, <2>4 DEF Types, Synced, InSync
    <2> QED  BY <1>1, <1>2, <2>2, <2>3, <2>5, TerminalMoved
  <1> QED  BY <1>4, <1>5, <1>6

\* The watch of the terminal.
LEMMA WatchStep ==
    ASSUME FileInv, Watch PROVE FileInv'
  <1>1. /\ terminal.at = "loaded" /\ terminal' = [terminal EXCEPT !.at = "idle"]
        /\ watch' = [watch EXCEPT !["terminal"] = [@ EXCEPT !.on = TRUE]]
        /\ UNCHANGED <<file, window, missed>> /\ Types /\ Named /\ Synced
    BY DEF Watch, FileInv, TermAt
  <1>2. watch["terminal"] \in [on : BOOLEAN, news : BOOLEAN, settling : BOOLEAN]
    BY <1>1 DEF Types, Watches, Processes
  <1>3. /\ watch' \in Watches /\ watch'["window"] = watch["window"]
        /\ watch'["terminal"].on /\ Quiet("terminal")' = Quiet("terminal")
    BY <1>1, <1>2 DEF Types, Watches, Processes, Quiet
  <1>4. Types'
    BY <1>1, <1>3 DEF Types, Places
  <1>5. Named' /\ Synced'
    BY <1>1, <1>3 DEF Types, Named, Synced, Heard, InSync
  <1> QED  BY <1>1, <1>3, <1>4, <1>5, TerminalMoved

------------------------------------------------------------------------------
(* The settings window.                                                     *)

Content == IF Loads THEN file ELSE {}

\* What reload_from_disk makes of the file.
LEMMA Formed ==
    ASSUME Types, NEW w \in [at : Pages, form : Texts, base : Texts, dirty : BOOLEAN, banner : BOOLEAN]
    PROVE  /\ Loaded(w) = [w EXCEPT !.form = Content, !.base = Content]
           /\ Content \in Texts
  BY DEF Types, Loaded, Content, Loads, Texts

\* Every step that loads the form.
LEMMA Reformed ==
    ASSUME FileInv, UNCHANGED <<file, terminal>>,
           NEW w \in [at : Pages, form : Texts, base : Texts, dirty : BOOLEAN, banner : BOOLEAN],
           window' = Loaded(w), watch' \in Watches, missed' \in [Processes -> BOOLEAN],
           watch'["terminal"] = watch["terminal"], missed'["terminal"] = missed["terminal"]
    PROVE  FileInv'
  <1>1. window' = [w EXCEPT !.form = Content, !.base = Content] /\ Content \in Texts
    BY Formed DEF FileInv
  <1>2. Content' = Content
    BY DEF Content, Loads
  <1>3. Types'
    BY <1>1 DEF FileInv, Types
  <1>4. window'.base = Content /\ window'.form = window'.base
    BY <1>1
  <1>5. WindowFollowsTheFile'
    BY <1>2, <1>4 DEF WindowFollowsTheFile, Content
  <1> QED  BY <1>3, <1>5, WindowMoved

\* The window shows no form: there is nothing to say about it.
LEMMA NotOpen ==
    ASSUME FileInv, UNCHANGED <<file, terminal, missed>>, watch' \in Watches,
           watch'["terminal"] = watch["terminal"],
           window' \in [at : Pages, form : Texts, base : Texts, dirty : BOOLEAN, banner : BOOLEAN],
           window'.at # "open"
    PROVE  FileInv'
  <1>1. Types'
    BY DEF FileInv, Types
  <1>2. WindowFollowsTheFile'
    BY DEF WindowFollowsTheFile, WindowAt
  <1> QED  BY <1>1, <1>2, WindowMoved

\* A window that is closed, and its watch.
LEMMA ClosedIs ==
    /\ Closed \in [at : Pages, form : Texts, base : Texts, dirty : BOOLEAN, banner : BOOLEAN]
    /\ Closed.at = "closed"
    /\ Deaf \in [on : BOOLEAN, news : BOOLEAN, settling : BOOLEAN]
  BY DEF Closed, Pages, Texts, Deaf

\* The window opens.
LEMMA OpenStep ==
    ASSUME FileInv, Open PROVE FileInv'
  <1>1. PICK page \in {"missing", "loading"} : window' = [Closed EXCEPT !.at = page]
    BY DEF Open
  <1>2. /\ window' \in [at : Pages, form : Texts, base : Texts, dirty : BOOLEAN, banner : BOOLEAN]
        /\ window'.at # "open"
    BY <1>1, ClosedIs DEF Pages
  <1>3. watch \in Watches
    BY DEF FileInv, Types
  <1> QED  BY <1>2, <1>3, NotOpen DEF Open

\* The window makes the file.
LEMMA WriteTemplateStep ==
    ASSUME FileInv, WriteTemplate PROVE FileInv'
  <1>1. /\ Changes({}) /\ {} \in Texts /\ terminal' = terminal
        /\ window' = [window EXCEPT !.at = "loading"]
    BY DEF WriteTemplate, Texts
  <1>2. Types'
    BY <1>1, ChangesTells DEF FileInv, Types, Pages
  <1> QED  BY <1>1, <1>2, Changed

\* The first load of the form.
LEMMA LoadFormStep ==
    ASSUME FileInv, LoadForm PROVE FileInv'
  <1> DEFINE w == [window EXCEPT !.at = "open"]
  <1>1. w \in [at : Pages, form : Texts, base : Texts, dirty : BOOLEAN, banner : BOOLEAN]
    BY DEF FileInv, Types, Pages
  <1>2. missed' \in [Processes -> BOOLEAN] /\ missed'["terminal"] = missed["terminal"]
    BY DEF FileInv, Types, LoadForm, Processes
  <1>3. window' = Loaded(w) /\ UNCHANGED <<file, terminal, watch>> /\ watch \in Watches
    BY DEF LoadForm, FileInv, Types
  <1> HIDE DEF w
  <1> QED  BY <1>1, <1>2, <1>3, Reformed

\* The watch of the window.
LEMMA StartWatchStep ==
    ASSUME FileInv, StartWatch PROVE FileInv'
  <1>1. /\ watch' = [watch EXCEPT !["window"] = [@ EXCEPT !.on = TRUE]]
        /\ UNCHANGED <<file, terminal, window, missed>> /\ Types /\ WindowFollowsTheFile
        /\ watch["window"] \in [on : BOOLEAN, news : BOOLEAN, settling : BOOLEAN]
    BY DEF StartWatch, FileInv, Types, Watches, Processes
  <1>2. /\ watch' \in Watches /\ watch'["terminal"] = watch["terminal"]
        /\ Quiet("window")' = Quiet("window")
    BY <1>1 DEF Types, Watches, Processes, Quiet
  <1>3. Types'
    BY <1>1, <1>2 DEF Types
  <1>4. WindowFollowsTheFile'
    BY <1>1, <1>2, WindowKept DEF Heard
  <1> QED  BY <1>1, <1>2, <1>3, <1>4, WindowMoved

\* A change in the form makes it dirty.
LEMMA EditStep ==
    ASSUME FileInv, NEW s \in Settings, Edit(s) PROVE FileInv'
  <1>1. PICK form \in Texts : window' = [window EXCEPT !.form = form, !.dirty = TRUE]
    BY DEF Edit, FileInv, Types, Texts
  <1>2. UNCHANGED <<file, terminal, watch, missed>> /\ Types /\ WindowFollowsTheFile
    BY DEF Edit, FileInv
  <1>3. Types'
    BY <1>1, <1>2 DEF Types
  <1>4. WindowFollowsTheFile'
    BY <1>1, <1>2 DEF Types, WindowFollowsTheFile, WindowAt, Quiet, Loads
  <1> QED  BY <1>2, <1>3, <1>4, WindowMoved

\* The handler of the watcher: a form with changes is kept, and the banner
\* says so.
LEMMA HearOfChangeStep ==
    ASSUME FileInv, HearOfChange PROVE FileInv'
  <1>1. /\ Types /\ Settles("window") /\ UNCHANGED <<file, terminal>>
        /\ missed' = [missed EXCEPT !["window"] = @ /\ window.dirty]
    BY DEF FileInv, HearOfChange
  <1>2. watch' \in Watches /\ watch'["terminal"] = watch["terminal"]
    BY <1>1, Settled DEF Processes
  <1>3. missed' \in [Processes -> BOOLEAN] /\ missed'["terminal"] = missed["terminal"]
    BY <1>1 DEF Types, Processes
  <1>4. CASE window.dirty
    <2>1. window' = [window EXCEPT !.banner = TRUE]
      BY <1>4 DEF HearOfChange
    <2>2. Types'
      BY <1>1, <1>2, <1>3, <2>1 DEF Types
    <2>3. WindowFollowsTheFile'
      BY <1>1, <2>1 DEF Types, WindowFollowsTheFile
    <2> QED  BY <1>1, <1>2, <1>3, <2>2, <2>3, WindowMoved
  <1>5. CASE ~ window.dirty
    <2>1. window' = Loaded(window)
      BY <1>5 DEF HearOfChange
    <2> QED  BY <1>1, <1>2, <1>3, <2>1, Reformed DEF Types
  <1> QED  BY <1>4, <1>5

\* The button of the banner.
LEMMA DiscardStep ==
    ASSUME FileInv, Discard PROVE FileInv'
  <1> DEFINE w == [window EXCEPT !.dirty = FALSE, !.banner = FALSE]
  <1>1. w \in [at : Pages, form : Texts, base : Texts, dirty : BOOLEAN, banner : BOOLEAN]
    BY DEF FileInv, Types
  <1>2. missed' \in [Processes -> BOOLEAN] /\ missed'["terminal"] = missed["terminal"]
    BY DEF FileInv, Types, Discard, Processes
  <1>3. window' = Loaded(w) /\ UNCHANGED <<file, terminal, watch>> /\ watch \in Watches
    BY DEF Discard, FileInv, Types
  <1> HIDE DEF w
  <1> QED  BY <1>1, <1>2, <1>3, Reformed

\* save, its two writes and its failure: news for the terminal, or missed by
\* it.
LEMMA SaveStep ==
    ASSUME FileInv, Save PROVE FileInv'
  <1>1. Types /\ Named /\ Synced /\ window.form \in Texts /\ watch["terminal"].on \in BOOLEAN
        /\ watch["terminal"] \in [on : BOOLEAN, news : BOOLEAN, settling : BOOLEAN]
    BY DEF FileInv, Types, Watches, Processes
  <1>2. CASE Changes({}) /\ window' = [window EXCEPT !.at = "saving"] /\ terminal' = terminal
    <2>1. {} \in Texts
      BY DEF Texts
    <2>2. Types'
      BY <1>1, <1>2, <2>1, ChangesTells DEF Types, Pages
    <2> QED  BY <1>2, <2>1, <2>2, Changed
  <1>3. CASE /\ file' = window.form
             /\ watch' = [watch EXCEPT !["terminal"].news = @ \/ watch["terminal"].on, !["window"] = Deaf]
             /\ missed' = [missed EXCEPT !["terminal"] = @ \/ ~ watch["terminal"].on]
             /\ window' = Closed
             /\ terminal' = terminal
    <2>1. /\ watch'["terminal"] = [watch["terminal"] EXCEPT !.news = @ \/ watch["terminal"].on]
          /\ missed'["terminal"] = (missed["terminal"] \/ ~ watch["terminal"].on)
          /\ missed' \in [Processes -> BOOLEAN]
      BY <1>1, <1>3 DEF Types, Watches, Processes
    <2>2. watch' \in Watches
      BY <1>1, <1>3, ClosedIs DEF Types, Watches, Processes
    <2>3. /\ watch'["terminal"].on = watch["terminal"].on
          /\ ~ (watch'["terminal"].on /\ Quiet("terminal")')
          /\ ~ Heard("terminal")'
      BY <1>1, <2>1 DEF Quiet, Heard
    <2>4. Types'
      BY <1>1, <1>3, <2>1, <2>2, ClosedIs DEF Types
    <2>5. Named' /\ Synced'
      BY <1>1, <1>3, <2>3, <2>4, TerminalKept
    <2>6. WindowFollowsTheFile'
      BY <1>3, ClosedIs DEF WindowFollowsTheFile, WindowAt
    <2> QED  BY <2>4, <2>5, <2>6 DEF FileInv
  <1>4. CASE Changes(Torn) /\ window' = [window EXCEPT !.at = "open"] /\ terminal' = terminal
    <2>1. Types'
      BY <1>1, <1>4, ChangesTells DEF Types, Pages
    <2> QED  BY <1>4, <2>1, Changed
  <1>5. CASE /\ window' = Closed /\ watch' = [watch EXCEPT !["window"] = Deaf]
             /\ UNCHANGED <<file, terminal, missed>>
    <2>1. watch' \in Watches /\ watch'["terminal"] = watch["terminal"]
      BY <1>1, <1>5, ClosedIs DEF Types, Watches, Processes
    <2> QED  BY <1>5, <2>1, ClosedIs, NotOpen
  <1> QED  BY <1>2, <1>3, <1>4, <1>5 DEF Save

\* The window closes.
LEMMA CloseStep ==
    ASSUME FileInv, Close PROVE FileInv'
  <1>1. /\ window' = Closed /\ watch' = [watch EXCEPT !["window"] = Deaf]
        /\ UNCHANGED <<file, terminal, missed>>
    BY DEF Close
  <1>2. watch' \in Watches /\ watch'["terminal"] = watch["terminal"]
    BY <1>1, ClosedIs DEF FileInv, Types, Watches, Processes
  <1> QED  BY <1>1, <1>2, ClosedIs, NotOpen

------------------------------------------------------------------------------
(* Other programs.                                                          *)

\* Another program writes the file.
LEMMA WriteInPlaceStep ==
    ASSUME FileInv, WriteInPlace PROVE FileInv'
  <1>1. PICK content \in Texts \cup {Absent, Torn} :
           Changes(content) /\ UNCHANGED <<terminal, window>>
    <2>1. CASE Changes({}) /\ UNCHANGED <<terminal, window>>
      BY <2>1 DEF Texts
    <2>2. CASE /\ \E content \in {Torn} \cup SUBSET Settings : Changes(content)
               /\ UNCHANGED <<terminal, window>>
      <3>1. PICK content \in {Torn} \cup SUBSET Settings : Changes(content)
        BY <2>2
      <3>2. content \in Texts \cup {Absent, Torn}
        BY <3>1 DEF Texts
      <3> QED  BY <2>2, <3>1, <3>2
    <2> QED  BY <2>1, <2>2 DEF WriteInPlace
  <1>2. Types'
    BY <1>1, ChangesTells DEF FileInv, Types
  <1> QED  BY <1>1, <1>2, Changed

\* Another program replaces or removes the file, under the hands of who is
\* writing it.
LEMMA ReplaceOrDeleteStep ==
    ASSUME FileInv, ReplaceOrDelete PROVE FileInv'
  <1>1. PICK content \in Texts \cup {Absent, Torn} : Changes(content)
    <2>1. PICK content \in {Torn, Absent} \cup SUBSET Settings : Changes(content)
      BY DEF ReplaceOrDelete
    <2>2. content \in Texts \cup {Absent, Torn}
      BY <2>1 DEF Texts
    <2> QED  BY <2>1, <2>2
  <1>2. /\ terminal' = Beside(terminal) /\ window' = Beside(window) /\ Types
    BY DEF ReplaceOrDelete, FileInv
  <1>3. \/ terminal' = terminal
        \/ terminal' = [terminal EXCEPT !.at = "beside"] /\ terminal.at = "generating"
    BY <1>2 DEF Beside, Types, Places
  <1>4. \/ window' = window
        \/ window' = [window EXCEPT !.at = "beside"]
    BY <1>2 DEF Beside, Types, Pages
  <1>5. Types'
    BY <1>1, <1>2, <1>3, <1>4, ChangesTells DEF Types, Places, Pages
  <1> QED  BY <1>1, <1>3, <1>5, Changed

------------------------------------------------------------------------------
(* The theorems.                                                            *)

\* Nothing is heard of the file at first.
LEMMA FileInitially ==
    ASSUME FileInit PROVE FileInv
  <1>1. Types
    BY ClosedIs DEF FileInit, Types, Watches, Places, Texts
  <1>2. Named
    BY DEF FileInit, Named
  <1>3. Synced
    BY DEF FileInit, Synced, Heard, Processes
  <1>4. WindowFollowsTheFile
    BY DEF FileInit, WindowFollowsTheFile, Processes
  <1> QED  BY <1>1, <1>2, <1>3, <1>4 DEF FileInv

\* Every step keeps the invariant.
LEMMA FileAlways ==
    ASSUME ShippedAssumption, ContentAssumption, FileInv, [FileNext]_fileVars PROVE FileInv'
  <1>1. CASE UNCHANGED fileVars
    BY <1>1, SameStep DEF fileVars
  <1>2. CASE Reload \/ Terminal
    <2>1. CASE Wakes("terminal")
      BY <2>1, WakesStep DEF Processes
    <2> QED  BY <1>2, <2>1, ReloadStep, GenerateStep, LoadStep, WatchStep
                DEF Terminal
  <1>3. CASE Window
    <2>1. CASE Wakes("window")
      BY <2>1, WakesStep DEF Processes
    <2>2. CASE \E s \in Settings : Edit(s)
      BY <2>2, EditStep
    <2> QED  BY <1>3, <2>1, <2>2, OpenStep, WriteTemplateStep, LoadFormStep,
                StartWatchStep,
                HearOfChangeStep, DiscardStep, SaveStep, CloseStep DEF Window
  <1>4. CASE WriteInPlace \/ ReplaceOrDelete
    BY <1>4, WriteInPlaceStep, ReplaceOrDeleteStep
  <1> QED  BY <1>1, <1>2, <1>3, <1>4 DEF FileNext

\* The invariant of the file of settings, for any settings and however often
\* the file is written, replaced and removed.
THEOREM FileInvariance ==
    ASSUME ShippedAssumption, ContentAssumption PROVE FileSpec => []FileInv
  <1>1. FileInit => FileInv
    BY FileInitially
  <1>2. FileInv /\ [FileNext]_fileVars => FileInv'
    BY FileAlways
  <1> QED  BY <1>1, <1>2, PTL DEF FileSpec

\* Once its news has been dealt with the terminal runs on what the file says,
\* or reports that it does not load (ConfigInner::reload, Config::load), and the
\* form is made of what the file says or the user has been told (ConfigUi),
\* whatever the two processes and other programs do to the file.
THEOREM FileIsFollowed ==
    ASSUME ShippedAssumption, ContentAssumption PROVE FileSpec => []FollowsTheFile
  <1>1. FileInv => TerminalFollowsTheFile
    BY DEF FileInv, Synced, Heard, TerminalFollowsTheFile, TermAt
  <1>2. FileInv => WindowFollowsTheFile
    BY DEF FileInv
  <1>3. FileInv => FollowsTheFile
    BY <1>1, <1>2 DEF FollowsTheFile
  <1> QED  BY <1>3, FileInvariance, PTL

=============================================================================
