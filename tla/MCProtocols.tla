----------------------------- MODULE MCProtocols -----------------------------
(***************************************************************************)
(* Small instances of protocols that share no state: the spawn queue of    *)
(* the main thread (SpawnQueue), tasks that await results of others        *)
(* (Awaits) and the file of settings between its readers and writers       *)
(* (SettingsFile).  A behavior is one of a single protocol, named by part, *)
(* with the fairness of that protocol.                                     *)
(***************************************************************************)
EXTENDS SpawnQueue, SettingsFile

CONSTANTS Promised, Threaded       \* the awaits

VARIABLES
    part,
    source, slot, waker, task

Tasks == INSTANCE Awaits

ASSUME Tasks!CallsAssumption
ASSUME ShippedAssumption /\ ContentAssumption /\ BoundsAssumption

taskVars == <<source, slot, waker, task>>
allVars == <<part, vars, taskVars, fileVars>>

MCInit ==
    /\ part \in {"queue", "tasks", "file"}
    /\ Init
    /\ Tasks!Init
    /\ FileInit
    /\ part # "file" => file = Absent

QueueStep(step) == part = "queue" /\ step /\ UNCHANGED <<part, taskVars, fileVars>>
TaskStep(step) == part = "tasks" /\ step /\ UNCHANGED <<part, vars, fileVars>>
FileStep(step) == part = "file" /\ step /\ UNCHANGED <<part, vars, taskVars>>

MCNext == QueueStep(Next) \/ TaskStep(Tasks!Next) \/ FileStep(FileNext)

\* The fairness of SpawnQueue, of Awaits and of SettingsFile.
MCFairSpec ==
    /\ MCInit /\ [][MCNext]_allVars
    /\ \A t \in Threads : WF_allVars(QueueStep(Signal(t)))
    /\ WF_allVars(QueueStep(Run))
    /\ WF_allVars(QueueStep(Continue))
    /\ WF_allVars(QueueStep(PollSpawned))
    /\ \A c \in Promised : WF_allVars(TaskStep(Tasks!PollFuture(c)))
    /\ \A c \in Threaded :
          /\ WF_allVars(TaskStep(Tasks!Wake(c)))
          /\ WF_allVars(TaskStep(Tasks!PollThread(c)))
    /\ WF_allVars(FileStep(Terminal))
    /\ WF_allVars(FileStep(writer = "writing" /\ WriteInPlace))
    /\ WF_allVars(FileStep(window.at # "open" /\ Save))

------------------------------------------------------------------------------
(* The property of Awaits, which says what it means.                        *)

\* A promise that is kept completes its future, and a thread that finds a waker
\* completes its task (Awaits).
AwaitedResultArrives == Tasks!KeptPromiseCompletes /\ Tasks!PolledThreadCompletes

=============================================================================
