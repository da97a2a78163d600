---------------------------- MODULE MuxLifecycle ----------------------------
(***************************************************************************)
(* The registry of the mux (mux/src/lib.rs): which panes, tabs and windows *)
(* it knows, how spawns bring them in and how they go.                     *)
(*                                                                         *)
(* A spawn awaits its domain between resolving its target and adding the   *)
(* pane.  A process that exits and a reader that meets the end of its pane *)
(* only schedule work for the main thread, and so do the activities that   *)
(* keep the mux from pruning while a spawn is under way.  The main thread  *)
(* runs what is scheduled in order, between the user's actions.  When the  *)
(* mux is found empty, the GUI schedules its own end.                      *)
(*                                                                         *)
(* Panes, tabs and windows are numbered in the order they are made; a Tab  *)
(* object lives on when the mux forgets it, for a spawn may still hold it. *)
(* The bounds are on the numbers of panes, tabs and windows, and each job  *)
(* spawns once.  What is queued for the main thread is bounded too, and    *)
(* how many panes are something else than a program that was started.      *)
(***************************************************************************)
EXTENDS Naturals, Sequences, FiniteSets

CONSTANTS
    MaxPanes, MaxTabs, MaxWindows,
    MaxScheduled,  \* no user acts and no thread ends while so much is queued
    Jobs,       \* the spawns that are asked for
    StartJob,   \* the one the program starts with
    Behaviours, \* the values of exit_behavior
    MaxSpecial  \* how many panes are not "program" (Origins), for each of these

ASSUME BoundsAssumption ==
    {MaxPanes, MaxTabs, MaxWindows, MaxScheduled} \subseteq Nat \ {0}
ASSUME StartAssumption == StartJob \in Jobs
ASSUME BehavioursAssumption ==
    Behaviours \subseteq {"Close", "Hold", "CloseOnCleanExit"} /\ Behaviours # {}
ASSUME SpecialAssumption == MaxSpecial \in [Behaviours -> Nat]

Panes == 1 .. MaxPanes
Tabs == 1 .. MaxTabs
Windows == 1 .. MaxWindows

VARIABLES
    behaviour,  \* the setting exit_behavior
    mux,        \* the registry, the objects in it and what it has scheduled
    jobs,       \* the spawns
    stray,      \* history: panes that a failed spawn or split put in no tab
    quit        \* the message loop of the GUI has ended

vars == <<behaviour, mux, jobs, stray, quit>>

\* What the main thread may find in its queue.
Prunes == [do |-> "prune"]
Removes(P) == [do |-> "remove", panes |-> P]
Quits == [do |-> "quit"]
Begins(j) == [do |-> "begin", job |-> j]

Tasks == [do : {"prune", "quit"}] \cup [do : {"remove"}, panes : SUBSET Panes]
           \cup [do : {"begin"}, job : Jobs]

JobKinds == {"tab", "window", "split"}
Job == [stage : {"idle", "asked", "spawning", "done"}, kind : JobKinds,
        held : BOOLEAN, window : Windows, tab : Tabs, pane : Panes]

\* What a pane was made of: a program, one that could not be started, or the
\* first pane of an ssh session, in which the connection is made.
Origins == {"program", "unstarted", "connecting", "connected"}

Registries ==
    [panes : SUBSET Panes, tabs : SUBSET Tabs, windows : SUBSET Windows,
     content : [Tabs -> SUBSET Panes], listing : [Windows -> SUBSET Tabs],
     process : [Panes -> {"unborn", "running", "exited", "failed", "pending", "dead"}],
     origin : [Panes -> Origins],
     killed : SUBSET Panes, reading : SUBSET Panes,
     nextTab : 1 .. MaxTabs + 1, nextWindow : 1 .. MaxWindows + 1,
     scheduled : Seq(Tasks)]

TypeOK ==
    /\ behaviour \in Behaviours
    /\ mux \in Registries
    /\ jobs \in [Jobs -> Job]
    /\ stray \subseteq Panes
    /\ quit \in BOOLEAN

Idle == [stage |-> "idle", kind |-> "window", held |-> TRUE,
         window |-> 1, tab |-> 1, pane |-> 1]

Init ==
    /\ behaviour \in Behaviours
    /\ mux = [panes |-> {}, tabs |-> {}, windows |-> {},
              content |-> [t \in Tabs |-> {}], listing |-> [w \in Windows |-> {}],
              process |-> [p \in Panes |-> "unborn"],
              origin |-> [p \in Panes |-> "program"], killed |-> {}, reading |-> {},
              nextTab |-> 1, nextWindow |-> 1, scheduled |-> <<Begins(StartJob)>>]
    /\ jobs = [[j \in Jobs |-> Idle] EXCEPT ![StartJob].stage = "asked"]
    /\ stray = {}
    /\ quit = FALSE

------------------------------------------------------------------------------
(* Activities: held by the commands of the GUI, by its start-up and by the  *)
(* builder of a new window.                                                 *)

Holds(j) ==
    \/ jobs[j].stage = "spawning" /\ (jobs[j].held \/ jobs[j].kind = "window")
    \/ j = StartJob /\ jobs[j].stage = "asked"

Busy == \E j \in Jobs : Holds(j)

\* Mutant: no prune follows the end of an activity.
MutReleased(j) == << >>

\* An activity that ends schedules a prune.
Released(j) == IF jobs[j].held THEN <<Prunes>> ELSE << >>
BuilderReleased(j) == IF jobs[j].kind = "window" THEN <<Prunes>> ELSE << >>

------------------------------------------------------------------------------
(* How the mux forgets panes, tabs and windows.                             *)

\* The tabs that splits under way hold: they outlive their registration.
Held == {jobs[j].tab : j \in {i \in Jobs : jobs[i].stage = "spawning"
                                           /\ jobs[i].kind = "split"}}

Listed(m) == UNION {m.listing[w] : w \in m.windows}

Newborn(m) == {p \in Panes : m.process[p] = "unborn"}

KillPanes(m, P) ==
    LET known == P \cap m.panes
    IN [m EXCEPT !.panes = @ \ known,
                 !.killed = @ \cup {p \in known : m.process[p] # "dead"}]

\* Mutant: the panes of a forgotten tab are kept.
MutForgetTabs(m, T) ==
    [m EXCEPT !.tabs = @ \ T, !.listing = [w \in Windows |-> @[w] \ T],
              !.content = [t \in Tabs |-> IF t \in T \ Held THEN {} ELSE @[t]]]

ForgetTabs(m, T) ==
    LET known == T \cap m.tabs
        bare == [m EXCEPT !.tabs = @ \ known,
                          !.listing = [w \in Windows |-> @[w] \ known]]
        killed == KillPanes(bare, UNION {m.content[t] : t \in known})
    IN [killed EXCEPT !.content = [t \in Tabs |-> IF t \in known \ Held THEN {} ELSE @[t]]]

ForgetWindow(m, w) ==
    IF w \in m.windows
      THEN [ForgetTabs(m, m.listing[w]) EXCEPT !.windows = @ \ {w}, !.listing[w] = {}]
      ELSE m

\* A pane that has something to tell of its start is not closed unasked.
ExitBehavior(m, p) ==
    IF m.origin[p] \in {"unstarted", "connecting"} THEN "CloseOnCleanExit" ELSE behaviour

\* What is_dead makes of a process: it notices the exit when it is called.
Noticed(m, p) ==
    LET done(ok) == IF ok THEN "dead" ELSE "pending"
        how == ExitBehavior(m, p)
    IN CASE m.process[p] = "exited" -> done(how # "Hold" \/ p \in m.killed)
         [] m.process[p] = "failed" ->
              done(how = "Close" \/ (how = "Hold" /\ p \in m.killed))
         [] m.process[p] = "pending" -> done(p \in m.killed)
         [] OTHER -> m.process[p]

Notice(m, P) ==
    [m EXCEPT !.process = [p \in Panes |-> IF p \in P THEN Noticed(m, p) ELSE @[p]],
              !.killed = {p \in @ : ~ /\ p \in P /\ m.process[p] = "failed"
                                      /\ ExitBehavior(m, p) = "CloseOnCleanExit"}]

IsDead(m, t) == \A p \in m.content[t] : m.process[p] = "dead"

\* The panes a listed tab loses; they are removed from the mux by a later task.
Lost(m, t) == {p \in m.content[t] : m.process[p] = "dead" \/ p \notin m.panes}

\* Mutant: the windows without tabs are not collected.
MutHollow(m) == {}

Hollow(m) == {w \in m.windows : m.listing[w] = {}}

\* The tabs of windows lose panes, which a later task removes from the mux.
Thin(m, lost) ==
    [m EXCEPT !.content = [t \in Tabs |-> IF t \in Listed(m) THEN @[t] \ lost ELSE @[t]],
              !.scheduled = IF lost = {} THEN @ ELSE Append(@, Removes(lost))]

\* Every pane is looked at first.
Thinned(m) ==
    LET looked == Notice(m, UNION {m.content[t] : t \in m.tabs \cup Listed(m)})
    IN Thin(looked, UNION {Lost(looked, t) : t \in Listed(m)})

DeadTabs(m) == {t \in m.tabs \cup Listed(m) : IsDead(m, t)}

Unlisted(m) ==
    [m EXCEPT !.listing = [w \in Windows |-> (@[w] \ DeadTabs(m)) \cap m.tabs]]

Prune(m) ==
    IF Busy THEN m
    ELSE LET thinned == Thinned(m)
             unlisted == Unlisted(thinned)
             forgotten == ForgetTabs(unlisted, DeadTabs(thinned))
             pruned == [forgotten EXCEPT !.windows = @ \ Hollow(unlisted)]
         IN IF pruned.panes = {}
              THEN [pruned EXCEPT !.scheduled = Append(@, Quits)]
              ELSE pruned

------------------------------------------------------------------------------
(* Spawning.                                                                *)

Awake == ~ quit /\ Len(mux.scheduled) < MaxScheduled

\* The user or a script asks for a spawn; a command of the GUI holds an
\* activity while it is carried out, a request of a client does not.
Ask(j) ==
    /\ Awake
    /\ jobs[j].stage = "idle"
    /\ \E kind \in JobKinds, held \in BOOLEAN, w \in Windows, p \in Panes :
          /\ w \in mux.windows \cup {1}
          /\ p \in mux.panes \cup {1}
          /\ kind = "tab" \/ w = 1
          /\ kind = "split" \/ p = 1
          /\ jobs' = [jobs EXCEPT ![j] = [stage |-> "asked", kind |-> kind, held |-> held,
                                          window |-> w, tab |-> 1, pane |-> p]]
    /\ mux' = [mux EXCEPT !.scheduled = Append(@, Begins(j))]
    /\ UNCHANGED <<behaviour, stray, quit>>

Done(j) == [jobs EXCEPT ![j] = [Idle EXCEPT !.stage = "done"]]

\* mux.spawn_tab_or_window for an existing window, up to the await of the domain.
BeginTab(j, rest) ==
    LET w == jobs[j].window
        usable == w \in mux.windows /\ \E t \in mux.listing[w] : mux.content[t] # {}
    IN /\ jobs' = IF usable THEN [jobs EXCEPT ![j].stage = "spawning"] ELSE Done(j)
       /\ mux' = [mux EXCEPT !.scheduled = IF usable THEN rest ELSE rest \o Released(j)]

\* The same for a new window, which is registered before its first tab.
BeginWindow(j, rest) ==
    LET w == mux.nextWindow
    IN /\ w \in Windows
       /\ jobs' = [jobs EXCEPT ![j].stage = "spawning", ![j].window = w]
       /\ mux' = [mux EXCEPT !.windows = @ \cup {w}, !.nextWindow = w + 1,
                             !.scheduled = rest]

\* mux.split_pane and domain.split_pane up to the await of the new pane.
BeginSplit(j, rest) ==
    LET p == jobs[j].pane
        holders == {t \in mux.tabs \cap Listed(mux) : p \in mux.content[t]}
        usable == p \in mux.panes /\ holders # {}
    IN IF usable
         THEN \E t \in holders :
                 /\ jobs' = [jobs EXCEPT ![j].stage = "spawning", ![j].tab = t]
                 /\ mux' = [mux EXCEPT !.scheduled = rest]
         ELSE /\ jobs' = Done(j)
              /\ mux' = [mux EXCEPT !.scheduled = rest \o Released(j)]

\* What a spawn may come to.
Special == {p \in Panes : mux.origin[p] # "program"}
MayBe(origin) == origin # "connected"
                 /\ (origin # "program" => Cardinality(Special) < MaxSpecial[behaviour])

\* LocalDomain::spawn_pane and RemoteSshDomain::spawn_pane: the pane is
\* registered and its reader started before the caller knows where to put it.
\* A program that cannot be started leaves a pane that shows the error, and a
\* process that ends at once.
WithPane(p, origin) ==
    [mux EXCEPT !.panes = @ \cup {p}, !.process[p] = "running",
                !.origin[p] = origin, !.reading = @ \cup {p}]

\* Domain::spawn: a tab around the new pane, then the window, if there is
\* still one.
FinishSpawn(j) ==
    /\ ~ quit
    /\ jobs[j].stage = "spawning"
    /\ jobs[j].kind \in {"tab", "window"}
    /\ mux.nextTab \in Tabs
    /\ \E p \in Newborn(mux), origin \in Origins :
          /\ \A o \in Newborn(mux) : p <= o
          /\ MayBe(origin)
          /\ LET t == mux.nextTab
                 w == jobs[j].window
                 there == w \in mux.windows
             IN /\ mux' = [WithPane(p, origin) EXCEPT
                      !.tabs = @ \cup {t}, !.content[t] = {p}, !.nextTab = t + 1,
                      !.listing[w] = IF there THEN @ \cup {t} ELSE @,
                      !.scheduled = @ \o BuilderReleased(j) \o Released(j)]
                /\ stray' = IF there THEN stray ELSE stray \cup {p}
    /\ jobs' = Done(j)
    /\ UNCHANGED <<behaviour, quit>>

\* domain.split_pane after the await: the target may have left the tab, the
\* tab may be zoomed or too small, and the mux may have forgotten the tab, which
\* then is freed with the new pane in it (another split of it ends likewise).
FinishSplit(j) ==
    /\ ~ quit
    /\ jobs[j].stage = "spawning"
    /\ jobs[j].kind = "split"
    /\ \E p \in Newborn(mux), origin \in Origins, fits \in BOOLEAN :
          /\ \A o \in Newborn(mux) : p <= o
          /\ MayBe(origin)
          /\ LET t == jobs[j].tab
                 inserted == fits /\ jobs[j].pane \in mux.content[t]
             IN /\ mux' = [WithPane(p, origin) EXCEPT
                      !.content[t] = IF t \notin mux.tabs THEN {}
                                     ELSE IF inserted THEN @ \cup {p} ELSE @,
                      !.scheduled = @ \o Released(j)]
                /\ stray' = IF inserted /\ t \in mux.tabs \cap Listed(mux)
                              THEN stray ELSE stray \cup {p}
    /\ jobs' = Done(j)
    /\ UNCHANGED <<behaviour, quit>>

\* The domain cannot spawn the pane.
SpawnFails(j) ==
    /\ ~ quit
    /\ jobs[j].stage = "spawning"
    /\ mux' = [mux EXCEPT !.scheduled = @ \o BuilderReleased(j) \o Released(j),
                          !.content = [t \in Tabs |-> IF t \in mux.tabs THEN @[t] ELSE {}]]
    /\ jobs' = Done(j)
    /\ UNCHANGED <<behaviour, stray, quit>>

------------------------------------------------------------------------------
(* Moving panes, which never suspends for the panes of a local domain.      *)

\* Mutant: the pane is not taken out of its old tab.
MutMovePaneToNewTab(p, t, w, new) ==
    /\ Awake
    /\ t \in mux.tabs \cap Listed(mux) /\ p \in mux.content[t]
    /\ new /\ w = mux.nextWindow
    /\ mux.nextTab \in Tabs
    /\ LET n == mux.nextTab
       IN mux' = [mux EXCEPT
             !.panes = @ \cup {p}, !.tabs = @ \cup {n}, !.nextTab = n + 1,
             !.content[n] = {p}, !.windows = @ \cup {w}, !.listing[w] = {n},
             !.nextWindow = w + 1, !.scheduled = Append(@, Prunes)]
    /\ UNCHANGED <<behaviour, jobs, stray, quit>>

\* The first pane of an ssh session has but one reader to give (ssh.rs:1116).
HasReader(p) == p \in mux.panes \/ mux.origin[p] \notin {"connecting", "connected"}

MayMoveTo(p, t, w, new) ==
    /\ Awake
    /\ t \in mux.tabs \cap Listed(mux) /\ p \in mux.content[t]
    /\ IF new THEN w = mux.nextWindow
              ELSE w \in mux.windows /\ mux.listing[w] # {}
    /\ mux.nextTab \in Tabs

\* mux.move_pane_to_new_tab; the builder of a new window blocks the prune
\* after the old tab is removed and schedules one of its own.
MovePaneToNewTab(p, t, w, new) ==
    /\ MayMoveTo(p, t, w, new)
    /\ HasReader(p)
    /\ LET n == mux.nextTab
           readded == IF p \in mux.panes THEN mux.reading ELSE mux.reading \cup {p}
           moved == [mux EXCEPT
               !.panes = @ \cup {p}, !.reading = readded,
               !.tabs = @ \cup {n}, !.nextTab = n + 1,
               !.content[t] = @ \ {p}, !.content[n] = {p},
               !.windows = @ \cup {w}, !.listing[w] = @ \cup {n},
               !.nextWindow = IF new THEN w + 1 ELSE @]
           looked == Notice(moved, moved.content[t])
           left == IF IsDead(looked, t) THEN ForgetTabs(looked, {t}) ELSE looked
       IN mux' = IF new THEN [left EXCEPT !.scheduled = Append(@, Prunes)]
                 ELSE IF IsDead(looked, t) THEN Prune(left) ELSE left
    /\ UNCHANGED <<behaviour, jobs, stray, quit>>

\* The pane was removed from the mux and its tab not yet pruned: add_pane
\* registers it again, asks for its reader, and the move stops there.
MoveStops(p, t, w, new) ==
    /\ MayMoveTo(p, t, w, new)
    /\ ~ HasReader(p)
    /\ LET n == mux.nextTab
       IN mux' = [mux EXCEPT
             !.panes = @ \cup {p}, !.tabs = @ \cup {n}, !.nextTab = n + 1,
             !.content[t] = @ \ {p}, !.content[n] = {p},
             !.windows = IF new THEN @ \cup {w} ELSE @,
             !.nextWindow = IF new THEN w + 1 ELSE @,
             !.scheduled = IF new THEN Append(@, Prunes) ELSE @]
    /\ stray' = stray \cup {p}
    /\ UNCHANGED <<behaviour, jobs, quit>>

\* domain.split_pane with SplitSource::MovePane: p leaves its tab t for the
\* split of q in tab u, which is looked for again afterwards.
SplitMovePane(p, t, q, u) ==
    /\ Awake
    /\ {t, u} \subseteq mux.tabs \cap Listed(mux)
    /\ p \in mux.content[t] /\ q \in mux.content[u] /\ q \in mux.panes
    /\ \E fits \in BOOLEAN :
          LET looked == Notice([mux EXCEPT !.content[t] = @ \ {p}], mux.content[t] \ {p})
              left == IF IsDead(looked, t) THEN Prune(ForgetTabs(looked, {t})) ELSE looked
              inserted == fits /\ q \in left.content[u]
          IN /\ mux' = [left EXCEPT !.content[u] = IF inserted THEN @ \cup {p} ELSE @]
             /\ stray' = IF inserted /\ u \in left.tabs \cap Listed(left)
                           THEN stray ELSE stray \cup ({p} \cap left.panes)
    /\ UNCHANGED <<behaviour, jobs, quit>>

------------------------------------------------------------------------------
(* Closing, by the user or a client.                                        *)

RemovePane(p) ==
    /\ Awake
    /\ p \in mux.panes
    /\ mux' = Prune(KillPanes(mux, {p}))
    /\ UNCHANGED <<behaviour, jobs, stray, quit>>

\* tab.kill_pane: the pane leaves its tab now and the mux by a later task.
KillPaneInTab(p, t) ==
    /\ Awake
    /\ t \in Listed(mux) /\ p \in mux.content[t]
    /\ mux' = [mux EXCEPT !.content[t] = @ \ {p},
                          !.scheduled = Append(@, Removes({p}))]
    /\ UNCHANGED <<behaviour, jobs, stray, quit>>

RemoveTab(t) ==
    /\ Awake
    /\ t \in Listed(mux)
    /\ mux' = Prune(ForgetTabs(mux, {t}))
    /\ UNCHANGED <<behaviour, jobs, stray, quit>>

KillWindow(w) ==
    /\ Awake
    /\ w \in mux.windows
    /\ mux' = Prune(ForgetWindow(mux, w))
    /\ UNCHANGED <<behaviour, jobs, stray, quit>>

------------------------------------------------------------------------------
(* The processes, their readers and the main thread.                        *)

\* The thread of split_child reports the exit and schedules a prune.  What could
\* not be started has failed (domain.rs:566).
ProcessExits(p) ==
    /\ Awake
    /\ mux.process[p] = "running"
    /\ \E how \in {"exited", "failed"} :
          /\ mux.origin[p] = "unstarted" => how = "failed"
          /\ mux' = [mux EXCEPT !.process[p] = how, !.scheduled = Append(@, Prunes)]
    /\ UNCHANGED <<behaviour, jobs, stray, quit>>

\* The connection is made, and the pane has its pty before the process is there
\* to be waited for (ssh.rs:715): the waiter of one that fails sees an exit.
Connects(p) ==
    /\ ~ quit
    /\ mux.origin[p] = "connecting" /\ mux.process[p] = "running"
    /\ mux' = [mux EXCEPT !.origin[p] = "connected"]
    /\ UNCHANGED <<behaviour, jobs, stray, quit>>

\* Mutant: the end of the output only leads to a prune, as with the others.
MutReaderEnds(p) ==
    /\ Awake
    /\ p \in mux.reading
    /\ mux' = [mux EXCEPT !.reading = @ \ {p}, !.scheduled = Append(@, Prunes)]
    /\ UNCHANGED <<behaviour, jobs, stray, quit>>

\* read_from_pane_pty meets the end of the output, before or after the exit.  It
\* asked the pane for its own exit behaviour when it began, which was before the
\* connection, as a rule.
ReaderEnds(p) ==
    /\ Awake
    /\ p \in mux.reading
    /\ \E task \in {Removes({p}), Prunes} :
          /\ task = Removes({p}) => ExitBehavior(mux, p) = "Close"
          /\ task = Prunes => ExitBehavior(mux, p) # "Close" \/ mux.origin[p] = "connected"
          /\ mux' = [mux EXCEPT !.reading = @ \ {p}, !.scheduled = Append(@, task)]
    /\ UNCHANGED <<behaviour, jobs, stray, quit>>

Begin(j, rest) ==
    CASE jobs[j].kind = "tab" -> BeginTab(j, rest)
      [] jobs[j].kind = "window" -> BeginWindow(j, rest)
      [] OTHER -> BeginSplit(j, rest)

\* The main thread takes the next function of its queue.
RunTask ==
    /\ ~ quit
    /\ mux.scheduled # << >>
    /\ LET task == Head(mux.scheduled)
           rest == Tail(mux.scheduled)
           taken == [mux EXCEPT !.scheduled = rest]
       IN CASE task.do = "prune" -> mux' = Prune(taken) /\ UNCHANGED <<jobs, quit>>
            [] task.do = "remove" ->
                 mux' = Prune(KillPanes(taken, task.panes)) /\ UNCHANGED <<jobs, quit>>
            [] task.do = "quit" -> mux' = taken /\ quit' = ~ Busy /\ UNCHANGED jobs
            [] OTHER -> Begin(task.job, rest) /\ UNCHANGED quit
    /\ UNCHANGED <<behaviour, stray>>

------------------------------------------------------------------------------
Spawns == \E j \in Jobs : Ask(j) \/ FinishSpawn(j) \/ FinishSplit(j) \/ SpawnFails(j)

Moves ==
    \/ \E p \in Panes, t \in Tabs, w \in Windows, new \in BOOLEAN :
          MovePaneToNewTab(p, t, w, new) \/ MoveStops(p, t, w, new)
    \/ \E p, q \in Panes, t, u \in Tabs : SplitMovePane(p, t, q, u)

Closes ==
    \/ \E p \in Panes : RemovePane(p)
    \/ \E p \in Panes, t \in Tabs : KillPaneInTab(p, t)
    \/ \E t \in Tabs : RemoveTab(t)
    \/ \E w \in Windows : KillWindow(w)

Ends == \E p \in Panes : Connects(p) \/ ProcessExits(p) \/ ReaderEnds(p)

Next == Spawns \/ Moves \/ Closes \/ Ends \/ RunTask

Spec == Init /\ [][Next]_vars

Ready ==
    /\ ~ quit
    /\ mux.scheduled # << >>
    /\ Head(mux.scheduled).do = "begin" /\ jobs[Head(mux.scheduled).job].kind = "window"
         => mux.nextWindow \in Windows

\* The message loop runs what is scheduled: weak fairness of RunTask, with its
\* guard for ENABLED, which TLC would evaluate too slowly.
FairSpec == Spec /\ ([]<>~Ready \/ []<><<RunTask>>_vars)

------------------------------------------------------------------------------
(* Properties.                                                              *)

\* Nothing holds an activity and nothing is scheduled.
Quiet == ~ Busy /\ mux.scheduled = << >>

Housed == UNION {mux.content[t] : t \in Listed(mux)}

\* Every tab in a window is registered, no tab is in two windows and no pane
\* in two tabs of the mux, whatever overlaps: resolve_pane_id and
\* window_containing_tab stop at the first they meet (lib.rs:1046 and 1104).
\* And the only panes the mux keeps outside its windows are those of spawns,
\* splits and moves whose target was gone or too small when the pane was there
\* (domain.rs:71 and 136): no other path forgets a tab or a window and keeps
\* a pane.
OneHomeEach ==
    /\ Listed(mux) \subseteq mux.tabs
    /\ \A v, w \in mux.windows : v # w => mux.listing[v] \cap mux.listing[w] = {}
    /\ \A t, u \in mux.tabs : t # u => mux.content[t] \cap mux.content[u] = {}
    /\ Quiet => mux.panes \ Housed \subseteq stray

\* When the main thread has run what was scheduled and no activity is held, no
\* window is empty and the tabs of windows hold only panes of the mux whose
\* process has not ended: no close, exit or failed spawn, in any order with the
\* activities that suppress pruning, leaves an empty window or a dead tab on
\* the screen.
NothingDeadWhenQuiet ==
    Quiet =>
      /\ \A w \in mux.windows : mux.listing[w] # {}
      /\ \A t \in Listed(mux) :
            /\ mux.content[t] # {}
            /\ mux.content[t] \subseteq mux.panes
            /\ \A p \in mux.content[t] : Noticed(mux, p) # "dead"

\* The mux says that it is empty only when no window is left, not even one
\* that waits for its first tab: the GUI ends on that word.
SaysEmpty ==
    /\ mux'.scheduled \notin {mux.scheduled, SubSeq(mux.scheduled, 2, Len(mux.scheduled))}
    /\ mux'.scheduled[Len(mux'.scheduled)] = Quits
SaysEmptyWithoutWindows == [][SaysEmpty => mux'.windows = {}]_vars

\* The GUI ends only while it shows no window and no activity is held
\* (mux/src/activity.rs:7 to 11), although it decides in two steps: told of
\* the empty mux, it schedules its end.
QuitsWithoutWindows == [][quit' /\ ~ quit => mux'.windows = {} /\ ~ Busy]_vars

\* A pane whose program could not be started, or that had to connect first, is
\* not closed by the end of its output: it stays while its process runs, when
\* that ended badly, and as a stray, which no prune looks at.
StaysOpen(p) ==
    /\ mux.origin[p] # "program"
    /\ mux.process[p] \in {"running", "pending"} \/ p \notin Housed

\* With exit_behavior Close, once the output of all panes has ended and every
\* spawn is over, the GUI ends, whatever was closed, moved or orphaned before,
\* unless somebody spawns again or a pane stays open for what it has to tell
\* (localpane.rs:226); and nobody tells it to while a window is left.
AllOver == mux.reading = {} /\ \A j \in Jobs : jobs[j].stage \in {"idle", "done"}
EndsWhenAllPanesEnd ==
    /\ []<>(behaviour = "Close" /\ AllOver => quit \/ \E p \in mux.panes : StaysOpen(p))
    /\ SaysEmptyWithoutWindows

=============================================================================
