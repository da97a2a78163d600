-------------------------- MODULE MuxLifecycleProofs --------------------------
(***************************************************************************)
(* MuxLifecycle for any numbers of panes, tabs, windows and jobs: places   *)
(* do not overlap, nothing dead stays on the screen, and the word of an    *)
(* empty mux is true.                                                      *)
(*                                                                         *)
(* The properties of the runs speak of the quiet mux.  To get there the    *)
(* invariant says what keeps it on the way: the registry is sound between  *)
(* any two functions (Sound), a pane of the mux without a tab in a window  *)
(* is a stray or has a task that will remove it (Placed), and as long as a *)
(* window may be empty or a listed tab dead, an activity is held, whose    *)
(* release will prune, or a prune is on the queue (Busy, PruneDue, Clean). *)
(* A prune does many small things in a row; each is shown to change the    *)
(* registry Safely, which composes, and only the whole leaves it Clean.    *)
(***************************************************************************)
EXTENDS MuxLifecycle, TLAPS

(* What is true of the registry at rest and between two of its functions.  *)
Sound(m) ==
    /\ \A t, u \in Tabs : t # u => m.content[t] \cap m.content[u] = {}
    /\ \A v, w \in Windows : v # w => m.listing[v] \cap m.listing[w] = {}
    /\ \A w \in Windows :
          /\ m.listing[w] \subseteq m.tabs
          /\ w \notin m.windows => m.listing[w] = {}
    /\ \A p \in Panes :
          m.process[p] = "unborn" => p \notin m.panes /\ \A t \in Tabs : p \notin m.content[t]
    /\ \A t \in Tabs : t >= m.nextTab => t \notin m.tabs /\ m.content[t] = {}
    /\ \A w \in Windows : w >= m.nextWindow => w \notin m.windows

InQueue(q) == {q[i] : i \in DOMAIN q}

\* The panes that have a place, or a task that will remove them.
Shown(m) == {p \in Panes : \E w \in Windows : \E t \in m.listing[w] : p \in m.content[t]}
Leaving(m) == {p \in Panes : \E k \in InQueue(m.scheduled) : k.do = "remove" /\ p \in k.panes}
Placed(m, S) == m.panes \subseteq S \cup Shown(m) \cup Leaving(m)

\* No window is empty, and what is in windows is alive.
Clean(m) ==
    /\ \A w \in m.windows : m.listing[w] # {}
    /\ \A w \in Windows : \A t \in m.listing[w] :
          /\ m.content[t] # {}
          /\ m.content[t] \subseteq m.panes
          /\ \A p \in m.content[t] : Noticed(m, p) # "dead"

PruneDue(m) == \E k \in InQueue(m.scheduled) : k.do \in {"prune", "remove"}

StartsWithAWindow ==
    /\ jobs[StartJob].stage # "idle"
    /\ jobs[StartJob].stage = "asked" => jobs[StartJob].kind = "window"

Kept(m, S) ==
    /\ m \in Registries
    /\ Sound(m)
    /\ Placed(m, S)
    /\ Busy \/ PruneDue(m) \/ Clean(m)

IInv ==
    /\ behaviour \in Behaviours
    /\ jobs \in [Jobs -> Job]
    /\ stray \in SUBSET Panes
    /\ quit \in BOOLEAN
    /\ StartsWithAWindow
    /\ Kept(mux, stray)

-----------------------------------------------------------------------------
(* The functions of the registry.                                          *)

Others(m, n) ==
    /\ n.tabs = m.tabs /\ n.windows = m.windows /\ n.listing = m.listing
    /\ n.reading = m.reading /\ n.nextTab = m.nextTab /\ n.nextWindow = m.nextWindow
    /\ n.scheduled = m.scheduled /\ n.origin = m.origin

\* Killing panes takes them out of the mux and touches no place of a pane.
LEMMA KillPanesFields ==
    ASSUME NEW m \in Registries, NEW P
    PROVE  LET k == KillPanes(m, P)
           IN  /\ k \in Registries /\ Others(m, k)
               /\ k.panes = m.panes \ P
               /\ k.content = m.content /\ k.process = m.process /\ k.origin = m.origin
               /\ \A p \in Panes : p \notin P => (p \in k.killed <=> p \in m.killed)
  BY ZenonT(30) DEF KillPanes, Registries, Others

\* Looking at panes changes their processes only, and what a second look
\* would see of the others not at all.
LEMMA NoticeFields ==
    ASSUME behaviour \in Behaviours, NEW m \in Registries, NEW P
    PROVE  LET n == Notice(m, P)
           IN  /\ n \in Registries /\ Others(m, n)
               /\ n.panes = m.panes /\ n.content = m.content
               /\ \A p \in Panes :
                     /\ n.process[p] = IF p \in P THEN Noticed(m, p) ELSE m.process[p]
                     /\ n.process[p] = "unborn" <=> m.process[p] = "unborn"
                     /\ p \notin P => (p \in n.killed <=> p \in m.killed)
                     /\ p \in P => (Noticed(n, p) = "dead" <=> n.process[p] = "dead")
                     /\ p \notin P => Noticed(n, p) = Noticed(m, p)
  <1> DEFINE n == Notice(m, P)
  <1>1. /\ n \in Registries /\ Others(m, n)
        /\ n.panes = m.panes /\ n.content = m.content
        /\ \A p \in Panes : n.process[p] = IF p \in P THEN Noticed(m, p) ELSE m.process[p]
        /\ \A p \in Panes : p \in n.killed <=>
              p \in m.killed /\ ~ (p \in P /\ m.process[p] = "failed"
                                         /\ ExitBehavior(m, p) = "CloseOnCleanExit")
    <2>1. \A p \in Panes :
             Noticed(m, p) \in {"unborn", "running", "exited", "failed", "pending", "dead"}
      BY DEF Noticed, ExitBehavior, Registries
    <2> QED BY <2>1 DEF Notice, Registries, Others
  <1>2. ASSUME NEW p \in Panes
        PROVE  /\ n.process[p] = "unborn" <=> m.process[p] = "unborn"
               /\ p \in P => (Noticed(n, p) = "dead" <=> n.process[p] = "dead")
               /\ p \notin P => Noticed(n, p) = Noticed(m, p)
    <2> HIDE DEF n
    <2>1. /\ ExitBehavior(m, p) \in {"Close", "Hold", "CloseOnCleanExit"}
          /\ ExitBehavior(n, p) = ExitBehavior(m, p)
      BY <1>1, BehavioursAssumption DEF ExitBehavior, Others
    <2>2. CASE p \in P
      <3> DEFINE how == ExitBehavior(m, p)
      <3>1. /\ n.process[p] = Noticed(m, p)
            /\ p \in n.killed <=>
                  p \in m.killed /\ ~ (m.process[p] = "failed" /\ how = "CloseOnCleanExit")
        BY <1>1, <2>2
      <3>2. how \in {"Close", "Hold", "CloseOnCleanExit"} /\ ExitBehavior(n, p) = how
        BY <2>1
      <3> HIDE DEF how
      <3>3. /\ Noticed(m, p) =
                 CASE m.process[p] = "exited" ->
                        (IF how # "Hold" \/ p \in m.killed THEN "dead" ELSE "pending")
                   [] m.process[p] = "failed" ->
                        (IF how = "Close" \/ (how = "Hold" /\ p \in m.killed)
                           THEN "dead" ELSE "pending")
                   [] m.process[p] = "pending" -> (IF p \in m.killed THEN "dead" ELSE "pending")
                   [] OTHER -> m.process[p]
            /\ Noticed(n, p) =
                 CASE n.process[p] = "exited" ->
                        (IF how # "Hold" \/ p \in n.killed THEN "dead" ELSE "pending")
                   [] n.process[p] = "failed" ->
                        (IF how = "Close" \/ (how = "Hold" /\ p \in n.killed)
                           THEN "dead" ELSE "pending")
                   [] n.process[p] = "pending" -> (IF p \in n.killed THEN "dead" ELSE "pending")
                   [] OTHER -> n.process[p]
        BY <3>2 DEF Noticed, how
      <3> QED BY <2>2, <3>1, <3>2, <3>3
    <2>3. CASE p \notin P
      <3>1. /\ n.process[p] = m.process[p] /\ (p \in n.killed <=> p \in m.killed)
            /\ ExitBehavior(n, p) = ExitBehavior(m, p)
        BY <1>1, <2>1, <2>3
      <3> QED BY <2>3, <3>1 DEF Noticed
    <2> QED BY <2>2, <2>3
  <1> QED BY <1>1, <1>2

\* A registry with other panes in its tabs is otherwise the same.
LEMMA ContentReplaced ==
    ASSUME NEW m \in Registries, NEW c \in [Tabs -> SUBSET Panes]
    PROVE  LET n == [m EXCEPT !.content = c]
           IN  /\ n \in Registries /\ Others(m, n)
               /\ n.content = c
               /\ n.panes = m.panes /\ n.process = m.process /\ n.origin = m.origin
               /\ n.killed = m.killed
  BY DEF Registries, Others

\* What forgetting tabs leaves of every field: the tabs go from all lists and
\* their panes from the mux.
LEMMA ForgetTabsFields ==
    ASSUME NEW m \in Registries, NEW T \in SUBSET Tabs, Sound(m)
    PROVE  LET f == ForgetTabs(m, T)
           IN  /\ f \in Registries
               /\ f.tabs = m.tabs \ T /\ f.windows = m.windows /\ f.process = m.process
               /\ f.origin = m.origin
               /\ f.nextTab = m.nextTab /\ f.nextWindow = m.nextWindow
               /\ f.scheduled = m.scheduled /\ f.reading = m.reading
               /\ f.panes = m.panes \ UNION {m.content[t] : t \in T \cap m.tabs}
               /\ \A w \in Windows : f.listing[w] = m.listing[w] \ T
               /\ \A t \in Tabs : /\ f.content[t] \subseteq m.content[t]
                                  /\ t \notin T \cap m.tabs => f.content[t] = m.content[t]
               /\ \A p \in Panes : (\A t \in T : p \notin m.content[t])
                                      => (p \in f.killed <=> p \in m.killed)
  <1> DEFINE known == T \cap m.tabs
             bare == [m EXCEPT !.tabs = @ \ known,
                               !.listing = [w \in Windows |-> @[w] \ known]]
             killed == KillPanes(bare, UNION {m.content[t] : t \in known})
  <1>1. /\ bare \in Registries
        /\ bare.tabs = m.tabs \ T
        /\ \A w \in Windows : bare.listing[w] = m.listing[w] \ T
        /\ bare.panes = m.panes /\ bare.content = m.content /\ bare.process = m.process
        /\ bare.origin = m.origin
        /\ bare.windows = m.windows /\ bare.nextTab = m.nextTab
        /\ bare.nextWindow = m.nextWindow /\ bare.scheduled = m.scheduled
        /\ bare.reading = m.reading /\ bare.killed = m.killed
    BY DEF Registries, Sound
  <1> HIDE DEF bare
  <1>2. /\ killed \in Registries /\ Others(bare, killed)
        /\ killed.panes = m.panes \ UNION {m.content[t] : t \in known}
        /\ killed.content = m.content /\ killed.process = m.process
        /\ killed.origin = m.origin
        /\ \A p \in Panes : (\A t \in T : p \notin m.content[t])
                               => (p \in killed.killed <=> p \in m.killed)
    BY <1>1, KillPanesFields
  <1> DEFINE kept == [t \in Tabs |-> IF t \in known \ Held THEN {} ELSE killed.content[t]]
  <1>3. ForgetTabs(m, T) = [killed EXCEPT !.content = kept]
    BY DEF ForgetTabs, bare
  <1> HIDE DEF killed
  <1>4. /\ kept \in [Tabs -> SUBSET Panes]
        /\ \A t \in Tabs : /\ kept[t] \subseteq m.content[t]
                           /\ t \notin T \cap m.tabs => kept[t] = m.content[t]
    BY <1>2 DEF Registries
  <1> HIDE DEF kept
  <1>5. /\ ForgetTabs(m, T) \in Registries
        /\ ForgetTabs(m, T).content = kept
        /\ Others(killed, ForgetTabs(m, T))
        /\ ForgetTabs(m, T).panes = killed.panes
        /\ ForgetTabs(m, T).process = killed.process
        /\ ForgetTabs(m, T).origin = killed.origin
        /\ ForgetTabs(m, T).killed = killed.killed
    BY <1>2, <1>3, <1>4, ContentReplaced
  <1> QED BY <1>1, <1>2, <1>4, <1>5 DEF Others

-----------------------------------------------------------------------------
(* What pruning and its parts may do.                                      *)

Shrunk(m, n) ==
    /\ n.tabs \subseteq m.tabs /\ n.windows \subseteq m.windows /\ n.panes \subseteq m.panes
    /\ \A w \in Windows : n.listing[w] \subseteq m.listing[w]
    /\ \A t \in Tabs : n.content[t] \subseteq m.content[t]
    /\ n.nextTab = m.nextTab /\ n.nextWindow = m.nextWindow
    /\ InQueue(m.scheduled) \subseteq InQueue(n.scheduled)
    /\ \A p \in Panes : n.process[p] = "unborn" <=> m.process[p] = "unborn"
    /\ \A p \in Panes : (\A t \in Tabs : p \notin m.content[t])
          => (p \in n.panes <=> p \in m.panes) /\ Noticed(n, p) = Noticed(m, p)

Safely(m, n) ==
    /\ n \in Registries
    /\ Shrunk(m, n)
    /\ Sound(n)
    /\ \A S \in SUBSET Panes : Placed(m, S) => Placed(n, S)

\* A registry that shrinks stays sound, if the lists of windows follow.
LEMMA ShrunkIsSound ==
    ASSUME NEW m \in Registries, NEW n \in Registries, Sound(m), Shrunk(m, n),
           \A w \in Windows : /\ n.listing[w] \subseteq n.tabs
                              /\ w \notin n.windows => n.listing[w] = {}
    PROVE  Sound(n)
  BY DEF Sound, Shrunk, Registries

\* Two safe changes in a row are a safe change.
LEMMA SafelyTwice ==
    ASSUME NEW l, NEW m, NEW n, Safely(l, m), Safely(m, n)
    PROVE  Safely(l, n)
  BY DEF Safely, Shrunk

\* Looking at panes that are in tabs is safe.
LEMMA NoticeSafely ==
    ASSUME behaviour \in Behaviours, NEW m \in Registries, Sound(m),
           NEW P, \A p \in P : \E t \in Tabs : p \in m.content[t]
    PROVE  Safely(m, Notice(m, P))
  <1> DEFINE n == Notice(m, P)
  <1>1. /\ n \in Registries /\ Others(m, n)
        /\ n.panes = m.panes /\ n.content = m.content
        /\ \A p \in Panes : /\ n.process[p] = "unborn" <=> m.process[p] = "unborn"
                            /\ p \notin P => Noticed(n, p) = Noticed(m, p)
    BY NoticeFields
  <1> HIDE DEF n
  <1>2. Shrunk(m, n)
    BY <1>1 DEF Shrunk, Others
  <1>3. Sound(n)
    BY <1>1, <1>2, ShrunkIsSound DEF Sound, Others
  <1>4. \A S \in SUBSET Panes : Placed(m, S) => Placed(n, S)
    BY <1>1 DEF Placed, Shown, Leaving, Others
  <1> QED BY <1>1, <1>2, <1>3, <1>4 DEF Safely, n

\* Forgetting tabs is safe.
LEMMA ForgetTabsSafely ==
    ASSUME NEW m \in Registries, NEW T \in SUBSET Tabs, Sound(m)
    PROVE  Safely(m, ForgetTabs(m, T))
  <1> DEFINE f == ForgetTabs(m, T)
  <1>1. /\ f \in Registries
        /\ f.tabs = m.tabs \ T /\ f.windows = m.windows /\ f.process = m.process
        /\ f.origin = m.origin
        /\ f.nextTab = m.nextTab /\ f.nextWindow = m.nextWindow
        /\ f.scheduled = m.scheduled
        /\ f.panes = m.panes \ UNION {m.content[t] : t \in T \cap m.tabs}
        /\ \A w \in Windows : f.listing[w] = m.listing[w] \ T
        /\ \A t \in Tabs : /\ f.content[t] \subseteq m.content[t]
                           /\ t \notin T \cap m.tabs => f.content[t] = m.content[t]
        /\ \A p \in Panes : (\A t \in T : p \notin m.content[t])
                               => (p \in f.killed <=> p \in m.killed)
    BY ForgetTabsFields
  <1> HIDE DEF f
  <1>2. Shrunk(m, f)
    <2>1. ASSUME NEW p \in Panes, \A t \in Tabs : p \notin m.content[t]
          PROVE  (p \in f.panes <=> p \in m.panes) /\ Noticed(f, p) = Noticed(m, p)
      BY <1>1, <2>1 DEF Noticed, ExitBehavior
    <2> QED BY <1>1, <2>1 DEF Shrunk
  <1>3. Sound(f)
    <2>1. \A w \in Windows : /\ f.listing[w] \subseteq f.tabs
                             /\ w \notin f.windows => f.listing[w] = {}
      BY <1>1 DEF Sound
    <2> QED BY <1>1, <1>2, <2>1, ShrunkIsSound
  <1>4. ASSUME NEW S \in SUBSET Panes, Placed(m, S)
        PROVE  Placed(f, S)
    <2> SUFFICES ASSUME NEW p \in f.panes, p \notin S, p \notin Leaving(f)
                 PROVE  p \in Shown(f)
      BY DEF Placed
    <2>1. p \in m.panes /\ p \in Panes /\ Leaving(f) = Leaving(m)
      BY <1>1 DEF Leaving, Registries
    <2>2. PICK w \in Windows : \E t \in m.listing[w] : p \in m.content[t]
      BY <1>4, <2>1 DEF Placed, Shown
    <2>3. PICK t \in m.listing[w] : p \in m.content[t]
      BY <2>2
    <2>4. t \in m.tabs /\ t \in Tabs
      BY <2>3 DEF Sound, Registries
    <2>5. t \notin T
      BY <1>1, <2>3, <2>4
    <2> QED BY <1>1, <2>1, <2>3, <2>4, <2>5 DEF Shown
  <1> QED BY <1>1, <1>2, <1>3, <1>4 DEF Safely, f

\* What is in a queue after more is scheduled.
LEMMA Queueing ==
    ASSUME NEW q \in Seq(Tasks), NEW r \in Seq(Tasks), NEW k \in Tasks
    PROVE  /\ Append(q, k) \in Seq(Tasks) /\ InQueue(Append(q, k)) = InQueue(q) \cup {k}
           /\ q \o r \in Seq(Tasks) /\ InQueue(q \o r) = InQueue(q) \cup InQueue(r)
  <1> DEFINE a == Append(q, k)
             c == q \o r
  <1>1. /\ a \in Seq(Tasks) /\ DOMAIN a = 1 .. Len(q) + 1 /\ a[Len(q) + 1] = k
        /\ DOMAIN q = 1 .. Len(q) /\ \A i \in DOMAIN q : a[i] = q[i]
    OBVIOUS
  <1>2. /\ c \in Seq(Tasks) /\ DOMAIN c = 1 .. Len(q) + Len(r) /\ DOMAIN r = 1 .. Len(r)
        /\ \A i \in DOMAIN q : c[i] = q[i]
        /\ \A i \in DOMAIN r : c[Len(q) + i] = r[i]
        /\ \A i \in DOMAIN c : i \notin DOMAIN q => i - Len(q) \in DOMAIN r
                                                  /\ c[i] = r[i - Len(q)]
    OBVIOUS
  <1>3. Len(q) \in Nat /\ Len(r) \in Nat
    OBVIOUS
  <1> HIDE DEF a, c
  <1>4. InQueue(a) = InQueue(q) \cup {k}
    <2>1. InQueue(q) \subseteq InQueue(a) /\ k \in InQueue(a)
      BY <1>1, <1>3 DEF InQueue
    <2>2. ASSUME NEW i \in DOMAIN a
          PROVE  a[i] \in InQueue(q) \cup {k}
      <3>1. i \in DOMAIN q \/ i = Len(q) + 1
        BY <1>1, <1>3
      <3> QED BY <1>1, <3>1 DEF InQueue
    <2> QED BY <2>1, <2>2 DEF InQueue
  <1>5. InQueue(c) = InQueue(q) \cup InQueue(r)
    <2>1. InQueue(q) \subseteq InQueue(c)
      BY <1>2, <1>3 DEF InQueue
    <2>2. InQueue(r) \subseteq InQueue(c)
      BY <1>2, <1>3 DEF InQueue
    <2>3. InQueue(c) \subseteq InQueue(q) \cup InQueue(r)
      BY <1>2, <1>3 DEF InQueue
    <2> QED BY <2>1, <2>2, <2>3
  <1> QED BY <1>1, <1>2, <1>4, <1>5 DEF a, c

\* A queue is its first task and the others.
LEMMA Taking ==
    ASSUME NEW q \in Seq(Tasks), q # << >>
    PROVE  /\ Head(q) \in Tasks /\ Tail(q) \in Seq(Tasks)
           /\ InQueue(q) = {Head(q)} \cup InQueue(Tail(q))
           /\ Tail(q) = SubSeq(q, 2, Len(q))
  <1>1. Head(q) \in Tasks /\ Tail(q) \in Seq(Tasks) /\ Head(q) = q[1]
    OBVIOUS
  <1>2. InQueue(Tail(q)) \subseteq InQueue(q)
    BY DEF InQueue
  <1>3. ASSUME NEW i \in DOMAIN q
        PROVE  q[i] \in {Head(q)} \cup InQueue(Tail(q))
    <2>1. CASE i = 1
      BY <2>1
    <2>2. CASE i # 1
      <3>1. i - 1 \in DOMAIN Tail(q) /\ Tail(q)[i - 1] = q[i]
        BY <2>2
      <3> QED BY <3>1 DEF InQueue
    <2> QED BY <2>1, <2>2
  <1>4. Head(q) \in InQueue(q)
    BY DEF InQueue
  <1>5. Tail(q) = SubSeq(q, 2, Len(q))
    OBVIOUS
  <1> QED BY <1>1, <1>2, <1>3, <1>4, <1>5 DEF InQueue

\* A registry with another queue is otherwise the same.
LEMMA ScheduledFields ==
    ASSUME NEW m \in Registries, NEW q \in Seq(Tasks)
    PROVE  LET n == [m EXCEPT !.scheduled = q]
           IN  /\ n \in Registries
               /\ n.panes = m.panes /\ n.tabs = m.tabs /\ n.windows = m.windows
               /\ n.content = m.content /\ n.listing = m.listing
               /\ n.process = m.process /\ n.origin = m.origin /\ n.killed = m.killed
               /\ n.reading = m.reading
               /\ n.nextTab = m.nextTab /\ n.nextWindow = m.nextWindow
               /\ n.scheduled = q
  BY DEF Registries

\* Scheduling more is safe and dirties no window.
LEMMA ScheduledSafely ==
    ASSUME NEW m \in Registries, Sound(m), NEW q \in Seq(Tasks),
           InQueue(m.scheduled) \subseteq InQueue(q)
    PROVE  LET n == [m EXCEPT !.scheduled = q]
           IN  Safely(m, n) /\ (Clean(n) <=> Clean(m))
  <1> DEFINE n == [m EXCEPT !.scheduled = q]
  <1>1. /\ n \in Registries
        /\ n.panes = m.panes /\ n.tabs = m.tabs /\ n.windows = m.windows
        /\ n.content = m.content /\ n.listing = m.listing
        /\ n.process = m.process /\ n.origin = m.origin /\ n.killed = m.killed
        /\ n.nextTab = m.nextTab /\ n.nextWindow = m.nextWindow
        /\ n.scheduled = q
    BY ScheduledFields
  <1> HIDE DEF n
  <1>2. \A p : Noticed(n, p) = Noticed(m, p)
    BY <1>1 DEF Noticed, ExitBehavior
  <1>3. Shrunk(m, n)
    BY <1>1, <1>2 DEF Shrunk
  <1>4. Sound(n)
    BY <1>1, <1>3, ShrunkIsSound DEF Sound
  <1>5. \A S \in SUBSET Panes : Placed(m, S) => Placed(n, S)
    BY <1>1 DEF Placed, Shown, Leaving
  <1>6. Clean(n) <=> Clean(m)
    BY <1>1, <1>2 DEF Clean
  <1> QED BY <1>1, <1>3, <1>4, <1>5, <1>6 DEF Safely, n

\* Taking dead panes out of the listed tabs is safe, as it schedules their
\* removal.
LEMMA ThinSafely ==
    ASSUME NEW m \in Registries, Sound(m), NEW L \in SUBSET Panes
    PROVE  LET n == Thin(m, L)
           IN  /\ Safely(m, n)
               /\ n.tabs = m.tabs /\ n.windows = m.windows /\ n.listing = m.listing
               /\ n.panes = m.panes /\ n.process = m.process /\ n.origin = m.origin
               /\ n.killed = m.killed
               /\ \A t \in Tabs : n.content[t] = IF t \in Listed(m) THEN m.content[t] \ L
                                                 ELSE m.content[t]
               /\ n.scheduled = IF L = {} THEN m.scheduled ELSE Append(m.scheduled, Removes(L))
  <1> DEFINE c == [t \in Tabs |-> IF t \in Listed(m) THEN m.content[t] \ L ELSE m.content[t]]
             q == IF L = {} THEN m.scheduled ELSE Append(m.scheduled, Removes(L))
             n == [m EXCEPT !.content = c, !.scheduled = q]
  <1>1. c \in [Tabs -> SUBSET Panes]
    BY DEF Registries
  <1>2. /\ q \in Seq(Tasks)
        /\ InQueue(q) = InQueue(m.scheduled) \cup (IF L = {} THEN {} ELSE {Removes(L)})
    <2>1. m.scheduled \in Seq(Tasks) /\ Removes(L) \in Tasks
      BY DEF Registries, Removes, Tasks
    <2>2. /\ Append(m.scheduled, Removes(L)) \in Seq(Tasks)
          /\ InQueue(Append(m.scheduled, Removes(L)))
                = InQueue(m.scheduled) \cup {Removes(L)}
      BY <2>1, Queueing
    <2> QED BY <2>1, <2>2
  <1>3. /\ n \in Registries
        /\ n.tabs = m.tabs /\ n.windows = m.windows /\ n.listing = m.listing
        /\ n.panes = m.panes /\ n.process = m.process /\ n.origin = m.origin
        /\ n.killed = m.killed
        /\ n.nextTab = m.nextTab /\ n.nextWindow = m.nextWindow
        /\ n.content = c /\ n.scheduled = q
    <2> HIDE DEF c, q
    <2> QED BY <1>1, <1>2 DEF Registries
  <1>4. \A t \in Tabs : c[t] = IF t \in Listed(m) THEN m.content[t] \ L ELSE m.content[t]
    OBVIOUS
  <1>5. n = Thin(m, L)
    BY DEF Thin
  <1>6. q = IF L = {} THEN m.scheduled ELSE Append(m.scheduled, Removes(L))
    OBVIOUS
  <1> HIDE DEF n, q, c
  <1>7. Shrunk(m, n)
    BY <1>2, <1>3, <1>4 DEF Shrunk, Noticed, ExitBehavior
  <1>8. Sound(n)
    BY <1>3, <1>7, ShrunkIsSound DEF Sound
  <1>9. ASSUME NEW S \in SUBSET Panes, Placed(m, S)
        PROVE  Placed(n, S)
    <2> SUFFICES ASSUME NEW p \in n.panes, p \notin S, p \notin Leaving(n)
                 PROVE  p \in Shown(n)
      BY DEF Placed
    <2>1. p \in m.panes /\ p \in Panes
      BY <1>3 DEF Registries
    <2>2. p \notin Leaving(m)
      BY <1>2, <1>3, <2>1 DEF Leaving
    <2>3. p \notin L
      <3> SUFFICES ASSUME p \in L PROVE FALSE
        OBVIOUS
      <3>1. Removes(L) \in InQueue(n.scheduled)
        BY <1>2, <1>3
      <3>2. Removes(L).do = "remove" /\ Removes(L).panes = L
        BY DEF Removes
      <3> QED BY <2>1, <3>1, <3>2 DEF Leaving
    <2>4. p \in Shown(m)
      BY <1>9, <2>1, <2>2 DEF Placed
    <2> QED BY <1>3, <1>4, <2>3, <2>4 DEF Shown, Registries
  <1> QED BY <1>3, <1>4, <1>5, <1>6, <1>7, <1>8, <1>9 DEF Safely

\* Taking dead tabs off their windows is safe: their panes are all gone
\* already.
LEMMA UnlistedSafely ==
    ASSUME NEW m \in Registries, Sound(m),
           \A t \in Listed(m) : \A p \in m.content[t] : m.process[p] # "dead"
    PROVE  LET n == Unlisted(m)
           IN  /\ Safely(m, n)
               /\ n.tabs = m.tabs /\ n.windows = m.windows /\ n.content = m.content
               /\ n.panes = m.panes /\ n.process = m.process /\ n.origin = m.origin
               /\ n.killed = m.killed
               /\ n.scheduled = m.scheduled
               /\ \A w \in Windows : n.listing[w] = m.listing[w] \ DeadTabs(m)
  <1> DEFINE T == DeadTabs(m)
             l == [w \in Windows |-> (m.listing[w] \ T) \cap m.tabs]
             n == [m EXCEPT !.listing = l]
  <1>1. l \in [Windows -> SUBSET Tabs] /\ \A w \in Windows : l[w] = m.listing[w] \ T
    BY DEF Registries, Sound
  <1>2. /\ n \in Registries
        /\ n.tabs = m.tabs /\ n.windows = m.windows /\ n.content = m.content
        /\ n.panes = m.panes /\ n.process = m.process /\ n.origin = m.origin
        /\ n.killed = m.killed
        /\ n.nextTab = m.nextTab /\ n.nextWindow = m.nextWindow
        /\ n.scheduled = m.scheduled /\ n.listing = l
    <2> HIDE DEF l
    <2> QED BY <1>1 DEF Registries
  <1>3. n = Unlisted(m)
    BY DEF Unlisted
  <1> HIDE DEF n, l
  <1>4. \A t \in T \cap Listed(m) : m.content[t] = {}
    BY DEF DeadTabs, IsDead
  <1>5. Shrunk(m, n)
    BY <1>1, <1>2 DEF Shrunk, Noticed, ExitBehavior
  <1>6. Sound(n)
    BY <1>1, <1>2, <1>5, ShrunkIsSound DEF Sound
  <1>7. ASSUME NEW S \in SUBSET Panes, Placed(m, S)
        PROVE  Placed(n, S)
    <2> SUFFICES ASSUME NEW p \in n.panes, p \notin S, p \notin Leaving(n)
                 PROVE  p \in Shown(n)
      BY DEF Placed
    <2>1. p \in m.panes /\ p \in Panes /\ p \notin Leaving(m)
      BY <1>2 DEF Registries, Leaving
    <2>2. PICK w \in Windows : \E t \in m.listing[w] : p \in m.content[t]
      BY <1>7, <2>1 DEF Placed, Shown
    <2>3. PICK t \in m.listing[w] : p \in m.content[t]
      BY <2>2
    <2>4. w \in m.windows
      BY <2>3 DEF Sound
    <2>5. t \in Listed(m)
      BY <2>3, <2>4 DEF Listed
    <2>6. t \notin T
      BY <1>4, <2>3, <2>5
    <2> QED BY <1>1, <1>2, <2>1, <2>3, <2>6 DEF Shown
  <1> QED BY <1>1, <1>2, <1>3, <1>5, <1>6, <1>7 DEF Safely

\* Dropping windows without tabs is safe.
LEMMA DropWindowsSafely ==
    ASSUME NEW m \in Registries, Sound(m), NEW H \in SUBSET Windows,
           \A w \in H : m.listing[w] = {}
    PROVE  LET n == [m EXCEPT !.windows = @ \ H]
           IN  /\ Safely(m, n)
               /\ n.windows = m.windows \ H
               /\ n.tabs = m.tabs /\ n.content = m.content /\ n.listing = m.listing
               /\ n.panes = m.panes /\ n.process = m.process /\ n.origin = m.origin
               /\ n.killed = m.killed
               /\ n.scheduled = m.scheduled
  <1> DEFINE n == [m EXCEPT !.windows = @ \ H]
  <1>1. /\ n \in Registries
        /\ n.windows = m.windows \ H
        /\ n.tabs = m.tabs /\ n.content = m.content /\ n.listing = m.listing
        /\ n.panes = m.panes /\ n.process = m.process /\ n.origin = m.origin
        /\ n.killed = m.killed
        /\ n.nextTab = m.nextTab /\ n.nextWindow = m.nextWindow
        /\ n.scheduled = m.scheduled
    BY DEF Registries
  <1> HIDE DEF n
  <1>2. Shrunk(m, n)
    BY <1>1 DEF Shrunk, Noticed, ExitBehavior
  <1>3. Sound(n)
    BY <1>1, <1>2, ShrunkIsSound DEF Sound
  <1>4. \A S \in SUBSET Panes : Placed(m, S) => Placed(n, S)
    BY <1>1 DEF Placed, Shown, Leaving
  <1> QED BY <1>1, <1>2, <1>3, <1>4 DEF Safely, n


\* The first part of a prune is safe and leaves no dead pane in a listed tab.
LEMMA ThinnedSafely ==
    ASSUME behaviour \in Behaviours, NEW m \in Registries, Sound(m)
    PROVE  LET n == Thinned(m)
           IN  /\ Safely(m, n)
               /\ n.tabs = m.tabs /\ n.windows = m.windows /\ n.listing = m.listing
               /\ n.panes = m.panes
               /\ \A t \in Listed(n) : \A p \in n.content[t] :
                     p \in n.panes /\ n.process[p] # "dead" /\ Noticed(n, p) # "dead"
               /\ \/ n.scheduled = m.scheduled
                  \/ \E L \in SUBSET Panes : n.scheduled = Append(m.scheduled, Removes(L))
  <1> DEFINE seen == UNION {m.content[t] : t \in m.tabs \cup Listed(m)}
             looked == Notice(m, seen)
             lost == UNION {Lost(looked, t) : t \in Listed(m)}
             n == Thin(looked, lost)
  <1>1. Listed(m) \subseteq m.tabs /\ m.tabs \subseteq Tabs
    BY DEF Listed, Sound, Registries
  <1>2. Thinned(m) = n
    BY DEF Thinned
  <1>3. /\ Safely(m, looked)
        /\ looked \in Registries /\ Others(m, looked)
        /\ looked.panes = m.panes /\ looked.content = m.content
        /\ \A p \in Panes :
              p \in seen => (Noticed(looked, p) = "dead" <=> looked.process[p] = "dead")
    <2>1. \A p \in seen : \E t \in Tabs : p \in m.content[t]
      BY <1>1
    <2> HIDE DEF seen
    <2> QED BY <2>1, NoticeSafely, NoticeFields
  <1> HIDE DEF looked
  <1>4. Listed(looked) = Listed(m) /\ Sound(looked)
    BY <1>3 DEF Listed, Others, Safely
  <1>5. lost \in SUBSET Panes
    BY <1>1, <1>3 DEF Lost, Registries
  <1>6. \A t \in Listed(m) : \A p \in m.content[t] :
           p \notin lost => p \in Panes /\ p \in seen /\ p \in m.panes /\ looked.process[p] # "dead"
    BY <1>1, <1>3 DEF Lost, Registries
  <1> HIDE DEF lost
  <1>7. /\ Safely(looked, n)
        /\ n.tabs = m.tabs /\ n.windows = m.windows /\ n.listing = m.listing
        /\ n.panes = m.panes /\ n.process = looked.process /\ n.origin = looked.origin
        /\ n.killed = looked.killed
        /\ \A t \in Tabs : n.content[t] = IF t \in Listed(m) THEN m.content[t] \ lost
                                          ELSE m.content[t]
        /\ n.scheduled = IF lost = {} THEN m.scheduled
                                      ELSE Append(m.scheduled, Removes(lost))
    <2>1. /\ Safely(looked, n)
          /\ n.tabs = looked.tabs /\ n.windows = looked.windows
          /\ n.listing = looked.listing /\ n.panes = looked.panes
          /\ n.process = looked.process /\ n.origin = looked.origin
          /\ n.killed = looked.killed
          /\ \A t \in Tabs : n.content[t] = IF t \in Listed(looked)
                                               THEN looked.content[t] \ lost
                                               ELSE looked.content[t]
          /\ n.scheduled = IF lost = {} THEN looked.scheduled
                                         ELSE Append(looked.scheduled, Removes(lost))
      BY <1>3, <1>4, <1>5, ThinSafely
    <2> HIDE DEF n
    <2> QED BY <1>3, <1>4, <2>1 DEF Others
  <1> HIDE DEF n
  <1>8. Safely(m, n)
    BY <1>3, <1>7, SafelyTwice
  <1>9. ASSUME NEW t \in Listed(n), NEW p \in n.content[t]
        PROVE  p \in n.panes /\ n.process[p] # "dead" /\ Noticed(n, p) # "dead"
    <2>1. t \in Listed(m)
      BY <1>7 DEF Listed
    <2>2. p \in m.content[t] /\ p \notin lost
      BY <1>1, <1>7, <2>1
    <2>3. p \in Panes /\ p \in seen /\ p \in m.panes /\ looked.process[p] # "dead"
      BY <1>6, <2>1, <2>2
    <2>4. Noticed(looked, p) # "dead"
      BY <1>3, <2>3
    <2> QED BY <1>7, <2>3, <2>4 DEF Noticed, ExitBehavior
  <1> QED BY <1>2, <1>5, <1>7, <1>8, <1>9

\* A prune while no activity is held is safe, leaves nothing dead and no
\* empty window, and schedules the removal of panes at most, as long as a
\* window is left (Mux::prune_dead_windows).
LEMMA PruneSafely ==
    ASSUME behaviour \in Behaviours, NEW m \in Registries, Sound(m), ~ Busy
    PROVE  /\ Safely(m, Prune(m))
           /\ Clean(Prune(m))
           /\ \/ Prune(m).windows = {}
              \/ Prune(m).scheduled = m.scheduled
              \/ \E L \in SUBSET Panes : Prune(m).scheduled = Append(m.scheduled, Removes(L))
  <1> DEFINE thinned == Thinned(m)
             dead == DeadTabs(thinned)
             unlisted == Unlisted(thinned)
             forgotten == ForgetTabs(unlisted, dead)
             hollow == Hollow(unlisted)
             pruned == [forgotten EXCEPT !.windows = @ \ hollow]
  <1>1. Prune(m) = IF pruned.panes = {} THEN [pruned EXCEPT !.scheduled = Append(@, Quits)]
                                        ELSE pruned
    BY DEF Prune
  <1>2. /\ Safely(m, thinned)
        /\ thinned.tabs = m.tabs /\ thinned.windows = m.windows
        /\ thinned.listing = m.listing
        /\ thinned.panes = m.panes
        /\ \A t \in Listed(thinned) : \A p \in thinned.content[t] :
              p \in thinned.panes /\ thinned.process[p] # "dead" /\ Noticed(thinned, p) # "dead"
        /\ \/ thinned.scheduled = m.scheduled
           \/ \E L \in SUBSET Panes : thinned.scheduled = Append(m.scheduled, Removes(L))
    BY ThinnedSafely
  <1>3. thinned \in Registries /\ Sound(thinned)
    BY <1>2 DEF Safely
  <1> HIDE DEF thinned
  <1>4. /\ Safely(thinned, unlisted)
        /\ unlisted.tabs = m.tabs /\ unlisted.windows = m.windows
        /\ unlisted.content = thinned.content
        /\ unlisted.panes = m.panes /\ unlisted.process = thinned.process
        /\ unlisted.origin = thinned.origin
        /\ unlisted.killed = thinned.killed /\ unlisted.scheduled = thinned.scheduled
        /\ \A w \in Windows : unlisted.listing[w] = m.listing[w] \ dead
    BY <1>2, <1>3, UnlistedSafely
  <1>5. unlisted \in Registries /\ Sound(unlisted)
    BY <1>4 DEF Safely
  <1>6. dead \in SUBSET Tabs /\ \A t \in Listed(m) \ dead : ~ IsDead(thinned, t)
    <2>1. Listed(thinned) \subseteq Tabs
      BY <1>3 DEF Listed, Registries
    <2>2. Listed(thinned) = Listed(m)
      BY <1>2 DEF Listed
    <2> QED BY <1>2, <1>3, <2>1, <2>2 DEF DeadTabs, Registries
  <1> HIDE DEF unlisted, dead
  <1>7. /\ Safely(unlisted, forgotten)
        /\ forgotten.tabs = m.tabs \ dead /\ forgotten.windows = m.windows
        /\ forgotten.process = thinned.process /\ forgotten.origin = thinned.origin
        /\ forgotten.scheduled = thinned.scheduled
        /\ forgotten.panes
              = m.panes \ UNION {thinned.content[t] : t \in dead \cap m.tabs}
        /\ \A w \in Windows : forgotten.listing[w] = m.listing[w] \ dead
        /\ \A t \in Tabs : t \notin dead \cap m.tabs
                              => forgotten.content[t] = thinned.content[t]
        /\ \A p \in Panes : (\A t \in dead : p \notin thinned.content[t])
                               => (p \in forgotten.killed <=> p \in thinned.killed)
    BY <1>4, <1>5, <1>6, ForgetTabsSafely, ForgetTabsFields
  <1>8. forgotten \in Registries /\ Sound(forgotten)
    BY <1>7 DEF Safely
  <1>9. hollow = {w \in m.windows : m.listing[w] \subseteq dead} /\ hollow \in SUBSET Windows
    BY <1>4, <1>5 DEF Hollow, Registries
  <1> HIDE DEF forgotten, hollow
  <1>10. /\ Safely(forgotten, pruned)
         /\ pruned.windows = m.windows \ hollow
         /\ pruned.tabs = forgotten.tabs /\ pruned.content = forgotten.content
         /\ pruned.listing = forgotten.listing /\ pruned.panes = forgotten.panes
         /\ pruned.process = thinned.process /\ pruned.origin = thinned.origin
         /\ pruned.killed = forgotten.killed
         /\ pruned.scheduled = thinned.scheduled
    <2>1. \A w \in hollow : forgotten.listing[w] = {}
      BY <1>7, <1>9
    <2>2. /\ Safely(forgotten, pruned)
          /\ pruned.windows = forgotten.windows \ hollow
          /\ pruned.tabs = forgotten.tabs /\ pruned.content = forgotten.content
          /\ pruned.listing = forgotten.listing /\ pruned.panes = forgotten.panes
          /\ pruned.process = forgotten.process /\ pruned.origin = forgotten.origin
          /\ pruned.killed = forgotten.killed
          /\ pruned.scheduled = forgotten.scheduled
      BY <1>8, <1>9, <2>1, DropWindowsSafely
    <2> HIDE DEF pruned
    <2> QED BY <1>7, <2>2
  <1>11. pruned \in Registries /\ Sound(pruned)
    BY <1>10 DEF Safely
  <1> HIDE DEF pruned
  <1>12. Safely(m, pruned)
    BY <1>2, <1>4, <1>7, <1>10, SafelyTwice
  <1>13. Clean(pruned)
    <2>1. \A w \in pruned.windows : w \in Windows /\ pruned.listing[w] # {}
      BY <1>7, <1>9, <1>10, <1>11 DEF Registries
    <2>2. ASSUME NEW w \in Windows, NEW t \in pruned.listing[w]
          PROVE  /\ pruned.content[t] # {}
                 /\ pruned.content[t] \subseteq pruned.panes
                 /\ \A p \in pruned.content[t] : Noticed(pruned, p) # "dead"
      <3>1. w \in m.windows /\ t \in m.listing[w] /\ t \notin dead
        BY <1>7, <1>10, <2>2 DEF Sound
      <3>2. t \in Tabs /\ t \in Listed(m) /\ t \in Listed(thinned)
        BY <1>2, <1>3, <3>1 DEF Listed, Registries
      <3>3. pruned.content[t] = thinned.content[t] /\ pruned.content[t] # {}
        BY <1>6, <1>7, <1>10, <3>1, <3>2 DEF IsDead
      <3>4. ASSUME NEW p \in pruned.content[t]
            PROVE  p \in pruned.panes /\ Noticed(pruned, p) # "dead"
        <4>1. /\ p \in Panes /\ p \in m.panes /\ p \in thinned.content[t]
              /\ Noticed(thinned, p) # "dead"
          BY <1>2, <1>3, <3>2, <3>3 DEF Registries
        <4>2. \A u \in dead : p \notin thinned.content[u]
          BY <1>3, <1>6, <3>1, <3>2, <4>1 DEF Sound
        <4>3. p \in pruned.panes /\ (p \in pruned.killed <=> p \in thinned.killed)
          BY <1>7, <1>10, <4>1, <4>2
        <4> QED BY <1>10, <4>1, <4>3 DEF Noticed, ExitBehavior
      <3> QED BY <3>3, <3>4
    <2> QED BY <2>1, <2>2 DEF Clean
  <1>14. CASE pruned.panes # {}
    BY <1>1, <1>2, <1>10, <1>12, <1>13, <1>14
  <1>15. CASE pruned.panes = {}
    <2> DEFINE told == [pruned EXCEPT !.scheduled = Append(@, Quits)]
    <2>1. Prune(m) = told
      BY <1>1, <1>15
    <2>2. /\ pruned.scheduled \in Seq(Tasks) /\ Quits \in Tasks
          /\ Append(pruned.scheduled, Quits) \in Seq(Tasks)
          /\ InQueue(pruned.scheduled) \subseteq InQueue(Append(pruned.scheduled, Quits))
      <3>1. pruned.scheduled \in Seq(Tasks) /\ Quits \in Tasks
        BY <1>11 DEF Registries, Quits, Tasks
      <3> QED BY <3>1, Queueing
    <2>3. /\ Safely(pruned, told) /\ Clean(told) /\ told.windows = pruned.windows
      BY <1>11, <1>13, <2>2, ScheduledSafely, ScheduledFields
    <2>4. pruned.windows = {}
      BY <1>11, <1>13, <1>15 DEF Clean, Registries
    <2> HIDE DEF told
    <2> QED BY <1>12, <2>1, <2>3, <2>4, SafelyTwice
  <1> QED BY <1>14, <1>15

-----------------------------------------------------------------------------
(* Who tells the GUI that the mux is empty.                                *)

\* What the queue may become without such a message.
Silent(s) ==
    \/ s = mux.scheduled
    \/ mux.scheduled # << >> /\ s = Tail(mux.scheduled)
    \/ \E q \in Seq(Tasks), k \in Tasks : k # Quits /\ s = Append(q, k)

EmptyOrSilent == mux'.windows = {} \/ Silent(mux'.scheduled)

\* A step that schedules nothing, or something else at the end, does not say
\* that the mux is empty.
LEMMA SilentSaysNothing ==
    ASSUME IInv, Silent(mux'.scheduled)
    PROVE  ~ SaysEmpty
  <1>1. mux.scheduled \in Seq(Tasks)
    BY DEF IInv, Kept, Registries
  <1>2. CASE mux'.scheduled = mux.scheduled
    BY <1>2 DEF SaysEmpty
  <1>3. CASE mux.scheduled # << >> /\ mux'.scheduled = Tail(mux.scheduled)
    <2>1. mux'.scheduled = SubSeq(mux.scheduled, 2, Len(mux.scheduled))
      BY <1>1, <1>3, Taking
    <2> QED BY <2>1 DEF SaysEmpty
  <1>4. CASE \E q \in Seq(Tasks), k \in Tasks : k # Quits /\ mux'.scheduled = Append(q, k)
    <2>1. PICK q \in Seq(Tasks), k \in Tasks : k # Quits /\ mux'.scheduled = Append(q, k)
      BY <1>4
    <2>2. mux'.scheduled[Len(mux'.scheduled)] = k
      BY <2>1
    <2> QED BY <2>1, <2>2 DEF SaysEmpty
  <1> QED BY <1>2, <1>3, <1>4 DEF Silent

\* Prunes, removals and begun spawns are no word of an empty mux.
LEMMA OtherTasks ==
    /\ Prunes \in Tasks /\ Prunes # Quits
    /\ \A P \in SUBSET Panes : Removes(P) \in Tasks /\ Removes(P) # Quits
    /\ \A j \in Jobs : Begins(j) \in Tasks /\ Begins(j) # Quits
  <1>1. /\ Prunes.do = "prune" /\ Quits.do = "quit"
        /\ \A P : Removes(P).do = "remove"
        /\ \A j : Begins(j).do = "begin"
    BY DEF Prunes, Removes, Begins, Quits
  <1>2. /\ Prunes \in Tasks
        /\ \A P \in SUBSET Panes : Removes(P) \in Tasks
        /\ \A j \in Jobs : Begins(j) \in Tasks
    BY DEF Prunes, Removes, Begins, Tasks
  <1> QED BY <1>1, <1>2

\* The release of a job and of a window builder says nothing of an empty mux.
LEMMA ReleaseIsSilent ==
    ASSUME NEW j \in Jobs, NEW q \in Seq(Tasks),
           q = mux.scheduled \/ (mux.scheduled # << >> /\ q = Tail(mux.scheduled))
    PROVE  Silent(q \o Released(j)) /\ Silent(q \o BuilderReleased(j) \o Released(j))
  <1>1. \A s \in Seq(Tasks) : /\ s \o << >> = s
                              /\ s \o <<Prunes>> = Append(s, Prunes)
                              /\ Append(s, Prunes) \in Seq(Tasks)
    BY OtherTasks
  <1>2. \A s \in Seq(Tasks) : s \o Released(j) = s \/ s \o Released(j) = Append(s, Prunes)
    BY <1>1 DEF Released
  <1>3. \/ q \o BuilderReleased(j) = q
        \/ q \o BuilderReleased(j) = Append(q, Prunes)
    BY <1>1 DEF BuilderReleased
  <1>4. Silent(q) /\ \A s \in Seq(Tasks) : Silent(Append(s, Prunes))
    BY OtherTasks DEF Silent
  <1>5. /\ q \o BuilderReleased(j) \in Seq(Tasks)
        /\ Silent(q \o BuilderReleased(j))
    BY <1>1, <1>3, <1>4
  <1> QED BY <1>2, <1>4, <1>5

\* A prune says so only when it leaves no window.
LEMMA PruneIsSilent ==
    ASSUME behaviour \in Behaviours, NEW m \in Registries, Sound(m),
           \/ m.scheduled = mux.scheduled
           \/ mux.scheduled # << >> /\ m.scheduled = Tail(mux.scheduled)
    PROVE  Prune(m).windows = {} \/ Silent(Prune(m).scheduled)
  <1>1. CASE Busy
    BY <1>1 DEF Prune, Silent
  <1>2. CASE ~ Busy
    <2>1. m.scheduled \in Seq(Tasks)
      BY DEF Registries
    <2>2. \/ Prune(m).windows = {}
          \/ Prune(m).scheduled = m.scheduled
          \/ \E L \in SUBSET Panes : Prune(m).scheduled = Append(m.scheduled, Removes(L))
      BY <1>2, PruneSafely
    <2> QED BY <2>1, <2>2, OtherTasks DEF Silent
  <1> QED BY <1>1, <1>2

-----------------------------------------------------------------------------
(* The actions.                                                            *)

\* A prune, held back by an activity or not, establishes what the invariant
\* says of the registry.
LEMMA PruneKeeps ==
    ASSUME behaviour \in Behaviours, NEW m \in Registries, Sound(m),
           NEW S \in SUBSET Panes, Placed(m, S)
    PROVE  Kept(Prune(m), S)
  <1>1. CASE Busy
    BY <1>1 DEF Prune, Kept
  <1>2. CASE ~ Busy
    BY <1>2, PruneSafely DEF Safely, Kept
  <1> QED BY <1>1, <1>2

\* Killing panes that have no other place keeps the registry sound and every
\* pane placed.
LEMMA KillPanesSafe ==
    ASSUME NEW m \in Registries, Sound(m), NEW P, NEW S \in SUBSET Panes,
           m.panes \subseteq S \cup P \cup Shown(m) \cup Leaving(m)
    PROVE  LET k == KillPanes(m, P)
           IN  k \in Registries /\ Sound(k) /\ Placed(k, S)
  <1> DEFINE k == KillPanes(m, P)
  <1>1. /\ k \in Registries /\ Others(m, k)
        /\ k.panes = m.panes \ P
        /\ k.content = m.content /\ k.process = m.process /\ k.origin = m.origin
    BY KillPanesFields
  <1> HIDE DEF k
  <1>2. Sound(k)
    BY <1>1 DEF Sound, Others
  <1>3. Placed(k, S)
    BY <1>1 DEF Placed, Shown, Leaving, Others
  <1> QED BY <1>1, <1>2, <1>3 DEF k

\* The steps that leave the spawns alone have to keep the registry only.
LEMMA SameJobs ==
    ASSUME IInv, UNCHANGED <<behaviour, jobs>>,
           Kept(mux', stray'), stray' \in SUBSET Panes, quit' \in BOOLEAN
    PROVE  IInv'
  BY DEF IInv, Kept, StartsWithAWindow, Busy, Holds, Clean, Noticed, ExitBehavior, PruneDue,
         Placed, Shown, Leaving, Sound

\* Removing a pane keeps the invariant and says the mux is empty only without
\* windows.
LEMMA RemovePaneStep ==
    ASSUME IInv, NEW p \in Panes, RemovePane(p)
    PROVE  IInv' /\ EmptyOrSilent
  <1>1. /\ mux \in Registries /\ Sound(mux) /\ Placed(mux, stray)
        /\ behaviour \in Behaviours /\ stray \in SUBSET Panes
    BY DEF IInv, Kept
  <1>2. /\ KillPanes(mux, {p}) \in Registries /\ Sound(KillPanes(mux, {p}))
        /\ Placed(KillPanes(mux, {p}), stray)
        /\ KillPanes(mux, {p}).scheduled = mux.scheduled
    BY <1>1, KillPanesSafe, KillPanesFields DEF Placed, Others
  <1>3. Kept(Prune(KillPanes(mux, {p})), stray)
    BY <1>1, <1>2, PruneKeeps
  <1>4. IInv'
    BY <1>1, <1>3, SameJobs DEF RemovePane, IInv
  <1> QED BY <1>1, <1>2, <1>4, PruneIsSilent DEF RemovePane, EmptyOrSilent

\* So does removing a tab.
LEMMA RemoveTabStep ==
    ASSUME IInv, NEW t \in Tabs, RemoveTab(t)
    PROVE  IInv' /\ EmptyOrSilent
  <1>1. /\ mux \in Registries /\ Sound(mux) /\ Placed(mux, stray)
        /\ behaviour \in Behaviours /\ stray \in SUBSET Panes
    BY DEF IInv, Kept
  <1>2. Safely(mux, ForgetTabs(mux, {t})) /\ ForgetTabs(mux, {t}).scheduled = mux.scheduled
    BY <1>1, ForgetTabsSafely, ForgetTabsFields
  <1>3. Kept(Prune(ForgetTabs(mux, {t})), stray)
    BY <1>1, <1>2, PruneKeeps DEF Safely
  <1>4. IInv'
    BY <1>1, <1>3, SameJobs DEF RemoveTab, IInv
  <1> QED BY <1>1, <1>2, <1>4, PruneIsSilent DEF RemoveTab, EmptyOrSilent, Safely

\* So does killing a window.
LEMMA KillWindowStep ==
    ASSUME IInv, NEW w \in Windows, KillWindow(w)
    PROVE  IInv' /\ EmptyOrSilent
  <1>1. /\ mux \in Registries /\ Sound(mux) /\ Placed(mux, stray)
        /\ behaviour \in Behaviours /\ stray \in SUBSET Panes
    BY DEF IInv, Kept
  <1> DEFINE f == ForgetTabs(mux, mux.listing[w])
             n == [f EXCEPT !.windows = @ \ {w}, !.listing[w] = {}]
  <1>2. ForgetWindow(mux, w) = n
    BY DEF ForgetWindow, KillWindow
  <1>3. /\ Safely(mux, f)
        /\ f.listing[w] = {}
    <2>1. mux.listing[w] \in SUBSET Tabs
      BY <1>1 DEF Registries
    <2> QED BY <1>1, <2>1, ForgetTabsSafely, ForgetTabsFields
  <1>4. f.scheduled = mux.scheduled
    <2>1. mux.listing[w] \in SUBSET Tabs
      BY <1>1 DEF Registries
    <2> QED BY <1>1, <2>1, ForgetTabsFields
  <1>5. f \in Registries /\ Sound(f) /\ Placed(f, stray)
    BY <1>1, <1>3 DEF Safely
  <1> HIDE DEF f
  <1> DEFINE g == [f EXCEPT !.windows = @ \ {w}]
  <1>6. n \in Registries /\ n = g
    BY <1>3, <1>5, ZenonT(30) DEF Registries
  <1>7. n.scheduled = mux.scheduled
    BY <1>5, <1>4 DEF Registries
  <1> HIDE DEF n
  <1>8. Safely(f, n)
    <2>1. Safely(f, g)
      BY <1>3, <1>5, DropWindowsSafely, ZenonT(30)
    <2> HIDE DEF g
    <2> QED BY <1>6, <2>1
  <1>9. Kept(Prune(n), stray)
    BY <1>1, <1>5, <1>6, <1>8, PruneKeeps DEF Safely
  <1>10. Prune(n).windows = {} \/ Silent(Prune(n).scheduled)
    BY <1>1, <1>6, <1>8, <1>7, PruneIsSilent DEF Safely
  <1>11. IInv'
    BY <1>1, <1>2, <1>9, SameJobs DEF KillWindow, IInv
  <1> QED BY <1>2, <1>10, <1>11 DEF KillWindow, EmptyOrSilent

\* Killing a pane in its tab keeps the invariant: the removal of the pane is
\* scheduled with it.
LEMMA KillPaneInTabStep ==
    ASSUME IInv, NEW p \in Panes, NEW t \in Tabs, KillPaneInTab(p, t)
    PROVE  IInv'
  <1>1. /\ mux \in Registries /\ Sound(mux) /\ Placed(mux, stray)
        /\ behaviour \in Behaviours /\ stray \in SUBSET Panes
    BY DEF IInv, Kept
  <1> DEFINE q == Append(mux.scheduled, Removes({p}))
  <1>2. /\ q \in Seq(Tasks) /\ InQueue(q) = InQueue(mux.scheduled) \cup {Removes({p})}
    <2>1. mux.scheduled \in Seq(Tasks) /\ Removes({p}) \in Tasks
      BY <1>1 DEF Registries, Removes, Tasks
    <2> QED BY <2>1, Queueing
  <1>3. mux' = [mux EXCEPT !.content[t] = @ \ {p}, !.scheduled = q]
    BY DEF KillPaneInTab
  <1> HIDE DEF q
  <1>4. /\ mux' \in Registries
        /\ mux'.tabs = mux.tabs /\ mux'.windows = mux.windows /\ mux'.listing = mux.listing
        /\ mux'.panes = mux.panes /\ mux'.process = mux.process /\ mux'.origin = mux.origin
        /\ mux'.nextTab = mux.nextTab /\ mux'.nextWindow = mux.nextWindow
        /\ mux'.scheduled = q
        /\ \A u \in Tabs : mux'.content[u] = IF u = t THEN mux.content[u] \ {p}
                                             ELSE mux.content[u]
    BY <1>1, <1>2, <1>3 DEF Registries
  <1>5. Sound(mux')
    BY <1>1, <1>4, ZenonT(30) DEF Sound
  <1>6. Removes({p}).do = "remove" /\ Removes({p}).panes = {p}
    BY DEF Removes
  <1>7. PruneDue(mux')
    BY <1>2, <1>4, <1>6 DEF PruneDue
  <1>8. Placed(mux', stray)
    <2> SUFFICES ASSUME NEW o \in mux.panes, o \notin stray, o \notin Leaving(mux')
                 PROVE  o \in Shown(mux')
      BY <1>4 DEF Placed
    <2>1. o \in Panes /\ o \notin Leaving(mux) /\ o # p
      BY <1>1, <1>2, <1>4, <1>6 DEF Leaving, Registries
    <2>2. o \in Shown(mux)
      BY <1>1, <2>1 DEF Placed
    <2> QED BY <1>1, <1>4, <2>1, <2>2 DEF Shown, Registries
  <1> QED BY <1>1, <1>4, <1>5, <1>7, <1>8, SameJobs DEF KillPaneInTab, Kept, IInv

\* A step that only schedules a prune or a removal, and changes no place of a pane.
LEMMA DueStep ==
    ASSUME IInv, NEW n \in Registries, NEW k \in Tasks, k.do \in {"prune", "remove"},
           n.panes = mux.panes, n.tabs = mux.tabs, n.windows = mux.windows,
           n.content = mux.content, n.listing = mux.listing,
           n.nextTab = mux.nextTab, n.nextWindow = mux.nextWindow,
           \A p \in Panes : n.process[p] = "unborn" <=> mux.process[p] = "unborn",
           n.scheduled = Append(mux.scheduled, k)
    PROVE  Kept(n, stray)
  <1>1. mux \in Registries /\ Sound(mux) /\ Placed(mux, stray)
    BY DEF IInv, Kept
  <1>2. InQueue(n.scheduled) = InQueue(mux.scheduled) \cup {k}
    <2>1. mux.scheduled \in Seq(Tasks)
      BY <1>1 DEF Registries
    <2> QED BY <2>1, Queueing
  <1>3. Sound(n)
    BY <1>1 DEF Sound
  <1>4. PruneDue(n)
    BY <1>2 DEF PruneDue
  <1>5. Placed(n, stray)
    BY <1>1, <1>2 DEF Placed, Shown, Leaving
  <1> QED BY <1>3, <1>4, <1>5 DEF Kept

\* The exit of a process keeps the invariant, as it schedules a prune.
LEMMA ProcessExitsStep ==
    ASSUME IInv, NEW p \in Panes, ProcessExits(p)
    PROVE  IInv'
  <1>1. mux \in Registries /\ behaviour \in Behaviours /\ stray \in SUBSET Panes
    BY DEF IInv, Kept
  <1>2. PICK how \in {"exited", "failed"} :
           mux' = [mux EXCEPT !.process[p] = how, !.scheduled = Append(@, Prunes)]
    BY DEF ProcessExits
  <1>3. Prunes \in Tasks /\ Prunes.do = "prune"
    BY DEF Prunes, Tasks
  <1> DEFINE q == Append(mux.scheduled, Prunes)
  <1>4. q \in Seq(Tasks)
    BY <1>1, <1>3 DEF Registries
  <1>5. mux' = [mux EXCEPT !.process[p] = how, !.scheduled = q]
    BY <1>2
  <1> HIDE DEF q
  <1>6. mux' \in Registries
    BY <1>1, <1>4, <1>5 DEF Registries
  <1>7. Kept(mux', stray)
    <2>1. mux.process[p] = "running"
      BY DEF ProcessExits
    <2>2. /\ mux'.panes = mux.panes /\ mux'.tabs = mux.tabs /\ mux'.windows = mux.windows
          /\ mux'.content = mux.content /\ mux'.listing = mux.listing
          /\ mux'.nextTab = mux.nextTab /\ mux'.nextWindow = mux.nextWindow
          /\ \A o \in Panes : mux'.process[o] = "unborn" <=> mux.process[o] = "unborn"
          /\ mux'.scheduled = Append(mux.scheduled, Prunes)
      BY <1>1, <1>5, <2>1 DEF Registries, q
    <2> QED BY <1>3, <1>6, <2>2, DueStep
  <1> QED BY <1>1, <1>7, SameJobs DEF ProcessExits, IInv

\* The end of a pane's output keeps it, as it schedules a prune or the
\* removal of the pane.
LEMMA ReaderEndsStep ==
    ASSUME IInv, NEW p \in Panes, ReaderEnds(p)
    PROVE  IInv'
  <1>1. mux \in Registries /\ behaviour \in Behaviours /\ stray \in SUBSET Panes
    BY DEF IInv, Kept
  <1>2. PICK k \in {Removes({p}), Prunes} :
           mux' = [mux EXCEPT !.reading = @ \ {p}, !.scheduled = Append(@, k)]
    BY DEF ReaderEnds
  <1>3. k \in Tasks /\ k.do \in {"prune", "remove"}
    BY DEF Prunes, Removes, Tasks
  <1> DEFINE q == Append(mux.scheduled, k)
  <1>4. q \in Seq(Tasks)
    BY <1>1, <1>3 DEF Registries
  <1>5. mux' = [mux EXCEPT !.reading = @ \ {p}, !.scheduled = q]
    BY <1>2
  <1> HIDE DEF q
  <1>6. mux' \in Registries
    BY <1>1, <1>4, <1>5 DEF Registries
  <1>7. Kept(mux', stray)
    <2>1. /\ mux'.panes = mux.panes /\ mux'.tabs = mux.tabs /\ mux'.windows = mux.windows
          /\ mux'.content = mux.content /\ mux'.listing = mux.listing
          /\ mux'.nextTab = mux.nextTab /\ mux'.nextWindow = mux.nextWindow
          /\ mux'.process = mux.process /\ mux'.origin = mux.origin
          /\ mux'.scheduled = Append(mux.scheduled, k)
      BY <1>1, <1>5 DEF Registries, q
    <2> QED BY <1>3, <1>6, <2>1, DueStep
  <1> QED BY <1>1, <1>7, SameJobs DEF ReaderEnds, IInv

\* A connection that is made keeps it: a pane whose process runs is not dead,
\* whatever its exit behaviour.
LEMMA ConnectsStep ==
    ASSUME IInv, NEW p \in Panes, Connects(p)
    PROVE  IInv'
  <1>1. mux \in Registries /\ behaviour \in Behaviours /\ stray \in SUBSET Panes
    BY DEF IInv, Kept
  <1> DEFINE or == [mux.origin EXCEPT ![p] = "connected"]
  <1>2. /\ or \in [Panes -> Origins]
        /\ \A o \in Panes : o # p => or[o] = mux.origin[o]
    BY <1>1 DEF Registries, Origins
  <1>3. mux' = [mux EXCEPT !.origin = or]
    BY <1>1 DEF Connects, Registries
  <1> HIDE DEF or
  <1>4. /\ mux' \in Registries
        /\ mux'.panes = mux.panes /\ mux'.tabs = mux.tabs /\ mux'.windows = mux.windows
        /\ mux'.content = mux.content /\ mux'.listing = mux.listing
        /\ mux'.nextTab = mux.nextTab /\ mux'.nextWindow = mux.nextWindow
        /\ mux'.process = mux.process /\ mux'.killed = mux.killed
        /\ mux'.scheduled = mux.scheduled /\ mux'.origin = or
    BY <1>1, <1>2, <1>3 DEF Registries
  <1>5. \A o \in Panes : Noticed(mux', o) = Noticed(mux, o)
    <2>1. mux.process[p] = "running"
      BY DEF Connects
    <2> QED BY <1>2, <1>4, <2>1 DEF Noticed, ExitBehavior
  <1>6. Clean(mux) => Clean(mux')
    <2>1. \A t \in Tabs : mux.content[t] \subseteq Panes
      BY <1>1 DEF Registries
    <2>2. \A w \in Windows : mux.listing[w] \subseteq Tabs
      BY <1>1 DEF Registries
    <2> QED BY <1>4, <1>5, <2>1, <2>2 DEF Clean
  <1>7. Kept(mux', stray)
    <2>1. Sound(mux') /\ Placed(mux', stray)
      BY <1>4 DEF IInv, Kept, Sound, Placed, Shown, Leaving
    <2>2. PruneDue(mux) => PruneDue(mux')
      BY <1>4 DEF PruneDue
    <2> QED BY <1>4, <1>6, <2>1, <2>2 DEF IInv, Kept
  <1> QED BY <1>1, <1>7, SameJobs DEF Connects, IInv

\* Another queue changes no place and no window.
LEMMA Rescheduled ==
    ASSUME NEW m \in Registries, Sound(m), NEW q \in Seq(Tasks)
    PROVE  LET n == [m EXCEPT !.scheduled = q]
           IN  /\ n \in Registries /\ Sound(n) /\ n.scheduled = q /\ n.panes = m.panes
               /\ Shown(n) = Shown(m)
               /\ Clean(n) <=> Clean(m)
  <1> DEFINE n == [m EXCEPT !.scheduled = q]
  <1>1. /\ n \in Registries
        /\ n.panes = m.panes /\ n.tabs = m.tabs /\ n.windows = m.windows
        /\ n.content = m.content /\ n.listing = m.listing
        /\ n.process = m.process /\ n.origin = m.origin /\ n.killed = m.killed
        /\ n.nextTab = m.nextTab /\ n.nextWindow = m.nextWindow
        /\ n.scheduled = q
    BY ScheduledFields
  <1> HIDE DEF n
  <1>2. Sound(n)
    BY <1>1 DEF Sound
  <1>3. Shown(n) = Shown(m)
    BY <1>1 DEF Shown
  <1>4. Clean(n) <=> Clean(m)
    BY <1>1 DEF Clean, Noticed, ExitBehavior
  <1> QED BY <1>1, <1>2, <1>3, <1>4 DEF n

\* What a step of a job must do to keep the invariant: schedule a prune, hold
\* an activity, or neither let go of one nor dirty a window.
LEMMA JobStep ==
    ASSUME IInv, UNCHANGED behaviour, stray' \in SUBSET Panes, quit' \in BOOLEAN,
           NEW j \in Jobs, NEW r \in Job, jobs' = [jobs EXCEPT ![j] = r],
           j = StartJob => r.stage \notin {"idle", "asked"},
           mux' \in Registries, Sound(mux'), Placed(mux', stray'),
           \/ PruneDue(mux')
           \/ r.stage = "spawning" /\ (r.held \/ r.kind = "window")
           \/ /\ ~ Holds(j)
              /\ PruneDue(mux) => PruneDue(mux')
              /\ Clean(mux) => Clean(mux')
    PROVE  IInv'
  <1>1. jobs \in [Jobs -> Job] /\ behaviour \in Behaviours /\ StartsWithAWindow
    BY DEF IInv
  <1>2. jobs' \in [Jobs -> Job] /\ jobs'[j] = r /\ \A i \in Jobs \ {j} : jobs'[i] = jobs[i]
    BY <1>1
  <1>3. StartsWithAWindow'
    BY <1>1, <1>2, StartAssumption DEF StartsWithAWindow
  <1>4. ASSUME Busy, ~ Holds(j)
        PROVE  Busy'
    <2>1. PICK i \in Jobs : Holds(i)
      BY <1>4 DEF Busy
    <2>2. i # j
      BY <1>4, <2>1
    <2> QED BY <1>2, <2>1, <2>2 DEF Busy, Holds
  <1>5. r.stage = "spawning" /\ (r.held \/ r.kind = "window") => Busy'
    BY <1>2 DEF Busy, Holds
  <1>6. Clean(mux') => Clean(mux)'
    BY DEF Clean, Noticed, ExitBehavior
  <1>7. PruneDue(mux') => PruneDue(mux)'
    BY DEF PruneDue
  <1>8. Sound(mux)' /\ Placed(mux, stray)'
    BY DEF Sound, Placed, Shown, Leaving
  <1>9. (Busy \/ PruneDue(mux) \/ Clean(mux))'
    BY <1>4, <1>5, <1>6, <1>7 DEF IInv, Kept
  <1> QED BY <1>1, <1>2, <1>3, <1>8, <1>9 DEF IInv, Kept

\* A job that is over is done.
LEMMA DoneFields ==
    ASSUME NEW j \in Jobs
    PROVE  \E r \in Job : r.stage = "done" /\ Done(j) = [jobs EXCEPT ![j] = r]
  <1> DEFINE r == [Idle EXCEPT !.stage = "done"]
  <1>1. 1 \in Windows /\ 1 \in Tabs /\ 1 \in Panes
    BY BoundsAssumption DEF Windows, Tabs, Panes
  <1>2. r \in Job /\ r.stage = "done"
    BY <1>1 DEF Idle, Job, JobKinds
  <1>3. Done(j) = [jobs EXCEPT ![j] = r]
    BY DEF Done
  <1> QED BY <1>2, <1>3

\* The release of a job that holds an activity, or of a window that was being
\* built, schedules a prune and nothing else.
LEMMA ReleaseFields ==
    ASSUME NEW j \in Jobs, NEW q \in Seq(Tasks)
    PROVE  LET a == q \o Released(j)
               b == q \o BuilderReleased(j) \o Released(j)
           IN  /\ a \in Seq(Tasks) /\ b \in Seq(Tasks)
               /\ InQueue(q) \subseteq InQueue(a) /\ InQueue(q) \subseteq InQueue(b)
               /\ jobs[j].held => Prunes \in InQueue(a) /\ Prunes \in InQueue(b)
               /\ jobs[j].kind = "window" => Prunes \in InQueue(b)
               /\ \A k \in InQueue(a) \cup InQueue(b) : k \in InQueue(q) \/ k = Prunes
  <1>1. Prunes \in Tasks
    BY DEF Prunes, Tasks
  <1>2. <<Prunes>> \in Seq(Tasks) /\ InQueue(<<Prunes>>) = {Prunes}
    BY <1>1 DEF InQueue
  <1>3. << >> \in Seq(Tasks) /\ InQueue(<< >>) = {}
    BY DEF InQueue
  <1>4. /\ Released(j) \in Seq(Tasks)
        /\ InQueue(Released(j)) = IF jobs[j].held THEN {Prunes} ELSE {}
    BY <1>2, <1>3 DEF Released
  <1>5. /\ BuilderReleased(j) \in Seq(Tasks)
        /\ InQueue(BuilderReleased(j)) = IF jobs[j].kind = "window" THEN {Prunes} ELSE {}
    BY <1>2, <1>3 DEF BuilderReleased
  <1> DEFINE c == q \o BuilderReleased(j)
  <1>6. c \in Seq(Tasks) /\ InQueue(c) = InQueue(q) \cup InQueue(BuilderReleased(j))
    BY <1>1, <1>5, Queueing
  <1>7. /\ q \o Released(j) \in Seq(Tasks)
        /\ InQueue(q \o Released(j)) = InQueue(q) \cup InQueue(Released(j))
    BY <1>1, <1>4, Queueing
  <1> HIDE DEF c
  <1>8. /\ c \o Released(j) \in Seq(Tasks)
        /\ InQueue(c \o Released(j)) = InQueue(c) \cup InQueue(Released(j))
    BY <1>1, <1>4, <1>6, Queueing
  <1>9. q \o BuilderReleased(j) \o Released(j) = c \o Released(j)
    BY DEF c
  <1> QED BY <1>4, <1>5, <1>6, <1>7, <1>8, <1>9

\* Asking for a pane keeps the invariant.
LEMMA AskStep ==
    ASSUME IInv, NEW j \in Jobs, Ask(j)
    PROVE  IInv'
  <1>1. /\ mux \in Registries /\ Sound(mux) /\ Placed(mux, stray) /\ stray \in SUBSET Panes
        /\ jobs \in [Jobs -> Job] /\ StartsWithAWindow /\ quit \in BOOLEAN
    BY DEF IInv, Kept
  <1>2. PICK r \in Job : r.stage = "asked" /\ jobs' = [jobs EXCEPT ![j] = r]
    <2>1. PICK kind \in JobKinds, held \in BOOLEAN, w \in Windows, p \in Panes :
             jobs' = [jobs EXCEPT ![j] = [stage |-> "asked", kind |-> kind, held |-> held,
                                          window |-> w, tab |-> 1, pane |-> p]]
      BY DEF Ask
    <2>2. 1 \in Tabs
      BY BoundsAssumption DEF Tabs
    <2> QED BY <2>1, <2>2 DEF Job
  <1>3. j # StartJob /\ ~ Holds(j)
    BY <1>1 DEF Ask, StartsWithAWindow, Holds
  <1> DEFINE q == Append(mux.scheduled, Begins(j))
  <1>4. q \in Seq(Tasks) /\ InQueue(q) = InQueue(mux.scheduled) \cup {Begins(j)}
    <2>1. mux.scheduled \in Seq(Tasks) /\ Begins(j) \in Tasks
      BY <1>1 DEF Registries, Begins, Tasks
    <2> QED BY <2>1, Queueing
  <1>5. mux' = [mux EXCEPT !.scheduled = q]
    BY DEF Ask
  <1> HIDE DEF q
  <1>6. /\ Safely(mux, mux') /\ (Clean(mux') <=> Clean(mux)) /\ mux'.scheduled = q
    BY <1>1, <1>4, <1>5, ScheduledSafely, ScheduledFields
  <1>7. PruneDue(mux) => PruneDue(mux')
    BY <1>4, <1>6 DEF PruneDue
  <1>8. UNCHANGED <<behaviour, stray, quit>>
    BY DEF Ask
  <1> QED BY <1>1, <1>2, <1>3, <1>6, <1>7, <1>8, JobStep DEF Safely

\* A failed spawn keeps it: the activity it lets go, or the window built for
\* it, is pruned.
LEMMA SpawnFailsStep ==
    ASSUME IInv, NEW j \in Jobs, SpawnFails(j)
    PROVE  IInv'
  <1>1. /\ mux \in Registries /\ Sound(mux) /\ Placed(mux, stray) /\ stray \in SUBSET Panes
        /\ quit \in BOOLEAN /\ jobs[j].stage = "spawning"
    BY DEF IInv, Kept, SpawnFails
  <1>2. PICK r \in Job : r.stage = "done" /\ jobs' = [jobs EXCEPT ![j] = r]
    BY DoneFields DEF SpawnFails
  <1> DEFINE q == mux.scheduled \o BuilderReleased(j) \o Released(j)
             c == [t \in Tabs |-> IF t \in mux.tabs THEN mux.content[t] ELSE {}]
  <1>3. /\ q \in Seq(Tasks) /\ InQueue(mux.scheduled) \subseteq InQueue(q)
        /\ jobs[j].held \/ jobs[j].kind = "window" => Prunes \in InQueue(q)
    BY <1>1, ReleaseFields DEF Registries
  <1>4. /\ c \in [Tabs -> SUBSET Panes]
        /\ \A t \in Tabs : c[t] = IF t \in mux.tabs THEN mux.content[t] ELSE {}
    BY <1>1 DEF Registries
  <1>5. mux' = [mux EXCEPT !.scheduled = q, !.content = c]
    BY DEF SpawnFails
  <1> HIDE DEF q, c
  <1>6. /\ mux' \in Registries
        /\ mux'.panes = mux.panes /\ mux'.tabs = mux.tabs /\ mux'.windows = mux.windows
        /\ mux'.content = c /\ mux'.listing = mux.listing
        /\ mux'.process = mux.process /\ mux'.origin = mux.origin
        /\ mux'.killed = mux.killed
        /\ mux'.nextTab = mux.nextTab /\ mux'.nextWindow = mux.nextWindow
        /\ mux'.scheduled = q
    BY <1>1, <1>3, <1>4, <1>5 DEF Registries
  <1>7. Sound(mux')
    BY <1>1, <1>4, <1>6 DEF Sound
  <1>8. \A w \in Windows : \A t \in mux.listing[w] : t \in Tabs /\ c[t] = mux.content[t]
    BY <1>1, <1>4 DEF Sound, Registries
  <1>9. Placed(mux', stray)
    BY <1>1, <1>3, <1>6, <1>8 DEF Placed, Shown, Leaving
  <1>10. Clean(mux) => Clean(mux')
    BY <1>6, <1>8 DEF Clean, Noticed, ExitBehavior
  <1>11. PruneDue(mux) => PruneDue(mux')
    BY <1>3, <1>6 DEF PruneDue
  <1>12. CASE jobs[j].held \/ jobs[j].kind = "window"
    <2>1. PruneDue(mux')
      BY <1>3, <1>6, <1>12 DEF PruneDue, Prunes
    <2> QED BY <1>1, <1>2, <1>6, <1>7, <1>9, <2>1, JobStep DEF SpawnFails
  <1>13. CASE ~ (jobs[j].held \/ jobs[j].kind = "window")
    <2>1. ~ Holds(j)
      BY <1>1, <1>13 DEF Holds
    <2> QED BY <1>1, <1>2, <1>6, <1>7, <1>9, <1>10, <1>11, <2>1, JobStep DEF SpawnFails
  <1> QED BY <1>12, <1>13

\* A finished spawn keeps it, also when its window or domain has gone while
\* it waited.
LEMMA FinishSpawnStep ==
    ASSUME IInv, NEW j \in Jobs, FinishSpawn(j)
    PROVE  IInv'
  <1>1. /\ mux \in Registries /\ Sound(mux) /\ Placed(mux, stray) /\ stray \in SUBSET Panes
        /\ quit \in BOOLEAN /\ jobs[j].stage = "spawning" /\ jobs \in [Jobs -> Job]
    BY DEF IInv, Kept, FinishSpawn
  <1>2. PICK r \in Job : r.stage = "done" /\ jobs' = [jobs EXCEPT ![j] = r]
    BY DoneFields DEF FinishSpawn
  <1> DEFINE q == mux.scheduled \o BuilderReleased(j) \o Released(j)
             t == mux.nextTab
             w == jobs[j].window
             there == w \in mux.windows
  <1>3. /\ q \in Seq(Tasks) /\ InQueue(mux.scheduled) \subseteq InQueue(q)
        /\ jobs[j].held \/ jobs[j].kind = "window" => Prunes \in InQueue(q)
    BY <1>1, ReleaseFields DEF Registries
  <1>4. t \in Tabs /\ w \in Windows /\ t + 1 \in 1 .. MaxTabs + 1
    <2>1. MaxTabs \in Nat
      BY BoundsAssumption
    <2> QED BY <1>1, <2>1 DEF FinishSpawn, Job, Tabs
  <1>5. PICK p \in Newborn(mux), origin \in Origins :
           /\ mux' = [WithPane(p, origin) EXCEPT
                      !.tabs = @ \cup {t}, !.content[t] = {p}, !.nextTab = t + 1,
                      !.listing[w] = IF there THEN @ \cup {t} ELSE @,
                      !.scheduled = q]
           /\ stray' = IF there THEN stray ELSE stray \cup {p}
    <2>1. PICK p \in Newborn(mux), origin \in Origins :
           /\ mux' = [WithPane(p, origin) EXCEPT
                      !.tabs = @ \cup {t}, !.content[t] = {p}, !.nextTab = t + 1,
                      !.listing[w] = IF there THEN @ \cup {t} ELSE @,
                      !.scheduled = @ \o BuilderReleased(j) \o Released(j)]
           /\ stray' = IF there THEN stray ELSE stray \cup {p}
      BY DEF FinishSpawn
    <2>2. WithPane(p, origin).scheduled = mux.scheduled
      BY <1>1 DEF WithPane, Registries
    <2> QED BY <2>1, <2>2
  <1>6. p \in Panes /\ mux.process[p] = "unborn"
    BY <1>5 DEF Newborn
  <1> DEFINE pr == [mux.process EXCEPT ![p] = "running"]
             or == [mux.origin EXCEPT ![p] = origin]
             c == [mux.content EXCEPT ![t] = {p}]
             l == [mux.listing EXCEPT ![w] = IF there THEN @ \cup {t} ELSE @]
             ps == mux.panes \cup {p}
             rd == mux.reading \cup {p}
             ts == mux.tabs \cup {t}
             nt == t + 1
  <1>7. mux' = [mux EXCEPT !.panes = ps, !.process = pr, !.origin = or, !.reading = rd,
                           !.tabs = ts, !.content = c, !.nextTab = nt, !.listing = l,
                           !.scheduled = q]
    BY <1>1, <1>5 DEF WithPane, Registries
  <1>8. /\ pr \in [Panes -> {"unborn", "running", "exited", "failed", "pending", "dead"}]
        /\ \A o \in Panes : pr[o] = IF o = p THEN "running" ELSE mux.process[o]
        /\ or \in [Panes -> Origins]
        /\ \A o \in Panes : o # p => or[o] = mux.origin[o]
    BY <1>1, <1>6 DEF Registries
  <1>9. /\ c \in [Tabs -> SUBSET Panes]
        /\ \A u \in Tabs : c[u] = IF u = t THEN {p} ELSE mux.content[u]
    BY <1>1, <1>4, <1>6 DEF Registries
  <1>10. /\ l \in [Windows -> SUBSET Tabs]
        /\ \A v \in Windows : l[v] = IF v = w /\ there THEN mux.listing[v] \cup {t}
                                     ELSE mux.listing[v]
    BY <1>1, <1>4 DEF Registries
  <1>11. ps \in SUBSET Panes /\ rd \in SUBSET Panes /\ ts \in SUBSET Tabs
    BY <1>1, <1>4, <1>6 DEF Registries
  <1>12. /\ t \notin mux.tabs /\ mux.content[t] = {}
        /\ \A v \in Windows : t \notin mux.listing[v]
        /\ \A u \in Tabs : p \notin mux.content[u]
        /\ p \notin mux.panes
    BY <1>1, <1>4, <1>6 DEF Sound, Tabs
  <1>13. ASSUME NEW u \in Tabs, u >= nt
        PROVE  u \notin ts /\ c[u] = {}
    <2>1. u # t /\ u >= t
      BY <1>4, <1>13 DEF Tabs
    <2>2. u \notin mux.tabs /\ mux.content[u] = {}
      BY <1>1, <2>1 DEF Sound
    <2> QED BY <1>9, <2>1, <2>2
  <1> HIDE DEF q, pr, or, c, l, ps, rd, ts, nt
  <1>14. /\ mux' \in Registries
        /\ mux'.panes = ps /\ mux'.tabs = ts
        /\ mux'.windows = mux.windows /\ mux'.killed = mux.killed
        /\ mux'.nextTab = nt /\ mux'.nextWindow = mux.nextWindow
        /\ mux'.process = pr /\ mux'.origin = or /\ mux'.content = c /\ mux'.listing = l
        /\ mux'.scheduled = q
    BY <1>1, <1>3, <1>4, <1>7, <1>8, <1>9, <1>10, <1>11 DEF Registries, nt
  <1>15. ps = mux.panes \cup {p} /\ ts = mux.tabs \cup {t}
    BY DEF ps, ts
  <1> HIDE DEF t, w
  <1>16. Sound(mux')
    <2>1. \A u, v \in Tabs : u # v => mux'.content[u] \cap mux'.content[v] = {}
      BY <1>1, <1>4, <1>14, <1>9, <1>12 DEF Sound
    <2>2. \A v, x \in Windows : v # x => mux'.listing[v] \cap mux'.listing[x] = {}
      BY <1>1, <1>4, <1>14, <1>10, <1>12 DEF Sound
    <2>3. \A v \in Windows : /\ mux'.listing[v] \subseteq mux'.tabs
                             /\ v \notin mux'.windows => mux'.listing[v] = {}
      BY <1>1, <1>4, <1>14, <1>15, <1>10 DEF Sound
    <2>4. \A o \in Panes : mux'.process[o] = "unborn" =>
             o \notin mux'.panes /\ \A u \in Tabs : o \notin mux'.content[u]
      BY <1>1, <1>14, <1>15, <1>8, <1>9 DEF Sound
    <2>5. \A u \in Tabs : u >= mux'.nextTab => u \notin mux'.tabs /\ mux'.content[u] = {}
      BY <1>13, <1>14
    <2> QED BY <1>1, <1>14, <2>1, <2>2, <2>3, <2>4, <2>5 DEF Sound
  <1>17. Placed(mux', stray')
    <2> SUFFICES ASSUME NEW o \in mux'.panes, o \notin stray', o \notin Leaving(mux')
                 PROVE  o \in Shown(mux')
      BY DEF Placed
    <2>1. CASE o = p
      <3>1. there
        BY <1>5, <2>1
      <3>2. t \in mux'.listing[w] /\ p \in mux'.content[t]
        BY <1>4, <1>14, <1>9, <1>10, <3>1
      <3> QED BY <1>4, <1>6, <2>1, <3>2 DEF Shown
    <2>2. CASE o # p
      <3>1. o \in mux.panes /\ o \in Panes
        BY <1>1, <1>14, <1>15, <2>2 DEF Registries
      <3>2. o \notin stray /\ o \notin Leaving(mux)
        BY <1>3, <1>5, <1>14, <3>1 DEF Leaving
      <3>3. PICK v \in Windows : \E u \in mux.listing[v] : o \in mux.content[u]
        BY <1>1, <3>1, <3>2 DEF Placed, Shown
      <3>4. PICK u \in mux.listing[v] : o \in mux.content[u]
        BY <3>3
      <3>5. u \in mux'.listing[v] /\ o \in mux'.content[u]
        BY <1>1, <1>14, <1>9, <1>10, <1>12, <3>4 DEF Registries
      <3> QED BY <3>1, <3>5 DEF Shown
    <2> QED BY <2>1, <2>2
  <1>18. ASSUME Clean(mux)
         PROVE  Clean(mux')
    <2>1. ASSUME NEW v \in mux'.windows
          PROVE  mux'.listing[v] # {}
      BY <1>1, <1>14, <1>18, <1>10, <2>1 DEF Clean, Registries
    <2>2. ASSUME NEW v \in Windows, NEW u \in mux'.listing[v]
          PROVE  /\ mux'.content[u] # {}
                 /\ mux'.content[u] \subseteq mux'.panes
                 /\ \A o \in mux'.content[u] : Noticed(mux', o) # "dead"
      <3>1. CASE u = t
        <4>1. mux'.content[u] = {p} /\ p \in mux'.panes /\ mux'.process[p] = "running"
          BY <1>4, <1>6, <1>14, <1>15, <1>8, <1>9, <3>1
        <4> QED BY <4>1 DEF Noticed
      <3>2. CASE u # t
        <4>1. u \in mux.listing[v] /\ u \in Tabs /\ mux'.content[u] = mux.content[u]
          <5>1. u \in l[v] /\ l[v] \subseteq mux.listing[v] \cup {t}
            BY <1>14, <1>10, <2>2
          <5>2. mux.listing[v] \subseteq Tabs
            BY <1>1 DEF Registries
          <5> QED BY <1>14, <1>9, <3>2, <5>1, <5>2
        <4>2. mux.content[u] # {} /\ mux.content[u] \subseteq mux.panes
              /\ \A o \in mux.content[u] : Noticed(mux, o) # "dead"
          BY <1>18, <4>1 DEF Clean
        <4>3. ASSUME NEW o \in mux.content[u]
              PROVE  Noticed(mux', o) = Noticed(mux, o)
          <5>1. o \in Panes /\ o # p
            BY <1>1, <1>12, <4>1, <4>3 DEF Registries
          <5> QED BY <1>14, <1>8, <5>1 DEF Noticed, ExitBehavior
        <4> QED BY <1>14, <1>15, <4>1, <4>2, <4>3
      <3> QED BY <3>1, <3>2
    <2> QED BY <2>1, <2>2 DEF Clean
  <1>19. PruneDue(mux) => PruneDue(mux')
    BY <1>3, <1>14 DEF PruneDue
  <1>20. stray' \in SUBSET Panes /\ UNCHANGED <<behaviour, quit>>
    BY <1>1, <1>5, <1>6 DEF FinishSpawn
  <1>21. CASE jobs[j].held \/ jobs[j].kind = "window"
    <2>1. PruneDue(mux')
      BY <1>3, <1>14, <1>21 DEF PruneDue, Prunes
    <2> QED BY <1>1, <1>2, <1>14, <1>16, <1>17, <1>20, <2>1, JobStep
  <1>22. CASE ~ (jobs[j].held \/ jobs[j].kind = "window")
    <2>1. ~ Holds(j)
      BY <1>1, <1>22 DEF Holds
    <2> QED BY <1>1, <1>2, <1>14, <1>16, <1>17, <1>18, <1>19, <1>20, <2>1, JobStep
  <1> QED BY <1>21, <1>22

\* A finished split keeps it, also when the pane to split has gone.
LEMMA FinishSplitStep ==
    ASSUME IInv, NEW j \in Jobs, FinishSplit(j)
    PROVE  IInv'
  <1>1. /\ mux \in Registries /\ Sound(mux) /\ Placed(mux, stray) /\ stray \in SUBSET Panes
        /\ quit \in BOOLEAN /\ jobs \in [Jobs -> Job]
        /\ jobs[j].stage = "spawning" /\ jobs[j].kind = "split"
    BY DEF IInv, Kept, FinishSplit
  <1>2. PICK r \in Job : r.stage = "done" /\ jobs' = [jobs EXCEPT ![j] = r]
    BY DoneFields DEF FinishSplit
  <1> DEFINE q == mux.scheduled \o Released(j)
             t == jobs[j].tab
  <1>3. /\ q \in Seq(Tasks) /\ InQueue(mux.scheduled) \subseteq InQueue(q)
        /\ jobs[j].held => Prunes \in InQueue(q)
    BY <1>1, ReleaseFields DEF Registries
  <1>4. t \in Tabs
    BY <1>1 DEF Job
  <1>5. PICK p \in Newborn(mux), origin \in Origins, fits \in BOOLEAN :
           LET inserted == fits /\ jobs[j].pane \in mux.content[t]
           IN /\ mux' = [WithPane(p, origin) EXCEPT
                      !.content[t] = IF t \notin mux.tabs THEN {}
                                     ELSE IF inserted THEN @ \cup {p} ELSE @,
                      !.scheduled = @ \o Released(j)]
              /\ stray' = IF inserted /\ t \in mux.tabs \cap Listed(mux)
                            THEN stray ELSE stray \cup {p}
    BY DEF FinishSplit
  <1> DEFINE inserted == fits /\ jobs[j].pane \in mux.content[t]
             into == IF inserted THEN {p} ELSE {}
             pr == [mux.process EXCEPT ![p] = "running"]
             or == [mux.origin EXCEPT ![p] = origin]
             c == [mux.content EXCEPT ![t] = IF t \notin mux.tabs THEN {}
                                             ELSE IF inserted THEN @ \cup {p} ELSE @]
             ps == mux.panes \cup {p}
             rd == mux.reading \cup {p}
  <1>6. p \in Panes /\ mux.process[p] = "unborn"
    BY <1>5 DEF Newborn
  <1>7. mux' = [mux EXCEPT !.panes = ps, !.process = pr, !.origin = or, !.reading = rd,
                           !.content = c, !.scheduled = q]
    BY <1>1, <1>5 DEF WithPane, Registries
  <1>8. /\ pr \in [Panes -> {"unborn", "running", "exited", "failed", "pending", "dead"}]
        /\ \A o \in Panes : pr[o] = IF o = p THEN "running" ELSE mux.process[o]
        /\ or \in [Panes -> Origins]
        /\ \A o \in Panes : o # p => or[o] = mux.origin[o]
    BY <1>1, <1>6 DEF Registries
  <1>9. /\ c \in [Tabs -> SUBSET Panes]
        /\ \A u \in Tabs \ {t} : c[u] = mux.content[u]
        /\ t \notin mux.tabs => c[t] = {}
        /\ t \in mux.tabs => c[t] = mux.content[t] \cup into
    BY <1>1, <1>4, <1>6 DEF Registries
  <1>10. ps \in SUBSET Panes /\ rd \in SUBSET Panes
    BY <1>1, <1>6 DEF Registries
  <1>11. /\ \A u \in Tabs : p \notin mux.content[u]
        /\ p \notin mux.panes
    BY <1>1, <1>6 DEF Sound
  <1>12. into \subseteq {p} /\ ((inserted /\ t \in mux.tabs \cap Listed(mux)) \/ p \in stray')
        /\ stray \subseteq stray' /\ (inserted => into = {p})
    BY <1>5
  <1> HIDE DEF q, pr, or, c, ps, rd, t, into, inserted
  <1>13. /\ mux' \in Registries
        /\ mux'.panes = ps /\ mux'.tabs = mux.tabs
        /\ mux'.windows = mux.windows /\ mux'.killed = mux.killed
        /\ mux'.nextTab = mux.nextTab /\ mux'.nextWindow = mux.nextWindow
        /\ mux'.process = pr /\ mux'.origin = or /\ mux'.content = c
        /\ mux'.listing = mux.listing
        /\ mux'.scheduled = q
    BY <1>1, <1>3, <1>7, <1>8, <1>9, <1>10 DEF Registries
  <1>14. ps = mux.panes \cup {p}
    BY DEF ps
  <1>15. Sound(mux')
    <2>1. \A u, v \in Tabs : u # v => mux'.content[u] \cap mux'.content[v] = {}
      BY <1>1, <1>4, <1>13, <1>9, <1>11, <1>12 DEF Sound
    <2>2. \A o \in Panes : mux'.process[o] = "unborn" =>
             o \notin mux'.panes /\ \A u \in Tabs : o \notin mux'.content[u]
      BY <1>1, <1>13, <1>14, <1>8, <1>9, <1>12 DEF Sound
    <2>3. \A u \in Tabs : u >= mux'.nextTab => u \notin mux'.tabs /\ mux'.content[u] = {}
      BY <1>1, <1>13, <1>9 DEF Sound
    <2> QED BY <1>1, <1>13, <2>1, <2>2, <2>3 DEF Sound
  <1>16. \A w \in Windows : \A u \in mux.listing[w] :
           u \in Tabs /\ u \in mux.tabs /\ mux.content[u] \subseteq mux'.content[u]
    BY <1>1, <1>13, <1>9 DEF Sound, Registries
  <1>17. Placed(mux', stray')
    <2> SUFFICES ASSUME NEW o \in mux'.panes, o \notin stray', o \notin Leaving(mux')
                 PROVE  o \in Shown(mux')
      BY DEF Placed
    <2>1. CASE o = p
      <3>1. inserted /\ t \in mux.tabs /\ t \in Listed(mux)
        BY <1>12, <2>1
      <3>2. PICK w \in mux.windows : t \in mux.listing[w]
        BY <3>1 DEF Listed
      <3>3. w \in Windows /\ p \in mux'.content[t]
        BY <1>1, <1>13, <1>9, <1>12, <3>1, <3>2 DEF Registries
      <3> QED BY <1>6, <1>13, <2>1, <3>2, <3>3 DEF Shown
    <2>2. CASE o # p
      <3>1. o \in mux.panes /\ o \in Panes
        BY <1>1, <1>13, <1>14, <2>2 DEF Registries
      <3>2. o \notin stray /\ o \notin Leaving(mux)
        BY <1>3, <1>13, <1>12, <3>1 DEF Leaving
      <3>3. o \in Shown(mux)
        BY <1>1, <3>1, <3>2 DEF Placed
      <3> QED BY <1>13, <1>16, <3>3 DEF Shown
    <2> QED BY <2>1, <2>2
  <1>18. ASSUME Clean(mux)
         PROVE  Clean(mux')
    <2>1. ASSUME NEW w \in Windows, NEW u \in mux.listing[w]
          PROVE  /\ mux'.content[u] # {}
                 /\ mux'.content[u] \subseteq mux'.panes
                 /\ \A o \in mux'.content[u] : Noticed(mux', o) # "dead"
      <3>1. mux.content[u] # {} /\ mux.content[u] \subseteq mux.panes
            /\ \A o \in mux.content[u] : Noticed(mux, o) # "dead"
        BY <1>18 DEF Clean
      <3>2. mux'.content[u] \subseteq mux.content[u] \cup {p} /\ u \in Tabs
        BY <1>13, <1>9, <1>12, <1>16
      <3>3. Noticed(mux', p) # "dead"
        BY <1>6, <1>13, <1>8 DEF Noticed, ExitBehavior
      <3>4. ASSUME NEW o \in mux.content[u]
            PROVE  Noticed(mux', o) = Noticed(mux, o)
        <4>1. o \in Panes /\ o # p
          BY <1>1, <1>11, <3>2, <3>4 DEF Registries
        <4> QED BY <1>13, <1>8, <4>1 DEF Noticed, ExitBehavior
      <3> QED BY <1>13, <1>14, <1>16, <3>1, <3>2, <3>3, <3>4
    <2> QED BY <1>13, <1>18, <2>1 DEF Clean
  <1>19. PruneDue(mux) => PruneDue(mux')
    BY <1>3, <1>13 DEF PruneDue
  <1>20. stray' \in SUBSET Panes /\ UNCHANGED <<behaviour, quit>>
    BY <1>1, <1>5, <1>6 DEF FinishSplit
  <1>21. CASE jobs[j].held
    <2>1. PruneDue(mux')
      BY <1>3, <1>13, <1>21 DEF PruneDue, Prunes
    <2> QED BY <1>1, <1>2, <1>13, <1>15, <1>17, <1>20, <2>1, JobStep
  <1>22. CASE ~ jobs[j].held
    <2>1. ~ Holds(j)
      BY <1>1, <1>22 DEF Holds
    <2> QED BY <1>1, <1>2, <1>13, <1>15, <1>17, <1>18, <1>19, <1>20, <2>1, JobStep
  <1> QED BY <1>21, <1>22

\* The start of a spawn on the main thread keeps it.
LEMMA BeginStep ==
    ASSUME IInv, mux.scheduled # << >>, Head(mux.scheduled).do = "begin",
           NEW j \in Jobs, Begin(j, Tail(mux.scheduled)), UNCHANGED <<behaviour, stray, quit>>
    PROVE  IInv'
  <1> DEFINE rest == Tail(mux.scheduled)
  <1>1. /\ mux \in Registries /\ Sound(mux) /\ Placed(mux, stray) /\ stray \in SUBSET Panes
        /\ quit \in BOOLEAN /\ jobs \in [Jobs -> Job] /\ StartsWithAWindow
    BY DEF IInv, Kept
  <1>2. /\ rest \in Seq(Tasks)
        /\ InQueue(mux.scheduled) = {Head(mux.scheduled)} \cup InQueue(rest)
    <2>1. mux.scheduled \in Seq(Tasks)
      BY <1>1 DEF Registries
    <2> QED BY <2>1, Taking
  <1> HIDE DEF rest
  <1>3. jobs[j].kind # "window" /\ ~ jobs[j].held => ~ Holds(j)
    BY <1>1 DEF Holds, StartsWithAWindow
  <1>4. ASSUME NEW q \in Seq(Tasks), InQueue(rest) \subseteq InQueue(q),
               mux' = [mux EXCEPT !.scheduled = q]
        PROVE  /\ mux' \in Registries /\ Sound(mux') /\ Placed(mux', stray')
               /\ (Clean(mux) => Clean(mux')) /\ (PruneDue(mux) => PruneDue(mux'))
               /\ mux'.scheduled = q
    <2>1. /\ mux' \in Registries /\ Sound(mux') /\ mux'.scheduled = q
          /\ mux'.panes = mux.panes /\ Shown(mux') = Shown(mux)
          /\ Clean(mux) => Clean(mux')
      BY <1>1, <1>4, Rescheduled
    <2>2. Leaving(mux) \subseteq Leaving(mux') /\ (PruneDue(mux) => PruneDue(mux'))
      BY <1>2, <1>4, <2>1 DEF Leaving, PruneDue
    <2> QED BY <1>1, <2>1, <2>2 DEF Placed
  <1>5. /\ rest \o Released(j) \in Seq(Tasks)
        /\ InQueue(rest) \subseteq InQueue(rest \o Released(j))
        /\ jobs[j].held => Prunes \in InQueue(rest \o Released(j))
    BY <1>2, ReleaseFields
  \* The job ends at once: what it was to be added to is not there.
  <1>6. ASSUME jobs' = Done(j), mux' = [mux EXCEPT !.scheduled = rest \o Released(j)],
               jobs[j].kind # "window"
        PROVE  IInv'
    <2>1. PICK r \in Job : r.stage = "done" /\ jobs' = [jobs EXCEPT ![j] = r]
      BY <1>6, DoneFields
    <2> DEFINE q == rest \o Released(j)
    <2>2. q \in Seq(Tasks) /\ InQueue(rest) \subseteq InQueue(q)
      BY <1>5
    <2>3. mux' = [mux EXCEPT !.scheduled = q]
      BY <1>6
    <2>4. jobs[j].held => Prunes \in InQueue(q)
      BY <1>5
    <2> HIDE DEF q
    <2>5. /\ mux' \in Registries /\ Sound(mux') /\ Placed(mux', stray')
          /\ (Clean(mux) => Clean(mux')) /\ (PruneDue(mux) => PruneDue(mux'))
          /\ mux'.scheduled = q
      BY <1>4, <2>2, <2>3
    <2>6. jobs[j].held => PruneDue(mux')
      BY <2>5, <2>4 DEF PruneDue, Prunes
    <2> QED BY <1>1, <1>3, <1>6, <2>1, <2>5, <2>6, JobStep
  \* The job waits for its domain.
  <1>7. ASSUME NEW r \in Job, r.stage = "spawning", jobs' = [jobs EXCEPT ![j] = r],
               r.held = jobs[j].held, r.kind = jobs[j].kind, jobs[j].kind # "window",
               mux' = [mux EXCEPT !.scheduled = rest]
        PROVE  IInv'
    <2>1. /\ mux' \in Registries /\ Sound(mux') /\ Placed(mux', stray')
          /\ (Clean(mux) => Clean(mux')) /\ (PruneDue(mux) => PruneDue(mux'))
      BY <1>2, <1>4, <1>7
    <2> QED BY <1>1, <1>3, <1>7, <2>1, JobStep
  <1>8. CASE BeginTab(j, rest) /\ jobs[j].kind = "tab"
    <2> DEFINE r == [jobs[j] EXCEPT !.stage = "spawning"]
    <2>1. /\ r \in Job /\ r.stage = "spawning"
          /\ r.held = jobs[j].held /\ r.kind = jobs[j].kind
          /\ [jobs EXCEPT ![j].stage = "spawning"] = [jobs EXCEPT ![j] = r]
      BY <1>1 DEF Job
    <2>2. \/ /\ jobs' = [jobs EXCEPT ![j].stage = "spawning"]
             /\ mux' = [mux EXCEPT !.scheduled = rest]
          \/ jobs' = Done(j) /\ mux' = [mux EXCEPT !.scheduled = rest \o Released(j)]
      BY <1>8 DEF BeginTab
    <2> HIDE DEF r
    <2> QED BY <1>6, <1>7, <1>8, <2>1, <2>2
  <1>9. CASE BeginSplit(j, rest) /\ jobs[j].kind = "split"
    <2>1. \/ \E t \in Tabs :
                /\ jobs' = [jobs EXCEPT ![j].stage = "spawning", ![j].tab = t]
                /\ mux' = [mux EXCEPT !.scheduled = rest]
          \/ jobs' = Done(j) /\ mux' = [mux EXCEPT !.scheduled = rest \o Released(j)]
      BY <1>1, <1>9 DEF BeginSplit, Registries
    <2>2. ASSUME NEW t \in Tabs,
                 jobs' = [jobs EXCEPT ![j].stage = "spawning", ![j].tab = t],
                 mux' = [mux EXCEPT !.scheduled = rest]
          PROVE  IInv'
      <3> DEFINE r == [jobs[j] EXCEPT !.stage = "spawning", !.tab = t]
      <3>1. /\ r \in Job /\ r.stage = "spawning"
            /\ r.held = jobs[j].held /\ r.kind = jobs[j].kind
            /\ jobs' = [jobs EXCEPT ![j] = r]
        BY <1>1, <2>2 DEF Job
      <3> HIDE DEF r
      <3> QED BY <1>7, <1>9, <2>2, <3>1
    <2> QED BY <1>6, <1>9, <2>1, <2>2
  <1>10. CASE BeginWindow(j, rest) /\ jobs[j].kind = "window"
    <2> DEFINE w == mux.nextWindow
               r == [jobs[j] EXCEPT !.stage = "spawning", !.window = w]
    <2>1. /\ w \in Windows /\ jobs' = [jobs EXCEPT ![j].stage = "spawning", ![j].window = w]
          /\ mux' = [mux EXCEPT !.windows = @ \cup {w}, !.nextWindow = w + 1,
                                !.scheduled = rest]
      BY <1>10 DEF BeginWindow
    <2>2. /\ r \in Job /\ r.stage = "spawning" /\ r.kind = "window"
          /\ jobs' = [jobs EXCEPT ![j] = r]
      BY <1>1, <1>10, <2>1 DEF Job
    <2>3. w + 1 \in 1 .. MaxWindows + 1
      <3>1. MaxWindows \in Nat
        BY BoundsAssumption
      <3> QED BY <2>1, <3>1 DEF Windows
    <2>4. /\ mux' \in Registries
          /\ mux'.panes = mux.panes /\ mux'.tabs = mux.tabs
          /\ mux'.windows = mux.windows \cup {w}
          /\ mux'.content = mux.content /\ mux'.listing = mux.listing
          /\ mux'.process = mux.process /\ mux'.origin = mux.origin
          /\ mux'.nextTab = mux.nextTab
          /\ mux'.nextWindow = w + 1 /\ mux'.scheduled = rest
      BY <1>1, <1>2, <2>1, <2>3 DEF Registries
    <2>5. Sound(mux')
      BY <1>1, <2>1, <2>4 DEF Sound, Windows
    <2>6. Placed(mux', stray')
      <3>1. Leaving(mux) \subseteq Leaving(mux') /\ Shown(mux) \subseteq Shown(mux')
        BY <1>2, <2>4 DEF Leaving, Shown
      <3> QED BY <1>1, <2>4, <3>1 DEF Placed
    <2> HIDE DEF r
    <2> QED BY <1>1, <2>2, <2>4, <2>5, <2>6, JobStep
  <1>11. \/ BeginTab(j, rest) /\ jobs[j].kind = "tab"
         \/ BeginWindow(j, rest) /\ jobs[j].kind = "window"
         \/ BeginSplit(j, rest) /\ jobs[j].kind = "split"
    BY <1>1 DEF Begin, Job, JobKinds, rest
  <1> QED BY <1>8, <1>9, <1>10, <1>11

\* Every task of the main thread keeps the invariant and says the mux is
\* empty only without windows.
LEMMA RunTaskStep ==
    ASSUME IInv, RunTask
    PROVE  IInv' /\ EmptyOrSilent
  <1> DEFINE task == Head(mux.scheduled)
             rest == Tail(mux.scheduled)
             taken == [mux EXCEPT !.scheduled = rest]
  <1>1. /\ mux \in Registries /\ Sound(mux) /\ Placed(mux, stray) /\ stray \in SUBSET Panes
        /\ behaviour \in Behaviours /\ quit \in BOOLEAN
        /\ mux.scheduled # << >> /\ UNCHANGED <<behaviour, stray>>
    BY DEF IInv, Kept, RunTask
  <1>2. /\ task \in Tasks /\ rest \in Seq(Tasks)
        /\ InQueue(mux.scheduled) = {task} \cup InQueue(rest)
    <2>1. mux.scheduled \in Seq(Tasks)
      BY <1>1 DEF Registries
    <2> QED BY <1>1, <2>1, Taking
  <1>3. \/ task.do = "prune" /\ mux' = Prune(taken) /\ UNCHANGED <<jobs, quit>>
        \/ task.do = "remove" /\ mux' = Prune(KillPanes(taken, task.panes))
              /\ UNCHANGED <<jobs, quit>>
        \/ task.do = "quit" /\ mux' = taken /\ quit' = ~ Busy /\ UNCHANGED jobs
        \/ task.do = "begin" /\ Begin(task.job, rest) /\ UNCHANGED quit
    <2>1. task.do \in {"prune", "quit", "remove", "begin"}
      BY <1>2 DEF Tasks
    <2> QED BY <2>1 DEF RunTask
  <1> HIDE DEF task, rest
  <1>4. /\ taken \in Registries /\ Sound(taken) /\ taken.scheduled = rest
        /\ taken.panes = mux.panes /\ Shown(taken) = Shown(mux)
        /\ Clean(taken) <=> Clean(mux)
    BY <1>1, <1>2, Rescheduled
  <1> HIDE DEF taken
  <1>5. CASE task.do = "prune" /\ mux' = Prune(taken) /\ UNCHANGED <<jobs, quit>>
    <2>1. Placed(taken, stray)
      BY <1>1, <1>2, <1>4, <1>5 DEF Placed, Leaving
    <2>2. Kept(mux', stray)
      BY <1>1, <1>4, <1>5, <2>1, PruneKeeps
    <2>3. EmptyOrSilent
      BY <1>1, <1>4, <1>5, PruneIsSilent DEF EmptyOrSilent, rest
    <2> QED BY <1>1, <1>5, <2>2, <2>3, SameJobs
  <1>6. CASE task.do = "remove" /\ mux' = Prune(KillPanes(taken, task.panes))
              /\ UNCHANGED <<jobs, quit>>
    <2>1. taken.panes \subseteq stray \cup task.panes \cup Shown(taken) \cup Leaving(taken)
      BY <1>1, <1>2, <1>4, <1>6 DEF Placed, Leaving
    <2>2. LET k == KillPanes(taken, task.panes)
          IN  k \in Registries /\ Sound(k) /\ Placed(k, stray)
      BY <1>1, <1>4, <2>1, KillPanesSafe
    <2>3. Kept(mux', stray)
      BY <1>1, <1>6, <2>2, PruneKeeps
    <2>4. KillPanes(taken, task.panes).scheduled = rest
      BY <1>4, KillPanesFields DEF Others
    <2>5. EmptyOrSilent
      BY <1>1, <1>6, <2>2, <2>4, PruneIsSilent DEF EmptyOrSilent, rest
    <2> QED BY <1>1, <1>6, <2>3, <2>5, SameJobs
  <1>7. CASE task.do = "quit" /\ mux' = taken /\ quit' = ~ Busy /\ UNCHANGED jobs
    <2>1. Placed(taken, stray)
      BY <1>1, <1>2, <1>4, <1>7 DEF Placed, Leaving
    <2>2. PruneDue(mux) => PruneDue(taken)
      BY <1>2, <1>4, <1>7 DEF PruneDue
    <2>3. Kept(mux', stray)
      BY <1>4, <1>7, <2>1, <2>2 DEF IInv, Kept
    <2>4. quit' \in BOOLEAN
      BY <1>7
    <2>5. EmptyOrSilent
      BY <1>1, <1>4, <1>7 DEF EmptyOrSilent, Silent, rest
    <2> QED BY <1>1, <1>7, <2>3, <2>4, <2>5, SameJobs
  <1>8. CASE task.do = "begin" /\ Begin(task.job, rest) /\ UNCHANGED quit
    <2>1. task.job \in Jobs
      BY <1>2, <1>8 DEF Tasks
    <2>2. IInv'
      BY <1>1, <1>8, <2>1, BeginStep DEF task, rest
    <2>3. \/ mux'.scheduled = rest
          \/ mux'.scheduled = rest \o Released(task.job)
      BY <1>1, <1>8 DEF Begin, BeginTab, BeginWindow, BeginSplit, Registries
    <2>4. Silent(rest) /\ Silent(rest \o Released(task.job))
      <3>1. rest = Tail(mux.scheduled)
        BY DEF rest
      <3> QED BY <1>1, <1>2, <2>1, <3>1, ReleaseIsSilent DEF Silent
    <2>5. EmptyOrSilent
      BY <2>3, <2>4 DEF EmptyOrSilent
    <2> QED BY <2>2, <2>5
  <1> QED BY <1>3, <1>5, <1>6, <1>7, <1>8

\* To look at a pane changes nothing of what the next look sees.
LEMMA NoticedTwice ==
    ASSUME behaviour \in Behaviours, NEW m \in Registries, NEW P, NEW p \in Panes
    PROVE  Noticed(Notice(m, P), p) = "dead" <=> Noticed(m, p) = "dead"
  <1> DEFINE n == Notice(m, P)
  <1>1. /\ n.process[p] = IF p \in P THEN Noticed(m, p) ELSE m.process[p]
        /\ p \in P => (Noticed(n, p) = "dead" <=> n.process[p] = "dead")
        /\ p \notin P => Noticed(n, p) = Noticed(m, p)
    BY NoticeFields
  <1> HIDE DEF n
  <1> QED BY <1>1 DEF n

\* Moving a pane to a new tab keeps the invariant, for a target that is gone
\* too, and says the mux is empty only without windows.
LEMMA MovePaneToNewTabStep ==
    ASSUME IInv, NEW p \in Panes, NEW t \in Tabs, NEW w \in Windows, NEW new \in BOOLEAN,
           MovePaneToNewTab(p, t, w, new)
    PROVE  IInv' /\ EmptyOrSilent
  <1>1. /\ mux \in Registries /\ Sound(mux) /\ Placed(mux, stray) /\ stray \in SUBSET Panes
        /\ behaviour \in Behaviours /\ quit \in BOOLEAN
    BY DEF IInv, Kept
  <1> DEFINE n == mux.nextTab
             rd == IF p \in mux.panes THEN mux.reading ELSE mux.reading \cup {p}
             ps == mux.panes \cup {p}
             ts == mux.tabs \cup {n}
             nt == n + 1
             c == [mux.content EXCEPT ![t] = @ \ {p}, ![n] = {p}]
             ws == mux.windows \cup {w}
             l == [mux.listing EXCEPT ![w] = @ \cup {n}]
             nw == IF new THEN w + 1 ELSE mux.nextWindow
             moved == [mux EXCEPT
               !.panes = @ \cup {p}, !.reading = rd,
               !.tabs = @ \cup {n}, !.nextTab = n + 1,
               !.content[t] = @ \ {p}, !.content[n] = {p},
               !.windows = @ \cup {w}, !.listing[w] = @ \cup {n},
               !.nextWindow = IF new THEN w + 1 ELSE @]
             looked == Notice(moved, moved.content[t])
             left == IF IsDead(looked, t) THEN ForgetTabs(looked, {t}) ELSE looked
  <1>2. /\ t \in mux.tabs /\ t \in Listed(mux) /\ p \in mux.content[t]
        /\ IF new THEN w = mux.nextWindow ELSE w \in mux.windows /\ mux.listing[w] # {}
        /\ n \in Tabs
        /\ mux' = IF new THEN [left EXCEPT !.scheduled = Append(@, Prunes)]
                  ELSE IF IsDead(looked, t) THEN Prune(left) ELSE left
        /\ UNCHANGED <<behaviour, jobs, stray, quit>>
    BY Zenon DEF MovePaneToNewTab, MayMoveTo
  <1> HIDE DEF moved, looked, left
  <1>3. /\ n \notin mux.tabs /\ mux.content[n] = {} /\ n # t
        /\ \A v \in Windows : n \notin mux.listing[v]
        /\ \A u \in Tabs : u >= nt =>
              u # n /\ u # t /\ u \notin mux.tabs /\ mux.content[u] = {}
        /\ mux.process[p] # "unborn"
    BY <1>1, <1>2 DEF Sound, Tabs
  <1>4. /\ c \in [Tabs -> SUBSET Panes]
        /\ c[n] = {p} /\ c[t] = mux.content[t] \ {p}
        /\ \A u \in Tabs \ {n, t} : c[u] = mux.content[u]
    BY <1>1, <1>2, <1>3 DEF Registries
  <1>5. /\ l \in [Windows -> SUBSET Tabs]
        /\ l[w] = mux.listing[w] \cup {n}
        /\ \A v \in Windows \ {w} : l[v] = mux.listing[v]
    BY <1>1, <1>2 DEF Registries
  <1>6. /\ ps \in SUBSET Panes /\ rd \in SUBSET Panes /\ ts \in SUBSET Tabs
        /\ ws \in SUBSET Windows
    BY <1>1, <1>2 DEF Registries
  <1>7. nt \in 1 .. MaxTabs + 1 /\ nw \in 1 .. MaxWindows + 1
    <2>1. MaxTabs \in Nat /\ MaxWindows \in Nat
      BY BoundsAssumption
    <2> QED BY <1>1, <1>2, <2>1 DEF Registries, Tabs, Windows
  <1>8. \A v \in Windows : v >= nw => v \notin ws
    <2>1. \A v \in Windows : v >= mux.nextWindow => v \notin mux.windows
      BY <1>1 DEF Sound
    <2> QED BY <1>1, <1>2, <2>1 DEF Windows, Registries
  <1>9. moved = [mux EXCEPT !.panes = ps, !.reading = rd, !.tabs = ts, !.nextTab = nt,
                            !.content = c, !.windows = ws, !.listing = l,
                            !.nextWindow = nw]
    BY <1>1, ZenonT(30) DEF Registries, moved
  <1> HIDE DEF rd, c, l, nw, nt
  <1>10. /\ moved \in Registries
        /\ moved.panes = ps /\ moved.tabs = ts /\ moved.windows = ws
        /\ moved.content = c /\ moved.listing = l
        /\ moved.process = mux.process /\ moved.origin = mux.origin
        /\ moved.killed = mux.killed
        /\ moved.nextTab = nt /\ moved.nextWindow = nw
        /\ moved.scheduled = mux.scheduled
    <2> HIDE DEF ps, ts, ws
    <2> QED BY <1>1, <1>4, <1>5, <1>6, <1>7, <1>9 DEF Registries
  <1> HIDE DEF n
  <1>11. Sound(moved)
    <2>1. \A u, v \in Tabs : u # v => moved.content[u] \cap moved.content[v] = {}
      <3>1. \A u \in Tabs : u # n => c[u] \subseteq mux.content[u] /\ p \notin c[u]
        BY <1>1, <1>2, <1>4 DEF Sound
      <3> QED BY <1>1, <1>4, <1>10, <3>1 DEF Sound
    <2>2. \A v, x \in Windows : v # x => moved.listing[v] \cap moved.listing[x] = {}
      BY <1>1, <1>3, <1>5, <1>10 DEF Sound
    <2>3. \A v \in Windows : /\ moved.listing[v] \subseteq moved.tabs
                             /\ v \notin moved.windows => moved.listing[v] = {}
      BY <1>1, <1>5, <1>10 DEF Sound
    <2>4. \A o \in Panes : moved.process[o] = "unborn" =>
             o \notin moved.panes /\ \A u \in Tabs : o \notin moved.content[u]
      BY <1>1, <1>3, <1>4, <1>10 DEF Sound
    <2>5. \A u \in Tabs : u >= moved.nextTab => u \notin moved.tabs /\ moved.content[u] = {}
      BY <1>3, <1>4, <1>10
    <2> QED BY <1>8, <1>10, <2>1, <2>2, <2>3, <2>4, <2>5 DEF Sound
  <1>12. Placed(moved, stray)
    <2> SUFFICES ASSUME NEW o \in ps, o \notin stray, o \notin Leaving(moved)
                 PROVE  o \in Shown(moved)
      BY <1>10 DEF Placed
    <2>1. CASE o = p
      BY <1>2, <1>4, <1>5, <1>10, <2>1 DEF Shown
    <2>2. CASE o # p
      <3>1. o \in mux.panes /\ o \in Panes /\ o \notin Leaving(mux)
        BY <1>1, <1>10, <2>2 DEF Registries, Leaving
      <3>2. PICK v \in Windows : \E u \in mux.listing[v] : o \in mux.content[u]
        BY <1>1, <3>1 DEF Placed, Shown
      <3>3. PICK u \in mux.listing[v] : o \in mux.content[u]
        BY <3>2
      <3>4. u \in Tabs /\ u # n /\ u \in l[v] /\ o \in c[u]
        BY <1>1, <1>3, <1>4, <1>5, <2>2, <3>3 DEF Registries
      <3> QED BY <1>10, <3>1, <3>4 DEF Shown
    <2> QED BY <2>1, <2>2
  <1>13. Safely(moved, looked) /\ looked \in Registries /\ Sound(looked)
    BY <1>1, <1>10, <1>11, NoticeSafely DEF Safely, looked
  <1>14. Safely(looked, ForgetTabs(looked, {t}))
    BY <1>13, ForgetTabsSafely
  <1>15. Safely(moved, left)
    <2>1. Safely(moved, ForgetTabs(looked, {t}))
      BY <1>13, <1>14, SafelyTwice
    <2> QED BY <1>13, <2>1 DEF left
  <1>16. left \in Registries /\ Sound(left) /\ Placed(left, stray)
    BY <1>1, <1>12, <1>15 DEF Safely
  <1>17. left.scheduled = mux.scheduled /\ looked.scheduled = mux.scheduled
    <2>1. looked.scheduled = mux.scheduled
      BY <1>1, <1>10, NoticeFields DEF looked, Others
    <2> QED BY <1>13, <2>1, ForgetTabsFields DEF left
  <1>18. CASE new
    <2> DEFINE q == Append(left.scheduled, Prunes)
    <2>1. q \in Seq(Tasks) /\ InQueue(q) = InQueue(left.scheduled) \cup {Prunes}
      <3>1. left.scheduled \in Seq(Tasks) /\ Prunes \in Tasks
        BY <1>16 DEF Registries, Prunes, Tasks
      <3> QED BY <3>1, Queueing
    <2>2. mux' = [left EXCEPT !.scheduled = q]
      BY <1>2, <1>18
    <2> HIDE DEF q
    <2>3. Safely(left, mux') /\ mux'.scheduled = q
      BY <1>16, <2>1, <2>2, ScheduledSafely, ScheduledFields
    <2>4. PruneDue(mux')
      <3>1. Prunes \in InQueue(mux'.scheduled) /\ Prunes.do = "prune"
        BY <2>1, <2>3 DEF Prunes
      <3> QED BY <3>1 DEF PruneDue
    <2>5. Kept(mux', stray)
      BY <1>1, <1>16, <2>3, <2>4 DEF Safely, Kept
    <2>6. EmptyOrSilent
      BY <1>16, <1>17, <2>3, OtherTasks DEF EmptyOrSilent, Silent, Registries, q
    <2> QED BY <1>1, <1>2, <2>5, <2>6, SameJobs
  <1>19. CASE ~ new /\ IsDead(looked, t)
    <2>1. mux' = Prune(left)
      BY <1>2, <1>19
    <2>2. Kept(mux', stray)
      BY <1>1, <1>16, <2>1, PruneKeeps
    <2>3. EmptyOrSilent
      BY <1>1, <1>16, <1>17, <2>1, PruneIsSilent DEF EmptyOrSilent
    <2> QED BY <1>1, <1>2, <2>2, <2>3, SameJobs
  <1>20. CASE ~ new /\ ~ IsDead(looked, t)
    <2>1. mux' = looked
      BY <1>2, <1>20 DEF left
    <2>2. left = looked
      BY <1>20 DEF left
    <2>3. /\ Others(moved, looked) /\ looked.panes = ps /\ looked.content = c
          /\ \A o \in Panes : Noticed(looked, o) = "dead" <=> Noticed(moved, o) = "dead"
      BY <1>1, <1>10, NoticeFields, NoticedTwice DEF looked
    <2>4. \A o \in Panes : Noticed(looked, o) = "dead" <=> Noticed(mux, o) = "dead"
      BY <1>10, <2>3 DEF Noticed, ExitBehavior
    <2>5. ASSUME Clean(mux)
          PROVE  Clean(looked)
      <3>1. p \in mux.panes /\ Noticed(mux, p) # "dead"
        BY <1>1, <1>2, <2>5 DEF Clean, Listed, Registries
      <3>2. looked.windows = mux.windows /\ looked.listing = l
        BY <1>2, <1>10, <1>20, <2>3 DEF Others
      <3>3. ASSUME NEW v \in looked.windows
            PROVE  looked.listing[v] # {}
        BY <1>1, <1>5, <2>5, <3>2, <3>3 DEF Clean, Registries
      <3>4. ASSUME NEW v \in Windows, NEW u \in l[v]
            PROVE  /\ c[u] # {}
                   /\ c[u] \subseteq ps
                   /\ \A o \in c[u] : Noticed(looked, o) # "dead"
        <4>1. CASE u = n
          BY <1>4, <2>4, <3>1, <4>1
        <4>2. CASE u # n
          <5>1. u \in mux.listing[v] /\ u \in Tabs
            BY <1>1, <1>5, <4>2 DEF Registries
          <5>2. /\ mux.content[u] # {} /\ mux.content[u] \subseteq mux.panes
                /\ \A o \in mux.content[u] : Noticed(mux, o) # "dead"
            BY <2>5, <5>1 DEF Clean
          <5>3. c[u] \subseteq mux.content[u] /\ mux.content[u] \subseteq Panes
            BY <1>1, <1>4, <4>2, <5>1 DEF Registries
          <5>4. c[u] # {}
            BY <1>4, <1>20, <2>3, <4>2, <5>1, <5>2 DEF IsDead
          <5> QED BY <2>4, <5>2, <5>3, <5>4
        <4> QED BY <4>1, <4>2
      <3> QED BY <2>3, <3>2, <3>3, <3>4 DEF Clean
    <2>6. PruneDue(mux) => PruneDue(looked)
      BY <1>10, <2>3 DEF PruneDue, Others
    <2>7. Kept(mux', stray)
      BY <1>1, <1>16, <2>1, <2>2, <2>5, <2>6 DEF IInv, Kept
    <2>8. EmptyOrSilent
      BY <1>17, <2>1 DEF EmptyOrSilent, Silent
    <2> QED BY <1>1, <1>2, <2>7, <2>8, SameJobs
  <1> QED BY <1>18, <1>19, <1>20

\* A move that stops between the tabs keeps it: the tab the pane leaves is
\* still to be pruned, and the pane is a stray in its new one.
LEMMA MoveStopsStep ==
    ASSUME IInv, NEW p \in Panes, NEW t \in Tabs, NEW w \in Windows, NEW new \in BOOLEAN,
           MoveStops(p, t, w, new)
    PROVE  IInv' /\ EmptyOrSilent
  <1>1. /\ mux \in Registries /\ Sound(mux) /\ Placed(mux, stray) /\ stray \in SUBSET Panes
        /\ behaviour \in Behaviours /\ quit \in BOOLEAN
    BY DEF IInv, Kept
  <1> DEFINE n == mux.nextTab
             ps == mux.panes \cup {p}
             ts == mux.tabs \cup {n}
             nt == n + 1
             c == [mux.content EXCEPT ![t] = @ \ {p}, ![n] = {p}]
             ws == IF new THEN mux.windows \cup {w} ELSE mux.windows
             nw == IF new THEN w + 1 ELSE mux.nextWindow
             q == IF new THEN Append(mux.scheduled, Prunes) ELSE mux.scheduled
  <1>2. /\ t \in mux.tabs /\ t \in Listed(mux) /\ p \in mux.content[t] /\ p \notin mux.panes
        /\ IF new THEN w = mux.nextWindow ELSE w \in mux.windows /\ mux.listing[w] # {}
        /\ n \in Tabs
        /\ stray' = stray \cup {p}
        /\ UNCHANGED <<behaviour, jobs, quit>>
    BY Zenon DEF MoveStops, MayMoveTo, HasReader
  <1>3. /\ n \notin mux.tabs /\ mux.content[n] = {} /\ n # t
        /\ \A u \in Tabs : u >= nt =>
              u # n /\ u # t /\ u \notin mux.tabs /\ mux.content[u] = {}
        /\ mux.process[p] # "unborn"
    BY <1>1, <1>2 DEF Sound, Tabs
  <1>4. /\ c \in [Tabs -> SUBSET Panes]
        /\ c[n] = {p} /\ c[t] = mux.content[t] \ {p}
        /\ \A u \in Tabs \ {n, t} : c[u] = mux.content[u]
    BY <1>1, <1>2, <1>3 DEF Registries
  <1>5. ps \in SUBSET Panes /\ ts \in SUBSET Tabs /\ ws \in SUBSET Windows
    BY <1>1, <1>2 DEF Registries
  <1>6. nt \in 1 .. MaxTabs + 1 /\ nw \in 1 .. MaxWindows + 1
    <2>1. MaxTabs \in Nat /\ MaxWindows \in Nat
      BY BoundsAssumption
    <2> QED BY <1>1, <1>2, <2>1 DEF Registries, Tabs, Windows
  <1>7. \A v \in Windows : v >= nw => v \notin ws
    <2>1. \A v \in Windows : v >= mux.nextWindow => v \notin mux.windows
      BY <1>1 DEF Sound
    <2> QED BY <1>1, <1>2, <2>1 DEF Windows, Registries
  <1>8. q \in Seq(Tasks) /\ InQueue(mux.scheduled) \subseteq InQueue(q)
    <2>1. mux.scheduled \in Seq(Tasks) /\ Prunes \in Tasks
      BY <1>1 DEF Registries, Prunes, Tasks
    <2>2. /\ Append(mux.scheduled, Prunes) \in Seq(Tasks)
          /\ InQueue(Append(mux.scheduled, Prunes)) = InQueue(mux.scheduled) \cup {Prunes}
      BY <2>1, Queueing
    <2> QED BY <2>1, <2>2
  <1>9. mux' = [mux EXCEPT !.panes = ps, !.tabs = ts, !.nextTab = nt, !.content = c,
                           !.windows = ws, !.nextWindow = nw, !.scheduled = q]
    BY <1>1, ZenonT(30) DEF Registries, MoveStops
  <1>10. EmptyOrSilent
    <2>1. mux'.scheduled = q
      BY <1>1, <1>9 DEF Registries
    <2> QED BY <1>1, <2>1, OtherTasks DEF EmptyOrSilent, Silent, Registries
  <1>11. ~ Clean(mux)
    BY <1>1, <1>2 DEF Clean, Listed, Registries
  <1> HIDE DEF c, nw, nt, ps, ts, ws, q
  <1>12. /\ mux' \in Registries
        /\ mux'.panes = ps /\ mux'.tabs = ts /\ mux'.windows = ws
        /\ mux'.content = c /\ mux'.listing = mux.listing
        /\ mux'.process = mux.process
        /\ mux'.nextTab = nt /\ mux'.nextWindow = nw
        /\ mux'.scheduled = q
    BY <1>1, <1>4, <1>5, <1>6, <1>8, <1>9 DEF Registries
  <1>13. /\ ps = mux.panes \cup {p} /\ ts = mux.tabs \cup {n}
        /\ mux.windows \subseteq ws
    BY DEF ps, ts, ws
  <1> HIDE DEF n
  <1>14. Sound(mux')
    <2>1. \A u, v \in Tabs : u # v => mux'.content[u] \cap mux'.content[v] = {}
      <3>1. \A u \in Tabs : u # n => c[u] \subseteq mux.content[u] /\ p \notin c[u]
        BY <1>1, <1>2, <1>4 DEF Sound
      <3> QED BY <1>1, <1>4, <1>12, <3>1 DEF Sound
    <2>2. \A v, x \in Windows : v # x => mux'.listing[v] \cap mux'.listing[x] = {}
      BY <1>1, <1>12 DEF Sound
    <2>3. \A v \in Windows : /\ mux'.listing[v] \subseteq mux'.tabs
                             /\ v \notin mux'.windows => mux'.listing[v] = {}
      BY <1>1, <1>12, <1>13 DEF Sound
    <2>4. \A o \in Panes : mux'.process[o] = "unborn" =>
             o \notin mux'.panes /\ \A u \in Tabs : o \notin mux'.content[u]
      BY <1>1, <1>3, <1>4, <1>12, <1>13 DEF Sound
    <2>5. \A u \in Tabs : u >= mux'.nextTab => u \notin mux'.tabs /\ mux'.content[u] = {}
      BY <1>3, <1>4, <1>12, <1>13
    <2> QED BY <1>7, <1>12, <2>1, <2>2, <2>3, <2>4, <2>5 DEF Sound
  <1>15. Placed(mux', stray')
    <2> SUFFICES ASSUME NEW o \in ps, o \notin stray', o \notin Leaving(mux')
                 PROVE  o \in Shown(mux')
      BY <1>12 DEF Placed
    <2>1. o # p /\ o \in mux.panes /\ o \in Panes /\ o \notin Leaving(mux)
      BY <1>1, <1>2, <1>8, <1>12, <1>13 DEF Registries, Leaving
    <2>2. PICK v \in Windows : \E u \in mux.listing[v] : o \in mux.content[u]
      BY <1>1, <1>2, <2>1 DEF Placed, Shown
    <2>3. PICK u \in mux.listing[v] : o \in mux.content[u]
      BY <2>2
    <2>4. u \in Tabs /\ u # n /\ o \in c[u]
      BY <1>1, <1>3, <1>4, <2>1, <2>3 DEF Registries
    <2> QED BY <1>12, <2>1, <2>3, <2>4 DEF Shown
  <1>16. Busy \/ PruneDue(mux')
    BY <1>8, <1>11, <1>12 DEF IInv, Kept, PruneDue
  <1>17. stray' \in SUBSET Panes
    BY <1>1, <1>2
  <1>18. Kept(mux', stray')
    BY <1>12, <1>14, <1>15, <1>16 DEF Kept
  <1> QED BY <1>1, <1>2, <1>10, <1>17, <1>18, SameJobs

\* Moving a pane next to another one keeps the invariant, for a target that
\* is gone or too small too, and says the mux is empty only without windows.
LEMMA SplitMovePaneStep ==
    ASSUME IInv, NEW p \in Panes, NEW t \in Tabs, NEW q \in Panes, NEW u \in Tabs,
           SplitMovePane(p, t, q, u)
    PROVE  IInv' /\ EmptyOrSilent
  <1>1. /\ mux \in Registries /\ Sound(mux) /\ Placed(mux, stray) /\ stray \in SUBSET Panes
        /\ behaviour \in Behaviours /\ quit \in BOOLEAN
    BY DEF IInv, Kept
  <1> DEFINE base == [mux EXCEPT !.content[t] = @ \ {p}]
             looked == Notice(base, mux.content[t] \ {p})
             left == IF IsDead(looked, t) THEN Prune(ForgetTabs(looked, {t})) ELSE looked
  <1>2. PICK fits \in BOOLEAN :
           LET inserted == fits /\ q \in left.content[u]
           IN /\ mux' = [left EXCEPT !.content[u] = IF inserted THEN @ \cup {p} ELSE @]
              /\ stray' = IF inserted /\ u \in left.tabs \cap Listed(left)
                            THEN stray ELSE stray \cup ({p} \cap left.panes)
    BY Zenon DEF SplitMovePane
  <1>3. /\ t \in mux.tabs /\ t \in Listed(mux) /\ u \in mux.tabs /\ p \in mux.content[t]
        /\ UNCHANGED <<behaviour, jobs, quit>>
    BY DEF SplitMovePane
  <1> DEFINE inserted == fits /\ q \in left.content[u]
             c == [left.content EXCEPT ![u] = IF inserted THEN @ \cup {p} ELSE @]
  <1>4. mux' = [left EXCEPT !.content = c]
    BY <1>2
  <1>5. stray' = IF inserted /\ u \in left.tabs \cap Listed(left)
                   THEN stray ELSE stray \cup ({p} \cap left.panes)
    BY <1>2
  <1> HIDE DEF base, looked, left, inserted, c
  <1>6. /\ base \in Registries
        /\ base.panes = mux.panes /\ base.tabs = mux.tabs /\ base.windows = mux.windows
        /\ base.listing = mux.listing
        /\ base.process = mux.process /\ base.origin = mux.origin
        /\ base.killed = mux.killed
        /\ base.nextTab = mux.nextTab /\ base.nextWindow = mux.nextWindow
        /\ base.scheduled = mux.scheduled
        /\ base.content[t] = mux.content[t] \ {p}
        /\ \A x \in Tabs \ {t} : base.content[x] = mux.content[x]
    BY <1>1 DEF Registries, base
  <1>7. /\ \A x \in Tabs : p \notin base.content[x]
        /\ \A x \in Tabs : base.content[x] \subseteq mux.content[x]
    BY <1>1, <1>3, <1>6 DEF Sound
  <1>8. Sound(base)
    BY <1>1, <1>6, <1>7 DEF Sound
  <1>9. Placed(base, stray \cup {p})
    <2> SUFFICES ASSUME NEW o \in mux.panes, o \notin stray, o # p, o \notin Leaving(base)
                 PROVE  o \in Shown(base)
      BY <1>6 DEF Placed
    <2>1. o \in Panes /\ o \notin Leaving(mux)
      BY <1>1, <1>6 DEF Leaving, Registries
    <2>2. o \in Shown(mux)
      BY <1>1, <2>1 DEF Placed
    <2> QED BY <1>1, <1>6, <2>1, <2>2 DEF Shown, Registries
  <1>10. Safely(base, looked) /\ looked \in Registries /\ Sound(looked)
    BY <1>1, <1>6, <1>8, NoticeSafely DEF Safely, looked
  <1>11. Safely(base, ForgetTabs(looked, {t}))
         /\ ForgetTabs(looked, {t}) \in Registries /\ Sound(ForgetTabs(looked, {t}))
    BY <1>10, ForgetTabsSafely, SafelyTwice DEF Safely
  <1>12. Safely(base, left) /\ (IsDead(looked, t) => Busy \/ Clean(left))
    <2>1. CASE ~ IsDead(looked, t)
      BY <1>10, <2>1 DEF left
    <2>2. CASE IsDead(looked, t) /\ Busy
      BY <1>11, <2>2 DEF left, Prune
    <2>3. CASE IsDead(looked, t) /\ ~ Busy
      BY <1>1, <1>11, <2>3, PruneSafely, SafelyTwice DEF left
    <2> QED BY <2>1, <2>2, <2>3
  <1>13. /\ left \in Registries /\ Sound(left)
         /\ Placed(left, stray \cup {p})
         /\ left.nextTab = mux.nextTab
         /\ \A x \in Tabs : p \notin left.content[x]
         /\ p \in left.panes <=> p \in mux.panes
         /\ Noticed(left, p) = Noticed(mux, p)
         /\ left.process[p] # "unborn"
         /\ InQueue(mux.scheduled) \subseteq InQueue(left.scheduled)
    <2>1. Noticed(base, p) = Noticed(mux, p)
      BY <1>6 DEF Noticed, ExitBehavior
    <2>2. mux.process[p] # "unborn"
      BY <1>1, <1>3 DEF Sound
    <2>3. stray \cup {p} \in SUBSET Panes
      BY <1>1
    <2> QED BY <1>6, <1>7, <1>9, <1>12, <2>1, <2>2, <2>3 DEF Safely, Shrunk
  <1>14. /\ c \in [Tabs -> SUBSET Panes]
         /\ \A x \in Tabs \ {u} : c[x] = left.content[x]
         /\ c[u] = IF inserted THEN left.content[u] \cup {p} ELSE left.content[u]
    BY <1>13 DEF Registries, c
  <1>15. /\ mux' \in Registries /\ Others(left, mux')
         /\ mux'.content = c
         /\ mux'.panes = left.panes /\ mux'.process = left.process
         /\ mux'.origin = left.origin
         /\ mux'.killed = left.killed
    BY <1>4, <1>13, <1>14, ContentReplaced
  <1>16. Sound(mux')
    <2>1. \A x, y \in Tabs : x # y => c[x] \cap c[y] = {}
      BY <1>13, <1>14 DEF Sound
    <2>2. \A o \in Panes : left.process[o] = "unborn" =>
             o \notin left.panes /\ \A x \in Tabs : o \notin c[x]
      BY <1>13, <1>14 DEF Sound
    <2>3. \A x \in Tabs : x >= left.nextTab => x \notin left.tabs /\ c[x] = {}
      <3>1. ~ (u >= left.nextTab)
        BY <1>1, <1>3, <1>13 DEF Sound
      <3> QED BY <1>13, <1>14, <3>1 DEF Sound
    <2> QED BY <1>13, <1>15, <2>1, <2>2, <2>3 DEF Sound, Others
  <1>17. Placed(mux', stray')
    <2> SUFFICES ASSUME NEW o \in left.panes, o \notin stray', o \notin Leaving(mux')
                 PROVE  o \in Shown(mux')
      BY <1>15 DEF Placed
    <2>1. o \in Panes /\ o \notin Leaving(left) /\ o \notin stray
      BY <1>5, <1>13, <1>15 DEF Leaving, Others, Registries
    <2>2. CASE o = p
      <3>1. inserted /\ u \in Listed(left)
        BY <1>5, <2>2
      <3>2. PICK w \in left.windows : u \in left.listing[w]
        BY <3>1 DEF Listed
      <3>3. w \in Windows /\ p \in c[u]
        BY <1>13, <1>14, <3>1, <3>2 DEF Registries
      <3> QED BY <1>15, <2>1, <2>2, <3>2, <3>3 DEF Shown, Others
    <2>3. CASE o # p
      <3>1. PICK w \in Windows : \E x \in left.listing[w] : o \in left.content[x]
        BY <1>13, <2>1, <2>3 DEF Placed, Shown
      <3>2. PICK x \in left.listing[w] : o \in left.content[x]
        BY <3>1
      <3>3. x \in Tabs /\ o \in c[x]
        BY <1>13, <1>14, <3>2 DEF Registries
      <3> QED BY <1>15, <2>1, <3>2, <3>3 DEF Shown, Others
    <2> QED BY <2>2, <2>3
  <1>18. stray' \in SUBSET Panes
    BY <1>1, <1>5
  <1>19. PruneDue(mux) => PruneDue(mux')
    BY <1>13, <1>15 DEF PruneDue, Others
  <1>20. ASSUME ~ Busy, Clean(mux)
         PROVE  Clean(mux')
    <2>1. p \in mux.panes /\ Noticed(mux, p) # "dead"
      BY <1>1, <1>3, <1>20 DEF Clean, Listed, Registries
    <2>2. Clean(left)
      <3>1. CASE IsDead(looked, t)
        BY <1>12, <1>20, <3>1
      <3>2. CASE ~ IsDead(looked, t)
        <4>1. left = looked
          BY <3>2 DEF left
        <4>2. /\ Others(base, looked) /\ looked.panes = mux.panes
              /\ looked.content = base.content
              /\ \A o \in Panes : Noticed(looked, o) = "dead" <=> Noticed(base, o) = "dead"
          BY <1>1, <1>6, NoticeFields, NoticedTwice DEF looked
        <4>3. \A o \in Panes : Noticed(looked, o) = "dead" <=> Noticed(mux, o) = "dead"
          BY <1>6, <4>2 DEF Noticed, ExitBehavior
        <4>4. looked.windows = mux.windows /\ looked.listing = mux.listing
          BY <1>6, <4>2 DEF Others
        <4>5. ASSUME NEW w \in Windows, NEW x \in mux.listing[w]
              PROVE  /\ base.content[x] # {}
                     /\ base.content[x] \subseteq mux.panes
                     /\ \A o \in base.content[x] : Noticed(looked, o) # "dead"
          <5>1. x \in Tabs /\ mux.content[x] \subseteq Panes
            BY <1>1 DEF Registries
          <5>2. /\ mux.content[x] # {} /\ mux.content[x] \subseteq mux.panes
                /\ \A o \in mux.content[x] : Noticed(mux, o) # "dead"
            BY <1>20 DEF Clean
          <5>3. base.content[x] # {}
            BY <1>6, <3>2, <4>2, <5>1, <5>2 DEF IsDead
          <5> QED BY <1>7, <4>3, <5>1, <5>2, <5>3
        <4>6. \A w \in mux.windows : mux.listing[w] # {}
          BY <1>20 DEF Clean
        <4> QED BY <4>1, <4>2, <4>4, <4>5, <4>6 DEF Clean
      <3> QED BY <3>1, <3>2
    <2>3. \A o : Noticed(mux', o) = Noticed(left, o)
      BY <1>15 DEF Noticed, ExitBehavior
    <2>4. ASSUME NEW w \in Windows, NEW x \in left.listing[w]
          PROVE  /\ c[x] # {}
                 /\ c[x] \subseteq left.panes
                 /\ \A o \in c[x] : Noticed(left, o) # "dead"
      <3>1. x \in Tabs
        BY <1>13 DEF Registries
      <3>2. /\ left.content[x] # {} /\ left.content[x] \subseteq left.panes
            /\ \A o \in left.content[x] : Noticed(left, o) # "dead"
        BY <2>2 DEF Clean
      <3>3. left.content[x] \subseteq c[x] /\ c[x] \subseteq left.content[x] \cup {p}
        BY <1>14, <3>1
      <3> QED BY <1>13, <2>1, <3>2, <3>3
    <2> QED BY <1>15, <2>2, <2>3, <2>4 DEF Clean, Others
  <1>21. Kept(mux', stray')
    BY <1>15, <1>16, <1>17, <1>19, <1>20 DEF IInv, Kept
  <1>22. EmptyOrSilent
    <2>1. looked.scheduled = mux.scheduled
      BY <1>1, <1>6, NoticeFields DEF looked, Others
    <2>2. ForgetTabs(looked, {t}).scheduled = mux.scheduled
      BY <1>10, <2>1, ForgetTabsFields
    <2>3. left.windows = {} \/ Silent(left.scheduled)
      <3>1. CASE IsDead(looked, t)
        BY <1>1, <1>11, <2>2, <3>1, PruneIsSilent DEF left
      <3>2. CASE ~ IsDead(looked, t)
        BY <2>1, <3>2 DEF left, Silent
      <3> QED BY <3>1, <3>2
    <2> QED BY <1>15, <2>3 DEF EmptyOrSilent, Others
  <1> QED BY <1>1, <1>3, <1>18, <1>21, <1>22, SameJobs

\* No step of a spawn or split says that the mux is empty.
LEMMA SpawnsAreSilent ==
    ASSUME IInv, NEW j \in Jobs, Ask(j) \/ FinishSpawn(j) \/ FinishSplit(j) \/ SpawnFails(j)
    PROVE  Silent(mux'.scheduled)
  <1>1. mux \in Registries /\ mux.scheduled \in Seq(Tasks)
    BY DEF IInv, Kept, Registries
  <1>2. CASE Ask(j)
    <2>1. mux'.scheduled = Append(mux.scheduled, Begins(j))
      BY <1>1, <1>2 DEF Ask, Registries
    <2> QED BY <1>1, <2>1, OtherTasks DEF Silent
  <1> DEFINE made(p, origin) == WithPane(p, origin)
  <1>0. \A p, origin : "scheduled" \in DOMAIN made(p, origin)
                        /\ made(p, origin).scheduled = mux.scheduled
    BY <1>1 DEF WithPane, Registries
  <1>3. CASE FinishSpawn(j)
    <2>1. mux'.scheduled = mux.scheduled \o BuilderReleased(j) \o Released(j)
      <3> DEFINE t == mux.nextTab
                 w == jobs[j].window
      <3>1. PICK p \in Newborn(mux), origin \in Origins :
               mux' = [made(p, origin) EXCEPT
                      !.tabs = @ \cup {t}, !.content[t] = {p}, !.nextTab = t + 1,
                      !.listing[w] = IF w \in mux.windows THEN @ \cup {t} ELSE @,
                      !.scheduled = @ \o BuilderReleased(j) \o Released(j)]
        BY <1>3 DEF FinishSpawn
      <3> HIDE DEF made
      <3> QED BY <1>0, <3>1
    <2> QED BY <1>1, <2>1, ReleaseIsSilent
  <1>4. CASE FinishSplit(j)
    <2>1. mux'.scheduled = mux.scheduled \o Released(j)
      <3> DEFINE t == jobs[j].tab
      <3>1. PICK p \in Newborn(mux), origin \in Origins, fits \in BOOLEAN :
               mux' = [made(p, origin) EXCEPT
                      !.content[t] = IF t \notin mux.tabs THEN {}
                                     ELSE IF fits /\ jobs[j].pane \in mux.content[t]
                                     THEN @ \cup {p} ELSE @,
                      !.scheduled = @ \o Released(j)]
        BY <1>4 DEF FinishSplit
      <3> HIDE DEF made
      <3> QED BY <1>0, <3>1
    <2> QED BY <1>1, <2>1, ReleaseIsSilent
  <1>5. CASE SpawnFails(j)
    <2>1. mux'.scheduled = mux.scheduled \o BuilderReleased(j) \o Released(j)
      BY <1>1, <1>5 DEF SpawnFails, Registries
    <2> QED BY <1>1, <2>1, ReleaseIsSilent
  <1> QED BY <1>2, <1>3, <1>4, <1>5

-----------------------------------------------------------------------------
(* The theorems.                                                           *)

\* Init implies the invariant.
LEMMA Initially == Init => IInv
  <1> SUFFICES ASSUME Init PROVE IInv
    OBVIOUS
  <1>1. 1 \in Windows /\ 1 \in Tabs /\ 1 \in Panes
        /\ 1 \in 1 .. MaxTabs + 1 /\ 1 \in 1 .. MaxWindows + 1
    BY BoundsAssumption DEF Windows, Tabs, Panes
  <1>2. jobs \in [Jobs -> Job]
    BY <1>1 DEF Init, Idle, Job, JobKinds
  <1>3. jobs[StartJob].stage = "asked" /\ jobs[StartJob].kind = "window"
    BY StartAssumption DEF Init, Idle
  <1>4. StartsWithAWindow /\ Busy
    BY <1>3, StartAssumption DEF StartsWithAWindow, Busy, Holds
  <1>5. <<Begins(StartJob)>> \in Seq(Tasks)
    BY StartAssumption DEF Begins, Tasks
  <1>6. /\ mux \in Registries
        /\ mux.panes = {} /\ mux.tabs = {} /\ mux.windows = {}
        /\ \A t \in Tabs : mux.content[t] = {}
        /\ \A w \in Windows : mux.listing[w] = {}
    <2> DEFINE q == <<Begins(StartJob)>>
    <2>1. q \in Seq(Tasks)
      BY <1>5
    <2>2. mux = [panes |-> {}, tabs |-> {}, windows |-> {},
              content |-> [t \in Tabs |-> {}], listing |-> [w \in Windows |-> {}],
              process |-> [p \in Panes |-> "unborn"],
              origin |-> [p \in Panes |-> "program"], killed |-> {}, reading |-> {},
              nextTab |-> 1, nextWindow |-> 1, scheduled |-> q]
      BY DEF Init
    <2> HIDE DEF q
    <2> QED BY <1>1, <2>1, <2>2 DEF Registries, Origins
  <1>7. Sound(mux) /\ Placed(mux, stray)
    BY <1>6 DEF Sound, Placed
  <1> QED BY <1>2, <1>4, <1>6, <1>7 DEF Init, IInv, Kept

\* Every step keeps the invariant.
LEMMA Always ==
    ASSUME IInv, [Next]_vars
    PROVE  IInv'
  <1>1. ASSUME NEW j \in Jobs, Ask(j) \/ FinishSpawn(j) \/ FinishSplit(j) \/ SpawnFails(j)
        PROVE  IInv'
    BY <1>1, AskStep, FinishSpawnStep, FinishSplitStep, SpawnFailsStep
  <1>2. CASE Moves
    BY <1>2, MovePaneToNewTabStep, MoveStopsStep, SplitMovePaneStep DEF Moves
  <1>3. CASE Closes
    BY <1>3, RemovePaneStep, KillPaneInTabStep, RemoveTabStep, KillWindowStep DEF Closes
  <1>4. CASE Ends
    BY <1>4, ConnectsStep, ProcessExitsStep, ReaderEndsStep DEF Ends
  <1>5. CASE RunTask
    BY <1>5, RunTaskStep
  <1>6. CASE UNCHANGED vars
    BY <1>6 DEF vars, IInv, Kept, StartsWithAWindow, Busy, Holds, Clean, Noticed,
                ExitBehavior, PruneDue, Placed, Shown, Leaving, Sound
  <1> QED BY <1>1, <1>2, <1>3, <1>4, <1>5, <1>6 DEF Next, Spawns

\* Every step leaves no window or says nothing of an empty mux.
LEMMA EveryStepIsEmptyOrSilent ==
    ASSUME IInv, Next
    PROVE  EmptyOrSilent
  <1>1. mux \in Registries /\ mux.scheduled \in Seq(Tasks)
    BY DEF IInv, Kept, Registries
  <1>2. CASE Spawns
    BY <1>2, SpawnsAreSilent DEF Spawns, EmptyOrSilent
  <1>3. CASE Moves
    BY <1>3, MovePaneToNewTabStep, MoveStopsStep, SplitMovePaneStep DEF Moves
  <1>4. CASE Closes
    <2>1. ASSUME NEW p \in Panes, NEW t \in Tabs, KillPaneInTab(p, t)
          PROVE  EmptyOrSilent
      <3>1. mux'.scheduled = Append(mux.scheduled, Removes({p}))
        BY <1>1, <2>1 DEF KillPaneInTab, Registries
      <3> QED BY <1>1, <3>1, OtherTasks DEF EmptyOrSilent, Silent
    <2> QED BY <1>4, <2>1, RemovePaneStep, RemoveTabStep, KillWindowStep DEF Closes
  <1>5. CASE Ends
    <2>1. PICK p \in Panes : Connects(p) \/ ProcessExits(p) \/ ReaderEnds(p)
      BY <1>5 DEF Ends
    <2>2. \/ mux'.scheduled = mux.scheduled
          \/ mux'.scheduled = Append(mux.scheduled, Prunes)
          \/ mux'.scheduled = Append(mux.scheduled, Removes({p}))
      BY <1>1, <2>1 DEF Connects, ProcessExits, ReaderEnds, Registries
    <2> QED BY <1>1, <2>2, OtherTasks DEF EmptyOrSilent, Silent
  <1>6. CASE RunTask
    BY <1>6, RunTaskStep
  <1> QED BY <1>2, <1>3, <1>4, <1>5, <1>6 DEF Next

\* The inductive invariant holds throughout.
THEOREM Invariance == Spec => []IInv
  <1>1. Init => IInv
    BY Initially
  <1>2. IInv /\ [Next]_vars => IInv'
    BY Always
  <1> QED BY <1>1, <1>2, PTL DEF Spec

\* The variables of the registry keep their types.
THEOREM TypeCorrect == Spec => []TypeOK
  <1>1. IInv => TypeOK
    BY DEF IInv, Kept, TypeOK
  <1> QED BY <1>1, Invariance, PTL

\* No tab is in two windows and no pane in two tabs, and when the main thread
\* is done the only panes without a tab in a window are strays of spawns and
\* moves whose target was gone: for any numbers of panes, tabs, windows and
\* jobs, and any tabs whose references are held (mux/src/lib.rs:600 to 1000).
THEOREM EveryPaneHasOneHome == Spec => []OneHomeEach
  <1>1. IInv => OneHomeEach
    <2> SUFFICES ASSUME IInv PROVE OneHomeEach
      OBVIOUS
    <2>1. mux \in Registries /\ Sound(mux) /\ Placed(mux, stray)
      BY DEF IInv, Kept
    <2>2. Listed(mux) \subseteq mux.tabs
      BY <2>1 DEF Listed, Sound, Registries
    <2>3. ASSUME Quiet
          PROVE  mux.panes \ Housed \subseteq stray
      <3>1. Leaving(mux) = {}
        BY <2>3 DEF Quiet, Leaving, InQueue
      <3>2. Shown(mux) \subseteq Housed
        BY <2>1 DEF Shown, Housed, Listed, Sound
      <3> QED BY <2>1, <3>1, <3>2 DEF Placed
    <2> QED BY <2>1, <2>2, <2>3 DEF OneHomeEach, Sound, Registries
  <1> QED BY <1>1, Invariance, PTL

\* When the main thread has run what was scheduled and no activity is held,
\* no window is empty and no listed tab holds a dead pane.
THEOREM NoDeadTabStays == Spec => []NothingDeadWhenQuiet
  <1>1. IInv => NothingDeadWhenQuiet
    <2> SUFFICES ASSUME IInv, Quiet PROVE NothingDeadWhenQuiet
      BY DEF NothingDeadWhenQuiet
    <2>1. mux \in Registries
      BY DEF IInv, Kept
    <2>2. ~ PruneDue(mux)
      BY DEF Quiet, PruneDue, InQueue
    <2>3. Clean(mux)
      BY <2>2 DEF IInv, Kept, Quiet
    <2> QED BY <2>1, <2>3 DEF Clean, NothingDeadWhenQuiet, Listed, Registries
  <1> QED BY <1>1, Invariance, PTL

\* The mux says it is empty (MuxNotification::Empty) only when no window is
\* left.
THEOREM EmptyMeansNoWindows == Spec => SaysEmptyWithoutWindows
  <1>1. IInv /\ [Next]_vars => [SaysEmpty => mux'.windows = {}]_vars
    BY EveryStepIsEmptyOrSilent, SilentSaysNothing DEF EmptyOrSilent
  <1> QED BY <1>1, Invariance, PTL DEF Spec, SaysEmptyWithoutWindows
=============================================================================
