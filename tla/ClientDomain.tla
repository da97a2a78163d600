---------------------------- MODULE ClientDomain ----------------------------
(***************************************************************************)
(* A domain whose panes live in a mux server (wezterm-client/src/domain.rs *)
(* with client.rs and pane/clientpane.rs, and the server's dispatch.rs and *)
(* sessionhandler.rs).  The client copies the server's windows, tabs and   *)
(* panes into its own mux under ids of its own, and keeps three maps from  *)
(* the remote ids to the local ones.  It learns of changes by pushes, most *)
(* of which make it ask for the whole list anew, and by the replies to     *)
(* what its user does; each of these runs later, as a task of the main     *)
(* thread, when both sides may have moved on.                              *)
(*                                                                         *)
(* Sizes, titles, zoom and focus are left out: a push that reports them    *)
(* is one that makes the client resync for nothing (Resized).  Pushes of a *)
(* pane's lines are left out as well.                                      *)
(***************************************************************************)
EXTENDS Integers, FiniteSets, Functions, SequencesExt

CONSTANTS
    MaxServer,    \* bound: what happens on the server by itself
    MaxUser       \* bound: what the user of the client does

BoundsAssumption == MaxServer \in Nat /\ MaxUser \in Nat

ASSUME BoundsAssumption

VARIABLES
    server,    \* [trees: remote tab -> Seq(remote pane), window: remote tab ->
               \*  remote window, leaving: panes out of their tab that are not
               \*  out of the mux yet, spawning: requests under way, made: ids,
               \*  moved: history, whether a pane was moved to another tab]
    up,        \* requests on their way to the server
    down,      \* replies and pushes on their way to the client
    queue,     \* tasks of the client's main thread
    client,    \* the client's mux and maps, see Init
    calls,     \* what the user asked of the server: the local ids meant
    asked,     \* remote panes that the user closed
    steps      \* [server, user]: what has happened so far

vars == <<server, up, down, queue, client, calls, asked, steps>>

\* A tab has at most this many panes: a removal pass that finds two panes side
\* by side takes one of them (Passed), and with two panes it is always so.
TabCapacity == 2

With(f, x, y) == [z \in DOMAIN f \cup {x} |-> IF z = x THEN y ELSE f[z]]

\* What is left of the sequence s without the members of gone.
Remainder(s, gone) ==
    LET left[n \in 0 .. Len(s)] ==
            IF n = 0 THEN << >>
            ELSE IF s[n] \in gone THEN left[n - 1]
            ELSE Append(left[n - 1], s[n])
    IN  left[Len(s)]

------------------------------------------------------------------------------
(* The server.                                                             *)

RemotePanes == UNION {Range(server.trees[t]) : t \in DOMAIN server.trees}
RemoteWindows == Range(server.window)

Pushed(kind, pane) == [kind |-> kind, pane |-> pane]
Resync == Pushed("resync", 0)

\* A new tab for pane p in window w, or in a new one if w is 0.
WithTab(s, p, w) ==
    LET t == s.made.tab + 1
        n == IF w = 0 THEN s.made.window + 1 ELSE w
    IN [s EXCEPT !.trees = With(@, t, <<p>>), !.window = With(@, t, n),
                 !.made.tab = t, !.made.window = IF w = 0 THEN n ELSE @]

\* The panes ps leave their tabs, and tabs left empty go.
Without(s, ps) ==
    LET left == [t \in DOMAIN s.trees |-> Remainder(s.trees[t], ps)]
        kept == {t \in DOMAIN s.trees : left[t] # << >>}
    IN [s EXCEPT !.trees = Restrict(left, kept), !.window = Restrict(@, kept)]

\* A pane is spawned into a new tab, or beside another one.
Spawned(s, w) == WithTab([s EXCEPT !.made.pane = @ + 1], s.made.pane + 1, w)
SplitTab(s, t) ==
    [s EXCEPT !.made.pane = @ + 1, !.trees[t] = Append(@, s.made.pane + 1)]

\* The tabs in the order in which the server's windows are hashed.
Listing ==
    LET order == SetToSeq(DOMAIN server.trees)
    IN [kind |-> "list", for |-> 0,
        tabs |-> [i \in DOMAIN order |->
                    [tab |-> order[i], window |-> server.window[order[i]],
                     panes |-> server.trees[order[i]]]]]

ServerStep ==
    /\ steps.server < MaxServer
    /\ steps' = [steps EXCEPT !.server = @ + 1]
    /\ UNCHANGED <<up, queue, client, calls, asked>>

\* Another client, or a program in a pane, changes what there is.
SpawnElsewhere ==
    /\ ServerStep
    /\ \E w \in RemoteWindows \cup {0} : server' = Spawned(server, w)
    /\ down' = Append(down, Resync)

SplitElsewhere ==
    /\ ServerStep
    /\ \E t \in DOMAIN server.trees :
          /\ Len(server.trees[t]) < TabCapacity
          /\ server' = SplitTab(server, t)
    /\ down' = Append(down, Resync)

Moved(s, p, w) == WithTab([Without(s, {p}) EXCEPT !.moved = TRUE], p, w)

MoveElsewhere ==
    /\ ServerStep
    /\ \E p \in RemotePanes, w \in RemoteWindows \cup {0} : server' = Moved(server, p, w)
    /\ down' = Append(down, Resync)

Resized ==
    /\ ServerStep
    /\ down' = Append(down, Resync)
    /\ UNCHANGED server

\* The program of a pane ends: the pane leaves its tab, and then the mux.
Exit ==
    /\ ServerStep
    /\ \E p \in RemotePanes :
          server' = [Without(server, {p}) EXCEPT !.leaving = @ \cup {p}]
    /\ UNCHANGED down

Forget(p) ==
    /\ p \in server.leaving
    /\ server' = [server EXCEPT !.leaving = @ \ {p}]
    /\ down' = Append(down, Pushed("removed", p))
    /\ UNCHANGED <<up, queue, client, calls, asked, steps>>

Reply(kind, call, pane, tab, window) ==
    [kind |-> kind, call |-> call, pane |-> pane, tab |-> tab, window |-> window]

\* process_one: lists, kills and moves are done at once, spawns and splits
\* take a while.
Serve ==
    /\ up # << >>
    /\ LET r == Head(up) IN
         \/ /\ r.kind = "list"
            /\ down' = Append(down, [Listing EXCEPT !.for = r.pane])
            /\ UNCHANGED server
         \/ /\ r.kind = "kill"
            /\ server' = [Without(server, {r.pane}) EXCEPT !.leaving = @ \ {r.pane}]
            /\ down' = IF r.pane \in RemotePanes \cup server.leaving
                       THEN Append(down, Pushed("removed", r.pane)) ELSE down
         \/ /\ r.kind = "move"
            /\ IF r.pane \in RemotePanes /\ r.window \in RemoteWindows \cup {0}
                 THEN /\ server' = Moved(server, r.pane, r.window)
                      /\ down' = down \o <<Resync, Reply("moved", r.call, 0, 0, 0)>>
                 ELSE /\ down' = Append(down, Reply("failed", r.call, 0, 0, 0))
                      /\ UNCHANGED server
         \/ /\ r.kind \in {"spawn", "split"}
            /\ server' = [server EXCEPT !.spawning = @ \cup {r}]
            /\ UNCHANGED down
    /\ up' = Tail(up)
    /\ UNCHANGED <<queue, client, calls, asked, steps>>

\* The new pane of a spawn or a split: its notification is sent before the reply.
Answer(r) ==
    /\ r \in server.spawning
    /\ LET s == [server EXCEPT !.spawning = @ \ {r}]
           p == s.made.pane + 1
           home == {t \in DOMAIN s.trees : r.pane \in Range(s.trees[t])}
       IN \/ /\ r.kind = "spawn" /\ r.window \in RemoteWindows \cup {0}
             /\ server' = Spawned(s, r.window)
             /\ LET t == server'.made.tab
                IN down' = down \o <<Resync, Reply("spawned", r.call, p, t, server'.window[t])>>
          \/ /\ r.kind = "split"
             /\ \E t \in home :
                   /\ Len(s.trees[t]) < TabCapacity
                   /\ server' = SplitTab(s, t)
                   /\ down' = down \o <<Resync, Reply("split", r.call, p, t, s.window[t])>>
          \/ /\ r.kind = "spawn" => r.window \notin RemoteWindows \cup {0}
             /\ r.kind = "split" => \A t \in home : Len(s.trees[t]) >= TabCapacity
             /\ server' = s
             /\ down' = Append(down, Reply("failed", r.call, 0, 0, 0))
    /\ UNCHANGED <<up, queue, client, calls, asked, steps>>

------------------------------------------------------------------------------
(* The client's mux.  Each operator takes the client, c, with the tasks    *)
(* that are scheduled on the way in c.tasks.                               *)

Known(c, p) == p \in DOMAIN c.panes /\ c.panes[p].known
Task(kind, ids) == [kind |-> kind, ids |-> ids]
Scheduled(c, task) == [c EXCEPT !.tasks = Append(@, task)]

\* Mux::remove_pane_internal with ClientPane::kill: a detached domain leaves
\* the server's pane alone.
ForgetPanes(c, ps) ==
    LET gone == {p \in ps : Known(c, p)}
        killed == {[kind |-> "kill", pane |-> c.panes[p].remote] : p \in gone}
        without(p) == [c.panes[p] EXCEPT !.known = @ /\ p \notin gone]
    IN [c EXCEPT !.panes = [p \in DOMAIN @ |-> without(p)],
                 !.tasks = IF c.attached THEN @ \o SetToSeq(killed) ELSE @]

OutOfWindows(c, ts) == [c EXCEPT !.wins = [w \in DOMAIN @ |-> @[w] \ ts]]

\* Mux::remove_tab_internal.
ForgetTabs(c, ts) ==
    LET gone == ts \cap DOMAIN c.tabs
        out  == OutOfWindows([c EXCEPT !.tabs = Restrict(@, DOMAIN @ \ gone)], gone)
    IN ForgetPanes(out, UNION {Range(c.tabs[t]) : t \in gone})

\* remove_pane_if over a tree of at most two panes: behind the first one that
\* is removed the walk goes on after its sibling.
Passed(tree, ps) ==
    IF Len(tree) = 2 /\ tree[1] \in ps THEN <<tree[2]>>
    ELSE Remainder(tree, ps)

\* The pass over the trees of the tabs ts; the panes it took out of one tree
\* are removed by a task.
PassedTabs(c, ts, ps) ==
    LET after == [t \in DOMAIN c.tabs |-> IF t \in ts THEN Passed(c.tabs[t], ps) ELSE c.tabs[t]]
        taken == {Range(c.tabs[t]) \ Range(after[t]) : t \in ts} \ {{}}
    IN [c EXCEPT !.tabs = after,
                 !.tasks = @ \o SetToSeq({Task("remove", ids) : ids \in taken})]

IsDead(c, t) == \A p \in Range(c.tabs[t]) : c.panes[p].dead

Listed(c) == UNION Range(c.wins)

\* Mux::prune_dead_windows.
Prune(c) ==
    IF c.busy > 0 THEN c
    ELSE LET gone   == {p \in DOMAIN c.panes : c.panes[p].dead \/ ~ c.panes[p].known}
             passed == PassedTabs(c, Listed(c), gone)
             dead   == {t \in DOMAIN c.tabs : IsDead(passed, t)}
             hollow == {w \in DOMAIN c.wins : c.wins[w] \subseteq dead}
         IN [ForgetTabs(passed, dead) EXCEPT !.wins = Restrict(@, DOMAIN @ \ hollow)]

\* Mutant: the domain counts as attached until its panes are gone.
MutDetached(c) ==
    LET ps == {p \in DOMAIN c.panes : Known(c, p)}
        passed == PassedTabs(c, Listed(c), DOMAIN c.panes)
    IN [Prune(ForgetPanes(passed, ps)) EXCEPT !.attached = FALSE]

\* perform_detach with Mux::domain_was_detached.  The maps stay with the tasks
\* that still use them.
Detached(c) ==
    LET ps == {p \in DOMAIN c.panes : Known(c, p)}
        passed == PassedTabs([c EXCEPT !.attached = FALSE], Listed(c), DOMAIN c.panes)
    IN Prune(ForgetPanes(passed, ps))

\* Mux::kill_window: the window goes first, then the domain of its panes is
\* detached and its tabs are removed.
KillWindow(c, w) ==
    LET out == [c EXCEPT !.wins = Restrict(@, DOMAIN @ \ {w})]
        detaches == \E t \in c.wins[w] : c.tabs[t] # << >>
        rest == IF detaches THEN Detached(out) ELSE out
    IN Prune(ForgetTabs(rest, c.wins[w]))

------------------------------------------------------------------------------
(* The domain.                                                             *)

\* Mutant: a pane that is not in the map is not looked for in the mux.
MutLookup(c, r) == IF r \in DOMAIN c.paneOf THEN {c.paneOf[r]} ELSE {}

\* remote_to_local_pane_id: the map, or any pane in the mux that is for it.
Lookup(c, r) ==
    IF r \in DOMAIN c.paneOf THEN {c.paneOf[r]}
    ELSE {p \in DOMAIN c.panes : Known(c, p) /\ c.panes[p].remote = r}

Mapped(c, r) ==
    IF Lookup(c, r) = {} THEN c
    ELSE [c EXCEPT !.paneOf = With(@, r, CHOOSE p \in Lookup(c, r) : TRUE)]

NewPane(c, r) ==
    [c EXCEPT !.panes = Append(@, [remote |-> r, dead |-> FALSE, known |-> TRUE])]

\* The pane of the client for the remote pane r is put at the end of tab t.
WithPane(c, t, r) ==
    LET found == Mapped(c, r)
        old   == {p \in Lookup(c, r) : Known(c, p)}
    IN IF old # {}
       THEN [found EXCEPT !.tabs[t] = Append(@, found.paneOf[r])]
       ELSE [NewPane(c, r) EXCEPT !.paneOf = Restrict(@, DOMAIN @ \ {r}),
                                  !.tabs[t] = Append(@, Len(c.panes) + 1)]

\* Mutant: a tab that is there already keeps the panes it has.
MutWithLocalTab(c, remote) ==
    IF remote \in DOMAIN c.tabOf /\ c.tabOf[remote] \in DOMAIN c.tabs THEN c
    ELSE [c EXCEPT !.tabs = With(@, c.made.tab + 1, << >>),
                   !.tabOf = With(@, remote, c.made.tab + 1), !.made.tab = @ + 1]

\* The tab for a remote tab, made anew if it is not known or not there.
WithLocalTab(c, remote) ==
    IF remote \in DOMAIN c.tabOf /\ c.tabOf[remote] \in DOMAIN c.tabs
    THEN [c EXCEPT !.tabs[c.tabOf[remote]] = << >>]
    ELSE [c EXCEPT !.tabs = With(@, c.made.tab + 1, << >>),
                   !.tabOf = With(@, remote, c.made.tab + 1), !.made.tab = @ + 1]

\* The window for a remote window: "no such window!?" (domain.rs:624) if the
\* map names one that is gone.
InLocalWindow(c, t, remote) ==
    IF remote \in DOMAIN c.winOf
    THEN IF c.winOf[remote] \in DOMAIN c.wins
         THEN [c EXCEPT !.wins[c.winOf[remote]] = @ \cup {t}]
         ELSE [c EXCEPT !.panicked = TRUE]
    ELSE IF c.primary # 0
    THEN [c EXCEPT !.winOf = With(@, remote, c.primary),
                   !.wins[c.primary] = @ \cup {t}, !.primary = 0]
    ELSE LET w == c.made.window + 1
         IN Scheduled([c EXCEPT !.wins = With(@, w, {t}), !.winOf = With(@, remote, w),
                                !.made.window = w], Task("prune", {}))

\* The panes ps of the server, one after the other.
WithPanes(c, t, ps) ==
    LET after[n \in 0 .. Len(ps)] ==
            IF n = 0 THEN c ELSE WithPane(after[n - 1], t, ps[n])
    IN  after[Len(ps)]

SyncTab(c, entry) ==
    IF c.panicked THEN c
    ELSE LET with == WithLocalTab(c, entry.tab)
             t    == with.tabOf[entry.tab]
         IN InLocalWindow(WithPanes(with, t, entry.panes), t, entry.window)

SyncTabs(c, tabs) ==
    LET after[n \in 0 .. Len(tabs)] ==
            IF n = 0 THEN c ELSE SyncTab(after[n - 1], tabs[n])
    IN  after[Len(tabs)]

\* process_pane_list: what is not in the list is swept from the maps.
Synced(c, tabs) ==
    LET all  == SyncTabs(c, tabs)
        seen == Range(tabs)
    IN [all EXCEPT
          !.winOf = Restrict(@, DOMAIN @ \ (DOMAIN c.winOf \ {e.window : e \in seen})),
          !.tabOf = Restrict(@, DOMAIN @ \ (DOMAIN c.tabOf \ {e.tab : e \in seen})),
          !.paneOf = Restrict(@, DOMAIN @ \ (DOMAIN c.paneOf
                                              \ UNION {Range(e.panes) : e \in seen}))]

\* expire_stale_mappings.
Expired(c) ==
    LET full(t) == t \in DOMAIN c.tabs /\ c.tabs[t] # << >>
    IN [c EXCEPT
          !.paneOf = Restrict(@, {r \in DOMAIN @ : Known(c, @[r])}),
          !.tabOf  = Restrict(@, {t \in DOMAIN @ : full(@[t])}),
          !.winOf  = Restrict(@, {w \in DOMAIN @ : @[w] \in DOMAIN c.wins
                                                   /\ \E t \in c.wins[@[w]] : full(t)})]

\* Mutant: the pane is marked dead and left where it is.
MutPaneRemoved(c, p) == Expired([c EXCEPT !.panes[p].dead = TRUE])

\* ClientPane::process_unilateral of PaneRemoved.
PaneRemoved(c, p) == Expired(Prune([c EXCEPT !.panes[p].dead = TRUE]))

------------------------------------------------------------------------------
(* The tasks of the main thread.                                           *)

Ask(kind, call, pane, window) ==
    [kind |-> kind, call |-> call, pane |-> pane, window |-> window]

\* resync() up to its await; the list that comes back is for pane p, or for 0.
AskForList(p) == Ask("list", 0, p, 0)

\* The step leaves the client as c, which schedules tasks behind the rest.
Becomes(c, rest) ==
    /\ client' = [c EXCEPT !.tasks = << >>]
    /\ queue' = rest \o c.tasks

\* The activity of a spawn or split ends: what its like held back is pruned.
Released(c) == Scheduled([c EXCEPT !.busy = @ - 1], Task("prune", {}))

\* process_unilateral_inner_async: for a pane that is not there, or not in the
\* mux, the list is asked for first.
HearOfRemoval(p) ==
    LET here == {q \in Lookup(client, p) : Known(client, q)}
    IN IF ~ client.attached
       THEN Becomes(client, Tail(queue)) /\ UNCHANGED up
       ELSE IF here = {}
       THEN Becomes(Mapped(client, p), Tail(queue)) /\ up' = Append(up, AskForList(p))
       ELSE \E q \in here : Becomes(PaneRemoved(Mapped(client, p), q), Tail(queue))
                            /\ UNCHANGED up

GetList(task) ==
    LET c == Synced(client, task.tabs)
        here == {q \in Lookup(c, task.for) : Known(c, q)}
    IN /\ UNCHANGED up
       /\ IF task.for = 0 \/ c.panicked \/ ~ c.attached \/ here = {}
          THEN Becomes(c, Tail(queue))
          ELSE \E q \in here : Becomes(PaneRemoved(Mapped(c, task.for), q), Tail(queue))

\* ClientDomain::spawn behind its await: the tab is registered before it is
\* known whether its window is still there.
FinishSpawn(reply) ==
    LET w == calls[reply.call].about.window
        p == Len(client.panes) + 1
        t == client.made.tab + 1
        c == [NewPane(client, reply.pane) EXCEPT
                !.winOf = With(@, reply.window, w),
                !.tabs = With(@, t, <<p>>), !.made.tab = t,
                !.tabOf = With(@, reply.tab, t)]
        there == IF w \in DOMAIN c.wins THEN [c EXCEPT !.wins[w] = @ \cup {t}] ELSE c
    IN Becomes(Released(there), Tail(queue))

\* ClientDomain::split_pane behind its await: a refused insertion is ignored.
\* A tab that is gone may hold the pane still.
FinishSplit(reply) ==
    LET t == calls[reply.call].about.tab
        p == calls[reply.call].about.pane
        new == NewPane(client, reply.pane)
        into == IF Len(client.tabs[t]) < TabCapacity
                THEN [new EXCEPT !.tabs[t] = Append(@, Len(new.panes))]
                ELSE new
    IN IF t \in DOMAIN client.tabs
       THEN Becomes(Released(IF p \in Range(client.tabs[t]) THEN into ELSE client), Tail(queue))
       ELSE \E c \in {client, new} : Becomes(Released(c), Tail(queue))

Run ==
    /\ ~ client.panicked
    /\ queue # << >>
    /\ LET task == Head(queue)
           rest == Tail(queue)
       IN \/ /\ task.kind \in {"resync", "moved"}
             /\ up' = IF client.attached THEN Append(up, AskForList(0)) ELSE up
             /\ Becomes(client, rest)
          \/ /\ task.kind = "removed"
             /\ Becomes(Scheduled(client, [task EXCEPT !.kind = "hear"]), rest)
             /\ UNCHANGED up
          \/ task.kind = "hear" /\ HearOfRemoval(task.pane)
          \/ task.kind = "list" /\ GetList(task)
          \/ task.kind = "spawned" /\ FinishSpawn(task) /\ UNCHANGED up
          \/ task.kind = "split" /\ FinishSplit(task) /\ UNCHANGED up
          \/ /\ task.kind = "failed"
             /\ Becomes(IF calls[task.call].holds THEN Released(client) ELSE client, rest)
             /\ UNCHANGED up
          \/ /\ task.kind = "kill"
             /\ up' = Append(up, Ask("kill", 0, task.pane, 0))
             /\ Becomes(client, rest)
          \/ /\ task.kind = "remove"
             /\ Becomes(Prune(ForgetPanes(client, task.ids)), rest)
             /\ UNCHANGED up
          \/ task.kind = "prune" /\ Becomes(Prune(client), rest) /\ UNCHANGED up
    /\ UNCHANGED <<server, down, calls, asked, steps>>

\* The client thread: a reply completes its promise, a push spawns a task.
Receive ==
    /\ ~ client.panicked
    /\ down # << >>
    /\ queue' = Append(queue, Head(down))
    /\ down' = Tail(down)
    /\ UNCHANGED <<server, up, client, calls, asked, steps>>

------------------------------------------------------------------------------
(* What the user does.                                                     *)

UserStep ==
    /\ ~ client.panicked
    /\ steps.user < MaxUser
    /\ steps' = [steps EXCEPT !.user = @ + 1]
    /\ UNCHANGED <<server, down>>

\* The tabs in windows that hold pane p.
Homes(p) == {t \in Listed(client) : p \in Range(client.tabs[t])}
Shown == {p \in DOMAIN client.panes : Known(client, p) /\ Homes(p) # {}}
Remotes(ps) == {client.panes[p].remote : p \in ps}

ClosePane ==
    /\ UserStep
    /\ \E p \in Shown :
          /\ Becomes(Prune(ForgetPanes(client, {p})), queue)
          /\ asked' = asked \cup Remotes({p})
    /\ UNCHANGED <<up, calls>>

CloseTab ==
    /\ UserStep
    /\ \E t \in Listed(client) :
          /\ Becomes(Prune(ForgetTabs(client, {t})), queue)
          /\ asked' = asked \cup Remotes(Range(client.tabs[t]))
    /\ UNCHANGED <<up, calls>>

CloseWindow ==
    /\ UserStep
    /\ \E w \in DOMAIN client.wins : Becomes(KillWindow(client, w), queue)
    /\ UNCHANGED <<up, calls, asked>>

Detach ==
    /\ UserStep
    /\ client.attached
    /\ Becomes(Detached(client), queue)
    /\ UNCHANGED <<up, calls, asked>>

\* What is asked of the server, and the local ids that it is about.  A spawn
\* and a split hold an activity until they end.
Call(kind, pane, window, local, holds) ==
    /\ up' = Append(up, Ask(kind, steps'.user, pane, window))
    /\ calls' = With(calls, steps'.user, [about |-> local, holds |-> holds])
    /\ client' = [client EXCEPT !.busy = IF holds THEN @ + 1 ELSE @]
    /\ UNCHANGED <<queue, asked>>

RemoteOf(w) == {r \in DOMAIN client.winOf : client.winOf[r] = w}

Spawn ==
    /\ UserStep
    /\ client.attached
    /\ \E w \in DOMAIN client.wins :
          /\ \E t \in client.wins[w] : client.tabs[t] # << >>
          /\ \E r \in IF RemoteOf(w) = {} THEN {0} ELSE RemoteOf(w) :
                Call("spawn", 0, r, [window |-> w], TRUE)

Split ==
    /\ UserStep
    /\ client.attached
    /\ \E p \in Shown : \E t \in Homes(p) :
          Call("split", client.panes[p].remote, 0, [tab |-> t, pane |-> p], TRUE)

MovePaneToNewTab ==
    /\ UserStep
    /\ client.attached
    /\ \E p \in Shown, r \in DOMAIN client.winOf \cup {0} :
          Call("move", client.panes[p].remote, r, << >>, FALSE)

------------------------------------------------------------------------------
\* finish_attach: the domain is attached into a window that is there already,
\* to a server with one tab of one pane or of two.
Init ==
    /\ \E panes \in {<<1>>, <<1, 2>>} :
         /\ server = [trees |-> [t \in {1} |-> panes], window |-> [t \in {1} |-> 1],
                      leaving |-> {}, spawning |-> {}, moved |-> FALSE,
                      made |-> [pane |-> Len(panes), tab |-> 1, window |-> 1]]
         /\ client = Synced(
              [panes |-> << >>, tabs |-> << >>, wins |-> [w \in {1} |-> {}], paneOf |-> << >>,
               tabOf |-> << >>, winOf |-> << >>, attached |-> TRUE, panicked |-> FALSE,
               busy |-> 0, made |-> [tab |-> 0, window |-> 1], primary |-> 1,
               tasks |-> << >>], Listing.tabs)
    /\ up = << >> /\ down = << >> /\ queue = << >>
    /\ calls = << >> /\ asked = {} /\ steps = [server |-> 0, user |-> 0]

Next ==
    \/ SpawnElsewhere \/ SplitElsewhere \/ MoveElsewhere \/ Resized \/ Exit
    \/ \E p \in server.leaving : Forget(p)
    \/ Serve \/ \E r \in server.spawning : Answer(r)
    \/ Receive \/ Run
    \/ ClosePane \/ CloseTab \/ CloseWindow \/ Detach
    \/ Spawn \/ Split \/ MovePaneToNewTab

Spec == Init /\ [][Next]_vars

------------------------------------------------------------------------------

Quiet ==
    /\ up = << >> /\ down = << >> /\ queue = << >>
    /\ server.spawning = {} /\ server.leaving = {}

(* "Some other client has manipulated the mux topology; we need to         *)
(* re-sync" (client.rs:145): once nothing is under way, a client that is   *)
(* attached shows each of the server's tabs, with the same panes, in the   *)
(* window for its window.                                                  *)
EveryPaneIsShown ==
    (Quiet /\ client.attached /\ ~ client.panicked) =>
      \A t \in DOMAIN server.trees :
        /\ t \in DOMAIN client.tabOf
        /\ server.window[t] \in DOMAIN client.winOf
        /\ client.tabOf[t] \in client.wins[client.winOf[server.window[t]]]
        /\ LET tree == client.tabs[client.tabOf[t]]
           IN [i \in DOMAIN tree |-> client.panes[tree[i]].remote] = server.trees[t]

(* The other way round: what it shows is on the server, alive and in the   *)
(* mux, and no window is empty.                                            *)
OnlyLivePanesAreShown ==
    (Quiet /\ client.attached /\ ~ client.panicked) =>
      /\ \A t \in Listed(client) : \A p \in Range(client.tabs[t]) :
           /\ Known(client, p) /\ ~ client.panes[p].dead
           /\ client.panes[p].remote \in RemotePanes
      /\ \A w \in DOMAIN client.wins : client.wins[w] # {}

(* A remote pane has one pane in the client's mux, whether it came by a    *)
(* list, by the reply to a spawn or a split, or by both in either order.   *)
OneLocalPaneEach ==
    \A p, q \in DOMAIN client.panes :
      Known(client, p) /\ Known(client, q) /\ client.panes[p].remote = client.panes[q].remote
        => p = q

(* And it shows no other tabs than the server's, as long as no pane moved  *)
(* there.  A tab that lost its last pane to another one stays in its        *)
(* window, with the pane that is now in two tabs, and with what is split    *)
(* from it: process_pane_list (domain.rs:694) only forgets what it stood    *)
(* for.                                                                     *)
NoOtherTabsAreShown ==
    (Quiet /\ client.attached /\ ~ client.panicked /\ ~ server.moved) =>
      \A t \in Listed(client) :
        \E r \in DOMAIN server.trees : r \in DOMAIN client.tabOf /\ t = client.tabOf[r]

(* All tabs and panes of the server in their places, and no others but for  *)
(* what a move leaves behind.                                               *)
MirrorsTheServer ==
    /\ EveryPaneIsShown
    /\ OnlyLivePanesAreShown
    /\ OneLocalPaneEach
    /\ NoOtherTabsAreShown

(* "We only want to ask the server to kill the pane if the user explicitly *)
(* requested it to die" (clientpane.rs:496): a pane that is on the server  *)
(* is only killed if the user closed it or its tab.                        *)
OnlyClosedPanesAreKilled ==
    \A m \in Range(up) \cup Range(queue) :
      m.kind = "kill" /\ m.pane \in RemotePanes => m.pane \in asked

(* "no such window!?" (domain.rs:624): the window for a remote window is   *)
(* there when a list is processed.                                         *)
MappedWindowIsThere == ~ client.panicked

=============================================================================
