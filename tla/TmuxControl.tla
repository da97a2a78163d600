----------------------------- MODULE TmuxControl -----------------------------
(***************************************************************************)
(* tmux control mode (mux/src/tmux.rs, tmux_commands.rs, tmux_pty.rs).     *)
(* The parser thread of the pane that tmux runs in gets tmux's events,     *)
(* among them the replies to commands, which carry no name: one command    *)
(* is sent at a time, and a reply is for the command at the front of       *)
(* cmd_queue.  The main thread sends the commands, and processes their     *)
(* replies as tasks.  Two locks matter between the threads: cmd_queue,     *)
(* which the main thread holds while it makes up a command, and            *)
(* remote_panes, which the parser thread holds while it handles %exit.     *)
(*                                                                         *)
(* Output, cursors, focus, titles and what a pane looks like are left out; *)
(* commands for them are "keys", which change nothing here.                *)
(***************************************************************************)
EXTENDS Integers, Functions, SequencesExt

CONSTANT
    MaxSteps    \* bound: what the user does and what tmux does by itself

BoundsAssumption == MaxSteps \in Nat

VARIABLES
    tmux,       \* [layouts: window -> layout, made: ids so far, gone: BOOLEAN]
    lines,      \* commands written to tmux, not executed yet
    events,     \* what tmux wrote, not parsed yet
    mode,       \* TmuxDomainState::state
    cmds,       \* cmd_queue
    tabs,       \* gui_tabs: window -> [layout: its layout_csum, panes]
    splits,     \* pending_splits: the windows and panes to split
    attach,     \* [session, window, done]: tmux_session, gui_window, attach_state
    parser,     \* the parser thread: "idle", in a "batch", or in "exit"
    sender,     \* send_next_command: "idle", "checked" the state, "sending", "sent"
    tasks,      \* tasks of the main thread
    resized,    \* history: a resize was sent
    forced,     \* history: tmux mode was told to quit
    steps       \* how much has happened so far

tmuxVars == <<tmux, lines, steps>>
mainVars == <<attach, sender>>
vars == <<tmuxVars, events, mode, cmds, tabs, splits, mainVars, parser, tasks,
          resized, forced>>

------------------------------------------------------------------------------
(* Layouts stand for their checksums: the panes of a window and their size. *)

NoLayout == [panes |-> {}, size |-> 0]
Command(kind) == [kind |-> kind, window |-> 0, pane |-> 0, layout |-> NoLayout]
ForWindow(kind, w) == [Command(kind) EXCEPT !.window = w]
ForPane(kind, w, p) == [Command(kind) EXCEPT !.window = w, !.pane = p]
WithLayout(kind, w, layout) == [ForWindow(kind, w) EXCEPT !.layout = layout]

\* What kind of text a command is answered with.
Reply(cmd, text, layouts) ==
    [kind |-> "reply", for |-> cmd, text |-> text, layouts |-> layouts]
Note(kind, w, pane) == [kind |-> kind, window |-> w, pane |-> pane]
LayoutChanged(w, layout) == [kind |-> "layout", window |-> w, layout |-> layout]

Send == [kind |-> "send"]

------------------------------------------------------------------------------
(* tmux.                                                                   *)

Windows == DOMAIN tmux.layouts
PanesOf(layouts) == UNION {layouts[w].panes : w \in DOMAIN layouts}

With(layouts, w, layout) ==
    [v \in DOMAIN layouts \cup {w} |-> IF v = w THEN layout ELSE layouts[v]]

NewWindowIn(t) ==
    [t EXCEPT !.layouts = With(@, t.made.window + 1, [panes |-> {t.made.pane + 1}, size |-> 0]),
              !.made = [window |-> @.window + 1, pane |-> @.pane + 1]]

SplitIn(t, w) ==
    [t EXCEPT !.layouts[w].panes = @ \cup {t.made.pane + 1}, !.made.pane = @ + 1]

\* In which order tmux tells of a split differs.
SplitEvents(t, w) ==
    LET layout == LayoutChanged(w, t.layouts[w])
        active == Note("pane", w, t.made.pane)
    IN {<<layout, active>>, <<active, layout>>}

\* A line is executed, and answered before the events that it causes.
Execute ==
    /\ lines # << >>
    /\ ~ tmux.gone
    /\ LET cmd == Head(lines)
           answer(text, layouts) == <<Reply(cmd, text, layouts)>>
       IN \/ /\ cmd.kind \in {"commands", "done", "keys"}
             /\ events' = events \o answer(cmd.kind, << >>)
             /\ UNCHANGED tmux
          \/ /\ cmd.kind = "windows"
             /\ events' = events \o answer("windows", tmux.layouts)
             /\ UNCHANGED tmux
          \/ /\ cmd.kind \in {"panes", "prune"} /\ cmd.window \in Windows
             /\ events' = events \o answer("panes", Restrict(tmux.layouts, {cmd.window}))
             /\ UNCHANGED tmux
          \/ /\ cmd.kind = "new"
             /\ tmux' = NewWindowIn(tmux)
             /\ events' = events \o answer("keys", << >>)
                                 \o <<Note("add", tmux'.made.window, 0)>>
          \/ /\ cmd.kind = "split" /\ cmd.pane \in PanesOf(tmux.layouts)
             /\ tmux' = SplitIn(tmux, cmd.window)
             /\ \E told \in SplitEvents(tmux', cmd.window) :
                   events' = events \o answer("keys", << >>) \o told
          \/ /\ cmd.kind = "resize" /\ cmd.pane \in PanesOf(tmux.layouts)
             /\ tmux' = [tmux EXCEPT !.layouts[cmd.window].size = 1 - @]
             /\ events' = events \o answer("keys", << >>)
                          \o <<LayoutChanged(cmd.window, tmux'.layouts[cmd.window])>>
          \/ /\ cmd.kind \in {"panes", "prune"} => cmd.window \notin Windows
             /\ cmd.kind \in {"split", "resize"} => cmd.pane \notin PanesOf(tmux.layouts)
             /\ cmd.kind \in {"panes", "prune", "split", "resize"}
             /\ events' = events \o answer("error", << >>)
             /\ UNCHANGED tmux
    /\ lines' = Tail(lines)
    /\ UNCHANGED <<mode, cmds, tabs, splits, mainVars, parser, tasks, resized, forced, steps>>

TmuxStep ==
    /\ ~ tmux.gone
    /\ steps < MaxSteps
    /\ steps' = steps + 1
    /\ UNCHANGED <<lines, mode, cmds, tabs, splits, mainVars, parser, tasks, resized, forced>>

NewElsewhere ==
    /\ TmuxStep
    /\ tmux' = NewWindowIn(tmux)
    /\ events' = Append(events, Note("add", tmux'.made.window, 0))

SplitElsewhere ==
    /\ TmuxStep
    /\ \E w \in Windows :
          /\ tmux' = SplitIn(tmux, w)
          /\ \E told \in SplitEvents(tmux', w) : events' = events \o told

\* The program of a pane ends, and with the last one tmux.
Exit ==
    /\ TmuxStep
    /\ \E w \in Windows : \E p \in tmux.layouts[w].panes :
          LET left == [tmux EXCEPT !.layouts[w].panes = @ \ {p}]
              without == [tmux EXCEPT !.layouts = Restrict(@, Windows \ {w})]
          IN \/ /\ left.layouts[w].panes # {}
                /\ tmux' = left
                /\ events' = Append(events, LayoutChanged(w, left.layouts[w]))
             \/ /\ left.layouts[w].panes = {} /\ Windows # {w}
                /\ tmux' = without
                /\ events' = Append(events, Note("close", w, 0))
             \/ /\ left.layouts[w].panes = {} /\ Windows = {w}
                /\ tmux' = [without EXCEPT !.gone = TRUE]
                /\ events' = Append(events, Note("exit", 0, 0))

\* The user detaches, in tmux.
Detach ==
    /\ TmuxStep
    /\ tmux' = [tmux EXCEPT !.gone = TRUE]
    /\ events' = Append(events, Note("exit", 0, 0))

------------------------------------------------------------------------------
(* The parser thread: advance.                                             *)

CmdQueueFree == sender \notin {"sending", "sent"}
RemotePanesFree == parser # "exit"

\* Event::Guarded.
HandleReply(reply) ==
    \/ /\ mode = "initial"
       /\ mode' = "idle"
       /\ UNCHANGED <<cmds, tasks>>
    \/ /\ mode = "waiting"
       /\ CmdQueueFree
       /\ cmds # << >>
       /\ mode' = "idle"
       /\ cmds' = Tail(cmds)
       /\ tasks' = Append(tasks, [kind |-> "process", cmd |-> Head(cmds), reply |-> reply])
    \/ /\ mode \in {"idle", "exit"} \/ (mode = "waiting" /\ CmdQueueFree /\ cmds = << >>)
       /\ UNCHANGED <<mode, cmds, tasks>>

Enqueue(cmd) ==
    /\ CmdQueueFree
    /\ cmds' = Append(cmds, cmd)

\* Event::WindowPaneChanged: a pane that is not known is the one of the oldest
\* split.
HandlePaneChanged(w, p) ==
    IF w \in DOMAIN tabs /\ p \notin tabs[w].panes /\ splits # << >>
    THEN /\ splits' = Tail(splits)
         /\ tasks' = Append(tasks, [kind |-> "split", pane |-> p, request |-> Head(splits)])
    ELSE UNCHANGED <<splits, tasks>>

HandleEvent ==
    /\ parser \in {"idle", "batch"}
    /\ events # << >>
    /\ LET e == Head(events) IN
         \/ /\ e.kind = "reply" /\ HandleReply(e)
            /\ UNCHANGED <<tabs, splits, attach>>
         \/ /\ e.kind = "layout" /\ Enqueue(WithLayout("prune", e.window, e.layout))
            /\ UNCHANGED <<mode, tasks, tabs, splits, attach>>
         \/ /\ e.kind = "session" /\ Enqueue(Command("commands"))
            /\ attach' = [attach EXCEPT !.session = TRUE]
            /\ UNCHANGED <<mode, tasks, tabs, splits>>
         \/ /\ e.kind = "add"
            /\ IF attach.window /\ attach.session
                 THEN Enqueue(ForWindow("windows", e.window)) ELSE UNCHANGED cmds
            /\ UNCHANGED <<mode, tasks, tabs, splits, attach>>
         \/ /\ e.kind = "close"
            /\ tabs' = Restrict(tabs, DOMAIN tabs \ {e.window})
            /\ UNCHANGED <<mode, cmds, tasks, splits, attach>>
         \/ /\ e.kind = "pane" /\ HandlePaneChanged(e.window, e.pane)
            /\ UNCHANGED <<mode, cmds, tabs, attach>>
         \/ /\ e.kind = "exit" /\ mode' = "exit"
            /\ UNCHANGED <<cmds, tasks, tabs, splits, attach>>
    /\ parser' = IF Head(events).kind = "exit" THEN "exit" ELSE "batch"
    /\ events' = Tail(events)
    /\ UNCHANGED <<tmuxVars, sender, resized, forced>>

\* Event::Exit goes on with remote_panes in its hands.
FinishExit ==
    /\ parser = "exit"
    /\ CmdQueueFree
    /\ cmds' = << >>
    /\ tasks' = Append(tasks, [kind |-> "force"])
    /\ parser' = "idle"
    /\ UNCHANGED <<tmuxVars, events, mode, tabs, splits, mainVars, resized, forced>>

\* Mutant: what the events queued is left to the next command to send.
MutEndBatch ==
    /\ parser = "batch"
    /\ CmdQueueFree
    /\ parser' = "idle"
    /\ UNCHANGED <<tmuxVars, events, mode, cmds, tabs, splits, mainVars, tasks, resized, forced>>

\* The events of one call of advance are handled.
EndBatch ==
    /\ parser = "batch"
    /\ CmdQueueFree
    /\ tasks' = IF mode = "idle" /\ cmds # << >> THEN Append(tasks, Send) ELSE tasks
    /\ parser' = "idle"
    /\ UNCHANGED <<tmuxVars, events, mode, cmds, tabs, splits, mainVars, resized, forced>>

------------------------------------------------------------------------------
(* The main thread: send_next_command.                                     *)

\* Mutant: it sends without a look at the state.
MutCheckState ==
    /\ sender = "idle"
    /\ tasks # << >>
    /\ Head(tasks) = Send
    /\ sender' = "checked"
    /\ tasks' = Tail(tasks)
    /\ UNCHANGED <<tmuxVars, events, mode, cmds, tabs, splits, attach, parser, resized, forced>>

CheckState ==
    /\ sender = "idle"
    /\ tasks # << >>
    /\ Head(tasks) = Send
    /\ sender' = IF mode = "idle" THEN "checked" ELSE "idle"
    /\ tasks' = Tail(tasks)
    /\ UNCHANGED <<tmuxVars, events, mode, cmds, tabs, splits, attach, parser, resized, forced>>

LockQueue ==
    /\ sender = "checked"
    /\ sender' = "sending"
    /\ UNCHANGED <<tmuxVars, events, mode, cmds, tabs, splits, attach, parser, tasks,
                   resized, forced>>

\* get_command is empty: the window is not known, or its layout is; nothing is
\* resized before the attachment is done.
SaysNothing(cmd) ==
    \/ cmd.kind \in {"panes", "prune", "resize"} /\ cmd.window \notin DOMAIN tabs
    \/ cmd.kind = "prune" /\ tabs[cmd.window].layout = cmd.layout
    \/ cmd.kind = "resize" /\ ~ attach.done

\* A resize takes the lock of remote_panes, and is two lines.
SendFront ==
    /\ sender = "sending"
    /\ IF cmds = << >>
       THEN sender' = "idle" /\ UNCHANGED <<cmds, tabs, lines, resized>>
       ELSE LET cmd == Head(cmds) IN
         /\ cmd.kind = "resize" /\ attach.done => RemotePanesFree
         /\ IF SaysNothing(cmd)
            THEN cmds' = Tail(cmds) /\ UNCHANGED <<sender, tabs, lines, resized>>
            ELSE /\ lines' = lines \o (IF cmd.kind = "resize" THEN <<Command("keys"), cmd>>
                                       ELSE <<cmd>>)
                 /\ tabs' = IF cmd.kind \in {"panes", "prune"}
                            THEN [tabs EXCEPT ![cmd.window].layout = cmd.layout] ELSE tabs
                 /\ sender' = "sent"
                 /\ resized' = (resized \/ cmd.kind = "resize")
                 /\ UNCHANGED cmds
    /\ UNCHANGED <<tmux, steps, events, mode, splits, attach, parser, tasks, forced>>

\* The state is set behind the write, whatever it has become meanwhile.
AwaitReply ==
    /\ sender = "sent"
    /\ mode' = "waiting"
    /\ sender' = "idle"
    /\ UNCHANGED <<tmuxVars, events, cmds, tabs, splits, attach, parser, tasks,
                   resized, forced>>

------------------------------------------------------------------------------
(* The main thread: process_result, and a split that goes on.              *)

\* remove_detached_pane: a tab without panes goes as well.
RemoveDetached(w, panes) ==
    IF w \notin DOMAIN tabs THEN tabs
    ELSE IF tabs[w].panes \cap panes = {} THEN Restrict(tabs, DOMAIN tabs \ {w})
    ELSE [tabs EXCEPT ![w].panes = @ \cap panes]

\* Mutant: the layout that caused the list stands for the list.
MutPanesListed(cmd, reply) == cmd.layout.panes

PanesListed(cmd, reply) == PanesOf(reply.layouts)

\* sync_window_state: the tabs of the windows listed, and what is asked next.
Listed(cmd, reply) ==
    {w \in DOMAIN reply.layouts : cmd.window \in {0, w}}

WindowTabs(ws, reply) ==
    tabs @@ [w \in ws |-> [layout |-> reply.layouts[w], panes |-> reply.layouts[w].panes]]

NextCommands(cmd, ws, reply) ==
    LET captured == IF cmd.window = 0 THEN UNION {reply.layouts[w].panes : w \in ws} ELSE {}
    IN [i \in 1 .. Cardinality(captured) |-> Command("keys")]
       \o SetToSeq({WithLayout("panes", w, reply.layouts[w]) : w \in ws})
       \o (IF attach.done THEN << >> ELSE <<Command("done")>>)

\* A reply that is not of its command's kind is text that does not parse,
\* unless it is empty and so lists nothing.
Process(cmd, reply) ==
    \/ /\ cmd.kind = "commands" /\ reply.text # "error"
       /\ cmds' = Append(cmds, Command("windows"))
       /\ tasks' = Append(Tail(tasks), Send)
       /\ UNCHANGED <<tabs, attach>>
    \/ /\ cmd.kind = "windows" /\ reply.text \in {"windows", "keys"}
       /\ tabs' = WindowTabs(Listed(cmd, reply), reply)
       /\ attach' = [attach EXCEPT !.window = TRUE]
       /\ cmds' = cmds \o NextCommands(cmd, Listed(cmd, reply), reply)
       /\ tasks' = Append(Tail(tasks), Send)
    \/ /\ cmd.kind = "prune" /\ reply.text \in {"panes", "keys"}
       /\ tabs' = RemoveDetached(cmd.window, PanesListed(cmd, reply))
       /\ tasks' = Tail(tasks)
       /\ UNCHANGED <<cmds, attach>>
    \/ /\ cmd.kind = "done" /\ reply.text # "error"
       /\ attach' = [attach EXCEPT !.done = TRUE]
       /\ tasks' = Tail(tasks)
       /\ UNCHANGED <<cmds, tabs>>
    \/ /\ \/ cmd.kind \in {"commands", "done"} /\ reply.text = "error"
          \/ cmd.kind = "windows" /\ reply.text \notin {"windows", "keys"}
          \/ cmd.kind = "prune" /\ reply.text \notin {"panes", "keys"}
          \/ cmd.kind \in {"panes", "keys", "new", "split", "resize"}
       /\ tasks' = Tail(tasks)
       /\ UNCHANGED <<cmds, tabs, attach>>

\* TmuxDomainState::split_pane, once the pane of the split is known.
FinishSplit(w, old, p) ==
    /\ tabs' = IF w \in DOMAIN tabs /\ old \in tabs[w].panes
               THEN [tabs EXCEPT ![w].panes = @ \cup {p}] ELSE tabs
    /\ tasks' = Tail(tasks)
    /\ UNCHANGED <<cmds, attach>>

RunTask ==
    /\ sender = "idle"
    /\ tasks # << >>
    /\ LET task == Head(tasks) IN
         \/ task.kind = "process" /\ RemotePanesFree /\ Process(task.cmd, task.reply)
            /\ UNCHANGED forced
         \/ task.kind = "split" /\ RemotePanesFree
            /\ FinishSplit(task.request.window, task.request.pane, task.pane)
            /\ UNCHANGED forced
         \/ task.kind = "force" /\ forced' = TRUE /\ tasks' = Tail(tasks)
            /\ UNCHANGED <<cmds, tabs, attach>>
    /\ UNCHANGED <<tmuxVars, events, mode, splits, sender, parser, resized>>

------------------------------------------------------------------------------
(* What the user does in the program.                                      *)

UserStep ==
    /\ steps < MaxSteps
    /\ steps' = steps + 1
    /\ UNCHANGED <<tmux, lines, events, mode, tabs, mainVars, parser, resized, forced>>

Ask(cmd) ==
    /\ cmds' = Append(cmds, cmd)
    /\ tasks' = Append(tasks, Send)

\* Domain::spawn.
Spawn ==
    /\ UserStep
    /\ sender = "idle"
    /\ Ask(Command("new"))
    /\ UNCHANGED splits

\* Domain::split_pane.
Split ==
    /\ UserStep
    /\ sender = "idle" /\ RemotePanesFree
    /\ \E w \in DOMAIN tabs : \E p \in tabs[w].panes :
          /\ Ask(ForPane("split", w, p))
          /\ splits' = Append(splits, [window |-> w, pane |-> p])

\* TmuxPtyWriter::write, in the thread that writes to the pane.
Keys ==
    /\ UserStep
    /\ CmdQueueFree
    /\ DOMAIN tabs # {}
    /\ Ask(Command("keys"))
    /\ UNCHANGED splits

\* TmuxPty::resize.
Resize ==
    /\ UserStep
    /\ sender = "idle" /\ RemotePanesFree
    /\ \E w \in DOMAIN tabs : \E p \in tabs[w].panes : Ask(ForPane("resize", w, p))
    /\ UNCHANGED splits

------------------------------------------------------------------------------
\* tmux greets with an empty reply and tells of the session, with one window.
Init ==
    /\ tmux = [layouts |-> With(<< >>, 1, [panes |-> {1}, size |-> 0]),
               made |-> [window |-> 1, pane |-> 1], gone |-> FALSE]
    /\ lines = << >>
    /\ events = <<Reply(Command("keys"), "keys", << >>), Note("session", 0, 0)>>
    /\ mode = "initial" /\ cmds = << >> /\ tabs = << >> /\ splits = << >>
    /\ attach = [session |-> FALSE, window |-> FALSE, done |-> FALSE]
    /\ parser = "idle" /\ sender = "idle" /\ tasks = << >>
    /\ resized = FALSE /\ forced = FALSE /\ steps = 0

Parse == HandleEvent \/ FinishExit \/ EndBatch
Main == CheckState \/ LockQueue \/ SendFront \/ AwaitReply \/ RunTask

Next ==
    \/ Execute \/ NewElsewhere \/ SplitElsewhere \/ Exit \/ Detach
    \/ Parse \/ Main
    \/ Spawn \/ Split \/ Keys \/ Resize

\* The threads go on while they can, and tmux answers.
Spec == Init /\ [][Next]_vars /\ WF_vars(Execute) /\ WF_vars(Parse) /\ WF_vars(Main)

------------------------------------------------------------------------------
(* A reply carries no name of its command: it is processed by the command  *)
(* it answers (tmux.rs, Event::Guarded), until a resize, which is two      *)
(* commands to tmux and one in the queue, leaves a reply over.             *)
RepliesReachTheirCommands ==
    ~ resized =>
      \A i \in DOMAIN tasks :
        tasks[i].kind = "process" => tasks[i].reply.for = tasks[i].cmd

(* What remove_detached_pane and WindowClose take out of a tab is gone in  *)
(* tmux, although they go by a list, or an event, of some time ago.        *)
LivePanesStay ==
    [][ ~ resized =>
          \A w \in DOMAIN tabs : \A p \in tabs[w].panes \cap PanesOf(tmux.layouts) :
            w \in DOMAIN tabs' /\ p \in tabs'[w].panes ]_vars

\* The answer came before send_next_command set the state that awaits it, and
\* was dropped.
AnswerMissed ==
    /\ mode = "waiting" /\ lines = << >>
    /\ \A i \in DOMAIN events : events[i].kind # "reply"

(* Whichever thread queued them, at any point of the other's work, commands *)
(* are sent while tmux is there (tmux.rs, schedule_send_next_command): again *)
(* and again the queue is empty, and nothing but a missed answer stops it.   *)
QueueMovesOn == []<>(cmds = << >> \/ tmux.gone \/ AnswerMissed)

(* "send pending commands to tmux" (tmux.rs): all of them.                   *)
QueueEmpties == []<>(cmds = << >> \/ tmux.gone)

(* "Force to quit the tmux mode" (tmux.rs): once tmux said %exit, it is told *)
(* to.                                                                       *)
ExitIsForced == tmux.gone ~> forced

=============================================================================
