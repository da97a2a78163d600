----------------------------- MODULE SshSession -----------------------------
(***************************************************************************)
(* Panes over ssh: RemoteSshDomain (mux/src/ssh.rs) and the thread of a    *)
(* session (wezterm-ssh/src/sessioninner.rs, session.rs, pty.rs).          *)
(*                                                                         *)
(* The first pane of a session is shown before there is a connection.  A   *)
(* thread of its own, connect_ssh_session, asks the user in it what the    *)
(* connection needs to know, requests the pty, and hands its ends to       *)
(* wrappers that the pane, its reader and the waiter for its process have  *)
(* held from the beginning.  Later panes use the session that the domain   *)
(* remembers, and are made once their pty is there.                        *)
(*                                                                         *)
(* The thread of a session goes round: it looks at every channel, serves   *)
(* the requests of a bounded queue and polls the socket pairs that join it *)
(* to the panes.                                                           *)
(*                                                                         *)
(* Panes are numbered in the order they are spawned in, a session is named *)
(* by the pane it was made for.  Sizes are numbers of resizes, input and   *)
(* output are counted in items.  stdout and stderr are one stream, as they *)
(* share a socket; exec, sftp and the forwarding of an agent are left out. *)
(***************************************************************************)
EXTENDS Naturals, SequencesExt, FiniteSetsExt

CONSTANTS
    MaxPanes,   \* bound: the panes that are spawned
    QueueSize,  \* capacity of the queue of requests (8)
    Buffer,     \* items in a socket, in a DescriptorState and in the library
    MaxEvents   \* bound: what users, programs and the network do

ASSUME BoundsAssumption == {MaxPanes, QueueSize, Buffer, MaxEvents} \subseteq Nat \ {0}

Panes == 1 .. MaxPanes

None == 0

VARIABLES
    domain,     \* RemoteSshDomain::session: the session of the last connection
    session,    \* SessionInner, and the channels to and from it
    pane,       \* LocalPane, its threads, and the task that spawns it
    channel,    \* ChannelInfo, and the library's end of the channel
    pipe,       \* what is in the sockets for stdin and for stdout
    written,    \* what the remote program wrote, and what the pane has shown
    events      \* how much has happened so far

vars == <<domain, session, pane, channel, pipe, written, events>>

NewSession ==
    [at |-> "connecting", authenticated |-> FALSE, requests |-> << >>, dropped |-> FALSE,
     seen |-> FALSE, broken |-> FALSE]

NewPane ==
    [spawn |-> "none", via |-> None, request |-> "none", connector |-> "none",
     waiter |-> "none", pendingKill |-> FALSE, reader |-> "none", pty |-> "none",
     size |-> 0, refused |-> FALSE, gone |-> FALSE]

\* stdin and stdout: the file descriptors; input and output: their buffers.
NewChannel ==
    [open |-> FALSE, stdin |-> FALSE, stdout |-> FALSE, input |-> 0, output |-> 0,
     exit |-> "none", exited |-> FALSE, size |-> 0,
     closed |-> FALSE, arrived |-> 0, eof |-> FALSE, status |-> FALSE]

Init ==
    /\ domain = None
    /\ session = [n \in Panes |-> [NewSession EXCEPT !.at = "none"]]
    /\ pane = [p \in Panes |-> NewPane]
    /\ channel = [p \in Panes |-> NewChannel]
    /\ pipe = [p \in Panes |-> [in |-> 0, out |-> 0]]
    /\ written = [p \in Panes |-> [program |-> 0, shown |-> 0]]
    /\ events = 0

Counts(n) == events + n <= MaxEvents /\ events' = events + n

Happens == Counts(1)

------------------------------------------------------------------------------
(* Requests to a session.  A queue takes none when it is full or its       *)
(* session has ended.                                                      *)

Request(op, p) == [op |-> op, pane |-> p, size |-> 0]

Takes(n) == session[n].at # "ended" /\ Len(session[n].requests) < QueueSize

\* SessionSender::try_send.
TrySend(s, n, request) ==
    IF s[n].at = "ended" \/ Len(s[n].requests) >= QueueSize THEN s
    ELSE [s EXCEPT ![n].requests = Append(@, request)]

\* The drop of any clone of a Session tells the session so, if it can.
DropSession(s, n) == TrySend(s, n, Request("dropped", n))

\* Session::request_pty, of the task that spawns a pane or of its connector.
RequestPty(p) ==
    LET n == pane[p].via IN
    /\ pane[p].request = "sending"
    /\ \/ /\ Takes(n)
          /\ session' = [session EXCEPT ![n].requests = Append(@, Request("pty", p))]
          /\ pane' = [pane EXCEPT ![p].request = "sent"]
       \/ /\ session[n].at = "ended"
          /\ pane' = [pane EXCEPT ![p].request = "dead"]
          /\ UNCHANGED session
    /\ UNCHANGED <<domain, channel, pipe, written, events>>

------------------------------------------------------------------------------
(* Spawning a pane.                                                         *)

\* The session replaces the one that the domain remembered.
StartNewSession(p) ==
    /\ domain' = p
    /\ session' = LET made == [session EXCEPT ![p] = NewSession]
                  IN IF domain = None THEN made ELSE DropSession(made, domain)
    /\ pane' = [pane EXCEPT ![p].spawn = "open", ![p].via = p, ![p].request = "none",
                            ![p].connector = "events", ![p].waiter = "child",
                            ![p].reader = "dialog"]
    /\ UNCHANGED <<channel, pipe, written>>

SpawnPane(p) ==
    /\ pane[p].spawn = "none"
    /\ \A q \in 1 .. p - 1 : pane[q].spawn # "none"
    /\ Counts(p)
    /\ \/ domain = None /\ StartNewSession(p)
       \/ /\ domain # None
          /\ pane' = [pane EXCEPT ![p].spawn = "asking", ![p].via = domain,
                                  ![p].request = "sending"]
          /\ UNCHANGED <<domain, session, channel, pipe, written>>

\* The task of spawn_pane goes on, and drops its clone of the session.
FinishSpawn(p) ==
    /\ pane[p].spawn = "asking"
    /\ \/ pane[p].request = "dead" /\ StartNewSession(p)
       \/ /\ pane[p].request = "pty"
          /\ pane' = [pane EXCEPT ![p].spawn = "open", ![p].waiter = "status",
                                  ![p].reader = "session", ![p].pty = "connected"]
          /\ session' = DropSession(session, pane[p].via)
          /\ UNCHANGED <<domain, channel, pipe, written>>
       \/ /\ pane[p].request \in {"error", "lost"}
          /\ pane' = [pane EXCEPT ![p].spawn = "failed"]
          /\ session' = DropSession(session, pane[p].via)
          /\ UNCHANGED <<domain, channel, pipe, written>>
    /\ UNCHANGED events

------------------------------------------------------------------------------
(* connect_ssh_session, in a thread of the first pane of a session.         *)

\* The thread returns; what it still held is dropped, its Session as well.
EndConnector(p) ==
    /\ pane' = [pane EXCEPT ![p].connector = "ended"]
    /\ session' = DropSession(session, p)

\* The user answers a prompt or cancels it; a pane that is gone reads as empty.
Answer(p) ==
    /\ pane[p].connector = "events" /\ session[p].at = "asking"
    /\ \/ session' = [session EXCEPT ![p].at = "answered"] /\ UNCHANGED pane
       \/ ~ pane[p].gone /\ EndConnector(p)
    /\ UNCHANGED <<domain, channel, pipe, written, events>>

HearEvent(p) ==
    /\ pane[p].connector = "events"
    /\ \/ /\ session[p].authenticated
          /\ pane' = [pane EXCEPT ![p].connector = "requesting", ![p].request = "sending"]
          /\ channel' = [channel EXCEPT ![p].size = pane[p].size]
          /\ UNCHANGED session
       \/ /\ session[p].at = "ended" /\ ~ session[p].authenticated
          /\ EndConnector(p)
          /\ UNCHANGED channel
    /\ UNCHANGED <<domain, pipe, written, events>>

\* Writer, reader and pty are sent to the wrappers; a pane that is gone does not
\* take the writer, and all is dropped.
HandOver(p) ==
    /\ pane[p].connector = "requesting"
    /\ \/ /\ pane[p].request = "pty" /\ ~ pane[p].gone
          /\ pane' = [pane EXCEPT ![p].connector = "handing", ![p].pty = "held"]
          /\ UNCHANGED session
       \/ /\ \/ pane[p].request = "pty" /\ pane[p].gone
             \/ pane[p].request \in {"error", "lost", "dead"}
          /\ EndConnector(p)
    /\ UNCHANGED <<domain, channel, pipe, written, events>>

HandChild(p) ==
    /\ pane[p].connector = "handing"
    /\ pane' = [pane EXCEPT ![p].connector = "done"]
    /\ session' = DropSession(session, p)
    /\ UNCHANGED <<domain, channel, pipe, written, events>>

Connector(p) == HearEvent(p) \/ HandOver(p) \/ HandChild(p)

------------------------------------------------------------------------------
(* The pane and its threads.                                                *)

\* The ends of the socket pairs that are not the session's.
HoldsWriter(p) == ~ pane[p].gone \/ pane[p].connector = "handing"
HoldsReader(p) == HoldsWriter(p) \/ pane[p].reader # "ended"

\* WrappedSshChild::wait and SshChildProcess::wait.
Wait(p) ==
    /\ \/ /\ pane[p].waiter = "child" /\ pane[p].connector = "done"
          /\ pane' = [pane EXCEPT ![p].waiter = "status"]
          /\ session' = IF pane[p].pendingKill
                        THEN TrySend(session, pane[p].via, Request("signal", p))
                        ELSE session
       \/ /\ \/ pane[p].waiter = "child" /\ pane[p].connector = "ended"
             \/ pane[p].waiter = "status" /\ channel[p].exit \in {"sent", "dropped"}
          /\ pane' = [pane EXCEPT ![p].waiter = "ended"]
          /\ UNCHANGED session
    /\ UNCHANGED <<domain, channel, pipe, written, events>>

\* PtyReader::read: once the dialog is closed, the reader that was sent, if any.
\* The parser of a pane that is gone stops the reader when it gets output.
Read(p) ==
    /\ \/ /\ pane[p].reader = "dialog" /\ pane[p].connector \in {"done", "ended"}
          /\ pane' = [pane EXCEPT ![p].reader =
                         IF pane[p].connector = "done" THEN "session" ELSE "ended"]
          /\ UNCHANGED <<pipe, written>>
       \/ /\ pane[p].reader = "session" /\ pipe[p].out > 0
          /\ pipe' = [pipe EXCEPT ![p].out = 0]
          /\ written' = [written EXCEPT ![p].shown = @ + pipe[p].out]
          /\ \/ UNCHANGED pane
             \/ pane[p].gone /\ pane' = [pane EXCEPT ![p].reader = "ended"]
       \/ /\ pane[p].reader = "session" /\ pipe[p].out = 0 /\ ~ channel[p].stdout
          /\ pane' = [pane EXCEPT ![p].reader = "ended"]
          /\ UNCHANGED <<pipe, written>>
    /\ UNCHANGED <<domain, session, channel, events>>

\* MasterPty::resize: a size that the queue does not take is refused.
SendSize(p, size) ==
    IF Takes(pane[p].via)
    THEN /\ session' = [session EXCEPT ![pane[p].via].requests =
                           Append(@, [Request("resize", p) EXCEPT !.size = size])]
         /\ pane' = [pane EXCEPT ![p].size = size, ![p].refused = FALSE, ![p].pty = "connected"]
    ELSE /\ pane' = [pane EXCEPT ![p].size = size, ![p].refused = TRUE, ![p].pty = "connected"]
         /\ UNCHANGED session

\* Mutant: the pty that was sent is taken as it is.
MutCheckConnected(p, size) ==
    /\ pane' = [pane EXCEPT ![p].size = size,
                            ![p].pty = IF @ = "held" THEN "connected" ELSE @]
    /\ UNCHANGED session

\* WrappedSshPtyInner::check_connected: the pty that was sent gets the last size.
CheckConnected(p, size) ==
    IF pane[p].pty = "held" THEN SendSize(p, size)
    ELSE pane' = [pane EXCEPT ![p].size = size] /\ UNCHANGED session

Resize(p) ==
    /\ pane[p].spawn = "open" /\ ~ pane[p].gone
    /\ Happens
    /\ \/ pane[p].pty = "connected" /\ SendSize(p, pane[p].size + 1)
       \/ pane[p].pty # "connected" /\ CheckConnected(p, pane[p].size + 1)
    /\ UNCHANGED <<domain, channel, pipe, written>>

\* The other methods of WrappedSshPty check as well.
LookAtPty(p) ==
    /\ pane[p].pty = "held" /\ ~ pane[p].gone
    /\ CheckConnected(p, pane[p].size)
    /\ UNCHANGED <<domain, channel, pipe, written, events>>

Type(p) ==
    /\ pane[p].pty # "none" /\ ~ pane[p].gone
    /\ pipe[p].in < Buffer
    /\ Happens
    /\ pipe' = [pipe EXCEPT ![p].in = IF channel[p].stdin THEN @ + 1 ELSE @]
    /\ UNCHANGED <<domain, session, pane, channel, written>>

\* LocalPane::kill, and its drop, which kills again what it has not seen dead.
Kill(s, p) ==
    IF pane[p].waiter = "child" THEN s
    ELSE TrySend(s, pane[p].via, Request("signal", p))

Close(p) ==
    /\ pane[p].spawn = "open" /\ ~ pane[p].gone
    /\ Happens
    /\ pane' = [pane EXCEPT ![p].gone = TRUE, ![p].pendingKill = @ \/ pane[p].waiter = "child"]
    /\ session' = Kill(Kill(session, p), p)
    /\ UNCHANGED <<domain, channel, pipe, written>>

------------------------------------------------------------------------------
(* SessionInner::run: the connection.                                       *)

ChannelsOf(n) == {p \in Panes : channel[p].open /\ pane[p].via = n}

\* The channels of a session that has ended, and the requests left in its queue:
\* the library that the queue comes from may drop them or keep them.
Ended(n) ==
    /\ session' = [session EXCEPT ![n].at = "ended"]
    /\ channel' = [p \in Panes |->
                     IF p \notin ChannelsOf(n) THEN channel[p]
                     ELSE [channel[p] EXCEPT !.open = FALSE, !.stdin = FALSE, !.stdout = FALSE,
                                             !.exit = IF @ = "held" THEN "dropped" ELSE @]]
    /\ \/ UNCHANGED pane
       \/ pane' = [p \in Panes |->
                     IF pane[p].via = n /\ pane[p].request = "sent"
                     THEN [pane[p] EXCEPT !.request = "lost"] ELSE pane[p]]

\* A prompt, at most one, or the end of the authentication; a connector that is
\* no longer there to answer is a failure.
Connect(n) ==
    /\ \/ /\ session[n].at = "connecting"
          /\ session' = [session EXCEPT ![n].at = "asking"]
          /\ UNCHANGED <<pane, channel>>
       \/ /\ session[n].at \in {"connecting", "answered"}
          /\ session' = [session EXCEPT ![n].at = "tick", ![n].authenticated = TRUE]
          /\ UNCHANGED <<pane, channel>>
       \/ /\ \/ session[n].at \in {"connecting", "answered"}
             \/ session[n].at = "asking" /\ pane[n].connector = "ended"
          /\ Ended(n)
    /\ UNCHANGED <<domain, pipe, written, events>>

------------------------------------------------------------------------------
(* SessionInner::request_loop.                                              *)

AllClosed(c) == ~ c.stdin /\ ~ c.stdout

\* The library tells the status of a channel once it has been read to its end.
ExitStatus(c) == c.status /\ c.eof /\ c.arrived = 0

\* The steps of tick_io for one channel.
ResolveExit(c, broken) ==
    IF c.exit = "held" /\ (ExitStatus(c) \/ broken)
    THEN [c EXCEPT !.exited = TRUE, !.exit = "sent"] ELSE c

DropDescriptors(c, broken) ==
    IF broken THEN [c EXCEPT !.stdin = FALSE, !.stdout = FALSE] ELSE c

\* The program takes what there is of input, or nothing.
WriteInput(c, taking) ==
    IF ~ c.stdin \/ c.input = 0 THEN c
    ELSE IF c.status /\ c.eof THEN [c EXCEPT !.stdin = FALSE]
    ELSE IF taking THEN [c EXCEPT !.input = 0] ELSE c

ReadOutput(c) ==
    LET n == Min({Buffer - c.output, c.arrived}) IN
    IF ~ c.stdout \/ c.output = Buffer THEN c
    ELSE IF c.arrived > 0 THEN [c EXCEPT !.output = @ + n, !.arrived = @ - n]
    ELSE IF c.eof /\ c.output = 0 THEN [c EXCEPT !.stdout = FALSE] ELSE c

\* A channel without descriptors is removed.
Reap(c) ==
    IF AllClosed(c) THEN [c EXCEPT !.open = FALSE,
                                   !.exit = IF @ = "held" THEN "dropped" ELSE @] ELSE c

\* Mutant: a lost connection is not looked at.
MutTickChannel(c, broken, taking) ==
    Reap(ReadOutput(WriteInput(ResolveExit(c, FALSE), taking)))

TickChannel(c, broken, taking) ==
    Reap(ReadOutput(WriteInput(DropDescriptors(ResolveExit(c, broken), broken), taking)))

TickIo(n) ==
    /\ session[n].at = "tick"
    /\ \E taking \in SUBSET {p \in ChannelsOf(n) : channel[p].input > 0} :
          channel' = [p \in Panes |->
                        IF p \in ChannelsOf(n)
                        THEN TickChannel(channel[p], session[n].broken, p \in taking)
                        ELSE channel[p]]
    /\ session' = [session EXCEPT ![n].at = "requests", ![n].seen = session[n].broken]
    /\ UNCHANGED <<domain, pane, pipe, written, events>>

\* new_pty: the exchange with the server, which may refuse.
NewPty(p) ==
    \/ /\ ~ session[pane[p].via].broken
       /\ channel' = [channel EXCEPT ![p] =
                        [NewChannel EXCEPT !.open = TRUE, !.stdin = TRUE, !.stdout = TRUE,
                                           !.exit = "held", !.size = channel[p].size]]
       /\ pane' = [pane EXCEPT ![p].request = "pty"]
    \/ pane' = [pane EXCEPT ![p].request = "error"] /\ UNCHANGED channel

ResizePty(request) ==
    /\ channel' = IF channel[request.pane].open
                  THEN [channel EXCEPT ![request.pane].size = request.size] ELSE channel
    /\ UNCHANGED pane

\* A signal does not always end a program; the drop of a session is noted.  That
\* all clients are gone is not seen by a session that its domain remembers.
DispatchOne(n) ==
    LET request == Head(session[n].requests) IN
    /\ session[n].at = "requests" /\ session[n].requests # << >>
    /\ session' = [session EXCEPT ![n].requests = Tail(@),
                                  ![n].dropped = @ \/ request.op = "dropped"]
    /\ \/ request.op = "pty" /\ NewPty(request.pane)
       \/ request.op = "resize" /\ ResizePty(request)
       \/ request.op \in {"signal", "dropped"} /\ UNCHANGED <<channel, pane>>
    /\ UNCHANGED <<domain, pipe, written, events>>

Dispatched(n) ==
    /\ session[n].at = "requests" /\ session[n].requests = << >>
    /\ session' = [session EXCEPT ![n].at = "check"]
    /\ UNCHANGED <<domain, pane, channel, pipe, written, events>>

NoMoreChannels(n) == ChannelsOf(n) = {} /\ (session[n].dropped \/ session[n].seen)

CheckEnd(n) ==
    /\ session[n].at = "check"
    /\ \/ NoMoreChannels(n) /\ Ended(n)
       \/ /\ ~ NoMoreChannels(n)
          /\ session' = [session EXCEPT ![n].at = "poll"]
          /\ UNCHANGED <<pane, channel>>
    /\ UNCHANGED <<domain, pipe, written, events>>

\* What poll reports of the socket for stdin, and what is done about it.  A read
\* into a full buffer reads nothing, which is taken for the end.
ReadsEnd(p) == \/ pipe[p].in = 0 /\ ~ HoldsWriter(p)
               \/ pipe[p].in > 0 /\ channel[p].input = Buffer

ReadInput(c, p) ==
    IF ~ c.stdin THEN c
    ELSE IF ReadsEnd(p) THEN [c EXCEPT !.stdin = FALSE, !.closed = TRUE]
    ELSE [c EXCEPT !.input = @ + Min({Buffer - @, pipe[p].in})]

InputRead(c, p) ==
    IF ~ c.stdin THEN 0
    ELSE IF ReadsEnd(p) THEN pipe[p].in ELSE Min({Buffer - c.input, pipe[p].in})

\* The same for stdout: closed once the program has exited and all is written.
OutputWritten(c, p) ==
    IF c.stdout /\ HoldsReader(p) THEN Min({Buffer - pipe[p].out, c.output}) ELSE 0

\* Mutant: the socket is closed as soon as the program has exited.
MutWriteOutput(c, p) ==
    IF ~ c.stdout THEN c
    ELSE IF ~ HoldsReader(p) \/ c.exited THEN [c EXCEPT !.stdout = FALSE]
    ELSE [c EXCEPT !.output = @ - OutputWritten(c, p)]

WriteOutput(c, p) ==
    IF ~ c.stdout THEN c
    ELSE IF ~ HoldsReader(p) \/ (c.exited /\ c.output = 0) THEN [c EXCEPT !.stdout = FALSE]
    ELSE [c EXCEPT !.output = @ - OutputWritten(c, p)]

Poll(n) ==
    /\ session[n].at = "poll"
    /\ channel' = [p \in Panes |->
                     IF p \in ChannelsOf(n) THEN WriteOutput(ReadInput(channel[p], p), p)
                     ELSE channel[p]]
    /\ pipe' = [p \in Panes |->
                  IF p \in ChannelsOf(n)
                  THEN [in |-> pipe[p].in - InputRead(channel[p], p),
                        out |-> pipe[p].out + OutputWritten(channel[p], p)]
                  ELSE pipe[p]]
    /\ session' = [session EXCEPT ![n].at = "tick"]
    /\ UNCHANGED <<domain, pane, written, events>>

Loop(n) ==
    \/ Connect(n) \/ TickIo(n) \/ DispatchOne(n) \/ Dispatched(n) \/ CheckEnd(n) \/ Poll(n)

------------------------------------------------------------------------------
(* The server and the network.                                              *)

Reached(p) == channel[p].open /\ ~ session[pane[p].via].broken

WriteRemote(p) ==
    /\ Reached(p) /\ ~ channel[p].eof /\ ~ channel[p].status /\ ~ channel[p].closed
    /\ channel[p].arrived < Buffer
    /\ Happens
    /\ channel' = [channel EXCEPT ![p].arrived = @ + 1]
    /\ written' = [written EXCEPT ![p].program = @ + 1]
    /\ UNCHANGED <<domain, session, pane, pipe>>

\* A program ends by itself or because its channel was closed.
EndProgram(p) ==
    /\ Reached(p) /\ ~ channel[p].status
    /\ \/ Happens
       \/ channel[p].closed /\ UNCHANGED events
    /\ channel' = [channel EXCEPT ![p].status = TRUE]
    /\ UNCHANGED <<domain, session, pane, pipe, written>>

\* The server says that no output will follow.
EndOutput(p) ==
    /\ Reached(p) /\ ~ channel[p].eof
    /\ \/ Happens
       \/ (channel[p].status \/ channel[p].closed) /\ UNCHANGED events
    /\ channel' = [channel EXCEPT ![p].eof = TRUE]
    /\ UNCHANGED <<domain, session, pane, pipe, written>>

\* The connection is lost, and the library has noticed.
Break(n) ==
    /\ session[n].at \in {"tick", "requests", "check", "poll"} /\ ~ session[n].broken
    /\ Happens
    /\ session' = [session EXCEPT ![n].broken = TRUE]
    /\ UNCHANGED <<domain, pane, channel, pipe, written>>

------------------------------------------------------------------------------
\* The task that spawns a pane, then the thread that connects it: one of them at
\* a time, and one step of it.
Task(p) == RequestPty(p) \/ FinishSpawn(p) \/ Connector(p)
Thread(p) == Task(p) \/ Wait(p) \/ Read(p)

User(p) == SpawnPane(p) \/ Answer(p) \/ Resize(p) \/ LookAtPty(p) \/ Type(p) \/ Close(p)

Server(p) == WriteRemote(p) \/ EndProgram(p) \/ EndOutput(p)

Next == \E p \in Panes : Thread(p) \/ User(p) \/ Loop(p) \/ Server(p) \/ Break(p)

\* Threads and tasks go on, an authentication comes to an end, and a server
\* answers the end of a program and of a channel.  No user answers a prompt, but
\* the input of a pane that is gone is at its end.
Fairness ==
    \A p \in Panes :
       /\ WF_vars(Task(p) \/ (pane[p].gone /\ Answer(p)))
       /\ WF_vars(Wait(p))
       /\ WF_vars(Read(p))
       /\ WF_vars(Loop(p))
       /\ WF_vars((channel[p].status \/ channel[p].closed) /\ EndOutput(p))

Spec == Init /\ [][Next]_vars /\ Fairness

------------------------------------------------------------------------------
TypeOK ==
    /\ domain \in 0 .. MaxPanes
    /\ \A n \in Panes :
          /\ session[n].at \in {"none", "connecting", "asking", "answered", "tick", "requests", "check",
                                "poll", "ended"}
          /\ Len(session[n].requests) <= QueueSize
    /\ \A p \in Panes :
          /\ pane[p].spawn \in {"none", "asking", "open", "failed"}
          /\ pane[p].via \in 0 .. MaxPanes
          /\ pane[p].request \in {"none", "sending", "sent", "pty", "error", "lost", "dead"}
          /\ pane[p].connector \in {"none", "events", "requesting", "handing", "done", "ended"}
          /\ pane[p].waiter \in {"none", "child", "status", "ended"}
          /\ pane[p].reader \in {"none", "dialog", "session", "ended"}
          /\ pane[p].pty \in {"none", "held", "connected"}
          /\ channel[p].exit \in {"none", "held", "sent", "dropped"}
          /\ {channel[p].input, channel[p].output, channel[p].arrived,
              pipe[p].in, pipe[p].out} \subseteq 0 .. Buffer
    /\ events \in 0 .. MaxEvents

\* The request for a pty was queued when the session ended.
RequestIsLost(p) == pane[p].request \in {"sent", "lost"} /\ session[pane[p].via].at = "ended"

IsOver(p) ==
    /\ pane[p].spawn = "open"
    /\ \/ pane[p].gone
       \/ channel[p].status
       \/ session[pane[p].via].broken \/ session[pane[p].via].at = "ended"

\* A pane hears that its program is over, whatever ended it: the program itself,
\* the closing of the pane, in its dialog and while it is handed its pty as well,
\* a failed authentication, or a connection that is lost, after which no status
\* comes (sessioninner.rs:574).  Only a request that is left in the queue of a
\* session that ends may keep its connector waiting (see DeadSessionIsReplaced).
\* The session is libssh's: with ssh2 a loss is not noticed (sessionwrap.rs:79).
PanesEnd == \A p \in Panes : IsOver(p) ~> pane[p].waiter = "ended" \/ RequestIsLost(p)

\* A program that ends by itself has all its output shown, though the session may
\* learn the status while output is in the library, in its buffers and in the
\* socket.  A connection that is lost takes what is not in the socket with it.
OutputIsComplete ==
    \A p \in Panes :
       /\ pane[p].reader = "ended" /\ ~ pane[p].gone
       /\ channel[p].exit = "sent" /\ ~ channel[p].closed
       /\ ~ session[pane[p].via].broken
       => written[p].shown = written[p].program

\* The server is told the last size of a pane, although the pane is resized while
\* its user is asked, its pty requested and handed over, in three threads.  A size
\* that the full queue refused is lost.
LastSizeArrives ==
    \A p \in Panes :
       /\ channel[p].open /\ pane[p].pty = "connected" /\ ~ pane[p].refused
       /\ \A i \in DOMAIN session[pane[p].via].requests :
             session[pane[p].via].requests[i].op # "resize"
       => channel[p].size = pane[p].size

\* A spawn through a session that dies makes a new one (mux/src/ssh.rs:779):
\* "Session died (perhaps they closed the initial tab?)  So we'll try making a new
\* one".  That is so only for a request that was not yet in the queue.
DeadSessionIsReplaced ==
    \A p \in Panes :
       pane[p].spawn = "asking" /\ session[pane[p].via].at = "ended" ~> pane[p].spawn = "open"

\* The session closes a channel when the pane has closed its input, and not
\* because of what it has typed: "There's data we can read into the buffer"
\* (sessioninner.rs:517).  Does not hold, as the buffer may be full.
ClosedByItsPane == \A p \in Panes : channel[p].closed => ~ HoldsWriter(p)

=============================================================================
