-------------------------- MODULE SshSessionProofs --------------------------
(***************************************************************************)
(* SshSession for any number of panes and any sizes of queue and buffers:  *)
(* types, all output of a program that ends by itself is shown, and the    *)
(* last size of a pane arrives.                                            *)
(*                                                                         *)
(* Output is counted on its way (Complete): what the program has written   *)
(* is what was shown and what is in the socket, in the buffer of the       *)
(* session and in the library.  The descriptor for it is closed only with  *)
(* the latter two empty and no more to come.  A pty that is made starts    *)
(* from nothing, so a pane must not be given a second one (Queued), and a  *)
(* session must not end over an open channel (Early).                      *)
(*                                                                         *)
(* For the sizes the invariant names the last one that is on its way       *)
(* (Sized): that of the last request in the queue, or of the channel.      *)
(***************************************************************************)
EXTENDS SshSession, SequenceTheorems, TLAPS

------------------------------------------------------------------------------
(* Types.                                                                  *)

Requests == [op : {"pty", "resize", "signal", "dropped"}, pane : Panes, size : Nat]

Sessions ==
    [at : {"none", "connecting", "asking", "answered", "tick", "requests", "check", "poll",
           "ended"},
     authenticated : BOOLEAN, requests : Seq(Requests), dropped : BOOLEAN, seen : BOOLEAN,
     broken : BOOLEAN]

PaneStates ==
    [spawn : {"none", "asking", "open", "failed"}, via : 0 .. MaxPanes,
     request : {"none", "sending", "sent", "pty", "error", "lost", "dead"},
     connector : {"none", "events", "requesting", "handing", "done", "ended"},
     waiter : {"none", "child", "status", "ended"}, pendingKill : BOOLEAN,
     reader : {"none", "dialog", "session", "ended"}, pty : {"none", "held", "connected"},
     size : Nat, refused : BOOLEAN, gone : BOOLEAN]

Channels ==
    [open : BOOLEAN, stdin : BOOLEAN, stdout : BOOLEAN, input : 0 .. Buffer,
     output : 0 .. Buffer, exit : {"none", "held", "sent", "dropped"}, exited : BOOLEAN,
     size : Nat, closed : BOOLEAN, arrived : 0 .. Buffer, eof : BOOLEAN, status : BOOLEAN]

Types ==
    /\ domain \in 0 .. MaxPanes
    /\ session \in [Panes -> Sessions]
    /\ \A n \in Panes : Len(session[n].requests) <= QueueSize
    /\ pane \in [Panes -> PaneStates]
    /\ channel \in [Panes -> Channels]
    /\ pipe \in [Panes -> [in : 0 .. Buffer, out : 0 .. Buffer]]
    /\ written \in [Panes -> [program : Nat, shown : Nat]]
    /\ events \in 0 .. MaxEvents

------------------------------------------------------------------------------
(* The invariant.                                                          *)

\* A pane that has not opened has no session of its own.
Fresh(p) ==
    pane[p].spawn # "open" =>
       /\ session[p].at = "none" /\ domain # p
       /\ \A q \in Panes : pane[q].via # p

\* How far a pane, its connector and its reader are.
Order(p) ==
    /\ pane[p].spawn = "none" => pane[p].request = "none"
    /\ pane[p].spawn # "none" => pane[p].via \in Panes
    /\ pane[p].spawn \in {"none", "asking", "failed"} =>
          pane[p].connector = "none" /\ pane[p].reader = "none" /\ pane[p].pty = "none"
    /\ pane[p].spawn \in {"none", "asking"} => pane[p].size = 0 /\ channel[p].size = 0
    /\ pane[p].connector \in {"events", "requesting"} => pane[p].pty = "none"
    /\ pane[p].connector = "events" => pane[p].request = "none"
    /\ pane[p].connector \in {"handing", "done"} => pane[p].request = "pty"
    /\ pane[p].connector = "ended" =>
          pane[p].gone \/ pane[p].request \in {"none", "error", "lost", "dead"}
    /\ pane[p].reader = "session" \/ pane[p].pty # "none" => pane[p].request = "pty"
    /\ pane[p].reader = "ended" =>
          pane[p].gone \/ pane[p].connector = "ended" \/ pane[p].request = "pty"

\* A pty is made once, of nothing.
Unmade(p) ==
    /\ ~ channel[p].open /\ channel[p].exit = "none"
    /\ pipe[p].out = 0 /\ written[p].program = 0 /\ written[p].shown = 0

Made(p) == pane[p].request # "pty" => Unmade(p)

EarlyPlaces == {"none", "connecting", "asking", "answered"}

Early(n) ==
    session[n].at \in EarlyPlaces =>
       \A p \in Panes : pane[p].via = n => ~ channel[p].open

\* A pane waits for the pty it has asked for, once.
Queued(n) ==
    session[n].at # "ended" =>
       LET queue == session[n].requests IN
       \A i \in DOMAIN queue : queue[i].op = "pty" =>
          /\ pane[queue[i].pane].request = "sent" /\ pane[queue[i].pane].via = n
          /\ \A j \in DOMAIN queue :
                queue[j].op = "pty" /\ queue[j].pane = queue[i].pane => j = i

\* No output is lost while its pane and its connection are there.
Complete(p) ==
    pane[p].request = "pty" /\ ~ pane[p].gone /\ ~ session[pane[p].via].broken =>
       /\ written[p].program =
             written[p].shown + pipe[p].out + channel[p].output + channel[p].arrived
       /\ channel[p].exited => channel[p].eof /\ channel[p].arrived = 0
       /\ ~ channel[p].stdout =>
             channel[p].eof /\ channel[p].arrived = 0 /\ channel[p].output = 0
       /\ pane[p].reader = "ended" => ~ channel[p].stdout /\ pipe[p].out = 0

\* The last size on its way to the channel of a pane.
IsResize(request, p) == request.op = "resize" /\ request.pane = p

LastSize(queue, p, at, size) ==
    \/ at = size /\ \A i \in DOMAIN queue : ~ IsResize(queue[i], p)
    \/ \E i \in DOMAIN queue :
          /\ IsResize(queue[i], p) /\ queue[i].size = size
          /\ \A j \in DOMAIN queue : j > i => ~ IsResize(queue[j], p)

Sized(p) ==
    /\ \A n \in Panes : \A i \in DOMAIN session[n].requests :
          IsResize(session[n].requests[i], p) => pane[p].pty = "connected" /\ pane[p].via = n
    /\ pane[p].pty = "connected" /\ ~ pane[p].refused /\ channel[p].open =>
       LastSize(session[pane[p].via].requests, p, channel[p].size, pane[p].size)

IInv ==
    /\ Types
    /\ \A p \in Panes : Fresh(p) /\ Order(p) /\ Made(p) /\ Early(p) /\ Queued(p)
    /\ \A p \in Panes : Complete(p) /\ Sized(p)

------------------------------------------------------------------------------
(* What most steps have in common.                                         *)

\* What may become of a session.
Later(before, after) ==
    /\ after.at = "none" <=> before.at = "none"
    /\ before.at = "ended" => after.at = "ended"
    /\ after.at \in EarlyPlaces => before.at \in EarlyPlaces
    /\ before.broken => after.broken

\* At the end of a queue no more was added than what others may drop as well.
Longer(queue, after) ==
    /\ DOMAIN queue \subseteq DOMAIN after
    /\ \A i \in DOMAIN queue : after[i] = queue[i]
    /\ \A i \in DOMAIN after \ DOMAIN queue : after[i].op \in {"signal", "dropped"}

GoesOn(before, after) == Later(before, after) /\ Longer(before.requests, after.requests)

\* What may become of a pane that does not get its pty, and is not resized.
PaneLater(before, after) ==
    /\ after.via = before.via
    /\ before.spawn = "open" => after.spawn = "open"
    /\ after.request = "pty" <=> before.request = "pty"
    /\ before.gone => after.gone

PaneGoesOn(before, after) ==
    /\ PaneLater(before, after)
    /\ after.pty = "connected" <=> before.pty = "connected"
    /\ after.pty = "connected" => after.size = before.size /\ after.refused = before.refused

\* What may become of a channel through which nothing goes.
ChannelGoesOn(before, after) ==
    /\ after.open = before.open /\ after.exit \in {before.exit, "sent", "dropped"}
    /\ before.exit = "none" => after.exit = "none"
    /\ after.exited = before.exited /\ after.stdout = before.stdout
    /\ after.output = before.output /\ after.arrived = before.arrived
    /\ before.eof => after.eof
    /\ after.open => after.size = before.size

\* A request for a pty that was queued is kept as long as its session runs.
SentKept(p) ==
    pane[p].request = "sent" =>
       pane'[p].request = "sent" \/ session'[pane[p].via].at = "ended"

(* Sessions begin, and channels are made, only where they are asked for.   *)
LEMMA ShapeKept ==
    ASSUME IInv, domain' = domain,
           \A n \in Panes : Later(session[n], session'[n]),
           \A p \in Panes : PaneLater(pane[p], pane'[p]),
           \A p \in Panes : channel'[p].open => channel[p].open,
           \A p \in Panes : Unmade(p) => Unmade(p)'
    PROVE  \A p \in Panes : Fresh(p)' /\ Made(p)' /\ Early(p)'
PROOF
<1> SUFFICES ASSUME NEW p \in Panes PROVE Fresh(p)' /\ Made(p)' /\ Early(p)'
  OBVIOUS
<1>1. Fresh(p) /\ Made(p) /\ Early(p)
  BY DEF IInv
<1>2. Fresh(p)'
  BY <1>1 DEF Fresh, Later, PaneLater
<1>3. Made(p)'
  BY <1>1 DEF Made, PaneLater
<1>4. Early(p)'
  BY <1>1 DEF Early, Later, PaneLater
<1> QED BY <1>2, <1>3, <1>4

(* No pty is asked for.                                                    *)
LEMMA QueueKept ==
    ASSUME IInv, NEW n \in Panes, Later(session[n], session'[n]),
           \A p \in Panes : pane'[p].via = pane[p].via /\ SentKept(p),
           LET queue == session[n].requests
               after == session'[n].requests
           IN /\ DOMAIN queue \subseteq DOMAIN after
              /\ \A i \in DOMAIN queue : after[i] = queue[i]
              /\ \A i \in DOMAIN after \ DOMAIN queue : after[i].op # "pty"
    PROVE  Queued(n)'
PROOF
<1> SUFFICES ASSUME session'[n].at # "ended",
                    NEW i \in DOMAIN session'[n].requests, session'[n].requests[i].op = "pty"
             PROVE  LET queue == session'[n].requests IN
                    /\ pane'[queue[i].pane].request = "sent" /\ pane'[queue[i].pane].via = n
                    /\ \A j \in DOMAIN queue :
                          queue[j].op = "pty" /\ queue[j].pane = queue[i].pane => j = i
  BY DEF Queued
<1> DEFINE queue == session[n].requests
           after == session'[n].requests
<1>1. Queued(n) /\ session[n].at # "ended"
  BY DEF IInv, Later
<1>2. \A j \in DOMAIN after : after[j].op = "pty" => j \in DOMAIN queue /\ after[j] = queue[j]
  OBVIOUS
<1>3. queue[i].pane \in Panes
  <2>1. session[n] \in Sessions
    BY DEF IInv, Types
  <2>2. queue \in Seq(Requests)
    BY <2>1 DEF Sessions
  <2>3. i \in DOMAIN queue
    BY <1>2
  <2>4. queue[i] \in Requests
    BY <2>2, <2>3
  <2> QED BY <2>4 DEF Requests
<1>4. /\ pane[queue[i].pane].request = "sent" /\ pane[queue[i].pane].via = n
      /\ \A j \in DOMAIN queue : queue[j].op = "pty" /\ queue[j].pane = queue[i].pane => j = i
  BY <1>1, <1>2 DEF Queued
<1>5. pane'[queue[i].pane].request = "sent" /\ pane'[queue[i].pane].via = n
  BY <1>3, <1>4 DEF SentKept
<1> QED BY <1>2, <1>4, <1>5

(* What an addition to a queue leaves of the last size on its way.         *)
LEMMA LastSizeKept ==
    ASSUME NEW queue, NEW after, NEW p, NEW at, NEW size,
           DOMAIN queue \subseteq DOMAIN after, \A i \in DOMAIN queue : after[i] = queue[i],
           \A i \in DOMAIN after \ DOMAIN queue : ~ IsResize(after[i], p),
           LastSize(queue, p, at, size)
    PROVE  LastSize(after, p, at, size)
PROOF
<1>1. CASE at = size /\ \A i \in DOMAIN queue : ~ IsResize(queue[i], p)
  BY <1>1 DEF LastSize
<1>2. CASE \E i \in DOMAIN queue :
              /\ IsResize(queue[i], p) /\ queue[i].size = size
              /\ \A j \in DOMAIN queue : j > i => ~ IsResize(queue[j], p)
  BY <1>2 DEF LastSize
<1> QED BY <1>1, <1>2 DEF LastSize

(* A pane is not resized.                                                  *)
LEMMA SizeKept ==
    ASSUME IInv, NEW p \in Panes, PaneGoesOn(pane[p], pane'[p]),
           channel'[p].open => channel[p].open /\ channel'[p].size = channel[p].size,
           \A n \in Panes :
              LET queue == session[n].requests
                  after == session'[n].requests
              IN /\ DOMAIN queue \subseteq DOMAIN after
                 /\ \A i \in DOMAIN queue : after[i] = queue[i]
                 /\ \A i \in DOMAIN after \ DOMAIN queue : ~ IsResize(after[i], p)
    PROVE  Sized(p)'
PROOF
<1>1. Sized(p) /\ Order(p)
  BY DEF IInv
<1>2. ASSUME NEW n \in Panes, NEW i \in DOMAIN session'[n].requests,
             IsResize(session'[n].requests[i], p)
      PROVE  pane'[p].pty = "connected" /\ pane'[p].via = n
  <2>1. i \in DOMAIN session[n].requests /\ IsResize(session[n].requests[i], p)
    BY <1>2
  <2> QED BY <1>1, <2>1 DEF Sized, PaneGoesOn, PaneLater
<1>3. ASSUME pane'[p].pty = "connected", ~ pane'[p].refused, channel'[p].open
      PROVE  LastSize(session'[pane'[p].via].requests, p, channel'[p].size, pane'[p].size)
  <2>1. pane[p].pty = "connected" /\ ~ pane[p].refused /\ pane'[p].via = pane[p].via
        /\ pane'[p].size = pane[p].size
    BY <1>3 DEF PaneGoesOn, PaneLater
  <2>2. pane[p].via \in Panes
    BY <1>1, <2>1 DEF Order, IInv, Types, PaneStates
  <2>3. LastSize(session[pane[p].via].requests, p, channel[p].size, pane[p].size)
    BY <1>1, <1>3, <2>1 DEF Sized
  <2>4. LastSize(session'[pane[p].via].requests, p, channel[p].size, pane[p].size)
    BY <2>2, <2>3, LastSizeKept
  <2> QED BY <1>3, <2>1, <2>4
<1> QED BY <1>2, <1>3 DEF Sized, IsResize

(* Nothing goes from a program to its pane.                                *)
LEMMA OutputKept ==
    ASSUME IInv, NEW p \in Panes,
           \A n \in Panes : session[n].broken => session'[n].broken,
           PaneLater(pane[p], pane'[p]), ChannelGoesOn(channel[p], channel'[p]),
           pipe'[p].out = pipe[p].out, written'[p] = written[p],
           pane'[p].reader = "ended" =>
              \/ pane[p].reader = "ended" \/ pane'[p].gone \/ pane[p].request # "pty"
              \/ ~ channel[p].stdout /\ pipe[p].out = 0
    PROVE  Complete(p)'
PROOF
<1>1. Complete(p) /\ Order(p)
  BY DEF IInv
<1>2. pane[p].request = "pty" => pane[p].via \in Panes
  BY <1>1 DEF Order
<1> QED BY <1>1, <1>2 DEF Complete, PaneLater, ChannelGoesOn

(* A step that asks for no pty, resizes nothing and moves no output.       *)
LEMMA Aside ==
    ASSUME IInv, Types', domain' = domain,
           \A n \in Panes : GoesOn(session[n], session'[n]),
           \A p \in Panes :
              /\ PaneGoesOn(pane[p], pane'[p]) /\ SentKept(p) /\ Order(p)'
              /\ ChannelGoesOn(channel[p], channel'[p])
              /\ pipe'[p].out = pipe[p].out /\ written'[p] = written[p]
              /\ pane'[p].reader = "ended" =>
                    \/ pane[p].reader = "ended" \/ pane'[p].gone \/ pane[p].request # "pty"
                    \/ ~ channel[p].stdout /\ pipe[p].out = 0
    PROVE  IInv'
PROOF
<1>1. \A n \in Panes : Later(session[n], session'[n]) /\ (session[n].broken => session'[n].broken)
  BY DEF GoesOn, Later
<1>2. \A p \in Panes : Unmade(p) => Unmade(p)'
  BY DEF Unmade, ChannelGoesOn
<1>3. \A p \in Panes : channel'[p].open => channel[p].open /\ channel'[p].size = channel[p].size
  BY DEF ChannelGoesOn
<1>4. \A p \in Panes : PaneLater(pane[p], pane'[p])
  BY DEF PaneGoesOn
<1>5. \A p \in Panes : Fresh(p)' /\ Made(p)' /\ Early(p)'
  BY <1>1, <1>2, <1>3, <1>4, ShapeKept
<1>6. \A n \in Panes : Queued(n)'
  BY <1>4, QueueKept DEF PaneLater, GoesOn, Longer
<1>7. ASSUME NEW p \in Panes PROVE Sized(p)' /\ Complete(p)'
  <2>1. \A n \in Panes :
              LET queue == session[n].requests
                  after == session'[n].requests
              IN /\ DOMAIN queue \subseteq DOMAIN after
                 /\ \A i \in DOMAIN queue : after[i] = queue[i]
                 /\ \A i \in DOMAIN after \ DOMAIN queue : ~ IsResize(after[i], p)
    BY DEF GoesOn, Longer, IsResize
  <2>2. Sized(p)'
    BY <1>3, <2>1, SizeKept
  <2>3. Complete(p)'
    BY <1>1, <1>4, OutputKept
  <2> QED BY <2>2, <2>3
<1> QED BY <1>5, <1>6, <1>7 DEF IInv

------------------------------------------------------------------------------
(* The queues of requests.                                                 *)

AreSessions(s) ==
    /\ s \in [Panes -> Sessions]
    /\ \A n \in Panes : Len(s[n].requests) <= QueueSize

(* What Append does to a queue.                                            *)
LEMMA Requested ==
    ASSUME NEW queue \in Seq(Requests), NEW request \in Requests
    PROVE  LET after == Append(queue, request) IN
           /\ after \in Seq(Requests) /\ Len(after) = Len(queue) + 1 /\ Len(queue) \in Nat
           /\ DOMAIN queue = 1 .. Len(queue) /\ DOMAIN after = 1 .. Len(queue) + 1
           /\ \A i \in DOMAIN queue : after[i] = queue[i]
           /\ after[Len(queue) + 1] = request
PROOF
  OBVIOUS

(* A session whose queue has changed.                                      *)
LEMMA QueueChanged ==
    ASSUME NEW s \in Sessions, NEW queue \in Seq(Requests)
    PROVE  LET after == [s EXCEPT !.requests = queue] IN
           /\ after \in Sessions /\ after.requests = queue
           /\ after.at = s.at /\ after.broken = s.broken
PROOF
  BY DEF Sessions

(* A request is added to the queue of a session.                           *)
LEMMA RequestAdded ==
    ASSUME NEW s, AreSessions(s), NEW n \in Panes, NEW request \in Requests,
           Len(s[n].requests) < QueueSize
    PROVE  LET added == [s EXCEPT ![n].requests = Append(@, request)] IN
           /\ AreSessions(added)
           /\ \A m \in Panes \ {n} : added[m] = s[m]
           /\ added[n].requests = Append(s[n].requests, request)
           /\ Later(s[n], added[n])
PROOF
<1> DEFINE queue == s[n].requests
           after == Append(queue, request)
           more == [s[n] EXCEPT !.requests = after]
<1>1. s[n] \in Sessions /\ queue \in Seq(Requests)
  BY DEF AreSessions, Sessions
<1>2. after \in Seq(Requests) /\ Len(after) = Len(queue) + 1 /\ Len(queue) \in Nat
  BY <1>1, Requested
<1>3. more \in Sessions /\ more.requests = after /\ more.at = s[n].at /\ more.broken = s[n].broken
  BY <1>1, <1>2, QueueChanged
<1>4. [s EXCEPT ![n].requests = Append(@, request)] = [s EXCEPT ![n] = more]
  BY DEF AreSessions
<1>5. Len(after) <= QueueSize
  BY <1>2, BoundsAssumption
<1>6. Later(s[n], more)
  BY <1>3 DEF Later
<1> HIDE DEF more, after
<1>7. /\ [s EXCEPT ![n] = more] \in [Panes -> Sessions]
      /\ [s EXCEPT ![n] = more][n] = more
      /\ \A m \in Panes \ {n} : [s EXCEPT ![n] = more][m] = s[m]
  BY <1>3 DEF AreSessions
<1>8. AreSessions([s EXCEPT ![n] = more])
  BY <1>3, <1>5, <1>7 DEF AreSessions
<1>9. /\ AreSessions([s EXCEPT ![n] = more])
      /\ \A m \in Panes \ {n} : [s EXCEPT ![n] = more][m] = s[m]
      /\ [s EXCEPT ![n] = more][n].requests = after
      /\ Later(s[n], [s EXCEPT ![n] = more][n])
  BY <1>3, <1>6, <1>7, <1>8
<1> QED BY <1>4, <1>9 DEF after

(* The word of a client that may be refused changes nothing else.          *)
LEMMA TrySendGoesOn ==
    ASSUME NEW s, AreSessions(s), NEW n \in Panes, NEW request \in Requests,
           request.op \in {"signal", "dropped"}
    PROVE  /\ AreSessions(TrySend(s, n, request))
           /\ \A m \in Panes : GoesOn(s[m], TrySend(s, n, request)[m])
           /\ \A m \in Panes \ {n} : TrySend(s, n, request)[m] = s[m]
PROOF
<1> DEFINE queue == s[n].requests
<1>1. queue \in Seq(Requests)
  BY DEF AreSessions, Sessions
<1>2. \A m \in Panes : GoesOn(s[m], s[m])
  BY DEF GoesOn, Later, Longer
<1>3. CASE TrySend(s, n, request) = s
  BY <1>2, <1>3
<1>4. CASE /\ TrySend(s, n, request) = [s EXCEPT ![n].requests = Append(@, request)]
           /\ Len(queue) < QueueSize
  <2> DEFINE added == [s EXCEPT ![n].requests = Append(@, request)]
  <2>1. /\ AreSessions(added)
        /\ \A m \in Panes \ {n} : added[m] = s[m]
        /\ added[n].requests = Append(queue, request)
        /\ Later(s[n], added[n])
    BY <1>4, RequestAdded
  <2>5. TrySend(s, n, request) = added
    BY <1>4
  <2> HIDE DEF added
  <2>2. Longer(queue, Append(queue, request))
    BY <1>1, Requested DEF Longer
  <2>3. GoesOn(s[n], added[n])
    BY <2>1, <2>2 DEF GoesOn
  <2>4. \A m \in Panes : GoesOn(s[m], added[m])
    BY <1>2, <2>1, <2>3
  <2> QED BY <2>1, <2>4, <2>5
<1>5. Len(queue) \in Nat /\ QueueSize \in Nat
  BY <1>1, BoundsAssumption
<1>6. \/ TrySend(s, n, request) = s
      \/ /\ TrySend(s, n, request) = [s EXCEPT ![n].requests = Append(@, request)]
         /\ Len(queue) < QueueSize
  BY <1>5 DEF TrySend
<1> QED BY <1>3, <1>4, <1>6

LEMMA DropGoesOn ==
    ASSUME NEW s, AreSessions(s), NEW n \in Panes
    PROVE  /\ AreSessions(DropSession(s, n))
           /\ \A m \in Panes : GoesOn(s[m], DropSession(s, n)[m])
           /\ \A m \in Panes \ {n} : DropSession(s, n)[m] = s[m]
PROOF
<1>1. Request("dropped", n) \in Requests /\ Request("dropped", n).op = "dropped"
  BY DEF Request, Requests
<1> QED BY <1>1, TrySendGoesOn DEF DropSession

LEMMA KillGoesOn ==
    ASSUME NEW s, AreSessions(s), NEW p \in Panes, pane[p].via \in Panes
    PROVE  /\ AreSessions(Kill(s, p))
           /\ \A m \in Panes : GoesOn(s[m], Kill(s, p)[m])
PROOF
<1>1. Request("signal", p) \in Requests /\ Request("signal", p).op = "signal"
  BY DEF Request, Requests
<1>2. \A m \in Panes : GoesOn(s[m], s[m])
  BY DEF GoesOn, Later, Longer
<1> QED BY <1>1, <1>2, TrySendGoesOn DEF Kill

(* One thing after the other.                                              *)
LEMMA GoesOnTwice ==
    ASSUME NEW a, NEW b, NEW c, GoesOn(a, b), GoesOn(b, c)
    PROVE  GoesOn(a, c)
PROOF
<1>1. Later(a, c)
  BY DEF GoesOn, Later
<1>2. Longer(a.requests, b.requests) /\ Longer(b.requests, c.requests)
  BY DEF GoesOn
<1>3. DOMAIN a.requests \subseteq DOMAIN c.requests
      /\ \A i \in DOMAIN a.requests : c.requests[i] = a.requests[i]
  BY <1>2 DEF Longer
<1>4. \A i \in DOMAIN c.requests \ DOMAIN a.requests : c.requests[i].op \in {"signal", "dropped"}
  BY <1>2 DEF Longer
<1> QED BY <1>1, <1>3, <1>4 DEF GoesOn, Longer

(* Nothing happens to most sessions, panes and channels.                   *)
LEMMA NothingHappens ==
    ASSUME IInv
    PROVE  /\ \A n \in Panes : GoesOn(session[n], session[n])
           /\ \A p \in Panes : PaneGoesOn(pane[p], pane[p])
           /\ \A p \in Panes : ChannelGoesOn(channel[p], channel[p])
           /\ AreSessions(session)
           /\ \A p \in Panes : Order(p) /\ Made(p)
PROOF
  BY DEF GoesOn, Later, Longer, PaneGoesOn, PaneLater, ChannelGoesOn, IInv, AreSessions, Types

------------------------------------------------------------------------------
(* The connector, the threads of a pane and its user.                      *)

(* One pane changes, and nothing else but what clients say to sessions.    *)
LEMMA PaneStep ==
    ASSUME IInv, NEW p \in Panes, NEW after \in PaneStates, pane' = [pane EXCEPT ![p] = after],
           AreSessions(session'), \A n \in Panes : GoesOn(session[n], session'[n]),
           domain' = domain, channel' = channel, pipe' \in [Panes -> [in : 0 .. Buffer, out : 0 .. Buffer]],
           \A q \in Panes : pipe'[q].out = pipe[q].out, written' = written, events' \in 0 .. MaxEvents,
           PaneGoesOn(pane[p], after),
           pane[p].request = "sent" => after.request = "sent",
           Order(p)',
           after.reader = "ended" =>
              \/ pane[p].reader = "ended" \/ after.gone \/ pane[p].request # "pty"
              \/ ~ channel[p].stdout /\ pipe[p].out = 0
    PROVE  IInv'
PROOF
<1>1. pane'[p] = after /\ \A q \in Panes \ {p} : pane'[q] = pane[q]
  BY DEF IInv, Types
<1>2. Types'
  BY DEF IInv, Types, AreSessions
<1>3. ASSUME NEW q \in Panes, q # p PROVE Order(q)'
  <2>1. Order(q) /\ pane'[q] = pane[q] /\ channel'[q] = channel[q]
    BY <1>1, <1>3 DEF IInv
  <2> QED BY <2>1 DEF Order
<1>4. \A q \in Panes : PaneGoesOn(pane[q], pane'[q]) /\ SentKept(q) /\ Order(q)'
  BY <1>1, <1>3, NothingHappens DEF SentKept
<1>5. \A q \in Panes : ChannelGoesOn(channel[q], channel'[q]) /\ written'[q] = written[q]
  BY NothingHappens
<1>6. \A q \in Panes :
         pane'[q].reader = "ended" =>
            \/ pane[q].reader = "ended" \/ pane'[q].gone \/ pane[q].request # "pty"
            \/ ~ channel[q].stdout /\ pipe[q].out = 0
  BY <1>1
<1> QED BY <1>2, <1>4, <1>5, <1>6, Aside

(* A connector has its pane open.                                          *)
LEMMA Connecting ==
    ASSUME IInv, NEW p \in Panes, pane[p].connector # "none"
    PROVE  pane[p].spawn = "open" /\ pane[p].via \in Panes /\ pane[p] \in PaneStates
PROOF
<1>1. pane[p] \in PaneStates /\ Order(p)
  BY DEF IInv, Types
<1> QED BY <1>1 DEF Order, PaneStates

LEMMA EndConnectorStep ==
    ASSUME IInv, NEW p \in Panes, EndConnector(p), pane[p].connector # "none",
           pane[p].gone \/ pane[p].request \in {"none", "error", "lost", "dead"},
           UNCHANGED <<domain, channel, pipe, written, events>>
    PROVE  IInv'
PROOF
<1> DEFINE after == [pane[p] EXCEPT !.connector = "ended"]
<1>1. pane[p] \in PaneStates /\ pane[p].spawn = "open"
  BY Connecting
<1>2. after \in PaneStates /\ PaneGoesOn(pane[p], after)
  BY <1>1 DEF PaneStates, PaneGoesOn, PaneLater
<1>3. pane' = [pane EXCEPT ![p] = after] /\ session' = DropSession(session, p)
  BY DEF EndConnector
<1>4. AreSessions(session') /\ \A n \in Panes : GoesOn(session[n], session'[n])
  BY <1>3, DropGoesOn, NothingHappens
<1>5. pane'[p] = after /\ Order(p)
  BY <1>3 DEF IInv, Types
<1>6. Order(p)'
  BY <1>1, <1>5 DEF Order, PaneStates
<1>7. after.request = pane[p].request /\ after.reader = pane[p].reader
  BY <1>1 DEF PaneStates
<1> HIDE DEF after
<1>8. pipe' \in [Panes -> [in : 0 .. Buffer, out : 0 .. Buffer]] /\ events' \in 0 .. MaxEvents
  BY DEF IInv, Types
<1> QED BY <1>2, <1>3, <1>4, <1>6, <1>7, <1>8, PaneStep

(* The state of one session moves on, and nothing else.                    *)
LEMMA SessionStep ==
    ASSUME IInv, AreSessions(session'), \A n \in Panes : GoesOn(session[n], session'[n]),
           UNCHANGED <<domain, pane, channel, pipe, written>>, events' \in 0 .. MaxEvents
    PROVE  IInv'
PROOF
<1>1. Types'
  BY DEF IInv, Types, AreSessions
<1>2. \A q \in Panes : PaneGoesOn(pane[q], pane'[q]) /\ SentKept(q)
  BY NothingHappens DEF SentKept
<1>3. \A q \in Panes : Order(q)'
  BY DEF IInv, Order
<1>4. \A q \in Panes : ChannelGoesOn(channel[q], channel'[q])
  BY NothingHappens
<1> QED BY <1>1, <1>2, <1>3, <1>4, Aside

LEMMA SessionChanges ==
    ASSUME IInv, NEW n \in Panes, NEW after \in Sessions, session' = [session EXCEPT ![n] = after],
           after.requests = session[n].requests, Later(session[n], after)
    PROVE  AreSessions(session') /\ \A m \in Panes : GoesOn(session[m], session'[m])
PROOF
<1>1. session'[n] = after /\ \A m \in Panes \ {n} : session'[m] = session[m]
  BY DEF IInv, Types
<1>2. AreSessions(session')
  BY <1>1 DEF IInv, Types, AreSessions
<1>3. GoesOn(session[n], after)
  BY DEF GoesOn, Longer
<1> QED BY <1>1, <1>2, <1>3, NothingHappens

LEMMA AnswerStep == ASSUME IInv, NEW p \in Panes, Answer(p) PROVE IInv'
PROOF
<1>1. pane[p].connector = "events" /\ session[p].at = "asking"
      /\ UNCHANGED <<domain, channel, pipe, written, events>>
  BY DEF Answer
<1>2. CASE session' = [session EXCEPT ![p].at = "answered"] /\ UNCHANGED pane
  <2> DEFINE after == [session[p] EXCEPT !.at = "answered"]
  <2>1. session[p] \in Sessions
    BY DEF IInv, Types
  <2>2. after \in Sessions /\ after.requests = session[p].requests /\ Later(session[p], after)
    BY <1>1, <2>1 DEF Sessions, Later, EarlyPlaces
  <2>3. session' = [session EXCEPT ![p] = after]
    BY <1>2
  <2> HIDE DEF after
  <2>4. AreSessions(session') /\ \A m \in Panes : GoesOn(session[m], session'[m])
    BY <2>2, <2>3, SessionChanges
  <2>5. events' \in 0 .. MaxEvents
    BY <1>1 DEF IInv, Types
  <2> QED BY <1>1, <1>2, <2>4, <2>5, SessionStep
<1>3. CASE EndConnector(p)
  <2>1. pane[p].request = "none"
    BY <1>1 DEF IInv, Order
  <2> QED BY <1>1, <1>3, <2>1, EndConnectorStep
<1> QED BY <1>2, <1>3 DEF Answer

(* The pane is ready for a pty: its size then is that of the request.      *)
LEMMA RequestStep ==
    ASSUME IInv, NEW p \in Panes, pane[p].connector = "events",
           pane' = [pane EXCEPT ![p].connector = "requesting", ![p].request = "sending"],
           channel' = [channel EXCEPT ![p].size = pane[p].size],
           UNCHANGED <<domain, session, pipe, written, events>>
    PROVE  IInv'
PROOF
<1> DEFINE after == [pane[p] EXCEPT !.connector = "requesting", !.request = "sending"]
           sized == [channel[p] EXCEPT !.size = pane[p].size]
<1>1. pane[p] \in PaneStates /\ pane[p].spawn = "open" /\ pane[p].via \in Panes
  BY Connecting
<1>2. channel[p] \in Channels /\ Order(p) /\ Made(p) /\ pane[p].request = "none"
  BY DEF IInv, Types, Order
<1>3. ~ channel[p].open
  BY <1>2 DEF Made, Unmade
<1>4. after \in PaneStates /\ PaneGoesOn(pane[p], after)
  BY <1>1, <1>2 DEF PaneStates, PaneGoesOn, PaneLater
<1>5. sized \in Channels /\ ChannelGoesOn(channel[p], sized)
  BY <1>1, <1>2, <1>3 DEF PaneStates, Channels, ChannelGoesOn
<1>6. /\ pane' \in [Panes -> PaneStates] /\ pane'[p] = after
      /\ \A q \in Panes \ {p} : pane'[q] = pane[q]
  BY <1>4 DEF IInv, Types
<1>7. /\ channel' \in [Panes -> Channels] /\ channel'[p] = sized
      /\ \A q \in Panes \ {p} : channel'[q] = channel[q]
  BY <1>5 DEF IInv, Types
<1>8. Order(p)'
  BY <1>1, <1>2, <1>6, <1>7 DEF Order, PaneStates
<1>9. after.reader = pane[p].reader /\ pane[p].request # "sent"
  BY <1>1, <1>2 DEF PaneStates
<1> HIDE DEF after, sized
<1>10. Types'
  BY <1>6, <1>7 DEF IInv, Types
<1>11. \A q \in Panes : PaneGoesOn(pane[q], pane'[q]) /\ SentKept(q)
  BY <1>4, <1>6, <1>9, NothingHappens DEF SentKept
<1>12. \A q \in Panes : ChannelGoesOn(channel[q], channel'[q])
  BY <1>5, <1>7, NothingHappens
<1>13. ASSUME NEW q \in Panes, q # p PROVE Order(q)'
  <2>1. Order(q) /\ pane'[q] = pane[q] /\ channel'[q] = channel[q]
    BY <1>6, <1>7, <1>13 DEF IInv
  <2> QED BY <2>1 DEF Order
<1>14. \A q \in Panes : pane'[q].reader = pane[q].reader
  BY <1>6, <1>9
<1> QED BY <1>8, <1>10, <1>11, <1>12, <1>13, <1>14, NothingHappens, Aside

LEMMA HearEventStep == ASSUME IInv, NEW p \in Panes, HearEvent(p) PROVE IInv'
PROOF
<1>1. pane[p].connector = "events" /\ UNCHANGED <<domain, pipe, written, events>>
  BY DEF HearEvent
<1>2. CASE /\ pane' = [pane EXCEPT ![p].connector = "requesting", ![p].request = "sending"]
           /\ channel' = [channel EXCEPT ![p].size = pane[p].size]
           /\ UNCHANGED session
  BY <1>1, <1>2, RequestStep
<1>3. CASE EndConnector(p) /\ UNCHANGED channel
  <2>1. pane[p].request = "none"
    BY <1>1 DEF IInv, Order
  <2> QED BY <1>1, <1>3, <2>1, EndConnectorStep
<1> QED BY <1>2, <1>3 DEF HearEvent

LEMMA HandOverStep == ASSUME IInv, NEW p \in Panes, HandOver(p) PROVE IInv'
PROOF
<1>1. pane[p].connector = "requesting" /\ UNCHANGED <<domain, channel, pipe, written, events>>
  BY DEF HandOver
<1>2. pane[p] \in PaneStates /\ pane[p].spawn = "open" /\ pane[p].via \in Panes /\ Order(p)
  BY <1>1, Connecting DEF IInv
<1>3. CASE /\ pane[p].request = "pty" /\ UNCHANGED session
           /\ pane' = [pane EXCEPT ![p].connector = "handing", ![p].pty = "held"]
  <2> DEFINE after == [pane[p] EXCEPT !.connector = "handing", !.pty = "held"]
  <2>1. pane[p].pty = "none" /\ pane[p].request = "pty"
    BY <1>1, <1>2, <1>3 DEF Order
  <2>2. after \in PaneStates /\ PaneGoesOn(pane[p], after)
    BY <1>2, <2>1 DEF PaneStates, PaneGoesOn, PaneLater
  <2>3. pane' = [pane EXCEPT ![p] = after]
    BY <1>3
  <2>4. pane'[p] = after
    BY <2>3 DEF IInv, Types
  <2>5. Order(p)'
    BY <1>1, <1>2, <2>1, <2>4 DEF Order, PaneStates
  <2>6. after.reader = pane[p].reader /\ after.request = pane[p].request
    BY <1>2 DEF PaneStates
  <2> HIDE DEF after
  <2>7. pipe' \in [Panes -> [in : 0 .. Buffer, out : 0 .. Buffer]] /\ events' \in 0 .. MaxEvents
    BY <1>1 DEF IInv, Types
  <2> QED BY <1>1, <1>3, <2>2, <2>3, <2>5, <2>6, <2>7, NothingHappens, PaneStep
<1>4. CASE /\ \/ pane[p].request = "pty" /\ pane[p].gone
              \/ pane[p].request \in {"error", "lost", "dead"}
           /\ EndConnector(p)
  BY <1>1, <1>4, EndConnectorStep
<1> QED BY <1>3, <1>4 DEF HandOver

LEMMA HandChildStep == ASSUME IInv, NEW p \in Panes, HandChild(p) PROVE IInv'
PROOF
<1> DEFINE after == [pane[p] EXCEPT !.connector = "done"]
<1>1. pane[p].connector = "handing" /\ UNCHANGED <<domain, channel, pipe, written, events>>
  BY DEF HandChild
<1>2. pane[p] \in PaneStates /\ pane[p].spawn = "open" /\ pane[p].via \in Panes /\ Order(p)
  BY <1>1, Connecting DEF IInv
<1>3. pane[p].request = "pty"
  BY <1>1, <1>2 DEF Order
<1>4. after \in PaneStates /\ PaneGoesOn(pane[p], after)
  BY <1>2 DEF PaneStates, PaneGoesOn, PaneLater
<1>5. pane' = [pane EXCEPT ![p] = after] /\ session' = DropSession(session, p)
  BY DEF HandChild
<1>6. AreSessions(session') /\ \A n \in Panes : GoesOn(session[n], session'[n])
  BY <1>5, DropGoesOn, NothingHappens
<1>7. pane'[p] = after
  BY <1>5 DEF IInv, Types
<1>8. Order(p)'
  BY <1>1, <1>2, <1>3, <1>7 DEF Order, PaneStates
<1>9. after.reader = pane[p].reader /\ after.request = pane[p].request
  BY <1>2 DEF PaneStates
<1> HIDE DEF after
<1>10. pipe' \in [Panes -> [in : 0 .. Buffer, out : 0 .. Buffer]] /\ events' \in 0 .. MaxEvents
  BY <1>1 DEF IInv, Types
<1> QED BY <1>1, <1>4, <1>5, <1>6, <1>8, <1>9, <1>10, PaneStep

(* The waiter for the process of a pane.                                   *)
LEMMA WaitStep == ASSUME IInv, NEW p \in Panes, Wait(p) PROVE IInv'
PROOF
<1>1. UNCHANGED <<domain, channel, pipe, written, events>> /\ pane[p] \in PaneStates /\ Order(p)
  BY DEF Wait, IInv, Types
<1>2. PICK place \in {"status", "ended"} :
         /\ pane' = [pane EXCEPT ![p].waiter = place]
         /\ \/ session' = session
            \/ /\ session' = TrySend(session, pane[p].via, Request("signal", p))
               /\ pane[p].connector = "done"
  BY DEF Wait
<1> DEFINE after == [pane[p] EXCEPT !.waiter = place]
<1>3. after \in PaneStates /\ PaneGoesOn(pane[p], after)
  BY <1>1 DEF PaneStates, PaneGoesOn, PaneLater
<1>4. pane' = [pane EXCEPT ![p] = after]
  BY <1>2
<1>5. AreSessions(session') /\ \A n \in Panes : GoesOn(session[n], session'[n])
  <2>1. CASE session' = session
    BY <2>1, NothingHappens
  <2>2. CASE session' = TrySend(session, pane[p].via, Request("signal", p))
             /\ pane[p].connector = "done"
    <3>1. Request("signal", p) \in Requests /\ Request("signal", p).op = "signal"
      BY DEF Request, Requests
    <3>2. pane[p].via \in Panes
      BY <2>2, Connecting
    <3> QED BY <2>2, <3>1, <3>2, TrySendGoesOn, NothingHappens
  <2> QED BY <1>2, <2>1, <2>2
<1>6. pane'[p] = after
  BY <1>4 DEF IInv, Types
<1>7. Order(p)'
  BY <1>1, <1>6 DEF Order, PaneStates
<1>8. after.reader = pane[p].reader /\ after.request = pane[p].request
  BY <1>1 DEF PaneStates
<1> HIDE DEF after
<1>9. pipe' \in [Panes -> [in : 0 .. Buffer, out : 0 .. Buffer]] /\ events' \in 0 .. MaxEvents
  BY <1>1 DEF IInv, Types
<1> QED BY <1>1, <1>3, <1>4, <1>5, <1>7, <1>8, <1>9, PaneStep

(* The reader moves on without output.                                     *)
LEMMA ReaderStep ==
    ASSUME IInv, NEW p \in Panes, NEW place \in {"session", "ended"},
           pane' = [pane EXCEPT ![p].reader = place],
           pane[p].spawn = "open",
           place = "session" => pane[p].request = "pty",
           place = "ended" => \/ pane[p].connector = "ended"
                              \/ pane[p].request = "pty" /\ ~ channel[p].stdout /\ pipe[p].out = 0,
           UNCHANGED <<domain, session, channel, pipe, written, events>>
    PROVE  IInv'
PROOF
<1> DEFINE after == [pane[p] EXCEPT !.reader = place]
<1>1. pane[p] \in PaneStates /\ Order(p)
  BY DEF IInv, Types
<1>2. after \in PaneStates /\ PaneGoesOn(pane[p], after)
  BY <1>1 DEF PaneStates, PaneGoesOn, PaneLater
<1>3. pane' = [pane EXCEPT ![p] = after]
  OBVIOUS
<1>4. pane'[p] = after
  BY <1>3 DEF IInv, Types
<1>5. Order(p)'
  BY <1>1, <1>4 DEF Order, PaneStates
<1>6. /\ after.reader = place /\ after.request = pane[p].request /\ after.gone = pane[p].gone
      /\ place = "ended" => \/ pane[p].gone \/ pane[p].request # "pty"
                            \/ ~ channel[p].stdout /\ pipe[p].out = 0
  BY <1>1 DEF PaneStates, Order
<1> HIDE DEF after
<1>7. pipe' \in [Panes -> [in : 0 .. Buffer, out : 0 .. Buffer]] /\ events' \in 0 .. MaxEvents
  BY DEF IInv, Types
<1> QED BY <1>2, <1>3, <1>5, <1>6, <1>7, NothingHappens, PaneStep

(* Output is shown; only the reader of a pane that is gone ends then.      *)
LEMMA ShowStep ==
    ASSUME IInv, NEW p \in Panes, pane[p].reader = "session", pipe[p].out > 0,
           pipe' = [pipe EXCEPT ![p].out = 0],
           written' = [written EXCEPT ![p].shown = @ + pipe[p].out],
           \/ UNCHANGED pane
           \/ pane[p].gone /\ pane' = [pane EXCEPT ![p].reader = "ended"],
           UNCHANGED <<domain, session, channel, events>>
    PROVE  IInv'
PROOF
<1>1. /\ pane[p] \in PaneStates /\ written[p] \in [program : Nat, shown : Nat]
      /\ pipe[p] \in [in : 0 .. Buffer, out : 0 .. Buffer] /\ Order(p) /\ Complete(p)
  BY DEF IInv, Types
<1>2. /\ pipe'[p] = [pipe[p] EXCEPT !.out = 0]
      /\ written'[p] = [written[p] EXCEPT !.shown = @ + pipe[p].out]
      /\ \A q \in Panes \ {p} : pipe'[q] = pipe[q] /\ written'[q] = written[q]
  BY DEF IInv, Types
<1>3. \/ pane'[p] = pane[p]
      \/ pane[p].gone /\ pane'[p] = [pane[p] EXCEPT !.reader = "ended"]
  BY DEF IInv, Types
<1>4. \A q \in Panes \ {p} : pane'[q] = pane[q]
  BY DEF IInv, Types
<1>5. pipe'[p].out = 0 /\ written'[p].program = written[p].program
      /\ written'[p].shown = written[p].shown + pipe[p].out
  BY <1>1, <1>2
<1>6. Types'
  <2>1. pane'[p] \in PaneStates /\ pipe'[p] \in [in : 0 .. Buffer, out : 0 .. Buffer]
    BY <1>1, <1>2, <1>3, BoundsAssumption DEF PaneStates
  <2>2. written'[p] \in [program : Nat, shown : Nat]
    BY <1>1, <1>2
  <2>3. /\ pane' = [pane EXCEPT ![p] = pane'[p]]
        /\ pipe' = [pipe EXCEPT ![p] = pipe'[p]]
        /\ written' = [written EXCEPT ![p] = written'[p]]
    BY DEF IInv, Types
  <2>4. /\ pane' \in [Panes -> PaneStates]
        /\ pipe' \in [Panes -> [in : 0 .. Buffer, out : 0 .. Buffer]]
        /\ written' \in [Panes -> [program : Nat, shown : Nat]]
    BY <2>1, <2>2, <2>3 DEF IInv, Types
  <2> QED BY <2>4 DEF IInv, Types
<1>7. pane[p].request = "pty"
  BY <1>1 DEF Order
<1>8. PaneGoesOn(pane[p], pane'[p]) /\ Order(p)' /\ SentKept(p)
      /\ pane'[p].via = pane[p].via /\ (~ pane'[p].gone => pane'[p].reader = "session" /\ ~ pane[p].gone)
  BY <1>1, <1>3, <1>7 DEF PaneGoesOn, PaneLater, Order, PaneStates, SentKept
<1>9. \A q \in Panes : PaneGoesOn(pane[q], pane'[q]) /\ Order(q)' /\ SentKept(q)
  BY <1>4, <1>8, NothingHappens DEF Order, SentKept
<1>10. \A q \in Panes : Unmade(q) => Unmade(q)'
  BY <1>1, <1>2 DEF Unmade
<1>11. \A q \in Panes : Fresh(q)' /\ Made(q)' /\ Early(q)'
  BY <1>9, <1>10, ShapeKept, NothingHappens DEF GoesOn, PaneGoesOn
<1>12. \A q \in Panes : Queued(q)'
  BY <1>9, QueueKept, NothingHappens DEF PaneGoesOn, PaneLater, GoesOn
<1>13. \A q \in Panes : Sized(q)'
  BY <1>9, SizeKept
<1>14. Complete(p)'
  <2>1. ASSUME ~ pane[p].gone, ~ session[pane[p].via].broken
        PROVE  written'[p].program =
                  written'[p].shown + pipe'[p].out + channel[p].output + channel[p].arrived
    <3>1. channel[p] \in Channels
      BY DEF IInv, Types
    <3>2. written[p].program =
             written[p].shown + pipe[p].out + channel[p].output + channel[p].arrived
      BY <1>1, <1>7, <2>1 DEF Complete
    <3>3. /\ channel[p].output \in Nat /\ channel[p].arrived \in Nat
          /\ pipe[p].out \in Nat /\ written[p].shown \in Nat
      BY <1>1, <3>1, BoundsAssumption DEF Channels
    <3> QED BY <1>5, <3>2, <3>3
  <2> QED BY <1>1, <1>5, <1>7, <1>8, <2>1 DEF Complete, PaneGoesOn, PaneLater
<1>15. ASSUME NEW q \in Panes, q # p PROVE Complete(q)'
  BY <1>2, <1>4, <1>15 DEF IInv, Complete
<1> QED BY <1>6, <1>9, <1>11, <1>12, <1>13, <1>14, <1>15 DEF IInv

LEMMA ReadStep == ASSUME IInv, NEW p \in Panes, Read(p) PROVE IInv'
PROOF
<1>1. Order(p) /\ pane[p] \in PaneStates
  BY DEF IInv, Types
<1>2. pane[p].reader # "none" => pane[p].spawn = "open"
  BY <1>1 DEF Order, PaneStates
<1>3. pane[p].reader = "session" => pane[p].request = "pty"
  BY <1>1 DEF Order
<1>4. pane[p].connector = "done" => pane[p].request = "pty"
  BY <1>1 DEF Order
<1>5. CASE /\ pane[p].reader = "dialog" /\ pane[p].connector \in {"done", "ended"}
           /\ pane' = [pane EXCEPT ![p].reader =
                          IF pane[p].connector = "done" THEN "session" ELSE "ended"]
           /\ UNCHANGED <<domain, session, channel, pipe, written, events>>
  BY <1>2, <1>4, <1>5, ReaderStep
<1>6. CASE /\ pane[p].reader = "session" /\ pipe[p].out > 0
           /\ pipe' = [pipe EXCEPT ![p].out = 0]
           /\ written' = [written EXCEPT ![p].shown = @ + pipe[p].out]
           /\ \/ UNCHANGED pane
              \/ pane[p].gone /\ pane' = [pane EXCEPT ![p].reader = "ended"]
           /\ UNCHANGED <<domain, session, channel, events>>
  BY <1>6, ShowStep
<1>7. CASE /\ pane[p].reader = "session" /\ pipe[p].out = 0 /\ ~ channel[p].stdout
           /\ pane' = [pane EXCEPT ![p].reader = "ended"]
           /\ UNCHANGED <<domain, session, channel, pipe, written, events>>
  BY <1>2, <1>3, <1>7, ReaderStep
<1> QED BY <1>5, <1>6, <1>7 DEF Read

(* A request for a pty is queued, or finds that its session has ended.     *)
LEMMA RequestDeadStep ==
    ASSUME IInv, NEW p \in Panes, pane[p].request = "sending",
           pane' = [pane EXCEPT ![p].request = "dead"],
           UNCHANGED <<domain, session, channel, pipe, written, events>>
    PROVE  IInv'
PROOF
<1> DEFINE after == [pane[p] EXCEPT !.request = "dead"]
<1>1. pane[p] \in PaneStates /\ Order(p)
  BY DEF IInv, Types
<1>2. after \in PaneStates /\ PaneGoesOn(pane[p], after)
  BY <1>1 DEF PaneStates, PaneGoesOn, PaneLater
<1>3. pane' = [pane EXCEPT ![p] = after]
  OBVIOUS
<1>4. pane'[p] = after
  BY <1>3 DEF IInv, Types
<1>5. Order(p)'
  BY <1>1, <1>4 DEF Order, PaneStates
<1>6. after.reader = pane[p].reader
  BY <1>1 DEF PaneStates
<1> HIDE DEF after
<1>7. pipe' \in [Panes -> [in : 0 .. Buffer, out : 0 .. Buffer]] /\ events' \in 0 .. MaxEvents
  BY DEF IInv, Types
<1> QED BY <1>2, <1>3, <1>5, <1>6, <1>7, NothingHappens, PaneStep

(* A request that a queue takes is its last one.                           *)
LEMMA Taken ==
    ASSUME IInv, NEW n \in Panes, NEW request \in Requests, Takes(n),
           session' = [session EXCEPT ![n].requests = Append(@, request)]
    PROVE  /\ AreSessions(session')
           /\ \A m \in Panes : Later(session[m], session'[m])
           /\ \A m \in Panes : DOMAIN session[m].requests \subseteq DOMAIN session'[m].requests
           /\ \A m \in Panes : \A i \in DOMAIN session[m].requests :
                 session'[m].requests[i] = session[m].requests[i]
           /\ \A m \in Panes : \A i \in DOMAIN session'[m].requests \ DOMAIN session[m].requests :
                 m = n /\ i = Len(session[n].requests) + 1 /\ session'[m].requests[i] = request
           /\ Len(session[n].requests) \in Nat
           /\ DOMAIN session[n].requests = 1 .. Len(session[n].requests)
           /\ DOMAIN session'[n].requests = 1 .. Len(session[n].requests) + 1
           /\ session'[n].requests[Len(session[n].requests) + 1] = request
PROOF
<1>1. /\ AreSessions(session')
      /\ \A m \in Panes \ {n} : session'[m] = session[m]
      /\ session'[n].requests = Append(session[n].requests, request)
      /\ Later(session[n], session'[n])
  <2> DEFINE added == [session EXCEPT ![n].requests = Append(@, request)]
  <2>1. AreSessions(session) /\ Len(session[n].requests) < QueueSize
    BY NothingHappens DEF Takes
  <2>2. /\ AreSessions(added)
        /\ \A m \in Panes \ {n} : added[m] = session[m]
        /\ added[n].requests = Append(session[n].requests, request)
        /\ Later(session[n], added[n])
    BY <2>1, RequestAdded
  <2>3. session' = added
    OBVIOUS
  <2> HIDE DEF added
  <2> QED BY <2>2, <2>3
<1>2. session[n].requests \in Seq(Requests)
  BY DEF IInv, Types, Sessions
<1>3. /\ Len(session[n].requests) \in Nat
      /\ DOMAIN session[n].requests = 1 .. Len(session[n].requests)
      /\ DOMAIN session'[n].requests = 1 .. Len(session[n].requests) + 1
      /\ \A i \in DOMAIN session[n].requests : session'[n].requests[i] = session[n].requests[i]
      /\ session'[n].requests[Len(session[n].requests) + 1] = request
  BY <1>1, <1>2, Requested
<1>4. \A m \in Panes : Later(session[m], session'[m])
  BY <1>1, NothingHappens DEF GoesOn
<1>5. \A m \in Panes : /\ DOMAIN session[m].requests \subseteq DOMAIN session'[m].requests
                       /\ \A i \in DOMAIN session[m].requests :
                             session'[m].requests[i] = session[m].requests[i]
  BY <1>1, <1>3
<1>6. \A m \in Panes : \A i \in DOMAIN session'[m].requests \ DOMAIN session[m].requests :
         m = n /\ i = Len(session[n].requests) + 1 /\ session'[m].requests[i] = request
  BY <1>1, <1>3
<1> QED BY <1>1, <1>3, <1>4, <1>5, <1>6

(* What is in a queue is a request.                                        *)
LEMMA InQueue ==
    ASSUME IInv, NEW n \in Panes, NEW i \in DOMAIN session[n].requests
    PROVE  session[n].requests[i] \in Requests /\ session[n].requests[i].pane \in Panes
PROOF
<1>1. session[n] \in Sessions
  BY DEF IInv, Types
<1>2. session[n].requests \in Seq(Requests)
  BY <1>1 DEF Sessions
<1>3. session[n].requests[i] \in Requests
  BY <1>2
<1> QED BY <1>3 DEF Requests

\* The queue of no session names the pane, so it is named once from now on.
LEMMA RequestSentStep ==
    ASSUME IInv, NEW p \in Panes, pane[p].request = "sending", Takes(pane[p].via),
           session' = [session EXCEPT ![pane[p].via].requests = Append(@, Request("pty", p))],
           pane' = [pane EXCEPT ![p].request = "sent"],
           UNCHANGED <<domain, channel, pipe, written, events>>
    PROVE  IInv'
PROOF
<1>1. PICK n \in Panes : pane[p].via = n
  BY ONLY IInv, p \in Panes, pane[p].request = "sending" DEF IInv, Order
<1>2. PICK request \in Requests :
         request = Request("pty", p) /\ request.op = "pty" /\ request.pane = p
  BY DEF Request, Requests
<1>3. Takes(n) /\ session' = [session EXCEPT ![n].requests = Append(@, request)]
  BY ONLY <1>1, <1>2, Takes(pane[p].via),
     session' = [session EXCEPT ![pane[p].via].requests = Append(@, Request("pty", p))], SMTT(30)
<1>4. /\ AreSessions(session')
      /\ \A m \in Panes : Later(session[m], session'[m])
      /\ \A m \in Panes : DOMAIN session[m].requests \subseteq DOMAIN session'[m].requests
      /\ \A m \in Panes : \A i \in DOMAIN session[m].requests :
            session'[m].requests[i] = session[m].requests[i]
      /\ \A m \in Panes : \A i \in DOMAIN session'[m].requests \ DOMAIN session[m].requests :
            m = n /\ i = Len(session[n].requests) + 1 /\ session'[m].requests[i] = request
  BY <1>3, Taken
<1>5. pane'[p] = [pane[p] EXCEPT !.request = "sent"] /\ \A q \in Panes \ {p} : pane'[q] = pane[q]
  BY DEF IInv, Types
<1>6. pane[p] \in PaneStates /\ Order(p)
  BY DEF IInv, Types
<1>7. PaneGoesOn(pane[p], pane'[p]) /\ Order(p)' /\ pane'[p] \in PaneStates
      /\ pane'[p].request = "sent" /\ pane'[p].reader = pane[p].reader /\ pane'[p].via = n
  BY <1>1, <1>5, <1>6 DEF PaneGoesOn, PaneLater, Order, PaneStates
<1>8. \A q \in Panes : PaneGoesOn(pane[q], pane'[q]) /\ PaneLater(pane[q], pane'[q]) /\ Order(q)'
  BY <1>5, <1>7, NothingHappens DEF Order, PaneGoesOn
<1>9. Types'
  <2>1. pane' = [pane EXCEPT ![p] = pane'[p]]
    BY DEF IInv, Types
  <2>2. pane' \in [Panes -> PaneStates]
    BY ONLY IInv, p \in Panes, <1>7, <2>1 DEF IInv, Types
  <2> QED BY <1>4, <2>2 DEF IInv, Types, AreSessions
<1>10. \A q \in Panes : Fresh(q)' /\ Made(q)' /\ Early(q)'
  <2>1. \A q \in Panes : Unmade(q) => Unmade(q)'
    BY DEF Unmade
  <2> QED BY <1>4, <1>8, <2>1, ShapeKept
<1>11. ASSUME NEW m \in Panes PROVE Queued(m)'
  <2>1. SUFFICES ASSUME session'[m].at # "ended",
                      NEW after, after = session'[m].requests,
                      NEW i \in DOMAIN after, after[i].op = "pty"
               PROVE  /\ pane'[after[i].pane].request = "sent" /\ pane'[after[i].pane].via = m
                      /\ \A j \in DOMAIN after :
                            after[j].op = "pty" /\ after[j].pane = after[i].pane => j = i
    BY ZenonT(30) DEF Queued
  <2>2. PICK queue : queue = session[m].requests
    BY Zenon
  <2>3. Queued(m) /\ session[m].at # "ended"
    BY <1>4, <2>1 DEF IInv, Later
  <2>4. ASSUME NEW j \in DOMAIN queue, queue[j].op = "pty"
        PROVE  /\ queue[j].pane \in Panes \ {p}
               /\ pane[queue[j].pane].request = "sent" /\ pane[queue[j].pane].via = m
               /\ \A k \in DOMAIN queue :
                     queue[k].op = "pty" /\ queue[k].pane = queue[j].pane => k = j
    BY ONLY IInv, m \in Panes, p \in Panes, pane[p].request = "sending", <2>2, <2>3, <2>4,
            InQueue DEF Queued
  <2>5. /\ \A j \in DOMAIN queue : after[j] = queue[j]
        /\ \A j \in DOMAIN after \ DOMAIN queue :
              m = n /\ j = Len(session[n].requests) + 1 /\ after[j] = request
    BY ONLY m \in Panes, n \in Panes, <1>4, <2>1, <2>2
  <2>6. after[i].op = "pty"
    BY <2>1
  <2>7. CASE i \in DOMAIN queue
    BY <1>2, <1>5, <2>4, <2>5, <2>6, <2>7
  <2>8. CASE i \notin DOMAIN queue
    BY <1>2, <1>7, <2>4, <2>5, <2>6, <2>8
  <2> QED BY <2>7, <2>8
<1>12. ASSUME NEW q \in Panes PROVE Sized(q)'
  <2>1. \A m \in Panes :
           LET queue == session[m].requests
               after == session'[m].requests
           IN /\ DOMAIN queue \subseteq DOMAIN after
              /\ \A i \in DOMAIN queue : after[i] = queue[i]
              /\ \A i \in DOMAIN after \ DOMAIN queue : ~ IsResize(after[i], q)
    BY <1>2, <1>4, Zenon DEF IsResize
  <2> QED BY ONLY IInv, q \in Panes, UNCHANGED channel, <1>8, <2>1, SizeKept
<1>13. ASSUME NEW q \in Panes PROVE Complete(q)'
  <2>1. \A m \in Panes : session[m].broken => session'[m].broken
    BY <1>4, Zenon DEF Later
  <2>2. pane'[q].reader = pane[q].reader
    BY <1>5, <1>7
  <2> QED BY ONLY IInv, q \in Panes, UNCHANGED <<channel, pipe, written>>, <1>8, <2>1, <2>2,
                  NothingHappens, OutputKept
<1> QED BY <1>8, <1>9, <1>10, <1>11, <1>12, <1>13 DEF IInv

LEMMA RequestPtyStep == ASSUME IInv, NEW p \in Panes, RequestPty(p) PROVE IInv'
  BY RequestDeadStep, RequestSentStep DEF RequestPty

(* Events are counted up to their bound.                                   *)
LEMMA Counted ==
    ASSUME IInv, NEW n \in Nat, Counts(n)
    PROVE  events' \in 0 .. MaxEvents
PROOF
  BY BoundsAssumption DEF IInv, Types, Counts

LEMMA TypeStep == ASSUME IInv, NEW p \in Panes, Type(p) PROVE IInv'
PROOF
<1>1. /\ pipe[p].in < Buffer /\ pipe[p] \in [in : 0 .. Buffer, out : 0 .. Buffer]
      /\ pipe' = [pipe EXCEPT ![p].in = IF channel[p].stdin THEN @ + 1 ELSE @]
      /\ UNCHANGED <<domain, session, pane, channel, written>>
      /\ pane[p] \in PaneStates /\ Order(p)
  BY DEF Type, IInv, Types
<1>2. PICK input \in 0 .. Buffer : pipe' = [pipe EXCEPT ![p].in = input]
  <2>1. pipe[p].in + 1 \in 0 .. Buffer /\ pipe[p].in \in 0 .. Buffer
    BY <1>1, BoundsAssumption
  <2> QED BY <1>1, <2>1
<1>3. /\ pipe' \in [Panes -> [in : 0 .. Buffer, out : 0 .. Buffer]]
      /\ \A q \in Panes : pipe'[q].out = pipe[q].out
  BY <1>2 DEF IInv, Types
<1>4. events' \in 0 .. MaxEvents
  BY Counted DEF Type, Happens
<1>5. pane' = [pane EXCEPT ![p] = pane[p]]
  BY <1>1 DEF IInv, Types
<1>6. Order(p)'
  BY <1>1 DEF Order
<1> QED BY <1>1, <1>3, <1>4, <1>5, <1>6, NothingHappens, PaneStep

(* Close, with its two kills.                                              *)
LEMMA CloseStep == ASSUME IInv, NEW p \in Panes, Close(p) PROVE IInv'
PROOF
<1> DEFINE pending == pane[p].pendingKill \/ pane[p].waiter = "child"
           after == [[pane[p] EXCEPT !.pendingKill = pending] EXCEPT !.gone = TRUE]
<1>1. /\ pane[p] \in PaneStates /\ Order(p) /\ pane[p].spawn = "open"
      /\ UNCHANGED <<domain, channel, pipe, written>>
      /\ session' = Kill(Kill(session, p), p)
      /\ pane' = [pane EXCEPT ![p].gone = TRUE, ![p].pendingKill = pending]
  BY DEF Close, IInv, Types
<1>2. pane[p].via \in Panes
  BY <1>1 DEF Order
<1>3. pane[p].pendingKill \in BOOLEAN
  BY <1>1 DEF PaneStates
<1>4. pending \in BOOLEAN
  BY <1>3, Zenon
<1> HIDE DEF pending
<1>5. pane' = [pane EXCEPT ![p] = [[pane[p] EXCEPT !.gone = TRUE] EXCEPT !.pendingKill = pending]]
  BY <1>1 DEF IInv, Types
<1>6. [[pane[p] EXCEPT !.gone = TRUE] EXCEPT !.pendingKill = pending] = after
  BY <1>1, <1>4 DEF PaneStates
<1>7. pane' = [pane EXCEPT ![p] = after]
  BY <1>5, <1>6, Zenon
<1>8. after \in PaneStates /\ PaneGoesOn(pane[p], after)
  BY <1>1, <1>4 DEF PaneStates, PaneGoesOn, PaneLater
<1>9. AreSessions(session') /\ \A n \in Panes : GoesOn(session[n], session'[n])
  <2>1. AreSessions(session)
    BY NothingHappens
  <2>2. AreSessions(Kill(session, p)) /\ \A n \in Panes : GoesOn(session[n], Kill(session, p)[n])
    BY <1>2, <2>1, KillGoesOn
  <2>3. PICK once : once = Kill(session, p)
    OBVIOUS
  <2>4. AreSessions(Kill(once, p)) /\ \A n \in Panes : GoesOn(once[n], Kill(once, p)[n])
    BY <1>2, <2>2, <2>3, KillGoesOn
  <2>5. session' = Kill(once, p)
    BY <1>1, <2>3
  <2>6. \A n \in Panes : GoesOn(session[n], once[n]) /\ GoesOn(once[n], session'[n])
    BY <2>2, <2>3, <2>4, <2>5
  <2> QED BY <2>4, <2>5, <2>6, GoesOnTwice
<1>10. pane'[p] = after
  BY <1>7 DEF IInv, Types
<1>11. Order(p)'
  <2>1. /\ after.spawn = pane[p].spawn /\ after.via = pane[p].via
        /\ after.request = pane[p].request /\ after.connector = pane[p].connector
        /\ after.reader = pane[p].reader /\ after.pty = pane[p].pty
        /\ after.size = pane[p].size /\ after.gone
    BY <1>1, <1>4 DEF PaneStates
  <2>2. channel' = channel
    BY <1>1
  <2> HIDE DEF after
  <2> QED BY <1>2, <1>10, <2>1, <2>2, NothingHappens DEF Order
<1>12. after.reader = pane[p].reader /\ after.request = pane[p].request
  BY <1>1 DEF PaneStates
<1>13. events' \in 0 .. MaxEvents /\ pipe' \in [Panes -> [in : 0 .. Buffer, out : 0 .. Buffer]]
  BY <1>1, Counted DEF Close, Happens, IInv, Types
<1> HIDE DEF after
<1> QED BY <1>1, <1>7, <1>8, <1>9, <1>11, <1>12, <1>13, PaneStep

------------------------------------------------------------------------------
(* Sizes.                                                                  *)

\* The last request of a queue is the one whose size counts.
LEMMA SizeSent ==
    ASSUME IInv, NEW p \in Panes, NEW size \in Nat, pane[p].pty # "none",
           Takes(pane[p].via),
           session' = [session EXCEPT ![pane[p].via].requests =
                          Append(@, [Request("resize", p) EXCEPT !.size = size])],
           pane'[p].pty = "connected", pane'[p].size = size, pane'[p].via = pane[p].via,
           \A q \in Panes \ {p} : pane'[q] = pane[q],
           UNCHANGED channel
    PROVE  /\ AreSessions(session')
           /\ \A n \in Panes : Later(session[n], session'[n])
           /\ \A n \in Panes : (\A q \in Panes : pane'[q].via = pane[q].via /\ SentKept(q)) => Queued(n)'
           /\ \A q \in Panes : Sized(q)'
PROOF
<1>1. PICK n \in Panes : pane[p].via = n
  BY DEF IInv, Types, PaneStates, Order
<1>2. PICK request \in Requests :
         /\ request = [Request("resize", p) EXCEPT !.size = size]
         /\ request.op = "resize" /\ request.pane = p /\ request.size = size
  BY DEF Request, Requests
<1>3. Takes(n) /\ session' = [session EXCEPT ![n].requests = Append(@, request)]
  BY ONLY <1>1, <1>2, Takes(pane[p].via),
     session' = [session EXCEPT ![pane[p].via].requests =
                    Append(@, [Request("resize", p) EXCEPT !.size = size])]
<1>4. /\ AreSessions(session')
      /\ \A m \in Panes : Later(session[m], session'[m])
      /\ \A m \in Panes : DOMAIN session[m].requests \subseteq DOMAIN session'[m].requests
      /\ \A m \in Panes : \A i \in DOMAIN session[m].requests :
            session'[m].requests[i] = session[m].requests[i]
      /\ \A m \in Panes : \A i \in DOMAIN session'[m].requests \ DOMAIN session[m].requests :
            m = n /\ i = Len(session[n].requests) + 1 /\ session'[m].requests[i] = request
      /\ Len(session[n].requests) \in Nat
      /\ DOMAIN session[n].requests = 1 .. Len(session[n].requests)
      /\ DOMAIN session'[n].requests = 1 .. Len(session[n].requests) + 1
      /\ session'[n].requests[Len(session[n].requests) + 1] = request
  BY ONLY IInv, n \in Panes, request \in Requests, <1>3, Taken, Zenon
<1>5. ASSUME NEW m \in Panes, \A q \in Panes : pane'[q].via = pane[q].via /\ SentKept(q)
      PROVE  Queued(m)'
  <2>1. LET queue == session[m].requests
            after == session'[m].requests
        IN /\ DOMAIN queue \subseteq DOMAIN after
           /\ \A i \in DOMAIN queue : after[i] = queue[i]
           /\ \A i \in DOMAIN after \ DOMAIN queue : after[i].op # "pty"
    BY <1>2, <1>4, Zenon
  <2> QED BY <1>4, <1>5, <2>1, QueueKept, Zenon
<1>6. ASSUME NEW q \in Panes, q # p PROVE Sized(q)'
  <2>1. PaneGoesOn(pane[q], pane'[q])
    BY <1>6, NothingHappens
  <2>2. \A m \in Panes :
           LET queue == session[m].requests
               after == session'[m].requests
           IN /\ DOMAIN queue \subseteq DOMAIN after
              /\ \A i \in DOMAIN queue : after[i] = queue[i]
              /\ \A i \in DOMAIN after \ DOMAIN queue : ~ IsResize(after[i], q)
    BY ONLY n \in Panes, q \in Panes, <1>2, <1>4, <1>6 DEF IsResize
  <2> QED BY ONLY IInv, q \in Panes, UNCHANGED channel, <2>1, <2>2, SizeKept
<1>7. Sized(p)'
  <2>1. ASSUME NEW m \in Panes, NEW i \in DOMAIN session'[m].requests,
               IsResize(session'[m].requests[i], p)
        PROVE  pane'[p].pty = "connected" /\ pane'[p].via = m
    <3>1. CASE i \in DOMAIN session[m].requests
      <4>1. IsResize(session[m].requests[i], p)
        BY <1>4, <2>1, <3>1, Zenon
      <4> QED BY <3>1, <4>1 DEF IInv, Sized
    <3>2. CASE i \notin DOMAIN session[m].requests
      BY <1>1, <1>4, <3>2
    <3> QED BY <3>1, <3>2
  <2>2. PICK last : last = Len(session[n].requests) + 1
    OBVIOUS
  <2>3. /\ last \in DOMAIN session'[n].requests
        /\ IsResize(session'[n].requests[last], p) /\ session'[n].requests[last].size = size
        /\ \A j \in DOMAIN session'[n].requests : ~ (j > last)
    <3>1. last \in Nat /\ DOMAIN session'[n].requests = 1 .. last
          /\ session'[n].requests[last] = request
      BY ONLY <1>4, <2>2
    <3>4. Len(session[n].requests) \in Nat
      BY <1>4, Zenon
    <3>2. last \in 1 .. last
      BY <2>2, <3>4
    <3>3. \A j \in 1 .. last : ~ (j > last)
      BY ONLY <3>1
    <3> QED BY <1>2, <3>1, <3>2, <3>3 DEF IsResize
  <2>4. LastSize(session'[n].requests, p, channel'[p].size, pane'[p].size)
    BY <2>3, Zenon DEF LastSize
  <2> QED BY <1>1, <2>1, <2>4 DEF Sized, IsResize
<1> QED BY <1>4, <1>5, <1>6, <1>7, Zenon

\* A size that the queue refuses is known to be lost.
LEMMA SizeRefused ==
    ASSUME IInv, NEW p \in Panes,
           pane'[p].pty = "connected", pane'[p].refused, pane'[p].via = pane[p].via,
           \A q \in Panes \ {p} : pane'[q] = pane[q],
           UNCHANGED <<session, channel>>
    PROVE  \A q \in Panes : Sized(q)'
PROOF
<1>1. ASSUME NEW q \in Panes, q # p PROVE Sized(q)'
  <2>1. PaneGoesOn(pane[q], pane'[q])
    BY <1>1, NothingHappens
  <2> QED BY <2>1, SizeKept
<1>2. Sized(p)'
  BY DEF IInv, Sized
<1> QED BY <1>1, <1>2

(* A pty that is there is told a size.                                     *)
LEMMA SendSizeStep ==
    ASSUME IInv, NEW p \in Panes, NEW size \in Nat, SendSize(p, size), pane[p].pty # "none",
           UNCHANGED <<domain, channel, pipe, written>>, events' \in 0 .. MaxEvents
    PROVE  IInv'
PROOF
<1>1. pane[p] \in PaneStates /\ Order(p) /\ pane[p].spawn = "open" /\ pane[p].via \in Panes
  BY DEF IInv, Types, PaneStates, Order
<1>2. PICK refused \in BOOLEAN :
         /\ pane' = [pane EXCEPT ![p].size = size, ![p].refused = refused, ![p].pty = "connected"]
         /\ \/ ~ refused /\ Takes(pane[p].via)
               /\ session' = [session EXCEPT ![pane[p].via].requests =
                                 Append(@, [Request("resize", p) EXCEPT !.size = size])]
            \/ refused /\ UNCHANGED session
  BY Zenon DEF SendSize
<1>3. /\ pane' \in [Panes -> PaneStates] /\ \A q \in Panes \ {p} : pane'[q] = pane[q]
      /\ pane'[p] = [pane[p] EXCEPT !.size = size, !.refused = refused, !.pty = "connected"]
  <2>1. pane \in [Panes -> PaneStates]
    BY ONLY IInv DEF IInv, Types
  <2> DEFINE after == [pane[p] EXCEPT !.size = size, !.refused = refused, !.pty = "connected"]
  <2>2. after \in PaneStates
    BY ONLY <1>1, size \in Nat, refused \in BOOLEAN DEF PaneStates
  <2>3. pane' = [pane EXCEPT ![p] = after]
    BY ONLY <1>2
  <2> HIDE DEF after
  <2>4. pane' \in [Panes -> PaneStates] /\ pane'[p] = after /\ \A q \in Panes \ {p} : pane'[q] = pane[q]
    BY ONLY p \in Panes, <2>1, <2>2, <2>3
  <2> QED BY ONLY <2>4 DEF after
<1>4. /\ pane'[p].size = size /\ pane'[p].pty = "connected" /\ pane'[p].refused = refused
      /\ pane'[p].spawn = "open" /\ pane'[p].via = pane[p].via
      /\ pane'[p].request = pane[p].request /\ pane'[p].connector = pane[p].connector
      /\ pane'[p].reader = pane[p].reader /\ pane'[p].gone = pane[p].gone
  BY <1>1, <1>3 DEF PaneStates
<1>5. \A q \in Panes : PaneLater(pane[q], pane'[q]) /\ SentKept(q) /\ pane'[q].via = pane[q].via
                       /\ pane'[q].reader = pane[q].reader
  <2>1. /\ PaneLater(pane[p], pane'[p]) /\ SentKept(p) /\ pane'[p].via = pane[p].via
        /\ pane'[p].reader = pane[p].reader
    BY <1>1, <1>4 DEF PaneLater, SentKept
  <2>2. ASSUME NEW q \in Panes, q # p
        PROVE  /\ PaneLater(pane[q], pane'[q]) /\ SentKept(q) /\ pane'[q].via = pane[q].via
               /\ pane'[q].reader = pane[q].reader
    <3>1. pane'[q] = pane[q]
      BY <1>3, <2>2
    <3> QED BY <3>1 DEF PaneLater, SentKept
  <2> QED BY <2>1, <2>2
<1>6. ASSUME NEW q \in Panes PROVE Order(q)'
  <2>1. channel'[q] = channel[q] /\ Order(q)
    BY DEF IInv
  <2>2. CASE q = p
    <3>1. pane[p].connector \notin {"events", "requesting"}
      BY <1>1 DEF Order
    <3> QED BY <1>1, <1>4, <2>1, <2>2, <3>1 DEF Order
  <2>3. CASE q # p
    <3>1. pane'[q] = pane[q]
      BY <1>3, <2>3
    <3> QED BY <2>1, <3>1 DEF Order
  <2> QED BY <2>2, <2>3
<1>7. /\ AreSessions(session')
      /\ \A n \in Panes : Later(session[n], session'[n]) /\ Queued(n)' /\ Sized(n)'
  <2>1. CASE ~ refused /\ Takes(pane[p].via)
             /\ session' = [session EXCEPT ![pane[p].via].requests =
                               Append(@, [Request("resize", p) EXCEPT !.size = size])]
    BY <1>3, <1>4, <1>5, <2>1, SizeSent
  <2>2. CASE refused /\ UNCHANGED session
    <3>1. \A n \in Panes : Later(session[n], session'[n])
      BY <2>2, NothingHappens DEF GoesOn
    <3>2. \A n \in Panes : Queued(n)'
      BY <1>5, <2>2, <3>1, QueueKept
    <3>3. \A n \in Panes : Sized(n)'
      BY <1>3, <1>4, <2>2, SizeRefused
    <3> QED BY <2>2, <3>1, <3>2, <3>3, NothingHappens
  <2> QED BY <1>2, <2>1, <2>2, ZenonT(30)
<1>8. Types'
  BY <1>3, <1>7 DEF IInv, Types, AreSessions
<1>9. \A q \in Panes : Fresh(q)' /\ Made(q)' /\ Early(q)'
  <2>1. \A q \in Panes : Unmade(q) => Unmade(q)'
    BY DEF Unmade
  <2> QED BY <1>5, <1>7, <2>1, ShapeKept
<1>10. \A q \in Panes : Complete(q)'
  <2>1. \A n \in Panes : session[n].broken => session'[n].broken
    BY <1>7 DEF Later
  <2> QED BY <1>5, <2>1, NothingHappens, OutputKept
<1> QED BY <1>6, <1>7, <1>8, <1>9, <1>10 DEF IInv

(* Without a pty the size is kept for the time when there is one.          *)
LEMMA KeepSizeStep ==
    ASSUME IInv, NEW p \in Panes, NEW size \in Nat, pane[p].pty = "none", pane[p].spawn = "open",
           pane' = [pane EXCEPT ![p].size = size],
           UNCHANGED <<domain, session, channel, pipe, written>>, events' \in 0 .. MaxEvents
    PROVE  IInv'
PROOF
<1> DEFINE after == [pane[p] EXCEPT !.size = size]
<1>1. pane[p] \in PaneStates /\ Order(p)
  BY DEF IInv, Types
<1>2. after \in PaneStates /\ PaneGoesOn(pane[p], after)
  BY <1>1 DEF PaneStates, PaneGoesOn, PaneLater
<1>3. pane' = [pane EXCEPT ![p] = after]
  OBVIOUS
<1>4. pane'[p] = after
  BY <1>3 DEF IInv, Types
<1>5. Order(p)'
  BY <1>1, <1>4 DEF Order, PaneStates
<1>6. after.reader = pane[p].reader /\ after.request = pane[p].request
  BY <1>1 DEF PaneStates
<1> HIDE DEF after
<1>7. pipe' \in [Panes -> [in : 0 .. Buffer, out : 0 .. Buffer]]
  BY DEF IInv, Types
<1> QED BY <1>2, <1>3, <1>5, <1>6, <1>7, NothingHappens, PaneStep

LEMMA ResizeStep == ASSUME IInv, NEW p \in Panes, Resize(p) PROVE IInv'
PROOF
<1>1. /\ pane[p] \in PaneStates /\ pane[p].spawn = "open"
      /\ UNCHANGED <<domain, channel, pipe, written>>
      /\ events' \in 0 .. MaxEvents
  BY Counted DEF Resize, Happens, IInv, Types
<1>2. pane[p].size + 1 \in Nat /\ pane[p].pty \in {"none", "held", "connected"}
  BY <1>1 DEF PaneStates
<1>3. CASE pane[p].pty # "none" /\ SendSize(p, pane[p].size + 1)
  BY <1>1, <1>2, <1>3, SendSizeStep
<1>4. CASE /\ pane[p].pty = "none"
           /\ pane' = [pane EXCEPT ![p].size = pane[p].size + 1] /\ UNCHANGED session
  BY <1>1, <1>2, <1>4, KeepSizeStep
<1> QED BY <1>2, <1>3, <1>4 DEF Resize, CheckConnected

LEMMA LookAtPtyStep == ASSUME IInv, NEW p \in Panes, LookAtPty(p) PROVE IInv'
PROOF
<1>1. pane[p].size \in Nat /\ events' \in 0 .. MaxEvents
  BY DEF LookAtPty, IInv, Types, PaneStates
<1> QED BY <1>1, SendSizeStep DEF LookAtPty, CheckConnected

------------------------------------------------------------------------------
(* The spawning of a pane.                                                 *)

\* A session that others knew goes on, another is new.
OthersGoOn(p) ==
    \A n \in Panes :
       \/ GoesOn(session[n], session'[n])
       \/ /\ n = p /\ session'[n] = NewSession
          /\ \A q \in Panes : pane[q].via # n

(* A pane that has no pty, and has not asked for one, gets a session.      *)
LEMMA Begins ==
    ASSUME IInv, NEW p \in Panes,
           pane[p].request \notin {"sent", "pty"}, pane[p].pty = "none",
           pane'[p].request \notin {"sent", "pty"}, pane'[p].pty = "none",
           \A q \in Panes \ {p} : pane'[q] = pane[q],
           OthersGoOn(p), UNCHANGED <<channel, pipe, written>>
    PROVE  \A q \in Panes : Made(q)' /\ Queued(q)' /\ Sized(q)' /\ Complete(q)'
PROOF
<1>1. ASSUME NEW q \in Panes PROVE Made(q)'
  <2>1. Made(q) /\ (Unmade(q) => Unmade(q)')
    BY DEF IInv, Unmade
  <2> QED BY <2>1 DEF Made
<1>2. ASSUME NEW n \in Panes PROVE Queued(n)'
  <2>1. SUFFICES ASSUME session'[n].at # "ended",
                      NEW after, after = session'[n].requests,
                      NEW i \in DOMAIN after, after[i].op = "pty"
               PROVE  /\ pane'[after[i].pane].request = "sent" /\ pane'[after[i].pane].via = n
                      /\ \A j \in DOMAIN after :
                            after[j].op = "pty" /\ after[j].pane = after[i].pane => j = i
    BY DEF Queued
  <2>2. GoesOn(session[n], session'[n])
    BY <2>1 DEF OthersGoOn, NewSession
  <2>3. PICK queue : queue = session[n].requests
    OBVIOUS
  <2>4. Queued(n) /\ session[n].at # "ended"
    BY <2>1, <2>2 DEF IInv, GoesOn, Later
  <2>5. ASSUME NEW j \in DOMAIN queue, queue[j].op = "pty"
        PROVE  /\ queue[j].pane \in Panes \ {p}
               /\ pane[queue[j].pane].request = "sent" /\ pane[queue[j].pane].via = n
               /\ \A k \in DOMAIN queue :
                     queue[k].op = "pty" /\ queue[k].pane = queue[j].pane => k = j
    BY <2>3, <2>4, <2>5, InQueue DEF Queued
  <2>6. \A j \in DOMAIN after : after[j].op = "pty" => j \in DOMAIN queue /\ after[j] = queue[j]
    BY <2>1, <2>2, <2>3 DEF GoesOn, Longer
  <2> QED BY <2>1, <2>5, <2>6
<1>3. ASSUME NEW n \in Panes, NEW i \in DOMAIN session'[n].requests, NEW q \in Panes,
             IsResize(session'[n].requests[i], q)
      PROVE  i \in DOMAIN session[n].requests /\ IsResize(session[n].requests[i], q)
  <2>1. CASE GoesOn(session[n], session'[n])
    BY <1>3, <2>1 DEF GoesOn, Longer, IsResize
  <2>2. CASE session'[n] = NewSession
    BY <1>3, <2>2 DEF NewSession
  <2> QED BY <2>1, <2>2 DEF OthersGoOn
<1>4. ASSUME NEW q \in Panes PROVE Sized(q)'
  <2>1. Sized(q)
    BY DEF IInv
  <2>2. ASSUME NEW n \in Panes, NEW i \in DOMAIN session'[n].requests,
               IsResize(session'[n].requests[i], q)
        PROVE  pane'[q].pty = "connected" /\ pane'[q].via = n
    <3>1. pane[q].pty = "connected" /\ pane[q].via = n
      BY <1>3, <2>1, <2>2 DEF Sized
    <3>2. q # p
      BY <3>1
    <3> QED BY <3>1, <3>2
  <2>3. ASSUME pane'[q].pty = "connected", ~ pane'[q].refused, channel'[q].open
        PROVE  LastSize(session'[pane'[q].via].requests, q, channel'[q].size, pane'[q].size)
    <3>1. q # p /\ pane'[q] = pane[q]
      BY <2>3
    <3>2. PICK n \in Panes : n = pane[q].via
      BY <2>3, <3>1 DEF IInv, Order, Types, PaneStates
    <3>3. GoesOn(session[n], session'[n])
      BY <3>2 DEF OthersGoOn
    <3>4. LastSize(session[n].requests, q, channel[q].size, pane[q].size)
      BY <2>1, <2>3, <3>1, <3>2 DEF Sized
    <3>5. LastSize(session'[n].requests, q, channel[q].size, pane[q].size)
      BY <3>3, <3>4, LastSizeKept DEF GoesOn, Longer, IsResize
    <3> QED BY <3>1, <3>2, <3>5
  <2> QED BY <2>2, <2>3 DEF Sized, IsResize
<1>5. ASSUME NEW q \in Panes PROVE Complete(q)'
  <2>1. CASE q = p
    BY <2>1 DEF Complete
  <2>2. CASE q # p /\ pane[q].request = "pty"
    <3>1. pane[q].via \in Panes
      BY <2>2 DEF IInv, Order
    <3>2. session[pane[q].via].broken => session'[pane[q].via].broken
      BY <3>1 DEF OthersGoOn, GoesOn, Later
    <3>3. pane'[q] = pane[q]
      BY <2>2
    <3> QED BY <3>2, <3>3 DEF IInv, Complete
  <2>3. CASE q # p /\ pane[q].request # "pty"
    BY <2>3 DEF Complete
  <2> QED BY <2>1, <2>2, <2>3
<1> QED BY <1>1, <1>2, <1>4, <1>5

\* The session that is replaced hears that it is dropped.
LEMMA SessionStarts ==
    ASSUME IInv, NEW p \in Panes, StartNewSession(p), Fresh(p), pane[p].spawn # "open"
    PROVE  AreSessions(session') /\ session'[p] = NewSession /\ OthersGoOn(p)
PROOF
<1> DEFINE made == [session EXCEPT ![p] = NewSession]
<1>1. NewSession \in Sessions /\ NewSession.requests = << >> /\ Len(<< >>) <= QueueSize
  BY BoundsAssumption DEF NewSession, Sessions
<1>2. AreSessions(made) /\ made[p] = NewSession /\ \A n \in Panes \ {p} : made[n] = session[n]
  <2>1. /\ made \in [Panes -> Sessions] /\ made[p] = NewSession
        /\ \A n \in Panes \ {p} : made[n] = session[n]
    BY <1>1 DEF IInv, Types
  <2> HIDE DEF made
  <2>2. \A n \in Panes : Len(made[n].requests) <= QueueSize
    BY <1>1, <2>1 DEF IInv, Types
  <2> QED BY <2>1, <2>2 DEF AreSessions
<1>3. domain \in 0 .. MaxPanes /\ domain # p /\ \A q \in Panes : pane[q].via # p
  BY DEF IInv, Types, Fresh
<1>4. session' = IF domain = None THEN made ELSE DropSession(made, domain)
  BY DEF StartNewSession
<1> HIDE DEF made
<1>5. /\ AreSessions(session') /\ session'[p] = NewSession
      /\ \A n \in Panes \ {p} : GoesOn(session[n], session'[n])
  <2>1. CASE domain = None
    BY <1>2, <1>4, <2>1, NothingHappens
  <2>2. CASE domain # None
    <3>1. domain \in Panes
      BY <1>3, <2>2, BoundsAssumption DEF None, Panes
    <3>2. /\ AreSessions(DropSession(made, domain))
          /\ \A m \in Panes : GoesOn(made[m], DropSession(made, domain)[m])
          /\ \A m \in Panes \ {domain} : DropSession(made, domain)[m] = made[m]
      BY <1>2, <3>1, DropGoesOn
    <3>3. session' = DropSession(made, domain)
      BY <1>4, <2>2
    <3> QED BY <1>2, <1>3, <3>2, <3>3
  <2> QED BY <2>1, <2>2
<1> QED BY <1>3, <1>5 DEF OthersGoOn

LEMMA StartNewSessionStep ==
    ASSUME IInv, NEW p \in Panes, StartNewSession(p), pane[p].spawn \in {"none", "asking"},
           pane[p].request \in {"none", "dead"}, events' \in 0 .. MaxEvents
    PROVE  IInv'
PROOF
<1>1. /\ pane[p] \in PaneStates /\ Fresh(p) /\ Order(p) /\ Made(p)
      /\ UNCHANGED <<channel, pipe, written>> /\ domain' = p
  BY DEF IInv, Types, StartNewSession
<1>2. AreSessions(session') /\ session'[p] = NewSession /\ OthersGoOn(p)
  BY <1>1, SessionStarts
<1>3. pane[p].pty = "none"
  BY <1>1 DEF Order
<1>4. /\ pane' \in [Panes -> PaneStates] /\ \A q \in Panes \ {p} : pane'[q] = pane[q]
      /\ pane'[p].spawn = "open" /\ pane'[p].via = p /\ pane'[p].request = "none"
      /\ pane'[p].connector = "events" /\ pane'[p].reader = "dialog" /\ pane'[p].pty = "none"
      /\ pane'[p].gone = pane[p].gone
  <2> DEFINE after == [pane[p] EXCEPT !.spawn = "open", !.via = p, !.request = "none",
                                      !.connector = "events", !.waiter = "child",
                                      !.reader = "dialog"]
  <2>1. pane' = [pane EXCEPT ![p] = after]
    BY DEF StartNewSession
  <2>2. p \in 0 .. MaxPanes
    BY BoundsAssumption DEF Panes
  <2>3. after \in PaneStates
    BY <1>1, <2>2 DEF PaneStates
  <2>4. /\ after.spawn = "open" /\ after.via = p /\ after.request = "none"
        /\ after.connector = "events" /\ after.reader = "dialog" /\ after.pty = "none"
        /\ after.gone = pane[p].gone
    BY <1>1, <1>3 DEF PaneStates
  <2> HIDE DEF after
  <2> QED BY <2>1, <2>3, <2>4 DEF IInv, Types
<1>5. Types'
  <2>1. domain' \in 0 .. MaxPanes
    BY <1>1, BoundsAssumption DEF Panes
  <2> QED BY <1>1, <1>2, <1>4, <2>1 DEF IInv, Types, AreSessions
<1>6. ASSUME NEW q \in Panes PROVE Order(q)'
  <2>1. CASE q = p
    BY <1>4, <2>1 DEF Order
  <2>2. CASE q # p
    <3>1. pane'[q] = pane[q] /\ channel'[q] = channel[q] /\ Order(q)
      BY <1>1, <1>4, <2>2 DEF IInv
    <3> QED BY <3>1 DEF Order
  <2> QED BY <2>1, <2>2
<1>7. \A q \in Panes : pane[q].via # p
  BY <1>1 DEF Fresh
<1>8. ASSUME NEW q \in Panes PROVE Fresh(q)'
  <2>1. CASE q = p
    BY <1>4, <2>1 DEF Fresh
  <2>2. CASE q # p
    <3>1. Fresh(q) /\ pane'[q] = pane[q] /\ Later(session[q], session'[q])
      BY <1>2, <1>4, <2>2 DEF IInv, OthersGoOn, GoesOn
    <3>2. \A r \in Panes : pane[r].via # q => pane'[r].via # q
      BY <1>4, <2>2
    <3> QED BY <1>1, <2>2, <3>1, <3>2 DEF Fresh, Later
  <2> QED BY <2>1, <2>2
<1>9. ~ channel[p].open
  BY <1>1 DEF Made, Unmade
<1>10. ASSUME NEW n \in Panes PROVE Early(n)'
  <2>1. CASE n = p
    BY <1>1, <1>4, <1>7, <1>9, <2>1 DEF Early
  <2>2. CASE n # p
    <3>1. Early(n) /\ Later(session[n], session'[n])
      BY <1>2, <2>2 DEF IInv, OthersGoOn, GoesOn
    <3> QED BY <1>1, <1>4, <2>2, <3>1 DEF Early, Later
  <2> QED BY <2>1, <2>2
<1>11. \A q \in Panes : Made(q)' /\ Queued(q)' /\ Sized(q)' /\ Complete(q)'
  BY <1>1, <1>2, <1>3, <1>4, Begins
<1> QED BY <1>5, <1>6, <1>8, <1>10, <1>11 DEF IInv

LEMMA SpawnPaneStep == ASSUME IInv, NEW p \in Panes, SpawnPane(p) PROVE IInv'
PROOF
<1>1. /\ pane[p] \in PaneStates /\ pane[p].spawn = "none" /\ pane[p].request = "none"
      /\ Order(p) /\ Made(p)
  BY DEF SpawnPane, IInv, Types, Order
<1>2. events' \in 0 .. MaxEvents
  <2>1. p \in Nat
    BY BoundsAssumption DEF Panes
  <2> QED BY <2>1, Counted DEF SpawnPane
<1>3. CASE StartNewSession(p)
  BY <1>1, <1>2, <1>3, StartNewSessionStep
<1>4. CASE /\ domain # None
           /\ pane' = [pane EXCEPT ![p].spawn = "asking", ![p].via = domain,
                                   ![p].request = "sending"]
           /\ UNCHANGED <<domain, session, channel, pipe, written>>
  <2>1. domain \in Panes
    BY <1>4, BoundsAssumption DEF IInv, Types, None, Panes
  <2>2. pane[p].pty = "none" /\ pane[p].connector = "none" /\ pane[p].reader = "none"
    BY <1>1 DEF Order
  <2>3. domain \in 0 .. MaxPanes
    BY DEF IInv, Types
  <2>4. /\ pane' \in [Panes -> PaneStates] /\ \A q \in Panes \ {p} : pane'[q] = pane[q]
        /\ pane'[p].spawn = "asking" /\ pane'[p].via = domain /\ pane'[p].request = "sending"
        /\ pane'[p].connector = "none" /\ pane'[p].reader = "none" /\ pane'[p].pty = "none"
        /\ pane'[p].size = pane[p].size /\ pane'[p].gone = pane[p].gone
    BY <1>1, <1>4, <2>2, <2>3 DEF IInv, Types, PaneStates
  <2>5. Types'
    BY <1>2, <1>4, <2>4 DEF IInv, Types
  <2>6. ASSUME NEW q \in Panes PROVE Order(q)'
    <3>1. CASE q = p
      <4>1. pane[p].size = 0 /\ channel[p].size = 0
        BY <1>1 DEF Order
      <4>2. channel' = channel
        BY <1>4
      <4> QED BY <2>1, <2>4, <3>1, <4>1, <4>2 DEF Order
    <3>2. CASE q # p
      <4>1. pane'[q] = pane[q] /\ channel'[q] = channel[q] /\ Order(q)
        BY <1>4, <2>4, <3>2 DEF IInv
      <4> QED BY <4>1 DEF Order
    <3> QED BY <3>1, <3>2
  <2>7. UNCHANGED <<domain, session, channel, pipe, written>>
    BY <1>4
  <2>8. ASSUME NEW q \in Panes PROVE Fresh(q)'
    <3>1. Fresh(q) /\ (pane'[q].spawn = "open" <=> pane[q].spawn = "open")
      BY <1>1, <2>4 DEF IInv
    <3> QED BY <2>4, <2>7, <3>1 DEF Fresh
  <2>9. ~ channel[p].open
    BY <1>1 DEF Made, Unmade
  <2>10. ASSUME NEW n \in Panes PROVE Early(n)'
    <3>1. Early(n)
      BY DEF IInv
    <3> QED BY <2>4, <2>7, <2>9, <3>1 DEF Early
  <2>11. OthersGoOn(p)
    BY <2>7, NothingHappens DEF OthersGoOn
  <2>12. \A q \in Panes : Made(q)' /\ Queued(q)' /\ Sized(q)' /\ Complete(q)'
    BY <1>1, <2>2, <2>4, <2>7, <2>11, Begins
  <2> QED BY <2>5, <2>6, <2>8, <2>10, <2>12 DEF IInv
<1> QED BY <1>3, <1>4 DEF SpawnPane

(* One pane changes.                                                       *)
LEMMA PaneChanges ==
    ASSUME IInv, NEW p \in Panes, NEW after \in PaneStates, pane' = [pane EXCEPT ![p] = after]
    PROVE  /\ pane' \in [Panes -> PaneStates] /\ pane'[p] = after
           /\ \A q \in Panes \ {p} : pane'[q] = pane[q]
PROOF
  BY DEF IInv, Types

\* The pane was not resized, so the size with which its pty was made is its last.
LEMMA SpawnedStep ==
    ASSUME IInv, NEW p \in Panes, pane[p].spawn = "asking", pane[p].request = "pty",
           pane' = [pane EXCEPT ![p].spawn = "open", ![p].waiter = "status",
                                ![p].reader = "session", ![p].pty = "connected"],
           session' = DropSession(session, pane[p].via),
           UNCHANGED <<domain, channel, pipe, written, events>>
    PROVE  IInv'
PROOF
<1>1. /\ pane[p] \in PaneStates /\ pane[p].via \in Panes /\ pane[p].connector = "none"
      /\ pane[p].pty = "none" /\ pane[p].size = 0 /\ channel[p].size = 0
  BY DEF IInv, Types, Order
<1>2. AreSessions(session') /\ \A n \in Panes : GoesOn(session[n], session'[n])
  BY <1>1, DropGoesOn, NothingHappens
<1>3. /\ pane' \in [Panes -> PaneStates] /\ \A q \in Panes \ {p} : pane'[q] = pane[q]
      /\ pane'[p].spawn = "open" /\ pane'[p].reader = "session" /\ pane'[p].pty = "connected"
      /\ pane'[p].via = pane[p].via /\ pane'[p].request = "pty" /\ pane'[p].connector = "none"
      /\ pane'[p].size = 0 /\ pane'[p].gone = pane[p].gone
  <2> DEFINE after == [pane[p] EXCEPT !.spawn = "open", !.waiter = "status",
                                      !.reader = "session", !.pty = "connected"]
  <2>1. pane' = [pane EXCEPT ![p] = after]
    OBVIOUS
  <2>2. after \in PaneStates
    BY <1>1 DEF PaneStates
  <2>3. /\ after.spawn = "open" /\ after.reader = "session" /\ after.pty = "connected"
        /\ after.via = pane[p].via /\ after.request = "pty" /\ after.connector = "none"
        /\ after.size = 0 /\ after.gone = pane[p].gone
    BY <1>1 DEF PaneStates
  <2> HIDE DEF after
  <2>4. /\ pane' \in [Panes -> PaneStates] /\ pane'[p] = after
        /\ \A q \in Panes \ {p} : pane'[q] = pane[q]
    BY <2>1, <2>2, PaneChanges
  <2> QED BY <2>3, <2>4
<1>4. Types'
  BY <1>2, <1>3 DEF IInv, Types, AreSessions
<1>5. UNCHANGED <<domain, channel, pipe, written>>
  OBVIOUS
<1>6. ASSUME NEW q \in Panes PROVE Order(q)'
  <2>1. CASE q = p
    BY <1>1, <1>3, <2>1 DEF Order
  <2>2. CASE q # p
    <3>1. pane'[q] = pane[q] /\ channel'[q] = channel[q] /\ Order(q)
      BY <1>3, <1>5, <2>2 DEF IInv
    <3> QED BY <3>1 DEF Order
  <2> QED BY <2>1, <2>2
<1>7. ASSUME NEW q \in Panes PROVE PaneLater(pane[q], pane'[q]) /\ SentKept(q)
  <2>1. CASE q = p
    BY <1>3, <2>1 DEF PaneLater, SentKept
  <2>2. CASE q # p
    <3>1. pane'[q] = pane[q]
      BY <1>3, <2>2
    <3> QED BY <3>1 DEF PaneLater, SentKept
  <2> QED BY <2>1, <2>2
<1>8. \A n \in Panes : Later(session[n], session'[n])
  BY <1>2 DEF GoesOn
<1>9. \A q \in Panes : Fresh(q)' /\ Made(q)' /\ Early(q)'
  <2>1. \A q \in Panes : Unmade(q) => Unmade(q)'
    BY <1>5 DEF Unmade
  <2> QED BY <1>5, <1>7, <1>8, <2>1, ShapeKept
<1>10. \A n \in Panes : Queued(n)'
  BY <1>2, <1>7, <1>8, QueueKept DEF PaneLater, GoesOn, Longer
<1>11. ASSUME NEW q \in Panes PROVE Complete(q)'
  <2>1. \A n \in Panes : session[n].broken => session'[n].broken
    BY <1>8 DEF Later
  <2>2. pane'[q].reader = "ended" => pane[q].reader = "ended"
    BY <1>3
  <2> QED BY <1>5, <1>7, <2>1, <2>2, NothingHappens, OutputKept
<1>12. ASSUME NEW q \in Panes, NEW n \in Panes, NEW i \in DOMAIN session'[n].requests,
              IsResize(session'[n].requests[i], q)
       PROVE  i \in DOMAIN session[n].requests /\ IsResize(session[n].requests[i], q)
  BY ONLY <1>2, <1>12, SMTT(30) DEF GoesOn, Longer, IsResize
<1>13. Sized(p)'
  <2>1. ASSUME NEW n \in Panes, NEW i \in DOMAIN session'[n].requests
        PROVE  ~ IsResize(session'[n].requests[i], p)
    <3>1. Sized(p)
      BY DEF IInv
    <3> QED BY <1>1, <1>12, <3>1 DEF Sized
  <2>2. LastSize(session'[pane[p].via].requests, p, 0, 0)
    BY <1>1, <2>1 DEF LastSize
  <2> QED BY <1>1, <1>3, <1>5, <2>1, <2>2 DEF Sized, IsResize
<1>14. ASSUME NEW q \in Panes, q # p PROVE Sized(q)'
  <2>1. PaneGoesOn(pane[q], pane'[q])
    BY <1>3, <1>14, NothingHappens
  <2>2. \A n \in Panes :
           LET queue == session[n].requests
               after == session'[n].requests
           IN /\ DOMAIN queue \subseteq DOMAIN after
              /\ \A i \in DOMAIN queue : after[i] = queue[i]
              /\ \A i \in DOMAIN after \ DOMAIN queue : ~ IsResize(after[i], q)
    BY <1>2, <1>14 DEF GoesOn, Longer, IsResize
  <2> QED BY <1>5, <2>1, <2>2, SizeKept
<1> QED BY <1>4, <1>6, <1>9, <1>10, <1>11, <1>13, <1>14 DEF IInv

LEMMA FinishSpawnStep == ASSUME IInv, NEW p \in Panes, FinishSpawn(p) PROVE IInv'
PROOF
<1>1. /\ pane[p] \in PaneStates /\ pane[p].spawn = "asking" /\ pane[p].via \in Panes /\ Order(p)
      /\ UNCHANGED events /\ events' \in 0 .. MaxEvents
  BY DEF FinishSpawn, IInv, Types, Order
<1>2. CASE pane[p].request = "dead" /\ StartNewSession(p)
  BY <1>1, <1>2, StartNewSessionStep
<1>3. CASE /\ pane[p].request = "pty"
           /\ pane' = [pane EXCEPT ![p].spawn = "open", ![p].waiter = "status",
                                   ![p].reader = "session", ![p].pty = "connected"]
           /\ session' = DropSession(session, pane[p].via)
           /\ UNCHANGED <<domain, channel, pipe, written>>
  BY <1>1, <1>3, SpawnedStep, Zenon
<1>4. CASE /\ pane[p].request \in {"error", "lost"}
           /\ pane' = [pane EXCEPT ![p].spawn = "failed"]
           /\ session' = DropSession(session, pane[p].via)
           /\ UNCHANGED <<domain, channel, pipe, written>>
  <2> DEFINE after == [pane[p] EXCEPT !.spawn = "failed"]
  <2>1. after \in PaneStates /\ PaneGoesOn(pane[p], after)
    BY <1>1 DEF PaneStates, PaneGoesOn, PaneLater
  <2>2. pane' = [pane EXCEPT ![p] = after]
    BY <1>4
  <2>3. pane'[p] = after
    BY <2>2 DEF IInv, Types
  <2>4. Order(p)'
    BY <1>1, <2>3 DEF Order, PaneStates
  <2>5. after.reader = pane[p].reader /\ after.request = pane[p].request
    BY <1>1 DEF PaneStates
  <2> HIDE DEF after
  <2>6. AreSessions(session') /\ \A n \in Panes : GoesOn(session[n], session'[n])
    BY <1>1, <1>4, DropGoesOn, NothingHappens
  <2>7. pipe' \in [Panes -> [in : 0 .. Buffer, out : 0 .. Buffer]]
    BY <1>4 DEF IInv, Types
  <2> QED BY <1>1, <1>4, <2>1, <2>2, <2>4, <2>5, <2>6, <2>7, PaneStep
<1> QED BY <1>1, <1>2, <1>3, <1>4 DEF FinishSpawn

------------------------------------------------------------------------------
(* The session goes round.                                                 *)

\* A session ends only when it has no channels; requests may be lost.
EndedStep ==
    \A n \in Panes :
       Ended(n) /\ ChannelsOf(n) = {} /\ session[n].at # "none"
       /\ UNCHANGED <<domain, pipe, written, events>> => IInv'

LEMMA EndedKeeps == ASSUME IInv PROVE EndedStep
PROOF
<1> SUFFICES ASSUME NEW n \in Panes, Ended(n), ChannelsOf(n) = {}, session[n].at # "none",
                    UNCHANGED <<domain, pipe, written, events>>
             PROVE  IInv'
  BY DEF EndedStep
<1> DEFINE after == [session[n] EXCEPT !.at = "ended"]
<1>1. session[n] \in Sessions
  BY DEF IInv, Types
<1>2. after \in Sessions /\ after.requests = session[n].requests /\ Later(session[n], after)
      /\ after.at = "ended"
  BY <1>1 DEF Sessions, Later, EarlyPlaces
<1>3. session' = [session EXCEPT ![n] = after]
  BY DEF Ended
<1> HIDE DEF after
<1>4. AreSessions(session') /\ \A m \in Panes : GoesOn(session[m], session'[m])
  BY <1>2, <1>3, SessionChanges
<1>5. session'[n].at = "ended"
  BY <1>2, <1>3 DEF IInv, Types
<1>6. channel' = channel
  <2>1. channel' = [p \in Panes |-> channel[p]]
    BY DEF Ended
  <2> QED BY <2>1 DEF IInv, Types
<1>7. \/ UNCHANGED pane
      \/ pane' = [p \in Panes |-> IF pane[p].via = n /\ pane[p].request = "sent"
                                  THEN [pane[p] EXCEPT !.request = "lost"] ELSE pane[p]]
  BY DEF Ended
<1>8. ASSUME NEW p \in Panes
      PROVE  \/ pane'[p] = pane[p]
             \/ /\ pane[p].via = n /\ pane[p].request = "sent"
                /\ pane'[p] = [pane[p] EXCEPT !.request = "lost"]
  BY <1>7, <1>8
<1>9. ASSUME NEW p \in Panes
      PROVE  /\ pane'[p] \in PaneStates /\ PaneGoesOn(pane[p], pane'[p]) /\ SentKept(p)
             /\ Order(p)' /\ pane'[p].reader = pane[p].reader
  <2>1. pane[p] \in PaneStates /\ Order(p) /\ channel'[p] = channel[p]
    BY <1>6 DEF IInv, Types
  <2>2. CASE pane'[p] = pane[p]
    BY <2>1, <2>2, NothingHappens DEF SentKept, Order
  <2>3. CASE /\ pane[p].via = n /\ pane[p].request = "sent"
             /\ pane'[p] = [pane[p] EXCEPT !.request = "lost"]
    BY <1>5, <2>1, <2>3 DEF PaneStates, PaneGoesOn, PaneLater, SentKept, Order
  <2> QED BY <1>8, <2>2, <2>3
<1>10. pane' \in [Panes -> PaneStates]
  <2>1. \/ pane' = pane
        \/ pane' = [p \in Panes |-> pane'[p]]
    BY <1>7
  <2> QED BY <1>9, <2>1 DEF IInv, Types
<1>11. Types'
  BY <1>4, <1>6, <1>10 DEF IInv, Types, AreSessions
<1> QED BY <1>4, <1>6, <1>9, <1>11, NothingHappens, Aside

\* A session that changes its place and what it has noted.
LEMMA PlaceStep ==
    ASSUME IInv, NEW n \in Panes, NEW after \in Sessions,
           session' = [session EXCEPT ![n] = after],
           after.requests = session[n].requests, Later(session[n], after),
           UNCHANGED <<domain, pane, channel, pipe, written>>, events' \in 0 .. MaxEvents
    PROVE  IInv'
PROOF
<1>1. AreSessions(session') /\ \A m \in Panes : GoesOn(session[m], session'[m])
  BY SessionChanges
<1> QED BY <1>1, SessionStep

LEMMA ConnectStep == ASSUME IInv, NEW n \in Panes, Connect(n) PROVE IInv'
PROOF
<1>1. /\ session[n] \in Sessions /\ UNCHANGED <<domain, pipe, written, events>>
      /\ events' \in 0 .. MaxEvents /\ session[n].at \in EarlyPlaces /\ session[n].at # "none"
  BY DEF IInv, Types, Connect, EarlyPlaces
<1>2. CASE /\ session' = [session EXCEPT ![n].at = "asking"]
           /\ UNCHANGED <<pane, channel>>
  <2> DEFINE after == [session[n] EXCEPT !.at = "asking"]
  <2>1. after \in Sessions /\ after.requests = session[n].requests /\ Later(session[n], after)
    BY <1>1 DEF Sessions, Later, EarlyPlaces
  <2>2. session' = [session EXCEPT ![n] = after]
    BY <1>2
  <2> HIDE DEF after
  <2> QED BY <1>1, <1>2, <2>1, <2>2, PlaceStep
<1>3. CASE /\ session' = [session EXCEPT ![n].at = "tick", ![n].authenticated = TRUE]
           /\ UNCHANGED <<pane, channel>>
  <2> DEFINE after == [session[n] EXCEPT !.at = "tick", !.authenticated = TRUE]
  <2>1. after \in Sessions /\ after.requests = session[n].requests /\ Later(session[n], after)
    BY <1>1 DEF Sessions, Later, EarlyPlaces
  <2>2. session' = [session EXCEPT ![n] = after]
    BY <1>3
  <2> HIDE DEF after
  <2> QED BY <1>1, <1>3, <2>1, <2>2, PlaceStep
<1>4. CASE Ended(n)
  <2>1. ChannelsOf(n) = {}
    BY <1>1 DEF ChannelsOf, IInv, Early
  <2> QED BY <1>1, <1>4, <2>1, EndedKeeps DEF EndedStep
<1> QED BY <1>2, <1>3, <1>4 DEF Connect

LEMMA DispatchedStep == ASSUME IInv, NEW n \in Panes, Dispatched(n) PROVE IInv'
PROOF
<1> DEFINE after == [session[n] EXCEPT !.at = "check"]
<1>1. /\ session[n] \in Sessions /\ session[n].at = "requests"
      /\ UNCHANGED <<domain, pane, channel, pipe, written>> /\ events' \in 0 .. MaxEvents
  BY DEF IInv, Types, Dispatched
<1>2. after \in Sessions /\ after.requests = session[n].requests /\ Later(session[n], after)
  BY <1>1 DEF Sessions, Later, EarlyPlaces
<1>3. session' = [session EXCEPT ![n] = after]
  BY DEF Dispatched
<1> HIDE DEF after
<1> QED BY <1>1, <1>2, <1>3, PlaceStep

LEMMA CheckEndStep == ASSUME IInv, NEW n \in Panes, CheckEnd(n) PROVE IInv'
PROOF
<1>1. /\ session[n] \in Sessions /\ session[n].at = "check"
      /\ UNCHANGED <<domain, pipe, written, events>> /\ events' \in 0 .. MaxEvents
  BY DEF IInv, Types, CheckEnd
<1>2. CASE NoMoreChannels(n) /\ Ended(n)
  BY <1>1, <1>2, EndedKeeps DEF EndedStep, NoMoreChannels
<1>3. CASE session' = [session EXCEPT ![n].at = "poll"] /\ UNCHANGED <<pane, channel>>
  <2> DEFINE after == [session[n] EXCEPT !.at = "poll"]
  <2>1. after \in Sessions /\ after.requests = session[n].requests /\ Later(session[n], after)
    BY <1>1 DEF Sessions, Later, EarlyPlaces
  <2>2. session' = [session EXCEPT ![n] = after]
    BY <1>3
  <2> HIDE DEF after
  <2> QED BY <1>1, <1>3, <2>1, <2>2, PlaceStep
<1> QED BY <1>2, <1>3 DEF CheckEnd

LEMMA BreakStep == ASSUME IInv, NEW n \in Panes, Break(n) PROVE IInv'
PROOF
<1> DEFINE after == [session[n] EXCEPT !.broken = TRUE]
<1>1. /\ session[n] \in Sessions
      /\ UNCHANGED <<domain, pane, channel, pipe, written>> /\ events' \in 0 .. MaxEvents
  BY Counted DEF IInv, Types, Break, Happens
<1>2. after \in Sessions /\ after.requests = session[n].requests /\ Later(session[n], after)
  BY <1>1 DEF Sessions, Later, EarlyPlaces
<1>3. session' = [session EXCEPT ![n] = after]
  BY DEF Break
<1> HIDE DEF after
<1> QED BY <1>1, <1>2, <1>3, PlaceStep

(* A request is taken out of a queue: those behind it move up.             *)

Shorter(queue, after) ==
    /\ 1 \in DOMAIN queue
    /\ \A i \in DOMAIN after :
          i \in Nat /\ i > 0 /\ i + 1 \in DOMAIN queue /\ after[i] = queue[i + 1]
    /\ \A i \in DOMAIN queue \ {1} : i \in Nat /\ i > 1 /\ i - 1 \in DOMAIN after

TakesOut(n) ==
    /\ AreSessions(session') /\ \A m \in Panes : Later(session[m], session'[m])
    /\ \A m \in Panes \ {n} : session'[m] = session[m]
    /\ Shorter(session[n].requests, session'[n].requests)

LEMMA TakenOut ==
    ASSUME IInv, NEW n \in Panes, DispatchOne(n)
    PROVE  TakesOut(n) /\ Head(session[n].requests) = session[n].requests[1]
PROOF
<1> DEFINE queue == session[n].requests
           dropped == session[n].dropped \/ Head(queue).op = "dropped"
<1>1. session[n] \in Sessions /\ queue # << >>
  BY DEF IInv, Types, DispatchOne
<1>2. session[n].dropped \in BOOLEAN /\ queue \in Seq(Requests) /\ Len(queue) <= QueueSize
  BY <1>1 DEF Sessions, IInv, Types
<1>3. dropped \in BOOLEAN
  BY <1>2, Zenon
<1>4. session' = [session EXCEPT ![n].requests = Tail(queue), ![n].dropped = dropped]
  BY DEF DispatchOne, IInv, Types
<1> HIDE DEF dropped
<1>5. /\ Tail(queue) \in Seq(Requests) /\ Len(queue) \in Nat \ {0}
      /\ Len(Tail(queue)) = Len(queue) - 1
      /\ DOMAIN queue = 1 .. Len(queue) /\ DOMAIN Tail(queue) = 1 .. Len(queue) - 1
      /\ \A i \in 1 .. Len(queue) - 1 : Tail(queue)[i] = queue[i + 1]
      /\ Head(queue) = queue[1]
  BY <1>1, <1>2, HeadTailProperties, ElementOfSeq
<1>6. Shorter(queue, Tail(queue))
  BY <1>5 DEF Shorter
<1> DEFINE after == [[session[n] EXCEPT !.requests = Tail(queue)] EXCEPT !.dropped = dropped]
<1>7. /\ after \in Sessions /\ after.requests = Tail(queue) /\ after.at = session[n].at
      /\ after.broken = session[n].broken
  BY <1>1, <1>3, <1>5 DEF Sessions
<1>8. session' = [session EXCEPT ![n] = after]
  BY <1>4 DEF IInv, Types
<1>9. Later(session[n], after)
  BY <1>7 DEF Later
<1>10. Len(Tail(queue)) <= QueueSize
  BY <1>2, <1>5, BoundsAssumption
<1> HIDE DEF after
<1>11. /\ session' \in [Panes -> Sessions] /\ session'[n] = after
       /\ \A m \in Panes \ {n} : session'[m] = session[m]
  BY <1>7, <1>8 DEF IInv, Types
<1>12. AreSessions(session')
  BY <1>7, <1>10, <1>11 DEF AreSessions, IInv, Types
<1>13. \A m \in Panes : Later(session[m], session'[m])
  BY <1>9, <1>11, NothingHappens DEF GoesOn
<1> QED BY <1>5, <1>6, <1>7, <1>11, <1>12, <1>13 DEF TakesOut

\* The pane named by the request may hear of it; no other.
LEMMA QueueTaken ==
    ASSUME IInv, NEW n \in Panes, TakesOut(n), session[n].at # "ended",
           NEW head, head = session[n].requests[1],
           \A p \in Panes : /\ pane'[p].via = pane[p].via
                            /\ pane[p].request = "sent" =>
                                  \/ pane'[p].request = "sent"
                                  \/ head.op = "pty" /\ head.pane = p
    PROVE  \A m \in Panes : Queued(m)'
PROOF
<1> SUFFICES ASSUME NEW m \in Panes, session'[m].at # "ended",
                    NEW after, after = session'[m].requests,
                    NEW i \in DOMAIN after, after[i].op = "pty"
             PROVE  /\ pane'[after[i].pane].request = "sent" /\ pane'[after[i].pane].via = m
                    /\ \A j \in DOMAIN after :
                          after[j].op = "pty" /\ after[j].pane = after[i].pane => j = i
  BY DEF Queued
<1>1. PICK queue : queue = session[m].requests
  OBVIOUS
<1>2. session[m].at # "ended"
  BY DEF TakesOut, Later
<1>3. ASSUME NEW j \in DOMAIN queue, queue[j].op = "pty"
      PROVE  /\ queue[j].pane \in Panes
             /\ pane[queue[j].pane].request = "sent" /\ pane[queue[j].pane].via = m
             /\ \A k \in DOMAIN queue :
                   queue[k].op = "pty" /\ queue[k].pane = queue[j].pane => k = j
  BY <1>1, <1>2, <1>3, InQueue DEF IInv, Queued
<1>4. CASE m = n
  <2>1. /\ 1 \in DOMAIN queue /\ head = queue[1]
        /\ \A j \in DOMAIN after :
              j \in Nat /\ j > 0 /\ j + 1 \in DOMAIN queue /\ after[j] = queue[j + 1]
    BY <1>1, <1>4 DEF TakesOut, Shorter
  <2>2. i + 1 \in DOMAIN queue /\ after[i] = queue[i + 1] /\ i + 1 # 1 /\ i \in Nat
    BY <2>1
  <2>3. ~ (head.op = "pty" /\ head.pane = after[i].pane)
    BY <1>3, <2>1, <2>2
  <2>4. pane'[after[i].pane].request = "sent" /\ pane'[after[i].pane].via = m
    BY <1>3, <2>2, <2>3
  <2>5. ASSUME NEW j \in DOMAIN after, after[j].op = "pty", after[j].pane = after[i].pane
        PROVE  j = i
    <3>1. j + 1 = i + 1 /\ j \in Nat
      BY <1>3, <2>1, <2>2, <2>5
    <3> QED BY <2>2, <3>1
  <2> QED BY <2>4, <2>5
<1>5. CASE m # n
  <2>1. after = queue
    BY <1>1, <1>5 DEF TakesOut
  <2>2. head.op = "pty" => pane[head.pane].via = n
    BY DEF IInv, Queued, TakesOut, Shorter
  <2> QED BY <1>3, <1>5, <2>1, <2>2
<1> QED BY <1>4, <1>5

\* The last size is on its way, or it has just arrived.
LEMMA LastSizeTaken ==
    ASSUME NEW queue, NEW after, NEW p, NEW at, NEW size, Shorter(queue, after),
           LastSize(queue, p, at, size)
    PROVE  LastSize(after, p, IF IsResize(queue[1], p) THEN queue[1].size ELSE at, size)
PROOF
<1>1. /\ 1 \in DOMAIN queue
      /\ \A i \in DOMAIN after :
            i \in Nat /\ i > 0 /\ i + 1 \in DOMAIN queue /\ after[i] = queue[i + 1]
      /\ \A i \in DOMAIN queue \ {1} : i \in Nat /\ i > 1 /\ i - 1 \in DOMAIN after
  BY DEF Shorter
<1>2. CASE at = size /\ \A i \in DOMAIN queue : ~ IsResize(queue[i], p)
  BY <1>1, <1>2 DEF LastSize
<1>3. ASSUME NEW i \in DOMAIN queue, IsResize(queue[i], p), queue[i].size = size,
             \A j \in DOMAIN queue : j > i => ~ IsResize(queue[j], p)
      PROVE  LastSize(after, p, IF IsResize(queue[1], p) THEN queue[1].size ELSE at, size)
  <2>1. CASE i = 1
    <3>1. \A j \in DOMAIN after : ~ IsResize(after[j], p)
      BY <1>1, <1>3, <2>1
    <3> QED BY <1>3, <2>1, <3>1 DEF LastSize
  <2>2. CASE i # 1
    <3>1. PICK k \in DOMAIN after : k = i - 1
      BY <1>1, <2>2
    <3>2. k \in Nat /\ i = k + 1 /\ after[k] = queue[i]
      BY <1>1, <2>2, <3>1
    <3>3. ASSUME NEW j \in DOMAIN after, j > k PROVE ~ IsResize(after[j], p)
      <4>1. j \in Nat /\ j + 1 \in DOMAIN queue /\ after[j] = queue[j + 1]
        BY <1>1
      <4>2. j + 1 > i
        BY <3>2, <3>3, <4>1
      <4> QED BY <1>3, <4>1, <4>2
    <3> QED BY <1>3, <3>2, <3>3 DEF LastSize
  <2> QED BY <2>1, <2>2
<1> QED BY <1>2, <1>3 DEF LastSize

LEMMA NoNewSizes ==
    ASSUME NEW n \in Panes, TakesOut(n), NEW m \in Panes, NEW p,
           NEW i \in DOMAIN session'[m].requests, IsResize(session'[m].requests[i], p)
    PROVE  \E j \in DOMAIN session[m].requests : IsResize(session[m].requests[j], p)
PROOF
<1>1. CASE m = n
  BY <1>1 DEF TakesOut, Shorter
<1>2. CASE m # n
  BY <1>2 DEF TakesOut
<1> QED BY <1>1, <1>2

LEMMA SizeTaken ==
    ASSUME IInv, NEW n \in Panes, TakesOut(n), NEW p \in Panes, PaneGoesOn(pane[p], pane'[p]),
           NEW head, head = session[n].requests[1],
           channel'[p].open =>
              /\ channel[p].open
              /\ channel'[p].size = IF IsResize(head, p) THEN head.size ELSE channel[p].size
    PROVE  Sized(p)'
PROOF
<1>1. Sized(p) /\ Order(p)
  BY DEF IInv
<1>2. ASSUME NEW m \in Panes, NEW i \in DOMAIN session'[m].requests,
             IsResize(session'[m].requests[i], p)
      PROVE  pane'[p].pty = "connected" /\ pane'[p].via = m
  <2>1. PICK j \in DOMAIN session[m].requests : IsResize(session[m].requests[j], p)
    BY <1>2, NoNewSizes
  <2> QED BY <1>1, <2>1 DEF Sized, PaneGoesOn, PaneLater
<1>3. ASSUME pane'[p].pty = "connected", ~ pane'[p].refused, channel'[p].open
      PROVE  LastSize(session'[pane'[p].via].requests, p, channel'[p].size, pane'[p].size)
  <2>1. /\ pane[p].pty = "connected" /\ ~ pane[p].refused /\ pane'[p].via = pane[p].via
        /\ pane'[p].size = pane[p].size
    BY <1>3 DEF PaneGoesOn, PaneLater
  <2>2. PICK m \in Panes : m = pane[p].via
    BY <1>1, <2>1 DEF Order, IInv, Types, PaneStates
  <2>3. LastSize(session[m].requests, p, channel[p].size, pane[p].size)
    BY <1>1, <1>3, <2>1, <2>2 DEF Sized
  <2>4. CASE m = n
    <3>1. LastSize(session'[n].requests, p,
                   IF IsResize(head, p) THEN head.size ELSE channel[p].size, pane[p].size)
      BY <2>3, <2>4, LastSizeTaken DEF TakesOut
    <3> QED BY <1>3, <2>1, <2>2, <2>4, <3>1
  <2>5. CASE m # n
    <3>1. ~ IsResize(head, p)
      BY <1>1, <2>2, <2>5 DEF Sized, TakesOut, Shorter
    <3>2. session'[m] = session[m]
      BY <2>5 DEF TakesOut
    <3> QED BY <1>3, <2>1, <2>2, <2>3, <3>1, <3>2
  <2> QED BY <2>4, <2>5
<1> QED BY <1>2, <1>3 DEF Sized, IsResize

\* Neither a signal nor the drop of a client changes panes and channels.
LEMMA HeardStep ==
    ASSUME IInv, NEW n \in Panes, TakesOut(n), session[n].at = "requests",
           session[n].requests[1].op \in {"signal", "dropped"},
           UNCHANGED <<domain, pane, channel, pipe, written, events>>
    PROVE  IInv'
PROOF
<1>1. Types'
  BY DEF IInv, Types, TakesOut, AreSessions
<1>2. \A m \in Panes : Later(session[m], session'[m]) /\ (session[m].broken => session'[m].broken)
  BY DEF TakesOut, Later
<1>3. \A p \in Panes : PaneGoesOn(pane[p], pane'[p]) /\ PaneLater(pane[p], pane'[p]) /\ Order(p)'
  BY NothingHappens DEF PaneGoesOn, IInv, Order
<1>4. \A p \in Panes : Fresh(p)' /\ Made(p)' /\ Early(p)'
  <2>1. \A p \in Panes : Unmade(p) => Unmade(p)'
    BY DEF Unmade
  <2> QED BY <1>2, <1>3, <2>1, ShapeKept
<1>5. \A m \in Panes : Queued(m)'
  BY <1>3, QueueTaken DEF PaneLater
<1>6. \A p \in Panes : Sized(p)'
  BY <1>3, SizeTaken DEF IsResize
<1>7. \A p \in Panes : Complete(p)'
  BY <1>2, <1>3, NothingHappens, OutputKept
<1> QED BY <1>1, <1>3, <1>4, <1>5, <1>6, <1>7 DEF IInv

\* A size arrives.
LEMMA ResizePtyStep ==
    ASSUME IInv, NEW n \in Panes, TakesOut(n), session[n].at = "requests",
           NEW head \in Requests, head = session[n].requests[1], head.op = "resize",
           ResizePty(head), UNCHANGED <<domain, pipe, written, events>>
    PROVE  IInv'
PROOF
<1> DEFINE sized == [channel[head.pane] EXCEPT !.size = head.size]
<1>1. head.pane \in Panes /\ head.size \in Nat /\ UNCHANGED pane
  BY DEF Requests, ResizePty
<1>2. channel[head.pane] \in Channels
  BY <1>1 DEF IInv, Types
<1>3. /\ sized \in Channels /\ sized.size = head.size /\ sized.open = channel[head.pane].open
      /\ sized.exit = channel[head.pane].exit /\ sized.exited = channel[head.pane].exited
      /\ sized.stdout = channel[head.pane].stdout /\ sized.output = channel[head.pane].output
      /\ sized.arrived = channel[head.pane].arrived /\ sized.eof = channel[head.pane].eof
  BY <1>1, <1>2 DEF Channels
<1>4. channel' = IF channel[head.pane].open THEN [channel EXCEPT ![head.pane] = sized] ELSE channel
  BY ONLY ResizePty(head) DEF ResizePty
<1> HIDE DEF sized
<1>5. /\ channel' \in [Panes -> Channels]
      /\ \A p \in Panes \ {head.pane} : channel'[p] = channel[p]
      /\ \/ channel'[head.pane] = channel[head.pane] /\ ~ channel[head.pane].open
         \/ channel'[head.pane] = sized /\ channel[head.pane].open
  BY <1>1, <1>3, <1>4, ZenonT(30) DEF IInv, Types
<1>6. ASSUME NEW p \in Panes
      PROVE  /\ channel'[p].open = channel[p].open /\ channel'[p].exit = channel[p].exit
             /\ channel'[p].exited = channel[p].exited /\ channel'[p].stdout = channel[p].stdout
             /\ channel'[p].output = channel[p].output /\ channel'[p].arrived = channel[p].arrived
             /\ channel'[p].eof = channel[p].eof
  BY <1>3, <1>5, SMTT(30)
<1>7. ASSUME NEW p \in Panes
      PROVE  /\ ~ channel[p].open => channel'[p] = channel[p]
             /\ channel[p].open => channel'[p].size =
                                      IF IsResize(head, p) THEN head.size ELSE channel[p].size
  BY <1>3, <1>5 DEF IsResize
<1>8. Types'
  BY <1>1, <1>5 DEF IInv, Types, TakesOut, AreSessions
<1>9. \A m \in Panes : Later(session[m], session'[m]) /\ (session[m].broken => session'[m].broken)
  BY DEF TakesOut, Later
<1>10. \A p \in Panes : PaneGoesOn(pane[p], pane'[p]) /\ PaneLater(pane[p], pane'[p])
  BY <1>1, NothingHappens DEF PaneGoesOn
<1>11. ASSUME NEW p \in Panes PROVE Order(p)'
  <2>1. Order(p) /\ Made(p) /\ pane'[p] = pane[p]
    BY <1>1 DEF IInv
  <2>2. pane[p].spawn \in {"none", "asking"} => pane[p].request = "pty" \/ ~ channel[p].open
    BY <2>1 DEF Made, Unmade
  <2>3. IsResize(head, p) => pane[p].pty = "connected"
    BY DEF IInv, Sized, TakesOut, Shorter
  <2>4. pane[p].spawn \in {"none", "asking"} => channel'[p].size = channel[p].size
    BY <1>7, <2>1, <2>3 DEF Order
  <2> QED BY <2>1, <2>4 DEF Order
<1>12. \A p \in Panes : Fresh(p)' /\ Made(p)' /\ Early(p)'
  <2>1. \A p \in Panes : Unmade(p) => Unmade(p)'
    BY <1>6 DEF Unmade
  <2> QED BY <1>6, <1>9, <1>10, <2>1, ShapeKept
<1>13. \A m \in Panes : Queued(m)'
  BY <1>10, <1>1, QueueTaken DEF PaneLater
<1>14. \A p \in Panes : Sized(p)'
  BY <1>6, <1>7, <1>10, SizeTaken
<1>15. ASSUME NEW p \in Panes PROVE Complete(p)'
  <2>1. Complete(p) /\ (pane[p].request = "pty" => pane[p].via \in Panes)
    BY DEF IInv, Order
  <2> QED BY <1>1, <1>6, <1>9, <2>1 DEF Complete
<1> QED BY <1>8, <1>11, <1>12, <1>13, <1>14, <1>15 DEF IInv

\* The server refuses a pty.
LEMMA NoPtyStep ==
    ASSUME IInv, NEW n \in Panes, TakesOut(n), session[n].at = "requests",
           NEW head \in Requests, head = session[n].requests[1], head.op = "pty",
           pane' = [pane EXCEPT ![head.pane].request = "error"],
           UNCHANGED <<domain, channel, pipe, written, events>>
    PROVE  IInv'
PROOF
<1> DEFINE after == [pane[head.pane] EXCEPT !.request = "error"]
<1>1. head.pane \in Panes /\ pane[head.pane].request = "sent"
  BY DEF Requests, IInv, Queued, TakesOut, Shorter
<1>2. pane[head.pane] \in PaneStates /\ Order(head.pane)
  BY <1>1 DEF IInv, Types
<1>3. after \in PaneStates /\ PaneGoesOn(pane[head.pane], after)
  BY ONLY <1>1, <1>2 DEF PaneStates, PaneGoesOn, PaneLater
<1>4. pane' = [pane EXCEPT ![head.pane] = after]
  BY ONLY pane' = [pane EXCEPT ![head.pane].request = "error"]
<1>5. /\ pane' \in [Panes -> PaneStates] /\ pane'[head.pane] = after
      /\ \A q \in Panes \ {head.pane} : pane'[q] = pane[q]
  BY <1>1, <1>3, <1>4, PaneChanges, Zenon
<1>6. Order(head.pane)'
  BY ONLY UNCHANGED channel, <1>1, <1>2, <1>5, SMTT(30) DEF Order, PaneStates
<1>7. after.reader = pane[head.pane].reader
  BY <1>2 DEF PaneStates
<1> HIDE DEF after
<1>8. Types'
  BY <1>5 DEF IInv, Types, TakesOut, AreSessions
<1>9. \A m \in Panes : Later(session[m], session'[m]) /\ (session[m].broken => session'[m].broken)
  BY DEF TakesOut, Later
<1>10. ASSUME NEW p \in Panes
       PROVE  PaneGoesOn(pane[p], pane'[p]) /\ PaneLater(pane[p], pane'[p]) /\ Order(p)'
              /\ pane'[p].reader = pane[p].reader
  <2>1. CASE p = head.pane
    BY ONLY <1>3, <1>5, <1>6, <1>7, <2>1 DEF PaneGoesOn
  <2>2. CASE p # head.pane
    <3>1. pane'[p] = pane[p] /\ channel'[p] = channel[p] /\ Order(p)
      BY <1>5, <2>2 DEF IInv
    <3>2. PaneGoesOn(pane[p], pane[p]) /\ PaneLater(pane[p], pane[p])
      BY ONLY IInv, p \in Panes, NothingHappens DEF PaneGoesOn
    <3>3. Order(p)'
      BY ONLY <3>1, SMTT(30) DEF Order
    <3> QED BY ONLY <3>1, <3>2, <3>3
  <2> QED BY ONLY <2>1, <2>2
<1>11. \A p \in Panes : Fresh(p)' /\ Made(p)' /\ Early(p)'
  <2>1. \A p \in Panes : Unmade(p) => Unmade(p)'
    BY DEF Unmade
  <2> QED BY <1>9, <1>10, <2>1, ShapeKept
<1>12. \A m \in Panes : Queued(m)'
  <2>1. \A p \in Panes : /\ pane'[p].via = pane[p].via
                         /\ pane[p].request = "sent" =>
                               \/ pane'[p].request = "sent"
                               \/ head.op = "pty" /\ head.pane = p
    BY ONLY head.op = "pty", <1>5, <1>10 DEF PaneLater
  <2> QED BY ONLY IInv, n \in Panes, TakesOut(n), session[n].at = "requests",
                  head = session[n].requests[1], <2>1, QueueTaken
<1>13. \A p \in Panes : Sized(p)'
  <2>1. \A p \in Panes : channel'[p].open =>
           /\ channel[p].open
           /\ channel'[p].size = IF IsResize(head, p) THEN head.size ELSE channel[p].size
    BY ONLY head.op = "pty", UNCHANGED channel DEF IsResize
  <2> QED BY ONLY IInv, n \in Panes, TakesOut(n), head = session[n].requests[1], <1>10, <2>1,
                  SizeTaken
<1>14. \A p \in Panes : Complete(p)'
  BY ONLY IInv, UNCHANGED <<channel, pipe, written>>, <1>9, <1>10, NothingHappens, OutputKept
<1> QED BY ONLY <1>8, <1>10, <1>11, <1>12, <1>13, <1>14 DEF IInv

LEMMA ChannelMade ==
    ASSUME NEW size \in Nat
    PROVE  LET made == [NewChannel EXCEPT !.open = TRUE, !.stdin = TRUE, !.stdout = TRUE,
                                          !.exit = "held", !.size = size]
           IN /\ made \in Channels /\ made.stdout /\ ~ made.exited /\ made.output = 0
              /\ made.arrived = 0 /\ made.size = size
PROOF
<1>1. NewChannel \in Channels
  <2>1. 0 \in 0 .. Buffer
    BY BoundsAssumption
  <2> QED BY <2>1 DEF NewChannel, Channels
<1>2. ~ NewChannel.exited /\ NewChannel.output = 0 /\ NewChannel.arrived = 0
  BY DEF NewChannel
<1>3. PICK c \in Channels : c = NewChannel /\ ~ c.exited /\ c.output = 0 /\ c.arrived = 0
  BY <1>1, <1>2
<1>4. LET made == [c EXCEPT !.open = TRUE, !.stdin = TRUE, !.stdout = TRUE,
                            !.exit = "held", !.size = size]
      IN /\ made \in Channels /\ made.stdout /\ ~ made.exited /\ made.output = 0
         /\ made.arrived = 0 /\ made.size = size
  BY ONLY size \in Nat, <1>3 DEF Channels
<1> QED BY <1>3, <1>4

\* What changes of a pane, and of its channel, when its pty is made.
OnlyItsOwn(p) ==
    /\ pane' \in [Panes -> PaneStates] /\ channel' \in [Panes -> Channels]
    /\ \A q \in Panes \ {p} : pane'[q] = pane[q] /\ channel'[q] = channel[q]

GetsPty(p) ==
    /\ pane'[p].request = "pty"
    /\ pane'[p].spawn = pane[p].spawn /\ pane'[p].via = pane[p].via
    /\ pane'[p].connector = pane[p].connector /\ pane'[p].reader = pane[p].reader
    /\ pane'[p].pty = pane[p].pty /\ pane'[p].size = pane[p].size
    /\ pane'[p].gone = pane[p].gone

IsEmpty(p) ==
    /\ channel'[p].stdout /\ ~ channel'[p].exited
    /\ channel'[p].output = 0 /\ channel'[p].arrived = 0 /\ channel'[p].size = channel[p].size

\* The server gives a pty: output is counted from nothing.
LEMMA PtyMade ==
    ASSUME IInv, NEW n \in Panes, TakesOut(n), session[n].at = "requests",
           NEW head, head = session[n].requests[1], head.op = "pty",
           NEW p \in Panes, p = head.pane,
           OnlyItsOwn(p), GetsPty(p), IsEmpty(p),
           UNCHANGED <<domain, pipe, written, events>>
    PROVE  IInv'
PROOF
<1>1. pane[p].request = "sent" /\ pane[p].via = n
  BY DEF IInv, Queued, TakesOut, Shorter
<1>2. Order(p) /\ Made(p)
  BY ZenonT(30) DEF IInv
<1>3. pipe[p].out = 0 /\ written[p].program = 0 /\ written[p].shown = 0
  BY <1>1, <1>2 DEF Made, Unmade
<1>4. Types'
  BY ONLY IInv, TakesOut(n), OnlyItsOwn(p), UNCHANGED <<domain, pipe, written, events>>
     DEF IInv, Types, TakesOut, AreSessions, OnlyItsOwn
<1>5. \A m \in Panes : Later(session[m], session'[m]) /\ (session[m].broken => session'[m].broken)
  BY DEF TakesOut, Later
<1>6. pane[p].spawn # "none" /\ pane[p].connector # "events" /\ pane[p].pty = "none"
      /\ (pane[p].reader = "ended" => pane[p].gone)
      /\ (pane[p].connector = "ended" => pane[p].gone)
  BY <1>1, <1>2, Zenon DEF Order
<1>7. ASSUME NEW q \in Panes PROVE Order(q)'
  <2>1. CASE q = p
    BY ONLY GetsPty(p), IsEmpty(p), <1>1, <1>2, <1>6, <2>1 DEF Order, GetsPty, IsEmpty
  <2>2. CASE q # p
    <3>1. pane'[q] = pane[q] /\ channel'[q] = channel[q] /\ Order(q)
      BY <2>2, Zenon DEF IInv, OnlyItsOwn
    <3> QED BY <3>1 DEF Order
  <2> QED BY ONLY <2>1, <2>2
<1>8. \A q \in Panes : pane'[q].via = pane[q].via /\ pane'[q].spawn = pane[q].spawn
  BY DEF OnlyItsOwn, GetsPty
<1>9. ASSUME NEW q \in Panes PROVE Fresh(q)'
  <2>1. Fresh(q) /\ Later(session[q], session'[q])
    BY <1>5 DEF IInv
  <2> QED BY <1>8, <2>1 DEF Fresh, Later
<1>10. ASSUME NEW q \in Panes PROVE Made(q)'
  <2>1. CASE q = p
    BY <2>1 DEF Made, GetsPty
  <2>2. CASE q # p
    <3>1. pane'[q] = pane[q] /\ channel'[q] = channel[q] /\ Made(q)
      BY <2>2 DEF IInv, OnlyItsOwn
    <3> QED BY <3>1 DEF Made, Unmade
  <2> QED BY <2>1, <2>2, Zenon
<1>11. ASSUME NEW m \in Panes PROVE Early(m)'
  <2>1. Early(m) /\ Later(session[m], session'[m])
    BY <1>5 DEF IInv
  <2>2. m = n => session'[m].at \notin EarlyPlaces
    BY <2>1 DEF Later, EarlyPlaces
  <2>3. \A q \in Panes : channel'[q].open => channel[q].open \/ q = p
    BY DEF OnlyItsOwn
  <2> QED BY <1>1, <1>8, <2>1, <2>2, <2>3 DEF Early, Later
<1>12. \A m \in Panes : Queued(m)'
  <2>1. \A q \in Panes : /\ pane'[q].via = pane[q].via
                         /\ pane[q].request = "sent" =>
                               \/ pane'[q].request = "sent"
                               \/ head.op = "pty" /\ head.pane = q
    BY ONLY OnlyItsOwn(p), head.op = "pty", p = head.pane, <1>8, Zenon DEF OnlyItsOwn
  <2> QED BY <2>1, QueueTaken
<1>13. ASSUME NEW q \in Panes PROVE Sized(q)'
  <2>1. CASE q = p
    <3>1. ASSUME NEW m \in Panes, NEW i \in DOMAIN session'[m].requests
          PROVE  ~ IsResize(session'[m].requests[i], p)
      BY <1>6, NoNewSizes, ZenonT(30) DEF IInv, Sized
    <3>2. pane'[p].pty # "connected"
      BY <1>6 DEF GetsPty
    <3> QED BY <2>1, <3>1, <3>2, Zenon DEF Sized, IsResize
  <2>2. CASE q # p
    <3>1. PaneGoesOn(pane[q], pane'[q]) /\ channel'[q] = channel[q]
      BY ONLY IInv, q \in Panes, OnlyItsOwn(p), <2>2, NothingHappens, Zenon DEF OnlyItsOwn
    <3> QED BY <3>1, SizeTaken DEF IsResize
  <2> QED BY <2>1, <2>2, Zenon
<1>14. ASSUME NEW q \in Panes PROVE Complete(q)'
  <2>1. CASE q = p
    <3>1. /\ written'[p].program =
                written'[p].shown + pipe'[p].out + channel'[p].output + channel'[p].arrived
      BY ONLY IsEmpty(p), UNCHANGED <<pipe, written>>, <1>3, SMTT(30) DEF IsEmpty
    <3>2. pane'[p].reader = "ended" => pane'[p].gone
      BY <1>6 DEF GetsPty
    <3>3. channel'[p].stdout /\ ~ channel'[p].exited
      BY DEF IsEmpty
    <3> QED BY <2>1, <3>1, <3>2, <3>3, Zenon DEF Complete
  <2>2. CASE q # p
    <3>1. PaneLater(pane[q], pane'[q]) /\ ChannelGoesOn(channel[q], channel'[q])
          /\ pane'[q].reader = pane[q].reader
      BY <2>2, NothingHappens DEF PaneGoesOn, OnlyItsOwn
    <3>2. pipe'[q].out = pipe[q].out /\ written'[q] = written[q]
      BY ONLY UNCHANGED <<pipe, written>>, SMTT(30)
    <3> QED BY <1>5, <3>1, <3>2, OutputKept
  <2> QED BY <2>1, <2>2, Zenon
<1> QED BY <1>4, <1>7, <1>9, <1>10, <1>11, <1>12, <1>13, <1>14 DEF IInv

LEMMA PtyStep ==
    ASSUME IInv, NEW n \in Panes, TakesOut(n), session[n].at = "requests",
           NEW head \in Requests, head = session[n].requests[1], head.op = "pty",
           NEW p \in Panes, p = head.pane,
           channel' = [channel EXCEPT ![p] =
                         [NewChannel EXCEPT !.open = TRUE, !.stdin = TRUE, !.stdout = TRUE,
                                            !.exit = "held", !.size = channel[p].size]],
           pane' = [pane EXCEPT ![p].request = "pty"],
           UNCHANGED <<domain, pipe, written, events>>
    PROVE  IInv'
PROOF
<1>1. pane[p] \in PaneStates /\ channel[p].size \in Nat
  BY ONLY IInv, p \in Panes DEF IInv, Types, Channels
<1>2. PICK after \in PaneStates :
         /\ pane' = [pane EXCEPT ![p] = after]
         /\ after.request = "pty" /\ after.spawn = pane[p].spawn
         /\ after.via = pane[p].via /\ after.connector = pane[p].connector
         /\ after.reader = pane[p].reader /\ after.pty = pane[p].pty
         /\ after.size = pane[p].size /\ after.gone = pane[p].gone
  <2> DEFINE given == [pane[p] EXCEPT !.request = "pty"]
  <2>1. /\ given \in PaneStates
        /\ given.request = "pty" /\ given.spawn = pane[p].spawn
        /\ given.via = pane[p].via /\ given.connector = pane[p].connector
        /\ given.reader = pane[p].reader /\ given.pty = pane[p].pty
        /\ given.size = pane[p].size /\ given.gone = pane[p].gone
    BY ONLY <1>1 DEF PaneStates
  <2>2. pane' = [pane EXCEPT ![p] = given]
    BY ONLY pane' = [pane EXCEPT ![p].request = "pty"]
  <2> HIDE DEF given
  <2> QED BY <2>1, <2>2, Zenon
<1>3. PICK made \in Channels :
         /\ channel' = [channel EXCEPT ![p] = made]
         /\ made.stdout /\ ~ made.exited /\ made.output = 0
         /\ made.arrived = 0 /\ made.size = channel[p].size
  <2> DEFINE new == [NewChannel EXCEPT !.open = TRUE, !.stdin = TRUE, !.stdout = TRUE,
                                       !.exit = "held", !.size = channel[p].size]
  <2>1. new \in Channels /\ new.stdout /\ ~ new.exited /\ new.output = 0
        /\ new.arrived = 0 /\ new.size = channel[p].size
    BY ONLY <1>1, ChannelMade, Zenon
  <2>2. channel' = [channel EXCEPT ![p] = new]
    OBVIOUS
  <2> HIDE DEF new
  <2> QED BY <2>1, <2>2, Zenon
<1>4. /\ pane' \in [Panes -> PaneStates] /\ pane'[p] = after
      /\ \A q \in Panes \ {p} : pane'[q] = pane[q]
  BY ONLY IInv, p \in Panes, <1>2, PaneChanges
<1>5. channel \in [Panes -> Channels]
  BY DEF IInv, Types
<1>6. /\ channel' \in [Panes -> Channels] /\ channel'[p] = made
      /\ \A q \in Panes \ {p} : channel'[q] = channel[q]
  BY ONLY p \in Panes, <1>3, <1>5
<1>7. OnlyItsOwn(p) /\ GetsPty(p) /\ IsEmpty(p)
  BY ONLY <1>2, <1>3, <1>4, <1>6 DEF OnlyItsOwn, GetsPty, IsEmpty
<1> QED BY <1>7, PtyMade

LEMMA DispatchOneStep == ASSUME IInv, NEW n \in Panes, DispatchOne(n) PROVE IInv'
PROOF
<1>1. TakesOut(n) /\ Head(session[n].requests) = session[n].requests[1]
  BY TakenOut
<1>2. PICK head \in Requests : head = session[n].requests[1] /\ head.pane \in Panes
  BY <1>1, InQueue DEF TakesOut, Shorter
<1>3. /\ session[n].at = "requests" /\ UNCHANGED <<domain, pipe, written, events>>
      /\ \/ head.op = "pty" /\ NewPty(head.pane)
         \/ head.op = "resize" /\ ResizePty(head)
         \/ head.op \in {"signal", "dropped"} /\ UNCHANGED <<channel, pane>>
  BY ONLY DispatchOne(n), <1>1, <1>2 DEF DispatchOne
<1>4. CASE head.op = "pty" /\ NewPty(head.pane)
  BY <1>1, <1>2, <1>3, <1>4, PtyStep, NoPtyStep, Zenon DEF NewPty
<1>5. CASE head.op = "resize" /\ ResizePty(head)
  BY <1>1, <1>2, <1>3, <1>5, ResizePtyStep
<1>6. CASE head.op \in {"signal", "dropped"} /\ UNCHANGED <<channel, pane>>
  BY <1>1, <1>2, <1>3, <1>6, HeardStep
<1> QED BY <1>3, <1>4, <1>5, <1>6

------------------------------------------------------------------------------
(* Output on its way.                                                      *)

\* Something happens to channels that are open.
OnlyOpen(p) ==
    /\ channel'[p].open => channel[p].open
    /\ channel'[p].size = channel[p].size
    /\ \/ channel[p].open
       \/ UNCHANGED <<channel[p], pipe[p], written[p]>>

LEMMA ChannelsStep ==
    ASSUME IInv, AreSessions(session'), \A n \in Panes : GoesOn(session[n], session'[n]),
           UNCHANGED <<domain, pane>>, events' \in 0 .. MaxEvents,
           channel' \in [Panes -> Channels],
           pipe' \in [Panes -> [in : 0 .. Buffer, out : 0 .. Buffer]],
           written' \in [Panes -> [program : Nat, shown : Nat]],
           \A p \in Panes : OnlyOpen(p) /\ Complete(p)'
    PROVE  IInv'
PROOF
<1>1. Types'
  BY DEF IInv, Types, AreSessions
<1>2. \A n \in Panes : Later(session[n], session'[n])
  BY DEF GoesOn
<1>3. \A p \in Panes : PaneGoesOn(pane[p], pane'[p]) /\ PaneLater(pane[p], pane'[p]) /\ SentKept(p)
  BY NothingHappens DEF PaneGoesOn, SentKept
<1>4. ASSUME NEW p \in Panes PROVE Order(p)'
  <2>1. Order(p) /\ channel'[p].size = channel[p].size
    BY DEF IInv, OnlyOpen
  <2> QED BY <2>1 DEF Order
<1>5. \A p \in Panes : Fresh(p)' /\ Made(p)' /\ Early(p)'
  <2>1. \A p \in Panes : Unmade(p) => Unmade(p)'
    BY DEF Unmade, OnlyOpen
  <2>2. \A p \in Panes : channel'[p].open => channel[p].open
    BY DEF OnlyOpen
  <2> QED BY <1>2, <1>3, <2>1, <2>2, ShapeKept
<1>6. \A n \in Panes : Queued(n)'
  BY <1>2, <1>3, QueueKept DEF PaneLater, GoesOn, Longer
<1>7. ASSUME NEW p \in Panes PROVE Sized(p)'
  <2>1. \A n \in Panes :
           LET queue == session[n].requests
               after == session'[n].requests
           IN /\ DOMAIN queue \subseteq DOMAIN after
              /\ \A i \in DOMAIN queue : after[i] = queue[i]
              /\ \A i \in DOMAIN after \ DOMAIN queue : ~ IsResize(after[i], p)
    BY DEF GoesOn, Longer, IsResize
  <2>2. channel'[p].open => channel[p].open /\ channel'[p].size = channel[p].size
    BY DEF OnlyOpen
  <2> QED BY <1>3, <2>1, <2>2, SizeKept
<1> QED BY <1>1, <1>4, <1>5, <1>6, <1>7 DEF IInv

\* One channel changes, and what its program has written.
LEMMA ServerStep ==
    ASSUME IInv, NEW p \in Panes, NEW after \in Channels, channel' = [channel EXCEPT ![p] = after],
           channel[p].open, after.open, after.size = channel[p].size,
           NEW more \in [program : Nat, shown : Nat], written' = [written EXCEPT ![p] = more],
           UNCHANGED <<domain, session, pane, pipe>>, events' \in 0 .. MaxEvents,
           Complete(p)'
    PROVE  IInv'
PROOF
<1>1. /\ channel' \in [Panes -> Channels] /\ channel'[p] = after
      /\ \A q \in Panes \ {p} : channel'[q] = channel[q]
  BY DEF IInv, Types
<1>2. /\ written' \in [Panes -> [program : Nat, shown : Nat]]
      /\ \A q \in Panes \ {p} : written'[q] = written[q]
  BY DEF IInv, Types
<1>3. \A q \in Panes : OnlyOpen(q)
  BY <1>1, <1>2 DEF OnlyOpen
<1>4. ASSUME NEW q \in Panes PROVE Complete(q)'
  <2>1. CASE q # p
    <3>1. channel'[q] = channel[q] /\ written'[q] = written[q] /\ Complete(q)
      BY <1>1, <1>2, <2>1 DEF IInv
    <3> QED BY <3>1 DEF Complete
  <2> QED BY <2>1
<1>5. pipe' \in [Panes -> [in : 0 .. Buffer, out : 0 .. Buffer]]
  BY DEF IInv, Types
<1> QED BY <1>1, <1>2, <1>3, <1>4, <1>5, NothingHappens, ChannelsStep

LEMMA WriteRemoteStep == ASSUME IInv, NEW p \in Panes, WriteRemote(p) PROVE IInv'
PROOF
<1> DEFINE after == [channel[p] EXCEPT !.arrived = @ + 1]
           more == [written[p] EXCEPT !.program = @ + 1]
<1>1. /\ channel[p] \in Channels /\ written[p] \in [program : Nat, shown : Nat] /\ Complete(p)
      /\ channel[p].open /\ ~ channel[p].eof /\ channel[p].arrived < Buffer
      /\ UNCHANGED <<domain, session, pane, pipe>> /\ events' \in 0 .. MaxEvents
  BY Counted DEF WriteRemote, Reached, Happens, IInv, Types
<1>2. pipe[p].out \in Nat
  <2>1. pipe[p] \in [in : 0 .. Buffer, out : 0 .. Buffer]
    BY DEF IInv, Types
  <2> QED BY <2>1, BoundsAssumption
<1>3. channel[p].arrived + 1 \in 0 .. Buffer /\ channel[p].output \in Nat /\ channel[p].arrived \in Nat
  BY <1>1, BoundsAssumption DEF Channels
<1>4. /\ after \in Channels /\ after.open = channel[p].open /\ after.size = channel[p].size
      /\ after.arrived = channel[p].arrived + 1 /\ after.output = channel[p].output
      /\ after.exited = channel[p].exited /\ after.stdout = channel[p].stdout
  BY <1>1, <1>3 DEF Channels
<1>5. /\ more \in [program : Nat, shown : Nat] /\ more.program = written[p].program + 1
      /\ more.shown = written[p].shown
  BY <1>1
<1>6. channel' = [channel EXCEPT ![p] = after] /\ written' = [written EXCEPT ![p] = more]
  BY DEF WriteRemote
<1> HIDE DEF after, more
<1>7. channel'[p] = after /\ written'[p] = more
  BY <1>6 DEF IInv, Types
<1>8. Complete(p)'
  <2> SUFFICES ASSUME pane[p].request = "pty" /\ ~ pane[p].gone /\ ~ session[pane[p].via].broken
               PROVE  Complete(p)'
    BY <1>1 DEF Complete
  <2>1. /\ written[p].program =
              written[p].shown + pipe[p].out + channel[p].output + channel[p].arrived
        /\ ~ channel[p].exited /\ channel[p].stdout /\ pane[p].reader # "ended"
    BY <1>1 DEF Complete
  <2>2. more.program = more.shown + pipe[p].out + after.output + after.arrived
    BY <1>1, <1>3, <1>4, <1>5, <1>2, <2>1
  <2> QED BY <1>1, <1>4, <1>7, <2>1, <2>2 DEF Complete
<1> QED BY <1>1, <1>4, <1>5, <1>6, <1>8, ServerStep

LEMMA EndProgramStep == ASSUME IInv, NEW p \in Panes, EndProgram(p) PROVE IInv'
PROOF
<1> DEFINE after == [channel[p] EXCEPT !.status = TRUE]
<1>1. /\ channel[p] \in Channels /\ written[p] \in [program : Nat, shown : Nat] /\ channel[p].open
      /\ UNCHANGED <<domain, session, pane, pipe, written>> /\ events' \in 0 .. MaxEvents
  BY Counted DEF EndProgram, Reached, Happens, IInv, Types
<1>2. /\ after \in Channels /\ after.open = channel[p].open /\ after.size = channel[p].size
      /\ ChannelGoesOn(channel[p], after)
  BY <1>1 DEF Channels, ChannelGoesOn
<1>3. channel' = [channel EXCEPT ![p] = after] /\ written' = [written EXCEPT ![p] = written[p]]
  BY <1>1 DEF EndProgram, IInv, Types
<1> HIDE DEF after
<1>4. channel'[p] = after
  BY <1>3 DEF IInv, Types
<1>5. Complete(p)'
  BY <1>1, <1>2, <1>4, NothingHappens, OutputKept DEF PaneGoesOn
<1> QED BY <1>1, <1>2, <1>3, <1>5, ServerStep

LEMMA EndOutputStep == ASSUME IInv, NEW p \in Panes, EndOutput(p) PROVE IInv'
PROOF
<1> DEFINE after == [channel[p] EXCEPT !.eof = TRUE]
<1>1. /\ channel[p] \in Channels /\ written[p] \in [program : Nat, shown : Nat] /\ channel[p].open
      /\ UNCHANGED <<domain, session, pane, pipe, written>> /\ events' \in 0 .. MaxEvents
  BY Counted DEF EndOutput, Reached, Happens, IInv, Types
<1>2. /\ after \in Channels /\ after.open = channel[p].open /\ after.size = channel[p].size
      /\ ChannelGoesOn(channel[p], after)
  BY <1>1 DEF Channels, ChannelGoesOn
<1>3. channel' = [channel EXCEPT ![p] = after] /\ written' = [written EXCEPT ![p] = written[p]]
  BY <1>1 DEF EndOutput, IInv, Types
<1> HIDE DEF after
<1>4. channel'[p] = after
  BY <1>3 DEF IInv, Types
<1>5. Complete(p)'
  BY <1>1, <1>2, <1>4, NothingHappens, OutputKept DEF PaneGoesOn
<1> QED BY <1>1, <1>2, <1>3, <1>5, ServerStep

\* What a session does with a channel while its connection is there.
OutputMoves(c, d) ==
    /\ d.open => c.open
    /\ d.size = c.size /\ d.eof = c.eof
    /\ d.output + d.arrived = c.output + c.arrived
    /\ c.arrived = 0 => d.arrived = 0
    /\ d.exited => c.exited \/ (d.eof /\ d.arrived = 0)
    /\ ~ d.stdout => ~ c.stdout \/ (d.eof /\ d.arrived = 0 /\ d.output = 0)
    /\ d.stdout => c.stdout

\* What it does with one in any case.
ChannelMoves(c, d) == (d.open => c.open) /\ d.size = c.size

LEMMA MovesTwice ==
    ASSUME NEW c \in Channels, NEW d \in Channels, NEW e \in Channels,
           OutputMoves(c, d), OutputMoves(d, e)
    PROVE  OutputMoves(c, e)
PROOF
<1>1. /\ c.output \in Nat /\ c.arrived \in Nat /\ d.output \in Nat /\ d.arrived \in Nat
      /\ e.output \in Nat /\ e.arrived \in Nat
  BY BoundsAssumption DEF Channels
<1>2. d.output + d.arrived = c.output + c.arrived /\ e.output + e.arrived = d.output + d.arrived
      /\ (c.arrived = 0 => d.arrived = 0) /\ (d.arrived = 0 => e.arrived = 0)
  BY DEF OutputMoves
<1>3. e.output + e.arrived = c.output + c.arrived
  BY <1>1, <1>2
<1>4. d.output = 0 /\ d.arrived = 0 => e.output = 0 /\ e.arrived = 0
  BY <1>1, <1>2
<1> QED BY <1>2, <1>3, <1>4 DEF OutputMoves

LEMMA ResolveExitMoves ==
    ASSUME NEW c \in Channels, NEW broken \in BOOLEAN
    PROVE  /\ ResolveExit(c, broken) \in Channels
           /\ ChannelMoves(c, ResolveExit(c, broken))
           /\ ~ broken => OutputMoves(c, ResolveExit(c, broken))
PROOF
<1> DEFINE d == [c EXCEPT !.exited = TRUE, !.exit = "sent"]
<1>1. d \in Channels /\ ChannelMoves(c, d)
  BY DEF Channels, ChannelMoves
<1>2. ASSUME ExitStatus(c) PROVE OutputMoves(c, d)
  BY <1>2 DEF Channels, OutputMoves, ExitStatus
<1>3. ChannelMoves(c, c) /\ OutputMoves(c, c)
  BY DEF ChannelMoves, OutputMoves
<1>4. \/ ResolveExit(c, broken) = c
      \/ ResolveExit(c, broken) = d /\ (ExitStatus(c) \/ broken)
  BY DEF ResolveExit
<1> HIDE DEF d
<1> QED BY <1>1, <1>2, <1>3, <1>4

LEMMA DropDescriptorsMoves ==
    ASSUME NEW c \in Channels, NEW broken \in BOOLEAN
    PROVE  /\ DropDescriptors(c, broken) \in Channels
           /\ ChannelMoves(c, DropDescriptors(c, broken))
           /\ ~ broken => OutputMoves(c, DropDescriptors(c, broken))
PROOF
<1> DEFINE d == [c EXCEPT !.stdin = FALSE, !.stdout = FALSE]
<1>1. d \in Channels /\ ChannelMoves(c, d)
  BY DEF Channels, ChannelMoves
<1>2. ChannelMoves(c, c) /\ OutputMoves(c, c)
  BY DEF ChannelMoves, OutputMoves
<1>3. \/ DropDescriptors(c, broken) = c
      \/ DropDescriptors(c, broken) = d /\ broken
  BY DEF DropDescriptors
<1> HIDE DEF d
<1> QED BY <1>1, <1>2, <1>3

LEMMA WriteInputMoves ==
    ASSUME NEW c \in Channels, NEW taking \in BOOLEAN
    PROVE  /\ WriteInput(c, taking) \in Channels
           /\ ChannelMoves(c, WriteInput(c, taking)) /\ OutputMoves(c, WriteInput(c, taking))
PROOF
<1> DEFINE d == [c EXCEPT !.stdin = FALSE]
           e == [c EXCEPT !.input = 0]
<1>1. d \in Channels /\ ChannelMoves(c, d) /\ OutputMoves(c, d)
  BY DEF Channels, ChannelMoves, OutputMoves
<1>2. e \in Channels /\ ChannelMoves(c, e) /\ OutputMoves(c, e)
  BY BoundsAssumption DEF Channels, ChannelMoves, OutputMoves
<1>3. ChannelMoves(c, c) /\ OutputMoves(c, c)
  BY DEF ChannelMoves, OutputMoves
<1>4. WriteInput(c, taking) = c \/ WriteInput(c, taking) = d \/ WriteInput(c, taking) = e
  BY DEF WriteInput
<1> HIDE DEF d, e
<1> QED BY <1>1, <1>2, <1>3, <1>4

(* The smaller of two numbers.                                             *)
LEMMA MinOfTwo ==
    ASSUME NEW a \in Nat, NEW b \in Nat
    PROVE  Min({a, b}) \in Nat /\ Min({a, b}) <= a /\ Min({a, b}) <= b /\ Min({a, b}) \in {a, b}
PROOF
<1>1. \E x \in {a, b} : \A y \in {a, b} : x <= y
  BY a <= b \/ b <= a
<1>2. Min({a, b}) \in {a, b} /\ \A y \in {a, b} : Min({a, b}) <= y
  BY <1>1, Zenon DEF Min
<1> QED BY <1>2

LEMMA ReadOutputMoves ==
    ASSUME NEW c \in Channels
    PROVE  /\ ReadOutput(c) \in Channels
           /\ ChannelMoves(c, ReadOutput(c)) /\ OutputMoves(c, ReadOutput(c))
PROOF
<1> DEFINE n == Min({Buffer - c.output, c.arrived})
           d == [c EXCEPT !.output = @ + n, !.arrived = @ - n]
           e == [c EXCEPT !.stdout = FALSE]
<1>1. c.output \in 0 .. Buffer /\ c.arrived \in 0 .. Buffer /\ Buffer \in Nat
  BY BoundsAssumption DEF Channels
<1>2. n \in Nat /\ n <= Buffer - c.output /\ n <= c.arrived
  BY <1>1, MinOfTwo
<1> HIDE DEF n
<1>3. c.output + n \in 0 .. Buffer /\ c.arrived - n \in 0 .. Buffer
      /\ (c.output + n) + (c.arrived - n) = c.output + c.arrived
      /\ (c.arrived = 0 => c.arrived - n = 0)
  BY <1>1, <1>2
<1>4. d \in Channels /\ ChannelMoves(c, d) /\ OutputMoves(c, d)
  BY <1>3 DEF Channels, ChannelMoves, OutputMoves
<1>5. e \in Channels /\ ChannelMoves(c, e)
  BY DEF Channels, ChannelMoves
<1>6. c.eof /\ c.arrived = 0 /\ c.output = 0 /\ c.stdout => OutputMoves(c, e)
  BY DEF Channels, OutputMoves
<1>7. ChannelMoves(c, c) /\ OutputMoves(c, c)
  BY DEF ChannelMoves, OutputMoves
<1>8. \/ ReadOutput(c) = c \/ ReadOutput(c) = d
      \/ ReadOutput(c) = e /\ c.eof /\ c.arrived = 0 /\ c.output = 0 /\ c.stdout
  BY <1>1 DEF ReadOutput, n
<1> HIDE DEF d, e
<1> QED BY <1>4, <1>5, <1>6, <1>7, <1>8

LEMMA ReapMoves ==
    ASSUME NEW c \in Channels
    PROVE  /\ Reap(c) \in Channels
           /\ ChannelMoves(c, Reap(c)) /\ OutputMoves(c, Reap(c))
PROOF
<1> DEFINE exit == IF c.exit = "held" THEN "dropped" ELSE c.exit
           d == [c EXCEPT !.open = FALSE, !.exit = exit]
<1>1. exit \in {"none", "held", "sent", "dropped"}
  BY DEF Channels
<1> HIDE DEF exit
<1>2. d \in Channels /\ ChannelMoves(c, d) /\ OutputMoves(c, d)
  BY <1>1 DEF Channels, ChannelMoves, OutputMoves
<1>3. ChannelMoves(c, c) /\ OutputMoves(c, c)
  BY DEF ChannelMoves, OutputMoves
<1>4. Reap(c) = c \/ Reap(c) = d
  BY DEF Reap, exit
<1> HIDE DEF d
<1> QED BY <1>2, <1>3, <1>4

LEMMA TickChannelMoves ==
    ASSUME NEW c \in Channels, NEW broken \in BOOLEAN, NEW taking \in BOOLEAN
    PROVE  /\ TickChannel(c, broken, taking) \in Channels
           /\ ChannelMoves(c, TickChannel(c, broken, taking))
           /\ ~ broken => OutputMoves(c, TickChannel(c, broken, taking))
PROOF
<1>1. PICK resolved : resolved = ResolveExit(c, broken)
  OBVIOUS
<1>2. resolved \in Channels /\ ChannelMoves(c, resolved) /\ (~ broken => OutputMoves(c, resolved))
  BY <1>1, ResolveExitMoves
<1>3. PICK left : left = DropDescriptors(resolved, broken)
  OBVIOUS
<1>4. left \in Channels /\ ChannelMoves(resolved, left) /\ (~ broken => OutputMoves(resolved, left))
  BY <1>2, <1>3, DropDescriptorsMoves
<1>5. PICK taken : taken = WriteInput(left, taking)
  OBVIOUS
<1>6. taken \in Channels /\ ChannelMoves(left, taken) /\ OutputMoves(left, taken)
  BY <1>4, <1>5, WriteInputMoves
<1>7. PICK read : read = ReadOutput(taken)
  OBVIOUS
<1>8. read \in Channels /\ ChannelMoves(taken, read) /\ OutputMoves(taken, read)
  BY <1>6, <1>7, ReadOutputMoves
<1>9. PICK after : after = Reap(read)
  OBVIOUS
<1>10. after \in Channels /\ ChannelMoves(read, after) /\ OutputMoves(read, after)
  BY <1>8, <1>9, ReapMoves
<1>11. TickChannel(c, broken, taking) = after
  BY <1>1, <1>3, <1>5, <1>7, <1>9 DEF TickChannel
<1>12. ChannelMoves(c, after)
  BY <1>2, <1>4, <1>6, <1>8, <1>10 DEF ChannelMoves
<1>13. ASSUME ~ broken PROVE OutputMoves(c, after)
  <2>1. OutputMoves(c, left)
    BY <1>2, <1>4, <1>13, MovesTwice
  <2>2. OutputMoves(c, taken)
    BY <1>4, <1>6, <2>1, MovesTwice
  <2>3. OutputMoves(c, read)
    BY <1>6, <1>8, <2>2, MovesTwice
  <2> QED BY <1>8, <1>10, <2>3, MovesTwice
<1> QED BY <1>10, <1>11, <1>12, <1>13

LEMMA MovesComplete ==
    ASSUME IInv, NEW p \in Panes, pane'[p] = pane[p], pipe'[p].out = pipe[p].out,
           written'[p] = written[p], channel'[p] \in Channels,
           \A n \in Panes : session[n].broken => session'[n].broken,
           ~ session'[pane[p].via].broken => OutputMoves(channel[p], channel'[p])
    PROVE  Complete(p)'
PROOF
<1> SUFFICES ASSUME pane[p].request = "pty", ~ pane[p].gone, ~ session'[pane[p].via].broken
             PROVE  Complete(p)'
  BY DEF Complete
<1>1. Complete(p) /\ pane[p].via \in Panes /\ channel[p] \in Channels
      /\ pipe[p] \in [in : 0 .. Buffer, out : 0 .. Buffer]
      /\ written[p] \in [program : Nat, shown : Nat]
  BY DEF IInv, Types, Order
<1>2. /\ channel[p].output \in Nat /\ channel[p].arrived \in Nat
      /\ channel'[p].output \in Nat /\ channel'[p].arrived \in Nat
      /\ pipe[p].out \in Nat /\ written[p].shown \in Nat
  BY <1>1, BoundsAssumption DEF Channels
<1>3. /\ written[p].program =
            written[p].shown + pipe[p].out + channel[p].output + channel[p].arrived
      /\ channel[p].exited => channel[p].eof /\ channel[p].arrived = 0
      /\ ~ channel[p].stdout =>
            channel[p].eof /\ channel[p].arrived = 0 /\ channel[p].output = 0
      /\ pane[p].reader = "ended" => ~ channel[p].stdout /\ pipe[p].out = 0
  BY <1>1 DEF Complete
<1>4. OutputMoves(channel[p], channel'[p])
  OBVIOUS
<1>5. channel'[p].output + channel'[p].arrived = channel[p].output + channel[p].arrived
  BY <1>4 DEF OutputMoves
<1>6. written'[p].program =
         written'[p].shown + pipe'[p].out + channel'[p].output + channel'[p].arrived
  BY <1>2, <1>3, <1>5
<1>7. channel'[p].exited => channel'[p].eof /\ channel'[p].arrived = 0
  BY <1>3, <1>4 DEF OutputMoves
<1>8. channel[p].output = 0 /\ channel[p].arrived = 0 =>
         channel'[p].output = 0 /\ channel'[p].arrived = 0
  BY <1>2, <1>5
<1>9. ~ channel'[p].stdout =>
         channel'[p].eof /\ channel'[p].arrived = 0 /\ channel'[p].output = 0
  BY <1>3, <1>4, <1>8 DEF OutputMoves
<1>10. pane'[p].reader = "ended" => ~ channel'[p].stdout /\ pipe'[p].out = 0
  BY <1>3, <1>4 DEF OutputMoves
<1> QED BY <1>6, <1>7, <1>9, <1>10 DEF Complete

LEMMA TickIoStep == ASSUME IInv, NEW n \in Panes, TickIo(n) PROVE IInv'
PROOF
<1>1. /\ session[n] \in Sessions /\ session[n].at = "tick" /\ session[n].broken \in BOOLEAN
      /\ UNCHANGED <<domain, pane, pipe, written, events>> /\ events' \in 0 .. MaxEvents
  BY DEF IInv, Types, TickIo, Sessions
<1>2. PICK taking \in SUBSET Panes :
         channel' = [p \in Panes |->
                       IF p \in ChannelsOf(n)
                       THEN TickChannel(channel[p], session[n].broken, p \in taking)
                       ELSE channel[p]]
  BY DEF TickIo, ChannelsOf
<1> DEFINE broken == session[n].broken
           after == [session[n] EXCEPT !.at = "requests", !.seen = broken]
<1>3. /\ after \in Sessions /\ after.requests = session[n].requests
      /\ Later(session[n], after) /\ after.broken = session[n].broken
  BY <1>1 DEF Sessions, Later, EarlyPlaces
<1>4. session' = [session EXCEPT ![n] = after]
  BY DEF TickIo
<1> HIDE DEF after
<1>5. AreSessions(session') /\ \A m \in Panes : GoesOn(session[m], session'[m])
  BY <1>3, <1>4, SessionChanges
<1>6. session'[n].broken = broken
  BY <1>3, <1>4 DEF IInv, Types
<1>7. ASSUME NEW p \in Panes
      PROVE  /\ channel'[p] \in Channels
             /\ \/ channel'[p] = channel[p]
                \/ /\ p \in ChannelsOf(n) /\ ChannelMoves(channel[p], channel'[p])
                   /\ ~ broken => OutputMoves(channel[p], channel'[p])
  <2>1. channel[p] \in Channels
    BY DEF IInv, Types
  <2>2. CASE p \in ChannelsOf(n)
    <3>1. PICK takes \in BOOLEAN : takes = (p \in taking)
      BY (p \in taking) \in BOOLEAN, Zenon
    <3>2. channel'[p] = TickChannel(channel[p], broken, takes)
      BY <1>2, <2>2, <3>1
    <3> HIDE DEF broken
    <3> QED BY <1>1, <2>1, <2>2, <3>2, TickChannelMoves DEF broken
  <2>3. CASE p \notin ChannelsOf(n)
    BY <1>2, <2>1, <2>3
  <2> QED BY <2>2, <2>3
<1>8. channel' \in [Panes -> Channels]
  <2>1. channel' = [p \in Panes |-> channel'[p]]
    BY <1>2
  <2> QED BY <1>7, <2>1
<1>9. \A m \in Panes : session[m].broken => session'[m].broken
  BY <1>5 DEF GoesOn, Later
<1>10. ASSUME NEW p \in Panes PROVE OnlyOpen(p) /\ Complete(p)'
  <2>1. UNCHANGED <<pane[p], pipe[p], written[p]>>
    BY <1>1
  <2>2. CASE channel'[p] = channel[p]
    <3>1. OnlyOpen(p)
      BY <2>1, <2>2 DEF OnlyOpen
    <3>2. OutputMoves(channel[p], channel'[p])
      BY <2>2 DEF OutputMoves
    <3> QED BY <1>7, <1>9, <2>1, <3>1, <3>2, MovesComplete
  <2>3. CASE /\ p \in ChannelsOf(n) /\ ChannelMoves(channel[p], channel'[p])
             /\ ~ broken => OutputMoves(channel[p], channel'[p])
    <3>1. channel[p].open /\ pane[p].via = n
      BY <2>3 DEF ChannelsOf
    <3>2. OnlyOpen(p)
      BY <2>3, <3>1 DEF OnlyOpen, ChannelMoves
    <3> QED BY <1>6, <1>7, <1>9, <2>1, <2>3, <3>1, <3>2, MovesComplete
  <2> QED BY <1>7, <2>2, <2>3
<1>11. /\ pipe' \in [Panes -> [in : 0 .. Buffer, out : 0 .. Buffer]]
       /\ written' \in [Panes -> [program : Nat, shown : Nat]]
  BY <1>1 DEF IInv, Types
<1> QED BY <1>1, <1>5, <1>8, <1>10, <1>11, ChannelsStep

\* Input leaves what is known of the output as it is.
SameOutput(c, d) ==
    /\ d.open = c.open /\ d.size = c.size /\ d.stdout = c.stdout /\ d.exited = c.exited
    /\ d.eof = c.eof /\ d.output = c.output /\ d.arrived = c.arrived

LEMMA ReadInputKeeps ==
    ASSUME IInv, NEW p \in Panes
    PROVE  /\ ReadInput(channel[p], p) \in Channels
           /\ SameOutput(channel[p], ReadInput(channel[p], p))
           /\ InputRead(channel[p], p) \in 0 .. pipe[p].in
PROOF
<1> DEFINE c == channel[p]
           n == Min({Buffer - c.input, pipe[p].in})
           d == [c EXCEPT !.stdin = FALSE, !.closed = TRUE]
           e == [c EXCEPT !.input = @ + n]
<1>1. c \in Channels /\ c.input \in 0 .. Buffer
  BY DEF IInv, Types, Channels
<1>2. pipe[p].in \in 0 .. Buffer
  <2>1. pipe[p] \in [in : 0 .. Buffer, out : 0 .. Buffer]
    BY DEF IInv, Types
  <2> QED BY <2>1
<1>3. n \in Nat /\ n <= Buffer - c.input /\ n <= pipe[p].in
  <2>1. Buffer - c.input \in Nat /\ pipe[p].in \in Nat
    BY <1>1, <1>2, BoundsAssumption
  <2> QED BY <2>1, MinOfTwo
<1>4. ReadInput(c, p) \in {c, d, e}
  BY DEF ReadInput
<1>5. InputRead(c, p) \in {0, pipe[p].in, n}
  BY DEF InputRead
<1> HIDE DEF n
<1>6. c.input + n \in 0 .. Buffer
  BY <1>1, <1>3, BoundsAssumption
<1> HIDE DEF c
<1>7. d \in Channels /\ SameOutput(c, d)
  BY <1>1 DEF Channels, SameOutput
<1>8. e \in Channels /\ SameOutput(c, e)
  BY <1>1, <1>6 DEF Channels, SameOutput
<1>9. SameOutput(c, c)
  BY DEF SameOutput
<1>10. 0 \in 0 .. pipe[p].in /\ pipe[p].in \in 0 .. pipe[p].in /\ n \in 0 .. pipe[p].in
  BY <1>2, <1>3, BoundsAssumption
<1> HIDE DEF d, e
<1>11. /\ ReadInput(c, p) \in Channels /\ SameOutput(c, ReadInput(c, p))
       /\ InputRead(c, p) \in 0 .. pipe[p].in
  BY <1>1, <1>4, <1>5, <1>7, <1>8, <1>9, <1>10
<1> QED BY <1>11 DEF c

\* Output goes on, or its descriptor is closed.
LEMMA WriteOutputKeeps ==
    ASSUME IInv, NEW p \in Panes, NEW c \in Channels
    PROVE  LET d == WriteOutput(c, p)
               n == OutputWritten(c, p)
           IN /\ d \in Channels /\ n \in Nat /\ n <= Buffer - pipe[p].out
              /\ d.open = c.open /\ d.size = c.size /\ d.exited = c.exited
              /\ d.eof = c.eof /\ d.arrived = c.arrived
              /\ c.stdout \/ n = 0
              /\ HoldsReader(p) => d.output = c.output - n
              /\ HoldsReader(p) =>
                    \/ d.stdout = c.stdout
                    \/ ~ d.stdout /\ c.exited /\ d.output = 0
PROOF
<1> DEFINE m == Min({Buffer - pipe[p].out, c.output})
           n == OutputWritten(c, p)
           d == [c EXCEPT !.stdout = FALSE]
           e == [c EXCEPT !.output = @ - n]
<1>1. c.output \in 0 .. Buffer
  BY DEF Channels
<1>2. pipe[p].out \in 0 .. Buffer
  <2>1. pipe[p] \in [in : 0 .. Buffer, out : 0 .. Buffer]
    BY DEF IInv, Types
  <2> QED BY <2>1
<1>3. Buffer - pipe[p].out \in Nat /\ c.output \in Nat
  BY <1>1, <1>2, BoundsAssumption
<1>4. m \in Nat /\ m <= Buffer - pipe[p].out /\ m <= c.output
  BY <1>3, MinOfTwo
<1>5. n = IF c.stdout /\ HoldsReader(p) THEN m ELSE 0
  BY DEF OutputWritten
<1> HIDE DEF m, n
<1>6. n \in Nat /\ n <= Buffer - pipe[p].out /\ n <= c.output /\ (c.stdout \/ n = 0)
  BY <1>3, <1>4, <1>5
<1>7. c.output - n \in 0 .. Buffer
  BY <1>1, <1>6, BoundsAssumption
<1>8. /\ d \in Channels /\ d.open = c.open /\ d.size = c.size /\ d.exited = c.exited
      /\ d.eof = c.eof /\ d.arrived = c.arrived /\ d.output = c.output /\ ~ d.stdout
  BY DEF Channels
<1>9. /\ e \in Channels /\ e.open = c.open /\ e.size = c.size /\ e.exited = c.exited
      /\ e.eof = c.eof /\ e.arrived = c.arrived /\ e.output = c.output - n
      /\ e.stdout = c.stdout
  BY <1>7 DEF Channels
<1>10. \/ WriteOutput(c, p) = c /\ ~ c.stdout
       \/ WriteOutput(c, p) = d /\ (~ HoldsReader(p) \/ (c.exited /\ c.output = 0))
       \/ WriteOutput(c, p) = e
  BY DEF WriteOutput, n
<1> HIDE DEF d, e
<1>11. PICK after : after = WriteOutput(c, p)
  OBVIOUS
<1>12. CASE after = c /\ ~ c.stdout
  <2>1. n = 0 /\ c.output = c.output - n
    BY <1>3, <1>6, <1>12
  <2> QED BY <1>6, <1>11, <1>12, <2>1 DEF n
<1>13. CASE after = d /\ (~ HoldsReader(p) \/ (c.exited /\ c.output = 0))
  <2>1. HoldsReader(p) => n = 0 /\ c.output - n = c.output /\ c.exited /\ c.output = 0
    BY <1>3, <1>6, <1>13
  <2> QED BY <1>6, <1>8, <1>11, <1>13, <2>1 DEF n
<1>14. CASE after = e
  BY <1>6, <1>9, <1>11, <1>14 DEF n
<1> QED BY <1>10, <1>11, <1>12, <1>13, <1>14

LEMMA PollComplete ==
    ASSUME IInv, NEW p \in Panes, NEW c \in Channels, SameOutput(channel[p], c),
           channel'[p] = WriteOutput(c, p), pipe'[p].out = pipe[p].out + OutputWritten(c, p),
           pane'[p] = pane[p], written'[p] = written[p],
           \A n \in Panes : session[n].broken => session'[n].broken
    PROVE  Complete(p)'
PROOF
<1> SUFFICES ASSUME pane[p].request = "pty", ~ pane[p].gone, ~ session'[pane[p].via].broken
             PROVE  Complete(p)'
  BY DEF Complete
<1>1. PICK n : n = OutputWritten(c, p)
  OBVIOUS
<1>2. PICK d : d = WriteOutput(c, p)
  OBVIOUS
<1>3. HoldsReader(p)
  BY DEF HoldsReader, HoldsWriter
<1>4. /\ d \in Channels /\ n \in Nat
      /\ d.open = c.open /\ d.exited = c.exited /\ d.eof = c.eof /\ d.arrived = c.arrived
      /\ c.stdout \/ n = 0
      /\ d.output = c.output - n
      /\ \/ d.stdout = c.stdout
         \/ ~ d.stdout /\ c.exited /\ d.output = 0
  BY <1>1, <1>2, <1>3, WriteOutputKeeps
<1>5. Complete(p) /\ pane[p].via \in Panes /\ channel[p] \in Channels
  BY DEF IInv, Types, Order
<1>6. /\ channel[p].output \in Nat /\ channel[p].arrived \in Nat
      /\ pipe[p].out \in Nat /\ written[p].shown \in Nat
  <2>1. /\ pipe[p] \in [in : 0 .. Buffer, out : 0 .. Buffer]
        /\ written[p] \in [program : Nat, shown : Nat]
    BY DEF IInv, Types
  <2> QED BY <1>5, <2>1, BoundsAssumption DEF Channels
<1>7. /\ written[p].program = written[p].shown + pipe[p].out + c.output + c.arrived
      /\ c.exited => c.eof /\ c.arrived = 0
      /\ ~ c.stdout => c.eof /\ c.arrived = 0 /\ c.output = 0
      /\ pane[p].reader = "ended" => ~ c.stdout /\ pipe[p].out = 0
  BY <1>5 DEF Complete, SameOutput
<1>8. c.output \in Nat /\ c.arrived \in Nat
  BY <1>6 DEF SameOutput
<1>9. channel'[p] = d /\ pipe'[p].out = pipe[p].out + n
  BY <1>1, <1>2
<1>10. written[p].program = written[p].shown + (pipe[p].out + n) + d.output + d.arrived
  BY <1>4, <1>6, <1>7, <1>8
<1>11. d.exited => d.eof /\ d.arrived = 0
  BY <1>4, <1>7
<1>12. ~ d.stdout => d.eof /\ d.arrived = 0 /\ d.output = 0
  <2>1. CASE d.stdout = c.stdout
    BY <1>4, <1>7, <1>8, <2>1
  <2>2. CASE ~ d.stdout /\ c.exited /\ d.output = 0
    BY <1>4, <1>7, <2>2
  <2> QED BY <1>4, <2>1, <2>2
<1>13. pane[p].reader = "ended" => ~ d.stdout /\ pipe[p].out + n = 0
  BY <1>4, <1>7
<1> QED BY <1>9, <1>10, <1>11, <1>12, <1>13 DEF Complete

LEMMA PollStep == ASSUME IInv, NEW n \in Panes, Poll(n) PROVE IInv'
PROOF
<1> DEFINE after == [session[n] EXCEPT !.at = "tick"]
<1>1. /\ session[n] \in Sessions /\ session[n].at = "poll"
      /\ UNCHANGED <<domain, pane, written, events>> /\ events' \in 0 .. MaxEvents
  BY DEF IInv, Types, Poll
<1>2. after \in Sessions /\ after.requests = session[n].requests /\ Later(session[n], after)
  BY <1>1 DEF Sessions, Later, EarlyPlaces
<1>3. session' = [session EXCEPT ![n] = after]
  BY DEF Poll
<1> HIDE DEF after
<1>4. AreSessions(session') /\ \A m \in Panes : GoesOn(session[m], session'[m])
  BY <1>2, <1>3, SessionChanges
<1>5. \A m \in Panes : session[m].broken => session'[m].broken
  BY <1>4 DEF GoesOn, Later
<1>6. channel' = [p \in Panes |->
                     IF p \in ChannelsOf(n) THEN WriteOutput(ReadInput(channel[p], p), p)
                     ELSE channel[p]]
  BY DEF Poll
<1>7. pipe' = [p \in Panes |->
                  IF p \in ChannelsOf(n)
                  THEN [in |-> pipe[p].in - InputRead(channel[p], p),
                        out |-> pipe[p].out + OutputWritten(channel[p], p)]
                  ELSE pipe[p]]
  BY DEF Poll
<1>8. ASSUME NEW p \in Panes, p \in ChannelsOf(n)
      PROVE  /\ channel'[p] \in Channels
             /\ pipe'[p] \in [in : 0 .. Buffer, out : 0 .. Buffer]
             /\ OnlyOpen(p) /\ Complete(p)'
  <2>1. PICK c \in Channels : c = ReadInput(channel[p], p) /\ SameOutput(channel[p], c)
    BY ReadInputKeeps
  <2>2. InputRead(channel[p], p) \in 0 .. pipe[p].in
    BY ReadInputKeeps
  <2>3. channel'[p] = WriteOutput(c, p)
    BY <1>6, <1>8, <2>1
  <2>4. OutputWritten(channel[p], p) = OutputWritten(c, p)
    BY <2>1 DEF OutputWritten, SameOutput
  <2>5. pipe'[p] = [in |-> pipe[p].in - InputRead(channel[p], p),
                    out |-> pipe[p].out + OutputWritten(c, p)]
    BY <1>7, <1>8, <2>4
  <2>6. /\ WriteOutput(c, p) \in Channels /\ OutputWritten(c, p) \in Nat
        /\ OutputWritten(c, p) <= Buffer - pipe[p].out
        /\ WriteOutput(c, p).open = c.open /\ WriteOutput(c, p).size = c.size
    BY WriteOutputKeeps
  <2>7. pipe[p].in \in 0 .. Buffer /\ pipe[p].out \in 0 .. Buffer
    <3>1. pipe[p] \in [in : 0 .. Buffer, out : 0 .. Buffer]
      BY DEF IInv, Types
    <3> QED BY <3>1
  <2>8. /\ pipe[p].in - InputRead(channel[p], p) \in 0 .. Buffer
        /\ pipe[p].out + OutputWritten(c, p) \in 0 .. Buffer
    BY <2>2, <2>6, <2>7, BoundsAssumption
  <2>9. OnlyOpen(p)
    BY <1>8, <2>1, <2>3, <2>6 DEF OnlyOpen, SameOutput, ChannelsOf
  <2>10. Complete(p)'
    <3>1. pane'[p] = pane[p] /\ written'[p] = written[p]
      BY <1>1
    <3>2. pipe'[p].out = pipe[p].out + OutputWritten(c, p)
      BY <2>5
    <3> QED BY <1>5, <2>1, <2>3, <3>1, <3>2, PollComplete
  <2> QED BY <2>3, <2>5, <2>6, <2>8, <2>9, <2>10
<1>9. ASSUME NEW p \in Panes, p \notin ChannelsOf(n)
      PROVE  /\ channel'[p] \in Channels
             /\ pipe'[p] \in [in : 0 .. Buffer, out : 0 .. Buffer]
             /\ OnlyOpen(p) /\ Complete(p)'
  <2>1. UNCHANGED <<channel[p], pipe[p], pane[p], written[p]>>
    BY <1>1, <1>6, <1>7, <1>9
  <2>2. channel[p] \in Channels /\ pipe[p] \in [in : 0 .. Buffer, out : 0 .. Buffer]
    BY DEF IInv, Types
  <2>3. OnlyOpen(p)
    BY <2>1 DEF OnlyOpen
  <2>4. OutputMoves(channel[p], channel'[p])
    BY <2>1 DEF OutputMoves
  <2>5. Complete(p)'
    BY <1>5, <2>1, <2>2, <2>4, MovesComplete
  <2> QED BY <2>1, <2>2, <2>3, <2>5
<1>10. channel' \in [Panes -> Channels] /\ pipe' \in [Panes -> [in : 0 .. Buffer, out : 0 .. Buffer]]
  <2>1. channel' = [p \in Panes |-> channel'[p]] /\ pipe' = [p \in Panes |-> pipe'[p]]
    BY <1>6, <1>7
  <2>2. \A p \in Panes : /\ channel'[p] \in Channels
                         /\ pipe'[p] \in [in : 0 .. Buffer, out : 0 .. Buffer]
    BY <1>8, <1>9
  <2> QED BY <2>1, <2>2
<1>11. written' \in [Panes -> [program : Nat, shown : Nat]]
  BY <1>1 DEF IInv, Types
<1> QED BY <1>1, <1>4, <1>8, <1>9, <1>10, <1>11, ChannelsStep

------------------------------------------------------------------------------
(* The invariant.                                                          *)

LEMMA AtFirst == Init => IInv
PROOF
<1> SUFFICES ASSUME Init PROVE IInv
  OBVIOUS
<1>1. /\ NewPane \in PaneStates /\ NewChannel \in Channels
      /\ [NewSession EXCEPT !.at = "none"] \in Sessions
      /\ 0 \in 0 .. Buffer /\ 0 \in 0 .. MaxEvents /\ None \in 0 .. MaxPanes
      /\ Len(<< >>) <= QueueSize
  <2>1. 0 \in 0 .. Buffer /\ 0 \in 0 .. MaxEvents /\ 0 \in 0 .. MaxPanes /\ 0 <= QueueSize
    BY BoundsAssumption
  <2>2. NewPane \in PaneStates
    BY <2>1 DEF NewPane, PaneStates, None
  <2>3. NewChannel \in Channels
    BY <2>1 DEF NewChannel, Channels
  <2>4. [NewSession EXCEPT !.at = "none"] \in Sessions
    <3>1. NewSession \in Sessions
      BY DEF NewSession, Sessions
    <3> QED BY <3>1 DEF Sessions
  <2> QED BY <2>1, <2>2, <2>3, <2>4 DEF None
<1>2. \A n \in Panes : session[n].at = "none" /\ session[n].requests = << >>
  BY DEF Init, NewSession
<1>3. \A p \in Panes : pane[p] = NewPane /\ channel[p] = NewChannel
  BY DEF Init
<1>4. \A p \in Panes : /\ pipe[p].out = 0 /\ written[p].program = 0 /\ written[p].shown = 0
  BY DEF Init
<1>5. Types
  <2>1. \A n \in Panes : Len(session[n].requests) <= QueueSize
    BY <1>1, <1>2
  <2> QED BY <1>1, <2>1 DEF Types, Init
<1>6. \A p \in Panes : p # None
  BY BoundsAssumption DEF Panes, None
<1>7. ASSUME NEW p \in Panes
      PROVE  Fresh(p) /\ Order(p) /\ Made(p) /\ Early(p) /\ Queued(p) /\ Complete(p) /\ Sized(p)
  <2>1. Fresh(p)
    BY <1>2, <1>3, <1>6 DEF Fresh, NewPane, Init
  <2>2. Order(p)
    BY <1>3 DEF Order, NewPane, NewChannel
  <2>3. Made(p)
    BY <1>3, <1>4 DEF Made, Unmade, NewChannel
  <2>4. Early(p)
    BY <1>3 DEF Early, NewChannel
  <2>5. Queued(p)
    BY <1>2 DEF Queued
  <2>6. Complete(p)
    BY <1>3 DEF Complete, NewPane
  <2>7. Sized(p)
    BY <1>2, <1>3 DEF Sized, NewPane
  <2> QED BY <2>1, <2>2, <2>3, <2>4, <2>5, <2>6, <2>7
<1> QED BY <1>5, <1>7 DEF IInv

LEMMA Always == IInv /\ [Next]_vars => IInv'
PROOF
<1> SUFFICES ASSUME IInv, [Next]_vars PROVE IInv'
  OBVIOUS
<1>1. CASE UNCHANGED vars
  <2>1. AreSessions(session') /\ \A n \in Panes : GoesOn(session[n], session'[n])
    BY <1>1, NothingHappens DEF vars
  <2>2. events' \in 0 .. MaxEvents
    BY <1>1 DEF vars, IInv, Types
  <2> QED BY <1>1, <2>1, <2>2, SessionStep DEF vars
<1>2. ASSUME NEW p \in Panes, Thread(p) PROVE IInv'
  BY <1>2, RequestPtyStep, FinishSpawnStep, HearEventStep, HandOverStep, HandChildStep, WaitStep,
     ReadStep DEF Thread, Task, Connector
<1>3. ASSUME NEW p \in Panes, User(p) PROVE IInv'
  BY <1>3, SpawnPaneStep, AnswerStep, ResizeStep, LookAtPtyStep, TypeStep, CloseStep DEF User
<1>4. ASSUME NEW n \in Panes, Loop(n) PROVE IInv'
  BY <1>4, ConnectStep, TickIoStep, DispatchOneStep, DispatchedStep, CheckEndStep, PollStep
     DEF Loop
<1>5. ASSUME NEW p \in Panes, Server(p) PROVE IInv'
  BY <1>5, WriteRemoteStep, EndProgramStep, EndOutputStep DEF Server
<1>6. ASSUME NEW n \in Panes, Break(n) PROVE IInv'
  BY <1>6, BreakStep
<1> QED BY <1>1, <1>2, <1>3, <1>4, <1>5, <1>6 DEF Next

\* A request for a pty is queued once, a session ends over no channel, and output
\* and sizes are all on their way or have arrived (sessioninner.rs, mux/src/ssh.rs).
THEOREM Invariance == Spec => []IInv
PROOF
  BY AtFirst, Always, PTL DEF Spec

LEMMA TypesMean == IInv => TypeOK
PROOF
<1> SUFFICES ASSUME IInv PROVE TypeOK
  OBVIOUS
<1>1. ASSUME NEW n \in Panes
      PROVE  /\ session[n].at \in {"none", "connecting", "asking", "answered", "tick", "requests",
                                   "check", "poll", "ended"}
             /\ Len(session[n].requests) <= QueueSize
  BY DEF IInv, Types, Sessions
<1>2. ASSUME NEW p \in Panes
      PROVE  /\ pane[p].spawn \in {"none", "asking", "open", "failed"}
             /\ pane[p].via \in 0 .. MaxPanes
             /\ pane[p].request \in {"none", "sending", "sent", "pty", "error", "lost", "dead"}
             /\ pane[p].connector \in {"none", "events", "requesting", "handing", "done", "ended"}
             /\ pane[p].waiter \in {"none", "child", "status", "ended"}
             /\ pane[p].reader \in {"none", "dialog", "session", "ended"}
             /\ pane[p].pty \in {"none", "held", "connected"}
  <2>1. pane[p] \in PaneStates
    BY DEF IInv, Types
  <2> QED BY <2>1 DEF PaneStates
<1>3. ASSUME NEW p \in Panes
      PROVE  /\ channel[p].exit \in {"none", "held", "sent", "dropped"}
             /\ {channel[p].input, channel[p].output, channel[p].arrived,
                 pipe[p].in, pipe[p].out} \subseteq 0 .. Buffer
  <2>1. channel[p] \in Channels /\ pipe[p] \in [in : 0 .. Buffer, out : 0 .. Buffer]
    BY DEF IInv, Types
  <2> QED BY <2>1 DEF Channels
<1>4. domain \in 0 .. MaxPanes /\ events \in 0 .. MaxEvents
  BY DEF IInv, Types
<1> QED BY <1>1, <1>2, <1>3, <1>4 DEF TypeOK

\* Every variable has its type, and queues, sockets and buffers are never fuller
\* than they can be (SessionSender and DescriptorState).
THEOREM TypeCorrect == Spec => []TypeOK
PROOF
  BY Invariance, TypesMean, PTL

LEMMA CompleteMeans == IInv => OutputIsComplete
PROOF
<1> SUFFICES ASSUME IInv, NEW p \in Panes, pane[p].reader = "ended", ~ pane[p].gone,
                    channel[p].exit = "sent", ~ session[pane[p].via].broken
             PROVE  written[p].shown = written[p].program
  BY DEF OutputIsComplete
<1>1. pane[p].request = "pty"
  BY DEF IInv, Made, Unmade
<1>2. /\ written[p].program =
            written[p].shown + pipe[p].out + channel[p].output + channel[p].arrived
      /\ pipe[p].out = 0 /\ channel[p].output = 0 /\ channel[p].arrived = 0
  BY <1>1 DEF IInv, Complete
<1>3. written[p] \in [program : Nat, shown : Nat]
  BY ONLY IInv, p \in Panes DEF IInv, Types
<1> QED BY <1>2, <1>3

\* A pane whose program ends by itself shows all that the program has written,
\* though its status may be known while output is in the library, in the buffer
\* of the session or in the socket (the order of tick_io, and the end of stdout
\* in the loop of request_loop).
THEOREM OutputComplete == Spec => []OutputIsComplete
PROOF
  BY Invariance, CompleteMeans, PTL

LEMMA SizeMeans == IInv => LastSizeArrives
PROOF
<1> SUFFICES ASSUME IInv, NEW p \in Panes,
                    channel[p].open, pane[p].pty = "connected", ~ pane[p].refused,
                    \A i \in DOMAIN session[pane[p].via].requests :
                       session[pane[p].via].requests[i].op # "resize"
             PROVE  channel[p].size = pane[p].size
  BY DEF LastSizeArrives
<1>1. LastSize(session[pane[p].via].requests, p, channel[p].size, pane[p].size)
  BY DEF IInv, Sized
<1> QED BY <1>1, Zenon DEF LastSize, IsResize

\* The server is told the last size of a pane, though it may be resized while its
\* pty is asked for and handed over (check_connected and resize of WrappedSshPty).
THEOREM LastSizeIsSent == Spec => []LastSizeArrives
PROOF
  BY Invariance, SizeMeans, PTL

=============================================================================
