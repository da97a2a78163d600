-------------------------------- MODULE ClientProofs -------------------------------
(***************************************************************************)
(* What a client does with its server, for any number of calls,            *)
(* connections, rows and fetches: the calls (RpcSession), the lines of a   *)
(* remote pane (RenderSync), the sets of rows that both ends talk about    *)
(* (RangeSet), and the cache that the lines are painted from (LfuCache).   *)
(* The four share no state.                                                *)
(***************************************************************************)
EXTENDS RpcSession, RenderSync, RangeSet, LfuCache, FiniteSetTheorems,
        FunctionTheorems, SequenceTheorems, WellFoundedInduction, TLAPS

(***************************************************************************)
(* RpcSession for any set of calls, any sockets and any number of          *)
(* connections: every reply has its promise, and the client thread, the    *)
(* session loop and the connection together implement Rpc, so a request    *)
(* runs at most once and a call is settled by the reply to that request.   *)
(*                                                                         *)
(* Two things have to be carried along.  A request that has not run is in  *)
(* one place only: the queue, the hands of the client thread, the socket   *)
(* or the tasks of the server (Places).  A reply on its way has a serial   *)
(* under which its own call is remembered, and no two replies have the     *)
(* same one (Answers); as a serial is given again after a reconnection,    *)
(* this rests on nothing of an earlier session being under way (Phases).   *)
(***************************************************************************)

CallsTyped ==
    /\ outcome \in [Calls -> Calls \cup {"idle", "waiting", "failed", "expired"}]
    /\ queue \in Seq(Calls)
    /\ thread \in {"select", "encode", "connect", "ended"}
    /\ encoding \in Calls \cup {NoCall}
    /\ nextSerial \in Nat \ {0}
    /\ promises \in [DOMAIN promises -> Calls]
    /\ DOMAIN promises \subseteq 1 .. nextSerial - 1
    /\ link \in {"up", "eof", "error"}
    /\ session \in Nat \ {0}
    /\ toServer \in Seq(Message)
    /\ toClient \in Seq(Message)
    /\ items \in Seq(Message)
    /\ sending \in Seq(Message)
    /\ Len(sending) <= 1
    /\ tasks \subseteq [serial : Nat, call : Calls, session : 1 .. session]
    /\ runs \in [Calls -> {0, 1}]

(* Where the client thread is says what there can be.                      *)
Phases ==
    /\ thread = "encode" => /\ nextSerial - 1 \in DOMAIN promises
                            /\ promises[nextSerial - 1] = encoding
    /\ thread # "encode" => encoding = NoCall
    /\ link # "up" => toServer = << >> /\ items = << >> /\ sending = << >>
    /\ thread \in {"connect", "ended"} =>
          link # "up" /\ toClient = << >> /\ promises = << >>

(* The request of call c was made and has not run.                         *)
Unrun(c) == c \in Calls /\ outcome[c] # "idle" /\ runs[c] = 0

(* A request that has not run is in one place, once.                       *)
Places ==
    /\ \A c \in Calls : outcome[c] = "idle" => runs[c] = 0
    /\ \A i \in DOMAIN queue :
          /\ Unrun(queue[i])
          /\ queue[i] # encoding
          /\ \A j \in DOMAIN queue : queue[i] = queue[j] => i = j
    /\ encoding # NoCall => Unrun(encoding)
    /\ \A i \in DOMAIN toServer :
          /\ Unrun(toServer[i].call)
          /\ toServer[i].call # encoding
          /\ \A j \in DOMAIN queue : toServer[i].call # queue[j]
          /\ \A j \in DOMAIN toServer : toServer[i].call = toServer[j].call => i = j
    /\ \A t \in tasks :
          /\ Unrun(t.call)
          /\ t.call # encoding
          /\ \A j \in DOMAIN queue : t.call # queue[j]
          /\ \A j \in DOMAIN toServer : t.call # toServer[j].call
          /\ \A u \in tasks : t.call = u.call => t = u

(* The serial of a request or reply m stands for its call.                 *)
Known(m) == m.serial \in DOMAIN promises /\ promises[m.serial] = m.call

(* RequestsUnderWay of this connection, queued at the server or running there.     *)
RequestsUnderWay ==
    link = "up" =>
        /\ \A i \in DOMAIN toServer : Known(toServer[i])
        /\ \A t \in tasks : t.session = session => Known(t)

Replies == toClient \o sending \o items

(* Replies on their way to the client, notices aside.                      *)
Answers ==
    \A i \in DOMAIN Replies :
        Replies[i].serial # 0 =>
            /\ Known(Replies[i])
            /\ runs[Replies[i].call] = 1
            /\ \A j \in DOMAIN Replies : Replies[i].serial = Replies[j].serial => i = j

CallsInv == CallsTyped /\ Phases /\ Places /\ RequestsUnderWay /\ Answers

-----------------------------------------------------------------------------
(* The steps.                                                              *)

LEMMA CallsInitially == Init => CallsInv
  <1> SUFFICES ASSUME Init PROVE CallsInv
    OBVIOUS
  <1>1. CallsTyped
    BY DEF Init, CallsTyped, Message
  <1>2. Phases /\ Places /\ RequestsUnderWay
    BY DEF Init, Phases, Places, RequestsUnderWay
  <1>3. Replies = << >>
    BY DEF Init, Replies
  <1> QED BY <1>1, <1>2, <1>3 DEF CallsInv, Answers

(* A call is queued, or fails where there is no thread to take it.         *)
LEMMA CallStep == ASSUME CallsInv, NEW c \in Calls, Call(c) PROVE CallsInv'
  <1> USE DEF CallsInv
  <1>1. /\ outcome[c] = "idle" /\ outcome' = [outcome EXCEPT ![c] = outcome'[c]]
        /\ outcome'[c] \in {"waiting", "failed"}
        /\ queue' = queue \/ queue' = Append(queue, c)
        /\ UNCHANGED <<thread, encoding, nextSerial, promises, link, session, toServer, toClient,
                       items, sending, tasks, runs, notices>>
    BY DEF Call, CallsTyped, wire, serverVars
  <1>2. CallsTyped'
    <2>1. queue' \in Seq(Calls)
      <3>1. queue \in Seq(Calls)
        BY DEF CallsTyped
      <3> QED BY <1>1, <3>1
    <2>2. outcome' \in [Calls -> Calls \cup {"idle", "waiting", "failed", "expired"}]
      BY <1>1 DEF CallsTyped
    <2> QED BY <1>1, <2>1, <2>2 DEF CallsTyped
  <1>3. Phases' /\ RequestsUnderWay' /\ Answers'
    BY <1>1 DEF Phases, RequestsUnderWay, Known, Answers, Replies
  <1>4. Places'
    <2>1. \A d \in Calls : Unrun(d) => Unrun(d)' /\ d # c
      BY <1>1 DEF Unrun, CallsTyped
    <2>2. Unrun(c)'
      BY <1>1 DEF Unrun, Places, CallsTyped
    <2>3. \A d \in Calls : outcome'[d] = "idle" => runs'[d] = 0
      BY <1>1 DEF Places, CallsTyped
    <2>4. /\ queue' \in Seq(Calls)
          /\ \A j \in DOMAIN queue' : queue'[j] = c \/ (j \in DOMAIN queue /\ queue'[j] = queue[j])
          /\ \A i, j \in DOMAIN queue' : queue'[i] = queue'[j] => i = j
      <3>1. \A i \in DOMAIN queue : queue[i] # c
        BY <2>1 DEF Places, Unrun
      <3>2. queue \in Seq(Calls) /\ \A i, j \in DOMAIN queue : queue[i] = queue[j] => i = j
        BY DEF CallsTyped, Places
      <3>3. CASE queue' = queue
        BY <3>2, <3>3
      <3>4. CASE queue' = Append(queue, c)
        BY <3>1, <3>2, <3>4
      <3> QED BY <1>1, <3>3, <3>4
    <2>5. \A i \in DOMAIN toServer : toServer[i].call # c
      BY <2>1 DEF Places, Unrun
    <2>6. \A t \in tasks : t.call # c
      BY <2>1 DEF Places, Unrun
    <2>7. encoding # c
      BY <2>1, CallsAssumption DEF Places, Unrun
    <2> QED BY <1>1, <2>1, <2>2, <2>3, <2>4, <2>5, <2>6, <2>7 DEF Places, Unrun
  <1> QED BY <1>2, <1>3, <1>4

(* A caller that gives up.                                                 *)
LEMMA ExpireStep == ASSUME CallsInv, NEW c \in Calls, Expire(c) PROVE CallsInv'
  <1>1. /\ outcome[c] = "waiting" /\ outcome' = [outcome EXCEPT ![c] = "expired"]
        /\ UNCHANGED <<queue, thread, encoding, nextSerial, promises, link, session, toServer,
                       toClient, items, sending, tasks, runs, notices>>
    BY DEF Expire, clientVars, wire, serverVars
  <1>2. CallsTyped' /\ Phases' /\ RequestsUnderWay' /\ Answers'
    BY <1>1, ZenonT(30) DEF CallsInv, CallsTyped, Phases, RequestsUnderWay, Known, Answers, Replies
  <1>3. \A d : Unrun(d)' <=> Unrun(d)
    BY <1>1 DEF CallsInv, CallsTyped, Unrun
  <1>4. Places'
    BY <1>1, <1>3 DEF CallsInv, CallsTyped, Places
  <1> QED BY <1>2, <1>4 DEF CallsInv

(* When a connection goes, its requests go with it or become tasks, and    *)
(* what is in no place any more needs none.                                *)
LEMMA PlacesLeft ==
    ASSUME CallsTyped, Places, UNCHANGED <<runs, session>>,
           \/ \E n \in 0 .. Len(toServer) : ServerLeft(n)
           \/ UNCHANGED <<toServer, tasks>>,
           \A c \in Calls : outcome'[c] = "idle" <=> outcome[c] = "idle",
           queue' = queue \/ queue' = << >>,
           encoding' \in {encoding, NoCall}
    PROVE  /\ Places'
           /\ tasks' \subseteq [serial : Nat, call : Calls, session : 1 .. session']
  <1>1. \A c : Unrun(c) => Unrun(c)'
    BY DEF Unrun
  <1>2. \A c \in Calls : outcome'[c] = "idle" => runs'[c] = 0
    BY DEF Places
  <1>3. encoding' # NoCall => Unrun(encoding)' /\ encoding' = encoding
    BY <1>1 DEF Places, Unrun
  <1>4. /\ \A j \in DOMAIN queue' : j \in DOMAIN queue /\ queue'[j] = queue[j]
        /\ \A j \in DOMAIN queue' : queue'[j] \in Calls
    BY DEF CallsTyped
  <1>5. NoCall \notin Calls
    BY CallsAssumption
  <1>6. \A j \in DOMAIN queue' : Unrun(queue[j])' /\ queue'[j] # encoding'
    BY <1>1, <1>3, <1>4, <1>5 DEF Places, Unrun
  <1>7. \A i, j \in DOMAIN queue' : queue'[i] = queue'[j] => i = j
    BY <1>4 DEF Places
  <1>8. CASE UNCHANGED <<toServer, tasks>>
    <2>1. \A i \in DOMAIN toServer : toServer[i].call \in Calls /\ toServer[i].call # encoding'
      BY <1>3, <1>5 DEF Places, Unrun
    <2>2. \A t \in tasks : t.call # encoding'
      BY <1>3, <1>5 DEF Places, Unrun
    <2>3. \A i \in DOMAIN toServer :
             /\ Unrun(toServer[i].call)'
             /\ \A j \in DOMAIN queue' : toServer[i].call # queue'[j]
             /\ \A j \in DOMAIN toServer : toServer[i].call = toServer[j].call => i = j
      BY <1>1, <1>4, <1>8 DEF Places, Unrun
    <2>4. \A t \in tasks :
             /\ Unrun(t.call)'
             /\ \A j \in DOMAIN queue' : t.call # queue'[j]
             /\ \A j \in DOMAIN toServer : t.call # toServer[j].call
             /\ \A u \in tasks : t.call = u.call => t = u
      BY <1>1, <1>4 DEF Places
    <2> QED BY <1>2, <1>3, <1>6, <1>7, <1>8, <2>1, <2>2, <2>3, <2>4 DEF Places, CallsTyped
  <1>9. ASSUME NEW n \in 0 .. Len(toServer), ServerLeft(n) PROVE Places' /\
            tasks' \subseteq [serial : Nat, call : Calls, session : 1 .. session']
    <2> DEFINE T(i) == [serial |-> toServer[i].serial, call |-> toServer[i].call, session |-> session]
    <2>1. toServer' = << >> /\ tasks' = tasks \cup {T(i) : i \in 1 .. n}
      BY <1>9 DEF ServerLeft
    <2>2. \A i \in 1 .. n : i \in DOMAIN toServer
      <3>1. toServer \in Seq(Message)
        BY DEF CallsTyped
      <3> QED BY <3>1
    <2>3. \A i \in DOMAIN toServer : Unrun(toServer[i].call) /\ toServer[i].serial \in Nat
      <3>1. toServer \in Seq(Message)
        BY DEF CallsTyped
      <3>2. \A i \in DOMAIN toServer : toServer[i] \in Message
        BY <3>1
      <3> QED BY <3>2 DEF Places, Message
    <2>4. \A t \in tasks' : t \in tasks \/ \E i \in DOMAIN toServer : t = T(i)
      BY <2>1, <2>2
    <2> HIDE DEF T
    <2>5. \A i \in DOMAIN toServer : T(i).call = toServer[i].call
      BY DEF T
    <2>6. ASSUME NEW t \in tasks' PROVE
             /\ Unrun(t.call)'
             /\ t.call # encoding'
             /\ \A j \in DOMAIN queue' : t.call # queue'[j]
             /\ \A u \in tasks' : t.call = u.call => t = u
      <3>1. Unrun(t.call) /\ t.call # encoding /\ \A j \in DOMAIN queue : t.call # queue[j]
        BY <2>4, <2>5 DEF Places
      <3>2. \A u \in tasks' : t.call = u.call => t = u
        BY <2>4, <2>5 DEF Places
      <3> QED BY <1>1, <1>3, <1>4, <1>5, <3>1, <3>2 DEF Unrun
    <2>7. Places'
      BY <1>2, <1>3, <1>6, <1>7, <2>1, <2>6 DEF Places
    <2>8. \A i \in DOMAIN toServer : T(i) \in [serial : Nat, call : Calls, session : 1 .. session']
      BY <2>3 DEF T, Unrun, CallsTyped
    <2> QED BY <2>4, <2>7, <2>8 DEF CallsTyped
  <1> QED BY <1>8, <1>9

(* The client thread leaves: nothing of this connection is under way.      *)
LEMMA LeaveStep == ASSUME CallsInv, NEW r \in BOOLEAN, Leave(r) PROVE CallsInv'
  <1> USE DEF CallsInv
  <1>1. /\ promises' = << >> /\ encoding' = NoCall /\ link' = "error" /\ toClient' = << >>
        /\ thread' \in {"connect", "ended"} /\ (queue' = queue \/ queue' = << >>)
        /\ UNCHANGED <<nextSerial, session, runs>>
    BY DEF Leave
  <1>2. toServer' = << >> /\ items' = << >> /\ sending' = << >>
    BY DEF Leave, ServerLeft, Phases
  <1>3. \/ \E n \in 0 .. Len(toServer) : ServerLeft(n)
        \/ UNCHANGED <<toServer, tasks>>
    BY DEF Leave
  <1>4. PICK waiters :
           outcome' = [c \in Calls |-> IF c \in waiters /\ outcome[c] = "waiting" THEN "failed"
                                       ELSE outcome[c]]
    BY DEF Leave, FailAll
  <1>5. /\ outcome' \in [Calls -> Calls \cup {"idle", "waiting", "failed", "expired"}]
        /\ \A c \in Calls : outcome'[c] = "idle" <=> outcome[c] = "idle"
    BY <1>4 DEF CallsTyped
  <1>6. Places' /\ tasks' \subseteq [serial : Nat, call : Calls, session : 1 .. session']
    BY <1>1, <1>3, <1>5, PlacesLeft
  <1>7. queue' \in Seq(Calls)
    <2>1. queue \in Seq(Calls)
      BY DEF CallsTyped
    <2>2. << >> \in Seq(Calls)
      OBVIOUS
    <2> QED BY <1>1, <2>1, <2>2
  <1>8. CallsTyped'
    BY <1>1, <1>2, <1>5, <1>6, <1>7 DEF CallsTyped
  <1>9. Phases' /\ RequestsUnderWay'
    BY <1>1, <1>2 DEF Phases, RequestsUnderWay
  <1>10. Answers'
    BY <1>1, <1>2 DEF Answers, Replies
  <1> QED BY <1>6, <1>8, <1>9, <1>10

(* A prefix of the replies is left of a broken connection.                 *)
LEMMA BreakStep == ASSUME CallsInv, Break PROVE CallsInv'
  <1> USE DEF CallsInv
  <1>1. /\ link = "up" /\ link' \in {"eof", "error"}
        /\ UNCHANGED <<outcome, queue, thread, encoding, nextSerial, promises, session, runs>>
    BY DEF Break, clientVars
  <1>2. PICK n \in 0 .. Len(toServer) : ServerLeft(n)
    BY DEF Break
  <1>3. PICK k \in 0 .. Len(toClient) : toClient' = SubSeq(toClient, 1, k)
    BY DEF Break
  <1>4. toServer' = << >> /\ items' = << >> /\ sending' = << >>
    BY <1>2 DEF ServerLeft
  <1>5. Places' /\ tasks' \subseteq [serial : Nat, call : Calls, session : 1 .. session']
    BY <1>1, <1>2, PlacesLeft
  <1>6. toClient \in Seq(Message) /\ sending \in Seq(Message) /\ items \in Seq(Message)
    BY DEF CallsTyped
  <1>7. toClient' \in Seq(Message) /\ Replies' = toClient'
    BY <1>3, <1>4, <1>6 DEF Replies
  <1>8. CallsTyped'
    BY <1>1, <1>4, <1>5, <1>7 DEF CallsTyped
  <1>9. Phases' /\ RequestsUnderWay'
    BY <1>1, <1>4 DEF Phases, RequestsUnderWay
  <1>10. \A i \in DOMAIN Replies' : i \in DOMAIN Replies /\ Replies'[i] = Replies[i]
    BY <1>3, <1>6, <1>7 DEF Replies
  <1>11. Answers'
    BY <1>1, <1>10 DEF Answers, Known
  <1> QED BY <1>5, <1>8, <1>9, <1>11

(* A new connection starts without anything of an earlier one.             *)
LEMMA ConnectStep == ASSUME CallsInv, Connect PROVE CallsInv'
  <1> USE DEF CallsInv
  <1>1. /\ thread = "connect" /\ session' = session + 1 /\ link' = "up" /\ nextSerial' = 1
        /\ thread' = "select"
        /\ UNCHANGED <<outcome, queue, encoding, promises, toServer, toClient, items, sending,
                       tasks, runs>>
    BY DEF Connect, serverVars
  <1>2. /\ toServer = << >> /\ items = << >> /\ sending = << >> /\ toClient = << >>
        /\ promises = << >> /\ encoding = NoCall
    BY <1>1 DEF Phases
  <1>3. \A t \in tasks : t.session # session'
    BY <1>1 DEF CallsTyped
  <1>4. tasks' \subseteq [serial : Nat, call : Calls, session : 1 .. session']
    BY <1>1 DEF CallsTyped
  <1>5. CallsTyped'
    BY <1>1, <1>2, <1>4 DEF CallsTyped
  <1>6. Phases' /\ RequestsUnderWay' /\ Answers'
    BY <1>1, <1>2, <1>3 DEF Phases, RequestsUnderWay, Answers, Replies
  <1>7. Places'
    BY <1>1 DEF Places, Unrun
  <1> QED BY <1>5, <1>6, <1>7

(* What the steps of the server and the client do not touch.               *)
LEMMA SameReplies ==
    ASSUME Answers, UNCHANGED <<toClient, sending, items, promises, runs>>
    PROVE  Answers'
  BY DEF Answers, Known, Replies

(* A request gets a serial that stands for nothing else.                   *)
LEMMA TakeRequestStep == ASSUME CallsInv, TakeRequest PROVE CallsInv'
  <1> USE DEF CallsInv
  <1> DEFINE c == Head(queue)
  <1>1. /\ thread = "select" /\ queue # << >> /\ queue' = Tail(queue) /\ encoding' = c
        /\ promises' = Remember(c)
        /\ nextSerial' = nextSerial + 1 /\ thread' = "encode"
        /\ UNCHANGED <<outcome, link, session, toServer, toClient, items, sending, tasks, runs>>
    BY DEF TakeRequest, wire, serverVars
  <1>2. queue \in Seq(Calls) /\ encoding = NoCall
    BY <1>1 DEF CallsTyped, Phases
  <1>3. /\ c \in Calls /\ c = queue[1] /\ 1 \in DOMAIN queue /\ queue' \in Seq(Calls)
        /\ \A j \in DOMAIN queue' : j + 1 \in DOMAIN queue /\ queue'[j] = queue[j + 1] /\ j + 1 # 1
    BY <1>1, <1>2
  <1> HIDE DEF c
  <1>4. /\ DOMAIN promises' = DOMAIN promises \cup {nextSerial}
        /\ promises' \in [DOMAIN promises' -> Calls]
        /\ promises'[nextSerial] = c
        /\ \A s \in DOMAIN promises : promises'[s] = promises[s]
    <2>1. nextSerial \notin DOMAIN promises
      BY DEF CallsTyped
    <2> QED BY <1>1, <1>3, <2>1 DEF CallsTyped, Remember
  <1>5. CallsTyped'
    BY <1>1, <1>3, <1>4, SMTT(30) DEF CallsTyped
  <1>6. Phases'
    <2>1. nextSerial' - 1 = nextSerial
      BY <1>1 DEF CallsTyped
    <2> QED BY <1>1, <1>4, <2>1 DEF Phases
  <1>7. Places'
    <2>1. /\ Unrun(c) /\ c # NoCall
          /\ \A j \in DOMAIN queue' : queue'[j] # c
          /\ \A i, j \in DOMAIN queue' : queue'[i] = queue'[j] => i = j
          /\ \A j \in DOMAIN queue' : \E k \in DOMAIN queue : queue'[j] = queue[k]
      <3>1. \A i, j \in DOMAIN queue : queue[i] = queue[j] => i = j
        BY DEF Places
      <3>2. c # NoCall
        BY <1>3, CallsAssumption
      <3>3. DOMAIN queue' \subseteq Int
        BY <1>3
      <3> QED BY <1>3, <3>1, <3>2, <3>3 DEF Places
    <2>2. /\ \A i \in DOMAIN toServer : toServer[i].call # c
          /\ \A t \in tasks : t.call # c
      BY <1>3 DEF Places
    <2> QED BY <1>1, <2>1, <2>2 DEF Places, Unrun
  <1>8. RequestsUnderWay' /\ Answers'
    BY <1>1, <1>4 DEF RequestsUnderWay, Answers, Known, Replies
  <1> QED BY <1>5, <1>6, <1>7, <1>8

(* The request of this serial goes into the socket.                        *)
LEMMA WriteRequestStep == ASSUME CallsInv, WriteRequest PROVE CallsInv'
  <1> USE DEF CallsInv
  <1> DEFINE m == [serial |-> nextSerial - 1, call |-> encoding]
  <1>1. /\ thread = "encode" /\ link = "up" /\ toServer' = Append(toServer, m)
        /\ encoding' = NoCall /\ thread' = "select"
        /\ UNCHANGED <<outcome, queue, nextSerial, promises, link, session, toClient, items,
                       sending, tasks, runs>>
    BY DEF WriteRequest, serverVars
  <1>2. /\ encoding \in Calls /\ encoding # NoCall /\ Known(m) /\ m \in Message
        /\ m.call = encoding
    BY <1>1, CallsAssumption DEF CallsTyped, Phases, Known, Message
  <1> HIDE DEF m
  <1>3. toServer \in Seq(Message)
    BY DEF CallsTyped
  <1>4. /\ toServer' \in Seq(Message)
        /\ \A i \in DOMAIN toServer' :
              \/ i = Len(toServer) + 1 /\ toServer'[i] = m
              \/ i \in DOMAIN toServer /\ toServer'[i] = toServer[i]
    BY <1>1, <1>2, <1>3
  <1>5. CallsTyped' /\ Phases'
    BY <1>1, <1>4 DEF CallsTyped, Phases
  <1>6. Places'
    <2>1. Unrun(encoding) /\ \A j \in DOMAIN queue : queue[j] # encoding
      BY <1>2 DEF Places
    <2>2. \A i \in DOMAIN toServer' :
             /\ Unrun(toServer'[i].call)
             /\ toServer'[i].call # NoCall
             /\ \A j \in DOMAIN queue : toServer'[i].call # queue[j]
             /\ \A t \in tasks : toServer'[i].call # t.call
      BY <1>2, <1>4, <2>1, CallsAssumption DEF Places, Unrun
    <2>3. \A i, j \in DOMAIN toServer' : toServer'[i].call = toServer'[j].call => i = j
      BY <1>2, <1>4 DEF Places
    <2>4. \A j \in DOMAIN queue : queue[j] # NoCall
      BY CallsAssumption DEF Places, Unrun
    <2>5. \A t \in tasks : t.call # NoCall
      BY CallsAssumption DEF Places, Unrun
    <2>6. \A i \in DOMAIN toServer' : Unrun(toServer[i].call)'
      BY <1>1, <2>2 DEF Unrun
    <2> QED BY <1>1, <2>2, <2>3, <2>4, <2>5, <2>6 DEF Places, Unrun
  <1>7. RequestsUnderWay'
    BY <1>1, <1>2, <1>4 DEF RequestsUnderWay, Known
  <1>8. Answers'
    BY <1>1, SameReplies
  <1> QED BY <1>5, <1>6, <1>7, <1>8

(* The first message of the socket is read: the others move up by one.     *)
LEMMA ReadReplies ==
    ASSUME CallsTyped, toClient # << >>, toClient' = Tail(toClient), UNCHANGED <<sending, items>>
    PROVE  /\ toClient' \in Seq(Message)
           /\ 1 \in DOMAIN Replies /\ Replies[1] = Head(toClient)
           /\ \A i \in DOMAIN Replies' :
                i + 1 \in DOMAIN Replies /\ i + 1 # 1 /\ Replies'[i] = Replies[i + 1]
           /\ DOMAIN Replies' \subseteq Nat
  <1>1. toClient \in Seq(Message) /\ sending \in Seq(Message) /\ items \in Seq(Message)
    BY DEF CallsTyped
  <1> DEFINE rest == sending \o items
  <1>2. rest \in Seq(Message) /\ rest' = rest
    BY <1>1
  <1>3. Replies = toClient \o rest /\ Replies' = Tail(toClient) \o rest
    BY <1>1, <1>2, SMTT(30) DEF Replies
  <1> HIDE DEF rest
  <1>4. /\ toClient' \in Seq(Message) /\ Len(toClient') = Len(toClient) - 1
        /\ toClient[1] = Head(toClient) /\ Len(toClient) \in Nat \ {0}
        /\ \A i \in 1 .. Len(toClient) - 1 : toClient'[i] = toClient[i + 1]
    BY <1>1
  <1>5. /\ Len(rest) \in Nat
        /\ DOMAIN Replies = 1 .. Len(toClient) + Len(rest)
        /\ DOMAIN Replies' = 1 .. Len(toClient) - 1 + Len(rest)
        /\ \A i \in 1 .. Len(toClient) : Replies[i] = toClient[i]
    BY <1>1, <1>2, <1>3, <1>4
  <1>6. \A i \in DOMAIN Replies' : Replies'[i] = Replies[i + 1]
    <2> TAKE i \in DOMAIN Replies'
    <2>1. CASE i <= Len(toClient) - 1
      BY <1>1, <1>2, <1>3, <1>4, <1>5, <2>1
    <2>2. CASE i > Len(toClient) - 1
      <3>1. Replies'[i] = rest[i - (Len(toClient) - 1)]
        BY <1>1, <1>2, <1>3, <1>4, <1>5, <2>2
      <3>2. Replies[i + 1] = rest[i + 1 - Len(toClient)]
        BY <1>1, <1>2, <1>3, <1>4, <1>5, <2>2
      <3>3. i - (Len(toClient) - 1) = i + 1 - Len(toClient)
        BY <1>4, <1>5
      <3> QED BY <3>1, <3>2, <3>3
    <2> QED BY <1>4, <1>5, <2>1, <2>2
  <1> QED BY <1>4, <1>5, <1>6

(* A notice is nobody's reply.                                             *)
LEMMA ReadNoticeStep == ASSUME CallsInv, ReadNotice PROVE CallsInv'
  <1> USE DEF CallsInv
  <1>1. /\ thread = "select" /\ toClient # << >> /\ toClient' = Tail(toClient)
        /\ UNCHANGED <<outcome, queue, thread, encoding, nextSerial, promises, link, session,
                       toServer, items, sending, tasks, runs>>
    BY DEF ReadNotice, clientVars, serverVars
  <1>2. /\ toClient' \in Seq(Message) /\ DOMAIN Replies' \subseteq Nat
        /\ \A i \in DOMAIN Replies' : i + 1 \in DOMAIN Replies /\ Replies'[i] = Replies[i + 1]
    BY <1>1, ReadReplies
  <1>3. CallsTyped' /\ Phases' /\ Places' /\ RequestsUnderWay'
    BY <1>1, <1>2 DEF CallsTyped, Phases, Places, Unrun, RequestsUnderWay, Known
  <1>4. Answers'
    <2>1. \A i, j \in DOMAIN Replies' : i + 1 = j + 1 => i = j
      BY <1>2
    <2> QED BY <1>1, <1>2, <2>1 DEF Answers, Known
  <1> QED BY <1>3, <1>4

(* A reply that keeps its promise: no other reply, and no request, has the *)
(* serial that is forgotten.                                               *)
LEMMA ReadReplyStep == ASSUME CallsInv, ReadReply PROVE CallsInv'
  <1> USE DEF CallsInv
  <1> DEFINE reply == Head(toClient)
  <1>1. CASE \E r \in BOOLEAN : Leave(r)
    BY <1>1, LeaveStep
  <1>2. CASE /\ thread = "select" /\ toClient # << >> /\ toClient' = Tail(toClient)
             /\ reply.serial # 0 /\ reply.serial \in DOMAIN promises
             /\ outcome[promises[reply.serial]] = "waiting"
             /\ outcome' = [outcome EXCEPT ![promises[reply.serial]] = reply.call]
             /\ promises' = Restrict(promises, DOMAIN promises \ {reply.serial})
             /\ UNCHANGED <<queue, thread, encoding, nextSerial, link, session, toServer,
                            serverVars>>
    <2>1. /\ toClient' \in Seq(Message) /\ DOMAIN Replies' \subseteq Nat
          /\ 1 \in DOMAIN Replies /\ Replies[1] = reply
          /\ \A i \in DOMAIN Replies' :
               i + 1 \in DOMAIN Replies /\ i + 1 # 1 /\ Replies'[i] = Replies[i + 1]
      BY <1>2, ReadReplies DEF serverVars
    <2> HIDE DEF reply
    <2>2. /\ Known(reply) /\ runs[reply.call] = 1
          /\ \A j \in DOMAIN Replies : Replies[j].serial = reply.serial => j = 1
      BY <1>2, <2>1 DEF Answers
    <2> DEFINE c == reply.call
    <2>3. /\ c \in Calls /\ c = promises[reply.serial] /\ outcome[c] = "waiting"
          /\ outcome' = [outcome EXCEPT ![c] = c]
      BY <1>2, <2>2 DEF Known, CallsTyped
    <2> HIDE DEF c
    <2>4. UNCHANGED <<items, sending, tasks, runs>>
      BY <1>2 DEF serverVars
    <2>5. /\ DOMAIN promises' = DOMAIN promises \ {reply.serial}
          /\ \A s \in DOMAIN promises' : promises'[s] = promises[s]
          /\ promises' \in [DOMAIN promises' -> Calls]
      BY <1>2 DEF Restrict, CallsTyped
    <2>6. outcome' \in [Calls -> Calls \cup {"idle", "waiting", "failed", "expired"}]
      BY <2>3 DEF CallsTyped
    <2>7. CallsTyped'
      BY <1>2, <2>1, <2>4, <2>5, <2>6 DEF CallsTyped
    <2>8. Phases'
      BY <1>2, <2>4 DEF Phases
    <2>9. \A d : Unrun(d) => Unrun(d)' /\ d # c
      <3>1. runs[c] = 1
        BY <2>2 DEF c
      <3> QED BY <2>3, <2>4, <3>1 DEF Unrun, CallsTyped
    <2>10. Places'
      <3>1. \A d \in Calls : outcome'[d] = "idle" => runs'[d] = 0
        <4>1. \A d \in Calls : d # c => outcome'[d] = outcome[d]
          BY <2>3 DEF CallsTyped
        <4>2. outcome'[c] # "idle"
          BY <2>3, OutcomeAssumption DEF CallsTyped
        <4> QED BY <2>4, <4>1, <4>2 DEF Places
      <3> QED BY <1>2, <2>4, <2>9, <3>1 DEF Places
    <2>11. \A m : Known(m) /\ m.call # c => Known(m)'
      BY <2>3, <2>5 DEF Known
    <2>12. RequestsUnderWay'
      <3>1. \A i \in DOMAIN toServer : toServer[i].call # c
        BY <2>9 DEF Places
      <3>2. \A t \in tasks : t.call # c
        BY <2>9 DEF Places
      <3> QED BY <1>2, <2>4, <2>11, <3>1, <3>2 DEF RequestsUnderWay, Known
    <2>13. Answers'
      <3>1. \A i, j \in DOMAIN Replies' : i + 1 = j + 1 => i = j
        BY <2>1
      <3>2. \A i \in DOMAIN Replies' : Replies'[i].serial # reply.serial
        BY <2>1, <2>2
      <3> QED BY <2>1, <2>4, <2>5, <3>1, <3>2 DEF Answers, Known
    <2> QED BY <2>7, <2>8, <2>10, <2>12, <2>13
  <1>3. Reconnectable \in BOOLEAN
    BY ReconnectableAssumption
  <1> QED BY <1>1, <1>2, <1>3 DEF ReadReply

(* The request at the head of the socket becomes a task.                   *)
LEMMA ServerReadStep == ASSUME CallsInv, ServerRead PROVE CallsInv'
  <1> USE DEF CallsInv
  <1> DEFINE m == Head(toServer)
             t == [serial |-> m.serial, call |-> m.call, session |-> session]
  <1>1. /\ link = "up" /\ toServer # << >> /\ toServer' = Tail(toServer)
        /\ tasks' = tasks \cup {t}
        /\ UNCHANGED <<outcome, queue, thread, encoding, nextSerial, promises, link, session,
                       toClient, items, sending, runs>>
    BY DEF ServerRead, clientVars
  <1>2. toServer \in Seq(Message)
    BY DEF CallsTyped
  <1>3. /\ m \in Message /\ m = toServer[1] /\ 1 \in DOMAIN toServer
        /\ toServer' \in Seq(Message) /\ DOMAIN toServer' \subseteq Nat
        /\ \A i \in DOMAIN toServer' :
              i + 1 \in DOMAIN toServer /\ i + 1 # 1 /\ toServer'[i] = toServer[i + 1]
    BY <1>1, <1>2
  <1> HIDE DEF m
  <1>4. t.call = m.call /\ t.serial = m.serial /\ t.session = session
    OBVIOUS
  <1>5. Unrun(m.call) /\ m.call # encoding /\ \A j \in DOMAIN queue : m.call # queue[j]
    BY <1>3 DEF Places
  <1>6. t \in [serial : Nat, call : Calls, session : 1 .. session]
    BY <1>3, <1>5 DEF Message, Unrun, CallsTyped
  <1> HIDE DEF t
  <1>7. CallsTyped' /\ Phases'
    <2>1. CallsTyped'
      BY <1>1, <1>3, <1>6 DEF CallsTyped
    <2> QED BY <1>1, <2>1 DEF Phases
  <1>8. \A i \in DOMAIN toServer' :
           /\ toServer'[i].call # m.call
           /\ \A j \in DOMAIN toServer' : toServer'[i].call = toServer'[j].call => i = j
    <2>1. \A i, j \in DOMAIN toServer' : i + 1 = j + 1 => i = j
      BY <1>3
    <2> QED BY <1>3, <2>1 DEF Places
  <1>9. \A u \in tasks : u.call # m.call
    BY <1>3 DEF Places
  <1>10. Places'
    <2>1. \A i \in DOMAIN toServer' :
             /\ Unrun(toServer'[i].call)
             /\ toServer'[i].call # encoding
             /\ \A j \in DOMAIN queue : toServer'[i].call # queue[j]
      BY <1>3 DEF Places
    <2>2. \A u \in tasks' :
             /\ Unrun(u.call)
             /\ u.call # encoding
             /\ \A j \in DOMAIN queue : u.call # queue[j]
             /\ \A j \in DOMAIN toServer' : u.call # toServer'[j].call
      BY <1>1, <1>3, <1>4, <1>5, <1>8 DEF Places
    <2>3. \A u, v \in tasks' : u.call = v.call => u = v
      BY <1>1, <1>4, <1>9 DEF Places
    <2> QED BY <1>1, <1>8, <2>1, <2>2, <2>3 DEF Places, Unrun
  <1>11. RequestsUnderWay'
    BY <1>1, <1>3, <1>4 DEF RequestsUnderWay, Known
  <1>12. Answers'
    BY <1>1, SameReplies
  <1> QED BY <1>7, <1>10, <1>11, <1>12

(* A message more at the end of what the server has queued.                *)
LEMMA QueueReply ==
    ASSUME CallsTyped, NEW m \in Message, items' = Append(items, m), UNCHANGED <<toClient, sending>>
    PROVE  /\ items' \in Seq(Message)
           /\ \A i \in DOMAIN Replies' :
                \/ i \in DOMAIN Replies /\ Replies'[i] = Replies[i]
                \/ i \notin DOMAIN Replies /\ i = Len(Replies) + 1 /\ Replies'[i] = m
  <1>1. toClient \in Seq(Message) /\ sending \in Seq(Message) /\ items \in Seq(Message)
    BY DEF CallsTyped
  <1>2. items' \in Seq(Message)
    BY <1>1
  <1>3. Replies \in Seq(Message) /\ Replies' = Append(Replies, m)
    BY <1>1 DEF Replies
  <1>4. \A i \in DOMAIN Replies' :
           \/ i \in DOMAIN Replies /\ Replies'[i] = Replies[i]
           \/ i \notin DOMAIN Replies /\ i = Len(Replies) + 1 /\ Replies'[i] = m
    BY <1>3
  <1> QED BY <1>2, <1>4

(* A notification has no serial of its own.                                *)
LEMMA NotifyStep == ASSUME CallsInv, Notify PROVE CallsInv'
  <1> USE DEF CallsInv
  <1>1. /\ link = "up" /\ items' = Append(items, Notice)
        /\ UNCHANGED <<outcome, queue, thread, encoding, nextSerial, promises, link, session,
                       toServer, toClient, sending, tasks, runs>>
    BY DEF Notify, clientVars, wire
  <1>2. Notice \in Message /\ Notice.serial = 0
    BY DEF Notice, Message
  <1>3. /\ items' \in Seq(Message)
        /\ \A i \in DOMAIN Replies' :
              (i \in DOMAIN Replies /\ Replies'[i] = Replies[i]) \/ Replies'[i].serial = 0
    BY <1>1, <1>2, QueueReply
  <1>4. CallsTyped' /\ Phases' /\ Places' /\ RequestsUnderWay'
    BY <1>1, <1>3 DEF CallsTyped, Phases, Places, Unrun, RequestsUnderWay, Known
  <1>5. Answers'
    BY <1>1, <1>3 DEF Answers, Known
  <1> QED BY <1>4, <1>5

(* A task that finishes was the last place of its request; no reply with   *)
(* its serial is under way, as the call of every such reply has run.       *)
LEMMA RunTaskStep == ASSUME CallsInv, NEW t \in tasks, RunTask(t) PROVE CallsInv'
  <1> USE DEF CallsInv
  <1> DEFINE m == [serial |-> t.serial, call |-> t.call]
  <1>1. /\ Unrun(t.call) /\ t.call \in Calls /\ runs[t.call] = 0 /\ t.serial \in Nat
        /\ t.call # encoding
        /\ \A j \in DOMAIN queue : queue[j] # t.call
        /\ \A j \in DOMAIN toServer : toServer[j].call # t.call
        /\ \A u \in tasks \ {t} : u.call # t.call
    <2>1. t.serial \in Nat
      BY DEF CallsTyped
    <2> QED BY <2>1 DEF Places, Unrun
  <1>2. /\ tasks' = tasks \ {t} /\ runs' = [runs EXCEPT ![t.call] = 1]
        /\ UNCHANGED <<outcome, queue, thread, encoding, nextSerial, promises, link, session,
                       toServer, toClient, sending>>
    BY <1>1 DEF RunTask, clientVars, wire
  <1>3. \A d : d # t.call /\ Unrun(d) => Unrun(d)'
    BY <1>2 DEF Unrun, CallsTyped
  <1>4. Places'
    <2>1. \A d \in Calls : outcome'[d] = "idle" => runs'[d] = 0
      BY <1>1, <1>2 DEF Places, Unrun, CallsTyped
    <2>2. encoding # NoCall => Unrun(encoding)'
      BY <1>1, <1>2, <1>3 DEF Places
    <2>3. \A u \in tasks' : Unrun(u.call)' /\ u \in tasks
      BY <1>1, <1>2, <1>3 DEF Places
    <2>4. \A j \in DOMAIN toServer : Unrun(toServer[j].call)'
      BY <1>1, <1>2, <1>3 DEF Places
    <2>5. \A j \in DOMAIN queue : Unrun(queue[j])'
      BY <1>1, <1>2, <1>3 DEF Places
    <2> QED BY <1>2, <2>1, <2>2, <2>3, <2>4, <2>5 DEF Places
  <1>5. RequestsUnderWay'
    BY <1>2 DEF RequestsUnderWay, Known
  <1>6. m \in Message /\ m.call = t.call /\ m.serial = t.serial
    BY <1>1 DEF Message
  <1>7. runs' \in [Calls -> {0, 1}] /\ runs'[t.call] = 1 /\ \A d : runs[d] = 1 => runs'[d] = 1
    <2>1. \A d : d # t.call => runs'[d] = runs[d]
      BY <1>2 DEF CallsTyped
    <2> QED BY <1>1, <1>2, <2>1 DEF CallsTyped
  <1>8. CASE items' = items
    <2>1. CallsTyped' /\ Phases'
      BY <1>2, <1>7, <1>8 DEF CallsTyped, Phases
    <2>2. Answers'
      BY <1>2, <1>7, <1>8, ZenonT(30) DEF Answers, Known, Replies
    <2> QED BY <1>4, <1>5, <2>1, <2>2
  <1>9. CASE link = "up" /\ t.session = session /\ items' = Append(items, m)
    <2> HIDE DEF m
    <2>1. /\ items' \in Seq(Message)
          /\ \A i \in DOMAIN Replies' :
                \/ i \in DOMAIN Replies /\ Replies'[i] = Replies[i]
                \/ i = Len(Replies) + 1 /\ Replies'[i] = m
      BY <1>2, <1>6, <1>9, QueueReply
    <2>2. CallsTyped' /\ Phases'
      BY <1>2, <1>7, <1>9, <2>1 DEF CallsTyped, Phases
    <2>3. Known(m)' /\ Known(m)
      BY <1>2, <1>6, <1>9 DEF RequestsUnderWay, Known
    <2>4. \A i \in DOMAIN Replies : Replies[i].serial # 0 => Replies[i].serial # m.serial
      BY <1>1, <1>6, <2>3 DEF Answers, Known
    <2>5. Answers'
      BY <1>2, <1>6, <1>7, <2>1, <2>3, <2>4 DEF Answers, Known
    <2> QED BY <1>4, <1>5, <2>2, <2>5
  <1> QED BY <1>8, <1>9 DEF RunTask

(* The first of the queued messages is being written.                      *)
LEMMA ServerTakeStep == ASSUME CallsInv, ServerTake PROVE CallsInv'
  <1> USE DEF CallsInv
  <1>1. /\ link = "up" /\ sending = << >> /\ items # << >>
        /\ sending' = <<Head(items)>> /\ items' = Tail(items)
        /\ UNCHANGED <<outcome, queue, thread, encoding, nextSerial, promises, link, session,
                       toServer, toClient, tasks, runs>>
    BY DEF ServerTake, clientVars, wire
  <1>2. toClient \in Seq(Message) /\ items \in Seq(Message)
    BY DEF CallsTyped
  <1>3. /\ items' \in Seq(Message) /\ sending' \in Seq(Message) /\ Len(sending') <= 1
        /\ sending' \o items' = items
    BY <1>1, <1>2
  <1>4. Replies' = toClient \o (sending' \o items') /\ Replies = toClient \o items
    BY <1>1, <1>2, <1>3 DEF Replies
  <1>5. CallsTyped' /\ Phases' /\ Places' /\ RequestsUnderWay'
    BY <1>1, <1>3 DEF CallsTyped, Phases, Places, Unrun, RequestsUnderWay, Known
  <1>6. Answers'
    BY <1>1, <1>3, <1>4, SMTT(30) DEF Answers, Known
  <1> QED BY <1>5, <1>6

(* The message goes into the socket.                                       *)
LEMMA ServerWriteStep == ASSUME CallsInv, ServerWrite PROVE CallsInv'
  <1> USE DEF CallsInv
  <1>1. /\ link = "up" /\ sending # << >> /\ sending' = << >>
        /\ toClient' = Append(toClient, Head(sending))
        /\ UNCHANGED <<outcome, queue, thread, encoding, nextSerial, promises, link, session,
                       toServer, items, tasks, runs>>
    BY DEF ServerWrite, clientVars
  <1>2. toClient \in Seq(Message) /\ items \in Seq(Message) /\ sending \in Seq(Message)
        /\ Len(sending) <= 1
    BY DEF CallsTyped
  <1>3. toClient' \in Seq(Message) /\ toClient' = toClient \o sending /\ sending' \in Seq(Message)
    BY <1>1, <1>2
  <1>4. Replies' = Replies
    <2>1. toClient' \o sending' = toClient \o sending
      BY <1>1, <1>2, <1>3
    <2> QED BY <1>1, <2>1 DEF Replies
  <1>5. thread \notin {"connect", "ended"}
    BY <1>1 DEF Phases
  <1>6. CallsTyped' /\ Phases' /\ Places' /\ RequestsUnderWay'
    BY <1>1, <1>3, <1>5 DEF CallsTyped, Phases, Places, Unrun, RequestsUnderWay, Known
  <1>7. Answers'
    BY <1>1, <1>4 DEF Answers, Known
  <1> QED BY <1>6, <1>7

-----------------------------------------------------------------------------
(* What holds of every execution.                                          *)

(* Nothing happens here: the program does something else.                  *)
LEMMA StutterStep == ASSUME CallsInv, UNCHANGED vars PROVE CallsInv'
  <1>1. UNCHANGED <<outcome, queue, thread, encoding, nextSerial, promises, link, session, toServer,
                    toClient, items, sending, tasks, runs>>
    BY DEF vars, clientVars, serverVars, wire
  <1>2. CallsTyped' /\ Phases' /\ RequestsUnderWay'
    BY <1>1 DEF CallsInv, CallsTyped, Phases, RequestsUnderWay, Known
  <1>3. Places'
    BY <1>1 DEF CallsInv, Places, Unrun
  <1>4. Answers'
    BY <1>1, SameReplies DEF CallsInv
  <1> QED BY <1>2, <1>3, <1>4 DEF CallsInv

(* Every step keeps the invariant.                                         *)
LEMMA CallsAlways == CallsInv /\ [Next]_vars => CallsInv'
  <1> SUFFICES ASSUME CallsInv, [Next]_vars PROVE CallsInv'
    OBVIOUS
  <1>1. Reconnectable \in BOOLEAN /\ (Reconnectable /\ link # "eof") \in BOOLEAN
    BY ReconnectableAssumption
  <1>2. CASE \E c \in Calls : Call(c) \/ Expire(c)
    BY <1>2, CallStep, ExpireStep
  <1>3. CASE Client
    <2>1. CASE WriteFails \/ ReadFails
      BY <1>1, <2>1, LeaveStep DEF WriteFails, ReadFails
    <2> QED BY <1>3, <2>1, TakeRequestStep, WriteRequestStep, ReadNoticeStep, ReadReplyStep
            DEF Client
  <1>4. CASE DropClient
    BY <1>4, LeaveStep DEF DropClient
  <1>5. CASE Server
    BY <1>5, ServerReadStep, ServerTakeStep, ServerWriteStep, RunTaskStep DEF Server
  <1>6. CASE Connect \/ Notify \/ Break
    BY <1>6, ConnectStep, NotifyStep, BreakStep
  <1>7. CASE UNCHANGED vars
    BY <1>7, StutterStep
  <1> QED BY <1>2, <1>3, <1>4, <1>5, <1>6, <1>7 DEF Next

(* The invariant of the client thread, the server and their connection.    *)
THEOREM CallsInvariance == Spec => []CallsInv
  BY CallsInitially, CallsAlways, PTL DEF Spec

(* Whatever the order of replies, breaks, reconnections and late answers,  *)
(* a reply on its way to the client thread of client_thread_async finds    *)
(* its promise.                                                            *)
THEOREM RepliesPromised == Spec => []RepliesHavePromises
  <1>1. CallsInv => RepliesHavePromises
    BY DEF CallsInv, Answers, Known, Replies, RepliesHavePromises
  <1> QED BY <1>1, CallsInvariance, PTL

(* The request at the head of a client queue, in its hands, in the socket  *)
(* or among the tasks has not run, and RunTask runs it once.               *)
LEMMA MapsRunTask ==
    ASSUME CallsInv, NEW t \in tasks, RunTask(t)
    PROVE  t.call \in Calls /\ Service!Execute(t.call)
  <1>1. t.call \in Calls /\ outcome[t.call] # "idle" /\ runs[t.call] = 0
    BY DEF CallsInv, Places, Unrun
  <1>2. runs' = [runs EXCEPT ![t.call] = 1] /\ outcome' = outcome
    BY <1>1 DEF RunTask
  <1> QED BY <1>1, <1>2 DEF Service!Execute

(* Leaving fails some calls that wait, and no others.                      *)
LEMMA MapsLeave ==
    ASSUME CallsInv, NEW r \in BOOLEAN, Leave(r)
    PROVE  \E S \in SUBSET Calls : Service!Fail(S)
  <1>1. runs' = runs
    BY DEF Leave
  <1>2. PICK waiters : FailAll(waiters)
    BY DEF Leave
  <1> DEFINE S == {c \in Calls : c \in waiters /\ outcome[c] = "waiting"}
  <1>3. S \in SUBSET Calls /\ \A c \in S : outcome[c] \in {"idle", "waiting"}
    OBVIOUS
  <1>4. outcome' = [c \in Calls |-> IF c \in S THEN "failed" ELSE outcome[c]]
    BY <1>2 DEF FailAll
  <1> QED BY <1>1, <1>3, <1>4 DEF Service!Fail

(* A reply settles the call whose request it answers.                      *)
LEMMA MapsReadReply ==
    ASSUME CallsInv, ReadReply
    PROVE  \/ \E S \in SUBSET Calls : Service!Fail(S)
           \/ \E c \in Calls : Service!Reply(c)
  <1> DEFINE reply == Head(toClient)
  <1>1. CASE \E r \in BOOLEAN : Leave(r)
    BY <1>1, MapsLeave
  <1>2. CASE /\ toClient # << >> /\ reply.serial # 0
             /\ toClient' = Tail(toClient)
             /\ outcome[promises[reply.serial]] = "waiting"
             /\ outcome' = [outcome EXCEPT ![promises[reply.serial]] = reply.call]
             /\ UNCHANGED <<sending, items, runs>>
    <2>1. 1 \in DOMAIN Replies /\ Replies[1] = reply
      BY <1>2, ReadReplies DEF CallsInv
    <2>2. Known(reply) /\ runs[reply.call] = 1 /\ reply.call \in Calls
      <3>1. Known(reply) /\ runs[reply.call] = 1
        BY <1>2, <2>1 DEF CallsInv, Answers
      <3> QED BY <3>1 DEF CallsInv, CallsTyped, Known
    <2>3. Service!Reply(reply.call)
      BY <1>2, <2>2 DEF Service!Reply, Known
    <2> QED BY <2>2, <2>3
  <1>3. Reconnectable \in BOOLEAN
    BY ReconnectableAssumption
  <1> QED BY <1>1, <1>2, <1>3 DEF ReadReply, serverVars

(* The client thread, the server's session loop and the connection do what *)
(* Rpc promises the callers of send_pdu.                                   *)
THEOREM RefinesRpc == Spec => ImplementsRpc
  <1>1. Init => Service!Init
    BY DEF Init, Service!Init
  <1>2. CallsInv /\ [Next]_vars => [Service!Next]_(Service!vars)
    <2> SUFFICES ASSUME CallsInv, [Next]_vars PROVE Service!Next \/ UNCHANGED <<outcome, runs>>
      BY DEF Service!vars
    <2>1. Reconnectable \in BOOLEAN /\ (Reconnectable /\ link # "eof") \in BOOLEAN
      BY ReconnectableAssumption
    <2>2. ASSUME NEW c \in Calls, Call(c) PROVE Service!Next
      <3>1. runs' = runs /\ outcome[c] = "idle"
        BY <2>2 DEF Call, serverVars
      <3>2. CASE outcome' = [outcome EXCEPT ![c] = "waiting"]
        BY <3>1, <3>2 DEF Service!Next, Service!Call
      <3>3. CASE outcome' = [outcome EXCEPT ![c] = "failed"]
        <4>1. outcome' = [d \in Calls |-> IF d \in {c} THEN "failed" ELSE outcome[d]]
          BY <3>3 DEF CallsInv, CallsTyped
        <4>2. Service!Fail({c})
          BY <3>1, <4>1 DEF Service!Fail
        <4>3. {c} \in SUBSET Calls
          OBVIOUS
        <4> QED BY <4>2, <4>3 DEF Service!Next
      <3> QED BY <2>2, <3>2, <3>3 DEF Call
    <2>3. ASSUME NEW c \in Calls, Expire(c) PROVE Service!Next
      BY <2>3 DEF Expire, serverVars, Service!Next, Service!Expire
    <2>4. CASE \E r \in BOOLEAN : Leave(r)
      BY <2>4, MapsLeave DEF Service!Next
    <2>5. CASE ReadReply
      BY <2>5, MapsReadReply DEF Service!Next
    <2>6. CASE \E t \in tasks : RunTask(t)
      BY <2>6, MapsRunTask DEF Service!Next
    <2>7. CASE TakeRequest \/ WriteRequest \/ ReadNotice \/ Connect
      BY <2>7 DEF TakeRequest, WriteRequest, ReadNotice, Connect, serverVars
    <2>8. CASE ServerRead \/ ServerTake \/ ServerWrite \/ Notify \/ Break
      BY <2>8 DEF ServerRead, ServerTake, ServerWrite, Notify, Break
    <2>9. CASE UNCHANGED vars
      BY <2>9 DEF vars, serverVars
    <2>10. CASE WriteFails \/ ReadFails \/ DropClient
      BY <2>1, <2>4, <2>10 DEF WriteFails, ReadFails, DropClient
    <2> QED BY <2>2, <2>3, <2>5, <2>6, <2>7, <2>8, <2>9, <2>10 DEF Next, Client, Server
  <1> QED BY <1>1, <1>2, CallsInvariance, PTL DEF Spec, ImplementsRpc, Service!Spec

-----------------------------------------------------------------------------
(***************************************************************************)
(* RenderSync for any size of the pane, any number of changes of the       *)
(* terminal and any fetches in flight: a row that waits for a fetch has    *)
(* one under way, and a row that is called up to date is so once nothing   *)
(* is on its way.                                                          *)
(*                                                                         *)
(* The first needs little more than the types: a fetch is known by the     *)
(* instant it was started at, and whoever takes its reply takes the row.   *)
(* For the second the invariant says who is in debt (Debts): an old row    *)
(* that the client may show as up to date, be it in its cache, in a push   *)
(* or in a reply that it still waits for, is owed by the server, or named  *)
(* by a push that will come to be applied after it.  A push that awaits    *)
(* images is applied after later ones, so this part supposes that no row   *)
(* of the viewport, the only ones a push carries, shows images.            *)
(***************************************************************************)

\* The contents of some of the rows.
Shown(rows) == UNION {[S -> Versions] : S \in SUBSET rows}

Fetches == [rows : SUBSET Rows, since : Nat]
Pushes ==
    [kind : {"push"}, rows : Shown(Viewport), dirty : SUBSET Rows, cursor : Viewport, seqno : Nat]
FetchReplies == [kind : {"reply"}, rows : Shown(Rows), since : Nat]
LineMessages == Pushes \cup FetchReplies

Pushing ==
    {Idle} \cup [at : {"dirty"}, cursor : Viewport, since : Nat]
           \cup [at : {"lines"}, cursor : Viewport, dirty : SUBSET Rows]

Types ==
    /\ content \in [Rows -> Versions]
    /\ seqno \in Versions
    /\ cursor \in Viewport
    /\ perPane \in [seqno : Nat, cursor : Rows]
    /\ due \in BOOLEAN
    /\ push \in Pushing
    /\ fetches \in Seq(Fetches)
    /\ updates \in Seq(LineMessages)
    /\ awaiting \subseteq LineMessages
    /\ IsFiniteSet(awaiting)
    /\ lines \in [Rows -> Entries]
    /\ client \in [seqno : Nat, cursor : Rows]
    /\ repaint \in BOOLEAN
    /\ stales \in 0 .. MaxStales

\* Nobody knows of a change that has not been.
Versioned ==
    /\ perPane.seqno <= seqno
    /\ client.seqno <= seqno
    /\ \A r \in Rows : content[r] <= seqno
    /\ \A m \in InFlight : m.kind = "push" => m.seqno <= seqno

\* The fetch of an instant has still to bring the row.
Sought(t, r) ==
    \/ \E f \in Range(fetches) : f.since = t /\ r \in f.rows
    \/ \E m \in InFlight : m.kind = "reply" /\ m.since = t /\ r \in DOMAIN m.rows

LinesInv == Types /\ Versioned /\ FetchingIsUnderWay

------------------------------------------------------------------------------
(* Sequences and sets.                                                       *)

\* RemoveAt (SequencesExt) shifts what comes after, as when a message is
\* taken out of its turn (client.rs).
LEMMA RemovedAt ==
    ASSUME NEW S, NEW s \in Seq(S), NEW i \in 1 .. Len(s)
    PROVE  /\ RemoveAt(s, i) \in Seq(S)
           /\ Len(RemoveAt(s, i)) = Len(s) - 1
           /\ \A j \in 1 .. Len(s) - 1 : RemoveAt(s, i)[j] = IF j < i THEN s[j] ELSE s[j + 1]
  <1> DEFINE front == SubSeq(s, 1, i - 1)
             back == SubSeq(s, i + 1, Len(s))
  <1>1. Len(s) \in Nat /\ \A j \in 1 .. Len(s) : s[j] \in S
    BY LenProperties, ElementOfSeq
  <1>2. /\ front \in Seq(S) /\ Len(front) = i - 1
        /\ \A j \in 1 .. i - 1 : front[j] = s[j]
    <2>1. 1 \in Int /\ i - 1 \in Int /\ \A j \in 1 .. i - 1 : s[j] \in S
      BY <1>1
    <2>2. /\ front \in Seq(S)
          /\ Len(front) = IF 1 <= i - 1 THEN i - 1 - 1 + 1 ELSE 0
          /\ \A j \in 1 .. i - 1 - 1 + 1 : front[j] = s[1 + j - 1]
      BY <2>1, SubSeqProperties
    <2> HIDE DEF front
    <2> QED  BY <1>1, <2>2
  <1>3. /\ back \in Seq(S) /\ Len(back) = Len(s) - i
        /\ \A j \in 1 .. Len(s) - i : back[j] = s[i + j]
    <2>1. i + 1 \in Int /\ Len(s) \in Int /\ \A j \in i + 1 .. Len(s) : s[j] \in S
      BY <1>1
    <2>2. /\ back \in Seq(S)
          /\ Len(back) = IF i + 1 <= Len(s) THEN Len(s) - (i + 1) + 1 ELSE 0
          /\ \A j \in 1 .. Len(s) - (i + 1) + 1 : back[j] = s[i + 1 + j - 1]
      BY <2>1, SubSeqProperties
    <2> HIDE DEF back
    <2> QED  BY <1>1, <2>2
  <1>4. RemoveAt(s, i) = front \o back
    BY DEF RemoveAt
  <1> HIDE DEF front, back
  <1>5. /\ front \o back \in Seq(S)
        /\ Len(front \o back) = Len(front) + Len(back)
        /\ \A j \in 1 .. Len(front) + Len(back) :
              (front \o back)[j] = IF j <= Len(front) THEN front[j] ELSE back[j - Len(front)]
    BY <1>2, <1>3, ConcatProperties
  <1>6. Len(front) + Len(back) = Len(s) - 1
    BY <1>1, <1>2, <1>3
  <1>7. ASSUME NEW j \in 1 .. Len(s) - 1
        PROVE  (front \o back)[j] = IF j < i THEN s[j] ELSE s[j + 1]
    <2>1. CASE j < i
      BY <1>1, <1>2, <1>5, <1>6, <1>7, <2>1
    <2>2. CASE ~ (j < i)
      <3>1. j - Len(front) \in 1 .. Len(s) - i /\ ~ (j <= Len(front))
        BY <1>1, <1>2, <1>7, <2>2
      <3>2. (front \o back)[j] = back[j - Len(front)]
        BY <1>5, <1>6, <1>7, <3>1
      <3>3. i + (j - Len(front)) = j + 1
        BY <1>1, <1>2, <1>7
      <3> QED  BY <1>3, <2>2, <3>1, <3>2, <3>3
    <2> QED  BY <2>1, <2>2
  <1> QED  BY <1>4, <1>5, <1>6, <1>7

\* RemoveAt takes one element only: the other messages stay.
LEMMA Kept ==
    ASSUME NEW S, NEW s \in Seq(S), NEW i \in 1 .. Len(s)
    PROVE  /\ Range(RemoveAt(s, i)) \subseteq Range(s)
           /\ \A x \in Range(s) : x # s[i] => x \in Range(RemoveAt(s, i))
  <1>1. /\ Len(s) \in Nat /\ DOMAIN s = 1 .. Len(s)
        /\ DOMAIN RemoveAt(s, i) = 1 .. Len(s) - 1
        /\ \A j \in 1 .. Len(s) - 1 : RemoveAt(s, i)[j] = IF j < i THEN s[j] ELSE s[j + 1]
    BY RemovedAt, LenProperties
  <1>2. Range(RemoveAt(s, i)) \subseteq Range(s)
    BY <1>1 DEF Range
  <1>3. ASSUME NEW j \in 1 .. Len(s), s[j] # s[i]
        PROVE  s[j] \in Range(RemoveAt(s, i))
    <2>1. CASE j < i
      <3>1. j \in 1 .. Len(s) - 1
        BY <1>1, <2>1
      <3> QED  BY <1>1, <2>1, <3>1 DEF Range
    <2>2. CASE j > i
      <3>1. j - 1 \in 1 .. Len(s) - 1 /\ ~ (j - 1 < i) /\ (j - 1) + 1 = j
        BY <1>1, <2>2
      <3> QED  BY <1>1, <3>1 DEF Range
    <2> QED  BY <1>3, <2>1, <2>2
  <1> QED  BY <1>1, <1>2, <1>3 DEF Range

\* Append adds one element, as when a message is sent.
LEMMA Appended ==
    ASSUME NEW S, NEW s \in Seq(S), NEW e \in S
    PROVE  /\ Append(s, e) \in Seq(S)
           /\ Range(Append(s, e)) = Range(s) \cup {e}
  <1>1. /\ Append(s, e) \in Seq(S)
        /\ Len(s) \in Nat /\ DOMAIN s = 1 .. Len(s)
        /\ DOMAIN Append(s, e) = 1 .. Len(s) + 1
        /\ \A j \in 1 .. Len(s) : Append(s, e)[j] = s[j]
        /\ Append(s, e)[Len(s) + 1] = e
    BY AppendProperties, LenProperties
  <1>2. Range(s) \cup {e} \subseteq Range(Append(s, e))
    <2>1. e \in Range(Append(s, e))
      <3>1. Len(s) + 1 \in DOMAIN Append(s, e)
        BY <1>1
      <3> QED  BY <1>1, <3>1 DEF Range
    <2>2. ASSUME NEW j \in 1 .. Len(s) PROVE s[j] \in Range(Append(s, e))
      <3>1. j \in DOMAIN Append(s, e)
        BY <1>1
      <3> QED  BY <1>1, <3>1 DEF Range
    <2> QED  BY <1>1, <2>1, <2>2 DEF Range
  <1>3. Range(Append(s, e)) \subseteq Range(s) \cup {e}
    <2>1. ASSUME NEW j \in 1 .. Len(s) + 1 PROVE Append(s, e)[j] \in Range(s) \cup {e}
      <3>1. CASE j = Len(s) + 1
        BY <1>1, <3>1
      <3>2. CASE j # Len(s) + 1
        <4>1. j \in 1 .. Len(s)
          BY <1>1, <3>2
        <4> QED  BY <1>1, <4>1 DEF Range
      <3> QED  BY <3>1, <3>2
    <2> QED  BY <1>1, <2>1 DEF Range
  <1> QED  BY <1>1, <1>2, <1>3

\* The image of a finite set is finite.
LEMMA FiniteImage ==
    ASSUME NEW S, IsFiniteSet(S), NEW f, f = [x \in S |-> f[x]]
    PROVE  IsFiniteSet({f[x] : x \in S})
  <1> DEFINE T == {f[x] : x \in S}
  <1>1. f \in [S -> T] /\ \A t \in T : \E x \in S : f[x] = t
    OBVIOUS
  <1>2. f \in Surjection(S, T)
    BY <1>1 DEF Surjection
  <1> QED  BY <1>2, FS_Surjection

\* The elements of a sequence are finitely many.
LEMMA FiniteRange ==
    ASSUME NEW S, NEW s \in Seq(S)
    PROVE  IsFiniteSet(Range(s))
  <1>1. Len(s) \in Nat /\ DOMAIN s = 1 .. Len(s) /\ s = [i \in 1 .. Len(s) |-> s[i]]
    BY LenProperties
  <1>2. IsFiniteSet(1 .. Len(s))
    <2>1. 1 \in Int /\ Len(s) \in Int
      BY <1>1
    <2> QED  BY <2>1, FS_Interval
  <1> QED  BY <1>1, <1>2, FiniteImage DEF Range

\* There is an instant that no fetch in progress was started at:
\* Instant::now() of schedule_fetch_lines (renderable.rs), which tells this
\* fetch from any other.
LEMMA NowIsNew ==
    ASSUME RowsAssumption, Types
    PROVE  Now \in Nat /\ Now \notin Instants
  <1>1. IsFiniteSet(Rows)
    BY FS_Interval DEF RowsAssumption, Rows
  <1>2. IsFiniteSet({lines[r].since : r \in {q \in Rows : IsFetched(lines[q])}})
    <2> DEFINE S == {q \in Rows : IsFetched(lines[q])}
               f == [r \in S |-> lines[r].since]
    <2>1. IsFiniteSet(S)
      BY <1>1, FS_Subset
    <2>2. IsFiniteSet({f[r] : r \in S})
      <3>1. f = [r \in S |-> f[r]]
        OBVIOUS
      <3> HIDE DEF f, S
      <3> QED  BY <2>1, <3>1, FiniteImage
    <2>3. {f[r] : r \in S} = {lines[r].since : r \in S}
      OBVIOUS
    <2> QED  BY <2>2, <2>3
  <1>3. IsFiniteSet({g.since : g \in Range(fetches)})
    <2> DEFINE S == Range(fetches)
               f == [r \in S |-> r.since]
    <2>1. IsFiniteSet(S)
      BY FiniteRange DEF Types
    <2>2. IsFiniteSet({f[r] : r \in S})
      <3>1. f = [r \in S |-> f[r]]
        OBVIOUS
      <3> HIDE DEF f, S
      <3> QED  BY <2>1, <3>1, FiniteImage
    <2>3. {f[r] : r \in S} = {r.since : r \in S}
      OBVIOUS
    <2> QED  BY <2>2, <2>3
  <1>4. IsFiniteSet({m.since : m \in {n \in InFlight : n.kind = "reply"}})
    <2> DEFINE S == {n \in InFlight : n.kind = "reply"}
               f == [r \in S |-> r.since]
    <2>1. IsFiniteSet(S)
      <3>1. IsFiniteSet(Range(updates)) /\ IsFiniteSet(awaiting)
        BY FiniteRange DEF Types
      <3>2. IsFiniteSet(InFlight)
        BY <3>1, FS_Union DEF InFlight
      <3> QED  BY <3>2, FS_Subset
    <2>2. IsFiniteSet({f[r] : r \in S})
      <3>1. f = [r \in S |-> f[r]]
        OBVIOUS
      <3> HIDE DEF f, S
      <3> QED  BY <2>1, <3>1, FiniteImage
    <2>3. {f[r] : r \in S} = {r.since : r \in S}
      OBVIOUS
    <2> QED  BY <2>2, <2>3
  <1>5. IsFiniteSet(Instants)
    BY <1>2, <1>3, <1>4, FS_Union DEF Instants
  <1> DEFINE n == Cardinality(Instants)
             free == (1 .. n + 1) \ Instants
  <1>6. n \in Nat
    BY <1>5, FS_CardinalityType
  <1>7. free # {}
    <2>1. SUFFICES ASSUME 1 .. n + 1 \subseteq Instants PROVE FALSE
      OBVIOUS
    <2>2. Cardinality(1 .. n + 1) <= n
      BY <1>5, <2>1, FS_Subset
    <2>3. Cardinality(1 .. n + 1) = n + 1
      <3> DEFINE k == n + 1
      <3>1. 1 \in Int /\ k \in Int /\ ~ (1 > k) /\ k - 1 + 1 = n + 1
        BY <1>6
      <3> HIDE DEF k, n
      <3>2. Cardinality(1 .. k) = k - 1 + 1
        BY <3>1, FS_Interval
      <3> QED  BY <3>1, <3>2 DEF k
    <2> QED  BY <1>6, <2>2, <2>3
  <1>8. free \subseteq Nat
    BY <1>6
  <1>9. \E x \in free : \A y \in free : x <= y
    <2> HIDE DEF free
    <2> DEFINE R == OpToRel(<, Nat)
    <2>1. IsWellFoundedOn(R, Nat)
      BY NatLessThanWellFounded
    <2>2. \A x, y \in Nat : <<y, x>> \in R <=> y < x
      BY DEF OpToRel
    <2> HIDE DEF R
    <2>3. PICK x \in free : \A y \in free : ~ (<<y, x>> \in R)
      BY <1>7, <1>8, <2>1, WFMin
    <2>4. ASSUME NEW y \in free PROVE x <= y
      <3>1. x \in Nat /\ y \in Nat
        BY <1>8, <2>3, <2>4
      <3>2. ~ (y < x)
        BY <2>2, <2>3, <2>4, <3>1
      <3> QED  BY <3>1, <3>2
    <2> QED  BY <2>3, <2>4
  <1>10. Min(free) \in free
    BY <1>9 DEF Min
  <1>11. Now = Min(free)
    BY DEF Now
  <1> QED  BY <1>8, <1>10, <1>11

------------------------------------------------------------------------------
(* What the messages do to the cache.                                        *)

\* The sets of numbers that the model is about are what they should be.
LEMMA Numbers ==
    ASSUME RowsAssumption, LinesBoundsAssumption
    PROVE  /\ Versions \subseteq Nat /\ Viewport \subseteq Rows /\ Rows \subseteq Nat
           /\ Top \in Viewport /\ 0 \in Rows /\ 1 \in Versions
  BY DEF RowsAssumption, LinesBoundsAssumption, Versions, Viewport, Rows

\* The rows of a message are some of the rows, each with a version.
LEMMA ShownIs ==
    ASSUME NEW S, NEW T \in SUBSET S, NEW f
    PROVE  /\ f \in [T -> Versions] => f \in Shown(S)
           /\ f \in Shown(S) => DOMAIN f \subseteq S /\ \A r \in DOMAIN f : f[r] \in Versions
  BY DEF Shown

\* The entries that the client makes are entries (LineEntry).
LEMMA Made ==
    /\ Absent \in Entries /\ Absent.kind = "none"
    /\ \A v, s : Line(v, s).kind = "line" /\ Line(v, s).row = v
    /\ \A v, s \in Versions : Line(v, s) \in Entries
    /\ \A t : Fetching(t).kind = "fetching" /\ Fetching(t).since = t
    /\ \A t \in Nat : Fetching(t) \in Entries
    /\ \A e, t : Refetching(e, t).kind = "line_and_fetching" /\ Refetching(e, t).since = t
    /\ \A e : Stale(e).kind = "stale"
  BY DEF Absent, Line, Fetching, Refetching, Stale, Entries

\* The kinds of an entry, and that one with an old row keeps it when it is
\* stale or fetched again (LineEntry::kind, make_stale).
LEMMA EntryIs ==
    ASSUME NEW e \in Entries
    PROVE  /\ e.kind \in {"none", "line", "stale", "fetching", "line_and_fetching"}
           /\ e.kind \in {"line", "stale", "line_and_fetching"} =>
                Stale(e) \in Entries /\ \A t \in Nat : Refetching(e, t) \in Entries
  BY DEF Entries, Absent, Stale, Refetching

\* schedule_fetch_lines asks for all the rows it is given, and takes back
\* nothing that was asked for.
LEMMA Scheduled ==
    ASSUME Types, NEW rows \in SUBSET Rows, NEW t \in Nat, t = Now, ScheduleFetch(rows),
           \A m \in InFlight : m.kind = "reply" => m \in InFlight'
    PROVE  /\ fetches' \in Seq(Fetches)
           /\ \A r, u : Sought(u, r) => Sought(u, r)'
           /\ \A r \in rows : Sought(t, r)'
  <1> DEFINE f == [rows |-> rows, since |-> t]
  <1>1. f \in Fetches
    BY DEF Fetches
  <1>2. /\ rows = {} => fetches' = fetches
        /\ rows # {} => fetches' = Append(fetches, f)
    BY DEF ScheduleFetch
  <1>3. f.rows = rows /\ f.since = t
    OBVIOUS
  <1> HIDE DEF f
  <1>4. /\ fetches' \in Seq(Fetches)
        /\ Range(fetches) \subseteq Range(fetches')
        /\ rows # {} => f \in Range(fetches')
    <2>1. fetches \in Seq(Fetches)
      BY DEF Types
    <2>2. CASE rows = {}
      BY <1>2, <2>1, <2>2
    <2>3. CASE rows # {}
      <3>1. /\ Append(fetches, f) \in Seq(Fetches)
            /\ Range(Append(fetches, f)) = Range(fetches) \cup {f}
        BY <1>1, <2>1, Appended
      <3> QED  BY <1>2, <2>3, <3>1
    <2> QED  BY <2>2, <2>3
  <1>5. \A r, u : Sought(u, r) => Sought(u, r)'
    BY <1>4 DEF Sought
  <1>6. ASSUME NEW r \in rows PROVE Sought(t, r)'
    BY <1>3, <1>4 DEF Sought
  <1> QED  BY <1>4, <1>5, <1>6

\* FetchingIsUnderWay is kept by a step that marks only rows as fetched that
\* it asks for, and drops no fetch.
LEMMA UnderWay ==
    ASSUME FetchingIsUnderWay, NEW rows, NEW t,
           \A r, u : Sought(u, r) => Sought(u, r)',
           \A r \in rows : Sought(t, r)',
           \A r \in Rows :
              \/ lines'[r] = lines[r]
              \/ lines'[r].kind \in {"none", "line", "stale"}
              \/ r \in rows /\ lines'[r].since = t
    PROVE  FetchingIsUnderWay'
  <1>1. \A r \in Rows : IsFetched(lines[r]) => Sought(lines[r].since, r)
    BY DEF FetchingIsUnderWay, Sought
  <1>2. ASSUME NEW r \in Rows, IsFetched(lines[r])'
        PROVE  \E u : u = lines'[r].since /\ Sought(u, r)'
    <2>1. CASE lines'[r] = lines[r]
      BY <1>1, <1>2, <2>1 DEF IsFetched
    <2>2. CASE lines'[r].kind \in {"none", "line", "stale"}
      BY <1>2, <2>2 DEF IsFetched
    <2>3. CASE r \in rows /\ lines'[r].since = t
      BY <2>3
    <2> QED  BY <2>1, <2>2, <2>3
  <1> QED  BY <1>2 DEF FetchingIsUnderWay, Sought

\* FetchingIsUnderWay is kept by a step that marks no row as fetched, and
\* drops no fetch.
LEMMA NothingFetched ==
    ASSUME FetchingIsUnderWay,
           \A r, u : Sought(u, r) => Sought(u, r)',
           \A r \in Rows : lines'[r] = lines[r] \/ lines'[r].kind \in {"none", "line", "stale"}
    PROVE  FetchingIsUnderWay'
  <1>1. PICK rows : rows = {}
    OBVIOUS
  <1>2. PICK t : t = 0
    OBVIOUS
  <1>3. \A r \in rows : Sought(t, r)'
    BY <1>1
  <1>4. \A r \in Rows :
           \/ lines'[r] = lines[r]
           \/ lines'[r].kind \in {"none", "line", "stale"}
           \/ r \in rows /\ lines'[r].since = t
    OBVIOUS
  <1> QED  BY <1>3, <1>4, UnderWay

\* What one row becomes of a push.
PushedTo(m, rows, r) ==
    \/ r \in DOMAIN m.rows /\ lines'[r].kind = "line" /\ lines'[r].row = m.rows[r]
    \/ /\ r \notin DOMAIN m.rows
       /\ \/ r \notin m.dirty /\ lines'[r] = lines[r]
          \/ lines'[r].kind \in {"none", "stale"}
          \/ r \in rows /\ IsFetched(lines'[r]) /\ lines'[r].since = Now

\* apply_changes_to_surface: rows that a push brings are up to date, rows it
\* names are dropped, stale or fetched anew, and other rows are left alone or
\* fetched anew.
LEMMA PushIs ==
    ASSUME RowsAssumption, LinesBoundsAssumption, Types, NEW m \in Pushes, ApplyPush(m)
    PROVE  /\ lines' \in [Rows -> Entries] /\ repaint' \in BOOLEAN
           /\ client' \in [seqno : Nat, cursor : Rows] /\ client'.seqno = m.seqno
           /\ \E rows \in SUBSET Rows : ScheduleFetch(rows) /\ \A r \in Rows : PushedTo(m, rows, r)
  <1>1. /\ DOMAIN m.rows \subseteq Viewport /\ \A r \in DOMAIN m.rows : m.rows[r] \in Versions
        /\ m.seqno \in Nat /\ m.cursor \in Rows
    BY ShownIs, Numbers, ZenonT(30) DEF Pushes
  <1>2. client' \in [seqno : Nat, cursor : Rows] /\ client'.seqno = m.seqno /\ repaint' = TRUE
    BY <1>1 DEF ApplyPush
  <1> DEFINE moved == IF m.cursor = client.cursor THEN {} ELSE {client.cursor, m.cursor}
             dirty == (m.dirty \cup moved) \ DOMAIN m.rows
             fetch == dirty \cap Viewport
  <1>3. PICK admitted \in BOOLEAN :
          /\ lines' = [r \in Rows |->
                IF r \in DOMAIN m.rows THEN Line(m.rows[r], m.rows[r])
                ELSE IF r \notin dirty THEN lines[r]
                ELSE IF r \notin fetch THEN Absent
                ELSE IF admitted THEN MadeFetching(lines[r])
                ELSE MadeStale(lines[r])]
          /\ ScheduleFetch(IF admitted THEN fetch ELSE {})
    BY DEF ApplyPush
  <1>4. m.dirty \ DOMAIN m.rows \subseteq dirty /\ dirty \cap DOMAIN m.rows = {} /\ fetch \subseteq Rows
    BY Numbers
  <1> HIDE DEF dirty, fetch
  <1>5. ASSUME NEW e \in Entries
        PROVE  /\ MadeFetching(e) \in Entries /\ IsFetched(MadeFetching(e)) /\ MadeFetching(e).since = Now
               /\ MadeStale(e) \in Entries /\ MadeStale(e).kind \in {"none", "stale"}
    BY Made, EntryIs, NowIsNew DEF MadeFetching, MadeStale, IsFetched
  <1> DEFINE rows == IF admitted THEN fetch ELSE {}
  <1>6. rows \in SUBSET Rows /\ ScheduleFetch(rows)
    BY <1>3, <1>4
  <1>7. ASSUME NEW r \in Rows
        PROVE  lines'[r] \in Entries /\ PushedTo(m, rows, r)
    <2>1. lines[r] \in Entries
      BY DEF Types
    <2>2. CASE r \in DOMAIN m.rows
      <3>1. lines'[r] = Line(m.rows[r], m.rows[r])
        BY <1>3, <2>2
      <3> QED  BY <1>1, <2>2, <3>1, Made DEF PushedTo
    <2>3. CASE r \notin DOMAIN m.rows /\ r \notin dirty
      <3>1. lines'[r] = lines[r]
        BY <1>3, <2>3
      <3> QED  BY <1>4, <2>1, <2>3, <3>1 DEF PushedTo
    <2>4. CASE r \notin DOMAIN m.rows /\ r \in dirty /\ r \notin fetch
      <3>1. lines'[r] = Absent
        BY <1>3, <2>4
      <3> QED  BY <2>4, <3>1, Made DEF PushedTo
    <2>5. CASE r \notin DOMAIN m.rows /\ r \in dirty /\ r \in fetch /\ admitted
      <3>1. lines'[r] = MadeFetching(lines[r]) /\ r \in rows
        BY <1>3, <2>5
      <3> QED  BY <1>5, <2>1, <2>5, <3>1 DEF PushedTo
    <2>6. CASE r \notin DOMAIN m.rows /\ r \in dirty /\ r \in fetch /\ ~ admitted
      <3>1. lines'[r] = MadeStale(lines[r])
        BY <1>3, <2>6
      <3> QED  BY <1>5, <2>1, <2>6, <3>1 DEF PushedTo
    <2> QED  BY <2>2, <2>3, <2>4, <2>5, <2>6
  <1> HIDE DEF rows
  <1>8. lines' = [r \in Rows |-> lines'[r]]
    BY <1>3
  <1>9. lines' \in [Rows -> Entries]
    BY <1>7, <1>8
  <1> QED  BY <1>2, <1>6, <1>7, <1>9

\* What one row becomes of a reply.
RepliedTo(m, r) ==
    \/ lines'[r] = lines[r]
       /\ ~ (r \in DOMAIN m.rows /\ IsFetched(lines[r]) /\ lines[r].since = m.since)
    \/ /\ r \in DOMAIN m.rows /\ IsFetched(lines[r]) /\ lines[r].since = m.since
       /\ lines'[r].kind = "line" /\ lines'[r].row = m.rows[r]

\* apply_lines: a reply changes just the rows that wait for it.
LEMMA ReplyIs ==
    ASSUME RowsAssumption, LinesBoundsAssumption, Types, Versioned, NEW m \in FetchReplies, ApplyLines(m)
    PROVE  /\ lines' \in [Rows -> Entries] /\ repaint' \in BOOLEAN
           /\ UNCHANGED <<client, fetches>>
           /\ \A r \in Rows : RepliedTo(m, r)
  <1>1. \A r \in DOMAIN m.rows : m.rows[r] \in Versions
    BY ShownIs DEF FetchReplies
  <1>2. /\ repaint' = TRUE /\ UNCHANGED <<client, fetches>>
        /\ lines' = [r \in Rows |->
              IF r \in DOMAIN m.rows /\ IsFetched(lines[r]) /\ lines[r].since = m.since
              THEN Line(m.rows[r], Max({m.rows[r], client.seqno}))
              ELSE lines[r]]
    BY DEF ApplyLines
  <1>3. ASSUME NEW v \in Versions PROVE Max({v, client.seqno}) \in Versions
    <2>1. client.seqno \in Nat /\ client.seqno <= seqno /\ seqno \in Versions /\ MaxWrites \in Nat
      BY DEF Types, Versioned, LinesBoundsAssumption
    <2>2. PICK x : x = client.seqno
      OBVIOUS
    <2>3. \/ Max({v, x}) = v /\ v >= x
          \/ Max({v, x}) = x /\ x >= v
      <3>1. v \in Nat /\ x \in Nat
        BY <2>1, <2>2 DEF Versions
      <3>2. \E y \in {v, x} : \A z \in {v, x} : y >= z
        BY <3>1
      <3>3. Max({v, x}) \in {v, x} /\ \A z \in {v, x} : Max({v, x}) >= z
        BY <3>2 DEF Max
      <3> QED  BY <3>3
    <2> QED  BY <2>1, <2>2, <2>3 DEF Versions
  <1>4. ASSUME NEW r \in Rows
        PROVE  lines'[r] \in Entries /\ RepliedTo(m, r)
    <2>1. lines[r] \in Entries
      BY DEF Types
    <2>2. CASE r \in DOMAIN m.rows /\ IsFetched(lines[r]) /\ lines[r].since = m.since
      <3>1. lines'[r] = Line(m.rows[r], Max({m.rows[r], client.seqno}))
        BY <1>2, <2>2
      <3> QED  BY <1>1, <1>3, <2>2, <3>1, Made DEF RepliedTo
    <2>3. CASE ~ (r \in DOMAIN m.rows /\ IsFetched(lines[r]) /\ lines[r].since = m.since)
      <3>1. lines'[r] = lines[r]
        BY <1>2, <2>3
      <3> QED  BY <2>1, <2>3, <3>1 DEF RepliedTo
    <2> QED  BY <2>2, <2>3
  <1>5. lines' = [r \in Rows |-> lines'[r]]
    BY <1>2
  <1> QED  BY <1>2, <1>4, <1>5

\* What one row becomes when it is painted.
PaintedTo(rows, r) ==
    \/ lines'[r] = lines[r]
    \/ lines'[r].kind \in {"none", "stale"}
    \/ r \in rows /\ IsFetched(lines'[r]) /\ lines'[r].since = Now

\* get_lines: painting leaves a row as it is, makes it stale or fetches it.
LEMMA PaintIs ==
    ASSUME RowsAssumption, Types, NEW seen \in SUBSET Rows, GetLines(seen)
    PROVE  /\ lines' \in [Rows -> Entries]
           /\ \E rows \in SUBSET Rows : ScheduleFetch(rows) /\ \A r \in Rows : PaintedTo(rows, r)
  <1>1. /\ lines' = [r \in Rows |-> IF r \in seen THEN Painted(lines[r]) ELSE lines[r]]
        /\ ScheduleFetch(ToFetch(seen)) /\ ToFetch(seen) \in SUBSET Rows
    BY DEF GetLines, ToFetch
  <1>2. ASSUME NEW r \in seen
        PROVE  /\ Painted(lines[r]) \in Entries
               /\ \/ Painted(lines[r]) = lines[r]
                  \/ Painted(lines[r]).kind \in {"none", "stale"}
                  \/ /\ r \in ToFetch(seen)
                     /\ IsFetched(Painted(lines[r])) /\ Painted(lines[r]).since = Now
    <2>1. lines[r] \in Entries /\ Now \in Nat
      BY NowIsNew DEF Types
    <2>2. CASE lines[r].kind = "line"
      <3>1. Painted(lines[r]) = IF lines[r].seq > client.seqno THEN Stale(lines[r]) ELSE lines[r]
        BY <2>2 DEF Painted
      <3> QED  BY <2>1, <2>2, <3>1, Made, EntryIs
    <2>3. CASE lines[r].kind = "stale"
      <3>1. Painted(lines[r]) = Refetching(lines[r], Now) /\ r \in ToFetch(seen)
        BY <2>3 DEF Painted, ToFetch
      <3> QED  BY <2>1, <2>3, <3>1, Made, EntryIs DEF IsFetched
    <2>4. CASE lines[r].kind = "none"
      <3>1. Painted(lines[r]) = Fetching(Now) /\ r \in ToFetch(seen)
        BY <2>4 DEF Painted, ToFetch
      <3> QED  BY <2>1, <2>4, <3>1, Made DEF IsFetched
    <2>5. CASE lines[r].kind \in {"fetching", "line_and_fetching"}
      <3>1. Painted(lines[r]) = lines[r]
        BY <2>5 DEF Painted
      <3> QED  BY <2>1, <3>1
    <2> QED  BY <2>1, <2>2, <2>3, <2>4, <2>5, EntryIs
  <1>3. ASSUME NEW r \in Rows
        PROVE  lines'[r] \in Entries /\ PaintedTo(ToFetch(seen), r)
    <2>1. CASE r \in seen
      <3>1. lines'[r] = Painted(lines[r])
        BY <1>1, <2>1
      <3> QED  BY <1>2, <2>1, <3>1 DEF PaintedTo
    <2>2. CASE r \notin seen
      <3>1. lines'[r] = lines[r]
        BY <1>1, <2>2
      <3> QED  BY <3>1 DEF PaintedTo, Types
    <2> QED  BY <2>1, <2>2
  <1>4. lines' = [r \in Rows |-> lines'[r]]
    BY <1>1
  <1> QED  BY <1>1, <1>3, <1>4

------------------------------------------------------------------------------
(* The steps.                                                                *)

\* The message that the main thread comes to is one of those on their way,
\* and the others stay.
LEMMA Taken ==
    ASSUME Types, NEW i \in DOMAIN updates, updates' = RemoveAt(updates, i)
    PROVE  /\ updates' \in Seq(LineMessages) /\ updates[i] \in LineMessages
           /\ updates[i] \in Range(updates)
           /\ Range(updates') \subseteq Range(updates)
           /\ \A x \in Range(updates) : x # updates[i] => x \in Range(updates')
  <1>1. updates \in Seq(LineMessages) /\ i \in 1 .. Len(updates)
    BY LenProperties DEF Types
  <1>2. updates[i] \in LineMessages /\ updates[i] \in Range(updates)
    BY <1>1, ElementOfSeq DEF Range
  <1> QED  BY <1>1, <1>2, RemovedAt, Kept

\* A message is a push or a reply.
LEMMA MessageIs ==
    ASSUME NEW m \in LineMessages
    PROVE  /\ m.kind = "push" => m \in Pushes
           /\ m.kind # "push" => m \in FetchReplies /\ m.kind = "reply"
  BY DEF LineMessages, Pushes, FetchReplies

\* The invariant is kept by whatever takes a message from those in flight and
\* applies it: a reply in time takes its rows, one that is late changes
\* nothing.
LEMMA ApplyKeeps ==
    ASSUME RowsAssumption, LinesBoundsAssumption, LinesInv, NEW m \in LineMessages, m \in InFlight, Apply(m),
           updates' \in Seq(LineMessages), awaiting' \subseteq LineMessages, IsFiniteSet(awaiting)',
           InFlight' \subseteq InFlight, \A x \in InFlight : x # m => x \in InFlight',
           UNCHANGED <<terminal, perPane, due, push, stales>>
    PROVE  LinesInv'
  <1>1. /\ Types /\ Versioned /\ FetchingIsUnderWay
        /\ UNCHANGED <<content, seqno, cursor, perPane, due, push, stales>>
    BY DEF LinesInv, terminal
  <1>2. CASE m.kind = "push"
    <2>1. m \in Pushes /\ ApplyPush(m)
      BY <1>2, MessageIs DEF Apply
    <2>2. /\ lines' \in [Rows -> Entries] /\ repaint' \in BOOLEAN
          /\ client' \in [seqno : Nat, cursor : Rows] /\ client'.seqno = m.seqno
      BY <1>1, <2>1, PushIs
    <2>3. PICK rows \in SUBSET Rows :
             ScheduleFetch(rows) /\ \A r \in Rows : PushedTo(m, rows, r)
      BY <1>1, <2>1, PushIs
    <2>4. PICK t \in Nat : t = Now
      BY <1>1, NowIsNew
    <2>5. /\ fetches' \in Seq(Fetches)
          /\ \A r, u : Sought(u, r) => Sought(u, r)'
          /\ \A r \in rows : Sought(t, r)'
      BY <1>1, <1>2, <2>3, <2>4, Scheduled
    <2>6. Types'
      BY <1>1, <2>2, <2>5 DEF Types
    <2>7. Versioned'
      BY <1>1, <1>2, <2>2 DEF Versioned
    <2>8. \A r \in Rows :
             \/ lines'[r] = lines[r]
             \/ lines'[r].kind \in {"none", "line", "stale"}
             \/ r \in rows /\ lines'[r].since = t
      BY <2>3, <2>4 DEF PushedTo
    <2>9. FetchingIsUnderWay'
      BY <1>1, <2>5, <2>8, UnderWay
    <2> QED  BY <2>6, <2>7, <2>9 DEF LinesInv
  <1>3. CASE m.kind # "push"
    <2>1. m \in FetchReplies /\ ApplyLines(m) /\ m.kind = "reply"
      BY <1>3, MessageIs DEF Apply
    <2>2. /\ lines' \in [Rows -> Entries] /\ repaint' \in BOOLEAN
          /\ UNCHANGED <<client, fetches>>
          /\ \A r \in Rows : RepliedTo(m, r)
      BY <1>1, <2>1, ReplyIs
    <2>3. Types'
      BY <1>1, <2>2 DEF Types
    <2>4. Versioned'
      BY <1>1, <2>2 DEF Versioned
    <2>5. FetchingIsUnderWay'
      <3>1. \A r \in Rows : IsFetched(lines[r]) => Sought(lines[r].since, r)
        BY <1>1 DEF FetchingIsUnderWay, Sought
      <3>2. ASSUME NEW r \in Rows, IsFetched(lines[r])'
            PROVE  \E u : u = lines'[r].since /\ Sought(u, r)'
        <4>1. /\ lines'[r] = lines[r] /\ IsFetched(lines[r])
              /\ ~ (r \in DOMAIN m.rows /\ lines[r].since = m.since)
          BY <2>2, <3>2 DEF RepliedTo, IsFetched
        <4>2. PICK u : u = lines[r].since
          OBVIOUS
        <4>3. Sought(u, r)
          BY <3>1, <4>1, <4>2
        <4>4. Sought(u, r)'
          <5>1. CASE \E f \in Range(fetches) : f.since = u /\ r \in f.rows
            BY <2>2, <5>1 DEF Sought
          <5>2. CASE \E n \in InFlight : n.kind = "reply" /\ n.since = u /\ r \in DOMAIN n.rows
            <6>1. PICK n \in InFlight : n.kind = "reply" /\ n.since = u /\ r \in DOMAIN n.rows
              BY <5>2
            <6>2. n \in InFlight'
              BY <4>1, <4>2, <6>1
            <6> QED  BY <6>1, <6>2 DEF Sought
          <5> QED  BY <4>3, <5>1, <5>2 DEF Sought
        <4> QED  BY <4>1, <4>2, <4>4
      <3> QED  BY <3>2 DEF FetchingIsUnderWay, Sought
    <2> QED  BY <2>3, <2>4, <2>5 DEF LinesInv
  <1> QED  BY <1>2, <1>3

\* The invariant is kept by a step that leaves the cache alone and drops no
\* fetch.
LEMMA GoesOn ==
    ASSUME LinesInv, Types', Versioned', lines' = lines,
           \A r, u : Sought(u, r) => Sought(u, r)'
    PROVE  LinesInv'
  <1>1. FetchingIsUnderWay
    BY DEF LinesInv
  <1>2. \A r \in Rows : lines'[r] = lines[r] \/ lines'[r].kind \in {"none", "line", "stale"}
    OBVIOUS
  <1>3. FetchingIsUnderWay'
    BY <1>1, <1>2, NothingFetched
  <1> QED  BY <1>3 DEF LinesInv

\* The invariant is kept when the terminal changes a row.
LEMMA WriteStep ==
    ASSUME RowsAssumption, LinesBoundsAssumption, LinesInv, NEW r \in Rows, Write(r)
    PROVE  LinesInv'
  <1>1. /\ Types /\ Versioned /\ seqno <= MaxWrites /\ seqno' = seqno + 1
        /\ content' = [content EXCEPT ![r] = seqno + 1] /\ due' = TRUE
        /\ cursor' \in {cursor} \cup ({r} \cap Viewport)
        /\ UNCHANGED <<perPane, push, fetches, updates, awaiting, lines, client, repaint, stales>>
    BY DEF LinesInv, Write, wires, pane
  <1>2. seqno \in Nat /\ MaxWrites \in Nat
    BY <1>1, Numbers DEF Types, LinesBoundsAssumption
  <1> DEFINE n == seqno + 1
  <1>3. n \in Versions /\ n >= seqno /\ seqno' = n /\ content' = [content EXCEPT ![r] = n]
    BY <1>1, <1>2 DEF Versions
  <1> HIDE DEF n
  <1>4. Types'
    BY <1>1, <1>3 DEF Types
  <1>5. InFlight' = InFlight
    BY <1>1 DEF InFlight
  <1>6. Versioned'
    <2>1. n \in Nat /\ perPane.seqno \in Nat /\ client.seqno \in Nat
      BY <1>1, <1>3, Numbers DEF Types
    <2>2. \A q \in Rows : content'[q] <= n
      <3>1. \A q \in Rows : content[q] \in Nat /\ content[q] <= seqno
        BY <1>1, Numbers DEF Types, Versioned
      <3> QED  BY <1>1, <1>2, <1>3, <2>1, <3>1 DEF Types
    <2>3. \A m \in InFlight : m.kind = "push" => m.seqno <= n
      <3>1. \A m \in InFlight : m \in LineMessages
        BY <1>1, ElementOfSeq, LenProperties DEF Types, InFlight, Range
      <3>2. \A m \in InFlight : m.kind = "push" => m.seqno \in Nat
        BY <3>1, MessageIs DEF Pushes
      <3> QED  BY <1>1, <1>2, <1>3, <2>1, <3>2 DEF Versioned
    <2>4. perPane'.seqno <= n /\ client'.seqno <= n
      BY <1>1, <1>2, <1>3, <2>1 DEF Versioned
    <2> QED  BY <1>3, <1>5, <2>2, <2>3, <2>4 DEF Versioned
  <1>7. \A q, u : Sought(u, q) => Sought(u, q)'
    BY <1>1, <1>5 DEF Sought
  <1> QED  BY <1>1, <1>4, <1>6, <1>7, GoesOn

\* The invariant is kept when compute_changes begins.
LEMMA BeginPushStep ==
    ASSUME RowsAssumption, LinesBoundsAssumption, LinesInv, BeginPush
    PROVE  LinesInv'
  <1>1. /\ Types /\ Versioned /\ due' = FALSE
        /\ push' = [at |-> "dirty", cursor |-> cursor, since |-> perPane.seqno]
        /\ perPane' = [perPane EXCEPT !.seqno = seqno]
        /\ UNCHANGED <<content, seqno, cursor, fetches, updates, awaiting, lines, client, repaint, stales>>
    BY DEF LinesInv, BeginPush, terminal, wires, pane
  <1>2. seqno \in Nat
    BY <1>1, Numbers DEF Types
  <1>3. push' \in Pushing
    BY <1>1 DEF Types, Pushing
  <1>4. perPane' \in [seqno : Nat, cursor : Rows] /\ perPane'.seqno = seqno
    BY <1>1, <1>2 DEF Types
  <1>5. Types'
    BY <1>1, <1>3, <1>4 DEF Types
  <1>6. InFlight' = InFlight
    BY <1>1 DEF InFlight
  <1>7. Versioned'
    BY <1>1, <1>2, <1>4, <1>6 DEF Versioned
  <1>8. \A q, u : Sought(u, q) => Sought(u, q)'
    BY <1>1, <1>6 DEF Sought
  <1> QED  BY <1>1, <1>5, <1>7, <1>8, GoesOn

\* The invariant is kept when compute_changes has the dirty rows.
LEMMA ReadDirtyStep ==
    ASSUME RowsAssumption, LinesBoundsAssumption, LinesInv, ReadDirty
    PROVE  LinesInv'
  <1>1. /\ Types /\ Versioned /\ push.at = "dirty"
        /\ UNCHANGED <<content, seqno, cursor, perPane, due, fetches, updates, awaiting,
                       lines, client, repaint, stales>>
    BY DEF LinesInv, ReadDirty, terminal, wires, pane
  <1>2. push.cursor \in Viewport
    BY <1>1 DEF Types, Pushing, Idle
  <1>3. PICK dirty \in SUBSET Rows :
          push' = Idle \/ push' = [at |-> "lines", cursor |-> push.cursor, dirty |-> dirty]
    BY DEF ReadDirty
  <1>4. push' \in Pushing
    BY <1>2, <1>3 DEF Pushing
  <1>5. Types'
    BY <1>1, <1>4 DEF Types
  <1>6. InFlight' = InFlight
    BY <1>1 DEF InFlight
  <1>7. Versioned'
    BY <1>1, <1>6 DEF Versioned
  <1>8. \A q, u : Sought(u, q) => Sought(u, q)'
    BY <1>1, <1>6 DEF Sought
  <1> QED  BY <1>1, <1>5, <1>7, <1>8, GoesOn

\* A message that is sent is in flight with the others.
LEMMA Sent ==
    ASSUME Types, NEW m \in LineMessages, updates' = Append(updates, m), awaiting' = awaiting
    PROVE  /\ updates' \in Seq(LineMessages)
           /\ InFlight' = InFlight \cup {m}
  <1>1. Append(updates, m) \in Seq(LineMessages) /\ Range(Append(updates, m)) = Range(updates) \cup {m}
    BY Appended DEF Types
  <1> QED  BY <1>1 DEF InFlight

\* The message of a push.
LEMMA PushSent ==
    ASSUME RowsAssumption, LinesBoundsAssumption, Types, SendPush
    PROVE  \E m \in Pushes :
              /\ updates' = Append(updates, m)
              /\ m.kind = "push" /\ m.seqno = perPane.seqno
              /\ DOMAIN m.rows = (push.dirty \cap Viewport) \cup {push.cursor}
              /\ m.dirty = push.dirty \ Viewport
              /\ \A r \in DOMAIN m.rows : m.rows[r] = content[r]
  <1>1. /\ push.cursor \in Viewport /\ push.dirty \in SUBSET Rows /\ push.at = "lines"
        /\ perPane.seqno \in Nat
    BY DEF Types, Pushing, Idle, SendPush
  <1> DEFINE sent == (push.dirty \cap Viewport) \cup {push.cursor}
             shown == [r \in sent |-> content[r]]
             m == [kind |-> "push", rows |-> shown,
                   dirty |-> push.dirty \ Viewport, cursor |-> push.cursor,
                   seqno |-> perPane.seqno]
  <1>2. sent \in SUBSET Viewport
    BY <1>1
  <1>3. shown \in Shown(Viewport) /\ DOMAIN shown = sent /\ \A r \in sent : shown[r] = content[r]
    <2>1. shown \in [sent -> Versions]
      BY <1>2, Numbers DEF Types
    <2> HIDE DEF sent
    <2> QED  BY <1>2, <2>1, ShownIs
  <1>4. updates' = Append(updates, m)
    BY DEF SendPush
  <1> HIDE DEF sent, shown
  <1>5. m \in Pushes
    BY <1>1, <1>3 DEF Pushes
  <1>6. /\ m.kind = "push" /\ m.seqno = perPane.seqno /\ m.rows = shown
        /\ m.dirty = push.dirty \ Viewport
    OBVIOUS
  <1> HIDE DEF m
  <1> QED  BY <1>3, <1>4, <1>5, <1>6 DEF sent

\* The invariant is kept when a push is sent.
LEMMA SendPushStep ==
    ASSUME RowsAssumption, LinesBoundsAssumption, LinesInv, SendPush
    PROVE  LinesInv'
  <1>1. /\ Types /\ Versioned /\ perPane' = [perPane EXCEPT !.cursor = push.cursor] /\ push' = Idle
        /\ UNCHANGED <<content, seqno, cursor, due, fetches, awaiting, lines, client, repaint, stales>>
        /\ push.at = "lines"
    BY DEF LinesInv, SendPush, terminal, pane
  <1>2. PICK m \in Pushes : /\ updates' = Append(updates, m)
                            /\ m.kind = "push" /\ m.seqno = perPane.seqno
    BY <1>1, PushSent
  <1>3. updates' \in Seq(LineMessages) /\ InFlight' = InFlight \cup {m}
    BY <1>1, <1>2, Sent DEF LineMessages
  <1>4. push.cursor \in Rows /\ push' \in Pushing
    BY <1>1, Numbers, SMTT(30) DEF Types, Pushing, Idle
  <1>5. perPane' \in [seqno : Nat, cursor : Rows] /\ perPane'.seqno = perPane.seqno
    BY <1>1, <1>4 DEF Types
  <1>6. Types'
    BY <1>1, <1>3, <1>4, <1>5 DEF Types
  <1>7. Versioned'
    BY <1>1, <1>2, <1>3, <1>5 DEF Versioned
  <1>8. \A q, u : Sought(u, q) => Sought(u, q)'
    BY <1>1, <1>3 DEF Sought
  <1> QED  BY <1>1, <1>6, <1>7, <1>8, GoesOn

\* The message of a reply.
LEMMA ReplySent ==
    ASSUME RowsAssumption, LinesBoundsAssumption, Types, ServeFetch
    PROVE  /\ fetches' \in Seq(Fetches)
           /\ \E m \in FetchReplies :
              /\ updates' = Append(updates, m)
              /\ m.kind = "reply"
              /\ \A r \in DOMAIN m.rows : m.rows[r] = content[r]
              /\ \A f \in Range(fetches) :
                    f \in Range(fetches') \/ (m.since = f.since /\ DOMAIN m.rows = f.rows)
  <1>1. fetches # << >> /\ fetches' = Tail(fetches) /\ fetches \in Seq(Fetches)
    BY DEF ServeFetch, Types
  <1> DEFINE fetch == Head(fetches)
             shown == [r \in fetch.rows |-> content[r]]
             m == [kind |-> "reply", rows |-> shown, since |-> fetch.since]
  <1>2. /\ fetch \in Fetches /\ fetches' \in Seq(Fetches)
        /\ \A f \in Range(fetches) : f = fetch \/ f \in Range(fetches')
    <2>1. /\ fetch \in Fetches /\ fetches' \in Seq(Fetches)
          /\ Len(fetches) \in Nat /\ Len(fetches') = Len(fetches) - 1
          /\ DOMAIN fetches = 1 .. Len(fetches) /\ DOMAIN fetches' = 1 .. Len(fetches) - 1
          /\ \A i \in 1 .. Len(fetches') : fetches'[i] = fetches[i + 1]
          /\ fetch = fetches[1]
      BY <1>1, HeadTailProperties, LenProperties
    <2>2. ASSUME NEW i \in 1 .. Len(fetches), i # 1 PROVE fetches[i] \in Range(fetches')
      <3>1. i - 1 \in 1 .. Len(fetches') /\ (i - 1) + 1 = i
        BY <2>1, <2>2
      <3>2. i - 1 \in DOMAIN fetches' /\ fetches'[i - 1] = fetches[i]
        BY <2>1, <3>1
      <3> QED  BY <3>2 DEF Range
    <2> QED  BY <2>1, <2>2 DEF Range
  <1>3. fetch.rows \in SUBSET Rows /\ fetch.since \in Nat
    BY <1>2 DEF Fetches
  <1>4. /\ shown \in Shown(Rows) /\ DOMAIN shown = fetch.rows
        /\ \A r \in DOMAIN shown : shown[r] = content[r]
    <2>1. shown \in [fetch.rows -> Versions]
      BY <1>3 DEF Types
    <2> HIDE DEF fetch
    <2> QED  BY <1>3, <2>1, ShownIs
  <1>5. updates' = Append(updates, m)
    BY DEF ServeFetch
  <1> HIDE DEF shown
  <1>6. m \in FetchReplies
    BY <1>3, <1>4 DEF FetchReplies
  <1>7. m.kind = "reply" /\ m.rows = shown /\ m.since = fetch.since
    OBVIOUS
  <1> HIDE DEF m, fetch
  <1> QED  BY <1>2, <1>4, <1>5, <1>6, <1>7

\* The invariant is kept when the GetLines handler replies: the request is
\* gone, the reply is on its way.
LEMMA ServeFetchStep ==
    ASSUME RowsAssumption, LinesBoundsAssumption, LinesInv, ServeFetch
    PROVE  LinesInv'
  <1>1. /\ Types /\ Versioned
        /\ UNCHANGED <<content, seqno, cursor, perPane, due, push, awaiting, lines, client, repaint, stales>>
    BY DEF LinesInv, ServeFetch, terminal, pane
  <1>2. fetches' \in Seq(Fetches)
    BY <1>1, ReplySent
  <1>3. PICK m \in FetchReplies :
          /\ updates' = Append(updates, m) /\ m.kind = "reply"
          /\ \A f \in Range(fetches) :
                f \in Range(fetches') \/ (m.since = f.since /\ DOMAIN m.rows = f.rows)
    BY <1>1, ReplySent
  <1>4. updates' \in Seq(LineMessages) /\ InFlight' = InFlight \cup {m}
    BY <1>1, <1>3, Sent DEF LineMessages
  <1>5. Types'
    BY <1>1, <1>2, <1>4 DEF Types
  <1>6. Versioned'
    BY <1>1, <1>3, <1>4 DEF Versioned
  <1>7. \A q, u : Sought(u, q) => Sought(u, q)'
    BY <1>3, <1>4 DEF Sought
  <1> QED  BY <1>1, <1>5, <1>6, <1>7, GoesOn

\* The invariant is kept when a message comes to the main thread and is
\* applied.
LEMMA ArriveStep ==
    ASSUME RowsAssumption, LinesBoundsAssumption, LinesInv, NEW i \in DOMAIN updates, Arrive(i)
    PROVE  LinesInv'
  <1>1. /\ Types /\ updates' = RemoveAt(updates, i) /\ Apply(updates[i])
        /\ UNCHANGED <<terminal, perPane, due, push, awaiting, stales>>
    BY DEF LinesInv, Arrive
  <1>2. /\ updates' \in Seq(LineMessages) /\ updates[i] \in LineMessages
        /\ updates[i] \in Range(updates)
        /\ Range(updates') \subseteq Range(updates)
        /\ \A x \in Range(updates) : x # updates[i] => x \in Range(updates')
    BY <1>1, Taken
  <1>3. /\ updates[i] \in InFlight /\ InFlight' \subseteq InFlight
        /\ \A x \in InFlight : x # updates[i] => x \in InFlight'
    BY <1>1, <1>2 DEF InFlight
  <1>4. awaiting' \subseteq LineMessages /\ IsFiniteSet(awaiting)'
    BY <1>1 DEF Types
  <1> QED  BY <1>1, <1>2, <1>3, <1>4, ApplyKeeps

\* The invariant is kept when a message must wait for images (hydrate_lines).
LEMMA AwaitImagesStep ==
    ASSUME RowsAssumption, LinesBoundsAssumption, LinesInv, NEW i \in DOMAIN updates, AwaitImages(i)
    PROVE  LinesInv'
  <1>1. /\ Types /\ Versioned /\ updates' = RemoveAt(updates, i)
        /\ awaiting' = awaiting \cup {updates[i]}
        /\ UNCHANGED <<content, seqno, cursor, perPane, due, push, fetches, lines, client, repaint, stales>>
    BY DEF LinesInv, AwaitImages, terminal, pane
  <1>2. /\ updates' \in Seq(LineMessages) /\ updates[i] \in LineMessages
        /\ updates[i] \in Range(updates)
        /\ Range(updates') \subseteq Range(updates)
        /\ \A x \in Range(updates) : x # updates[i] => x \in Range(updates')
    BY <1>1, Taken
  <1>3. InFlight' = InFlight
    BY <1>1, <1>2 DEF InFlight
  <1>4. awaiting' \subseteq LineMessages /\ IsFiniteSet(awaiting')
    BY <1>1, <1>2, FS_AddElement DEF Types
  <1>5. Types'
    BY <1>1, <1>2, <1>4 DEF Types
  <1>6. Versioned'
    BY <1>1, <1>3 DEF Versioned
  <1>7. \A q, u : Sought(u, q) => Sought(u, q)'
    BY <1>1, <1>3 DEF Sought
  <1> QED  BY <1>1, <1>5, <1>6, <1>7, GoesOn

\* The invariant is kept when the images are there and the message is
\* applied.
LEMMA ImagesArriveStep ==
    ASSUME RowsAssumption, LinesBoundsAssumption, LinesInv, ImagesArrive
    PROVE  LinesInv'
  <1>1. PICK m \in awaiting :
          /\ awaiting' = awaiting \ {m} /\ Apply(m)
          /\ UNCHANGED <<terminal, perPane, due, push, updates, stales>>
    BY DEF ImagesArrive
  <1>2. /\ m \in LineMessages /\ updates' \in Seq(LineMessages)
        /\ awaiting' \subseteq LineMessages /\ IsFiniteSet(awaiting')
    BY <1>1, FS_RemoveElement DEF LinesInv, Types
  <1>3. /\ m \in InFlight /\ InFlight' \subseteq InFlight
        /\ \A x \in InFlight : x # m => x \in InFlight'
    BY <1>1 DEF InFlight
  <1> QED  BY <1>1, <1>2, <1>3, ApplyKeeps

\* The invariant is kept by get_lines, whichever rows are painted.
LEMMA PaintStep ==
    ASSUME RowsAssumption, LinesBoundsAssumption, LinesInv, NEW seen \in SUBSET Rows, GetLines(seen),
           due' \in BOOLEAN, repaint' \in BOOLEAN,
           UNCHANGED <<terminal, perPane, push, updates, awaiting, client, stales>>
    PROVE  LinesInv'
  <1>1. /\ Types /\ Versioned /\ FetchingIsUnderWay
        /\ UNCHANGED <<content, seqno, cursor, perPane, push, updates, awaiting, client, stales>>
    BY DEF LinesInv, terminal
  <1>2. lines' \in [Rows -> Entries]
    BY <1>1, PaintIs
  <1>3. PICK rows \in SUBSET Rows :
           ScheduleFetch(rows) /\ \A r \in Rows : PaintedTo(rows, r)
    BY <1>1, PaintIs
  <1>4. PICK t \in Nat : t = Now
    BY <1>1, NowIsNew
  <1>5. InFlight' = InFlight
    BY <1>1 DEF InFlight
  <1>6. /\ fetches' \in Seq(Fetches)
        /\ \A r, u : Sought(u, r) => Sought(u, r)'
        /\ \A r \in rows : Sought(t, r)'
    BY <1>1, <1>3, <1>4, <1>5, Scheduled
  <1>7. Types'
    BY <1>1, <1>2, <1>6 DEF Types
  <1>8. Versioned'
    BY <1>1, <1>5 DEF Versioned
  <1>9. \A r \in Rows :
           \/ lines'[r] = lines[r]
           \/ lines'[r].kind \in {"none", "line", "stale"}
           \/ r \in rows /\ lines'[r].since = t
    BY <1>3, <1>4 DEF PaintedTo
  <1>10. FetchingIsUnderWay'
    BY <1>1, <1>6, <1>9, UnderWay
  <1> QED  BY <1>7, <1>8, <1>10 DEF LinesInv

\* The invariant is kept when the GUI paints the viewport or what was
\* scrolled to.
LEMMA RepaintStep ==
    ASSUME RowsAssumption, LinesBoundsAssumption, LinesInv, Repaint \/ Scroll
    PROVE  LinesInv'
  <1>1. Viewport \in SUBSET Rows /\ Rows \in SUBSET Rows /\ due \in BOOLEAN /\ repaint \in BOOLEAN
    BY Numbers DEF LinesInv, Types
  <1> QED  BY <1>1, PaintStep DEF Repaint, Scroll

\* The invariant is kept by make_all_stale.
LEMMA MakeAllStaleStep ==
    ASSUME RowsAssumption, LinesBoundsAssumption, LinesInv, MakeAllStale
    PROVE  LinesInv'
  <1>1. /\ Types /\ Versioned /\ FetchingIsUnderWay
        /\ stales < MaxStales /\ stales' = stales + 1 /\ repaint' = TRUE
        /\ lines' = [r \in Rows |-> IF lines[r].kind = "line" THEN Stale(lines[r]) ELSE lines[r]]
        /\ UNCHANGED <<content, seqno, cursor, perPane, due, push, fetches, updates, awaiting, client>>
    BY DEF LinesInv, MakeAllStale, terminal, wires
  <1>2. lines' \in [Rows -> Entries]
    <2>1. \A r \in Rows : lines[r] \in Entries
      BY <1>1 DEF Types
    <2>2. \A r \in Rows : (IF lines[r].kind = "line" THEN Stale(lines[r]) ELSE lines[r]) \in Entries
      BY <2>1, EntryIs
    <2> QED  BY <1>1, <2>2
  <1>3. stales' \in 0 .. MaxStales
    BY <1>1 DEF Types, LinesBoundsAssumption
  <1>4. Types'
    BY <1>1, <1>2, <1>3 DEF Types
  <1>5. InFlight' = InFlight
    BY <1>1 DEF InFlight
  <1>6. Versioned'
    BY <1>1, <1>5 DEF Versioned
  <1>7. \A q, u : Sought(u, q) => Sought(u, q)'
    BY <1>1, <1>5 DEF Sought
  <1>8. \A r \in Rows : lines'[r] = lines[r] \/ lines'[r].kind \in {"none", "line", "stale"}
    BY <1>1, Made
  <1>9. FetchingIsUnderWay'
    BY <1>1, <1>7, <1>8, NothingFetched
  <1> QED  BY <1>4, <1>6, <1>9 DEF LinesInv

\* The invariant is kept when nothing happens.
LEMMA Stutters ==
    ASSUME LinesInv, UNCHANGED lineVars
    PROVE  LinesInv'
  <1>1. UNCHANGED <<content, seqno, cursor, perPane, due, push, fetches, updates, awaiting,
                    lines, client, repaint, stales>>
    BY DEF lineVars, terminal, wires, pane
  <1>2. Types' /\ InFlight' = InFlight
    BY <1>1 DEF LinesInv, Types, InFlight
  <1>3. Versioned'
    BY <1>1, <1>2 DEF LinesInv, Versioned
  <1>4. \A q, u : Sought(u, q) => Sought(u, q)'
    BY <1>1, <1>2 DEF Sought
  <1> QED  BY <1>1, <1>2, <1>3, <1>4, GoesOn

\* The invariant holds of a pane that was just made.
LEMMA LinesInitially ==
    ASSUME RowsAssumption, LinesBoundsAssumption, LinesInit
    PROVE  LinesInv
  <1>1. InFlight = {} /\ IsFiniteSet(awaiting)
    BY FS_EmptySet DEF LinesInit, InFlight, Range
  <1>2. Types
    <2>1. content \in [Rows -> Versions] /\ seqno \in Versions /\ cursor \in Viewport
      BY Numbers DEF LinesInit
    <2>2. perPane \in [seqno : Nat, cursor : Rows] /\ client \in [seqno : Nat, cursor : Rows]
      BY Numbers DEF LinesInit
    <2>3. due \in BOOLEAN /\ push \in Pushing /\ repaint \in BOOLEAN
      BY DEF LinesInit, Pushing
    <2>4. fetches \in Seq(Fetches) /\ updates \in Seq(LineMessages) /\ awaiting \subseteq LineMessages
      BY EmptySeq DEF LinesInit
    <2>5. lines \in [Rows -> Entries]
      BY Made DEF LinesInit
    <2>6. stales \in 0 .. MaxStales
      BY DEF LinesInit, LinesBoundsAssumption
    <2> QED  BY <1>1, <2>1, <2>2, <2>3, <2>4, <2>5, <2>6 DEF Types
  <1>3. Versioned
    BY <1>1 DEF LinesInit, Versioned
  <1>4. FetchingIsUnderWay
    BY DEF LinesInit, FetchingIsUnderWay, IsFetched, Absent
  <1> QED  BY <1>2, <1>3, <1>4 DEF LinesInv

\* The invariant is kept by every step.
LEMMA LinesAlways ==
    ASSUME RowsAssumption, LinesBoundsAssumption, LinesInv, [LinesNext]_lineVars
    PROVE  LinesInv'
  <1>1. CASE UNCHANGED lineVars
    BY <1>1, Stutters
  <1>2. CASE \E r \in Rows : Write(r)
    BY <1>2, WriteStep
  <1>3. CASE PaneServer
    BY <1>3, BeginPushStep, ReadDirtyStep, SendPushStep, ServeFetchStep
       DEF PaneServer
  <1>4. CASE (\E i \in DOMAIN updates : MainThread(i)) \/ ImagesArrive
    BY <1>4, ArriveStep, AwaitImagesStep, ImagesArriveStep DEF MainThread
  <1>5. CASE Repaint \/ Scroll \/ MakeAllStale
    BY <1>5, RepaintStep, MakeAllStaleStep
  <1> QED  BY <1>1, <1>2, <1>3, <1>4, <1>5 DEF LinesNext

\* The invariant holds for ever.
THEOREM LinesInvariance ==
    ASSUME RowsAssumption, LinesBoundsAssumption
    PROVE  LinesSpec => []LinesInv
  <1>1. LinesInit => LinesInv
    BY LinesInitially
  <1>2. LinesInv /\ [LinesNext]_lineVars => LinesInv'
    BY LinesAlways
  <1> QED  BY <1>1, <1>2, PTL DEF LinesSpec

\* The invariant implies the type of the module.
LEMMA LinesTyped ==
    ASSUME RowsAssumption, LinesBoundsAssumption, LinesInv
    PROVE  LinesTypeOK
  <1>1. Types /\ Versioned /\ seqno \in Nat
    BY Numbers DEF LinesInv, Types
  <1>2. perPane \in [seqno : 0 .. seqno, cursor : Rows] /\ client \in [seqno : 0 .. seqno, cursor : Rows]
    BY <1>1 DEF Types, Versioned
  <1>3. push.at \in {"idle", "dirty", "lines"}
    BY <1>1 DEF Types, Pushing, Idle
  <1>4. \A f \in Range(fetches) : f.rows \subseteq Rows /\ f.since \in Nat
    <2>1. \A f \in Range(fetches) : f \in Fetches
      BY <1>1, ElementOfSeq, LenProperties DEF Types, Range
    <2> QED  BY <2>1 DEF Fetches
  <1>5. ASSUME NEW m \in InFlight
        PROVE  m.kind \in {"push", "reply"} /\ DOMAIN m.rows \subseteq Rows /\ Range(m.rows) \subseteq Versions
    <2>1. m \in LineMessages
      BY <1>1, ElementOfSeq, LenProperties DEF Types, InFlight, Range
    <2>2. m.kind \in {"push", "reply"} /\ (m.rows \in Shown(Viewport) \/ m.rows \in Shown(Rows))
      BY <2>1 DEF LineMessages, Pushes, FetchReplies
    <2>3. DOMAIN m.rows \subseteq Rows /\ \A r \in DOMAIN m.rows : m.rows[r] \in Versions
      BY <2>2, ShownIs, Numbers
    <2> QED  BY <2>2, <2>3 DEF Range
  <1> QED  BY <1>1, <1>2, <1>3, <1>4, <1>5 DEF LinesTypeOK, Types

\* Both views of the pane keep their type (PerPane, RenderableInner), and no
\* sequence number runs ahead of the terminal's.
THEOREM LinesTypeCorrect ==
    ASSUME RowsAssumption, LinesBoundsAssumption
    PROVE  LinesSpec => []LinesTypeOK
  <1>1. LinesInv => LinesTypeOK
    BY LinesTyped
  <1> QED  BY <1>1, LinesInvariance, PTL

\* FetchingIsUnderWay, the first half of CacheIsTrue: a row that is shown as
\* being fetched (LineEntry::Fetching) is in a request or a reply of that
\* very fetch, so it never stays blank or old because nobody fetches it.
\* Images may be anywhere.
THEOREM FetchedIsFetched ==
    ASSUME RowsAssumption, LinesBoundsAssumption
    PROVE  LinesSpec => []FetchingIsUnderWay
  <1>1. LinesInv => FetchingIsUnderWay
    BY DEF LinesInv
  <1> QED  BY <1>1, LinesInvariance, PTL

------------------------------------------------------------------------------
(* The rows that are pushed.                                                *)

\* No row of the viewport shows images, so no push has to wait for any.
NoImagesInView == ImageRows \cap Viewport = {}

\* A push that brings the row or makes the client drop or fetch it.
Mentions(m, r) == m.kind = "push" /\ (r \in DOMAIN m.rows \/ r \in m.dirty)

\* Such a push is on its way, after the i-th message.
After(i, r) == \E j \in DOMAIN updates : j > i /\ Mentions(updates[j], r)

\* The server has still to push a change of the row.
Owed(r) ==
    \/ due /\ content[r] > perPane.seqno
    \/ push.at = "dirty" /\ content[r] > push.since
    \/ push.at = "lines" /\ r \in push.dirty

NoPushWaits == \A m \in awaiting : m.kind # "push"

\* A row that is cached as up to date and is not will be pushed, ...
LinesOwed ==
    \A r \in Rows :
        lines[r].kind = "line" /\ lines[r].row # content[r] => Owed(r) \/ After(0, r)

\* ... one that a push carries will be pushed after it, ...
PushesOwed ==
    \A r \in Rows, i \in DOMAIN updates :
        /\ updates[i].kind = "push" /\ r \in DOMAIN updates[i].rows
        /\ updates[i].rows[r] # content[r]
        => Owed(r) \/ After(i, r)

\* ... and so will one that the cache will take from a reply.
RepliesOwed ==
    \A r \in Rows, m \in InFlight :
        /\ m.kind = "reply" /\ r \in DOMAIN m.rows /\ m.rows[r] # content[r]
        /\ IsFetched(lines[r]) /\ lines[r].since = m.since
        => Owed(r) \/ After(0, r)

Debts == NoPushWaits /\ LinesOwed /\ PushesOwed /\ RepliesOwed

\* Taking a message that no push on its way is after (the first, or any
\* reply) leaves each push that comes after another where it was.
LEMMA Shifted ==
    ASSUME Types, Debts, NEW i \in DOMAIN updates, updates' = RemoveAt(updates, i),
           i = 1 \/ updates[i].kind # "push",
           content' = content, \A r \in Rows : Owed(r) => Owed(r)'
    PROVE  /\ PushesOwed'
           /\ \A r : After(0, r) => After(0, r)' \/ Mentions(updates[i], r)
           /\ \A r : After(i, r) => After(0, r)'
  <1>1. /\ Len(updates) \in Nat /\ DOMAIN updates = 1 .. Len(updates) /\ i \in 1 .. Len(updates)
        /\ DOMAIN updates' = 1 .. Len(updates) - 1
        /\ \A j \in 1 .. Len(updates) - 1 :
              updates'[j] = IF j < i THEN updates[j] ELSE updates[j + 1]
    <2>1. /\ updates \in Seq(LineMessages) /\ i \in 1 .. Len(updates)
          /\ Len(updates) \in Nat /\ DOMAIN updates = 1 .. Len(updates)
      BY LenProperties DEF Types
    <2>2. /\ RemoveAt(updates, i) \in Seq(LineMessages) /\ Len(RemoveAt(updates, i)) = Len(updates) - 1
          /\ \A j \in 1 .. Len(updates) - 1 :
                RemoveAt(updates, i)[j] = IF j < i THEN updates[j] ELSE updates[j + 1]
      BY <2>1, RemovedAt, Zenon
    <2>3. DOMAIN RemoveAt(updates, i) = 1 .. Len(updates) - 1
      BY <2>2, LenProperties
    <2> QED  BY <2>1, <2>2, <2>3
  <1>2. ASSUME NEW j \in DOMAIN updates, j # i, NEW k \in 0 .. Len(updates) - 1, NEW r,
               j > (IF k < i THEN k ELSE k + 1), Mentions(updates[j], r)
        PROVE  After(k, r)'
    <2>1. CASE j < i
      <3>1. j \in DOMAIN updates' /\ updates'[j] = updates[j] /\ j > k
        BY <1>1, <1>2, <2>1
      <3> QED  BY <1>2, <3>1 DEF After, Mentions
    <2>2. CASE j > i
      <3>1. PICK h : h = j - 1
        OBVIOUS
      <3>2. h \in 1 .. Len(updates) - 1 /\ ~ (h < i) /\ h + 1 = j /\ h > k
        BY <1>1, <1>2, <2>2, <3>1
      <3>3. h \in DOMAIN updates' /\ updates'[h] = updates[j]
        BY <1>1, <3>2
      <3> QED  BY <1>2, <3>2, <3>3 DEF After, Mentions
    <2> QED  BY <1>1, <1>2, <2>1, <2>2
  <1>3. ASSUME NEW r \in Rows, NEW k \in DOMAIN updates', updates'[k].kind = "push",
               r \in DOMAIN updates'[k].rows, updates'[k].rows[r] # content'[r]
        PROVE  Owed(r)' \/ After(k, r)'
    <2>1. PICK h \in DOMAIN updates : h = (IF k < i THEN k ELSE k + 1) /\ updates'[k] = updates[h]
      BY <1>1
    <2>2. Owed(r) \/ After(h, r)
      BY <1>3, <2>1 DEF Debts, PushesOwed
    <2>3. CASE After(h, r)
      <3>1. PICK j \in DOMAIN updates : j > h /\ Mentions(updates[j], r)
        BY <2>3 DEF After
      <3>2. j # i
        BY <1>1, <2>1, <3>1 DEF Mentions
      <3>3. k \in 0 .. Len(updates) - 1
        BY <1>1
      <3> QED  BY <1>2, <2>1, <3>1, <3>2, <3>3
    <2> QED  BY <2>2, <2>3
  <1>4. ASSUME NEW r, After(0, r), ~ Mentions(updates[i], r)
        PROVE  After(0, r)'
    <2>1. PICK j \in DOMAIN updates : j > 0 /\ Mentions(updates[j], r)
      BY <1>4 DEF After
    <2>2. j # i /\ 0 \in 0 .. Len(updates) - 1 /\ 0 < i
      BY <1>1, <1>4, <2>1
    <2> QED  BY <1>2, <2>1, <2>2
  <1>5. ASSUME NEW r, After(i, r)
        PROVE  After(0, r)'
    <2>1. PICK j \in DOMAIN updates : j > i /\ Mentions(updates[j], r)
      BY <1>5 DEF After
    <2>2. j # i /\ 0 \in 0 .. Len(updates) - 1 /\ 0 < i /\ j > 0
      BY <1>1, <2>1
    <2> QED  BY <1>2, <2>1, <2>2
  <1> QED  BY <1>3, <1>4, <1>5 DEF PushesOwed

\* Debts are kept when the first message is a push and is applied: what it
\* brings is new or is pushed again by a later one, what it names is no
\* longer up to date.
LEMMA PushApplied ==
    ASSUME RowsAssumption, LinesBoundsAssumption, Types, Debts, NEW m \in Pushes, ApplyPush(m),
           content' = content, \A r \in Rows : Owed(r) => Owed(r)',
           PushesOwed', InFlight' \subseteq InFlight, awaiting' = awaiting,
           1 \in DOMAIN updates, m = updates[1],
           \A r : After(0, r) => After(0, r)' \/ Mentions(m, r),
           \A r : After(1, r) => After(0, r)'
    PROVE  Debts'
  <1>1. PICK rows \in SUBSET Rows : \A r \in Rows : PushedTo(m, rows, r)
    BY PushIs
  <1>2. m.kind = "push"
    BY DEF Pushes
  <1>3. ASSUME NEW r \in Rows, (lines[r].kind = "line" /\ lines[r].row # content[r])'
        PROVE  Owed(r)' \/ After(0, r)'
    <2>1. CASE r \in DOMAIN m.rows /\ lines'[r].row = m.rows[r]
      <3>1. Owed(r) \/ After(1, r)
        BY <1>2, <1>3, <2>1 DEF Debts, PushesOwed
      <3> QED  BY <3>1
    <2>2. CASE r \notin DOMAIN m.rows /\ r \notin m.dirty /\ lines'[r] = lines[r]
      <3>1. Owed(r) \/ After(0, r)
        BY <1>3, <2>2 DEF Debts, LinesOwed
      <3> QED  BY <2>2, <3>1 DEF Mentions
    <2> QED  BY <1>1, <1>3, <2>1, <2>2 DEF PushedTo, IsFetched
  <1>4. ASSUME NEW r \in Rows, NEW n \in InFlight',
               n.kind = "reply" /\ r \in DOMAIN n.rows /\ n.rows[r] # content'[r],
               IsFetched(lines'[r]) /\ lines'[r].since = n.since
        PROVE  Owed(r)' \/ After(0, r)'
    <2>1. n \in InFlight /\ n.since # Now
      <3>1. n \in InFlight
        OBVIOUS
      <3>2. n.since \in Instants
        BY <1>4, <3>1 DEF Instants
      <3> QED  BY <3>1, <3>2, NowIsNew
    <2>2. lines'[r] = lines[r] /\ r \notin DOMAIN m.rows /\ r \notin m.dirty
      BY <1>1, <1>4, <2>1 DEF PushedTo, IsFetched
    <2>3. Owed(r) \/ After(0, r)
      BY <1>4, <2>1, <2>2 DEF Debts, RepliesOwed
    <2> QED  BY <2>2, <2>3 DEF Mentions
  <1>5. NoPushWaits'
    BY DEF Debts, NoPushWaits
  <1>6. LinesOwed'
    BY <1>3 DEF LinesOwed
  <1>7. RepliesOwed'
    BY <1>4 DEF RepliesOwed, IsFetched
  <1> QED  BY <1>5, <1>6, <1>7 DEF Debts

\* Debts are kept when a reply is applied: what it brings was the server's
\* when it was sent, and what changed since is owed or on its way.
LEMMA ReplyApplied ==
    ASSUME RowsAssumption, LinesBoundsAssumption, Types, Versioned, Debts, NEW m \in FetchReplies,
           m \in InFlight, m.kind = "reply", ApplyLines(m),
           content' = content, \A r \in Rows : Owed(r) => Owed(r)',
           PushesOwed', InFlight' \subseteq InFlight, awaiting' \subseteq awaiting,
           \A r : After(0, r) => After(0, r)'
    PROVE  Debts'
  <1>1. \A r \in Rows : RepliedTo(m, r)
    BY ReplyIs
  <1>2. ASSUME NEW r \in Rows, (lines[r].kind = "line" /\ lines[r].row # content[r])'
        PROVE  Owed(r)' \/ After(0, r)'
    <2>1. CASE lines'[r] = lines[r]
      BY <1>2, <2>1 DEF Debts, LinesOwed
    <2>2. CASE /\ r \in DOMAIN m.rows /\ IsFetched(lines[r]) /\ lines[r].since = m.since
               /\ lines'[r].row = m.rows[r]
      BY <1>2, <2>2 DEF Debts, RepliesOwed
    <2> QED  BY <1>1, <2>1, <2>2 DEF RepliedTo
  <1>3. ASSUME NEW r \in Rows, NEW n \in InFlight',
               n.kind = "reply" /\ r \in DOMAIN n.rows /\ n.rows[r] # content'[r],
               IsFetched(lines'[r]) /\ lines'[r].since = n.since
        PROVE  Owed(r)' \/ After(0, r)'
    <2>1. lines'[r] = lines[r] /\ n \in InFlight
      BY <1>1, <1>3 DEF RepliedTo, IsFetched
    <2>2. Owed(r) \/ After(0, r)
      BY <1>3, <2>1 DEF Debts, RepliesOwed
    <2> QED  BY <2>2
  <1>4. NoPushWaits'
    BY DEF Debts, NoPushWaits
  <1>5. LinesOwed'
    BY <1>2 DEF LinesOwed
  <1>6. RepliesOwed'
    BY <1>3 DEF RepliesOwed, IsFetched
  <1> QED  BY <1>4, <1>5, <1>6 DEF Debts

\* Nothing but the lines changes, and those stay, are known to be old or are fetched anew.
LEMMA OnlyOlder ==
    ASSUME RowsAssumption, Types, Debts,
           UNCHANGED <<content, updates, awaiting>>, \A r \in Rows : Owed(r) => Owed(r)',
           \A r \in Rows :
              \/ lines'[r] = lines[r]
              \/ lines'[r].kind \in {"none", "stale"}
              \/ IsFetched(lines'[r]) /\ lines'[r].since = Now
    PROVE  Debts'
  <1>1. InFlight' = InFlight /\ \A i, r : After(i, r)' <=> After(i, r)
    BY DEF InFlight, After, Mentions
  <1>2. NoPushWaits' /\ PushesOwed'
    BY <1>1 DEF Debts, NoPushWaits, PushesOwed
  <1>3. LinesOwed'
    BY <1>1 DEF Debts, LinesOwed, IsFetched
  <1>4. ASSUME NEW r \in Rows, NEW n \in InFlight,
               n.kind = "reply" /\ r \in DOMAIN n.rows /\ n.rows[r] # content[r],
               IsFetched(lines'[r]) /\ lines'[r].since = n.since
        PROVE  Owed(r)' \/ After(0, r)
    <2>1. n.since \in Instants
      BY <1>4 DEF Instants
    <2>2. n.since # Now
      BY <2>1, NowIsNew
    <2>3. lines'[r] = lines[r]
      BY <1>4, <2>2 DEF IsFetched
    <2> QED  BY <1>4, <2>3 DEF Debts, RepliesOwed
  <1>5. RepliesOwed'
    BY <1>1, <1>4 DEF RepliesOwed, IsFetched
  <1> QED  BY <1>2, <1>3, <1>5 DEF Debts

\* The server does what it owes, or sends it.
LEMMA ServerOwes ==
    ASSUME Types, Debts, UNCHANGED <<content, lines, awaiting>>,
           NEW m \in LineMessages, updates' = Append(updates, m),
           \A r \in DOMAIN m.rows : m.rows[r] = content[r],
           \A r \in Rows : Owed(r) => Owed(r)' \/ Mentions(m, r)
    PROVE  Debts'
  <1>1. /\ Len(updates) \in Nat /\ DOMAIN updates = 1 .. Len(updates)
        /\ DOMAIN updates' = 1 .. Len(updates) + 1
        /\ \A j \in 1 .. Len(updates) : updates'[j] = updates[j]
        /\ updates'[Len(updates) + 1] = m
    BY AppendProperties, LenProperties DEF Types
  <1>2. InFlight' = InFlight \cup {m}
    BY Sent
  <1>3. \A i, r : After(i, r) => After(i, r)'
    <2>1. ASSUME NEW i, NEW r, After(i, r) PROVE After(i, r)'
      <3>1. PICK j \in DOMAIN updates : j > i /\ Mentions(updates[j], r)
        BY <2>1 DEF After
      <3>2. j \in DOMAIN updates' /\ updates'[j] = updates[j]
        BY <1>1
      <3> QED  BY <3>1, <3>2 DEF After, Mentions
    <2> QED  BY <2>1
  <1>4. ASSUME NEW i \in 0 .. Len(updates), NEW r \in Rows, Mentions(m, r) PROVE After(i, r)'
    <2>1. PICK j : j = Len(updates) + 1
      OBVIOUS
    <2>2. j \in DOMAIN updates' /\ updates'[j] = m /\ j > i
      BY <1>1, <1>4, <2>1
    <2> QED  BY <1>4, <2>2 DEF After, Mentions
  <1>5. NoPushWaits'
    BY DEF Debts, NoPushWaits
  <1>6. LinesOwed'
    <2>1. 0 \in 0 .. Len(updates)
      BY <1>1
    <2> QED  BY <1>3, <1>4, <2>1 DEF Debts, LinesOwed
  <1>7. PushesOwed'
    <2>1. ASSUME NEW r \in Rows, NEW i \in DOMAIN updates',
                 updates'[i].kind = "push", r \in DOMAIN updates'[i].rows,
                 updates'[i].rows[r] # content'[r]
          PROVE  Owed(r)' \/ After(i, r)'
      <3>1. updates'[i] # m
        BY <2>1
      <3>2. i \in DOMAIN updates /\ updates'[i] = updates[i] /\ i \in 0 .. Len(updates)
        BY <1>1, <3>1
      <3>3. Owed(r) \/ After(i, r)
        BY <2>1, <3>2 DEF Debts, PushesOwed
      <3> QED  BY <1>3, <1>4, <3>2, <3>3
    <2> QED  BY <2>1 DEF PushesOwed
  <1>8. RepliesOwed'
    <2>1. ASSUME NEW r \in Rows, NEW n \in InFlight,
                 n.kind = "reply" /\ r \in DOMAIN n.rows /\ n.rows[r] # content[r],
                 IsFetched(lines[r]) /\ lines[r].since = n.since
          PROVE  Owed(r)' \/ After(0, r)'
      <3>1. Owed(r) \/ After(0, r)
        BY <2>1 DEF Debts, RepliesOwed
      <3>2. 0 \in 0 .. Len(updates)
        BY <1>1
      <3> QED  BY <1>3, <1>4, <3>1, <3>2
    <2> QED  BY <1>2, <2>1 DEF RepliesOwed, IsFetched
  <1> QED  BY <1>5, <1>6, <1>7, <1>8 DEF Debts

\* Debts are kept when the terminal changes a row, which makes a push due.
LEMMA WriteOwes ==
    ASSUME RowsAssumption, LinesBoundsAssumption, LinesInv, Debts, NEW r \in Rows, Write(r)
    PROVE  Debts'
  <1>1. /\ Types /\ Versioned /\ content' = [content EXCEPT ![r] = seqno + 1] /\ due' = TRUE
        /\ UNCHANGED <<perPane, push, fetches, updates, awaiting, lines>>
    BY DEF LinesInv, Write, wires, pane
  <1>2. Owed(r)'
    <2>1. content'[r] = seqno + 1 /\ seqno \in Nat /\ perPane.seqno \in Nat /\ perPane.seqno <= seqno
      BY <1>1, Numbers DEF Types, Versioned
    <2> QED  BY <1>1, <2>1 DEF Owed
  <1>3. \A q \in Rows : q # r => content'[q] = content[q] /\ (Owed(q) => Owed(q)')
    BY <1>1 DEF Owed, Types
  <1>4. InFlight' = InFlight /\ \A i, q : After(i, q)' <=> After(i, q)
    BY <1>1 DEF InFlight, After, Mentions
  <1>5. NoPushWaits' /\ LinesOwed' /\ PushesOwed'
    BY <1>1, <1>2, <1>3, <1>4 DEF Debts, NoPushWaits, LinesOwed, PushesOwed
  <1>6. RepliesOwed'
    BY <1>1, <1>2, <1>3, <1>4 DEF Debts, RepliesOwed, IsFetched
  <1> QED  BY <1>5, <1>6 DEF Debts

\* Debts are kept when compute_changes begins and when it reads the dirty
\* rows: what changed in between is read or makes another push due.
LEMMA PushOwes ==
    ASSUME RowsAssumption, LinesBoundsAssumption, LinesInv, Debts, BeginPush \/ ReadDirty
    PROVE  Debts'
  <1>1. /\ Types /\ UNCHANGED <<content, updates, awaiting, lines>>
    BY DEF LinesInv, BeginPush, ReadDirty, terminal, wires, pane
  <1>2. CASE BeginPush
    <2>1. /\ push.at = "idle" /\ due
          /\ push' = [at |-> "dirty", cursor |-> cursor, since |-> perPane.seqno]
      BY <1>2 DEF BeginPush
    <2>2. \A r \in Rows : Owed(r) => Owed(r)'
      BY <1>1, <2>1 DEF Owed
    <2> QED  BY <1>1, <2>2, OnlyOlder
  <1>3. CASE ReadDirty
    <2>1. PICK dirty : dirty = {r \in Rows : content[r] > push.since}
      OBVIOUS
    <2>2. /\ push.at = "dirty" /\ UNCHANGED <<due, perPane>>
          /\ push' = IF dirty = {} /\ push.cursor = perPane.cursor THEN Idle
                     ELSE [at |-> "lines", cursor |-> push.cursor, dirty |-> dirty]
      BY <1>3, <2>1 DEF ReadDirty
    <2>3. ASSUME NEW r \in Rows, Owed(r) PROVE Owed(r)'
      <3>1. CASE due /\ content[r] > perPane.seqno
        BY <1>1, <2>2, <3>1 DEF Owed
      <3>2. CASE content[r] > push.since
        <4>1. r \in dirty
          BY <2>1, <3>2
        <4>2. push' = [at |-> "lines", cursor |-> push.cursor, dirty |-> dirty]
          BY <2>2, <4>1
        <4> QED  BY <4>1, <4>2 DEF Owed
      <3> QED  BY <2>2, <2>3, <3>1, <3>2 DEF Owed
    <2> QED  BY <1>1, <2>3, OnlyOlder
  <1> QED  BY <1>2, <1>3

\* Debts are kept when a push or a reply is sent.
LEMMA SendOwes ==
    ASSUME RowsAssumption, LinesBoundsAssumption, LinesInv, Debts, SendPush \/ ServeFetch
    PROVE  Debts'
  <1>1. Types /\ UNCHANGED <<content, lines, awaiting, due>>
    BY DEF LinesInv, SendPush, ServeFetch, terminal, pane
  <1>2. CASE SendPush
    <2>1. PICK m \in Pushes :
              /\ updates' = Append(updates, m) /\ m.kind = "push"
              /\ DOMAIN m.rows = (push.dirty \cap Viewport) \cup {push.cursor}
              /\ m.dirty = push.dirty \ Viewport
              /\ \A r \in DOMAIN m.rows : m.rows[r] = content[r]
      BY <1>1, <1>2, PushSent
    <2>2. push.at = "lines" /\ perPane' = [perPane EXCEPT !.cursor = push.cursor]
      BY <1>2 DEF SendPush
    <2>3. perPane'.seqno = perPane.seqno
      BY <1>1, <2>2 DEF Types
    <2>4. \A r \in Rows : Owed(r) => Owed(r)' \/ Mentions(m, r)
      BY <1>1, <2>1, <2>2, <2>3 DEF Owed, Mentions
    <2> QED  BY <1>1, <2>1, <2>4, ServerOwes DEF LineMessages
  <1>3. CASE ServeFetch
    <2>1. PICK m \in FetchReplies :
              /\ updates' = Append(updates, m)
              /\ \A r \in DOMAIN m.rows : m.rows[r] = content[r]
      BY <1>1, <1>3, ReplySent
    <2>2. UNCHANGED <<push, perPane>>
      BY <1>3 DEF ServeFetch
    <2>3. \A r \in Rows : Owed(r) => Owed(r)'
      BY <1>1, <2>2 DEF Owed
    <2> QED  BY <1>1, <2>1, <2>3, ServerOwes DEF LineMessages
  <1> QED  BY <1>2, <1>3

\* Debts are kept when a message is applied as it comes to the main thread.
LEMMA ArriveOwes ==
    ASSUME RowsAssumption, LinesBoundsAssumption, LinesInv, Debts, NEW i \in DOMAIN updates, Arrive(i)
    PROVE  Debts'
  <1>1. /\ Types /\ Versioned /\ i \in Arriving
        /\ updates' = RemoveAt(updates, i) /\ Apply(updates[i])
        /\ UNCHANGED <<content, perPane, due, push, awaiting>>
    BY DEF LinesInv, Arrive, terminal
  <1>2. /\ updates[i] \in LineMessages /\ updates[i] \in InFlight /\ InFlight' \subseteq InFlight
    <2>1. /\ updates[i] \in LineMessages /\ updates[i] \in Range(updates)
          /\ Range(updates') \subseteq Range(updates)
      BY <1>1, Taken
    <2> QED  BY <1>1, <2>1 DEF InFlight
  <1>3. \A r \in Rows : Owed(r) => Owed(r)'
    BY <1>1 DEF Owed
  <1>4. i = 1 \/ updates[i].kind # "push"
    BY <1>1 DEF Arriving
  <1>5. /\ PushesOwed'
        /\ \A r : After(0, r) => After(0, r)' \/ Mentions(updates[i], r)
        /\ \A r : After(i, r) => After(0, r)'
    BY <1>1, <1>3, <1>4, Shifted
  <1>6. CASE updates[i].kind = "push"
    <2>1. i = 1 /\ updates[i] \in Pushes /\ ApplyPush(updates[i])
      BY <1>1, <1>2, <1>4, <1>6, MessageIs DEF Apply
    <2> QED  BY <1>1, <1>2, <1>3, <1>5, <2>1, PushApplied
  <1>7. CASE updates[i].kind # "push"
    <2>1. updates[i] \in FetchReplies /\ updates[i].kind = "reply" /\ ApplyLines(updates[i])
      BY <1>1, <1>2, <1>7, MessageIs DEF Apply
    <2>2. \A r : After(0, r) => After(0, r)'
      BY <1>5, <1>7 DEF Mentions
    <2> QED  BY <1>1, <1>2, <1>3, <1>5, <2>1, <2>2, ReplyApplied
  <1> QED  BY <1>6, <1>7

\* Debts are kept when a reply must wait for images; a push need not.
LEMMA AwaitImagesOwes ==
    ASSUME RowsAssumption, LinesBoundsAssumption, NoImagesInView, LinesInv, Debts,
           NEW i \in DOMAIN updates, AwaitImages(i)
    PROVE  Debts'
  <1>1. /\ Types /\ updates' = RemoveAt(updates, i) /\ awaiting' = awaiting \cup {updates[i]}
        /\ DOMAIN updates[i].rows \cap ImageRows # {}
        /\ UNCHANGED <<content, perPane, due, push, lines>>
    BY DEF LinesInv, AwaitImages, terminal, pane
  <1>2. /\ updates[i] \in LineMessages /\ updates[i] \in Range(updates)
        /\ Range(updates') \subseteq Range(updates)
        /\ \A x \in Range(updates) : x # updates[i] => x \in Range(updates')
    BY <1>1, Taken
  <1>3. InFlight' = InFlight
    BY <1>1, <1>2 DEF InFlight
  <1>4. updates[i].kind # "push"
    <2>1. SUFFICES ASSUME updates[i].kind = "push" PROVE FALSE
      OBVIOUS
    <2>2. updates[i].rows \in Shown(Viewport)
      BY <1>2, <2>1, MessageIs DEF Pushes
    <2>3. DOMAIN updates[i].rows \subseteq Viewport
      BY <2>2, ShownIs
    <2> QED  BY <1>1, <2>3 DEF NoImagesInView
  <1>5. \A r \in Rows : Owed(r) => Owed(r)'
    BY <1>1 DEF Owed
  <1>6. PushesOwed' /\ \A r : After(0, r) => After(0, r)' \/ Mentions(updates[i], r)
    BY <1>1, <1>4, <1>5, Shifted
  <1>7. \A r : After(0, r) => After(0, r)'
    BY <1>4, <1>6 DEF Mentions
  <1>8. NoPushWaits' /\ LinesOwed'
    BY <1>1, <1>4, <1>5, <1>7 DEF Debts, NoPushWaits, LinesOwed
  <1>9. RepliesOwed'
    BY <1>1, <1>3, <1>5, <1>7 DEF Debts, RepliesOwed, IsFetched
  <1> QED  BY <1>6, <1>8, <1>9 DEF Debts

\* Debts are kept when the images of a reply are there.
LEMMA ImagesArriveOwes ==
    ASSUME RowsAssumption, LinesBoundsAssumption, LinesInv, Debts, ImagesArrive
    PROVE  Debts'
  <1>1. PICK m \in awaiting :
          /\ awaiting' = awaiting \ {m} /\ Apply(m)
          /\ UNCHANGED <<content, perPane, due, push, updates>>
    BY DEF ImagesArrive, terminal
  <1>2. Types /\ Versioned /\ m \in InFlight /\ m \in LineMessages /\ InFlight' \subseteq InFlight
    BY <1>1 DEF LinesInv, Types, InFlight
  <1>3. m \in FetchReplies /\ m.kind = "reply" /\ ApplyLines(m)
    BY <1>1, <1>2, MessageIs DEF Debts, NoPushWaits, Apply
  <1>4. \A r \in Rows : Owed(r) => Owed(r)'
    BY <1>1 DEF Owed
  <1>5. \A i, r : After(i, r) => After(i, r)'
    BY <1>1 DEF After, Mentions
  <1>6. PushesOwed'
    BY <1>1, <1>4, <1>5 DEF Debts, PushesOwed
  <1> QED  BY <1>1, <1>2, <1>3, <1>4, <1>5, <1>6, ReplyApplied

\* Debts are kept when rows are painted or made stale.
LEMMA PaintOwes ==
    ASSUME RowsAssumption, LinesBoundsAssumption, LinesInv, Debts, Repaint \/ Scroll \/ MakeAllStale
    PROVE  Debts'
  <1>1. /\ Types /\ UNCHANGED <<content, perPane, push, updates, awaiting>> /\ due' \in {due, TRUE}
    BY DEF LinesInv, Repaint, Scroll, MakeAllStale, terminal, wires
  <1>2. \A r \in Rows : Owed(r) => Owed(r)'
    BY <1>1 DEF Owed
  <1>3. \A r \in Rows :
           \/ lines'[r] = lines[r]
           \/ lines'[r].kind \in {"none", "stale"}
           \/ IsFetched(lines'[r]) /\ lines'[r].since = Now
    <2>1. CASE Repaint \/ Scroll
      <3>1. PICK seen \in SUBSET Rows : GetLines(seen)
        BY <2>1, Numbers DEF Repaint, Scroll
      <3>2. PICK rows \in SUBSET Rows : \A r \in Rows : PaintedTo(rows, r)
        BY <1>1, <3>1, PaintIs
      <3> QED  BY <3>2 DEF PaintedTo
    <2>2. CASE MakeAllStale
      BY <2>2, Made DEF MakeAllStale
    <2> QED  BY <2>1, <2>2
  <1> QED  BY <1>1, <1>2, <1>3, OnlyOlder

\* Debts are kept by every step.
LEMMA OwesAlways ==
    ASSUME RowsAssumption, LinesBoundsAssumption, NoImagesInView, LinesInv, Debts, [LinesNext]_lineVars
    PROVE  Debts'
  <1>1. CASE UNCHANGED lineVars
    <2>1. Types /\ UNCHANGED <<content, perPane, due, push, updates, awaiting, lines>>
      BY <1>1 DEF LinesInv, lineVars, terminal, wires, pane
    <2>2. \A r \in Rows : Owed(r) => Owed(r)'
      BY <2>1 DEF Owed
    <2> QED  BY <2>1, <2>2, OnlyOlder
  <1>2. CASE \E r \in Rows : Write(r)
    BY <1>2, WriteOwes
  <1>3. CASE PaneServer
    BY <1>3, PushOwes, SendOwes DEF PaneServer
  <1>4. CASE (\E i \in DOMAIN updates : MainThread(i)) \/ ImagesArrive
    BY <1>4, ArriveOwes, AwaitImagesOwes, ImagesArriveOwes DEF MainThread
  <1>5. CASE Repaint \/ Scroll \/ MakeAllStale
    BY <1>5, PaintOwes
  <1> QED  BY <1>1, <1>2, <1>3, <1>4, <1>5 DEF LinesNext

\* CacheIsTrue: what the cache says of a row is true, that it is being
\* fetched (LineEntry::Fetching) and, once nothing is on its way between the
\* terminal and the cache, that it is up to date with the server
\* (LineEntry::Line), in whatever order output, pushes, fetches and repaints
\* went, while the terminal is written within compute_changes and replies
\* overtake pushes.
THEOREM CacheTellsTheTruth ==
    ASSUME RowsAssumption, LinesBoundsAssumption, NoImagesInView
    PROVE  LinesSpec => []CacheIsTrue
  <1>1. LinesInit => LinesInv /\ Debts
    <2>1. LinesInit => LinesInv
      BY LinesInitially
    <2>2. LinesInit => InFlight = {} /\ DOMAIN updates = {}
      BY DEF LinesInit, InFlight, Range
    <2>3. LinesInit => Debts
      BY <2>2
         DEF LinesInit, Debts, NoPushWaits, LinesOwed, PushesOwed, RepliesOwed, Absent
    <2> QED  BY <2>1, <2>3
  <1>2. LinesInv /\ Debts /\ [LinesNext]_lineVars => (LinesInv /\ Debts)'
    BY LinesAlways, OwesAlways
  <1>3. LinesInv /\ Debts => CacheIsTrue
    <2>1. SUFFICES ASSUME LinesInv, Debts, Quiet, NEW r \in Rows, lines[r].kind = "line"
                   PROVE  lines[r].row = content[r]
      BY DEF LinesInv, CacheIsTrue, CachedLinesAreUpToDate
    <2>2. ~ Owed(r)
      BY <2>1 DEF Quiet, Owed, Idle
    <2>3. ~ After(0, r)
      BY <2>1 DEF Quiet, InFlight, Range, After
    <2> QED  BY <2>1, <2>2, <2>3 DEF Debts, LinesOwed
  <1> QED  BY <1>1, <1>2, <1>3, PTL DEF LinesSpec

-----------------------------------------------------------------------------
(***************************************************************************)
(* RangeSet for any integers: the vector of ranges stands for exactly the  *)
(* integers of the calls, whatever ranges overlap, touch or were pushed    *)
(* out of order.                                                           *)
(*                                                                         *)
(* Where the search of a vector ends does not matter for that, only that   *)
(* it ends at a position of the vector (SearchIs): a range is merged only  *)
(* with one that it meets, and goes in between at any place otherwise.     *)
(* Every operation is a walk along a vector.  That the function which      *)
(* describes the walk exists is Chain; what holds all along it follows by  *)
(* induction on the position, UpTo.                                        *)
(***************************************************************************)

LEMMA UpTo ==
  ASSUME NEW n \in Nat, NEW S, 0 \in S, \A i \in 1 .. n : i - 1 \in S => i \in S
  PROVE  \A i \in 0 .. n : i \in S
  <1>. DEFINE R == OpToRel(<, Nat)
              T == {i \in 0 .. n : i \notin S}
  <1>1. IsWellFoundedOn(R, Nat)
    BY NatLessThanWellFounded
  <1>2. \A i, j \in Nat : <<i, j>> \in R <=> i < j
    BY DEF OpToRel
  <1>. HIDE DEF R
  <1>3. SUFFICES ASSUME T # {} PROVE FALSE
    OBVIOUS
  <1>4. PICK i \in T : \A j \in T : ~ (<<j, i>> \in R)
    <2>1. T \in SUBSET Nat
      OBVIOUS
    <2>. HIDE DEF T
    <2>. QED  BY <1>1, <1>3, <2>1, WFMin
  <1>5. i \in 1 .. n /\ i - 1 \in 0 .. n /\ i \notin S
    BY <1>4
  <1>6. <<i - 1, i>> \in R
    BY <1>2, <1>5
  <1>7. i - 1 \notin T
    BY <1>4, <1>6
  <1>. QED  BY <1>5, <1>7

(* A function defined from its value before exists, if each of its values  *)
(* is in a set T and the step from one to the next stays in T.             *)
Chained(T, L, x, F) ==
    \E f \in [0 .. L -> T] : f[0] = x /\ \A n \in 1 .. L : f[n] = F[n][f[n - 1]]

LEMMA Chain ==
  ASSUME NEW T, NEW L \in Nat, NEW x \in T, NEW F \in [1 .. L -> [T -> T]]
  PROVE  Chained(T, L, x, F)
  <1>. DEFINE Is(f, k) == f[0] = x /\ \A n \in 1 .. k : f[n] = F[n][f[n - 1]]
              P == {k \in 0 .. L : \E f \in [0 .. k -> T] : Is(f, k)}
  <1>1. 0 \in P
    <2>. DEFINE f == [n \in 0 .. 0 |-> x]
    <2>1. f \in [0 .. 0 -> T] /\ Is(f, 0)
      OBVIOUS
    <2>2. 0 \in 0 .. L
      OBVIOUS
    <2>. HIDE DEF Is, f
    <2>. QED  BY <2>1, <2>2
  <1>2. ASSUME NEW k \in 1 .. L, k - 1 \in P PROVE k \in P
    <2>1. PICK f \in [0 .. k - 1 -> T] : Is(f, k - 1)
      BY <1>2
    <2>. DEFINE g == [n \in 0 .. k |-> IF n = k THEN F[k][f[k - 1]] ELSE f[n]]
    <2>2. k - 1 \in 0 .. k - 1 /\ F[k][f[k - 1]] \in T
      OBVIOUS
    <2>3. g \in [0 .. k -> T]
      BY <2>2
    <2>4. g[0] = x
      BY <2>1
    <2>5. ASSUME NEW n \in 1 .. k PROVE g[n] = F[n][g[n - 1]]
      <3>1. g[n - 1] = f[n - 1]
        OBVIOUS
      <3>2. CASE n = k
        BY <3>1, <3>2
      <3>3. CASE n # k
        BY <2>1, <3>1, <3>3
      <3>. QED  BY <3>2, <3>3
    <2>. HIDE DEF g
    <2>. QED  BY <2>3, <2>4, <2>5
  <1>3. \A i \in 0 .. L : i \in P
    <2>. HIDE DEF P
    <2>1. \A i \in 1 .. L : i - 1 \in P => i \in P
      BY <1>2
    <2>. QED  BY <1>1, <2>1, UpTo
  <1>. QED  BY <1>3 DEF Chained

(* What is in a vector of ranges. *)
Vectors == Seq(Ranges)
RangeSets == [ranges : Vectors, needsSort : BOOLEAN]

LEMMA RangeMeans ==
  ASSUME NEW r \in Ranges
  PROVE  /\ r = <<r[1], r[2]>> /\ r[1] \in 0 .. MaxValue /\ r[2] \in 0 .. MaxValue
         /\ r[1] < r[2]
         /\ \A x : x \in Span(r) <=> x \in Int /\ r[1] <= x /\ x < r[2]
  BY ValuesAssumption DEF Ranges, Span

LEMMA IsRange ==
  ASSUME NEW a \in 0 .. MaxValue, NEW b \in 0 .. MaxValue, a < b
  PROVE  <<a, b>> \in Ranges
  BY DEF Ranges

LEMMA InValues ==
  ASSUME NEW v
  PROVE  \A x : x \in Values(v) <=> \E i \in DOMAIN v : x \in Span(v[i])
  BY DEF Values, Range

LEMMA NoValues == << >> \in Vectors /\ Values(<< >>) = {}
  BY DEF Values, Range, Vectors

LEMMA UnionIs ==
  ASSUME NEW r \in Ranges, NEW s \in Ranges, Meets(r, s)
  PROVE  /\ Union(s, r) \in Ranges /\ Span(Union(s, r)) = Span(s) \cup Span(r)
         /\ Union(r, s) \in Ranges /\ Span(Union(r, s)) = Span(r) \cup Span(s)
  <1>. DEFINE a == Smaller(r[1], s[1])
              b == Larger(r[2], s[2])
  <1>1. a \in 0 .. MaxValue /\ b \in 0 .. MaxValue /\ a < b
    BY RangeMeans DEF Smaller, Larger
  <1>2. Union(s, r) = <<a, b>> /\ Union(r, s) = <<a, b>>
    BY RangeMeans DEF Union, Smaller, Larger
  <1>3. <<a, b>> \in Ranges
    BY <1>1, IsRange
  <1>4. \A x \in Int : a <= x /\ x < b <=> (r[1] <= x /\ x < r[2]) \/ (s[1] <= x /\ x < s[2])
    BY RangeMeans, ValuesAssumption DEF Meets, Intersects, Smaller, Larger
  <1>5. \A x : x \in Span(<<a, b>>) <=> x \in Int /\ a <= x /\ x < b
    BY <1>1, ValuesAssumption DEF Span
  <1>. HIDE DEF a, b
  <1>6. Span(<<a, b>>) = Span(r) \cup Span(s)
    BY <1>4, <1>5, RangeMeans
  <1>. QED  BY <1>2, <1>3, <1>6

LEMMA IntersectionIs ==
  ASSUME NEW r \in Ranges, NEW s \in Ranges
  PROVE  /\ Intersects(r, s) => Intersection(r, s) \in Ranges
                                /\ Span(Intersection(r, s)) = Span(r) \cap Span(s)
         /\ ~ Intersects(r, s) => Span(r) \cap Span(s) = {}
  <1>. DEFINE a == Larger(r[1], s[1])
              b == Smaller(r[2], s[2])
  <1>1. a \in 0 .. MaxValue /\ b \in 0 .. MaxValue
    BY RangeMeans DEF Smaller, Larger
  <1>2. \A x \in Int : a <= x /\ x < b <=> (r[1] <= x /\ x < r[2]) /\ (s[1] <= x /\ x < s[2])
    BY RangeMeans, ValuesAssumption DEF Smaller, Larger
  <1>3. Intersection(r, s) = <<a, b>> /\ (Intersects(r, s) <=> b > a)
    BY DEF Intersection, Intersects
  <1>4. \A x : x \in Span(<<a, b>>) <=> x \in Int /\ a <= x /\ x < b
    BY <1>1, ValuesAssumption DEF Span
  <1>. HIDE DEF a, b
  <1>5. Span(<<a, b>>) = Span(r) \cap Span(s)
    BY <1>2, <1>4, RangeMeans
  <1>6. b > a => <<a, b>> \in Ranges
    BY <1>1, IsRange, ValuesAssumption
  <1>7. ~ (b > a) => Span(<<a, b>>) = {}
    BY <1>1, <1>4, ValuesAssumption
  <1>. QED  BY <1>3, <1>5, <1>6, <1>7

(* w is v with r put at position i.                                        *)
HasAt(w, S, v, i, r) ==
    /\ w \in Seq(S) /\ Len(w) = Len(v) + 1
    /\ \A j \in 1 .. Len(v) + 1 : w[j] = IF j < i THEN v[j] ELSE IF j = i THEN r ELSE v[j - 1]

LEMMA InsertedAt ==
  ASSUME NEW S, NEW v \in Seq(S), NEW i \in 1 .. Len(v) + 1, NEW r \in S
  PROVE  HasAt(InsertAt(v, i, r), S, v, i, r)
  <1>. DEFINE w == InsertAt(v, i, r)
              before == SubSeq(v, 1, i - 1)
              after == SubSeq(v, i, Len(v))
              front == before \o <<r>>
  <1>1. Len(v) \in Nat
    OBVIOUS
  <1>2. /\ before \in Seq(S) /\ Len(before) = i - 1
        /\ \A j \in 1 .. i - 1 : before[j] = v[j]
    BY <1>1
  <1>3. /\ after \in Seq(S) /\ Len(after) = Len(v) - i + 1
        /\ \A j \in 1 .. Len(v) - i + 1 : after[j] = v[i + j - 1]
    BY <1>1
  <1>. HIDE DEF before, after
  <1>4. /\ front \in Seq(S) /\ Len(front) = i /\ front[i] = r
        /\ \A j \in 1 .. i - 1 : front[j] = v[j]
    BY <1>2
  <1>5. w = front \o after
    BY DEF InsertAt, before, after
  <1>. HIDE DEF front, w
  <1>6. /\ w \in Seq(S) /\ Len(w) = Len(front) + Len(after)
        /\ \A j \in 1 .. Len(front) + Len(after) :
              w[j] = IF j <= Len(front) THEN front[j] ELSE after[j - Len(front)]
    BY <1>3, <1>4, <1>5, ConcatProperties, Zenon
  <1>7. Len(front) = i /\ Len(front) + Len(after) = Len(v) + 1
    BY <1>1, <1>3, <1>4
  <1>8. ASSUME NEW j \in 1 .. Len(v) + 1
        PROVE  w[j] = IF j < i THEN v[j] ELSE IF j = i THEN r ELSE v[j - 1]
    <2>1. CASE j <= i
      BY <1>4, <1>6, <1>7, <2>1
    <2>2. CASE j > i
      <3>1. j - i \in 1 .. Len(v) - i + 1 /\ i + (j - i) - 1 = j - 1
        BY <1>1, <2>2
      <3>2. w[j] = after[j - i]
        BY <1>6, <1>7, <2>2
      <3>. QED  BY <1>3, <2>2, <3>1, <3>2
    <2>. QED  BY <2>1, <2>2
  <1>. QED  BY <1>6, <1>7, <1>8 DEF w, HasAt

LEMMA ValuesInsert ==
  ASSUME NEW v \in Vectors, NEW i \in 1 .. Len(v) + 1, NEW r \in Ranges
  PROVE  InsertAt(v, i, r) \in Vectors /\ Values(InsertAt(v, i, r)) = Values(v) \cup Span(r)
  <1>. DEFINE w == InsertAt(v, i, r)
  <1>1. /\ w \in Seq(Ranges) /\ Len(w) = Len(v) + 1 /\ w[i] = r
        /\ \A j \in 1 .. i - 1 : w[j] = v[j]
        /\ \A j \in i .. Len(v) : w[j + 1] = v[j]
    <2>1. v \in Seq(Ranges) /\ Len(v) \in Nat
      BY DEF Vectors
    <2>2. HasAt(w, Ranges, v, i, r)
      BY <2>1, InsertedAt
    <2>. QED  BY <2>1, <2>2 DEF HasAt
  <1>2. ASSUME NEW j \in 1 .. Len(v) + 1, j > i
        PROVE  j - 1 \in i .. Len(v) /\ w[j] = v[j - 1]
    BY <1>1, <1>2 DEF Vectors
  <1>3. DOMAIN v = 1 .. Len(v) /\ DOMAIN w = 1 .. Len(v) + 1 /\ Len(v) \in Nat
    BY <1>1 DEF Vectors
  <1>. HIDE DEF w
  <1>4. ASSUME NEW x PROVE x \in Values(w) <=> x \in Values(v) \/ x \in Span(r)
    <2>1. ASSUME NEW j \in DOMAIN w, x \in Span(w[j]) PROVE x \in Values(v) \/ x \in Span(r)
      BY <1>1, <1>2, <1>3, <2>1, InValues
    <2>2. ASSUME NEW j \in DOMAIN v, x \in Span(v[j]) PROVE x \in Values(w)
      <3>1. j \in 1 .. i - 1 \/ j \in i .. Len(v)
        BY <1>3
      <3>. QED  BY <1>1, <1>3, <2>2, <3>1, InValues
    <2>3. x \in Span(r) => x \in Values(w)
      BY <1>1, <1>3, InValues
    <2>. QED  BY <2>1, <2>2, <2>3, InValues
  <1>. QED  BY <1>1, <1>4 DEF Vectors, w

LEMMA ValuesRemove ==
  ASSUME NEW v \in Vectors, NEW i \in 1 .. Len(v)
  PROVE  /\ RemoveAt(v, i) \in Vectors /\ Len(RemoveAt(v, i)) = Len(v) - 1
         /\ Values(RemoveAt(v, i)) \cup Span(v[i]) = Values(v)
  <1>. DEFINE w == RemoveAt(v, i)
  <1>1. /\ w \in Seq(Ranges) /\ Len(w) = Len(v) - 1
        /\ \A j \in 1 .. i - 1 : w[j] = v[j]
        /\ \A j \in i .. Len(v) - 1 : w[j] = v[j + 1]
    <2>1. v \in Seq(Ranges) /\ Len(v) \in Nat
      BY DEF Vectors
    <2>2. /\ w \in Seq(Ranges) /\ Len(w) = Len(v) - 1
          /\ \A j \in 1 .. Len(v) - 1 : w[j] = IF j < i THEN v[j] ELSE v[j + 1]
      BY <2>1, RemovedAt, Zenon
    <2>. HIDE DEF w
    <2>. QED  BY <2>1, <2>2
  <1>3. DOMAIN v = 1 .. Len(v) /\ DOMAIN w = 1 .. Len(v) - 1 /\ Len(v) \in Nat
    BY <1>1 DEF Vectors
  <1>. HIDE DEF w
  <1>4. ASSUME NEW x PROVE x \in Values(v) <=> x \in Values(w) \/ x \in Span(v[i])
    <2>1. ASSUME NEW j \in DOMAIN w, x \in Span(w[j]) PROVE x \in Values(v)
      <3>1. j \in 1 .. i - 1 \/ j \in i .. Len(v) - 1
        BY <1>3
      <3>. QED  BY <1>1, <1>3, <2>1, <3>1, InValues
    <2>2. ASSUME NEW j \in DOMAIN v, x \in Span(v[j]) PROVE x \in Values(w) \/ x \in Span(v[i])
      <3>1. j \in 1 .. i - 1 \/ j = i \/ j - 1 \in i .. Len(v) - 1
        BY <1>3
      <3>2. j - 1 \in i .. Len(v) - 1 => w[j - 1] = v[j]
        BY <1>1, <1>3
      <3>. QED  BY <1>1, <1>3, <2>2, <3>1, <3>2, InValues
    <2>3. x \in Span(v[i]) => x \in Values(v)
      BY <1>3, InValues
    <2>. QED  BY <2>1, <2>2, <2>3, InValues
  <1>. QED  BY <1>1, <1>4 DEF Vectors, w

LEMMA ValuesReplace ==
  ASSUME NEW v \in Vectors, NEW i \in 1 .. Len(v), NEW r \in Ranges, NEW M,
         Span(r) = Span(v[i]) \cup M
  PROVE  ReplaceAt(v, i, r) \in Vectors /\ Values(ReplaceAt(v, i, r)) = Values(v) \cup M
  <1>. DEFINE w == ReplaceAt(v, i, r)
  <1>1. /\ w \in Seq(Ranges) /\ Len(w) = Len(v) /\ DOMAIN w = 1 .. Len(v) /\ DOMAIN v = 1 .. Len(v)
        /\ \A j \in 1 .. Len(v) : w[j] = IF j = i THEN r ELSE v[j]
    BY DEF ReplaceAt, Vectors
  <1>. HIDE DEF w
  <1>2. ASSUME NEW x PROVE x \in Values(w) <=> x \in Values(v) \/ x \in M
    BY <1>1, InValues
  <1>. QED  BY <1>1, <1>2 DEF Vectors, w

LEMMA ValuesAppend ==
  ASSUME NEW v \in Vectors, NEW r \in Ranges
  PROVE  Append(v, r) \in Vectors /\ Values(Append(v, r)) = Values(v) \cup Span(r)
  <1>. DEFINE w == Append(v, r)
  <1>1. /\ w \in Seq(Ranges) /\ DOMAIN w = 1 .. Len(v) + 1 /\ DOMAIN v = 1 .. Len(v)
        /\ w[Len(v) + 1] = r /\ Len(v) \in Nat
        /\ \A j \in 1 .. Len(v) : w[j] = v[j]
    BY DEF Vectors
  <1>. HIDE DEF w
  <1>2. \A j \in 1 .. Len(v) + 1 : j \in 1 .. Len(v) \/ j = Len(v) + 1
    BY <1>1
  <1>3. \A j \in 1 .. Len(v) : j \in DOMAIN w
    BY <1>1
  <1>4. ASSUME NEW x PROVE x \in Values(w) <=> x \in Values(v) \/ x \in Span(r)
    <2>1. Len(v) + 1 \in DOMAIN w
      BY <1>1
    <2>. QED  BY <1>1, <1>2, <1>3, <2>1, InValues
  <1>. QED  BY <1>1, <1>4 DEF Vectors, w

LEMMA ValuesConcat ==
  ASSUME NEW v \in Vectors, NEW u \in Vectors
  PROVE  v \o u \in Vectors /\ Values(v \o u) = Values(v) \cup Values(u)
  <1>. DEFINE w == v \o u
  <1>1. /\ w \in Seq(Ranges) /\ DOMAIN w = 1 .. Len(v) + Len(u)
        /\ DOMAIN v = 1 .. Len(v) /\ DOMAIN u = 1 .. Len(u)
        /\ Len(v) \in Nat /\ Len(u) \in Nat
        /\ \A j \in 1 .. Len(v) : w[j] = v[j]
        /\ \A j \in 1 .. Len(u) : w[Len(v) + j] = u[j]
    BY DEF Vectors
  <1>. HIDE DEF w
  <1>4. ASSUME NEW x PROVE x \in Values(w) <=> x \in Values(v) \/ x \in Values(u)
    <2>1. ASSUME NEW j \in DOMAIN w, x \in Span(w[j]) PROVE x \in Values(v) \/ x \in Values(u)
      <3>1. j \in 1 .. Len(v) \/ (j - Len(v) \in 1 .. Len(u) /\ w[j] = u[j - Len(v)])
        <4>1. CASE j <= Len(v)
          BY <1>1, <4>1
        <4>2. CASE j > Len(v)
          <5>. DEFINE k == j - Len(v)
          <5>1. k \in 1 .. Len(u) /\ j = Len(v) + k
            BY <1>1, <4>2
          <5>. QED  BY <1>1, <5>1
        <4>. QED  BY <1>1, <4>1, <4>2
      <3>. QED  BY <1>1, <2>1, <3>1, InValues
    <2>2. ASSUME NEW j \in DOMAIN v, x \in Span(v[j]) PROVE x \in Values(w)
      BY <1>1, <2>2, InValues
    <2>3. ASSUME NEW j \in DOMAIN u, x \in Span(u[j]) PROVE x \in Values(w)
      <3>1. Len(v) + j \in DOMAIN w
        BY <1>1
      <3>. QED  BY <1>1, <2>3, <3>1, InValues
    <2>. QED  BY <2>1, <2>2, <2>3, InValues
  <1>. QED  BY <1>1, <1>4 DEF Vectors, w

LEMMA OneValue ==
  ASSUME NEW r \in Ranges
  PROVE  <<r>> \in Vectors /\ Values(<<r>>) = Span(r)
  <1>1. DOMAIN <<r>> = {1} /\ <<r>>[1] = r /\ <<r>> \in Seq(Ranges)
    OBVIOUS
  <1>2. \A x : x \in Values(<<r>>) <=> x \in Span(r)
    BY <1>1, InValues
  <1>. QED  BY <1>1, <1>2 DEF Vectors

(* What is left of a range is what is not in the other.                    *)
LEMMA RestIs ==
  ASSUME NEW r \in Ranges, NEW s \in Ranges
  PROVE  Rest(r, s) \in Vectors /\ Values(Rest(r, s)) = Span(r) \ Span(s)
  <1>1. CASE ~ Intersects(r, s)
    BY <1>1, OneValue, IntersectionIs DEF Rest, Subtract
  <1>2. CASE Intersects(r, s)
    <2>. DEFINE a == Larger(r[1], s[1])
                b == Smaller(r[2], s[2])
                left == IF a = r[1] THEN << >> ELSE <<<<r[1], a>>>>
                right == IF b = r[2] THEN << >> ELSE <<<<b, r[2]>>>>
    <2>1. Rest(r, s) = left \o right
      BY <1>2 DEF Rest, Subtract, Intersection
    <2>2. /\ a \in 0 .. MaxValue /\ b \in 0 .. MaxValue /\ a < b /\ r[1] <= a /\ b <= r[2]
          /\ a = r[1] \/ a = s[1]
          /\ b = r[2] \/ b = s[2]
          /\ s[1] <= a /\ b <= s[2]
      BY <1>2, RangeMeans, ValuesAssumption DEF Intersects, Larger, Smaller
    <2>. HIDE DEF a, b
    <2>3. left \in Vectors /\ \A x : x \in Values(left) <=> x \in Int /\ r[1] <= x /\ x < a
      <3>1. CASE a = r[1]
        BY <3>1, NoValues, RangeMeans, ValuesAssumption
      <3>2. CASE a # r[1]
        <4>1. <<r[1], a>> \in Ranges
          BY <2>2, <3>2, IsRange, RangeMeans, ValuesAssumption
        <4>2. \A x : x \in Span(<<r[1], a>>) <=> x \in Int /\ r[1] <= x /\ x < a
          BY <4>1, RangeMeans
        <4>. QED  BY <3>2, <4>1, <4>2, OneValue
      <3>. QED  BY <3>1, <3>2
    <2>4. right \in Vectors /\ \A x : x \in Values(right) <=> x \in Int /\ b <= x /\ x < r[2]
      <3>1. CASE b = r[2]
        BY <3>1, NoValues, RangeMeans, ValuesAssumption
      <3>2. CASE b # r[2]
        <4>1. <<b, r[2]>> \in Ranges
          BY <2>2, <3>2, IsRange, RangeMeans, ValuesAssumption
        <4>2. \A x : x \in Span(<<b, r[2]>>) <=> x \in Int /\ b <= x /\ x < r[2]
          BY <4>1, RangeMeans
        <4>. QED  BY <3>2, <4>1, <4>2, OneValue
      <3>. QED  BY <3>1, <3>2
    <2>. HIDE DEF left, right
    <2>5. Rest(r, s) \in Vectors /\ Values(Rest(r, s)) = Values(left) \cup Values(right)
      BY <2>1, <2>3, <2>4, ValuesConcat
    <2>6. \A x \in Int : (r[1] <= x /\ x < a) \/ (b <= x /\ x < r[2])
                        <=> (r[1] <= x /\ x < r[2]) /\ ~ (s[1] <= x /\ x < s[2])
      BY <2>2, RangeMeans, ValuesAssumption
    <2>7. \A x : x \in Values(Rest(r, s)) <=> x \in Span(r) /\ x \notin Span(s)
      BY <2>3, <2>4, <2>5, <2>6, RangeMeans
    <2>. QED  BY <2>5, <2>7
  <1>. QED  BY <1>1, <1>2

(* The search ends at a position of the vector.                            *)
LEMMA SearchIs ==
  ASSUME NEW v \in Vectors, v # << >>, NEW s \in Ranges
  PROVE  Search(v, s) \in 0 .. Len(v) - 1
  <1>. DEFINE L == Len(v)
              T == {p \in [base : 0 .. L, size : 1 .. L] : p.base + p.size <= L}
              x == [base |-> 0, size |-> L]
              Body(f, n) == IF n = 0 THEN x ELSE Halved(v, s, f[n - 1])
              Is(f) == f = [n \in 0 .. L |-> Body(f, n)]
  <1>1. L \in Nat \ {0} /\ x \in T
    BY DEF Vectors
  <1>2. ASSUME NEW p \in T PROVE Halved(v, s, p) \in T
    <2>. DEFINE half == p.size \div 2
                rest == p.size - half
    <2>1. half \in Nat /\ rest \in 1 .. L /\ half + rest = p.size /\ half <= p.size
      BY <1>1
    <2>. HIDE DEF half, rest
    <2>2. [base |-> p.base, size |-> rest] \in T /\ [base |-> p.base + half, size |-> rest] \in T
      BY <1>1, <2>1
    <2>3. \/ Halved(v, s, p) = p
          \/ Halved(v, s, p) = [base |-> p.base, size |-> rest]
          \/ Halved(v, s, p) = [base |-> p.base + half, size |-> rest]
      BY DEF Halved, half, rest
    <2>. QED  BY <2>2, <2>3
  <1>. HIDE DEF T, x
  <1>3. \E f : Is(f)
    <2>. DEFINE F == [n \in 1 .. L |-> [p \in T |-> Halved(v, s, p)]]
    <2>1. F \in [1 .. L -> [T -> T]]
      BY <1>2
    <2>2. PICK f \in [0 .. L -> T] : f[0] = x /\ \A n \in 1 .. L : f[n] = F[n][f[n - 1]]
      <3>1. L \in Nat /\ x \in T
        BY <1>1
      <3>. HIDE DEF F, L, Is, Body
      <3>2. Chained(T, L, x, F)
        BY <2>1, <3>1, Chain
      <3>. QED  BY <3>2 DEF Chained
    <2>3. ASSUME NEW n \in 0 .. L PROVE f[n] = Body(f, n)
      <3>1. n # 0 => n \in 1 .. L /\ f[n - 1] \in T
        BY <1>1
      <3>. QED  BY <2>2, <3>1
    <2>. HIDE DEF Body
    <2>. QED  BY <2>3
  <1>4. PICK g : Is(g) /\ Search(v, s) = g[L].base
    <2>1. Search(v, s) = (CHOOSE f : Is(f))[L].base
      BY DEF Search, x
    <2>2. Is(CHOOSE f : Is(f))
      <3>. HIDE DEF Is
      <3>. QED  BY <1>3
    <2>. HIDE DEF Is
    <2>. QED  BY <2>1, <2>2
  <1>5. \A n \in 0 .. L : g[n] \in T
    <2>. DEFINE S == {n \in 0 .. L : g[n] \in T}
    <2>1. \A n \in 0 .. L : g[n] = Body(g, n)
      <3>. HIDE DEF Body
      <3>. QED  BY <1>4
    <2>2. 0 \in S
      BY <1>1, <2>1
    <2>3. ASSUME NEW n \in 1 .. L, n - 1 \in S PROVE n \in S
      BY <1>2, <2>1, <2>3
    <2>. HIDE DEF S
    <2>4. \A n \in 0 .. L : n \in S
      BY <1>1, <2>2, <2>3, UpTo
    <2>. QED  BY <2>4 DEF S
  <1>6. g[L] \in T
    BY <1>1, <1>5
  <1>. QED  BY <1>1, <1>4, <1>6 DEF T

LEMMA FirstIs ==
  ASSUME NEW v \in Vectors, NEW s \in Ranges
  PROVE  First(v, s) \in Nat /\ BinarySearch(v, s).at \in 0 .. Len(v)
  <1>1. Len(v) \in Nat
    BY DEF Vectors
  <1>2. BinarySearch(v, s).at \in 0 .. Len(v)
    <2>1. CASE v = << >>
      BY <1>1, <2>1 DEF BinarySearch
    <2>2. CASE v # << >>
      BY <1>1, <2>2, SearchIs DEF BinarySearch
    <2>. QED  BY <2>1, <2>2
  <1>3. First(v, s) \in Nat
    BY <1>1, <1>2 DEF First, Larger
  <1>. QED  BY <1>2, <1>3

(* What is being added: a vector, and the range to be added to it.         *)
Adding == [ranges : Vectors, range : Ranges]
AllValues(adding) == Values(adding.ranges) \cup Span(adding.range)

LEMMA JoinedIs ==
  ASSUME NEW d \in Adding
  PROVE  Joined(d) \in Adding /\ AllValues(Joined(d)) = AllValues(d)
  <1>. DEFINE v == d.ranges
              s == d.range
              a == First(v, s)
              wide == Union(s, v[a + 2])
  <1>1. v \in Vectors /\ s \in Ranges /\ a \in Nat /\ Len(v) \in Nat
    BY FirstIs DEF Adding, Vectors
  <1>2. CASE /\ a + 1 < Len(v) /\ Meets(v[a + 1], s) /\ Meets(v[a + 2], s)
    <2>1. Joined(d) = [ranges |-> RemoveAt(v, a + 2), range |-> wide]
      BY <1>2 DEF Joined
    <2>2. a + 2 \in 1 .. Len(v) /\ v[a + 2] \in Ranges
      BY <1>1, <1>2 DEF Vectors
    <2>. HIDE DEF a, v, s
    <2>3. wide \in Ranges /\ Span(wide) = Span(s) \cup Span(v[a + 2])
      BY <1>1, <1>2, <2>2, UnionIs
    <2>4. RemoveAt(v, a + 2) \in Vectors
          /\ Values(RemoveAt(v, a + 2)) \cup Span(v[a + 2]) = Values(v)
      BY <1>1, <2>2, ValuesRemove
    <2>5. AllValues(d) = Values(v) \cup Span(s)
      BY DEF AllValues, v, s
    <2>. HIDE DEF wide
    <2>. QED  BY <2>1, <2>3, <2>4, <2>5 DEF AllValues, Adding
  <1>3. CASE ~ (/\ a + 1 < Len(v) /\ Meets(v[a + 1], s) /\ Meets(v[a + 2], s))
    BY <1>3 DEF Joined
  <1>. QED  BY <1>2, <1>3

LEMMA PlacedIs ==
  ASSUME NEW d \in Adding
  PROVE  Placed(d) \in Vectors /\ Values(Placed(d)) = AllValues(d)
  <1>. DEFINE v == d.ranges
              s == d.range
              a == First(v, s)
              at == BinarySearch(v, s).at
  <1>1. v \in Vectors /\ s \in Ranges /\ a \in Nat /\ at \in 0 .. Len(v) /\ Len(v) \in Nat
    BY FirstIs DEF Adding, Vectors
  <1>2. AllValues(d) = Values(v) \cup Span(s)
    BY DEF AllValues
  <1>3. CASE a < Len(v) /\ Meets(v[a + 1], s)
    <2>1. Placed(d) = ReplaceAt(v, a + 1, Union(v[a + 1], s))
      BY <1>3 DEF Placed
    <2>2. a + 1 \in 1 .. Len(v) /\ v[a + 1] \in Ranges
      BY <1>1, <1>3 DEF Vectors
    <2>. HIDE DEF a, v, s
    <2>3. Union(v[a + 1], s) \in Ranges /\ Span(Union(v[a + 1], s)) = Span(v[a + 1]) \cup Span(s)
      BY <1>1, <1>3, <2>2, UnionIs
    <2>. QED  BY <1>1, <1>2, <2>1, <2>2, <2>3, ValuesReplace
  <1>4. CASE ~ (a < Len(v) /\ Meets(v[a + 1], s))
    <2>1. Placed(d) = InsertAt(v, at + 1, s)
      BY <1>4 DEF Placed
    <2>2. at + 1 \in 1 .. Len(v) + 1
      BY <1>1
    <2>. HIDE DEF at, v, s
    <2>. QED  BY <1>1, <1>2, <2>1, <2>2, ValuesInsert
  <1>. QED  BY <1>3, <1>4

LEMMA AddRangeIs ==
  ASSUME NEW v \in Vectors, NEW s \in Ranges
  PROVE  AddRange(v, s) \in Vectors /\ Values(AddRange(v, s)) = Values(v) \cup Span(s)
  <1>. DEFINE L == Len(v)
              x == [ranges |-> v, range |-> s]
              T == {d \in Adding : AllValues(d) = Values(v) \cup Span(s)}
              Body(f, n) == IF n = 0 THEN x ELSE Joined(f[n - 1])
              Is(f) == f = [n \in 0 .. L |-> Body(f, n)]
  <1>1. L \in Nat /\ x \in T
    BY DEF Vectors, Adding, AllValues
  <1>2. ASSUME NEW d \in T PROVE Joined(d) \in T
    BY JoinedIs
  <1>. HIDE DEF T, x
  <1>3. \E f : Is(f)
    <2>. DEFINE F == [n \in 1 .. L |-> [d \in T |-> Joined(d)]]
    <2>1. F \in [1 .. L -> [T -> T]]
      BY <1>2
    <2>2. PICK f \in [0 .. L -> T] : f[0] = x /\ \A n \in 1 .. L : f[n] = F[n][f[n - 1]]
      <3>1. L \in Nat /\ x \in T
        BY <1>1
      <3>. HIDE DEF F, L, Is, Body
      <3>2. Chained(T, L, x, F)
        BY <2>1, <3>1, Chain
      <3>. QED  BY <3>2 DEF Chained
    <2>3. ASSUME NEW n \in 0 .. L PROVE f[n] = Body(f, n)
      <3>1. n # 0 => n \in 1 .. L /\ f[n - 1] \in T
        BY <1>1
      <3>. QED  BY <2>2, <3>1
    <2>. HIDE DEF Body
    <2>. QED  BY <2>3
  <1>4. PICK g : Is(g) /\ AddRange(v, s) = Placed(g[L])
    <2>1. AddRange(v, s) = Placed((CHOOSE f : Is(f))[L])
      BY DEF AddRange, x
    <2>2. Is(CHOOSE f : Is(f))
      <3>. HIDE DEF Is
      <3>. QED  BY <1>3
    <2>. HIDE DEF Is
    <2>. QED  BY <2>1, <2>2
  <1>5. \A n \in 0 .. L : g[n] \in T
    <2>. DEFINE S == {n \in 0 .. L : g[n] \in T}
    <2>1. \A n \in 0 .. L : g[n] = Body(g, n)
      <3>. HIDE DEF Body
      <3>. QED  BY <1>4
    <2>2. 0 \in S
      BY <1>1, <2>1
    <2>3. ASSUME NEW n \in 1 .. L, n - 1 \in S PROVE n \in S
      BY <1>2, <2>1, <2>3
    <2>. HIDE DEF S
    <2>4. \A n \in 0 .. L : n \in S
      BY <1>1, <2>2, <2>3, UpTo
    <2>. QED  BY <2>4 DEF S
  <1>6. g[L] \in Adding /\ AllValues(g[L]) = Values(v) \cup Span(s)
    BY <1>1, <1>5 DEF T
  <1>. QED  BY <1>4, <1>6, PlacedIs

(* The integers of the first n ranges of a vector.                         *)
FirstValues(v, n) == UNION {Span(v[i]) : i \in 1 .. n}

LEMMA FirstValuesIs ==
  ASSUME NEW v \in Vectors
  PROVE  /\ FirstValues(v, 0) = {} /\ FirstValues(v, Len(v)) = Values(v)
         /\ \A n \in 1 .. Len(v) : FirstValues(v, n) = FirstValues(v, n - 1) \cup Span(v[n])
  <1>1. Len(v) \in Nat /\ DOMAIN v = 1 .. Len(v)
    BY DEF Vectors
  <1>2. FirstValues(v, 0) = {}
    BY DEF FirstValues
  <1>3. FirstValues(v, Len(v)) = Values(v)
    BY <1>1, InValues DEF FirstValues
  <1>4. ASSUME NEW n \in 1 .. Len(v)
        PROVE  FirstValues(v, n) = FirstValues(v, n - 1) \cup Span(v[n])
    <2>1. \A i : i \in 1 .. n <=> i \in 1 .. n - 1 \/ i = n
      BY <1>1
    <2>. QED  BY <2>1 DEF FirstValues
  <1>. QED  BY <1>2, <1>3, <1>4

LEMMA InOrderIs ==
  ASSUME NEW v \in Vectors, NEW r \in Ranges
  PROVE  InOrder(v, r) \in Vectors /\ Values(InOrder(v, r)) = Values(v) \cup Span(r)
  <1>. DEFINE S == {i \in DOMAIN v : ~ LiesAfter(v[i], r)}
  <1>1. Len(v) \in Nat /\ DOMAIN v = 1 .. Len(v)
    BY DEF Vectors
  <1>2. Cardinality(S) \in 0 .. Len(v)
    <2>1. IsFiniteSet(1 .. Len(v)) /\ Cardinality(1 .. Len(v)) = Len(v)
      <3>1. 1 \in Int /\ Len(v) \in Int
        BY <1>1
      <3>2. /\ IsFiniteSet(1 .. Len(v))
            /\ Cardinality(1 .. Len(v)) = IF 1 > Len(v) THEN 0 ELSE Len(v) - 1 + 1
        BY <3>1, FS_Interval, Zenon
      <3>. QED  BY <1>1, <3>2
    <2>2. S \subseteq 1 .. Len(v)
      BY <1>1
    <2>. HIDE DEF S
    <2>3. IsFiniteSet(S) /\ Cardinality(S) <= Len(v)
      BY <2>1, <2>2, FS_Subset
    <2>. QED  BY <1>1, <2>3, FS_CardinalityType
  <1>3. InOrder(v, r) = InsertAt(v, Cardinality(S) + 1, r)
    BY DEF InOrder
  <1>. HIDE DEF S
  <1>4. Cardinality(S) + 1 \in 1 .. Len(v) + 1
    BY <1>1, <1>2
  <1>. QED  BY <1>3, <1>4, ValuesInsert

(* Sorting, adding and removing, range by range.                           *)
LEMMA OrderedIs ==
  ASSUME NEW w \in Vectors
  PROVE  Ordered(w) \in Vectors /\ Values(Ordered(w)) = Values(w)
  <1>. DEFINE v == w
              L == Len(v)
              T == Vectors
              x == << >>
              Step(y, n) == InOrder(y, v[n])
              Body(f, n) == IF n = 0 THEN x ELSE Step(f[n - 1], n)
              Is(f) == f = [n \in 0 .. L |-> Body(f, n)]
              Inv(y, n) == Values(y) = FirstValues(v, n)
  <1>1. v \in Vectors /\ L \in Nat /\ \A n \in 1 .. L : v[n] \in Ranges
    BY DEF Vectors
  <1>2. x \in T /\ Inv(x, 0)
    BY NoValues, FirstValuesIs
  <1>3. ASSUME NEW n \in 1 .. L, NEW y \in T
        PROVE  Step(y, n) \in T /\ (Inv(y, n - 1) => Inv(Step(y, n), n))
    <2>1. FirstValues(v, n) = FirstValues(v, n - 1) \cup Span(v[n])
      BY <1>1, FirstValuesIs
    <2>2. v[n] \in Ranges
      BY <1>1
    <2>. HIDE DEF v
    <2>3. InOrder(y, v[n]) \in Vectors
          /\ Values(InOrder(y, v[n])) = Values(y) \cup Span(v[n])
      BY <2>2, InOrderIs
    <2>. QED  BY <2>1, <2>3
  <1>4. Ordered(w) = (CHOOSE f : Is(f))[L]
    BY DEF Ordered
  <1>. HIDE DEF T, x, Step, Inv, v
  <1>5. \E f : Is(f)
    <2>. DEFINE F == [n \in 1 .. L |-> [y \in T |-> Step(y, n)]]
    <2>1. F \in [1 .. L -> [T -> T]]
      BY <1>3
    <2>2. PICK f \in [0 .. L -> T] : f[0] = x /\ \A n \in 1 .. L : f[n] = F[n][f[n - 1]]
      <3>1. L \in Nat /\ x \in T
        BY <1>1, <1>2
      <3>. HIDE DEF F, L, Is, Body
      <3>2. Chained(T, L, x, F)
        BY <2>1, <3>1, Chain
      <3>. QED  BY <3>2 DEF Chained
    <2>3. ASSUME NEW n \in 0 .. L PROVE f[n] = Body(f, n)
      <3>1. n # 0 => n \in 1 .. L /\ f[n - 1] \in T
        BY <1>1
      <3>. QED  BY <2>2, <3>1
    <2>. HIDE DEF Body
    <2>. QED  BY <2>3
  <1>6. PICK g : Is(g) /\ Ordered(w) = g[L]
    <2>1. Is(CHOOSE f : Is(f))
      <3>. HIDE DEF Is
      <3>. QED  BY <1>5
    <2>. HIDE DEF Is
    <2>. QED  BY <1>4, <2>1
  <1>7. g[L] \in T /\ Inv(g[L], L)
    <2>. DEFINE S == {n \in 0 .. L : g[n] \in T /\ Inv(g[n], n)}
    <2>1. \A n \in 0 .. L : g[n] = Body(g, n)
      <3>. HIDE DEF Body
      <3>. QED  BY <1>6
    <2>2. 0 \in S
      BY <1>1, <1>2, <2>1
    <2>3. ASSUME NEW n \in 1 .. L, n - 1 \in S PROVE n \in S
      BY <1>3, <2>1, <2>3
    <2>. HIDE DEF S
    <2>4. \A n \in 0 .. L : n \in S
      BY <1>1, <2>2, <2>3, UpTo
    <2>. QED  BY <1>1, <2>4 DEF S
  <1>. QED  BY <1>1, <1>6, <1>7, FirstValuesIs DEF T, Inv, v

LEMMA SortedIs ==
  ASSUME NEW rs \in RangeSets
  PROVE  Sorted(rs) \in RangeSets /\ Values(Sorted(rs).ranges) = Values(rs.ranges)
  BY OrderedIs DEF Sorted, RangeSets

LEMMA AddedIs ==
  ASSUME NEW rs \in RangeSets, NEW s \in Ranges
  PROVE  /\ Added(rs, s) \in RangeSets
         /\ Values(Added(rs, s).ranges) = Values(rs.ranges) \cup Span(s)
  <1>1. CASE rs.ranges = << >>
    <2>1. Added(rs, s) = [rs EXCEPT !.ranges = <<s>>]
      BY <1>1 DEF Added
    <2>. QED  BY <1>1, <2>1, NoValues, OneValue DEF RangeSets
  <1>2. CASE rs.ranges # << >>
    <2>. DEFINE sorted == Sorted(rs)
    <2>1. Added(rs, s) = [sorted EXCEPT !.ranges = AddRange(sorted.ranges, s)]
      BY <1>2 DEF Added
    <2>2. sorted \in RangeSets /\ sorted.ranges \in Vectors
          /\ Values(sorted.ranges) = Values(rs.ranges)
      BY SortedIs DEF RangeSets
    <2>. HIDE DEF sorted
    <2>3. AddRange(sorted.ranges, s) \in Vectors
          /\ Values(AddRange(sorted.ranges, s)) = Values(rs.ranges) \cup Span(s)
      BY <2>2, AddRangeIs
    <2>. QED  BY <2>1, <2>2, <2>3 DEF RangeSets
  <1>. QED  BY <1>1, <1>2

LEMMA AddedAllIs ==
  ASSUME NEW rs \in RangeSets, NEW w \in Vectors
  PROVE  /\ AddedAll(rs, w) \in RangeSets
         /\ Values(AddedAll(rs, w).ranges) = Values(rs.ranges) \cup Values(w)
  <1>. DEFINE v == w
              L == Len(v)
              T == RangeSets
              x == rs
              Step(y, n) == Added(y, v[n])
              Body(f, n) == IF n = 0 THEN x ELSE Step(f[n - 1], n)
              Is(f) == f = [n \in 0 .. L |-> Body(f, n)]
              Inv(y, n) == Values(y.ranges) = Values(rs.ranges) \cup FirstValues(v, n)
  <1>1. v \in Vectors /\ L \in Nat /\ \A n \in 1 .. L : v[n] \in Ranges
    BY DEF Vectors
  <1>2. x \in T /\ Inv(x, 0)
    BY FirstValuesIs
  <1>3. ASSUME NEW n \in 1 .. L, NEW y \in T
        PROVE  Step(y, n) \in T /\ (Inv(y, n - 1) => Inv(Step(y, n), n))
    <2>1. FirstValues(v, n) = FirstValues(v, n - 1) \cup Span(v[n])
      BY <1>1, FirstValuesIs
    <2>. QED  BY <1>1, <2>1, AddedIs
  <1>4. AddedAll(rs, w) = (CHOOSE f : Is(f))[L]
    BY DEF AddedAll
  <1>. HIDE DEF T, x, Step, Inv, v
  <1>5. \E f : Is(f)
    <2>. DEFINE F == [n \in 1 .. L |-> [y \in T |-> Step(y, n)]]
    <2>1. F \in [1 .. L -> [T -> T]]
      BY <1>3
    <2>2. PICK f \in [0 .. L -> T] : f[0] = x /\ \A n \in 1 .. L : f[n] = F[n][f[n - 1]]
      <3>1. L \in Nat /\ x \in T
        BY <1>1, <1>2
      <3>. HIDE DEF F, L, Is, Body
      <3>2. Chained(T, L, x, F)
        BY <2>1, <3>1, Chain
      <3>. QED  BY <3>2 DEF Chained
    <2>3. ASSUME NEW n \in 0 .. L PROVE f[n] = Body(f, n)
      <3>1. n # 0 => n \in 1 .. L /\ f[n - 1] \in T
        BY <1>1
      <3>. QED  BY <2>2, <3>1
    <2>. HIDE DEF Body
    <2>. QED  BY <2>3
  <1>6. PICK g : Is(g) /\ AddedAll(rs, w) = g[L]
    <2>1. Is(CHOOSE f : Is(f))
      <3>. HIDE DEF Is
      <3>. QED  BY <1>5
    <2>. HIDE DEF Is
    <2>. QED  BY <1>4, <2>1
  <1>7. g[L] \in T /\ Inv(g[L], L)
    <2>. DEFINE S == {n \in 0 .. L : g[n] \in T /\ Inv(g[n], n)}
    <2>1. \A n \in 0 .. L : g[n] = Body(g, n)
      <3>. HIDE DEF Body
      <3>. QED  BY <1>6
    <2>2. 0 \in S
      BY <1>1, <1>2, <2>1
    <2>3. ASSUME NEW n \in 1 .. L, n - 1 \in S PROVE n \in S
      BY <1>3, <2>1, <2>3
    <2>. HIDE DEF S
    <2>4. \A n \in 0 .. L : n \in S
      BY <1>1, <2>2, <2>3, UpTo
    <2>. QED  BY <1>1, <2>4 DEF S
  <1>. QED  BY <1>1, <1>6, <1>7, FirstValuesIs DEF T, Inv, v

(* What a removal has found: the ranges that stay, and what is left of the *)
(* others.                                                                 *)
Finds == [kept : Vectors, parts : Vectors]

LEMMA CutIs ==
  ASSUME NEW y \in Finds, NEW r \in Ranges, NEW s \in Ranges
  PROVE  /\ Cut(y, r, s) \in Finds
         /\ Values(Cut(y, r, s).kept) \cup Values(Cut(y, r, s).parts)
              = Values(y.kept) \cup Values(y.parts) \cup (Span(r) \ Span(s))
  <1>0. y.kept \in Vectors /\ y.parts \in Vectors
    BY DEF Finds
  <1>1. CASE Rest(r, s) = <<r>>
    <2>1. Cut(y, r, s) = [y EXCEPT !.kept = Append(y.kept, r)]
      BY <1>1 DEF Cut
    <2>2. Span(r) = Span(r) \ Span(s)
      BY <1>1, RestIs, OneValue
    <2>3. Append(y.kept, r) \in Vectors /\ Values(Append(y.kept, r)) = Values(y.kept) \cup Span(r)
      BY <1>0, ValuesAppend
    <2>4. /\ Cut(y, r, s) \in Finds
          /\ Cut(y, r, s).kept = Append(y.kept, r) /\ Cut(y, r, s).parts = y.parts
      BY <2>1, <2>3 DEF Finds
    <2>. QED  BY <2>2, <2>3, <2>4
  <1>2. CASE Rest(r, s) # <<r>>
    <2>. DEFINE rest == Rest(r, s)
    <2>1. Cut(y, r, s) = [y EXCEPT !.parts = y.parts \o rest]
      BY <1>2 DEF Cut
    <2>2. rest \in Vectors /\ Values(rest) = Span(r) \ Span(s)
      BY RestIs
    <2>. HIDE DEF rest
    <2>3. y.parts \o rest \in Vectors
          /\ Values(y.parts \o rest) = Values(y.parts) \cup Values(rest)
      BY <1>0, <2>2, ValuesConcat
    <2>4. /\ Cut(y, r, s) \in Finds
          /\ Cut(y, r, s).kept = y.kept /\ Cut(y, r, s).parts = y.parts \o rest
      BY <2>1, <2>3 DEF Finds
    <2>. QED  BY <2>2, <2>3, <2>4
  <1>. QED  BY <1>1, <1>2

LEMMA RemovedIs ==
  ASSUME NEW rs \in RangeSets, NEW s \in Ranges
  PROVE  /\ Removed(rs, s) \in RangeSets
         /\ Values(Removed(rs, s).ranges) = Values(rs.ranges) \ Span(s)
  <1>. DEFINE v == rs.ranges
              L == Len(v)
              T == Finds
              x == [kept |-> << >>, parts |-> << >>]
              Step(y, n) == Cut(y, v[n], s)
              Body(f, n) == IF n = 0 THEN x ELSE Step(f[n - 1], n)
              Is(f) == f = [n \in 0 .. L |-> Body(f, n)]
              Inv(y, n) == Values(y.kept) \cup Values(y.parts) = FirstValues(v, n) \ Span(s)
  <1>1. v \in Vectors /\ L \in Nat /\ \A n \in 1 .. L : v[n] \in Ranges
    BY DEF Vectors, RangeSets
  <1>2. x \in T /\ Inv(x, 0)
    BY NoValues, FirstValuesIs DEF Finds, RangeSets
  <1>3. ASSUME NEW n \in 1 .. L, NEW y \in T
        PROVE  Step(y, n) \in T /\ (Inv(y, n - 1) => Inv(Step(y, n), n))
    <2>1. FirstValues(v, n) = FirstValues(v, n - 1) \cup Span(v[n])
      BY <1>1, FirstValuesIs
    <2>2. v[n] \in Ranges
      BY <1>1
    <2>. QED  BY <2>1, <2>2, CutIs
  <1>4. Found(rs, s) = (CHOOSE f : Is(f))[L]
    BY DEF Found
  <1>. HIDE DEF T, x, Step, Inv, v
  <1>5. \E f : Is(f)
    <2>. DEFINE F == [n \in 1 .. L |-> [y \in T |-> Step(y, n)]]
    <2>1. F \in [1 .. L -> [T -> T]]
      BY <1>3
    <2>2. PICK f \in [0 .. L -> T] : f[0] = x /\ \A n \in 1 .. L : f[n] = F[n][f[n - 1]]
      <3>1. L \in Nat /\ x \in T
        BY <1>1, <1>2
      <3>. HIDE DEF F, L, Is, Body
      <3>2. Chained(T, L, x, F)
        BY <2>1, <3>1, Chain
      <3>. QED  BY <3>2 DEF Chained
    <2>3. ASSUME NEW n \in 0 .. L PROVE f[n] = Body(f, n)
      <3>1. n # 0 => n \in 1 .. L /\ f[n - 1] \in T
        BY <1>1
      <3>. QED  BY <2>2, <3>1
    <2>. HIDE DEF Body
    <2>. QED  BY <2>3
  <1>6. PICK g : Is(g) /\ Found(rs, s) = g[L]
    <2>1. Is(CHOOSE f : Is(f))
      <3>. HIDE DEF Is
      <3>. QED  BY <1>5
    <2>. HIDE DEF Is
    <2>. QED  BY <1>4, <2>1
  <1>7. g[L] \in T /\ Inv(g[L], L)
    <2>. DEFINE S == {n \in 0 .. L : g[n] \in T /\ Inv(g[n], n)}
    <2>1. \A n \in 0 .. L : g[n] = Body(g, n)
      <3>. HIDE DEF Body
      <3>. QED  BY <1>6
    <2>2. 0 \in S
      BY <1>1, <1>2, <2>1
    <2>3. ASSUME NEW n \in 1 .. L, n - 1 \in S PROVE n \in S
      BY <1>3, <2>1, <2>3
    <2>. HIDE DEF S
    <2>4. \A n \in 0 .. L : n \in S
      BY <1>1, <2>2, <2>3, UpTo
    <2>. QED  BY <1>1, <2>4 DEF S
  <1>. DEFINE all == Found(rs, s)
              start == [rs EXCEPT !.ranges = all.kept]
  <1>8. all.kept \in Vectors /\ all.parts \in Vectors
        /\ Values(all.kept) \cup Values(all.parts) = Values(v) \ Span(s)
    BY <1>1, <1>6, <1>7, FirstValuesIs DEF T, Inv, Finds
  <1>9. Removed(rs, s) = AddedAll(start, all.parts)
    BY DEF Removed
  <1>. HIDE DEF all
  <1>10. start \in RangeSets /\ start.ranges = all.kept
    BY <1>8 DEF RangeSets
  <1>. HIDE DEF start
  <1>11. /\ AddedAll(start, all.parts) \in RangeSets
         /\ Values(AddedAll(start, all.parts).ranges) = Values(all.kept) \cup Values(all.parts)
    BY <1>8, <1>10, AddedAllIs
  <1>. QED  BY <1>8, <1>9, <1>11 DEF v

LEMMA RemovedAllIs ==
  ASSUME NEW rs \in RangeSets, NEW w \in Vectors
  PROVE  /\ RemovedAll(rs, w) \in RangeSets
         /\ Values(RemovedAll(rs, w).ranges) = Values(rs.ranges) \ Values(w)
  <1>. DEFINE v == w
              L == Len(v)
              T == RangeSets
              x == rs
              Step(y, n) == Removed(y, v[n])
              Body(f, n) == IF n = 0 THEN x ELSE Step(f[n - 1], n)
              Is(f) == f = [n \in 0 .. L |-> Body(f, n)]
              Inv(y, n) == Values(y.ranges) = Values(rs.ranges) \ FirstValues(v, n)
  <1>1. v \in Vectors /\ L \in Nat /\ \A n \in 1 .. L : v[n] \in Ranges
    BY DEF Vectors
  <1>2. x \in T /\ Inv(x, 0)
    BY FirstValuesIs
  <1>3. ASSUME NEW n \in 1 .. L, NEW y \in T
        PROVE  Step(y, n) \in T /\ (Inv(y, n - 1) => Inv(Step(y, n), n))
    <2>1. FirstValues(v, n) = FirstValues(v, n - 1) \cup Span(v[n])
      BY <1>1, FirstValuesIs
    <2>2. v[n] \in Ranges
      BY <1>1
    <2>. HIDE DEF v
    <2>3. /\ Removed(y, v[n]) \in RangeSets
          /\ Values(Removed(y, v[n]).ranges) = Values(y.ranges) \ Span(v[n])
      BY <2>2, RemovedIs
    <2>. QED  BY <2>1, <2>3
  <1>4. RemovedAll(rs, w) = (CHOOSE f : Is(f))[L]
    BY DEF RemovedAll
  <1>. HIDE DEF T, x, Step, Inv, v
  <1>5. \E f : Is(f)
    <2>. DEFINE F == [n \in 1 .. L |-> [y \in T |-> Step(y, n)]]
    <2>1. F \in [1 .. L -> [T -> T]]
      BY <1>3
    <2>2. PICK f \in [0 .. L -> T] : f[0] = x /\ \A n \in 1 .. L : f[n] = F[n][f[n - 1]]
      <3>1. L \in Nat /\ x \in T
        BY <1>1, <1>2
      <3>. HIDE DEF F, L, Is, Body
      <3>2. Chained(T, L, x, F)
        BY <2>1, <3>1, Chain
      <3>. QED  BY <3>2 DEF Chained
    <2>3. ASSUME NEW n \in 0 .. L PROVE f[n] = Body(f, n)
      <3>1. n # 0 => n \in 1 .. L /\ f[n - 1] \in T
        BY <1>1
      <3>. QED  BY <2>2, <3>1
    <2>. HIDE DEF Body
    <2>. QED  BY <2>3
  <1>6. PICK g : Is(g) /\ RemovedAll(rs, w) = g[L]
    <2>1. Is(CHOOSE f : Is(f))
      <3>. HIDE DEF Is
      <3>. QED  BY <1>5
    <2>. HIDE DEF Is
    <2>. QED  BY <1>4, <2>1
  <1>7. g[L] \in T /\ Inv(g[L], L)
    <2>. DEFINE S == {n \in 0 .. L : g[n] \in T /\ Inv(g[n], n)}
    <2>1. \A n \in 0 .. L : g[n] = Body(g, n)
      <3>. HIDE DEF Body
      <3>. QED  BY <1>6
    <2>2. 0 \in S
      BY <1>1, <1>2, <2>1
    <2>3. ASSUME NEW n \in 1 .. L, n - 1 \in S PROVE n \in S
      BY <1>3, <2>1, <2>3
    <2>. HIDE DEF S
    <2>4. \A n \in 0 .. L : n \in S
      BY <1>1, <2>2, <2>3, UpTo
    <2>. QED  BY <1>1, <2>4 DEF S
  <1>. QED  BY <1>1, <1>6, <1>7, FirstValuesIs DEF T, Inv, v

LEMMA WithCommonIs ==
  ASSUME NEW result \in RangeSets, NEW rs \in RangeSets, NEW r \in Ranges
  PROVE  /\ WithCommon(result, rs, r) \in RangeSets
         /\ Values(WithCommon(result, rs, r).ranges)
              = Values(result.ranges) \cup (Values(rs.ranges) \cap Span(r))
  <1>. DEFINE v == rs.ranges
              L == Len(v)
              T == RangeSets
              x == result
              Step(y, n) == IF Intersects(v[n], r) THEN Added(y, Intersection(v[n], r)) ELSE y
              Body(f, n) == IF n = 0 THEN x ELSE Step(f[n - 1], n)
              Is(f) == f = [n \in 0 .. L |-> Body(f, n)]
              Inv(y, n) == Values(y.ranges)
                             = Values(result.ranges) \cup (FirstValues(v, n) \cap Span(r))
  <1>1. v \in Vectors /\ L \in Nat /\ \A n \in 1 .. L : v[n] \in Ranges
    BY DEF Vectors, RangeSets
  <1>2. x \in T /\ Inv(x, 0)
    BY FirstValuesIs DEF RangeSets
  <1>3. ASSUME NEW n \in 1 .. L, NEW y \in T
        PROVE  Step(y, n) \in T /\ (Inv(y, n - 1) => Inv(Step(y, n), n))
    <2>1. FirstValues(v, n) = FirstValues(v, n - 1) \cup Span(v[n])
      BY <1>1, FirstValuesIs
    <2>2. v[n] \in Ranges
      BY <1>1
    <2>3. CASE Intersects(v[n], r)
      BY <2>1, <2>2, <2>3, IntersectionIs, AddedIs
    <2>4. CASE ~ Intersects(v[n], r)
      BY <2>1, <2>2, <2>4, IntersectionIs
    <2>. QED  BY <2>3, <2>4
  <1>4. WithCommon(result, rs, r) = (CHOOSE f : Is(f))[L]
    BY DEF WithCommon
  <1>. HIDE DEF T, x, Step, Inv, v
  <1>5. \E f : Is(f)
    <2>. DEFINE F == [n \in 1 .. L |-> [y \in T |-> Step(y, n)]]
    <2>1. F \in [1 .. L -> [T -> T]]
      BY <1>3
    <2>2. PICK f \in [0 .. L -> T] : f[0] = x /\ \A n \in 1 .. L : f[n] = F[n][f[n - 1]]
      <3>1. L \in Nat /\ x \in T
        BY <1>1, <1>2
      <3>. HIDE DEF F, L, Is, Body
      <3>2. Chained(T, L, x, F)
        BY <2>1, <3>1, Chain
      <3>. QED  BY <3>2 DEF Chained
    <2>3. ASSUME NEW n \in 0 .. L PROVE f[n] = Body(f, n)
      <3>1. n # 0 => n \in 1 .. L /\ f[n - 1] \in T
        BY <1>1
      <3>. QED  BY <2>2, <3>1
    <2>. HIDE DEF Body
    <2>. QED  BY <2>3
  <1>6. PICK g : Is(g) /\ WithCommon(result, rs, r) = g[L]
    <2>1. Is(CHOOSE f : Is(f))
      <3>. HIDE DEF Is
      <3>. QED  BY <1>5
    <2>. HIDE DEF Is
    <2>. QED  BY <1>4, <2>1
  <1>7. g[L] \in T /\ Inv(g[L], L)
    <2>. DEFINE S == {n \in 0 .. L : g[n] \in T /\ Inv(g[n], n)}
    <2>1. \A n \in 0 .. L : g[n] = Body(g, n)
      <3>. HIDE DEF Body
      <3>. QED  BY <1>6
    <2>2. 0 \in S
      BY <1>1, <1>2, <2>1
    <2>3. ASSUME NEW n \in 1 .. L, n - 1 \in S PROVE n \in S
      BY <1>3, <2>1, <2>3
    <2>. HIDE DEF S
    <2>4. \A n \in 0 .. L : n \in S
      BY <1>1, <2>2, <2>3, UpTo
    <2>. QED  BY <1>1, <2>4 DEF S
  <1>. QED  BY <1>1, <1>6, <1>7, FirstValuesIs DEF T, Inv, v

LEMMA CommonIs ==
  ASSUME NEW rs \in RangeSets, NEW other \in RangeSets
  PROVE  /\ Common(rs, other) \in RangeSets
         /\ Values(Common(rs, other).ranges) = Values(rs.ranges) \cap Values(other.ranges)
  <1>. DEFINE v == other.ranges
              L == Len(v)
              T == RangeSets
              x == Empty
              Step(y, n) == WithCommon(y, rs, v[n])
              Body(f, n) == IF n = 0 THEN x ELSE Step(f[n - 1], n)
              Is(f) == f = [n \in 0 .. L |-> Body(f, n)]
              Inv(y, n) == Values(y.ranges) = Values(rs.ranges) \cap FirstValues(v, n)
  <1>1. v \in Vectors /\ L \in Nat /\ \A n \in 1 .. L : v[n] \in Ranges
    BY DEF Vectors, RangeSets
  <1>2. x \in T /\ Inv(x, 0)
    BY NoValues, FirstValuesIs DEF Empty, RangeSets
  <1>3. ASSUME NEW n \in 1 .. L, NEW y \in T
        PROVE  Step(y, n) \in T /\ (Inv(y, n - 1) => Inv(Step(y, n), n))
    <2>1. FirstValues(v, n) = FirstValues(v, n - 1) \cup Span(v[n])
      BY <1>1, FirstValuesIs
    <2>2. v[n] \in Ranges
      BY <1>1
    <2>. HIDE DEF v
    <2>3. /\ WithCommon(y, rs, v[n]) \in RangeSets
          /\ Values(WithCommon(y, rs, v[n]).ranges)
               = Values(y.ranges) \cup (Values(rs.ranges) \cap Span(v[n]))
      BY <2>2, WithCommonIs
    <2>. QED  BY <2>1, <2>3
  <1>4. Common(rs, other) = (CHOOSE f : Is(f))[L]
    BY DEF Common
  <1>. HIDE DEF T, x, Step, Inv, v
  <1>5. \E f : Is(f)
    <2>. DEFINE F == [n \in 1 .. L |-> [y \in T |-> Step(y, n)]]
    <2>1. F \in [1 .. L -> [T -> T]]
      BY <1>3
    <2>2. PICK f \in [0 .. L -> T] : f[0] = x /\ \A n \in 1 .. L : f[n] = F[n][f[n - 1]]
      <3>1. L \in Nat /\ x \in T
        BY <1>1, <1>2
      <3>. HIDE DEF F, L, Is, Body
      <3>2. Chained(T, L, x, F)
        BY <2>1, <3>1, Chain
      <3>. QED  BY <3>2 DEF Chained
    <2>3. ASSUME NEW n \in 0 .. L PROVE f[n] = Body(f, n)
      <3>1. n # 0 => n \in 1 .. L /\ f[n - 1] \in T
        BY <1>1
      <3>. QED  BY <2>2, <3>1
    <2>. HIDE DEF Body
    <2>. QED  BY <2>3
  <1>6. PICK g : Is(g) /\ Common(rs, other) = g[L]
    <2>1. Is(CHOOSE f : Is(f))
      <3>. HIDE DEF Is
      <3>. QED  BY <1>5
    <2>. HIDE DEF Is
    <2>. QED  BY <1>4, <2>1
  <1>7. g[L] \in T /\ Inv(g[L], L)
    <2>. DEFINE S == {n \in 0 .. L : g[n] \in T /\ Inv(g[n], n)}
    <2>1. \A n \in 0 .. L : g[n] = Body(g, n)
      <3>. HIDE DEF Body
      <3>. QED  BY <1>6
    <2>2. 0 \in S
      BY <1>1, <1>2, <2>1
    <2>3. ASSUME NEW n \in 1 .. L, n - 1 \in S PROVE n \in S
      BY <1>3, <2>1, <2>3
    <2>. HIDE DEF S
    <2>4. \A n \in 0 .. L : n \in S
      BY <1>1, <2>2, <2>3, UpTo
    <2>. QED  BY <1>1, <2>4 DEF S
  <1>. QED  BY <1>1, <1>6, <1>7, FirstValuesIs DEF T, Inv, v

(* The set is one of ranges, and they stand for the members.               *)
RangesTyped == set \in RangeSets

RangesInv == RangesTyped /\ HoldsItsMembers

LEMMA EmptyIs == Empty \in RangeSets /\ Values(Empty.ranges) = {}
  BY NoValues DEF Empty, RangeSets

LEMMA RangesInitially == RangesInit => RangesInv
  BY EmptyIs DEF RangesInit, RangesInv, RangesTyped, HoldsItsMembers

LEMMA OtherIs ==
  ASSUME NEW r \in Ranges, NEW s \in Ranges
  PROVE  Added(Added(Empty, r), s) \in RangeSets
  BY EmptyIs, AddedIs

LEMMA RangesStep ==
  ASSUME RangesInv, RangesNext
  PROVE  RangesInv'
  <1>. USE DEF RangesInv, RangesTyped, HoldsItsMembers
  <1>1. ASSUME NEW r \in Ranges, Add(r) PROVE RangesInv'
    BY <1>1, AddedIs DEF Add
  <1>2. ASSUME NEW r \in Ranges, RemoveRange(r) PROVE RangesInv'
    BY <1>2, RemovedIs DEF RemoveRange
  <1>3. ASSUME NEW r \in Ranges, AddUnchecked(r) PROVE RangesInv'
    <2>1. set.ranges \in Vectors
      BY DEF RangeSets
    <2>2. Append(set.ranges, r) \in Vectors
          /\ Values(Append(set.ranges, r)) = Values(set.ranges) \cup Span(r)
      BY <2>1, ValuesAppend
    <2>. QED  BY <1>3, <2>2 DEF AddUnchecked, RangeSets
  <1>4. ASSUME NEW r \in Ranges, NEW s \in Ranges, Intersect(r, s) PROVE RangesInv'
    BY <1>4, OtherIs, CommonIs DEF Intersect
  <1>5. ASSUME NEW r \in Ranges, NEW s \in Ranges, TakeDifference(r, s) PROVE RangesInv'
    <2>. DEFINE other == Added(Added(Empty, r), s)
    <2>1. other \in RangeSets /\ other.ranges \in Vectors
      BY OtherIs DEF RangeSets
    <2>2. set' = RemovedAll(set, other.ranges) /\ members' = members \ Values(other.ranges)
      BY <1>5 DEF TakeDifference, Difference
    <2>. HIDE DEF other
    <2>. QED  BY <2>1, <2>2, RemovedAllIs
  <1>6. CASE SortIfNeeded
    BY <1>6, SortedIs DEF SortIfNeeded
  <1>. QED  BY <1>1, <1>2, <1>3, <1>4, <1>5, <1>6 DEF RangesNext

(* For any integers and any number of calls, overlapping ranges and ranges *)
(* out of order included: what a set holds is what was added to it and not *)
(* taken from it.  Every operation of rangeset/src/lib.rs.                 *)
THEOREM SetHoldsItsMembers == RangesSpec => []HoldsItsMembers
  <1>1. RangesInv /\ [RangesNext]_rangeVars => RangesInv'
    <2>1. RangesInv /\ UNCHANGED rangeVars => RangesInv'
      BY DEF RangesInv, RangesTyped, HoldsItsMembers, rangeVars
    <2>. QED  BY <2>1, RangesStep
  <1>2. RangesInv => HoldsItsMembers
    BY DEF RangesInv
  <1>. QED  BY <1>1, <1>2, RangesInitially, PTL DEF RangesSpec

-----------------------------------------------------------------------------
(***************************************************************************)
(* LfuCache for any keys, any hash of theirs and any capacities: table,    *)
(* tree and list hold the same entries, an entry is in the bucket that its *)
(* key is looked up in, and there are no more of them than the capacity.   *)
(*                                                                         *)
(* CacheInv says so of the cache as a record, so that it can be said of    *)
(* the record between two steps of one call, too: each of them (Decayed,   *)
(* Unlinked, Linked, Grown) keeps Agree.  What a bucket holds is said key  *)
(* by key (Filed), which a growth needs: the entries of an old bucket are  *)
(* those of a half of the new ones.  The walks go by Chain and UpTo again. *)
(***************************************************************************)

LEMMA ConsIs ==
  ASSUME NEW S, NEW s \in Seq(S), NEW e \in S
  PROVE  /\ Cons(e, s) \in Seq(S) /\ Len(Cons(e, s)) = Len(s) + 1
         /\ \A j \in 1 .. Len(s) + 1 : Cons(e, s)[j] = IF j = 1 THEN e ELSE s[j - 1]
  BY DEF Cons

(* A set of positions that holds all below one of its own.                 *)
LEMMA LowerPart ==
  ASSUME NEW L \in Nat, NEW S \in SUBSET (1 .. L),
         \A i, j \in 1 .. L : i < j /\ j \in S => i \in S
  PROVE  Cardinality(S) \in 0 .. L /\ S = 1 .. Cardinality(S)
  <1>1. PICK m \in 0 .. L : S = 1 .. m
    <2>1. SUFFICES ASSUME \A m \in 0 .. L : S # 1 .. m PROVE FALSE
      OBVIOUS
    <2>. DEFINE T == {n \in 0 .. L : 1 .. n \subseteq S}
    <2>2. 0 \in T
      OBVIOUS
    <2>3. ASSUME NEW i \in 1 .. L, i - 1 \in T PROVE i \in T
      <3>1. i \in S
        <4>1. SUFFICES ASSUME i \notin S PROVE FALSE
          OBVIOUS
        <4>2. i - 1 \in 0 .. L /\ 1 .. i - 1 \subseteq S
          BY <2>3
        <4>3. S \subseteq 1 .. i - 1
          BY <4>1
        <4>. QED  BY <2>1, <4>2, <4>3
      <3>2. \A n \in 1 .. i : n \in 1 .. i - 1 \/ n = i
        OBVIOUS
      <3>. QED  BY <2>3, <3>1, <3>2
    <2>. HIDE DEF T
    <2>4. \A n \in 0 .. L : n \in T
      BY <2>2, <2>3, UpTo
    <2>5. S = 1 .. L
      <3>1. L \in T
        BY <2>4
      <3>. QED  BY <3>1 DEF T
    <2>. QED  BY <2>1, <2>5
  <1>2. Cardinality(1 .. m) = m
    <2>1. 1 \in Int /\ m \in Int
      OBVIOUS
    <2>2. Cardinality(1 .. m) = IF 1 > m THEN 0 ELSE m - 1 + 1
      BY <2>1, FS_Interval, Zenon
    <2>. QED  BY <2>2
  <1>. QED  BY <1>1, <1>2

LEMMA InRange ==
  ASSUME NEW s
  PROVE  \A x : x \in Range(s) <=> \E i \in DOMAIN s : x = s[i]
  BY DEF Range

(* The tree is in order of the frequencies f.                              *)
Rising(s, f) == \A i, j \in DOMAIN s : i < j => f[s[i]] <= f[s[j]]

LEMMA UnlinkIs ==
  ASSUME NEW s \in Seq(Keys), IsInjective(s), NEW k \in Range(s)
  PROVE  /\ Unlink(s, k) \in Seq(Keys) /\ IsInjective(Unlink(s, k))
         /\ Range(Unlink(s, k)) = Range(s) \ {k}
         /\ \A f : Rising(s, f) => Rising(Unlink(s, k), f)
  <1>1. PICK i \in DOMAIN s : Unlink(s, k) = RemoveAt(s, i) /\ s[i] = k
    <2>1. \E i \in DOMAIN s : s[i] = k
      BY InRange
    <2>. QED  BY <2>1 DEF Unlink
  <1>. DEFINE w == RemoveAt(s, i)
              m(j) == IF j < i THEN j ELSE j + 1
  <1>2. Len(s) \in Nat /\ DOMAIN s = 1 .. Len(s)
    OBVIOUS
  <1>3. /\ w \in Seq(Keys) /\ Len(w) = Len(s) - 1
        /\ \A j \in 1 .. Len(s) - 1 : w[j] = IF j < i THEN s[j] ELSE s[j + 1]
    BY <1>2, RemovedAt, Zenon
  <1>. HIDE DEF w
  <1>4. DOMAIN w = 1 .. Len(s) - 1
    BY <1>3
  <1>5. \A j \in DOMAIN w : m(j) \in DOMAIN s /\ m(j) # i /\ w[j] = s[m(j)]
    BY <1>2, <1>3, <1>4
  <1>6. \A j, l \in DOMAIN w : (j < l => m(j) < m(l)) /\ (m(j) = m(l) => j = l)
    BY <1>2, <1>4
  <1>7. \A n \in DOMAIN s : n # i => \E j \in DOMAIN w : m(j) = n
    <2>. TAKE n \in DOMAIN s
    <2>. HAVE n # i
    <2>1. CASE n < i
      BY <1>2, <1>4, <2>1
    <2>2. CASE n > i
      <3>1. n - 1 \in DOMAIN w /\ m(n - 1) = n
        BY <1>2, <1>4, <2>2
      <3>. QED  BY <3>1
    <2>. QED  BY <1>2, <2>1, <2>2
  <1>. HIDE DEF m
  <1>8. IsInjective(w)
    BY <1>5, <1>6 DEF IsInjective
  <1>9. Range(w) = Range(s) \ {k}
    <2>1. \A j \in DOMAIN w : w[j] \in Range(s) /\ w[j] # k
      BY <1>1, <1>5, InRange DEF IsInjective
    <2>2. \A n \in DOMAIN s : s[n] # k => s[n] \in Range(w)
      <3>. TAKE n \in DOMAIN s
      <3>. HAVE s[n] # k
      <3>1. PICK j \in DOMAIN w : m(j) = n
        BY <1>1, <1>7
      <3>. QED  BY <1>5, <3>1, InRange
    <2>. QED  BY <2>1, <2>2, InRange
  <1>10. ASSUME NEW f, Rising(s, f) PROVE Rising(w, f)
    BY <1>5, <1>6, <1>10 DEF Rising
  <1>. QED  BY <1>1, <1>3, <1>8, <1>9, <1>10 DEF w

LEMMA ConsLinks ==
  ASSUME NEW s \in Seq(Keys), IsInjective(s), NEW k \in Keys, k \notin Range(s)
  PROVE  /\ Cons(k, s) \in Seq(Keys) /\ IsInjective(Cons(k, s))
         /\ Range(Cons(k, s)) = Range(s) \cup {k}
  <1>. DEFINE w == Cons(k, s)
  <1>1. Len(s) \in Nat /\ DOMAIN s = 1 .. Len(s)
    OBVIOUS
  <1>2. /\ w \in Seq(Keys) /\ Len(w) = Len(s) + 1
        /\ \A j \in 1 .. Len(s) + 1 : w[j] = IF j = 1 THEN k ELSE s[j - 1]
    BY ConsIs
  <1>. HIDE DEF w
  <1>3. DOMAIN w = 1 .. Len(s) + 1 /\ 1 \in DOMAIN w /\ w[1] = k
    BY <1>1, <1>2
  <1>4. \A j \in DOMAIN w : j # 1 => j - 1 \in DOMAIN s /\ w[j] = s[j - 1]
    BY <1>1, <1>2, <1>3
  <1>5. \A j \in DOMAIN s : j + 1 \in DOMAIN w /\ w[j + 1] = s[j]
    BY <1>1, <1>2, <1>3
  <1>6. Range(w) = Range(s) \cup {k}
    <2>1. \A j \in DOMAIN w : w[j] \in Range(s) \cup {k}
      BY <1>3, <1>4, InRange
    <2>2. \A n \in DOMAIN s : s[n] \in Range(w)
      BY <1>5, InRange
    <2>3. k \in Range(w)
      BY <1>3, InRange
    <2>. QED  BY <2>1, <2>2, <2>3, InRange
  <1>7. ASSUME NEW i \in DOMAIN w, NEW j \in DOMAIN w, w[i] = w[j] PROVE i = j
    <2>1. \A l \in DOMAIN s : s[l] # k
      BY InRange
    <2>2. CASE i = 1 \/ j = 1
      BY <1>3, <1>4, <1>7, <2>1, <2>2
    <2>3. CASE i # 1 /\ j # 1
      <3>1. i - 1 = j - 1
        BY <1>4, <1>7, <2>3 DEF IsInjective
      <3>. QED  BY <1>1, <1>3, <3>1
    <2>. QED  BY <2>2, <2>3
  <1>. QED  BY <1>2, <1>6, <1>7 DEF IsInjective, w

LEMMA InsertIs ==
  ASSUME NEW s \in Seq(Keys), IsInjective(s), NEW k \in Keys, k \notin Range(s),
         NEW f \in [Keys -> Nat], Rising(s, f)
  PROVE  /\ Insert(s, f, k) \in Seq(Keys) /\ IsInjective(Insert(s, f, k))
         /\ Range(Insert(s, f, k)) = Range(s) \cup {k}
         /\ Rising(Insert(s, f, k), f)
  <1>. DEFINE S == {i \in DOMAIN s : f[s[i]] <= f[k]}
              p == Cardinality(S)
              w == InsertAt(s, p + 1, k)
              m(j) == IF j < p + 1 THEN j ELSE j - 1
  <1>1. Len(s) \in Nat /\ DOMAIN s = 1 .. Len(s) /\ \A i \in DOMAIN s : s[i] \in Keys
    OBVIOUS
  <1>2. p \in 0 .. Len(s) /\ S = 1 .. p
    <2>1. S \in SUBSET (1 .. Len(s))
      BY <1>1
    <2>2. ASSUME NEW i \in 1 .. Len(s), NEW j \in 1 .. Len(s), i < j, j \in S PROVE i \in S
      <3>1. f[s[i]] <= f[s[j]] /\ f[s[j]] <= f[k]
        BY <1>1, <2>2 DEF Rising
      <3>2. f[s[i]] \in Nat /\ f[s[j]] \in Nat /\ f[k] \in Nat
        BY <1>1
      <3>. QED  BY <1>1, <3>1, <3>2
    <2>. HIDE DEF S
    <2>. QED  BY <1>1, <2>1, <2>2, LowerPart
  <1>3. \A i \in DOMAIN s : f[s[i]] <= f[k] <=> i <= p
    BY <1>1, <1>2
  <1>4. Insert(s, f, k) = w
    BY DEF Insert
  <1>. HIDE DEF S, p
  <1>5. /\ w \in Seq(Keys) /\ Len(w) = Len(s) + 1
        /\ \A j \in 1 .. Len(s) + 1 :
              w[j] = IF j < p + 1 THEN s[j] ELSE IF j = p + 1 THEN k ELSE s[j - 1]
    <2>1. p + 1 \in 1 .. Len(s) + 1
      BY <1>1, <1>2
    <2>2. HasAt(w, Keys, s, p + 1, k)
      BY <2>1, InsertedAt
    <2>. QED  BY <2>2 DEF HasAt
  <1>. HIDE DEF w
  <1>6. DOMAIN w = 1 .. Len(s) + 1 /\ p + 1 \in DOMAIN w /\ w[p + 1] = k
    BY <1>1, <1>2, <1>5
  <1>7. ASSUME NEW j \in DOMAIN w, j # p + 1 PROVE m(j) \in DOMAIN s /\ w[j] = s[m(j)]
    <2>1. m(j) \in DOMAIN s
      BY <1>1, <1>2, <1>6, <1>7
    <2>2. w[j] = IF j < p + 1 THEN s[j] ELSE s[j - 1]
      BY <1>5, <1>6, <1>7
    <2>. QED  BY <2>1, <2>2
  <1>8. \A j, l \in DOMAIN w : j # p + 1 /\ l # p + 1 =>
            (j < l => m(j) < m(l)) /\ (m(j) = m(l) => j = l)
    BY <1>1, <1>2, <1>6
  <1>9. \A j \in DOMAIN w : (j < p + 1 => m(j) <= p) /\ (j > p + 1 => ~ (m(j) <= p))
    BY <1>1, <1>2, <1>6
  <1>10. \A n \in DOMAIN s : \E j \in DOMAIN w : j # p + 1 /\ m(j) = n
    <2>. TAKE n \in DOMAIN s
    <2>1. CASE n <= p
      BY <1>1, <1>2, <1>6, <2>1
    <2>2. CASE n > p
      <3>1. n + 1 \in DOMAIN w /\ n + 1 # p + 1 /\ m(n + 1) = n
        BY <1>1, <1>2, <1>6, <2>2
      <3>. QED  BY <3>1
    <2>. QED  BY <1>1, <1>2, <2>1, <2>2
  <1>11. \A j, l \in DOMAIN w : j \in Int /\ l \in Int
    BY <1>6
  <1>. HIDE DEF m
  <1>12. Range(w) = Range(s) \cup {k}
    <2>1. \A j \in DOMAIN w : w[j] \in Range(s) \cup {k}
      BY <1>6, <1>7, InRange
    <2>2. \A n \in DOMAIN s : s[n] \in Range(w)
      <3>. TAKE n \in DOMAIN s
      <3>1. PICK j \in DOMAIN w : j # p + 1 /\ m(j) = n
        BY <1>10
      <3>. QED  BY <1>7, <3>1, InRange
    <2>3. k \in Range(w)
      BY <1>6, InRange
    <2>. QED  BY <2>1, <2>2, <2>3, InRange
  <1>13. ASSUME NEW i \in DOMAIN w, NEW j \in DOMAIN w, w[i] = w[j] PROVE i = j
    <2>1. \A l \in DOMAIN s : s[l] # k
      BY InRange
    <2>2. CASE i = p + 1 \/ j = p + 1
      BY <1>6, <1>7, <1>13, <2>1, <2>2
    <2>3. CASE i # p + 1 /\ j # p + 1
      <3>1. m(i) = m(j)
        BY <1>7, <1>13, <2>3 DEF IsInjective
      <3>. QED  BY <1>8, <2>3, <3>1
    <2>. QED  BY <2>2, <2>3
  <1>14. ASSUME NEW i \in DOMAIN w, NEW j \in DOMAIN w, i < j PROVE f[w[i]] <= f[w[j]]
    <2>1. CASE i # p + 1 /\ j # p + 1
      BY <1>7, <1>8, <1>14, <2>1 DEF Rising
    <2>2. CASE i = p + 1
      <3>1. j > p + 1 /\ j # p + 1
        BY <1>2, <1>11, <1>14, <2>2
      <3>2. ~ (f[w[j]] <= f[k])
        BY <1>3, <1>7, <1>9, <3>1
      <3>3. f[k] \in Nat /\ f[w[j]] \in Nat
        BY <1>1, <1>7, <3>1
      <3>. QED  BY <1>6, <2>2, <3>2, <3>3
    <2>3. CASE j = p + 1
      <3>1. i < p + 1 /\ i # p + 1
        BY <1>2, <1>11, <1>14, <2>3
      <3>2. f[w[i]] <= f[k]
        BY <1>3, <1>7, <1>9, <3>1
      <3>. QED  BY <1>6, <2>3, <3>2
    <2>. QED  BY <2>1, <2>2, <2>3
  <1>. QED  BY <1>4, <1>5, <1>12, <1>13, <1>14 DEF IsInjective, Rising

(* A cache: its fields, and what holds of it between calls.                *)
Caches == [cap : Nat \ {0}, buckets : Seq(Seq(Keys)), frequency : Seq(Keys),
           recency : Seq(Keys), len : Nat, tick : Nat,
           freq : [Keys -> 0 .. Word - 1], lastTick : [Keys -> Nat]]

BucketOf(n, k) == (HashOf[k] % n) + 1

(* The keys in each of the buckets are those of E that belong into it.     *)
Filed(buckets, E) ==
    /\ Len(buckets) # 0
    /\ \A b \in DOMAIN buckets :
          /\ IsInjective(buckets[b])
          /\ \A k : k \in Range(buckets[b]) <=> k \in E /\ BucketOf(Len(buckets), k) = b

Agree(c) ==
    /\ c \in Caches
    /\ IsInjective(c.frequency) /\ IsInjective(c.recency)
    /\ Range(c.recency) = Range(c.frequency)
    /\ Cardinality(Range(c.frequency)) = c.len
    /\ Filed(c.buckets, Range(c.frequency))
    /\ Rising(c.frequency, c.freq)

(* What no operation but a reload and a growth of the table changes.       *)
SameTable(c, d) == d.cap = c.cap /\ Len(d.buckets) = Len(c.buckets)

LEMMA KeysOf ==
  ASSUME NEW s \in Seq(Keys)
  PROVE  IsFiniteSet(Range(s)) /\ Range(s) \subseteq Keys
  <1>1. Range(s) \subseteq Keys
    BY DEF Range
  <1>. QED  BY <1>1, FiniteRange

LEMMA OwnBucket ==
  ASSUME HashAssumption, NEW n \in Nat \ {0}, NEW k \in Keys
  PROVE  BucketOf(n, k) \in 1 .. n
  <1>1. HashOf[k] \in Nat
    BY DEF HashAssumption
  <1>2. HashOf[k] % n \in 0 .. n - 1
    BY <1>1
  <1>. QED  BY <1>2 DEF BucketOf

LEMMA FieldsOf ==
  ASSUME NEW c \in Caches
  PROVE  /\ c.cap \in Nat \ {0} /\ c.buckets \in Seq(Seq(Keys)) /\ c.frequency \in Seq(Keys)
         /\ c.recency \in Seq(Keys) /\ c.len \in Nat /\ c.tick \in Nat
         /\ c.freq \in [Keys -> 0 .. Word - 1] /\ c.lastTick \in [Keys -> Nat]
         /\ c.freq \in [Keys -> Nat] /\ Len(c.buckets) \in Nat
  BY DEF Caches

LEMMA BucketIs ==
  ASSUME NEW c, NEW k
  PROVE  Bucket(c, k) = BucketOf(Len(c.buckets), k)
  BY DEF Bucket, BucketOf

(* Of an entry that is in the cache.                                       *)
LEMMA LinkedIn ==
  ASSUME HashAssumption, NEW c, Agree(c), NEW k \in Range(c.frequency)
  PROVE  /\ k \in Keys /\ Bucket(c, k) \in DOMAIN c.buckets
         /\ k \in Range(c.buckets[Bucket(c, k)])
         /\ k \in Range(c.recency)
  <1>1. k \in Keys
    BY FieldsOf, KeysOf DEF Agree
  <1>2. Len(c.buckets) \in Nat \ {0} /\ DOMAIN c.buckets = 1 .. Len(c.buckets)
    BY FieldsOf DEF Agree, Filed
  <1>3. Bucket(c, k) \in DOMAIN c.buckets
    BY <1>1, <1>2, OwnBucket, BucketIs
  <1>. QED  BY <1>1, <1>3, BucketIs DEF Agree, Filed

LEMMA HoldsIs ==
  ASSUME HashAssumption, NEW c, Agree(c), NEW k \in Keys
  PROVE  /\ Bucket(c, k) \in DOMAIN c.buckets
         /\ Holds(c, k) <=> k \in Range(c.frequency)
  <1>1. Len(c.buckets) \in Nat \ {0} /\ DOMAIN c.buckets = 1 .. Len(c.buckets)
    BY FieldsOf DEF Agree, Filed
  <1>2. Bucket(c, k) \in DOMAIN c.buckets
    BY <1>1, OwnBucket, BucketIs
  <1>. QED  BY <1>2, BucketIs DEF Agree, Filed, Holds

(* An entry is taken out of a list and put to its front.                   *)
LEMMA ToFront ==
  ASSUME NEW s \in Seq(Keys), IsInjective(s), NEW k \in Range(s)
  PROVE  /\ Cons(k, Unlink(s, k)) \in Seq(Keys) /\ IsInjective(Cons(k, Unlink(s, k)))
         /\ Range(Cons(k, Unlink(s, k))) = Range(s)
  <1>. DEFINE u == Unlink(s, k)
  <1>1. u \in Seq(Keys) /\ IsInjective(u) /\ Range(u) = Range(s) \ {k}
    BY UnlinkIs
  <1>2. k \in Keys /\ k \notin Range(u)
    BY <1>1, KeysOf
  <1>. HIDE DEF u
  <1>3. Cons(k, u) \in Seq(Keys) /\ IsInjective(Cons(k, u)) /\ Range(Cons(k, u)) = Range(u) \cup {k}
    BY <1>1, <1>2, ConsLinks
  <1>. QED  BY <1>1, <1>3 DEF u

(* An entry is taken out of the tree and put in with another frequency.    *)
LEMMA Reordered ==
  ASSUME NEW s \in Seq(Keys), IsInjective(s), NEW k \in Range(s), NEW f \in [Keys -> Nat],
         NEW n \in Nat, Rising(s, f)
  PROVE  LET g == [f EXCEPT ![k] = n]
             t == Insert(Unlink(s, k), g, k)
         IN t \in Seq(Keys) /\ IsInjective(t) /\ Range(t) = Range(s) /\ Rising(t, g)
  <1>. DEFINE g == [f EXCEPT ![k] = n]
              u == Unlink(s, k)
  <1>1. u \in Seq(Keys) /\ IsInjective(u) /\ Range(u) = Range(s) \ {k} /\ Rising(u, f)
    BY UnlinkIs
  <1>2. k \in Keys /\ k \notin Range(u)
    BY <1>1, KeysOf
  <1>3. g \in [Keys -> Nat]
    OBVIOUS
  <1>. HIDE DEF u
  <1>4. \A i \in DOMAIN u : u[i] \in Keys /\ u[i] # k /\ g[u[i]] = f[u[i]]
    BY <1>1, <1>2, InRange, KeysOf
  <1>. HIDE DEF g
  <1>5. Rising(u, g)
    BY <1>1, <1>4 DEF Rising
  <1>6. /\ Insert(u, g, k) \in Seq(Keys) /\ IsInjective(Insert(u, g, k))
        /\ Range(Insert(u, g, k)) = Range(u) \cup {k} /\ Rising(Insert(u, g, k), g)
    BY <1>1, <1>2, <1>3, <1>5, InsertIs
  <1>. QED  BY <1>1, <1>6 DEF g, u

LEMMA DecayedIs ==
  ASSUME TicksAssumption, NEW c, Agree(c)
  PROVE  /\ Agree(Decayed(c)) /\ SameTable(c, Decayed(c))
         /\ Decayed(c).len = c.len /\ Range(Decayed(c).frequency) = Range(c.frequency)
  <1>. DEFINE k == Last(c.recency)
              n == c.freq[k] \div Delta(c, k)
              freq == [c.freq EXCEPT ![k] = n]
              recency == Cons(k, Unlink(c.recency, k))
              frequency == Insert(Unlink(c.frequency, k), freq, k)
  <1>1. c \in Caches
    BY DEF Agree
  <1>2. CASE c.recency = << >> \/ c.freq[k] = 0 \/ Delta(c, k) <= 1
    BY <1>2 DEF Decayed, SameTable
  <1>3. CASE ~ (c.recency = << >> \/ c.freq[k] = 0 \/ Delta(c, k) <= 1)
    <2>1. Decayed(c) = [c EXCEPT !.freq = freq, !.recency = recency, !.frequency = frequency]
      BY <1>3 DEF Decayed
    <2>2. k \in Range(c.recency) /\ k \in Range(c.frequency) /\ k \in Keys
      <3>1. Len(c.recency) \in DOMAIN c.recency
        BY <1>1, <1>3, FieldsOf
      <3>. QED  BY <1>1, <3>1, InRange, FieldsOf, KeysOf DEF Last, Agree
    <2>. HIDE DEF k
    <2>3. n \in 0 .. Word - 1
      <3>1. c.freq[k] \in 0 .. Word - 1 /\ Word \in Nat
        BY <1>1, <2>2, FieldsOf DEF TicksAssumption
      <3>2. Delta(c, k) \in Nat /\ Delta(c, k) > 1
        <4>1. c.tick - c.lastTick[k] \in Int
          BY <1>1, <2>2, FieldsOf
        <4>2. (c.tick - c.lastTick[k]) \div DecayTicks \in Int
          BY <4>1 DEF TicksAssumption
        <4>3. Delta(c, k) \in Nat
          BY <4>2 DEF TicksAssumption, Delta
        <4>. QED  BY <1>3, <4>3
      <3>. DEFINE x == c.freq[k]
                  d == Delta(c, k)
      <3>3. x \in Nat /\ d \in Nat /\ d > 1
        BY <3>1, <3>2
      <3>. HIDE DEF x, d
      <3>4. x \div d \in 0 .. x
        BY <3>3
      <3>. QED  BY <3>1, <3>4 DEF x, d
    <2>. HIDE DEF n
    <2>4. /\ recency \in Seq(Keys) /\ IsInjective(recency)
          /\ Range(recency) = Range(c.recency)
      BY <1>1, <2>2, FieldsOf, ToFront DEF Agree
    <2>5. /\ frequency \in Seq(Keys) /\ IsInjective(frequency)
          /\ Range(frequency) = Range(c.frequency) /\ Rising(frequency, freq)
      <3>1. n \in Nat /\ c.freq \in [Keys -> Nat] /\ c.frequency \in Seq(Keys)
            /\ IsInjective(c.frequency) /\ Rising(c.frequency, c.freq)
        BY <1>1, <2>3, FieldsOf DEF Agree
      <3>. QED  BY <2>2, <3>1, Reordered
    <2>6. freq \in [Keys -> 0 .. Word - 1]
      BY <1>1, <2>3, FieldsOf
    <2>. HIDE DEF freq, recency, frequency
    <2>7. /\ Decayed(c) \in Caches /\ SameTable(c, Decayed(c)) /\ Decayed(c).len = c.len
          /\ Decayed(c).buckets = c.buckets /\ Decayed(c).freq = freq
          /\ Decayed(c).recency = recency /\ Decayed(c).frequency = frequency
      BY <1>1, <2>1, <2>4, <2>5, <2>6 DEF Caches, SameTable
    <2>. QED  BY <2>4, <2>5, <2>7 DEF Agree
  <1>. QED  BY <1>2, <1>3

LEMMA UnlinkedIs ==
  ASSUME HashAssumption, NEW c, Agree(c), NEW k \in Range(c.frequency)
  PROVE  LET d == Unlinked(c, k)
         IN /\ Agree(d) /\ SameTable(c, d) /\ c.len > 0 /\ d.len = c.len - 1
            /\ Range(d.frequency) = Range(c.frequency) \ {k}
  <1>. DEFINE b == Bucket(c, k)
              row == Unlink(c.buckets[b], k)
              buckets == [c.buckets EXCEPT ![b] = row]
              frequency == Unlink(c.frequency, k)
              recency == Unlink(c.recency, k)
              d == Unlinked(c, k)
  <1>1. c \in Caches /\ k \in Keys /\ b \in DOMAIN c.buckets /\ k \in Range(c.buckets[b])
        /\ k \in Range(c.recency) /\ b = BucketOf(Len(c.buckets), k)
    BY LinkedIn, BucketIs DEF Agree
  <1>2. d = [c EXCEPT !.buckets = buckets, !.frequency = frequency, !.recency = recency,
                      !.len = c.len - 1]
    BY DEF Unlinked
  <1>3. /\ frequency \in Seq(Keys) /\ IsInjective(frequency)
        /\ Range(frequency) = Range(c.frequency) \ {k} /\ Rising(frequency, c.freq)
    BY <1>1, FieldsOf, UnlinkIs DEF Agree
  <1>4. /\ recency \in Seq(Keys) /\ IsInjective(recency)
        /\ Range(recency) = Range(c.recency) \ {k}
    BY <1>1, FieldsOf, UnlinkIs DEF Agree
  <1>5. c.buckets \in Seq(Seq(Keys)) /\ c.buckets[b] \in Seq(Keys) /\ IsInjective(c.buckets[b])
    BY <1>1, FieldsOf DEF Agree, Filed
  <1>. HIDE DEF b
  <1>6. /\ row \in Seq(Keys) /\ IsInjective(row)
        /\ Range(row) = Range(c.buckets[b]) \ {k}
    BY <1>1, <1>5, UnlinkIs
  <1>. HIDE DEF row, frequency, recency, d
  <1>7. /\ buckets \in Seq(Seq(Keys)) /\ Len(buckets) = Len(c.buckets)
        /\ DOMAIN buckets = DOMAIN c.buckets
        /\ \A i \in DOMAIN c.buckets : buckets[i] = IF i = b THEN row ELSE c.buckets[i]
    BY <1>1, <1>5, <1>6
  <1>. HIDE DEF buckets
  <1>8. Filed(buckets, Range(frequency))
    <2>1. Filed(c.buckets, Range(c.frequency))
      BY DEF Agree
    <2>. QED  BY <1>1, <1>3, <1>6, <1>7, <2>1 DEF Filed
  <1>9. c.len > 0 /\ Cardinality(Range(frequency)) = c.len - 1
    <2>1. IsFiniteSet(Range(c.frequency)) /\ Cardinality(Range(c.frequency)) = c.len
      BY <1>1, FieldsOf, KeysOf DEF Agree
    <2>. DEFINE S == Range(c.frequency)
    <2>2. k \in S /\ IsFiniteSet(S) /\ Cardinality(S) = c.len
      BY <2>1
    <2>. HIDE DEF S
    <2>3. Cardinality(S \ {k}) = Cardinality(S) - 1 /\ IsFiniteSet(S \ {k})
      BY <2>2, FS_RemoveElement
    <2>4. Cardinality(S \ {k}) \in Nat
      BY <2>3, FS_CardinalityType
    <2>5. c.len \in Nat
      BY <1>1, FieldsOf
    <2>6. Range(frequency) = S \ {k}
      BY <1>3 DEF S
    <2>. QED  BY <2>2, <2>3, <2>4, <2>5, <2>6
  <1>10. /\ d \in Caches /\ d.buckets = buckets /\ d.frequency = frequency /\ d.recency = recency
         /\ d.len = c.len - 1 /\ d.freq = c.freq /\ d.cap = c.cap
    <2>1. c.len - 1 \in Nat
      BY <1>1, <1>9, FieldsOf
    <2>. QED  BY <1>1, <1>2, <1>3, <1>4, <1>7, <2>1 DEF Caches
  <1>11. Agree(d)
    BY <1>3, <1>4, <1>8, <1>9, <1>10 DEF Agree
  <1>. QED  BY <1>3, <1>7, <1>9, <1>10, <1>11 DEF SameTable, d

LEMMA EvictedIs ==
  ASSUME HashAssumption, TicksAssumption, NEW c, Agree(c), c.len # 0
  PROVE  LET d == Evicted(c)
         IN /\ Agree(d) /\ SameTable(c, d) /\ d.len = c.len - 1
            /\ Range(d.frequency) \subseteq Range(c.frequency)
  <1>. DEFINE e == Decayed(c)
              k == Head(e.frequency)
  <1>1. Agree(e) /\ SameTable(c, e) /\ e.len = c.len /\ Range(e.frequency) = Range(c.frequency)
    BY DecayedIs
  <1>2. e \in Caches /\ Cardinality(Range(e.frequency)) = e.len
    BY <1>1 DEF Agree
  <1>3. Evicted(c) = IF e.frequency = << >> THEN e ELSE Unlinked(e, k)
    BY DEF Evicted
  <1>. HIDE DEF e
  <1>4. e.frequency # << >>
    <2>1. SUFFICES ASSUME e.frequency = << >> PROVE FALSE
      OBVIOUS
    <2>2. Range(e.frequency) = {}
      BY <2>1 DEF Range
    <2>3. Cardinality({}) = 0
      BY FS_EmptySet
    <2>. QED  BY <1>1, <1>2, <2>2, <2>3
  <1>5. k \in Range(e.frequency)
    <2>1. 1 \in DOMAIN e.frequency /\ k = e.frequency[1]
      BY <1>2, <1>4, FieldsOf
    <2>. QED  BY <2>1, InRange
  <1>. HIDE DEF k
  <1>6. /\ Agree(Unlinked(e, k)) /\ SameTable(e, Unlinked(e, k))
        /\ Unlinked(e, k).len = e.len - 1
        /\ Range(Unlinked(e, k).frequency) = Range(e.frequency) \ {k}
    BY <1>1, <1>5, UnlinkedIs
  <1>. QED  BY <1>1, <1>3, <1>4, <1>6 DEF SameTable

(* Entries leave one after the other.                                      *)
LEMMA EvictedToIs ==
  ASSUME HashAssumption, TicksAssumption, NEW c, Agree(c), NEW most \in Nat
  PROVE  LET d == EvictedTo(c, most)
         IN /\ Agree(d) /\ SameTable(c, d) /\ d.len <= most
            /\ Range(d.frequency) \subseteq Range(c.frequency)
  <1>. DEFINE L == c.len
              T == {d \in Caches : /\ Agree(d) /\ SameTable(c, d)
                                   /\ Range(d.frequency) \subseteq Range(c.frequency)}
              x == c
              Step(y, n) == IF y.len <= most THEN y ELSE Evicted(y)
              Body(f, n) == IF n = 0 THEN x ELSE Step(f[n - 1], n)
              Is(f) == f = [n \in 0 .. L |-> Body(f, n)]
              Inv(y, n) == y.len <= most \/ y.len <= L - n
  <1>1. L \in Nat
    BY FieldsOf DEF Agree
  <1>2. x \in T /\ Inv(x, 0)
    BY <1>1 DEF Agree, SameTable
  <1>3. ASSUME NEW n \in 1 .. L, NEW y \in T
        PROVE  Step(y, n) \in T /\ (Inv(y, n - 1) => Inv(Step(y, n), n))
    <2>1. CASE y.len <= most
      BY <2>1
    <2>2. CASE ~ (y.len <= most)
      <3>1. Agree(y) /\ SameTable(c, y) /\ y.len \in Nat /\ y.len # 0
            /\ Range(y.frequency) \subseteq Range(c.frequency)
        BY <2>2, FieldsOf
      <3>2. /\ Agree(Evicted(y)) /\ SameTable(y, Evicted(y)) /\ Evicted(y).len = y.len - 1
            /\ Range(Evicted(y).frequency) \subseteq Range(y.frequency)
        BY <3>1, EvictedIs
      <3>3. Evicted(y) \in T
        BY <3>1, <3>2 DEF SameTable, Agree
      <3>. QED  BY <1>1, <2>2, <3>1, <3>2, <3>3
    <2>. QED  BY <2>1, <2>2
  <1>4. EvictedTo(c, most) = (CHOOSE f : Is(f))[L]
    BY DEF EvictedTo
  <1>. HIDE DEF T, x, Step, Inv
  <1>5. \E f : Is(f)
    <2>. DEFINE F == [n \in 1 .. L |-> [y \in T |-> Step(y, n)]]
    <2>1. F \in [1 .. L -> [T -> T]]
      BY <1>3
    <2>2. PICK f \in [0 .. L -> T] : f[0] = x /\ \A n \in 1 .. L : f[n] = F[n][f[n - 1]]
      <3>1. L \in Nat /\ x \in T
        BY <1>1, <1>2
      <3>. HIDE DEF F, L, Is, Body
      <3>2. Chained(T, L, x, F)
        BY <2>1, <3>1, Chain
      <3>. QED  BY <3>2 DEF Chained
    <2>3. ASSUME NEW n \in 0 .. L PROVE f[n] = Body(f, n)
      <3>1. n # 0 => n \in 1 .. L /\ f[n - 1] \in T
        BY <1>1
      <3>. QED  BY <2>2, <3>1
    <2>. HIDE DEF Body
    <2>. QED  BY <2>3
  <1>6. PICK g : Is(g) /\ EvictedTo(c, most) = g[L]
    <2>1. Is(CHOOSE f : Is(f))
      <3>. HIDE DEF Is
      <3>. QED  BY <1>5
    <2>. HIDE DEF Is
    <2>. QED  BY <1>4, <2>1
  <1>7. g[L] \in T /\ Inv(g[L], L)
    <2>. DEFINE S == {n \in 0 .. L : g[n] \in T /\ Inv(g[n], n)}
    <2>1. \A n \in 0 .. L : g[n] = Body(g, n)
      <3>. HIDE DEF Body
      <3>. QED  BY <1>6
    <2>2. 0 \in S
      BY <1>1, <1>2, <2>1
    <2>3. ASSUME NEW n \in 1 .. L, n - 1 \in S PROVE n \in S
      BY <1>3, <2>1, <2>3
    <2>. HIDE DEF S
    <2>4. \A n \in 0 .. L : n \in S
      BY <1>1, <2>2, <2>3, UpTo
    <2>. QED  BY <1>1, <2>4 DEF S
  <1>8. g[L].len <= most
    <2>1. g[L].len \in Nat
      BY <1>7, FieldsOf DEF T
    <2>. QED  BY <1>1, <1>7, <2>1 DEF Inv
  <1>. QED  BY <1>6, <1>7, <1>8 DEF T

(* An entry is pushed to the front of its bucket.                          *)
LEMMA FiledIn ==
  ASSUME HashAssumption, NEW v \in Seq(Seq(Keys)), NEW E, Filed(v, E), NEW k \in Keys, k \notin E
  PROVE  LET w == [v EXCEPT ![BucketOf(Len(v), k)] = Cons(k, @)]
         IN w \in Seq(Seq(Keys)) /\ Len(w) = Len(v) /\ Filed(w, E \cup {k})
  <1>. DEFINE b == BucketOf(Len(v), k)
              row == Cons(k, v[b])
              w == [v EXCEPT ![b] = row]
  <1>1. Len(v) \in Nat \ {0} /\ DOMAIN v = 1 .. Len(v)
    BY DEF Filed
  <1>2. b \in DOMAIN v
    BY <1>1, OwnBucket
  <1>3. v[b] \in Seq(Keys) /\ IsInjective(v[b]) /\ k \notin Range(v[b])
    BY <1>2 DEF Filed
  <1>4. b = BucketOf(Len(v), k)
    OBVIOUS
  <1>. HIDE DEF b
  <1>5. row \in Seq(Keys) /\ IsInjective(row) /\ Range(row) = Range(v[b]) \cup {k}
    BY <1>3, ConsLinks
  <1>6. w = [v EXCEPT ![BucketOf(Len(v), k)] = Cons(k, @)]
    BY <1>4
  <1>. HIDE DEF row
  <1>7. /\ w \in Seq(Seq(Keys)) /\ Len(w) = Len(v) /\ DOMAIN w = DOMAIN v
        /\ \A i \in DOMAIN v : w[i] = IF i = b THEN row ELSE v[i]
    BY <1>2, <1>5
  <1>. HIDE DEF w
  <1>8. Filed(w, E \cup {k})
    <2>1. Len(w) # 0
      BY <1>1, <1>7
    <2>2. ASSUME NEW i \in DOMAIN w
          PROVE  /\ IsInjective(w[i])
                 /\ \A j : j \in Range(w[i]) <=> j \in E \cup {k} /\ BucketOf(Len(w), j) = i
      <3>1. /\ IsInjective(v[i])
            /\ \A j : j \in Range(v[i]) <=> j \in E /\ BucketOf(Len(v), j) = i
        BY <1>7 DEF Filed
      <3>2. CASE i = b
        BY <1>4, <1>5, <1>7, <3>1, <3>2
      <3>3. CASE i # b
        BY <1>4, <1>7, <3>1, <3>3
      <3>. QED  BY <3>2, <3>3
    <2>. QED  BY <2>1, <2>2 DEF Filed
  <1>. QED  BY <1>6, <1>7, <1>8

LEMMA LinkedIs ==
  ASSUME HashAssumption, TicksAssumption, NEW c, Agree(c),
         NEW k \in Keys, k \notin Range(c.frequency)
  PROVE  LET d == Linked(c, k, Bucket(c, k))
         IN Agree(d) /\ SameTable(c, d) /\ d.len = c.len + 1
  <1>. DEFINE g == [c.freq EXCEPT ![k] = 0]
              buckets == [c.buckets EXCEPT ![BucketOf(Len(c.buckets), k)] = Cons(k, @)]
              frequency == Insert(c.frequency, g, k)
              recency == Cons(k, c.recency)
              lastTick == [c.lastTick EXCEPT ![k] = c.tick]
              E == Range(c.frequency)
              d == Linked(c, k, Bucket(c, k))
  <1>1. c \in Caches
    BY DEF Agree
  <1>2. d = [c EXCEPT !.buckets = buckets, !.recency = recency, !.len = c.len + 1,
                      !.freq = g, !.lastTick = lastTick, !.frequency = frequency]
    BY BucketIs DEF Linked
  <1>3. g \in [Keys -> 0 .. Word - 1] /\ g \in [Keys -> Nat] /\ lastTick \in [Keys -> Nat]
    <2>1. Word - 1 \in Nat /\ 0 \in 0 .. Word - 1
      BY DEF TicksAssumption
    <2>. QED  BY <1>1, <2>1, FieldsOf
  <1>4. /\ recency \in Seq(Keys) /\ IsInjective(recency) /\ Range(recency) = E \cup {k}
    BY <1>1, FieldsOf, ConsLinks DEF Agree
  <1>5. /\ frequency \in Seq(Keys) /\ IsInjective(frequency)
        /\ Range(frequency) = E \cup {k} /\ Rising(frequency, g)
    <2>. DEFINE s == c.frequency
                f == c.freq
    <2>1. s \in Seq(Keys) /\ IsInjective(s) /\ k \notin Range(s) /\ Rising(s, f)
          /\ f \in [Keys -> Nat]
      BY <1>1, FieldsOf DEF Agree
    <2>2. g = [f EXCEPT ![k] = 0] /\ frequency = Insert(s, g, k) /\ E = Range(s)
      OBVIOUS
    <2>. HIDE DEF s, f, g, frequency, E
    <2>3. \A i \in DOMAIN s : s[i] \in Keys /\ s[i] # k /\ g[s[i]] = f[s[i]]
      BY <2>1, <2>2, InRange, KeysOf
    <2>4. Rising(s, g)
      BY <2>1, <2>3 DEF Rising
    <2>. QED  BY <1>3, <2>1, <2>2, <2>4, InsertIs
  <1>6. buckets \in Seq(Seq(Keys)) /\ Len(buckets) = Len(c.buckets) /\ Filed(buckets, E \cup {k})
    <2>1. c.buckets \in Seq(Seq(Keys)) /\ Filed(c.buckets, E) /\ k \notin E
      BY <1>1, FieldsOf DEF Agree
    <2>. HIDE DEF E
    <2>. QED  BY <2>1, FiledIn
  <1>7. Cardinality(E \cup {k}) = c.len + 1 /\ c.len + 1 \in Nat
    <2>1. IsFiniteSet(E) /\ Cardinality(E) = c.len /\ k \notin E /\ c.len \in Nat
      BY <1>1, FieldsOf, KeysOf DEF Agree
    <2>. HIDE DEF E
    <2>2. Cardinality(E \cup {k}) = Cardinality(E) + 1
      BY <2>1, FS_AddElement
    <2>. QED  BY <2>1, <2>2
  <1>. HIDE DEF buckets, frequency, recency, lastTick, g, d
  <1>8. /\ d \in Caches /\ d.buckets = buckets /\ d.frequency = frequency /\ d.recency = recency
        /\ d.len = c.len + 1 /\ d.freq = g /\ d.cap = c.cap
    BY <1>1, <1>2, <1>3, <1>4, <1>5, <1>6, <1>7 DEF Caches
  <1>. HIDE DEF E
  <1>9. Agree(d)
    BY <1>4, <1>5, <1>6, <1>7, <1>8 DEF Agree
  <1>. QED  BY <1>6, <1>8, <1>9 DEF SameTable, d

(* The first n of a sequence.                                              *)
FirstOf(s, n) == {s[i] : i \in 1 .. n}

LEMMA RehashedIs ==
  ASSUME HashAssumption, NEW v \in Seq(Seq(Keys)), Len(v) # 0, NEW s \in Seq(Keys), NEW E
  PROVE  LET w == Rehashed(v, s)
         IN /\ w \in Seq(Seq(Keys)) /\ Len(w) = Len(v)
            /\ Filed(v, E) /\ IsInjective(s) /\ Range(s) \cap E = {}
                  => Filed(w, E \cup Range(s))
  <1>. DEFINE L == Len(s)
              T == {y \in Seq(Seq(Keys)) : Len(y) = Len(v)}
              x == v
              Step(y, n) == [y EXCEPT ![(HashOf[s[n]] % Len(v)) + 1] = Cons(s[n], @)]
              Body(f, n) == IF n = 0 THEN x ELSE Step(f[n - 1], n)
              Is(f) == f = [n \in 0 .. L |-> Body(f, n)]
              Fits == Filed(v, E) /\ IsInjective(s) /\ Range(s) \cap E = {}
              Inv(y, n) == Fits => Filed(y, E \cup FirstOf(s, n))
  <1>1. L \in Nat /\ DOMAIN s = 1 .. L /\ \A n \in 1 .. L : s[n] \in Keys
    OBVIOUS
  <1>2. x \in T /\ Inv(x, 0)
    <2>1. FirstOf(s, 0) = {}
      BY DEF FirstOf
    <2>2. E \cup FirstOf(s, 0) = E
      BY <2>1
    <2>. QED  BY <2>2 DEF Filed
  <1>3. ASSUME NEW n \in 1 .. L, NEW y \in T
        PROVE  Step(y, n) \in T /\ (Inv(y, n - 1) => Inv(Step(y, n), n))
    <2>. DEFINE k == s[n]
                D == E \cup FirstOf(s, n - 1)
                z == Step(y, n)
    <2>1. k \in Keys /\ z = [y EXCEPT ![BucketOf(Len(y), k)] = Cons(k, @)]
          /\ y \in Seq(Seq(Keys)) /\ Len(y) = Len(v)
      BY <1>1 DEF BucketOf
    <2>. HIDE DEF z
    <2>2. z \in Seq(Seq(Keys)) /\ Len(z) = Len(v)
      <3>1. Len(y) \in Nat \ {0} /\ DOMAIN y = 1 .. Len(y)
        BY <2>1
      <3>. HIDE DEF k, T
      <3>. DEFINE b == BucketOf(Len(y), k)
      <3>2. b \in DOMAIN y
        BY <2>1, <3>1, OwnBucket
      <3>. HIDE DEF b
      <3>3. y[b] \in Seq(Keys)
        BY <2>1, <3>1, <3>2
      <3>. DEFINE row == Cons(k, y[b])
      <3>4. row \in Seq(Keys)
        BY <2>1, <3>3, ConsIs
      <3>5. z = [y EXCEPT ![b] = row]
        BY <2>1 DEF b
      <3>. HIDE DEF row
      <3>6. [y EXCEPT ![b] = row] \in Seq(Seq(Keys)) /\ Len([y EXCEPT ![b] = row]) = Len(y)
        BY <2>1, <3>2, <3>4
      <3>. QED  BY <2>1, <3>5, <3>6
    <2>3. ASSUME Inv(y, n - 1), Fits PROVE Filed(z, E \cup FirstOf(s, n))
      <3>1. k \notin D
        <4>1. k \in Range(s)
          BY <1>1, InRange
        <4>2. ASSUME NEW i \in 1 .. n - 1 PROVE s[i] # k
          <5>1. i \in DOMAIN s /\ n \in DOMAIN s /\ i # n
            BY <1>1
          <5>. QED  BY <2>3, <5>1 DEF IsInjective
        <4>. QED  BY <2>3, <4>1, <4>2 DEF FirstOf
      <3>2. D \cup {k} = E \cup FirstOf(s, n)
        <4>1. 1 .. n = (1 .. n - 1) \cup {n}
          BY <1>1
        <4>2. FirstOf(s, n) = FirstOf(s, n - 1) \cup {k}
          BY <4>1 DEF FirstOf
        <4>. QED  BY <4>2
      <3>3. Filed(y, D)
        BY <2>3
      <3>. HIDE DEF D, k, T
      <3>4. Filed(z, D \cup {k})
        BY <2>1, <3>1, <3>3, FiledIn
      <3>. QED  BY <3>2, <3>4
    <2>. QED  BY <2>2, <2>3 DEF z
  <1>4. Rehashed(v, s) = (CHOOSE f : Is(f))[L]
    BY DEF Rehashed
  <1>. HIDE DEF T, x, Step, Inv, Fits, L
  <1>5. \E f : Is(f)
    <2>. DEFINE F == [n \in 1 .. L |-> [y \in T |-> Step(y, n)]]
    <2>1. F \in [1 .. L -> [T -> T]]
      BY <1>3
    <2>2. PICK f \in [0 .. L -> T] : f[0] = x /\ \A n \in 1 .. L : f[n] = F[n][f[n - 1]]
      <3>1. L \in Nat /\ x \in T
        BY <1>1, <1>2
      <3>. HIDE DEF F, L, Is, Body
      <3>2. Chained(T, L, x, F)
        BY <2>1, <3>1, Chain
      <3>. QED  BY <3>2 DEF Chained
    <2>3. ASSUME NEW n \in 0 .. L PROVE f[n] = Body(f, n)
      <3>1. n # 0 => n \in 1 .. L /\ f[n - 1] \in T
        BY <1>1
      <3>. QED  BY <2>2, <3>1
    <2>. HIDE DEF Body
    <2>. QED  BY <2>3
  <1>6. PICK g : Is(g) /\ Rehashed(v, s) = g[L]
    <2>1. Is(CHOOSE f : Is(f))
      <3>. HIDE DEF Is
      <3>. QED  BY <1>5
    <2>. HIDE DEF Is
    <2>. QED  BY <1>4, <2>1
  <1>7. g[L] \in T /\ Inv(g[L], L)
    <2>. DEFINE S == {n \in 0 .. L : g[n] \in T /\ Inv(g[n], n)}
    <2>1. \A n \in 0 .. L : g[n] = Body(g, n)
      <3>. HIDE DEF Body
      <3>. QED  BY <1>6
    <2>2. 0 \in S
      BY <1>1, <1>2, <2>1
    <2>3. ASSUME NEW n \in 1 .. L, n - 1 \in S PROVE n \in S
      BY <1>3, <2>1, <2>3
    <2>. HIDE DEF S
    <2>4. \A n \in 0 .. L : n \in S
      BY <1>1, <2>2, <2>3, UpTo
    <2>. QED  BY <1>1, <2>4 DEF S
  <1>8. FirstOf(s, L) = Range(s)
    BY <1>1 DEF FirstOf, Range
  <1>. QED  BY <1>6, <1>7, <1>8 DEF T, Inv, Fits

(* A table of empty buckets.                                               *)
LEMMA NoneFiled ==
  ASSUME NEW n \in Nat \ {0}
  PROVE  LET v == [i \in 1 .. n |-> << >>]
         IN v \in Seq(Seq(Keys)) /\ Len(v) = n /\ Filed(v, {})
  <1>. DEFINE v == [i \in 1 .. n |-> << >>]
  <1>1. v \in Seq(Seq(Keys)) /\ Len(v) = n /\ DOMAIN v = 1 .. n
    OBVIOUS
  <1>2. IsInjective(<< >>) /\ Range(<< >>) = {}
    BY DEF IsInjective, Range
  <1>3. \A i \in DOMAIN v : v[i] = << >>
    OBVIOUS
  <1>. HIDE DEF v
  <1>4. Filed(v, {})
    BY <1>1, <1>2, <1>3 DEF Filed
  <1>. QED  BY <1>1, <1>4 DEF v

LEMMA GrownIs ==
  ASSUME HashAssumption, NEW c, Agree(c)
  PROVE  LET d == Grown(c) IN Agree(d) /\ d.len = c.len /\ d.cap = c.cap
  <1>. DEFINE v == c.buckets
              L == Len(v)
              E == Range(c.frequency)
              In(n) == {k \in E : BucketOf(L, k) <= n}
              x == [i \in 1 .. 2 * L |-> << >>]
              T == {y \in Seq(Seq(Keys)) : Len(y) = 2 * L}
              Step(y, n) == Rehashed(y, v[n])
              Body(f, n) == IF n = 0 THEN x ELSE Step(f[n - 1], n)
              Is(f) == f = [n \in 0 .. L |-> Body(f, n)]
              Inv(y, n) == Filed(y, In(n))
  <1>. HIDE DEF E
  <1>1. /\ L \in Nat /\ L # 0 /\ DOMAIN v = 1 .. L /\ E \subseteq Keys
        /\ \A n \in 1 .. L : /\ v[n] \in Seq(Keys) /\ IsInjective(v[n])
                             /\ \A k : k \in Range(v[n]) <=> k \in E /\ BucketOf(L, k) = n
    <2>1. v \in Seq(Seq(Keys)) /\ Filed(v, E)
      BY FieldsOf DEF Agree, E
    <2>2. E \subseteq Keys
      BY FieldsOf, KeysOf DEF Agree, E
    <2>. HIDE DEF v
    <2>. QED  BY <2>1, <2>2 DEF Filed
  <1>. HIDE DEF v
  <1>2. \A k \in E : BucketOf(L, k) \in 1 .. L
    BY <1>1, OwnBucket
  <1>3. x \in T /\ Inv(x, 0)
    <2>1. In(0) = {}
      BY <1>2
    <2>2. 2 * L \in Nat \ {0}
      BY <1>1
    <2>. HIDE DEF In, L
    <2>. QED  BY <2>1, <2>2, NoneFiled
  <1>4. ASSUME NEW n \in 1 .. L, NEW y \in T
        PROVE  Step(y, n) \in T /\ (Inv(y, n - 1) => Inv(Step(y, n), n))
    <2>1. In(n) = In(n - 1) \cup Range(v[n]) /\ Range(v[n]) \cap In(n - 1) = {}
      <3>1. \A k \in E : BucketOf(L, k) \in Nat
        BY <1>2
      <3>. QED  BY <1>1, <3>1
    <2>2. v[n] \in Seq(Keys) /\ IsInjective(v[n]) /\ y \in Seq(Seq(Keys)) /\ Len(y) = 2 * L
          /\ Len(y) # 0
      BY <1>1
    <2>. HIDE DEF In, L, T
    <2>3. /\ Step(y, n) \in Seq(Seq(Keys)) /\ Len(Step(y, n)) = Len(y)
          /\ Filed(y, In(n - 1)) => Filed(Step(y, n), In(n - 1) \cup Range(v[n]))
      BY <2>1, <2>2, RehashedIs
    <2>. QED  BY <2>1, <2>2, <2>3 DEF T
  <1>. DEFINE d == Grown(c)
              buckets == d.buckets
  <1>5. d = [c EXCEPT !.buckets = (CHOOSE f : Is(f))[L]]
    BY DEF Grown, v
  <1>6. c \in Caches
    BY DEF Agree
  <1>7. d.buckets = (CHOOSE f : Is(f))[L]
    BY <1>5, <1>6 DEF Caches
  <1>. HIDE DEF T, x, Step, Inv, L, In, d
  <1>8. \E f : Is(f)
    <2>. DEFINE F == [n \in 1 .. L |-> [y \in T |-> Step(y, n)]]
    <2>1. F \in [1 .. L -> [T -> T]]
      BY <1>4
    <2>2. PICK f \in [0 .. L -> T] : f[0] = x /\ \A n \in 1 .. L : f[n] = F[n][f[n - 1]]
      <3>1. L \in Nat /\ x \in T
        BY <1>1, <1>3
      <3>. HIDE DEF F, L, Is, Body
      <3>2. Chained(T, L, x, F)
        BY <2>1, <3>1, Chain
      <3>. QED  BY <3>2 DEF Chained
    <2>3. ASSUME NEW n \in 0 .. L PROVE f[n] = Body(f, n)
      <3>1. n # 0 => n \in 1 .. L /\ f[n - 1] \in T
        BY <1>1
      <3>. QED  BY <2>2, <3>1
    <2>. HIDE DEF Body
    <2>. QED  BY <2>3
  <1>9. PICK g : Is(g) /\ d.buckets = g[L]
    <2>1. Is(CHOOSE f : Is(f))
      <3>. HIDE DEF Is
      <3>. QED  BY <1>8
    <2>. HIDE DEF Is
    <2>. QED  BY <1>7, <2>1
  <1>10. g[L] \in T /\ Inv(g[L], L)
    <2>. DEFINE S == {n \in 0 .. L : g[n] \in T /\ Inv(g[n], n)}
    <2>1. \A n \in 0 .. L : g[n] = Body(g, n)
      <3>. HIDE DEF Body
      <3>. QED  BY <1>9
    <2>2. 0 \in S
      BY <1>1, <1>3, <2>1
    <2>3. ASSUME NEW n \in 1 .. L, n - 1 \in S PROVE n \in S
      BY <1>4, <2>1, <2>3
    <2>. HIDE DEF S
    <2>4. \A n \in 0 .. L : n \in S
      BY <1>1, <2>2, <2>3, UpTo
    <2>. QED  BY <1>1, <2>4 DEF S
  <1>11. In(L) = E
    BY <1>1, <1>2 DEF In
  <1>12. g[L] \in Seq(Seq(Keys)) /\ Filed(g[L], E)
    BY <1>10, <1>11 DEF T, Inv
  <1>13. d = [c EXCEPT !.buckets = g[L]]
    BY <1>5, <1>9, <1>7
  <1>14. /\ d \in Caches /\ d.buckets = g[L] /\ d.frequency = c.frequency /\ d.recency = c.recency
         /\ d.len = c.len /\ d.freq = c.freq /\ d.cap = c.cap
    BY <1>6, <1>12, <1>13 DEF Caches
  <1>15. Agree(d)
    BY <1>12, <1>14 DEF Agree, E
  <1>. QED  BY <1>14, <1>15 DEF d

(* The number of buckets of a new table is not 0.                          *)
LEMMA NumBucketsIs ==
  ASSUME NEW cap \in Nat
  PROVE  NumBuckets(cap) \in Nat \ {0}
  <1>. DEFINE L == cap \div 10
              T == Nat \ {0}
              x == 1
              Step(y, n) == IF y >= L THEN y ELSE 2 * y
              Body(f, n) == IF n = 0 THEN x ELSE Step(f[n - 1], n)
              Is(f) == f = [n \in 0 .. L |-> Body(f, n)]
              Inv(y, n) == y # 0
  <1>1. L \in Nat
    OBVIOUS
  <1>2. x \in T /\ Inv(x, 0)
    OBVIOUS
  <1>3. ASSUME NEW n \in 1 .. L, NEW y \in T
        PROVE  Step(y, n) \in T /\ (Inv(y, n - 1) => Inv(Step(y, n), n))
    BY <1>1
  <1>4. NumBuckets(cap) = (CHOOSE f : Is(f))[L]
    BY DEF NumBuckets, NextPowerOfTwo
  <1>. HIDE DEF T, x, Step, Inv, L
  <1>5. \E f : Is(f)
    <2>. DEFINE F == [n \in 1 .. L |-> [y \in T |-> Step(y, n)]]
    <2>1. F \in [1 .. L -> [T -> T]]
      BY <1>3
    <2>2. PICK f \in [0 .. L -> T] : f[0] = x /\ \A n \in 1 .. L : f[n] = F[n][f[n - 1]]
      <3>1. L \in Nat /\ x \in T
        BY <1>1, <1>2
      <3>. HIDE DEF F, L, Is, Body
      <3>2. Chained(T, L, x, F)
        BY <2>1, <3>1, Chain
      <3>. QED  BY <3>2 DEF Chained
    <2>3. ASSUME NEW n \in 0 .. L PROVE f[n] = Body(f, n)
      <3>1. n # 0 => n \in 1 .. L /\ f[n - 1] \in T
        BY <1>1
      <3>. QED  BY <2>2, <3>1
    <2>. HIDE DEF Body
    <2>. QED  BY <2>3
  <1>6. PICK g : Is(g) /\ NumBuckets(cap) = g[L]
    <2>1. Is(CHOOSE f : Is(f))
      <3>. HIDE DEF Is
      <3>. QED  BY <1>5
    <2>. HIDE DEF Is
    <2>. QED  BY <1>4, <2>1
  <1>7. g[L] \in T /\ Inv(g[L], L)
    <2>. DEFINE S == {n \in 0 .. L : g[n] \in T /\ Inv(g[n], n)}
    <2>1. \A n \in 0 .. L : g[n] = Body(g, n)
      <3>. HIDE DEF Body
      <3>. QED  BY <1>6
    <2>2. 0 \in S
      BY <1>1, <1>2, <2>1
    <2>3. ASSUME NEW n \in 1 .. L, n - 1 \in S PROVE n \in S
      BY <1>3, <2>1, <2>3
    <2>. HIDE DEF S
    <2>4. \A n \in 0 .. L : n \in S
      BY <1>1, <2>2, <2>3, UpTo
    <2>. QED  BY <1>1, <2>4 DEF S
  <1>. QED  BY <1>6, <1>7 DEF T

(* A cache of no entries.                                                  *)
LEMMA NoneAgree ==
  ASSUME NEW c \in Caches, c.frequency = << >>, c.recency = << >>, c.len = 0, Filed(c.buckets, {})
  PROVE  Agree(c)
  <1>1. IsInjective(<< >>) /\ Range(<< >>) = {} /\ Rising(<< >>, c.freq)
    BY DEF IsInjective, Range, Rising
  <1>2. Cardinality({}) = 0
    BY FS_EmptySet
  <1>3. /\ IsInjective(c.frequency) /\ IsInjective(c.recency) /\ Range(c.frequency) = {}
        /\ Range(c.recency) = {} /\ Rising(c.frequency, c.freq)
    BY <1>1
  <1>4. Cardinality(Range(c.frequency)) = c.len /\ Filed(c.buckets, Range(c.frequency))
    BY <1>2, <1>3
  <1>. QED  BY <1>3, <1>4 DEF Agree

(* Only the tick, only the capacity is another one.                        *)
LEMMA TickIs ==
  ASSUME NEW c \in Caches, NEW t \in Nat
  PROVE  LET d == [c EXCEPT !.tick = t]
         IN /\ d \in Caches /\ d.buckets = c.buckets /\ d.frequency = c.frequency
            /\ d.recency = c.recency /\ d.len = c.len /\ d.freq = c.freq /\ d.cap = c.cap
  BY DEF Caches

LEMMA ClearedIs ==
  ASSUME NEW c \in Caches, NEW v \in Seq(Seq(Keys))
  PROVE  LET d == [c EXCEPT !.frequency = << >>, !.recency = << >>, !.len = 0, !.buckets = v]
         IN /\ d \in Caches /\ d.buckets = v /\ d.frequency = << >> /\ d.recency = << >>
            /\ d.len = 0 /\ d.cap = c.cap
  <1>. DEFINE none == << >>
              d == [c EXCEPT !.frequency = none, !.recency = none, !.len = 0, !.buckets = v]
  <1>1. none \in Seq(Keys) /\ 0 \in Nat
    OBVIOUS
  <1>. HIDE DEF none
  <1>2. /\ d \in Caches /\ d.buckets = v /\ d.frequency = none /\ d.recency = none
        /\ d.len = 0 /\ d.cap = c.cap
    BY <1>1 DEF Caches
  <1>. QED  BY <1>2 DEF none

CacheInv == Agree(cache) /\ cache.len <= cache.cap

LEMMA CacheInitially ==
  ASSUME CapsAssumption, TicksAssumption
  PROVE  CacheInit => CacheInv
  <1>1. SUFFICES ASSUME CacheInit PROVE CacheInv
    OBVIOUS
  <1>2. PICK cap \in Caps :
          cache = [cap |-> cap, buckets |-> [i \in 1 .. NumBuckets(cap) |-> << >>],
                   frequency |-> << >>, recency |-> << >>, len |-> 0, tick |-> 0,
                   freq |-> [k \in Keys |-> 0], lastTick |-> [k \in Keys |-> 0]]
    BY <1>1 DEF CacheInit
  <1>. DEFINE v == [i \in 1 .. NumBuckets(cap) |-> << >>]
  <1>3. cap \in Nat \ {0} /\ Word - 1 \in Nat
    BY DEF CapsAssumption, TicksAssumption
  <1>4. v \in Seq(Seq(Keys)) /\ Filed(v, {})
    BY <1>3, NumBucketsIs, NoneFiled
  <1>. HIDE DEF v
  <1>5. cache = [cap |-> cap, buckets |-> v,
                 frequency |-> << >>, recency |-> << >>, len |-> 0, tick |-> 0,
                 freq |-> [k \in Keys |-> 0], lastTick |-> [k \in Keys |-> 0]]
    BY <1>2 DEF v
  <1>6. /\ cache \in Caches /\ cache.buckets = v /\ cache.frequency = << >>
        /\ cache.recency = << >> /\ cache.len = 0 /\ cache.cap = cap
    BY <1>3, <1>4, <1>5 DEF Caches
  <1>7. Agree(cache)
    BY <1>4, <1>6, NoneAgree
  <1>. QED  BY <1>3, <1>6, <1>7 DEF CacheInv

LEMMA AgreeStill ==
  ASSUME NEW c, Agree(c), NEW d \in Caches, d.buckets = c.buckets, d.frequency = c.frequency,
         d.recency = c.recency, d.len = c.len, d.freq = c.freq
  PROVE  Agree(d)
  BY DEF Agree

LEMMA PutKeeps ==
  ASSUME HashAssumption, TicksAssumption, CacheInv, NEW k \in Keys, Put(k)
  PROVE  CacheInv'
  <1>. DEFINE ticked == [cache EXCEPT !.tick = @ + 1]
              fresh == IF Holds(cache, k) THEN Unlinked(ticked, k) ELSE ticked
              room == Room(fresh)
              stored == Linked(room, k, Bucket(cache, k))
  <1>1. Agree(cache) /\ cache \in Caches /\ cache.len \in Nat /\ cache.cap \in Nat \ {0}
        /\ cache.len <= cache.cap
    BY FieldsOf DEF CacheInv, Agree
  <1>2. Agree(ticked) /\ SameTable(cache, ticked) /\ ticked.frequency = cache.frequency
        /\ ticked.len = cache.len
    <2>1. /\ ticked \in Caches /\ ticked.buckets = cache.buckets
          /\ ticked.frequency = cache.frequency /\ ticked.recency = cache.recency
          /\ ticked.len = cache.len /\ ticked.freq = cache.freq /\ ticked.cap = cache.cap
      <3>1. cache.tick + 1 \in Nat
        BY <1>1, FieldsOf
      <3>. QED  BY <1>1, <3>1, TickIs
    <2>. HIDE DEF ticked
    <2>. QED  BY <1>1, <2>1, AgreeStill DEF SameTable
  <1>3. cache' = stored \/ cache' = Grown(stored)
    BY DEF Put
  <1>. HIDE DEF ticked
  <1>4. Agree(fresh) /\ SameTable(cache, fresh) /\ k \notin Range(fresh.frequency)
    <2>1. Holds(cache, k) <=> k \in Range(ticked.frequency)
      BY <1>1, <1>2, HoldsIs
    <2>2. CASE Holds(cache, k)
      <3>1. k \in Range(ticked.frequency) /\ fresh = Unlinked(ticked, k)
        BY <2>1, <2>2
      <3>. HIDE DEF fresh
      <3>2. /\ Agree(fresh) /\ SameTable(ticked, fresh)
            /\ Range(fresh.frequency) = Range(ticked.frequency) \ {k}
        BY <1>2, <3>1, UnlinkedIs
      <3>. QED  BY <1>2, <3>2 DEF SameTable
    <2>3. CASE ~ Holds(cache, k)
      BY <1>2, <2>1, <2>3
    <2>. QED  BY <2>2, <2>3
  <1>. HIDE DEF fresh
  <1>5. /\ Agree(room) /\ SameTable(cache, room) /\ room.len <= cache.cap - 1
        /\ k \notin Range(room.frequency)
    <2>1. fresh.cap = cache.cap /\ cache.cap - 1 \in Nat
      BY <1>1, <1>4 DEF SameTable
    <2>2. room = EvictedTo(fresh, cache.cap - 1)
      BY <2>1 DEF Room
    <2>3. /\ Agree(room) /\ SameTable(fresh, room) /\ room.len <= cache.cap - 1
          /\ Range(room.frequency) \subseteq Range(fresh.frequency)
      BY <1>4, <2>1, <2>2, EvictedToIs
    <2>. QED  BY <1>4, <2>3 DEF SameTable
  <1>. HIDE DEF room
  <1>6. Bucket(cache, k) = Bucket(room, k)
    BY <1>5, BucketIs DEF SameTable
  <1>7. stored = Linked(room, k, Bucket(room, k))
    BY <1>6
  <1>. HIDE DEF stored
  <1>8. Agree(stored) /\ SameTable(room, stored) /\ stored.len = room.len + 1
    BY <1>5, <1>7, LinkedIs
  <1>9. stored.len <= stored.cap
    <2>1. room.len \in Nat
      BY <1>5, FieldsOf DEF Agree
    <2>. QED  BY <1>1, <1>5, <1>8, <2>1 DEF SameTable
  <1>10. CASE cache' = stored
    BY <1>8, <1>9, <1>10 DEF CacheInv
  <1>11. CASE cache' = Grown(stored)
    <2>1. Agree(cache') /\ cache.len' = stored.len /\ cache.cap' = stored.cap
      BY <1>8, <1>11, GrownIs
    <2>. QED  BY <1>9, <2>1 DEF CacheInv
  <1>. QED  BY <1>3, <1>10, <1>11

LEMMA GetKeeps ==
  ASSUME HashAssumption, TicksAssumption, CacheInv, NEW k \in Keys, Get(k)
  PROVE  CacheInv'
  <1>. DEFINE n == IF cache.freq[k] = Word - 1 THEN cache.freq[k] ELSE cache.freq[k] + 1
              g == [cache.freq EXCEPT ![k] = n]
              recency == Cons(k, Unlink(cache.recency, k))
              frequency == Insert(Unlink(cache.frequency, k), g, k)
              lastTick == [cache.lastTick EXCEPT ![k] = cache.tick + 1]
  <1>1. Agree(cache) /\ cache \in Caches
    BY DEF CacheInv, Agree
  <1>2. cache' = [cache EXCEPT !.recency = recency, !.tick = @ + 1, !.lastTick = lastTick,
                               !.freq = g, !.frequency = frequency]
    BY DEF Get
  <1>3. k \in Range(cache.frequency) /\ k \in Range(cache.recency)
    BY <1>1, HoldsIs, LinkedIn DEF Get
  <1>4. n \in 0 .. Word - 1 /\ n \in Nat
    <2>1. cache.freq[k] \in 0 .. Word - 1 /\ Word \in Nat
      BY <1>1, FieldsOf DEF TicksAssumption
    <2>. QED  BY <2>1
  <1>. HIDE DEF n
  <1>5. /\ recency \in Seq(Keys) /\ IsInjective(recency)
        /\ Range(recency) = Range(cache.recency)
    BY <1>1, <1>3, FieldsOf, ToFront DEF Agree
  <1>6. /\ frequency \in Seq(Keys) /\ IsInjective(frequency)
        /\ Range(frequency) = Range(cache.frequency) /\ Rising(frequency, g)
    <2>1. cache.freq \in [Keys -> Nat] /\ cache.frequency \in Seq(Keys)
          /\ IsInjective(cache.frequency) /\ Rising(cache.frequency, cache.freq)
      BY <1>1, FieldsOf DEF Agree
    <2>. QED  BY <1>3, <1>4, <2>1, Reordered
  <1>7. g \in [Keys -> 0 .. Word - 1] /\ cache.tick + 1 \in Nat /\ lastTick \in [Keys -> Nat]
    BY <1>1, <1>4, FieldsOf
  <1>. HIDE DEF g, recency, frequency, lastTick
  <1>8. /\ cache' \in Caches /\ cache.buckets' = cache.buckets /\ cache.freq' = g
        /\ cache.recency' = recency /\ cache.frequency' = frequency /\ cache.len' = cache.len
        /\ cache.cap' = cache.cap
    BY <1>1, <1>2, <1>5, <1>6, <1>7 DEF Caches
  <1>9. Agree(cache')
    BY <1>1, <1>5, <1>6, <1>8 DEF Agree
  <1>. QED  BY <1>8, <1>9 DEF CacheInv

LEMMA UpdateConfigKeeps ==
  ASSUME HashAssumption, TicksAssumption, CapsAssumption, CacheInv,
         NEW cap \in Caps, UpdateConfig(cap)
  PROVE  CacheInv'
  <1>. DEFINE c == [cache EXCEPT !.cap = cap]
  <1>1. Agree(cache) /\ cache \in Caches /\ cap \in Nat \ {0}
    BY DEF CacheInv, Agree, CapsAssumption
  <1>2. /\ c \in Caches /\ c.buckets = cache.buckets /\ c.frequency = cache.frequency
        /\ c.recency = cache.recency /\ c.len = cache.len /\ c.freq = cache.freq /\ c.cap = cap
    BY <1>1 DEF Caches
  <1>3. cache' = EvictedTo(c, cap)
    BY DEF UpdateConfig
  <1>. HIDE DEF c
  <1>4. Agree(c)
    BY <1>1, <1>2, AgreeStill
  <1>5. Agree(EvictedTo(c, cap)) /\ SameTable(c, EvictedTo(c, cap)) /\ EvictedTo(c, cap).len <= cap
    BY <1>1, <1>4, EvictedToIs
  <1>. QED  BY <1>2, <1>3, <1>5 DEF CacheInv, SameTable

LEMMA ClearKeeps ==
  ASSUME HashAssumption, CacheInv, Clear
  PROVE  CacheInv'
  <1>. DEFINE n == Len(cache.buckets)
              v == [i \in 1 .. n |-> << >>]
  <1>1. Agree(cache) /\ cache \in Caches /\ n \in Nat \ {0} /\ DOMAIN cache.buckets = 1 .. n
    BY FieldsOf DEF CacheInv, Agree, Filed
  <1>2. cache' = [cache EXCEPT !.frequency = << >>, !.recency = << >>, !.len = 0, !.buckets = v]
    BY <1>1 DEF Clear
  <1>. HIDE DEF n
  <1>3. v \in Seq(Seq(Keys)) /\ Filed(v, {})
    BY <1>1, NoneFiled
  <1>. HIDE DEF v
  <1>4. /\ cache' \in Caches /\ cache.buckets' = v /\ cache.frequency' = << >>
        /\ cache.recency' = << >> /\ cache.len' = 0 /\ cache.cap' = cache.cap
    BY <1>1, <1>2, <1>3, ClearedIs
  <1>5. Agree(cache')
    BY <1>3, <1>4, NoneAgree
  <1>6. cache.cap' \in Nat
    BY <1>1, <1>4, FieldsOf
  <1>. QED  BY <1>4, <1>5, <1>6 DEF CacheInv

LEMMA CacheInvSuffices ==
  ASSUME HashAssumption, CacheInv
  PROVE  StructuresAgree
  <1>1. Agree(cache) /\ cache \in Caches
    BY DEF CacheInv, Agree
  <1>. DEFINE v == cache.buckets
              E == Range(cache.frequency)
              L == Len(v)
  <1>2. /\ E \subseteq Keys /\ L \in Nat \ {0} /\ DOMAIN v = 1 .. L
        /\ \A b \in 1 .. L : /\ IsInjective(v[b])
                             /\ \A k : k \in Range(v[b]) <=> k \in E /\ BucketOf(L, k) = b
    BY <1>1, FieldsOf, KeysOf DEF Agree, Filed
  <1>3. Range(cache.recency) = E /\ E = TreeKeys
    BY <1>1 DEF Agree, TreeKeys
  <1>. HIDE DEF v, E
  <1>4. EachLinkedOnce
    <2>1. ASSUME NEW s \in {cache.frequency, cache.recency} \cup Range(v)
          PROVE  IsInjective(s)
      <3>1. CASE s \in Range(v)
        BY <1>2, <3>1, InRange
      <3>. QED  BY <1>1, <2>1, <3>1 DEF Agree
    <2>2. UNION {Range(b) : b \in Range(v)} = E
      <3>1. ASSUME NEW b \in Range(v) PROVE Range(b) \subseteq E
        BY <1>2, InRange
      <3>2. ASSUME NEW k \in E PROVE \E b \in Range(v) : k \in Range(b)
        <4>1. BucketOf(L, k) \in 1 .. L
          BY <1>2, OwnBucket
        <4>2. v[BucketOf(L, k)] \in Range(v) /\ k \in Range(v[BucketOf(L, k)])
          BY <1>2, <4>1, InRange
        <4>. QED  BY <4>2
      <3>. QED  BY <3>1, <3>2
    <2>3. ASSUME NEW i \in DOMAIN v, NEW j \in DOMAIN v, i # j
          PROVE  Range(v[i]) \cap Range(v[j]) = {}
      BY <1>2, <2>3
    <2>4. Cardinality(E) = cache.len
      BY <1>1 DEF Agree, E
    <2>. QED  BY <1>3, <2>1, <2>2, <2>3, <2>4 DEF EachLinkedOnce, v
  <1>5. LookupFindsAll
    <2>1. ASSUME NEW k \in Range(cache.recency) PROVE Holds(cache, k)
      <3>1. k \in Keys /\ k \in Range(cache.frequency)
        BY <1>2, <1>3 DEF E
      <3>. QED  BY <1>1, <3>1, HoldsIs
    <2>. QED  BY <2>1 DEF LookupFindsAll
  <1>6. TreeIsOrdered
    <2>1. cache.frequency \in Seq(Keys) /\ Rising(cache.frequency, cache.freq)
      BY <1>1, FieldsOf DEF Agree
    <2>2. ASSUME NEW i \in 1 .. Len(cache.frequency) - 1
          PROVE  cache.freq[cache.frequency[i]] <= cache.freq[cache.frequency[i + 1]]
      <3>1. i \in DOMAIN cache.frequency /\ i + 1 \in DOMAIN cache.frequency /\ i < i + 1
        BY <2>1
      <3>. QED  BY <2>1, <3>1 DEF Rising
    <2>. QED  BY <2>2 DEF TreeIsOrdered
  <1>7. WithinCapacity
    BY DEF CacheInv, WithinCapacity
  <1>. QED  BY <1>4, <1>5, <1>6, <1>7 DEF StructuresAgree

LEMMA CacheStep ==
  ASSUME HashAssumption, TicksAssumption, CapsAssumption
  PROVE  CacheInv /\ [CacheNext]_cacheVars => CacheInv'
  <1>1. SUFFICES ASSUME CacheInv, [CacheNext]_cacheVars PROVE CacheInv'
    OBVIOUS
  <1>2. CASE \E k \in Keys : Put(k)
    BY <1>1, <1>2, PutKeeps
  <1>3. CASE \E k \in Keys : Get(k)
    BY <1>1, <1>3, GetKeeps
  <1>4. CASE \E cap \in Caps : UpdateConfig(cap)
    BY <1>1, <1>4, UpdateConfigKeeps
  <1>5. CASE Clear
    BY <1>1, <1>5, ClearKeeps
  <1>6. CASE UNCHANGED cacheVars
    <2>1. cache' = cache
      BY <1>6 DEF cacheVars
    <2>. QED  BY <1>1, <2>1 DEF CacheInv
  <1>. QED  BY <1>1, <1>2, <1>3, <1>4, <1>5, <1>6 DEF CacheNext

(* Table, tree and list of the cache hold the same entries.                *)
THEOREM CacheStructuresAgree ==
  ASSUME CapsAssumption, TicksAssumption, HashAssumption
  PROVE  CacheSpec => []StructuresAgree
  <1>1. CacheInit => CacheInv
    BY CacheInitially
  <1>2. CacheInv /\ [CacheNext]_cacheVars => CacheInv'
    BY CacheStep
  <1>3. CacheInv => StructuresAgree
    BY CacheInvSuffices
  <1>. QED  BY <1>1, <1>2, <1>3, PTL DEF CacheSpec

=============================================================================
