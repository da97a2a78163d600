----------------------------- MODULE RpcSession -----------------------------
(***************************************************************************)
(* Calls to a mux server: the client thread of wezterm-client/src/         *)
(* client.rs, the server's session loop (wezterm-mux-server-impl/src/      *)
(* dispatch.rs) and the connection between them.                           *)
(*                                                                         *)
(* A call puts its request and the sender of a one-shot channel into the   *)
(* queue of the client thread, which gives it a serial, remembers the      *)
(* sender under it and writes the request.  The server runs every request  *)
(* as a task of its main thread and queues the replies, in the order the   *)
(* tasks finish, with its notifications (serial 0).  Both ends write and   *)
(* read from one loop, so an end whose write finds a full socket does not  *)
(* read either.  The connection may break at any time; some of what was    *)
(* in it still arrives.  A domain's client thread then connects again and  *)
(* starts over with serial 1; the queue lives on.                          *)
(***************************************************************************)
EXTENDS Integers, Sequences, FiniteSets, SequencesExt

CONSTANTS
    Calls,
    NoCall,
    Impatient,      \* the calls of verify_version_compat, which time out
    Reconnectable,  \* a TLS domain; unix sockets and ssh do not reconnect
    SocketSize,     \* messages a socket takes in each direction
    MaxSessions,    \* bound: connections made
    MaxNotices      \* bound: notifications of the server

ASSUME CallsAssumption == NoCall \notin Calls /\ Impatient \subseteq Calls
ASSUME OutcomeAssumption == Calls \cap {"idle", "waiting", "failed", "expired"} = {}
ASSUME ReconnectableAssumption == Reconnectable \in BOOLEAN
ASSUME SocketAssumption == SocketSize \in Nat \ {0}
ASSUME BoundsAssumption == MaxSessions \in Nat \ {0} /\ MaxNotices \in Nat

VARIABLES
    outcome,     \* what each caller has got, see Rpc
    queue,       \* the requests sent to the client thread
    thread,      \* "select", "encode", "connect" or "ended"
    encoding,    \* the call whose request is being written
    nextSerial,
    promises,    \* by serial, the call that waits for the reply
    link,        \* "up", "eof" or "error" as the client sees it
    session,     \* counts the connections
    toServer,    \* requests in the socket
    toClient,    \* replies and notifications in the socket
    items,       \* replies and notifications queued in the server
    sending,     \* those being written: a sequence of at most one
    tasks,       \* requests running in the server's main thread
    runs,        \* how often the server ran a request (2 is: more than once)
    notices

clientVars == <<queue, thread, encoding, nextSerial, promises>>
serverVars == <<items, sending, tasks, runs, notices>>
wire       == <<link, session, toServer, toClient>>
vars       == <<outcome, clientVars, wire, serverVars>>

Message == [serial : Nat, call : Calls \cup {NoCall}]
Notice  == [serial |-> 0, call |-> NoCall]

Service == INSTANCE Rpc

-----------------------------------------------------------------------------

Init ==
    /\ outcome = [c \in Calls |-> "idle"]
    /\ queue = << >>
    /\ thread = "select"
    /\ encoding = NoCall
    /\ nextSerial = 1
    /\ promises = << >>
    /\ link = "up"
    /\ session = 1
    /\ toServer = << >>
    /\ toClient = << >>
    /\ items = << >>
    /\ sending = << >>
    /\ tasks = {}
    /\ runs = [c \in Calls |-> 0]
    /\ notices = 0

(* send_pdu: the channel is closed once the client thread has ended.       *)
Call(c) ==
    /\ outcome[c] = "idle"
    /\ IF thread = "ended"
       THEN outcome' = [outcome EXCEPT ![c] = "failed"] /\ UNCHANGED queue
       ELSE outcome' = [outcome EXCEPT ![c] = "waiting"] /\ queue' = Append(queue, c)
    /\ UNCHANGED <<thread, encoding, nextSerial, promises, wire, serverVars>>

(* The timer of verify_version_compat drops the future of send_pdu.        *)
Expire(c) ==
    /\ c \in Impatient
    /\ outcome[c] = "waiting"
    /\ outcome' = [outcome EXCEPT ![c] = "expired"]
    /\ UNCHANGED <<clientVars, wire, serverVars>>

-----------------------------------------------------------------------------
(* The connection.                                                         *)

(* What becomes of the server's end when the connection goes: requests     *)
(* that had arrived are still read, replies not written are dropped.       *)
ServerLeft(n) ==
    /\ tasks' = tasks \cup {[serial |-> toServer[i].serial, call |-> toServer[i].call, session |-> session] :
                            i \in 1 .. n}
    /\ toServer' = << >>
    /\ items' = << >>
    /\ sending' = << >>

(* The server goes away or the network fails; some of what was sent to     *)
(* the client can still be read.                                           *)
Break ==
    /\ link = "up"
    /\ link' \in {"eof", "error"}
    /\ \E n \in 0 .. Len(toServer) : ServerLeft(n)
    /\ \E n \in 0 .. Len(toClient) : toClient' = SubSeq(toClient, 1, n)
    /\ UNCHANGED <<outcome, clientVars, session, runs, notices>>

(* fail_all: callers that have given up do not hear of it.                 *)
FailAll(waiters) ==
    outcome' = [c \in Calls |-> IF c \in waiters /\ outcome[c] = "waiting" THEN "failed" ELSE outcome[c]]

(* Mutant: the promises of a failed connection are forgotten.              *)
MutLeave(reconnect) ==
    /\ UNCHANGED <<outcome, queue>>
    /\ promises' = << >>
    /\ encoding' = NoCall
    /\ thread' = IF reconnect THEN "connect" ELSE "ended"
    /\ link' = "error"
    /\ toClient' = << >>
    /\ IF link = "up" THEN \E n \in 0 .. Len(toServer) : ServerLeft(n)
                      ELSE UNCHANGED <<toServer, items, sending, tasks>>
    /\ UNCHANGED <<nextSerial, session, runs, notices>>

(* Mutant: requests without a reply are queued again.                      *)
MutLeaveAndRetry(reconnect) ==
    /\ queue' = SetToSeq(Range(promises)) \o queue
    /\ UNCHANGED outcome
    /\ promises' = << >>
    /\ encoding' = NoCall
    /\ thread' = IF reconnect THEN "connect" ELSE "ended"
    /\ link' = "error"
    /\ toClient' = << >>
    /\ IF link = "up" THEN \E n \in 0 .. Len(toServer) : ServerLeft(n)
                      ELSE UNCHANGED <<toServer, items, sending, tasks>>
    /\ UNCHANGED <<nextSerial, session, runs, notices>>

(* client_thread_async returns: the stream is closed and every remembered  *)
(* promise fails, by fail_all or by the Drop of Promises.  What the        *)
(* channel does with requests still queued in it when its receiver is      *)
(* dropped is left open: they stay, or their callers get an error.         *)
Leave(reconnect) ==
    /\ \/ FailAll(Range(promises)) /\ UNCHANGED queue
       \/ ~reconnect /\ FailAll(Range(promises) \cup Range(queue)) /\ queue' = << >>
    /\ promises' = << >>
    /\ encoding' = NoCall
    /\ thread' = IF reconnect THEN "connect" ELSE "ended"
    /\ link' = "error"
    /\ toClient' = << >>
    /\ IF link = "up" THEN \E n \in 0 .. Len(toServer) : ServerLeft(n)
                      ELSE UNCHANGED <<toServer, items, sending, tasks>>
    /\ UNCHANGED <<nextSerial, session, runs, notices>>

-----------------------------------------------------------------------------
(* The client thread.  It looks at its queue first, but a request may come *)
(* right after that look, so either of a request and a reply may be first. *)

Remember(c) ==
    [s \in DOMAIN promises \cup {nextSerial} |-> IF s = nextSerial THEN c ELSE promises[s]]

TakeRequest ==
    /\ thread = "select"
    /\ queue # << >>
    /\ queue' = Tail(queue)
    /\ encoding' = Head(queue)
    /\ promises' = Remember(Head(queue))
    /\ nextSerial' = nextSerial + 1
    /\ thread' = "encode"
    /\ UNCHANGED <<outcome, wire, serverVars>>

(* encode_async waits for room in the socket, and nothing is read.         *)
WriteRequest ==
    /\ thread = "encode"
    /\ link = "up"
    /\ Len(toServer) < SocketSize
    /\ toServer' = Append(toServer, [serial |-> nextSerial - 1, call |-> encoding])
    /\ encoding' = NoCall
    /\ thread' = "select"
    /\ UNCHANGED <<outcome, queue, nextSerial, promises, link, session, toClient, serverVars>>

WriteFails ==
    /\ thread = "encode"
    /\ link # "up"
    /\ Leave(Reconnectable)

ReadNotice ==
    /\ thread = "select"
    /\ toClient # << >>
    /\ Head(toClient).serial = 0
    /\ toClient' = Tail(toClient)
    /\ UNCHANGED <<outcome, clientVars, link, session, toServer, serverVars>>

(* The promise is taken out of the map before it is kept.  A serial        *)
(* without a promise, or too large for decode_async, ends the connection;  *)
(* a promise whose caller has given up ends the thread for good.           *)
ReadReply ==
    /\ thread = "select"
    /\ toClient # << >>
    /\ LET reply == Head(toClient)
           c == promises[reply.serial]
       IN /\ reply.serial # 0
          /\ IF reply.serial \notin DOMAIN promises
             THEN Leave(Reconnectable)
             ELSE IF outcome[c] = "waiting"
             THEN /\ outcome' = [outcome EXCEPT ![c] = reply.call]
                  /\ promises' = Restrict(promises, DOMAIN promises \ {reply.serial})
                  /\ toClient' = Tail(toClient)
                  /\ UNCHANGED <<queue, thread, encoding, nextSerial, link, session, toServer, serverVars>>
             ELSE Leave(FALSE)

(* All there was has been read; a plain end of file is final.              *)
ReadFails ==
    /\ thread = "select"
    /\ toClient = << >>
    /\ link # "up"
    /\ Leave(Reconnectable /\ link # "eof")

(* The last Client is dropped: no call is waiting, as each borrows one.    *)
DropClient ==
    /\ thread = "select"
    /\ queue = << >>
    /\ \A c \in Calls : outcome[c] # "waiting"
    /\ Leave(FALSE)

(* A new connection, with a new session of the server.                     *)
Connect ==
    /\ thread = "connect"
    /\ session < MaxSessions
    /\ session' = session + 1
    /\ link' = "up"
    /\ nextSerial' = 1
    /\ thread' = "select"
    /\ UNCHANGED <<outcome, queue, encoding, promises, toServer, toClient, serverVars>>

-----------------------------------------------------------------------------
(* The server's session loop.                                              *)

(* process_one spawns the request; a Ping is answered without a task,      *)
(* which is a task that finishes at once.                                  *)
ServerRead ==
    /\ link = "up"
    /\ sending = << >>
    /\ toServer # << >>
    /\ LET request == Head(toServer)
       IN tasks' = tasks \cup {[serial |-> request.serial, call |-> request.call, session |-> session]}
    /\ toServer' = Tail(toServer)
    /\ UNCHANGED <<outcome, clientVars, link, session, toClient, items, sending, runs, notices>>

(* Mutant: replies of an earlier session are sent in this one.             *)
MutRunTask(t) ==
    /\ t \in tasks
    /\ tasks' = tasks \ {t}
    /\ runs' = [runs EXCEPT ![t.call] = IF @ = 2 THEN 2 ELSE @ + 1]
    /\ items' = IF link = "up" THEN Append(items, [serial |-> t.serial, call |-> t.call]) ELSE items
    /\ UNCHANGED <<outcome, clientVars, wire, sending, notices>>

(* A task finishes and replies, to its own session or to nobody.           *)
RunTask(t) ==
    /\ t \in tasks
    /\ tasks' = tasks \ {t}
    /\ runs' = [runs EXCEPT ![t.call] = IF @ = 2 THEN 2 ELSE @ + 1]
    /\ items' = IF link = "up" /\ t.session = session
                THEN Append(items, [serial |-> t.serial, call |-> t.call])
                ELSE items
    /\ UNCHANGED <<outcome, clientVars, wire, sending, notices>>

Notify ==
    /\ link = "up"
    /\ notices < MaxNotices
    /\ notices' = notices + 1
    /\ items' = Append(items, Notice)
    /\ UNCHANGED <<outcome, clientVars, wire, sending, tasks, runs>>

ServerTake ==
    /\ link = "up"
    /\ sending = << >>
    /\ items # << >>
    /\ sending' = <<Head(items)>>
    /\ items' = Tail(items)
    /\ UNCHANGED <<outcome, clientVars, wire, tasks, runs, notices>>

(* The server waits for room in the socket, and reads nothing.             *)
ServerWrite ==
    /\ link = "up"
    /\ sending # << >>
    /\ Len(toClient) < SocketSize
    /\ toClient' = Append(toClient, Head(sending))
    /\ sending' = << >>
    /\ UNCHANGED <<outcome, clientVars, link, session, toServer, items, tasks, runs, notices>>

-----------------------------------------------------------------------------

Client == TakeRequest \/ WriteRequest \/ WriteFails \/ ReadNotice \/ ReadReply \/ ReadFails

Server == ServerRead \/ ServerTake \/ ServerWrite \/ (\E t \in tasks : RunTask(t))

Next ==
    \/ \E c \in Calls : Call(c) \/ Expire(c)
    \/ Client \/ DropClient \/ Connect
    \/ Server \/ Notify
    \/ Break

Spec == Init /\ [][Next]_vars

(* Both loops go on, and a task of the server's main thread finishes.      *)
(* Neither a new connection nor a timeout is counted on.                   *)
FairSpec == Spec /\ WF_vars(Client) /\ WF_vars(Server)

-----------------------------------------------------------------------------
(* Properties.                                                             *)

(* The type of every variable; there are at most as many serials as calls. *)
TypeOK ==
    /\ outcome \in [Calls -> Calls \cup {"idle", "waiting", "failed", "expired"}]
    /\ queue \in Seq(Calls)
    /\ thread \in {"select", "encode", "connect", "ended"}
    /\ encoding \in Calls \cup {NoCall}
    /\ nextSerial \in 1 .. Cardinality(Calls) + 1
    /\ DOMAIN promises \subseteq 1 .. nextSerial - 1
    /\ Range(promises) \subseteq Calls
    /\ link \in {"up", "eof", "error"}
    /\ session \in 1 .. MaxSessions
    /\ {toServer, toClient, items, sending} \subseteq Seq(Message)
    /\ Len(toServer) <= SocketSize /\ Len(toClient) <= SocketSize /\ Len(sending) <= 1
    /\ tasks \subseteq [serial : Nat, call : Calls, session : 1 .. MaxSessions]
    /\ runs \in [Calls -> 0 .. 2]
    /\ notices \in 0 .. MaxNotices

(* Through breaks, reconnections and late replies, the server runs every   *)
(* request at most once, and a call is settled once, by the reply to its   *)
(* own request: serials that start over never deliver another call's reply.*)
ImplementsRpc == Service!Spec

(* "got serial without a corresponding promise" is never reached: every    *)
(* reply on its way to the client has its promise.                         *)
RepliesHavePromises ==
    link = "up" => \A i \in DOMAIN (toClient \o sending \o items) :
                      (toClient \o sending \o items)[i].serial \in DOMAIN promises \cup {0}

(* A call that waits for ever waits in the queue of a client thread that   *)
(* has ended or cannot reconnect; a request that was sent is settled.      *)
WaitsOnlyForAThread ==
    \A c \in Calls :
        outcome[c] = "waiting" ~>
            outcome[c] # "waiting" \/ (thread \in {"connect", "ended"} /\ c \in Range(queue))

=============================================================================
