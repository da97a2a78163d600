----------------------------- MODULE PaneOutput -----------------------------
(***************************************************************************)
(* The way of a program's output to the terminal of its pane               *)
(* (mux/src/lib.rs:122 to 372).  One thread reads the pty and writes all   *)
(* it reads into a socket pair; a second one reads the socket, parses and  *)
(* gathers actions, and sends them to the pane:                            *)
(*   - at once at the begin and the end of a synchronized update and at a  *)
(*     soft reset, and not at all between begin and end;                   *)
(*   - otherwise when no more comes within a delay, when the delay since   *)
(*     the first wait is over, or when as much as the buffer holds has     *)
(*     been gathered.                                                      *)
(* Both threads hold the pane weakly: when it is gone, the parser raises   *)
(* the flag dead, which the reader looks at between two reads.             *)
(*                                                                         *)
(* An item is one parsed action: the begin or end of an update (a soft     *)
(* reset acts like an end), plain text, and one piece of text, the probe,  *)
(* that the liveness properties follow.  The program writes for ever; the  *)
(* bound is on what is under way at once.                                  *)
(***************************************************************************)
EXTENDS Sequences, SequencesExt, Naturals

CONSTANTS
    ReaderBuffer,  \* BUFSIZE, of the reader
    SocketBuffer,  \* SO_SNDBUF and SO_RCVBUF of the socket pair
    ParserBuffer,  \* mux_output_parser_buffer_size
    MaxUnderWay    \* the program writes no more than this ahead of the pane

BuffersAssumption ==
    {ReaderBuffer, SocketBuffer, ParserBuffer, MaxUnderWay} \subseteq Nat \ {0}

VARIABLES
    pty,      \* the output in the pty
    ended,    \* the program has closed its output
    alive,    \* the mux still holds the pane
    dead,     \* the flag shared by the two threads
    reader,   \* read_from_pane_pty: where it is and what it has read
    socket,   \* what is in the socket pair
    parser,   \* parse_buffered_data: where it is and its variables
    framed,   \* history: what was shown last is inside an update
    probe     \* history: what became of the probe

outputVars == <<pty, ended, alive, dead, reader, socket, parser, framed, probe>>

Kinds == {"begin", "end", "text", "probe"}

UnderWay == parser.actions \o parser.input \o socket \o reader.chunk \o pty

\* Whether an update is open after some items: the last mark is a begin, or there
\* is none and it was open before.
OpenAfter(items, before) ==
    \/ \E i \in DOMAIN items :
          items[i] = "begin" /\ \A k \in DOMAIN items : k > i => items[k] # "end"
    \/ before /\ \A i \in DOMAIN items : items[i] # "end"

Shown(items) == framed' = OpenAfter(items, framed)
                /\ probe' = IF Contains(items, "probe") THEN "shown" ELSE probe

OutputTypeOK ==
    /\ pty \in Seq(Kinds)
    /\ {ended, alive, dead, framed} \subseteq BOOLEAN
    /\ reader \in [at : {"read", "write", "ended"}, chunk : Seq(Kinds)]
    /\ Len(reader.chunk) <= ReaderBuffer
    /\ socket \in Seq(Kinds) /\ Len(socket) <= SocketBuffer
    /\ parser \in [at : {"read", "parse", "decide", "poll", "ended"},
                   input : Seq(Kinds), actions : Seq(Kinds), hold : BOOLEAN,
                   read : 0 .. ParserBuffer, size : 0 .. ParserBuffer,
                   deadline : {"none", "ahead", "passed"}]
    /\ probe \in {"unwritten", "free", "framed", "shown"}

OutputInit ==
    /\ pty = << >> /\ socket = << >>
    /\ ended = FALSE /\ alive = TRUE /\ dead = FALSE
    /\ reader = [at |-> "read", chunk |-> << >>]
    /\ parser = [at |-> "read", input |-> << >>, actions |-> << >>, hold |-> FALSE,
                 read |-> 0, size |-> 0, deadline |-> "none"]
    /\ framed = FALSE
    /\ probe = "unwritten"

------------------------------------------------------------------------------
(* The program and the pane.                                                *)

Write(kind) ==
    /\ ~ ended
    /\ Len(UnderWay) < MaxUnderWay
    /\ kind = "probe" => probe = "unwritten"
    /\ pty' = Append(pty, kind)
    /\ probe' = IF kind # "probe" THEN probe
                ELSE IF OpenAfter(UnderWay, framed) THEN "framed" ELSE "free"
    /\ UNCHANGED <<ended, alive, dead, reader, socket, parser, framed>>

End ==
    /\ ended' = TRUE
    /\ UNCHANGED <<pty, alive, dead, reader, socket, parser, framed, probe>>

\* The mux forgets the pane and the last reference to it goes.
Forget ==
    /\ alive' = FALSE
    /\ UNCHANGED <<pty, ended, dead, reader, socket, parser, framed, probe>>

------------------------------------------------------------------------------
(* The reader thread.                                                       *)

Read ==
    /\ reader.at = "read"
    /\ IF dead THEN reader' = [at |-> "ended", chunk |-> << >>] /\ UNCHANGED pty
       ELSE \/ /\ pty # << >>
               /\ \E n \in 1 .. ReaderBuffer :
                     /\ n <= Len(pty)
                     /\ reader' = [at |-> "write", chunk |-> SubSeq(pty, 1, n)]
                     /\ pty' = SubSeq(pty, n + 1, Len(pty))
            \/ /\ pty = << >> /\ ended
               /\ reader' = [at |-> "ended", chunk |-> << >>]
               /\ UNCHANGED pty
    /\ UNCHANGED <<ended, alive, dead, socket, parser, framed, probe>>

\* write_all sends as much as there is room for, until all is sent.
WriteSocket ==
    /\ reader.at = "write"
    /\ Len(socket) < SocketBuffer
    /\ socket' = Append(socket, Head(reader.chunk))
    /\ reader' = [at |-> IF Len(reader.chunk) = 1 THEN "read" ELSE "write",
                  chunk |-> Tail(reader.chunk)]
    /\ UNCHANGED <<pty, ended, alive, dead, parser, framed, probe>>

------------------------------------------------------------------------------
(* The parser thread.                                                       *)

\* send_actions_to_mux: a pane that is gone only raises the flag.
Send(items) ==
    IF alive THEN Shown(items) /\ UNCHANGED dead
             ELSE dead' = TRUE /\ UNCHANGED <<framed, probe>>

Readable == socket # << >> \/ reader.at = "ended"

ReadSocket ==
    /\ parser.at = "read"
    /\ socket # << >>
    /\ \E n \in 1 .. ParserBuffer :
          /\ n <= Len(socket)
          /\ parser' = [parser EXCEPT !.at = "parse", !.input = SubSeq(socket, 1, n),
                                      !.read = n]
          /\ socket' = SubSeq(socket, n + 1, Len(socket))
    /\ UNCHANGED <<pty, ended, alive, dead, reader, framed, probe>>

\* Mutant: what was gathered is dropped at the end of the stream.
MutReadEnd ==
    /\ parser.at = "read"
    /\ socket = << >> /\ reader.at = "ended"
    /\ parser' = [parser EXCEPT !.at = "ended"]
    /\ dead' = TRUE
    /\ UNCHANGED <<pty, ended, alive, reader, socket, framed, probe>>

\* The socket is closed: what was gathered is sent, within an update too.
ReadEnd ==
    /\ parser.at = "read"
    /\ socket = << >> /\ reader.at = "ended"
    /\ parser' = [parser EXCEPT !.at = "ended", !.actions = << >>]
    /\ dead' = TRUE
    /\ IF parser.actions # << >> /\ alive THEN Shown(parser.actions)
                                          ELSE UNCHANGED <<framed, probe>>
    /\ UNCHANGED <<pty, ended, alive, reader, socket>>

\* Mutant: the end of an update flushes before it is appended.
MutParse ==
    /\ parser.at = "parse"
    /\ parser.input # << >>
    /\ LET item == Head(parser.input)
           flush == item \in {"begin", "end"}
       IN /\ parser' = [parser EXCEPT
                !.input = Tail(@),
                !.hold = IF flush THEN item = "begin" ELSE @,
                !.actions = IF flush THEN <<item>> ELSE Append(@, item),
                !.size = IF flush THEN 0 ELSE @]
          /\ IF flush THEN Send(parser.actions) ELSE UNCHANGED <<dead, framed, probe>>
    /\ UNCHANGED <<pty, ended, alive, reader, socket>>

\* One action of the data read.
Parse ==
    /\ parser.at = "parse"
    /\ parser.input # << >>
    /\ LET item == Head(parser.input)
           gathered == Append(parser.actions, item)
           flush == item \in {"begin", "end"}
       IN /\ parser' = [parser EXCEPT
                !.input = Tail(@),
                !.hold = IF flush THEN item = "begin" ELSE @,
                !.actions = IF flush THEN << >> ELSE gathered,
                !.size = IF flush THEN 0 ELSE @]
          /\ IF flush THEN Send(gathered) ELSE UNCHANGED <<dead, framed, probe>>
    /\ UNCHANGED <<pty, ended, alive, reader, socket>>

\* The size only matters up to the buffer, where it is capped.
AtMostBuffer(n) == IF n < ParserBuffer THEN n ELSE ParserBuffer

\* All of it is parsed: the bytes read count, also those already sent.
Parsed ==
    /\ parser.at = "parse"
    /\ parser.input = << >>
    /\ parser' = [parser EXCEPT
          !.at = IF parser.actions # << >> /\ ~ parser.hold THEN "decide" ELSE "read",
          !.size = AtMostBuffer(@ + parser.read), !.read = 0]
    /\ UNCHANGED <<pty, ended, alive, dead, reader, socket, framed, probe>>

SendGathered ==
    /\ Send(parser.actions)
    /\ parser' = [parser EXCEPT !.at = "read", !.actions = << >>, !.size = 0,
                                !.deadline = "none"]

\* Wait for more while the deadline is ahead; it is set at the first wait.
Decide ==
    /\ parser.at = "decide"
    /\ IF parser.size < ParserBuffer /\ parser.deadline # "passed"
         THEN /\ parser' = [parser EXCEPT !.at = "poll", !.deadline = "ahead"]
              /\ UNCHANGED <<dead, framed, probe>>
         ELSE SendGathered
    /\ UNCHANGED <<pty, ended, alive, reader, socket>>

\* Mutant: after the delay the parser reads on without sending.
MutPoll ==
    /\ parser.at = "poll"
    /\ Readable \/ parser.deadline = "passed"
    /\ parser' = [parser EXCEPT !.at = "read"]
    /\ UNCHANGED <<pty, ended, alive, dead, reader, socket, framed, probe>>

\* poll returns when the socket is readable or the delay is over.
Poll ==
    /\ parser.at = "poll"
    /\ \/ /\ Readable
          /\ parser' = [parser EXCEPT !.at = "read"]
          /\ UNCHANGED <<dead, framed, probe>>
       \/ /\ ~ Readable /\ parser.deadline = "passed"
          /\ SendGathered
    /\ UNCHANGED <<pty, ended, alive, reader, socket>>

Elapse ==
    /\ parser.deadline = "ahead"
    /\ parser' = [parser EXCEPT !.deadline = "passed"]
    /\ UNCHANGED <<pty, ended, alive, dead, reader, socket, framed, probe>>

------------------------------------------------------------------------------
ReaderThread == Read \/ WriteSocket

ParserThread == ReadSocket \/ ReadEnd \/ Parse \/ Parsed \/ Decide \/ Poll

OutputNext ==
    \/ \E kind \in Kinds : Write(kind)
    \/ End \/ Forget
    \/ ReaderThread \/ ParserThread \/ Elapse

OutputSpec == OutputInit /\ [][OutputNext]_outputVars

\* Both threads are scheduled and time passes.  The program need not write.
OutputFairSpec ==
    /\ OutputSpec
    /\ WF_outputVars(ReaderThread)
    /\ WF_outputVars(ParserThread)
    /\ WF_outputVars(Elapse)

------------------------------------------------------------------------------
(* Properties.                                                              *)

\* The pipeline keeps the promise of OutputStream while the pane lives: no
\* reordering, no loss, and no batch that tears a synchronized update, however
\* reads, buffers and delays cut the stream.
Stream == INSTANCE OutputStream WITH
              waiting <- IF alive THEN UnderWay ELSE << >>,
              ended <- ended \/ ~ alive
ShowsTheStream == Stream!Init /\ [][alive' => Stream!Next]_(Stream!vars)

\* What is written outside of updates is shown, whether the program falls
\* silent behind it or keeps writing and cuts every wait for more short: the
\* probe does not stay free, which only its being shown ends.
FreeOutputIsShown == []<>(probe = "free" => ~ alive)

\* When the program ends, everything it wrote is shown, also from an update
\* that never ended and also output that came a moment before, and both threads
\* end; that of a pane that is gone is dropped.
EndShowsTheRest ==
    []<>(ended => /\ reader.at = "ended" /\ parser.at = "ended"
                  /\ alive => UnderWay = << >>)

\* Nothing is held back for ever: neither free output nor the rest at the end.
OutputIsShown == FreeOutputIsShown /\ EndShowsTheRest

=============================================================================
