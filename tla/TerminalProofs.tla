--------------------------- MODULE TerminalProofs ---------------------------
(***************************************************************************)
(* The two terminals of MCTerminals for any sizes, texts and scrollback,   *)
(* and for any number of events: the control mode of tmux, and below it    *)
(* the screens.                                                            *)
(*                                                                         *)
(* Until a resize is sent, a reply of tmux is processed by the command     *)
(* that it answers.                                                        *)
(*                                                                         *)
(* A reply is taken for one to the command at the front of the queue.  So  *)
(* there must be at most one command without an answer, it must be that    *)
(* at the front, and it must be there when the answer is handled.  The     *)
(* invariant follows the two threads through it (Conversation): a command  *)
(* is looked for only in the state "idle", in which nothing is             *)
(* outstanding, and while one is, nothing is taken from the queue but by   *)
(* the reply.  The state is not enough to tell, as it is set only after    *)
(* the command was written: an answer that comes before is dropped, and    *)
(* then nothing is outstanding although a reply is awaited.  The exit of   *)
(* tmux breaks the rules, in any of its states, but is its last word       *)
(* (Events, Over).                                                         *)
(*                                                                         *)
(* The screens of a terminal keep their rows (ScreenInv), scrolling moves  *)
(* the rows of its region only, rows in scrollback stay, and what changes  *)
(* is reported.  Each operation is shown to make a screen evolve           *)
(* (Evolves): stable rows come at the end and go at the beginning, rows    *)
(* in scrollback keep their content, and a row that differs is marked,     *)
(* with the exceptions that the operation names.  Evolutions follow on     *)
(* one another, so that an action is proved from the operations it is made *)
(* of, and the printed letters from the first on (Chain).  A resize is no  *)
(* evolution: it is shown to mark every line that is not in its place.     *)
(***************************************************************************)
EXTENDS TmuxControl, TerminalScreen,
        FiniteSetTheorems, SequenceTheorems, WellFoundedInduction, TLAPS

IsSequence(s) == s \in Seq(Range(s))

------------------------------------------------------------------------------
(* Types.                                                                  *)

Layouts == [panes : SUBSET Nat, size : 0 .. 1]

FiniteLayouts(layouts) ==
    /\ IsFiniteSet(DOMAIN layouts)
    /\ \A w \in DOMAIN layouts : IsFiniteSet(layouts[w].panes)

IsTmux(t) ==
    /\ t = [layouts |-> t.layouts, made |-> t.made, gone |-> t.gone]
    /\ t.layouts \in [DOMAIN t.layouts -> Layouts]
    /\ DOMAIN t.layouts \subseteq Nat
    /\ t.made \in [window : Nat, pane : Nat]
    /\ t.gone \in BOOLEAN
    /\ FiniteLayouts(t.layouts)

\* Events: %exit is the last word of tmux.
Events(s, gone) ==
    /\ IsSequence(s)
    /\ \A i \in DOMAIN s :
          /\ s[i].kind = "reply" => FiniteLayouts(s[i].layouts)
          /\ s[i].kind = "exit" => gone /\ i = Len(s)

\* Tasks: a reply is processed by the command that it is for, unless a resize
\* was sent.
Tasks(s, disturbed) ==
    /\ IsSequence(s)
    /\ \A i \in DOMAIN s : s[i].kind = "process" =>
          /\ FiniteLayouts(s[i].reply.layouts)
          /\ disturbed \/ s[i].reply.for = s[i].cmd

Types ==
    /\ IsTmux(tmux)
    /\ Events(events, tmux.gone)
    /\ Tasks(tasks, resized)
    /\ IsSequence(lines) /\ IsSequence(cmds)
    /\ mode \in {"initial", "idle", "waiting", "exit"}
    /\ parser \in {"idle", "batch", "exit"}
    /\ sender \in {"idle", "checked", "sending", "sent"}
    /\ resized \in BOOLEAN

------------------------------------------------------------------------------
(* The invariant.                                                          *)

NoReply(s) == \A i \in DOMAIN s : s[i].kind # "reply"

OneReply(s, cmd) ==
    \E i \in DOMAIN s :
       /\ s[i].kind = "reply" /\ s[i].for = cmd
       /\ \A j \in DOMAIN s : j # i => s[j].kind # "reply"

\* Nothing that was written waits for its answer, or for the answer to be seen.
Silence == lines = << >> /\ NoReply(events)

\* What does is the command at the front.
FrontIsOut ==
    /\ cmds # << >>
    /\ \/ lines = <<Head(cmds)>> /\ NoReply(events)
       \/ lines = << >> /\ OneReply(events, Head(cmds))

Conversation ==
    /\ mode = "initial" =>
          sender = "idle" /\ lines = << >> /\ OneReply(events, Command("keys"))
    /\ sender \in {"checked", "sending"} => mode \in {"idle", "exit"} /\ Silence
    /\ sender = "sent" => mode \in {"idle", "exit"} /\ (Silence \/ FrontIsOut)
    /\ mode = "idle" /\ sender = "idle" => Silence
    /\ mode = "waiting" => sender = "idle" /\ (Silence \/ FrontIsOut)

\* tmux has gone, and all its replies have been seen.
Over == tmux.gone /\ NoReply(events)

IInv ==
    /\ Types
    /\ mode = "exit" \/ parser = "exit" => Over
    /\ ~ resized => Over \/ Conversation

------------------------------------------------------------------------------
(* Sequences.                                                              *)

(* What is a sequence at all is one of its elements.                       *)
LEMMA Sequence ==
    ASSUME NEW S, NEW s \in Seq(S)
    PROVE  IsSequence(s)
PROOF
<1>1. Len(s) \in Nat /\ s \in [1 .. Len(s) -> S]
  OBVIOUS
<1>2. DOMAIN s = 1 .. Len(s) /\ \A i \in 1 .. Len(s) : s[i] \in Range(s)
  BY <1>1 DEF Range
<1>3. s \in [1 .. Len(s) -> Range(s)]
  BY <1>1, <1>2
<1> QED BY <1>1, <1>3, SeqDef DEF IsSequence

(* The elements of a concatenation are those of its parts.                 *)
LEMMA Concatenated ==
    ASSUME NEW s, NEW t, IsSequence(s), IsSequence(t)
    PROVE  /\ IsSequence(s \o t)
           /\ Len(s) \in Nat /\ Len(t) \in Nat /\ Len(s \o t) = Len(s) + Len(t)
           /\ DOMAIN s = 1 .. Len(s) /\ DOMAIN t = 1 .. Len(t)
           /\ DOMAIN (s \o t) = 1 .. Len(s) + Len(t)
           /\ \A i \in DOMAIN s : (s \o t)[i] = s[i]
           /\ \A i \in DOMAIN t : (s \o t)[Len(s) + i] = t[i]
           /\ s # << >> => s \o t # << >> /\ Head(s \o t) = Head(s)
PROOF
<1> DEFINE S == Range(s) \cup Range(t)
<1>1. s \in Seq(S) /\ t \in Seq(S)
  BY DEF IsSequence
<1>2. s \o t \in Seq(S) /\ Len(s \o t) = Len(s) + Len(t)
  BY <1>1
<1>3. IsSequence(s \o t)
  BY <1>2, Sequence
<1>4. /\ Len(s) \in Nat /\ Len(t) \in Nat
      /\ DOMAIN s = 1 .. Len(s) /\ DOMAIN t = 1 .. Len(t)
      /\ DOMAIN (s \o t) = 1 .. Len(s) + Len(t)
      /\ \A i \in DOMAIN s : (s \o t)[i] = s[i]
      /\ \A i \in DOMAIN t : (s \o t)[Len(s) + i] = t[i]
  BY <1>1, <1>2
<1>5. s # << >> => s \o t # << >> /\ Head(s \o t) = Head(s)
  BY <1>1, <1>2
<1> QED
  BY <1>2, <1>3, <1>4, <1>5

(* Short sequences.                                                        *)
LEMMA Short ==
    /\ IsSequence(<< >>) /\ Len(<< >>) = 0
    /\ \A e : IsSequence(<<e>>) /\ Len(<<e>>) = 1 /\ <<e>>[1] = e
    /\ \A e, f : IsSequence(<<e, f>>) /\ Len(<<e, f>>) = 2 /\ <<e, f>>[1] = e /\ <<e, f>>[2] = f
PROOF
<1>1. IsSequence(<< >>) /\ Len(<< >>) = 0
  BY DEF IsSequence
<1>2. ASSUME NEW e PROVE IsSequence(<<e>>) /\ Len(<<e>>) = 1 /\ <<e>>[1] = e
  <2>1. Range(<<e>>) = {e}
    BY DEF Range
  <2> QED BY <2>1 DEF IsSequence
<1>3. ASSUME NEW e, NEW f
      PROVE  IsSequence(<<e, f>>) /\ Len(<<e, f>>) = 2 /\ <<e, f>>[1] = e /\ <<e, f>>[2] = f
  <2>1. Range(<<e, f>>) = {e, f}
    BY DEF Range
  <2> QED BY <2>1 DEF IsSequence
<1> QED BY <1>1, <1>2, <1>3

(* Appending is the concatenation of one element.                          *)
LEMMA Appended ==
    ASSUME NEW s, NEW e, IsSequence(s)
    PROVE  Append(s, e) = s \o <<e>>
PROOF
<1> DEFINE S == Range(s) \cup {e}
<1>1. s \in Seq(S) /\ e \in S
  BY DEF IsSequence
<1> QED BY <1>1

(* The rest of a sequence.                                                 *)
LEMMA Rest ==
    ASSUME NEW s, IsSequence(s), s # << >>
    PROVE  /\ IsSequence(Tail(s))
           /\ Len(s) \in Nat /\ Len(s) > 0 /\ DOMAIN s = 1 .. Len(s)
           /\ Len(Tail(s)) = Len(s) - 1 /\ DOMAIN Tail(s) = 1 .. Len(s) - 1
           /\ \A i \in DOMAIN Tail(s) : Tail(s)[i] = s[i + 1]
           /\ Head(s) = s[1] /\ 1 \in DOMAIN s
PROOF
<1>1. s \in Seq(Range(s))
  BY DEF IsSequence
<1>2. /\ Tail(s) \in Seq(Range(s))
      /\ Len(s) \in Nat /\ Len(s) > 0 /\ DOMAIN s = 1 .. Len(s)
      /\ Len(Tail(s)) = Len(s) - 1 /\ DOMAIN Tail(s) = 1 .. Len(s) - 1
      /\ \A i \in DOMAIN Tail(s) : Tail(s)[i] = s[i + 1]
      /\ Head(s) = s[1] /\ 1 \in DOMAIN s
  BY <1>1
<1>3. IsSequence(Tail(s))
  BY <1>2, Sequence
<1> QED BY <1>2, <1>3

(* Replies among more messages.                                            *)
LEMMA RepliesAdded ==
    ASSUME NEW s, NEW t, IsSequence(s), IsSequence(t), NEW cmd
    PROVE  /\ NoReply(s \o t) <=> NoReply(s) /\ NoReply(t)
           /\ OneReply(s, cmd) /\ NoReply(t) => OneReply(s \o t, cmd)
           /\ NoReply(s) /\ OneReply(t, cmd) => OneReply(s \o t, cmd)
PROOF
<1> USE DEF NoReply, OneReply
<1>1. /\ Len(s) \in Nat /\ Len(t) \in Nat
      /\ DOMAIN s = 1 .. Len(s) /\ DOMAIN t = 1 .. Len(t)
      /\ DOMAIN (s \o t) = 1 .. Len(s) + Len(t)
      /\ \A i \in DOMAIN s : (s \o t)[i] = s[i]
      /\ \A i \in DOMAIN t : (s \o t)[Len(s) + i] = t[i]
  BY Concatenated
<1>2. \A i \in DOMAIN (s \o t) :
         \/ i \in DOMAIN s
         \/ i \notin DOMAIN s /\ i - Len(s) \in DOMAIN t /\ Len(s) + (i - Len(s)) = i
  BY <1>1
<1>3. NoReply(s \o t) => NoReply(s) /\ NoReply(t)
  <2>1. \A i \in DOMAIN t : Len(s) + i \in DOMAIN (s \o t)
    BY <1>1
  <2>2. \A i \in DOMAIN s : i \in DOMAIN (s \o t)
    BY <1>1
  <2> QED BY <1>1, <2>1, <2>2
<1>4. NoReply(s) /\ NoReply(t) => NoReply(s \o t)
  BY <1>1, <1>2
<1>5. ASSUME OneReply(s, cmd), NoReply(t) PROVE OneReply(s \o t, cmd)
  <2>1. PICK i \in DOMAIN s : /\ s[i].kind = "reply" /\ s[i].for = cmd
                              /\ \A j \in DOMAIN s : j # i => s[j].kind # "reply"
    BY <1>5
  <2>2. i \in DOMAIN (s \o t) /\ (s \o t)[i] = s[i]
    BY <1>1
  <2>3. \A j \in DOMAIN (s \o t) : j # i => (s \o t)[j].kind # "reply"
    BY <1>1, <1>2, <1>5, <2>1
  <2> QED BY <1>1, <2>1, <2>2, <2>3
<1>6. ASSUME NoReply(s), OneReply(t, cmd) PROVE OneReply(s \o t, cmd)
  <2>1. PICK i \in DOMAIN t : /\ t[i].kind = "reply" /\ t[i].for = cmd
                              /\ \A j \in DOMAIN t : j # i => t[j].kind # "reply"
    BY <1>6
  <2>2. Len(s) + i \in DOMAIN (s \o t) /\ (s \o t)[Len(s) + i] = t[i]
    BY <1>1
  <2>3. \A j \in DOMAIN (s \o t) : j # Len(s) + i => (s \o t)[j].kind # "reply"
    BY <1>1, <1>2, <1>6, <2>1
  <2> QED BY <1>1, <2>1, <2>2, <2>3
<1> QED BY <1>3, <1>4, <1>5, <1>6

(* Replies left when the first message is taken.                           *)
LEMMA RepliesLeft ==
    ASSUME NEW s, IsSequence(s), s # << >>, NEW cmd
    PROVE  /\ NoReply(s) => NoReply(Tail(s)) /\ Head(s).kind # "reply"
           /\ OneReply(s, cmd) /\ Head(s).kind = "reply" => Head(s).for = cmd /\ NoReply(Tail(s))
           /\ OneReply(s, cmd) /\ Head(s).kind # "reply" => OneReply(Tail(s), cmd)
PROOF
<1> USE DEF NoReply, OneReply
<1>1. /\ Len(s) \in Nat /\ Len(s) > 0 /\ DOMAIN s = 1 .. Len(s)
      /\ DOMAIN Tail(s) = 1 .. Len(s) - 1
      /\ \A i \in DOMAIN Tail(s) : Tail(s)[i] = s[i + 1]
      /\ Head(s) = s[1] /\ 1 \in DOMAIN s
  BY Rest
<1>2. \A i \in DOMAIN Tail(s) : i + 1 \in DOMAIN s /\ i + 1 # 1
  BY <1>1
<1>3. NoReply(s) => NoReply(Tail(s)) /\ Head(s).kind # "reply"
  BY <1>1, <1>2
<1>4. ASSUME OneReply(s, cmd)
      PROVE  /\ Head(s).kind = "reply" => Head(s).for = cmd /\ NoReply(Tail(s))
             /\ Head(s).kind # "reply" => OneReply(Tail(s), cmd)
  <2>1. PICK i \in DOMAIN s : /\ s[i].kind = "reply" /\ s[i].for = cmd
                              /\ \A j \in DOMAIN s : j # i => s[j].kind # "reply"
    BY <1>4
  <2>2. CASE i = 1
    BY <1>1, <1>2, <2>1, <2>2
  <2>3. CASE i # 1
    <3>1. Head(s).kind # "reply"
      BY <1>1, <2>1, <2>3
    <3>2. i - 1 \in DOMAIN Tail(s) /\ Tail(s)[i - 1] = s[i]
      BY <1>1, <2>3
    <3>3. \A j \in DOMAIN Tail(s) : j # i - 1 => j + 1 # i
      BY <1>1, <1>2
    <3>4. \A j \in DOMAIN Tail(s) : j # i - 1 => Tail(s)[j].kind # "reply"
      BY <1>1, <1>2, <2>1, <3>3
    <3> QED BY <2>1, <3>1, <3>2, <3>4
  <2> QED BY <2>2, <2>3
<1> QED BY <1>3, <1>4

(* More events: only replies and an exit are particular.                   *)
LEMMA EventsAdded ==
    ASSUME NEW s, NEW more, NEW gone \in BOOLEAN, NEW after \in BOOLEAN,
           Events(s, gone), ~ gone, Events(more, after)
    PROVE  Events(s \o more, after)
PROOF
<1>1. IsSequence(s) /\ IsSequence(more)
  BY DEF Events
<1>2. /\ IsSequence(s \o more)
      /\ Len(s) \in Nat /\ Len(more) \in Nat /\ Len(s \o more) = Len(s) + Len(more)
      /\ DOMAIN s = 1 .. Len(s) /\ DOMAIN more = 1 .. Len(more)
      /\ DOMAIN (s \o more) = 1 .. Len(s) + Len(more)
      /\ \A i \in DOMAIN s : (s \o more)[i] = s[i]
      /\ \A i \in DOMAIN more : (s \o more)[Len(s) + i] = more[i]
  BY <1>1, Concatenated
<1>3. SUFFICES ASSUME NEW i \in DOMAIN (s \o more)
               PROVE  LET e == (s \o more)[i] IN
                      /\ e.kind = "reply" => FiniteLayouts(e.layouts)
                      /\ e.kind = "exit" => after /\ i = Len(s \o more)
  BY <1>2 DEF Events
<1>4. CASE i \in DOMAIN s
  BY <1>2, <1>4 DEF Events
<1>5. CASE i \notin DOMAIN s
  <2>1. i - Len(s) \in DOMAIN more /\ (s \o more)[i] = more[i - Len(s)]
    BY <1>2, <1>5
  <2>2. more[i - Len(s)].kind = "exit" => i - Len(s) = Len(more)
    BY <2>1 DEF Events
  <2> QED BY <1>2, <2>1, <2>2 DEF Events
<1> QED BY <1>4, <1>5

(* The rest of the events; nothing follows an exit.                        *)
LEMMA EventTaken ==
    ASSUME NEW s, NEW gone \in BOOLEAN, Events(s, gone), s # << >>
    PROVE  /\ Events(Tail(s), gone)
           /\ Head(s).kind = "reply" => FiniteLayouts(Head(s).layouts)
           /\ Head(s).kind = "exit" => gone /\ NoReply(Tail(s))
PROOF
<1>1. IsSequence(s)
  BY DEF Events
<1>2. /\ IsSequence(Tail(s))
      /\ Len(s) \in Nat /\ Len(s) > 0 /\ DOMAIN s = 1 .. Len(s)
      /\ Len(Tail(s)) = Len(s) - 1 /\ DOMAIN Tail(s) = 1 .. Len(s) - 1
      /\ \A i \in DOMAIN Tail(s) : Tail(s)[i] = s[i + 1]
      /\ Head(s) = s[1] /\ 1 \in DOMAIN s
  BY <1>1, Rest
<1>3. \A i \in DOMAIN Tail(s) : i + 1 \in DOMAIN s /\ (i + 1 = Len(s) => i = Len(Tail(s)))
  BY <1>2
<1>4. Events(Tail(s), gone)
  BY <1>2, <1>3 DEF Events
<1>5. Head(s).kind = "exit" => gone /\ Len(s) = 1
  BY <1>2 DEF Events
<1>6. Len(s) = 1 => NoReply(Tail(s))
  BY <1>2 DEF NoReply
<1> QED BY <1>2, <1>4, <1>5, <1>6 DEF Events

(* One more task, and the rest of the tasks.                               *)
LEMMA TaskAdded ==
    ASSUME NEW s, NEW task, NEW disturbed \in BOOLEAN, Tasks(s, disturbed),
           task.kind = "process" => /\ FiniteLayouts(task.reply.layouts)
                                    /\ disturbed \/ task.reply.for = task.cmd
    PROVE  Tasks(Append(s, task), disturbed)
PROOF
<1>1. IsSequence(s) /\ IsSequence(<<task>>) /\ Len(<<task>>) = 1 /\ <<task>>[1] = task
  BY Short DEF Tasks
<1>2. Append(s, task) = s \o <<task>>
  BY <1>1, Appended
<1>3. /\ IsSequence(s \o <<task>>)
      /\ Len(s) \in Nat /\ DOMAIN s = 1 .. Len(s) /\ DOMAIN <<task>> = 1 .. 1
      /\ DOMAIN (s \o <<task>>) = 1 .. Len(s) + 1
      /\ \A i \in DOMAIN s : (s \o <<task>>)[i] = s[i]
      /\ \A i \in DOMAIN <<task>> : (s \o <<task>>)[Len(s) + i] = <<task>>[i]
  BY <1>1, Concatenated
<1>4. (s \o <<task>>)[Len(s) + 1] = task
  BY <1>1, <1>3
<1>5. \A i \in DOMAIN (s \o <<task>>) : i \in DOMAIN s \/ i = Len(s) + 1
  BY <1>3
<1> QED BY <1>2, <1>3, <1>4, <1>5 DEF Tasks

LEMMA TaskTaken ==
    ASSUME NEW s, NEW disturbed, Tasks(s, disturbed), s # << >>
    PROVE  /\ Tasks(Tail(s), disturbed)
           /\ Head(s).kind = "process" => FiniteLayouts(Head(s).reply.layouts)
PROOF
<1>1. IsSequence(s)
  BY DEF Tasks
<1>2. /\ IsSequence(Tail(s))
      /\ Len(s) \in Nat /\ Len(s) > 0 /\ DOMAIN s = 1 .. Len(s)
      /\ DOMAIN Tail(s) = 1 .. Len(s) - 1
      /\ \A i \in DOMAIN Tail(s) : Tail(s)[i] = s[i + 1]
      /\ Head(s) = s[1] /\ 1 \in DOMAIN s
  BY <1>1, Rest
<1>3. \A i \in DOMAIN Tail(s) : i + 1 \in DOMAIN s
  BY <1>2
<1> QED BY <1>2, <1>3 DEF Tasks

------------------------------------------------------------------------------
(* tmux.                                                                   *)

LEMMA WindowMade ==
    ASSUME NEW t, IsTmux(t)
    PROVE  IsTmux(NewWindowIn(t)) /\ NewWindowIn(t).gone = t.gone
PROOF
<1> DEFINE w == t.made.window + 1
           p == t.made.pane + 1
           made == [panes |-> {p}, size |-> 0]
           layouts == With(t.layouts, w, made)
<1>1. w \in Nat /\ p \in Nat /\ made \in Layouts
  BY DEF IsTmux, Layouts
<1>2. /\ DOMAIN layouts = DOMAIN t.layouts \cup {w}
      /\ \A v \in DOMAIN layouts :
            layouts[v] = IF v = w THEN made ELSE t.layouts[v]
      /\ layouts = [v \in DOMAIN layouts |-> layouts[v]]
  BY DEF With
<1> HIDE DEF layouts
<1>3. \A v \in DOMAIN t.layouts : t.layouts[v] \in Layouts /\ IsFiniteSet(t.layouts[v].panes)
  BY DEF IsTmux, FiniteLayouts
<1>4. IsFiniteSet(made.panes)
  BY FS_Singleton
<1>5. \A v \in DOMAIN layouts : layouts[v] \in Layouts /\ IsFiniteSet(layouts[v].panes)
  BY <1>1, <1>2, <1>3, <1>4
<1>6. IsFiniteSet(DOMAIN layouts)
  BY <1>2, FS_AddElement DEF IsTmux, FiniteLayouts
<1>7. DOMAIN layouts \subseteq Nat
  BY <1>1, <1>2 DEF IsTmux
<1>8. NewWindowIn(t) = [layouts |-> layouts, made |-> [window |-> w, pane |-> p],
                        gone |-> t.gone]
  <2> DEFINE one == [t EXCEPT !.layouts = layouts]
             ids == [window |-> w, pane |-> p]
  <2>1. NewWindowIn(t) = [one EXCEPT !.made = ids]
    BY DEF NewWindowIn, IsTmux, layouts
  <2>2. one = [layouts |-> layouts, made |-> t.made, gone |-> t.gone]
    BY DEF IsTmux
  <2> QED BY <2>1, <2>2
<1>9. layouts \in [DOMAIN layouts -> Layouts]
  BY <1>2, <1>5
<1> QED BY <1>1, <1>5, <1>6, <1>7, <1>8, <1>9 DEF IsTmux, FiniteLayouts

\* A change of one of the windows, if it is there.
Altered(t, w, layout) == [t EXCEPT !.layouts = [@ EXCEPT ![w] = layout]]

LEMMA WindowAltered ==
    ASSUME NEW t, IsTmux(t), NEW w, NEW layout,
           w \in DOMAIN t.layouts => layout \in Layouts /\ IsFiniteSet(layout.panes)
    PROVE  /\ IsTmux(Altered(t, w, layout))
           /\ Altered(t, w, layout).made = t.made /\ Altered(t, w, layout).gone = t.gone
PROOF
<1> DEFINE layouts == [t.layouts EXCEPT ![w] = layout]
<1>1. Altered(t, w, layout) = [layouts |-> layouts, made |-> t.made, gone |-> t.gone]
  BY DEF Altered, IsTmux
<1>2. \A v \in DOMAIN t.layouts : t.layouts[v] \in Layouts /\ IsFiniteSet(t.layouts[v].panes)
  BY DEF IsTmux, FiniteLayouts
<1>3. DOMAIN layouts = DOMAIN t.layouts /\ layouts \in [DOMAIN t.layouts -> Layouts]
  BY <1>2
<1>4. \A v \in DOMAIN layouts : IsFiniteSet(layouts[v].panes)
  BY <1>2
<1> QED BY <1>1, <1>3, <1>4 DEF IsTmux, FiniteLayouts

LEMMA WindowSplit ==
    ASSUME NEW t, IsTmux(t), NEW w
    PROVE  IsTmux(SplitIn(t, w)) /\ SplitIn(t, w).gone = t.gone
PROOF
<1> DEFINE p == t.made.pane + 1
           layout == [t.layouts[w] EXCEPT !.panes = @ \cup {p}]
           one == Altered(t, w, layout)
<1>1. p \in Nat
  BY DEF IsTmux
<1>2. w \in DOMAIN t.layouts => layout \in Layouts /\ layout.panes = t.layouts[w].panes \cup {p}
  BY <1>1 DEF IsTmux, Layouts
<1>3. w \in DOMAIN t.layouts => IsFiniteSet(layout.panes)
  <2>1. w \in DOMAIN t.layouts => IsFiniteSet(t.layouts[w].panes)
    BY DEF IsTmux, FiniteLayouts
  <2>2. ASSUME IsFiniteSet(t.layouts[w].panes)
        PROVE IsFiniteSet(t.layouts[w].panes \cup {p})
    BY <2>2, FS_AddElement
  <2> QED BY <1>2, <2>1, <2>2
<1>4. IsTmux(one) /\ one.made = t.made /\ one.gone = t.gone
  BY <1>2, <1>3, WindowAltered, ZenonT(30)
<1>5. SplitIn(t, w) = [layouts |-> one.layouts, gone |-> t.gone,
                       made |-> [window |-> t.made.window, pane |-> p]]
  <2> DEFINE layouts == [t.layouts EXCEPT ![w] = layout]
  <2>1. one.layouts = layouts
    BY DEF Altered, IsTmux
  <2>2. t = [layouts |-> t.layouts, made |-> t.made, gone |-> t.gone]
    BY DEF IsTmux
  <2>3. t.made = [window |-> t.made.window, pane |-> t.made.pane]
    BY DEF IsTmux
  <2>4. SplitIn(t, w) = [layouts |-> layouts, made |-> [t.made EXCEPT !.pane = p],
                         gone |-> t.gone]
    <3> DEFINE first == [t EXCEPT !.layouts[w].panes = @ \cup {p}]
    <3>1. SplitIn(t, w) = [first EXCEPT !.made.pane = p]
      BY <2>2 DEF SplitIn
    <3>2. first = [layouts |-> layouts, made |-> t.made, gone |-> t.gone]
      BY <2>2
    <3> QED BY <3>1, <3>2
  <2>5. [t.made EXCEPT !.pane = p] = [window |-> t.made.window, pane |-> p]
    BY <2>3
  <2> QED BY <2>1, <2>4, <2>5
<1>6. t.made.window \in Nat
  BY DEF IsTmux
<1> HIDE DEF one
<1> QED BY <1>1, <1>4, <1>5, <1>6 DEF IsTmux, FiniteLayouts

------------------------------------------------------------------------------
(* Steps of tmux.                                                          *)

(* What tmux tells of beside replies and its exit.                         *)
LEMMA ShortEvents ==
    ASSUME NEW gone \in BOOLEAN
    PROVE  /\ Events(<< >>, gone) /\ NoReply(<< >>)
           /\ \A e : e.kind \notin {"reply", "exit"} => Events(<<e>>, gone) /\ NoReply(<<e>>)
           /\ \A e : e.kind = "reply" /\ FiniteLayouts(e.layouts) => Events(<<e>>, gone)
           /\ \A e : e.kind = "exit" /\ gone => Events(<<e>>, gone) /\ NoReply(<<e>>)
           /\ \A e, f : {e.kind, f.kind} \cap {"reply", "exit"} = {} =>
                           Events(<<e, f>>, gone) /\ NoReply(<<e, f>>)
PROOF
<1> USE Short DEF Events, NoReply
<1>1. Events(<< >>, gone) /\ NoReply(<< >>)
  OBVIOUS
<1>2. ASSUME NEW e
      PROVE  /\ e.kind \notin {"reply", "exit"} => Events(<<e>>, gone) /\ NoReply(<<e>>)
             /\ e.kind = "reply" /\ FiniteLayouts(e.layouts) => Events(<<e>>, gone)
             /\ e.kind = "exit" /\ gone => Events(<<e>>, gone) /\ NoReply(<<e>>)
  <2>1. DOMAIN <<e>> = {1}
    OBVIOUS
  <2> QED BY <2>1
<1>3. ASSUME NEW e, NEW f, {e.kind, f.kind} \cap {"reply", "exit"} = {}
      PROVE  Events(<<e, f>>, gone) /\ NoReply(<<e, f>>)
  <2>1. DOMAIN <<e, f>> = {1, 2} /\ <<e, f>>[1] = e /\ <<e, f>>[2] = f
    OBVIOUS
  <2>2. e.kind # "reply" /\ e.kind # "exit" /\ f.kind # "reply" /\ f.kind # "exit"
    BY <1>3
  <2>3. \A i \in DOMAIN <<e, f>> : <<e, f>>[i].kind # "reply" /\ <<e, f>>[i].kind # "exit"
    BY <2>1, <2>2
  <2>4. IsSequence(<<e, f>>)
    OBVIOUS
  <2> QED BY <2>3, <2>4
<1> QED BY <1>1, <1>2, <1>3

(* A split is told of in two events.                                       *)
LEMMA SplitTold ==
    ASSUME NEW t, NEW w, NEW told \in SplitEvents(t, w), NEW gone \in BOOLEAN
    PROVE  Events(told, gone) /\ NoReply(told)
PROOF
<1> DEFINE layout == LayoutChanged(w, t.layouts[w])
           active == Note("pane", w, t.made.pane)
<1>1. layout.kind = "layout" /\ active.kind = "pane"
  BY DEF LayoutChanged, Note
<1>2. told = <<layout, active>> \/ told = <<active, layout>>
  BY DEF SplitEvents
<1> HIDE DEF layout, active
<1> QED BY <1>1, <1>2, ShortEvents

\* The reply to cmd, and what follows from it.
Answers(cmd) ==
    \E reply, more :
       /\ events' = (events \o <<reply>>) \o more
       /\ reply.kind = "reply" /\ reply.for = cmd /\ FiniteLayouts(reply.layouts)
       /\ Events(more, FALSE) /\ NoReply(more)

LEMMA AnswerAlone ==
    ASSUME Types, NEW cmd, NEW text, NEW layouts, FiniteLayouts(layouts),
           events' = events \o <<Reply(cmd, text, layouts)>>
    PROVE  Answers(cmd)
PROOF
<1> DEFINE reply == Reply(cmd, text, layouts)
<1>1. IsSequence(events) /\ IsSequence(<<reply>>)
  BY Short DEF Types, Events
<1>2. IsSequence(events \o <<reply>>)
  BY <1>1, Concatenated
<1>3. events' = (events \o <<reply>>) \o << >>
  BY <1>2 DEF IsSequence
<1>4. reply.kind = "reply" /\ reply.for = cmd /\ reply.layouts = layouts
  BY DEF Reply
<1>5. Events(<< >>, FALSE) /\ NoReply(<< >>)
  BY ShortEvents
<1> HIDE DEF reply
<1> QED BY <1>3, <1>4, <1>5 DEF Answers

LEMMA AnswerAndMore ==
    ASSUME NEW cmd, NEW text, NEW layouts, FiniteLayouts(layouts),
           NEW more, Events(more, FALSE), NoReply(more),
           events' = events \o <<Reply(cmd, text, layouts)>> \o more
    PROVE  Answers(cmd)
PROOF
<1> DEFINE reply == Reply(cmd, text, layouts)
<1>1. reply.kind = "reply" /\ reply.for = cmd /\ reply.layouts = layouts
  BY DEF Reply
<1>2. events' = (events \o <<reply>>) \o more
  OBVIOUS
<1> HIDE DEF reply
<1> QED BY <1>1, <1>2 DEF Answers

(* A command is answered once, and tmux stays.                             *)
LEMMA ExecuteAnswers ==
    ASSUME Types, Execute
    PROVE  IsTmux(tmux') /\ ~ tmux.gone /\ ~ tmux'.gone /\ Answers(Head(lines))
PROOF
<1> DEFINE cmd == Head(lines)
<1>1. FiniteLayouts(<< >>)
  BY FS_EmptySet DEF FiniteLayouts
<1>2. /\ IsTmux(tmux) /\ ~ tmux.gone
      /\ FiniteLayouts(tmux.layouts)
  BY DEF Execute, Types, IsTmux
<1>3. CASE /\ cmd.kind \in {"commands", "done", "keys"}
           /\ events' = events \o <<Reply(cmd, cmd.kind, << >>)>>
           /\ UNCHANGED tmux
  BY <1>1, <1>2, <1>3, AnswerAlone
<1>4. CASE /\ events' = events \o <<Reply(cmd, "windows", tmux.layouts)>>
           /\ UNCHANGED tmux
  BY <1>2, <1>4, AnswerAlone
<1>5. CASE /\ cmd.window \in Windows
           /\ events' = events \o <<Reply(cmd, "panes", Restrict(tmux.layouts, {cmd.window}))>>
           /\ UNCHANGED tmux
  <2> DEFINE one == Restrict(tmux.layouts, {cmd.window})
  <2>1. DOMAIN one = {cmd.window} /\ one[cmd.window] = tmux.layouts[cmd.window]
    BY DEF Restrict
  <2> HIDE DEF one
  <2>2. FiniteLayouts(one)
    <3>1. IsFiniteSet(DOMAIN one)
      BY <2>1, FS_Singleton
    <3>2. IsFiniteSet(one[cmd.window].panes)
      BY <1>2, <1>5, <2>1 DEF FiniteLayouts, Windows
    <3> QED BY <2>1, <3>1, <3>2 DEF FiniteLayouts
  <2> QED BY <1>2, <1>5, <2>2, AnswerAlone DEF one
<1>6. CASE /\ tmux' = NewWindowIn(tmux)
           /\ events' = events \o <<Reply(cmd, "keys", << >>)>>
                               \o <<Note("add", tmux'.made.window, 0)>>
  <2> DEFINE told == Note("add", tmux'.made.window, 0)
  <2>1. told.kind = "add"
    BY DEF Note
  <2> HIDE DEF told
  <2>2. Events(<<told>>, FALSE) /\ NoReply(<<told>>)
    BY <2>1, ShortEvents
  <2>3. IsTmux(tmux') /\ ~ tmux'.gone
    BY <1>2, <1>6, WindowMade
  <2> QED BY <1>1, <1>2, <1>6, <2>2, <2>3, AnswerAndMore DEF told
<1>7. CASE /\ tmux' = SplitIn(tmux, cmd.window)
           /\ \E told \in SplitEvents(tmux', cmd.window) :
                 events' = events \o <<Reply(cmd, "keys", << >>)>> \o told
  <2>1. PICK told \in SplitEvents(tmux', cmd.window) :
                 events' = events \o <<Reply(cmd, "keys", << >>)>> \o told
    BY <1>7
  <2>2. Events(told, FALSE) /\ NoReply(told)
    BY SplitTold
  <2>3. IsTmux(tmux') /\ ~ tmux'.gone
    BY <1>2, <1>7, WindowSplit
  <2> QED BY <1>1, <1>2, <2>1, <2>2, <2>3, AnswerAndMore
<1>8. CASE /\ tmux' = [tmux EXCEPT !.layouts[cmd.window].size = 1 - @]
           /\ events' = events \o <<Reply(cmd, "keys", << >>)>>
                        \o <<LayoutChanged(cmd.window, tmux'.layouts[cmd.window])>>
  <2> DEFINE told == LayoutChanged(cmd.window, tmux'.layouts[cmd.window])
             w == cmd.window
             layout == [tmux.layouts[w] EXCEPT !.size = 1 - @]
  <2>1. told.kind = "layout"
    BY DEF LayoutChanged
  <2> HIDE DEF told
  <2>2. Events(<<told>>, FALSE) /\ NoReply(<<told>>)
    BY <2>1, ShortEvents
  <2>3. tmux' = Altered(tmux, w, layout)
    BY <1>2, <1>8 DEF Altered, IsTmux
  <2>4. w \in DOMAIN tmux.layouts =>
           layout \in Layouts /\ layout.panes = tmux.layouts[w].panes
    <3> DEFINE old == tmux.layouts[w]
    <3>1. SUFFICES ASSUME w \in DOMAIN tmux.layouts
                   PROVE  layout \in Layouts /\ layout.panes = old.panes
      OBVIOUS
    <3>2. old \in [panes : SUBSET Nat, size : 0 .. 1]
      BY <1>2, <3>1 DEF IsTmux, Layouts
    <3> HIDE DEF old
    <3>3. 1 - old.size \in 0 .. 1
      BY <3>2
    <3>4. layout = [old EXCEPT !.size = 1 - @]
      BY DEF old
    <3>5. layout = [panes |-> old.panes, size |-> 1 - old.size]
      BY <3>2, <3>4
    <3> QED BY <3>2, <3>3, <3>5 DEF Layouts
  <2>5. w \in DOMAIN tmux.layouts => IsFiniteSet(layout.panes)
    BY <1>2, <2>4 DEF FiniteLayouts
  <2> HIDE DEF layout
  <2>6. IsTmux(Altered(tmux, w, layout)) /\ Altered(tmux, w, layout).gone = tmux.gone
    BY <1>2, <2>4, <2>5, WindowAltered
  <2>7. IsTmux(tmux') /\ ~ tmux'.gone
    BY <1>2, <2>3, <2>6
  <2> QED BY <1>1, <1>2, <1>8, <2>2, <2>7, AnswerAndMore, Zenon DEF told
<1>9. CASE /\ events' = events \o <<Reply(cmd, "error", << >>)>>
           /\ UNCHANGED tmux
  BY <1>1, <1>2, <1>9, AnswerAlone
<1> QED BY <1>3, <1>4, <1>5, <1>6, <1>7, <1>8, <1>9, Zenon DEF Execute

LEMMA ExecuteStep ==
    ASSUME IInv, Execute
    PROVE  IInv'
PROOF
<1>1. IsTmux(tmux') /\ ~ tmux.gone /\ ~ tmux'.gone /\ Answers(Head(lines))
  BY ExecuteAnswers DEF IInv
<1>2. PICK reply, more :
         /\ events' = (events \o <<reply>>) \o more
         /\ reply.kind = "reply" /\ reply.for = Head(lines) /\ FiniteLayouts(reply.layouts)
         /\ Events(more, FALSE) /\ NoReply(more)
  BY <1>1 DEF Answers
<1>3. Events(events, FALSE) /\ Events(<<reply>>, FALSE)
  <2>1. tmux.gone = FALSE
    BY <1>1 DEF IInv, Types, IsTmux
  <2> QED BY <1>2, <2>1, ShortEvents DEF IInv, Types
<1>4. Events(events \o <<reply>>, FALSE)
  BY <1>3, EventsAdded
<1>5. Events(events', FALSE) /\ tmux'.gone = FALSE
  BY <1>1, <1>2, <1>4, EventsAdded DEF IsTmux
<1>6. lines # << >> /\ lines' = Tail(lines)
      /\ UNCHANGED <<mode, cmds, parser, sender, tasks, resized>>
  BY DEF Execute, mainVars
<1>7. Types'
  BY <1>1, <1>5, <1>6, Rest DEF IInv, Types
<1>8. mode # "exit" /\ parser # "exit"
  BY <1>1 DEF IInv, Over
<1>9. ASSUME ~ resized
      PROVE  Conversation'
  <2>1. Conversation /\ ~ Silence
    BY <1>1, <1>6, <1>9 DEF IInv, Over, Silence
  <2>2. FrontIsOut => lines = <<Head(cmds)>> /\ NoReply(events)
    BY <1>6 DEF FrontIsOut
  <2>3. FrontIsOut => FrontIsOut'
    <3>1. SUFFICES ASSUME FrontIsOut PROVE FrontIsOut'
      OBVIOUS
    <3>2. lines' = << >> /\ reply.for = Head(cmds)
      <4>1. lines = <<Head(cmds)>>
        BY <2>2, <3>1
      <4>2. Tail(<<Head(cmds)>>) = << >> /\ Head(<<Head(cmds)>>) = Head(cmds)
        OBVIOUS
      <4> QED BY <1>2, <1>6, <4>1, <4>2
    <3>3. /\ IsSequence(events) /\ IsSequence(<<reply>>)
          /\ IsSequence(more) /\ IsSequence(events \o <<reply>>)
      BY <1>2, <1>3, <1>4 DEF Events
    <3>4. OneReply(<<reply>>, Head(cmds))
      <4>1. DOMAIN <<reply>> = {1} /\ <<reply>>[1] = reply
        OBVIOUS
      <4> QED BY <1>2, <3>2, <4>1 DEF OneReply
    <3>5. OneReply(events \o <<reply>>, Head(cmds))
      BY <2>2, <3>1, <3>3, <3>4, RepliesAdded
    <3>6. OneReply(events', Head(cmds))
      BY <1>2, <3>3, <3>5, RepliesAdded
    <3>7. cmds # << >> /\ cmds' = cmds
      BY <1>6, <3>1 DEF FrontIsOut
    <3> QED BY <3>2, <3>6, <3>7 DEF FrontIsOut
  <2>4. mode # "initial" /\ sender \notin {"checked", "sending"}
    BY <1>6, <2>1 DEF Conversation, Silence
  <2>5. /\ sender = "sent" => mode \in {"idle", "exit"} /\ FrontIsOut
        /\ ~ (mode = "idle" /\ sender = "idle")
        /\ mode = "waiting" => sender = "idle" /\ FrontIsOut
    BY <2>1 DEF Conversation
  <2> QED BY <1>6, <2>3, <2>4, <2>5 DEF Conversation
<1> QED BY <1>6, <1>7, <1>8, <1>9 DEF IInv

(* What tmux does by itself is told without a reply.                       *)
LEMMA EventsCome ==
    ASSUME IInv, ~ tmux.gone, IsTmux(tmux'),
           NEW more, Events(more, tmux'.gone), NoReply(more), events' = events \o more,
           UNCHANGED <<lines, mode, cmds, parser, sender, tasks, resized>>
    PROVE  IInv'
PROOF
<1>1. Events(events, FALSE) /\ tmux'.gone \in BOOLEAN
  <2>1. tmux.gone = FALSE
    BY DEF IInv, Types, IsTmux
  <2> QED BY <2>1 DEF IInv, Types, IsTmux
<1>2. Events(events', tmux'.gone)
  BY <1>1, EventsAdded
<1>3. Types'
  BY <1>2 DEF IInv, Types
<1>4. mode # "exit" /\ parser # "exit"
  BY DEF IInv, Over
<1>5. IsSequence(events) /\ IsSequence(more)
  BY <1>1 DEF Events
<1>6. ASSUME ~ resized PROVE Conversation'
  <2>1. Conversation
    BY <1>6 DEF IInv, Over
  <2>2. Silence => Silence'
    BY <1>5, RepliesAdded DEF Silence
  <2>3. FrontIsOut => FrontIsOut'
    BY <1>5, RepliesAdded DEF FrontIsOut
  <2>4. OneReply(events, Command("keys")) => OneReply(events', Command("keys"))
    BY <1>5, RepliesAdded
  <2> QED BY <2>1, <2>2, <2>3, <2>4 DEF Conversation
<1> QED BY <1>3, <1>4, <1>6 DEF IInv

LEMMA EventComes ==
    ASSUME IInv, ~ tmux.gone, IsTmux(tmux'),
           NEW e, e.kind # "reply", e.kind = "exit" => tmux'.gone,
           events' = Append(events, e),
           UNCHANGED <<lines, mode, cmds, parser, sender, tasks, resized>>
    PROVE  IInv'
PROOF
<1>1. IsSequence(events) /\ tmux'.gone \in BOOLEAN
  BY DEF IInv, Types, Events, IsTmux
<1>2. events' = events \o <<e>>
  BY <1>1, Appended
<1>3. Events(<<e>>, tmux'.gone) /\ NoReply(<<e>>)
  <2>1. CASE e.kind = "exit"
    BY <1>1, <2>1, ShortEvents
  <2>2. CASE e.kind # "exit"
    BY <1>1, <2>2, ShortEvents
  <2> QED BY <2>1, <2>2
<1> QED BY <1>2, <1>3, EventsCome

LEMMA WindowClosed ==
    ASSUME NEW t, IsTmux(t), NEW S \in SUBSET DOMAIN t.layouts
    PROVE  /\ IsTmux([t EXCEPT !.layouts = Restrict(@, S)])
           /\ [t EXCEPT !.layouts = Restrict(@, S)].gone = t.gone
PROOF
<1> DEFINE layouts == Restrict(t.layouts, S)
<1>1. [t EXCEPT !.layouts = Restrict(@, S)] =
         [layouts |-> layouts, made |-> t.made, gone |-> t.gone]
  BY DEF IsTmux
<1>2. DOMAIN layouts = S /\ \A w \in S : layouts[w] = t.layouts[w]
  BY DEF Restrict
<1>3. layouts = [w \in DOMAIN layouts |-> layouts[w]]
  BY DEF Restrict
<1> HIDE DEF layouts
<1>4. \A w \in DOMAIN layouts : layouts[w] \in Layouts /\ IsFiniteSet(layouts[w].panes)
  BY <1>2 DEF IsTmux, FiniteLayouts
<1>5. IsFiniteSet(DOMAIN layouts) /\ DOMAIN layouts \subseteq Nat
  BY <1>2, FS_Subset DEF IsTmux, FiniteLayouts
<1>6. layouts \in [DOMAIN layouts -> Layouts]
  BY <1>3, <1>4
<1> QED BY <1>1, <1>4, <1>5, <1>6 DEF IsTmux, FiniteLayouts

LEMMA TmuxGoes ==
    ASSUME NEW t, IsTmux(t)
    PROVE  IsTmux([t EXCEPT !.gone = TRUE]) /\ [t EXCEPT !.gone = TRUE].gone
PROOF
<1>1. \A g : [t EXCEPT !.gone = g] = [layouts |-> t.layouts, made |-> t.made, gone |-> g]
  BY DEF IsTmux
<1>2. [t EXCEPT !.gone = TRUE] = [layouts |-> t.layouts, made |-> t.made, gone |-> TRUE]
  BY <1>1
<1> QED BY <1>2 DEF IsTmux

LEMMA NewElsewhereStep ==
    ASSUME IInv, NewElsewhere
    PROVE  IInv'
PROOF
<1> DEFINE e == Note("add", tmux'.made.window, 0)
<1>1. IsTmux(tmux') /\ tmux'.gone = tmux.gone
  BY WindowMade DEF IInv, Types, NewElsewhere
<1>2. e.kind = "add" /\ events' = Append(events, e)
  BY DEF NewElsewhere, Note
<1> HIDE DEF e
<1> QED BY <1>1, <1>2, EventComes DEF NewElsewhere, TmuxStep, mainVars

LEMMA SplitElsewhereStep ==
    ASSUME IInv, SplitElsewhere
    PROVE  IInv'
PROOF
<1>1. PICK w \in Windows :
         tmux' = SplitIn(tmux, w) /\ \E told \in SplitEvents(tmux', w) : events' = events \o told
  BY DEF SplitElsewhere
<1>2. PICK told \in SplitEvents(tmux', w) : events' = events \o told
  BY <1>1
<1>3. IsTmux(tmux') /\ tmux'.gone = tmux.gone
  BY <1>1, WindowSplit DEF IInv, Types
<1>4. Events(told, tmux'.gone) /\ NoReply(told)
  BY <1>3, SplitTold DEF IsTmux
<1> QED BY <1>2, <1>3, <1>4, EventsCome DEF SplitElsewhere, TmuxStep, mainVars

LEMMA ExitStep ==
    ASSUME IInv, Exit
    PROVE  IInv'
PROOF
<1>1. PICK w \in Windows : \E p \in tmux.layouts[w].panes :
          LET left == [tmux EXCEPT !.layouts[w].panes = @ \ {p}]
              without == [tmux EXCEPT !.layouts = Restrict(@, Windows \ {w})]
          IN \/ /\ tmux' = left
                /\ events' = Append(events, LayoutChanged(w, left.layouts[w]))
             \/ /\ tmux' = without
                /\ events' = Append(events, Note("close", w, 0))
             \/ /\ tmux' = [without EXCEPT !.gone = TRUE]
                /\ events' = Append(events, Note("exit", 0, 0))
  BY Zenon DEF Exit
<1>2. PICK p \in tmux.layouts[w].panes :
          LET left == [tmux EXCEPT !.layouts[w].panes = @ \ {p}]
              without == [tmux EXCEPT !.layouts = Restrict(@, Windows \ {w})]
          IN \/ /\ tmux' = left
                /\ events' = Append(events, LayoutChanged(w, left.layouts[w]))
             \/ /\ tmux' = without
                /\ events' = Append(events, Note("close", w, 0))
             \/ /\ tmux' = [without EXCEPT !.gone = TRUE]
                /\ events' = Append(events, Note("exit", 0, 0))
  BY <1>1
<1> DEFINE left == [tmux EXCEPT !.layouts[w].panes = @ \ {p}]
           without == [tmux EXCEPT !.layouts = Restrict(@, Windows \ {w})]
<1>3. IsTmux(tmux) /\ w \in DOMAIN tmux.layouts /\ ~ tmux.gone
      /\ UNCHANGED <<lines, mode, cmds, parser, sender, tasks, resized>>
  BY DEF IInv, Types, Windows, Exit, TmuxStep, mainVars
<1>4. IsTmux(without) /\ without.gone = tmux.gone
  BY <1>3, WindowClosed DEF Windows
<1>5. CASE /\ tmux' = left
           /\ events' = Append(events, LayoutChanged(w, left.layouts[w]))
  <2> DEFINE old == tmux.layouts[w]
             layout == [old EXCEPT !.panes = @ \ {p}]
             e == LayoutChanged(w, left.layouts[w])
  <2>1. left = Altered(tmux, w, layout)
    BY <1>3 DEF Altered, IsTmux
  <2>2. old \in [panes : SUBSET Nat, size : 0 .. 1] /\ IsFiniteSet(old.panes)
    BY <1>3 DEF IsTmux, Layouts, FiniteLayouts
  <2> HIDE DEF old
  <2>3. layout \in Layouts /\ layout.panes = old.panes \ {p}
    BY <2>2 DEF Layouts
  <2>4. IsFiniteSet(layout.panes)
    BY <2>2, <2>3, FS_Subset
  <2> HIDE DEF layout
  <2>5. IsTmux(tmux') /\ tmux'.gone = tmux.gone
    <3>1. IsTmux(Altered(tmux, w, layout)) /\ Altered(tmux, w, layout).gone = tmux.gone
      BY <1>3, <2>3, <2>4, WindowAltered
    <3> QED BY <1>5, <2>1, <3>1
  <2>6. e.kind = "layout" /\ events' = Append(events, e)
    BY <1>5 DEF LayoutChanged
  <2> HIDE DEF e
  <2> QED BY <1>3, <2>5, <2>6, EventComes
<1>6. CASE /\ tmux' = without
           /\ events' = Append(events, Note("close", w, 0))
  <2> DEFINE e == Note("close", w, 0)
  <2>1. e.kind = "close" /\ events' = Append(events, e)
    BY <1>6 DEF Note
  <2> HIDE DEF e, without
  <2> QED BY <1>3, <1>4, <1>6, <2>1, EventComes
<1>7. CASE /\ tmux' = [without EXCEPT !.gone = TRUE]
           /\ events' = Append(events, Note("exit", 0, 0))
  <2> DEFINE e == Note("exit", 0, 0)
  <2>1. e.kind = "exit" /\ events' = Append(events, e)
    BY <1>7 DEF Note
  <2> HIDE DEF e, without
  <2>2. IsTmux(tmux') /\ tmux'.gone
    BY <1>4, <1>7, TmuxGoes
  <2> QED BY <1>3, <2>1, <2>2, EventComes
<1> QED BY <1>2, <1>5, <1>6, <1>7

LEMMA DetachStep ==
    ASSUME IInv, Detach
    PROVE  IInv'
PROOF
<1> DEFINE e == Note("exit", 0, 0)
<1>1. IsTmux(tmux') /\ tmux'.gone
  BY TmuxGoes DEF IInv, Types, Detach
<1>2. e.kind = "exit" /\ events' = Append(events, e)
  BY DEF Detach, Note
<1> HIDE DEF e
<1> QED BY <1>1, <1>2, EventComes DEF Detach, TmuxStep, mainVars

------------------------------------------------------------------------------
(* The queue of commands.                                                  *)

(* Commands are added at its end, which disturbs nothing.                  *)
LEMMA QueueGrows ==
    ASSUME IInv, Tasks(tasks', resized), parser' \in {"idle", "batch", parser},
           \/ UNCHANGED cmds
           \/ \E more : IsSequence(more) /\ cmds' = cmds \o more,
           UNCHANGED <<tmux, lines, events, mode, sender, resized>>
    PROVE  IInv'
PROOF
<1>1. IsSequence(cmds) /\ IsSequence(cmds')
  BY Concatenated DEF IInv, Types
<1>2. Types'
  BY <1>1 DEF IInv, Types
<1>3. FrontIsOut => FrontIsOut'
  <2>1. CASE UNCHANGED cmds
    BY <2>1 DEF FrontIsOut
  <2>2. CASE \E more : IsSequence(more) /\ cmds' = cmds \o more
    <3>1. cmds # << >> => cmds' # << >> /\ Head(cmds') = Head(cmds)
      BY <1>1, <2>2, Concatenated
    <3> QED BY <3>1 DEF FrontIsOut
  <2> QED BY <2>1, <2>2
<1>4. (Silence <=> Silence') /\ (Over <=> Over')
  BY DEF Silence, Over
<1>5. Conversation => Conversation'
  BY <1>3, <1>4 DEF Conversation
<1> QED BY <1>2, <1>4, <1>5 DEF IInv

LEMMA FiniteImage ==
    ASSUME NEW S, IsFiniteSet(S), NEW f, f = [x \in S |-> f[x]]
    PROVE  IsFiniteSet({f[x] : x \in S})
PROOF
<1> DEFINE T == {f[x] : x \in S}
<1>1. f \in [S -> T] /\ \A t \in T : \E x \in S : f[x] = t
  OBVIOUS
<1>2. f \in Surjection(S, T)
  BY <1>1 DEF Surjection
<1> QED BY <1>2, FS_Surjection

LEMMA SetListed ==
    ASSUME NEW S, IsFiniteSet(S)
    PROVE  IsSequence(SetToSeq(S))
PROOF
<1>1. Cardinality(S) \in Nat /\ Bijection(1 .. Cardinality(S), S) # {}
  BY FS_CardinalityType DEF ExistsBijection
<1>2. \E f \in [1 .. Cardinality(S) -> S] : IsInjective(f)
  BY <1>1 DEF Bijection, Injection
<1>3. SetToSeq(S) \in [1 .. Cardinality(S) -> S]
  BY <1>2 DEF SetToSeq
<1>4. SetToSeq(S) \in Seq(S)
  BY <1>1, <1>3, SeqDef
<1> QED BY <1>4, Sequence

(* What a list makes the attachment ask for next.                          *)
LEMMA NextAreCommands ==
    ASSUME NEW cmd, NEW reply, FiniteLayouts(reply.layouts),
           NEW ws \in SUBSET DOMAIN reply.layouts
    PROVE  IsSequence(NextCommands(cmd, ws, reply))
PROOF
<1> DEFINE panes == [w \in ws |-> reply.layouts[w].panes]
           captured == IF cmd.window = 0 THEN UNION {panes[w] : w \in ws} ELSE {}
           keys == [i \in 1 .. Cardinality(captured) |-> Command("keys")]
           asked == [w \in ws |-> WithLayout("panes", w, reply.layouts[w])]
           lists == SetToSeq({asked[w] : w \in ws})
           done == IF attach.done THEN << >> ELSE <<Command("done")>>
<1>1. IsFiniteSet(ws) /\ \A w \in ws : IsFiniteSet(panes[w])
  BY FS_Subset DEF FiniteLayouts
<1>2. IsFiniteSet({panes[w] : w \in ws}) /\ IsFiniteSet({asked[w] : w \in ws})
  BY <1>1, FiniteImage, ZenonT(30)
<1>3. IsFiniteSet(captured)
  <2>1. \A T \in {panes[w] : w \in ws} : IsFiniteSet(T)
    BY <1>1
  <2>2. IsFiniteSet(UNION {panes[w] : w \in ws})
    <3> HIDE DEF panes
    <3> QED BY <1>2, <2>1, FS_UNION
  <2> QED BY <2>2, FS_EmptySet
<1>4. IsSequence(keys)
  <2>1. Cardinality(captured) \in Nat
    BY <1>3, FS_CardinalityType
  <2> HIDE DEF captured
  <2>2. keys \in [1 .. Cardinality(captured) -> {Command("keys")}]
    OBVIOUS
  <2>3. keys \in Seq({Command("keys")})
    BY <2>1, <2>2, SeqDef
  <2> QED BY <2>3, Sequence
<1>5. IsSequence(lists)
  BY <1>2, SetListed
<1>6. IsSequence(done)
  BY Short
<1>7. NextCommands(cmd, ws, reply) = (keys \o lists) \o done
  <2>1. {panes[w] : w \in ws} = {reply.layouts[w].panes : w \in ws}
    OBVIOUS
  <2>2. {asked[w] : w \in ws} = {WithLayout("panes", w, reply.layouts[w]) : w \in ws}
    OBVIOUS
  <2> QED BY <2>1, <2>2, Zenon DEF NextCommands
<1> HIDE DEF keys, lists, done
<1>8. IsSequence(keys \o lists)
  BY <1>4, <1>5, Concatenated
<1>9. IsSequence((keys \o lists) \o done)
  BY <1>6, <1>8, Concatenated
<1> QED BY <1>7, <1>9

------------------------------------------------------------------------------
(* Steps of the parser thread.                                             *)

LEMMA HandleReplyStep ==
    ASSUME IInv, events # << >>, Head(events).kind = "reply", HandleReply(Head(events)),
           parser # "exit", parser' = "batch", events' = Tail(events),
           UNCHANGED <<tmux, lines, sender, resized>>
    PROVE  IInv'
PROOF
<1> DEFINE reply == Head(events)
<1>1. Events(events', tmux'.gone) /\ FiniteLayouts(reply.layouts)
  BY EventTaken DEF IInv, Types, IsTmux
<1>2. IsSequence(events)
  BY DEF IInv, Types, Events
<1>3. ~ Silence /\ ~ Over
  BY <1>2, RepliesLeft DEF Silence, Over
<1>4. mode # "exit" /\ mode' # "exit" /\ parser' # "exit"
  BY <1>3 DEF IInv, HandleReply
<1>5. FrontIsOut => lines = << >> /\ reply.for = Head(cmds) /\ NoReply(events')
  BY <1>2, RepliesLeft DEF FrontIsOut
<1>6. ~ resized => Conversation
  BY <1>3 DEF IInv
<1>7. CASE mode = "initial" /\ mode' = "idle" /\ UNCHANGED <<cmds, tasks>>
  <2>1. Types'
    BY <1>1, <1>7 DEF IInv, Types
  <2>2. ~ resized => sender = "idle" /\ lines = << >> /\ NoReply(events')
    BY <1>2, <1>6, <1>7, RepliesLeft DEF Conversation
  <2>3. ~ resized => Conversation'
    BY <1>7, <2>2 DEF Conversation, Silence
  <2> QED BY <1>4, <2>1, <2>3 DEF IInv
<1>8. CASE /\ mode = "waiting" /\ mode' = "idle" /\ cmds # << >> /\ cmds' = Tail(cmds)
           /\ tasks' = Append(tasks, [kind |-> "process", cmd |-> Head(cmds), reply |-> reply])
  <2> DEFINE task == [kind |-> "process", cmd |-> Head(cmds), reply |-> reply]
  <2>1. ~ resized => sender = "idle" /\ FrontIsOut
    BY <1>3, <1>6, <1>8 DEF Conversation
  <2>2. task.cmd = Head(cmds) /\ task.reply = reply
    OBVIOUS
  <2> HIDE DEF task
  <2>3. Tasks(tasks', resized)
    <3>1. FiniteLayouts(task.reply.layouts) /\ (resized \/ task.reply.for = task.cmd)
      BY <1>1, <1>5, <2>1, <2>2
    <3>2. resized \in BOOLEAN /\ Tasks(tasks, resized)
      BY DEF IInv, Types
    <3>3. tasks' = Append(tasks, task)
      BY <1>8 DEF task
    <3> QED BY <3>1, <3>2, <3>3, TaskAdded
  <2>4. Types'
    BY <1>1, <1>8, <2>3, Rest DEF IInv, Types
  <2>5. ~ resized => Conversation'
    BY <1>5, <1>8, <2>1 DEF Conversation, Silence
  <2> QED BY <1>4, <2>4, <2>5 DEF IInv
<1>9. CASE /\ mode = "idle" \/ (mode = "waiting" /\ cmds = << >>)
           /\ UNCHANGED <<mode, cmds, tasks>>
  <2>1. Types'
    BY <1>1, <1>9 DEF IInv, Types
  <2>2. ~ resized => mode = "idle" /\ sender = "sent" /\ FrontIsOut
    BY <1>3, <1>6, <1>9 DEF Conversation, FrontIsOut, IInv, Types
  <2>3. ~ resized => Conversation'
    BY <1>5, <1>9, <2>2 DEF Conversation, Silence
  <2> QED BY <1>4, <2>1, <2>3 DEF IInv
<1> QED BY <1>4, <1>7, <1>8, <1>9 DEF HandleReply

LEMMA OtherEventStep ==
    ASSUME IInv, events # << >>, Head(events).kind \notin {"reply", "exit"},
           Tasks(tasks', resized), parser # "exit", parser' = "batch", events' = Tail(events),
           \/ UNCHANGED cmds
           \/ \E more : IsSequence(more) /\ cmds' = cmds \o more,
           UNCHANGED <<tmux, lines, mode, sender, resized>>
    PROVE  IInv'
PROOF
<1>1. Events(events', tmux'.gone)
  BY EventTaken DEF IInv, Types, IsTmux
<1>2. IsSequence(events) /\ IsSequence(cmds) /\ IsSequence(cmds')
  BY Concatenated DEF IInv, Types, Events
<1>3. Types'
  BY <1>1, <1>2 DEF IInv, Types
<1>4. (Silence => Silence') /\ (Over => Over')
  BY <1>2, RepliesLeft DEF Silence, Over
<1>5. OneReply(events, Command("keys")) => OneReply(events', Command("keys"))
  BY <1>2, RepliesLeft
<1>6. FrontIsOut => FrontIsOut'
  <2>1. cmds # << >> => cmds' # << >> /\ Head(cmds') = Head(cmds)
    BY <1>2, Concatenated
  <2>2. NoReply(events) => NoReply(events')
    BY <1>2, RepliesLeft
  <2>3. OneReply(events, Head(cmds)) => OneReply(events', Head(cmds))
    BY <1>2, RepliesLeft
  <2> QED BY <2>1, <2>2, <2>3 DEF FrontIsOut
<1>7. Conversation => Conversation'
  BY <1>4, <1>5, <1>6 DEF Conversation
<1> QED BY <1>3, <1>4, <1>7 DEF IInv

LEMMA HandleEventStep ==
    ASSUME IInv, HandleEvent
    PROVE  IInv'
PROOF
<1> DEFINE e == Head(events)
<1>1. /\ parser # "exit" /\ events # << >> /\ events' = Tail(events)
      /\ parser' = IF e.kind = "exit" THEN "exit" ELSE "batch"
      /\ UNCHANGED <<tmux, lines, sender, resized>>
  BY DEF HandleEvent, tmuxVars
<1>2. Tasks(tasks, resized) /\ IsSequence(cmds) /\ resized \in BOOLEAN
  BY DEF IInv, Types
<1>3. \A cmd : Enqueue(cmd) => \E more : IsSequence(more) /\ cmds' = cmds \o more
  BY <1>2, Appended, Short DEF Enqueue
<1>4. CASE e.kind = "reply" /\ HandleReply(e)
  BY <1>1, <1>4, HandleReplyStep
<1>5. CASE /\ e.kind \in {"layout", "session", "add"}
           /\ UNCHANGED cmds \/ \E cmd : Enqueue(cmd)
           /\ UNCHANGED <<mode, tasks>>
  BY <1>1, <1>2, <1>3, <1>5, OtherEventStep
<1>6. CASE e.kind = "close" /\ UNCHANGED <<mode, cmds, tasks>>
  BY <1>1, <1>2, <1>6, OtherEventStep
<1>7. CASE e.kind = "pane" /\ HandlePaneChanged(e.window, e.pane) /\ UNCHANGED <<mode, cmds>>
  <2> DEFINE task == [kind |-> "split", pane |-> e.pane, request |-> Head(splits)]
  <2>1. task.kind = "split"
    OBVIOUS
  <2>2. tasks' = tasks \/ tasks' = Append(tasks, task)
    BY <1>7 DEF HandlePaneChanged
  <2> HIDE DEF task
  <2>3. Tasks(tasks', resized)
    BY <1>2, <2>1, <2>2, TaskAdded
  <2> QED BY <1>1, <1>7, <2>3, OtherEventStep
<1>8. CASE e.kind = "exit" /\ mode' = "exit" /\ UNCHANGED <<cmds, tasks>>
  <2>1. Events(events', tmux'.gone) /\ tmux'.gone /\ NoReply(events')
    BY <1>1, <1>8, EventTaken DEF IInv, Types, IsTmux
  <2>2. Types'
    BY <1>1, <1>8, <2>1 DEF IInv, Types
  <2> QED BY <2>1, <2>2 DEF IInv, Over
<1> QED BY <1>4, <1>5, <1>6, <1>7, <1>8 DEF HandleEvent

LEMMA FinishExitStep ==
    ASSUME IInv, FinishExit
    PROVE  IInv'
PROOF
<1> DEFINE task == [kind |-> "force"]
<1>1. Tasks(tasks', resized)
  <2>1. task.kind = "force" /\ tasks' = Append(tasks, task)
    BY DEF FinishExit
  <2> HIDE DEF task
  <2> QED BY <2>1, TaskAdded DEF IInv, Types
<1>2. Types'
  BY <1>1, Short DEF FinishExit, tmuxVars, mainVars, IInv, Types
<1>3. Over'
  BY DEF FinishExit, tmuxVars, IInv, Over
<1> QED BY <1>2, <1>3 DEF IInv

LEMMA EndBatchStep ==
    ASSUME IInv, EndBatch
    PROVE  IInv'
PROOF
<1>1. Tasks(tasks', resized)
  <2>1. Send.kind = "send" /\ (tasks' = tasks \/ tasks' = Append(tasks, Send))
    BY DEF EndBatch, Send
  <2> QED BY <2>1, TaskAdded DEF IInv, Types
<1> QED BY <1>1, QueueGrows DEF EndBatch, tmuxVars, mainVars

------------------------------------------------------------------------------
(* Steps of the main thread.                                               *)

LEMMA CheckStateStep ==
    ASSUME IInv, CheckState
    PROVE  IInv'
PROOF
<1>1. Types'
  BY TaskTaken DEF CheckState, tmuxVars, IInv, Types
<1>2. (Over => Over') /\ (Silence => Silence') /\ (FrontIsOut => FrontIsOut')
  BY DEF CheckState, tmuxVars, Over, Silence, FrontIsOut
<1>3. Conversation => Conversation'
  BY <1>2 DEF CheckState, tmuxVars, Conversation
<1> QED BY <1>1, <1>2, <1>3 DEF CheckState, IInv

LEMMA LockQueueStep ==
    ASSUME IInv, LockQueue
    PROVE  IInv'
PROOF
<1>1. Types'
  BY DEF LockQueue, tmuxVars, IInv, Types
<1>2. (Over => Over') /\ (Silence => Silence')
  BY DEF LockQueue, tmuxVars, Over, Silence
<1>3. Conversation => Conversation'
  BY <1>2 DEF LockQueue, Conversation
<1> QED BY <1>1, <1>2, <1>3 DEF LockQueue, IInv

LEMMA SendFrontStep ==
    ASSUME IInv, SendFront
    PROVE  IInv'
PROOF
<1>1. sender = "sending" /\ UNCHANGED <<tmux, events, mode, parser, tasks>>
  BY DEF SendFront
<1>2. (Over => Over') /\ (NoReply(events) <=> NoReply(events)')
  BY <1>1 DEF Over
<1>3. Conversation => mode \in {"idle", "exit"} /\ Silence
  BY <1>1 DEF Conversation
<1>4. CASE sender' = "idle" /\ UNCHANGED <<cmds, lines, resized>>
  <2>1. Types'
    BY <1>1, <1>4 DEF IInv, Types
  <2>2. Conversation => Conversation'
    BY <1>1, <1>2, <1>3, <1>4 DEF Conversation, Silence
  <2> QED BY <1>1, <1>2, <1>4, <2>1, <2>2 DEF IInv
<1>5. CASE cmds # << >> /\ cmds' = Tail(cmds) /\ UNCHANGED <<sender, lines, resized>>
  <2>1. Types'
    BY <1>1, <1>5, Rest DEF IInv, Types
  <2>2. Conversation => Conversation'
    BY <1>1, <1>2, <1>3, <1>5 DEF Conversation, Silence
  <2> QED BY <1>1, <1>2, <1>5, <2>1, <2>2 DEF IInv
<1>6. CASE /\ cmds # << >> /\ sender' = "sent"
           /\ lines' = lines \o (IF Head(cmds).kind = "resize"
                                 THEN <<Command("keys"), Head(cmds)>> ELSE <<Head(cmds)>>)
           /\ resized' = (resized \/ Head(cmds).kind = "resize")
           /\ UNCHANGED cmds
  <2>1. IsSequence(lines) /\ resized \in BOOLEAN /\ Tasks(tasks, resized)
    BY DEF IInv, Types
  <2>2. IsSequence(lines')
    BY <1>6, <2>1, Concatenated, Short
  <2>3. Tasks(tasks', resized')
    BY <1>1, <1>6, <2>1 DEF Tasks
  <2>4. resized' \in BOOLEAN
    BY <1>6
  <2>5. Types'
    BY <1>1, <1>6, <2>2, <2>3, <2>4 DEF IInv, Types
  <2>6. ASSUME ~ resized', Conversation PROVE Conversation'
    <3>1. lines' = <<Head(cmds)>>
      <4>1. lines = << >> /\ Head(cmds).kind # "resize"
        BY <1>3, <1>6, <2>6 DEF Silence
      <4>2. << >> \o <<Head(cmds)>> = <<Head(cmds)>>
        OBVIOUS
      <4> QED BY <1>6, <4>1, <4>2
    <3>2. FrontIsOut'
      BY <1>2, <1>3, <1>6, <2>6, <3>1 DEF FrontIsOut, Silence
    <3> QED BY <1>1, <1>3, <1>6, <2>6, <3>2 DEF Conversation
  <2> QED BY <1>1, <1>2, <1>6, <2>5, <2>6 DEF IInv
<1> QED BY <1>4, <1>5, <1>6 DEF SendFront

LEMMA AwaitReplyStep ==
    ASSUME IInv, AwaitReply
    PROVE  IInv'
PROOF
<1>1. Types'
  BY DEF AwaitReply, tmuxVars, IInv, Types
<1>2. (Over => Over') /\ (Silence => Silence') /\ (FrontIsOut => FrontIsOut')
  BY DEF AwaitReply, tmuxVars, Over, Silence, FrontIsOut
<1>3. Conversation => Conversation'
  BY <1>2 DEF AwaitReply, Conversation
<1> QED BY <1>1, <1>2, <1>3 DEF AwaitReply, IInv

LEMMA RunTaskStep ==
    ASSUME IInv, RunTask
    PROVE  IInv'
PROOF
<1> DEFINE task == Head(tasks)
<1>1. tasks # << >> /\ UNCHANGED <<tmux, lines, events, mode, sender, parser, resized>>
  BY DEF RunTask, tmuxVars
<1>2. /\ Tasks(Tail(tasks), resized) /\ Tasks(Append(Tail(tasks), Send), resized)
      /\ task.kind = "process" => FiniteLayouts(task.reply.layouts)
  <2>1. Send.kind = "send" /\ resized \in BOOLEAN
    BY DEF Send, IInv, Types
  <2>2. /\ Tasks(Tail(tasks), resized)
        /\ task.kind = "process" => FiniteLayouts(task.reply.layouts)
    BY <1>1, TaskTaken DEF IInv, Types
  <2> QED BY <2>1, <2>2, TaskAdded
<1>3. IsSequence(cmds)
  BY DEF IInv, Types
<1>4. CASE UNCHANGED cmds /\ tasks' = Tail(tasks)
  BY <1>1, <1>2, <1>4, QueueGrows
<1>5. CASE task.kind = "process" /\ Process(task.cmd, task.reply)
  <2>1. CASE /\ cmds' = Append(cmds, Command("windows"))
             /\ tasks' = Append(Tail(tasks), Send)
    BY <1>1, <1>2, <1>3, <2>1, Appended, Short, QueueGrows
  <2>2. CASE /\ cmds' = cmds \o NextCommands(task.cmd, Listed(task.cmd, task.reply), task.reply)
             /\ tasks' = Append(Tail(tasks), Send)
    <3>1. Listed(task.cmd, task.reply) \in SUBSET DOMAIN task.reply.layouts
      BY DEF Listed
    <3>2. IsSequence(NextCommands(task.cmd, Listed(task.cmd, task.reply), task.reply))
      BY <1>2, <1>5, <3>1, NextAreCommands
    <3> QED BY <1>1, <1>2, <2>2, <3>2, QueueGrows
  <2>3. CASE UNCHANGED cmds /\ tasks' = Tail(tasks)
    BY <1>4, <2>3
  <2> QED BY <1>5, <2>1, <2>2, <2>3 DEF Process
<1>6. CASE \E w, old, p : FinishSplit(w, old, p)
  BY <1>4, <1>6 DEF FinishSplit
<1> QED BY <1>4, <1>5, <1>6 DEF RunTask

------------------------------------------------------------------------------
(* What the user asks for.                                                 *)

LEMMA AskStep ==
    ASSUME IInv, UserStep, NEW cmd, Ask(cmd)
    PROVE  IInv'
PROOF
<1>1. IsSequence(cmds) /\ Tasks(tasks, resized) /\ resized \in BOOLEAN
  BY DEF IInv, Types
<1>2. Send.kind = "send"
  BY DEF Send
<1>3. Tasks(tasks', resized)
  BY <1>1, <1>2, TaskAdded DEF Ask
<1>4. cmds' = cmds \o <<cmd>> /\ IsSequence(<<cmd>>)
  BY <1>1, Appended, Short DEF Ask
<1> QED BY <1>3, <1>4, QueueGrows DEF UserStep, mainVars

------------------------------------------------------------------------------
(* Replies reach their commands.                                           *)

LEMMA Initially ==
    ASSUME Init
    PROVE  IInv
PROOF
<1> DEFINE none == << >>
           first == [panes |-> {1}, size |-> 0]
           layouts == With(none, 1, first)
           greeting == Reply(Command("keys"), "keys", none)
           session == Note("session", 0, 0)
<1>1. FiniteLayouts(none) /\ DOMAIN none = {}
  BY FS_EmptySet DEF FiniteLayouts
<1>2. IsTmux(tmux)
  <2>1. DOMAIN layouts = {1} /\ layouts[1] = first /\ layouts = [w \in {1} |-> first]
    BY <1>1 DEF With
  <2>2. first \in Layouts /\ IsFiniteSet(first.panes)
    BY FS_Singleton DEF Layouts
  <2>3. IsFiniteSet({1})
    BY FS_Singleton
  <2> HIDE DEF layouts, first
  <2>4. FiniteLayouts(layouts)
    BY <2>1, <2>2, <2>3 DEF FiniteLayouts
  <2>5. layouts \in [DOMAIN layouts -> Layouts] /\ DOMAIN layouts \subseteq Nat
    BY <2>1, <2>2
  <2>6. tmux = [layouts |-> layouts, made |-> [window |-> 1, pane |-> 1], gone |-> FALSE]
    BY DEF Init, layouts, first
  <2> QED BY <2>4, <2>5, <2>6 DEF IsTmux
<1>3. /\ greeting.kind = "reply" /\ greeting.for = Command("keys") /\ greeting.layouts = none
      /\ session.kind = "session"
  BY DEF Reply, Note
<1>4. events = <<greeting, session>>
  BY DEF Init
<1> HIDE DEF greeting, session
<1>5. /\ DOMAIN events = {1, 2} /\ events[1] = greeting /\ events[2] = session
      /\ IsSequence(events)
  BY <1>4, Short
<1>6. Events(events, tmux.gone)
  BY <1>1, <1>3, <1>5 DEF Events
<1>7. Tasks(tasks, resized) /\ IsSequence(lines) /\ IsSequence(cmds)
  BY Short DEF Init, Tasks
<1>8. Types
  BY <1>2, <1>6, <1>7 DEF Init, Types
<1>9. OneReply(events, Command("keys"))
  BY <1>3, <1>5 DEF OneReply
<1> QED BY <1>8, <1>9 DEF Init, IInv, Conversation

LEMMA Always ==
    ASSUME IInv, [Next]_vars
    PROVE  IInv'
PROOF
<1>1. CASE Execute
  BY <1>1, ExecuteStep
<1>2. CASE NewElsewhere \/ SplitElsewhere \/ Exit \/ Detach
  BY <1>2, NewElsewhereStep, SplitElsewhereStep, ExitStep, DetachStep
<1>3. CASE Parse
  BY <1>3, HandleEventStep, FinishExitStep, EndBatchStep DEF Parse
<1>4. CASE Main
  BY <1>4, CheckStateStep, LockQueueStep, SendFrontStep, AwaitReplyStep, RunTaskStep
     DEF Main
<1>5. CASE Spawn \/ Split \/ Keys \/ Resize
  BY <1>5, AskStep DEF Spawn, Split, Keys, Resize
<1>6. CASE UNCHANGED vars
  <2>1. UNCHANGED <<tmux, lines, events, mode, cmds, parser, sender, tasks, resized>>
    BY <1>6 DEF vars, tmuxVars, mainVars
  <2> QED BY <2>1, QueueGrows DEF IInv, Types
<1> QED BY <1>1, <1>2, <1>3, <1>4, <1>5, <1>6 DEF Next

(* However the two threads and tmux interleave, while no resize has been   *)
(* sent: at most one command has no answer, and it is at the front of the  *)
(* queue when its answer is handled (tmux.rs, advance and                  *)
(* send_next_command).                                                     *)
THEOREM Invariance == Spec => []IInv
PROOF
<1>1. Init => IInv
  BY Initially
<1>2. IInv /\ [Next]_vars => IInv'
  BY Always
<1> QED BY <1>1, <1>2, PTL DEF Spec

(* A reply is processed by the command that it answers.                    *)
THEOREM RepliesReach == Spec => []RepliesReachTheirCommands
PROOF
<1>1. IInv => RepliesReachTheirCommands
  BY DEF IInv, Types, Tasks, RepliesReachTheirCommands
<1> QED BY <1>1, Invariance, PTL

------------------------------------------------------------------------------
(* Sequences that are cut, joined and edited, and the lines of a screen.   *)

Cells == Seq([letter : Nat, wrapped : BOOLEAN])
Lines == [cells : Cells, changed : BOOLEAN]

(* A sequence given by what it holds at each place.                        *)
LEMMA Listing ==
  ASSUME NEW S, NEW n \in Nat, NEW f \in [1 .. n -> S]
  PROVE  f \in Seq(S) /\ Len(f) = n /\ DOMAIN f = 1 .. n
  BY SeqDef

(* Counting up to n: what holds of 0, and of i if of i - 1, holds up to n. *)
LEMMA UpTo ==
  ASSUME NEW n \in Nat, NEW S, 0 \in S, \A i \in 1 .. n : i - 1 \in S => i \in S
  PROVE  \A i \in 0 .. n : i \in S
  <1>. DEFINE R == OpToRel(<, Nat)
              T == {i \in 0 .. n : i \notin S}
  <1>1. IsWellFoundedOn(R, Nat)
    BY NatLessThanWellFounded
  <1>2. \A i, j \in Nat : <<i, j>> \in R <=> i < j
    BY DEF OpToRel
  <1>. HIDE DEF R
  <1>3. SUFFICES ASSUME T # {} PROVE FALSE
    OBVIOUS
  <1>4. PICK i \in T : \A j \in T : ~ (<<j, i>> \in R)
    <2>1. T \in SUBSET Nat
      OBVIOUS
    <2>. HIDE DEF T
    <2>. QED  BY <1>1, <1>3, <2>1, WFMin
  <1>5. i \in 1 .. n /\ i - 1 \in 0 .. n /\ i \notin S
    BY <1>4
  <1>6. <<i - 1, i>> \in R
    BY <1>2, <1>5
  <1>7. i - 1 \notin T
    BY <1>4, <1>6
  <1>. QED  BY <1>5, <1>7

(* A set of places has a last one.                                         *)
LEMMA MaxIs ==
  ASSUME NEW n \in Nat, NEW S \in SUBSET (1 .. n), S # {}
  PROVE  Max(S) \in S /\ \A j \in S : Max(S) >= j
  <1>. DEFINE Has(k) == \A i \in S : i <= k => \E m \in S : \A j \in S : j <= k => m >= j
              P == {k \in 0 .. n : Has(k)}
  <1>1. 0 \in P
    OBVIOUS
  <1>2. ASSUME NEW k \in 1 .. n, k - 1 \in P PROVE k \in P
    <2>1. CASE k \in S
      <3>. QED  BY <2>1
    <2>2. CASE k \notin S
      <3>1. \A j \in S : j <= k <=> j <= k - 1
        BY <2>2
      <3>. QED  BY <1>2, <3>1
    <2>. QED  BY <2>1, <2>2
  <1>3. n \in P
    <2>. HIDE DEF P
    <2>1. \A i \in 0 .. n : i \in P
      BY <1>1, <1>2, UpTo
    <2>. QED  BY <2>1
  <1>4. \E m \in S : \A j \in S : m >= j
    <2>1. PICK i \in S : i <= n
      <3>1. \E i : i \in S
        OBVIOUS
      <3>. QED  BY <3>1
    <2>2. PICK m \in S : \A j \in S : j <= n => m >= j
      BY <1>3, <2>1
    <2>3. \A j \in S : j <= n
      OBVIOUS
    <2>. QED  BY <2>2, <2>3
  <1>. QED  BY <1>4 DEF Max

(* Parts of sequences, and sequences put together from them.               *)
IsPart(u, S, s, m, n) ==
    /\ u \in Seq(S) /\ Len(u) = n - m
    /\ \A i \in 1 .. n - m : u[i] = s[i + m]

(* What is cut out of a sequence keeps its order.                          *)
LEMMA PartIs ==
  ASSUME NEW S, NEW s \in Seq(S), NEW m \in Nat, NEW n \in Nat, m <= n, n <= Len(s)
  PROVE  IsPart(SubSeq(s, m + 1, n), S, s, m, n)
  <1>1. Len(s) \in Nat /\ m + 1 \in Int /\ n \in Int
    BY LenProperties
  <1>2. \A i \in m + 1 .. n : s[i] \in S
    BY <1>1, ElementOfSeq
  <1>. DEFINE u == SubSeq(s, m + 1, n)
  <1>3. /\ u \in Seq(S)
        /\ Len(u) = IF m + 1 <= n THEN n - (m + 1) + 1 ELSE 0
        /\ \A i \in 1 .. n - (m + 1) + 1 : u[i] = s[(m + 1) + i - 1]
    BY <1>1, <1>2, SubSeqProperties
  <1>. HIDE DEF u
  <1>4. u \in Seq(S) /\ Len(u) = n - m
    BY <1>3
  <1>5. \A i \in 1 .. n - m : u[i] = s[i + m]
    BY <1>3
  <1>. QED  BY <1>4, <1>5 DEF IsPart, u

(* The same for the beginning of a sequence.                               *)
LEMMA BeginningIs ==
  ASSUME NEW S, NEW s \in Seq(S), NEW n \in 0 .. Len(s)
  PROVE  /\ SubSeq(s, 1, n) \in Seq(S) /\ Len(SubSeq(s, 1, n)) = n
         /\ \A i \in 1 .. n : SubSeq(s, 1, n)[i] = s[i]
  <1>1. Len(s) \in Nat /\ 0 \in Nat /\ n \in Nat /\ n <= Len(s) /\ 0 <= n /\ 0 + 1 = 1
    BY LenProperties
  <1>2. IsPart(SubSeq(s, 0 + 1, n), S, s, 0, n)
    BY <1>1, PartIs
  <1>3. IsPart(SubSeq(s, 1, n), S, s, 0, n)
    BY <1>1, <1>2
  <1>. QED  BY <1>3 DEF IsPart

IsJoint(u, S, s, t, m, n) ==
    /\ u \in Seq(S) /\ Len(u) = m + n
    /\ \A i \in 1 .. m : u[i] = s[i]
    /\ \A i \in m + 1 .. m + n : u[i] = t[i - m]

(* What is joined has the first part before the second.                    *)
LEMMA JointIs ==
  ASSUME NEW S, NEW s \in Seq(S), NEW t \in Seq(S),
         NEW m \in Nat, NEW n \in Nat, Len(s) = m, Len(t) = n
  PROVE  IsJoint(s \o t, S, s, t, m, n)
  <1>1. /\ s \o t \in Seq(S) /\ Len(s \o t) = Len(s) + Len(t)
        /\ \A i \in 1 .. Len(s) + Len(t) :
              (s \o t)[i] = IF i <= Len(s) THEN s[i] ELSE t[i - Len(s)]
    BY ConcatProperties, Zenon
  <1>. QED  BY <1>1 DEF IsJoint

(* The last place of a sequence that is in a set.                          *)
LEMMA UpToTheLast ==
  ASSUME NEW S, NEW s \in Seq(S), NEW K \in SUBSET DOMAIN s, K # {}
  PROVE  Max(K) \in 1 .. Len(s) /\ Max(K) \in K /\ \A j \in K : Max(K) >= j
  <1>1. Len(s) \in Nat /\ K \in SUBSET (1 .. Len(s))
    BY LenProperties
  <1>. QED  BY <1>1, MaxIs

(* Cells that are overwritten are cells.                                   *)
LEMMA OverwrittenIs ==
  ASSUME NEW cells \in Cells, NEW x \in Nat, NEW y \in Nat,
         NEW cell \in [letter : Nat, wrapped : BOOLEAN]
  PROVE  Overwritten(cells, x, y, cell) \in Cells
  <1>1. Len(cells) \in Nat /\ \A i \in 1 .. Len(cells) : cells[i] \in [letter : Nat, wrapped : BOOLEAN]
    BY ElementOfSeq, LenProperties DEF Cells
  <1>. DEFINE n == Most(Len(cells), y)
  <1>2. n \in Nat
    BY <1>1 DEF Most
  <1>3. Overwritten(cells, x, y, cell) \in [1 .. n -> [letter : Nat, wrapped : BOOLEAN]]
    BY <1>1 DEF Overwritten, Blank
  <1>. HIDE DEF n
  <1>. QED  BY <1>2, <1>3, Listing DEF Cells

(* Cells without the blanks at their end are cells.                        *)
LEMMA PrunedIs ==
  ASSUME NEW cells \in Cells
  PROVE  PruneTrailingBlanks(cells) \in Cells
  <1>. DEFINE kept == {i \in DOMAIN cells : cells[i] # Blank}
  <1>1. CASE kept = {}
    BY <1>1 DEF PruneTrailingBlanks
  <1>2. CASE kept # {}
    <2>1. kept \in SUBSET DOMAIN cells /\ PruneTrailingBlanks(cells) = SubSeq(cells, 1, Max(kept))
      BY <1>2 DEF PruneTrailingBlanks
    <2>. HIDE DEF kept
    <2>2. Max(kept) \in 0 .. Len(cells)
      BY <1>2, <2>1, UpToTheLast DEF Cells
    <2>. QED  BY <2>1, <2>2, BeginningIs DEF Cells
  <1>. QED  BY <1>1, <1>2

(* Every operation on a line marks it, or leaves it as it is.              *)
Replaces(line, new) == new \in Lines /\ (new = line \/ new.changed)

(* An edit of a line marks it, or leaves it as it is (line.rs:             *)
(* update_last_change_seqno in every setter).                              *)
LEMMA LineEdits ==
  ASSUME NEW line \in Lines
  PROVE  /\ Replaces(line, line)
         /\ Replaces(line, Touch(line)) /\ Touch(line).cells = line.cells /\ Touch(line).changed
         /\ \A x \in Nat, letter \in Nat : Replaces(line, SetCell(line, x, letter))
         /\ \A x, y \in Nat : /\ Replaces(line, ClearCells(line, x, y))
                              /\ Touch(ClearCells(line, x, y)) \in Lines
                              /\ Touch(ClearCells(line, x, y)).changed
         /\ \A wrapped \in BOOLEAN :
               /\ Replaces(line, SetLastCellWasWrapped(line, wrapped))
               /\ SetLastCellWasWrapped(line, wrapped).changed
         /\ \A cols \in Nat : Replaces(line, ResizeLine(line, cols)) /\ ResizeLine(line, cols).changed
  <1>1. /\ line.cells \in Cells /\ line.changed \in BOOLEAN
        /\ line = [cells |-> line.cells, changed |-> line.changed]
    BY DEF Lines
  <1>2. /\ Len(line.cells) \in Nat
        /\ \A i \in 1 .. Len(line.cells) : line.cells[i] \in [letter : Nat, wrapped : BOOLEAN]
    BY <1>1, ElementOfSeq, LenProperties DEF Cells
  <1>3. Replaces(line, line)
    BY DEF Replaces
  <1>4. ASSUME NEW l \in Lines
        PROVE Touch(l) \in Lines /\ Touch(l).cells = l.cells /\ Touch(l).changed
    BY DEF Touch, Lines
  <1>5. ASSUME NEW x \in Nat, NEW letter \in Nat
        PROVE Replaces(line, SetCell(line, x, letter))
    <2>1. Overwritten(line.cells, x, x + 1, [letter |-> letter, wrapped |-> FALSE]) \in Cells
      <3>. DEFINE cell == [letter |-> letter, wrapped |-> FALSE]
      <3>1. line.cells \in Cells /\ x + 1 \in Nat /\ cell \in [letter : Nat, wrapped : BOOLEAN]
        BY <1>1
      <3>. HIDE DEF cell
      <3>2. Overwritten(line.cells, x, x + 1, cell) \in Cells
        BY <3>1, OverwrittenIs
      <3>. QED  BY <3>2 DEF cell
    <2>. QED  BY <2>1 DEF SetCell, Replaces, Lines
  <1>6. ASSUME NEW x \in Nat, NEW y \in Nat
        PROVE Replaces(line, ClearCells(line, x, y))
    <2>. DEFINE cells == IF x >= y THEN line.cells ELSE Overwritten(line.cells, x, y, Blank)
    <2>1. cells \in Cells
      <3>1. Blank \in [letter : Nat, wrapped : BOOLEAN]
        BY DEF Blank
      <3>2. Overwritten(line.cells, x, y, Blank) \in Cells
        <4>1. line.cells \in Cells
          BY <1>1
        <4>. HIDE DEF cells
        <4>. QED  BY <4>1, <3>1, OverwrittenIs, Zenon
      <3>. QED  BY <1>1, <3>2
    <2>2. PruneTrailingBlanks(cells) \in Cells
      <3>. HIDE DEF cells
      <3>. QED  BY <2>1, PrunedIs
    <2>. QED  BY <1>3, <2>2 DEF ClearCells, Replaces, Lines
  <1>7. ASSUME NEW wrapped \in BOOLEAN
        PROVE  Replaces(line, SetLastCellWasWrapped(line, wrapped)) /\ SetLastCellWasWrapped(line, wrapped).changed
    <2>. DEFINE cells == IF line.cells = << >> THEN <<Blank>> ELSE line.cells
    <2>1. cells \in Cells
      <3>1. Blank \in [letter : Nat, wrapped : BOOLEAN]
        BY DEF Blank
      <3>2. <<Blank>> \in Cells
        BY <3>1 DEF Cells
      <3>. QED  BY <1>1, <3>2
    <2>2. [cells EXCEPT ![Len(cells)].wrapped = wrapped] \in Cells
      <3>. HIDE DEF cells
      <3>1. Len(cells) \in Nat /\ cells \in [1 .. Len(cells) -> [letter : Nat, wrapped : BOOLEAN]]
        BY <2>1, LenProperties DEF Cells
      <3>2. [cells EXCEPT ![Len(cells)].wrapped = wrapped] \in [1 .. Len(cells) -> [letter : Nat, wrapped : BOOLEAN]]
        BY <3>1
      <3>. QED  BY <3>1, <3>2, Listing DEF Cells
    <2>. QED  BY <2>2 DEF SetLastCellWasWrapped, Replaces, Lines
  <1>8. ASSUME NEW cols \in Nat
        PROVE Replaces(line, ResizeLine(line, cols)) /\ ResizeLine(line, cols).changed
    <2>. DEFINE f == [i \in 1 .. cols |-> IF i <= Len(line.cells) THEN line.cells[i] ELSE Blank]
    <2>1. f \in [1 .. cols -> [letter : Nat, wrapped : BOOLEAN]]
      BY <1>2 DEF Blank
    <2>2. f \in Cells
      <3>. HIDE DEF f
      <3>. QED  BY <2>1, Listing DEF Cells
    <2>. QED  BY <2>2 DEF ResizeLine, Replaces, Lines
  <1>9. Replaces(line, Touch(line)) /\ Touch(line).cells = line.cells /\ Touch(line).changed
    BY <1>4 DEF Replaces
  <1>10. \A x, y \in Nat : Touch(ClearCells(line, x, y)) \in Lines /\ Touch(ClearCells(line, x, y)).changed
    BY <1>4, <1>6 DEF Replaces
  <1>. QED  BY <1>3, <1>5, <1>6, <1>7, <1>8, <1>9, <1>10

------------------------------------------------------------------------------
(* Lines taken out at one place of a screen and put in at another.         *)

MovedUp(s, t, a, b, c) == SubSeq(s, 1, a) \o SubSeq(s, b + 1, c) \o t \o SubSeq(s, c + 1, Len(s))
MovedDown(s, t, a, c) ==
    SubSeq(s, 1, a) \o t \o SubSeq(s, a + 1, c - Len(t)) \o SubSeq(s, c + 1, Len(s))

(* What is taken out of a sequence at a, and put into it at c.             *)
IsMovedUp(u, S, s, t, a, b, c) ==
    /\ u \in Seq(S) /\ Len(s) \in Nat /\ Len(t) \in Nat
    /\ Len(u) = Len(s) - (b - a) + Len(t)
    /\ \A i \in 1 .. a : u[i] = s[i]
    /\ \A i \in a + 1 .. a + (c - b) : u[i] = s[i + (b - a)]
    /\ \A i \in a + (c - b) + 1 .. a + (c - b) + Len(t) : u[i] = t[i - (a + (c - b))]
    /\ \A i \in a + (c - b) + Len(t) + 1 .. Len(u) : u[i] = s[i + (b - a) - Len(t)]

(* The elements after b, up to c, move up to a, and t comes after them.    *)
LEMMA MovedUpIs ==
  ASSUME NEW S, NEW s \in Seq(S), NEW t \in Seq(S),
         NEW a \in Nat, NEW b \in Nat, NEW c \in Nat, a <= b, b <= c, c <= Len(s),
         NEW u, u = MovedUp(s, t, a, b, c)
  PROVE  IsMovedUp(u, S, s, t, a, b, c)
  <1>1. Len(s) \in Nat /\ Len(t) \in Nat
    BY LenProperties
  <1>. DEFINE p == SubSeq(s, 1, a)
              q == SubSeq(s, b + 1, c)
              r == SubSeq(s, c + 1, Len(s))
              k == c - b
              m == a + k
              n == m + Len(t)
              l == Len(s) - c
  <1>2. p \in Seq(S) /\ Len(p) = a /\ \A i \in 1 .. a : p[i] = s[i]
    BY <1>1, BeginningIs
  <1>3. q \in Seq(S) /\ Len(q) = k /\ \A i \in 1 .. k : q[i] = s[i + b]
    <2>1. IsPart(q, S, s, b, c)
      BY PartIs
    <2>. QED  BY <2>1 DEF IsPart
  <1>4. r \in Seq(S) /\ Len(r) = l /\ \A i \in 1 .. l : r[i] = s[i + c]
    <2>1. Len(s) <= Len(s)
      BY <1>1
    <2>2. IsPart(r, S, s, c, Len(s))
      BY <1>1, <2>1, PartIs
    <2>. QED  BY <2>2 DEF IsPart
  <1>5. k \in Nat /\ m \in Nat /\ n \in Nat /\ l \in Nat
    BY <1>1
  <1>6. n + l = Len(s) - (b - a) + Len(t)
    BY <1>1
  <1>. HIDE DEF p, q, r
  <1>. DEFINE v == p \o q
  <1>7. /\ v \in Seq(S) /\ Len(v) = m
        /\ \A i \in 1 .. a : v[i] = p[i]
        /\ \A i \in a + 1 .. m : v[i] = q[i - a]
    <2>1. IsJoint(v, S, p, q, a, k)
      <3>. HIDE DEF k
      <3>. QED  BY <1>2, <1>3, <1>5, JointIs
    <2>. QED  BY <2>1 DEF IsJoint
  <1>. HIDE DEF v
  <1>. DEFINE w == v \o t
  <1>8. /\ w \in Seq(S) /\ Len(w) = n
        /\ \A i \in 1 .. m : w[i] = v[i]
        /\ \A i \in m + 1 .. n : w[i] = t[i - m]
    <2>1. IsJoint(w, S, v, t, m, Len(t))
      <3>. HIDE DEF m
      <3>. QED  BY <1>1, <1>5, <1>7, JointIs
    <2>. QED  BY <2>1 DEF IsJoint
  <1>. HIDE DEF w
  <1>. DEFINE z == w \o r
  <1>9. /\ z \in Seq(S) /\ Len(z) = n + l
        /\ \A i \in 1 .. n : z[i] = w[i]
        /\ \A i \in n + 1 .. n + l : z[i] = r[i - n]
    <2>1. IsJoint(z, S, w, r, n, l)
      <3>. HIDE DEF n, l
      <3>. QED  BY <1>4, <1>5, <1>8, JointIs
    <2>. QED  BY <2>1 DEF IsJoint
  <1>. HIDE DEF z
  <1>10. u = z
    BY DEF z, w, v, p, q, r, MovedUp
  <1>11. ASSUME NEW i \in 1 .. a PROVE u[i] = s[i]
    <2>1. i \in 1 .. m /\ i \in 1 .. n
      BY <1>1
    <2>2. v[i] = s[i]
      BY <1>2, <1>7
    <2>. QED  BY <1>8, <1>9, <1>10, <2>1, <2>2
  <1>12. ASSUME NEW i \in a + 1 .. m PROVE u[i] = s[i + (b - a)]
    <2>1. i \in 1 .. m /\ i \in 1 .. n /\ i - a \in 1 .. k /\ (i - a) + b = i + (b - a)
      BY <1>1
    <2>2. q[i - a] = s[i + (b - a)]
      BY <1>3, <2>1
    <2>. QED  BY <1>7, <1>8, <1>9, <1>10, <2>1, <2>2
  <1>13. ASSUME NEW i \in m + 1 .. n PROVE u[i] = t[i - m]
    <2>1. i \in 1 .. n
      BY <1>1
    <2>. QED  BY <1>8, <1>9, <1>10, <2>1
  <1>14. ASSUME NEW i \in n + 1 .. Len(u) PROVE u[i] = s[i + (b - a) - Len(t)]
    <2>1. i \in n + 1 .. n + l /\ i - n \in 1 .. l /\ (i - n) + c = i + (b - a) - Len(t)
      BY <1>1, <1>9, <1>10
    <2>2. r[i - n] = s[i + (b - a) - Len(t)]
      BY <1>4, <2>1
    <2>. QED  BY <1>9, <1>10, <2>1, <2>2
  <1>. QED  BY <1>1, <1>6, <1>9, <1>10, <1>11, <1>12, <1>13, <1>14 DEF IsMovedUp

(* The same the other way: put in at a, taken out before c.                *)
IsMovedDown(u, S, s, t, a, c, n) ==
    /\ u \in Seq(S) /\ Len(s) \in Nat
    /\ Len(u) = Len(s)
    /\ \A i \in 1 .. a : u[i] = s[i]
    /\ \A i \in a + 1 .. a + n : u[i] = t[i - a]
    /\ \A i \in a + n + 1 .. c : u[i] = s[i - n]
    /\ \A i \in c + 1 .. Len(u) : u[i] = s[i]

(* The elements after a move down to make room for t, the last before c    *)
(* fall out.                                                               *)
LEMMA MovedDownIs ==
  ASSUME NEW S, NEW s \in Seq(S), NEW t \in Seq(S),
         NEW a \in Nat, NEW c \in Nat, NEW n \in Nat, Len(t) = n, a + n <= c, c <= Len(s),
         NEW u, u = MovedDown(s, t, a, c)
  PROVE  IsMovedDown(u, S, s, t, a, c, n)
  <1>1. Len(s) \in Nat
    BY LenProperties
  <1>. DEFINE p == SubSeq(s, 1, a)
              q == SubSeq(s, a + 1, c - n)
              r == SubSeq(s, c + 1, Len(s))
              k == c - n - a
              m == a + n
              l == Len(s) - c
  <1>2. p \in Seq(S) /\ Len(p) = a /\ \A i \in 1 .. a : p[i] = s[i]
    BY <1>1, BeginningIs
  <1>3. q \in Seq(S) /\ Len(q) = k /\ \A i \in 1 .. k : q[i] = s[i + a]
    <2>1. c - n \in Nat /\ a <= c - n /\ c - n <= Len(s)
      BY <1>1
    <2>2. IsPart(q, S, s, a, c - n)
      BY <2>1, PartIs
    <2>. QED  BY <2>2 DEF IsPart
  <1>4. r \in Seq(S) /\ Len(r) = l /\ \A i \in 1 .. l : r[i] = s[i + c]
    <2>1. Len(s) <= Len(s)
      BY <1>1
    <2>2. IsPart(r, S, s, c, Len(s))
      BY <1>1, <2>1, PartIs
    <2>. QED  BY <2>2 DEF IsPart
  <1>5. k \in Nat /\ m \in Nat /\ l \in Nat /\ m + k = c /\ c + l = Len(s)
    BY <1>1
  <1>. HIDE DEF p, q, r
  <1>. DEFINE v == p \o t
  <1>6. /\ v \in Seq(S) /\ Len(v) = m
        /\ \A i \in 1 .. a : v[i] = p[i]
        /\ \A i \in a + 1 .. m : v[i] = t[i - a]
    <2>1. IsJoint(v, S, p, t, a, n)
      BY <1>2, JointIs
    <2>. QED  BY <2>1 DEF IsJoint
  <1>. HIDE DEF v
  <1>. DEFINE w == v \o q
  <1>7. /\ w \in Seq(S) /\ Len(w) = c
        /\ \A i \in 1 .. m : w[i] = v[i]
        /\ \A i \in m + 1 .. c : w[i] = q[i - m]
    <2>1. IsJoint(w, S, v, q, m, k)
      <3>. HIDE DEF m, k
      <3>. QED  BY <1>3, <1>5, <1>6, JointIs
    <2>. QED  BY <1>5, <2>1 DEF IsJoint
  <1>. HIDE DEF w
  <1>. DEFINE z == w \o r
  <1>8. /\ z \in Seq(S) /\ Len(z) = Len(s)
        /\ \A i \in 1 .. c : z[i] = w[i]
        /\ \A i \in c + 1 .. Len(s) : z[i] = r[i - c]
    <2>1. IsJoint(z, S, w, r, c, l)
      <3>. HIDE DEF l
      <3>. QED  BY <1>4, <1>5, <1>7, JointIs
    <2>. QED  BY <1>5, <2>1 DEF IsJoint
  <1>. HIDE DEF z
  <1>9. u = z
    BY DEF z, w, v, p, q, r, MovedDown
  <1>10. ASSUME NEW i \in 1 .. a PROVE u[i] = s[i]
    <2>1. i \in 1 .. m /\ i \in 1 .. c
      BY <1>1
    <2>2. v[i] = s[i]
      BY <1>2, <1>6
    <2>. QED  BY <1>7, <1>8, <1>9, <2>1, <2>2
  <1>11. ASSUME NEW i \in a + 1 .. m PROVE u[i] = t[i - a]
    <2>1. i \in 1 .. m /\ i \in 1 .. c
      BY <1>1
    <2>. QED  BY <1>6, <1>7, <1>8, <1>9, <2>1
  <1>12. ASSUME NEW i \in m + 1 .. c PROVE u[i] = s[i - n]
    <2>1. i \in 1 .. c /\ i - m \in 1 .. k /\ (i - m) + a = i - n
      BY <1>1
    <2>2. q[i - m] = s[i - n]
      BY <1>3, <2>1
    <2>. QED  BY <1>7, <1>8, <1>9, <2>1, <2>2
  <1>13. ASSUME NEW i \in c + 1 .. Len(u) PROVE u[i] = s[i]
    <2>1. i \in c + 1 .. Len(s) /\ i - c \in 1 .. l /\ (i - c) + c = i
      <3>1. i \in c + 1 .. Len(s)
        BY <1>8, <1>9
      <3>. QED  BY <1>1, <3>1
    <2>2. r[i - c] = s[i]
      BY <1>4, <2>1
    <2>. QED  BY <1>8, <1>9, <2>1, <2>2
  <1>. QED  BY <1>1, <1>8, <1>9, <1>10, <1>11, <1>12, <1>13 DEF IsMovedDown

------------------------------------------------------------------------------
(* Screens, and how an operation changes one.                              *)

Saved == [x : Int, y : Int, wrapNext : BOOLEAN, origin : BOOLEAN]

\* Types of screens.
Screens ==
    [lines : Seq(Lines), offset : Nat, scrolls : BOOLEAN,
     rows : Nat \ {0}, cols : Nat \ {0}, saved : Seq(Saved)]

IsScreen(s, scrolls, rows, cols) ==
    /\ s \in Screens
    /\ s.scrolls = scrolls /\ s.rows = rows /\ s.cols = cols
    /\ Len(s.lines) >= s.rows

(* How a screen may come out of an operation.                              *)
Plain(s) == s.scrolls \/ Len(s.lines) = s.rows
Full(s) == Len(s.lines) = s.rows + ScrollbackSize(s)

\* It keeps its size, and the alternate one its offset.
Frame(s, u) ==
    /\ IsScreen(u, s.scrolls, s.rows, s.cols)
    /\ s.scrolls \/ u.offset = s.offset

\* Stable rows are added at the end, and dropped at the beginning, only.
Grows(s, u) ==
    u.offset >= s.offset /\ u.offset + Len(u.lines) >= s.offset + Len(s.lines)

\* A row in scrollback keeps its content.
Still(s, u) ==
    \A i \in 1 .. Len(u.lines), j \in 1 .. Len(s.lines) - s.rows :
        u.offset + i = s.offset + j => u.lines[i].cells = s.lines[j].cells

\* A row that differs is marked.
Tells(s, u) ==
    \A i \in 1 .. Len(u.lines), j \in 1 .. Len(s.lines) :
        u.offset + i = s.offset + j => u.lines[i] = s.lines[j] \/ u.lines[i].changed

\* Rows leave scrollback when it is full.
Drops(s, u) == u.offset > s.offset \/ Full(s) => Full(u)

\* All of these but for what `but` names: "scroll", rows that a region moves
\* below it are not marked; "erase", scrollback is dropped; "silent", a row
\* is not marked.
Evolves(s, u, but) ==
    /\ Frame(s, u)
    /\ Plain(s) =>
          /\ Plain(u)
          /\ Grows(s, u)
          /\ Still(s, u)
          /\ Tells(s, u) \/ "silent" \in but \/ ("scroll" \in but /\ u.offset > s.offset)
          /\ Drops(s, u) \/ "erase" \in but

(* The types of the fields of a screen.                                    *)
LEMMA ScreenIs ==
  ASSUME NEW s \in Screens
  PROVE  /\ s.lines \in Seq(Lines) /\ Len(s.lines) \in Nat
         /\ s.offset \in Nat /\ s.scrolls \in BOOLEAN
         /\ s.rows \in Nat \ {0} /\ s.cols \in Nat \ {0} /\ s.saved \in Seq(Saved)
         /\ \A i \in 1 .. Len(s.lines) : s.lines[i] \in Lines /\ s.lines[i].changed \in BOOLEAN
         /\ DOMAIN s.lines = 1 .. Len(s.lines)
  <1>1. /\ s.lines \in Seq(Lines)
        /\ s.offset \in Nat /\ s.scrolls \in BOOLEAN
        /\ s.rows \in Nat \ {0} /\ s.cols \in Nat \ {0} /\ s.saved \in Seq(Saved)
    BY DEF Screens
  <1>2. Len(s.lines) \in Nat /\ DOMAIN s.lines = 1 .. Len(s.lines) /\ \A i \in 1 .. Len(s.lines) : s.lines[i] \in Lines
    BY <1>1, LenProperties, ElementOfSeq
  <1>. QED  BY <1>1, <1>2 DEF Lines

(* A screen that does not change evolves.                                  *)
LEMMA Unevolved ==
  ASSUME NEW s, NEW but, s \in Screens, Len(s.lines) >= s.rows
  PROVE  Evolves(s, s, but)
  <1>1. Frame(s, s)
    BY DEF Frame, IsScreen
  <1>2. Grows(s, s) /\ Still(s, s) /\ Tells(s, s)
    BY ScreenIs DEF Grows, Still, Tells
  <1>3. Drops(s, s)
    BY ScreenIs DEF Drops
  <1>. QED  BY <1>1, <1>2, <1>3 DEF Evolves

(* What evolves from a screen that evolved has evolved from the first, but *)
(* for the exceptions of both.                                             *)
LEMMA Evolving ==
  ASSUME NEW s \in Screens, NEW u, NEW v, NEW but, NEW more,
         Evolves(s, u, but), Evolves(u, v, more)
  PROVE  Evolves(s, v, but \cup more)
  <1>1. IsScreen(u, s.scrolls, s.rows, s.cols) /\ IsScreen(v, u.scrolls, u.rows, u.cols)
    BY DEF Evolves, Frame
  <1>2. u \in Screens /\ v \in Screens
    BY <1>1 DEF IsScreen
  <1>3. Frame(s, v)
    BY <1>1 DEF Evolves, Frame, IsScreen
  <1>4. ASSUME Plain(s) PROVE /\ Plain(v) /\ Grows(s, v) /\ Still(s, v)
                              /\ Tells(s, v) \/ "silent" \in but \cup more \/ ("scroll" \in but \cup more /\ v.offset > s.offset)
                              /\ Drops(s, v) \/ "erase" \in but \cup more
    <2>1. /\ Plain(u) /\ Grows(s, u) /\ Still(s, u)
          /\ Tells(s, u) \/ "silent" \in but \/ ("scroll" \in but /\ u.offset > s.offset)
          /\ Drops(s, u) \/ "erase" \in but
      BY <1>4 DEF Evolves
    <2>2. /\ Plain(v) /\ Grows(u, v) /\ Still(u, v)
          /\ Tells(u, v) \/ "silent" \in more \/ ("scroll" \in more /\ v.offset > u.offset)
          /\ Drops(u, v) \/ "erase" \in more
      BY <2>1 DEF Evolves
    <2>3. /\ Len(s.lines) \in Nat /\ s.offset \in Nat /\ s.rows \in Nat
          /\ Len(u.lines) \in Nat /\ u.offset \in Nat /\ u.rows \in Nat
          /\ Len(v.lines) \in Nat /\ v.offset \in Nat
          /\ u.rows = s.rows
          /\ u.offset >= s.offset /\ u.offset + Len(u.lines) >= s.offset + Len(s.lines)
          /\ v.offset >= u.offset /\ v.offset + Len(v.lines) >= u.offset + Len(u.lines)
      BY <1>1, <1>2, <2>1, <2>2, ScreenIs DEF Grows, IsScreen
    <2>4. Grows(s, v)
      BY <2>3 DEF Grows
    <2>5. ASSUME NEW i \in 1 .. Len(v.lines), NEW j \in 1 .. Len(s.lines), v.offset + i = s.offset + j
          PROVE  /\ v.offset - u.offset + i \in 1 .. Len(u.lines)
                 /\ v.offset + i = u.offset + (v.offset - u.offset + i)
                 /\ u.offset + (v.offset - u.offset + i) = s.offset + j
                 /\ j <= Len(s.lines) - s.rows => v.offset - u.offset + i <= Len(u.lines) - u.rows
      <3>. DEFINE a == s.offset
                  b == u.offset
                  c == v.offset
                  m == Len(s.lines)
                  n == Len(u.lines)
                  r == s.rows
      <3>1. /\ a \in Nat /\ b \in Nat /\ c \in Nat /\ m \in Nat /\ n \in Nat /\ r \in Nat
            /\ b + n >= a + m /\ c >= b /\ u.rows = r
        BY <2>3
      <3>2. i \in Nat /\ i >= 1 /\ j \in 1 .. m /\ c + i = a + j
        BY <2>3, <2>5
      <3>. HIDE DEF a, b, c, m, n, r
      <3>3. c - b + i \in 1 .. n /\ b + (c - b + i) = c + i
        BY <3>1, <3>2
      <3>4. ASSUME j <= m - r PROVE c - b + i <= n - r
        BY <3>1, <3>2, <3>4
      <3>. QED  BY <3>1, <3>2, <3>3, <3>4 DEF a, b, c, m, n, r
    <2>6. Still(s, v)
      <3>1. SUFFICES ASSUME NEW i \in 1 .. Len(v.lines), NEW j \in 1 .. Len(s.lines) - s.rows, v.offset + i = s.offset + j
                     PROVE  v.lines[i].cells = s.lines[j].cells
        BY DEF Still
      <3>. DEFINE k == v.offset - u.offset + i
      <3>2. j \in 1 .. Len(s.lines) /\ j <= Len(s.lines) - s.rows
        BY <2>3
      <3>3. k \in 1 .. Len(u.lines) /\ v.offset + i = u.offset + k /\ u.offset + k = s.offset + j /\ k <= Len(u.lines) - u.rows
        BY <2>5, <3>1, <3>2
      <3>4. k \in 1 .. Len(u.lines) - u.rows
        BY <2>3, <3>3
      <3>. HIDE DEF k
      <3>5. u.lines[k].cells = s.lines[j].cells
        BY <2>1, <3>3 DEF Still
      <3>6. v.lines[i].cells = u.lines[k].cells
        BY <2>2, <3>3, <3>4 DEF Still
      <3>. QED  BY <3>5, <3>6
    <2>7. Tells(s, u) /\ Tells(u, v) => Tells(s, v)
      <3>1. SUFFICES ASSUME Tells(s, u), Tells(u, v),
                            NEW i \in 1 .. Len(v.lines), NEW j \in 1 .. Len(s.lines), v.offset + i = s.offset + j
                     PROVE  v.lines[i] = s.lines[j] \/ v.lines[i].changed
        BY DEF Tells
      <3>. DEFINE k == v.offset - u.offset + i
      <3>2. k \in 1 .. Len(u.lines) /\ v.offset + i = u.offset + k /\ u.offset + k = s.offset + j
        BY <2>5, <3>1
      <3>. HIDE DEF k
      <3>3. u.lines[k] = s.lines[j] \/ u.lines[k].changed
        BY <3>1, <3>2 DEF Tells
      <3>4. v.lines[i] = u.lines[k] \/ v.lines[i].changed
        BY <3>1, <3>2 DEF Tells
      <3>. QED  BY <3>3, <3>4
    <2>8. Tells(s, v) \/ "silent" \in but \cup more \/ ("scroll" \in but \cup more /\ v.offset > s.offset)
      BY <2>1, <2>2, <2>3, <2>7
    <2>9. Drops(s, v) \/ "erase" \in but \cup more
      BY <2>1, <2>2, <2>3 DEF Drops
    <2>. QED  BY <2>2, <2>4, <2>6, <2>8, <2>9
  <1>. QED  BY <1>3, <1>4 DEF Evolves

(* More exceptions may be named than there are.                            *)
LEMMA EvolvesMore ==
  ASSUME NEW s, NEW u, NEW but, NEW more, Evolves(s, u, but), but \subseteq more
  PROVE  Evolves(s, u, more)
  BY DEF Evolves

(* A screen with other lines.                                              *)
LEMMA WithLines ==
  ASSUME NEW s \in Screens, NEW ls \in Seq(Lines)
  PROVE  /\ [s EXCEPT !.lines = ls] \in Screens
         /\ [s EXCEPT !.lines = ls].lines = ls
         /\ [s EXCEPT !.lines = ls].offset = s.offset
         /\ [s EXCEPT !.lines = ls].scrolls = s.scrolls
         /\ [s EXCEPT !.lines = ls].rows = s.rows
         /\ [s EXCEPT !.lines = ls].cols = s.cols
         /\ [s EXCEPT !.lines = ls].saved = s.saved
  BY DEF Screens

HasLines(u, s, ls, o) ==
    /\ u \in Screens /\ u.lines = ls /\ u.offset = o
    /\ u.scrolls = s.scrolls /\ u.rows = s.rows /\ u.cols = s.cols /\ u.saved = s.saved

(* The same with another offset of the stable rows.                        *)
LEMMA WithOffset ==
  ASSUME NEW s \in Screens, NEW ls \in Seq(Lines), NEW o \in Nat
  PROVE  HasLines([s EXCEPT !.lines = ls, !.offset = o], s, ls, o)
  BY DEF Screens, HasLines

(* Lines are edited in place, those in scrollback only marked.             *)
LEMMA Edited ==
  ASSUME NEW s \in Screens, Len(s.lines) >= s.rows,
         NEW ls \in Seq(Lines), Len(ls) = Len(s.lines),
         \A i \in 1 .. Len(ls) : ls[i] = s.lines[i] \/ ls[i].changed,
         \A i \in 1 .. Len(s.lines) - s.rows : ls[i].cells = s.lines[i].cells
  PROVE  Evolves(s, [s EXCEPT !.lines = ls], {})
  <1>. DEFINE u == [s EXCEPT !.lines = ls]
  <1>1. /\ u \in Screens /\ u.lines = ls /\ u.offset = s.offset
        /\ u.scrolls = s.scrolls /\ u.rows = s.rows /\ u.cols = s.cols
    BY WithLines
  <1>. HIDE DEF u
  <1>2. Len(s.lines) \in Nat /\ s.offset \in Nat /\ s.rows \in Nat
    BY ScreenIs
  <1>3. Frame(s, u)
    BY <1>1 DEF Frame, IsScreen
  <1>4. Grows(s, u) /\ Still(s, u) /\ Tells(s, u)
    <2>1. \A i \in 1 .. Len(u.lines), j \in 1 .. Len(s.lines) : u.offset + i = s.offset + j => i = j
      BY <1>1, <1>2
    <2>2. \A j \in 1 .. Len(s.lines) - s.rows : j \in 1 .. Len(s.lines)
      BY <1>2
    <2>. QED  BY <1>1, <1>2, <2>1, <2>2 DEF Grows, Still, Tells
  <1>5. Drops(s, u) /\ (Plain(s) => Plain(u))
    BY <1>1, <1>2 DEF Drops, Full, ScrollbackSize, Plain
  <1>6. Evolves(s, u, {})
    BY <1>3, <1>4, <1>5 DEF Evolves
  <1>. QED  BY <1>6 DEF u

------------------------------------------------------------------------------
(* Rows that are marked, and lines that are moved.                         *)

(* A row of the screen is counted from the end of the lines (screen.rs,    *)
(* phys_row).                                                              *)
LEMMA PhysRowIs ==
  ASSUME NEW s \in Screens, Len(s.lines) >= s.rows, NEW y \in 0 .. s.rows
  PROVE  PhysRow(s, y) = Len(s.lines) - s.rows + y
  <1>. DEFINE l == Len(s.lines)
              r == s.rows
  <1>1. l \in Nat /\ r \in Nat /\ y \in 0 .. r /\ l >= r
    BY ScreenIs
  <1>2. PhysRow(s, y) = Most(0, l - r) + Least(Most(y, 0), r)
    BY DEF PhysRow
  <1>. HIDE DEF l, r
  <1>3. PhysRow(s, y) = l - r + y
    BY <1>1, <1>2 DEF Most, Least
  <1>. QED  BY <1>3 DEF l, r

(* A line that has only been marked.                                       *)
Kept(line, new) == new.cells = line.cells /\ (new = line \/ new.changed)

(* Lines that are marked keep their cells.                                 *)
LEMMA TouchRowsIs ==
  ASSUME NEW ls \in Seq(Lines), NEW K
  PROVE  /\ TouchRows(ls, K) \in Seq(Lines) /\ Len(TouchRows(ls, K)) = Len(ls)
         /\ \A i \in 1 .. Len(ls) : Kept(ls[i], TouchRows(ls, K)[i])
         /\ \A i \in 1 .. Len(ls) : i - 1 \in K => TouchRows(ls, K)[i].changed
  <1>. DEFINE n == Len(ls)
              f == TouchRows(ls, K)
  <1>1. n \in Nat /\ DOMAIN ls = 1 .. n /\ \A i \in 1 .. n : ls[i] \in Lines
    BY LenProperties, ElementOfSeq
  <1>2. \A i \in 1 .. n : Touch(ls[i]) \in Lines /\ Touch(ls[i]).cells = ls[i].cells /\ Touch(ls[i]).changed
    BY <1>1, LineEdits DEF Replaces
  <1>3. f = [i \in 1 .. n |-> IF i - 1 \in K THEN Touch(ls[i]) ELSE ls[i]]
    BY <1>1 DEF TouchRows
  <1>. HIDE DEF f, n
  <1>4. f \in [1 .. n -> Lines]
    BY <1>1, <1>2, <1>3
  <1>5. f \in Seq(Lines) /\ Len(f) = n
    BY <1>1, <1>4, Listing
  <1>6. \A i \in 1 .. n : Kept(ls[i], f[i]) /\ (i - 1 \in K => f[i].changed)
    BY <1>2, <1>3 DEF Kept
  <1>. QED  BY <1>5, <1>6 DEF f, n

(* New lines are blank and marked.                                         *)
LEMMA NewLinesIs ==
  ASSUME NEW n \in Nat
  PROVE  /\ NewLines(n) \in Seq(Lines) /\ Len(NewLines(n)) = n
         /\ \A i \in 1 .. n : NewLines(n)[i] = NewLine
         /\ NewLine \in Lines /\ NewLine.cells = << >> /\ NewLine.changed
  <1>1. NewLine \in Lines /\ NewLine.cells = << >> /\ NewLine.changed
    BY DEF NewLine, Lines, Cells
  <1>2. NewLines(n) \in [1 .. n -> Lines]
    BY <1>1 DEF NewLines
  <1>. QED  BY <1>1, <1>2, Listing DEF NewLines

(* scroll_up takes lines out after at and puts new ones in.                *)
UpParts(s, u, at, removed, to, count) ==
    /\ Len(u.lines) = Len(s.lines) - removed + count
    /\ \A i \in 1 .. at : Kept(s.lines[i], u.lines[i])
    /\ \A i \in at + 1 .. to - removed : Kept(s.lines[i + removed], u.lines[i])
    /\ \A i \in to - removed + 1 .. to - removed + count :
          u.lines[i].cells = << >> /\ u.lines[i].changed
    /\ \A i \in to - removed + count + 1 .. Len(u.lines) :
          Kept(s.lines[i + removed - count], u.lines[i])

IsScrolled(s, u, ls, at, removed, to, count) ==
    /\ u.lines \in Seq(Lines)
    /\ UpParts(s, u, at, removed, to, count)
    /\ \A i \in at + 1 .. to - removed : u.lines[i] = ls[i + removed]

(* Where each line is after lines left at one place and new ones came at   *)
(* another.                                                                *)
LEMMA ScrolledIs ==
  ASSUME NEW s \in Screens, NEW u, NEW ls \in Seq(Lines), Len(ls) = Len(s.lines),
         \A i \in 1 .. Len(ls) : Kept(s.lines[i], ls[i]),
         NEW at \in Nat, NEW removed \in Nat, NEW to \in Nat, NEW count \in Nat,
         at + removed <= to, to <= Len(ls),
         u.lines = Scrolled(ls, at, removed, to, count)
  PROVE  IsScrolled(s, u, ls, at, removed, to, count)
  <1>. DEFINE new == NewLines(count)
              n == Len(ls)
              b == at + removed
              w == u.lines
  <1>1. new \in Seq(Lines) /\ Len(new) = count /\ \A i \in 1 .. count : new[i] = NewLine
    BY NewLinesIs
  <1>2. NewLine.cells = << >> /\ NewLine.changed
    BY DEF NewLine
  <1>3. n \in Nat /\ b \in Nat /\ at <= b /\ b <= to /\ to <= n
    BY LenProperties
  <1>4. w = MovedUp(ls, new, at, b, to)
    BY DEF Scrolled, MovedUp
  <1>. HIDE DEF new, b, w
  <1>5. /\ w \in Seq(Lines)
        /\ Len(w) = Len(ls) - (b - at) + Len(new)
        /\ \A i \in 1 .. at : w[i] = ls[i]
        /\ \A i \in at + 1 .. at + (to - b) : w[i] = ls[i + (b - at)]
        /\ \A i \in at + (to - b) + 1 .. at + (to - b) + Len(new) : w[i] = new[i - (at + (to - b))]
        /\ \A i \in at + (to - b) + Len(new) + 1 .. Len(w) : w[i] = ls[i + (b - at) - Len(new)]
    <2>1. IsMovedUp(w, Lines, ls, new, at, b, to)
      BY <1>3, <1>1, <1>4, MovedUpIs
    <2>. QED  BY <2>1 DEF IsMovedUp
  <1>6. b - at = removed /\ at + (to - b) = to - removed
    BY DEF b
  <1>7. /\ Len(w) = n - removed + count
        /\ \A i \in 1 .. at : w[i] = ls[i]
        /\ \A i \in at + 1 .. to - removed : w[i] = ls[i + removed]
        /\ \A i \in to - removed + 1 .. to - removed + count : w[i] = new[i - (to - removed)]
        /\ \A i \in to - removed + count + 1 .. Len(w) : w[i] = ls[i + removed - count]
    BY <1>1, <1>5, <1>6
  <1>. HIDE DEF n
  <1>8. ASSUME NEW i \in 1 .. at PROVE Kept(s.lines[i], w[i])
    <2>1. i \in 1 .. n
      BY <1>3
    <2>. QED  BY <1>7, <2>1 DEF n
  <1>9. ASSUME NEW i \in at + 1 .. to - removed
        PROVE Kept(s.lines[i + removed], w[i])
    <2>1. i + removed \in 1 .. n
      BY <1>3
    <2>. QED  BY <1>7, <2>1 DEF n
  <1>10. ASSUME NEW i \in to - removed + 1 .. to - removed + count
         PROVE  w[i].cells = << >> /\ w[i].changed
    <2>1. i - (to - removed) \in 1 .. count
      OBVIOUS
    <2>. QED  BY <1>1, <1>2, <1>7, <2>1
  <1>11. ASSUME NEW i \in to - removed + count + 1 .. Len(w)
         PROVE Kept(s.lines[i + removed - count], w[i])
    <2>1. i \in to - removed + count + 1 .. n - removed + count
      BY <1>7
    <2>2. i + removed - count \in 1 .. n
      BY <1>3, <2>1
    <2>. QED  BY <1>7, <2>2 DEF n
  <1>12. Len(w) = Len(s.lines) - removed + count
    BY <1>7 DEF n
  <1>. QED  BY <1>5, <1>7, <1>8, <1>9, <1>10, <1>11, <1>12
               DEF UpParts, IsScrolled, w

------------------------------------------------------------------------------
(* Scrolling up.                                                           *)

(* What scroll_up does, in terms of the lines: their place, their content and*)
(* their marks.                                                            *)
Keeps(s, top) == top = 0 /\ s.scrolls
UpCount(bottom, top, n) == Least(n, bottom - top)
UpRemoved(s, top, count) == IF Keeps(s, top) THEN Surplus(s, count) ELSE count
UpAt(s, top) == IF top = 0 THEN 0 ELSE Len(s.lines) - s.rows + top

UpMarks(s, u, top, bottom, removed, to, count) ==
    /\ Keeps(s, top) /\ removed # count =>
          \A i \in to - removed + count + 1 .. Len(u.lines) : u.lines[i].changed
    /\ ~ Keeps(s, top) =>
          \A i \in Len(s.lines) - s.rows + top + 1 .. to - removed : u.lines[i].changed

IsScrolledUp(s, u, top, bottom, n) ==
    LET count == UpCount(bottom, top, n)
        removed == UpRemoved(s, top, count)
        at == UpAt(s, top)
        to == Len(s.lines) - s.rows + bottom
    IN /\ u \in Screens /\ u.scrolls = s.scrolls /\ u.rows = s.rows /\ u.cols = s.cols
       /\ u.saved = s.saved
       /\ u.offset = IF Keeps(s, top) THEN s.offset + removed ELSE s.offset
       /\ UpParts(s, u, at, removed, to, count)
       /\ UpMarks(s, u, top, bottom, removed, to, count)

(* The numbers.                                                            *)
LEMMA UpNumbers ==
  ASSUME NEW s \in Screens, Len(s.lines) >= s.rows, scrollback \in Nat,
         NEW bottom \in 1 .. s.rows, NEW top \in 0 .. bottom - 1, NEW n \in Nat
  PROVE  LET count == UpCount(bottom, top, n)
             removed == UpRemoved(s, top, count)
             at == UpAt(s, top)
             to == Len(s.lines) - s.rows + bottom
             from == Len(s.lines) - s.rows + top
         IN /\ count \in Nat /\ removed \in Nat /\ at \in Nat /\ to \in Nat /\ from \in Nat
            /\ at + removed <= to /\ to <= Len(s.lines)
            /\ count <= bottom - top /\ from + count <= to
            /\ at <= from /\ removed <= from + count
            /\ Len(s.lines) - removed + count >= s.rows
            /\ ~ Keeps(s, top) => removed = count
            /\ Keeps(s, top) => at = 0
            /\ Keeps(s, top) =>
                  \/ removed = 0 /\ Len(s.lines) + count <= s.rows + ScrollbackSize(s)
                  \/ Len(s.lines) - removed + count = s.rows + ScrollbackSize(s)
            /\ to = from + (bottom - top)
            /\ Len(s.lines) = from + (s.rows - top)
  <1>. DEFINE l == Len(s.lines)
              r == s.rows
              c == UpCount(bottom, top, n)
              z == ScrollbackSize(s)
              m == UpRemoved(s, top, c)
  <1>1. /\ l \in Nat /\ r \in Nat /\ bottom \in Nat /\ top \in Nat /\ top < bottom /\ bottom <= r /\ r <= l
        /\ z \in Nat
    BY ScreenIs DEF ScrollbackSize
  <1>2. c \in Nat /\ c <= bottom - top
    BY <1>1 DEF UpCount, Least
  <1>. HIDE DEF c, z, l, r
  <1>3. /\ m \in Nat /\ (~ Keeps(s, top) => m = c)
        /\ Keeps(s, top) => top = 0 /\ (\/ m = 0 /\ l + c <= r + z
                                        \/ l - m + c = r + z)
    <2>1. CASE Keeps(s, top)
      <3>1. m = Most(0, l + c - (r + z))
        BY <2>1 DEF UpRemoved, Surplus, l, r, z
      <3>. HIDE DEF m
      <3>. QED  BY <1>1, <1>2, <2>1, <3>1 DEF Most, Keeps
    <2>2. CASE ~ Keeps(s, top)
      BY <1>2, <2>2 DEF UpRemoved
    <2>. QED  BY <2>1, <2>2
  <1>. DEFINE a == UpAt(s, top)
  <1>4. a = (IF top = 0 THEN 0 ELSE l - r + top)
    BY DEF UpAt, l, r
  <1>. HIDE DEF m, a
  <1>5. a \in Nat /\ a <= l - r + top /\ (Keeps(s, top) => a = 0)
    BY <1>1, <1>3, <1>4
  <1>6. l - r + bottom \in Nat /\ l - r + top \in Nat /\ l - r + bottom <= l /\ l - r + top + c <= l - r + bottom
    BY <1>1, <1>2
  <1>7. m <= l - r + top + c /\ a + m <= l - r + bottom /\ l - m + c >= r
    <2>1. CASE Keeps(s, top)
      BY <1>1, <1>2, <1>3, <1>5, <2>1
    <2>2. CASE ~ Keeps(s, top)
      BY <1>1, <1>2, <1>3, <1>5, <2>2
    <2>. QED  BY <2>1, <2>2
  <1>8. l - r + bottom = (l - r + top) + (bottom - top) /\ l = (l - r + top) + (r - top)
    BY <1>1
  <1>. QED  BY <1>1, <1>2, <1>3, <1>5, <1>6, <1>7, <1>8 DEF l, r, c, z, m, a

(* After scroll_up every line is where scrolling puts it, with its cells,  *)
(* and marked if it can be seen elsewhere than before.                     *)
LEMMA ScrollUpIs ==
  ASSUME NEW s \in Screens, Len(s.lines) >= s.rows, scrollback \in Nat,
         NEW bottom \in 1 .. s.rows, NEW top \in 0 .. bottom - 1, NEW n \in Nat
  PROVE  IsScrolledUp(s, ScrollUp(s, top, bottom, n), top, bottom, n)
  <1>. DEFINE from == PhysRow(s, top)
              to == PhysRow(s, bottom)
              count == Least(n, to - from)
              keep == top = 0 /\ s.scrolls
              removed == IF keep THEN Surplus(s, count) ELSE count
              at == IF top = 0 THEN 0 ELSE from
              lines1 == IF keep THEN s.lines ELSE TouchRows(s.lines, from .. to - 1)
              sc == Scrolled(lines1, at, removed, to, count)
              o == IF keep THEN s.offset + removed ELSE s.offset
              after == [s EXCEPT !.lines = sc, !.offset = IF keep THEN @ + removed ELSE @]
              shifts == removed > count \/ (removed < count /\ bottom # s.rows)
              touched == TouchRows(after.lines, PhysRow(after, bottom) .. PhysRow(after, s.rows) - 1)
              u == IF ~ shifts THEN after ELSE [after EXCEPT !.lines = touched]
              l == Len(s.lines)
  <1>1. ScrollUp(s, top, bottom, n) = u
    BY DEF ScrollUp
  <1>2. /\ l \in Nat /\ s.rows \in Nat /\ s.offset \in Nat /\ s.lines \in Seq(Lines) /\ bottom \in 0 .. s.rows /\ top \in 0 .. s.rows
        /\ top \in Nat /\ bottom \in Nat /\ top < bottom
    BY ScreenIs
  <1>3. from = l - s.rows + top /\ to = l - s.rows + bottom
    BY <1>2, PhysRowIs
  <1>4. /\ count = UpCount(bottom, top, n)
        /\ removed = UpRemoved(s, top, count)
        /\ at = UpAt(s, top)
        /\ keep = Keeps(s, top)
    <2>1. to - from = bottom - top
      <3>. HIDE DEF from, to, l
      <3>. QED  BY <1>2, <1>3
    <2>. QED  BY <1>3, <2>1 DEF UpCount, UpRemoved, UpAt, Keeps
  <1>5. /\ count \in Nat /\ removed \in Nat /\ at \in Nat /\ to \in Nat /\ from \in Nat
        /\ at + removed <= to /\ to <= l
        /\ l - removed + count >= s.rows
        /\ ~ keep => removed = count
        /\ Keeps(s, top) => at = 0
    <2>. HIDE DEF count, removed, at, to, from, keep
    <2>. QED  BY <1>3, <1>4, UpNumbers
  <1>6. /\ lines1 \in Seq(Lines) /\ Len(lines1) = l
        /\ \A i \in 1 .. l : Kept(s.lines[i], lines1[i])
        /\ ~ keep => \A i \in 1 .. l : i - 1 \in from .. to - 1 => lines1[i].changed
    <2>1. \A i \in 1 .. l : Kept(s.lines[i], s.lines[i])
      BY DEF Kept
    <2>2. /\ TouchRows(s.lines, from .. to - 1) \in Seq(Lines) /\ Len(TouchRows(s.lines, from .. to - 1)) = l
          /\ \A i \in 1 .. l : Kept(s.lines[i], TouchRows(s.lines, from .. to - 1)[i])
          /\ \A i \in 1 .. l : i - 1 \in from .. to - 1 => TouchRows(s.lines, from .. to - 1)[i].changed
      <3>. HIDE DEF from, to
      <3>. QED  BY <1>2, TouchRowsIs
    <2>3. CASE keep
      <3>1. lines1 = s.lines
        BY <2>3
      <3>. HIDE DEF from, to, l, lines1, keep
      <3>. QED  BY <1>2, <2>1, <2>3, <3>1 DEF l
    <2>4. CASE ~ keep
      <3>1. lines1 = TouchRows(s.lines, from .. to - 1)
        BY <2>4
      <3>. HIDE DEF from, to, l, lines1, keep
      <3>. QED  BY <2>2, <2>4, <3>1
    <2>. QED  BY <2>3, <2>4
  <1>. HIDE DEF count, removed, at, to, from, lines1
  <1>7. sc \in Seq(Lines)
        /\ UpParts(s, [lines |-> sc], at, removed, to, count)
        /\ \A i \in at + 1 .. to - removed : sc[i] = lines1[i + removed]
    <2>. DEFINE v == [lines |-> sc]
    <2>1. v.lines = sc
      OBVIOUS
    <2>. HIDE DEF v, l
    <2>2. Len(lines1) = Len(s.lines) /\ \A i \in 1 .. Len(lines1) : Kept(s.lines[i], lines1[i])
      BY <1>6 DEF l
    <2>3. to <= Len(lines1)
      BY <1>5, <1>6
    <2>4. IsScrolled(s, v, lines1, at, removed, to, count)
      BY <1>5, <1>6, <2>1, <2>2, <2>3, ScrolledIs
    <2>. QED  BY <2>1, <2>4 DEF v, IsScrolled
  <1>. HIDE DEF sc, keep
  <1>8. o \in Nat
    BY <1>2, <1>5
  <1>9. after = [s EXCEPT !.lines = sc, !.offset = o]
    BY DEF Screens
  <1>. HIDE DEF o, after
  <1>10. /\ after \in Screens /\ after.lines = sc /\ after.offset = o
         /\ after.scrolls = s.scrolls /\ after.rows = s.rows /\ after.cols = s.cols /\ after.saved = s.saved
    <2>1. HasLines([s EXCEPT !.lines = sc, !.offset = o], s, sc, o)
      BY <1>7, <1>8, WithOffset
    <2>. QED  BY <1>9, <2>1 DEF HasLines
  <1>11. Len(sc) = l - removed + count
    BY <1>7 DEF UpParts
  <1>12. /\ PhysRow(after, bottom) = Len(sc) - s.rows + bottom
         /\ PhysRow(after, s.rows) = Len(sc)
    <2>1. Len(after.lines) >= after.rows /\ bottom \in 0 .. after.rows /\ s.rows \in 0 .. after.rows
      BY <1>2, <1>5, <1>10, <1>11
    <2>2. /\ PhysRow(after, bottom) = Len(after.lines) - after.rows + bottom
          /\ PhysRow(after, s.rows) = Len(after.lines) - after.rows + s.rows
      BY <1>10, <2>1, PhysRowIs
    <2>. HIDE DEF l
    <2>. QED  BY <1>2, <1>5, <1>10, <1>11, <2>2
  <1>. DEFINE K == PhysRow(after, bottom) .. PhysRow(after, s.rows) - 1
  <1>13. /\ touched \in Seq(Lines) /\ Len(touched) = Len(sc)
         /\ \A i \in 1 .. Len(sc) : Kept(sc[i], touched[i])
         /\ \A i \in 1 .. Len(sc) : i - 1 \in K => touched[i].changed
    <2>1. touched = TouchRows(sc, K)
      BY <1>10
    <2>. HIDE DEF touched, K
    <2>. QED  BY <1>7, <2>1, TouchRowsIs
  <1>14. /\ u \in Screens /\ u.offset = o
         /\ u.scrolls = s.scrolls /\ u.rows = s.rows /\ u.cols = s.cols /\ u.saved = s.saved
         /\ u.lines = IF shifts THEN touched ELSE sc
    <2>1. /\ [after EXCEPT !.lines = touched] \in Screens
          /\ [after EXCEPT !.lines = touched].lines = touched
          /\ [after EXCEPT !.lines = touched].offset = after.offset
          /\ [after EXCEPT !.lines = touched].scrolls = after.scrolls
          /\ [after EXCEPT !.lines = touched].rows = after.rows
          /\ [after EXCEPT !.lines = touched].cols = after.cols
          /\ [after EXCEPT !.lines = touched].saved = after.saved
      <3>. HIDE DEF touched
      <3>. QED  BY <1>10, <1>13, WithLines
    <2>. HIDE DEF touched, shifts
    <2>. QED  BY <1>10, <2>1
  <1>. HIDE DEF u, touched
  <1>15. Len(u.lines) = Len(sc) /\ \A i \in 1 .. Len(sc) : Kept(sc[i], u.lines[i])
    <2>1. \A i \in 1 .. Len(sc) : Kept(sc[i], sc[i])
      BY DEF Kept
    <2>. HIDE DEF shifts
    <2>. QED  BY <1>13, <1>14, <2>1
  <1>16. UpParts(s, u, at, removed, to, count)
    <2>. DEFINE w == u.lines
    <2>1. /\ Len(w) = l - removed + count
          /\ \A i \in 1 .. l - removed + count : Kept(sc[i], w[i])
      BY <1>11, <1>15
    <2>2. /\ \A i \in 1 .. at : Kept(s.lines[i], sc[i])
          /\ \A i \in at + 1 .. to - removed : Kept(s.lines[i + removed], sc[i])
          /\ \A i \in to - removed + 1 .. to - removed + count : sc[i].cells = << >> /\ sc[i].changed
          /\ \A i \in to - removed + count + 1 .. l - removed + count :
                Kept(s.lines[i + removed - count], sc[i])
      BY <1>7, <1>11 DEF UpParts
    <2>. HIDE DEF w
    <2>3. /\ \A i \in 1 .. at : i \in 1 .. l - removed + count
          /\ \A i \in at + 1 .. to - removed : i \in 1 .. l - removed + count
          /\ \A i \in to - removed + 1 .. to - removed + count : i \in 1 .. l - removed + count
          /\ \A i \in to - removed + count + 1 .. l - removed + count : i \in 1 .. l - removed + count
      <3>. HIDE DEF l
      <3>. QED  BY <1>2, <1>5
    <2>4. /\ \A i \in 1 .. at : Kept(s.lines[i], w[i])
          /\ \A i \in at + 1 .. to - removed : Kept(s.lines[i + removed], w[i])
          /\ \A i \in to - removed + 1 .. to - removed + count : w[i].cells = << >> /\ w[i].changed
          /\ \A i \in to - removed + count + 1 .. l - removed + count :
                Kept(s.lines[i + removed - count], w[i])
      BY <2>1, <2>2, <2>3 DEF Kept
    <2>. QED  BY <2>1, <2>4 DEF UpParts, w
  <1>17. UpMarks(s, u, top, bottom, removed, to, count)
    <2>1. ASSUME keep, removed # count, NEW i \in to - removed + count + 1 .. Len(u.lines)
          PROVE  u.lines[i].changed
      <3>1. i \in 1 .. Len(sc) /\ i <= Len(sc) /\ i >= to - removed + count + 1 /\ i \in Nat
        <4>. HIDE DEF l
        <4>. QED  BY <1>2, <1>5, <1>11, <1>15
      <3>2. CASE shifts
        <4>1. u.lines = touched
          BY <1>14, <3>2
        <4>2. i - 1 \in K
          <5>1. K = Len(sc) - s.rows + bottom .. Len(sc) - 1
            BY <1>12
          <5>2. to - removed + count = Len(sc) - s.rows + bottom
            <6>. DEFINE r == s.rows
                        z == Len(sc)
            <6>1. l \in Nat /\ r \in Nat /\ to = l - r + bottom /\ z = l - removed + count
              BY <1>2, <1>3, <1>11
            <6>. HIDE DEF l, r, z
            <6>2. to - removed + count = z - r + bottom
              BY <1>2, <1>5, <6>1
            <6>. QED  BY <6>2 DEF r, z
          <5>. HIDE DEF K
          <5>. QED  BY <1>2, <1>5, <1>11, <3>1, <5>1, <5>2
        <4>. HIDE DEF K
        <4>. QED  BY <1>13, <3>1, <4>1, <4>2
      <3>3. CASE ~ shifts
        <4>1. bottom = s.rows /\ removed < count
          <5>. QED  BY <1>5, <2>1, <3>3
        <4>2. to = l
          <5>. HIDE DEF l
          <5>. QED  BY <1>2, <1>3, <4>1
        <4>. HIDE DEF l
        <4>. QED  BY <1>2, <1>5, <1>11, <3>1, <4>2
      <3>. QED  BY <3>2, <3>3
    <2>2. ASSUME ~ keep, NEW i \in l - s.rows + top + 1 .. to - removed
          PROVE  u.lines[i].changed
      <3>1. i \in at + 1 .. to - removed /\ i + removed \in 1 .. l /\ i + removed - 1 \in from .. to - 1
            /\ i \in 1 .. l - removed + count
        <4>1. at <= from
          BY <1>3, <1>5 DEF at
        <4>. DEFINE r == s.rows
        <4>2. l \in Nat /\ r \in Nat /\ from = l - r + top /\ i \in from + 1 .. to - removed
          BY <1>2, <1>3, <2>2
        <4>. HIDE DEF l, r
        <4>. QED  BY <1>2, <1>5, <4>1, <4>2
      <3>2. sc[i].changed
        <4>. DEFINE k == i + removed
        <4>1. k \in 1 .. l /\ k - 1 \in from .. to - 1 /\ sc[i] = lines1[k]
          <5>1. k \in 1 .. l /\ k - 1 \in from .. to - 1
            <6>1. k \in 1 .. l
              BY <3>1
            <6>2. k - 1 = i + removed - 1
              BY <1>5, <3>1
            <6>. QED  BY <3>1, <6>1, <6>2
          <5>2. sc[i] = lines1[k]
            BY <1>7, <3>1
          <5>. QED  BY <5>1, <5>2
        <4>. HIDE DEF k, l
        <4>2. lines1[k].changed
          BY <1>6, <2>2, <4>1
        <4>. QED  BY <4>1, <4>2
      <3>3. Kept(sc[i], u.lines[i])
        BY <1>11, <1>15, <3>1
      <3>. QED  BY <3>2, <3>3 DEF Kept
    <2>. QED  BY <1>4, <2>1, <2>2 DEF UpMarks
  <1>. QED  BY <1>1, <1>3, <1>4, <1>14, <1>16, <1>17 DEF IsScrolledUp, o

------------------------------------------------------------------------------
(* What is on the screen after it.                                         *)

ScrollBut(s, bottom) == IF bottom < s.rows THEN {"scroll"} ELSE {}

(* scroll_up keeps the rows in scrollback and marks what changes; a region *)
(* that ends above the bottom and pushes lines into scrollback is the      *)
(* exception.                                                              *)
LEMMA ScrollUpEvolves ==
  ASSUME NEW s \in Screens, Len(s.lines) >= s.rows, scrollback \in Nat,
         NEW bottom \in 1 .. s.rows, NEW top \in 0 .. bottom - 1, NEW n \in Nat
  PROVE  Evolves(s, ScrollUp(s, top, bottom, n), ScrollBut(s, bottom))
  <1>. DEFINE u == ScrollUp(s, top, bottom, n)
              l == Len(s.lines)
              r == s.rows
              z == ScrollbackSize(s)
              count == UpCount(bottom, top, n)
              removed == UpRemoved(s, top, count)
              at == UpAt(s, top)
              to == l - r + bottom
              from == l - r + top
              o == s.offset
              p == u.offset
              m == Len(u.lines)
              keep == Keeps(s, top)
  <1>1. IsScrolledUp(s, u, top, bottom, n)
    BY ScrollUpIs
  <1>. HIDE DEF u
  <1>2. /\ l \in Nat /\ r \in Nat /\ l >= r /\ o \in Nat /\ z \in Nat
        /\ top \in Nat /\ bottom \in Nat /\ top < bottom /\ bottom <= r
    BY ScreenIs DEF ScrollbackSize
  <1>3. /\ count \in Nat /\ removed \in Nat /\ at \in Nat /\ to \in Nat /\ from \in Nat
        /\ at + removed <= to /\ to <= l
        /\ count <= bottom - top /\ from + count <= to
        /\ at <= from /\ removed <= from + count
        /\ l - removed + count >= r
        /\ ~ keep => removed = count
        /\ keep => at = 0
        /\ keep => \/ removed = 0 /\ l + count <= r + z
                   \/ l - removed + count = r + z
        /\ to = from + (bottom - top)
        /\ l = from + (r - top)
    BY UpNumbers
  <1>4. /\ u \in Screens /\ u.scrolls = s.scrolls /\ u.rows = s.rows /\ u.cols = s.cols
        /\ p = IF keep THEN o + removed ELSE o
        /\ UpParts(s, u, at, removed, to, count)
        /\ UpMarks(s, u, top, bottom, removed, to, count)
    BY <1>1 DEF IsScrolledUp
  <1>5. /\ m = l - removed + count
        /\ \A i \in 1 .. at : Kept(s.lines[i], u.lines[i])
        /\ \A i \in at + 1 .. to - removed : Kept(s.lines[i + removed], u.lines[i])
        /\ \A i \in to - removed + 1 .. to - removed + count :
              u.lines[i].cells = << >> /\ u.lines[i].changed
        /\ \A i \in to - removed + count + 1 .. m : Kept(s.lines[i + removed - count], u.lines[i])
    BY <1>4 DEF UpParts
  <1>6. /\ keep /\ removed # count => \A i \in to - removed + count + 1 .. m : u.lines[i].changed
        /\ ~ keep => \A i \in from + 1 .. to - removed : u.lines[i].changed
    BY <1>4 DEF UpMarks
  <1>7. /\ keep => top = 0 /\ s.scrolls
        /\ top # 0 => at = from
        /\ top = 0 => at = 0
        /\ from = l - r + top
    BY DEF Keeps, UpAt
  <1>8. Plain(s) /\ ~ keep => at = from
    <2>1. SUFFICES ASSUME Plain(s), ~ keep, top = 0 PROVE from = 0
      BY <1>7
    <2>2. l = r
      BY <2>1 DEF Plain, Keeps
    <2>. QED  BY <1>2, <1>7, <2>1, <2>2
  <1>. DEFINE but == ScrollBut(s, bottom)
  <1>9. bottom < r => "scroll" \in but
    BY DEF ScrollBut
  <1>. HIDE DEF l, r, z, count, removed, at, to, from, o, p, m, keep, but
  <1>10. Frame(s, u)
    <2>1. m >= r /\ (~ s.scrolls => ~ keep)
      BY <1>3, <1>5, <1>7
    <2>. QED  BY <1>4, <2>1 DEF Frame, IsScreen, m, r, o, p
  <1>11. Plain(s) => Plain(u)
    <2>1. ~ s.scrolls /\ l = r => m = r
      BY <1>2, <1>3, <1>5, <1>7
    <2>. QED  BY <1>4, <2>1 DEF Plain, l, m, r
  <1>12. p \in Nat /\ m \in Nat /\ p >= o /\ p + m >= o + l
    <2>1. m \in Nat /\ m = l - removed + count
      BY <1>2, <1>3, <1>5
    <2>2. CASE keep
      <3>1. p = o + removed
        BY <1>4, <2>2
      <3>. QED  BY <1>2, <1>3, <2>1, <3>1
    <2>3. CASE ~ keep
      <3>1. p = o /\ removed = count
        BY <1>3, <1>4, <2>3
      <3>. QED  BY <1>2, <1>3, <2>1, <3>1
    <2>. QED  BY <2>2, <2>3
  <1>13. Grows(s, u)
    BY <1>12 DEF Grows, o, p, l, m
  <1>14. ASSUME NEW i \in 1 .. m, NEW j \in 1 .. l, p + i = o + j
         PROVE  /\ keep => j = i + removed
                /\ ~ keep => j = i
    BY <1>2, <1>3, <1>4, <1>14
  <1>15. ASSUME Plain(s) PROVE Still(s, u)
    <2>1. ASSUME NEW i \in 1 .. m, NEW j \in 1 .. l - r, p + i = o + j
          PROVE  u.lines[i].cells = s.lines[j].cells
      <3>1. j \in 1 .. l /\ j <= l - r
        BY <1>2
      <3>2. CASE keep
        <4>1. j = i + removed
          BY <1>14, <2>1, <3>1, <3>2
        <4>2. i \in at + 1 .. to - removed
          BY <1>2, <1>3, <1>7, <3>1, <3>2, <4>1
        <4>. QED  BY <1>5, <4>1, <4>2 DEF Kept
      <3>3. CASE ~ keep
        <4>1. j = i /\ i \in 1 .. at
          BY <1>2, <1>3, <1>7, <1>8, <1>14, <1>15, <2>1, <3>1, <3>3
        <4>. QED  BY <1>5, <4>1 DEF Kept
      <3>. QED  BY <3>2, <3>3
    <2>. QED  BY <2>1 DEF Still, l, r, m, o, p
  <1>16. ASSUME Plain(s) PROVE Tells(s, u) \/ ("scroll" \in but /\ p > o)
    <2>1. SUFFICES ASSUME ~ ("scroll" \in but /\ p > o) PROVE Tells(s, u)
      OBVIOUS
    <2>2. ASSUME NEW i \in 1 .. m, NEW j \in 1 .. l, p + i = o + j
          PROVE  u.lines[i] = s.lines[j] \/ u.lines[i].changed
      <3>1. /\ keep => j = i + removed
            /\ ~ keep => j = i
        BY <1>14, <2>2
      <3>2. CASE i \in to - removed + 1 .. to - removed + count
        BY <1>5, <3>2
      <3>3. CASE i \in at + 1 .. to - removed
        <4>1. CASE keep
          BY <1>5, <3>1, <3>3, <4>1 DEF Kept
        <4>2. CASE ~ keep
          BY <1>6, <1>8, <1>16, <3>3, <4>2
        <4>. QED  BY <4>1, <4>2
      <3>4. CASE i \in 1 .. at
        <4>1. ~ keep
          BY <1>3, <3>4
        <4>. QED  BY <1>5, <3>1, <3>4, <4>1 DEF Kept
      <3>5. CASE i \in to - removed + count + 1 .. m
        <4>1. Kept(s.lines[i + removed - count], u.lines[i])
          BY <1>5, <3>5
        <4>2. CASE keep /\ removed # count
          BY <1>6, <3>5, <4>2
        <4>3. CASE keep /\ removed = count
          <5>1. bottom < r
            BY <1>2, <1>3, <1>5, <1>7, <3>5, <4>3
          <5>2. removed = 0
            BY <1>2, <1>3, <1>4, <1>9, <2>1, <4>3, <5>1
          <5>3. i + removed - count = j
            BY <1>3, <3>1, <4>3, <5>2
          <5>. QED  BY <4>1, <5>3 DEF Kept
        <4>4. CASE ~ keep
          <5>1. i + removed - count = j
            BY <1>3, <3>1, <4>4
          <5>. QED  BY <4>1, <5>1 DEF Kept
        <4>. QED  BY <4>2, <4>3, <4>4
      <3>6. \/ i \in 1 .. at \/ i \in at + 1 .. to - removed
            \/ i \in to - removed + 1 .. to - removed + count
            \/ i \in to - removed + count + 1 .. m
        BY <1>3, <1>12
      <3>. QED  BY <3>2, <3>3, <3>4, <3>5, <3>6
    <2>. QED  BY <2>2 DEF Tells, l, m, o, p
  <1>17. Drops(s, u)
    <2>1. p > o \/ l = r + z => m = r + z
      <3>1. CASE keep
        BY <1>2, <1>3, <1>4, <1>5, <3>1
      <3>2. CASE ~ keep
        BY <1>2, <1>3, <1>4, <1>5, <3>2
      <3>. QED  BY <3>1, <3>2
    <2>2. ScrollbackSize(u) = z
      BY <1>4 DEF ScrollbackSize, z
    <2>. QED  BY <1>4, <2>1, <2>2 DEF Drops, Full, l, m, o, p, r, z
  <1>18. Evolves(s, u, but)
    BY <1>10, <1>11, <1>13, <1>15, <1>16, <1>17 DEF Evolves, o, p
  <1>. QED  BY <1>18 DEF u, but

(* What is on the screen.                                                  *)
LEMMA ShownIs ==
  ASSUME NEW s \in Screens, Len(s.lines) >= s.rows
  PROVE  /\ Shown(s) \in Seq(Cells) /\ Len(Shown(s)) = s.rows
         /\ \A i \in 1 .. s.rows : Shown(s)[i] = s.lines[Len(s.lines) - s.rows + i].cells
  <1>. DEFINE l == Len(s.lines)
              r == s.rows
              v == Rows(s)
              f == Shown(s)
  <1>1. l \in Nat /\ r \in Nat /\ l >= r /\ s.lines \in Seq(Lines)
    BY ScreenIs
  <1>2. /\ v \in Seq(Lines) /\ Len(v) = r
        /\ \A i \in 1 .. r : v[i] = s.lines[i + (l - r)]
    <2>1. v = SubSeq(s.lines, (l - r) + 1, l)
      BY DEF Rows
    <2>2. l - r \in Nat /\ l - r <= l /\ l - (l - r) = r /\ l <= l
      <3>. HIDE DEF l, r
      <3>. QED  BY <1>1
    <2>. DEFINE k == l - r
    <2>. HIDE DEF v, k
    <2>3. IsPart(v, Lines, s.lines, k, l)
      <3>1. v = SubSeq(s.lines, k + 1, l) /\ k \in Nat /\ k <= l
        BY <2>1, <2>2 DEF k
      <3>. QED  BY <1>1, <2>2, <3>1, PartIs
    <2>4. l - k = r
      BY <2>2 DEF k
    <2>. QED  BY <2>3, <2>4 DEF IsPart, k
  <1>3. f = [i \in 1 .. r |-> v[i].cells]
    BY DEF Shown
  <1>. HIDE DEF v, f, l, r
  <1>4. \A i \in 1 .. r : v[i].cells \in Cells
    <2>1. \A i \in 1 .. r : v[i] \in Lines
      BY <1>1, <1>2, ElementOfSeq
    <2>. QED  BY <2>1 DEF Lines
  <1>5. f \in [1 .. r -> Cells]
    BY <1>3, <1>4
  <1>6. f \in Seq(Cells) /\ Len(f) = r
    BY <1>1, <1>5, Listing
  <1>7. \A i \in 1 .. r : f[i] = s.lines[l - r + i].cells
    <2>1. \A i \in 1 .. r : i + (l - r) = l - r + i
      BY <1>1
    <2>. QED  BY <1>2, <1>3, <2>1
  <1>. QED  BY <1>6, <1>7 DEF f, l, r

(* Blank rows.                                                             *)
LEMMA BlanksAre ==
  ASSUME NEW n \in Nat
  PROVE  LET b == [i \in 1 .. n |-> << >>]
         IN b \in Seq(Cells) /\ Len(b) = n /\ \A i \in 1 .. n : b[i] = << >>
  <1>. DEFINE b == [i \in 1 .. n |-> << >>]
  <1>1. b \in [1 .. n -> Cells]
    BY DEF Cells
  <1>2. \A i \in 1 .. n : b[i] = << >>
    OBVIOUS
  <1>. HIDE DEF b
  <1>. QED  BY <1>1, <1>2, Listing DEF b

(* On the screen, scroll_up moves the rows of its region and no others.    *)
LEMMA ScrollUpMoves ==
  ASSUME NEW s \in Screens, Len(s.lines) >= s.rows, scrollback \in Nat,
         NEW bottom \in 1 .. s.rows, NEW top \in 0 .. bottom - 1, NEW n \in Nat
  PROVE  Shown(ScrollUp(s, top, bottom, n)) = Moved(Shown(s), top, bottom, n)
  <1>. DEFINE u == ScrollUp(s, top, bottom, n)
              l == Len(s.lines)
              r == s.rows
              count == UpCount(bottom, top, n)
              removed == UpRemoved(s, top, count)
              at == UpAt(s, top)
              to == l - r + bottom
              from == l - r + top
              m == Len(u.lines)
              keep == Keeps(s, top)
              shown == Shown(s)
              after == Shown(u)
              blanks == [i \in 1 .. count |-> << >>]
              w == Moved(shown, top, bottom, n)
  <1>1. IsScrolledUp(s, u, top, bottom, n)
    BY ScrollUpIs
  <1>. HIDE DEF u
  <1>2. /\ l \in Nat /\ r \in Nat /\ l >= r
        /\ top \in Nat /\ bottom \in Nat /\ top < bottom /\ bottom <= r
    BY ScreenIs
  <1>3. /\ count \in Nat /\ removed \in Nat /\ at \in Nat /\ to \in Nat /\ from \in Nat
        /\ at + removed <= to /\ to <= l
        /\ count <= bottom - top /\ from + count <= to
        /\ at <= from /\ removed <= from + count
        /\ l - removed + count >= r
        /\ ~ keep => removed = count
        /\ keep => at = 0
        /\ to = from + (bottom - top)
        /\ l = from + (r - top)
    BY UpNumbers
  <1>4. /\ u \in Screens /\ u.rows = r
        /\ UpParts(s, u, at, removed, to, count)
    BY <1>1 DEF IsScrolledUp
  <1>5. /\ m = l - removed + count
        /\ \A i \in 1 .. at : Kept(s.lines[i], u.lines[i])
        /\ \A i \in at + 1 .. to - removed : Kept(s.lines[i + removed], u.lines[i])
        /\ \A i \in to - removed + 1 .. to - removed + count :
              u.lines[i].cells = << >> /\ u.lines[i].changed
        /\ \A i \in to - removed + count + 1 .. m : Kept(s.lines[i + removed - count], u.lines[i])
    BY <1>4 DEF UpParts
  <1>6. /\ keep => top = 0
        /\ top # 0 => at = from
        /\ top = 0 => at = 0
    BY DEF Keeps, UpAt
  <1>7. /\ shown \in Seq(Cells) /\ Len(shown) = r
        /\ \A i \in 1 .. r : shown[i] = s.lines[l - r + i].cells
    BY ShownIs
  <1>8. /\ after \in Seq(Cells) /\ Len(after) = r
        /\ \A i \in 1 .. r : after[i] = u.lines[m - r + i].cells
    <2>1. Len(u.lines) >= u.rows
      BY <1>3, <1>4, <1>5
    <2>2. /\ after \in Seq(Cells) /\ Len(after) = u.rows
          /\ \A i \in 1 .. u.rows : after[i] = u.lines[Len(u.lines) - u.rows + i].cells
      BY <1>4, <2>1, ShownIs
    <2>. QED  BY <1>4, <2>2
  <1>9. blanks \in Seq(Cells) /\ Len(blanks) = count /\ \A i \in 1 .. count : blanks[i] = << >>
    <2>. HIDE DEF count
    <2>. QED  BY <1>3, BlanksAre
  <1>10. w = MovedUp(shown, blanks, top, top + count, bottom)
    BY DEF Moved, MovedUp, UpCount
  <1>. HIDE DEF w, shown, after, blanks, l, r, m, to, from, at, removed, count, keep
  <1>11. IsMovedUp(w, Cells, shown, blanks, top, top + count, bottom)
    <2>. DEFINE b == top + count
    <2>1. b \in Nat /\ top <= b /\ b <= bottom /\ bottom <= Len(shown)
      BY <1>2, <1>3, <1>7
    <2>2. w = MovedUp(shown, blanks, top, b, bottom)
      BY <1>10
    <2>. HIDE DEF b
    <2>3. IsMovedUp(w, Cells, shown, blanks, top, b, bottom)
      BY <1>2, <1>7, <1>9, <2>1, <2>2, MovedUpIs
    <2>. QED  BY <2>3 DEF b
  <1>12. /\ (top + count) - top = count
         /\ top + (bottom - (top + count)) = bottom - count
    BY <1>2, <1>3
  <1>13. /\ w \in Seq(Cells) /\ Len(w) = r
         /\ \A i \in 1 .. top : w[i] = shown[i]
         /\ \A i \in top + 1 .. bottom - count : w[i] = shown[i + count]
         /\ \A i \in bottom - count + 1 .. bottom : w[i] = blanks[i - (bottom - count)]
         /\ \A i \in bottom + 1 .. r : w[i] = shown[i]
    <2>1. /\ w \in Seq(Cells)
          /\ Len(w) = Len(shown) - count + Len(blanks)
          /\ \A i \in 1 .. top : w[i] = shown[i]
          /\ \A i \in top + 1 .. bottom - count : w[i] = shown[i + count]
          /\ \A i \in bottom - count + 1 .. bottom - count + Len(blanks) : w[i] = blanks[i - (bottom - count)]
          /\ \A i \in bottom - count + Len(blanks) + 1 .. Len(w) : w[i] = shown[i + count - Len(blanks)]
      BY <1>11, <1>12 DEF IsMovedUp
    <2>2. Len(w) = r /\ bottom - count + Len(blanks) = bottom
      BY <1>2, <1>3, <1>7, <1>9, <2>1
    <2>3. \A i \in bottom + 1 .. r : i + count - Len(blanks) = i
      BY <1>2, <1>3, <1>9
    <2>. QED  BY <1>9, <2>1, <2>2, <2>3
  <1>14. ASSUME NEW i \in 1 .. r PROVE after[i] = w[i]
    <2>. DEFINE k == m - r + i
    <2>1. k = l - removed + count - r + i /\ after[i] = u.lines[k].cells
      <3>1. k = l - removed + count - r + i
        BY <1>2, <1>3, <1>5
      <3>2. after[i] = u.lines[k].cells
        BY <1>8
      <3>. QED  BY <3>1, <3>2
    <2>. HIDE DEF k
    <2>2. CASE i \in 1 .. top
      <3>1. k = l - r + i /\ k \in 1 .. at
        BY <1>2, <1>3, <1>6, <2>1, <2>2
      <3>2. w[i] = s.lines[k].cells
        BY <1>7, <1>13, <2>2, <3>1
      <3>. QED  BY <1>5, <2>1, <3>1, <3>2 DEF Kept
    <2>3. CASE i \in top + 1 .. bottom - count
      <3>1. k + removed = l - r + (i + count) /\ i + count \in 1 .. r
        <4>1. i + count \in 1 .. r
          BY <1>2, <1>3, <2>3
        <4>2. k + removed = l - r + (i + count)
          <5>1. k = l - removed + count - r + i
            BY <2>1
          <5>. QED  BY <1>2, <1>3, <5>1
        <4>. QED  BY <4>1, <4>2
      <3>2. k \in at + 1 .. to - removed
        BY <1>2, <1>3, <1>6, <2>1, <2>3
      <3>3. w[i] = s.lines[k + removed].cells
        BY <1>7, <1>13, <2>3, <3>1
      <3>. QED  BY <1>5, <2>1, <3>2, <3>3 DEF Kept
    <2>4. CASE i \in bottom - count + 1 .. bottom
      <3>1. k \in to - removed + 1 .. to - removed + count /\ i - (bottom - count) \in 1 .. count
        BY <1>2, <1>3, <2>1, <2>4
      <3>2. w[i] = << >>
        BY <1>9, <1>13, <2>4, <3>1
      <3>. QED  BY <1>5, <2>1, <3>1, <3>2
    <2>5. CASE i \in bottom + 1 .. r
      <3>1. k \in to - removed + count + 1 .. m /\ k + removed - count = l - r + i
        BY <1>2, <1>3, <1>5, <2>1, <2>5
      <3>2. w[i] = s.lines[k + removed - count].cells
        BY <1>7, <1>13, <2>5, <3>1
      <3>. QED  BY <1>5, <2>1, <3>1, <3>2 DEF Kept
    <2>6. i \in 1 .. top \/ i \in top + 1 .. bottom - count \/ i \in bottom - count + 1 .. bottom \/ i \in bottom + 1 .. r
      BY <1>2, <1>3
    <2>. QED  BY <2>2, <2>3, <2>4, <2>5, <2>6
  <1>15. after = w
    BY <1>8, <1>13, <1>14, SeqEqual
  <1>. QED  BY <1>15 DEF after, w, shown, u

------------------------------------------------------------------------------
(* Scrolling down.                                                         *)

(* What scroll_down does: lines leave at the bottom of the region.         *)
IsScrolledDown(s, ls, top, bottom, count) ==
    LET from == Len(s.lines) - s.rows + top
        to == Len(s.lines) - s.rows + bottom
    IN /\ ls \in Seq(Lines) /\ Len(ls) = Len(s.lines)
       /\ \A i \in 1 .. from : ls[i] = s.lines[i]
       /\ \A i \in from + 1 .. from + count : ls[i].cells = << >> /\ ls[i].changed
       /\ \A i \in from + count + 1 .. to :
             ls[i].cells = s.lines[i - count].cells /\ ls[i].changed
       /\ \A i \in to + 1 .. Len(ls) : ls[i] = s.lines[i]

(* After scroll_down every line is where scrolling puts it.                *)
LEMMA ScrollDownIs ==
  ASSUME NEW s \in Screens, Len(s.lines) >= s.rows,
         NEW bottom \in 1 .. s.rows, NEW top \in 0 .. bottom - 1, NEW n \in Nat
  PROVE  \E ls : /\ ScrollDown(s, top, bottom, n) = [s EXCEPT !.lines = ls]
                 /\ IsScrolledDown(s, ls, top, bottom, Least(n, bottom - top))
  <1>. DEFINE from == PhysRow(s, top)
              to == PhysRow(s, bottom)
              count == Least(n, to - from)
              K == from .. to - count - 1
              lines1 == TouchRows(s.lines, K)
              new == NewLines(count)
              l == Len(s.lines)
              r == s.rows
  <1>1. /\ l \in Nat /\ r \in Nat /\ l >= r /\ s.lines \in Seq(Lines)
        /\ bottom \in 0 .. s.rows /\ top \in 0 .. s.rows
        /\ top \in Nat /\ bottom \in Nat /\ top < bottom /\ bottom <= r
    BY ScreenIs
  <1>2. from = l - r + top /\ to = l - r + bottom
    BY <1>1, PhysRowIs
  <1>3. count = Least(n, bottom - top)
    <2>1. to - from = bottom - top
      <3>. HIDE DEF from, to, l, r
      <3>. QED  BY <1>1, <1>2
    <2>. QED  BY <2>1
  <1>. HIDE DEF count, from, to
  <1>4. /\ count \in Nat /\ count <= bottom - top
        /\ from \in Nat /\ to \in Nat /\ from + count <= to /\ to <= l
    <2>1. count \in Nat /\ count <= bottom - top
      BY <1>1, <1>3 DEF Least
    <2>. HIDE DEF l, r
    <2>. QED  BY <1>1, <1>2, <2>1
  <1>5. ScrollDown(s, top, bottom, n) =
            [s EXCEPT !.lines = SubSeq(lines1, 1, from) \o new
                                \o SubSeq(lines1, from + 1, to - count)
                                \o SubSeq(lines1, to + 1, Len(lines1))]
    BY DEF ScrollDown, from, to, count
  <1>. DEFINE w == MovedDown(lines1, new, from, to)
  <1>6. new \in Seq(Lines) /\ Len(new) = count /\ \A i \in 1 .. count : new[i] = NewLine
    BY <1>4, NewLinesIs
  <1>7. NewLine.cells = << >> /\ NewLine.changed
    BY DEF NewLine
  <1>8. ScrollDown(s, top, bottom, n) = [s EXCEPT !.lines = w]
    <2>. HIDE DEF lines1, new
    <2>. QED  BY <1>5, <1>6 DEF MovedDown
  <1>9. /\ lines1 \in Seq(Lines) /\ Len(lines1) = l
        /\ \A i \in 1 .. l : lines1[i].cells = s.lines[i].cells
        /\ \A i \in 1 .. l : i - 1 \in K => lines1[i].changed
        /\ \A i \in 1 .. l : i - 1 \notin K => lines1[i] = s.lines[i]
    <2>1. /\ lines1 \in Seq(Lines) /\ Len(lines1) = l
          /\ \A i \in 1 .. l : Kept(s.lines[i], lines1[i])
          /\ \A i \in 1 .. l : i - 1 \in K => lines1[i].changed
      <3>. HIDE DEF K
      <3>. QED  BY <1>1, TouchRowsIs
    <2>2. DOMAIN s.lines = 1 .. l
      BY ScreenIs
    <2>3. \A i \in 1 .. l : i - 1 \notin K => lines1[i] = s.lines[i]
      <3>. HIDE DEF K
      <3>. QED  BY <2>2 DEF TouchRows
    <2>. HIDE DEF lines1, K
    <2>. QED  BY <2>1, <2>3 DEF Kept
  <1>. HIDE DEF lines1, new, w
  <1>10. /\ w \in Seq(Lines) /\ Len(w) = l
         /\ \A i \in 1 .. from : w[i] = lines1[i]
         /\ \A i \in from + 1 .. from + count : w[i] = new[i - from]
         /\ \A i \in from + count + 1 .. to : w[i] = lines1[i - count]
         /\ \A i \in to + 1 .. l : w[i] = lines1[i]
    <2>1. to <= Len(lines1)
      BY <1>4, <1>9
    <2>2. IsMovedDown(w, Lines, lines1, new, from, to, count)
      BY <1>4, <1>6, <1>9, <2>1, MovedDownIs DEF w
    <2>. HIDE DEF l
    <2>. QED  BY <1>9, <2>2 DEF IsMovedDown
  <1>. HIDE DEF l, r
  <1>11. ASSUME NEW i \in 1 .. from PROVE w[i] = s.lines[i]
    <2>1. i \in 1 .. l /\ i - 1 \notin K
      BY <1>1, <1>4
    <2>. HIDE DEF K
    <2>. QED  BY <1>9, <1>10, <2>1
  <1>12. ASSUME NEW i \in from + 1 .. from + count
         PROVE w[i].cells = << >> /\ w[i].changed
    <2>1. i - from \in 1 .. count
      BY <1>4
    <2>. QED  BY <1>6, <1>7, <1>10, <2>1
  <1>13. ASSUME NEW i \in from + count + 1 .. to
         PROVE w[i].cells = s.lines[i - count].cells /\ w[i].changed
    <2>. DEFINE k == i - count
    <2>1. k \in 1 .. l /\ k - 1 \in K
      BY <1>1, <1>4
    <2>2. w[i] = lines1[k]
      BY <1>10
    <2>. HIDE DEF k, K
    <2>3. w[i].cells = s.lines[k].cells /\ w[i].changed
      BY <1>9, <2>1, <2>2
    <2>. QED  BY <2>3 DEF k
  <1>14. ASSUME NEW i \in to + 1 .. l PROVE w[i] = s.lines[i]
    <2>1. i \in 1 .. l /\ i - 1 \notin K
      BY <1>1, <1>4
    <2>. HIDE DEF K
    <2>. QED  BY <1>9, <1>10, <2>1
  <1>15. IsScrolledDown(s, w, top, bottom, count)
    <2>1. /\ \A i \in 1 .. from : w[i] = s.lines[i]
          /\ \A i \in from + 1 .. from + count : w[i].cells = << >> /\ w[i].changed
          /\ \A i \in from + count + 1 .. to : w[i].cells = s.lines[i - count].cells /\ w[i].changed
          /\ \A i \in to + 1 .. l : w[i] = s.lines[i]
      BY <1>11, <1>12, <1>13, <1>14
    <2>. QED  BY <1>2, <1>10, <2>1 DEF IsScrolledDown, l, r
  <1>. QED  BY <1>3, <1>8, <1>15

(* scroll_down keeps the rows in scrollback and marks the rows of its      *)
(* region.                                                                 *)
LEMMA ScrollDownEvolves ==
  ASSUME NEW s \in Screens, Len(s.lines) >= s.rows,
         NEW bottom \in 1 .. s.rows, NEW top \in 0 .. bottom - 1, NEW n \in Nat
  PROVE  Evolves(s, ScrollDown(s, top, bottom, n), {})
  <1>. DEFINE count == Least(n, bottom - top)
              l == Len(s.lines)
              r == s.rows
              from == l - r + top
              to == l - r + bottom
  <1>1. PICK ls : /\ ScrollDown(s, top, bottom, n) = [s EXCEPT !.lines = ls]
                  /\ IsScrolledDown(s, ls, top, bottom, count)
    BY ScrollDownIs
  <1>2. l \in Nat /\ r \in Nat /\ l >= r /\ top \in Nat /\ bottom \in Nat /\ bottom <= r /\ top < bottom
    BY ScreenIs
  <1>3. count \in Nat /\ count <= bottom - top
    BY <1>2 DEF Least
  <1>4. /\ ls \in Seq(Lines) /\ Len(ls) = l
        /\ \A i \in 1 .. from : ls[i] = s.lines[i]
        /\ \A i \in from + 1 .. from + count : ls[i].changed
        /\ \A i \in from + count + 1 .. to : ls[i].changed
        /\ \A i \in to + 1 .. l : ls[i] = s.lines[i]
    BY <1>1 DEF IsScrolledDown
  <1>. HIDE DEF l, r, count, from, to
  <1>5. from \in Nat /\ to \in Nat /\ from = l - r + top /\ to = l - r + bottom
    BY <1>2 DEF from, to
  <1>6. ASSUME NEW i \in 1 .. l PROVE ls[i] = s.lines[i] \/ ls[i].changed
    <2>1. i \in 1 .. from \/ i \in from + 1 .. from + count \/ i \in from + count + 1 .. to \/ i \in to + 1 .. l
      BY <1>2, <1>3, <1>5
    <2>. QED  BY <1>4, <2>1
  <1>7. ASSUME NEW i \in 1 .. l - r PROVE ls[i].cells = s.lines[i].cells
    <2>1. i \in 1 .. from
      BY <1>2, <1>5
    <2>. QED  BY <1>4, <2>1
  <1>8. Evolves(s, [s EXCEPT !.lines = ls], {})
    BY <1>4, <1>6, <1>7, Edited DEF l, r
  <1>. QED  BY <1>1, <1>8

(* On the screen, scroll_down moves the rows of its region and no others.  *)
LEMMA ScrollDownMoves ==
  ASSUME NEW s \in Screens, Len(s.lines) >= s.rows,
         NEW bottom \in 1 .. s.rows, NEW top \in 0 .. bottom - 1, NEW n \in Nat
  PROVE  Shown(ScrollDown(s, top, bottom, n)) = MovedBack(Shown(s), top, bottom, n)
  <1>. DEFINE count == Least(n, bottom - top)
              l == Len(s.lines)
              r == s.rows
              from == l - r + top
              to == l - r + bottom
              u == ScrollDown(s, top, bottom, n)
              shown == Shown(s)
              after == Shown(u)
              blanks == [i \in 1 .. count |-> << >>]
              w == MovedBack(shown, top, bottom, n)
  <1>1. PICK ls : /\ u = [s EXCEPT !.lines = ls]
                  /\ IsScrolledDown(s, ls, top, bottom, count)
    BY ScrollDownIs
  <1>2. l \in Nat /\ r \in Nat /\ l >= r /\ top \in Nat /\ bottom \in Nat /\ bottom <= r /\ top < bottom
    BY ScreenIs
  <1>3. count \in Nat /\ count <= bottom - top
    BY <1>2 DEF Least
  <1>4. /\ ls \in Seq(Lines) /\ Len(ls) = l
        /\ \A i \in 1 .. from : ls[i] = s.lines[i]
        /\ \A i \in from + 1 .. from + count : ls[i].cells = << >>
        /\ \A i \in from + count + 1 .. to : ls[i].cells = s.lines[i - count].cells
        /\ \A i \in to + 1 .. l : ls[i] = s.lines[i]
    BY <1>1 DEF IsScrolledDown
  <1>5. /\ shown \in Seq(Cells) /\ Len(shown) = r
        /\ \A i \in 1 .. r : shown[i] = s.lines[l - r + i].cells
    BY ShownIs
  <1>6. /\ after \in Seq(Cells) /\ Len(after) = r
        /\ \A i \in 1 .. r : after[i] = ls[l - r + i].cells
    <2>. HIDE DEF u
    <2>1. u \in Screens /\ u.lines = ls /\ u.rows = s.rows
      BY <1>1, <1>4, WithLines
    <2>2. Len(u.lines) >= u.rows
      BY <1>2, <1>4, <2>1
    <2>3. /\ after \in Seq(Cells) /\ Len(after) = u.rows
          /\ \A i \in 1 .. u.rows : after[i] = u.lines[Len(u.lines) - u.rows + i].cells
      BY <2>1, <2>2, ShownIs
    <2>. QED  BY <1>4, <2>1, <2>3
  <1>7. blanks \in Seq(Cells) /\ Len(blanks) = count /\ \A i \in 1 .. count : blanks[i] = << >>
    <2>. HIDE DEF count
    <2>. QED  BY <1>3, BlanksAre
  <1>8. w = MovedDown(shown, blanks, top, bottom)
    <2>1. Len(blanks) = count
      BY <1>7
    <2>. QED  BY <2>1 DEF MovedBack, MovedDown
  <1>. HIDE DEF w, shown, after, blanks, count, l, r, from, to
  <1>9. IsMovedDown(w, Cells, shown, blanks, top, bottom, count)
    <2>1. bottom <= Len(shown) /\ top + count <= bottom
      BY <1>2, <1>3, <1>5
    <2>. QED  BY <1>2, <1>3, <1>5, <1>7, <1>8, <2>1, MovedDownIs
  <1>10. /\ w \in Seq(Cells) /\ Len(w) = r
         /\ \A i \in 1 .. top : w[i] = shown[i]
         /\ \A i \in top + 1 .. top + count : w[i] = blanks[i - top]
         /\ \A i \in top + count + 1 .. bottom : w[i] = shown[i - count]
         /\ \A i \in bottom + 1 .. r : w[i] = shown[i]
    BY <1>5, <1>9 DEF IsMovedDown
  <1>11. from = l - r + top /\ to = l - r + bottom /\ from \in Nat /\ to \in Nat
    BY <1>2 DEF from, to
  <1>12. ASSUME NEW i \in 1 .. r PROVE after[i] = w[i]
    <2>. DEFINE k == l - r + i
    <2>1. after[i] = ls[k].cells
      BY <1>6
    <2>2. k \in 1 .. l /\ k = l - r + i
      BY <1>2
    <2>3. shown[i] = s.lines[k].cells
      BY <1>5
    <2>. HIDE DEF k
    <2>4. CASE i \in 1 .. top
      <3>1. k \in 1 .. from
        BY <1>2, <1>11, <2>2, <2>4
      <3>. QED  BY <1>4, <1>10, <2>1, <2>3, <2>4, <3>1
    <2>5. CASE i \in top + 1 .. top + count
      <3>1. k \in from + 1 .. from + count /\ i - top \in 1 .. count
        BY <1>2, <1>3, <1>11, <2>2, <2>5
      <3>2. w[i] = << >>
        BY <1>7, <1>10, <2>5, <3>1
      <3>. QED  BY <1>4, <2>1, <3>1, <3>2
    <2>6. CASE i \in top + count + 1 .. bottom
      <3>1. k \in from + count + 1 .. to /\ i - count \in 1 .. r
        BY <1>2, <1>3, <1>11, <2>2, <2>6
      <3>2. k - count = l - r + (i - count)
        BY <1>2, <1>3, <2>2
      <3>3. w[i] = s.lines[k - count].cells
        BY <1>5, <1>10, <2>6, <3>1, <3>2
      <3>. QED  BY <1>4, <2>1, <3>1, <3>3
    <2>7. CASE i \in bottom + 1 .. r
      <3>1. k \in to + 1 .. l
        BY <1>2, <1>11, <2>2, <2>7
      <3>. QED  BY <1>4, <1>10, <2>1, <2>3, <2>7, <3>1
    <2>8. i \in 1 .. top \/ i \in top + 1 .. top + count \/ i \in top + count + 1 .. bottom \/ i \in bottom + 1 .. r
      BY <1>2, <1>3
    <2>. QED  BY <2>4, <2>5, <2>6, <2>7, <2>8
  <1>13. after = w
    BY <1>6, <1>10, <1>12, SeqEqual
  <1>. QED  BY <1>13 DEF after, w, shown

------------------------------------------------------------------------------
(* Rows written and erased.                                                *)

(* A line that is kept with the sequence number it had is not told of.     *)
LEMMA EditedSilently ==
  ASSUME NEW s \in Screens, Len(s.lines) >= s.rows,
         NEW ls \in Seq(Lines), Len(ls) = Len(s.lines),
         \A i \in 1 .. Len(s.lines) - s.rows : ls[i].cells = s.lines[i].cells
  PROVE  Evolves(s, [s EXCEPT !.lines = ls], {"silent"})
  <1>. DEFINE u == [s EXCEPT !.lines = ls]
  <1>1. /\ u \in Screens /\ u.lines = ls /\ u.offset = s.offset
        /\ u.scrolls = s.scrolls /\ u.rows = s.rows /\ u.cols = s.cols
    BY WithLines
  <1>. HIDE DEF u
  <1>2. Len(s.lines) \in Nat /\ s.offset \in Nat /\ s.rows \in Nat
    BY ScreenIs
  <1>3. Frame(s, u)
    BY <1>1 DEF Frame, IsScreen
  <1>4. Grows(s, u) /\ Still(s, u)
    <2>1. \A i \in 1 .. Len(u.lines), j \in 1 .. Len(s.lines) - s.rows : u.offset + i = s.offset + j => i = j
      BY <1>1, <1>2
    <2>. QED  BY <1>1, <1>2, <2>1 DEF Grows, Still
  <1>5. Drops(s, u) /\ (Plain(s) => Plain(u))
    BY <1>1, <1>2 DEF Drops, Full, ScrollbackSize, Plain
  <1>6. Evolves(s, u, {"silent"})
    BY <1>3, <1>4, <1>5 DEF Evolves
  <1>. QED  BY <1>6 DEF u

(* A row of the screen that is replaced.                                   *)
LEMMA WithLineIs ==
  ASSUME NEW s \in Screens, Len(s.lines) >= s.rows, NEW y \in 0 .. s.rows - 1, NEW line \in Lines
  PROVE  /\ LineAt(s, y) \in Lines
         /\ Replaces(LineAt(s, y), line) => Evolves(s, WithLine(s, y, line), {})
         /\ Evolves(s, WithLine(s, y, line), {"silent"})
  <1>. DEFINE l == Len(s.lines)
              r == s.rows
              k == PhysRow(s, y) + 1
              ls == [s.lines EXCEPT ![k] = line]
  <1>1. l \in Nat /\ r \in Nat /\ l >= r /\ s.lines \in Seq(Lines)
    BY ScreenIs
  <1>2. k = l - r + y + 1
    <2>1. y \in 0 .. s.rows
      BY <1>1
    <2>2. PhysRow(s, y) = l - r + y
      BY <2>1, PhysRowIs
    <2>. QED  BY <2>2
  <1>. HIDE DEF k
  <1>3. k \in 1 .. l /\ k > l - r
    <2>1. y \in 0 .. r - 1
      OBVIOUS
    <2>. HIDE DEF l, r
    <2>. QED  BY <1>1, <1>2, <2>1
  <1>4. /\ ls \in Seq(Lines) /\ Len(ls) = l
        /\ \A j \in 1 .. l : ls[j] = IF j = k THEN line ELSE s.lines[j]
    BY <1>1, <1>3, ExceptSeq
  <1>5. LineAt(s, y) = s.lines[k] /\ WithLine(s, y, line) = [s EXCEPT !.lines = ls]
    BY DEF LineAt, WithLine, k
  <1>6. s.lines[k] \in Lines
    BY <1>1, <1>3, ElementOfSeq
  <1>. HIDE DEF ls, l, r
  <1>7. \A i \in 1 .. l - r : i \in 1 .. l /\ i # k
    BY <1>1, <1>3
  <1>8. \A i \in 1 .. l - r : ls[i].cells = s.lines[i].cells
    BY <1>4, <1>7
  <1>9. Evolves(s, [s EXCEPT !.lines = ls], {"silent"})
    BY <1>4, <1>8, EditedSilently DEF l, r
  <1>10. ASSUME Replaces(s.lines[k], line)
         PROVE Evolves(s, [s EXCEPT !.lines = ls], {})
    <2>1. \A i \in 1 .. l : ls[i] = s.lines[i] \/ ls[i].changed
      BY <1>4, <1>10 DEF Replaces
    <2>. QED  BY <1>4, <1>8, <2>1, Edited DEF l, r
  <1>. QED  BY <1>5, <1>6, <1>9, <1>10

(* A screen some rows of which are marked.                                 *)
LEMMA TouchEvolves ==
  ASSUME NEW s \in Screens, Len(s.lines) >= s.rows, NEW K
  PROVE  Evolves(s, [s EXCEPT !.lines = TouchRows(@, K)], {})
  <1>. DEFINE ls == TouchRows(s.lines, K)
              l == Len(s.lines)
  <1>1. l \in Nat /\ s.rows \in Nat /\ s.lines \in Seq(Lines)
    BY ScreenIs
  <1>2. ls \in Seq(Lines) /\ Len(ls) = l /\ \A i \in 1 .. l : Kept(s.lines[i], ls[i])
    BY <1>1, TouchRowsIs
  <1>. HIDE DEF ls
  <1>3. \A i \in 1 .. l - s.rows : i \in 1 .. l
    BY <1>1
  <1>4. Evolves(s, [s EXCEPT !.lines = ls], {})
    BY <1>2, <1>3, Edited DEF Kept
  <1>. QED  BY <1>4 DEF ls

(* A screen some rows of which are erased.                                 *)
Erased(s, first, last) ==
    [s EXCEPT !.lines =
        [i \in DOMAIN @ |-> IF i - 1 \in PhysRow(s, first) .. PhysRow(s, last) - 1
                              THEN Touch(ClearCells(@[i], 0, s.cols)) ELSE @[i]]]

(* Rows that are erased are marked, and there are as many as before.       *)
LEMMA ErasedIs ==
  ASSUME NEW s \in Screens, Len(s.lines) >= s.rows, NEW first \in 0 .. s.rows, NEW last \in 0 .. s.rows
  PROVE  /\ Evolves(s, Erased(s, first, last), {})
         /\ Len(Erased(s, first, last).lines) = Len(s.lines)
         /\ \A i \in 1 .. Len(s.lines) :
               i - 1 \in Len(s.lines) - s.rows + first .. Len(s.lines) - s.rows + last - 1
                  => Erased(s, first, last).lines[i].changed
  <1>. DEFINE l == Len(s.lines)
              r == s.rows
              a == PhysRow(s, first)
              b == PhysRow(s, last)
              ls == [i \in 1 .. l |-> IF i - 1 \in a .. b - 1 THEN Touch(ClearCells(s.lines[i], 0, s.cols))
                                      ELSE s.lines[i]]
              u == Erased(s, first, last)
  <1>1. /\ l \in Nat /\ r \in Nat /\ l >= r /\ s.cols \in Nat
        /\ s.lines \in Seq(Lines) /\ DOMAIN s.lines = 1 .. l
        /\ \A i \in 1 .. l : s.lines[i] \in Lines
    BY ScreenIs
  <1>2. a = l - r + first /\ b = l - r + last
    BY <1>1, PhysRowIs
  <1>3. \A i \in 1 .. l : /\ Touch(ClearCells(s.lines[i], 0, s.cols)) \in Lines
                          /\ Touch(ClearCells(s.lines[i], 0, s.cols)).changed
    BY <1>1, LineEdits
  <1>4. u = [s EXCEPT !.lines = ls]
    BY <1>1 DEF Erased
  <1>. HIDE DEF a, b
  <1>5. ls \in [1 .. l -> Lines]
    BY <1>1, <1>3
  <1>6. ls \in Seq(Lines) /\ Len(ls) = l
    <2>. HIDE DEF ls, l
    <2>. QED  BY <1>1, <1>5, Listing
  <1>7. \A i \in 1 .. l : i - 1 \in a .. b - 1 => ls[i].changed
    BY <1>3
  <1>8. \A i \in 1 .. l : ls[i] = s.lines[i] \/ ls[i].changed
    BY <1>3
  <1>9. \A i \in 1 .. l - r : ls[i].cells = s.lines[i].cells
    <2>. DEFINE c == l - r
    <2>1. a >= c /\ c \in Nat /\ c <= l /\ a \in Nat
      <3>. HIDE DEF l, r
      <3>. QED  BY <1>1, <1>2
    <2>. HIDE DEF c
    <2>2. \A i \in 1 .. c : i \in 1 .. l /\ ~ (i - 1 \in a .. b - 1)
      BY <1>1, <2>1
    <2>3. \A i \in 1 .. c : ls[i] = s.lines[i]
      BY <2>2
    <2>. QED  BY <2>3 DEF c
  <1>. HIDE DEF ls
  <1>10. Evolves(s, [s EXCEPT !.lines = ls], {})
    BY <1>6, <1>8, <1>9, Edited
  <1>11. u.lines = ls
    BY <1>4, <1>6, WithLines
  <1>12. \A i \in 1 .. l : i - 1 \in l - r + first .. l - r + last - 1 => u.lines[i].changed
    <2>. HIDE DEF u, l, r
    <2>1. first \in Nat /\ last \in Nat
      BY <1>1 DEF r
    <2>2. l - r + last - 1 = b - 1
      BY <1>1, <1>2, <2>1
    <2>. QED  BY <1>2, <1>7, <1>11, <2>2
  <1>13. Evolves(s, u, {}) /\ Len(u.lines) = l
    BY <1>4, <1>6, <1>10, <1>11
  <1>. QED  BY <1>12, <1>13

(* Erasing scrollback gives its rows up, and keeps those of the screen     *)
(* with their indexes (screen.rs, erase_scrollback).                       *)
LEMMA EraseScrollbackEvolves ==
  ASSUME NEW s \in Screens, Len(s.lines) >= s.rows
  PROVE  Evolves(s, EraseScrollback(s), {"erase"})
  <1>. DEFINE u == EraseScrollback(s)
              l == Len(s.lines)
              r == s.rows
              g == l - r
              ls == SubSeq(s.lines, g + 1, l)
              o == s.offset
              p == IF s.scrolls THEN o + g ELSE o
  <1>1. l \in Nat /\ r \in Nat /\ l >= r /\ o \in Nat /\ s.lines \in Seq(Lines)
    BY ScreenIs
  <1>2. g \in Nat /\ g <= l /\ l - g = r /\ p \in Nat /\ l <= l
    <2>. HIDE DEF l, r, o
    <2>. QED  BY <1>1
  <1>3. IsPart(ls, Lines, s.lines, g, l)
    <2>. HIDE DEF g
    <2>. QED  BY <1>1, <1>2, PartIs
  <1>4. ls \in Seq(Lines) /\ Len(ls) = r /\ \A i \in 1 .. r : ls[i] = s.lines[i + g]
    <2>. HIDE DEF ls, g, l
    <2>. QED  BY <1>2, <1>3 DEF IsPart
  <1>5. u = [s EXCEPT !.lines = ls, !.offset = p]
    BY DEF EraseScrollback, Screens
  <1>. HIDE DEF ls, p
  <1>6. HasLines([s EXCEPT !.lines = ls, !.offset = p], s, ls, p)
    BY <1>2, <1>4, WithOffset
  <1>. HIDE DEF u
  <1>7. HasLines(u, s, ls, p)
    BY <1>5, <1>6
  <1>8. Frame(s, u)
    BY <1>1, <1>4, <1>7 DEF Frame, IsScreen, HasLines, p
  <1>9. ASSUME Plain(s) PROVE Plain(u) /\ Grows(s, u) /\ Still(s, u) /\ Tells(s, u)
    <2>1. p = o + g
      <3>1. ~ s.scrolls => l = r
        BY <1>9 DEF Plain
      <3>. HIDE DEF l, r, o
      <3>. QED  BY <1>1, <3>1 DEF p
    <2>2. u.lines = ls /\ u.offset = p /\ u.scrolls = s.scrolls /\ u.rows = r
      BY <1>7 DEF HasLines
    <2>3. Plain(u)
      BY <1>4, <2>2 DEF Plain
    <2>4. p >= o /\ p + r >= o + l
      <3>. HIDE DEF l, r, o
      <3>. QED  BY <1>1, <1>2, <2>1
    <2>5. Grows(s, u)
      BY <1>4, <2>2, <2>4 DEF Grows
    <2>6. ASSUME NEW i \in 1 .. r, NEW j \in 1 .. l, p + i = o + j
          PROVE ls[i] = s.lines[j]
      <3>1. j = i + g
        <4>. HIDE DEF l, r, o, g
        <4>. QED  BY <1>1, <1>2, <2>1, <2>6
      <3>. QED  BY <1>4, <3>1
    <2>7. \A j \in 1 .. l - r : j \in 1 .. l
      BY <1>1
    <2>8. Still(s, u) /\ Tells(s, u)
      <3>. HIDE DEF g
      <3>. QED  BY <1>4, <2>2, <2>6, <2>7 DEF Still, Tells
    <2>. QED  BY <2>3, <2>5, <2>8
  <1>10. Evolves(s, u, {"erase"})
    BY <1>8, <1>9 DEF Evolves
  <1>. QED  BY <1>10 DEF u

------------------------------------------------------------------------------
(* Terminals: two screens, a cursor and a region.                          *)

Which == {"primary", "alt"}

Terminals ==
    [screens : [Which -> Screens], active : Which, x : Nat, y : Nat, wrapNext : BOOLEAN,
     top : Nat, bottom : Nat, origin : BOOLEAN, printed : Nat]

Height(t) == t.screens["primary"].rows
Width(t) == t.screens["primary"].cols

\* Both screens have the size of the pane, and the lines for it.
Roomy(t) ==
    /\ t \in Terminals
    /\ \A w \in Which : IsScreen(t.screens[w], w = "primary", Height(t), Width(t))
    /\ t.screens["alt"].offset = 0
    /\ t.top < t.bottom /\ t.bottom <= Height(t)

Inside(t) == Roomy(t) /\ t.x <= Width(t) /\ t.y < Height(t)

\* Both screens evolve.
Evolved(t, u, but) ==
    /\ Roomy(u) /\ Height(u) = Height(t) /\ Width(u) = Width(t)
    /\ \A w \in Which : Evolves(t.screens[w], u.screens[w], but)

SameRegion(t, u) == u.active = t.active /\ u.top = t.top /\ u.bottom = t.bottom

\* The screen that is shown and the region stay as they are, too.
Goes(t, u, but) == Evolved(t, u, but) /\ SameRegion(t, u)

SameScreens(t, u) == u \in Terminals /\ u.screens = t.screens /\ SameRegion(t, u)

(* What is known of a terminal whose screens have their rows, and whose    *)
(* region is in them.                                                      *)
LEMMA RoomyIs ==
  ASSUME NEW t, Roomy(t)
  PROVE  /\ t \in Terminals /\ t.active \in Which
         /\ Active(t) \in Screens /\ Active(t).rows = Height(t) /\ Active(t).cols = Width(t)
         /\ Len(Active(t).lines) >= Active(t).rows
         /\ Height(t) \in Nat \ {0} /\ Width(t) \in Nat \ {0}
         /\ \A w \in Which : /\ t.screens[w] \in Screens /\ Len(t.screens[w].lines) >= t.screens[w].rows
                             /\ t.screens[w].rows = Height(t) /\ t.screens[w].cols = Width(t)
                             /\ t.screens[w].scrolls = (w = "primary")
         /\ t.x \in Nat /\ t.y \in Nat /\ t.top \in Nat /\ t.bottom \in Nat
         /\ t.top < t.bottom /\ t.bottom <= Height(t)
         /\ t.printed \in Nat /\ t.wrapNext \in BOOLEAN /\ t.origin \in BOOLEAN
         /\ t.top \in 0 .. t.bottom - 1 /\ t.bottom \in 1 .. Active(t).rows
         /\ Active(t) = t.screens[t.active]
         /\ "primary" \in Which /\ "alt" \in Which
  <1>1. t \in Terminals /\ t.active \in Which /\ "primary" \in Which /\ "alt" \in Which
    BY DEF Roomy, Terminals, Which
  <1>2. \A w \in Which : /\ t.screens[w] \in Screens /\ Len(t.screens[w].lines) >= t.screens[w].rows
                         /\ t.screens[w].rows = Height(t) /\ t.screens[w].cols = Width(t)
                         /\ t.screens[w].scrolls = (w = "primary")
    BY DEF Roomy, IsScreen
  <1>3. Active(t) = t.screens[t.active]
    BY DEF Active
  <1>4. Height(t) \in Nat \ {0} /\ Width(t) \in Nat \ {0}
    BY <1>1, <1>2, ScreenIs
  <1>5. /\ t.x \in Nat /\ t.y \in Nat /\ t.top \in Nat /\ t.bottom \in Nat
        /\ t.printed \in Nat /\ t.wrapNext \in BOOLEAN /\ t.origin \in BOOLEAN
    BY <1>1 DEF Terminals
  <1>6. t.top < t.bottom /\ t.bottom <= Height(t)
    BY DEF Roomy
  <1>7. t.top \in 0 .. t.bottom - 1 /\ t.bottom \in 1 .. Height(t)
    BY <1>4, <1>5, <1>6
  <1>. QED  BY <1>1, <1>2, <1>3, <1>4, <1>5, <1>6, <1>7

(* A terminal with the same screens has them unchanged.                    *)
LEMMA Unmoved ==
  ASSUME NEW t, Roomy(t), NEW u, SameScreens(t, u)
  PROVE  Goes(t, u, {}) /\ Height(u) = Height(t) /\ Width(u) = Width(t)
  <1>1. Roomy(u) /\ Height(u) = Height(t) /\ Width(u) = Width(t)
    BY DEF Roomy, SameScreens, SameRegion, Height, Width
  <1>2. \A w \in Which : Evolves(t.screens[w], u.screens[w], {})
    BY RoomyIs, Unevolved DEF SameScreens
  <1>. QED  BY <1>1, <1>2 DEF Goes, Evolved, SameScreens

(* One evolution of a terminal after another.                              *)
LEMMA EvolvedOn ==
  ASSUME NEW t, NEW u, NEW v, NEW but, NEW more, Roomy(t), Evolved(t, u, but), Evolved(u, v, more)
  PROVE  Evolved(t, v, but \cup more)
  <1>1. \A w \in Which : t.screens[w] \in Screens
    BY RoomyIs
  <1>2. \A w \in Which : Evolves(t.screens[w], v.screens[w], but \cup more)
    BY <1>1, Evolving DEF Evolved
  <1>. QED  BY <1>2 DEF Evolved

(* More exceptions may be named than there are.                            *)
LEMMA EvolvedMore ==
  ASSUME NEW t, NEW u, NEW but, NEW more, Evolved(t, u, but), but \subseteq more
  PROVE  Evolved(t, u, more)
  BY EvolvesMore DEF Evolved

(* One operation that keeps screen and region after another.               *)
LEMMA GoesOn ==
  ASSUME NEW t, NEW u, NEW v, NEW but, NEW more, Roomy(t), Goes(t, u, but), Goes(u, v, more),
         NEW all, but \cup more \subseteq all
  PROVE  Goes(t, v, all)
  BY EvolvedOn, EvolvedMore DEF Goes, SameRegion

(* When the active screen evolves, so does the terminal, and the other     *)
(* screen stays.                                                           *)
LEMMA OnActiveIs ==
  ASSUME NEW t, Roomy(t), NEW s, NEW but, Evolves(Active(t), s, but)
  PROVE  /\ Goes(t, OnActive(t, s), but)
         /\ Active(OnActive(t, s)) = s
         /\ OnActive(t, s) = [t EXCEPT !.screens = [@ EXCEPT ![t.active] = s]]
         /\ OnActive(t, s).x = t.x /\ OnActive(t, s).y = t.y
         /\ \A w \in Which : OnActive(t, s).screens[w] = IF w = t.active THEN s ELSE t.screens[w]
         /\ Inside(t) => Inside(OnActive(t, s))
  <1>. DEFINE u == OnActive(t, s)
  <1>1. /\ t \in Terminals /\ t.active \in Which
        /\ \A w \in Which : IsScreen(t.screens[w], w = "primary", Height(t), Width(t))
        /\ Active(t) = t.screens[t.active]
    BY RoomyIs DEF Roomy
  <1>2. /\ IsScreen(s, Active(t).scrolls, Active(t).rows, Active(t).cols)
        /\ ~ Active(t).scrolls => s.offset = Active(t).offset
    BY DEF Evolves, Frame
  <1>3. s \in Screens
    BY <1>2 DEF IsScreen
  <1>4. u = [t EXCEPT !.screens = [@ EXCEPT ![t.active] = s]]
    BY <1>1 DEF OnActive, Terminals
  <1>5. u \in Terminals
    BY <1>1, <1>3, <1>4 DEF Terminals
  <1>6. /\ u.active = t.active /\ u.top = t.top /\ u.bottom = t.bottom /\ u.x = t.x /\ u.y = t.y
        /\ u.screens = [t.screens EXCEPT ![t.active] = s]
    BY <1>1, <1>4 DEF Terminals
  <1>7. \A w \in Which : u.screens[w] = IF w = t.active THEN s ELSE t.screens[w]
    BY <1>1, <1>6 DEF Terminals
  <1>. HIDE DEF u
  <1>8. \A w \in Which : IsScreen(u.screens[w], w = "primary", Height(t), Width(t))
    <2>1. IsScreen(s, t.active = "primary", Height(t), Width(t))
      BY <1>1, <1>2 DEF IsScreen
    <2>. QED  BY <1>1, <1>7, <2>1
  <1>9. Height(u) = Height(t) /\ Width(u) = Width(t)
    BY <1>8 DEF IsScreen, Which, Height, Width
  <1>10. u.screens["alt"].offset = 0
    <2>1. t.screens["alt"].offset = 0 /\ "alt" \in Which
      BY DEF Roomy, Which
    <2>2. t.active = "alt" => ~ Active(t).scrolls
      BY <1>1 DEF IsScreen
    <2>. QED  BY <1>1, <1>2, <1>7, <2>1, <2>2
  <1>11. Roomy(u)
    <2>1. t.top < t.bottom /\ t.bottom <= Height(t)
      BY DEF Roomy
    <2>. QED  BY <1>5, <1>6, <1>8, <1>9, <1>10, <2>1 DEF Roomy
  <1>12. \A w \in Which : Evolves(t.screens[w], u.screens[w], but)
    <2>1. \A w \in Which : Evolves(t.screens[w], t.screens[w], but)
      BY RoomyIs, Unevolved
    <2>. QED  BY <1>1, <1>7, <2>1
  <1>13. Goes(t, u, but)
    BY <1>6, <1>9, <1>11, <1>12 DEF Goes, Evolved, SameRegion
  <1>14. Active(u) = s
    BY <1>1, <1>6, <1>7 DEF Active
  <1>15. Inside(t) => Inside(u)
    BY <1>6, <1>9, <1>11 DEF Inside
  <1>. QED  BY <1>4, <1>6, <1>7, <1>13, <1>14, <1>15 DEF u

(* The cursor.                                                             *)
LEMMA MoveToIs ==
  ASSUME NEW t, Roomy(t), NEW x \in Int, NEW y \in Int
  PROVE  SameScreens(t, MoveTo(t, x, y)) /\ Inside(MoveTo(t, x, y)) /\ Goes(t, MoveTo(t, x, y), {})
  <1>. DEFINE h == Height(t)
              c == Width(t)
              row == IF t.origin THEN Least(y + t.top, t.bottom - 1) ELSE Least(y, h - 1)
              a == Most(0, Least(x, IF t.origin THEN c - 1 ELSE c))
              b == Most(0, row)
              u == MoveTo(t, x, y)
  <1>1. /\ t \in Terminals /\ Active(t).rows = h /\ Active(t).cols = c
        /\ h \in Nat \ {0} /\ c \in Nat \ {0} /\ t.top \in Nat /\ t.bottom \in Nat /\ t.bottom <= h
    BY RoomyIs
  <1>2. u = [t EXCEPT !.x = a, !.y = b, !.wrapNext = FALSE]
    BY <1>1 DEF MoveTo
  <1>. HIDE DEF h, c
  <1>3. a \in Nat /\ a <= c
    BY <1>1 DEF Most, Least
  <1>4. b \in Nat /\ b < h
    <2>1. row \in Int /\ row <= h - 1
      BY <1>1 DEF Least
    <2>. HIDE DEF row
    <2>. QED  BY <1>1, <2>1 DEF Most
  <1>. HIDE DEF a, b
  <1>5. SameScreens(t, u) /\ u.x = a /\ u.y = b
    BY <1>1, <1>2, <1>3, <1>4 DEF Terminals, SameScreens, SameRegion
  <1>. HIDE DEF u
  <1>6. Goes(t, u, {}) /\ Height(u) = h /\ Width(u) = c
    BY <1>5, Unmoved DEF h, c
  <1>7. Inside(u)
    BY <1>3, <1>4, <1>5, <1>6 DEF Inside, Goes, Evolved
  <1>. QED  BY <1>5, <1>6, <1>7 DEF u

(* The same relative to where it is.                                       *)
LEMMA MoveByIs ==
  ASSUME NEW t, Roomy(t), NEW dx \in Int, NEW dy \in Int
  PROVE  Inside(MoveBy(t, dx, dy)) /\ Goes(t, MoveBy(t, dx, dy), {})
  <1>. DEFINE h == Height(t)
              c == Width(t)
              e == IF t.origin THEN t.bottom ELSE h
              a == Most(0, Least(t.x + dx, c - 1))
              b == Most(0, Least(t.y + dy, e - 1))
              u == MoveBy(t, dx, dy)
  <1>1. /\ t \in Terminals /\ Active(t).rows = h /\ Active(t).cols = c /\ t.x \in Nat /\ t.y \in Nat
        /\ h \in Nat \ {0} /\ c \in Nat \ {0} /\ t.bottom \in Nat /\ t.bottom <= h
    BY RoomyIs
  <1>2. u = [t EXCEPT !.x = a, !.y = b, !.wrapNext = FALSE]
    BY <1>1 DEF MoveBy, Terminals
  <1>. HIDE DEF h, c
  <1>3. a \in Nat /\ a <= c
    BY <1>1 DEF Most, Least
  <1>4. b \in Nat /\ b < h
    <2>1. e \in Nat /\ e <= h
      BY <1>1
    <2>. HIDE DEF e
    <2>. QED  BY <1>1, <2>1 DEF Most, Least
  <1>. HIDE DEF a, b
  <1>5. SameScreens(t, u) /\ u.x = a /\ u.y = b
    BY <1>1, <1>2, <1>3, <1>4 DEF Terminals, SameScreens, SameRegion
  <1>. HIDE DEF u
  <1>6. Goes(t, u, {}) /\ Height(u) = h /\ Width(u) = c
    BY <1>5, Unmoved DEF h, c
  <1>7. Inside(u)
    BY <1>3, <1>4, <1>5, <1>6 DEF Inside, Goes, Evolved
  <1>. QED  BY <1>6, <1>7 DEF u

------------------------------------------------------------------------------
(* The operations of the cursor and the region.                            *)

\* Only a region that ends above the bottom moves rows without a mark.
RegionBut(t) == IF t.bottom < Height(t) THEN {"scroll"} ELSE {}

(* An operation that keeps the region keeps whether it reaches the bottom. *)
LEMMA SameRegionBut ==
  ASSUME NEW t, NEW u, NEW but, Goes(t, u, but)
  PROVE  RegionBut(u) = RegionBut(t)
  BY DEF RegionBut, Goes, Evolved, SameRegion

(* The region of a terminal scrolls up.                                    *)
LEMMA ScrollRegionUpIs ==
  ASSUME NEW t, Roomy(t), scrollback \in Nat, NEW top \in 0 .. t.bottom - 1, NEW n \in Nat,
         NEW u, u = OnActive(t, ScrollUp(Active(t), top, t.bottom, n))
  PROVE  /\ Goes(t, u, RegionBut(t)) /\ u.x = t.x /\ u.y = t.y
         /\ Inside(t) => Inside(u)
  <1>. DEFINE s == Active(t)
  <1>1. /\ s \in Screens /\ Len(s.lines) >= s.rows /\ t.bottom \in 1 .. s.rows
        /\ s.rows = Height(t)
    BY RoomyIs
  <1>2. Evolves(s, ScrollUp(s, top, t.bottom, n), ScrollBut(s, t.bottom))
    BY <1>1, ScrollUpEvolves
  <1>3. ScrollBut(s, t.bottom) = RegionBut(t)
    BY <1>1 DEF ScrollBut, RegionBut
  <1>. HIDE DEF s
  <1>4. Evolves(Active(t), ScrollUp(s, top, t.bottom, n), RegionBut(t))
    BY <1>2, <1>3 DEF s
  <1>. QED  BY <1>4, OnActiveIs DEF s

(* The region of a terminal scrolls down.                                  *)
LEMMA ScrollRegionDownIs ==
  ASSUME NEW t, Roomy(t), NEW top \in 0 .. t.bottom - 1, NEW n \in Nat,
         NEW u, u = OnActive(t, ScrollDown(Active(t), top, t.bottom, n))
  PROVE  /\ Goes(t, u, {}) /\ u.x = t.x /\ u.y = t.y
         /\ Inside(t) => Inside(u)
  <1>. DEFINE s == Active(t)
  <1>1. /\ s \in Screens /\ Len(s.lines) >= s.rows /\ t.bottom \in 1 .. s.rows
    BY RoomyIs
  <1>2. Evolves(s, ScrollDown(s, top, t.bottom, n), {})
    BY <1>1, ScrollDownEvolves
  <1>. HIDE DEF s
  <1>3. Evolves(Active(t), ScrollDown(s, top, t.bottom, n), {})
    BY <1>2 DEF s
  <1>. QED  BY <1>3, OnActiveIs DEF s

(* The cursor goes to the next line, and scrolls the region at its end     *)
(* (terminalstate, new_line).                                              *)
LEMMA NextLineIs ==
  ASSUME NEW t, Inside(t), scrollback \in Nat, NEW x \in Int
  PROVE  Inside(NextLine(t, x)) /\ Goes(t, NextLine(t, x), RegionBut(t))
  <1>1. /\ Roomy(t) /\ t.y \in Int /\ t.y + 1 \in Int /\ 1 \in Nat
        /\ t.top \in 0 .. t.bottom - 1
    BY RoomyIs DEF Inside
  <1>2. CASE t.y = t.bottom - 1
    <2>. DEFINE u == ScrollRegionUp(t, 1)
    <2>1. Goes(t, u, RegionBut(t)) /\ Roomy(u)
      BY <1>1, ScrollRegionUpIs DEF ScrollRegionUp, Goes, Evolved
    <2>. HIDE DEF u
    <2>2. Inside(MoveTo(u, x, t.y)) /\ Goes(u, MoveTo(u, x, t.y), {})
      BY <1>1, <2>1, MoveToIs
    <2>3. Goes(t, MoveTo(u, x, t.y), RegionBut(t))
      BY <1>1, <2>1, <2>2, GoesOn
    <2>. QED  BY <1>2, <2>2, <2>3 DEF NextLine, u
  <1>3. CASE t.y # t.bottom - 1
    <2>. DEFINE y == t.y + 1
    <2>1. y \in Int
      BY <1>1
    <2>. HIDE DEF y
    <2>2. Inside(MoveTo(t, x, y)) /\ Goes(t, MoveTo(t, x, y), {})
      BY <1>1, <2>1, MoveToIs
    <2>3. Goes(t, MoveTo(t, x, y), RegionBut(t))
      BY <2>2, EvolvedMore DEF Goes
    <2>. QED  BY <1>3, <2>2, <2>3 DEF NextLine, y
  <1>. QED  BY <1>2, <1>3

(* A line of the screen is written.                                        *)
LEMMA LineWritten ==
  ASSUME NEW t, Inside(t), NEW y \in 0 .. Height(t) - 1, NEW line,
         Replaces(LineAt(Active(t), y), line),
         NEW u, u = OnActive(t, WithLine(Active(t), y, line))
  PROVE  Inside(u) /\ Goes(t, u, {}) /\ u.x = t.x /\ u.y = t.y
  <1>1. /\ Roomy(t) /\ Active(t) \in Screens /\ Len(Active(t).lines) >= Active(t).rows
        /\ y \in 0 .. Active(t).rows - 1 /\ line \in Lines
    BY RoomyIs DEF Inside, Replaces
  <1>2. Evolves(Active(t), WithLine(Active(t), y, line), {})
    BY <1>1, WithLineIs
  <1>. QED  BY <1>1, <1>2, OnActiveIs

(* The cursor is in a row that there is.                                   *)
LEMMA AtTheCursor ==
  ASSUME NEW t, Inside(t)
  PROVE  /\ t.y \in 0 .. Height(t) - 1
         /\ \A y \in 0 .. Height(t) - 1 : LineAt(Active(t), y) \in Lines
  <1>1. /\ Roomy(t) /\ Active(t) \in Screens /\ Len(Active(t).lines) >= Active(t).rows
        /\ Height(t) = Active(t).rows /\ t.y \in Nat /\ Height(t) \in Nat
    BY RoomyIs DEF Inside
  <1>2. t.y \in 0 .. Height(t) - 1
    BY <1>1 DEF Inside
  <1>3. ASSUME NEW y \in 0 .. Active(t).rows - 1
        PROVE LineAt(Active(t), y) \in Lines
    <2>1. NewLine \in Lines /\ 0 \in Nat
      BY NewLinesIs
    <2>. QED  BY <1>1, <2>1, WithLineIs
  <1>. QED  BY <1>1, <1>2, <1>3

(* One letter is printed, wrapped to the next line if it must be           *)
(* (performer.rs, flush_print).                                            *)
LEMMA PrintLetterIs ==
  ASSUME NEW t, Inside(t), scrollback \in Nat
  PROVE  Inside(PrintLetter(t)) /\ Goes(t, PrintLetter(t), RegionBut(t))
  <1>. DEFINE s == Active(t)
              line == SetLastCellWasWrapped(LineAt(s, t.y), TRUE)
              marked == OnActive(t, WithLine(s, t.y, line))
              u == IF t.wrapNext THEN NextLine(marked, 0) ELSE t
              v == Active(u)
              new == SetCell(LineAt(v, u.y), u.x, t.printed + 1)
              w == OnActive(u, WithLine(v, u.y, new))
              wrappable == u.x + 1 >= v.cols
              z == PrintLetter(t)
  <1>1. /\ Roomy(t) /\ t.y \in 0 .. Height(t) - 1 /\ LineAt(s, t.y) \in Lines /\ 0 \in Int
        /\ t.printed \in Nat
    BY AtTheCursor, RoomyIs DEF Inside
  <1>2. Inside(marked) /\ Goes(t, marked, {})
    <2>1. Replaces(LineAt(s, t.y), line)
      BY <1>1, LineEdits
    <2>. HIDE DEF line
    <2>. QED  BY <1>1, <2>1, LineWritten
  <1>. HIDE DEF marked
  <1>3. Inside(u) /\ Goes(t, u, RegionBut(t))
    <2>1. CASE t.wrapNext
      <3>1. Inside(NextLine(marked, 0)) /\ Goes(marked, NextLine(marked, 0), RegionBut(t))
        BY <1>1, <1>2, NextLineIs, SameRegionBut
      <3>2. Goes(t, NextLine(marked, 0), RegionBut(t))
        BY <1>1, <1>2, <3>1, GoesOn
      <3>. QED  BY <2>1, <3>1, <3>2
    <2>2. CASE ~ t.wrapNext
      <3>1. Goes(t, t, RegionBut(t))
        BY <1>1, RoomyIs, Unevolved DEF Goes, Evolved, SameRegion
      <3>. QED  BY <2>2, <3>1
    <2>. QED  BY <2>1, <2>2
  <1>4. z = [w EXCEPT !.printed = @ + 1, !.x = IF wrappable THEN @ ELSE @ + 1, !.wrapNext = wrappable]
    BY DEF PrintLetter, marked
  <1>. HIDE DEF u, z
  <1>5. /\ Roomy(u) /\ u.y \in 0 .. Height(u) - 1 /\ LineAt(v, u.y) \in Lines /\ u.x \in Nat
        /\ v.cols = Width(u) /\ Width(u) \in Nat
    BY <1>3, AtTheCursor, RoomyIs DEF Inside
  <1>6. Inside(w) /\ Goes(u, w, {}) /\ w.x = u.x
    <2>1. t.printed + 1 \in Nat
      BY <1>1
    <2>2. Replaces(LineAt(v, u.y), new)
      BY <1>5, <2>1, LineEdits
    <2>. HIDE DEF new
    <2>. QED  BY <1>3, <1>5, <2>2, LineWritten
  <1>. HIDE DEF w, v
  <1>7. /\ w \in Terminals /\ Roomy(w) /\ Width(w) = Width(u) /\ w.x \in Nat /\ w.x = u.x /\ w.printed \in Nat
        /\ wrappable = (w.x + 1 >= Width(w)) /\ w.y < Height(w) /\ w.x <= Width(w) /\ Width(w) \in Nat
    BY <1>5, <1>6, RoomyIs DEF Inside, Goes, Evolved
  <1>8. SameScreens(w, z) /\ z.y = w.y /\ z.x = IF wrappable THEN w.x ELSE w.x + 1
    <2>1. w.printed + 1 \in Nat /\ (IF wrappable THEN w.x ELSE w.x + 1) \in Nat /\ wrappable \in BOOLEAN
      BY <1>7
    <2>. HIDE DEF wrappable
    <2>. QED  BY <1>4, <1>7, <2>1 DEF Terminals, SameScreens, SameRegion
  <1>9. Goes(w, z, {}) /\ Height(z) = Height(w) /\ Width(z) = Width(w)
    BY <1>7, <1>8, Unmoved
  <1>10. Inside(z)
    <2>1. z.x <= Width(w)
      BY <1>7, <1>8
    <2>. QED  BY <1>7, <1>8, <1>9, <2>1 DEF Inside, Goes, Evolved
  <1>11. Goes(t, w, RegionBut(t))
    BY <1>1, <1>3, <1>6, GoesOn
  <1>12. Goes(t, z, RegionBut(t))
    BY <1>1, <1>9, <1>11, GoesOn
  <1>. QED  BY <1>10, <1>12 DEF z

------------------------------------------------------------------------------
(* Printing and erasing.                                                   *)

(* A function defined from its value before exists, if each of its values  *)
(* is in a set T and the step from one to the next stays in T.             *)
Chained(T, L, x, F) ==
    \E f \in [0 .. L -> T] : f[0] = x /\ \A n \in 1 .. L : f[n] = F[n][f[n - 1]]

(* For every such step, and every number of them.                          *)
LEMMA Chain ==
  ASSUME NEW T, NEW L \in Nat, NEW x \in T, NEW F \in [1 .. L -> [T -> T]]
  PROVE  Chained(T, L, x, F)
  <1>. DEFINE Is(f, k) == f[0] = x /\ \A n \in 1 .. k : f[n] = F[n][f[n - 1]]
              P == {k \in 0 .. L : \E f \in [0 .. k -> T] : Is(f, k)}
  <1>1. 0 \in P
    <2>. DEFINE f == [n \in 0 .. 0 |-> x]
    <2>1. f \in [0 .. 0 -> T] /\ Is(f, 0)
      OBVIOUS
    <2>2. 0 \in 0 .. L
      OBVIOUS
    <2>. HIDE DEF Is, f
    <2>. QED  BY <2>1, <2>2
  <1>2. ASSUME NEW k \in 1 .. L, k - 1 \in P PROVE k \in P
    <2>1. PICK f \in [0 .. k - 1 -> T] : Is(f, k - 1)
      BY <1>2
    <2>. DEFINE g == [n \in 0 .. k |-> IF n = k THEN F[k][f[k - 1]] ELSE f[n]]
    <2>2. k - 1 \in 0 .. k - 1 /\ F[k][f[k - 1]] \in T
      OBVIOUS
    <2>3. g \in [0 .. k -> T]
      BY <2>2
    <2>4. g[0] = x
      BY <2>1
    <2>5. ASSUME NEW n \in 1 .. k PROVE g[n] = F[n][g[n - 1]]
      <3>1. g[n - 1] = f[n - 1]
        OBVIOUS
      <3>2. CASE n = k
        BY <3>1, <3>2
      <3>3. CASE n # k
        BY <2>1, <3>1, <3>3
      <3>. QED  BY <3>2, <3>3
    <2>. HIDE DEF g
    <2>. QED  BY <2>3, <2>4, <2>5
  <1>3. \A i \in 0 .. L : i \in P
    <2>. HIDE DEF P
    <2>1. \A i \in 1 .. L : i - 1 \in P => i \in P
      BY <1>2
    <2>. QED  BY <1>1, <2>1, UpTo
  <1>. QED  BY <1>3 DEF Chained

(* Any number of letters is printed.                                       *)
LEMMA PrintTextIs ==
  ASSUME NEW t, Inside(t), scrollback \in Nat, NEW n \in Nat
  PROVE  Inside(PrintText(t, n)) /\ Goes(t, PrintText(t, n), RegionBut(t))
  <1>. DEFINE T == {u \in Terminals : Inside(u) /\ Goes(t, u, RegionBut(t))}
              Body(f, i) == IF i = 0 THEN t ELSE PrintLetter(f[i - 1])
              Is(f) == f = [i \in 0 .. n |-> Body(f, i)]
  <1>1. t \in T
    BY RoomyIs, Unevolved DEF Inside, Goes, Evolved, SameRegion
  <1>2. ASSUME NEW u \in T PROVE PrintLetter(u) \in T
    <2>1. Inside(u) /\ Goes(t, u, RegionBut(t)) /\ RegionBut(u) = RegionBut(t) /\ Roomy(t)
      BY SameRegionBut DEF Inside
    <2>2. Inside(PrintLetter(u)) /\ Goes(u, PrintLetter(u), RegionBut(t))
      BY <2>1, PrintLetterIs
    <2>3. Goes(t, PrintLetter(u), RegionBut(t))
      BY <2>1, <2>2, GoesOn
    <2>. QED  BY <2>2, <2>3 DEF Inside, Roomy
  <1>. HIDE DEF T
  <1>3. \E f : Is(f)
    <2>. DEFINE F == [i \in 1 .. n |-> [u \in T |-> PrintLetter(u)]]
    <2>1. F \in [1 .. n -> [T -> T]]
      BY <1>2
    <2>2. PICK f \in [0 .. n -> T] : f[0] = t /\ \A i \in 1 .. n : f[i] = F[i][f[i - 1]]
      <3>. HIDE DEF F, Is, Body
      <3>1. Chained(T, n, t, F)
        BY <1>1, <2>1, Chain
      <3>. QED  BY <3>1 DEF Chained
    <2>3. ASSUME NEW i \in 0 .. n PROVE f[i] = Body(f, i)
      <3>1. i # 0 => i \in 1 .. n /\ f[i - 1] \in T
        OBVIOUS
      <3>. QED  BY <2>2, <3>1
    <2>. HIDE DEF Body
    <2>. QED  BY <2>3
  <1>4. PICK g : Is(g) /\ PrintText(t, n) = g[n]
    <2>1. PrintText(t, n) = (CHOOSE f : Is(f))[n]
      BY DEF PrintText
    <2>2. Is(CHOOSE f : Is(f))
      <3>. HIDE DEF Is
      <3>. QED  BY <1>3
    <2>. HIDE DEF Is
    <2>. QED  BY <2>1, <2>2
  <1>5. \A i \in 0 .. n : g[i] \in T
    <2>. DEFINE S == {i \in 0 .. n : g[i] \in T}
    <2>1. \A i \in 0 .. n : g[i] = Body(g, i)
      <3>. HIDE DEF Body
      <3>. QED  BY <1>4
    <2>2. 0 \in S
      BY <1>1, <2>1
    <2>3. ASSUME NEW i \in 1 .. n, i - 1 \in S PROVE i \in S
      BY <1>2, <2>1, <2>3
    <2>. HIDE DEF S
    <2>4. \A i \in 0 .. n : i \in S
      BY <2>2, <2>3, UpTo
    <2>. QED  BY <2>4 DEF S
  <1>6. PrintText(t, n) \in T
    BY <1>4, <1>5
  <1>. QED  BY <1>6 DEF T

(* A row is marked.                                                        *)
LEMMA DirtyLineIs ==
  ASSUME NEW t, Inside(t), NEW y \in 0 .. Height(t) - 1
  PROVE  Inside(DirtyLine(t, y)) /\ Goes(t, DirtyLine(t, y), {})
  <1>1. Replaces(LineAt(Active(t), y), Touch(LineAt(Active(t), y)))
    BY AtTheCursor, LineEdits
  <1>2. DirtyLine(t, y) = OnActive(t, WithLine(Active(t), y, Touch(LineAt(Active(t), y))))
    BY DEF DirtyLine
  <1>. QED  BY <1>1, <1>2, LineWritten

(* Cells of a row are cleared.                                             *)
LEMMA ClearLineIs ==
  ASSUME NEW t, Inside(t), NEW y \in 0 .. Height(t) - 1, NEW x1 \in Nat, NEW x2 \in Nat
  PROVE  /\ Inside(ClearLine(t, y, x1, x2)) /\ Goes(t, ClearLine(t, y, x1, x2), {})
         /\ ClearLine(t, y, x1, x2).x = t.x /\ ClearLine(t, y, x1, x2).y = t.y
  <1>1. Replaces(LineAt(Active(t), y), ClearCells(LineAt(Active(t), y), x1, x2))
    BY AtTheCursor, LineEdits
  <1>2. ClearLine(t, y, x1, x2) = OnActive(t, WithLine(Active(t), y, ClearCells(LineAt(Active(t), y), x1, x2)))
    BY DEF ClearLine
  <1>. QED  BY <1>1, <1>2, LineWritten

(* A row is erased, in part or whole.                                      *)
LEMMA EraseInLineIs ==
  ASSUME NEW t, Inside(t), NEW what \in {"end", "start", "all"}
  PROVE  /\ Inside(EraseInLine(t, what)) /\ Goes(t, EraseInLine(t, what), {})
         /\ EraseInLine(t, what).x = t.x /\ EraseInLine(t, what).y = t.y
  <1>. DEFINE cols == Active(t).cols
              e == t.x + (IF t.wrapNext THEN 1 ELSE 0)
              b == t.x + 1
  <1>1. t.y \in 0 .. Height(t) - 1 /\ cols \in Nat /\ e \in Nat /\ b \in Nat /\ 0 \in Nat
    BY AtTheCursor, RoomyIs DEF Inside
  <1>2. \/ EraseInLine(t, what) = ClearLine(t, t.y, e, cols)
        \/ EraseInLine(t, what) = ClearLine(t, t.y, 0, b)
        \/ EraseInLine(t, what) = ClearLine(t, t.y, 0, cols)
    BY DEF EraseInLine
  <1>. HIDE DEF cols, e, b
  <1>. QED  BY <1>1, <1>2, ClearLineIs

(* Rows of the active screen are erased.                                   *)
LEMMA EraseRowsIs ==
  ASSUME NEW t, Roomy(t), NEW first \in 0 .. Height(t), NEW last \in 0 .. Height(t),
         NEW u, u = EraseRows(t, first, last)
  PROVE  /\ Goes(t, u, {}) /\ u.x = t.x /\ u.y = t.y
         /\ Inside(t) => Inside(u)
         /\ u = OnActive(t, Erased(Active(t), first, last))
         /\ Active(u) = Erased(Active(t), first, last)
         /\ \A w \in Which : w # t.active => u.screens[w] = t.screens[w]
  <1>1. u = OnActive(t, Erased(Active(t), first, last))
    BY DEF EraseRows, Erased
  <1>2. /\ Active(t) \in Screens /\ Len(Active(t).lines) >= Active(t).rows
        /\ Active(t).rows = Height(t)
    BY RoomyIs
  <1>3. Evolves(Active(t), Erased(Active(t), first, last), {})
    BY <1>2, ErasedIs
  <1>. QED  BY <1>1, <1>3, OnActiveIs

DisplayBut(what) == IF what = "scrollback" THEN {"erase"} ELSE {}

(* The scrollback of the active screen is erased.                          *)
LEMMA EraseScrollbackIs ==
  ASSUME NEW t, Roomy(t), NEW u, u = OnActive(t, EraseScrollback(Active(t)))
  PROVE  /\ Goes(t, u, {"erase"}) /\ u.x = t.x /\ u.y = t.y
         /\ Inside(t) => Inside(u)
  <1>1. Evolves(Active(t), EraseScrollback(Active(t)), {"erase"})
    BY RoomyIs, EraseScrollbackEvolves
  <1>. QED  BY <1>1, OnActiveIs

(* The display is erased in part, whole, or its scrollback.                *)
LEMMA EraseInDisplayIs ==
  ASSUME NEW t, Inside(t), NEW what \in {"end", "start", "all", "scrollback"},
         NEW u, u = EraseInDisplay(t, what)
  PROVE  Inside(u) /\ Goes(t, u, DisplayBut(what)) /\ u.x = t.x /\ u.y = t.y
  <1>. DEFINE h == Height(t)
  <1>1. /\ Roomy(t) /\ Active(t).rows = h /\ h \in Nat \ {0} /\ t.y \in 0 .. h - 1
        /\ 0 \in 0 .. h /\ h \in 0 .. h /\ t.y \in 0 .. h /\ t.y + 1 \in 0 .. h
    <2>1. Roomy(t) /\ Active(t).rows = h /\ h \in Nat \ {0} /\ t.y \in 0 .. h - 1
      BY AtTheCursor, RoomyIs DEF Inside
    <2>. HIDE DEF h
    <2>. QED  BY <2>1
  <1>2. CASE what = "end"
    <2>. DEFINE v == EraseInLine(t, "end")
    <2>1. Inside(v) /\ Goes(t, v, {}) /\ v.x = t.x /\ v.y = t.y /\ Roomy(v) /\ Height(v) = h
      BY EraseInLineIs DEF Inside, Goes, Evolved
    <2>. HIDE DEF v, h
    <2>2. u = EraseRows(v, t.y + 1, h)
      BY <1>1, <1>2 DEF EraseInDisplay, v
    <2>3. Inside(u) /\ Goes(v, u, {}) /\ u.x = t.x /\ u.y = t.y
      BY <1>1, <2>1, <2>2, EraseRowsIs
    <2>. QED  BY <1>1, <1>2, <2>1, <2>3, GoesOn DEF DisplayBut
  <1>3. CASE what = "start"
    <2>. DEFINE v == EraseInLine(t, "start")
    <2>1. Inside(v) /\ Goes(t, v, {}) /\ v.x = t.x /\ v.y = t.y /\ Roomy(v) /\ Height(v) = h
      BY EraseInLineIs DEF Inside, Goes, Evolved
    <2>. HIDE DEF v, h
    <2>2. u = EraseRows(v, 0, t.y)
      BY <1>1, <1>3 DEF EraseInDisplay, v
    <2>3. Inside(u) /\ Goes(v, u, {}) /\ u.x = t.x /\ u.y = t.y
      BY <1>1, <2>1, <2>2, EraseRowsIs
    <2>. QED  BY <1>1, <1>3, <2>1, <2>3, GoesOn DEF DisplayBut
  <1>4. CASE what = "all"
    <2>1. u = EraseRows(t, 0, h)
      BY <1>1, <1>4 DEF EraseInDisplay
    <2>. QED  BY <1>1, <1>4, <2>1, EraseRowsIs DEF DisplayBut
  <1>5. CASE what = "scrollback"
    <2>1. u = OnActive(t, EraseScrollback(Active(t)))
      BY <1>5 DEF EraseInDisplay
    <2>. QED  BY <1>1, <1>5, <2>1, EraseScrollbackIs DEF DisplayBut
  <1>. QED  BY <1>2, <1>3, <1>4, <1>5

------------------------------------------------------------------------------
(* The other screen, the saved cursor, the reset.                          *)

(* The lines of one screen are touched.                                    *)
TouchedOn(t, K, a) == [t EXCEPT !.active = a, !.screens.primary.lines = TouchRows(@, K)]

IsTouched(t, u, K, a) ==
    /\ Evolved(t, u, {}) /\ u.active = a /\ u.x = t.x /\ u.y = t.y
    /\ u.top = t.top /\ u.bottom = t.bottom
    /\ u.screens["alt"] = t.screens["alt"]
    /\ Inside(t) => Inside(u)
    /\ \A i \in 1 .. Len(t.screens["primary"].lines) :
          i - 1 \in K => u.screens["primary"].lines[i].changed
    /\ Len(u.screens["primary"].lines) = Len(t.screens["primary"].lines)

(* Marking rows of a screen, whichever becomes active, changes nothing     *)
(* else.                                                                   *)
LEMMA TouchedScreens ==
  ASSUME NEW t, Roomy(t), NEW K, NEW a \in Which,
         NEW u, u = TouchedOn(t, K, a)
  PROVE  IsTouched(t, u, K, a)
  <1>. DEFINE p == t.screens["primary"]
              ls == TouchRows(p.lines, K)
              q == [p EXCEPT !.lines = ls]
  <1>1. /\ t \in Terminals /\ Roomy(t) /\ "primary" \in Which /\ "alt" \in Which
        /\ p \in Screens /\ Len(p.lines) >= p.rows
    BY RoomyIs
  <1>2. /\ ls \in Seq(Lines) /\ Len(ls) = Len(p.lines)
        /\ \A i \in 1 .. Len(ls) : i - 1 \in K => ls[i].changed
    BY <1>1, ScreenIs, TouchRowsIs
  <1>3. Evolves(p, q, {})
    BY <1>1, TouchEvolves
  <1>. HIDE DEF ls
  <1>4. q \in Screens /\ q.lines = ls /\ q.offset = p.offset
    BY <1>1, <1>2, WithLines
  <1>5. u = [t EXCEPT !.active = a, !.screens = [@ EXCEPT !["primary"] = q]]
    BY <1>1 DEF Terminals, ls, TouchedOn
  <1>. HIDE DEF q
  <1>6. /\ u \in Terminals /\ u.active = a /\ u.x = t.x /\ u.y = t.y /\ u.top = t.top /\ u.bottom = t.bottom
        /\ u.screens = [t.screens EXCEPT !["primary"] = q]
    <2>. DEFINE new == [t.screens EXCEPT !["primary"] = q]
    <2>1. new \in [Which -> Screens]
      BY <1>1, <1>4 DEF Terminals
    <2>2. u = [t EXCEPT !.active = a, !.screens = new]
      BY <1>1, <1>5 DEF Terminals
    <2>. HIDE DEF new
    <2>3. /\ u \in Terminals /\ u.active = a /\ u.x = t.x /\ u.y = t.y /\ u.top = t.top /\ u.bottom = t.bottom
          /\ u.screens = new
      BY <1>1, <2>1, <2>2 DEF Terminals
    <2>. QED  BY <2>3 DEF new
  <1>7. /\ u.screens["primary"] = q /\ u.screens["alt"] = t.screens["alt"]
        /\ \A w \in Which : u.screens[w] = IF w = "primary" THEN q ELSE t.screens[w]
    BY <1>1, <1>6 DEF Terminals, Which
  <1>8. /\ \A w \in Which : IsScreen(t.screens[w], w = "primary", Height(t), Width(t))
        /\ t.screens["alt"].offset = 0 /\ t.top < t.bottom /\ t.bottom <= Height(t)
    BY DEF Roomy
  <1>9. IsScreen(q, TRUE, Height(t), Width(t)) /\ q.rows = Height(t) /\ q.cols = Width(t)
    BY <1>1, <1>3, <1>8 DEF Evolves, Frame, IsScreen
  <1>10. Height(u) = Height(t) /\ Width(u) = Width(t)
    BY <1>7, <1>9 DEF Height, Width
  <1>11. Roomy(u)
    BY <1>6, <1>7, <1>8, <1>9, <1>10 DEF Roomy
  <1>12. \A w \in Which : Evolves(t.screens[w], u.screens[w], {})
    BY <1>3, <1>7, RoomyIs, Unevolved
  <1>13. Inside(t) => Inside(u)
    BY <1>6, <1>10, <1>11 DEF Inside
  <1>14. /\ Evolved(t, u, {})
         /\ Len(u.screens["primary"].lines) = Len(t.screens["primary"].lines)
         /\ \A i \in 1 .. Len(t.screens["primary"].lines) :
               i - 1 \in K => u.screens["primary"].lines[i].changed
    BY <1>2, <1>4, <1>7, <1>10, <1>11, <1>12 DEF Evolved
  <1>. QED  BY <1>6, <1>7, <1>13, <1>14 DEF IsTouched

(* A screen becomes the active one, and as many rows of the primary one as *)
(* it shows are marked, from its first line on (screen.rs,                 *)
(* dirty_top_phys_rows).                                                   *)
LEMMA ActivateIs ==
  ASSUME NEW t, Roomy(t), NEW a \in Which, NEW u, u = Activate(t, a)
  PROVE  /\ Evolved(t, u, {}) /\ u.active = a /\ u.x = t.x /\ u.y = t.y
         /\ u.top = t.top /\ u.bottom = t.bottom
         /\ u.screens["alt"] = t.screens["alt"]
         /\ Inside(t) => Inside(u)
         /\ \A i \in 1 .. Height(t) : u.screens["primary"].lines[i].changed
  <1>. DEFINE K == 0 .. t.screens.primary.rows - 1
  <1>1. u = TouchedOn(t, K, a)
    BY DEF Activate, TouchedOn
  <1>2. /\ t.screens["primary"].rows = Height(t) /\ Height(t) \in Nat
        /\ Len(t.screens["primary"].lines) >= Height(t) /\ Len(t.screens["primary"].lines) \in Nat
    BY RoomyIs, ScreenIs
  <1>3. \A i \in 1 .. Height(t) : i - 1 \in K /\ i \in 1 .. Len(t.screens["primary"].lines)
    BY <1>2
  <1>. HIDE DEF K
  <1>4. IsTouched(t, u, K, a)
    BY <1>1, TouchedScreens
  <1>. QED  BY <1>3, <1>4 DEF IsTouched

(* The cursor is saved.                                                    *)
LEMMA SaveCursorIs ==
  ASSUME NEW t, Inside(t), NEW u, u = SaveCursor(t)
  PROVE  Inside(u) /\ Goes(t, u, {}) /\ u.screens["alt"].lines = t.screens["alt"].lines
  <1>. DEFINE s == Active(t)
              saved == <<[x |-> t.x, y |-> t.y, wrapNext |-> t.wrapNext, origin |-> t.origin]>>
              v == [s EXCEPT !.saved = saved]
  <1>1. /\ Roomy(t) /\ s \in Screens /\ Len(s.lines) >= s.rows /\ t \in Terminals
        /\ s = t.screens[t.active] /\ t.active \in Which
        /\ t.x \in Nat /\ t.y \in Nat /\ t.wrapNext \in BOOLEAN /\ t.origin \in BOOLEAN
    BY RoomyIs DEF Inside
  <1>2. saved \in Seq(Saved)
    <2>1. [x |-> t.x, y |-> t.y, wrapNext |-> t.wrapNext, origin |-> t.origin] \in Saved
      BY <1>1 DEF Saved
    <2>. QED  BY <2>1
  <1>3. u = OnActive(t, v)
    BY <1>1 DEF SaveCursor, OnActive, Terminals
  <1>. HIDE DEF saved, s
  <1>4. /\ v \in Screens /\ v.lines = s.lines /\ v.offset = s.offset /\ v.scrolls = s.scrolls
        /\ v.rows = s.rows /\ v.cols = s.cols
    BY <1>1, <1>2 DEF Screens
  <1>. HIDE DEF v
  <1>5. Evolves(s, v, {})
    <2>1. Evolves(s, s, {})
      BY <1>1, Unevolved
    <2>2. Frame(s, v) /\ Plain(v) = Plain(s) /\ Full(v) = Full(s)
      BY <1>1, <1>4 DEF Frame, IsScreen, Plain, Full, ScrollbackSize
    <2>3. Plain(s) => Grows(s, v) /\ Still(s, v) /\ Tells(s, v)
      BY <1>4, <2>1 DEF Evolves, Grows, Still, Tells
    <2>4. Plain(s) => Drops(s, v)
      BY <1>1, <1>4, <2>2, ScreenIs DEF Drops
    <2>. QED  BY <2>2, <2>3, <2>4 DEF Evolves
  <1>6. Evolves(Active(t), v, {})
    BY <1>5 DEF s
  <1>7. /\ Goes(t, u, {}) /\ Inside(u)
        /\ \A w \in Which : u.screens[w] = IF w = t.active THEN v ELSE t.screens[w]
    BY <1>1, <1>3, <1>6, OnActiveIs
  <1>8. u.screens["alt"].lines = t.screens["alt"].lines
    BY <1>1, <1>4, <1>7 DEF Which
  <1>. QED  BY <1>7, <1>8

(* The cursor is restored, within the screen even if it was saved when     *)
(* that was larger.                                                        *)
LEMMA RestoreCursorIs ==
  ASSUME NEW t, Roomy(t), NEW u, u = RestoreCursor(t)
  PROVE  Inside(u) /\ Goes(t, u, {}) /\ SameScreens(t, u)
  <1>. DEFINE saved == Active(t).saved
              to == IF saved = << >>
                      THEN [x |-> 0, y |-> 0, wrapNext |-> FALSE, origin |-> FALSE]
                      ELSE saved[1]
              v == [t EXCEPT !.origin = FALSE]
              w == MoveTo(v, to.x, to.y)
  <1>1. t \in Terminals /\ saved \in Seq(Saved)
    BY RoomyIs, ScreenIs
  <1>2. to \in Saved
    <2>1. [x |-> 0, y |-> 0, wrapNext |-> FALSE, origin |-> FALSE] \in Saved
      BY DEF Saved
    <2>2. saved # << >> => saved[1] \in Saved
      BY <1>1
    <2>. HIDE DEF saved
    <2>. QED  BY <2>1, <2>2
  <1>3. u = [w EXCEPT !.wrapNext = to.wrapNext, !.origin = to.origin]
    BY DEF RestoreCursor
  <1>. HIDE DEF to
  <1>4. to.x \in Int /\ to.y \in Int /\ to.wrapNext \in BOOLEAN /\ to.origin \in BOOLEAN
    BY <1>2 DEF Saved
  <1>5. SameScreens(t, v)
    BY <1>1 DEF SameScreens, SameRegion, Terminals
  <1>6. Roomy(v)
    BY <1>5, Unmoved DEF Goes, Evolved
  <1>. HIDE DEF v
  <1>7. SameScreens(v, w) /\ Inside(w)
    BY <1>4, <1>6, MoveToIs
  <1>. HIDE DEF w
  <1>8. SameScreens(w, u) /\ u.x = w.x /\ u.y = w.y
    BY <1>3, <1>4, <1>7 DEF SameScreens, SameRegion, Terminals
  <1>9. SameScreens(t, u)
    BY <1>5, <1>7, <1>8 DEF SameScreens, SameRegion
  <1>10. Inside(u)
    BY <1>7, <1>8, Unmoved DEF Inside, Goes, Evolved
  <1>. QED  BY <1>9, <1>10, Unmoved

(* A full reset returns to the primary screen, erased and marked.          *)
LEMMA ResetIs ==
  ASSUME NEW t, Inside(t), NEW u, u = Reset(t)
  PROVE  /\ Inside(u) /\ Evolved(t, u, {"erase"}) /\ u.active = "primary"
         /\ \A i \in 1 .. Len(u.screens["primary"].lines) : u.screens["primary"].lines[i].changed
  <1>. DEFINE a == [t EXCEPT !.x = 0, !.y = 0, !.wrapNext = FALSE, !.origin = FALSE,
                             !.top = 0, !.bottom = Active(t).rows]
              b == Activate(a, "alt")
              c == EraseInDisplay(b, "all")
              d == Activate(c, "primary")
              e == EraseInDisplay(d, "scrollback")
              f == EraseInDisplay(e, "all")
  <1>1. /\ Roomy(t) /\ t \in Terminals /\ Active(t).rows = Height(t) /\ Height(t) \in Nat \ {0}
        /\ "primary" \in Which /\ "alt" \in Which /\ Width(t) \in Nat
    BY RoomyIs DEF Inside
  <1>2. u = [f EXCEPT !.screens.primary.lines = TouchRows(@, 0 .. Len(@) - 1)]
    BY DEF Reset
  <1>3. Evolved(t, a, {}) /\ Inside(a)
    <2>1. /\ a \in Terminals /\ a.screens = t.screens /\ a.x = 0 /\ a.y = 0
          /\ a.top = 0 /\ a.bottom = Height(t)
      BY <1>1 DEF Terminals
    <2>. HIDE DEF a
    <2>2. Height(a) = Height(t) /\ Width(a) = Width(t)
      BY <2>1 DEF Height, Width
    <2>3. Roomy(a)
      BY <1>1, <2>1, <2>2 DEF Roomy
    <2>4. \A w \in Which : Evolves(t.screens[w], a.screens[w], {})
      BY <1>1, <2>1, RoomyIs, Unevolved
    <2>. QED  BY <1>1, <2>1, <2>2, <2>3, <2>4 DEF Evolved, Inside
  <1>. HIDE DEF a
  <1>4. Evolved(a, b, {}) /\ Inside(b)
    BY <1>1, <1>3, ActivateIs DEF Inside
  <1>. HIDE DEF b
  <1>5. Evolved(b, c, {}) /\ Inside(c)
    BY <1>4, EraseInDisplayIs DEF Goes, DisplayBut
  <1>. HIDE DEF c
  <1>6. Evolved(c, d, {}) /\ Inside(d) /\ d.active = "primary"
    BY <1>1, <1>5, ActivateIs DEF Inside
  <1>. HIDE DEF d
  <1>7. Evolved(d, e, {"erase"}) /\ Inside(e) /\ e.active = "primary"
    BY <1>6, EraseInDisplayIs DEF Goes, DisplayBut, SameRegion
  <1>. HIDE DEF e
  <1>8. Evolved(e, f, {}) /\ Inside(f) /\ f.active = "primary"
    BY <1>7, EraseInDisplayIs DEF Goes, DisplayBut, SameRegion
  <1>. HIDE DEF f
  <1>9. /\ Evolved(f, u, {}) /\ Inside(u) /\ u.active = "primary"
        /\ \A i \in 1 .. Len(u.screens["primary"].lines) : u.screens["primary"].lines[i].changed
    <2>. DEFINE n == Len(f.screens["primary"].lines)
                K == 0 .. n - 1
    <2>1. f \in Terminals /\ Roomy(f) /\ n \in Nat
      BY <1>8, RoomyIs, ScreenIs DEF Inside
    <2>2. u = TouchedOn(f, K, "primary")
      BY <1>2, <1>8, <2>1 DEF Terminals, TouchedOn
    <2>3. \A i \in 1 .. n : i - 1 \in K
      BY <2>1
    <2>. HIDE DEF K
    <2>4. IsTouched(f, u, K, "primary")
      BY <1>1, <2>1, <2>2, TouchedScreens
    <2>. QED  BY <1>8, <2>3, <2>4 DEF IsTouched
  <1>10. Evolved(t, u, {"erase"})
    <2>1. Evolved(t, b, {} \cup {})
      BY <1>1, <1>3, <1>4, EvolvedOn
    <2>2. Evolved(t, c, ({} \cup {}) \cup {})
      BY <1>1, <1>5, <2>1, EvolvedOn
    <2>3. Evolved(t, d, (({} \cup {}) \cup {}) \cup {})
      BY <1>1, <1>6, <2>2, EvolvedOn
    <2>4. (({} \cup {}) \cup {}) \cup {} = {}
      OBVIOUS
    <2>5. Evolved(t, e, {} \cup {"erase"})
      BY <1>1, <1>7, <2>3, <2>4, EvolvedOn
    <2>6. {} \cup {"erase"} = {"erase"} /\ {"erase"} \cup {} = {"erase"}
      OBVIOUS
    <2>7. Evolved(t, f, {"erase"} \cup {})
      BY <1>1, <1>8, <2>5, <2>6, EvolvedOn
    <2>8. Evolved(t, u, {"erase"} \cup {})
      BY <1>1, <1>9, <2>7, <2>6, EvolvedOn
    <2>. QED  BY <2>6, <2>8
  <1>. QED  BY <1>9, <1>10

(* Everything is erased but the cursor's row, which is moved to the top    *)
(* without a mark.                                                         *)
LEMMA EraseAllButCursorRowIs ==
  ASSUME NEW t, Inside(t), NEW u, u = EraseAllButCursorRow(t)
  PROVE  Inside(u) /\ Goes(t, u, {"erase", "silent"})
  <1>. DEFINE a == EraseInDisplay(t, "scrollback")
              b == EraseInDisplay(a, "all")
              row == LineAt(Active(a), a.y)
              s == WithLine(Active(b), 0, row)
              c == OnActive(a, s)
  <1>1. Roomy(t)
    BY DEF Inside
  <1>2. u = [c EXCEPT !.y = 0]
    BY DEF EraseAllButCursorRow
  <1>3. Inside(a) /\ Goes(t, a, {"erase"})
    BY EraseInDisplayIs DEF DisplayBut
  <1>4. row \in Lines
    BY <1>3, AtTheCursor
  <1>. HIDE DEF a, row
  <1>5. Inside(b) /\ Goes(a, b, {})
    BY <1>3, EraseInDisplayIs DEF DisplayBut
  <1>. HIDE DEF b
  <1>6. /\ Roomy(b) /\ Active(b) \in Screens /\ Len(Active(b).lines) >= Active(b).rows
        /\ 0 \in 0 .. Active(b).rows - 1
    <2>1. Roomy(b) /\ Active(b) \in Screens /\ Len(Active(b).lines) >= Active(b).rows
      BY <1>5, RoomyIs DEF Inside
    <2>. QED  BY <2>1, ScreenIs
  <1>7. Evolves(Active(b), s, {"silent"})
    BY <1>4, <1>6, WithLineIs
  <1>8. Roomy(a) /\ a.active \in Which /\ Active(a) \in Screens
    BY <1>3, RoomyIs DEF Inside
  <1>9. Evolves(Active(a), Active(b), {})
    BY <1>5, <1>8 DEF Goes, Evolved, SameRegion, Active
  <1>10. Evolves(Active(a), s, {} \cup {"silent"})
    BY <1>7, <1>8, <1>9, Evolving
  <1>11. Evolves(Active(a), s, {"silent"})
    BY <1>10, EvolvesMore
  <1>. HIDE DEF s
  <1>12. Goes(a, c, {"silent"}) /\ Inside(c)
    BY <1>3, <1>8, <1>11, OnActiveIs
  <1>. HIDE DEF c
  <1>13. c \in Terminals /\ Roomy(c) /\ Height(c) \in Nat \ {0} /\ c.x <= Width(c)
    BY <1>12, RoomyIs DEF Inside
  <1>14. SameScreens(c, u) /\ u.x = c.x /\ u.y = 0
    BY <1>2, <1>13 DEF Terminals, SameScreens, SameRegion
  <1>15. Goes(c, u, {}) /\ Inside(u)
    <2>1. Goes(c, u, {}) /\ Height(u) = Height(c) /\ Width(u) = Width(c)
      BY <1>13, <1>14, Unmoved
    <2>2. 0 < Height(c)
      BY <1>13
    <2>. QED  BY <1>13, <1>14, <2>1, <2>2 DEF Inside, Goes, Evolved
  <1>16. Goes(t, c, {"erase", "silent"})
    BY <1>1, <1>3, <1>12, GoesOn
  <1>17. Goes(t, u, {"erase", "silent"})
    BY <1>1, <1>15, <1>16, GoesOn
  <1>. QED  BY <1>15, <1>17

------------------------------------------------------------------------------
(* Lines wrapped anew.                                                     *)

Marked == {line \in Lines : line.changed}
Places == [x : Int, y : Int]
\* What the walk over the old lines has made so far.
Walks == [lines : Seq(Marked), open : Cells, x : Int, cursor : Places]

(* Marked lines are lines.                                                 *)
LEMMA MarkedIs ==
  ASSUME NEW ls \in Seq(Marked)
  PROVE  /\ ls \in Seq(Lines) /\ Len(ls) \in Nat
         /\ \A i \in 1 .. Len(ls) : ls[i] \in Lines /\ ls[i].changed
  <1>1. Len(ls) \in Nat /\ \A i \in 1 .. Len(ls) : ls[i] \in Marked
    BY LenProperties, ElementOfSeq
  <1>2. \A i \in 1 .. Len(ls) : ls[i] \in Lines /\ ls[i].changed
    BY <1>1 DEF Marked
  <1>3. ls \in [1 .. Len(ls) -> Lines]
    BY <1>1, <1>2, LenProperties
  <1>. QED  BY <1>1, <1>2, <1>3, Listing

(* A line made anew is marked.                                             *)
LEMMA MarkedLine ==
  ASSUME NEW cells \in Cells
  PROVE  /\ [cells |-> cells, changed |-> TRUE] \in Marked
         /\ <<[cells |-> cells, changed |-> TRUE]>> \in Seq(Marked)
  BY DEF Marked, Lines

(* The lines into which a text is wrapped are marked.                      *)
LEMMA WrapIs ==
  ASSUME NEW cells \in Cells, NEW cols \in Nat \ {0}
  PROVE  Wrap(cells, cols) \in Seq(Marked)
  <1>. DEFINE inked == {i \in DOMAIN cells : cells[i].letter # 0}
              length == Max(inked)
              count == (length + cols - 1) \div cols
              Row(n) == [cells |-> SubSeq(cells, (n - 1) * cols + 1, Least(n * cols, length)),
                         changed |-> TRUE]
              New(n) == IF n < count THEN SetLastCellWasWrapped(Row(n), TRUE) ELSE Row(n)
  <1>1. CASE inked = {}
    BY <1>1, MarkedLine DEF Wrap
  <1>2. CASE inked # {}
    <2>1. length \in 1 .. Len(cells) /\ Len(cells) \in Nat
      <3>1. cells \in Seq([letter : Nat, wrapped : BOOLEAN]) /\ inked \in SUBSET DOMAIN cells
        BY DEF Cells
      <3>. HIDE DEF inked
      <3>. QED  BY <1>2, <3>1, UpToTheLast, LenProperties
    <2>. HIDE DEF length
    <2>2. count \in Nat
      <3>1. length + cols - 1 \in Nat /\ cols \in Nat /\ cols > 0
        BY <2>1
      <3>. QED  BY <3>1
    <2>. HIDE DEF count
    <2>3. ASSUME NEW n \in 1 .. count PROVE New(n) \in Marked
      <3>. DEFINE a == (n - 1) * cols + 1
                  b == Least(n * cols, length)
      <3>1. (n - 1) * cols \in Nat /\ n * cols \in Nat
        <4>. DEFINE k == n - 1
        <4>1. k \in Nat /\ n \in Nat /\ cols \in Nat
          BY <2>2
        <4>. HIDE DEF k
        <4>2. k * cols \in Nat /\ n * cols \in Nat
          BY <4>1
        <4>. QED  BY <4>2 DEF k
      <3>2. a \in Int /\ b \in Int /\ a >= 1 /\ b <= Len(cells)
        BY <2>1, <3>1 DEF Least
      <3>. HIDE DEF a, b
      <3>3. \A i \in a .. b : cells[i] \in [letter : Nat, wrapped : BOOLEAN]
        <4>1. \A i \in a .. b : i \in 1 .. Len(cells)
          BY <2>1, <3>2
        <4>2. cells \in Seq([letter : Nat, wrapped : BOOLEAN])
          BY DEF Cells
        <4>. QED  BY <4>1, <4>2, ElementOfSeq
      <3>4. SubSeq(cells, a, b) \in Cells
        BY <3>2, <3>3, SubSeqProperties DEF Cells
      <3>5. Row(n) \in Marked
        BY <3>4, MarkedLine DEF a, b
      <3>. HIDE DEF Row
      <3>6. SetLastCellWasWrapped(Row(n), TRUE) \in Marked
        <4>1. Row(n) \in Lines
          BY <3>5 DEF Marked
        <4>. QED  BY <4>1, LineEdits DEF Replaces, Marked
      <3>. QED  BY <3>5, <3>6
    <2>4. Wrap(cells, cols) = [n \in 1 .. count |-> New(n)]
      BY <1>2 DEF Wrap, count, length
    <2>. HIDE DEF New
    <2>5. [n \in 1 .. count |-> New(n)] \in [1 .. count -> Marked]
      BY <2>3
    <2>. QED  BY <2>2, <2>4, <2>5, Listing
  <1>. QED  BY <1>1, <1>2

(* One step of the walk over the old lines (screen.rs, rewrap_lines): what *)
(* it has wrapped is marked.                                               *)
LEMMA JoinIs ==
  ASSUME NEW s \in Screens, NEW cols \in Nat \ {0}, NEW cursor \in Places,
         NEW done \in Walks, NEW i \in 1 .. Len(s.lines)
  PROVE  Join(s, cols, cursor, done, i) \in Walks
  <1>. DEFINE line == s.lines[i]
              cells == IF WasWrapped(line) THEN SetLastCellWasWrapped(line, FALSE).cells
                       ELSE line.cells
              whole == done.open \o cells
              x == IF i - 1 = cursor.y THEN cursor.x + Len(done.open) ELSE done.x
              more == IF Len(whole) <= cols THEN <<[cells |-> whole, changed |-> TRUE]>>
                      ELSE Wrap(whole, cols)
              to == IF x = -1 THEN done.cursor
                    ELSE Rewrapped(s, cols, cursor.x, x, Len(done.lines))
  <1>1. /\ line \in Lines /\ s.cols \in Nat \ {0}
        /\ done.lines \in Seq(Marked) /\ done.open \in Cells /\ done.x \in Int /\ done.cursor \in Places
        /\ cursor.x \in Int /\ cursor.y \in Int
    BY ScreenIs DEF Walks, Places
  <1>2. cells \in Cells
    BY <1>1, LineEdits DEF Replaces, Lines
  <1>. HIDE DEF cells
  <1>3. whole \in Cells
    BY <1>1, <1>2, ConcatProperties, Zenon DEF Cells
  <1>4. Len(done.open) \in Nat /\ Len(done.lines) \in Nat
    BY <1>1, LenProperties DEF Cells
  <1>5. x \in Int
    BY <1>1, <1>4
  <1>. HIDE DEF whole, x
  <1>6. more \in Seq(Marked)
    BY <1>3, MarkedLine, WrapIs
  <1>7. to \in Places
    <2>. DEFINE base == Len(done.lines)
                y == base + (x \div cols)
    <2>1. y \in Int /\ x % cols \in Int /\ base \in Int
      BY <1>4, <1>5
    <2>2. Rewrapped(s, cols, cursor.x, x, base) \in {[x |-> x % cols, y |-> y],
              [x |-> cursor.x, y |-> y - 1], [x |-> cols, y |-> y - 1]}
      BY DEF Rewrapped
    <2>. HIDE DEF y, base
    <2>3. Rewrapped(s, cols, cursor.x, x, base) \in Places
      BY <1>1, <2>1, <2>2 DEF Places
    <2>. QED  BY <1>1, <2>3 DEF base
  <1>. HIDE DEF more, to
  <1>8. done.lines \o more \in Seq(Marked)
    BY <1>1, <1>6, ConcatProperties, Zenon
  <1>9. Join(s, cols, cursor, done, i) =
            IF WasWrapped(line) THEN [done EXCEPT !.open = whole, !.x = x]
            ELSE [lines |-> done.lines \o more, open |-> << >>, x |-> -1, cursor |-> to]
    BY DEF Join, line, cells, whole, x, more, to
  <1>10. [done EXCEPT !.open = whole, !.x = x] \in Walks
    BY <1>3, <1>5 DEF Walks
  <1>11. [lines |-> done.lines \o more, open |-> << >>, x |-> -1, cursor |-> to] \in Walks
    <2>1. << >> \in Cells /\ -1 \in Int
      BY DEF Cells
    <2>. QED  BY <1>7, <1>8, <2>1 DEF Walks
  <1>. QED  BY <1>9, <1>10, <1>11

(* Blank lines leave at the end only.                                      *)
LEMMA WithoutWhitespaceIs ==
  ASSUME NEW S, NEW ls \in Seq(S), NEW least, NEW u, u = WithoutWhitespace(ls, least)
  PROVE  /\ u \in Seq(S) /\ Len(u) \in Nat /\ Len(u) <= Len(ls) /\ Len(ls) \in Nat
         /\ \A i \in 1 .. Len(u) : u[i] = ls[i]
  <1>. DEFINE kept == {i \in DOMAIN ls : i <= least \/ ~ IsWhitespace(ls[i])}
  <1>1. u = IF kept = {} THEN << >> ELSE SubSeq(ls, 1, Max(kept))
    BY DEF WithoutWhitespace
  <1>2. kept \in SUBSET DOMAIN ls /\ Len(ls) \in Nat
    BY LenProperties
  <1>. HIDE DEF kept
  <1>3. CASE kept = {}
    <2>1. << >> \in Seq(S) /\ Len(<< >>) = 0
      OBVIOUS
    <2>. QED  BY <1>1, <1>2, <1>3, <2>1
  <1>4. CASE kept # {}
    <2>1. Max(kept) \in 0 .. Len(ls)
      <3>1. Max(kept) \in 1 .. Len(ls)
        BY <1>2, <1>4, UpToTheLast
      <3>. QED  BY <1>2, <3>1
    <2>. QED  BY <1>1, <1>2, <1>4, <2>1, BeginningIs
  <1>. QED  BY <1>3, <1>4

(* After the walk every line is marked, as all were made anew.             *)
LEMMA RewrapLinesIs ==
  ASSUME NEW s \in Screens, NEW rows, NEW cols \in Nat \ {0}, NEW cursor \in Places,
         NEW u, u = RewrapLines(s, rows, cols, cursor)
  PROVE  /\ u.cursor \in Places
         /\ u.lines \in Seq(Lines) /\ Len(u.lines) \in Nat
         /\ \A i \in 1 .. Len(u.lines) : u.lines[i].changed
  <1>. DEFINE n == Len(s.lines)
              start == [lines |-> << >>, open |-> << >>, x |-> -1, cursor |-> cursor]
              Body(f, i) == IF i = 0 THEN start ELSE Join(s, cols, cursor, f[i - 1], i)
              Is(f) == f = [i \in 0 .. n |-> Body(f, i)]
              all == (CHOOSE f : Is(f))[n]
  <1>1. n \in Nat
    BY ScreenIs
  <1>2. start \in Walks
    <2>1. << >> \in Cells /\ << >> \in Seq(Marked) /\ -1 \in Int
      BY DEF Cells
    <2>. QED  BY <2>1 DEF Walks
  <1>3. \A i \in 1 .. n : \A done \in Walks : Join(s, cols, cursor, done, i) \in Walks
    BY JoinIs
  <1>4. u = [lines |-> WithoutWhitespace(all.lines, rows + ScrollbackSize(s)),
             cursor |-> all.cursor]
    BY DEF RewrapLines
  <1>. HIDE DEF n, start
  <1>5. \E f : Is(f)
    <2>. DEFINE F == [i \in 1 .. n |-> [done \in Walks |-> Join(s, cols, cursor, done, i)]]
    <2>1. F \in [1 .. n -> [Walks -> Walks]]
      BY <1>3
    <2>2. PICK f \in [0 .. n -> Walks] : f[0] = start /\ \A i \in 1 .. n : f[i] = F[i][f[i - 1]]
      <3>. HIDE DEF F, Is, Body
      <3>1. Chained(Walks, n, start, F)
        BY <1>1, <1>2, <2>1, Chain
      <3>. QED  BY <3>1 DEF Chained
    <2>3. ASSUME NEW i \in 0 .. n PROVE f[i] = Body(f, i)
      <3>1. i # 0 => i \in 1 .. n /\ f[i - 1] \in Walks
        BY <1>1
      <3>. QED  BY <2>2, <3>1
    <2>. HIDE DEF Body
    <2>. QED  BY <2>3
  <1>6. PICK g : Is(g) /\ all = g[n]
    <2>1. Is(CHOOSE f : Is(f))
      <3>. HIDE DEF Is
      <3>. QED  BY <1>5
    <2>. HIDE DEF Is
    <2>. QED  BY <2>1
  <1>. HIDE DEF all
  <1>7. \A i \in 0 .. n : g[i] \in Walks
    <2>. DEFINE S == {i \in 0 .. n : g[i] \in Walks}
    <2>1. \A i \in 0 .. n : g[i] = Body(g, i)
      <3>. HIDE DEF Body
      <3>. QED  BY <1>6
    <2>2. 0 \in S
      BY <1>1, <1>2, <2>1
    <2>3. ASSUME NEW i \in 1 .. n, i - 1 \in S PROVE i \in S
      BY <1>1, <1>3, <2>1, <2>3
    <2>. HIDE DEF S
    <2>4. \A i \in 0 .. n : i \in S
      BY <1>1, <2>2, <2>3, UpTo
    <2>. QED  BY <2>4 DEF S
  <1>8. all \in Walks
    BY <1>1, <1>6, <1>7
  <1>9. all.lines \in Seq(Marked) /\ all.cursor \in Places
    BY <1>8 DEF Walks
  <1>10. u.lines \in Seq(Marked)
    <2>. DEFINE ls == WithoutWhitespace(all.lines, rows + ScrollbackSize(s))
    <2>1. ls \in Seq(Marked)
      BY <1>9, WithoutWhitespaceIs
    <2>. HIDE DEF ls
    <2>2. u.lines = ls
      BY <1>4 DEF ls
    <2>. QED  BY <2>1, <2>2
  <1>. QED  BY <1>4, <1>9, <1>10, MarkedIs

------------------------------------------------------------------------------
(* A screen that is resized.                                               *)

Extents == (Nat \ {0}) \X (Nat \ {0})

(* How a screen comes out of a resize.                                     *)
Sized(s, u, size) ==
    /\ IsScreen(u, s.scrolls, size[1], size[2]) /\ u.offset = s.offset
    /\ \A i \in 1 .. Len(u.lines) :
          i <= Len(s.lines) => u.lines[i] = s.lines[i] \/ u.lines[i].changed
    /\ s.rows = size[1] /\ s.cols = size[2] => u.lines = s.lines

(* The lines that a screen has after a resize, before it is filled.        *)
Resizing(s, size, at, pruned) ==
    IF size[2] = s.cols THEN [lines |-> pruned.lines, cursor |-> at]
    ELSE IF s.scrolls THEN RewrapLines(pruned, size[1], size[2], at)
    ELSE [lines |-> [i \in DOMAIN pruned.lines |->
                        IF size[2] < s.cols THEN ResizeLine(pruned.lines[i], size[2])
                        ELSE Touch(pruned.lines[i])],
          cursor |-> at]

(* A resize keeps a line in its place, or marks it.                        *)
LEMMA ResizedLines ==
  ASSUME NEW s \in Screens, NEW size \in Extents, NEW at \in Places, NEW least, NEW sized,
         sized = Resizing(s, size, at, [s EXCEPT !.lines = WithoutWhitespace(@, least)])
  PROVE  /\ sized.cursor \in Places
         /\ sized.lines \in Seq(Lines) /\ Len(sized.lines) \in Nat
         /\ \A i \in 1 .. Len(sized.lines) :
               i <= Len(s.lines) => sized.lines[i] = s.lines[i] \/ sized.lines[i].changed
  <1>. DEFINE cols == size[2]
              ls == WithoutWhitespace(s.lines, least)
              pruned == [s EXCEPT !.lines = ls]
  <1>1. cols \in Nat \ {0} /\ s.lines \in Seq(Lines) /\ Len(s.lines) \in Nat
    BY ScreenIs DEF Extents
  <1>2. /\ ls \in Seq(Lines) /\ Len(ls) \in Nat /\ Len(ls) <= Len(s.lines)
        /\ \A i \in 1 .. Len(ls) : ls[i] = s.lines[i]
    BY <1>1, WithoutWhitespaceIs
  <1>3. sized = Resizing(s, size, at, pruned)
    OBVIOUS
  <1>. HIDE DEF ls
  <1>4. pruned \in Screens /\ pruned.lines = ls
    BY <1>2, WithLines
  <1>. HIDE DEF pruned
  <1>5. CASE cols = s.cols
    <2>1. sized.lines = ls /\ sized.cursor = at
      BY <1>3, <1>4, <1>5 DEF Resizing
    <2>. QED  BY <1>2, <2>1
  <1>6. CASE cols # s.cols /\ s.scrolls
    <2>1. sized = RewrapLines(pruned, size[1], cols, at)
      BY <1>3, <1>6 DEF Resizing
    <2>2. /\ sized.cursor \in Places
          /\ sized.lines \in Seq(Lines) /\ Len(sized.lines) \in Nat
          /\ \A i \in 1 .. Len(sized.lines) : sized.lines[i].changed
      BY <1>1, <1>4, <2>1, RewrapLinesIs
    <2>. QED  BY <2>2
  <1>7. CASE cols # s.cols /\ ~ s.scrolls
    <2>. DEFINE New(line) == IF cols < s.cols THEN ResizeLine(line, cols) ELSE Touch(line)
                ns == [i \in 1 .. Len(ls) |-> New(ls[i])]
    <2>1. DOMAIN ls = 1 .. Len(ls) /\ \A i \in 1 .. Len(ls) : ls[i] \in Lines
      BY <1>2, LenProperties, ElementOfSeq
    <2>2. sized.lines = ns /\ sized.cursor = at
      BY <1>3, <1>4, <1>7, <2>1 DEF Resizing
    <2>3. \A line \in Lines : New(line) \in Lines /\ New(line).changed
      BY <1>1, LineEdits DEF Replaces
    <2>. HIDE DEF New
    <2>4. ns \in [1 .. Len(ls) -> Lines] /\ \A i \in 1 .. Len(ls) : ns[i].changed
      BY <2>1, <2>3
    <2>. HIDE DEF ns
    <2>5. ns \in Seq(Lines) /\ Len(ns) = Len(ls)
      BY <1>2, <2>4, Listing
    <2>. QED  BY <1>2, <2>2, <2>4, <2>5
  <1>. QED  BY <1>5, <1>6, <1>7

(* A resized screen has its new size, at least as many lines as rows, and  *)
(* every line that is not in its place is marked.                          *)
LEMMA ResizeScreenIs ==
  ASSUME NEW s \in Screens, Len(s.lines) >= s.rows, NEW size \in Extents, NEW cursor \in Places,
         NEW r, r = ResizeScreen(s, size, cursor)
  PROVE  Sized(s, r.screen, size) /\ r.cursor \in Places /\ r.screen.saved = s.saved
  <1>. DEFINE rows == size[1]
              cols == size[2]
              at == [x |-> cursor.x, y |-> PhysRow(s, cursor.y)]
              pruned == [s EXCEPT !.lines = WithoutWhitespace(@, at.y + 1)]
              sized == Resizing(s, size, at, pruned)
              n == Len(sized.lines)
              more == Most(0, rows - n)
              ls == sized.lines \o NewLines(more)
              u == [s EXCEPT !.lines = ls, !.rows = rows, !.cols = cols]
              to == [x |-> sized.cursor.x, y |-> sized.cursor.y - (Len(ls) - rows)]
  <1>1. r = IF rows = s.rows /\ cols = s.cols THEN [screen |-> s, cursor |-> cursor]
            ELSE [screen |-> u, cursor |-> to]
    BY DEF ResizeScreen, Resizing
  <1>2. /\ rows \in Nat \ {0} /\ cols \in Nat \ {0} /\ s.rows \in Nat \ {0}
        /\ cursor.x \in Int /\ cursor.y \in Int /\ Len(s.lines) \in Nat
    BY ScreenIs DEF Extents, Places
  <1>3. at \in Places
    <2>1. PhysRow(s, cursor.y) \in Int
      BY <1>2 DEF PhysRow, Most, Least
    <2>. QED  BY <1>2, <2>1 DEF Places
  <1>. HIDE DEF at
  <1>4. /\ sized.cursor \in Places
        /\ sized.lines \in Seq(Lines) /\ n \in Nat
        /\ \A i \in 1 .. n :
              i <= Len(s.lines) => sized.lines[i] = s.lines[i] \/ sized.lines[i].changed
    <2>. DEFINE least == at.y + 1
    <2>1. sized = Resizing(s, size, at, [s EXCEPT !.lines = WithoutWhitespace(@, least)])
      OBVIOUS
    <2>. HIDE DEF sized, pruned, least
    <2>. QED  BY <1>3, <2>1, ResizedLines
  <1>. HIDE DEF sized
  <1>5. more \in Nat /\ n + more >= rows
    BY <1>2, <1>4 DEF Most
  <1>. HIDE DEF more, n
  <1>6. /\ NewLines(more) \in Seq(Lines) /\ Len(NewLines(more)) = more
        /\ \A i \in 1 .. more : NewLines(more)[i].changed
    <2>1. /\ NewLines(more) \in Seq(Lines) /\ Len(NewLines(more)) = more
          /\ \A i \in 1 .. more : NewLines(more)[i] = NewLine
          /\ NewLine.changed
      BY <1>5, NewLinesIs
    <2>. QED  BY <2>1
  <1>7. IsJoint(ls, Lines, sized.lines, NewLines(more), n, more)
    BY <1>4, <1>5, <1>6, JointIs DEF n
  <1>. HIDE DEF ls
  <1>8. /\ ls \in Seq(Lines) /\ Len(ls) = n + more
        /\ \A i \in 1 .. Len(ls) : i <= Len(s.lines) => ls[i] = s.lines[i] \/ ls[i].changed
    <2>1. ls \in Seq(Lines) /\ Len(ls) = n + more
      BY <1>7 DEF IsJoint
    <2>2. \A i \in 1 .. n : i <= Len(s.lines) => ls[i] = s.lines[i] \/ ls[i].changed
      BY <1>4, <1>7 DEF IsJoint
    <2>3. \A i \in n + 1 .. n + more : ls[i].changed
      <3>1. SUFFICES ASSUME NEW i \in n + 1 .. n + more PROVE ls[i].changed
        OBVIOUS
      <3>. DEFINE k == i - n
      <3>2. k \in 1 .. more /\ ls[i] = NewLines(more)[k]
        BY <1>4, <1>5, <1>7 DEF IsJoint
      <3>. HIDE DEF k
      <3>. QED  BY <1>6, <3>2
    <2>4. \A i \in 1 .. n + more : i \in 1 .. n \/ i \in n + 1 .. n + more
      BY <1>4, <1>5
    <2>. QED  BY <2>1, <2>2, <2>3, <2>4
  <1>9. /\ u \in Screens /\ u.lines = ls /\ u.rows = rows /\ u.cols = cols
        /\ u.offset = s.offset /\ u.scrolls = s.scrolls /\ u.saved = s.saved
    BY <1>2, <1>8 DEF Screens
  <1>. HIDE DEF u
  <1>10. to \in Places
    BY <1>2, <1>4, <1>5, <1>8 DEF Places
  <1>. HIDE DEF to
  <1>11. CASE rows = s.rows /\ cols = s.cols
    <2>1. r.screen = s /\ r.cursor = cursor
      BY <1>1, <1>11
    <2>2. Sized(s, s, size)
      BY <1>11 DEF Sized, IsScreen
    <2>. QED  BY <2>1, <2>2
  <1>12. CASE ~ (rows = s.rows /\ cols = s.cols)
    <2>1. r.screen = u /\ r.cursor = to
      BY <1>1, <1>12
    <2>2. IsScreen(u, s.scrolls, size[1], size[2])
      BY <1>2, <1>5, <1>8, <1>9 DEF IsScreen
    <2>3. Sized(s, u, size)
      BY <1>8, <1>9, <1>12, <2>2 DEF Sized
    <2>. QED  BY <1>9, <1>10, <2>1, <2>3
  <1>. QED  BY <1>11, <1>12

------------------------------------------------------------------------------
(* Its cursors.                                                            *)

(* A screen with another saved cursor.                                     *)
LEMMA SizedSaved ==
  ASSUME NEW s, NEW u, NEW v, NEW size, Sized(s, u, size), v \in Screens,
         v.lines = u.lines, v.offset = u.offset, v.scrolls = u.scrolls,
         v.rows = u.rows, v.cols = u.cols
  PROVE  Sized(s, v, size)
  BY DEF Sized, IsScreen

(* The position of a saved cursor is replaced.                             *)
LEMMA FirstSaved ==
  ASSUME NEW sv \in Seq(Saved), sv # << >>, NEW x \in Int, NEW y \in Int
  PROVE  [sv EXCEPT ![1] = [@ EXCEPT !.x = x, !.y = y, !.wrapNext = FALSE]] \in Seq(Saved)
  <1>. DEFINE e == [sv[1] EXCEPT !.x = x, !.y = y, !.wrapNext = FALSE]
              n == Len(sv)
              new == [sv EXCEPT ![1] = e]
  <1>1. n \in Nat /\ sv[1] \in Saved /\ sv \in [1 .. n -> Saved]
    <2>1. n \in Nat /\ sv \in [1 .. n -> Saved] /\ 1 \in 1 .. n
      BY LenProperties
    <2>. QED  BY <2>1
  <1>2. e \in Saved
    BY <1>1 DEF Saved
  <1>. HIDE DEF e
  <1>3. new \in [1 .. n -> Saved]
    BY <1>1, <1>2
  <1>. HIDE DEF new
  <1>4. new \in Seq(Saved)
    BY <1>1, <1>3, Listing
  <1>. QED  BY <1>4 DEF new, e

CursorOf(t, a) ==
    IF a = t.active THEN [x |-> t.x, y |-> t.y]
    ELSE IF t.screens[a].saved = << >> THEN [x |-> 0, y |-> 0]
    ELSE [x |-> t.screens[a].saved[1].x, y |-> t.screens[a].saved[1].y]

(* A cursor's place is one of integers.                                    *)
LEMMA CursorOfIs ==
  ASSUME NEW t, Roomy(t), NEW a \in Which
  PROVE  CursorOf(t, a) \in Places
  <1>1. t.x \in Int /\ t.y \in Int /\ t.screens[a].saved \in Seq(Saved)
    BY RoomyIs, ScreenIs
  <1>. DEFINE sv == t.screens[a].saved
  <1>2. sv # << >> => sv[1].x \in Int /\ sv[1].y \in Int
    <2>. HIDE DEF sv
    <2>1. sv \in Seq(Saved)
      BY <1>1 DEF sv
    <2>2. sv # << >> => sv[1] \in Saved
      BY <2>1
    <2>. QED  BY <2>2 DEF Saved
  <1>. HIDE DEF sv
  <1>3. CursorOf(t, a) \in {[x |-> t.x, y |-> t.y], [x |-> 0, y |-> 0], [x |-> sv[1].x, y |-> sv[1].y]}
    BY DEF CursorOf, sv
  <1>4. sv = << >> => CursorOf(t, a) \in {[x |-> t.x, y |-> t.y], [x |-> 0, y |-> 0]}
    BY DEF CursorOf, sv
  <1>. QED  BY <1>1, <1>2, <1>3, <1>4 DEF Places

IsResized(t, w, size) ==
    /\ Inside(w) /\ w.active = t.active /\ Height(w) = size[1] /\ Width(w) = size[2]
    /\ \A a \in Which : Sized(t.screens[a], w.screens[a], size)

(* Both screens of a terminal are resized, and the cursor is moved into    *)
(* them (terminalstate, resize).                                           *)
LEMMA ResizedIs ==
  ASSUME NEW t, Inside(t), NEW size \in Extents
  PROVE  IsResized(t, Resized(t, size), size)
  <1>. DEFINE other == IF t.active = "alt" THEN "primary" ELSE "alt"
              new == [a \in {"primary", "alt"} |-> ResizeScreen(t.screens[a], size, CursorOf(t, a))]
              screens == [a \in {"primary", "alt"} |-> new[a].screen]
              u == [t EXCEPT !.screens = screens, !.top = 0, !.bottom = size[1]]
              v == MoveTo(u, new[t.active].cursor.x, new[t.active].cursor.y)
              w == Resized(t, size)
  <1>1. w = IF t.screens[other].saved = << >> THEN v
            ELSE [v EXCEPT !.screens[other].saved[1] =
                     [@ EXCEPT !.x = new[other].cursor.x, !.y = new[other].cursor.y,
                               !.wrapNext = FALSE]]
    BY DEF Resized, CursorOf
  <1>2. /\ Roomy(t) /\ t \in Terminals /\ t.active \in Which /\ other \in Which
        /\ size[1] \in Nat \ {0} /\ size[2] \in Nat \ {0}
        /\ \A a \in Which : /\ t.screens[a] \in Screens
                            /\ Len(t.screens[a].lines) >= t.screens[a].rows
                            /\ t.screens[a].scrolls = (a = "primary")
        /\ t.screens["alt"].offset = 0
    BY RoomyIs DEF Inside, Extents, Which, Roomy
  <1>3. \A a \in Which : /\ Sized(t.screens[a], new[a].screen, size) /\ new[a].cursor \in Places
                         /\ new[a].screen.saved = t.screens[a].saved
    BY <1>2, CursorOfIs, ResizeScreenIs DEF Which
  <1>. HIDE DEF new, other
  <1>4. \A a \in Which : screens[a] = new[a].screen /\ Sized(t.screens[a], screens[a], size)
    BY <1>3 DEF Which
  <1>5. screens \in [Which -> Screens]
    <2>1. \A a \in Which : screens[a] \in Screens
      BY <1>4 DEF Sized, IsScreen
    <2>. QED  BY <2>1 DEF Which
  <1>. HIDE DEF screens
  <1>6. /\ u \in Terminals /\ u.screens = screens /\ u.active = t.active
        /\ u.top = 0 /\ u.bottom = size[1]
    BY <1>2, <1>5 DEF Terminals
  <1>. HIDE DEF u
  <1>7. /\ \A a \in Which : IsScreen(screens[a], a = "primary", size[1], size[2])
        /\ screens["alt"].offset = 0
    BY <1>2, <1>4 DEF Sized, Which
  <1>8. Height(u) = size[1] /\ Width(u) = size[2]
    BY <1>6, <1>7 DEF Height, Width, IsScreen, Which
  <1>9. Roomy(u)
    BY <1>2, <1>6, <1>7, <1>8 DEF Roomy
  <1>10. SameScreens(u, v) /\ Inside(v)
    BY <1>2, <1>3, <1>9, MoveToIs DEF Places
  <1>. HIDE DEF v
  <1>11. v \in Terminals /\ v.screens = screens /\ v.active = t.active /\ v.top = 0 /\ v.bottom = size[1]
    BY <1>6, <1>10 DEF SameScreens, SameRegion
  <1>12. Height(v) = size[1] /\ Width(v) = size[2]
    BY <1>8, <1>10, <1>9, Unmoved
  <1>13. v.x <= size[2] /\ v.y < size[1]
    BY <1>10, <1>12 DEF Inside
  <1>14. CASE t.screens[other].saved = << >>
    BY <1>1, <1>4, <1>10, <1>11, <1>12, <1>14 DEF IsResized
  <1>15. CASE t.screens[other].saved # << >>
    <2>. DEFINE x == new[other].cursor.x
                y == new[other].cursor.y
                s == screens[other]
                sv == [s.saved EXCEPT ![1] = [@ EXCEPT !.x = x, !.y = y, !.wrapNext = FALSE]]
                r == [s EXCEPT !.saved = sv]
                scr == [screens EXCEPT ![other] = r]
    <2>1. x \in Int /\ y \in Int /\ s \in Screens /\ s.saved \in Seq(Saved) /\ s.saved # << >>
      BY <1>2, <1>3, <1>4, <1>5, <1>15, ScreenIs DEF Places
    <2>2. sv \in Seq(Saved)
      BY <2>1, FirstSaved
    <2>3. w = [v EXCEPT !.screens[other].saved = sv]
      BY <1>1, <1>11, <1>15
    <2>. HIDE DEF sv, x, y
    <2>4. w = [v EXCEPT !.screens = scr]
      BY <2>3, <1>11
    <2>5. /\ r \in Screens /\ r.lines = s.lines /\ r.offset = s.offset /\ r.scrolls = s.scrolls
          /\ r.rows = s.rows /\ r.cols = s.cols
      BY <2>1, <2>2 DEF Screens
    <2>. HIDE DEF r
    <2>6. scr \in [Which -> Screens] /\ \A a \in Which : scr[a] = IF a = other THEN r ELSE screens[a]
      BY <1>2, <1>5, <2>5
    <2>7. \A a \in Which : Sized(t.screens[a], scr[a], size)
      <3>1. Sized(t.screens[other], r, size)
        BY <1>2, <1>4, <2>5, SizedSaved
      <3>. QED  BY <1>4, <2>6, <3>1
    <2>. HIDE DEF scr, s
    <2>8. /\ w \in Terminals /\ w.screens = scr /\ w.active = t.active /\ w.top = 0 /\ w.bottom = size[1]
          /\ w.x = v.x /\ w.y = v.y
      BY <1>11, <2>4, <2>6 DEF Terminals
    <2>9. /\ \A a \in Which : IsScreen(scr[a], a = "primary", size[1], size[2])
          /\ scr["alt"].offset = 0
      BY <1>2, <2>7 DEF Sized, Which
    <2>. HIDE DEF w
    <2>10. Height(w) = size[1] /\ Width(w) = size[2]
      BY <2>8, <2>9 DEF Height, Width, IsScreen, Which
    <2>11. Inside(w)
      BY <1>2, <1>13, <2>8, <2>9, <2>10 DEF Roomy, Inside
    <2>12. IsResized(t, w, size)
      BY <2>7, <2>8, <2>10, <2>11 DEF IsResized
    <2>. QED  BY <2>12 DEF w
  <1>. QED  BY <1>14, <1>15

------------------------------------------------------------------------------
(* The lines of an older batch.                                            *)

(* The lines of a screen become those of an older batch.                   *)
Settle(s) == [s EXCEPT !.lines = [i \in DOMAIN @ |-> [@[i] EXCEPT !.changed = FALSE]]]

IsSettle(s, u) ==
    /\ u \in Screens /\ Len(u.lines) = Len(s.lines)
    /\ u.offset = s.offset /\ u.scrolls = s.scrolls /\ u.rows = s.rows /\ u.cols = s.cols
    /\ \A i \in 1 .. Len(s.lines) : u.lines[i].cells = s.lines[i].cells

(* Lines of an older batch keep their cells.                               *)
LEMMA SettleIs ==
  ASSUME NEW s \in Screens
  PROVE  IsSettle(s, Settle(s))
  <1>. DEFINE ls == s.lines
              ns == [i \in DOMAIN ls |-> [ls[i] EXCEPT !.changed = FALSE]]
  <1>1. /\ DOMAIN ls = 1 .. Len(ls) /\ Len(ls) \in Nat
        /\ \A i \in 1 .. Len(ls) : ls[i] \in Lines
    BY ScreenIs
  <1>2. \A line \in Lines : /\ [line EXCEPT !.changed = FALSE] \in Lines
                            /\ [line EXCEPT !.changed = FALSE].cells = line.cells
    BY DEF Lines
  <1>3. Settle(s) = [s EXCEPT !.lines = ns]
    BY DEF Settle
  <1>. HIDE DEF ls
  <1>4. ns \in [1 .. Len(ls) -> Lines] /\ \A i \in 1 .. Len(ls) : ns[i].cells = ls[i].cells
    BY <1>1, <1>2
  <1>. HIDE DEF ns
  <1>5. ns \in Seq(Lines) /\ Len(ns) = Len(ls)
    BY <1>1, <1>4, Listing
  <1>6. /\ Settle(s) \in Screens /\ Settle(s).lines = ns
        /\ Settle(s).offset = s.offset /\ Settle(s).scrolls = s.scrolls
        /\ Settle(s).rows = s.rows /\ Settle(s).cols = s.cols
    BY <1>3, <1>5, WithLines
  <1>. QED  BY <1>4, <1>5, <1>6 DEF IsSettle, ls

IsSettled(t, u) ==
    /\ u.active = t.active /\ u.top = t.top /\ u.bottom = t.bottom
    /\ u.x = t.x /\ u.y = t.y
    /\ \A a \in Which : IsSettle(t.screens[a], u.screens[a])
    /\ Inside(t) => Inside(u)
    /\ Height(u) = Height(t) /\ Width(u) = Width(t)

(* The same for the screens of a terminal.                                 *)
LEMMA SettledIs ==
  ASSUME NEW t, Roomy(t)
  PROVE  IsSettled(t, Settled(t))
  <1>. DEFINE u == Settled(t)
              scr == [primary |-> Settle(t.screens["primary"]), alt |-> Settle(t.screens["alt"])]
  <1>1. u = [t EXCEPT !.screens = scr]
    BY DEF Settled, Settle
  <1>2. /\ t \in Terminals /\ "primary" \in Which /\ "alt" \in Which
        /\ \A a \in Which : t.screens[a] \in Screens
        /\ \A a \in Which : IsScreen(t.screens[a], a = "primary", Height(t), Width(t))
        /\ t.screens["alt"].offset = 0 /\ t.top < t.bottom /\ t.bottom <= Height(t)
    BY RoomyIs DEF Roomy
  <1>3. \A a \in Which : scr[a] = Settle(t.screens[a])
    BY DEF Which
  <1>4. \A a \in Which : IsSettle(t.screens[a], scr[a])
    BY <1>2, <1>3, SettleIs
  <1>5. scr \in [Which -> Screens]
    <2>1. Settle(t.screens["primary"]) \in Screens /\ Settle(t.screens["alt"]) \in Screens
      BY <1>2, SettleIs DEF IsSettle
    <2>. QED  BY <2>1 DEF Which
  <1>. HIDE DEF scr
  <1>6. /\ u \in Terminals /\ u.screens = scr /\ u.active = t.active /\ u.top = t.top
        /\ u.bottom = t.bottom /\ u.x = t.x /\ u.y = t.y
    BY <1>1, <1>2, <1>5 DEF Terminals
  <1>. HIDE DEF u
  <1>7. Height(u) = Height(t) /\ Width(u) = Width(t)
    BY <1>2, <1>4, <1>6 DEF Height, Width, IsSettle
  <1>8. \A a \in Which : IsScreen(u.screens[a], a = "primary", Height(t), Width(t))
    <2>1. ASSUME NEW a \in Which
          PROVE IsScreen(u.screens[a], a = "primary", Height(t), Width(t))
      <3>1. IsSettle(t.screens[a], u.screens[a]) /\ IsScreen(t.screens[a], a = "primary", Height(t), Width(t))
        BY <1>2, <1>4, <1>6
      <3>. QED  BY <3>1 DEF IsSettle, IsScreen
    <2>. QED  BY <2>1
  <1>9. u.screens["alt"].offset = 0
    BY <1>2, <1>4, <1>6 DEF IsSettle
  <1>10. Roomy(u)
    BY <1>2, <1>6, <1>7, <1>8, <1>9 DEF Roomy
  <1>11. Inside(t) => Inside(u)
    BY <1>6, <1>7, <1>10 DEF Inside
  <1>12. \A a \in Which : IsSettle(t.screens[a], u.screens[a])
    BY <1>4, <1>6
  <1>13. IsSettled(t, u)
    BY <1>6, <1>7, <1>11, <1>12 DEF IsSettled
  <1>. QED  BY <1>13 DEF u

(* A new terminal has two blank screens of its size.                       *)
LEMMA NewTerminalIs ==
  ASSUME NEW size \in Extents
  PROVE  Inside(NewTerminal(size))
  <1>. DEFINE t == NewTerminal(size)
              p == NewScreen(size, TRUE)
              q == NewScreen(size, FALSE)
              scr == [primary |-> p, alt |-> q]
  <1>1. size[1] \in Nat \ {0} /\ size[2] \in Nat \ {0}
    BY DEF Extents
  <1>2. NewLines(size[1]) \in Seq(Lines) /\ Len(NewLines(size[1])) = size[1]
    BY <1>1, NewLinesIs
  <1>3. /\ IsScreen(p, TRUE, size[1], size[2]) /\ IsScreen(q, FALSE, size[1], size[2])
        /\ q.offset = 0 /\ p.rows = size[1] /\ p.cols = size[2]
    <2>1. << >> \in Seq(Saved)
      OBVIOUS
    <2>. QED  BY <1>1, <1>2, <2>1 DEF NewScreen, IsScreen, Screens
  <1>. HIDE DEF p, q
  <1>4. scr \in [Which -> Screens] /\ scr["primary"] = p /\ scr["alt"] = q
    <2>1. p \in Screens /\ q \in Screens
      BY <1>3 DEF IsScreen
    <2>. QED  BY <2>1 DEF Which
  <1>5. t = [screens |-> scr, active |-> "primary", x |-> 0, y |-> 0, wrapNext |-> FALSE,
             top |-> 0, bottom |-> size[1], origin |-> FALSE, printed |-> 0]
    BY DEF NewTerminal, p, q
  <1>. HIDE DEF scr
  <1>6. /\ t \in Terminals /\ t.screens = scr /\ t.top = 0 /\ t.bottom = size[1] /\ t.x = 0 /\ t.y = 0
    BY <1>1, <1>4, <1>5 DEF Terminals, Which
  <1>. HIDE DEF t
  <1>7. Height(t) = size[1] /\ Width(t) = size[2]
    BY <1>3, <1>4, <1>6 DEF Height, Width
  <1>8. \A a \in Which : IsScreen(t.screens[a], a = "primary", Height(t), Width(t))
    BY <1>3, <1>4, <1>6, <1>7 DEF Which
  <1>9. Inside(t)
    BY <1>1, <1>3, <1>4, <1>6, <1>7, <1>8 DEF Inside, Roomy
  <1>. QED  BY <1>9 DEF t

------------------------------------------------------------------------------
(* What the steps keep, and what they report.                              *)

\* ScrollbackStays, of the primary screen before and after.
StaysOn(s, u, erased) ==
    /\ u.offset >= s.offset
    /\ \/ <<u.rows, u.cols>> # <<s.rows, s.cols>>
       \/ \A i \in 1 .. Len(s.lines) - s.rows :
            LET r == StableRow(s, i)
            IN IF r \in StableRows(u) THEN AtStable(u, r).cells = s.lines[i].cells
               ELSE Len(u.lines) = u.rows + scrollback \/ erased

(* In a screen that evolves, rows in scrollback keep index and content     *)
(* until they are dropped from a full scrollback, or erased.               *)
LEMMA EvolvedStays ==
  ASSUME NEW s \in Screens, s.scrolls, Len(s.lines) >= s.rows, scrollback \in Nat,
         NEW p, NEW u, NEW but, Evolves(s, p, but), IsSettle(p, u),
         NEW erased \in BOOLEAN, "erase" \in but => erased
  PROVE  StaysOn(s, u, erased)
  <1>1. /\ IsScreen(p, s.scrolls, s.rows, s.cols)
        /\ Grows(s, p) /\ Still(s, p) /\ (Drops(s, p) \/ erased)
    BY DEF Evolves, Frame, Plain
  <1>2. /\ p \in Screens /\ p.rows = s.rows /\ p.scrolls
    BY <1>1 DEF IsScreen
  <1>3. /\ Len(s.lines) \in Nat /\ s.offset \in Nat /\ s.rows \in Nat
        /\ Len(p.lines) \in Nat /\ p.offset \in Nat
        /\ p.offset >= s.offset /\ p.offset + Len(p.lines) >= s.offset + Len(s.lines)
    BY <1>1, <1>2, ScreenIs DEF Grows
  <1>4. /\ u.offset = p.offset /\ Len(u.lines) = Len(p.lines) /\ u.rows = s.rows
        /\ \A i \in 1 .. Len(p.lines) : u.lines[i].cells = p.lines[i].cells
    BY <1>2 DEF IsSettle
  <1>5. ASSUME NEW i \in 1 .. Len(s.lines) - s.rows
        PROVE  LET r == StableRow(s, i)
               IN IF r \in StableRows(u) THEN AtStable(u, r).cells = s.lines[i].cells
                  ELSE Len(u.lines) = u.rows + scrollback \/ erased
    <2>. DEFINE r == StableRow(s, i)
                j == r - u.offset + 1
    <2>1. i \in Nat /\ i >= 1 /\ i <= Len(s.lines) - s.rows /\ r = s.offset + i - 1 /\ r \in Int
      BY <1>3 DEF StableRow
    <2>2. CASE r \in StableRows(u)
      <3>1. j \in 1 .. Len(p.lines) /\ p.offset + j = s.offset + i
        <4>. DEFINE o == p.offset
                    q == s.offset
                    n == Len(p.lines)
        <4>1. r \in o .. o + n - 1
          BY <1>4, <2>2 DEF StableRows
        <4>2. j = r - o + 1 /\ o \in Nat /\ q \in Nat /\ n \in Nat /\ r = q + i - 1 /\ i \in Nat
          BY <1>3, <1>4, <2>1
        <4>. HIDE DEF o, q, n, r, j
        <4>3. j \in 1 .. n /\ o + j = q + i
          BY <4>1, <4>2
        <4>. QED  BY <4>3 DEF o, q, n
      <3>2. AtStable(u, r) = u.lines[j]
        BY DEF AtStable
      <3>. HIDE DEF j, r
      <3>3. p.lines[j].cells = s.lines[i].cells
        BY <1>1, <3>1 DEF Still
      <3>4. AtStable(u, r).cells = s.lines[i].cells
        BY <1>4, <3>1, <3>2, <3>3
      <3>. QED  BY <2>2, <3>4 DEF r
    <2>3. CASE r \notin StableRows(u)
      <3>1. p.offset > s.offset
        <4>. DEFINE o == p.offset
                    q == s.offset
                    n == Len(p.lines)
                    m == Len(s.lines)
        <4>1. r \notin o .. o + n - 1
          BY <1>4, <2>3 DEF StableRows
        <4>2. /\ o \in Nat /\ q \in Nat /\ n \in Nat /\ m \in Nat /\ r = q + i - 1 /\ i \in Nat
              /\ i <= m /\ o + n >= q + m
          BY <1>3, <2>1
        <4>. HIDE DEF o, q, n, r, m
        <4>3. o > q
          BY <4>1, <4>2
        <4>. QED  BY <4>3 DEF o, q
      <3>2. Drops(s, p) => Len(u.lines) = u.rows + scrollback
        BY <1>2, <1>4, <3>1 DEF Drops, Full, ScrollbackSize
      <3>. QED  BY <1>1, <2>3, <3>2
    <2>. QED  BY <2>2, <2>3
  <1>6. u.offset >= s.offset
    BY <1>3, <1>4
  <1>. QED  BY <1>5, <1>6 DEF StaysOn

(* A resize is not held to it.                                             *)
LEMMA SizedStays ==
  ASSUME NEW s \in Screens, Len(s.lines) >= s.rows, NEW size, NEW p, NEW u,
         Sized(s, p, size), IsSettle(p, u), NEW erased \in BOOLEAN
  PROVE  StaysOn(s, u, erased)
  <1>1. /\ p \in Screens /\ p.rows = size[1] /\ p.cols = size[2] /\ p.offset = s.offset
    BY DEF Sized, IsScreen
  <1>2. /\ u.offset = s.offset /\ Len(u.lines) = Len(p.lines) /\ u.rows = size[1] /\ u.cols = size[2]
        /\ \A i \in 1 .. Len(p.lines) : u.lines[i].cells = p.lines[i].cells
    BY <1>1 DEF IsSettle
  <1>3. s.offset \in Nat /\ Len(s.lines) \in Nat /\ s.rows \in Nat
    BY ScreenIs
  <1>4. CASE s.rows = size[1] /\ s.cols = size[2]
    <2>1. p.lines = s.lines
      BY <1>4 DEF Sized
    <2>2. ASSUME NEW i \in 1 .. Len(s.lines) - s.rows
          PROVE  StableRow(s, i) \in StableRows(u) /\ AtStable(u, StableRow(s, i)).cells = s.lines[i].cells
      <3>1. i \in 1 .. Len(s.lines)
        BY <1>3
      <3>2. StableRow(s, i) \in StableRows(u) /\ StableRow(s, i) - u.offset + 1 = i
        BY <1>2, <1>3, <2>1, <3>1 DEF StableRow, StableRows
      <3>. QED  BY <1>2, <2>1, <3>1, <3>2 DEF AtStable
    <2>. QED  BY <1>2, <1>3, <2>2 DEF StaysOn
  <1>5. CASE ~ (s.rows = size[1] /\ s.cols = size[2])
    <2>1. <<u.rows, u.cols>> # <<s.rows, s.cols>>
      BY <1>2, <1>5
    <2>. QED  BY <1>2, <1>3, <2>1 DEF StaysOn
  <1>. QED  BY <1>4, <1>5

(* A screen that stays keeps its rows.                                     *)
LEMMA SameStays ==
  ASSUME NEW s \in Screens, Len(s.lines) >= s.rows, NEW erased \in BOOLEAN
  PROVE  StaysOn(s, s, erased)
  <1>1. s.offset \in Nat /\ Len(s.lines) \in Nat /\ s.rows \in Nat
    BY ScreenIs
  <1>2. ASSUME NEW i \in 1 .. Len(s.lines) - s.rows
        PROVE  StableRow(s, i) \in StableRows(s) /\ AtStable(s, StableRow(s, i)).cells = s.lines[i].cells
    <2>1. i \in 1 .. Len(s.lines)
      BY <1>1
    <2>2. StableRow(s, i) \in StableRows(s) /\ StableRow(s, i) - s.offset + 1 = i
      BY <1>1, <2>1 DEF StableRow, StableRows
    <2>. QED  BY <2>1, <2>2 DEF AtStable
  <1>. QED  BY <1>1, <1>2 DEF StaysOn

(* A row that both screens have.                                           *)
LEMMA InBoth ==
  ASSUME NEW s \in Screens, NEW p \in Screens, NEW r \in StableRows(s) \cap StableRows(p)
  PROVE  /\ r - s.offset + 1 \in 1 .. Len(s.lines) /\ r - p.offset + 1 \in 1 .. Len(p.lines)
         /\ p.offset + (r - p.offset + 1) = s.offset + (r - s.offset + 1)
         /\ AtStable(s, r) = s.lines[r - s.offset + 1] /\ AtStable(p, r) = p.lines[r - p.offset + 1]
         /\ r \in Int
  <1>1. /\ s.offset \in Nat /\ Len(s.lines) \in Nat /\ p.offset \in Nat /\ Len(p.lines) \in Nat
    BY ScreenIs
  <1>2. /\ r \in s.offset .. s.offset + Len(s.lines) - 1
        /\ r \in p.offset .. p.offset + Len(p.lines) - 1
    BY DEF StableRows
  <1>3. /\ AtStable(s, r) = s.lines[r - s.offset + 1] /\ AtStable(p, r) = p.lines[r - p.offset + 1]
    BY DEF AtStable
  <1>. DEFINE a == s.offset
              m == Len(s.lines)
              b == p.offset
              n == Len(p.lines)
  <1>4. /\ a \in Nat /\ b \in Nat /\ m \in Nat /\ n \in Nat
        /\ r \in a .. a + m - 1 /\ r \in b .. b + n - 1
    BY <1>1, <1>2
  <1>. HIDE DEF a, b, m, n
  <1>5. /\ r \in Int /\ r - a + 1 \in 1 .. m /\ r - b + 1 \in 1 .. n
        /\ b + (r - b + 1) = a + (r - a + 1)
    BY <1>4
  <1>. QED  BY <1>3, <1>5 DEF a, b, m, n

\* ChangesAreReported, of the screens that are shown before and after.
Told(s, p) ==
    \A r \in StableRows(s) \cap StableRows(p) :
        AtStable(s, r).cells = AtStable(p, r).cells \/ AtStable(p, r).changed

(* In a screen that evolves, every row that differs is marked.             *)
LEMMA EvolvedTold ==
  ASSUME NEW s \in Screens, NEW p \in Screens, Tells(s, p)
  PROVE  Told(s, p)
  <1>1. SUFFICES ASSUME NEW r \in StableRows(s) \cap StableRows(p)
                 PROVE  AtStable(s, r).cells = AtStable(p, r).cells \/ AtStable(p, r).changed
    BY DEF Told
  <1>. DEFINE j == r - s.offset + 1
              i == r - p.offset + 1
  <1>2. /\ j \in 1 .. Len(s.lines) /\ i \in 1 .. Len(p.lines) /\ p.offset + i = s.offset + j
        /\ AtStable(s, r) = s.lines[j] /\ AtStable(p, r) = p.lines[i]
    BY InBoth
  <1>. HIDE DEF i, j
  <1>. QED  BY <1>2 DEF Tells

(* So it is in one that is resized.                                        *)
LEMMA SizedTold ==
  ASSUME NEW s \in Screens, NEW size, NEW p \in Screens, Sized(s, p, size)
  PROVE  Told(s, p)
  <1>1. SUFFICES ASSUME NEW r \in StableRows(s) \cap StableRows(p)
                 PROVE  AtStable(s, r).cells = AtStable(p, r).cells \/ AtStable(p, r).changed
    BY DEF Told
  <1>. DEFINE i == r - s.offset + 1
  <1>2. p.offset = s.offset
    BY DEF Sized
  <1>3. /\ i \in 1 .. Len(s.lines) /\ i \in 1 .. Len(p.lines)
        /\ AtStable(s, r) = s.lines[i] /\ AtStable(p, r) = p.lines[i]
    BY <1>2, InBoth
  <1>4. i <= Len(s.lines)
    BY <1>3, ScreenIs
  <1>. HIDE DEF i
  <1>. QED  BY <1>3, <1>4 DEF Sized

(* All lines of the screen that is shown are marked that one can have seen.*)
LEMMA MarkedTold ==
  ASSUME NEW s \in Screens, NEW p \in Screens, NEW n \in Nat,
         \A i \in 1 .. Len(p.lines) : i <= n => p.lines[i].changed,
         n < Len(p.lines) => s.offset = 0 /\ Len(s.lines) = n
  PROVE  Told(s, p)
  <1>1. SUFFICES ASSUME NEW r \in StableRows(s) \cap StableRows(p)
                 PROVE  AtStable(s, r).cells = AtStable(p, r).cells \/ AtStable(p, r).changed
    BY DEF Told
  <1>. DEFINE j == r - s.offset + 1
              i == r - p.offset + 1
  <1>2. /\ j \in 1 .. Len(s.lines) /\ i \in 1 .. Len(p.lines) /\ p.offset + i = s.offset + j
        /\ AtStable(s, r) = s.lines[j] /\ AtStable(p, r) = p.lines[i]
    BY InBoth
  <1>. HIDE DEF i, j
  <1>3. /\ s.offset \in Nat /\ Len(s.lines) \in Nat /\ p.offset \in Nat /\ Len(p.lines) \in Nat
    BY ScreenIs
  <1>4. i <= n
    <2>1. CASE n < Len(p.lines)
      BY <1>2, <1>3, <2>1
    <2>2. CASE ~ (n < Len(p.lines))
      BY <1>2, <1>3, <2>2
    <2>. QED  BY <2>1, <2>2
  <1>. QED  BY <1>2, <1>4

(* Then the step leaves no change unreported.                              *)
LEMMA NoneUnreported ==
  ASSUME NEW t, NEW u, Told(Active(t), Active(u))
  PROVE  Unreported(t, u) = {}
  BY DEF Unreported, Told

------------------------------------------------------------------------------
(* One step.                                                               *)

\* The invariant.
ScreenInv == Inside(term) /\ scrollback \in Nat

StaysStep ==
    \E erased \in BOOLEAN :
        /\ StaysOn(term.screens["primary"], term'.screens["primary"], erased)
        /\ erased => Erases

ReportStep ==
    \/ unreported' = {}
    \/ SwitchesWithoutErasing \/ ShiftsRowsBelow \/ HasLongAlternate
    \/ ScrollbackAndViewport

ScreenStep == ScreenInv' /\ StaysStep /\ ReportStep

(* A step of the terminal: what it becomes is inside again, its marks      *)
(* settled.                                                                *)
LEMMA BecomesIs ==
  ASSUME ScreenInv, NEW u, Become(u), Inside(u)
  PROVE  /\ ScreenInv' /\ IsSettled(u, term')
         /\ unreported' = Unreported(term, u)
         /\ Roomy(term) /\ Roomy(u) /\ term'.active = u.active
  <1>1. /\ term' = Settled(u) /\ unreported' = Unreported(term, u) /\ scrollback' = scrollback
        /\ Roomy(u) /\ Roomy(term) /\ scrollback \in Nat
    BY DEF Become, ScreenInv, Inside
  <1>2. IsSettled(u, term')
    BY <1>1, SettledIs
  <1>3. Inside(term')
    BY <1>2 DEF IsSettled
  <1>4. ScreenInv'
    BY <1>1, <1>3 DEF ScreenInv
  <1>. QED  BY <1>1, <1>2, <1>4 DEF IsSettled

(* Such a step keeps the rows in scrollback.                               *)
LEMMA StepStays ==
  ASSUME ScreenInv, NEW u, Become(u), Inside(u), NEW but, Evolved(term, u, but),
         NEW erased \in BOOLEAN, "erase" \in but => erased
  PROVE  StaysOn(term.screens["primary"], term'.screens["primary"], erased)
  <1>. DEFINE s == term.screens["primary"]
              p == u.screens["primary"]
              q == term'.screens["primary"]
  <1>1. Roomy(term) /\ IsSettled(u, term') /\ "primary" \in Which /\ scrollback \in Nat
    BY BecomesIs DEF ScreenInv, Which
  <1>2. s \in Screens /\ s.scrolls /\ Len(s.lines) >= s.rows
    BY <1>1, RoomyIs
  <1>3. Evolves(s, p, but)
    BY <1>1 DEF Evolved
  <1>4. IsSettle(p, q)
    BY <1>1 DEF IsSettled
  <1>. HIDE DEF s, p, q
  <1>5. StaysOn(s, q, erased)
    BY <1>1, <1>2, <1>3, <1>4, EvolvedStays
  <1>. QED  BY <1>5 DEF s, q

(* Such a step reports what it changes.                                    *)
LEMMA StepReports ==
  ASSUME ScreenInv, NEW u, Become(u), Inside(u), NEW but, Evolved(term, u, but),
         u.active = term.active, "silent" \notin but,
         "scroll" \in but => term.bottom < Height(term)
  PROVE  ReportStep
  <1>. DEFINE s == Active(term)
              p == Active(u)
  <1>1. /\ Roomy(term) /\ Roomy(u) /\ IsSettled(u, term') /\ term'.active = term.active
        /\ unreported' = Unreported(term, u)
    BY BecomesIs
  <1>2. /\ term.active \in Which /\ s = term.screens[term.active] /\ p = u.screens[term.active]
        /\ s \in Screens /\ p \in Screens /\ Len(s.lines) >= s.rows
        /\ s.scrolls = (term.active = "primary") /\ s.rows = Height(term)
    BY <1>1, RoomyIs DEF Active
  <1>3. Evolves(s, p, but)
    BY <1>2 DEF Evolved
  <1>4. CASE ~ Plain(s)
    <2>1. ~ s.scrolls /\ Len(s.lines) # s.rows
      BY <1>4 DEF Plain
    <2>2. term.active = "alt"
      BY <1>2, <2>1 DEF Which
    <2>3. Len(s.lines) > s.rows
      BY <1>2, <2>1, ScreenIs
    <2>4. s = term.screens.alt
      BY <1>2, <2>2
    <2>5. HasLongAlternate
      BY <2>2, <2>3, <2>4 DEF HasLongAlternate
    <2>. QED  BY <2>5 DEF ReportStep
  <1>5. CASE Plain(s)
    <2>1. Tells(s, p) \/ ("scroll" \in but /\ p.offset > s.offset)
      BY <1>3, <1>5 DEF Evolves
    <2>2. CASE Tells(s, p)
      <3>1. Told(s, p)
        BY <1>2, <2>2, EvolvedTold
      <3>2. Unreported(term, u) = {}
        BY <3>1, NoneUnreported
      <3>. QED  BY <1>1, <3>2 DEF ReportStep
    <2>3. CASE "scroll" \in but /\ p.offset > s.offset
      <3>1. s.scrolls
        <4>1. s.scrolls \/ p.offset = s.offset
          BY <1>3 DEF Evolves, Frame
        <4>2. s.offset \in Nat
          BY <1>2, ScreenIs
        <4>. QED  BY <2>3, <4>1, <4>2
      <3>2. term.active = "primary" /\ term'.active = "primary"
        BY <1>1, <1>2, <3>1
      <3>3. term.bottom < Active(term).rows
        BY <1>2, <2>3
      <3>4. term'.screens["primary"].offset = p.offset /\ s.offset = term.screens["primary"].offset
        BY <1>1, <1>2, <3>2 DEF IsSettled, IsSettle
      <3>5. ShiftsRowsBelow
        BY <2>3, <3>2, <3>3, <3>4 DEF ShiftsRowsBelow
      <3>. QED  BY <3>5 DEF ReportStep
    <2>. QED  BY <2>1, <2>2, <2>3
  <1>. QED  BY <1>4, <1>5

(* A step that shows the same screen before and after.                     *)
LEMMA Stepped ==
  ASSUME ScreenInv, NEW u, Become(u), Inside(u), NEW but, Evolved(term, u, but),
         u.active = term.active, but \subseteq {"scroll", "erase"},
         "erase" \in but => Erases,
         "scroll" \in but => term.bottom < Height(term)
  PROVE  ScreenStep
  <1>1. ScreenInv'
    BY BecomesIs
  <1>2. StaysStep
    <2>. DEFINE e == "erase" \in but
    <2>1. StaysOn(term.screens["primary"], term'.screens["primary"], e)
      <3>1. e \in BOOLEAN /\ ("erase" \in but => e)
        OBVIOUS
      <3>. HIDE DEF e
      <3>. QED  BY <3>1, StepStays
    <2>2. e \in BOOLEAN /\ (e => Erases)
      OBVIOUS
    <2>. HIDE DEF e
    <2>. QED  BY <2>1, <2>2 DEF StaysStep
  <1>3. ReportStep
    <2>1. "silent" \notin but
      OBVIOUS
    <2>. QED  BY <2>1, StepReports
  <1>. QED  BY <1>1, <1>2, <1>3 DEF ScreenStep

(* A step with no exceptions.                                              *)
LEMMA SteppedQuietly ==
  ASSUME ScreenInv, NEW u, Become(u), Inside(u), Evolved(term, u, {}), u.active = term.active
  PROVE  ScreenStep
  <1>1. "erase" \notin {} /\ "scroll" \notin {} /\ {} \subseteq {"scroll", "erase"}
    OBVIOUS
  <1>. QED  BY <1>1, Stepped

(* A step of the region.                                                   *)
LEMMA SteppedInRegion ==
  ASSUME ScreenInv, NEW u, Become(u), Inside(u), Goes(term, u, RegionBut(term))
  PROVE  ScreenStep
  <1>1. /\ RegionBut(term) \subseteq {"scroll", "erase"} /\ "erase" \notin RegionBut(term)
        /\ "scroll" \in RegionBut(term) => term.bottom < Height(term)
    BY DEF RegionBut
  <1>2. Evolved(term, u, RegionBut(term)) /\ u.active = term.active
    BY DEF Goes, SameRegion
  <1>. QED  BY <1>1, <1>2, Stepped

(* A step that erases scrollback.                                          *)
LEMMA SteppedErasing ==
  ASSUME ScreenInv, NEW u, Become(u), Inside(u), Goes(term, u, {"erase"}), Erases
  PROVE  ScreenStep
  <1>1. "scroll" \notin {"erase"} /\ {"erase"} \subseteq {"scroll", "erase"}
    OBVIOUS
  <1>2. Evolved(term, u, {"erase"}) /\ u.active = term.active
    BY DEF Goes, SameRegion
  <1>. QED  BY <1>1, <1>2, Stepped

------------------------------------------------------------------------------
(* The steps of one screen.                                                *)

(* What the invariant says of the terminal.                                *)
LEMMA InsideIs ==
  ASSUME ScreenInv
  PROVE  /\ Inside(term) /\ Roomy(term) /\ scrollback \in Nat
         /\ term \in Terminals /\ term.active \in Which
         /\ Active(term).rows = Height(term) /\ Active(term).cols = Width(term)
         /\ Height(term) \in Nat \ {0} /\ Width(term) \in Nat \ {0}
         /\ term.x \in Nat /\ term.y \in 0 .. Height(term) - 1
         /\ term.top \in 0 .. term.bottom - 1 /\ term.bottom \in 1 .. Height(term)
  BY AtTheCursor, RoomyIs DEF ScreenInv, Inside

(* An operation that keeps screen and region is an evolution.              *)
LEMMA GoesIs ==
  ASSUME NEW t, NEW u, NEW but, Goes(t, u, but)
  PROVE  Evolved(t, u, but) /\ u.active = t.active /\ Roomy(u) /\ Height(u) = Height(t) /\ Width(u) = Width(t)
  BY DEF Goes, SameRegion, Evolved

(* Printed text is flushed.                                                *)
LEMMA FlushPrintSteps ==
  ASSUME ScreenAssumption, ScreenInv, FlushPrint
  PROVE  ScreenStep
  <1>1. PICK n \in Texts : Become(PrintText(term, n))
    BY DEF FlushPrint
  <1>2. n \in Nat
    BY DEF ScreenAssumption
  <1>. QED  BY <1>1, <1>2, InsideIs, PrintTextIs, SteppedInRegion

(* The cursor is put into another row.                                     *)
LEMMA PlacedIs ==
  ASSUME NEW t, Inside(t), NEW y \in 0 .. Height(t) - 1, NEW x \in 0 .. Width(t), NEW u,
         \/ u = [t EXCEPT !.y = y, !.wrapNext = FALSE]
         \/ u = [t EXCEPT !.x = x, !.wrapNext = FALSE]
  PROVE  Inside(u) /\ Goes(t, u, {})
  <1>1. Roomy(t) /\ t \in Terminals /\ Height(t) \in Nat /\ Width(t) \in Nat /\ t.x <= Width(t) /\ t.y < Height(t)
    BY RoomyIs DEF Inside
  <1>2. y \in Nat /\ y < Height(t) /\ x \in Nat /\ x <= Width(t)
    BY <1>1
  <1>3. SameScreens(t, u) /\ (u.y = y \/ u.y = t.y) /\ (u.x = x \/ u.x = t.x)
    BY <1>1, <1>2 DEF SameScreens, SameRegion, Terminals
  <1>4. Goes(t, u, {}) /\ Height(u) = Height(t) /\ Width(u) = Width(t)
    BY <1>1, <1>3, Unmoved
  <1>5. u.x <= Width(t) /\ u.y < Height(t)
    BY <1>1, <1>2, <1>3
  <1>6. Inside(u)
    BY <1>4, <1>5 DEF Inside, Goes, Evolved
  <1>. QED  BY <1>4, <1>6

(* Line feed.                                                              *)
LEMMA LineFeedSteps ==
  ASSUME ScreenInv, LineFeed
  PROVE  ScreenStep
  <1>1. CASE Become(NextLine(term, term.x))
    <2>1. term.x \in Int
      BY InsideIs
    <2>. QED  BY <1>1, <2>1, InsideIs, NextLineIs, SteppedInRegion
  <1>2. CASE \E y \in {term.y, Least(term.y + 1, Active(term).rows - 1)} :
                Become([DirtyLine(DirtyLine(term, term.y), y) EXCEPT !.y = y, !.wrapNext = FALSE])
    <2>1. PICK y \in {term.y, Least(term.y + 1, Active(term).rows - 1)} :
                Become([DirtyLine(DirtyLine(term, term.y), y) EXCEPT !.y = y, !.wrapNext = FALSE])
      BY <1>2
    <2>2. y \in 0 .. Height(term) - 1
      <3>. DEFINE h == Height(term)
      <3>1. term.y \in 0 .. h - 1 /\ h \in Nat \ {0} /\ Active(term).rows = h
        BY InsideIs
      <3>. HIDE DEF h
      <3>2. Least(term.y + 1, h - 1) \in 0 .. h - 1
        BY <3>1 DEF Least
      <3>. QED  BY <3>1, <3>2 DEF h
    <2>. DEFINE a == DirtyLine(term, term.y)
                b == DirtyLine(a, y)
                u == [b EXCEPT !.y = y, !.wrapNext = FALSE]
    <2>3. Inside(a) /\ Goes(term, a, {}) /\ y \in 0 .. Height(a) - 1
      BY <2>2, InsideIs, DirtyLineIs, GoesIs
    <2>4. Inside(b) /\ Goes(a, b, {})
      <3>. HIDE DEF a
      <3>. QED  BY <2>3, DirtyLineIs
    <2>5. y \in 0 .. Height(b) - 1 /\ 0 \in 0 .. Width(b)
      <3>1. Height(b) = Height(a) /\ Width(b) \in Nat
        <4>. HIDE DEF b
        <4>. QED  BY <2>4, GoesIs, RoomyIs DEF Inside
      <3>. QED  BY <2>3, <3>1
    <2>6. Inside(u) /\ Goes(b, u, {})
      <3>. HIDE DEF b
      <3>. QED  BY <2>4, <2>5, PlacedIs
    <2>7. Become(u)
      BY <2>1
    <2>. HIDE DEF a, b, u
    <2>8. Goes(term, b, {})
      BY <2>3, <2>4, InsideIs, GoesOn
    <2>9. Goes(term, u, {})
      BY <2>6, <2>8, InsideIs, GoesOn
    <2>. QED  BY <2>6, <2>7, <2>9, GoesIs, SteppedQuietly
  <1>. QED  BY <1>1, <1>2 DEF LineFeed

(* Carriage return.                                                        *)
LEMMA CarriageReturnSteps ==
  ASSUME ScreenInv, CarriageReturn
  PROVE  ScreenStep
  <1>. DEFINE a == DirtyLine(term, term.y)
              u == [a EXCEPT !.x = 0, !.wrapNext = FALSE]
  <1>1. Become(u)
    BY DEF CarriageReturn
  <1>2. Inside(a) /\ Goes(term, a, {})
    BY InsideIs, DirtyLineIs
  <1>. HIDE DEF a
  <1>3. a.y \in 0 .. Height(a) - 1 /\ 0 \in 0 .. Width(a)
    <2>1. Width(a) \in Nat
      BY <1>2, RoomyIs DEF Inside
    <2>. QED  BY <1>2, <2>1, AtTheCursor
  <1>4. Inside(u) /\ Goes(a, u, {})
    BY <1>2, <1>3, PlacedIs
  <1>. HIDE DEF u
  <1>5. Goes(term, u, {})
    BY <1>2, <1>4, InsideIs, GoesOn
  <1>. QED  BY <1>1, <1>4, <1>5, GoesIs, SteppedQuietly

(* Backspace.                                                              *)
LEMMA BackspaceSteps ==
  ASSUME ScreenInv, Backspace
  PROVE  ScreenStep
  <1>1. Become(MoveBy(term, -1, 0)) /\ -1 \in Int /\ 0 \in Int
    BY DEF Backspace
  <1>. QED  BY <1>1, InsideIs, MoveByIs, GoesIs, SteppedQuietly

(* Index: the next line, in the same column.                               *)
LEMMA IndexSteps ==
  ASSUME ScreenInv, Index
  PROVE  ScreenStep
  <1>1. CASE Become(ScrollRegionUp(term, 1))
    <2>1. 1 \in Nat
      OBVIOUS
    <2>. QED  BY <1>1, <2>1, InsideIs, ScrollRegionUpIs, SteppedInRegion
                 DEF ScrollRegionUp
  <1>2. CASE Become(MoveBy(term, 0, 1))
    <2>1. 0 \in Int /\ 1 \in Int
      OBVIOUS
    <2>. QED  BY <1>2, <2>1, InsideIs, MoveByIs, GoesIs, SteppedQuietly
  <1>. QED  BY <1>1, <1>2 DEF Index

(* Reverse index: the line above, scrolling down at the top of the region. *)
LEMMA ReverseIndexSteps ==
  ASSUME ScreenInv, ReverseIndex
  PROVE  ScreenStep
  <1>1. CASE Become(ScrollRegionDown(term, 1))
    <2>1. 1 \in Nat
      OBVIOUS
    <2>. QED  BY <1>1, <2>1, InsideIs, ScrollRegionDownIs, GoesIs, SteppedQuietly
                 DEF ScrollRegionDown
  <1>2. CASE Become(MoveBy(term, 0, -1))
    <2>1. 0 \in Int /\ -1 \in Int
      OBVIOUS
    <2>. QED  BY <1>2, <2>1, InsideIs, MoveByIs, GoesIs, SteppedQuietly
  <1>. QED  BY <1>1, <1>2 DEF ReverseIndex

(* The cursor is positioned on the screen.                                 *)
LEMMA CursorPositionSteps ==
  ASSUME ScreenInv, CursorPosition
  PROVE  ScreenStep
  <1>1. PICK x \in 0 .. Active(term).cols, y \in 0 .. Active(term).rows - 1 : Become(MoveTo(term, x, y))
    BY DEF CursorPosition
  <1>2. x \in Int /\ y \in Int
    OBVIOUS
  <1>. QED  BY <1>1, <1>2, InsideIs, MoveToIs, GoesIs, SteppedQuietly

(* A terminal with another region, or another origin.                      *)
LEMMA RegionIs ==
  ASSUME NEW t, Inside(t), NEW u \in Terminals, u.screens = t.screens, u.active = t.active,
         u.top < u.bottom, u.bottom <= Height(t)
  PROVE  Evolved(t, u, {}) /\ u.active = t.active
  <1>1. Roomy(t)
    BY DEF Inside
  <1>2. Height(u) = Height(t) /\ Width(u) = Width(t)
    BY DEF Height, Width
  <1>3. Roomy(u)
    BY <1>1, <1>2 DEF Roomy
  <1>4. \A a \in Which : Evolves(t.screens[a], u.screens[a], {})
    BY <1>1, RoomyIs, Unevolved
  <1>. QED  BY <1>2, <1>3, <1>4 DEF Evolved

(* The cursor goes home after the region or the origin changed.            *)
LEMMA RegionMoves ==
  ASSUME NEW t, Inside(t), NEW u, Evolved(t, u, {}), u.active = t.active
  PROVE  /\ Inside(MoveTo(u, 0, 0)) /\ Evolved(t, MoveTo(u, 0, 0), {})
         /\ MoveTo(u, 0, 0).active = t.active
  <1>1. Roomy(u) /\ Roomy(t) /\ 0 \in Int /\ {} \cup {} = {}
    BY DEF Evolved, Inside
  <1>. DEFINE v == MoveTo(u, 0, 0)
  <1>2. Inside(v) /\ Goes(u, v, {})
    BY <1>1, MoveToIs
  <1>. HIDE DEF v
  <1>3. Evolved(u, v, {}) /\ v.active = u.active
    BY <1>2, GoesIs
  <1>4. Evolved(t, v, {} \cup {})
    BY <1>1, <1>3, EvolvedOn
  <1>. QED  BY <1>1, <1>2, <1>3, <1>4 DEF v

(* The margins are set, the first above the last.                          *)
LEMMA MarginsSteps ==
  ASSUME ScreenInv, SetTopAndBottomMargins
  PROVE  ScreenStep
  <1>1. PICK top \in 0 .. Active(term).rows - 1, last \in 0 .. Active(term).rows - 1 :
            top < last /\ Become(MoveTo([term EXCEPT !.top = top, !.bottom = last + 1], 0, 0))
    BY DEF SetTopAndBottomMargins
  <1>. DEFINE bottom == last + 1
              u == [term EXCEPT !.top = top, !.bottom = bottom]
  <1>2. top \in Nat /\ bottom \in Nat /\ top < bottom /\ bottom <= Height(term)
    <2>1. Active(term).rows = Height(term) /\ Height(term) \in Nat
      BY InsideIs
    <2>. QED  BY <1>1, <2>1
  <1>3. Become(MoveTo(u, 0, 0))
    BY <1>1
  <1>. HIDE DEF bottom
  <1>4. u = [term EXCEPT !.top = top, !.bottom = bottom]
    OBVIOUS
  <1>. HIDE DEF u
  <1>5. Evolved(term, u, {}) /\ u.active = term.active
    <2>1. /\ u \in Terminals /\ u.screens = term.screens /\ u.active = term.active
          /\ u.top = top /\ u.bottom = bottom
      BY <1>2, <1>4, InsideIs DEF Terminals
    <2>. QED  BY <1>2, <2>1, InsideIs, RegionIs
  <1>6. /\ Inside(MoveTo(u, 0, 0)) /\ Evolved(term, MoveTo(u, 0, 0), {})
        /\ MoveTo(u, 0, 0).active = term.active
    BY <1>5, InsideIs, RegionMoves
  <1>. QED  BY <1>3, <1>6, SteppedQuietly

(* The origin moves into the region, or out of it.                         *)
LEMMA OriginModeSteps ==
  ASSUME ScreenInv, OriginMode
  PROVE  ScreenStep
  <1>1. PICK on \in BOOLEAN : Become(MoveTo([term EXCEPT !.origin = on], 0, 0))
    BY DEF OriginMode
  <1>. DEFINE u == [term EXCEPT !.origin = on]
  <1>2. Become(MoveTo(u, 0, 0))
    BY <1>1
  <1>3. /\ u \in Terminals /\ u.screens = term.screens /\ u.active = term.active
        /\ u.top = term.top /\ u.bottom = term.bottom
    BY InsideIs DEF Terminals
  <1>. HIDE DEF u
  <1>4. Evolved(term, u, {}) /\ u.active = term.active
    BY <1>3, InsideIs, RoomyIs, RegionIs
  <1>5. /\ Inside(MoveTo(u, 0, 0)) /\ Evolved(term, MoveTo(u, 0, 0), {})
        /\ MoveTo(u, 0, 0).active = term.active
    BY <1>4, InsideIs, RegionMoves
  <1>. QED  BY <1>2, <1>5, SteppedQuietly

(* The region is scrolled.                                                 *)
LEMMA ScrollSteps ==
  ASSUME ScreenInv, Scroll
  PROVE  ScreenStep
  <1>1. 1 \in Nat
    OBVIOUS
  <1>2. CASE Become(ScrollRegionUp(term, 1))
    BY <1>1, <1>2, InsideIs, ScrollRegionUpIs, SteppedInRegion DEF ScrollRegionUp
  <1>3. CASE Become(ScrollRegionDown(term, 1))
    BY <1>1, <1>3, InsideIs, ScrollRegionDownIs, GoesIs, SteppedQuietly
       DEF ScrollRegionDown
  <1>. QED  BY <1>2, <1>3 DEF Scroll

(* Lines are inserted at the cursor, if it is in the region.               *)
LEMMA InsertLineSteps ==
  ASSUME ScreenInv, InsertLine
  PROVE  ScreenStep
  <1>1. /\ Become(OnActive(term, ScrollDown(Active(term), term.y, term.bottom, 1)))
        /\ term.y \in 0 .. term.bottom - 1 /\ 1 \in Nat
    BY InsideIs DEF InsertLine, InRegion
  <1>. QED  BY <1>1, InsideIs, ScrollRegionDownIs, GoesIs, SteppedQuietly

(* Lines are deleted at the cursor, if it is in the region.                *)
LEMMA DeleteLineSteps ==
  ASSUME ScreenInv, DeleteLine
  PROVE  ScreenStep
  <1>1. /\ Become(OnActive(term, ScrollUp(Active(term), term.y, term.bottom, 1)))
        /\ term.y \in 0 .. term.bottom - 1 /\ 1 \in Nat
    BY InsideIs DEF DeleteLine, InRegion
  <1>. QED  BY <1>1, InsideIs, ScrollRegionUpIs, SteppedInRegion

(* A line or the display is erased.                                        *)
LEMMA EraseSteps ==
  ASSUME ScreenInv, Erase
  PROVE  ScreenStep
  <1>1. CASE \E what \in {"end", "start", "all"} : Become(EraseInLine(term, what))
    <2>1. PICK what \in {"end", "start", "all"} : Become(EraseInLine(term, what))
      BY <1>1
    <2>. QED  BY <2>1, InsideIs, EraseInLineIs, GoesIs, SteppedQuietly
  <1>2. CASE \E what \in {"end", "start", "all", "scrollback"} : Become(EraseInDisplay(term, what))
    <2>1. PICK what \in {"end", "start", "all", "scrollback"} : Become(EraseInDisplay(term, what))
      BY <1>2
    <2>2. Inside(EraseInDisplay(term, what)) /\ Goes(term, EraseInDisplay(term, what), DisplayBut(what))
      BY InsideIs, EraseInDisplayIs
    <2>3. Goes(term, EraseInDisplay(term, what), {"erase"})
      BY <2>2, EvolvedMore DEF Goes, DisplayBut
    <2>4. Erases
      BY DEF Erases
    <2>. QED  BY <2>1, <2>2, <2>3, <2>4, SteppedErasing
  <1>. QED  BY <1>1, <1>2 DEF Erase

(* The cursor is saved or restored.                                        *)
LEMMA SaveOrRestoreSteps ==
  ASSUME ScreenInv, SaveOrRestore
  PROVE  ScreenStep
  <1>1. CASE Become(SaveCursor(term))
    BY <1>1, InsideIs, SaveCursorIs, GoesIs, SteppedQuietly
  <1>2. CASE Become(RestoreCursor(term))
    BY <1>2, InsideIs, RestoreCursorIs, GoesIs, SteppedQuietly
  <1>. QED  BY <1>1, <1>2 DEF SaveOrRestore

(* Scrollback is erased by the user.                                       *)
LEMMA ScrollbackOnlySteps ==
  ASSUME ScreenInv, ScrollbackOnly
  PROVE  ScreenStep
  <1>1. Become(OnActive(term, EraseScrollback(Active(term)))) /\ Erases
    BY DEF ScrollbackOnly, Erases
  <1>. QED  BY <1>1, InsideIs, EraseScrollbackIs, SteppedErasing

(* Scrollback and all rows but the cursor's are erased by the user.        *)
LEMMA ScrollbackAndViewportSteps ==
  ASSUME ScreenInv, ScrollbackAndViewport
  PROVE  ScreenStep
  <1>. DEFINE u == EraseAllButCursorRow(term)
              but == {"erase", "silent"}
  <1>1. Become(u) /\ Erases /\ ReportStep
    BY DEF ScrollbackAndViewport, Erases, ReportStep
  <1>2. Inside(u) /\ Goes(term, u, but)
    BY InsideIs, EraseAllButCursorRowIs
  <1>. HIDE DEF u, but
  <1>3. ScreenInv'
    BY <1>1, <1>2, BecomesIs
  <1>4. StaysOn(term.screens["primary"], term'.screens["primary"], TRUE)
    <2>1. TRUE \in BOOLEAN /\ ("erase" \in but => TRUE)
      OBVIOUS
    <2>. QED  BY <1>1, <1>2, <2>1, GoesIs, StepStays
  <1>. QED  BY <1>1, <1>3, <1>4 DEF StaysStep, ScreenStep

------------------------------------------------------------------------------
(* The steps that switch screens, or resize them.                          *)

(* A step that may change the screen that is shown, and tells of it.       *)
LEMMA SteppedTold ==
  ASSUME ScreenInv, NEW u, Become(u), Inside(u), NEW but, Evolved(term, u, but),
         "erase" \in but => Erases,
         Told(Active(term), Active(u)) \/ HasLongAlternate \/ SwitchesWithoutErasing
  PROVE  ScreenStep
  <1>1. ScreenInv' /\ unreported' = Unreported(term, u)
    BY BecomesIs
  <1>2. StaysStep
    <2>. DEFINE e == "erase" \in but
    <2>1. e \in BOOLEAN /\ ("erase" \in but => e) /\ (e => Erases)
      OBVIOUS
    <2>. HIDE DEF e
    <2>2. StaysOn(term.screens["primary"], term'.screens["primary"], e)
      BY <2>1, StepStays
    <2>. QED  BY <2>1, <2>2 DEF StaysStep
  <1>3. ReportStep
    BY <1>1, NoneUnreported DEF ReportStep
  <1>. QED  BY <1>1, <1>2, <1>3 DEF ScreenStep

(* The alternate screen is entered.                                        *)
LEMMA EnterAlternateSteps ==
  ASSUME ScreenInv, EnterAlternate
  PROVE  ScreenStep
  <1>. DEFINE u == Activate(term, "alt")
  <1>1. Become(u) /\ SwitchesWithoutErasing /\ "alt" \in Which
    BY DEF EnterAlternate, SwitchesWithoutErasing, Which
  <1>2. Inside(u) /\ Evolved(term, u, {})
    BY <1>1, InsideIs, ActivateIs
  <1>3. "erase" \notin {}
    OBVIOUS
  <1>. HIDE DEF u
  <1>. QED  BY <1>1, <1>2, <1>3, SteppedTold

(* The primary screen comes back in the place of an alternate one that has *)
(* as many lines as it shows.                                              *)
LEMMA BackTold ==
  ASSUME ScreenInv, NEW u, Roomy(u), u.active = "primary", term.active = "alt",
         Height(u) = Height(term),
         \A i \in 1 .. Height(term) : u.screens["primary"].lines[i].changed
  PROVE  Told(Active(term), Active(u)) \/ HasLongAlternate
  <1>. DEFINE s == Active(term)
              p == Active(u)
              n == Height(term)
  <1>1. /\ Roomy(term) /\ n \in Nat /\ s = term.screens["alt"] /\ p = u.screens["primary"]
        /\ s \in Screens /\ p \in Screens /\ Len(s.lines) >= s.rows /\ s.rows = n /\ s.offset = 0
    BY InsideIs, RoomyIs DEF Roomy, Active
  <1>2. CASE Len(s.lines) = n
    <2>1. \A i \in 1 .. Len(p.lines) : i <= n => p.lines[i].changed
      <3>1. \A i \in 1 .. Len(p.lines) : i <= n => i \in 1 .. n
        BY <1>1, ScreenIs
      <3>. QED  BY <1>1, <3>1
    <2>. HIDE DEF s, p, n
    <2>2. Told(s, p)
      BY <1>1, <1>2, <2>1, MarkedTold
    <2>. QED  BY <2>2 DEF s, p
  <1>3. CASE Len(s.lines) # n
    <2>1. Len(term.screens.alt.lines) > term.screens.alt.rows
      BY <1>1, <1>3, ScreenIs
    <2>. QED  BY <2>1 DEF HasLongAlternate
  <1>. QED  BY <1>2, <1>3

(* It is left.                                                             *)
LEMMA LeaveAlternateSteps ==
  ASSUME ScreenInv, LeaveAlternate
  PROVE  ScreenStep
  <1>1. term.active = "alt" /\ "primary" \in Which /\ "erase" \notin {} /\ {} \cup {} = {}
    BY DEF LeaveAlternate, Which
  <1>2. PICK t \in {term, EraseInDisplay(term, "all")} : Become(Activate(t, "primary"))
    BY DEF LeaveAlternate
  <1>3. Inside(t) /\ Evolved(term, t, {})
    <2>1. Inside(EraseInDisplay(term, "all")) /\ Goes(term, EraseInDisplay(term, "all"), {})
      BY InsideIs, EraseInDisplayIs DEF DisplayBut
    <2>2. Evolved(term, term, {})
      BY InsideIs, RoomyIs, Unevolved DEF Evolved
    <2>. QED  BY <2>1, <2>2, InsideIs, GoesIs
  <1>4. Roomy(t) /\ Height(t) = Height(term)
    BY <1>3 DEF Inside, Evolved
  <1>. DEFINE u == Activate(t, "primary")
  <1>5. /\ Evolved(t, u, {}) /\ u.active = "primary" /\ Inside(u)
        /\ \A i \in 1 .. Height(t) : u.screens["primary"].lines[i].changed
    BY <1>1, <1>3, <1>4, ActivateIs
  <1>6. Become(u)
    BY <1>2
  <1>. HIDE DEF u
  <1>7. Evolved(term, u, {})
    <2>1. Evolved(term, u, {} \cup {})
      BY <1>3, <1>5, InsideIs, EvolvedOn
    <2>. QED  BY <1>1, <2>1
  <1>8. Told(Active(term), Active(u)) \/ HasLongAlternate
    BY <1>1, <1>4, <1>5, <1>7, BackTold DEF Evolved
  <1>. QED  BY <1>1, <1>5, <1>6, <1>7, <1>8, SteppedTold

(* It is left, and the cursor restored.                                    *)
LEMMA LeaveAndRestoreSteps ==
  ASSUME ScreenInv, LeaveAndRestore
  PROVE  ScreenStep
  <1>. DEFINE a == Activate(term, "primary")
              u == RestoreCursor(a)
  <1>1. term.active = "alt" /\ "primary" \in Which /\ "erase" \notin {} /\ {} \cup {} = {} /\ Become(u)
    BY DEF LeaveAndRestore, Which
  <1>2. /\ Evolved(term, a, {}) /\ a.active = "primary"
        /\ \A i \in 1 .. Height(term) : a.screens["primary"].lines[i].changed
    BY <1>1, InsideIs, ActivateIs
  <1>. HIDE DEF a
  <1>3. Inside(u) /\ Goes(a, u, {}) /\ SameScreens(a, u)
    BY <1>2, RestoreCursorIs DEF Evolved
  <1>. HIDE DEF u
  <1>4. Roomy(u) /\ u.active = "primary" /\ u.screens = a.screens
    BY <1>2, <1>3 DEF SameScreens, SameRegion, Inside
  <1>5. Evolved(term, u, {})
    <2>1. Evolved(term, u, {} \cup {})
      BY <1>2, <1>3, InsideIs, GoesIs, EvolvedOn
    <2>. QED  BY <1>1, <2>1
  <1>6. Told(Active(term), Active(u)) \/ HasLongAlternate
    BY <1>1, <1>2, <1>4, <1>5, BackTold DEF Evolved
  <1>. QED  BY <1>1, <1>3, <1>5, <1>6, SteppedTold

(* It is cleared and entered, with the cursor saved.                       *)
LEMMA ClearAndEnterSteps ==
  ASSUME ScreenInv, ClearAndEnterAlternate
  PROVE  ScreenStep
  <1>. DEFINE a == SaveCursor(term)
              b == Activate(a, "alt")
              c == MoveTo(b, 0, 0)
              u == EraseInDisplay(c, "all")
              h == Height(term)
  <1>1. /\ "alt" \in Which /\ "erase" \notin {} /\ {} \cup {} = {} /\ 0 \in Int /\ Become(u)
    BY DEF ClearAndEnterAlternate, Which
  <1>2. Inside(a) /\ Goes(term, a, {}) /\ a.screens["alt"].lines = term.screens["alt"].lines
    BY InsideIs, SaveCursorIs
  <1>. HIDE DEF a
  <1>3. Roomy(a) /\ Evolved(term, a, {}) /\ Height(a) = h
    BY <1>2, GoesIs
  <1>4. /\ Evolved(a, b, {}) /\ b.active = "alt" /\ Inside(b)
        /\ b.screens["alt"] = a.screens["alt"]
    BY <1>1, <1>2, <1>3, ActivateIs
  <1>. HIDE DEF b
  <1>5. Inside(c) /\ Goes(b, c, {}) /\ SameScreens(b, c)
    BY <1>1, <1>4, MoveToIs DEF Inside
  <1>. HIDE DEF c
  <1>6. /\ Roomy(c) /\ c.active = "alt" /\ c.screens["alt"].lines = term.screens["alt"].lines
        /\ Height(c) = h /\ Evolved(b, c, {})
    BY <1>2, <1>3, <1>4, <1>5, GoesIs DEF SameScreens, SameRegion, Evolved
  <1>7. Inside(u) /\ Goes(c, u, {})
    BY <1>5, EraseInDisplayIs DEF DisplayBut
  <1>8. Active(u) = Erased(Active(c), 0, h) /\ u.active = "alt"
    <2>1. Active(c).rows = h /\ h \in 0 .. h /\ 0 \in 0 .. h
      <3>. HIDE DEF h
      <3>1. Active(c).rows = h /\ h \in Nat
        BY <1>6, RoomyIs
      <3>. QED  BY <3>1
    <2>2. u = EraseRows(c, 0, h)
      BY <2>1 DEF EraseInDisplay
    <2>. HIDE DEF u, h
    <2>3. Active(u) = Erased(Active(c), 0, h)
      BY <1>6, <2>1, <2>2, EraseRowsIs
    <2>. QED  BY <1>6, <1>7, <2>3 DEF Goes, SameRegion
  <1>. HIDE DEF u
  <1>9. Evolved(term, u, {})
    <2>1. Evolved(term, b, {} \cup {})
      BY <1>3, <1>4, InsideIs, EvolvedOn
    <2>2. Evolved(term, c, {} \cup {})
      BY <1>1, <1>6, <2>1, InsideIs, EvolvedOn
    <2>3. Evolved(term, u, {} \cup {})
      BY <1>1, <1>7, <2>2, InsideIs, GoesIs, EvolvedOn
    <2>. QED  BY <1>1, <2>3
  <1>10. Told(Active(term), Active(u)) \/ HasLongAlternate
    <2>. DEFINE s == Active(term)
                q == Active(c)
                p == Active(u)
                n == Len(q.lines)
    <2>1. /\ q \in Screens /\ p \in Screens /\ s \in Screens /\ q.rows = h /\ n \in Nat /\ n >= q.rows
          /\ q.lines = term.screens["alt"].lines /\ p = Erased(q, 0, h)
          /\ h \in Nat /\ term.screens["alt"].rows = h
      <3>1. q \in Screens /\ n \in Nat
        BY <1>6, RoomyIs, ScreenIs
      <3>2. p \in Screens
        BY <1>7, RoomyIs DEF Inside
      <3>3. s \in Screens /\ h \in Nat /\ term.screens["alt"].rows = h
        BY <1>1, InsideIs, RoomyIs
      <3>4. q.rows = h /\ n >= q.rows /\ q.lines = term.screens["alt"].lines
        BY <1>6, RoomyIs DEF Active
      <3>. QED  BY <1>8, <3>1, <3>2, <3>3, <3>4
    <2>. HIDE DEF s, p, q, h
    <2>2. CASE n = h
      <3>1. 0 \in 0 .. q.rows /\ h \in 0 .. q.rows
        BY <2>1
      <3>2. /\ Len(p.lines) = n
            /\ \A i \in 1 .. n : i - 1 \in n - q.rows + 0 .. n - q.rows + h - 1 => p.lines[i].changed
        BY <2>1, <3>1, ErasedIs
      <3>3. \A i \in 1 .. n : i - 1 \in n - q.rows + 0 .. n - q.rows + h - 1
        <4>. HIDE DEF n
        <4>. QED  BY <2>1, <2>2
      <3>4. \A i \in 1 .. Len(p.lines) : i <= n => p.lines[i].changed
        BY <3>2, <3>3
      <3>5. Told(s, p)
        <4>. HIDE DEF n
        <4>1. ~ (n < Len(p.lines))
          BY <2>1, <3>2
        <4>. QED  BY <2>1, <3>4, <4>1, MarkedTold
      <3>. QED  BY <3>5 DEF s, p
    <2>3. CASE n # h
      <3>1. n > h
        <4>. HIDE DEF n
        <4>. QED  BY <2>1, <2>3
      <3>2. Len(term.screens.alt.lines) > term.screens.alt.rows
        BY <2>1, <3>1
      <3>3. term'.active = "alt"
        BY <1>1, <1>7, <1>8, BecomesIs
      <3>. QED  BY <3>2, <3>3 DEF HasLongAlternate
    <2>. QED  BY <2>2, <2>3
  <1>. QED  BY <1>1, <1>7, <1>9, <1>10, SteppedTold

(* The terminal is reset.                                                  *)
LEMMA FullResetSteps ==
  ASSUME ScreenInv, FullReset
  PROVE  ScreenStep
  <1>. DEFINE u == Reset(term)
  <1>1. Become(u) /\ Erases
    BY DEF FullReset, Erases
  <1>2. /\ Inside(u) /\ Evolved(term, u, {"erase"}) /\ u.active = "primary"
        /\ \A i \in 1 .. Len(u.screens["primary"].lines) : u.screens["primary"].lines[i].changed
    BY InsideIs, ResetIs
  <1>. HIDE DEF u
  <1>3. Told(Active(term), Active(u))
    <2>. DEFINE s == Active(term)
                p == Active(u)
                n == Len(p.lines)
    <2>1. s \in Screens /\ p \in Screens /\ n \in Nat /\ p = u.screens["primary"]
      BY <1>2, InsideIs, RoomyIs, ScreenIs DEF Inside, Active
    <2>2. \A i \in 1 .. Len(p.lines) : i <= n => p.lines[i].changed
      BY <1>2, <2>1
    <2>3. ~ (n < Len(p.lines))
      BY <2>1
    <2>. HIDE DEF s, p, n
    <2>4. Told(s, p)
      BY <2>1, <2>2, <2>3, MarkedTold
    <2>. QED  BY <2>4 DEF s, p
  <1>. QED  BY <1>1, <1>2, <1>3, SteppedTold

(* The window is resized.                                                  *)
LEMMA ResizeWindowSteps ==
  ASSUME ScreenAssumption, ScreenInv, ResizeWindow
  PROVE  ScreenStep
  <1>1. PICK size \in Sizes : Become(Resized(term, size))
    BY DEF ResizeWindow
  <1>2. size \in Extents
    BY DEF ScreenAssumption, Extents
  <1>. DEFINE u == Resized(term, size)
  <1>3. IsResized(term, u, size) /\ Become(u)
    BY <1>1, <1>2, InsideIs, ResizedIs
  <1>. HIDE DEF u
  <1>4. Inside(u) /\ u.active = term.active /\ \A a \in Which : Sized(term.screens[a], u.screens[a], size)
    BY <1>3 DEF IsResized
  <1>5. /\ ScreenInv' /\ IsSettled(u, term') /\ unreported' = Unreported(term, u)
        /\ Roomy(term) /\ Roomy(u)
    BY <1>3, <1>4, BecomesIs
  <1>6. StaysOn(term.screens["primary"], term'.screens["primary"], FALSE)
    <2>. DEFINE s == term.screens["primary"]
                p == u.screens["primary"]
                q == term'.screens["primary"]
    <2>1. /\ s \in Screens /\ Len(s.lines) >= s.rows /\ Sized(s, p, size) /\ IsSettle(p, q)
          /\ FALSE \in BOOLEAN
      BY <1>4, <1>5, RoomyIs DEF IsSettled, Which
    <2>. HIDE DEF s, p, q
    <2>2. StaysOn(s, q, FALSE)
      BY <2>1, SizedStays
    <2>. QED  BY <2>2 DEF s, q
  <1>7. Told(Active(term), Active(u))
    <2>1. /\ Active(term) = term.screens[term.active] /\ Active(u) = u.screens[term.active]
          /\ Active(term) \in Screens /\ Active(u) \in Screens /\ term.active \in Which
      BY <1>4, <1>5, RoomyIs
    <2>2. Sized(Active(term), Active(u), size)
      BY <1>4, <2>1
    <2>. QED  BY <2>1, <2>2, SizedTold
  <1>8. unreported' = {}
    BY <1>5, <1>7, NoneUnreported
  <1>. QED  BY <1>5, <1>6, <1>8 DEF ScreenStep, StaysStep, ReportStep

(* The configuration is loaded anew, with another scrollback size.         *)
LEMMA ReloadSteps ==
  ASSUME ScreenAssumption, ScreenInv, Reload
  PROVE  ScreenStep
  <1>1. scrollback' \in Nat /\ unreported' = {} /\ term' = term
    BY DEF Reload, ScreenAssumption
  <1>2. ScreenInv'
    BY <1>1 DEF ScreenInv
  <1>3. StaysOn(term.screens["primary"], term.screens["primary"], FALSE)
    <2>1. /\ term.screens["primary"] \in Screens
          /\ Len(term.screens["primary"].lines) >= term.screens["primary"].rows
          /\ FALSE \in BOOLEAN
      BY InsideIs, RoomyIs
    <2>. QED  BY <2>1, SameStays
  <1>4. StaysOn(term.screens["primary"], term'.screens["primary"], FALSE)
    BY <1>1, <1>3
  <1>. QED  BY <1>1, <1>2, <1>4 DEF ScreenStep, StaysStep, ReportStep

(* Every step keeps the invariant, keeps the rows in scrollback and        *)
(* reports what it changes.                                                *)
LEMMA NextSteps ==
  ASSUME ScreenAssumption, ScreenInv, ScreenNext
  PROVE  ScreenStep
  <1>1. CASE Output
    BY <1>1, FlushPrintSteps, LineFeedSteps, CarriageReturnSteps, BackspaceSteps,
       IndexSteps,
       ReverseIndexSteps, CursorPositionSteps, MarginsSteps, OriginModeSteps, ScrollSteps,
       InsertLineSteps, DeleteLineSteps, EraseSteps, SaveOrRestoreSteps, FullResetSteps,
       EnterAlternateSteps, LeaveAlternateSteps, ClearAndEnterSteps, LeaveAndRestoreSteps
       DEF Output
  <1>. QED  BY <1>1, ResizeWindowSteps, ScrollbackOnlySteps,
               ScrollbackAndViewportSteps,
               ReloadSteps DEF ScreenNext

------------------------------------------------------------------------------
(* The theorems about the screens.                                         *)

(* It holds at first.                                                      *)
LEMMA InitInside ==
  ASSUME ScreenAssumption, ScreenInit
  PROVE  ScreenInv
  <1>1. PICK size \in Sizes : term = Settled(NewTerminal(size))
    BY DEF ScreenInit
  <1>2. size \in Extents
    BY DEF ScreenAssumption, Extents
  <1>3. Inside(NewTerminal(size))
    BY <1>2, NewTerminalIs
  <1>4. IsSettled(NewTerminal(size), Settled(NewTerminal(size)))
    BY <1>3, SettledIs DEF Inside
  <1>5. Inside(term)
    BY <1>1, <1>3, <1>4 DEF IsSettled
  <1>6. scrollback \in Nat
    BY DEF ScreenInit, ScreenAssumption
  <1>. QED  BY <1>5, <1>6 DEF ScreenInv

(* For any sequence of output, resizes and reloads, whatever the sizes and *)
(* scrollback: both screens have the size of the pane and at least as many *)
(* lines as rows, the alternate one no stable offset, and the cursor and   *)
(* the margins are on the screen (wezterm-term, screen.rs and              *)
(* terminalstate/mod.rs).                                                  *)
THEOREM StaysInside ==
  ASSUME ScreenAssumption PROVE ScreenSpec => []ScreenInv
  <1>1. ScreenInit => ScreenInv
    BY InitInside
  <1>2. ScreenInv /\ [ScreenNext]_screenVars => ScreenInv'
    <2>1. ASSUME ScreenInv, ScreenNext PROVE ScreenInv'
      BY <2>1, NextSteps DEF ScreenStep
    <2>2. ASSUME ScreenInv, UNCHANGED screenVars PROVE ScreenInv'
      BY <2>2 DEF ScreenInv, screenVars
    <2>. QED  BY <2>1, <2>2
  <1>. QED  BY <1>1, <1>2, PTL DEF ScreenSpec

(* Cursor, margins and rows are within the screen, so that no index of a   *)
(* row is out of its lines (screen.rs, line_mut and phys_row).             *)
THEOREM RowsExistAlways ==
  ASSUME ScreenAssumption PROVE ScreenSpec => []RowsExist
  <1>1. ScreenInv => RowsExist
    <2>1. SUFFICES ASSUME ScreenInv PROVE RowsExist
      OBVIOUS
    <2>2. \A which \in {"primary", "alt"} :
            LET s == term.screens[which]
            IN /\ Len(s.lines) >= s.rows
               /\ s.rows = Active(term).rows /\ s.cols = Active(term).cols
      BY <2>1, InsideIs, RoomyIs DEF Which
    <2>3. term.y \in 0 .. Active(term).rows - 1
      BY <2>1, InsideIs
    <2>4. term.x \in 0 .. Active(term).cols
      <3>1. term.x <= Width(term)
        BY <2>1 DEF ScreenInv, Inside
      <3>. QED  BY <2>1, <3>1, InsideIs
    <2>5. 0 <= term.top /\ term.top < term.bottom /\ term.bottom <= Active(term).rows
      <3>1. /\ term.top \in Nat /\ term.top < term.bottom /\ term.bottom <= Height(term)
            /\ Active(term).rows = Height(term)
        BY <2>1, InsideIs, RoomyIs
      <3>. QED  BY <3>1
    <2>. QED  BY <2>2, <2>3, <2>4, <2>5 DEF RowsExist
  <1>. QED  BY <1>1, StaysInside, PTL

(* In every state that is reached, scroll_up and scroll_down move the rows *)
(* of the region and leave the others on the screen as they are.           *)
THEOREM ScrollMovesTheRegionAlways ==
  ASSUME ScreenAssumption PROVE ScreenSpec => []ScrollMovesTheRegion
  <1>1. ScreenInv => ScrollMovesTheRegion
    <2>1. SUFFICES ASSUME ScreenInv, NEW top \in {term.top} \cup {y \in {term.y} : InRegion}, NEW n \in 1 .. 2
                   PROVE  /\ Shown(ScrollUp(Active(term), top, term.bottom, n))
                                = Moved(Shown(Active(term)), top, term.bottom, n)
                          /\ Shown(ScrollDown(Active(term), top, term.bottom, n))
                                = MovedBack(Shown(Active(term)), top, term.bottom, n)
      BY DEF ScrollMovesTheRegion
    <2>2. top \in 0 .. term.bottom - 1
      <3>1. /\ term.top \in 0 .. term.bottom - 1 /\ term.y \in 0 .. Height(term) - 1
            /\ Height(term) \in Nat
        BY <2>1, InsideIs
      <3>2. top = term.top \/ (top = term.y /\ InRegion)
        BY <2>1
      <3>3. InRegion => term.y \in term.top .. term.bottom - 1
        BY DEF InRegion
      <3>. QED  BY <3>1, <3>2, <3>3
    <2>3. /\ Active(term) \in Screens /\ Len(Active(term).lines) >= Active(term).rows
          /\ term.bottom \in 1 .. Active(term).rows /\ scrollback \in Nat /\ n \in Nat
      BY <2>1, InsideIs, RoomyIs
    <2>. QED  BY <2>2, <2>3, ScrollUpMoves, ScrollDownMoves
  <1>. QED  BY <1>1, StaysInside, PTL

(* A row in scrollback keeps its stable index and its content until a full *)
(* scrollback drops it, scrollback is erased or the pane is resized        *)
(* (screen.rs, stable_row_index_offset).                                   *)
THEOREM ScrollbackStaysAlways ==
  ASSUME ScreenAssumption PROVE ScreenSpec => ScrollbackStays
  <1>. DEFINE P == LET s == term.screens.primary
                       u == term'.screens.primary
                   IN /\ u.offset >= s.offset
                      /\ \/ <<u.rows, u.cols>> # <<s.rows, s.cols>>
                         \/ \A i \in 1 .. Len(s.lines) - s.rows :
                            LET r == StableRow(s, i)
                            IN IF r \in StableRows(u) THEN AtStable(u, r).cells = s.lines[i].cells
                               ELSE Len(u.lines) = u.rows + scrollback \/ Erases
  <1>1. ScreenInv /\ [ScreenNext]_screenVars => [P]_screenVars
    <2>1. SUFFICES ASSUME ScreenInv, ScreenNext PROVE P
      OBVIOUS
    <2>2. StaysStep
      BY <2>1, NextSteps DEF ScreenStep
    <2>3. PICK erased \in BOOLEAN :
              /\ StaysOn(term.screens["primary"], term'.screens["primary"], erased)
              /\ erased => Erases
      BY <2>2 DEF StaysStep
    <2>. QED  BY <2>3 DEF StaysOn
  <1>2. ScreenSpec => [][P]_screenVars
    <2>. HIDE DEF P
    <2>. QED  BY <1>1, StaysInside, PTL DEF ScreenSpec
  <1>. QED  BY <1>2 DEF ScrollbackStays

(* A row whose content changes has a sequence number that says so when the *)
(* batch is over, the cases that the property excludes aside (screen.rs,   *)
(* get_changed_stable_rows).                                               *)
THEOREM ChangesAreReportedAlways ==
  ASSUME ScreenAssumption PROVE ScreenSpec => ChangesAreReported
  <1>1. ScreenInv /\ [ScreenNext]_screenVars => [ReportStep]_screenVars
    BY NextSteps DEF ScreenStep
  <1>2. ScreenSpec => [][ReportStep]_screenVars
    BY <1>1, StaysInside, PTL DEF ScreenSpec
  <1>. QED  BY <1>2 DEF ChangesAreReported, ReportStep
==============================================================================
