-------------------------- MODULE ClientDomainProofs --------------------------
(***************************************************************************)
(* What a client mirrors and keeps.  First ClientDomain for any bounds: no *)
(* pane that lives on the server is killed unless the user closed it or    *)
(* its tab.  Then BlobLeases for any threads, contents, handles and        *)
(* failures of the disk.                                                   *)
(***************************************************************************)
EXTENDS ClientDomain, BlobLeases, FiniteSetTheorems, SequenceTheorems,
        WellFoundedInduction, TLAPS

(***************************************************************************)
(* A kill is asked of the server by a task that runs long after the pane   *)
(* was taken for dead or closed, and in between lists, pushes and replies  *)
(* reshape the client.  The invariant (KillsAreDue) therefore speaks of    *)
(* every message, task and request that is under way: a pane that one of   *)
(* them counts as removed is out of the server's tabs for good (GoneOn),   *)
(* and what a removal pass took may be killed at any later time            *)
(* (Doomed).  Both only grow.  The operators on the client are shown to    *)
(* lead from sound clients to sound ones (Becoming) one by one, and the    *)
(* actions from them.  The recursive functions of the module are unfolded  *)
(* by an induction over sets (UpTo), one proof that they exist each.       *)
(***************************************************************************)

(* Induction over an interval, as a set.                                   *)
LEMMA UpTo ==
  ASSUME NEW n \in Nat, NEW S, 0 \in S, \A i \in 1 .. n : i - 1 \in S => i \in S
  PROVE  \A i \in 0 .. n : i \in S
  <1>. DEFINE R == OpToRel(<, Nat)
              T == {i \in 0 .. n : i \notin S}
  <1>1. IsWellFoundedOn(R, Nat)
    BY NatLessThanWellFounded
  <1>2. \A i, j \in Nat : <<i, j>> \in R <=> i < j
    BY DEF OpToRel
  <1>. HIDE DEF R
  <1>3. SUFFICES ASSUME T # {} PROVE FALSE
    OBVIOUS
  <1>4. PICK i \in T : \A j \in T : ~ (<<j, i>> \in R)
    <2>1. T \in SUBSET Nat
      OBVIOUS
    <2>. HIDE DEF T
    <2>. QED  BY <1>1, <1>3, <2>1, WFMin
  <1>5. i \in 1 .. n /\ i - 1 \in 0 .. n /\ i \notin S
    BY <1>4
  <1>6. <<i - 1, i>> \in R
    BY <1>2, <1>5
  <1>7. i - 1 \notin T
    BY <1>4, <1>6
  <1>. QED  BY <1>5, <1>7

LEMMA RangeOfAppend ==
  ASSUME NEW S, NEW s \in Seq(S), NEW x \in S
  PROVE  Append(s, x) \in Seq(S) /\ Range(Append(s, x)) = Range(s) \cup {x}
  <1>. DEFINE t == Append(s, x)
  <1>1. /\ t \in Seq(S) /\ Len(t) = Len(s) + 1 /\ DOMAIN t = 1 .. Len(t)
        /\ \A i \in 1 .. Len(s) : t[i] = s[i]
        /\ t[Len(t)] = x /\ Len(s) \in Nat /\ DOMAIN s = 1 .. Len(s)
    BY AppendProperties, LenProperties
  <1>. HIDE DEF t
  <1>2. Len(t) \in DOMAIN t /\ \A i \in DOMAIN t : i = Len(t) \/ i \in DOMAIN s
    BY <1>1
  <1>3. \A i \in DOMAIN s : i \in DOMAIN t
    BY <1>1
  <1>. QED  BY <1>1, <1>2, <1>3 DEF Range, t

(* What a sequence loses, and what it keeps.                               *)
LEMMA RemainderRecursion ==
  ASSUME NEW s, NEW gone, Len(s) \in Nat
  PROVE  \E a : /\ \A n \in 0 .. Len(s) :
                       a[n] = IF n = 0 THEN << >>
                              ELSE IF s[n] \in gone THEN a[n - 1]
                              ELSE Append(a[n - 1], s[n])
                /\ Remainder(s, gone) = a[Len(s)]
  <1>. DEFINE L == Len(s)
              Body(f, n) == IF n = 0 THEN << >>
                            ELSE IF s[n] \in gone THEN f[n - 1]
                            ELSE Append(f[n - 1], s[n])
              R(f) == f = [n \in 0 .. L |-> Body(f, n)]
              P == {k \in 0 .. L : \E f : f = [n \in 0 .. k |-> Body(f, n)]}
  <1>1. 0 \in P
    <2>. DEFINE f == [n \in 0 .. 0 |-> << >>]
    <2>1. \A n \in 0 .. 0 : Body(f, n) = << >>
      OBVIOUS
    <2>. HIDE DEF Body
    <2>2. f = [n \in 0 .. 0 |-> Body(f, n)]
      BY <2>1
    <2>. HIDE DEF f
    <2>3. 0 \in 0 .. L
      OBVIOUS
    <2>. QED  BY <2>2, <2>3
  <1>2. ASSUME NEW k \in 1 .. L, k - 1 \in P PROVE k \in P
    <2>1. PICK f : f = [n \in 0 .. k - 1 |-> Body(f, n)]
      BY <1>2
    <2>. DEFINE g == [n \in 0 .. k |-> IF n = k THEN Body(f, k) ELSE f[n]]
    <2>2. \A n \in 0 .. k : g[n] = Body(g, n)
      <3>. TAKE n \in 0 .. k
      <3>1. CASE n = 0
        BY <2>1, <3>1
      <3>2. CASE n # 0
        <4>1. n - 1 \in 0 .. k - 1 /\ g[n - 1] = f[n - 1]
          BY <3>2
        <4>2. Body(g, n) = Body(f, n)
          BY <4>1, <3>2
        <4>3. g[n] = Body(f, n)
          <5>. HIDE DEF Body
          <5>1. n # k => n \in 0 .. k - 1 /\ f[n] = Body(f, n)
            BY <2>1
          <5>. QED  BY <5>1
        <4>. QED  BY <4>2, <4>3
      <3>. QED  BY <3>1, <3>2
    <2>3. g = [n \in 0 .. k |-> Body(g, n)]
      <3>. HIDE DEF Body
      <3>. QED  BY <2>2
    <2>. HIDE DEF g, Body
    <2>. QED  BY <2>3
  <1>3. \E f : R(f)
    <2>. HIDE DEF P, Body
    <2>1. \A i \in 1 .. L : i - 1 \in P => i \in P
      BY <1>2
    <2>2. \A i \in 0 .. L : i \in P
      BY <1>1, <2>1, UpTo
    <2>3. L \in P
      BY <2>2
    <2>. QED  BY <2>3 DEF P
  <1>4. Remainder(s, gone) = (CHOOSE f : R(f))[L]
    BY DEF Remainder
  <1>5. R(CHOOSE f : R(f))
    <2>. HIDE DEF R
    <2>. QED  BY <1>3
  <1>6. \E f : R(f) /\ Remainder(s, gone) = f[L]
    <2>. HIDE DEF R
    <2>. QED  BY <1>4, <1>5
  <1>. QED  BY <1>6

LEMMA RemainderOf ==
  ASSUME NEW S, NEW s \in Seq(S), NEW gone
  PROVE  Remainder(s, gone) \in Seq(S) /\ Range(Remainder(s, gone)) = Range(s) \ gone
  <1>. DEFINE L == Len(s)
  <1>1. L \in Nat /\ DOMAIN s = 1 .. L /\ \A i \in 1 .. L : s[i] \in S
    BY LenProperties, ElementOfSeq
  <1>2. PICK a : /\ \A n \in 0 .. L :
                       a[n] = IF n = 0 THEN << >>
                              ELSE IF s[n] \in gone THEN a[n - 1]
                              ELSE Append(a[n - 1], s[n])
                 /\ Remainder(s, gone) = a[L]
    BY <1>1, RemainderRecursion
  <1>. DEFINE Kept(n) == {s[i] : i \in 1 .. n} \ gone
              P == {n \in 0 .. L : a[n] \in Seq(S) /\ Range(a[n]) = Kept(n)}
  <1>3. 0 \in P
    <2>1. a[0] = << >>
      BY <1>1, <1>2
    <2>2. << >> \in Seq(S) /\ Range(<< >>) = {} /\ Kept(0) = {}
      BY EmptySeq DEF Range
    <2>3. 0 \in 0 .. L
      BY <1>1
    <2>. QED  BY <2>1, <2>2, <2>3
  <1>4. ASSUME NEW n \in 1 .. L, n - 1 \in P PROVE n \in P
    <2>1. n - 1 \in 0 .. L /\ a[n - 1] \in Seq(S) /\ Range(a[n - 1]) = Kept(n - 1)
      BY <1>4
    <2>2. {s[i] : i \in 1 .. n} = {s[i] : i \in 1 .. n - 1} \cup {s[n]}
      <3>1. 1 .. n = (1 .. n - 1) \cup {n}
        BY <1>1
      <3>. QED  BY <3>1
    <2>6. n \in 0 .. L /\ s[n] \in S /\ n # 0
      BY <1>1
    <2>5. a[n] = IF s[n] \in gone THEN a[n - 1] ELSE Append(a[n - 1], s[n])
      BY <1>2, <2>6
    <2>. HIDE DEF L
    <2>3. CASE s[n] \in gone
      <3>1. Kept(n) = Kept(n - 1)
        BY <2>2, <2>3
      <3>. QED  BY <2>1, <2>3, <2>5, <2>6, <3>1
    <2>4. CASE s[n] \notin gone
      <3>1. a[n] \in Seq(S) /\ Range(a[n]) = Range(a[n - 1]) \cup {s[n]}
        BY <2>1, <2>4, <2>5, <2>6, RangeOfAppend
      <3>2. Kept(n) = Kept(n - 1) \cup {s[n]}
        BY <2>2, <2>4
      <3>. QED  BY <2>1, <2>6, <3>1, <3>2
    <2>. QED  BY <2>3, <2>4
  <1>5. L \in P
    <2>. HIDE DEF P
    <2>1. \A i \in 1 .. L : i - 1 \in P => i \in P
      BY <1>4
    <2>2. \A i \in 0 .. L : i \in P
      BY <1>1, <1>3, <2>1, UpTo
    <2>. QED  BY <1>1, <2>2
  <1>. QED  BY <1>1, <1>2, <1>5 DEF Range

------------------------------------------------------------------------------
(* The invariant.                                                          *)

Fields == {"panes", "tabs", "wins", "paneOf", "tabOf", "winOf", "attached",
           "panicked", "busy", "made", "primary", "tasks"}

PaneRecords == [remote : Nat, dead : BOOLEAN, known : BOOLEAN]

Ids(c) == 1 .. Len(c.panes)

(* The panes of the client that it will not ask the server to kill.        *)
Doomed(c) == {p \in Ids(c) : c.panes[p].dead \/ ~ c.panes[p].known}

(* A message or task says nothing of a pane that the client does not ask   *)
(* for the kill of, given the panes that are gone and those that the user  *)
(* closed.                                                                 *)
MessageOK(m, c, gone, closed) ==
    /\ m.kind = "kill" => m.pane \in gone \cup closed
    /\ m.kind \in {"removed", "hear"} => m.pane \in gone /\ DOMAIN m = {"kind", "pane"}
    /\ m.kind = "remove" /\ c.attached => m.ids \subseteq Doomed(c)
    /\ m.kind = "list" => /\ m.for = 0 \/ m.for \in gone
                          /\ Len(m.tabs) \in Nat
                          /\ \A i \in 1 .. Len(m.tabs) : m.tabs[i].panes \in Seq(Nat)
    /\ m.kind \in {"spawned", "split"} => m.pane \in Nat

MessagesOK(q, c, gone, closed) ==
    \E S : q \in Seq(S) /\ \A m \in S : MessageOK(m, c, gone, closed)

(* The client's mux and maps fit together.                                 *)
Fits(c) ==
    /\ DOMAIN c = Fields
    /\ c.panes \in Seq(PaneRecords)
    /\ IsFiniteSet(DOMAIN c.tabs)
    /\ \A t \in DOMAIN c.tabs : c.tabs[t] \in Seq(Ids(c))
    /\ \A w \in DOMAIN c.wins : c.wins[w] \subseteq DOMAIN c.tabs
    /\ \A r \in DOMAIN c.paneOf : /\ c.paneOf[r] \in Ids(c)
                                  /\ c.panes[c.paneOf[r]].remote = r

DeadAreGone(c, gone) == \A p \in Ids(c) : c.panes[p].dead => c.panes[p].remote \in gone

Sound(c, gone, closed) ==
    Fits(c) /\ DeadAreGone(c, gone) /\ MessagesOK(c.tasks, c, gone, closed)

(* What may become of a client: its panes stay, die and are forgotten.     *)
Later(c, d) ==
    /\ Len(c.panes) <= Len(d.panes)
    /\ \A p \in Ids(c) : /\ d.panes[p].remote = c.panes[p].remote
                         /\ c.panes[p].dead => d.panes[p].dead
                         /\ d.panes[p].known => c.panes[p].known
    /\ d.attached => c.attached

Becoming(c, d, gone, closed) == Sound(d, gone, closed) /\ Later(c, d)

LEMMA LaterTwice ==
  ASSUME NEW c, NEW d, NEW e, c.panes \in Seq(PaneRecords), d.panes \in Seq(PaneRecords),
         e.panes \in Seq(PaneRecords), Later(c, d), Later(d, e)
  PROVE  Later(c, e)
  <1>1. Len(c.panes) \in Nat /\ Len(d.panes) \in Nat /\ Len(e.panes) \in Nat
    BY LenProperties
  <1>. QED  BY <1>1 DEF Later, Ids

LEMMA MessageStaysOK ==
  ASSUME NEW c, NEW d, NEW gone, NEW gone2, NEW closed, NEW closed2, NEW m,
         c.panes \in Seq(PaneRecords), d.panes \in Seq(PaneRecords),
         Later(c, d), gone \subseteq gone2, closed \subseteq closed2,
         MessageOK(m, c, gone, closed)
  PROVE  MessageOK(m, d, gone2, closed2)
  <1>1. Len(c.panes) \in Nat /\ Len(d.panes) \in Nat
    BY LenProperties
  <1>2. Doomed(c) \subseteq Doomed(d)
    BY <1>1 DEF Doomed, Later, Ids
  <1>3. m.kind = "remove" /\ d.attached => m.ids \subseteq Doomed(d)
    BY <1>2 DEF MessageOK, Later
  <1>. QED  BY <1>3 DEF MessageOK

LEMMA MessagesStayOK ==
  ASSUME NEW c, NEW d, NEW gone, NEW gone2, NEW closed, NEW closed2, NEW q,
         c.panes \in Seq(PaneRecords), d.panes \in Seq(PaneRecords),
         Later(c, d), gone \subseteq gone2, closed \subseteq closed2,
         MessagesOK(q, c, gone, closed)
  PROVE  MessagesOK(q, d, gone2, closed2)
  <1>1. PICK S : q \in Seq(S) /\ \A m \in S : MessageOK(m, c, gone, closed)
    BY DEF MessagesOK
  <1>2. \A m \in S : MessageOK(m, d, gone2, closed2)
    BY <1>1, MessageStaysOK
  <1>. QED  BY <1>1, <1>2 DEF MessagesOK

LEMMA MessagesJoin ==
  ASSUME NEW c, NEW gone, NEW closed, NEW q, NEW r,
         MessagesOK(q, c, gone, closed), MessagesOK(r, c, gone, closed)
  PROVE  MessagesOK(q \o r, c, gone, closed)
  <1>1. PICK S : q \in Seq(S) /\ \A m \in S : MessageOK(m, c, gone, closed)
    BY DEF MessagesOK
  <1>2. PICK T : r \in Seq(T) /\ \A m \in T : MessageOK(m, c, gone, closed)
    BY DEF MessagesOK
  <1>3. q \in Seq(S \cup T) /\ r \in Seq(S \cup T)
    BY <1>1, <1>2, SeqMonotonic
  <1>4. q \o r \in Seq(S \cup T)
    BY <1>3, ConcatProperties
  <1>. QED  BY <1>1, <1>2, <1>4 DEF MessagesOK

LEMMA MessageAdded ==
  ASSUME NEW c, NEW gone, NEW closed, NEW q, NEW m,
         MessagesOK(q, c, gone, closed), MessageOK(m, c, gone, closed)
  PROVE  MessagesOK(Append(q, m), c, gone, closed)
  <1>1. PICK S : q \in Seq(S) /\ \A x \in S : MessageOK(x, c, gone, closed)
    BY DEF MessagesOK
  <1>2. q \in Seq(S \cup {m})
    BY <1>1, SeqMonotonic
  <1>3. Append(q, m) \in Seq(S \cup {m})
    BY <1>2, AppendProperties
  <1>. QED  BY <1>1, <1>3 DEF MessagesOK

LEMMA MessageTaken ==
  ASSUME NEW c, NEW gone, NEW closed, NEW q, q # << >>, MessagesOK(q, c, gone, closed)
  PROVE  MessageOK(Head(q), c, gone, closed) /\ MessagesOK(Tail(q), c, gone, closed)
  <1>1. PICK S : q \in Seq(S) /\ \A x \in S : MessageOK(x, c, gone, closed)
    BY DEF MessagesOK
  <1>2. Head(q) \in S /\ Tail(q) \in Seq(S)
    BY <1>1, HeadTailProperties
  <1>. QED  BY <1>1, <1>2 DEF MessagesOK

LEMMA NoMessages ==
  ASSUME NEW c, NEW gone, NEW closed
  PROVE  MessagesOK(<< >>, c, gone, closed)
  <1>. DEFINE S == {[kind |-> "prune"]}
  <1>1. \A m \in S : MessageOK(m, c, gone, closed)
    BY DEF MessageOK
  <1>. HIDE DEF S
  <1>2. << >> \in Seq(S)
    BY EmptySeq
  <1>. QED  BY <1>1, <1>2 DEF MessagesOK

(* A sequence made from a finite set has its members.                      *)
LEMMA SetAsSequence ==
  ASSUME NEW S, IsFiniteSet(S)
  PROVE  SetToSeq(S) \in Seq(S)
  <1>. DEFINE n == Cardinality(S)
  <1>1. n \in Nat /\ ExistsBijection(1 .. n, S)
    BY FS_CardinalityType
  <1>2. PICK f \in Bijection(1 .. n, S) : TRUE
    BY <1>1 DEF ExistsBijection
  <1>3. f \in [1 .. n -> S] /\ IsInjective(f)
    BY <1>2 DEF Bijection, Injection, IsInjective
  <1>. DEFINE s == SetToSeq(S)
  <1>4. s \in [1 .. n -> S] /\ IsInjective(s)
    BY <1>3 DEF SetToSeq
  <1>. HIDE DEF s
  <1>5. s \in Seq(S)
    BY <1>1, <1>4
  <1>. QED  BY <1>5 DEF s

------------------------------------------------------------------------------
(* The client's mux.                                                       *)

\* What may be killed: what is gone or closed, once the domain is detached nothing
\* is asked for.
MayGo(c, ps, gone, closed) ==
    c.attached => \A p \in ps \cap Ids(c) :
                    c.panes[p].known => c.panes[p].remote \in gone \cup closed

LEMMA PanesForgotten ==
  ASSUME NEW c, NEW gone, NEW closed, NEW ps, Sound(c, gone, closed), MayGo(c, ps, gone, closed)
  PROVE  /\ Becoming(c, ForgetPanes(c, ps), gone, closed)
         /\ ForgetPanes(c, ps).tabs = c.tabs
         /\ ForgetPanes(c, ps).wins = c.wins
         /\ ForgetPanes(c, ps).attached = c.attached
         /\ Len(ForgetPanes(c, ps).panes) = Len(c.panes)
  <1>. DEFINE known == {p \in ps : Known(c, p)}
              killed == {[kind |-> "kill", pane |-> c.panes[p].remote] : p \in known}
              without(p) == [c.panes[p] EXCEPT !.known = c.panes[p].known /\ p \notin known]
              panes == [p \in DOMAIN c.panes |-> without(p)]
              tasks == IF c.attached THEN c.tasks \o SetToSeq(killed) ELSE c.tasks
              d == ForgetPanes(c, ps)
  <1>1. /\ DOMAIN c = Fields /\ c.panes \in Seq(PaneRecords) /\ Len(c.panes) \in Nat
        /\ DOMAIN c.panes = Ids(c)
    BY LenProperties DEF Sound, Fits, Ids
  <1>2. d = [c EXCEPT !.panes = panes, !.tasks = tasks]
    BY DEF ForgetPanes
  <1>3. /\ DOMAIN d = Fields /\ d.panes = panes /\ d.tasks = tasks
        /\ d.tabs = c.tabs /\ d.wins = c.wins /\ d.paneOf = c.paneOf
        /\ d.attached = c.attached
    BY <1>1, <1>2 DEF Fields
  <1>. HIDE DEF d, tasks
  <1>4. \A p \in Ids(c) : c.panes[p] \in PaneRecords /\ panes[p] = without(p)
    BY <1>1, ElementOfSeq DEF Ids
  <1>5. ASSUME NEW p \in Ids(c)
        PROVE  /\ panes[p] \in PaneRecords
               /\ panes[p].remote = c.panes[p].remote
               /\ panes[p].dead = c.panes[p].dead
               /\ panes[p].known => c.panes[p].known
    <2>. DEFINE kept == c.panes[p].known /\ p \notin known
    <2>1. c.panes[p] \in PaneRecords /\ panes[p] = [c.panes[p] EXCEPT !.known = kept]
      BY <1>4
    <2>2. kept \in BOOLEAN /\ (kept => c.panes[p].known)
      BY <2>1 DEF PaneRecords
    <2>. HIDE DEF kept, panes
    <2>. QED  BY <2>1, <2>2 DEF PaneRecords
  <1>6. panes \in Seq(PaneRecords) /\ Len(panes) = Len(c.panes)
    <2>1. panes \in [1 .. Len(c.panes) -> PaneRecords]
      BY <1>1, <1>5 DEF Ids
    <2>. HIDE DEF panes
    <2>. QED  BY <1>1, <2>1
  <1>. HIDE DEF panes
  <1>7. Ids(d) = Ids(c)
    BY <1>3, <1>6 DEF Ids
  <1>8. Later(c, d)
    BY <1>1, <1>3, <1>5, <1>6 DEF Later
  <1>9. Fits(d) /\ DeadAreGone(d, gone)
    BY <1>3, <1>5, <1>6, <1>7 DEF Sound, Fits, DeadAreGone
  <1>10. MessagesOK(c.tasks, d, gone, closed)
    BY <1>1, <1>3, <1>6, <1>8, MessagesStayOK DEF Sound
  <1>11. ASSUME c.attached PROVE MessagesOK(SetToSeq(killed), d, gone, closed)
    <2>1. IsFiniteSet(killed)
      <3>1. known \subseteq Ids(c)
        BY <1>1 DEF Known
      <3>2. IsFiniteSet(Ids(c))
        BY <1>1, FS_Interval DEF Ids
      <3>4. IsFiniteSet(known)
        BY <3>1, <3>2, FS_Subset
      <3>3. [p \in known |-> [kind |-> "kill", pane |-> c.panes[p].remote]]
                \in Surjection(known, killed)
        BY DEF Surjection
      <3>. QED  BY <3>4, <3>3, FS_Surjection
    <2>2. SetToSeq(killed) \in Seq(killed)
      BY <2>1, SetAsSequence
    <2>3. ASSUME NEW m \in killed PROVE MessageOK(m, d, gone, closed)
      <3>1. PICK p \in known : m = [kind |-> "kill", pane |-> c.panes[p].remote]
        OBVIOUS
      <3>2. m.kind = "kill" /\ m.pane \in gone \cup closed
        BY <1>1, <1>11, <3>1 DEF MayGo, Known
      <3>. QED  BY <3>2 DEF MessageOK
    <2>. QED  BY <2>2, <2>3 DEF MessagesOK
  <1>12. MessagesOK(d.tasks, d, gone, closed)
    BY <1>3, <1>10, <1>11, MessagesJoin DEF tasks
  <1>. QED  BY <1>3, <1>6, <1>8, <1>9, <1>12 DEF Becoming, Sound, d

LEMMA TabsForgotten ==
  ASSUME NEW c, NEW gone, NEW closed, NEW ts, Sound(c, gone, closed),
         \A t \in ts \cap DOMAIN c.tabs : MayGo(c, Range(c.tabs[t]), gone, closed)
  PROVE  Becoming(c, ForgetTabs(c, ts), gone, closed)
  <1>. DEFINE out == ts \cap DOMAIN c.tabs
              b == [c EXCEPT !.tabs = Restrict(c.tabs, DOMAIN c.tabs \ out)]
              wins == [w \in DOMAIN b.wins |-> b.wins[w] \ out]
              d == OutOfWindows(b, out)
              ps == UNION {Range(c.tabs[t]) : t \in out}
  <1>1. DOMAIN c = Fields
    BY DEF Sound, Fits
  <1>2. ForgetTabs(c, ts) = ForgetPanes(d, ps)
    BY DEF ForgetTabs
  <1>3. /\ DOMAIN d = Fields /\ d.wins = wins /\ d.tabs = b.tabs /\ d.panes = c.panes
        /\ d.paneOf = c.paneOf /\ d.tasks = c.tasks /\ d.attached = c.attached
    BY <1>1 DEF OutOfWindows, Fields
  <1>4. b.wins = c.wins /\ b.tabs = Restrict(c.tabs, DOMAIN c.tabs \ out)
    BY <1>1 DEF Fields
  <1>. HIDE DEF d, b
  <1>5. Ids(d) = Ids(c)
    BY <1>3 DEF Ids
  <1>6. DOMAIN d.tabs = DOMAIN c.tabs \ out /\ \A t \in DOMAIN d.tabs : d.tabs[t] = c.tabs[t]
    BY <1>3, <1>4 DEF Restrict
  <1>7. IsFiniteSet(DOMAIN d.tabs)
    BY <1>6, FS_Subset DEF Sound, Fits
  <1>8. DOMAIN d.wins = DOMAIN c.wins /\ \A w \in DOMAIN d.wins : d.wins[w] = c.wins[w] \ out
    BY <1>3, <1>4
  <1>. HIDE DEF wins
  <1>9. Fits(d) /\ DeadAreGone(d, gone)
    BY <1>3, <1>5, <1>6, <1>7, <1>8 DEF Sound, Fits, DeadAreGone
  <1>10. Later(c, d)
    BY <1>3, <1>5, LenProperties DEF Later, Sound, Fits
  <1>11. MessagesOK(d.tasks, d, gone, closed)
    BY <1>3, <1>9, <1>10, MessagesStayOK DEF Sound, Fits
  <1>12. MayGo(d, ps, gone, closed)
    BY <1>3, <1>5 DEF MayGo
  <1>13. Sound(d, gone, closed)
    BY <1>9, <1>11 DEF Sound
  <1>14. Becoming(d, ForgetPanes(d, ps), gone, closed)
    BY <1>12, <1>13, PanesForgotten
  <1>. QED  BY <1>2, <1>9, <1>10, <1>14, LaterTwice DEF Becoming, Sound, Fits

LEMMA PassTakes ==
  ASSUME NEW S, NEW tree \in Seq(S), NEW ps
  PROVE  /\ Passed(tree, ps) \in Seq(S)
         /\ Range(Passed(tree, ps)) \subseteq Range(tree)
         /\ Range(tree) \ Range(Passed(tree, ps)) \subseteq ps
  <1>1. CASE Len(tree) = 2 /\ tree[1] \in ps
    <2>1. Passed(tree, ps) = <<tree[2]>>
      BY <1>1 DEF Passed
    <2>2. DOMAIN tree = {1, 2} /\ tree[2] \in S
      BY <1>1, LenProperties, ElementOfSeq
    <2>3. Range(tree) = {tree[1], tree[2]} /\ Range(<<tree[2]>>) = {tree[2]}
      BY <2>2 DEF Range
    <2>. QED  BY <1>1, <2>1, <2>2, <2>3
  <1>2. CASE ~ (Len(tree) = 2 /\ tree[1] \in ps)
    <2>1. Passed(tree, ps) = Remainder(tree, ps)
      BY <1>2 DEF Passed
    <2>. QED  BY <2>1, RemainderOf
  <1>. QED  BY <1>1, <1>2

LEMMA TabsPassed ==
  ASSUME NEW c, NEW gone, NEW closed, NEW ts, NEW ps, Sound(c, gone, closed),
         ts \subseteq DOMAIN c.tabs, c.attached => ps \subseteq Doomed(c)
  PROVE  /\ Becoming(c, PassedTabs(c, ts, ps), gone, closed)
         /\ PassedTabs(c, ts, ps).panes = c.panes
         /\ PassedTabs(c, ts, ps).wins = c.wins
         /\ PassedTabs(c, ts, ps).attached = c.attached
         /\ DOMAIN PassedTabs(c, ts, ps).tabs = DOMAIN c.tabs
  <1>. DEFINE after == [t \in DOMAIN c.tabs |->
                          IF t \in ts THEN Passed(c.tabs[t], ps) ELSE c.tabs[t]]
              taken(t) == Range(c.tabs[t]) \ Range(after[t])
              sets == {taken(t) : t \in ts}
              news == {Task("remove", ids) : ids \in sets \ {{}}}
              d == PassedTabs(c, ts, ps)
  <1>1. DOMAIN c = Fields /\ c.panes \in Seq(PaneRecords) /\ IsFiniteSet(DOMAIN c.tabs)
    BY DEF Sound, Fits
  <1>2. d = [c EXCEPT !.tabs = after, !.tasks = c.tasks \o SetToSeq(news)]
    BY DEF PassedTabs
  <1>3. /\ DOMAIN d = Fields /\ d.wins = c.wins /\ d.tabs = after /\ d.panes = c.panes
        /\ d.paneOf = c.paneOf /\ d.tasks = c.tasks \o SetToSeq(news)
        /\ d.attached = c.attached
    BY <1>1, <1>2 DEF Fields
  <1>. HIDE DEF d
  <1>4. Ids(d) = Ids(c) /\ Doomed(d) = Doomed(c)
    BY <1>3 DEF Ids, Doomed
  <1>5. ASSUME NEW t \in DOMAIN c.tabs
        PROVE  after[t] \in Seq(Ids(c)) /\ (t \in ts => taken(t) \subseteq ps \cap Ids(c))
    <2>1. c.tabs[t] \in Seq(Ids(c)) /\ Range(c.tabs[t]) \subseteq Ids(c)
      <3>1. c.tabs[t] \in Seq(Ids(c))
        BY DEF Sound, Fits
      <3>. QED  BY <3>1, LenProperties DEF Range
    <2>2. after[t] = IF t \in ts THEN Passed(c.tabs[t], ps) ELSE c.tabs[t]
      OBVIOUS
    <2>. HIDE DEF after
    <2>. QED  BY <2>1, <2>2, PassTakes
  <1>6. DOMAIN after = DOMAIN c.tabs
    OBVIOUS
  <1>. HIDE DEF after
  <1>7. Fits(d) /\ DeadAreGone(d, gone)
    BY <1>3, <1>4, <1>5, <1>6 DEF Sound, Fits, DeadAreGone
  <1>8. Later(c, d)
    BY <1>1, <1>3, LenProperties DEF Later
  <1>9. MessagesOK(c.tasks, d, gone, closed)
    BY <1>1, <1>3, <1>8, MessagesStayOK DEF Sound
  <1>10. MessagesOK(SetToSeq(news), d, gone, closed)
    <2>1. IsFiniteSet(news)
      <3>1. IsFiniteSet(ts)
        BY <1>1, FS_Subset
      <3>. DEFINE f == [t \in ts |-> taken(t)]
      <3>2. f \in Surjection(ts, sets)
        BY DEF Surjection
      <3>3. IsFiniteSet(sets \ {{}})
        BY <3>1, <3>2, FS_Surjection, FS_RemoveElement
      <3>4. [ids \in sets \ {{}} |-> Task("remove", ids)] \in Surjection(sets \ {{}}, news)
        <4>. HIDE DEF sets
        <4>. QED  BY DEF Surjection
      <3>. HIDE DEF news, sets
      <3>. QED  BY <3>3, <3>4, FS_Surjection
    <2>2. SetToSeq(news) \in Seq(news)
      BY <2>1, SetAsSequence
    <2>3. ASSUME NEW m \in news PROVE MessageOK(m, d, gone, closed)
      <3>1. PICK t \in ts : m = Task("remove", taken(t))
        OBVIOUS
      <3>. HIDE DEF taken, news, sets
      <3>2. m.kind = "remove" /\ m.ids = taken(t)
        BY <3>1 DEF Task
      <3>3. c.attached => m.ids \subseteq Doomed(c)
        <4>1. taken(t) \subseteq ps
          BY <1>5 DEF taken
        <4>. QED  BY <3>2, <4>1
      <3>. QED  BY <1>3, <1>4, <3>2, <3>3 DEF MessageOK
    <2>. QED  BY <2>2, <2>3 DEF MessagesOK
  <1>11. MessagesOK(d.tasks, d, gone, closed)
    BY <1>3, <1>9, <1>10, MessagesJoin
  <1>. QED  BY <1>3, <1>6, <1>7, <1>8, <1>11 DEF Becoming, Sound, d

(* A step that leaves the panes alone.                                     *)
LEMMA Reshaped ==
  ASSUME NEW c, NEW d, NEW gone, NEW closed, Sound(c, gone, closed),
         DOMAIN d = Fields, d.panes = c.panes, d.attached => c.attached,
         IsFiniteSet(DOMAIN d.tabs),
         \A t \in DOMAIN d.tabs : d.tabs[t] \in Seq(Ids(c)),
         \A w \in DOMAIN d.wins : d.wins[w] \subseteq DOMAIN d.tabs,
         \A r \in DOMAIN d.paneOf : /\ d.paneOf[r] \in Ids(c)
                                    /\ c.panes[d.paneOf[r]].remote = r,
         MessagesOK(d.tasks, c, gone, closed)
  PROVE  Becoming(c, d, gone, closed)
  <1>1. Ids(d) = Ids(c) /\ c.panes \in Seq(PaneRecords)
    BY DEF Ids, Sound, Fits
  <1>2. Later(c, d)
    BY <1>1, LenProperties DEF Later
  <1>3. MessagesOK(d.tasks, d, gone, closed)
    BY <1>1, <1>2, MessagesStayOK
  <1>. QED  BY <1>1, <1>2, <1>3 DEF Becoming, Sound, Fits, DeadAreGone

LEMMA Steady ==
  ASSUME NEW c, NEW gone, NEW closed, Sound(c, gone, closed)
  PROVE  Becoming(c, c, gone, closed)
  BY Reshaped DEF Sound, Fits

LEMMA BecomingTwice ==
  ASSUME NEW c, NEW d, NEW e, NEW gone, NEW closed, Sound(c, gone, closed),
         Becoming(c, d, gone, closed), Becoming(d, e, gone, closed)
  PROVE  Becoming(c, e, gone, closed)
  BY LaterTwice DEF Becoming, Sound, Fits

LEMMA ListedAreThere ==
  ASSUME NEW c, NEW gone, NEW closed, Sound(c, gone, closed)
  PROVE  Listed(c) \subseteq DOMAIN c.tabs
  BY DEF Sound, Fits, Listed, Range

LEMMA WindowsDropped ==
  ASSUME NEW c, NEW gone, NEW closed, NEW ws, Sound(c, gone, closed)
  PROVE  Becoming(c, [c EXCEPT !.wins = Restrict(c.wins, DOMAIN c.wins \ ws)], gone, closed)
  <1>. DEFINE d == [c EXCEPT !.wins = Restrict(c.wins, DOMAIN c.wins \ ws)]
  <1>1. /\ DOMAIN d = Fields /\ d.panes = c.panes /\ d.tabs = c.tabs /\ d.paneOf = c.paneOf
        /\ d.attached = c.attached /\ d.tasks = c.tasks
        /\ d.wins = Restrict(c.wins, DOMAIN c.wins \ ws)
    BY DEF Sound, Fits, Fields
  <1>. HIDE DEF d
  <1>2. \A w \in DOMAIN d.wins : w \in DOMAIN c.wins /\ d.wins[w] = c.wins[w]
    BY <1>1 DEF Restrict
  <1>. QED  BY <1>1, <1>2, Reshaped DEF Sound, Fits, d

LEMMA Pruned ==
  ASSUME NEW c, NEW gone, NEW closed, Sound(c, gone, closed)
  PROVE  Becoming(c, Prune(c), gone, closed)
  <1>1. CASE c.busy > 0
    BY <1>1, Steady DEF Prune
  <1>2. CASE ~ (c.busy > 0)
    <2>. DEFINE out    == {p \in DOMAIN c.panes : c.panes[p].dead \/ ~ c.panes[p].known}
                passed == PassedTabs(c, Listed(c), out)
                dead   == {t \in DOMAIN c.tabs : IsDead(passed, t)}
                hollow == {w \in DOMAIN c.wins : c.wins[w] \subseteq dead}
                left   == ForgetTabs(passed, dead)
    <2>1. Prune(c) = [left EXCEPT !.wins = Restrict(left.wins, DOMAIN left.wins \ hollow)]
      BY <1>2 DEF Prune
    <2>2. out = Doomed(c)
      BY LenProperties DEF Sound, Fits, Doomed, Ids
    <2>3. /\ Becoming(c, passed, gone, closed) /\ passed.panes = c.panes
          /\ DOMAIN passed.tabs = DOMAIN c.tabs
      <3>1. Listed(c) \subseteq DOMAIN c.tabs
        BY ListedAreThere
      <3>2. c.attached => out \subseteq Doomed(c)
        BY <2>2
      <3>. HIDE DEF out
      <3>. QED  BY <3>1, <3>2, TabsPassed
    <2>4. ASSUME NEW t \in dead PROVE MayGo(passed, Range(passed.tabs[t]), gone, closed)
      <3>1. \A p \in Range(passed.tabs[t]) : passed.panes[p].dead
        BY DEF IsDead
      <3>2. DeadAreGone(passed, gone)
        BY <2>3 DEF Becoming, Sound
      <3>. HIDE DEF passed
      <3>. QED  BY <3>1, <3>2 DEF MayGo, DeadAreGone
    <2>5. Becoming(passed, left, gone, closed)
      <3>. HIDE DEF passed, dead
      <3>. QED  BY <2>3, <2>4, TabsForgotten DEF Becoming
    <2>. HIDE DEF passed, left, hollow
    <2>6. Becoming(left, Prune(c), gone, closed)
      <3>1. Sound(left, gone, closed)
        BY <2>5 DEF Becoming
      <3>2. Becoming(left, [left EXCEPT !.wins = Restrict(left.wins, DOMAIN left.wins \ hollow)],
                     gone, closed)
        BY <3>1, WindowsDropped
      <3>. QED  BY <2>1, <3>2
    <2>7. Becoming(c, left, gone, closed)
      BY <2>3, <2>5, BecomingTwice
    <2>. QED  BY <2>6, <2>7, BecomingTwice
  <1>. QED  BY <1>1, <1>2

LEMMA PrunedToo ==
  ASSUME NEW c, NEW d, NEW gone, NEW closed, Sound(c, gone, closed), Becoming(c, d, gone, closed)
  PROVE  Becoming(c, Prune(d), gone, closed)
  <1>1. Becoming(d, Prune(d), gone, closed)
    BY Pruned DEF Becoming
  <1>. QED  BY <1>1, BecomingTwice

LEMMA DomainDetached ==
  ASSUME NEW c, NEW gone, NEW closed, Sound(c, gone, closed)
  PROVE  Becoming(c, Detached(c), gone, closed) /\ ~ Detached(c).attached
  <1>. DEFINE ps == {p \in DOMAIN c.panes : Known(c, p)}
              b == [c EXCEPT !.attached = FALSE]
              passed == PassedTabs(b, Listed(c), DOMAIN c.panes)
              d == ForgetPanes(passed, ps)
  <1>1. Detached(c) = Prune(d)
    BY DEF Detached
  <1>2. /\ DOMAIN b = Fields /\ b.panes = c.panes /\ b.tabs = c.tabs /\ b.paneOf = c.paneOf
        /\ b.attached = FALSE /\ b.tasks = c.tasks /\ b.wins = c.wins
    BY DEF Sound, Fits, Fields
  <1>. HIDE DEF b
  <1>3. Becoming(c, b, gone, closed)
    BY <1>2, Reshaped DEF Sound, Fits
  <1>4. Becoming(b, passed, gone, closed) /\ passed.attached = FALSE
    <2>1. Listed(c) \subseteq DOMAIN b.tabs
      BY <1>2, ListedAreThere
    <2>2. Sound(b, gone, closed)
      BY <1>3 DEF Becoming
    <2>. QED  BY <1>2, <2>1, <2>2, TabsPassed
  <1>. HIDE DEF passed
  <1>5. Becoming(passed, d, gone, closed)
    BY <1>4, PanesForgotten DEF Becoming, MayGo
  <1>. HIDE DEF d
  <1>6. Becoming(c, d, gone, closed) /\ Sound(d, gone, closed)
    BY <1>3, <1>4, <1>5, BecomingTwice DEF Becoming
  <1>7. Becoming(d, Prune(d), gone, closed)
    BY <1>6, Pruned
  <1>8. ~ Prune(d).attached
    BY <1>4, <1>5, <1>7 DEF Becoming, Later
  <1>. QED  BY <1>1, <1>6, <1>7, <1>8, BecomingTwice

LEMMA WindowKilled ==
  ASSUME NEW c, NEW gone, NEW closed, NEW w \in DOMAIN c.wins, Sound(c, gone, closed)
  PROVE  Becoming(c, KillWindow(c, w), gone, closed)
  <1>. DEFINE out == [c EXCEPT !.wins = Restrict(c.wins, DOMAIN c.wins \ {w})]
              detaches == \E t \in c.wins[w] : c.tabs[t] # << >>
              rest == IF detaches THEN Detached(out) ELSE out
  <1>1. KillWindow(c, w) = Prune(ForgetTabs(rest, c.wins[w]))
    BY DEF KillWindow
  <1>2. Becoming(c, out, gone, closed) /\ out.tabs = c.tabs
    BY WindowsDropped DEF Sound, Fits, Fields
  <1>. HIDE DEF out
  <1>3. Becoming(c, rest, gone, closed)
    BY <1>2, DomainDetached, BecomingTwice DEF Becoming
  <1>4. ASSUME NEW t \in c.wins[w] \cap DOMAIN rest.tabs
        PROVE  MayGo(rest, Range(rest.tabs[t]), gone, closed)
    <2>1. CASE detaches
      BY <1>2, <2>1, DomainDetached DEF Becoming, MayGo
    <2>2. CASE ~ detaches
      <3>1. rest.tabs[t] = << >>
        BY <1>2, <2>2
      <3>2. Range(<< >>) = {}
        BY DEF Range
      <3>. QED  BY <3>1, <3>2 DEF MayGo
    <2>. QED  BY <2>1, <2>2
  <1>. HIDE DEF rest
  <1>5. Becoming(rest, ForgetTabs(rest, c.wins[w]), gone, closed)
    BY <1>3, <1>4, TabsForgotten DEF Becoming
  <1>. QED  BY <1>1, <1>3, <1>5, BecomingTwice, PrunedToo

------------------------------------------------------------------------------
(* The domain.                                                             *)

(* A step that adds a pane to the mux.                                     *)
LEMMA Grown ==
  ASSUME NEW c, NEW d, NEW gone, NEW closed, NEW r \in Nat, Sound(c, gone, closed),
         DOMAIN d = Fields, d.attached => c.attached,
         d.panes = Append(c.panes, [remote |-> r, dead |-> FALSE, known |-> TRUE]),
         IsFiniteSet(DOMAIN d.tabs),
         \A t \in DOMAIN d.tabs : d.tabs[t] \in Seq(1 .. Len(c.panes) + 1),
         \A w \in DOMAIN d.wins : d.wins[w] \subseteq DOMAIN d.tabs,
         \A x \in DOMAIN d.paneOf : /\ d.paneOf[x] \in Ids(c)
                                    /\ c.panes[d.paneOf[x]].remote = x,
         MessagesOK(d.tasks, c, gone, closed)
  PROVE  Becoming(c, d, gone, closed)
  <1>. DEFINE new == [remote |-> r, dead |-> FALSE, known |-> TRUE]
  <1>1. c.panes \in Seq(PaneRecords) /\ Len(c.panes) \in Nat
    BY LenProperties DEF Sound, Fits
  <1>2. new \in PaneRecords
    BY DEF PaneRecords
  <1>3. /\ d.panes \in Seq(PaneRecords) /\ Len(d.panes) = Len(c.panes) + 1
        /\ \A p \in 1 .. Len(c.panes) : d.panes[p] = c.panes[p]
        /\ d.panes[Len(c.panes) + 1] = new
    <2>1. d.panes = Append(c.panes, new)
      OBVIOUS
    <2>. HIDE DEF new
    <2>. QED  BY <1>1, <1>2, <2>1, AppendProperties
  <1>4. Later(c, d)
    BY <1>1, <1>3 DEF Later, Ids
  <1>5. Ids(d) = 1 .. Len(c.panes) + 1 /\ Ids(c) \subseteq Ids(d)
    BY <1>1, <1>3 DEF Ids
  <1>6. DeadAreGone(d, gone)
    <2>1. \A p \in Ids(d) : d.panes[p].dead => p \in Ids(c)
      BY <1>1, <1>3, <1>5 DEF Ids
    <2>. QED  BY <1>3, <2>1 DEF DeadAreGone, Sound, Ids
  <1>7. Fits(d)
    <2>1. \A x \in DOMAIN d.paneOf : d.paneOf[x] \in Ids(d) /\ d.panes[d.paneOf[x]].remote = x
      BY <1>3, <1>5 DEF Ids
    <2>. QED  BY <1>3, <1>5, <2>1 DEF Fits
  <1>8. MessagesOK(d.tasks, d, gone, closed)
    BY <1>1, <1>3, <1>4, MessagesStayOK
  <1>. QED  BY <1>4, <1>6, <1>7, <1>8 DEF Becoming, Sound

LEMMA LookupFinds ==
  ASSUME NEW c, NEW gone, NEW closed, NEW r, NEW p \in Lookup(c, r), Sound(c, gone, closed)
  PROVE  p \in Ids(c) /\ c.panes[p].remote = r
  <1>1. DOMAIN c.panes = Ids(c)
    BY LenProperties DEF Sound, Fits, Ids
  <1>2. CASE r \in DOMAIN c.paneOf
    BY <1>2 DEF Lookup, Sound, Fits
  <1>3. CASE r \notin DOMAIN c.paneOf
    BY <1>1, <1>3 DEF Lookup
  <1>. QED  BY <1>2, <1>3

LEMMA MappedKeeps ==
  ASSUME NEW c, NEW gone, NEW closed, NEW r, Sound(c, gone, closed)
  PROVE  /\ Becoming(c, Mapped(c, r), gone, closed)
         /\ Mapped(c, r).panes = c.panes /\ Mapped(c, r).tabs = c.tabs
         /\ Lookup(c, r) # {} => /\ r \in DOMAIN Mapped(c, r).paneOf
                                 /\ Mapped(c, r).paneOf[r] \in Ids(c)
  <1>. DEFINE d == Mapped(c, r)
              found == CHOOSE p \in Lookup(c, r) : TRUE
  <1>1. CASE Lookup(c, r) = {}
    BY <1>1, Steady DEF Mapped
  <1>2. CASE Lookup(c, r) # {}
    <2>1. found \in Ids(c) /\ c.panes[found].remote = r
      BY <1>2, LookupFinds
    <2>2. d = [c EXCEPT !.paneOf = With(c.paneOf, r, found)]
      BY <1>2 DEF Mapped
    <2>. HIDE DEF found
    <2>3. /\ DOMAIN d = Fields /\ d.panes = c.panes /\ d.tabs = c.tabs /\ d.wins = c.wins
          /\ d.attached = c.attached /\ d.tasks = c.tasks
          /\ d.paneOf = With(c.paneOf, r, found)
      BY <2>2 DEF Sound, Fits, Fields
    <2>. HIDE DEF d
    <2>4. \A x \in DOMAIN d.paneOf : IF x = r THEN d.paneOf[x] = found
                                     ELSE x \in DOMAIN c.paneOf /\ d.paneOf[x] = c.paneOf[x]
      BY <2>3 DEF With
    <2>5. \A x \in DOMAIN d.paneOf : d.paneOf[x] \in Ids(c) /\ c.panes[d.paneOf[x]].remote = x
      BY <2>1, <2>4 DEF Sound, Fits
    <2>6. r \in DOMAIN d.paneOf
      BY <2>3 DEF With
    <2>7. Becoming(c, d, gone, closed)
      BY <2>3, <2>5, Reshaped DEF Sound, Fits
    <2>. QED  BY <2>3, <2>5, <2>6, <2>7 DEF d
  <1>. QED  BY <1>1, <1>2

LEMMA PanePlaced ==
  ASSUME NEW c, NEW gone, NEW closed, NEW t, NEW r \in Nat, Sound(c, gone, closed),
         t \in DOMAIN c.tabs
  PROVE  Becoming(c, WithPane(c, t, r), gone, closed) /\ t \in DOMAIN WithPane(c, t, r).tabs
  <1>. DEFINE found == Mapped(c, r)
              old == {p \in Lookup(c, r) : Known(c, p)}
              d == WithPane(c, t, r)
  <1>1. Len(c.panes) \in Nat
    BY LenProperties DEF Sound, Fits
  <1>2. CASE old # {}
    <2>1. /\ Becoming(c, found, gone, closed) /\ found.panes = c.panes /\ found.tabs = c.tabs
          /\ found.paneOf[r] \in Ids(c)
      BY <1>2, MappedKeeps
    <2>. DEFINE tree == Append(c.tabs[t], found.paneOf[r])
    <2>2. d = [found EXCEPT !.tabs = [c.tabs EXCEPT ![t] = tree]]
      BY <1>2, <2>1 DEF WithPane
    <2>3. tree \in Seq(Ids(c))
      BY <2>1, AppendProperties DEF Sound, Fits
    <2>. HIDE DEF found, tree
    <2>4. /\ DOMAIN d = Fields /\ d.panes = found.panes /\ d.wins = found.wins
          /\ d.attached = found.attached /\ d.tasks = found.tasks /\ d.paneOf = found.paneOf
          /\ d.tabs = [c.tabs EXCEPT ![t] = tree]
      BY <2>1, <2>2 DEF Becoming, Sound, Fits, Fields
    <2>. HIDE DEF d
    <2>5. /\ DOMAIN d.tabs = DOMAIN found.tabs
          /\ \A x \in DOMAIN d.tabs : d.tabs[x] \in Seq(Ids(found))
      <3>1. Ids(found) = Ids(c)
        BY <2>1 DEF Ids
      <3>. QED  BY <2>1, <2>3, <2>4, <3>1 DEF Sound, Fits
    <2>6. Becoming(found, d, gone, closed)
      BY <2>1, <2>4, <2>5, Reshaped DEF Becoming, Sound, Fits
    <2>. QED  BY <2>1, <2>5, <2>6, BecomingTwice DEF d
  <1>3. CASE old = {}
    <2>. DEFINE new == [remote |-> r, dead |-> FALSE, known |-> TRUE]
                p == Len(c.panes) + 1
    <2>1. d = [NewPane(c, r) EXCEPT !.paneOf = Restrict(NewPane(c, r).paneOf, DOMAIN NewPane(c, r).paneOf \ {r}),
                                    !.tabs = [NewPane(c, r).tabs EXCEPT ![t] = Append(NewPane(c, r).tabs[t], p)]]
      BY <1>3 DEF WithPane
    <2>2. NewPane(c, r) = [c EXCEPT !.panes = Append(c.panes, new)]
      BY DEF NewPane
    <2>. HIDE DEF new
    <2>3. /\ DOMAIN d = Fields /\ d.panes = Append(c.panes, new) /\ d.wins = c.wins
          /\ d.attached = c.attached /\ d.tasks = c.tasks
          /\ d.paneOf = Restrict(c.paneOf, DOMAIN c.paneOf \ {r})
          /\ d.tabs = [c.tabs EXCEPT ![t] = Append(c.tabs[t], p)]
      BY <2>1, <2>2 DEF Sound, Fits, Fields
    <2>. HIDE DEF d
    <2>4. \A x \in DOMAIN c.tabs : c.tabs[x] \in Seq(1 .. p)
      <3>. TAKE x \in DOMAIN c.tabs
      <3>1. c.tabs[x] \in Seq(Ids(c)) /\ Ids(c) \subseteq 1 .. p
        BY <1>1 DEF Sound, Fits, Ids
      <3>. QED  BY <3>1, SeqMonotonic
    <2>5. Append(c.tabs[t], p) \in Seq(1 .. p)
      BY <1>1, <2>4, AppendProperties
    <2>6. DOMAIN d.tabs = DOMAIN c.tabs /\ \A x \in DOMAIN d.tabs : d.tabs[x] \in Seq(1 .. p)
      BY <2>3, <2>4, <2>5
    <2>7. \A x \in DOMAIN d.paneOf : d.paneOf[x] \in Ids(c) /\ c.panes[d.paneOf[x]].remote = x
      BY <2>3 DEF Restrict, Sound, Fits
    <2>8. Becoming(c, d, gone, closed)
      BY <2>3, <2>6, <2>7, Grown DEF Sound, Fits, new
    <2>. QED  BY <2>6, <2>8 DEF d
  <1>. QED  BY <1>2, <1>3

Places(a, c, t, ps) ==
    /\ \A n \in 0 .. Len(ps) : a[n] = IF n = 0 THEN c ELSE WithPane(a[n - 1], t, ps[n])
    /\ WithPanes(c, t, ps) = a[Len(ps)]

LEMMA PlacesRecursion ==
  ASSUME NEW c, NEW t, NEW ps, Len(ps) \in Nat
  PROVE  \E a : Places(a, c, t, ps)
  <1>. DEFINE L == Len(ps)
              Body(f, n) == IF n = 0 THEN c ELSE WithPane(f[n - 1], t, ps[n])
              R(f) == f = [n \in 0 .. L |-> Body(f, n)]
              P == {k \in 0 .. L : \E f : f = [n \in 0 .. k |-> Body(f, n)]}
  <1>1. 0 \in P
    <2>. DEFINE f == [n \in 0 .. 0 |-> c]
    <2>1. \A n \in 0 .. 0 : Body(f, n) = c
      OBVIOUS
    <2>. HIDE DEF Body
    <2>2. f = [n \in 0 .. 0 |-> Body(f, n)]
      BY <2>1
    <2>. HIDE DEF f
    <2>3. 0 \in 0 .. L
      OBVIOUS
    <2>. QED  BY <2>2, <2>3
  <1>2. ASSUME NEW k \in 1 .. L, k - 1 \in P PROVE k \in P
    <2>1. PICK f : f = [n \in 0 .. k - 1 |-> Body(f, n)]
      BY <1>2
    <2>. DEFINE g == [n \in 0 .. k |-> IF n = k THEN Body(f, k) ELSE f[n]]
    <2>2. \A n \in 0 .. k : g[n] = Body(g, n)
      <3>. TAKE n \in 0 .. k
      <3>1. CASE n = 0
        BY <2>1, <3>1
      <3>2. CASE n # 0
        <4>1. n - 1 \in 0 .. k - 1 /\ g[n - 1] = f[n - 1]
          BY <3>2
        <4>2. Body(g, n) = Body(f, n)
          BY <4>1, <3>2
        <4>3. g[n] = Body(f, n)
          <5>. HIDE DEF Body
          <5>1. n # k => n \in 0 .. k - 1 /\ f[n] = Body(f, n)
            BY <2>1
          <5>. QED  BY <5>1
        <4>. QED  BY <4>2, <4>3
      <3>. QED  BY <3>1, <3>2
    <2>3. g = [n \in 0 .. k |-> Body(g, n)]
      <3>. HIDE DEF Body
      <3>. QED  BY <2>2
    <2>. HIDE DEF g, Body
    <2>. QED  BY <2>3
  <1>3. \E f : R(f)
    <2>. HIDE DEF P, Body
    <2>1. \A i \in 1 .. L : i - 1 \in P => i \in P
      BY <1>2
    <2>2. \A i \in 0 .. L : i \in P
      BY <1>1, <2>1, UpTo
    <2>3. L \in P
      BY <2>2
    <2>. QED  BY <2>3 DEF P
  <1>4. WithPanes(c, t, ps) = (CHOOSE f : R(f))[L]
    BY DEF WithPanes
  <1>5. R(CHOOSE f : R(f))
    <2>. HIDE DEF R
    <2>. QED  BY <1>3
  <1>6. \E f : R(f) /\ WithPanes(c, t, ps) = f[L]
    <2>. HIDE DEF R
    <2>. QED  BY <1>4, <1>5
  <1>. QED  BY <1>6 DEF Places

LEMMA PanesPlaced ==
  ASSUME NEW c, NEW gone, NEW closed, NEW t, NEW ps \in Seq(Nat), Sound(c, gone, closed),
         t \in DOMAIN c.tabs
  PROVE  Becoming(c, WithPanes(c, t, ps), gone, closed) /\ t \in DOMAIN WithPanes(c, t, ps).tabs
  <1>. DEFINE L == Len(ps)
  <1>1. L \in Nat /\ \A n \in 1 .. L : ps[n] \in Nat
    BY LenProperties, ElementOfSeq
  <1>2. PICK a : /\ \A n \in 0 .. L :
                       a[n] = IF n = 0 THEN c ELSE WithPane(a[n - 1], t, ps[n])
                 /\ WithPanes(c, t, ps) = a[L]
    <2>1. \E a : Places(a, c, t, ps)
      BY <1>1, PlacesRecursion
    <2>. QED  BY <2>1 DEF Places
  <1>. DEFINE P == {n \in 0 .. L : Becoming(c, a[n], gone, closed) /\ t \in DOMAIN a[n].tabs}
  <1>3. 0 \in P
    <2>1. a[0] = c /\ 0 \in 0 .. L
      BY <1>1, <1>2
    <2>. QED  BY <2>1, Steady
  <1>4. ASSUME NEW n \in 1 .. L, n - 1 \in P PROVE n \in P
    <2>1. Becoming(c, a[n - 1], gone, closed) /\ t \in DOMAIN a[n - 1].tabs
      BY <1>4
    <2>2. n \in 0 .. L /\ n # 0 /\ ps[n] \in Nat
      BY <1>1
    <2>3. a[n] = WithPane(a[n - 1], t, ps[n])
      BY <1>2, <2>2
    <2>4. Becoming(a[n - 1], a[n], gone, closed) /\ t \in DOMAIN a[n].tabs
      BY <2>1, <2>2, <2>3, PanePlaced DEF Becoming
    <2>. QED  BY <2>1, <2>2, <2>4, BecomingTwice
  <1>5. \A i \in 0 .. L : i \in P
    <2>. HIDE DEF P
    <2>1. \A i \in 1 .. L : i - 1 \in P => i \in P
      BY <1>4
    <2>. QED  BY <1>1, <1>3, <2>1, UpTo
  <1>. QED  BY <1>1, <1>2, <1>5

LEMMA TabMade ==
  ASSUME NEW c, NEW gone, NEW closed, NEW remote, Sound(c, gone, closed)
  PROVE  /\ Becoming(c, WithLocalTab(c, remote), gone, closed)
         /\ WithLocalTab(c, remote).tabOf[remote] \in DOMAIN WithLocalTab(c, remote).tabs
  <1>. DEFINE d == WithLocalTab(c, remote)
  <1>1. << >> \in Seq(Ids(c)) /\ DOMAIN c = Fields
    BY EmptySeq DEF Sound, Fits
  <1>2. CASE remote \in DOMAIN c.tabOf /\ c.tabOf[remote] \in DOMAIN c.tabs
    <2>1. d = [c EXCEPT !.tabs = [c.tabs EXCEPT ![c.tabOf[remote]] = << >>]]
      BY <1>2 DEF WithLocalTab
    <2>2. /\ DOMAIN d = Fields /\ d.panes = c.panes /\ d.wins = c.wins /\ d.tabOf = c.tabOf
          /\ d.attached = c.attached /\ d.tasks = c.tasks /\ d.paneOf = c.paneOf
          /\ d.tabs = [c.tabs EXCEPT ![c.tabOf[remote]] = << >>]
      BY <1>1, <2>1 DEF Fields
    <2>. HIDE DEF d
    <2>3. DOMAIN d.tabs = DOMAIN c.tabs /\ \A x \in DOMAIN d.tabs : d.tabs[x] \in Seq(Ids(c))
      BY <1>1, <2>2 DEF Sound, Fits
    <2>4. Becoming(c, d, gone, closed)
      BY <2>2, <2>3, Reshaped DEF Sound, Fits
    <2>. QED  BY <1>2, <2>2, <2>3, <2>4 DEF d
  <1>3. CASE ~ (remote \in DOMAIN c.tabOf /\ c.tabOf[remote] \in DOMAIN c.tabs)
    <2>. DEFINE t == c.made.tab + 1
                made == [c.made EXCEPT !.tab = c.made.tab + 1]
    <2>1. d = [c EXCEPT !.tabs = With(c.tabs, t, << >>), !.tabOf = With(c.tabOf, remote, t),
                        !.made = made]
      BY <1>3 DEF WithLocalTab
    <2>. HIDE DEF t, made
    <2>2. /\ DOMAIN d = Fields /\ d.panes = c.panes /\ d.wins = c.wins
          /\ d.attached = c.attached /\ d.tasks = c.tasks /\ d.paneOf = c.paneOf
          /\ d.tabs = With(c.tabs, t, << >>) /\ d.tabOf = With(c.tabOf, remote, t)
      BY <1>1, <2>1 DEF Fields
    <2>. HIDE DEF d
    <2>3. /\ DOMAIN d.tabs = DOMAIN c.tabs \cup {t}
          /\ \A x \in DOMAIN d.tabs : d.tabs[x] \in Seq(Ids(c))
          /\ d.tabOf[remote] = t
      BY <1>1, <2>2 DEF Sound, Fits, With
    <2>4. IsFiniteSet(DOMAIN d.tabs)
      <3>1. IsFiniteSet(DOMAIN c.tabs)
        BY DEF Sound, Fits
      <3>2. IsFiniteSet(DOMAIN c.tabs \cup {t})
        BY <3>1, FS_AddElement
      <3>. QED  BY <2>3, <3>2
    <2>5. Becoming(c, d, gone, closed)
      BY <2>2, <2>3, <2>4, Reshaped DEF Sound, Fits
    <2>. QED  BY <2>3, <2>5 DEF d
  <1>. QED  BY <1>2, <1>3

LEMMA WindowMade ==
  ASSUME NEW c, NEW gone, NEW closed, NEW t, NEW remote, Sound(c, gone, closed),
         t \in DOMAIN c.tabs
  PROVE  Becoming(c, InLocalWindow(c, t, remote), gone, closed)
  <1>. DEFINE d == InLocalWindow(c, t, remote)
  <1>1. DOMAIN c = Fields
    BY DEF Sound, Fits
  <1>2. SUFFICES /\ DOMAIN d = Fields /\ d.panes = c.panes /\ d.tabs = c.tabs
                 /\ d.attached = c.attached /\ d.paneOf = c.paneOf
                 /\ \A w \in DOMAIN d.wins : d.wins[w] \subseteq DOMAIN c.tabs
                 /\ MessagesOK(d.tasks, c, gone, closed)
    <2>. HIDE DEF d
    <2>. QED  BY Reshaped DEF Sound, Fits, d
  <1>3. MessagesOK(c.tasks, c, gone, closed) /\ \A w \in DOMAIN c.wins : c.wins[w] \subseteq DOMAIN c.tabs
    BY DEF Sound, Fits
  <1>4. CASE remote \in DOMAIN c.winOf
    <2>1. CASE c.winOf[remote] \in DOMAIN c.wins
      <3>. DEFINE wins == [c.wins EXCEPT ![c.winOf[remote]] = @ \cup {t}]
      <3>1. d = [c EXCEPT !.wins = wins]
        BY <1>4, <2>1 DEF InLocalWindow
      <3>2. \A w \in DOMAIN wins : wins[w] \subseteq DOMAIN c.tabs
        BY <1>3
      <3>. HIDE DEF wins
      <3>. QED  BY <1>1, <1>3, <3>1, <3>2 DEF Fields
    <2>2. CASE c.winOf[remote] \notin DOMAIN c.wins
      <3>1. d = [c EXCEPT !.panicked = TRUE]
        BY <1>4, <2>2 DEF InLocalWindow
      <3>. QED  BY <1>1, <1>3, <3>1 DEF Fields
    <2>. QED  BY <2>1, <2>2
  <1>5. CASE remote \notin DOMAIN c.winOf /\ c.primary # 0
    <2>. DEFINE wins == [c.wins EXCEPT ![c.primary] = @ \cup {t}]
    <2>1. d = [c EXCEPT !.winOf = With(c.winOf, remote, c.primary), !.wins = wins, !.primary = 0]
      BY <1>5 DEF InLocalWindow
    <2>2. \A w \in DOMAIN wins : wins[w] \subseteq DOMAIN c.tabs
      BY <1>3
    <2>. HIDE DEF wins
    <2>. QED  BY <1>1, <1>3, <2>1, <2>2 DEF Fields
  <1>6. CASE remote \notin DOMAIN c.winOf /\ ~ (c.primary # 0)
    <2>. DEFINE w == c.made.window + 1
                made == [c.made EXCEPT !.window = w]
                b == [c EXCEPT !.wins = With(c.wins, w, {t}), !.winOf = With(c.winOf, remote, w),
                               !.made = made]
    <2>1. d = [b EXCEPT !.tasks = Append(b.tasks, Task("prune", {}))]
      BY <1>6 DEF InLocalWindow, Scheduled
    <2>. HIDE DEF w, made
    <2>2. /\ DOMAIN b = Fields /\ b.panes = c.panes /\ b.tabs = c.tabs
          /\ b.attached = c.attached /\ b.paneOf = c.paneOf
          /\ b.wins = With(c.wins, w, {t}) /\ b.tasks = c.tasks
      BY <1>1 DEF Fields
    <2>. HIDE DEF b
    <2>3. \A x \in DOMAIN b.wins : b.wins[x] \subseteq DOMAIN c.tabs
      BY <1>3, <2>2 DEF With
    <2>4. MessagesOK(Append(b.tasks, Task("prune", {})), c, gone, closed)
      BY <1>3, <2>2, MessageAdded DEF Task, MessageOK
    <2>. QED  BY <2>1, <2>2, <2>3, <2>4 DEF Fields
  <1>. QED  BY <1>4, <1>5, <1>6

Syncs(a, c, tabs) ==
    /\ \A n \in 0 .. Len(tabs) : a[n] = IF n = 0 THEN c ELSE SyncTab(a[n - 1], tabs[n])
    /\ SyncTabs(c, tabs) = a[Len(tabs)]

LEMMA SyncRecursion ==
  ASSUME NEW c, NEW tabs, Len(tabs) \in Nat
  PROVE  \E a : Syncs(a, c, tabs)
  <1>. DEFINE L == Len(tabs)
              Body(f, n) == IF n = 0 THEN c ELSE SyncTab(f[n - 1], tabs[n])
              R(f) == f = [n \in 0 .. L |-> Body(f, n)]
              P == {k \in 0 .. L : \E f : f = [n \in 0 .. k |-> Body(f, n)]}
  <1>1. 0 \in P
    <2>. DEFINE f == [n \in 0 .. 0 |-> c]
    <2>1. \A n \in 0 .. 0 : Body(f, n) = c
      OBVIOUS
    <2>. HIDE DEF Body
    <2>2. f = [n \in 0 .. 0 |-> Body(f, n)]
      BY <2>1
    <2>. HIDE DEF f
    <2>3. 0 \in 0 .. L
      OBVIOUS
    <2>. QED  BY <2>2, <2>3
  <1>2. ASSUME NEW k \in 1 .. L, k - 1 \in P PROVE k \in P
    <2>1. PICK f : f = [n \in 0 .. k - 1 |-> Body(f, n)]
      BY <1>2
    <2>. DEFINE g == [n \in 0 .. k |-> IF n = k THEN Body(f, k) ELSE f[n]]
    <2>2. \A n \in 0 .. k : g[n] = Body(g, n)
      <3>. TAKE n \in 0 .. k
      <3>1. CASE n = 0
        BY <2>1, <3>1
      <3>2. CASE n # 0
        <4>1. n - 1 \in 0 .. k - 1 /\ g[n - 1] = f[n - 1]
          BY <3>2
        <4>2. Body(g, n) = Body(f, n)
          BY <4>1, <3>2
        <4>3. g[n] = Body(f, n)
          <5>. HIDE DEF Body
          <5>1. n # k => n \in 0 .. k - 1 /\ f[n] = Body(f, n)
            BY <2>1
          <5>. QED  BY <5>1
        <4>. QED  BY <4>2, <4>3
      <3>. QED  BY <3>1, <3>2
    <2>3. g = [n \in 0 .. k |-> Body(g, n)]
      <3>. HIDE DEF Body
      <3>. QED  BY <2>2
    <2>. HIDE DEF g, Body
    <2>. QED  BY <2>3
  <1>3. \E f : R(f)
    <2>. HIDE DEF P, Body
    <2>1. \A i \in 1 .. L : i - 1 \in P => i \in P
      BY <1>2
    <2>2. \A i \in 0 .. L : i \in P
      BY <1>1, <2>1, UpTo
    <2>3. L \in P
      BY <2>2
    <2>. QED  BY <2>3 DEF P
  <1>4. SyncTabs(c, tabs) = (CHOOSE f : R(f))[L]
    BY DEF SyncTabs
  <1>5. R(CHOOSE f : R(f))
    <2>. HIDE DEF R
    <2>. QED  BY <1>3
  <1>6. \E f : R(f) /\ SyncTabs(c, tabs) = f[L]
    <2>. HIDE DEF R
    <2>. QED  BY <1>4, <1>5
  <1>. QED  BY <1>6 DEF Syncs

LEMMA TabSynced ==
  ASSUME NEW c, NEW gone, NEW closed, NEW entry, Sound(c, gone, closed), entry.panes \in Seq(Nat)
  PROVE  Becoming(c, SyncTab(c, entry), gone, closed)
  <1>1. CASE c.panicked
    BY <1>1, Steady DEF SyncTab
  <1>2. CASE ~ c.panicked
    <2>. DEFINE with == WithLocalTab(c, entry.tab)
                t == with.tabOf[entry.tab]
                placed == WithPanes(with, t, entry.panes)
    <2>1. SyncTab(c, entry) = InLocalWindow(placed, t, entry.window)
      BY <1>2 DEF SyncTab
    <2>2. Becoming(c, with, gone, closed) /\ t \in DOMAIN with.tabs
      BY TabMade
    <2>. HIDE DEF t, with
    <2>3. Becoming(with, placed, gone, closed) /\ t \in DOMAIN placed.tabs
      BY <2>2, PanesPlaced DEF Becoming
    <2>. HIDE DEF placed
    <2>4. Becoming(placed, SyncTab(c, entry), gone, closed)
      BY <2>1, <2>3, WindowMade DEF Becoming
    <2>. QED  BY <2>2, <2>3, <2>4, BecomingTwice
  <1>. QED  BY <1>1, <1>2

(* A list of the server's tabs, as it may be on its way.                   *)
IsListing(tabs) == Len(tabs) \in Nat /\ \A i \in 1 .. Len(tabs) : tabs[i].panes \in Seq(Nat)

LEMMA TabsSynced ==
  ASSUME NEW c, NEW gone, NEW closed, NEW tabs, Sound(c, gone, closed), IsListing(tabs)
  PROVE  Becoming(c, SyncTabs(c, tabs), gone, closed)
  <1>. DEFINE L == Len(tabs)
  <1>1. L \in Nat
    BY DEF IsListing
  <1>2. PICK a : /\ \A n \in 0 .. L :
                       a[n] = IF n = 0 THEN c ELSE SyncTab(a[n - 1], tabs[n])
                 /\ SyncTabs(c, tabs) = a[L]
    <2>1. \E a : Syncs(a, c, tabs)
      BY <1>1, SyncRecursion
    <2>. QED  BY <2>1 DEF Syncs
  <1>. DEFINE P == {n \in 0 .. L : Becoming(c, a[n], gone, closed)}
  <1>3. 0 \in P
    <2>1. a[0] = c /\ 0 \in 0 .. L
      BY <1>1, <1>2
    <2>. QED  BY <2>1, Steady
  <1>4. ASSUME NEW n \in 1 .. L, n - 1 \in P PROVE n \in P
    <2>1. Becoming(c, a[n - 1], gone, closed)
      BY <1>4
    <2>2. n \in 0 .. L /\ n # 0 /\ tabs[n].panes \in Seq(Nat)
      BY <1>1 DEF IsListing
    <2>3. a[n] = SyncTab(a[n - 1], tabs[n])
      BY <1>2, <2>2
    <2>4. Becoming(a[n - 1], a[n], gone, closed)
      BY <2>1, <2>2, <2>3, TabSynced DEF Becoming
    <2>. QED  BY <2>1, <2>2, <2>4, BecomingTwice
  <1>5. \A i \in 0 .. L : i \in P
    <2>. HIDE DEF P
    <2>1. \A i \in 1 .. L : i - 1 \in P => i \in P
      BY <1>4
    <2>. QED  BY <1>1, <1>3, <2>1, UpTo
  <1>. QED  BY <1>1, <1>2, <1>5

(* Entries of the maps may go at any time.                                 *)
LEMMA MapsCut ==
  ASSUME NEW c, NEW d, NEW gone, NEW closed, NEW R, Sound(c, gone, closed),
         DOMAIN d = Fields, d.panes = c.panes, d.attached = c.attached, d.tabs = c.tabs,
         d.wins = c.wins, d.tasks = c.tasks,
         d.paneOf = Restrict(c.paneOf, R), R \subseteq DOMAIN c.paneOf
  PROVE  Becoming(c, d, gone, closed)
  <1>1. \A r \in DOMAIN d.paneOf : d.paneOf[r] \in Ids(c) /\ c.panes[d.paneOf[r]].remote = r
    BY DEF Restrict, Sound, Fits
  <1>. QED  BY <1>1, Reshaped DEF Sound, Fits

LEMMA ListSynced ==
  ASSUME NEW c, NEW gone, NEW closed, NEW tabs, Sound(c, gone, closed), IsListing(tabs)
  PROVE  Becoming(c, Synced(c, tabs), gone, closed)
  <1>. DEFINE all == SyncTabs(c, tabs)
              seen == Range(tabs)
              wins == Restrict(all.winOf, DOMAIN all.winOf \ (DOMAIN c.winOf \ {e.window : e \in seen}))
              tabOf == Restrict(all.tabOf, DOMAIN all.tabOf \ (DOMAIN c.tabOf \ {e.tab : e \in seen}))
              R == DOMAIN all.paneOf \ (DOMAIN c.paneOf \ UNION {Range(e.panes) : e \in seen})
              d == Synced(c, tabs)
  <1>1. d = [all EXCEPT !.winOf = wins, !.tabOf = tabOf, !.paneOf = Restrict(all.paneOf, R)]
    BY DEF Synced
  <1>2. Becoming(c, all, gone, closed) /\ Sound(all, gone, closed) /\ DOMAIN all = Fields
    <2>1. Becoming(c, all, gone, closed)
      BY TabsSynced
    <2>. HIDE DEF all
    <2>. QED  BY <2>1 DEF Becoming, Sound, Fits
  <1>3. R \subseteq DOMAIN all.paneOf
    OBVIOUS
  <1>. HIDE DEF wins, tabOf, R, all
  <1>4. /\ DOMAIN d = Fields /\ d.panes = all.panes /\ d.attached = all.attached
        /\ d.tabs = all.tabs /\ d.wins = all.wins /\ d.tasks = all.tasks
        /\ d.paneOf = Restrict(all.paneOf, R)
    BY <1>1, <1>2 DEF Fields
  <1>. HIDE DEF d
  <1>5. Becoming(all, d, gone, closed)
    BY <1>2, <1>3, <1>4, MapsCut
  <1>. QED  BY <1>2, <1>5, BecomingTwice DEF d

LEMMA MappingsExpired ==
  ASSUME NEW c, NEW gone, NEW closed, Sound(c, gone, closed)
  PROVE  Becoming(c, Expired(c), gone, closed)
  <1>. DEFINE d == Expired(c)
              R == {r \in DOMAIN c.paneOf : Known(c, c.paneOf[r])}
  <1>1. /\ DOMAIN d = Fields /\ d.panes = c.panes /\ d.attached = c.attached
        /\ d.tabs = c.tabs /\ d.wins = c.wins /\ d.tasks = c.tasks
        /\ d.paneOf = Restrict(c.paneOf, R)
    BY DEF Expired, Sound, Fits, Fields
  <1>2. R \subseteq DOMAIN c.paneOf
    OBVIOUS
  <1>. HIDE DEF R, d
  <1>. QED  BY <1>1, <1>2, MapsCut DEF d

LEMMA RemovalHeard ==
  ASSUME NEW c, NEW gone, NEW closed, NEW p \in Ids(c), Sound(c, gone, closed),
         c.panes[p].remote \in gone
  PROVE  Becoming(c, PaneRemoved(c, p), gone, closed)
  <1>. DEFINE pane == [c.panes[p] EXCEPT !.dead = TRUE]
              panes == [c.panes EXCEPT ![p] = pane]
              d == [c EXCEPT !.panes = panes]
  <1>1. PaneRemoved(c, p) = Expired(Prune(d))
    BY DEF PaneRemoved
  <1>2. /\ DOMAIN c = Fields /\ c.panes \in Seq(PaneRecords) /\ Len(c.panes) \in Nat
        /\ p \in 1 .. Len(c.panes)
    BY LenProperties DEF Sound, Fits, Ids
  <1>3. /\ pane \in PaneRecords /\ pane.remote = c.panes[p].remote
        /\ pane.known = c.panes[p].known /\ pane.dead
    <2>1. c.panes[p] \in PaneRecords
      BY <1>2, ElementOfSeq
    <2>. QED  BY <2>1 DEF PaneRecords
  <1>. HIDE DEF pane
  <1>4. /\ panes \in Seq(PaneRecords) /\ Len(panes) = Len(c.panes)
        /\ \A q \in 1 .. Len(c.panes) : panes[q] = IF q = p THEN pane ELSE c.panes[q]
    BY <1>2, <1>3, ExceptSeq
  <1>. HIDE DEF panes
  <1>5. /\ DOMAIN d = Fields /\ d.panes = panes /\ d.tabs = c.tabs /\ d.wins = c.wins
        /\ d.paneOf = c.paneOf /\ d.attached = c.attached /\ d.tasks = c.tasks
    BY <1>2 DEF Fields
  <1>. HIDE DEF d
  <1>6. Ids(d) = Ids(c)
    BY <1>4, <1>5 DEF Ids
  <1>7. Later(c, d)
    BY <1>2, <1>3, <1>4, <1>5 DEF Later, Ids
  <1>8. Fits(d) /\ DeadAreGone(d, gone)
    BY <1>3, <1>4, <1>5, <1>6 DEF Sound, Fits, DeadAreGone, Ids
  <1>9. MessagesOK(d.tasks, d, gone, closed)
    BY <1>2, <1>4, <1>5, <1>7, MessagesStayOK DEF Sound
  <1>10. Becoming(c, d, gone, closed)
    BY <1>7, <1>8, <1>9 DEF Becoming, Sound
  <1>11. Becoming(c, Prune(d), gone, closed)
    BY <1>10, PrunedToo
  <1>12. Becoming(Prune(d), Expired(Prune(d)), gone, closed)
    BY <1>11, MappingsExpired DEF Becoming
  <1>. QED  BY <1>1, <1>11, <1>12, BecomingTwice

------------------------------------------------------------------------------
(* The tasks of the main thread.                                           *)

(* More panes may be gone, and more may have been closed.                  *)
LEMMA StaysSound ==
  ASSUME NEW c, NEW gone, NEW closed, NEW gone2, NEW closed2, Sound(c, gone, closed),
         gone \subseteq gone2, closed \subseteq closed2
  PROVE  Sound(c, gone2, closed2)
  <1>1. c.panes \in Seq(PaneRecords) /\ Later(c, c)
    BY LenProperties DEF Sound, Fits, Later
  <1>2. MessagesOK(c.tasks, c, gone2, closed2)
    BY <1>1, MessagesStayOK DEF Sound
  <1>. QED  BY <1>2 DEF Sound, DeadAreGone

(* What a step makes of the client goes into its place, the tasks behind   *)
(* the rest.                                                               *)
LEMMA StepTaken ==
  ASSUME NEW c, NEW rest, NEW gone, NEW closed,
         Sound(client, gone, closed), Becoming(client, c, gone, closed),
         MessagesOK(rest, client, gone, closed), Becomes(c, rest)
  PROVE  /\ Becoming(client, client', gone, closed)
         /\ MessagesOK(queue', client', gone, closed)
  <1>1. Sound(c, gone, closed) /\ Later(client, c)
    BY DEF Becoming
  <1>2. /\ client.panes \in Seq(PaneRecords) /\ c.panes \in Seq(PaneRecords)
        /\ DOMAIN c = Fields
    BY <1>1 DEF Sound, Fits
  <1>3. MessagesOK(rest \o c.tasks, c, gone, closed)
    <2>1. MessagesOK(rest, c, gone, closed)
      BY <1>1, <1>2, MessagesStayOK
    <2>. QED  BY <1>1, <2>1, MessagesJoin DEF Sound
  <1>. DEFINE d == [c EXCEPT !.tasks = << >>]
  <1>4. client' = d /\ queue' = rest \o c.tasks
    BY DEF Becomes
  <1>5. /\ DOMAIN d = Fields /\ d.panes = c.panes /\ d.tabs = c.tabs /\ d.wins = c.wins
        /\ d.paneOf = c.paneOf /\ d.attached = c.attached /\ d.tasks = << >>
    BY <1>2 DEF Fields
  <1>. HIDE DEF d
  <1>6. Becoming(c, d, gone, closed)
    BY <1>1, <1>5, NoMessages, Reshaped DEF Sound, Fits
  <1>7. Becoming(client, d, gone, closed)
    BY <1>6, BecomingTwice
  <1>8. Later(c, d) /\ d.panes \in Seq(PaneRecords)
    BY <1>6 DEF Becoming, Sound, Fits
  <1>9. MessagesOK(queue', d, gone, closed)
    BY <1>2, <1>3, <1>4, <1>8, MessagesStayOK
  <1>. QED  BY <1>4, <1>7, <1>9

LEMMA TaskScheduled ==
  ASSUME NEW c, NEW gone, NEW closed, NEW m, Sound(c, gone, closed),
         MessageOK(m, c, gone, closed)
  PROVE  Becoming(c, Scheduled(c, m), gone, closed)
  <1>. DEFINE d == Scheduled(c, m)
  <1>1. DOMAIN c = Fields
    BY DEF Sound, Fits
  <1>2. /\ DOMAIN d = Fields /\ d.panes = c.panes /\ d.tabs = c.tabs /\ d.wins = c.wins
        /\ d.paneOf = c.paneOf /\ d.attached = c.attached /\ d.tasks = Append(c.tasks, m)
    BY <1>1 DEF Scheduled, Fields
  <1>. HIDE DEF d
  <1>3. MessagesOK(d.tasks, c, gone, closed)
    BY <1>2, MessageAdded DEF Sound
  <1>4. Becoming(c, d, gone, closed)
    BY <1>2, <1>3, Reshaped DEF Sound, Fits
  <1>. QED  BY <1>4 DEF d

(* The number of activities is of no account.                              *)
LEMMA BusyChanged ==
  ASSUME NEW c, NEW gone, NEW closed, NEW n, Sound(c, gone, closed)
  PROVE  Becoming(c, [c EXCEPT !.busy = n], gone, closed)
  <1>. DEFINE d == [c EXCEPT !.busy = n]
  <1>1. DOMAIN c = Fields
    BY DEF Sound, Fits
  <1>2. /\ DOMAIN d = Fields /\ d.panes = c.panes /\ d.tabs = c.tabs /\ d.wins = c.wins
        /\ d.paneOf = c.paneOf /\ d.attached = c.attached /\ d.tasks = c.tasks
    BY <1>1 DEF Fields
  <1>. HIDE DEF d
  <1>3. Becoming(c, d, gone, closed)
    BY <1>2, Reshaped DEF Sound, Fits
  <1>. QED  BY <1>3 DEF d

LEMMA ActivityEnds ==
  ASSUME NEW c, NEW gone, NEW closed, Sound(c, gone, closed)
  PROVE  Becoming(c, Released(c), gone, closed)
  <1>. DEFINE d == [c EXCEPT !.busy = c.busy - 1]
  <1>1. Released(c) = Scheduled(d, Task("prune", {}))
    BY DEF Released
  <1>2. Becoming(c, d, gone, closed)
    BY BusyChanged
  <1>. HIDE DEF d
  <1>3. MessageOK(Task("prune", {}), d, gone, closed)
    BY DEF MessageOK, Task
  <1>4. Becoming(d, Released(c), gone, closed)
    BY <1>1, <1>2, <1>3, TaskScheduled DEF Becoming
  <1>. QED  BY <1>2, <1>4, BecomingTwice

LEMMA ActivityEndsToo ==
  ASSUME NEW c, NEW d, NEW gone, NEW closed, Sound(c, gone, closed), Becoming(c, d, gone, closed)
  PROVE  Becoming(c, Released(d), gone, closed)
  <1>1. Becoming(d, Released(d), gone, closed)
    BY ActivityEnds DEF Becoming
  <1>. QED  BY <1>1, BecomingTwice

(* A pane that is new to the client and in no tab.                         *)
LEMMA PaneMade ==
  ASSUME NEW c, NEW gone, NEW closed, NEW r \in Nat, Sound(c, gone, closed)
  PROVE  Becoming(c, NewPane(c, r), gone, closed)
  <1>. DEFINE pane == [remote |-> r, dead |-> FALSE, known |-> TRUE]
              d == NewPane(c, r)
  <1>1. /\ DOMAIN c = Fields /\ Len(c.panes) \in Nat
        /\ \A t \in DOMAIN c.tabs : c.tabs[t] \in Seq(Ids(c))
    BY LenProperties DEF Sound, Fits
  <1>2. \A t \in DOMAIN c.tabs : c.tabs[t] \in Seq(1 .. Len(c.panes) + 1)
    <2>1. Ids(c) \subseteq 1 .. Len(c.panes) + 1
      BY <1>1 DEF Ids
    <2>. QED  BY <1>1, <2>1, SeqMonotonic
  <1>3. /\ DOMAIN d = Fields /\ d.panes = Append(c.panes, pane) /\ d.tabs = c.tabs
        /\ d.wins = c.wins /\ d.paneOf = c.paneOf /\ d.attached = c.attached
        /\ d.tasks = c.tasks
    BY <1>1 DEF NewPane, Fields
  <1>. HIDE DEF d
  <1>4. Becoming(c, d, gone, closed)
    BY <1>2, <1>3, Grown DEF Sound, Fits
  <1>. QED  BY <1>4 DEF d

(* The tasks and messages of a state, and what a task leaves of them.      *)
TaskDone(gone, closed) ==
    /\ Becoming(client, client', gone, closed)
    /\ MessagesOK(queue', client', gone, closed)

LEMMA RemovalTold ==
  ASSUME NEW gone, NEW closed, NEW p \in gone, Sound(client, gone, closed),
         MessagesOK(Tail(queue), client, gone, closed), HearOfRemoval(p)
  PROVE  /\ TaskDone(gone, closed)
         /\ up' = up \/ up' = Append(up, AskForList(p))
  <1>. DEFINE here == {q \in Lookup(client, p) : Known(client, q)}
              c == Mapped(client, p)
  <1>1. CASE ~ client.attached
    <2>1. Becomes(client, Tail(queue)) /\ up' = up
      BY <1>1 DEF HearOfRemoval
    <2>. QED  BY <2>1, Steady, StepTaken DEF TaskDone
  <1>2. CASE client.attached /\ here = {}
    <2>1. Becomes(c, Tail(queue)) /\ up' = Append(up, AskForList(p))
      BY <1>2 DEF HearOfRemoval
    <2>2. Becoming(client, c, gone, closed)
      BY MappedKeeps
    <2>. HIDE DEF c
    <2>. QED  BY <2>1, <2>2, StepTaken DEF TaskDone
  <1>3. CASE client.attached /\ here # {}
    <2>1. PICK q \in here : Becomes(PaneRemoved(c, q), Tail(queue)) /\ up' = up
      BY <1>3 DEF HearOfRemoval
    <2>2. q \in Ids(client) /\ client.panes[q].remote = p
      BY LookupFinds
    <2>3. Becoming(client, c, gone, closed) /\ c.panes = client.panes
      BY MappedKeeps
    <2>. HIDE DEF c
    <2>4. Becoming(c, PaneRemoved(c, q), gone, closed)
      BY <2>2, <2>3, RemovalHeard DEF Becoming, Ids
    <2>5. Becoming(client, PaneRemoved(c, q), gone, closed)
      BY <2>3, <2>4, BecomingTwice
    <2>. QED  BY <2>1, <2>5, StepTaken DEF TaskDone
  <1>. QED  BY <1>1, <1>2, <1>3

LEMMA ListHeard ==
  ASSUME NEW gone, NEW closed, NEW task, Sound(client, gone, closed),
         MessageOK(task, client, gone, closed), task.kind = "list",
         MessagesOK(Tail(queue), client, gone, closed), GetList(task)
  PROVE  TaskDone(gone, closed)
  <1>. DEFINE c == Synced(client, task.tabs)
              here == {q \in Lookup(c, task.for) : Known(c, q)}
              d == Mapped(c, task.for)
  <1>1. Becoming(client, c, gone, closed)
    <2>1. IsListing(task.tabs)
      BY DEF MessageOK, IsListing
    <2>. QED  BY <2>1, ListSynced
  <1>2. CASE task.for = 0 \/ c.panicked \/ ~ c.attached \/ here = {}
    <2>1. Becomes(c, Tail(queue))
      BY <1>2 DEF GetList
    <2>. HIDE DEF c
    <2>. QED  BY <1>1, <2>1, StepTaken DEF TaskDone
  <1>3. CASE ~ (task.for = 0 \/ c.panicked \/ ~ c.attached \/ here = {})
    <2>1. PICK q \in here : Becomes(PaneRemoved(d, q), Tail(queue))
      BY <1>3 DEF GetList
    <2>2. task.for \in gone
      BY <1>3 DEF MessageOK
    <2>. HIDE DEF c
    <2>3. Sound(c, gone, closed) /\ q \in Ids(c) /\ c.panes[q].remote = task.for
      BY <1>1, LookupFinds DEF Becoming
    <2>4. Becoming(c, d, gone, closed) /\ d.panes = c.panes
      BY <2>3, MappedKeeps
    <2>. HIDE DEF d
    <2>5. Becoming(d, PaneRemoved(d, q), gone, closed)
      BY <2>2, <2>3, <2>4, RemovalHeard DEF Becoming, Ids
    <2>6. Becoming(c, PaneRemoved(d, q), gone, closed)
      BY <2>3, <2>4, <2>5, BecomingTwice
    <2>7. Becoming(client, PaneRemoved(d, q), gone, closed)
      BY <1>1, <2>6, BecomingTwice
    <2>. QED  BY <2>1, <2>7, StepTaken DEF TaskDone
  <1>. QED  BY <1>2, <1>3

LEMMA SpawnFinished ==
  ASSUME NEW gone, NEW closed, NEW reply, Sound(client, gone, closed), reply.pane \in Nat,
         MessagesOK(Tail(queue), client, gone, closed), FinishSpawn(reply)
  PROVE  TaskDone(gone, closed)
  <1>. DEFINE w == calls[reply.call].about.window
              p == Len(client.panes) + 1
              t == client.made.tab + 1
              pane == [remote |-> reply.pane, dead |-> FALSE, known |-> TRUE]
              made == [client.made EXCEPT !.tab = t]
              new == NewPane(client, reply.pane)
              c == [new EXCEPT !.winOf = With(new.winOf, reply.window, w),
                               !.tabs = With(new.tabs, t, <<p>>), !.made = made,
                               !.tabOf = With(new.tabOf, reply.tab, t)]
              wins == [c.wins EXCEPT ![w] = c.wins[w] \cup {t}]
              there == IF w \in DOMAIN c.wins THEN [c EXCEPT !.wins = wins] ELSE c
  <1>1. /\ DOMAIN client = Fields /\ Len(client.panes) \in Nat
        /\ IsFiniteSet(DOMAIN client.tabs)
        /\ \A x \in DOMAIN client.tabs : client.tabs[x] \in Seq(Ids(client))
        /\ \A x \in DOMAIN client.wins : client.wins[x] \subseteq DOMAIN client.tabs
    BY LenProperties DEF Sound, Fits
  <1>2. /\ DOMAIN new = Fields /\ new.panes = Append(client.panes, pane)
        /\ new.tabs = client.tabs /\ new.wins = client.wins /\ new.paneOf = client.paneOf
        /\ new.attached = client.attached /\ new.tasks = client.tasks
        /\ new.made = client.made
    BY <1>1 DEF NewPane, Fields
  <1>3. Becomes(Released(there), Tail(queue))
    <2>1. c = [new EXCEPT !.winOf = With(@, reply.window, w),
                          !.tabs = With(@, t, <<p>>), !.made.tab = t,
                          !.tabOf = With(@, reply.tab, t)]
      BY <1>2
    <2>. QED  BY <2>1 DEF FinishSpawn
  <1>. HIDE DEF new, w, made
  <1>4. /\ DOMAIN c = Fields /\ c.panes = Append(client.panes, pane)
        /\ c.tabs = With(client.tabs, t, <<p>>) /\ c.wins = client.wins
        /\ c.paneOf = client.paneOf /\ c.attached = client.attached
        /\ c.tasks = client.tasks
    BY <1>2 DEF Fields
  <1>. HIDE DEF c
  <1>5. /\ DOMAIN there = Fields /\ there.panes = c.panes /\ there.tabs = c.tabs
        /\ there.paneOf = c.paneOf /\ there.attached = c.attached /\ there.tasks = c.tasks
        /\ there.wins = IF w \in DOMAIN c.wins THEN wins ELSE c.wins
    BY <1>4 DEF Fields
  <1>. HIDE DEF there, t
  <1>6. IsFiniteSet(DOMAIN there.tabs) /\ DOMAIN there.tabs = DOMAIN client.tabs \cup {t}
    <2>1. DOMAIN there.tabs = DOMAIN client.tabs \cup {t}
      BY <1>4, <1>5 DEF With
    <2>2. IsFiniteSet(DOMAIN client.tabs \cup {t})
      BY <1>1, FS_AddElement
    <2>. QED  BY <2>1, <2>2
  <1>7. \A x \in DOMAIN there.tabs : there.tabs[x] \in Seq(1 .. Len(client.panes) + 1)
    <2>1. Ids(client) \subseteq 1 .. Len(client.panes) + 1 /\ p \in 1 .. Len(client.panes) + 1
      BY <1>1 DEF Ids
    <2>2. \A x \in DOMAIN client.tabs : client.tabs[x] \in Seq(1 .. Len(client.panes) + 1)
      BY <1>1, <2>1, SeqMonotonic
    <2>3. <<p>> \in Seq(1 .. Len(client.panes) + 1)
      BY <2>1
    <2>. HIDE DEF p
    <2>. QED  BY <1>4, <1>5, <2>2, <2>3 DEF With
  <1>8. \A x \in DOMAIN there.wins : there.wins[x] \subseteq DOMAIN there.tabs
    BY <1>1, <1>4, <1>5, <1>6
  <1>9. Becoming(client, there, gone, closed)
    <2>1. /\ there.attached => client.attached
          /\ there.panes = Append(client.panes, [remote |-> reply.pane, dead |-> FALSE,
                                                 known |-> TRUE])
          /\ there.paneOf = client.paneOf /\ there.tasks = client.tasks
      BY <1>4, <1>5
    <2>2. /\ MessagesOK(there.tasks, client, gone, closed)
          /\ \A x \in DOMAIN there.paneOf : /\ there.paneOf[x] \in Ids(client)
                                            /\ client.panes[there.paneOf[x]].remote = x
      BY <2>1 DEF Sound, Fits
    <2>. HIDE DEF p, wins, pane
    <2>. QED  BY <1>5, <1>6, <1>7, <1>8, <2>1, <2>2, Grown
  <1>. QED  BY <1>3, <1>9, ActivityEndsToo, StepTaken DEF TaskDone

LEMMA SplitFinished ==
  ASSUME NEW gone, NEW closed, NEW reply, Sound(client, gone, closed), reply.pane \in Nat,
         MessagesOK(Tail(queue), client, gone, closed), FinishSplit(reply)
  PROVE  TaskDone(gone, closed)
  <1>. DEFINE t == calls[reply.call].about.tab
              new == NewPane(client, reply.pane)
              n == Len(new.panes)
              tree == Append(new.tabs[t], n)
              tabs == [new.tabs EXCEPT ![t] = tree]
              put == [new EXCEPT !.tabs = tabs]
  <1>1. \/ \E c \in {client, new} : Becomes(Released(c), Tail(queue))
        \/ t \in DOMAIN client.tabs /\ Becomes(Released(put), Tail(queue))
    <2>. DEFINE into == IF Len(client.tabs[t]) < TabCapacity THEN put ELSE new
    <2>1. IF t \in DOMAIN client.tabs
          THEN Becomes(Released(IF calls[reply.call].about.pane \in Range(client.tabs[t])
                                THEN into ELSE client), Tail(queue))
          ELSE \E c \in {client, new} : Becomes(Released(c), Tail(queue))
      BY DEF FinishSplit
    <2>. HIDE DEF t, new, put
    <2>. QED  BY <2>1
  <1>2. Becoming(client, new, gone, closed)
    BY PaneMade
  <1>3. DOMAIN client = Fields /\ client.panes \in Seq(PaneRecords)
    BY DEF Sound, Fits
  <1>4. /\ new.tabs = client.tabs /\ n = Len(client.panes) + 1
        /\ DOMAIN new = Fields /\ n \in Ids(new)
    <2>1. new.tabs = client.tabs /\ new.panes = Append(client.panes, [remote |-> reply.pane,
                                                      dead |-> FALSE, known |-> TRUE])
      BY <1>3 DEF NewPane, Fields
    <2>2. DOMAIN new = Fields /\ new.panes \in Seq(PaneRecords)
      BY <1>2 DEF Becoming, Sound, Fits
    <2>3. [remote |-> reply.pane, dead |-> FALSE, known |-> TRUE] \in PaneRecords
      BY DEF PaneRecords
    <2>. HIDE DEF new
    <2>4. n = Len(client.panes) + 1 /\ Len(client.panes) \in Nat
      BY <1>3, <2>1, <2>3, AppendProperties, LenProperties
    <2>. QED  BY <2>1, <2>2, <2>4 DEF Ids
  <1>. HIDE DEF new, n
  <1>5. ASSUME t \in DOMAIN client.tabs PROVE Becoming(client, put, gone, closed)
    <2>1. Sound(new, gone, closed)
      BY <1>2 DEF Becoming
    <2>2. new.tabs[t] \in Seq(Ids(new))
      BY <1>4, <1>5, <2>1 DEF Sound, Fits
    <2>3. tree \in Seq(Ids(new))
      BY <1>4, <2>2, AppendProperties
    <2>. HIDE DEF tree, t
    <2>4. /\ DOMAIN put = Fields /\ put.panes = new.panes /\ put.tabs = tabs
          /\ put.wins = new.wins /\ put.paneOf = new.paneOf
          /\ put.attached = new.attached /\ put.tasks = new.tasks
      BY <1>4 DEF Fields
    <2>5. DOMAIN tabs = DOMAIN new.tabs /\ \A x \in DOMAIN tabs : tabs[x] \in Seq(Ids(new))
      BY <2>1, <2>3 DEF Sound, Fits
    <2>. HIDE DEF tabs, put
    <2>6. Becoming(new, put, gone, closed)
      BY <2>1, <2>4, <2>5, Reshaped DEF Sound, Fits
    <2>. QED  BY <1>2, <2>6, BecomingTwice
  <1>. HIDE DEF put, t
  <1>6. \E c : Becoming(client, c, gone, closed) /\ Becomes(Released(c), Tail(queue))
    BY <1>1, <1>2, <1>5, Steady
  <1>7. PICK c : Becoming(client, c, gone, closed) /\ Becomes(Released(c), Tail(queue))
    BY <1>6
  <1>. QED  BY <1>7, ActivityEndsToo, StepTaken DEF TaskDone

------------------------------------------------------------------------------
(* The server.                                                             *)

ServerFields == {"trees", "window", "leaving", "spawning", "made", "moved"}

PanesOn(s) == UNION {Range(s.trees[t]) : t \in DOMAIN s.trees}

(* A pane that was made and is in no tab stays out of every tab.           *)
GoneOn(s) == (1 .. s.made.pane) \ PanesOn(s)

ServerSound(s) ==
    /\ DOMAIN s = ServerFields
    /\ DOMAIN s.made = {"pane", "tab", "window"}
    /\ s.made.pane \in Nat
    /\ IsFiniteSet(DOMAIN s.trees)
    /\ \A t \in DOMAIN s.trees : s.trees[t] \in Seq(1 .. s.made.pane)
    /\ s.leaving \subseteq GoneOn(s)

LEMMA PanesLeave ==
  ASSUME NEW s, NEW ps, ServerSound(s)
  PROVE  /\ ServerSound(Without(s, ps))
         /\ PanesOn(Without(s, ps)) = PanesOn(s) \ ps
         /\ Without(s, ps).made = s.made /\ Without(s, ps).leaving = s.leaving
  <1>. DEFINE left == [t \in DOMAIN s.trees |-> Remainder(s.trees[t], ps)]
              kept == {t \in DOMAIN s.trees : left[t] # << >>}
              d == Without(s, ps)
  <1>1. \A t \in DOMAIN s.trees : /\ left[t] \in Seq(1 .. s.made.pane)
                                  /\ Range(left[t]) = Range(s.trees[t]) \ ps
    BY RemainderOf DEF ServerSound
  <1>2. kept \subseteq DOMAIN s.trees /\ \A t \in DOMAIN s.trees : t \notin kept => Range(left[t]) = {}
    <2>1. Range(<< >>) = {}
      BY DEF Range
    <2>. QED  BY <2>1
  <1>3. d = [s EXCEPT !.trees = Restrict(left, kept), !.window = Restrict(s.window, kept)]
    BY DEF Without
  <1>4. DOMAIN left = DOMAIN s.trees
    OBVIOUS
  <1>. HIDE DEF left, kept
  <1>5. /\ DOMAIN d = ServerFields /\ d.made = s.made /\ d.leaving = s.leaving
        /\ d.trees = Restrict(left, kept)
    BY <1>3 DEF ServerSound, ServerFields
  <1>. HIDE DEF d
  <1>6. DOMAIN d.trees = kept /\ \A t \in kept : d.trees[t] = left[t]
    BY <1>2, <1>4, <1>5 DEF Restrict
  <1>7. PanesOn(d) = PanesOn(s) \ ps
    <2>1. \A t \in kept : Range(d.trees[t]) = Range(s.trees[t]) \ ps
      BY <1>1, <1>2, <1>6
    <2>2. \A t \in DOMAIN s.trees : t \notin kept => Range(s.trees[t]) \ ps = {}
      BY <1>1, <1>2
    <2>3. PanesOn(d) = UNION {Range(s.trees[t]) \ ps : t \in kept}
      BY <1>6, <2>1 DEF PanesOn
    <2>4. \A x : x \in PanesOn(s) \ ps <=> \E t \in kept : x \in Range(s.trees[t]) \ ps
      BY <1>2, <2>2 DEF PanesOn
    <2>. QED  BY <2>3, <2>4
  <1>8. IsFiniteSet(DOMAIN d.trees)
    BY <1>2, <1>6, FS_Subset DEF ServerSound
  <1>9. GoneOn(s) \subseteq GoneOn(d)
    BY <1>5, <1>7 DEF GoneOn
  <1>10. ServerSound(d)
    BY <1>1, <1>2, <1>5, <1>6, <1>8, <1>9 DEF ServerSound
  <1>. QED  BY <1>5, <1>7, <1>10 DEF d

LEMMA TabAdded ==
  ASSUME NEW s, NEW w, ServerSound(s), NEW p \in 1 .. s.made.pane, p \notin s.leaving
  PROVE  /\ ServerSound(WithTab(s, p, w))
         /\ PanesOn(WithTab(s, p, w)) \subseteq PanesOn(s) \cup {p}
         /\ WithTab(s, p, w).made.pane = s.made.pane
  <1>. DEFINE t == s.made.tab + 1
              n == IF w = 0 THEN s.made.window + 1 ELSE w
              made == [s.made EXCEPT !.tab = t, !.window = IF w = 0 THEN n ELSE s.made.window]
              d == WithTab(s, p, w)
  <1>1. DOMAIN s = ServerFields /\ DOMAIN s.made = {"pane", "tab", "window"}
    BY DEF ServerSound
  <1>2. d = [s EXCEPT !.trees = With(s.trees, t, <<p>>), !.window = With(s.window, t, n),
                      !.made = made]
    BY <1>1 DEF WithTab, ServerFields
  <1>3. DOMAIN made = {"pane", "tab", "window"} /\ made.pane = s.made.pane
    BY <1>1
  <1>. HIDE DEF made, n
  <1>4. /\ DOMAIN d = ServerFields /\ d.made = made /\ d.leaving = s.leaving
        /\ d.trees = With(s.trees, t, <<p>>)
    BY <1>1, <1>2 DEF ServerFields
  <1>. HIDE DEF d, t
  <1>5. /\ DOMAIN d.trees = DOMAIN s.trees \cup {t} /\ d.trees[t] = <<p>>
        /\ \A x \in DOMAIN s.trees : x # t => d.trees[x] = s.trees[x]
    BY <1>4 DEF With
  <1>6. Range(<<p>>) = {p} /\ <<p>> \in Seq(1 .. s.made.pane)
    BY DEF Range
  <1>7. PanesOn(d) \subseteq PanesOn(s) \cup {p}
    BY <1>5, <1>6 DEF PanesOn
  <1>8. IsFiniteSet(DOMAIN d.trees)
    <2>1. IsFiniteSet(DOMAIN s.trees \cup {t})
      BY FS_AddElement DEF ServerSound
    <2>. QED  BY <1>5, <2>1
  <1>9. d.leaving \subseteq GoneOn(d)
    BY <1>3, <1>4, <1>7 DEF ServerSound, GoneOn
  <1>10. \A x \in DOMAIN d.trees : d.trees[x] \in Seq(1 .. s.made.pane)
    BY <1>5, <1>6 DEF ServerSound
  <1>11. ServerSound(d)
    BY <1>3, <1>4, <1>8, <1>9, <1>10 DEF ServerSound
  <1>. QED  BY <1>3, <1>4, <1>7, <1>11 DEF d

(* What a step of the server does to the panes.                            *)
Turned(s, d) == ServerSound(d) /\ GoneOn(s) \subseteq GoneOn(d)

LEMMA PanesLeaveToo ==
  ASSUME NEW s, NEW ps, ServerSound(s)
  PROVE  Turned(s, Without(s, ps))
  BY PanesLeave DEF Turned, GoneOn

LEMMA PaneMoves ==
  ASSUME NEW s, NEW p \in PanesOn(s), NEW w, ServerSound(s)
  PROVE  Turned(s, Moved(s, p, w))
  <1>. DEFINE left == Without(s, {p})
              d == [left EXCEPT !.moved = TRUE]
  <1>1. /\ ServerSound(d) /\ PanesOn(d) = PanesOn(s) \ {p}
        /\ d.made = s.made /\ d.leaving = s.leaving
    <2>1. /\ ServerSound(left) /\ PanesOn(left) = PanesOn(s) \ {p}
          /\ left.made = s.made /\ left.leaving = s.leaving
      BY PanesLeave
    <2>. HIDE DEF left
    <2>2. /\ DOMAIN d = ServerFields /\ d.made = left.made /\ d.leaving = left.leaving
          /\ d.trees = left.trees
      BY <2>1 DEF ServerSound, ServerFields
    <2>3. PanesOn(d) = PanesOn(left) /\ GoneOn(d) = GoneOn(left)
      BY <2>2 DEF PanesOn, GoneOn
    <2>. QED  BY <2>1, <2>2, <2>3 DEF ServerSound
  <1>2. p \in 1 .. s.made.pane /\ p \notin s.leaving
    <2>1. PICK t \in DOMAIN s.trees : p \in Range(s.trees[t])
      BY DEF PanesOn
    <2>2. s.trees[t] \in Seq(1 .. s.made.pane)
      BY DEF ServerSound
    <2>3. p \in 1 .. s.made.pane
      BY <2>1, <2>2, ElementOfSeq, LenProperties DEF Range
    <2>. QED  BY <2>3 DEF ServerSound, GoneOn
  <1>. HIDE DEF d
  <1>3. /\ ServerSound(WithTab(d, p, w)) /\ PanesOn(WithTab(d, p, w)) \subseteq PanesOn(d) \cup {p}
        /\ WithTab(d, p, w).made.pane = d.made.pane
    BY <1>1, <1>2, TabAdded
  <1>4. Moved(s, p, w) = WithTab(d, p, w)
    BY DEF Moved, d
  <1>. QED  BY <1>1, <1>3, <1>4 DEF Turned, GoneOn

(* A number for a new pane is taken.                                       *)
LEMMA PaneCounted ==
  ASSUME NEW s, ServerSound(s),
         NEW d, d = [s EXCEPT !.made.pane = @ + 1]
  PROVE  /\ ServerSound(d) /\ PanesOn(d) = PanesOn(s)
         /\ d.made.pane = s.made.pane + 1
         /\ d.trees = s.trees /\ d.leaving = s.leaving
         /\ GoneOn(s) \subseteq GoneOn(d) /\ s.made.pane + 1 \notin PanesOn(s) \cup s.leaving
  <1>. DEFINE made == [s.made EXCEPT !.pane = s.made.pane + 1]
  <1>1. /\ DOMAIN s = ServerFields /\ DOMAIN s.made = {"pane", "tab", "window"}
        /\ s.made.pane \in Nat
    BY DEF ServerSound
  <1>2. d = [s EXCEPT !.made = made]
    BY <1>1 DEF ServerFields
  <1>3. DOMAIN made = {"pane", "tab", "window"} /\ made.pane = s.made.pane + 1
    BY <1>1
  <1>. HIDE DEF made
  <1>4. DOMAIN d = ServerFields /\ d.made = made /\ d.leaving = s.leaving /\ d.trees = s.trees
    BY <1>1, <1>2 DEF ServerFields
  <1>5. PanesOn(d) = PanesOn(s)
    BY <1>4 DEF PanesOn
  <1>6. 1 .. s.made.pane \subseteq 1 .. d.made.pane
    BY <1>1, <1>3, <1>4
  <1>7. \A t \in DOMAIN s.trees : s.trees[t] \in Seq(1 .. d.made.pane)
    BY <1>6, SeqMonotonic DEF ServerSound
  <1>8. GoneOn(s) \subseteq GoneOn(d)
    BY <1>5, <1>6 DEF GoneOn
  <1>9. ServerSound(d)
    BY <1>1, <1>3, <1>4, <1>7, <1>8 DEF ServerSound
  <1>10. PanesOn(s) \cup s.leaving \subseteq 1 .. s.made.pane
    <2>1. \A t \in DOMAIN s.trees : Range(s.trees[t]) \subseteq 1 .. s.made.pane
      BY ElementOfSeq, LenProperties DEF ServerSound, Range
    <2>. QED  BY <2>1 DEF PanesOn, ServerSound, GoneOn
  <1>11. s.made.pane + 1 \notin PanesOn(s) \cup s.leaving
    BY <1>1, <1>10
  <1>. QED  BY <1>3, <1>4, <1>5, <1>8, <1>9, <1>11

LEMMA PaneSpawned ==
  ASSUME NEW s, NEW w, ServerSound(s)
  PROVE  Turned(s, Spawned(s, w))
  <1>. DEFINE d == [s EXCEPT !.made.pane = @ + 1]
              p == s.made.pane + 1
  <1>1. /\ ServerSound(d) /\ PanesOn(d) = PanesOn(s) /\ d.made.pane = p
        /\ d.leaving = s.leaving /\ p \notin PanesOn(s) \cup s.leaving
    BY PaneCounted
  <1>2. Spawned(s, w) = WithTab(d, p, w)
    BY DEF Spawned
  <1>3. s.made.pane \in Nat
    BY DEF ServerSound
  <1>. HIDE DEF d
  <1>4. p \in 1 .. d.made.pane /\ 1 .. s.made.pane = (1 .. d.made.pane) \ {p}
    BY <1>1, <1>3
  <1>. HIDE DEF p
  <1>5. /\ ServerSound(WithTab(d, p, w)) /\ PanesOn(WithTab(d, p, w)) \subseteq PanesOn(d) \cup {p}
        /\ WithTab(d, p, w).made.pane = d.made.pane
    BY <1>1, <1>4, TabAdded
  <1>. QED  BY <1>1, <1>2, <1>4, <1>5 DEF Turned, GoneOn

LEMMA TabSplit ==
  ASSUME NEW s, ServerSound(s), NEW t \in DOMAIN s.trees
  PROVE  Turned(s, SplitTab(s, t))
  <1>. DEFINE c == [s EXCEPT !.made.pane = @ + 1]
              p == s.made.pane + 1
              tree == Append(s.trees[t], p)
              trees == [s.trees EXCEPT ![t] = tree]
              d == SplitTab(s, t)
  <1>1. /\ ServerSound(c) /\ PanesOn(c) = PanesOn(s) /\ c.made.pane = p
        /\ c.trees = s.trees /\ c.leaving = s.leaving /\ p \notin PanesOn(s) \cup s.leaving
    BY PaneCounted
  <1>2. s.made.pane \in Nat /\ DOMAIN s = ServerFields
    BY DEF ServerSound
  <1>3. d = [c EXCEPT !.trees = trees]
    BY <1>2 DEF SplitTab, ServerFields
  <1>. HIDE DEF c
  <1>4. p \in 1 .. c.made.pane /\ 1 .. s.made.pane = (1 .. c.made.pane) \ {p}
    BY <1>1, <1>2
  <1>. HIDE DEF p
  <1>5. tree \in Seq(1 .. c.made.pane) /\ Range(tree) = Range(s.trees[t]) \cup {p}
    <2>1. s.trees[t] \in Seq(1 .. c.made.pane)
      BY <1>1 DEF ServerSound
    <2>. DEFINE S == 1 .. c.made.pane
                old == s.trees[t]
    <2>2. old \in Seq(S) /\ p \in S
      BY <1>4, <2>1
    <2>. HIDE DEF S, old
    <2>3. Append(old, p) \in Seq(S) /\ Range(Append(old, p)) = Range(old) \cup {p}
      BY <2>2, RangeOfAppend
    <2>. QED  BY <2>3 DEF S, old
  <1>. HIDE DEF tree
  <1>6. /\ DOMAIN trees = DOMAIN s.trees /\ trees[t] = tree
        /\ \A x \in DOMAIN s.trees : x # t => trees[x] = s.trees[x]
    OBVIOUS
  <1>. HIDE DEF trees
  <1>7. DOMAIN d = ServerFields /\ d.made = c.made /\ d.leaving = c.leaving /\ d.trees = trees
    BY <1>1, <1>3 DEF ServerSound, ServerFields
  <1>. HIDE DEF d
  <1>8. PanesOn(d) \subseteq PanesOn(s) \cup {p}
    BY <1>5, <1>6, <1>7 DEF PanesOn
  <1>9. GoneOn(s) \subseteq GoneOn(d) /\ d.leaving \subseteq GoneOn(d)
    BY <1>1, <1>4, <1>7, <1>8 DEF GoneOn, ServerSound
  <1>10. ServerSound(d)
    BY <1>1, <1>5, <1>6, <1>7, <1>9 DEF ServerSound
  <1>. QED  BY <1>9, <1>10 DEF Turned, d

LEMMA PaneNumbered ==
  ASSUME NEW s, NEW p \in PanesOn(s), ServerSound(s)
  PROVE  p \in 1 .. s.made.pane /\ p \notin GoneOn(s)
  <1>1. PICK t \in DOMAIN s.trees : p \in Range(s.trees[t])
    BY DEF PanesOn
  <1>2. s.trees[t] \in Seq(1 .. s.made.pane)
    BY DEF ServerSound
  <1>3. p \in 1 .. s.made.pane
    BY <1>1, <1>2, ElementOfSeq, LenProperties DEF Range
  <1>. QED  BY <1>3 DEF GoneOn

LEMMA LeavingChanged ==
  ASSUME NEW s, NEW L, ServerSound(s), L \subseteq GoneOn(s)
  PROVE  Turned(s, [s EXCEPT !.leaving = L])
  <1>. DEFINE d == [s EXCEPT !.leaving = L]
  <1>1. DOMAIN d = ServerFields /\ d.made = s.made /\ d.trees = s.trees /\ d.leaving = L
    BY DEF ServerSound, ServerFields
  <1>. HIDE DEF d
  <1>2. GoneOn(d) = GoneOn(s)
    BY <1>1 DEF GoneOn, PanesOn
  <1>3. Turned(s, d)
    BY <1>1, <1>2 DEF Turned, ServerSound
  <1>. QED  BY <1>3 DEF d

LEMMA SpawningChanged ==
  ASSUME NEW s, NEW L, ServerSound(s)
  PROVE  /\ Turned(s, [s EXCEPT !.spawning = L])
         /\ [s EXCEPT !.spawning = L].trees = s.trees
         /\ [s EXCEPT !.spawning = L].made = s.made
  <1>. DEFINE d == [s EXCEPT !.spawning = L]
  <1>1. /\ DOMAIN d = ServerFields /\ d.made = s.made /\ d.trees = s.trees
        /\ d.leaving = s.leaving
    BY DEF ServerSound, ServerFields
  <1>. HIDE DEF d
  <1>2. GoneOn(d) = GoneOn(s)
    BY <1>1 DEF GoneOn, PanesOn
  <1>3. Turned(s, d)
    BY <1>1, <1>2 DEF Turned, ServerSound
  <1>. QED  BY <1>1, <1>3 DEF d

LEMMA TurnedTwice ==
  ASSUME NEW s, NEW d, NEW e, Turned(s, d), Turned(d, e)
  PROVE  Turned(s, e)
  BY DEF Turned

------------------------------------------------------------------------------
(* The messages of the server.                                             *)

LEMMA ListSent ==
  ASSUME NEW c, NEW gone, NEW closed, NEW n, ServerSound(server), n = 0 \/ n \in gone
  PROVE  MessageOK([Listing EXCEPT !.for = n], c, gone, closed)
  <1>. DEFINE order == SetToSeq(DOMAIN server.trees)
              entry(i) == [tab |-> order[i], window |-> server.window[order[i]],
                           panes |-> server.trees[order[i]]]
              tabs == [i \in DOMAIN order |-> entry(i)]
              S == {entry(i) : i \in DOMAIN order}
              m == [Listing EXCEPT !.for = n]
  <1>1. order \in Seq(DOMAIN server.trees)
    BY SetAsSequence DEF ServerSound
  <1>2. m.kind = "list" /\ m.for = n /\ m.tabs = tabs
    BY DEF Listing
  <1>. HIDE DEF order
  <1>3. Len(order) \in Nat /\ DOMAIN order = 1 .. Len(order)
    BY <1>1, LenProperties
  <1>4. tabs \in [1 .. Len(order) -> S]
    BY <1>3
  <1>5. Len(tabs) = Len(order)
    <2>. HIDE DEF S, tabs
    <2>. QED  BY <1>3, <1>4
  <1>6. \A i \in 1 .. Len(order) : tabs[i].panes \in Seq(Nat)
    <2>. TAKE i \in 1 .. Len(order)
    <2>1. order[i] \in DOMAIN server.trees
      BY <1>1, ElementOfSeq
    <2>2. server.trees[order[i]] \in Seq(1 .. server.made.pane) /\ server.made.pane \in Nat
      BY <2>1 DEF ServerSound
    <2>3. server.trees[order[i]] \in Seq(Nat)
      <3>1. 1 .. server.made.pane \subseteq Nat
        BY <2>2
      <3>. QED  BY <2>2, <3>1, SeqMonotonic
    <2>4. tabs[i].panes = server.trees[order[i]]
      BY <1>3
    <2>. QED  BY <2>3, <2>4
  <1>. HIDE DEF m, tabs
  <1>. QED  BY <1>2, <1>3, <1>5, <1>6 DEF MessageOK, m

LEMMA Announced ==
  ASSUME NEW c, NEW gone, NEW closed
  PROVE  /\ MessageOK(Resync, c, gone, closed)
         /\ \A p \in gone : MessageOK(Pushed("removed", p), c, gone, closed)
         /\ \A call, pane, tab, window :
              /\ pane \in Nat => /\ MessageOK(Reply("spawned", call, pane, tab, window), c, gone, closed)
                                 /\ MessageOK(Reply("split", call, pane, tab, window), c, gone, closed)
              /\ MessageOK(Reply("failed", call, pane, tab, window), c, gone, closed)
              /\ MessageOK(Reply("moved", call, pane, tab, window), c, gone, closed)
  BY DEF MessageOK, Resync, Pushed, Reply

LEMMA TwoAdded ==
  ASSUME NEW c, NEW gone, NEW closed, NEW q, NEW m, NEW n, MessagesOK(q, c, gone, closed),
         MessageOK(m, c, gone, closed), MessageOK(n, c, gone, closed)
  PROVE  MessagesOK(q \o <<m, n>>, c, gone, closed)
  <1>. DEFINE S == {m, n}
  <1>1. <<m, n>> \in Seq(S) /\ \A x \in S : MessageOK(x, c, gone, closed)
    OBVIOUS
  <1>. HIDE DEF S
  <1>2. MessagesOK(<<m, n>>, c, gone, closed)
    BY <1>1 DEF MessagesOK
  <1>. QED  BY <1>2, MessagesJoin

(* A request asks for no kill, and for no list, that is not due.           *)
RequestOK(m, gone, closed) ==
    /\ m.kind = "kill" => m.pane \in gone \cup closed
    /\ m.kind = "list" => m.pane = 0 \/ m.pane \in gone

RequestsOK(u, gone, closed) == \E S : u \in Seq(S) /\ \A m \in S : RequestOK(m, gone, closed)

LEMMA RequestsStayOK ==
  ASSUME NEW u, NEW gone, NEW closed, NEW gone2, NEW closed2, RequestsOK(u, gone, closed),
         gone \subseteq gone2, closed \subseteq closed2
  PROVE  RequestsOK(u, gone2, closed2)
  BY DEF RequestsOK, RequestOK

LEMMA RequestAdded ==
  ASSUME NEW u, NEW gone, NEW closed, NEW m, RequestsOK(u, gone, closed),
         RequestOK(m, gone, closed)
  PROVE  RequestsOK(Append(u, m), gone, closed)
  <1>1. PICK S : u \in Seq(S) /\ \A x \in S : RequestOK(x, gone, closed)
    BY DEF RequestsOK
  <1>2. u \in Seq(S \cup {m})
    BY <1>1, SeqMonotonic
  <1>3. Append(u, m) \in Seq(S \cup {m})
    BY <1>2, AppendProperties
  <1>. QED  BY <1>1, <1>3 DEF RequestsOK

LEMMA RequestTaken ==
  ASSUME NEW u, NEW gone, NEW closed, u # << >>, RequestsOK(u, gone, closed)
  PROVE  RequestOK(Head(u), gone, closed) /\ RequestsOK(Tail(u), gone, closed)
  <1>1. PICK S : u \in Seq(S) /\ \A x \in S : RequestOK(x, gone, closed)
    BY DEF RequestsOK
  <1>2. Head(u) \in S /\ Tail(u) \in Seq(S)
    BY <1>1, HeadTailProperties
  <1>. QED  BY <1>1, <1>2 DEF RequestsOK

LEMMA NoRequests ==
  ASSUME NEW gone, NEW closed
  PROVE  RequestsOK(<< >>, gone, closed)
  <1>. DEFINE S == {AskForList(0)}
  <1>1. \A m \in S : RequestOK(m, gone, closed)
    BY DEF RequestOK, AskForList, Ask
  <1>. HIDE DEF S
  <1>2. << >> \in Seq(S)
    BY EmptySeq
  <1>. QED  BY <1>1, <1>2 DEF RequestsOK

------------------------------------------------------------------------------
(* The inductive invariant: no message, task or request, wherever it is,   *)
(* leads to the kill of a pane that lives and was not closed.              *)
Gone == GoneOn(server)

KillsAreDue ==
    /\ ServerSound(server)
    /\ Sound(client, Gone, asked)
    /\ MessagesOK(queue, client, Gone, asked)
    /\ MessagesOK(down, client, Gone, asked)
    /\ RequestsOK(up, Gone, asked)

LEMMA ServerTurns ==
  ASSUME KillsAreDue, Turned(server, server'), UNCHANGED <<queue, client, asked>>,
         MessagesOK(down, client, GoneOn(server'), asked)
           => MessagesOK(down', client, GoneOn(server'), asked),
         RequestsOK(up, GoneOn(server'), asked) => RequestsOK(up', GoneOn(server'), asked)
  PROVE  KillsAreDue'
  <1>1. Gone' = GoneOn(server') /\ Gone \subseteq Gone' /\ ServerSound(server')
    BY DEF Gone, Turned
  <1>2. Sound(client, Gone', asked)
    BY <1>1, StaysSound DEF KillsAreDue
  <1>3. client.panes \in Seq(PaneRecords) /\ Later(client, client)
    BY LenProperties DEF KillsAreDue, Sound, Fits, Later
  <1>4. MessagesOK(queue, client, Gone', asked) /\ MessagesOK(down, client, Gone', asked)
    BY <1>1, <1>3, MessagesStayOK DEF KillsAreDue
  <1>5. RequestsOK(up, Gone', asked)
    BY <1>1, RequestsStayOK DEF KillsAreDue
  <1>6. /\ client' = client /\ queue' = queue /\ asked' = asked
        /\ MessagesOK(down', client, Gone', asked) /\ RequestsOK(up', Gone', asked)
    BY <1>1, <1>4, <1>5
  <1>7. /\ ServerSound(server)' /\ Sound(client, Gone, asked)'
        /\ MessagesOK(queue, client, Gone, asked)' /\ MessagesOK(down, client, Gone, asked)'
        /\ RequestsOK(up, Gone, asked)'
    BY <1>1, <1>2, <1>4, <1>6
  <1>. QED  BY <1>7 DEF KillsAreDue

LEMMA ClientTurns ==
  ASSUME KillsAreDue, server' = server, down' = down, asked \subseteq asked',
         TaskDone(Gone, asked'), RequestsOK(up', Gone, asked')
  PROVE  KillsAreDue'
  <1>1. Gone' = Gone
    BY DEF Gone
  <1>2. /\ client.panes \in Seq(PaneRecords) /\ Sound(client', Gone, asked')
        /\ client'.panes \in Seq(PaneRecords) /\ Later(client, client')
    BY DEF KillsAreDue, TaskDone, Becoming, Sound, Fits
  <1>3. MessagesOK(down, client', Gone, asked')
    BY <1>2, MessagesStayOK DEF KillsAreDue
  <1>4. /\ ServerSound(server)' /\ Sound(client, Gone, asked)'
        /\ MessagesOK(queue, client, Gone, asked)' /\ MessagesOK(down, client, Gone, asked)'
        /\ RequestsOK(up, Gone, asked)'
    BY <1>1, <1>2, <1>3 DEF KillsAreDue, TaskDone
  <1>. QED  BY <1>4 DEF KillsAreDue

------------------------------------------------------------------------------
(* Each step keeps it.                                                     *)

LEMMA InvInit ==
  ASSUME Init
  PROVE  KillsAreDue
  <1>. DEFINE base == [panes |-> << >>, tabs |-> << >>, wins |-> [w \in {1} |-> {}],
                       paneOf |-> << >>, tabOf |-> << >>, winOf |-> << >>, attached |-> TRUE,
                       panicked |-> FALSE, busy |-> 0, made |-> [tab |-> 0, window |-> 1],
                       primary |-> 1, tasks |-> << >>]
  <1>1. /\ client = Synced(base, Listing.tabs)
        /\ up = << >> /\ down = << >> /\ queue = << >> /\ asked = {}
    BY DEF Init
  <1>2. ServerSound(server)
    <2>1. PICK panes \in {<<1>>, <<1, 2>>} :
             server = [trees |-> [t \in {1} |-> panes], window |-> [t \in {1} |-> 1],
                       leaving |-> {}, spawning |-> {}, moved |-> FALSE,
                       made |-> [pane |-> Len(panes), tab |-> 1, window |-> 1]]
      BY DEF Init
    <2>2. Len(panes) \in Nat /\ panes \in Seq(1 .. Len(panes))
      BY <2>1
    <2>. HIDE DEF base
    <2>3. /\ DOMAIN server = ServerFields /\ DOMAIN server.made = {"pane", "tab", "window"}
          /\ server.made.pane = Len(panes) /\ server.leaving = {}
          /\ DOMAIN server.trees = {1} /\ server.trees[1] = panes
      BY <2>1 DEF ServerFields
    <2>4. IsFiniteSet(DOMAIN server.trees)
      BY <2>3, FS_Singleton
    <2>. QED  BY <2>2, <2>3, <2>4 DEF ServerSound
  <1>3. Sound(base, Gone, {})
    <2>1. << >> \in Seq(PaneRecords) /\ DOMAIN << >> = {} /\ Len(<< >>) = 0
      OBVIOUS
    <2>2. IsFiniteSet({})
      BY FS_EmptySet
    <2>3. Fits(base)
      BY <2>1, <2>2 DEF Fits, Fields, Ids
    <2>4. DeadAreGone(base, Gone)
      BY <2>1 DEF DeadAreGone, Ids
    <2>5. MessagesOK(base.tasks, base, Gone, {})
      BY NoMessages
    <2>. QED  BY <2>3, <2>4, <2>5 DEF Sound
  <1>. HIDE DEF base
  <1>4. IsListing(Listing.tabs)
    <2>1. MessageOK([Listing EXCEPT !.for = 0], client, Gone, {})
      BY <1>2, ListSent
    <2>2. /\ [Listing EXCEPT !.for = 0].kind = "list"
          /\ [Listing EXCEPT !.for = 0].tabs = Listing.tabs
      BY DEF Listing
    <2>. QED  BY <2>1, <2>2 DEF MessageOK, IsListing
  <1>5. Sound(client, Gone, {})
    BY <1>1, <1>3, <1>4, ListSynced DEF Becoming
  <1>. QED  BY <1>1, <1>2, <1>5, NoMessages, NoRequests DEF KillsAreDue

LEMMA InvElsewhere ==
  ASSUME KillsAreDue, SpawnElsewhere \/ SplitElsewhere \/ MoveElsewhere \/ Resized
  PROVE  KillsAreDue'
  <1>1. /\ down' = Append(down, Resync) /\ UNCHANGED <<up, queue, client, asked>>
        /\ Turned(server, server')
    <2>1. ServerSound(server) /\ RemotePanes = PanesOn(server)
      BY DEF KillsAreDue, RemotePanes, PanesOn
    <2>2. CASE SpawnElsewhere
      BY <2>1, <2>2, PaneSpawned DEF SpawnElsewhere, ServerStep
    <2>3. CASE SplitElsewhere
      BY <2>1, <2>3, TabSplit DEF SplitElsewhere, ServerStep
    <2>4. CASE MoveElsewhere
      BY <2>1, <2>4, PaneMoves DEF MoveElsewhere, ServerStep
    <2>5. CASE Resized
      BY <2>1, <2>5 DEF Resized, ServerStep, Turned
    <2>. QED  BY <2>2, <2>3, <2>4, <2>5
  <1>2. MessageOK(Resync, client, GoneOn(server'), asked)
    BY Announced
  <1>. QED  BY <1>1, <1>2, MessageAdded, ServerTurns

LEMMA InvExit ==
  ASSUME KillsAreDue, Exit
  PROVE  KillsAreDue'
  <1>1. PICK p \in RemotePanes :
           server' = [Without(server, {p}) EXCEPT !.leaving = @ \cup {p}]
    BY DEF Exit
  <1>. DEFINE d == Without(server, {p})
  <1>2. /\ ServerSound(d) /\ PanesOn(d) = PanesOn(server) \ {p} /\ d.made = server.made
        /\ Turned(server, d)
    BY PanesLeave, PanesLeaveToo DEF KillsAreDue
  <1>3. p \in 1 .. server.made.pane
    BY PaneNumbered DEF KillsAreDue, RemotePanes, PanesOn
  <1>4. server' = [d EXCEPT !.leaving = d.leaving \cup {p}]
    BY <1>1
  <1>. HIDE DEF d
  <1>5. d.leaving \cup {p} \subseteq GoneOn(d)
    BY <1>2, <1>3 DEF ServerSound, GoneOn
  <1>6. Turned(server, server')
    BY <1>2, <1>4, <1>5, LeavingChanged, TurnedTwice
  <1>. QED  BY <1>6, ServerTurns DEF Exit, ServerStep

LEMMA InvForget ==
  ASSUME KillsAreDue, NEW p, Forget(p)
  PROVE  KillsAreDue'
  <1>1. /\ server' = [server EXCEPT !.leaving = server.leaving \ {p}] /\ p \in Gone
        /\ server.leaving \ {p} \subseteq GoneOn(server)
    BY DEF Forget, KillsAreDue, ServerSound, Gone
  <1>2. Turned(server, server')
    BY <1>1, LeavingChanged DEF KillsAreDue
  <1>3. MessageOK(Pushed("removed", p), client, GoneOn(server'), asked)
    BY <1>1, <1>2, Announced DEF Turned, Gone
  <1>4. down' = Append(down, Pushed("removed", p)) /\ UNCHANGED <<up, queue, client, asked>>
    BY DEF Forget
  <1>. QED  BY <1>2, <1>3, <1>4, MessageAdded, ServerTurns

LEMMA InvServe ==
  ASSUME KillsAreDue, Serve
  PROVE  KillsAreDue'
  <1>. DEFINE r == Head(up)
              gone == GoneOn(server')
  <1>1. up # << >> /\ up' = Tail(up) /\ UNCHANGED <<queue, client, asked>>
    BY DEF Serve
  <1>2. ServerSound(server) /\ RequestOK(r, Gone, asked) /\ RemotePanes = PanesOn(server)
    BY <1>1, RequestTaken DEF KillsAreDue, RemotePanes, PanesOn
  <1>3. RequestsOK(up, gone, asked) => RequestsOK(up', gone, asked)
    BY <1>1, RequestTaken
  <1>4. SUFFICES /\ Turned(server, server')
                 /\ MessagesOK(down, client, gone, asked) => MessagesOK(down', client, gone, asked)
    BY <1>1, <1>3, ServerTurns
  <1>5. ASSUME r.kind = "list", down' = Append(down, [Listing EXCEPT !.for = r.pane]),
               server' = server
        PROVE  /\ Turned(server, server')
               /\ MessagesOK(down, client, gone, asked) => MessagesOK(down', client, gone, asked)
    <2>1. r.pane = 0 \/ r.pane \in gone
      BY <1>2, <1>5 DEF RequestOK, Gone
    <2>2. MessageOK([Listing EXCEPT !.for = r.pane], client, gone, asked)
      BY <1>2, <2>1, ListSent
    <2>. QED  BY <1>2, <1>5, <2>2, MessageAdded DEF Turned
  <1>6. ASSUME server' = [Without(server, {r.pane}) EXCEPT !.leaving = @ \ {r.pane}],
               down' = IF r.pane \in RemotePanes \cup server.leaving
                       THEN Append(down, Pushed("removed", r.pane)) ELSE down
        PROVE  /\ Turned(server, server')
               /\ MessagesOK(down, client, gone, asked) => MessagesOK(down', client, gone, asked)
    <2>. DEFINE d == Without(server, {r.pane})
    <2>1. /\ ServerSound(d) /\ PanesOn(d) = PanesOn(server) \ {r.pane} /\ d.made = server.made
          /\ Turned(server, d)
      BY <1>2, PanesLeave, PanesLeaveToo
    <2>2. server' = [d EXCEPT !.leaving = d.leaving \ {r.pane}]
      BY <1>6
    <2>. HIDE DEF d
    <2>3. d.leaving \ {r.pane} \subseteq GoneOn(d)
      BY <2>1 DEF ServerSound
    <2>4. Turned(d, server') /\ Turned(server, server')
      BY <2>1, <2>2, <2>3, LeavingChanged, TurnedTwice
    <2>5. r.pane \in RemotePanes \cup server.leaving => r.pane \in gone
      <3>1. r.pane \in RemotePanes => r.pane \in GoneOn(d)
        BY <1>2, <2>1, PaneNumbered DEF GoneOn
      <3>2. r.pane \in server.leaving => r.pane \in GoneOn(server)
        BY <1>2 DEF ServerSound
      <3>. QED  BY <3>1, <3>2, <2>4 DEF Turned
    <2>. QED  BY <1>6, <2>4, <2>5, Announced, MessageAdded
  <1>7. ASSUME r.pane \in RemotePanes, server' = Moved(server, r.pane, r.window),
               down' = down \o <<Resync, Reply("moved", r.call, 0, 0, 0)>>
        PROVE  /\ Turned(server, server')
               /\ MessagesOK(down, client, gone, asked) => MessagesOK(down', client, gone, asked)
    <2>1. Turned(server, server')
      BY <1>2, <1>7, PaneMoves
    <2>2. MessageOK(Resync, client, gone, asked)
          /\ MessageOK(Reply("moved", r.call, 0, 0, 0), client, gone, asked)
      BY Announced
    <2>. QED  BY <1>7, <2>1, <2>2, TwoAdded
  <1>8. ASSUME server' = server, down' = Append(down, Reply("failed", r.call, 0, 0, 0))
        PROVE  /\ Turned(server, server')
               /\ MessagesOK(down, client, gone, asked) => MessagesOK(down', client, gone, asked)
    <2>1. MessageOK(Reply("failed", r.call, 0, 0, 0), client, gone, asked)
      BY Announced
    <2>. QED  BY <1>2, <1>8, <2>1, MessageAdded DEF Turned
  <1>9. ASSUME server' = [server EXCEPT !.spawning = @ \cup {r}], down' = down
        PROVE  /\ Turned(server, server')
               /\ MessagesOK(down, client, gone, asked) => MessagesOK(down', client, gone, asked)
    BY <1>2, <1>9, SpawningChanged
  <1>. QED  BY <1>5, <1>6, <1>7, <1>8, <1>9 DEF Serve

LEMMA InvAnswer ==
  ASSUME KillsAreDue, NEW r, Answer(r)
  PROVE  KillsAreDue'
  <1>. DEFINE s == [server EXCEPT !.spawning = @ \ {r}]
              p == s.made.pane + 1
              home == {t \in DOMAIN s.trees : r.pane \in Range(s.trees[t])}
              gone == GoneOn(server')
  <1>1. UNCHANGED <<up, queue, client, asked>>
    BY DEF Answer
  <1>2. Turned(server, s) /\ ServerSound(s) /\ p \in Nat
    <2>1. Turned(server, s) /\ s.made = server.made
      BY SpawningChanged DEF KillsAreDue
    <2>. HIDE DEF s
    <2>2. ServerSound(s)
      BY <2>1 DEF Turned
    <2>3. p \in Nat
      BY <2>2 DEF ServerSound
    <2>. QED  BY <2>1, <2>2, <2>3
  <1>3. \/ \E tab, window :
             /\ server' = Spawned(s, r.window)
             /\ down' = down \o <<Resync, Reply("spawned", r.call, p, tab, window)>>
        \/ \E t \in home : \E window :
             /\ server' = SplitTab(s, t)
             /\ down' = down \o <<Resync, Reply("split", r.call, p, t, window)>>
        \/ server' = s /\ down' = Append(down, Reply("failed", r.call, 0, 0, 0))
    <2>. HIDE DEF s
    <2>. QED  BY DEF Answer, s
  <1>4. home \subseteq DOMAIN s.trees
    OBVIOUS
  <1>. HIDE DEF s, p, home
  <1>5. Turned(s, server')
    BY <1>2, <1>3, <1>4, PaneSpawned, TabSplit DEF Turned
  <1>6. MessagesOK(down, client, gone, asked) => MessagesOK(down', client, gone, asked)
    BY <1>2, <1>3, Announced, MessageAdded, TwoAdded
  <1>7. Turned(server, server')
    BY <1>2, <1>5, TurnedTwice
  <1>. QED  BY <1>1, <1>6, <1>7, ServerTurns

LEMMA InvReceive ==
  ASSUME KillsAreDue, Receive
  PROVE  KillsAreDue'
  <1>1. /\ down # << >> /\ queue' = Append(queue, Head(down)) /\ down' = Tail(down)
        /\ UNCHANGED <<server, up, client, asked>>
    BY DEF Receive
  <1>2. MessageOK(Head(down), client, Gone, asked) /\ MessagesOK(down', client, Gone, asked)
    BY <1>1, MessageTaken DEF KillsAreDue
  <1>3. MessagesOK(queue', client, Gone, asked)
    BY <1>1, <1>2, MessageAdded DEF KillsAreDue
  <1>. QED  BY <1>1, <1>2, <1>3 DEF KillsAreDue, Gone

LEMMA InvRun ==
  ASSUME KillsAreDue, Run
  PROVE  KillsAreDue'
  <1>. DEFINE task == Head(queue)
              rest == Tail(queue)
  <1>1. /\ queue # << >> /\ server' = server /\ down' = down /\ asked' = asked
        /\ \/ /\ task.kind \in {"resync", "moved"}
              /\ up' = IF client.attached THEN Append(up, AskForList(0)) ELSE up
              /\ Becomes(client, rest)
           \/ /\ task.kind = "removed"
              /\ Becomes(Scheduled(client, [task EXCEPT !.kind = "hear"]), rest)
              /\ UNCHANGED up
           \/ task.kind = "hear" /\ HearOfRemoval(task.pane)
           \/ task.kind = "list" /\ GetList(task)
           \/ task.kind = "spawned" /\ FinishSpawn(task) /\ UNCHANGED up
           \/ task.kind = "split" /\ FinishSplit(task) /\ UNCHANGED up
           \/ /\ task.kind = "failed"
              /\ Becomes(IF calls[task.call].holds THEN Released(client) ELSE client, rest)
              /\ UNCHANGED up
           \/ /\ task.kind = "kill"
              /\ up' = Append(up, Ask("kill", 0, task.pane, 0))
              /\ Becomes(client, rest)
           \/ /\ task.kind = "remove"
              /\ Becomes(Prune(ForgetPanes(client, task.ids)), rest)
              /\ UNCHANGED up
           \/ task.kind = "prune" /\ Becomes(Prune(client), rest) /\ UNCHANGED up
    BY DEF Run
  <1>2. /\ MessageOK(task, client, Gone, asked) /\ MessagesOK(rest, client, Gone, asked)
        /\ Sound(client, Gone, asked) /\ RequestsOK(up, Gone, asked)
    BY <1>1, MessageTaken DEF KillsAreDue
  <1>3. SUFFICES TaskDone(Gone, asked) /\ RequestsOK(up', Gone, asked)
    BY <1>1, ClientTurns
  <1>. HIDE DEF task
  <1>4. Becoming(client, client, Gone, asked)
    BY <1>2, Steady
  <1>5. ASSUME NEW c, Becoming(client, c, Gone, asked), Becomes(c, rest)
        PROVE  TaskDone(Gone, asked)
    BY <1>2, <1>5, StepTaken DEF TaskDone
  <1>6. ASSUME NEW n, n = 0 \/ n \in Gone
        PROVE  RequestsOK(Append(up, AskForList(n)), Gone, asked)
    <2>1. RequestOK(AskForList(n), Gone, asked)
      BY <1>6 DEF RequestOK, AskForList, Ask
    <2>. QED  BY <1>2, <2>1, RequestAdded
  <1>7. CASE /\ task.kind \in {"resync", "moved"}
             /\ up' = IF client.attached THEN Append(up, AskForList(0)) ELSE up
             /\ Becomes(client, rest)
    BY <1>2, <1>4, <1>5, <1>6, <1>7
  <1>8. CASE /\ task.kind = "removed"
             /\ Becomes(Scheduled(client, [task EXCEPT !.kind = "hear"]), rest)
             /\ UNCHANGED up
    <2>1. task.pane \in Gone /\ DOMAIN task = {"kind", "pane"}
      BY <1>2, <1>8 DEF MessageOK
    <2>2. MessageOK([task EXCEPT !.kind = "hear"], client, Gone, asked)
      BY <2>1 DEF MessageOK
    <2>3. Becoming(client, Scheduled(client, [task EXCEPT !.kind = "hear"]), Gone, asked)
      BY <1>2, <2>2, TaskScheduled
    <2>. QED  BY <1>2, <1>5, <1>8, <2>3
  <1>9. CASE task.kind = "hear" /\ HearOfRemoval(task.pane)
    <2>1. task.pane \in Gone
      BY <1>2, <1>9 DEF MessageOK
    <2>2. TaskDone(Gone, asked) /\ (up' = up \/ up' = Append(up, AskForList(task.pane)))
      BY <1>2, <1>9, <2>1, RemovalTold
    <2>. QED  BY <1>2, <1>6, <2>1, <2>2
  <1>10. CASE task.kind = "list" /\ GetList(task)
    <2>1. TaskDone(Gone, asked)
      BY <1>2, <1>10, ListHeard
    <2>2. up' = up
      BY <1>10 DEF GetList
    <2>. QED  BY <1>2, <2>1, <2>2
  <1>11. CASE task.kind = "spawned" /\ FinishSpawn(task) /\ UNCHANGED up
    <2>1. task.pane \in Nat
      BY <1>2, <1>11 DEF MessageOK
    <2>. QED  BY <1>2, <1>11, <2>1, SpawnFinished
  <1>12. CASE task.kind = "split" /\ FinishSplit(task) /\ UNCHANGED up
    <2>1. task.pane \in Nat
      BY <1>2, <1>12 DEF MessageOK
    <2>. QED  BY <1>2, <1>12, <2>1, SplitFinished
  <1>13. CASE /\ task.kind = "failed"
              /\ Becomes(IF calls[task.call].holds THEN Released(client) ELSE client, rest)
              /\ UNCHANGED up
    <2>1. Becoming(client, Released(client), Gone, asked)
      BY <1>2, ActivityEnds
    <2>2. Becoming(client, IF calls[task.call].holds THEN Released(client) ELSE client, Gone, asked)
      BY <1>4, <2>1
    <2>. QED  BY <1>2, <1>5, <1>13, <2>2
  <1>14. CASE /\ task.kind = "kill"
              /\ up' = Append(up, Ask("kill", 0, task.pane, 0))
              /\ Becomes(client, rest)
    <2>1. RequestOK(Ask("kill", 0, task.pane, 0), Gone, asked)
      BY <1>2, <1>14 DEF MessageOK, RequestOK, Ask
    <2>. QED  BY <1>2, <1>4, <1>5, <1>14, <2>1, RequestAdded
  <1>15. CASE /\ task.kind = "remove"
              /\ Becomes(Prune(ForgetPanes(client, task.ids)), rest)
              /\ UNCHANGED up
    <2>1. client.attached => task.ids \subseteq Doomed(client)
      BY <1>2, <1>15 DEF MessageOK
    <2>2. MayGo(client, task.ids, Gone, asked)
      BY <1>2, <2>1 DEF MayGo, Doomed, Sound, DeadAreGone
    <2>3. Becoming(client, ForgetPanes(client, task.ids), Gone, asked)
      BY <1>2, <2>2, PanesForgotten
    <2>4. Becoming(client, Prune(ForgetPanes(client, task.ids)), Gone, asked)
      BY <1>2, <2>3, PrunedToo
    <2>. QED  BY <1>2, <1>5, <1>15, <2>4
  <1>16. CASE task.kind = "prune" /\ Becomes(Prune(client), rest) /\ UNCHANGED up
    BY <1>2, <1>5, <1>16, Pruned
  <1>. QED  BY <1>1, <1>7, <1>8, <1>9, <1>10, <1>11, <1>12, <1>13, <1>14, <1>15, <1>16

(* What the user does to the client's own mux.                             *)
LEMMA InvUser ==
  ASSUME KillsAreDue, NEW c, NEW more, server' = server, down' = down, up' = up,
         asked' = asked \cup more, Becoming(client, c, Gone, asked \cup more), Becomes(c, queue)
  PROVE  KillsAreDue'
  <1>1. Sound(client, Gone, asked')
    BY StaysSound DEF KillsAreDue
  <1>2. client.panes \in Seq(PaneRecords) /\ Later(client, client)
    BY LenProperties DEF KillsAreDue, Sound, Fits, Later
  <1>3. MessagesOK(queue, client, Gone, asked')
    BY <1>2, MessagesStayOK DEF KillsAreDue
  <1>4. TaskDone(Gone, asked')
    BY <1>1, <1>3, StepTaken DEF TaskDone
  <1>5. RequestsOK(up', Gone, asked')
    BY RequestsStayOK DEF KillsAreDue
  <1>. QED  BY <1>4, <1>5, ClientTurns

LEMMA InvClosePane ==
  ASSUME KillsAreDue, ClosePane
  PROVE  KillsAreDue'
  <1>1. PICK p \in Shown : /\ Becomes(Prune(ForgetPanes(client, {p})), queue)
                           /\ asked' = asked \cup Remotes({p})
    BY DEF ClosePane
  <1>. DEFINE more == Remotes({p})
  <1>2. Sound(client, Gone, asked \cup more)
    BY StaysSound DEF KillsAreDue
  <1>3. MayGo(client, {p}, Gone, asked \cup more)
    BY DEF MayGo, Remotes
  <1>. HIDE DEF more
  <1>4. Becoming(client, Prune(ForgetPanes(client, {p})), Gone, asked \cup more)
    BY <1>2, <1>3, PanesForgotten, PrunedToo
  <1>5. UNCHANGED <<server, down, up>> /\ asked' = asked \cup more
    BY <1>1 DEF ClosePane, UserStep, more
  <1>. QED  BY <1>1, <1>4, <1>5, InvUser

LEMMA InvCloseTab ==
  ASSUME KillsAreDue, CloseTab
  PROVE  KillsAreDue'
  <1>1. PICK t \in Listed(client) : /\ Becomes(Prune(ForgetTabs(client, {t})), queue)
                                    /\ asked' = asked \cup Remotes(Range(client.tabs[t]))
    BY DEF CloseTab
  <1>. DEFINE more == Remotes(Range(client.tabs[t]))
  <1>2. Sound(client, Gone, asked \cup more)
    BY StaysSound DEF KillsAreDue
  <1>3. \A x \in {t} \cap DOMAIN client.tabs :
           MayGo(client, Range(client.tabs[x]), Gone, asked \cup more)
    BY DEF MayGo, Remotes
  <1>. HIDE DEF more
  <1>4. Becoming(client, Prune(ForgetTabs(client, {t})), Gone, asked \cup more)
    BY <1>2, <1>3, TabsForgotten, PrunedToo
  <1>5. UNCHANGED <<server, down, up>> /\ asked' = asked \cup more
    BY <1>1 DEF CloseTab, UserStep, more
  <1>. QED  BY <1>1, <1>4, <1>5, InvUser

LEMMA InvLeave ==
  ASSUME KillsAreDue, CloseWindow \/ Detach
  PROVE  KillsAreDue'
  <1>1. Sound(client, Gone, asked)
    BY DEF KillsAreDue
  <1>2. /\ UNCHANGED <<server, down, up>> /\ asked' = asked \cup {}
        /\ \E c : Becoming(client, c, Gone, asked \cup {}) /\ Becomes(c, queue)
    BY <1>1, WindowKilled, DomainDetached DEF CloseWindow, Detach, UserStep
  <1>. QED  BY <1>2, InvUser

LEMMA InvCall ==
  ASSUME KillsAreDue, Spawn \/ Split \/ MovePaneToNewTab
  PROVE  KillsAreDue'
  <1>1. /\ UNCHANGED <<server, down, queue, asked>>
        /\ \E kind \in {"spawn", "split", "move"} : \E call, pane, window :
              up' = Append(up, Ask(kind, call, pane, window))
        /\ \E n : client' = [client EXCEPT !.busy = n]
    BY DEF Spawn, Split, MovePaneToNewTab, Call, UserStep
  <1>2. Becoming(client, client', Gone, asked)
    <2>1. PICK n : client' = [client EXCEPT !.busy = n]
      BY <1>1
    <2>2. Becoming(client, [client EXCEPT !.busy = n], Gone, asked)
      BY BusyChanged DEF KillsAreDue
    <2>. QED  BY <2>1, <2>2
  <1>3. MessagesOK(queue', client', Gone, asked)
    BY <1>1, <1>2, MessagesStayOK DEF KillsAreDue, Becoming, Sound, Fits
  <1>4. RequestsOK(up', Gone, asked)
    <2>1. PICK kind \in {"spawn", "split", "move"} :
             \E call, pane, window : up' = Append(up, Ask(kind, call, pane, window))
      BY <1>1
    <2>2. \A call, pane, window : RequestOK(Ask(kind, call, pane, window), Gone, asked)
      BY DEF RequestOK, Ask
    <2>. QED  BY <2>1, <2>2, RequestAdded DEF KillsAreDue
  <1>. QED  BY <1>1, <1>2, <1>3, <1>4, ClientTurns DEF TaskDone

(* No message, task or request leads to the kill of a pane that lives and  *)
(* that the user did not close, whatever is under way on both sides.       *)
THEOREM KillsAreDueAlways == Spec => []KillsAreDue
  <1>1. Init => KillsAreDue
    BY InvInit
  <1>2. KillsAreDue /\ [Next]_vars => KillsAreDue'
    <2>. SUFFICES ASSUME KillsAreDue, [Next]_vars PROVE KillsAreDue'
      OBVIOUS
    <2>1. CASE UNCHANGED vars
      BY <2>1 DEF vars, KillsAreDue, Gone
    <2>2. CASE Next
      BY <2>2, InvElsewhere, InvExit, InvForget, InvServe, InvAnswer, InvReceive, InvRun,
         InvClosePane, InvCloseTab, InvLeave, InvCall DEF Next
    <2>. QED  BY <2>1, <2>2
  <1>. QED  BY <1>1, <1>2, PTL DEF Spec

(* A pane that is on the server is only killed if the user of the client   *)
(* closed it or its tab (clientpane.rs:496).                               *)
THEOREM KillsOnlyClosed == Spec => []OnlyClosedPanesAreKilled
  <1>1. KillsAreDue => OnlyClosedPanesAreKilled
    <2>. SUFFICES ASSUME KillsAreDue, NEW m \in Range(up) \cup Range(queue),
                         m.kind = "kill", m.pane \in RemotePanes
                  PROVE  m.pane \in asked
      BY DEF OnlyClosedPanesAreKilled
    <2>1. m.pane \notin Gone
      BY DEF Gone, GoneOn, RemotePanes, PanesOn
    <2>2. CASE m \in Range(up)
      <3>1. PICK S : up \in Seq(S) /\ \A x \in S : RequestOK(x, Gone, asked)
        BY DEF KillsAreDue, RequestsOK
      <3>2. m \in S
        BY <2>2, <3>1, ElementOfSeq, LenProperties DEF Range
      <3>. QED  BY <2>1, <3>1, <3>2 DEF RequestOK
    <2>3. CASE m \in Range(queue)
      <3>1. PICK S : queue \in Seq(S) /\ \A x \in S : MessageOK(x, client, Gone, asked)
        BY DEF KillsAreDue, MessagesOK
      <3>2. m \in S
        BY <2>3, <3>1, ElementOfSeq, LenProperties DEF Range
      <3>. QED  BY <2>1, <3>1, <3>2 DEF MessageOK
    <2>. QED  BY <2>2, <2>3
  <1>. QED  BY <1>1, KillsAreDueAlways, PTL

------------------------------------------------------------------------------
(***************************************************************************)
(* BlobLeases: leased data stays in the store, and the counts come out     *)
(* even.                                                                   *)
(*                                                                         *)
(* A count is not that of the handles in use all the time: a handle is     *)
(* gone before del_ref counts it off, a stored file is there before it is  *)
(* counted.  The invariant counts the drops on their way with the handles  *)
(* (Counted), as sets, so that a step moves or adds one element; it says   *)
(* who has the lock, what a thread in the midst of a call relies on        *)
(* (Kept), and, for the files, that each has somebody who will remove it.  *)
(***************************************************************************)

Steps == {"stored", "opened", "dropped", "removed", "waits for itself"}
Locked == {"stored", "removed", "waits for itself"}

Numbers == [Threads -> [Contents -> Nat]]

Types ==
    /\ refs \in [Contents -> Nat \cup {NoEntry}]
    /\ files \subseteq Contents
    /\ at \in [Threads -> {Idle} \cup [step : Steps, content : Contents]]
    /\ leases \in Numbers
    /\ readers \in Numbers
    /\ faults \in Nat

About(t, c) == at[t] # Idle /\ at[t].content = c

\* The drops on their way, which are counted still.
Droppers(c) == {t \in Threads : About(t, c) /\ at[t].step \in {"dropped", "removed"}}
Dropping(c) == {<<t, "drop", 0>> : t \in Droppers(c)}

Counted(c) == Held(c) \cup Dropping(c)

(* Each count is that of the handles and of the drops on their way.        *)
Counts ==
    \A c \in Contents : IsFiniteSet(Counted(c)) /\ Count(c) = Cardinality(Counted(c))

(* The lock is with the thread in the midst of a step that needs it.       *)
Locks == \A t \in Threads : holder = t <=> at[t].step \in Locked

(* What is in use is on disk; a thread that removes is the last one.       *)
Kept ==
    /\ \A c \in Contents : Held(c) # {} => c \in files
    /\ \A t \in Threads, c \in Contents :
          About(t, c) =>
            /\ at[t].step = "stored" => c \in files
            /\ at[t].step = "opened" => leases[t][c] > 0
            /\ at[t].step = "removed" => /\ Counted(c) = {<<t, "drop", 0>>}
                                         /\ faults = 0 => c \notin files

(* Nothing is on disk that nobody uses, drops or stores.                   *)
NothingLeft ==
    faults = 0 => \A c \in files : \/ Counted(c) # {}
                                   \/ \E t \in Threads : About(t, c) /\ at[t].step = "stored"

BlobInv == Types /\ Counts /\ Locks /\ Kept /\ NothingLeft /\ lost = {}

------------------------------------------------------------------------------
(* The handles in use.                                                      *)

HeldBy(l, r, c) ==
    UNION {{<<t, "lease", i>> : i \in 1 .. l[t][c]}
             \cup {<<t, "reader", i>> : i \in 1 .. r[t][c]} : t \in Threads}

\* What a handle in use is.
LEMMA InHeld ==
    ASSUME NEW l, NEW r, NEW c
    PROVE  \A h : h \in HeldBy(l, r, c) <=>
              \E t \in Threads : \/ \E i \in 1 .. l[t][c] : h = <<t, "lease", i>>
                                 \/ \E i \in 1 .. r[t][c] : h = <<t, "reader", i>>
  BY DEF HeldBy

\* A lease more of a content is one handle more of it, and none of another
\* content; read backwards, what the drop of a lease takes away.
LEMMA OneLeaseMore ==
    ASSUME NEW l \in Numbers, NEW m \in Numbers, NEW r \in Numbers,
           NEW t \in Threads, NEW d \in Contents,
           m[t][d] = l[t][d] + 1,
           \A u \in Threads, c \in Contents : <<u, c>> # <<t, d>> => m[u][c] = l[u][c]
    PROVE  \E h : /\ h = <<t, "lease", l[t][d] + 1>>
                  /\ h \notin HeldBy(l, r, d)
                  /\ HeldBy(m, r, d) = HeldBy(l, r, d) \cup {h}
                  /\ \A c \in Contents : c # d => HeldBy(m, r, c) = HeldBy(l, r, c)
  <1> DEFINE h == <<t, "lease", l[t][d] + 1>>
  <1>1. /\ \A u \in Threads, c \in Contents : l[u][c] \in Nat /\ m[u][c] \in Nat
        /\ \A u \in Threads, c \in Contents : u # t \/ c # d => m[u][c] = l[u][c]
    BY DEF Numbers
  <1>2. h \notin HeldBy(l, r, d)
    <2>1. SUFFICES ASSUME h \in HeldBy(l, r, d) PROVE FALSE
      OBVIOUS
    <2>2. PICK u \in Threads : \/ \E i \in 1 .. l[u][d] : h = <<u, "lease", i>>
                               \/ \E i \in 1 .. r[u][d] : h = <<u, "reader", i>>
      BY <2>1, InHeld
    <2>3. \E i \in 1 .. l[t][d] : l[t][d] + 1 = i
      BY <2>2
    <2> QED  BY <1>1, <2>3
  <1>3. ASSUME NEW c \in Contents, c # d
        PROVE  HeldBy(m, r, c) = HeldBy(l, r, c)
    <2>1. \A u \in Threads : m[u][c] = l[u][c]
      BY <1>1, <1>3
    <2> QED  BY <2>1 DEF HeldBy
  <1>4. ASSUME NEW k PROVE k \in HeldBy(m, r, d) <=> k \in HeldBy(l, r, d) \cup {h}
    <2>1. \A u \in Threads \ {t} : m[u][d] = l[u][d]
      BY <1>1
    <2>2. \A i : i \in 1 .. m[t][d] <=> i \in 1 .. l[t][d] \/ i = l[t][d] + 1
      BY <1>1
    <2>3. /\ k \in HeldBy(m, r, d) <=>
              \E u \in Threads : \/ \E i \in 1 .. m[u][d] : k = <<u, "lease", i>>
                                 \/ \E i \in 1 .. r[u][d] : k = <<u, "reader", i>>
          /\ k \in HeldBy(l, r, d) <=>
              \E u \in Threads : \/ \E i \in 1 .. l[u][d] : k = <<u, "lease", i>>
                                 \/ \E i \in 1 .. r[u][d] : k = <<u, "reader", i>>
      BY InHeld
    <2>4. CASE k = h
      BY <2>2, <2>3, <2>4
    <2>5. CASE k # h
      BY <2>1, <2>2, <2>3, <2>5
    <2> QED  BY <2>4, <2>5
  <1> QED  BY <1>2, <1>3, <1>4

\* The same of a reader.
LEMMA OneReaderMore ==
    ASSUME NEW l \in Numbers, NEW r \in Numbers, NEW s \in Numbers,
           NEW t \in Threads, NEW d \in Contents,
           s[t][d] = r[t][d] + 1,
           \A u \in Threads, c \in Contents : <<u, c>> # <<t, d>> => s[u][c] = r[u][c]
    PROVE  \E h : /\ h = <<t, "reader", r[t][d] + 1>>
                  /\ h \notin HeldBy(l, r, d)
                  /\ HeldBy(l, s, d) = HeldBy(l, r, d) \cup {h}
                  /\ \A c \in Contents : c # d => HeldBy(l, s, c) = HeldBy(l, r, c)
  <1> DEFINE h == <<t, "reader", r[t][d] + 1>>
  <1>1. /\ \A u \in Threads, c \in Contents : r[u][c] \in Nat /\ s[u][c] \in Nat
        /\ \A u \in Threads, c \in Contents : u # t \/ c # d => s[u][c] = r[u][c]
    BY DEF Numbers
  <1>2. h \notin HeldBy(l, r, d)
    <2>1. SUFFICES ASSUME h \in HeldBy(l, r, d) PROVE FALSE
      OBVIOUS
    <2>2. PICK u \in Threads : \/ \E i \in 1 .. l[u][d] : h = <<u, "lease", i>>
                               \/ \E i \in 1 .. r[u][d] : h = <<u, "reader", i>>
      BY <2>1, InHeld
    <2>3. \E i \in 1 .. r[t][d] : r[t][d] + 1 = i
      BY <2>2
    <2> QED  BY <1>1, <2>3
  <1>3. ASSUME NEW c \in Contents, c # d
        PROVE  HeldBy(l, s, c) = HeldBy(l, r, c)
    <2>1. \A u \in Threads : s[u][c] = r[u][c]
      BY <1>1, <1>3
    <2> QED  BY <2>1 DEF HeldBy
  <1>4. ASSUME NEW k PROVE k \in HeldBy(l, s, d) <=> k \in HeldBy(l, r, d) \cup {h}
    <2>1. \A u \in Threads \ {t} : s[u][d] = r[u][d]
      BY <1>1
    <2>2. \A i : i \in 1 .. s[t][d] <=> i \in 1 .. r[t][d] \/ i = r[t][d] + 1
      BY <1>1
    <2>3. /\ k \in HeldBy(l, s, d) <=>
              \E u \in Threads : \/ \E i \in 1 .. l[u][d] : k = <<u, "lease", i>>
                                 \/ \E i \in 1 .. s[u][d] : k = <<u, "reader", i>>
          /\ k \in HeldBy(l, r, d) <=>
              \E u \in Threads : \/ \E i \in 1 .. l[u][d] : k = <<u, "lease", i>>
                                 \/ \E i \in 1 .. r[u][d] : k = <<u, "reader", i>>
      BY InHeld
    <2>4. CASE k = h
      BY <2>2, <2>3, <2>4
    <2>5. CASE k # h
      BY <2>1, <2>2, <2>3, <2>5
    <2> QED  BY <2>4, <2>5
  <1> QED  BY <1>2, <1>3, <1>4

------------------------------------------------------------------------------
(* The parts of the invariant.                                              *)

\* A drop on its way is not a handle.
LEMMA NoDropIsHeld ==
    ASSUME NEW c, NEW t PROVE <<t, "drop", 0>> \notin Held(c)
  BY DEF Held

\* Held is HeldBy of the state.
LEMMA HeldIs == \A c : Held(c) = HeldBy(leases, readers, c)
  BY DEF Held, HeldBy

\* A thread with a lease or a reader makes Held non-empty.
LEMMA HandleIsHeld ==
    ASSUME Types, NEW t \in Threads, NEW c \in Contents,
           leases[t][c] > 0 \/ readers[t][c] > 0
    PROVE  Held(c) # {}
  <1>1. leases[t][c] \in Nat /\ readers[t][c] \in Nat
    BY DEF Types, Numbers
  <1>2. CASE leases[t][c] > 0
    <2>1. 1 \in 1 .. leases[t][c]
      BY <1>1, <1>2
    <2>2. <<t, "lease", 1>> \in Held(c)
      BY <2>1 DEF Held
    <2> QED  BY <2>2
  <1>3. CASE readers[t][c] > 0
    <2>1. 1 \in 1 .. readers[t][c]
      BY <1>1, <1>3
    <2>2. <<t, "reader", 1>> \in Held(c)
      BY <2>1 DEF Held
    <2> QED  BY <2>2
  <1> QED  BY <1>2, <1>3

\* A step of one thread moves no other.
LEMMA HandleMoved ==
    ASSUME Types, NEW t \in Threads, NEW place, at' = [at EXCEPT ![t] = place]
    PROVE  /\ at'[t] = place
           /\ \A u \in Threads : u # t => at'[u] = at[u]
           /\ \A u \in Threads, c \in Contents : u # t => About(u, c)' = About(u, c)
  BY DEF Types, About

\* What is counted depends on the handles and on who is dropping.
LEMMA SameCounted ==
    ASSUME UNCHANGED <<leases, readers>>, NEW c, Droppers(c)' = Droppers(c)
    PROVE  Held(c)' = Held(c) /\ Counted(c)' = Counted(c)
  <1>1. Held(c)' = Held(c)
    BY DEF Held
  <1> QED  BY <1>1 DEF Counted, Dropping

\* A step that changes neither the handles nor the counts nor who is dropping
\* leaves Counts true.
LEMMA SameCounts ==
    ASSUME Counts, UNCHANGED <<refs, leases, readers>>,
           \A c \in Contents : Droppers(c)' = Droppers(c)
    PROVE  /\ Counts'
           /\ \A c \in Contents : Held(c)' = Held(c) /\ Counted(c)' = Counted(c)
  <1>1. \A c \in Contents : Held(c)' = Held(c) /\ Counted(c)' = Counted(c)
    BY SameCounted
  <1>2. \A c \in Contents : Count(c)' = Count(c)
    BY DEF Count
  <1> QED  BY <1>1, <1>2 DEF Counts

\* A step between two places that are not those of a drop is no drop.
LEMMA NotDropping ==
    ASSUME Types, NEW t \in Threads, NEW place, at' = [at EXCEPT ![t] = place],
           at[t].step \notin {"dropped", "removed"},
           place = Idle \/ place.step \notin {"dropped", "removed"}
    PROVE  \A c \in Contents : Droppers(c)' = Droppers(c)
  <1>1. /\ at'[t] = place /\ \A u \in Threads : u # t => at'[u] = at[u]
    BY HandleMoved
  <1>2. \A c \in Contents : t \notin Droppers(c)' /\ t \notin Droppers(c)
    BY <1>1 DEF Droppers, About
  <1> QED  BY <1>1, <1>2 DEF Droppers, About

\* With the lock free nobody is at a step that holds it.
LEMMA Unlocked ==
    ASSUME ThreadsAssumption, Locks, holder = Free, NEW t \in Threads
    PROVE  at[t].step \notin Locked
  BY DEF ThreadsAssumption, Locks

------------------------------------------------------------------------------
(* The steps.                                                               *)

\* BlobManager::store, the file: a content on disk that nothing counts yet
\* has the thread that stores it to its name.
LEMMA PersistStep ==
    ASSUME ThreadsAssumption, BlobInv, NEW t \in Threads, NEW d \in Contents, Persist(t, d)
    PROVE  BlobInv'
  <1> DEFINE place == [step |-> "stored", content |-> d]
  <1>1. /\ Types /\ Counts /\ Locks /\ Kept /\ NothingLeft /\ lost = {}
        /\ at' = [at EXCEPT ![t] = place] /\ at[t] = Idle
        /\ holder = Free /\ holder' = t /\ files' = files \cup {d}
        /\ UNCHANGED <<refs, leases, readers, lost, faults>>
    BY DEF BlobInv, Persist, Lock, Goto
  <1>2. /\ place.step = "stored" /\ place.content = d /\ place # Idle
        /\ place \in [step : Steps, content : Contents] /\ at[t].step = "idle"
    BY <1>1 DEF Idle, Steps
  <1> HIDE DEF place
  <1>3. /\ at'[t] = place
        /\ \A u \in Threads : u # t => at'[u] = at[u]
        /\ \A u \in Threads, c \in Contents : u # t => About(u, c)' = About(u, c)
    BY <1>1, HandleMoved
  <1>4. \A c \in Contents : Droppers(c)' = Droppers(c)
    BY <1>1, <1>2, NotDropping
  <1>5. Counts' /\ \A c \in Contents : Held(c)' = Held(c) /\ Counted(c)' = Counted(c)
    BY <1>1, <1>4, SameCounts
  <1>6. Types'
    BY <1>1, <1>2 DEF Types
  <1>7. \A u \in Threads : at[u].step \notin Locked
    BY <1>1, Unlocked
  <1>8. Locks'
    BY <1>1, <1>2, <1>3, <1>7 DEF Locks, Locked
  <1>9. \A c \in Contents : About(t, c)' <=> c = d
    BY <1>2, <1>3 DEF About
  <1>10. Kept'
    <2>1. \A c \in Contents : Held(c)' # {} => c \in files'
      BY <1>1, <1>5 DEF Kept
    <2>2. ASSUME NEW u \in Threads, NEW c \in Contents, About(u, c)'
          PROVE  /\ at'[u].step = "stored" => c \in files'
                 /\ at'[u].step = "opened" => leases'[u][c] > 0
                 /\ at'[u].step # "removed"
      <3>1. CASE u = t
        BY <1>1, <1>2, <1>3, <1>9, <2>2, <3>1
      <3>2. CASE u # t
        BY <1>1, <1>3, <1>7, <2>2, <3>2 DEF Kept, Locked
      <3> QED  BY <3>1, <3>2
    <2> QED  BY <2>1, <2>2 DEF Kept
  <1>11. NothingLeft'
    <2>1. SUFFICES ASSUME faults = 0, NEW c \in files'
                   PROVE  \/ Counted(c)' # {}
                          \/ \E u \in Threads : About(u, c)' /\ at'[u].step = "stored"
      BY <1>1 DEF NothingLeft
    <2>2. CASE c = d
      BY <1>2, <1>3, <1>9, <2>2
    <2>3. CASE c # d
      <3>1. c \in files /\ c \in Contents
        BY <1>1, <2>1, <2>3 DEF Types
      <3>2. CASE Counted(c) # {}
        BY <1>5, <3>1, <3>2
      <3>3. CASE \E u \in Threads : About(u, c) /\ at[u].step = "stored"
        BY <1>7, <3>3 DEF Locked
      <3> QED  BY <1>1, <2>1, <3>1, <3>2, <3>3 DEF NothingLeft
    <2> QED  BY <2>2, <2>3
  <1> QED  BY <1>1, <1>5, <1>6, <1>8, <1>10, <1>11 DEF BlobInv

\* Locks after a step that takes, keeps or gives back the lock.
LEMMA LockTaken ==
    ASSUME ThreadsAssumption, Types, Locks, NEW t \in Threads, NEW place,
           at' = [at EXCEPT ![t] = place], holder \in {Free, t},
           holder' = IF place.step \in Locked THEN t ELSE Free
    PROVE  /\ Locks'
           /\ \A u \in Threads : u # t => at[u].step \notin Locked
  <1>1. at'[t] = place /\ \A u \in Threads : u # t => at'[u] = at[u]
    BY HandleMoved
  <1>2. \A u \in Threads : u # t => at[u].step \notin Locked
    BY DEF Locks, ThreadsAssumption
  <1>3. Locks'
    BY <1>1, <1>2 DEF Locks, ThreadsAssumption
  <1> QED  BY <1>2, <1>3

\* A failure to store only raises faults.
LEMMA StoreFailsStep ==
    ASSUME BlobInv, NEW t \in Threads, StoreFails(t)
    PROVE  BlobInv'
  <1>1. /\ Types /\ Counts /\ Locks /\ Kept /\ NothingLeft /\ lost = {}
        /\ faults' = faults + 1
        /\ UNCHANGED <<refs, files, holder, at, leases, readers, lost>>
    BY DEF BlobInv, StoreFails
  <1>2. \A c \in Contents : Droppers(c)' = Droppers(c)
    BY <1>1 DEF Droppers, About
  <1>3. Counts' /\ \A c \in Contents : Held(c)' = Held(c) /\ Counted(c)' = Counted(c)
    BY <1>1, <1>2, SameCounts
  <1>4. Types' /\ faults' # 0
    BY <1>1 DEF Types
  <1>5. Locks'
    BY <1>1 DEF Locks
  <1>6. Kept'
    BY <1>1, <1>3, <1>4 DEF Kept, About
  <1>7. NothingLeft'
    BY <1>4 DEF NothingLeft
  <1> QED  BY <1>1, <1>3, <1>4, <1>5, <1>6, <1>7 DEF BlobInv

\* Why a lease finds its data.
LEMMA HeldIsThere ==
    ASSUME BlobInv, NEW t \in Threads, NEW c \in Contents,
           leases[t][c] > 0 \/ readers[t][c] > 0
    PROVE  c \in files /\ Held(c) # {}
  BY HandleIsHeld DEF BlobInv, Kept

\* Nothing happened.
LEMMA SameStep ==
    ASSUME BlobInv, UNCHANGED blobVars
    PROVE  BlobInv'
  <1>1. \A c : Held(c)' = Held(c) /\ Droppers(c)' = Droppers(c)
    BY DEF blobVars, Held, Droppers, About
  <1>2. \A c : Counted(c)' = Counted(c) /\ Count(c)' = Count(c)
    BY <1>1 DEF blobVars, Counted, Dropping, Count
  <1> QED  BY <1>1, <1>2 DEF blobVars, BlobInv, Types, Counts, Locks, Kept, NothingLeft, About

\* get_data finds its data, so it changes nothing.
LEMMA GetDataStep ==
    ASSUME BlobInv, NEW t \in Threads, NEW c \in Contents, GetData(t, c)
    PROVE  BlobInv'
  <1>1. UNCHANGED blobVars
    BY HeldIsThere DEF GetData, blobVars
  <1> QED  BY <1>1, SameStep

\* An idle thread begins to open a reader, or waits for itself.
LEMMA GoesOn ==
    ASSUME BlobInv, NEW t \in Threads, NEW place \in [step : Steps, content : Contents],
           at' = [at EXCEPT ![t] = place], at[t] = Idle,
           UNCHANGED <<refs, files, leases, readers, lost, faults>>, Locks',
           \/ place.step = "opened" /\ leases[t][place.content] > 0
           \/ place.step = "waits for itself"
    PROVE  BlobInv'
  <1>1. /\ Types /\ Counts /\ Kept /\ NothingLeft /\ lost = {} /\ at[t].step = "idle"
    <2>1. Idle.step = "idle"
      BY DEF Idle
    <2> QED  BY <2>1 DEF BlobInv
  <1>2. /\ at'[t] = place
        /\ \A u \in Threads : u # t => at'[u] = at[u]
        /\ \A u \in Threads, c \in Contents : u # t => About(u, c)' = About(u, c)
    BY <1>1, HandleMoved
  <1>3. \A c \in Contents : Droppers(c)' = Droppers(c)
    BY <1>1, NotDropping
  <1>4. Counts' /\ \A c \in Contents : Held(c)' = Held(c) /\ Counted(c)' = Counted(c)
    BY <1>1, <1>3, SameCounts
  <1>5. Types'
    BY <1>1 DEF Types
  <1>6. Kept'
    <2>1. \A c \in Contents : Held(c)' # {} => c \in files'
      BY <1>1, <1>4 DEF Kept
    <2>2. ASSUME NEW u \in Threads, NEW c \in Contents, About(u, c)'
          PROVE  /\ at'[u].step = "stored" => c \in files'
                 /\ at'[u].step = "opened" => leases'[u][c] > 0
                 /\ at'[u].step = "removed" => /\ Counted(c)' = {<<u, "drop", 0>>}
                                               /\ faults' = 0 => c \notin files'
      <3>1. CASE u = t
        BY <1>2, <2>2, <3>1 DEF About
      <3>2. CASE u # t
        BY <1>1, <1>2, <1>4, <2>2, <3>2 DEF Kept
      <3> QED  BY <3>1, <3>2
    <2> QED  BY <2>1, <2>2 DEF Kept
  <1>7. NothingLeft'
    <2>1. SUFFICES ASSUME faults = 0, NEW c \in files, c \in Contents
                   PROVE  \/ Counted(c)' # {}
                          \/ \E u \in Threads : About(u, c)' /\ at'[u].step = "stored"
      BY <1>1 DEF NothingLeft, Types
    <2>2. CASE Counted(c) # {}
      BY <1>4, <2>1, <2>2
    <2>3. CASE \E u \in Threads : About(u, c) /\ at[u].step = "stored"
      BY <1>1, <1>2, <2>1, <2>3
    <2> QED  BY <1>1, <2>1, <2>2, <2>3 DEF NothingLeft
  <1> QED  BY <1>1, <1>4, <1>5, <1>6, <1>7 DEF BlobInv

\* get_reader finds the file.
LEMMA OpenReaderStep ==
    ASSUME BlobInv, NEW t \in Threads, NEW c \in Contents, OpenReader(t, c)
    PROVE  BlobInv'
  <1>1. c \in files
    BY HeldIsThere DEF OpenReader
  <1> DEFINE place == [step |-> "opened", content |-> c]
  <1>2. /\ at' = [at EXCEPT ![t] = place] /\ at[t] = Idle /\ leases[t][c] > 0
        /\ UNCHANGED <<refs, files, holder, leases, readers, lost, faults>>
    BY <1>1 DEF OpenReader, Goto
  <1>3. /\ place \in [step : Steps, content : Contents]
        /\ place.step = "opened" /\ place.content = c /\ at[t].step = "idle"
    BY <1>2 DEF Steps, Idle
  <1> HIDE DEF place
  <1>4. at'[t] = place /\ \A u \in Threads : u # t => at'[u] = at[u]
    BY <1>2, HandleMoved DEF BlobInv
  <1>5. Locks'
    BY <1>2, <1>3, <1>4 DEF BlobInv, Locks, Locked
  <1> QED  BY <1>2, <1>3, <1>5, GoesOn

\* get_by_content_id.
LEMMA ByContentStep ==
    ASSUME ThreadsAssumption, BlobInv, NEW t \in Threads, NEW c \in Contents, ByContent(t, c)
    PROVE  BlobInv'
  <1>1. CASE c \notin files
    <2>1. UNCHANGED blobVars
      BY <1>1 DEF ByContent, blobVars
    <2> QED  BY <2>1, SameStep
  <1>2. CASE c \in files
    <2> DEFINE place == [step |-> "waits for itself", content |-> c]
    <2>1. /\ at' = [at EXCEPT ![t] = place] /\ at[t] = Idle
          /\ holder = Free /\ holder' = t
          /\ UNCHANGED <<refs, files, leases, readers, lost, faults>>
      BY <1>2 DEF ByContent, Goto, Lock
    <2>2. /\ place \in [step : Steps, content : Contents]
          /\ place.step = "waits for itself" /\ place.step \in Locked
      BY DEF Steps, Locked
    <2> HIDE DEF place
    <2>3. Locks'
      BY <2>1, <2>2, LockTaken DEF BlobInv
    <2> QED  BY <2>1, <2>2, <2>3, GoesOn
  <1> QED  BY <1>1, <1>2

\* One handle more and one more in the count.
LEMMA OneMoreCounted ==
    ASSUME Types, Counts, NEW d \in Contents, NEW h, h \notin Counted(d),
           refs' = [refs EXCEPT ![d] = Count(d) + 1],
           Counted(d)' = Counted(d) \cup {h},
           \A c \in Contents : c # d => Counted(c)' = Counted(c)
    PROVE  Counts' /\ refs' \in [Contents -> Nat \cup {NoEntry}]
  <1>1. /\ IsFiniteSet(Counted(d)')
        /\ Cardinality(Counted(d)') = Cardinality(Counted(d)) + 1
    BY FS_AddElement DEF Counts
  <1>2. Cardinality(Counted(d)) \in Nat /\ Count(d) = Cardinality(Counted(d))
    BY FS_CardinalityType DEF Counts
  <1>3. /\ refs'[d] = Count(d) + 1
        /\ \A c \in Contents : c # d => refs'[c] = refs[c]
        /\ refs' \in [Contents -> Nat \cup {NoEntry}]
    BY <1>2 DEF Types
  <1>4. Count(d)' = Count(d) + 1
    BY <1>2, <1>3 DEF Count, NoEntry
  <1>5. \A c \in Contents : c # d => Count(c)' = Count(c)
    BY <1>3 DEF Count
  <1> QED  BY <1>1, <1>2, <1>3, <1>4, <1>5 DEF Counts

\* The two steps that count a handle, of store and of add_ref: what is
\* counted has its data on disk already, so a removal of that file cannot be
\* under way.
LEMMA HandleCounted ==
    ASSUME ThreadsAssumption, BlobInv, NEW t \in Threads, NEW d \in Contents, NEW h,
           at' = [at EXCEPT ![t] = Idle], About(t, d),
           \/ at[t].step = "stored" /\ holder = t
           \/ at[t].step = "opened" /\ holder = Free,
           holder' = Free,
           refs' = [refs EXCEPT ![d] = Count(d) + 1],
           h \notin Counted(d),
           Held(d)' = Held(d) \cup {h},
           \A c \in Contents : c # d => Held(c)' = Held(c),
           leases' \in Numbers, readers' \in Numbers,
           \A u \in Threads, c \in Contents : leases'[u][c] >= leases[u][c],
           UNCHANGED <<files, lost, faults>>
    PROVE  BlobInv'
  <1>1. Types /\ Counts /\ Locks /\ Kept /\ NothingLeft /\ lost = {} /\ Idle.step = "idle"
    BY DEF BlobInv, Idle
  <1>2. /\ at'[t] = Idle
        /\ \A u \in Threads : u # t => at'[u] = at[u]
        /\ \A u \in Threads, c \in Contents : u # t => About(u, c)' = About(u, c)
    BY <1>1, HandleMoved
  <1>3. \A c \in Contents : Droppers(c)' = Droppers(c)
    BY <1>1, NotDropping
  <1>4. /\ Counted(d)' = Counted(d) \cup {h}
        /\ \A c \in Contents : c # d => Counted(c)' = Counted(c)
    BY <1>3 DEF Counted, Dropping
  <1>5. Counts' /\ refs' \in [Contents -> Nat \cup {NoEntry}]
    BY <1>1, <1>4, OneMoreCounted
  <1>6. Types'
    BY <1>1, <1>5 DEF Types
  <1>7. Locks' /\ \A u \in Threads : u # t => at[u].step \notin Locked
    BY <1>1, LockTaken DEF Locked
  <1>8. d \in files
    BY <1>1, HandleIsHeld DEF Kept
  <1>9. Kept'
    <2>1. \A c \in Contents : Held(c)' # {} => c \in files'
      BY <1>1, <1>8 DEF Kept
    <2>2. ASSUME NEW u \in Threads, NEW c \in Contents, About(u, c)'
          PROVE  /\ at'[u].step = "stored" => c \in files'
                 /\ at'[u].step = "opened" => leases'[u][c] > 0
                 /\ at'[u].step # "removed"
      <3>1. u # t
        BY <1>2, <2>2 DEF About
      <3>2. at'[u] = at[u] /\ About(u, c) /\ at[u].step \notin Locked
        BY <1>2, <1>7, <2>2, <3>1
      <3>3. leases[u][c] > 0 => leases'[u][c] > 0
        BY <1>1 DEF Types, Numbers
      <3>4. at[u].step = "opened" => leases[u][c] > 0
        BY <1>1, <3>2 DEF Kept
      <3> QED  BY <3>2, <3>3, <3>4 DEF Locked
    <2> QED  BY <2>1, <2>2 DEF Kept
  <1>10. NothingLeft'
    <2>1. SUFFICES ASSUME faults = 0, NEW c \in files, c \in Contents
                   PROVE  Counted(c)' # {}
      BY <1>1 DEF NothingLeft, Types
    <2>2. CASE c = d
      BY <1>4, <2>2
    <2>3. CASE c # d
      <3>1. \A u \in Threads : ~ (About(u, c) /\ at[u].step = "stored")
        BY <1>7, <2>3 DEF About, Locked
      <3> QED  BY <1>1, <1>4, <2>1, <2>3, <3>1 DEF NothingLeft
    <2> QED  BY <2>2, <2>3
  <1> QED  BY <1>1, <1>5, <1>6, <1>7, <1>9, <1>10 DEF BlobInv

\* store, the count.
LEMMA CountStoredStep ==
    ASSUME ThreadsAssumption, BlobInv, NEW t \in Threads, CountStored(t)
    PROVE  BlobInv'
  <1>1. /\ Types
        /\ \E d \in Contents : at[t].step = "stored" /\ at[t].content = d /\ About(t, d)
    BY DEF BlobInv, Types, CountStored, At, Idle, About
  <1> PICK d \in Contents : at[t].step = "stored" /\ at[t].content = d /\ About(t, d)
    BY <1>1
  <1>2. /\ holder = t /\ holder' = Free /\ at' = [at EXCEPT ![t] = Idle]
        /\ refs' = [refs EXCEPT ![d] = Count(d) + 1]
        /\ leases' = [leases EXCEPT ![t][d] = @ + 1]
        /\ UNCHANGED <<files, readers, lost, faults>>
    BY DEF CountStored, Unlock, Rest
  <1>3. /\ leases \in Numbers /\ readers \in Numbers /\ leases' \in Numbers
        /\ leases'[t][d] = leases[t][d] + 1
        /\ \A u \in Threads, c \in Contents : u # t \/ c # d => leases'[u][c] = leases[u][c]
    <2> DEFINE n == leases[t][d] + 1
    <2>1. leases \in Numbers /\ readers \in Numbers
      BY <1>1 DEF Types
    <2>2. n \in Nat
      BY <2>1 DEF Numbers
    <2>3. leases' = [leases EXCEPT ![t][d] = n]
      BY <1>2, <2>1 DEF Numbers
    <2> HIDE DEF n
    <2>4. /\ leases' \in Numbers
          /\ leases'[t][d] = n
          /\ \A u \in Threads, c \in Contents : u # t \/ c # d => leases'[u][c] = leases[u][c]
      BY <2>1, <2>2, <2>3 DEF Numbers
    <2> QED  BY <2>1, <2>4 DEF n
  <1>4. PICK h : /\ h = <<t, "lease", leases[t][d] + 1>>
        /\ h \notin HeldBy(leases, readers, d)
        /\ HeldBy(leases', readers, d) = HeldBy(leases, readers, d) \cup {h}
        /\ \A c \in Contents : c # d => HeldBy(leases', readers, c) = HeldBy(leases, readers, c)
    BY <1>1, <1>3, OneLeaseMore
  <1>5. /\ Held(d)' = Held(d) \cup {h}
        /\ \A c \in Contents : c # d => Held(c)' = Held(c)
    BY <1>2, <1>4 DEF Held, HeldBy
  <1>6. h \notin Counted(d)
    BY <1>4, HeldIs DEF Counted, Dropping
  <1>7. \A u \in Threads, c \in Contents : leases'[u][c] >= leases[u][c]
    BY <1>3 DEF Numbers
  <1> QED  BY <1>1, <1>2, <1>3, <1>5, <1>6, <1>7, HandleCounted

\* add_ref for a reader.
LEMMA CountReaderStep ==
    ASSUME ThreadsAssumption, BlobInv, NEW t \in Threads, CountReader(t)
    PROVE  BlobInv'
  <1>1. /\ Types
        /\ \E d \in Contents : at[t].step = "opened" /\ at[t].content = d /\ About(t, d)
    BY DEF BlobInv, Types, CountReader, At, Idle, About
  <1> PICK d \in Contents : at[t].step = "opened" /\ at[t].content = d /\ About(t, d)
    BY <1>1
  <1>2. /\ holder = Free /\ holder' = Free /\ at' = [at EXCEPT ![t] = Idle]
        /\ refs' = [refs EXCEPT ![d] = Count(d) + 1]
        /\ readers' = [readers EXCEPT ![t][d] = @ + 1]
        /\ UNCHANGED <<files, leases, lost, faults>>
    BY DEF CountReader, Rest
  <1>3. /\ leases \in Numbers /\ readers \in Numbers /\ readers' \in Numbers
        /\ readers'[t][d] = readers[t][d] + 1
        /\ \A u \in Threads, c \in Contents : u # t \/ c # d => readers'[u][c] = readers[u][c]
    <2> DEFINE n == readers[t][d] + 1
    <2>1. leases \in Numbers /\ readers \in Numbers
      BY <1>1 DEF Types
    <2>2. n \in Nat
      BY <2>1 DEF Numbers
    <2>3. readers' = [readers EXCEPT ![t][d] = n]
      BY <1>2, <2>1 DEF Numbers
    <2> HIDE DEF n
    <2>4. /\ readers' \in Numbers
          /\ readers'[t][d] = n
          /\ \A u \in Threads, c \in Contents : u # t \/ c # d => readers'[u][c] = readers[u][c]
      BY <2>1, <2>2, <2>3 DEF Numbers
    <2> QED  BY <2>1, <2>4 DEF n
  <1>4. PICK h : /\ h = <<t, "reader", readers[t][d] + 1>>
        /\ h \notin HeldBy(leases, readers, d)
        /\ HeldBy(leases, readers', d) = HeldBy(leases, readers, d) \cup {h}
        /\ \A c \in Contents : c # d => HeldBy(leases, readers', c) = HeldBy(leases, readers, c)
    BY <1>1, <1>3, OneReaderMore
  <1>5. /\ Held(d)' = Held(d) \cup {h}
        /\ \A c \in Contents : c # d => Held(c)' = Held(c)
    BY <1>2, <1>4 DEF Held, HeldBy
  <1>6. h \notin Counted(d)
    BY <1>4, HeldIs DEF Counted, Dropping
  <1>7. \A u \in Threads, c \in Contents : leases'[u][c] >= leases[u][c]
    BY <1>2, <1>3 DEF Numbers
  <1> QED  BY <1>1, <1>2, <1>3, <1>5, <1>6, <1>7, HandleCounted

\* A handle that is dropped goes on counting as a drop until del_ref.
LEMMA HandleDropped ==
    ASSUME BlobInv, NEW t \in Threads, NEW d \in Contents, NEW h \in Held(d),
           NEW place \in [step : Steps, content : Contents],
           place.step = "dropped", place.content = d,
           at' = [at EXCEPT ![t] = place], at[t] = Idle,
           Held(d)' = Held(d) \ {h},
           \A c \in Contents : c # d => Held(c)' = Held(c),
           leases' \in Numbers, readers' \in Numbers,
           \A u \in Threads, c \in Contents : u # t => leases'[u][c] = leases[u][c],
           UNCHANGED <<refs, files, holder, lost, faults>>
    PROVE  BlobInv'
  <1> DEFINE k == <<t, "drop", 0>>
  <1>1. /\ Types /\ Counts /\ Locks /\ Kept /\ NothingLeft /\ lost = {} /\ at[t].step = "idle"
    <2>1. Idle.step = "idle"
      BY DEF Idle
    <2> QED  BY <2>1 DEF BlobInv
  <1>2. /\ at'[t] = place
        /\ \A u \in Threads : u # t => at'[u] = at[u]
        /\ \A u \in Threads, c \in Contents : u # t => About(u, c)' = About(u, c)
    BY <1>1, HandleMoved
  <1>3. /\ place # Idle /\ t \notin Droppers(d)
        /\ \A c \in Contents : About(t, c)' <=> c = d
    BY <1>2 DEF About, Droppers, Idle
  <1>4. /\ Droppers(d)' = Droppers(d) \cup {t}
        /\ \A c \in Contents : c # d => Droppers(c)' = Droppers(c)
    BY <1>1, <1>2, <1>3 DEF Droppers
  <1>5. k \notin Held(d) /\ k \notin Dropping(d) /\ h \notin Dropping(d)
    <2>1. k \notin Held(d) /\ \A u : h # <<u, "drop", 0>>
      BY NoDropIsHeld
    <2> QED  BY <1>3, <2>1 DEF Dropping
  <1>6. /\ Counted(d)' = (Counted(d) \ {h}) \cup {k}
        /\ \A c \in Contents : c # d => Counted(c)' = Counted(c)
    <2>1. Dropping(d)' = Dropping(d) \cup {k}
      BY <1>4 DEF Dropping
    <2>2. \A c \in Contents : c # d => Dropping(c)' = Dropping(c)
      BY <1>4 DEF Dropping
    <2> HIDE DEF k
    <2> QED  BY <1>5, <2>1, <2>2 DEF Counted
  <1>7. h \in Counted(d) /\ k \notin Counted(d)
    BY <1>5 DEF Counted
  <1> HIDE DEF k
  <1>8. Counts'
    <2>1. IsFiniteSet(Counted(d)) /\ Cardinality(Counted(d)) \in Nat
      BY <1>1, FS_CardinalityType DEF Counts
    <2>2. /\ IsFiniteSet(Counted(d) \ {h})
          /\ Cardinality(Counted(d) \ {h}) = Cardinality(Counted(d)) - 1
      BY <1>7, <2>1, FS_RemoveElement
    <2>3. /\ IsFiniteSet(Counted(d)')
          /\ Cardinality(Counted(d)') = Cardinality(Counted(d)) - 1 + 1
      <3> DEFINE others == Counted(d) \ {h}
      <3>1. k \notin others /\ Counted(d)' = others \cup {k}
        BY <1>6, <1>7
      <3> HIDE DEF others
      <3>2. IsFiniteSet(others) /\ Cardinality(others) = Cardinality(Counted(d)) - 1
        BY <2>2 DEF others
      <3> QED  BY <3>1, <3>2, FS_AddElement
    <2>4. Cardinality(Counted(d)') = Cardinality(Counted(d))
      BY <2>1, <2>3
    <2>5. \A c \in Contents : Count(c)' = Count(c)
      BY DEF Count
    <2> QED  BY <1>1, <1>6, <2>3, <2>4, <2>5 DEF Counts
  <1>9. Types'
    BY <1>1 DEF Types
  <1>10. Locks'
    BY <1>1, <1>2 DEF Locks, Locked
  <1>11. Kept'
    <2>1. \A c \in Contents : Held(c)' # {} => c \in files'
      BY <1>1 DEF Kept
    <2>2. ASSUME NEW u \in Threads, NEW c \in Contents, About(u, c)'
          PROVE  /\ at'[u].step = "stored" => c \in files'
                 /\ at'[u].step = "opened" => leases'[u][c] > 0
                 /\ at'[u].step = "removed" => /\ Counted(c)' = {<<u, "drop", 0>>}
                                               /\ faults' = 0 => c \notin files'
      <3>1. CASE u = t
        BY <1>2, <2>2, <3>1
      <3>2. CASE u # t
        <4>1. at'[u] = at[u] /\ About(u, c) /\ leases'[u][c] = leases[u][c]
          BY <1>2, <2>2, <3>2
        <4>2. at[u].step = "removed" => c # d
          BY <1>1, <1>7, <4>1, NoDropIsHeld DEF Kept
        <4> QED  BY <1>1, <1>6, <4>1, <4>2 DEF Kept
      <3> QED  BY <3>1, <3>2
    <2> QED  BY <2>1, <2>2 DEF Kept
  <1>12. NothingLeft'
    <2>1. SUFFICES ASSUME faults = 0, NEW c \in files, c \in Contents
                   PROVE  \/ Counted(c)' # {}
                          \/ \E u \in Threads : About(u, c)' /\ at'[u].step = "stored"
      BY <1>1 DEF NothingLeft, Types
    <2>2. CASE c = d
      BY <1>6, <2>2
    <2>3. CASE c # d
      <3>1. CASE Counted(c) # {}
        BY <1>6, <2>1, <2>3, <3>1
      <3>2. CASE \E u \in Threads : About(u, c) /\ at[u].step = "stored"
        BY <1>1, <1>2, <2>1, <3>2
      <3> QED  BY <1>1, <2>1, <3>1, <3>2 DEF NothingLeft
    <2> QED  BY <2>2, <2>3
  <1> QED  BY <1>1, <1>8, <1>9, <1>10, <1>11, <1>12 DEF BlobInv

\* The drop of a lease or reader.
LEMMA DropStep ==
    ASSUME BlobInv, NEW t \in Threads, NEW d \in Contents, Drop(t, d)
    PROVE  BlobInv'
  <1> DEFINE place == [step |-> "dropped", content |-> d]
  <1>1. /\ at[t] = Idle /\ at' = [at EXCEPT ![t] = place]
        /\ UNCHANGED <<refs, files, holder, lost, faults>>
    BY DEF Drop, Goto
  <1>2. /\ place \in [step : Steps, content : Contents]
        /\ place.step = "dropped" /\ place.content = d
    BY DEF Steps
  <1> HIDE DEF place
  <1>3. leases \in Numbers /\ readers \in Numbers
    BY DEF BlobInv, Types
  <1>4. CASE leases[t][d] > 0 /\ leases' = [leases EXCEPT ![t][d] = @ - 1] /\ UNCHANGED readers
    <2> DEFINE n == leases[t][d] - 1
    <2>1. n \in Nat /\ leases[t][d] = n + 1
      BY <1>3, <1>4 DEF Numbers
    <2>2. leases' = [leases EXCEPT ![t][d] = n]
      BY <1>3, <1>4 DEF Numbers
    <2> HIDE DEF n
    <2>3. /\ leases' \in Numbers
          /\ leases[t][d] = leases'[t][d] + 1
          /\ \A u \in Threads, c \in Contents : u # t \/ c # d => leases[u][c] = leases'[u][c]
      BY <1>3, <2>1, <2>2 DEF Numbers
    <2>4. PICK h : /\ h = <<t, "lease", leases'[t][d] + 1>>
             /\ h \notin HeldBy(leases', readers, d)
             /\ HeldBy(leases, readers, d) = HeldBy(leases', readers, d) \cup {h}
             /\ \A c \in Contents : c # d => HeldBy(leases, readers, c) = HeldBy(leases', readers, c)
      BY <1>3, <2>3, OneLeaseMore
    <2>5. /\ h \in Held(d) /\ Held(d)' = Held(d) \ {h}
          /\ \A c \in Contents : c # d => Held(c)' = Held(c)
      <3>1. \A c : Held(c)' = HeldBy(leases', readers, c)
        BY <1>4 DEF Held, HeldBy
      <3> QED  BY <2>4, <3>1, HeldIs
    <2>6. /\ \A u \in Threads, c \in Contents : u # t => leases'[u][c] = leases[u][c]
          /\ readers' \in Numbers
      BY <1>3, <1>4, <2>3
    <2> QED  BY <1>1, <1>2, <2>3, <2>5, <2>6, HandleDropped, ZenonT(30)
  <1>5. CASE readers[t][d] > 0 /\ readers' = [readers EXCEPT ![t][d] = @ - 1] /\ UNCHANGED leases
    <2> DEFINE n == readers[t][d] - 1
    <2>1. n \in Nat /\ readers[t][d] = n + 1
      BY <1>3, <1>5 DEF Numbers
    <2>2. readers' = [readers EXCEPT ![t][d] = n]
      BY <1>3, <1>5 DEF Numbers
    <2> HIDE DEF n
    <2>3. /\ readers' \in Numbers
          /\ readers[t][d] = readers'[t][d] + 1
          /\ \A u \in Threads, c \in Contents : u # t \/ c # d => readers[u][c] = readers'[u][c]
      BY <1>3, <2>1, <2>2 DEF Numbers
    <2>4. PICK h : /\ h = <<t, "reader", readers'[t][d] + 1>>
             /\ h \notin HeldBy(leases, readers', d)
             /\ HeldBy(leases, readers, d) = HeldBy(leases, readers', d) \cup {h}
             /\ \A c \in Contents : c # d => HeldBy(leases, readers, c) = HeldBy(leases, readers', c)
      BY <1>3, <2>3, OneReaderMore
    <2>5. /\ h \in Held(d) /\ Held(d)' = Held(d) \ {h}
          /\ \A c \in Contents : c # d => Held(c)' = Held(c)
      <3>1. \A c : Held(c)' = HeldBy(leases, readers', c)
        BY <1>5 DEF Held, HeldBy
      <3> QED  BY <2>4, <3>1, HeldIs
    <2> QED  BY <1>1, <1>2, <1>3, <1>5, <2>3, <2>5, HandleDropped, ZenonT(30)
  <1> QED  BY <1>4, <1>5 DEF Drop

\* With a count of 1 a thread that is dropping is all that is counted: no
\* other thread has, opens or stores the content.
LEMMA LastDrop ==
    ASSUME Counts, NEW t \in Threads, NEW d \in Contents, t \in Droppers(d), Count(d) = 1
    PROVE  Counted(d) = {<<t, "drop", 0>>}
  <1>1. PICK h : Counted(d) = {h}
    BY FS_Singleton DEF Counts
  <1>2. <<t, "drop", 0>> \in Counted(d)
    BY DEF Counted, Dropping
  <1> QED  BY <1>1, <1>2

\* del_ref of the last count, the file.
LEMMA RemoveFileStep ==
    ASSUME ThreadsAssumption, BlobInv, NEW t \in Threads, RemoveFile(t)
    PROVE  BlobInv'
  <1>1. /\ Types /\ Counts /\ Locks /\ Kept /\ NothingLeft /\ lost = {}
        /\ at[t].step = "dropped"
        /\ \E d \in Contents : at[t].content = d /\ About(t, d)
    BY DEF BlobInv, Types, RemoveFile, At, Idle, About
  <1> PICK d \in Contents : at[t].content = d /\ About(t, d)
    BY <1>1
  <1> DEFINE place == [step |-> "removed", content |-> d]
  <1>2. /\ refs[d] = 1 /\ holder = Free /\ holder' = t
        /\ at' = [at EXCEPT ![t] = place]
        /\ \/ files' = files \ {d} /\ faults' = faults
           \/ files' = files /\ faults' = faults + 1
        /\ UNCHANGED <<refs, leases, readers, lost>>
    BY DEF RemoveFile, Lock, Goto
  <1>3. /\ place \in [step : Steps, content : Contents] /\ place # Idle
        /\ place.step = "removed" /\ place.content = d
    BY DEF Steps, Idle
  <1> HIDE DEF place
  <1>4. /\ at'[t] = place
        /\ \A u \in Threads : u # t => at'[u] = at[u]
        /\ \A u \in Threads, c \in Contents : u # t => About(u, c)' = About(u, c)
    BY <1>1, <1>2, HandleMoved
  <1>5. \A c \in Contents : About(t, c)' <=> c = d
    BY <1>3, <1>4 DEF About
  <1>6. \A c \in Contents : About(t, c) <=> c = d
    BY DEF About
  <1>7. \A c \in Contents : Droppers(c)' = Droppers(c)
    BY <1>1, <1>3, <1>4, <1>5, <1>6 DEF Droppers
  <1>8. Counts' /\ \A c \in Contents : Held(c)' = Held(c) /\ Counted(c)' = Counted(c)
    BY <1>1, <1>2, <1>7, SameCounts
  <1>9. Counted(d) = {<<t, "drop", 0>>} /\ Held(d) = {}
    <2>1. t \in Droppers(d) /\ Count(d) = 1
      BY <1>1, <1>2 DEF Droppers, Count, NoEntry
    <2>2. Counted(d) = {<<t, "drop", 0>>}
      BY <1>1, <2>1, LastDrop
    <2> QED  BY <2>2, NoDropIsHeld DEF Counted
  <1>10. Locks' /\ \A u \in Threads : at[u].step \notin Locked
    BY <1>1, <1>2, <1>3, LockTaken, Unlocked DEF Locked
  <1>11. Types' /\ faults \in Nat
    BY <1>1, <1>2, <1>3 DEF Types
  <1>12. Kept'
    <2>1. \A c \in Contents : Held(c)' # {} => c \in files'
      BY <1>1, <1>2, <1>8, <1>9 DEF Kept
    <2>2. ASSUME NEW u \in Threads, NEW c \in Contents, About(u, c)'
          PROVE  /\ at'[u].step = "stored" => c \in files'
                 /\ at'[u].step = "opened" => leases'[u][c] > 0
                 /\ at'[u].step = "removed" => /\ Counted(c)' = {<<u, "drop", 0>>}
                                               /\ faults' = 0 => c \notin files'
      <3>1. CASE u = t
        BY <1>2, <1>3, <1>4, <1>5, <1>8, <1>9, <1>11, <2>2, <3>1
      <3>2. CASE u # t
        BY <1>1, <1>2, <1>4, <1>10, <2>2, <3>2 DEF Kept, Locked
      <3> QED  BY <3>1, <3>2
    <2> QED  BY <2>1, <2>2 DEF Kept
  <1>13. NothingLeft'
    <2>1. SUFFICES ASSUME faults' = 0, NEW c \in files', c \in Contents
                   PROVE  Counted(c)' # {}
      BY <1>11 DEF NothingLeft, Types
    <2>2. faults = 0 /\ c \in files
      BY <1>2, <1>11, <2>1
    <2>3. \A u \in Threads : at[u].step # "stored"
      BY <1>10 DEF Locked
    <2> QED  BY <1>1, <1>8, <2>1, <2>2, <2>3 DEF NothingLeft
  <1> QED  BY <1>1, <1>2, <1>8, <1>10, <1>11, <1>12, <1>13 DEF BlobInv

\* The two steps by which del_ref takes a drop off the count.
LEMMA DropCounted ==
    ASSUME ThreadsAssumption, BlobInv, NEW t \in Threads, NEW d \in Contents,
           About(t, d), at[t].step \in {"dropped", "removed"},
           at' = [at EXCEPT ![t] = Idle],
           refs' = [refs EXCEPT ![d] = Count(d) - 1],
           holder \in {Free, t}, holder' = Free,
           faults = 0 /\ d \in files => Counted(d) # {<<t, "drop", 0>>},
           UNCHANGED <<files, leases, readers, lost, faults>>
    PROVE  BlobInv'
  <1> DEFINE k == <<t, "drop", 0>>
  <1>1. /\ Types /\ Counts /\ Locks /\ Kept /\ NothingLeft /\ lost = {}
        /\ Idle.step = "idle"
    BY DEF BlobInv, Idle
  <1>2. /\ at'[t] = Idle
        /\ \A u \in Threads : u # t => at'[u] = at[u]
        /\ \A u \in Threads, c \in Contents : u # t => About(u, c)' = About(u, c)
    BY <1>1, HandleMoved
  <1>3. \A c \in Contents : ~About(t, c)' /\ (About(t, c) <=> c = d)
    BY <1>2 DEF About
  <1>4. /\ t \in Droppers(d)
        /\ Droppers(d)' = Droppers(d) \ {t}
        /\ \A c \in Contents : c # d => Droppers(c)' = Droppers(c)
    BY <1>2, <1>3 DEF Droppers
  <1>5. k \notin Held(d) /\ \A c \in Contents : Held(c)' = Held(c)
    BY NoDropIsHeld DEF Held
  <1>6. /\ k \in Counted(d)
        /\ Counted(d)' = Counted(d) \ {k}
        /\ \A c \in Contents : c # d => Counted(c)' = Counted(c)
    <2>1. k \in Dropping(d) /\ Dropping(d)' = Dropping(d) \ {k}
      BY <1>4 DEF Dropping
    <2>2. \A c \in Contents : c # d => Dropping(c)' = Dropping(c)
      BY <1>4 DEF Dropping
    <2> HIDE DEF k
    <2> QED  BY <1>5, <2>1, <2>2 DEF Counted
  <1> HIDE DEF k
  <1>7. IsFiniteSet(Counted(d)) /\ Count(d) = Cardinality(Counted(d)) /\ Count(d) \in Nat
    BY <1>1, FS_CardinalityType DEF Counts
  <1>8. /\ IsFiniteSet(Counted(d)') /\ Cardinality(Counted(d)') = Count(d) - 1
        /\ Cardinality(Counted(d)') \in Nat
    BY <1>6, <1>7, FS_RemoveElement, FS_CardinalityType
  <1>9. Types'
    <2> DEFINE n == Count(d) - 1
    <2>1. n \in Nat /\ refs' = [refs EXCEPT ![d] = n]
      BY <1>8
    <2> HIDE DEF n
    <2> QED  BY <1>1, <2>1 DEF Types
  <1>10. Counts'
    <2> DEFINE n == Count(d) - 1
    <2>1. n \in Nat /\ refs' = [refs EXCEPT ![d] = n]
      BY <1>8
    <2>2. Cardinality(Counted(d)') = n
      BY <1>8
    <2> HIDE DEF n
    <2>3. Count(d)' = n /\ \A c \in Contents : c # d => Count(c)' = Count(c)
      BY <1>1, <2>1 DEF Types, Count, NoEntry
    <2> QED  BY <1>1, <1>6, <1>8, <2>2, <2>3 DEF Counts
  <1>11. Locks' /\ \A u \in Threads : u # t => at[u].step \notin Locked
    BY <1>1, LockTaken DEF Locked
  <1>12. Kept'
    <2>1. \A c \in Contents : Held(c)' # {} => c \in files'
      BY <1>1, <1>5 DEF Kept
    <2>2. ASSUME NEW u \in Threads, NEW c \in Contents, About(u, c)'
          PROVE  /\ at'[u].step = "stored" => c \in files'
                 /\ at'[u].step = "opened" => leases'[u][c] > 0
                 /\ at'[u].step # "removed"
      <3>1. u # t /\ at'[u] = at[u] /\ About(u, c)
        BY <1>2, <1>3, <2>2
      <3> QED  BY <1>1, <1>11, <3>1 DEF Kept, Locked
    <2> QED  BY <2>1, <2>2 DEF Kept
  <1>13. NothingLeft'
    <2>1. SUFFICES ASSUME faults = 0, NEW c \in files, c \in Contents
                   PROVE  \/ Counted(c)' # {}
                          \/ \E u \in Threads : About(u, c)' /\ at'[u].step = "stored"
      BY <1>1 DEF NothingLeft, Types
    <2>2. CASE c = d
      BY <1>6, <2>1, <2>2 DEF k
    <2>3. CASE c # d
      <3>1. CASE Counted(c) # {}
        BY <1>6, <2>1, <2>3, <3>1
      <3>2. CASE \E u \in Threads : About(u, c) /\ at[u].step = "stored"
        BY <1>2, <2>1, <3>2
      <3> QED  BY <1>1, <2>1, <3>1, <3>2 DEF NothingLeft
    <2> QED  BY <2>2, <2>3
  <1> QED  BY <1>1, <1>9, <1>10, <1>11, <1>12, <1>13 DEF BlobInv

\* del_ref of the last count, the entry.
LEMMA ClearCountStep ==
    ASSUME ThreadsAssumption, BlobInv, NEW t \in Threads, ClearCount(t)
    PROVE  BlobInv'
  <1>1. /\ Types /\ Counts /\ Kept /\ at[t].step = "removed"
        /\ \E d \in Contents : at[t].content = d /\ About(t, d)
    BY DEF BlobInv, Types, ClearCount, At, Idle, About
  <1> PICK d \in Contents : at[t].content = d /\ About(t, d)
    BY <1>1
  <1>2. /\ holder = t /\ holder' = Free /\ at' = [at EXCEPT ![t] = Idle]
        /\ refs' = [refs EXCEPT ![d] = 0]
        /\ UNCHANGED <<files, leases, readers, lost, faults>>
    BY DEF ClearCount, Unlock, Rest
  <1>3. Counted(d) = {<<t, "drop", 0>>} /\ (faults = 0 => d \notin files)
    BY <1>1 DEF Kept
  <1>4. Count(d) = 1
    BY <1>1, <1>3, FS_Singleton DEF Counts
  <1>5. refs' = [refs EXCEPT ![d] = Count(d) - 1]
    <2>1. Count(d) - 1 = 0
      BY <1>4
    <2> QED  BY <1>2, <2>1
  <1> QED  BY <1>1, <1>2, <1>3, <1>5, DropCounted

\* del_ref of any other count, which is at least 2: nothing wraps.
LEMMA LowerCountStep ==
    ASSUME ThreadsAssumption, BlobInv, NEW t \in Threads, LowerCount(t)
    PROVE  BlobInv'
  <1>1. /\ Types /\ Counts /\ at[t].step = "dropped"
        /\ \E d \in Contents : at[t].content = d /\ About(t, d)
    BY DEF BlobInv, Types, LowerCount, At, Idle, About
  <1> PICK d \in Contents : at[t].content = d /\ About(t, d)
    BY <1>1
  <1>2. /\ holder = Free /\ holder' = Free /\ at' = [at EXCEPT ![t] = Idle]
        /\ refs[d] # 1
        /\ refs[d] # NoEntry => refs' = [refs EXCEPT ![d] = @ - 1]
        /\ UNCHANGED <<files, leases, readers, lost, faults>>
    BY DEF LowerCount, Rest
  <1>3. <<t, "drop", 0>> \in Counted(d)
    BY <1>1 DEF Counted, Dropping, Droppers
  <1>4. Count(d) # 0
    BY <1>1, <1>3, FS_EmptySet DEF Counts
  <1>5. refs[d] # NoEntry /\ Count(d) = refs[d]
    BY <1>4 DEF Count
  <1>6. Counted(d) # {<<t, "drop", 0>>}
    <2>1. Count(d) # 1
      BY <1>2, <1>5
    <2> QED  BY <1>1, <2>1, FS_Singleton DEF Counts
  <1>7. refs' = [refs EXCEPT ![d] = Count(d) - 1]
    BY <1>2, <1>5
  <1> QED  BY <1>1, <1>2, <1>6, <1>7, DropCounted

------------------------------------------------------------------------------
(* The theorems.                                                            *)

\* The storage is empty.
LEMMA Initially ==
    ASSUME ThreadsAssumption, BlobInit PROVE BlobInv
  <1>1. /\ refs = [c \in Contents |-> NoEntry] /\ files = {} /\ holder = Free
        /\ at = [t \in Threads |-> Idle]
        /\ leases = [t \in Threads |-> [c \in Contents |-> 0]]
        /\ readers = leases /\ lost = {} /\ faults = 0
    BY DEF BlobInit
  <1>2. \A t \in Threads : at[t] = Idle /\ at[t].step = "idle"
    BY <1>1 DEF Idle
  <1>3. Types
    BY <1>1 DEF Types, Numbers
  <1>4. \A c \in Contents : Counted(c) = {}
    <2>1. SUFFICES ASSUME NEW c \in Contents PROVE Held(c) = {} /\ Dropping(c) = {}
      BY DEF Counted
    <2>2. \A t \in Threads : leases[t][c] = 0 /\ readers[t][c] = 0
      BY <1>1
    <2>3. Held(c) = {}
      BY <2>2 DEF Held
    <2>4. Dropping(c) = {}
      BY <1>2 DEF Dropping, Droppers, About
    <2> QED  BY <2>3, <2>4
  <1>5. Counts
    BY <1>1, <1>4, FS_EmptySet DEF Counts, Count
  <1>6. Locks
    BY <1>1, <1>2 DEF Locks, Locked, ThreadsAssumption
  <1>7. Kept
    BY <1>2, <1>4 DEF Kept, Counted, About
  <1>8. NothingLeft
    BY <1>1 DEF NothingLeft
  <1> QED  BY <1>1, <1>3, <1>5, <1>6, <1>7, <1>8 DEF BlobInv

\* Every step keeps the invariant.
LEMMA Always ==
    ASSUME ThreadsAssumption, BlobInv, [BlobNext]_blobVars PROVE BlobInv'
  <1>1. CASE UNCHANGED blobVars
    BY <1>1, SameStep
  <1>2. ASSUME NEW t \in Threads, NEW c \in Contents,
               Persist(t, c) \/ GetData(t, c) \/ OpenReader(t, c) \/ Drop(t, c) \/ ByContent(t, c)
        PROVE  BlobInv'
    BY <1>2, PersistStep, GetDataStep, OpenReaderStep, DropStep, ByContentStep
  <1>3. ASSUME NEW t \in Threads,
               \/ StoreFails(t) \/ CountStored(t) \/ CountReader(t)
               \/ RemoveFile(t) \/ ClearCount(t) \/ LowerCount(t)
        PROVE  BlobInv'
    BY <1>3, StoreFailsStep, CountStoredStep, CountReaderStep,
       RemoveFileStep, ClearCountStep, LowerCountStep
  <1> QED  BY <1>1, <1>2, <1>3 DEF BlobNext

\* The invariant of the storage, for any threads and contents and however
\* many handles and failures of the disk there are.
THEOREM BlobInvariance ==
    ASSUME ThreadsAssumption PROVE BlobSpec => []BlobInv
  <1>1. BlobInit => BlobInv
    BY Initially
  <1>2. BlobInv /\ [BlobNext]_blobVars => BlobInv'
    BY Always
  <1> QED  BY <1>1, <1>2, PTL DEF BlobSpec

\* Whoever has a lease or is opening a reader finds the data: no interleaving
\* of store, get_reader, get_data and the drops of other threads takes the
\* file away (SimpleTempDir::add_ref and del_ref).  And between the calls the
\* counts are exactly the handles and, but for a failure of the disk, no file
\* is left that nothing leases.
THEOREM LeasesHold ==
    ASSUME ThreadsAssumption PROVE BlobSpec => []LeasedDataIsFound
  <1>1. BlobInv => NothingIsLost
    BY DEF BlobInv, NothingIsLost
  <1>2. BlobInv => CountsAreTheHandles
    <2>1. SUFFICES ASSUME BlobInv, \A t \in Threads : at[t] = Idle, NEW c \in Contents
                   PROVE  /\ Count(c) = Handles(c)
                          /\ Handles(c) > 0 => c \in files
                          /\ faults = 0 => (c \in files => Handles(c) > 0)
      BY DEF CountsAreTheHandles
    <2>2. Counted(c) = Held(c)
      BY <2>1 DEF Counted, Dropping, Droppers, About
    <2>3. /\ IsFiniteSet(Held(c)) /\ Count(c) = Handles(c) /\ Handles(c) \in Nat
          /\ Handles(c) = 0 <=> Held(c) = {}
      BY <2>1, <2>2, FS_CardinalityType, FS_EmptySet DEF BlobInv, Counts, Handles
    <2>4. /\ Held(c) # {} => c \in files
          /\ faults = 0 /\ c \in files => Held(c) # {}
      BY <2>1, <2>2 DEF BlobInv, Kept, NothingLeft, About
    <2> QED  BY <2>3, <2>4
  <1>3. BlobInv => LeasedDataIsFound
    BY <1>1, <1>2 DEF LeasedDataIsFound
  <1> QED  BY <1>3, BlobInvariance, PTL

=============================================================================
