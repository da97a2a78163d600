----------------------------- MODULE PaneProofs -----------------------------
(***************************************************************************)
(* The panes of a tab: the tree they stand in (PaneTree) and the output    *)
(* each of them shows (PaneOutput).                                        *)
(*                                                                         *)
(* The tree.  A leaf is found by its index in preorder, so everything      *)
(* rests on how Before orders the paths of a proper tree: it is total on   *)
(* the leaves, so that each index is that of one leaf (LeafAtIndex), and   *)
(* putting what lies under one path under another keeps it                 *)
(* (RegraftKeepsOrder).  From this follow what each operation on a tree    *)
(* keeps and where it puts a pane (UnsplitKeeps, SplitLeafKeeps,           *)
(* SplitRootKeeps, SwapKeeps, RotateKeeps), what each method of TabInner   *)
(* keeps (Steady, LandsBeside, RemoveLeafShifts), and the invariant of the *)
(* tab under a removal pass (TreeIInv), which says what the walk has       *)
(* counted before it found its pane and what the shift that is still to    *)
(* come will make of the active index after it.                            *)
(*                                                                         *)
(* The output, for buffers of any size and any output under way: the two   *)
(* threads implement OutputStream while the pane lives.                    *)
(* The mapping takes everything under way, from the gathered actions to    *)
(* the pty, as the waiting output.  That a move between two places is no   *)
(* step of the stream needs each place to be filled only when it is empty  *)
(* (chunk, input); that a batch tears no update needs the gathered actions *)
(* to hold no mark, and hold, the parser's own variable, to say what the   *)
(* terminal has seen (framed); and the end of the stream shows the rest    *)
(* because the reader ends before its pane only when the pty is drained.   *)
(***************************************************************************)
EXTENDS PaneTree, PaneOutput, FiniteSetTheorems, FunctionTheorems, SequenceTheorems,
        WellFoundedInduction, TLAPS

-----------------------------------------------------------------------------
(* Paths, element by element.                                              *)

Paths == Seq(Turns)

(* p and q take the same first n turns.                                    *)
Agree(p, q, n) == \A j \in 1 .. n : p[j] = q[j]

(* p and q part at turn i, p to the left.                                  *)
PartsLeft(p, q, i) == i <= Len(p) /\ i <= Len(q) /\ Agree(p, q, i - 1) /\ p[i] < q[i]

(* A path has a length, and 0 or 1 at each turn.                           *)
LEMMA PathTypes ==
  ASSUME NEW p \in Paths
  PROVE  /\ Len(p) \in Nat
         /\ p \in [1 .. Len(p) -> Turns]
         /\ \A j \in 1 .. Len(p) : p[j] \in Int /\ (p[j] = 0 \/ p[j] = 1)
  <1>1. Len(p) \in Nat /\ p \in [1 .. Len(p) -> Turns]
    BY LenProperties DEF Paths
  <1>. QED  BY <1>1 DEF Turns

(* Two paths that take the same turns are the same.                        *)
LEMMA SamePath ==
  ASSUME NEW p \in Paths, NEW q \in Paths, Len(p) = Len(q), Agree(p, q, Len(p))
  PROVE  p = q
  BY SeqEqual DEF Paths, Agree

(* The first n turns of a path.                                            *)
LEMMA FirstTurns ==
  ASSUME NEW p \in Paths, NEW n \in Nat, n <= Len(p)
  PROVE  /\ SubSeq(p, 1, n) \in Paths
         /\ Len(SubSeq(p, 1, n)) = n
         /\ \A i \in 1 .. n : SubSeq(p, 1, n)[i] = p[i]
  <1>1. \A i \in 1 .. n : p[i] \in Turns
    BY PathTypes DEF Turns
  <1>. DEFINE s == SubSeq(p, 1, n)
  <1>2. /\ s \in Seq(Turns)
        /\ Len(s) = IF 1 <= n THEN n - 1 + 1 ELSE 0
        /\ \A i \in 1 .. n - 1 + 1 : s[i] = p[1 + i - 1]
    BY ONLY <1>1, SubSeqProperties, n \in Nat
  <1>3. n - 1 + 1 = n /\ \A i \in 1 .. n : 1 + i - 1 = i
    OBVIOUS
  <1>4. (IF 1 <= n THEN n - 1 + 1 ELSE 0) = n
    OBVIOUS
  <1>. QED  BY <1>2, <1>3, <1>4 DEF Paths

(* Two paths have the same first n turns if they agree on them.            *)
LEMMA SameFirstTurns ==
  ASSUME NEW p \in Paths, NEW q \in Paths, NEW n \in Nat, n <= Len(p), n <= Len(q)
  PROVE  SubSeq(p, 1, n) = SubSeq(q, 1, n) <=> Agree(p, q, n)
  <1>1. ASSUME Agree(p, q, n) PROVE SubSeq(p, 1, n) = SubSeq(q, 1, n)
    <2>1. Agree(SubSeq(p, 1, n), SubSeq(q, 1, n), n)
      BY <1>1, FirstTurns DEF Agree
    <2>. QED  BY <2>1, FirstTurns, SamePath
  <1>2. ASSUME SubSeq(p, 1, n) = SubSeq(q, 1, n) PROVE Agree(p, q, n)
    BY <1>2, FirstTurns DEF Agree
  <1>. QED  BY <1>1, <1>2

(* IsPrefix, turn by turn.                                                 *)
LEMMA PrefixAgrees ==
  ASSUME NEW p \in Paths, NEW q \in Paths
  PROVE  IsPrefix(p, q) <=> Len(p) <= Len(q) /\ Agree(p, q, Len(p))
  BY SameFirstTurns, PathTypes DEF IsPrefix

(* Before, turn by turn.                                                   *)
LEMMA BeforeParts ==
  ASSUME NEW p \in Paths, NEW q \in Paths
  PROVE  Before(p, q) <=> \E i \in Nat \ {0} : PartsLeft(p, q, i)
  <1>1. ASSUME NEW i \in 1 .. Len(p), i <= Len(q)
        PROVE  SubSeq(p, 1, i - 1) = SubSeq(q, 1, i - 1) <=> Agree(p, q, i - 1)
    <2>1. i - 1 \in Nat /\ i - 1 <= Len(p) /\ i - 1 <= Len(q)
      BY <1>1, PathTypes
    <2>. QED  BY <2>1, SameFirstTurns
  <1>2. ASSUME Before(p, q) PROVE \E i \in Nat \ {0} : PartsLeft(p, q, i)
    <2>1. PICK i \in 1 .. Len(p) : /\ i <= Len(q)
                                   /\ SubSeq(p, 1, i - 1) = SubSeq(q, 1, i - 1)
                                   /\ p[i] < q[i]
      BY <1>2 DEF Before
    <2>. QED  BY <1>1, <2>1, PathTypes DEF PartsLeft
  <1>3. ASSUME NEW i \in Nat \ {0}, PartsLeft(p, q, i) PROVE Before(p, q)
    <2>1. i \in 1 .. Len(p) /\ i <= Len(q) /\ Agree(p, q, i - 1) /\ p[i] < q[i]
      BY <1>3, PathTypes DEF PartsLeft
    <2>. QED  BY <1>1, <2>1 DEF Before
  <1>. QED  BY <1>2, <1>3

(* A set of numbers that is not empty has a least one.                     *)
LEMMA LeastOf ==
  ASSUME NEW S \in SUBSET Nat, S # {}
  PROVE  \E n \in S : \A m \in S : n <= m
  <1>. DEFINE R == OpToRel(<, Nat)
  <1>1. IsWellFoundedOn(R, Nat)
    BY NatLessThanWellFounded
  <1>2. \A m, n \in Nat : <<m, n>> \in R <=> m < n
    BY DEF OpToRel
  <1>. HIDE DEF R
  <1>3. PICK n \in S : \A m \in S : ~ (<<m, n>> \in R)
    BY <1>1, WFMin
  <1>4. \A m \in S : m \in Nat /\ n \in Nat /\ ~ (m < n)
    BY <1>2, <1>3
  <1>5. \A m \in S : n <= m
    BY <1>4
  <1>. QED  BY <1>5

(* Two paths, neither of which leads to the other, part somewhere.         *)
LEMMA PathsPart ==
  ASSUME NEW p \in Paths, NEW q \in Paths, ~ IsPrefix(p, q), ~ IsPrefix(q, p)
  PROVE  Before(p, q) \/ Before(q, p)
  <1>. DEFINE S == {i \in Nat \ {0} : i <= Len(p) /\ i <= Len(q) /\ p[i] # q[i]}
  <1>1. S # {}
    <2>0. Len(p) \in Nat /\ Len(q) \in Nat
      BY PathTypes
    <2>1. CASE Len(p) <= Len(q)
      <3>1. ~ Agree(p, q, Len(p))
        BY <2>1, PrefixAgrees
      <3>2. PICK i \in 1 .. Len(p) : p[i] # q[i]
        BY <3>1 DEF Agree
      <3>3. i \in S
        BY <2>0, <2>1, <3>2
      <3>. QED  BY <3>3
    <2>2. CASE Len(q) <= Len(p)
      <3>1. ~ Agree(q, p, Len(q))
        BY <2>2, PrefixAgrees
      <3>2. PICK i \in 1 .. Len(q) : p[i] # q[i]
        BY <3>1 DEF Agree
      <3>3. i \in S
        BY <2>0, <2>2, <3>2
      <3>. QED  BY <3>3
    <2>. QED  BY <2>0, <2>1, <2>2
  <1>2. PICK i \in S : \A m \in S : i <= m
    BY <1>1, LeastOf
  <1>3. Agree(p, q, i - 1)
    BY <1>2, PathTypes DEF Agree
  <1>4. Agree(q, p, i - 1)
    BY <1>3, <1>2 DEF Agree
  <1>5. p[i] < q[i] \/ q[i] < p[i]
    BY <1>2, PathTypes
  <1>. QED  BY <1>2, <1>3, <1>4, <1>5, BeforeParts DEF PartsLeft

(* Paths that part do not lead to one another, nor part the other way.     *)
LEMMA PartedPaths ==
  ASSUME NEW p \in Paths, NEW q \in Paths, Before(p, q)
  PROVE  ~ IsPrefix(p, q) /\ ~ IsPrefix(q, p) /\ ~ Before(q, p)
  <1>1. PICK i \in Nat \ {0} : PartsLeft(p, q, i)
    BY BeforeParts
  <1>2. ~ IsPrefix(p, q) /\ ~ IsPrefix(q, p)
    BY <1>1, PrefixAgrees, PathTypes DEF PartsLeft, Agree
  <1>3. ASSUME NEW j \in Nat \ {0}, PartsLeft(q, p, j) PROVE FALSE
    <2>1. i \in 1 .. Len(p) /\ j \in 1 .. Len(p) /\ i \in 1 .. Len(q) /\ j \in 1 .. Len(q)
      BY <1>1, <1>3, PathTypes DEF PartsLeft
    <2>2. p[i] \in Int /\ p[j] \in Int /\ q[i] \in Int /\ q[j] \in Int
      BY <2>1, PathTypes
    <2>3. i < j => q[i] = p[i]
      BY <1>3 DEF PartsLeft, Agree
    <2>4. j < i => p[j] = q[j]
      BY <1>1 DEF PartsLeft, Agree
    <2>. QED  BY <1>1, <1>3, <2>2, <2>3, <2>4 DEF PartsLeft
  <1>. QED  BY <1>2, <1>3, BeforeParts

(* Preorder is transitive.                                                 *)
LEMMA BeforeTransitive ==
  ASSUME NEW p \in Paths, NEW q \in Paths, NEW r \in Paths, Before(p, q), Before(q, r)
  PROVE  Before(p, r)
  <1>1. PICK i \in Nat \ {0} : PartsLeft(p, q, i)
    BY BeforeParts
  <1>2. PICK j \in Nat \ {0} : PartsLeft(q, r, j)
    BY BeforeParts
  <1>3. CASE i <= j
    <2>1. Agree(p, r, i - 1) /\ i <= Len(r)
      BY <1>1, <1>2, <1>3, PathTypes DEF PartsLeft, Agree
    <2>2. i \in 1 .. Len(p) /\ i \in 1 .. Len(q) /\ i \in 1 .. Len(r)
      BY <1>1, <2>1, PathTypes DEF PartsLeft
    <2>3. p[i] \in Int /\ q[i] \in Int /\ r[i] \in Int
      BY <2>2, PathTypes
    <2>4. i < j => q[i] = r[i]
      BY <1>2 DEF PartsLeft, Agree
    <2>5. p[i] < r[i]
      BY <1>1, <1>2, <1>3, <2>3, <2>4 DEF PartsLeft
    <2>. QED  BY <1>1, <2>1, <2>5, BeforeParts DEF PartsLeft
  <1>4. CASE j < i
    <2>1. Agree(p, r, j - 1) /\ j <= Len(p)
      BY <1>1, <1>2, <1>4, PathTypes DEF PartsLeft, Agree
    <2>2. p[j] = q[j]
      BY <1>1, <1>4 DEF PartsLeft, Agree
    <2>. QED  BY <1>2, <2>1, <2>2, BeforeParts DEF PartsLeft
  <1>. QED  BY <1>3, <1>4

(* What lies under a path is before what the path is before, and after     *)
(* what the path is after.                                                 *)
LEMMA BeforeUnder ==
  ASSUME NEW p \in Paths, NEW q \in Paths, NEW r \in Paths, IsPrefix(p, q)
  PROVE  /\ Before(p, r) => Before(q, r)
         /\ Before(r, p) => Before(r, q)
  <1>1. Len(p) <= Len(q) /\ Agree(p, q, Len(p)) /\ Len(p) \in Nat /\ Len(q) \in Nat
    BY PrefixAgrees, PathTypes
  <1>2. ASSUME Before(p, r) PROVE Before(q, r)
    <2>1. PICK i \in Nat \ {0} : PartsLeft(p, r, i)
      BY <1>2, BeforeParts
    <2>2. PartsLeft(q, r, i)
      BY <1>1, <2>1 DEF PartsLeft, Agree
    <2>. QED  BY <2>2, BeforeParts
  <1>3. ASSUME Before(r, p) PROVE Before(r, q)
    <2>1. PICK i \in Nat \ {0} : PartsLeft(r, p, i)
      BY <1>3, BeforeParts
    <2>2. PartsLeft(r, q, i)
      BY <1>1, <2>1 DEF PartsLeft, Agree
    <2>. QED  BY <2>2, BeforeParts
  <1>. QED  BY <1>2, <1>3

(* What lies under a path is beside what the path is beside.               *)
LEMMA BesideUnder ==
  ASSUME NEW p \in Paths, NEW q \in Paths, NEW r \in Paths, IsPrefix(p, q),
         ~ IsPrefix(p, r), ~ IsPrefix(r, p)
  PROVE  /\ Before(q, r) <=> Before(p, r)
         /\ Before(r, q) <=> Before(r, p)
  BY BeforeUnder, PathsPart, PartedPaths

(* One path leads to another that leads to a third.                        *)
LEMMA PrefixOrder ==
  ASSUME NEW p \in Paths, NEW q \in Paths, NEW r \in Paths
  PROVE  /\ IsPrefix(p, p)
         /\ IsPrefix(<< >>, p)
         /\ IsPrefix(p, q) /\ IsPrefix(q, r) => IsPrefix(p, r)
         /\ IsPrefix(p, q) /\ IsPrefix(q, p) => p = q
         /\ IsPrefix(p, r) /\ IsPrefix(q, r) => IsPrefix(p, q) \/ IsPrefix(q, p)
  <1>1. << >> \in Paths /\ Len(<< >>) = 0
    BY EmptySeq DEF Paths
  <1>2. IsPrefix(p, p) /\ IsPrefix(<< >>, p)
    BY <1>1, PrefixAgrees, PathTypes DEF Agree
  <1>3. ASSUME IsPrefix(p, q), IsPrefix(q, r) PROVE IsPrefix(p, r)
    BY <1>3, PrefixAgrees, PathTypes DEF Agree
  <1>4. ASSUME IsPrefix(p, q), IsPrefix(q, p) PROVE p = q
    BY <1>4, PrefixAgrees, PathTypes, SamePath
  <1>5. ASSUME IsPrefix(p, r), IsPrefix(q, r) PROVE IsPrefix(p, q) \/ IsPrefix(q, p)
    BY <1>5, PrefixAgrees, PathTypes DEF Agree
  <1>. QED  BY <1>2, <1>3, <1>4, <1>5

(* One turn more.                                                          *)
LEMMA OneTurnMore ==
  ASSUME NEW p \in Paths, NEW t \in Turns
  PROVE  /\ p \o <<t>> \in Paths
         /\ Len(p \o <<t>>) = Len(p) + 1
         /\ \A j \in 1 .. Len(p) : (p \o <<t>>)[j] = p[j]
         /\ (p \o <<t>>)[Len(p) + 1] = t
  <1>1. <<t>> \in Seq(Turns) /\ Len(<<t>>) = 1 /\ <<t>>[1] = t
    OBVIOUS
  <1>. DEFINE u == <<t>>
  <1>. HIDE DEF u
  <1>2. /\ p \o u \in Seq(Turns)
        /\ Len(p \o u) = Len(p) + Len(u)
        /\ \A i \in 1 .. Len(p) + Len(u) : (p \o u)[i] =
             IF i <= Len(p) THEN p[i] ELSE u[i - Len(p)]
    BY <1>1, ConcatProperties DEF u, Paths
  <1>3. Len(p) \in Nat
    BY PathTypes
  <1>4. Len(u) = 1 /\ u[1] = t
    BY <1>1 DEF u
  <1>5. (p \o u)[Len(p) + 1] = t
    BY <1>2, <1>3, <1>4
  <1>6. \A j \in 1 .. Len(p) : (p \o u)[j] = p[j]
    BY <1>2, <1>3, <1>4
  <1>. QED  BY <1>2, <1>4, <1>5, <1>6 DEF u, Paths

(* q goes the way of p up to turn i, where it takes the other side.        *)
Forks(p, q, i) == i <= Len(q) /\ Agree(p, q, i - 1) /\ q[i] = 1 - p[i]

(* The paths of the leaves of a tree in which every node has two children. *)
Proper(D) ==
    /\ D \subseteq Paths
    /\ \A p, q \in D : IsPrefix(p, q) => p = q
    /\ \A p \in D : \A i \in 1 .. Len(p) : \E q \in D : Forks(p, q, i)

(* The other side of turn i leads to the paths that fork there.            *)
LEMMA OtherSide ==
  ASSUME NEW p \in Paths, NEW i \in 1 .. Len(p)
  PROVE  /\ SubSeq(p, 1, i - 1) \o <<1 - p[i]>> \in Paths
         /\ \A q \in Paths :
              IsPrefix(SubSeq(p, 1, i - 1) \o <<1 - p[i]>>, q) <=> Forks(p, q, i)
  <1>. DEFINE s == SubSeq(p, 1, i - 1)
              o == s \o <<1 - p[i]>>
  <1>1. i - 1 \in Nat /\ i - 1 <= Len(p) /\ Len(p) \in Nat /\ 1 - p[i] \in Turns
    BY PathTypes DEF Turns
  <1>2. s \in Paths /\ Len(s) = i - 1 /\ \A j \in 1 .. i - 1 : s[j] = p[j]
    BY <1>1, FirstTurns
  <1>. HIDE DEF s
  <1>3. /\ o \in Paths
        /\ Len(o) = Len(s) + 1
        /\ \A j \in 1 .. Len(s) : o[j] = s[j]
        /\ o[Len(s) + 1] = 1 - p[i]
    BY <1>1, <1>2, OneTurnMore
  <1>. HIDE DEF o
  <1>4. Len(o) = i /\ o[i] = 1 - p[i] /\ \A j \in 1 .. i - 1 : o[j] = p[j]
    BY <1>1, <1>2, <1>3
  <1>5. ASSUME NEW q \in Paths PROVE IsPrefix(o, q) <=> Forks(p, q, i)
    <2>1. IsPrefix(o, q) <=> i <= Len(q) /\ Agree(o, q, i)
      BY <1>3, <1>4, PrefixAgrees
    <2>2. Agree(o, q, i) <=> Agree(p, q, i - 1) /\ q[i] = 1 - p[i]
      BY <1>1, <1>4 DEF Agree
    <2>. QED  BY <2>1, <2>2 DEF Forks
  <1>. QED  BY <1>3, <1>5 DEF o, s

(* A tree is well formed if the paths of its leaves are proper.            *)
LEMMA WellFormedIsProper ==
  ASSUME NEW tree
  PROVE  WellFormed(tree) <=> Proper(DOMAIN tree)
  <1>. DEFINE D == DOMAIN tree
  <1>1. ASSUME NEW p \in D, D \subseteq Paths
        PROVE  Under(tree, p) = {p} <=> \A q \in D : IsPrefix(p, q) => p = q
    BY <1>1, PrefixOrder DEF Under
  <1>2. ASSUME NEW p \in D, D \subseteq Paths, NEW i \in 1 .. Len(p)
        PROVE  Under(tree, SubSeq(p, 1, i - 1) \o <<1 - p[i]>>) # {}
               <=> \E q \in D : Forks(p, q, i)
    BY <1>2, OtherSide DEF Under
  <1>3. D \subseteq Paths <=> \A p \in D : p \in Seq(Turns)
    BY DEF Paths
  <1>4. CASE D \subseteq Paths
    BY ONLY <1>1, <1>2, <1>3, <1>4 DEF WellFormed, Proper
  <1>5. CASE ~ (D \subseteq Paths)
    BY <1>3, <1>5 DEF WellFormed, Proper
  <1>. QED  BY <1>4, <1>5

-----------------------------------------------------------------------------
(* The order of the leaves.                                                *)

(* The leaves before a path.                                               *)
Earlier(D, p) == {q \in D : Before(q, p)}

(* Preorder is a strict total order on the leaves of a proper tree.        *)
LEMMA LeavesAreOrdered ==
  ASSUME NEW D, Proper(D)
  PROVE  /\ \A p \in D : ~ Before(p, p)
         /\ \A p, q \in D : p = q \/ Before(p, q) \/ Before(q, p)
         /\ \A p, q \in D : Before(p, q) => ~ Before(q, p)
         /\ \A p, q, r \in D : Before(p, q) /\ Before(q, r) => Before(p, r)
  <1>1. \A p \in D : ~ Before(p, p)
    BY PartedPaths, PrefixOrder DEF Proper
  <1>2. \A p, q \in D : p = q \/ Before(p, q) \/ Before(q, p)
    <2>. TAKE p, q \in D
    <2>1. p \in Paths /\ q \in Paths /\ (IsPrefix(p, q) => p = q) /\ (IsPrefix(q, p) => p = q)
      BY DEF Proper
    <2>. QED  BY <2>1, PathsPart
  <1>3. \A p, q \in D : Before(p, q) => ~ Before(q, p)
    BY PartedPaths DEF Proper
  <1>4. \A p, q, r \in D : Before(p, q) /\ Before(q, r) => Before(p, r)
    BY BeforeTransitive DEF Proper
  <1>. QED  BY <1>1, <1>2, <1>3, <1>4

(* A leaf that is before another has fewer leaves before it, and fewer     *)
(* than there are.                                                         *)
LEMMA RanksGrow ==
  ASSUME NEW D, Proper(D), IsFiniteSet(D)
  PROVE  /\ Cardinality(D) \in Nat
         /\ \A p \in D : /\ Cardinality(Earlier(D, p)) \in Nat
                         /\ Cardinality(Earlier(D, p)) < Cardinality(D)
         /\ \A p, q \in D :
              Before(p, q) <=> Cardinality(Earlier(D, p)) < Cardinality(Earlier(D, q))
  <1>1. Cardinality(D) \in Nat
    BY FS_CardinalityType
  <1>2. \A p \in D : /\ Earlier(D, p) \in SUBSET D
                     /\ IsFiniteSet(Earlier(D, p))
                     /\ Cardinality(Earlier(D, p)) \in Nat
    BY FS_Subset, FS_CardinalityType DEF Earlier
  <1>3. ASSUME NEW p \in D PROVE Cardinality(Earlier(D, p)) < Cardinality(D)
    <2>1. p \in D /\ p \notin Earlier(D, p)
      BY LeavesAreOrdered DEF Earlier
    <2>2. Cardinality(Earlier(D, p)) <= Cardinality(D) /\ Cardinality(Earlier(D, p)) # Cardinality(D)
      BY <1>2, <2>1, FS_Subset
    <2>. QED  BY <1>1, <1>2, <2>2
  <1>4. ASSUME NEW p \in D, NEW q \in D, Before(p, q)
        PROVE  Cardinality(Earlier(D, p)) < Cardinality(Earlier(D, q))
    <2>1. Earlier(D, p) \in SUBSET Earlier(D, q)
      BY <1>4, LeavesAreOrdered DEF Earlier
    <2>2. p \in Earlier(D, q) /\ p \notin Earlier(D, p)
      BY <1>4, LeavesAreOrdered DEF Earlier
    <2>3. /\ Cardinality(Earlier(D, p)) <= Cardinality(Earlier(D, q))
          /\ Cardinality(Earlier(D, p)) # Cardinality(Earlier(D, q))
      BY <1>2, <2>1, <2>2, FS_Subset
    <2>. QED  BY <1>2, <2>3
  <1>5. ASSUME NEW p \in D, NEW q \in D
        PROVE  Before(p, q) <=> Cardinality(Earlier(D, p)) < Cardinality(Earlier(D, q))
    BY <1>2, <1>4, LeavesAreOrdered
  <1>. QED  BY <1>1, <1>2, <1>3, <1>5

(* Each index below the number of leaves is that of one leaf.              *)
LEMMA LeafAtIndex ==
  ASSUME NEW tree, Proper(DOMAIN tree), IsFiniteSet(DOMAIN tree)
  PROVE  /\ NumLeaves(tree) \in Nat
         /\ \A p \in DOMAIN tree : /\ IndexOf(tree, p) \in 0 .. NumLeaves(tree) - 1
                                   /\ Leaf(tree, IndexOf(tree, p)) = p
         /\ \A i \in 0 .. NumLeaves(tree) - 1 : /\ Leaf(tree, i) \in DOMAIN tree
                                                /\ IndexOf(tree, Leaf(tree, i)) = i
         /\ \A p, q \in DOMAIN tree : Before(p, q) <=> IndexOf(tree, p) < IndexOf(tree, q)
         /\ \A p, q \in DOMAIN tree : IndexOf(tree, p) = IndexOf(tree, q) => p = q
  <1>. DEFINE D == DOMAIN tree
              n == Cardinality(D)
              Rank(p) == Cardinality(Earlier(D, p))
              f == [p \in D |-> Rank(p)]
  <1>1. /\ n \in Nat
        /\ \A p \in D : Rank(p) \in Nat /\ Rank(p) < n
        /\ \A p, q \in D : Before(p, q) <=> Rank(p) < Rank(q)
    BY RanksGrow
  <1>2. NumLeaves(tree) = n /\ \A p : IndexOf(tree, p) = Rank(p)
    BY DEF NumLeaves, IndexOf, Earlier
  <1>3. \A p, q \in D : Rank(p) = Rank(q) => p = q
    BY <1>1, LeavesAreOrdered
  <1>. HIDE DEF D, Rank, n
  <1>4. f \in Injection(D, 0 .. n - 1)
    BY <1>1, <1>3, Fun_IsInj
  <1>5. IsFiniteSet(0 .. n - 1) /\ Cardinality(0 .. n - 1) = n
    <2>1. 0 \in Int /\ n - 1 \in Int
      BY <1>1
    <2>. DEFINE k == n - 1
    <2>. HIDE DEF k
    <2>2. IsFiniteSet(0 .. k) /\ Cardinality(0 .. k) = IF 0 > k THEN 0 ELSE k - 0 + 1
      BY <2>1, FS_Interval DEF k
    <2>. QED  BY <1>1, <2>2 DEF k
  <1>6. f \in Surjection(D, 0 .. n - 1)
    BY <1>4, <1>5, FS_Injection DEF n
  <1>7. \A i \in 0 .. n - 1 : \E p \in D : Rank(p) = i
    BY <1>6 DEF Surjection
  <1>8. \A i \in 0 .. n - 1 : Leaf(tree, i) \in D /\ Rank(Leaf(tree, i)) = i
    BY <1>2, <1>7 DEF Leaf, D
  <1>9. \A p \in D : Rank(p) \in 0 .. n - 1
    BY <1>1
  <1>. QED  BY <1>1, <1>2, <1>3, <1>8, <1>9 DEF D

(* What lies under a path that leads to a leaf has a first leaf.           *)
LEMMA FirstLeafUnder ==
  ASSUME NEW tree, Proper(DOMAIN tree), IsFiniteSet(DOMAIN tree),
         NEW path, Under(tree, path) # {}
  PROVE  /\ FirstUnder(tree, path) \in Under(tree, path)
         /\ \A q \in Under(tree, path) : ~ Before(q, FirstUnder(tree, path))
  <1>. DEFINE U == Under(tree, path)
              R == {IndexOf(tree, p) : p \in U}
  <1>1. U \subseteq DOMAIN tree
    BY DEF Under
  <1>2. \A p \in DOMAIN tree : IndexOf(tree, p) \in Nat
    BY LeafAtIndex
  <1>3. R \in SUBSET Nat /\ R # {}
    BY <1>1, <1>2
  <1>4. PICK n \in R : \A m \in R : n <= m
    BY <1>3, LeastOf
  <1>5. PICK p \in U : \A q \in U : IndexOf(tree, p) <= IndexOf(tree, q)
    BY <1>4
  <1>6. \A q \in U : ~ Before(q, p)
    BY <1>1, <1>2, <1>5, LeafAtIndex
  <1>. QED  BY <1>6 DEF FirstUnder

(* Leaves that change their paths and not their order keep their ranks.    *)
LEMMA SameRanks ==
  ASSUME NEW D, NEW E, NEW f \in Bijection(D, E), IsFiniteSet(D),
         \A p, q \in D : Before(p, q) <=> Before(f[p], f[q]),
         NEW p \in D
  PROVE  Cardinality(Earlier(E, f[p])) = Cardinality(Earlier(D, p))
  <1>. DEFINE S == Earlier(D, p)
              T == Earlier(E, f[p])
              g == [q \in S |-> f[q]]
  <1>1. /\ f \in [D -> E]
        /\ \A a, b \in D : f[a] = f[b] => a = b
        /\ \A e \in E : \E a \in D : f[a] = e
    BY DEF Bijection, Injection, Surjection, IsInjective
  <1>2. S \in SUBSET D /\ \A q \in D : q \in S <=> f[q] \in T
    BY <1>1 DEF Earlier
  <1>3. g \in [S -> T]
    BY <1>2
  <1>4. \A a, b \in S : g[a] = g[b] => a = b
    BY <1>1, <1>2
  <1>5. \A e \in T : \E a \in S : g[a] = e
    BY <1>1, <1>2 DEF Earlier
  <1>6. IsFiniteSet(S)
    BY <1>2, FS_Subset
  <1>. HIDE DEF S, T, g
  <1>7. g \in Bijection(S, T)
    BY <1>3, <1>4, <1>5, Fun_IsBij
  <1>8. ExistsBijection(S, T)
    BY <1>7 DEF ExistsBijection
  <1>. QED  BY <1>6, <1>8, FS_Bijection DEF S, T

-----------------------------------------------------------------------------
(* What lies under one path, put under another.                            *)

Regraft(p, from, to) == to \o Rest(p, from)

LEMMA RegraftTurns ==
  ASSUME NEW p \in Paths, NEW from \in Paths, NEW to \in Paths, IsPrefix(from, p)
  PROVE  /\ Regraft(p, from, to) \in Paths
         /\ Len(Regraft(p, from, to)) = Len(p) - Len(from) + Len(to)
         /\ IsPrefix(to, Regraft(p, from, to))
         /\ \A j \in 1 .. Len(to) : Regraft(p, from, to)[j] = to[j]
         /\ \A j \in 1 .. Len(p) - Len(from) :
              Regraft(p, from, to)[Len(to) + j] = p[Len(from) + j]
  <1>. DEFINE r == Rest(p, from)
              m == Len(from) + 1
              n == Len(p)
              g == Regraft(p, from, to)
  <1>1. /\ Len(p) \in Nat /\ Len(from) \in Nat /\ Len(to) \in Nat
        /\ Len(from) <= Len(p)
    BY PathTypes, PrefixAgrees
  <1>2. m \in Int /\ n \in Int /\ \A i \in m .. n : p[i] \in Turns
    BY <1>1, PathTypes DEF Turns
  <1>3. r = SubSeq(p, m, n)
    BY DEF Rest
  <1>. HIDE DEF m, n, r
  <1>4. /\ r \in Seq(Turns)
        /\ Len(r) = IF m <= n THEN n - m + 1 ELSE 0
        /\ \A i \in 1 .. n - m + 1 : r[i] = p[m + i - 1]
    BY <1>2, <1>3, SubSeqProperties
  <1>5. Len(r) = Len(p) - Len(from)
    BY <1>1, <1>4 DEF m, n
  <1>6. \A j \in 1 .. Len(p) - Len(from) : r[j] = p[Len(from) + j]
    <2>. TAKE j \in 1 .. Len(p) - Len(from)
    <2>1. j \in 1 .. n - m + 1 /\ m + j - 1 = Len(from) + j
      BY <1>1 DEF m, n
    <2>. QED  BY <1>4, <2>1
  <1>7. /\ to \o r \in Seq(Turns)
        /\ Len(to \o r) = Len(to) + Len(r)
        /\ \A i \in 1 .. Len(to) + Len(r) :
             (to \o r)[i] = IF i <= Len(to) THEN to[i] ELSE r[i - Len(to)]
    BY <1>4, ConcatProperties DEF Paths
  <1>8. g = to \o r
    BY DEF Regraft, r
  <1>. HIDE DEF g
  <1>9. g \in Paths /\ Len(g) = Len(p) - Len(from) + Len(to)
    BY <1>1, <1>5, <1>7, <1>8 DEF Paths
  <1>10. \A j \in 1 .. Len(to) : g[j] = to[j]
    BY <1>1, <1>5, <1>7, <1>8
  <1>11. \A j \in 1 .. Len(p) - Len(from) : g[Len(to) + j] = p[Len(from) + j]
    <2>. TAKE j \in 1 .. Len(p) - Len(from)
    <2>1. /\ Len(to) + j \in 1 .. Len(to) + Len(r)
          /\ ~ (Len(to) + j <= Len(to))
          /\ Len(to) + j - Len(to) = j
      BY <1>1, <1>5
    <2>. QED  BY <1>6, <1>7, <1>8, <2>1
  <1>12. IsPrefix(to, g)
    BY <1>1, <1>9, <1>10, PrefixAgrees DEF Agree
  <1>. QED  BY <1>9, <1>10, <1>11, <1>12 DEF g

(* Putting it back.                                                        *)
LEMMA RegraftBack ==
  ASSUME NEW p \in Paths, NEW from \in Paths, NEW to \in Paths, IsPrefix(from, p)
  PROVE  Regraft(Regraft(p, from, to), to, from) = p
  <1>. DEFINE g == Regraft(p, from, to)
              h == Regraft(g, to, from)
  <1>1. /\ g \in Paths
        /\ Len(g) = Len(p) - Len(from) + Len(to)
        /\ IsPrefix(to, g)
        /\ \A j \in 1 .. Len(p) - Len(from) : g[Len(to) + j] = p[Len(from) + j]
    BY RegraftTurns
  <1>. HIDE DEF g
  <1>2. /\ h \in Paths
        /\ Len(h) = Len(g) - Len(to) + Len(from)
        /\ \A j \in 1 .. Len(g) - Len(to) : h[Len(from) + j] = g[Len(to) + j]
    BY <1>1, RegraftTurns, ZenonT(60)
  <1>3. \A j \in 1 .. Len(from) : h[j] = from[j]
    BY <1>1, RegraftTurns
  <1>. HIDE DEF h
  <1>4. /\ Len(p) \in Nat /\ Len(from) \in Nat /\ Len(to) \in Nat
        /\ Len(from) <= Len(p) /\ \A j \in 1 .. Len(from) : from[j] = p[j]
    BY PathTypes, PrefixAgrees DEF Agree
  <1>5. Len(h) = Len(p) /\ Len(g) - Len(to) = Len(p) - Len(from)
    BY <1>1, <1>2, <1>4
  <1>6. ASSUME NEW j \in 1 .. Len(p) PROVE h[j] = p[j]
    <2>1. CASE j <= Len(from)
      BY <1>4, <1>3, <2>1
    <2>2. CASE j > Len(from)
      <3>. DEFINE i == j - Len(from)
      <3>1. i \in 1 .. Len(p) - Len(from) /\ Len(from) + i = j
        BY <1>4, <2>2
      <3>. HIDE DEF i
      <3>. QED  BY <1>1, <1>2, <1>5, <3>1
    <2>. QED  BY <1>4, <2>1, <2>2
  <1>7. Agree(h, p, Len(h))
    BY <1>5, <1>6 DEF Agree
  <1>8. h = p
    BY <1>2, <1>5, <1>7, SamePath
  <1>. QED  BY <1>8 DEF h, g

(* Paths that are put elsewhere together part where they parted.           *)
LEMMA RegraftParts ==
  ASSUME NEW p \in Paths, NEW q \in Paths, NEW from \in Paths, NEW to \in Paths,
         IsPrefix(from, p), IsPrefix(from, q), Before(p, q)
  PROVE  Before(Regraft(p, from, to), Regraft(q, from, to))
  <1>. DEFINE g == Regraft(p, from, to)
              h == Regraft(q, from, to)
  <1>0. /\ \A j \in 1 .. Len(to) : g[j] = to[j]
        /\ \A j \in 1 .. Len(to) : h[j] = to[j]
    BY RegraftTurns, ZenonT(60)
  <1>1. /\ g \in Paths /\ Len(g) = Len(p) - Len(from) + Len(to)
        /\ \A j \in 1 .. Len(p) - Len(from) : g[Len(to) + j] = p[Len(from) + j]
    BY RegraftTurns, ZenonT(60)
  <1>2. /\ h \in Paths /\ Len(h) = Len(q) - Len(from) + Len(to)
        /\ \A j \in 1 .. Len(q) - Len(from) : h[Len(to) + j] = q[Len(from) + j]
    BY RegraftTurns, ZenonT(60)
  <1>. HIDE DEF g, h
  <1>3. /\ Len(p) \in Nat /\ Len(q) \in Nat /\ Len(from) \in Nat /\ Len(to) \in Nat
        /\ Len(from) <= Len(p) /\ Len(from) <= Len(q)
        /\ \A j \in 1 .. Len(from) : p[j] = q[j]
    BY PathTypes, PrefixAgrees DEF Agree
  <1>4. PICK i \in Nat \ {0} : PartsLeft(p, q, i)
    BY BeforeParts
  <1>5. i <= Len(p) /\ i <= Len(q) /\ Agree(p, q, i - 1) /\ p[i] < q[i]
    BY <1>4 DEF PartsLeft
  <1>6. i > Len(from)
    <2>1. SUFFICES ASSUME i <= Len(from) PROVE FALSE
      BY <1>3
    <2>2. p[i] = q[i] /\ i \in 1 .. Len(p)
      BY <1>3, <1>5, <2>1
    <2>3. p[i] \in Int
      BY <2>2, PathTypes
    <2>. QED  BY <1>5, <2>2, <2>3
  <1>. DEFINE k == i - Len(from)
              l == Len(to) + k
  <1>7. /\ k \in 1 .. Len(p) - Len(from) /\ k \in 1 .. Len(q) - Len(from) /\ Len(from) + k = i
        /\ l \in Nat \ {0} /\ l <= Len(g) /\ l <= Len(h)
    BY <1>1, <1>2, <1>3, <1>5, <1>6
  <1>8. g[l] = p[i] /\ h[l] = q[i]
    BY <1>1, <1>2, <1>7
  <1>9. ASSUME NEW j \in 1 .. l - 1 PROVE g[j] = h[j]
    <2>1. CASE j <= Len(to)
      BY <1>0, <1>3, <2>1
    <2>2. CASE j > Len(to)
      <3>. DEFINE m == j - Len(to)
      <3>1. /\ m \in 1 .. Len(p) - Len(from) /\ m \in 1 .. Len(q) - Len(from)
            /\ Len(to) + m = j /\ Len(from) + m \in 1 .. i - 1
        BY <1>3, <1>7, <2>2
      <3>. HIDE DEF m
      <3>. QED  BY <1>1, <1>2, <1>5, <3>1 DEF Agree
    <2>. QED  BY <1>3, <2>1, <2>2
  <1>10. PartsLeft(g, h, l)
    BY <1>5, <1>7, <1>8, <1>9 DEF PartsLeft, Agree
  <1>. HIDE DEF l
  <1>11. Before(g, h)
    BY <1>1, <1>2, <1>7, <1>10, BeforeParts
  <1>. QED  BY <1>11 DEF g, h

(* And so their order stays.                                               *)
LEMMA RegraftKeepsOrder ==
  ASSUME NEW p \in Paths, NEW q \in Paths, NEW from \in Paths, NEW to \in Paths,
         IsPrefix(from, p), IsPrefix(from, q)
  PROVE  Before(p, q) <=> Before(Regraft(p, from, to), Regraft(q, from, to))
  <1>. DEFINE g == Regraft(p, from, to)
              h == Regraft(q, from, to)
  <1>1. /\ g \in Paths /\ IsPrefix(to, g) /\ Regraft(g, to, from) = p
        /\ h \in Paths /\ IsPrefix(to, h) /\ Regraft(h, to, from) = q
    BY RegraftTurns, RegraftBack
  <1>. HIDE DEF g, h
  <1>2. Before(g, h) => Before(p, q)
    BY <1>1, RegraftParts
  <1>. QED  BY <1>2, RegraftParts DEF g, h

-----------------------------------------------------------------------------
(* Unsplit: a leaf goes, and what is on the other side moves up.           *)

Sibling(path) == Front(path) \o <<1 - Last(path)>>

Raise(path, p) ==
    IF IsPrefix(Sibling(path), p) THEN Regraft(p, Sibling(path), Front(path)) ELSE p

(* The parent of a path is one turn shorter; the sibling is where the      *)
(* paths lead that part from it at its last turn.                          *)
LEMMA ParentAndSibling ==
  ASSUME NEW path \in Paths, path # << >>
  PROVE  /\ Len(path) \in Nat \ {0}
         /\ Front(path) \in Paths
         /\ Len(Front(path)) = Len(path) - 1
         /\ IsPrefix(Front(path), path)
         /\ \A j \in 1 .. Len(path) - 1 : Front(path)[j] = path[j]
         /\ Sibling(path) \in Paths
         /\ Len(Sibling(path)) = Len(path)
         /\ IsPrefix(Front(path), Sibling(path))
         /\ \A q \in Paths : IsPrefix(Sibling(path), q) <=> Forks(path, q, Len(path))
  <1>. DEFINE k == Len(path)
  <1>1. k \in Nat \ {0}
    BY EmptySeq DEF Paths
  <1>2. k - 1 \in Nat /\ k - 1 <= Len(path) /\ k \in 1 .. Len(path)
    BY <1>1
  <1>3. /\ Front(path) \in Paths /\ Len(Front(path)) = k - 1
        /\ \A i \in 1 .. k - 1 : Front(path)[i] = path[i]
    BY <1>2, FirstTurns DEF Front
  <1>4. 1 - Last(path) \in Turns
    BY <1>2, PathTypes DEF Last, Turns
  <1>5. /\ Sibling(path) \in Paths
        /\ Len(Sibling(path)) = Len(Front(path)) + 1
        /\ \A j \in 1 .. Len(Front(path)) : Sibling(path)[j] = Front(path)[j]
    BY <1>3, <1>4, OneTurnMore DEF Sibling
  <1>6. \A q \in Paths : IsPrefix(Sibling(path), q) <=> Forks(path, q, k)
    BY <1>2, OtherSide DEF Sibling, Front, Last
  <1>. HIDE DEF k
  <1>7. Len(Sibling(path)) = k
    BY <1>1, <1>3, <1>5
  <1>8. IsPrefix(Front(path), path) /\ IsPrefix(Front(path), Sibling(path))
    BY <1>1, <1>3, <1>5, PrefixAgrees DEF Agree, k
  <1>. QED  BY <1>1, <1>3, <1>5, <1>6, <1>7, <1>8 DEF k

(* Under the parent of a leaf are the leaf and what is under its sibling.  *)
LEMMA UnderParent ==
  ASSUME NEW D, Proper(D), NEW path \in D, path # << >>, NEW q \in D
  PROVE  /\ IsPrefix(Front(path), q) <=> q = path \/ IsPrefix(Sibling(path), q)
         /\ ~ IsPrefix(Sibling(path), path)
         /\ ~ IsPrefix(q, Front(path))
         /\ q # path /\ ~ IsPrefix(Sibling(path), q) => ~ IsPrefix(q, Sibling(path))
  <1>. DEFINE k == Len(path)
              parent == Front(path)
              sibling == Sibling(path)
  <1>1. path \in Paths /\ q \in Paths
    BY DEF Proper
  <1>2. /\ k \in Nat \ {0} /\ parent \in Paths /\ Len(parent) = k - 1 /\ IsPrefix(parent, path)
        /\ \A j \in 1 .. k - 1 : parent[j] = path[j]
        /\ sibling \in Paths /\ Len(sibling) = k /\ IsPrefix(parent, sibling)
    BY <1>1, ParentAndSibling
  <1>3. \A r \in Paths : IsPrefix(sibling, r) <=> Forks(path, r, k)
    BY <1>1, ParentAndSibling
  <1>. HIDE DEF parent, sibling
  <1>4. path[k] \in Int /\ path[k] # 1 - path[k] /\ (path[k] = 0 \/ path[k] = 1)
    BY <1>1, <1>2, PathTypes
  <1>5. ~ IsPrefix(sibling, path)
    BY <1>1, <1>3, <1>4 DEF Forks
  <1>6. ~ IsPrefix(q, parent)
    <2>1. SUFFICES ASSUME IsPrefix(q, parent) PROVE FALSE
      OBVIOUS
    <2>2. IsPrefix(q, path)
      BY <1>1, <1>2, <2>1, PrefixOrder
    <2>3. q = path
      BY <2>2 DEF Proper
    <2>. QED  BY <1>1, <1>2, <2>1, <2>3, PrefixAgrees
  <1>7. ASSUME IsPrefix(parent, q), q # path PROVE IsPrefix(sibling, q)
    <2>1. Len(q) >= k /\ Agree(path, q, k - 1) /\ Len(q) \in Nat
      <3>1. Len(parent) <= Len(q) /\ Agree(parent, q, k - 1) /\ Len(q) \in Nat
        BY <1>1, <1>2, <1>7, PrefixAgrees, PathTypes
      <3>2. Len(q) # k - 1
        <4>1. SUFFICES ASSUME Len(q) = k - 1 PROVE FALSE
          OBVIOUS
        <4>2. parent = q
          BY <1>1, <1>2, <3>1, <4>1, SamePath
        <4>. QED  BY <1>1, <1>6, <4>2, PrefixOrder
      <3>. QED  BY <1>2, <3>1, <3>2 DEF Agree
    <2>2. q[k] = 0 \/ q[k] = 1
      BY <1>1, <1>2, <2>1, PathTypes
    <2>3. q[k] # path[k]
      <3>1. SUFFICES ASSUME q[k] = path[k] PROVE FALSE
        OBVIOUS
      <3>2. Agree(path, q, k)
        BY <1>2, <2>1, <3>1 DEF Agree
      <3>3. IsPrefix(path, q)
        BY <1>1, <2>1, <3>2, PrefixAgrees
      <3>. QED  BY <1>7, <3>3 DEF Proper
    <2>4. Forks(path, q, k)
      BY <1>4, <2>1, <2>2, <2>3 DEF Forks
    <2>. QED  BY <1>1, <1>3, <2>4
  <1>8. IsPrefix(sibling, q) => IsPrefix(parent, q)
    BY <1>1, <1>2, PrefixOrder
  <1>9. ASSUME q # path, ~ IsPrefix(sibling, q) PROVE ~ IsPrefix(q, sibling)
    <2>1. ~ IsPrefix(parent, q)
      BY <1>7, <1>9
    <2>. QED  BY <1>1, <1>2, <1>6, <2>1, PrefixOrder
  <1>. QED  BY <1>2, <1>5, <1>6, <1>7, <1>8, <1>9 DEF parent, sibling

(* A raised path lies under the parent, and can be put back.               *)
LEMMA RaisedPath ==
  ASSUME NEW D, Proper(D), NEW path \in D, path # << >>, NEW p \in D
  PROVE  /\ Raise(path, p) \in Paths
         /\ IsPrefix(Sibling(path), p) =>
              /\ Raise(path, p) = Regraft(p, Sibling(path), Front(path))
              /\ IsPrefix(Front(path), Raise(path, p))
              /\ Regraft(Raise(path, p), Front(path), Sibling(path)) = p
         /\ ~ IsPrefix(Sibling(path), p) => Raise(path, p) = p
  <1>1. /\ path \in Paths /\ p \in Paths /\ Front(path) \in Paths /\ Sibling(path) \in Paths
    BY ParentAndSibling DEF Proper
  <1>. QED  BY <1>1, RegraftTurns, RegraftBack DEF Raise

(* The leaves that stay keep their order.                                  *)
LEMMA RaiseKeepsOrder ==
  ASSUME NEW D, Proper(D), NEW path \in D, path # << >>,
         NEW p \in D \ {path}, NEW q \in D \ {path}
  PROVE  Before(p, q) <=> Before(Raise(path, p), Raise(path, q))
  <1>. DEFINE parent == Front(path)
              sibling == Sibling(path)
  <1>1. /\ path \in Paths /\ p \in Paths /\ q \in Paths
        /\ parent \in Paths /\ sibling \in Paths /\ IsPrefix(parent, sibling)
    BY ParentAndSibling DEF Proper
  <1>2. ASSUME NEW r \in D \ {path}, ~ IsPrefix(sibling, r)
        PROVE  /\ r \in Paths /\ Raise(path, r) = r
               /\ ~ IsPrefix(parent, r) /\ ~ IsPrefix(r, parent) /\ ~ IsPrefix(r, sibling)
    BY <1>2, UnderParent, RaisedPath DEF Proper
  <1>3. ASSUME NEW r \in D \ {path}, IsPrefix(sibling, r)
        PROVE  /\ r \in Paths /\ Raise(path, r) \in Paths
               /\ Raise(path, r) = Regraft(r, sibling, parent)
               /\ IsPrefix(parent, Raise(path, r))
    BY <1>3, RaisedPath DEF Proper
  <1>. HIDE DEF parent, sibling
  <1>4. ASSUME NEW r \in D \ {path}, IsPrefix(sibling, r),
               NEW t \in D \ {path}, ~ IsPrefix(sibling, t)
        PROVE  /\ Before(r, t) <=> Before(Raise(path, r), Raise(path, t))
               /\ Before(t, r) <=> Before(Raise(path, t), Raise(path, r))
    <2>0. /\ t \in Paths /\ Raise(path, t) = t
          /\ ~ IsPrefix(parent, t) /\ ~ IsPrefix(t, parent)
          /\ ~ IsPrefix(sibling, t) /\ ~ IsPrefix(t, sibling)
          /\ r \in Paths /\ Raise(path, r) \in Paths
          /\ IsPrefix(sibling, r) /\ IsPrefix(parent, Raise(path, r))
      BY <1>2, <1>3, <1>4
    <2>1. (Before(r, t) <=> Before(sibling, t)) /\ (Before(t, r) <=> Before(t, sibling))
      BY ONLY <1>1, <2>0, BesideUnder
    <2>2. (Before(sibling, t) <=> Before(parent, t)) /\ (Before(t, sibling) <=> Before(t, parent))
      BY ONLY <1>1, <2>0, BesideUnder
    <2>3. /\ Before(Raise(path, r), t) <=> Before(parent, t)
          /\ Before(t, Raise(path, r)) <=> Before(t, parent)
      BY ONLY <1>1, <2>0, BesideUnder
    <2>. QED  BY <2>0, <2>1, <2>2, <2>3
  <1>5. CASE IsPrefix(sibling, p) /\ IsPrefix(sibling, q)
    BY <1>1, <1>3, <1>5, RegraftKeepsOrder
  <1>6. CASE ~ IsPrefix(sibling, p) /\ ~ IsPrefix(sibling, q)
    BY <1>2, <1>6
  <1>. QED  BY <1>4, <1>5, <1>6

(* The leaves that stay, each on its raised path.                          *)
LEMMA UnsplitIs ==
  ASSUME NEW tree, Proper(DOMAIN tree), NEW path \in DOMAIN tree, path # << >>
  PROVE  /\ DOMAIN Unsplit(tree, path) = {Raise(path, p) : p \in DOMAIN tree \ {path}}
         /\ \A p \in DOMAIN tree \ {path} : Unsplit(tree, path)[Raise(path, p)] = tree[p]
  <1>. DEFINE D == DOMAIN tree
              parent == Front(path)
              sibling == Sibling(path)
              raised == {Regraft(p, sibling, parent) : p \in Under(tree, sibling)}
              outside == {q \in D : ~ IsPrefix(parent, q)}
  <1>1. Unsplit(tree, path) =
          [p \in outside \cup raised |->
             IF p \in raised THEN tree[Regraft(p, parent, sibling)] ELSE tree[p]]
    BY DEF Unsplit, Sibling, Regraft
  <1>2. ASSUME NEW p \in D \ {path}, IsPrefix(sibling, p)
        PROVE  /\ Raise(path, p) \in raised
               /\ Raise(path, p) = Regraft(p, sibling, parent)
               /\ Regraft(Raise(path, p), parent, sibling) = p
    BY <1>2, RaisedPath DEF Under
  <1>3. ASSUME NEW p \in D \ {path}, ~ IsPrefix(sibling, p)
        PROVE  Raise(path, p) = p /\ p \in outside
    BY <1>3, RaisedPath, UnderParent
  <1>4. ASSUME NEW r \in raised
        PROVE  IsPrefix(parent, r) /\ \E p \in D \ {path} : r = Raise(path, p)
    <2>1. PICK p \in Under(tree, sibling) : r = Regraft(p, sibling, parent)
      BY <1>4
    <2>2. p \in D /\ IsPrefix(sibling, p)
      BY <2>1 DEF Under
    <2>3. p # path
      BY <2>2, UnderParent
    <2>. QED  BY <2>1, <2>2, <2>3, RaisedPath
  <1>5. ASSUME NEW r \in outside PROVE r \in D \ {path} /\ r = Raise(path, r)
    <2>1. r # path /\ ~ IsPrefix(sibling, r)
      BY <1>5, UnderParent
    <2>. QED  BY <1>5, <2>1, RaisedPath
  <1>. HIDE DEF raised, outside, parent, sibling
  <1>6. outside \cup raised = {Raise(path, p) : p \in D \ {path}}
    BY <1>2, <1>3, <1>4, <1>5
  <1>7. ASSUME NEW p \in D \ {path} PROVE Unsplit(tree, path)[Raise(path, p)] = tree[p]
    <2>1. CASE IsPrefix(sibling, p)
      BY <1>1, <1>2, <2>1
    <2>2. CASE ~ IsPrefix(sibling, p)
      <3>1. Raise(path, p) = p /\ p \in outside /\ ~ IsPrefix(parent, p)
        BY <1>3, <2>2 DEF outside
      <3>2. p \notin raised
        BY <1>4, <3>1
      <3>. QED  BY <1>1, <3>1, <3>2
    <2>. QED  BY <2>1, <2>2
  <1>. QED  BY <1>1, <1>6, <1>7

(* The turns of a raised path: all but the one at the parent.              *)
LEMMA RaisedTurns ==
  ASSUME NEW path \in Paths, path # << >>, NEW p \in Paths, IsPrefix(Sibling(path), p)
  PROVE  /\ Len(p) \in Nat /\ Len(p) >= Len(path)
         /\ Raise(path, p) \in Paths
         /\ Len(Raise(path, p)) = Len(p) - 1
         /\ Agree(Raise(path, p), p, Len(path) - 1)
         /\ Agree(p, path, Len(path) - 1)
         /\ \A i \in Nat : i >= Len(path) /\ i < Len(p) => Raise(path, p)[i] = p[i + 1]
  <1>. DEFINE k == Len(path)
              parent == Front(path)
              sibling == Sibling(path)
              e == Raise(path, p)
  <1>1. /\ k \in Nat \ {0} /\ parent \in Paths /\ Len(parent) = k - 1
        /\ \A j \in 1 .. k - 1 : parent[j] = path[j]
        /\ sibling \in Paths /\ Len(sibling) = k /\ IsPrefix(parent, sibling)
    BY ParentAndSibling
  <1>2. /\ e \in Paths
        /\ Len(e) = Len(p) - Len(sibling) + Len(parent)
        /\ IsPrefix(parent, e)
        /\ \A j \in 1 .. Len(p) - Len(sibling) : e[Len(parent) + j] = p[Len(sibling) + j]
    BY <1>1, RegraftTurns, ZenonT(60) DEF Raise
  <1>3. IsPrefix(sibling, p)
    OBVIOUS
  <1>. HIDE DEF parent, sibling, e, k
  <1>4. Len(p) \in Nat /\ Len(p) >= k
    BY <1>1, <1>3, PrefixAgrees, PathTypes
  <1>5. Len(e) = Len(p) - 1
    BY <1>1, <1>2, <1>4
  <1>6. IsPrefix(parent, p)
    BY <1>1, <1>3, PrefixOrder
  <1>7. Agree(parent, p, k - 1) /\ Agree(parent, e, k - 1)
    BY <1>1, <1>2, <1>6, PrefixAgrees
  <1>8. Agree(e, p, k - 1) /\ Agree(p, path, k - 1)
    BY <1>1, <1>7 DEF Agree
  <1>9. ASSUME NEW i \in Nat, i >= k, i < Len(p) PROVE e[i] = p[i + 1]
    <2>. DEFINE j == i - k + 1
    <2>1. j \in 1 .. Len(p) - Len(sibling) /\ Len(parent) + j = i /\ Len(sibling) + j = i + 1
      BY <1>1, <1>4, <1>9
    <2>. HIDE DEF j
    <2>. QED  BY <1>2, <2>1
  <1>. QED  BY <1>2, <1>4, <1>5, <1>8, <1>9 DEF e, k

(* In the tree that is left every node still has two children.             *)
LEMMA UnsplitForks ==
  ASSUME NEW D, Proper(D), NEW path \in D, path # << >>,
         NEW p \in D \ {path}, NEW i \in 1 .. Len(Raise(path, p))
  PROVE  \E q \in D \ {path} : Forks(Raise(path, p), Raise(path, q), i)
  <1>. DEFINE k == Len(path)
              parent == Front(path)
              sibling == Sibling(path)
              e == Raise(path, p)
  <1>1. /\ path \in Paths /\ p \in Paths /\ D \subseteq Paths
        /\ \A q \in D : \A j \in 1 .. Len(q) : \E r \in D : Forks(q, r, j)
    BY DEF Proper
  <1>2. /\ k \in Nat \ {0} /\ parent \in Paths /\ Len(parent) = k - 1
        /\ IsPrefix(parent, path)
        /\ \A j \in 1 .. k - 1 : parent[j] = path[j]
    BY <1>1, ParentAndSibling
  <1>3. \A q \in Paths : IsPrefix(sibling, q) <=> Forks(path, q, k)
    BY <1>1, ParentAndSibling
  <1>4. \A q \in D : /\ IsPrefix(parent, q) <=> q = path \/ IsPrefix(sibling, q)
                     /\ ~ IsPrefix(sibling, q) => Raise(path, q) = q
    BY UnderParent, RaisedPath
  <1>5. ASSUME NEW q \in D, IsPrefix(sibling, q)
        PROVE  /\ Len(q) \in Nat /\ Len(q) >= k
               /\ Raise(path, q) \in Paths
               /\ Len(Raise(path, q)) = Len(q) - 1
               /\ Agree(Raise(path, q), q, k - 1)
               /\ Agree(q, path, k - 1)
               /\ \A j \in Nat : j >= k /\ j < Len(q) => Raise(path, q)[j] = q[j + 1]
    BY <1>1, <1>5, RaisedTurns
  <1>. HIDE DEF parent, sibling, k
  <1>6. CASE ~ IsPrefix(sibling, p)
    <2>1. e = p /\ ~ IsPrefix(parent, p)
      BY <1>4, <1>6
    <2>2. PICK r \in D : Forks(p, r, i)
      BY <1>1, <2>1
    <2>3. CASE ~ IsPrefix(parent, r)
      <3>1. r # path /\ Raise(path, r) = r
        BY <1>2, <1>4, <2>3
      <3>. QED  BY <2>1, <2>2, <3>1
    <2>4. CASE IsPrefix(parent, r)
      <3>0. Len(p) \in Nat /\ i <= Len(p) /\ Agree(p, r, i - 1)
        BY <1>1, <2>1, <2>2, PathTypes DEF Forks
      <3>1. Agree(parent, r, k - 1) /\ Agree(p, r, i - 1) /\ i <= Len(p) /\ Len(p) \in Nat
        BY <1>1, <1>2, <2>4, <3>0, PrefixAgrees
      <3>2. i <= k - 1
        <4>1. SUFFICES ASSUME i > k - 1 PROVE FALSE
          BY <1>2
        <4>2. Agree(parent, p, k - 1) /\ Len(parent) <= Len(p)
          BY <1>2, <3>1, <4>1 DEF Agree
        <4>. QED  BY <1>1, <1>2, <2>1, <4>2, PrefixAgrees
      <3>3. PICK s \in D : Forks(path, s, k)
        BY <1>1, <1>2 DEF k
      <3>4. IsPrefix(sibling, s) /\ s # path
        BY <1>1, <1>2, <1>3, <3>3, PathTypes DEF Forks, k
      <3>5. /\ Len(Raise(path, s)) >= k - 1
            /\ \A j \in 1 .. k - 1 : Raise(path, s)[j] = parent[j]
        BY <1>2, <1>5, <3>4 DEF Agree
      <3>6. \A j \in 1 .. k - 1 : Raise(path, s)[j] = r[j]
        BY <3>1, <3>5 DEF Agree
      <3>7. /\ Len(Raise(path, s)) \in Nat /\ i <= Len(Raise(path, s))
        BY <1>2, <1>5, <3>2, <3>4
      <3>8. Forks(p, Raise(path, s), i)
        BY <1>2, <2>2, <3>1, <3>2, <3>6, <3>7 DEF Forks, Agree
      <3>. QED  BY <2>1, <3>4, <3>8
    <2>. QED  BY <2>3, <2>4
  <1>7. CASE IsPrefix(sibling, p)
    <2>1. /\ Len(p) \in Nat /\ Len(p) >= k /\ e \in Paths /\ Len(e) = Len(p) - 1
          /\ Agree(e, p, k - 1) /\ Agree(p, path, k - 1)
          /\ \A j \in Nat : j >= k /\ j < Len(p) => e[j] = p[j + 1]
      BY <1>5, <1>7
    <2>2. i \in Nat \ {0} /\ i < Len(p)
      BY <2>1
    <2>. HIDE DEF e
    <2>3. CASE i <= k - 1
      <3>1. PICK r \in D : Forks(p, r, i)
        BY <1>1, <2>1, <2>2
      <3>2. p[i] = parent[i] /\ (p[i] = 0 \/ p[i] = 1)
        BY <1>1, <1>2, <2>1, <2>2, <2>3, PathTypes DEF Agree
      <3>3. r[i] # parent[i]
        BY <3>1, <3>2 DEF Forks
      <3>4. ~ IsPrefix(parent, r)
        BY <1>1, <1>2, <2>2, <2>3, <3>3, PrefixAgrees DEF Agree
      <3>5. r # path /\ Raise(path, r) = r
        BY <1>2, <1>4, <3>4
      <3>6. Forks(e, r, i)
        BY <1>2, <2>1, <2>2, <2>3, <3>1 DEF Forks, Agree
      <3>. QED  BY <3>5, <3>6 DEF e
    <2>4. CASE i >= k
      <3>1. i + 1 \in 1 .. Len(p)
        BY <2>1, <2>2
      <3>2. PICK r \in D : Forks(p, r, i + 1)
        BY <1>1, <3>1
      <3>3. i + 1 <= Len(r) /\ Agree(p, r, i) /\ r[i + 1] = 1 - p[i + 1]
        BY <2>2, <3>2 DEF Forks
      <3>4. Forks(path, p, k)
        BY <1>1, <1>3, <1>7
      <3>5. Forks(path, r, k)
        <4>1. k <= Len(r)
          <5>1. Len(r) \in Nat
            BY <1>1, PathTypes
          <5>. QED  BY <1>2, <2>2, <2>4, <3>3, <5>1
        <4>2. \A j \in 1 .. k : j \in 1 .. i
          BY <1>2, <2>2, <2>4
        <4>3. \A j \in 1 .. k : p[j] = r[j]
          BY <3>3, <4>2 DEF Agree
        <4>4. p[k] = r[k] /\ \A j \in 1 .. k - 1 : p[j] = r[j]
          BY <1>2, <4>3
        <4>. QED  BY <3>4, <4>1, <4>4 DEF Forks, Agree
      <3>6. IsPrefix(sibling, r) /\ r # path
        BY <1>1, <1>2, <1>3, <3>5, PathTypes DEF Forks, k
      <3>7. /\ Len(r) \in Nat /\ Len(Raise(path, r)) = Len(r) - 1
            /\ Agree(Raise(path, r), r, k - 1)
            /\ \A j \in Nat : j >= k /\ j < Len(r) => Raise(path, r)[j] = r[j + 1]
        BY <1>5, <3>6
      <3>8. i <= Len(Raise(path, r)) /\ i < Len(r)
        BY <2>2, <3>3, <3>7
      <3>9. Raise(path, r)[i] = 1 - e[i]
        BY <2>1, <2>2, <2>4, <3>3, <3>7, <3>8
      <3>10. ASSUME NEW j \in 1 .. i - 1 PROVE e[j] = Raise(path, r)[j]
        <4>1. j \in Nat /\ j < i /\ j \in 1 .. i /\ j + 1 \in 1 .. i
          BY <2>2
        <4>2. p[j] = r[j] /\ p[j + 1] = r[j + 1]
          BY <3>3, <4>1 DEF Agree
        <4>3. CASE j <= k - 1
          BY <1>2, <2>1, <3>7, <4>1, <4>2, <4>3 DEF Agree
        <4>4. CASE j >= k
          BY <1>2, <2>1, <2>2, <3>7, <3>8, <4>1, <4>2, <4>4
        <4>. QED  BY <1>2, <4>1, <4>3, <4>4
      <3>11. Forks(e, Raise(path, r), i)
        BY <3>8, <3>9, <3>10 DEF Forks, Agree
      <3>. QED  BY <3>6, <3>11 DEF e
    <2>. QED  BY <1>2, <2>2, <2>3, <2>4
  <1>. QED  BY <1>6, <1>7

-----------------------------------------------------------------------------
(* What the operations on a tree keep.                                     *)

Trees == UNION {[D -> Panes] : D \in SUBSET Paths}

(* A proper binary tree with panes at its leaves.                          *)
Sound(tree) ==
    /\ tree \in Trees
    /\ IsFiniteSet(DOMAIN tree)
    /\ Proper(DOMAIN tree)

(* None of them stands twice; a certain one does not.                      *)
Once(tree) == \A p, q \in DOMAIN tree : tree[p] = tree[q] => p = q

StandsOnce(tree, pane) ==
    \A p, q \in DOMAIN tree : tree[p] = pane /\ tree[q] = pane => p = q

LEMMA TreesAre ==
  ASSUME NEW tree, DOMAIN tree \subseteq Paths, \A p \in DOMAIN tree : tree[p] \in Panes,
         tree = [p \in DOMAIN tree |-> tree[p]]
  PROVE  tree \in Trees
  <1>1. tree \in [DOMAIN tree -> Panes]
    OBVIOUS
  <1>. QED  BY <1>1 DEF Trees

LEMMA TreeTypes ==
  ASSUME NEW tree, Sound(tree)
  PROVE  /\ DOMAIN tree \subseteq Paths
         /\ \A p \in DOMAIN tree : tree[p] \in Panes
         /\ tree = [p \in DOMAIN tree |-> tree[p]]
         /\ PanesOf(tree) \subseteq Panes
         /\ IsFiniteSet(DOMAIN tree)
         /\ NumLeaves(tree) \in Nat
         /\ NumLeaves(tree) = 0 <=> DOMAIN tree = {}
         /\ PanesOf(tree) = {} <=> DOMAIN tree = {}
  <1>1. PICK D \in SUBSET Paths : tree \in [D -> Panes]
    BY DEF Sound, Trees
  <1>2. NumLeaves(tree) \in Nat /\ (NumLeaves(tree) = 0 <=> DOMAIN tree = {})
    BY FS_CardinalityType, FS_EmptySet DEF Sound, NumLeaves
  <1>. QED  BY <1>1, <1>2 DEF Sound, PanesOf

(* The leaf of a pane, and its index.                                      *)
LEMMA PathOfPane ==
  ASSUME NEW tree, Sound(tree)
  PROVE  /\ \A pane \in PanesOf(tree) : /\ PathOf(tree, pane) \in DOMAIN tree
                                        /\ tree[PathOf(tree, pane)] = pane
         /\ \A p \in DOMAIN tree :
              StandsOnce(tree, tree[p]) => IndexOfPane(tree, tree[p]) = IndexOf(tree, p)
  <1>1. ASSUME NEW pane \in PanesOf(tree)
        PROVE  PathOf(tree, pane) \in DOMAIN tree /\ tree[PathOf(tree, pane)] = pane
    <2>. DEFINE P == {p \in DOMAIN tree : tree[p] = pane}
                R == {IndexOf(tree, p) : p \in P}
    <2>1. \A p \in DOMAIN tree : IndexOf(tree, p) \in Nat
      BY LeafAtIndex DEF Sound
    <2>2. R \in SUBSET Nat /\ R # {}
      BY <2>1 DEF PanesOf
    <2>3. PICK n \in R : \A m \in R : n <= m
      BY <2>2, LeastOf
    <2>4. PICK p \in P : \A q \in P : IndexOf(tree, p) <= IndexOf(tree, q)
      BY <2>3
    <2>5. \A q \in P : ~ Before(q, p)
      BY <2>1, <2>4, LeafAtIndex DEF Sound
    <2>. QED  BY <2>5 DEF PathOf
  <1>2. ASSUME NEW p \in DOMAIN tree, StandsOnce(tree, tree[p])
        PROVE  PathOf(tree, tree[p]) = p
    BY <1>1, <1>2 DEF StandsOnce, PanesOf
  <1>. QED  BY <1>1, <1>2 DEF IndexOfPane

(* The pane at an index is that of the leaf with the index.                *)
LEMMA PaneAtIndex ==
  ASSUME NEW tree, Sound(tree), NEW index \in Nat
  PROVE  /\ index < NumLeaves(tree) => PaneAt(tree, index) \in PanesOf(tree)
         /\ ~ (index < NumLeaves(tree)) => PaneAt(tree, index) = NoPane
         /\ \A p \in DOMAIN tree : IndexOf(tree, p) = index => PaneAt(tree, index) = tree[p]
         /\ index < NumLeaves(tree) => \E p \in DOMAIN tree : IndexOf(tree, p) = index
  <1>1. Proper(DOMAIN tree) /\ IsFiniteSet(DOMAIN tree)
    BY DEF Sound
  <1>2. NumLeaves(tree) \in Nat
    BY TreeTypes
  <1>3. ASSUME index < NumLeaves(tree)
        PROVE  Leaf(tree, index) \in DOMAIN tree /\ IndexOf(tree, Leaf(tree, index)) = index
    BY <1>1, <1>2, <1>3, LeafAtIndex
  <1>4. ASSUME NEW p \in DOMAIN tree, IndexOf(tree, p) = index
        PROVE  index < NumLeaves(tree) /\ Leaf(tree, index) = p
    BY <1>1, <1>2, <1>4, LeafAtIndex
  <1>. QED  BY <1>3, <1>4 DEF PaneAt, PanesOf

(* Before a leaf stand, when another leaf has gone, those that stood there *)
(* but the one that has gone.                                              *)
LEMMA RanksWithout ==
  ASSUME NEW D, Proper(D), IsFiniteSet(D), NEW path \in D, NEW p \in D
  PROVE  Cardinality(Earlier(D \ {path}, p)) =
           IF Before(path, p) THEN Cardinality(Earlier(D, p)) - 1
                              ELSE Cardinality(Earlier(D, p))
  <1>1. Earlier(D \ {path}, p) = Earlier(D, p) \ {path}
    BY DEF Earlier
  <1>2. IsFiniteSet(Earlier(D, p))
    BY FS_Subset DEF Earlier
  <1>3. path \in Earlier(D, p) <=> Before(path, p)
    BY DEF Earlier
  <1>. QED  BY <1>1, <1>2, <1>3, FS_RemoveElement

(* Unsplit removes one leaf; the others keep their panes and their order.  *)
LEMMA UnsplitKeeps ==
  ASSUME NEW tree, Sound(tree), NEW path \in DOMAIN tree, path # << >>
  PROVE  /\ Sound(Unsplit(tree, path))
         /\ PanesOf(Unsplit(tree, path)) \cup {tree[path]} = PanesOf(tree)
         /\ Once(tree) => /\ Once(Unsplit(tree, path))
                          /\ tree[path] \notin PanesOf(Unsplit(tree, path))
         /\ NumLeaves(Unsplit(tree, path)) = NumLeaves(tree) - 1
         /\ \A p \in DOMAIN tree \ {path} :
              /\ Raise(path, p) \in DOMAIN Unsplit(tree, path)
              /\ Unsplit(tree, path)[Raise(path, p)] = tree[p]
              /\ IndexOf(Unsplit(tree, path), Raise(path, p)) =
                   IF Before(path, p) THEN IndexOf(tree, p) - 1 ELSE IndexOf(tree, p)
  <1>. DEFINE D == DOMAIN tree
              S == D \ {path}
              u == Unsplit(tree, path)
              E == DOMAIN u
              f == [p \in S |-> Raise(path, p)]
  <1>1. Proper(D) /\ IsFiniteSet(D) /\ D \subseteq Paths /\ path \in D
    BY TreeTypes DEF Sound
  <1>2. E = {Raise(path, p) : p \in S} /\ \A p \in S : u[Raise(path, p)] = tree[p]
    BY <1>1, UnsplitIs
  <1>3. u = [e \in E |-> u[e]]
    BY DEF Unsplit
  <1>. HIDE DEF D, u, E
  <1>4. \A p, q \in S : Before(p, q) <=> Before(Raise(path, p), Raise(path, q))
    BY <1>1, RaiseKeepsOrder
  <1>5. \A p \in S : Raise(path, p) \in Paths
    BY <1>1, RaisedPath
  <1>6. \A p, q \in S : p # q => /\ Raise(path, p) # Raise(path, q)
                                 /\ ~ IsPrefix(Raise(path, p), Raise(path, q))
    <2>. TAKE p, q \in S
    <2>. HAVE p # q
    <2>1. Before(p, q) \/ Before(q, p)
      BY <1>1, LeavesAreOrdered
    <2>2. Before(Raise(path, p), Raise(path, q)) \/ Before(Raise(path, q), Raise(path, p))
      BY <1>4, <2>1
    <2>3. ~ IsPrefix(Raise(path, p), Raise(path, q))
      BY <1>5, <2>2, PartedPaths
    <2>. QED  BY <1>5, <2>3, PrefixOrder
  <1>7. Proper(E)
    <2>1. E \subseteq Paths
      BY <1>2, <1>5
    <2>2. \A d, e \in E : IsPrefix(d, e) => d = e
      BY <1>2, <1>6
    <2>3. ASSUME NEW e \in E, NEW i \in 1 .. Len(e) PROVE \E d \in E : Forks(e, d, i)
      <3>1. PICK p \in S : e = Raise(path, p)
        BY <1>2
      <3>2. \E q \in S : Forks(Raise(path, p), Raise(path, q), i)
        BY <1>1, <2>3, <3>1, UnsplitForks
      <3>. QED  BY <1>2, <3>1, <3>2
    <2>. QED  BY <2>1, <2>2, <2>3 DEF Proper
  <1>8. f \in Bijection(S, E)
    BY <1>2, <1>6, Fun_IsBij
  <1>9. IsFiniteSet(S) /\ Cardinality(S) = Cardinality(D) - 1
    BY <1>1, FS_RemoveElement
  <1>10. ExistsBijection(S, E)
    BY <1>8 DEF ExistsBijection
  <1>11. IsFiniteSet(E) /\ Cardinality(E) = Cardinality(D) - 1
    BY <1>9, <1>10, FS_Bijection
  <1>12. ASSUME NEW p \in S
         PROVE  Cardinality(Earlier(E, Raise(path, p))) =
                  IF Before(path, p) THEN Cardinality(Earlier(D, p)) - 1
                                     ELSE Cardinality(Earlier(D, p))
    <2>1. \A q, r \in S : Before(q, r) <=> Before(f[q], f[r])
      BY <1>4
    <2>2. f[p] = Raise(path, p)
      OBVIOUS
    <2>. HIDE DEF f
    <2>3. Cardinality(Earlier(E, f[p])) = Cardinality(Earlier(S, p))
      BY <1>8, <1>9, <2>1, SameRanks
    <2>. QED  BY <1>1, <2>2, <2>3, RanksWithout
  <1>13. Sound(u)
    <2>1. \A e \in E : u[e] \in Panes
      BY <1>2, TreeTypes DEF D
    <2>2. u \in Trees
      BY <1>3, <1>7, <2>1, TreesAre DEF Proper, E
    <2>. QED  BY <1>7, <1>11, <2>2 DEF Sound, E
  <1>14. PanesOf(u) \cup {tree[path]} = PanesOf(tree)
    BY <1>1, <1>2 DEF PanesOf, E, D
  <1>14a. ASSUME Once(tree) PROVE Once(u) /\ tree[path] \notin PanesOf(u)
    <2>1. \A d, e \in E : u[d] = u[e] => d = e
      BY <1>2, <1>14a DEF Once, D
    <2>2. \A p \in S : tree[p] # tree[path]
      BY <1>1, <1>14a DEF Once, D
    <2>. QED  BY <1>2, <2>1, <2>2 DEF Once, PanesOf, E
  <1>15. NumLeaves(u) = NumLeaves(tree) - 1
    BY <1>11 DEF NumLeaves, E, D
  <1>16. \A p \in S : IndexOf(u, Raise(path, p)) =
           IF Before(path, p) THEN IndexOf(tree, p) - 1 ELSE IndexOf(tree, p)
    BY <1>12 DEF IndexOf, Earlier, E, D
  <1>. QED  BY <1>2, <1>13, <1>14, <1>14a, <1>15, <1>16 DEF u, E, D

(* The two sides of a new node.                                            *)
LEMMA BothSides ==
  ASSUME NEW path \in Paths
  PROVE  /\ path \o <<0>> \in Paths /\ path \o <<1>> \in Paths
         /\ IsPrefix(path, path \o <<0>>) /\ IsPrefix(path, path \o <<1>>)
         /\ Before(path \o <<0>>, path \o <<1>>)
         /\ path \o <<0>> # path /\ path \o <<1>> # path
         /\ Forks(path \o <<0>>, path \o <<1>>, Len(path) + 1)
         /\ Forks(path \o <<1>>, path \o <<0>>, Len(path) + 1)
  <1>. DEFINE a == path \o <<0>>
              b == path \o <<1>>
              k == Len(path)
  <1>1. k \in Nat /\ 0 \in Turns /\ 1 \in Turns
    BY PathTypes DEF Turns
  <1>2. /\ a \in Paths /\ Len(a) = k + 1 /\ a[k + 1] = 0 /\ \A j \in 1 .. k : a[j] = path[j]
    BY <1>1, OneTurnMore
  <1>3. /\ b \in Paths /\ Len(b) = k + 1 /\ b[k + 1] = 1 /\ \A j \in 1 .. k : b[j] = path[j]
    BY <1>1, OneTurnMore
  <1>. HIDE DEF a, b
  <1>4. IsPrefix(path, a) /\ IsPrefix(path, b)
    BY <1>1, <1>2, <1>3, PrefixAgrees DEF Agree
  <1>5. Agree(a, b, k) /\ Agree(b, a, k) /\ k + 1 - 1 = k
    BY <1>1, <1>2, <1>3 DEF Agree
  <1>. HIDE DEF k
  <1>6. PartsLeft(a, b, k + 1)
    BY <1>1, <1>2, <1>3, <1>5 DEF PartsLeft
  <1>7. Before(a, b)
    BY <1>1, <1>2, <1>3, <1>6, BeforeParts
  <1>8. a # path /\ b # path
    BY <1>1, <1>2, <1>3 DEF k
  <1>9. Forks(a, b, k + 1) /\ Forks(b, a, k + 1)
    BY <1>1, <1>2, <1>3, <1>5 DEF Forks
  <1>. QED  BY <1>2, <1>3, <1>4, <1>7, <1>8, <1>9 DEF a, b, k

(* Which leaves part from a path depends on its first turns.               *)
LEMMA ForksAlike ==
  ASSUME NEW p \in Paths, NEW q \in Paths, NEW i \in Nat \ {0}, i <= Len(p), i <= Len(q),
         Agree(p, q, i), NEW r
  PROVE  Forks(p, r, i) <=> Forks(q, r, i)
  BY DEF Forks, Agree

LEMMA ForkedAlike ==
  ASSUME NEW p \in Paths, NEW q \in Paths, NEW i \in Nat \ {0}, i <= Len(q),
         Agree(p, q, i), NEW r, Forks(r, p, i)
  PROVE  Forks(r, q, i)
  BY DEF Forks, Agree

(* The leaves of a tree in which one leaf became a node are proper.        *)
LEMMA SplitLeafProper ==
  ASSUME NEW D, Proper(D), NEW path \in D
  PROVE  Proper((D \ {path}) \cup {path \o <<0>>, path \o <<1>>})
  <1>. DEFINE a == path \o <<0>>
              b == path \o <<1>>
              S == D \ {path}
              E == S \cup {a, b}
              k == Len(path)
  <1>1. /\ D \subseteq Paths /\ path \in Paths
        /\ \A p, q \in D : IsPrefix(p, q) => p = q
        /\ \A p \in D : \A i \in 1 .. Len(p) : \E q \in D : Forks(p, q, i)
    BY DEF Proper
  <1>2. /\ a \in Paths /\ b \in Paths /\ IsPrefix(path, a) /\ IsPrefix(path, b)
        /\ Before(a, b) /\ Forks(a, b, k + 1) /\ Forks(b, a, k + 1)
    BY <1>1, BothSides
  <1>. HIDE DEF a, b
  <1>3. k \in Nat /\ Len(a) = k + 1 /\ Len(b) = k + 1 /\ Agree(path, a, k) /\ Agree(path, b, k)
    <2>1. k \in Nat /\ 0 \in Turns /\ 1 \in Turns
      BY <1>1, PathTypes DEF Turns
    <2>2. Len(a) = k + 1 /\ Len(b) = k + 1
      BY <1>1, <2>1, OneTurnMore DEF a, b
    <2>. QED  BY <1>1, <1>2, <2>1, <2>2, PrefixAgrees
  <1>. HIDE DEF k
  <1>4. ASSUME NEW q \in S, NEW c \in {a, b} PROVE ~ IsPrefix(q, c) /\ ~ IsPrefix(c, q)
    <2>1. q \in Paths /\ ~ IsPrefix(q, path) /\ ~ IsPrefix(path, q) /\ c \in Paths /\ IsPrefix(path, c)
      BY <1>1, <1>2, <1>4
    <2>. QED  BY <1>1, <2>1, PrefixOrder
  <1>5. ~ IsPrefix(a, b) /\ ~ IsPrefix(b, a)
    BY <1>2, PartedPaths
  <1>6. \A p, q \in E : IsPrefix(p, q) => p = q
    BY <1>1, <1>4, <1>5
  <1>7. ASSUME NEW p \in S, NEW i \in 1 .. Len(p) PROVE \E q \in E : Forks(p, q, i)
    <2>1. PICK q \in D : Forks(p, q, i)
      BY <1>1
    <2>2. CASE q = path
      <3>1. i \in Nat \ {0} /\ i <= k
        BY <1>1, <2>1, <2>2, PathTypes DEF Forks, k
      <3>2. i <= Len(a) /\ Agree(path, a, i)
        BY <1>3, <3>1 DEF Agree
      <3>3. Forks(p, a, i)
        BY <1>1, <1>2, <2>1, <2>2, <3>1, <3>2, ForkedAlike
      <3>. QED  BY <3>3
    <2>. QED  BY <2>1, <2>2
  <1>8. ASSUME NEW c \in {a, b}, NEW i \in 1 .. Len(c) PROVE \E q \in E : Forks(c, q, i)
    <2>1. CASE i <= k
      <3>1. i \in Nat \ {0} /\ i <= Len(path) /\ i \in 1 .. Len(path) /\ i <= Len(c) /\ Agree(c, path, i)
        BY <1>3, <2>1 DEF Agree, k
      <3>2. PICK q \in D : Forks(path, q, i)
        BY <1>1, <3>1
      <3>3. q # path
        BY <1>1, <3>1, <3>2, PathTypes DEF Forks
      <3>4. Forks(c, q, i)
        BY <1>1, <1>2, <3>1, <3>2, ForksAlike
      <3>. QED  BY <3>3, <3>4
    <2>2. CASE i = k + 1
      BY <1>2, <2>2
    <2>. QED  BY <1>3, <2>1, <2>2
  <1>9. E \subseteq Paths
    BY <1>1, <1>2
  <1>10. \A p \in E : \A i \in 1 .. Len(p) : \E q \in E : Forks(p, q, i)
    BY <1>7, <1>8
  <1>11. Proper(E)
    BY <1>6, <1>9, <1>10 DEF Proper
  <1>. QED  BY <1>11 DEF a, b

(* A split of a leaf puts a new pane beside the one that was there.        *)
LEMMA SplitLeafKeeps ==
  ASSUME NEW tree, Sound(tree), NEW path \in DOMAIN tree,
         NEW pane \in Panes, NEW first, NEW second,
         \/ first = tree[path] /\ second = pane
         \/ first = pane /\ second = tree[path]
  PROVE  LET s == SplitLeaf(tree, path, first, second)
         IN  /\ Sound(s)
             /\ PanesOf(s) = PanesOf(tree) \cup {pane}
             /\ pane \notin PanesOf(tree) => StandsOnce(s, pane) /\ (Once(tree) => Once(s))
             /\ NumLeaves(s) = NumLeaves(tree) + 1
             /\ path \o <<0>> \in DOMAIN s /\ s[path \o <<0>>] = first
             /\ path \o <<1>> \in DOMAIN s /\ s[path \o <<1>>] = second
             /\ IndexOf(s, path \o <<0>>) = IndexOf(tree, path)
             /\ IndexOf(s, path \o <<1>>) = IndexOf(tree, path) + 1
  <1>. DEFINE D == DOMAIN tree
              a == path \o <<0>>
              b == path \o <<1>>
              S == D \ {path}
              E == S \cup {a, b}
              s == SplitLeaf(tree, path, first, second)
  <1>1. /\ Proper(D) /\ IsFiniteSet(D) /\ D \subseteq Paths /\ path \in D /\ path \in Paths
        /\ \A p \in D : tree[p] \in Panes
    BY TreeTypes DEF Sound
  <1>2. /\ a \in Paths /\ b \in Paths /\ IsPrefix(path, a) /\ IsPrefix(path, b)
        /\ Before(a, b) /\ ~ Before(b, a) /\ ~ Before(a, a) /\ ~ Before(b, b) /\ a # b
    BY <1>1, BothSides, PartedPaths, PrefixOrder
  <1>3. Proper(E)
    BY <1>1, SplitLeafProper
  <1>4. s = [p \in E |-> CASE p = a -> first [] p = b -> second [] OTHER -> tree[p]]
    BY DEF SplitLeaf
  <1>. HIDE DEF D, a, b, s
  <1>5. ASSUME NEW q \in S
        PROVE  /\ q \in Paths /\ q # a /\ q # b
               /\ Before(q, a) <=> Before(q, path)
               /\ Before(q, b) <=> Before(q, path)
    <2>1. q \in Paths /\ ~ IsPrefix(q, path) /\ ~ IsPrefix(path, q)
      BY <1>1, <1>5 DEF Proper
    <2>. QED  BY <1>1, <1>2, <2>1, BesideUnder
  <1>6. /\ DOMAIN s = E /\ s[a] = first /\ s[b] = second /\ \A p \in S : s[p] = tree[p]
        /\ s = [p \in E |-> s[p]]
    <2>1. DOMAIN s = E
      BY <1>4
    <2>2. s[a] = first /\ s[b] = second
      BY <1>2, <1>4
    <2>3. \A p \in S : s[p] = tree[p]
      BY <1>4, <1>5
    <2>4. s = [p \in E |-> s[p]]
      BY <1>4
    <2>. QED  BY <2>1, <2>2, <2>3, <2>4
  <1>8. first \in Panes /\ second \in Panes
    BY <1>1
  <1>10. ASSUME pane \notin PanesOf(tree)
         PROVE  StandsOnce(s, pane) /\ (Once(tree) => Once(s))
    <2>1. \A p \in D : tree[p] # pane
      BY <1>10 DEF PanesOf, D
    <2>2. StandsOnce(s, pane)
      BY <1>1, <1>6, <2>1 DEF StandsOnce
    <2>3. ASSUME Once(tree) PROVE \A p, q \in E : s[p] = s[q] => p = q
      <3>1. \A p, q \in D : tree[p] = tree[q] => p = q
        BY <2>3 DEF Once, D
      <3>2. \A p \in S : tree[p] # first /\ tree[p] # second
        BY <1>1, <2>1, <3>1
      <3>3. first # second
        BY <1>1, <2>1
      <3>. QED  BY <1>6, <3>1, <3>2, <3>3
    <2>. QED  BY <1>6, <2>2, <2>3 DEF Once
  <1>11. IsFiniteSet(S) /\ Cardinality(S) = Cardinality(D) - 1 /\ Cardinality(D) \in Nat
    BY <1>1, FS_RemoveElement, FS_CardinalityType
  <1>12. IsFiniteSet(S \cup {a}) /\ Cardinality(S \cup {a}) = Cardinality(D)
    <2>1. a \notin S
      BY <1>5
    <2>2. IsFiniteSet(S \cup {a}) /\ Cardinality(S \cup {a}) = Cardinality(S) + 1
      BY <1>11, <2>1, FS_AddElement
    <2>. QED  BY <1>11, <2>2
  <1>13. E = (S \cup {a}) \cup {b} /\ b \notin S \cup {a}
    BY <1>2, <1>5
  <1>14. IsFiniteSet(E) /\ Cardinality(E) = Cardinality(D) + 1
    BY <1>12, <1>13, FS_AddElement, ZenonT(60)
  <1>15. Sound(s)
    <2>1. \A p \in E : s[p] \in Panes
      BY <1>1, <1>6, <1>8
    <2>2. s \in Trees
      BY <1>3, <1>6, <2>1, TreesAre DEF Proper
    <2>. QED  BY <1>3, <1>6, <1>14, <2>2 DEF Sound
  <1>16. PanesOf(s) = PanesOf(tree) \cup {pane}
    <2>1. PanesOf(s) = {tree[p] : p \in S} \cup {first, second}
      BY <1>6 DEF PanesOf
    <2>2. PanesOf(tree) = {tree[p] : p \in S} \cup {tree[path]}
      BY <1>1 DEF PanesOf, D
    <2>. QED  BY <2>1, <2>2
  <1>17. NumLeaves(s) = NumLeaves(tree) + 1
    BY <1>6, <1>14 DEF NumLeaves, D
  <1>18. Earlier(E, a) = Earlier(D, path)
    <2>1. ~ Before(path, path)
      BY <1>1, PartedPaths, PrefixOrder
    <2>. QED  BY <1>2, <1>5, <2>1 DEF Earlier
  <1>19. Earlier(E, b) = Earlier(D, path) \cup {a} /\ a \notin Earlier(D, path)
    <2>1. ~ Before(path, path)
      BY <1>1, PartedPaths, PrefixOrder
    <2>2. ~ Before(a, path)
      BY <1>1, <1>2, PartedPaths
    <2>. QED  BY <1>2, <1>5, <2>1, <2>2 DEF Earlier
  <1>20. IsFiniteSet(Earlier(D, path))
    BY <1>1, FS_Subset DEF Earlier
  <1>21. Cardinality(Earlier(E, b)) = Cardinality(Earlier(D, path)) + 1
    BY <1>19, <1>20, FS_AddElement
  <1>22. IndexOf(s, a) = IndexOf(tree, path) /\ IndexOf(s, b) = IndexOf(tree, path) + 1
    BY <1>6, <1>18, <1>21 DEF IndexOf, Earlier, D
  <1>. QED  BY <1>6, <1>10, <1>15, <1>16, <1>17, <1>22 DEF a, b, s

(* The whole tree on one side of a new root.                               *)
LEMMA OneTurnFirst ==
  ASSUME NEW t \in Turns, NEW q \in Paths
  PROVE  /\ <<t>> \in Paths /\ Len(<<t>>) = 1 /\ <<t>>[1] = t
         /\ <<t>> \o q \in Paths
         /\ Len(<<t>> \o q) = Len(q) + 1
         /\ (<<t>> \o q)[1] = t
         /\ \A j \in 1 .. Len(q) : (<<t>> \o q)[j + 1] = q[j]
         /\ Tail(<<t>> \o q) = q
         /\ <<t>> \o q = Regraft(q, << >>, <<t>>)
  <1>. DEFINE u == <<t>>
              v == u \o q
  <1>1. u \in Paths /\ Len(u) = 1 /\ u[1] = t
    BY DEF Paths
  <1>. HIDE DEF u
  <1>2. Len(q) \in Nat
    BY PathTypes
  <1>3. /\ v \in Paths /\ Len(v) = Len(u) + Len(q)
        /\ \A i \in 1 .. Len(u) + Len(q) : v[i] = IF i <= Len(u) THEN u[i] ELSE q[i - Len(u)]
    BY <1>1, ConcatProperties DEF Paths
  <1>. HIDE DEF v
  <1>4. Len(v) = Len(q) + 1 /\ v[1] = t
    BY <1>1, <1>2, <1>3
  <1>5. ASSUME NEW j \in 1 .. Len(q) PROVE v[j + 1] = q[j]
    <2>1. j + 1 \in 1 .. Len(u) + Len(q) /\ ~ (j + 1 <= Len(u)) /\ j + 1 - Len(u) = j
      BY <1>1, <1>2
    <2>. QED  BY <1>3, <2>1
  <1>6. Tail(v) = q
    <2>1. v # << >>
      BY <1>2, <1>4, EmptySeq
    <2>2. /\ Tail(v) \in Paths /\ Len(Tail(v)) = Len(v) - 1
          /\ \A i \in 1 .. Len(Tail(v)) : Tail(v)[i] = v[i + 1]
      BY <1>3, <2>1, HeadTailProperties DEF Paths
    <2>3. Len(Tail(v)) = Len(q)
      BY <1>2, <1>4, <2>2
    <2>4. Agree(Tail(v), q, Len(q))
      BY <1>5, <2>2, <2>3 DEF Agree
    <2>. QED  BY <2>2, <2>3, <2>4, SamePath
  <1>7. Rest(q, << >>) = q
    <2>1. Len(<< >>) + 1 = 1
      BY EmptySeq
    <2>. QED  BY <2>1, SubSeqFull DEF Rest, Paths
  <1>8. v = Regraft(q, << >>, u)
    BY <1>7 DEF Regraft, v
  <1>. QED  BY <1>1, <1>3, <1>4, <1>5, <1>6, <1>8 DEF u, v

(* The paths under a new root: all on one side of it, and the other side.  *)
UnderRoot(D, t, o) == {<<t>> \o q : q \in D} \cup {<<o>>}

LEMMA SplitRootProper ==
  ASSUME NEW D, Proper(D), D # {}, NEW t \in Turns, NEW o \in Turns, o = 1 - t
  PROVE  /\ Proper(UnderRoot(D, t, o))
         /\ \A p, q \in D : Before(p, q) <=> Before(<<t>> \o p, <<t>> \o q)
         /\ \A p \in D : /\ <<t>> \o p # <<o>>
                         /\ t = 0 => Before(<<t>> \o p, <<o>>) /\ ~ Before(<<o>>, <<t>> \o p)
                         /\ t = 1 => Before(<<o>>, <<t>> \o p) /\ ~ Before(<<t>> \o p, <<o>>)
  <1>. DEFINE f(q) == <<t>> \o q
              n == <<o>>
              S == {f(q) : q \in D}
              E == S \cup {n}
  <1>1. /\ D \subseteq Paths /\ << >> \in Paths
        /\ \A p, q \in D : IsPrefix(p, q) => p = q
        /\ \A p \in D : \A i \in 1 .. Len(p) : \E q \in D : Forks(p, q, i)
    BY EmptySeq DEF Proper, Paths
  <1>2. n \in Paths /\ Len(n) = 1 /\ n[1] = o
    BY <1>1, OneTurnFirst
  <1>3. \A q \in Paths : /\ f(q) \in Paths /\ Len(f(q)) = Len(q) + 1 /\ Len(q) \in Nat
                         /\ f(q)[1] = t
                         /\ \A j \in 1 .. Len(q) : f(q)[j + 1] = q[j]
    BY OneTurnFirst, PathTypes
  <1>4. \A q \in Paths : /\ <<t>> \in Paths /\ f(q) = Regraft(q, << >>, <<t>>)
                         /\ IsPrefix(<< >>, q)
    BY OneTurnFirst, PrefixOrder
  <1>5. o # t /\ t \in Int /\ o \in Int /\ (t = 0 => t < o) /\ (t = 1 => o < t) /\ (t = 0 \/ t = 1)
    BY DEF Turns
  <1>. HIDE DEF f, n
  <1>6. \A p, q \in Paths : Before(p, q) <=> Before(f(p), f(q))
    BY <1>1, <1>4, RegraftKeepsOrder
  <1>7. ASSUME NEW p \in Paths
        PROVE  /\ Forks(f(p), n, 1) /\ Forks(n, f(p), 1)
               /\ f(p) # n
               /\ t = 0 => Before(f(p), n)
               /\ t = 1 => Before(n, f(p))
    <2>1. Agree(f(p), n, 0) /\ Agree(n, f(p), 0) /\ 1 - 1 = 0
      BY DEF Agree
    <2>2. 1 <= Len(f(p)) /\ 1 <= Len(n) /\ f(p)[1] = t /\ n[1] = o
      BY <1>2, <1>3
    <2>3. t = 0 => PartsLeft(f(p), n, 1)
      BY <1>5, <2>1, <2>2 DEF PartsLeft
    <2>4. t = 1 => PartsLeft(n, f(p), 1)
      BY <1>5, <2>1, <2>2 DEF PartsLeft
    <2>5. f(p) \in Paths /\ n \in Paths
      BY <1>2, <1>3
    <2>6. t = 0 => Before(f(p), n)
      BY <2>3, <2>5, BeforeParts
    <2>7. t = 1 => Before(n, f(p))
      BY <2>4, <2>5, BeforeParts
    <2>8. Forks(f(p), n, 1) /\ Forks(n, f(p), 1)
      BY <1>5, <2>1, <2>2 DEF Forks
    <2>. QED  BY <1>5, <2>2, <2>6, <2>7, <2>8
  <1>8. \A p \in D : /\ f(p) \in Paths
                     /\ t = 0 => Before(f(p), n) /\ ~ Before(n, f(p))
                     /\ t = 1 => Before(n, f(p)) /\ ~ Before(f(p), n)
                     /\ ~ IsPrefix(f(p), n) /\ ~ IsPrefix(n, f(p))
    BY <1>1, <1>2, <1>3, <1>5, <1>7, PartedPaths
  <1>9. \A p, q \in D : IsPrefix(f(p), f(q)) => f(p) = f(q)
    <2>. TAKE p, q \in D
    <2>1. p \in Paths /\ q \in Paths /\ f(p) \in Paths /\ f(q) \in Paths
      BY <1>1, <1>3
    <2>2. p = q \/ Before(p, q) \/ Before(q, p)
      BY LeavesAreOrdered
    <2>3. p = q \/ Before(f(p), f(q)) \/ Before(f(q), f(p))
      BY <1>6, <2>1, <2>2
    <2>. QED  BY <2>1, <2>3, PartedPaths
  <1>10. \A p, q \in E : IsPrefix(p, q) => p = q
    BY <1>8, <1>9
  <1>11. ASSUME NEW p \in D, NEW i \in 1 .. Len(f(p)) PROVE \E q \in E : Forks(f(p), q, i)
    <2>0. p \in Paths
      BY <1>1
    <2>1. CASE i = 1
      BY <1>7, <2>0, <2>1
    <2>2. CASE i # 1
      <3>. DEFINE j == i - 1
      <3>1. j \in 1 .. Len(p) /\ i = j + 1
        BY <1>3, <2>0, <2>2
      <3>. HIDE DEF j
      <3>2. PICK q \in D : Forks(p, q, j)
        BY <1>1, <3>1
      <3>3. /\ q \in Paths /\ Len(q) \in Nat /\ Len(p) \in Nat /\ Len(f(q)) = Len(q) + 1
            /\ j <= Len(q) /\ Agree(p, q, j - 1) /\ q[j] = 1 - p[j]
            /\ f(q)[1] = t /\ f(p)[1] = t
        BY <1>1, <1>3, <2>0, <3>2 DEF Forks
      <3>4. \A m \in 1 .. j : f(p)[m + 1] = p[m] /\ f(q)[m + 1] = q[m]
        <4>1. \A m \in 1 .. j : m \in 1 .. Len(p) /\ m \in 1 .. Len(q)
          BY <3>1, <3>3
        <4>2. \A m \in 1 .. Len(p) : f(p)[m + 1] = p[m]
          BY <1>3, <2>0
        <4>3. \A m \in 1 .. Len(q) : f(q)[m + 1] = q[m]
          BY <1>3, <3>3
        <4>. QED  BY <4>1, <4>2, <4>3
      <3>5. f(q)[i] = 1 - f(p)[i] /\ i <= Len(f(q))
        BY <3>1, <3>3, <3>4
      <3>6. ASSUME NEW m \in 1 .. i - 1 PROVE f(p)[m] = f(q)[m]
        <4>1. CASE m = 1
          BY <3>3, <4>1
        <4>2. CASE m # 1
          <5>. DEFINE l == m - 1
          <5>1. l \in 1 .. j - 1 /\ l \in 1 .. j /\ m = l + 1
            BY <3>1, <4>2
          <5>. HIDE DEF l
          <5>. QED  BY <3>3, <3>4, <5>1 DEF Agree
        <4>. QED  BY <4>1, <4>2
      <3>7. Forks(f(p), f(q), i)
        BY <3>5, <3>6 DEF Forks, Agree
      <3>. QED  BY <3>7
    <2>. QED  BY <2>1, <2>2
  <1>12. ASSUME NEW i \in 1 .. Len(n) PROVE \E q \in E : Forks(n, q, i)
    <2>1. PICK p \in D : TRUE
      OBVIOUS
    <2>2. i = 1
      BY <1>2
    <2>. QED  BY <1>1, <1>7, <2>1, <2>2
  <1>13. E \subseteq Paths
    BY <1>2, <1>8
  <1>14. Proper(E)
    BY <1>10, <1>11, <1>12, <1>13 DEF Proper
  <1>15. \A p, q \in D : Before(p, q) <=> Before(f(p), f(q))
    BY <1>1, <1>6
  <1>16. \A p \in D : f(p) # n
    BY <1>1, <1>7
  <1>17. UnderRoot(D, t, o) = E
    BY Zenon DEF UnderRoot, f, n
  <1>. HIDE DEF E
  <1>. QED  BY <1>8, <1>14, <1>15, <1>16, <1>17 DEF f, n

(* A split at top level puts a new pane first or last.                     *)
LEMMA SplitRootKeeps ==
  ASSUME NEW tree, Sound(tree), DOMAIN tree # {},
         NEW pane \in Panes, NEW second \in BOOLEAN
  PROVE  LET s   == SplitRoot(tree, pane, second)
             new == <<IF second THEN 1 ELSE 0>>
         IN  /\ Sound(s)
             /\ PanesOf(s) = PanesOf(tree) \cup {pane}
             /\ pane \notin PanesOf(tree) => StandsOnce(s, pane) /\ (Once(tree) => Once(s))
             /\ NumLeaves(s) = NumLeaves(tree) + 1
             /\ new \in DOMAIN s /\ s[new] = pane
             /\ IndexOf(s, new) = IF second THEN NumLeaves(tree) ELSE 0
  <1>. DEFINE D == DOMAIN tree
              t == IF second THEN 0 ELSE 1
              o == IF second THEN 1 ELSE 0
              n == <<o>>
              f(q) == <<t>> \o q
              S == {f(q) : q \in D}
              E == S \cup {n}
              s == SplitRoot(tree, pane, second)
              g == [q \in D |-> f(q)]
  <1>1. /\ Proper(D) /\ IsFiniteSet(D) /\ D \subseteq Paths /\ D # {}
        /\ \A p \in D : tree[p] \in Panes
    BY TreeTypes DEF Sound
  <1>2. t \in Turns /\ o \in Turns /\ o = 1 - t /\ (second <=> t = 0) /\ (~ second <=> t = 1)
    BY DEF Turns
  <1>3. s = [p \in E |-> IF p = n THEN pane ELSE tree[Tail(p)]]
    <2>1. 1 - t = o
      BY <1>2
    <2>. QED  BY <2>1 DEF SplitRoot
  <1>. HIDE DEF s, D, t, o
  <1>4. /\ Proper(E)
        /\ \A p, q \in D : Before(p, q) <=> Before(f(p), f(q))
        /\ \A p \in D : /\ f(p) # n
                        /\ t = 0 => Before(f(p), n) /\ ~ Before(n, f(p))
                        /\ t = 1 => Before(n, f(p)) /\ ~ Before(f(p), n)
    <2>1. Proper(UnderRoot(D, t, o))
      BY ONLY <1>1, <1>2, SplitRootProper
    <2>2. UnderRoot(D, t, o) = E
      BY Zenon DEF UnderRoot
    <2>3. \A p, q \in D : Before(p, q) <=> Before(<<t>> \o p, <<t>> \o q)
      BY ONLY <1>1, <1>2, SplitRootProper
    <2>4. \A p \in D : /\ <<t>> \o p # <<o>>
                       /\ t = 0 => Before(<<t>> \o p, <<o>>) /\ ~ Before(<<o>>, <<t>> \o p)
                       /\ t = 1 => Before(<<o>>, <<t>> \o p) /\ ~ Before(<<t>> \o p, <<o>>)
      BY ONLY <1>1, <1>2, SplitRootProper
    <2>. HIDE DEF E
    <2>5. Proper(E)
      BY <2>1, <2>2
    <2>6. \A p, q \in D : Before(p, q) <=> Before(f(p), f(q))
      BY ONLY <2>3, Zenon DEF f
    <2>7. \A p \in D : /\ f(p) # n
                       /\ t = 0 => Before(f(p), n) /\ ~ Before(n, f(p))
                       /\ t = 1 => Before(n, f(p)) /\ ~ Before(f(p), n)
      BY ONLY <2>4, Zenon DEF f, n
    <2>. QED  BY ONLY <2>5, <2>6, <2>7, Zenon
  <1>5. \A q \in D : f(q) \in Paths /\ Tail(f(q)) = q
    BY <1>1, <1>2, OneTurnFirst
  <1>. HIDE DEF f, n
  <1>6. /\ DOMAIN s = E /\ s = [p \in E |-> s[p]] /\ s[n] = pane
        /\ \A q \in D : s[f(q)] = tree[q]
    BY <1>3, <1>4, <1>5
  <1>8. ASSUME pane \notin PanesOf(tree)
        PROVE  StandsOnce(s, pane) /\ (Once(tree) => Once(s))
    <2>1. \A p \in S : \E q \in D : p = f(q) /\ s[p] = tree[q]
      BY <1>6
    <2>2. \A p \in S : s[p] # pane
      BY <1>8, <2>1 DEF PanesOf, D
    <2>3. StandsOnce(s, pane)
      BY <1>6, <2>2 DEF StandsOnce
    <2>4. ASSUME Once(tree) PROVE \A p, q \in E : s[p] = s[q] => p = q
      <3>1. \A p, q \in D : tree[p] = tree[q] => p = q
        BY <2>4 DEF Once, D
      <3>2. \A p, q \in S : s[p] = s[q] => p = q
        BY <2>1, <3>1
      <3>. QED  BY <1>6, <2>2, <3>2
    <2>. QED  BY <1>6, <2>3, <2>4 DEF Once
  <1>9. g \in Bijection(D, S)
    <2>1. \A p, q \in D : g[p] = g[q] => p = q
      BY <1>5
    <2>2. \A e \in S : \E q \in D : g[q] = e
      OBVIOUS
    <2>3. g \in [D -> S]
      OBVIOUS
    <2>. HIDE DEF g, S
    <2>. QED  BY <2>1, <2>2, <2>3, Fun_IsBij
  <1>10. ExistsBijection(D, S)
    BY <1>9 DEF ExistsBijection
  <1>11. IsFiniteSet(S) /\ Cardinality(S) = Cardinality(D) /\ Cardinality(D) \in Nat
    BY <1>1, <1>10, FS_Bijection, FS_CardinalityType
  <1>12. n \notin S
    BY <1>4
  <1>13. IsFiniteSet(E) /\ Cardinality(E) = Cardinality(D) + 1
    BY <1>11, <1>12, FS_AddElement
  <1>14. Sound(s)
    <2>1. \A p \in E : s[p] \in Panes
      BY <1>1, <1>6
    <2>2. E \subseteq Paths
      BY <1>4 DEF Proper
    <2>3. s \in Trees
      BY <1>6, <2>1, <2>2, TreesAre
    <2>. QED  BY <1>4, <1>6, <1>13, <2>3 DEF Sound
  <1>15. PanesOf(s) = PanesOf(tree) \cup {pane}
    <2>1. \A p \in D : \E e \in E : s[e] = tree[p]
      BY <1>6
    <2>2. \A e \in E : s[e] = pane \/ \E p \in D : s[e] = tree[p]
      BY <1>6
    <2>3. n \in E
      OBVIOUS
    <2>. HIDE DEF E
    <2>. QED  BY <1>6, <2>1, <2>2, <2>3 DEF PanesOf, D
  <1>16. NumLeaves(s) = NumLeaves(tree) + 1 /\ NumLeaves(tree) = Cardinality(D)
    BY <1>6, <1>13 DEF NumLeaves, D
  <1>17. ~ Before(n, n)
    BY <1>4, LeavesAreOrdered
  <1>18. CASE second
    <2>1. Earlier(E, n) = S
      BY <1>2, <1>4, <1>17, <1>18 DEF Earlier
    <2>2. IndexOf(s, n) = NumLeaves(tree)
      BY <1>6, <1>11, <1>16, <2>1 DEF IndexOf, Earlier
    <2>. QED  BY <1>6, <1>8, <1>14, <1>15, <1>16, <1>18, <2>2 DEF n, o, s
  <1>19. CASE ~ second
    <2>1. Earlier(E, n) = {}
      BY <1>2, <1>4, <1>17, <1>19 DEF Earlier
    <2>2. IndexOf(s, n) = 0
      BY <1>6, <2>1, FS_EmptySet DEF IndexOf, Earlier
    <2>. QED  BY <1>6, <1>8, <1>14, <1>15, <1>16, <1>19, <2>2 DEF n, o, s
  <1>. QED  BY <1>18, <1>19

(* The panes of two leaves change places.                                  *)
Swapped(tree, p, q) == [[tree EXCEPT ![p] = tree[q]] EXCEPT ![q] = tree[p]]

LEMMA SwapKeeps ==
  ASSUME NEW tree, Sound(tree), NEW p \in DOMAIN tree, NEW q \in DOMAIN tree
  PROVE  /\ Sound(Swapped(tree, p, q))
         /\ DOMAIN Swapped(tree, p, q) = DOMAIN tree
         /\ PanesOf(Swapped(tree, p, q)) = PanesOf(tree)
         /\ Once(tree) => Once(Swapped(tree, p, q))
  <1>. DEFINE D == DOMAIN tree
              s == Swapped(tree, p, q)
  <1>1. /\ Proper(D) /\ IsFiniteSet(D) /\ D \subseteq Paths
        /\ \A r \in D : tree[r] \in Panes
        /\ tree = [r \in D |-> tree[r]]
    BY TreeTypes DEF Sound
  <1>2. /\ DOMAIN s = D
        /\ s = [r \in D |-> s[r]]
        /\ s[q] = tree[p]
        /\ p # q => s[p] = tree[q]
        /\ \A r \in D : r # p /\ r # q => s[r] = tree[r]
    BY DEF Swapped
  <1>. HIDE DEF s, D
  <1>3. p \in D /\ q \in D
    BY DEF D
  <1>4. s[p] = tree[q]
    BY <1>2
  <1>5. ASSUME Once(tree) PROVE \A r, u \in D : s[r] = s[u] => r = u
    <2>0. \A r, u \in D : tree[r] = tree[u] => r = u
      BY <1>5 DEF Once, D
    <2>. TAKE r, u \in D
    <2>1. CASE r = p
      BY <2>0, <1>2, <1>3, <1>4, <2>1, ZenonT(60)
    <2>2. CASE r = q
      BY <2>0, <1>2, <1>3, <1>4, <2>2, ZenonT(60)
    <2>3. CASE r # p /\ r # q
      BY <2>0, <1>2, <1>3, <1>4, <2>3
    <2>. QED  BY <2>1, <2>2, <2>3
  <1>6. \A r \in D : s[r] \in Panes
    BY <1>1, <1>2, <1>3, <1>4
  <1>7. Sound(s)
    BY <1>1, <1>2, <1>6, TreesAre DEF Sound
  <1>8. PanesOf(s) = PanesOf(tree)
    <2>1. \A r \in D : \E u \in D : s[u] = tree[r]
      BY <1>2, <1>3, <1>4
    <2>2. \A r \in D : \E u \in D : tree[u] = s[r]
      BY <1>2, <1>3, <1>4
    <2>. QED  BY <1>2, <2>1, <2>2 DEF PanesOf, D
  <1>9. Once(tree) => Once(s)
    BY <1>2, <1>5 DEF Once
  <1>. QED  BY <1>2, <1>4, <1>7, <1>8, <1>9 DEF s, D

(* A leaf takes a pane that stands elsewhere in the tree.                  *)
LEMMA PutKeeps ==
  ASSUME NEW tree, Sound(tree), NEW old, Sound(old), DOMAIN tree = DOMAIN old,
         PanesOf(tree) \subseteq PanesOf(old),
         NEW p \in DOMAIN tree, NEW pane \in PanesOf(old)
  PROVE  LET s == [tree EXCEPT ![p] = pane]
         IN  /\ Sound(s) /\ DOMAIN s = DOMAIN tree
             /\ PanesOf(s) \subseteq PanesOf(old)
             /\ s[p] = pane /\ \A q \in DOMAIN tree : q # p => s[q] = tree[q]
  <1>. DEFINE s == [tree EXCEPT ![p] = pane]
  <1>1. /\ DOMAIN s = DOMAIN tree /\ s[p] = pane /\ s = [q \in DOMAIN s |-> s[q]]
        /\ \A q \in DOMAIN tree : q # p => s[q] = tree[q]
    OBVIOUS
  <1>. HIDE DEF s
  <1>2. pane \in Panes /\ DOMAIN tree \subseteq Paths /\ \A q \in DOMAIN tree : tree[q] \in Panes
    BY TreeTypes
  <1>3. \A q \in DOMAIN s : s[q] \in Panes
    BY <1>1, <1>2
  <1>4. s \in Trees
    BY <1>1, <1>2, <1>3, TreesAre
  <1>5. Sound(s)
    BY <1>1, <1>4 DEF Sound
  <1>6. \A q \in DOMAIN s : s[q] \in PanesOf(old)
    BY <1>1 DEF PanesOf
  <1>7. PanesOf(s) \subseteq PanesOf(old)
    BY <1>6 DEF PanesOf
  <1>. QED  BY <1>1, <1>5, <1>7 DEF s

(* One step around a circle of n.                                          *)
LEMMA AroundTheCircle ==
  ASSUME NEW n \in Nat \ {0}, NEW i \in 0 .. n - 1
  PROVE  /\ (i + 1) % n = IF i + 1 = n THEN 0 ELSE i + 1
         /\ (i + (-1)) % n = IF i = 0 THEN n - 1 ELSE i - 1
  <1>1. ASSUME NEW k \in 0 .. n - 1 PROVE k % n = k
    OBVIOUS
  <1>2. n % n = 0
    OBVIOUS
  <1>3. (-1) % n = n - 1
    OBVIOUS
  <1>. QED  BY <1>1, <1>2, <1>3

(* The panes go round by one.                                              *)
LEMMA RotateKeeps ==
  ASSUME NEW tree, Sound(tree), NEW by \in {1, -1}
  PROVE  LET r == [p \in DOMAIN tree |->
                     PaneAt(tree, (IndexOf(tree, p) + by) % NumLeaves(tree))]
         IN  /\ Sound(r) /\ DOMAIN r = DOMAIN tree /\ PanesOf(r) = PanesOf(tree)
             /\ Once(tree) => Once(r)
  <1>. DEFINE D == DOMAIN tree
              n == NumLeaves(tree)
              turn(i) == (i + by) % n
              I(p) == IndexOf(tree, p)
              r == [p \in D |-> PaneAt(tree, turn(I(p)))]
  <1>1. /\ Proper(D) /\ IsFiniteSet(D) /\ D \subseteq Paths /\ n \in Nat
        /\ n = 0 => D = {}
        /\ \A p \in D : tree[p] \in Panes
    BY TreeTypes DEF Sound
  <1>2. /\ \A p \in D : I(p) \in 0 .. n - 1
        /\ \A i \in 0 .. n - 1 : \E p \in D : I(p) = i
        /\ \A p, q \in D : I(p) = I(q) => p = q
    BY <1>1, LeafAtIndex
  <1>3. \A p \in D : PaneAt(tree, I(p)) = tree[p]
    BY <1>1, <1>2, PaneAtIndex
  <1>4. \A i \in 0 .. n - 1 : /\ turn(i) \in 0 .. n - 1
                              /\ \A j \in 0 .. n - 1 : turn(i) = turn(j) => i = j
                              /\ \E j \in 0 .. n - 1 : turn(j) = i
    <2>1. SUFFICES ASSUME NEW i \in 0 .. n - 1
                   PROVE  /\ turn(i) \in 0 .. n - 1
                          /\ \A j \in 0 .. n - 1 : turn(i) = turn(j) => i = j
                          /\ \E j \in 0 .. n - 1 : turn(j) = i
      OBVIOUS
    <2>2. n \in Nat \ {0}
      BY <1>1
    <2>. HIDE DEF n
    <2>3. CASE by = 1
      <3>1. \A j \in 0 .. n - 1 : turn(j) = IF j + 1 = n THEN 0 ELSE j + 1
        BY <2>2, <2>3, AroundTheCircle
      <3>. HIDE DEF turn
      <3>2. turn(IF i = 0 THEN n - 1 ELSE i - 1) = i
        BY <2>2, <3>1
      <3>3. turn(i) \in 0 .. n - 1 /\ \A j \in 0 .. n - 1 : turn(i) = turn(j) => i = j
        BY <2>2, <3>1
      <3>4. (IF i = 0 THEN n - 1 ELSE i - 1) \in 0 .. n - 1
        BY <2>2
      <3>. QED  BY <3>2, <3>3, <3>4
    <2>4. CASE by = -1
      <3>1. \A j \in 0 .. n - 1 : turn(j) = IF j = 0 THEN n - 1 ELSE j - 1
        BY <2>2, <2>4, AroundTheCircle
      <3>. HIDE DEF turn
      <3>2. turn(IF i + 1 = n THEN 0 ELSE i + 1) = i
        BY <2>2, <3>1
      <3>3. turn(i) \in 0 .. n - 1 /\ \A j \in 0 .. n - 1 : turn(i) = turn(j) => i = j
        BY <2>2, <3>1
      <3>4. (IF i + 1 = n THEN 0 ELSE i + 1) \in 0 .. n - 1
        BY <2>2
      <3>. QED  BY <3>2, <3>3, <3>4
    <2>. QED  BY <2>3, <2>4
  <1>. HIDE DEF n, turn, I
  <1>5. \A p \in D : \E q \in D : I(q) = turn(I(p)) /\ r[p] = tree[q]
    <2>. TAKE p \in D
    <2>1. PICK q \in D : I(q) = turn(I(p))
      BY <1>2, <1>4
    <2>. QED  BY <1>3, <2>1
  <1>6. \A q \in D : \E p \in D : r[p] = tree[q]
    <2>. TAKE q \in D
    <2>1. PICK i \in 0 .. n - 1 : turn(i) = I(q)
      BY <1>2, <1>4
    <2>2. PICK p \in D : I(p) = i
      BY <1>2
    <2>. QED  BY <1>3, <2>1, <2>2
  <1>7. ASSUME Once(tree) PROVE \A p, q \in D : r[p] = r[q] => p = q
    <2>0. \A p, q \in D : tree[p] = tree[q] => p = q
      BY <1>7 DEF Once
    <2>. TAKE p, q \in D
    <2>. HAVE r[p] = r[q]
    <2>1. turn(I(p)) = turn(I(q))
      BY <2>0, <1>5
    <2>. QED  BY <1>2, <1>4, <2>1
  <1>8. DOMAIN r = D /\ r = [p \in D |-> r[p]]
    OBVIOUS
  <1>9. \A p \in D : r[p] \in Panes
    BY <1>1, <1>5
  <1>. HIDE DEF r, D
  <1>10. Sound(r)
    BY <1>1, <1>8, <1>9, TreesAre DEF Sound
  <1>11. PanesOf(r) = PanesOf(tree)
    BY <1>5, <1>6, <1>8 DEF PanesOf, D
  <1>12. Once(tree) => Once(r)
    BY <1>7, <1>8 DEF Once
  <1>. QED  BY <1>8, <1>10, <1>11, <1>12 DEF r, D, n, turn, I

-----------------------------------------------------------------------------
(* The methods of TabInner.                                                *)

PaneOrNone == Panes \cup {NoPane}

TabType == [tree : Trees, active : Nat, zoomed : PaneOrNone]

(* A tab with a sound tree that shows one of its panes when it is zoomed.  *)
TabOK(t) ==
    /\ t \in TabType
    /\ Sound(t.tree)
    /\ t.zoomed # NoPane => t.zoomed \in PanesOf(t.tree)

(* The tab takes no pane in, and keeps an active one if it had one.        *)
Stable(t, u) ==
    /\ TabOK(u)
    /\ PanesOf(u.tree) \subseteq PanesOf(t.tree)
    /\ NumLeaves(u.tree) = NumLeaves(t.tree)
    /\ t.active < NumLeaves(t.tree) => u.active < NumLeaves(u.tree)

(* It also keeps its panes, each in as many places as before.              *)
Steady(t, u) ==
    /\ Stable(t, u)
    /\ PanesOf(u.tree) = PanesOf(t.tree)
    /\ Once(t.tree) => Once(u.tree)

(* The active pane is one of the tab's, if the index is that of a leaf.    *)
LEMMA ActiveLeafIs ==
  ASSUME NoPaneAssumption, NEW t, TabOK(t)
  PROVE  /\ NumLeaves(t.tree) \in Nat
         /\ ActiveLeaf(t) \in PaneOrNone
         /\ ActiveLeaf(t) # NoPane <=> t.active < NumLeaves(t.tree)
         /\ ActiveLeaf(t) # NoPane => ActiveLeaf(t) \in PanesOf(t.tree)
  <1>1. t.active \in Nat /\ Sound(t.tree)
    BY DEF TabOK, TabType
  <1>2. PanesOf(t.tree) \subseteq Panes /\ NumLeaves(t.tree) \in Nat
    BY <1>1, TreeTypes
  <1>3. /\ t.active < NumLeaves(t.tree) => ActiveLeaf(t) \in PanesOf(t.tree)
        /\ ~ (t.active < NumLeaves(t.tree)) => ActiveLeaf(t) = NoPane
    BY <1>1, PaneAtIndex DEF ActiveLeaf
  <1>. QED  BY <1>2, <1>3 DEF NoPaneAssumption, PaneOrNone

LEMMA ToggleZoomedKeeps ==
  ASSUME NoPaneAssumption, NEW t, TabOK(t)
  PROVE  /\ Steady(t, ToggleZoomed(t))
         /\ ToggleZoomed(t).tree = t.tree
         /\ ToggleZoomed(t).active = t.active
         /\ t.zoomed # NoPane => ToggleZoomed(t).zoomed = NoPane
  <1>. DEFINE u == ToggleZoomed(t)
  <1>1. /\ u \in TabType /\ u.tree = t.tree /\ u.active = t.active
        /\ u.zoomed = IF t.zoomed # NoPane THEN NoPane ELSE ActiveLeaf(t)
    BY ActiveLeafIs DEF ToggleZoomed, TabOK, TabType, PaneOrNone
  <1>2. u.zoomed # NoPane => u.zoomed \in PanesOf(t.tree)
    BY <1>1, ActiveLeafIs
  <1>. HIDE DEF u
  <1>3. Steady(t, u)
    BY <1>1, <1>2 DEF TabOK, Steady, Stable
  <1>. QED  BY <1>1, <1>3 DEF u

LEMMA SetZoomedKeeps ==
  ASSUME NoPaneAssumption, NEW t, TabOK(t), NEW zoomed \in BOOLEAN
  PROVE  /\ Steady(t, SetZoomed(t, zoomed))
         /\ SetZoomed(t, zoomed).tree = t.tree
         /\ SetZoomed(t, zoomed).active = t.active
         /\ ~ zoomed => SetZoomed(t, zoomed).zoomed = NoPane
  <1>1. CASE (t.zoomed # NoPane) = zoomed
    <2>1. SetZoomed(t, zoomed) = t
      BY <1>1 DEF SetZoomed
    <2>2. ~ zoomed => t.zoomed = NoPane
      BY <1>1
    <2>. QED  BY <2>1, <2>2 DEF Steady, Stable
  <1>2. CASE (t.zoomed # NoPane) # zoomed
    <2>1. SetZoomed(t, zoomed) = ToggleZoomed(t)
      BY <1>2 DEF SetZoomed
    <2>2. ~ zoomed => t.zoomed # NoPane
      BY <1>2
    <2>. QED  BY <2>1, <2>2, ToggleZoomedKeeps
  <1>. QED  BY <1>1, <1>2

LEMMA SetActiveIdxKeeps ==
  ASSUME NEW t, TabOK(t), NEW index \in Nat, index < NumLeaves(t.tree)
  PROVE  Steady(t, SetActiveIdx(t, index))
  <1>1. /\ SetActiveIdx(t, index) \in TabType
        /\ SetActiveIdx(t, index).tree = t.tree
        /\ SetActiveIdx(t, index).zoomed = t.zoomed
        /\ SetActiveIdx(t, index).active = index
    BY DEF SetActiveIdx, TabOK, TabType
  <1>. QED  BY <1>1 DEF TabOK, Steady, Stable

LEMMA SetActivePaneKeeps ==
  ASSUME NoPaneAssumption, NEW t, TabOK(t), NEW pane, NEW unzoom
  PROVE  Steady(t, SetActivePane(t, pane, unzoom))
  <1>. DEFINE u == SetZoomed(t, FALSE)
              i == IndexOfPane(t.tree, pane)
  <1>1. Steady(t, u) /\ TabOK(u) /\ u.tree = t.tree
    BY SetZoomedKeeps DEF Steady, Stable
  <1>2. Steady(t, t)
    BY DEF Steady, Stable
  <1>3. ASSUME pane \in PanesOf(t.tree)
        PROVE  i \in Nat /\ i < NumLeaves(t.tree)
    <2>1. Sound(t.tree)
      BY DEF TabOK
    <2>2. PathOf(t.tree, pane) \in DOMAIN t.tree /\ i = IndexOf(t.tree, PathOf(t.tree, pane))
      BY <1>3, <2>1, PathOfPane DEF IndexOfPane
    <2>. HIDE DEF i
    <2>3. i \in 0 .. NumLeaves(t.tree) - 1 /\ NumLeaves(t.tree) \in Nat
      BY <2>1, <2>2, LeafAtIndex DEF Sound
    <2>. QED  BY <2>3
  <1>. HIDE DEF u, i
  <1>4. ASSUME pane \in PanesOf(t.tree) PROVE Steady(t, SetActiveIdx(u, i))
    <2>1. Steady(u, SetActiveIdx(u, i))
      BY <1>1, <1>3, <1>4, SetActiveIdxKeeps
    <2>2. SetActiveIdx(u, i).tree = t.tree /\ SetActiveIdx(u, i).active = i
      BY <1>1 DEF SetActiveIdx, TabOK, TabType
    <2>. QED  BY <1>1, <1>3, <1>4, <2>1, <2>2 DEF Steady, Stable
  <1>. QED  BY <1>1, <1>2, <1>4 DEF SetActivePane, u, i

(* A swap puts the pane that has the focus in the place of the one with    *)
(* the index.  In a tab zoomed elsewhere that is not the pane whose place  *)
(* the other one takes.                                                    *)
LEMMA SwapActiveKeeps ==
  ASSUME NoPaneAssumption, NEW t, TabOK(t), NEW index \in Nat, NEW keepFocus \in BOOLEAN
  PROVE  LET u == SwapActiveWithIndex(t, index, keepFocus)
         IN  /\ Stable(t, u)
             /\ ~ ZoomedElsewhere(t) => Steady(t, u)
  <1>. DEFINE u == SwapActiveWithIndex(t, index, keepFocus)
              n == NumLeaves(t.tree)
              pane == GetActivePane(t)
              there == Leaf(t.tree, index)
              here == Leaf(t.tree, t.active)
              placed == [t.tree EXCEPT ![there] = pane]
              crossed == [placed EXCEPT ![here] = t.tree[there]]
              s == Swapped(t.tree, there, here)
  <1>1. /\ t \in TabType /\ Sound(t.tree) /\ n \in Nat /\ t.active \in Nat
        /\ ActiveLeaf(t) # NoPane <=> t.active < n
        /\ ActiveLeaf(t) # NoPane => ActiveLeaf(t) \in PanesOf(t.tree)
        /\ t.zoomed # NoPane => t.zoomed \in PanesOf(t.tree)
    BY ActiveLeafIs DEF TabOK, TabType
  <1>2. CASE pane = NoPane \/ index >= n
    <2>1. u = t
      BY <1>2 DEF SwapActiveWithIndex
    <2>. QED  BY <2>1 DEF Steady, Stable
  <1>3. CASE pane # NoPane /\ ~ (index >= n)
    <2>1. pane \in PanesOf(t.tree)
      BY <1>1, <1>3 DEF GetActivePane
    <2>2. there \in DOMAIN t.tree
      <3>1. index \in 0 .. n - 1
        BY <1>1, <1>3
      <3>. QED  BY <1>1, <3>1, LeafAtIndex DEF Sound
    <2>3. u = IF t.active >= n THEN [t EXCEPT !.tree = placed]
              ELSE [t EXCEPT !.tree = crossed, !.active = IF keepFocus THEN index ELSE @]
      BY <1>3 DEF SwapActiveWithIndex
    <2>. HIDE DEF u, there, here, pane
    <2>4. /\ Sound(placed) /\ DOMAIN placed = DOMAIN t.tree
          /\ PanesOf(placed) \subseteq PanesOf(t.tree) /\ placed[there] = pane
      BY <1>1, <2>1, <2>2, PutKeeps
    <2>. HIDE DEF placed
    <2>5. CASE t.active >= n
      <3>1. u = [t EXCEPT !.tree = placed]
        BY <2>3, <2>5
      <3>2. u \in TabType /\ u.tree = placed /\ u.active = t.active /\ u.zoomed = t.zoomed
        BY <1>1, <2>4, <3>1 DEF TabType, Sound
      <3>3. t.zoomed = pane /\ ZoomedElsewhere(t)
        BY <1>1, <1>3, <2>5 DEF pane, GetActivePane, ZoomedElsewhere
      <3>4. pane \in PanesOf(placed)
        BY <2>2, <2>4 DEF PanesOf
      <3>5. NumLeaves(placed) = n
        BY <2>4 DEF NumLeaves
      <3>. QED  BY <1>1, <2>4, <2>5, <3>2, <3>3, <3>4, <3>5 DEF Stable, TabOK, u
    <2>6. CASE ~ (t.active >= n)
      <3>1. u = [t EXCEPT !.tree = crossed, !.active = IF keepFocus THEN index ELSE @]
        BY <2>3, <2>6
      <3>2. here \in DOMAIN t.tree
        <4>1. t.active \in 0 .. n - 1
          BY <1>1, <2>6
        <4>. QED  BY <1>1, <4>1, LeafAtIndex DEF Sound, here
      <3>3. t.tree[there] \in PanesOf(t.tree)
        BY <2>2 DEF PanesOf
      <3>4. /\ Sound(crossed) /\ DOMAIN crossed = DOMAIN t.tree
            /\ PanesOf(crossed) \subseteq PanesOf(t.tree)
            /\ crossed[here] = t.tree[there] /\ (here # there => crossed[there] = pane)
        <4>1. here \in DOMAIN placed /\ there \in DOMAIN placed /\ Sound(t.tree)
          BY <1>1, <2>2, <2>4, <3>2
        <4>2. /\ Sound(crossed) /\ DOMAIN crossed = DOMAIN placed
              /\ PanesOf(crossed) \subseteq PanesOf(t.tree)
              /\ crossed[here] = t.tree[there]
              /\ \A q \in DOMAIN placed : q # here => crossed[q] = placed[q]
          BY ONLY <2>4, <3>3, <4>1, PutKeeps
        <4>. QED  BY <2>4, <4>1, <4>2
      <3>5. t.zoomed # NoPane => t.zoomed \in PanesOf(crossed)
        <4>1. SUFFICES ASSUME t.zoomed # NoPane PROVE t.zoomed \in PanesOf(crossed)
          OBVIOUS
        <4>2. pane = t.zoomed
          BY <4>1 DEF pane, GetActivePane
        <4>3. CASE here # there
          BY <2>2, <3>4, <4>2, <4>3 DEF PanesOf
        <4>4. CASE here = there
          <5>1. crossed = t.tree
            BY <1>1, <2>2, <4>4, TreeTypes DEF placed
          <5>. QED  BY <1>1, <4>1, <5>1
        <4>. QED  BY <4>3, <4>4
      <3>6. ASSUME ~ ZoomedElsewhere(t)
            PROVE  PanesOf(crossed) = PanesOf(t.tree) /\ (Once(t.tree) => Once(crossed))
        <4>1. pane = ActiveLeaf(t)
          BY <3>6 DEF ZoomedElsewhere, pane, GetActivePane
        <4>2. ActiveLeaf(t) = t.tree[here]
          BY <1>1, <2>6 DEF ActiveLeaf, PaneAt, here
        <4>3. crossed = s
          BY <4>1, <4>2 DEF Swapped, placed
        <4>. HIDE DEF crossed, s
        <4>4. PanesOf(s) = PanesOf(t.tree) /\ (Once(t.tree) => Once(s))
          BY <1>1, <2>2, <3>2, SwapKeeps DEF s
        <4>. QED  BY <4>3, <4>4
      <3>. HIDE DEF crossed
      <3>7. /\ u \in TabType /\ u.tree = crossed /\ u.zoomed = t.zoomed
            /\ u.active = index \/ u.active = t.active
        BY <1>1, <3>1, <3>4 DEF TabType, Sound
      <3>8. NumLeaves(crossed) = n
        BY <3>4 DEF NumLeaves
      <3>9. Stable(t, u)
        BY <1>1, <1>3, <2>6, <3>4, <3>5, <3>7, <3>8 DEF Stable, TabOK
      <3>. QED  BY <3>6, <3>7, <3>9 DEF Steady, u
    <2>. QED  BY <2>5, <2>6
  <1>. QED  BY <1>2, <1>3

LEMMA RotateTabKeeps ==
  ASSUME NEW t, TabOK(t), NEW by \in {1, -1}
  PROVE  Steady(t, Rotate(t, by))
  <1>. DEFINE r == [p \in DOMAIN t.tree |->
                     PaneAt(t.tree, (IndexOf(t.tree, p) + by) % NumLeaves(t.tree))]
  <1>1. t \in TabType /\ Sound(t.tree)
    BY DEF TabOK
  <1>2. /\ Sound(r) /\ DOMAIN r = DOMAIN t.tree /\ PanesOf(r) = PanesOf(t.tree)
        /\ Once(t.tree) => Once(r)
    BY <1>1, RotateKeeps
  <1>3. Rotate(t, by) = [t EXCEPT !.tree = r]
    BY DEF Rotate
  <1>. HIDE DEF r
  <1>4. /\ Rotate(t, by) \in TabType /\ Rotate(t, by).tree = r
        /\ Rotate(t, by).zoomed = t.zoomed /\ Rotate(t, by).active = t.active
    BY <1>1, <1>2, <1>3 DEF TabType, Sound
  <1>5. NumLeaves(r) = NumLeaves(t.tree)
    BY <1>2 DEF NumLeaves
  <1>. QED  BY <1>2, <1>4, <1>5 DEF Steady, Stable, TabOK

(* u is t with one more pane, which is where a split was asked to put it.  *)
LandsBeside(t, u, target, pane, top, second) ==
    /\ TabOK(u) /\ u.zoomed = NoPane
    /\ PanesOf(u.tree) = PanesOf(t.tree) \cup {pane}
    /\ NumLeaves(u.tree) = NumLeaves(t.tree) + 1
    /\ pane \notin PanesOf(t.tree) =>
         /\ Once(t.tree) => Once(u.tree)
         /\ IndexOfPane(u.tree, pane) =
              IF top THEN IF second THEN NumLeaves(t.tree) ELSE 0
              ELSE IndexOfPane(t.tree, target) + (IF second THEN 1 ELSE 0)
    /\ second => ActiveLeaf(u) = pane
    /\ t.active < NumLeaves(t.tree) => u.active < NumLeaves(u.tree)

LEMMA SplitAndInsertKeeps ==
  ASSUME NoPaneAssumption, NEW t, TabOK(t), t.zoomed = NoPane,
         NEW target \in PanesOf(t.tree), NEW pane \in Panes,
         NEW top \in BOOLEAN, NEW second \in BOOLEAN
  PROVE  LandsBeside(t, SplitAndInsert(t, IndexOfPane(t.tree, target), pane, top, second),
                     target, pane, top, second)
  <1>. DEFINE n == NumLeaves(t.tree)
              i == IndexOfPane(t.tree, target)
              u == SplitAndInsert(t, i, pane, top, second)
  <1>1. t \in TabType /\ Sound(t.tree) /\ n \in Nat /\ t.active \in Nat
    BY TreeTypes DEF TabOK, TabType
  <1>2. /\ PathOf(t.tree, target) \in DOMAIN t.tree
        /\ i = IndexOf(t.tree, PathOf(t.tree, target))
    BY <1>1, PathOfPane DEF IndexOfPane
  <1>3. i \in 0 .. n - 1 /\ Leaf(t.tree, i) = PathOf(t.tree, target)
    BY <1>1, <1>2, LeafAtIndex DEF Sound
  <1>4. CASE top /\ n > 1
    <2>. DEFINE s == SplitRoot(t.tree, pane, second)
                new == <<IF second THEN 1 ELSE 0>>
                at == IF second THEN n ELSE 0
    <2>1. /\ Sound(s) /\ PanesOf(s) = PanesOf(t.tree) \cup {pane} /\ NumLeaves(s) = n + 1
          /\ pane \notin PanesOf(t.tree) => StandsOnce(s, pane) /\ (Once(t.tree) => Once(s))
          /\ new \in DOMAIN s /\ s[new] = pane /\ IndexOf(s, new) = at
      BY <1>1, <1>2, SplitRootKeeps
    <2>2. u = [t EXCEPT !.tree = s, !.active = at]
      BY <1>4 DEF SplitAndInsert
    <2>. HIDE DEF s, new, u
    <2>3. at \in Nat /\ at < n + 1
      BY <1>1
    <2>4. /\ u \in TabType /\ u.tree = s /\ u.active = at /\ u.zoomed = NoPane
      BY <1>1, <2>1, <2>2, <2>3 DEF TabType, Sound
    <2>5. /\ pane \notin PanesOf(t.tree) => IndexOfPane(s, pane) = at
          /\ PaneAt(s, at) = pane
      BY <2>1, <2>3, PathOfPane, PaneAtIndex
    <2>. HIDE DEF at
    <2>6. ActiveLeaf(u) = pane
      BY <2>4, <2>5 DEF ActiveLeaf
    <2>7. TabOK(u)
      BY <2>1, <2>4 DEF TabOK
    <2>. QED  BY <1>4, <2>1, <2>3, <2>4, <2>5, <2>6, <2>7 DEF LandsBeside, u, at
  <1>5. CASE ~ (top /\ n > 1)
    <2>. DEFINE path == Leaf(t.tree, i)
                first == IF second THEN t.tree[path] ELSE pane
                other == IF second THEN pane ELSE t.tree[path]
                s == SplitLeaf(t.tree, path, first, other)
                at == i + (IF second THEN 1 ELSE 0)
                active == IF second THEN i + 1 ELSE t.active
    <2>0. path \in DOMAIN t.tree /\ IndexOf(t.tree, path) = i
      BY <1>1, <1>2, <1>3
    <2>1. /\ Sound(s) /\ PanesOf(s) = PanesOf(t.tree) \cup {pane} /\ NumLeaves(s) = n + 1
          /\ pane \notin PanesOf(t.tree) => StandsOnce(s, pane) /\ (Once(t.tree) => Once(s))
          /\ path \o <<0>> \in DOMAIN s /\ s[path \o <<0>>] = first
          /\ path \o <<1>> \in DOMAIN s /\ s[path \o <<1>>] = other
          /\ IndexOf(s, path \o <<0>>) = i
          /\ IndexOf(s, path \o <<1>>) = i + 1
      <3>1. \/ first = t.tree[path] /\ other = pane
            \/ first = pane /\ other = t.tree[path]
        OBVIOUS
      <3>. HIDE DEF first, other, path
      <3>. QED  BY <1>1, <2>0, <3>1, SplitLeafKeeps
    <2>2. u = [t EXCEPT !.tree = s, !.active = active]
      BY <1>5 DEF SplitAndInsert
    <2>. HIDE DEF s, path, u
    <2>3. active \in Nat /\ at \in Nat /\ (t.active < n => active < n + 1)
      BY <1>1, <1>3
    <2>4. /\ u \in TabType /\ u.tree = s /\ u.active = active /\ u.zoomed = NoPane
      BY <1>1, <2>1, <2>2, <2>3 DEF TabType, Sound
    <2>5. \E p \in DOMAIN s : s[p] = pane /\ IndexOf(s, p) = at
      <3>1. CASE second
        BY <2>1, <3>1
      <3>2. CASE ~ second
        BY <1>3, <2>1, <3>2
      <3>. QED  BY <3>1, <3>2
    <2>6. /\ pane \notin PanesOf(t.tree) => IndexOfPane(s, pane) = at
          /\ PaneAt(s, at) = pane
      BY <2>1, <2>3, <2>5, PathOfPane, PaneAtIndex
    <2>7. second => ActiveLeaf(u) = pane
      BY <2>4, <2>6 DEF ActiveLeaf
    <2>8. TabOK(u)
      BY <2>1, <2>4 DEF TabOK
    <2>9. top => at = IF second THEN n ELSE 0
      BY <1>1, <1>3, <1>5
    <2>. HIDE DEF at, active
    <2>. QED  BY <1>5, <2>1, <2>3, <2>4, <2>6, <2>7, <2>8, <2>9 DEF LandsBeside, u, at
  <1>. QED  BY <1>4, <1>5

(* The removal of a leaf removes its pane, if that stands nowhere else, and*)
(* nothing stays zoomed that was removed.                                  *)
LEMMA RemoveLeafKeeps ==
  ASSUME NEW t, TabOK(t), NEW path \in DOMAIN t.tree
  PROVE  LET u == RemoveLeaf(t, path)
         IN  /\ TabOK(u)
             /\ u.active = t.active
             /\ PanesOf(u.tree) \cup {t.tree[path]} = PanesOf(t.tree)
             /\ Once(t.tree) => Once(u.tree) /\ t.tree[path] \notin PanesOf(u.tree)
             /\ NumLeaves(u.tree) = NumLeaves(t.tree) - 1
             /\ path = << >> => u.tree = EmptyTree
             /\ path # << >> => u.tree = Unsplit(t.tree, path)
  <1>. DEFINE D == DOMAIN t.tree
              s == IF path = << >> THEN EmptyTree ELSE Unsplit(t.tree, path)
              u == RemoveLeaf(t, path)
  <1>1. t \in TabType /\ Sound(t.tree)
    BY DEF TabOK
  <1>2. /\ Sound(s) /\ PanesOf(s) \cup {t.tree[path]} = PanesOf(t.tree)
        /\ Once(t.tree) => Once(s) /\ t.tree[path] \notin PanesOf(s)
        /\ NumLeaves(s) = NumLeaves(t.tree) - 1
    <2>1. CASE path = << >>
      <3>1. D = {<< >>}
        BY <1>1, <2>1, TreeTypes, PrefixOrder DEF Sound, Proper
      <3>2. DOMAIN EmptyTree = {} /\ EmptyTree = [p \in {} |-> p]
        BY DEF EmptyTree
      <3>3. EmptyTree \in Trees
        BY <3>2 DEF Trees
      <3>4. IsFiniteSet({}) /\ Cardinality({}) = 0 /\ Cardinality(D) = 1
        BY <3>1, FS_EmptySet, FS_Singleton
      <3>5. Sound(EmptyTree)
        BY <3>2, <3>3, <3>4 DEF Sound, Proper
      <3>6. NumLeaves(EmptyTree) = NumLeaves(t.tree) - 1
        BY <3>2, <3>4 DEF NumLeaves
      <3>7. /\ PanesOf(EmptyTree) = {} /\ PanesOf(t.tree) = {t.tree[path]}
            /\ Once(EmptyTree)
        BY <2>1, <3>1, <3>2 DEF PanesOf, Once
      <3>. QED  BY <2>1, <3>5, <3>6, <3>7
    <2>2. CASE path # << >>
      BY <1>1, <2>2, UnsplitKeeps
    <2>. QED  BY <2>1, <2>2
  <1>3. u = [t EXCEPT !.tree = s, !.zoomed = IF @ = t.tree[path] THEN NoPane ELSE @]
    BY DEF RemoveLeaf
  <1>4. path = << >> => s = EmptyTree
    OBVIOUS
  <1>5. path # << >> => s = Unsplit(t.tree, path)
    OBVIOUS
  <1>. HIDE DEF s, u
  <1>6. /\ u \in TabType /\ u.tree = s /\ u.active = t.active
        /\ u.zoomed = IF t.zoomed = t.tree[path] THEN NoPane ELSE t.zoomed
    BY <1>1, <1>2, <1>3 DEF TabType, Sound, PaneOrNone
  <1>7. u.zoomed # NoPane => u.zoomed \in PanesOf(s)
    BY <1>2, <1>6 DEF TabOK
  <1>8. TabOK(u)
    BY <1>2, <1>6, <1>7 DEF TabOK
  <1>. QED  BY <1>2, <1>4, <1>5, <1>6, <1>8 DEF u

(* One removed index shifts the active index if it is not above it.        *)
LEMMA ShiftByOne ==
  ASSUME NEW active \in Nat, NEW k \in Nat
  PROVE  /\ ShiftActive(active, {}) = active
         /\ ShiftActive(active, {k}) = IF k <= active /\ active > 0 THEN active - 1 ELSE active
         /\ ShiftActive(active, {k}) \in Nat
  <1>1. {i \in {} : i <= active} = {} /\ Cardinality({}) = 0
    BY FS_EmptySet
  <1>2. ShiftActive(active, {}) = active
    BY <1>1 DEF ShiftActive
  <1>3. CASE k <= active
    <2>1. {i \in {k} : i <= active} = {k} /\ Cardinality({k}) = 1
      BY <1>3, FS_Singleton
    <2>. QED  BY <1>2, <1>3, <2>1 DEF ShiftActive
  <1>4. CASE ~ (k <= active)
    <2>1. {i \in {k} : i <= active} = {}
      BY <1>4
    <2>. QED  BY <1>1, <1>2, <1>4, <2>1 DEF ShiftActive
  <1>. QED  BY <1>3, <1>4

(* With the shift the pane that was active stays so, if it is still there. *)
LEMMA RemoveLeafShifts ==
  ASSUME NoPaneAssumption, NEW t, TabOK(t), Once(t.tree), NEW path \in DOMAIN t.tree
  PROVE  LET u == RemoveLeaf(t, path)
             a == ShiftActive(t.active, {IndexOf(t.tree, path)})
         IN  /\ ActiveLeaf(t) # NoPane /\ NumLeaves(u.tree) > 0 => a < NumLeaves(u.tree)
             /\ ActiveLeaf(t) \in PanesOf(u.tree) => PaneAt(u.tree, a) = ActiveLeaf(t)
  <1>. DEFINE u == RemoveLeaf(t, path)
              k == IndexOf(t.tree, path)
              a == ShiftActive(t.active, {k})
              n == NumLeaves(t.tree)
  <1>1. /\ t.active \in Nat /\ Sound(t.tree) /\ n \in Nat /\ k \in 0 .. n - 1
        /\ ActiveLeaf(t) # NoPane <=> t.active < n
    BY ActiveLeafIs, LeafAtIndex DEF TabOK, TabType, Sound
  <1>2. /\ NumLeaves(u.tree) = n - 1 /\ Sound(u.tree)
        /\ PanesOf(u.tree) \cup {t.tree[path]} = PanesOf(t.tree)
        /\ t.tree[path] \notin PanesOf(u.tree)
        /\ path = << >> => u.tree = EmptyTree
        /\ path # << >> => u.tree = Unsplit(t.tree, path)
    BY RemoveLeafKeeps DEF TabOK
  <1>. HIDE DEF u, k, n
  <1>3. a = IF k <= t.active /\ t.active > 0 THEN t.active - 1 ELSE t.active
    BY <1>1, ShiftByOne
  <1>. HIDE DEF a
  <1>4. ActiveLeaf(t) # NoPane /\ NumLeaves(u.tree) > 0 => a < NumLeaves(u.tree)
    BY <1>1, <1>2, <1>3
  <1>5. ASSUME ActiveLeaf(t) \in PanesOf(u.tree) PROVE PaneAt(u.tree, a) = ActiveLeaf(t)
    <2>1. path # << >>
      BY <1>2, <1>5 DEF EmptyTree, PanesOf
    <2>2. ActiveLeaf(t) \in PanesOf(t.tree) /\ ActiveLeaf(t) # t.tree[path]
      BY <1>2, <1>5
    <2>3. ActiveLeaf(t) # NoPane
      BY <1>1, <2>2, TreeTypes DEF NoPaneAssumption
    <2>4. PICK p \in DOMAIN t.tree : IndexOf(t.tree, p) = t.active /\ ActiveLeaf(t) = t.tree[p]
      BY <1>1, <2>3, PaneAtIndex DEF ActiveLeaf, n
    <2>5. p # path
      BY <2>2, <2>4
    <2>6. Before(path, p) <=> k < t.active
      BY <1>1, <2>4, LeafAtIndex DEF Sound, k
    <2>7. k # t.active
      BY <1>1, <2>4, <2>5, LeafAtIndex DEF Sound, k
    <2>8. /\ Raise(path, p) \in DOMAIN u.tree
          /\ u.tree[Raise(path, p)] = ActiveLeaf(t)
          /\ IndexOf(u.tree, Raise(path, p)) = IF Before(path, p) THEN t.active - 1 ELSE t.active
      BY <1>1, <1>2, <2>1, <2>4, <2>5, UnsplitKeeps
    <2>9. IndexOf(u.tree, Raise(path, p)) = a /\ a \in Nat
      BY <1>1, <1>3, <2>6, <2>7, <2>8
    <2>. QED  BY <1>2, <2>8, <2>9, PaneAtIndex
  <1>. QED  BY <1>4, <1>5 DEF u, a, k

(* Any set of removed indices leaves a natural number.                     *)
LEMMA ShiftIsNatural ==
  ASSUME NEW active \in Nat, NEW removed \in SUBSET Nat
  PROVE  ShiftActive(active, removed) \in Nat
  <1>1. IsFiniteSet(0 .. active)
    BY FS_Interval
  <1>2. {i \in removed : i <= active} \subseteq 0 .. active
    <2>1. \A i \in removed : i <= active => i \in 0 .. active
      BY DEF ShiftActive
    <2>. QED  BY <2>1
  <1>3. Cardinality({i \in removed : i <= active}) \in Nat
    BY <1>1, <1>2, FS_Subset, FS_CardinalityType
  <1>. QED  BY <1>3 DEF ShiftActive

-----------------------------------------------------------------------------
(* The inductive invariant.                                                *)

SplitType == [target : PaneOrNone, top : BOOLEAN, second : BOOLEAN, moved : PaneOrNone]

WalkType ==
    [targets : SUBSET Panes, cursor : Paths \cup {AtEnd}, index : Nat,
     removed : SUBSET Nat, was : PaneOrNone]

TreeTypesOK ==
    /\ TabOK(tab)
    /\ unborn \subseteq Panes
    /\ PanesOf(tab.tree) \cap unborn = {}
    /\ split \in SplitType
    /\ walk \in WalkType
    /\ doubled \in BOOLEAN
    /\ ~ doubled => Once(tab.tree)

(* A pane that is moved within the tab is what the pass is looking for,    *)
(* and after the pass it is in the tab no longer, unless it stood twice.   *)
MovedPane ==
    split.moved # NoPane =>
        /\ split.moved \notin unborn
        /\ IF walk = NoWalk THEN ~ doubled => split.moved \notin PanesOf(tab.tree)
                            ELSE walk.targets = {split.moved}

(* Up to the removal the walk counts leaves in preorder and has found      *)
(* nothing, and the active pane is what it was.                            *)
NotYetRemoved ==
    /\ walk.index = IF walk.cursor = AtEnd THEN NumLeaves(tab.tree)
                                           ELSE IndexOf(tab.tree, walk.cursor)
    /\ \A p \in DOMAIN tab.tree :
         IndexOf(tab.tree, p) < walk.index => tab.tree[p] \notin walk.targets
    /\ ActiveLeaf(tab) = walk.was

(* After it the pane is gone, and the shift that is still to come finds    *)
(* the pane that was active.                                               *)
Removed ==
    LET active == ShiftActive(tab.active, walk.removed)
    IN  /\ PanesOf(tab.tree) \cap walk.targets = {}
        /\ walk.was # NoPane /\ NumLeaves(tab.tree) > 0 => active < NumLeaves(tab.tree)
        /\ walk.was \in PanesOf(tab.tree) => PaneAt(tab.tree, active) = walk.was

WalkSound ==
    walk # NoWalk =>
        /\ walk.targets # {}
        /\ walk.cursor \in DOMAIN tab.tree \cup {AtEnd}
        /\ FindsOne => IF walk.removed = {} THEN NotYetRemoved ELSE Removed

TreeIInv == TreeTypesOK /\ MovedPane /\ WalkSound

(* Neither zoom nor focus nor a rotation changes which panes a tab has, or *)
(* leaves it without the active one it had; nor does the start of a split. *)
(* A swap does in a tab zoomed elsewhere.                                  *)
Rearranged == Zoom \/ Focus \/ SwapPanes \/ RotatePanes

SwapsElsewhere == SwapPanes /\ ZoomedElsewhere(tab)

LEMMA SteadyTrans ==
  ASSUME NEW t, NEW u, NEW w, Steady(t, u), Steady(u, w)
  PROVE  Steady(t, w)
  BY DEF Steady, Stable

LEMMA VisibleIndicesAre ==
  ASSUME NoPaneAssumption, NEW t, TabOK(t), NEW index \in VisibleIndices(t)
  PROVE  index \in Nat /\ index < NumLeaves(t.tree)
  <1>1. Sound(t.tree)
    BY DEF TabOK
  <1>2. NumLeaves(t.tree) \in Nat /\ (NumLeaves(t.tree) = 0 <=> PanesOf(t.tree) = {})
    BY <1>1, TreeTypes
  <1>3. CASE t.zoomed # NoPane
    BY <1>2, <1>3 DEF VisibleIndices, TabOK
  <1>4. CASE t.zoomed = NoPane
    BY <1>2, <1>4 DEF VisibleIndices
  <1>. QED  BY <1>3, <1>4

LEMMA RearrangedKeeps ==
  ASSUME NoPaneAssumption, PanesAssumption, TabOK(tab), Rearranged, doubled \in BOOLEAN
  PROVE  /\ TabUnlocked
         /\ Stable(tab, tab')
         /\ ~ SwapsElsewhere => Steady(tab, tab')
         /\ UNCHANGED <<unborn, split, walk>>
         /\ doubled' \in BOOLEAN
         /\ ~ doubled' => ~ doubled /\ (Once(tab.tree) => Once(tab'.tree))
  <1>. DEFINE Kept == TabUnlocked /\ Steady(tab, tab') /\ UNCHANGED <<unborn, split, walk>>
  <1>1. ASSUME ToggleZoom PROVE Kept
    BY <1>1, ToggleZoomedKeeps DEF ToggleZoom
  <1>2. ASSUME SetZoom PROVE Kept
    BY <1>2, SetZoomedKeeps DEF SetZoom
  <1>3. ASSUME SetPaneZoomed PROVE Kept
    <2>1. PICK pane \in Panes \ unborn, zoomed \in BOOLEAN :
            tab' = IF zoomed THEN SetZoomed(SetActivePane(SetZoomed(tab, FALSE), pane, FALSE), TRUE)
                             ELSE SetZoomed(tab, FALSE)
      BY <1>3 DEF SetPaneZoomed
    <2>. DEFINE t == SetZoomed(tab, FALSE)
                u == SetActivePane(t, pane, FALSE)
    <2>2. Steady(tab, t) /\ TabOK(t)
      BY SetZoomedKeeps DEF Steady, Stable
    <2>. HIDE DEF t
    <2>3. Steady(t, u) /\ TabOK(u)
      BY <2>2, SetActivePaneKeeps DEF Steady, Stable
    <2>. HIDE DEF u
    <2>4. Steady(u, SetZoomed(u, TRUE))
      BY <2>3, SetZoomedKeeps
    <2>5. Steady(tab, SetZoomed(u, TRUE))
      BY <2>2, <2>3, <2>4, SteadyTrans
    <2>. QED  BY <1>3, <2>1, <2>2, <2>5 DEF SetPaneZoomed, t, u
  <1>4. ASSUME FocusPane PROVE Kept
    BY <1>4, SetActivePaneKeeps DEF FocusPane
  <1>5. ASSUME ActivatePaneByIndex PROVE Kept
    BY <1>5, VisibleIndicesAre, SetActiveIdxKeeps DEF ActivatePaneByIndex
  <1>6. ASSUME ActivatePaneDirection PROVE Kept
    <2>. DEFINE t == SetZoomed(tab, FALSE)
    <2>1. Steady(tab, t) /\ TabOK(t)
      BY SetZoomedKeeps DEF Steady, Stable
    <2>2. tab' \in IF ActiveLeaf(t) = NoPane THEN {SetActiveIdx(t, 0)}
                   ELSE {t} \cup {SetActiveIdx(t, i) : i \in VisibleIndices(t)}
      BY <1>6 DEF ActivatePaneDirection
    <2>. HIDE DEF t
    <2>3. ASSUME ActiveLeaf(t) = NoPane PROVE Steady(t, SetActiveIdx(t, 0))
      <3>1. /\ SetActiveIdx(t, 0) \in TabType
            /\ SetActiveIdx(t, 0).tree = t.tree
            /\ SetActiveIdx(t, 0).zoomed = t.zoomed
        BY <2>1 DEF SetActiveIdx, TabOK, TabType
      <3>2. ~ (t.active < NumLeaves(t.tree))
        BY <2>1, <2>3, ActiveLeafIs
      <3>. QED  BY <2>1, <3>1, <3>2 DEF Steady, Stable, TabOK
    <2>4. ASSUME NEW i \in VisibleIndices(t) PROVE Steady(t, SetActiveIdx(t, i))
      BY <2>1, VisibleIndicesAre, SetActiveIdxKeeps
    <2>5. Steady(t, tab') \/ tab' = t
      BY <2>2, <2>3, <2>4
    <2>. QED  BY <1>6, <2>1, <2>5, SteadyTrans DEF ActivatePaneDirection
  <1>7. CASE SwapPanes
    <2>1. PICK index \in 0 .. Cardinality(Panes) - 1, keepFocus \in BOOLEAN :
            tab' = SwapActiveWithIndex(tab, index, keepFocus)
      BY <1>7 DEF SwapPanes
    <2>2. Cardinality(Panes) \in Nat
      BY FS_CardinalityType DEF PanesAssumption
    <2>3. index \in Nat
      BY <2>2
    <2>4. Stable(tab, tab') /\ (~ ZoomedElsewhere(tab) => Steady(tab, tab'))
      BY <2>1, <2>3, SwapActiveKeeps
    <2>5. doubled' = (doubled \/ (ZoomedElsewhere(tab) /\ tab' # tab))
      BY <1>7 DEF SwapPanes
    <2>6. ~ doubled' => ~ doubled /\ (Once(tab.tree) => Once(tab'.tree))
      BY <2>4, <2>5 DEF Steady
    <2>7. doubled' \in BOOLEAN
      BY <2>5
    <2>. QED  BY <1>7, <2>4, <2>6, <2>7 DEF SwapPanes, SwapsElsewhere
  <1>8. ASSUME RotatePanes PROVE Kept
    BY <1>8, RotateTabKeeps DEF RotatePanes
  <1>9. CASE Zoom \/ Focus \/ RotatePanes
    <2>1. Kept
      <3>. HIDE DEF Kept
      <3>. QED  BY <1>1, <1>2, <1>3, <1>4, <1>5, <1>6, <1>8, <1>9 DEF Zoom, Focus
    <2>2. doubled' = doubled
      BY <1>9 DEF Zoom, Focus, ToggleZoom, SetZoom, SetPaneZoomed, FocusPane,
                  ActivatePaneByIndex, ActivatePaneDirection, RotatePanes
    <2>. QED  BY <2>1, <2>2 DEF Steady
  <1>. QED  BY <1>7, <1>9 DEF Rearranged

-----------------------------------------------------------------------------
(* A removal pass.                                                         *)

LEMMA EndIsNoLeaf == AtEnd \notin Paths
  <1>1. SUFFICES ASSUME AtEnd \in Paths PROVE FALSE
    OBVIOUS
  <1>2. Len(AtEnd) = 1 /\ AtEnd[1] = 2
    BY DEF AtEnd
  <1>3. AtEnd[1] = 0 \/ AtEnd[1] = 1
    BY <1>1, <1>2, PathTypes
  <1>. QED  BY <1>2, <1>3

(* The walk starts at the first leaf.                                      *)
LEMMA StartWalkIs ==
  ASSUME NoPaneAssumption, NEW t, TabOK(t),
         NEW targets \in SUBSET PanesOf(t.tree), targets # {}
  PROVE  LET w == StartWalk(t, targets)
         IN  /\ w \in WalkType /\ w # NoWalk
             /\ w.targets = targets /\ w.removed = {} /\ w.was = ActiveLeaf(t)
             /\ w.cursor \in DOMAIN t.tree /\ w.cursor # AtEnd
             /\ w.index = 0 /\ IndexOf(t.tree, w.cursor) = 0
             /\ \A p \in DOMAIN t.tree : ~ (IndexOf(t.tree, p) < 0)
  <1>. DEFINE first == FirstUnder(t.tree, << >>)
              w == StartWalk(t, targets)
  <1>1. Sound(t.tree) /\ DOMAIN t.tree # {} /\ DOMAIN t.tree \subseteq Paths
        /\ PanesOf(t.tree) \subseteq Panes
    BY TreeTypes DEF TabOK
  <1>2. << >> \in Paths /\ Len(<< >>) = 0
    BY DEF Paths
  <1>3. \A p \in DOMAIN t.tree : IsPrefix(<< >>, p)
    BY <1>1, <1>2, PrefixAgrees, PathTypes DEF Agree
  <1>4. Under(t.tree, << >>) = DOMAIN t.tree
    BY <1>3 DEF Under
  <1>5. first \in DOMAIN t.tree /\ \A q \in DOMAIN t.tree : ~ Before(q, first)
    BY <1>1, <1>4, FirstLeafUnder DEF Sound
  <1>. HIDE DEF first
  <1>6. IndexOf(t.tree, first) = 0
    <2>1. {q \in DOMAIN t.tree : Before(q, first)} = {}
      BY <1>5
    <2>. QED  BY <2>1, FS_EmptySet DEF IndexOf
  <1>7. first \in Paths /\ first # AtEnd
    BY <1>1, <1>5, EndIsNoLeaf
  <1>8. ActiveLeaf(t) \in PaneOrNone
    BY ActiveLeafIs
  <1>9. w = [targets |-> targets, cursor |-> first, index |-> 0, removed |-> {},
             was |-> ActiveLeaf(t)]
    BY DEF StartWalk, first
  <1>. HIDE DEF w
  <1>10. w \in WalkType
    BY <1>1, <1>7, <1>8, <1>9 DEF WalkType
  <1>11. w # NoWalk
    BY <1>9 DEF NoWalk
  <1>12. \A p \in DOMAIN t.tree : ~ (IndexOf(t.tree, p) < 0)
    BY <1>1, LeafAtIndex DEF Sound
  <1>. QED  BY <1>5, <1>6, <1>7, <1>9, <1>10, <1>11, <1>12 DEF w

(* It goes on to the leaf with the next index.                             *)
LEMMA NextLeafIs ==
  ASSUME NEW tree, Sound(tree), NEW path \in DOMAIN tree
  PROVE  LET next == NextLeaf(tree, path)
         IN  /\ next \in DOMAIN tree \cup {AtEnd}
             /\ next \in Paths \cup {AtEnd}
             /\ IndexOf(tree, path) \in Nat
             /\ IndexOf(tree, path) + 1 = IF next = AtEnd THEN NumLeaves(tree)
                                                          ELSE IndexOf(tree, next)
  <1>. DEFINE n == NumLeaves(tree)
              i == IndexOf(tree, path)
              next == NextLeaf(tree, path)
  <1>1. n \in Nat /\ i \in 0 .. n - 1 /\ DOMAIN tree \subseteq Paths
    BY LeafAtIndex DEF Sound, Proper
  <1>2. CASE i + 1 < n
    <2>1. next = Leaf(tree, i + 1) /\ i + 1 \in 0 .. n - 1
      BY <1>1, <1>2 DEF NextLeaf
    <2>. HIDE DEF i, n, next
    <2>2. next \in DOMAIN tree /\ IndexOf(tree, next) = i + 1
      BY <2>1, LeafAtIndex DEF Sound, n
    <2>. QED  BY <1>1, <2>2, EndIsNoLeaf DEF i, n, next
  <1>3. CASE ~ (i + 1 < n)
    <2>1. next = AtEnd /\ i + 1 = n
      BY <1>1, <1>3 DEF NextLeaf
    <2>. QED  BY <1>1, <2>1
  <1>. QED  BY <1>2, <1>3

(* After a removal the walk is at a leaf of the tree that is left, or done.*)
LEMMA CursorAfterRemovalIs ==
  ASSUME NEW t, TabOK(t), NEW path \in DOMAIN t.tree
  PROVE  LET u == RemoveLeaf(t, path)
         IN  CursorAfterRemoval(u.tree, path) \in DOMAIN u.tree \cup {AtEnd}
  <1>. DEFINE u == RemoveLeaf(t, path)
              parent == Front(path)
  <1>1. /\ Sound(t.tree) /\ Sound(u.tree)
        /\ path = << >> => u.tree = EmptyTree
        /\ path # << >> => u.tree = Unsplit(t.tree, path)
    BY RemoveLeafKeeps DEF TabOK
  <1>. HIDE DEF u
  <1>2. ASSUME path = << >>
        PROVE  CursorAfterRemoval(u.tree, path) \in DOMAIN u.tree \cup {AtEnd}
    <2>1. parent \notin DOMAIN u.tree
      BY <1>1, <1>2 DEF EmptyTree
    <2>2. CursorAfterRemoval(u.tree, path) = AtEnd
      BY <1>2, <2>1 DEF CursorAfterRemoval
    <2>. QED  BY <2>2
  <1>3. ASSUME path # << >>, parent \in DOMAIN u.tree
        PROVE  CursorAfterRemoval(u.tree, path) \in DOMAIN u.tree \cup {AtEnd}
    <2>1. CursorAfterRemoval(u.tree, path) = NextLeaf(u.tree, parent)
      BY <1>3 DEF CursorAfterRemoval
    <2>. QED  BY <1>1, <1>3, <2>1, NextLeafIs
  <1>4. ASSUME path # << >>, parent \notin DOMAIN u.tree
        PROVE  CursorAfterRemoval(u.tree, path) \in DOMAIN u.tree \cup {AtEnd}
    <2>1. Proper(DOMAIN t.tree) /\ Proper(DOMAIN u.tree) /\ IsFiniteSet(DOMAIN u.tree)
      BY <1>1 DEF Sound
    <2>2. path \in Paths
      BY <2>1 DEF Proper
    <2>3. Len(path) \in 1 .. Len(path) /\ \A q \in Paths : IsPrefix(Sibling(path), q) <=> Forks(path, q, Len(path))
      BY <1>4, <2>2, ParentAndSibling
    <2>4. PICK p \in DOMAIN t.tree : Forks(path, p, Len(path))
      BY <2>1, <2>3 DEF Proper
    <2>5. p \in Paths /\ IsPrefix(Sibling(path), p)
      BY <2>1, <2>3, <2>4 DEF Proper
    <2>6. p # path
      BY <1>4, <2>1, <2>5, UnderParent
    <2>7. IsPrefix(parent, Raise(path, p))
      BY <1>4, <2>1, <2>5, RaisedPath
    <2>8. Raise(path, p) \in DOMAIN u.tree
      BY <1>1, <1>4, <2>6, UnsplitKeeps
    <2>9. Raise(path, p) \in Under(u.tree, parent)
      BY <2>7, <2>8 DEF Under
    <2>10. FirstUnder(u.tree, parent) \in DOMAIN u.tree
      BY <2>1, <2>9, FirstLeafUnder DEF Under
    <2>11. CursorAfterRemoval(u.tree, path) = FirstUnder(u.tree, parent)
      BY <1>4 DEF CursorAfterRemoval
    <2>. QED  BY <2>10, <2>11
  <1>. QED  BY <1>2, <1>3, <1>4 DEF u

(* A pass starts: kill_pane and its like, or a move within the tab.        *)
LEMMA PassBegins ==
  ASSUME NoPaneAssumption, TreeIInv, BeginRemoval \/ BeginMove
  PROVE  /\ TabUnlocked /\ walk' # NoWalk
         /\ Steady(tab, tab') /\ tab'.tree = tab.tree
         /\ TreeIInv'
  <1>1. TabUnlocked /\ TabOK(tab) /\ walk = NoWalk
    BY DEF BeginRemoval, BeginMove, TabUnlocked, TreeIInv, TreeTypesOK
  <1>2. Steady(tab, tab') /\ tab'.tree = tab.tree /\ unborn' = unborn /\ doubled' = doubled
    <2>1. CASE BeginRemoval
      BY <1>1, <2>1 DEF BeginRemoval, Steady, Stable
    <2>2. CASE BeginMove
      <3>1. tab' = tab \/ tab' = SetZoomed(tab, FALSE)
        BY <2>2 DEF BeginMove
      <3>2. unborn' = unborn /\ doubled' = doubled
        BY <2>2 DEF BeginMove
      <3>3. Steady(tab, tab)
        BY <1>1 DEF Steady, Stable
      <3>. QED  BY <1>1, <3>1, <3>2, <3>3, SetZoomedKeeps
    <2>. QED  BY <2>1, <2>2
  <1>3. PICK targets \in SUBSET PanesOf(tab.tree) :
          /\ targets # {} /\ walk' = StartWalk(tab', targets)
          /\ \/ split' = split
             \/ split' \in SplitType /\ targets = {split'.moved}
    <2>1. CASE BeginRemoval
      BY <2>1 DEF BeginRemoval
    <2>2. CASE BeginMove
      <3>1. PICK target, moved \in PanesOf(tab.tree), top, second \in BOOLEAN :
              /\ split' = [target |-> target, top |-> top, second |-> second, moved |-> moved]
              /\ walk' = StartWalk(tab', {moved})
        BY <2>2 DEF BeginMove
      <3>2. PanesOf(tab.tree) \subseteq Panes
        BY <1>1, TreeTypes DEF TabOK
      <3>3. split' \in SplitType /\ split'.moved = moved
        BY <3>1, <3>2 DEF SplitType, PaneOrNone
      <3>. QED  BY <3>1, <3>3
    <2>. QED  BY <2>1, <2>2
  <1>4. TabOK(tab') /\ targets \in SUBSET PanesOf(tab'.tree)
    BY <1>2, <1>3 DEF Steady, Stable
  <1>5. /\ walk' \in WalkType /\ walk' # NoWalk
        /\ walk'.targets = targets /\ walk'.removed = {} /\ walk'.was = ActiveLeaf(tab')
        /\ walk'.cursor \in DOMAIN tab'.tree /\ walk'.cursor # AtEnd
        /\ walk'.index = 0 /\ IndexOf(tab'.tree, walk'.cursor) = 0
        /\ \A p \in DOMAIN tab'.tree : ~ (IndexOf(tab'.tree, p) < 0)
    BY <1>3, <1>4, StartWalkIs
  <1>6. TreeTypesOK'
    BY <1>2, <1>3, <1>4, <1>5 DEF TreeIInv, TreeTypesOK
  <1>7. MovedPane'
    <2>1. split' = split => split'.moved = NoPane
      BY <1>1 DEF TabUnlocked
    <2>2. targets \cap unborn' = {}
      BY <1>2 DEF TreeIInv, TreeTypesOK
    <2>. QED  BY <1>3, <1>5, <2>1, <2>2 DEF MovedPane
  <1>8. WalkSound'
    <2>1. NotYetRemoved'
      BY <1>5 DEF NotYetRemoved
    <2>. QED  BY <1>3, <1>5, <2>1 DEF WalkSound
  <1>. QED  BY <1>1, <1>2, <1>5, <1>6, <1>7, <1>8 DEF TreeIInv

(* The walk passes a leaf that stays.                                      *)
LEMMA WalkPasses ==
  ASSUME NoPaneAssumption, TreeIInv, WalkPast
  PROVE  walk' # NoWalk /\ UNCHANGED <<tab, unborn, split, doubled>> /\ TreeIInv'
  <1>. DEFINE next == NextLeaf(tab.tree, walk.cursor)
  <1>1. TabOK(tab) /\ Sound(tab.tree) /\ walk \in WalkType
    BY DEF TreeIInv, TreeTypesOK, TabOK
  <1>2. /\ walk # NoWalk /\ walk.targets # {} /\ walk.cursor \in DOMAIN tab.tree
        /\ tab.tree[walk.cursor] \notin walk.targets
    BY DEF WalkPast, TreeIInv, WalkSound, NoWalk
  <1>3. /\ next \in DOMAIN tab.tree \cup {AtEnd} /\ next \in Paths \cup {AtEnd}
        /\ IndexOf(tab.tree, walk.cursor) \in Nat
        /\ IndexOf(tab.tree, walk.cursor) + 1 =
             IF next = AtEnd THEN NumLeaves(tab.tree) ELSE IndexOf(tab.tree, next)
    BY <1>1, <1>2, NextLeafIs
  <1>4. walk' = [walk EXCEPT !.cursor = next, !.index = walk.index + 1]
    BY DEF WalkPast
  <1>. HIDE DEF next
  <1>4a. walk' = [targets |-> walk.targets, cursor |-> next, index |-> walk.index + 1,
                 removed |-> walk.removed, was |-> walk.was]
    BY <1>1, <1>4 DEF WalkType
  <1>5. /\ walk' \in WalkType
        /\ walk'.targets = walk.targets /\ walk'.removed = walk.removed /\ walk'.was = walk.was
        /\ walk'.cursor = next /\ walk'.index = walk.index + 1
    BY <1>1, <1>3, <1>4a DEF WalkType
  <1>6. walk' # NoWalk
    BY <1>2, <1>5 DEF NoWalk
  <1>7. UNCHANGED <<tab, unborn, split, doubled>>
    BY DEF WalkPast
  <1>8. TreeTypesOK'
    BY <1>5, <1>7 DEF TreeIInv, TreeTypesOK
  <1>9. MovedPane'
    BY <1>2, <1>5, <1>6, <1>7 DEF TreeIInv, MovedPane
  <1>10. ASSUME NotYetRemoved PROVE NotYetRemoved'
    <2>1. walk.index = IndexOf(tab.tree, walk.cursor) /\ walk.cursor # AtEnd
      BY <1>10 DEF NotYetRemoved, WalkPast
    <2>2. walk'.index = IF next = AtEnd THEN NumLeaves(tab.tree) ELSE IndexOf(tab.tree, next)
      BY <1>3, <1>5, <2>1
    <2>3. ASSUME NEW p \in DOMAIN tab.tree, IndexOf(tab.tree, p) < walk'.index
          PROVE  tab.tree[p] \notin walk.targets
      <3>1. IndexOf(tab.tree, p) \in Nat
        BY <1>1, LeafAtIndex DEF Sound
      <3>2. CASE IndexOf(tab.tree, p) < walk.index
        BY <1>10, <3>2 DEF NotYetRemoved
      <3>3. CASE ~ (IndexOf(tab.tree, p) < walk.index)
        <4>1. IndexOf(tab.tree, p) = IndexOf(tab.tree, walk.cursor)
          BY <1>3, <1>5, <2>1, <2>3, <3>1, <3>3
        <4>2. p = walk.cursor
          BY <1>1, <1>2, <4>1, LeafAtIndex DEF Sound
        <4>. QED  BY <1>2, <4>2
      <3>. QED  BY <3>2, <3>3
    <2>. QED  BY <1>5, <1>7, <1>10, <2>2, <2>3 DEF NotYetRemoved
  <1>11. Removed => Removed'
    BY <1>5, <1>7 DEF Removed
  <1>12. WalkSound'
    <2>1. /\ walk'.targets # {} /\ walk'.cursor \in DOMAIN tab'.tree \cup {AtEnd}
          /\ FindsOne' => FindsOne
      BY <1>2, <1>3, <1>5, <1>7 DEF FindsOne
    <2>2. FindsOne => IF walk.removed = {} THEN NotYetRemoved ELSE Removed
      BY <1>2 DEF TreeIInv, WalkSound
    <2>. QED  BY <1>5, <1>10, <1>11, <2>1, <2>2 DEF WalkSound
  <1>. QED  BY <1>6, <1>7, <1>8, <1>9, <1>12 DEF TreeIInv

(* A pass that finds one pane looks for that one.                          *)
LEMMA OneTarget ==
  ASSUME PanesAssumption, walk \in WalkType, FindsOne, NEW pane \in walk.targets
  PROVE  walk.targets = {pane}
  <1>1. IsFiniteSet(walk.targets)
    BY FS_Subset DEF PanesAssumption, WalkType
  <1>2. IsFiniteSet(walk.targets \ {pane}) /\ Cardinality(walk.targets \ {pane}) = 0
    BY <1>1, FS_RemoveElement DEF FindsOne
  <1>3. walk.targets \ {pane} = {}
    BY <1>2, FS_EmptySet
  <1>. QED  BY <1>3

(* The walk removes a leaf.                                                *)
LEMMA WalkRemoves ==
  ASSUME NoPaneAssumption, PanesAssumption, TreeIInv, WalkRemove
  PROVE  /\ walk # NoWalk /\ walk' # NoWalk /\ UNCHANGED <<unborn, split, doubled>>
         /\ PanesOf(tab.tree) \ PanesOf(tab'.tree) \subseteq walk.targets
         /\ PanesOf(tab'.tree) \subseteq PanesOf(tab.tree)
         /\ TreeIInv'
  <1>. DEFINE path == walk.cursor
              next == CursorAfterRemoval(tab'.tree, path)
  <1>1. TabOK(tab) /\ Sound(tab.tree) /\ walk \in WalkType
    BY DEF TreeIInv, TreeTypesOK, TabOK
  <1>2. /\ walk # NoWalk /\ walk.targets # {} /\ path \in DOMAIN tab.tree
        /\ tab.tree[path] \in walk.targets /\ path # AtEnd
    BY DEF WalkRemove, TreeIInv, WalkSound, NoWalk
  <1>3. tab' = RemoveLeaf(tab, path)
    BY DEF WalkRemove
  <1>4. /\ TabOK(tab') /\ tab'.active = tab.active
        /\ PanesOf(tab'.tree) \cup {tab.tree[path]} = PanesOf(tab.tree)
        /\ Once(tab.tree) => Once(tab'.tree) /\ tab.tree[path] \notin PanesOf(tab'.tree)
    BY <1>1, <1>2, <1>3, RemoveLeafKeeps
  <1>5. next \in DOMAIN tab'.tree \cup {AtEnd}
    BY <1>1, <1>2, <1>3, CursorAfterRemovalIs
  <1>6. next \in Paths \cup {AtEnd}
    BY <1>4, <1>5, TreeTypes DEF TabOK
  <1>7. walk' = [walk EXCEPT !.cursor = next, !.index = walk.index + 1,
                             !.removed = walk.removed \cup {walk.index}]
    BY DEF WalkRemove
  <1>8. UNCHANGED <<unborn, split, doubled>>
    BY DEF WalkRemove
  <1>. HIDE DEF next
  <1>8a. walk' = [targets |-> walk.targets, cursor |-> next, index |-> walk.index + 1,
                 removed |-> walk.removed \cup {walk.index}, was |-> walk.was]
    BY <1>1, <1>7 DEF WalkType
  <1>9. /\ walk' \in WalkType
        /\ walk'.targets = walk.targets /\ walk'.was = walk.was /\ walk'.cursor = next
        /\ walk'.removed = walk.removed \cup {walk.index}
    BY <1>1, <1>6, <1>8a DEF WalkType
  <1>10. walk' # NoWalk
    BY <1>2, <1>9 DEF NoWalk
  <1>11. TreeTypesOK'
    BY <1>4, <1>8, <1>9 DEF TreeIInv, TreeTypesOK
  <1>12. MovedPane'
    BY <1>2, <1>8, <1>9, <1>10 DEF TreeIInv, MovedPane
  <1>13. ASSUME FindsOne PROVE Removed'
    <2>0. Once(tab.tree)
      BY <1>13 DEF FindsOne, TreeIInv, TreeTypesOK
    <2>1. walk.targets = {tab.tree[path]}
      BY <1>1, <1>2, <1>13, OneTarget
    <2>2. tab.tree[path] \in PanesOf(tab.tree)
      BY <1>2 DEF PanesOf
    <2>3. walk.removed = {} /\ NotYetRemoved
      BY <1>2, <1>13, <2>1, <2>2 DEF TreeIInv, WalkSound, Removed
    <2>4. walk.index = IndexOf(tab.tree, path) /\ walk.was = ActiveLeaf(tab)
      BY <1>2, <2>3 DEF NotYetRemoved
    <2>5. walk'.removed = {IndexOf(tab.tree, path)}
      BY <1>9, <2>3, <2>4
    <2>. DEFINE a == ShiftActive(tab.active, {IndexOf(tab.tree, path)})
    <2>6. /\ ActiveLeaf(tab) # NoPane /\ NumLeaves(tab'.tree) > 0 => a < NumLeaves(tab'.tree)
          /\ ActiveLeaf(tab) \in PanesOf(tab'.tree) => PaneAt(tab'.tree, a) = ActiveLeaf(tab)
      BY <1>1, <1>2, <1>3, <2>0, RemoveLeafShifts
    <2>7. a = ShiftActive(tab'.active, walk'.removed)
      BY <1>4, <2>5
    <2>. HIDE DEF a
    <2>. QED  BY <1>4, <1>9, <2>0, <2>1, <2>4, <2>6, <2>7 DEF Removed
  <1>14. WalkSound'
    <2>1. FindsOne' => FindsOne
      BY <1>8, <1>9 DEF FindsOne
    <2>2. walk'.removed # {}
      BY <1>9
    <2>. QED  BY <1>2, <1>5, <1>9, <1>13, <2>1, <2>2 DEF WalkSound
  <1>. QED  BY <1>2, <1>4, <1>8, <1>10, <1>11, <1>12, <1>14 DEF TreeIInv

(* The pass ends with the shift.                                           *)
LEMMA WalkEnds ==
  ASSUME NoPaneAssumption, TreeIInv, WalkEnd
  PROVE  /\ walk # NoWalk /\ UNCHANGED <<unborn, split, doubled>>
         /\ tab'.tree = tab.tree
         /\ FindsOne => /\ PanesOf(tab'.tree) \cap walk.targets = {}
                        /\ walk.was # NoPane /\ NumLeaves(tab'.tree) > 0 => ActiveLeaf(tab') # NoPane
                        /\ walk.was \in PanesOf(tab'.tree) => ActiveLeaf(tab') = walk.was
         /\ TreeIInv'
  <1>. DEFINE a == ShiftActive(tab.active, walk.removed)
  <1>1. TabOK(tab) /\ Sound(tab.tree) /\ tab \in TabType /\ walk \in WalkType
    BY DEF TreeIInv, TreeTypesOK, TabOK
  <1>2. /\ walk # NoWalk /\ walk.cursor = AtEnd /\ walk' = NoWalk
        /\ UNCHANGED <<unborn, split, doubled>>
    BY DEF WalkEnd
  <1>3. a \in Nat
    BY <1>1, ShiftIsNatural DEF TabType, WalkType
  <1>4. tab' = [tab EXCEPT !.active = a]
    BY DEF WalkEnd
  <1>. HIDE DEF a
  <1>5. /\ tab' \in TabType /\ tab'.tree = tab.tree /\ tab'.zoomed = tab.zoomed
        /\ tab'.active = a
    BY <1>1, <1>3, <1>4 DEF TabType
  <1>6. TabOK(tab')
    BY <1>1, <1>5 DEF TabOK
  <1>7. ActiveLeaf(tab') = PaneAt(tab.tree, a)
    BY <1>5 DEF ActiveLeaf
  <1>8. ASSUME FindsOne
        PROVE  /\ PanesOf(tab.tree) \cap walk.targets = {}
               /\ walk.was # NoPane /\ NumLeaves(tab.tree) > 0 => ActiveLeaf(tab') # NoPane
               /\ walk.was \in PanesOf(tab.tree) => ActiveLeaf(tab') = walk.was
    <2>1. CASE walk.removed = {}
      <3>1. NotYetRemoved
        BY <1>2, <1>8, <2>1 DEF TreeIInv, WalkSound
      <3>2. walk.index = NumLeaves(tab.tree) /\ ActiveLeaf(tab) = walk.was
        BY <1>2, <3>1 DEF NotYetRemoved
      <3>3. \A p \in DOMAIN tab.tree : IndexOf(tab.tree, p) < NumLeaves(tab.tree)
        BY <1>1, LeafAtIndex DEF Sound
      <3>4. \A p \in DOMAIN tab.tree : tab.tree[p] \notin walk.targets
        BY <3>1, <3>2, <3>3 DEF NotYetRemoved
      <3>5. PanesOf(tab.tree) \cap walk.targets = {}
        BY <3>4 DEF PanesOf
      <3>6. a = tab.active
        BY <1>1, <2>1, ShiftByOne DEF a, TabType
      <3>7. ActiveLeaf(tab') = ActiveLeaf(tab)
        BY <1>7, <3>6 DEF ActiveLeaf
      <3>. QED  BY <3>2, <3>5, <3>7
    <2>2. CASE walk.removed # {}
      <3>1. Removed
        BY <1>2, <1>8, <2>2 DEF TreeIInv, WalkSound
      <3>2. ActiveLeaf(tab') # NoPane <=> a < NumLeaves(tab.tree)
        BY <1>5, <1>6, ActiveLeafIs
      <3>. QED  BY <1>7, <3>1, <3>2 DEF Removed, a
    <2>. QED  BY <2>1, <2>2
  <1>9. NoWalk \in WalkType
    BY DEF NoWalk, WalkType, PaneOrNone
  <1>10. TreeTypesOK'
    BY <1>2, <1>5, <1>6, <1>9 DEF TreeIInv, TreeTypesOK
  <1>11. MovedPane'
    <2>1. SUFFICES ASSUME split.moved # NoPane
                   PROVE  /\ split.moved \notin unborn
                          /\ ~ doubled => split.moved \notin PanesOf(tab.tree)
      BY <1>2, <1>5 DEF MovedPane
    <2>2. split.moved \notin unborn /\ walk.targets = {split.moved}
      BY <1>2, <2>1 DEF TreeIInv, MovedPane
    <2>3. ~ doubled => FindsOne
      BY <2>2, FS_Singleton DEF FindsOne
    <2>. QED  BY <1>8, <2>2, <2>3
  <1>12. WalkSound'
    BY <1>2 DEF WalkSound
  <1>. QED  BY <1>2, <1>5, <1>8, <1>10, <1>11, <1>12 DEF TreeIInv

-----------------------------------------------------------------------------
(* Splits.                                                                 *)

LEMMA SplitBegins ==
  ASSUME NoPaneAssumption, TreeIInv, BeginSplit
  PROVE  /\ TabUnlocked /\ UNCHANGED <<unborn, walk, doubled>>
         /\ Steady(tab, tab')
         /\ split' \in SplitType /\ split'.moved = NoPane
  <1>1. TabOK(tab)
    BY DEF TreeIInv, TreeTypesOK
  <1>2. PanesOf(tab.tree) \subseteq Panes
    BY <1>1, TreeTypes DEF TabOK
  <1>3. PICK target \in PanesOf(tab.tree), top, second \in BOOLEAN :
          /\ split' = [NoSplit EXCEPT !.target = target, !.top = top, !.second = second]
          /\ tab' = IF top THEN tab ELSE SetZoomed(tab, FALSE)
    BY DEF BeginSplit
  <1>4. split' = [target |-> target, top |-> top, second |-> second, moved |-> NoPane]
    BY <1>3 DEF NoSplit
  <1>5. split' \in SplitType /\ split'.moved = NoPane
    BY <1>2, <1>4 DEF SplitType, PaneOrNone
  <1>6. Steady(tab, tab) /\ Steady(tab, SetZoomed(tab, FALSE))
    BY <1>1, SetZoomedKeeps DEF Steady, Stable
  <1>. QED  BY <1>3, <1>5, <1>6 DEF BeginSplit

(* The pane that arrives is not in the tab yet, unless it is one that was  *)
(* moved and stood twice.                                                  *)
LEMMA SplitFinishes ==
  ASSUME NoPaneAssumption, TreeIInv, FinishSplit
  PROVE  /\ walk = NoWalk /\ walk' = walk /\ split' = NoSplit /\ doubled' = doubled
         /\ TabOK(tab') /\ (~ doubled => Once(tab'.tree))
         /\ tab.active < NumLeaves(tab.tree) => tab'.active < NumLeaves(tab'.tree)
         /\ \E pane \in Arriving :
              /\ unborn' = unborn \ {pane}
              /\ PanesOf(tab'.tree) = PanesOf(tab.tree) \cup {pane}
              /\ split.second => GetActivePane(tab') = pane
              /\ pane \notin PanesOf(tab.tree) =>
                   IndexOfPane(tab'.tree, pane) =
                     IF split.top THEN IF split.second THEN NumLeaves(tab.tree) ELSE 0
                     ELSE IndexOfPane(tab.tree, split.target) + (IF split.second THEN 1 ELSE 0)
  <1>1. /\ TabOK(tab) /\ split \in SplitType /\ unborn \subseteq Panes
        /\ PanesOf(tab.tree) \cap unborn = {} /\ (~ doubled => Once(tab.tree))
    BY DEF TreeIInv, TreeTypesOK
  <1>2. /\ walk = NoWalk /\ walk' = walk /\ split' = NoSplit /\ doubled' = doubled
        /\ split.target \in PanesOf(tab.tree) /\ tab.zoomed = NoPane
    BY DEF FinishSplit
  <1>3. PICK pane \in Arriving :
          /\ tab' = SplitAndInsert(tab, IndexOfPane(tab.tree, split.target), pane,
                                   split.top, split.second)
          /\ unborn' = unborn \ {pane}
    BY DEF FinishSplit
  <1>4. pane \in Panes /\ (~ doubled => pane \notin PanesOf(tab.tree))
    <2>1. CASE split.moved = NoPane
      BY <1>1, <1>3, <2>1 DEF Arriving
    <2>2. CASE split.moved # NoPane
      BY <1>1, <1>2, <1>3, <2>2 DEF Arriving, TreeIInv, MovedPane, SplitType, PaneOrNone
    <2>. QED  BY <2>1, <2>2
  <1>5. split.top \in BOOLEAN /\ split.second \in BOOLEAN
    BY <1>1 DEF SplitType
  <1>6. /\ TabOK(tab') /\ tab'.zoomed = NoPane
        /\ PanesOf(tab'.tree) = PanesOf(tab.tree) \cup {pane}
        /\ pane \notin PanesOf(tab.tree) =>
             /\ Once(tab.tree) => Once(tab'.tree)
             /\ IndexOfPane(tab'.tree, pane) =
                  IF split.top THEN IF split.second THEN NumLeaves(tab.tree) ELSE 0
                  ELSE IndexOfPane(tab.tree, split.target) + (IF split.second THEN 1 ELSE 0)
        /\ split.second => ActiveLeaf(tab') = pane
        /\ tab.active < NumLeaves(tab.tree) => tab'.active < NumLeaves(tab'.tree)
    <2>1. LandsBeside(tab, tab', split.target, pane, split.top, split.second)
      BY <1>1, <1>2, <1>3, <1>4, <1>5, SplitAndInsertKeeps
    <2>. QED  BY <2>1 DEF LandsBeside
  <1>7. split.second => GetActivePane(tab') = pane
    BY <1>6 DEF GetActivePane
  <1>. QED  BY <1>1, <1>2, <1>3, <1>4, <1>6, <1>7

LEMMA SplitIsRefused ==
  ASSUME TreeIInv, RefuseSplit \/ SpawnFails
  PROVE  /\ walk = NoWalk /\ UNCHANGED <<tab, walk, doubled>>
         /\ unborn' \subseteq unborn /\ split' = NoSplit
  BY DEF RefuseSplit, SpawnFails, TabUnlocked

-----------------------------------------------------------------------------
(* The theorems.                                                           *)

LEMMA NoWalkType ==
  NoWalk \in WalkType
  BY DEF NoWalk, WalkType, PaneOrNone

(* A tab starts with one pane.                                             *)
LEMMA TreeStarts ==
  ASSUME NoPaneAssumption, TreeInit
  PROVE  TreeIInv
  <1>. PICK pane \in Panes :
          /\ tab = [tree |-> [p \in {<< >>} |-> pane], active |-> 0, zoomed |-> NoPane]
          /\ unborn = Panes \ {pane}
    BY DEF TreeInit
  <1>. DEFINE one == [p \in {<< >>} |-> pane]
  <1>1. DOMAIN one = {<< >>} /\ one[<< >>] = pane /\ one = [p \in DOMAIN one |-> one[p]]
    OBVIOUS
  <1>2. tab = [tree |-> one, active |-> 0, zoomed |-> NoPane]
    OBVIOUS
  <1>. HIDE DEF one
  <1>3. << >> \in Paths /\ Len(<< >>) = 0
    BY DEF Paths
  <1>4. one \in Trees
    BY <1>1, <1>3, TreesAre
  <1>5. Proper(DOMAIN one)
    BY <1>1, <1>3 DEF Proper
  <1>6. Sound(one) /\ Once(one) /\ PanesOf(one) = {pane}
    <2>1. IsFiniteSet(DOMAIN one)
      BY <1>1, FS_Singleton
    <2>2. Once(one)
      BY <1>1 DEF Once
    <2>3. Sound(one)
      BY <1>4, <1>5, <2>1 DEF Sound
    <2>4. PanesOf(one) = {pane}
      BY <1>1 DEF PanesOf
    <2>. QED  BY <2>2, <2>3, <2>4
  <1>7. TabOK(tab) /\ tab.tree = one
    BY <1>2, <1>4, <1>6 DEF TabOK, TabType, PaneOrNone
  <1>8. split \in SplitType /\ split.moved = NoPane /\ walk = NoWalk /\ doubled = FALSE
    BY DEF TreeInit, NoSplit, SplitType, PaneOrNone
  <1>. QED  BY <1>6, <1>7, <1>8, NoWalkType DEF TreeIInv, TreeTypesOK, MovedPane, WalkSound

(* A step after which no pass is under way and no pane is moved.           *)
LEMMA RestingTab ==
  ASSUME TabOK(tab'), unborn' \subseteq Panes, PanesOf(tab'.tree) \cap unborn' = {},
         split' \in SplitType, split'.moved = NoPane, walk' = NoWalk,
         doubled' \in BOOLEAN, ~ doubled' => Once(tab'.tree)
  PROVE  TreeIInv'
  BY NoWalkType DEF TreeIInv, TreeTypesOK, MovedPane, WalkSound

(* Each action keeps the invariant.                                        *)
LEMMA TreeStep ==
  ASSUME NoPaneAssumption, PanesAssumption,
         TreeIInv, [TreeNext]_treeVars
  PROVE  TreeIInv'
  <1>1. /\ TabOK(tab) /\ unborn \subseteq Panes /\ PanesOf(tab.tree) \cap unborn = {}
        /\ split \in SplitType /\ doubled \in BOOLEAN /\ (~ doubled => Once(tab.tree))
    BY DEF TreeIInv, TreeTypesOK
  <1>2. NoSplit \in SplitType /\ NoSplit.moved = NoPane
    BY DEF NoSplit, SplitType, PaneOrNone
  <1>3. CASE BeginRemoval \/ BeginMove
    BY <1>3, PassBegins
  <1>4. CASE WalkPast
    BY <1>4, WalkPasses
  <1>5. CASE WalkRemove
    BY <1>5, WalkRemoves
  <1>6. CASE WalkEnd
    BY <1>6, WalkEnds
  <1>7. CASE BeginSplit
    <2>1. /\ TabOK(tab') /\ PanesOf(tab'.tree) = PanesOf(tab.tree) /\ unborn' = unborn
          /\ split' \in SplitType /\ split'.moved = NoPane /\ walk' = NoWalk
          /\ doubled' = doubled /\ (Once(tab.tree) => Once(tab'.tree))
      BY <1>7, SplitBegins DEF Steady, Stable, TabUnlocked
    <2>. QED  BY <1>1, <2>1, RestingTab
  <1>8. CASE FinishSplit
    <2>1. PICK pane \in Arriving :
            /\ unborn' = unborn \ {pane}
            /\ PanesOf(tab'.tree) = PanesOf(tab.tree) \cup {pane}
      BY <1>8, SplitFinishes
    <2>2. /\ TabOK(tab') /\ split' = NoSplit /\ walk' = NoWalk
          /\ doubled' = doubled /\ (~ doubled => Once(tab'.tree))
      BY <1>8, SplitFinishes
    <2>3. unborn' \subseteq Panes /\ PanesOf(tab'.tree) \cap unborn' = {}
      BY <1>1, <2>1
    <2>. QED  BY <1>1, <1>2, <2>2, <2>3, RestingTab
  <1>9. CASE RefuseSplit \/ SpawnFails
    <2>1. /\ tab' = tab /\ unborn' \subseteq unborn /\ split' = NoSplit /\ walk' = NoWalk
          /\ doubled' = doubled
      BY <1>9, SplitIsRefused
    <2>2. unborn' \subseteq Panes /\ PanesOf(tab'.tree) \cap unborn' = {} /\ TabOK(tab')
      BY <1>1, <2>1
    <2>. QED  BY <1>1, <1>2, <2>1, <2>2, RestingTab
  <1>10. CASE Rearranged
    <2>1. /\ TabOK(tab') /\ PanesOf(tab'.tree) \subseteq PanesOf(tab.tree) /\ unborn' = unborn
          /\ split' \in SplitType /\ split'.moved = NoPane /\ walk' = NoWalk
          /\ doubled' \in BOOLEAN /\ (~ doubled' => Once(tab'.tree))
      BY <1>1, <1>10, RearrangedKeeps DEF Steady, Stable, TabUnlocked
    <2>. QED  BY <1>1, <2>1, RestingTab
  <1>11. CASE UNCHANGED treeVars
    BY <1>11 DEF treeVars, TreeIInv, TreeTypesOK, MovedPane, WalkSound, FindsOne,
                 NotYetRemoved, Removed
  <1>. QED  BY <1>3, <1>4, <1>5, <1>6, <1>7, <1>8, <1>9, <1>10, <1>11
            DEF TreeNext, RemovalPass, Split, Rearranged

(* With the invariant the tree is well formed and holds the zoomed pane.   *)
LEMMA TreeIInvIsSound ==
  ASSUME TreeIInv
  PROVE  TreeIsSound
  <1>1. /\ TabOK(tab) /\ Sound(tab.tree) /\ tab \in TabType
        /\ unborn \subseteq Panes /\ PanesOf(tab.tree) \cap unborn = {}
        /\ split \in SplitType /\ walk \in WalkType /\ doubled \in BOOLEAN
    BY DEF TreeIInv, TreeTypesOK, TabOK
  <1>2. WellFormed(tab.tree)
    BY <1>1, WellFormedIsProper DEF Sound
  <1>3. PanesOf(tab.tree) \subseteq Panes \ unborn
    BY <1>1, TreeTypes
  <1>4. /\ ~ doubled => \A p, q \in DOMAIN tab.tree : tab.tree[p] = tab.tree[q] => p = q
        /\ ZoomedPaneIsInTab
    BY <1>1 DEF TreeIInv, TreeTypesOK, Once, TabOK, ZoomedPaneIsInTab
  <1>5. /\ tab.active \in Nat /\ tab.zoomed \in Panes \cup {NoPane}
        /\ split.target \in Panes \cup {NoPane} /\ walk.targets \subseteq Panes
    BY <1>1 DEF TabType, SplitType, WalkType, PaneOrNone
  <1>. QED  BY <1>1, <1>2, <1>3, <1>4, <1>5 DEF TreeIsSound, TreeTypeOK

THEOREM TreeInvariant ==
  ASSUME NoPaneAssumption, PanesAssumption
  PROVE  TreeSpec => []TreeIInv
  BY TreeStarts, TreeStep, PTL DEF TreeSpec

(* Whatever is split, closed, pruned, moved, zoomed, focused, swapped or   *)
(* rotated, in any order, the tree stays a proper binary tree of panes that*)
(* were spawned and a zoomed tab shows a pane of its tree; and no pane     *)
(* stands twice but after a swap in a tab zoomed elsewhere than at its     *)
(* active index (bintree and TabInner of tab.rs).                          *)
THEOREM TreeStaysSound ==
  ASSUME NoPaneAssumption, PanesAssumption
  PROVE  TreeSpec => []TreeIsSound
  BY TreeInvariant, TreeIInvIsSound, PTL

(* A step of a tab that rests keeps its panes or adds the one that a split *)
(* brings, and removes one only as a swap in a tab zoomed elsewhere; a pass*)
(* removes those that it was asked to.                                     *)
LEMMA PanesOfAStep ==
  ASSUME NoPaneAssumption, PanesAssumption, TreeIInv, [TreeNext]_treeVars
  PROVE  /\ ~ SwapsElsewhere => PanesOf(tab.tree) \ PanesOf(tab'.tree) \subseteq walk.targets
         /\ ~ FinishSplit => PanesOf(tab'.tree) \subseteq PanesOf(tab.tree)
         /\ TabUnlocked /\ ~ FinishSplit /\ ~ SwapsElsewhere =>
              PanesOf(tab'.tree) = PanesOf(tab.tree)
  <1>1. TabOK(tab) /\ doubled \in BOOLEAN
    BY DEF TreeIInv, TreeTypesOK
  <1>2. CASE \/ BeginRemoval \/ BeginMove \/ WalkPast \/ WalkEnd \/ BeginSplit
             \/ RefuseSplit \/ SpawnFails \/ Rearranged \/ UNCHANGED treeVars
    <2>1. /\ PanesOf(tab'.tree) \subseteq PanesOf(tab.tree)
          /\ ~ SwapsElsewhere => PanesOf(tab'.tree) = PanesOf(tab.tree)
      <3>1. CASE BeginRemoval \/ BeginMove
        BY <3>1, PassBegins
      <3>2. CASE WalkPast
        BY <3>2, WalkPasses
      <3>3. CASE WalkEnd
        BY <3>3, WalkEnds
      <3>4. CASE BeginSplit
        BY <3>4, SplitBegins DEF Steady, Stable
      <3>5. CASE RefuseSplit \/ SpawnFails
        BY <3>5, SplitIsRefused
      <3>6. CASE Rearranged
        BY <1>1, <3>6, RearrangedKeeps DEF Steady, Stable
      <3>7. CASE UNCHANGED treeVars
        BY <3>7 DEF treeVars
      <3>. QED  BY <1>2, <3>1, <3>2, <3>3, <3>4, <3>5, <3>6, <3>7
    <2>. QED  BY <2>1
  <1>3. CASE WalkRemove
    <2>1. ~ TabUnlocked
      BY <1>3, WalkRemoves DEF TabUnlocked
    <2>. QED  BY <1>3, <2>1, WalkRemoves
  <1>4. CASE FinishSplit
    <2>1. PICK pane \in Arriving : PanesOf(tab'.tree) = PanesOf(tab.tree) \cup {pane}
      BY <1>4, SplitFinishes
    <2>. QED  BY <1>4, <2>1
  <1>. QED  BY <1>2, <1>3, <1>4 DEF TreeNext, RemovalPass, Split, Rearranged

(* A step that leaves no pass under way ended one or found none.           *)
LEMMA RestingStep ==
  ASSUME NoPaneAssumption, PanesAssumption,
         TreeIInv, [TreeNext]_treeVars, walk' = NoWalk
  PROVE  \/ WalkEnd
         \/ /\ walk = NoWalk /\ ~ FindsOne /\ TabOK(tab) /\ TabOK(tab')
            /\ tab.active < NumLeaves(tab.tree) => tab'.active < NumLeaves(tab'.tree)
  <1>1. TabOK(tab) /\ TabOK(tab') /\ doubled \in BOOLEAN
    BY TreeStep DEF TreeIInv, TreeTypesOK
  <1>2. walk = NoWalk => ~ FindsOne
    BY FS_EmptySet DEF NoWalk, FindsOne
  <1>3. CASE BeginRemoval \/ BeginMove
    BY <1>3, PassBegins
  <1>4. CASE WalkPast
    BY <1>4, WalkPasses
  <1>5. CASE WalkRemove
    BY <1>5, WalkRemoves
  <1>6. CASE WalkEnd
    BY <1>6
  <1>7. CASE BeginSplit
    BY <1>1, <1>2, <1>7, SplitBegins DEF Steady, Stable, TabUnlocked
  <1>8. CASE FinishSplit
    BY <1>1, <1>2, <1>8, SplitFinishes
  <1>9. CASE RefuseSplit \/ SpawnFails
    BY <1>1, <1>2, <1>9, SplitIsRefused
  <1>10. CASE Rearranged
    BY <1>1, <1>2, <1>10, RearrangedKeeps DEF Steady, Stable, TabUnlocked
  <1>11. CASE UNCHANGED treeVars
    BY <1>1, <1>2, <1>11 DEF treeVars
  <1>. QED  BY <1>3, <1>4, <1>5, <1>6, <1>7, <1>8, <1>9, <1>10, <1>11
            DEF TreeNext, RemovalPass, Split, Rearranged

(* The pane that was active before a pass that removes one pane is active  *)
(* after it, if it is still there: the shift of the active index is right  *)
(* for every tree, every pane that goes and every pane that was active.    *)
LEMMA SurvivorIsActive ==
  ASSUME NoPaneAssumption, PanesAssumption
  PROVE  TreeSpec => SurvivorStaysActive
  <1>1. ASSUME TreeIInv, [TreeNext]_treeVars, FindsOne, walk' = NoWalk, walk.was \in PanesOf(tab'.tree)
        PROVE  ActiveLeaf(tab') = walk.was
    BY <1>1, RestingStep, WalkEnds
  <1>2. TreeIInv /\ [TreeNext]_treeVars =>
          [ FindsOne /\ walk' = NoWalk /\ walk.was \in PanesOf(tab'.tree)
            => ActiveLeaf(tab') = walk.was ]_treeVars
    BY <1>1
  <1>. QED  BY <1>2, TreeInvariant, PTL DEF TreeSpec, SurvivorStaysActive

(* A tab that has an active pane keeps one while it has panes, through     *)
(* every operation but a pass over several panes, and keeps the one it had *)
(* through a pass that removes another.                                    *)
THEOREM TabStaysActive ==
  ASSUME NoPaneAssumption, PanesAssumption
  PROVE  TreeSpec => StaysActive
  <1>1. ASSUME TreeIInv, [TreeNext]_treeVars, walk' = NoWalk, NumLeaves(tab'.tree) > 0,
               \/ walk = NoWalk /\ ActiveLeaf(tab) # NoPane
               \/ FindsOne /\ walk.was # NoPane
        PROVE  ActiveLeaf(tab') # NoPane
    <2>1. CASE WalkEnd
      BY <1>1, <2>1, WalkEnds
    <2>2. CASE ~ WalkEnd
      BY <1>1, <2>2, RestingStep, ActiveLeafIs
    <2>. QED  BY <2>1, <2>2
  <1>2. TreeIInv /\ [TreeNext]_treeVars =>
          [ /\ walk' = NoWalk
            /\ NumLeaves(tab'.tree) > 0
            /\ \/ walk = NoWalk /\ ActiveLeaf(tab) # NoPane
               \/ FindsOne /\ walk.was # NoPane
            => ActiveLeaf(tab') # NoPane ]_treeVars
    BY <1>1
  <1>. QED  BY <1>2, TreeInvariant, SurvivorIsActive, PTL
            DEF TreeSpec, StaysActive, KeepsAnActivePane

(* A pass that finds one pane removes it, and no pane leaves the tree but  *)
(* through a pass that was asked to remove it, or through a swap in a tab  *)
(* zoomed on another pane than the one at its active index.                *)
THEOREM OnlyTargetsLeave ==
  ASSUME NoPaneAssumption, PanesAssumption
  PROVE  TreeSpec => TargetsLeave
  <1>1. ASSUME TreeIInv, [TreeNext]_treeVars, FindsOne, walk' = NoWalk
        PROVE  PanesOf(tab'.tree) \cap walk.targets = {}
    BY <1>1, RestingStep, WalkEnds
  <1>2. TreeIInv /\ [TreeNext]_treeVars =>
          [ /\ (FindsOne /\ walk' = NoWalk) => PanesOf(tab'.tree) \cap walk.targets = {}
            /\ ~ (SwapPanes /\ ZoomedElsewhere(tab)) =>
                 PanesOf(tab.tree) \ PanesOf(tab'.tree) \subseteq walk.targets ]_treeVars
    BY <1>1, PanesOfAStep DEF SwapsElsewhere
  <1>. QED  BY <1>2, TreeInvariant, PTL DEF TreeSpec, TargetsLeave

(* A new pane is the neighbour of the pane it was asked to split, on the   *)
(* side asked for, whatever happened to the tab while it was spawned.      *)
THEOREM SplitLands ==
  ASSUME NoPaneAssumption, PanesAssumption
  PROVE  TreeSpec => SplitLandsBesideItsTarget
  <1>. DEFINE Lands ==
         \A new \in PanesOf(tab'.tree) \ PanesOf(tab.tree) :
           LET at     == IndexOfPane(tab'.tree, new)
               beside == IF split.top
                         THEN IF split.second THEN NumLeaves(tab.tree) ELSE 0
                         ELSE IndexOfPane(tab.tree, split.target)
                              + (IF split.second THEN 1 ELSE 0)
           IN  at = beside /\ (split.second => GetActivePane(tab') = new)
  <1>1. ASSUME TreeIInv, [TreeNext]_treeVars PROVE Lands
    <2>1. CASE ~ FinishSplit
      BY <1>1, <2>1, PanesOfAStep
    <2>2. CASE FinishSplit
      BY <1>1, <2>2, SplitFinishes
    <2>. QED  BY <2>1, <2>2
  <1>2. TreeIInv /\ [TreeNext]_treeVars => [Lands]_treeVars
    BY <1>1
  <1>. QED  BY <1>2, TreeInvariant, PTL DEF TreeSpec, SplitLandsBesideItsTarget

(* No swap or rotation, zoom or focus changes which panes the tab has.     *)
(* This is what the doc of swap_active_with_index promises; for the swap   *)
(* in a tab zoomed elsewhere than at its active index it does not hold.    *)
THEOREM SwapKeepsPanes ==
  ASSUME NoPaneAssumption, PanesAssumption
  PROVE  TreeSpec => SwapKeepsThePanes
  <1>1. ASSUME TreeIInv, [TreeNext]_treeVars, TabUnlocked, unborn' = unborn, walk' = walk,
               ~ SwapsElsewhere
        PROVE  PanesOf(tab'.tree) = PanesOf(tab.tree)
    <2>1. CASE ~ FinishSplit
      BY <1>1, <2>1, PanesOfAStep
    <2>2. CASE FinishSplit
      <3>1. PICK pane \in Arriving : unborn' = unborn \ {pane}
        BY <1>1, <2>2, SplitFinishes
      <3>2. pane \in unborn
        BY <1>1 DEF Arriving, TabUnlocked
      <3>. QED  BY <1>1, <3>1, <3>2
    <2>. QED  BY <2>1, <2>2
  <1>2. TreeIInv /\ [TreeNext]_treeVars =>
          [ TabUnlocked /\ unborn' = unborn /\ walk' = walk
              /\ ~ (SwapPanes /\ ZoomedElsewhere(tab))
            => PanesOf(tab'.tree) = PanesOf(tab.tree) ]_treeVars
    BY <1>1 DEF SwapsElsewhere
  <1>. QED  BY <1>2, TreeInvariant, PTL DEF TreeSpec, SwapKeepsThePanes

-----------------------------------------------------------------------------
(* The output of a pane.                                                   *)

Items == Seq(Kinds)

Marks == {"begin", "end"}

Unmarked(items) == \A i \in DOMAIN items : items[i] \notin Marks

(* Where a thread is says what it holds.                                   *)
Phases ==
    /\ reader.at # "write" <=> reader.chunk = << >>
    /\ parser.at # "parse" => parser.input = << >>
    /\ parser.at \in {"decide", "poll"} => parser.actions # << >> /\ ~ parser.hold
    /\ parser.at = "ended" => dead /\ parser.actions = << >>

(* The parser knows what the pane has been shown.                          *)
Framing ==
    /\ Unmarked(parser.actions)
    /\ alive => framed = parser.hold

(* A thread ends early only when the pane is gone.                         *)
Ends ==
    /\ alive /\ reader.at = "ended" => ended /\ pty = << >>
    /\ alive /\ dead => reader.at = "ended" /\ parser.at = "ended"

Inv == OutputTypeOK /\ Phases /\ Framing /\ Ends

------------------------------------------------------------------------------
(* Sequences.                                                               *)

\* What is read of a sequence and what is left of it are the sequence.
LEMMA Cut ==
    ASSUME NEW s \in Items, NEW n \in 1 .. Len(s)
    PROVE  /\ SubSeq(s, 1, n) \in Items
           /\ Len(SubSeq(s, 1, n)) = n
           /\ SubSeq(s, 1, n) # << >>
           /\ SubSeq(s, n + 1, Len(s)) \in Items
           /\ Len(SubSeq(s, n + 1, Len(s))) = Len(s) - n
           /\ SubSeq(s, 1, n) \o SubSeq(s, n + 1, Len(s)) = s
  <1>1. Len(s) \in Nat /\ \A i \in 1 .. Len(s) : s[i] \in Kinds
    BY LenProperties, ElementOfSeq DEF Items
  <1>2. SubSeq(s, 1, n) \in Items /\ Len(SubSeq(s, 1, n)) = n
    <2>1. \A i \in 1 .. n : s[i] \in Kinds
      BY <1>1
    <2> QED  BY <1>1, <2>1, SubSeqProperties DEF Items
  <1>3. /\ SubSeq(s, n + 1, Len(s)) \in Items
        /\ Len(SubSeq(s, n + 1, Len(s))) = Len(s) - n
    <2>1. n + 1 \in Int /\ Len(s) \in Int /\ \A i \in n + 1 .. Len(s) : s[i] \in Kinds
      BY <1>1
    <2>2. /\ SubSeq(s, n + 1, Len(s)) \in Items
          /\ Len(SubSeq(s, n + 1, Len(s)))
               = IF n + 1 <= Len(s) THEN Len(s) - (n + 1) + 1 ELSE 0
      BY <2>1, SubSeqProperties DEF Items
    <2> QED  BY <1>1, <2>2
  <1>4. SubSeq(s, 1, n) \o SubSeq(s, n + 1, Len(s)) = s
    <2>1. /\ 1 \in 1 .. Len(s) + 1 /\ n \in 1 - 1 .. Len(s) /\ Len(s) \in n .. Len(s)
      BY <1>1
    <2>2. SubSeq(s, 1, n) \o SubSeq(s, n + 1, Len(s)) = SubSeq(s, 1, Len(s))
      BY <2>1, ConcatAdjacentSubSeq DEF Items
    <2> QED  BY <2>2, SubSeqFull DEF Items
  <1> QED  BY <1>1, <1>2, <1>3, <1>4, EmptySeq

\* The concatenation of items is associative.
LEMMA Associative ==
    ASSUME NEW a \in Items, NEW b \in Items, NEW c \in Items
    PROVE  (a \o b) \o c = a \o (b \o c)
  BY ConcatAssociative DEF Items

\* The empty place of a sequence filled from the one behind: nothing moves.
LEMMA Refill ==
    ASSUME NEW x \in Items, NEW s \in Items, NEW n \in 1 .. Len(s)
    PROVE  (x \o << >>) \o s = (x \o SubSeq(s, 1, n)) \o SubSeq(s, n + 1, Len(s))
  <1>1. x \o << >> = x
    BY ConcatEmptySeq DEF Items
  <1>2. (x \o SubSeq(s, 1, n)) \o SubSeq(s, n + 1, Len(s))
            = x \o (SubSeq(s, 1, n) \o SubSeq(s, n + 1, Len(s)))
    <2> DEFINE front == SubSeq(s, 1, n)
               back == SubSeq(s, n + 1, Len(s))
    <2>1. front \in Items /\ back \in Items
      BY Cut
    <2> HIDE DEF front, back
    <2>2. (x \o front) \o back = x \o (front \o back)
      BY <2>1, Associative
    <2> QED  BY <2>2 DEF front, back
  <1> QED  BY <1>1, <1>2, Cut

\* An item from the head of a sequence appended to the one before it.
LEMMA Shift ==
    ASSUME NEW s \in Items, NEW c \in Items, c # << >>
    PROVE  s \o c = Append(s, Head(c)) \o Tail(c)
  <1>1. Head(c) \in Kinds /\ Tail(c) \in Items
    BY HeadTailProperties DEF Items
  <1>2. c = << Head(c) >> \o Tail(c)
    BY <1>1 DEF Items
  <1>3. << Head(c) >> \in Items
    BY <1>1 DEF Items
  <1>4. Append(s, Head(c)) \o Tail(c) = (s \o << Head(c) >>) \o Tail(c)
    BY <1>1, AppendIsConcat DEF Items
  <1>5. (s \o << Head(c) >>) \o Tail(c) = s \o (<< Head(c) >> \o Tail(c))
    BY <1>1, <1>3, Associative
  <1> QED  BY <1>2, <1>4, <1>5

\* An item from the head of a sequence moved to the one before it, behind more.
LEMMA ShiftBehind ==
    ASSUME NEW x \in Items, NEW s \in Items, NEW c \in Items, c # << >>
    PROVE  (x \o s) \o c = (x \o Append(s, Head(c))) \o Tail(c)
  <1>1. Append(s, Head(c)) \in Items /\ Tail(c) \in Items
    BY HeadTailProperties, AppendProperties DEF Items
  <1>2. (x \o s) \o c = x \o (s \o c)
    BY Associative
  <1>3. (x \o Append(s, Head(c))) \o Tail(c) = x \o (Append(s, Head(c)) \o Tail(c))
    <2> DEFINE longer == Append(s, Head(c))
               rest == Tail(c)
    <2>1. longer \in Items /\ rest \in Items
      BY <1>1
    <2> HIDE DEF longer, rest
    <2>2. (x \o longer) \o rest = x \o (longer \o rest)
      BY <2>1, Associative
    <2> QED  BY <2>2 DEF longer, rest
  <1> QED  BY <1>2, <1>3, Shift

\* The front of a stream that is a batch and what follows, by indices.
LEMMA BatchOff ==
    ASSUME NEW b \in Items, NEW rest \in Items, b # << >>
    PROVE  /\ Len(b) \in 1 .. Len(b \o rest)
           /\ SubSeq(b \o rest, 1, Len(b)) = b
           /\ SubSeq(b \o rest, Len(b) + 1, Len(b \o rest)) = rest
  <1>1. /\ Len(b) \in Nat \ {0} /\ Len(rest) \in Nat
        /\ Len(b \o rest) = Len(b) + Len(rest)
    BY EmptySeq, LenProperties, ConcatProperties DEF Items
  <1>2. SubSeq(b \o rest, 1, Len(b)) = b
    <2>1. 1 \in 1 .. Len(b) /\ Len(b) \in 1 .. Len(b)
      BY <1>1
    <2>2. SubSeq(b \o rest, 1, Len(b)) = SubSeq(b, 1, Len(b))
      BY <2>1, SubSeqOfConcat1 DEF Items
    <2> QED  BY <2>2, SubSeqFull DEF Items
  <1>3. SubSeq(b \o rest, Len(b) + 1, Len(b \o rest)) = rest
    <2>1. CASE rest = << >>
      <3>1. Len(b \o rest) < Len(b) + 1
        BY <1>1, <2>1, EmptySeq
      <3> QED  BY <1>1, <2>1, <3>1, SubSeqEmpty
    <2>2. CASE rest # << >>
      <3>1. Len(rest) \in Nat \ {0}
        BY <2>2, EmptySeq DEF Items
      <3>2. /\ Len(b) + 1 \in Len(b) + 1 .. Len(b) + Len(rest)
            /\ Len(b) + Len(rest) \in Len(b) + 1 .. Len(b) + Len(rest)
        BY <1>1, <3>1
      <3>3. SubSeq(b \o rest, Len(b) + 1, Len(b) + Len(rest))
                = SubSeq(rest, Len(b) + 1 - Len(b), Len(b) + Len(rest) - Len(b))
        BY <3>2, SubSeqOfConcat2 DEF Items
      <3>4. Len(b) + 1 - Len(b) = 1 /\ Len(b) + Len(rest) - Len(b) = Len(rest)
        BY <1>1
      <3> QED  BY <1>1, <3>3, <3>4, SubSeqFull DEF Items
    <2> QED  BY <2>1, <2>2
  <1>4. Len(b) \in 1 .. Len(b \o rest)
    BY <1>1
  <1> QED  BY <1>2, <1>3, <1>4

\* Items without a mark leave an update open or closed as it was.
LEMMA Quiet ==
    ASSUME NEW items \in Items, Unmarked(items), NEW before \in BOOLEAN
    PROVE  OpenAfter(items, before) = before
  BY DEF OpenAfter, Unmarked, Marks

\* Behind items without a mark, a mark alone says whether an update is open.
LEMMA Marked ==
    ASSUME NEW items \in Items, Unmarked(items), NEW mark \in Marks,
           NEW before \in BOOLEAN
    PROVE  OpenAfter(Append(items, mark), before) = (mark = "begin")
  <1> DEFINE all == Append(items, mark)
             n == Len(items) + 1
  <1>1. Len(items) \in Nat
    BY LenProperties DEF Items
  <1>2. /\ DOMAIN all = 1 .. n
        /\ all[n] = mark
        /\ \A i \in 1 .. Len(items) : all[i] \notin Marks
    <2>1. mark \in Kinds
      BY DEF Marks, Kinds
    <2>2. all \in Items /\ Len(all) = n
      BY <2>1, AppendProperties DEF Items
    <2>3. \A i \in 1 .. Len(items) : all[i] = items[i]
      BY <2>1, AppendProperties DEF Items
    <2>4. all[n] = mark
      BY <2>1, AppendProperties DEF Items
    <2>5. DOMAIN items = 1 .. Len(items) /\ DOMAIN all = 1 .. n
      BY <2>2, LenProperties DEF Items
    <2> QED  BY <2>3, <2>4, <2>5 DEF Unmarked
  <1> HIDE DEF all
  <1>3. \A i \in DOMAIN all : all[i] \in Marks <=> i = n
    BY <1>1, <1>2 DEF Marks
  <1>4. CASE mark = "begin"
    <2>1. n \in DOMAIN all /\ \A k \in DOMAIN all : ~ k > n
      BY <1>1, <1>2
    <2>2. OpenAfter(all, before)
      BY <1>2, <1>4, <2>1 DEF OpenAfter
    <2>3. OpenAfter(all, before) \in BOOLEAN
      BY DEF OpenAfter
    <2> QED  BY <1>4, <2>2, <2>3 DEF all
  <1>5. CASE mark = "end"
    <2>1. n \in DOMAIN all /\ all[n] = "end"
      BY <1>1, <1>2, <1>5
    <2>2. \A i \in DOMAIN all : all[i] # "begin"
      BY <1>2, <1>3, <1>5 DEF Marks
    <2>3. ~ OpenAfter(all, before)
      BY <2>1, <2>2 DEF OpenAfter
    <2>4. OpenAfter(all, before) \in BOOLEAN
      BY DEF OpenAfter
    <2> QED  BY <1>5, <2>3, <2>4 DEF all
  <1> QED  BY <1>4, <1>5 DEF Marks

------------------------------------------------------------------------------
(* The invariant.                                                           *)

\* OutputInit implies the invariant.
LEMMA AtTheStart ==
    ASSUME BuffersAssumption, OutputInit
    PROVE  Inv
  <1>1. << >> \in Items /\ Len(<< >>) = 0 /\ Unmarked(<< >>)
    BY EmptySeq DEF Items, Unmarked
  <1>2. OutputTypeOK
    <2>1. ReaderBuffer \in Nat /\ SocketBuffer \in Nat /\ ParserBuffer \in Nat
      BY DEF BuffersAssumption
    <2>2. pty \in Seq(Kinds) /\ socket \in Seq(Kinds) /\ Len(socket) <= SocketBuffer
      BY <1>1, <2>1 DEF OutputInit, Items
    <2>3. /\ reader \in [at : {"read", "write", "ended"}, chunk : Seq(Kinds)]
          /\ Len(reader.chunk) <= ReaderBuffer
      BY <1>1, <2>1 DEF OutputInit, Items
    <2>4. parser \in [at : {"read", "parse", "decide", "poll", "ended"},
                      input : Seq(Kinds), actions : Seq(Kinds), hold : BOOLEAN,
                      read : 0 .. ParserBuffer, size : 0 .. ParserBuffer,
                      deadline : {"none", "ahead", "passed"}]
      BY <1>1, <2>1 DEF OutputInit, Items
    <2> QED  BY <2>2, <2>3, <2>4 DEF OutputTypeOK, OutputInit
  <1> QED  BY <1>1, <1>2 DEF Inv, Phases, Framing, Ends, OutputInit

\* What the program and the mux do to the pipeline keeps the invariant.
LEMMA ProgramKeepsInv ==
    ASSUME BuffersAssumption, Inv,
           (\E kind \in Kinds : Write(kind)) \/ End \/ Forget
    PROVE  Inv'
  <1>1. CASE \E kind \in Kinds : Write(kind)
    <2>1. PICK kind \in Kinds : Write(kind)
      BY <1>1
    <2>2. pty' \in Items
      BY <2>1, AppendProperties DEF Write, Inv, OutputTypeOK, Items
    <2>3. probe' \in {"unwritten", "free", "framed", "shown"}
      BY <2>1 DEF Write, Inv, OutputTypeOK
    <2> QED  BY <2>1, <2>2, <2>3
                DEF Write, Inv, Phases, Framing, Ends, OutputTypeOK, Items, Unmarked
  <1>2. CASE End
    BY <1>2 DEF End, Inv, Phases, Framing, Ends, OutputTypeOK, Unmarked
  <1>3. CASE Forget
    BY <1>3 DEF Forget, Inv, Phases, Framing, Ends, OutputTypeOK, Unmarked
  <1> QED  BY <1>1, <1>2, <1>3

\* The two steps of the reader thread keep the invariant (read_from_pane_pty).
LEMMA ReaderKeepsInv ==
    ASSUME BuffersAssumption, Inv, ReaderThread
    PROVE  Inv'
  <1>1. CASE Read
    <2>1. CASE reader' = [at |-> "ended", chunk |-> << >>] /\ pty' = pty
      <3>1. << >> \in Items /\ Len(<< >>) = 0
        BY EmptySeq DEF Items
      <3>2. alive => ended /\ pty = << >>
        BY <1>1, <2>1 DEF Read, Inv, Ends
      <3> QED  BY <1>1, <2>1, <3>1, <3>2
                  DEF Read, Inv, Phases, Framing, Ends, OutputTypeOK, Items, Unmarked,
                  BuffersAssumption
    <2>2. CASE \E n \in 1 .. ReaderBuffer :
                  /\ n <= Len(pty)
                  /\ reader' = [at |-> "write", chunk |-> SubSeq(pty, 1, n)]
                  /\ pty' = SubSeq(pty, n + 1, Len(pty))
      <3>1. PICK n \in 1 .. ReaderBuffer :
                  /\ n <= Len(pty)
                  /\ reader' = [at |-> "write", chunk |-> SubSeq(pty, 1, n)]
                  /\ pty' = SubSeq(pty, n + 1, Len(pty))
        BY <2>2
      <3>2. pty \in Items /\ Len(pty) \in Nat
        BY LenProperties DEF Inv, OutputTypeOK, Items
      <3>3. n \in 1 .. Len(pty)
        BY <3>1, <3>2 DEF BuffersAssumption
      <3>4. /\ reader'.chunk \in Items /\ Len(reader'.chunk) = n
            /\ reader'.chunk # << >> /\ pty' \in Items
        BY <3>1, <3>2, <3>3, Cut
      <3>5. n <= ReaderBuffer /\ reader'.at = "write"
        BY <3>1 DEF BuffersAssumption
      <3> QED  BY <1>1, <3>1, <3>4, <3>5
                  DEF Read, Inv, Phases, Framing, Ends, OutputTypeOK, Items, Unmarked
    <2> QED  BY <1>1, <2>1, <2>2 DEF Read
  <1>2. CASE WriteSocket
    <2>1. /\ reader.chunk \in Items /\ reader.chunk # << >> /\ socket \in Items
          /\ reader.at = "write" /\ Len(reader.chunk) <= ReaderBuffer
          /\ Len(socket) \in Nat /\ Len(reader.chunk) \in Nat
      BY <1>2, LenProperties DEF WriteSocket, Inv, Phases, OutputTypeOK, Items
    <2>2. /\ Head(reader.chunk) \in Kinds /\ Tail(reader.chunk) \in Items
          /\ Len(Tail(reader.chunk)) = Len(reader.chunk) - 1
      BY <2>1, HeadTailProperties DEF Items
    <2>3. /\ Append(socket, Head(reader.chunk)) \in Items
          /\ Len(Append(socket, Head(reader.chunk))) = Len(socket) + 1
      BY <2>1, <2>2, AppendProperties DEF Items
    <2>4. socket' \in Items /\ Len(socket') <= SocketBuffer
      BY <1>2, <2>1, <2>3 DEF WriteSocket, BuffersAssumption
    <2>5. Tail(reader.chunk) = << >> <=> Len(reader.chunk) = 1
      <3> DEFINE rest == Tail(reader.chunk)
      <3>1. rest = << >> <=> Len(rest) = 0
        <4>1. rest \in Items
          BY <2>2
        <4> HIDE DEF rest
        <4> QED  BY <4>1, EmptySeq DEF Items
      <3> QED  BY <2>1, <2>2, <3>1
    <2>6. /\ reader' \in [at : {"read", "write", "ended"}, chunk : Items]
          /\ Len(reader'.chunk) <= ReaderBuffer
          /\ reader'.at # "ended"
          /\ reader'.at # "write" <=> reader'.chunk = << >>
      BY <1>2, <2>1, <2>2, <2>5 DEF WriteSocket, BuffersAssumption
    <2>7. reader.at # "ended"
      BY <2>1
    <2> QED  BY <1>2, <2>4, <2>6, <2>7
                DEF WriteSocket, Inv, Phases, Framing, Ends, OutputTypeOK, Items, Unmarked
  <1> QED  BY <1>1, <1>2 DEF ReaderThread

\* The history variables keep their types when items are shown.
LEMMA ShownType ==
    ASSUME OutputTypeOK, NEW items, Shown(items)
    PROVE  framed' \in BOOLEAN /\ probe' \in {"unwritten", "free", "framed", "shown"}
  BY DEF OutputTypeOK, Shown, OpenAfter

\* They keep their types when items are sent to a pane that may be gone.
LEMMA SendType ==
    ASSUME OutputTypeOK, NEW items, Send(items)
    PROVE  /\ framed' \in BOOLEAN /\ dead' \in BOOLEAN
           /\ probe' \in {"unwritten", "free", "framed", "shown"}
  BY ShownType DEF OutputTypeOK, Send

\* Sending what was gathered, after a wait or without one, keeps the
\* invariant: outside of an update what is sent has no mark, so none is open
\* after it.
LEMMA GatheredSent ==
    ASSUME BuffersAssumption, Inv, parser.at \in {"decide", "poll"}, SendGathered,
           UNCHANGED <<pty, ended, alive, reader, socket>>
    PROVE  Inv'
  <1>1. << >> \in Items /\ Unmarked(<< >>)
    BY EmptySeq DEF Items, Unmarked
  <1>2. parser' \in [at : {"read", "parse", "decide", "poll", "ended"},
                     input : Seq(Kinds), actions : Seq(Kinds), hold : BOOLEAN,
                     read : 0 .. ParserBuffer, size : 0 .. ParserBuffer,
                     deadline : {"none", "ahead", "passed"}]
    <2>1. 0 \in 0 .. ParserBuffer
      BY DEF BuffersAssumption
    <2> QED  BY <1>1, <2>1 DEF SendGathered, Inv, OutputTypeOK, Items
  <1>3. /\ parser'.at = "read" /\ parser'.input = << >> /\ parser'.actions = << >>
        /\ parser'.hold = parser.hold
    BY DEF SendGathered, Inv, Phases, OutputTypeOK
  <1>4. OutputTypeOK'
    BY <1>2, SendType DEF SendGathered, Inv, OutputTypeOK
  <1>5. alive' => framed' = parser'.hold
    <2>1. parser.actions \in Items /\ Unmarked(parser.actions) /\ framed \in BOOLEAN
      BY DEF Inv, Framing, OutputTypeOK, Items
    <2>2. OpenAfter(parser.actions, framed) = framed
      BY <2>1, Quiet
    <2> QED  BY <1>3, <2>2 DEF SendGathered, Send, Shown, Inv, Framing
  <1>6. ~ (alive' /\ dead')
    BY DEF SendGathered, Send, Inv, Ends
  <1> QED  BY <1>1, <1>3, <1>4, <1>5, <1>6 DEF Inv, Phases, Framing, Ends

\* A read of the socket keeps the invariant.
LEMMA SocketReadKeepsInv ==
    ASSUME BuffersAssumption, Inv, ReadSocket
    PROVE  Inv'
  <1>1. PICK n \in 1 .. ParserBuffer :
            /\ n <= Len(socket)
            /\ parser' = [parser EXCEPT !.at = "parse", !.input = SubSeq(socket, 1, n),
                                        !.read = n]
            /\ socket' = SubSeq(socket, n + 1, Len(socket))
    BY DEF ReadSocket
  <1>2. socket \in Items /\ Len(socket) \in Nat /\ ParserBuffer \in Nat
        /\ SocketBuffer \in Nat /\ Len(socket) <= SocketBuffer
    BY LenProperties DEF Inv, OutputTypeOK, Items, BuffersAssumption
  <1>3. n \in 1 .. Len(socket)
    BY <1>1, <1>2
  <1>4. /\ SubSeq(socket, 1, n) \in Items /\ socket' \in Items
        /\ Len(socket') <= SocketBuffer
    <2>1. SubSeq(socket, 1, n) \in Items /\ socket' \in Items
          /\ Len(socket') = Len(socket) - n
      BY <1>1, <1>2, <1>3, Cut
    <2> QED  BY <1>2, <1>3, <2>1
  <1>5. n \in 0 .. ParserBuffer
    BY <1>1, <1>2
  <1>6. OutputTypeOK'
    BY <1>1, <1>4, <1>5 DEF ReadSocket, Inv, OutputTypeOK, Items
  <1>7. parser'.at = "parse" /\ parser'.actions = parser.actions
        /\ parser'.hold = parser.hold
    BY <1>1 DEF Inv, OutputTypeOK
  <1> QED  BY <1>6, <1>7 DEF ReadSocket, Inv, Phases, Framing, Ends, Unmarked

\* The end of the stream keeps the invariant.
LEMMA ReadEndKeepsInv ==
    ASSUME BuffersAssumption, Inv, ReadEnd
    PROVE  Inv'
  <1>1. << >> \in Items /\ Unmarked(<< >>)
    BY EmptySeq DEF Items, Unmarked
  <1>2. /\ parser'.at = "ended" /\ parser'.actions = << >> /\ parser'.input = << >>
        /\ parser'.hold = parser.hold
    BY DEF ReadEnd, Inv, Phases, OutputTypeOK
  <1>3. OutputTypeOK'
    BY <1>1, ShownType DEF ReadEnd, Inv, OutputTypeOK, Items
  <1>4. alive' => framed' = parser'.hold
    <2>1. parser.actions \in Items /\ Unmarked(parser.actions) /\ framed \in BOOLEAN
      BY DEF Inv, Framing, OutputTypeOK, Items
    <2>2. OpenAfter(parser.actions, framed) = framed
      BY <2>1, Quiet
    <2> QED  BY <1>2, <2>2 DEF ReadEnd, Shown, Inv, Framing
  <1> QED  BY <1>1, <1>2, <1>3, <1>4 DEF ReadEnd, Inv, Phases, Framing, Ends

\* The end of the data read keeps the invariant: only what is gathered outside of an
\* update is waited with.
LEMMA ParsedKeepsInv ==
    ASSUME BuffersAssumption, Inv, Parsed
    PROVE  Inv'
  <1> DEFINE next == IF parser.actions # << >> /\ ~ parser.hold THEN "decide" ELSE "read"
             counted == AtMostBuffer(parser.size + parser.read)
  <1>1. /\ counted \in 0 .. ParserBuffer /\ 0 \in 0 .. ParserBuffer
        /\ next \in {"read", "parse", "decide", "poll", "ended"}
    BY DEF AtMostBuffer, Inv, OutputTypeOK, BuffersAssumption
  <1>2. parser' = [parser EXCEPT !.at = next, !.size = counted, !.read = 0]
    BY DEF Parsed
  <1>3. next \in {"decide", "read"}
        /\ (next = "decide" => parser.actions # << >> /\ ~ parser.hold)
    OBVIOUS
  <1> HIDE DEF next, counted
  <1>4. OutputTypeOK'
    BY <1>1, <1>2 DEF Parsed, Inv, OutputTypeOK
  <1>5. /\ parser'.at = next /\ parser'.actions = parser.actions
        /\ parser'.hold = parser.hold /\ parser'.input = << >>
    BY <1>2 DEF Parsed, Inv, OutputTypeOK
  <1> QED  BY <1>3, <1>4, <1>5 DEF Parsed, Inv, Phases, Framing, Ends, Unmarked

\* Parsing an action keeps the invariant: gathered actions never hold a mark, as each
\* mark sends them, and hold follows the mark.
LEMMA ParseKeepsInv ==
    ASSUME BuffersAssumption, Inv, Parse
    PROVE  Inv'
  <1> DEFINE item == Head(parser.input)
             rest == Tail(parser.input)
             gathered == Append(parser.actions, item)
             flush == item \in {"begin", "end"}
  <1>1. /\ item \in Kinds /\ rest \in Items /\ gathered \in Items
        /\ parser.actions \in Items /\ Unmarked(parser.actions) /\ framed \in BOOLEAN
    BY HeadTailProperties, AppendProperties
       DEF Parse, Inv, Framing, OutputTypeOK, Items
  <1>2. << >> \in Items /\ Unmarked(<< >>)
    BY EmptySeq DEF Items, Unmarked
  <1>3. CASE flush
    <2>1. parser' = [parser EXCEPT !.input = rest, !.hold = (item = "begin"),
                                   !.actions = << >>, !.size = 0]
      BY <1>3 DEF Parse
    <2>2. Send(gathered)
      BY <1>3 DEF Parse
    <2>3. OpenAfter(gathered, framed) = (item = "begin")
      BY <1>1, <1>3, Marked DEF Marks
    <2> HIDE DEF item, rest, gathered, flush
    <2>4. OutputTypeOK'
      <3>1. 0 \in 0 .. ParserBuffer
        BY DEF BuffersAssumption
      <3>2. (item = "begin") \in BOOLEAN
        OBVIOUS
      <3>3. parser' \in [at : {"read", "parse", "decide", "poll", "ended"},
                     input : Seq(Kinds), actions : Seq(Kinds), hold : BOOLEAN,
                     read : 0 .. ParserBuffer, size : 0 .. ParserBuffer,
                     deadline : {"none", "ahead", "passed"}]
        BY <1>1, <1>2, <2>1, <3>1, <3>2 DEF Inv, OutputTypeOK, Items
      <3> QED  BY <2>2, <3>3, SendType DEF Parse, Inv, OutputTypeOK
    <2>5. /\ parser'.at = "parse" /\ parser'.actions = << >>
          /\ parser'.hold = (item = "begin")
      BY <2>1 DEF Parse, Inv, OutputTypeOK
    <2>6. alive' => framed' = parser'.hold
      BY <2>2, <2>3, <2>5 DEF Parse, Send, Shown
    <2>7. ~ (alive' /\ dead')
      BY <2>2 DEF Parse, Send, Inv, Ends
    <2> QED  BY <1>2, <2>4, <2>5, <2>6, <2>7 DEF Parse, Inv, Phases, Framing, Ends
  <1>4. CASE ~ flush
    <2>1. parser' = [parser EXCEPT !.input = rest, !.actions = gathered]
      BY <1>1, <1>4 DEF Parse, Inv, OutputTypeOK
    <2>2. UNCHANGED <<dead, framed, probe>>
      BY <1>4 DEF Parse
    <2>3. Unmarked(gathered)
      <3>1. /\ Len(parser.actions) \in Nat
            /\ DOMAIN parser.actions = 1 .. Len(parser.actions)
            /\ DOMAIN gathered = 1 .. Len(parser.actions) + 1
        BY <1>1, LenProperties, AppendProperties DEF Items
      <3>2. /\ \A i \in 1 .. Len(parser.actions) : gathered[i] = parser.actions[i]
            /\ gathered[Len(parser.actions) + 1] = item
        BY <1>1, AppendProperties DEF Items
      <3> HIDE DEF gathered
      <3> QED  BY <1>1, <1>4, <3>1, <3>2 DEF Unmarked, Marks
    <2> HIDE DEF item, rest, gathered, flush
    <2>4. OutputTypeOK'
      BY <1>1, <2>1, <2>2 DEF Parse, Inv, OutputTypeOK, Items
    <2>5. /\ parser'.at = "parse" /\ parser'.actions = gathered
          /\ parser'.hold = parser.hold
      BY <2>1 DEF Parse, Inv, OutputTypeOK
    <2> QED  BY <2>2, <2>3, <2>4, <2>5 DEF Parse, Inv, Phases, Framing, Ends
  <1> QED  BY <1>3, <1>4

\* All steps of the parser thread, and time, keep the invariant.
LEMMA ParserKeepsInv ==
    ASSUME BuffersAssumption, Inv, ParserThread \/ Elapse
    PROVE  Inv'
  <1>1. CASE Decide
    <2>1. CASE SendGathered
      BY <1>1, <2>1, GatheredSent DEF Decide
    <2>2. CASE /\ parser' = [parser EXCEPT !.at = "poll", !.deadline = "ahead"]
               /\ UNCHANGED <<dead, framed, probe>>
      <3>1. OutputTypeOK'
        BY <1>1, <2>2 DEF Decide, Inv, OutputTypeOK
      <3>2. /\ parser'.at = "poll" /\ parser'.actions = parser.actions
            /\ parser'.hold = parser.hold /\ parser'.input = parser.input
        BY <2>2 DEF Inv, OutputTypeOK
      <3> QED  BY <1>1, <2>2, <3>1, <3>2
                  DEF Decide, Inv, Phases, Framing, Ends, Unmarked
    <2> QED  BY <1>1, <2>1, <2>2 DEF Decide
  <1>2. CASE Poll
    <2>1. CASE SendGathered
      BY <1>2, <2>1, GatheredSent DEF Poll
    <2>2. CASE /\ parser' = [parser EXCEPT !.at = "read"]
               /\ UNCHANGED <<dead, framed, probe>>
      <3>1. OutputTypeOK'
        BY <1>2, <2>2 DEF Poll, Inv, OutputTypeOK
      <3>2. /\ parser'.at = "read" /\ parser'.actions = parser.actions
            /\ parser'.hold = parser.hold /\ parser'.input = parser.input
        BY <2>2 DEF Inv, OutputTypeOK
      <3> QED  BY <1>2, <2>2, <3>1, <3>2
                  DEF Poll, Inv, Phases, Framing, Ends, Unmarked
    <2> QED  BY <1>2, <2>1, <2>2 DEF Poll
  <1>3. CASE Elapse
    <2>1. OutputTypeOK'
      BY <1>3 DEF Elapse, Inv, OutputTypeOK
    <2>2. /\ parser'.at = parser.at /\ parser'.actions = parser.actions
          /\ parser'.hold = parser.hold /\ parser'.input = parser.input
      BY <1>3 DEF Elapse, Inv, OutputTypeOK
    <2> QED  BY <1>3, <2>1, <2>2 DEF Elapse, Inv, Phases, Framing, Ends, Unmarked
  <1> QED  BY <1>1, <1>2, <1>3, SocketReadKeepsInv, ReadEndKeepsInv, ParseKeepsInv,
              ParsedKeepsInv DEF ParserThread

\* The invariant holds throughout, for buffers of any size.
THEOREM OutputInvariance == ASSUME BuffersAssumption PROVE OutputSpec => []Inv
  <1>1. OutputInit => Inv
    BY AtTheStart
  <1>2. Inv /\ [OutputNext]_outputVars => Inv'
    <2> SUFFICES ASSUME Inv, [OutputNext]_outputVars
                 PROVE  Inv'
      OBVIOUS
    <2>1. CASE OutputNext
      BY <2>1, ProgramKeepsInv, ReaderKeepsInv, ParserKeepsInv DEF OutputNext
    <2>2. CASE UNCHANGED outputVars
      BY <2>2 DEF outputVars, Inv, Phases, Framing, Ends, OutputTypeOK, Unmarked
    <2> QED  BY <2>1, <2>2
  <1> QED  BY <1>1, <1>2, PTL DEF OutputSpec

\* The variables of the pipeline keep their types and the buffers their
\* bounds.
THEOREM OutputTypeCorrect == ASSUME BuffersAssumption PROVE OutputSpec => []OutputTypeOK
  <1>1. Inv => OutputTypeOK
    BY DEF Inv
  <1> QED  BY <1>1, OutputInvariance, PTL

------------------------------------------------------------------------------
(* The refinement.                                                          *)

Behind(input) == ((input \o socket) \o reader.chunk) \o pty

\* What is under way is the gathered actions and what is behind them.
LEMMA ActionsAhead ==
    ASSUME Inv, NEW actions \in Items, NEW input \in Items
    PROVE  /\ Behind(input) \in Items
           /\ (((actions \o input) \o socket) \o reader.chunk) \o pty
                = actions \o Behind(input)
  <1>1. socket \in Items /\ reader.chunk \in Items /\ pty \in Items
    BY DEF Inv, OutputTypeOK, Items
  <1> DEFINE read == input \o socket
             chunk == reader.chunk
             sent == read \o chunk
  <1>2. read \in Items
    BY <1>1, ConcatProperties DEF Items
  <1>3. (actions \o input) \o socket = actions \o read
    BY <1>1, Associative
  <1>4. chunk \in Items
    BY <1>1
  <1>5. (((actions \o input) \o socket) \o chunk) \o pty = ((actions \o read) \o chunk) \o pty
    BY <1>3
  <1>6. Behind(input) = sent \o pty
    BY DEF Behind
  <1> HIDE DEF read, chunk
  <1>7. sent \in Items
    BY <1>2, <1>4, ConcatProperties DEF Items
  <1>8. (actions \o read) \o chunk = actions \o sent
    BY <1>2, <1>4, Associative
  <1> HIDE DEF sent
  <1>9. pty \in Items
    BY <1>1
  <1>10. sent \o pty \in Items
    BY <1>7, <1>9, ConcatProperties DEF Items
  <1>11. (actions \o sent) \o pty = actions \o (sent \o pty)
    BY <1>7, <1>9, Associative
  <1> QED  BY <1>5, <1>6, <1>8, <1>10, <1>11 DEF chunk

\* With nothing gathered, what is under way is what is behind the gathered.
LEMMA NothingGathered ==
    ASSUME Inv, parser'.actions = << >>, parser'.input \in Items,
           UNCHANGED <<socket, reader, pty>>
    PROVE  UnderWay' = Behind(parser'.input)
  <1>1. << >> \o parser'.input = parser'.input
    BY ConcatEmptySeq DEF Items
  <1> QED  BY <1>1 DEF UnderWay, Behind

\* A step that takes a batch off what is under way is a Show of the stream,
\* when the batch leaves no update open, ends with a begin or is the rest.
LEMMA ShowsABatch ==
    ASSUME NEW batch \in Items, NEW rest \in Items, batch # << >>,
           alive, alive', ended' = ended,
           UnderWay = batch \o rest, UnderWay' = rest,
           framed' = OpenAfter(batch, framed),
           \/ ~ OpenAfter(batch, framed)
           \/ batch[Len(batch)] = "begin"
           \/ ended /\ rest = << >>
    PROVE  Stream!Show
  <1> DEFINE n == Len(batch)
  <1>1. /\ n \in 1 .. Len(UnderWay)
        /\ SubSeq(UnderWay, 1, n) = batch
        /\ SubSeq(UnderWay, n + 1, Len(UnderWay)) = rest
    BY BatchOff
  <1>2. rest = << >> => n = Len(UnderWay)
    BY ConcatEmptySeq DEF Items
  <1>3. OpenAfter(batch, framed) = Stream!Opens(batch, framed)
    BY DEF OpenAfter, Stream!Opens
  <1>4. \/ ~ Stream!Opens(batch, framed)
        \/ batch[n] = "begin"
        \/ (ended \/ ~ alive) /\ n = Len(UnderWay)
    BY <1>2, <1>3
  <1>5. framed' = Stream!Opens(batch, framed)
    BY <1>3
  <1> QED  BY <1>1, <1>4, <1>5, Zenon DEF Stream!Show

\* What the program writes is appended to all that is under way.
LEMMA WriteIsWrite ==
    ASSUME Inv, NEW kind \in Kinds, Write(kind)
    PROVE  alive' => Stream!Write
  <1> SUFFICES ASSUME alive' PROVE Stream!Write
    OBVIOUS
  <1>1. alive /\ ~ ended /\ ~ ended' /\ framed' = framed
    BY DEF Write, Inv, OutputTypeOK
  <1>2. UnderWay' = Append(UnderWay, kind)
    <2> DEFINE ahead == ((parser.actions \o parser.input) \o socket) \o reader.chunk
    <2>1. ahead \in Items /\ pty \in Items
      <3>1. /\ parser.actions \in Items /\ parser.input \in Items /\ socket \in Items
            /\ reader.chunk \in Items /\ pty \in Items
        BY DEF Inv, OutputTypeOK, Items
      <3>2. \A s, t \in Items : s \o t \in Items
        BY ConcatProperties DEF Items
      <3> QED  BY <3>1, <3>2
    <2>2. UnderWay = ahead \o pty /\ UnderWay' = ahead \o Append(pty, kind)
      BY DEF UnderWay, Write
    <2> HIDE DEF ahead
    <2>3. ahead \o Append(pty, kind) = Append(ahead \o pty, kind)
      <3>1. << kind >> \in Items
        BY DEF Items
      <3>2. ahead \o (pty \o << kind >>) = (ahead \o pty) \o << kind >>
        BY <2>1, <3>1, Associative
      <3>3. ahead \o pty \in Items
        BY <2>1, ConcatProperties DEF Items
      <3>4. /\ Append(pty, kind) = pty \o << kind >>
            /\ Append(ahead \o pty, kind) = (ahead \o pty) \o << kind >>
        BY <2>1, <3>3, AppendIsConcat DEF Items
      <3> QED  BY <3>2, <3>4
    <2> QED  BY <2>2, <2>3
  <1> QED  BY <1>1, <1>2 DEF Stream!Write

\* The reader thread moves output and changes none of it.
LEMMA ReaderMovesOutput ==
    ASSUME BuffersAssumption, Inv, ReaderThread
    PROVE  UnderWay' = UnderWay
  <1> DEFINE ahead == (parser.actions \o parser.input) \o socket
  <1>1. /\ parser.actions \o parser.input \in Items
        /\ ahead \in Items /\ socket \in Items /\ reader.chunk \in Items /\ pty \in Items
    BY ConcatProperties DEF Inv, OutputTypeOK, Items
  <1>2. UnderWay = (ahead \o reader.chunk) \o pty
    BY DEF UnderWay
  <1>3. CASE Read
    <2>1. reader.chunk = << >> /\ ahead' = ahead
      BY <1>3 DEF Read, Inv, Phases
    <2>2. UnderWay' = (ahead \o reader'.chunk) \o pty'
      BY <2>1 DEF UnderWay
    <2> HIDE DEF ahead
    <2>3. CASE reader'.chunk = << >> /\ pty' = pty
      BY <1>2, <2>1, <2>2, <2>3
    <2>4. CASE \E n \in 1 .. ReaderBuffer :
                  /\ n <= Len(pty)
                  /\ reader' = [at |-> "write", chunk |-> SubSeq(pty, 1, n)]
                  /\ pty' = SubSeq(pty, n + 1, Len(pty))
      <3>1. PICK n \in 1 .. ReaderBuffer :
                  /\ n <= Len(pty)
                  /\ reader' = [at |-> "write", chunk |-> SubSeq(pty, 1, n)]
                  /\ pty' = SubSeq(pty, n + 1, Len(pty))
        BY <2>4
      <3>2. n \in 1 .. Len(pty)
        <4>1. Len(pty) \in Nat
          BY <1>1, LenProperties DEF Items
        <4> QED  BY <3>1, <4>1 DEF BuffersAssumption
      <3>3. (ahead \o << >>) \o pty
                = (ahead \o SubSeq(pty, 1, n)) \o SubSeq(pty, n + 1, Len(pty))
        BY <1>1, <3>2, Refill
      <3> QED  BY <1>2, <2>1, <2>2, <3>1, <3>3
    <2> QED  BY <1>3, <2>3, <2>4 DEF Read
  <1>4. CASE WriteSocket
    <2> DEFINE gathered == parser.actions \o parser.input
    <2>1. /\ reader.chunk # << >>
          /\ socket' = Append(socket, Head(reader.chunk))
          /\ reader'.chunk = Tail(reader.chunk)
          /\ gathered' = gathered /\ pty' = pty
      BY <1>4 DEF WriteSocket, Inv, Phases
    <2>2. (gathered \o socket) \o reader.chunk = (gathered \o socket') \o reader'.chunk
      <3> DEFINE chunk == reader.chunk
      <3>1. gathered \in Items /\ chunk \in Items /\ chunk # << >> /\ socket \in Items
        BY <1>1, <2>1
      <3>2. socket' = Append(socket, Head(chunk)) /\ reader'.chunk = Tail(chunk)
        BY <2>1
      <3> HIDE DEF gathered, chunk
      <3>3. (gathered \o socket) \o chunk
                = (gathered \o Append(socket, Head(chunk))) \o Tail(chunk)
        BY <3>1, ShiftBehind
      <3> QED  BY <3>2, <3>3 DEF chunk
    <2> QED  BY <2>1, <2>2 DEF UnderWay
  <1> QED  BY <1>3, <1>4 DEF ReaderThread

\* A read of the socket moves output and changes none of it.
LEMMA SocketReadMovesOutput ==
    ASSUME BuffersAssumption, Inv, ReadSocket
    PROVE  UnderWay' = UnderWay
  <1>1. PICK n \in 1 .. ParserBuffer :
            /\ n <= Len(socket)
            /\ parser' = [parser EXCEPT !.at = "parse", !.input = SubSeq(socket, 1, n),
                                        !.read = n]
            /\ socket' = SubSeq(socket, n + 1, Len(socket))
    BY DEF ReadSocket
  <1>2. parser.actions \in Items /\ socket \in Items /\ parser.input = << >>
    BY DEF ReadSocket, Inv, Phases, OutputTypeOK, Items
  <1>3. n \in 1 .. Len(socket)
    <2>1. Len(socket) \in Nat
      BY <1>2, LenProperties DEF Items
    <2> QED  BY <1>1, <2>1 DEF BuffersAssumption
  <1>4. (parser.actions \o << >>) \o socket
           = (parser.actions \o SubSeq(socket, 1, n)) \o SubSeq(socket, n + 1, Len(socket))
    BY <1>2, <1>3, Refill
  <1>5. parser'.actions = parser.actions /\ parser'.input = SubSeq(socket, 1, n)
    BY <1>1 DEF Inv, OutputTypeOK
  <1>6. (parser.actions \o parser.input) \o socket
            = (parser'.actions \o parser'.input) \o socket'
    BY <1>1, <1>2, <1>4, <1>5
  <1>7. reader' = reader /\ pty' = pty
    BY DEF ReadSocket
  <1> QED  BY <1>6, <1>7 DEF UnderWay

\* What is sent without a mark (after a wait or a full buffer) is shown
\* outside of updates.
LEMMA GatheredAreShown ==
    ASSUME Inv, alive, alive', parser.at \in {"decide", "poll"}, SendGathered,
           UNCHANGED <<pty, ended, reader, socket>>
    PROVE  Stream!Show
  <1> DEFINE rest == Behind(parser.input)
  <1>1. /\ parser.actions \in Items /\ parser.actions # << >> /\ parser.input \in Items
        /\ Unmarked(parser.actions) /\ framed = FALSE
    BY DEF Inv, Phases, Framing, OutputTypeOK, Items
  <1>2. rest \in Items /\ UnderWay = parser.actions \o rest
    BY <1>1, ActionsAhead DEF UnderWay
  <1>3. parser'.actions = << >> /\ parser'.input = parser.input
    BY DEF SendGathered, Inv, OutputTypeOK
  <1>4. UnderWay' = rest
    BY <1>1, <1>3, NothingGathered
  <1>5. ~ OpenAfter(parser.actions, framed)
    BY <1>1, Quiet
  <1>6. framed' = OpenAfter(parser.actions, framed)
    BY DEF SendGathered, Send, Shown
  <1> HIDE DEF rest
  <1> QED  BY <1>1, <1>2, <1>4, <1>5, <1>6, ShowsABatch

\* At the end of the stream the gathered actions are all there is, and shown.
LEMMA ReadEndShowsTheRest ==
    ASSUME Inv, alive, alive', ReadEnd
    PROVE  Stream!Show \/ UNCHANGED Stream!vars
  <1> DEFINE actions == parser.actions
  <1>1. /\ parser.input = << >> /\ socket = << >> /\ reader.chunk = << >> /\ pty = << >>
        /\ ended /\ ended' = ended /\ actions \in Items
    BY DEF ReadEnd, Inv, Phases, Ends, OutputTypeOK, Items
  <1>2. << >> \in Items /\ Behind(<< >>) = << >>
    BY <1>1, EmptySeq, ConcatEmptySeq DEF Behind, Items
  <1>3. UnderWay = actions \o << >>
    BY <1>1, <1>2, ActionsAhead DEF UnderWay
  <1>4. UnderWay' = << >>
    <2>1. parser'.actions = << >> /\ parser'.input = << >>
          /\ UNCHANGED <<socket, reader, pty>>
      BY <1>1 DEF ReadEnd, Inv, OutputTypeOK
    <2> QED  BY <1>2, <2>1, NothingGathered
  <1>5. CASE actions # << >>
    <2>1. framed' = OpenAfter(actions, framed)
      BY <1>5 DEF ReadEnd, Shown
    <2> HIDE DEF actions
    <2> QED  BY <1>1, <1>2, <1>3, <1>4, <1>5, <2>1, ShowsABatch
  <1>6. CASE actions = << >>
    <2>1. framed' = framed
      BY <1>6 DEF ReadEnd
    <2>2. UnderWay = << >>
      BY <1>2, <1>3, <1>6, ConcatEmptySeq DEF Items
    <2> QED  BY <1>1, <1>4, <2>1, <2>2 DEF Stream!vars
  <1> QED  BY <1>5, <1>6

\* A mark sends what was gathered with it: at an end no update is open, and a
\* begin is the last of its batch.  Other actions are only gathered.
LEMMA ParseShowsUpdates ==
    ASSUME Inv, alive, alive', Parse
    PROVE  Stream!Show \/ UNCHANGED Stream!vars
  <1> DEFINE actions == parser.actions
             input == parser.input
             item == Head(input)
             later == Tail(input)
             gathered == Append(actions, item)
             flush == item \in {"begin", "end"}
             rest == Behind(later)
  <1>1. /\ actions \in Items /\ Unmarked(actions) /\ framed \in BOOLEAN
        /\ input \in Items /\ input # << >>
    BY DEF Parse, Inv, Framing, OutputTypeOK, Items
  <1>2. /\ parser'.input = later
        /\ parser'.actions = IF flush THEN << >> ELSE gathered
        /\ socket' = socket /\ reader' = reader /\ pty' = pty /\ ended' = ended
    BY DEF Parse, Inv, OutputTypeOK
  <1>3. CASE flush
    <2>1. framed' = OpenAfter(gathered, framed)
      BY <1>3 DEF Parse, Send, Shown
    <2>2. UnderWay = (((actions \o input) \o socket) \o reader.chunk) \o pty
      BY DEF UnderWay
    <2> HIDE DEF actions, input
    <2>3. item \in Kinds /\ later \in Items /\ actions \o input = gathered \o later
      BY <1>1, HeadTailProperties, Shift DEF Items
    <2>4. OpenAfter(gathered, framed) = (item = "begin")
      BY <1>1, <1>3, Marked DEF Marks
    <2>5. gathered \in Items /\ gathered # << >> /\ gathered[Len(gathered)] = item
      <3> HIDE DEF item
      <3> QED  BY <1>1, <2>3, AppendProperties DEF Items
    <2>6. UnderWay = (((gathered \o later) \o socket) \o reader.chunk) \o pty
      BY <2>2, <2>3
    <2>7. UnderWay' = rest
      BY <1>2, <1>3, <2>3, NothingGathered
    <2> HIDE DEF gathered, later, item
    <2>8. rest \in Items /\ UnderWay = gathered \o rest
      BY <2>3, <2>5, <2>6, ActionsAhead
    <2> HIDE DEF rest
    <2> QED  BY <1>2, <2>1, <2>4, <2>5, <2>7, <2>8, ShowsABatch
  <1>4. CASE ~ flush
    <2>1. actions \o input = gathered \o later
      <3> HIDE DEF actions, input
      <3> QED  BY <1>1, Shift
    <2>2. UnderWay' = UnderWay
      BY <1>2, <1>4, <2>1 DEF UnderWay
    <2>3. framed' = framed
      BY <1>4 DEF Parse
    <2> QED  BY <1>2, <2>2, <2>3 DEF Stream!vars
  <1> QED  BY <1>3, <1>4

\* A step that only moves output is no step of the stream.
LEMMA OutputMoved ==
    ASSUME UnderWay' = UnderWay, UNCHANGED <<framed, ended, alive>>
    PROVE  UNCHANGED Stream!vars
  BY DEF Stream!vars

\* Every step of the pipeline while the pane lives is one of the stream or
\* none.
LEMMA StepsOfTheStream ==
    ASSUME BuffersAssumption, Inv, [OutputNext]_outputVars
    PROVE  [alive' => Stream!Next]_(Stream!vars)
  <1> SUFFICES ASSUME alive'
               PROVE  Stream!Next \/ UNCHANGED Stream!vars
    OBVIOUS
  <1>1. CASE \E kind \in Kinds : Write(kind)
    BY <1>1, WriteIsWrite DEF Stream!Next
  <1>2. CASE End
    <2>1. alive /\ UnderWay' = UnderWay /\ framed' = framed /\ ended'
      BY <1>2 DEF End, UnderWay
    <2> QED  BY <2>1 DEF Stream!Next, Stream!End
  <1>3. CASE Forget
    BY <1>3 DEF Forget
  <1>4. CASE ReaderThread
    <2>1. UNCHANGED <<framed, ended, alive>>
      BY <1>4 DEF ReaderThread, Read, WriteSocket
    <2> QED  BY <1>4, <2>1, ReaderMovesOutput, OutputMoved
  <1>5. CASE ReadSocket
    <2>1. UNCHANGED <<framed, ended, alive>>
      BY <1>5 DEF ReadSocket
    <2> QED  BY <1>5, <2>1, SocketReadMovesOutput, OutputMoved
  <1>6. CASE ReadEnd
    <2>1. alive
      BY <1>6 DEF ReadEnd
    <2> QED  BY <1>6, <2>1, ReadEndShowsTheRest DEF Stream!Next
  <1>7. CASE Parse
    <2>1. alive
      BY <1>7 DEF Parse
    <2> QED  BY <1>7, <2>1, ParseShowsUpdates DEF Stream!Next
  <1>8. CASE Parsed \/ Elapse
    <2>1. /\ parser'.actions = parser.actions /\ parser'.input = parser.input
          /\ UNCHANGED <<pty, socket, reader, framed, ended, alive>>
      BY <1>8 DEF Parsed, Elapse, Inv, OutputTypeOK
    <2>2. UnderWay' = UnderWay
      BY <2>1 DEF UnderWay
    <2> QED  BY <2>1, <2>2, OutputMoved
  <1>9. CASE Decide \/ Poll
    <2>1. alive /\ parser.at \in {"decide", "poll"}
          /\ UNCHANGED <<pty, ended, reader, socket>>
      BY <1>9 DEF Decide, Poll
    <2>2. CASE SendGathered
      BY <2>1, <2>2, GatheredAreShown DEF Stream!Next
    <2>3. CASE ~ SendGathered
      <3>1. /\ parser'.actions = parser.actions /\ parser'.input = parser.input
            /\ framed' = framed /\ alive' = alive
        BY <1>9, <2>3 DEF Decide, Poll, Inv, OutputTypeOK
      <3>2. UnderWay' = UnderWay
        BY <2>1, <3>1 DEF UnderWay
      <3> QED  BY <2>1, <3>1, <3>2, OutputMoved
    <2> QED  BY <2>2, <2>3
  <1>10. CASE UNCHANGED outputVars
    <2>1. UnderWay' = UnderWay
      BY <1>10 DEF outputVars, UnderWay
    <2> QED  BY <1>10, <2>1, OutputMoved DEF outputVars
  <1> QED  BY <1>1, <1>2, <1>3, <1>4, <1>5, <1>6, <1>7, <1>8, <1>9, <1>10
           DEF OutputNext, ParserThread

\* The pipeline implements OutputStream while the pane lives: whatever the
\* sizes of the buffers, and however reads, waits and full buffers cut the
\* stream, what the program writes is shown once and in order, and no batch
\* tears a synchronized update (mux/src/lib.rs:122 to 372).
THEOREM NoOutputIsLostOrTorn ==
    ASSUME BuffersAssumption PROVE OutputSpec => ShowsTheStream
  <1>1. OutputInit => Stream!Init
    <2> SUFFICES ASSUME OutputInit PROVE Stream!Init
      OBVIOUS
    <2>1. << >> \o << >> = << >>
      BY EmptySeq, ConcatEmptySeq
    <2>2. UnderWay = << >>
      BY <2>1 DEF OutputInit, UnderWay
    <2> QED  BY <2>2 DEF OutputInit, Stream!Init
  <1>2. Inv /\ [OutputNext]_outputVars => [alive' => Stream!Next]_(Stream!vars)
    BY StepsOfTheStream
  <1> QED  BY <1>1, <1>2, OutputInvariance, PTL DEF OutputSpec, ShowsTheStream

=============================================================================
