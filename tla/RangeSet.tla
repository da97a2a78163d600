------------------------------ MODULE RangeSet ------------------------------
(***************************************************************************)
(* The set of integers kept as a vector of ranges (rangeset/src/lib.rs),   *)
(* in which panes report their dirty rows and fonts their coverage.  A     *)
(* range is a pair <<start, end>> with the end left out.                   *)
(*                                                                         *)
(* set is a RangeSet; members is the reference, the plain set of integers  *)
(* that the operations called so far add up to.  The integers are bounded  *)
(* by MaxValue, the number of ranges pushed unchecked by MaxUnchecked.     *)
(***************************************************************************)
EXTENDS Integers, Sequences, SequencesExt, FiniteSets, FiniteSetsExt

CONSTANTS MaxValue, MaxUnchecked

ASSUME ValuesAssumption == MaxValue \in Nat \ {0} /\ MaxUnchecked \in Nat

VARIABLES
    set,        \* the vector of ranges and needs_sort
    members,    \* reference: the integers in it
    unchecked   \* ranges pushed by add_range_unchecked so far

rangeVars == <<set, members, unchecked>>

Ranges == {r \in (0 .. MaxValue) \X (0 .. MaxValue) : r[1] < r[2]}
Span(r) == r[1] .. r[2] - 1
Values(ranges) == UNION {Span(r) : r \in Range(ranges)}

------------------------------------------------------------------------------
Larger(m, n) == IF m > n THEN m ELSE n
Smaller(m, n) == IF m < n THEN m ELSE n

Intersects(r, s) == Smaller(r[2], s[2]) > Larger(r[1], s[1])

Intersection(r, s) == <<Larger(r[1], s[1]), Smaller(r[2], s[2])>>

Union(r, s) == <<Smaller(r[1], s[1]), Larger(r[2], s[2])>>

\* The parts of r on both sides of s, in order.
Subtract(r, s) ==
    LET i == Intersection(r, s)
    IN IF ~ Intersects(r, s) THEN <<r>>
       ELSE (IF i[1] = r[1] THEN << >> ELSE <<<<r[1], i[1]>>>>)
            \o (IF i[2] = r[2] THEN << >> ELSE <<<<i[2], r[2]>>>>)

\* The order of the search: a range that holds all of s is equal.
Covers(r, s) == s[1] >= r[1] /\ s[2] <= r[2]
LiesAfter(r, s) == s[1] < r[1]

\* binary_search_by, [base, size] the part of the vector that is left: the half
\* that s lies in.
Halved(ranges, s, part) ==
    LET half == part.size \div 2
        rest == part.size - half
    IN IF half = 0 THEN part
       ELSE IF LiesAfter(ranges[part.base + half + 1], s)
         THEN [base |-> part.base, size |-> rest]
         ELSE [base |-> part.base + half, size |-> rest]

\* The position (from 0) of the one range it ends at.
Search(ranges, s) ==
    LET part[n \in 0 .. Len(ranges)] ==
            IF n = 0 THEN [base |-> 0, size |-> Len(ranges)]
            ELSE Halved(ranges, s, part[n - 1])
    IN  part[Len(ranges)].base

\* Where a range is that holds s, or where s would go.
BinarySearch(ranges, s) ==
    LET at == Search(ranges, s)
    IN IF ranges = << >> THEN [found |-> FALSE, at |-> 0]
       ELSE IF Covers(ranges[at + 1], s) THEN [found |-> TRUE, at |-> at]
       ELSE [found |-> FALSE, at |-> IF LiesAfter(ranges[at + 1], s) THEN at ELSE at + 1]

\* The first range a new one is merged with is that of the search or the one
\* before it, if it meets s; the one behind is looked at only then.
Meets(r, s) == Intersects(r, s) \/ r[2] = s[1]

First(ranges, s) ==
    LET search == BinarySearch(ranges, s)
    IN IF search.found THEN search.at ELSE Larger(search.at - 1, 0)

\* A range that meets two neighbours takes in the second, and is added anew.
Joined(adding) ==
    LET ranges == adding.ranges
        a == First(ranges, adding.range)
    IN IF /\ a + 1 < Len(ranges)
          /\ Meets(ranges[a + 1], adding.range) /\ Meets(ranges[a + 2], adding.range)
         THEN [ranges |-> RemoveAt(ranges, a + 2),
               range  |-> Union(adding.range, ranges[a + 2])]
         ELSE adding

\* One that meets no two goes into the one it meets, or into its place.
Placed(adding) ==
    LET ranges == adding.ranges
        a == First(ranges, adding.range)
    IN IF a < Len(ranges) /\ Meets(ranges[a + 1], adding.range)
         THEN ReplaceAt(ranges, a + 1, Union(ranges[a + 1], adding.range))
         ELSE InsertAt(ranges, BinarySearch(ranges, adding.range).at + 1, adding.range)

AddRange(ranges, s) ==
    LET adding[n \in 0 .. Len(ranges)] ==
            IF n = 0 THEN [ranges |-> ranges, range |-> s] ELSE Joined(adding[n - 1])
    IN  Placed(adding[Len(ranges)])

\* sort_by_key, which keeps the order of ranges with one start: r goes behind
\* those that do not start after it.
InOrder(ranges, r) ==
    InsertAt(ranges, Cardinality({i \in DOMAIN ranges : ~ LiesAfter(ranges[i], r)}) + 1, r)

Ordered(ranges) ==
    LET ordered[n \in 0 .. Len(ranges)] ==
            IF n = 0 THEN << >> ELSE InOrder(ordered[n - 1], ranges[n])
    IN  ordered[Len(ranges)]

Sorted(rs) ==
    IF rs.needsSort THEN [ranges |-> Ordered(rs.ranges), needsSort |-> FALSE] ELSE rs

\* add_range: an empty set takes the range without a look at needs_sort.
Added(rs, s) ==
    IF rs.ranges = << >> THEN [rs EXCEPT !.ranges = <<s>>]
    ELSE LET sorted == Sorted(rs) IN [sorted EXCEPT !.ranges = AddRange(@, s)]

\* Mutant: what is left behind the removed part is forgotten.
MutRest(r, s) == SelectSeq(Subtract(r, s), LAMBDA part : part[1] = r[1])

Rest(r, s) == Subtract(r, s)

AddedAll(rs, ranges) ==
    LET after[n \in 0 .. Len(ranges)] ==
            IF n = 0 THEN rs ELSE Added(after[n - 1], ranges[n])
    IN  after[Len(ranges)]

\* One range r of the vector: it stays, or leaves the parts of it that are not
\* in s to be added again.
Cut(found, r, s) ==
    IF Rest(r, s) = <<r>> THEN [found EXCEPT !.kept = Append(@, r)]
    ELSE [found EXCEPT !.parts = @ \o Rest(r, s)]

Found(rs, s) ==
    LET found[n \in 0 .. Len(rs.ranges)] ==
            IF n = 0 THEN [kept |-> << >>, parts |-> << >>]
            ELSE Cut(found[n - 1], rs.ranges[n], s)
    IN  found[Len(rs.ranges)]

\* remove_range
Removed(rs, s) ==
    LET found == Found(rs, s)
    IN AddedAll([rs EXCEPT !.ranges = found.kept], found.parts)

RemovedAll(rs, ranges) ==
    LET after[n \in 0 .. Len(ranges)] ==
            IF n = 0 THEN rs ELSE Removed(after[n - 1], ranges[n])
    IN  after[Len(ranges)]

Empty == [ranges |-> << >>, needsSort |-> FALSE]

Difference(rs, other) == RemovedAll(rs, other.ranges)

\* intersection: what each range of rs has in common with r is added.
WithCommon(result, rs, r) ==
    LET after[n \in 0 .. Len(rs.ranges)] ==
            IF n = 0 THEN result
            ELSE IF Intersects(rs.ranges[n], r)
              THEN Added(after[n - 1], Intersection(rs.ranges[n], r))
              ELSE after[n - 1]
    IN  after[Len(rs.ranges)]

Common(rs, other) ==
    LET after[n \in 0 .. Len(other.ranges)] ==
            IF n = 0 THEN Empty ELSE WithCommon(after[n - 1], rs, other.ranges[n])
    IN  after[Len(other.ranges)]

------------------------------------------------------------------------------
RangesInit ==
    /\ set = Empty
    /\ members = {}
    /\ unchecked = 0

Add(r) ==
    /\ set' = Added(set, r)
    /\ members' = members \cup Span(r)
    /\ UNCHANGED unchecked

RemoveRange(r) ==
    /\ set' = Removed(set, r)
    /\ members' = members \ Span(r)
    /\ UNCHANGED unchecked

AddUnchecked(r) ==
    /\ unchecked < MaxUnchecked
    /\ set' = [ranges |-> Append(set.ranges, r), needsSort |-> TRUE]
    /\ members' = members \cup Span(r)
    /\ unchecked' = unchecked + 1

SortIfNeeded ==
    /\ set.needsSort
    /\ set' = Sorted(set)
    /\ UNCHANGED <<members, unchecked>>

\* The intersection with another set, built by two calls.
Intersect(r, s) ==
    LET other == Added(Added(Empty, r), s)
    IN /\ set' = Common(set, other)
       /\ members' = members \cap Values(other.ranges)
       /\ UNCHANGED unchecked

\* What another such set does not hold.
TakeDifference(r, s) ==
    LET other == Added(Added(Empty, r), s)
    IN /\ set' = Difference(set, other)
       /\ members' = members \ Values(other.ranges)
       /\ UNCHANGED unchecked

RangesNext ==
    \/ \E r \in Ranges : Add(r) \/ RemoveRange(r) \/ AddUnchecked(r)
    \/ \E r, s \in Ranges : Intersect(r, s) \/ TakeDifference(r, s)
    \/ SortIfNeeded

RangesSpec == RangesInit /\ [][RangesNext]_rangeVars

------------------------------------------------------------------------------
(* Properties.                                                              *)

\* Whatever is added, removed, intersected and pushed unchecked, the ranges
\* stand for exactly the integers of the calls: merging, splitting and the
\* search for the place lose and invent nothing, also when ranges overlap.
HoldsItsMembers == Values(set.ranges) = members

\* "Track a set of integers, collapsing adjacent integers into ranges"
\* (rangeset/src/lib.rs:6): as long as nothing is pushed unchecked no integer
\* is in two ranges, so len() is the size of the set.
LenIsTheSize ==
    unchecked = 0 =>
      Cardinality(members)
        = FoldLeft(LAMBDA n, r : n + r[2] - r[1], 0, set.ranges)

=============================================================================
