----------------------------- MODULE TabGeometry -----------------------------
(***************************************************************************)
(* The sizes of the splits and panes of a tab (mux/src/tab.rs).            *)
(*                                                                         *)
(* A tree is a leaf, with the size its pane was last given, or a node with *)
(* a direction, the sizes of its two halves and its children.  A size has  *)
(* cells in x (cols) and in y (rows); the code's pairs of functions, one   *)
(* for each axis, are one operator over the axis here.  A divider takes    *)
(* one cell.  Pixels, which follow from the cells, are left out, and so is *)
(* who has the focus: PaneTree has that.                                   *)
(*                                                                         *)
(* Sizes are the sizes a window may ask for, Deltas the steps of a drag of *)
(* a divider, and Requests the sizes asked for a new pane.                 *)
(***************************************************************************)
EXTENDS Integers, Sequences, FiniteSets, FiniteSetsExt

CONSTANTS Sizes, Deltas, Requests, MaxPanes

SizesAssumption == Sizes \subseteq [x : Nat, y : Nat]
BoundsAssumption == Deltas \subseteq Int /\ Requests \subseteq Nat /\ MaxPanes \in Nat

VARIABLES
    tree,       \* the splits and panes
    size,       \* the size of the tab
    zoomed,     \* the position of the zoomed pane, or NoLeaf
    unzoomedSize, \* size_before_zoom
    hung        \* an operation that never returns, with the tab locked

vars == <<tree, size, zoomed, unzoomedSize, hung>>

Axes == {"x", "y"}
NoLeaf == -1
Larger(m, n) == IF m > n THEN m ELSE n

------------------------------------------------------------------------------
(* Trees.                                                                   *)

Leaf(s) == [kind |-> "leaf", size |-> s]
Node(axis, first, second, left, right) ==
    [kind |-> "node", axis |-> axis, first |-> first, second |-> second,
     left |-> left, right |-> right]

\* What is left of a subtree that an operation never gets done with.
Stuck == [kind |-> "stuck"]

IsNode(t) == t.kind = "node"

RECURSIVE Leaves(_), Nodes(_), HasStuck(_)
Leaves(t) == IF IsNode(t) THEN Leaves(t.left) + Leaves(t.right) ELSE 1
Nodes(t) == IF IsNode(t) THEN 1 + Nodes(t.left) + Nodes(t.right) ELSE 1
HasStuck(t) == IF IsNode(t) THEN HasStuck(t.left) \/ HasStuck(t.right) ELSE t = Stuck

\* width() and height() of a split.
Extent(t) ==
    [a \in Axes |-> IF a = t.axis THEN t.first[a] + t.second[a] + 1 ELSE t.first[a]]

\* compute_min_size
RECURSIVE MinSize(_)
MinSize(t) ==
    IF ~ IsNode(t) THEN [x |-> 1, y |-> 1]
    ELSE LET l == MinSize(t.left)
             r == MinSize(t.right)
         IN [a \in Axes |-> IF a = t.axis THEN l[a] + r[a] + 1 ELSE Larger(l[a], r[a])]

\* adjust_x_size and adjust_y_size.  Along the axis the halves change in turn,
\* one cell at a time; when neither can give a cell the loop goes on for ever.
RECURSIVE Adjust(_, _, _)
Adjust(t, n, a) ==
    IF n = 0 \/ ~ IsNode(t) THEN t
    ELSE IF a # t.axis THEN
        LET new == Larger(t.first[a] + n, MinSize(t)[a])
            d == new - t.first[a]
        IN IF d = 0 THEN t
           ELSE [t EXCEPT !.left = Adjust(@, d, a), !.right = Adjust(@, d, a),
                          !.first[a] = new, !.second[a] = new]
    ELSE LET step == IF n > 0 THEN 1 ELSE -1
             one == n > 0 \/ t.first[a] > 1
             rest == IF one THEN n - step ELSE n
             two == IF n > 0 THEN rest > 0 ELSE rest < 0 /\ t.second[a] > 1
             lessened ==
               [t EXCEPT !.left = IF one THEN Adjust(@, step, a) ELSE @,
                         !.first[a] = IF one THEN @ + step ELSE @,
                         !.right = IF two THEN Adjust(@, step, a) ELSE @,
                         !.second[a] = IF two THEN @ + step ELSE @]
         IN IF ~ one /\ ~ two THEN Stuck
            ELSE Adjust(lessened, IF two THEN rest - step ELSE rest, a)

\* apply_sizes_from_splits
RECURSIVE SizesApplied(_, _)
SizesApplied(t, s) ==
    IF IsNode(t)
      THEN [t EXCEPT !.left = SizesApplied(@, t.first), !.right = SizesApplied(@, t.second)]
      ELSE Leaf(s)

\* Mutant: the divider is forgotten.
MutSizeApplied(t, s) ==
    [t EXCEPT !.first = [s EXCEPT ![t.axis] = t.first[t.axis]],
              !.second = [s EXCEPT ![t.axis] = Larger(0, s[t.axis] - t.first[t.axis])]]

\* apply_pane_size: the first half keeps its size along the axis.
SizeApplied(t, s) ==
    LET a == t.axis
    IN [t EXCEPT !.first = [s EXCEPT ![a] = t.first[a]],
                 !.second = [s EXCEPT ![a] = Larger(0, s[a] - (1 + t.first[a]))]]

\* The rest of a walk in preorder: whatever comes after the position from takes
\* the size that its parent has for it.
RECURSIVE Cascade(_, _, _, _)
Cascade(t, s, from, at) ==
    LET new == IF at <= from THEN t ELSE IF IsNode(t) THEN SizeApplied(t, s) ELSE Leaf(s)
    IN IF ~ IsNode(t) THEN new
       ELSE [new EXCEPT !.left = Cascade(@, new.first, from, at + 1),
                        !.right = Cascade(@, new.second, from, at + 1 + Nodes(new.left))]

\* Another subtree at a position in preorder.
RECURSIVE Replaced(_, _, _, _)
Replaced(t, pos, at, new) ==
    IF pos = at THEN new
    ELSE IF ~ IsNode(t) THEN t
    ELSE [t EXCEPT !.left = Replaced(@, pos, at + 1, new),
                   !.right = Replaced(@, pos, at + 1 + Nodes(t.left), new)]

\* Mutant: the divider is forgotten.
MutSecondOffset(t, off) == [off EXCEPT ![t.axis] = @ + t.first[t.axis]]

\* top_of_second and left_of_second
SecondOffset(t, off) == [off EXCEPT ![t.axis] = @ + t.first[t.axis] + 1]

\* The subtrees with their positions and, for each, the size its parent has for
\* it, its offset (iter_panes, iter_splits) and the position of its parent.
RECURSIVE Parts(_, _, _, _, _)
Parts(t, s, off, at, parent) ==
    {[tree |-> t, size |-> s, off |-> off, at |-> at, parent |-> parent]} \cup
    IF ~ IsNode(t) THEN {}
    ELSE Parts(t.left, t.first, off, at + 1, at) \cup
         Parts(t.right, t.second, SecondOffset(t, off), at + 1 + Nodes(t.left), at)

Origin == [x |-> 0, y |-> 0]
AllParts == Parts(tree, size, Origin, 0, NoLeaf)
LeafParts == {p \in AllParts : ~ IsNode(p.tree)}
NodeParts == {p \in AllParts : IsNode(p.tree)}

\* The splits around a part; go_up comes to the innermost first.
Holds(n, p) == n.at < p.at /\ p.at < n.at + Nodes(n.tree)

------------------------------------------------------------------------------
(* Operations.                                                              *)

\* An operation either gets done or leaves the tab locked for good.
Becomes(t, s) ==
    IF HasStuck(t) THEN hung' = TRUE /\ UNCHANGED <<tree, size>>
                   ELSE tree' = t /\ size' = s /\ UNCHANGED hung

\* TabInner::resize of a tab of the given current size that is not zoomed.
ResizedTo(t, current, s) ==
    LET min == MinSize(t)
        new == [a \in Axes |-> Larger(s[a], min[a])]
        x == Adjust(t, new.x - current.x, "x")
        y == Adjust(x, new.y - current.y, "y")
    IN [tree |-> IF HasStuck(y) THEN Stuck ELSE SizesApplied(y, new), size |-> new]

Resize(s) ==
    /\ s.x > 0 /\ s.y > 0
    /\ IF zoomed # NoLeaf
         THEN /\ size' = s
              /\ tree' = Replaced(tree, zoomed, 0, Leaf(s))
              /\ UNCHANGED hung
         ELSE LET new == ResizedTo(tree, size, s) IN Becomes(new.tree, new.size)
    /\ UNCHANGED <<zoomed, unzoomedSize>>

\* compute_split_size; the new pane is the second half or the first.
SplitDimension(dim, want, second) ==
    LET target == Larger(want, 1)
        remain == Larger(0, dim - (target + 1))
    IN IF second THEN <<remain, target>> ELSE <<target, remain>>

SplitOf(s, a, want, second) ==
    LET d == SplitDimension(s[a], want, second)
    IN [first |-> [s EXCEPT ![a] = d[1]], second |-> [s EXCEPT ![a] = d[2]]]

\* split_and_insert refuses an empty half, and one past the edge of the tab.
HasSpace(info, a, s) ==
    /\ \A b \in Axes : info.first[b] > 0 /\ info.second[b] > 0
    /\ \A b \in Axes : (IF a = b THEN info.first[b] + 1 ELSE 0) + info.second[b] <= s[b]

\* A split of the pane at a position; compute_split_size has unzoomed the tab.
SplitPane(p, a, want, second) ==
    LET info == SplitOf(p.size, a, want, second)
    IN /\ zoomed = NoLeaf
       /\ HasSpace(info, a, size)
       /\ tree' = Replaced(tree, p.at, 0,
                    Node(a, info.first, info.second, Leaf(info.first), Leaf(info.second)))
       /\ UNCHANGED <<size, zoomed, unzoomedSize, hung>>

\* A split across the tab: what is there is resized into its half first.
SplitTop(a, want, second) ==
    LET info == SplitOf(size, a, want, second)
        half == ResizedTo(tree, size, IF second THEN info.first ELSE info.second)
        pane == Leaf(IF second THEN info.second ELSE info.first)
        top == IF second THEN Node(a, info.first, info.second, half.tree, pane)
                         ELSE Node(a, info.first, info.second, pane, half.tree)
    IN /\ zoomed = NoLeaf
       /\ IsNode(tree)
       /\ HasSpace(info, a, size)
       /\ Becomes(top, half.size)
       /\ UNCHANGED <<zoomed, unzoomedSize>>

\* adjust_node_at_cursor and cascade_size_from_cursor
Moved(t, delta) ==
    LET a == t.axis
        extent == Extent(t)[a]
        wide == Larger(t.first[a] + delta, 1)
        first == IF wide > extent - 2 THEN extent - 2 ELSE wide
    IN [t EXCEPT !.first[a] = first, !.second[a] = Larger(0, extent - (first + 1))]

MoveDivider(n, delta) ==
    /\ zoomed = NoLeaf
    /\ tree' = Cascade(Replaced(tree, n.at, 0, Moved(n.tree, delta)), size, n.at, 0)
    /\ UNCHANGED <<size, zoomed, unzoomedSize, hung>>

\* resize_split_by takes any split, adjust_pane_size the innermost one around
\* the active pane that has its axis.
ResizeSplitBy == \E n \in NodeParts, delta \in Deltas : MoveDivider(n, delta)

AdjustPaneSize ==
    \E p \in LeafParts, a \in Axes, delta \in Deltas :
        LET around == {n \in NodeParts : Holds(n, p) /\ n.tree.axis = a}
        IN /\ around # {}
           /\ MoveDivider(CHOOSE n \in around : \A m \in around : m.at <= n.at, delta)

\* remove_pane_if of one pane: its sibling takes the place of the split, then
\* the walk goes on from there.
Remove(p) ==
    LET split == CHOOSE n \in NodeParts : n.at = p.parent
        sibling == IF p.at = split.at + 1 THEN split.tree.right ELSE split.tree.left
        extent == Extent(split.tree)
        grown == IF IsNode(sibling) THEN SizeApplied(sibling, extent) ELSE Leaf(extent)
    IN /\ IsNode(tree)
       /\ tree' = Cascade(Replaced(tree, split.at, 0, grown), size, split.at, 0)
       /\ zoomed' = IF zoomed = p.at THEN NoLeaf ELSE zoomed
       /\ zoomed \in {NoLeaf, p.at}   \* the others move in the tree: see PaneTree
       /\ UNCHANGED <<size, unzoomedSize, hung>>

\* toggle_zoom
Zoom(p) ==
    /\ zoomed = NoLeaf
    /\ zoomed' = p.at
    /\ unzoomedSize' = size
    /\ tree' = Replaced(tree, p.at, 0, Leaf(size))
    /\ UNCHANGED <<size, hung>>

Unzoom ==
    /\ zoomed # NoLeaf
    /\ zoomed' = NoLeaf
    /\ LET new == ResizedTo(tree, unzoomedSize, size) IN Becomes(new.tree, new.size)
    /\ UNCHANGED unzoomedSize

------------------------------------------------------------------------------
(* How a tab should be laid out.                                            *)

\* Each split makes up, with its divider, the size it has itself, and each pane
\* but the zoomed one has been given the size of its place.
LaidOut(t, s, zoom) ==
    \A n \in Parts(t, s, Origin, 0, NoLeaf) :
        IF IsNode(n.tree)
          THEN /\ Extent(n.tree) = n.size
               /\ \A a \in Axes \ {n.tree.axis} : n.tree.first[a] = n.tree.second[a]
          ELSE n.at # zoom => n.tree.size = n.size

\* No split is smaller than its panes and dividers need.
Fits(t, s) ==
    \A n \in Parts(t, s, Origin, 0, NoLeaf) :
        \A a \in Axes : n.size[a] >= MinSize(n.tree)[a]

\* The size the splits are made for.
SplitSize == IF zoomed = NoLeaf THEN size ELSE unzoomedSize

InOrder == LaidOut(tree, SplitSize, zoomed) /\ Fits(tree, SplitSize)

------------------------------------------------------------------------------
Init ==
    /\ size \in {s \in Sizes : s.x > 0 /\ s.y > 0}
    /\ tree = Leaf(size)
    /\ zoomed = NoLeaf
    /\ unzoomedSize = size
    /\ hung = FALSE

Split ==
    /\ Leaves(tree) < MaxPanes
    /\ \E a \in Axes, want \in Requests, second \in BOOLEAN :
          \/ \E p \in LeafParts : SplitPane(p, a, want, second)
          \/ SplitTop(a, want, second)

Next ==
    /\ ~ hung
    /\ InOrder     \* a bound: a tab in disorder is not followed any further
    /\ \/ \E s \in Sizes : Resize(s)
       \/ Split
       \/ ResizeSplitBy
       \/ AdjustPaneSize
       \/ \E p \in LeafParts : Remove(p) \/ Zoom(p)
       \/ Unzoom

Spec == Init /\ [][Next]_vars

------------------------------------------------------------------------------
(* Properties.                                                              *)

\* "The delta between the current and the new size is computed, and is
\* distributed between the splits" (tab.rs:605): no size a window may get makes
\* that loop for ever, with the tab locked.
ResizeReturns == ~ hung

\* The size of a tab that is not zoomed is the one its panes are laid out in: the
\* delta of the next resize is taken from it.
SizeIsThatOfThePanes ==
    (zoomed = NoLeaf /\ IsNode(tree) /\ ~ hung) => Extent(tree) = size

NewTop == \E a \in Axes, want \in Requests, second \in BOOLEAN : SplitTop(a, want, second)

\* Whatever is resized, split, moved, removed and zoomed in whatever order, the
\* sizes of the splits keep adding up to those around them, and each pane has
\* been told the size of its place.  A split across the tab, and the removal of
\* the zoomed pane, lay out the panes well, though not for the size the tab then
\* has; a divider that leaves too little for the splits beside it is excepted.
StaysInOrder ==
    [][LET laidOutFor == IF NewTop THEN size
                         ELSE IF zoomed # NoLeaf /\ zoomed' = NoLeaf /\ Leaves(tree') < Leaves(tree)
                           THEN unzoomedSize ELSE SplitSize'
       IN ~ hung' /\ Fits(tree', laidOutFor) => LaidOut(tree', laidOutFor, zoomed')]_vars

Cells(off, s) == {<<i, j>> : i \in off.x .. off.x + s.x - 1, j \in off.y .. off.y + s.y - 1}

Divider(n) ==
    LET a == n.tree.axis
    IN Cells([n.off EXCEPT ![a] = @ + n.tree.first[a]], [Extent(n.tree) EXCEPT ![a] = 1])

\* What is drawn of a tab in order: the panes and the dividers between them, at
\* the places computed for them, cover every cell once.
CoversTheTab ==
    (zoomed = NoLeaf /\ InOrder) =>
        LET areas == {Cells(p.off, p.size) : p \in LeafParts} \cup {Divider(n) : n \in NodeParts}
        IN /\ UNION areas = Cells(Origin, size)
           /\ MapThenSumSet(Cardinality, areas) = size.x * size.y

=============================================================================
