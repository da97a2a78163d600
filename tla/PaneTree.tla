------------------------------ MODULE PaneTree ------------------------------
(***************************************************************************)
(* The pane tree of one tab (mux/src/tab.rs over the bintree crate) and    *)
(* everything that changes it: splitting, closing, pruning, zooming,       *)
(* focusing, swapping and rotating panes.                                  *)
(*                                                                         *)
(* A tree is a function from the paths of its leaves to panes; a path is a *)
(* sequence of turns, 0 to the left and 1 to the right, and the empty      *)
(* function is Tree::Empty.  The tab stores its active pane as the INDEX   *)
(* of a leaf in preorder and its zoomed pane as the pane itself, so every  *)
(* change of the tree has to keep the first one right.                     *)
(*                                                                         *)
(* A split reads the tree, awaits the spawn of the new pane and only then  *)
(* inserts it: BeginSplit and FinishSplit, with anything in between.  One  *)
(* pass of remove_pane_if is a walk with one step per leaf under the tab   *)
(* lock.  Sizes are left out; where they decide (no space for a split, the *)
(* neighbour in a direction) any outcome may happen.                       *)
(***************************************************************************)
EXTENDS Integers, Sequences, SequencesExt, FiniteSets

CONSTANTS
    Panes,           \* the panes that may ever be spawned
    NoPane,
    Together,        \* the most panes one removal pass finds to remove
    UnzoomOnSwitch   \* the values of the config unzoom_on_switch_pane, which is
                     \* read anew by each operation

NoPaneAssumption == NoPane \notin Panes
TogetherAssumption == Together \in Nat
PanesAssumption == IsFiniteSet(Panes)
FlagsAssumption == UnzoomOnSwitch \subseteq BOOLEAN

VARIABLES
    tab,     \* TabInner: its tree, active index and zoomed pane
    unborn,  \* the panes not spawned yet
    split,   \* the split_pane call that awaits its new pane
    walk,    \* the remove_pane_if pass under way
    doubled  \* history: a swap has put the zoomed pane in a second place

treeVars == <<tab, unborn, split, walk, doubled>>

-----------------------------------------------------------------------------
(* Trees.                                                                  *)

Turns == {0, 1}

PanesOf(tree) == {tree[p] : p \in DOMAIN tree}

NumLeaves(tree) == Cardinality(DOMAIN tree)

Under(tree, path) == {p \in DOMAIN tree : IsPrefix(path, p)}

(* p comes before q in preorder; neither is a prefix of the other.         *)
Before(p, q) ==
    \E i \in 1 .. Len(p) :
        /\ i <= Len(q)
        /\ SubSeq(p, 1, i - 1) = SubSeq(q, 1, i - 1)
        /\ p[i] < q[i]

IndexOf(tree, path) == Cardinality({p \in DOMAIN tree : Before(p, path)})

Leaf(tree, index) == CHOOSE p \in DOMAIN tree : IndexOf(tree, p) = index

PaneAt(tree, index) ==
    IF index < NumLeaves(tree) THEN tree[Leaf(tree, index)] ELSE NoPane

(* The first leaf that holds the pane, which may stand in several.         *)
PathOf(tree, pane) ==
    CHOOSE p \in DOMAIN tree :
        tree[p] = pane /\ \A q \in DOMAIN tree : tree[q] = pane => ~Before(q, p)

IndexOfPane(tree, pane) == IndexOf(tree, PathOf(tree, pane))

FirstUnder(tree, path) ==
    CHOOSE p \in Under(tree, path) : \A q \in Under(tree, path) : ~Before(q, p)

Rest(path, prefix) == SubSeq(path, Len(prefix) + 1, Len(path))

(* The leaf at path becomes a node over two leaves.                        *)
SplitLeaf(tree, path, first, second) ==
    [p \in (DOMAIN tree \ {path}) \cup {path \o <<0>>, path \o <<1>>} |->
        CASE p = path \o <<0>> -> first
          [] p = path \o <<1>> -> second
          [] OTHER             -> tree[p]]

(* The whole tree becomes one side of a new root, the pane the other.      *)
SplitRoot(tree, pane, second) ==
    LET side == IF second THEN 0 ELSE 1
    IN  [p \in {<<side>> \o q : q \in DOMAIN tree} \cup {<<1 - side>>} |->
            IF p = <<1 - side>> THEN pane ELSE tree[Tail(p)]]

(* Mutant: the parent stays behind, with one child.                        *)
MutUnsplitKeepsParent(tree, path) == [p \in DOMAIN tree \ {path} |-> tree[p]]

(* The leaf at path goes and its sibling takes the place of their parent.  *)
Unsplit(tree, path) ==
    LET parent  == Front(path)
        sibling == parent \o <<1 - Last(path)>>
        raised  == {parent \o Rest(p, sibling) : p \in Under(tree, sibling)}
    IN  [p \in {q \in DOMAIN tree : ~IsPrefix(parent, q)} \cup raised |->
            IF p \in raised THEN tree[sibling \o Rest(p, parent)] ELSE tree[p]]

WellFormed(tree) ==
    \A p \in DOMAIN tree :
        /\ p \in Seq(Turns)
        /\ Under(tree, p) = {p}
        /\ \A i \in 1 .. Len(p) :
             Under(tree, SubSeq(p, 1, i - 1) \o <<1 - p[i]>>) # {}

EmptyTree == << >>

-----------------------------------------------------------------------------
(* The methods of TabInner, as functions from tabs to tabs.                *)

ActiveLeaf(t) == PaneAt(t.tree, t.active)

GetActivePane(t) == IF t.zoomed # NoPane THEN t.zoomed ELSE ActiveLeaf(t)

ToggleZoomed(t) == [t EXCEPT !.zoomed = IF @ # NoPane THEN NoPane ELSE ActiveLeaf(t)]

SetZoomed(t, zoomed) == IF (t.zoomed # NoPane) = zoomed THEN t ELSE ToggleZoomed(t)

SetActiveIdx(t, index) == [t EXCEPT !.active = index]

(* iter_panes: a zoomed tab shows its zoomed pane only, at index 0.        *)
VisibleIndices(t) == IF t.zoomed # NoPane THEN {0} ELSE 0 .. NumLeaves(t.tree) - 1

SetActivePane(t, pane, unzoom) ==
    LET unzoomed == SetZoomed(t, FALSE)
    IN  IF \/ GetActivePane(t) = pane
           \/ t.zoomed # NoPane /\ ~unzoom
        THEN t
        ELSE IF pane \in PanesOf(t.tree)
             THEN SetActiveIdx(unzoomed, IndexOfPane(t.tree, pane))
             ELSE unzoomed

(* Mutant: the leaf at the active index does not get the swapped pane.     *)
MutSwapOneWay(t, index, keepFocus) ==
    IF GetActivePane(t) = NoPane \/ index >= NumLeaves(t.tree) THEN t
    ELSE [t EXCEPT !.tree[Leaf(t.tree, index)] = GetActivePane(t)]

SwapActiveWithIndex(t, index, keepFocus) ==
    IF GetActivePane(t) = NoPane \/ index >= NumLeaves(t.tree) THEN t
    ELSE LET there   == Leaf(t.tree, index)
             placed  == [t.tree EXCEPT ![there] = GetActivePane(t)]
             swapped == [placed EXCEPT ![Leaf(t.tree, t.active)] = t.tree[there]]
         IN  IF t.active >= NumLeaves(t.tree) THEN [t EXCEPT !.tree = placed]
             ELSE [t EXCEPT !.tree = swapped,
                            !.active = IF keepFocus THEN index ELSE @]

(* Every leaf takes the pane that stands `by` leaves further round.        *)
Rotate(t, by) ==
    [t EXCEPT !.tree = [p \in DOMAIN t.tree |->
        PaneAt(t.tree, (IndexOf(t.tree, p) + by) % NumLeaves(t.tree))]]

SplitAndInsert(t, index, pane, top, second) ==
    IF top /\ NumLeaves(t.tree) > 1
    THEN [t EXCEPT !.tree = SplitRoot(@, pane, second),
                   !.active = IF second THEN NumLeaves(t.tree) ELSE 0]
    ELSE LET path == Leaf(t.tree, index)
         IN  [t EXCEPT !.tree = IF second THEN SplitLeaf(@, path, @[path], pane)
                                ELSE SplitLeaf(@, path, pane, @[path]),
                       !.active = IF second THEN index + 1 ELSE @]

(* Mutant: a removed active pane does not count.                           *)
MutShiftActive(active, removed) == active - Cardinality({i \in removed : i < active})

(* Mutant: the active index is left alone.                                 *)
MutShiftNothing(active, removed) == active

(* removed_indices.retain, then a saturating subtraction.                  *)
ShiftActive(active, removed) ==
    LET earlier == Cardinality({i \in removed : i <= active})
    IN  IF earlier > active THEN 0 ELSE active - earlier

-----------------------------------------------------------------------------
(* A removal pass.                                                         *)

AtEnd == <<2>>

NoWalk == [targets |-> {}, cursor |-> AtEnd, index |-> 0, removed |-> {}, was |-> NoPane]

NoSplit == [target |-> NoPane, top |-> FALSE, second |-> FALSE, moved |-> NoPane]

(* The tab lock is free, and no pane is between two places.                *)
TabUnlocked == walk = NoWalk /\ split.moved = NoPane

(* Mutant: the zoomed pane is forgotten about when it is removed.          *)
MutRemoveLeaf(t, path) ==
    IF path = << >> THEN [t EXCEPT !.tree = EmptyTree]
    ELSE [t EXCEPT !.tree = Unsplit(@, path)]

RemoveLeaf(t, path) ==
    [t EXCEPT !.tree   = IF path = << >> THEN EmptyTree ELSE Unsplit(@, path),
              !.zoomed = IF @ = t.tree[path] THEN NoPane ELSE @]

(* Mutant: the walk stops before the last leaf.                            *)
MutNextLeaf(tree, path) ==
    IF IndexOf(tree, path) + 2 < NumLeaves(tree)
    THEN Leaf(tree, IndexOf(tree, path) + 1)
    ELSE AtEnd

NextLeaf(tree, path) ==
    IF IndexOf(tree, path) + 1 < NumLeaves(tree)
    THEN Leaf(tree, IndexOf(tree, path) + 1)
    ELSE AtEnd

(* unsplit_leaf leaves the cursor on the sibling, which now stands in the  *)
(* parent's place, and preorder_next moves on from there: past a sibling   *)
(* that is a leaf, but into one that is a node, even if it was on the left *)
(* and has been walked already.                                            *)
CursorAfterRemoval(tree, path) ==
    CASE path = << >>                -> AtEnd
      [] Front(path) \in DOMAIN tree -> NextLeaf(tree, Front(path))
      [] OTHER                       -> FirstUnder(tree, Front(path))

StartWalk(t, targets) ==
    [targets |-> targets, cursor |-> FirstUnder(t.tree, << >>), index |-> 0,
     removed |-> {}, was |-> ActiveLeaf(t)]

(* kill_pane, remove_pane, kill_panes_in_domain, prune_dead_panes          *)
BeginRemoval ==
    /\ TabUnlocked
    /\ \E targets \in (SUBSET PanesOf(tab.tree)) \ {{}} :
         /\ Cardinality(targets) <= Together
         /\ walk' = StartWalk(tab, targets)
    /\ UNCHANGED <<tab, unborn, split, doubled>>

WalkPast ==
    /\ walk.cursor # AtEnd
    /\ tab.tree[walk.cursor] \notin walk.targets
    /\ walk' = [walk EXCEPT !.cursor = NextLeaf(tab.tree, @), !.index = @ + 1]
    /\ UNCHANGED <<tab, unborn, split, doubled>>

WalkRemove ==
    /\ walk.cursor # AtEnd
    /\ tab.tree[walk.cursor] \in walk.targets
    /\ tab' = RemoveLeaf(tab, walk.cursor)
    /\ walk' = [walk EXCEPT !.cursor = CursorAfterRemoval(tab'.tree, @),
                            !.index = @ + 1, !.removed = @ \cup {walk.index}]
    /\ UNCHANGED <<unborn, split, doubled>>

WalkEnd ==
    /\ walk # NoWalk
    /\ walk.cursor = AtEnd
    /\ tab' = [tab EXCEPT !.active = ShiftActive(@, walk.removed)]
    /\ walk' = NoWalk
    /\ UNCHANGED <<unborn, split, doubled>>

-----------------------------------------------------------------------------
(* Splits.                                                                 *)

(* Up to the await in Domain::split_pane.  compute_split_size unzooms the  *)
(* tab, but not for a top level split.                                     *)
BeginSplit ==
    /\ TabUnlocked
    /\ split = NoSplit
    /\ unborn # {}
    /\ \E target \in PanesOf(tab.tree), top, second \in BOOLEAN :
         /\ split' = [NoSplit EXCEPT !.target = target, !.top = top, !.second = second]
         /\ tab' = IF top THEN tab ELSE SetZoomed(tab, FALSE)
    /\ UNCHANGED <<unborn, walk, doubled>>

(* A pane of the same tab is moved instead: nothing is awaited between its *)
(* removal from the tree and its insertion beside the target.              *)
BeginMove ==
    /\ TabUnlocked
    /\ split = NoSplit
    /\ \E target, moved \in PanesOf(tab.tree), top, second \in BOOLEAN :
         LET t == IF top THEN tab ELSE SetZoomed(tab, FALSE)
         IN  /\ split' = [target |-> target, top |-> top, second |-> second, moved |-> moved]
             /\ tab' = t
             /\ walk' = StartWalk(t, {moved})
    /\ UNCHANGED <<unborn, doubled>>

Arriving == IF split.moved = NoPane THEN unborn ELSE {split.moved}

(* Mutant: the active pane is split, whatever the target was.              *)
MutFinishSplitAtActive ==
    /\ walk = NoWalk
    /\ split # NoSplit
    /\ split.target \in PanesOf(tab.tree)
    /\ tab.zoomed = NoPane
    /\ \E pane \in Arriving :
         /\ tab' = SplitAndInsert(tab, tab.active, pane, split.top, split.second)
         /\ unborn' = unborn \ {pane}
    /\ split' = NoSplit
    /\ UNCHANGED <<walk, doubled>>

(* After the await: the index of the target is looked up again.            *)
FinishSplit ==
    /\ walk = NoWalk
    /\ split # NoSplit
    /\ split.target \in PanesOf(tab.tree)
    /\ tab.zoomed = NoPane
    /\ \E pane \in Arriving :
         /\ tab' = SplitAndInsert(tab, IndexOfPane(tab.tree, split.target), pane,
                                  split.top, split.second)
         /\ unborn' = unborn \ {pane}
    /\ split' = NoSplit
    /\ UNCHANGED <<walk, doubled>>

(* The target has gone, the tab is zoomed or there is no space.  The pane  *)
(* that was spawned or moved is in no tab from here on.                    *)
RefuseSplit ==
    /\ walk = NoWalk
    /\ split # NoSplit
    /\ \E pane \in Arriving : unborn' = unborn \ {pane}
    /\ split' = NoSplit
    /\ UNCHANGED <<tab, walk, doubled>>

SpawnFails ==
    /\ TabUnlocked
    /\ split # NoSplit
    /\ split' = NoSplit
    /\ UNCHANGED <<tab, unborn, walk, doubled>>

-----------------------------------------------------------------------------
(* Focus, zoom and order.                                                  *)

ToggleZoom ==
    /\ TabUnlocked
    /\ tab' = ToggleZoomed(tab)
    /\ UNCHANGED <<unborn, split, walk, doubled>>

(* The SetPaneZoom assignment, the pane selector and the Lua method.       *)
SetZoom ==
    /\ TabUnlocked
    /\ \E zoomed \in BOOLEAN : tab' = SetZoomed(tab, zoomed)
    /\ UNCHANGED <<unborn, split, walk, doubled>>

(* The mux server's SetPaneZoomed: unzoom, activate, zoom.                 *)
SetPaneZoomed ==
    /\ TabUnlocked
    /\ \E pane \in Panes \ unborn, zoomed \in BOOLEAN :
         /\ IF tab.zoomed = NoPane THEN zoomed ELSE (tab.zoomed = pane) # zoomed
         /\ LET t == SetZoomed(tab, FALSE)
            IN  tab' = IF zoomed THEN SetZoomed(SetActivePane(t, pane, FALSE), TRUE) ELSE t
    /\ UNCHANGED <<unborn, split, walk, doubled>>

FocusPane ==
    /\ TabUnlocked
    /\ \E pane \in Panes \ unborn, unzoom \in UnzoomOnSwitch :
         tab' = SetActivePane(tab, pane, unzoom)
    /\ UNCHANGED <<unborn, split, walk, doubled>>

(* ActivatePaneByIndex, the pane selector and a mouse press on a pane.     *)
ActivatePaneByIndex ==
    /\ TabUnlocked
    /\ \E index \in VisibleIndices(tab) : tab' = SetActiveIdx(tab, index)
    /\ UNCHANGED <<unborn, split, walk, doubled>>

ActivatePaneDirection ==
    /\ TabUnlocked
    /\ tab.zoomed = NoPane \/ TRUE \in UnzoomOnSwitch
    /\ LET t == SetZoomed(tab, FALSE)
       IN  tab' \in IF ActiveLeaf(t) = NoPane THEN {SetActiveIdx(t, 0)}
                    ELSE {t} \cup {SetActiveIdx(t, i) : i \in VisibleIndices(t)}
    /\ UNCHANGED <<unborn, split, walk, doubled>>

(* The tab is zoomed on a pane that is not the one at its active index.    *)
ZoomedElsewhere(t) == t.zoomed \notin {NoPane, ActiveLeaf(t)}

(* The pane selector's labels may be older than the tree.  It unzoomed the *)
(* tab as it was opened, but the tab may be zoomed again by now and have   *)
(* another active index: then the zoomed pane is put in the place of the   *)
(* leaf with the index, and keeps its own.                                 *)
SwapPanes ==
    /\ TabUnlocked
    /\ \E index \in 0 .. Cardinality(Panes) - 1, keepFocus \in BOOLEAN :
         tab' = SwapActiveWithIndex(tab, index, keepFocus)
    /\ doubled' = (doubled \/ (ZoomedElsewhere(tab) /\ tab' # tab))
    /\ UNCHANGED <<unborn, split, walk>>

RotatePanes ==
    /\ TabUnlocked
    /\ \E by \in {1, -1} : tab' = Rotate(tab, by)
    /\ UNCHANGED <<unborn, split, walk, doubled>>

TreeInit ==
    /\ \E pane \in Panes :
         /\ tab = [tree |-> [p \in {<< >>} |-> pane], active |-> 0, zoomed |-> NoPane]
         /\ unborn = Panes \ {pane}
    /\ split = NoSplit
    /\ walk = NoWalk
    /\ doubled = FALSE

RemovalPass == BeginRemoval \/ WalkPast \/ WalkRemove \/ WalkEnd

Split == BeginSplit \/ BeginMove \/ FinishSplit \/ RefuseSplit \/ SpawnFails

Zoom == ToggleZoom \/ SetZoom \/ SetPaneZoomed

Focus == FocusPane \/ ActivatePaneByIndex \/ ActivatePaneDirection

TreeNext == RemovalPass \/ Split \/ Zoom \/ Focus \/ SwapPanes \/ RotatePanes

TreeSpec == TreeInit /\ [][TreeNext]_treeVars

-----------------------------------------------------------------------------
(* Properties.                                                             *)

(* The tree is a proper binary tree (a node has both of its children) of   *)
(* panes that were spawned, through every split, unsplit, swap and rotation*)
(* of bintree and TabInner, and until a swap puts the zoomed pane in a     *)
(* second place no pane stands twice; the other fields have their types.   *)
TreeTypeOK ==
    /\ WellFormed(tab.tree)
    /\ ~doubled => \A p, q \in DOMAIN tab.tree : tab.tree[p] = tab.tree[q] => p = q
    /\ PanesOf(tab.tree) \subseteq Panes \ unborn
    /\ tab.active \in Nat
    /\ tab.zoomed \in Panes \cup {NoPane}
    /\ split.target \in Panes \cup {NoPane}
    /\ walk.targets \subseteq Panes
    /\ doubled \in BOOLEAN

(* A pass that finds one pane to remove, in one place; of passes that find *)
(* several leaves it is known that they may miscount (README).             *)
FindsOne == Cardinality(walk.targets) = 1 /\ ~doubled

(* A tab that has an active pane keeps one while it has panes: after every *)
(* operation but a pass over several, the active index of TabInner names a *)
(* leaf, so get_active_pane() answers Some.                                *)
KeepsAnActivePane ==
    [][ /\ walk' = NoWalk
        /\ NumLeaves(tab'.tree) > 0
        /\ \/ walk = NoWalk /\ ActiveLeaf(tab) # NoPane
           \/ FindsOne /\ walk.was # NoPane
        => ActiveLeaf(tab') # NoPane ]_treeVars

(* A zoomed pane is a pane of the tab: closing, moving, splitting and      *)
(* swapping never leave the tab showing a pane its tree no longer holds.   *)
ZoomedPaneIsInTab == tab.zoomed # NoPane => tab.zoomed \in PanesOf(tab.tree)

(* Every operation of TabInner leaves a proper tree and, if it leaves the  *)
(* tab zoomed, a zoomed pane that is in the tree.                          *)
TreeIsSound == TreeTypeOK /\ ZoomedPaneIsInTab

(* "If panes earlier than the active pane were closed, then we need to     *)
(* shift the active pane down" (tab.rs): the pane that was active before a *)
(* pass that removes one pane and is still in the tree is active after it. *)
SurvivorStaysActive ==
    [][ FindsOne /\ walk' = NoWalk /\ walk.was \in PanesOf(tab'.tree)
        => ActiveLeaf(tab') = walk.was ]_treeVars

(* Both: whatever happens to the panes around it, the active pane of a tab *)
(* stays so, or another takes its place.                                   *)
StaysActive == KeepsAnActivePane /\ SurvivorStaysActive

(* A removal pass whose condition holds for one pane removes it, as its    *)
(* callers kill_pane, remove_pane and prune_dead_panes are named for; and  *)
(* a pane leaves the tree only through a pass that was asked to remove it. *)
(* No split, rotation or swap loses one, but the swap in a tab zoomed on   *)
(* another pane than the one at its active index.                          *)
TargetsLeave ==
    [][ /\ (FindsOne /\ walk' = NoWalk) => PanesOf(tab'.tree) \cap walk.targets = {}
        /\ ~(SwapPanes /\ ZoomedElsewhere(tab)) =>
             PanesOf(tab.tree) \ PanesOf(tab'.tree) \subseteq walk.targets ]_treeVars

(* A new pane lands beside the pane it was asked to split, on the side     *)
(* asked for, whatever moved while it was being spawned; at top level it   *)
(* is the first or the last of the tab.  Put second, it becomes active.    *)
SplitLandsBesideItsTarget ==
    [][ \A new \in PanesOf(tab'.tree) \ PanesOf(tab.tree) :
          LET at     == IndexOfPane(tab'.tree, new)
              beside == IF split.top
                        THEN IF split.second THEN NumLeaves(tab.tree) ELSE 0
                        ELSE IndexOfPane(tab.tree, split.target)
                             + (IF split.second THEN 1 ELSE 0)
          IN  at = beside /\ (split.second => GetActivePane(tab') = new) ]_treeVars

(* "Swap the active pane with the specified pane_index" (tab.rs): no other *)
(* pane is put in the place of either, so the tab keeps its panes.  It     *)
(* does not hold for the swap in a tab zoomed on another pane than the one *)
(* at its active index, which a rotation or a choice by index leaves behind. *)
SwapKeepsThePanes ==
    [][ TabUnlocked /\ unborn' = unborn /\ walk' = walk
          /\ ~(SwapPanes /\ ZoomedElsewhere(tab))
        => PanesOf(tab'.tree) = PanesOf(tab.tree) ]_treeVars

=============================================================================
