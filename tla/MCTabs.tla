-------------------------------- MODULE MCTabs --------------------------------
(***************************************************************************)
(* Small instances of the tab list of a window (MuxWindow), of the pane    *)
(* tree of a tab (PaneTree) and of its geometry (TabGeometry).  They share *)
(* no state.  A behavior is one of a single module, named by part, while   *)
(* the others stay as they were made, so that the states of one run are    *)
(* the sum of theirs and not the product.                                  *)
(*                                                                         *)
(* A usize of 2^8 has the same remainders modulo 1 to 5 as one of 2^64, so *)
(* relative moves land where they do in the build.                         *)
(***************************************************************************)
EXTENDS MuxWindow, PaneTree, TLC

CONSTANTS
    w1, w2, w3, w4,         \* the tabs
    Requests, MaxPanes      \* the geometry

VARIABLES
    part,
    tree, size, zoomed, unzoomedSize, hung

\* A tab wide enough for a split in it, one that is not, one without columns.
TabSizes == {[x |-> 9, y |-> 3], [x |-> 5, y |-> 5], [x |-> 0, y |-> 3]}

\* A drag of a divider, back and forth.
DividerMoves == {-1, 2}

Geometry == INSTANCE TabGeometry WITH Sizes <- TabSizes, Deltas <- DividerMoves

ASSUME NoPaneAssumption /\ PanesAssumption /\ TogetherAssumption /\ FlagsAssumption
ASSUME Geometry!SizesAssumption /\ Geometry!BoundsAssumption

MCTabs == {w1, w2, w3, w4}
MCWord == 256

\* The tabs are interchangeable, and so are the panes.
MCSymmetry == Permutations(MCTabs) \cup Permutations(Panes)

geometryVars == <<tree, size, zoomed, unzoomedSize, hung>>

MCInit ==
    /\ part \in {"window", "tree", "geometry"}
    /\ Init
    /\ TreeInit
    /\ Geometry!Init
    /\ part # "geometry" => size.x = 9

MCNext ==
    \/ part = "window" /\ Next /\ UNCHANGED <<part, treeVars, geometryVars>>
    \/ part = "tree" /\ TreeNext /\ UNCHANGED <<part, vars, geometryVars>>
    \/ part = "geometry" /\ Geometry!Next /\ UNCHANGED <<part, vars, treeVars>>

MCSpec == MCInit /\ [][MCNext]_<<part, vars, treeVars, geometryVars>>

------------------------------------------------------------------------------
(* The properties of the geometry, which say what they mean.                 *)

\* The splits of a tab keep adding up (TabGeometry).
StaysInOrder == Geometry!StaysInOrder

\* Panes and dividers cover the tab, each cell once (TabGeometry).
CoversTheTab == Geometry!CoversTheTab

\* A resize of a tab comes to an end (TabGeometry).  Does not hold.
ResizeReturns == Geometry!ResizeReturns

=============================================================================
