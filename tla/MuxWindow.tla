------------------------------ MODULE MuxWindow ------------------------------
(***************************************************************************)
(* The tab list of one mux window (mux/src/window.rs) together with every  *)
(* caller that changes it: the GUI's key assignments and tab drag          *)
(* (wezterm-gui/src/termwindow/mod.rs), Mux::add_tab_to_window,            *)
(* Mux::remove_tab, Mux::prune_dead_windows, focus reconciliation, and     *)
(* the GUI's start-up attach (wezterm-gui/src/main.rs).                    *)
(*                                                                         *)
(* A window stores its active tab as a POSITION and its last active tab as *)
(* a TAB ID.  Positions are 0-based, as in the code; tabs[i + 1] is the    *)
(* tab at position i.  The assertions and the Vec bounds checks of the     *)
(* code set `panicked` instead of ending the process.                      *)
(***************************************************************************)
EXTENDS Integers, Sequences, SequencesExt

CONSTANTS
    Tabs,          \* the tabs that may ever be created; each id is used once
    NoTab,         \* Option::<TabId>::None
    SwitchToLast,  \* config switch_to_last_active_tab_when_closing_tab
    MaxDelta,      \* bound on the argument of the relative key assignments
    Word           \* 2^(width of usize)

ASSUME NoTabAssumption == NoTab \notin Tabs
ASSUME SwitchAssumption == SwitchToLast \in BOOLEAN
ASSUME DeltaAssumption == MaxDelta \in Nat /\ Word \in Nat \ {0} /\ MaxDelta < Word

VARIABLES
    win,      \* the Window
    fresh,    \* the tabs not created yet
    pruning,  \* the lists prune_dead_tabs has still to work through: tabs
              \* whose panes are all dead, then tabs the mux has forgotten
    drag      \* the GUI's TabDrag: the dragged tab and how many slots it saw

vars == <<win, fresh, pruning, drag>>

Windows == [tabs : Seq(Tabs), active : Nat, last : Tabs \cup {NoTab},
            panicked : BOOLEAN]

Drags == [tab : Tabs, slots : Nat] \cup {[tab |-> NoTab, slots |-> 0]}

NoDrag == [tab |-> NoTab, slots |-> 0]

-----------------------------------------------------------------------------
(* The methods of Window, as functions from windows to windows.            *)

NumTabs(w) == Len(w.tabs)

Positions(w) == 0 .. NumTabs(w) - 1

GetByIdx(w, i) == IF i \in Positions(w) THEN w.tabs[i + 1] ELSE NoTab

GetActive(w) == GetByIdx(w, w.active)

HasTab(w, t) == \E i \in Positions(w) : w.tabs[i + 1] = t

IdxById(w, t) == CHOOSE i \in Positions(w) : w.tabs[i + 1] = t

SetActiveWithoutSaving(w, i) ==
    [w EXCEPT !.active = i, !.panicked = @ \/ i \notin Positions(w)]

SaveLastActive(w) == [w EXCEPT !.last = GetActive(w)]

SaveAndThenSetActive(w, i) ==
    IF i = w.active THEN w ELSE SetActiveWithoutSaving(SaveLastActive(w), i)

Insert(w, i, t) ==
    [w EXCEPT !.tabs = InsertAt(@, i + 1, t),
              !.panicked = @ \/ HasTab(w, t) \/ i > NumTabs(w)]

Push(w, t) == [w EXCEPT !.tabs = Append(@, t), !.panicked = @ \/ HasTab(w, t)]

RemapIndexAfterMove(index, from, to) ==
    CASE index = from                 -> to
      [] from < index /\ index <= to  -> index - 1
      [] to <= index /\ index < from  -> index + 1
      [] OTHER                        -> index

(* Mutant: the active position is not remapped.                            *)
MutMoveWithoutRemap(w, from, to) ==
    IF from \notin Positions(w) \/ to \notin Positions(w) \/ from = to
    THEN w
    ELSE [w EXCEPT !.tabs = InsertAt(RemoveAt(@, from + 1), to + 1, w.tabs[from + 1])]

WindowMoveTab(w, from, to) ==
    IF from \notin Positions(w) \/ to \notin Positions(w) \/ from = to
    THEN w
    ELSE [w EXCEPT !.tabs = InsertAt(RemoveAt(@, from + 1), to + 1, w.tabs[from + 1]),
                   !.active = RemapIndexAfterMove(@, from, to)]

(* Mutant: no clamp when the last position was the active one.             *)
MutFixupWithoutClamp(w, prior) ==
    IF prior # NoTab /\ HasTab(w, prior)
    THEN SetActiveWithoutSaving(w, IdxById(w, prior))
    ELSE w

FixupActiveTabAfterRemoval(w, prior) ==
    IF prior # NoTab /\ HasTab(w, prior)
    THEN SetActiveWithoutSaving(w, IdxById(w, prior))
    ELSE IF NumTabs(w) > 0 /\ w.active >= NumTabs(w)
         THEN SetActiveWithoutSaving(w, NumTabs(w) - 1)
         ELSE w

(* The last active tab is looked up BEFORE the removal shifts the tabs.    *)
SwitchBackToLast(w, i) ==
    IF /\ SwitchToLast
       /\ GetActive(w) # NoTab
       /\ GetActive(w) = GetByIdx(w, i)
       /\ w.last # NoTab
       /\ HasTab(w, w.last)
    THEN SetActiveWithoutSaving(w, IdxById(w, w.last))
    ELSE w

RemoveByIdx(w, i) ==
    LET switched == SwitchBackToLast(w, i)
        removed  == [switched EXCEPT !.tabs = RemoveAt(@, i + 1),
                                     !.panicked = @ \/ i \notin Positions(w)]
    IN  FixupActiveTabAfterRemoval(removed, GetActive(w))

RemoveById(w, t) == IF HasTab(w, t) THEN RemoveByIdx(w, IdxById(w, t)) ELSE w

(* prune_dead_tabs takes the tabs of a list in window order.               *)
FirstOf(w, s) ==
    CHOOSE t \in s : \A u \in s : IdxById(w, t) <= IdxById(w, u)

-----------------------------------------------------------------------------
(* What the GUI's key assignments compute from the window.                 *)

(* activate_tab: a negative index counts back from the end, saturating.    *)
AbsoluteTarget(w, n) ==
    IF n >= 0 THEN n
    ELSE IF -n > NumTabs(w) THEN 0 ELSE NumTabs(w) + n

(* activate_tab_relative with wrap: max is added at most once, then the    *)
(* sum is cast to usize before the remainder is taken.                     *)
WrapTarget(w, delta) ==
    LET tab    == w.active + delta
        raised == IF tab < 0 THEN NumTabs(w) + tab ELSE tab
        cast   == IF raised < 0 THEN Word + raised ELSE raised
    IN  cast % NumTabs(w)

ClampTarget(w, delta) ==
    LET tab == w.active + delta
    IN  IF tab < 0 THEN 0
        ELSE IF tab >= NumTabs(w) THEN NumTabs(w) - 1 ELSE tab

(* Mutant: the target is not checked against the number of tabs.           *)
MutActivateUnchecked(w, n) == SaveAndThenSetActive(w, AbsoluteTarget(w, n))

ActivateTab(w, n) ==
    LET target == AbsoluteTarget(w, n)
    IN  IF target < NumTabs(w) THEN SaveAndThenSetActive(w, target) ELSE w

(* TermWindow::move_tab takes the active tab out and puts it back.         *)
MoveActiveTab(w, to) ==
    SetActiveWithoutSaving(Insert(RemoveByIdx(w, w.active), to, GetActive(w)), to)

-----------------------------------------------------------------------------
(* Actions.  prune_dead_tabs holds the window lock from its first removal  *)
(* to its last, so nothing else runs while `pruning` is not empty.         *)

NoPrune == [dead |-> {}, unknown |-> {}]

Unlocked == pruning = NoPrune

Deltas == -MaxDelta .. MaxDelta

(* Mux::add_tab_to_window and the client domain's resync push a new tab.   *)
AddTabToWindow ==
    /\ Unlocked
    /\ \E t \in fresh :
         /\ win' = Push(win, t)
         /\ fresh' = fresh \ {t}
    /\ UNCHANGED <<pruning, drag>>

(* The GUI's start-up attach makes the tab it spawned active, not saving.  *)
ActivateSpawned ==
    /\ Unlocked
    /\ \E t \in Tabs :
         /\ HasTab(win, t)
         /\ win' = SetActiveWithoutSaving(win, IdxById(win, t))
    /\ UNCHANGED <<fresh, pruning, drag>>

(* Mux::focus_pane_and_containing_tab, SetFocusedPane and the Lua          *)
(* activate methods.                                                       *)
FocusTab ==
    /\ Unlocked
    /\ \E t \in Tabs :
         /\ HasTab(win, t)
         /\ win' = SaveAndThenSetActive(win, IdxById(win, t))
    /\ UNCHANGED <<fresh, pruning, drag>>

ActivateAbsolute ==
    /\ Unlocked
    /\ \E n \in Deltas : win' = ActivateTab(win, n)
    /\ UNCHANGED <<fresh, pruning, drag>>

ActivateRelative ==
    /\ Unlocked
    /\ NumTabs(win) > 0
    /\ \E delta \in Deltas, wrap \in BOOLEAN :
         win' = ActivateTab(win, IF wrap THEN WrapTarget(win, delta)
                                 ELSE ClampTarget(win, delta))
    /\ UNCHANGED <<fresh, pruning, drag>>

ActivateLast ==
    /\ Unlocked
    /\ win.last # NoTab
    /\ HasTab(win, win.last)
    /\ win' = ActivateTab(win, IdxById(win, win.last))
    /\ UNCHANGED <<fresh, pruning, drag>>

MoveTab ==
    /\ Unlocked
    /\ NumTabs(win) > 0
    /\ \E to \in 0 .. MaxDelta :
         /\ to < NumTabs(win)
         /\ win' = MoveActiveTab(win, to)
    /\ UNCHANGED <<fresh, pruning, drag>>

MoveTabRelative ==
    /\ Unlocked
    /\ NumTabs(win) > 0
    /\ \E delta \in Deltas : win' = MoveActiveTab(win, ClampTarget(win, delta))
    /\ UNCHANGED <<fresh, pruning, drag>>

(* The slots are captured once, when the drag begins.                      *)
BeginTabDrag ==
    /\ Unlocked
    /\ drag = NoDrag
    /\ \E i \in Positions(win) :
         drag' = [tab |-> GetByIdx(win, i), slots |-> NumTabs(win)]
    /\ UNCHANGED <<win, fresh, pruning>>

(* Each mouse move names one of those slots, whatever the window now holds. *)
DragTabTo ==
    /\ Unlocked
    /\ drag # NoDrag
    /\ HasTab(win, drag.tab)
    /\ \E target \in 0 .. drag.slots - 1 :
         win' = WindowMoveTab(win, IdxById(win, drag.tab), target)
    /\ UNCHANGED <<fresh, pruning, drag>>

EndTabDrag ==
    /\ Unlocked
    /\ drag # NoDrag
    /\ drag' = NoDrag
    /\ UNCHANGED <<win, fresh, pruning>>

RemoveTab ==
    /\ Unlocked
    /\ \E t \in Tabs \ fresh : win' = RemoveById(win, t)
    /\ UNCHANGED <<fresh, pruning, drag>>

BeginPrune ==
    /\ Unlocked
    /\ \E dead, unknown \in SUBSET {t \in Tabs : HasTab(win, t)} :
         pruning' = [dead |-> dead, unknown |-> unknown \ dead]
    /\ UNCHANGED <<win, fresh, drag>>

PruneDead ==
    /\ pruning.dead # {}
    /\ LET t == FirstOf(win, pruning.dead)
       IN  /\ win' = RemoveById(win, t)
           /\ pruning' = [pruning EXCEPT !.dead = @ \ {t}]
    /\ UNCHANGED <<fresh, drag>>

PruneUnknown ==
    /\ pruning.dead = {}
    /\ pruning.unknown # {}
    /\ LET t == FirstOf(win, pruning.unknown)
       IN  /\ win' = RemoveById(win, t)
           /\ pruning' = [pruning EXCEPT !.unknown = @ \ {t}]
    /\ UNCHANGED <<fresh, drag>>

Init ==
    /\ win = [tabs |-> <<>>, active |-> 0, last |-> NoTab, panicked |-> FALSE]
    /\ fresh = Tabs
    /\ pruning = NoPrune
    /\ drag = NoDrag

Activate == ActivateSpawned \/ FocusTab \/ ActivateAbsolute \/ ActivateRelative
            \/ ActivateLast

Reorder == MoveTab \/ MoveTabRelative \/ BeginTabDrag \/ DragTabTo \/ EndTabDrag

Prune == BeginPrune \/ PruneDead \/ PruneUnknown

Next == AddTabToWindow \/ Activate \/ Reorder \/ RemoveTab \/ Prune

Spec == Init /\ [][Next]_vars

-----------------------------------------------------------------------------
(* Properties.                                                             *)

(* The type of every variable (the fields of struct Window and TabDrag).   *)
TypeOK ==
    /\ win \in Windows
    /\ fresh \subseteq Tabs
    /\ pruning \in [dead : SUBSET Tabs, unknown : SUBSET Tabs]
    /\ drag \in Drags

(* No sequence of tab operations trips an assertion of window.rs ("tab     *)
(* already added to this window", idx < self.tabs.len()) or a bounds check *)
(* of Vec::insert and Vec::remove, stale drag slots and prunes included.   *)
NeverPanics == ~win.panicked

(* The active position names a tab whenever the window has one: no closing *)
(* order, move or prune leaves get_active() answering None.                *)
ActiveNamesATab == NumTabs(win) > 0 => GetActive(win) \in Tabs

(* Whatever adds, reorders or removes tabs, an active tab that is still in *)
(* the window stays the active one: push, both kinds of move, closing      *)
(* another tab and every removal of a prune.                               *)
ActiveTabFollowsItsTab ==
    [][ win'.tabs # win.tabs /\ GetActive(win) # NoTab /\ HasTab(win', GetActive(win))
        => GetActive(win') = GetActive(win) ]_vars

(* "If we are removing the active tab, switch back to the previously       *)
(* active tab" (window.rs): with the option on, closing the active tab     *)
(* activates the last active tab if that is still in the window.           *)
ClosingSwitchesBack ==
    [][ NumTabs(win') = NumTabs(win) - 1 /\ ~HasTab(win', GetActive(win))
        /\ win.last # NoTab /\ HasTab(win', win.last)
        => GetActive(win') = win.last ]_vars

=============================================================================
