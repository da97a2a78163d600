--------------------------- MODULE MuxWindowProofs ---------------------------
(* Proofs about MuxWindow for every set of tabs, either closing rule and   *)
(* every bound on the key assignments' arguments.                          *)
EXTENDS MuxWindow, SequenceTheorems, TLAPS

(* A window as the code keeps it: no tab twice, the active position inside *)
(* the tab list (position 0 when there are no tabs), no assertion failed.  *)
Sound(w) ==
    /\ w \in Windows
    /\ \A i, j \in Positions(w) : w.tabs[i + 1] = w.tabs[j + 1] => i = j
    /\ w.active \in Positions(w) \/ (NumTabs(w) = 0 /\ w.active = 0)
    /\ ~w.panicked

(* The strengthening of TypeOK, NeverPanics and ActiveNamesATab that every *)
(* step preserves: ids are never reused, so a new tab is not in the window. *)
IInv ==
    /\ Sound(win)
    /\ fresh \subseteq Tabs
    /\ \A t \in fresh : ~HasTab(win, t)
    /\ pruning \in [dead : SUBSET Tabs, unknown : SUBSET Tabs]
    /\ drag \in Drags

-----------------------------------------------------------------------------
(* Sequences with one element taken out or put in.                         *)

(* RemoveAt shifts the later elements down by one.                         *)
LEMMA RemoveAtFacts ==
    ASSUME NEW S, NEW s \in Seq(S), NEW k \in 1 .. Len(s)
    PROVE  /\ RemoveAt(s, k) \in Seq(S)
           /\ Len(RemoveAt(s, k)) = Len(s) - 1
           /\ \A i \in 1 .. Len(s) - 1 :
                 RemoveAt(s, k)[i] = IF i < k THEN s[i] ELSE s[i + 1]
<1> DEFINE l == SubSeq(s, 1, k - 1)
           r == SubSeq(s, k + 1, Len(s))
<1>1. /\ l \in Seq(S)
      /\ Len(l) = k - 1
      /\ \A i \in 1 .. k - 1 : l[i] = s[i]
  <2>1. \A i \in 1 .. k - 1 : s[i] \in S
    BY ElementOfSeq
  <2>2. QED BY <2>1, SubSeqProperties
<1>2. /\ r \in Seq(S)
      /\ Len(r) = Len(s) - k
      /\ \A i \in 1 .. Len(s) - k : r[i] = s[k + i]
  <2>1. \A i \in k + 1 .. Len(s) : s[i] \in S
    BY ElementOfSeq
  <2>2. QED BY <2>1, SubSeqProperties
<1>3. RemoveAt(s, k) = l \o r
  BY DEF RemoveAt
<1> HIDE DEF l, r
<1>4. /\ l \o r \in Seq(S)
      /\ Len(l \o r) = Len(l) + Len(r)
      /\ \A i \in 1 .. Len(l) + Len(r) :
            (l \o r)[i] = IF i <= Len(l) THEN l[i] ELSE r[i - Len(l)]
  BY <1>1, <1>2, ConcatProperties
<1> DEFINE lr == l \o r
<1> HIDE DEF lr
<1>5. QED BY <1>1, <1>2, <1>3, <1>4 DEF lr

(* InsertAt shifts the elements from k on up by one.                       *)
LEMMA InsertAtFacts ==
    \A s \in Seq(Tabs), e \in Tabs : \A k \in 1 .. Len(s) + 1 :
       /\ InsertAt(s, k, e) \in Seq(Tabs)
       /\ Len(InsertAt(s, k, e)) = Len(s) + 1
       /\ \A i \in 1 .. Len(s) + 1 :
             InsertAt(s, k, e)[i] = IF i < k THEN s[i]
                                    ELSE IF i = k THEN e ELSE s[i - 1]
<1> TAKE s \in Seq(Tabs), e \in Tabs
<1> TAKE k \in 1 .. Len(s) + 1
<1> DEFINE l == SubSeq(s, 1, k - 1)
           r == SubSeq(s, k, Len(s))
           le == l \o <<e>>
<1>1. /\ l \in Seq(Tabs)
      /\ Len(l) = k - 1
      /\ \A i \in 1 .. k - 1 : l[i] = s[i]
  <2>1. \A i \in 1 .. k - 1 : s[i] \in Tabs
    BY ElementOfSeq
  <2>2. QED BY <2>1, SubSeqProperties
<1>2. /\ r \in Seq(Tabs)
      /\ Len(r) = Len(s) - k + 1
      /\ \A i \in 1 .. Len(s) - k + 1 : r[i] = s[k + i - 1]
  <2>1. \A i \in k .. Len(s) : s[i] \in Tabs
    BY ElementOfSeq
  <2>2. QED BY <2>1, SubSeqProperties
<1>3. InsertAt(s, k, e) = le \o r
  BY DEF InsertAt
<1> HIDE DEF l, r
<1>4. /\ le \in Seq(Tabs)
      /\ Len(le) = k
      /\ \A i \in 1 .. k : le[i] = IF i < k THEN s[i] ELSE e
  BY <1>1, ConcatProperties
<1> HIDE DEF le
<1>5. /\ le \o r \in Seq(Tabs)
      /\ Len(le \o r) = Len(le) + Len(r)
      /\ \A i \in 1 .. Len(le) + Len(r) :
            (le \o r)[i] = IF i <= Len(le) THEN le[i] ELSE r[i - Len(le)]
  BY <1>2, <1>4, ConcatProperties
<1> DEFINE ler == le \o r
<1>6. /\ ler \in Seq(Tabs)
      /\ Len(ler) = Len(s) + 1
      /\ \A i \in 1 .. Len(s) + 1 :
            ler[i] = IF i <= k THEN le[i] ELSE r[i - k]
  BY <1>2, <1>4, <1>5
<1> HIDE DEF ler
<1>7. QED BY <1>2, <1>3, <1>4, <1>6 DEF ler

-----------------------------------------------------------------------------
(* What a step may do to a sound window: keep it sound, bring in no tab,   *)
(* and, if it changes the tab list, keep a surviving active tab active.    *)
Keeps(w, w2) ==
    \/ w2.tabs = w.tabs
    \/ GetActive(w) # NoTab /\ HasTab(w2, GetActive(w)) => GetActive(w2) = GetActive(w)

Tame(w, w2) ==
    /\ Sound(w2)
    /\ \A t : HasTab(w2, t) => HasTab(w, t)
    /\ Keeps(w, w2)

(* idx_by_id answers the position of a tab that is in the window.          *)
LEMMA IdxByIdFacts ==
    ASSUME NEW w, NEW t, HasTab(w, t)
    PROVE  IdxById(w, t) \in Positions(w) /\ w.tabs[IdxById(w, t) + 1] = t
BY DEF HasTab, IdxById

(* The active tab of a sound window is a tab unless the window is empty.   *)
LEMMA ActiveFacts ==
    ASSUME NoTab \notin Tabs, NEW w, Sound(w)
    PROVE  /\ NumTabs(w) \in Nat
           /\ \A i \in Positions(w) : w.tabs[i + 1] \in Tabs
           /\ w.active \in Nat
           /\ NumTabs(w) > 0 => /\ w.active \in Positions(w)
                                /\ GetActive(w) = w.tabs[w.active + 1]
                                /\ GetActive(w) \in Tabs
           /\ NumTabs(w) = 0 => GetActive(w) = NoTab
<1>1. w.tabs \in Seq(Tabs) /\ w.active \in Nat
  BY DEF Sound, Windows
<1>2. NumTabs(w) \in Nat /\ \A i \in Positions(w) : w.tabs[i + 1] \in Tabs
  BY <1>1, ElementOfSeq, LenProperties DEF NumTabs, Positions
<1>3. NumTabs(w) > 0 => w.active \in Positions(w)
  BY <1>2 DEF Sound
<1>4. QED BY <1>1, <1>2, <1>3 DEF GetActive, GetByIdx, Positions

(* set_active_without_saving with a position inside the tab list.          *)
LEMMA SetActiveTame ==
    ASSUME NEW w, Sound(w), NEW i \in Positions(w)
    PROVE  /\ Tame(w, SetActiveWithoutSaving(w, i))
           /\ SetActiveWithoutSaving(w, i).tabs = w.tabs
<1> DEFINE w2 == SetActiveWithoutSaving(w, i)
<1>1. /\ w2 \in Windows /\ w2.tabs = w.tabs /\ w2.active = i /\ ~w2.panicked
  <2>1. NumTabs(w) \in Nat
    BY LenProperties DEF NumTabs, Sound, Windows
  <2>2. i \in Nat
    BY <2>1 DEF Positions
  <2>3. QED BY <2>2 DEF SetActiveWithoutSaving, Sound, Windows
<1>2. Positions(w2) = Positions(w) /\ NumTabs(w2) = NumTabs(w)
  BY <1>1 DEF Positions, NumTabs
<1> HIDE DEF w2
<1>3. Sound(w2)
  BY <1>1, <1>2 DEF Sound
<1>4. \A t : HasTab(w2, t) => HasTab(w, t)
  BY <1>1, <1>2 DEF HasTab
<1>5. Tame(w, w2)
  BY <1>1, <1>3, <1>4 DEF Tame, Keeps
<1>6. QED BY <1>1, <1>5 DEF w2

(* save_and_then_set_active with a position inside the tab list.           *)
LEMMA SaveAndThenSetActiveTame ==
    ASSUME NoTab \notin Tabs, NEW w, Sound(w), NEW i \in Positions(w)
    PROVE  Tame(w, SaveAndThenSetActive(w, i))
<1> DEFINE v == SaveLastActive(w)
<1>1. v \in Windows /\ v.tabs = w.tabs /\ v.active = w.active /\ ~v.panicked
  <2>1. GetActive(w) \in Tabs \cup {NoTab}
    BY ActiveFacts
  <2>2. QED BY <2>1 DEF SaveLastActive, Sound, Windows
<1>2. Positions(v) = Positions(w) /\ NumTabs(v) = NumTabs(w)
  BY <1>1 DEF Positions, NumTabs
<1> HIDE DEF v
<1>3. Sound(v)
  BY <1>1, <1>2 DEF Sound
<1>4. Tame(w, w)
  BY DEF Tame, Keeps
<1>5. Tame(v, SetActiveWithoutSaving(v, i)) /\ SetActiveWithoutSaving(v, i).tabs = v.tabs
  BY <1>2, <1>3, SetActiveTame
<1>6. \A t : HasTab(v, t) => HasTab(w, t)
  BY <1>1, <1>2 DEF HasTab
<1>7. Tame(w, SetActiveWithoutSaving(v, i))
  BY <1>1, <1>5, <1>6 DEF Tame, Keeps
<1>8. QED BY <1>4, <1>7 DEF SaveAndThenSetActive, v

(* The window between the removal of position i and the fix-up: everything *)
(* but the active position is in order, and that is at most one too large. *)
LEMMA RemovedFacts ==
    ASSUME NoTab \notin Tabs, NEW w, Sound(w), NEW i \in Positions(w),
           NEW v, v = [SwitchBackToLast(w, i) EXCEPT
                          !.tabs = RemoveAt(@, i + 1),
                          !.panicked = @ \/ i \notin Positions(w)]
    PROVE  /\ v \in Windows
           /\ v.tabs = RemoveAt(w.tabs, i + 1)
           /\ ~v.panicked
           /\ v.active \in 0 .. NumTabs(v)
<1> DEFINE u == SwitchBackToLast(w, i)
<1>1. Sound(u) /\ u.tabs = w.tabs
  BY IdxByIdFacts, SetActiveTame DEF SwitchBackToLast, Tame
<1> HIDE DEF u
<1>2. /\ w.tabs \in Seq(Tabs)
      /\ NumTabs(w) = Len(w.tabs) /\ Len(w.tabs) \in Nat
      /\ i \in 0 .. Len(w.tabs) - 1
  BY LenProperties DEF Sound, Windows, NumTabs, Positions
<1>3. /\ RemoveAt(w.tabs, i + 1) \in Seq(Tabs)
      /\ Len(RemoveAt(w.tabs, i + 1)) = Len(w.tabs) - 1
  <2>1. i + 1 \in 1 .. Len(w.tabs)
    BY <1>2
  <2>2. QED BY <1>2, <2>1, RemoveAtFacts
<1>4. u \in Windows /\ ~u.panicked /\ u.active \in 0 .. Len(w.tabs) - 1
  BY <1>1, <1>2 DEF Sound, NumTabs, Positions
<1>5. /\ v \in Windows
      /\ v.tabs = RemoveAt(w.tabs, i + 1)
      /\ ~v.panicked
      /\ v.active = u.active
  BY <1>1, <1>3, <1>4 DEF Windows, u
<1>6. QED BY <1>3, <1>4, <1>5 DEF NumTabs

(* Closing one tab keeps the window sound; if the closed tab is not the    *)
(* active one, the active tab stays active.                                *)
LEMMA RemoveByIdxTame ==
    ASSUME NoTab \notin Tabs, NEW w, Sound(w), NEW i \in Positions(w)
    PROVE  /\ Tame(w, RemoveByIdx(w, i))
           /\ RemoveByIdx(w, i).tabs = RemoveAt(w.tabs, i + 1)
<1> DEFINE v == [SwitchBackToLast(w, i) EXCEPT
                    !.tabs = RemoveAt(@, i + 1),
                    !.panicked = @ \/ i \notin Positions(w)]
           w2 == FixupActiveTabAfterRemoval(v, GetActive(w))
<1>1. /\ v \in Windows
      /\ v.tabs = RemoveAt(w.tabs, i + 1)
      /\ ~v.panicked
      /\ v.active \in 0 .. NumTabs(v)
  BY RemovedFacts
<1> HIDE DEF v
<1>2. /\ w.tabs \in Seq(Tabs) /\ Len(w.tabs) \in Nat
      /\ Positions(w) = 0 .. Len(w.tabs) - 1
      /\ i \in 0 .. Len(w.tabs) - 1
  BY LenProperties DEF Sound, Windows, NumTabs, Positions
<1>3. /\ Len(v.tabs) = Len(w.tabs) - 1
      /\ Positions(v) = 0 .. Len(w.tabs) - 2
      /\ \A j \in 1 .. Len(w.tabs) - 1 :
            v.tabs[j] = IF j < i + 1 THEN w.tabs[j] ELSE w.tabs[j + 1]
  BY <1>1, <1>2, RemoveAtFacts DEF Positions, NumTabs
<1>4. \A j \in Positions(v) : v.tabs[j + 1] = IF j < i THEN w.tabs[j + 1] ELSE w.tabs[j + 2]
  BY <1>2, <1>3
<1>5. \A j, k \in Positions(v) : v.tabs[j + 1] = v.tabs[k + 1] => j = k
  <2>1. TAKE j, k \in Positions(v)
  <2> DEFINE f(n) == IF n < i THEN n ELSE n + 1
  <2>2. /\ f(j) \in Positions(w) /\ f(k) \in Positions(w)
        /\ v.tabs[j + 1] = w.tabs[f(j) + 1]
        /\ v.tabs[k + 1] = w.tabs[f(k) + 1]
        /\ f(j) = f(k) => j = k
    BY <1>2, <1>3, <1>4, SMTT(30)
  <2> HIDE DEF f
  <2>3. QED BY <2>2 DEF Sound
<1>6. \A t : HasTab(v, t) => HasTab(w, t)
  <2>1. SUFFICES ASSUME NEW t, NEW j \in Positions(v), v.tabs[j + 1] = t
                 PROVE  HasTab(w, t)
    BY DEF HasTab
  <2>2. CASE j < i
    BY <1>2, <1>3, <1>4, <2>1, <2>2, SMTT(30) DEF HasTab
  <2>3. CASE ~(j < i)
    <3>1. j + 1 \in Positions(w) /\ w.tabs[(j + 1) + 1] = t
      BY <1>2, <1>3, <1>4, <2>1, <2>3
    <3>2. QED BY <3>1 DEF HasTab
  <2>4. QED BY <2>2, <2>3
<1>7. ASSUME NEW k \in Positions(v)
      PROVE  /\ Sound(SetActiveWithoutSaving(v, k))
             /\ SetActiveWithoutSaving(v, k).tabs = v.tabs
             /\ GetActive(SetActiveWithoutSaving(v, k)) = v.tabs[k + 1]
  <2> DEFINE x == SetActiveWithoutSaving(v, k)
  <2>1. k \in Nat
    BY <1>2, <1>3
  <2>2. /\ x \in Windows /\ x.tabs = v.tabs /\ x.active = k /\ ~x.panicked
    BY <1>1, <2>1 DEF SetActiveWithoutSaving, Windows
  <2>3. Positions(x) = Positions(v)
    BY <2>2 DEF Positions, NumTabs
  <2> HIDE DEF x
  <2>4. Sound(x) /\ GetActive(x) = v.tabs[k + 1]
    BY <1>5, <2>2, <2>3 DEF Sound, GetActive, GetByIdx
  <2>5. QED BY <2>2, <2>4 DEF x
<1>8. CASE GetActive(w) # NoTab /\ HasTab(v, GetActive(w))
  <2>1. /\ IdxById(v, GetActive(w)) \in Positions(v)
        /\ v.tabs[IdxById(v, GetActive(w)) + 1] = GetActive(w)
    BY <1>8, IdxByIdFacts
  <2>2. w2 = SetActiveWithoutSaving(v, IdxById(v, GetActive(w)))
    BY <1>8 DEF FixupActiveTabAfterRemoval
  <2>3. Sound(w2) /\ w2.tabs = v.tabs /\ GetActive(w2) = GetActive(w)
    BY <1>7, <2>1, <2>2
  <2> HIDE DEF w2
  <2>4. \A t : HasTab(w2, t) => HasTab(w, t)
    BY <1>6, <2>3 DEF HasTab, Positions, NumTabs
  <2>5. QED BY <1>1, <2>3, <2>4 DEF Tame, Keeps, RemoveByIdx, v, w2
<1>9. CASE ~(GetActive(w) # NoTab /\ HasTab(v, GetActive(w)))
  <2>1. Sound(w2) /\ w2.tabs = v.tabs
    <3>1. CASE NumTabs(v) > 0 /\ v.active >= NumTabs(v)
      <4>1. NumTabs(v) - 1 \in Positions(v)
        BY <1>2, <1>3, <3>1 DEF NumTabs
      <4>2. w2 = SetActiveWithoutSaving(v, NumTabs(v) - 1)
        BY <1>9, <3>1 DEF FixupActiveTabAfterRemoval
      <4>3. QED BY <1>7, <4>1, <4>2
    <3>2. CASE ~(NumTabs(v) > 0 /\ v.active >= NumTabs(v))
      <4>1. w2 = v
        BY <1>9, <3>2 DEF FixupActiveTabAfterRemoval
      <4>2. v.active \in Positions(v) \/ (NumTabs(v) = 0 /\ v.active = 0)
        BY <1>1, <1>2, <1>3, <3>2 DEF NumTabs
      <4>3. QED BY <1>1, <1>5, <4>1, <4>2 DEF Sound
    <3>3. QED BY <3>1, <3>2
  <2> HIDE DEF w2
  <2>2. \A t : HasTab(w2, t) <=> HasTab(v, t)
    BY <2>1 DEF HasTab, Positions, NumTabs
  <2>3. QED BY <1>1, <1>6, <1>9, <2>1, <2>2 DEF Tame, Keeps, RemoveByIdx, v, w2
<1>10. QED BY <1>8, <1>9

(* remove_by_id is the removal of that tab's position, if there is one.    *)
LEMMA RemoveByIdTame ==
    ASSUME NoTab \notin Tabs, NEW w, Sound(w), NEW t
    PROVE  Tame(w, RemoveById(w, t))
<1>1. Tame(w, w)
  BY DEF Tame, Keeps
<1>2. QED BY <1>1, IdxByIdFacts, RemoveByIdxTame DEF RemoveById

(* add_tab_to_window pushes a tab that is not in the window yet.           *)
LEMMA PushTame ==
    ASSUME NoTab \notin Tabs, NEW w, Sound(w), NEW t \in Tabs, ~HasTab(w, t)
    PROVE  /\ Sound(Push(w, t))
           /\ Keeps(w, Push(w, t))
           /\ \A x : HasTab(Push(w, t), x) => HasTab(w, x) \/ x = t
<1> DEFINE w2 == Push(w, t)
<1>1. /\ w.tabs \in Seq(Tabs) /\ Len(w.tabs) \in Nat
      /\ Positions(w) = 0 .. Len(w.tabs) - 1 /\ NumTabs(w) = Len(w.tabs)
  BY LenProperties DEF Sound, Windows, NumTabs, Positions
<1>2. /\ Append(w.tabs, t) \in Seq(Tabs)
      /\ Len(Append(w.tabs, t)) = Len(w.tabs) + 1
      /\ \A j \in 1 .. Len(w.tabs) : Append(w.tabs, t)[j] = w.tabs[j]
      /\ Append(w.tabs, t)[Len(w.tabs) + 1] = t
  BY <1>1
<1>3. /\ w2 \in Windows /\ w2.tabs = Append(w.tabs, t)
      /\ w2.active = w.active /\ ~w2.panicked
  BY <1>2 DEF Push, Sound, Windows
<1> HIDE DEF w2
<1>4. /\ Positions(w2) = 0 .. Len(w.tabs)
      /\ \A j \in Positions(w) : w2.tabs[j + 1] = w.tabs[j + 1]
      /\ w2.tabs[Len(w.tabs) + 1] = t
  BY <1>1, <1>2, <1>3 DEF Positions, NumTabs
<1>5. \A j \in Positions(w2) : j \in Positions(w) \/ j = Len(w.tabs)
  BY <1>1, <1>4
<1>6. \A j, k \in Positions(w2) : w2.tabs[j + 1] = w2.tabs[k + 1] => j = k
  BY <1>4, <1>5 DEF Sound, HasTab
<1>7. w2.active \in Positions(w2)
  BY <1>1, <1>3, <1>4 DEF Sound
<1>8. Sound(w2)
  BY <1>3, <1>6, <1>7 DEF Sound
<1>9. \A x : HasTab(w2, x) => HasTab(w, x) \/ x = t
  BY <1>4, <1>5 DEF HasTab
<1>10. Keeps(w, w2)
  <2>1. CASE w.active \in Positions(w)
    BY <1>3, <1>4, <1>7, <2>1 DEF Keeps, GetActive, GetByIdx
  <2>2. CASE w.active \notin Positions(w)
    BY <2>2 DEF Keeps, GetActive, GetByIdx
  <2>3. QED BY <2>1, <2>2
<1>11. QED BY <1>8, <1>9, <1>10 DEF w2

(* Window::move_tab: the remapped active position follows the active tab.  *)
LEMMA WindowMoveTabTame ==
    ASSUME NoTab \notin Tabs, NEW w, Sound(w), NEW from \in Int, NEW to \in Int
    PROVE  Tame(w, WindowMoveTab(w, from, to))
<1>1. CASE from \notin Positions(w) \/ to \notin Positions(w) \/ from = to
  BY <1>1 DEF WindowMoveTab, Tame, Keeps
<1>2. CASE from \in Positions(w) /\ to \in Positions(w) /\ from # to
  <2> DEFINE w2 == WindowMoveTab(w, from, to)
             r  == RemoveAt(w.tabs, from + 1)
             e  == w.tabs[from + 1]
             s  == InsertAt(r, to + 1, e)
             g(n) == IF n = to THEN from
                     ELSE IF from < to /\ from <= n /\ n < to THEN n + 1
                     ELSE IF to < from /\ to < n /\ n <= from THEN n - 1
                     ELSE n
  <2>1. /\ w.tabs \in Seq(Tabs) /\ Len(w.tabs) \in Nat
        /\ Positions(w) = 0 .. Len(w.tabs) - 1 /\ NumTabs(w) = Len(w.tabs)
        /\ from + 1 \in 1 .. Len(w.tabs) /\ to + 1 \in 1 .. Len(w.tabs)
    BY <1>2, LenProperties DEF Sound, Windows, NumTabs, Positions
  <2>2. e \in Tabs
    BY <2>1, ElementOfSeq
  <2>3. /\ r \in Seq(Tabs) /\ Len(r) = Len(w.tabs) - 1
        /\ \A j \in 1 .. Len(w.tabs) - 1 : r[j] = IF j < from + 1 THEN w.tabs[j] ELSE w.tabs[j + 1]
    BY <2>1, RemoveAtFacts
  <2> HIDE DEF r, e
  <2>4. to + 1 \in 1 .. Len(r) + 1
    BY <2>1, <2>3
  <2>5. /\ s \in Seq(Tabs) /\ Len(s) = Len(r) + 1
        /\ \A j \in 1 .. Len(r) + 1 : s[j] = IF j < to + 1 THEN r[j]
                                             ELSE IF j = to + 1 THEN e ELSE r[j - 1]
    BY <2>2, <2>3, <2>4, InsertAtFacts
  <2>6. w.active \in Positions(w)
    BY <1>2, <2>1 DEF Sound
  <2>7. RemapIndexAfterMove(w.active, from, to) \in Positions(w)
    BY <1>2, <2>1, <2>6 DEF RemapIndexAfterMove
  <2>8. /\ w2 \in Windows /\ w2.tabs = s /\ ~w2.panicked
        /\ w2.active = RemapIndexAfterMove(w.active, from, to)
    <3> DEFINE a == RemapIndexAfterMove(w.active, from, to)
    <3>1. w2 = [w EXCEPT !.tabs = s, !.active = a]
      BY <1>2 DEF WindowMoveTab, r, e
    <3>2. a \in Nat /\ w \in Windows /\ ~w.panicked
      BY <2>1, <2>7 DEF Sound
    <3> HIDE DEF w2, s, a
    <3>3. /\ w2 \in Windows /\ w2.tabs = s /\ ~w2.panicked
          /\ w2.active = a
      BY <2>5, <3>1, <3>2 DEF Windows
    <3>4. QED BY <3>3 DEF a
  <2> HIDE DEF w2, s
  <2>9. /\ Positions(w2) = Positions(w)
        /\ \A j \in Positions(w) : g(j) \in Positions(w) /\ w2.tabs[j + 1] = w.tabs[g(j) + 1]
    <3>1. Positions(w2) = Positions(w)
      BY <2>1, <2>3, <2>5, <2>8 DEF Positions, NumTabs
    <3>2. ASSUME NEW j \in Positions(w)
          PROVE  g(j) \in Positions(w) /\ s[j + 1] = w.tabs[g(j) + 1]
      <4>1. j + 1 \in 1 .. Len(r) + 1 /\ j \in Int /\ from \in Int /\ to \in Int
        BY <2>1, <2>3
      <4>2. CASE j < to
        <5>1. s[j + 1] = r[j + 1] /\ j + 1 \in 1 .. Len(w.tabs) - 1
          BY <2>1, <2>3, <2>5, <4>1, <4>2
        <5>2. r[j + 1] = IF j < from THEN w.tabs[j + 1] ELSE w.tabs[j + 2]
          BY <2>3, <4>1, <5>1
        <5>3. g(j) = IF j < from THEN j ELSE j + 1
          BY <1>2, <2>1, <4>1, <4>2
        <5>4. g(j) \in Positions(w) /\ g(j) + 1 = IF j < from THEN j + 1 ELSE j + 2
          BY <1>2, <2>1, <4>1, <4>2, <5>3
        <5>5. QED BY <5>1, <5>2, <5>4
      <4>3. CASE j = to
        BY <1>2, <2>1, <2>3, <2>5, <4>1, <4>3 DEF e
      <4>4. CASE j > to
        <5>1. s[j + 1] = r[j] /\ j \in 1 .. Len(w.tabs) - 1
          <6>1. ~(j + 1 < to + 1) /\ j + 1 # to + 1 /\ (j + 1) - 1 = j
            BY <4>1, <4>4
          <6>2. s[j + 1] = r[j]
            BY <2>5, <4>1, <6>1
          <6>3. j \in 1 .. Len(w.tabs) - 1
            BY <1>2, <2>1, <4>1, <4>4
          <6>4. QED BY <6>2, <6>3
        <5>2. r[j] = IF j <= from THEN w.tabs[j] ELSE w.tabs[j + 1]
          BY <2>3, <4>1, <5>1
        <5>3. g(j) = IF j <= from THEN j - 1 ELSE j
          BY <1>2, <2>1, <4>1, <4>4
        <5>4. g(j) \in Positions(w) /\ g(j) + 1 = IF j <= from THEN j ELSE j + 1
          BY <1>2, <2>1, <4>1, <4>4, <5>3
        <5>5. QED BY <5>1, <5>2, <5>4
      <4>5. QED BY <4>1, <4>2, <4>3, <4>4
    <3>3. QED BY <2>8, <3>1, <3>2
  <2>10. \A j, k \in Positions(w) : g(j) = g(k) => j = k
    BY <1>2, <2>1
  <2>11. g(RemapIndexAfterMove(w.active, from, to)) = w.active
    BY <1>2, <2>1, <2>6 DEF RemapIndexAfterMove
  <2> HIDE DEF g
  <2>12. Sound(w2)
    BY <2>7, <2>8, <2>9, <2>10 DEF Sound
  <2>13. \A t : HasTab(w2, t) => HasTab(w, t)
    BY <2>9 DEF HasTab
  <2>14. GetActive(w2) = GetActive(w)
    BY <2>6, <2>7, <2>8, <2>9, <2>11 DEF GetActive, GetByIdx
  <2>15. QED BY <2>12, <2>13, <2>14 DEF Tame, Keeps, w2
<1>3. QED BY <1>1, <1>2

(* TermWindow::move_tab: closing the active tab and inserting it again     *)
(* trips no assertion and leaves the same tab active.                      *)
LEMMA MoveActiveTabTame ==
    ASSUME NoTab \notin Tabs, NEW w, Sound(w), NEW to \in Positions(w)
    PROVE  Tame(w, MoveActiveTab(w, to))
<1> DEFINE t  == GetActive(w)
           v  == RemoveByIdx(w, w.active)
           x  == Insert(v, to, t)
           w2 == SetActiveWithoutSaving(x, to)
<1>1. /\ w.tabs \in Seq(Tabs) /\ Len(w.tabs) \in Nat
      /\ Positions(w) = 0 .. Len(w.tabs) - 1
      /\ w.active \in Positions(w) /\ to \in Int
      /\ t = w.tabs[w.active + 1] /\ t \in Tabs
  <2>1. w.tabs \in Seq(Tabs) /\ Len(w.tabs) \in Nat /\ NumTabs(w) = Len(w.tabs)
        /\ Positions(w) = 0 .. Len(w.tabs) - 1
    BY LenProperties DEF Sound, Windows, NumTabs, Positions
  <2>2. QED BY <2>1, ActiveFacts
<1>2. /\ Sound(v)
      /\ \A y : HasTab(v, y) => HasTab(w, y)
      /\ v.tabs = RemoveAt(w.tabs, w.active + 1)
  BY <1>1, RemoveByIdxTame DEF Tame
<1> HIDE DEF v, t
<1>3. /\ v.tabs \in Seq(Tabs) /\ Len(v.tabs) = Len(w.tabs) - 1
      /\ NumTabs(v) = Len(w.tabs) - 1
      /\ Positions(v) = 0 .. Len(w.tabs) - 2
      /\ \A j \in 1 .. Len(w.tabs) - 1 :
            v.tabs[j] = IF j < w.active + 1 THEN w.tabs[j] ELSE w.tabs[j + 1]
  <2>1. w.active + 1 \in 1 .. Len(w.tabs)
    BY <1>1
  <2>2. /\ v.tabs \in Seq(Tabs) /\ Len(v.tabs) = Len(w.tabs) - 1
        /\ \A j \in 1 .. Len(w.tabs) - 1 :
              v.tabs[j] = IF j < w.active + 1 THEN w.tabs[j] ELSE w.tabs[j + 1]
    BY <1>1, <1>2, <2>1, RemoveAtFacts, ZenonT(30)
  <2>3. QED BY <1>1, <2>2 DEF NumTabs, Positions
<1>4. ~HasTab(v, t)
  <2>1. SUFFICES ASSUME NEW j \in Positions(v) PROVE v.tabs[j + 1] # t
    BY DEF HasTab
  <2>2. j \in Int /\ j + 1 \in 1 .. Len(w.tabs) - 1
    BY <1>1, <1>3
  <2>3. CASE j < w.active
    <3>1. v.tabs[j + 1] = w.tabs[j + 1] /\ j \in Positions(w) /\ j # w.active
      BY <1>1, <1>3, <2>2, <2>3
    <3>2. QED BY <1>1, <3>1 DEF Sound
  <2>4. CASE ~(j < w.active)
    <3>1. v.tabs[j + 1] = w.tabs[(j + 1) + 1] /\ j + 1 \in Positions(w) /\ j + 1 # w.active
      BY <1>1, <1>3, <2>2, <2>4
    <3>2. QED BY <1>1, <3>1 DEF Sound
  <2>5. QED BY <2>3, <2>4
<1>5. /\ InsertAt(v.tabs, to + 1, t) \in Seq(Tabs)
      /\ Len(InsertAt(v.tabs, to + 1, t)) = Len(w.tabs)
      /\ \A i \in 1 .. Len(w.tabs) :
            InsertAt(v.tabs, to + 1, t)[i] = IF i < to + 1 THEN v.tabs[i]
                                             ELSE IF i = to + 1 THEN t ELSE v.tabs[i - 1]
  <2> HIDE DEF x, w2
  <2>1. to + 1 \in 1 .. Len(v.tabs) + 1 /\ Len(v.tabs) + 1 = Len(w.tabs)
    BY <1>1, <1>3
  <2>2. \A k \in 1 .. Len(v.tabs) + 1 :
           /\ InsertAt(v.tabs, k, t) \in Seq(Tabs)
           /\ Len(InsertAt(v.tabs, k, t)) = Len(v.tabs) + 1
           /\ \A i \in 1 .. Len(v.tabs) + 1 :
                 InsertAt(v.tabs, k, t)[i] = IF i < k THEN v.tabs[i]
                                             ELSE IF i = k THEN t ELSE v.tabs[i - 1]
    BY <1>1, <1>3, InsertAtFacts, Zenon
  <2>3. QED BY <2>1, <2>2, Zenon
<1>6. /\ x \in Windows /\ ~x.panicked
      /\ x.tabs = InsertAt(v.tabs, to + 1, t)
  <2>1. ~(to > NumTabs(v))
    BY <1>1, <1>3
  <2>2. v \in Windows /\ ~v.panicked
    BY <1>2 DEF Sound
  <2>3. QED BY <1>4, <1>5, <2>1, <2>2 DEF Insert, Windows
<1> HIDE DEF x
<1>7. Positions(x) = Positions(w) /\ NumTabs(x) = Len(w.tabs)
  BY <1>1, <1>5, <1>6 DEF Positions, NumTabs
<1>8. /\ \A j \in Positions(w) :
            x.tabs[j + 1] = IF j < to THEN v.tabs[j + 1]
                            ELSE IF j = to THEN t ELSE v.tabs[j]
      /\ \A j \in Positions(w) : j < to => j \in Positions(v)
      /\ \A j \in Positions(w) : to < j => j - 1 \in Positions(v) /\ (j - 1) + 1 = j
  <2>1. \A j \in Positions(w) : j \in Int /\ j + 1 \in 1 .. Len(w.tabs) /\ (j + 1) - 1 = j
    BY <1>1
  <2>2. QED BY <1>1, <1>3, <1>5, <1>6, <2>1
<1>9. \A j, k \in Positions(x) : x.tabs[j + 1] = x.tabs[k + 1] => j = k
  <2> DEFINE h(n) == IF n < to THEN n ELSE n - 1
  <2>1. \A n \in Positions(x) \ {to} :
           /\ h(n) \in Positions(v) /\ x.tabs[n + 1] = v.tabs[h(n) + 1]
           /\ x.tabs[n + 1] # t
    <3>1. \A n \in Positions(x) \ {to} :
             h(n) \in Positions(v) /\ x.tabs[n + 1] = v.tabs[h(n) + 1]
      <4>1. TAKE n \in Positions(x) \ {to}
      <4>2. n \in Positions(w) /\ n \in Int /\ n # to
        BY <1>1, <1>7
      <4>3. CASE n < to
        BY <1>8, <4>2, <4>3
      <4>4. CASE to < n
        BY <1>1, <1>8, <4>2, <4>4
      <4>5. QED BY <1>1, <4>2, <4>3, <4>4
    <3> HIDE DEF h
    <3>2. QED BY <1>4, <3>1 DEF HasTab
  <2>2. x.tabs[to + 1] = t
    BY <1>1, <1>8
  <2>3. \A j, k \in Positions(x) \ {to} : h(j) = h(k) => j = k
    BY <1>1, <1>7
  <2> HIDE DEF h
  <2>4. QED BY <1>2, <2>1, <2>2, <2>3 DEF Sound
<1>10. /\ w2 \in Windows /\ w2.tabs = x.tabs /\ w2.active = to /\ ~w2.panicked
  <2>1. to \in Nat /\ to \in Positions(x)
    BY <1>1, <1>7
  <2>2. QED BY <1>6, <2>1 DEF SetActiveWithoutSaving, Windows
<1> HIDE DEF w2
<1>11. Positions(w2) = Positions(x)
  BY <1>10 DEF Positions, NumTabs
<1>12. Sound(w2) /\ GetActive(w2) = t
  BY <1>1, <1>7, <1>8, <1>9, <1>10, <1>11 DEF Sound, GetActive, GetByIdx
<1>13. \A y : HasTab(w2, y) => HasTab(w, y)
  <2>1. SUFFICES ASSUME NEW j \in Positions(w) PROVE HasTab(w, x.tabs[j + 1])
    BY <1>7, <1>10, <1>11 DEF HasTab
  <2>2. j \in Int /\ to \in Int
    BY <1>1
  <2>3. HasTab(w, t)
    BY <1>1 DEF HasTab
  <2>4. CASE j = to
    BY <1>8, <2>2, <2>3, <2>4
  <2>5. CASE j < to
    BY <1>2, <1>8, <2>2, <2>5 DEF HasTab
  <2>6. CASE to < j
    <3>1. HasTab(v, v.tabs[(j - 1) + 1]) /\ x.tabs[j + 1] = v.tabs[(j - 1) + 1]
      BY <1>8, <2>2, <2>6 DEF HasTab
    <3>2. QED BY <1>2, <3>1
  <2>7. QED BY <2>2, <2>4, <2>5, <2>6
<1>14. QED BY <1>12, <1>13 DEF Tame, Keeps, MoveActiveTab, w2, x, v, t

-----------------------------------------------------------------------------
(* The steps of the specification.                                         *)

(* A step whose window change is tame, with nothing else moved out of      *)
(* type, preserves the invariant.                                          *)
LEMMA TamePreserves ==
    ASSUME IInv, Tame(win, win'), fresh' = fresh,
           pruning' \in [dead : SUBSET Tabs, unknown : SUBSET Tabs],
           drag' \in Drags
    PROVE  IInv'
<1>1. Sound(win)' /\ \A t \in fresh' : ~HasTab(win', t)
  BY DEF IInv, Tame, Sound, Positions, NumTabs, HasTab
<1>2. QED BY <1>1 DEF IInv, HasTab, Positions, NumTabs

(* The targets of the key assignments lie inside the tab list.             *)
LEMMA ActivateTabTame ==
    ASSUME NoTab \notin Tabs, NEW w, Sound(w), NEW n \in Int
    PROVE  Tame(w, ActivateTab(w, n))
<1>1. NumTabs(w) \in Nat
  BY ActiveFacts
<1>2. AbsoluteTarget(w, n) < NumTabs(w) => AbsoluteTarget(w, n) \in Positions(w)
  BY <1>1 DEF AbsoluteTarget, Positions
<1>3. Tame(w, w)
  BY DEF Tame, Keeps
<1>4. QED BY <1>2, <1>3, SaveAndThenSetActiveTame DEF ActivateTab

(* Relative moves compute an integer; clamped ones a position.             *)
LEMMA TargetFacts ==
    ASSUME NoTab \notin Tabs, MaxDelta \in Nat, Word \in Nat,
           NEW w, Sound(w), NumTabs(w) > 0, NEW delta \in Deltas
    PROVE  WrapTarget(w, delta) \in Int /\ ClampTarget(w, delta) \in Positions(w)
<1>1. NumTabs(w) \in Nat /\ w.active \in Nat /\ delta \in Int
  BY ActiveFacts DEF Deltas
<1>2. WrapTarget(w, delta) \in Int
  <2> DEFINE tab    == w.active + delta
             raised == IF tab < 0 THEN NumTabs(w) + tab ELSE tab
             cast   == IF raised < 0 THEN Word + raised ELSE raised
  <2>1. cast \in Int
    BY <1>1
  <2> HIDE DEF cast
  <2>2. cast % NumTabs(w) \in Int
    BY <1>1, <2>1
  <2>3. QED BY <2>2 DEF WrapTarget, cast
<1>3. ClampTarget(w, delta) \in Positions(w)
  BY <1>1 DEF ClampTarget, Positions
<1>4. QED BY <1>2, <1>3

(* Every step but the addition of a tab changes the window tamely.         *)
LEMMA StepTame ==
    ASSUME IInv, Next, ~AddTabToWindow
    PROVE  /\ Tame(win, win') /\ fresh' = fresh
           /\ pruning' \in [dead : SUBSET Tabs, unknown : SUBSET Tabs]
           /\ drag' \in Drags
<1> USE NoTabAssumption DEF IInv
<1>0. Tame(win, win)
  BY DEF Tame, Keeps
<1>1. CASE ActivateSpawned
  BY <1>1, IdxByIdFacts, SetActiveTame DEF ActivateSpawned
<1>2. CASE FocusTab
  BY <1>2, IdxByIdFacts, SaveAndThenSetActiveTame DEF FocusTab
<1>3. CASE ActivateAbsolute
  BY <1>3, ActivateTabTame, DeltaAssumption DEF ActivateAbsolute, Deltas
<1>4. CASE ActivateRelative
  <2>1. PICK delta \in Deltas, wrap \in BOOLEAN :
           win' = ActivateTab(win, IF wrap THEN WrapTarget(win, delta)
                                   ELSE ClampTarget(win, delta))
    BY <1>4 DEF ActivateRelative
  <2>2. WrapTarget(win, delta) \in Int /\ ClampTarget(win, delta) \in Positions(win)
    BY <1>4, TargetFacts, DeltaAssumption DEF ActivateRelative
  <2>3. ClampTarget(win, delta) \in Int
    BY <2>2, ActiveFacts DEF Positions
  <2>4. QED BY <1>4, <2>1, <2>2, <2>3, ActivateTabTame DEF ActivateRelative
<1>5. CASE ActivateLast
  <2>1. IdxById(win, win.last) \in Int
    BY <1>5, IdxByIdFacts, ActiveFacts DEF ActivateLast, Positions
  <2>2. QED BY <1>5, <2>1, ActivateTabTame DEF ActivateLast
<1>6. CASE MoveTab
  <2>1. PICK to \in 0 .. MaxDelta : to < NumTabs(win) /\ win' = MoveActiveTab(win, to)
    BY <1>6 DEF MoveTab
  <2>2. to \in Positions(win)
    BY <2>1, ActiveFacts, DeltaAssumption DEF Positions
  <2>3. QED BY <1>6, <2>1, <2>2, MoveActiveTabTame DEF MoveTab
<1>7. CASE MoveTabRelative
  BY <1>7, TargetFacts, MoveActiveTabTame, DeltaAssumption DEF MoveTabRelative
<1>8. CASE BeginTabDrag
  <2>1. PICK i \in Positions(win) :
           drag' = [tab |-> GetByIdx(win, i), slots |-> NumTabs(win)]
    BY <1>8 DEF BeginTabDrag
  <2>2. drag' \in Drags
    BY <2>1, ActiveFacts DEF Drags, GetByIdx
  <2>3. QED BY <1>0, <1>8, <2>2 DEF BeginTabDrag
<1>9. CASE DragTabTo
  <2>1. PICK target \in 0 .. drag.slots - 1 :
           win' = WindowMoveTab(win, IdxById(win, drag.tab), target)
    BY <1>9 DEF DragTabTo
  <2>2. IdxById(win, drag.tab) \in Int /\ target \in Int
    BY <1>9, <2>1, IdxByIdFacts, ActiveFacts DEF DragTabTo, Positions, Drags
  <2>3. QED BY <1>9, <2>1, <2>2, WindowMoveTabTame DEF DragTabTo
<1>10. CASE EndTabDrag
  BY <1>0, <1>10 DEF EndTabDrag, NoDrag, Drags
<1>11. CASE RemoveTab
  BY <1>11, RemoveByIdTame DEF RemoveTab
<1>12. CASE BeginPrune
  BY <1>0, <1>12 DEF BeginPrune
<1>13. CASE PruneDead
  <2>1. pruning' \in [dead : SUBSET Tabs, unknown : SUBSET Tabs]
    BY <1>13 DEF PruneDead
  <2>2. QED BY <1>13, <2>1, RemoveByIdTame DEF PruneDead
<1>14. CASE PruneUnknown
  <2>1. pruning' \in [dead : SUBSET Tabs, unknown : SUBSET Tabs]
    BY <1>14 DEF PruneUnknown
  <2>2. QED BY <1>14, <2>1, RemoveByIdTame DEF PruneUnknown
<1>15. QED BY <1>1, <1>2, <1>3, <1>4, <1>5, <1>6, <1>7, <1>8, <1>9, <1>10, <1>11,
              <1>12, <1>13, <1>14 DEF Next, Activate, Reorder, Prune

(* The addition of a tab takes a fresh id.                                 *)
LEMMA AddPreserves ==
    ASSUME IInv, AddTabToWindow
    PROVE  IInv' /\ Keeps(win, win')
<1>1. PICK t \in fresh : win' = Push(win, t) /\ fresh' = fresh \ {t}
  BY DEF AddTabToWindow
<1>2. /\ Sound(win') /\ Keeps(win, win')
      /\ \A x : HasTab(win', x) => HasTab(win, x) \/ x = t
  BY <1>1, PushTame, NoTabAssumption DEF IInv
<1>3. \A x \in fresh' : ~HasTab(win', x)
  BY <1>1, <1>2 DEF IInv
<1>4. fresh' \subseteq Tabs /\ pruning' = pruning /\ drag' = drag
  BY <1>1 DEF IInv, AddTabToWindow
<1>5. QED BY <1>2, <1>3, <1>4 DEF IInv, Sound, HasTab, Positions, NumTabs

(* IInv is an inductive invariant.                                         *)
LEMMA InvInit == Init => IInv
<1> SUFFICES ASSUME Init PROVE IInv
  OBVIOUS
<1>1. /\ win.tabs = <<>> /\ win.active = 0 /\ ~win.panicked /\ win \in Windows
  BY DEF Init, Windows
<1>2. NumTabs(win) = 0 /\ Positions(win) = {}
  BY <1>1 DEF NumTabs, Positions
<1>3. Sound(win)
  BY <1>1, <1>2 DEF Sound
<1>4. QED BY <1>2, <1>3 DEF Init, IInv, HasTab, NoPrune, Drags, NoDrag

LEMMA InvStep == IInv /\ [Next]_vars => IInv'
<1> SUFFICES ASSUME IInv, [Next]_vars PROVE IInv'
  OBVIOUS
<1>1. CASE AddTabToWindow
  BY <1>1, AddPreserves
<1>2. CASE Next /\ ~AddTabToWindow
  BY <1>2, StepTame, TamePreserves
<1>3. CASE UNCHANGED vars
  BY <1>3 DEF vars, IInv, Sound, HasTab, Positions, NumTabs
<1>4. QED BY <1>1, <1>2, <1>3

LEMMA InvAlways == Spec => []IInv
BY InvInit, InvStep, PTL DEF Spec

(* Every variable keeps its type.                                          *)
THEOREM TypeCorrect == Spec => []TypeOK
<1>1. IInv => TypeOK
  BY DEF IInv, TypeOK, Sound
<1>2. QED BY <1>1, InvAlways, PTL

(* No assertion of window.rs and no bounds check of its Vec ever fails.    *)
THEOREM PanicFree == Spec => []NeverPanics
<1>1. IInv => NeverPanics
  BY DEF IInv, NeverPanics, Sound
<1>2. QED BY <1>1, InvAlways, PTL

(* A window with tabs always has an active one.                            *)
THEOREM AlwaysActive == Spec => []ActiveNamesATab
<1>1. IInv => ActiveNamesATab
  BY ActiveFacts, NoTabAssumption DEF IInv, ActiveNamesATab
<1>2. QED BY <1>1, InvAlways, PTL

(* However tabs are added, moved, closed or pruned, the active tab stays   *)
(* the active one for as long as it is in the window.                      *)
THEOREM ActiveFollows == Spec => ActiveTabFollowsItsTab
<1>1. IInv /\ [Next]_vars =>
        [ win'.tabs # win.tabs /\ GetActive(win) # NoTab /\ HasTab(win', GetActive(win))
          => GetActive(win') = GetActive(win) ]_vars
  <2> SUFFICES ASSUME IInv, Next, win'.tabs # win.tabs,
                      GetActive(win) # NoTab, HasTab(win', GetActive(win))
               PROVE  GetActive(win') = GetActive(win)
    OBVIOUS
  <2>1. Keeps(win, win')
    BY AddPreserves, StepTame DEF Tame
  <2>2. QED BY <2>1 DEF Keeps
<1>2. QED BY <1>1, InvAlways, PTL DEF Spec, ActiveTabFollowsItsTab

=============================================================================
