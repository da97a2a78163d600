--------------------------- MODULE TerminalScreen ---------------------------
(***************************************************************************)
(* What a program's output does to the lines of a terminal                 *)
(* (term/src/screen.rs, term/src/terminalstate/mod.rs and performer.rs):   *)
(* printing and wrapping, the scroll region, scrollback, the alternate     *)
(* screen, erasing, and the rewrapping of lines when the width changes.    *)
(*                                                                         *)
(* A letter is the number of its printing, so that no two are the same; 0  *)
(* is a blank.  A row of the screen has two names: its place among the     *)
(* lines that are kept, and its stable index, under which the mux and its  *)
(* clients cache it.  A line carries changed, that is whether its sequence *)
(* number is that of the batch of actions being performed, which here is   *)
(* one action.  Colours, wide cells, left and right margins and insert     *)
(* mode are left out; autowrap is on.                                      *)
(***************************************************************************)
EXTENDS Integers, Sequences, SequencesExt, FiniteSets, FiniteSetsExt

CONSTANTS
    Sizes,          \* sizes <<rows, columns>> of the pane
    Scrollbacks,    \* values of scrollback_lines in the configuration
    Texts,          \* lengths of the texts a program prints at once
    MaxActions      \* bound on the actions of a behavior

ScreenAssumption ==
    /\ Sizes \subseteq (Nat \ {0}) \X (Nat \ {0})
    /\ Scrollbacks \subseteq Nat
    /\ Texts \subseteq Nat \ {0}
    /\ MaxActions \in Nat

VARIABLES
    term,           \* the TerminalState
    scrollback,     \* config.scrollback_size(), read from the global config
    unreported,     \* stable rows that changed in the last step without a
                    \* new sequence number
    taken           \* actions taken

screenVars == <<term, scrollback, unreported, taken>>

Most(m, n) == IF m > n THEN m ELSE n
Least(m, n) == IF m < n THEN m ELSE n

------------------------------------------------------------------------------
(* Lines. *)

Blank == [letter |-> 0, wrapped |-> FALSE]
NewLine == [cells |-> << >>, changed |-> TRUE]
NewLines(n) == [i \in 1 .. n |-> NewLine]

IsWhitespace(line) == \A i \in DOMAIN line.cells : line.cells[i].letter = 0
WasWrapped(line) == line.cells # << >> /\ Last(line.cells).wrapped
Touch(line) == [line EXCEPT !.changed = TRUE]

\* The cells with those from x to y - 1 replaced, and blanks up to there.
Overwritten(cells, x, y, cell) ==
    [i \in 1 .. Most(Len(cells), y) |->
        IF i \in x + 1 .. y THEN cell
        ELSE IF i <= Len(cells) THEN cells[i] ELSE Blank]

SetCell(line, x, letter) ==
    [cells |-> Overwritten(line.cells, x, x + 1,
                           [letter |-> letter, wrapped |-> FALSE]),
     changed |-> TRUE]

\* A line of nothing but blanks keeps its length.
PruneTrailingBlanks(cells) ==
    LET kept == {i \in DOMAIN cells : cells[i] # Blank}
    IN IF kept = {} THEN cells ELSE SubSeq(cells, 1, Max(kept))

\* Line::fill_range with blanks.
ClearCells(line, x, y) ==
    IF line.cells = << >> THEN line
    ELSE [cells |-> PruneTrailingBlanks(IF x >= y THEN line.cells
                                        ELSE Overwritten(line.cells, x, y, Blank)),
          changed |-> TRUE]

SetLastCellWasWrapped(line, wrapped) ==
    LET cells == IF line.cells = << >> THEN <<Blank>> ELSE line.cells
    IN [cells |-> [cells EXCEPT ![Len(cells)].wrapped = wrapped],
        changed |-> TRUE]

ResizeLine(line, cols) ==
    [cells |-> [i \in 1 .. cols |-> IF i <= Len(line.cells) THEN line.cells[i]
                                    ELSE Blank],
     changed |-> TRUE]

\* Mutant: the rows of a line that was split do not know that they go on.
MutWrapUnmarked(cells, cols) ==
    LET inked == {i \in DOMAIN cells : cells[i].letter # 0}
        length == Max(inked)
    IN IF inked = {} THEN <<[cells |-> cells, changed |-> TRUE]>>
       ELSE [n \in 1 .. (length + cols - 1) \div cols |->
                [cells |-> SubSeq(cells, (n - 1) * cols + 1, Least(n * cols, length)),
                 changed |-> TRUE]]

\* Line::wrap: the rows of at most cols cells that a long line becomes.  A
\* line of blanks is left as it is.
Wrap(cells, cols) ==
    LET inked == {i \in DOMAIN cells : cells[i].letter # 0}
        length == Max(inked)
        count == (length + cols - 1) \div cols
    IN IF inked = {} THEN <<[cells |-> cells, changed |-> TRUE]>>
       ELSE [n \in 1 .. count |->
                LET row == [cells |-> SubSeq(cells, (n - 1) * cols + 1,
                                             Least(n * cols, length)),
                            changed |-> TRUE]
                IN IF n < count THEN SetLastCellWasWrapped(row, TRUE) ELSE row]

\* The lines without the whitespace at their end, but at least as many.
WithoutWhitespace(lines, least) ==
    LET kept == {i \in DOMAIN lines : i <= least \/ ~ IsWhitespace(lines[i])}
    IN IF kept = {} THEN << >> ELSE SubSeq(lines, 1, Max(kept))

------------------------------------------------------------------------------
(* Screens.  Rows count from 0, as in the code; indices of lines from 1.   *)

NewScreen(size, scrolls) ==
    [lines |-> NewLines(size[1]), offset |-> 0, scrolls |-> scrolls,
     rows |-> size[1], cols |-> size[2], saved |-> << >>]

ScrollbackSize(s) == IF s.scrolls THEN scrollback ELSE 0

\* phys_row, which lets a row one below the screen through.
PhysRow(s, y) == Most(0, Len(s.lines) - s.rows) + Least(Most(y, 0), s.rows)

StableRow(s, i) == s.offset + i - 1
StableRows(s) == s.offset .. s.offset + Len(s.lines) - 1
AtStable(s, r) == s.lines[r - s.offset + 1]

WithLine(s, y, line) == [s EXCEPT !.lines[PhysRow(s, y) + 1] = line]
LineAt(s, y) == s.lines[PhysRow(s, y) + 1]

TouchRows(lines, rows) ==
    [i \in DOMAIN lines |-> IF i - 1 \in rows THEN Touch(lines[i]) ELSE lines[i]]

\* Mutant: a line is dropped when the new ones would just fit.
MutSurplusEarly(s, count) ==
    LET over == Len(s.lines) + count - (s.rows + ScrollbackSize(s))
    IN IF over = 0 THEN 1 ELSE Most(0, over)

\* The lines that no longer fit when count more come.
Surplus(s, count) == Most(0, Len(s.lines) + count - (s.rows + ScrollbackSize(s)))

\* Mutant: new lines come to the end of the screen, wherever the region ends.
MutScrolledAtEnd(lines, at, removed, to, count) ==
    SubSeq(lines, 1, at) \o SubSeq(lines, at + removed + 1, Len(lines)) \o NewLines(count)

Scrolled(lines, at, removed, to, count) ==
    SubSeq(lines, 1, at) \o SubSeq(lines, at + removed + 1, to)
    \o NewLines(count) \o SubSeq(lines, to + 1, Len(lines))

\* scroll_up: n lines leave at the top of the region and blank ones come at
\* its bottom.  Those of a region at the top of the primary screen go into
\* scrollback, and what no longer fits there leaves at its top.
ScrollUp(s, top, bottom, n) ==
    LET from == PhysRow(s, top)
        to == PhysRow(s, bottom)
        count == Least(n, to - from)
        keep == top = 0 /\ s.scrolls
        removed == IF keep THEN Surplus(s, count) ELSE count
        at == IF top = 0 THEN 0 ELSE from
        lines == IF keep THEN s.lines ELSE TouchRows(s.lines, from .. to - 1)
        after == [s EXCEPT !.lines = Scrolled(lines, at, removed, to, count),
                           !.offset = IF keep THEN @ + removed ELSE @]
        shifts == removed > count \/ (removed < count /\ bottom # s.rows)
    IN IF ~ shifts THEN after
       ELSE [after EXCEPT !.lines =
                TouchRows(@, PhysRow(after, bottom) .. PhysRow(after, s.rows) - 1)]

ScrollDown(s, top, bottom, n) ==
    LET from == PhysRow(s, top)
        to == PhysRow(s, bottom)
        count == Least(n, to - from)
        lines == TouchRows(s.lines, from .. to - count - 1)
    IN [s EXCEPT !.lines = SubSeq(lines, 1, from) \o NewLines(count)
                           \o SubSeq(lines, from + 1, to - count)
                           \o SubSeq(lines, to + 1, Len(lines))]

EraseScrollback(s) ==
    LET gone == Len(s.lines) - s.rows
    IN [s EXCEPT !.lines = SubSeq(@, gone + 1, Len(@)),
                 !.offset = IF s.scrolls THEN @ + gone ELSE @]

\* Mutant: the cursor is placed by the width that was.
MutRewrappedOldWidth(s, cols, cx, x, base) ==
    [x |-> x % s.cols, y |-> base + (x \div s.cols)]

\* Where column x of the logical line that begins at row base comes to lie.
\* In column 0 of a continuation the cursor stays on the row before.
Rewrapped(s, cols, cx, x, base) ==
    LET y == base + (x \div cols)
    IN IF x % cols # 0 \/ y = 0 THEN [x |-> x % cols, y |-> y]
       ELSE [x |-> IF cols < s.cols THEN cx ELSE cols, y |-> y - 1]

\* The logical line that goes on with the i-th line, or ends with it and is
\* split again.  open holds the cells of one that goes on, and x the column at
\* which the cursor is in it.
Join(s, cols, cursor, done, i) ==
    LET line == s.lines[i]
        cells == IF WasWrapped(line) THEN SetLastCellWasWrapped(line, FALSE).cells
                 ELSE line.cells
        whole == done.open \o cells
        x == IF i - 1 = cursor.y THEN cursor.x + Len(done.open) ELSE done.x
    IN IF WasWrapped(line)
         THEN [done EXCEPT !.open = whole, !.x = x]
         ELSE [lines |-> done.lines \o
                    (IF Len(whole) <= cols
                       THEN <<[cells |-> whole, changed |-> TRUE]>>
                       ELSE Wrap(whole, cols)),
               open |-> << >>, x |-> -1,
               cursor |-> IF x = -1 THEN done.cursor
                          ELSE Rewrapped(s, cols, cursor.x, x, Len(done.lines))]

\* rewrap_lines: lines are joined with the ones they were wrapped into and
\* split again.
RewrapLines(s, rows, cols, cursor) ==
    LET joined[n \in 0 .. Len(s.lines)] ==
            IF n = 0 THEN [lines |-> << >>, open |-> << >>, x |-> -1, cursor |-> cursor]
            ELSE Join(s, cols, cursor, joined[n - 1], n)
        all == joined[Len(s.lines)]
    IN [lines |-> WithoutWhitespace(all.lines, rows + ScrollbackSize(s)),
        cursor |-> all.cursor]

\* Screen::resize, without the quirks of ConPTY; the cursor has the row of
\* the screen.
ResizeScreen(s, size, cursor) ==
    LET rows == size[1]
        cols == size[2]
        at == [x |-> cursor.x, y |-> PhysRow(s, cursor.y)]
        pruned == [s EXCEPT !.lines = WithoutWhitespace(@, at.y + 1)]
        sized == IF cols = s.cols THEN [lines |-> pruned.lines, cursor |-> at]
                 ELSE IF s.scrolls THEN RewrapLines(pruned, rows, cols, at)
                 ELSE [lines |-> [i \in DOMAIN pruned.lines |->
                                    IF cols < s.cols
                                      THEN ResizeLine(pruned.lines[i], cols)
                                      ELSE Touch(pruned.lines[i])],
                       cursor |-> at]
        lines == sized.lines \o NewLines(Most(0, rows - Len(sized.lines)))
    IN IF rows = s.rows /\ cols = s.cols THEN [screen |-> s, cursor |-> cursor]
       ELSE [screen |-> [s EXCEPT !.lines = lines, !.rows = rows, !.cols = cols],
             cursor |-> [x |-> sized.cursor.x,
                         y |-> sized.cursor.y - (Len(lines) - rows)]]

------------------------------------------------------------------------------
(* The terminal: two screens, and the cursor of the active one.            *)

Active(t) == t.screens[t.active]
OnActive(t, s) == [t EXCEPT !.screens[t.active] = s]

NewTerminal(size) ==
    [screens |-> [primary |-> NewScreen(size, TRUE), alt |-> NewScreen(size, FALSE)],
     active |-> "primary", x |-> 0, y |-> 0, wrapNext |-> FALSE,
     top |-> 0, bottom |-> size[1], origin |-> FALSE, printed |-> 0]

\* Mutant: the last row is taken for one further down.
MutMoveToBelow(t, x, y) ==
    LET s == Active(t)
        row == IF t.origin THEN Least(y + t.top, t.bottom - 1) ELSE Least(y, s.rows)
    IN [t EXCEPT !.x = Most(0, Least(x, IF t.origin THEN s.cols - 1 ELSE s.cols)),
                 !.y = Most(0, row), !.wrapNext = FALSE]

\* set_cursor_pos with Position::Absolute; x may be one past the screen.
MoveTo(t, x, y) ==
    LET s == Active(t)
        row == IF t.origin THEN Least(y + t.top, t.bottom - 1) ELSE Least(y, s.rows - 1)
    IN [t EXCEPT !.x = Most(0, Least(x, IF t.origin THEN s.cols - 1 ELSE s.cols)),
                 !.y = Most(0, row), !.wrapNext = FALSE]

\* set_cursor_pos with Position::Relative.
MoveBy(t, dx, dy) ==
    LET s == Active(t)
    IN [t EXCEPT !.x = Most(0, Least(@ + dx, s.cols - 1)),
                 !.y = Most(0, Least(@ + dy, (IF t.origin THEN t.bottom ELSE s.rows) - 1)),
                 !.wrapNext = FALSE]

ScrollRegionUp(t, n) == OnActive(t, ScrollUp(Active(t), t.top, t.bottom, n))
ScrollRegionDown(t, n) == OnActive(t, ScrollDown(Active(t), t.top, t.bottom, n))

\* new_line: at the bottom margin the region scrolls.
NextLine(t, x) ==
    IF t.y = t.bottom - 1 THEN MoveTo(ScrollRegionUp(t, 1), x, t.y)
    ELSE MoveTo(t, x, t.y + 1)

\* One round of flush_print.
PrintLetter(t) ==
    LET s == Active(t)
        marked == OnActive(t, WithLine(s, t.y, SetLastCellWasWrapped(LineAt(s, t.y), TRUE)))
        u == IF t.wrapNext THEN NextLine(marked, 0) ELSE t
        v == Active(u)
        w == OnActive(u, WithLine(v, u.y, SetCell(LineAt(v, u.y), u.x, t.printed + 1)))
        wrappable == u.x + 1 >= v.cols
    IN [w EXCEPT !.printed = @ + 1,
                 !.x = IF wrappable THEN @ ELSE @ + 1,
                 !.wrapNext = wrappable]

PrintText(t, n) ==
    LET printed[i \in 0 .. n] == IF i = 0 THEN t ELSE PrintLetter(printed[i - 1])
    IN printed[n]

DirtyLine(t, y) ==
    LET s == Active(t) IN OnActive(t, WithLine(s, y, Touch(LineAt(s, y))))

ClearLine(t, y, x1, x2) ==
    LET s == Active(t) IN OnActive(t, WithLine(s, y, ClearCells(LineAt(s, y), x1, x2)))

EraseInLine(t, what) ==
    LET cols == Active(t).cols
    IN CASE what = "end" -> ClearLine(t, t.y, t.x + (IF t.wrapNext THEN 1 ELSE 0), cols)
         [] what = "start" -> ClearLine(t, t.y, 0, t.x + 1)
         [] what = "all" -> ClearLine(t, t.y, 0, cols)

\* The rows from first to last - 1 become blank, and a line of single width,
\* which is a change of the line whatever was in it.
EraseRows(t, first, last) ==
    LET s == Active(t)
        Erased(line) == Touch(ClearCells(line, 0, s.cols))
    IN OnActive(t, [s EXCEPT !.lines =
            [i \in DOMAIN @ |-> IF i - 1 \in PhysRow(s, first) .. PhysRow(s, last) - 1
                                  THEN Erased(@[i]) ELSE @[i]]])

EraseInDisplay(t, what) ==
    LET rows == Active(t).rows
    IN CASE what = "end" -> EraseRows(EraseInLine(t, "end"), t.y + 1, rows)
         [] what = "start" -> EraseRows(EraseInLine(t, "start"), 0, t.y)
         [] what = "all" -> EraseRows(t, 0, rows)
         [] what = "scrollback" -> OnActive(t, EraseScrollback(Active(t)))

\* Mutant: a switch marks no lines.
MutActivateQuietly(t, which) == [t EXCEPT !.active = which]

\* activate_alt_screen and activate_primary_screen: in both directions it is
\* lines of the primary screen that are marked as changed.
Activate(t, which) ==
    [t EXCEPT !.active = which,
              !.screens.primary.lines = TouchRows(@, 0 .. t.screens.primary.rows - 1)]

SaveCursor(t) ==
    [t EXCEPT !.screens[t.active].saved =
        <<[x |-> t.x, y |-> t.y, wrapNext |-> t.wrapNext, origin |-> t.origin]>>]

RestoreCursor(t) ==
    LET saved == Active(t).saved
        to == IF saved = << >>
                THEN [x |-> 0, y |-> 0, wrapNext |-> FALSE, origin |-> FALSE]
                ELSE saved[1]
    IN [MoveTo([t EXCEPT !.origin = FALSE], to.x, to.y)
            EXCEPT !.wrapNext = to.wrapNext, !.origin = to.origin]

\* TerminalState::resize: both screens, each with the cursor it has or has
\* saved.
Resized(t, size) ==
    LET other == IF t.active = "alt" THEN "primary" ELSE "alt"
        Cursor(which) ==
            IF which = t.active THEN [x |-> t.x, y |-> t.y]
            ELSE IF t.screens[which].saved = << >> THEN [x |-> 0, y |-> 0]
            ELSE [x |-> t.screens[which].saved[1].x, y |-> t.screens[which].saved[1].y]
        new == [which \in {"primary", "alt"} |->
                    ResizeScreen(t.screens[which], size, Cursor(which))]
        u == [t EXCEPT !.screens = [which \in {"primary", "alt"} |-> new[which].screen],
                       !.top = 0, !.bottom = size[1]]
        v == MoveTo(u, new[t.active].cursor.x, new[t.active].cursor.y)
    IN IF t.screens[other].saved = << >> THEN v
       ELSE [v EXCEPT !.screens[other].saved[1] =
                [@ EXCEPT !.x = new[other].cursor.x, !.y = new[other].cursor.y,
                          !.wrapNext = FALSE]]

\* EscCode::FullReset.  What the screens have saved stays.
Reset(t) ==
    LET s == Active(t)
        u == [t EXCEPT !.x = 0, !.y = 0, !.wrapNext = FALSE, !.origin = FALSE,
                       !.top = 0, !.bottom = s.rows]
        blank == EraseInDisplay(EraseInDisplay(
                    Activate(EraseInDisplay(Activate(u, "alt"), "all"), "primary"),
                    "scrollback"), "all")
    IN [blank EXCEPT !.screens.primary.lines = TouchRows(@, 0 .. Len(@) - 1)]

\* erase_scrollback_and_viewport: the row of the cursor becomes the first,
\* with the sequence number it had.
EraseAllButCursorRow(t) ==
    LET u == EraseInDisplay(t, "scrollback")
        row == LineAt(Active(u), u.y)
    IN [OnActive(u, WithLine(Active(EraseInDisplay(u, "all")), 0, row)) EXCEPT !.y = 0]

------------------------------------------------------------------------------
(* Steps. *)

\* The rows of the screen shown before and after whose content differs while
\* get_changed_stable_rows does not name them to one who asked before.
Unreported(t, u) ==
    {r \in StableRows(Active(t)) \cap StableRows(Active(u)) :
        /\ AtStable(Active(t), r).cells # AtStable(Active(u), r).cells
        /\ ~ AtStable(Active(u), r).changed}

\* The next batch of actions has a new sequence number.
Settled(t) ==
    LET Settle(s) == [s EXCEPT !.lines = [i \in DOMAIN @ |-> [@[i] EXCEPT !.changed = FALSE]]]
    IN [t EXCEPT !.screens = [primary |-> Settle(@.primary), alt |-> Settle(@.alt)]]

Become(u) ==
    /\ taken < MaxActions
    /\ taken' = taken + 1
    /\ term' = Settled(u)
    /\ unreported' = Unreported(term, u)
    /\ UNCHANGED scrollback

ScreenInit ==
    /\ \E size \in Sizes : term = Settled(NewTerminal(size))
    /\ scrollback \in Scrollbacks
    /\ unreported = {}
    /\ taken = 0

FlushPrint == \E n \in Texts : Become(PrintText(term, n))

\* Beyond the right margin the cursor goes down but nothing scrolls.
LineFeed ==
    \/ term.x < Active(term).cols /\ Become(NextLine(term, term.x))
    \/ /\ term.x >= Active(term).cols
       /\ LET y == IF term.y = term.bottom - 1 THEN term.y
                   ELSE Least(term.y + 1, Active(term).rows - 1)
          IN Become([DirtyLine(DirtyLine(term, term.y), y)
                        EXCEPT !.y = y, !.wrapNext = FALSE])

CarriageReturn ==
    Become([DirtyLine(term, term.y) EXCEPT !.x = 0, !.wrapNext = FALSE])

Backspace == term.x # 0 /\ Become(MoveBy(term, -1, 0))

Index ==
    /\ term.x < Active(term).cols
    /\ Become(IF term.y = term.bottom - 1 THEN ScrollRegionUp(term, 1)
              ELSE MoveBy(term, 0, 1))

ReverseIndex ==
    /\ term.x < Active(term).cols
    /\ Become(IF term.y = term.top THEN ScrollRegionDown(term, 1)
              ELSE MoveBy(term, 0, -1))

CursorPosition ==
    \E x \in 0 .. Active(term).cols, y \in 0 .. Active(term).rows - 1 :
        Become(MoveTo(term, x, y))

SetTopAndBottomMargins ==
    \E top, last \in 0 .. Active(term).rows - 1 :
        /\ top < last
        /\ Become(MoveTo([term EXCEPT !.top = top, !.bottom = last + 1], 0, 0))

OriginMode ==
    \E on \in BOOLEAN : Become(MoveTo([term EXCEPT !.origin = on], 0, 0))

Scroll == Become(ScrollRegionUp(term, 1)) \/ Become(ScrollRegionDown(term, 1))

\* InsertLine and DeleteLine: the region from the cursor on.
InRegion == term.y \in term.top .. term.bottom - 1 /\ term.x < Active(term).cols

InsertLine ==
    /\ InRegion
    /\ Become(OnActive(term, ScrollDown(Active(term), term.y, term.bottom, 1)))

DeleteLine ==
    /\ InRegion
    /\ Become(OnActive(term, ScrollUp(Active(term), term.y, term.bottom, 1)))

Erase ==
    \/ \E what \in {"end", "start", "all"} : Become(EraseInLine(term, what))
    \/ \E what \in {"end", "start", "all", "scrollback"} :
            Become(EraseInDisplay(term, what))

\* The private modes 47 and 1047, of which the second erases when it is reset.
EnterAlternate == term.active = "primary" /\ Become(Activate(term, "alt"))

LeaveAlternate ==
    /\ term.active = "alt"
    /\ \/ Become(Activate(term, "primary"))
       \/ Become(Activate(EraseInDisplay(term, "all"), "primary"))

\* The private mode 1049, which saves the cursor.
ClearAndEnterAlternate ==
    /\ term.active = "primary"
    /\ Become(EraseInDisplay(MoveTo(Activate(SaveCursor(term), "alt"), 0, 0), "all"))

LeaveAndRestore ==
    /\ term.active = "alt"
    /\ Become(RestoreCursor(Activate(term, "primary")))

SaveOrRestore == Become(SaveCursor(term)) \/ Become(RestoreCursor(term))

FullReset == Become(Reset(term))

\* The user resizes the window, or has scrollback or everything erased.
ResizeWindow == \E size \in Sizes : Become(Resized(term, size))

ScrollbackOnly == Become(OnActive(term, EraseScrollback(Active(term))))

ScrollbackAndViewport == Become(EraseAllButCursorRow(term))

\* The configuration is reloaded; the screens hear of it when they scroll.
Reload ==
    /\ taken < MaxActions
    /\ taken' = taken + 1
    /\ scrollback' \in Scrollbacks \ {scrollback}
    /\ unreported' = {}
    /\ UNCHANGED term

Output ==
    \/ FlushPrint \/ LineFeed \/ CarriageReturn \/ Backspace \/ Index \/ ReverseIndex
    \/ CursorPosition \/ SetTopAndBottomMargins \/ OriginMode \/ Scroll
    \/ InsertLine \/ DeleteLine \/ Erase \/ SaveOrRestore \/ FullReset
    \/ EnterAlternate \/ LeaveAlternate
    \/ ClearAndEnterAlternate \/ LeaveAndRestore

ScreenNext == Output \/ ResizeWindow \/ ScrollbackOnly \/ ScrollbackAndViewport \/ Reload

ScreenSpec == ScreenInit /\ [][ScreenNext]_screenVars

------------------------------------------------------------------------------
(* Properties. *)

Letters(cells) == [i \in DOMAIN cells |-> cells[i].letter]
Rows(s) == SubSeq(s.lines, Len(s.lines) - s.rows + 1, Len(s.lines))
Shown(s) == [i \in 1 .. s.rows |-> Rows(s)[i].cells]

\* Every row that the code will index is there: the lines fill the screen, and
\* cursor and margins, also after any sequence of resizes, switches and
\* restored cursors, are within it.  Both screens have the size of the pane.
RowsExist ==
    /\ \A which \in {"primary", "alt"} :
            LET s == term.screens[which]
            IN /\ Len(s.lines) >= s.rows
               /\ s.rows = Active(term).rows /\ s.cols = Active(term).cols
    /\ term.y \in 0 .. Active(term).rows - 1
    /\ term.x \in 0 .. Active(term).cols
    /\ 0 <= term.top /\ term.top < term.bottom /\ term.bottom <= Active(term).rows

\* What scrolling shall look like: only the rows of the region move.
Moved(rows, top, bottom, n) ==
    LET count == Least(n, bottom - top)
        Blanks == [i \in 1 .. count |-> << >>]
    IN SubSeq(rows, 1, top) \o SubSeq(rows, top + count + 1, bottom)
       \o Blanks \o SubSeq(rows, bottom + 1, Len(rows))

MovedBack(rows, top, bottom, n) ==
    LET count == Least(n, bottom - top)
        Blanks == [i \in 1 .. count |-> << >>]
    IN SubSeq(rows, 1, top) \o Blanks
       \o SubSeq(rows, top + 1, bottom - count) \o SubSeq(rows, bottom + 1, Len(rows))

\* scroll_up and scroll_down move the rows of the region and no other row of
\* the screen, whether the scrolled rows go into scrollback, drop out of a
\* full one, or out of one that was made smaller; the region is that of the
\* margins or its part from the cursor on.
ScrollMovesTheRegion ==
    LET s == Active(term)
        shown == Shown(s)
    IN \A top \in {term.top} \cup {y \in {term.y} : InRegion}, n \in 1 .. 2 :
          /\ Shown(ScrollUp(s, top, term.bottom, n)) = Moved(shown, top, term.bottom, n)
          /\ Shown(ScrollDown(s, top, term.bottom, n)) = MovedBack(shown, top, term.bottom, n)

\* The texts of the logical lines, without blank ends.
Trimmed(letters) ==
    LET kept == {i \in DOMAIN letters : letters[i] # 0}
    IN IF kept = {} THEN << >> ELSE SubSeq(letters, 1, Max(kept))

Paragraphs(lines) ==
    LET Add(done, line) ==
            LET text == done.open \o Letters(line.cells)
            IN IF WasWrapped(line) THEN [done EXCEPT !.open = text]
               ELSE [all |-> Append(done.all, Trimmed(text)), open |-> << >>]
        added[n \in 0 .. Len(lines)] ==
            IF n = 0 THEN [all |-> << >>, open |-> << >>]
            ELSE Add(added[n - 1], lines[n])
        end == added[Len(lines)]
        all == Append(end.all, Trimmed(end.open))
        kept == {i \in DOMAIN all : all[i] # << >>}
    IN IF kept = {} THEN << >> ELSE SubSeq(all, 1, Max(kept))

OtherSizes == Sizes \ {<<Active(term).rows, Active(term).cols>>}

\* What the comment in rewrap_lines says: a resize of the pane loses nothing of
\* the primary screen and its scrollback, breaks no logical line and joins none.
TextIsKept(t) ==
    Paragraphs(t.screens.primary.lines) = Paragraphs(term.screens.primary.lines)

ResizeLosesNothing == \A size \in OtherSizes : TextIsKept(Resized(term, size))

LetterAt(cells, x) == IF x + 1 \in DOMAIN cells THEN cells[x + 1].letter ELSE 0

\* A cursor on a letter is on it, unless the letter has come to begin a row,
\* which leaves the cursor on the row before it, or has left the screen at the
\* top.
CursorIsKept(t) ==
    LET s == Active(t)
        letter == LetterAt(LineAt(Active(term), term.y).cells, term.x)
        i == PhysRow(s, t.y) + 1
        BeginsAt(j) == j \in DOMAIN s.lines /\ LetterAt(s.lines[j].cells, 0) = letter
    IN letter # 0 =>
          \/ LetterAt(s.lines[i].cells, t.x) = letter
          \/ BeginsAt(i + 1)
          \/ \E j \in 1 .. Len(s.lines) - s.rows + 1, x \in 0 .. s.cols :
                t.y = 0 /\ LetterAt(s.lines[j].cells, x) = letter

\* The lines that a resize begins with end in one that was wrapped: its
\* continuation was blank and below the cursor, or has scrolled away.
EndsInWrapped(t) ==
    LET y == IF t.active = "primary" THEN t.y
             ELSE IF t.screens.primary.saved = << >> THEN 0
             ELSE t.screens.primary.saved[1].y
        lines == WithoutWhitespace(t.screens.primary.lines,
                                   PhysRow(t.screens.primary, y) + 1)
    IN WasWrapped(Last(lines))

\* The text of the primary screen and its scrollback outlives a resize, whole
\* and in the same logical lines, and its cursor stays on its letter, except
\* that a wrapped line at the end is lost.
ResizeKeepsTextAndCursor ==
    \/ EndsInWrapped(term)
    \/ \A t \in {Resized(term, size) : size \in OtherSizes} :
          TextIsKept(t) /\ (t.active = "primary" => CursorIsKept(t))

Erases == Erase \/ FullReset \/ ScrollbackOnly \/ ScrollbackAndViewport

\* A row in scrollback keeps its stable index and its content until a resize
\* or until it is erased; otherwise it only leaves a scrollback that is full.
\* Stable indices are not given out again.
ScrollbackStays ==
    [][LET s == term.screens.primary
           u == term'.screens.primary
       IN /\ u.offset >= s.offset
          /\ \/ <<u.rows, u.cols>> # <<s.rows, s.cols>>
             \/ \A i \in 1 .. Len(s.lines) - s.rows :
                LET r == StableRow(s, i)
                IN IF r \in StableRows(u) THEN AtStable(u, r).cells = s.lines[i].cells
                   ELSE Len(u.lines) = u.rows + scrollback \/ Erases]_screenVars

\* Known not to be reported: the lines of the alternate screen when a program
\* switches to it without erasing; rows of an alternate screen that has more
\* lines than it shows, which a resize leaves it with; the rows below a region
\* whose lines drop out of a full scrollback; the row that is kept when the
\* user erases everything.
SwitchesWithoutErasing == EnterAlternate
ShiftsRowsBelow ==
    /\ term.active = "primary" /\ term'.active = "primary"
    /\ term.bottom < Active(term).rows
    /\ term'.screens.primary.offset > term.screens.primary.offset
HasLongAlternate ==
    /\ "alt" \in {term.active, term'.active}
    /\ Len(term.screens.alt.lines) > term.screens.alt.rows

\* One who asks which rows changed after every batch of actions hears of each
\* row whose content is not what it was, or is that of the other screen.
ChangesAreReported ==
    [][\/ unreported' = {}
       \/ SwitchesWithoutErasing \/ ShiftsRowsBelow \/ HasLongAlternate
       \/ ScrollbackAndViewport]_screenVars

\* What the comment on dirty_top_phys_rows says: a switch between the screens
\* marks the rows whose content it changes.
SwitchIsReported == [][term'.active # term.active => unreported' = {}]_screenVars

=============================================================================
