----------------------------- MODULE RenderSync -----------------------------
(***************************************************************************)
(* The rows of one remote pane, from the server's terminal to the line     *)
(* cache of the client: PerPane::compute_changes and the GetLines handler  *)
(* (wezterm-mux-server-impl/src/sessionhandler.rs), the way a push and a   *)
(* reply take through the client's main thread (wezterm-client/src/        *)
(* client.rs) and RenderableInner (wezterm-client/src/pane/renderable.rs). *)
(*                                                                         *)
(* The content of a row is the sequence number of its last change.  The    *)
(* terminal is written by another thread while the server computes a push. *)
(* The client spawns a push into its main thread twice and wakes the task  *)
(* of a reply once, so a reply may overtake pushes that came just before   *)
(* it, and a push overtakes nothing; either may then have to wait for the  *)
(* data of images.  A fetch is known by the instant it was started at;     *)
(* instants are numbers that are not in use.  The size of the pane is      *)
(* fixed, input and prediction are left out.                               *)
(***************************************************************************)
EXTENDS Integers, Sequences, FiniteSetsExt, SequencesExt

CONSTANTS
    Bottom,      \* the rows are 0 .. Bottom
    Top,         \* physical_top: the viewport is Top .. Bottom
    ImageRows,   \* rows that may show images
    MaxWrites,   \* bound: changes of the terminal
    MaxStales,   \* bound: calls of make_all_stale
    MaxFetches   \* bound: fetches in flight when a paint starts another

RowsAssumption == Bottom \in Nat /\ Top \in 0 .. Bottom
ImageRowsAssumption == ImageRows \subseteq 0 .. Bottom
LinesBoundsAssumption == {MaxWrites, MaxStales, MaxFetches} \subseteq Nat

Rows == 0 .. Bottom
Viewport == Top .. Bottom

VARIABLES
    content,    \* the server's rows
    seqno,      \* the terminal's sequence number
    cursor,     \* the row of the terminal's cursor
    perPane,    \* seqno and cursor_position of PerPane
    due,        \* a push of this pane is scheduled
    push,       \* where compute_changes is, and what it has read
    fetches,    \* GetLines requests
    updates,    \* pushes and replies on their way to the client's main thread
    awaiting,   \* pushes and replies that wait for images
    lines,      \* the client's line cache
    client,     \* seqno and cursor_position of RenderableInner
    repaint,    \* the GUI was told to paint the pane
    stales      \* calls of make_all_stale

terminal == <<content, seqno, cursor>>
pane     == <<lines, client, repaint, stales>>
wires    == <<fetches, updates, awaiting>>
lineVars == <<terminal, perPane, due, push, wires, pane>>

Absent            == [kind |-> "none"]
Line(v, s)        == [kind |-> "line", row |-> v, seq |-> s]
Fetching(t)       == [kind |-> "fetching", since |-> t]
Refetching(old, t) == [kind |-> "line_and_fetching", row |-> old.row, seq |-> old.seq, since |-> t]
Stale(old)        == [kind |-> "stale", row |-> old.row, seq |-> old.seq]

Idle == [at |-> "idle"]

-----------------------------------------------------------------------------
(* Fetches.                                                                *)

(* Replies that are on their way, wherever they are.                       *)
InFlight == Range(updates) \cup awaiting

IsFetched(e) == e.kind \in {"fetching", "line_and_fetching"}

Instants ==
    {lines[r].since : r \in {q \in Rows : IsFetched(lines[q])}}
        \cup {f.since : f \in Range(fetches)}
        \cup {m.since : m \in {n \in InFlight : n.kind = "reply"}}

(* A new instant.                                                          *)
Now == Min((1 .. Cardinality(Instants) + 1) \ Instants)

(* schedule_fetch_lines                                                    *)
ScheduleFetch(rows) ==
    fetches' = IF rows = {} THEN fetches ELSE Append(fetches, [rows |-> rows, since |-> Now])

-----------------------------------------------------------------------------
(* The server.                                                             *)

LinesInit ==
    /\ content = [r \in Rows |-> 1]
    /\ seqno = 1
    /\ cursor = Top
    /\ perPane = [seqno |-> 0, cursor |-> 0]
    /\ due = FALSE
    /\ push = Idle
    /\ fetches = << >>
    /\ updates = << >>
    /\ awaiting = {}
    /\ lines = [r \in Rows |-> Absent]
    /\ client = [seqno |-> 0, cursor |-> 0]
    /\ repaint = TRUE
    /\ stales = 0

(* The terminal changes a row, the cursor may go there, and the mux is     *)
(* told of output, which schedules a push.                                 *)
Write(r) ==
    /\ seqno <= MaxWrites
    /\ seqno' = seqno + 1
    /\ content' = [content EXCEPT ![r] = seqno + 1]
    /\ cursor' \in {cursor} \cup ({r} \cap Viewport)
    /\ due' = TRUE
    /\ UNCHANGED <<perPane, push, wires, pane>>

(* compute_changes reads the cursor and the sequence number first.  Each   *)
(* read locks the terminal for itself; what happens between these two only *)
(* makes another push due.                                                 *)
BeginPush ==
    /\ push.at = "idle"
    /\ due
    /\ due' = FALSE
    /\ push' = [at |-> "dirty", cursor |-> cursor, since |-> perPane.seqno]
    /\ perPane' = [perPane EXCEPT !.seqno = seqno]
    /\ UNCHANGED <<terminal, wires, pane>>

(* Then come the rows changed since the last push; without any change the  *)
(* push ends here ...                                                      *)
ReadDirty ==
    /\ push.at = "dirty"
    /\ LET dirty == {r \in Rows : content[r] > push.since}
       IN push' = IF dirty = {} /\ push.cursor = perPane.cursor THEN Idle
                  ELSE [at |-> "lines", cursor |-> push.cursor, dirty |-> dirty]
    /\ UNCHANGED <<terminal, perPane, due, wires, pane>>

(* ... and then the rows themselves.  Those of the viewport and the        *)
(* cursor's row go along, the others are only named.                       *)
SendPush ==
    /\ push.at = "lines"
    /\ LET sent == (push.dirty \cap Viewport) \cup {push.cursor}
       IN updates' = Append(updates,
              [kind |-> "push", rows |-> [r \in sent |-> content[r]],
               dirty |-> push.dirty \ Viewport, cursor |-> push.cursor,
               seqno |-> perPane.seqno])
    /\ perPane' = [perPane EXCEPT !.cursor = push.cursor]
    /\ push' = Idle
    /\ UNCHANGED <<terminal, due, fetches, awaiting, pane>>

(* The main thread runs one task at a time, so not within a push.          *)
ServeFetch ==
    /\ push.at = "idle"
    /\ fetches # << >>
    /\ LET fetch == Head(fetches)
       IN updates' = Append(updates,
              [kind |-> "reply", rows |-> [r \in fetch.rows |-> content[r]], since |-> fetch.since])
    /\ fetches' = Tail(fetches)
    /\ UNCHANGED <<terminal, perPane, due, push, awaiting, pane>>

-----------------------------------------------------------------------------
(* The client's main thread.                                               *)

(* make_stale: a row that was never received is forgotten.                 *)
MadeStale(e) ==
    IF e.kind \in {"line", "stale", "line_and_fetching"} THEN Stale(e) ELSE Absent

MadeFetching(e) ==
    IF e.kind \in {"none", "fetching"} THEN Fetching(Now) ELSE Refetching(e, Now)

(* Mutant: rows that are not fetched are kept as if they were.             *)
MutApplyPush(m) ==
    LET moved == IF m.cursor = client.cursor THEN {} ELSE {client.cursor, m.cursor}
        dirty == (m.dirty \cup moved) \ DOMAIN m.rows
        fetch == dirty \cap Viewport
    IN /\ client' = [seqno |-> m.seqno, cursor |-> m.cursor]
       /\ \E admitted \in IF fetch = {} THEN {TRUE} ELSE BOOLEAN :
            /\ lines' = [r \in Rows |->
                  IF r \in DOMAIN m.rows THEN Line(m.rows[r], m.rows[r])
                  ELSE IF r \notin dirty THEN lines[r]
                  ELSE IF r \notin fetch THEN Absent
                  ELSE MadeFetching(lines[r])]
            /\ ScheduleFetch(IF admitted THEN fetch ELSE {})
       /\ repaint' = TRUE

(* apply_changes_to_surface: rows that came along are taken as they are,   *)
(* dirty rows outside of the viewport are dropped and those inside are     *)
(* fetched, unless the rate limiter refuses.                               *)
ApplyPush(m) ==
    LET moved == IF m.cursor = client.cursor THEN {} ELSE {client.cursor, m.cursor}
        dirty == (m.dirty \cup moved) \ DOMAIN m.rows
        fetch == dirty \cap Viewport
    IN /\ client' = [seqno |-> m.seqno, cursor |-> m.cursor]
       /\ \E admitted \in IF fetch = {} THEN {TRUE} ELSE BOOLEAN :
            /\ lines' = [r \in Rows |->
                  IF r \in DOMAIN m.rows THEN Line(m.rows[r], m.rows[r])
                  ELSE IF r \notin dirty THEN lines[r]
                  ELSE IF r \notin fetch THEN Absent
                  ELSE IF admitted THEN MadeFetching(lines[r])
                  ELSE MadeStale(lines[r])]
            /\ ScheduleFetch(IF admitted THEN fetch ELSE {})
       /\ repaint' = TRUE

(* Mutant: a reply replaces whatever the row has become.                   *)
MutApplyLines(m) ==
    /\ lines' = [r \in Rows |->
          IF r \in DOMAIN m.rows
          THEN Line(m.rows[r], Max({m.rows[r], client.seqno}))
          ELSE lines[r]]
    /\ repaint' = TRUE
    /\ UNCHANGED <<client, fetches>>

(* apply_lines: only a row that this very fetch was started for.           *)
ApplyLines(m) ==
    /\ lines' = [r \in Rows |->
          IF r \in DOMAIN m.rows /\ IsFetched(lines[r]) /\ lines[r].since = m.since
          THEN Line(m.rows[r], Max({m.rows[r], client.seqno}))
          ELSE lines[r]]
    /\ repaint' = TRUE
    /\ UNCHANGED <<client, fetches>>

Apply(m) == IF m.kind = "push" THEN ApplyPush(m) ELSE ApplyLines(m)

(* The messages that the main thread may come to next.                     *)
Arriving ==
    {i \in DOMAIN updates :
        i = 1 \/ (updates[i].kind = "reply" /\ \A j \in 1 .. i - 1 : updates[j].kind = "push")}

(* hydrate_lines returns at once without images, or with cached ones, ...  *)
Arrive(i) ==
    /\ i \in Arriving
    /\ updates' = RemoveAt(updates, i)
    /\ Apply(updates[i])
    /\ UNCHANGED <<terminal, perPane, due, push, awaiting, stales>>

(* ... and waits for the server otherwise.                                 *)
AwaitImages(i) ==
    /\ i \in Arriving
    /\ DOMAIN updates[i].rows \cap ImageRows # {}
    /\ updates' = RemoveAt(updates, i)
    /\ awaiting' = awaiting \cup {updates[i]}
    /\ UNCHANGED <<terminal, perPane, due, push, fetches, pane>>

ImagesArrive ==
    \E m \in awaiting :
        /\ awaiting' = awaiting \ {m}
        /\ Apply(m)
        /\ UNCHANGED <<terminal, perPane, due, push, updates, stales>>

(* get_lines, row by row.                                                  *)
Painted(e) ==
    CASE e.kind = "line"  -> IF e.seq > client.seqno THEN Stale(e) ELSE e
      [] e.kind = "stale" -> Refetching(e, Now)
      [] e.kind = "none"  -> Fetching(Now)
      [] OTHER            -> e

(* Mutant: a stale row is painted and not fetched.                         *)
MutToFetch(rows) == {r \in rows : lines[r].kind = "none"}

ToFetch(rows) ==
    {r \in rows : lines[r].kind \in {"none", "stale"} \/
                  (lines[r].kind = "line" /\ lines[r].seq > client.seqno)}

GetLines(rows) ==
    /\ ToFetch(rows) # {} => Cardinality(Instants) < MaxFetches
    /\ lines' = [r \in Rows |-> IF r \in rows THEN Painted(lines[r]) ELSE lines[r]]
    /\ ScheduleFetch(ToFetch(rows))

(* The GUI paints the viewport when it was told of output.  It asks for    *)
(* changed rows first, which polls the server when the last poll was long  *)
(* enough ago; the server answers with the same push.                      *)
Repaint ==
    /\ repaint
    /\ repaint' = FALSE
    /\ due' \in {due, TRUE}
    /\ GetLines(Viewport)
    /\ UNCHANGED <<terminal, perPane, push, updates, awaiting, client, stales>>

(* It paints all that the user scrolls to.                                 *)
Scroll ==
    /\ ToFetch(Rows) # {}
    /\ GetLines(Rows)
    /\ UNCHANGED <<terminal, perPane, due, push, updates, awaiting, client, repaint, stales>>

(* make_all_stale after a new palette, a resize or a zoom, which repaint.  *)
MakeAllStale ==
    /\ stales < MaxStales
    /\ stales' = stales + 1
    /\ lines' = [r \in Rows |-> IF lines[r].kind = "line" THEN Stale(lines[r]) ELSE lines[r]]
    /\ repaint' = TRUE
    /\ UNCHANGED <<terminal, perPane, due, push, wires, client>>

-----------------------------------------------------------------------------

PaneServer == BeginPush \/ ReadDirty \/ SendPush \/ ServeFetch

MainThread(i) == Arrive(i) \/ AwaitImages(i)

LinesNext ==
    \/ \E r \in Rows : Write(r)
    \/ PaneServer
    \/ (\E i \in DOMAIN updates : MainThread(i)) \/ ImagesArrive
    \/ Repaint \/ Scroll \/ MakeAllStale

LinesSpec == LinesInit /\ [][LinesNext]_lineVars

(* Both ends run what is scheduled, and the GUI paints what it was told to *)
(* paint.  A pane that is painted again and again is polled sometimes, as  *)
(* the poll interval is at most MAX_POLL_INTERVAL.  Nothing is expected of *)
(* the user.                                                               *)
LinesFairSpec ==
    /\ LinesSpec
    /\ WF_lineVars(BeginPush) /\ WF_lineVars(ReadDirty) /\ WF_lineVars(SendPush)
    /\ SF_lineVars(ServeFetch)
    /\ WF_lineVars(MainThread(1)) /\ WF_lineVars(ImagesArrive)
    /\ WF_lineVars(Repaint) /\ SF_lineVars(Repaint /\ due')

-----------------------------------------------------------------------------
(* Properties.                                                             *)

Versions == 1 .. MaxWrites + 1

Entries ==
    {Absent}
        \cup [kind : {"line", "stale"}, row : Versions, seq : Versions]
        \cup [kind : {"fetching"}, since : Nat]
        \cup [kind : {"line_and_fetching"}, row : Versions, seq : Versions, since : Nat]

(* The type of the server's and of the client's view of the pane.          *)
LinesTypeOK ==
    /\ content \in [Rows -> Versions]
    /\ seqno \in Versions
    /\ cursor \in Viewport
    /\ perPane \in [seqno : 0 .. seqno, cursor : Rows]
    /\ due \in BOOLEAN
    /\ push.at \in {"idle", "dirty", "lines"}
    /\ \A f \in Range(fetches) : f.rows \subseteq Rows /\ f.since \in Nat
    /\ \A m \in InFlight : m.kind \in {"push", "reply"}
                          /\ DOMAIN m.rows \subseteq Rows /\ Range(m.rows) \subseteq Versions
    /\ lines \in [Rows -> Entries]
    /\ client \in [seqno : 0 .. seqno, cursor : Rows]
    /\ repaint \in BOOLEAN
    /\ stales \in 0 .. MaxStales

(* A row shown as being fetched is in a request or a reply of that very    *)
(* fetch, so it never stays blank or old because nobody fetches it.        *)
FetchingIsUnderWay ==
    \A r \in Rows :
        IsFetched(lines[r]) =>
            \/ \E f \in Range(fetches) : f.since = lines[r].since /\ r \in f.rows
            \/ \E m \in InFlight :
                  m.kind = "reply" /\ m.since = lines[r].since /\ r \in DOMAIN m.rows

(* Nothing is on its way between the terminal and the line cache.          *)
Quiet == ~due /\ push = Idle /\ fetches = << >> /\ InFlight = {}

(* "Up to date wrt. server" (LineEntry::Line): once nothing is on its way, *)
(* what is cached as up to date is what the server has, in whatever order  *)
(* output, pushes, fetches and repaints went.                              *)
CachedLinesAreUpToDate ==
    Quiet => \A r \in Rows : lines[r].kind = "line" => lines[r].row = content[r]

(* What the cache says of a row is true: that it is being fetched, and     *)
(* that it is up to date.                                                  *)
CacheIsTrue == FetchingIsUnderWay /\ CachedLinesAreUpToDate

(* When the terminal falls silent the screen comes to show its content.    *)
ViewportCatchesUp ==
    <>[](\A r \in Viewport : lines[r].kind = "line" /\ lines[r].row = content[r])

=============================================================================
