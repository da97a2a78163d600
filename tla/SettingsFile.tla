----------------------------- MODULE SettingsFile -----------------------------
(***************************************************************************)
(* The file of settings, orca-config.lua, between the processes that use   *)
(* it: the terminal (config/src), which makes the file when it is missing, *)
(* loads it and watches it, and the settings window (config-ui/src), which *)
(* loads it into a form, watches it and writes it; and any other program   *)
(* that edits it.  None of them locks it, and a write is two steps: the    *)
(* file is emptied, then it has its content.                               *)
(*                                                                         *)
(* A content is the set of the settings that differ from the default: an   *)
(* empty file and the template of the settings window are {}.  Shipped is  *)
(* the file the terminal generates.  MaxWrites bounds the writes of the    *)
(* window and of other programs, MaxEdits the changes in the form and      *)
(* MaxFaults the writes that fail.  automatically_reload_config is on.     *)
(***************************************************************************)
EXTENDS Naturals, FiniteSets

CONSTANTS Settings, Shipped, Absent, Torn, MaxWrites, MaxEdits, MaxFaults

ShippedAssumption == Shipped \subseteq Settings
ContentAssumption == Absent # Torn
BoundsAssumption == {MaxWrites, MaxEdits, MaxFaults} \subseteq Nat

VARIABLES
    file,       \* its content; Absent; or Torn: half a file, which does not load
    writer,     \* another program in the midst of a write
    terminal,   \* where its (re)load is, its configuration, WEZTERM_CONFIG_FILE
    window,     \* the settings window: where it is and its form
    watch,      \* for each process: does it watch, has it news, does it let them settle
    missed,     \* the file changed after a process read it and before it watched
    used        \* how much of each bound has been used

fileVars == <<file, writer, terminal, window, watch, missed, used>>

Processes == {"terminal", "window"}

\* The file has a content that loads.
Loads == file \notin {Absent, Torn}

------------------------------------------------------------------------------
(* The file and who hears of its changes.                                   *)

Changes(content) ==
    /\ file' = content
    /\ watch' = [p \in Processes |-> [watch[p] EXCEPT !.news = @ \/ watch[p].on]]
    /\ missed' = [p \in Processes |-> missed[p] \/ ~ watch[p].on]

Keeps == UNCHANGED <<file, watch, missed>>

Use(bound, limit) == used[bound] < limit /\ used' = [used EXCEPT ![bound] = @ + 1]

\* A watcher wakes up, waits a while (200 ms in the terminal, 2 s in the window)
\* for more, and drops what has come in meanwhile; some may come in later still.
Wakes(p) ==
    /\ watch[p].news
    /\ ~ watch[p].settling
    /\ watch' = [watch EXCEPT ![p].news = FALSE, ![p].settling = TRUE]
    /\ UNCHANGED <<file, writer, terminal, window, missed, used>>

Settles(p) ==
    /\ watch[p].settling
    /\ \E late \in {FALSE, watch[p].news} :
          watch' = [watch EXCEPT ![p].news = late, ![p].settling = FALSE]

------------------------------------------------------------------------------
(* The terminal: ConfigInner::reload and Config::load.                      *)

TermAt(step) == terminal.at = step

\* A missing file is noticed first; the variable that names it is stale then.
Look ==
    /\ TermAt("idle")
    /\ terminal' = IF file = Absent THEN [terminal EXCEPT !.at = "missing", !.named = FALSE]
                                    ELSE [terminal EXCEPT !.at = "found"]

\* The program starts, or someone asks for a reload.
Reload ==
    /\ Look
    /\ UNCHANGED <<file, writer, window, watch, missed, used>>

\* Mutant: a file that has gone is not worth a reload.
MutReloadSettled ==
    /\ Settles("terminal")
    /\ IF file = Absent THEN UNCHANGED terminal ELSE Look
    /\ UNCHANGED <<file, writer, window, missed, used>>

ReloadSettled ==
    /\ Settles("terminal")
    /\ Look
    /\ UNCHANGED <<file, writer, window, missed, used>>

\* default_orca_config_lua is written if the file was missing when looked for.
Generate ==
    \/ /\ TermAt("missing")
       /\ Changes({})
       /\ terminal' = [terminal EXCEPT !.at = "generating"]
       /\ UNCHANGED <<writer, window, used>>
    \/ /\ TermAt("generating")
       /\ Changes(Shipped)
       /\ terminal' = [terminal EXCEPT !.at = "found"]
       /\ UNCHANGED <<writer, window, used>>
    \/ /\ TermAt("beside")
       /\ Keeps
       /\ terminal' = [terminal EXCEPT !.at = "found"]
       /\ UNCHANGED <<writer, window, used>>
    \/ /\ TermAt("missing")
       /\ Use("faults", MaxFaults)
       /\ Keeps
       /\ terminal' = [terminal EXCEPT !.at = "found"]
       /\ UNCHANGED <<writer, window>>

\* Mutant: news that came in during the load is dropped.
MutLoad ==
    /\ TermAt("found")
    /\ terminal' = IF Loads THEN [at |-> "loaded", config |-> file, failed |-> FALSE, named |-> TRUE]
                   ELSE [terminal EXCEPT !.at = "loaded", !.failed = TRUE]
    /\ missed' = [missed EXCEPT !["terminal"] = FALSE]
    /\ watch' = [watch EXCEPT !["terminal"].news = FALSE]
    /\ UNCHANGED <<file, writer, window, used>>

\* try_load.  What fails to load leaves the configuration as it was; a file that
\* is gone by now fails only if the variable demands it.
Load ==
    /\ TermAt("found")
    /\ terminal' =
         IF Loads THEN [at |-> "loaded", config |-> file, failed |-> FALSE, named |-> TRUE]
         ELSE IF file = Absent /\ ~ terminal.named
           THEN [at |-> "loaded", config |-> {}, failed |-> FALSE, named |-> FALSE]
         ELSE [terminal EXCEPT !.at = "loaded", !.failed = TRUE]
    /\ missed' = [missed EXCEPT !["terminal"] = FALSE]
    /\ UNCHANGED <<file, writer, window, watch, used>>

\* The last thing a reload does, and without effect after the first.
Watch ==
    /\ TermAt("loaded")
    /\ terminal' = [terminal EXCEPT !.at = "idle"]
    /\ watch' = [watch EXCEPT !["terminal"].on = TRUE]
    /\ UNCHANGED <<file, writer, window, missed, used>>

------------------------------------------------------------------------------
(* The settings window: ConfigUi.                                           *)

WindowAt(step) == window.at = step
Closed == [at |-> "closed", form |-> {}, base |-> {}, dirty |-> FALSE, banner |-> FALSE]
Deaf == [on |-> FALSE, news |-> FALSE, settling |-> FALSE]

\* reload_from_disk: a file that does not load makes a form without settings.
Loaded(w) ==
    LET content == IF Loads THEN file ELSE {}
    IN [w EXCEPT !.form = content, !.base = content]

Open ==
    /\ WindowAt("closed")
    /\ window' = [Closed EXCEPT !.at = IF file = Absent THEN "missing" ELSE "loading"]
    /\ UNCHANGED <<file, writer, terminal, watch, missed, used>>

WriteTemplate ==
    /\ WindowAt("missing")
    /\ Changes({})
    /\ window' = [window EXCEPT !.at = "loading"]
    /\ UNCHANGED <<writer, terminal, used>>

LoadForm ==
    /\ WindowAt("loading")
    /\ window' = Loaded([window EXCEPT !.at = "open"])
    /\ missed' = [missed EXCEPT !["window"] = FALSE]
    /\ UNCHANGED <<file, writer, terminal, watch, used>>

\* start_file_watcher: a thread sets the watch while the window is in use.
StartWatch ==
    /\ WindowAt("open")
    /\ ~ watch["window"].on
    /\ watch' = [watch EXCEPT !["window"].on = TRUE]
    /\ UNCHANGED <<file, writer, terminal, window, missed, used>>

Edit(s) ==
    /\ WindowAt("open")
    /\ Use("edits", MaxEdits)
    /\ LET form == IF s \in window.form THEN window.form \ {s} ELSE window.form \cup {s}
       IN window' = [window EXCEPT !.form = form, !.dirty = TRUE]
    /\ UNCHANGED <<file, writer, terminal, watch, missed>>

\* Mutant: with changes in the form the news is dropped.
MutHearOfChange ==
    /\ WindowAt("open")
    /\ Settles("window")
    /\ window' = IF window.dirty THEN window ELSE Loaded(window)
    /\ missed' = [missed EXCEPT !["window"] = @ /\ window.dirty]
    /\ UNCHANGED <<file, writer, terminal, used>>

\* The handler of the watcher: it reloads, or only says so if there are changes.
HearOfChange ==
    /\ WindowAt("open")
    /\ Settles("window")
    /\ window' = IF window.dirty THEN [window EXCEPT !.banner = TRUE] ELSE Loaded(window)
    /\ missed' = [missed EXCEPT !["window"] = @ /\ window.dirty]
    /\ UNCHANGED <<file, writer, terminal, used>>

\* The button of the banner.
Discard ==
    /\ WindowAt("open")
    /\ window.banner
    /\ window' = Loaded([window EXCEPT !.dirty = FALSE, !.banner = FALSE])
    /\ missed' = [missed EXCEPT !["window"] = FALSE]
    /\ UNCHANGED <<file, writer, terminal, watch, used>>

\* save: whatever the file has now is written over, then the window closes.
Save ==
    \/ /\ WindowAt("open")
       /\ Use("writes", MaxWrites)
       /\ Changes({})
       /\ window' = [window EXCEPT !.at = "saving"]
       /\ UNCHANGED <<writer, terminal>>
    \/ /\ WindowAt("saving")
       /\ file' = window.form
       /\ watch' = [watch EXCEPT !["terminal"].news = @ \/ watch["terminal"].on, !["window"] = Deaf]
       /\ missed' = [missed EXCEPT !["terminal"] = @ \/ ~ watch["terminal"].on]
       /\ window' = Closed
       /\ UNCHANGED <<writer, terminal, used>>
    \/ /\ WindowAt("saving")
       /\ Use("faults", MaxFaults)
       /\ Changes(Torn)
       /\ window' = [window EXCEPT !.at = "open"]
       /\ UNCHANGED <<writer, terminal>>
    \/ /\ WindowAt("beside")
       /\ window' = Closed
       /\ watch' = [watch EXCEPT !["window"] = Deaf]
       /\ UNCHANGED <<file, writer, terminal, missed, used>>

\* The button that gives up the changes (reset), or the window is closed.
Close ==
    /\ WindowAt("open")
    /\ window' = Closed
    /\ watch' = [watch EXCEPT !["window"] = Deaf]
    /\ UNCHANGED <<file, writer, terminal, missed, used>>

------------------------------------------------------------------------------
(* Other programs.                                                          *)

WriteInPlace ==
    \/ /\ writer = "idle"
       /\ file # Absent
       /\ Use("writes", MaxWrites)
       /\ Changes({})
       /\ writer' = "writing"
       /\ UNCHANGED <<terminal, window>>
    \/ /\ writer = "writing"
       /\ \E content \in {Torn} \cup SUBSET Settings : Changes(content)
       /\ writer' = "idle"
       /\ UNCHANGED <<terminal, window, used>>

\* What a process is about to write goes to a file that has lost its name.
Beside(p) == [p EXCEPT !.at = IF @ \in {"generating", "saving"} THEN "beside" ELSE @]

\* A new file takes the name, or the name goes.
ReplaceOrDelete ==
    /\ writer = "idle"
    /\ Use("writes", MaxWrites)
    /\ \E content \in {Torn, Absent} \cup SUBSET Settings : file # content /\ Changes(content)
    /\ terminal' = Beside(terminal)
    /\ window' = Beside(window)
    /\ UNCHANGED writer

------------------------------------------------------------------------------
FileInit ==
    /\ file \in {Absent} \cup SUBSET Settings
    /\ writer = "idle"
    /\ terminal = [at |-> "idle", config |-> {}, failed |-> FALSE, named |-> FALSE]
    /\ window = Closed
    /\ watch = [p \in Processes |-> Deaf]
    /\ missed = [p \in Processes |-> TRUE]
    /\ used = [bound \in {"writes", "edits", "faults"} |-> 0]

Terminal == ReloadSettled \/ Generate \/ Load \/ Watch \/ Wakes("terminal")

Window ==
    \/ Open \/ WriteTemplate \/ LoadForm \/ StartWatch \/ HearOfChange \/ Wakes("window")
    \/ \E s \in Settings : Edit(s)
    \/ Discard \/ Save \/ Close

FileNext == Reload \/ Terminal \/ Window \/ WriteInPlace \/ ReplaceOrDelete

FileSpec == FileInit /\ [][FileNext]_fileVars

\* The terminal goes on by itself, and a write that was begun ends.
FileFairSpec ==
    /\ FileSpec
    /\ WF_fileVars(Terminal)
    /\ WF_fileVars(writer = "writing" /\ WriteInPlace)
    /\ WF_fileVars(~ WindowAt("open") /\ Save)

------------------------------------------------------------------------------
(* Properties.                                                              *)

\* A process has nothing left to hear.
Quiet(p) == ~ watch[p].news /\ ~ watch[p].settling

\* The terminal runs on what the file says, on the defaults if there is none, and
\* says so if the file does not load.
InSync ==
    IF file = Torn THEN terminal.failed
    ELSE ~ terminal.failed /\ terminal.config = (IF file = Absent THEN {} ELSE file)

\* Once the news has been dealt with, terminal and file agree; and this though it drops news while
\* it lets changes settle, and though the file may go and come back between
\* any two of its steps.  Changes before its watch was set are excepted.
TerminalFollowsTheFile ==
    (Quiet("terminal") /\ TermAt("idle") /\ ~ missed["terminal"]) => InSync

\* The form is made of what the file says, or the user has been told that it is
\* not: so a save does not silently undo what another program has written, but
\* for changes before the watch was set and those of the last two seconds.
WindowFollowsTheFile ==
    (Quiet("window") /\ WindowAt("open") /\ ~ missed["window"]) =>
        \/ window.banner
        \/ window.base = (IF Loads THEN file ELSE {}) /\ (~ window.dirty => window.form = window.base)

\* Both processes follow the file.
FollowsTheFile == TerminalFollowsTheFile /\ WindowFollowsTheFile

\* When the file is left alone, the terminal comes to run on it.
TerminalCatchesUp ==
    <>[](missed["terminal"] \/ InSync)

=============================================================================
