----------------------------- MODULE BlobLeases -----------------------------
(***************************************************************************)
(* The store of image data and the leases that keep a blob in it           *)
(* (wezterm-blob-leases): SimpleTempDir, the storage that the GUI and the  *)
(* mux server register, used by several threads.                           *)
(*                                                                         *)
(* refs is locked for every step on the counts, but a reader opens its     *)
(* file before it takes the lock.  A thread that is not idle is at a step  *)
(* of a call (at).  The leases and readers of a thread are counted; a      *)
(* clone of a lease shares its count and is not a lease of its own.        *)
(* MaxHandles bounds them and MaxFaults the failures of the disk.          *)
(***************************************************************************)
EXTENDS Integers, FiniteSets

CONSTANTS Threads, Contents, MaxHandles, MaxFaults

HandlesAssumption == MaxHandles \in Nat /\ MaxFaults \in Nat

VARIABLES
    refs,       \* the count of each content, NoEntry when it has none
    files,      \* the contents on disk
    holder,     \* the thread that has the lock of refs, or Free
    at,         \* where each thread is: its step and the content it is about
    leases,     \* the leases of each thread and content
    readers,    \* its readers
    lost,       \* contents that a lease or reader did not find
    faults      \* failures of the disk so far

blobVars == <<refs, files, holder, at, leases, readers, lost, faults>>

NoEntry == -1
Free == "free"
ThreadsAssumption == Free \notin Threads
Idle == [step |-> "idle"]

\* The leases and readers in use, each by its thread and a number.
Held(c) ==
    UNION {{<<t, "lease", i>> : i \in 1 .. leases[t][c]}
             \cup {<<t, "reader", i>> : i \in 1 .. readers[t][c]} : t \in Threads}

Handles(c) == Cardinality(Held(c))

Count(c) == IF refs[c] = NoEntry THEN 0 ELSE refs[c]

Goto(t, step, c) == at' = [at EXCEPT ![t] = [step |-> step, content |-> c]]
Rest(t) == at' = [at EXCEPT ![t] = Idle]
At(t, step) == at[t].step = step

Lock(t) == holder = Free /\ holder' = t
Unlock(t) == holder = t /\ holder' = Free

------------------------------------------------------------------------------
BlobInit ==
    /\ refs = [c \in Contents |-> NoEntry]
    /\ files = {}
    /\ holder = Free
    /\ at = [t \in Threads |-> Idle]
    /\ leases = [t \in Threads |-> [c \in Contents |-> 0]]
    /\ readers = leases
    /\ lost = {}
    /\ faults = 0

\* BlobManager::store: under the lock the data goes to a new file, which takes
\* the name of the content, and is counted.
Persist(t, c) ==
    /\ at[t] = Idle
    /\ Handles(c) < MaxHandles
    /\ Lock(t)
    /\ files' = files \cup {c}
    /\ Goto(t, "stored", c)
    /\ UNCHANGED <<refs, leases, readers, lost, faults>>

\* Any of the calls on the disk fails: no lease, nothing counted.
StoreFails(t) ==
    /\ at[t] = Idle
    /\ holder = Free
    /\ faults < MaxFaults
    /\ faults' = faults + 1
    /\ UNCHANGED <<refs, files, holder, at, leases, readers, lost>>

\* Mutant: data that is there already is not counted again.
MutCountStored(t) ==
    /\ At(t, "stored")
    /\ Unlock(t)
    /\ LET c == at[t].content
       IN /\ refs' = [refs EXCEPT ![c] = IF Count(c) = 0 THEN 1 ELSE @]
          /\ leases' = [leases EXCEPT ![t][c] = @ + 1]
    /\ Rest(t)
    /\ UNCHANGED <<files, readers, lost, faults>>

CountStored(t) ==
    /\ At(t, "stored")
    /\ Unlock(t)
    /\ LET c == at[t].content
       IN /\ refs' = [refs EXCEPT ![c] = Count(c) + 1]
          /\ leases' = [leases EXCEPT ![t][c] = @ + 1]
    /\ Rest(t)
    /\ UNCHANGED <<files, readers, lost, faults>>

\* BlobLease::get_data, under the lock.
GetData(t, c) ==
    /\ at[t] = Idle
    /\ leases[t][c] > 0
    /\ holder = Free
    /\ lost' = IF c \in files THEN lost ELSE lost \cup {c}
    /\ UNCHANGED <<refs, files, holder, at, leases, readers, faults>>

\* BlobLease::get_reader opens the file, then counts the reader.
OpenReader(t, c) ==
    /\ at[t] = Idle
    /\ leases[t][c] > 0
    /\ Handles(c) < MaxHandles
    /\ IF c \in files THEN lost' = lost /\ Goto(t, "opened", c)
                      ELSE lost' = lost \cup {c} /\ UNCHANGED at
    /\ UNCHANGED <<refs, files, holder, leases, readers, faults>>

\* Mutant: the reader is not counted.
MutCountReader(t) ==
    /\ At(t, "opened")
    /\ holder = Free
    /\ readers' = [readers EXCEPT ![t][at[t].content] = @ + 1]
    /\ Rest(t)
    /\ UNCHANGED <<refs, files, holder, leases, lost, faults>>

\* add_ref
CountReader(t) ==
    /\ At(t, "opened")
    /\ holder = Free
    /\ LET c == at[t].content
       IN /\ refs' = [refs EXCEPT ![c] = Count(c) + 1]
          /\ readers' = [readers EXCEPT ![t][c] = @ + 1]
    /\ Rest(t)
    /\ UNCHANGED <<files, holder, leases, lost, faults>>

\* The drop of the last clone of a lease, or of a reader: the handle is gone,
\* then del_ref.
Drop(t, c) ==
    /\ at[t] = Idle
    /\ \/ leases[t][c] > 0 /\ leases' = [leases EXCEPT ![t][c] = @ - 1] /\ UNCHANGED readers
       \/ readers[t][c] > 0 /\ readers' = [readers EXCEPT ![t][c] = @ - 1] /\ UNCHANGED leases
    /\ Goto(t, "dropped", c)
    /\ UNCHANGED <<refs, files, holder, lost, faults>>

\* del_ref of the last count: the file goes first, whether or not that works.
RemoveFile(t) ==
    /\ At(t, "dropped")
    /\ refs[at[t].content] = 1
    /\ Lock(t)
    /\ Goto(t, "removed", at[t].content)
    /\ \/ files' = files \ {at[t].content} /\ UNCHANGED faults
       \/ faults < MaxFaults /\ faults' = faults + 1 /\ UNCHANGED files
    /\ UNCHANGED <<refs, leases, readers, lost>>

ClearCount(t) ==
    /\ At(t, "removed")
    /\ Unlock(t)
    /\ refs' = [refs EXCEPT ![at[t].content] = 0]
    /\ Rest(t)
    /\ UNCHANGED <<files, leases, readers, lost, faults>>

\* del_ref of any other count.  A content without an entry is passed over; a
\* count of 0 would wrap.
LowerCount(t) ==
    /\ At(t, "dropped")
    /\ refs[at[t].content] # 1
    /\ holder = Free
    /\ LET c == at[t].content
       IN refs' = IF refs[c] = NoEntry THEN refs ELSE [refs EXCEPT ![c] = @ - 1]
    /\ Rest(t)
    /\ UNCHANGED <<files, holder, leases, readers, lost, faults>>

\* BlobManager::get_by_content_id of a content that is not there.  Of one that
\* is there, lease_by_content calls add_ref with the lock in its hands, and
\* waits for itself for good.
ByContent(t, c) ==
    /\ at[t] = Idle
    /\ IF c \in files
         THEN Lock(t) /\ Goto(t, "waits for itself", c)
         ELSE holder = Free /\ UNCHANGED <<holder, at>>
    /\ UNCHANGED <<refs, files, leases, readers, lost, faults>>

BlobNext ==
    \E t \in Threads :
        \/ \E c \in Contents :
              Persist(t, c) \/ GetData(t, c) \/ OpenReader(t, c) \/ Drop(t, c) \/ ByContent(t, c)
        \/ StoreFails(t) \/ CountStored(t) \/ CountReader(t)
        \/ RemoveFile(t) \/ ClearCount(t) \/ LowerCount(t)

BlobSpec == BlobInit /\ [][BlobNext]_blobVars

------------------------------------------------------------------------------
(* Properties.                                                              *)

\* "The lease will help to keep the data alive in the store": no lease that is
\* read and no reader that is opened misses its data.
NothingIsLost == lost = {}

\* Between the calls the counts are those of the leases and readers in use,
\* and the data on disk is exactly that of these, but for a file that could
\* not be removed: no blob is left behind and no count is off.
CountsAreTheHandles ==
    (holder = Free /\ \A t \in Threads : at[t] = Idle) =>
        \A c \in Contents :
            /\ Count(c) = Handles(c)
            /\ Handles(c) > 0 => c \in files
            /\ faults = 0 => (c \in files => Handles(c) > 0)

\* Whoever has a lease or is opening a reader finds the data, whatever other
\* threads store, read and drop of the same content at that time, and none of
\* them leaves a blob behind.
LeasedDataIsFound == NothingIsLost /\ CountsAreTheHandles

=============================================================================
