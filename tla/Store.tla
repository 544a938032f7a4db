------------------------------- MODULE Store -------------------------------
(***************************************************************************)
(* Persistence: src/src/persist.cpp.                                       *)
(*                                                                         *)
(* The disk holds a snapshot, a temporary file and a journal of frames.    *)
(* One process at a time uses the store: it opens it (load_state), binds   *)
(* a Store object to it and commits or compacts states; the importer binds *)
(* and compacts without opening.  Every write, synchronisation, rename and *)
(* truncation is a step of its own, and the process may die between any    *)
(* two of them.  The steps named in Failures may also fail.                *)
(*                                                                         *)
(* An encoded state is told apart by the number of the operation that      *)
(* wrote it.  A frame that fails any of its length, checksum or digest     *)
(* tests is torn.  sync_on_commit is TRUE, its default.                    *)
(***************************************************************************)
EXTENDS Integers, FiniteSets, Sequences

CONSTANTS
    MaxBoot,                \* bound on the processes started
    MaxWrites,              \* bound on the commits and compactions begun
    ImportBoots,            \* the processes that import a document and exit
    Imports,                \* the generations of imported documents
    CommitBoots,            \* the other processes that commit; all of them may compact
    BigStates,              \* whether a state may exceed max_journal_entry_bytes
    Failures,               \* the file operations that may fail
    CompactAfterEntries,    \* compact_after_entries, 0: never
    MaxJournalFrames,       \* max_journal_bytes, in frames
    MaxJournalEntries

ASSUME StoreAssumption ==
    /\ {MaxBoot, MaxWrites, CompactAfterEntries, MaxJournalFrames, MaxJournalEntries}
           \subseteq Nat
    /\ ImportBoots \subseteq Nat /\ CommitBoots \subseteq Nat /\ Imports \subseteq Nat
    /\ BigStates \subseteq BOOLEAN
    /\ Failures \subseteq {"write", "sync", "temp", "rename", "truncate"}

State == [generation : Nat, write : Nat, big : BOOLEAN]

\* The size of a torn frame is what it adds to the file, rounded either way.
Frame == [sequence : Nat, generation : Nat, payload : State, whole : BOOLEAN,
          size : {0, 1}]

VARIABLES
    snapshot,       \* {} or the State of the snapshot file
    temp,           \* whether the temporary file exists
    journal,        \* the Frames of the journal file
    journal_exists,
    boot,           \* the process now running, or the last one
    pc,             \* "down", "idle", or the step of an operation it is at
    store,          \* its Store object: [sequence, entry_count, journal_size]
    held,           \* the store generation of the state it holds
    job,            \* {} or the state being written
    writes,         \* the number of writes begun
    acked           \* {} or the state acknowledged last

diskVars == <<snapshot, temp, journal, journal_exists>>
vars == <<diskVars, boot, pc, store, held, job, writes, acked>>

-----------------------------------------------------------------------------
(* Recovery *)

NothingScanned == [previous_sequence |-> 0, previous_generation |-> 0, entries_valid |-> 0,
                   position |-> 0, valid_frames |-> 0, last |-> {}, stopped |-> FALSE]

\* An entry that does not advance is skipped.
Replayed(scan, frame) ==
    \/ frame.sequence <= scan.previous_sequence /\ scan.entries_valid > 0
    \/ frame.generation < scan.previous_generation

\* One iteration of scan_journal: a torn frame ends the scan.
ScanFrame(scan, frame) ==
    IF scan.stopped \/ ~frame.whole THEN [scan EXCEPT !.stopped = TRUE]
    ELSE IF Replayed(scan, frame) THEN [scan EXCEPT !.position = @ + 1]
    ELSE [previous_sequence |-> frame.sequence, previous_generation |-> frame.generation,
          entries_valid |-> scan.entries_valid + 1, position |-> scan.position + 1,
          valid_frames |-> scan.position + 1, last |-> {frame.payload}, stopped |-> FALSE]

\* What scan_journal has found after each number of iterations.
ScansOf(frames) ==
    LET scan[i \in 0 .. Len(frames)] ==
            IF i = 0 THEN NothingScanned ELSE ScanFrame(scan[i - 1], frames[i])
    IN  scan

scan_journal(frames) == ScansOf(frames)[Len(frames)]

\* Mutant: a snapshot always wins over the journal.
SnapshotFirst(snap, frames) == IF snap # {} THEN snap ELSE scan_journal(frames).last

\* The state that open returns: the journal's last one unless the snapshot is newer.
Recovered(snap, frames) ==
    LET last == scan_journal(frames).last
    IN  IF last # {} /\ \A l \in last, s \in snap : l.generation >= s.generation
        THEN last ELSE snap

JournalFileSize(frames) ==
    Cardinality({i \in DOMAIN frames : frames[i].whole \/ frames[i].size = 1})

JournalOversized == JournalFileSize(journal) > MaxJournalFrames

\* open fails: the journal is longer than it reads, or the store exists without
\* a state.
OpenRefused ==
    \/ JournalOversized
    \/ (snapshot # {} \/ journal_exists) /\ Recovered(snapshot, journal) = {}

\* Mutant: the frames skipped before the last valid one are not counted.
CutByCount ==
    LET scan == scan_journal(journal)
    IN  /\ temp' = FALSE
        /\ journal' = IF scan.stopped /\ ~JournalOversized
                      THEN SubSeq(journal, 1, scan.entries_valid) ELSE journal
        /\ UNCHANGED <<snapshot, journal_exists>>

\* The temporary file is removed and the refused tail cut off, even when open
\* then fails.
OpenDisk ==
    LET scan == scan_journal(journal)
    IN  /\ temp' = FALSE
        /\ journal' = IF scan.stopped /\ ~JournalOversized
                      THEN SubSeq(journal, 1, scan.valid_frames) ELSE journal
        /\ UNCHANGED <<snapshot, journal_exists>>

\* A Store object starts at sequence zero whatever the journal holds.
bind == store' = [sequence |-> 0, entry_count |-> 0, journal_size |-> JournalFileSize(journal')]

Open ==
    /\ pc = "down" /\ boot < MaxBoot /\ boot + 1 \notin ImportBoots
    /\ boot' = boot + 1
    /\ OpenDisk
    /\ IF OpenRefused THEN UNCHANGED <<pc, store, held>>
       ELSE /\ pc' = "idle" /\ bind
            /\ held' = IF Recovered(snapshot, journal) = {} THEN 0
                       ELSE (CHOOSE s \in Recovered(snapshot, journal) : TRUE).generation
    /\ UNCHANGED <<job, writes, acked>>

-----------------------------------------------------------------------------
(* commit, append, write_snapshot, compact *)

Begin(generation, where) ==
    /\ writes < MaxWrites
    /\ writes' = writes + 1
    /\ \E big \in BigStates :
        job' = {[generation |-> generation, write |-> writes + 1, big |-> big]}
    /\ pc' = where
    /\ held' = generation

\* commit and compact are handed the next generation of the state.
Commit ==
    /\ pc = "idle" /\ boot \in CommitBoots \ ImportBoots
    /\ Begin(held + 1, "append")
    /\ UNCHANGED <<diskVars, boot, store, acked>>

Compact ==
    /\ pc = "idle" /\ boot \notin ImportBoots
    /\ Begin(held + 1, "snapshot")
    /\ UNCHANGED <<diskVars, boot, store, acked>>

\* The import command binds and compacts a document of any generation.
Import ==
    /\ pc = "down" /\ boot < MaxBoot /\ boot + 1 \in ImportBoots
    /\ \E g \in Imports : Begin(g, "snapshot")
    /\ boot' = boot + 1
    /\ UNCHANGED <<diskVars, acked>>
    /\ bind

Return(where) == pc' = where /\ job' = {}

Acknowledge == Return("idle") /\ acked' = job

\* The failure of a step ends the operation with the disk as it is.
Fail(step) ==
    /\ step \in Failures
    /\ Return("idle")
    /\ UNCHANGED <<boot, store, held, writes, acked>>

FrameOf(s, whole, size) ==
    [sequence |-> store.sequence + 1, generation |-> s.generation, payload |-> s,
     whole |-> whole, size |-> size]

JournalFull ==
    \/ store.journal_size + 1 > MaxJournalFrames
    \/ store.entry_count >= MaxJournalEntries

\* A state too big for a journal entry is written as a snapshot.
CommitBig ==
    /\ pc = "append" /\ \E s \in job : s.big
    /\ pc' = "snapshot"
    /\ UNCHANGED <<diskVars, boot, store, held, job, writes, acked>>

\* The bound of the journal is reported as a failure; nothing is rotated.
AppendRefused ==
    /\ pc = "append" /\ \A s \in job : ~s.big
    /\ JournalFull
    /\ Return("idle")
    /\ UNCHANGED <<diskVars, boot, store, held, writes, acked>>

Append_ ==
    /\ pc = "append" /\ \A s \in job : ~s.big
    /\ ~JournalFull
    /\ \E s \in job : journal' = Append(journal, FrameOf(s, TRUE, 1))
    /\ journal_exists' = TRUE
    /\ pc' = "written"
    /\ UNCHANGED <<snapshot, temp, boot, store, held, job, writes, acked>>

\* A failed write leaves part of the frame behind.
AppendFails ==
    /\ pc = "append" /\ \A s \in job : ~s.big
    /\ ~JournalFull
    /\ Fail("write")
    /\ \E s \in job, size \in {0, 1} : journal' = Append(journal, FrameOf(s, FALSE, size))
    /\ journal_exists' = TRUE
    /\ UNCHANGED <<snapshot, temp>>

Rotates == CompactAfterEntries # 0 /\ store.entry_count + 1 >= CompactAfterEntries

\* The frame is durable; the counters of the Store object follow it.
Sync ==
    /\ pc = "written"
    /\ store' = [sequence |-> store.sequence + 1, entry_count |-> store.entry_count + 1,
                 journal_size |-> store.journal_size + 1]
    /\ IF Rotates THEN pc' = "snapshot" /\ UNCHANGED <<job, acked>> ELSE Acknowledge
    /\ UNCHANGED <<diskVars, boot, held, writes>>

SyncFails == pc = "written" /\ Fail("sync") /\ UNCHANGED diskVars

WriteTemp ==
    /\ pc = "snapshot"
    /\ temp' = TRUE
    /\ pc' = "rename"
    /\ UNCHANGED <<snapshot, journal, journal_exists, boot, store, held, job, writes, acked>>

WriteTempFails ==
    /\ pc = "snapshot" /\ Fail("temp")
    /\ temp' = TRUE
    /\ UNCHANGED <<snapshot, journal, journal_exists>>

Rename ==
    /\ pc \in {"rename", "removed"}
    /\ snapshot' = job /\ temp' = FALSE
    /\ pc' = "truncate"
    /\ UNCHANGED <<journal, journal_exists, boot, store, held, job, writes, acked>>

\* When the rename fails the old snapshot is removed and the rename repeated.
RenameFails ==
    /\ pc = "rename" /\ "rename" \in Failures
    /\ snapshot' = {}
    /\ pc' = "removed"
    /\ UNCHANGED <<temp, journal, journal_exists, boot, store, held, job, writes, acked>>

RenameFailsAgain == pc = "removed" /\ Fail("rename") /\ UNCHANGED diskVars

\* Mutant: the journal is cut before the snapshot is in place.
TruncateFirst ==
    /\ pc \in {"rename", "truncate"}
    /\ journal' = <<>> /\ journal_exists' = TRUE
    /\ IF pc = "rename" THEN UNCHANGED <<store, pc, job, acked>>
       ELSE Acknowledge /\ store' = [store EXCEPT !.entry_count = 0, !.journal_size = 0]
    /\ UNCHANGED <<snapshot, temp, boot, held, writes>>

Truncate ==
    /\ pc = "truncate"
    /\ journal' = <<>> /\ journal_exists' = TRUE
    /\ store' = [store EXCEPT !.entry_count = 0, !.journal_size = 0]
    /\ Acknowledge
    /\ UNCHANGED <<snapshot, temp, boot, held, writes>>

TruncateFails == pc = "truncate" /\ Fail("truncate") /\ UNCHANGED diskVars

\* What the journal may hold after a crash: a frame that is not synchronised may
\* be absent, torn or whole.
AfterCrash ==
    LET n == Len(journal)
        synchronised == SubSeq(journal, 1, n - 1)
        Torn(size) == [journal[n] EXCEPT !.whole = FALSE, !.size = size]
    IN  IF pc # "written" THEN {journal}
        ELSE {journal, synchronised} \cup {Append(synchronised, Torn(size)) : size \in {0, 1}}

\* The process exits, or dies where it is.
Exit ==
    /\ pc # "down"
    /\ Return("down")
    /\ journal' \in AfterCrash
    /\ UNCHANGED <<snapshot, temp, journal_exists, boot, store, held, writes, acked>>

-----------------------------------------------------------------------------
Init ==
    /\ snapshot = {} /\ temp = FALSE /\ journal = <<>> /\ journal_exists = FALSE
    /\ boot = 0 /\ pc = "down"
    /\ store = [sequence |-> 0, entry_count |-> 0, journal_size |-> 0]
    /\ held = 0 /\ job = {} /\ writes = 0 /\ acked = {}

Next ==
    \/ Open \/ Import \/ Commit \/ Compact \/ CommitBig
    \/ AppendRefused \/ Append_ \/ AppendFails \/ Sync \/ SyncFails
    \/ WriteTemp \/ WriteTempFails \/ Rename \/ RenameFails \/ RenameFailsAgain
    \/ Truncate \/ TruncateFails \/ Exit

Spec == Init /\ [][Next]_vars

-----------------------------------------------------------------------------
(* Properties *)

\* persist.hpp: "A commit is acknowledged only after the frame is durably
\* written."  At every moment a restart finds the state acknowledged last, or one
\* that was handed to the store after it.
AcknowledgedIsRecoverable ==
    \A a \in acked, frames \in AfterCrash :
        \E s \in Recovered(snapshot, frames) : s.write >= a.write

\* README: a store is "never silently reset to empty".  Once a write was
\* acknowledged no crash leaves a store that open refuses, or one that is new.
StoreStaysOpenable ==
    acked # {} => /\ ~JournalOversized
                  /\ \A frames \in AfterCrash : Recovered(snapshot, frames) # {}

\* README: recovery "accounts for every byte it refused".  Cutting off the refused
\* tail never cuts off what is recovered: whatever failed before, a store that was
\* opened and is opened again returns the same state.
OpenIsRepeatable ==
    [][boot' # boot /\ job' = {} =>
        Recovered(snapshot', journal') = Recovered(snapshot, journal)]_vars

\* The store implements the register: steps of the files are steps of its value.
Register == INSTANCE DurableRegister WITH
    possible <- {Recovered(snapshot, frames) : frames \in AfterCrash},
    pending <- job
RefinesRegister == Register!Spec

=============================================================================
