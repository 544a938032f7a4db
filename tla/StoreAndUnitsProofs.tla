------------------------ MODULE StoreAndUnitsProofs ------------------------
(***************************************************************************)
(* Proofs about the two components that build on no other one.             *)
(*                                                                         *)
(* Store: opening is repeatable whatever failed; what was acknowledged is  *)
(* recovered after a crash at any step, and the files implement the        *)
(* register of DurableRegister, while the journal is in order.             *)
(* The loop of scan_journal is a recursive function.  What it computes is  *)
(* proved by induction over the number of frames; the induction is stated  *)
(* for a set of numbers instead of a predicate.                            *)
(*                                                                         *)
(* Units: conversion and comparison are exact for every machine word and   *)
(* every pair of factors.                                                  *)
(***************************************************************************)
EXTENDS Store, Units, FiniteSetTheorems, TLAPS

-----------------------------------------------------------------------------
(* Induction over the frames of a journal *)

\* Induction, for a property that is given as the set of the numbers that have it.
LEMMA SetInduction ==
    ASSUME NEW S, 0 \in S, \A n \in Nat : n \in S => n + 1 \in S
    PROVE  \A n \in Nat : n \in S
<1> DEFINE Bad == Nat \ S
<1>1. SUFFICES ASSUME Bad # {} PROVE FALSE
    BY Zenon
<1>2. PICK n \in Bad : \A m \in Bad : ~(<<m, n>> \in OpToRel(<, Nat))
    BY <1>1, NatLessThanWellFounded, WFMin, Zenon
<1>3. \A m \in Bad : ~(m < n)
    BY <1>2, Zenon DEF OpToRel
<1>4. n # 0 /\ n - 1 \in Nat /\ n - 1 < n /\ (n - 1) + 1 = n
    OBVIOUS
<1> QED
    BY <1>3, <1>4, Zenon

\* The loop of scan_journal is a function of the number of iterations.
LEMMA ScansExist ==
    ASSUME NEW q, Len(q) \in Nat
    PROVE  \E f : f = [i \in 0 .. Len(q) |->
                         IF i = 0 THEN NothingScanned ELSE ScanFrame(f[i - 1], q[i])]
<1> DEFINE Scanned(f, n) == /\ f = [i \in 0 .. n |-> f[i]]
                            /\ f[0] = NothingScanned
                            /\ \A i \in 1 .. n : f[i] = ScanFrame(f[i - 1], q[i])
           S == {n \in Nat : \E f : Scanned(f, n)}
<1>1. 0 \in S
  <2> DEFINE f == [i \in 0 .. 0 |-> NothingScanned]
  <2>1. Scanned(f, 0)
    BY SMT
  <2> HIDE DEF f
  <2> QED
    BY <2>1, Zenon
<1>2. ASSUME NEW n \in Nat, n \in S PROVE n + 1 \in S
  <2>1. PICK f : Scanned(f, n)
    BY <1>2, Zenon
  <2> DEFINE g == [i \in 0 .. n + 1 |-> IF i = n + 1 THEN ScanFrame(f[n], q[n + 1]) ELSE f[i]]
  <2>2. \A i \in 0 .. n : g[i] = f[i]
    OBVIOUS
  <2>3. g[n + 1] = ScanFrame(f[n], q[n + 1])
    OBVIOUS
  <2>4. g = [i \in 0 .. n + 1 |-> g[i]]
    BY Zenon
  <2> HIDE DEF g
  <2>5. ASSUME NEW i \in 1 .. n + 1 PROVE g[i] = ScanFrame(g[i - 1], q[i])
    <3>1. i - 1 \in 0 .. n /\ (i = n + 1 \/ (i \in 1 .. n /\ i \in 0 .. n))
      OBVIOUS
    <3>2. CASE i = n + 1
      <4>1. i - 1 = n
        BY <3>2
      <4> QED
        BY <2>2, <2>3, <3>1, <3>2, <4>1, Zenon
    <3>3. CASE i \in 1 .. n /\ i \in 0 .. n
      BY <2>1, <2>2, <3>1, <3>3, Zenon
    <3> QED
      BY <3>1, <3>2, <3>3, Zenon
  <2>6. g[0] = NothingScanned /\ n + 1 \in Nat
    BY <2>1, <2>2
  <2>7. Scanned(g, n + 1)
    BY <2>4, <2>5, <2>6, Zenon
  <2> QED
    BY <2>6, <2>7, Zenon
<1>3. PICK f : Scanned(f, Len(q))
  <2> HIDE DEF S
  <2>1. Len(q) \in S
    BY <1>1, <1>2, SetInduction, Zenon
  <2> QED
    BY <2>1, Zenon DEF S
<1>4. f = [i \in 0 .. Len(q) |-> IF i = 0 THEN NothingScanned ELSE ScanFrame(f[i - 1], q[i])]
  <2>1. \A i \in 0 .. Len(q) : f[i] = IF i = 0 THEN NothingScanned ELSE ScanFrame(f[i - 1], q[i])
    BY <1>3
  <2> QED
    BY <1>3, <2>1, Zenon
<1> QED
    BY <1>4, Zenon

LEMMA ScanSteps ==
    ASSUME NEW q, Len(q) \in Nat
    PROVE  /\ ScansOf(q)[0] = NothingScanned
           /\ \A i \in 1 .. Len(q) : ScansOf(q)[i] = ScanFrame(ScansOf(q)[i - 1], q[i])
<1>1. ScansOf(q) = [i \in 0 .. Len(q) |->
          IF i = 0 THEN NothingScanned ELSE ScanFrame(ScansOf(q)[i - 1], q[i])]
    BY ScansExist, Zenon DEF ScansOf
<1>2. PICK s : s = ScansOf(q)
    BY Zenon
<1>3. s = [i \in 0 .. Len(q) |-> IF i = 0 THEN NothingScanned ELSE ScanFrame(s[i - 1], q[i])]
    BY <1>1, <1>2, Zenon
<1>4. s[0] = NothingScanned
    BY <1>3
<1>5. ASSUME NEW i \in 1 .. Len(q) PROVE s[i] = ScanFrame(s[i - 1], q[i])
    BY <1>3
<1> QED
    BY <1>2, <1>4, <1>5, Zenon

\* What a scan found after n frames depends on these frames only.
LEMMA ScanOfPrefix ==
    ASSUME NEW q, Len(q) \in Nat, NEW p, Len(p) \in Nat, NEW n \in Nat, n <= Len(p), n <= Len(q),
           \A i \in 1 .. n : p[i] = q[i]
    PROVE  ScansOf(p)[n] = ScansOf(q)[n]
<1> DEFINE S == {k \in Nat : k <= n => ScansOf(p)[k] = ScansOf(q)[k]}
<1>1. 0 \in S
    BY ScanSteps, Zenon
<1>2. ASSUME NEW k \in Nat, k \in S PROVE k + 1 \in S
  <2> SUFFICES ASSUME k + 1 <= n PROVE ScansOf(p)[k + 1] = ScansOf(q)[k + 1]
    OBVIOUS
  <2>1. /\ k + 1 \in 1 .. Len(p) /\ k + 1 \in 1 .. Len(q) /\ k + 1 \in 1 .. n
        /\ (k + 1) - 1 = k /\ k <= n
    OBVIOUS
  <2>2. /\ ScansOf(p)[k + 1] = ScanFrame(ScansOf(p)[(k + 1) - 1], p[k + 1])
        /\ ScansOf(q)[k + 1] = ScanFrame(ScansOf(q)[(k + 1) - 1], q[k + 1])
    BY <2>1, ScanSteps, Zenon
  <2>3. ScansOf(p)[k] = ScansOf(q)[k]
    BY <1>2, <2>1, Zenon
  <2> QED
    BY <2>1, <2>2, <2>3, Zenon
<1> HIDE DEF S
<1>3. n \in S
    BY <1>1, <1>2, SetInduction, Zenon
<1> QED
    BY <1>3 DEF S

LEMMA FrontFacts ==
    ASSUME NEW q \in Seq(Frame), NEW n \in 0 .. Len(q)
    PROVE  /\ SubSeq(q, 1, n) \in Seq(Frame) /\ Len(SubSeq(q, 1, n)) = n /\ n \in Nat
           /\ Len(q) \in Nat /\ n <= Len(q) /\ n <= n
           /\ \A i \in 1 .. n : SubSeq(q, 1, n)[i] = q[i]
    OBVIOUS

\* Scanning a part of the journal, and one frame more.
LEMMA ScanOfFront ==
    ASSUME NEW q \in Seq(Frame), NEW n \in 0 .. Len(q)
    PROVE  /\ SubSeq(q, 1, n) \in Seq(Frame)
           /\ scan_journal(SubSeq(q, 1, n)) = ScansOf(q)[n]
<1> DEFINE p == SubSeq(q, 1, n)
<1>1. /\ p \in Seq(Frame) /\ Len(p) = n /\ n \in Nat /\ Len(p) \in Nat /\ n <= Len(p)
      /\ Len(q) \in Nat /\ n <= Len(q) /\ \A i \in 1 .. n : p[i] = q[i]
    BY FrontFacts, Zenon
<1> HIDE DEF p
<1>2. ScansOf(p)[n] = ScansOf(q)[n]
    BY <1>1, ScanOfPrefix, Zenon
<1> QED
    BY <1>1, <1>2, Zenon DEF scan_journal, p

LEMMA ScanOfAppend ==
    ASSUME NEW q \in Seq(Frame), NEW f \in Frame
    PROVE  scan_journal(Append(q, f)) = ScanFrame(scan_journal(q), f)
<1> DEFINE p == Append(q, f)
           n == Len(q)
<1>1. /\ n \in Nat /\ Len(p) = n + 1 /\ n + 1 \in 1 .. n + 1 /\ (n + 1) - 1 = n
      /\ n + 1 \in Nat /\ n <= n + 1 /\ p[n + 1] = f /\ n <= n
      /\ \A i \in 1 .. n : p[i] = q[i]
    OBVIOUS
<1> HIDE DEF p, n
<1>2. ScansOf(p)[n + 1] = ScanFrame(ScansOf(p)[n], f)
    BY <1>1, ScanSteps, Zenon
<1>3. ScansOf(p)[n] = ScansOf(q)[n]
  <2>1. Len(q) \in Nat /\ Len(p) \in Nat /\ n <= Len(p) /\ n <= Len(q)
    BY <1>1, Zenon DEF n
  <2> QED
    BY <1>1, <2>1, ScanOfPrefix, Zenon
<1> QED
    BY <1>1, <1>2, <1>3, Zenon DEF scan_journal, p, n

\* The types of JournalScan.
Scan == [previous_sequence : Nat, previous_generation : Nat, entries_valid : Nat,
         position : Nat, valid_frames : Nat, last : SUBSET State, stopped : BOOLEAN]

LEMMA ScanTypes ==
    /\ NothingScanned \in Scan
    /\ \A scan \in Scan, frame \in Frame : ScanFrame(scan, frame) \in Scan
<1>1. NothingScanned \in Scan
    BY Zenon DEF NothingScanned, Scan
<1>2. ASSUME NEW scan \in Scan, NEW frame \in Frame PROVE ScanFrame(scan, frame) \in Scan
  <2>1. CASE scan.stopped \/ ~frame.whole
    BY <2>1, Zenon DEF ScanFrame, Scan
  <2>2. CASE ~scan.stopped /\ frame.whole /\ Replayed(scan, frame)
    BY <2>2 DEF ScanFrame, Scan
  <2>3. CASE ~scan.stopped /\ frame.whole /\ ~Replayed(scan, frame)
    BY <2>3 DEF ScanFrame, Scan, Frame
  <2> QED
    BY <2>1, <2>2, <2>3, Zenon
<1> QED
    BY <1>1, <1>2, Zenon

\* Until it stops a scan is at the end of the frames it has read; the frames up
\* to the last valid one are all that it takes its result from.
LEMMA ScanCut ==
    ASSUME NEW q \in Seq(Frame)
    PROVE  \A n \in 0 .. Len(q) :
              LET s == ScansOf(q) IN
              /\ s[n] \in Scan
              /\ ~s[n].stopped => s[n].position = n
              /\ s[n].valid_frames \in 0 .. n
              /\ s[s[n].valid_frames].last = s[n].last
<1>1. PICK s : s = ScansOf(q)
    BY Zenon
<1> DEFINE Cut(n) == /\ s[n] \in Scan
                     /\ ~s[n].stopped => s[n].position = n
                     /\ s[n].valid_frames \in 0 .. n
                     /\ s[s[n].valid_frames].last = s[n].last
           S == {n \in Nat : n <= Len(q) => Cut(n)}
<1>2. Len(q) \in Nat /\ \A i \in 1 .. Len(q) : q[i] \in Frame
    OBVIOUS
<1>3. s[0] = NothingScanned /\ \A i \in 1 .. Len(q) : s[i] = ScanFrame(s[i - 1], q[i])
    BY <1>1, <1>2, ScanSteps, Zenon
<1>4. 0 \in S
  <2>1. s[0] \in Scan /\ s[0].position = 0 /\ s[0].valid_frames = 0
    BY <1>3, ScanTypes DEF NothingScanned
  <2> QED
    BY <2>1
<1>5. ASSUME NEW n \in Nat, n \in S PROVE n + 1 \in S
  <2> SUFFICES ASSUME n + 1 <= Len(q) PROVE Cut(n + 1)
    OBVIOUS
  <2>1. Cut(n)
    BY <1>2, <1>5
  <2>2. s[n + 1] = ScanFrame(s[n], q[n + 1]) /\ q[n + 1] \in Frame
    BY <1>2, <1>3
  <2>3. s[n + 1] \in Scan
    BY <2>1, <2>2, ScanTypes, Zenon
  <2>4. CASE s[n].stopped \/ ~q[n + 1].whole
    <3>1. s[n + 1] = [s[n] EXCEPT !.stopped = TRUE]
      BY <2>2, <2>4, Zenon DEF ScanFrame
    <3>2. /\ s[n + 1].stopped /\ s[n + 1].valid_frames = s[n].valid_frames
          /\ s[n + 1].last = s[n].last
      BY <2>1, <3>1, Zenon DEF Scan
    <3> QED
      BY <2>1, <2>3, <3>2
  <2>5. CASE ~s[n].stopped /\ q[n + 1].whole /\ Replayed(s[n], q[n + 1])
    <3>1. s[n + 1] = [s[n] EXCEPT !.position = @ + 1]
      BY <2>2, <2>5, Zenon DEF ScanFrame
    <3>2. /\ s[n + 1].position = s[n].position + 1 /\ s[n + 1].valid_frames = s[n].valid_frames
          /\ s[n + 1].last = s[n].last
      BY <2>1, <3>1, Zenon DEF Scan
    <3> QED
      BY <2>1, <2>3, <2>5, <3>2
  <2>6. CASE ~s[n].stopped /\ q[n + 1].whole /\ ~Replayed(s[n], q[n + 1])
    <3>1. s[n + 1].position = n + 1 /\ s[n + 1].valid_frames = n + 1
      BY <2>1, <2>2, <2>6 DEF ScanFrame
    <3> QED
      BY <2>3, <3>1
  <2> QED
    BY <2>4, <2>5, <2>6, Zenon
<1> HIDE DEF S
<1>6. \A n \in Nat : n \in S
    BY <1>4, <1>5, SetInduction, Zenon
<1>7. \A n \in 0 .. Len(q) : Cut(n)
    BY <1>2, <1>6 DEF S
<1> QED
    BY <1>1, <1>7, Zenon

\* Cutting a journal off behind its last valid frame keeps what it recovers.
LEMMA CutKeepsLast ==
    ASSUME NEW q \in Seq(Frame)
    PROVE  /\ scan_journal(q).valid_frames \in 0 .. Len(q)
           /\ scan_journal(SubSeq(q, 1, scan_journal(q).valid_frames)).last = scan_journal(q).last
           /\ scan_journal(q).last \in SUBSET State
<1> DEFINE s == ScansOf(q)
           n == Len(q)
<1>1. n \in 0 .. Len(q)
    OBVIOUS
<1> HIDE DEF n, s
<1>2. /\ s[n] \in Scan /\ s[n].valid_frames \in 0 .. n
      /\ s[s[n].valid_frames].last = s[n].last
    BY <1>1, ScanCut, Zenon DEF s
<1>3. s[n].valid_frames \in 0 .. Len(q) /\ s[n].last \in SUBSET State
    BY <1>2, Zenon DEF n, Scan
<1>4. scan_journal(SubSeq(q, 1, s[n].valid_frames)) = s[s[n].valid_frames]
    BY <1>3, ScanOfFront, Zenon DEF s
<1> QED
    BY <1>2, <1>3, <1>4, Zenon DEF scan_journal, s, n

-----------------------------------------------------------------------------
(* Types *)

Optional(S) == {{}} \cup {{x} : x \in S}

StoreObject == [sequence : Nat, entry_count : Nat, journal_size : Nat]

StoreTypes ==
    /\ {snapshot, job, acked} \subseteq Optional(State)
    /\ journal \in Seq(Frame)
    /\ boot \in Nat /\ held \in Nat /\ writes \in Nat
    /\ store \in StoreObject
    /\ pc = "written" => journal # <<>>

LEMMA OptionalFacts ==
    ASSUME NEW S
    PROVE  /\ {} \in Optional(S)
           /\ \A x \in S : {x} \in Optional(S)
           /\ \A o \in Optional(S) : o \subseteq S /\ \A x \in o : o = {x}
    BY Zenon DEF Optional

LEMMA RecoveredTypes ==
    ASSUME NEW snap, snap \subseteq State, NEW q \in Seq(Frame)
    PROVE  Recovered(snap, q) \subseteq State
    BY CutKeepsLast, Zenon DEF Recovered

LEMMA FileSizeTypes ==
    ASSUME NEW q \in Seq(Frame)
    PROVE  /\ JournalFileSize(q) \in Nat
           /\ IsFiniteSet({i \in DOMAIN q : q[i].whole \/ q[i].size = 1})
<1>1. DOMAIN q = 1 .. Len(q) /\ Len(q) \in Int /\ 1 \in Int
    OBVIOUS
<1>2. IsFiniteSet(DOMAIN q)
    BY <1>1, FS_Interval, Zenon
<1>3. IsFiniteSet({i \in DOMAIN q : q[i].whole \/ q[i].size = 1})
    BY <1>2, FS_Subset, Zenon
<1> QED
    BY <1>3, FS_CardinalityType, Zenon DEF JournalFileSize

\* A frame of the state being written, whole or not.
LEMMA FrameTypes ==
    ASSUME StoreTypes, NEW s \in State, NEW whole \in BOOLEAN, NEW size \in {0, 1}
    PROVE  FrameOf(s, whole, size) \in Frame
<1>1. store.sequence + 1 \in Nat
    BY DEF StoreTypes, StoreObject
<1>2. s.generation \in Nat
    BY Zenon DEF State
<1> QED
    BY <1>1, <1>2, Zenon DEF FrameOf, Frame

\* What a crash leaves of the journal is a journal.
LEMMA CrashTypes ==
    ASSUME StoreTypes, NEW q \in AfterCrash
    PROVE  q \in Seq(Frame)
<1>1. CASE pc # "written"
    BY <1>1, Zenon DEF AfterCrash, StoreTypes
<1>2. CASE pc = "written"
  <2> DEFINE n == Len(journal)
             p == SubSeq(journal, 1, n - 1)
  <2>1. journal \in Seq(Frame) /\ journal # <<>>
    BY <1>2, Zenon DEF StoreTypes
  <2>2. n \in Nat /\ n > 0 /\ p \in Seq(Frame) /\ journal[n] \in Frame
    BY <2>1
  <2> HIDE DEF p, n
  <2>3. \A k \in {0, 1} : [journal[n] EXCEPT !.whole = FALSE, !.size = k] \in Frame
    BY <2>2, Zenon DEF Frame
  <2>4. \A f \in Frame : Append(p, f) \in Seq(Frame)
    BY <2>2
  <2>5. \A k \in {0, 1} : Append(p, [journal[n] EXCEPT !.whole = FALSE, !.size = k]) \in Seq(Frame)
    BY <2>3, <2>4, Zenon
  <2> QED
    BY <1>2, <2>1, <2>2, <2>5, Zenon DEF AfterCrash, p, n
<1> QED
    BY <1>1, <1>2, Zenon

LEMMA OpenTypes == ASSUME StoreTypes, Open PROVE StoreTypes' /\ snapshot' = snapshot
<1>1. /\ journal \in Seq(Frame) /\ snapshot \in Optional(State)
      /\ boot \in Nat /\ held \in Nat /\ store \in StoreObject
    BY Zenon DEF StoreTypes
<1>2. snapshot \subseteq State
    BY <1>1, OptionalFacts, Zenon
<1>3. /\ boot' = boot + 1 /\ snapshot' = snapshot /\ UNCHANGED <<job, writes, acked>>
      /\ pc' \in {pc, "idle"} /\ pc = "down"
      /\ journal' \in {journal, SubSeq(journal, 1, scan_journal(journal).valid_frames)}
      /\ \/ UNCHANGED <<store, held>>
         \/ /\ store' = [sequence |-> 0, entry_count |-> 0,
                         journal_size |-> JournalFileSize(journal')]
            /\ held' = IF Recovered(snapshot, journal) = {} THEN 0
                       ELSE (CHOOSE s \in Recovered(snapshot, journal) : TRUE).generation
    BY Zenon DEF Open, OpenDisk, bind
<1>4. journal' \in Seq(Frame)
    BY <1>1, <1>3, CutKeepsLast, ScanOfFront, Zenon
<1>5. held' \in Nat
  <2>1. Recovered(snapshot, journal) # {} =>
            (CHOOSE s \in Recovered(snapshot, journal) : TRUE) \in State
    BY <1>1, <1>2, RecoveredTypes, Zenon
  <2>2. \A s \in State : s.generation \in Nat
    BY Zenon DEF State
  <2> QED
    BY <1>1, <1>3, <2>1, <2>2
<1>6. store' \in StoreObject
  <2>1. PICK z : z = JournalFileSize(journal')
    BY Zenon
  <2>2. z \in Nat
    BY <1>4, <2>1, FileSizeTypes, Zenon
  <2>3. [sequence |-> 0, entry_count |-> 0, journal_size |-> z] \in StoreObject
    BY <2>2, Zenon DEF StoreObject
  <2> QED
    BY <1>1, <1>3, <2>1, <2>3, Zenon
<1> QED
    BY <1>1, <1>3, <1>4, <1>5, <1>6 DEF StoreTypes

LEMMA NextTypes == ASSUME StoreTypes, [Next]_vars PROVE StoreTypes'
<1>1. /\ snapshot \in Optional(State) /\ job \in Optional(State) /\ acked \in Optional(State)
      /\ journal \in Seq(Frame) /\ boot \in Nat /\ held \in Nat /\ writes \in Nat
      /\ store \in StoreObject /\ (pc = "written" => journal # <<>>)
    BY Zenon DEF StoreTypes
<1>2. /\ {} \in Optional(State) /\ \A s \in job : s \in State /\ s.generation \in Nat
      /\ <<>> \in Seq(Frame)
  <2>1. {} \in Optional(State) /\ \A s \in job : s \in State
    BY <1>1, OptionalFacts, Zenon
  <2>2. \A s \in State : s.generation \in Nat
    BY Zenon DEF State
  <2>3. <<>> \in Seq(Frame)
    OBVIOUS
  <2> QED
    BY <2>1, <2>2, <2>3, Zenon
<1>3. ASSUME NEW where, NEW g \in Nat, Begin(g, where)
      PROVE  job' \in Optional(State) /\ held' \in Nat /\ writes' \in Nat /\ pc' = where
  <2>1. /\ writes' = writes + 1 /\ pc' = where /\ held' = g
        /\ \E big \in BigStates : job' = {[generation |-> g, write |-> writes + 1, big |-> big]}
    BY <1>3, Zenon DEF Begin
  <2>2. \A big \in BigStates : [generation |-> g, write |-> writes + 1, big |-> big] \in State
    BY <1>1, StoreAssumption DEF State
  <2>3. job' \in Optional(State)
    <3>1. PICK s \in State : job' = {s}
      BY <2>1, <2>2, Zenon
    <3> QED
      BY <3>1, OptionalFacts, Zenon
  <2>4. writes + 1 \in Nat
    BY <1>1
  <2> QED
    BY <2>1, <2>3, <2>4, Zenon
<1>4. CASE Open
    BY <1>4, OpenTypes, Zenon
<1>5. CASE Import
  <2>1. PICK g \in Imports : Begin(g, "snapshot")
    BY <1>5, Zenon DEF Import
  <2>2. g \in Nat
    BY StoreAssumption, Zenon
  <2>3. /\ boot' = boot + 1 /\ UNCHANGED <<snapshot, journal, acked>>
        /\ store' = [sequence |-> 0, entry_count |-> 0, journal_size |-> JournalFileSize(journal')]
    BY <1>5, Zenon DEF Import, diskVars, bind
  <2>4. PICK z : z = JournalFileSize(journal')
    BY Zenon
  <2>5. z \in Nat
    BY <1>1, <2>3, <2>4, FileSizeTypes, Zenon
  <2>6. store' \in StoreObject
    BY <2>3, <2>4, <2>5, Zenon DEF StoreObject
  <2>7. job' \in Optional(State) /\ held' \in Nat /\ writes' \in Nat /\ pc' = "snapshot"
    BY <1>3, <2>1, <2>2, Zenon
  <2> QED
    BY <1>1, <2>3, <2>6, <2>7 DEF StoreTypes
<1>6. CASE Commit \/ Compact
  <2>1. PICK where \in {"append", "snapshot"} : Begin(held + 1, where)
    BY <1>6, Zenon DEF Commit, Compact
  <2>2. held + 1 \in Nat
    BY <1>1
  <2>3. job' \in Optional(State) /\ held' \in Nat /\ writes' \in Nat /\ pc' = where
    BY <1>3, <2>1, <2>2, Zenon
  <2>4. UNCHANGED <<snapshot, journal, boot, store, acked>>
    BY <1>6, Zenon DEF Commit, Compact, diskVars
  <2> QED
    BY <1>1, <2>1, <2>3, <2>4, Zenon DEF StoreTypes
<1>7. CASE Append_ \/ AppendFails
  <2>1. PICK s \in job, whole \in BOOLEAN, size \in {0, 1} :
            journal' = Append(journal, FrameOf(s, whole, size))
    BY <1>7, Zenon DEF Append_, AppendFails
  <2>2. FrameOf(s, whole, size) \in Frame
    BY <1>2, <2>1, FrameTypes, Zenon
  <2>3. journal' \in Seq(Frame) /\ journal' # <<>>
    BY <1>1, <2>1, <2>2
  <2>4. UNCHANGED <<snapshot, boot, store, held, writes, acked>> /\ job' \in {job, {}}
    BY <1>7, Zenon DEF Append_, AppendFails, Fail, Return
  <2> QED
    BY <1>1, <1>2, <2>3, <2>4, Zenon DEF StoreTypes
<1>8. CASE Sync
  <2>1. /\ store' = [sequence |-> store.sequence + 1, entry_count |-> store.entry_count + 1,
                     journal_size |-> store.journal_size + 1]
        /\ job' \in {job, {}} /\ acked' \in {acked, job} /\ pc' # "written"
        /\ UNCHANGED <<snapshot, journal, boot, held, writes>>
    BY <1>8, Zenon DEF Sync, Acknowledge, Return, diskVars
  <2>2. store' \in StoreObject
    BY <1>1, <2>1 DEF StoreObject
  <2> QED
    BY <1>1, <1>2, <2>1, <2>2, Zenon DEF StoreTypes
<1>9. CASE CommitBig \/ AppendRefused \/ SyncFails \/ WriteTemp \/ WriteTempFails
           \/ Rename \/ RenameFails \/ RenameFailsAgain \/ TruncateFails
  <2>1. /\ snapshot' \in {snapshot, job, {}} /\ job' \in {job, {}} /\ pc' # "written"
        /\ UNCHANGED <<journal, boot, store, held, writes, acked>>
    BY <1>9, Zenon DEF CommitBig, AppendRefused, SyncFails, WriteTemp, WriteTempFails, Rename,
       RenameFails, RenameFailsAgain, TruncateFails, Fail, Return, diskVars
  <2> QED
    BY <1>1, <1>2, <2>1, Zenon DEF StoreTypes
<1>10. CASE Truncate
  <2>1. /\ journal' = <<>> /\ store' = [store EXCEPT !.entry_count = 0, !.journal_size = 0]
        /\ job' = {} /\ acked' = job /\ pc' = "idle"
        /\ UNCHANGED <<snapshot, boot, held, writes>>
    BY <1>10, Zenon DEF Truncate, Acknowledge, Return
  <2>2. store' \in StoreObject
    BY <1>1, <2>1, Zenon DEF StoreObject
  <2> QED
    BY <1>1, <1>2, <2>1, <2>2, Zenon DEF StoreTypes
<1>11. CASE Exit
  <2>1. /\ journal' \in AfterCrash /\ job' = {} /\ pc' = "down"
        /\ UNCHANGED <<snapshot, boot, store, held, writes, acked>>
    BY <1>11, Zenon DEF Exit, Return
  <2>2. journal' \in Seq(Frame)
    BY <2>1, CrashTypes, Zenon
  <2> QED
    BY <1>1, <1>2, <2>1, <2>2, Zenon DEF StoreTypes
<1>12. CASE UNCHANGED vars
    BY <1>12, Zenon DEF StoreTypes, vars, diskVars
<1> QED
    BY <1>4, <1>5, <1>6, <1>7, <1>8, <1>9, <1>10, <1>11, <1>12, Zenon DEF Next

LEMMA InitTypes == ASSUME Init PROVE StoreTypes
    BY OptionalFacts DEF Init, StoreTypes, StoreObject

\* Whatever failed before, and wherever the processes before it died, opening a
\* store cuts nothing off that it recovers: the next open returns the same state.
THEOREM OpenIsRepeatableHolds == Spec => OpenIsRepeatable
<1>1. ASSUME StoreTypes, [Next]_vars
      PROVE  [boot' # boot /\ job' = {} =>
                 Recovered(snapshot', journal') = Recovered(snapshot, journal)]_vars
  <2> SUFFICES ASSUME boot' # boot, job' = {}, Next
               PROVE  Recovered(snapshot', journal') = Recovered(snapshot, journal)
    BY <1>1, Zenon
  <2>1. Open
    BY Zenon DEF Next, Open, Import, Begin, Commit, Compact, CommitBig, AppendRefused, Append_,
       AppendFails, Sync, SyncFails, WriteTemp, WriteTempFails, Rename, RenameFails,
       RenameFailsAgain, Truncate, TruncateFails, Exit, Fail
  <2>2. /\ snapshot' = snapshot
        /\ journal' \in {journal, SubSeq(journal, 1, scan_journal(journal).valid_frames)}
    BY <2>1, Zenon DEF Open, OpenDisk
  <2>3. journal \in Seq(Frame)
    BY <1>1, Zenon DEF StoreTypes
  <2>4. scan_journal(journal').last = scan_journal(journal).last
    BY <2>2, <2>3, CutKeepsLast, Zenon
  <2> QED
    BY <2>2, <2>4, Zenon DEF Recovered
<1> QED
    BY <1>1, InitTypes, NextTypes, PTL DEF Spec, OpenIsRepeatable

-----------------------------------------------------------------------------
(* Journals in order *)

\* The frames of one process after the other: only the last one may be torn,
\* and sequences, generations and writes advance.
InOrder(q) ==
    /\ \A i \in 1 .. Len(q) :
          /\ ~q[i].whole => i = Len(q)
          /\ q[i].sequence > 0 /\ q[i].generation = q[i].payload.generation
    /\ \A i, j \in 1 .. Len(q) : i < j =>
          /\ q[i].sequence < q[j].sequence /\ q[i].generation <= q[j].generation
          /\ q[i].payload.write < q[j].payload.write

\* The number of frames before a torn one, and the state of the last of them.
WholeFrames(q) == IF \E i \in 1 .. Len(q) : ~q[i].whole THEN Len(q) - 1 ELSE Len(q)
LastOf(q) == IF WholeFrames(q) = 0 THEN {} ELSE {q[WholeFrames(q)].payload}

LEMMA WholeFramesFacts ==
    ASSUME NEW q \in Seq(Frame), InOrder(q)
    PROVE  /\ WholeFrames(q) \in Nat /\ WholeFrames(q) \in 0 .. Len(q)
           /\ \A i \in 1 .. WholeFrames(q) : q[i].whole
           /\ \/ WholeFrames(q) = Len(q)
              \/ WholeFrames(q) = Len(q) - 1 /\ ~q[Len(q)].whole
<1>1. Len(q) \in Nat
    OBVIOUS
<1>2. CASE \E i \in 1 .. Len(q) : ~q[i].whole
  <2>1. PICK i \in 1 .. Len(q) : ~q[i].whole
    BY <1>2, Zenon
  <2>2. \A j \in 1 .. Len(q) : ~q[j].whole => j = Len(q)
    BY Zenon DEF InOrder
  <2>3. i = Len(q) /\ WholeFrames(q) = Len(q) - 1
    BY <1>2, <2>1, <2>2, Zenon DEF WholeFrames
  <2>4. \A j \in 1 .. Len(q) - 1 : j \in 1 .. Len(q) /\ j # Len(q)
    BY <1>1
  <2>5. \A j \in 1 .. Len(q) - 1 : q[j].whole
    BY <2>2, <2>4, Zenon
  <2> QED
    BY <1>1, <2>1, <2>3, <2>5
<1>3. CASE ~\E i \in 1 .. Len(q) : ~q[i].whole
    BY <1>1, <1>3 DEF WholeFrames
<1> QED
    BY <1>2, <1>3, Zenon

\* Nothing is skipped in a journal that is in order: the scan takes its result
\* from the last whole frame.
LEMMA ScanInOrder ==
    ASSUME NEW q \in Seq(Frame), InOrder(q)
    PROVE  /\ scan_journal(q).last = LastOf(q)
           /\ scan_journal(q).valid_frames = WholeFrames(q)
           /\ scan_journal(q).stopped <=> WholeFrames(q) # Len(q)
<1> DEFINE w == WholeFrames(q)
<1>1. PICK s : s = ScansOf(q)
    BY Zenon
<1>2. /\ Len(q) \in Nat /\ w \in Nat /\ w <= Len(q) /\ \A i \in 1 .. w : q[i].whole
      /\ \/ w = Len(q)
         \/ w = Len(q) - 1 /\ ~q[Len(q)].whole
    BY WholeFramesFacts
<1>3. /\ s[0] = NothingScanned /\ \A i \in 1 .. Len(q) : s[i] = ScanFrame(s[i - 1], q[i])
      /\ \A i \in 0 .. Len(q) : s[i] \in Scan
    BY <1>1, <1>2, ScanSteps, ScanCut, Zenon
<1> HIDE DEF w
<1> DEFINE At(n) == /\ s[n].previous_sequence = (IF n = 0 THEN 0 ELSE q[n].sequence)
                    /\ s[n].previous_generation = (IF n = 0 THEN 0 ELSE q[n].generation)
                    /\ s[n].position = n /\ s[n].valid_frames = n /\ ~s[n].stopped
                    /\ s[n].last = (IF n = 0 THEN {} ELSE {q[n].payload})
           S == {n \in Nat : n <= w => At(n)}
<1>4. 0 \in S
    BY <1>3 DEF NothingScanned
<1>5. ASSUME NEW n \in Nat, n \in S PROVE n + 1 \in S
  <2> SUFFICES ASSUME n + 1 <= w PROVE At(n + 1)
    OBVIOUS
  <2>1. At(n) /\ n \in 0 .. Len(q) /\ n + 1 \in 1 .. Len(q) /\ n + 1 \in 1 .. w
    BY <1>2, <1>5
  <2>2. s[n + 1] = ScanFrame(s[n], q[n + 1]) /\ q[n + 1] \in Frame /\ q[n + 1].whole
    BY <1>2, <1>3, <2>1
  <2>3. q[n + 1].sequence \in Nat /\ q[n + 1].generation \in Nat /\ q[n + 1].sequence > 0
    BY <2>1, <2>2, Zenon DEF InOrder, Frame
  <2>4. ~Replayed(s[n], q[n + 1])
    <3>1. CASE n = 0
      BY <2>1, <2>3, <3>1 DEF Replayed
    <3>2. CASE n # 0
      <4>1. n \in 1 .. Len(q) /\ n < n + 1
        BY <2>1, <3>2
      <4>2. q[n].sequence < q[n + 1].sequence /\ q[n].generation <= q[n + 1].generation
        BY <2>1, <4>1, Zenon DEF InOrder
      <4>3. q[n].sequence \in Nat /\ q[n].generation \in Nat
        <5>1. q[n] \in Frame
          BY <4>1
        <5> QED
          BY <5>1, Zenon DEF Frame
      <4> QED
        BY <2>1, <2>3, <3>2, <4>2, <4>3 DEF Replayed
    <3> QED
      BY <3>1, <3>2, Zenon
  <2> QED
    BY <2>1, <2>2, <2>4 DEF ScanFrame
<1> HIDE DEF S
<1>6. w \in S
    BY <1>2, <1>4, <1>5, SetInduction, Zenon
<1>7. At(w)
    BY <1>2, <1>6 DEF S
<1>8. CASE w = Len(q)
    BY <1>1, <1>7, <1>8, Zenon DEF scan_journal, LastOf, w
<1>9. CASE w = Len(q) - 1 /\ ~q[Len(q)].whole
  <2>1. s[Len(q)] = ScanFrame(s[w], q[Len(q)]) /\ s[w] \in Scan /\ w # Len(q)
    BY <1>2, <1>3, <1>9
  <2>2. s[Len(q)] = [s[w] EXCEPT !.stopped = TRUE]
    BY <1>9, <2>1, Zenon DEF ScanFrame
  <2>3. s[Len(q)].last = s[w].last /\ s[Len(q)].valid_frames = s[w].valid_frames
        /\ s[Len(q)].stopped
    BY <2>1, <2>2, Zenon DEF Scan
  <2> QED
    BY <1>1, <1>7, <2>1, <2>3, Zenon DEF scan_journal, LastOf, w
<1> QED
    BY <1>2, <1>8, <1>9, Zenon

\* A part of a journal that is in order, up to a torn frame at its end.
LEMMA InOrderPart ==
    ASSUME NEW q \in Seq(Frame), InOrder(q), NEW p \in Seq(Frame), Len(p) <= Len(q),
           \A i \in 1 .. Len(p) : /\ p[i].sequence = q[i].sequence
                                  /\ p[i].generation = q[i].generation
                                  /\ p[i].payload = q[i].payload
                                  /\ ~p[i].whole => i = Len(p)
    PROVE  InOrder(p)
<1>1. \A i \in 1 .. Len(p) : i \in 1 .. Len(q)
    OBVIOUS
<1> QED
    BY <1>1, Zenon DEF InOrder

LEMMA InOrderAppend ==
    ASSUME NEW q \in Seq(Frame), InOrder(q), NEW f \in Frame,
           f.sequence > 0, f.generation = f.payload.generation,
           \A i \in 1 .. Len(q) : /\ q[i].whole /\ q[i].sequence < f.sequence
                                  /\ q[i].generation <= f.generation
                                  /\ q[i].payload.write < f.payload.write
    PROVE  InOrder(Append(q, f))
<1> DEFINE p == Append(q, f)
           n == Len(q) + 1
<1>1. /\ Len(p) = n /\ p[n] = f /\ \A i \in 1 .. n : (i \in 1 .. Len(q) /\ p[i] = q[i]) \/ i = n
      /\ \A i \in 1 .. n : ~(n < i) /\ ~(i < i)
    OBVIOUS
<1> HIDE DEF p, n
<1>2. ASSUME NEW i \in 1 .. n
      PROVE  /\ ~p[i].whole => i = n
             /\ p[i].sequence > 0 /\ p[i].generation = p[i].payload.generation
    BY <1>1, Zenon DEF InOrder
<1>3. ASSUME NEW i \in 1 .. n, NEW j \in 1 .. n, i < j
      PROVE  /\ p[i].sequence < p[j].sequence /\ p[i].generation <= p[j].generation
             /\ p[i].payload.write < p[j].payload.write
  <2>1. i \in 1 .. Len(q) /\ p[i] = q[i]
    BY <1>1, <1>3, Zenon
  <2>2. CASE j \in 1 .. Len(q) /\ p[j] = q[j]
    BY <1>3, <2>1, <2>2, Zenon DEF InOrder
  <2>3. CASE j = n
    BY <1>1, <2>1, <2>3, Zenon
  <2> QED
    BY <1>1, <2>2, <2>3, Zenon
<1>4. InOrder(p)
    BY <1>1, <1>2, <1>3, Zenon DEF InOrder
<1> QED
    BY <1>4, Zenon DEF p

\* The size of the journal file.
LEMMA SizeOfPart ==
    ASSUME NEW q \in Seq(Frame), NEW p \in Seq(Frame), Len(p) <= Len(q),
           \A i \in 1 .. Len(p) : p[i].whole \/ p[i].size = 1 => q[i].whole \/ q[i].size = 1
    PROVE  JournalFileSize(p) <= JournalFileSize(q)
<1>1. {i \in DOMAIN p : p[i].whole \/ p[i].size = 1}
          \in SUBSET {i \in DOMAIN q : q[i].whole \/ q[i].size = 1}
    OBVIOUS
<1> QED
    BY <1>1, FileSizeTypes, FS_Subset, Zenon DEF JournalFileSize

LEMMA SizeOfAppend ==
    ASSUME NEW q \in Seq(Frame), NEW f \in Frame
    PROVE  JournalFileSize(Append(q, f)) <= JournalFileSize(q) + 1
<1> DEFINE S == {i \in DOMAIN q : q[i].whole \/ q[i].size = 1}
           p == Append(q, f)
           T == {i \in DOMAIN p : p[i].whole \/ p[i].size = 1}
           n == Len(q) + 1
<1>1. T \in SUBSET (S \cup {n}) /\ p \in Seq(Frame)
    OBVIOUS
<1> HIDE DEF n, p
<1>2. IsFiniteSet(S) /\ Cardinality(S) \in Nat
    BY FileSizeTypes, FS_CardinalityType, Zenon
<1>3. IsFiniteSet(T) /\ Cardinality(T) \in Nat
    BY <1>1, FileSizeTypes, FS_CardinalityType, Zenon
<1> HIDE DEF S, T
<1>4. /\ IsFiniteSet(S \cup {n})
      /\ Cardinality(S \cup {n}) \in {Cardinality(S), Cardinality(S) + 1}
    BY <1>2, FS_AddElement, Zenon
<1>5. Cardinality(T) <= Cardinality(S \cup {n})
    BY <1>1, <1>4, FS_Subset, Zenon
<1>6. Cardinality(T) <= Cardinality(S) + 1
    BY <1>2, <1>3, <1>4, <1>5
<1> QED
    BY <1>6, Zenon DEF JournalFileSize, S, T, p

LEMMA SizeOfEmpty == JournalFileSize(<<>>) = 0
<1>1. {i \in DOMAIN <<>> : <<>>[i].whole \/ <<>>[i].size = 1} = {}
    OBVIOUS
<1> QED
    BY <1>1, FS_EmptySet, Zenon DEF JournalFileSize

\* The part that open keeps of a journal.
LEMMA CutFacts ==
    ASSUME NEW q \in Seq(Frame), InOrder(q), NEW p, p = SubSeq(q, 1, WholeFrames(q))
    PROVE  /\ p \in Seq(Frame) /\ InOrder(p) /\ Len(p) = WholeFrames(q) /\ Len(p) <= Len(q)
           /\ WholeFrames(p) = WholeFrames(q)
           /\ \A i \in 1 .. Len(p) : p[i] = q[i] /\ p[i].whole
           /\ JournalFileSize(p) <= JournalFileSize(q)
<1> DEFINE w == WholeFrames(q)
<1>1. w \in Nat /\ w \in 0 .. Len(q) /\ \A i \in 1 .. w : q[i].whole
    BY WholeFramesFacts, Zenon
<1> HIDE DEF w
<1>2. /\ p \in Seq(Frame) /\ Len(p) = w /\ Len(p) <= Len(q)
      /\ \A i \in 1 .. Len(p) : p[i] = q[i] /\ p[i].whole
  <2>1. p = SubSeq(q, 1, w)
    BY Zenon DEF w
  <2>2. p \in Seq(Frame) /\ Len(p) = w /\ Len(p) <= Len(q) /\ \A i \in 1 .. w : p[i] = q[i]
    BY <1>1, <2>1, FrontFacts, ZenonT(30)
  <2> QED
    BY <1>1, <2>2, Zenon
<1>3. InOrder(p)
    BY <1>2, InOrderPart, Zenon
<1>4. WholeFrames(p) = w
    BY <1>2, Zenon DEF WholeFrames
<1>5. JournalFileSize(p) <= JournalFileSize(q)
    BY <1>2, SizeOfPart, Zenon
<1> QED
    BY <1>2, <1>3, <1>4, <1>5, Zenon DEF w

-----------------------------------------------------------------------------
(* The inductive invariant *)

\* A process that opened the store, not one that only imports into it.
Opened == pc # "down" /\ boot \notin ImportBoots

\* The operation in progress holds the newest write.  No write, synchronisation or
\* rename has failed.
Jobs ==
    /\ pc \in {"down", "idle", "append", "written", "snapshot", "rename", "truncate"}
    /\ pc \in {"down", "idle"} <=> job = {}
    /\ \A s \in job : s.write = writes /\ s.generation = held
    /\ pc = "truncate" => snapshot = job
    /\ pc \in {"append", "written"} => Opened
    /\ \A s \in snapshot \cup acked : s.write <= writes

\* A snapshot of a later generation than a frame was also written later.
Agree(snap, q) ==
    \A s \in snap, i \in 1 .. Len(q) :
        q[i].payload.write < s.write \/ s.generation <= q[i].generation

\* The journal is in order, and the process that has opened it is not behind it.
Recorded ==
    /\ InOrder(journal) /\ Agree(snapshot, journal)
    /\ \A i \in 1 .. Len(journal) :
          /\ journal[i].payload.write <= writes
          /\ Opened => journal[i].whole /\ journal[i].generation <= held
          /\ pc = "append" => /\ journal[i].sequence <= store.sequence
                              /\ journal[i].payload.write < writes
          /\ \A s \in job : journal[i].payload.write < s.write \/ journal[i].payload = s
    /\ Opened => \A s \in snapshot : s.generation <= held
    /\ pc = "written" => {journal[Len(journal)].payload} = job

\* The frames that no crash takes away, and that the last of them, or else the
\* snapshot, is not older than the state acknowledged last.
Settled == IF pc = "written" THEN Len(journal) - 1 ELSE WholeFrames(journal)
Covers(snap, q, n, a) ==
    IF n = 0 THEN \E s \in snap : s.write >= a.write ELSE q[n].payload.write >= a.write
Covered == \A a \in acked : Covers(snapshot, journal, Settled, a)

\* The size that the Store object keeps is the size of the file, or more.
Sizes ==
    /\ JournalFileSize(journal) <= MaxJournalFrames
    /\ pc # "down" => JournalFileSize(journal)
                          <= store.journal_size + (IF pc = "written" THEN 1 ELSE 0)

SInv == StoreTypes /\ Jobs /\ Recorded /\ Covered /\ Sizes

\* What a crash leaves: all of the journal, or all but the frame that was not
\* synchronised.
LEMMA CrashFacts ==
    ASSUME StoreTypes, InOrder(journal), NEW q \in AfterCrash,
           pc = "written" => \A i \in 1 .. Len(journal) : journal[i].whole
    PROVE  /\ q \in Seq(Frame) /\ InOrder(q) /\ Len(q) <= Len(journal)
           /\ \A i \in 1 .. Len(q) : /\ q[i].sequence = journal[i].sequence
                                     /\ q[i].generation = journal[i].generation
                                     /\ q[i].payload = journal[i].payload
           /\ WholeFrames(q) \in {Settled, WholeFrames(journal)}
           /\ JournalFileSize(q) <= JournalFileSize(journal)
<1>1. journal \in Seq(Frame) /\ Len(journal) \in Nat
    BY DEF StoreTypes
<1>2. CASE q = journal
  <2>1. \A x \in Nat : x <= x
    OBVIOUS
  <2> QED
    BY <1>1, <1>2, <2>1, FileSizeTypes, Zenon
<1>3. CASE q # journal
  <2> DEFINE n == Len(journal)
             p == SubSeq(journal, 1, n - 1)
  <2>1. /\ pc = "written" /\ \A i \in 1 .. n : journal[i].whole
        /\ \/ q = p
           \/ \E k \in {0, 1} : q = Append(p, [journal[n] EXCEPT !.whole = FALSE, !.size = k])
    BY <1>3, Zenon DEF AfterCrash
  <2>2. n \in Nat /\ n > 0 /\ n - 1 \in 0 .. n /\ n - 1 # n /\ journal[n] \in Frame
    BY <1>1, <2>1 DEF StoreTypes
  <2> HIDE DEF n
  <2>3. p \in Seq(Frame) /\ Len(p) = n - 1 /\ \A i \in 1 .. n - 1 : p[i] = journal[i]
    BY <1>1, <2>2, FrontFacts, Zenon DEF n
  <2> HIDE DEF p
  <2>4. /\ q \in Seq(Frame) /\ Len(q) \in {n - 1, n} /\ \A i \in 1 .. n - 1 : q[i] = journal[i]
        /\ Len(q) = n => /\ ~q[n].whole /\ q[n].sequence = journal[n].sequence
                         /\ q[n].generation = journal[n].generation
                         /\ q[n].payload = journal[n].payload
    <3>1. CASE q = p
      BY <2>2, <2>3, <3>1, Zenon
    <3>2. ASSUME NEW k \in {0, 1}, q = Append(p, [journal[n] EXCEPT !.whole = FALSE, !.size = k])
          PROVE  /\ q \in Seq(Frame) /\ Len(q) = n /\ \A i \in 1 .. n - 1 : q[i] = journal[i]
                 /\ ~q[n].whole /\ q[n].sequence = journal[n].sequence
                 /\ q[n].generation = journal[n].generation
                 /\ q[n].payload = journal[n].payload
      <4> DEFINE t == [journal[n] EXCEPT !.whole = FALSE, !.size = k]
      <4>1. /\ t \in Frame /\ ~t.whole /\ t.sequence = journal[n].sequence
            /\ t.generation = journal[n].generation /\ t.payload = journal[n].payload
        BY <2>2, Zenon DEF Frame
      <4> HIDE DEF t
      <4>2. q = Append(p, t)
        BY <3>2, Zenon DEF t
      <4>3. q \in Seq(Frame) /\ Len(q) = n /\ q[n] = t /\ \A i \in 1 .. n - 1 : q[i] = p[i]
        BY <2>2, <2>3, <4>1, <4>2
      <4> QED
        BY <2>3, <4>1, <4>3, Zenon
    <3> QED
      BY <2>1, <3>1, <3>2, Zenon
  <2>5. \A i \in 1 .. Len(q) : i \in 1 .. n /\ (i \in 1 .. n - 1 \/ (Len(q) = n /\ i = n))
    BY <2>2, <2>4
  <2>6. \A i \in 1 .. Len(q) : /\ q[i].sequence = journal[i].sequence
                               /\ q[i].generation = journal[i].generation
                               /\ q[i].payload = journal[i].payload
                               /\ ~q[i].whole => i = Len(q)
    BY <2>1, <2>4, <2>5, Zenon
  <2>7. Len(q) <= n
    BY <2>2, <2>4
  <2>8. InOrder(q)
    BY <1>1, <2>4, <2>6, <2>7, InOrderPart, Zenon DEF n
  <2>9. JournalFileSize(q) <= JournalFileSize(journal)
    BY <1>1, <2>1, <2>4, <2>5, <2>7, SizeOfPart, Zenon DEF n
  <2>10. WholeFrames(q) = n - 1
    <3>1. CASE Len(q) = n
      <4>1. n \in 1 .. Len(q)
        BY <2>2, <3>1
      <4> QED
        BY <2>4, <3>1, <4>1, Zenon DEF WholeFrames
    <3>2. CASE Len(q) = n - 1
      BY <2>1, <2>2, <2>4, <2>5, <3>2, Zenon DEF WholeFrames
    <3> QED
      BY <2>4, <3>1, <3>2, Zenon
  <2>11. Settled = n - 1
    BY <2>1, Zenon DEF Settled, n
  <2> QED
    BY <2>4, <2>6, <2>7, <2>8, <2>9, <2>10, <2>11, Zenon DEF n
<1> QED
    BY <1>2, <1>3, Zenon

\* What open returns covers what the frames and the snapshot cover.
LEMMA RecoveredCovers ==
    ASSUME NEW q \in Seq(Frame), InOrder(q), NEW snap \in Optional(State), Agree(snap, q),
           NEW a \in State, Covers(snap, q, WholeFrames(q), a)
    PROVE  \E s \in Recovered(snap, q) : s.write >= a.write
<1> DEFINE w == WholeFrames(q)
<1>1. w \in Nat /\ w \in 0 .. Len(q)
    BY WholeFramesFacts, Zenon
<1>2. scan_journal(q).last = LastOf(q)
    BY ScanInOrder, Zenon
<1>3. CASE w = 0
    BY <1>2, <1>3, Zenon DEF LastOf, Recovered, Covers
<1>4. CASE w # 0
  <2> DEFINE f == q[w].payload
  <2>1. w \in 1 .. Len(q) /\ q[w] \in Frame
    BY <1>1, <1>4
  <2>2. f \in State /\ q[w].generation = f.generation
    BY <2>1, Zenon DEF Frame, InOrder
  <2>3. scan_journal(q).last = {f} /\ f.write >= a.write
    BY <1>2, <1>4, Zenon DEF LastOf, Covers
  <2> HIDE DEF w, f
  <2>4. CASE \A s \in snap : f.generation >= s.generation
    <3>1. Recovered(snap, q) = {f}
      BY <2>3, <2>4, Zenon DEF Recovered
    <3> QED
      BY <2>3, <3>1, Zenon
  <2>5. ASSUME NEW s \in snap, ~(f.generation >= s.generation)
        PROVE  \E r \in Recovered(snap, q) : r.write >= a.write
    <3>1. Recovered(snap, q) = snap
      BY <2>3, <2>5, Zenon DEF Recovered
    <3>2. s \in State
      BY OptionalFacts, Zenon
    <3>3. /\ s.generation \in Nat /\ s.write \in Nat /\ a.write \in Nat
          /\ f.write \in Nat /\ f.generation \in Nat
      BY <2>2, <3>2, Zenon DEF State
    <3>4. f.write < s.write \/ s.generation <= f.generation
      BY <2>1, <2>2, Zenon DEF Agree, f
    <3>5. s.write >= a.write
      BY <2>3, <2>5, <3>3, <3>4
    <3> QED
      BY <3>1, <3>5, Zenon
  <2> QED
    BY <2>4, <2>5, Zenon
<1> QED
    BY <1>3, <1>4, Zenon

\* The state that open returns is of the latest generation on the disk.
LEMMA RecoveredNewest ==
    ASSUME NEW q \in Seq(Frame), InOrder(q), NEW snap \in Optional(State),
           NEW g, g = IF Recovered(snap, q) = {} THEN 0
                      ELSE (CHOOSE s \in Recovered(snap, q) : TRUE).generation
    PROVE  /\ \A i \in 1 .. WholeFrames(q) : q[i].generation <= g
           /\ \A s \in snap : s.generation <= g
<1> DEFINE w == WholeFrames(q)
<1>1. w \in Nat /\ w \in 0 .. Len(q)
    BY WholeFramesFacts, Zenon
<1>2. scan_journal(q).last = LastOf(q)
    BY ScanInOrder, Zenon
<1>3. ASSUME NEW s \in snap PROVE s \in State /\ s.generation \in Nat /\ snap = {s}
  <2>1. s \in State /\ snap = {s}
    BY OptionalFacts, Zenon
  <2> QED
    BY <2>1, Zenon DEF State
<1>4. ASSUME NEW s, Recovered(snap, q) = {s} PROVE g = s.generation
    BY <1>4, Zenon
<1>5. ASSUME Recovered(snap, q) = snap PROVE \A s \in snap : s.generation <= g
    BY <1>3, <1>4, <1>5
<1>6. CASE w = 0
  <2>1. Recovered(snap, q) = snap /\ \A i \in 1 .. w : FALSE
    <3>1. Recovered(snap, q) = snap
      BY <1>2, <1>6, Zenon DEF LastOf, Recovered
    <3> QED
      BY <1>6, <3>1
  <2> QED
    BY <1>5, <2>1, Zenon
<1>7. CASE w # 0
  <2> DEFINE f == q[w].payload
  <2>1. w \in 1 .. Len(q) /\ q[w] \in Frame
    BY <1>1, <1>7
  <2>2. f \in State /\ f.generation \in Nat /\ q[w].generation = f.generation
    BY <2>1, Zenon DEF Frame, InOrder, State
  <2>3. scan_journal(q).last = {f}
    BY <1>2, <1>7, Zenon DEF LastOf
  <2>4. ASSUME NEW i \in 1 .. w PROVE q[i].generation \in Nat /\ q[i].generation <= f.generation
    <3>1. i \in 1 .. Len(q) /\ (i < w \/ i = w) /\ q[i] \in Frame
      BY <1>1
    <3>2. q[i].generation <= q[w].generation \/ i = w
      BY <2>1, <3>1, Zenon DEF InOrder
    <3> QED
      BY <2>2, <3>1, <3>2 DEF Frame
  <2> HIDE DEF w, f
  <2>5. CASE \A s \in snap : f.generation >= s.generation
    <3>1. Recovered(snap, q) = {f}
      BY <2>3, <2>5, Zenon DEF Recovered
    <3>2. g = f.generation
      BY <1>4, <3>1, Zenon
    <3> QED
      BY <1>3, <2>2, <2>4, <2>5, <3>2, Zenon DEF w
  <2>6. ASSUME NEW s \in snap, ~(f.generation >= s.generation)
        PROVE  /\ \A i \in 1 .. w : q[i].generation <= g
               /\ \A r \in snap : r.generation <= g
    <3>1. Recovered(snap, q) = snap /\ snap = {s} /\ s.generation \in Nat
      BY <1>3, <2>3, <2>6, Zenon DEF Recovered
    <3>2. g = s.generation
      BY <1>4, <3>1, Zenon
    <3> QED
      BY <2>2, <2>4, <2>6, <3>1, <3>2
  <2> QED
    BY <2>5, <2>6, Zenon DEF w
<1> QED
    BY <1>6, <1>7, Zenon

-----------------------------------------------------------------------------
(* The steps of the invariant *)

LEMMA JobFacts ==
    ASSUME SInv
    PROVE  /\ \A s \in snapshot \cup job \cup acked :
                 s \in State /\ s.write \in Nat /\ s.generation \in Nat
           /\ \A s \in job : job = {s}
           /\ \A i \in 1 .. Len(journal) :
                 /\ journal[i] \in Frame /\ journal[i].sequence \in Nat
                 /\ journal[i].generation \in Nat /\ journal[i].payload.write \in Nat
           /\ journal \in Seq(Frame) /\ Len(journal) \in Nat
           /\ writes \in Nat /\ held \in Nat /\ boot \in Nat
           /\ store.sequence \in Nat /\ store.journal_size \in Nat
           /\ JournalFileSize(journal) \in Nat
<1>1. /\ snapshot \in Optional(State) /\ job \in Optional(State) /\ acked \in Optional(State)
      /\ journal \in Seq(Frame) /\ writes \in Nat /\ held \in Nat /\ boot \in Nat
      /\ store \in StoreObject
    BY Zenon DEF SInv, StoreTypes
<1>2. \A s \in State : s.write \in Nat /\ s.generation \in Nat
    BY Zenon DEF State
<1>3. /\ \A s \in snapshot \cup job \cup acked : s \in State
      /\ \A s \in job : job = {s}
    BY <1>1, OptionalFacts, Zenon
<1>4. ASSUME NEW i \in 1 .. Len(journal)
      PROVE  /\ journal[i] \in Frame /\ journal[i].sequence \in Nat
             /\ journal[i].generation \in Nat /\ journal[i].payload \in State
  <2>1. journal[i] \in Frame
    BY <1>1
  <2> QED
    BY <2>1, Zenon DEF Frame
<1>5. Len(journal) \in Nat
    BY <1>1
<1>6. store.sequence \in Nat /\ store.journal_size \in Nat
    BY <1>1, Zenon DEF StoreObject
<1>7. JournalFileSize(journal) \in Nat
    BY <1>1, FileSizeTypes, Zenon
<1> QED
    BY <1>1, <1>2, <1>3, <1>4, <1>5, <1>6, <1>7, Zenon

\* A step that writes neither the snapshot nor the journal.
LEMMA QuietStep ==
    ASSUME SInv, StoreTypes', UNCHANGED <<snapshot, journal, boot, store, held, writes, acked>>,
           job' \in {job, {}}, pc \in {"append", "snapshot", "truncate"},
           pc' \in {"idle", "snapshot", "rename"}, pc' = "idle" <=> job' = {}
    PROVE  SInv'
<1>1. /\ pc # "written" /\ pc' # "written" /\ pc' # "append" /\ pc' # "truncate"
      /\ pc # "down" /\ pc' # "down" /\ pc # "idle"
    BY Zenon
<1>2. Jobs'
    BY <1>1, Zenon DEF SInv, Jobs
<1>3. Recorded'
    BY <1>1, Zenon DEF SInv, Recorded, Opened
<1>4. Covered' /\ Sizes'
    BY <1>1, Zenon DEF SInv, Covered, Settled, Sizes
<1> QED
    BY <1>2, <1>3, <1>4, Zenon DEF SInv

\* A commit, a compaction or an import begins.
LEMMA BeginStep ==
    ASSUME SInv, StoreTypes', NEW g \in Nat, NEW where \in {"append", "snapshot"}, Begin(g, where),
           UNCHANGED <<snapshot, journal, acked>>, pc \in {"idle", "down"},
           where = "append" => /\ boot' \notin ImportBoots
                               /\ \A i \in 1 .. Len(journal) : journal[i].sequence <= store'.sequence,
           boot' \notin ImportBoots => pc = "idle" /\ boot' = boot /\ g = held + 1,
           JournalFileSize(journal') <= store'.journal_size
    PROVE  SInv'
<1>1. /\ pc # "written" /\ pc' = where /\ held' = g /\ writes' = writes + 1
      /\ where # "written" /\ where # "down" /\ where # "idle" /\ where # "truncate"
      /\ \E big \in BigStates : job' = {[generation |-> g, write |-> writes + 1, big |-> big]}
    BY Zenon DEF Begin
<1>2. PICK s : job' = {s} /\ s.write = writes' /\ s.generation = held'
  <2>1. PICK big \in BigStates : job' = {[generation |-> g, write |-> writes + 1, big |-> big]}
    BY <1>1, Zenon
  <2> DEFINE r == [generation |-> g, write |-> writes + 1, big |-> big]
  <2>2. r.write = writes + 1 /\ r.generation = g
    BY Zenon
  <2>3. job' = {r}
    BY <2>1, Zenon
  <2> HIDE DEF r
  <2> QED
    BY <1>1, <2>2, <2>3, Zenon
<1>3. /\ \A x \in Nat : x <= writes => x <= writes' /\ x < writes'
      /\ boot' \notin ImportBoots => \A x \in Nat : x <= held => x <= held'
    BY <1>1, JobFacts
<1>4. /\ \A r \in snapshot \cup acked : r.write \in Nat /\ r.write <= writes
      /\ \A i \in 1 .. Len(journal) : /\ journal[i].payload.write <= writes
                                      /\ journal[i].payload.write \in Nat
                                      /\ journal[i].generation \in Nat
      /\ \A r \in snapshot : r.generation \in Nat
    BY JobFacts, Zenon DEF SInv, Jobs, Recorded
<1>5. Jobs'
  <2>1. job' # {} /\ \A r \in job' : r.write = writes' /\ r.generation = held'
    BY <1>2, Zenon
  <2> QED
    BY <1>1, <1>3, <1>4, <2>1, Zenon DEF Jobs, Opened
<1>6. Recorded'
  <2>1. \A i \in 1 .. Len(journal) :
            /\ journal[i].payload.write <= writes'
            /\ Opened' => journal[i].whole /\ journal[i].generation <= held'
            /\ pc' = "append" => /\ journal[i].sequence <= store'.sequence
                                 /\ journal[i].payload.write < writes'
            /\ \A r \in job' : journal[i].payload.write < r.write \/ journal[i].payload = r
    <3>1. \A r \in job' : r.write = writes'
      BY <1>2, Zenon
    <3>2. Opened' => Opened /\ boot' \notin ImportBoots
      BY Zenon DEF Opened
    <3> QED
      BY <1>1, <1>3, <1>4, <3>1, <3>2, Zenon DEF SInv, Recorded
  <2>2. Opened' => \A r \in snapshot' : r.generation <= held'
    <3>1. Opened' => Opened /\ boot' \notin ImportBoots
      BY Zenon DEF Opened
    <3> QED
      BY <1>3, <1>4, <3>1, Zenon DEF SInv, Recorded
  <2> QED
    BY <1>1, <2>1, <2>2, Zenon DEF SInv, Recorded
<1>7. Covered'
    BY <1>1, Zenon DEF SInv, Covered, Settled
<1>8. Sizes'
  <2>1. store'.journal_size + 0 = store'.journal_size
    BY DEF StoreTypes, StoreObject
  <2> QED
    BY <1>1, <2>1, Zenon DEF SInv, Sizes
<1> QED
    BY <1>5, <1>6, <1>7, <1>8, Zenon DEF SInv

\* The frame that was written last covers every state that may be acknowledged.
LEMMA WrittenCovers ==
    ASSUME SInv, pc = "written"
    PROVE  /\ WholeFrames(journal) = Len(journal)
           /\ \A a \in acked \cup job : Covers(snapshot, journal, Len(journal), a)
<1>1. /\ Opened /\ {journal[Len(journal)].payload} = job
      /\ \A i \in 1 .. Len(journal) : journal[i].whole
      /\ \A s \in job : s.write = writes /\ \A a \in acked : a.write <= writes
    BY Zenon DEF SInv, Jobs, Recorded
<1>2. Len(journal) # 0
    BY DEF SInv, StoreTypes
<1>3. WholeFrames(journal) = Len(journal)
    BY <1>1, Zenon DEF WholeFrames
<1>4. PICK s : s = journal[Len(journal)].payload
    BY Zenon
<1>5. s \in job /\ s.write = writes
    BY <1>1, <1>4, Zenon
<1>6. \A a \in acked \cup job : s.write >= a.write
    BY <1>1, <1>5, JobFacts
<1> QED
    BY <1>2, <1>3, <1>4, <1>6, Zenon DEF Covers

\* Whatever a crash leaves covers the state acknowledged last.
LEMMA CrashCovers ==
    ASSUME SInv, NEW q \in AfterCrash
    PROVE  /\ q \in Seq(Frame) /\ InOrder(q) /\ Agree(snapshot, q)
           /\ \A i \in 1 .. Len(q) : q[i].payload.write <= writes
           /\ \A a \in acked : Covers(snapshot, q, WholeFrames(q), a)
           /\ JournalFileSize(q) <= JournalFileSize(journal)
<1>1. StoreTypes /\ InOrder(journal)
    BY Zenon DEF SInv, Recorded
<1>2. pc = "written" => \A i \in 1 .. Len(journal) : journal[i].whole
    BY Zenon DEF SInv, Jobs, Recorded
<1>3. /\ q \in Seq(Frame) /\ InOrder(q) /\ Len(q) <= Len(journal)
      /\ \A i \in 1 .. Len(q) : /\ q[i].generation = journal[i].generation
                                /\ q[i].payload = journal[i].payload
      /\ WholeFrames(q) \in {Settled, WholeFrames(journal)}
      /\ JournalFileSize(q) <= JournalFileSize(journal)
    BY <1>1, <1>2, CrashFacts, Zenon
<1>4. \A i \in 1 .. Len(q) : i \in 1 .. Len(journal)
    BY <1>3, JobFacts
<1>5. Agree(snapshot, q) /\ \A i \in 1 .. Len(q) : q[i].payload.write <= writes
    BY <1>3, <1>4, Zenon DEF SInv, Recorded, Agree
<1>6. ASSUME NEW a \in acked PROVE Covers(snapshot, journal, WholeFrames(q), a)
  <2>1. CASE WholeFrames(q) = Settled
    BY <2>1, Zenon DEF SInv, Covered
  <2>2. CASE WholeFrames(q) # Settled
    <3>1. pc = "written"
      BY <1>3, <2>2, Zenon DEF Settled
    <3> QED
      BY <1>3, <2>2, <3>1, WrittenCovers, Zenon
  <2> QED
    BY <2>1, <2>2, Zenon
<1>7. WholeFrames(q) # 0 => q[WholeFrames(q)].payload = journal[WholeFrames(q)].payload
  <2>1. WholeFrames(q) \in Nat /\ WholeFrames(q) \in 0 .. Len(q)
    BY <1>3, WholeFramesFacts, Zenon
  <2>2. WholeFrames(q) # 0 => WholeFrames(q) \in 1 .. Len(q)
    BY <2>1
  <2> QED
    BY <1>3, <2>2, Zenon
<1> QED
    BY <1>3, <1>5, <1>6, <1>7, Zenon DEF Covers

LEMMA ExitStep == ASSUME SInv, StoreTypes', Exit PROVE SInv'
<1>1. /\ pc' = "down" /\ job' = {} /\ journal' \in AfterCrash
      /\ UNCHANGED <<snapshot, boot, store, held, writes, acked>>
    BY Zenon DEF Exit, Return
<1>2. /\ InOrder(journal') /\ Agree(snapshot, journal')
      /\ \A i \in 1 .. Len(journal') : journal'[i].payload.write <= writes
      /\ \A a \in acked : Covers(snapshot, journal', WholeFrames(journal'), a)
      /\ JournalFileSize(journal') <= JournalFileSize(journal) /\ JournalFileSize(journal') \in Nat
    BY <1>1, CrashCovers, FileSizeTypes, Zenon
<1>3. Jobs'
    BY <1>1, Zenon DEF SInv, Jobs
<1>4. Recorded'
    BY <1>1, <1>2, Zenon DEF Recorded, Opened
<1>5. Covered'
    BY <1>1, <1>2, Zenon DEF Covered, Settled
<1>6. JournalFileSize(journal') <= MaxJournalFrames
  <2>1. JournalFileSize(journal) \in Nat /\ JournalFileSize(journal) <= MaxJournalFrames
    BY JobFacts, Zenon DEF SInv, Sizes
  <2>2. MaxJournalFrames \in Nat
    BY StoreAssumption, Zenon
  <2> QED
    BY <1>2, <2>1, <2>2
<1> QED
    BY <1>1, <1>3, <1>4, <1>5, <1>6, Zenon DEF SInv, Sizes

LEMMA SyncStep == ASSUME SInv, StoreTypes', Sync PROVE SInv'
<1>1. /\ pc = "written" /\ UNCHANGED <<snapshot, journal, boot, held, writes>>
      /\ \/ pc' = "snapshot" /\ job' = job /\ acked' = acked
         \/ pc' = "idle" /\ job' = {} /\ acked' = job
    BY Zenon DEF Sync, Acknowledge, Return, diskVars
<1>2. store'.journal_size = store.journal_size + 1
    BY Zenon DEF Sync
<1>3. WholeFrames(journal) = Len(journal) /\ \A a \in acked' : Covers(snapshot, journal, Len(journal), a)
    BY <1>1, WrittenCovers, Zenon
<1>4. Jobs'
  <2>1. \A s \in job : s.write = writes /\ s.write <= writes
    BY JobFacts DEF SInv, Jobs
  <2> QED
    BY <1>1, <2>1, Zenon DEF SInv, Jobs
<1>5. Recorded'
    BY <1>1, Zenon DEF SInv, Recorded, Opened
<1>6. Covered'
    BY <1>1, <1>3, Zenon DEF Covered, Settled
<1>7. Sizes'
  <2>1. store'.journal_size + 0 = store.journal_size + 1
    BY <1>2, JobFacts
  <2> QED
    BY <1>1, <2>1, Zenon DEF SInv, Sizes
<1> QED
    BY <1>4, <1>5, <1>6, <1>7, Zenon DEF SInv

LEMMA RenameStep == ASSUME SInv, StoreTypes', Rename PROVE SInv'
<1>1. /\ pc = "rename" /\ pc' = "truncate" /\ snapshot' = job
      /\ UNCHANGED <<journal, boot, store, held, job, writes, acked>>
    BY Zenon DEF SInv, Jobs, Rename
<1>2. PICK s \in job : s.write = writes /\ s.generation = held /\ job = {s}
    BY <1>1, JobFacts, Zenon DEF SInv, Jobs
<1>3. /\ held <= held /\ writes <= writes /\ \A a \in acked : s.write >= a.write
    BY <1>2, JobFacts DEF SInv, Jobs
<1>4. Jobs'
    BY <1>1, <1>2, <1>3, Zenon DEF SInv, Jobs
<1>5. Agree(job, journal)
  <2>1. ASSUME NEW i \in 1 .. Len(journal), journal[i].payload = s
        PROVE  journal[i].generation = held
    BY <1>2, <2>1, Zenon DEF SInv, Recorded, InOrder
  <2> QED
    BY <1>2, <1>3, <2>1, Zenon DEF SInv, Recorded, Agree
<1>6. Recorded'
    BY <1>1, <1>2, <1>3, <1>5, Zenon DEF SInv, Recorded, Opened
<1>7. Covered'
    BY <1>1, <1>2, <1>3, Zenon DEF SInv, Covered, Settled, Covers
<1>8. Sizes'
    BY <1>1, Zenon DEF SInv, Sizes
<1> QED
    BY <1>4, <1>6, <1>7, <1>8, Zenon DEF SInv

LEMMA TruncateStep == ASSUME SInv, StoreTypes', Truncate PROVE SInv'
<1>1. /\ pc = "truncate" /\ pc' = "idle" /\ job' = {} /\ acked' = job /\ journal' = <<>>
      /\ UNCHANGED <<snapshot, boot, held, writes>> /\ snapshot = job
    BY Zenon DEF Truncate, Acknowledge, Return, SInv, Jobs
<1>2. store'.journal_size = 0
    BY Zenon DEF Truncate, SInv, StoreTypes, StoreObject
<1>3. \A i \in 1 .. Len(journal') : FALSE
    BY <1>1
<1>4. \A a \in job : a.write >= a.write
    BY JobFacts
<1>5. WholeFrames(journal') = 0
    BY <1>1 DEF WholeFrames
<1>6. Jobs'
    BY <1>1, Zenon DEF SInv, Jobs
<1>7. Recorded'
  <2>1. InOrder(journal') /\ Agree(snapshot', journal')
    BY <1>3, Zenon DEF InOrder, Agree
  <2>2. Opened' => Opened /\ pc' # "append" /\ pc' # "written"
    BY <1>1, Zenon DEF Opened
  <2> QED
    BY <1>1, <1>3, <2>1, <2>2, Zenon DEF SInv, Recorded
<1>8. Covered'
    BY <1>1, <1>4, <1>5, Zenon DEF Covered, Settled, Covers
<1>9. Sizes'
  <2>1. JournalFileSize(journal') = 0
    BY <1>1, SizeOfEmpty, Zenon
  <2>2. 0 <= MaxJournalFrames
    BY StoreAssumption
  <2>3. 0 <= store'.journal_size + 0
    BY <1>2
  <2> QED
    BY <1>1, <2>1, <2>2, <2>3, Zenon DEF Sizes
<1> QED
    BY <1>6, <1>7, <1>8, <1>9, Zenon DEF SInv

LEMMA AppendStep == ASSUME SInv, StoreTypes', Append_ PROVE SInv'
<1>1. /\ pc = "append" /\ pc' = "written" /\ ~JournalFull
      /\ UNCHANGED <<snapshot, boot, store, held, job, writes, acked>>
    BY Zenon DEF Append_
<1>2. PICK s \in job : journal' = Append(journal, FrameOf(s, TRUE, 1))
    BY Zenon DEF Append_
<1> DEFINE f == FrameOf(s, TRUE, 1)
           n == Len(journal)
<1>3. s \in State /\ s.write = writes /\ s.generation = held /\ job = {s}
    BY JobFacts, Zenon DEF SInv, Jobs
<1>4. /\ f \in Frame /\ f.sequence = store.sequence + 1 /\ f.sequence > 0 /\ f.payload = s
      /\ f.generation = held /\ f.generation = f.payload.generation /\ f.whole
  <2>1. f \in Frame
    BY <1>3, FrameTypes, Zenon DEF SInv
  <2>2. /\ f.sequence = store.sequence + 1 /\ f.payload = s /\ f.generation = s.generation
        /\ f.whole
    BY Zenon DEF FrameOf
  <2>3. store.sequence + 1 > 0
    BY JobFacts
  <2> QED
    BY <1>3, <2>1, <2>2, <2>3, Zenon
<1>5. journal' = Append(journal, f)
    BY <1>2, Zenon
<1> HIDE DEF f
<1>6. \A i \in 1 .. n : /\ journal[i].whole /\ journal[i].generation <= held
                        /\ journal[i].sequence <= store.sequence
                        /\ journal[i].payload.write < writes
    BY <1>1, Zenon DEF SInv, Jobs, Recorded
<1>7. /\ journal \in Seq(Frame) /\ n \in Nat /\ Len(journal') = n + 1 /\ journal'[n + 1] = f
      /\ \A i \in 1 .. n + 1 : (i \in 1 .. n /\ journal'[i] = journal[i]) \/ i = n + 1
      /\ (n + 1) - 1 = n /\ (n # 0 => n \in 1 .. n /\ journal'[n] = journal[n])
      /\ writes <= writes /\ held <= held
  <2>1. /\ journal \in Seq(Frame) /\ n \in Nat /\ f \in Frame
        /\ writes \in Nat /\ held \in Nat
    BY <1>4, JobFacts, Zenon
  <2> QED
    BY <1>5, <2>1
<1>8. InOrder(journal')
  <2>1. \A i \in 1 .. n : journal[i].sequence < f.sequence
    BY <1>4, <1>6, JobFacts
  <2>2. \A i \in 1 .. n : /\ journal[i].whole /\ journal[i].sequence < f.sequence
                          /\ journal[i].generation <= f.generation
                          /\ journal[i].payload.write < f.payload.write
    BY <1>3, <1>4, <1>6, <2>1, Zenon
  <2>3. InOrder(journal)
    BY Zenon DEF SInv, Recorded
  <2> QED
    BY <1>4, <1>5, <1>7, <2>2, <2>3, InOrderAppend, Zenon
<1>9. WholeFrames(journal) = n
    BY <1>6, Zenon DEF WholeFrames
<1>10. JournalFileSize(journal') <= JournalFileSize(journal) + 1 /\ JournalFileSize(journal') \in Nat
    BY <1>4, <1>5, <1>7, SizeOfAppend, FileSizeTypes, Zenon DEF StoreTypes
<1>11. Jobs'
    BY <1>1, Zenon DEF SInv, Jobs, Opened
<1>12. Recorded'
  <2>1. Opened /\ \A r \in snapshot : r.generation <= held
    BY <1>1, Zenon DEF SInv, Jobs, Recorded
  <2>2. Agree(snapshot', journal')
    BY <1>1, <1>4, <1>7, <2>1, Zenon DEF SInv, Recorded, Agree
  <2>3. ASSUME NEW i \in 1 .. n + 1
        PROVE  /\ journal'[i].payload.write <= writes
               /\ journal'[i].whole /\ journal'[i].generation <= held
               /\ journal'[i].payload.write < s.write \/ journal'[i].payload = s
    BY <1>3, <1>4, <1>6, <1>7, Zenon DEF SInv, Recorded
  <2>4. pc' # "append" /\ {journal'[Len(journal')].payload} = job'
    BY <1>1, <1>3, <1>4, <1>7, Zenon
  <2> QED
    BY <1>1, <1>3, <1>7, <1>8, <2>1, <2>2, <2>3, <2>4, Zenon DEF Recorded
<1>13. Covered'
    BY <1>1, <1>7, <1>9, Zenon DEF SInv, Covered, Settled, Covers
<1>14. Sizes'
  <2>1. /\ store.journal_size + 1 <= MaxJournalFrames
        /\ JournalFileSize(journal) <= store.journal_size + 0
    <3>1. JournalFileSize(journal) <= store.journal_size + 0
      BY <1>1, Zenon DEF SInv, Sizes
    <3>2. ~(store.journal_size + 1 > MaxJournalFrames)
      BY <1>1, Zenon DEF JournalFull
    <3> QED
      BY <3>1, <3>2, JobFacts, StoreAssumption
  <2>2. /\ JournalFileSize(journal') <= MaxJournalFrames
        /\ JournalFileSize(journal') <= store.journal_size + 1
    <3>1. /\ JournalFileSize(journal) \in Nat /\ store.journal_size \in Nat
          /\ MaxJournalFrames \in Nat
      BY JobFacts, StoreAssumption, Zenon
    <3>2. ASSUME NEW x \in Nat, NEW y \in Nat, NEW z \in Nat, NEW m \in Nat,
                 y <= x + 1, x <= z + 0, z + 1 <= m
          PROVE  y <= m /\ y <= z + 1
      BY <3>2
    <3> QED
      BY <1>10, <2>1, <3>1, <3>2, Zenon
  <2> QED
    BY <1>1, <2>2, Zenon DEF Sizes
<1> QED
    BY <1>8, <1>11, <1>12, <1>13, <1>14, Zenon DEF SInv

LEMMA OpenStep == ASSUME SInv, StoreTypes', Open PROVE SInv'
<1> DEFINE w == WholeFrames(journal)
<1>1. /\ journal \in Seq(Frame) /\ InOrder(journal) /\ Agree(snapshot, journal)
      /\ snapshot \in Optional(State)
    BY Zenon DEF SInv, StoreTypes, Recorded
<1>2. /\ pc = "down" /\ boot' \notin ImportBoots /\ snapshot' = snapshot
      /\ UNCHANGED <<job, writes, acked>> /\ job = {}
      /\ \/ pc' = "down"
         \/ /\ pc' = "idle"
            /\ held' = IF Recovered(snapshot, journal) = {} THEN 0
                       ELSE (CHOOSE s \in Recovered(snapshot, journal) : TRUE).generation
    BY Zenon DEF Open, OpenDisk, SInv, Jobs
<1>3. pc' = "idle" => store'.journal_size = JournalFileSize(journal')
    BY <1>2 DEF Open, bind
<1>4. journal' = IF w # Len(journal) THEN SubSeq(journal, 1, w) ELSE journal
  <2>1. ~JournalOversized
    BY JobFacts, StoreAssumption DEF SInv, Sizes, JournalOversized
  <2>2. /\ scan_journal(journal).valid_frames = w
        /\ scan_journal(journal).stopped <=> w # Len(journal)
    BY <1>1, ScanInOrder, Zenon
  <2>3. journal' = IF scan_journal(journal).stopped /\ ~JournalOversized
                   THEN SubSeq(journal, 1, scan_journal(journal).valid_frames) ELSE journal
    BY Zenon DEF Open, OpenDisk
  <2> QED
    BY <2>1, <2>2, <2>3, Zenon
<1>5. /\ journal' \in Seq(Frame) /\ InOrder(journal') /\ Len(journal') = w
      /\ Len(journal') <= Len(journal) /\ WholeFrames(journal') = w
      /\ \A i \in 1 .. w : journal'[i] = journal[i] /\ journal[i].whole
      /\ JournalFileSize(journal') <= JournalFileSize(journal)
  <2>1. CASE w # Len(journal)
    BY <1>1, <1>4, <2>1, CutFacts, Zenon
  <2>2. CASE w = Len(journal)
    <3>1. Len(journal) <= Len(journal) /\ JournalFileSize(journal) <= JournalFileSize(journal)
      BY JobFacts
    <3> QED
      BY <1>1, <1>4, <2>2, <3>1, WholeFramesFacts, Zenon
  <2> QED
    BY <2>1, <2>2, Zenon
<1>6. w \in Nat /\ w \in 0 .. Len(journal) /\ \A i \in 1 .. w : i \in 1 .. Len(journal)
  <2>1. w \in Nat /\ w \in 0 .. Len(journal) /\ Len(journal) \in Nat
    BY <1>1, JobFacts, WholeFramesFacts, Zenon
  <2> QED
    BY <2>1
<1>7. w # 0 => w \in 1 .. w
    BY <1>6
<1> HIDE DEF w
<1>8. Jobs'
    BY <1>2, Zenon DEF SInv, Jobs
<1>9. Recorded'
  <2>1. Agree(snapshot', journal')
    BY <1>1, <1>2, <1>5, <1>6, Zenon DEF Agree
  <2>2. pc' = "idle" => /\ \A i \in 1 .. w : journal[i].generation <= held'
                        /\ \A s \in snapshot : s.generation <= held'
    BY <1>1, <1>2, RecoveredNewest, Zenon DEF w
  <2>3. \A i \in 1 .. Len(journal') : /\ journal'[i].payload.write <= writes'
                                      /\ journal'[i].whole
    BY <1>2, <1>5, <1>6, Zenon DEF SInv, Recorded
  <2>4. Opened' => pc' = "idle"
    BY <1>2, Zenon DEF Opened
  <2>5. pc' # "append" /\ pc' # "written"
    BY <1>2, Zenon
  <2> QED
    BY <1>2, <1>5, <2>1, <2>2, <2>3, <2>4, <2>5, Zenon DEF Recorded
<1>10. Covered'
  <2>1. pc # "written" /\ pc' # "written"
    BY <1>2, Zenon
  <2> QED
    BY <1>2, <1>5, <1>7, <2>1, Zenon DEF SInv, Covered, Settled, Covers, w
<1>11. Sizes'
  <2>1. /\ JournalFileSize(journal') \in Nat /\ JournalFileSize(journal) \in Nat
        /\ MaxJournalFrames \in Nat /\ JournalFileSize(journal) <= MaxJournalFrames
    <3>1. MaxJournalFrames \in Nat
      BY StoreAssumption, Zenon
    <3> QED
      BY <1>5, <3>1, JobFacts, FileSizeTypes, Zenon DEF SInv, Sizes
  <2>2. ASSUME NEW x \in Nat, NEW y \in Nat, NEW m \in Nat, y <= x, x <= m
        PROVE  y <= m /\ y <= y + 0
    BY <2>2
  <2> QED
    BY <1>2, <1>3, <1>5, <2>1, <2>2, Zenon DEF Sizes
<1> QED
    BY <1>8, <1>9, <1>10, <1>11, Zenon DEF SInv

\* Every commit starts from a Store object that is not behind the journal.
InSequence == Commit => \A i \in 1 .. Len(journal) : journal[i].sequence <= store.sequence
CommitsInSequence == [][InSequence]_vars

\* The failures after which the journal is still in order: writing the temporary
\* file and truncating the journal.
HarmlessFailures == Failures \subseteq {"temp", "truncate"}

LEMMA NextSInv ==
    ASSUME HarmlessFailures, SInv, StoreTypes', [Next]_vars, [InSequence]_vars
    PROVE  SInv'
<1>1. CASE Open
    BY <1>1, OpenStep, Zenon
<1>2. CASE Commit \/ Compact
  <2>1. /\ pc = "idle" /\ boot' = boot /\ boot \notin ImportBoots /\ store' = store
        /\ UNCHANGED <<snapshot, journal, acked>> /\ writes' = writes + 1
    BY <1>2, Zenon DEF Commit, Compact, Begin, diskVars
  <2>2. held + 1 \in Nat /\ writes' # writes
    BY <2>1, JobFacts
  <2>3. JournalFileSize(journal') <= store'.journal_size
    <3>1. JournalFileSize(journal) <= store.journal_size + 0 /\ store.journal_size \in Nat
      BY <2>1, JobFacts, Zenon DEF SInv, Sizes
    <3>2. JournalFileSize(journal) <= store.journal_size
      BY <3>1
    <3> QED
      BY <2>1, <3>2, Zenon
  <2>4. CASE Commit
    <3>1. Begin(held + 1, "append")
      BY <2>4, Zenon DEF Commit
    <3>2. \A i \in 1 .. Len(journal) : journal[i].sequence <= store'.sequence
      BY <2>1, <2>2, <2>4, Zenon DEF InSequence, vars
    <3> QED
      BY <2>1, <2>2, <2>3, <3>1, <3>2, BeginStep, Zenon
  <2>5. CASE Compact
    <3>1. Begin(held + 1, "snapshot")
      BY <2>5, Zenon DEF Compact
    <3> QED
      BY <2>1, <2>2, <2>3, <3>1, BeginStep, Zenon
  <2> QED
    BY <1>2, <2>4, <2>5, Zenon
<1>3. CASE Import
  <2>1. PICK g \in Imports : Begin(g, "snapshot")
    BY <1>3, Zenon DEF Import
  <2>2. g \in Nat
    BY StoreAssumption, Zenon
  <2>3. /\ pc = "down" /\ boot' \in ImportBoots /\ UNCHANGED <<snapshot, journal, acked>>
        /\ store' = [sequence |-> 0, entry_count |-> 0, journal_size |-> JournalFileSize(journal')]
    BY <1>3, Zenon DEF Import, diskVars, bind
  <2>4. JournalFileSize(journal') <= store'.journal_size
    <3>1. store'.journal_size = JournalFileSize(journal')
      BY <2>3, Zenon
    <3>2. JournalFileSize(journal') \in Nat
      BY <2>3, JobFacts, Zenon
    <3> QED
      BY <3>1, <3>2
  <2> QED
    BY <2>1, <2>2, <2>3, <2>4, BeginStep, Zenon
<1>4. CASE CommitBig \/ AppendRefused \/ WriteTemp \/ WriteTempFails \/ TruncateFails
  <2>1. /\ UNCHANGED <<snapshot, journal, boot, store, held, writes, acked>>
        /\ job' \in {job, {}} /\ pc \in {"append", "snapshot", "truncate"}
        /\ \/ pc' \in {"snapshot", "rename"} /\ job' = job
           \/ pc' = "idle" /\ job' = {}
    BY <1>4, Zenon DEF CommitBig, AppendRefused, WriteTemp, WriteTempFails, TruncateFails, Fail,
       Return, diskVars
  <2>2. job # {}
    BY <2>1, Zenon DEF SInv, Jobs
  <2> QED
    BY <2>1, <2>2, QuietStep, Zenon
<1>5. CASE Append_
    BY <1>5, AppendStep, Zenon
<1>6. CASE AppendFails \/ SyncFails \/ RenameFails \/ RenameFailsAgain
    BY <1>6 DEF AppendFails, SyncFails, RenameFails, RenameFailsAgain, Fail, HarmlessFailures
<1>7. CASE Sync
    BY <1>7, SyncStep, Zenon
<1>8. CASE Rename
    BY <1>8, RenameStep, Zenon
<1>9. CASE Truncate
    BY <1>9, TruncateStep, Zenon
<1>10. CASE Exit
    BY <1>10, ExitStep, Zenon
<1>11. CASE UNCHANGED vars
  <2>1. UNCHANGED <<snapshot, journal, boot, pc, store, held, job, writes, acked>>
    BY <1>11, Zenon DEF vars, diskVars
  <2> QED
    BY <2>1, Zenon DEF SInv, Jobs, Recorded, Opened, Covered, Settled, Sizes
<1> QED
    BY <1>1, <1>2, <1>3, <1>4, <1>5, <1>6, <1>7, <1>8, <1>9, <1>10, <1>11, Zenon DEF Next

LEMMA InitSInv == ASSUME Init PROVE SInv
<1>1. /\ snapshot = {} /\ journal = <<>> /\ pc = "down" /\ job = {} /\ acked = {}
    BY Zenon DEF Init
<1>2. StoreTypes
    BY InitTypes, Zenon
<1>3. \A i \in 1 .. Len(journal) : FALSE
    BY <1>1
<1>4. Jobs
    BY <1>1, Zenon DEF Jobs
<1>5. Recorded
    BY <1>1, <1>3, Zenon DEF Recorded, InOrder, Agree, Opened
<1>6. Covered
    BY <1>1, Zenon DEF Covered
<1>7. Sizes
  <2>1. 0 <= MaxJournalFrames
    BY StoreAssumption
  <2> QED
    BY <1>1, <2>1, SizeOfEmpty, Zenon DEF Sizes
<1> QED
    BY <1>2, <1>4, <1>5, <1>6, <1>7, Zenon DEF SInv

LEMMA SInvRecovers == ASSUME SInv PROVE AcknowledgedIsRecoverable /\ StoreStaysOpenable
<1>1. ASSUME NEW a \in acked, NEW q \in AfterCrash
      PROVE  \E s \in Recovered(snapshot, q) : s.write >= a.write
  <2>1. a \in State /\ snapshot \in Optional(State)
    BY JobFacts, Zenon DEF SInv, StoreTypes
  <2> QED
    BY <2>1, CrashCovers, RecoveredCovers, Zenon
<1>2. ~JournalOversized
    BY JobFacts, StoreAssumption DEF SInv, Sizes, JournalOversized
<1>3. acked # {} => \A q \in AfterCrash : Recovered(snapshot, q) # {}
    BY <1>1, Zenon
<1> QED
    BY <1>1, <1>2, <1>3, Zenon DEF AcknowledgedIsRecoverable, StoreStaysOpenable

LEMMA StoreInvariance ==
    ASSUME HarmlessFailures PROVE Spec /\ CommitsInSequence => []SInv
<1>1. StoreTypes /\ [Next]_vars => StoreTypes'
    BY NextTypes, Zenon
<1>2. SInv /\ StoreTypes' /\ [Next]_vars /\ [InSequence]_vars => SInv'
    BY NextSInv, Zenon
<1>3. SInv => StoreTypes
    BY Zenon DEF SInv
<1> QED
    BY <1>1, <1>2, <1>3, InitSInv, PTL DEF Spec, CommitsInSequence

\* persist.hpp: "A commit is acknowledged only after the frame is durably written."
\* As long as every commit starts from a Store object that is not behind the journal,
\* a crash at any step leaves a disk from which open returns the state acknowledged
\* last or a later one.
THEOREM AcknowledgedIsRecoverableHolds ==
    ASSUME HarmlessFailures PROVE Spec /\ CommitsInSequence => []AcknowledgedIsRecoverable
    BY StoreInvariance, SInvRecovers, PTL

\* README: a store is "never silently reset to empty".  Under the same condition no
\* crash leaves an acknowledged store that open refuses or takes for a new one.
THEOREM StoreStaysOpenableHolds ==
    ASSUME HarmlessFailures PROVE Spec /\ CommitsInSequence => []StoreStaysOpenable
    BY StoreInvariance, SInvRecovers, PTL

\* The Store object of the first process counts the frames of the journal.
FirstProcess ==
    /\ boot = 0 => journal = <<>> /\ pc = "down"
    /\ boot = 1 /\ Opened =>
          \A i \in 1 .. Len(journal) :
             journal[i].sequence <= store.sequence + (IF pc = "written" THEN 1 ELSE 0)

LEMMA NextFirstProcess ==
    ASSUME HarmlessFailures, StoreTypes, FirstProcess, [Next]_vars
    PROVE  FirstProcess'
<1>1. boot \in Nat /\ journal \in Seq(Frame) /\ store \in StoreObject
    BY Zenon DEF StoreTypes
<1>2. \A i \in 1 .. Len(<<>>) : FALSE
    OBVIOUS
<1>3. CASE Open
  <2>1. boot' = boot + 1 /\ journal' \in {journal, SubSeq(journal, 1, scan_journal(journal).valid_frames)}
    BY <1>3, Zenon DEF Open, OpenDisk
  <2>2. CASE boot = 0
    <3>1. journal = <<>>
      BY <2>2, Zenon DEF FirstProcess
    <3>2. scan_journal(journal).valid_frames = 0
      <4>1. scan_journal(journal).valid_frames \in 0 .. Len(journal)
        BY <1>1, CutKeepsLast, Zenon
      <4> QED
        BY <3>1, <4>1
    <3>3. SubSeq(journal, 1, 0) = <<>>
      OBVIOUS
    <3>4. journal' = <<>> /\ boot' # 0
      BY <2>1, <2>2, <3>1, <3>2, <3>3
    <3> QED
      BY <1>2, <3>4, Zenon DEF FirstProcess
  <2>3. CASE boot # 0
    <3>1. boot' # 0 /\ boot' # 1
      BY <1>1, <2>1, <2>3
    <3> QED
      BY <3>1, Zenon DEF FirstProcess
  <2> QED
    BY <2>2, <2>3, Zenon
<1>4. CASE Import
  <2>1. boot' # 0 /\ boot' \in ImportBoots
    BY <1>1, <1>4 DEF Import
  <2> QED
    BY <2>1, Zenon DEF FirstProcess, Opened
<1>5. CASE Append_
  <2>1. /\ pc = "append" /\ pc' = "written" /\ UNCHANGED <<boot, store>>
        /\ \E s \in job : journal' = Append(journal, FrameOf(s, TRUE, 1))
    BY <1>5, Zenon DEF Append_
  <2>2. PICK f : journal' = Append(journal, f) /\ f.sequence = store.sequence + 1
    <3>1. \A s \in job : FrameOf(s, TRUE, 1).sequence = store.sequence + 1
      BY Zenon DEF FrameOf
    <3> QED
      BY <2>1, <3>1, Zenon
  <2>3. store.sequence \in Nat /\ \A i \in 1 .. Len(journal) : journal[i].sequence \in Nat
    <3>1. \A i \in 1 .. Len(journal) : journal[i] \in Frame
      BY <1>1
    <3> QED
      BY <1>1, <3>1, Zenon DEF StoreObject, Frame
  <2>4. ASSUME boot' = 1, Opened', NEW i \in 1 .. Len(journal')
        PROVE  journal'[i].sequence <= store.sequence + 1
    <3>1. (i \in 1 .. Len(journal) /\ journal'[i] = journal[i]) \/ journal'[i] = f
      BY <1>1, <2>2, <2>4
    <3>2. i \in 1 .. Len(journal) => journal[i].sequence <= store.sequence + 0
      BY <2>1, <2>4, Zenon DEF FirstProcess, Opened
    <3> QED
      BY <2>2, <2>3, <3>1, <3>2
  <2>5. boot' # 0
    BY <2>1, Zenon DEF FirstProcess
  <2> QED
    BY <2>1, <2>4, <2>5, Zenon DEF FirstProcess
<1>6. CASE Sync
  <2>1. /\ pc = "written" /\ pc' # "written" /\ pc' # "down" /\ UNCHANGED <<boot, journal>>
        /\ store'.sequence = store.sequence + 1
    BY <1>6, Zenon DEF Sync, Acknowledge, Return, diskVars
  <2>2. store.sequence + 1 = store'.sequence + 0 /\ boot # 0
    BY <1>1, <2>1 DEF StoreObject, FirstProcess
  <2> QED
    BY <2>1, <2>2, Zenon DEF FirstProcess, Opened
<1>7. CASE Truncate
  <2>1. journal' = <<>> /\ boot' = boot /\ pc = "truncate"
    BY <1>7, Zenon DEF Truncate
  <2>2. boot # 0
    BY <2>1, Zenon DEF FirstProcess
  <2> QED
    BY <1>2, <2>1, <2>2, Zenon DEF FirstProcess
<1>8. CASE Exit
  <2>1. pc' = "down" /\ boot' = boot /\ pc # "down"
    BY <1>8, Zenon DEF Exit, Return
  <2> QED
    BY <2>1, Zenon DEF FirstProcess, Opened
<1>9. CASE AppendFails \/ SyncFails \/ RenameFails \/ RenameFailsAgain
    BY <1>9, Zenon DEF AppendFails, SyncFails, RenameFails, RenameFailsAgain, Fail, HarmlessFailures
<1>10. CASE Commit \/ Compact \/ CommitBig \/ AppendRefused \/ WriteTemp \/ WriteTempFails
            \/ Rename \/ TruncateFails \/ UNCHANGED vars
  <2>1. \/ /\ pc # "down" /\ pc # "written" /\ pc' # "written" /\ pc' # "down"
           /\ UNCHANGED <<boot, journal, store>>
        \/ UNCHANGED <<boot, journal, store, pc>>
    BY <1>10, Zenon DEF Commit, Compact, Begin, CommitBig, AppendRefused, WriteTemp, WriteTempFails,
       Rename, TruncateFails, Fail, Return, vars, diskVars
  <2> QED
    BY <2>1, Zenon DEF FirstProcess, Opened
<1> QED
    BY <1>3, <1>4, <1>5, <1>6, <1>7, <1>8, <1>9, <1>10, Zenon DEF Next

\* A store that one process commits to, and that later ones only compact or import
\* into, never loses an acknowledged state, wherever the processes die.
THEOREM OneWriterRecovers ==
    ASSUME HarmlessFailures, CommitBoots \subseteq {1}
    PROVE  Spec => []AcknowledgedIsRecoverable /\ []StoreStaysOpenable
<1>1. ASSUME StoreTypes, FirstProcess PROVE InSequence
  <2>1. SUFFICES ASSUME Commit PROVE \A i \in 1 .. Len(journal) : journal[i].sequence <= store.sequence
    BY Zenon DEF InSequence
  <2>2. boot = 1 /\ Opened /\ pc # "written"
    BY <2>1, Zenon DEF Commit, Opened
  <2>3. store.sequence + 0 = store.sequence
    BY <1>1 DEF StoreTypes, StoreObject
  <2> QED
    BY <1>1, <2>2, <2>3, Zenon DEF FirstProcess
<1>2. Init => StoreTypes /\ FirstProcess
  <2>1. Init => boot = 0 /\ boot # 1 /\ journal = <<>> /\ pc = "down"
    BY DEF Init
  <2> QED
    BY <2>1, InitTypes, Zenon DEF FirstProcess
<1>3. StoreTypes /\ FirstProcess /\ [Next]_vars => StoreTypes' /\ FirstProcess'
    BY NextTypes, NextFirstProcess, Zenon
<1>4. Spec => CommitsInSequence
    BY <1>1, <1>2, <1>3, PTL DEF Spec, CommitsInSequence
<1> QED
    BY <1>4, AcknowledgedIsRecoverableHolds, StoreStaysOpenableHolds, PTL

-----------------------------------------------------------------------------
(* The refinement of the register *)

\* The value that a snapshot and the last frame of a journal amount to.
Found(snap, last) ==
    IF last # {} /\ \A l \in last, s \in snap : l.generation >= s.generation THEN last ELSE snap

Possible == {Recovered(snapshot, frames) : frames \in AfterCrash}

\* What an operation writes is newer than the frames before it.
Newer ==
    pc \in {"append", "written", "snapshot", "rename"} =>
        \A i \in 1 .. Len(journal) :
            journal[i].generation < held \/ {journal[i].payload} = job

\* An imported document is of a later generation than the frames of the journal.
NewImport == Import => \A i \in 1 .. Len(journal) : journal[i].generation < held'
ImportsAreNewer == [][NewImport]_vars

LEMMA RecoveredFound ==
    ASSUME NEW q \in Seq(Frame), InOrder(q), NEW snap
    PROVE  Recovered(snap, q) = Found(snap, LastOf(q))
    BY ScanInOrder, Zenon DEF Recovered, Found

LEMMA PossibleUnlessWritten ==
    ASSUME SInv
    PROVE  pc # "written" => Possible = {Found(snapshot, LastOf(journal))}
<1>1. Recovered(snapshot, journal) = Found(snapshot, LastOf(journal))
    BY RecoveredFound, Zenon DEF SInv, StoreTypes, Recorded
<1>2. pc # "written" => AfterCrash = {journal}
    BY Zenon DEF AfterCrash
<1>3. pc # "written" => Possible = {Recovered(snapshot, journal)}
    BY <1>2, Zenon DEF Possible
<1> QED
    BY <1>1, <1>3, Zenon

LEMMA NextNewer ==
    ASSUME HarmlessFailures, SInv, Newer, [Next]_vars, [NewImport]_vars
    PROVE  Newer'
<1>1. CASE Open \/ AppendRefused \/ WriteTempFails \/ Rename \/ Truncate \/ TruncateFails \/ Exit
  <2>1. pc' \in {"down", "idle", "truncate"}
    BY <1>1, Zenon DEF Open, AppendRefused, WriteTempFails, Rename, Truncate, TruncateFails, Exit,
       Fail,
       Acknowledge, Return
  <2>2. pc' \notin {"append", "written", "snapshot", "rename"}
    BY <2>1, Zenon
  <2> QED
    BY <2>2, Zenon DEF Newer
<1>2. CASE Commit \/ Compact
  <2>1. pc = "idle" /\ boot \notin ImportBoots /\ held' = held + 1 /\ journal' = journal
    BY <1>2, Zenon DEF Commit, Compact, Begin, diskVars
  <2>2. Opened
    BY <2>1, Zenon DEF Opened
  <2>3. \A i \in 1 .. Len(journal) : journal[i].generation <= held
    BY <2>2, Zenon DEF SInv, Recorded
  <2>4. held \in Nat /\ \A i \in 1 .. Len(journal) : journal[i].generation \in Nat
    BY JobFacts, Zenon
  <2>5. \A x, h \in Nat : x <= h => x < h + 1
    OBVIOUS
  <2>6. \A i \in 1 .. Len(journal) : journal[i].generation < held'
    BY <2>1, <2>3, <2>4, <2>5, Zenon
  <2> QED
    BY <2>1, <2>6, Zenon DEF Newer
<1>3. CASE Import
  <2>1. journal' = journal /\ writes' = writes + 1
    BY <1>3, Zenon DEF Import, Begin, diskVars
  <2>2. writes' # writes
    BY <2>1, JobFacts
  <2>3. \A i \in 1 .. Len(journal) : journal[i].generation < held'
    BY <1>3, <2>2, Zenon DEF NewImport, vars
  <2> QED
    BY <2>1, <2>3, Zenon DEF Newer
<1>4. CASE CommitBig \/ Sync \/ WriteTemp
  <2>1. /\ pc \in {"append", "written", "snapshot"} /\ UNCHANGED <<journal, held>>
        /\ pc' = "idle" \/ job' = job
    BY <1>4, Zenon DEF CommitBig, Sync, WriteTemp, Acknowledge, Return, diskVars
  <2> QED
    BY <2>1, Zenon DEF Newer
<1>5. CASE Append_
  <2>1. /\ pc = "append" /\ UNCHANGED <<held, job>>
        /\ \E s \in job : journal' = Append(journal, FrameOf(s, TRUE, 1))
    BY <1>5, Zenon DEF Append_
  <2>2. PICK f : journal' = Append(journal, f) /\ {f.payload} = job
    <3>1. \A s \in job : FrameOf(s, TRUE, 1).payload = s /\ {s} = job
      BY JobFacts, Zenon DEF FrameOf
    <3> QED
      BY <2>1, <3>1, Zenon
  <2>3. \A i \in 1 .. Len(journal') : (i \in 1 .. Len(journal) /\ journal'[i] = journal[i])
                                      \/ journal'[i] = f
    BY <2>2, JobFacts
  <2> QED
    BY <2>1, <2>2, <2>3, Zenon DEF Newer
<1>6. CASE AppendFails \/ SyncFails \/ RenameFails \/ RenameFailsAgain
    BY <1>6, Zenon DEF AppendFails, SyncFails, RenameFails, RenameFailsAgain, Fail, HarmlessFailures
<1>7. CASE UNCHANGED vars
    BY <1>7, Zenon DEF vars, diskVars, Newer
<1> QED
    BY <1>1, <1>2, <1>3, <1>4, <1>5, <1>6, <1>7, Zenon DEF Next

\* A frame that has been written is found, unless it is not synchronised.
LEMMA WrittenFound ==
    ASSUME SInv, pc = "written"
    PROVE  Found(snapshot, LastOf(journal)) = job
<1>1. /\ Opened /\ {journal[Len(journal)].payload} = job
      /\ \A s \in job : s.generation = held
      /\ \A s \in snapshot : s.generation <= held
    BY Zenon DEF SInv, Jobs, Recorded
<1>2. Len(journal) # 0
    BY DEF SInv, StoreTypes
<1>3. LastOf(journal) = job /\ job # {}
    BY <1>1, <1>2, WrittenCovers, Zenon DEF LastOf
<1>4. \A l \in job, s \in snapshot : l.generation >= s.generation
    BY <1>1, JobFacts, Zenon
<1> QED
    BY <1>3, <1>4, Zenon DEF Found

LEMMA AppendPossible ==
    ASSUME SInv, SInv', Append_
    PROVE  Possible' = Possible \cup {job}
<1>1. /\ pc = "append" /\ pc' = "written" /\ snapshot' = snapshot /\ job' = job
      /\ \E s \in job : journal' = Append(journal, FrameOf(s, TRUE, 1))
    BY Zenon DEF Append_
<1>2. PICK s \in job : journal' = Append(journal, FrameOf(s, TRUE, 1))
    BY <1>1, Zenon
<1> DEFINE f == FrameOf(s, TRUE, 1)
           n == Len(journal)
           R == Found(snapshot, LastOf(journal))
<1>3. /\ s \in State /\ job = {s} /\ s.generation = held /\ s.generation \in Nat
      /\ \A r \in snapshot : r.generation <= held /\ r.generation \in Nat
      /\ \A i \in 1 .. n : journal[i].whole
      /\ journal \in Seq(Frame) /\ n \in Nat /\ InOrder(journal) /\ InOrder(journal')
    BY <1>1, JobFacts, Zenon DEF SInv, Jobs, Recorded
<1>4. f \in Frame /\ f.payload = s /\ f.whole
  <2>1. f \in Frame
    BY <1>3, FrameTypes, Zenon DEF SInv
  <2> QED
    BY <2>1, Zenon DEF FrameOf
<1>5. journal' = Append(journal, f)
    BY <1>2, Zenon
<1> HIDE DEF f
<1>6. /\ journal' \in Seq(Frame) /\ Len(journal') = n + 1 /\ journal'[n + 1] = f
      /\ SubSeq(journal', 1, (n + 1) - 1) = journal
      /\ \A i \in 1 .. n + 1 : (i \in 1 .. n /\ journal'[i] = journal[i]) \/ i = n + 1
      /\ n + 1 # 0 /\ (n + 1) - 1 = n /\ n + 1 \in 1 .. n + 1 /\ n + 1 <= n + 1
    BY <1>3, <1>4, <1>5
<1>7. WholeFrames(journal) = n
    BY <1>3, Zenon DEF WholeFrames
<1>8. Recovered(snapshot, journal) = R
    BY <1>3, RecoveredFound, Zenon
<1>9. Recovered(snapshot, journal') = job
  <2>1. WholeFrames(journal') = n + 1
    BY <1>3, <1>4, <1>6, Zenon DEF WholeFrames
  <2>2. LastOf(journal') = {s}
    BY <1>4, <1>6, <2>1, Zenon DEF LastOf
  <2>3. \A r \in snapshot : s.generation >= r.generation
    BY <1>3, Zenon
  <2>4. Found(snapshot, {s}) = {s}
    BY <2>3, Zenon DEF Found
  <2> QED
    BY <1>3, <1>6, <2>2, <2>4, RecoveredFound, Zenon
<1>10. ASSUME NEW k \in {0, 1}
       PROVE  Recovered(snapshot, Append(journal, [f EXCEPT !.whole = FALSE, !.size = k])) = R
  <2> DEFINE t == [f EXCEPT !.whole = FALSE, !.size = k]
             q == Append(journal, t)
  <2>1. /\ t \in Frame /\ ~t.whole /\ t.sequence = f.sequence /\ t.generation = f.generation
        /\ t.payload = f.payload
    BY <1>4, Zenon DEF Frame
  <2> HIDE DEF t
  <2>2. /\ q \in Seq(Frame) /\ Len(q) = n + 1 /\ q[n + 1] = t
        /\ \A i \in 1 .. n + 1 : (i \in 1 .. n /\ q[i] = journal[i]) \/ i = n + 1
        /\ n # 0 => q[n] = journal[n]
    BY <1>3, <2>1
  <2> HIDE DEF q
  <2>3. \A i \in 1 .. n + 1 : /\ q[i].sequence = journal'[i].sequence
                              /\ q[i].generation = journal'[i].generation
                              /\ q[i].payload = journal'[i].payload
                              /\ ~q[i].whole => i = n + 1
    BY <1>3, <1>6, <2>1, <2>2, Zenon
  <2>4. InOrder(q)
    BY <1>3, <1>6, <2>2, <2>3, InOrderPart, Zenon
  <2>5. WholeFrames(q) = n
    BY <1>6, <2>1, <2>2, Zenon DEF WholeFrames
  <2>6. LastOf(q) = LastOf(journal)
    BY <1>7, <2>2, <2>5, Zenon DEF LastOf
  <2> QED
    BY <2>2, <2>4, <2>6, RecoveredFound, Zenon DEF q, t
<1>11. AfterCrash' = {journal', journal} \cup
           {Append(journal, [f EXCEPT !.whole = FALSE, !.size = k]) : k \in {0, 1}}
    BY <1>1, <1>6, Zenon DEF AfterCrash
<1>12. /\ \A q \in AfterCrash' : Recovered(snapshot, q) \in {R, job}
       /\ journal \in AfterCrash' /\ journal' \in AfterCrash'
    BY <1>8, <1>9, <1>10, <1>11, Zenon
<1>13. Possible' = {R} \cup {job}
  <2> HIDE DEF R
  <2>1. PICK A : A = AfterCrash'
    BY Zenon
  <2>2. {Recovered(snapshot, q) : q \in A} = {R} \cup {job}
    BY <1>8, <1>9, <1>12, <2>1, Zenon
  <2> QED
    BY <1>1, <2>1, <2>2, Zenon DEF Possible
<1>14. Possible = {R}
    BY <1>1, PossibleUnlessWritten, Zenon
<1> QED
    BY <1>13, <1>14, Zenon

LEMMA PossibleNext ==
    SInv' => (pc # "written" => Possible = {Found(snapshot, LastOf(journal))})'
<1>1. SInv => (pc # "written" => Possible = {Found(snapshot, LastOf(journal))})
    BY PossibleUnlessWritten, Zenon
<1> QED
    BY <1>1, PTL

\* Every step of the files is a step of the register, or leaves it alone.
LEMMA RegisterStep ==
    ASSUME HarmlessFailures, SInv, SInv', Newer, [Next]_vars
    PROVE  [Register!Next]_(Register!vars)
<1> DEFINE R == Found(snapshot, LastOf(journal))
<1>1. /\ pc # "written" => Possible = {R}
      /\ pc' # "written" => Possible' = {Found(snapshot', LastOf(journal'))}
    BY PossibleUnlessWritten, PossibleNext, Zenon
<1>2. ASSUME pc # "written", pc' # "written", UNCHANGED <<snapshot, journal>>
      PROVE  Possible' = Possible
    BY <1>1, <1>2, Zenon
<1>3. pc \notin {"down", "idle"} => job # {}
    BY Zenon DEF SInv, Jobs
<1>4. CASE Open
  <2>1. /\ pc = "down" /\ pc' \in {"down", "idle"} /\ UNCHANGED <<snapshot, job, acked>>
        /\ journal' \in {journal, SubSeq(journal, 1, scan_journal(journal).valid_frames)}
    BY <1>4, Zenon DEF Open, OpenDisk
  <2>2. Recovered(snapshot, journal') = Recovered(snapshot, journal)
    <3>1. scan_journal(journal').last = scan_journal(journal).last
      BY <2>1, JobFacts, CutKeepsLast, Zenon
    <3> QED
      BY <3>1, Zenon DEF Recovered
  <2>3. Possible' = Possible
    <3>1. AfterCrash = {journal} /\ AfterCrash' = {journal'}
      BY <2>1, Zenon DEF AfterCrash
    <3>2. Possible = {Recovered(snapshot, journal)} /\ Possible' = {Recovered(snapshot', journal')}
      BY <3>1, Zenon DEF Possible
    <3> QED
      BY <2>1, <2>2, <3>2, Zenon
  <2> QED
    BY <2>1, <2>3, Zenon DEF Register!vars, Possible
<1>5. CASE Commit \/ Compact \/ Import
  <2>1. /\ pc \in {"down", "idle"} /\ pc' \in {"append", "snapshot"}
        /\ UNCHANGED <<snapshot, journal, acked>> /\ \E s : job' = {s}
    BY <1>5, Zenon DEF Commit, Compact, Import, Begin, diskVars
  <2>2. Possible' = Possible
    BY <1>2, <2>1, Zenon
  <2>3. job = {} /\ job' # {} /\ \A s, t \in job' : s = t
    BY <2>1, Zenon DEF SInv, Jobs
  <2> QED
    BY <2>1, <2>2, <2>3, Zenon DEF Register!Next, Register!Begin, Possible
<1>6. CASE CommitBig \/ WriteTemp
  <2>1. /\ pc \in {"append", "snapshot"} /\ pc' \in {"snapshot", "rename"}
        /\ UNCHANGED <<snapshot, journal, job, acked>>
    BY <1>6, Zenon DEF CommitBig, WriteTemp, diskVars
  <2>2. Possible' = Possible
    BY <1>2, <2>1, Zenon
  <2> QED
    BY <2>1, <2>2, Zenon DEF Register!vars, Possible
<1>7. CASE AppendRefused \/ WriteTempFails \/ TruncateFails
  <2>1. /\ pc \in {"append", "snapshot", "truncate"} /\ pc' = "idle"
        /\ UNCHANGED <<snapshot, journal, acked>> /\ job' = {}
    BY <1>7, Zenon DEF AppendRefused, WriteTempFails, TruncateFails, Fail, Return, diskVars
  <2>2. Possible' = Possible
    BY <1>2, <2>1, Zenon
  <2> QED
    BY <2>1, <2>2, Zenon DEF Register!Next, Register!Abandon, Possible
<1>8. CASE Append_
  <2>1. UNCHANGED <<job, acked>> /\ job # {}
    BY <1>3, <1>8, Zenon DEF Append_
  <2>2. Possible' = Possible \cup {job}
    BY <1>8, AppendPossible, Zenon
  <2> QED
    BY <2>1, <2>2, Zenon DEF Register!Next, Register!TakeEffect, Possible
<1>9. CASE Sync
  <2>1. /\ pc = "written" /\ pc' # "written" /\ UNCHANGED <<snapshot, journal>> /\ job # {}
        /\ \/ job' = job /\ acked' = acked
           \/ job' = {} /\ acked' = job
    BY <1>3, <1>9, Zenon DEF Sync, Acknowledge, Return, diskVars
  <2>2. Possible' = {job}
    BY <1>1, <2>1, WrittenFound, Zenon
  <2> QED
    BY <2>1, <2>2, Zenon DEF Register!Next, Register!TakeEffect, Register!Acknowledge, Possible
<1>10. CASE Rename
  <2>1. /\ pc = "rename" /\ pc' = "truncate" /\ snapshot' = job /\ job # {}
        /\ UNCHANGED <<journal, job, acked>>
    BY <1>3, <1>10, Zenon DEF Rename, SInv, Jobs
  <2>2. \A i \in 1 .. Len(journal) : journal[i].generation < held \/ {journal[i].payload} = job
    BY <2>1, Zenon DEF Newer
  <2>3. Found(job, LastOf(journal)) = job
    <3>1. CASE LastOf(journal) = {}
      BY <3>1, Zenon DEF Found
    <3>2. CASE LastOf(journal) # {}
      <4> DEFINE w == WholeFrames(journal)
      <4>1. w # 0 /\ LastOf(journal) = {journal[w].payload}
        BY <3>2, Zenon DEF LastOf
      <4>2. journal \in Seq(Frame) /\ InOrder(journal)
        BY Zenon DEF SInv, StoreTypes, Recorded
      <4>3. w \in 1 .. Len(journal)
        <5>1. w \in Nat /\ w \in 0 .. Len(journal)
          BY <4>2, WholeFramesFacts, Zenon
        <5> QED
          BY <4>1, <5>1
      <4> HIDE DEF w
      <4>4. journal[w].generation = journal[w].payload.generation
        BY <4>2, <4>3, Zenon DEF InOrder
      <4>5. CASE {journal[w].payload} = job
        BY <4>1, <4>5, Zenon DEF Found
      <4>6. CASE journal[w].generation < held
        <5>1. PICK s \in job : s.generation = held
          BY <2>1, Zenon DEF SInv, Jobs
        <5>2. ~(journal[w].payload.generation >= s.generation)
          BY <4>3, <4>4, <4>6, <5>1, JobFacts
        <5> QED
          BY <4>1, <5>1, <5>2, Zenon DEF Found
      <4> QED
        BY <2>2, <4>3, <4>5, <4>6, Zenon
    <3> QED
      BY <3>1, <3>2, Zenon
  <2>4. Possible' = {job}
    BY <1>1, <2>1, <2>3, Zenon
  <2> QED
    BY <2>1, <2>4, Zenon DEF Register!Next, Register!TakeEffect, Possible
<1>11. CASE Truncate
  <2>1. /\ pc' = "idle" /\ snapshot' = job /\ job # {} /\ journal' = <<>>
        /\ job' = {} /\ acked' = job
    BY <1>3, <1>11, Zenon DEF Truncate, Acknowledge, Return, SInv, Jobs
  <2>2. LastOf(journal') = {}
    BY <2>1 DEF LastOf, WholeFrames
  <2>3. Possible' = {job}
    BY <1>1, <2>1, <2>2, Zenon DEF Found
  <2> QED
    BY <2>1, <2>3, Zenon DEF Register!Next, Register!Acknowledge, Possible
<1>12. CASE Exit
  <2>1. /\ pc' = "down" /\ journal' \in AfterCrash /\ job' = {} /\ UNCHANGED <<snapshot, acked>>
    BY <1>12, Zenon DEF Exit, Return
  <2>2. AfterCrash' = {journal'}
    BY <2>1, Zenon DEF AfterCrash
  <2>3. Possible' = {Recovered(snapshot, journal')} /\ Recovered(snapshot, journal') \in Possible
    BY <2>1, <2>2, Zenon DEF Possible
  <2> QED
    BY <2>1, <2>3, Zenon DEF Register!Next, Register!Restart, Possible
<1>13. CASE AppendFails \/ SyncFails \/ RenameFails \/ RenameFailsAgain
    BY <1>13, Zenon DEF AppendFails, SyncFails, RenameFails, RenameFailsAgain, Fail,
       HarmlessFailures
<1>14. CASE UNCHANGED vars
    BY <1>14 DEF vars, diskVars, Register!vars, AfterCrash
<1> QED
    BY <1>4, <1>5, <1>6, <1>7, <1>8, <1>9, <1>10, <1>11, <1>12, <1>13, <1>14, Zenon DEF Next

\* The files of the store implement the register of DurableRegister: what a restart may
\* find changes only as the register allows, if commits are in sequence and imports
\* are newer than the journal.
THEOREM RefinesRegisterHolds ==
    ASSUME HarmlessFailures
    PROVE  Spec /\ CommitsInSequence /\ ImportsAreNewer => RefinesRegister
<1>1. ASSUME Init PROVE Register!Init /\ Newer
  <2>1. snapshot = {} /\ journal = <<>> /\ pc = "down" /\ job = {} /\ acked = {}
    BY <1>1, Zenon DEF Init
  <2>2. LastOf(journal) = {}
    BY <2>1 DEF LastOf, WholeFrames
  <2>3. SInv
    BY <1>1, InitSInv, Zenon
  <2>4. Possible = {{}}
    BY <2>1, <2>2, <2>3, PossibleUnlessWritten, Zenon DEF Found
  <2>5. Newer
    BY <2>1, Zenon DEF Newer
  <2> QED
    BY <2>1, <2>4, <2>5, Zenon DEF Register!Init, Possible
<1>2. SInv /\ Newer /\ [Next]_vars /\ [NewImport]_vars => Newer'
    BY NextNewer, Zenon
<1>3. SInv /\ SInv' /\ Newer /\ [Next]_vars => [Register!Next]_(Register!vars)
    BY RegisterStep, Zenon
<1> QED
    BY <1>1, <1>2, <1>3, StoreInvariance, PTL
       DEF Spec, CommitsInSequence, ImportsAreNewer, RefinesRegister, Register!Spec

-----------------------------------------------------------------------------
(* Units *)

\* The word holds exactly the values 0 .. UintMax.
LEMMA WordFacts ==
    /\ IntMax \in Nat /\ IntMax > 0 /\ UintMax \in Nat
    /\ Word \in Nat /\ Word = 2 * (IntMax + 1) /\ Word = UintMax + 1 /\ Word > 0
BY UnitAssumption DEF UintMax, Word

\* Division with remainder of naturals.
LEMMA DivMod ==
    ASSUME NEW n \in Nat, NEW d \in Nat, d > 0
    PROVE  /\ n \div d \in Nat /\ n % d \in Nat /\ n % d < d
           /\ n = d * (n \div d) + (n % d)
OBVIOUS

\* Multiplying by a natural keeps the order.
LEMMA TimesMonotone ==
    ASSUME NEW a \in Nat, NEW b \in Nat, NEW c \in Nat, a <= b
    PROVE  c * a <= c * b /\ c * a \in Nat /\ c * b \in Nat
BY SMT

\* A number below w * b has a quotient by w below b.
LEMMA QuotientBound ==
    ASSUME NEW n \in Nat, NEW w \in Nat, w > 0, NEW b \in Nat, n < w * b
    PROVE  n \div w < b
<1>1. /\ n \div w \in Nat /\ n % w \in Nat
      /\ n = w * (n \div w) + (n % w)
  BY DivMod, Zenon
<1> SUFFICES ASSUME b <= n \div w PROVE FALSE
  BY <1>1
<1>2. w * b <= w * (n \div w) /\ w * b \in Nat /\ w * (n \div w) \in Nat
  BY <1>1, TimesMonotone, Zenon
<1> QED
  BY <1>1, <1>2

\* mul_u64 loses nothing: the two words it returns are words and stand for the
\* product.
LEMMA Product ==
    ASSUME NEW a \in Uint64, NEW b \in Uint64
    PROVE  /\ mul_u64(a, b) \in U128
           /\ NumberOf(mul_u64(a, b)) = a * b
<1>1. a \in Nat /\ b \in Nat /\ a <= UintMax /\ b <= UintMax
  BY WordFacts DEF Uint64
<1> DEFINE n == a * b
<1>2. n \in Nat
  BY <1>1
<1>3. n <= a * UintMax /\ a * UintMax \in Nat
  BY <1>1, TimesMonotone, WordFacts, Zenon
<1>4. UintMax * a <= UintMax * UintMax
  BY <1>1, TimesMonotone, WordFacts, Zenon
<1>5. UintMax * UintMax < Word * Word
  BY WordFacts
<1>6. a * UintMax = UintMax * a
  BY <1>1, WordFacts
<1>7. n < Word * Word
  BY <1>2, <1>3, <1>4, <1>5, <1>6, <1>1, WordFacts
<1> HIDE DEF n
<1>8. /\ n \div Word \in Nat /\ n % Word \in Nat /\ n % Word < Word
      /\ n = Word * (n \div Word) + (n % Word)
  BY <1>2, WordFacts, DivMod, Zenon
<1>9. n \div Word < Word
  BY <1>2, <1>7, WordFacts, QuotientBound, Zenon
<1>10. mul_u64(a, b) = [hi |-> n \div Word, lo |-> n % Word]
  BY Zenon DEF mul_u64, n
<1>11. n \div Word \in Uint64 /\ n % Word \in Uint64
  BY <1>8, <1>9, WordFacts DEF Uint64
<1>12. (n \div Word) * Word + (n % Word) = n
  BY <1>8, <1>2, WordFacts
<1> QED
  BY <1>10, <1>11, <1>12 DEF NumberOf, U128, n

\* Quotient and remainder are unique; an exact multiple leaves no remainder.
LEMMA DivisionUnique ==
    ASSUME NEW t \in Nat, t > 0, NEW q \in Nat, NEW k \in Nat, NEW r \in Nat, r < t,
           t * q = t * k + r
    PROVE  q = k /\ r = 0
<1>1. ~ (q < k)
  <2> SUFFICES ASSUME q + 1 <= k PROVE FALSE
    OBVIOUS
  <2>1. t * (q + 1) <= t * k /\ t * (q + 1) \in Nat /\ t * k \in Nat
    BY TimesMonotone
  <2>2. t * (q + 1) = t * q + t
    OBVIOUS
  <2> QED
    BY <2>1, <2>2
<1>2. ~ (k < q)
  <2> SUFFICES ASSUME k + 1 <= q PROVE FALSE
    OBVIOUS
  <2>1. t * (k + 1) <= t * q /\ t * q \in Nat
    BY TimesMonotone
  <2>2. t * (k + 1) = t * k + t /\ t * k \in Nat
    OBVIOUS
  <2> QED
    BY <2>1, <2>2
<1> QED
  BY <1>1, <1>2

\* div_u128_exact of a product finds the word that multiplies back to it, and
\* nothing when there is none: neither a remainder nor a quotient too wide for a
\* word gets through.
LEMMA QuotientExact ==
    ASSUME NEW a \in Uint64, NEW f \in Uint64, NEW t \in 1 .. UintMax
    PROVE  div_u128_exact(mul_u64(a, f), t) = {q \in Uint64 : q * t = a * f}
<1> DEFINE n == a * f
           v == mul_u64(a, f)
<1>1. n \in Nat /\ t \in Nat /\ t > 0 /\ t <= UintMax
  BY WordFacts DEF Uint64
<1>2. v \in U128 /\ NumberOf(v) = n
  BY Product, Zenon
<1>3. v.hi \in Nat /\ v.lo \in Nat /\ v.lo < Word /\ n = v.hi * Word + v.lo /\ v.hi = n \div Word
  BY <1>2, WordFacts DEF U128, Uint64, NumberOf, mul_u64
<1>4. div_u128_exact(v, t) = IF v.hi >= t \/ n % t # 0 THEN {} ELSE {n \div t}
  BY <1>1, <1>2 DEF div_u128_exact
<1> HIDE DEF n, v
<1>5. ASSUME v.hi < t, n % t = 0 PROVE n \div t \in Uint64 /\ (n \div t) * t = n
  <2>1. v.hi + 1 <= t
    BY <1>5, <1>3, <1>1
  <2>2. Word * (v.hi + 1) <= Word * t /\ Word * t \in Nat
    BY <2>1, <1>3, <1>1, WordFacts, TimesMonotone
  <2>3. n < Word * t
    BY <2>2, <1>3, <1>1, WordFacts
  <2>4. Word * t = t * Word
    BY <1>1, WordFacts
  <2>5. n \div t < Word
    BY <2>3, <2>4, <1>1, WordFacts, QuotientBound, Zenon
  <2>6. n \div t \in Nat /\ n = t * (n \div t) + (n % t)
    BY <1>1, DivMod, Zenon
  <2>7. (n \div t) * t = n
    BY <2>6, <1>5, <1>1
  <2> QED
    BY <2>5, <2>6, <2>7, WordFacts DEF Uint64
<1>6. ASSUME NEW q \in Uint64, q * t = n PROVE v.hi < t /\ n % t = 0 /\ n \div t = q
  <2>1. q \in Nat /\ q + 1 <= Word
    BY WordFacts DEF Uint64
  <2>2. t * (q + 1) <= t * Word /\ t * (q + 1) \in Nat /\ t * Word \in Nat
    BY <2>1, <1>1, WordFacts, TimesMonotone
  <2>3. n < t * Word /\ t * Word = Word * t
    BY <1>6, <2>1, <2>2, <1>1, WordFacts
  <2>4. v.hi < t
    BY <2>3, <1>1, <1>3, WordFacts, QuotientBound, Zenon
  <2>5. n \div t \in Nat /\ n % t \in Nat /\ n % t < t /\ n = t * (n \div t) + (n % t)
    BY <1>1, DivMod, Zenon
  <2>6. t * q = t * (n \div t) + (n % t)
    BY <2>5, <1>6, <2>1, <1>1
  <2>7. q = n \div t /\ n % t = 0
    BY <2>1, <2>5, <2>6, <1>1, DivisionUnique, Zenon
  <2> QED
    BY <2>4, <2>7, Zenon
<1>7. n % t \in Nat
  BY <1>1, DivMod, Zenon
<1>8. CASE v.hi < t /\ n % t = 0
  <2>1. div_u128_exact(v, t) = {n \div t}
    BY <1>4, <1>8, <1>3, <1>1
  <2> QED
    BY <1>5, <1>6, <1>8, <2>1, Zenon DEF n, v
<1>9. CASE ~(v.hi < t /\ n % t = 0)
  <2>1. div_u128_exact(v, t) = {}
    BY <1>4, <1>9, <1>3, <1>1
  <2> QED
    BY <1>6, <1>9, <2>1, Zenon DEF n, v
<1> QED
  BY <1>8, <1>9, Zenon

\* convert_exact never rounds, never wraps and never refuses a value it could
\* convert: what it returns are the 64-bit integers, at most one, that count the
\* same quantity, the most negative value included.
THEOREM ConversionIsExact ==
    ASSUME NEW value \in Int64, NEW f \in 1 .. UintMax, NEW t \in 1 .. UintMax
    PROVE  scaled(value, f, t) = ExactlyConverted(value, f, t)
<1>1. /\ value \in Int /\ value >= -IntMax - 1 /\ value <= IntMax
      /\ f \in Nat /\ t \in Nat /\ t > 0 /\ f > 0 /\ f \in Uint64
  BY WordFacts DEF Int64, Uint64
<1>2. CASE value >= 0
  <2>1. value \in Uint64
    BY <1>1, <1>2, WordFacts DEF Uint64
  <2>2. div_u128_exact(mul_u64(value, f), t) = {q \in Uint64 : q * t = value * f}
    BY <1>1, <2>1, QuotientExact, Zenon
  <2>3. scaled(value, f, t) = {q \in {q \in Uint64 : q * t = value * f} : q <= IntMax}
    BY <1>1, <1>2, <2>2 DEF scaled
  <2>4. ASSUME NEW q \in Int64, q * t = value * f PROVE q >= 0
    <3> SUFFICES ASSUME q < 0 PROVE FALSE
      BY <2>4 DEF Int64
    <3>1. q \in Int /\ -q \in Nat /\ -q >= 1
      BY WordFacts DEF Int64
    <3>2. t * 1 <= t * (-q)
      BY <3>1, <1>1, TimesMonotone, Zenon
    <3>3. q * t = -(t * (-q))
      BY <3>1, <1>1
    <3>4. value * f >= 0
      BY <1>1, <1>2
    <3> QED
      BY <2>4, <3>1, <3>2, <3>3, <3>4, <1>1
  <2>5. \A q : q \in Uint64 /\ q <= IntMax <=> q \in Int64 /\ q >= 0
    BY WordFacts DEF Uint64, Int64
  <2> QED
    BY <2>3, <2>4, <2>5, Zenon DEF ExactlyConverted
<1>3. CASE value < 0
  <2> DEFINE m == -(value + 1) + 1
  <2>1. m \in Uint64 /\ m = -value /\ m >= 1
    BY <1>1, <1>3, WordFacts DEF Uint64
  <2>2. div_u128_exact(mul_u64(m, f), t) = {q \in Uint64 : q * t = m * f}
    BY <1>1, <2>1, QuotientExact
  <2>3. scaled(value, f, t) =
          {-q : q \in {q \in {q \in Uint64 : q * t = m * f} : q <= IntMax \/ q = IntMax + 1}}
    BY <1>1, <1>3, <2>2, Zenon DEF scaled
  <2>4. m * f = -(value * f)
    BY <1>1, <2>1
  <2>5. ASSUME NEW q \in Int64, q * t = value * f
        PROVE  -q \in Uint64 /\ (-q) * t = m * f /\ (-q <= IntMax \/ -q = IntMax + 1)
    <3>1. q \in Int /\ q >= -IntMax - 1
      BY WordFacts DEF Int64
    <3>2. (-q) * t = m * f
      BY <3>1, <1>1, <2>4, <2>5
    <3>3. ~ (q > 0)
      <4> SUFFICES ASSUME q >= 1 PROVE FALSE
        BY <3>1
      <4>1. q * t >= 1
        BY <1>1, <3>1
      <4>2. m * f >= 1
        BY <1>1, <2>1
      <4> QED
        BY <4>1, <4>2, <2>4, <2>5, <1>1, <3>1
    <3> QED
      BY <3>1, <3>2, <3>3, WordFacts DEF Uint64
  <2>6. ASSUME NEW q \in Uint64, q * t = m * f, q <= IntMax \/ q = IntMax + 1
        PROVE  -q \in Int64 /\ (-q) * t = value * f
    BY <1>1, <2>4, <2>6, WordFacts DEF Uint64, Int64
  <2> HIDE DEF m
  <2>7. \A q \in Int64 : q \in Int /\ q = -(-q)
    BY WordFacts DEF Int64
  <2>8. \A q \in ExactlyConverted(value, f, t) : q \in scaled(value, f, t)
    BY <2>3, <2>5, <2>7, Zenon DEF ExactlyConverted
  <2>9. \A q \in scaled(value, f, t) : q \in ExactlyConverted(value, f, t)
    BY <2>3, <2>6 DEF ExactlyConverted
  <2> QED
    BY <2>8, <2>9, Zenon
<1> QED
  BY <1>1, <1>2, <1>3

\* Scaling both sides by a positive factor keeps their order.
LEMMA OrderScales ==
    ASSUME NEW a \in Int, NEW b \in Int, NEW t \in Nat, t > 0
    PROVE  Ordering(a, b) = Ordering(a * t, b * t)
<1>1. ASSUME NEW x \in Int, NEW y \in Int, x < y PROVE x * t < y * t
  <2>1. y - x \in Nat /\ 1 <= y - x
    BY <1>1
  <2>2. t * 1 <= t * (y - x)
    BY <2>1, TimesMonotone, Zenon
  <2>3. t * (y - x) = y * t - x * t /\ x * t \in Int /\ y * t \in Int
    BY <1>1
  <2> QED
    BY <2>2, <2>3
<1>2. CASE a < b
  BY <1>1, <1>2, Zenon DEF Ordering
<1>3. CASE b < a
  <2>1. b * t < a * t /\ a * t \in Int /\ b * t \in Int
    BY <1>1, <1>3
  <2> QED
    BY <1>3, <2>1 DEF Ordering
<1>4. CASE a = b
  BY <1>4 DEF Ordering
<1> QED
  BY <1>2, <1>3, <1>4

\* compare_exact never guesses: whichever side it converts, an order it returns is
\* the order of the two quantities in base units.
THEOREM ComparisonNeverGuesses ==
    ASSUME NEW lhs \in Int64, NEW rhs \in Int64, NEW u, NEW w,
           NEW f \in 1 .. UintMax, NEW t \in 1 .. UintMax,
           factor_to_base(u) = {f}, factor_to_base(w) = {t}
    PROVE  ComparisonExact(lhs, u, rhs, w)
<1> SUFFICES compare_exact(lhs, u, rhs, w) \subseteq {Ordering(lhs * f, rhs * t)}
  BY Zenon DEF ComparisonExact
<1>1. lhs \in Int /\ rhs \in Int /\ f \in Nat /\ t \in Nat /\ t > 0 /\ f > 0
  BY WordFacts DEF Int64
<1>2. convert_exact(lhs, u, w) \subseteq ExactlyConverted(lhs, f, t)
  BY ConversionIsExact DEF convert_exact
<1>3. convert_exact(rhs, w, u) \subseteq ExactlyConverted(rhs, t, f)
  BY ConversionIsExact DEF convert_exact
<1>4. ASSUME NEW l \in convert_exact(lhs, u, w)
      PROVE  Ordering(l, rhs) = Ordering(lhs * f, rhs * t)
  <2>1. l \in Int /\ l * t = lhs * f
    BY <1>2, WordFacts DEF ExactlyConverted, Int64
  <2>2. Ordering(l, rhs) = Ordering(l * t, rhs * t)
    BY <2>1, <1>1, OrderScales, Zenon
  <2> QED
    BY <2>1, <2>2, Zenon
<1>5. ASSUME NEW r \in convert_exact(rhs, w, u)
      PROVE  Ordering(lhs, r) = Ordering(lhs * f, rhs * t)
  <2>1. r \in Int /\ r * f = rhs * t
    BY <1>3, WordFacts DEF ExactlyConverted, Int64
  <2>2. Ordering(lhs, r) = Ordering(lhs * f, r * f)
    BY <2>1, <1>1, OrderScales, Zenon
  <2> QED
    BY <2>1, <2>2, Zenon
<1>6. CASE u = w
  <2>1. f = t
    BY <1>6, Zenon
  <2>2. Ordering(lhs, rhs) = Ordering(lhs * f, rhs * t)
    BY <2>1, <1>1, OrderScales, Zenon
  <2> QED
    BY <1>6, <2>2, Zenon DEF compare_exact
<1>7. CASE u # w
  BY <1>4, <1>5, <1>7, Zenon DEF compare_exact
<1> QED
  BY <1>6, <1>7, Zenon

=============================================================================
