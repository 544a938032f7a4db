--------------------------- MODULE ConflictsProofs ---------------------------
(***************************************************************************)
(* The devices behind the stored evidence, and the conflict table derived  *)
(* from it.                                                                *)
(*                                                                         *)
(* Every piece of stored evidence can be attributed to an incarnation its  *)
(* device is known to have had.  The records alone do not carry the        *)
(* argument: a late delivery is stored without opening a stream.  What     *)
(* does is that the key of every open stream is attributed, that           *)
(* StreamAccounting keeps every record inside an open stream, and that no  *)
(* call takes an incarnation out of a history.                             *)
(*                                                                         *)
(* The conflict table is written for one group at a time, so its           *)
(* exactness rests on what the calls leave alone: an eviction changes the  *)
(* records at the highest authority of no group but the incoming one, and  *)
(* a refused admission has evicted nothing.                                *)
(***************************************************************************)
EXTENDS Snapshots, RetentionProofs

CurrentIsKnown ==
    \A d \in Device : Registered(d) =>
        incarnation_table[d].current \in incarnation_table[d].history

StreamsAttributed == \A k \in streams : Attributed(k)

AInv == CurrentIsKnown /\ StreamsAttributed

\* No incarnation a device was known by is forgotten.
HistoriesGrow ==
    \A d \in Device : incarnation_table[d].history \subseteq incarnation_table'[d].history

-----------------------------------------------------------------------------
(* The device table *)

LEMMA DevicesUnchanged ==
    ASSUME AInv, UNCHANGED incarnation_table
    PROVE  HistoriesGrow /\ CurrentIsKnown'
    BY Zenon DEF AInv, HistoriesGrow, CurrentIsKnown, Registered

\* A device whose entry gains incarnation i and keeps its current one, or turns
\* to i, stays well formed.
LEMMA EntryGains ==
    ASSUME AInv, DeviceTypes, NEW d \in Device, NEW i, NEW c,
           c = i \/ (Registered(d) /\ c = incarnation_table[d].current),
           incarnation_table' = [incarnation_table EXCEPT ![d] =
               [current |-> c, history |-> incarnation_table[d].history \cup {i}]]
    PROVE  HistoriesGrow /\ CurrentIsKnown' /\ i \in incarnation_table'[d].history
<1>1. incarnation_table'[d] =
          [current |-> c, history |-> incarnation_table[d].history \cup {i}]
    BY Zenon DEF DeviceTypes
<1>2. \A e \in Device \ {d} : incarnation_table'[e] = incarnation_table[e]
    BY Zenon DEF DeviceTypes
<1>3. HistoriesGrow
    BY <1>1, <1>2 DEF HistoriesGrow
<1>4. c \in incarnation_table[d].history \cup {i}
    BY Zenon DEF AInv, CurrentIsKnown
<1>5. CurrentIsKnown'
    BY <1>1, <1>2, <1>4 DEF AInv, CurrentIsKnown, Registered
<1> QED
    BY <1>1, <1>3, <1>5

LEMMA RegisterGains ==
    ASSUME AInv, DeviceTypes, NEW k \in EvidenceKey, RegisterDevice(k)
    PROVE  HistoriesGrow /\ CurrentIsKnown' /\ Attributed(k)'
<1> DEFINE c == IF incarnation_table[k.device].history = {} THEN k.incarnation
                ELSE incarnation_table[k.device].current
<1>1. k.device \in Device
    BY Zenon DEF EvidenceKey
<1>2. c = k.incarnation \/ (Registered(k.device) /\ c = incarnation_table[k.device].current)
    BY Zenon DEF Registered
<1>3. incarnation_table' = [incarnation_table EXCEPT ![k.device] =
          [current |-> c,
           history |-> incarnation_table[k.device].history \cup {k.incarnation}]]
    BY Zenon DEF RegisterDevice
<1> HIDE DEF c
<1> QED
    BY <1>1, <1>2, <1>3, EntryGains, Zenon DEF Attributed

-----------------------------------------------------------------------------
(* The invariant is inductive *)

\* While histories grow, the streams that were attributed stay attributed.
LEMMA StreamsStayAttributed ==
    ASSUME AInv, WorldTypes, HistoriesGrow, CurrentIsKnown',
           \A k \in streams' : k \in streams \/ Attributed(k)'
    PROVE  AInv'
<1>1. ASSUME NEW k \in streams PROVE k.device \in Device /\ Attributed(k)
    BY <1>1, Zenon DEF AInv, StreamsAttributed, WorldTypes, EvidenceKey
<1>2. ASSUME NEW k \in streams PROVE Attributed(k)'
    BY <1>1, <1>2, Zenon DEF HistoriesGrow, Attributed
<1> QED
    BY <1>2, Zenon DEF AInv, StreamsAttributed

LEMMA InitAInv == Init => AInv
<1> SUFFICES ASSUME Init PROVE AInv
    BY Zenon
<1>1. \A d \in Device : ~Registered(d)
    BY Zenon DEF Init, Registered
<1> QED
    BY <1>1, Zenon DEF Init, AInv, CurrentIsKnown, StreamsAttributed

LEMMA AdmitAInv == IInv /\ AInv /\ Admit => AInv'
<1> SUFFICES ASSUME IInv, AInv, Admit PROVE AInv'
    BY Zenon
<1>1. DeviceTypes /\ WorldTypes
    BY TypeParts, Zenon DEF IInv
<1>2. PICK q \in AdmissionRequest, now \in Ticks :
          \/ AdmitRefused(q, now) \/ AdmitBlocked(q, now) \/ AdmitDuplicate(q, now)
          \/ AdmitOutOfOrder(q, now) \/ AdmitStore(q, now)
    BY Zenon DEF Admit
<1>3. q.key \in EvidenceKey
    BY EvidenceTypes, Zenon DEF IInv
<1>4. CASE AdmitRefused(q, now)
    BY <1>1, <1>4, DevicesUnchanged, StreamsStayAttributed, Zenon
       DEF AdmitRefused, vars, deviceVars, worldVars
<1>5. CASE RegisterDevice(q.key) /\ UNCHANGED streams
    BY <1>1, <1>3, <1>5, RegisterGains, StreamsStayAttributed, Zenon
<1>6. CASE AdmitStore(q, now)
  <2>1. RegisterDevice(q.key) /\ streams' = streams \cup {q.key}
    BY <1>6, Zenon DEF AdmitStore
  <2> QED
    BY <1>1, <1>3, <2>1, RegisterGains, StreamsStayAttributed, Zenon
<1> QED
    BY <1>2, <1>4, <1>5, <1>6, Zenon DEF AdmitBlocked, AdmitDuplicate, AdmitOutOfOrder, worldVars

LEMMA DeviceStepAInv == IInv /\ AInv /\ DeviceStep => AInv'
<1> SUFFICES ASSUME IInv, AInv, DeviceStep PROVE AInv'
    BY Zenon
<1>1. DeviceTypes /\ WorldTypes
    BY TypeParts, Zenon DEF IInv
<1>2. UNCHANGED streams
    BY Zenon DEF DeviceStep, begin_device_incarnation, set_device_incarnation, worldVars
<1>3. PICK d \in Device : \E i : incarnation_table' = [incarnation_table EXCEPT ![d] =
          [current |-> i, history |-> incarnation_table[d].history \cup {i}]]
    BY <1>1, Zenon DEF DeviceStep, begin_device_incarnation, set_device_incarnation, DeviceTypes
<1>4. HistoriesGrow /\ CurrentIsKnown'
    BY <1>1, <1>3, EntryGains, Zenon
<1> QED
    BY <1>1, <1>2, <1>4, StreamsStayAttributed, Zenon

\* The other steps leave the device table alone and open no stream.
LEMMA OtherAInv ==
    ASSUME IInv, AInv, UNCHANGED incarnation_table, streams' \subseteq streams
    PROVE  AInv'
<1>1. WorldTypes
    BY TypeParts, Zenon DEF IInv
<1> QED
    BY <1>1, DevicesUnchanged, StreamsStayAttributed, Zenon

LEMMA NextAInv == IInv /\ AInv /\ [Next]_vars => AInv'
<1> SUFFICES ASSUME IInv, AInv, [Next]_vars PROVE AInv'
    BY Zenon
<1>1. CASE Admit
    BY <1>1, AdmitAInv, Zenon
<1>2. CASE BudgetStep
  <2>1. UNCHANGED incarnation_table /\ streams' \subseteq streams
    BY <1>2, Zenon DEF BudgetStep, AdmitEvict, AdmitRollback, AdmitAccept, deviceVars, worldVars
  <2> QED
    BY <2>1, OtherAInv, Zenon
<1>3. CASE Retirement
  <2>1. UNCHANGED incarnation_table /\ UNCHANGED streams
    BY <1>3, Zenon DEF Retirement, RetireIgnored, Retire, vars, deviceVars, worldVars
  <2> QED
    BY <2>1, OtherAInv, Zenon
<1>4. CASE DeviceStep
    BY <1>4, DeviceStepAInv, Zenon
<1>5. CASE SourceStep
  <2>1. UNCHANGED incarnation_table /\ UNCHANGED streams
    BY <1>5, Zenon DEF SourceStep, revoke_source, restore_source, set_source_authority,
       upsert_source_policy, SetSource, deviceVars, worldVars
  <2> QED
    BY <2>1, OtherAInv, Zenon
<1>6. CASE Resolution
  <2>1. UNCHANGED incarnation_table /\ UNCHANGED streams
    BY <1>6, Zenon DEF Resolution, resolve_conflict, deviceVars, worldVars
  <2> QED
    BY <2>1, OtherAInv, Zenon
<1>7. CASE ClockStep
  <2>1. {r.evidence.key : r \in records} \subseteq streams
    BY Zenon DEF IInv, WorldInv, StreamAccounting
  <2>2. UNCHANGED incarnation_table /\ streams' \subseteq streams
    BY <1>7, <2>1, Zenon DEF ClockStep, advance_epoch, set_logical_tick, set_limits, adopt_state,
       deviceVars, worldVars
  <2> QED
    BY <2>2, OtherAInv, Zenon
<1>8. CASE UNCHANGED vars
  <2>1. UNCHANGED incarnation_table /\ UNCHANGED streams
    BY <1>8, Zenon DEF vars, deviceVars, worldVars
  <2> QED
    BY <2>1, OtherAInv, Zenon
<1> QED
    BY <1>1, <1>2, <1>3, <1>4, <1>5, <1>6, <1>7, <1>8, Zenon DEF Next

-----------------------------------------------------------------------------
(* Result *)

\* Whatever sequence of admissions, evictions, retirements, incarnation changes
\* and restarts came before, no stored record names an incarnation that its device
\* is not known by: the importer's last test, at the end of import_document in
\* export.cpp, never refuses a state the engine built itself.
THEOREM EvidenceIsAttributedHolds == Spec => []EvidenceIsAttributed
<1>1. IInv /\ AInv => EvidenceIsAttributed
  <2> SUFFICES ASSUME IInv, AInv PROVE EvidenceIsAttributed
    BY Zenon
  <2>1. \A r \in records : r.evidence.key \in streams
    BY Zenon DEF IInv, WorldInv, StreamAccounting
  <2> QED
    BY <2>1, Zenon DEF AInv, StreamsAttributed, CurrentIsKnown, EvidenceIsAttributed
<1> QED
    BY <1>1, Invariance, InitAInv, NextAInv, PTL DEF Spec

-----------------------------------------------------------------------------
(* What a conflict is computed from *)

Newest(R, r) ==
    \A q \in R : q.evidence.key = r.evidence.key =>
        q.evidence.generation <= r.evidence.generation

\* The records of R that are active at t, when R holds whole streams.
InForce(R, t) ==
    {r \in R : /\ r.lifecycle = "admitted" /\ Newest(R, r)
               /\ ~Fenced(r.evidence) /\ ~Aged(r.evidence, t, 0)}

Top(A) == {r \in A : \A a \in A : ~(a.evidence.authority > r.evidence.authority)}

\* The members of the conflict among the active records A, none if they agree.
Members(A) ==
    IF \E r, q \in Top(A) : records_differ(r.evidence, q.evidence)
    THEN {r.evidence : r \in Top(A)} ELSE {}

Derived ==
    \A g \in Group : \A t :
        /\ ActiveRecords(g, t, 0) = InForce(GroupRecords(g), t)
        /\ live(g, t, 0) = Top(InForce(GroupRecords(g), t))
        /\ (IF disagrees(g, t, 0) THEN live_ids(g, t, 0) ELSE {}) =
               Members(InForce(GroupRecords(g), t))

LEMMA NewestIsHighest ==
    ASSUME IInv, NEW g \in Group, NEW r \in GroupRecords(g)
    PROVE  Newest(GroupRecords(g), r) <=>
               ~(r.evidence.generation < max_generation[r.evidence.key])
<1> DEFINE k == r.evidence.key
<1>1. /\ r \in records /\ k \in EvidenceKey /\ GroupOf(k) = g
      /\ r.evidence.generation \in Nat /\ max_generation[k] \in Nat
    BY RecordFacts, Zenon DEF GroupRecords
<1>2. StreamRecords(k) = {q \in GroupRecords(g) : q.evidence.key = k}
    BY <1>1, Zenon DEF StreamRecords, GroupRecords
<1>3. \A q \in StreamRecords(k) : q.evidence.generation \in Nat
                                  /\ q.evidence.generation <= max_generation[k]
    BY <1>1, RecordFacts, HighWaterMark, Zenon DEF StreamRecords
<1>4. max_generation[k] # 0 =>
          \E q \in StreamRecords(k) : q.evidence.generation = max_generation[k]
    BY <1>1, HighWaterMark, Zenon
<1>5. ASSUME Newest(GroupRecords(g), r) PROVE max_generation[k] <= r.evidence.generation
    BY <1>1, <1>2, <1>4, <1>5 DEF Newest
<1>6. ASSUME max_generation[k] <= r.evidence.generation PROVE Newest(GroupRecords(g), r)
  <2>1. ASSUME NEW q \in StreamRecords(k) PROVE q.evidence.generation <= r.evidence.generation
    BY <1>1, <1>3, <1>6
  <2> QED
    BY <1>2, <2>1, Zenon DEF Newest
<1> QED
    BY <1>1, <1>5, <1>6

LEMMA DerivedHolds == IInv => Derived
<1> SUFFICES ASSUME IInv, NEW g \in Group, NEW t
             PROVE  /\ ActiveRecords(g, t, 0) = InForce(GroupRecords(g), t)
                    /\ live(g, t, 0) = Top(InForce(GroupRecords(g), t))
                    /\ (IF disagrees(g, t, 0) THEN live_ids(g, t, 0) ELSE {}) =
                           Members(InForce(GroupRecords(g), t))
    BY Zenon DEF Derived
<1>1. ASSUME NEW r \in GroupRecords(g)
      PROVE  classify(r, t, 0) = "Active" <=>
                 /\ r.lifecycle = "admitted" /\ Newest(GroupRecords(g), r)
                 /\ ~Fenced(r.evidence) /\ ~Aged(r.evidence, t, 0)
  <2>1. r.lifecycle \in {"admitted", "rejected", "retired"}
    BY RecordFacts, Zenon DEF GroupRecords
  <2> QED
    BY <2>1, NewestIsHighest, Zenon DEF classify, ClassifyAt
<1>2. ActiveRecords(g, t, 0) = InForce(GroupRecords(g), t)
    BY <1>1, Zenon DEF ActiveRecords, InForce
<1>3. live(g, t, 0) = Top(InForce(GroupRecords(g), t))
  <2>1. \A r \in ActiveRecords(g, t, 0) : GroupOf(r.evidence.key) = g
    BY Zenon DEF ActiveRecords, GroupRecords
  <2> QED
    BY <1>2, <2>1, Zenon DEF live, Outranked, Top
<1> QED
    BY <1>2, <1>3, Zenon DEF disagrees, live_ids, Members


\* No stored evidence ages between the times callers pass.
NothingAges ==
    \A r \in records : \A t, u \in Ticks : Aged(r.evidence, t, 0) <=> Aged(r.evidence, u, 0)

AnyTick ==
    \A g \in Group : \A t, u \in Ticks :
        InForce(GroupRecords(g), t) = InForce(GroupRecords(g), u)

LEMMA AnyTickHolds == NothingAges => AnyTick
    BY Zenon DEF NothingAges, AnyTick, InForce, GroupRecords

\* The fences and ages of the stored evidence are what they were.
SameJudgement ==
    \A r \in records :
        /\ Fenced(r.evidence)' <=> Fenced(r.evidence)
        /\ \A t : Aged(r.evidence, t, 0)' <=> Aged(r.evidence, t, 0)

LEMMA JudgementKept ==
    ASSUME UNCHANGED <<sources, boot_epoch>>,
           \A r \in records :
               /\ Registered(r.evidence.key.device)' <=> Registered(r.evidence.key.device)
               /\ incarnation_table'[r.evidence.key.device].current =
                      incarnation_table[r.evidence.key.device].current
    PROVE  SameJudgement
<1>1. ASSUME NEW r \in records PROVE Fenced(r.evidence)' <=> Fenced(r.evidence)
    BY Zenon DEF Fenced, Registered
<1>2. ASSUME NEW r \in records, NEW t
      PROVE  Aged(r.evidence, t, 0)' <=> Aged(r.evidence, t, 0)
    BY Zenon DEF Aged, effective_max_age, Configured, observed_age
<1> QED
    BY <1>1, <1>2, Zenon DEF SameJudgement

LEMMA JudgementUnchanged ==
    ASSUME UNCHANGED <<sources, boot_epoch, incarnation_table>> PROVE SameJudgement
    BY JudgementKept, Zenon DEF Registered

\* A device that holds evidence is registered, so it keeps its incarnation when
\* a request names it.
LEMMA KnownDevices ==
    ASSUME IInv, AInv, NEW r \in records
    PROVE  r.evidence.key.device \in Device /\ Registered(r.evidence.key.device)
<1>1. r.evidence.key \in streams
    BY Zenon DEF IInv, WorldInv, StreamAccounting
<1>2. r.evidence.key \in EvidenceKey
    BY RecordFacts, Zenon
<1> QED
    BY <1>1, <1>2, Zenon DEF AInv, StreamsAttributed, Attributed, Registered, EvidenceKey

LEMMA RegisterJudgement ==
    ASSUME IInv, AInv, NEW k \in EvidenceKey, RegisterDevice(k), UNCHANGED <<sources, boot_epoch>>
    PROVE  SameJudgement
<1>1. ASSUME NEW r \in records
      PROVE  /\ Registered(r.evidence.key.device)' <=> Registered(r.evidence.key.device)
             /\ incarnation_table'[r.evidence.key.device].current =
                    incarnation_table[r.evidence.key.device].current
  <2> DEFINE d == r.evidence.key.device
             Same == /\ incarnation_table'[d].history = {} <=> incarnation_table[d].history = {}
                     /\ incarnation_table'[d].current = incarnation_table[d].current
  <2> SUFFICES Same
    BY Zenon DEF Registered
  <2>1. d \in Device /\ Registered(d) /\ k.device \in Device
    BY KnownDevices, Zenon DEF EvidenceKey
  <2>2. DOMAIN incarnation_table = Device
    BY Zenon DEF IInv, TypeOK
  <2>3. CASE d = k.device
    <3>1. incarnation_table'[d] = [current |-> incarnation_table[d].current,
              history |-> incarnation_table[d].history \cup {k.incarnation}]
      BY <2>1, <2>2, <2>3, Zenon DEF RegisterDevice, Registered
    <3> QED
      BY <2>1, <3>1 DEF Registered
  <2>4. CASE d # k.device
    BY <2>1, <2>2, <2>4, Zenon DEF RegisterDevice
  <2> QED
    BY <2>3, <2>4, Zenon
<1> QED
    BY <1>1, JudgementKept, Zenon

\* A group whose records, fences and ages are what they were has its old conflict.
LEMMA GroupKept ==
    ASSUME SameJudgement, NEW g \in Group, GroupRecords(g)' = GroupRecords(g), NEW t
    PROVE  Members(InForce(GroupRecords(g), t))' = Members(InForce(GroupRecords(g), t))
<1>1. InForce(GroupRecords(g), t)' = InForce(GroupRecords(g), t)
    BY Zenon DEF InForce, Newest, SameJudgement, GroupRecords
<1> QED
    BY <1>1, Zenon DEF Members, Top, records_differ


-----------------------------------------------------------------------------
(* The conflict table is exact *)

Rest(g, x) == GroupRecords(g) \ {x}

IncomingRecord(a) == [evidence |-> a.evidence, lifecycle |-> "admitted"]

\* The entry of every group but the one an admission is under way for is exact,
\* and the entry of that one is what it would be without the incoming record, as
\* long as nothing was evicted.
OthersExact ==
    \A g \in Group : (\A a \in admitting : GroupOf(a.evidence.key) # g) =>
        \A t \in Ticks : conflict_table[g] = Members(InForce(GroupRecords(g), t))

OwnExact ==
    \A a \in admitting : a.evicted = {} =>
        \A t \in Ticks : conflict_table[GroupOf(a.evidence.key)] =
            Members(InForce(Rest(GroupOf(a.evidence.key), IncomingRecord(a)), t))

\* A stream bound of zero keeps the registry empty, so there is nothing to evict.
NothingToEvict == \A a \in admitting : limits.max_per_stream = 0 => a.evicted = {}

CInv == /\ NothingToEvict
        /\ counters.conflicts_dropped = 0 => OthersExact /\ OwnExact

LEMMA RestKept ==
    ASSUME SameJudgement, NEW g, NEW x, GroupRecords(g)' = GroupRecords(g), NEW t
    PROVE  Members(InForce(Rest(g, x), t))' = Members(InForce(Rest(g, x), t))
<1>1. InForce(Rest(g, x), t)' = InForce(Rest(g, x), t)
    BY Zenon DEF InForce, Newest, SameJudgement, GroupRecords, Rest
<1> QED
    BY <1>1, Zenon DEF Members, Top, records_differ

LEMMA RestStored ==
    ASSUME SameJudgement, NEW g, NEW x, Rest(g, x)' = GroupRecords(g), NEW t
    PROVE  Members(InForce(Rest(g, x), t))' = Members(InForce(GroupRecords(g), t))
<1>1. InForce(Rest(g, x), t)' = InForce(GroupRecords(g), t)
    BY Zenon DEF InForce, Newest, SameJudgement, GroupRecords, Rest
<1> QED
    BY <1>1, Zenon DEF Members, Top, records_differ

LEMMA RestRestored ==
    ASSUME SameJudgement, NEW g, NEW x, GroupRecords(g)' = Rest(g, x), NEW t
    PROVE  Members(InForce(GroupRecords(g), t))' = Members(InForce(Rest(g, x), t))
<1>1. InForce(GroupRecords(g), t)' = InForce(Rest(g, x), t)
    BY Zenon DEF InForce, Newest, SameJudgement, GroupRecords, Rest
<1> QED
    BY <1>1, ZenonT(30) DEF Members, Top, records_differ

\* A step that leaves the evidence, its fences and ages, and the table alone.
LEMMA QuietCInv ==
    ASSUME CInv, SameJudgement, UNCHANGED <<records, conflict_table, admitting>>,
           admitting = {} \/ UNCHANGED limits,
           counters'.conflicts_dropped = counters.conflicts_dropped
    PROVE  CInv'
<1>1. \A g : GroupRecords(g)' = GroupRecords(g)
    BY Zenon DEF GroupRecords
<1>2. NothingToEvict'
    BY Zenon DEF CInv, NothingToEvict
<1>3. ASSUME OthersExact PROVE OthersExact'
    BY <1>1, <1>3, GroupKept, Zenon DEF OthersExact
<1>4. ASSUME OwnExact PROVE OwnExact'
  <2> SUFFICES ASSUME NEW a \in admitting, a.evicted = {}, NEW t \in Ticks
               PROVE  conflict_table[GroupOf(a.evidence.key)] =
                   Members(InForce(Rest(GroupOf(a.evidence.key), IncomingRecord(a)), t))'
    BY Zenon DEF OwnExact, IncomingRecord
  <2>1. PICK g, x : g = GroupOf(a.evidence.key) /\ x = IncomingRecord(a)
    BY Zenon
  <2>2. conflict_table[g] = Members(InForce(Rest(g, x), t))
    BY <1>4, <2>1, Zenon DEF OwnExact
  <2>3. conflict_table[g] = Members(InForce(Rest(g, x), t))'
    BY <1>1, <2>2, RestKept, Zenon
  <2> QED
    BY <2>1, <2>3, Zenon DEF IncomingRecord, GroupOf
<1> QED
    BY <1>2, <1>3, <1>4, Zenon DEF CInv

\* refresh_conflict for the one group whose evidence may have changed.
LEMMA RefreshOneCInv ==
    ASSUME IInv, IInv', CInv, NothingAges', SameJudgement, NEW g \in Group, NEW now \in Ticks,
           conflict_table' = refresh_conflict(g, now).table, admitting' = {},
           counters'.conflicts_dropped =
               counters.conflicts_dropped + refresh_conflict(g, now).dropped,
           \A a \in admitting : GroupOf(a.evidence.key) = g,
           \A h \in Group \ {g} : GroupRecords(h)' = GroupRecords(h)
    PROVE  CInv'
<1> SUFFICES ASSUME counters'.conflicts_dropped = 0 PROVE OthersExact'
    BY Zenon DEF CInv, NothingToEvict, OwnExact
<1> DEFINE full == /\ conflict_table[g] = {}
                   /\ Cardinality(OpenConflicts(conflict_table)) >= limits.max_conflicts
           open == disagrees(g, now, 0)'
<1>1. counters.conflicts_dropped \in Nat /\ DOMAIN conflict_table = Group
    BY Zenon DEF IInv, TypeOK, Counters
<1>2. /\ refresh_conflict(g, now).dropped = IF open /\ full THEN 1 ELSE 0
      /\ refresh_conflict(g, now).table =
             IF ~open THEN [conflict_table EXCEPT ![g] = {}]
             ELSE IF full THEN conflict_table
             ELSE [conflict_table EXCEPT ![g] = live_ids(g, now, 0)']
    BY Zenon DEF refresh_conflict
<1>3. Derived' /\ AnyTick'
    BY DerivedHolds, AnyTickHolds, PTL
<1>4. (IF open THEN live_ids(g, now, 0)' ELSE {}) = Members(InForce(GroupRecords(g), now))'
    BY <1>3, Zenon DEF Derived
<1> HIDE DEF full, open
<1>5. counters.conflicts_dropped = 0 /\ ~(open /\ full)
  <2>1. /\ open /\ full => refresh_conflict(g, now).dropped = 1
        /\ ~(open /\ full) => refresh_conflict(g, now).dropped = 0
    BY <1>2, Zenon
  <2> QED
    BY <1>1, <2>1
<1>6. conflict_table' = [conflict_table EXCEPT ![g] = IF open THEN live_ids(g, now, 0)' ELSE {}]
    BY <1>2, <1>5, Zenon
<1>7. ASSUME NEW h \in Group, NEW t \in Ticks
      PROVE  conflict_table'[h] = Members(InForce(GroupRecords(h), t))'
  <2>1. CASE h = g
    <3>1. InForce(GroupRecords(g), now)' = InForce(GroupRecords(g), t)'
      BY <1>3, Zenon DEF AnyTick
    <3>2. Members(InForce(GroupRecords(g), now))' = Members(InForce(GroupRecords(g), t))'
      BY <3>1, Zenon DEF Members, Top, records_differ
    <3> QED
      BY <1>1, <1>4, <1>6, <2>1, <3>2, Zenon
  <2>2. CASE h # g
    <3>1. conflict_table[h] = Members(InForce(GroupRecords(h), t))
      BY <1>5, <2>2, Zenon DEF CInv, OthersExact
    <3> QED
      BY <1>1, <1>6, <2>2, <3>1, GroupKept, Zenon
  <2> QED
    BY <2>1, <2>2, Zenon
<1> QED
    BY <1>7, Zenon DEF OthersExact


\* refresh_all_conflicts rewrites the whole table.
LEMMA RefreshAllCInv ==
    ASSUME IInv, IInv', NothingAges', NEW now \in Ticks, RefreshAllConflicts(now), admitting' = {}
    PROVE  CInv'
<1> SUFFICES ASSUME counters'.conflicts_dropped = 0 PROVE OthersExact'
    BY Zenon DEF CInv, NothingToEvict, OwnExact
<1> DEFINE open == {g \in Group : disagrees(g, now, 0)'}
<1>1. PICK c \in refresh_all_conflicts(now) :
          /\ conflict_table' = c.table
          /\ counters' = [counters EXCEPT !.conflicts_dropped = @ + c.dropped]
    BY Zenon DEF RefreshAllConflicts
<1>2. PICK kept \in SUBSET open :
        c = [table |-> [g \in Group |-> IF g \in kept THEN live_ids(g, now, 0)' ELSE {}],
             dropped |-> Cardinality(open \ kept)]
    BY <1>1, Zenon DEF refresh_all_conflicts
<1>3. IsFiniteSet(open \ kept) /\ Cardinality(open \ kept) \in Nat
  <2>1. IsFiniteSet(open)
    BY FiniteGroups, FS_Subset, Zenon
  <2> QED
    BY <2>1, FS_Difference, FS_CardinalityType, Zenon
<1>4. kept = open
  <2>1. c.dropped = Cardinality(open \ kept)
    BY <1>2, Zenon
  <2>2. counters.conflicts_dropped \in Nat
        /\ counters'.conflicts_dropped = counters.conflicts_dropped + c.dropped
    BY <1>1, Zenon DEF IInv, TypeOK, Counters
  <2> HIDE DEF open
  <2>3. Cardinality(open \ kept) = 0
    BY <1>3, <2>1, <2>2
  <2>4. open \ kept = {}
    BY <1>3, <2>3, FS_EmptySet, Zenon
  <2> QED
    BY <1>2, <2>4, Zenon
<1>5. Derived' /\ AnyTick'
    BY DerivedHolds, AnyTickHolds, PTL
<1>6. ASSUME NEW g \in Group, NEW t \in Ticks
      PROVE  conflict_table'[g] = Members(InForce(GroupRecords(g), t))'
  <2>1. conflict_table'[g] = IF disagrees(g, now, 0)' THEN live_ids(g, now, 0)' ELSE {}
    BY <1>1, <1>2, <1>4
  <2>2. conflict_table'[g] = Members(InForce(GroupRecords(g), now))'
    BY <1>5, <2>1, Zenon DEF Derived
  <2>3. InForce(GroupRecords(g), now)' = InForce(GroupRecords(g), t)'
    BY <1>5, Zenon DEF AnyTick
  <2>4. Members(InForce(GroupRecords(g), now))' = Members(InForce(GroupRecords(g), t))'
    BY <2>3, Zenon DEF Members, Top, records_differ
  <2> QED
    BY <2>2, <2>4, Zenon
<1> QED
    BY <1>6, Zenon DEF OthersExact

LEMMA StoreCInv ==
    ASSUME IInv, AInv, CInv, NEW q \in AdmissionRequest, NEW now \in Ticks, AdmitStore(q, now)
    PROVE  CInv'
<1>0. PICK x, h : x = [evidence |-> EvidenceOf(q), lifecycle |-> "admitted"]
                  /\ h = GroupOf(q.key)
    BY Zenon
<1>1. /\ admitting = {} /\ RegisterDevice(q.key) /\ UNCHANGED <<sources, boot_epoch>>
      /\ records' = records \cup {x} /\ x \notin records
      /\ admitting' = {[evidence |-> EvidenceOf(q), now |-> now, evicted |-> {},
                        previous_max |-> max_generation[q.key]]}
      /\ UNCHANGED <<conflict_table, counters>>
    BY <1>0, Zenon DEF AdmitStore, Unlocked, AlreadyPresent, policyVars, clockVars, tableVars
<1>2. q.key \in EvidenceKey /\ h \in Group /\ x.evidence.key = q.key /\ EvidenceOf(q).key = q.key
    BY <1>0, RequestFacts, GroupTypes, Zenon
<1>3. SameJudgement
    BY <1>1, <1>2, RegisterJudgement, Zenon
<1>4. /\ \A g : g # h => GroupRecords(g)' = GroupRecords(g)
      /\ Rest(h, x)' = GroupRecords(h)
    BY <1>0, <1>1, <1>2, Zenon DEF GroupRecords, Rest
<1>5. ASSUME NEW a \in admitting'
      PROVE  a.evicted = {} /\ GroupOf(a.evidence.key) = h /\ IncomingRecord(a) = x
    BY <1>0, <1>1, <1>2 DEF IncomingRecord
<1>6. \E a \in admitting' : GroupOf(a.evidence.key) = h
    BY <1>1, <1>5, Zenon
<1>7. NothingToEvict'
    BY <1>5, Zenon DEF NothingToEvict
<1>8. ASSUME OthersExact PROVE OthersExact' /\ OwnExact'
  <2>1. \A g \in Group, t \in Ticks : conflict_table[g] = Members(InForce(GroupRecords(g), t))
    BY <1>1, <1>8, Zenon DEF OthersExact
  <2>2. ASSUME NEW g \in Group, NEW t \in Ticks, g # h
        PROVE  conflict_table'[g] = Members(InForce(GroupRecords(g), t))'
    BY <1>1, <1>3, <1>4, <2>1, <2>2, GroupKept, Zenon
  <2>3. ASSUME NEW t \in Ticks
        PROVE  conflict_table'[h] = Members(InForce(Rest(h, x), t))'
    <3>1. Members(InForce(Rest(h, x), t))' = Members(InForce(GroupRecords(h), t))
      BY <1>3, <1>4, RestStored, Zenon
    <3>2. conflict_table[h] = Members(InForce(GroupRecords(h), t))
      BY <1>2, <2>1, Zenon
    <3> QED
      BY <1>1, <3>1, <3>2, Zenon
  <2>4. OthersExact'
    BY <1>6, <2>2, Zenon DEF OthersExact
  <2>5. OwnExact'
    <3> SUFFICES ASSUME NEW a \in admitting', NEW t \in Ticks
                 PROVE  conflict_table'[GroupOf(a.evidence.key)] =
                     Members(InForce(Rest(GroupOf(a.evidence.key), IncomingRecord(a)), t))'
      BY Zenon DEF OwnExact, IncomingRecord
    <3> QED
      BY <1>5, <2>3, Zenon DEF IncomingRecord, GroupOf
  <2> QED
    BY <2>4, <2>5, Zenon
<1> QED
    BY <1>1, <1>7, <1>8, Zenon DEF CInv


\* A candidate for eviction supersedes nothing that would stay, and if it is
\* active itself something active outranks it.
LEMMA EvictionInForce ==
    ASSUME IInv, RInv, NEW a \in admitting, NEW r \in eviction_candidates(a),
           NEW g \in Group, GroupOf(r.evidence.key) = g
    PROVE  /\ InForce(Rest(g, r), a.now) = InForce(GroupRecords(g), a.now) \ {r}
           /\ r \in InForce(GroupRecords(g), a.now) =>
                \E y \in InForce(GroupRecords(g), a.now) : y.evidence.authority > r.evidence.authority
<1>1. r \in records /\ r \in GroupRecords(g) /\ Evictable(r, a.now)
    BY Zenon DEF eviction_candidates, EvictionScope, StreamRecords, GroupRecords
<1>2. ASSUME NEW x \in Rest(g, r), x.lifecycle = "admitted", Newest(Rest(g, r), x),
             ~Newest(GroupRecords(g), x)
      PROVE  FALSE
  <2>1. x \in records /\ x \in GroupRecords(g) /\ x # r
    BY <1>2, Zenon DEF Rest, GroupRecords
  <2>2. /\ r.evidence.key = x.evidence.key /\ ~(r.evidence.generation <= x.evidence.generation)
    BY <1>2, Zenon DEF Rest, Newest
  <2>3. /\ x.evidence.generation \in Nat /\ r.evidence.generation \in Nat
        /\ r.evidence.key \in EvidenceKey /\ max_generation[r.evidence.key] \in Nat
        /\ r.evidence.generation <= max_generation[r.evidence.key]
    BY <1>1, <2>1, RecordFacts, Zenon
  <2>4. Superseded(x)
    BY <1>2, <2>2, <2>3 DEF Superseded
  <2>5. r.lifecycle = "rejected" \/ Superseded(r)
    BY <2>1, <2>2, <2>4, EvictionOrder, Zenon
  <2>6. \E q \in records : /\ q # r /\ q.evidence.key = r.evidence.key
                           /\ q.evidence.generation \in Nat
                           /\ q.evidence.generation >= r.evidence.generation
    <3>1. CASE r.lifecycle = "rejected"
      <4>1. PICK q \in records : Dominates(q, r)
        BY <1>1, <3>1, Zenon DEF RInv, Dominated
      <4> QED
        BY <3>1, <4>1, RecordFacts, Zenon DEF Dominates
    <3>2. CASE Superseded(r)
      <4>1. max_generation[r.evidence.key] # 0 /\ r.evidence.generation < max_generation[r.evidence.key]
        BY <2>3, <3>2 DEF Superseded
      <4>2. PICK q \in StreamRecords(r.evidence.key) :
                q.evidence.generation = max_generation[r.evidence.key]
        BY <2>3, <4>1, HighWaterMark, Zenon
      <4> QED
        BY <2>3, <4>1, <4>2 DEF StreamRecords
    <3> QED
      BY <2>5, <3>1, <3>2, Zenon
  <2>7. PICK q \in records : /\ q # r /\ q.evidence.key = r.evidence.key
                             /\ q.evidence.generation \in Nat
                             /\ q.evidence.generation >= r.evidence.generation
    BY <2>6, Zenon
  <2>8. q \in Rest(g, r)
    BY <2>7, Zenon DEF Rest, GroupRecords
  <2>9. q.evidence.generation <= x.evidence.generation
    BY <1>2, <2>2, <2>7, <2>8, Zenon DEF Newest
  <2> QED
    BY <2>2, <2>3, <2>7, <2>9
<1>3. ASSUME NEW x \in Rest(g, r), Newest(GroupRecords(g), x) PROVE Newest(Rest(g, r), x)
    BY <1>3, Zenon DEF Newest, Rest
<1>4. InForce(Rest(g, r), a.now) = InForce(GroupRecords(g), a.now) \ {r}
  <2>1. ASSUME NEW x \in Rest(g, r)
        PROVE  x \in InForce(Rest(g, r), a.now) <=> x \in InForce(GroupRecords(g), a.now)
    BY <1>2, <1>3, Zenon DEF InForce, Rest
  <2>2. \A x \in InForce(Rest(g, r), a.now) : x \in Rest(g, r)
    BY Zenon DEF InForce
  <2>3. \A x \in InForce(GroupRecords(g), a.now) \ {r} : x \in Rest(g, r)
    BY Zenon DEF InForce, Rest
  <2>4. r \notin Rest(g, r)
    BY Zenon DEF Rest
  <2> QED
    BY <2>1, <2>2, <2>3, <2>4, Zenon
<1>5. ASSUME r \in InForce(GroupRecords(g), a.now)
      PROVE  \E y \in InForce(GroupRecords(g), a.now) : y.evidence.authority > r.evidence.authority
  <2>1. ActiveRecords(g, a.now, 0) = InForce(GroupRecords(g), a.now)
    BY DerivedHolds, Zenon DEF Derived
  <2>2. classify(r, a.now, 0) = "Active"
    BY <1>5, <2>1, Zenon DEF ActiveRecords
  <2>3. eviction_priority(r, a.now) = 5
    BY <2>2, Zenon DEF eviction_priority
  <2>4. Outranked(r, a.now, 0)
    BY <1>1, <2>3 DEF Evictable
  <2> QED
    BY <2>1, <2>4, Zenon DEF Outranked
<1> QED
    BY <1>4, <1>5, Zenon

\* Taking out what is not active, or outranked, leaves the same top.
LEMMA EvictionMembers ==
    ASSUME IInv, RInv, NEW a \in admitting, NEW r \in eviction_candidates(a),
           NEW g \in Group, GroupOf(r.evidence.key) = g
    PROVE  Members(InForce(Rest(g, r), a.now)) = Members(InForce(GroupRecords(g), a.now))
<1> DEFINE A == InForce(GroupRecords(g), a.now)
<1>1. \A x \in A : x.evidence.authority \in Nat
  <2>1. \A x \in A : x \in StoredEvidence
    BY Zenon DEF InForce, GroupRecords, IInv, TypeOK
  <2> QED
    BY <2>1, NumbersAssumption, Zenon DEF StoredEvidence, CapabilityEvidence
<1>2. InForce(Rest(g, r), a.now) = A \ {r}
    BY EvictionInForce, Zenon
<1>3. r \in A => \E y \in A : y.evidence.authority > r.evidence.authority
    BY EvictionInForce, Zenon
<1> HIDE DEF A
<1>4. Top(A \ {r}) = Top(A)
  <2>1. CASE r \notin A
    <3>1. A \ {r} = A
      BY <2>1, Zenon
    <3> QED
      BY <3>1, Zenon
  <2>2. CASE r \in A
    <3>1. PICK y \in A : y.evidence.authority > r.evidence.authority
      BY <1>3, <2>2, Zenon
    <3>2. y # r
      BY <1>1, <2>2, <3>1
    <3>3. ASSUME NEW x \in Top(A) PROVE x \in Top(A \ {r})
      BY <1>1, <3>1, <3>3, Zenon DEF Top
    <3>4. ASSUME NEW x \in Top(A \ {r}) PROVE x \in Top(A)
      <4>1. x \in A /\ x # r /\ ~(y.evidence.authority > x.evidence.authority)
        BY <3>1, <3>2, <3>4, Zenon DEF Top
      <4>2. ~(r.evidence.authority > x.evidence.authority)
        BY <1>1, <2>2, <3>1, <4>1
      <4> QED
        BY <3>4, <4>1, <4>2, Zenon DEF Top
    <3> QED
      BY <3>3, <3>4, Zenon
  <2> QED
    BY <2>1, <2>2, Zenon
<1> QED
    BY <1>2, <1>4, Zenon DEF Members, A

\* The call inside its budget loop, of which there is one.
LEMMA AdmissionFacts ==
    ASSUME IInv, NEW a \in admitting
    PROVE  /\ a \in Admission /\ a.now \in Ticks /\ a.evidence.key \in EvidenceKey
           /\ admitting = {a}
<1>1. a \in Admission
    BY Zenon DEF IInv, TypeOK
<1>2. a.now \in Ticks /\ a.evidence.key \in EvidenceKey
    BY <1>1, Zenon DEF Admission, CapabilityEvidence
<1> QED
    BY <1>1, <1>2, OneAdmission, Zenon DEF IInv

\* With a stream bound of zero nothing is left to evict.
LEMMA EvictNothingAtZero ==
    ASSUME IInv, BInv, NEW a \in admitting, NEW r \in eviction_candidates(a)
    PROVE  limits.max_per_stream # 0
<1> SUFFICES ASSUME limits.max_per_stream = 0 PROVE FALSE
    BY Zenon
<1> DEFINE k == r.evidence.key
<1>1. r \in records /\ r.evidence # a.evidence /\ k \in EvidenceKey /\ r \in StreamRecords(k)
    BY RecordFacts, Zenon DEF eviction_candidates, EvictionScope, StreamRecords
<1>2. IsFiniteSet(StreamRecords(k)) /\ Cardinality(StreamRecords(k)) \in Nat
    BY <1>1, StreamCounts, Zenon
<1>3. OverStream(k)
  <2>1. Cardinality(StreamRecords(k)) # 0
    BY <1>1, <1>2, FS_EmptySet, Zenon
  <2> QED
    BY <1>2, <2>1 DEF OverStream
<1>4. a.evidence.key = k /\ Cardinality(StreamRecords(k)) <= 1
  <2>1. admitting = {a}
    BY OneAdmission, Zenon DEF IInv
  <2> QED
    BY <1>1, <1>3, <2>1 DEF BInv
<1>5. PICK i \in StreamRecords(k) : i # r
  <2>1. IncomingRecord(a) \in records /\ IncomingRecord(a).evidence = a.evidence
    BY Zenon DEF IInv, WorldInv, AdmittingStored, IncomingRecord
  <2> QED
    BY <1>1, <1>4, <2>1, Zenon DEF StreamRecords
<1>6. Cardinality({i, r}) = 2
  <2>1. Cardinality({i}) = 1 /\ IsFiniteSet({i})
    BY FS_Singleton, Zenon
  <2>2. Cardinality({i} \cup {r}) = 2
    <3>1. r \notin {i}
      BY <1>5, Zenon
    <3>2. Cardinality({i} \cup {r}) = Cardinality({i}) + 1
      BY <2>1, <3>1, FS_AddElement, Zenon
    <3> QED
      BY <2>1, <3>2
  <2>3. {i} \cup {r} = {i, r}
    BY Zenon
  <2> QED
    BY <2>2, <2>3, Zenon
<1>7. Cardinality({i, r}) <= Cardinality(StreamRecords(k))
  <2>1. {i, r} \subseteq StreamRecords(k)
    BY <1>1, <1>5, Zenon
  <2> QED
    BY <1>2, <2>1, FS_Subset, Zenon
<1> QED
    BY <1>2, <1>4, <1>6, <1>7

LEMMA EvictCInv ==
    ASSUME IInv, IInv', RInv, BInv, CInv, NothingAges', AdmitEvict
    PROVE  CInv'
<1>1. PICK a \in admitting : \E r \in eviction_candidates(a) :
          apply_eviction(r) /\ admitting' = {[a EXCEPT !.evicted = @ \cup {r}]}
    BY Zenon DEF AdmitEvict
<1>2. PICK r \in eviction_candidates(a) :
          apply_eviction(r) /\ admitting' = {[a EXCEPT !.evicted = @ \cup {r}]}
    BY <1>1, Zenon
<1>3. /\ records' = records \ {r} /\ UNCHANGED <<conflict_table, limits>>
      /\ counters'.conflicts_dropped = counters.conflicts_dropped
  <2>1. counters \in Counters
    BY Zenon DEF IInv, TypeOK
  <2>2. counters'.conflicts_dropped = counters.conflicts_dropped
    BY <1>2, <2>1, Zenon DEF apply_eviction, Counters
  <2> QED
    BY <1>2, <2>2, Zenon DEF apply_eviction, RemoveRecord, AdmitEvict, policyVars
<1>4. SameJudgement
    BY JudgementUnchanged, Zenon DEF AdmitEvict, deviceVars, policyVars, clockVars
<1>5. a \in Admission /\ a.now \in Ticks /\ admitting = {a}
    BY AdmissionFacts, Zenon
<1>6. \A b \in admitting' : b.evidence = a.evidence /\ b.evicted # {}
    BY <1>2, <1>5, Zenon DEF Admission
<1>7. \E b \in admitting' : b.evidence = a.evidence
    BY <1>2, <1>5, Zenon DEF Admission
<1>8. NothingToEvict'
    BY <1>3, EvictNothingAtZero, Zenon DEF NothingToEvict
<1>9. OwnExact'
    BY <1>6, Zenon DEF OwnExact
<1>10. ASSUME OthersExact PROVE OthersExact'
  <2> SUFFICES ASSUME NEW g \in Group, GroupOf(a.evidence.key) # g, NEW t \in Ticks
               PROVE  conflict_table'[g] = Members(InForce(GroupRecords(g), t))'
    BY <1>7, Zenon DEF OthersExact
  <2>1. \A u \in Ticks : conflict_table[g] = Members(InForce(GroupRecords(g), u))
    BY <1>5, <1>10, Zenon DEF OthersExact
  <2>2. CASE GroupOf(r.evidence.key) # g
    <3>1. GroupRecords(g)' = GroupRecords(g)
      BY <1>3, <2>2, Zenon DEF GroupRecords
    <3> QED
      BY <1>3, <1>4, <2>1, <3>1, GroupKept, Zenon
  <2>3. CASE GroupOf(r.evidence.key) = g
    <3>1. GroupRecords(g)' = Rest(g, r)
      BY <1>3, Zenon DEF GroupRecords, Rest
    <3>2. Members(InForce(GroupRecords(g), a.now))' = Members(InForce(Rest(g, r), a.now))
      BY <1>4, <3>1, RestRestored, Zenon
    <3>3. Members(InForce(GroupRecords(g), a.now))' = conflict_table'[g]
      BY <1>2, <1>3, <1>5, <2>1, <2>3, <3>2, EvictionMembers, Zenon
    <3>4. AnyTick'
      BY AnyTickHolds, PTL
    <3>5. InForce(GroupRecords(g), a.now)' = InForce(GroupRecords(g), t)'
      BY <1>5, <3>4, Zenon DEF AnyTick
    <3>6. Members(InForce(GroupRecords(g), a.now))' = Members(InForce(GroupRecords(g), t))'
      BY <3>5, Zenon DEF Members, Top, records_differ
    <3> QED
      BY <3>3, <3>6, Zenon
  <2> QED
    BY <2>2, <2>3, Zenon
<1> QED
    BY <1>3, <1>8, <1>9, <1>10, Zenon DEF CInv


\* A set of numbers that is not empty has a least member.
LEMMA LeastNumber ==
    ASSUME NEW S \in SUBSET Nat, S # {} PROVE \E m \in S : \A n \in S : m <= n
<1>1. PICK m \in S : \A n \in S : ~(<<n, m>> \in OpToRel(<, Nat))
    BY NatLessThanWellFounded, WFMin, Zenon
<1>2. ASSUME NEW n \in S PROVE m <= n
  <2>1. n \in Nat /\ m \in Nat
    BY Zenon
  <2>2. n < m => <<n, m>> \in OpToRel(<, Nat)
    BY <2>1, Zenon DEF OpToRel
  <2>3. ~(n < m)
    BY <1>1, <2>2, Zenon
  <2> QED
    BY <2>1, <2>3
<1> QED
    BY <1>2, Zenon

\* When anything may be evicted, something is the first to go.
LEMMA SomeCandidate ==
    ASSUME IInv, NEW a \in admitting, EvictionScope(a) # {}
    PROVE  eviction_candidates(a) # {}
<1> DEFINE S == EvictionScope(a)
           P == {eviction_priority(s, a.now) : s \in S}
<1>1. \A s \in S : /\ s \in records /\ eviction_priority(s, a.now) \in Nat
                   /\ s.evidence.observed_at \in Nat
  <2>1. \A s \in S : s \in records
    BY Zenon DEF EvictionScope, StreamRecords
  <2>2. \A s \in S : eviction_priority(s, a.now) \in 0 .. 5
    BY <2>1, PriorityOf, Zenon
  <2>3. \A s \in S : s.evidence.observed_at \in Nat
    BY <2>1, RecordFacts, Zenon
  <2> QED
    BY <2>1, <2>2, <2>3
<1>2. S # {}
    BY Zenon
<1> HIDE DEF S
<1>3. PICK m \in P : \A n \in P : m <= n
  <2>1. P \in SUBSET Nat /\ P # {}
    BY <1>1, <1>2, Zenon
  <2> QED
    BY <2>1, LeastNumber, Zenon
<1> DEFINE F == {s \in S : eviction_priority(s, a.now) = m}
           O == {s.evidence.observed_at : s \in F}
<1>4. PICK o \in O : \A n \in O : o <= n
  <2>1. O \in SUBSET Nat /\ O # {}
    BY <1>1, <1>3, Zenon
  <2> QED
    BY <2>1, LeastNumber, Zenon
<1>5. PICK r \in F : r.evidence.observed_at = o
    BY <1>4, Zenon
<1>6. ASSUME NEW s \in S
      PROVE  \/ eviction_priority(r, a.now) < eviction_priority(s, a.now)
             \/ /\ eviction_priority(r, a.now) = eviction_priority(s, a.now)
                /\ r.evidence.observed_at <= s.evidence.observed_at
  <2>1. m <= eviction_priority(s, a.now) /\ m \in Nat /\ eviction_priority(s, a.now) \in Nat
    BY <1>1, <1>3, Zenon
  <2>2. eviction_priority(r, a.now) = m
    BY <1>5, Zenon
  <2>3. CASE eviction_priority(s, a.now) = m
    <3>1. s \in F
      BY <2>3, Zenon
    <3> QED
      BY <1>4, <1>5, <2>2, <2>3, <3>1, Zenon
  <2> QED
    BY <2>1, <2>2, <2>3
<1>7. r \in S
    BY <1>5, Zenon
<1> QED
    BY <1>6, <1>7, Zenon DEF eviction_candidates, S

\* Whatever else its stream holds may go to make room for the incoming record.
LEMMA OwnStreamEvictable ==
    ASSUME IInv, RInv, NEW a \in admitting, NEW s \in StreamRecords(a.evidence.key),
           s # IncomingRecord(a)
    PROVE  s \in EvictionScope(a)
<1> DEFINE i == IncomingRecord(a)
<1>1. i \in records /\ i.evidence = a.evidence /\ i.lifecycle = "admitted" /\ s \in records
      /\ s.evidence.key = a.evidence.key
    BY Zenon DEF IInv, WorldInv, AdmittingStored, IncomingRecord, StreamRecords
<1> HIDE DEF i
<1>2. s # i
    BY Zenon DEF i
<1>3. s.evidence # a.evidence
    BY <1>1, <1>2, Zenon DEF IInv, WorldInv, DistinctEvidence
<1>4. /\ s.lifecycle \in {"admitted", "rejected", "retired"}
      /\ s.evidence.generation \in Nat /\ i.evidence.generation \in Nat
      /\ max_generation[s.evidence.key] \in Nat
      /\ i.evidence.generation <= max_generation[s.evidence.key]
    BY <1>1, RecordFacts, Zenon
<1>5. Evictable(s, a.now)
  <2>1. CASE s.lifecycle = "rejected"
    BY <1>1, <2>1, PriorityOf DEF Evictable
  <2>2. CASE s.lifecycle = "retired"
    <3>1. classify(s, a.now, 0) = "Retired"
      BY <2>2, Zenon DEF classify, ClassifyAt
    <3> QED
      BY <3>1 DEF Evictable, eviction_priority
  <2>3. CASE s.lifecycle = "admitted"
    <3>1. s.evidence.generation <= i.evidence.generation
      BY <1>1, Zenon DEF RInv, IncomingLeads, Incoming
    <3>2. s.evidence.generation # i.evidence.generation
      BY <1>1, <1>2, <2>3, Zenon DEF IInv, WorldInv, OneFactPerGeneration
    <3>3. Superseded(s)
      BY <1>4, <2>3, <3>1, <3>2 DEF Superseded
    <3> QED
      BY <1>1, <3>3, PriorityOf DEF Evictable
  <2> QED
    BY <1>4, <2>1, <2>2, <2>3, Zenon
<1> QED
    BY <1>1, <1>3, <1>5, Zenon DEF EvictionScope, StreamRecords


\* A refused admission evicted nothing: the loop only runs out of candidates
\* while the registry is over its record bound, or when a stream may hold nothing.
LEMMA RefusedEvictsNothing ==
    ASSUME IInv, RInv, BInv, NothingToEvict, NEW a \in admitting, OverBudget(a),
           eviction_candidates(a) = {}
    PROVE  a.evicted = {}
<1>1. CASE OverRecords
    BY <1>1, Zenon DEF BInv
<1>2. CASE limits.max_per_stream = 0
    BY <1>2, Zenon DEF NothingToEvict
<1>3. CASE ~OverRecords /\ limits.max_per_stream # 0
  <2> DEFINE R == StreamRecords(a.evidence.key)
             i == IncomingRecord(a)
  <2>1. a.evidence.key \in EvidenceKey
    BY AdmissionFacts, Zenon
  <2>2. IsFiniteSet(R) /\ Cardinality(R) \in Nat /\ limits.max_per_stream \in Nat
    BY <2>1, StreamCounts, LimitTypes, Zenon DEF IInv
  <2>3. Cardinality(R) > 1
    BY <1>3, <2>2 DEF OverBudget, OverStream
  <2>4. R \subseteq {i}
    BY OwnStreamEvictable, SomeCandidate, Zenon
  <2> HIDE DEF R, i
  <2>5. IsFiniteSet({i}) /\ Cardinality({i}) = 1
    BY FS_Singleton, Zenon
  <2>6. Cardinality(R) <= 1
    BY <2>4, <2>5, FS_Subset
  <2> QED
    BY <2>2, <2>3, <2>6
<1> QED
    BY <1>1, <1>2, <1>3, Zenon

LEMMA RollbackCInv == ASSUME IInv, RInv, BInv, CInv, AdmitRollback PROVE CInv'
<1>1. PICK a \in admitting :
          /\ OverBudget(a) /\ eviction_candidates(a) = {}
          /\ RemoveRecord([evidence |-> a.evidence, lifecycle |-> "admitted"])
          /\ admitting' = {} /\ UNCHANGED <<conflict_table, counters>>
    BY Zenon DEF AdmitRollback, tableVars
<1>2. PICK x, h : x = IncomingRecord(a) /\ h = GroupOf(a.evidence.key)
    BY Zenon
<1>3. records' = records \ {x} /\ x.evidence.key = a.evidence.key
    BY <1>1, <1>2, Zenon DEF RemoveRecord, IncomingRecord
<1>4. a.evicted = {}
    BY <1>1, RefusedEvictsNothing, Zenon DEF CInv
<1>5. SameJudgement
    BY JudgementUnchanged, Zenon DEF AdmitRollback, deviceVars, policyVars, clockVars
<1>6. admitting = {a}
    BY OneAdmission, Zenon DEF IInv
<1>7. ASSUME OthersExact, OwnExact PROVE OthersExact'
  <2> SUFFICES ASSUME NEW g \in Group, NEW t \in Ticks
               PROVE  conflict_table'[g] = Members(InForce(GroupRecords(g), t))'
    BY Zenon DEF OthersExact
  <2>1. CASE g = h
    <3>1. GroupRecords(h)' = Rest(h, x)
      BY <1>3, Zenon DEF GroupRecords, Rest
    <3>2. conflict_table[h] = Members(InForce(Rest(h, x), t))
      BY <1>2, <1>4, <1>7, Zenon DEF OwnExact
    <3> QED
      BY <1>1, <1>5, <2>1, <3>1, <3>2, RestRestored, Zenon
  <2>2. CASE g # h
    <3>1. GroupRecords(g)' = GroupRecords(g)
      BY <1>2, <1>3, <2>2, Zenon DEF GroupRecords
    <3>2. conflict_table[g] = Members(InForce(GroupRecords(g), t))
      BY <1>2, <1>6, <1>7, <2>2, Zenon DEF OthersExact
    <3> QED
      BY <1>1, <1>5, <3>1, <3>2, GroupKept, Zenon
  <2> QED
    BY <2>1, <2>2, Zenon
<1> QED
    BY <1>1, <1>7, Zenon DEF CInv, NothingToEvict, OwnExact

LEMMA AcceptCInv == ASSUME IInv, IInv', CInv, NothingAges', AdmitAccept PROVE CInv'
<1>1. PICK a \in admitting :
          /\ admitting' = {} /\ UNCHANGED records
          /\ conflict_table' = refresh_conflict(GroupOf(a.evidence.key), a.now).table
          /\ counters' = [counters EXCEPT !.accepted = @ + 1, !.conflicts_dropped =
                 @ + refresh_conflict(GroupOf(a.evidence.key), a.now).dropped]
    BY Zenon DEF AdmitAccept, worldVars
<1>2. a.now \in Ticks /\ GroupOf(a.evidence.key) \in Group /\ admitting = {a}
    BY AdmissionFacts, GroupTypes, Zenon
<1>3. counters'.conflicts_dropped =
          counters.conflicts_dropped + refresh_conflict(GroupOf(a.evidence.key), a.now).dropped
    BY <1>1, Zenon DEF IInv, TypeOK, Counters
<1>4. SameJudgement
    BY JudgementUnchanged, Zenon DEF AdmitAccept, deviceVars, policyVars, clockVars
<1>5. \A h : GroupRecords(h)' = GroupRecords(h)
    BY <1>1, Zenon DEF GroupRecords
<1> QED
    BY <1>1, <1>2, <1>3, <1>4, <1>5, RefreshOneCInv, Zenon

LEMMA RetireCInv ==
    ASSUME IInv, IInv', CInv, NothingAges', NEW k \in EvidenceKey, NEW g \in Retirements,
           NEW now \in Ticks, Retire(k, g, now)
    PROVE  CInv'
<1>1. PICK p \in push_tombstone(k, [generation |-> g, retired_at |-> now]) :
          /\ conflict_table' = refresh_conflict(GroupOf(k), now).table
          /\ counters' = [counters EXCEPT !.tombstones_dropped = @ + p.dropped,
                 !.conflicts_dropped = @ + refresh_conflict(GroupOf(k), now).dropped]
    BY Zenon DEF Retire
<1>2. counters'.conflicts_dropped =
          counters.conflicts_dropped + refresh_conflict(GroupOf(k), now).dropped
    BY <1>1, Zenon DEF IInv, TypeOK, Counters
<1>3. admitting = {} /\ admitting' = {} /\ GroupOf(k) \in Group
    BY GroupTypes, Zenon DEF Retire, Unlocked
<1>4. SameJudgement
    BY JudgementUnchanged, Zenon DEF Retire, deviceVars, policyVars, clockVars
<1>5. ASSUME NEW h \in Group \ {GroupOf(k)} PROVE GroupRecords(h)' = GroupRecords(h)
  <2> DEFINE f(r) == IF /\ r.evidence.key = k /\ r.lifecycle = "admitted"
                        /\ r.evidence.generation <= g
                     THEN [r EXCEPT !.lifecycle = "retired"] ELSE r
  <2>1. records' = {f(r) : r \in records}
    BY Zenon DEF Retire
  <2>2. \A r \in records : /\ f(r).evidence = r.evidence
                           /\ r.evidence.key # k => f(r) = r
    BY DEF IInv, TypeOK, StoredEvidence
  <2> HIDE DEF f
  <2> QED
    BY <2>1, <2>2, Zenon DEF GroupRecords
<1> QED
    BY <1>1, <1>2, <1>3, <1>4, <1>5, RefreshOneCInv, Zenon

LEMMA LateCInv ==
    ASSUME IInv, IInv', AInv, CInv, NothingAges', NEW q \in AdmissionRequest, NEW now \in Ticks,
           AdmitOutOfOrder(q, now)
    PROVE  CInv'
<1>1. q.key \in EvidenceKey /\ GroupOf(q.key) \in Group /\ EvidenceOf(q).key = q.key
    BY RequestFacts, GroupTypes, Zenon
<1>2. admitting = {} /\ admitting' = {} /\ SameJudgement
  <2>1. RegisterDevice(q.key) /\ UNCHANGED <<sources, boot_epoch>>
    BY Zenon DEF AdmitOutOfOrder, policyVars, clockVars
  <2>2. admitting = {} /\ admitting' = {}
    BY Zenon DEF AdmitOutOfOrder, Unlocked
  <2> QED
    BY <1>1, <2>1, <2>2, RegisterJudgement, Zenon
<1>3. CASE UNCHANGED <<records, total_records, tableVars, counters>>
    BY <1>2, <1>3, QuietCInv, Zenon DEF tableVars
<1>4. CASE /\ records' = records \cup {[evidence |-> EvidenceOf(q), lifecycle |-> "rejected"]}
           /\ RefreshConflict(GroupOf(q.key), now)
  <2>1. \A h \in Group \ {GroupOf(q.key)} : GroupRecords(h)' = GroupRecords(h)
    <3>1. PICK x : x = [evidence |-> EvidenceOf(q), lifecycle |-> "rejected"]
      BY Zenon
    <3>2. records' = records \cup {x} /\ x.evidence.key = q.key
      BY <1>1, <1>4, <3>1, Zenon
    <3> QED
      BY <3>2, Zenon DEF GroupRecords
  <2>2. counters'.conflicts_dropped =
            counters.conflicts_dropped + refresh_conflict(GroupOf(q.key), now).dropped
    BY <1>4, Zenon DEF RefreshConflict, IInv, TypeOK, Counters
  <2> QED
    BY <1>1, <1>2, <1>4, <2>1, <2>2, RefreshOneCInv, Zenon DEF RefreshConflict
<1> QED
    BY <1>3, <1>4, Zenon DEF AdmitOutOfOrder


LEMMA AdmitCInv ==
    ASSUME IInv, IInv', AInv, CInv, NothingAges', Admit
    PROVE  CInv'
<1>1. PICK q \in AdmissionRequest, now \in Ticks :
          \/ AdmitRefused(q, now) \/ AdmitBlocked(q, now) \/ AdmitDuplicate(q, now)
          \/ AdmitOutOfOrder(q, now) \/ AdmitStore(q, now)
    BY Zenon DEF Admit
<1>2. CASE AdmitRefused(q, now)
  <2>1. UNCHANGED <<records, conflict_table, admitting, limits, counters>>
        /\ UNCHANGED <<sources, boot_epoch, incarnation_table>>
    BY <1>2, Zenon DEF AdmitRefused, vars, worldVars, policyVars, clockVars, deviceVars, tableVars
  <2> QED
    BY <2>1, JudgementUnchanged, QuietCInv, Zenon
<1>3. CASE AdmitBlocked(q, now) \/ AdmitDuplicate(q, now)
  <2>1. /\ RegisterDevice(q.key) /\ UNCHANGED <<sources, boot_epoch>>
        /\ UNCHANGED <<records, conflict_table, admitting, limits, counters>>
    BY <1>3, Zenon DEF AdmitBlocked, AdmitDuplicate, worldVars, policyVars, clockVars, tableVars
  <2> QED
    BY <2>1, RequestFacts, RegisterJudgement, QuietCInv, Zenon
<1> QED
    BY <1>1, <1>2, <1>3, LateCInv, StoreCInv, Zenon

\* A device that changes its incarnation has its evidence judged anew; a device
\* that is only now registered has none.
LEMMA DeviceCInv ==
    ASSUME IInv, IInv', AInv, CInv, NothingAges', DeviceStep
    PROVE  CInv'
<1>1. PICK d \in Device, now \in Ticks :
          begin_device_incarnation(d, now) \/ \E i \in Incarnation : set_device_incarnation(d, i, now)
    BY Zenon DEF DeviceStep
<1>2. admitting = {} /\ admitting' = {} /\ UNCHANGED <<records, sources, limits>>
    BY <1>1, Zenon DEF begin_device_incarnation, set_device_incarnation, Unlocked, worldVars,
       policyVars
<1>3. CASE RefreshAllConflicts(now)
    BY <1>2, <1>3, RefreshAllCInv, Zenon
<1>4. ASSUME UNCHANGED <<tableVars, counters, boot_epoch>>,
             \A r \in records :
               /\ Registered(r.evidence.key.device)' <=> Registered(r.evidence.key.device)
               /\ incarnation_table'[r.evidence.key.device].current =
                      incarnation_table[r.evidence.key.device].current
      PROVE  CInv'
  <2>1. SameJudgement
    BY <1>2, <1>4, JudgementKept, Zenon
  <2> QED
    BY <1>2, <1>4, <2>1, QuietCInv, Zenon DEF tableVars
<1>5. DOMAIN incarnation_table = Device
    BY Zenon DEF IInv, TypeOK
<1>6. CASE begin_device_incarnation(d, now) /\ ~Registered(d)
  <2>1. UNCHANGED <<tableVars, counters, boot_epoch>>
    BY <1>6, Zenon DEF begin_device_incarnation, bump_policy_revision
  <2>2. \A e \in Device \ {d} : incarnation_table'[e] = incarnation_table[e]
    BY <1>5, <1>6, Zenon DEF begin_device_incarnation
  <2>3. \A r \in records : r.evidence.key.device \in Device \ {d}
    BY <1>6, KnownDevices, Zenon
  <2> QED
    BY <1>4, <2>1, <2>2, <2>3, Zenon DEF Registered
<1>7. ASSUME NEW i \in Incarnation, set_device_incarnation(d, i, now),
             Registered(d), incarnation_table[d].current = i
      PROVE  CInv'
  <2>1. UNCHANGED <<tableVars, counters, boot_epoch>>
    BY <1>7, Zenon DEF set_device_incarnation, clockVars
  <2>2. \A e \in Device : /\ incarnation_table'[e].current = incarnation_table[e].current
                          /\ Registered(e)' <=> Registered(e)
    <3>1. incarnation_table'[d] = [current |-> i, history |-> incarnation_table[d].history \cup {i}]
      BY <1>5, <1>7, Zenon DEF set_device_incarnation
    <3>2. \A e \in Device \ {d} : incarnation_table'[e] = incarnation_table[e]
      BY <1>5, <1>7, Zenon DEF set_device_incarnation
    <3>3. incarnation_table'[d].current = i /\ incarnation_table'[d].history # {}
      BY <3>1
    <3>4. incarnation_table[d].history # {}
      BY <1>7, Zenon DEF Registered
    <3> QED
      BY <1>7, <3>2, <3>3, <3>4, Zenon DEF Registered
  <2> QED
    BY <1>4, <2>1, <2>2, KnownDevices, Zenon
<1> QED
    BY <1>1, <1>3, <1>6, <1>7, Zenon DEF begin_device_incarnation, set_device_incarnation

LEMMA ClockCInv ==
    ASSUME IInv, IInv', CInv, NothingAges', ClockStep
    PROVE  CInv'
<1>1. CASE \E now \in Ticks : adopt_state(now)
  <2>1. PICK now \in Ticks : adopt_state(now)
    BY <1>1, Zenon
  <2>2. RefreshAllConflicts(ResumeTick(now)) /\ admitting' = {}
    BY <2>1, Zenon DEF adopt_state, Unlocked
  <2>3. PICK t \in Ticks : t = ResumeTick(now)
    BY ResumeTickType, Zenon
  <2>4. RefreshAllConflicts(t)
    BY <2>1, <2>3, Zenon DEF adopt_state
  <2> QED
    BY <2>2, <2>4, RefreshAllCInv, Zenon
<1>2. CASE advance_epoch \/ (\E l \in LimitChoices : set_limits(l))
           \/ (\E now \in Ticks : set_logical_tick(now))
  <2>1. /\ admitting = {} /\ UNCHANGED <<records, conflict_table, admitting, counters>>
        /\ UNCHANGED <<sources, boot_epoch, incarnation_table>>
    BY <1>2, Zenon DEF advance_epoch, set_limits, set_logical_tick, Unlocked, bump_policy_revision,
       worldVars, deviceVars, policyVars, tableVars
  <2> QED
    BY <2>1, JudgementUnchanged, QuietCInv, Zenon
<1> QED
    BY <1>1, <1>2, Zenon DEF ClockStep

LEMMA NextCInv ==
    IInv /\ IInv' /\ RInv /\ AInv /\ BInv /\ CInv /\ NothingAges' /\ [Next]_vars => CInv'
<1> SUFFICES ASSUME IInv, IInv', RInv, AInv, BInv, CInv, NothingAges', [Next]_vars PROVE CInv'
    BY Zenon
<1>1. CASE BudgetStep
    BY <1>1, EvictCInv, RollbackCInv, AcceptCInv, Zenon DEF BudgetStep
<1>2. CASE Resolution
  <2>1. /\ UNCHANGED <<records, conflict_table, admitting, limits>>
        /\ UNCHANGED <<sources, boot_epoch, incarnation_table>>
        /\ \E n : counters' = [counters EXCEPT !.resolutions_dropped = n]
    BY <1>2, Zenon DEF Resolution, resolve_conflict, worldVars, policyVars, clockVars, deviceVars
  <2>2. counters'.conflicts_dropped = counters.conflicts_dropped
    BY <2>1, Zenon DEF IInv, TypeOK, Counters
  <2> QED
    BY <2>1, <2>2, JudgementUnchanged, QuietCInv, Zenon
<1>3. CASE Retirement
  <2>1. PICK k \in EvidenceKey, g \in Retirements :
            RetireIgnored(k, g) \/ \E now \in Ticks : Retire(k, g, now)
    BY <1>3, Zenon DEF Retirement
  <2>2. UNCHANGED vars \/ \E now \in Ticks : Retire(k, g, now)
    BY <2>1, Zenon DEF RetireIgnored
  <2>3. CASE UNCHANGED vars
    <3>1. /\ UNCHANGED <<records, conflict_table, admitting, limits, counters>>
          /\ UNCHANGED <<sources, boot_epoch, incarnation_table>>
      BY <2>3, Zenon DEF vars, worldVars, policyVars, clockVars, deviceVars, tableVars
    <3> QED
      BY <3>1, JudgementUnchanged, QuietCInv, Zenon
  <2> QED
    BY <2>2, <2>3, RetireCInv, Zenon
<1>4. CASE SourceStep
  <2>1. PICK now \in Ticks : \E s \in Source : \E p : SetSource(s, p, now)
    BY <1>4, Zenon DEF SourceStep, revoke_source, restore_source, set_source_authority,
       upsert_source_policy
  <2>2. RefreshAllConflicts(now) /\ admitting' = {}
    BY <2>1, Zenon DEF SetSource, Unlocked
  <2> QED
    BY <2>2, RefreshAllCInv, Zenon
<1>5. CASE UNCHANGED vars
  <2>1. /\ UNCHANGED <<records, conflict_table, admitting, limits, counters>>
        /\ UNCHANGED <<sources, boot_epoch, incarnation_table>>
    BY <1>5, Zenon DEF vars, worldVars, policyVars, clockVars, deviceVars, tableVars
  <2> QED
    BY <2>1, JudgementUnchanged, QuietCInv, Zenon
<1> QED
    BY <1>1, <1>2, <1>3, <1>4, <1>5, AdmitCInv, DeviceCInv, ClockCInv, Zenon DEF Next

LEMMA InitCInv == Init => CInv
<1> SUFFICES ASSUME Init PROVE CInv
    BY Zenon
<1>1. \A g \in Group, t \in Ticks : Members(InForce(GroupRecords(g), t)) = {}
    BY Zenon DEF Init, GroupRecords, InForce, Top, Members
<1> QED
    BY <1>1, Zenon DEF Init, CInv, NothingToEvict, OthersExact, OwnExact

\* While set_limits lowers no record bound, no stored evidence ages in the times
\* in use and no group was left out for want of room, the table that the incremental
\* refreshes keep is the one a full derivation would give: after every call, for
\* every group, whatever was evicted, rolled back, retired or restarted.
THEOREM ConflictTableExactHolds ==
    Spec /\ LimitsNeverShrink /\ []NothingAges => []ConflictTableExact
<1>1. IInv /\ CInv => ConflictTableExact
  <2> SUFFICES ASSUME IInv, CInv, Unlocked, counters.conflicts_dropped = 0,
                      NEW g \in Group, NEW t \in Ticks
               PROVE  conflict_table[g] = IF disagrees(g, t, 0) THEN live_ids(g, t, 0) ELSE {}
    BY Zenon DEF ConflictTableExact
  <2> QED
    BY DerivedHolds, Zenon DEF CInv, OthersExact, Unlocked, Derived
<1>2. Spec /\ LimitsNeverShrink => [](IInv /\ RInv /\ AInv /\ BInv)
    BY RetentionInvariance, BudgetInvariance, Invariance, InitAInv, NextAInv, PTL DEF Spec
<1> QED
    BY <1>1, <1>2, InitCInv, NextCInv, PTL DEF Spec

=============================================================================
