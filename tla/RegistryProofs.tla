--------------------------- MODULE RegistryProofs ---------------------------
(***************************************************************************)
(* The inductive invariant of the evidence engine, the facts about finite  *)
(* sets and high-water marks it rests on, and the proofs that every call   *)
(* keeps the declared types, the cached aggregates, one accepted fact per  *)
(* generation, and the fence of every tombstone, for every value of the    *)
(* constants that the named assumptions allow.                             *)
(***************************************************************************)
EXTENDS Registry, TLAPS, FiniteSetTheorems, WellFoundedInduction

-----------------------------------------------------------------------------
(* Maxima of finite sets of numbers *)

IsMax(m, S) == m \in S /\ \A x \in S : x <= m

\* A finite set of numbers that is not empty has a largest member: what the
\* loops that recompute a high-water mark or the logical clock rely on.
LEMMA FiniteMax ==
    ASSUME NEW S \in SUBSET Nat, IsFiniteSet(S), S # {}
    PROVE  \E m \in S : IsMax(m, S)
<1> DEFINE Bad == {T \in SUBSET S : T # {} /\ \A m \in T : ~IsMax(m, T)}
<1>1. SUFFICES ASSUME S \in Bad PROVE FALSE
    BY Zenon DEF IsMax
<1>2. \A T \in SUBSET S : IsFiniteSet(T)
    BY FS_Subset, Zenon
<1>3. Bad \subseteq FiniteSubsetsOf(S)
    BY <1>2, Zenon DEF FiniteSubsetsOf
<1>4. PICK T \in Bad : \A U \in Bad : ~(<<U, T>> \in StrictSubsetOrdering(S))
  <2>1. IsWellFoundedOn(StrictSubsetOrdering(S), FiniteSubsetsOf(S))
    BY FS_StrictSubsetOrderingWellFounded, Zenon
  <2> QED
    BY <1>1, <1>3, <2>1, WFMin, Zenon
<1>5. PICK x \in T : TRUE
    BY Zenon
<1> DEFINE U == T \ {x}
<1>6. U \notin Bad
  <2>1. U \in SUBSET S /\ U # T /\ U \subseteq T
    BY <1>5, Zenon
  <2>2. <<U, T>> \in StrictSubsetOrdering(S)
    BY <2>1, Zenon DEF StrictSubsetOrdering
  <2> QED
    BY <1>4, <2>2, Zenon
<1>7. CASE U = {}
  <2>1. T = {x}
    BY <1>5, <1>7, Zenon
  <2> QED
    BY <1>5, <2>1 DEF IsMax
<1>8. CASE U # {}
  <2>1. PICK m \in U : IsMax(m, U)
    BY <1>6, <1>8, Zenon
  <2>2. m \in T /\ m \in Nat /\ x \in Nat /\ T = U \cup {x}
    BY <1>5, <2>1, Zenon
  <2>3. IsMax(m, T) \/ IsMax(x, T)
    BY <2>1, <2>2 DEF IsMax
  <2> QED
    BY <1>5, <2>2, <2>3, Zenon
<1> QED
    BY <1>7, <1>8, Zenon

\* What the recomputation of a high-water mark returns.
LEMMA HighestGenerationMax ==
    ASSUME NEW R \in SUBSET StoredEvidence
    PROVE  /\ HighestGeneration(R) \in Generation
           /\ \A r \in R : r.evidence.generation <= HighestGeneration(R)
           /\ R = {} => HighestGeneration(R) = 0
           /\ R # {} => \E r \in R : r.evidence.generation = HighestGeneration(R)
<1> DEFINE G == GenerationsOf(R)
<1>1. \A r \in R : r.evidence.generation \in Generation
    BY Zenon DEF StoredEvidence, CapabilityEvidence
<1>2. G \in SUBSET Nat /\ IsFiniteSet(G) /\ G \subseteq Generation
  <2>1. IsFiniteSet(0 .. MaxGeneration)
    BY FS_Interval, NumbersAssumption
  <2> QED
    BY <1>1, <2>1, FS_Subset, NumbersAssumption DEF GenerationsOf, Generation
<1>3. CASE R = {}
    BY <1>3, NumbersAssumption DEF HighestGeneration, Generation
<1>4. CASE R # {}
  <2>1. G # {}
    BY <1>4, Zenon DEF GenerationsOf
  <2>2. \E m \in G : \A h \in G : h <= m
    BY <1>2, <2>1, FiniteMax, Zenon DEF IsMax
  <2>3. HighestGeneration(R) \in G /\ \A h \in G : h <= HighestGeneration(R)
    BY <1>4, <2>2, Zenon DEF HighestGeneration
  <2> QED
    BY <1>2, <1>4, <2>3, Zenon DEF GenerationsOf
<1> QED
    BY <1>3, <1>4, Zenon

\* A member that bounds all generations is what the recomputation finds.
LEMMA HighestGenerationIs ==
    ASSUME NEW R \in SUBSET StoredEvidence, NEW r \in R,
           \A q \in R : q.evidence.generation <= r.evidence.generation
    PROVE  HighestGeneration(R) = r.evidence.generation
<1>1. \A q \in R : q.evidence.generation \in Nat
    BY DEF StoredEvidence, CapabilityEvidence, Generation
<1>2. HighestGeneration(R) \in Nat
    BY HighestGenerationMax DEF Generation
<1> QED
    BY <1>1, <1>2, HighestGenerationMax

\* The recomputation looks at nothing but the generations.
LEMMA HighestGenerationSame ==
    ASSUME NEW R, NEW Q, GenerationsOf(R) = GenerationsOf(Q)
    PROVE  HighestGeneration(R) = HighestGeneration(Q)
<1>1. R = {} <=> Q = {}
    BY Zenon DEF GenerationsOf
<1> QED
    BY <1>1 DEF HighestGeneration

\* There are finitely many groups, so a conflict table can be counted.
LEMMA FiniteGroups == IsFiniteSet(Group)
<1> DEFINE P == Device \X (AnyIncarnation \X Kind)
           f == [p \in P |-> [device |-> p[1], incarnation |-> p[2][1], kind |-> p[2][2]]]
<1>1. IsFiniteSet(P)
  <2>1. IsFiniteSet(AnyIncarnation)
    BY FS_Interval, NumbersAssumption DEF AnyIncarnation
  <2>2. IsFiniteSet(AnyIncarnation \X Kind)
    BY <2>1, FS_Product, NamesAssumption, Zenon
  <2> QED
    BY <2>2, FS_Product, NamesAssumption, Zenon
<1>2. f \in [P -> Group]
    BY Zenon DEF Group
<1>3. \A g \in Group : \E p \in P : f[p] = g
  <2> TAKE g \in Group
  <2>1. <<g.device, <<g.incarnation, g.kind>>>> \in P
    BY Zenon DEF Group
  <2>2. f[<<g.device, <<g.incarnation, g.kind>>>>] = g
    BY <2>1, Zenon DEF Group
  <2> QED
    BY <2>1, <2>2, Zenon
<1>4. f \in Surjection(P, Group)
    BY <1>2, <1>3, Zenon DEF Surjection
<1> QED
    BY <1>1, <1>4, FS_Surjection, Zenon

\* The observation times of finitely many records are finitely many.
LEMMA FiniteObservations ==
    ASSUME NEW R, IsFiniteSet(R)
    PROVE  IsFiniteSet({r.evidence.observed_at : r \in R})
<1> DEFINE T == {r.evidence.observed_at : r \in R}
           f == [r \in R |-> r.evidence.observed_at]
<1>1. f \in Surjection(R, T)
    BY Zenon DEF Surjection
<1> QED
    BY <1>1, FS_Surjection, Zenon

-----------------------------------------------------------------------------
(* The inductive invariant *)

\* The variables the safety invariants are about.
world == <<streams, records, max_generation, total_records, tombstones, admitting>>

\* An EvidenceId is stored once.
DistinctEvidence == \A r, q \in records : r.evidence = q.evidence => r = q

\* Generation zero is refused on entry.
PositiveGenerations == \A r \in records : r.evidence.generation > 0

\* The record of an admission inside its budget loop is in the registry.
AdmittingStored ==
    \A a \in admitting : [evidence |-> a.evidence, lifecycle |-> "admitted"] \in records

WorldInv ==
    /\ IsFiniteSet(records)
    /\ StreamAccounting
    /\ DistinctEvidence
    /\ PositiveGenerations
    /\ AdmittingStored
    /\ OneFactPerGeneration
    /\ TombstoneFences

IInv == TypeOK /\ IsFiniteSet(resolution_table) /\ WorldInv

LEMMA WorldUnchanged == WorldInv /\ UNCHANGED world => WorldInv'
    BY Zenon DEF WorldInv, world, StreamAccounting, StreamRecords, DistinctEvidence,
           PositiveGenerations, AdmittingStored, OneFactPerGeneration, TombstoneFences

\* Fields of stored evidence.
LEMMA RecordTypes ==
    ASSUME NEW r \in StoredEvidence
    PROVE  /\ r.evidence \in CapabilityEvidence
           /\ r.lifecycle \in {"admitted", "rejected", "retired"}
           /\ r = [evidence |-> r.evidence, lifecycle |-> r.lifecycle]
           /\ r.evidence.key \in EvidenceKey
           /\ r.evidence.generation \in Generation
           /\ r.evidence.observed_at \in Ticks
    BY Zenon DEF StoredEvidence, CapabilityEvidence

\* The numbers of the stored records, of the high-water marks and of the fences.
LEMMA WorldFacts ==
    ASSUME IInv
    PROVE  /\ Generation \subseteq Nat
           /\ \A r \in records : /\ r \in StoredEvidence /\ r.evidence.key \in EvidenceKey
                                 /\ r.evidence.generation \in Nat
           /\ max_generation \in [EvidenceKey -> Generation]
           /\ \A k \in EvidenceKey : /\ max_generation[k] \in Nat
                                     /\ tombstones[k].generation \in Nat
<1>1. /\ records \subseteq StoredEvidence /\ max_generation \in [EvidenceKey -> Generation]
      /\ tombstones \in [EvidenceKey -> [generation : Generation, retired_at : Ticks \cup {0}]]
    BY Zenon DEF IInv, TypeOK
<1> HIDE DEF IInv
<1>2. Generation \subseteq Nat
    BY NumbersAssumption DEF Generation
<1>3. \A r \in records : /\ r \in StoredEvidence /\ r.evidence.key \in EvidenceKey
                         /\ r.evidence.generation \in Nat
    BY <1>1, <1>2, RecordTypes, Zenon
<1>4. \A k \in EvidenceKey : max_generation[k] \in Nat /\ tombstones[k].generation \in Nat
    BY <1>1, <1>2, Zenon
<1> QED
    BY <1>1, <1>2, <1>3, <1>4, Zenon

LEMMA GroupTypes == ASSUME NEW k \in EvidenceKey PROVE GroupOf(k) \in Group
    BY Zenon DEF EvidenceKey, GroupOf, Group

\* The evidence built from a request has the type of stored evidence.
LEMMA EvidenceTypes ==
    ASSUME TypeOK, NEW q \in AdmissionRequest
    PROVE  /\ EvidenceOf(q) \in CapabilityEvidence
           /\ q.key \in EvidenceKey
           /\ q.generation \in Generation
           /\ EvidenceOf(q).key = q.key
           /\ EvidenceOf(q).generation = q.generation
<1>1. q.key \in EvidenceKey /\ q.generation \in Generation
    BY NumbersAssumption, Zenon DEF AdmissionRequest, EvidenceKey
<1>2. q.key.source \in Source
    BY <1>1, Zenon DEF EvidenceKey
<1>3. sources[q.key.source].authority \in Rank
    BY <1>2, Zenon DEF TypeOK, SourcePolicy
<1>4. EvidenceOf(q).authority \in Rank
    BY <1>3, NumbersAssumption, Zenon DEF EvidenceOf
<1> QED
    BY <1>1, <1>4, Zenon DEF EvidenceOf, CapabilityEvidence, AdmissionRequest, TypeOK

-----------------------------------------------------------------------------
(* Types, by groups of variables that change together *)

DeviceTypes ==
    /\ incarnation_table \in
           [Device -> [current : AnyIncarnation, history : SUBSET AnyIncarnation]]
    /\ next_incarnation \in AnyIncarnation

WorldTypes ==
    /\ streams \subseteq EvidenceKey
    /\ records \subseteq StoredEvidence
    /\ max_generation \in [EvidenceKey -> Generation]
    /\ total_records \in Nat

TombstoneTypes ==
    tombstones \in [EvidenceKey -> [generation : Generation, retired_at : Ticks \cup {0}]]

PolicyTypes == sources \in [Source -> SourcePolicy] /\ limits \in LimitChoices

ClockTypes == epoch \in Nat /\ boot_epoch \in Nat /\ logical_tick \in Ticks \cup {0}

TableTypes ==
    /\ conflict_table \in [Group -> SUBSET CapabilityEvidence]
    /\ resolution_table \subseteq ConflictResolution
    /\ eviction_table \in Seq(EvictionEntry)
    /\ counters \in Counters

AdmittingTypes == admitting \subseteq Admission /\ \A a, b \in admitting : a = b

LEMMA TypeParts ==
    /\ TypeOK <=> /\ DeviceTypes /\ WorldTypes /\ TombstoneTypes /\ PolicyTypes
                  /\ ClockTypes /\ TableTypes /\ AdmittingTypes
    /\ TypeOK' <=> /\ DeviceTypes' /\ WorldTypes' /\ TombstoneTypes' /\ PolicyTypes'
                   /\ ClockTypes' /\ TableTypes' /\ AdmittingTypes'
    BY Zenon DEF TypeOK, DeviceTypes, WorldTypes, TombstoneTypes, PolicyTypes, ClockTypes,
           TableTypes, AdmittingTypes

\* Groups of variables that a step leaves alone keep their types.
LEMMA TypesUnchanged ==
    /\ DeviceTypes /\ UNCHANGED deviceVars => DeviceTypes'
    /\ WorldTypes /\ UNCHANGED worldVars => WorldTypes'
    /\ TombstoneTypes /\ UNCHANGED tombstones => TombstoneTypes'
    /\ PolicyTypes /\ UNCHANGED policyVars => PolicyTypes'
    /\ ClockTypes /\ UNCHANGED clockVars => ClockTypes'
    /\ TableTypes /\ UNCHANGED <<tableVars, counters>> => TableTypes'
    /\ AdmittingTypes /\ UNCHANGED admitting => AdmittingTypes'
    BY Zenon DEF DeviceTypes, WorldTypes, TombstoneTypes, PolicyTypes, ClockTypes, TableTypes,
           AdmittingTypes, deviceVars, worldVars, policyVars, clockVars, tableVars

\* What refresh_conflict writes is a conflict table.
LEMMA RefreshConflictTypes ==
    ASSUME TableTypes, NEW g \in Group, NEW now, records' \subseteq StoredEvidence
    PROVE  /\ refresh_conflict(g, now).table \in [Group -> SUBSET CapabilityEvidence]
           /\ refresh_conflict(g, now).dropped \in Nat
<1>1. live_ids(g, now, 0)' \subseteq CapabilityEvidence
    BY RecordTypes, Zenon DEF live_ids, live, ActiveRecords, GroupRecords
<1> QED
    BY <1>1, Zenon DEF refresh_conflict, TableTypes

LEMMA RefreshAllConflictsTypes ==
    ASSUME TableTypes, NEW now, records' \subseteq StoredEvidence,
           NEW c \in refresh_all_conflicts(now)
    PROVE  /\ c.table \in [Group -> SUBSET CapabilityEvidence]
           /\ c.dropped \in Nat
<1> DEFINE open == {g \in Group : disagrees(g, now, 0)'}
<1>1. \A g \in Group : live_ids(g, now, 0)' \subseteq CapabilityEvidence
    BY RecordTypes, Zenon DEF live_ids, live, ActiveRecords, GroupRecords
<1>2. \A K \in SUBSET open : Cardinality(open \ K) \in Nat
  <2>1. IsFiniteSet(open)
    BY FiniteGroups, FS_Subset, Zenon
  <2> QED
    BY <2>1, FS_Difference, FS_CardinalityType, Zenon
<1>3. PICK K \in SUBSET open :
        c = [table |-> [g \in Group |-> IF g \in K THEN live_ids(g, now, 0)' ELSE {}],
             dropped |-> Cardinality(open \ K)]
    BY Zenon DEF refresh_all_conflicts
<1> QED
    BY <1>1, <1>2, <1>3, Zenon

LEMMA RefreshTypes ==
    ASSUME TableTypes, NEW now, records' \subseteq StoredEvidence
    PROVE  /\ \A g \in Group : RefreshConflict(g, now) => TableTypes'
           /\ RefreshAllConflicts(now) => TableTypes'
<1>1. ASSUME NEW g \in Group, RefreshConflict(g, now) PROVE TableTypes'
  <2>1. /\ refresh_conflict(g, now).table \in [Group -> SUBSET CapabilityEvidence]
        /\ refresh_conflict(g, now).dropped \in Nat
    BY RefreshConflictTypes, Zenon
  <2>2. /\ conflict_table' = refresh_conflict(g, now).table
        /\ counters' = [counters EXCEPT !.conflicts_dropped =
                            @ + refresh_conflict(g, now).dropped]
        /\ UNCHANGED <<resolution_table, eviction_table>>
    BY <1>1, Zenon DEF RefreshConflict
  <2>3. counters' \in Counters
    BY <2>1, <2>2, SMTT(30) DEF TableTypes, Counters
  <2> QED
    BY <2>1, <2>2, <2>3, Zenon DEF TableTypes
<1>2. ASSUME RefreshAllConflicts(now) PROVE TableTypes'
  <2>1. PICK c \in refresh_all_conflicts(now) :
            /\ conflict_table' = c.table
            /\ counters' = [counters EXCEPT !.conflicts_dropped = @ + c.dropped]
            /\ UNCHANGED <<resolution_table, eviction_table>>
    BY <1>2, Zenon DEF RefreshAllConflicts
  <2>2. /\ c.table \in [Group -> SUBSET CapabilityEvidence]
        /\ c.dropped \in Nat
    BY <2>1, RefreshAllConflictsTypes, Zenon
  <2>3. counters' \in Counters
    BY <2>1, <2>2, SMTT(30) DEF TableTypes, Counters
  <2> QED
    BY <2>1, <2>2, <2>3, Zenon DEF TableTypes
<1> QED
    BY <1>1, <1>2, Zenon

\* next_incarnation keeps its width.
LEMMA PastIncarnationType ==
    ASSUME DeviceTypes, NEW i \in AnyIncarnation
    PROVE  PastIncarnation(i) \in AnyIncarnation
<1>1. (i + 1) % IncarnationModulus \in AnyIncarnation
    BY NumbersAssumption DEF AnyIncarnation
<1> QED
    BY <1>1, Zenon DEF PastIncarnation, DeviceTypes

LEMMA RegisterDeviceTypes ==
    ASSUME DeviceTypes, NEW k \in EvidenceKey, RegisterDevice(k)
    PROVE  DeviceTypes'
<1>1. k.device \in Device /\ k.incarnation \in AnyIncarnation
    BY Zenon DEF EvidenceKey
<1>2. next_incarnation' \in AnyIncarnation
    BY <1>1, PastIncarnationType, Zenon DEF RegisterDevice
<1>3. incarnation_table' \in
        [Device -> [current : AnyIncarnation, history : SUBSET AnyIncarnation]]
    BY <1>1, Zenon DEF RegisterDevice, DeviceTypes
<1> QED
    BY <1>2, <1>3, Zenon DEF DeviceTypes

LEMMA RemoveRecordTypes ==
    ASSUME WorldTypes, WorldInv, NEW r \in records, RemoveRecord(r),
           streams' \subseteq streams
    PROVE  /\ WorldTypes'
           /\ IsFiniteSet(records')
           /\ total_records' = Cardinality(records')
<1>1. r \in StoredEvidence /\ r.evidence.key \in EvidenceKey
    BY RecordTypes, Zenon DEF WorldTypes
<1>2. HighestGeneration(StreamRecords(r.evidence.key) \ {r}) \in Generation
    BY HighestGenerationMax, Zenon DEF StreamRecords, WorldTypes
<1>3. /\ IsFiniteSet(records \ {r})
      /\ Cardinality(records \ {r}) = Cardinality(records) - 1
      /\ Cardinality(records \ {r}) \in Nat
    BY FS_RemoveElement, FS_CardinalityType, Zenon DEF WorldInv
<1> QED
    BY <1>1, <1>2, <1>3, Zenon DEF RemoveRecord, WorldTypes, WorldInv, StreamAccounting

\* The five ways an admit call ends or enters its budget loop.
LEMMA AdmitTypes ==
    ASSUME IInv, NEW q \in AdmissionRequest, NEW now \in Ticks,
           \/ AdmitRefused(q, now) \/ AdmitBlocked(q, now) \/ AdmitDuplicate(q, now)
           \/ AdmitOutOfOrder(q, now) \/ AdmitStore(q, now)
    PROVE  TypeOK'
<1> USE TypeParts, TypesUnchanged DEF IInv
<1>1. /\ EvidenceOf(q) \in CapabilityEvidence
      /\ q.key \in EvidenceKey /\ q.generation \in Generation
    BY EvidenceTypes, Zenon
<1>2. RegisterDevice(q.key) => DeviceTypes'
    BY <1>1, RegisterDeviceTypes, Zenon
<1>3. CASE AdmitRefused(q, now)
    BY <1>3, Zenon DEF AdmitRefused, vars
<1>4. CASE AdmitBlocked(q, now)
    BY <1>2, <1>4, Zenon DEF AdmitBlocked
<1>5. CASE AdmitDuplicate(q, now)
    BY <1>2, <1>5, Zenon DEF AdmitDuplicate
<1>6. CASE AdmitOutOfOrder(q, now)
  <2> DEFINE rejected == [evidence |-> EvidenceOf(q), lifecycle |-> "rejected"]
  <2>1. rejected \in StoredEvidence
    BY <1>1, Zenon DEF StoredEvidence
  <2>2. DeviceTypes' /\ TombstoneTypes' /\ PolicyTypes' /\ ClockTypes' /\ AdmittingTypes'
    BY <1>2, <1>6, Zenon DEF AdmitOutOfOrder
  <2>3. CASE RefreshConflict(GroupOf(q.key), now) /\ records' = records \cup {rejected}
             /\ total_records' = total_records + 1
    <3>1. WorldTypes'
      <4>1. records' \subseteq StoredEvidence
        BY <2>1, <2>3, Zenon DEF WorldTypes
      <4>2. total_records' \in Nat
        BY <2>3 DEF WorldTypes
      <4>3. UNCHANGED <<streams, max_generation>>
        BY <1>6, Zenon DEF AdmitOutOfOrder
      <4> QED
        BY <4>1, <4>2, <4>3, Zenon DEF WorldTypes
    <3>2. TableTypes'
      BY <1>1, <2>3, <3>1, GroupTypes, RefreshTypes, Zenon DEF WorldTypes
    <3> QED
      BY <2>2, <3>1, <3>2, Zenon
  <2>4. CASE UNCHANGED <<records, total_records, tableVars, counters>>
    BY <1>6, <2>2, <2>4, Zenon DEF AdmitOutOfOrder, worldVars
  <2> QED
    BY <1>6, <2>3, <2>4, Zenon DEF AdmitOutOfOrder
<1>7. CASE AdmitStore(q, now)
  <2>1. [evidence |-> EvidenceOf(q), lifecycle |-> "admitted"] \in StoredEvidence
    BY <1>1, Zenon DEF StoredEvidence
  <2>2. DeviceTypes' /\ TombstoneTypes' /\ PolicyTypes' /\ ClockTypes' /\ TableTypes'
    BY <1>2, <1>7, Zenon DEF AdmitStore
  <2>3. /\ streams' = streams \cup {q.key}
        /\ records' = records \cup {[evidence |-> EvidenceOf(q), lifecycle |-> "admitted"]}
        /\ max_generation' = [max_generation EXCEPT ![q.key] = q.generation]
        /\ total_records' = total_records + 1
        /\ admitting' = {[evidence |-> EvidenceOf(q), now |-> now, evicted |-> {},
                          previous_max |-> max_generation[q.key]]}
    BY <1>7, Zenon DEF AdmitStore
  <2>4. WorldTypes
    BY Zenon
  <2> HIDE TypeParts, TypesUnchanged DEF IInv
  <2>5. WorldTypes'
    BY <1>1, <2>1, <2>3, <2>4, SMTT(60) DEF WorldTypes
  <2>6. AdmittingTypes'
    BY <1>1, <2>3, <2>4, SMTT(60) DEF AdmittingTypes, Admission, WorldTypes
  <2> QED
    BY <2>2, <2>5, <2>6, TypeParts, Zenon
<1> QED
    BY <1>3, <1>4, <1>5, <1>6, <1>7, Zenon

\* Counting two things at once.
LEMMA CountersTypes ==
    ASSUME NEW c \in Counters, NEW m \in Nat, NEW n \in Nat
    PROVE  /\ [c EXCEPT !.evictions_total = @ + m, !.ledger_dropped = @ + n] \in Counters
           /\ [c EXCEPT !.accepted = @ + m, !.conflicts_dropped = @ + n] \in Counters
           /\ [c EXCEPT !.tombstones_dropped = @ + m, !.conflicts_dropped = @ + n] \in Counters
<1>1. /\ c.evictions_total + m \in Nat /\ c.accepted + m \in Nat
      /\ c.tombstones_dropped + m \in Nat
      /\ c.ledger_dropped + n \in Nat /\ c.conflicts_dropped + n \in Nat
    BY DEF Counters
<1>2. [c EXCEPT !.evictions_total = @ + m, !.ledger_dropped = @ + n] \in Counters
  <2>1. [c EXCEPT !.evictions_total = @ + m].ledger_dropped = c.ledger_dropped
    BY Zenon DEF Counters
  <2> QED
    BY <1>1, <2>1, Zenon DEF Counters
<1>3. [c EXCEPT !.accepted = @ + m, !.conflicts_dropped = @ + n] \in Counters
  <2>1. [c EXCEPT !.accepted = @ + m].conflicts_dropped = c.conflicts_dropped
    BY Zenon DEF Counters
  <2> QED
    BY <1>1, <2>1, Zenon DEF Counters
<1>4. [c EXCEPT !.tombstones_dropped = @ + m, !.conflicts_dropped = @ + n] \in Counters
  <2>1. [c EXCEPT !.tombstones_dropped = @ + m].conflicts_dropped = c.conflicts_dropped
    BY Zenon DEF Counters
  <2> QED
    BY <1>1, <2>1, Zenon DEF Counters
<1> QED
    BY <1>2, <1>3, <1>4, Zenon

\* A ledger entry is written for a record that is stored, and the entry a full
\* ledger gives up exists because its bound is not zero.
LEMMA EvictionTypes ==
    ASSUME IInv, NEW r \in records, apply_eviction(r),
           UNCHANGED <<conflict_table, resolution_table>>
    PROVE  TableTypes'
<1> USE TypeParts DEF IInv
<1> DEFINE entry == [evidence |-> r.evidence, state |-> state_at_eviction(r)]
           kept == IF LedgerFull THEN Tail(eviction_table) ELSE eviction_table
<1>1. entry \in EvictionEntry
  <2>1. state_at_eviction(r) \in {"Retired", "Rejected", "Superseded", "Outranked"}
    BY RecordTypes, Zenon DEF state_at_eviction, WorldTypes
  <2> QED
    BY <2>1, RecordTypes, Zenon DEF EvictionEntry, WorldTypes
<1>2. kept \in Seq(EvictionEntry)
  <2>1. limits.max_ledger \in Nat /\ limits.max_ledger > 0
    BY PolicyAssumption, Zenon DEF PolicyTypes, RegistryLimits
  <2>2. LedgerFull => eviction_table # <<>>
    BY <2>1 DEF LedgerFull, TableTypes
  <2> QED
    BY <2>2 DEF TableTypes
<1>3. eviction_table' \in Seq(EvictionEntry)
    BY <1>1, <1>2 DEF apply_eviction
<1>4. counters' \in Counters
  <2>1. (IF LedgerFull THEN 1 ELSE 0) \in Nat
    BY Zenon
  <2> QED
    BY <2>1, CountersTypes, Zenon DEF apply_eviction, TableTypes
<1> QED
    BY <1>3, <1>4, Zenon DEF TableTypes

LEMMA BudgetTypes == ASSUME IInv, BudgetStep PROVE TypeOK'
<1> USE TypeParts, TypesUnchanged DEF IInv
<1>1. CASE AdmitEvict
  <2>1. PICK a \in admitting : \E r \in eviction_candidates(a) :
          /\ apply_eviction(r)
          /\ admitting' = {[a EXCEPT !.evicted = @ \cup {r}]}
          /\ UNCHANGED <<deviceVars, streams, tombstones, policyVars, clockVars,
                         conflict_table, resolution_table>>
    BY <1>1, Zenon DEF AdmitEvict
  <2>2. PICK r \in eviction_candidates(a) :
          /\ apply_eviction(r)
          /\ admitting' = {[a EXCEPT !.evicted = @ \cup {r}]}
          /\ UNCHANGED <<deviceVars, streams, tombstones, policyVars, clockVars,
                         conflict_table, resolution_table>>
    BY <2>1, Zenon
  <2>3. r \in records
    BY Zenon DEF eviction_candidates, EvictionScope, StreamRecords
  <2>4. WorldTypes'
    BY <2>2, <2>3, RemoveRecordTypes, Zenon DEF apply_eviction
  <2>5. TableTypes'
    BY <2>2, <2>3, EvictionTypes, Zenon
  <2>6. AdmittingTypes'
    BY <2>2, <2>3 DEF AdmittingTypes, Admission, WorldTypes
  <2> QED
    BY <2>2, <2>4, <2>5, <2>6
<1>2. CASE AdmitRollback
  <2>1. PICK a \in admitting :
          /\ RemoveRecord([evidence |-> a.evidence, lifecycle |-> "admitted"])
          /\ streams' \subseteq streams
          /\ admitting' = {}
          /\ UNCHANGED <<deviceVars, tombstones, policyVars, clockVars, tableVars, counters>>
    BY <1>2, Zenon DEF AdmitRollback
  <2>2. WorldTypes'
    BY <2>1, RemoveRecordTypes, Zenon DEF WorldInv, AdmittingStored
  <2>3. AdmittingTypes'
    BY <2>1, Zenon DEF AdmittingTypes
  <2> QED
    BY <2>1, <2>2, <2>3, Zenon
<1>3. CASE AdmitAccept
  <2>1. PICK a \in admitting :
          /\ admitting' = {}
          /\ UNCHANGED <<deviceVars, worldVars, tombstones, policyVars, clockVars,
                         resolution_table, eviction_table>>
          /\ conflict_table' = refresh_conflict(GroupOf(a.evidence.key), a.now).table
          /\ counters' = [counters EXCEPT !.accepted = @ + 1,
                              !.conflicts_dropped =
                                 @ + refresh_conflict(GroupOf(a.evidence.key), a.now).dropped]
    BY <1>3, Zenon DEF AdmitAccept
  <2>2. GroupOf(a.evidence.key) \in Group
    BY GroupTypes, Zenon DEF AdmittingTypes, Admission, CapabilityEvidence
  <2>3. WorldTypes'
    BY <2>1, Zenon
  <2>4. /\ refresh_conflict(GroupOf(a.evidence.key), a.now).table
              \in [Group -> SUBSET CapabilityEvidence]
        /\ refresh_conflict(GroupOf(a.evidence.key), a.now).dropped \in Nat
    BY <2>2, <2>3, RefreshConflictTypes, Zenon DEF WorldTypes
  <2>5. TableTypes'
    BY <2>1, <2>4, CountersTypes, Zenon DEF TableTypes
  <2>6. AdmittingTypes'
    BY <2>1, Zenon DEF AdmittingTypes
  <2> QED
    BY <2>1, <2>3, <2>5, <2>6, Zenon
<1> QED
    BY <1>1, <1>2, <1>3, Zenon DEF BudgetStep

\* What push_tombstone writes is a tombstone table.
LEMMA PushTombstoneTypes ==
    ASSUME TombstoneTypes, NEW k \in EvidenceKey,
           NEW t \in [generation : Generation, retired_at : Ticks \cup {0}],
           NEW p \in push_tombstone(k, t)
    PROVE  /\ p.table \in [EvidenceKey -> [generation : Generation, retired_at : Ticks \cup {0}]]
           /\ p.dropped \in Nat
<1> DEFINE none == [generation |-> 0, retired_at |-> 0]
           written == [tombstones EXCEPT ![k] = t]
<1>1. none \in [generation : Generation, retired_at : Ticks \cup {0}]
    BY NumbersAssumption DEF Generation
<1>2. written \in [EvidenceKey -> [generation : Generation, retired_at : Ticks \cup {0}]]
    BY Zenon DEF TombstoneTypes
<1>3. \/ p = [table |-> written, dropped |-> 0]
      \/ \E o \in EvidenceKey : p = [table |-> [written EXCEPT ![o] = none], dropped |-> 1]
    BY Zenon DEF push_tombstone, Tombstoned
<1> QED
    BY <1>1, <1>2, <1>3, SMTT(60)

LEMMA RetirementTypes == ASSUME IInv, Retirement PROVE TypeOK'
<1> USE TypeParts, TypesUnchanged DEF IInv
<1>1. PICK k \in EvidenceKey, g \in Retirements :
        RetireIgnored(k, g) \/ \E now \in Ticks : Retire(k, g, now)
    BY Zenon DEF Retirement
<1>2. CASE RetireIgnored(k, g)
    BY <1>2, Zenon DEF RetireIgnored, vars
<1>3. ASSUME NEW now \in Ticks, Retire(k, g, now) PROVE TypeOK'
  <2>1. /\ UNCHANGED <<deviceVars, streams, max_generation, total_records, policyVars,
                       clockVars, resolution_table, eviction_table, admitting>>
        /\ records' = {IF /\ r.evidence.key = k /\ r.lifecycle = "admitted"
                          /\ r.evidence.generation <= g
                       THEN [r EXCEPT !.lifecycle = "retired"] ELSE r : r \in records}
    BY <1>3, Zenon DEF Retire
  <2>2. WorldTypes'
    <3>1. \A r \in records : [r EXCEPT !.lifecycle = "retired"] \in StoredEvidence
      BY Zenon DEF WorldTypes, StoredEvidence
    <3> QED
      BY <2>1, <3>1, Zenon DEF WorldTypes
  <2>3. [generation |-> g, retired_at |-> now]
            \in [generation : Generation, retired_at : Ticks \cup {0}]
    BY NumbersAssumption, Zenon
  <2>4. PICK p \in push_tombstone(k, [generation |-> g, retired_at |-> now]) :
          /\ tombstones' = p.table
          /\ conflict_table' = refresh_conflict(GroupOf(k), now).table
          /\ counters' = [counters EXCEPT !.tombstones_dropped = @ + p.dropped,
                 !.conflicts_dropped = @ + refresh_conflict(GroupOf(k), now).dropped]
    BY <1>3, Zenon DEF Retire
  <2>5. /\ p.table \in [EvidenceKey -> [generation : Generation, retired_at : Ticks \cup {0}]]
        /\ p.dropped \in Nat
    BY <2>3, <2>4, PushTombstoneTypes, Zenon
  <2>6. /\ refresh_conflict(GroupOf(k), now).table \in [Group -> SUBSET CapabilityEvidence]
        /\ refresh_conflict(GroupOf(k), now).dropped \in Nat
    BY <2>2, GroupTypes, RefreshConflictTypes, Zenon DEF WorldTypes
  <2>7. TombstoneTypes'
    BY <2>4, <2>5, Zenon DEF TombstoneTypes
  <2>8. TableTypes'
    BY <2>1, <2>4, <2>5, <2>6, CountersTypes, Zenon DEF TableTypes
  <2> QED
    BY <2>1, <2>2, <2>7, <2>8, Zenon
<1> QED
    BY <1>1, <1>2, <1>3, Zenon

LEMMA BumpTypes == ASSUME ClockTypes, bump_policy_revision PROVE ClockTypes'
    BY DEF ClockTypes, bump_policy_revision

LEMMA DeviceStepTypes == ASSUME IInv, DeviceStep PROVE TypeOK'
<1> USE TypeParts, TypesUnchanged DEF IInv
<1>1. PICK d \in Device, now \in Ticks :
        \/ begin_device_incarnation(d, now)
        \/ \E i \in Incarnation : set_device_incarnation(d, i, now)
    BY Zenon DEF DeviceStep
<1>2. CASE begin_device_incarnation(d, now)
  <2> DEFINE i == IF next_incarnation = 0 THEN 1 ELSE next_incarnation
  <2>1. i \in AnyIncarnation /\ (i + 1) % IncarnationModulus \in AnyIncarnation
    <3>1. next_incarnation \in AnyIncarnation
      BY Zenon DEF DeviceTypes
    <3>2. 1 \in AnyIncarnation
      BY NumbersAssumption, SMTT(60) DEF AnyIncarnation
    <3>3. i \in AnyIncarnation
      BY <3>1, <3>2, Zenon
    <3> HIDE DEF i
    <3> QED
      BY <3>3, NumbersAssumption DEF AnyIncarnation
  <2>2. DeviceTypes'
    BY <1>2, <2>1 DEF begin_device_incarnation, DeviceTypes
  <2>3. WorldTypes' /\ TombstoneTypes' /\ PolicyTypes' /\ AdmittingTypes' /\ ClockTypes'
    BY <1>2, BumpTypes, Zenon DEF begin_device_incarnation
  <2>4. TableTypes'
    BY <1>2, <2>3, RefreshTypes, Zenon DEF begin_device_incarnation, WorldTypes
  <2> QED
    BY <2>2, <2>3, <2>4, Zenon
<1>3. ASSUME NEW i \in Incarnation, set_device_incarnation(d, i, now) PROVE TypeOK'
  <2>1. i \in AnyIncarnation
    BY NumbersAssumption, Zenon
  <2>2. DeviceTypes'
    BY <1>3, <2>1, PastIncarnationType, Zenon DEF set_device_incarnation, DeviceTypes
  <2>3. WorldTypes' /\ TombstoneTypes' /\ PolicyTypes' /\ AdmittingTypes'
    BY <1>3, Zenon DEF set_device_incarnation
  <2>4. ClockTypes' /\ TableTypes'
    BY <1>3, <2>3, BumpTypes, RefreshTypes, Zenon DEF set_device_incarnation, WorldTypes
  <2> QED
    BY <2>2, <2>3, <2>4, Zenon
<1> QED
    BY <1>1, <1>2, <1>3, Zenon

LEMMA SetSourceTypes ==
    ASSUME IInv, NEW s \in Source, NEW p \in SourcePolicy, NEW now \in Ticks,
           SetSource(s, p, now)
    PROVE  TypeOK'
<1> USE TypeParts, TypesUnchanged DEF IInv
<1>1. PolicyTypes'
    BY Zenon DEF SetSource, PolicyTypes
<1>2. DeviceTypes' /\ WorldTypes' /\ TombstoneTypes' /\ AdmittingTypes' /\ ClockTypes'
    BY BumpTypes, Zenon DEF SetSource
<1>3. TableTypes'
    BY <1>2, RefreshTypes, Zenon DEF SetSource, WorldTypes
<1> QED
    BY <1>1, <1>2, <1>3, Zenon

LEMMA SourceStepTypes == ASSUME IInv, SourceStep PROVE TypeOK'
<1> USE TypeParts DEF IInv
<1>1. PICK s \in Source, now \in Ticks :
        \/ revoke_source(s, now) \/ restore_source(s, now)
        \/ \E rank \in Rank : set_source_authority(s, rank, now)
        \/ \E p \in UpsertPolicies : upsert_source_policy(s, p, now)
    BY Zenon DEF SourceStep
<1>2. sources[s] \in SourcePolicy
    BY Zenon DEF PolicyTypes
<1>3. CASE revoke_source(s, now)
  <2>1. [sources[s] EXCEPT !.trust = "revoked"] \in SourcePolicy
    BY <1>2, Zenon DEF SourcePolicy, Trust
  <2> QED
    BY <1>3, <2>1, SetSourceTypes, Zenon DEF revoke_source
<1>4. CASE restore_source(s, now)
  <2>1. [sources[s] EXCEPT !.trust = "trusted"] \in SourcePolicy
    BY <1>2, Zenon DEF SourcePolicy, Trust
  <2> QED
    BY <1>4, <2>1, SetSourceTypes, Zenon DEF restore_source
<1>5. ASSUME NEW rank \in Rank, set_source_authority(s, rank, now) PROVE TypeOK'
  <2>1. [sources[s] EXCEPT !.authority = rank] \in SourcePolicy
    BY <1>2, Zenon DEF SourcePolicy
  <2> QED
    BY <1>5, <2>1, SetSourceTypes, Zenon DEF set_source_authority
<1>6. ASSUME NEW p \in UpsertPolicies, upsert_source_policy(s, p, now) PROVE TypeOK'
  <2> DEFINE q == IF p.kind = "operator" /\ p.authority < OperatorRank
                  THEN [p EXCEPT !.authority = OperatorRank] ELSE p
  <2>1. q \in SourcePolicy
    BY PolicyAssumption, NumbersAssumption DEF SourcePolicy
  <2>2. SetSource(s, q, now)
    BY <1>6, Zenon DEF upsert_source_policy
  <2> HIDE DEF q
  <2> QED
    BY <2>1, <2>2, SetSourceTypes, Zenon
<1> QED
    BY <1>1, <1>3, <1>4, <1>5, <1>6, Zenon

\* A resolution replaces at most one other and the table stays finite.
LEMMA ResolutionTypes ==
    ASSUME IInv, Resolution
    PROVE  TypeOK' /\ IsFiniteSet(resolution_table')
<1> USE TypeParts, TypesUnchanged DEF IInv
<1>1. PICK g \in Group, s \in Source, now \in Ticks :
        \E e \in conflict_table[g] : resolve_conflict(g, e, s, now)
    BY Zenon DEF Resolution
<1>2. PICK e \in conflict_table[g] : resolve_conflict(g, e, s, now)
    BY <1>1, Zenon
<1> DEFINE x == [group |-> g, members |-> conflict_table[g], chosen |-> e,
                 resolver |-> s, resolved_at |-> now]
<1>3. x \in ConflictResolution
    BY Zenon DEF ConflictResolution, TableTypes
<1>4. /\ resolution_table' \in push_resolution(x)
      /\ counters' = [counters EXCEPT !.resolutions_dropped =
             @ + Cardinality(resolution_table \ resolution_table')]
      /\ UNCHANGED <<deviceVars, worldVars, tombstones, policyVars, clockVars,
                     conflict_table, eviction_table, admitting>>
    BY <1>2, Zenon DEF resolve_conflict
<1> HIDE DEF x
<1>5. /\ resolution_table' \subseteq ConflictResolution
      /\ IsFiniteSet(resolution_table')
  <2>1. resolution_table' \subseteq resolution_table \cup {x}
    BY <1>4, Zenon DEF push_resolution
  <2>2. IsFiniteSet(resolution_table \cup {x})
    BY FS_AddElement, Zenon
  <2> QED
    BY <1>3, <2>1, <2>2, FS_Subset, Zenon DEF TableTypes
<1>6. Cardinality(resolution_table \ resolution_table') \in Nat
    BY FS_Difference, FS_CardinalityType, Zenon
<1>7. counters' \in Counters
  <2> DEFINE n == Cardinality(resolution_table \ resolution_table')
  <2>1. n \in Nat /\ counters \in Counters
        /\ counters' = [counters EXCEPT !.resolutions_dropped = @ + n]
    BY <1>4, <1>6, Zenon DEF TableTypes
  <2> HIDE DEF n
  <2> QED
    BY <2>1 DEF Counters
<1>8. TableTypes'
    BY <1>4, <1>5, <1>7, Zenon DEF TableTypes
<1> QED
    BY <1>4, <1>5, <1>8, Zenon

\* Zero, which next_incarnation wraps to, and the first incarnation handed out.
LEMMA FirstIncarnations == {0, 1} \subseteq AnyIncarnation
<1>1. IncarnationModulus \in Nat /\ IncarnationModulus > 1
    BY NumbersAssumption
<1> QED
    BY <1>1 DEF AnyIncarnation

\* The clock resumes at a time some caller passed, and not before now.
LEMMA ResumeTickType ==
    ASSUME IInv, NEW now \in Ticks
    PROVE  ResumeTick(now) \in Ticks
<1> USE TypeParts DEF IInv
<1> DEFINE seen == {r.evidence.observed_at : r \in records} \cup {logical_tick, now}
<1>1. seen \subseteq Ticks \cup {0}
    BY RecordTypes, Zenon DEF WorldTypes, ClockTypes
<1>2. IsFiniteSet(seen)
  <2>1. IsFiniteSet({r.evidence.observed_at : r \in records})
    BY FiniteObservations, Zenon DEF WorldInv
  <2>2. IsFiniteSet({r.evidence.observed_at : r \in records} \cup {logical_tick})
    BY <2>1, FS_AddElement, Zenon
  <2>3. seen = ({r.evidence.observed_at : r \in records} \cup {logical_tick}) \cup {now}
    BY Zenon
  <2> QED
    BY <2>2, <2>3, FS_AddElement, Zenon
<1>3. \E t \in seen : \A u \in seen : u <= t
  <2>1. seen \in SUBSET Nat /\ seen # {}
    BY <1>1, NumbersAssumption, Zenon
  <2> HIDE DEF seen
  <2>2. \E t \in seen : IsMax(t, seen)
    BY <1>2, <2>1, FiniteMax, Zenon
  <2> QED
    BY <2>2, Zenon DEF IsMax
<1>4. ResumeTick(now) \in seen /\ now <= ResumeTick(now)
    BY <1>3, Zenon DEF ResumeTick
<1>5. Ticks \subseteq Nat
    BY NumbersAssumption, Zenon
<1> QED
    BY <1>1, <1>4, <1>5

LEMMA AdoptTypes ==
    ASSUME IInv, NEW now \in Ticks, adopt_state(now)
    PROVE  TypeOK'
<1> USE TypeParts, TypesUnchanged DEF IInv
<1>1. DeviceTypes' /\ TombstoneTypes' /\ PolicyTypes' /\ AdmittingTypes'
  <2>1. next_incarnation \in AnyIncarnation /\ 1 \in AnyIncarnation
    BY FirstIncarnations, Zenon DEF DeviceTypes
  <2> QED
    BY <2>1, Zenon DEF adopt_state, DeviceTypes
<1>2. WorldTypes'
  <2>1. streams' \subseteq EvidenceKey
    BY RecordTypes, Zenon DEF adopt_state, WorldTypes
  <2>2. max_generation' \in [EvidenceKey -> Generation]
    <3>1. \A k \in EvidenceKey : StreamRecords(k) \in SUBSET StoredEvidence
      BY Zenon DEF StreamRecords, WorldTypes
    <3> QED
      BY <3>1, HighestGenerationMax, Zenon DEF adopt_state
  <2>3. total_records' \in Nat
    BY FS_CardinalityType, Zenon DEF adopt_state, WorldInv
  <2> QED
    BY <2>1, <2>2, <2>3, Zenon DEF adopt_state, WorldTypes
<1>3. ResumeTick(now) \in Ticks
    BY ResumeTickType, Zenon
<1>4. ClockTypes'
  <2>1. epoch' = epoch + 1 /\ boot_epoch' = boot_epoch + 1 /\ logical_tick' = ResumeTick(now)
    BY Zenon DEF adopt_state
  <2> QED
    BY <1>3, <2>1 DEF ClockTypes
<1>5. TableTypes'
    BY <1>2, RefreshTypes, Zenon DEF adopt_state, WorldTypes
<1> QED
    BY <1>1, <1>2, <1>4, <1>5, Zenon

LEMMA ClockStepTypes == ASSUME IInv, ClockStep PROVE TypeOK'
<1> USE TypeParts, TypesUnchanged DEF IInv
<1>1. CASE advance_epoch
    BY <1>1, BumpTypes, Zenon DEF advance_epoch
<1>2. ASSUME NEW now \in Ticks, set_logical_tick(now) PROVE TypeOK'
  <2>1. ClockTypes'
    BY <1>2, Zenon DEF set_logical_tick, ClockTypes
  <2> QED
    BY <1>2, <2>1, Zenon DEF set_logical_tick
<1>3. ASSUME NEW l \in LimitChoices, set_limits(l) PROVE TypeOK'
  <2>1. PolicyTypes'
    BY <1>3, Zenon DEF set_limits, PolicyTypes
  <2> QED
    BY <1>3, <2>1, BumpTypes, Zenon DEF set_limits
<1> QED
    BY <1>1, <1>2, <1>3, AdoptTypes, Zenon DEF ClockStep

LEMMA InitTypes == Init => TypeOK
<1> SUFFICES ASSUME Init PROVE TypeOK
    BY Zenon
<1>1. DeviceTypes
    BY FirstIncarnations, Zenon DEF Init, DeviceTypes
<1>2. WorldTypes /\ TombstoneTypes
  <2>1. 0 \in Generation
    BY NumbersAssumption DEF Generation
  <2>2. WorldTypes
    BY <2>1, Zenon DEF Init, WorldTypes
  <2>3. [generation |-> 0, retired_at |-> 0]
            \in [generation : Generation, retired_at : Ticks \cup {0}]
    BY <2>1, Zenon
  <2>4. TombstoneTypes
    BY <2>3, Zenon DEF Init, TombstoneTypes
  <2> QED
    BY <2>2, <2>4, Zenon
<1>3. PolicyTypes /\ ClockTypes /\ AdmittingTypes
    BY PolicyAssumption, Zenon DEF Init, PolicyTypes, ClockTypes, AdmittingTypes
<1>4. TableTypes
  <2>1. counters \in Counters
    BY Zenon DEF Init, Counters
  <2>2. conflict_table \in [Group -> SUBSET CapabilityEvidence]
    BY Zenon DEF Init
  <2>3. resolution_table = {} /\ eviction_table = <<>>
    BY Zenon DEF Init
  <2> QED
    BY <2>1, <2>2, <2>3 DEF TableTypes
<1> QED
    BY <1>1, <1>2, <1>3, <1>4, TypeParts, Zenon

-----------------------------------------------------------------------------
(* Steps that change the stored evidence *)

\* What storing one more record does to everything but the high-water marks.
LEMMA AddRecord ==
    ASSUME IInv, NEW r \in StoredEvidence, r.evidence.generation > 0,
           \A q \in records : q.evidence # r.evidence,
           records' = records \cup {r}, total_records' = total_records + 1
    PROVE  /\ IsFiniteSet(records') /\ total_records' = Cardinality(records')
           /\ DistinctEvidence' /\ PositiveGenerations'
           /\ \A k \in EvidenceKey : StreamRecords(k)' =
                IF k = r.evidence.key THEN StreamRecords(k) \cup {r} ELSE StreamRecords(k)
<1>1. r \notin records
    BY Zenon
<1>2. IsFiniteSet(records') /\ total_records' = Cardinality(records')
    BY <1>1, FS_AddElement, Zenon DEF IInv, WorldInv, StreamAccounting
<1>3. DistinctEvidence' /\ PositiveGenerations'
    BY Zenon DEF IInv, WorldInv, DistinctEvidence, PositiveGenerations
<1>4. \A k \in EvidenceKey : StreamRecords(k)' =
          IF k = r.evidence.key THEN StreamRecords(k) \cup {r} ELSE StreamRecords(k)
    BY Zenon DEF StreamRecords
<1> QED
    BY <1>2, <1>3, <1>4, Zenon

\* The high-water mark bounds the generations of a stream and is met by one.
LEMMA HighWaterMark ==
    ASSUME IInv, NEW k \in EvidenceKey
    PROVE  /\ StreamRecords(k) \in SUBSET StoredEvidence
           /\ max_generation[k] \in Nat
           /\ \A r \in StreamRecords(k) : r.evidence.generation <= max_generation[k]
           /\ max_generation[k] # 0 =>
                \E r \in StreamRecords(k) : r.evidence.generation = max_generation[k]
<1>1. StreamRecords(k) \in SUBSET StoredEvidence
    BY Zenon DEF IInv, TypeOK, StreamRecords
<1>2. max_generation[k] = HighestGeneration(StreamRecords(k))
    BY Zenon DEF IInv, WorldInv, StreamAccounting
<1>3. max_generation[k] \in Nat
    BY NumbersAssumption DEF IInv, TypeOK, Generation
<1> QED
    BY <1>1, <1>2, <1>3, HighestGenerationMax, Zenon

LEMMA OutOfOrderWorld ==
    ASSUME IInv, NEW q \in AdmissionRequest, NEW now \in Ticks, AdmitOutOfOrder(q, now)
    PROVE  WorldInv'
<1> DEFINE r == [evidence |-> EvidenceOf(q), lifecycle |-> "rejected"]
<1>1. /\ EvidenceOf(q) \in CapabilityEvidence /\ q.key \in EvidenceKey
      /\ EvidenceOf(q).key = q.key /\ EvidenceOf(q).generation = q.generation
      /\ q.generation \in Generation
    BY EvidenceTypes, Zenon DEF IInv
<1>2. r \in StoredEvidence /\ r.evidence = EvidenceOf(q) /\ r.lifecycle = "rejected"
    BY <1>1, Zenon DEF StoredEvidence
<1>3. /\ q.generation > 0 /\ q.generation <= max_generation[q.key]
      /\ max_generation[q.key] # 0 /\ admitting = {}
      /\ \A p \in records : p.evidence # EvidenceOf(q)
      /\ UNCHANGED <<streams, max_generation, tombstones, admitting>>
      /\ \/ records' = records \cup {r} /\ total_records' = total_records + 1
         \/ UNCHANGED <<records, total_records>>
  <2>1. /\ Unlocked /\ ~Refused(q, now) /\ ~AlreadyPresent(q) /\ OutOfOrder(q)
        /\ UNCHANGED <<streams, max_generation, tombstones, admitting>>
        /\ \/ records' = records \cup {r} /\ total_records' = total_records + 1
           \/ UNCHANGED <<records, total_records>>
    BY Zenon DEF AdmitOutOfOrder
  <2>2. q.generation # 0 /\ q.generation \in Nat
    BY <1>1, <2>1, WorldFacts, Zenon DEF Refused
  <2>3. q.generation > 0
    BY <2>2
  <2> QED
    BY <2>1, <2>3, Zenon DEF OutOfOrder, Unlocked, AlreadyPresent
<1> HIDE DEF r
<1>4. CASE UNCHANGED <<records, total_records>>
    BY <1>3, <1>4, WorldUnchanged, Zenon DEF IInv, world
<1>5. CASE records' = records \cup {r} /\ total_records' = total_records + 1
  <2>1. /\ IsFiniteSet(records') /\ total_records' = Cardinality(records')
        /\ DistinctEvidence' /\ PositiveGenerations'
        /\ \A k \in EvidenceKey : StreamRecords(k)' =
             IF k = q.key THEN StreamRecords(k) \cup {r} ELSE StreamRecords(k)
    BY <1>1, <1>2, <1>3, <1>5, AddRecord, Zenon
  <2>2. PICK top \in StreamRecords(q.key) :
            top.evidence.generation = max_generation[q.key]
    BY <1>1, <1>3, HighWaterMark, Zenon
  <2>3. HighestGeneration(StreamRecords(q.key) \cup {r}) = max_generation[q.key]
    <3> DEFINE R == StreamRecords(q.key) \cup {r}
    <3>1. R \in SUBSET StoredEvidence /\ top \in R
      BY <1>1, <1>2, <2>2, HighWaterMark, Zenon
    <3>2. \A p \in R : p.evidence.generation <= top.evidence.generation
      BY <1>1, <1>2, <1>3, <2>2, HighWaterMark, Zenon
    <3> QED
      BY <2>2, <3>1, <3>2, HighestGenerationIs, Zenon
  <2>4. StreamAccounting'
    <3>1. q.key \in streams
      BY <2>2, Zenon DEF IInv, WorldInv, StreamAccounting, StreamRecords
    <3>2. {p.evidence.key : p \in records'} \subseteq streams'
      BY <1>1, <1>2, <1>3, <1>5, <3>1, Zenon DEF IInv, WorldInv, StreamAccounting
    <3>3. \A k \in EvidenceKey : max_generation'[k] = HighestGeneration(StreamRecords(k)')
      BY <1>3, <2>1, <2>3, Zenon DEF IInv, WorldInv, StreamAccounting
    <3>4. \A k \in EvidenceKey : HighestGeneration(StreamRecords(k))' =
              HighestGeneration(StreamRecords(k)')
      BY Zenon DEF HighestGeneration, GenerationsOf
    <3> QED
      BY <2>1, <3>2, <3>3, <3>4, Zenon DEF StreamAccounting
  <2>5. OneFactPerGeneration' /\ TombstoneFences' /\ AdmittingStored'
    BY <1>2, <1>3, <1>5, Zenon
       DEF IInv, WorldInv, OneFactPerGeneration, TombstoneFences, AdmittingStored
  <2> QED
    BY <2>1, <2>4, <2>5, Zenon DEF WorldInv
<1> QED
    BY <1>3, <1>4, <1>5, Zenon

LEMMA StoreWorld ==
    ASSUME IInv, NEW q \in AdmissionRequest, NEW now \in Ticks, AdmitStore(q, now)
    PROVE  WorldInv'
<1> DEFINE r == [evidence |-> EvidenceOf(q), lifecycle |-> "admitted"]
<1>1. /\ EvidenceOf(q) \in CapabilityEvidence /\ q.key \in EvidenceKey
      /\ EvidenceOf(q).key = q.key /\ EvidenceOf(q).generation = q.generation
      /\ q.generation \in Nat
    BY EvidenceTypes, NumbersAssumption DEF IInv, Generation
<1>2. r \in StoredEvidence /\ r.evidence = EvidenceOf(q) /\ r.lifecycle = "admitted"
    BY <1>1, Zenon DEF StoredEvidence
<1>3. /\ tombstones[q.key].generation \in Nat /\ max_generation[q.key] \in Nat
      /\ max_generation \in [EvidenceKey -> Generation]
    BY <1>1, WorldFacts, Zenon
<1>4. /\ q.generation > 0 /\ q.generation > max_generation[q.key]
      /\ tombstones[q.key].generation < q.generation
      /\ \A p \in records : p.evidence # EvidenceOf(q)
  <2>1. ~Refused(q, now) /\ ~Blocked(q) /\ ~AlreadyPresent(q) /\ ~OutOfOrder(q)
    BY Zenon DEF AdmitStore
  <2>2. /\ q.generation # 0 /\ ~(tombstones[q.key].generation >= q.generation)
        /\ max_generation[q.key] = 0 \/ ~(q.generation <= max_generation[q.key])
        /\ \A p \in records : p.evidence # EvidenceOf(q)
    BY <2>1, Zenon DEF OutOfOrder, Blocked, Refused, AlreadyPresent
  <2> QED
    BY <1>1, <1>3, <2>2
<1>5. /\ streams' = streams \cup {q.key}
      /\ records' = records \cup {r} /\ total_records' = total_records + 1
      /\ max_generation' = [max_generation EXCEPT ![q.key] = q.generation]
      /\ \A a \in admitting' : a.evidence = EvidenceOf(q)
      /\ UNCHANGED tombstones
    BY DEF AdmitStore
<1> HIDE DEF r
<1>6. /\ IsFiniteSet(records') /\ total_records' = Cardinality(records')
      /\ DistinctEvidence' /\ PositiveGenerations'
      /\ \A k \in EvidenceKey : StreamRecords(k)' =
           IF k = q.key THEN StreamRecords(k) \cup {r} ELSE StreamRecords(k)
    BY <1>1, <1>2, <1>4, <1>5, AddRecord, Zenon
<1>7. \A p \in StreamRecords(q.key) : p.evidence.generation < q.generation
  <2> TAKE p \in StreamRecords(q.key)
  <2>1. p.evidence.generation <= max_generation[q.key] /\ p \in StoredEvidence
    BY <1>1, HighWaterMark, Zenon
  <2>2. p.evidence.generation \in Nat
    BY <2>1, RecordTypes, WorldFacts, Zenon
  <2>3. max_generation[q.key] \in Nat /\ q.generation \in Nat /\ max_generation[q.key] < q.generation
    BY <1>1, <1>3, <1>4, Zenon
  <2> QED
    BY <2>1, <2>2, <2>3
<1>8. HighestGeneration(StreamRecords(q.key) \cup {r}) = q.generation
  <2> DEFINE R == StreamRecords(q.key) \cup {r}
  <2>1. R \in SUBSET StoredEvidence /\ r \in R
    BY <1>1, <1>2, HighWaterMark, Zenon
  <2>2. \A p \in R : p.evidence.generation <= r.evidence.generation
    <3> TAKE p \in R
    <3>1. p.evidence.generation \in Nat
      BY <2>1, RecordTypes, NumbersAssumption DEF Generation
    <3> QED
      BY <1>1, <1>2, <1>7, <3>1
  <2> QED
    BY <1>1, <1>2, <2>1, <2>2, HighestGenerationIs, Zenon
<1>9. StreamAccounting'
  <2>1. {p.evidence.key : p \in records'} \subseteq streams'
    BY <1>1, <1>2, <1>5, Zenon DEF IInv, WorldInv, StreamAccounting
  <2>2. \A k \in EvidenceKey : max_generation'[k] = HighestGeneration(StreamRecords(k)')
    BY <1>3, <1>5, <1>6, <1>8, Zenon DEF IInv, WorldInv, StreamAccounting
  <2>3. \A k \in EvidenceKey : HighestGeneration(StreamRecords(k))' =
            HighestGeneration(StreamRecords(k)')
    BY Zenon DEF HighestGeneration, GenerationsOf
  <2> QED
    BY <1>6, <2>1, <2>2, <2>3, Zenon DEF StreamAccounting
<1>10. OneFactPerGeneration'
  <2>1. \A p \in records : p.evidence.key = q.key => p.evidence.generation # q.generation
    <3> TAKE p \in records
    <3>1. p.evidence.generation \in Nat
      BY WorldFacts, Zenon
    <3> QED
      BY <1>1, <1>7, <3>1 DEF StreamRecords
  <2>2. OneFactPerGeneration
    BY Zenon DEF IInv, WorldInv
  <2> QED
    BY <1>1, <1>2, <1>5, <2>1, <2>2 DEF OneFactPerGeneration
<1>11. TombstoneFences' /\ AdmittingStored'
  <2>1. TombstoneFences'
    BY <1>1, <1>2, <1>3, <1>4, <1>5 DEF IInv, WorldInv, TombstoneFences
  <2>2. r = [evidence |-> EvidenceOf(q), lifecycle |-> "admitted"]
    BY Zenon DEF r
  <2>3. AdmittingStored'
    BY <1>5, <2>2, Zenon DEF AdmittingStored
  <2> QED
    BY <2>1, <2>3, Zenon
<1> QED
    BY <1>6, <1>9, <1>10, <1>11, Zenon DEF WorldInv

\* Taking one record out keeps the invariants, whichever record it is.
LEMMA RemoveWorld ==
    ASSUME IInv, NEW r \in records, RemoveRecord(r), UNCHANGED tombstones,
           {p.evidence.key : p \in records'} \subseteq streams', AdmittingStored'
    PROVE  WorldInv'
<1>1. r \in StoredEvidence /\ r.evidence.key \in EvidenceKey
    BY RecordTypes, Zenon DEF IInv, TypeOK
<1>2. IsFiniteSet(records') /\ total_records' = Cardinality(records')
    BY FS_RemoveElement, Zenon DEF IInv, WorldInv, StreamAccounting, RemoveRecord
<1>3. \A k \in EvidenceKey : StreamRecords(k)' =
          IF k = r.evidence.key THEN StreamRecords(k) \ {r} ELSE StreamRecords(k)
    BY Zenon DEF StreamRecords, RemoveRecord
<1>4. \A k \in EvidenceKey : max_generation'[k] = HighestGeneration(StreamRecords(k)')
    BY <1>1, <1>3, Zenon DEF IInv, TypeOK, WorldInv, StreamAccounting, RemoveRecord
<1>5. \A k \in EvidenceKey : HighestGeneration(StreamRecords(k))' =
          HighestGeneration(StreamRecords(k)')
    BY Zenon DEF HighestGeneration, GenerationsOf
<1>6. StreamAccounting'
    BY <1>2, <1>4, <1>5, Zenon DEF StreamAccounting
<1>7. DistinctEvidence' /\ PositiveGenerations' /\ OneFactPerGeneration' /\ TombstoneFences'
    BY Zenon DEF RemoveRecord, IInv, WorldInv, DistinctEvidence, PositiveGenerations,
           OneFactPerGeneration, TombstoneFences
<1> QED
    BY <1>2, <1>6, <1>7 DEF WorldInv

LEMMA BudgetWorld == ASSUME IInv, BudgetStep PROVE WorldInv'
<1>1. CASE AdmitEvict
  <2>1. PICK a \in admitting : \E r \in eviction_candidates(a) :
            /\ apply_eviction(r)
            /\ admitting' = {[a EXCEPT !.evicted = @ \cup {r}]}
            /\ UNCHANGED <<streams, tombstones>>
    BY <1>1, Zenon DEF AdmitEvict
  <2>2. PICK r \in eviction_candidates(a) :
            /\ RemoveRecord(r)
            /\ admitting' = {[a EXCEPT !.evicted = @ \cup {r}]}
            /\ UNCHANGED <<streams, tombstones>>
    BY <2>1, Zenon DEF apply_eviction
  <2>3. r \in records /\ r.evidence # a.evidence
    BY <2>2, Zenon DEF eviction_candidates, EvictionScope, StreamRecords
  <2>4. AdmittingStored'
    <3>1. [evidence |-> a.evidence, lifecycle |-> "admitted"] \in records
      BY Zenon DEF IInv, WorldInv, AdmittingStored
    <3>2. a \in Admission
      BY Zenon DEF IInv, TypeOK
    <3>3. \A b \in admitting' : b.evidence = a.evidence
      BY <2>2, <3>2, Zenon DEF Admission
    <3>4. [evidence |-> a.evidence, lifecycle |-> "admitted"] # r
      BY <2>3
    <3>5. [evidence |-> a.evidence, lifecycle |-> "admitted"] \in records'
      BY <2>2, <3>1, <3>4 DEF RemoveRecord
    <3> QED
      BY <3>3, <3>5, Zenon DEF AdmittingStored
  <2>5. {p.evidence.key : p \in records'} \subseteq streams'
    BY <2>2, Zenon DEF RemoveRecord, IInv, WorldInv, StreamAccounting
  <2> QED
    BY <2>2, <2>3, <2>4, <2>5, RemoveWorld, Zenon
<1>2. CASE AdmitRollback
  <2>1. PICK a \in admitting :
            /\ RemoveRecord([evidence |-> a.evidence, lifecycle |-> "admitted"])
            /\ streams' = IF StreamRecords(a.evidence.key)' = {}
                          THEN streams \ {a.evidence.key} ELSE streams
            /\ admitting' = {} /\ UNCHANGED tombstones
    BY <1>2, Zenon DEF AdmitRollback
  <2>2. [evidence |-> a.evidence, lifecycle |-> "admitted"] \in records
    BY Zenon DEF IInv, WorldInv, AdmittingStored
  <2>3. {p.evidence.key : p \in records'} \subseteq streams'
    BY <2>1, Zenon DEF RemoveRecord, IInv, WorldInv, StreamAccounting, StreamRecords
  <2>4. AdmittingStored'
    BY <2>1, Zenon DEF AdmittingStored
  <2> QED
    BY <2>1, <2>2, <2>3, <2>4, RemoveWorld, Zenon
<1>3. CASE AdmitAccept
    BY <1>3, Zenon DEF AdmitAccept, worldVars, IInv, WorldInv, StreamAccounting, StreamRecords,
       DistinctEvidence, PositiveGenerations, AdmittingStored, OneFactPerGeneration,
       TombstoneFences
<1> QED
    BY <1>1, <1>2, <1>3, Zenon DEF BudgetStep

LEMMA RetireWorld ==
    ASSUME IInv, NEW k \in EvidenceKey, NEW g \in Retirements, NEW now \in Ticks,
           Retire(k, g, now)
    PROVE  WorldInv'
<1> DEFINE Covered(r) == /\ r.evidence.key = k /\ r.lifecycle = "admitted"
                         /\ r.evidence.generation <= g
           f == [r \in records |-> IF Covered(r) THEN [r EXCEPT !.lifecycle = "retired"]
                                   ELSE r]
<1>1. /\ records' = {f[r] : r \in records}
      /\ UNCHANGED <<streams, max_generation, total_records, admitting>>
      /\ admitting = {}
    BY DEF Retire, Unlocked
<1>2. \A r \in records : /\ f[r].evidence = r.evidence
                         /\ r.lifecycle = "rejected" <=> f[r].lifecycle = "rejected"
                         /\ f[r].lifecycle = "admitted" => r.lifecycle = "admitted" /\ ~Covered(r)
    BY RecordTypes DEF IInv, TypeOK, StoredEvidence
<1> HIDE DEF f
<1>3. IsFiniteSet(records') /\ total_records' = Cardinality(records')
  <2>1. f \in Surjection(records, records')
    BY <1>1, Zenon DEF Surjection, f
  <2>2. f \in Injection(records, records')
    <3>1. f \in [records -> records'] /\ DOMAIN f = records
      BY <1>1, Zenon DEF f
    <3>2. \A r, q \in records : f[r] = f[q] => r = q
      BY <1>2 DEF IInv, WorldInv, DistinctEvidence
    <3> QED
      BY <3>1, <3>2, Zenon DEF Injection, IsInjective
  <2> QED
    BY <1>1, <2>1, <2>2, FS_Surjection, Zenon DEF IInv, WorldInv, StreamAccounting
<1>4. DistinctEvidence' /\ PositiveGenerations' /\ AdmittingStored'
  <2>1. DistinctEvidence /\ PositiveGenerations
    BY Zenon DEF IInv, WorldInv
  <2> QED
    BY <1>1, <1>2, <2>1 DEF DistinctEvidence, PositiveGenerations, AdmittingStored
<1>5. OneFactPerGeneration'
  <2> SUFFICES ASSUME NEW r \in records, NEW q \in records,
                      f[r].evidence.key = f[q].evidence.key,
                      f[r].evidence.generation = f[q].evidence.generation,
                      f[r].lifecycle # "rejected", f[q].lifecycle # "rejected"
               PROVE  f[r] = f[q]
    BY <1>1 DEF OneFactPerGeneration
  <2> QED
    BY <1>2, Zenon DEF IInv, WorldInv, OneFactPerGeneration
<1>6. StreamAccounting'
  <2>1. \A m \in EvidenceKey : GenerationsOf(StreamRecords(m)') = GenerationsOf(StreamRecords(m))
    BY <1>1, <1>2 DEF GenerationsOf, StreamRecords
  <2>2. \A m \in EvidenceKey : HighestGeneration(StreamRecords(m)') = max_generation[m]
    BY <2>1, HighestGenerationSame, Zenon DEF IInv, WorldInv, StreamAccounting
  <2>3. \A m \in EvidenceKey : HighestGeneration(StreamRecords(m))' =
            HighestGeneration(StreamRecords(m)')
    BY Zenon DEF HighestGeneration, GenerationsOf
  <2>4. {r.evidence.key : r \in records'} \subseteq streams'
    <3>1. {r.evidence.key : r \in records} \subseteq streams
      BY Zenon DEF IInv, WorldInv, StreamAccounting
    <3> QED
      BY <1>1, <1>2, <3>1
  <2> QED
    BY <1>1, <1>3, <2>2, <2>3, <2>4, Zenon DEF StreamAccounting
<1>7. TombstoneFences'
  <2>1. PICK p \in push_tombstone(k, [generation |-> g, retired_at |-> now]) :
            tombstones' = p.table
    BY Zenon DEF Retire
  <2>2. \A m \in EvidenceKey : \/ tombstones'[m].generation = 0
                               \/ m = k /\ tombstones'[m].generation = g
                               \/ m # k /\ tombstones'[m] = tombstones[m]
    <3> DEFINE written == [tombstones EXCEPT ![k] = [generation |-> g, retired_at |-> now]]
               none == [generation |-> 0, retired_at |-> 0]
    <3>1. tombstones' = written \/ \E o \in EvidenceKey : tombstones' = [written EXCEPT ![o] = none]
      <4> DEFINE kept == [table |-> written, dropped |-> 0]
      <4>1. p = kept \/ \E o \in Tombstoned(written) :
                p = IF o = k THEN kept ELSE [table |-> [written EXCEPT ![o] = none], dropped |-> 1]
        BY <2>1, Zenon DEF push_tombstone
      <4>2. Tombstoned(written) \subseteq EvidenceKey
        BY Zenon DEF Tombstoned
      <4> HIDE DEF written, none
      <4>3. CASE p = kept
        BY <2>1, <4>3, Zenon
      <4>4. ASSUME NEW o \in Tombstoned(written), o # k,
                   p = [table |-> [written EXCEPT ![o] = none], dropped |-> 1]
            PROVE  tombstones' = [written EXCEPT ![o] = none]
        BY <2>1, <4>4, Zenon
      <4> QED
        BY <4>1, <4>2, <4>3, <4>4, Zenon
    <3>2. DOMAIN tombstones = EvidenceKey
      BY Zenon DEF IInv, TypeOK
    <3>3. \A m \in EvidenceKey : IF m = k THEN written[m] = [generation |-> g, retired_at |-> now]
                                ELSE written[m] = tombstones[m]
      BY <3>2, Zenon
    <3>4. DOMAIN written = EvidenceKey
      BY <3>2, Zenon
    <3> HIDE DEF written
    <3>5. \A m \in EvidenceKey : tombstones'[m] \in {written[m], none}
      BY <3>1, <3>4, Zenon
    <3>6. none.generation = 0
      BY Zenon
    <3>7. written[k].generation = g
      BY <3>3
    <3> HIDE DEF none
    <3> QED
      BY <3>3, <3>5, <3>6, <3>7, Zenon
  <2>3. SUFFICES ASSUME NEW r \in records, f[r].lifecycle = "admitted"
                 PROVE  r.evidence.generation > tombstones'[r.evidence.key].generation
    BY <1>1, <1>2, ZenonT(30) DEF TombstoneFences
  <2>4. /\ r.evidence.key \in EvidenceKey /\ r.evidence.generation \in Nat /\ g \in Nat
        /\ r.lifecycle = "admitted" /\ ~Covered(r)
    <3>1. Generation \subseteq Nat
      BY WorldFacts, Zenon
    <3>2. r.evidence.key \in EvidenceKey /\ r.evidence.generation \in Nat
      BY WorldFacts, Zenon
    <3>3. g \in Nat
      BY <3>1, NumbersAssumption, Zenon
    <3>4. r.lifecycle = "admitted" /\ ~Covered(r)
      BY <1>2, <2>3, Zenon
    <3> QED
      BY <3>2, <3>3, <3>4, Zenon
  <2>5. /\ r.evidence.generation > 0
        /\ r.evidence.generation > tombstones[r.evidence.key].generation
    BY <2>4, Zenon DEF IInv, WorldInv, PositiveGenerations, TombstoneFences
  <2> QED
    BY <2>2, <2>4, <2>5
<1> QED
    BY <1>3, <1>4, <1>5, <1>6, <1>7, Zenon DEF WorldInv

LEMMA AdoptWorld ==
    ASSUME IInv, NEW now \in Ticks, adopt_state(now)
    PROVE  WorldInv'
<1>1. \A k \in EvidenceKey : StreamRecords(k)' = StreamRecords(k)
    BY Zenon DEF adopt_state, StreamRecords
<1>2. \A k \in EvidenceKey : HighestGeneration(StreamRecords(k))' =
          HighestGeneration(StreamRecords(k)')
    BY Zenon DEF HighestGeneration, GenerationsOf
<1>3. StreamAccounting'
    BY <1>1, <1>2, Zenon DEF adopt_state, StreamAccounting
<1> QED
    BY <1>3, Zenon DEF adopt_state, IInv, WorldInv, DistinctEvidence, PositiveGenerations,
       AdmittingStored, OneFactPerGeneration, TombstoneFences

-----------------------------------------------------------------------------
(* The invariant is inductive *)

LEMMA InitIInv == Init => IInv
<1> SUFFICES ASSUME Init PROVE IInv
    BY Zenon
<1>1. \A k \in EvidenceKey : HighestGeneration(StreamRecords(k)) = 0
    BY Zenon DEF Init, HighestGeneration, StreamRecords
<1>2. IsFiniteSet(records) /\ IsFiniteSet(resolution_table)
      /\ total_records = Cardinality(records)
    BY FS_EmptySet, Zenon DEF Init
<1>3. StreamAccounting
    BY <1>1, <1>2, Zenon DEF Init, StreamAccounting
<1> QED
    BY <1>2, <1>3, InitTypes, Zenon DEF Init, IInv, WorldInv, DistinctEvidence,
       PositiveGenerations, AdmittingStored, OneFactPerGeneration, TombstoneFences

LEMMA NextIInv == IInv /\ [Next]_vars => IInv'
<1> SUFFICES ASSUME IInv, [Next]_vars PROVE IInv'
    BY Zenon
<1> USE DEF IInv
<1>1. CASE Admit
  <2>1. PICK q \in AdmissionRequest, now \in Ticks :
            \/ AdmitRefused(q, now) \/ AdmitBlocked(q, now) \/ AdmitDuplicate(q, now)
            \/ AdmitOutOfOrder(q, now) \/ AdmitStore(q, now)
    BY <1>1, Zenon DEF Admit
  <2>2. UNCHANGED resolution_table
    BY <2>1, Zenon DEF AdmitRefused, AdmitBlocked, AdmitDuplicate, AdmitOutOfOrder, AdmitStore,
       RefreshConflict, tableVars, vars
  <2>3. UNCHANGED world \/ AdmitOutOfOrder(q, now) \/ AdmitStore(q, now)
    BY <2>1, Zenon DEF AdmitRefused, AdmitBlocked, AdmitDuplicate, world, worldVars, vars
  <2> QED
    <3>1. WorldInv'
      BY <2>3, OutOfOrderWorld, StoreWorld, WorldUnchanged, Zenon
    <3>2. TypeOK'
      BY <2>1, AdmitTypes, Zenon
    <3> QED
      BY <2>2, <3>1, <3>2, Zenon
<1>2. CASE BudgetStep
  <2>1. UNCHANGED resolution_table
    BY <1>2, Zenon DEF BudgetStep, AdmitEvict, AdmitRollback, AdmitAccept, tableVars
  <2> QED
    BY <1>2, <2>1, BudgetTypes, BudgetWorld, Zenon
<1>3. CASE Retirement
  <2>1. PICK k \in EvidenceKey, g \in Retirements :
            RetireIgnored(k, g) \/ \E now \in Ticks : Retire(k, g, now)
    BY <1>3, Zenon DEF Retirement
  <2>2. UNCHANGED resolution_table
    BY <2>1, Zenon DEF RetireIgnored, Retire, tableVars, vars
  <2>3. UNCHANGED world \/ \E now \in Ticks : Retire(k, g, now)
    BY <2>1, Zenon DEF RetireIgnored, world, worldVars, vars
  <2> QED
    BY <1>3, <2>2, <2>3, RetirementTypes, RetireWorld, WorldUnchanged, Zenon
<1>4. CASE DeviceStep
  <2>1. UNCHANGED world /\ UNCHANGED resolution_table
    BY <1>4, Zenon DEF DeviceStep, begin_device_incarnation, set_device_incarnation,
       RefreshAllConflicts, world, worldVars, tableVars
  <2> QED
    BY <1>4, <2>1, DeviceStepTypes, WorldUnchanged, Zenon
<1>5. CASE SourceStep
  <2>1. UNCHANGED world /\ UNCHANGED resolution_table
    BY <1>5, Zenon DEF SourceStep, revoke_source, restore_source, set_source_authority,
       upsert_source_policy, SetSource, RefreshAllConflicts, world, worldVars
  <2> QED
    BY <1>5, <2>1, SourceStepTypes, WorldUnchanged, Zenon
<1>6. CASE Resolution
  <2>1. UNCHANGED world
    BY <1>6 DEF Resolution, resolve_conflict, world, worldVars
  <2> QED
    BY <1>6, <2>1, ResolutionTypes, WorldUnchanged, Zenon
<1>7. CASE ClockStep
  <2>1. UNCHANGED resolution_table
    BY <1>7, Zenon DEF ClockStep, advance_epoch, set_logical_tick, set_limits, adopt_state,
       RefreshAllConflicts, tableVars
  <2>2. UNCHANGED world \/ \E now \in Ticks : adopt_state(now)
    BY <1>7, Zenon DEF ClockStep, advance_epoch, set_logical_tick, set_limits, world, worldVars
  <2> QED
    BY <1>7, <2>1, <2>2, ClockStepTypes, AdoptWorld, WorldUnchanged, Zenon
<1>8. CASE UNCHANGED vars
  <2>1. UNCHANGED world /\ UNCHANGED resolution_table /\ TypeOK'
    BY <1>8, TypeParts, TypesUnchanged, Zenon DEF vars, world, worldVars, tableVars
  <2> QED
    BY <2>1, WorldUnchanged, Zenon
<1> QED
    BY <1>1, <1>2, <1>3, <1>4, <1>5, <1>6, <1>7, <1>8 DEF Next

-----------------------------------------------------------------------------
(* Results *)

\* The inductive invariant holds in every reachable state of the engine.
THEOREM Invariance == Spec => []IInv
    BY InitIInv, NextIInv, PTL DEF Spec

\* Every call of the engine leaves values of the declared types behind.
THEOREM TypeCorrect == Spec => []TypeOK
<1>1. IInv => TypeOK
    BY Zenon DEF IInv
<1> QED
    BY Invariance, <1>1, PTL

\* total_records and every stream's max_generation, which admit, the budget
\* loop and classify trust, agree with the stored records after every call.
THEOREM StreamAccountingHolds == Spec => []StreamAccounting
<1>1. IInv => StreamAccounting
    BY Zenon DEF IInv, WorldInv
<1> QED
    BY Invariance, <1>1, PTL

\* No sequence of admissions, evictions, retirements and restarts makes one
\* generation of a stream name two accepted facts.
THEOREM OneFactPerGenerationHolds == Spec => []OneFactPerGeneration
<1>1. IInv => OneFactPerGeneration
    BY Zenon DEF IInv, WorldInv
<1> QED
    BY Invariance, <1>1, PTL

\* No admitted record is covered by the tombstone of its stream.
THEOREM TombstoneFencesHolds == Spec => []TombstoneFences
<1>1. IInv => TombstoneFences
    BY Zenon DEF IInv, WorldInv
<1> QED
    BY Invariance, <1>1, PTL
=============================================================================
