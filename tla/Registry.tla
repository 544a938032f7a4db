------------------------------ MODULE Registry ------------------------------
(***************************************************************************)
(* The evidence engine: src/src/registry.cpp and the types of              *)
(* include/ocreg/{evidence,registry}.hpp.                                  *)
(*                                                                         *)
(* Every public call holds one exclusive lock from entry to return, so one *)
(* call is one action.  The exception is admit, whose budget loop evicts   *)
(* one record per iteration: it is one action per iteration, with the call *)
(* in progress held in "admitting".  All other actions wait for the lock.  *)
(*                                                                         *)
(* An EvidenceId is the SHA-256 of the encoded evidence, so the evidence   *)
(* record stands for its own identifier.  The order of identifiers is the  *)
(* order of hashes: where the code breaks a tie by it, or by the order of  *)
(* names in a map, the model chooses freely.  policy_revision moves in     *)
(* lock step with epoch (bump_policy_revision) and is not kept apart.      *)
(***************************************************************************)
EXTENDS Integers, FiniteSets, Sequences

CONSTANTS
    Device, Kind, Source,   \* names
    Content,                \* the payloads that records_differ tells apart
    WellFormed,             \* the payloads that pass the width and catalog checks
    Incarnation,            \* device incarnations that callers name
    IncarnationModulus,     \* 2^64 in the code: the width of next_incarnation
    MaxGeneration,          \* bound on the record generations callers name
    Retirements,            \* the generations callers retire streams at
    Ticks,                  \* the logical times callers pass
    Expiries,               \* the ends of validity callers give evidence
    Rank, OperatorRank,     \* AuthorityRank and its highest value
    InitialSources,         \* the source policies the registry starts with
    UpsertPolicies,         \* the source policies callers install later
    LimitChoices,           \* the RegistryLimits in use
    RequireConfiguredSource, RefuseUntrusted, ConservativeFence,
    RetentionHorizon, MaxFutureSkew, DefaultMaxAge,
    MaxEpoch, MaxBoot, MaxAccepted, MaxResolved     \* bounds on the counters

Trust == {"trusted", "untrusted", "revoked", "unconfigured"}
Generation == 0 .. MaxGeneration
AnyIncarnation == 0 .. IncarnationModulus - 1

\* trust = "unconfigured" stands for a source without a policy entry.
SourcePolicy == [kind : {"operator", "other"}, authority : Rank, trust : Trust,
                 max_age : Nat, durable : BOOLEAN]

RegistryLimits == [max_devices : Nat, max_incarnations : Nat, max_streams : Nat,
                   max_records : Nat, max_per_stream : Nat, max_tombstones : Nat,
                   max_conflicts : Nat, max_resolutions : Nat, max_ledger : Nat,
                   max_sources : Nat, max_decisions : Nat]

ASSUME NumbersAssumption ==
    /\ IncarnationModulus \in Nat \ {0, 1}
    /\ Incarnation \subseteq AnyIncarnation
    /\ MaxGeneration \in Nat /\ Retirements \subseteq Generation
    /\ Ticks \subseteq Nat /\ Expiries \subseteq Nat
    /\ Rank \subseteq Nat /\ 0 \in Rank /\ OperatorRank \in Rank
    /\ RetentionHorizon \in Nat /\ MaxFutureSkew \in Nat /\ DefaultMaxAge \in Nat
    /\ {MaxEpoch, MaxBoot, MaxAccepted, MaxResolved} \subseteq Nat

\* There are finitely many names.
ASSUME NamesAssumption == IsFiniteSet(Device) /\ IsFiniteSet(Kind) /\ IsFiniteSet(Source)

\* A ledger or a resolution table of size zero is erased at begin() while empty
\* (registry.cpp:753, 814), which has no defined result.
ASSUME PolicyAssumption ==
    /\ WellFormed \subseteq Content
    /\ InitialSources \in [Source -> SourcePolicy]
    /\ UpsertPolicies \subseteq SourcePolicy
    /\ \A p \in UpsertPolicies : p.trust # "unconfigured"
    /\ LimitChoices # {} /\ LimitChoices \subseteq RegistryLimits
    /\ \A l \in LimitChoices : l.max_ledger > 0 /\ l.max_resolutions > 0
    /\ {RequireConfiguredSource, RefuseUntrusted, ConservativeFence} \subseteq BOOLEAN

EvidenceKey == [device : Device, incarnation : AnyIncarnation, kind : Kind,
                source : Source]
Group == [device : Device, incarnation : AnyIncarnation, kind : Kind]
GroupOf(k) == [device |-> k.device, incarnation |-> k.incarnation, kind |-> k.kind]

\* An optional tick is a set with at most one member.
OptionalTick == {{}} \cup {{t} : t \in Expiries}

CapabilityEvidence ==
    [key : EvidenceKey, generation : Generation, content : Content,
     observed_at : Ticks, valid_until : OptionalTick, authority : Rank,
     epoch_at_ingest : Nat, boot_at_ingest : Nat]

StoredEvidence == [evidence : CapabilityEvidence,
                   lifecycle : {"admitted", "rejected", "retired"}]

\* The keys, payloads and times a caller may submit.
AdmissionRequest ==
    [key : [device : Device, incarnation : Incarnation, kind : Kind, source : Source],
     generation : Generation, content : Content, observed_at : Ticks,
     valid_until : OptionalTick]

VARIABLES
    incarnation_table,  \* Device -> current incarnation and history ({}: not registered)
    next_incarnation,
    streams,            \* the keys that have a Stream, empty ones included
    records,            \* the stored evidence of all streams
    max_generation,     \* EvidenceKey -> the stream's high-water mark
    total_records,
    tombstones,         \* EvidenceKey -> retirement (generation 0: none)
    sources,            \* policy.sources
    limits,             \* policy.limits
    epoch, boot_epoch, logical_tick,
    conflict_table,     \* Group -> the members of its open conflict ({}: none)
    resolution_table,
    eviction_table,     \* the ledger, oldest first
    counters,
    admitting           \* {} or the one admit call inside its budget loop

deviceVars == <<incarnation_table, next_incarnation>>
worldVars  == <<streams, records, max_generation, total_records>>
policyVars == <<sources, limits>>
clockVars  == <<epoch, boot_epoch, logical_tick>>
tableVars  == <<conflict_table, resolution_table, eviction_table>>
vars == <<deviceVars, worldVars, tombstones, policyVars, clockVars, tableVars,
          counters, admitting>>

Counters == [accepted : Nat, evictions_total : Nat, ledger_dropped : Nat,
             conflicts_dropped : Nat, resolutions_dropped : Nat,
             tombstones_dropped : Nat]

\* The fields of ConflictResolution; the record is its own ResolutionId.
ConflictResolution ==
    [group : Group, members : SUBSET CapabilityEvidence, chosen : CapabilityEvidence,
     resolver : Source, resolved_at : Ticks]

EvictionEntry == [evidence : CapabilityEvidence,
                  state : {"Retired", "Rejected", "Superseded", "Outranked"}]

Admission == [evidence : CapabilityEvidence, now : Ticks, previous_max : Generation,
              evicted : SUBSET StoredEvidence]

\* Every variable holds a value of the type the code declares for it.
TypeOK ==
    /\ incarnation_table \in
           [Device -> [current : AnyIncarnation, history : SUBSET AnyIncarnation]]
    /\ next_incarnation \in AnyIncarnation
    /\ streams \subseteq EvidenceKey
    /\ records \subseteq StoredEvidence
    /\ max_generation \in [EvidenceKey -> Generation]
    /\ total_records \in Nat
    /\ tombstones \in [EvidenceKey -> [generation : Generation, retired_at : Ticks \cup {0}]]
    /\ sources \in [Source -> SourcePolicy]
    /\ limits \in LimitChoices
    /\ epoch \in Nat /\ boot_epoch \in Nat /\ logical_tick \in Ticks \cup {0}
    /\ conflict_table \in [Group -> SUBSET CapabilityEvidence]
    /\ resolution_table \subseteq ConflictResolution
    /\ eviction_table \in Seq(EvictionEntry)
    /\ counters \in Counters
    /\ admitting \subseteq Admission /\ \A a, b \in admitting : a = b

-----------------------------------------------------------------------------
(* State derivation *)

Configured(s) == sources[s].trust # "unconfigured"
Registered(d) == incarnation_table[d].history # {}
StreamRecords(k) == {r \in records : r.evidence.key = k}
GroupRecords(g) == {r \in records : GroupOf(r.evidence.key) = g}
GenerationsOf(R) == {r.evidence.generation : r \in R}

\* The highest generation among R, zero when R is empty.
HighestGeneration(R) ==
    IF R = {} THEN 0
    ELSE CHOOSE g \in GenerationsOf(R) : \A h \in GenerationsOf(R) : h <= g

observed_age(now, observed_at) == IF now <= observed_at THEN 0 ELSE now - observed_at

effective_max_age(s, override) ==
    CASE override # 0 -> override
      [] override = 0 /\ ~Configured(s) -> DefaultMaxAge
      [] override = 0 /\ Configured(s) /\ sources[s].max_age # 0 -> sources[s].max_age
      [] override = 0 /\ Configured(s) /\ sources[s].max_age = 0 ->
           IF sources[s].kind = "operator" THEN 0 ELSE DefaultMaxAge

\* Mutant: the boot epoch is not looked at.
FencedIgnoringBoot(e) ==
    LET entry == incarnation_table[e.key.device]
        source == sources[e.key.source]
    IN  \/ entry.history = {} \/ entry.current # e.key.incarnation
        \/ source.trust \in {"unconfigured", "revoked"}
        \/ source.trust = "untrusted" /\ RefuseUntrusted

\* Neither the device, the source nor the boot epoch of e is current.
Fenced(e) ==
    LET entry == incarnation_table[e.key.device]
        source == sources[e.key.source]
    IN  \/ entry.history = {} \/ entry.current # e.key.incarnation
        \/ source.trust \in {"unconfigured", "revoked"}
        \/ source.trust = "untrusted" /\ RefuseUntrusted
        \/ e.boot_at_ingest > boot_epoch
        \/ e.boot_at_ingest < boot_epoch /\ ~source.durable /\ ConservativeFence

Aged(e, now, override) ==
    LET bound == effective_max_age(e.key.source, override)
    IN  \/ bound # 0 /\ observed_age(now, e.observed_at) > bound
        \/ \E t \in e.valid_until : now > t

\* classify for a record whose stream has the given high-water mark.
ClassifyAt(r, high, now, override) ==
    CASE r.lifecycle = "rejected" -> "Rejected"
      [] r.lifecycle = "retired" -> "Retired"
      [] r.lifecycle = "admitted" ->
           IF r.evidence.generation < high THEN "Superseded"
           ELSE IF Fenced(r.evidence) THEN "Fenced"
           ELSE IF Aged(r.evidence, now, override) THEN "Stale"
           ELSE "Active"

classify(r, now, override) ==
    ClassifyAt(r, max_generation[r.evidence.key], now, override)

\* derive: the active records of a group, and those at the highest authority.
ActiveRecords(g, now, override) ==
    {r \in GroupRecords(g) : classify(r, now, override) = "Active"}

Outranked(r, now, override) ==
    \E a \in ActiveRecords(GroupOf(r.evidence.key), now, override) :
        a.evidence.authority > r.evidence.authority

live(g, now, override) ==
    {r \in ActiveRecords(g, now, override) : ~Outranked(r, now, override)}

records_differ(e, f) == e.content # f.content

disagrees(g, now, override) ==
    \E r, q \in live(g, now, override) : records_differ(r.evidence, q.evidence)

live_ids(g, now, override) == {r.evidence : r \in live(g, now, override)}

-----------------------------------------------------------------------------
(* Conflict table: recomputed after the primed world is known. *)

OpenConflicts(table) == {g \in Group : table[g] # {}}

refresh_conflict(g, now) ==
    LET open == disagrees(g, now, 0)'
        full == /\ conflict_table[g] = {}
                /\ Cardinality(OpenConflicts(conflict_table)) >= limits.max_conflicts
    IN  [table |-> IF ~open THEN [conflict_table EXCEPT ![g] = {}]
                   ELSE IF full THEN conflict_table
                   ELSE [conflict_table EXCEPT ![g] = live_ids(g, now, 0)'],
         dropped |-> IF open /\ full THEN 1 ELSE 0]

\* The table is cleared and refilled in key order until it is full.
refresh_all_conflicts(now) ==
    LET open == {g \in Group : disagrees(g, now, 0)'}
    IN  {[table |-> [g \in Group |-> IF g \in kept THEN live_ids(g, now, 0)' ELSE {}],
          dropped |-> Cardinality(open \ kept)] :
            kept \in {K \in SUBSET open :
                        Cardinality(K) = IF Cardinality(open) <= limits'.max_conflicts
                                         THEN Cardinality(open)
                                         ELSE limits'.max_conflicts}}

RefreshConflict(g, now) ==
    /\ conflict_table' = refresh_conflict(g, now).table
    /\ counters' = [counters EXCEPT !.conflicts_dropped =
                        @ + refresh_conflict(g, now).dropped]
    /\ UNCHANGED <<resolution_table, eviction_table>>

\* Mutant: a policy change leaves the conflict table as it was.
KeepAllConflicts(now) == UNCHANGED <<tableVars, counters>>

RefreshAllConflicts(now) ==
    /\ \E c \in refresh_all_conflicts(now) :
        /\ conflict_table' = c.table
        /\ counters' = [counters EXCEPT !.conflicts_dropped = @ + c.dropped]
    /\ UNCHANGED <<resolution_table, eviction_table>>

-----------------------------------------------------------------------------
(* Admission *)

Unlocked == admitting = {}

\* The early returns of admit that leave no trace but a counter.
Refused(q, now) ==
    LET source == sources[q.key.source]
        entry == incarnation_table[q.key.device]
    IN  \/ q.generation = 0
        \/ \E t \in q.valid_until : t < q.observed_at
        \/ q.observed_at - now > MaxFutureSkew
        \/ /\ RetentionHorizon # 0 /\ now # 0
           /\ observed_age(now, q.observed_at) > RetentionHorizon
        \/ source.trust = "unconfigured" /\ RequireConfiguredSource
        \/ source.trust = "revoked"
        \/ source.trust = "untrusted" /\ RefuseUntrusted
        \/ q.content \notin WellFormed
        \/ /\ entry.history = {}
           /\ Cardinality({d \in Device : Registered(d)}) >= limits.max_devices
        \/ /\ entry.history # {}
           /\ q.key.incarnation \notin entry.history
           /\ Cardinality(entry.history) >= limits.max_incarnations

\* Mutant: an incarnation named by a caller is not counted.
IgnoreIncarnation(i) == next_incarnation

\* next_incarnation stays above an incarnation a caller named.
PastIncarnation(i) ==
    IF next_incarnation <= i THEN (i + 1) % IncarnationModulus ELSE next_incarnation

\* Mutant: a known device does not remember the incarnation.
RegisterFirstOnly(k) ==
    LET entry == incarnation_table[k.device]
    IN  /\ incarnation_table' = IF entry.history # {} THEN incarnation_table
               ELSE [incarnation_table EXCEPT ![k.device] =
                   [current |-> k.incarnation, history |-> {k.incarnation}]]
        /\ next_incarnation' = PastIncarnation(k.incarnation)

\* A new device starts at the requested incarnation; a known one only remembers it.
RegisterDevice(k) ==
    LET entry == incarnation_table[k.device]
    IN  /\ incarnation_table' = [incarnation_table EXCEPT ![k.device] =
               [current |-> IF entry.history = {} THEN k.incarnation ELSE entry.current,
                history |-> entry.history \cup {k.incarnation}]]
        /\ next_incarnation' = PastIncarnation(k.incarnation)

\* Mutant: the retired generation itself may return.
BlockedStrictly(q) ==
    \/ q.key \notin streams /\ Cardinality(streams) >= limits.max_streams
    \/ tombstones[q.key].generation > q.generation

\* Refusals after the device was registered: no stream budget, or retired.
Blocked(q) ==
    \/ q.key \notin streams /\ Cardinality(streams) >= limits.max_streams
    \/ tombstones[q.key].generation >= q.generation

EvidenceOf(q) ==
    [key |-> q.key, generation |-> q.generation, content |-> q.content,
     observed_at |-> q.observed_at, valid_until |-> q.valid_until,
     authority |-> IF Configured(q.key.source) THEN sources[q.key.source].authority ELSE 0,
     epoch_at_ingest |-> epoch, boot_at_ingest |-> boot_epoch]

AlreadyPresent(q) == \E r \in records : r.evidence = EvidenceOf(q)

\* Mutant: a generation collision is accepted.
OutOfOrderStrictly(q) == max_generation[q.key] # 0 /\ q.generation < max_generation[q.key]

\* Generation regression or collision.
OutOfOrder(q) == max_generation[q.key] # 0 /\ q.generation <= max_generation[q.key]

AdmitRefused(q, now) ==
    /\ Unlocked /\ Refused(q, now)
    /\ UNCHANGED vars

AdmitBlocked(q, now) ==
    /\ Unlocked /\ ~Refused(q, now) /\ Blocked(q)
    /\ RegisterDevice(q.key)
    /\ UNCHANGED <<worldVars, tombstones, policyVars, clockVars, tableVars, counters, admitting>>

AdmitDuplicate(q, now) ==
    /\ Unlocked /\ ~Refused(q, now) /\ ~Blocked(q) /\ AlreadyPresent(q)
    /\ RegisterDevice(q.key)
    /\ UNCHANGED <<worldVars, tombstones, policyVars, clockVars, tableVars, counters, admitting>>

\* An out-of-order delivery is kept as rejected evidence when the bounds allow.
AdmitOutOfOrder(q, now) ==
    /\ Unlocked /\ ~Refused(q, now) /\ ~Blocked(q) /\ ~AlreadyPresent(q) /\ OutOfOrder(q)
    /\ RegisterDevice(q.key)
    /\ UNCHANGED <<streams, max_generation, tombstones, policyVars, clockVars, admitting>>
    /\ IF /\ Cardinality(StreamRecords(q.key)) < limits.max_per_stream
          /\ total_records < limits.max_records
       THEN /\ records' = records \cup {[evidence |-> EvidenceOf(q), lifecycle |-> "rejected"]}
            /\ total_records' = total_records + 1
            /\ RefreshConflict(GroupOf(q.key), now)
       ELSE UNCHANGED <<records, total_records, tableVars, counters>>

\* The record is inserted first; the budget loop follows under the same lock.
AdmitStore(q, now) ==
    /\ Unlocked /\ ~Refused(q, now) /\ ~Blocked(q) /\ ~AlreadyPresent(q) /\ ~OutOfOrder(q)
    /\ counters.accepted < MaxAccepted
    /\ RegisterDevice(q.key)
    /\ streams' = streams \cup {q.key}
    /\ records' = records \cup {[evidence |-> EvidenceOf(q), lifecycle |-> "admitted"]}
    /\ max_generation' = [max_generation EXCEPT ![q.key] = q.generation]
    /\ total_records' = total_records + 1
    /\ admitting' = {[evidence |-> EvidenceOf(q), now |-> now, evicted |-> {},
                      previous_max |-> max_generation[q.key]]}
    /\ UNCHANGED <<tombstones, policyVars, clockVars, tableVars, counters>>

-----------------------------------------------------------------------------
(* The budget loop: enforce_budget, pick_eviction_candidate, apply_eviction *)

\* Mutant: fenced evidence goes before superseded evidence.
FencedFirstPriority(r, now) ==
    CASE classify(r, now, 0) = "Rejected"   -> 0
      [] classify(r, now, 0) = "Superseded" -> 2
      [] classify(r, now, 0) = "Fenced"     -> 1
      [] classify(r, now, 0) = "Stale"      -> 3
      [] classify(r, now, 0) = "Retired"    -> 4
      [] classify(r, now, 0) = "Active"     -> 5

\* Mutant: rejected evidence is kept longest.
RejectedLastPriority(r, now) ==
    CASE classify(r, now, 0) = "Rejected"   -> 4
      [] classify(r, now, 0) = "Superseded" -> 1
      [] classify(r, now, 0) = "Fenced"     -> 2
      [] classify(r, now, 0) = "Stale"      -> 3
      [] classify(r, now, 0) = "Retired"    -> 0
      [] classify(r, now, 0) = "Active"     -> 5

eviction_priority(r, now) ==
    CASE classify(r, now, 0) = "Rejected"   -> 0
      [] classify(r, now, 0) = "Superseded" -> 1
      [] classify(r, now, 0) = "Fenced"     -> 2
      [] classify(r, now, 0) = "Stale"      -> 3
      [] classify(r, now, 0) = "Retired"    -> 4
      [] classify(r, now, 0) = "Active"     -> 5

\* Mutant: everything may be evicted.
AlwaysEvictable(r, now) == eviction_priority(r, now) <= 5

Evictable(r, now) == eviction_priority(r, now) <= 4 \/ Outranked(r, now, 0)

\* Mutant: the record bound is off by one.
OverRecordsByTwo == total_records > limits.max_records + 1

OverRecords == total_records > limits.max_records
OverStream(k) == Cardinality(StreamRecords(k)) > limits.max_per_stream

\* The records one iteration may remove: anywhere while the registry is over
\* its bound, then in the stream of the incoming record; never that record.
EvictionScope(a) ==
    {r \in IF OverRecords THEN records ELSE StreamRecords(a.evidence.key) :
        r.evidence # a.evidence /\ Evictable(r, a.now)}

\* Lowest priority first, then the oldest observation, then the lowest id.
eviction_candidates(a) ==
    {r \in EvictionScope(a) : \A s \in EvictionScope(a) :
        \/ eviction_priority(r, a.now) < eviction_priority(s, a.now)
        \/ /\ eviction_priority(r, a.now) = eviction_priority(s, a.now)
           /\ r.evidence.observed_at <= s.evidence.observed_at}

state_at_eviction(r) ==
    CASE r.lifecycle = "retired"  -> "Retired"
      [] r.lifecycle = "rejected" -> "Rejected"
      [] r.lifecycle = "admitted" ->
           IF r.evidence.generation < max_generation[r.evidence.key]
           THEN "Superseded" ELSE "Outranked"

LedgerFull == Len(eviction_table) >= limits.max_ledger

\* Mutant: the high-water mark is left behind.
RemoveRecordOnly(r) ==
    /\ records' = records \ {r}
    /\ total_records' = total_records - 1
    /\ UNCHANGED max_generation

\* Removing r from its stream recomputes the stream's high-water mark.
RemoveRecord(r) ==
    /\ records' = records \ {r}
    /\ total_records' = total_records - 1
    /\ max_generation' = [max_generation EXCEPT ![r.evidence.key] =
                              HighestGeneration(StreamRecords(r.evidence.key) \ {r})]

\* Mutant: an entry pushed out of the ledger is not counted.
EvictWithoutCount(r) ==
    /\ RemoveRecord(r)
    /\ eviction_table' = Append(IF LedgerFull THEN Tail(eviction_table) ELSE eviction_table,
                                [evidence |-> r.evidence, state |-> state_at_eviction(r)])
    /\ counters' = [counters EXCEPT !.evictions_total = @ + 1]

apply_eviction(r) ==
    /\ RemoveRecord(r)
    /\ eviction_table' = Append(IF LedgerFull THEN Tail(eviction_table) ELSE eviction_table,
                                [evidence |-> r.evidence, state |-> state_at_eviction(r)])
    /\ counters' = [counters EXCEPT !.evictions_total = @ + 1,
                                    !.ledger_dropped = @ + (IF LedgerFull THEN 1 ELSE 0)]

OverBudget(a) == OverRecords \/ OverStream(a.evidence.key)

\* Mutant: the candidate is not found and the loop goes on.
EvictNothing ==
    /\ \E a \in admitting : OverBudget(a) /\ eviction_candidates(a) # {}
    /\ UNCHANGED vars

AdmitEvict ==
    \E a \in admitting :
        /\ OverBudget(a)
        /\ \E r \in eviction_candidates(a) :
            /\ apply_eviction(r)
            /\ admitting' = {[a EXCEPT !.evicted = @ \cup {r}]}
        /\ UNCHANGED <<deviceVars, streams, tombstones, policyVars, clockVars,
                       conflict_table, resolution_table>>

\* Nothing evictable is left: the incoming record is taken out again.
AdmitRollback ==
    \E a \in admitting :
        /\ OverBudget(a) /\ eviction_candidates(a) = {}
        /\ RemoveRecord([evidence |-> a.evidence, lifecycle |-> "admitted"])
        /\ streams' = IF StreamRecords(a.evidence.key)' = {}
                      THEN streams \ {a.evidence.key} ELSE streams
        /\ admitting' = {}
        /\ UNCHANGED <<deviceVars, tombstones, policyVars, clockVars, tableVars, counters>>

AdmitAccept ==
    \E a \in admitting :
        /\ ~OverBudget(a)
        /\ admitting' = {}
        /\ UNCHANGED <<deviceVars, worldVars, tombstones, policyVars, clockVars,
                       resolution_table, eviction_table>>
        /\ LET c == refresh_conflict(GroupOf(a.evidence.key), a.now)
           IN  /\ conflict_table' = c.table
               /\ counters' = [counters EXCEPT !.accepted = @ + 1,
                                               !.conflicts_dropped = @ + c.dropped]

-----------------------------------------------------------------------------
(* Retirement *)

RetireRefused(k, g) ==
    \/ g = 0
    \/ ~Configured(k.source) /\ RequireConfiguredSource
    \/ ~Registered(k.device)
    \/ tombstones[k].generation > g
    \/ tombstones[k].generation # g /\ (k \notin streams \/ g <= max_generation[k])

Tombstoned(ts) == {k \in EvidenceKey : ts[k].generation # 0}

\* When the bound is passed the oldest tombstone goes, unless it is the new one.
push_tombstone(k, t) ==
    LET written == [tombstones EXCEPT ![k] = t]
        oldest == {o \in Tombstoned(written) : \A p \in Tombstoned(written) :
                       written[o].retired_at <= written[p].retired_at}
        none == [generation |-> 0, retired_at |-> 0]
    IN  IF Cardinality(Tombstoned(written)) <= limits.max_tombstones
        THEN {[table |-> written, dropped |-> 0]}
        ELSE {IF o = k THEN [table |-> written, dropped |-> 0]
              ELSE [table |-> [written EXCEPT ![o] = none], dropped |-> 1] : o \in oldest}

Retire(k, g, now) ==
    /\ Unlocked /\ ~RetireRefused(k, g) /\ tombstones[k].generation # g
    /\ records' = {IF /\ r.evidence.key = k /\ r.lifecycle = "admitted"
                      /\ r.evidence.generation <= g
                   THEN [r EXCEPT !.lifecycle = "retired"] ELSE r : r \in records}
    /\ UNCHANGED <<deviceVars, streams, max_generation, total_records, policyVars,
                   clockVars, resolution_table, eviction_table, admitting>>
    /\ LET c == refresh_conflict(GroupOf(k), now)
       IN  \E p \in push_tombstone(k, [generation |-> g, retired_at |-> now]) :
            /\ tombstones' = p.table
            /\ conflict_table' = c.table
            /\ counters' = [counters EXCEPT !.tombstones_dropped = @ + p.dropped,
                                            !.conflicts_dropped = @ + c.dropped]

\* A refused retirement, and the repetition of one, change nothing.
RetireIgnored(k, g) ==
    /\ Unlocked
    /\ RetireRefused(k, g) \/ tombstones[k].generation = g
    /\ UNCHANGED vars

-----------------------------------------------------------------------------
(* Devices, sources, conflicts, clock and limits *)

bump_policy_revision ==
    /\ epoch < MaxEpoch
    /\ epoch' = epoch + 1
    /\ UNCHANGED <<boot_epoch, logical_tick>>

DeviceBudgetLeft(d) ==
    IF Registered(d) THEN Cardinality(incarnation_table[d].history) < limits.max_incarnations
    ELSE Cardinality({e \in Device : Registered(e)}) < limits.max_devices

\* A wrapped counter restarts at 1.  Only a known device recomputes conflicts.
begin_device_incarnation(d, now) ==
    LET i == IF next_incarnation = 0 THEN 1 ELSE next_incarnation
    IN  /\ Unlocked /\ DeviceBudgetLeft(d)
        /\ bump_policy_revision
        /\ next_incarnation' = (i + 1) % IncarnationModulus
        /\ incarnation_table' = [incarnation_table EXCEPT ![d] =
               [current |-> i, history |-> @.history \cup {i}]]
        /\ UNCHANGED <<worldVars, tombstones, policyVars, admitting>>
        /\ IF Registered(d) THEN RefreshAllConflicts(now) ELSE UNCHANGED <<tableVars, counters>>

set_device_incarnation(d, i, now) ==
    /\ Unlocked /\ i # 0
    /\ i \in incarnation_table[d].history \/ DeviceBudgetLeft(d)
    /\ next_incarnation' = PastIncarnation(i)
    /\ incarnation_table' = [incarnation_table EXCEPT ![d] =
           [current |-> i, history |-> @.history \cup {i}]]
    /\ UNCHANGED <<worldVars, tombstones, policyVars, admitting>>
    /\ IF Registered(d) /\ incarnation_table[d].current = i
       THEN UNCHANGED <<clockVars, tableVars, counters>>
       ELSE bump_policy_revision /\ RefreshAllConflicts(now)

SetSource(s, p, now) ==
    /\ Unlocked
    /\ sources' = [sources EXCEPT ![s] = p]
    /\ bump_policy_revision
    /\ UNCHANGED <<deviceVars, worldVars, tombstones, limits, admitting>>
    /\ RefreshAllConflicts(now)

revoke_source(s, now) ==
    /\ sources[s].trust \notin {"unconfigured", "revoked"}
    /\ SetSource(s, [sources[s] EXCEPT !.trust = "revoked"], now)

restore_source(s, now) ==
    /\ sources[s].trust \notin {"unconfigured", "trusted"}
    /\ SetSource(s, [sources[s] EXCEPT !.trust = "trusted"], now)

set_source_authority(s, rank, now) ==
    /\ Configured(s) /\ sources[s].authority # rank
    /\ SetSource(s, [sources[s] EXCEPT !.authority = rank], now)

\* An operator source is never ranked below Operator.
upsert_source_policy(s, p, now) ==
    /\ \/ Configured(s)
       \/ Cardinality({t \in Source : Configured(t)}) < limits.max_sources
    /\ SetSource(s, IF p.kind = "operator" /\ p.authority < OperatorRank
                    THEN [p EXCEPT !.authority = OperatorRank] ELSE p, now)

\* A full table gives up the resolution with the lowest id, which may be any.
push_resolution(x) ==
    IF x \in resolution_table THEN {resolution_table}
    ELSE IF Cardinality(resolution_table) < limits.max_resolutions
         THEN {resolution_table \cup {x}}
         ELSE {(resolution_table \ {y}) \cup {x} : y \in resolution_table}

resolve_conflict(g, e, s, now) ==
    /\ Unlocked
    /\ Cardinality(resolution_table) + counters.resolutions_dropped < MaxResolved
    /\ e \in conflict_table[g]
    /\ RequireConfiguredSource => Configured(s)
    /\ sources[s].trust \in {"trusted", "unconfigured"}
    /\ LET x == [group |-> g, members |-> conflict_table[g], chosen |-> e,
                 resolver |-> s, resolved_at |-> now]
       IN  /\ resolution_table' \in push_resolution(x)
           /\ counters' = [counters EXCEPT !.resolutions_dropped =
                  @ + Cardinality(resolution_table \ resolution_table')]
    /\ UNCHANGED <<deviceVars, worldVars, tombstones, policyVars, clockVars,
                   conflict_table, eviction_table, admitting>>

advance_epoch ==
    /\ Unlocked
    /\ bump_policy_revision
    /\ UNCHANGED <<deviceVars, worldVars, tombstones, policyVars, tableVars, counters, admitting>>

set_logical_tick(now) ==
    /\ Unlocked
    /\ now >= logical_tick
    /\ logical_tick' = now
    /\ UNCHANGED <<deviceVars, worldVars, tombstones, policyVars, epoch, boot_epoch,
                   tableVars, counters, admitting>>

\* New limits are not enforced until the next admission.
set_limits(l) ==
    /\ Unlocked
    /\ limits' = l
    /\ bump_policy_revision
    /\ UNCHANGED <<deviceVars, worldVars, tombstones, sources, tableVars, counters, admitting>>

-----------------------------------------------------------------------------
(* Restart: snapshot_state in one process, adopt_state in the next. *)

\* Mutant: the clock resumes one tick after the latest observation.
ResumeAfter(now) ==
    LET seen == {r.evidence.observed_at : r \in records} \cup {logical_tick, now}
    IN  1 + CHOOSE t \in seen : \A u \in seen : u <= t

\* Mutant: observations ahead of the saved tick are not looked at.
ResumeAtSavedTick(now) == IF now > logical_tick THEN now ELSE logical_tick

\* The clock resumes at the latest of the saved tick, now and any observation.
ResumeTick(now) ==
    LET seen == {r.evidence.observed_at : r \in records} \cup {logical_tick, now}
    IN  CHOOSE t \in seen : \A u \in seen : u <= t

\* Empty streams are not part of a state, and high-water marks are recomputed.
adopt_state(now) ==
    /\ Unlocked
    /\ boot_epoch < MaxBoot
    /\ boot_epoch' = boot_epoch + 1
    /\ epoch' = epoch + 1
    /\ next_incarnation' = IF next_incarnation = 0 THEN 1 ELSE next_incarnation
    /\ streams' = {r.evidence.key : r \in records}
    /\ max_generation' = [k \in EvidenceKey |-> HighestGeneration(StreamRecords(k))]
    /\ total_records' = Cardinality(records)
    /\ UNCHANGED <<incarnation_table, records, tombstones, policyVars, admitting>>
    /\ \E resume \in {ResumeTick(now)} :
        /\ logical_tick' = resume
        /\ RefreshAllConflicts(resume)

-----------------------------------------------------------------------------
Init ==
    /\ incarnation_table = [d \in Device |-> [current |-> 0, history |-> {}]]
    /\ next_incarnation = 1
    /\ streams = {} /\ records = {} /\ total_records = 0
    /\ max_generation = [k \in EvidenceKey |-> 0]
    /\ tombstones = [k \in EvidenceKey |-> [generation |-> 0, retired_at |-> 0]]
    /\ sources = InitialSources
    /\ limits \in LimitChoices
    /\ epoch = 1 /\ boot_epoch = 1 /\ logical_tick = 0
    /\ conflict_table = [g \in Group |-> {}]
    /\ resolution_table = {} /\ eviction_table = <<>>
    /\ counters = [accepted |-> 0, evictions_total |-> 0, ledger_dropped |-> 0,
                   conflicts_dropped |-> 0, resolutions_dropped |-> 0,
                   tombstones_dropped |-> 0]
    /\ admitting = {}

Admit == \E q \in AdmissionRequest, now \in Ticks :
    \/ AdmitRefused(q, now) \/ AdmitBlocked(q, now) \/ AdmitDuplicate(q, now)
    \/ AdmitOutOfOrder(q, now) \/ AdmitStore(q, now)

BudgetStep == AdmitEvict \/ AdmitRollback \/ AdmitAccept

Retirement == \E k \in EvidenceKey, g \in Retirements :
    RetireIgnored(k, g) \/ \E now \in Ticks : Retire(k, g, now)

DeviceStep == \E d \in Device, now \in Ticks :
    \/ begin_device_incarnation(d, now)
    \/ \E i \in Incarnation : set_device_incarnation(d, i, now)

SourceStep == \E s \in Source, now \in Ticks :
    \/ revoke_source(s, now) \/ restore_source(s, now)
    \/ \E rank \in Rank : set_source_authority(s, rank, now)
    \/ \E p \in UpsertPolicies : upsert_source_policy(s, p, now)

Resolution == \E g \in Group, s \in Source, now \in Ticks :
    \E e \in conflict_table[g] : resolve_conflict(g, e, s, now)

ClockStep == \/ advance_epoch
             \/ \E now \in Ticks : set_logical_tick(now) \/ adopt_state(now)
             \/ \E l \in LimitChoices : set_limits(l)

Next == Admit \/ BudgetStep \/ Retirement \/ DeviceStep \/ SourceStep \/ Resolution \/ ClockStep

Spec == Init /\ [][Next]_vars

\* The budget loop runs inside one call: its thread does not stop half way.
FairSpec == Spec /\ WF_vars(BudgetStep)

-----------------------------------------------------------------------------
(* Properties *)

\* The cached aggregates agree with the stored records: the record count that
\* the budget loop compares, and every stream's high-water mark.  A restart
\* recomputes both, so a drift would change what the registry accepts.
StreamAccounting ==
    /\ total_records = Cardinality(records)
    /\ \A k \in EvidenceKey : max_generation[k] = HighestGeneration(StreamRecords(k))
    /\ {r.evidence.key : r \in records} \subseteq streams

\* Within a stream a generation names at most one accepted fact: a collision is
\* kept as rejected evidence, whatever was evicted, retired or restarted since.
OneFactPerGeneration ==
    \A r, q \in records :
        /\ r.evidence.key = q.evidence.key /\ r.evidence.generation = q.evidence.generation
        /\ r.lifecycle # "rejected" /\ q.lifecycle # "rejected"
        => r = q

\* Rejected evidence never carries a stream's high-water mark by itself: the
\* accepted record that fenced it off is evicted later than it is.
RejectedIsDominated ==
    \A r \in records : r.lifecycle = "rejected" =>
        \E q \in records : /\ q.evidence.key = r.evidence.key
                           /\ q.lifecycle # "rejected"
                           /\ q.evidence.generation >= r.evidence.generation

\* A tombstone fences every generation it covers: what is admitted in a retired
\* stream is newer than the retirement.
TombstoneFences ==
    \A r \in records : r.lifecycle = "admitted" =>
        r.evidence.generation > tombstones[r.evidence.key].generation

\* Every accepted record is either still stored or accounted for by the eviction
\* ledger, and the ledger accounts for the entries it dropped itself.
EvictionAccounting ==
    /\ counters.evictions_total = Len(eviction_table) + counters.ledger_dropped
    /\ counters.ledger_dropped = 0 =>
         counters.accepted + Cardinality(admitting) =
             Cardinality({r \in records : r.lifecycle # "rejected"})
             + Cardinality({i \in DOMAIN eviction_table : eviction_table[i].state # "Rejected"})

\* Outside an admission the registry is within its record bounds.  This is for
\* limits that do not shrink: set_limits enforces nothing by itself.
BudgetRespected ==
    Unlocked => /\ total_records <= limits.max_records
                /\ \A k \in EvidenceKey : ~OverStream(k)

\* The conflict table lists exactly the groups whose live evidence disagrees,
\* with exactly the live records as members, as long as no group was dropped
\* for want of room.  Stated for one tick: the table is not aged by time alone.
ConflictTableExact ==
    Unlocked /\ counters.conflicts_dropped = 0 =>
        \A g \in Group, t \in Ticks :
            conflict_table[g] = IF disagrees(g, t, 0) THEN live_ids(g, t, 0) ELSE {}

\* An incarnation the registry hands out was never seen before on any device:
\* next_incarnation is above everything in every history.
FreshIncarnation ==
    \A d \in Device : \A i \in incarnation_table[d].history : i < next_incarnation

\* The admission a ends with its record taken out again.
RolledBack(a) == admitting' = {} /\ \A r \in records' : r.evidence # a.evidence

\* r is out of the running whatever the policy, the device or the clock say.
Settled(r) == \/ r.lifecycle # "admitted"
              \/ r.evidence.generation < max_generation[r.evidence.key]

\* README: "It never discards current evidence to make room."  An eviction never
\* removes a record that is live at that point, and an admission refused for
\* want of room has not evicted what was current when the call began.
NeverDiscardsCurrent ==
    [][\A a \in admitting :
        /\ \A r \in records \ records' : r.evidence # a.evidence =>
                r \notin live(GroupOf(r.evidence.key), a.now, 0)
        /\ RolledBack(a) => \A r \in a.evicted : r.evidence.key = a.evidence.key =>
                ClassifyAt(r, a.previous_max, a.now, 0) # "Active"]_vars

\* Evidence that was rejected, retired or superseded never becomes current
\* again: not when newer records of its stream are evicted, not on restart.
\* Taking back a refused record restores what it had superseded in that call.
NoRevival ==
    [][(\E a \in admitting : RolledBack(a)) \/ \A r \in records : Settled(r) =>
         \A q \in records' : r.evidence = q.evidence => Settled(q)']_vars

\* A restart makes nothing current that was not current before, and carries
\* over only evidence of sources that are durable across a boot.
RestartResurrectsNothing ==
    [][boot_epoch' > boot_epoch => \A r \in records, t \in Ticks :
         (classify(r, t, 0) = "Active")' =>
             classify(r, t, 0) = "Active"
             /\ (ConservativeFence => sources[r.evidence.key.source].durable)]_vars

\* README: "the logical clock resumes no earlier than the state it recovered":
\* the clock never goes back, and a restart puts it at or past every observation.
ClockNeverBehind ==
    [][/\ logical_tick' >= logical_tick
       /\ boot_epoch' > boot_epoch =>
            \A r \in records : logical_tick' >= r.evidence.observed_at]_vars

\* The budget loop ends: every admission that stored its record is eventually
\* accepted or rolled back, and gives up the lock.
AdmissionEnds == admitting # {} ~> admitting = {}

-----------------------------------------------------------------------------
(* Statements of the documentation that the code does not keep. *)

\* README: "AuthorityRank is assigned per source in RegistryPolicy. Changing it
\* bumps the epoch and re-ranks every group."  Live evidence ranks as its source
\* does now, not as it did when the evidence was admitted.
AuthorityIsPolicy ==
    Unlocked => \A g \in Group, t \in Ticks : \A r \in live(g, t, 0) :
        r.evidence.authority = sources[r.evidence.key.source].authority

=============================================================================
