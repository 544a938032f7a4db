--------------------------- MODULE RetentionProofs ---------------------------
(***************************************************************************)
(* What the order of evictions and a restart may do to evidence that was   *)
(* left behind: rejected evidence stays dominated, nothing that was        *)
(* settled becomes current again, and the clock does not run back.         *)
(*                                                                         *)
(* None of this is inductive alone.  An admission that is still in its     *)
(* budget loop may yet be rolled back, so what dominates rejected evidence *)
(* must be a record other than the incoming one; and the incoming record,  *)
(* which is never a candidate, must itself lead its stream.                *)
(*                                                                         *)
(* The second half is what the bounds and the tables of the engine account *)
(* for: the record bounds, what an eviction may take, the incarnations     *)
(* handed out and the eviction ledger.                                     *)
(***************************************************************************)
EXTENDS RegistryProofs

Incoming == {a.evidence : a \in admitting}

Dominates(q, r) ==
    /\ q.evidence.key = r.evidence.key /\ q.lifecycle # "rejected"
    /\ q.evidence.generation >= r.evidence.generation

Dominated ==
    \A r \in records : r.lifecycle = "rejected" =>
        \E q \in records : Dominates(q, r) /\ q.evidence \notin Incoming

IncomingLeads ==
    \A e \in Incoming : \A r \in records :
        r.evidence.key = e.key => r.evidence.generation <= e.generation

\* Evidence was ingested in this boot or an earlier one.
IngestedBefore == \A r \in records : r.evidence.boot_at_ingest <= boot_epoch

RInv == Dominated /\ IncomingLeads /\ IngestedBefore

\* r is out of the running because of a newer record of its stream.
Superseded(r) ==
    r.lifecycle = "admitted" /\ r.evidence.generation < max_generation[r.evidence.key]

LEMMA RecordFacts ==
    ASSUME IInv, NEW r \in records
    PROVE  /\ r.evidence.key \in EvidenceKey /\ r.evidence.generation \in Nat
           /\ r.evidence.observed_at \in Nat
           /\ r.lifecycle \in {"admitted", "rejected", "retired"}
           /\ max_generation[r.evidence.key] \in Nat
           /\ r.evidence.generation <= max_generation[r.evidence.key]
<1>1. r \in StoredEvidence /\ Generation \subseteq Nat /\ Ticks \subseteq Nat
    BY NumbersAssumption DEF IInv, TypeOK, Generation
<1>2. r.evidence.key \in EvidenceKey /\ r \in StreamRecords(r.evidence.key)
    BY <1>1, RecordTypes, Zenon DEF StreamRecords
<1> QED
    BY <1>1, <1>2, RecordTypes, HighWaterMark, Zenon

LEMMA RequestFacts ==
    ASSUME IInv, NEW q \in AdmissionRequest
    PROVE  /\ EvidenceOf(q).key = q.key /\ EvidenceOf(q).generation = q.generation
           /\ EvidenceOf(q).boot_at_ingest = boot_epoch
           /\ q.key \in EvidenceKey /\ q.generation \in Nat
<1>1. EvidenceOf(q).boot_at_ingest = boot_epoch
    BY Zenon DEF EvidenceOf
<1>2. Generation \subseteq Nat
    BY NumbersAssumption DEF Generation
<1> QED
    BY <1>1, <1>2, EvidenceTypes, Zenon DEF IInv

-----------------------------------------------------------------------------
(* The order of evictions *)

\* Rejected evidence has the lowest priority and superseded evidence the next.
LEMMA PriorityOf ==
    ASSUME IInv, NEW r \in records, NEW now
    PROVE  /\ eviction_priority(r, now) \in 0 .. 5
           /\ eviction_priority(r, now) = 0 <=> r.lifecycle = "rejected"
           /\ eviction_priority(r, now) = 1 <=> Superseded(r)
<1>1. r.lifecycle \in {"admitted", "rejected", "retired"}
    BY RecordFacts, Zenon
<1>2. CASE r.lifecycle = "rejected"
  <2>1. classify(r, now, 0) = "Rejected"
    BY <1>2, Zenon DEF classify, ClassifyAt
  <2> QED
    BY <1>2, <2>1 DEF eviction_priority, Superseded
<1>3. CASE r.lifecycle = "retired"
  <2>1. classify(r, now, 0) = "Retired"
    BY <1>3, Zenon DEF classify, ClassifyAt
  <2> QED
    BY <1>3, <2>1 DEF eviction_priority, Superseded
<1>4. CASE r.lifecycle = "admitted"
  <2>1. CASE Superseded(r)
    <3>1. classify(r, now, 0) = "Superseded"
      BY <2>1, Zenon DEF classify, ClassifyAt, Superseded
    <3> QED
      BY <1>4, <2>1, <3>1 DEF eviction_priority
  <2>2. CASE ~Superseded(r)
    <3>1. classify(r, now, 0) \in {"Fenced", "Stale", "Active"}
      BY <1>4, <2>2, Zenon DEF classify, ClassifyAt, Superseded
    <3> QED
      BY <1>4, <2>2, <3>1 DEF eviction_priority
  <2> QED
    BY <2>1, <2>2, Zenon
<1> QED
    BY <1>1, <1>2, <1>3, <1>4, Zenon

\* The record an iteration removes, and a record of its stream that stays: while
\* rejected evidence stays only rejected evidence goes, and while superseded
\* evidence stays only rejected and superseded evidence goes.
LEMMA EvictionOrder ==
    ASSUME IInv, RInv, NEW a \in admitting, NEW r \in eviction_candidates(a),
           NEW s \in records, s.evidence.key = r.evidence.key
    PROVE  /\ s.lifecycle = "rejected" => r.lifecycle = "rejected"
           /\ Superseded(s) => r.lifecycle = "rejected" \/ Superseded(r)
<1> SUFFICES ASSUME s.lifecycle = "rejected" \/ Superseded(s)
             PROVE  /\ s.lifecycle = "rejected" => r.lifecycle = "rejected"
                    /\ r.lifecycle = "rejected" \/ Superseded(r)
    BY Zenon
<1>1. r \in EvictionScope(a) /\ r \in records
    BY Zenon DEF eviction_candidates, EvictionScope, StreamRecords
<1>2. s.evidence # a.evidence
  <2> SUFFICES ASSUME s.evidence = a.evidence PROVE FALSE
    BY Zenon
  <2>1. s.lifecycle = "admitted"
    <3> DEFINE i == [evidence |-> a.evidence, lifecycle |-> "admitted"]
    <3>1. i \in records /\ i.evidence = s.evidence /\ i.lifecycle = "admitted"
      BY Zenon DEF IInv, WorldInv, AdmittingStored
    <3> HIDE DEF i
    <3> QED
      BY <3>1, Zenon DEF IInv, WorldInv, DistinctEvidence
  <2>2. \A p \in StreamRecords(s.evidence.key) :
            p.evidence.generation <= s.evidence.generation
    BY Zenon DEF RInv, IncomingLeads, Incoming, StreamRecords
  <2>3. s.evidence.generation < max_generation[s.evidence.key]
    BY <2>1, Zenon DEF Superseded
  <2>4. max_generation[s.evidence.key] # 0 /\ s.evidence.generation \in Nat
        /\ s.evidence.key \in EvidenceKey
    BY <2>3, RecordFacts
  <2>5. PICK p \in StreamRecords(s.evidence.key) :
            p.evidence.generation = max_generation[s.evidence.key]
    BY <2>4, HighWaterMark, Zenon
  <2> QED
    BY <2>2, <2>3, <2>4, <2>5, RecordFacts
<1>3. eviction_priority(s, a.now) \in {0, 1}
    BY PriorityOf, Zenon
<1>4. s \in EvictionScope(a)
  <2>1. r \in StreamRecords(a.evidence.key) => s \in StreamRecords(a.evidence.key)
    BY Zenon DEF StreamRecords
  <2>2. Evictable(s, a.now)
    BY <1>3 DEF Evictable
  <2> QED
    BY <1>1, <1>2, <2>1, <2>2, Zenon DEF EvictionScope
<1>5. eviction_priority(r, a.now) <= eviction_priority(s, a.now)
  <2>1. eviction_priority(r, a.now) \in 0 .. 5
    BY <1>1, PriorityOf, Zenon
  <2> QED
    BY <1>3, <1>4, <2>1 DEF eviction_candidates
<1>6. eviction_priority(r, a.now) \in 0 .. 5
    BY <1>1, PriorityOf, Zenon
<1>7. s.lifecycle = "rejected" => eviction_priority(r, a.now) = 0
    BY <1>5, <1>6, PriorityOf
<1>8. eviction_priority(r, a.now) \in {0, 1}
    BY <1>3, <1>5, <1>6
<1> QED
    BY <1>1, <1>7, <1>8, PriorityOf, Zenon

-----------------------------------------------------------------------------
(* RInv is inductive *)

LEMMA InitRInv == Init => RInv
    BY Zenon DEF Init, RInv, Dominated, IncomingLeads, IngestedBefore, Incoming

\* Steps that neither store nor remove evidence, and begin no admission.
LEMMA RetentionUnchanged ==
    ASSUME IInv, RInv, UNCHANGED records, admitting' \subseteq admitting,
           boot_epoch' >= boot_epoch, boot_epoch' \in Nat
    PROVE  RInv'
<1>1. Incoming' \subseteq Incoming
    BY Zenon DEF Incoming
<1>2. \A r \in records : r.evidence.boot_at_ingest \in Nat
    BY RecordTypes, Zenon DEF IInv, TypeOK, CapabilityEvidence
<1>3. IngestedBefore'
    BY <1>2 DEF RInv, IngestedBefore, IInv, TypeOK
<1> QED
    BY <1>1, <1>3, Zenon DEF RInv, Dominated, IncomingLeads, Dominates

\* A late delivery is kept below a record that is not about to be taken back:
\* outside the budget loop there is no such record.
LEMMA OutOfOrderRetention ==
    ASSUME IInv, RInv, NEW q \in AdmissionRequest, NEW now \in Ticks, AdmitOutOfOrder(q, now)
    PROVE  RInv'
<1> DEFINE n == [evidence |-> EvidenceOf(q), lifecycle |-> "rejected"]
<1>1. /\ EvidenceOf(q).key = q.key /\ EvidenceOf(q).generation = q.generation
      /\ EvidenceOf(q).boot_at_ingest = boot_epoch
      /\ q.key \in EvidenceKey /\ q.generation \in Nat
    BY RequestFacts, Zenon
<1>2. /\ max_generation[q.key] # 0 /\ q.generation <= max_generation[q.key]
      /\ Incoming = {} /\ Incoming' = {} /\ UNCHANGED <<boot_epoch, admitting>>
      /\ UNCHANGED records \/ records' = records \cup {n}
    BY Zenon DEF AdmitOutOfOrder, OutOfOrder, Unlocked, Incoming, clockVars
<1>3. n.evidence = EvidenceOf(q) /\ n.lifecycle = "rejected"
    BY Zenon
<1> HIDE DEF n
<1>4. CASE UNCHANGED records
    BY <1>2, <1>4, RetentionUnchanged DEF IInv, TypeOK
<1>5. CASE records' = records \cup {n}
  <2>1. PICK top \in StreamRecords(q.key) : top.evidence.generation = max_generation[q.key]
    BY <1>1, <1>2, HighWaterMark, Zenon
  <2>2. top \in records /\ top.evidence.key = q.key
    BY <2>1, Zenon DEF StreamRecords
  <2>3. \E p \in records : Dominates(p, n)
    <3>1. CASE top.lifecycle # "rejected"
      BY <1>1, <1>2, <1>3, <2>1, <2>2, <3>1, Zenon DEF Dominates
    <3>2. CASE top.lifecycle = "rejected"
      <4>1. PICK p \in records : Dominates(p, top)
        BY <2>2, <3>2, Zenon DEF RInv, Dominated
      <4>2. p.evidence.generation \in Nat /\ top.evidence.generation \in Nat
        BY <2>2, RecordFacts, Zenon
      <4> QED
        BY <1>1, <1>2, <1>3, <2>1, <2>2, <4>1, <4>2 DEF Dominates
    <3> QED
      BY <3>1, <3>2, Zenon
  <2>4. Dominated'
    BY <1>2, <1>5, <2>3, Zenon DEF RInv, Dominated, Dominates
  <2>5. IncomingLeads'
    BY <1>2, Zenon DEF IncomingLeads
  <2>6. IngestedBefore'
    BY <1>1, <1>2, <1>3, <1>5 DEF RInv, IngestedBefore, IInv, TypeOK
  <2> QED
    BY <2>4, <2>5, <2>6, Zenon DEF RInv
<1> QED
    BY <1>2, <1>4, <1>5, Zenon

LEMMA StoreRetention ==
    ASSUME IInv, RInv, NEW q \in AdmissionRequest, NEW now \in Ticks, AdmitStore(q, now)
    PROVE  RInv'
<1> DEFINE n == [evidence |-> EvidenceOf(q), lifecycle |-> "admitted"]
<1>1. /\ EvidenceOf(q).key = q.key /\ EvidenceOf(q).generation = q.generation
      /\ EvidenceOf(q).boot_at_ingest = boot_epoch
      /\ q.key \in EvidenceKey /\ q.generation \in Nat
    BY RequestFacts, Zenon
<1>2. /\ max_generation[q.key] = 0 \/ ~(q.generation <= max_generation[q.key])
      /\ \A p \in records : p.evidence # EvidenceOf(q)
      /\ Incoming = {} /\ Incoming' = {EvidenceOf(q)} /\ UNCHANGED boot_epoch
      /\ records' = records \cup {n}
    BY DEF AdmitStore, OutOfOrder, AlreadyPresent, Unlocked, Incoming, clockVars
<1>3. n.evidence = EvidenceOf(q) /\ n.lifecycle = "admitted"
    BY Zenon
<1> HIDE DEF n
<1>4. Dominated'
    BY <1>2, <1>3, Zenon DEF RInv, Dominated, Dominates
<1>5. IncomingLeads'
  <2>1. \A p \in records : p.evidence.key = q.key => p.evidence.generation <= q.generation
    BY <1>1, <1>2, RecordFacts
  <2> QED
    BY <1>1, <1>2, <1>3, <2>1 DEF IncomingLeads
<1>6. IngestedBefore'
    BY <1>1, <1>2, <1>3 DEF RInv, IngestedBefore, IInv, TypeOK
<1> QED
    BY <1>4, <1>5, <1>6, Zenon DEF RInv

LEMMA EvictRetention ==
    ASSUME IInv, RInv, AdmitEvict
    PROVE  RInv'
<1>1. PICK a \in admitting : \E r \in eviction_candidates(a) :
          /\ records' = records \ {r}
          /\ admitting' = {[a EXCEPT !.evicted = @ \cup {r}]}
          /\ UNCHANGED boot_epoch
    BY Zenon DEF AdmitEvict, apply_eviction, RemoveRecord, clockVars
<1>2. PICK r \in eviction_candidates(a) :
          /\ records' = records \ {r}
          /\ admitting' = {[a EXCEPT !.evicted = @ \cup {r}]}
    BY <1>1, Zenon
<1>3. Incoming' = Incoming
  <2>1. a \in Admission /\ admitting = {a}
    BY Zenon DEF IInv, TypeOK
  <2> QED
    BY <1>2, <2>1 DEF Incoming, Admission
<1>4. Dominated'
  <2> SUFFICES ASSUME NEW s \in records', s.lifecycle = "rejected"
               PROVE  \E q \in records' : Dominates(q, s) /\ q.evidence \notin Incoming
    BY <1>3, Zenon DEF Dominated, Dominates
  <2>1. s \in records
    BY <1>2, Zenon
  <2>2. PICK q \in records : Dominates(q, s) /\ q.evidence \notin Incoming
    BY <2>1, Zenon DEF RInv, Dominated
  <2>3. q # r
    BY <2>1, <2>2, EvictionOrder, Zenon DEF Dominates
  <2> QED
    BY <1>2, <2>2, <2>3, Zenon
<1> QED
    BY <1>1, <1>2, <1>3, <1>4, Zenon DEF RInv, IncomingLeads, IngestedBefore

LEMMA RollbackRetention ==
    ASSUME IInv, RInv, AdmitRollback
    PROVE  RInv'
<1>1. PICK a \in admitting :
          /\ records' = records \ {[evidence |-> a.evidence, lifecycle |-> "admitted"]}
          /\ admitting' = {} /\ UNCHANGED boot_epoch
    BY Zenon DEF AdmitRollback, RemoveRecord, clockVars
<1>2. Incoming' = {}
    BY <1>1, Zenon DEF Incoming
<1>3. Dominated'
  <2> SUFFICES ASSUME NEW s \in records', s.lifecycle = "rejected"
               PROVE  \E q \in records' : Dominates(q, s)
    BY <1>2, Zenon DEF Dominated, Dominates
  <2>1. PICK q \in records : Dominates(q, s) /\ q.evidence \notin Incoming
    BY <1>1, Zenon DEF RInv, Dominated
  <2>2. q # [evidence |-> a.evidence, lifecycle |-> "admitted"]
    BY <2>1 DEF Incoming
  <2> QED
    BY <1>1, <2>1, <2>2, Zenon
<1> QED
    BY <1>1, <1>2, <1>3, Zenon DEF RInv, IncomingLeads, IngestedBefore

\* A retirement changes the lifecycle of admitted records and nothing else.
LEMMA RetireKeeps ==
    ASSUME IInv, NEW k \in EvidenceKey, NEW g \in Retirements, NEW now \in Ticks,
           Retire(k, g, now)
    PROVE  /\ \A r \in records : \E q \in records' :
                q.evidence = r.evidence /\ (q.lifecycle = "rejected" <=> r.lifecycle = "rejected")
           /\ \A q \in records' : \E r \in records :
                /\ q.evidence = r.evidence
                /\ q.lifecycle = "rejected" <=> r.lifecycle = "rejected"
                /\ q.lifecycle = "admitted" => r.lifecycle = "admitted"
<1> DEFINE f(r) == IF /\ r.evidence.key = k /\ r.lifecycle = "admitted"
                      /\ r.evidence.generation <= g
                   THEN [r EXCEPT !.lifecycle = "retired"] ELSE r
<1>1. records' = {f(r) : r \in records}
    BY Zenon DEF Retire
<1>2. \A r \in records : /\ f(r).evidence = r.evidence
                         /\ f(r).lifecycle = "rejected" <=> r.lifecycle = "rejected"
                         /\ f(r).lifecycle = "admitted" => r.lifecycle = "admitted"
    BY RecordTypes DEF IInv, TypeOK, StoredEvidence
<1> HIDE DEF f
<1> QED
    BY <1>1, <1>2, Zenon

LEMMA RetireRetention ==
    ASSUME IInv, RInv, NEW k \in EvidenceKey, NEW g \in Retirements, NEW now \in Ticks,
           Retire(k, g, now)
    PROVE  RInv'
<1>1. Incoming' = {} /\ Incoming = {} /\ UNCHANGED boot_epoch
    BY Zenon DEF Retire, Unlocked, Incoming, clockVars
<1>2. Dominated'
  <2> SUFFICES ASSUME NEW s \in records', s.lifecycle = "rejected"
               PROVE  \E q \in records' : Dominates(q, s)
    BY <1>1, Zenon DEF Dominated, Dominates
  <2>1. PICK r \in records : r.evidence = s.evidence /\ r.lifecycle = "rejected"
    BY RetireKeeps
  <2>2. PICK p \in records : Dominates(p, r)
    BY <2>1, Zenon DEF RInv, Dominated
  <2>3. PICK q \in records' : q.evidence = p.evidence /\ q.lifecycle # "rejected"
    BY <2>2, RetireKeeps, Zenon DEF Dominates
  <2> QED
    BY <2>1, <2>2, <2>3, Zenon DEF Dominates
<1>3. IngestedBefore'
    BY <1>1, RetireKeeps, Zenon DEF RInv, IngestedBefore
<1> QED
    BY <1>1, <1>2, <1>3, Zenon DEF RInv, IncomingLeads

LEMMA NextRInv == IInv /\ IInv' /\ RInv /\ [Next]_vars => RInv'
<1> SUFFICES ASSUME IInv, IInv', RInv, [Next]_vars PROVE RInv'
    BY Zenon
<1>1. boot_epoch \in Nat /\ boot_epoch' \in Nat
    BY Zenon DEF IInv, TypeOK
<1>2. CASE UNCHANGED <<records, boot_epoch>> /\ admitting' \subseteq admitting
    BY <1>1, <1>2, RetentionUnchanged
<1>3. CASE Admit
  <2>1. PICK q \in AdmissionRequest, now \in Ticks :
            \/ AdmitRefused(q, now) \/ AdmitBlocked(q, now) \/ AdmitDuplicate(q, now)
            \/ AdmitOutOfOrder(q, now) \/ AdmitStore(q, now)
    BY <1>3, Zenon DEF Admit
  <2>2. \/ UNCHANGED <<records, boot_epoch, admitting>>
        \/ AdmitOutOfOrder(q, now) \/ AdmitStore(q, now)
    BY <2>1, Zenon DEF AdmitRefused, AdmitBlocked, AdmitDuplicate, vars, worldVars, clockVars
  <2> QED
    BY <1>2, <2>2, OutOfOrderRetention, StoreRetention, Zenon
<1>4. CASE BudgetStep
  <2>1. CASE AdmitAccept
    <3>1. UNCHANGED <<records, boot_epoch>> /\ admitting' = {}
      BY <2>1, Zenon DEF AdmitAccept, worldVars, clockVars
    <3> QED
      BY <1>2, <3>1, Zenon
  <2> QED
    BY <1>4, <2>1, EvictRetention, RollbackRetention, Zenon DEF BudgetStep
<1>5. CASE Retirement
  <2>1. PICK k \in EvidenceKey, g \in Retirements :
            RetireIgnored(k, g) \/ \E now \in Ticks : Retire(k, g, now)
    BY <1>5, Zenon DEF Retirement
  <2>2. \/ UNCHANGED <<records, boot_epoch, admitting>>
        \/ \E now \in Ticks : Retire(k, g, now)
    BY <2>1, Zenon DEF RetireIgnored, vars, worldVars, clockVars
  <2> QED
    BY <1>2, <2>2, RetireRetention, Zenon
<1>6. CASE DeviceStep
  <2>1. UNCHANGED <<records, boot_epoch, admitting>>
    BY <1>6, Zenon DEF DeviceStep, begin_device_incarnation, set_device_incarnation,
       bump_policy_revision, worldVars, clockVars
  <2> QED
    BY <1>2, <2>1, Zenon
<1>7. CASE SourceStep
  <2>1. UNCHANGED <<records, boot_epoch, admitting>>
    BY <1>7, Zenon DEF SourceStep, revoke_source, restore_source, set_source_authority,
       upsert_source_policy, SetSource, bump_policy_revision, worldVars
  <2> QED
    BY <1>2, <2>1, Zenon
<1>8. CASE Resolution
  <2>1. UNCHANGED <<records, boot_epoch, admitting>>
    BY <1>8, Zenon DEF Resolution, resolve_conflict, worldVars, clockVars
  <2> QED
    BY <1>2, <2>1, Zenon
<1>9. CASE ClockStep
  <2>1. UNCHANGED <<records, admitting>>
    BY <1>9, Zenon DEF ClockStep, advance_epoch, set_logical_tick, set_limits, adopt_state,
       worldVars
  <2>2. UNCHANGED boot_epoch \/ boot_epoch' = boot_epoch + 1
    BY <1>9, Zenon DEF ClockStep, advance_epoch, set_logical_tick, set_limits, adopt_state,
       bump_policy_revision
  <2>3. boot_epoch' >= boot_epoch
    BY <1>1, <2>2
  <2> QED
    BY <1>1, <2>1, <2>3, RetentionUnchanged, Zenon
<1>10. CASE UNCHANGED vars
    BY <1>2, <1>10, Zenon DEF vars, worldVars, clockVars
<1> QED
    BY <1>3, <1>4, <1>5, <1>6, <1>7, <1>8, <1>9, <1>10, Zenon DEF Next

\* Both invariants together, in every reachable state.
THEOREM RetentionInvariance == Spec => [](IInv /\ RInv)
    BY Invariance, InitRInv, NextRInv, PTL DEF Spec

-----------------------------------------------------------------------------
(* Nothing settled becomes current again *)

\* Evidence keeps its identity: a record that is still there was not admitted anew.
LEMMA SameRecord ==
    ASSUME IInv, IInv', [Next]_vars, NEW r \in records, NEW q \in records',
           r.evidence = q.evidence, q.lifecycle = "admitted"
    PROVE  r.lifecycle = "admitted" /\ r = q
<1> SUFFICES q \in records \/ \E p \in records : p.evidence = q.evidence
                                                /\ p.lifecycle = "admitted"
  <2>1. r \in StoredEvidence /\ q \in StoredEvidence
    BY Zenon DEF IInv, TypeOK
  <2> QED
    BY <2>1, RecordTypes, Zenon DEF IInv, WorldInv, DistinctEvidence
<1>1. CASE Admit
  <2>1. PICK p \in AdmissionRequest, now \in Ticks :
            \/ AdmitRefused(p, now) \/ AdmitBlocked(p, now) \/ AdmitDuplicate(p, now)
            \/ AdmitOutOfOrder(p, now) \/ AdmitStore(p, now)
    BY <1>1, Zenon DEF Admit
  <2>2. \/ UNCHANGED records
        \/ \E l \in {"admitted", "rejected"} :
             /\ records' = records \cup {[evidence |-> EvidenceOf(p), lifecycle |-> l]}
             /\ \A o \in records : o.evidence # EvidenceOf(p)
    BY <2>1, Zenon DEF AdmitRefused, AdmitBlocked, AdmitDuplicate, AdmitOutOfOrder, AdmitStore,
       AlreadyPresent, vars, worldVars
  <2> QED
    BY <2>2
<1>2. CASE BudgetStep
  <2>1. records' \subseteq records
    BY <1>2, Zenon DEF BudgetStep, AdmitEvict, AdmitRollback, AdmitAccept, apply_eviction,
       RemoveRecord, worldVars
  <2> QED
    BY <2>1, Zenon
<1>3. CASE Retirement
  <2>1. PICK k \in EvidenceKey, g \in Retirements :
            RetireIgnored(k, g) \/ \E now \in Ticks : Retire(k, g, now)
    BY <1>3, Zenon DEF Retirement
  <2>2. UNCHANGED records \/ \E now \in Ticks : Retire(k, g, now)
    BY <2>1, Zenon DEF RetireIgnored, vars, worldVars
  <2> QED
    BY <2>2, RetireKeeps, ZenonT(30)
<1>4. CASE DeviceStep \/ SourceStep \/ Resolution \/ ClockStep \/ UNCHANGED vars
  <2>1. UNCHANGED records
    BY <1>4, Zenon DEF DeviceStep, begin_device_incarnation, set_device_incarnation, SourceStep,
       revoke_source, restore_source, set_source_authority, upsert_source_policy, SetSource,
       Resolution, resolve_conflict, ClockStep, advance_epoch, set_logical_tick, set_limits,
       adopt_state, vars, worldVars
  <2> QED
    BY <2>1, Zenon
<1> QED
    BY <1>1, <1>2, <1>3, <1>4, Zenon DEF Next

\* An eviction lowers the mark of no stream in which superseded evidence stays.
LEMMA EvictKeepsMark ==
    ASSUME IInv, IInv', RInv, AdmitEvict, NEW s \in records, s \in records', Superseded(s)
    PROVE  s.evidence.generation < max_generation'[s.evidence.key]
<1>1. PICK a \in admitting : \E r \in eviction_candidates(a) : RemoveRecord(r)
    BY Zenon DEF AdmitEvict, apply_eviction
<1>2. PICK r \in eviction_candidates(a) : RemoveRecord(r)
    BY <1>1, Zenon
<1> DEFINE k == s.evidence.key
<1>3. /\ k \in EvidenceKey /\ s.evidence.generation \in Nat
      /\ max_generation[k] \in Nat /\ s.evidence.generation < max_generation[k]
      /\ s \in StreamRecords(k) /\ records' = records \ {r}
      /\ r \in records
    BY <1>2, RecordFacts, Zenon
       DEF Superseded, RemoveRecord, eviction_candidates, EvictionScope, StreamRecords
<1>4. PICK top \in StreamRecords(k) : top.evidence.generation = max_generation[k]
    BY <1>3, HighWaterMark, SMTT(30)
<1>5. \E p \in StreamRecords(k) : p # r /\ p.evidence.generation >= max_generation[k]
  <2>1. CASE top # r
    BY <1>3, <1>4, <2>1
  <2>2. CASE top = r
    <3>1. r.evidence.key = k /\ ~Superseded(r)
      BY <1>3, <1>4, <2>2 DEF Superseded, StreamRecords
    <3>2. r.lifecycle = "rejected"
      BY <1>2, <3>1, EvictionOrder, Zenon
    <3>3. PICK p \in records : Dominates(p, r)
      BY <1>3, <3>2, Zenon DEF RInv, Dominated
    <3> QED
      BY <1>4, <2>2, <3>1, <3>2, <3>3, Zenon DEF Dominates, StreamRecords
  <2> QED
    BY <2>1, <2>2, Zenon
<1>6. PICK p \in StreamRecords(k) : p # r /\ p.evidence.generation >= max_generation[k]
    BY <1>5, Zenon
<1>7. p \in records' /\ p \in records /\ p.evidence.key = k
    BY <1>3, <1>6, Zenon DEF StreamRecords
<1>8. /\ p.evidence.generation \in Nat /\ max_generation'[k] \in Nat
      /\ p.evidence.generation <= max_generation'[k]
  <2>1. p \in StreamRecords(k)'
    BY <1>7, Zenon DEF StreamRecords
  <2>2. (\A o \in StreamRecords(k) : o.evidence.generation <= HighestGeneration(StreamRecords(k)))'
    <3>1. StreamRecords(k)' \in SUBSET StoredEvidence
      BY Zenon DEF IInv, TypeOK, StreamRecords
    <3>2. HighestGeneration(StreamRecords(k))' = HighestGeneration(StreamRecords(k)')
      BY Zenon DEF HighestGeneration, GenerationsOf
    <3> QED
      BY <3>1, <3>2, HighestGenerationMax, Zenon
  <2>3. max_generation'[k] = HighestGeneration(StreamRecords(k))' /\ max_generation'[k] \in Nat
    <3>1. Generation \subseteq Nat
      BY NumbersAssumption DEF Generation
    <3>2. max_generation' \in [EvidenceKey -> Generation]
      BY Zenon DEF IInv, TypeOK
    <3>3. max_generation'[k] = HighestGeneration(StreamRecords(k))'
      BY <1>3, Zenon DEF IInv, WorldInv, StreamAccounting
    <3> QED
      BY <1>3, <3>1, <3>2, <3>3, Zenon
  <2> QED
    BY <1>7, <2>1, <2>2, <2>3, RecordFacts, Zenon
<1> QED
    BY <1>3, <1>6, <1>8, SMTT(30)

\* No call but the one that takes a refused record back lowers the mark of a
\* stream below evidence it had superseded.
LEMMA MarkKept ==
    ASSUME IInv, IInv', RInv, [Next]_vars, NEW r \in records, NEW q \in records',
           r.evidence = q.evidence, Superseded(r)
    PROVE  \/ \E a \in admitting : RolledBack(a)
           \/ r.evidence.generation < max_generation'[r.evidence.key]
<1> DEFINE k == r.evidence.key
           Goal == r.evidence.generation < max_generation'[k]
<1>0. /\ Generation \subseteq Nat /\ max_generation \in [EvidenceKey -> Generation]
      /\ max_generation' \in [EvidenceKey -> Generation]
  <2>1. Generation \subseteq Nat
    BY NumbersAssumption, SMTT(30) DEF Generation
  <2>2. max_generation \in [EvidenceKey -> Generation]
    BY Zenon DEF IInv, TypeOK
  <2>3. max_generation' \in [EvidenceKey -> Generation]
    BY Zenon DEF IInv, TypeOK
  <2> QED
    BY <2>1, <2>2, <2>3, Zenon
<1>1. /\ k \in EvidenceKey /\ r.evidence.generation \in Nat /\ max_generation[k] \in Nat
      /\ r.evidence.generation < max_generation[k] /\ max_generation'[k] \in Nat
    BY <1>0, RecordFacts, Zenon DEF Superseded
<1>2. CASE UNCHANGED max_generation
    BY <1>1, <1>2, Zenon
<1>3. CASE Admit
  <2>1. PICK p \in AdmissionRequest, now \in Ticks :
            \/ AdmitRefused(p, now) \/ AdmitBlocked(p, now) \/ AdmitDuplicate(p, now)
            \/ AdmitOutOfOrder(p, now) \/ AdmitStore(p, now)
    BY <1>3, Zenon DEF Admit
  <2>2. UNCHANGED max_generation \/ AdmitStore(p, now)
    BY <2>1, Zenon DEF AdmitRefused, AdmitBlocked, AdmitDuplicate, AdmitOutOfOrder, vars, worldVars
  <2>3. CASE AdmitStore(p, now)
    <3>1. p.key \in EvidenceKey /\ p.generation \in Nat /\ max_generation[p.key] \in Nat
      BY <1>0, RequestFacts, Zenon
    <3>2. /\ max_generation' = [max_generation EXCEPT ![p.key] = p.generation]
          /\ max_generation[p.key] = 0 \/ p.generation > max_generation[p.key]
      BY <2>3, <3>1, SMTT(30) DEF AdmitStore, OutOfOrder
    <3>3. CASE p.key = k
      <4>1. max_generation'[k] = p.generation
        BY <1>0, <1>1, <3>2, <3>3, Zenon
      <4> QED
        BY <1>1, <3>1, <3>2, <3>3, <4>1, SMTT(30)
    <3>4. CASE p.key # k
      <4>1. max_generation'[k] = max_generation[k]
        BY <1>0, <1>1, <3>2, <3>4, Zenon
      <4> QED
        BY <1>1, <4>1, Zenon
    <3> QED
      BY <3>3, <3>4, Zenon
  <2> QED
    BY <1>2, <2>2, <2>3, Zenon
<1>4. CASE BudgetStep
  <2>1. CASE AdmitEvict
    <3>1. records' \subseteq records
      BY <2>1, Zenon DEF AdmitEvict, apply_eviction, RemoveRecord
    <3>2. r \in records'
      BY <3>1, Zenon DEF IInv, WorldInv, DistinctEvidence
    <3> QED
      BY <2>1, <3>2, EvictKeepsMark, Zenon
  <2>2. CASE AdmitRollback
    <3>1. PICK a \in admitting :
              /\ records' = records \ {[evidence |-> a.evidence, lifecycle |-> "admitted"]}
              /\ admitting' = {}
      BY <2>2, Zenon DEF AdmitRollback, RemoveRecord
    <3> DEFINE i == [evidence |-> a.evidence, lifecycle |-> "admitted"]
    <3>2. i \in records /\ i.evidence = a.evidence
      BY Zenon DEF IInv, WorldInv, AdmittingStored
    <3>3. \A o \in records' : o.evidence # a.evidence
      BY <3>1, <3>2, Zenon DEF IInv, WorldInv, DistinctEvidence
    <3> QED
      BY <3>1, <3>3, Zenon DEF RolledBack
  <2>3. CASE AdmitAccept
    BY <1>2, <2>3, Zenon DEF AdmitAccept, worldVars
  <2> QED
    BY <1>4, <2>1, <2>2, <2>3, Zenon DEF BudgetStep
<1>5. CASE Retirement
  <2>1. UNCHANGED max_generation
    BY <1>5, Zenon DEF Retirement, RetireIgnored, Retire, vars, worldVars
  <2> QED
    BY <1>2, <2>1, Zenon
<1>6. CASE DeviceStep \/ SourceStep \/ Resolution \/ UNCHANGED vars
  <2>1. UNCHANGED max_generation
    BY <1>6, Zenon DEF DeviceStep, begin_device_incarnation, set_device_incarnation, SourceStep,
       revoke_source, restore_source, set_source_authority, upsert_source_policy, SetSource,
       Resolution, resolve_conflict, vars, worldVars
  <2> QED
    BY <1>2, <2>1, Zenon
<1>7. CASE ClockStep
  <2>1. \/ UNCHANGED max_generation
        \/ max_generation' = [m \in EvidenceKey |-> HighestGeneration(StreamRecords(m))]
    BY <1>7, Zenon DEF ClockStep, advance_epoch, set_logical_tick, set_limits, adopt_state,
       worldVars
  <2>2. max_generation[k] = HighestGeneration(StreamRecords(k))
    BY <1>1, Zenon DEF IInv, WorldInv, StreamAccounting
  <2> QED
    BY <1>1, <1>2, <2>1, <2>2, Zenon
<1> QED
    BY <1>3, <1>4, <1>5, <1>6, <1>7, Zenon DEF Next

\* The boot epoch and the clock change in two calls only.
LEMMA TimePasses ==
    ASSUME [Next]_vars
    PROVE  \/ UNCHANGED <<boot_epoch, logical_tick>>
           \/ \E now \in Ticks : set_logical_tick(now)
           \/ \E now \in Ticks : adopt_state(now)
<1>1. CASE Admit
  <2>1. PICK p \in AdmissionRequest, now \in Ticks :
            \/ AdmitRefused(p, now) \/ AdmitBlocked(p, now) \/ AdmitDuplicate(p, now)
            \/ AdmitOutOfOrder(p, now) \/ AdmitStore(p, now)
    BY <1>1, Zenon DEF Admit
  <2>2. CASE AdmitRefused(p, now)
    BY <2>2, Zenon DEF AdmitRefused, vars, clockVars
  <2>3. CASE AdmitBlocked(p, now)
    BY <2>3, Zenon DEF AdmitBlocked, clockVars
  <2>4. CASE AdmitDuplicate(p, now)
    BY <2>4, Zenon DEF AdmitDuplicate, clockVars
  <2>5. CASE AdmitOutOfOrder(p, now)
    BY <2>5, Zenon DEF AdmitOutOfOrder, clockVars
  <2>6. CASE AdmitStore(p, now)
    BY <2>6, Zenon DEF AdmitStore, clockVars
  <2> QED
    BY <2>1, <2>2, <2>3, <2>4, <2>5, <2>6, Zenon
<1>2. CASE BudgetStep
    BY <1>2, Zenon DEF BudgetStep, AdmitEvict, AdmitRollback, AdmitAccept, clockVars
<1>3. CASE Retirement
    BY <1>3, Zenon DEF Retirement, RetireIgnored, Retire, vars, clockVars
<1>4. CASE DeviceStep
    BY <1>4, Zenon DEF DeviceStep, begin_device_incarnation, set_device_incarnation,
       bump_policy_revision, clockVars
<1>5. CASE SourceStep
    BY <1>5, Zenon DEF SourceStep, revoke_source, restore_source, set_source_authority,
       upsert_source_policy, SetSource, bump_policy_revision
<1>6. CASE Resolution
    BY <1>6, Zenon DEF Resolution, resolve_conflict, clockVars
<1>7. CASE ClockStep
    BY <1>7, Zenon DEF ClockStep, advance_epoch, set_limits, bump_policy_revision
<1>8. CASE UNCHANGED vars
    BY <1>8, Zenon DEF vars, clockVars
<1> QED
    BY <1>1, <1>2, <1>3, <1>4, <1>5, <1>6, <1>7, <1>8, Zenon DEF Next

LEMMA BootsOnlyByAdopting ==
    ASSUME IInv, [Next]_vars, boot_epoch' > boot_epoch
    PROVE  \E now \in Ticks : adopt_state(now)
<1>1. boot_epoch' # boot_epoch
    BY DEF IInv, TypeOK
<1> QED
    BY <1>1, TimePasses, Zenon DEF set_logical_tick

-----------------------------------------------------------------------------
(* Results *)

\* Every rejected delivery that is still stored has an accepted record of its
\* stream at or above it: the order of pick_eviction_candidate and the rollback of
\* a refused admission never leave it alone.
THEOREM RejectedIsDominatedHolds == Spec => []RejectedIsDominated
<1>1. IInv /\ RInv => RejectedIsDominated
    BY Zenon DEF RInv, Dominated, Dominates, RejectedIsDominated
<1> QED
    BY <1>1, RetentionInvariance, PTL

\* Evidence that was rejected, retired or superseded is never current again, in
\* any number of streams and with any limits, set_limits in between included.
THEOREM NoRevivalHolds == Spec => NoRevival
<1> DEFINE Revived == ~((\E a \in admitting : RolledBack(a)) \/ \A r \in records : Settled(r) =>
                          \A q \in records' : r.evidence = q.evidence => Settled(q)')
<1>1. IInv /\ IInv' /\ RInv /\ [Next]_vars => [~Revived]_vars
  <2> SUFFICES ASSUME IInv, IInv', RInv, [Next]_vars,
                      ~\E a \in admitting : RolledBack(a),
                      NEW r \in records, Settled(r), NEW q \in records',
                      r.evidence = q.evidence
               PROVE  Settled(q)'
    BY Zenon
  <2>1. CASE q.lifecycle # "admitted"
    BY <2>1, Zenon DEF Settled
  <2>2. CASE q.lifecycle = "admitted"
    <3>1. r.lifecycle = "admitted" /\ r = q
      BY <2>2, SameRecord, Zenon
    <3>2. Superseded(r)
      BY <3>1, Zenon DEF Settled, Superseded
    <3> QED
      BY <3>1, <3>2, MarkKept, Zenon DEF Settled
  <2> QED
    BY <2>1, <2>2, Zenon
<1> QED
    BY <1>1, RetentionInvariance, PTL DEF Spec, NoRevival

\* A restart makes nothing current that was not, and what it carries over comes
\* from a durable source: the recomputed marks are the old ones, and no stored
\* evidence is of the boot that begins.
THEOREM RestartResurrectsNothingHolds == Spec => RestartResurrectsNothing
<1> DEFINE Body == boot_epoch' > boot_epoch => \A r \in records, t \in Ticks :
                     (classify(r, t, 0) = "Active")' =>
                       classify(r, t, 0) = "Active"
                       /\ (ConservativeFence => sources[r.evidence.key.source].durable)
<1>1. IInv /\ IInv' /\ RInv /\ [Next]_vars => [Body]_vars
  <2> SUFFICES ASSUME IInv, IInv', RInv, [Next]_vars, boot_epoch' > boot_epoch
               PROVE  \A r \in records, t \in Ticks : (classify(r, t, 0) = "Active")' =>
                        classify(r, t, 0) = "Active"
                        /\ (ConservativeFence => sources[r.evidence.key.source].durable)
    BY Zenon
  <2>1. PICK now \in Ticks : adopt_state(now)
    BY BootsOnlyByAdopting, Zenon
  <2>2. /\ UNCHANGED <<incarnation_table, records, sources>>
        /\ boot_epoch' = boot_epoch + 1
        /\ \A k \in EvidenceKey : max_generation'[k] = max_generation[k]
    BY <2>1, Zenon DEF adopt_state, policyVars, IInv, WorldInv, StreamAccounting
  <2> TAKE r \in records, t \in Ticks
  <2> HAVE (classify(r, t, 0) = "Active")'
  <2>3. /\ r.evidence.key \in EvidenceKey /\ r.evidence.boot_at_ingest \in Nat
        /\ boot_epoch \in Nat /\ r.evidence.boot_at_ingest <= boot_epoch
        /\ r.lifecycle \in {"admitted", "rejected", "retired"}
    BY RecordTypes, Zenon DEF IInv, TypeOK, CapabilityEvidence, RInv, IngestedBefore
  <2>4. /\ r.lifecycle = "admitted" /\ ~Fenced(r.evidence)' /\ ~Aged(r.evidence, t, 0)'
        /\ ~(r.evidence.generation < max_generation[r.evidence.key])
    BY <2>2, <2>3, Zenon DEF classify, ClassifyAt
  <2>5. ~Aged(r.evidence, t, 0)
    BY <2>2, <2>4, Zenon DEF Aged, effective_max_age, Configured
  <2>6. /\ ~Fenced(r.evidence)
        /\ ConservativeFence => sources[r.evidence.key.source].durable
    <3>1. /\ r.evidence.boot_at_ingest < boot_epoch'
          /\ ~(r.evidence.boot_at_ingest > boot_epoch)
      BY <2>2, <2>3
    <3>2. ~(~sources'[r.evidence.key.source].durable /\ ConservativeFence)
      BY <2>4, <3>1, Zenon DEF Fenced
    <3>3. ~(~sources[r.evidence.key.source].durable /\ ConservativeFence)
      BY <2>2, <3>2, Zenon
    <3>4. LET entry == incarnation_table[r.evidence.key.device]
              source == sources[r.evidence.key.source]
          IN  ~(\/ entry.history = {} \/ entry.current # r.evidence.key.incarnation
                \/ source.trust \in {"unconfigured", "revoked"}
                \/ source.trust = "untrusted" /\ RefuseUntrusted)
      BY <2>2, <2>4, Zenon DEF Fenced
    <3> QED
      BY <3>1, <3>3, <3>4, Zenon DEF Fenced
  <2> QED
    BY <2>4, <2>5, <2>6, Zenon DEF classify, ClassifyAt
<1> QED
    BY <1>1, RetentionInvariance, PTL DEF Spec, RestartResurrectsNothing

\* The logical clock never goes back, and after a restart no stored observation is
\* ahead of it.
THEOREM ClockNeverBehindHolds == Spec => ClockNeverBehind
<1> DEFINE Body == /\ logical_tick' >= logical_tick
                   /\ boot_epoch' > boot_epoch =>
                        \A r \in records : logical_tick' >= r.evidence.observed_at
<1>1. IInv /\ [Next]_vars => [Body]_vars
  <2> SUFFICES ASSUME IInv, [Next]_vars PROVE Body
    BY Zenon
  <2>1. logical_tick \in Nat /\ boot_epoch \in Nat /\ Ticks \subseteq Nat
    BY NumbersAssumption, Zenon DEF IInv, TypeOK
  <2>2. CASE \E now \in Ticks : adopt_state(now)
    <3>1. PICK now \in Ticks : adopt_state(now)
      BY <2>2, Zenon
    <3> DEFINE seen == {r.evidence.observed_at : r \in records} \cup {logical_tick, now}
    <3>2. seen \in SUBSET Nat /\ seen # {}
      BY <2>1, RecordFacts, Zenon
    <3>3. IsFiniteSet(seen)
      <4>1. IsFiniteSet({r.evidence.observed_at : r \in records})
        BY FiniteObservations, Zenon DEF IInv, WorldInv
      <4>2. IsFiniteSet({r.evidence.observed_at : r \in records} \cup {logical_tick})
        BY <4>1, FS_AddElement, Zenon
      <4>3. seen = ({r.evidence.observed_at : r \in records} \cup {logical_tick}) \cup {now}
        BY Zenon
      <4> QED
        BY <4>2, <4>3, FS_AddElement, Zenon
    <3>4. \E m \in seen : \A u \in seen : u <= m
      BY <3>2, <3>3, FiniteMax, Zenon DEF IsMax
    <3>5. \A u \in seen : u <= logical_tick'
      BY <3>1, <3>4, Zenon DEF adopt_state, ResumeTick
    <3>6. logical_tick' \in Nat
      BY <3>1, <3>2, <3>4, Zenon DEF adopt_state, ResumeTick
    <3> QED
      BY <2>1, <3>2, <3>5, <3>6, Zenon
  <2>3. CASE \E now \in Ticks : set_logical_tick(now)
    BY <2>1, <2>3 DEF set_logical_tick
  <2>4. CASE UNCHANGED <<boot_epoch, logical_tick>>
    BY <2>1, <2>4
  <2> QED
    BY <2>2, <2>3, <2>4, TimePasses, Zenon
<1> QED
    BY <1>1, Invariance, PTL DEF Spec, ClockNeverBehind

-----------------------------------------------------------------------------
(* The steps of the engine, by what they do to the stored evidence *)

\* A step that moves no evidence.
Still ==
    /\ UNCHANGED <<records, total_records, admitting, eviction_table>>
    /\ counters'.accepted = counters.accepted
    /\ counters'.evictions_total = counters.evictions_total
    /\ counters'.ledger_dropped = counters.ledger_dropped

LEMMA StillCounters ==
    ASSUME counters \in Counters,
           \/ counters' = counters
           \/ \E n : counters' = [counters EXCEPT !.conflicts_dropped = n]
           \/ \E n : counters' = [counters EXCEPT !.resolutions_dropped = n]
    PROVE  /\ counters'.accepted = counters.accepted
           /\ counters'.evictions_total = counters.evictions_total
           /\ counters'.ledger_dropped = counters.ledger_dropped
    BY Zenon DEF Counters

LEMMA RefreshStill ==
    ASSUME IInv, NEW now, RefreshAllConflicts(now)
    PROVE  /\ UNCHANGED eviction_table
           /\ counters'.accepted = counters.accepted
           /\ counters'.evictions_total = counters.evictions_total
           /\ counters'.ledger_dropped = counters.ledger_dropped
<1>1. counters \in Counters
    BY Zenon DEF IInv, TypeOK
<1>2. UNCHANGED eviction_table /\ \E n : counters' = [counters EXCEPT !.conflicts_dropped = n]
    BY Zenon DEF RefreshAllConflicts
<1> QED
    BY <1>1, <1>2, StillCounters, Zenon

Stores == \E q \in AdmissionRequest, now \in Ticks : AdmitStore(q, now)
KeepsLate == \E q \in AdmissionRequest, now \in Ticks : AdmitOutOfOrder(q, now)
Retires == \E k \in EvidenceKey, g \in Retirements, now \in Ticks : Retire(k, g, now)

LEMMA StepCases ==
    ASSUME IInv, [Next]_vars
    PROVE  Stores \/ KeepsLate \/ BudgetStep \/ Retires \/ Still
<1>1. counters \in Counters
    BY Zenon DEF IInv, TypeOK
<1>2. CASE UNCHANGED vars
    BY <1>2, Zenon DEF vars, worldVars, tableVars, Still
<1>3. CASE Admit
  <2>1. PICK q \in AdmissionRequest, now \in Ticks :
            \/ AdmitRefused(q, now) \/ AdmitBlocked(q, now) \/ AdmitDuplicate(q, now)
            \/ AdmitOutOfOrder(q, now) \/ AdmitStore(q, now)
    BY <1>3, Zenon DEF Admit
  <2>2. CASE AdmitRefused(q, now) \/ AdmitBlocked(q, now) \/ AdmitDuplicate(q, now)
    BY <2>2, Zenon DEF AdmitRefused, AdmitBlocked, AdmitDuplicate, vars, worldVars, tableVars, Still
  <2> QED
    BY <2>1, <2>2, Zenon DEF Stores, KeepsLate
<1>4. CASE Retirement
  <2>1. (\E k \in EvidenceKey, g \in Retirements : RetireIgnored(k, g)) => Still
    BY Zenon DEF RetireIgnored, vars, worldVars, tableVars, Still
  <2> QED
    BY <1>4, <2>1, Zenon DEF Retirement, Retires
<1>5. CASE DeviceStep
  <2>1. PICK d \in Device, now \in Ticks :
            begin_device_incarnation(d, now) \/ \E i \in Incarnation : set_device_incarnation(d, i, now)
    BY <1>5, Zenon DEF DeviceStep
  <2>2. UNCHANGED <<records, total_records, admitting>>
    BY <2>1, Zenon DEF begin_device_incarnation, set_device_incarnation, worldVars
  <2>3. RefreshAllConflicts(now) \/ UNCHANGED <<tableVars, counters>>
    BY <2>1, Zenon DEF begin_device_incarnation, set_device_incarnation
  <2> QED
    BY <2>2, <2>3, RefreshStill, Zenon DEF tableVars, Still
<1>6. CASE SourceStep
  <2>1. PICK now \in Ticks : \E s \in Source : \E p : SetSource(s, p, now)
    BY <1>6, Zenon DEF SourceStep, revoke_source, restore_source, set_source_authority,
       upsert_source_policy
  <2> QED
    BY <2>1, RefreshStill, Zenon DEF SetSource, worldVars, Still
<1>7. CASE Resolution
  <2>1. /\ UNCHANGED <<records, total_records, admitting, eviction_table>>
        /\ \E n : counters' = [counters EXCEPT !.resolutions_dropped = n]
    BY <1>7, Zenon DEF Resolution, resolve_conflict, worldVars
  <2> QED
    BY <1>1, <2>1, StillCounters, Zenon DEF Still
<1>8. CASE ClockStep
  <2>1. CASE advance_epoch \/ \E now \in Ticks : set_logical_tick(now)
    BY <2>1, Zenon DEF advance_epoch, set_logical_tick, worldVars, tableVars, Still
  <2>2. CASE \E l \in LimitChoices : set_limits(l)
    BY <2>2, Zenon DEF set_limits, worldVars, tableVars, Still
  <2>3. CASE \E now \in Ticks : adopt_state(now)
    <3>1. PICK t : RefreshAllConflicts(t)
      BY <2>3, Zenon DEF adopt_state
    <3>2. UNCHANGED <<records, admitting>> /\ total_records' = Cardinality(records)
      BY <2>3, Zenon DEF adopt_state
    <3> QED
      BY <3>1, <3>2, RefreshStill, Zenon DEF Still, IInv, WorldInv, StreamAccounting
  <2> QED
    BY <1>8, <2>1, <2>2, <2>3, Zenon DEF ClockStep
<1> QED
    BY <1>2, <1>3, <1>4, <1>5, <1>6, <1>7, <1>8, Zenon DEF Next

-----------------------------------------------------------------------------
(* The record bounds *)

\* An admission in its budget loop is at most one record over each bound, and
\* what it has evicted already brought it back under.
BInv ==
    /\ total_records <= limits.max_records + Cardinality(admitting)
    /\ \A k \in EvidenceKey : OverStream(k) =>
         /\ \E a \in admitting : a.evidence.key = k
         /\ Cardinality(StreamRecords(k)) <= limits.max_per_stream + 1
    /\ \A a \in admitting : a.evicted # {} => ~OverRecords
    /\ \A a \in admitting : \A r \in a.evicted :
         r.evidence.key = a.evidence.key => ~OverStream(a.evidence.key)

\* Between calls the budget invariant says that nothing is over its bound.
LEMMA BInvAtRest ==
    ASSUME Cardinality(admitting') = 0, admitting' = {}, limits'.max_records \in Nat,
           total_records' <= limits'.max_records,
           \A k \in EvidenceKey : ~OverStream(k)'
    PROVE  BInv'
<1>1. total_records' <= limits'.max_records + Cardinality(admitting')
    OBVIOUS
<1> QED
    BY <1>1, Zenon DEF BInv

\* No call of set_limits lowers the record bounds.
LimitsGrow ==
    /\ limits'.max_records >= limits.max_records
    /\ limits'.max_per_stream >= limits.max_per_stream

LimitsNeverShrink == [][LimitsGrow]_vars

LEMMA LimitTypes ==
    ASSUME TypeOK PROVE limits.max_records \in Nat /\ limits.max_per_stream \in Nat
    BY PolicyAssumption, Zenon DEF TypeOK, RegistryLimits

LEMMA StreamCounts ==
    ASSUME IInv, NEW k \in EvidenceKey
    PROVE  IsFiniteSet(StreamRecords(k)) /\ Cardinality(StreamRecords(k)) \in Nat
<1>1. IsFiniteSet(StreamRecords(k))
    BY FS_Subset, Zenon DEF StreamRecords, IInv, WorldInv
<1> QED
    BY <1>1, FS_CardinalityType, Zenon

LEMMA OneAdmission ==
    ASSUME TypeOK
    PROVE  /\ admitting = {} => Cardinality(admitting) = 0
           /\ \A a \in admitting : admitting = {a} /\ Cardinality(admitting) = 1
<1>1. \A a \in admitting : admitting = {a}
    BY Zenon DEF TypeOK
<1> QED
    BY <1>1, FS_EmptySet, FS_Singleton, Zenon

\* Outside an admission the invariant says that the bounds are respected.
LEMMA BInvUnlocked ==
    ASSUME TypeOK, Unlocked
    PROVE  BInv <=> /\ total_records <= limits.max_records
                    /\ \A k \in EvidenceKey : ~OverStream(k)
<1>1. admitting = {} /\ Cardinality(admitting) = 0
    BY OneAdmission, Zenon DEF Unlocked
<1>2. limits.max_records \in Nat
    BY LimitTypes, Zenon
<1> QED
    BY <1>1, <1>2 DEF BInv

LEMMA StillBInv == ASSUME IInv, IInv', BInv, LimitsGrow, Still, [Next]_vars PROVE BInv'
<1>1. CASE Unlocked
  <2>1. Unlocked' /\ total_records' = total_records
        /\ \A k \in EvidenceKey : StreamRecords(k)' = StreamRecords(k)
    BY <1>1, Zenon DEF Still, Unlocked, StreamRecords
  <2>2. total_records <= limits.max_records /\ \A k \in EvidenceKey : ~OverStream(k)
    BY <1>1, BInvUnlocked, Zenon DEF IInv
  <2>3. /\ limits.max_records \in Nat /\ limits.max_per_stream \in Nat
        /\ limits'.max_records \in Nat /\ limits'.max_per_stream \in Nat
        /\ total_records \in Nat
    <3>1. limits.max_records \in Nat /\ limits.max_per_stream \in Nat
      BY LimitTypes, Zenon DEF IInv
    <3>2. limits'.max_records \in Nat /\ limits'.max_per_stream \in Nat
      BY PolicyAssumption, Zenon DEF IInv, TypeOK, RegistryLimits
    <3> QED
      BY <3>1, <3>2, Zenon DEF IInv, TypeOK
  <2>4. total_records' <= limits'.max_records
    BY <2>1, <2>2, <2>3 DEF LimitsGrow
  <2>5. ASSUME NEW k \in EvidenceKey PROVE ~OverStream(k)'
    BY <2>1, <2>2, <2>3, StreamCounts DEF LimitsGrow, OverStream
  <2>6. admitting' = {} /\ Cardinality(admitting') = 0
    BY <2>1, FS_EmptySet, Zenon DEF Unlocked
  <2> QED
    BY <2>3, <2>4, <2>5, <2>6, BInvAtRest, Zenon
<1>2. CASE ~Unlocked
  <2>1. UNCHANGED limits
    BY <1>2, ZenonT(30) DEF Next, Admit, AdmitRefused, AdmitBlocked, AdmitDuplicate, AdmitOutOfOrder,
       AdmitStore, BudgetStep, AdmitEvict, AdmitRollback, AdmitAccept, Retirement,
       RetireIgnored, Retire, DeviceStep, begin_device_incarnation, set_device_incarnation,
       SourceStep, revoke_source, restore_source, set_source_authority, upsert_source_policy,
       SetSource, Resolution, resolve_conflict, ClockStep, advance_epoch, set_logical_tick,
       set_limits, adopt_state, vars, policyVars
  <2>2. /\ admitting' = admitting /\ total_records' = total_records
        /\ \A k : StreamRecords(k)' = StreamRecords(k)
    BY Zenon DEF Still, StreamRecords
  <2>3. (OverRecords' <=> OverRecords) /\ \A k : OverStream(k)' <=> OverStream(k)
    BY <2>1, <2>2, Zenon DEF OverRecords, OverStream
  <2> QED
    BY <2>1, <2>2, <2>3, ZenonT(30) DEF BInv
<1> QED
    BY <1>1, <1>2, Zenon

LEMMA StoreBInv ==
    ASSUME IInv, IInv', BInv, NEW q \in AdmissionRequest, NEW now \in Ticks, AdmitStore(q, now)
    PROVE  BInv'
<1> DEFINE r == [evidence |-> EvidenceOf(q), lifecycle |-> "admitted"]
           a == [evidence |-> EvidenceOf(q), now |-> now, evicted |-> {},
                 previous_max |-> max_generation[q.key]]
<1>1. /\ Unlocked /\ records' = records \cup {r} /\ total_records' = total_records + 1
      /\ admitting' = {a} /\ UNCHANGED limits
    BY Zenon DEF AdmitStore, policyVars
<1>2. EvidenceOf(q).key = q.key /\ q.key \in EvidenceKey
    BY EvidenceTypes, Zenon DEF IInv
<1>3. /\ limits.max_records \in Nat /\ limits.max_per_stream \in Nat /\ total_records \in Nat
      /\ total_records <= limits.max_records /\ \A k \in EvidenceKey : ~OverStream(k)
    BY <1>1, LimitTypes, BInvUnlocked, Zenon DEF IInv, TypeOK
<1>4. Cardinality(admitting') = 1
    BY <1>1, FS_Singleton, Zenon
<1>5. ASSUME NEW k \in EvidenceKey
      PROVE  /\ k # q.key => StreamRecords(k)' = StreamRecords(k)
             /\ Cardinality(StreamRecords(q.key)') <= limits.max_per_stream + 1
  <2>1. /\ k # q.key => StreamRecords(k)' = StreamRecords(k)
        /\ StreamRecords(q.key)' = StreamRecords(q.key) \cup {r}
    <3>1. records' = records \cup {r} /\ r.evidence.key = q.key
      BY <1>1, <1>2, Zenon
    <3> HIDE DEF r
    <3> QED
      BY <3>1 DEF StreamRecords
  <2>2. /\ Cardinality(StreamRecords(q.key)) \in Nat
        /\ Cardinality(StreamRecords(q.key)) <= limits.max_per_stream
        /\ IsFiniteSet(StreamRecords(q.key))
    BY <1>2, <1>3, StreamCounts DEF OverStream
  <2> HIDE DEF r
  <2>3. Cardinality(StreamRecords(q.key) \cup {r}) \in
            {Cardinality(StreamRecords(q.key)), Cardinality(StreamRecords(q.key)) + 1}
    BY <2>2, FS_AddElement, Zenon
  <2>4. Cardinality(StreamRecords(q.key) \cup {r}) <= limits.max_per_stream + 1
    BY <1>3, <2>2, <2>3
  <2> QED
    BY <2>1, <2>4, Zenon
<1>6. a.evidence.key = q.key /\ a.evicted = {}
    BY <1>2, Zenon
<1> HIDE DEF a
<1>7. \A k \in EvidenceKey : OverStream(k)' => k = q.key
    BY <1>1, <1>3, <1>5, Zenon DEF OverStream
<1> QED
    BY <1>1, <1>2, <1>3, <1>4, <1>5, <1>6, <1>7 DEF BInv

LEMMA LateBInv ==
    ASSUME IInv, IInv', BInv, NEW q \in AdmissionRequest, NEW now \in Ticks, AdmitOutOfOrder(q, now)
    PROVE  BInv'
<1> DEFINE r == [evidence |-> EvidenceOf(q), lifecycle |-> "rejected"]
<1>1. /\ Unlocked /\ UNCHANGED <<admitting, limits>>
      /\ \/ UNCHANGED <<records, total_records>>
         \/ /\ Cardinality(StreamRecords(q.key)) < limits.max_per_stream
            /\ total_records < limits.max_records
            /\ records' = records \cup {r} /\ total_records' = total_records + 1
    BY Zenon DEF AdmitOutOfOrder, policyVars
<1>2. EvidenceOf(q).key = q.key /\ q.key \in EvidenceKey
    BY EvidenceTypes, Zenon DEF IInv
<1>3. /\ limits.max_records \in Nat /\ limits.max_per_stream \in Nat /\ total_records \in Nat
      /\ total_records <= limits.max_records /\ \A k \in EvidenceKey : ~OverStream(k)
    BY <1>1, LimitTypes, BInvUnlocked, Zenon DEF IInv, TypeOK
<1>4. total_records' <= limits'.max_records
    BY <1>1, <1>3
<1>5. ASSUME NEW k \in EvidenceKey PROVE ~OverStream(k)'
  <2>1. \/ StreamRecords(k)' = StreamRecords(k)
        \/ /\ StreamRecords(k)' = StreamRecords(k) \cup {r}
           /\ Cardinality(StreamRecords(k)) < limits.max_per_stream
    <3>1. CASE records' = records \/ k # q.key
      BY <1>1, <1>2, <3>1 DEF StreamRecords
    <3>2. CASE records' # records /\ k = q.key
      <4>1. Cardinality(StreamRecords(q.key)) < limits.max_per_stream /\ records' = records \cup {r}
        BY <1>1, <3>2, Zenon
      <4>2. StreamRecords(k)' = StreamRecords(k) \cup {r}
        BY <1>2, <3>2, <4>1 DEF StreamRecords
      <4> QED
        BY <3>2, <4>1, <4>2, Zenon
    <3> QED
      BY <3>1, <3>2, Zenon
  <2>2. IsFiniteSet(StreamRecords(k)) /\ Cardinality(StreamRecords(k)) \in Nat
    BY StreamCounts, Zenon
  <2> HIDE DEF r
  <2>3. Cardinality(StreamRecords(k) \cup {r}) \in
            {Cardinality(StreamRecords(k)), Cardinality(StreamRecords(k)) + 1}
    BY <2>2, FS_AddElement, Zenon
  <2>4. Cardinality(StreamRecords(k)) <= limits.max_per_stream
    BY <1>3, <2>2 DEF OverStream
  <2>5. CASE StreamRecords(k)' = StreamRecords(k)
    BY <1>1, <1>3, <2>2, <2>4, <2>5, Zenon DEF OverStream
  <2>6. CASE /\ StreamRecords(k)' = StreamRecords(k) \cup {r}
             /\ Cardinality(StreamRecords(k)) < limits.max_per_stream
    <3>1. Cardinality(StreamRecords(k) \cup {r}) <= limits.max_per_stream
      BY <1>3, <2>2, <2>3, <2>6
    <3>2. Cardinality(StreamRecords(k)') <= limits'.max_per_stream
      BY <1>1, <2>6, <3>1, Zenon
    <3>3. Cardinality(StreamRecords(k)') \in Nat
      BY <2>2, <2>3, <2>6
    <3> QED
      BY <1>1, <1>3, <3>2, <3>3 DEF OverStream
  <2> QED
    BY <2>1, <2>5, <2>6, Zenon
<1>6. admitting' = {} /\ Cardinality(admitting') = 0
    BY <1>1, FS_EmptySet, Zenon DEF Unlocked
<1> QED
  <2>1. limits'.max_records \in Nat
    BY <1>1, <1>3, Zenon
  <2> QED
    BY <1>4, <1>5, <1>6, <2>1, BInvAtRest, Zenon

\* Taking a record out of the registry.
LEMMA RemoveCounts ==
    ASSUME IInv, NEW r \in records, records' = records \ {r}, UNCHANGED limits,
           NEW k \in EvidenceKey
    PROVE  /\ Cardinality(StreamRecords(k)') \in Nat
           /\ Cardinality(StreamRecords(k)') = Cardinality(StreamRecords(k))
                 - (IF r.evidence.key = k THEN 1 ELSE 0)
<1>1. StreamRecords(k)' = IF r.evidence.key = k THEN StreamRecords(k) \ {r} ELSE StreamRecords(k)
    BY DEF StreamRecords
<1>2. r.evidence.key = k => r \in StreamRecords(k)
    BY Zenon DEF StreamRecords
<1>3. IsFiniteSet(StreamRecords(k)) /\ Cardinality(StreamRecords(k)) \in Nat
    BY StreamCounts, Zenon
<1>4. /\ Cardinality(StreamRecords(k) \ {r}) \in Nat
      /\ r \in StreamRecords(k) =>
            Cardinality(StreamRecords(k) \ {r}) = Cardinality(StreamRecords(k)) - 1
    BY <1>3, FS_RemoveElement, FS_CardinalityType, Zenon
<1> QED
    BY <1>1, <1>2, <1>3, <1>4

LEMMA EvictBInv == ASSUME IInv, IInv', BInv, AdmitEvict PROVE BInv'
<1>1. PICK a \in admitting : \E r \in eviction_candidates(a) :
          /\ apply_eviction(r)
          /\ admitting' = {[a EXCEPT !.evicted = @ \cup {r}]}
          /\ UNCHANGED limits
    BY Zenon DEF AdmitEvict, policyVars
<1>2. PICK r \in eviction_candidates(a) :
          /\ records' = records \ {r} /\ total_records' = total_records - 1
          /\ admitting' = {[a EXCEPT !.evicted = @ \cup {r}]}
          /\ UNCHANGED limits
    BY <1>1, Zenon DEF apply_eviction, RemoveRecord
<1>3. r \in records
    BY <1>2, Zenon DEF eviction_candidates, EvictionScope, StreamRecords
<1>4. /\ a \in Admission /\ a.evidence.key \in EvidenceKey
      /\ Cardinality(admitting) = 1 /\ admitting = {a}
    BY OneAdmission, Zenon DEF IInv, TypeOK, Admission, CapabilityEvidence
<1> DEFINE b == [a EXCEPT !.evicted = @ \cup {r}]
<1>5. b.evidence = a.evidence /\ b.evicted = a.evicted \cup {r}
    BY <1>4, Zenon DEF Admission
<1>6. admitting' = {b} /\ Cardinality(admitting') = 1
    BY <1>2, FS_Singleton, Zenon
<1> HIDE DEF b
<1>7. /\ limits.max_records \in Nat /\ limits.max_per_stream \in Nat
      /\ total_records \in Nat /\ total_records' \in Nat
    BY LimitTypes, Zenon DEF IInv, TypeOK
<1>8. total_records' <= limits'.max_records
    BY <1>2, <1>4, <1>7 DEF BInv
<1>9. ASSUME NEW k \in EvidenceKey
      PROVE  /\ OverStream(k)' => k = a.evidence.key /\ k # r.evidence.key /\ OverStream(k)
             /\ OverStream(k)' => Cardinality(StreamRecords(k)') <= limits.max_per_stream + 1
  <2>1. /\ Cardinality(StreamRecords(k)') \in Nat /\ Cardinality(StreamRecords(k)) \in Nat
        /\ Cardinality(StreamRecords(k)') = Cardinality(StreamRecords(k))
              - (IF r.evidence.key = k THEN 1 ELSE 0)
    BY <1>2, <1>3, RemoveCounts, StreamCounts, Zenon
  <2>2. OverStream(k) => k = a.evidence.key /\ Cardinality(StreamRecords(k)) <= limits.max_per_stream + 1
    BY <1>4, Zenon DEF BInv
  <2> QED
    BY <1>2, <1>7, <2>1, <2>2 DEF OverStream
<1>10. \A s \in b.evicted : s.evidence.key = a.evidence.key => ~OverStream(a.evidence.key)'
    BY <1>4, <1>5, <1>9, Zenon DEF BInv
<1>11. total_records' <= limits'.max_records + 1 /\ ~OverRecords'
    BY <1>2, <1>7, <1>8 DEF OverRecords
<1> QED
    BY <1>2, <1>5, <1>6, <1>9, <1>10, <1>11, ZenonT(30) DEF BInv

LEMMA RollbackBInv == ASSUME IInv, IInv', BInv, AdmitRollback PROVE BInv'
<1>1. PICK a \in admitting :
          /\ RemoveRecord([evidence |-> a.evidence, lifecycle |-> "admitted"])
          /\ admitting' = {} /\ UNCHANGED limits
    BY Zenon DEF AdmitRollback, policyVars
<1> DEFINE r == [evidence |-> a.evidence, lifecycle |-> "admitted"]
<1>2. r \in records /\ r.evidence = a.evidence
    BY Zenon DEF IInv, WorldInv, AdmittingStored
<1>3. records' = records \ {r} /\ total_records' = total_records - 1
    BY <1>1, Zenon DEF RemoveRecord
<1> HIDE DEF r
<1>4. Cardinality(admitting) = 1 /\ admitting = {a}
    BY OneAdmission, Zenon DEF IInv
<1>5. /\ limits.max_records \in Nat /\ limits.max_per_stream \in Nat
      /\ total_records \in Nat /\ total_records' \in Nat
    BY LimitTypes, Zenon DEF IInv, TypeOK
<1>6. total_records' <= limits'.max_records
    BY <1>1, <1>3, <1>4, <1>5 DEF BInv
<1>7. ASSUME NEW k \in EvidenceKey PROVE ~OverStream(k)'
  <2>1. /\ Cardinality(StreamRecords(k)') \in Nat /\ Cardinality(StreamRecords(k)) \in Nat
        /\ Cardinality(StreamRecords(k)') = Cardinality(StreamRecords(k))
              - (IF r.evidence.key = k THEN 1 ELSE 0)
    BY <1>1, <1>2, <1>3, RemoveCounts, StreamCounts, Zenon
  <2>2. OverStream(k) => /\ k = r.evidence.key
                         /\ Cardinality(StreamRecords(k)) <= limits.max_per_stream + 1
    BY <1>2, <1>4, Zenon DEF BInv
  <2> QED
    BY <1>1, <1>5, <2>1, <2>2 DEF OverStream
<1>8. Cardinality(admitting') = 0
    BY <1>1, FS_EmptySet, Zenon
<1> QED
  <2>1. limits'.max_records \in Nat
    BY <1>1, <1>5, Zenon
  <2> QED
    BY <1>1, <1>6, <1>7, <1>8, <2>1, BInvAtRest, Zenon

LEMMA AcceptBInv == ASSUME IInv, IInv', BInv, AdmitAccept PROVE BInv'
<1>1. PICK a \in admitting :
          /\ ~OverBudget(a) /\ admitting' = {} /\ UNCHANGED <<records, total_records, limits>>
    BY Zenon DEF AdmitAccept, policyVars, worldVars
<1>2. admitting = {a}
    BY OneAdmission, Zenon DEF IInv
<1>3. limits.max_records \in Nat /\ total_records \in Nat
    BY LimitTypes, Zenon DEF IInv, TypeOK
<1>4. total_records <= limits.max_records /\ \A k \in EvidenceKey : ~OverStream(k)
    BY <1>1, <1>2, <1>3 DEF BInv, OverBudget, OverRecords
<1>5. Cardinality(admitting') = 0
    BY <1>1, FS_EmptySet, Zenon
<1> QED
    BY <1>1, <1>3, <1>4, <1>5 DEF BInv, OverStream, StreamRecords

\* A retirement turns each record into one of the same stream.
LEMMA RetireBInv ==
    ASSUME IInv, IInv', BInv, NEW k \in EvidenceKey, NEW g \in Retirements, NEW now \in Ticks,
           Retire(k, g, now)
    PROVE  BInv'
<1> DEFINE f(r) == IF /\ r.evidence.key = k /\ r.lifecycle = "admitted"
                      /\ r.evidence.generation <= g
                   THEN [r EXCEPT !.lifecycle = "retired"] ELSE r
<1>1. /\ Unlocked /\ UNCHANGED <<admitting, total_records, limits>>
      /\ records' = {f(r) : r \in records}
    BY Zenon DEF Retire, policyVars
<1>2. /\ limits.max_records \in Nat /\ limits.max_per_stream \in Nat /\ total_records \in Nat
      /\ total_records <= limits.max_records /\ \A h \in EvidenceKey : ~OverStream(h)
    BY <1>1, LimitTypes, BInvUnlocked, Zenon DEF IInv, TypeOK
<1>3. \A r \in records : f(r).evidence = r.evidence
    BY DEF IInv, TypeOK, StoredEvidence
<1> HIDE DEF f
<1>4. ASSUME NEW h \in EvidenceKey PROVE ~OverStream(h)'
  <2> DEFINE m == [r \in StreamRecords(h) |-> f(r)]
  <2>1. StreamRecords(h)' = {f(r) : r \in StreamRecords(h)}
    BY <1>1, <1>3, Zenon DEF StreamRecords
  <2>2. m \in Surjection(StreamRecords(h), StreamRecords(h)')
    BY <2>1, Zenon DEF Surjection
  <2>3. IsFiniteSet(StreamRecords(h)) /\ Cardinality(StreamRecords(h)) \in Nat
    BY StreamCounts, Zenon
  <2>4. IsFiniteSet(StreamRecords(h)')
        /\ Cardinality(StreamRecords(h)') <= Cardinality(StreamRecords(h))
    BY <2>2, <2>3, FS_Surjection, Zenon
  <2>5. Cardinality(StreamRecords(h)') \in Nat
    BY <2>4, FS_CardinalityType, Zenon
  <2> QED
    BY <1>1, <1>2, <2>3, <2>4, <2>5 DEF OverStream
<1>5. admitting' = {} /\ Cardinality(admitting') = 0
    BY <1>1, FS_EmptySet, Zenon DEF Unlocked
<1> QED
    BY <1>1, <1>2, <1>4, <1>5, Zenon DEF BInv

LEMMA InitBInv == Init => BInv
<1> SUFFICES ASSUME Init PROVE BInv
    BY Zenon
<1>1. \A k \in EvidenceKey : Cardinality(StreamRecords(k)) = 0
    BY FS_EmptySet, Zenon DEF Init, StreamRecords
<1>2. limits.max_records \in Nat /\ limits.max_per_stream \in Nat
    BY PolicyAssumption, Zenon DEF Init, RegistryLimits
<1> QED
    BY <1>1, <1>2, FS_EmptySet DEF Init, BInv, OverStream

LEMMA NextBInv == IInv /\ IInv' /\ BInv /\ [Next]_vars /\ [LimitsGrow]_vars => BInv'
<1> SUFFICES ASSUME IInv, IInv', BInv, [Next]_vars, [LimitsGrow]_vars PROVE BInv'
    BY Zenon
<1>1. CASE Still
  <2>1. UNCHANGED vars => BInv'
    BY Zenon DEF BInv, OverStream, OverRecords, StreamRecords, vars, worldVars, policyVars
  <2> QED
    BY <1>1, <2>1, StillBInv, Zenon
<1> QED
    BY <1>1, StepCases, StoreBInv, LateBInv, EvictBInv, RollbackBInv, AcceptBInv, RetireBInv, Zenon
       DEF Stores, KeepsLate, BudgetStep, Retires

LEMMA BudgetInvariance == Spec /\ LimitsNeverShrink => [](IInv /\ BInv)
    BY InitIInv, NextIInv, InitBInv, NextBInv, PTL DEF Spec, LimitsNeverShrink

\* While set_limits lowers no record bound, every call leaves the registry within
\* its bounds: a record over them is only ever there inside enforce_budget.
THEOREM BudgetRespectedHolds == Spec /\ LimitsNeverShrink => []BudgetRespected
<1>1. IInv /\ BInv => BudgetRespected
    BY BInvUnlocked, Zenon DEF IInv, BudgetRespected
<1> QED
    BY <1>1, BudgetInvariance, PTL

\* An eviction never removes what is live, and an admission that ends in a
\* refusal had evicted nothing that was current when it began: once it evicted a
\* record of its own stream it was within both bounds.
THEOREM NeverDiscardsCurrentHolds == Spec /\ LimitsNeverShrink => NeverDiscardsCurrent
<1> DEFINE Keeps == \A a \in admitting :
             /\ \A r \in records \ records' : r.evidence # a.evidence =>
                     r \notin live(GroupOf(r.evidence.key), a.now, 0)
             /\ RolledBack(a) => \A r \in a.evicted : r.evidence.key = a.evidence.key =>
                     ClassifyAt(r, a.previous_max, a.now, 0) # "Active"
<1>1. IInv /\ BInv /\ [Next]_vars => [Keeps]_vars
  <2> SUFFICES ASSUME IInv, BInv, [Next]_vars, vars' # vars, NEW a \in admitting
               PROVE  /\ \A r \in records \ records' : r.evidence # a.evidence =>
                             r \notin live(GroupOf(r.evidence.key), a.now, 0)
                      /\ RolledBack(a) => \A r \in a.evicted : r.evidence.key # a.evidence.key
    BY Zenon DEF Keeps
  <2>1. admitting = {a} /\ ~Unlocked
    BY OneAdmission, Zenon DEF IInv, Unlocked
  <2>2. BudgetStep
    BY <2>1, Zenon DEF Next, Admit, AdmitRefused, AdmitBlocked, AdmitDuplicate, AdmitOutOfOrder,
       AdmitStore, Retirement, RetireIgnored, Retire, DeviceStep, begin_device_incarnation,
       set_device_incarnation, SourceStep, revoke_source, restore_source, set_source_authority,
       upsert_source_policy, SetSource, Resolution, resolve_conflict, ClockStep, advance_epoch,
       set_logical_tick, set_limits, adopt_state
  <2>3. CASE AdmitEvict
    <3>1. admitting' # {}
      BY <2>3, Zenon DEF AdmitEvict
    <3>2. PICK r \in eviction_candidates(a) : records' = records \ {r}
      BY <2>1, <2>3, Zenon DEF AdmitEvict, apply_eviction, RemoveRecord
    <3>3. eviction_priority(r, a.now) <= 4 \/ Outranked(r, a.now, 0)
      BY <3>2, Zenon DEF eviction_candidates, EvictionScope, Evictable
    <3>4. classify(r, a.now, 0) = "Active" => eviction_priority(r, a.now) = 5
      BY Zenon DEF eviction_priority
    <3>5. r \notin live(GroupOf(r.evidence.key), a.now, 0)
      BY <3>3, <3>4 DEF live, ActiveRecords
    <3> QED
      BY <3>1, <3>2, <3>5, Zenon DEF RolledBack
  <2>4. CASE AdmitRollback
    <3>1. OverBudget(a) /\ records' = records \ {[evidence |-> a.evidence, lifecycle |-> "admitted"]}
      BY <2>1, <2>4, Zenon DEF AdmitRollback, RemoveRecord
    <3>2. \A r \in records \ records' : r.evidence = a.evidence
      BY <3>1
    <3>3. \A r \in a.evicted : r.evidence.key # a.evidence.key
      BY <3>1, Zenon DEF BInv, OverBudget
    <3> QED
      BY <3>2, <3>3, Zenon
  <2>5. CASE AdmitAccept
    <3>1. records' = records
      BY <2>5, Zenon DEF AdmitAccept, worldVars
    <3>2. [evidence |-> a.evidence, lifecycle |-> "admitted"] \in records'
      BY <3>1, Zenon DEF IInv, WorldInv, AdmittingStored
    <3> QED
      BY <3>1, <3>2, Zenon DEF RolledBack
  <2> QED
    BY <2>2, <2>3, <2>4, <2>5, Zenon DEF BudgetStep
<1>2. Keeps => \A a \in admitting :
             /\ \A r \in records \ records' : r.evidence # a.evidence =>
                     r \notin live(GroupOf(r.evidence.key), a.now, 0)
             /\ RolledBack(a) => \A r \in a.evicted : r.evidence.key = a.evidence.key =>
                     ClassifyAt(r, a.previous_max, a.now, 0) # "Active"
    BY Zenon DEF Keeps
<1> QED
    BY <1>1, BudgetInvariance, PTL DEF Spec, NeverDiscardsCurrent, Keeps

-----------------------------------------------------------------------------
(* The incarnations handed out *)

\* What a step may add to the history of a device, and where it leaves the counter.
LEMMA IncarnationSteps ==
    ASSUME IInv, [Next]_vars, next_incarnation # 0
    PROVE  \/ UNCHANGED <<incarnation_table, next_incarnation>>
           \/ \E d \in Device, i \in AnyIncarnation : \E c :
                /\ incarnation_table' = [incarnation_table EXCEPT ![d] =
                       [current |-> c, history |-> incarnation_table[d].history \cup {i}]]
                /\ next_incarnation' = PastIncarnation(i)
<1>1. DeviceTypes
    BY TypeParts, Zenon DEF IInv
<1>2. CASE Admit
  <2>1. PICK q \in AdmissionRequest : RegisterDevice(q.key) \/ UNCHANGED deviceVars
    BY <1>2, Zenon DEF Admit, AdmitRefused, AdmitBlocked, AdmitDuplicate, AdmitOutOfOrder,
       AdmitStore, vars
  <2>2. q.key.device \in Device /\ q.key.incarnation \in AnyIncarnation
    BY EvidenceTypes, Zenon DEF IInv, EvidenceKey
  <2> QED
    BY <2>1, <2>2, Zenon DEF RegisterDevice, deviceVars
<1>3. CASE DeviceStep
  <2>1. PICK d \in Device, now \in Ticks :
            begin_device_incarnation(d, now) \/ \E i \in Incarnation : set_device_incarnation(d, i, now)
    BY <1>3, Zenon DEF DeviceStep
  <2>2. CASE begin_device_incarnation(d, now)
    <3>1. /\ next_incarnation' = (next_incarnation + 1) % IncarnationModulus
          /\ incarnation_table' = [incarnation_table EXCEPT ![d] =
                 [current |-> next_incarnation,
                  history |-> incarnation_table[d].history \cup {next_incarnation}]]
      BY <1>1, <2>2, Zenon DEF begin_device_incarnation, DeviceTypes
    <3>2. next_incarnation \in AnyIncarnation /\ next_incarnation <= next_incarnation
      BY <1>1, NumbersAssumption DEF DeviceTypes, AnyIncarnation
    <3> QED
      BY <3>1, <3>2, Zenon DEF PastIncarnation
  <2>3. CASE \E i \in Incarnation : set_device_incarnation(d, i, now)
    <3>1. PICK i \in Incarnation :
              /\ next_incarnation' = PastIncarnation(i)
              /\ incarnation_table' = [incarnation_table EXCEPT ![d] =
                     [current |-> i, history |-> incarnation_table[d].history \cup {i}]]
      BY <1>1, <2>3, Zenon DEF set_device_incarnation, DeviceTypes
    <3> QED
      BY <3>1, NumbersAssumption, Zenon
  <2> QED
    BY <2>1, <2>2, <2>3, Zenon
<1>4. CASE BudgetStep \/ Retirement \/ SourceStep \/ Resolution \/ UNCHANGED vars
  <2>1. BudgetStep \/ Retirement \/ Resolution \/ UNCHANGED vars => UNCHANGED deviceVars
    BY Zenon DEF BudgetStep, AdmitEvict, AdmitRollback, AdmitAccept, Retirement, RetireIgnored,
       Retire,
       Resolution, resolve_conflict, vars
  <2>2. SourceStep => UNCHANGED deviceVars
    BY Zenon DEF SourceStep, revoke_source, restore_source, set_source_authority,
       upsert_source_policy, SetSource
  <2> QED
    BY <1>4, <2>1, <2>2, Zenon DEF deviceVars
<1>5. CASE ClockStep
    BY <1>5, Zenon DEF ClockStep, advance_epoch, set_logical_tick, set_limits, adopt_state,
       deviceVars
<1> QED
    BY <1>2, <1>3, <1>4, <1>5, Zenon DEF Next

LEMMA NextFresh ==
    ASSUME IInv, IInv', FreshIncarnation, next_incarnation # 0, next_incarnation' # 0, [Next]_vars
    PROVE  FreshIncarnation'
<1>1. CASE UNCHANGED <<incarnation_table, next_incarnation>>
    BY <1>1, Zenon DEF FreshIncarnation
<1>2. ASSUME NEW d \in Device, NEW i \in AnyIncarnation, NEW c,
             incarnation_table' = [incarnation_table EXCEPT ![d] =
                 [current |-> c, history |-> incarnation_table[d].history \cup {i}]],
             next_incarnation' = PastIncarnation(i)
      PROVE  FreshIncarnation'
  <2>1. /\ next_incarnation \in 0 .. IncarnationModulus - 1 /\ i \in 0 .. IncarnationModulus - 1
        /\ IncarnationModulus \in Nat \ {0, 1}
    BY NumbersAssumption, Zenon DEF IInv, TypeOK, AnyIncarnation
  <2>2. i + 1 < IncarnationModulus => (i + 1) % IncarnationModulus = i + 1
    BY <2>1
  <2>3. i + 1 = IncarnationModulus => (i + 1) % IncarnationModulus = 0
    BY <2>1
  <2>4. next_incarnation' >= next_incarnation /\ next_incarnation' > i /\ next_incarnation' \in Nat
    BY <1>2, <2>1, <2>2, <2>3 DEF PastIncarnation
  <2>5. ASSUME NEW e \in Device, NEW j \in incarnation_table'[e].history
        PROVE  j < next_incarnation'
    <3>1. j \in incarnation_table[e].history \/ j = i
      BY <1>2, Zenon DEF IInv, TypeOK
    <3>2. j \in incarnation_table[e].history => j < next_incarnation /\ j \in Nat
      <4>1. incarnation_table[e].history \subseteq AnyIncarnation
        BY Zenon DEF IInv, TypeOK
      <4>2. AnyIncarnation \subseteq Nat
        BY <2>1 DEF AnyIncarnation
      <4> QED
        BY <4>1, <4>2, Zenon DEF FreshIncarnation
    <3> QED
      BY <2>1, <2>4, <3>1, <3>2
  <2> QED
    BY <2>5, Zenon DEF FreshIncarnation
<1> QED
    BY <1>1, <1>2, IncarnationSteps, Zenon

\* Until the 64-bit counter wraps to zero, begin_device_incarnation hands out an
\* incarnation that no device has ever had, whatever incarnations callers named.
THEOREM FreshIncarnationHolds == Spec /\ [](next_incarnation # 0) => []FreshIncarnation
<1>1. Init => FreshIncarnation
    BY DEF Init, FreshIncarnation
<1>2. IInv /\ IInv' /\ FreshIncarnation /\ next_incarnation # 0 /\ (next_incarnation # 0)'
        /\ [Next]_vars => FreshIncarnation'
    BY NextFresh, Zenon
<1> QED
    BY <1>1, <1>2, Invariance, PTL DEF Spec

-----------------------------------------------------------------------------
(* The eviction ledger *)

Accepted == {r \in records : r.lifecycle # "rejected"}
LedgerAccepted == {i \in DOMAIN eviction_table : eviction_table[i].state # "Rejected"}

Accounted ==
    /\ counters.evictions_total = Len(eviction_table) + counters.ledger_dropped
    /\ counters.ledger_dropped = 0 =>
         counters.accepted + Cardinality(admitting) =
             Cardinality(Accepted) + Cardinality(LedgerAccepted)

LEMMA AccountingIs == (EvictionAccounting <=> Accounted) /\ (EvictionAccounting' <=> Accounted')
    BY Zenon DEF EvictionAccounting, Accounted, Accepted, LedgerAccepted

LEMMA AcceptedCounts == ASSUME IInv PROVE IsFiniteSet(Accepted) /\ Cardinality(Accepted) \in Nat
<1>1. IsFiniteSet(Accepted)
    BY FS_Subset, Zenon DEF Accepted, IInv, WorldInv
<1> QED
    BY <1>1, FS_CardinalityType, Zenon

LEMMA LedgerCounts ==
    ASSUME TypeOK
    PROVE  /\ IsFiniteSet(LedgerAccepted) /\ Cardinality(LedgerAccepted) \in Nat
           /\ Len(eviction_table) \in Nat /\ LedgerAccepted \subseteq 1 .. Len(eviction_table)
<1>1. Len(eviction_table) \in Nat /\ DOMAIN eviction_table = 1 .. Len(eviction_table)
    BY DEF TypeOK
<1>2. IsFiniteSet(1 .. Len(eviction_table)) /\ LedgerAccepted \subseteq 1 .. Len(eviction_table)
    BY <1>1, FS_Interval DEF LedgerAccepted
<1> QED
    BY <1>1, <1>2, FS_Subset, FS_CardinalityType, Zenon

LEMMA StillLedger == ASSUME IInv, EvictionAccounting, Still PROVE EvictionAccounting'
    BY Zenon DEF EvictionAccounting, Still

LEMMA StoreLedger ==
    ASSUME IInv, EvictionAccounting, NEW q \in AdmissionRequest, NEW now \in Ticks,
           AdmitStore(q, now) \/ AdmitOutOfOrder(q, now)
    PROVE  EvictionAccounting'
<1>1. counters \in Counters
    BY Zenon DEF IInv, TypeOK
<1>2. CASE AdmitStore(q, now)
  <2> DEFINE r == [evidence |-> EvidenceOf(q), lifecycle |-> "admitted"]
  <2>1. /\ admitting = {} /\ records' = records \cup {r} /\ r \notin records
        /\ \E a : admitting' = {a}
        /\ UNCHANGED <<eviction_table, counters>>
    BY <1>2, Zenon DEF AdmitStore, Unlocked, AlreadyPresent, tableVars
  <2>2. Accepted' = Accepted \cup {r} /\ r \notin Accepted
    BY <2>1 DEF Accepted
  <2> HIDE DEF r
  <2>3. Cardinality(Accepted') = Cardinality(Accepted) + 1 /\ Cardinality(Accepted) \in Nat
    BY <2>2, AcceptedCounts, FS_AddElement, Zenon
  <2>4. Cardinality(admitting) = 0 /\ Cardinality(admitting') = 1
    BY <2>1, FS_EmptySet, FS_Singleton, Zenon
  <2>5. Cardinality(LedgerAccepted) \in Nat
    BY LedgerCounts, Zenon DEF IInv
  <2> QED
    <3>1. {counters.accepted, counters.evictions_total, counters.ledger_dropped} \subseteq Nat
      BY <1>1, Zenon DEF Counters
    <3>2. LedgerAccepted' = LedgerAccepted
      BY <2>1, Zenon DEF LedgerAccepted
    <3> QED
      BY <2>1, <2>3, <2>4, <2>5, <3>1, <3>2, AccountingIs DEF Accounted
<1>3. CASE AdmitOutOfOrder(q, now)
  <2>1. UNCHANGED <<admitting, eviction_table>>
    BY <1>3, Zenon DEF AdmitOutOfOrder, RefreshConflict, tableVars
  <2>2. Accepted' = Accepted
    BY <1>3 DEF AdmitOutOfOrder, Accepted
  <2>3. counters' = counters \/ \E n : counters' = [counters EXCEPT !.conflicts_dropped = n]
    BY <1>3, Zenon DEF AdmitOutOfOrder, RefreshConflict
  <2>4. /\ counters'.accepted = counters.accepted
        /\ counters'.evictions_total = counters.evictions_total
        /\ counters'.ledger_dropped = counters.ledger_dropped
    BY <1>1, <2>3, StillCounters, Zenon
  <2> QED
    BY <2>1, <2>2, <2>4, Zenon DEF EvictionAccounting, Accepted
<1> QED
    BY <1>2, <1>3, Zenon

\* One more entry in the ledger.
LEMMA AppendLedger ==
    ASSUME TypeOK, NEW e \in EvictionEntry, eviction_table' = Append(eviction_table, e)
    PROVE  /\ Len(eviction_table') = Len(eviction_table) + 1
           /\ Cardinality(LedgerAccepted') =
                Cardinality(LedgerAccepted) + (IF e.state = "Rejected" THEN 0 ELSE 1)
<1> DEFINE n == Len(eviction_table) + 1
<1>1. eviction_table \in Seq(EvictionEntry) /\ Len(eviction_table) \in Nat
    BY DEF TypeOK
<1>2. /\ Len(eviction_table') = n /\ DOMAIN eviction_table' = 1 .. n
      /\ DOMAIN eviction_table = 1 .. n - 1
      /\ \A i \in 1 .. n - 1 : eviction_table'[i] = eviction_table[i]
      /\ eviction_table'[n] = e
    BY <1>1
<1>3. LedgerAccepted' = LedgerAccepted \cup (IF e.state = "Rejected" THEN {} ELSE {n})
  <2>1. ASSUME NEW i \in 1 .. n PROVE i = n \/ i \in 1 .. n - 1
    BY <1>1
  <2>2. 1 .. n - 1 \subseteq 1 .. n /\ n \in 1 .. n
    BY <1>1
  <2> HIDE DEF n
  <2> QED
    BY <1>2, <2>1, <2>2, Zenon DEF LedgerAccepted
<1>4. n \notin LedgerAccepted
  <2>1. n \notin 1 .. Len(eviction_table)
    BY <1>1
  <2> QED
    BY <2>1, LedgerCounts, Zenon
<1>5. IsFiniteSet(LedgerAccepted) /\ Cardinality(LedgerAccepted) \in Nat
    BY LedgerCounts, Zenon
<1>6. Cardinality(LedgerAccepted \cup {n}) = Cardinality(LedgerAccepted) + 1
    BY <1>4, <1>5, FS_AddElement, Zenon
<1> HIDE DEF n
<1>7. CASE e.state = "Rejected"
    BY <1>3, <1>5, <1>7
<1>8. CASE e.state # "Rejected"
    BY <1>3, <1>6, <1>8
<1> QED
    BY <1>2, <1>7, <1>8, Zenon DEF n

LEMMA EvictLedger == ASSUME IInv, EvictionAccounting, AdmitEvict PROVE EvictionAccounting'
<1>1. PICK a \in admitting : \E r \in eviction_candidates(a) :
          apply_eviction(r) /\ admitting' = {[a EXCEPT !.evicted = @ \cup {r}]}
    BY Zenon DEF AdmitEvict
<1>2. PICK r \in eviction_candidates(a) :
          apply_eviction(r) /\ admitting' = {[a EXCEPT !.evicted = @ \cup {r}]}
    BY <1>1, Zenon
<1> DEFINE e == [evidence |-> r.evidence, state |-> state_at_eviction(r)]
<1>3. r \in records /\ r \in StoredEvidence
    BY <1>2, Zenon DEF eviction_candidates, EvictionScope, StreamRecords, IInv, TypeOK
<1>4. /\ state_at_eviction(r) \in {"Retired", "Rejected", "Superseded", "Outranked"}
      /\ state_at_eviction(r) = "Rejected" <=> r.lifecycle = "rejected"
    BY <1>3, RecordTypes, Zenon DEF state_at_eviction
<1>5. e \in EvictionEntry /\ (e.state = "Rejected" <=> r.lifecycle = "rejected")
    BY <1>3, <1>4, RecordTypes, Zenon DEF EvictionEntry
<1>6. /\ records' = records \ {r}
      /\ eviction_table' = Append(IF LedgerFull THEN Tail(eviction_table) ELSE eviction_table, e)
      /\ counters' = [counters EXCEPT !.evictions_total = @ + 1,
                                      !.ledger_dropped = @ + (IF LedgerFull THEN 1 ELSE 0)]
    BY <1>2, Zenon DEF apply_eviction, RemoveRecord
<1> HIDE DEF e
<1>7. counters \in Counters /\ eviction_table \in Seq(EvictionEntry) /\ TypeOK
    BY Zenon DEF IInv, TypeOK
<1>8. /\ counters'.accepted = counters.accepted
      /\ counters'.evictions_total = counters.evictions_total + 1
      /\ counters'.ledger_dropped = counters.ledger_dropped + (IF LedgerFull THEN 1 ELSE 0)
      /\ {counters.accepted, counters.evictions_total, counters.ledger_dropped} \subseteq Nat
    BY <1>6, <1>7, Zenon DEF Counters
<1>9. CASE LedgerFull
  <2>1. Len(eviction_table) \in Nat /\ Len(eviction_table) > 0
    <3>1. limits.max_ledger \in Nat /\ limits.max_ledger > 0
      BY <1>7, PolicyAssumption, Zenon DEF TypeOK, RegistryLimits
    <3> QED
      BY <1>7, <1>9, <3>1 DEF LedgerFull
  <2>2. Len(eviction_table') = Len(eviction_table)
    BY <1>5, <1>6, <1>7, <1>9, <2>1
  <2> QED
    BY <1>8, <1>9, <2>1, <2>2, AccountingIs DEF Accounted
<1>10. CASE ~LedgerFull
  <2>1. eviction_table' = Append(eviction_table, e)
    BY <1>6, <1>10, Zenon
  <2>2. /\ Len(eviction_table') = Len(eviction_table) + 1
        /\ Cardinality(LedgerAccepted') =
              Cardinality(LedgerAccepted) + (IF e.state = "Rejected" THEN 0 ELSE 1)
    BY <1>5, <1>7, <2>1, AppendLedger, Zenon
  <2>3. Accepted' = Accepted \ {r} /\ (r \in Accepted <=> r.lifecycle # "rejected")
    BY <1>3, <1>6, Zenon DEF Accepted
  <2>4. Cardinality(Accepted) \in Nat
        /\ Cardinality(Accepted') = Cardinality(Accepted) - (IF r.lifecycle = "rejected" THEN 0 ELSE 1)
    <3>1. r \in Accepted => Cardinality(Accepted \ {r}) = Cardinality(Accepted) - 1
      BY AcceptedCounts, FS_RemoveElement, Zenon
    <3>2. r \notin Accepted => Accepted \ {r} = Accepted
      BY Zenon
    <3>3. CASE r.lifecycle = "rejected"
      BY <2>3, <3>2, <3>3, AcceptedCounts
    <3>4. CASE r.lifecycle # "rejected"
      BY <2>3, <3>1, <3>4, AcceptedCounts, Zenon
    <3> QED
      BY <3>3, <3>4, Zenon
  <2>5. Cardinality(admitting) = 1 /\ Cardinality(admitting') = 1
    BY <1>2, <1>7, OneAdmission, FS_Singleton, Zenon
  <2>6. Len(eviction_table) \in Nat /\ Cardinality(LedgerAccepted) \in Nat
    BY <1>7, LedgerCounts, Zenon
  <2> QED
    <3>1. PICK n \in {0, 1} : /\ Cardinality(LedgerAccepted') = Cardinality(LedgerAccepted) + n
                              /\ Cardinality(Accepted') = Cardinality(Accepted) - n
      <4>1. CASE r.lifecycle = "rejected"
        BY <1>5, <2>2, <2>4, <2>6, <4>1, Zenon
      <4>2. CASE r.lifecycle # "rejected"
        BY <1>5, <2>2, <2>4, <2>6, <4>2, Zenon
      <4> QED
        BY <4>1, <4>2, Zenon
    <3>2. /\ counters'.ledger_dropped = counters.ledger_dropped
          /\ counters'.evictions_total = counters.evictions_total + 1
          /\ counters'.accepted = counters.accepted
          /\ counters.ledger_dropped \in Nat /\ counters.accepted \in Nat
          /\ counters.evictions_total \in Nat
      BY <1>8, <1>10
    <3>3. Accounted
      BY AccountingIs, Zenon
    <3>4. counters'.evictions_total = Len(eviction_table') + counters'.ledger_dropped
      <4>1. counters.evictions_total = Len(eviction_table) + counters.ledger_dropped
        BY <3>3, Zenon DEF Accounted
      <4> QED
        BY <2>2, <2>6, <3>2, <4>1
    <3>5. counters'.ledger_dropped = 0 =>
            counters'.accepted + Cardinality(admitting') =
                Cardinality(Accepted') + Cardinality(LedgerAccepted')
      <4>1. counters.ledger_dropped = 0 =>
              counters.accepted + 1 = Cardinality(Accepted) + Cardinality(LedgerAccepted)
        BY <2>5, <3>3, Zenon DEF Accounted
      <4> QED
        BY <2>4, <2>5, <2>6, <3>1, <3>2, <4>1
    <3> QED
      BY <3>4, <3>5, AccountingIs, Zenon DEF Accounted
<1> QED
    BY <1>9, <1>10, Zenon

LEMMA EndLedger ==
    ASSUME IInv, EvictionAccounting, AdmitRollback \/ AdmitAccept PROVE EvictionAccounting'
<1>1. PICK a \in admitting : a \in admitting
    BY Zenon DEF AdmitRollback, AdmitAccept
<1>2. admitting = {a} /\ Cardinality(admitting) = 1 /\ counters \in Counters
    BY OneAdmission, Zenon DEF IInv, TypeOK
<1>3. admitting' = {} /\ Cardinality(admitting') = 0 /\ UNCHANGED eviction_table
    BY FS_EmptySet, Zenon DEF AdmitRollback, AdmitAccept, tableVars
<1>4. Cardinality(Accepted) \in Nat /\ Cardinality(LedgerAccepted) \in Nat
    BY AcceptedCounts, LedgerCounts, Zenon DEF IInv
<1>5. CASE AdmitRollback
  <2> DEFINE r == [evidence |-> a.evidence, lifecycle |-> "admitted"]
  <2>1. records' = records \ {r} /\ UNCHANGED counters
    BY <1>2, <1>5, Zenon DEF AdmitRollback, RemoveRecord
  <2>2. r \in records
    BY Zenon DEF IInv, WorldInv, AdmittingStored
  <2>3. Accepted' = Accepted \ {r} /\ r \in Accepted
    BY <2>1, <2>2, Zenon DEF Accepted
  <2> HIDE DEF r
  <2>4. Cardinality(Accepted') = Cardinality(Accepted) - 1
    BY <2>3, AcceptedCounts, FS_RemoveElement, Zenon
  <2> QED
    <3>1. {counters.accepted, counters.evictions_total, counters.ledger_dropped} \subseteq Nat
      BY <1>2, Zenon DEF Counters
    <3>2. LedgerAccepted' = LedgerAccepted
      BY <1>3, Zenon DEF LedgerAccepted
    <3> QED
      BY <1>2, <1>3, <1>4, <2>1, <2>4, <3>1, <3>2, AccountingIs DEF Accounted
<1>6. CASE AdmitAccept
  <2>1. UNCHANGED records /\ \E n : counters' = [counters EXCEPT !.accepted = @ + 1,
                                                                 !.conflicts_dropped = n]
    BY <1>6, Zenon DEF AdmitAccept, worldVars
  <2>2. /\ counters'.accepted = counters.accepted + 1
        /\ counters'.evictions_total = counters.evictions_total
        /\ counters'.ledger_dropped = counters.ledger_dropped
        /\ counters.accepted \in Nat
    BY <1>2, <2>1, Zenon DEF Counters
  <2> QED
    <3>1. LedgerAccepted' = LedgerAccepted /\ Accepted' = Accepted
      BY <1>3, <2>1, Zenon DEF LedgerAccepted, Accepted
    <3> QED
      BY <1>2, <1>3, <1>4, <2>1, <2>2, <3>1, AccountingIs DEF Accounted
<1> QED
    BY <1>5, <1>6, Zenon

\* A retirement changes lifecycles and never the number of accepted records.
LEMMA RetireLedger ==
    ASSUME IInv, EvictionAccounting, NEW k \in EvidenceKey, NEW g \in Retirements,
           NEW now \in Ticks, Retire(k, g, now)
    PROVE  EvictionAccounting'
<1> DEFINE f == [r \in Accepted |-> IF /\ r.evidence.key = k /\ r.lifecycle = "admitted"
                                       /\ r.evidence.generation <= g
                                    THEN [r EXCEPT !.lifecycle = "retired"] ELSE r]
<1>1. /\ UNCHANGED <<eviction_table, admitting>>
      /\ records' = {IF /\ r.evidence.key = k /\ r.lifecycle = "admitted"
                        /\ r.evidence.generation <= g
                     THEN [r EXCEPT !.lifecycle = "retired"] ELSE r : r \in records}
      /\ \E m, n : counters' = [counters EXCEPT !.tombstones_dropped = m,
                                                !.conflicts_dropped = n]
    BY Zenon DEF Retire
<1>2. /\ counters'.accepted = counters.accepted
      /\ counters'.evictions_total = counters.evictions_total
      /\ counters'.ledger_dropped = counters.ledger_dropped
    BY <1>1, Zenon DEF IInv, TypeOK, Counters
<1>3. \A r \in Accepted : f[r].evidence = r.evidence /\ f[r].lifecycle # "rejected"
    BY Zenon DEF Accepted, IInv, TypeOK, StoredEvidence
<1>4. Accepted' = {f[r] : r \in Accepted}
  <2>1. Accepted' \subseteq {f[r] : r \in Accepted}
    BY <1>1, Zenon DEF Accepted
  <2>2. \A r \in Accepted : f[r] \in records'
    BY <1>1, Zenon DEF Accepted
  <2> QED
    BY <1>3, <2>1, <2>2, Zenon DEF Accepted
<1>5. DOMAIN f = Accepted
    BY Zenon
<1>6. \A r, q \in Accepted : f[r] = f[q] => r = q
  <2> HIDE DEF f
  <2>1. \A r, q \in records : r.evidence = q.evidence => r = q
    BY Zenon DEF IInv, WorldInv, DistinctEvidence
  <2> QED
    BY <1>3, <2>1 DEF Accepted
<1>7. f \in [Accepted -> Accepted']
  <2>1. f = [r \in Accepted |-> f[r]]
    BY Zenon
  <2> HIDE DEF f
  <2> QED
    BY <1>4, <1>5, <2>1, Zenon
<1> HIDE DEF f
<1>8. f \in Surjection(Accepted, Accepted') /\ f \in Injection(Accepted, Accepted')
    BY <1>4, <1>5, <1>6, <1>7, Zenon DEF Surjection, Injection, IsInjective
<1>9. Cardinality(Accepted') = Cardinality(Accepted)
    BY <1>8, AcceptedCounts, FS_Surjection, Zenon
<1> QED
    BY <1>1, <1>2, <1>9, Zenon DEF EvictionAccounting, Accepted

LEMMA NextLedger == ASSUME IInv, EvictionAccounting, [Next]_vars PROVE EvictionAccounting'
<1>1. CASE Stores \/ KeepsLate
    BY <1>1, StoreLedger, Zenon DEF Stores, KeepsLate
<1>2. CASE BudgetStep
    BY <1>2, EvictLedger, EndLedger, Zenon DEF BudgetStep
<1>3. CASE Retires
    BY <1>3, RetireLedger, Zenon DEF Retires
<1> QED
    BY <1>1, <1>2, <1>3, StepCases, StillLedger, Zenon

\* Every record ever accepted is stored or in the ledger, and the ledger's own
\* losses are counted: no call, restart or change of limits loses one silently.
THEOREM EvictionAccountingHolds == Spec => []EvictionAccounting
<1>1. Init => EvictionAccounting
    <2> SUFFICES ASSUME Init PROVE EvictionAccounting
      BY Zenon
    <2>1. records = {} /\ eviction_table = <<>>
          /\ counters.evictions_total = 0 /\ counters.ledger_dropped = 0
          /\ counters.accepted = 0 /\ admitting = {}
      BY Zenon DEF Init
    <2>2. {r \in records : r.lifecycle # "rejected"} = {}
      BY <2>1, Zenon
    <2>3. Len(eviction_table) = 0
          /\ {i \in DOMAIN eviction_table : eviction_table[i].state # "Rejected"} = {}
      BY <2>1
    <2> QED
      BY <2>1, <2>2, <2>3, FS_EmptySet DEF EvictionAccounting
<1> QED
    BY <1>1, InitIInv, NextIInv, NextLedger, PTL DEF Spec

=============================================================================
