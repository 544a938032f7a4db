--------------------------- MODULE DecisionsProofs ---------------------------
(***************************************************************************)
(* The answers of the registry: the retained decisions and their order,    *)
(* what a resolution may settle, and that query and evaluate, which derive *)
(* their answers separately, agree.                                        *)
(***************************************************************************)
EXTENDS Decisions, RetentionProofs

-----------------------------------------------------------------------------
(* The engine under the decisions *)

\* Answering and numbering the rules are steps of the engine, or none.
LEMMA EngineSteps == [DecisionNext]_allVars => [Next]_vars
<1> SUFFICES ASSUME [DecisionNext]_allVars PROVE [Next]_vars
    BY Zenon
<1>1. CASE UNCHANGED allVars
    BY <1>1, Zenon DEF allVars
<1>2. CASE EngineStep
    BY <1>2, Zenon DEF EngineStep
<1>3. CASE \E req, now : evaluate(req, now)
    BY <1>3, Zenon DEF evaluate
<1>4. CASE \E n \in 1 .. MaxRuleGeneration : set_rule_generation(n)
  <2>1. advance_epoch
    BY <1>4, Zenon DEF set_rule_generation, advance_epoch
  <2> QED
    BY <2>1, Zenon DEF Next, ClockStep
<1> QED
    BY <1>1, <1>2, <1>3, <1>4, Zenon DEF DecisionNext

\* So the invariants of the engine hold beneath the decisions.
LEMMA EngineInvariance == DecisionSpec => [](IInv /\ RInv)
<1>1. DecisionInit => Init
    BY Zenon DEF DecisionInit
<1>2. DecisionSpec => Spec
    BY <1>1, EngineSteps, PTL DEF DecisionSpec, Spec
<1> QED
    BY <1>2, RetentionInvariance, PTL

-----------------------------------------------------------------------------
(* The order of the retained decisions *)

Ids(D) == {d.id : d \in D}
InOrder(o) == {o[i] : i \in DOMAIN o}

\* The order is a sequence without repetition of exactly the retained ids, and
\* an id names one decision.  The lengths agree because of the rest.
OrderInv(o, D) ==
    /\ o \in Seq(Ids(D)) /\ InOrder(o) = Ids(D)
    /\ \A i, j \in DOMAIN o : o[i] = o[j] => i = j
    /\ \A d, e \in D : d.id = e.id => d = e

LEMMA OrderCounts ==
    ASSUME NEW o, NEW D, OrderInv(o, D)
    PROVE  Len(o) = Cardinality(D)
<1>1. Len(o) \in Nat /\ DOMAIN o = 1 .. Len(o)
    BY DEF OrderInv
<1> DEFINE f == [i \in 1 .. Len(o) |-> CHOOSE d \in D : d.id = o[i]]
<1>2. ASSUME NEW i \in 1 .. Len(o) PROVE f[i] \in D /\ f[i].id = o[i]
  <2>1. \E d \in D : d.id = o[i]
    BY <1>1 DEF OrderInv, InOrder, Ids
  <2> QED
    BY <2>1, Zenon
<1>3. f \in [1 .. Len(o) -> D]
    BY <1>2, Zenon
<1> HIDE DEF f
<1>4. \A i, j \in 1 .. Len(o) : f[i] = f[j] => i = j
    BY <1>1, <1>2, ZenonT(30) DEF OrderInv
<1>5. \A d \in D : \E i \in 1 .. Len(o) : f[i] = d
  <2> SUFFICES ASSUME NEW d \in D PROVE \E i \in 1 .. Len(o) : f[i] = d
    BY Zenon
  <2>1. d.id \in InOrder(o)
    BY Zenon DEF OrderInv, Ids
  <2>2. PICK i \in 1 .. Len(o) : o[i] = d.id
    BY <1>1, <2>1, Zenon DEF InOrder
  <2> QED
    BY <1>2, <2>2, Zenon DEF OrderInv
<1>6. ExistsBijection(1 .. Len(o), D)
    BY <1>3, <1>4, <1>5, Zenon DEF ExistsBijection, Bijection, Injection, Surjection, IsInjective
<1>7. IsFiniteSet(1 .. Len(o)) /\ Cardinality(1 .. Len(o)) = Len(o)
  <2>1. IsFiniteSet(1 .. Len(o)) /\ (1 > Len(o) => Cardinality(1 .. Len(o)) = 0)
        /\ (1 <= Len(o) => Cardinality(1 .. Len(o)) = Len(o) - 1 + 1)
    BY <1>1, FS_Interval
  <2> QED
    BY <1>1, <2>1
<1> QED
    BY <1>6, <1>7, FS_Bijection, Zenon

\* A known id: its decision is replaced and the order stays.
LEMMA Replace ==
    ASSUME NEW o, NEW D, OrderInv(o, D), NEW d, d.id \in Ids(D)
    PROVE  OrderInv(o, (D \ {e \in D : e.id = d.id}) \cup {d})
<1> DEFINE E == (D \ {e \in D : e.id = d.id}) \cup {d}
<1>1. Ids(E) = Ids(D)
    BY Zenon DEF Ids
<1>2. \A x, y \in E : x.id = y.id => x = y
    BY Zenon DEF OrderInv
<1> QED
    BY <1>1, <1>2, Zenon DEF OrderInv

\* What is left of the order once the oldest have gone.
LEMMA DropOldest ==
    ASSUME NEW o, NEW D, OrderInv(o, D), NEW n \in 0 .. Len(o)
    PROVE  OrderInv(SubSeq(o, n + 1, Len(o)),
                    {e \in D : \E i \in DOMAIN SubSeq(o, n + 1, Len(o)) :
                                   SubSeq(o, n + 1, Len(o))[i] = e.id})
<1>1. Len(o) \in Nat /\ DOMAIN o = 1 .. Len(o)
    BY DEF OrderInv
<1>2. PICK s : s = SubSeq(o, n + 1, Len(o))
    BY Zenon
<1>3. \A i \in n + 1 .. Len(o) : o[i] \in Ids(D)
    BY <1>1 DEF OrderInv
<1>4. /\ s \in Seq(Ids(D)) /\ Len(s) = Len(o) - n
      /\ \A i \in 1 .. Len(o) - n : s[i] = o[n + i]
  <2>1. n + 1 \in Int /\ Len(o) \in Int /\ n \in Int /\ n <= Len(o)
    BY <1>1
  <2>2. /\ s \in Seq(Ids(D)) /\ Len(s) = IF n + 1 <= Len(o) THEN Len(o) - (n + 1) + 1 ELSE 0
        /\ \A i \in 1 .. Len(o) - (n + 1) + 1 : s[i] = o[(n + 1) + i - 1]
    BY <1>2, <1>3, <2>1
  <2>3. Len(s) = Len(o) - n
    <3>1. CASE n = Len(o)
      BY <2>1, <2>2, <3>1
    <3>2. CASE n < Len(o)
      BY <2>1, <2>2, <3>2
    <3> QED
      BY <2>1, <3>1, <3>2
  <2>4. \A i \in 1 .. Len(o) - n : s[i] = o[n + i]
    <3> SUFFICES ASSUME NEW i \in 1 .. Len(o) - n PROVE s[i] = o[n + i]
      BY Zenon
    <3>1. i \in 1 .. Len(o) - (n + 1) + 1 /\ (n + 1) + i - 1 = n + i
      BY <2>1
    <3> QED
      BY <2>2, <3>1, Zenon
  <2> QED
    BY <2>2, <2>3, <2>4, Zenon
<1>5. DOMAIN s = 1 .. Len(o) - n
    BY <1>4
<1> DEFINE E == {e \in D : \E i \in DOMAIN s : s[i] = e.id}
<1>6. InOrder(s) = Ids(E)
  <2>1. \A i \in DOMAIN s : \E e \in D : s[i] = e.id
    BY <1>4, <1>5 DEF Ids
  <2> QED
    BY <2>1, Zenon DEF InOrder, Ids
<1>7. s \in Seq(Ids(E))
  <2>1. \A i \in 1 .. Len(s) : s[i] \in Ids(E)
    BY <1>4, <1>5, <1>6, Zenon DEF InOrder
  <2> QED
    BY <1>4, <2>1
<1>8. \A i, j \in DOMAIN s : s[i] = s[j] => i = j
  <2>1. \A i \in DOMAIN s : i \in Int /\ n + i \in DOMAIN o /\ s[i] = o[n + i]
    BY <1>1, <1>4, <1>5
  <2>2. \A i, j \in DOMAIN s : s[i] = s[j] => n + i = n + j
    BY <2>1, Zenon DEF OrderInv
  <2> QED
    BY <2>1, <2>2
<1>9. \A d, e \in E : d.id = e.id => d = e
    BY Zenon DEF OrderInv
<1>10. OrderInv(s, E)
    BY <1>6, <1>7, <1>8, <1>9, Zenon DEF OrderInv
<1> QED
    BY <1>2, <1>10, Zenon

\* A new id goes to the end.
LEMMA AddNewest ==
    ASSUME NEW o, NEW D, OrderInv(o, D), NEW d, d.id \notin Ids(D)
    PROVE  OrderInv(Append(o, d.id), D \cup {d})
<1> DEFINE E == D \cup {d}
<1>1. Ids(E) = Ids(D) \cup {d.id}
    BY Zenon DEF Ids
<1>2. PICK x : x = d.id
    BY Zenon
<1>3. PICK S : S = Ids(D) \cup {x}
    BY Zenon
<1>4. o \in Seq(S) /\ x \in S /\ Len(o) \in Nat /\ DOMAIN o = 1 .. Len(o)
    BY <1>3 DEF OrderInv
<1>5. /\ Append(o, x) \in Seq(S) /\ Len(Append(o, x)) = Len(o) + 1
      /\ \A i \in 1 .. Len(o) : Append(o, x)[i] = o[i]
      /\ Append(o, x)[Len(o) + 1] = x
    BY <1>4
<1>6. DOMAIN Append(o, x) = 1 .. Len(o) + 1
    BY <1>5
<1>7. \A i \in 1 .. Len(o) + 1 : i \in 1 .. Len(o) \/ i = Len(o) + 1
    BY <1>4
<1>8. InOrder(Append(o, x)) = S
  <2>1. \A i \in DOMAIN Append(o, x) : Append(o, x)[i] \in S
    BY <1>5, <1>6
  <2>2. ASSUME NEW y \in S PROVE y \in InOrder(Append(o, x))
    <3>1. CASE y = x
      BY <1>4, <1>5, <1>6, <3>1 DEF InOrder
    <3>2. CASE y \in Ids(D)
      <4>1. PICK i \in 1 .. Len(o) : o[i] = y
        BY <1>4, <3>2 DEF OrderInv, InOrder
      <4> QED
        BY <1>4, <1>5, <1>6, <4>1 DEF InOrder
    <3> QED
      BY <1>3, <3>1, <3>2, Zenon
  <2> QED
    BY <2>1, <2>2, Zenon DEF InOrder
<1>9. \A i \in 1 .. Len(o) : o[i] # x
    BY <1>2, <1>4, Zenon DEF OrderInv, InOrder
<1>10. \A i, j \in DOMAIN Append(o, x) : Append(o, x)[i] = Append(o, x)[j] => i = j
    BY <1>4, <1>5, <1>6, <1>7, <1>9, Zenon DEF OrderInv
<1>11. \A a, b \in E : a.id = b.id => a = b
    BY Zenon DEF OrderInv, Ids
<1> QED
    BY <1>1, <1>2, <1>3, <1>5, <1>8, <1>10, <1>11, Zenon DEF OrderInv

\* Keeping an answer, new or known, keeps the order exact.
LEMMA PushOrder ==
    ASSUME IInv, OrderInv(decision_order, decisions), NEW d, push_decision(d)
    PROVE  /\ OrderInv(decision_order', decisions')
           /\ decisions' \subseteq decisions \cup {d}
<1> DEFINE bound == IF limits.max_decisions = 0 THEN 1 ELSE limits.max_decisions
           excess == IF Len(decision_order) < bound THEN 0 ELSE Len(decision_order) - bound + 1
           order == SubSeq(decision_order, excess + 1, Len(decision_order))
           kept == {e \in decisions : \E i \in DOMAIN order : order[i] = e.id}
           same == {e \in decisions : e.id = d.id}
<1>1. IF same # {}
      THEN decisions' = (decisions \ same) \cup {d} /\ UNCHANGED decision_order
      ELSE decision_order' = Append(order, d.id) /\ decisions' = kept \cup {d}
    BY Zenon DEF push_decision
<1>2. CASE same # {}
  <2>1. d.id \in Ids(decisions)
    BY <1>2, Zenon DEF Ids
  <2>2. OrderInv(decision_order, decisions')
    BY <1>1, <1>2, <2>1, Replace
  <2> QED
    BY <1>1, <1>2, <2>2, Zenon
<1>3. CASE same = {}
  <2>1. Len(decision_order) \in Nat /\ bound \in Nat \ {0}
    <3>1. limits.max_decisions \in Nat
      BY PolicyAssumption, Zenon DEF IInv, TypeOK, RegistryLimits
    <3> QED
      BY <3>1 DEF OrderInv
  <2>2. excess \in 0 .. Len(decision_order)
    <3> HIDE DEF bound
    <3> QED
      BY <2>1
  <2> HIDE DEF excess
  <2>3. OrderInv(order, kept)
    BY <2>2, DropOldest, Zenon
  <2>4. d.id \notin Ids(kept)
    BY <1>3 DEF Ids
  <2>5. decision_order' = Append(order, d.id) /\ decisions' = kept \cup {d}
    BY <1>1, <1>3, Zenon
  <2>6. kept \subseteq decisions
    BY Zenon
  <2> HIDE DEF order, kept
  <2> QED
    BY <2>3, <2>4, <2>5, <2>6, AddNewest, Zenon
<1> QED
    BY <1>2, <1>3, Zenon

\* The decisions of the next state are those of this one, an answer, or none.
LEMMA DecisionSteps ==
    ASSUME IInv, OrderInv(decision_order, decisions), [DecisionNext]_allVars
    PROVE  /\ OrderInv(decision_order', decisions')
           /\ \/ decisions' \subseteq decisions
              \/ \E g \in Group, age \in Ages, now \in Ticks :
                    \E d \in Outcomes([group |-> g, max_age |-> age], now) :
                        decisions' \subseteq decisions \cup {d} /\ UNCHANGED vars
<1>1. OrderInv(<<>>, {})
    BY DEF OrderInv, InOrder, Ids
<1>2. CASE UNCHANGED <<decisions, decision_order>>
    BY <1>2, Zenon
<1>3. CASE EngineStep
  <2>1. \/ decisions' = {} /\ decision_order' = <<>>
        \/ UNCHANGED <<decisions, decision_order>>
    BY <1>3, Zenon DEF EngineStep
  <2> QED
    BY <1>1, <1>2, <2>1, Zenon
<1>4. CASE \E g \in Group, age \in Ages, now \in Ticks : evaluate([group |-> g, max_age |-> age], now)
  <2>1. PICK g \in Group, age \in Ages, now \in Ticks :
            evaluate([group |-> g, max_age |-> age], now)
    BY <1>4, Zenon
  <2>2. PICK d \in Outcomes([group |-> g, max_age |-> age], now) : push_decision(d)
    BY <2>1, Zenon DEF evaluate
  <2>3. UNCHANGED vars
    BY <2>1, Zenon DEF evaluate
  <2> QED
    BY <2>2, <2>3, PushOrder, Zenon
<1>5. CASE \E n \in 1 .. MaxRuleGeneration : set_rule_generation(n)
    BY <1>2, <1>5, Zenon DEF set_rule_generation
<1>6. CASE UNCHANGED allVars
    BY <1>2, <1>6, Zenon DEF allVars, decisionVars
<1> QED
    BY <1>3, <1>4, <1>5, <1>6, Zenon DEF DecisionNext

LEMMA OrderInvariance ==
    DecisionSpec => [](IInv /\ RInv /\ OrderInv(decision_order, decisions))
<1>1. DecisionInit => OrderInv(decision_order, decisions)
    BY DEF DecisionInit, OrderInv, InOrder, Ids
<1>2. IInv /\ OrderInv(decision_order, decisions) /\ [DecisionNext]_allVars
          => OrderInv(decision_order, decisions)'
    BY DecisionSteps, Zenon
<1> QED
    BY <1>1, <1>2, EngineInvariance, PTL DEF DecisionSpec

\* push_decision keeps the map of retained decisions and the order they leave in
\* exact, for every bound, also through a bound of zero, repeated questions and
\* restarts: every decision is in the order exactly once.
THEOREM DecisionOrderExactHolds == DecisionSpec => []DecisionOrderExact
<1>1. OrderInv(decision_order, decisions) => DecisionOrderExact
  <2> SUFFICES ASSUME OrderInv(decision_order, decisions) PROVE DecisionOrderExact
    BY Zenon
  <2>1. Len(decision_order) = Cardinality(decisions)
    BY OrderCounts, Zenon
  <2>2. InOrder(decision_order) = Ids(decisions)
    BY Zenon DEF OrderInv
  <2> QED
    BY <2>1, <2>2, Zenon DEF DecisionOrderExact, InOrder, Ids
<1> QED
    BY <1>1, OrderInvariance, PTL

-----------------------------------------------------------------------------
(* What a resolution settles *)

\* A resolution chose one of the members it was made for.
ChoseMember == \A x \in resolution_table : x.chosen \in x.members

\* Only resolve_conflict changes the resolution table.
LEMMA OnlyResolving == ASSUME [Next]_vars PROVE Resolution \/ UNCHANGED resolution_table
<1>1. CASE UNCHANGED vars
    BY <1>1, Zenon DEF vars, tableVars
<1>2. CASE Admit
  <2>1. PICK q \in AdmissionRequest, now \in Ticks :
            \/ AdmitRefused(q, now) \/ AdmitBlocked(q, now) \/ AdmitDuplicate(q, now)
            \/ AdmitOutOfOrder(q, now) \/ AdmitStore(q, now)
    BY <1>2, Zenon DEF Admit
  <2>2. CASE AdmitOutOfOrder(q, now)
    BY <2>2, Zenon DEF AdmitOutOfOrder, RefreshConflict, tableVars
  <2> QED
    BY <2>1, <2>2, Zenon DEF AdmitRefused, AdmitBlocked, AdmitDuplicate, AdmitStore, vars, tableVars
<1>3. CASE BudgetStep
    BY <1>3, Zenon DEF BudgetStep, AdmitEvict, AdmitRollback, AdmitAccept, tableVars
<1>4. CASE Retirement
    BY <1>4, Zenon DEF Retirement, RetireIgnored, Retire, vars, tableVars
<1>5. CASE DeviceStep
  <2>1. \E now : RefreshAllConflicts(now) \/ UNCHANGED <<tableVars, counters>>
    BY <1>5, Zenon DEF DeviceStep, begin_device_incarnation, set_device_incarnation
  <2> QED
    BY <2>1, Zenon DEF RefreshAllConflicts, tableVars
<1>6. CASE SourceStep
  <2>1. \E now : RefreshAllConflicts(now)
    BY <1>6, Zenon DEF SourceStep, revoke_source, restore_source, set_source_authority,
       upsert_source_policy, SetSource
  <2> QED
    BY <2>1, Zenon DEF RefreshAllConflicts
<1>7. CASE ClockStep
  <2>1. CASE \E now \in Ticks : adopt_state(now)
    <3>1. \E now : RefreshAllConflicts(now)
      BY <2>1, Zenon DEF adopt_state
    <3> QED
      BY <3>1, Zenon DEF RefreshAllConflicts
  <2> QED
    BY <1>7, <2>1, Zenon DEF ClockStep, advance_epoch, set_logical_tick, set_limits, tableVars
<1> QED
    BY <1>1, <1>2, <1>3, <1>4, <1>5, <1>6, <1>7, Zenon DEF Next

LEMMA NextChoseMember == ASSUME ChoseMember, [Next]_vars PROVE ChoseMember'
<1>1. CASE Resolution
  <2>1. PICK g \in Group, s \in Source, now \in Ticks :
            \E e \in conflict_table[g] : resolve_conflict(g, e, s, now)
    BY <1>1, Zenon DEF Resolution
  <2>2. PICK e \in conflict_table[g] : resolve_conflict(g, e, s, now)
    BY <2>1, Zenon
  <2>3. PICK x : x = [group |-> g, members |-> conflict_table[g], chosen |-> e,
                      resolver |-> s, resolved_at |-> now]
    BY Zenon
  <2>4. resolution_table' \in push_resolution(x)
    BY <2>2, <2>3, Zenon DEF resolve_conflict
  <2>5. resolution_table' \subseteq resolution_table \cup {x}
    BY <2>4, Zenon DEF push_resolution
  <2>6. x.chosen \in x.members
    BY <2>3, Zenon
  <2> QED
    BY <2>5, <2>6, Zenon DEF ChoseMember
<1> QED
    BY <1>1, OnlyResolving, Zenon DEF ChoseMember

\* The current records of a group are the facts in state Active.
LEMMA ActiveFacts ==
    ASSUME NEW g, NEW now, NEW age
    PROVE  {f.evidence : f \in {x \in FactsOf(g, now, age) : x.state = "Active"}}
               = live_ids(g, now, age)
<1> DEFINE fact(r) == [evidence |-> r.evidence, lifecycle |-> r.lifecycle,
                       state |-> StateOf(r, now, age)]
<1>1. \A r : StateOf(r, now, age) = "Active" <=>
             classify(r, now, age) = "Active" /\ ~Outranked(r, now, age)
    BY Zenon DEF StateOf
<1>2. ASSUME NEW r \in live(g, now, age)
      PROVE  \E f \in FactsOf(g, now, age) : f.state = "Active" /\ f.evidence = r.evidence
  <2>1. r \in GroupRecords(g) /\ StateOf(r, now, age) = "Active"
    BY <1>1, Zenon DEF live, ActiveRecords
  <2>2. fact(r) \in FactsOf(g, now, age)
    BY <2>1, Zenon DEF FactsOf
  <2> QED
    BY <2>1, <2>2, Zenon
<1>3. ASSUME NEW f \in FactsOf(g, now, age), f.state = "Active"
      PROVE  \E r \in live(g, now, age) : f.evidence = r.evidence
  <2>1. PICK r \in GroupRecords(g) : f = fact(r)
    BY Zenon DEF FactsOf
  <2>2. StateOf(r, now, age) = "Active"
    BY <1>3, <2>1, Zenon
  <2> QED
    BY <1>1, <2>1, <2>2, Zenon DEF live, ActiveRecords
<1> QED
    BY <1>2, <1>3 DEF live_ids

\* The answer to a group whose current records disagree.
LEMMA ConflictOutcome ==
    ASSUME NEW g, NEW now, NEW age, Registered(g.device), disagrees(g, now, age),
           NEW d \in Outcomes([group |-> g, max_age |-> age], now)
    PROVE  /\ d.id.conflict = live_ids(g, now, age) /\ d.facts = FactsOf(g, now, age)
           /\ "Resolved" \in d.id.reasons =>
                \E x \in find_resolution(g, live_ids(g, now, age)) :
                    x.chosen \in live_ids(g, now, age) =>
                        d.id.kind = Verdict[x.chosen.content] /\ d.id.selected = {x.chosen}
    BY DEF Outcomes

\* The answer to a group whose current records agree, and to one without any.
LEMMA AgreedOutcome ==
    ASSUME NEW g, NEW now, NEW age, Registered(g.device), ~disagrees(g, now, age),
           NEW d \in Outcomes([group |-> g, max_age |-> age], now)
    PROVE  /\ d.id.conflict = {}
           /\ live(g, now, age) # {} => d.id.selected # {} /\ "Resolved" \notin d.id.reasons
           /\ live(g, now, age) = {} =>
                /\ d.id.kind = "Unknown" /\ d.id.selected = {}
                /\ d.id.reasons = UnknownReasons(g, FactsOf(g, now, age))
    BY DEF Outcomes

\* What ResolutionSettles says of one decision.
Settles(d) ==
    "Resolved" \in d.id.reasons =>
        /\ d.id.kind # "Conflicted"
        /\ d.id.selected # {} /\ d.id.selected \subseteq d.id.conflict
        /\ d.id.conflict = {f.evidence : f \in {x \in d.facts : x.state = "Active"}}

LEMMA OutcomeSettles ==
    ASSUME IInv, ChoseMember, NEW g, NEW now, NEW age,
           NEW d \in Outcomes([group |-> g, max_age |-> age], now)
    PROVE  Settles(d)
<1> SUFFICES ASSUME "Resolved" \in d.id.reasons
             PROVE  /\ d.id.kind # "Conflicted"
                    /\ d.id.selected # {} /\ d.id.selected \subseteq d.id.conflict
                    /\ d.id.conflict = {f.evidence : f \in {x \in d.facts : x.state = "Active"}}
    BY Zenon DEF Settles
<1>1. Registered(g.device)
  <2> SUFFICES ASSUME ~Registered(g.device) PROVE FALSE
    BY Zenon
  <2> DEFINE i == [requirement |-> [group |-> g, max_age |-> age], kind |-> "Unknown",
                   rule_generation |-> rule_generation, epoch |-> epoch,
                   evaluated_at |-> now, reasons |-> {"NotRegistered"},
                   evidence |-> {f.evidence : f \in FactsOf(g, now, age)},
                   selected |-> {}, conflict |-> {}]
             D == [id |-> i, facts |-> FactsOf(g, now, age)]
  <2>1. d = [D EXCEPT !.facts = {}, !.id.evidence = {}]
    BY Zenon DEF Outcomes
  <2>2. d.id = [i EXCEPT !.evidence = {}]
    BY <2>1, Zenon
  <2>3. d.id.reasons = {"NotRegistered"}
    BY <2>2, Zenon
  <2> QED
    BY <2>3, Zenon
<1>2. disagrees(g, now, age)
  <2> SUFFICES ASSUME ~disagrees(g, now, age) PROVE FALSE
    BY Zenon
  <2>1. CASE live(g, now, age) = {}
    <3>1. d.id.reasons = UnknownReasons(g, FactsOf(g, now, age))
      BY <1>1, <2>1, AgreedOutcome, Zenon
    <3> QED
      BY <3>1 DEF UnknownReasons
  <2> QED
    BY <1>1, <2>1, AgreedOutcome, Zenon
<1> DEFINE members == live_ids(g, now, age)
<1>3. d.id.conflict = members /\ d.facts = FactsOf(g, now, age)
    BY <1>1, <1>2, ConflictOutcome
<1>4. PICK x \in find_resolution(g, members) :
          x.chosen \in members =>
              d.id.kind = Verdict[x.chosen.content] /\ d.id.selected = {x.chosen}
    BY <1>1, <1>2, ConflictOutcome
<1>5. x \in resolution_table /\ x.members = members
    BY <1>4, Zenon DEF find_resolution
<1>6. x.chosen \in members
    BY <1>5, Zenon DEF ChoseMember
<1>7. Verdict[x.chosen.content] # "Conflicted"
  <2>1. x.chosen \in CapabilityEvidence
    BY <1>5, Zenon DEF IInv, TypeOK, ConflictResolution
  <2>2. x.chosen.content \in Content
    BY <2>1, Zenon DEF CapabilityEvidence
  <2> QED
    BY <2>2, DecisionAssumption, Zenon
<1>8. members = {f.evidence : f \in {y \in d.facts : y.state = "Active"}}
    BY <1>3, ActiveFacts, Zenon
<1> QED
    BY <1>3, <1>4, <1>6, <1>7, <1>8, Zenon

\* A decision that used a resolution picked one of the records that disagreed
\* when it was made: find_resolution matches the exact member set, and the chosen
\* record is one of it, so evaluate never ends conflicted for want of it.
THEOREM ResolutionSettlesHolds == DecisionSpec => []ResolutionSettles
<1> DEFINE SInv == ChoseMember /\ \A d \in decisions : Settles(d)
<1>1. DecisionInit => SInv
    BY Zenon DEF DecisionInit, Init, ChoseMember
<1>2. ASSUME IInv, OrderInv(decision_order, decisions), SInv, [DecisionNext]_allVars
      PROVE  SInv'
  <2>1. ChoseMember'
    BY <1>2, EngineSteps, NextChoseMember, Zenon
  <2>2. ASSUME NEW e \in decisions' PROVE Settles(e)
    <3>1. CASE decisions' \subseteq decisions
      BY <1>2, <3>1, Zenon
    <3>2. CASE \E g \in Group, age \in Ages, now \in Ticks :
                  \E d \in Outcomes([group |-> g, max_age |-> age], now) :
                      decisions' \subseteq decisions \cup {d}
      <4>1. PICK g \in Group, age \in Ages, now \in Ticks :
                \E d \in Outcomes([group |-> g, max_age |-> age], now) :
                    decisions' \subseteq decisions \cup {d}
        BY <3>2, Zenon
      <4>2. PICK d \in Outcomes([group |-> g, max_age |-> age], now) :
                decisions' \subseteq decisions \cup {d}
        BY <4>1, Zenon
      <4>3. Settles(d)
        BY <1>2, OutcomeSettles, Zenon
      <4> QED
        BY <1>2, <2>2, <4>2, <4>3, Zenon
    <3> QED
      BY <1>2, <3>1, <3>2, DecisionSteps, Zenon
  <2> QED
    BY <2>1, <2>2, Zenon DEF Settles
<1>3. SInv => ResolutionSettles
    BY Zenon DEF ResolutionSettles, Settles
<1> HIDE DEF SInv
<1> QED
    BY <1>1, <1>2, <1>3, OrderInvariance, PTL DEF DecisionSpec

-----------------------------------------------------------------------------
(* query and evaluate *)

\* Records that are active but not live are below the highest active one, so a
\* group without live records has no active ones.
LEMMA LiveIfActive ==
    ASSUME IInv, NEW g \in Group, NEW now, NEW age, live(g, now, age) = {}
    PROVE  ActiveRecords(g, now, age) = {}
<1> SUFFICES ASSUME ActiveRecords(g, now, age) # {} PROVE FALSE
    BY Zenon
<1> DEFINE A == ActiveRecords(g, now, age)
           S == {r.evidence.authority : r \in A}
<1>1. A \subseteq records /\ \A r \in A : GroupOf(r.evidence.key) = g
    BY Zenon DEF ActiveRecords, GroupRecords
<1>2. IsFiniteSet(S)
  <2>1. IsFiniteSet(A)
    BY <1>1, FS_Subset, Zenon DEF IInv, WorldInv
  <2> DEFINE f == [r \in A |-> r.evidence.authority]
  <2>2. f \in Surjection(A, S)
    BY Zenon DEF Surjection
  <2> QED
    BY <2>1, <2>2, FS_Surjection, Zenon
<1>3. S \subseteq Nat
  <2> SUFFICES ASSUME NEW r \in A PROVE r.evidence.authority \in Nat
    BY Zenon
  <2>1. r.evidence \in CapabilityEvidence
    BY <1>1 DEF IInv, TypeOK, StoredEvidence
  <2> QED
    BY <2>1, NumbersAssumption, Zenon DEF CapabilityEvidence
<1>4. PICK m \in S : IsMax(m, S)
    BY <1>2, <1>3, FiniteMax, Zenon
<1>5. PICK r \in A : r.evidence.authority = m
    BY <1>4, Zenon
<1>6. \A a \in A : ~(a.evidence.authority > r.evidence.authority)
  <2>1. m \in Nat /\ \A x \in S : x \in Nat /\ x <= m
    BY <1>3, <1>4, Zenon DEF IsMax
  <2>2. \A a \in A : a.evidence.authority \in S
    BY Zenon
  <2> SUFFICES ASSUME NEW a \in A PROVE ~(a.evidence.authority > r.evidence.authority)
    BY Zenon
  <2>3. PICK n : n = a.evidence.authority
    BY Zenon
  <2>4. n \in Nat /\ n <= m
    BY <2>1, <2>2, <2>3, Zenon
  <2>5. ~(n > m)
    BY <2>1, <2>4
  <2> QED
    BY <1>5, <2>3, <2>5, Zenon
<1>7. ~Outranked(r, now, age)
    BY <1>1, <1>5, <1>6, Zenon DEF Outranked
<1> QED
    BY <1>5, <1>7, Zenon DEF live

\* The state of a record of a group without live records.
LEMMA IdleStates ==
    ASSUME IInv, NEW g \in Group, NEW now, NEW age, live(g, now, age) = {},
           NEW r \in GroupRecords(g)
    PROVE  /\ r.lifecycle = "rejected" <=> StateOf(r, now, age) = "Rejected"
           /\ StateOf(r, now, age) \in {"Rejected", "Retired", "Superseded", "Fenced", "Stale"}
<1>1. classify(r, now, age) # "Active"
    BY LiveIfActive, Zenon DEF ActiveRecords
<1>2. r.lifecycle \in {"admitted", "rejected", "retired"}
    BY RecordFacts, Zenon DEF GroupRecords
<1> QED
    BY <1>1, <1>2, Zenon DEF StateOf, classify, ClassifyAt

LEMMA FactStates ==
    ASSUME NEW g, NEW now, NEW age
    PROVE  {f.state : f \in FactsOf(g, now, age)} =
               {StateOf(r, now, age) : r \in GroupRecords(g)}
<1> DEFINE fact(r) == [evidence |-> r.evidence, lifecycle |-> r.lifecycle,
                       state |-> StateOf(r, now, age)]
<1>1. \A r \in GroupRecords(g) : fact(r) \in FactsOf(g, now, age)
                                 /\ fact(r).state = StateOf(r, now, age)
    BY Zenon DEF FactsOf
<1>2. \A f \in FactsOf(g, now, age) : \E r \in GroupRecords(g) : f.state = StateOf(r, now, age)
    BY DEF FactsOf
<1> QED
    BY <1>1, <1>2, Zenon

\* Where nothing is live, query and evaluate give the same reasons, but for the
\* rejected deliveries that only evaluate counts.
LEMMA SameReasons ==
    ASSUME IInv, RInv, NEW g \in Group, NEW now, NEW age, live(g, now, age) = {}
    PROVE  LET facts == FactsOf(g, now, age)
               seen == {f.state : f \in facts}
               late == IF \E r \in GroupRecords(g) : r.lifecycle = "rejected"
                       THEN {"StaleEvidence"} ELSE {}
           IN  QueryReasons(g, seen) \cup late = UnknownReasons(g, facts) \cup late
<1>1. PICK facts : facts = FactsOf(g, now, age)
    BY Zenon
<1>2. PICK seen : seen = {f.state : f \in facts}
    BY Zenon
<1>3. PICK late : late = IF \E r \in GroupRecords(g) : r.lifecycle = "rejected"
                         THEN {"StaleEvidence"} ELSE {}
    BY Zenon
<1> DEFINE stale == incarnation_table[g.device].current # g.incarnation
           first == {b \in {"NotCurrent", "Retired", "StaleEvidence", "Fenced", "Conflicting"} :
               CASE b = "NotCurrent" -> stale
                 [] b = "Retired" -> "Retired" \in seen
                 [] b = "StaleEvidence" -> {"Superseded", "Stale"} \cap seen # {}
                 [] b = "Fenced" -> "Fenced" \in seen
                 [] b = "Conflicting" -> "Outranked" \in seen}
           evidence == {b \in {"Retired", "StaleEvidence", "Fenced", "NotCurrent"} :
               CASE b = "Retired" -> "Retired" \in seen
                 [] b = "StaleEvidence" ->
                      {"Superseded", "Outranked", "Rejected", "Stale"} \cap seen # {}
                 [] b = "Fenced" -> "Fenced" \in seen
                 [] b = "NotCurrent" -> stale}
           evicted == IF \E i \in DOMAIN eviction_table :
                             GroupOf(eviction_table[i].evidence.key) = g
                      THEN {"Evicted"} ELSE {"NoEvidence"}
<1>4. \A z : z \in seen <=> \E r \in GroupRecords(g) : StateOf(r, now, age) = z
  <2>1. seen = {StateOf(r, now, age) : r \in GroupRecords(g)}
    BY <1>1, <1>2, FactStates, Zenon
  <2> QED
    BY <2>1, Zenon
<1>5. seen \subseteq {"Rejected", "Retired", "Superseded", "Fenced", "Stale"}
    BY <1>4, IdleStates
<1>6. "Rejected" \in seen <=> \E r \in GroupRecords(g) : r.lifecycle = "rejected"
    BY <1>4, IdleStates
<1>7. "Rejected" \in seen => {"Retired", "Superseded", "Fenced", "Stale"} \cap seen # {}
  <2> SUFFICES ASSUME "Rejected" \in seen
               PROVE  {"Retired", "Superseded", "Fenced", "Stale"} \cap seen # {}
    BY Zenon
  <2>1. PICK r \in GroupRecords(g) : r.lifecycle = "rejected"
    BY <1>6, Zenon
  <2>2. PICK q \in records : q.evidence.key = r.evidence.key /\ q.lifecycle # "rejected"
    BY <2>1, Zenon DEF RInv, Dominated, Dominates, GroupRecords
  <2>3. q \in GroupRecords(g)
    BY <2>2, Zenon DEF GroupRecords
  <2>4. StateOf(q, now, age) \in {"Retired", "Superseded", "Fenced", "Stale"}
    BY <2>2, <2>3, IdleStates, Zenon
  <2> QED
    BY <1>4, <2>3, <2>4, Zenon
<1>8. QueryReasons(g, seen) = IF first # {} THEN first
                              ELSE IF "Rejected" \in seen THEN {"RejectedSuperseded"}
                              ELSE evicted
    BY Zenon DEF QueryReasons
<1>9. UnknownReasons(g, facts) = IF evidence # {} THEN evidence ELSE evicted
  <2>1. \A X : (\E f \in facts : f.state \in X) <=> X \cap seen # {}
    BY <1>2, Zenon
  <2>2. (\E f \in facts : f.state \in {"Retired"}) <=> "Retired" \in seen
    BY <1>2, Zenon
  <2>3. (\E f \in facts : f.state \in {"Fenced"}) <=> "Fenced" \in seen
    BY <1>2, Zenon
  <2> QED
    BY <2>1, <2>2, <2>3, Zenon DEF UnknownReasons
<1>10. "Conflicting" \notin first
    BY <1>5, Zenon
<1>11. \A b \in {"NotCurrent", "Retired", "Fenced"} : b \in first <=> b \in evidence
    BY Zenon
<1>12. "StaleEvidence" \in first <=> {"Superseded", "Stale"} \cap seen # {}
    BY Zenon
<1>13. "StaleEvidence" \in evidence <=> {"Rejected", "Superseded", "Stale"} \cap seen # {}
    BY <1>5, Zenon
<1>14. first \subseteq {"NotCurrent", "Retired", "StaleEvidence", "Fenced"}
       /\ evidence \subseteq {"NotCurrent", "Retired", "StaleEvidence", "Fenced"}
    BY <1>10, Zenon
<1>15. "Rejected" \in seen => first # {}
    BY <1>7, Zenon
<1> HIDE DEF first, evidence, evicted
<1>16. CASE "Rejected" \in seen
  <2>1. late = {"StaleEvidence"} /\ "StaleEvidence" \in evidence
    BY <1>3, <1>6, <1>13, <1>16, Zenon
  <2>2. QueryReasons(g, seen) = first /\ UnknownReasons(g, facts) = evidence
    BY <1>8, <1>9, <1>15, <1>16, <2>1, Zenon
  <2>3. first \cup late = evidence \cup late
    <3>1. \A b : b \in first \/ b \in evidence =>
                b \in {"NotCurrent", "Retired", "Fenced"} \/ b = "StaleEvidence"
      BY <1>14, Zenon
    <3> QED
      BY <1>11, <2>1, <3>1, Zenon
  <2> QED
    BY <1>1, <1>2, <1>3, <2>2, <2>3, Zenon
<1>17. CASE "Rejected" \notin seen
  <2>1. "StaleEvidence" \in first <=> "StaleEvidence" \in evidence
    BY <1>12, <1>13, <1>17, Zenon
  <2>2. first = evidence
    <3>1. \A b : b \in first \/ b \in evidence =>
                b \in {"NotCurrent", "Retired", "Fenced"} \/ b = "StaleEvidence"
      BY <1>14, Zenon
    <3> QED
      BY <1>11, <2>1, <3>1
  <2>3. QueryReasons(g, seen) = UnknownReasons(g, facts)
    BY <1>8, <1>9, <1>17, <2>2
  <2> QED
    BY <1>1, <1>2, <1>3, <2>3, Zenon
<1> QED
    BY <1>16, <1>17, Zenon

\* What QueryAgreesWithEvaluate says of one query and one decision.
Agrees(g, a, d) ==
    LET late == IF \E r \in GroupRecords(g) : r.lifecycle = "rejected"
                THEN {"StaleEvidence"} ELSE {}
    IN  /\ a.conflict = d.id.conflict
        /\ a.kind = "Compatible" => d.id.selected # {}
        /\ a.kind = "Unknown" => /\ d.id.kind = "Unknown" /\ d.id.selected = {}
                                /\ a.reasons \cup late = d.id.reasons \cup late

LEMMA Agreement ==
    ASSUME IInv, RInv, NEW g \in Group, NEW age, NEW now, Registered(g.device), NEW history,
           NEW d \in Outcomes([group |-> g, max_age |-> age], now)
    PROVE  Agrees(g, query(g, now, age, history), d)
<1>1. PICK a : a = query(g, now, age, history)
    BY Zenon
<1> DEFINE facts == FactsOf(g, now, age)
           seen == {f.state : f \in facts}
<1>2. /\ a.kind = IF disagrees(g, now, age) THEN "Conflicted"
                  ELSE IF live(g, now, age) # {} THEN "Compatible" ELSE "Unknown"
      /\ a.conflict = IF a.kind = "Conflicted" THEN live_ids(g, now, age) ELSE {}
    BY <1>1, Zenon DEF query
<1>3. a.kind = "Unknown" => a.reasons = QueryReasons(g, seen)
    BY <1>1, Zenon DEF query, SeenStates
<1>4. CASE disagrees(g, now, age)
  <2>1. d.id.conflict = live_ids(g, now, age)
    BY <1>4, ConflictOutcome
  <2> QED
    BY <1>1, <1>2, <1>4, <2>1, ZenonT(30) DEF Agrees
<1>5. CASE ~disagrees(g, now, age) /\ live(g, now, age) # {}
  <2>1. d.id.conflict = {} /\ d.id.selected # {}
    BY <1>5, AgreedOutcome, Zenon
  <2> QED
    BY <1>1, <1>2, <1>5, <2>1, Zenon DEF Agrees
<1>6. CASE ~disagrees(g, now, age) /\ live(g, now, age) = {}
  <2>1. /\ d.id.conflict = {} /\ d.id.kind = "Unknown" /\ d.id.selected = {}
        /\ d.id.reasons = UnknownReasons(g, facts)
    BY <1>6, AgreedOutcome, Zenon
  <2>2. a.kind = "Unknown" /\ a.conflict = {}
    BY <1>2, <1>6, Zenon
  <2>3. a.reasons = QueryReasons(g, seen)
    BY <1>3, <2>2, Zenon
  <2>4. PICK late : late = IF \E r \in GroupRecords(g) : r.lifecycle = "rejected"
                           THEN {"StaleEvidence"} ELSE {}
    BY Zenon
  <2>5. QueryReasons(g, seen) \cup late = UnknownReasons(g, facts) \cup late
    BY <1>6, <2>4, SameReasons, Zenon
  <2> QED
    BY <1>1, <2>1, <2>2, <2>3, <2>4, <2>5, Zenon DEF Agrees
<1> QED
    BY <1>4, <1>5, <1>6, Zenon

\* query and evaluate tell the same conflict, agree on whether there is current
\* evidence and, when there is none, on why, for every state of the engine: what
\* a query that hides the history does not show it still looks at.
THEOREM QueryAgreesWithEvaluateHolds == DecisionSpec => []QueryAgreesWithEvaluate
<1>1. IInv /\ RInv => QueryAgreesWithEvaluate
  <2> SUFFICES ASSUME IInv, RInv, NEW g \in Group, NEW age \in Ages, NEW now \in Ticks,
                      Registered(g.device)
               PROVE  \A history \in BOOLEAN : \E a \in {query(g, now, age, history)} :
                         \A d \in Outcomes([group |-> g, max_age |-> age], now) :
                             Agrees(g, a, d)
    BY Zenon DEF QueryAgreesWithEvaluate, Agrees
  <2> QED
    BY Agreement, Zenon
<1> QED
    BY <1>1, EngineInvariance, PTL

=============================================================================
