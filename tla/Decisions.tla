------------------------------ MODULE Decisions ------------------------------
(***************************************************************************)
(* Answers and explanations: query, evaluate, explain's retained decisions *)
(* and set_rule_generation of src/src/registry.cpp, on top of the evidence *)
(* engine of Registry.                                                     *)
(*                                                                         *)
(* A DecisionId is the digest of the fields compute_digest covers, so that *)
(* record of fields stands for the id.  What compare_requirement says of a *)
(* payload is the constant Verdict; a conflict is known by its members.    *)
(***************************************************************************)
EXTENDS Registry

CONSTANTS
    Verdict,            \* Content -> compare_requirement's answer
    Ages,               \* the max_evidence_age bounds callers ask for
    MaxRuleGeneration

Answer == {"Compatible", "Incompatible", "Unknown", "Conflicted"}
Because == {"NotRegistered", "NotCurrent", "Retired", "StaleEvidence", "Fenced",
            "Evicted", "NoEvidence", "EqualAuthority", "Resolved", "Comparison"}

ASSUME DecisionAssumption ==
    /\ Verdict \in [Content -> Answer \ {"Conflicted"}]
    /\ Ages \subseteq Nat
    /\ MaxRuleGeneration \in Nat \ {0}

VARIABLES
    rule_generation,
    decisions,          \* the retained decisions: [id, facts]
    decision_order      \* their ids, oldest first

decisionVars == <<rule_generation, decisions, decision_order>>
allVars == <<vars, decisionVars>>

CapabilityRequirement == [group : Group, max_age : Ages]

\* EvidenceState of a record in a derivation.
StateOf(r, now, age) ==
    IF classify(r, now, age) = "Active" /\ Outranked(r, now, age) THEN "Outranked"
    ELSE classify(r, now, age)

FactsOf(g, now, age) ==
    {[evidence |-> r.evidence, lifecycle |-> r.lifecycle, state |-> StateOf(r, now, age)] :
        r \in GroupRecords(g)}

\* Mutant: a resolution is found by the group it was made for.
ResolutionsOfGroup(g, members) == {x \in resolution_table : x.group = g}

\* find_resolution: the conflict id covers the group and its live members.  Of
\* several the lowest id is found, which may be any.
find_resolution(g, members) ==
    {x \in resolution_table : x.group = g /\ x.members = members}

\* Why no record was selected.
UnknownReasons(g, facts) ==
    LET seen(states) == \E f \in facts : f.state \in states
        evidence == {b \in {"Retired", "StaleEvidence", "Fenced", "NotCurrent"} :
            CASE b = "Retired" -> seen({"Retired"})
              [] b = "StaleEvidence" -> seen({"Superseded", "Outranked", "Rejected", "Stale"})
              [] b = "Fenced" -> seen({"Fenced"})
              [] b = "NotCurrent" -> incarnation_table[g.device].current # g.incarnation}
    IN  IF evidence # {} THEN evidence
        ELSE IF \E i \in DOMAIN eviction_table : GroupOf(eviction_table[i].evidence.key) = g
        THEN {"Evicted"} ELSE {"NoEvidence"}

\* The decisions evaluate may reach; a tie between hashes leaves several.
Outcomes(req, now) ==
    LET g == req.group
        facts == FactsOf(g, now, req.max_age)
        current == live(g, now, req.max_age)
        members == live_ids(g, now, req.max_age)
        stale == IF incarnation_table[g.device].current = g.incarnation THEN {} ELSE {"NotCurrent"}
        decide(kind, reasons, selected, conflict) ==
            [id |-> [requirement |-> req, kind |-> kind, rule_generation |-> rule_generation,
                     epoch |-> epoch, evaluated_at |-> now, reasons |-> reasons,
                     evidence |-> {f.evidence : f \in facts}, selected |-> selected,
                     conflict |-> conflict],
             facts |-> facts]
        compared(e, reasons, conflict) ==
            decide(Verdict[e.content], stale \cup reasons \cup {"Comparison"}, {e}, conflict)
    IN  CASE ~Registered(g.device) ->
               {[decide("Unknown", {"NotRegistered"}, {}, {}) EXCEPT !.facts = {},
                                                                     !.id.evidence = {}]}
          [] Registered(g.device) /\ disagrees(g, now, req.max_age) ->
               IF find_resolution(g, members) = {}
               THEN {decide("Conflicted", stale \cup {"EqualAuthority"}, {}, members)}
               ELSE {IF x.chosen \in members
                     THEN compared(x.chosen, {"Resolved"}, members)
                     ELSE decide("Conflicted", stale \cup {"Resolved", "EqualAuthority"}, {},
                                 members) : x \in find_resolution(g, members)}
          [] Registered(g.device) /\ ~disagrees(g, now, req.max_age) /\ current # {} ->
               {compared(e, {}, {}) : e \in members}
          [] OTHER -> {decide("Unknown", UnknownReasons(g, facts), {}, {})}

\* What query tells from the state of each fact when no record is live.
\* RejectedSuperseded is named only where nothing else is.
QueryReasons(g, seen) ==
    LET first == {b \in {"NotCurrent", "Retired", "StaleEvidence", "Fenced", "Conflicting"} :
            CASE b = "NotCurrent" -> incarnation_table[g.device].current # g.incarnation
              [] b = "Retired" -> "Retired" \in seen
              [] b = "StaleEvidence" -> {"Superseded", "Stale"} \cap seen # {}
              [] b = "Fenced" -> "Fenced" \in seen
              [] b = "Conflicting" -> "Outranked" \in seen}
    IN  IF first # {} THEN first
        ELSE IF "Rejected" \in seen THEN {"RejectedSuperseded"}
        ELSE IF \E i \in DOMAIN eviction_table : GroupOf(eviction_table[i].evidence.key) = g
        THEN {"Evicted"} ELSE {"NoEvidence"}

Historical(f) == f.state \in {"Superseded", "Rejected"}

\* Mutant: the states of the facts left out of the answer are not looked at.
SeenAmongShown(facts, include_history) ==
    {f.state : f \in {x \in facts : include_history \/ ~Historical(x)}}

\* Leaving history out hides facts, not what they say.
SeenStates(facts, include_history) == {f.state : f \in facts}

\* query for a registered device; it changes nothing and looks at no resolution.
query(g, now, age, include_history) ==
    LET facts == FactsOf(g, now, age)
        kind == IF disagrees(g, now, age) THEN "Conflicted"
                ELSE IF live(g, now, age) # {} THEN "Compatible" ELSE "Unknown"
        current == incarnation_table[g.device].current = g.incarnation
    IN  [kind |-> kind,
         facts |-> {f \in facts : include_history \/ ~Historical(f)},
         conflict |-> IF kind = "Conflicted" THEN live_ids(g, now, age) ELSE {},
         reasons |-> IF kind = "Unknown" THEN QueryReasons(g, SeenStates(facts, include_history))
                     ELSE (IF current THEN {} ELSE {"NotCurrent"})
                          \cup {IF kind = "Conflicted" THEN "EqualAuthority" ELSE "Accepted"}]

\* Mutant: what leaves the order is not erased from the map.
PushWithoutErase(d) ==
    LET bound == IF limits.max_decisions = 0 THEN 1 ELSE limits.max_decisions
        excess == IF Len(decision_order) < bound THEN 0 ELSE Len(decision_order) - bound + 1
        order == SubSeq(decision_order, excess + 1, Len(decision_order))
        same == {e \in decisions : e.id = d.id}
    IN  /\ decisions' = (decisions \ same) \cup {d}
        /\ decision_order' = IF same # {} THEN decision_order ELSE Append(order, d.id)

\* A known id is overwritten in place; a new one pushes out the oldest until
\* there is room.  A bound of zero still keeps the newest.
push_decision(d) ==
    LET bound == IF limits.max_decisions = 0 THEN 1 ELSE limits.max_decisions
        excess == IF Len(decision_order) < bound THEN 0 ELSE Len(decision_order) - bound + 1
        order == SubSeq(decision_order, excess + 1, Len(decision_order))
        same == {e \in decisions : e.id = d.id}
    IN  IF same # {}
        THEN /\ decisions' = (decisions \ same) \cup {d}
             /\ UNCHANGED decision_order
        ELSE /\ decision_order' = Append(order, d.id)
             /\ decisions' = {e \in decisions : \E i \in DOMAIN order : order[i] = e.id} \cup {d}

evaluate(req, now) ==
    /\ Unlocked
    /\ \E d \in Outcomes(req, now) : push_decision(d)
    /\ UNCHANGED <<vars, rule_generation>>

\* Zero and earlier generations are refused, the same one changes nothing.
set_rule_generation(n) ==
    /\ Unlocked
    /\ n > rule_generation
    /\ rule_generation' = n
    /\ bump_policy_revision
    /\ UNCHANGED <<deviceVars, worldVars, tombstones, policyVars, tableVars, counters,
                   admitting, decisions, decision_order>>

\* A step of the engine.  Adopting a state forgets the retained decisions.
EngineStep ==
    /\ Next
    /\ UNCHANGED rule_generation
    /\ IF boot_epoch' # boot_epoch THEN decisions' = {} /\ decision_order' = <<>>
       ELSE UNCHANGED <<decisions, decision_order>>

DecisionInit ==
    /\ Init
    /\ rule_generation = 1 /\ decisions = {} /\ decision_order = <<>>

DecisionNext ==
    \/ EngineStep
    \/ \E g \in Group, age \in Ages, now \in Ticks :
         g.incarnation \in Incarnation /\ evaluate([group |-> g, max_age |-> age], now)
    \/ \E n \in 1 .. MaxRuleGeneration : set_rule_generation(n)

DecisionSpec == DecisionInit /\ [][DecisionNext]_allVars

-----------------------------------------------------------------------------
(* Properties *)

\* The retained decisions and the order they leave in never drift apart: every
\* decision is in the order exactly once, so each can be evicted and the store
\* cannot outgrow its bound through a repeated question.
DecisionOrderExact ==
    /\ {decision_order[i] : i \in DOMAIN decision_order} = {d.id : d \in decisions}
    /\ Len(decision_order) = Cardinality(decisions)

\* README: "A resolution that no longer matches the current member set stops
\* applying, so a stale resolution cannot silently select a record that has since
\* changed."  A decision that used a resolution picks among exactly the records
\* that disagree, and never ends conflicted: the branch of evaluate for a chosen
\* record that is no longer live is never taken.
ResolutionSettles ==
    \A d \in decisions : "Resolved" \in d.id.reasons =>
        /\ d.id.kind # "Conflicted"
        /\ d.id.selected # {} /\ d.id.selected \subseteq d.id.conflict
        /\ d.id.conflict = {f.evidence : f \in {x \in d.facts : x.state = "Active"}}

\* README: unknown means that "the registry has no basis to answer; the reason
\* codes say why".  query and evaluate derive their answers and their reasons
\* separately and agree: on which evidence is in conflict, on whether there is
\* current evidence at all, and on why there is none, except that only evaluate
\* counts rejected deliveries as stale evidence.  Leaving the history out of a
\* query changes neither its answer nor its reasons.  Asked while no decision is
\* retained: neither answer reads the retained decisions.
QueryAgreesWithEvaluate ==
    Unlocked /\ decisions = {} =>
      \A g \in Group, age \in Ages, now \in Ticks : Registered(g.device) =>
        LET reached == Outcomes([group |-> g, max_age |-> age], now)
            late == IF \E r \in GroupRecords(g) : r.lifecycle = "rejected"
                    THEN {"StaleEvidence"} ELSE {}
        IN  \A history \in BOOLEAN : \E a \in {query(g, now, age, history)} : \A d \in reached :
                /\ a.conflict = d.id.conflict
                /\ a.kind = "Compatible" => d.id.selected # {}
                /\ a.kind = "Unknown" => /\ d.id.kind = "Unknown" /\ d.id.selected = {}
                                        /\ a.reasons \cup late = d.id.reasons \cup late

=============================================================================
