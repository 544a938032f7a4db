------------------------------ MODULE MCValues ------------------------------
(***************************************************************************)
(* The pure functions of the registry, drawn one question at a time: a     *)
(* state holds the question, the invariants answer it for every value the  *)
(* bounds allow.                                                           *)
(***************************************************************************)
EXTENDS Interchange

VARIABLE probe

count == 1
bit == 2
byte == 3

\* A dimensionless unit, and data in two units of which one is not a power of
\* ten of the other.
SmallUnits ==
    [c \in {count, bit, byte} |->
        [dimension |-> IF c = count THEN "count" ELSE "data",
         base_factor |-> IF c = byte THEN 2 ELSE 1,
         decimal_scale |-> TRUE, binary_scale |-> c # count]]

AnyUnit == [code : UnitCode \cup {9}, scale : UnitScale, exponent : 0 .. kMaxUnitExponent + 1]

SmallFeatures == [c \in 1 .. 3 |-> IF c = 3 THEN {2} ELSE {1, 2}]
SmallLimits ==
    [c \in 1 .. 3 |->
        [kinds |-> IF c = 3 THEN {2} ELSE {1, 2},
         unit |-> IF c = 1 THEN count ELSE byte,
         decimal_scale |-> c # 3, binary_scale |-> c # 2]]

FewLimits == [i \in 1 .. 15 |-> 1]

Characters == {Zero, Zero + 1, 97, Dash, Plus, Dot}
Core(a, b, c) == a \o <<Dot>> \o b \o <<Dot>> \o c
Numeral == {<<Zero>>, <<Zero + 1>>, <<Zero + 1, Zero>>, <<Zero, Zero + 1>>, <<>>}
Texts(n) == UNION {[1 .. k -> Characters] : k \in 0 .. n}
CoreTexts == {Core(a, b, c) : a, b, c \in Numeral}
VersionsOf(tails) == UNION {parse(Core(<<Zero + 1>>, <<Zero>>, c) \o t) :
                                c \in {<<Zero>>, <<Zero + 1>>}, t \in tails}
Qualified(n) == VersionsOf({<<>>} \cup {<<Dash>> \o t : t \in Texts(n)})

\* Units of a limit code, its own scales and others.
UnitsFor(code) == {u \in AnyUnit : u.code = kLimits[code].unit /\ u.exponent <= 2}
SomeLimit == UNION {[code : {c}, unit : UnitsFor(c), value : {-1, 2}] : c \in DOMAIN kLimits}

Release(n) == [core |-> <<n, 0, 0>>, prerelease |-> <<>>, build |-> <<>>]
Candidate == [core |-> <<1, 0, 0>>, prerelease |-> <<97>>, build |-> <<>>]
Maybe(S) == {{}} \cup {{x} : x \in S}

Requirements ==
    LET required == [code : {2}, unit : {u \in UnitsFor(2) : unit_is_well_formed(u)}, minimum : {5}]
    IN  [version : [minimum : {Release(1), Candidate}, maximum_exclusive : {{Release(2)}}],
         required_features : {<<1, 2>>},
         required_limits : {<<>>} \cup {<<r>> : r \in required}
                           \cup {<<[code |-> 1, unit |-> [code |-> count, scale |-> "unity", exponent |-> 0],
                                    minimum |-> 3], r>> : r \in required},
         minimum_firmware_version : Maybe({Release(1)}),
         minimum_firmware_generation : {{}},
         minimum_runtime_version : {{}}, minimum_runtime_generation : Maybe({2})]

\* Reports that meet, miss or leave open each part.
Reports ==
    LET counted == [code |-> 1, unit |-> [code |-> count, scale |-> "unity", exponent |-> 0], value |-> 3]
        sized == [code : {2}, unit : {u \in UnitsFor(2) : unit_valid_for_limit(2, u)}, value : {0, 1, 3, 12}]
    IN  [capability_version : {Candidate, Release(1), Release(2)},
         features : {<<1>>, <<1, 2>>},
         limits : {<<>>, <<counted>>} \cup {<<counted, s>> : s \in sized},
         firmware_version : Maybe({Candidate, Release(1)}),
         firmware_generation : {0},
         runtime_version : {{}}, runtime_generation : 0 .. 2]

\* A value of every type, and values that differ from it in one field.
RECURSIVE Plain(_), Varied(_, _)
Plain(layout) ==
    CASE layout.tag = "token" -> IF 1 \in layout.codes THEN 1 ELSE Min(layout.codes)
      [] layout.tag = "text" -> <<97>>
      [] layout.tag = "optional" -> {Plain(layout.of)}
      [] layout.tag = "list" -> <<Plain(layout.of)>>
      [] layout.tag = "record" -> [i \in DOMAIN layout.fields |-> Plain(layout.fields[i])]
Varied(layout, depth) ==
    IF depth = 0 THEN {Plain(layout)}
    ELSE CASE layout.tag = "token" -> layout.codes \cap {0, 1, 2, 3, TokenMax}
           [] layout.tag = "text" -> {<<>>, <<97>>, <<97, Dot, 48>>}
           [] layout.tag = "optional" -> {{}} \cup {{v} : v \in Varied(layout.of, depth - 1)}
           [] layout.tag = "list" -> {<<>>} \cup {<<v>> : v \in Varied(layout.of, depth - 1)}
                                     \cup {<<Plain(layout.of), v>> : v \in Varied(layout.of, depth - 1)}
           [] layout.tag = "record" ->
                UNION {{[Plain(layout) EXCEPT ![i] = v] : v \in Varied(layout.fields[i], depth - 1)} :
                           i \in DOMAIN layout.fields}

\* Reason lists are put in order by the decoder of a response.
Responses == [query |-> QueryResult, decision |-> CompatibilityDecision, explanation |-> Explanation]
Exact ==
    [state |-> RegistryState, evidence |-> StoredEvidence, tombstone |-> RetirementRecord,
     conflict |-> ConflictGroup, resolution |-> ConflictResolution, eviction |-> EvictionLedgerResponse,
     policy |-> SourcePolicyRequest, entry |-> DeviceIncarnationEntry, admission |-> AdmissionRequest,
     retirement |-> RetirementRequest, evaluate |-> EvaluateRequest, now |-> NowRequest,
     ask |-> QueryRequest, explain |-> ExplainRequest, export |-> ExportRequest, source |-> SourceRequest,
     authority |-> AuthorityRequest, incarnation |-> IncarnationRequest, resolve |-> ResolveConflictRequest,
     envelope |-> ResponseEnvelope, bool |-> BoolResponse, id |-> IdResponse, exported |-> ExportResponse,
     stats |-> RegistryStats, admitted |-> AdmissionOutcome, retired |-> RetirementOutcome]
Layouts == Responses @@ Exact
Long == {"state", "decision", "explanation", "query", "evaluate", "admission", "evidence"}

\* One token changed, lost or exchanged with the next.
Damaged(s) ==
    {[s EXCEPT ![i] = t] : i \in DOMAIN s, t \in {0, 2, 9, Plus}}
    \cup {RemoveAt(s, i) : i \in DOMAIN s}
    \cup {[s EXCEPT ![i] = s[i + 1], ![i + 1] = s[i]] : i \in 1 .. Len(s) - 1}

\* The documents, each with the type the store holds it as.
Documents ==
    [evidence |-> [layout |-> StoredEvidence, form |-> JsonEvidence],
     tombstone |-> [layout |-> RetirementRecord, form |-> JsonTombstone],
     conflict |-> [layout |-> ConflictGroup, form |-> JsonConflict],
     resolution |-> [layout |-> ConflictResolution, form |-> JsonResolution],
     eviction |-> [layout |-> EvictionEntry, form |-> JsonEviction],
     entry |-> [layout |-> DeviceIncarnationEntry, form |-> JsonEntry],
     policy |-> [layout |-> RegistryPolicy, form |-> PolicyDocument],
     requirement |-> [layout |-> CapabilityRequirement, form |-> RequirementDocument]]
DocumentValues(type) ==
    LET layout == Documents[type].layout
    IN  {v \in Varied(layout, 2) : decoded(layout, write(layout, v)) = {v}}

\* One value of a document replaced, left out, added again or put elsewhere.
RECURSIVE Edited(_)
Edited(json) ==
    CASE is("integer", json) -> {JsonInteger(n) : n \in {-1, 0, 2, SignedMax}} \cup {JsonString(<<>>)}
      [] is("boolean", json) -> {JsonBoolean(~json.boolean), JsonInteger(0)}
      [] is("string", json) ->
           {JsonString(s) : s \in {<<>>, <<2>>, <<9>>, <<97, 97, 97, 97>>}} \cup {JsonInteger(0)}
      [] is("array", json) ->
           LET items == json.array
           IN  UNION {{JsonArray([items EXCEPT ![i] = e]) : e \in Edited(items[i])} : i \in DOMAIN items}
               \cup {JsonArray(<<items[i]>> \o items) : i \in DOMAIN items}
               \cup {JsonArray(RemoveAt(items, i)) : i \in DOMAIN items}
               \cup {JsonArray(Reverse(items)), JsonInteger(0)}
      [] is("object", json) ->
           LET fields == json.object
           IN  UNION {{JsonObject([fields EXCEPT ![k] = e]) : e \in Edited(fields[k])} : k \in DOMAIN fields}
               \cup {JsonObject([k \in DOMAIN fields \ {gone} |-> fields[k]]) : gone \in DOMAIN fields}
               \cup {JsonArray(<<>>)}

\* States with records of every lifecycle.
States ==
    LET plain == [Plain(RegistryState) EXCEPT ![2][9][4] = 3]
        accepted == Plain(StoredEvidence)
        rejected == [accepted EXCEPT ![2] = Rejected, ![1][12] = 2]
        retired == [accepted EXCEPT ![2] = 3, ![1][12] = 3]
    IN  {[plain EXCEPT ![11] = records] :
            records \in {<<>>, <<accepted>>, <<accepted, rejected>>, <<rejected, retired>>, <<retired>>}}
        \cup {[plain EXCEPT ![i] = v] : i \in {4, 8, 9}, v \in {0, TokenMax}}
SomeOptions == [include_policy : BOOLEAN, include_history : BOOLEAN, include_rejected : BOOLEAN,
                include_evictions : BOOLEAN, max_records : 0 .. 2]
Everything == [include_policy |-> TRUE, include_history |-> TRUE, include_rejected |-> TRUE,
               include_evictions |-> TRUE, max_records |-> 2]

Topic == {"units", "factor", "text", "version", "features", "limits", "requirement", "export"}
         \cup DOMAIN Layouts \cup DOMAIN Documents
Nothing(topic) == [about |-> "nothing", topic |-> topic]

DrawUnits == probe = Nothing("units") /\ probe' \in [about : {"units"}, lhs : AnyUnit, rhs : AnyUnit]
DrawFactor == probe = Nothing("factor") /\ probe' \in [about : {"factor"}, factor : Uint64]
DrawText == probe = Nothing("text") /\ probe' \in [about : {"text"}, head : CoreTexts]
DrawVersion == probe = Nothing("version") /\ probe' \in [about : {"version"}, version : Qualified(3)]
DrawFeatures ==
    /\ probe = Nothing("features")
    /\ probe' \in [about : {"features"}, codes : UNION {[1 .. n -> 0 .. 4] : n \in 0 .. 4}]
DrawLimit == probe = Nothing("limits") /\ probe' \in [about : {"limits"}, first : SomeLimit]
DrawRequirement ==
    probe = Nothing("requirement") /\ probe' \in [about : {"requirement"}, requirement : Requirements]
DrawMessage ==
    \E type \in DOMAIN Layouts :
        /\ probe = Nothing(type)
        /\ \E v \in Varied(Layouts[type], IF type \in Long THEN 1 ELSE 2) :
             probe' = [about |-> "message", type |-> type, value |-> v]
DrawDocument ==
    \E type \in DOMAIN Documents :
        /\ probe = Nothing(type)
        /\ \E v \in DocumentValues(type) :
             probe' = [about |-> "document", type |-> type, value |-> v]
DrawExport ==
    /\ probe = Nothing("export")
    /\ probe' \in [about : {"export"}, state : States, options : SomeOptions]
PutBack == probe.about # "nothing" /\ \E topic \in Topic : probe' = Nothing(topic)

Init == \E topic \in Topic : probe = Nothing(topic)
Next == \/ DrawUnits \/ DrawFactor \/ DrawText \/ DrawVersion
        \/ DrawFeatures \/ DrawLimit \/ DrawRequirement \/ DrawMessage
        \/ DrawDocument \/ DrawExport \/ PutBack
Spec == Init /\ [][Next]_probe

-----------------------------------------------------------------------------

\* The two ways the compilers build the 128-bit product and the exact division
\* agree on every word.
BuildsAgree ==
    probe.about = "factor" => \A n \in Uint64 :
        /\ mul_halves(n, probe.factor) = mul_u64(n, probe.factor)
        /\ \A d \in {0, 1, 2, 3, probe.factor, UintMax \div 2 + 2, UintMax - 1, UintMax} :
             restoring_division(mul_u64(n, probe.factor), d)
                 = div_u128_exact(mul_u64(n, probe.factor), d)

\* README: "A conversion that would round is `UNKNOWN_INEXACT_UNIT_CONVERSION`."
\* convert_exact finds the one integer that counts the same quantity and nothing
\* when there is none, factors past the word apart; an order compare_exact returns
\* is that of the quantities; units of two dimensions never compare.
UnitsExact ==
    probe.about = "units" => \A a \in Int64 :
        /\ \A f \in factor_to_base(probe.lhs), t \in factor_to_base(probe.rhs) :
             convert_exact(a, probe.lhs, probe.rhs) =
                 IF dimension_of(probe.lhs.code) # dimension_of(probe.rhs.code) THEN {}
                 ELSE ExactlyConverted(a, ExactFactor(probe.lhs), ExactFactor(probe.rhs))
        /\ \A b \in {-IntMax - 1, -7, 0, 12} :
             ComparisonExact(a, probe.lhs, b, probe.rhs)

\* A version is known by one text, in memory, in the store and on the wire; and,
\* as the README has it, versions compare by "semantic-version precedence":
\* precedence_compare is the order of that specification, total on everything but
\* build metadata.
VersionsSound ==
    /\ probe.about = "text" => \A tail \in Texts(4) : OneText(probe.head \o tail)
    /\ probe.about = "version" =>
         \A w \in Qualified(3) : PrecedenceFollowsSpecification(probe.version, w)

\* What admission accepts is what the decoder of the store accepts: no record is
\* stored that the next start cannot read, and none is read that could not have
\* been stored.
SetsStayReadable ==
    /\ probe.about = "features" => \A kind \in CapabilityKind : FeaturesStayReadable(probe.codes, kind)
    /\ probe.about = "limits" =>
         \A kind \in CapabilityKind :
           /\ LimitsStayReadable(<<probe.first>>, kind)
           /\ \A v \in SomeLimit : LimitsStayReadable(<<probe.first, v>>, kind)

\* Compatible and Incompatible are answered only on proof, by exact arithmetic and
\* the specification's precedence.
VerdictsEarned ==
    probe.about = "requirement" => \A report \in Reports : VerdictIsEarned(probe.requirement, report)

\* codec.hpp: "Every function appends exactly one canonical representation;
\* decoders reject impossible values".  A damaged file or message is refused or is
\* the encoding of another value: nothing is accepted in two spellings but a
\* pre-release that holds its own build metadata and the reasons of a response,
\* and those are settled by reading them once.  "A truncated, oversized or
\* impossible input sets the reader into a failed state": no proper beginning of
\* what is accepted is accepted itself.
EncodingCanonical ==
    probe.about = "message" =>
        LET layout == Layouts[probe.type]
        IN  /\ NoShorter(layout, write(layout, probe.value))
            /\ \A s \in {write(layout, probe.value)} \cup Damaged(write(layout, probe.value)) :
                 /\ Settled(layout, s)
                 /\ probe.type \in DOMAIN Exact /\ Plus \notin ToSet(s) => Canonical(layout, s)

\* A number past the largest signed one is written as a negative one.
RECURSIVE PastSigned(_, _)
PastSigned(form, v) ==
    CASE form.tag = "integer" -> v > SignedMax
      [] form.tag = "each" -> \E i \in DOMAIN v : PastSigned(form.of, v[i])
      [] form.tag = "object" ->
           LET w == Arranged(form.check, v)
           IN  \E i \in DOMAIN form.fields :
                 \E x \in (IF form.fields[i].absent = "nothing" THEN w[i] ELSE {w[i]}) :
                   PastSigned(form.fields[i].of, x)
      [] OTHER -> FALSE

\* What a registry sees to in the values it keeps.
Kept(type, v) ==
    CASE type = "evidence" -> v[1][1][3] = v[1][2][1]
      [] type = "conflict" -> NonDecreasing(v[5]) /\ 0 \notin ToSet(v[6]) /\ v[7] <= v[8]
      [] type = "eviction" -> v[3] > 0
      [] type = "entry" -> 0 \notin ToSet(v[3]) /\ NonDecreasing(v[3]) /\ v[2] \in ToSet(v[3])
      [] type = "policy" -> v[10] > 0 /\ \A i \in 2 .. Len(v[1]) : text_compare(v[1][i - 1][1], v[1][i][1]) = "less"
      [] OTHER -> TRUE

\* What the readers of documents accept and the decoder of the store refuses.
Unstorable(type, v) ==
    CASE type = "evidence" -> WindowInverted(v[1][10], v[1][11])
      [] type = "policy" -> Len(v[11]) > MaxText
      [] OTHER -> FALSE

\* README: policy and requirement documents "use the same vocabulary and the same
\* strict parser" as the exported state.  A value the store holds is read back
\* from its document as itself, or refused if a number does not fit.  What is read
\* from a document somebody edited has one document, and is a value the store can
\* hold: validity windows that end before they begin and names of policies past
\* their bound apart.
DocumentsCarryValues ==
    probe.about = "document" =>
        LET layout == Documents[probe.type].layout
            form == Documents[probe.type].form
            document == json_of(form, probe.value)
        IN  /\ Kept(probe.type, probe.value) =>
                 read_json(form, document) = IF PastSigned(form, probe.value) THEN {} ELSE {probe.value}
            /\ \A e \in Edited(document) : \A v \in read_json(form, e) :
                 /\ read_json(form, json_of(form, v)) = {v}
                 /\ ~Unstorable(probe.type, v) => decoded(layout, write(layout, v)) = {v}

\* README: "Import re-derives the state, recomputes the digest and refuses any
\* mismatch."  The whole document of a state is imported as that state; one that
\* shows less of it, or was edited anywhere, is refused or is the same state.
ExportRoundTrips ==
    probe.about = "export" =>
        LET document == export_registry(probe.state, probe.options)
        IN  /\ import_document(document) \subseteq {probe.state}
            /\ probe.options = Everything =>
                 /\ ~PastSigned(JsonState, probe.state \o <<0, probe.state>>) /\ probe.state[4] > 0 /\ probe.state[9] > 0 =>
                      import_document(document) = {probe.state}
                 /\ \A e \in Edited(document) : import_document(e) \subseteq {probe.state}

=============================================================================
