---------------------------- MODULE Interchange ----------------------------
(***************************************************************************)
(* The documents of src/src/export.cpp: the canonical state a registry     *)
(* exports and imports, policy files and requirement files.                *)
(*                                                                         *)
(* A document is a tree of JSON values; the text of src/src/json.cpp is    *)
(* left out.  A form says how a type is laid out and what its reader       *)
(* refuses: json_of and read_json stand for every json_of and read_        *)
(* function.  Values are those of Messages.  A number is written as a      *)
(* signed one.  An enumeration is spelled by its code, a digest by what it *)
(* covers.                                                                 *)
(***************************************************************************)
EXTENDS Messages, TLC

CONSTANTS
    kExportFormatVersion,
    max_items,              \* of JsonLimits: no array is longer
    MaxPolicySources,       \* 1024, of a policy file
    MaxRequiredLimits,      \* 64
    DefaultLimits           \* the RegistryLimits of a policy file without any

ASSUME InterchangeAssumption ==
    /\ {kExportFormatVersion, max_items, MaxPolicySources, MaxRequiredLimits} \subseteq Nat
    /\ DefaultLimits \in Seq(0 .. TokenMax) /\ Len(DefaultLimits) = 15

\* A JSON value has one field, named for its type.
JsonInteger(n) == [integer |-> n]
JsonString(s) == [string |-> s]
JsonBoolean(b) == [boolean |-> b]
JsonArray(s) == [array |-> s]
JsonObject(f) == [object |-> f]
is(type, json) == type \in DOMAIN json

-----------------------------------------------------------------------------
(* Units as text *)

Scale == [unity |-> 0, decimal |-> 100, binary |-> 98]

unit_to_string(u) ==
    <<u.code>> \o (IF u.scale = "unity" THEN <<>> ELSE <<Dot, Scale[u.scale]>> \o Digits(u.exponent))

\* An exponent may be written with a leading zero.
parse_unit(text) ==
    LET digits == SubSeq(text, 4, Len(text))
        unit == IF Len(text) = 1 THEN [code |-> text[1], scale |-> "unity", exponent |-> 0]
                ELSE [code |-> text[1], exponent |-> DecimalValue(digits),
                      scale |-> IF text[3] = Scale.decimal THEN "decimal" ELSE "binary"]
    IN  IF /\ text # <<>>
           /\ Len(text) > 1 => /\ text[2] = Dot /\ Len(digits) \in 1 .. 2
                               /\ text[3] \in {Scale.decimal, Scale.binary}
                               /\ \A i \in DOMAIN digits : is_digit(digits[i])
        THEN {u \in {unit} : unit_is_well_formed(u)} ELSE {}

-----------------------------------------------------------------------------
(* Forms *)

Field(key, of) == [key |-> key, of |-> of, absent |-> "refused"]
OptionalField(key, of) == [key |-> key, of |-> of, absent |-> "nothing"]
DefaultField(key, of, value) == [key |-> key, of |-> of, absent |-> "default", value |-> value]

Integer(range) == [tag |-> "integer", range |-> range]
Named(layout) == [tag |-> "named", codes |-> layout.codes]
Flag == [tag |-> "flag"]
Spelled(how) == [tag |-> "spelled", how |-> how]
Each(of, sizes) == [tag |-> "each", of |-> of, sizes |-> sizes]
Object(fields, check) == [tag |-> "object", fields |-> fields, check |-> check]

SignedMax == TokenMax \div 2
Natural == Integer(0 .. SignedMax)
Counted == Integer(1 .. SignedMax)
AnySize == 0 .. max_items
Fields(keys, of) == [i \in DOMAIN keys |-> Field(keys[i], of)]

\* How a value is spelled, and the values a text is read as.
spell(how, v) ==
    CASE how = "version" -> str(VersionOf(v))
      [] how = "unit" -> unit_to_string(UnitOf(v))
      [] how = "digest" -> <<v>>
      [] OTHER -> v

read_spelled(how, text) ==
    CASE how = "name" -> {t \in {text} : name_parses(t)}
      [] how = "version" -> {v.core \o <<v.prerelease, v.build>> : v \in parse(text)}
      [] how = "unit" -> {<<u.code, CASE u.scale = "unity" -> 0 [] u.scale = "decimal" -> 1
                                      [] u.scale = "binary" -> 2, u.exponent>> : u \in parse_unit(text)}
      [] how = "digest" -> {t \in ToSet(text) : Len(text) = 1 /\ t \in 0 .. TokenMax}
      [] OTHER -> {text}

JsonName == Spelled("name")
JsonDigest == Spelled("digest")
JsonVersion == Spelled("version")

JsonDevice ==
    Object(<<Field("provider", JsonName), Field("model", JsonName),
             Field("unit_index", Integer(0 .. kMaxDeviceUnitIndex)), OptionalField("serial", JsonName)>>, Free)
JsonDeviceRef == Object(<<Field("device", JsonDevice), Field("incarnation", Counted)>>, Free)
JsonSource == Object(<<Field("source", JsonName), Field("counter", Natural)>>, Free)
JsonFeatures == Each(Named(Among(DOMAIN kFeatures)), 0 .. kMaxFeaturesPerRecord)
JsonLimit ==
    Object(<<Field("code", Named(Among(DOMAIN kLimits))), Field("unit", Spelled("unit")),
             Field("value", Natural)>>, Free)
JsonLimits == Each(JsonLimit, 0 .. kMaxLimitsPerRecord)

JsonEvidence ==
    Object(<<Field("id", Spelled("content")), Field("device", JsonDeviceRef),
             Field("capability_kind", Named(Kind)), Field("source", JsonSource),
             Field("capability_version", JsonVersion), Field("features", JsonFeatures),
             Field("limits", JsonLimits), OptionalField("firmware_version", JsonVersion),
             Field("firmware_generation", Natural), OptionalField("runtime_version", JsonVersion),
             Field("runtime_generation", Natural), Field("observed_at", Natural),
             OptionalField("valid_until", Natural), Field("generation", Counted),
             Field("authority", Named(AuthorityRank)), Field("epoch_at_ingest", Natural),
             Field("boot_at_ingest", Natural), Field("evidence_policy_revision", Natural),
             Field("lifecycle", Named(EvidenceLifecycle)), Field("admission_reason", Named(Reason)),
             Field("admitted_at", Natural), OptionalField("retired_at", Natural),
             Field("retirement_reason", Named(Reason))>>, "evidence")

JsonKey == <<Field("device", JsonDeviceRef), Field("capability_kind", Named(Kind)),
             Field("source", JsonName), Field("generation", Counted)>>
JsonTombstone ==
    Object(JsonKey \o <<Field("retired_at", Natural), Field("reason", Named(Reason)),
                        Field("epoch", Natural), Field("policy_revision", Natural),
                        Field("authority", Named(AuthorityRank))>>, "keyed")
JsonEviction ==
    Object(<<Field("id", JsonDigest)>> \o JsonKey
           \o <<Field("state_at_eviction", Named(EvidenceState)), Field("reason", Named(Reason)),
                Field("evicted_at", Natural)>>, "eviction")
JsonConflict ==
    Object(<<Field("id", JsonDigest), Field("device", JsonDeviceRef),
             Field("capability_kind", Named(Kind)), Field("authority", Named(AuthorityRank)),
             Field("members", Each(JsonDigest, AnySize)), Field("generations", Each(Counted, AnySize)),
             Field("observed_first", Natural), Field("observed_last", Natural)>>, "conflict")
JsonResolution ==
    Object(<<Field("id", JsonDigest), Field("conflict", JsonDigest), Field("chosen", JsonDigest),
             Field("rejected_members", Each(JsonDigest, AnySize)), Field("resolver", JsonName),
             Field("resolved_at", Natural), Field("epoch", Natural)>>, Free)
JsonEntry ==
    Object(<<Field("device", JsonDevice), Field("current", Counted),
             Field("history", Each(Counted, 1 .. max_items))>>, "entry")

JsonSourcePolicy ==
    Object(<<Field("id", JsonName), Field("kind", Named(SourceKind)),
             Field("authority", Named(AuthorityRank)), Field("trust", Named(SourceTrustState)),
             Field("max_age", Natural), Field("durable_across_boot", Flag)>>, Free)
LimitKeys == <<"max_devices", "max_incarnations_per_device", "max_streams", "max_records",
               "max_records_per_stream", "max_tombstones", "max_conflict_groups", "max_resolutions",
               "max_eviction_ledger", "max_sources", "max_decisions", "max_features_per_record",
               "max_limits_per_record", "max_limits_per_requirement", "max_required_features">>
PolicyForm(sizes, limits) ==
    Object(<<Field("sources", Each(JsonSourcePolicy, sizes)),
             Field("require_configured_source", Flag), Field("refuse_untrusted_sources", Flag),
             Field("boot_policy", Named(BootPolicy)), Field("clock_mode", Named(ClockMode)),
             Field("retention_horizon", Natural), Field("max_future_skew", Natural),
             Field("default_max_age", Natural), limits, Field("rule_generation", Counted),
             Field("policy_name", Spelled("text"))>>, "policy")
JsonPolicy == PolicyForm(AnySize, Field("limits", Object(Fields(LimitKeys, Natural), Free)))
CounterKeys == <<"admissions_accepted", "admissions_idempotent", "admissions_rejected",
                 "retirements_accepted", "retirements_rejected", "decisions_emitted",
                 "decisions_evicted", "conflicts_resolved", "evictions_total",
                 "eviction_ledger_dropped", "conflicts_dropped", "resolutions_dropped",
                 "tombstones_dropped">>
JsonCounters == Object(Fields(CounterKeys, Natural), Free)

JsonStateFields ==
    <<Field("format_version", Integer({kExportFormatVersion})), Field("policy", JsonPolicy),
      Field("registry_epoch", Natural), Field("rule_generation", Counted),
      Field("policy_revision", Natural), Field("boot_epoch", Natural),
      Field("store_generation", Natural), Field("logical_tick", Natural),
      Field("next_incarnation", Counted), Field("devices", Each(JsonEntry, AnySize)),
      Field("evidence", Each(JsonEvidence, AnySize)), Field("tombstones", Each(JsonTombstone, AnySize)),
      Field("conflicts", Each(JsonConflict, AnySize)), Field("resolutions", Each(JsonResolution, AnySize)),
      Field("evictions", Each(JsonEviction, AnySize)), Field("counters", JsonCounters),
      Field("truncated", Flag), Field("state_digest", Spelled("content"))>>
JsonState == Object(JsonStateFields, "state")

\* A policy file: the limits, or some of them, may be left out.
PolicyDocument ==
    LET limits == [i \in DOMAIN LimitKeys |-> DefaultField(LimitKeys[i], Natural, DefaultLimits[i])]
    IN  PolicyForm(0 .. MaxPolicySources, DefaultField("limits", Object(limits, Free), DefaultLimits))

RequirementDocument ==
    LET version == Object(<<Field("minimum", JsonVersion),
                            OptionalField("maximum_exclusive", JsonVersion)>>, Free)
    IN  Object(<<Field("device", JsonDeviceRef), Field("capability_kind", Named(Kind)),
                 Field("version", version), DefaultField("required_features", JsonFeatures, <<>>),
                 DefaultField("required_limits", Each(JsonLimit, 0 .. MaxRequiredLimits), <<>>),
                 OptionalField("minimum_firmware_version", JsonVersion),
                 OptionalField("minimum_firmware_generation", Natural),
                 OptionalField("minimum_runtime_version", JsonVersion),
                 OptionalField("minimum_runtime_generation", Natural),
                 DefaultField("max_evidence_age", Natural, 0)>>, "requirement")

-----------------------------------------------------------------------------
(* Reading and writing *)

\* The fields of an object, from the fields of the value.
Arranged(check, v) ==
    CASE check = "evidence" ->
           <<v[1], v[1][1][1], v[1][1][2], v[1][2]>> \o SubSeq(v[1], 3, 16) \o Tail(v)
      [] check = "keyed" -> v[1] \o Tail(v)
      [] check = "eviction" -> <<v[1]>> \o v[2] \o SubSeq(v, 3, 6)
      [] check = "requirement" -> <<v[1], v[2], <<v[3], v[4]>>>> \o SubSeq(v, 5, 11)
      [] OTHER -> v

sorted_features(codes) == SortSeq(codes, <)
sorted_limits(values) == SortSeq(values, LAMBDA a, b : a[1] < b[1])
sorted_sources(sources) == SortSeq(sources, LAMBDA a, b : text_compare(a[1], b[1]) = "less")

\* The order of DeviceIdentity.
device_less(a, b) ==
    LET serial(d) == IF d[4] = {} THEN <<>> ELSE CHOOSE s \in d[4] : TRUE
    IN  CASE a[1] # b[1] -> text_compare(a[1], b[1]) = "less"
          [] a[1] = b[1] /\ a[2] # b[2] -> text_compare(a[2], b[2]) = "less"
          [] SubSeq(a, 1, 2) = SubSeq(b, 1, 2) /\ a[3] # b[3] -> a[3] < b[3]
          [] OTHER -> text_compare(serial(a), serial(b)) = "less"

\* What a reader makes of the fields it read: sets are put in order, the source of
\* a record's key is that of its incarnation.
Made(check, w) ==
    CASE check = "evidence" ->
           <<(<<<<w[2], w[3], w[4][1]>>, w[4], w[5], sorted_features(w[6]), sorted_limits(w[7])>>
               \o SubSeq(w, 8, 18))>> \o SubSeq(w, 19, 23)
      [] check = "keyed" -> <<SubSeq(w, 1, 3)>> \o SubSeq(w, 4, 9)
      [] check = "eviction" -> <<w[1], SubSeq(w, 2, 4)>> \o SubSeq(w, 5, 8)
      [] check = "requirement" ->
           <<w[1], w[2], w[3][1], w[3][2], sorted_features(w[4]), sorted_limits(w[5])>> \o SubSeq(w, 6, 10)
      [] check = "policy" -> [w EXCEPT ![1] = sorted_sources(w[1])]
      [] check = "state" ->
           [SubSeq(w, 1, 16) EXCEPT ![1] = kStoreFormatVersion,
                                    ![10] = SortSeq(w[10], LAMBDA a, b : device_less(a[1], b[1]))]
      [] OTHER -> w

NonDecreasing(s) == \A i \in 2 .. Len(s) : s[i - 1] <= s[i]

\* Mutant: a feature may be named twice.
FeaturesUnchecked(codes, kind) == \A c \in ToSet(codes) : feature_allowed_for(c, kind)

\* FeatureSet::make on the codes that were read.
features_read(codes, kind) == make_features(codes, kind) # {}

\* Every record belongs to an incarnation its device is registered with.
Attributed(record, entries) ==
    LET device == record[1][1][1]
        own == {i \in DOMAIN entries : entries[i][1] = device[1]}
    IN  own # {} /\ \E i \in DOMAIN entries[Min(own)][3] : entries[Min(own)][3][i] = device[2]

\* Mutant: the digest is not compared.
AnyDigest(declared, state) == TRUE

digest_matches(declared, state) == declared = state

\* What a reader asks of the fields together.
Admits(check, w) ==
    CASE check = "evidence" -> /\ features_read(w[6], w[3])
                               /\ make_limits(LimitsOf(w[7]), w[3]) # {}
                               /\ w[19] = 3 => w[22] # {}
                               /\ w[1] = Made(check, w)[1]
      [] check = "requirement" -> /\ features_read(w[4], w[2])
                                  /\ \A i \in DOMAIN w[5] :
                                       /\ unit_valid_for_limit(w[5][i][1], UnitOf(w[5][i][2]))
                                       /\ limit_allowed_for(w[5][i][1], w[2])
                                  /\ Increasing(Codes(LimitsOf(sorted_limits(w[5]))))
      [] check = "conflict" -> /\ Len(w[6]) = Len(w[5]) /\ NonDecreasing(w[5])
                               /\ w[7] <= w[8]
      [] check = "entry" -> NonDecreasing(w[3]) /\ w[2] \in ToSet(w[3])
      [] check = "policy" -> \A i, k \in DOMAIN w[1] : i # k => w[1][i][1] # w[1][k][1]
      [] check = "state" -> /\ w[17] = 0
                            /\ Len(w[11]) <= w[2][9][4]
                            /\ \A i \in DOMAIN w[11] : Attributed(w[11][i], Made(check, w)[10])
                            /\ digest_matches(w[18], Made(check, w))
      [] OTHER -> TRUE

RECURSIVE json_of(_, _)
json_of(form, v) ==
    CASE form.tag = "integer" -> JsonInteger(Signed(v))
      [] form.tag = "named" -> JsonString(<<v>>)
      [] form.tag = "flag" -> JsonBoolean(v = 1)
      [] form.tag = "spelled" -> JsonString(spell(form.how, v))
      [] form.tag = "each" -> JsonArray([i \in DOMAIN v |-> json_of(form.of, v[i])])
      [] form.tag = "object" ->
           LET w == Arranged(form.check, v)
               at(key) == CHOOSE i \in DOMAIN form.fields : form.fields[i].key = key
               written == {i \in DOMAIN form.fields :
                             form.fields[i].absent = "nothing" => w[i] # {}}
               field(i) == json_of(form.fields[i].of,
                             IF form.fields[i].absent = "nothing" THEN CHOOSE x \in w[i] : TRUE ELSE w[i])
           IN  JsonObject([key \in {form.fields[i].key : i \in written} |-> field(at(key))])

\* The sequences that take each element from a set with at most one member.
EachOf(sets) ==
    IF \E i \in DOMAIN sets : sets[i] = {} THEN {}
    ELSE {[i \in DOMAIN sets |-> CHOOSE x \in sets[i] : TRUE]}

RECURSIVE read_json(_, _)
read_json(form, json) ==
    CASE form.tag = "integer" -> IF is("integer", json) /\ json.integer \in form.range THEN {json.integer} ELSE {}
      [] form.tag = "named" ->
           IF is("string", json) /\ Len(json.string) = 1 THEN ToSet(json.string) \cap form.codes
           ELSE {}
      [] form.tag = "flag" -> IF is("boolean", json) THEN {IF json.boolean THEN 1 ELSE 0} ELSE {}
      [] form.tag = "spelled" -> IF is("string", json) THEN read_spelled(form.how, json.string) ELSE {}
      [] form.tag = "each" ->
           IF is("array", json) /\ Len(json.array) \in form.sizes
           THEN EachOf([i \in DOMAIN json.array |-> read_json(form.of, json.array[i])]) ELSE {}
      [] form.tag = "object" ->
           LET field(f) ==
                   CASE f.key \in DOMAIN json.object /\ f.absent # "nothing" ->
                          read_json(f.of, json.object[f.key])
                     [] f.key \in DOMAIN json.object /\ f.absent = "nothing" ->
                          {{x} : x \in read_json(f.of, json.object[f.key])}
                     [] f.key \notin DOMAIN json.object /\ f.absent = "refused" -> {}
                     [] f.key \notin DOMAIN json.object /\ f.absent = "nothing" -> {{}}
                     [] f.key \notin DOMAIN json.object /\ f.absent = "default" -> {f.value}
           IN  IF ~is("object", json) THEN {}
               ELSE {Made(form.check, w) :
                       w \in {w \in EachOf([i \in DOMAIN form.fields |-> field(form.fields[i])]) :
                                Admits(form.check, w)}}

-----------------------------------------------------------------------------
(* Export and import *)

ExportOptions ==
    [include_policy : BOOLEAN, include_history : BOOLEAN, include_rejected : BOOLEAN,
     include_evictions : BOOLEAN, max_records : Nat]

Admitted == 1
Rejected == 2
Shown(records, options) ==
    SelectSeq(records, LAMBDA r :
        IF r[2] = Rejected THEN options.include_rejected
        ELSE options.include_history \/ r[2] = Admitted)

\* The digest is that of the whole state, whatever the document shows of it.
export_registry(state, options) ==
    LET shown == Shown(state[11], options)
        truncated == Len(shown) > options.max_records
        body == [state EXCEPT
                   ![1] = kExportFormatVersion,
                   ![11] = IF truncated THEN SubSeq(shown, 1, options.max_records) ELSE shown,
                   ![15] = IF options.include_evictions THEN state[15] ELSE <<>>]
        whole == json_of(JsonState, body \o <<IF truncated THEN 1 ELSE 0, state>>)
    IN  JsonObject([key \in {key \in DOMAIN whole.object : key = "policy" => options.include_policy} |->
                       whole.object[key]])

import_document(document) == read_json(JsonState, document)

render_policy_document(policy) == json_of(PolicyDocument, policy)
parse_policy_document(document) == read_json(PolicyDocument, document)
render_requirement_document(requirement) == json_of(RequirementDocument, requirement)
parse_requirement_document(document) == read_json(RequirementDocument, document)

=============================================================================
