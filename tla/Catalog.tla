------------------------------ MODULE Catalog ------------------------------
(***************************************************************************)
(* The capability catalog of src/src/catalog.cpp, the sets of features and *)
(* limits a record carries, and the three places that check such a set:    *)
(* its constructor, admission (src/src/registry.cpp) and the decoder of    *)
(* the store and the wire (src/src/codec.cpp).                             *)
(*                                                                         *)
(* A set is the sequence its vector holds.  Codes are numbers; the tables  *)
(* are constants.                                                          *)
(***************************************************************************)
EXTENDS Units, Sequences, FiniteSets, SequencesExt

CONSTANTS
    CapabilityKind,
    kFeatures,              \* FeatureCode -> the kinds it may be reported for
    kLimits,                \* LimitCode -> [kinds, unit, decimal_scale, binary_scale]
    kMaxFeaturesPerRecord,
    kMaxLimitsPerRecord

ASSUME CatalogAssumption ==
    /\ DOMAIN kFeatures \subseteq Nat /\ DOMAIN kLimits \subseteq Nat
    /\ \A c \in DOMAIN kFeatures : kFeatures[c] \subseteq CapabilityKind
    /\ \A c \in DOMAIN kLimits : kLimits[c].kinds \subseteq CapabilityKind
    /\ kMaxFeaturesPerRecord \in Nat /\ kMaxLimitsPerRecord \in Nat

feature_allowed_for(code, kind) == code \in DOMAIN kFeatures /\ kind \in kFeatures[code]
limit_allowed_for(code, kind) == code \in DOMAIN kLimits /\ kind \in kLimits[code].kinds

unit_valid_for_limit(code, unit) ==
    /\ code \in DOMAIN kLimits
    /\ unit.code = kLimits[code].unit
    /\ unit_is_well_formed(unit)
    /\ CASE unit.scale = "unity" -> unit.exponent = 0
         [] unit.scale = "decimal" -> kLimits[code].decimal_scale
         [] unit.scale = "binary" -> kLimits[code].binary_scale

\* LimitValue orders by its code alone.
Increasing(seq) == \A i \in 2 .. Len(seq) : seq[i - 1] < seq[i]
Codes(values) == [i \in DOMAIN values |-> values[i].code]

\* A sorted vector of pairwise distinct codes; std::sort of a vector with equal
\* keys is only reached on the way to a refusal.
Sorted(codes) == SetToSortSeq(ToSet(codes), <)
SortedByCode(values) == SetToSortSeq(ToSet(values), LAMBDA a, b : a.code < b.code)

\* FeatureSet::make and LimitSet::make, as the optional set they build.
make_features(codes, kind) ==
    IF /\ Len(codes) <= kMaxFeaturesPerRecord
       /\ Cardinality(ToSet(codes)) = Len(codes)
       /\ \A c \in ToSet(codes) : feature_allowed_for(c, kind)
    THEN {Sorted(codes)} ELSE {}

make_limits(values, kind) ==
    IF /\ Len(values) <= kMaxLimitsPerRecord
       /\ Cardinality(ToSet(Codes(values))) = Len(values)
       /\ \A v \in ToSet(values) :
            /\ limit_allowed_for(v.code, kind)
            /\ v.value >= 0
            /\ v.unit.code = kLimits[v.code].unit
            /\ unit_is_well_formed(v.unit)
            /\ unit_valid_for_limit(v.code, v.unit)
    THEN {SortedByCode(values)} ELSE {}

\* from_validated: sorted, equal codes dropped.
features_from_validated(codes) == Sorted(codes)
limits_from_validated(values) ==
    SortedByCode([i \in DOMAIN values |->
        values[CHOOSE k \in DOMAIN values : values[k].code = values[i].code]])

contains(codes, code) == \E i \in DOMAIN codes : codes[i] = code
contains_all(codes, required) == \A i \in DOMAIN required : contains(codes, required[i])
find_limit(values, code) == {v \in ToSet(values) : v.code = code}

canonical_order_ok(codes) == Increasing(codes)

\* What admission asks of the sets of a record before it is stored.
feature_set_valid(codes, kind) ==
    /\ Len(codes) <= kMaxFeaturesPerRecord
    /\ canonical_order_ok(codes)
    /\ \A c \in ToSet(codes) : c \in DOMAIN kFeatures /\ feature_allowed_for(c, kind)

limit_set_valid(values, kind) ==
    /\ Len(values) <= kMaxLimitsPerRecord
    /\ canonical_order_ok(Codes(values))
    /\ \A v \in ToSet(values) :
         /\ v.code \in DOMAIN kLimits
         /\ limit_allowed_for(v.code, kind)
         /\ v.value >= 0
         /\ v.unit.code = kLimits[v.code].unit
         /\ unit_is_well_formed(v.unit)
         /\ unit_valid_for_limit(v.code, v.unit)

\* decode(Reader&, FeatureSet&) and the kind check of the record's decoder.
decode_features(codes, kind) ==
    IF /\ Len(codes) <= kMaxFeaturesPerRecord
       /\ ToSet(codes) \subseteq DOMAIN kFeatures
       /\ Increasing(codes)
       /\ \A c \in ToSet(features_from_validated(codes)) : feature_allowed_for(c, kind)
    THEN {features_from_validated(codes)} ELSE {}

\* Mutant: the decoder asks for the unit's own scales only, not the limit's.
LimitDecodesLoosely(v) ==
    /\ v.code \in DOMAIN kLimits
    /\ unit_is_well_formed(v.unit)
    /\ v.value >= 0
    /\ v.unit.code = kLimits[v.code].unit

\* decode(Reader&, LimitValue&).
limit_decodes(v) ==
    /\ v.code \in DOMAIN kLimits
    /\ unit_is_well_formed(v.unit)
    /\ v.value >= 0
    /\ v.unit.code = kLimits[v.code].unit
    /\ unit_valid_for_limit(v.code, v.unit)

\* decode(Reader&, LimitSet&) and the kind check of the record's decoder.
decode_limits(values, kind) ==
    IF /\ Len(values) <= kMaxLimitsPerRecord
       /\ \A v \in ToSet(values) : limit_decodes(v)
       /\ Increasing(Codes(values))
       /\ \A v \in ToSet(limits_from_validated(values)) : limit_allowed_for(v.code, kind)
    THEN {limits_from_validated(values)} ELSE {}

-----------------------------------------------------------------------------
(* What the three checks owe each other *)

\* Exactly the feature sets admission stores are read back, unchanged, and a set
\* built by make is one of them.
FeaturesStayReadable(codes, kind) ==
    /\ decode_features(codes, kind) = (IF feature_set_valid(codes, kind) THEN {codes} ELSE {})
    /\ \A made \in make_features(codes, kind) : feature_set_valid(made, kind)

LimitsStayReadable(values, kind) ==
    /\ decode_limits(values, kind) = (IF limit_set_valid(values, kind) THEN {values} ELSE {})
    /\ \A made \in make_limits(values, kind) : limit_set_valid(made, kind)

=============================================================================
