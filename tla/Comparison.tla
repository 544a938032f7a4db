----------------------------- MODULE Comparison -----------------------------
(***************************************************************************)
(* What a capability record says of a requirement: compare_limit and       *)
(* compare_requirement of src/src/compat.cpp.                              *)
(***************************************************************************)
EXTENDS Catalog, Versions

\* Mutant: a conversion that is not exact passes for a limit that is met.
LimitPassesWhenInexact(required, limits) ==
    LET reported == find_limit(limits, required.code)
        ordering == UNION {compare_exact(v.value, v.unit, required.minimum, required.unit) :
                               v \in reported}
    IN  IF reported = {} THEN {"UnknownLimitNotReported"}
        ELSE IF \E v \in reported : dimension_of(v.unit.code) # dimension_of(required.unit.code)
        THEN {"UnknownUnitMismatch"}
        ELSE IF ordering = {"less"} THEN {"IncompatibleLimitBelowRequirement"} ELSE {}

\* The reasons a required minimum adds: none when it is met.
compare_limit(required, limits) ==
    LET reported == find_limit(limits, required.code)
        ordering == UNION {compare_exact(v.value, v.unit, required.minimum, required.unit) :
                               v \in reported}
    IN  IF reported = {} THEN {"UnknownLimitNotReported"}
        ELSE IF \E v \in reported : dimension_of(v.unit.code) # dimension_of(required.unit.code)
        THEN {"UnknownUnitMismatch"}
        ELSE IF ordering = {} THEN {"UnknownInexactUnitConversion"}
        ELSE IF ordering = {"less"} THEN {"IncompatibleLimitBelowRequirement"} ELSE {}

\* A required minimum version against an optional reported one.
compare_minimum_version(minimum, reported, absent, too_low) ==
    IF minimum = {} THEN {}
    ELSE IF reported = {} THEN {absent}
    ELSE {r \in {too_low} : \E m \in minimum, v \in reported : precedence_compare(v, m) = "less"}

\* A required minimum generation; zero is a generation that was never set.
compare_minimum_generation(minimum, reported, absent, too_low) ==
    IF minimum = {} THEN {}
    ELSE IF reported = 0 THEN {absent}
    ELSE {r \in {too_low} : \E m \in minimum : reported < m}

Incompatible == {"IncompatibleVersionTooLow", "IncompatibleFeatureAbsent",
                 "IncompatibleLimitBelowRequirement", "IncompatibleFirmwareGenerationTooLow",
                 "IncompatibleRuntimeGenerationTooLow"}

\* The reasons, in whatever order they are found, decide the kind: one that rules
\* the record out wins over any that leaves it open.
compare_requirement(requirement, evidence) ==
    LET reasons ==
            (IF satisfied_by(requirement.version, evidence.capability_version) THEN {}
             ELSE {"IncompatibleVersionTooLow"})
            \cup (IF contains_all(evidence.features, requirement.required_features) THEN {}
                  ELSE {"IncompatibleFeatureAbsent"})
            \cup UNION {compare_limit(l, evidence.limits) : l \in ToSet(requirement.required_limits)}
            \cup compare_minimum_version(requirement.minimum_firmware_version,
                     evidence.firmware_version, "UnknownFirmwareGenerationAbsent",
                     "IncompatibleFirmwareGenerationTooLow")
            \cup compare_minimum_generation(requirement.minimum_firmware_generation,
                     evidence.firmware_generation, "UnknownFirmwareGenerationAbsent",
                     "IncompatibleFirmwareGenerationTooLow")
            \cup compare_minimum_version(requirement.minimum_runtime_version,
                     evidence.runtime_version, "UnknownRuntimeGenerationAbsent",
                     "IncompatibleRuntimeGenerationTooLow")
            \cup compare_minimum_generation(requirement.minimum_runtime_generation,
                     evidence.runtime_generation, "UnknownRuntimeGenerationAbsent",
                     "IncompatibleRuntimeGenerationTooLow")
    IN  [reasons |-> reasons,
         kind |-> CASE reasons \cap Incompatible # {} -> "Incompatible"
                    [] reasons # {} /\ reasons \cap Incompatible = {} -> "Unknown"
                    [] reasons = {} -> "Compatible"]

-----------------------------------------------------------------------------
(* Reference: what a requirement means, by exact arithmetic *)

VersionInside(required, candidate) ==
    /\ ~Precedes(candidate, required.minimum)
    /\ \A m \in required.maximum_exclusive : Precedes(candidate, m)

Clause(met, missed) == [met |-> met, missed |-> missed]

LimitClause(required, limits) ==
    LET comparable == {v \in find_limit(limits, required.code) :
                          dimension_of(v.unit.code) = dimension_of(required.unit.code)}
        enough(v) == v.value * ExactFactor(v.unit) >= required.minimum * ExactFactor(required.unit)
    IN  Clause(\E v \in comparable : enough(v), \E v \in comparable : ~enough(v))

VersionClauses(minimum, reported) ==
    {Clause(\E v \in reported : ~Precedes(v, m), \E v \in reported : Precedes(v, m)) : m \in minimum}

GenerationClauses(minimum, reported) ==
    {Clause(reported # 0 /\ reported >= m, reported \in 1 .. m - 1) : m \in minimum}

Clauses(requirement, evidence) ==
    LET inside == VersionInside(requirement.version, evidence.capability_version)
        present == ToSet(requirement.required_features) \subseteq ToSet(evidence.features)
    IN  {Clause(inside, ~inside), Clause(present, ~present)}
        \cup {LimitClause(l, evidence.limits) : l \in ToSet(requirement.required_limits)}
        \cup VersionClauses(requirement.minimum_firmware_version, evidence.firmware_version)
        \cup GenerationClauses(requirement.minimum_firmware_generation, evidence.firmware_generation)
        \cup VersionClauses(requirement.minimum_runtime_version, evidence.runtime_version)
        \cup GenerationClauses(requirement.minimum_runtime_generation, evidence.runtime_generation)

\* README: "A conversion that would round is `UNKNOWN_INEXACT_UNIT_CONVERSION`."
\* Compatible is answered only for a record that meets every part of the
\* requirement by exact arithmetic, Incompatible only for one that misses a part.
VerdictIsEarned(requirement, evidence) ==
    LET verdict == compare_requirement(requirement, evidence).kind
        clauses == Clauses(requirement, evidence)
    IN  /\ verdict = "Compatible" => \A c \in clauses : c.met
        /\ verdict = "Incompatible" => \E c \in clauses : c.missed

=============================================================================
