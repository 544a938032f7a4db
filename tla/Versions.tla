------------------------------ MODULE Versions ------------------------------
(***************************************************************************)
(* Semantic versions: src/src/semver.cpp, and the decoder of a version in  *)
(* src/src/codec.cpp, which rebuilds it from its text.                     *)
(*                                                                         *)
(* A text is a sequence of character codes.  The length and value bounds   *)
(* of the parser are constants.                                            *)
(***************************************************************************)
EXTENDS Integers, Sequences, FiniteSets, SequencesExt, FiniteSetsExt

CONSTANTS
    MaxComponent,               \* 0xFFFFFFFF
    MaxComponentDigits,         \* 10
    kMaxSemVerQualifierLength,  \* 32
    MaxVersionText              \* 128

ASSUME VersionAssumption ==
    {MaxComponent, MaxComponentDigits, kMaxSemVerQualifierLength, MaxVersionText} \subseteq Nat \ {0}

Plus == 43
Dash == 45
Dot == 46
Zero == 48
is_digit(c) == c \in 48 .. 57
is_alnum_dash(c) == is_digit(c) \/ c \in 97 .. 122 \/ c \in 65 .. 90 \/ c = Dash

Compared(a, b) == IF a < b THEN "less" ELSE IF a = b THEN "equal" ELSE "greater"

\* std::string_view::compare.
text_compare(lhs, rhs) ==
    LET differ == {i \in DOMAIN lhs \cap DOMAIN rhs : lhs[i] # rhs[i]}
    IN  IF differ = {} THEN Compared(Len(lhs), Len(rhs))
        ELSE Compared(lhs[Min(differ)], rhs[Min(differ)])

\* The position of the first c, zero when there is none.
find(text, c) ==
    IF \E i \in DOMAIN text : text[i] = c THEN Min({i \in DOMAIN text : text[i] = c}) ELSE 0

\* The pieces between the dots.
identifiers(text) ==
    LET dots == SelectSeq([i \in DOMAIN text |-> i], LAMBDA i : text[i] = Dot)
        cuts == <<0>> \o dots \o <<Len(text) + 1>>
    IN  [i \in 1 .. Len(cuts) - 1 |-> SubSeq(text, cuts[i] + 1, cuts[i + 1] - 1)]

is_numeric_identifier(id) == id # <<>> /\ \A i \in DOMAIN id : is_digit(id[i])

parse_identifiers(text, enforce_numeric_rule) ==
    /\ Len(text) \in 1 .. kMaxSemVerQualifierLength
    /\ \A id \in ToSet(identifiers(text)) :
         /\ id # <<>>
         /\ \A i \in DOMAIN id : is_alnum_dash(id[i])
         /\ ~(enforce_numeric_rule /\ is_numeric_identifier(id) /\ Len(id) > 1 /\ id[1] = Zero)

DecimalValue(text) ==
    LET value[i \in 0 .. Len(text)] == IF i = 0 THEN 0 ELSE value[i - 1] * 10 + text[i] - Zero
    IN  value[Len(text)]

parse_component(text) ==
    /\ Len(text) \in 1 .. MaxComponentDigits
    /\ \A i \in DOMAIN text : is_digit(text[i])
    /\ Len(text) > 1 => text[1] # Zero
    /\ DecimalValue(text) <= MaxComponent

\* SemVer::parse with split: the build metadata follows the first plus, the
\* pre-release the first dash before it.
parse(text) ==
    LET plus == find(text, Plus)
        build == IF plus = 0 THEN <<>> ELSE SubSeq(text, plus + 1, Len(text))
        head == IF plus = 0 THEN text ELSE SubSeq(text, 1, plus - 1)
        dash == find(head, Dash)
        prerelease == IF dash = 0 THEN <<>> ELSE SubSeq(head, dash + 1, Len(head))
        core == identifiers(IF dash = 0 THEN head ELSE SubSeq(head, 1, dash - 1))
    IN  IF /\ Len(text) \in 1 .. MaxVersionText
           /\ plus # 0 => build # <<>> /\ find(build, Plus) = 0
           /\ dash # 0 => prerelease # <<>>
           /\ Len(core) = 3 /\ \A i \in 1 .. 3 : parse_component(core[i])
           /\ prerelease # <<>> => parse_identifiers(prerelease, TRUE)
           /\ build # <<>> => parse_identifiers(build, FALSE)
        THEN {[core |-> [i \in 1 .. 3 |-> DecimalValue(core[i])],
               prerelease |-> prerelease, build |-> build]}
        ELSE {}

\* std::to_string.
Digits(n) ==
    LET digits[k \in 0 .. n] ==
            IF k < 10 THEN <<Zero + k>> ELSE Append(digits[k \div 10], Zero + (k % 10))
    IN  digits[n]

str(v) ==
    Digits(v.core[1]) \o <<Dot>> \o Digits(v.core[2]) \o <<Dot>> \o Digits(v.core[3])
        \o (IF v.prerelease = <<>> THEN <<>> ELSE <<Dash>> \o v.prerelease)
        \o (IF v.build = <<>> THEN <<>> ELSE <<Plus>> \o v.build)

\* decode(Reader&, SemVer&): the five fields that were read are spelled out as a
\* text and parsed again.
decode_semver(fields) == parse(str(fields))

\* Mutant: numeric identifiers are compared as text.
CompareAsText(lhs, rhs) ==
    CASE is_numeric_identifier(lhs) # is_numeric_identifier(rhs) ->
           IF is_numeric_identifier(lhs) THEN "less" ELSE "greater"
      [] OTHER -> text_compare(lhs, rhs)

\* One turn of compare_identifiers.
compare_identifier(lhs, rhs) ==
    CASE is_numeric_identifier(lhs) /\ is_numeric_identifier(rhs) /\ Len(lhs) # Len(rhs) ->
           Compared(Len(lhs), Len(rhs))
      [] is_numeric_identifier(lhs) # is_numeric_identifier(rhs) ->
           IF is_numeric_identifier(lhs) THEN "less" ELSE "greater"
      [] OTHER -> text_compare(lhs, rhs)

compare_identifiers(lhs, rhs) ==
    LET l == identifiers(lhs)
        r == identifiers(rhs)
        from[i \in 1 .. Len(l) + Len(r) + 1] ==
            CASE i > Len(l) /\ i > Len(r) -> "equal"
              [] i > Len(l) /\ i <= Len(r) -> "less"
              [] i <= Len(l) /\ i > Len(r) -> "greater"
              [] OTHER -> IF compare_identifier(l[i], r[i]) # "equal"
                          THEN compare_identifier(l[i], r[i]) ELSE from[i + 1]
    IN  from[1]

precedence_compare(v, other) ==
    IF v.core # other.core
    THEN LET i == Min({k \in 1 .. 3 : v.core[k] # other.core[k]})
         IN  Compared(v.core[i], other.core[i])
    ELSE CASE v.prerelease = <<>> /\ other.prerelease = <<>> -> "equal"
           [] v.prerelease = <<>> /\ other.prerelease # <<>> -> "greater"
           [] v.prerelease # <<>> /\ other.prerelease = <<>> -> "less"
           [] OTHER -> compare_identifiers(v.prerelease, other.prerelease)

\* VersionRequirement: [minimum, maximum_exclusive], the latter optional.
satisfied_by(required, candidate) ==
    /\ precedence_compare(candidate, required.minimum) # "less"
    /\ \A m \in required.maximum_exclusive : precedence_compare(candidate, m) = "less"

-----------------------------------------------------------------------------
(* Reference: the precedence rule of the semantic-version specification *)

IdentifierPrecedes(a, b) ==
    \/ is_numeric_identifier(a) /\ is_numeric_identifier(b) /\ DecimalValue(a) < DecimalValue(b)
    \/ is_numeric_identifier(a) /\ ~is_numeric_identifier(b)
    \/ /\ ~is_numeric_identifier(a) /\ ~is_numeric_identifier(b)
       /\ \/ IsStrictPrefix(a, b)
          \/ \E i \in DOMAIN a \cap DOMAIN b :
               a[i] < b[i] /\ SubSeq(a, 1, i - 1) = SubSeq(b, 1, i - 1)

PrereleasePrecedes(a, b) ==
    LET l == identifiers(a)
        r == identifiers(b)
    IN  \/ a # <<>> /\ b = <<>>
        \/ /\ a # <<>> /\ b # <<>>
           /\ \/ IsStrictPrefix(l, r)
              \/ \E i \in DOMAIN l \cap DOMAIN r :
                   IdentifierPrecedes(l[i], r[i]) /\ SubSeq(l, 1, i - 1) = SubSeq(r, 1, i - 1)

Precedes(v, w) ==
    \/ \E i \in 1 .. 3 : v.core[i] < w.core[i] /\ \A k \in 1 .. i - 1 : v.core[k] = w.core[k]
    \/ v.core = w.core /\ PrereleasePrecedes(v.prerelease, w.prerelease)

\* What precedence_compare answers is the specification's order, and two versions
\* it calls equal differ at most in their build metadata.
PrecedenceFollowsSpecification(v, w) ==
    /\ precedence_compare(v, w) = "less" <=> Precedes(v, w)
    /\ precedence_compare(v, w) = "greater" <=> Precedes(w, v)
    /\ precedence_compare(v, w) = "equal" <=> v.core = w.core /\ v.prerelease = w.prerelease

\* A version has one text: what is parsed prints as it was read, and reads back as
\* itself from the store's encoding.
OneText(text) == \A v \in parse(text) : str(v) = text /\ decode_semver(v) = {v}

=============================================================================
