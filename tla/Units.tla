------------------------------- MODULE Units -------------------------------
(***************************************************************************)
(* Exact unit arithmetic: src/src/units.cpp and the helpers of             *)
(* src/include/ocreg/checked.hpp it uses.                                  *)
(*                                                                         *)
(* An optional value is a set with at most one member.  The machine word,  *)
(* the two scale bases and the base factors of the unit table are          *)
(* constants, so that an instance can bring overflow and inexact division  *)
(* within reach of small numbers.                                          *)
(***************************************************************************)
EXTENDS Integers

CONSTANTS
    WordBits,          \* the width of std::uint64_t
    IntMax,            \* the largest std::int64_t
    kUnitCodes,        \* UnitCode -> [dimension, base_factor, decimal_scale, binary_scale]
    DecimalBase,       \* 10
    BinaryBase,        \* 1024
    kMaxUnitExponent

UintMax == 2 * IntMax + 1
Word == UintMax + 1
Int64 == -IntMax - 1 .. IntMax
Uint64 == 0 .. UintMax

UnitScale == {"unity", "decimal", "binary"}
UnitCode == DOMAIN kUnitCodes

ASSUME UnitAssumption ==
    /\ IntMax \in Nat \ {0}
    /\ DecimalBase \in Nat \ {0} /\ BinaryBase \in Nat \ {0} /\ kMaxUnitExponent \in Nat
    /\ \A c \in UnitCode : kUnitCodes[c].base_factor \in 1 .. UintMax

ASSUME WordAssumption == WordBits \in Nat /\ WordBits % 2 = 0 /\ 2 ^ WordBits = Word

Ordering(a, b) == IF a < b THEN "less" ELSE IF a = b THEN "equal" ELSE "greater"

checked_mul(a, b) ==
    IF a = 0 \/ b = 0 THEN {0} ELSE IF a > UintMax \div b THEN {} ELSE {a * b}

\* A 128-bit value, in two words.
U128 == [hi : Uint64, lo : Uint64]
NumberOf(value) == value.hi * Word + value.lo

mul_u64(a, b) == [hi |-> (a * b) \div Word, lo |-> (a * b) % Word]

\* mul_u64 where the compiler has no 128-bit product: four half-word products.
mul_halves(a, b) ==
    LET half == 2 ^ (WordBits \div 2)
        p0 == (a % half) * (b % half)
        p1 == (a % half) * (b \div half)
        p2 == (a \div half) * (b % half)
        p3 == (a \div half) * (b \div half)
        carry == (p0 \div half + (p1 % half) + (p2 % half)) \div half
    IN  [hi |-> (p3 + p1 \div half + p2 \div half + carry) % Word,
         lo |-> (p0 + p1 * half + p2 * half) % Word]

\* div_u128_exact over the 128-by-64 division instruction.
div_u128_exact(value, divisor) ==
    IF divisor = 0 \/ value.hi >= divisor \/ NumberOf(value) % divisor # 0 THEN {}
    ELSE {NumberOf(value) \div divisor}

\* Mutant: the bit shifted out of the remainder is forgotten.
DivideWithoutCarry(value, divisor) ==
    LET state[bit \in -1 .. 2 * WordBits] ==
            IF bit = 2 * WordBits THEN [remainder |-> 0, result |-> 0, failed |-> FALSE]
            ELSE LET before == state[bit + 1]
                     next_bit == IF bit >= WordBits
                                 THEN (value.hi \div 2 ^ (bit - WordBits)) % 2
                                 ELSE (value.lo \div 2 ^ bit) % 2
                     shifted == ((before.remainder * 2) % Word) + next_bit
                     subtract == shifted >= divisor
                 IN  [remainder |-> IF subtract THEN (shifted - divisor) % Word ELSE shifted,
                      result |-> before.result + IF subtract /\ bit < WordBits THEN 2 ^ bit ELSE 0,
                      failed |-> before.failed \/ (subtract /\ bit >= WordBits)]
    IN  IF divisor = 0 \/ value.hi >= divisor \/ state[0].failed \/ state[0].remainder # 0 THEN {}
        ELSE {state[0].result}

\* div_u128_exact as every other compiler builds it: restoring long division,
\* one bit of the value a turn from the top, the remainder a word that wraps.
restoring_division(value, divisor) ==
    LET state[bit \in -1 .. 2 * WordBits] ==
            IF bit = 2 * WordBits THEN [remainder |-> 0, result |-> 0, failed |-> FALSE]
            ELSE LET before == state[bit + 1]
                     next_bit == IF bit >= WordBits
                                 THEN (value.hi \div 2 ^ (bit - WordBits)) % 2
                                 ELSE (value.lo \div 2 ^ bit) % 2
                     carry == before.remainder * 2 >= Word
                     shifted == ((before.remainder * 2) % Word) + next_bit
                     subtract == carry \/ shifted >= divisor
                 IN  [remainder |-> IF subtract THEN (shifted - divisor) % Word ELSE shifted,
                      result |-> before.result + IF subtract /\ bit < WordBits THEN 2 ^ bit ELSE 0,
                      failed |-> before.failed \/ (subtract /\ bit >= WordBits)]
    IN  IF divisor = 0 \/ value.hi >= divisor \/ state[0].failed \/ state[0].remainder # 0 THEN {}
        ELSE {state[0].result}

scale_multiplier(scale, exponent) ==
    LET base == IF scale = "decimal" THEN DecimalBase ELSE BinaryBase
        result[i \in 0 .. exponent] ==
            IF i = 0 THEN {1} ELSE UNION {checked_mul(r, base) : r \in result[i - 1]}
    IN  result[exponent]

unit_scale_permitted(code, scale) ==
    /\ code \in UnitCode
    /\ CASE scale = "unity" -> TRUE
         [] scale = "decimal" -> kUnitCodes[code].decimal_scale
         [] scale = "binary" -> kUnitCodes[code].binary_scale

\* A decimal or binary scale may have exponent zero: such a unit is not equal to
\* its unscaled one though it has the same factor.
unit_is_well_formed(unit) ==
    /\ unit.code \in UnitCode
    /\ unit.exponent <= kMaxUnitExponent
    /\ unit.scale = "unity" => unit.exponent = 0
    /\ unit_scale_permitted(unit.code, unit.scale)

dimension_of(code) == IF code \in UnitCode THEN kUnitCodes[code].dimension ELSE "dimensionless"

factor_to_base(unit) ==
    IF ~unit_is_well_formed(unit) THEN {}
    ELSE UNION {checked_mul(kUnitCodes[unit.code].base_factor, m) :
                    m \in scale_multiplier(unit.scale, unit.exponent)}

\* The arithmetic of convert_exact, for the factors of the two units.
scaled(value, from_factor, to_factor) ==
    LET negative == value < 0
        magnitude == IF negative THEN -(value + 1) + 1 ELSE value
        quotients == div_u128_exact(mul_u64(magnitude, from_factor), to_factor)
    IN  {IF negative THEN -q ELSE q :
            q \in {q \in quotients : q <= IntMax \/ (negative /\ q = IntMax + 1)}}

convert_exact(value, from, to) ==
    IF \/ ~unit_is_well_formed(from) \/ ~unit_is_well_formed(to)
       \/ dimension_of(from.code) # dimension_of(to.code)
    THEN {}
    ELSE UNION {UNION {scaled(value, f, t) : t \in factor_to_base(to)} : f \in factor_to_base(from)}

\* Mutant: a value that does not convert is compared after rounding towards zero.
CompareRounded(lhs, lhs_unit, rhs, rhs_unit) ==
    IF lhs_unit = rhs_unit THEN {Ordering(lhs, rhs)}
    ELSE IF convert_exact(lhs, lhs_unit, rhs_unit) # {}
    THEN {Ordering(l, rhs) : l \in convert_exact(lhs, lhs_unit, rhs_unit)}
    ELSE UNION {{Ordering((lhs * f) \div t, rhs) : t \in factor_to_base(rhs_unit)} :
                    f \in factor_to_base(lhs_unit)}

\* Whichever side converts exactly is converted, the left one first.
compare_exact(lhs, lhs_unit, rhs, rhs_unit) ==
    IF lhs_unit = rhs_unit THEN {Ordering(lhs, rhs)}
    ELSE IF convert_exact(lhs, lhs_unit, rhs_unit) # {}
    THEN {Ordering(l, rhs) : l \in convert_exact(lhs, lhs_unit, rhs_unit)}
    ELSE {Ordering(lhs, r) : r \in convert_exact(rhs, rhs_unit, lhs_unit)}

-----------------------------------------------------------------------------
(* Reference definitions, over unbounded integers *)

ExactFactor(unit) ==
    kUnitCodes[unit.code].base_factor *
        (CASE unit.scale = "unity" -> 1
           [] unit.scale = "decimal" -> DecimalBase ^ unit.exponent
           [] unit.scale = "binary" -> BinaryBase ^ unit.exponent)

\* The integers equal to a value counted in another factor.
ExactlyConverted(value, f, t) == {q \in Int64 : q * t = value * f}

\* README: "A conversion that would round is `UNKNOWN_INEXACT_UNIT_CONVERSION`."  An
\* order compare_exact returns is the order of the two quantities in base units.
ComparisonExact(lhs, lhs_unit, rhs, rhs_unit) ==
    \A f \in factor_to_base(lhs_unit), t \in factor_to_base(rhs_unit) :
        compare_exact(lhs, lhs_unit, rhs, rhs_unit) \subseteq {Ordering(lhs * f, rhs * t)}

=============================================================================
