------------------------------- MODULE Codec -------------------------------
(***************************************************************************)
(* The binary encoding of the store and the wire: src/src/codec.cpp and    *)
(* the payloads of src/src/protocol.cpp.                                   *)
(*                                                                         *)
(* An encoding is a sequence of tokens, one for each number, flag, digest  *)
(* or character; byte order is left out.  A layout says how a type is      *)
(* written and what its decoder accepts: write and read stand for every    *)
(* encode and decode function.  A value is a token, a set with at most one *)
(* member (an optional) or a tuple.  The bounds on counts are constants.   *)
(***************************************************************************)
EXTENDS Comparison

CONSTANTS
    TokenMax,               \* the largest number a token holds
    kMaxNameLength,
    kMaxDeviceUnitIndex,
    kMaxCollectionEntries,
    MaxReasons,             \* 4096
    MaxNotes,               \* 64
    MaxText,                \* 128 for a policy name, 4096 for a detail
    kMaxFramePayload,
    ReasonCodes,            \* the numbers reason_from knows
    kStoreFormatVersion

ASSUME CodecAssumption ==
    /\ {TokenMax, kMaxNameLength, kMaxDeviceUnitIndex, kMaxCollectionEntries, MaxReasons, MaxNotes,
        MaxText, kMaxFramePayload, kStoreFormatVersion} \subseteq Nat \ {0}
    /\ ReasonCodes \subseteq Nat

-----------------------------------------------------------------------------
(* Layouts *)

Among(codes) == [tag |-> "token", codes |-> codes]
Text(bound, check) == [tag |-> "text", bound |-> bound, check |-> check]
Optional(of) == [tag |-> "optional", of |-> of]
List(of, bound, check) == [tag |-> "list", of |-> of, bound |-> bound, check |-> check]
Record(fields, check) == [tag |-> "record", fields |-> fields, check |-> check]

Number == Among(0 .. TokenMax)
Positive == Among(1 .. TokenMax)
Boolean == Among({0, 1})
Digest == Among(0 .. TokenMax)
Reason == Among(ReasonCodes)
Free == "nothing more"

\* A two's complement number.
Signed(token) == IF 2 * token > TokenMax THEN token - TokenMax - 1 ELSE token

Separator == {Dot, 95, Dash}
is_lower_alnum(c) == is_digit(c) \/ c \in 97 .. 122

\* Name::parse.
name_parses(text) ==
    /\ Len(text) \in 1 .. kMaxNameLength
    /\ is_lower_alnum(text[1])
    /\ \A i \in DOMAIN text : is_lower_alnum(text[i]) \/ text[i] \in Separator
    /\ text[Len(text)] \notin Separator
    /\ \A i \in 2 .. Len(text) : ~(text[i - 1] \in Separator /\ text[i] \in Separator)

UnitOf(v) == [code |-> v[1], scale |-> <<"unity", "decimal", "binary">>[v[2] + 1], exponent |-> v[3]]
LimitOf(v) == [code |-> v[1], unit |-> UnitOf(v[2]), value |-> Signed(v[3])]
LimitsOf(v) == [i \in DOMAIN v |-> LimitOf(v[i])]
VersionOf(v) == [core |-> <<v[1], v[2], v[3]>>, prerelease |-> v[4], build |-> v[5]]

WindowInverted(observed_at, valid_until) == \E until \in valid_until : until < observed_at
AllowedFor(kind, features, limits) ==
    /\ \A i \in DOMAIN features : feature_allowed_for(features[i], kind)
    /\ \A i \in DOMAIN limits : limit_allowed_for(limits[i][1], kind)

\* What a decoder asks of the fields together, once it has read them.
Accepts(check, v) ==
    CASE check = Free -> TRUE
      [] check = "name" -> name_parses(v)
      [] check = "unit" -> unit_is_well_formed(UnitOf(v))
      [] check = "limit" -> limit_decodes(LimitOf(v))
      [] check = "codes" -> Increasing(v)
      [] check = "limit codes" -> Increasing(Codes(LimitsOf(v)))
      [] check = "version" -> decode_semver(VersionOf(v)) # {}
      [] check = "evidence" -> /\ ~WindowInverted(v[10], v[11])
                               /\ AllowedFor(v[1][2], v[4], v[5])
      [] check = "admission" -> ~WindowInverted(v[11], v[12])
      [] check = "requirement" -> AllowedFor(v[2], v[5], v[6])
      [] check = "stored" -> v[2] = 3 => v[5] # {}
      [] check = "conflict" -> Len(v[6]) = Len(v[5])
      [] check = "state" -> /\ Len(v[11]) <= v[2][9][4]
                            /\ Len(v[12]) <= v[2][9][6]
                            /\ \A i \in 2 .. Len(v[2][1]) :
                                 text_compare(v[2][1][i - 1][1], v[2][1][i][1]) = "less"
      [] check = "reasons" -> TRUE

\* What a decoder makes of fields it accepted: a version is parsed again from its
\* text, reasons are sorted and repeated ones dropped.
Normalised(check, v) ==
    CASE check = "version" ->
           LET parsed == CHOOSE p \in decode_semver(VersionOf(v)) : TRUE
           IN  parsed.core \o <<parsed.prerelease, parsed.build>>
      [] check = "reasons" -> Sorted(v)
      [] OTHER -> v

-----------------------------------------------------------------------------
(* Writer and Reader *)

RECURSIVE write(_, _)
write(layout, v) ==
    LET each(layouts) == FlattenSeq([i \in DOMAIN layouts |-> write(layouts[i], v[i])])
    IN  CASE layout.tag = "token" -> <<v>>
          [] layout.tag = "text" -> <<Len(v)>> \o v
          [] layout.tag = "optional" ->
               IF v = {} THEN <<0>> ELSE <<1>> \o write(layout.of, CHOOSE x \in v : TRUE)
          [] layout.tag = "list" -> <<Len(v)>> \o each([i \in DOMAIN v |-> layout.of])
          [] layout.tag = "record" -> each(layout.fields)

Got(v, rest) == {[value |-> v, rest |-> rest]}

\* Mutant: any flag but zero says that the optional value follows.
AnyFlagPresent(flag) == flag # 0

flag_present(flag) == flag = 1
flag_refused(flag) == flag # 0 /\ ~flag_present(flag)

\* Reader::require and bytes: a length and as many characters as it says.
bytes(s) ==
    IF s[1] > Len(s) - 1 THEN {}
    ELSE Got(SubSeq(s, 2, s[1] + 1), SubSeq(s, s[1] + 2, Len(s)))

\* A decoder: the value it read and the tokens that follow, or nothing.
RECURSIVE read(_, _), read_each(_, _)
read(layout, s) ==
    IF s = <<>> /\ layout.tag # "record" THEN {}
    ELSE CASE layout.tag = "token" -> IF s[1] \in layout.codes THEN Got(s[1], Tail(s)) ELSE {}
           [] layout.tag = "text" ->
                {x \in bytes(s) : Len(x.value) <= layout.bound /\ Accepts(layout.check, x.value)}
           [] layout.tag = "optional" ->
                CASE s[1] = 0 -> Got({}, Tail(s))
                  [] flag_refused(s[1]) -> {}
                  [] OTHER -> UNION {Got({x.value}, x.rest) : x \in read(layout.of, Tail(s))}
           [] layout.tag = "list" ->
                IF s[1] > layout.bound THEN {}
                ELSE UNION {Got(Normalised(layout.check, x.value), x.rest) :
                         x \in {x \in read_each([i \in 1 .. s[1] |-> layout.of], Tail(s)) :
                                   Accepts(layout.check, x.value)}}
           [] layout.tag = "record" ->
                UNION {Got(Normalised(layout.check, x.value), x.rest) :
                         x \in {x \in read_each(layout.fields, s) : Accepts(layout.check, x.value)}}

read_each(layouts, s) ==
    IF layouts = <<>> THEN Got(<<>>, s)
    ELSE UNION {UNION {Got(<<x.value>> \o y.value, y.rest) : y \in read_each(Tail(layouts), x.rest)} :
                    x \in read(layouts[1], s)}

\* A message or a file: the decoder, and nothing left over.
decoded(layout, s) == {x.value : x \in {x \in read(layout, s) : x.rest = <<>>}}

-----------------------------------------------------------------------------
(* What a decoder owes its encoder *)

\* codec.hpp: "Every function appends exactly one canonical representation".  The
\* encoding a decoder accepts is the one the value is written as.
Canonical(layout, s) == \A v \in decoded(layout, s) : write(layout, v) = s

\* What was read and is written again reads back as the same value.
Settled(layout, s) == \A v \in decoded(layout, s) : decoded(layout, write(layout, v)) = {v}

\* Cut short anywhere, what a decoder accepts is refused.
NoShorter(layout, s) ==
    decoded(layout, s) # {} => \A n \in 0 .. Len(s) - 1 : decoded(layout, SubSeq(s, 1, n)) = {}

=============================================================================
