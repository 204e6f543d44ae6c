---------------------------- MODULE MemberValue -----------------------------
(***************************************************************************)
(* What the JSON and the field transformations do to one value: which      *)
(* values of a JSON text a member of a type accepts and what is stored,    *)
(* and how the value of a field becomes text and is read back.             *)
(*                                                                         *)
(* Half scales the integer types down; an octet keeps its 256 values.  A   *)
(* real number, a character and a string are integers here: the number,    *)
(* the code of the character, the length of the string.                    *)
(***************************************************************************)
EXTENDS Integers

CONSTANT Half  (* half of the values of "octet", "short", "long", "longlong" *)

ASSUME HalfAssumption ==
  /\ Half \in [{"octet", "short", "long", "longlong"} -> Nat \ {0}]
  /\ Half["octet"] = 128
  /\ Half["octet"] <= Half["short"] /\ Half["short"] <= Half["long"]
  /\ Half["long"] <= Half["longlong"]

Signed == {"short", "long", "enum", "longlong"}
Unsigned == {"octet", "ushort", "ulong", "ulonglong"}
IntegerTypes == Signed \cup Unsigned
RealTypes == {"float", "double"}

(* The members a flat type may have, and the fields that may be read from  *)
(* text.                                                                   *)
MemberTypes == IntegerTypes \cup RealTypes \cup {"boolean", "char", "string"}
FieldTypes == (MemberTypes \ {"enum"}) \cup {"longdouble", "wchar", "wstring"}

HalfOf(type) ==
  CASE type = "octet" -> Half["octet"]
    [] type \in {"short", "ushort"} -> Half["short"]
    [] type \in {"long", "ulong", "enum"} -> Half["long"]
    [] type \in {"longlong", "ulonglong"} -> Half["longlong"]

Modulus(type) == 2 * HalfOf(type)

Values(type) ==
  IF type \in Signed THEN -HalfOf(type) .. HalfOf(type) - 1 ELSE 0 .. Modulus(type) - 1

(* A C cast to an integer type. *)
Cast(type, n) ==
  LET low == n % Modulus(type) IN
  IF type \in Signed /\ low >= HalfOf(type) THEN low - Modulus(type) ELSE low

-----------------------------------------------------------------------------
(* JSON: the parse function of a member takes one kind of value only.  An  *)
(* integer of the text is a long long, and is cast to the type of the      *)
(* member without a look at its range.                                     *)
KindOf(type) ==
  CASE type \in IntegerTypes -> "integer"
    [] type \in RealTypes -> "double"
    [] type = "boolean" -> "boolean"
    [] type \in {"char", "string"} -> "string"

LengthFits(member, length) ==
  /\ member.type = "string" => length <= member.max_len
  /\ member.type = "char" => length = 1

Accepts(member, json) ==
  /\ json.is = KindOf(member.type)
  /\ LengthFits(member, json.value)

NotCast(member, json) == json.value
MemberValue(member, json) ==
  IF member.type \in IntegerTypes THEN Cast(member.type, json.value) ELSE json.value

(* validate_output_type: a type that is not a struct of such members has   *)
(* no mapping; a serializer takes any type.                                *)
IsFlat(type) == type # {} /\ \A member \in type : member.type \in MemberTypes

-----------------------------------------------------------------------------
(* Fields: an octet is written in hexadecimal, every other integer in      *)
(* decimal, but all of them are read with base 0: without a prefix, in     *)
(* decimal up to the first character that is not a digit.                  *)
HexReadInDecimal(n) ==
  LET high == n \div 16
      low  == n % 16 IN
  CASE high > 9 \/ (high = 0 /\ low > 9) -> 0
    [] high \in 1 .. 9 /\ low > 9 -> high
    [] OTHER -> 10 * high + low

FieldText(type, value) == IF type = "octet" THEN HexReadInDecimal(value) ELSE value

(* strtol stays within a long; an unsigned type but the longest is read    *)
(* with strtoul.                                                           *)
Largest == Half["longlong"] - 1
ReadAsLong(n) == IF n > Largest THEN Largest ELSE n

(* A boolean is an unsigned char. *)
BooleanValue(n) == {Cast("octet", n)} \cap {0, 1}

(* A string is set from a null pointer; wide types are not read. *)
NeverRead == {"string", "longdouble", "wchar", "wstring"}

(* The value that is set, if any. *)
FieldValue(type, n) ==
  CASE type \in NeverRead -> {}
    [] type = "boolean" -> BooleanValue(n)
    [] type \in {"ushort", "ulong"} -> {Cast(type, n)}
    [] type \in IntegerTypes \ {"ushort", "ulong"} -> {Cast(type, ReadAsLong(n))}
    [] OTHER -> {n}

=============================================================================
