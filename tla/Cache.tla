------------------------------- MODULE Cache -------------------------------
(***************************************************************************)
(* The conversions of the typed cache (pkg/cache): Set turns a value into  *)
(* a text, Get and GetDel turn the text into the type the reader asks for, *)
(* which need not be the writer's.                                         *)
(*                                                                         *)
(* Numbers are in halves, so that a float may hold one that is not whole;  *)
(* the rounding of floats is left out.  A text is a record of the form it  *)
(* has and of the value that determines its characters.                    *)
(***************************************************************************)
EXTENDS Integers

CONSTANT Bits           \* the width of each integer type

Signed == {"int", "int8", "int16", "int32", "int64"}

Unsigned == {"uint", "uint8", "uint16", "uint32", "uint64"}

Whole == Signed \union Unsigned

ASSUME BitsAssumption == Bits \in [Whole -> Nat \ {0}]

\* The numbers an integer type holds.
Holds(kind, n) ==
    IF kind \in Signed THEN -(2^(Bits[kind] - 1)) <= n /\ n < 2^(Bits[kind] - 1)
                       ELSE 0 <= n /\ n < 2^Bits[kind]

\* The halves that are a value of the type.
CanHold(kind, half) == kind = "float" \/ (half % 2 = 0 /\ Holds(kind, half \div 2))

\* convertNumberToStr: a number in decimal, as short as possible.
convertNumberToStr(half) == [form |-> "decimal", of |-> half]

\* Set's conversion of a value: a number, a text or bytes as they are, nil as the
\* empty text, and anything else (such as a pointer to an int) in msgpack.
Text(kind, value) ==
    CASE kind \in Whole \union {"float"} -> convertNumberToStr(value)
      [] kind \in {"string", "bytes"} -> [form |-> "text", of |-> value]
      [] kind = "nil" -> [form |-> "text", of |-> ""]
      [] kind = "pointer" -> [form |-> "msgpack", of |-> value]

\* msgpack writes a number from 0 to 127 as one byte, and 48 to 57 are digits.
IsDigit(text) == text.form = "msgpack" /\ text.of \in {2 * n : n \in 48..57}

\* The number that the characters of a text spell, as a set of at most one.
Spells(text) ==
    CASE text.form = "decimal" -> {text.of}
      [] text.form = "msgpack" -> IF IsDigit(text) THEN {text.of - 96} ELSE {}
      [] OTHER -> {}

\* convertStrToNumber: what the text spells, if the type holds it.
convertStrToNumber(kind, text) == {half \in Spells(text) : CanHold(kind, half)}

\* unmarshalCachedValue: the value a reader of a type is given, as a set of at most
\* one; none means that the reader is told the key was not found.
unmarshalCachedValue(kind, text) ==
    IF kind \in Whole \union {"float"} THEN convertStrToNumber(kind, text) ELSE {text.of}
===========================================================================
