---------------------------- MODULE FreeVariables ----------------------------
(***************************************************************************)
(* FreeVariablesEngine: which types a free variable of the configuration   *)
(* may have and what its initial value, a text, is converted to.  The      *)
(* conversions of the C++ library are as wide as a word, wider than most   *)
(* types; the widths are scaled down.  <<>> stands for an exception.       *)
(***************************************************************************)
EXTENDS Integers

CONSTANTS
  Half,             (* half of how many numbers the integer types of a size *)
                    (* have: 2^(n - 1) for n bits *)
  WrittenNumbers    (* the whole numbers that texts write *)

Sizes == {8, 16, 32, 64}
ASSUME FreeVariablesAssumption ==
  /\ Half \in [Sizes -> Nat \ {0}]
  /\ \A size \in Sizes : Half[size] <= Half[64]
  /\ WrittenNumbers \subseteq Int

(* g_freeVariableTypeToBuiltInType. *)
UnsignedTypes == [type \in {"Byte", "UInt16", "UInt32", "UInt64"} |->
  CASE type = "Byte" -> 8 [] type = "UInt16" -> 16 [] type = "UInt32" -> 32 [] type = "UInt64" -> 64]
SignedTypes == [type \in {"SByte", "Int16", "Int32", "Int64"} |->
  CASE type = "SByte" -> 8 [] type = "Int16" -> 16 [] type = "Int32" -> 32 [] type = "Int64" -> 64]
IntegerTypes == DOMAIN UnsignedTypes \cup DOMAIN SignedTypes
FloatTypes == {"Float", "Double"}
SupportedTypes == {"Boolean", "String"} \cup IntegerTypes \cup FloatTypes

(* Texts: [kind, value].  "trailing" is a number with something behind it,
   "fraction" one with a decimal point, of which value is the whole part. *)
Text(kind) == [kind |-> kind, value |-> 0]
Absent == Text("absent")
Texts ==
  {Text(kind) : kind \in {"absent", "true", "false", "word"}}
    \cup {[kind |-> kind, value |-> n] : kind \in {"number", "trailing", "fraction"}, n \in WrittenNumbers}

-----------------------------------------------------------------------------
(* std::stol() and std::stoul(), which reads a minus sign as a negation in
   the arithmetic of the word. *)
Word == 2 * Half[64]
Stol(n)  == IF -Word <= 2 * n /\ 2 * n < Word THEN <<n>> ELSE <<>>
Stoul(n) == IF -Word < n /\ n < Word THEN <<n % Word>> ELSE <<>>

Least(type)    == IF type \in DOMAIN UnsignedTypes THEN 0 ELSE -Half[SignedTypes[type]]
Greatest(type) == IF type \in DOMAIN UnsignedTypes THEN 2 * Half[UnsignedTypes[type]] - 1
                  ELSE Half[SignedTypes[type]] - 1

(* veryIntelligentWrapperOfConversionFunctionWithRangeCheck(): the number is
   converted as a word; nothing may follow it, and it must fit. *)
WithRangeCheck(type, text) ==
  LET wide == IF type \in DOMAIN UnsignedTypes THEN Stoul(text.value) ELSE Stol(text.value) IN
  IF text.kind = "number" /\ wide # <<>> /\ Least(type) <= wide[1] /\ wide[1] <= Greatest(type) THEN wide ELSE <<>>

(* veryIntelligentWrapperOfConversionFunction(). *)
WithoutRangeCheck(text) == IF text.kind \in {"number", "fraction"} THEN <<text>> ELSE <<>>

InitializeIntegerNumeric(type, text) == IF text = Absent THEN <<0>> ELSE WithRangeCheck(type, text)
InitializeFloatingPointNumeric(text) == IF text = Absent THEN <<[text EXCEPT !.kind = "number"]>> ELSE WithoutRangeCheck(text)
InitializeBoolean(text) == IF text.kind \in {"absent", "true", "false"} THEN <<text.kind = "true">> ELSE <<>>

InitialValue(type, text) ==
  CASE type = "Boolean" -> InitializeBoolean(text)
    [] type \in IntegerTypes -> InitializeIntegerNumeric(type, text)
    [] type \in FloatTypes -> InitializeFloatingPointNumeric(text)
    [] type = "String" -> <<text>>
    [] type \notin SupportedTypes -> <<>>

(* Those the calculated variables may read. *)
Numeric(type) == type \in IntegerTypes \cup FloatTypes

-----------------------------------------------------------------------------
(* A number that is written, and that the type has, becomes the value; one the
   type does not have is refused, except that an unsigned type takes a negative
   number for its complement to the word, if it has that. *)
NumbersAreTaken ==
  \A type \in IntegerTypes, n \in WrittenNumbers :
    LET value == InitialValue(type, [kind |-> "number", value |-> n]) IN
    IF n \in Least(type) .. Greatest(type) THEN value = <<n>>
    ELSE value = <<>> \/ (type \in DOMAIN UnsignedTypes /\ n < 0 /\ value = <<n + Word>>)

=============================================================================
