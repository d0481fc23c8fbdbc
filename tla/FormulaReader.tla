---------------------------- MODULE FormulaReader ----------------------------
(***************************************************************************)
(* ParserTokenReader of muParser: which token may follow which.  A formula *)
(* is a sequence of tokens; the characters they are made of, strings and   *)
(* operators a user defines are left out (CalculatedVariable defines none).*)
(*                                                                         *)
(* The reader keeps the set of what may not come next (m_iSynFlags), the   *)
(* number of open brackets and the last token.                             *)
(***************************************************************************)
EXTENDS Integers, Sequences

CONSTANTS
  Literals,     (* the numbers of formulas, as a function from their text  *)
  Names,        (* of variables: the factory knows them all                *)
  Functions     (* name -> number of arguments, or -1 for any number       *)

Operators == {"<", "==", "+", "-", "*", "/", "^", "&&", "||", "="}
InfixOperators == {"-", "+"}
Tokens == DOMAIN Literals \cup Names \cup DOMAIN Functions \cup Operators \cup {"(", ")", ",", "?", ":"}

ASSUME ReaderAssumption ==
  /\ \A f \in DOMAIN Functions : Functions[f] \in Nat \cup {-1}
  /\ DOMAIN Literals \cap Names = {}
  /\ (DOMAIN Literals \cup Names) \cap DOMAIN Functions = {}
  /\ (DOMAIN Literals \cup Names \cup DOMAIN Functions)
       \cap (Operators \cup {"(", ")", ",", "?", ":"}) = {}

(* ESynCodes: what can be forbidden to come next. *)
SynCodes == {"BO", "BC", "VAL", "VAR", "ARG_SEP", "FUN", "OPT", "INFIXOP", "END", "ASSIGN", "IF", "ELSE"}
StartOfLine == {"OPT", "BC", "ASSIGN", "IF", "ELSE", "ARG_SEP"}

StartReading == [flags |-> StartOfLine, brackets |-> 0, last |-> "none"]

-----------------------------------------------------------------------------
(* What a token is read as.  A sign is an infix operator where no binary one
   may stand. *)
Code(r, tok) ==
  CASE tok \in DOMAIN Literals -> "VAL"
    [] tok \in Names -> "VAR"
    [] tok \in DOMAIN Functions -> "FUN"
    [] tok = "(" -> "BO"
    [] tok = ")" -> "BC"
    [] tok = "," -> "ARG_SEP"
    [] tok = "?" -> "IF"
    [] tok = ":" -> "ELSE"
    [] OTHER -> IF "OPT" \in r.flags /\ tok \in InfixOperators THEN "INFIXOP" ELSE "OPT"

(* The end of the text, where all brackets must be closed. *)
EndExpected(r) == "END" \notin r.flags /\ r.brackets = 0

(* Mutant: a variable may follow a closed bracket. *)
Expected_Lax(r, tok) ==
  /\ Code(r, tok) = "VAR" \/ Code(r, tok) \notin r.flags
  /\ tok = "=" => "ASSIGN" \notin r.flags
  /\ tok = ")" => r.brackets > 0

(* Mutant: the brackets are counted wrong by one. *)
Expected_Brackets(r, tok) ==
  /\ Code(r, tok) \notin r.flags
  /\ tok = "=" => "ASSIGN" \notin r.flags
  /\ tok = ")" => r.brackets > 1

(* No Error() for the token.  (The name of a function counts as one only in
   front of a bracket, and is a variable's otherwise.) *)
Expected(r, tok) ==
  /\ Code(r, tok) \notin r.flags
  /\ tok = "=" => "ASSIGN" \notin r.flags
  /\ tok = ")" => r.brackets > 0

(* What each kind of token forbids to follow it. *)
AfterValue       == {"VAL", "VAR", "FUN", "BO", "INFIXOP", "ASSIGN"}
AfterVariable    == {"VAL", "VAR", "FUN", "BO", "INFIXOP"}
AfterFunction    == SynCodes \ {"BO"}
AfterOpening(r)  == {"OPT", "END", "ARG_SEP", "ASSIGN", "IF", "ELSE"} \cup IF r.last = "FUN" THEN {} ELSE {"BC"}
AfterClosing     == {"BO", "VAR", "VAL", "FUN", "INFIXOP", "ASSIGN"}
AfterArgSep      == {"BC", "OPT", "END", "ARG_SEP", "ASSIGN"}
AfterConditional == {"BC", "END", "OPT", "IF", "ELSE"}
AfterOperator    == {"BC", "OPT", "ARG_SEP", "ASSIGN", "IF", "ELSE", "END"}
AfterInfix       == {"INFIXOP", "OPT", "BC", "ASSIGN"}

Follow(r, tok) ==
  LET code == Code(r, tok) IN
  CASE code = "VAL"     -> AfterValue
    [] code = "VAR"     -> AfterVariable
    [] code = "FUN"     -> AfterFunction
    [] code = "BO"      -> AfterOpening(r)
    [] code = "BC"      -> AfterClosing
    [] code = "ARG_SEP" -> AfterArgSep
    [] code = "OPT"     -> AfterOperator
    [] code = "INFIXOP" -> AfterInfix
    [] code \in {"IF", "ELSE"} -> AfterConditional

ReadNextToken(r, tok) ==
  [flags |-> Follow(r, tok),
   brackets |-> CASE tok = "(" -> r.brackets + 1 [] tok = ")" -> r.brackets - 1 [] OTHER -> r.brackets,
   last |-> Code(r, tok)]

=============================================================================
