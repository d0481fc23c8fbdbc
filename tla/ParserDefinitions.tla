-------------------------- MODULE ParserDefinitions --------------------------
(***************************************************************************)
(* ParserBase of muParser around a formula: the tables of what a formula   *)
(* may name, the byte code made of the formula, and m_pParseFormula, which *)
(* says whether Eval() compiles or runs what was compiled before.          *)
(*                                                                         *)
(* A formula matters here by one name and the place it stands in: alone,   *)
(* in front of its arguments in brackets, in front of a number, behind one *)
(* or between two.  An argument is a number, a quoted string or a name     *)
(* without a dot; a name with one is in no operator's place.               *)
(* An operation that throws changes nothing and is no step.                *)
(***************************************************************************)
EXTENDS FormulaCode, FiniteSets

CONSTANTS
  Identifiers,     (* what definitions and formulas name                   *)
  NameLike,        (* those made of the default name characters            *)
  DottedNames,     (* those that need the "." CalculatedVariable allows    *)
  OperatorLike,    (* those made of m_sOprtChars                           *)
  InfixLike,       (* those made of m_sInfixOprtChars                      *)
  BuiltIn,         (* those in c_DefaultOprt                               *)
  MaxDefinitions   (* bound: definitions made after the constructor        *)


VARIABLES
  defs,       (* m_FunDef, m_OprtDef, ...: [table, name, as, by] records   *)
  made,       (* how many definitions were made                            *)
  dots,       (* whether m_sNameChars has the "."                          *)
  builtin,    (* m_bBuiltInOp                                              *)
  factory,    (* whether m_pFactory is set                                 *)
  expr,       (* m_strFormula: a use, or NoFormula                         *)
  mode,       (* m_pParseFormula: "string" or "code"                       *)
  code        (* m_vRPN: the definitions it was made with, or NoRpn        *)

parser == <<defs, made, dots, builtin, factory, expr, mode, code>>

NoFormula == [place |-> "none"]
NoRpn == <<>>
Number == "1"
Quoted == "'text'"
Lists == {<<Quoted, Number>>} \cup {<<x>> : x \in {Number, Quoted} \cup NameLike}
Uses ==
  {[place |-> "alone", name |-> n, args |-> <<>>] : n \in Identifiers}
  \cup {[place |-> place, name |-> n, args |-> <<>>] :
          place \in {"prefix", "suffix", "between"}, n \in OperatorLike \cup InfixLike \cup BuiltIn}
  \cup {[place |-> "call", name |-> n, args |-> args] : n \in Identifiers, args \in Lists}

NameTokens == NameLike \cup IF dots THEN DottedNames ELSE {}

-----------------------------------------------------------------------------
(* ParserCallback: what the parser knows of a C++ function by its type.  A
   negative argc admits any number of arguments. *)
Callback(kind, argc, priority, associativity) ==
  [code |-> kind, argc |-> argc, pri |-> priority, asct |-> associativity]

NumericCallback(n) == Callback("FUNC", n, -1, "none")
BulkCallback(n)    == Callback("FUNC_BULK", n, -1, "none")
MultiArgCallback   == Callback("FUNC", -1, -1, "none")
StringCallback(n)  == Callback("FUNC_STR", n, -1, "none")
UnaryCallback(kind, priority) == Callback(kind, 1, priority, "none")
BinaryCallback(priority, associativity) == Callback("OPRT_BIN", 2, priority, associativity)

(* ParserToken: a token without a callback. *)
SetVal    == Callback("VAL", 0, -1, "none")
SetVar    == Callback("VAR", 0, -1, "none")
SetString == Callback("STRING", 0, -1, "none")
GetType(tok) == IF tok.code \in {"STRING", "FUNC_STR"} THEN "STR" ELSE "DBL"

(* A string function takes its string first; argc counts what follows. *)
TakesString(f, args) == args # <<>> /\ GetType(args[1]) = "STR"

(* Whether a function or an operator can be applied to the tokens. *)
Takes(f, args) ==
  LET strings == IF GetType(f) = "STR" THEN 1 ELSE 0 IN
  /\ f.argc >= 0 => Len(args) = f.argc + strings
  /\ f.argc = -1 => args # <<>>
  /\ strings = 1 => TakesString(f, args)
  /\ \A i \in strings + 1 .. Len(args) : GetType(args[i]) = "DBL"

-----------------------------------------------------------------------------
Defined(table, n) == \E d \in defs : d.table = table /\ d.name = n
Definition(table, n) == CHOOSE d \in defs : d.table = table /\ d.name = n

(* What the constructor defines, as far as the identifiers go. *)
DefaultFunctions ==
  [f \in {"sin", "cos", "tan", "asin", "acos", "atan", "sinh", "cosh", "tanh", "asinh", "acosh", "atanh",
          "log2", "log10", "log", "ln", "exp", "sqrt", "sign", "rint", "abs", "atan2", "sum", "avg", "min", "max"} |->
     CASE f \in {"sum", "avg", "min", "max"} -> MultiArgCallback
       [] f = "atan2" -> NumericCallback(2)
       [] OTHER -> NumericCallback(1)]
DefaultConstants == {"_pi", "_e"}
DefaultInfix == {"-", "+"}

(* What the names are says which characters they are made of; a number and a
   quoted string are no names. *)
ASSUME IdentifiersAssumption ==
  /\ NameLike \cup DottedNames \cup OperatorLike \cup InfixLike \cup BuiltIn \subseteq Identifiers
  /\ (NameLike \cup DottedNames) \cap (BuiltIn \cup {Number, Quoted}) = {}
  /\ (DOMAIN DefaultFunctions \cup DefaultConstants) \cap Identifiers \subseteq NameLike
  /\ DefaultInfix \cap Identifiers \subseteq InfixLike
  /\ MaxDefinitions \in Nat

PrInfix == 6
PrPostfix == 6
Default(table, names, as(_)) == {[table |-> table, name |-> n, as |-> as(n), by |-> 0] : n \in names \cap Identifiers}

ParserBase ==
  /\ made = 0 /\ dots = FALSE /\ builtin = TRUE /\ factory = FALSE
  /\ expr = NoFormula /\ mode = "string" /\ code = NoRpn

InitParser ==
  /\ ParserBase
  /\ defs = Default("FunDef", DOMAIN DefaultFunctions, LAMBDA f : DefaultFunctions[f])
              \cup Default("ConstDef", DefaultConstants, LAMBDA c : SetVal)
              \cup Default("InfixOprtDef", DefaultInfix, LAMBDA o : UnaryCallback("OPRT_INFIX", PrInfix))

-----------------------------------------------------------------------------
(* ReadNextToken() tries one kind of token after the other: what a name is
   read as.  [table |-> "refused"] is a ParserError. *)
Refused == [table |-> "refused"]
Variable(n) == [table |-> "VarDef", name |-> n, as |-> SetVar, by |-> -1]

UserOperator(n) == n \in OperatorLike /\ ~(builtin /\ n \in BuiltIn) /\ Defined("OprtDef", n)
BuiltInOperator(n) == builtin /\ n \in BuiltIn
IsFunTok(n, bracket) == bracket /\ n \in NameTokens /\ Defined("FunDef", n)
IsStrVarTok(n) == Defined("StrVarDef", n)
Infix(n) == IF Defined("InfixOprtDef", n) THEN Definition("InfixOprtDef", n) ELSE Refused

(* At the beginning, where no binary operator may stand.  (lenient: the
   variable factory or IgnoreUndefVar() lets an unknown name pass.) *)
FirstToken(n, bracket, lenient) ==
  IF UserOperator(n) /\ Defined("InfixOprtDef", n) THEN Infix(n)
  ELSE IF IsFunTok(n, bracket) THEN Definition("FunDef", n)
  ELSE IF BuiltInOperator(n) THEN Infix(n)
  ELSE IF Defined("ConstDef", n) THEN Definition("ConstDef", n)
  ELSE IF Defined("VarDef", n) THEN Definition("VarDef", n)
  ELSE IF IsStrVarTok(n) THEN Definition("StrVarDef", n)
  ELSE IF n \in InfixLike /\ Defined("InfixOprtDef", n) THEN Infix(n)
  ELSE IF lenient /\ n \in NameTokens THEN Variable(n)
  ELSE Refused

(* Behind a number, where no operand may stand. *)
SecondToken(n) ==
  IF UserOperator(n) THEN Definition("OprtDef", n)
  ELSE IF BuiltInOperator(n) THEN [table |-> "built in", name |-> n]
  ELSE IF Defined("ConstDef", n) \/ Defined("VarDef", n) \/ IsStrVarTok(n) THEN Refused
  ELSE IF n \in InfixLike /\ Defined("InfixOprtDef", n) THEN Refused
  ELSE IF Defined("PostOprtDef", n) THEN Definition("PostOprtDef", n)
  ELSE Refused

Token(use, lenient) ==
  IF use.place \in {"suffix", "between"} THEN SecondToken(use.name)
  ELSE FirstToken(use.name, use.place = "call", lenient)

(* The tokens between the brackets. *)
Argument(x, lenient) ==
  CASE x = Number -> [table |-> "number", as |-> SetVal]
    [] x = Quoted -> [table |-> "quoted", as |-> SetString]
    [] OTHER -> FirstToken(x, FALSE, lenient)
Given(use, lenient) == [i \in DOMAIN use.args |-> Argument(use.args[i], lenient)]
Operands == {"number", "quoted", "ConstDef", "VarDef", "StrVarDef"}

(* Whether what follows the name is allowed after it.  (Brackets are never
   empty here.) *)
Opens(d) == d.table \in {"FunDef", "InfixOprtDef"}
Fits(use, d, args) ==
  CASE use.place = "alone" -> d.table \in {"ConstDef", "VarDef"}
    [] use.place = "call" -> /\ Opens(d) /\ \A i \in DOMAIN args : args[i].table \in Operands
                             /\ Takes(d.as, [i \in DOMAIN args |-> args[i].as])
    [] use.place = "prefix" -> d.table = "InfixOprtDef"
    [] use.place = "suffix" -> d.table = "PostOprtDef"
    [] use.place = "between" -> d.table \in {"OprtDef", "built in"}

(* CreateRPN(): the definitions the byte code is made of, or NoRpn where it
   throws. *)
Compiled(use, lenient) ==
  IF use = NoFormula THEN NoRpn
  ELSE LET d == Token(use, lenient)  args == Given(use, lenient) IN
       IF Fits(use, d, args) THEN <<d>> \o args ELSE NoRpn

(* IsUndefVarTok() puts the variables the factory made into m_VarDef, even if
   the formula is refused further on. *)
TokensRead == LET d == Token(expr, TRUE) IN <<d>> \o IF Opens(d) THEN Given(expr, TRUE) ELSE <<>>
CreatedVariables ==
  IF expr # NoFormula /\ factory
  THEN {Variable(n) : n \in {m \in Identifiers : \E i \in DOMAIN TokensRead : TokensRead[i] = Variable(m)}}
  ELSE {}

(* The commands for a use whose definitions are known.  A string is in
   m_vStringBuf and on no stack. *)
AddOperand(c, tok) ==
  CASE tok.table = "VarDef" -> AddVar(c, tok.name)
    [] tok.as.code = "STRING" -> c
    [] OTHER -> AddVal(c, Whole(1))

AddCall(c, d, args) ==
  IF d.table = "built in" THEN AddOp(c, d.name)
  ELSE CASE d.as.code = "FUNC_BULK" -> AddBulkFun(c, "user", args)
         [] d.as.code = "FUNC_STR" -> AddStrFun(c, "user", args - 1)
         [] OTHER -> AddFun(c, "user", args)

ByteCode(use, tokens) ==
  LET one == Argument(Number, FALSE)
      operands == CASE use.place = "alone" -> tokens
                    [] use.place = "call" -> Tail(tokens)
                    [] use.place = "between" -> <<one, one>>
                    [] OTHER -> <<one>>
      pushed == FoldLeft(AddOperand, NoCode, operands)
  IN  IF use.place = "alone" THEN pushed ELSE AddCall(pushed, tokens[1], Len(operands))

-----------------------------------------------------------------------------
ReInit == mode' = "string" /\ code' = NoRpn
Define(table, n, as) ==
  /\ made < MaxDefinitions /\ made' = made + 1
  /\ defs' = {d \in defs : ~(d.table = table /\ d.name = n)}
               \cup {[table |-> table, name |-> n, as |-> as, by |-> made + 1]}
  /\ UNCHANGED <<dots, builtin, factory, expr>>

(* Mutant: operators are not looked up among the functions. *)
Conflicting_Operators(table) ==
  CASE table = "FunDef" -> {"PostOprtDef", "InfixOprtDef", "OprtDef"}
    [] table = "PostOprtDef" -> {"InfixOprtDef", "OprtDef"}
    [] table \in {"InfixOprtDef", "OprtDef"} -> {"PostOprtDef"}

(* The tables a callback's name must not be in. *)
Conflicting(table) ==
  CASE table = "FunDef" -> {"PostOprtDef", "InfixOprtDef", "OprtDef"}
    [] table = "PostOprtDef" -> {"FunDef", "InfixOprtDef", "OprtDef"}
    [] table \in {"InfixOprtDef", "OprtDef"} -> {"FunDef", "PostOprtDef"}

(* (No identifier is empty or begins with a digit: those are refused too.) *)
CheckName(n, charset) == n \in charset

AddCallback(table, n, callback, charset) ==
  /\ \A other \in Conflicting(table) : ~Defined(other, n)
  /\ CheckName(n, charset)
  /\ Define(table, n, callback) /\ ReInit

DefineFun(n, callback) == AddCallback("FunDef", n, callback, NameTokens)
DefinePostfixOprt(n) == AddCallback("PostOprtDef", n, UnaryCallback("OPRT_POSTFIX", PrPostfix), OperatorLike)
DefineInfixOprt(n) == AddCallback("InfixOprtDef", n, UnaryCallback("OPRT_INFIX", PrInfix), InfixLike)
DefineOprt(n) ==
  /\ ~BuiltInOperator(n)
  /\ AddCallback("OprtDef", n, BinaryCallback(0, "left"), OperatorLike)

DefineVar(n) ==
  /\ ~Defined("ConstDef", n) /\ CheckName(n, NameTokens)
  /\ Define("VarDef", n, SetVar) /\ ReInit
DefineConst(n) == CheckName(n, NameTokens) /\ Define("ConstDef", n, SetVal) /\ ReInit
DefineStrConst(n) == ~Defined("StrVarDef", n) /\ CheckName(n, NameTokens) /\ Define("StrVarDef", n, SetString) /\ ReInit

(* Mutant: the byte code goes on with the variable that was removed. *)
RemoveVar_KeepCode(n) ==
  /\ Defined("VarDef", n)
  /\ defs' = defs \ {Definition("VarDef", n)}
  /\ UNCHANGED <<made, dots, builtin, factory, expr, mode, code>>

RemoveVar(n) ==
  /\ Defined("VarDef", n)
  /\ defs' = defs \ {Definition("VarDef", n)}
  /\ ReInit /\ UNCHANGED <<made, dots, builtin, factory, expr>>

Clear(tables) ==
  /\ defs' = {d \in defs : d.table \notin tables}
  /\ ReInit /\ UNCHANGED <<made, dots, builtin, factory, expr>>
ClearVar == Clear({"VarDef"})
ClearFun == Clear({"FunDef"})
ClearConst == Clear({"ConstDef", "StrVarDef"})
ClearPostfixOprt == Clear({"PostOprtDef"})
ClearOprt == Clear({"OprtDef"})
ClearInfixOprt == Clear({"InfixOprtDef"})

-----------------------------------------------------------------------------
(* (Texts with characters the parser does not take are left out.) *)
SetExpr(use) ==
  /\ \A n \in {use.name} \cup {use.args[i] : i \in DOMAIN use.args} :
       n \in {Number, Quoted} \cup NameTokens \cup OperatorLike \cup InfixLike
  /\ expr' = use /\ ReInit
  /\ UNCHANGED <<defs, made, dots, builtin, factory>>

EnableBuiltInOprt(on) ==
  /\ builtin' = on /\ ReInit
  /\ UNCHANGED <<defs, made, dots, factory, expr>>

EnableOptimizer == ReInit /\ UNCHANGED <<defs, made, dots, builtin, factory, expr>>

(* These two do not reset the parser.  (DefineNameChars() is only ever called
   to allow more.) *)
DefineNameChars ==
  /\ dots' = TRUE
  /\ UNCHANGED <<defs, made, builtin, factory, expr, mode, code>>
SetVarFactory ==
  /\ factory' = TRUE
  /\ UNCHANGED <<defs, made, dots, builtin, expr, mode, code>>

(* Assign(): the copy has everything but the byte code. *)
Copy == ReInit /\ UNCHANGED <<defs, made, dots, builtin, factory, expr>>

Compile(keep, lenient) ==
  /\ defs' = defs \cup CreatedVariables
  /\ code' = Compiled(expr, lenient)
  /\ mode' = IF keep /\ code' # NoRpn THEN "code" ELSE "string"
  /\ UNCHANGED <<made, dots, builtin, factory, expr>>

(* Eval() with m_pParseFormula at ParseString(); with ParseCmdCode() it runs
   the byte code and changes nothing here. *)
Eval == mode = "string" /\ Compile(TRUE, factory)

(* Bulk mode compiles each time and leaves the parser at ParseString(); so
   does GetUsedVar(), which takes unknown names for variables. *)
EvalBulk == Compile(FALSE, factory)
GetUsedVar == Compile(FALSE, TRUE)

DefineSomething(n) ==
  \/ \E callback \in {NumericCallback(1), BulkCallback(1), StringCallback(0), StringCallback(1)} : DefineFun(n, callback)
  \/ DefinePostfixOprt(n) \/ DefineInfixOprt(n) \/ DefineOprt(n)
  \/ DefineVar(n) \/ DefineConst(n) \/ DefineStrConst(n)

ParserNext ==
  \/ \E n \in Identifiers : DefineSomething(n) \/ RemoveVar(n)
  \/ \E use \in Uses : SetExpr(use)
  \/ ClearVar \/ ClearFun \/ ClearConst \/ ClearPostfixOprt \/ ClearOprt \/ ClearInfixOprt
  \/ \E on \in BOOLEAN : EnableBuiltInOprt(on)
  \/ EnableOptimizer \/ DefineNameChars \/ SetVarFactory \/ Copy
  \/ Eval \/ EvalBulk \/ GetUsedVar

ParserSpec == InitParser /\ [][ParserNext]_parser

-----------------------------------------------------------------------------
(* Eval() never runs byte code that was made with other definitions than those
   the tables hold now: whatever is defined, removed, switched or set, the
   formula is read again when that could make a difference
   (muParser.cpp:249-256, "Reset parser to string parsing mode"). *)
CodeIsCurrent == mode = "code" => code = Compiled(expr, factory)

CompiledUse(place, n, args) == Compiled([place |-> place, name |-> n, args |-> args], factory)
IsReadIn(d, place) == CompiledUse(place, d.name, <<>>) = <<d>>
IsCalledWith(d, args) == LET found == CompiledUse("call", d.name, args) IN found # NoRpn /\ found[1] = d
IsCalledAsDefined(d) ==
  IF d.as.code = "FUNC_STR"
  THEN IsCalledWith(d, IF d.as.argc = 0 THEN <<Quoted>> ELSE <<Quoted, Number>>) /\ ~IsCalledWith(d, <<Number>>)
  ELSE IF d.as.argc \in {1, -1} THEN IsCalledWith(d, <<Number>>) /\ ~IsCalledWith(d, <<Quoted>>)
  ELSE ~IsCalledWith(d, <<Number>>)

(* A function, an operator or a string whose definition was accepted is what a
   formula gets in the place of that name, with the arguments it takes and no
   others.  Only a constant, a variable or a string of the same name hides a
   unary operator, and only an operator of both kinds, a constant or a variable
   hides an operand (muParser.cpp:339-363, 6741-6784). *)
CallbacksAreRead ==
  \A d \in defs :
    LET n == d.name
        operand == \E table \in {"ConstDef", "VarDef", "StrVarDef"} : Defined(table, n)
        operator == Defined("InfixOprtDef", n) /\ Defined("OprtDef", n)
    IN  CASE d.table = "FunDef" -> IsCalledAsDefined(d)
          [] d.table = "OprtDef" -> BuiltInOperator(n) \/ IsReadIn(d, "between")
          [] d.table = "PostOprtDef" -> operand \/ BuiltInOperator(n) \/ IsReadIn(d, "suffix")
          [] d.table = "InfixOprtDef" -> operand \/ (IsReadIn(d, "prefix") /\ IsCalledWith(d, <<Number>>))
          [] d.table = "ConstDef" -> operator \/ IsReadIn(d, "alone")
          [] d.table = "VarDef" -> operator \/ Defined("ConstDef", n) \/ IsReadIn(d, "alone")
          [] d.table = "StrVarDef" ->
               \/ operator \/ Defined("ConstDef", n) \/ Defined("VarDef", n)
               \/ \A f \in defs : f.as = StringCallback(0) => CompiledUse("call", f.name, <<n>>) = <<f, d>>

=============================================================================
