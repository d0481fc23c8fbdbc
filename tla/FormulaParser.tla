---------------------------- MODULE FormulaParser ----------------------------
(***************************************************************************)
(* ParserBase::CreateRPN() of muParser: a formula is compiled token by     *)
(* token, with a stack of operators, a stack of values (of which only      *)
(* matters whether they are variables), a stack that counts arguments and  *)
(* the byte code, which is run once the formula has been accepted.         *)
(* CalculatedVariable gives each formula to a parser of its own.           *)
(*                                                                         *)
(* The formula is not known beforehand here: each step chooses the token   *)
(* that comes next, from a vocabulary and up to a length.                  *)
(***************************************************************************)
EXTENDS FormulaReader, FormulaCode

CONSTANT Vocabularies   (* [tokens, length] records; one bounds a behaviour *)

VARIABLES
  vocabulary,   (* the bound chosen *)
  text,         (* the tokens read, and the one that was refused *)
  reader,       (* m_pTokenReader *)
  rpn,          (* stOpt, stVal, stArgCount, m_nIfElseCounter, m_vRPN, opta *)
  status        (* "reading", "accepted", or "rejected": a ParserError *)

vars == <<vocabulary, text, reader, rpn, status>>

ASSUME VocabulariesAssumption ==
  \A v \in Vocabularies : v.length \in Nat /\ v.tokens \subseteq Tokens

Value == "value"
StartCompiling ==
  [opt |-> <<>>, val |-> <<>>, argc |-> <<1>>, ifs |-> 0, code |-> NoCode, last |-> "none", error |-> FALSE]

Init ==
  /\ vocabulary \in Vocabularies
  /\ text = <<>> /\ reader = StartReading /\ rpn = StartCompiling /\ status = "reading"

-----------------------------------------------------------------------------
(* The operators on the stack: [code, name]. *)
Precedence(o) ==
  IF o.code = "INFIXOP" THEN 6
  ELSE CASE o.code = "IF" -> 0
         [] o.name = "="  -> -1
         [] o.name = "||" -> 1
         [] o.name = "&&" -> 2
         [] o.name \in {"<", "=="} -> 4
         [] o.name \in {"+", "-"} -> 5
         [] o.name \in {"*", "/"} -> 6
         [] o.name = "^"  -> 7

Pop(stack, n) == SubSeq(stack, 1, Len(stack) - n)
Error(s) == [s EXCEPT !.error = TRUE]
TopIs(s, codes) == s.opt # <<>> /\ Last(s.opt).code \in codes
BelowTop(s) == s.opt[Len(s.opt) - 1]

ApplyFunc(s, argc) ==
  LET f == Last(s.opt)
      required == IF f.code = "INFIXOP" THEN 1 ELSE Functions[f.name]
  IN  IF \/ required >= 0 /\ argc # required
         \/ required = -1 /\ argc = 0
         \/ argc > Len(s.val)
      THEN Error(s)
      ELSE [s EXCEPT !.opt = Pop(@, 1), !.val = Append(Pop(@, argc), Value), !.code = AddFun(@, f.name, argc)]

(* (The value of the branch taken stays; nothing tells it from the other's.) *)
ApplyIfElse(s) ==
  IF Len(s.opt) < 2 \/ Len(s.val) < 3 THEN Error(s)
  ELSE IF BelowTop(s).code # "IF" THEN Error(s)
  ELSE [s EXCEPT !.opt = Pop(@, 2), !.val = Pop(@, 2), !.code = AddIfElse(@, "ENDIF")]

ApplyBinOprt(s) ==
  LET o == Last(s.opt)  target == s.val[Len(s.val) - 1] IN
  IF Len(s.val) < 2 THEN Error(s)
  ELSE IF o.name = "=" /\ target = Value THEN Error(s)
  ELSE [s EXCEPT !.opt = Pop(@, 1), !.val = Append(Pop(@, 2), Value),
                 !.code = IF o.name = "=" THEN AddAssignOp(@, target) ELSE AddOp(@, o.name)]

Apply(s) ==
  CASE TopIs(s, {"INFIXOP"}) -> ApplyFunc(s, 1)
    [] TopIs(s, {"OPT"})     -> ApplyBinOprt(s)
    [] TopIs(s, {"ELSE"})    -> ApplyIfElse(s)
    [] OTHER                 -> Error(s)

RECURSIVE ApplyRemainingOprt(_)
ApplyRemainingOprt(s) ==
  IF s.error \/ s.opt = <<>> \/ TopIs(s, {"BO", "IF"}) THEN s ELSE ApplyRemainingOprt(Apply(s))

(* An operator on the stack waits for one that binds closer.  "^" waits for "^". *)
Waits(o, next) ==
  \/ Precedence(o) < Precedence(next)
  \/ o.name = "^" /\ next.name = "^"

RECURSIVE ApplyBefore(_, _)
ApplyBefore(s, next) ==
  IF \/ s.error \/ s.opt = <<>> \/ TopIs(s, {"BO", "ELSE", "IF"})
  THEN s
  ELSE IF Waits(Last(s.opt), next) THEN s ELSE ApplyBefore(Apply(s), next)

-----------------------------------------------------------------------------
(* The cases of the loop. *)
Operator(tok) == [code |-> Code(reader, tok), name |-> tok]

Operand(s, tok) ==
  IF tok \in Names THEN [s EXCEPT !.val = Append(@, tok), !.code = AddVar(@, tok)]
                   ELSE [s EXCEPT !.val = Append(@, Value), !.code = AddVal(@, Literals[tok])]

Else(s, tok) ==
  LET applied == ApplyRemainingOprt(s) IN
  IF s.ifs = 0 THEN Error(s)
  ELSE [applied EXCEPT !.ifs = @ - 1, !.code = AddIfElse(@, "ELSE"), !.opt = Append(@, Operator(tok))]

Separator(s) == ApplyRemainingOprt([s EXCEPT !.argc[Len(s.argc)] = @ + 1])

(* A bracket that closes inside a conditional stays open. *)
Close(s) ==
  LET applied == ApplyRemainingOprt(IF s.last = "BO" THEN [s EXCEPT !.argc[Len(s.argc)] = @ - 1] ELSE s)
      closed  == [applied EXCEPT !.opt = Pop(@, 1), !.argc = Pop(@, 1)]
      argc    == Last(applied.argc)
  IN  IF applied.error \/ ~TopIs(applied, {"BO"}) THEN applied
      ELSE IF TopIs(closed, {"FUN"}) THEN ApplyFunc(closed, argc)
      ELSE IF argc > 1 THEN Error(closed) ELSE closed

Binary(s, tok) ==
  LET applied == ApplyBefore(s, Operator(tok))
      opened  == IF tok = "?" THEN [applied EXCEPT !.ifs = @ + 1, !.code = AddIfElse(@, "IF")] ELSE applied
  IN  [opened EXCEPT !.opt = Append(@, Operator(tok))]

Open(s, tok) == [s EXCEPT !.argc = Append(@, 1), !.opt = Append(@, Operator(tok))]
Prefix(s, tok) == [s EXCEPT !.opt = Append(@, Operator(tok))]

End(s) ==
  LET applied == ApplyRemainingOprt(s) IN
  IF s.ifs > 0 \/ Len(applied.argc) # 1 \/ Last(applied.argc) = 0 \/ applied.val = <<>>
  THEN Error(applied) ELSE applied

-----------------------------------------------------------------------------
Reject(tok) ==
  /\ text' = Append(text, tok) /\ status' = "rejected"
  /\ reader' = StartReading /\ rpn' = StartCompiling
  /\ UNCHANGED vocabulary

Continue(tok, s) ==
  IF s.error THEN Reject(tok)
  ELSE /\ text' = Append(text, tok) /\ reader' = ReadNextToken(reader, tok)
       /\ rpn' = [s EXCEPT !.last = Code(reader, tok)]
       /\ UNCHANGED <<vocabulary, status>>

Read(tok, codes) ==
  /\ status = "reading" /\ Len(text) < vocabulary.length
  /\ Code(reader, tok) \in codes /\ Expected(reader, tok)

ReadOperand(tok)   == Read(tok, {"VAL", "VAR"})     /\ Continue(tok, Operand(rpn, tok))
ReadElse(tok)      == Read(tok, {"ELSE"})           /\ Continue(tok, Else(rpn, tok))
ReadSeparator(tok) == Read(tok, {"ARG_SEP"})        /\ Continue(tok, Separator(rpn))
ReadClose(tok)     == Read(tok, {"BC"})             /\ Continue(tok, Close(rpn))
ReadBinary(tok)    == Read(tok, {"IF", "OPT"})      /\ Continue(tok, Binary(rpn, tok))
ReadOpen(tok)      == Read(tok, {"BO"})             /\ Continue(tok, Open(rpn, tok))
ReadPrefix(tok)    == Read(tok, {"INFIXOP", "FUN"}) /\ Continue(tok, Prefix(rpn, tok))

(* The reader throws. *)
Refuse(tok) ==
  /\ status = "reading" /\ Len(text) < vocabulary.length /\ ~Expected(reader, tok)
  /\ Reject(tok)

ReadEnd ==
  /\ status = "reading"
  /\ LET s == End(rpn) IN
     IF ~EndExpected(reader) \/ s.error THEN Reject("end")
     ELSE /\ status' = "accepted" /\ rpn' = s
          /\ UNCHANGED <<vocabulary, text, reader>>

Next ==
  \/ ReadEnd
  \/ \E tok \in vocabulary.tokens :
       \/ ReadOperand(tok) \/ ReadElse(tok) \/ ReadSeparator(tok) \/ ReadClose(tok)
       \/ ReadBinary(tok) \/ ReadOpen(tok) \/ ReadPrefix(tok) \/ Refuse(tok)

Spec == Init /\ [][Next]_vars

=============================================================================
