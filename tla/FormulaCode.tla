----------------------------- MODULE FormulaCode -----------------------------
(***************************************************************************)
(* ParserByteCode of muParser and the machine that runs it.  A byte code   *)
(* [cmds, pos, max] is the list of commands, the height of the stack after *)
(* them as the compiler counts it, and the greatest such height.  AddOp()  *)
(* optimises as it goes: it looks at the last two commands only.           *)
(***************************************************************************)
EXTENDS FormulaNumbers, Sequences, SequencesExt

NoCode == [cmds |-> <<>>, pos |-> 0, max |-> 0]

(* ptr, data and data2 of a command that pushes ptr * data + data2. *)
Term(cmd, ptr, data, data2) == [cmd |-> cmd, ptr |-> ptr, data |-> data, data2 |-> data2]
NoPointer == "null"

Emit(c, cmd, pos) ==
  [cmds |-> Append(c.cmds, cmd), pos |-> pos, max |-> IF pos > c.max THEN pos ELSE c.max]

AddVar(c, v) == Emit(c, Term("VAR", v, Whole(1), Whole(0)), c.pos + 1)

(* Mutant: a number does not count for the size of the stack. *)
AddVal_NoMax(c, x) == [Emit(c, Term("VAL", NoPointer, Whole(0), x), c.pos + 1) EXCEPT !.max = c.max]
AddVal(c, x) == Emit(c, Term("VAL", NoPointer, Whole(0), x), c.pos + 1)
AddIfElse(c, cmd) == Emit(c, [cmd |-> cmd], c.pos)
AddAssignOp(c, v) == Emit(c, [cmd |-> "ASSIGN", ptr |-> v], c.pos - 1)
AddFun(c, f, argc) == Emit(c, [cmd |-> "FUN", name |-> f, argc |-> argc], c.pos - argc + 1)
AddBulkFun(c, f, argc) == Emit(c, [cmd |-> "FUNC_BULK", name |-> f, argc |-> argc], c.pos - argc + 1)
AddStrFun(c, f, argc) == Emit(c, [cmd |-> "FUNC_STR", name |-> f, argc |-> argc], c.pos - argc + 1)

-----------------------------------------------------------------------------
(* A whole part, as (int) makes it. *)
Truncated(x) == IF x[1] < 0 THEN -(-x[1] \div x[2]) ELSE x[1] \div x[2]

ConstantFolding(op, x, y) ==
  IF Undefined(x) \/ Undefined(y) THEN NotANumber
  ELSE CASE op = "&&" -> Truth(Truncated(x) # 0 /\ Truncated(y) # 0)
         [] op = "||" -> Truth(Truncated(x) # 0 \/ Truncated(y) # 0)
         [] OTHER -> Applied(op, x, y)

(* The pointers of two terms, or-ed bit by bit. *)
Either(t1, t2) == IF t1.ptr = NoPointer THEN t2.ptr ELSE t1.ptr

Are(t1, t2, cmd1, cmd2) == t1.cmd = cmd1 /\ t2.cmd = cmd2
OneVariable(t1, t2) == t1.ptr = t2.ptr

(* x + y and x - y of terms. *)
FoldSum(op, t1, t2) ==
  IF \/ Are(t1, t2, "VAL", "VAR") \/ Are(t1, t2, "VAR", "VAL")
     \/ Are(t1, t2, "VARMUL", "VAL") \/ Are(t1, t2, "VAL", "VARMUL")
     \/ {t1.cmd, t2.cmd} \subseteq {"VAR", "VARMUL"} /\ OneVariable(t1, t2)
  THEN <<Term("VARMUL", Either(t1, t2), Applied(op, t1.data, t2.data), Applied(op, t1.data2, t2.data2))>>
  ELSE <<>>

(* Mutant: the offset of a term is not multiplied. *)
FoldProduct_NoOffset(t1, t2) ==
  CASE Are(t1, t2, "VAL", "VAR") \/ Are(t1, t2, "VAR", "VAL") ->
         <<Term("VARMUL", Either(t1, t2), Plus(t1.data2, t2.data2), Whole(0))>>
    [] Are(t1, t2, "VARMUL", "VAL") -> <<Term("VARMUL", t1.ptr, Times(t1.data, t2.data2), t1.data2)>>
    [] Are(t1, t2, "VAL", "VARMUL") -> <<Term("VARMUL", t2.ptr, Times(t2.data, t1.data2), t2.data2)>>
    [] Are(t1, t2, "VAR", "VAR") /\ OneVariable(t1, t2) -> <<[t1 EXCEPT !.cmd = "VARPOW2"]>>
    [] OTHER -> <<>>

FoldProduct(t1, t2) ==
  CASE Are(t1, t2, "VAL", "VAR") \/ Are(t1, t2, "VAR", "VAL") ->
         <<Term("VARMUL", Either(t1, t2), Plus(t1.data2, t2.data2), Whole(0))>>
    [] Are(t1, t2, "VARMUL", "VAL") ->
         <<Term("VARMUL", t1.ptr, Times(t1.data, t2.data2), Times(t1.data2, t2.data2))>>
    [] Are(t1, t2, "VAL", "VARMUL") ->
         <<Term("VARMUL", t2.ptr, Times(t2.data, t1.data2), Times(t2.data2, t1.data2))>>
    [] Are(t1, t2, "VAR", "VAR") /\ OneVariable(t1, t2) -> <<[t1 EXCEPT !.cmd = "VARPOW2"]>>
    [] OTHER -> <<>>

FoldQuotient(t1, t2) ==
  IF Are(t1, t2, "VARMUL", "VAL") /\ ~IsZero(t2.data2)
  THEN <<Term("VARMUL", t1.ptr, Quotient(t1.data, t2.data2), Quotient(t1.data2, t2.data2))>>
  ELSE <<>>

PowerCommand == <<"none", "VARPOW2", "VARPOW3", "VARPOW4">>
FoldPower(t1, t2) ==
  IF Are(t1, t2, "VAR", "VAL") /\ \E n \in 2 .. 4 : Same(t2.data2, Whole(n))
  THEN <<[t1 EXCEPT !.cmd = PowerCommand[CHOOSE n \in 2 .. 4 : Same(t2.data2, Whole(n))]]>>
  ELSE <<>>

(* The one command that does what t1, t2 and the operator do, if there is one. *)
Folded(op, t1, t2) ==
  IF Are(t1, t2, "VAL", "VAL") THEN <<Term("VAL", NoPointer, Whole(0), ConstantFolding(op, t1.data2, t2.data2))>>
  ELSE CASE op \in {"+", "-"} -> FoldSum(op, t1, t2)
         [] op = "*" -> FoldProduct(t1, t2)
         [] op = "/" -> FoldQuotient(t1, t2)
         [] op = "^" -> FoldPower(t1, t2)
         [] OTHER -> <<>>

(* What is folded does not count: pos stays too high by one. *)
AddOp(c, op) ==
  LET n == Len(c.cmds)  folded == Folded(op, c.cmds[n - 1], c.cmds[n]) IN
  IF folded # <<>> THEN [c EXCEPT !.cmds = SubSeq(@, 1, n - 2) \o folded]
  ELSE Emit(c, [cmd |-> op], c.pos - 1)

-----------------------------------------------------------------------------
(* Finalize(): the jumps of "?" to its ":" and of ":" to the end of the
   conditional.  The command they belong to is found by counting. *)
Depth(cmds, i, opens, closes) ==
  Len(SelectSeq(SubSeq(cmds, 1, i), LAMBDA x : x.cmd = opens)) - Len(SelectSeq(SubSeq(cmds, 1, i), LAMBDA x : x.cmd = closes))

Target(cmds, i, opens, closes) ==
  CHOOSE j \in i + 1 .. Len(cmds) :
    /\ cmds[j].cmd = closes /\ Depth(cmds, j, opens, closes) = Depth(cmds, i, opens, closes) - 1
    /\ \A k \in i .. j - 1 : Depth(cmds, k, opens, closes) >= Depth(cmds, i, opens, closes)

Offset(cmds, i) == IF cmds[i].cmd = "IF" THEN Target(cmds, i, "IF", "ELSE") ELSE Target(cmds, i, "ELSE", "ENDIF")

-----------------------------------------------------------------------------
(* ParseCmdCodeBulk(): the machine.  env is what the variables hold; low and
   high are the least and the greatest index of the stack used.  A condition
   that is undefined makes the result so, and the machine stops. *)
Start(c, env) ==
  [pc |-> 1, sidx |-> 0, stack |-> [i \in 0 .. Len(c.cmds) + 1 |-> NotANumber], env |-> env,
   low |-> 0, high |-> 0, stopped |-> FALSE]

Put(m, at, x) == [m EXCEPT !.sidx = at, !.stack[at] = x]

Sum(args) == FoldLeft(Plus, Whole(0), args)

(* Functions of undefined numbers are undefined here, whatever C++ makes of
   them, and so are the functions a user defines. *)
FunctionOf(name, args) ==
  IF name = "-" THEN Negated(args[1])
  ELSE IF name = "+" THEN args[1]
  ELSE IF name = "user" \/ \E i \in DOMAIN args : Undefined(args[i]) THEN NotANumber
  ELSE CASE name = "abs"  -> Magnitude(args[1])
         [] name = "sign" -> SignOf(args[1])
         [] name = "rint" -> Rounded(args[1])
         [] name = "sum"  -> Sum(args)
         [] name = "avg"  -> Quotient(Sum(args), Whole(Len(args)))
         [] name = "min"  -> FoldLeft(LAMBDA x, y : IF Less(y, x) THEN y ELSE x, args[1], args)
         [] name = "max"  -> FoldLeft(LAMBDA x, y : IF Less(x, y) THEN y ELSE x, args[1], args)

Arguments(m, argc) == [i \in 1 .. argc |-> m.stack[m.sidx - argc + i]]

Pushed(m, t) ==
  LET x == IF t.cmd = "VAL" THEN t.data2 ELSE m.env[t.ptr] IN
  CASE t.cmd \in {"VAR", "VAL"} -> x
    [] t.cmd = "VARMUL" -> Applied("+", Applied("*", x, t.data), t.data2)
    [] t.cmd = "VARPOW2" -> Times(x, x)
    [] t.cmd = "VARPOW3" -> Times(x, Times(x, x))
    [] t.cmd = "VARPOW4" -> Times(Times(x, x), Times(x, x))

Command(c, m) ==
  LET t == c.cmds[m.pc]  top == m.stack[m.sidx] IN
  CASE t.cmd \in {"VAR", "VAL", "VARMUL", "VARPOW2", "VARPOW3", "VARPOW4"} -> Put(m, m.sidx + 1, Pushed(m, t))
    [] t.cmd = "ASSIGN" -> [Put(m, m.sidx - 1, top) EXCEPT !.env[t.ptr] = top]
    [] t.cmd = "IF" -> [m EXCEPT !.sidx = @ - 1, !.stopped = Undefined(top),
                                 !.pc = IF IsZero(top) THEN Offset(c.cmds, @) ELSE @]
    [] t.cmd = "ELSE" -> [m EXCEPT !.pc = Offset(c.cmds, @)]
    [] t.cmd = "ENDIF" -> m
    [] t.cmd \in {"FUN", "FUNC_BULK", "FUNC_STR"} ->
         Put(m, m.sidx - t.argc + 1, FunctionOf(t.name, Arguments(m, t.argc)))
    [] OTHER -> Put(m, m.sidx - 1, Applied(t.cmd, m.stack[m.sidx - 1], top))

Executed(c, m) ==
  LET n == Command(c, m) IN
  [n EXCEPT !.pc = @ + 1, !.low = IF n.sidx < @ THEN n.sidx ELSE @, !.high = IF n.sidx > @ THEN n.sidx ELSE @]

ResultAt(m, index) == IF m.stopped THEN NotANumber ELSE m.stack[index]

=============================================================================
