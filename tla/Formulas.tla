------------------------------ MODULE Formulas ------------------------------
(***************************************************************************)
(* The parser of formulas against their grammar: which texts it takes, and *)
(* what the byte code it makes of them computes; and the tables of names   *)
(* the parser reads them with.                                             *)
(***************************************************************************)
EXTENDS FormulaParser, FormulaGrammar, ParserDefinitions

CONSTANT Environments   (* what variables may hold when a formula is evaluated *)

AnyLiteral == CHOOSE x \in DOMAIN Literals : TRUE

RECURSIVE Run(_, _)
Run(c, m) == IF m.stopped \/ m.pc > Len(c.cmds) THEN m ELSE Run(c, Executed(c, m))
Outcome(env) == Run(rpn.code, Start(rpn.code, env))

(* Either a text is read with the definitions the constructor made, or, with an
   empty vocabulary, the definitions change with no text in the parser but the
   one name.  The order of tokens and what is behind a name do not depend on
   one another. *)
FormulasInit == Init /\ InitParser
FormulasNext ==
  \/ vocabulary.tokens # {} /\ Next /\ UNCHANGED parser
  \/ vocabulary.tokens = {} /\ ParserNext /\ UNCHANGED vars
FormulasSpec == FormulasInit /\ [][FormulasNext]_<<vars, parser>>

-----------------------------------------------------------------------------
(* The stacks hold what they are for; there is a counter of arguments for
   each bracket that was opened outside a conditional and for the whole, and
   no token is refused once the formula has ended. *)
TypeOK ==
  /\ vocabulary \in Vocabularies
  /\ text \in Seq(Tokens \cup {"end"})
  /\ status \in {"reading", "accepted", "rejected"}
  /\ reader.flags \subseteq SynCodes /\ reader.brackets \in Nat
  /\ rpn.ifs \in Nat /\ ~rpn.error
  /\ \A i \in DOMAIN rpn.argc : rpn.argc[i] \in Nat
  /\ \A i \in DOMAIN rpn.val : rpn.val[i] \in Names \cup {Value}

(* CreateRPN() takes only formulas: what it accepts, as a whole, can be
   derived from the grammar.  (Commas are an exception: see the README.) *)
AcceptsOnlyFormulas ==
  status = "accepted" /\ "," \notin vocabulary.tokens => WellFormed(text)

(* A ParserError is raised only where no formula goes on like that: neither
   the reader's flags nor the checks of CreateRPN() are too strict. *)
RefusesOnlyMalformed ==
  status = "rejected" =>
    IF Last(text) = "end" THEN ~WellFormed(Front(text)) ELSE ~CanBeCompleted(text, AnyLiteral)

(* The byte code, with all that AddOp() folded into one command, computes the
   value of the formula, and leaves in the variables what its assignments
   should, whatever the variables held before. *)
ResultIsRight ==
  status = "accepted" =>
    LET formula == Formula(text) IN
    formula # Malformed =>
      \A env \in Environments :
        LET machine == Outcome(env)  right == Evaluated(formula, env) IN
        /\ machine.stopped = right.stopped
        /\ Same(ResultAt(machine, Last(rpn.argc)), right.value)
        /\ \A v \in Names : Same(machine.env[v], right.env[v])

(* ParseCmdCodeBulk() stays inside m_vStackBuffer, whose size CreateRPN()
   took from the byte code, and so does the index of the final result.  With
   what a user defines it leaves one number, though strings are on no stack. *)
StackFits ==
  /\ status = "accepted" /\ WellFormed(text) =>
       /\ Last(rpn.argc) \in 1 .. rpn.code.max
       /\ \A env \in Environments : LET machine == Outcome(env) IN machine.low >= 0 /\ machine.high <= rpn.code.max
  /\ mode = "code" =>
       LET c == ByteCode(expr, code)  machine == Run(c, Start(c, [n \in Identifiers |-> Whole(0)])) IN
       machine.sidx = 1 /\ machine.low >= 0 /\ machine.high <= c.max

=============================================================================
