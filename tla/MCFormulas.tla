------------------------------ MODULE MCFormulas ------------------------------
(* Vocabularies of a few tokens each.  "/" does not meet "&&" and "||":      *)
(* ConstantFolding() takes the whole part of their operands.                 *)
EXTENDS Formulas

MCLiterals == [x \in {"1", "2", "4"} |-> Whole(CASE x = "1" -> 1 [] x = "2" -> 2 [] x = "4" -> 4)]
MCNames == {"a", "b"}
MCFunctions == [f \in {"sum", "avg", "min", "max", "abs", "sign", "rint"} |-> IF f \in {"abs", "sign", "rint"} THEN 1 ELSE -1]
MCEnvironments ==
  {[v \in MCNames |-> IF v = "a" THEN Whole(0) ELSE Whole(3)], [v \in MCNames |-> IF v = "a" THEN Whole(-2) ELSE Whole(1)]}

Arithmetic  == [tokens |-> {"2", "a", "b", "+", "-", "*", "(", ")"}, length |-> 7]
Division    == [tokens |-> {"2", "a", "+", "*", "/", "(", ")"}, length |-> 7]
Powers      == [tokens |-> {"2", "4", "a", "^", "-", "*"}, length |-> 7]
Conditions  == [tokens |-> {"1", "a", "b", "?", ":", "=", "(", ")"}, length |-> 8]
Logic       == [tokens |-> {"2", "a", "&&", "||", "<", "==", "-"}, length |-> 6]
Calls       == [tokens |-> {"1", "a", "sum", "abs", "(", ")", ",", "-"}, length |-> 7]
Extremes    == [tokens |-> {"1", "a", "min", "max", "avg", "(", ")", ","}, length |-> 6]
Roundings   == [tokens |-> {"2", "a", "rint", "sign", "(", ")", "/", "-"}, length |-> 6]
Silence     == [tokens |-> {}, length |-> 0]
MCVocabularies == {Silence, Arithmetic, Division, Powers, Conditions, Logic, Calls, Extremes, Roundings}
===============================================================================
