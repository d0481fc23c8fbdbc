--------------------------- MODULE FormulaGrammar ---------------------------
(***************************************************************************)
(* The formulas and what they mean, defined without a stack: a sequence of *)
(* tokens is split at the operator that binds least.  This is the          *)
(* reference FormulaParser is checked against.                             *)
(***************************************************************************)
EXTENDS FormulaReader, FormulaNumbers, SequencesExt, FiniteSetsExt

Malformed == [kind |-> "malformed"]
Node(kind, name, parts) ==
  IF \E i \in DOMAIN parts : parts[i] = Malformed THEN Malformed
  ELSE [kind |-> kind, name |-> name, parts |-> parts]

(* How many brackets are open after the first i tokens of s. *)
OpenAt(s, i) ==
  Cardinality({j \in 1 .. i : s[j] = "("}) - Cardinality({j \in 1 .. i : s[j] = ")"})
Outside(s) == {i \in 1 .. Len(s) : OpenAt(s, i) = 0 /\ s[i] # ")"}
Before(s, i) == SubSeq(s, 1, i - 1)
After(s, i) == SubSeq(s, i + 1, Len(s))

EndsOperand(tok) == tok \in DOMAIN Literals \cup Names \cup {")"}
Splits(s, operators) == {i \in Outside(s) \ {1} : s[i] \in operators /\ EndsOperand(s[i - 1])}

(* The pieces between the commas that are in no bracket. *)
Pieces(s) ==
  LET commas == SetToSortSeq({i \in Outside(s) : s[i] = ","}, <)
      ends == <<0>> \o commas \o <<Len(s) + 1>>
  IN  [k \in 1 .. Len(ends) - 1 |-> SubSeq(s, ends[k] + 1, ends[k + 1] - 1)]

(* From the operators that bind least. *)
Levels == <<{"||"}, {"&&"}, {"<", "=="}, {"+", "-"}, {"*", "/"}>>

RECURSIVE Expression(_), Conditional(_), LeftAssociative(_, _), Signed(_), PowerOf(_), Primary(_)

Expression(s) ==
  IF Len(s) > 1 /\ s[1] \in Names /\ s[2] = "="
  THEN Node("assign", s[1], <<Conditional(After(s, 2))>>)
  ELSE Conditional(s)

Conditional(s) ==
  LET ifs == {i \in Outside(s) : s[i] = "?"}
      pending(i) == Cardinality({j \in 1 .. i : j \in ifs}) - Cardinality({j \in 1 .. i : j \in Outside(s) /\ s[j] = ":"})
      if == Min(ifs)
      elses == {i \in Outside(s) : s[i] = ":" /\ i > if /\ pending(i) = 0}
      else == Min(elses)
  IN  IF ifs = {} THEN LeftAssociative(s, 1)
      ELSE IF elses = {} THEN Malformed
      ELSE Node("if", "?", <<LeftAssociative(Before(s, if), 1),
                             Expression(SubSeq(s, if + 1, else - 1)), Expression(After(s, else))>>)

LeftAssociative(s, level) ==
  IF level > Len(Levels) THEN Signed(s)
  ELSE LET splits == Splits(s, Levels[level])  i == Max(splits) IN
       IF splits = {} THEN LeftAssociative(s, level + 1)
       ELSE Node("binary", s[i], <<LeftAssociative(Before(s, i), level), LeftAssociative(After(s, i), level + 1)>>)

Signed(s) ==
  IF s # <<>> /\ s[1] \in InfixOperators THEN Node("call", s[1], <<PowerOf(Tail(s))>>) ELSE PowerOf(s)

PowerOf(s) ==
  LET splits == Splits(s, {"^"})  i == Min(splits) IN
  IF splits = {} THEN Primary(s) ELSE Node("binary", "^", <<Primary(Before(s, i)), Signed(After(s, i))>>)

Bracketed(s) == Len(s) > 1 /\ s[1] = "(" /\ {i \in 1 .. Len(s) : OpenAt(s, i) = 0} = {Len(s)}
Inner(s) == SubSeq(s, 2, Len(s) - 1)

Primary(s) ==
  IF s = <<>> THEN Malformed
  ELSE IF Len(s) = 1 /\ s[1] \in DOMAIN Literals \cup Names THEN Node("operand", s[1], <<>>)
  ELSE IF Bracketed(s) THEN Expression(Inner(s))
  ELSE IF s[1] \in DOMAIN Functions /\ Bracketed(Tail(s))
  THEN LET pieces == Pieces(Inner(Tail(s))) IN
       IF Functions[s[1]] \in {-1, Len(pieces)}
       THEN Node("call", s[1], [k \in DOMAIN pieces |-> Expression(pieces[k])]) ELSE Malformed
  ELSE Malformed

(* A formula: expressions separated by commas, the last of which counts. *)
Formula(s) ==
  LET pieces == Pieces(s) IN Node("list", ",", [k \in DOMAIN pieces |-> Expression(pieces[k])])
WellFormed(s) == Formula(s) # Malformed

-----------------------------------------------------------------------------
(* The value of a tree where the variables hold env, and what they hold then.
   It is stopped by a condition that is undefined. *)
Meaning(f, args) ==
  IF f = "-" THEN Negated(args[1])
  ELSE IF f = "+" THEN args[1]
  ELSE IF \E i \in DOMAIN args : Undefined(args[i]) THEN NotANumber
  ELSE CASE f = "abs" -> IF Less(args[1], Whole(0)) THEN Negated(args[1]) ELSE args[1]
         [] f = "sign" -> IF IsZero(args[1]) THEN Whole(0) ELSE Quotient(args[1], Magnitude(args[1]))
         [] f = "rint" -> LET near == Plus(args[1], <<1, 2>>) IN
                          CHOOSE w \in {Whole(k) : k \in -50 .. 50} : ~Less(near, w) /\ Less(near, Plus(w, Whole(1)))
         [] f = "sum" -> MapThenFoldSet(Plus, Whole(0), LAMBDA i : args[i], Min, DOMAIN args)
         [] f = "avg" -> Quotient(MapThenFoldSet(Plus, Whole(0), LAMBDA i : args[i], Min, DOMAIN args), Whole(Len(args)))
         [] f = "min" -> CHOOSE x \in Range(args) : \A y \in Range(args) : ~Less(y, x)
         [] f = "max" -> CHOOSE x \in Range(args) : \A y \in Range(args) : ~Less(x, y)

RECURSIVE Evaluated(_, _), Parts(_, _)

(* The parts one after the other. *)
Parts(trees, start) ==
  IF trees = <<>> THEN start
  ELSE LET r == Evaluated(Head(trees), start.env)
           next == [values |-> Append(start.values, r.value), env |-> r.env, stopped |-> r.stopped]
       IN  IF r.stopped THEN next ELSE Parts(Tail(trees), next)

Evaluated(tree, env) ==
  LET Begin == [values |-> <<>>, env |-> env, stopped |-> FALSE]
      parts == Parts(IF tree.kind = "if" THEN <<tree.parts[1]>> ELSE tree.parts, Begin)
      result(x) == [value |-> x, env |-> parts.env, stopped |-> FALSE]
      v == parts.values
  IN  IF parts.stopped THEN [value |-> NotANumber, env |-> parts.env, stopped |-> TRUE]
      ELSE CASE tree.kind = "operand" -> result(IF tree.name \in Names THEN env[tree.name] ELSE Literals[tree.name])
             [] tree.kind = "assign" -> [result(v[1]) EXCEPT !.env[tree.name] = v[1]]
             [] tree.kind = "binary" -> result(Applied(tree.name, v[1], v[2]))
             [] tree.kind = "call" -> result(Meaning(tree.name, v))
             [] tree.kind = "list" -> result(Last(v))
             [] tree.kind = "if" -> IF Undefined(v[1]) THEN [result(NotANumber) EXCEPT !.stopped = TRUE]
                                    ELSE Evaluated(tree.parts[IF IsZero(v[1]) THEN 3 ELSE 2], parts.env)

-----------------------------------------------------------------------------
(* What is still open in the beginning of a formula: its "(" and "?", or
   <<"wrong">> if something was closed that was not open. *)
Pending(s) ==
  LET step(open, tok) ==
        IF open = <<"wrong">> THEN open
        ELSE CASE tok \in {"(", "?"} -> Append(open, tok)
               [] tok \in {")", ":"} ->
                    IF open # <<>> /\ Last(open) = (IF tok = ")" THEN "(" ELSE "?") THEN Front(open) ELSE <<"wrong">>
               [] OTHER -> open
  IN  FoldLeft(step, <<>>, s)

(* The shortest way to end what begins with s; literal is any number. *)
Completed(s, literal) ==
  LET operand == CASE s = <<>> -> <<literal>>
                   [] EndsOperand(Last(s)) -> <<>>
                   [] Last(s) \in DOMAIN Functions -> <<"(", literal, ")">>
                   [] OTHER -> <<literal>>
      closing == Reverse(Pending(s))
  IN  s \o operand \o FlattenSeq([k \in DOMAIN closing |-> IF closing[k] = "(" THEN <<")">> ELSE <<":", literal>>])

CanBeCompleted(s, literal) == Pending(s) # <<"wrong">> /\ WellFormed(Completed(s, literal))

=============================================================================
