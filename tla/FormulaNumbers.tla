--------------------------- MODULE FormulaNumbers ---------------------------
(***************************************************************************)
(* Numbers of formulas.  value_type is double; here a number is a fraction *)
(* <<n, d>>, so rounding is left out, and d = 0 stands for what no fraction *)
(* is (infinities, NaN and, beyond MaxExponent, powers).                   *)
(***************************************************************************)
EXTENDS Integers

CONSTANT MaxExponent

NotANumber == <<0, 0>>
Undefined(x) == x[2] = 0
Whole(n) == <<n, 1>>
Truth(b) == Whole(IF b THEN 1 ELSE 0)
IsZero(x) == x[1] = 0
Same(x, y) == Undefined(x) = Undefined(y) /\ (Undefined(x) \/ x[1] * y[2] = y[1] * x[2])

Plus(x, y) == <<x[1] * y[2] + y[1] * x[2], x[2] * y[2]>>
Negated(x) == <<-x[1], x[2]>>
Times(x, y) == <<x[1] * y[1], x[2] * y[2]>>
Quotient(x, y) == IF y[1] < 0 THEN <<-x[1] * y[2], -x[2] * y[1]>> ELSE <<x[1] * y[2], x[2] * y[1]>>
Less(x, y) == x[1] * y[2] < y[1] * x[2]
SignOf(x) == Whole(CASE x[1] < 0 -> -1 [] x[1] > 0 -> 1 [] OTHER -> 0)
Rounded(x) == Whole((2 * x[1] + x[2]) \div (2 * x[2]))
Magnitude(x) == <<IF x[1] < 0 THEN -x[1] ELSE x[1], x[2]>>

(* The exponents that occur are small whole numbers. *)
Power(x, y) ==
  LET k == y[1] \div y[2]  n == IF k < 0 THEN -k ELSE k  p == <<x[1] ^ n, x[2] ^ n>> IN
  IF y[1] % y[2] # 0 \/ n > MaxExponent THEN NotANumber
  ELSE CASE k = 0 -> Whole(1)
         [] k < 0 -> Quotient(Whole(1), p)
         [] OTHER -> p

Applied(op, x, y) ==
  IF Undefined(x) \/ Undefined(y) THEN NotANumber
  ELSE CASE op = "<"  -> Truth(Less(x, y))
         [] op = "==" -> Truth(Same(x, y))
         [] op = "&&" -> Truth(~IsZero(x) /\ ~IsZero(y))
         [] op = "||" -> Truth(~IsZero(x) \/ ~IsZero(y))
         [] op = "+"  -> Plus(x, y)
         [] op = "-"  -> Plus(x, Negated(y))
         [] op = "*"  -> Times(x, y)
         [] op = "/"  -> Quotient(x, y)
         [] op = "^"  -> Power(x, y)

=============================================================================
