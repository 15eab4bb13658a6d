---------------------------- MODULE MCValidations -----------------------------
(* Requests of up to two lines and two tax totals, and one of too many. *)
EXTENDS Validations

Line(q, p, a, code, percent) ==
  [quantity |-> q, price |-> p, amount |-> a, code |-> code, percent |-> percent]
\* Whole cents, halves, quarters, a peso off either way and a grain more, and
\* each field wrong once.
SomeLines ==
  {Line(1, 18, 0, "01", 19), Line(2, 9, 28, "01", 5), Line(1, 17, 9, "01", 0), Line(2, 10, 32, "01", 0),
   Line(1, 0, -8, "01", 0), Line(3, 7, 21, "04", 8), Line(1, 22, 2, "01", 0),
   Line(0, 6, 0, "01", 0), Line(1, -6, 0, "01", 0), Line(1, 6, 0, "22", 0), Line(1, 6, 0, "01", 8),
   Line(1, 6, 0, "04", 101)}

Tax(code, percent, base, amount) ==
  [code |-> code, percent |-> percent, base |-> base, amount |-> amount]
SomeTaxes ==
  {Tax("01", 0, 18, 0), Tax("01", 19, 18, 3), Tax("04", 8, 18, 6), Tax("03", 5, 18, 4),
   Tax("22", 5, 18, 2), Tax("01", 101, 18, 2), Tax("01", 5, -2, 2), Tax("01", 5, 18, -2)}

UpToTwo(S) == {<<>>} \cup {<<x>> : x \in S} \cup (S \X S)
TooMany == [i \in 1..3 |-> Line(1, 18, 0, "01", 19)]
ManyLines == UpToTwo(SomeLines) \cup {TooMany}
ManyTaxes == UpToTwo(SomeTaxes)

Either == BOOLEAN
AsCalled == {TRUE}
===============================================================================
