------------------------------ MODULE Validations -----------------------------
(***************************************************************************)
(* ValidationsService.validateInvoice, on what InvoicesService.create      *)
(* computes with Money, the amounts that go into the CUFE, and those the   *)
(* XML states.                                                             *)
(*                                                                         *)
(* Amounts are whole numbers of a fraction of a cent: Grain of them make a *)
(* cent, Peso of them a peso.  Percentages, codes and dates are kept as    *)
(* far as the checks tell them apart.                                      *)
(***************************************************************************)
EXTENDS Integers, Sequences

CONSTANTS
  Grain, Peso,
  LineSeqs,   \* the lines of a request: quantity, price, amount, code, percent
  TaxSeqs,    \* its taxTotals: code, percent, base, amount
  MaxLines,   \* 500
  Textual     \* whether the totals come as strings, which they do, or as numbers

Lines == [quantity : Int, price : Int, amount : Int, code : STRING, percent : Int]
Taxes == [code : STRING, percent : Int, base : Int, amount : Int]

ASSUME ValidationsAssumption ==
  /\ Grain \in Nat \ {0} /\ Peso \in Nat /\ Peso % Grain = 0
  /\ LineSeqs \subseteq Seq(Lines) /\ TaxSeqs \subseteq Seq(Taxes)
  /\ MaxLines \in Nat
  /\ Textual \subseteq BOOLEAN

VARIABLES
  input,    \* lines, taxes, and whether customer, prefix and date pass
  textual,
  at,       \* the check
  next,     \* the line or tax total it looks at
  sum,      \* calculatedSubtotal, calculatedTotalTax
  verdict,
  cufe,     \* the amounts the CUFE is made of, in cents
  xml       \* those the XML states, in cents

vars == <<input, textual, at, next, sum, verdict, cufe, xml>>

Abs(a) == IF a < 0 THEN -a ELSE a

\* Decimal.toFixed(2) with HALF_UP, in cents: a half goes away from zero.
Fixed(a) ==
  LET cents == (2 * Abs(a) + Grain) \div (2 * Grain) IN IF a < 0 THEN -cents ELSE cents

\* parseFloat(x.toFixed(2)): a decimal half is no binary number, so it goes
\* either way.
Nearest(a) ==
  {c * Grain : c \in {k \in Fixed(a) - 1 .. Fixed(a) + 1 : 2 * Abs(k * Grain - a) <= Grain}}

\* Faulty variant: a difference that is not absolute.
FarAbove(a, b) == a - b > Peso

\* Math.abs(a - b) > 1
Far(a, b) == Abs(a - b) > Peso

\* reduce((sum, x) => sum.add(x), 0)
Total(f) ==
  LET partial[n \in 0..Len(f)] == IF n = 0 THEN 0 ELSE partial[n - 1] + f[n]
  IN partial[Len(f)]

-------------------------------------------------------------------------------
(* What create hands over *)

\* lineExtensionAmount || quantity * unitPrice
LineAmount(l) == IF l.amount = 0 THEN l.quantity * l.price ELSE l.amount

Subtotal == Total([i \in DOMAIN input.lines |-> LineAmount(input.lines[i])])
TotalTax == Total([i \in DOMAIN input.taxes |-> input.taxes[i].amount])
TotalAmount == Subtotal + TotalTax

NoXml == [lines |-> <<>>, taxes |-> <<>>, subtotal |-> 0, total |-> 0]
NoCufe == [bruto |-> 0, iva |-> 0, adicional |-> 0, total |-> 0]

Init ==
  /\ input \in [lines : LineSeqs, taxes : TaxSeqs, rest : BOOLEAN]
  /\ textual \in Textual
  /\ at = "lines" /\ next = 1 /\ sum = 0
  /\ verdict = "none" /\ cufe = NoCufe /\ xml = NoXml

-------------------------------------------------------------------------------
(* validateInvoice *)

Codes == {"01", "02", "03", "04", "05", "06", "07", "08"}
VatPercents == {0, 5, 19}

Goto(check) == at' = check /\ next' = 1 /\ sum' = 0
Stop(with) ==
  /\ verdict' = with
  /\ at' = "done"
  /\ UNCHANGED <<next, sum>>

CountLines ==
  /\ at = "lines" /\ next = 1
  /\ Len(input.lines) \notin 1..MaxLines
  /\ Stop("rejected")
  /\ UNCHANGED <<input, textual, cufe, xml>>

\* A line that passes: its code and percent known, and its amount a peso off at
\* most.
LinePasses(l, expected) ==
  /\ l.quantity > 0 /\ l.price >= 0
  /\ ~Far(LineAmount(l), expected)
  /\ l.code \in Codes
  /\ l.code = "01" => l.percent \in VatPercents
  /\ l.percent \in 0..100

\* A line is added with its own amount, not with the expected one.
CheckLine ==
  /\ at = "lines"
  /\ Len(input.lines) \in 1..MaxLines
  /\ next <= Len(input.lines)
  /\ LET l == input.lines[next] IN
     \E expected \in Nearest(l.quantity * l.price) :
       IF LinePasses(l, expected)
       THEN /\ sum' = sum + LineAmount(l)
            /\ next' = next + 1
            /\ UNCHANGED <<at, verdict>>
       ELSE Stop("rejected")
  /\ UNCHANGED <<input, textual, cufe, xml>>

CheckSubtotal ==
  /\ at = "lines"
  /\ next > 1 /\ next > Len(input.lines)
  /\ \E calculated \in Nearest(sum) :
       IF Far(calculated, Subtotal) THEN Stop("rejected") ELSE Goto("taxes") /\ UNCHANGED verdict
  /\ UNCHANGED <<input, textual, cufe, xml>>

CountTaxes ==
  /\ at = "taxes"
  /\ input.taxes = <<>>
  /\ Stop("rejected")
  /\ UNCHANGED <<input, textual, cufe, xml>>

\* An amount that is not percent of base is only logged.
CheckTax ==
  /\ at = "taxes"
  /\ next <= Len(input.taxes)
  /\ LET t == input.taxes[next] IN
     IF \/ t.code \notin Codes
        \/ t.percent \notin 0..100
        \/ t.base < 0
        \/ t.amount < 0
     THEN Stop("rejected")
     ELSE /\ sum' = sum + t.amount
          /\ next' = next + 1
          /\ UNCHANGED <<at, verdict>>
  /\ UNCHANGED <<input, textual, cufe, xml>>

CheckTotalTax ==
  /\ at = "taxes"
  /\ next > 1 /\ next > Len(input.taxes)
  /\ \E calculated \in Nearest(sum) :
       IF Far(calculated, TotalTax) THEN Stop("rejected") ELSE Goto("totals") /\ UNCHANGED verdict
  /\ UNCHANGED <<input, textual, cufe, xml>>

\* (subtotal + totalTax).toFixed(2)
CheckTotals ==
  /\ at = "totals"
  /\ ~textual
  /\ \E expected \in Nearest(Subtotal + TotalTax) :
       IF Far(expected, TotalAmount) \/ Subtotal < 0 \/ TotalAmount <= 0
       THEN Stop("rejected")
       ELSE Goto("rest") /\ UNCHANGED verdict
  /\ UNCHANGED <<input, textual, cufe, xml>>

\* With strings + joins them, and a string has no toFixed: TypeError.
CheckTextTotals ==
  /\ at = "totals"
  /\ textual
  /\ Stop("crashed")
  /\ UNCHANGED <<input, textual, cufe, xml>>

\* Customer document, payment form, prefix and issue date.
CheckRest ==
  /\ at = "rest"
  /\ Stop(IF input.rest THEN "accepted" ELSE "rejected")
  /\ UNCHANGED <<input, textual, cufe, xml>>

-------------------------------------------------------------------------------
(* The amounts of the CUFE *)

TaxOf(codes) ==
  Total([i \in DOMAIN input.taxes |->
           IF input.taxes[i].code \in codes THEN input.taxes[i].amount ELSE 0])

\* Faulty variant: counts no other tax.
ValAdicionalNone == 0

ValBruto == Fixed(Subtotal)
ValIva == Fixed(TaxOf({"01"}))
ValAdicional == Fixed(TaxOf({"04", "22", "34", "35"}))
ValTotal == Fixed(TotalAmount)

GenerateCufe ==
  /\ verdict = "accepted" /\ cufe = NoCufe
  /\ cufe' = [bruto |-> ValBruto, iva |-> ValIva, adicional |-> ValAdicional, total |-> ValTotal]
  /\ UNCHANGED <<input, textual, at, next, sum, verdict, xml>>

-------------------------------------------------------------------------------
(* The amounts of the XML, of a tenant that has credentials and a certificate *)

\* Faulty variant: cuts the third decimal off.
PrintedDown(a) == {a \div Grain}

\* Number(x).toFixed(2)
Printed(a) == {n \div Grain : n \in Nearest(a)}

\* Each amount printed on its own.
PrintedAll(amounts) ==
  {f \in [DOMAIN amounts -> UNION {Printed(amounts[i]) : i \in DOMAIN amounts}] :
     \A i \in DOMAIN amounts : f[i] \in Printed(amounts[i])}

\* Faulty variant: what was declared for the line is not looked at.
DeclaredNot(l) == l.quantity * l.price

\* lineExtensionAmount || quantity * unitPrice, once more, without Money.
Declared(l) == LineAmount(l)

\* buildTaxTotals, buildLegalMonetaryTotal and buildInvoiceLines.
BuildXml ==
  /\ cufe # NoCufe /\ xml = NoXml
  /\ \E lines \in PrintedAll([i \in DOMAIN input.lines |-> Declared(input.lines[i])]),
        taxes \in PrintedAll([i \in DOMAIN input.taxes |-> input.taxes[i].amount]),
        subtotal \in Printed(Subtotal), total \in Printed(TotalAmount) :
       xml' = [lines |-> lines, taxes |-> taxes, subtotal |-> subtotal, total |-> total]
  /\ UNCHANGED <<input, textual, at, next, sum, verdict, cufe>>

Next ==
  \/ CountLines \/ CheckLine \/ CheckSubtotal
  \/ CountTaxes \/ CheckTax \/ CheckTotalTax
  \/ CheckTotals \/ CheckTextTotals \/ CheckRest
  \/ GenerateCufe \/ BuildXml

Spec == Init /\ [][Next]_vars

-------------------------------------------------------------------------------

\* Each line may be a peso off, and the subtotal adds the declared amounts: it
\* strays from the sum of quantity times price by no more than a peso and half
\* a cent for every line, up or down.
DriftBounded ==
  verdict = "accepted" =>
    LET exact == Total([i \in DOMAIN input.lines |-> input.lines[i].quantity * input.lines[i].price]) IN
    2 * Abs(Subtotal - exact) <= Len(input.lines) * (2 * Peso + Grain)

\* The amounts of the CUFE are rounded one by one, and of the codes the checks
\* let pass it lists only 01 and 04: its total is the sum of its parts and of the
\* taxes it does not list, but for two cents.
CufePartsAddUp ==
  cufe # NoCufe =>
    LET unlisted == Total([i \in DOMAIN input.taxes |->
                      IF input.taxes[i].code \in {"01", "04"} THEN 0 ELSE input.taxes[i].amount])
        listed == cufe.bruto + cufe.iva + cufe.adicional
    IN Abs((cufe.total - listed) * Grain - unlisted) <= 2 * Grain

\* The XML and the CUFE round the same sums in two ways, binary and decimal: who
\* makes the CUFE again from the XML finds the amounts it was made of, but for a
\* cent where a sum ends in half of one.
Agree(stated, hashed, exact) ==
  Abs(stated - hashed) <= IF (2 * exact) % (2 * Grain) = Grain THEN 1 ELSE 0
XmlStatesTheCufe ==
  xml # NoXml =>
    /\ Agree(xml.subtotal, cufe.bruto, Subtotal)
    /\ Agree(xml.total, cufe.total, TotalAmount)

\* The XML rounds every line, every tax and both totals on their own: its lines
\* add up to its subtotal, and that and its taxes to its total, but for half a cent
\* for each of them.
XmlAddsUp ==
  xml # NoXml =>
    /\ 2 * Abs(Total(xml.lines) - xml.subtotal) <= Len(input.lines) + 1
    /\ 2 * Abs(xml.subtotal + Total(xml.taxes) - xml.total) <= Len(input.taxes) + 2

\* A request that keeps the rules becomes an invoice.
Keeps(l) ==
  /\ l.quantity > 0 /\ l.price >= 0 /\ LineAmount(l) = l.quantity * l.price
  /\ l.code = "01" /\ l.percent \in VatPercents
KeepsTax(t) == t.code = "01" /\ t.percent \in VatPercents /\ t.base >= 0 /\ t.amount >= 0

ValidIsAccepted ==
  /\ verdict # "none"
  /\ Len(input.lines) \in 1..MaxLines /\ \A i \in DOMAIN input.lines : Keeps(input.lines[i])
  /\ input.taxes # <<>> /\ \A i \in DOMAIN input.taxes : KeepsTax(input.taxes[i])
  /\ TotalAmount > 0
  /\ input.rest
  => verdict = "accepted"
===============================================================================
