--------------------------- MODULE ValidationsProofs ---------------------------
(***************************************************************************)
(* Proofs about Validations: the bounds on the amounts of an accepted      *)
(* request, of its CUFE and of its XML, for requests of any length and     *)
(* amounts of any size.                                                    *)
(*                                                                         *)
(* Total is a recursive function over the list.  What is said of it goes   *)
(* by induction over the running totals, with the set of the numbers at    *)
(* which it holds in place of the formula.                                 *)
(***************************************************************************)
EXTENDS Validations, SequenceTheorems, WellFoundedInduction, TLAPS

-------------------------------------------------------------------------------
(* Sums *)

\* Nat is within every set that has 0 and, with each of its numbers, the next one.
LEMMA Induction ==
  ASSUME NEW S, 0 \in S, \A n \in Nat : n \in S => n + 1 \in S
  PROVE  Nat \subseteq S
<1> DEFINE R == {p \in Nat \X Nat : p[1] < p[2]}
<1>1. IsWellFoundedOn(R, Nat)
  BY NatLessThanWellFounded DEF OpToRel
<1> SUFFICES ASSUME Nat \ S # {} PROVE FALSE
  OBVIOUS
<1>2. PICK n \in Nat \ S : \A m \in Nat \ S : <<m, n>> \notin R
  <2> HIDE DEF R
  <2> QED BY <1>1, WFMin
<1>3. n # 0 /\ n - 1 \in Nat /\ <<n - 1, n>> \in R
  OBVIOUS
<1>4. n - 1 \in S
  BY <1>2, <1>3
<1> QED BY <1>3, <1>4

\* p[k] is the sum of the first k amounts: the partial of Total.
Sums(p, f, n) == p = [k \in 0..n |-> IF k = 0 THEN 0 ELSE p[k - 1] + f[k]]

\* The recursion Total is written with defines a function.
LEMMA Summable ==
  ASSUME NEW f, NEW n \in Nat
  PROVE  \E p : Sums(p, f, n)
<1> DEFINE S == {m \in Nat : \E p : Sums(p, f, m)}
<1>1. 0 \in S
  <2>1. Sums([k \in 0..0 |-> 0], f, 0)
    BY DEF Sums
  <2> QED BY <2>1
<1>2. ASSUME NEW m \in S PROVE m + 1 \in S
  <2>1. PICK p : Sums(p, f, m)
    OBVIOUS
  <2> DEFINE q == [k \in 0..m + 1 |-> IF k = 0 THEN 0 ELSE p[k - 1] + f[k]]
  <2>2. \A k \in 0..m : q[k] = p[k]
    BY <2>1 DEF Sums
  <2>3. Sums(q, f, m + 1)
    BY <2>2 DEF Sums
  <2> QED BY <2>3
<1> HIDE DEF S
<1>3. Nat \subseteq S
  BY <1>1, <1>2, Induction DEF S
<1> QED BY <1>3 DEF S

\* A list of n amounts, and its running totals.
Listing(f, n) == f \in [1..n -> Int]
Running(p, f, n) ==
  /\ p[0] = 0 /\ \A k \in 0..n : p[k] \in Int
  /\ \A k \in 1..n : f[k] \in Int /\ p[k] = p[k - 1] + f[k]
  /\ Total(f) = p[n]

\* A list of whole numbers has running totals, they are whole numbers, and the
\* last is the Total: reduce adds what it says it adds.
LEMMA Partials ==
  ASSUME NEW n \in Nat, NEW f, Listing(f, n)
  PROVE  \E p : Running(p, f, n)
<1> USE DEF Listing
<1>1. Len(f) = n
  <2>1. f \in Seq(Int)
    BY SeqDef
  <2> QED BY <2>1, LenProperties
<1> DEFINE p == CHOOSE g : Sums(g, f, n)
<1>2. Sums(p, f, n)
  BY Summable
<1>3. Total(f) = p[n]
  BY <1>1 DEF Total, Sums
<1> HIDE DEF p
<1> DEFINE S == {k \in Nat : k \in 0..n => p[k] \in Int}
<1>4. Nat \subseteq S
  <2>1. 0 \in S
    BY <1>2 DEF Sums
  <2>2. ASSUME NEW k \in Nat, k \in S PROVE k + 1 \in S
    BY <1>2, <2>2 DEF Sums
  <2> HIDE DEF S
  <2> QED BY <2>1, <2>2, Induction
<1>5. \A k \in 0..n : p[k] \in Int
  <2>1. 0..n \subseteq Nat
    OBVIOUS
  <2> QED BY <1>4, <2>1
<1>6. ASSUME NEW k \in 1..n PROVE f[k] \in Int /\ p[k] = p[k - 1] + f[k]
  BY <1>2 DEF Sums
<1>7. p[0] = 0
  BY <1>2 DEF Sums
<1> QED BY <1>3, <1>5, <1>6, <1>7 DEF Running

\* \\div and % are quotient and remainder.
LEMMA Quotient ==
  ASSUME NEW q \in Int, NEW d \in Nat \ {0}, NEW r \in 0..d - 1
  PROVE  (d * q + r) \div d = q /\ (d * q + r) % d = r
  OBVIOUS

\* Every number is its quotient times the divisor and a remainder below it.
LEMMA Division ==
  ASSUME NEW a \in Nat, NEW d \in Nat \ {0}
  PROVE  \E r \in 0..d - 1 : a \div d \in Nat /\ a = d * (a \div d) + r
<1> DEFINE S == {m \in Nat : \E q \in Nat, r \in 0..d - 1 : m = d * q + r}
<1>1. 0 \in S
  <2>1. 0 = d * 0 + 0 /\ 0 \in 0..d - 1
    OBVIOUS
  <2> QED BY <2>1
<1>2. ASSUME NEW m \in S PROVE m + 1 \in S
  <2>1. PICK q \in Nat, r \in 0..d - 1 : m = d * q + r
    OBVIOUS
  <2>2. CASE r + 1 < d
    <3>1. m + 1 \in Nat /\ q \in Nat /\ r + 1 \in 0..d - 1 /\ m + 1 = d * q + (r + 1)
      BY <2>1, <2>2
    <3> QED BY <3>1, Zenon
  <2>3. CASE r + 1 = d
    <3>1. m + 1 \in Nat /\ q + 1 \in Nat /\ 0 \in 0..d - 1 /\ m + 1 = d * (q + 1) + 0
      BY <2>1, <2>3
    <3> QED BY <3>1, Zenon
  <2> QED BY <2>2, <2>3
<1> HIDE DEF S
<1>3. a \in S
  BY <1>1, <1>2, Induction
<1>4. PICK q \in Nat, r \in 0..d - 1 : a = d * q + r
  BY <1>3 DEF S
<1>5. a \div d = q
  BY <1>4, Quotient
<1> QED BY <1>4, <1>5

\* HALF_UP, of Money and of the CUFE: toFixed(2) is half a cent off at most.
LEMMA FixedNear ==
  ASSUME NEW a \in Int
  PROVE  Fixed(a) \in Int /\ Abs(2 * (Grain * Fixed(a)) - 2 * a) <= Grain
<1> DEFINE c == (2 * Abs(a) + Grain) \div (2 * Grain)
<1>1. Grain \in Nat \ {0} /\ 2 * Grain \in Nat \ {0} /\ Abs(a) \in Nat
  BY ValidationsAssumption DEF Abs
<1>2. PICK r \in 0..2 * Grain - 1 : c \in Nat /\ 2 * Abs(a) + Grain = (2 * Grain) * c + r
  <2> DEFINE m == 2 * Abs(a) + Grain
  <2>1. m \in Nat
    BY <1>1
  <2> HIDE DEF m
  <2>2. \E r \in 0..2 * Grain - 1 : m \div (2 * Grain) \in Nat /\ m = (2 * Grain) * (m \div (2 * Grain)) + r
    BY <1>1, <2>1, Division
  <2> QED BY <2>2 DEF m
<1> HIDE DEF c
<1>3. (2 * Grain) * c = 2 * (Grain * c) /\ Grain * c \in Int /\ Grain * (-c) = -(Grain * c)
  BY <1>1, <1>2
<1>4. Fixed(a) = IF a < 0 THEN -c ELSE c
  BY DEF Fixed, c
<1>5. CASE a < 0
  BY <1>1, <1>2, <1>3, <1>4, <1>5 DEF Abs
<1>6. CASE ~(a < 0)
  BY <1>1, <1>2, <1>3, <1>4, <1>6 DEF Abs
<1> QED BY <1>5, <1>6

\* Number(x).toFixed(2), of the XML, is half a cent off at most as well.
LEMMA PrintedNear ==
  ASSUME NEW a \in Int, NEW k \in Printed(a)
  PROVE  k \in Int /\ Abs(2 * (Grain * k) - 2 * a) <= Grain
<1>1. Grain \in Nat \ {0} /\ Fixed(a) \in Int
  BY ValidationsAssumption, FixedNear
<1>2. PICK c \in Int : k = (c * Grain) \div Grain /\ 2 * Abs(c * Grain - a) <= Grain
  BY <1>1 DEF Printed, Nearest
<1>3. c * Grain = Grain * c + 0 /\ 0 \in 0..Grain - 1 /\ Grain * c \in Int
  BY <1>1
<1>4. k = c
  BY <1>1, <1>2, <1>3, Quotient
<1> QED BY <1>1, <1>2, <1>3, <1>4 DEF Abs

\* A bound in grains on a whole number of cents is a bound in cents.
LEMMA Cancel ==
  ASSUME NEW x \in Int, NEW m \in Nat, Abs(Grain * x) <= Grain * m
  PROVE  Abs(x) <= m
<1>1. Grain \in Nat \ {0}
  BY ValidationsAssumption
<1>2. ASSUME NEW y \in Int, Grain * y <= Grain * m PROVE y <= m
  <2>1. SUFFICES ASSUME y - m - 1 \in Nat PROVE FALSE
    OBVIOUS
  <2>2. Grain * (y - m - 1) \in Nat /\ Grain * y = Grain * (y - m - 1) + Grain * m + Grain
    BY <1>1, <2>1
  <2> QED BY <1>1, <1>2, <2>2
<1>3. Grain * (-x) = -(Grain * x) /\ -x \in Int /\ Grain * x \in Int /\ Grain * m \in Int
  BY <1>1
<1>4. Grain * x <= Grain * m /\ Grain * (-x) <= Grain * m
  BY <1>3 DEF Abs
<1>5. x <= m /\ -x <= m
  BY <1>2, <1>3, <1>4
<1> QED BY <1>5 DEF Abs

\* What starts at 0 and moves by c at most at each step is n times c away at most
\* after n steps.
LEMMA Wanders ==
  ASSUME NEW n \in Nat, NEW D, NEW c \in Nat, \A k \in 0..n : D[k] \in Int,
         D[0] = 0, \A k \in 1..n : Abs(D[k] - D[k - 1]) <= c
  PROVE  Abs(D[n]) <= n * c
<1> DEFINE S == {k \in Nat : k \in 0..n => Abs(D[k]) <= k * c}
<1>1. 0 \in S
  BY DEF Abs
<1>2. ASSUME NEW k \in Nat, k \in S PROVE k + 1 \in S
  <2> SUFFICES ASSUME k + 1 \in 0..n PROVE Abs(D[k + 1]) <= (k + 1) * c
    OBVIOUS
  <2>1. k \in 0..n /\ k + 1 \in 1..n /\ D[k] \in Int /\ D[k + 1] \in Int
    OBVIOUS
  <2>2. Abs(D[k]) <= k * c /\ Abs(D[k + 1] - D[k]) <= c
    BY <1>2, <2>1
  <2>3. (k + 1) * c = k * c + c /\ k * c \in Int
    OBVIOUS
  <2> QED BY <2>1, <2>2, <2>3 DEF Abs
<1> HIDE DEF S
<1>3. n \in S
  BY <1>1, <1>2, Induction
<1> QED BY <1>3 DEF S

\* The running totals of two lists, weighed.
Gap(u, v, a, b) == u * a - v * b

\* Both running totals take a step: their gap grows by that of the two amounts.
LEMMA GapGrows ==
  ASSUME NEW u \in Int, NEW v \in Int, NEW a \in Int, NEW b \in Int, NEW x \in Int, NEW y \in Int,
         NEW d, NEW e, d = a + x, e = b + y
  PROVE  Gap(u, v, d, e) - Gap(u, v, a, b) = Gap(u, v, x, y)
<1>1. u * (a + x) = u * a + u * x /\ v * (b + y) = v * b + v * y
  OBVIOUS
<1> QED BY <1>1 DEF Gap

\* u times the first list and v times the second are c apart at most, place by place.
Near(f, g, u, v, c, n) == \A i \in 1..n : Abs(Gap(u, v, f[i], g[i])) <= c

\* Two lists that are c apart at most place by place are n times c apart at most
\* in total.
LEMMA TotalsNear ==
  ASSUME NEW n \in Nat, NEW f, Listing(f, n), NEW g, Listing(g, n),
         NEW u \in Int, NEW v \in Int, NEW c \in Nat, Near(f, g, u, v, c, n)
  PROVE  Total(f) \in Int /\ Total(g) \in Int /\ Abs(u * Total(f) - v * Total(g)) <= n * c
<1>1. PICK p : Running(p, f, n)
  BY Partials
<1>2. PICK q : Running(q, g, n)
  BY Partials
<1> DEFINE D == [k \in 0..n |-> Gap(u, v, p[k], q[k])]
<1>3. ASSUME NEW k \in 0..n PROVE D[k] \in Int /\ (k = 0 => D[k] = 0)
  <2>1. p[k] \in Int /\ q[k] \in Int /\ (k = 0 => p[k] = 0 /\ q[k] = 0)
    BY <1>1, <1>2 DEF Running
  <2>2. Gap(u, v, p[k], q[k]) \in Int /\ (k = 0 => Gap(u, v, p[k], q[k]) = 0)
    BY <2>1 DEF Gap
  <2> QED BY <2>2
<1>4. ASSUME NEW k \in 1..n PROVE Abs(D[k] - D[k - 1]) <= c
  <2>1. k \in 0..n /\ k - 1 \in 0..n
    OBVIOUS
  <2>2. /\ p[k - 1] \in Int /\ q[k - 1] \in Int /\ f[k] \in Int /\ g[k] \in Int
        /\ p[k] = p[k - 1] + f[k] /\ q[k] = q[k - 1] + g[k]
    BY <1>1, <1>2, <2>1 DEF Running
  <2>3. D[k] = Gap(u, v, p[k], q[k]) /\ D[k - 1] = Gap(u, v, p[k - 1], q[k - 1])
    BY <2>1
  <2> HIDE DEF D
  <2>4. Gap(u, v, p[k], q[k]) - Gap(u, v, p[k - 1], q[k - 1]) = Gap(u, v, f[k], g[k])
    BY <2>2, GapGrows
  <2>5. Abs(Gap(u, v, f[k], g[k])) <= c
    BY DEF Near
  <2> QED BY <2>3, <2>4, <2>5, Zenon
<1>5. D[n] = u * Total(f) - v * Total(g)
  BY <1>1, <1>2 DEF Gap, Running
<1> HIDE DEF D
<1>6. Abs(D[n]) <= n * c
  BY <1>3, <1>4, Wanders
<1> QED BY <1>1, <1>2, <1>5, <1>6 DEF Running

\* What is left of an amount, and of its running total.
Rest(a, b, c, d) == a - (b + c + d)

\* Three lists add up to the first, place by place.
Split(f, g, h, e, n) == \A i \in 1..n : Rest(f[i], g[i], h[i], e[i]) = 0

\* Lists that add up to the first place by place add up to it in total.
LEMMA Additive ==
  ASSUME NEW n \in Nat, NEW f, NEW g, NEW h, NEW e,
         Listing(f, n), Listing(g, n), Listing(h, n), Listing(e, n), Split(f, g, h, e, n)
  PROVE  /\ Total(f) \in Int /\ Total(g) \in Int /\ Total(h) \in Int /\ Total(e) \in Int
         /\ Total(f) = Total(g) + Total(h) + Total(e)
<1>1. PICK p : Running(p, f, n)
  BY Partials
<1>2. PICK q : Running(q, g, n)
  BY Partials
<1>3. PICK r : Running(r, h, n)
  BY Partials
<1>4. PICK s : Running(s, e, n)
  BY Partials
<1> DEFINE D == [k \in 0..n |-> Rest(p[k], q[k], r[k], s[k])]
<1>5. ASSUME NEW k \in 0..n PROVE D[k] \in Int /\ (k = 0 => D[k] = 0)
  <2>1. /\ p[k] \in Int /\ q[k] \in Int /\ r[k] \in Int /\ s[k] \in Int
        /\ k = 0 => p[k] = 0 /\ q[k] = 0 /\ r[k] = 0 /\ s[k] = 0
    BY <1>1, <1>2, <1>3, <1>4 DEF Running
  <2>2. Rest(p[k], q[k], r[k], s[k]) \in Int /\ (k = 0 => Rest(p[k], q[k], r[k], s[k]) = 0)
    BY <2>1 DEF Rest
  <2> QED BY <2>2
<1>6. ASSUME NEW k \in 1..n PROVE Abs(D[k] - D[k - 1]) <= 0
  <2>1. k \in 0..n /\ k - 1 \in 0..n
    OBVIOUS
  <2>2. /\ p[k - 1] \in Int /\ f[k] \in Int /\ p[k] = p[k - 1] + f[k]
        /\ q[k - 1] \in Int /\ g[k] \in Int /\ q[k] = q[k - 1] + g[k]
        /\ r[k - 1] \in Int /\ h[k] \in Int /\ r[k] = r[k - 1] + h[k]
        /\ s[k - 1] \in Int /\ e[k] \in Int /\ s[k] = s[k - 1] + e[k]
    BY <1>1, <1>2, <1>3, <1>4, <2>1 DEF Running
  <2>3. Rest(f[k], g[k], h[k], e[k]) = 0
    BY DEF Split
  <2>4. /\ D[k - 1] = Rest(p[k - 1], q[k - 1], r[k - 1], s[k - 1])
        /\ D[k] = Rest(p[k], q[k], r[k], s[k])
    BY <2>1
  <2> HIDE DEF D
  <2>5. Abs(Rest(p[k], q[k], r[k], s[k]) - Rest(p[k - 1], q[k - 1], r[k - 1], s[k - 1])) <= 0
    BY <2>2, <2>3 DEF Rest, Abs
  <2> QED BY <2>4, <2>5, Zenon
<1>7. D[n] = Rest(Total(f), Total(g), Total(h), Total(e))
  BY <1>1, <1>2, <1>3, <1>4 DEF Running
<1> HIDE DEF D
<1>8. Abs(D[n]) <= n * 0
  BY <1>5, <1>6, Wanders
<1>9. Total(f) \in Int /\ Total(g) \in Int /\ Total(h) \in Int /\ Total(e) \in Int
  BY <1>1, <1>2, <1>3, <1>4 DEF Running
<1>10. Rest(Total(f), Total(g), Total(h), Total(e)) = 0
  <2>1. n * 0 = 0 /\ D[n] \in Int
    BY <1>5
  <2> QED BY <1>7, <1>8, <2>1 DEF Abs
<1> QED BY <1>9, <1>10 DEF Rest

\* Two roundings of one amount are the same, or a cent apart and the amount ends in
\* half a cent.
LEMMA Apart ==
  ASSUME NEW a \in Int, NEW k \in Int, NEW m \in Int,
         Abs(2 * (Grain * k) - 2 * a) <= Grain, Abs(2 * (Grain * m) - 2 * a) <= Grain
  PROVE  Agree(k, m, a)
<1>1. Grain \in Nat \ {0} /\ Grain * k \in Int /\ Grain * m \in Int /\ k - m \in Int
  BY ValidationsAssumption
<1>2. Grain * (k - m) = Grain * k - Grain * m /\ Grain * 1 = Grain
  BY <1>1
<1>3. Abs(Grain * (k - m)) <= Grain * 1
  BY <1>1, <1>2 DEF Abs
<1>4. Abs(k - m) <= 1
  BY <1>1, <1>3, Cancel
<1>5. CASE k = m
  BY <1>5 DEF Agree, Abs
<1>6. CASE k # m
  <2>1. k - m = 1 \/ k - m = -1
    BY <1>4, <1>6 DEF Abs
  <2>2. Grain * k - Grain * m = Grain \/ Grain * k - Grain * m = -Grain
    BY <1>1, <1>2, <2>1
  <2>3. \E q \in Int : 2 * a = (2 * Grain) * q + Grain
    <3>1. 2 * a = 2 * (Grain * k) + Grain \/ 2 * a = 2 * (Grain * m) + Grain
      BY <1>1, <2>2 DEF Abs
    <3>2. 2 * (Grain * k) = (2 * Grain) * k /\ 2 * (Grain * m) = (2 * Grain) * m
      BY <1>1
    <3> QED BY <3>1, <3>2
  <2>4. (2 * a) % (2 * Grain) = Grain
    <3>1. 2 * Grain \in Nat \ {0} /\ Grain \in 0..2 * Grain - 1
      BY <1>1
    <3> QED BY <2>3, <3>1, Quotient
  <2> QED BY <1>4, <2>4 DEF Agree
<1> QED BY <1>5, <1>6

-------------------------------------------------------------------------------

(* The invariant *)

\* A line that is a peso off at most from one of the cents next to its product.
Close(l) == \E expected \in Nearest(l.quantity * l.price) : ~Far(LineAmount(l), expected)

LinesClose == \A i \in DOMAIN input.lines : Close(input.lines[i])
TaxesKnown == \A i \in DOMAIN input.taxes : input.taxes[i].code \in Codes

\* The request is one.
Requested == input.lines \in Seq(Lines) /\ input.taxes \in Seq(Taxes)

\* What the check at hand has seen, and what those before it have.
Seen ==
  /\ next \in Nat
  /\ at = "lines" => \A i \in DOMAIN input.lines : i < next => Close(input.lines[i])
  /\ at = "taxes" => \A i \in DOMAIN input.taxes : i < next => input.taxes[i].code \in Codes
Behind ==
  /\ at \in {"taxes", "totals", "rest"} \/ verdict = "accepted" => LinesClose
  /\ at \in {"totals", "rest"} \/ verdict = "accepted" => TaxesKnown
Closed == at = "done" <=> verdict # "none"

\* What was hashed and what was printed are those of the request.
Hashed ==
  cufe # NoCufe =>
    /\ verdict = "accepted"
    /\ cufe = [bruto |-> ValBruto, iva |-> ValIva, adicional |-> ValAdicional, total |-> ValTotal]
Stated ==
  xml # NoXml =>
    /\ cufe # NoCufe
    /\ xml.lines \in PrintedAll([i \in DOMAIN input.lines |-> Declared(input.lines[i])])
    /\ xml.taxes \in PrintedAll([i \in DOMAIN input.taxes |-> input.taxes[i].amount])
    /\ xml.subtotal \in Printed(Subtotal) /\ xml.total \in Printed(TotalAmount)

Inv == Requested /\ Seen /\ Behind /\ Closed /\ Hashed /\ Stated

\* Before the first check nothing is seen, hashed or printed.
LEMMA InvStarts ==
  Init => Inv
<1> SUFFICES ASSUME Init PROVE Inv
  OBVIOUS
<1>1. Requested
  BY ValidationsAssumption DEF Init, Requested
<1>2. Seen /\ Behind /\ Closed
  <2>1. /\ next = 1 /\ at = "lines" /\ verdict = "none"
    BY DEF Init
  <2>2. Seen
    <3>1. ASSUME NEW i \in DOMAIN input.lines PROVE ~(i < 1)
      BY <1>1, LenProperties DEF Requested
    <3> QED BY <2>1, <3>1 DEF Seen
  <2> QED BY <2>1, <2>2 DEF Behind, Closed
<1>3. Hashed /\ Stated
  BY DEF Init, Hashed, Stated
<1> QED BY <1>1, <1>2, <1>3 DEF Inv

\* A step that leaves the request, the CUFE and the XML alone, and an acceptance as it
\* is, leaves what is known of them.
LEMMA Apply ==
  ASSUME Requested, Hashed, Stated, UNCHANGED <<input, cufe, xml>>, verdict = "accepted" => verdict' = verdict
  PROVE  Requested' /\ Hashed' /\ Stated'
<1>1. Requested'
  BY DEF Requested
<1>2. Hashed'
  BY DEF Hashed, ValBruto, ValIva, ValAdicional, ValTotal, TaxOf, Subtotal, TotalTax, TotalAmount
<1>3. Stated'
  BY DEF Stated, Subtotal, TotalTax, TotalAmount
<1> QED BY <1>1, <1>2, <1>3

\* A check that stops the request without accepting it keeps the invariant.
LEMMA Stops ==
  ASSUME Inv, at # "done", NEW with \in {"rejected", "crashed"}, Stop(with), UNCHANGED <<input, textual, cufe, xml>>
  PROVE  Inv'
<1>1. verdict = "none" /\ verdict' = with /\ at' = "done" /\ next' = next
  BY DEF Inv, Closed, Stop
<1>2. Requested' /\ Hashed' /\ Stated'
  BY <1>1, Apply DEF Inv
<1>3. Seen' /\ Behind' /\ Closed'
  BY <1>1 DEF Inv, Seen, Behind, Closed
<1> QED BY <1>2, <1>3 DEF Inv

\* So does one that lets the next check begin.
LEMMA Goes ==
  ASSUME Inv, NEW check \in {"taxes", "totals", "rest"}, Goto(check), at # "done",
         UNCHANGED <<input, textual, cufe, xml, verdict>>,
         LinesClose, check \in {"totals", "rest"} => TaxesKnown
  PROVE  Inv'
<1>1. verdict = "none" /\ at' = check /\ next' = 1
  BY DEF Inv, Closed, Goto
<1>2. Requested' /\ Hashed' /\ Stated'
  BY Apply DEF Inv
<1>3. Seen'
  <2>1. ASSUME NEW i \in DOMAIN input.taxes PROVE ~(i < 1)
    BY LenProperties DEF Inv, Requested
  <2> QED BY <1>1, <2>1 DEF Seen
<1>4. Behind' /\ Closed'
  BY <1>1 DEF Behind, Closed, LinesClose, TaxesKnown
<1> QED BY <1>2, <1>3, <1>4 DEF Inv

\* A line that passes is close to its product, and is counted as seen.
LEMMA CheckLineKeeps ==
  ASSUME Inv, CheckLine
  PROVE  Inv'
<1> DEFINE l == input.lines[next]
<1>1. at = "lines" /\ UNCHANGED <<input, textual, cufe, xml>> /\ verdict = "none"
  BY DEF CheckLine, Inv, Closed
<1>2. PICK expected \in Nearest(l.quantity * l.price) :
        IF LinePasses(l, expected)
        THEN sum' = sum + LineAmount(l) /\ next' = next + 1 /\ UNCHANGED <<at, verdict>>
        ELSE Stop("rejected")
  BY DEF CheckLine
<1>3. CASE ~LinePasses(l, expected)
  BY <1>1, <1>2, <1>3, Stops
<1>4. CASE LinePasses(l, expected)
  <2>1. next' = next + 1 /\ UNCHANGED <<at, verdict>> /\ Close(l)
    BY <1>2, <1>4 DEF LinePasses, Close
  <2>2. Requested' /\ Hashed' /\ Stated'
    BY <1>1, <2>1, Apply DEF Inv
  <2>3. Seen'
    <3>1. next \in Nat /\ \A i \in DOMAIN input.lines : i < next => Close(input.lines[i])
      BY <1>1 DEF Inv, Seen
    <3>2. ASSUME NEW i \in DOMAIN input.lines PROVE i \in Int
      BY LenProperties DEF Inv, Requested
    <3>3. ASSUME NEW i \in DOMAIN input.lines, i < next + 1 PROVE Close(input.lines[i])
      <4>1. i < next \/ i = next
        BY <3>1, <3>2, <3>3
      <4> QED BY <2>1, <3>1, <4>1
    <3> QED BY <1>1, <2>1, <3>1, <3>3 DEF Seen
  <2>4. Behind' /\ Closed'
    BY <1>1, <2>1 DEF Inv, Behind, Closed
  <2> QED BY <2>2, <2>3, <2>4 DEF Inv
<1> QED BY <1>3, <1>4

\* A tax that passes has one of the eight codes, and is counted as seen.
LEMMA CheckTaxKeeps ==
  ASSUME Inv, CheckTax
  PROVE  Inv'
<1> DEFINE t == input.taxes[next]
<1>1. at = "taxes" /\ UNCHANGED <<input, textual, cufe, xml>> /\ verdict = "none"
  BY DEF CheckTax, Inv, Closed
<1>2. CASE Stop("rejected")
  BY <1>1, <1>2, Stops
<1>3. CASE ~Stop("rejected")
  <2>1. next' = next + 1 /\ UNCHANGED <<at, verdict>> /\ t.code \in Codes
    BY <1>3 DEF CheckTax
  <2>2. Requested' /\ Hashed' /\ Stated'
    BY <1>1, <2>1, Apply DEF Inv
  <2>3. Seen'
    <3>1. next \in Nat /\ \A i \in DOMAIN input.taxes : i < next => input.taxes[i].code \in Codes
      BY <1>1 DEF Inv, Seen
    <3>2. ASSUME NEW i \in DOMAIN input.taxes PROVE i \in Int
      BY LenProperties DEF Inv, Requested
    <3>3. ASSUME NEW i \in DOMAIN input.taxes, i < next + 1 PROVE input.taxes[i].code \in Codes
      <4>1. i < next \/ i = next
        BY <3>1, <3>2, <3>3
      <4> QED BY <2>1, <3>1, <4>1
    <3> QED BY <1>1, <2>1, <3>1, <3>3 DEF Seen
  <2>4. Behind' /\ Closed'
    BY <1>1, <2>1 DEF Inv, Behind, Closed, LinesClose, TaxesKnown
  <2> QED BY <2>2, <2>3, <2>4 DEF Inv
<1> QED BY <1>2, <1>3

\* The loop over the lines ends past the last one: all are close.
LEMMA CheckSubtotalKeeps ==
  ASSUME Inv, CheckSubtotal
  PROVE  Inv'
<1>1. at = "lines" /\ next > Len(input.lines) /\ UNCHANGED <<input, textual, cufe, xml>>
  BY DEF CheckSubtotal
<1>2. Stop("rejected") \/ (Goto("taxes") /\ UNCHANGED verdict)
  BY DEF CheckSubtotal
<1>3. LinesClose
  <2>1. ASSUME NEW i \in DOMAIN input.lines PROVE i < next
    BY <1>1, LenProperties DEF Inv, Requested, Seen
  <2> QED BY <1>1, <2>1 DEF Inv, Seen, LinesClose
<1>4. CASE Stop("rejected")
  BY <1>1, <1>4, Stops
<1>5. CASE Goto("taxes") /\ UNCHANGED verdict
  BY <1>1, <1>3, <1>5, Goes
<1> QED BY <1>2, <1>4, <1>5

\* The loop over the taxes ends past the last one: all codes are known.
LEMMA CheckTotalTaxKeeps ==
  ASSUME Inv, CheckTotalTax
  PROVE  Inv'
<1>1. at = "taxes" /\ next > Len(input.taxes) /\ UNCHANGED <<input, textual, cufe, xml>>
  BY DEF CheckTotalTax
<1>2. Stop("rejected") \/ (Goto("totals") /\ UNCHANGED verdict)
  BY DEF CheckTotalTax
<1>3. LinesClose /\ TaxesKnown
  <2>1. ASSUME NEW i \in DOMAIN input.taxes PROVE i < next
    BY <1>1, LenProperties DEF Inv, Requested, Seen
  <2> QED BY <1>1, <2>1 DEF Inv, Seen, Behind, TaxesKnown
<1>4. CASE Stop("rejected")
  BY <1>1, <1>4, Stops
<1>5. CASE Goto("totals") /\ UNCHANGED verdict
  BY <1>1, <1>3, <1>5, Goes
<1> QED BY <1>2, <1>4, <1>5

\* The check of the totals keeps the invariant.
LEMMA CheckTotalsKeeps ==
  ASSUME Inv, CheckTotals
  PROVE  Inv'
<1>1. at = "totals" /\ UNCHANGED <<input, textual, cufe, xml>>
  BY DEF CheckTotals
<1>2. Stop("rejected") \/ (Goto("rest") /\ UNCHANGED verdict)
  BY DEF CheckTotals
<1>3. LinesClose /\ TaxesKnown
  BY <1>1 DEF Inv, Behind
<1>4. CASE Stop("rejected")
  BY <1>1, <1>4, Stops
<1>5. CASE Goto("rest") /\ UNCHANGED verdict
  BY <1>1, <1>3, <1>5, Goes
<1> QED BY <1>2, <1>4, <1>5

\* Only the last check accepts, with both loops behind it.
LEMMA CheckRestKeeps ==
  ASSUME Inv, CheckRest
  PROVE  Inv'
<1>1. at = "rest" /\ UNCHANGED <<input, textual, cufe, xml>> /\ verdict = "none"
  BY DEF CheckRest, Inv, Closed
<1>2. Stop("rejected") \/ Stop("accepted")
  BY DEF CheckRest
<1>3. CASE Stop("rejected")
  BY <1>1, <1>3, Stops
<1>4. CASE Stop("accepted")
  <2>1. verdict' = "accepted" /\ at' = "done" /\ next' = next
    BY <1>4 DEF Stop
  <2>2. Requested' /\ Hashed' /\ Stated'
    BY <1>1, <2>1, Apply DEF Inv
  <2>3. Seen' /\ Behind' /\ Closed'
    BY <1>1, <2>1 DEF Inv, Seen, Behind, Closed, LinesClose, TaxesKnown
  <2> QED BY <2>2, <2>3 DEF Inv
<1> QED BY <1>2, <1>3, <1>4

\* The CUFE is made of the amounts of an accepted request.
LEMMA GenerateCufeKeeps ==
  ASSUME Inv, GenerateCufe
  PROVE  Inv'
<1>1. /\ verdict = "accepted" /\ cufe = NoCufe /\ UNCHANGED <<input, textual, at, next, sum, verdict, xml>>
      /\ cufe' = [bruto |-> ValBruto, iva |-> ValIva, adicional |-> ValAdicional, total |-> ValTotal]
  BY DEF GenerateCufe
<1>2. Requested' /\ Seen' /\ Behind' /\ Closed'
  BY <1>1 DEF Inv, Requested, Seen, Behind, Closed, LinesClose, TaxesKnown
<1>3. Hashed'
  BY <1>1 DEF Hashed, ValBruto, ValIva, ValAdicional, ValTotal, TaxOf, Subtotal, TotalTax, TotalAmount
<1>4. Stated'
  BY <1>1 DEF Inv, Stated
<1> QED BY <1>2, <1>3, <1>4 DEF Inv

\* The XML is made of the same request, once there is a CUFE.
LEMMA BuildXmlKeeps ==
  ASSUME Inv, BuildXml
  PROVE  Inv'
<1>1. cufe # NoCufe /\ UNCHANGED <<input, textual, at, next, sum, verdict, cufe>>
  BY DEF BuildXml
<1>2. Requested' /\ Seen' /\ Behind' /\ Closed'
  BY <1>1 DEF Inv, Requested, Seen, Behind, Closed, LinesClose, TaxesKnown
<1>3. Hashed'
  BY <1>1 DEF Inv, Hashed, ValBruto, ValIva, ValAdicional, ValTotal, TaxOf, Subtotal, TotalTax, TotalAmount
<1>4. Stated'
  <2>1. PICK lines \in PrintedAll([i \in DOMAIN input.lines |-> Declared(input.lines[i])]),
             taxes \in PrintedAll([i \in DOMAIN input.taxes |-> input.taxes[i].amount]),
             subtotal \in Printed(Subtotal), total \in Printed(TotalAmount) :
          xml' = [lines |-> lines, taxes |-> taxes, subtotal |-> subtotal, total |-> total]
    BY DEF BuildXml
  <2>2. xml'.lines = lines /\ xml'.taxes = taxes /\ xml'.subtotal = subtotal /\ xml'.total = total
    BY <2>1
  <2>3. UNCHANGED <<Subtotal, TotalAmount>>
    BY <1>1 DEF Subtotal, TotalAmount, TotalTax
  <2> QED BY <1>1, <2>2, <2>3 DEF Stated
<1> QED BY <1>2, <1>3, <1>4 DEF Inv

\* Every step keeps the invariant.
LEMMA InvKept ==
  ASSUME Inv, [Next]_vars
  PROVE  Inv'
<1>1. CASE CountLines
  BY <1>1, Stops DEF CountLines
<1>2. CASE CountTaxes
  BY <1>2, Stops DEF CountTaxes
<1>3. CASE CheckTextTotals
  BY <1>3, Stops DEF CheckTextTotals
<1>4. CASE UNCHANGED vars
  <2>1. Requested' /\ Hashed' /\ Stated'
    BY <1>4, Apply DEF Inv, vars
  <2>2. Seen' /\ Behind' /\ Closed'
    BY <1>4 DEF Inv, vars, Seen, Behind, Closed, LinesClose, TaxesKnown
  <2> QED BY <2>1, <2>2 DEF Inv
<1> QED BY <1>1, <1>2, <1>3, <1>4, CheckLineKeeps, CheckSubtotalKeeps, CheckTaxKeeps, CheckTotalTaxKeeps,
           CheckTotalsKeeps, CheckRestKeeps, GenerateCufeKeeps, BuildXmlKeeps DEF Next

\* Inv is an invariant: what was accepted passed every line and every tax, and the
\* CUFE and the XML are those of the accepted request.
THEOREM Invariance == Spec => []Inv
BY InvStarts, InvKept, PTL DEF Spec

-------------------------------------------------------------------------------

(* The bounds *)

\* The lists that are added up.
Exacts == [i \in DOMAIN input.lines |-> input.lines[i].quantity * input.lines[i].price]
Amounts == [i \in DOMAIN input.lines |-> LineAmount(input.lines[i])]
TaxAmounts == [i \in DOMAIN input.taxes |-> input.taxes[i].amount]
Of(codes) ==
  [i \in DOMAIN input.taxes |-> IF input.taxes[i].code \in codes THEN input.taxes[i].amount ELSE 0]
NotOf(codes) ==
  [i \in DOMAIN input.taxes |-> IF input.taxes[i].code \in codes THEN 0 ELSE input.taxes[i].amount]

\* The lists validateInvoice, the CUFE and the XML add up are lists of amounts.
LEMMA Listings ==
  ASSUME Requested
  PROVE  /\ Len(input.lines) \in Nat /\ Len(input.taxes) \in Nat
         /\ DOMAIN input.lines = 1..Len(input.lines) /\ DOMAIN input.taxes = 1..Len(input.taxes)
         /\ Listing(Exacts, Len(input.lines)) /\ Listing(Amounts, Len(input.lines))
         /\ Listing(TaxAmounts, Len(input.taxes))
         /\ \A codes : Listing(Of(codes), Len(input.taxes)) /\ Listing(NotOf(codes), Len(input.taxes))
<1>1. /\ Len(input.lines) \in Nat /\ Len(input.taxes) \in Nat
      /\ DOMAIN input.lines = 1..Len(input.lines) /\ DOMAIN input.taxes = 1..Len(input.taxes)
  BY LenProperties DEF Requested
<1>2. ASSUME NEW i \in DOMAIN input.lines
      PROVE  /\ input.lines[i].quantity * input.lines[i].price \in Int
             /\ LineAmount(input.lines[i]) \in Int
  <2>1. input.lines[i] \in Lines
    BY ElementOfSeq, <1>1 DEF Requested
  <2>2. /\ input.lines[i].quantity \in Int /\ input.lines[i].price \in Int
        /\ input.lines[i].amount \in Int
    BY <2>1 DEF Lines
  <2> QED BY <2>2 DEF LineAmount
<1>3. ASSUME NEW i \in DOMAIN input.taxes PROVE input.taxes[i].amount \in Int
  <2>1. input.taxes[i] \in Taxes
    BY ElementOfSeq, <1>1 DEF Requested
  <2> QED BY <2>1 DEF Taxes
<1>4. Listing(Exacts, Len(input.lines)) /\ Listing(Amounts, Len(input.lines))
  BY <1>1, <1>2 DEF Listing, Exacts, Amounts
<1>5. Listing(TaxAmounts, Len(input.taxes))
  BY <1>1, <1>3 DEF Listing, TaxAmounts
<1>6. ASSUME NEW codes PROVE Listing(Of(codes), Len(input.taxes)) /\ Listing(NotOf(codes), Len(input.taxes))
  BY <1>1, <1>3 DEF Listing, Of, NotOf
<1> QED BY <1>1, <1>4, <1>5, <1>6

\* Their sums are amounts.
LEMMA SumsAreAmounts ==
  ASSUME NEW n \in Nat, NEW f, Listing(f, n)
  PROVE  Total(f) \in Int
<1>1. PICK p : Running(p, f, n)
  BY Partials
<1> QED BY <1>1 DEF Running

\* A line that passes is a peso and half a cent off at most: a peso from the binary
\* rounding of its product, which is half a cent off.
LEMMA CloseIsNear ==
  ASSUME NEW l \in Lines, Close(l)
  PROVE  Abs(2 * LineAmount(l) - 2 * (l.quantity * l.price)) <= 2 * Peso + Grain
<1> DEFINE e == l.quantity * l.price
           a == LineAmount(l)
<1>1. e \in Int /\ a \in Int
  <2>1. l.quantity \in Int /\ l.price \in Int /\ l.amount \in Int
    BY DEF Lines
  <2> QED BY <2>1 DEF LineAmount
<1>2. Grain \in Nat \ {0} /\ Peso \in Nat
  BY ValidationsAssumption
<1>3. PICK expected \in Nearest(e) : ~Far(a, expected)
  BY DEF Close
<1> HIDE DEF e, a
<1>4. Fixed(e) \in Int
  BY <1>1, FixedNear
<1>5. expected \in Int /\ 2 * Abs(expected - e) <= Grain
  BY <1>2, <1>4 DEF Nearest
<1>6. Abs(a - expected) <= Peso
  BY <1>1, <1>2, <1>3, <1>5 DEF Far, Abs
<1>7. Abs(2 * a - 2 * e) <= 2 * Peso + Grain
  BY <1>1, <1>2, <1>5, <1>6 DEF Abs
<1> QED BY <1>7 DEF a, e

\* However many lines a request has, an accepted subtotal strays from quantity times
\* price by a peso and half a cent for each at most.
THEOREM DriftSafe == Spec => []DriftBounded
<1>1. Inv => DriftBounded
  <2> SUFFICES ASSUME Inv, verdict = "accepted" PROVE 2 * Abs(Subtotal - Total(Exacts)) <= Len(input.lines) * (2 * Peso + Grain)
    BY DEF DriftBounded, Exacts
  <2> DEFINE n == Len(input.lines)
             c == 2 * Peso + Grain
  <2>1. n \in Nat /\ DOMAIN input.lines = 1..n /\ Listing(Exacts, n) /\ Listing(Amounts, n)
    BY Listings DEF Inv
  <2>2. c \in Nat
    BY ValidationsAssumption
  <2>3. Near(Amounts, Exacts, 2, 2, c, n)
    <3>1. ASSUME NEW i \in 1..n PROVE Abs(Gap(2, 2, Amounts[i], Exacts[i])) <= c
      <4>1. input.lines[i] \in Lines /\ Close(input.lines[i])
        BY <2>1, ElementOfSeq DEF Inv, Requested, Behind, LinesClose
      <4>2. /\ Amounts[i] = LineAmount(input.lines[i])
            /\ Exacts[i] = input.lines[i].quantity * input.lines[i].price
        BY <2>1 DEF Amounts, Exacts
      <4> QED BY <4>1, <4>2, CloseIsNear DEF Gap
    <3> QED BY <3>1 DEF Near
  <2>4. Subtotal = Total(Amounts)
    BY DEF Subtotal, Amounts
  <2> HIDE DEF n, c
  <2>5. /\ Total(Amounts) \in Int /\ Total(Exacts) \in Int
        /\ Abs(2 * Total(Amounts) - 2 * Total(Exacts)) <= n * c
    BY <2>1, <2>2, <2>3, TotalsNear
  <2>6. n * c \in Int
    BY <2>1, <2>2
  <2>7. 2 * Abs(Subtotal - Total(Exacts)) <= n * c
    BY <2>4, <2>5, <2>6 DEF Abs
  <2> QED BY <2>7 DEF n, c
<1> QED BY <1>1, Invariance, PTL

\* The tax of a request is that of 01, that of the codes the CUFE adds to the other
\* taxes, of which the checks let only 04 pass, and that of the codes it leaves out.
LEMMA TaxesSplit ==
  ASSUME Requested, TaxesKnown
  PROVE  /\ TotalTax \in Int /\ TaxOf({"01"}) \in Int /\ TaxOf({"04", "22", "34", "35"}) \in Int
         /\ Total(NotOf({"01", "04"})) \in Int
         /\ TotalTax = TaxOf({"01"}) + TaxOf({"04", "22", "34", "35"}) + Total(NotOf({"01", "04"}))
<1> DEFINE n == Len(input.taxes)
           others == {"04", "22", "34", "35"}
<1>1. /\ n \in Nat /\ DOMAIN input.taxes = 1..n /\ Listing(TaxAmounts, n)
      /\ Listing(Of({"01"}), n) /\ Listing(Of(others), n) /\ Listing(NotOf({"01", "04"}), n)
  BY Listings
<1>2. Split(TaxAmounts, Of({"01"}), Of(others), NotOf({"01", "04"}), n)
  <2>1. ASSUME NEW i \in 1..n
        PROVE  Rest(TaxAmounts[i], Of({"01"})[i], Of(others)[i], NotOf({"01", "04"})[i]) = 0
    <3>1. input.taxes[i] \in Taxes /\ input.taxes[i].code \in Codes
      BY <1>1, ElementOfSeq DEF Requested, TaxesKnown
    <3>2. input.taxes[i].amount \in Int
      BY <3>1 DEF Taxes
    <3>3. /\ TaxAmounts[i] = input.taxes[i].amount
          /\ Of({"01"})[i] = IF input.taxes[i].code \in {"01"} THEN input.taxes[i].amount ELSE 0
          /\ Of(others)[i] = IF input.taxes[i].code \in others THEN input.taxes[i].amount ELSE 0
          /\ NotOf({"01", "04"})[i] = IF input.taxes[i].code \in {"01", "04"} THEN 0 ELSE input.taxes[i].amount
      BY <1>1 DEF TaxAmounts, Of, NotOf
    <3>4. CASE input.taxes[i].code = "01"
      BY <3>2, <3>3, <3>4 DEF Rest
    <3>5. CASE input.taxes[i].code = "04"
      BY <3>2, <3>3, <3>5 DEF Rest
    <3>6. CASE input.taxes[i].code \notin {"01", "04"}
      <4>1. input.taxes[i].code \notin others
        BY <3>1, <3>6 DEF Codes
      <4> QED BY <3>2, <3>3, <3>6, <4>1 DEF Rest
    <3> QED BY <3>4, <3>5, <3>6
  <2> HIDE DEF others
  <2> QED BY <2>1 DEF Split
<1>3. TotalTax = Total(TaxAmounts) /\ \A codes : TaxOf(codes) = Total(Of(codes))
  BY DEF TotalTax, TaxAmounts, TaxOf, Of
<1> HIDE DEF n, others
<1>4. /\ Total(TaxAmounts) \in Int /\ Total(Of({"01"})) \in Int /\ Total(Of(others)) \in Int
      /\ Total(NotOf({"01", "04"})) \in Int
      /\ Total(TaxAmounts) = Total(Of({"01"})) + Total(Of(others)) + Total(NotOf({"01", "04"}))
  BY <1>1, <1>2, Additive
<1> QED BY <1>3, <1>4 DEF others

\* The totals create computes are amounts.
LEMMA SubtotalIsAmount ==
  ASSUME Requested
  PROVE  Subtotal \in Int /\ TotalTax \in Int /\ TotalAmount \in Int
<1>1. Subtotal = Total(Amounts) /\ TotalTax = Total(TaxAmounts)
  BY DEF Subtotal, TotalTax, Amounts, TaxAmounts
<1> QED BY <1>1, Listings, SumsAreAmounts DEF TotalAmount

\* Whatever the amounts, the total of the CUFE is the sum of its parts and of the taxes
\* it does not list, but for two cents: four roundings of half a cent.
THEOREM CufeSafe == Spec => []CufePartsAddUp
<1>1. Inv => CufePartsAddUp
  <2> DEFINE others == {"04", "22", "34", "35"}
             unlisted == Total(NotOf({"01", "04"}))
             iva == TaxOf({"01"})
             more == TaxOf(others)
  <2> SUFFICES ASSUME Inv, cufe # NoCufe
               PROVE  Abs((cufe.total - (cufe.bruto + cufe.iva + cufe.adicional)) * Grain - unlisted) <= 2 * Grain
    BY DEF CufePartsAddUp, NotOf
  <2>1. Requested /\ TaxesKnown /\ cufe.bruto = Fixed(Subtotal) /\ cufe.iva = Fixed(iva)
        /\ cufe.adicional = Fixed(more) /\ cufe.total = Fixed(TotalAmount)
    BY DEF Inv, Hashed, Behind, ValBruto, ValIva, ValAdicional, ValTotal
  <2>2. /\ iva \in Int /\ more \in Int /\ unlisted \in Int
        /\ TotalTax = iva + more + unlisted
    BY <2>1, TaxesSplit
  <2>3. Subtotal \in Int /\ TotalAmount \in Int /\ TotalAmount = Subtotal + iva + more + unlisted
    BY <2>1, <2>2, SubtotalIsAmount DEF TotalAmount
  <2> HIDE DEF unlisted, iva, more
  <2> DEFINE a == cufe.bruto
             b == cufe.iva
             c == cufe.adicional
             d == cufe.total
  <2>4. /\ a \in Int /\ Abs(2 * (Grain * a) - 2 * Subtotal) <= Grain
        /\ b \in Int /\ Abs(2 * (Grain * b) - 2 * iva) <= Grain
        /\ c \in Int /\ Abs(2 * (Grain * c) - 2 * more) <= Grain
        /\ d \in Int /\ Abs(2 * (Grain * d) - 2 * TotalAmount) <= Grain
    BY <2>1, <2>2, <2>3, FixedNear
  <2> HIDE DEF a, b, c, d
  <2>5. Grain \in Nat \ {0}
    BY ValidationsAssumption
  <2>6. /\ Grain * a \in Int /\ Grain * b \in Int /\ Grain * c \in Int /\ Grain * d \in Int
        /\ (d - (a + b + c)) * Grain = Grain * d - (Grain * a + Grain * b + Grain * c)
    BY <2>4, <2>5
  <2>7. Abs((d - (a + b + c)) * Grain - unlisted) <= 2 * Grain
    BY <2>2, <2>3, <2>4, <2>5, <2>6 DEF Abs
  <2> QED BY <2>7 DEF a, b, c, d
<1> QED BY <1>1, Invariance, PTL

\* Whatever the amounts, the XML states the two totals the CUFE was made of, but for a
\* cent where one ends in half a cent.
THEOREM StatedSafe == Spec => []XmlStatesTheCufe
<1>1. Inv => XmlStatesTheCufe
  <2> SUFFICES ASSUME Inv, xml # NoXml
               PROVE  Agree(xml.subtotal, cufe.bruto, Subtotal) /\ Agree(xml.total, cufe.total, TotalAmount)
    BY DEF XmlStatesTheCufe
  <2>1. /\ Requested /\ xml.subtotal \in Printed(Subtotal) /\ xml.total \in Printed(TotalAmount)
        /\ cufe.bruto = Fixed(Subtotal) /\ cufe.total = Fixed(TotalAmount)
    BY DEF Inv, Stated, Hashed, ValBruto, ValTotal
  <2>2. Subtotal \in Int /\ TotalAmount \in Int
    BY <2>1, SubtotalIsAmount
  <2>3. /\ xml.subtotal \in Int /\ Abs(2 * (Grain * xml.subtotal) - 2 * Subtotal) <= Grain
        /\ xml.total \in Int /\ Abs(2 * (Grain * xml.total) - 2 * TotalAmount) <= Grain
    BY <2>1, <2>2, PrintedNear
  <2>4. /\ cufe.bruto \in Int /\ Abs(2 * (Grain * cufe.bruto) - 2 * Subtotal) <= Grain
        /\ cufe.total \in Int /\ Abs(2 * (Grain * cufe.total) - 2 * TotalAmount) <= Grain
    BY <2>1, <2>2, FixedNear
  <2> QED BY <2>2, <2>3, <2>4, Apart
<1> QED BY <1>1, Invariance, PTL

\* A list printed amount by amount adds up to the sum of the amounts, but for half a
\* cent for each.
LEMMA PrintedAdds ==
  ASSUME NEW n \in Nat, NEW a, Listing(a, n), DOMAIN a = 1..n, NEW f \in PrintedAll(a)
  PROVE  Total(f) \in Int /\ Abs(2 * (Grain * Total(f)) - 2 * Total(a)) <= n * Grain
<1>1. Grain \in Nat \ {0} /\ 2 * Grain \in Int
  BY ValidationsAssumption
<1>2. DOMAIN f = 1..n /\ f = [i \in 1..n |-> f[i]]
  BY DEF PrintedAll
<1>3. ASSUME NEW i \in 1..n PROVE f[i] \in Int /\ Abs(2 * (Grain * f[i]) - 2 * a[i]) <= Grain
  <2>1. a[i] \in Int /\ f[i] \in Printed(a[i])
    BY DEF Listing, PrintedAll
  <2> QED BY <2>1, PrintedNear
<1>4. Listing(f, n)
  BY <1>2, <1>3 DEF Listing
<1>5. Near(f, a, 2 * Grain, 2, Grain, n)
  <2>1. ASSUME NEW i \in 1..n PROVE Abs(Gap(2 * Grain, 2, f[i], a[i])) <= Grain
    <3>1. (2 * Grain) * f[i] = 2 * (Grain * f[i])
      BY <1>1, <1>3
    <3> QED BY <1>3, <3>1 DEF Gap
  <2> QED BY <2>1 DEF Near
<1>6. Total(f) \in Int /\ Abs((2 * Grain) * Total(f) - 2 * Total(a)) <= n * Grain
  BY <1>1, <1>4, <1>5, TotalsNear
<1>7. (2 * Grain) * Total(f) = 2 * (Grain * Total(f))
  BY <1>1, <1>6
<1> QED BY <1>6, <1>7

\* However long the request, the lines of its XML add up to the subtotal and its
\* subtotal and taxes to the total, but for half a cent for each amount printed.
THEOREM SumsSafe == Spec => []XmlAddsUp
<1>1. Inv => XmlAddsUp
  <2> DEFINE n == Len(input.lines)
             m == Len(input.taxes)
  <2> SUFFICES ASSUME Inv, xml # NoXml
               PROVE  /\ 2 * Abs(Total(xml.lines) - xml.subtotal) <= n + 1
                      /\ 2 * Abs(xml.subtotal + Total(xml.taxes) - xml.total) <= m + 2
    BY DEF XmlAddsUp
  <2>1. /\ Requested /\ xml.subtotal \in Printed(Subtotal) /\ xml.total \in Printed(TotalAmount)
        /\ xml.lines \in PrintedAll(Amounts) /\ xml.taxes \in PrintedAll(TaxAmounts)
    BY DEF Inv, Stated, Declared, Amounts, TaxAmounts
  <2>2. /\ n \in Nat /\ m \in Nat /\ Listing(Amounts, n) /\ Listing(TaxAmounts, m)
        /\ DOMAIN Amounts = 1..n /\ DOMAIN TaxAmounts = 1..m
    BY <2>1, Listings DEF Amounts, TaxAmounts
  <2>3. Subtotal = Total(Amounts) /\ TotalTax = Total(TaxAmounts)
    BY DEF Subtotal, TotalTax, Amounts, TaxAmounts
  <2>4. Subtotal \in Int /\ TotalTax \in Int /\ TotalAmount \in Int /\ TotalAmount = Subtotal + TotalTax
    BY <2>1, SubtotalIsAmount DEF TotalAmount
  <2> DEFINE s == xml.subtotal
             t == xml.total
             L == Total(xml.lines)
             T == Total(xml.taxes)
  <2> HIDE DEF n, m
  <2>5. /\ L \in Int /\ Abs(2 * (Grain * L) - 2 * Subtotal) <= n * Grain
        /\ T \in Int /\ Abs(2 * (Grain * T) - 2 * TotalTax) <= m * Grain
    BY <2>1, <2>2, <2>3, PrintedAdds
  <2>6. /\ s \in Int /\ Abs(2 * (Grain * s) - 2 * Subtotal) <= Grain
        /\ t \in Int /\ Abs(2 * (Grain * t) - 2 * TotalAmount) <= Grain
    BY <2>1, <2>4, PrintedNear
  <2>7. Grain \in Nat \ {0}
    BY ValidationsAssumption
  <2> HIDE DEF s, t, L, T
  <2>8. /\ n * Grain \in Int /\ m * Grain \in Int /\ Grain * L \in Int /\ Grain * T \in Int
        /\ Grain * s \in Int /\ Grain * t \in Int
        /\ Grain * (n + 1) = n * Grain + Grain /\ Grain * (m + 2) = m * Grain + 2 * Grain
        /\ Grain * (2 * (L - s)) = 2 * (Grain * L) - 2 * (Grain * s)
        /\ Grain * (2 * (s + T - t)) = 2 * (Grain * s) + 2 * (Grain * T) - 2 * (Grain * t)
    BY <2>2, <2>5, <2>6, <2>7
  <2>9. Abs(Grain * (2 * (L - s))) <= Grain * (n + 1)
    BY <2>4, <2>5, <2>6, <2>7, <2>8 DEF Abs
  <2>10. Abs(Grain * (2 * (s + T - t))) <= Grain * (m + 2)
    BY <2>4, <2>5, <2>6, <2>7, <2>8 DEF Abs
  <2>11. Abs(2 * (L - s)) <= n + 1 /\ Abs(2 * (s + T - t)) <= m + 2
    BY <2>2, <2>5, <2>6, <2>9, <2>10, Cancel
  <2>12. 2 * Abs(L - s) <= n + 1 /\ 2 * Abs(s + T - t) <= m + 2
    BY <2>2, <2>5, <2>6, <2>11 DEF Abs
  <2> QED BY <2>12 DEF s, t, L, T
<1> QED BY <1>1, Invariance, PTL

-------------------------------------------------------------------------------

\* As create calls validateInvoice, with the totals as strings, no request is ever
\* accepted, whatever it asks for: the check of the totals throws.
THEOREM NothingPasses ==
  ASSUME Textual = {TRUE}
  PROVE  Spec => [](verdict # "accepted" /\ cufe = NoCufe /\ xml = NoXml)
<1> DEFINE Barred ==
      /\ textual /\ at # "rest"
      /\ verdict # "accepted" /\ cufe = NoCufe /\ xml = NoXml
<1>1. Init => Barred
  BY DEF Init
<1>2. Barred /\ [Next]_vars => Barred'
  <2> SUFFICES ASSUME Barred, [Next]_vars PROVE Barred'
    OBVIOUS
  <2>1. CASE CountLines \/ CheckLine \/ CheckSubtotal
    BY <2>1 DEF CountLines, CheckLine, CheckSubtotal, Stop, Goto
  <2>2. CASE CountTaxes \/ CheckTax \/ CheckTotalTax
    BY <2>2 DEF CountTaxes, CheckTax, CheckTotalTax, Stop, Goto
  <2>3. CASE CheckTotals \/ CheckTextTotals \/ CheckRest
    BY <2>3 DEF CheckTotals, CheckTextTotals, CheckRest, Stop
  <2>4. CASE GenerateCufe \/ BuildXml \/ UNCHANGED vars
    BY <2>4 DEF GenerateCufe, BuildXml, vars
  <2> QED BY <2>1, <2>2, <2>3, <2>4 DEF Next
<1> QED BY <1>1, <1>2, PTL DEF Spec
===============================================================================
