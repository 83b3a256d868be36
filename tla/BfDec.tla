------------------------------- MODULE BfDec -------------------------------
(***************************************************************************)
(* src/quickjs/libbf.c: the decimal numbers behind BigDecimal.  A number   *)
(* is a sign, an exponent and limbs of LimbDigits decimal digits, least    *)
(* significant first, the top digit and the lowest limb not zero; its      *)
(* value is 0.tab * 10^expn.  A machine word has WordBits bits and holds a *)
(* limb in more than half of its range, as 64 bits hold 10^19: the carries *)
(* of additions are found by wrapping around.  Memory never runs out, and  *)
(* the divisions by powers of ten, which the code does with a table of     *)
(* reciprocals, are exact.                                                 *)
(***************************************************************************)
EXTENDS Integers, Sequences, SequencesExt

CONSTANTS LimbDigits, WordBits,
          UdivNormThreshold,      \* UDIV1NORM_THRESHOLD
          IntMax, IntDigits       \* INT32_MAX and the number of its digits

VARIABLES x, y, prec, flags, op, res, status
vars == <<x, y, prec, flags, op, res, status>>

D == 10^LimbDigits                \* BF_DEC_BASE
W == 2^WordBits
ExpZero == -1000                  \* BF_EXP_ZERO, BF_EXP_INF, BF_EXP_NAN
ExpInf == 1000
ExpNan == 1001
PrecInf == 500                    \* BF_PREC_INF

Least(a, b) == IF a < b THEN a ELSE b
Most(a, b) == IF a > b THEN a ELSE b
CeilDiv(a, b) == (a + b - 1) \div b

(***************************************************************************)
(* Limb arrays.  Positions count from 0 as in the code.                    *)
(***************************************************************************)
At(tab, i) == tab[i + 1]
Slice(tab, from, n) == SubSeq(tab, from + 1, from + n)
Put(tab, from, part) == [k \in 1..Len(tab) |-> IF k > from /\ k <= from + Len(part) THEN part[k - from] ELSE tab[k]]
Zeros(n) == [k \in 1..n |-> 0]
\* The loop of the mp_ functions: limb i gives <<result limb, carry>>.
Loop(n, carry, F(_, _)) ==
    FoldLeft(LAMBDA acc, i : LET t == F(i, acc.k) IN [tab |-> Append(acc.tab, t[1]), k |-> t[2]],
             [tab |-> <<>>, k |-> carry], [i \in 1..n |-> i])
mp_scan_nz(tab) == \E k \in 1..Len(tab) : tab[k] # 0
mp_cmp(a, b) ==
    IF a = b THEN 0
    ELSE LET i == CHOOSE k \in 1..Len(a) : a[k] # b[k] /\ \A m \in (k + 1)..Len(a) : a[m] = b[m]
         IN  IF a[i] < b[i] THEN -1 ELSE 1

\* v + w - base in a word: <<limb, carry>>; a carry is seen by the word not growing.
AddLimb(v, w) == LET a == (v + w - D) % W IN IF a <= v THEN <<a, 1>> ELSE <<(a + D) % W, 0>>
SubLimb(v, w) == LET a == (v - w) % W IN IF a > v THEN <<(a + D) % W, 1>> ELSE <<a, 0>>
mp_add_dec(a, b, carry) == Loop(Len(a), carry, LAMBDA i, k : AddLimb(a[i], b[i] + k))
\* The code stops at the first limb without a carry: the others stay.
mp_add_ui_dec(a, b) == Loop(Len(a), b, LAMBDA i, k : IF k = 0 THEN <<a[i], 0>> ELSE AddLimb(a[i], k))
mp_sub_dec(a, b, carry) == Loop(Len(a), carry, LAMBDA i, k : SubLimb(a[i], b[i] + k))
mp_sub_ui_dec(a, b) == Loop(Len(a), b, LAMBDA i, k : IF k = 0 THEN <<a[i], 0>> ELSE SubLimb(a[i], k))
mp_mul1_dec(a, b, l) == Loop(Len(a), l, LAMBDA i, k : <<(a[i] * b + k) % D, (a[i] * b + k) \div D>>)
mp_add_mul1_dec(r, a, b) ==
    Loop(Len(a), 0, LAMBDA i, k : <<(a[i] * b + k + r[i]) % D, (a[i] * b + k + r[i]) \div D>>)
mp_sub_mul1_dec(r, a, b) ==
    Loop(Len(a), 0, LAMBDA i, k : LET t == a[i] * b + k
                                      s == SubLimb(r[i], t % D)
                                  IN  <<s[1], t \div D + s[2]>>)
mp_mul_basecase_dec(a, b) ==
    FoldLeft(LAMBDA acc, i : LET m == mp_add_mul1_dec(Slice(acc, i - 1, Len(a)), a, b[i])
                             IN  Put(acc, i - 1, Append(m.tab, m.k)),
             Zeros(Len(a) + Len(b)), [i \in 1..Len(b) |-> i])

\* Division of two words by a normalized one through its reciprocal.
udiv1norm_init(d) == (((0 - d - 1) % W) * W + W - 1) \div d
udiv1norm(a1, a0, d, d_inv) ==
    LET n1m == IF a0 >= W \div 2 THEN 1 ELSE 0
        q == ((d_inv * ((a1 + n1m) % W) + ((a0 + n1m * d) % W)) \div W + a1) % W
        a == (a1 * W + a0 - q * d - d) % (W * W)
        ah == a \div W
    IN  <<(q + 1 + ah) % W, ((a % W) + (IF ah = 0 THEN 0 ELSE d)) % W>>
clz(a) == CHOOSE n \in 0..(WordBits - 1) : a * 2^n < W /\ a * 2^(n + 1) >= W

\* The limbs of a loop that goes down.
Upwards(down) == [tab |-> Reverse(down.tab), k |-> down.k]
\* Halving: the remainder travels as half a limb.
Halve(a, r0) ==
    LET down == Loop(Len(a), IF r0 # 0 THEN D \div 2 ELSE 0,
                     LAMBDA i, r : LET t == a[Len(a) + 1 - i]
                                   IN  <<t \div 2 + r, IF t % 2 = 1 THEN D \div 2 ELSE 0>>)
    IN  [tab |-> Reverse(down.tab), k |-> IF down.k # 0 THEN 1 ELSE 0]
\* One limb t after the remainder r, by the reciprocal of the shifted divisor.
DivLimb(u, shift) == <<u[1], u[2] \div 2^shift>>
mp_div1_dec(a, b, r0) ==
    LET shift == clz(b)
        step(t, r) ==
            IF Len(a) < UdivNormThreshold THEN <<(r * D + t) \div b, (r * D + t) % b>>
            ELSE LET n == (r * D + t) * 2^shift
                 IN  DivLimb(udiv1norm(n \div W, n % W, b * 2^shift, udiv1norm_init(b * 2^shift)), shift)
    IN  IF b = 2 THEN Halve(a, r0) ELSE Upwards(Loop(Len(a), r0, LAMBDA i, r : step(a[Len(a) + 1 - i], r)))

\* Adding b back until the limb above reaches the base: [a, q].
RECURSIVE AddBack(_, _, _)
AddBack(a, b, q) ==
    LET s == mp_add_dec(Slice(a, 0, Len(b)), b, 0)
        top == At(a, Len(b)) + s.k
    IN  IF s.k # 0 /\ top = D THEN [a |-> Append(s.tab, top), q |-> q - 1] ELSE AddBack(Append(s.tab, top), b, q - 1)
\* Mutant: b is added back once only.
BackOnce(part, b) ==
    LET nb == Len(b)
        hi == At(part, nb)
        q == IF hi >= At(b, nb - 1) THEN D - 1 ELSE (hi * D + At(part, nb - 1)) \div At(b, nb - 1)
        m == mp_sub_mul1_dec(Slice(part, 0, nb), b, q)
        top == SubLimb(hi, m.k)
        s == mp_add_dec(m.tab, b, 0)
    IN  IF top[2] # 0 THEN [a |-> Append(s.tab, (top[1] + s.k) % W), q |-> q - 1]
        ELSE [a |-> Append(m.tab, top[1]), q |-> q]
\* One quotient digit from part, which has one limb more than b.
DigitCorrected(hi, m, b, q) ==
    LET top == SubLimb(hi, m.k)
        next == Append(m.tab, top[1])
    IN  IF top[2] # 0 THEN AddBack(next, b, q) ELSE [a |-> next, q |-> q]
DigitTaken(part, b, q) == DigitCorrected(At(part, Len(b)), mp_sub_mul1_dec(Slice(part, 0, Len(b)), b, q), b, q)
QuotientDigit(part, b) ==
    LET nb == Len(b)
        hi == At(part, nb)
    IN  DigitTaken(part, b, IF hi >= At(b, nb - 1) THEN D - 1 ELSE (hi * D + At(part, nb - 1)) \div At(b, nb - 1))
DigitPut(acc, d, at) == [a |-> Put(acc.a, at, d.a), q |-> <<d.q>> \o acc.q]
Digits(a, b, n, q0) ==
    FoldLeft(LAMBDA acc, i : DigitPut(acc, QuotientDigit(Slice(acc.a, n - i, Len(b) + 1), b), n - i),
             [a |-> a, q |-> q0], [i \in 1..n |-> i])
\* na - nb + 1 limbs of the quotient, and the remainder in the low limbs of a.
Unscaled(d, nb, mult) ==
    IF mult = 1 THEN d ELSE [d EXCEPT !.a = Put(d.a, 0, mp_div1_dec(Slice(d.a, 0, nb), mult, 0).tab)]
Scaled(am, bm, n, nb, mult) == Unscaled(Digits(Append(am.tab, am.k), bm, n + 1, <<>>), nb, mult)
mp_div_dec(a, b) ==
    LET nb == Len(b)
        n == Len(a) - nb
        top == Slice(a, n, nb)
        q1 == IF mp_cmp(top, b) >= 0 THEN 1 ELSE 0
        mult == D \div (At(b, nb - 1) + 1)
    IN  IF At(b, nb - 1) >= D \div 2
        THEN Digits(IF q1 = 1 THEN Put(a, n, mp_sub_dec(top, b, 0).tab) ELSE a, b, n, <<q1>>)
        ELSE Scaled(mp_mul1_dec(a, mult, 0), mp_mul1_dec(b, mult, 0).tab, n, nb, mult)

\* Division by 10^shift, high above the top limb: k is what falls out.
mp_shr_dec(a, shift, high) ==
    LET above(i) == IF i = Len(a) THEN high ELSE a[i + 1] % 10^shift
    IN  [tab |-> [i \in 1..Len(a) |-> a[i] \div 10^shift + above(i) * 10^(LimbDigits - shift)],
         k |-> IF a = <<>> THEN high ELSE a[1] % 10^shift]
mp_shl_dec(a, shift) ==
    LET below(i) == IF i = 1 THEN 0 ELSE a[i - 1] \div 10^(LimbDigits - shift)
    IN  [i \in 1..Len(a) |-> (a[i] % 10^(LimbDigits - shift)) * 10^shift + below(i)]

\* Through the binary root of two words.
mp_sqrtrem2_dec(a) ==
    LET n == a[2] * D + a[1]
        s == CHOOSE s \in 0..(D - 1) : s * s <= n /\ (s + 1) * (s + 1) > n
    IN  [s |-> <<s>>, a |-> <<(n - s * s) % D>>, rh |-> (n - s * s) \div D]
RECURSIVE mp_sqrtrem_dec(_)
\* a has 2n limbs; the root and the remainder have n, rh is the limb above the remainder.
\* A negative remainder: the root was one too large.
SqrtFixed(s, rem, rh) ==
    LET s2 == mp_sub_ui_dec(s, 1).tab
        back == mp_add_mul1_dec(rem, s2, 2)
        back1 == mp_add_ui_dec(back.tab, 1)
    IN  IF rh < 0 THEN [s |-> s2, a |-> back1.tab, rh |-> rh + back.k + back1.k]
        ELSE [s |-> s, a |-> rem, rh |-> rh]
\* The square of the lower half of the root is taken off the remainder.
SqrtLess(s, rem0, k, sq, l) ==
    LET high == mp_sub_ui_dec(Slice(rem0, 2 * l, Len(rem0) - 2 * l), sq.k)
    IN  SqrtFixed(s, sq.tab \o high.tab, k - high.k)
SqrtSquare(s, rem0, k, q, qh, l) ==
    SqrtLess(s, rem0, k, IF qh # 0 THEN [tab |-> Slice(rem0, 0, 2 * l), k |-> qh]
                         ELSE mp_sub_dec(Slice(rem0, 0, 2 * l), mp_mul_basecase_dec(q, q), 0), l)
SqrtRest(a, up, q, qh, u, l) ==
    SqrtSquare(q.tab \o mp_add_ui_dec(up.s, qh).tab, Slice(a, 0, l) \o u.tab, u.k, q.tab, qh, l)
SqrtCarried(a, up, low, q, qh, l) ==
    SqrtRest(a, up, q, qh, IF q.k # 0 THEN mp_add_dec(low, up.s, 0) ELSE [tab |-> low, k |-> 0], l)
\* d: the remainder of the upper half over its root, halved for the lower half of the root.
SqrtDigits(a, up, d, l) ==
    LET qh0 == up.rh + At(d.q, l)
    IN  SqrtCarried(a, up, Slice(d.a, 0, Len(up.s)), mp_div1_dec(Slice(d.q, 0, l), 2, qh0 % 2), qh0 \div 2, l)
SqrtFrom(a, up, l) ==
    LET r1 == IF up.rh # 0 THEN mp_sub_dec(up.a, up.s, 0).tab ELSE up.a
    IN  SqrtDigits(a, up, mp_div_dec(Slice(a, l, l) \o r1, up.s), l)
mp_sqrtrem_dec(a) ==
    LET n == Len(a) \div 2
        l == n \div 2
    IN  IF n = 1 THEN mp_sqrtrem2_dec(a) ELSE SqrtFrom(a, mp_sqrtrem_dec(Slice(a, 2 * l, 2 * (n - l))), l)

(***************************************************************************)
(* Numbers and rounding.                                                   *)
(***************************************************************************)
Bf(sign, expn, tab) == [sign |-> sign, expn |-> expn, tab |-> tab]
bf_set_zero(sign) == Bf(sign, ExpZero, <<>>)
bf_set_inf(sign) == Bf(sign, ExpInf, <<>>)
bf_set_nan == Bf(0, ExpNan, <<>>)
Result(v, st) == [v |-> v, st |-> st]

\* The number of leading zero digits.
clz_dec(a) == CHOOSE n \in 0..LimbDigits : a * 10^n < D /\ (n < LimbDigits => a * 10^(n + 1) >= D)
get_digit(tab, pos) ==
    LET i == pos \div LimbDigits
    IN  IF i < 0 \/ i >= Len(tab) THEN 0 ELSE (At(tab, i) \div 10^(pos % LimbDigits)) % 10
scan_digit_nz(tab, pos) ==
    /\ pos >= 0
    /\ \/ At(tab, pos \div LimbDigits) % 10^((pos % LimbDigits) + 1) # 0
       \/ mp_scan_nz(Slice(tab, 0, pos \div LimbDigits))

\* [add, inexact] for the digits after the first p.
bfdec_get_rnd_add(r, p, rnd) ==
    LET top == Len(r.tab) * LimbDigits - 1
        digit0 == rnd = "F" \/ scan_digit_nz(r.tab, top - Most(0, p + 1))
        digit1 == get_digit(r.tab, top - p)
        inexact == digit1 # 0 \/ digit0
    IN  [inexact |-> inexact,
         add |-> CASE rnd = "Z" -> FALSE [] rnd \in {"NA", "F"} -> digit1 >= 5
                   [] rnd = "N" -> digit1 > 5 \/ (digit1 = 5 /\ (digit0 \/ get_digit(r.tab, top - (p - 1)) % 2 = 1))
                   [] rnd = "D" -> r.sign = 1 /\ inexact [] rnd = "U" -> r.sign = 0 /\ inexact
                   [] rnd = "A" -> inexact]

\* Adding one at a digit; the carry out of the top shifts the limbs from there on.
AddOneAt(r, pos) ==
    LET i == pos \div LimbDigits
        s == mp_add_ui_dec(Slice(r.tab, i, Len(r.tab) - i), 10^(pos % LimbDigits))
    IN  IF s.k = 0 THEN [r EXCEPT !.tab = Put(r.tab, i, s.tab)]
        ELSE [r EXCEPT !.tab = Put(r.tab, i, mp_shr_dec(s.tab, 1, 1).tab), !.expn = r.expn + 1]
\* The digits from pos up, without the zero limbs below them.
CutBelow(tab, pos) ==
    LET i == Most(pos \div LimbDigits, 0)
        low == IF pos >= 0 THEN Put(tab, i, <<At(tab, i) - (At(tab, i) % 10^(pos % LimbDigits))>>) ELSE tab
        j == CHOOSE k \in i..(Len(tab) - 1) : At(low, k) # 0 /\ \A m \in i..(k - 1) : At(low, m) = 0
    IN  Slice(low, j, Len(tab) - j)

\* The precision kept: fewer digits of a number below the smallest normal one.
RoundPrec(r, prec1, F) ==
    LET e_min == 3 - 2^(F.exp - 1)
    IN  IF F.radpnt THEN IF prec1 = PrecInf THEN prec1 ELSE r.expn + prec1
        ELSE IF r.expn < e_min /\ F.sub THEN prec1 - (e_min - r.expn) ELSE prec1
\* s is r with the one added that rnd asks for.
RoundEnd(r, s, p, rnd, F) ==
    LET e_range == 2^(F.exp - 1)
        e_min == 3 - e_range
        st == IF rnd.inexact THEN {"inexact"} ELSE {}
        lost == Result(bf_set_zero(r.sign), {"underflow", "inexact"})
    IN  IF p <= 0
        THEN IF rnd.add THEN Result(Bf(r.sign, r.expn + 1 - p, <<D \div 10>>), {"underflow", "inexact"}) ELSE lost
        ELSE IF s.expn < e_min /\ ~F.sub THEN lost
        ELSE IF s.expn > e_range THEN Result(bf_set_inf(r.sign), {"overflow", "inexact"})
        ELSE Result([s EXCEPT !.tab = CutBelow(s.tab, Len(r.tab) * LimbDigits - p)],
                    IF s.expn < e_min /\ rnd.inexact THEN st \union {"underflow"} ELSE st)
RoundBy(r, p, rnd, F) ==
    RoundEnd(r, IF rnd.add /\ p > 0 THEN AddOneAt(r, Len(r.tab) * LimbDigits - p) ELSE r, p, rnd, F)
__bfdec_round(r, prec1, F) ==
    LET p == RoundPrec(r, prec1, F) IN RoundBy(r, p, bfdec_get_rnd_add(r, p, F.rnd), F)

bfdec_round(r, p, F) == IF r.tab = <<>> THEN Result(r, {}) ELSE __bfdec_round(r, p, F)
bfdec_normalize_and_round(r, p, F) ==
    IF ~mp_scan_nz(r.tab) THEN Result(Bf(r.sign, ExpZero, <<>>), {})
    ELSE LET l == CHOOSE k \in 1..Len(r.tab) : r.tab[k] # 0 /\ \A m \in (k + 1)..Len(r.tab) : r.tab[m] = 0
             shift == clz_dec(r.tab[l])
             tab == Slice(r.tab, 0, l)
         IN  __bfdec_round(Bf(r.sign, r.expn - (Len(r.tab) - l) * LimbDigits - shift,
                              IF shift # 0 THEN mp_shl_dec(tab, shift) ELSE tab), p, F)

Flags(rnd) == [rnd |-> rnd, exp |-> 9, sub |-> FALSE, radpnt |-> FALSE]
Point(rnd) == [Flags(rnd) EXCEPT !.radpnt = TRUE]
bfdec_rint(r, rnd) == bfdec_round(r, 0, Point(rnd))
\* A natural number below the square of the base.
bfdec_set_ui(n) ==
    bfdec_normalize_and_round(IF n >= D THEN Bf(0, 2 * LimbDigits, <<n % D, n \div D>>) ELSE Bf(0, LimbDigits, <<n>>),
                              PrecInf, Flags("N")).v

(***************************************************************************)
(* The operations.                                                         *)
(***************************************************************************)
bfdec_cmpu(a, b) ==
    IF a.expn # b.expn THEN IF a.expn < b.expn THEN -1 ELSE 1
    ELSE LET len == Most(Len(a.tab), Len(b.tab))
         IN  mp_cmp(Zeros(len - Len(a.tab)) \o a.tab, Zeros(len - Len(b.tab)) \o b.tab)

\* |a| >= |b| > 0, nothing of b is dropped.
SumCarried(sign, expn, tab, k, p, F) ==
    bfdec_normalize_and_round(Bf(sign, IF k # 0 THEN expn + LimbDigits ELSE expn, IF k # 0 THEN Append(tab, 1) ELSE tab), p, F)
SumJoined(a, sign, low, sum, high, p, F) == SumCarried(sign, a.expn, low \o sum.tab \o high.tab, high.k, p, F)
SumHigh(a, sign, is_sub, low, sum, above, p, F) ==
    SumJoined(a, sign, low, sum, IF is_sub THEN mp_sub_ui_dec(above, sum.k) ELSE mp_add_ui_dec(above, sum.k), p, F)
SumAt(a, r, b1, b_offset, sign, is_sub, p, F) ==
    LET part == Slice(r, b_offset, Len(b1))
        end == b_offset + Len(b1)
    IN  SumHigh(a, sign, is_sub, Slice(r, 0, b_offset),
                IF is_sub THEN mp_sub_dec(part, b1, 0) ELSE mp_add_dec(part, b1, 0), Slice(r, end, Len(r) - end), p, F)
AddMagnitudes(a, b, sign, is_sub, p, F) ==
    LET d == a.expn - b.expn
        span == Len(b.tab) + CeilDiv(d, LimbDigits)
        r_len == Most(Len(a.tab), span)
        b_shift == d % LimbDigits
        sh == mp_shr_dec(b.tab, b_shift, 0)
        b1 == IF b_shift = 0 THEN b.tab ELSE <<sh.k * 10^(LimbDigits - b_shift)>> \o sh.tab
    IN  SumAt(a, Zeros(r_len - Len(a.tab)) \o a.tab, b1, r_len - span, sign, is_sub, p, F)
bfdec_add_internal(a0, b0, p, F, b_neg) ==
    LET b_sign == (b0.sign + b_neg) % 2
        is_sub == a0.sign # b_sign
        cmp == bfdec_cmpu(a0, b0)
        a == IF cmp < 0 THEN b0 ELSE a0
        b == IF cmp < 0 THEN a0 ELSE b0
        a_sign == IF cmp < 0 THEN b_sign ELSE a0.sign
    IN  IF cmp = 0 /\ is_sub /\ a.expn < ExpInf THEN Result(bf_set_zero(IF F.rnd = "D" THEN 1 ELSE 0), {})
        ELSE IF a.expn = ExpNan THEN Result(bf_set_nan, {})
        ELSE IF a.expn = ExpInf
        THEN IF b.expn = ExpInf /\ is_sub THEN Result(bf_set_nan, {"invalid"}) ELSE Result(bf_set_inf(a_sign), {})
        ELSE IF b.tab = <<>> THEN bfdec_normalize_and_round([a EXCEPT !.sign = a_sign], p, F)
        ELSE AddMagnitudes(a, b, a_sign, is_sub, p, F)
bfdec_add(a, b, p, F) == bfdec_add_internal(a, b, p, F, 0)
bfdec_sub(a, b, p, F) == bfdec_add_internal(a, b, p, F, 1)

bfdec_mul(a, b, p, F) ==
    LET sign == (a.sign + b.sign) % 2
        some(e) == a.expn = e \/ b.expn = e
    IN  CASE some(ExpNan) -> Result(bf_set_nan, {})
          [] ~some(ExpNan) /\ some(ExpInf) ->
                IF some(ExpZero) THEN Result(bf_set_nan, {"invalid"}) ELSE Result(bf_set_inf(sign), {})
          [] ~some(ExpNan) /\ ~some(ExpInf) /\ some(ExpZero) -> Result(bf_set_zero(sign), {})
          [] OTHER -> bfdec_normalize_and_round(Bf(sign, a.expn + b.expn, mp_mul_basecase_dec(a.tab, b.tab)), p, F)

\* A quotient of n + 1 limbs, the last bit set when there is a remainder.
QuotientRounded(d, b, sign, expn, p, F) ==
    LET more == mp_scan_nz(Slice(d.a, 0, Len(b.tab)))
        q == IF more /\ d.q[1] % 2 = 0 THEN <<d.q[1] + 1>> \o Tail(d.q) ELSE d.q
    IN  IF more /\ p = PrecInf THEN Result(bf_set_nan, {"invalid"})
        ELSE bfdec_normalize_and_round(Bf(sign, expn, q), p, F)
DivMagnitudes(a, b, sign, p, F) ==
    LET precl == IF p = PrecInf THEN Len(b.tab) + 1
                 ELSE IF F.radpnt THEN CeilDiv(Most(a.expn - b.expn, 0) + 2 + p + 2, LimbDigits)
                 ELSE CeilDiv(p + 2, LimbDigits)
        n == Most(Len(a.tab), precl)
    IN  QuotientRounded(mp_div_dec(Zeros(n + Len(b.tab) - Len(a.tab)) \o a.tab, b.tab), b, sign,
                        a.expn - b.expn + LimbDigits, p, F)
bfdec_div(a, b, p, F) ==
    LET sign == (a.sign + b.sign) % 2
    IN  IF a.expn = ExpNan \/ b.expn = ExpNan THEN Result(bf_set_nan, {})
        ELSE IF a.expn = ExpInf
        THEN IF b.expn = ExpInf THEN Result(bf_set_nan, {"invalid"}) ELSE Result(bf_set_inf(sign), {})
        ELSE IF b.expn = ExpInf THEN Result(bf_set_zero(sign), {})
        ELSE IF a.expn = ExpZero
        THEN IF b.expn = ExpZero THEN Result(bf_set_nan, {"invalid"}) ELSE Result(bf_set_zero(sign), {})
        ELSE IF b.expn = ExpZero THEN Result(bf_set_inf(sign), {"divzero"})
        ELSE DivMagnitudes(a, b, sign, p, F)

WithRemainder(a, b, q) == <<q, bfdec_sub(a, bfdec_mul(q, b, PrecInf, Flags("Z")).v, PrecInf, Flags("Z")).v>>
bfdec_tdivremu(a, b) ==
    IF bfdec_cmpu(a, b) < 0 THEN <<bf_set_zero(0), a>> ELSE WithRemainder(a, b, bfdec_div(a, b, 0, Point("Z")).v)
\* <<quotient, remainder, status>>; rnd "F" stands for BF_DIVREM_EUCLIDIAN.
\* Away from zero: the quotient is raised and the divisor taken off the remainder.
DivremAway(t, b, b1, rnd, is_ceil) ==
    LET half == bfdec_cmpu(bfdec_mul(t[2], bfdec_set_ui(2), PrecInf, Flags("Z")).v, b)
        odd == get_digit(t[1].tab, Len(t[1].tab) * LimbDigits - t[1].expn) % 2 = 1
    IN  IF t[2].tab # <<>>
           /\ IF rnd \in {"N", "NA"} THEN half > 0 \/ (half = 0 /\ (rnd = "NA" \/ odd)) ELSE is_ceil
        THEN <<bfdec_add(t[1], bfdec_set_ui(1), PrecInf, Flags("Z")).v, bfdec_sub(t[2], b1, PrecInf, Flags("Z")).v>>
        ELSE t
DivremSigned(t, a, q_sign, p, F) ==
    LET out == bfdec_round([t[2] EXCEPT !.sign = (t[2].sign + a.sign) % 2], p, F)
    IN  <<[t[1] EXCEPT !.sign = q_sign], out.v, out.st>>
bfdec_divrem(a, b, p, F, rnd) ==
    LET q_sign == (a.sign + b.sign) % 2
        is_ceil == CASE rnd = "D" -> q_sign = 1 [] rnd = "U" -> q_sign = 0 [] rnd = "A" -> TRUE
                     [] rnd = "F" -> a.sign = 1 [] OTHER -> FALSE
        b1 == [b EXCEPT !.sign = 0]
        plain == bfdec_round(a, p, F)
    IN  IF a.expn = ExpNan \/ b.expn = ExpNan THEN <<bf_set_zero(0), bf_set_nan, {}>>
        ELSE IF a.expn = ExpInf \/ b.expn = ExpZero THEN <<bf_set_zero(0), bf_set_nan, {"invalid"}>>
        ELSE IF a.expn = ExpZero \/ b.expn = ExpInf THEN <<bf_set_zero(0), plain.v, plain.st>>
        ELSE DivremSigned(DivremAway(bfdec_tdivremu([a EXCEPT !.sign = 0], b1), b, b1, rnd, is_ceil), a, q_sign, p, F)

\* How often a1's top limb is multiplied by four.
Quarters(v) == CHOOSE k \in 0..WordBits : v * 4^k >= D \div 4 /\ (k > 0 => v * 4^(k - 1) < D \div 4)
RootRounded(a, root, more, p, F) ==
    bfdec_round(Bf(0, (a.expn + 1) \div 2, IF more /\ root[1] % 2 = 0 THEN <<root[1] + 1>> \o Tail(root) ELSE root), p, F)
RootOf(a, s, k, lost, p, F) ==
    RootRounded(a, IF k # 0 THEN mp_div1_dec(s.s, 2^k, 0).tab ELSE s.s, lost \/ s.rh # 0 \/ mp_scan_nz(s.a), p, F)
SqrtScaled(a, a1, k, lost, p, F) ==
    RootOf(a, mp_sqrtrem_dec(IF k # 0 THEN mp_mul1_dec(a1.tab, 4^k, 0).tab ELSE a1.tab), k, lost \/ a1.k # 0, p, F)
SqrtMagnitude(a, p, F) ==
    LET prec1 == IF F.radpnt THEN Most((a.expn + 1) \div 2 + p, 1) ELSE p
        n == CeilDiv(2 * (prec1 + 2), 2 * LimbDigits)
        n1 == Least(2 * n, Len(a.tab))
        a0 == Zeros(2 * n - n1) \o Slice(a.tab, Len(a.tab) - n1, n1)
        a1 == IF a.expn % 2 = 1 THEN mp_shr_dec(a0, 1, 0) ELSE [tab |-> a0, k |-> 0]
    IN  SqrtScaled(a, a1, IF n > 1 THEN Quarters(a1.tab[2 * n]) ELSE 0, mp_scan_nz(Slice(a.tab, 0, Len(a.tab) - n1)), p, F)
bfdec_sqrt(a, p, F) ==
    IF a.expn = ExpNan THEN Result(bf_set_nan, {})
    ELSE IF a.sign = 1 /\ a.expn # ExpZero THEN Result(bf_set_nan, {"invalid"})
    ELSE IF a.tab = <<>> THEN Result(a, {})
    ELSE IF p = PrecInf THEN Result(bf_set_nan, {"invalid"})
    ELSE SqrtMagnitude(a, p, F)

\* <<value as the word it is stored in, whether it overflows>>; a limb holds IntDigits digits.
bfdec_get_int32(a) ==
    LET v == a.tab[Len(a.tab)] \div 10^(LimbDigits - a.expn)
        signed(n) == IF a.sign = 1 THEN 0 - n ELSE n
        limit == IntMax + a.sign
    IN  IF a.expn >= ExpInf THEN <<IF a.expn = ExpInf THEN signed(limit) ELSE IntMax, FALSE>>
        ELSE IF a.expn <= 0 THEN <<0, FALSE>>
        ELSE IF a.expn < IntDigits \/ (a.expn = IntDigits /\ v <= limit) THEN <<signed(v), FALSE>>
        ELSE <<signed(limit), TRUE>>

\* Repeated squaring from the second highest bit of n down.
RECURSIVE PowFrom(_, _, _), BitsOf(_)
PowFrom(r, a, bits) ==
    IF bits = <<>> THEN r
    ELSE LET sq == bfdec_mul(r, r, PrecInf, Flags("Z")).v
         IN  PowFrom(IF bits[1] = 1 THEN bfdec_mul(sq, a, PrecInf, Flags("Z")).v ELSE sq, a, Tail(bits))
BitsOf(n) == IF n = 0 THEN <<>> ELSE BitsOf(n \div 2) \o <<n % 2>>
bfdec_pow_ui(a, n) == IF n = 0 THEN bfdec_set_ui(1) ELSE PowFrom(a, a, Tail(BitsOf(n)))

(***************************************************************************)
(* A call of each operation.                                               *)
(***************************************************************************)
Return(name, r) == op' = name /\ res' = <<r.v>> /\ status' = r.st /\ UNCHANGED <<x, y, prec, flags>>
Ready == op = "none"

Add == Ready /\ Return("add", bfdec_add(x, y, prec, flags))
Sub == Ready /\ Return("sub", bfdec_sub(x, y, prec, flags))
Mul == Ready /\ Return("mul", bfdec_mul(x, y, prec, flags))
Div == Ready /\ Return("div", bfdec_div(x, y, prec, flags))
Sqrt == Ready /\ Return("sqrt", bfdec_sqrt(x, prec, flags))
Round == Ready /\ Return("round", bfdec_round(x, prec, flags))
Rint == Ready /\ Return("rint", bfdec_rint(x, flags.rnd))
\* Remainder with the rounding mode of flags for the quotient, nothing rounded.
Rem ==
    /\ Ready
    /\ \E t \in {bfdec_divrem(x, y, PrecInf, Flags("Z"), flags.rnd)} :
         op' = "rem" /\ res' = <<t[1], t[2]>> /\ status' = t[3]
    /\ UNCHANGED <<x, y, prec, flags>>
GetInt == /\ Ready
          /\ op' = "int" /\ res' = bfdec_get_int32(x) /\ status' = {}
          /\ UNCHANGED <<x, y, prec, flags>>
Pow == Ready /\ x.expn < ExpInf /\ Return("pow", Result(bfdec_pow_ui(x, prec), {}))

Arithmetic == Add \/ Sub \/ Mul \/ Div
WholeOne == Rint \/ GetInt \/ Pow
Next == Arithmetic \/ Sqrt \/ Round \/ Rem \/ WholeOne

\* A call about to be made, with one of the pairs of operands.
Init(pairs, precisions, flagset) ==
    /\ \E t \in pairs : x = t[1] /\ y = t[2]
    /\ prec \in precisions /\ flags \in flagset
    /\ op = "none" /\ res = <<>> /\ status = {}

(***************************************************************************)
(* The numbers meant: mag * 10^e with a sign, and exact results            *)
(* num / den * 10^e, or the square root of one.                            *)
(***************************************************************************)
Mag(v) == FoldRight(LAMBDA limb, acc : acc * D + limb, v.tab, 0)
E10(v) == v.expn - Len(v.tab) * LimbDigits
Finite(v) == v.expn < ExpInf
Zero(v) == v.expn = ExpZero
RECURSIVE Width(_)
Width(n) == IF n = 0 THEN 0 ELSE 1 + Width(n \div 10)
Ratio(num, den, e) == [num |-> num, den |-> den, e |-> e, root |-> FALSE]
Up(n, k) == IF k > 0 THEN n * 10^k ELSE n
\* The exponent of an exact result: it lies in 10^(e-1) .. 10^e.
ExactExp(r) ==
    LET d == Width(r.num) - Width(r.den)
        e == IF Up(r.num, 0 - d) >= Up(r.den, d) THEN d + 1 + r.e ELSE d + r.e
    IN  IF r.root THEN (e + 1) \div 2 ELSE e
\* The whole part of a root below 2^15.
Isqrt(n) == FoldLeft(LAMBDA s, i : IF (s + 2^(15 - i)) * (s + 2^(15 - i)) <= n THEN s + 2^(15 - i) ELSE s, 0, [i \in 1..15 |-> i])
\* Ten times the result in units of 10^u: <<floor, whether there is more>>.
Tenths(r, u) ==
    LET t == IF r.root THEN r.e + 2 - 2 * u ELSE r.e + 1 - u
        n == Up(r.num, t)
        d == Up(r.den, 0 - t)
        s == Isqrt(n \div d)
    IN  IF t + Width(r.num) - Width(r.den) < 0 THEN <<0, TRUE>>
        ELSE IF r.root THEN <<s, s * s * d # n>> ELSE <<n \div d, n % d # 0>>

\* n and u with the rounded result n * 10^u, and the status, by the definition of each
\* rounding mode; lower is the other neighbour that mode F may return.
RoundedTenths(sign, h, u, min, F) ==
    LET n == h[1] \div 10
        d == h[1] % 10
        inexact == d > 0 \/ h[2]
        above == d > 5 \/ (d = 5 /\ h[2])
        tie == d = 5 /\ ~h[2]
        up == CASE F.rnd = "Z" -> FALSE
                [] F.rnd = "A" -> inexact
                [] F.rnd = "D" -> inexact /\ sign = 1
                [] F.rnd = "U" -> inexact /\ sign = 0
                [] F.rnd = "NA" -> above \/ tie
                [] OTHER -> above \/ (tie /\ n % 2 = 1)
        m == IF up THEN n + 1 ELSE n
        e1 == Width(m) + u
        under == m = 0 \/ e1 < min
    IN  [n |-> IF under /\ ~F.sub THEN 0 ELSE m, u |-> u, lower |-> n,
         big |-> ~under /\ e1 > 2^(F.exp - 1), inexact |-> inexact,
         st |-> (IF inexact THEN {"inexact"} ELSE {})
                \union (IF under /\ (inexact \/ ~F.sub) THEN {"underflow", "inexact"} ELSE {})]
Rounded(sign, r, p, F) ==
    LET e == ExactExp(r)
        min == 3 - 2^(F.exp - 1)
        u == IF F.radpnt THEN 0 - p ELSE IF F.sub /\ e < min THEN min - p ELSE e - p
    IN  RoundedTenths(sign, Tenths(r, u), u, min, F)

SameValue(v, sign, n, u) ==
    IF n = 0 THEN v = Bf(sign, ExpZero, <<>>)
    ELSE /\ Finite(v) /\ ~Zero(v) /\ v.sign = sign
         /\ Up(Mag(v), E10(v) - u) = Up(n, u - E10(v))
\* A quotient is exact when its denominator divides a power of ten.
Exact(r) == (r.num * 1000) % r.den = 0
ValueMatches(v, sign, o, F) ==
    IF o.big THEN v = Bf(sign, ExpInf, <<>>)
    ELSE IF F.rnd = "F" THEN SameValue(v, sign, o.lower, o.u) \/ SameValue(v, sign, o.lower + 1, o.u)
    ELSE SameValue(v, sign, o.n, o.u)
ValueOk(v, sign, r, p, F) ==
    IF p = PrecInf THEN IF r.root \/ ~Exact(r) THEN v = Bf(0, ExpNan, <<>>)
                        ELSE SameValue(v, sign, (r.num * 1000) \div r.den, r.e - 3)
    ELSE ValueMatches(v, sign, Rounded(sign, r, p, F), F)
StatusMatches(o, F) ==
    IF F.radpnt THEN ("inexact" \in status) <=> o.inexact
    ELSE status = IF o.big THEN {"overflow", "inexact"} ELSE o.st
StatusOk(sign, r, p, F) ==
    IF p = PrecInf THEN status = IF r.root \/ ~Exact(r) THEN {"invalid"} ELSE {}
    ELSE StatusMatches(Rounded(sign, r, p, F), F)

\* The exact sum, product, quotient or root of finite operands.
SumOf(neg) ==
    LET e == IF Zero(x) THEN E10(y) ELSE IF Zero(y) THEN E10(x) ELSE Least(E10(x), E10(y))
        signed(v, s) == LET m == IF Zero(v) THEN 0 ELSE Up(Mag(v), E10(v) - e) IN IF s = 1 THEN 0 - m ELSE m
    IN  [n |-> signed(x, x.sign) + signed(y, (y.sign + neg) % 2), e |-> e]
ExactOp ==
    LET product == (x.sign + y.sign) % 2
        sum == SumOf(IF op = "sub" THEN 1 ELSE 0)
        ysign == (y.sign + (IF op = "sub" THEN 1 ELSE 0)) % 2
    IN  CASE op \in {"add", "sub"} ->
               [sign |-> IF sum.n # 0 THEN IF sum.n < 0 THEN 1 ELSE 0
                         ELSE IF x.sign = ysign /\ Zero(x) THEN x.sign ELSE IF flags.rnd = "D" THEN 1 ELSE 0,
                r |-> Ratio(IF sum.n < 0 THEN 0 - sum.n ELSE sum.n, 1, sum.e)]
          [] op = "mul" -> [sign |-> product, r |-> Ratio(Mag(x) * Mag(y), 1, E10(x) + E10(y))]
          [] op = "div" -> [sign |-> product, r |-> Ratio(Mag(x), Mag(y), E10(x) - E10(y))]
          [] op = "sqrt" -> [sign |-> x.sign, r |-> [Ratio(Mag(x), 1, E10(x)) EXCEPT !.root = TRUE]]
          [] op = "round" -> [sign |-> x.sign, r |-> Ratio(Mag(x), 1, E10(x))]

Rounding == op \in {"add", "sub", "mul", "div", "sqrt", "round"}
NaN == Bf(0, ExpNan, <<>>)
\* Operands for which the result is not a rounded number: the IEEE 754 table.
Exceptional ==
    LET ysign == (y.sign + (IF op = "sub" THEN 1 ELSE 0)) % 2
        product == (x.sign + y.sign) % 2
        inf(v) == v.expn = ExpInf
        invalid == [v |-> NaN, st |-> {"invalid"}]
        some(v) == [v |-> v, st |-> {}]
        none == [v |-> x, st |-> {"finite"}]
        unary == op \in {"round", "sqrt"}
    IN  CASE x = NaN \/ (~unary /\ y = NaN) -> some(NaN)
          [] x # NaN /\ unary -> IF op = "sqrt" /\ x.sign = 1 /\ ~Zero(x) THEN invalid
                                 ELSE IF inf(x) \/ Zero(x) THEN some(x) ELSE none
          [] op \in {"add", "sub"} /\ x # NaN /\ y # NaN ->
               IF inf(x) /\ inf(y) THEN IF x.sign = ysign THEN some(x) ELSE invalid
               ELSE IF inf(x) THEN some(x) ELSE IF inf(y) THEN some(Bf(ysign, ExpInf, <<>>)) ELSE none
          [] op = "mul" /\ x # NaN /\ y # NaN ->
               IF (inf(x) /\ Zero(y)) \/ (Zero(x) /\ inf(y)) THEN invalid
               ELSE IF inf(x) \/ inf(y) THEN some(Bf(product, ExpInf, <<>>))
               ELSE IF Zero(x) \/ Zero(y) THEN some(Bf(product, ExpZero, <<>>)) ELSE none
          [] op = "div" /\ x # NaN /\ y # NaN ->
               IF (inf(x) /\ inf(y)) \/ (Zero(x) /\ Zero(y)) THEN invalid
               ELSE IF inf(x) THEN some(Bf(product, ExpInf, <<>>))
               ELSE IF inf(y) \/ Zero(x) THEN some(Bf(product, ExpZero, <<>>))
               ELSE IF Zero(y) THEN [v |-> Bf(product, ExpInf, <<>>), st |-> {"divzero"}] ELSE none

\* x - q * y, with q the quotient x / y rounded to a whole number.
RemOf ==
    LET e == Least(E10(x), E10(y))
        a == Up(Mag(x), E10(x) - e) * (IF x.sign = 1 THEN -1 ELSE 1)
        b == Up(Mag(y), E10(y) - e)
        c == IF y.sign = 1 THEN 0 - b ELSE b
        floor == (a * (IF y.sign = 1 THEN -1 ELSE 1)) \div b     \* floor(x / y)
        r == a - floor * c
        t == 2 * (IF r < 0 THEN 0 - r ELSE r)
        up == r # 0 /\
              CASE flags.rnd = "D" -> FALSE
                [] flags.rnd = "U" -> TRUE
                [] flags.rnd = "Z" -> floor < 0
                [] flags.rnd = "A" -> floor >= 0
                [] flags.rnd = "F" -> y.sign = 1                   \* Euclid: r >= 0
                [] flags.rnd = "NA" -> t > b \/ (t = b /\ floor >= 0)
                [] OTHER -> t > b \/ (t = b /\ floor % 2 = 1)
    IN  [q |-> IF up THEN floor + 1 ELSE floor, r |-> IF up THEN r - c ELSE r, e |-> e]
Signed(v, n, u) == IF n = 0 THEN Zero(v) ELSE SameValue(v, IF n < 0 THEN 1 ELSE 0, IF n < 0 THEN 0 - n ELSE n, u)
RemainderIs(o) == Signed(res[1], o.q, 0) /\ Signed(res[2], o.r, o.e)
IntOf(v) == LET m == IF Zero(v) \/ v.expn <= 0 THEN 0
                     ELSE IF E10(v) >= 0 THEN Up(Mag(v), E10(v)) ELSE Mag(v) \div 10^(0 - E10(v))
            IN  IF v.sign = 1 THEN 0 - m ELSE m

(***************************************************************************)
(* Properties.                                                             *)
(***************************************************************************)
\* The result of bfdec_add, bfdec_sub, bfdec_mul, bfdec_div, bfdec_sqrt and bfdec_round is
\* the exact one rounded once in the mode asked for, counted in digits of the number or
\* after the decimal point, and that of bfdec_rint, bfdec_divrem, bfdec_pow_ui and
\* bfdec_get_int32 is exact.
ResultExact ==
    CASE Rounding ->
           IF Exceptional.st # {"finite"} THEN res[1] = Exceptional.v
           ELSE IF ExactOp.r.num = 0 THEN res[1] = Bf(ExactOp.sign, ExpZero, <<>>)
           ELSE ValueOk(res[1], ExactOp.sign, ExactOp.r, prec, flags)
      [] op = "rint" ->
           IF ~Finite(x) \/ Zero(x) THEN res[1] = x
           ELSE ValueOk(res[1], x.sign, Ratio(Mag(x), 1, E10(x)), 0, Point(flags.rnd))
      [] op = "rem" ->
           IF x = NaN \/ y = NaN \/ x.expn = ExpInf \/ Zero(y) THEN res[2] = NaN
           ELSE IF Zero(x) \/ y.expn = ExpInf THEN res[2] = x /\ Zero(res[1])
           ELSE RemainderIs(RemOf)
      [] op = "pow" -> IF Zero(x) /\ prec > 0 THEN Zero(res[1])
                       ELSE SameValue(res[1], (x.sign * prec) % 2, IF prec = 0 THEN 1 ELSE Mag(x)^prec, E10(x) * prec)
      [] op = "int" -> IF x.expn >= ExpInf THEN res[1] \in {IntMax, 0 - IntMax - 1}
                       ELSE IF IntOf(x) \in (0 - IntMax - 1)..IntMax THEN res = <<IntOf(x), FALSE>>
                       ELSE res = <<IF x.sign = 1 THEN 0 - IntMax - 1 ELSE IntMax, TRUE>>
      [] op = "none" -> TRUE

\* The status says exactly whether the result is inexact, overflowed, underflowed, a
\* division by zero or an invalid operation (mode F reports every result as inexact; with
\* a precision after the decimal point only inexact is compared).
StatusExact ==
    Rounding /\ flags.rnd # "F" =>
        IF Exceptional.st # {"finite"} THEN status = Exceptional.st
        ELSE IF ExactOp.r.num = 0 THEN status = {}
        ELSE StatusOk(ExactOp.sign, ExactOp.r, prec, flags)

\* Every number returned has a top digit and no zero limb at the bottom, and its limbs
\* are below the base, which the comparison and the division of the next call rely on.
Normal(v) ==
    v.tab # <<>> => /\ v.tab[Len(v.tab)] >= D \div 10 /\ v.tab[1] # 0
                    /\ \A k \in 1..Len(v.tab) : v.tab[k] < D
ResultNormal == op \in {"none", "int"} \/ \A k \in 1..Len(res) : Normal(res[k])
=============================================================================
