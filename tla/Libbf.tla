------------------------------- MODULE Libbf -------------------------------
(***************************************************************************)
(* src/quickjs/libbf.c: the binary numbers of arbitrary precision behind   *)
(* BigInt and BigFloat.  A number is a sign, an exponent and limbs of      *)
(* LimbBits bits, least significant first, the top bit set and the lowest  *)
(* limb not zero; its value is 0.tab * 2^expn.  Limbs of a few bits and    *)
(* low thresholds bring carries, wrong quotient digits and the recursive   *)
(* algorithms to numbers of a few bits.  Memory never runs out and the     *)
(* multiplication by number theoretic transform is left out.               *)
(***************************************************************************)
EXTENDS Integers, Sequences, SequencesExt, Bitwise

CONSTANTS LimbBits,
          UdivNormThreshold,        \* UDIV1NORM_THRESHOLD
          DivNormLargeThreshold,    \* DIVNORM_LARGE_THRESHOLD
          IntBits                   \* the width of bf_get_int64's result

VARIABLES x, y, prec, flags, op, res, status
vars == <<x, y, prec, flags, op, res, status>>

B == 2^LimbBits
ExpZero == -1000                    \* BF_EXP_ZERO, BF_EXP_INF, BF_EXP_NAN
ExpInf == 1000
ExpNan == 1001
PrecInf == 500                      \* BF_PREC_INF

Least(a, b) == IF a < b THEN a ELSE b
Most(a, b) == IF a > b THEN a ELSE b
CeilDiv(a, b) == (a + b - 1) \div b

(***************************************************************************)
(* Limb arrays.  Positions count from 0 as in the code.                    *)
(***************************************************************************)
At(tab, i) == tab[i + 1]
Slice(tab, from, n) == SubSeq(tab, from + 1, from + n)
Put(tab, from, part) == [k \in 1..Len(tab) |-> IF k > from /\ k <= from + Len(part) THEN part[k - from] ELSE tab[k]]
Zeros(n) == [k \in 1..n |-> 0]
\* The loop of the mp_ functions: limb i gives <<result limb, carry>>.
Loop(n, carry, F(_, _)) ==
    FoldLeft(LAMBDA acc, i : LET t == F(i, acc.k) IN [tab |-> Append(acc.tab, t[1]), k |-> t[2]],
             [tab |-> <<>>, k |-> carry], [i \in 1..n |-> i])

\* The index of the highest bit of a limb, counted from the top.
clz(a) == LET n == CHOOSE m \in 0..LimbBits : a < 2^m /\ (m > 0 => a >= 2^(m - 1)) IN LimbBits - n
ctz(a) == CHOOSE n \in 0..(LimbBits - 1) : a % 2^(n + 1) = 2^n
get_limbz(tab, i) == IF i < 0 \/ i >= Len(tab) THEN 0 ELSE At(tab, i)
get_bits(tab, pos) ==
    LET i == pos \div LimbBits
        p == pos % LimbBits
    IN  get_limbz(tab, i) \div 2^p + ((get_limbz(tab, i + 1) * 2^(LimbBits - p)) % B)
get_bit(tab, pos) == (get_limbz(tab, pos \div LimbBits) \div 2^(pos % LimbBits)) % 2
mp_scan_nz(tab) == \E k \in 1..Len(tab) : tab[k] # 0
\* Whether a bit between 0 and bit_pos is set.
scan_bit_nz(tab, bit_pos) == \E k \in 0..bit_pos : get_bit(tab, k) = 1

mp_add(a, b, carry) == Loop(Len(a), carry, LAMBDA i, k : <<(a[i] + b[i] + k) % B, (a[i] + b[i] + k) \div B>>)
mp_add_ui(a, b) == Loop(Len(a), b, LAMBDA i, k : <<(a[i] + k) % B, (a[i] + k) \div B>>)
mp_sub(a, b, carry) ==
    Loop(Len(a), carry, LAMBDA i, k : <<(a[i] - b[i] - k) % B, IF a[i] < b[i] + k THEN 1 ELSE 0>>)
mp_neg(b) == mp_sub(Zeros(Len(b)), b, 0).tab
mp_sub_ui(a, b) == Loop(Len(a), b, LAMBDA i, k : <<(a[i] - k) % B, IF a[i] < k THEN 1 ELSE 0>>)
\* (a + high * B^n) >> shift.
mp_shr(a, shift, high) ==
    LET above(i) == IF i = Len(a) THEN high ELSE a[i + 1]
    IN  [tab |-> [i \in 1..Len(a) |-> a[i] \div 2^shift + ((above(i) * 2^(LimbBits - shift)) % B)],
         k |-> (IF a = <<>> THEN high ELSE a[1]) % 2^shift]
mp_mul1(a, b, l) == Loop(Len(a), l, LAMBDA i, k : <<(a[i] * b + k) % B, (a[i] * b + k) \div B>>)
mp_add_mul1(r, a, b) ==
    Loop(Len(a), 0, LAMBDA i, k : <<(a[i] * b + k + r[i]) % B, (a[i] * b + k + r[i]) \div B>>)
mp_sub_mul1(r, a, b) ==
    Loop(Len(a), 0, LAMBDA i, k : LET t == (r[i] - a[i] * b - k) % (B * B) IN <<t % B, (0 - t \div B) % B>>)
mp_mul_basecase(a, b) ==
    FoldLeft(LAMBDA acc, i : LET m == mp_add_mul1(Slice(acc, i - 1, Len(a)), a, b[i])
                             IN  Put(acc, i - 1, Append(m.tab, m.k)),
             Zeros(Len(a) + Len(b)), [i \in 1..Len(b) |-> i])
mp_cmp(a, b) ==
    IF a = b THEN 0
    ELSE LET i == CHOOSE k \in 1..Len(a) : a[k] # b[k] /\ \A m \in (k + 1)..Len(a) : a[m] = b[m]
         IN  IF a[i] < b[i] THEN -1 ELSE 1

(***************************************************************************)
(* Division of limb arrays.                                                *)
(***************************************************************************)
udiv1norm_init(d) == (((0 - d - 1) % B) * B + B - 1) \div d
udiv1norm(a1, a0, d, d_inv) ==
    LET n1m == IF a0 >= B \div 2 THEN 1 ELSE 0            \* the code has -n1m
        n_adj == (a0 + n1m * d) % B
        h == (d_inv * ((a1 + n1m) % B) + n_adj) % (B * B)
        q == (h \div B + a1) % B
        a == (a1 * B + a0 - q * d - d) % (B * B)
        ah == a \div B
    IN  <<(q + 1 + ah) % B, ((a % B) + (IF ah = 0 THEN 0 ELSE d)) % B>>

mp_div1norm(a, b, r0) ==
    LET step(i, r) == IF Len(a) >= UdivNormThreshold THEN udiv1norm(r, a[i], b, udiv1norm_init(b))
                      ELSE <<(r * B + a[i]) \div b, (r * B + a[i]) % b>>
        down == Loop(Len(a), r0, LAMBDA i, r : step(Len(a) + 1 - i, r))
    IN  [q |-> Reverse(down.tab), a |-> <<down.k>>]

\* Adding b back until the limb above has carried: [a, q].
RECURSIVE AddBack(_, _, _)
AddBack(a, b, q) ==
    LET s == mp_add(Slice(a, 0, Len(b)), b, 0)
        top == (At(a, Len(b)) + s.k) % B
    IN  IF s.k # 0 /\ top = 0 THEN [a |-> Append(s.tab, top), q |-> (q - 1) % B]
        ELSE AddBack(Append(s.tab, top), b, (q - 1) % B)

\* Mutant: the estimated digit is never corrected.
DigitUncorrected(part, b, wide) ==
    LET nb == Len(b)
        q == (At(part, nb) * B + At(part, nb - 1)) \div At(b, nb - 1)
        m == mp_sub_mul1(Slice(part, 0, nb), b, Least(q, B - 1))
    IN  [a |-> Append(m.tab, (At(part, nb) - m.k) % B), q |-> Least(q, B - 1)]
\* One quotient digit from part, which has one limb more than b.
DigitCorrected(hi, m, b, q) ==
    LET top == (hi - m.k) % B IN IF top > hi THEN AddBack(Append(m.tab, top), b, q) ELSE [a |-> Append(m.tab, top), q |-> q]
DigitTaken(part, b, q) == DigitCorrected(At(part, Len(b)), mp_sub_mul1(Slice(part, 0, Len(b)), b, q), b, q)
QuotientDigit(part, b, wide) ==
    LET nb == Len(b)
        b1 == At(b, nb - 1)
        hi == At(part, nb)
        lo == At(part, nb - 1)
    IN  DigitTaken(part, b, IF hi >= b1 THEN B - 1
                            ELSE IF wide THEN udiv1norm(hi, lo, b1, udiv1norm_init(b1))[1] ELSE (hi * B + lo) \div b1)

\* mp_recip, mp_divnorm_large and mp_divnorm call each other; a division gives the
\* quotient and taba as it is left, with the remainder in its low limbs.
RECURSIVE mp_divnorm(_, _), mp_recip(_), LowerRecip(_, _, _)
\* The product is made smaller than B^(n + h).
LowerRecip(xh, t, a) ==
    IF At(t, Len(t) - 1) = 0 THEN [xh |-> xh, t |-> t]
    ELSE LET n == Len(a)
             s == mp_sub(Slice(t, 0, n), a, 0)
         IN  LowerRecip(mp_sub_ui(xh, 1).tab, s.tab \o mp_sub_ui(Slice(t, n, Len(t) - n), s.k).tab, a)
\* The upper half of the reciprocal is in low.xh; the lower half comes from the product
\* with what is left.
RecipLow(xh, u, l, h) ==
    Slice(u, 2 * h - l, l) \o mp_add(Slice(xh, 0, h), Slice(u, 2 * h, h), 0).tab \o <<At(xh, h)>>
RecipFrom(low, n, l, h) ==
    LET neg == mp_neg(low.t)
        t == Put(neg, n + h, <<(At(neg, n + h) + 1) % B>>)
    IN  RecipLow(low.xh, mp_mul_basecase(Slice(t, l, n + h + 1 - l), low.xh), l, h)
RecipOf(d, n) ==
    LET r == Slice(d.q, 0, n + 1) IN IF mp_scan_nz(Slice(d.a, 0, n)) THEN r ELSE mp_sub_ui(r, 1).tab
RecipRaised(xh, a, n, l) == RecipFrom(LowerRecip(xh, mp_mul_basecase(a, xh), a), n, l, n - l)
mp_recip(a) ==
    LET n == Len(a)
        l == (n - 1) \div 2
    IN  IF n <= 2 THEN RecipOf(mp_divnorm(Append(Zeros(2 * n), 1), a), n)
        ELSE RecipRaised(mp_recip(Slice(a, l, n - l)), a, n, l)

\* The quotient is raised until the remainder, with one limb more, is below b.
RECURSIVE RaiseQuotient(_, _, _)
RaiseQuotient(q, r, b) ==
    IF At(r, Len(b)) = 0 /\ mp_cmp(Slice(r, 0, Len(b)), b) < 0 THEN [q |-> q, a |-> r]
    ELSE LET s == mp_sub(Slice(r, 0, Len(b)), b, 0)
         IN  RaiseQuotient(mp_add_ui(q, 1).tab, Append(s.tab, (At(r, Len(b)) - s.k) % B), b)

\* The quotient is estimated from t, the product of the top limbs with the reciprocal.
QuotientOf(a, b, q) ==
    RaiseQuotient(q, mp_sub(Slice(a, 0, Len(b) + 1), Slice(mp_mul_basecase(q, b), 0, Len(b) + 1), 0).tab, b)
QuotientFrom(a, b, n, t) ==
    LET nq == Len(a) - Len(b) IN QuotientOf(a, b, Slice(t, 2 * (n + 1) - (nq + 1), nq + 1))
mp_divnorm_large(a, b) ==
    LET na == Len(a)
        nb == Len(b)
        nq == na - nb
        n == IF nq < nb THEN nq + 1 ELSE nq
        cut == mp_add_ui(Slice(b, nb - n, n), 1)
        inv == IF n < nb /\ cut.k # 0 THEN Append(Zeros(n), 1)
               ELSE mp_recip(IF n >= nb THEN Zeros(n - nb) \o b ELSE cut.tab)
    IN  QuotientFrom(a, b, n, mp_mul_basecase(inv, Slice(a, na - (n + 1), n + 1)))

\* The schoolbook division, one limb of the quotient after the other.
DigitPut(acc, d, at) == [a |-> Put(acc.a, at, d.a), q |-> <<d.q>> \o acc.q]
QuotientDigits(a, b, q1) ==
    LET nb == Len(b)
        n == Len(a) - nb
    IN  FoldLeft(LAMBDA acc, i : DigitPut(acc, QuotientDigit(Slice(acc.a, n - i, nb + 1), b, n >= UdivNormThreshold), n - i),
                 [a |-> IF q1 = 1 THEN Put(a, n, mp_sub(Slice(a, n, nb), b, 0).tab) ELSE a, q |-> <<q1>>],
                 [i \in 1..n |-> i])
mp_divnorm(a, b) ==
    LET nb == Len(b)
        n == Len(a) - nb
    IN  IF nb = 1 THEN mp_div1norm(a, b[1], 0)
        ELSE IF Least(n, nb) >= DivNormLargeThreshold THEN mp_divnorm_large(a, b)
        ELSE QuotientDigits(a, b, IF mp_cmp(Slice(a, n, nb), b) >= 0 THEN 1 ELSE 0)

(***************************************************************************)
(* Square roots of limb arrays.                                            *)
(***************************************************************************)
\* The table and its iterations give the integer square root and the remainder.
mp_sqrtrem1(a) == LET s == CHOOSE s \in 0..B : s * s <= a /\ (s + 1) * (s + 1) > a IN <<s, a - s * s>>
RootLowered(s, r) ==
    LET s2 == IF r < 0 THEN s - 1 ELSE s
        r2 == IF r < 0 THEN r + 2 * s2 + 1 ELSE r
    IN  [s |-> <<s2 % B>>, a |-> <<r2 % B>>, rh |-> r2 \div B]
mp_sqrtrem2(a) ==
    LET s1 == mp_sqrtrem1(a[2])[1]
        r1 == mp_sqrtrem1(a[2])[2]
        half == 2^(LimbBits \div 2)
        num == r1 * half + a[1] \div half
        q == num \div (2 * s1)
    IN  RootLowered(s1 * half + q, (num % (2 * s1)) * half + (a[1] % half) - (IF q >= half THEN B ELSE q * q))

RECURSIVE mp_sqrtrem(_)
\* a has 2n limbs; the root and the remainder have n, rh is the limb above the remainder.
\* A negative remainder: the root was one too large.
SqrtFixed(s, rem, rh) ==
    LET s2 == mp_sub_ui(s, 1).tab
        back == mp_add_mul1(rem, s2, 2)
        back1 == mp_add_ui(back.tab, 1)
    IN  IF rh < 0 THEN [s |-> s2, a |-> back1.tab, rh |-> rh + back.k + back1.k]
        ELSE [s |-> s, a |-> rem, rh |-> rh]
\* The square of the lower half of the root is taken off the remainder.
SqrtLess(s, rem0, k, sq, l) ==
    LET high == mp_sub_ui(Slice(rem0, 2 * l, Len(rem0) - 2 * l), sq.k)
    IN  SqrtFixed(s, sq.tab \o high.tab, k - high.k)
SqrtSquare(s, rem0, k, q, qh, l) ==
    SqrtLess(s, rem0, k, IF qh # 0 THEN [tab |-> Slice(rem0, 0, 2 * l), k |-> qh]
                         ELSE mp_sub(Slice(rem0, 0, 2 * l), mp_mul_basecase(q, q), 0), l)
SqrtRest(a, up, q, qh, u, l) == SqrtSquare(q.tab \o mp_add_ui(up.s, qh).tab, Slice(a, 0, l) \o u.tab, u.k, q.tab, qh, l)
\* d: the remainder of the upper half over its root, halved for the lower half of the root.
SqrtDigits(a, up, d, l) ==
    LET low == Slice(d.a, 0, Len(up.s))
        qh0 == up.rh + At(d.q, l)
        q == mp_shr(Slice(d.q, 0, l), 1, qh0 % 2)
    IN  SqrtRest(a, up, q, qh0 \div 2, IF q.k # 0 THEN mp_add(low, up.s, 0) ELSE [tab |-> low, k |-> 0], l)
SqrtFrom(a, up, l) ==
    LET r1 == IF up.rh # 0 THEN mp_sub(up.a, up.s, 0).tab ELSE up.a
    IN  SqrtDigits(a, up, mp_divnorm(Slice(a, l, l) \o r1, up.s), l)
mp_sqrtrem(a) ==
    LET n == Len(a) \div 2
        l == n \div 2
    IN  IF n = 1 THEN mp_sqrtrem2(a) ELSE SqrtFrom(a, mp_sqrtrem(Slice(a, 2 * l, 2 * (n - l))), l)

(***************************************************************************)
(* Numbers and rounding.                                                   *)
(***************************************************************************)
Bf(sign, expn, tab) == [sign |-> sign, expn |-> expn, tab |-> tab]
bf_set_zero(sign) == Bf(sign, ExpZero, <<>>)
bf_set_inf(sign) == Bf(sign, ExpInf, <<>>)
bf_set_nan == Bf(0, ExpNan, <<>>)
Result(v, st) == [v |-> v, st |-> st]

\* The bit after the first p, and whether one is set below it.
Bit1(r, p) == get_bit(r.tab, Len(r.tab) * LimbBits - 1 - p) = 1
Bit0(r, p, rnd) == rnd = "F" \/ scan_bit_nz(r.tab, Len(r.tab) * LimbBits - 1 - Most(0, p + 1))
AddOne(r, p, rnd, bit1, inexact) ==
    CASE rnd = "Z" -> FALSE
      [] rnd = "N" -> bit1 /\ (Bit0(r, p, rnd) \/ Bit1(r, p - 1))
      [] rnd = "D" -> r.sign = 1 /\ inexact
      [] rnd = "U" -> r.sign = 0 /\ inexact
      [] rnd = "A" -> inexact
      [] rnd \in {"NA", "F"} -> bit1
\* [add, inexact] for the bits after the first p.
bf_get_rnd_add(r, p, rnd) ==
    LET inexact == Bit1(r, p) \/ Bit0(r, p, rnd)
    IN  [inexact |-> inexact, add |-> AddOne(r, p, rnd, Bit1(r, p), inexact)]

bf_set_overflow(sign, p, F) ==
    Result(IF p = PrecInf \/ F.rnd \in {"N", "NA", "A"} \/ (F.rnd = "D" /\ sign = 1) \/ (F.rnd = "U" /\ sign = 0)
           THEN bf_set_inf(sign)
           ELSE LET l == CeilDiv(p, LimbBits)
                    shift == (0 - p) % LimbBits
                IN  Bf(sign, 2^(F.exp - 1), [k \in 1..l |-> IF k = 1 THEN B - 2^shift ELSE B - 1]),
           {"overflow", "inexact"})

\* Adding one at bit_pos; the carry out of the top shifts the limbs from there on.
AddOneAt(r, bit_pos) ==
    LET pos == bit_pos \div LimbBits
        n == Len(r.tab) - pos
        s == mp_add_ui(Slice(r.tab, pos, n), 2^(bit_pos % LimbBits))
    IN  IF s.k = 0 THEN [r EXCEPT !.tab = Put(r.tab, pos, s.tab)]
        ELSE [r EXCEPT !.tab = Put(r.tab, pos, mp_shr(s.tab, 1, 1).tab), !.expn = r.expn + 1]

\* The bits from bit_pos up, without the zero limbs below them.
CutBelow(tab, bit_pos) ==
    LET i == Most(bit_pos \div LimbBits, 0)
        low == IF bit_pos >= 0 THEN [tab EXCEPT ![i + 1] = @ - (@ % 2^(bit_pos % LimbBits))] ELSE tab
        j == CHOOSE k \in i..(Len(tab) - 1) : At(low, k) # 0 /\ \A m \in i..(k - 1) : At(low, m) = 0
    IN  Slice(low, j, Len(tab) - j)

\* The precision kept: fewer bits of a number below the smallest normal one.
RoundPrec(r, prec1, F) ==
    LET e_min == 3 - 2^(F.exp - 1)
    IN  IF F.radpnt THEN IF prec1 = PrecInf THEN prec1 ELSE r.expn + prec1
        ELSE IF r.expn < e_min /\ F.sub THEN prec1 - (e_min - r.expn) ELSE prec1
\* s is r with the one added that rnd asks for.
RoundEnd(r, s, p, rnd, prec1, F, st) ==
    LET e_range == 2^(F.exp - 1)
        e_min == 3 - e_range
        st1 == st \union (IF rnd.inexact THEN {"inexact"} ELSE {})
        lost == Result(bf_set_zero(r.sign), st1 \union {"underflow", "inexact"})
    IN  IF p <= 0
        THEN IF rnd.add THEN Result(Bf(r.sign, r.expn + 1 - p, <<B \div 2>>), st1 \union {"underflow", "inexact"})
             ELSE lost
        ELSE IF s.expn < e_min /\ ~F.sub THEN lost
        ELSE IF s.expn > e_range THEN bf_set_overflow(r.sign, prec1, F)
        ELSE Result([s EXCEPT !.tab = CutBelow(s.tab, Len(r.tab) * LimbBits - p)],
                    IF s.expn < e_min /\ "inexact" \in st1 THEN st1 \union {"underflow"} ELSE st1)
RoundBy(r, p, rnd, prec1, F, st) ==
    RoundEnd(r, IF rnd.add /\ p > 0 THEN AddOneAt(r, Len(r.tab) * LimbBits - p) ELSE r, p, rnd, prec1, F, st)
__bf_round(r, prec1, F, st) ==
    LET p == RoundPrec(r, prec1, F) IN RoundBy(r, p, bf_get_rnd_add(r, p, F.rnd), prec1, F, st)

bf_round(r, p, F) == IF r.tab = <<>> THEN Result(r, {}) ELSE __bf_round(r, p, F, {})
bf_normalize_and_round(r, p, F) ==
    IF ~mp_scan_nz(r.tab) THEN Result(Bf(r.sign, ExpZero, <<>>), {})
    ELSE LET l == CHOOSE k \in 1..Len(r.tab) : r.tab[k] # 0 /\ \A m \in (k + 1)..Len(r.tab) : r.tab[m] = 0
             shift == clz(r.tab[l])
             below(i) == IF i = 1 THEN 0 ELSE r.tab[i - 1]
             tab == [i \in 1..l |-> ((r.tab[i] * 2^shift) % B) + below(i) \div 2^(LimbBits - shift)]
         IN  __bf_round(Bf(r.sign, r.expn - (Len(r.tab) - l) * LimbBits - shift, tab), p, F, {})

Flags(rnd) == [rnd |-> rnd, exp |-> 9, sub |-> FALSE, radpnt |-> FALSE]
bf_rint(r, rnd) == bf_round(r, 0, [Flags(rnd) EXCEPT !.radpnt = TRUE])
Clamp(e) == Least(Most(e, -1023), 1023)
bf_mul_2exp(r, e, p, F) ==
    IF r.tab = <<>> THEN Result(r, {}) ELSE __bf_round([r EXCEPT !.expn = @ + Clamp(e)], p, F, {})

\* A whole number, as bf_set_ui and bf_set_si make it.
RECURSIVE LimbsOf(_)
LimbsOf(n) == IF n = 0 THEN <<>> ELSE <<n % B>> \o LimbsOf(n \div B)
bf_set_si(n) ==
    LET tab == LimbsOf(IF n < 0 THEN 0 - n ELSE n)
    IN  bf_normalize_and_round(Bf(IF n < 0 THEN 1 ELSE 0, Len(tab) * LimbBits, tab), PrecInf, Flags("Z")).v

(***************************************************************************)
(* Comparison.                                                             *)
(***************************************************************************)
bf_cmpu(a, b) ==
    IF a.expn # b.expn THEN IF a.expn < b.expn THEN -1 ELSE 1
    ELSE LET len == Most(Len(a.tab), Len(b.tab))
         IN  mp_cmp(Zeros(len - Len(a.tab)) \o a.tab, Zeros(len - Len(b.tab)) \o b.tab)
bf_cmp(a, b) ==
    CASE a.expn = ExpNan \/ b.expn = ExpNan -> 2
      [] a.sign # b.sign -> IF a.expn = ExpZero /\ b.expn = ExpZero THEN 0 ELSE 1 - 2 * a.sign
      [] OTHER -> IF a.sign = 1 THEN 0 - bf_cmpu(a, b) ELSE bf_cmpu(a, b)
bf_cmp_full(a, b) ==
    CASE a.expn = ExpNan \/ b.expn = ExpNan -> IF a.expn = b.expn THEN 0 ELSE IF a.expn = ExpNan THEN 1 ELSE -1
      [] a.sign # b.sign -> 1 - 2 * a.sign
      [] OTHER -> IF a.sign = 1 THEN 0 - bf_cmpu(a, b) ELSE bf_cmpu(a, b)

(***************************************************************************)
(* Addition.                                                               *)
(***************************************************************************)
\* The equal limbs at the top, then the zeros of a over ones of b.
RECURSIVE EqualLimbs(_, _, _, _), ZeroOnes(_, _, _, _)
EqualLimbs(a, b, offset, b_offset) ==
    IF get_limbz(a.tab, offset \div LimbBits) # get_bits(b.tab, offset + b_offset) THEN 0
    ELSE 1 + EqualLimbs(a, b, offset - LimbBits, b_offset)
ZeroOnes(a, b, offset, b_offset) ==
    LET v1 == get_limbz(a.tab, offset \div LimbBits)
        v2 == get_bits(b.tab, offset + b_offset)
    IN  IF v1 # 0 \/ v2 # B - 1 THEN Least(clz(v1), clz(B - 1 - v2))
        ELSE LimbBits + ZeroOnes(a, b, offset - LimbBits, b_offset)
\* v1 and v2: the first limbs that differ, at offset.
CancelledFrom(a, b, n, offset, b_offset, v1, v2) ==
    LET p1 == clz(v1 ^^ v2) + 1
        p == LimbBits - p1
        m == Least(clz(v1 % 2^p), clz((B - 1 - v2) % 2^p)) - (LimbBits - p)
    IN  IF p > 0 /\ m # p THEN n * LimbBits + p1 + m
        ELSE n * LimbBits + p1 + p + ZeroOnes(a, b, offset - LimbBits, b_offset)
count_cancelled_bits(a, b) ==
    LET b_offset == (Len(b.tab) - Len(a.tab)) * LimbBits - (LimbBits - 1) + a.expn - b.expn
        n == EqualLimbs(a, b, Len(a.tab) * LimbBits - 1, b_offset)
        offset == Len(a.tab) * LimbBits - 1 - n * LimbBits
    IN  CancelledFrom(a, b, n, offset, b_offset, get_limbz(a.tab, offset \div LimbBits), get_bits(b.tab, offset + b_offset))

\* One limb of the sum at position i relative to the result.
SumLimb(a, b, a_offset, b_bit_offset, is_sub, i, k) ==
    LET v2 == get_bits(b.tab, b_bit_offset + i * LimbBits)
        u == get_limbz(a.tab, a_offset + i) + (IF is_sub THEN B - 1 - v2 ELSE v2) + k
    IN  <<u % B, u \div B>>

\* The limbs below the result only leave a sticky bit and a carry; the code jumps over
\* the limbs where both numbers have nothing, all ones or all zeros after the mask.
\* The carry out of the sum is a limb of its own; the sticky bit goes to the last one.
SumRounded(a_sign, expn, below, sum, is_sub, p, F) ==
    LET sticky == mp_scan_nz(below.tab) /\ sum.tab[1] % 2 = 0
        tab == IF sticky THEN [sum.tab EXCEPT ![1] = @ + 1] ELSE sum.tab
        carry == ~is_sub /\ sum.k # 0
    IN  bf_normalize_and_round(Bf(a_sign, IF carry THEN expn + LimbBits ELSE expn,
                                  IF carry THEN Append(tab, 1) ELSE tab), p, F)
SumFrom(a, b, a_sign, is_sub, below, r_len, a_offset, b_bit_offset, p, F) ==
    SumRounded(a_sign, a.expn, below,
               Loop(r_len, below.k, LAMBDA i, k : SumLimb(a, b, a_offset, b_bit_offset, is_sub, i - 1, k)),
               is_sub, p, F)
SumOfLength(a, b, a_sign, is_sub, tot_len, r_len, p, F) ==
    LET a_offset == Len(a.tab) - r_len
        b_bit_offset == (Len(b.tab) - r_len) * LimbBits + a.expn - b.expn
    IN  SumFrom(a, b, a_sign, is_sub,
                Loop(tot_len - r_len, IF is_sub THEN 1 ELSE 0,
                     LAMBDA i, k : SumLimb(a, b, a_offset, b_bit_offset, is_sub, r_len - tot_len + i - 1, k)),
                r_len, a_offset, b_bit_offset, p, F)
AddMagnitudes(a, b, a_sign, is_sub, p, F) ==
    LET d == a.expn - b.expn
        cancelled == IF ~is_sub THEN 0 ELSE IF d <= 1 THEN count_cancelled_bits(a, b) ELSE 1
        tot_len == Most(Len(a.tab), Len(b.tab) + CeilDiv(d, LimbBits))
    IN  SumOfLength(a, b, a_sign, is_sub, tot_len, Least(CeilDiv(cancelled + p + 2, LimbBits), tot_len), p, F)

bf_add_internal(a0, b0, p, F, b_neg) ==
    LET b_sign == (b0.sign + b_neg) % 2
        is_sub == a0.sign # b_sign
        cmp == bf_cmpu(a0, b0)
        a == IF cmp < 0 THEN b0 ELSE a0
        b == IF cmp < 0 THEN a0 ELSE b0
        a_sign == IF cmp < 0 THEN b_sign ELSE a0.sign
    IN  CASE cmp = 0 /\ is_sub /\ a.expn < ExpInf -> Result(bf_set_zero(IF F.rnd = "D" THEN 1 ELSE 0), {})
          [] a.expn = ExpNan -> Result(bf_set_nan, {})
          [] a.expn = ExpInf -> IF b.expn = ExpInf /\ is_sub THEN Result(bf_set_nan, {"invalid"})
                                ELSE Result(bf_set_inf(a_sign), {})
          [] a.expn < ExpInf /\ b.tab = <<>> /\ ~(cmp = 0 /\ is_sub) ->
                bf_normalize_and_round([a EXCEPT !.sign = a_sign], p, F)
          [] OTHER -> AddMagnitudes(a, b, a_sign, is_sub, p, F)
bf_add(a, b, p, F) == bf_add_internal(a, b, p, F, 0)
bf_sub(a, b, p, F) == bf_add_internal(a, b, p, F, 1)

(***************************************************************************)
(* Multiplication, division, remainder, square root, logic.                *)
(***************************************************************************)
bf_mul(a, b, p, F) ==
    LET sign == (a.sign + b.sign) % 2
        len(v) == IF F.rnd = "F" THEN Least(Len(v.tab), CeilDiv(p + 2, LimbBits)) ELSE Len(v.tab)
        tail(v) == Slice(v.tab, Len(v.tab) - len(v), len(v))
        some(e) == a.expn = e \/ b.expn = e
    IN  CASE some(ExpNan) -> Result(bf_set_nan, {})
          [] some(ExpInf) -> IF some(ExpZero) THEN Result(bf_set_nan, {"invalid"}) ELSE Result(bf_set_inf(sign), {})
          [] some(ExpZero) -> Result(bf_set_zero(sign), {})
          [] OTHER -> bf_normalize_and_round(Bf(sign, a.expn + b.expn, mp_mul_basecase(tail(a), tail(b))), p, F)

\* A quotient of n + 1 limbs, the last bit set when there is a remainder.
QuotientRounded(d, b, sign, expn, p, F) ==
    LET q == IF mp_scan_nz(Slice(d.a, 0, Len(b.tab))) /\ d.q[1] % 2 = 0 THEN [d.q EXCEPT ![1] = @ + 1] ELSE d.q
    IN  bf_normalize_and_round(Bf(sign, expn, q), p, F)
DivMagnitudes(a, b, sign, p, F) ==
    LET n == Most(Len(a.tab), CeilDiv(p + 2, LimbBits))
    IN  QuotientRounded(mp_divnorm(Zeros(n + Len(b.tab) - Len(a.tab)) \o a.tab, b.tab), b, sign,
                        a.expn - b.expn + LimbBits, p, F)
bf_div(a, b, p, F) ==
    LET sign == (a.sign + b.sign) % 2
    IN  CASE a.expn = ExpNan \/ b.expn = ExpNan -> Result(bf_set_nan, {})
          [] a.expn = ExpInf -> IF b.expn = ExpInf THEN Result(bf_set_nan, {"invalid"}) ELSE Result(bf_set_inf(sign), {})
          [] b.expn = ExpInf -> Result(bf_set_zero(sign), {})
          [] a.expn = ExpZero -> IF b.expn = ExpZero THEN Result(bf_set_nan, {"invalid"})
                                 ELSE Result(bf_set_zero(sign), {})
          [] b.expn = ExpZero -> Result(bf_set_inf(sign), {"divzero"})
          [] OTHER -> DivMagnitudes(a, b, sign, p, F)

WithRemainder(a, b, q) == <<q, bf_sub(a, bf_mul(q, b, PrecInf, Flags("Z")).v, PrecInf, Flags("Z")).v>>
bf_tdivremu(a, b) ==
    IF bf_cmpu(a, b) < 0 THEN <<bf_set_zero(0), a>>
    ELSE WithRemainder(a, b, bf_rint(bf_div(a, b, Most(a.expn - b.expn + 1, 2), Flags("Z")).v, "Z").v)

\* <<quotient, remainder, status>>; rnd "F" stands for BF_DIVREM_EUCLIDIAN.
\* Away from zero: the quotient is raised and the divisor taken off the remainder.
DivremAway(a, t, b1, rnd, is_ceil) ==
    LET half == bf_cmpu(t[2], [b1 EXCEPT !.expn = @ - 1])
        odd == get_bit(t[1].tab, Len(t[1].tab) * LimbBits - t[1].expn) = 1
    IN  IF t[2].tab # <<>>
           /\ IF rnd \in {"N", "NA"} THEN half > 0 \/ (half = 0 /\ (rnd = "NA" \/ odd)) ELSE is_ceil
        THEN <<bf_add(t[1], bf_set_si(1), PrecInf, Flags("Z")).v, bf_sub(t[2], b1, PrecInf, Flags("Z")).v>>
        ELSE t
DivremSigned(t, a, q_sign, p, F) ==
    LET out == bf_round([t[2] EXCEPT !.sign = (@ + a.sign) % 2], p, F)
    IN  <<[t[1] EXCEPT !.sign = q_sign], out.v, out.st>>
bf_divrem(a, b, p, F, rnd) ==
    LET q_sign == (a.sign + b.sign) % 2
        is_ceil == CASE rnd = "D" -> q_sign = 1 [] rnd = "U" -> q_sign = 0 [] rnd = "A" -> TRUE
                     [] rnd = "F" -> a.sign = 1 [] OTHER -> FALSE
        b1 == [b EXCEPT !.sign = 0]
        plain == bf_round(a, p, F)
    IN  CASE a.expn = ExpNan \/ b.expn = ExpNan -> <<bf_set_zero(0), bf_set_nan, {}>>
          [] a.expn = ExpInf \/ b.expn = ExpZero -> <<bf_set_zero(0), bf_set_nan, {"invalid"}>>
          [] a.expn = ExpZero \/ b.expn = ExpInf -> <<bf_set_zero(0), plain.v, plain.st>>
          [] OTHER -> DivremSigned(DivremAway(a, bf_tdivremu([a EXCEPT !.sign = 0], b1), b1, rnd, is_ceil),
                                   a, q_sign, p, F)

RootRounded(a, s, lost, p, F) ==
    LET sticky == lost \/ s.rh # 0 \/ mp_scan_nz(s.a)
        tab == IF sticky /\ s.s[1] % 2 = 0 THEN [s.s EXCEPT ![1] = @ + 1] ELSE s.s
    IN  bf_round(Bf(0, (a.expn + 1) \div 2, tab), p, F)
SqrtMagnitude(a, p, F) ==
    LET n == CeilDiv(2 * (p + 2), 2 * LimbBits)
        n1 == Least(2 * n, Len(a.tab))
        a0 == Zeros(2 * n - n1) \o Slice(a.tab, Len(a.tab) - n1, n1)
        a1 == IF a.expn % 2 = 1 THEN mp_shr(a0, 1, 0) ELSE [tab |-> a0, k |-> 0]
    IN  RootRounded(a, mp_sqrtrem(a1.tab), a1.k # 0 \/ mp_scan_nz(Slice(a.tab, 0, Len(a.tab) - n1)), p, F)
bf_sqrt(a, p, F) ==
    CASE a.expn = ExpNan -> Result(bf_set_nan, {})
      [] a.sign = 1 /\ a.expn # ExpZero -> Result(bf_set_nan, {"invalid"})
      [] a.tab = <<>> -> Result(a, {})
      [] OTHER -> SqrtMagnitude(a, p, F)

bf_logic_op1(a, b, o) == CASE o = "or" -> a | b [] o = "xor" -> a ^^ b [] OTHER -> a & b
\* Two's complement: a negative number is one more than the complement of its limbs.
Complement(v, sign) == IF sign = 1 THEN bf_add(v, bf_set_si(1), PrecInf, Flags("Z")).v ELSE v
LogicResult(tab, r_sign) ==
    LET r == bf_normalize_and_round(Bf(r_sign, Len(tab) * LimbBits, tab), PrecInf, Flags("Z")).v
    IN  IF r_sign = 1 THEN bf_add(r, bf_set_si(-1), PrecInf, Flags("Z")).v ELSE r
LogicLimbs(a, b, a_sign, b_sign, r_sign, o) ==
    LET bits == IF o = "and" /\ r_sign = 0
                THEN IF a_sign = 0 /\ b_sign = 0 THEN Least(a.expn, b.expn)
                     ELSE IF a_sign = 0 THEN a.expn ELSE b.expn
                ELSE Most(a.expn, b.expn)
        limb(v, sign, i) == LET w == get_bits(v.tab, Len(v.tab) * LimbBits - v.expn + i * LimbBits)
                            IN  IF sign = 1 THEN B - 1 - w ELSE w
    IN  [i \in 1..CeilDiv(Most(bits, 1), LimbBits) |->
            LET w == bf_logic_op1(limb(a, a_sign, i - 1), limb(b, b_sign, i - 1), o)
            IN  IF r_sign = 1 THEN B - 1 - w ELSE w]
bf_logic_op(a1, b1, o) ==
    LET a_sign == IF a1.expn <= 0 THEN 0 ELSE a1.sign
        b_sign == IF b1.expn <= 0 THEN 0 ELSE b1.sign
        r_sign == bf_logic_op1(a_sign, b_sign, o)
    IN  LogicResult(LogicLimbs(Complement(a1, a_sign), Complement(b1, b_sign), a_sign, b_sign, r_sign, o), r_sign)

\* Repeated squaring from the second highest bit of n down.
RECURSIVE PowFrom(_, _, _)
PowFrom(r, a, bits) ==
    IF bits = <<>> THEN r
    ELSE LET sq == bf_mul(r, r, PrecInf, Flags("Z")).v
         IN  PowFrom(IF bits[1] = 1 THEN bf_mul(sq, a, PrecInf, Flags("Z")).v ELSE sq, a, Tail(bits))
RECURSIVE BitsOf(_)
BitsOf(n) == IF n = 0 THEN <<>> ELSE BitsOf(n \div 2) \o <<n % 2>>
bf_pow_ui(a, n) == IF n = 0 THEN bf_set_si(1) ELSE PowFrom(a, a, Tail(BitsOf(n)))

\* <<value modulo 2^IntBits, whether it overflows>>; limbs are as wide as the integer.
bf_get_int64(a, mod) ==
    LET max == 2^(IntBits - 1) - 1
        top == a.tab[Len(a.tab)]
        signed(v) == (IF a.sign = 1 THEN 0 - v ELSE v) % 2^IntBits
    IN  CASE a.expn >= ExpInf -> <<IF mod THEN 0 ELSE IF a.expn = ExpInf THEN max + a.sign ELSE max, TRUE>>
          [] a.expn <= 0 -> <<0, FALSE>>
          [] 0 < a.expn /\ a.expn < IntBits -> <<signed(top \div 2^(LimbBits - a.expn)), FALSE>>
          [] a.expn \in IntBits..(ExpInf - 1) /\ ~mod ->
                IF a.sign = 1 THEN <<max + 1, ~(a.expn = IntBits /\ top = max + 1)>> ELSE <<max, TRUE>>
          [] OTHER -> <<signed(get_bits(a.tab, Len(a.tab) * LimbBits - a.expn)), FALSE>>

(***************************************************************************)
(* A call of each operation.                                               *)
(***************************************************************************)
Return(name, r) == op' = name /\ res' = <<r.v>> /\ status' = r.st /\ UNCHANGED <<x, y, prec, flags>>
Ready == op = "none"

Add == Ready /\ Return("add", bf_add(x, y, prec, flags))
Sub == Ready /\ Return("sub", bf_sub(x, y, prec, flags))
Mul == Ready /\ Return("mul", bf_mul(x, y, prec, flags))
Div == Ready /\ Return("div", bf_div(x, y, prec, flags))
Sqrt == Ready /\ prec # PrecInf /\ Return("sqrt", bf_sqrt(x, prec, flags))
Round == Ready /\ Return("round", bf_round(x, prec, flags))
Rint == Ready /\ Return("rint", bf_rint(x, flags.rnd))
\* Remainder with the rounding mode of flags for the quotient, nothing rounded.
Rem ==
    /\ Ready
    /\ \E t \in {bf_divrem(x, y, PrecInf, Flags("Z"), flags.rnd)} :
         op' = "rem" /\ res' = <<t[1], t[2]>> /\ status' = t[3]
    /\ UNCHANGED <<x, y, prec, flags>>
Whole(v) == v.expn < ExpInf /\ (v.tab # <<>> => v.expn >= 1 /\ bf_rint(v, "Z").v = v)
Logic(o) == Ready /\ Whole(x) /\ Whole(y) /\ Return(o, Result(bf_logic_op(x, y, o), {}))
Compare == /\ Ready
           /\ op' = "cmp" /\ res' = <<bf_cmpu(x, y), bf_cmp(x, y), bf_cmp_full(x, y)>> /\ status' = {}
           /\ UNCHANGED <<x, y, prec, flags>>
GetInt(mod) == /\ Ready
               /\ op' = (IF mod THEN "intmod" ELSE "int") /\ res' = bf_get_int64(x, mod) /\ status' = {}
               /\ UNCHANGED <<x, y, prec, flags>>
Pow == Ready /\ x.expn < ExpInf /\ Return("pow", Result(bf_pow_ui(x, prec), {}))
Scale == Ready /\ \E e \in {-3, 2} : Return(IF e = 2 THEN "scale+" ELSE "scale-", bf_mul_2exp(x, e, prec, flags))

Arithmetic == Add \/ Sub \/ Mul \/ Div
RoundingOne == Sqrt \/ Round \/ Scale
WholePair == Rem \/ Compare \/ (\E o \in {"and", "or", "xor"} : Logic(o))
WholeOne == Rint \/ Pow \/ (\E mod \in BOOLEAN : GetInt(mod))
Next == Arithmetic \/ RoundingOne \/ WholePair \/ WholeOne

\* A call about to be made, with one of the pairs of operands.
Init(pairs, precisions, flagset) ==
    /\ \E t \in pairs : x = t[1] /\ y = t[2]
    /\ prec \in precisions /\ flags \in flagset
    /\ op = "none" /\ res = <<>> /\ status = {}

(***************************************************************************)
(* The numbers meant: mag * 2^e2 with a sign, and exact results            *)
(* num / den * 2^e2, or the square root of one.                            *)
(***************************************************************************)
Mag(v) == FoldRight(LAMBDA limb, acc : acc * B + limb, v.tab, 0)
E2(v) == v.expn - Len(v.tab) * LimbBits
Finite(v) == v.expn < ExpInf
Zero(v) == v.expn = ExpZero
RECURSIVE BitLen(_)
BitLen(n) == IF n = 0 THEN 0 ELSE 1 + BitLen(n \div 2)
Ratio(num, den, e2) == [num |-> num, den |-> den, e2 |-> e2, root |-> FALSE]
Up(n, k) == IF k > 0 THEN n * 2^k ELSE n
\* The exponent of an exact result: it lies in 2^(e-1) .. 2^e.
ExactExp(r) ==
    LET d == BitLen(r.num) - BitLen(r.den)
        e == IF Up(r.num, 0 - d) >= Up(r.den, d) THEN d + 1 + r.e2 ELSE d + r.e2
    IN  IF r.root THEN (e + 1) \div 2 ELSE e
Isqrt(n) == CHOOSE s \in 0..4096 : s * s <= n /\ (s + 1) * (s + 1) > n
\* Twice the result in units of 2^u: <<floor, whether there is more>>.
Halves(r, u) ==
    LET t == IF r.root THEN r.e2 + 2 - 2 * u ELSE r.e2 + 1 - u
        n == Up(r.num, t)
        d == Up(r.den, 0 - t)
        s == Isqrt(n \div d)
    IN  IF t < -14 THEN <<0, TRUE>>
        ELSE IF r.root THEN <<s, s * s * d # n>> ELSE <<n \div d, n % d # 0>>

\* n and u with the rounded result n * 2^u, and the status, by the definition of each
\* rounding mode; above for the other neighbour that mode F may return.
RoundedHalves(sign, h, u, min, F) ==
    LET n == h[1] \div 2
        over == h[1] % 2 = 1
        inexact == over \/ h[2]
        up == CASE F.rnd = "Z" -> FALSE
                [] F.rnd = "A" -> inexact
                [] F.rnd = "D" -> inexact /\ sign = 1
                [] F.rnd = "U" -> inexact /\ sign = 0
                [] F.rnd = "NA" -> over
                [] OTHER -> over /\ (h[2] \/ n % 2 = 1)
        m == IF up THEN n + 1 ELSE n
        e1 == BitLen(m) + u
        under == m = 0 \/ e1 < min
    IN  [n |-> IF under /\ ~F.sub THEN 0 ELSE m, u |-> u, lower |-> n,
         big |-> ~under /\ e1 > 2^(F.exp - 1),
         st |-> (IF inexact THEN {"inexact"} ELSE {})
                \union (IF under /\ (inexact \/ ~F.sub) THEN {"underflow", "inexact"} ELSE {})]
Rounded(sign, r, p, F) ==
    LET e == ExactExp(r)
        min == 3 - 2^(F.exp - 1)
        u == e - (IF F.sub /\ e < min THEN p - (min - e) ELSE p)
    IN  RoundedHalves(sign, Halves(r, u), u, min, F)

SameValue(v, sign, n, u) ==
    IF n = 0 THEN v = Bf(sign, ExpZero, <<>>)
    ELSE /\ Finite(v) /\ ~Zero(v) /\ v.sign = sign
         /\ Up(Mag(v), E2(v) - u) = Up(n, u - E2(v))
\* The largest number of precision p.
Largest(sign, p, F) == [sign |-> sign, n |-> 2^p - 1, u |-> 2^(F.exp - 1) - p]
ToInf(sign, F) == F.rnd \in {"N", "NA", "A"} \/ (F.rnd = "D" /\ sign = 1) \/ (F.rnd = "U" /\ sign = 0)

ValueMatches(v, sign, o, p, F) ==
    IF o.big THEN IF ToInf(sign, F) THEN v = Bf(sign, ExpInf, <<>>)
                  ELSE SameValue(v, sign, Largest(sign, p, F).n, Largest(sign, p, F).u)
    ELSE IF F.rnd = "F" THEN SameValue(v, sign, o.lower, o.u) \/ SameValue(v, sign, o.lower + 1, o.u)
    ELSE SameValue(v, sign, o.n, o.u)
ValueOk(v, sign, r, p, F) ==
    IF p = PrecInf THEN SameValue(v, sign, r.num \div r.den, r.e2)
    ELSE ValueMatches(v, sign, Rounded(sign, r, p, F), p, F)
StatusOf(sign, r, p, F) ==
    IF p = PrecInf THEN {}
    ELSE LET o == Rounded(sign, r, p, F) IN IF o.big THEN {"overflow", "inexact"} ELSE o.st

\* The exact sum, product, quotient or root of finite operands.
SumOf(neg) ==
    LET e == IF Zero(x) THEN E2(y) ELSE IF Zero(y) THEN E2(x) ELSE Least(E2(x), E2(y))
        signed(v, s) == LET m == IF Zero(v) THEN 0 ELSE Up(Mag(v), E2(v) - e) IN IF s = 1 THEN 0 - m ELSE m
    IN  [n |-> signed(x, x.sign) + signed(y, (y.sign + neg) % 2), e2 |-> e]
ExactOp ==
    LET product == (x.sign + y.sign) % 2
        sum == SumOf(IF op = "sub" THEN 1 ELSE 0)
        ysign == (y.sign + (IF op = "sub" THEN 1 ELSE 0)) % 2
    IN  CASE op \in {"add", "sub"} ->
               [sign |-> IF sum.n # 0 THEN IF sum.n < 0 THEN 1 ELSE 0
                         ELSE IF x.sign = ysign /\ Zero(x) THEN x.sign ELSE IF flags.rnd = "D" THEN 1 ELSE 0,
                r |-> Ratio(IF sum.n < 0 THEN 0 - sum.n ELSE sum.n, 1, sum.e2)]
          [] op = "mul" -> [sign |-> product, r |-> Ratio(Mag(x) * Mag(y), 1, E2(x) + E2(y))]
          [] op = "div" -> [sign |-> product, r |-> Ratio(Mag(x), Mag(y), E2(x) - E2(y))]
          [] op = "sqrt" -> [sign |-> x.sign, r |-> [Ratio(Mag(x), 1, E2(x)) EXCEPT !.root = TRUE]]
          [] op = "scale+" -> [sign |-> x.sign, r |-> Ratio(Mag(x), 1, E2(x) + 2)]
          [] op = "scale-" -> [sign |-> x.sign, r |-> Ratio(Mag(x), 1, E2(x) - 3)]
          [] op = "round" -> [sign |-> x.sign, r |-> Ratio(Mag(x), 1, E2(x))]

Unary == op \in {"sqrt", "round", "scale+", "scale-"}
Rounding == op \in {"add", "sub", "mul", "div"} \/ Unary
NaN == Bf(0, ExpNan, <<>>)
\* Operands for which the result is not a rounded number: the IEEE 754 table.
Exceptional ==
    LET ysign == (y.sign + (IF op = "sub" THEN 1 ELSE 0)) % 2
        product == (x.sign + y.sign) % 2
        inf(v) == v.expn = ExpInf
        invalid == [v |-> NaN, st |-> {"invalid"}]
        some(v) == [v |-> v, st |-> {}]
        none == [v |-> x, st |-> {"finite"}]
    IN  CASE x = NaN \/ (~Unary /\ y = NaN) -> some(NaN)
          [] x # NaN /\ op \in {"round", "scale+", "scale-"} -> IF inf(x) \/ Zero(x) THEN some(x) ELSE none
          [] x # NaN /\ op = "sqrt" -> IF x.sign = 1 /\ ~Zero(x) THEN invalid
                                        ELSE IF inf(x) \/ Zero(x) THEN some(x) ELSE none
          [] op \in {"add", "sub"} /\ x # NaN /\ y # NaN ->
               IF inf(x) /\ inf(y) THEN IF x.sign = ysign THEN some(x) ELSE invalid
               ELSE IF inf(x) THEN some(x) ELSE IF inf(y) THEN some(Bf(ysign, ExpInf, <<>>)) ELSE none
          [] op = "mul" /\ x # NaN /\ y # NaN ->
               IF (inf(x) /\ Zero(y)) \/ (Zero(x) /\ inf(y)) THEN invalid
               ELSE IF inf(x) \/ inf(y) THEN some(Bf(product, ExpInf, <<>>))
               ELSE IF Zero(x) \/ Zero(y) THEN some(Bf(product, ExpZero, <<>>)) ELSE none
          [] op = "div" /\ x # NaN /\ y # NaN ->
               IF (inf(x) /\ inf(y)) \/ (Zero(x) /\ Zero(y)) THEN invalid
               ELSE IF inf(x) THEN some(Bf(product, ExpInf, <<>>))
               ELSE IF inf(y) \/ Zero(x) THEN some(Bf(product, ExpZero, <<>>))
               ELSE IF Zero(y) THEN [v |-> Bf(product, ExpInf, <<>>), st |-> {"divzero"}] ELSE none

\* Whole numbers.
IntOf(v) == LET m == IF Zero(v) THEN 0 ELSE IF E2(v) >= 0 THEN Up(Mag(v), E2(v)) ELSE Mag(v) \div 2^(0 - E2(v))
            IN  IF v.sign = 1 THEN 0 - m ELSE m
Bit(n, i) == (n \div 2^i) % 2
LogicOf(a, b, o) ==
    LET w == 12
        bit(i) == CASE o = "and" -> Bit(a, i) * Bit(b, i) [] o = "xor" -> (Bit(a, i) + Bit(b, i)) % 2
                    [] OTHER -> IF Bit(a, i) + Bit(b, i) > 0 THEN 1 ELSE 0
    IN  FoldLeft(LAMBDA acc, i : acc + bit(i - 1) * 2^(i - 1), 0 - bit(w) * 2^w, [i \in 1..w |-> i])
\* x - q * y, with q the quotient x / y rounded to a whole number: signed over den.
RemOf ==
    LET e == Least(E2(x), E2(y))
        a == Up(Mag(x), E2(x) - e) * (IF x.sign = 1 THEN -1 ELSE 1)
        b == Up(Mag(y), E2(y) - e)
        c == IF y.sign = 1 THEN 0 - b ELSE b
        floor == (a * (IF y.sign = 1 THEN -1 ELSE 1)) \div b     \* floor(x / y)
        r == a - floor * c
        zero == r = 0
        up == ~zero /\
              CASE flags.rnd = "D" -> FALSE
                [] flags.rnd = "U" -> TRUE
                [] flags.rnd = "Z" -> floor < 0
                [] flags.rnd = "A" -> floor >= 0
                [] flags.rnd = "F" -> y.sign = 1                   \* Euclid: r >= 0
                [] flags.rnd = "NA" -> LET t == 2 * (IF r < 0 THEN 0 - r ELSE r)
                                       IN  t > b \/ (t = b /\ floor >= 0)
                [] OTHER -> LET t == 2 * (IF r < 0 THEN 0 - r ELSE r) IN t > b \/ (t = b /\ floor % 2 = 1)
    IN  [q |-> IF up THEN floor + 1 ELSE floor, r |-> IF up THEN r - c ELSE r, e2 |-> e]
Signed(v, n, u) == IF n = 0 THEN Zero(v) ELSE SameValue(v, IF n < 0 THEN 1 ELSE 0, IF n < 0 THEN 0 - n ELSE n, u)
RemainderIs(o) == Signed(res[1], o.q, 0) /\ Signed(res[2], o.r, o.e2)
Order(a, b) == IF a < b THEN -1 ELSE IF a = b THEN 0 ELSE 1
\* A number on the extended line, for comparison.
Place(v) == IF v.expn = ExpInf THEN (IF v.sign = 1 THEN -1 ELSE 1) * 2^24
            ELSE IF Zero(v) THEN 0 ELSE (IF v.sign = 1 THEN -1 ELSE 1) * Mag(v) * 2^(E2(v) + 12)

(***************************************************************************)
(* Properties.                                                             *)
(***************************************************************************)
\* The result of bf_add, bf_sub, bf_mul, bf_div, bf_sqrt, bf_round and bf_mul_2exp is the
\* exact one rounded once in the mode asked for, and that of bf_rint, bf_divrem,
\* bf_logic_op, bf_pow_ui, bf_get_int64 and the comparisons is exact, whatever carries,
\* quotient corrections, recursions and sticky bits happen on the way.
ResultExact ==
    CASE Rounding ->
           IF Exceptional.st # {"finite"} THEN res[1] = Exceptional.v
           ELSE IF ExactOp.r.num = 0 THEN res[1] = Bf(ExactOp.sign, ExpZero, <<>>)
           ELSE ValueOk(res[1], ExactOp.sign, ExactOp.r, prec, flags)
      [] op = "rint" ->
           IF ~Finite(x) \/ Zero(x) THEN res[1] = x
           ELSE LET h == Halves(Ratio(Mag(x), 1, E2(x)), 0)
                    r == Rounded(x.sign, Ratio(Mag(x), 1, E2(x)), x.expn, Flags(flags.rnd))
                IN  IF flags.rnd = "F" THEN SameValue(res[1], x.sign, h[1] \div 2, 0) \/ SameValue(res[1], x.sign, h[1] \div 2 + 1, 0)
                    ELSE SameValue(res[1], x.sign, r.n, 0)
      [] op = "rem" ->
           IF x = NaN \/ y = NaN \/ x.expn = ExpInf \/ Zero(y) THEN res[2] = NaN
           ELSE IF Zero(x) \/ y.expn = ExpInf THEN res[2] = x /\ Zero(res[1])
           ELSE RemainderIs(RemOf)
      [] op \in {"and", "or", "xor"} -> Signed(res[1], LogicOf(IntOf(x), IntOf(y), op), 0)
      [] op = "pow" -> IF Zero(x) /\ prec > 0 THEN Zero(res[1])
                       ELSE SameValue(res[1], (x.sign * prec) % 2, IF prec = 0 THEN 1 ELSE Mag(x)^prec, E2(x) * prec)
      [] op = "cmp" -> IF x = NaN \/ y = NaN THEN res[2] = 2
                       ELSE /\ res[2] = Order(Place(x), Place(y))
                            /\ res[3] = IF Zero(x) /\ Zero(y) THEN Order(y.sign, x.sign) ELSE res[2]
      [] op = "int" -> LET max == 2^(IntBits - 1) - 1
                       IN  IF x.expn >= ExpInf THEN res[2]
                           ELSE IF IntOf(x) \in (0 - max - 1)..max THEN res = <<IntOf(x) % 2^IntBits, FALSE>>
                           ELSE res = <<IF x.sign = 1 THEN max + 1 ELSE max, TRUE>>
      [] op = "intmod" -> x.expn < ExpInf => res = <<IntOf(x) % 2^IntBits, FALSE>>
      [] op = "none" -> TRUE

\* The status says exactly whether the result is inexact, overflowed, underflowed, a
\* division by zero or an invalid operation (mode F reports every result as inexact).
StatusExact ==
    Rounding /\ flags.rnd # "F" =>
        status = IF Exceptional.st # {"finite"} THEN Exceptional.st
                 ELSE IF ExactOp.r.num = 0 THEN {}
                 ELSE StatusOf(ExactOp.sign, ExactOp.r, prec, flags)

\* Every number returned has its top bit set and no zero limb at the bottom, which the
\* comparison, the rounding and the division of the next call rely on.
Normal(v) == v.tab # <<>> => v.tab[Len(v.tab)] >= B \div 2 /\ v.tab[1] # 0
ResultNormal == op \in {"none", "cmp", "int", "intmod"} \/ \A k \in 1..Len(res) : Normal(res[k])
=============================================================================
