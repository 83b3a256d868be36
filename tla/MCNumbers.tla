----------------------------- MODULE MCNumbers -----------------------------
(***************************************************************************)
(* The binary and the decimal numbers of libbf, in parts that choose the   *)
(* width of a limb, the operands and the operations; and the formatting of *)
(* numbers and texts by snprintf.                                          *)
(***************************************************************************)
EXTENDS Printf

VARIABLES part, x, y, prec, flags, op, res, status
bfVars == <<x, y, prec, flags, op, res, status>>

Off == "off"
NoNumber == /\ x = Off /\ y = Off /\ prec = Off /\ flags = Off /\ op = Off
            /\ res = Off /\ status = Off
NoPrintf == /\ call = Off /\ maxlen = Off /\ format = Off /\ args = Off
            /\ idx = Off /\ buffer = Off /\ ret = Off

Specials == {[sign |-> s, expn |-> e, tab |-> <<>>] : s \in {0, 1}, e \in {-1000, 1000}}
            \union {[sign |-> 0, expn |-> 1001, tab |-> <<>>]}
\* The normal numbers with n limbs of the given set, the top one at least top.
Numbers(n, limbs, top, exps, signs) ==
    {[sign |-> s, expn |-> e, tab |-> t] : s \in signs, e \in exps, t \in {u \in [1..n -> limbs] : u[n] >= top /\ u[1] # 0}}
Binary(n, limbs, exps, signs) == Numbers(n, limbs, 8, exps, signs)
TwoBit(n, limbs, exps, signs) == Numbers(n, limbs, 2, exps, signs)
Decimal(n, limbs, exps, signs) == Numbers(n, limbs, 10, exps, signs)
Digit(n, limbs, exps, signs) == Numbers(n, limbs, 1, exps, signs)

Modes == {"N", "Z", "D", "U", "NA", "A", "F"}
BfFlags(r) == [rnd |-> r, exp |-> 9, sub |-> FALSE, radpnt |-> FALSE]
Small(r, sub) == [BfFlags(r) EXCEPT !.exp = 3, !.sub = sub]
AllModes == {BfFlags(r) : r \in Modes}
RoundFlags == AllModes \union {Small(r, sub) : r \in {"N", "Z", "D"}, sub \in BOOLEAN}
PointFlags == {[BfFlags(r) EXCEPT !.radpnt = TRUE] : r \in Modes}

\* Binary: one limb of four bits against one or two, every rounding mode, exponents to the
\* limits of three bits; limbs of two bits, up to four of them, with carries through several
\* limbs; whole numbers, and some that are not.
RoundOperands == Specials \union Binary(1, {8, 11, 15}, {-1, 3}, {0, 1}) \union Binary(2, {8, 15}, {0}, {0})
LimbOperands == TwoBit(1, 0..3, {0, 3}, {0}) \union TwoBit(2, 0..3, {0, 3}, {0})
                \union {v \in TwoBit(3, 0..3, {1}, {0, 1}) : v.tab[1] # 2}
                \union {v \in TwoBit(4, 0..3, {2}, {0}) : v.tab[1] # 2 /\ {v.tab[2], v.tab[3]} \subseteq {0, 3}}
WholeOperands == Specials \union Binary(1, (8..15) \ {9}, {1, 4}, {0, 1})
                 \union {v \in Binary(2, {8, 11, 12, 15}, {3, 6}, {0, 1}) : v.tab[1] = 12 /\ v.tab[2] # 12}

\* Decimal: two digits in a limb with shifts inside limbs and the limits of the exponent;
\* digits counted from the decimal point; one digit in a limb, up to three limbs; whole
\* numbers.  The scaling of roots by powers of four needs a base whose quarter is divisible
\* by 16, as that of 10^19 is; in base 100 top limbs of 1 and 6 (after the shift for an odd
\* exponent) would overflow and are left out.
DecRoundOperands == Specials \union Decimal(1, {10, 25, 99}, {-1, 3}, {0, 1}) \union {v \in Decimal(2, {5, 50, 95}, {1}, {0}) : v.tab[2] = 95}
DecPointOperands == Specials \union Decimal(1, {10, 25, 99}, {0, 1}, {0, 1}) \union {v \in Decimal(2, {5, 50, 95}, {1}, {0}) : v.tab[2] = 95}
DecLimbOperands == Digit(1, 1..9, {0}, {0}) \union Digit(2, {0, 1, 4, 5, 9}, {1}, {0, 1})
                   \union Digit(3, {0, 1, 5, 9}, {2}, {0})
DecRootOperands == Decimal(1, 10..99, {0}, {0}) \union Decimal(1, (20..59) \union (70..99), {1}, {0})
                   \union Decimal(2, {12, 25, 34, 49, 50, 88, 99}, {0, 2}, {0})
                   \union Decimal(2, {25, 34, 49, 50, 88, 99}, {1}, {0})
DecWholeOperands == Specials \union Decimal(1, {10, 31, 32, 99}, {0, 1, 2, 3}, {0, 1}) \union Decimal(2, {1, 50}, {1, 3}, {0, 1})
Square(S) == S \X S
Same(S) == {<<v, v>> : v \in S}

Bf4 == INSTANCE Libbf WITH LimbBits <- 4, UdivNormThreshold <- 3, DivNormLargeThreshold <- 50, IntBits <- 4
Bf2 == INSTANCE Libbf WITH LimbBits <- 2, UdivNormThreshold <- 2, DivNormLargeThreshold <- 3, IntBits <- 2
Dec2 == INSTANCE BfDec WITH LimbDigits <- 2, WordBits <- 7, UdivNormThreshold <- 2, IntMax <- 31, IntDigits <- 2
Dec1 == INSTANCE BfDec WITH LimbDigits <- 1, WordBits <- 4, UdivNormThreshold <- 2, IntMax <- 31, IntDigits <- 2

BfInit == \/ part = "round" /\ Bf4!Init(Square(RoundOperands), {2, 5}, RoundFlags)
          \/ part = "root" /\ Bf4!Init(Same(RoundOperands), {2, 5}, RoundFlags)
          \/ part = "whole" /\ Bf4!Init(Square(WholeOperands), {0}, AllModes)
          \/ part = "one" /\ Bf4!Init(Same(WholeOperands), {0, 3}, AllModes)
          \/ part = "limbs" /\ Bf2!Init(Square(LimbOperands), {3, 8}, {BfFlags("N")})
          \/ part = "limb_root" /\ Bf2!Init(Same(LimbOperands), {3, 8}, {BfFlags("N"), BfFlags("D")})
          \/ part = "dec_round" /\ Dec2!Init(Square(DecRoundOperands), {2, 3}, RoundFlags)
          \/ part = "dec_round" /\ Dec2!Init(Square(DecPointOperands), {0, 2}, PointFlags)
          \/ part = "dec_limbs" /\ Dec1!Init(Square(DecLimbOperands), {2, 4}, {BfFlags("N")})
          \/ part = "dec_root" /\ Dec2!Init(Same(DecRootOperands), {1, 2, 3}, {BfFlags("N"), BfFlags("U")})
          \/ part = "dec_whole" /\ Dec2!Init(Square(DecWholeOperands), {0}, AllModes)
          \/ part = "dec_one" /\ Dec2!Init(Same(DecWholeOperands), {0, 2}, AllModes)
BfNext == \/ part = "round" /\ Bf4!Arithmetic
          \/ part = "root" /\ Bf4!RoundingOne
          \/ part = "whole" /\ Bf4!WholePair
          \/ part = "one" /\ Bf4!WholeOne
          \/ part = "limbs" /\ Bf2!Arithmetic
          \/ part = "limb_root" /\ Bf2!Sqrt
          \/ part = "dec_round" /\ (Dec2!Arithmetic \/ Dec2!Round)
          \/ part = "dec_limbs" /\ Dec1!Arithmetic
          \/ part = "dec_root" /\ Dec2!Sqrt
          \/ part = "dec_whole" /\ Dec2!Rem
          \/ part = "dec_one" /\ Dec2!WholeOne

-----------------------------------------------------------------------------
(* Calls of snprintf: short and long integers of 6 and 10 bits, as many    *)
(* flags, widths and precisions as give every case of the padding.         *)
None == NoCount

FlagSeqs == {<<>>, <<"-">>, <<"0">>, <<"+">>, <<" ">>, <<"#">>, <<"0", "+">>, <<"-", "0">>,
             <<"0", "#">>, <<" ", "+">>, <<"0", " ">>, <<"-", "#">>}
Widths == {None, Just(1), Just(3), Just(6), Star(5), Star(-5)}
Precisions == {None, Just(0), Just(2), Star(4)}
Lengths == {<<>>, <<"l">>}
IntArgs == {0, 9, 31, 43, 511, -1, -32, -512}
IntItems == [flags : FlagSeqs, width : Widths, prec : Precisions, len : Lengths,
             spec : {"d", "u", "x", "o"}, arg : IntArgs]
\* An argument has the type its length asks for.
Fits(i) == IF i.len \in {<<>>, <<"h">>, <<"h", "h">>}
           THEN i.arg \in (IF i.spec = "d" THEN -32..31 ELSE 0..63)
           ELSE i.arg \in (IF i.spec = "d" THEN -512..511 ELSE 0..1023)

\* Shorts and chars, negative precisions, and fields at the end of the buffer.
EdgeItems == [flags : {<<>>, <<"-">>, <<"0">>, <<"#">>, <<"+">>}, width : {None, Just(3), Just(33)},
              prec : {None, Star(-1), Just(31)}, len : {<<"h">>, <<"h", "h">>},
              spec : {"d", "X", "o"}, arg : {0, 7, 31, -1, -8}]
IntCalls == {<<i>> : i \in {j \in IntItems \union EdgeItems : Fits(j)}}

\* Fractions of three bits, and of ten where a product is rounded: half way below the next
\* whole number (972, 973, 1019 and 998), to a half (51), and elsewhere.
Floats == {Float(e, 3) : e \in {0, 1, 3, 4, 5, 7, 12, 79, 800, -4, -79}}
          \union {Float(e, 10) : e \in {51, 972, 973, 1013, 1019, -972}} \union {Float(998, 9)}
FloatItems == {Item(f, w, p, <<>>, "f", v) :
                 f \in {<<>>, <<"-">>, <<"0">>, <<"+">>, <<"0", " ">>}, w \in {None, Just(7), Star(-7)},
                 p \in {None, Just(0), Just(1), Just(2), Star(3), Just(6)}, v \in Floats}
              \union {Item(f, w, p, <<>>, "f", v) : f \in {<<>>, <<"0">>}, w \in {None, Just(33)},
                 p \in {Star(-1), Just(1)}, v \in {Float(7, 3), Float(-7, 3), Special("-zero")}}
              \union {Item(f, w, None, <<>>, "f", Special(k)) :
                 f \in {<<>>, <<"-">>, <<"+">>, <<"0">>, <<" ">>}, w \in {None, Just(2), Just(6)},
                 k \in {"inf", "-inf", "nan"}}
Texts == {<<>>, <<"a">>, <<"a", "b", "c">>}
TextItems == {Item(f, w, p, <<>>, "s", s) : f \in {<<>>, <<"-">>}, w \in {None, Just(2), Star(4), Star(-4)},
                 p \in {None, Just(0), Just(1), Star(2), Just(5)}, s \in Texts}
             \union {Item(f, w, None, <<>>, "c", "q") : f \in {<<>>, <<"-">>}, w \in {None, Just(1), Star(-3)}}
             \union {Item(<<>>, None, None, <<>>, "p", n) : n \in {0, 10, 511}}
             \union {Item(<<>>, None, None, <<>>, "%", "none")}
Plain(c) == Item(<<>>, None, None, <<>>, "plain", c)
\* Two items in one format, with text before and between them.
Few == {Item(<<>>, Star(-3), Star(2), <<>>, "s", <<"a", "b", "c">>), Item(<<"0">>, Just(4), None, <<"l">>, "d", -512),
        Item(<<>>, None, Just(1), <<>>, "f", Float(-79, 3)), Item(<<" ">>, None, None, <<"z">>, "u", 511), Item(<<>>, None, None, <<>>, "%", "none"),
        Item(<<"#">>, Just(5), None, <<"l", "l">>, "x", 43), Item(<<>>, Star(2), None, <<>>, "c", "q")}
Mixed == {<<Plain("="), i, Plain(","), j>> : i \in Few, j \in Few}
TextCalls == {<<i>> : i \in FloatItems \union TextItems} \union Mixed

SomeCalls == IntCalls \union TextCalls

-----------------------------------------------------------------------------
NumbersInit == \/ BfInit /\ NoPrintf
               \/ part = "printf" /\ Init /\ NoNumber

NumbersNext == /\ UNCHANGED part
               /\ \/ BfNext /\ UNCHANGED vars
                  \/ part = "printf" /\ Next /\ UNCHANGED bfVars

NumbersSpec == NumbersInit /\ [][NumbersNext]_<<part, bfVars, vars>>

(* The result of bf_add, bf_sub, bf_mul, bf_div, bf_sqrt, bf_round and     *)
(* bf_mul_2exp is the exact one rounded once in the mode asked for, and    *)
(* that of bf_rint, bf_divrem, bf_logic_op, bf_pow_ui, bf_get_int64 and    *)
(* the comparisons is exact, whatever carries, quotient corrections,       *)
(* recursions and sticky bits happen on the way; its status says exactly   *)
(* whether it is inexact, overflowed, underflowed, divided by zero or      *)
(* invalid; and its top bit is set and its bottom limb is not zero, which  *)
(* the next call relies on.                                                *)
BinaryExact ==
    /\ part \in {"round", "root", "whole", "one"} => Bf4!ResultExact /\ Bf4!StatusExact /\ Bf4!ResultNormal
    /\ part \in {"limbs", "limb_root"} => Bf2!ResultExact /\ Bf2!StatusExact /\ Bf2!ResultNormal

(* The result of bfdec_add, bfdec_sub, bfdec_mul, bfdec_div, bfdec_sqrt    *)
(* and bfdec_round is the exact one rounded once in the mode asked for,    *)
(* counted in digits of the number or after the decimal point, and that of *)
(* bfdec_rint, bfdec_divrem, bfdec_pow_ui and bfdec_get_int32 is exact;    *)
(* its status says what happened; and it has a top digit, no zero limb at  *)
(* the bottom and limbs below the base.                                    *)
DecimalExact ==
    /\ part \in {"dec_round", "dec_root", "dec_whole", "dec_one"} => Dec2!ResultExact /\ Dec2!StatusExact /\ Dec2!ResultNormal
    /\ part = "dec_limbs" => Dec1!ResultExact /\ Dec1!StatusExact /\ Dec1!ResultNormal

(* snprintf writes nothing at or after the size given and ends what it     *)
(* writes with a null.  It returns the length of, and writes, what the C   *)
(* standard says, cut to the size, and the last digit of a float may be    *)
(* one off where the product with the power of ten is rounded; except for  *)
(* the conversions of Deviates, which the code gets wrong: left alignment  *)
(* with a long precision, '#' with digits that fill the field or with      *)
(* %.o, a negative precision, %hhd, flags on infinities, negative zero,    *)
(* numbers longer than the buffer of 32 bytes, digits behind the ninth,    *)
(* and a fraction rounded to half way below a whole number, like 0.95 with *)
(* %.1f (_vsnprintf, _ntoa_format, _ftoa, _out_buffer).                    *)
FormatsExact ==
    /\ part = "printf" => PrintfExact /\ WithinSize
=============================================================================
