------------------------------- MODULE Printf -------------------------------
(***************************************************************************)
(* src/include/c-stdlib/src/printf_impl.c: the formatting engine behind    *)
(* printf, snprintf and ckb_printf.  One action per way round the loop of  *)
(* _vsnprintf: a plain character, an integer, a float, a character, a      *)
(* string, a pointer, any other specifier; then the terminating null.      *)
(*                                                                         *)
(* A call is a sequence of items (what the C standard's text describes)    *)
(* and the format is the token sequence that writes them, which the model  *)
(* parses as the code does.  Integers have CharBits, ShortBits, IntBits    *)
(* and LongBits bits; a double has Significand bits (53 in the code), so   *)
(* that the one product of _ftoa is rounded as it is there, or is "nan",   *)
(* "inf", "-inf" or "-zero".  _etoa is not modelled: %f is only given      *)
(* values within PRINTF_MAX_FLOAT, and precisions that leave at most       *)
(* MaxPrecision after the zeros put in front.  A format does not end       *)
(* inside a conversion.                                                    *)
(***************************************************************************)
EXTENDS Integers, Sequences, FiniteSets, SequencesExt

CONSTANTS Calls,                     \* set of sequences of items
          Counts,                    \* the size arguments of snprintf
          CharBits, ShortBits, IntBits, LongBits,
          NtoaBuffer, FtoaBuffer,    \* PRINTF_NTOA_BUFFER_SIZE, PRINTF_FTOA_BUFFER_SIZE
          DefaultPrecision,          \* PRINTF_DEFAULT_FLOAT_PRECISION
          MaxPrecision,              \* the largest precision _ftoa computes with
          Significand                \* the bits of a double's significand

\* As 2^53 and 10^9: the whole part of a product is never rounded.
ASSUME SignificandHoldsFraction == 2^Significand > 2 * 10^MaxPrecision

VARIABLES call, maxlen, format, args, idx, buffer, ret
vars == <<call, maxlen, format, args, idx, buffer, ret>>

Nul == "nul"
Fresh == "old"                       \* what a byte of the buffer held before the call
DigitChars == <<"0", "1", "2", "3", "4", "5", "6", "7", "8", "9", "a", "b", "c", "d", "e", "f">>
UpperChars == <<"0", "1", "2", "3", "4", "5", "6", "7", "8", "9", "A", "B", "C", "D", "E", "F">>
DigitValue(t) == IF \E i \in 1..10 : DigitChars[i] = t
                 THEN (CHOOSE i \in 1..10 : DigitChars[i] = t) - 1 ELSE -1

(***************************************************************************)
(* Items: what the caller asks for, and the tokens and arguments it takes. *)
(* width and prec are "none", a number, or <<"*", n>>; len is the length   *)
(* modifier.                                                               *)
(***************************************************************************)
RECURSIVE DecimalTokens(_)
DecimalTokens(n) == IF n < 10 THEN <<DigitChars[n + 1]>>
                    ELSE DecimalTokens(n \div 10) \o <<DigitChars[(n % 10) + 1]>>
NoCount == [star |-> FALSE, n |-> -1]
Just(n) == [star |-> FALSE, n |-> n]
Star(n) == [star |-> TRUE, n |-> n]
Item(flags, width, prec, len, spec, arg) ==
    [flags |-> flags, width |-> width, prec |-> prec, len |-> len, spec |-> spec, arg |-> arg]
\* The double n / 2^k.
Float(n, k) == [kind |-> "finite", n |-> n, k |-> k]
Special(kind) == [kind |-> kind, n |-> 0, k |-> 0]
IsPlain(i) == i.spec = "plain"
CountTokens(c) == IF c.star THEN <<"*">> ELSE IF c.n < 0 THEN <<>> ELSE DecimalTokens(c.n)
Unparse(i) ==
    IF IsPlain(i) THEN <<i.arg>>
    ELSE <<"%">> \o i.flags \o CountTokens(i.width)
         \o (IF i.prec = NoCount THEN <<>> ELSE <<".">> \o CountTokens(i.prec))
         \o i.len \o <<i.spec>>
ArgsOf(i) == (IF i.width.star THEN <<i.width.n>> ELSE <<>>) \o (IF i.prec.star THEN <<i.prec.n>> ELSE <<>>)
             \o (IF IsPlain(i) \/ i.spec = "%" THEN <<>> ELSE <<i.arg>>)

(***************************************************************************)
(* Output.                                                                 *)
(***************************************************************************)
_out_buffer(b, i, c, max) == IF i < max THEN [b EXCEPT ![i] = c] ELSE b

\* The characters of text go out one by one from position i on.
Emit(b, i, text, max) ==
    FoldLeft(LAMBDA acc, k : _out_buffer(acc, i + k - 1, text[k], max), b, [k \in 1..Len(text) |-> k])

Repeat(c, n) == [k \in 1..(IF n > 0 THEN n ELSE 0) |-> c]

\* What _out_rev sends: the reversed buffer and the spaces around it.
_out_rev(buf, width, F) ==
    LET left == "-" \in F
        pad == Repeat(" ", width - Len(buf))
    IN  (IF ~left /\ "0" \notin F THEN pad ELSE <<>>) \o Reverse(buf) \o (IF left THEN pad ELSE <<>>)

(***************************************************************************)
(* Integers.  The buffer is filled from the last digit to the sign.        *)
(***************************************************************************)
\* Characters c are added up to length n, as long as the buffer of size max has room.
Fill(buf, c, n, max) == buf \o Repeat(c, (IF n < max THEN n ELSE max) - Len(buf))
Put(buf, c, max) == IF Len(buf) < max THEN Append(buf, c) ELSE buf
Signed(buf, negative, F, max) ==
    IF negative THEN Put(buf, "-", max)
    ELSE IF "+" \in F THEN Put(buf, "+", max)
    ELSE IF " " \in F THEN Put(buf, " ", max) ELSE buf

Hash(buf, base, prec, width, F) ==
    LET len == Len(buf)
        cut == "prec" \notin F /\ len > 0 /\ (len = prec \/ len = width)
        kept == IF ~cut THEN len ELSE IF len > 1 /\ base = 16 THEN len - 2 ELSE len - 1
        b0 == SubSeq(buf, 1, kept)
        b1 == IF base = 16 THEN Put(b0, IF "upper" \in F THEN "X" ELSE "x", NtoaBuffer)
              ELSE IF base = 2 THEN Put(b0, "b", NtoaBuffer) ELSE b0
    IN  Put(b1, "0", NtoaBuffer)

_ntoa_format(buf, negative, base, prec, width, F) ==
    LET signed == negative \/ "+" \in F \/ " " \in F
        right == "-" \notin F
        w == IF right /\ width > 0 /\ "0" \in F /\ signed THEN width - 1 ELSE width
        b1 == IF right THEN Fill(buf, "0", prec, NtoaBuffer) ELSE buf
        b2 == IF right /\ "0" \in F THEN Fill(b1, "0", w, NtoaBuffer) ELSE b1
        b3 == IF "#" \in F THEN Hash(b2, base, prec, w, F) ELSE b2
    IN  _out_rev(Signed(b3, negative, F, NtoaBuffer), w, F)

\* The digits, last one first, at most as many as the buffer holds.
RECURSIVE DigitLoop(_, _, _, _)
DigitLoop(value, base, chars, len) ==
    <<chars[(value % base) + 1]>> \o
    (IF value \div base > 0 /\ len + 1 < NtoaBuffer
     THEN DigitLoop(value \div base, base, chars, len + 1) ELSE <<>>)

_ntoa_long(value, negative, base, prec, width, F0) ==
    LET F == IF value = 0 THEN F0 \ {"#"} ELSE F0
        digits == IF "prec" \notin F \/ value # 0
                  THEN DigitLoop(value, base, IF "upper" \in F THEN UpperChars ELSE DigitChars, 0)
                  ELSE <<>>
    IN  _ntoa_format(digits, negative, base, prec, width, F)

Wrap(v, bits) == v % 2^bits
ToSigned(v, bits) == LET u == Wrap(v, bits) IN IF u >= 2^(bits - 1) THEN u - 2^bits ELSE u
\* (unsigned)(value > 0 ? value : 0 - value)
Magnitude(v, bits) == Wrap(IF v > 0 THEN v ELSE 0 - v, bits)

\* A plain char is unsigned on riscv64.
IntegerText(d, v) ==
    LET base == CASE d.spec \in {"x", "X"} -> 16 [] d.spec = "o" -> 8 [] d.spec = "b" -> 2 [] OTHER -> 10
        signed == d.spec \in {"d", "i"}
        F == (d.flags \union (IF d.spec = "X" THEN {"upper"} ELSE {}))
             \ ((IF base = 10 THEN {"#"} ELSE {}) \union (IF signed THEN {} ELSE {"+", " "})
                \union (IF "prec" \in d.flags THEN {"0"} ELSE {}))
        long == "long" \in F
        bits == IF long THEN LongBits ELSE IF "char" \in F THEN CharBits
                ELSE IF "short" \in F THEN ShortBits ELSE IntBits
        value == IF ~signed \/ (bits = CharBits /\ ~long) THEN Wrap(v, bits) ELSE ToSigned(v, bits)
    IN  _ntoa_long(IF signed THEN Magnitude(value, IF long THEN LongBits ELSE IntBits) ELSE value,
                   signed /\ value < 0, base, d.prec, d.width, F)

(***************************************************************************)
(* Floats: the value v / 2^k.                                              *)
(***************************************************************************)
pow10(n) == 10^n

\* The nearest number with Significand bits, the even one of two.
Nearest(a) ==
    LET lost == CHOOSE b \in 0..40 : a < 2^(Significand + b) /\ (b = 0 \/ a >= 2^(Significand + b - 1))
        half == IF lost = 0 THEN 0 ELSE 2^(lost - 1)
        q == a \div 2^lost
        r == a % 2^lost
        up == r > half \/ (lost > 0 /\ r = half /\ q % 2 = 1)
    IN  (IF up THEN q + 1 ELSE q) * 2^lost

\* tmp, in units of 2^-k: the fraction times the power of ten, rounded.
Scaled(v, k, prec) == Nearest((v % 2^k) * pow10(prec))

\* The fraction digits, last one first: at least one, and no leading zeros.
RECURSIVE FractionLoop(_, _)
FractionLoop(frac, len) ==
    IF len >= FtoaBuffer THEN <<>>
    ELSE <<DigitChars[(frac % 10) + 1]>> \o
         (IF frac \div 10 > 0 THEN FractionLoop(frac \div 10, len + 1) ELSE <<>>)

\* Mutant: the carry out of the fraction is lost (0.99 with one digit prints 0.0).
RoundedNoCarry(v, k, prec) ==
    LET tmp == Scaled(v, k, prec)
        frac == tmp \div 2^k
        diff == 2 * (tmp % 2^k)
    IN  IF diff > 2^k
        THEN IF frac + 1 >= pow10(prec) THEN <<v \div 2^k, 0>> ELSE <<v \div 2^k, frac + 1>>
        ELSE IF diff = 2^k /\ (frac = 0 \/ frac % 2 = 1) THEN <<v \div 2^k, frac + 1>>
        ELSE <<v \div 2^k, frac>>
\* Rounding to prec digits: <<whole part, fraction as an integer>>.  A fraction half way
\* that is odd goes up without the test for a carry into the whole part.
Rounded(v, k, prec) ==
    LET whole == v \div 2^k
        tmp == Scaled(v, k, prec)
        frac == tmp \div 2^k
        diff == 2 * (tmp % 2^k)                \* twice the rest, against 1
    IN  IF diff > 2^k
        THEN IF frac + 1 >= pow10(prec) THEN <<whole + 1, 0>> ELSE <<whole, frac + 1>>
        ELSE IF diff = 2^k /\ (frac = 0 \/ frac % 2 = 1) THEN <<whole, frac + 1>>
        ELSE <<whole, frac>>

\* The fraction with zeros in front of it up to prec digits.  count is unsigned: when the
\* fraction has more digits than prec, it wraps round and zeros fill the buffer.
FractionText(zeros, frac, prec) ==
    LET digits == FractionLoop(frac, Len(zeros))
        end == IF Len(digits) > prec THEN FtoaBuffer ELSE Len(zeros) + prec
    IN  Put(Fill(zeros \o digits, "0", end, FtoaBuffer), ".", FtoaBuffer)

_ftoa(value, k, prec0, width, F) ==
    LET negative == value < 0
        v == IF negative THEN 0 - value ELSE value
        p0 == IF "prec" \in F THEN prec0 ELSE DefaultPrecision
        zeros == Fill(<<>>, "0", p0 - MaxPrecision, FtoaBuffer)
        prec == p0 - Len(zeros)
        r == Rounded(v, k, prec)
        whole == IF prec = 0 /\ 2 * (v - 2^k * r[1]) >= 2^k /\ r[1] % 2 = 1 THEN r[1] + 1 ELSE r[1]
        fraction == IF prec = 0 THEN zeros ELSE FractionText(zeros, r[2], prec)
        number == fraction \o FractionLoop(whole, Len(fraction))
        right == "-" \notin F /\ "0" \in F
        w == IF right /\ width > 0 /\ (negative \/ "+" \in F \/ " " \in F) THEN width - 1 ELSE width
        padded == IF right THEN Fill(number, "0", w, FtoaBuffer) ELSE number
    IN  _out_rev(Signed(padded, negative, F, FtoaBuffer), w, F)

SpecialText(kind, width, F) ==
    _out_rev(CASE kind = "nan" -> <<"n", "a", "n">>
               [] kind = "-inf" -> <<"f", "n", "i", "-">>
               [] OTHER -> <<"f", "n", "i">> \o (IF "+" \in F THEN <<"+">> ELSE <<>>), width, F)
FloatText(d, v) == IF v.kind \in {"finite", "-zero"} THEN _ftoa(v.n, v.k, d.prec, d.width, d.flags)
                   ELSE SpecialText(v.kind, d.width, d.flags)

(***************************************************************************)
(* Characters and strings.                                                 *)
(***************************************************************************)
Justified(text, l, width, F) ==
    LET pad == Repeat(" ", width - l) IN IF "-" \in F THEN text \o pad ELSE pad \o text
CharText(d, c) == Justified(<<c>>, 1, d.width, d.flags)
_strnlen_s(s, max) == IF Len(s) < max THEN Len(s) ELSE max
StringText(d, s) ==
    LET l0 == IF d.prec > 0 THEN _strnlen_s(s, d.prec) ELSE Len(s)
        l == IF "prec" \in d.flags /\ d.prec < l0 THEN d.prec ELSE l0
        text == IF "prec" \in d.flags /\ d.prec < Len(s) THEN SubSeq(s, 1, d.prec) ELSE s
    IN  Justified(text, l, d.width, d.flags)
\* sizeof(void *) * 2 hexadecimal digits; a pointer has LongBits bits.
PointerText(d, v) == _ntoa_long(v, FALSE, 16, d.prec, LongBits \div 4, d.flags \union {"0", "upper"})

(***************************************************************************)
(* The format after a '%': flags, width, precision, length, specifier.     *)
(***************************************************************************)
Tok(f, p) == IF p <= Len(f) THEN f[p] ELSE Nul
\* How many tokens from p on belong to S.
Span(f, p, S) ==
    LET N == {n \in 0..(Len(f) - p + 1) : \A k \in p..(p + n - 1) : f[k] \in S}
    IN  CHOOSE n \in N : \A m \in N : m <= n
atoi(f, p) == LET n == Span(f, p, {DigitChars[i] : i \in 1..10})
              IN  <<p + n, FoldLeft(LAMBDA v, t : 10 * v + DigitValue(t), 0, SubSeq(f, p, p + n - 1))>>

FlagChars == {"0", "-", "+", " ", "#"}
\* A number or a star at p: <<next, value, arguments left>>.
CountField(f, p, a) ==
    IF DigitValue(Tok(f, p)) >= 0 THEN <<atoi(f, p)[1], atoi(f, p)[2], a>>
    ELSE IF Tok(f, p) = "*" THEN <<p + 1, a[1], Tail(a)>>
    ELSE <<p, 0, a>>

\* The length at p: the flags it sets and the position after it.
LengthField(f, p) ==
    LET l == Tok(f, p)
        twice == l \in {"l", "h"} /\ Tok(f, p + 1) = l
    IN  [flags |-> IF l \in {"l", "t", "j", "z"} THEN {"long"}
                   ELSE IF l # "h" THEN {} ELSE IF twice THEN {"short", "char"} ELSE {"short"},
         next |-> IF twice THEN p + 2 ELSE IF l \in {"l", "t", "j", "z", "h"} THEN p + 1 ELSE p]

Directive(f, a) ==
    LET nf == Span(f, 2, FlagChars)
        flags == {f[k] : k \in 2..(nf + 1)}
        w == CountField(f, nf + 2, a)
        dot == Tok(f, w[1]) = "."
        p == IF dot THEN CountField(f, w[1] + 1, w[3]) ELSE <<w[1], 0, w[3]>>
        l == LengthField(f, p[1])
    IN  [flags |-> flags \union (IF w[2] < 0 THEN {"-"} ELSE {}) \union (IF dot THEN {"prec"} ELSE {})
                   \union l.flags,
         width |-> IF w[2] < 0 THEN 0 - w[2] ELSE w[2],
         prec |-> IF p[2] > 0 THEN p[2] ELSE 0,
         spec |-> Tok(f, l.next), rest |-> SubSeq(f, l.next + 1, Len(f)), args |-> p[3]]

(***************************************************************************)
(* The loop of _vsnprintf.                                                 *)
(***************************************************************************)
Output(text) == buffer' = Emit(buffer, idx, text, maxlen) /\ idx' = idx + Len(text)
Frame == UNCHANGED <<call, maxlen, ret>>
IsDirective == ret = -1 /\ format # <<>> /\ format[1] = "%"

PlainChar ==
    /\ ret = -1 /\ format # <<>> /\ format[1] # "%"
    /\ Output(<<format[1]>>)
    /\ format' = Tail(format)
    /\ UNCHANGED args /\ Frame

Convert(specs, Text(_, _)) ==
    /\ IsDirective
    /\ \E d \in {Directive(format, args)} :
         /\ d.spec \in specs
         /\ Output(Text(d, d.args[1]))
         /\ format' = d.rest /\ args' = Tail(d.args)
    /\ Frame

IntegerSpecs == {"d", "i", "u", "x", "X", "o", "b"}
DoInteger == Convert(IntegerSpecs, IntegerText)
DoFloat == Convert({"f", "F"}, FloatText)
DoChar == Convert({"c"}, CharText)
DoString == Convert({"s"}, StringText)
DoPointer == Convert({"p"}, PointerText)

\* '%%' and any other specifier are copied.
DoOther ==
    /\ IsDirective
    /\ \E d \in {Directive(format, args)} :
         /\ d.spec \notin IntegerSpecs \union {"f", "F", "c", "s", "p"}
         /\ Output(<<d.spec>>)
         /\ format' = d.rest /\ args' = d.args
    /\ Frame

Terminate ==
    /\ ret = -1 /\ format = <<>>
    /\ buffer' = IF maxlen = 0 THEN buffer
                 ELSE _out_buffer(buffer, IF idx < maxlen THEN idx ELSE maxlen - 1, Nul, maxlen)
    /\ ret' = idx
    /\ UNCHANGED <<call, maxlen, format, args, idx>>

Next == PlainChar \/ DoInteger \/ DoFloat \/ DoChar \/ DoString \/ DoPointer \/ DoOther \/ Terminate

\* A call of snprintf: the buffer has one byte more than the size it is given.
Init ==
    /\ call \in Calls /\ maxlen \in Counts
    /\ format = FlattenSeq([k \in 1..Len(call) |-> Unparse(call[k])])
    /\ args = FlattenSeq([k \in 1..Len(call) |-> ArgsOf(call[k])])
    /\ idx = 0 /\ ret = -1
    /\ buffer = [k \in 0..maxlen |-> Fresh]

Spec == Init /\ [][Next]_vars

(***************************************************************************)
(* What the C standard says of an item.                                    *)
(***************************************************************************)
Flag(i, c) == \E k \in 1..Len(i.flags) : i.flags[k] = c
LeftOf(i) == Flag(i, "-") \/ (i.width.star /\ i.width.n < 0)
WidthOf(i) == IF i.width = NoCount THEN 0 ELSE IF i.width.n < 0 THEN 0 - i.width.n ELSE i.width.n
\* -1 when no precision is given; ".", and ".0", give 0.
PrecOf(i) == IF i.prec = NoCount THEN -1 ELSE i.prec.n
BitsOf(i) == CASE i.len = <<"l">> -> LongBits [] i.len = <<"l", "l">> -> LongBits [] i.len = <<"z">> -> LongBits
               [] i.len = <<"h">> -> ShortBits [] i.len = <<"h", "h">> -> CharBits [] OTHER -> IntBits
RECURSIVE Numeral(_, _)
Numeral(n, base) == IF n = 0 THEN <<>> ELSE Numeral(n \div base, base) \o <<DigitChars[(n % base) + 1]>>
Upcase(s) == [k \in 1..Len(s) |-> IF s[k] = "x" THEN "X"
                 ELSE IF \E d \in 11..16 : DigitChars[d] = s[k]
                      THEN UpperChars[CHOOSE d \in 11..16 : DigitChars[d] = s[k]] ELSE s[k]]
\* Padding of a number: prefix is its sign or radix mark.
Field(i, prefix, digits, zero) ==
    LET n == WidthOf(i) - Len(prefix) - Len(digits)
    IN  IF LeftOf(i) THEN prefix \o digits \o Repeat(" ", n)
        ELSE IF zero THEN prefix \o Repeat("0", n) \o digits
        ELSE Repeat(" ", n) \o prefix \o digits
Sign(i, neg) == IF neg THEN <<"-">> ELSE IF Flag(i, "+") THEN <<"+">> ELSE IF Flag(i, " ") THEN <<" ">> ELSE <<>>


\* A number in the field of its conversion: its sign or radix mark, its digits, and
\* whether zeros fill the field.
ValueOf(i) == LET u == i.arg % 2^BitsOf(i)
              IN  IF i.spec \in {"d", "i"} /\ u >= 2^(BitsOf(i) - 1) THEN u - 2^BitsOf(i) ELSE u
Absolute(n) == IF n < 0 THEN 0 - n ELSE n
BaseOf(i) == CASE i.spec \in {"x", "X"} -> 16 [] i.spec = "o" -> 8 [] OTHER -> 10
AtLeast(n, digits) == Repeat("0", n - Len(digits)) \o digits
IntegerParts(i) ==
    LET v == ValueOf(i)
        digits == AtLeast(IF PrecOf(i) < 0 THEN 1 ELSE PrecOf(i), Numeral(Absolute(v), BaseOf(i)))
        octal == BaseOf(i) = 8 /\ Flag(i, "#") /\ (digits = <<>> \/ digits[1] # "0")
    IN  [prefix |-> IF i.spec \in {"d", "i"} THEN Sign(i, v < 0)
                    ELSE IF BaseOf(i) = 16 /\ Flag(i, "#") /\ v # 0 THEN <<"0", "x">> ELSE <<>>,
         digits |-> (IF octal THEN <<"0">> ELSE <<>>) \o digits,
         zero |-> Flag(i, "0") /\ PrecOf(i) < 0]

\* The value of a float times 10^prec is between Below and Below + 1, and Twice is
\* twice what is above Below, in units of 2^-k.
FloatPrec(i) == IF PrecOf(i) < 0 THEN DefaultPrecision ELSE PrecOf(i)
Product(i, prec) == Absolute(i.arg.n) * 10^prec
Below(i) == Product(i, FloatPrec(i)) \div 2^(i.arg.k)
Twice(i) == 2 * (Product(i, FloatPrec(i)) % 2^(i.arg.k))
Correct(i) == IF Twice(i) > 2^(i.arg.k) \/ (Twice(i) = 2^(i.arg.k) /\ Below(i) % 2 = 1)
              THEN Below(i) + 1 ELSE Below(i)
FloatParts(i, q) ==
    LET prec == FloatPrec(i)
        ds == AtLeast(prec + 1, Numeral(q, 10))
    IN  [prefix |-> Sign(i, i.arg.n < 0 \/ i.arg.kind = "-zero"),
         digits |-> SubSeq(ds, 1, Len(ds) - prec)
                    \o (IF prec > 0 THEN <<".">> \o SubSeq(ds, Len(ds) - prec + 1, Len(ds)) ELSE <<>>),
         zero |-> Flag(i, "0")]
FieldOf(i, p) == Field(i, p.prefix, p.digits, p.zero)

\* The product of _ftoa has no bits to lose.
Computed(i) == IF FloatPrec(i) < MaxPrecision THEN FloatPrec(i) ELSE MaxPrecision
ScaledExactly(i) ==
    LET a == (Absolute(i.arg.n) % 2^(i.arg.k)) * 10^Computed(i) IN Nearest(a) = a
IsFinite(i) == i.arg.kind \in {"finite", "-zero"}
\* The texts allowed: where the product is rounded, the number below the value or the one
\* above it; else the nearest, the even one of two.
ExpectedFloats(i) ==
    {FieldOf(i, FloatParts(i, q)) : q \in IF ScaledExactly(i) THEN {Correct(i)} ELSE {Below(i), Below(i) + 1}}
ExpectedSpecial(i) ==
    Field(i, Sign(i, i.arg.kind = "-inf"), IF i.arg.kind = "nan" THEN <<"n", "a", "n">> ELSE <<"i", "n", "f">>, FALSE)

Integers_ == {"d", "i", "u", "x", "X", "o"}
ExpectedItem(i) ==
    CASE IsPlain(i) -> {<<i.arg>>}
      [] i.spec = "%" -> {<<"%">>}
      [] i.spec = "X" -> {Upcase(FieldOf(i, IntegerParts(i)))}
      [] i.spec \in Integers_ \ {"X"} -> {FieldOf(i, IntegerParts(i))}
      [] i.spec = "f" -> IF IsFinite(i) THEN ExpectedFloats(i) ELSE {ExpectedSpecial(i)}
      [] i.spec = "c" -> {Field(i, <<>>, <<i.arg>>, FALSE)}
      [] i.spec = "s" -> {Field(i, <<>>, IF PrecOf(i) >= 0 /\ PrecOf(i) < Len(i.arg)
                                         THEN SubSeq(i.arg, 1, PrecOf(i)) ELSE i.arg, FALSE)}
      [] i.spec = "p" -> {Upcase(AtLeast(LongBits \div 4, Numeral(i.arg, 16)))}
Expected == FoldLeft(LAMBDA texts, i : {t \o u : t \in texts, u \in ExpectedItem(i)}, {<<>>}, call)

(***************************************************************************)
(* Where the code does not do what the C standard says.                    *)
(***************************************************************************)
\* A negative precision stands for none; here it is zero (709).
NegativePrecision(i) == i.prec.star /\ i.prec.n < 0 /\ i.spec \in Integers_ \union {"f", "s"}
\* The zeros of a precision are left out with left alignment (289).
LeftPrecision(i) == LeftOf(i) /\ PrecOf(i) > Len(Numeral(Absolute(ValueOf(i)), BaseOf(i)))
\* '#' takes digits, padding or not, where they fill the field (303), and puts a zero in
\* front of an octal number that has one (316).
HashCut(i) ==
    LET n == Len(AtLeast(1, Numeral(Absolute(ValueOf(i)), BaseOf(i))))
    IN  /\ Flag(i, "#") /\ i.spec \in {"x", "X", "o"} /\ ValueOf(i) # 0
        /\ WidthOf(i) = n \/ (Flag(i, "0") /\ WidthOf(i) >= n /\ PrecOf(i) < 0)
HashOctal(i) == Flag(i, "#") /\ i.spec = "o" /\ PrecOf(i) > -1
\* %hhd: a plain char is unsigned on riscv64 (801).
CharUnsigned(i) == i.spec = "d" /\ i.len = <<"h", "h">> /\ ValueOf(i) < 0
\* A number with its zeros that is longer than the buffer it is put together in (293, 465).
TooLong(i, parts, size) ==
    LET n == Len(parts.prefix) + Len(parts.digits)
    IN  n > size \/ (parts.zero /\ ~LeftOf(i) /\ WidthOf(i) > size)
\* Infinities and not-a-number take no sign but '-' and '+' of inf, and no padding with the
\* flag '0' (403-407).
SpecialFlags(i) ==
    \/ /\ Flag(i, "0") /\ ~LeftOf(i)
       /\ WidthOf(i) > Len(ExpectedSpecial(Item(i.flags, NoCount, NoCount, i.len, i.spec, i.arg)))
    \/ i.arg.kind = "inf" /\ Flag(i, " ") /\ ~Flag(i, "+")
    \/ i.arg.kind = "nan" /\ (Flag(i, " ") \/ Flag(i, "+"))
\* Digits behind the ones computed are printed as zeros (432).
DigitsCut(i) == FloatPrec(i) > MaxPrecision /\ Product(i, MaxPrecision) % 2^(i.arg.k) # 0
\* The product is rounded to half way below the next whole number: the fraction gets one
\* digit too many, count wraps round and zeros fill the buffer (450-474).
HalfWayCarry(i) ==
    /\ Computed(i) > 0
    /\ 2 * Scaled(Absolute(i.arg.n), i.arg.k, Computed(i)) = (2 * 10^Computed(i) - 1) * 2^(i.arg.k)

Deviates(i) ==
    \/ NegativePrecision(i)
    \/ /\ i.spec \in Integers_
       /\ \/ LeftPrecision(i) \/ HashCut(i) \/ HashOctal(i) \/ CharUnsigned(i)
          \/ TooLong(i, IntegerParts(i), NtoaBuffer)
    \/ /\ i.spec = "f" /\ IsFinite(i)
       /\ \/ i.arg.kind = "-zero" \/ DigitsCut(i) \/ HalfWayCarry(i)
          \/ TooLong(i, FloatParts(i, Below(i)), FtoaBuffer)
    \/ i.spec = "f" /\ ~IsFinite(i) /\ SpecialFlags(i)

(***************************************************************************)
(* Properties.                                                             *)
(***************************************************************************)
\* When the call returns, a null ends what is in the buffer; and unless an item is one of
\* those that deviate, the buffer holds the text the C standard asks for, cut to the size
\* less one, and the value returned is the length of the whole text.  Where the product of
\* _ftoa is rounded, the last digit may be one off.
Written == IF ret < maxlen THEN ret ELSE maxlen - 1
PrintfExact ==
    ret >= 0 =>
        /\ maxlen > 0 => buffer[Written] = Nul
        /\ (\A n \in 1..Len(call) : ~IsPlain(call[n]) => ~Deviates(call[n])) =>
             \E text \in Expected :
                /\ ret = Len(text)
                /\ maxlen > 0 => \A k \in 0..(Written - 1) : buffer[k] = text[k + 1]

\* No byte at or after the size given is ever written.
WithinSize == buffer[maxlen] = Fresh
=============================================================================
