--------------------------- MODULE LibStdio ---------------------------
(***************************************************************************)
(* lib/stdio.c: vsnprintf(), that is __vprintf() with an output that keeps *)
(* as much as fits its buffer.  A turn of __vprintf() over the format is a *)
(* step.  A format is a sequence of characters; an argument is a word of   *)
(* LongBits bits, of which va_arg() takes those of its type, or a string.  *)
(***************************************************************************)
EXTENDS Integers, Sequences, SequencesExt, FiniteSetsExt, Folds, TLC

CONSTANTS
    Conversions,  \* what a format asks for: flags, width, precision, type, ...
    BufSizes,
    CharBits, ShortBits, IntBits, LongBits,  \* 8, 16, 32 and 64
    BufLen        \* sizeof buf in format_integer(), 64

VARIABLES
    wanted,    \* history: the conversion of the format
    buf_size,
    format,    \* the rest of the format
    args,      \* the arguments not taken yet
    buffer, length  \* the buffer, and the length of the whole output

stdioVars == <<wanted, buf_size, format, args, buffer, length>>

Chars(n) == IF n = 0 THEN <<"0">>
            ELSE LET f[k \in 0..n] == IF k = 0 THEN <<>>
                                      ELSE f[k \div 10] \o <<ToString(k % 10)>>
                 IN  f[n]
TypeChars == "int" :> <<>> @@ "char" :> <<"h", "h">> @@ "short" :> <<"h">>
             @@ "long" :> <<"l">> @@ "long long" :> <<"l", "l">>
             @@ "intmax" :> <<"j">> @@ "ptrdiff" :> <<"t">> @@ "size" :> <<"z">>

\* How a programmer writes a conversion, and its arguments.
FormatOf(w) ==
    <<"[", "%">> \o SetToSeq(w.flags)
    \o (IF w.width = 0 THEN <<>> ELSE IF w.star THEN <<"*">> ELSE Chars(w.width))
    \o (IF w.precision = -1 THEN IF w.star THEN <<".", "*">> ELSE <<>>
        ELSE IF w.star THEN <<".", "*">> ELSE <<".">> \o Chars(w.precision))
    \o TypeChars[w.type] \o <<w.conv, "]">>
ArgsOf(w) ==
    (IF w.star /\ w.width # 0 THEN <<w.width>> ELSE <<>>)
    \o (IF w.star THEN <<w.precision>> ELSE <<>>)
    \o (IF w.conv = "%" THEN <<>> ELSE <<w.arg>>)

NoConversion == [conv |-> "%"]
StdioIdle ==
    /\ wanted = NoConversion /\ buf_size = 0 /\ format = <<>> /\ args = <<>>
    /\ buffer = <<>> /\ length = 0
StdioInit ==
    /\ wanted \in Conversions /\ buf_size \in BufSizes
    /\ format = FormatOf(wanted) /\ args = ArgsOf(wanted)
    /\ buffer = <<>> /\ length = 0

----------------------------------------------------------------------------
\* vsnprintf_helper(), for each character: as many as fit are kept.
Output(chars) ==
    LET max_length == IF buf_size > 0 THEN buf_size - 1 ELSE 0
    IN  /\ buffer' = SubSeq(buffer \o chars, 1, Min({Len(buffer \o chars), max_length}))
        /\ length' = length + Len(chars)
        /\ UNCHANGED <<wanted, buf_size>>

OutputDup(ch, n) == [k \in 1..n |-> ch]

\* A character of the format that is not "%", or "%%".
Literal ==
    /\ format # <<>>
    /\ \/ Head(format) # "%" /\ Output(<<Head(format)>>) /\ format' = Tail(format)
       \/ /\ Len(format) > 1 /\ Head(format) = "%" /\ format[2] = "%"
          /\ Output(<<"%">>) /\ format' = SubSeq(format, 3, Len(format))
    /\ UNCHANGED args

FlagChars == {"-", "+", " ", "#", "0", "'"}
NumberChars == {"0", "1", "2", "3", "4", "5", "6", "7", "8", "9"}
After(f, cs) == LET others == {k \in DOMAIN f : f[k] \notin cs}
                IN  IF others = {} THEN Len(f) ELSE Min(others) - 1
CharDigit(c) == CHOOSE d \in 0..9 : ToString(d) = c
Number(f) == FoldLeft(LAMBDA v, c : v * 10 + CharDigit(c), 0, f)

\* parse_conversion(): flags, width, precision and type, and what is left of
\* the format and of the arguments.
ParseConversion(f, as) ==
    LET n == After(f, FlagChars)
        given == ToSet(SubSeq(f, 1, n))
        f1 == SubSeq(f, n + 1, Len(f))
        star == Head(f1) = "*"
        w == IF star THEN Head(as) ELSE Number(SubSeq(f1, 1, After(f1, NumberChars)))
        as1 == IF star THEN Tail(as) ELSE as
        f2 == SubSeq(f1, (IF star THEN 1 ELSE After(f1, NumberChars)) + 1, Len(f1))
        point == Head(f2) = "."
        pstar == point /\ f2[2] = "*"
        pn == After(Tail(f2), NumberChars)
        p == IF ~point THEN -1 ELSE IF pstar THEN Head(as1)
             ELSE Number(SubSeq(f2, 2, pn + 1))
        as2 == IF pstar THEN Tail(as1) ELSE as1
        f3 == SubSeq(f2, IF pstar THEN 3 ELSE IF point THEN pn + 2 ELSE 1, Len(f2))
        types == {t \in DOMAIN TypeChars : IsPrefix(TypeChars[t], f3)}
        type == CHOOSE t \in types : \A u \in types :
                                        Len(TypeChars[u]) <= Len(TypeChars[t])
        minus == "-" \in given \/ w < 0
    IN  [flags |-> (given \cup (IF w < 0 THEN {"-"} ELSE {}))
                   \ ((IF "-" \in given \/ p >= 0 THEN {"0"} ELSE {})
                      \cup (IF "+" \in given THEN {" "} ELSE {})),
         width |-> IF w < 0 THEN -w ELSE w,
         precision |-> IF p < 0 THEN -1 ELSE p,
         type |-> type,
         format |-> SubSeq(f3, Len(TypeChars[type]) + 1, Len(f3)),
         args |-> as2]

\* va_arg() and the cast to the type, signed or not.
Bits(type) == CASE type = "char" -> CharBits [] type = "short" -> ShortBits
                [] type = "int" -> IntBits [] OTHER -> LongBits
Unsigned(arg, type) == arg % 2^Bits(type)
SignedArg(arg, type) ==
    LET v == Unsigned(arg, type)
    IN  IF v >= 2^(Bits(type) - 1) THEN v - 2^Bits(type) ELSE v

IntegerBase == [d |-> [base |-> 10, x |-> {}, group |-> 3],
                o |-> [base |-> 8, x |-> {}, group |-> 3],
                x |-> [base |-> 16, x |-> {"x"}, group |-> 4],
                X |-> [base |-> 16, x |-> {"X"}, group |-> 4]]
BaseOf(conv) == IntegerBase[IF conv \in {"i", "u"} THEN "d" ELSE IF conv = "p" THEN "x" ELSE conv]
DigitChars(conv) == IF conv = "X" THEN <<"A", "B", "C", "D", "E", "F">>
                    ELSE <<"a", "b", "c", "d", "e", "f">>
Digit(d, conv) == IF d < 10 THEN ToString(d) ELSE DigitChars(conv)[d - 9]

\* The digits, from the last one on, with commas between groups.
DigitsOf(value, conv, group) ==
    LET b == BaseOf(conv)
        f[n \in Nat, v \in Nat] ==
            IF v = 0 THEN <<>>
            ELSE (IF group /\ n > 0 /\ n % b.group = 0 THEN <<",">> ELSE <<>>)
                 \o <<Digit(v % b.base, conv)>> \o f[n + 1, v \div b.base]
    IN  f[0, value]

\* format_integer()
FormatInteger(value, is_signed, negative, c, conv) ==
    LET b == BaseOf(conv)
        sign == IF ~is_signed THEN <<>>
                ELSE IF negative THEN <<"-">>
                ELSE IF "+" \in c.flags THEN <<"+">>
                ELSE IF " " \in c.flags THEN <<" ">> ELSE <<>>
        x == IF "#" \in c.flags /\ value > 0 /\ b.x # {}
             THEN <<"0", CHOOSE ch \in b.x : TRUE>> ELSE <<>>
        digits == DigitsOf(value, conv, "'" \in c.flags)
        precision == Min({IF c.precision < 0 THEN 1 ELSE c.precision, BufLen - 1})
        padded == digits \o OutputDup("0", precision - Len(digits))
        buf == IF "#" \in c.flags /\ b.base = 8 /\ (padded = <<>> \/ Last(padded) # "0")
               THEN Append(padded, "0") ELSE padded
        pad_cnt == c.width - Len(buf) - Len(x) - Len(sign)
    IN  (IF c.flags \cap {"-", "0"} = {} THEN OutputDup(" ", pad_cnt) ELSE <<>>)
        \o sign \o x
        \o (IF "0" \in c.flags THEN OutputDup("0", pad_cnt) ELSE <<>>)
        \o Reverse(buf)
        \o (IF "-" \in c.flags THEN OutputDup(" ", pad_cnt) ELSE <<>>)

\* format_string()
FormatString(string, c) ==
    LET pad == OutputDup(" ", c.width - Len(string))
    IN  (IF "-" \notin c.flags THEN pad ELSE <<>>) \o string
        \o (IF "-" \in c.flags THEN pad ELSE <<>>)

\* A turn of __vprintf() for a conversion.
Convert ==
    /\ Len(format) > 1 /\ Head(format) = "%" /\ format[2] # "%"
    /\ LET c == ParseConversion(Tail(format), args)
           conv == Head(c.format)
           arg == Head(c.args)
           v == SignedArg(arg, c.type)
           known == {"d", "i", "o", "u", "x", "X", "c", "s", "p"}
       IN  /\ Output(
                CASE conv \in {"d", "i"} ->
                       FormatInteger(IF v < 0 THEN -v ELSE v, TRUE, v < 0, c, "d")
                  [] conv \in {"o", "u", "x", "X"} ->
                       FormatInteger(Unsigned(arg, c.type), FALSE, FALSE, c, conv)
                  [] conv = "p" ->
                       FormatInteger(Unsigned(arg, "long"), FALSE, FALSE,
                                     [c EXCEPT !.flags = {"#"}], "p")
                  [] conv = "c" -> FormatString(<<arg>>, c)
                  [] conv = "s" ->
                       FormatString(IF c.precision < 0 THEN arg
                                    ELSE SubSeq(arg, 1, Min({Len(arg), c.precision})), c)
                  [] OTHER -> <<"<<no %", conv, ">>">>)
           /\ args' = IF conv \in known THEN Tail(c.args) ELSE c.args
           /\ format' = Tail(c.format)

StdioNext == Literal \/ Convert

----------------------------------------------------------------------------
\* The number that a reader of the digits gets, commas and spaces left out.
ReadBack(field, base) ==
    FoldLeft(LAMBDA v, c : (v * base) + (CHOOSE d \in 0..15 :
                 c \in {Digit(d, "x"), Digit(d, "X")}), 0, field)

\* What printf() of C promises of a signed or unsigned integer: the field is
\* as wide as was asked for and no wider than it needs, on the side that was
\* asked for, and its sign, prefix, digits and commas give the argument back.
IntegerFieldExact(field, w) ==
    LET value == IF w.conv \in {"d", "i"} THEN SignedArg(w.arg, w.type)
                 ELSE Unsigned(w.arg, w.type)
        width == IF w.width < 0 THEN -w.width ELSE w.width
        core == SelectSeq(field, LAMBDA c : c # " ")
        sign == core # <<>> /\ Head(core) \in {"+", "-"}
        rest == IF sign THEN Tail(core) ELSE core
        x == Len(rest) > 1 /\ rest[2] \in {"x", "X"}
        body == IF x THEN SubSeq(rest, 3, Len(rest)) ELSE rest
        digits == SelectSeq(body, LAMBDA c : c # ",")
        spaces == Len(field) - Len(core)
        blank == " " \in w.flags /\ "+" \notin w.flags /\ w.conv \in {"d", "i"}
                 /\ value >= 0
    IN  /\ Len(field) >= width
        /\ ReadBack(digits, BaseOf(w.conv).base) = (IF value < 0 THEN -value ELSE value)
        /\ sign = (w.conv \in {"d", "i"} /\ (value < 0 \/ "+" \in w.flags))
        /\ sign => Head(core) = (IF value < 0 THEN "-" ELSE "+")
        /\ x = ("#" \in w.flags /\ w.conv \in {"x", "X"} /\ value # 0)
        /\ Len(body) >= w.precision
        /\ w.precision = -1 => body # <<>>
        /\ w.conv = "o" /\ "#" \in w.flags => digits # <<>> /\ Head(digits) = "0"
        /\ "'" \in w.flags /\ "0" \notin w.flags =>
             \A k \in DOMAIN body : w.precision <= 1 =>
                (body[k] = ",") = ((Len(body) - k + 1) % (BaseOf(w.conv).group + 1) = 0)
        /\ Len(field) > width =>
             /\ spaces = (IF blank THEN 1 ELSE 0)
             /\ Len(digits) > Min({w.precision, BufLen - 1}) =>
                  \/ Len(digits) <= 1 \/ Head(digits) # "0"
                  \/ w.conv = "o" /\ "#" \in w.flags
        /\ core # <<>> /\ spaces > (IF blank THEN 1 ELSE 0) =>
             LET left == "-" \in w.flags \/ w.width < 0
             IN  IF left THEN Last(field) = " " ELSE Last(field) # " "

\* A negative width in an argument becomes the flag "-" when "0" has been
\* looked at, and the field is filled on both sides (stdio.c:351 and 367).
PadsTwice(w) == w.star /\ w.width < 0 /\ w.precision < 0 /\ "0" \in w.flags

\* vsnprintf() writes the longest beginning of the output that fits, and
\* reports the length of all of it.
FormatExact ==
    format = <<>> /\ wanted # NoConversion =>
      /\ Len(buffer) = Min({length, IF buf_size > 0 THEN buf_size - 1 ELSE 0})
      /\ length < buf_size =>
           LET field == SubSeq(buffer, 2, length - 1)
               w == wanted
               width == IF w.width < 0 THEN -w.width ELSE w.width
               text == IF w.conv = "c" THEN <<w.arg>>
                       ELSE SubSeq(w.arg, 1, IF w.precision < 0 THEN Len(w.arg)
                                             ELSE Min({w.precision, Len(w.arg)}))
           IN  /\ Head(buffer) = "[" /\ Last(buffer) = "]"
               /\ w.conv # "f" => args = <<>>
               /\ /\ w.conv \in {"d", "i", "u", "o", "x", "X"}
                  /\ ~PadsTwice(w)
                  => IntegerFieldExact(field, w)
               /\ w.conv \in {"c", "s"} =>
                    /\ Len(field) = (IF Len(text) > width THEN Len(text) ELSE width)
                    /\ IF "-" \in w.flags \/ w.width < 0 THEN IsPrefix(text, field)
                       ELSE IsSuffix(text, field)
               /\ w.conv = "%" => field = <<"%">>
========================================================================
