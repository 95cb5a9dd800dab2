------------------------------- MODULE Format -------------------------------
(***************************************************************************)
(* Formatted output and number parsing: kernel/vsprintf.c, which serves    *)
(* printk in the kernel and sprintf in perl.  Pure operators.              *)
(*                                                                         *)
(* A text is a sequence of characters without its terminating NUL.  Words  *)
(* keep their width: an unsigned long has LongBits bits, a long long twice *)
(* as many, and a negative number is its two's complement.                 *)
(***************************************************************************)
EXTENDS Integers, Sequences

CONSTANTS
  LongBits,   \* bits of an int and of a long, 32 in the code
  ShortBits   \* bits of a short, 16 in the code

ASSUME WidthAssumption ==
  /\ LongBits \in Nat /\ LongBits > 4     \* a base fits a word
  /\ ShortBits \in 1..LongBits

Word       == 2^LongBits
DoubleWord == 2^(2 * LongBits)

lower == <<"0","1","2","3","4","5","6","7","8","9","a","b","c","d","e","f">>
upper == <<"0","1","2","3","4","5","6","7","8","9","A","B","C","D","E","F">>

isdigit  == {lower[i] : i \in 1..10}
isxdigit == {lower[i] : i \in 1..16} \cup {upper[i] : i \in 1..16}

\* The value of a digit, in either case.
DigitValue(c) == (CHOOSE i \in 1..16 : c \in {lower[i], upper[i]}) - 1

\* The character at position i; behind the last one there is the NUL.
At(s, i) == IF i <= Len(s) THEN s[i] ELSE "NUL"

\* The first position from i on with a character that is not in S.
SkipOver(s, i, S) ==
  CHOOSE j \in i..(Len(s) + 1) : At(s, j) \notin S /\ \A k \in i..(j - 1) : s[k] \in S

\* The number the digits s[i..j-1] stand for, `result*base + value' digit by
\* digit in words of modulus w.
Accumulate(s, i, j, base, w) ==
  LET r[k \in i..j] ==
        IF k = i THEN 0 ELSE (r[k - 1] * base + DigitValue(s[k - 1])) % w
  IN  r[j]

\* A null pointer where a string is expected.
NullString == <<"NUL">>

Pad(c, n) == [i \in 1..n |-> c]   \* none if n is negative

Larger(a, b) == IF a > b THEN a ELSE b

-----------------------------------------------------------------------------
(* number().                                                               *)

\* Mutant: the remainder of the high word is not carried into the low one.
do_div_NoCarry(n, base) ==
  [quotient |-> ((n \div Word) \div base) * Word + ((n % Word) \div base),
   mod      |-> (n % Word) % base]

\* do_div: a double word is divided with two divisions of words.
do_div(n, base) ==
  LET high == n \div Word
      rest == IF high # 0 THEN high % base ELSE high
      d    == rest * Word + (n % Word)     \* edx:eax of the divl
  IN  [quotient |-> (high \div base) * Word + (d \div base),
       mod      |-> d % base]

\* The digits of a number; number() collects them in tmp, the last one first,
\* while num is not 0.
Numeral(num, base, digits) ==
  LET tmp[i \in 0..(2 * LongBits)] ==
        IF i = 0 THEN [num |-> num, text |-> <<>>]
        ELSE LET t == tmp[i - 1]
                 d == do_div(t.num, base)
             IN  IF t.num = 0 THEN t
                 ELSE [num |-> d.quotient, text |-> <<digits[d.mod + 1]>> \o t.text]
  IN  IF num = 0 THEN <<"0">> ELSE tmp[2 * LongBits].text

\* The flags are those of vsprintf, by their character: "-" is LEFT, "+" PLUS,
\* " " SPACE, "#" SPECIAL and "0" ZEROPAD.
Negative(num, type) == "SIGN" \in type /\ num >= DoubleWord \div 2

SignOf(num, type) ==
  CASE Negative(num, type)                               -> <<"-">>
    [] {"SIGN", "+"} \subseteq type /\ ~Negative(num, type) -> <<"+">>
    [] {"SIGN", " "} \subseteq type /\ "+" \notin type /\ ~Negative(num, type) -> <<" ">>
    [] OTHER                                             -> <<>>

PrefixOf(base, type) ==
  CASE "#" \in type /\ base = 8  -> <<"0">>
    [] "#" \in type /\ base = 16 -> <<"0", IF "LARGE" \in type THEN "X" ELSE "x">>
    [] OTHER                     -> <<>>

\* The sign and the prefix (head), the digits behind at least `precision'
\* digits, and what fills the field up to its size.
Field(head, tmp, precision, size, type) ==
  LET left == "-" \in type
      zero == "0" \in type /\ ~left
      fill == size - Len(head) - precision
  IN  (IF left \/ zero THEN <<>> ELSE Pad(" ", fill))
        \o head
        \o (IF zero THEN Pad("0", fill) ELSE <<>>)
        \o Pad("0", precision - Len(tmp)) \o tmp
        \o (IF left THEN Pad(" ", fill) ELSE <<>>)

number(num, base, size, precision, type) ==
  LET tmp == Numeral(IF Negative(num, type) THEN DoubleWord - num ELSE num, base,
                     IF "LARGE" \in type THEN upper ELSE lower)
  IN  Field(SignOf(num, type) \o PrefixOf(base, type), tmp,
            Larger(precision, Len(tmp)), size, type)

-----------------------------------------------------------------------------
(* vsprintf.  A directive is read in the order of its parts: d has what is *)
(* read so far, the position behind it and the arguments that are left.    *)

\* A width or a precision at position i: digits, or `*' for the next argument;
\* n = -1 if there is none.
Amount(f, i, args) ==
  CASE At(f, i) \in isdigit ->
         LET j == SkipOver(f, i, isdigit)   \* skip_atoi
         IN  [n |-> Accumulate(f, i, j, 10, Word), at |-> j, args |-> args]
    [] At(f, i) = "*" ->
         [n |-> IF Head(args) >= Word \div 2 THEN Head(args) - Word ELSE Head(args),
          at |-> i + 1, args |-> Tail(args)]
    [] OTHER -> [n |-> -1, at |-> i, args |-> args]

\* The flags behind the % at position i, up to position a.
ReadFlags(f, i, a, args) ==
  [flags |-> {f[k] : k \in (i + 1)..(a - 1)}, width |-> -1, precision |-> -1,
   qualifier |-> "none", at |-> a, args |-> args]

\* A negative argument for the width asks for the left.
WithWidth(d, w, star) ==
  [d EXCEPT !.width = IF star /\ w.n < 0 THEN -w.n ELSE w.n,
            !.flags = IF star /\ w.n < 0 THEN @ \cup {"-"} ELSE @,
            !.at = w.at, !.args = w.args]
ReadWidth(f, d) == WithWidth(d, Amount(f, d.at, d.args), At(f, d.at) = "*")

WithPrecision(d, p) ==
  [d EXCEPT !.precision = Larger(p.n, 0), !.at = p.at, !.args = p.args]
ReadPrecision(f, d) ==
  IF At(f, d.at) = "." THEN WithPrecision(d, Amount(f, d.at + 1, d.args)) ELSE d

ReadQualifier(f, d) ==
  IF At(f, d.at) \in {"h", "l", "L", "Z"}
    THEN [d EXCEPT !.qualifier = f[d.at], !.at = @ + 1] ELSE d

Directive(f, i, args) ==
  ReadQualifier(f, ReadPrecision(f, ReadWidth(f,
    ReadFlags(f, i, SkipOver(f, i + 1, {"-", "+", " ", "#", "0"}), args))))

\* Text in a field of a width, to the right unless the flags say left.
Justified(text, width, flags) ==
  IF "-" \in flags THEN text \o Pad(" ", width - Len(text))
                   ELSE Pad(" ", width - Len(text)) \o text

\* Mutant: the limit is tested after the character.
strnlen_After(s, count) == IF count >= 0 /\ count < Len(s) THEN count + 1 ELSE Len(s)

\* strnlen(s, count): the length, at most count; -1 as a size_t is no limit.
strnlen(s, count) == IF count >= 0 /\ count < Len(s) THEN count ELSE Len(s)

Limited(s, precision) == SubSeq(s, 1, strnlen(s, precision))

\* An int of that many bits as a long long.
SignExtend(v, bits) == IF v >= 2^(bits - 1) THEN v + DoubleWord - 2^bits ELSE v

\* The argument of an integer conversion, as the qualifier says.
Argument(v, qualifier, signed) ==
  CASE qualifier = "L" -> v
    [] qualifier = "Z" -> v % Word
    [] qualifier = "h" -> IF signed THEN SignExtend(v % 2^ShortBits, ShortBits)
                                    ELSE v % 2^ShortBits
    [] OTHER           -> IF signed THEN SignExtend(v % Word, LongBits) ELSE v % Word

IntegerFlags(conv) ==
  CASE conv = "X" -> {"LARGE"} [] conv \in {"d", "i"} -> {"SIGN"} [] OTHER -> {}

\* A pointer is unsigned, whatever the qualifier, and without a width it has
\* all its digits.
Integer(d, v, conv) ==
  CASE conv = "p" /\ d.width = -1 ->
         number(v % Word, 16, LongBits \div 4, d.precision, d.flags \cup {"0"})
    [] OTHER ->
         number(IF conv = "p" THEN v % Word
                              ELSE Argument(v, d.qualifier, conv \in {"d", "i"}),
                CASE conv = "o" -> 8 [] conv \in {"x", "X", "p"} -> 16 [] OTHER -> 10,
                d.width, d.precision, d.flags \cup IntegerFlags(conv))

IntegerConvs == {"d", "i", "u", "o", "x", "X", "p"}

\* What the directive d with its conversion character writes.
Written(d, conv) ==
  CASE conv = "c" -> Justified(<<Head(d.args)>>, d.width, d.flags)
    [] conv = "s" ->
         Justified(Limited(IF Head(d.args) = NullString THEN <<"<","N","U","L","L",">">>
                                                        ELSE Head(d.args), d.precision),
                   d.width, d.flags)
    [] conv \in IntegerConvs -> Integer(d, Head(d.args), conv)
    [] conv = "n"          -> <<>>
    [] conv \in {"%", "NUL"} -> <<"%">>
    [] OTHER               -> <<"%", conv>>

\* How many arguments the conversion takes.
Takes(conv) == IF conv \in {"c", "s", "n"} \cup IntegerConvs THEN 1 ELSE 0

\* Mutant: a format that ends inside a directive is not backed up from.
Back_Not(conv) == 1

\* How far `++fmt' gets behind the conversion character; `--fmt' at the NUL.
Back(conv) == IF conv = "NUL" THEN 0 ELSE 1

Convert(st, d, conv) ==
  [out    |-> st.out \o Written(d, conv),
   at     |-> d.at + Back(conv),
   args   |-> SubSeq(d.args, Takes(conv) + 1, Len(d.args)),
   stored |-> IF conv = "n" THEN Len(st.out) ELSE st.stored]

\* One turn of the loop: st has what is written (out), the position in the
\* format, the arguments left and what %n stored.
Turn(f, st) ==
  LET d == Directive(f, st.at, st.args)
  IN  IF f[st.at] = "%" THEN Convert(st, d, At(f, d.at))
      ELSE [st EXCEPT !.out = Append(@, f[st.at]), !.at = @ + 1]

vsprintf(f, args) ==
  LET loop[k \in 0..Len(f)] ==
        IF k = 0 THEN [at |-> 1, out |-> <<>>, args |-> args, stored |-> -1]
        ELSE LET st == loop[k - 1] IN IF st.at > Len(f) THEN st ELSE Turn(f, st)
  IN  loop[Len(f)]

-----------------------------------------------------------------------------
(* Parsing.  `end' is what is stored through endp, a position.             *)

\* What simple_strtoul and simple_strtoull have in common; w is the modulus.
Simple(s, base0, w) ==
  LET octal == base0 = 0 /\ At(s, 1) = "0"
      hex   == octal /\ At(s, 2) = "x" /\ At(s, 3) \in isxdigit
      base  == CASE hex -> 16 [] octal /\ ~hex -> 8
                 [] base0 = 0 /\ ~octal -> 10 [] OTHER -> base0
      start == IF hex THEN 3 ELSE IF octal THEN 2 ELSE 1
      end   == SkipOver(s, start, {c \in isxdigit : DigitValue(c) < base})
  IN  [value |-> Accumulate(s, start, end, base, w), end |-> end]

simple_strtoul(s, base)  == Simple(s, base, Word)
simple_strtoull(s, base) == Simple(s, base, DoubleWord)

\* The negative of a word of modulus w.
Negate(v, w) == (w - v) % w

\* simple_strtol and simple_strtoll.
SimpleSigned(s, base, w) ==
  LET r == Simple(SubSeq(s, 2, Len(s)), base, w)
  IN  IF At(s, 1) = "-" THEN [value |-> Negate(r.value, w), end |-> r.end + 1]
                        ELSE Simple(s, base, w)

simple_strtol(s, base)  == SimpleSigned(s, base, Word)
simple_strtoll(s, base) == SimpleSigned(s, base, DoubleWord)
=============================================================================
