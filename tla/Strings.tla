------------------------------ MODULE Strings ------------------------------
(***************************************************************************)
(* The pure functions the kernel prints and compares with: string.c, the   *)
(* numbers of shell.c, serial.c and of the loader's wsprintf.  Characters  *)
(* are their codes, a string a sequence of them without its terminator,    *)
(* and what is assumed at the end of each part holds for every number of   *)
(* Bits bits and every short string: TLC evaluates it.                     *)
(***************************************************************************)
EXTENDS Integers, Sequences, SequencesExt

CONSTANTS
    Bits,       \* width of an int (32), a multiple of four
    Letters,    \* characters of the strings compared
    Longest     \* how long they are at most

UMAX == 2 ^ Bits - 1
INT_MAX == 2 ^ (Bits - 1) - 1
Unsigned == 0 .. UMAX
Bases == 2 .. 16

Minus == 45
Zero == 48
Space == 32

Wrapped(v) == v % (UMAX + 1)
AsInt(v) == IF Wrapped(v) > INT_MAX THEN Wrapped(v) - UMAX - 1 ELSE Wrapped(v)

\* Division of C: towards zero.
Quotient(v, b) == IF v < 0 THEN -((-v) \div b) ELSE v \div b
Remainder(v, b) == v - b * Quotient(v, b)

Texts == UNION {[1 .. n -> Letters] : n \in 0 .. Longest}

----------------------------------------------------------------------------
(* Numbers written.                                                        *)

Digit(d) == IF d <= 9 THEN Zero + d ELSE d - 10 + 97
UpperDigit(d) == IF d <= 9 THEN Zero + d ELSE d - 10 + 65

RECURSIVE Digits(_, _)
\* The digits of a number as they come, the last one first.
Digits(v, b) ==
    IF v = 0 THEN <<>> ELSE <<Digit(Remainder(v, b))>> \o Digits(Quotient(v, b), b)

utoa(v, b) == IF v = 0 THEN <<Zero>> ELSE Reverse(Digits(v, b))

itoa(v, b) ==
    IF v = 0 THEN <<Zero>>
    ELSE IF v < 0 /\ b = 10 THEN Reverse(Append(Digits(-v, b), Minus))
    ELSE Reverse(Digits(v, b))

\* The string that is reversed begins with the sign here.
shell_itoa(v, b) ==
    IF v = 0 THEN <<Zero>>
    ELSE IF v < 0 /\ b = 10 THEN Reverse(<<Minus>> \o Digits(-v, b))
    ELSE Reverse(Digits(v, b))

lltoa(v, b) == itoa(AsInt(v), b)
ulltoa(v, b) == utoa(Wrapped(v), b)

Nibbles(v) == [i \in 1 .. Bits \div 4 |-> (v \div 16 ^ (Bits \div 4 - i)) % 16]

\* From the highest nibble; zeros only once something is written.
shell_utoa_hex(v, upper) ==
    LET n     == Nibbles(v)
        first == {i \in DOMAIN n : n[i] # 0}
        text  == [i \in DOMAIN n |-> IF upper THEN UpperDigit(n[i]) ELSE Digit(n[i])]
    IN  IF first = {} THEN <<Zero>>
        ELSE SubSeq(text, CHOOSE i \in first : \A j \in first : i <= j, Len(text))

\* Backwards from the end of a buffer.
RECURSIVE serial_putdec(_)
serial_putdec(v) ==
    IF v <= 9 THEN <<Zero + v>> ELSE Append(serial_putdec(v \div 10), Zero + (v % 10))

serial_puthex(v) == [i \in 1 .. Bits \div 4 |-> UpperDigit(Nibbles(v)[i])]

RECURSIVE DigitCount(_, _)
DigitCount(v, b) == IF v < b THEN 1 ELSE 1 + DigitCount(v \div b, b)

\* wsprintf counts the digits first, and fills them in from the right (%d) or
\* from the left (%x).
wsprintf_number(v, b) ==
    LET n == DigitCount(v, b)
    IN  [i \in 1 .. n |-> UpperDigit((v \div b ^ (n - i)) % b)]

\* A decimal, and hexadecimals with small and with capital letters.
Upper(text) == [i \in DOMAIN text |-> IF text[i] >= 97 THEN text[i] - 32 ELSE text[i]]

----------------------------------------------------------------------------
(* Numbers read.                                                           *)

IsDigit(c) == c \in Zero .. Zero + 9
DigitOf(c) == IF IsDigit(c) THEN c - Zero
              ELSE IF c \in 97 .. 102 THEN c - 87
              ELSE IF c \in 65 .. 70 THEN c - 55
              ELSE 99

RECURSIVE SkipBlanks(_, _)
SkipBlanks(s, blanks) ==
    IF s # <<>> /\ Head(s) \in blanks THEN SkipBlanks(Tail(s), blanks) ELSE s

RECURSIVE Gather(_, _, _)
\* The digits of a base, up to the first character that is none.
Gather(s, b, result) ==
    IF s = <<>> \/ DigitOf(Head(s)) >= b THEN result
    ELSE Gather(Tail(s), b, Wrapped(result * b + DigitOf(Head(s))))

\* Base 0: "0x" and "0" say which.
shell_strtoul(text, base) ==
    LET s == SkipBlanks(text, {Space, 9})
    IN  IF base # 0 THEN Gather(s, base, 0)
        ELSE IF s = <<>> \/ Head(s) # Zero THEN Gather(s, 10, 0)
        ELSE IF Len(s) > 1 /\ s[2] \in {120, 88} THEN Gather(SubSeq(s, 3, Len(s)), 16, 0)
        ELSE Gather(Tail(s), 8, 0)

atoi(text) ==
    LET s == SkipBlanks(text, {Space, 9, 10})
        t == IF s # <<>> /\ Head(s) \in {Minus, 43} THEN Tail(s) ELSE s
    IN  IF s # <<>> /\ Head(s) = Minus THEN -Gather(t, 10, 0) ELSE Gather(t, 10, 0)

\* Printing and reading go together: utoa in every base, hexadecimals and
\* octals by their prefix, and the six printers write the same digits.
ASSUME NumbersComeBack ==
    \A v \in Unsigned :
      /\ \A b \in Bases : shell_strtoul(utoa(v, b), b) = v
      /\ shell_strtoul(utoa(v, 10), 0) = v
      /\ shell_strtoul(<<Zero, 120>> \o shell_utoa_hex(v, FALSE), 0) = v
      /\ shell_strtoul(<<Zero, 88>> \o shell_utoa_hex(v, TRUE), 0) = v
      /\ shell_strtoul(<<Zero>> \o utoa(v, 8), 0) = v
      /\ utoa(v, 10) = serial_putdec(v) /\ utoa(v, 10) = wsprintf_number(v, 10)
      /\ utoa(v, 16) = shell_utoa_hex(v, FALSE)
      /\ Upper(utoa(v, 16)) = shell_utoa_hex(v, TRUE)
      /\ Upper(utoa(v, 16)) = wsprintf_number(v, 16)
      /\ shell_strtoul(serial_puthex(v), 16) = v

\* Signed numbers come back through itoa and atoi; all but the most negative,
\* whose negation overflows.  shell_itoa, which nothing calls, writes the sign
\* behind the number.  lltoa and ulltoa write the low half of what they get.
ASSUME SignsComeBack ==
    /\ \A v \in 0 .. INT_MAX :
         /\ atoi(itoa(v, 10)) = v /\ atoi(itoa(-v, 10)) = -v
         /\ shell_itoa(v, 10) = itoa(v, 10)
         /\ v > 0 => shell_itoa(-v, 10) = Append(utoa(v, 10), Minus)
    /\ \A v \in Unsigned : ulltoa(v + UMAX + 1, 10) = utoa(v, 10)
    /\ lltoa(INT_MAX + 2, 10) = itoa(-INT_MAX, 10)

----------------------------------------------------------------------------
(* printf.                                                                 *)

Padding(c, n) == [i \in 1 .. n |-> c]

\* shell_format_number: padded with zeros, the sign comes behind them.
shell_format_number(num, left_align, width, zero_pad, negative) ==
    LET sign    == IF negative THEN <<Minus>> ELSE <<>>
        len     == Len(sign \o num)
        padding == Padding(IF zero_pad /\ ~left_align THEN Zero ELSE Space, width - len)
    IN  IF width <= len THEN sign \o num
        ELSE IF left_align THEN sign \o num \o padding
        ELSE padding \o sign \o num

FormatString(str, left_align, width) ==
    LET padding == Padding(Space, width - Len(str))
    IN  IF left_align THEN str \o padding ELSE padding \o str

\* One directive of shell_printf, or a character that is none.
Formatted(d) ==
    CASE d.conv = "d" -> shell_format_number(utoa(IF d.arg < 0 THEN -d.arg ELSE d.arg, 10),
                                             d.left, d.width, d.zero, d.arg < 0)
      [] d.conv = "u" -> shell_format_number(utoa(d.arg, 10), d.left, d.width, d.zero, FALSE)
      [] d.conv \in {"x", "X"} ->
           shell_format_number(shell_utoa_hex(d.arg, d.conv = "X"), d.left, d.width, d.zero, FALSE)
      [] d.conv = "s" -> FormatString(d.arg, d.left, d.width)
      [] OTHER -> <<d.arg>>

\* The room that is left is looked at before each directive, and not in it.
shell_printf(directives, room) ==
    FoldLeft(LAMBDA out, d : IF Len(out) < room THEN out \o Formatted(d) ELSE out,
             <<>>, directives)

Directives ==
    {[conv |-> "d", left |-> l, zero |-> z, width |-> w, arg |-> v] :
        l \in BOOLEAN, z \in BOOLEAN, w \in 0 .. 4, v \in {-12, -1, 0, 7, 100}}
    \cup {[conv |-> "s", left |-> l, zero |-> FALSE, width |-> w, arg |-> t] :
            l \in BOOLEAN, w \in 0 .. 4, t \in {<<>>, <<97>>, <<97, 98, 99, 100, 101>>}}
    \cup {[conv |-> "c", left |-> FALSE, zero |-> FALSE, width |-> 0, arg |-> 97]}

\* A column is as wide as it was asked to be or as its text, and the number
\* still reads the same, unless its sign is behind zeros.  What printf puts
\* out passes its room by no more than the end of one directive.
ASSUME Columns ==
    /\ \A d \in Directives :
         /\ d.conv \in {"d", "s"} => Len(Formatted(d)) >= d.width
         /\ d.conv = "d" =>
              /\ Len(Formatted(d)) \in {d.width, Len(itoa(d.arg, 10))}
              /\ ~(d.zero /\ ~d.left /\ d.arg < 0) \/ d.width <= Len(itoa(d.arg, 10))
                   <=> atoi(Formatted(d)) = d.arg
    /\ \A d, e \in Directives : \A room \in 1 .. 4 :
         LET out == shell_printf(<<d, e>>, room)
         IN  /\ Len(Formatted(d)) >= room => out = Formatted(d)
             /\ Len(Formatted(d)) < room => out = Formatted(d) \o Formatted(e)

----------------------------------------------------------------------------
(* Strings.                                                                *)

At(s, i) == IF i <= Len(s) THEN s[i] ELSE 0

\* strcmp goes on while the characters are equal and not the terminator.
RECURSIVE CompareFrom(_, _, _)
CompareFrom(a, b, i) ==
    IF i <= Len(a) /\ At(a, i) = At(b, i) THEN CompareFrom(a, b, i + 1)
    ELSE At(a, i) - At(b, i)
strcmp(a, b) == CompareFrom(a, b, 1)

\* strncmp knows that n characters were equal by n having wrapped around.
RECURSIVE CompareSome(_, _, _, _)
CompareSome(a, b, i, n) ==
    IF n = 0 THEN 0
    ELSE IF i <= Len(a) /\ At(a, i) = At(b, i) THEN CompareSome(a, b, i + 1, n - 1)
    ELSE At(a, i) - At(b, i)
strncmp(a, b, n) == CompareSome(a, b, 1, n)

\* Neither looks at the terminator: 0 is never found.
Places(s, c) == {i \in DOMAIN s : s[i] = c}
strchr(s, c) == IF Places(s, c) = {} THEN 0 ELSE CHOOSE i \in Places(s, c) : \A j \in Places(s, c) : i <= j
strrchr(s, c) == IF Places(s, c) = {} THEN 0 ELSE CHOOSE i \in Places(s, c) : \A j \in Places(s, c) : i >= j

\* What strncpy writes, or (-1 is no character) on and on: when n is used up by the first loop it
\* has wrapped around, and the second loop counts down from the largest size_t.
OnAndOn == <<-1>>
strncpy(src, n) ==
    IF Len(src) < n THEN src \o Padding(0, n - Len(src)) ELSE OnAndOn

\* What stands at dest after strncat, up to the first terminator.
strncat(dest, src, n) == dest \o SubSeq(src, 1, IF n < Len(src) THEN n ELSE Len(src))

RECURSIVE memcpy(_, _, _, _)
\* Byte by byte, upwards.
memcpy(mem, dest, src, count) ==
    IF count = 0 THEN mem
    ELSE memcpy([mem EXCEPT ![dest] = mem[src]], dest + 1, src + 1, count - 1)

\* The first difference decides, and the end of a string is less than a
\* character; strncmp is strcmp of the first n.
ASSUME StringsCompare ==
    \A a, b \in Texts :
      /\ strcmp(a, b) = 0 <=> a = b
      /\ strcmp(a, b) < 0 <=>
           \E k \in (0 .. Len(a)) \cap (0 .. Len(b)) :
             SubSeq(a, 1, k) = SubSeq(b, 1, k) /\ At(a, k + 1) < At(b, k + 1)
      /\ \A n \in 0 .. Longest + 1 :
           strncmp(a, b, n) = strcmp(SubSeq(a, 1, IF n < Len(a) THEN n ELSE Len(a)),
                                     SubSeq(b, 1, IF n < Len(b) THEN n ELSE Len(b)))
      /\ \A n \in 1 .. Longest + 1 :
           strncpy(a, n) # OnAndOn => Len(strncpy(a, n)) = n
      /\ \A c \in Letters :
           /\ strchr(a, c) # 0 => a[strchr(a, c)] = c /\ strchr(SubSeq(a, 1, strchr(a, c) - 1), c) = 0
           /\ strrchr(a, c) = 0 <=> strchr(a, c) = 0

\* memcpy moves what it is told to, unless it overwrites what it has yet to
\* read: dest above src, and less than count above it.
ASSUME CopyIsExact ==
    LET mem == [i \in 0 .. 6 |-> i]
    IN  \A d, s, n \in 0 .. 3 :
          LET after == memcpy(mem, d, s, n)
          IN  (\A i \in 0 .. n - 1 : after[d + i] = mem[s + i])
                <=> ~(s < d /\ d < s + n)
=============================================================================
