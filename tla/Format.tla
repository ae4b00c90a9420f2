-------------------------------- MODULE Format --------------------------------
(***************************************************************************)
(* What vsnprintf of format.c makes of a format string, with div of        *)
(* stdlib.c, which it takes decimal digits with.                           *)
(*                                                                         *)
(* A format string is a sequence of items: characters to copy, as          *)
(* [type |-> "copy", arg |-> c], and directives [type, arg, pad, width],   *)
(* the width -1 where there is none.  (No format has the prefix ll.)  A    *)
(* character is its code less that of '0'.                                 *)
(***************************************************************************)
EXTENDS Integers, Sequences

CONSTANTS
    WordBits,       \* the bits of an int, 32
    NumeralBytes    \* char buf[32], the last of them for the NUL

FormatAssumption == {WordBits, NumeralBytes} \subseteq Nat \ {0, 1}

Space == -16
Minus == -3
Percent == -11
LetterA == 17
Letter_a == 49
Letter_x == 72
Nul == -48

(* ints wrap around; the build is not optimised. *)
Words == 2 ^ WordBits
Signed(n) == LET u == n % Words IN IF u < Words \div 2 THEN u ELSE u - Words

(* What a char, of eight bits and signed, keeps of '0' + n. *)
Char(n) == ((n + 48 + 128) % 256) - 128 - 48

(* Shifts take their count modulo the width of a word, as the processor    *)
(* does.                                                                   *)
Bit(n, i) == (n \div 2 ^ (i % WordBits)) % 2
WithBit(n, i) == IF Bit(n, i) = 1 THEN n ELSE Signed(n + 2 ^ (i % WordBits))

-----------------------------------------------------------------------------
(* div(numer, denom): long division, but over as many bits as the number   *)
(* says, without the last, and with `>` for `>=`.                          *)
DivRound(numer, denom, r, i) ==
    LET rem == Signed(2 * r.rem + Bit(numer, i)) IN
    IF rem > denom
    THEN [rem |-> Signed(rem - denom), quot |-> WithBit(r.quot, i)]
    ELSE [rem |-> rem, quot |-> r.quot]

Div(numer, denom) ==
    LET rounds == Signed(numer - 1)
        after[k \in 0 .. rounds] ==
            IF k = 0
            THEN [quot |-> 0, rem |-> 0]
            ELSE LET before == after[k - 1]
                 IN DivRound(numer, denom, before, rounds - k + 1)
    IN IF rounds > 0 /\ denom # 0 THEN after[rounds] ELSE [quot |-> 0, rem |-> 0]

-----------------------------------------------------------------------------
(* The numerals of format_out_dec and format_out_hex grow from the right,  *)
(* one round of their loops per digit.  More rounds than the buffer has    *)
(* bytes would leave it at the front.                                      *)
DecRound(s) ==
    LET d == Div(Signed(s.num), 10)
    IN [num |-> d.quot, text |-> << Char(d.rem) >> \o s.text]

HexDigit(n, a) == IF n < 10 THEN n ELSE a + n - 10

HexRound_Mutant(s, a) == [num |-> s.num \div 16, text |-> s.text \o << HexDigit(s.num % 16, a) >>]
HexRound(s, a) == [num |-> s.num \div 16, text |-> << HexDigit(s.num % 16, a) >> \o s.text]

Rounds(Round(_), n) ==
    LET after[k \in 0 .. NumeralBytes] ==
            IF k = 0
            THEN [num |-> n, text |-> << >>]
            ELSE LET before == after[k - 1]
                 IN IF k > 1 /\ before.num = 0 THEN before ELSE Round(before)
    IN after[NumeralBytes]

Dec(n) == Rounds(DecRound, n)
Hex(n, a) == Rounds(LAMBDA s : HexRound(s, a), n)

Repeat(c, n) == [i \in 1 .. n |-> c]

UpToNul(text) ==
    SubSeq(text, 1, CHOOSE k \in 0 .. Len(text) :
                       /\ \A i \in 1 .. k : text[i] # Nul
                       /\ k < Len(text) => text[k + 1] = Nul)

(* format_out_string: padded to the width on the side the flag says. *)
OutString(d, width, text) ==
    LET filler == Repeat(IF d.pad = "zero" THEN 0 ELSE Space, width)
    IN IF d.pad = "left" THEN UpToNul(text) \o filler ELSE filler \o UpToNul(text)

OutNumeral(d, s) == OutString(d, d.width - Len(s.text), s.text)

IntArg(d) == Signed(d.arg)
UnsignedArg(d) == d.arg % Words

(* The sign comes before the filler. *)
OutSigned(d) ==
    IF IntArg(d) < 0
    THEN << Minus >> \o OutNumeral(d, Dec(-IntArg(d)))
    ELSE OutNumeral(d, Dec(IntArg(d)))

(* What an item adds to the line. *)
Known == {"copy", "c", "%", "s", "d", "u", "x", "X", "p"}

Out(d) ==
    CASE d.type \in {"copy", "c"} -> << d.arg >>
      [] d.type = "%" -> << Percent >>
      [] d.type = "s" -> OutString(d, d.width - Len(d.arg), d.arg)
      [] d.type = "d" -> OutSigned(d)
      [] d.type = "u" -> OutNumeral(d, Dec(UnsignedArg(d)))
      [] d.type = "x" -> OutNumeral(d, Hex(UnsignedArg(d), Letter_a))
      [] d.type = "X" -> OutNumeral(d, Hex(UnsignedArg(d), LetterA))
      [] d.type = "p" -> << 0, Letter_x >> \o OutNumeral(d, Hex(UnsignedArg(d), Letter_a))

(* vsnprintf(str, space, format): what it writes, whether it ends it with a *)
(* NUL, and what it returns.  It stops at a directive it does not know.    *)
(* format_out_char drops what the buffer has no room for.                  *)
Room_Mutant(space) == space
Room(space) == space - 1

Vsnprintf(space, format) ==
    LET upto[k \in 0 .. Len(format)] ==
            IF k = 0
            THEN [text |-> << >>, known |-> TRUE]
            ELSE LET before == upto[k - 1] IN
                 IF ~before.known \/ format[k].type \notin Known
                 THEN [before EXCEPT !.known = FALSE]
                 ELSE [before EXCEPT !.text = @ \o Out(format[k])]
        end == upto[Len(format)]
        kept == IF Len(end.text) < Room(space) THEN Len(end.text) ELSE Room(space)
    IN [text |-> SubSeq(end.text, 1, kept),
        terminated |-> end.known,
        bytes |-> IF end.known THEN kept + 1 ELSE kept,
        result |-> IF end.known THEN kept ELSE -1]
===============================================================================
