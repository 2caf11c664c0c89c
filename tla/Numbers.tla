------------------------------- MODULE Numbers -------------------------------
(***************************************************************************)
(* Numbers as text: NumberFormatter, which prints them, and NumberParser,  *)
(* which reads them, for numbers of Bits bits (32 and 64 in the code).  A  *)
(* character is the number of its byte.  Fractions are left out.           *)
(***************************************************************************)
EXTENDS Integers, SequencesExt

CONSTANT Bits

Blank == 32
Minus == 45
Zero == 48
Unsigned == 0..2^Bits - 1
Signed == -(2^(Bits - 1))..2^(Bits - 1) - 1
AsUnsigned(n) == n % 2^Bits
AsSigned(n) == IF AsUnsigned(n) \in Signed THEN AsUnsigned(n) ELSE AsUnsigned(n) - 2^Bits

-----------------------------------------------------------------------------
(* What sprintf and sscanf of the C library do.                            *)

Digit(d) == IF d < 10 THEN Zero + d ELSE 55 + d
ValueOf(ch) ==
    IF ch \in 48..57 THEN ch - 48
    ELSE IF ch \in 65..70 THEN ch - 55
    ELSE IF ch \in 97..102 THEN ch - 87 ELSE 99

Digits(n, base) ==
    LET Of[k \in 0..n] == IF k < base THEN <<Digit(k)>> ELSE Append(Of[k \div base], Digit(k % base))
    IN  Of[n]
Printed(n, base) == IF n < 0 THEN <<Minus>> \o Digits(-n, base) ELSE Digits(n, base)

\* To the width, with blanks in front, or with zeros behind the sign.
Repeated(ch, n) == [i \in 1..n |-> ch]
Padded(text, width) == Repeated(Blank, width - Len(text)) \o text
ZeroPadded(text, width) ==
    IF text[1] = Minus THEN <<Minus>> \o Repeated(Zero, width - Len(text)) \o Tail(text)
    ELSE Repeated(Zero, width - Len(text)) \o text

\* The text behind its blanks, and the digits it begins with.
Trimmed(text) ==
    LET first == SelectInSeq(text, LAMBDA ch : ch # Blank)
    IN  IF first = 0 THEN <<>> ELSE SubSeq(text, first, Len(text))
Leading(text, base) ==
    LET other == SelectInSeq(text, LAMBDA ch : ValueOf(ch) >= base)
    IN  IF other = 0 THEN text ELSE SubSeq(text, 1, other - 1)

Scanned(text, base) ==
    LET rest == Trimmed(text)
        negative == rest # <<>> /\ rest[1] = Minus
        digits == Leading(IF negative THEN Tail(rest) ELSE rest, base)
        n == FoldLeft(LAMBDA v, ch : AsUnsigned(base * v + ValueOf(ch)), 0, digits)
    IN  IF digits = <<>> THEN [ok |-> FALSE, val |-> 0] ELSE [ok |-> TRUE, val |-> IF negative THEN -n ELSE n]

-----------------------------------------------------------------------------
(* NumberFormatter and NumberParser.                                       *)

Format(n) == Printed(n, 10)
FormatWidth(n, width) == Padded(Printed(n, 10), width)
Format0(n, width) == ZeroPadded(Printed(n, 10), width)
FormatHex(n) == Printed(AsUnsigned(n), 16)
FormatHexWidth(n, width) == ZeroPadded(Printed(AsUnsigned(n), 16), width)

TryParseInt(text) == LET s == Scanned(text, 10) IN [s EXCEPT !.val = AsSigned(@)]
TryParseUInt(text) == LET s == Scanned(text, 10) IN [s EXCEPT !.val = AsUnsigned(@)]
TryParseHex(text) == LET s == Scanned(text, 16) IN [s EXCEPT !.val = AsUnsigned(@)]
=============================================================================
