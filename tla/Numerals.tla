------------------------------ MODULE Numerals ------------------------------
(***************************************************************************)
(* The conversions of printf.c from a number to text: itoa and ltoa for    *)
(* signed numbers, utoa and ultoa for unsigned ones.                       *)
(*                                                                         *)
(* An int, like a long, has WIDTH values, the upper half of which are the  *)
(* negative ones.  A character is the value of its digit, or MINUS.        *)
(***************************************************************************)
EXTENDS Integers, Sequences, SequencesExt

CONSTANT WIDTH  \* 2^32

ASSUME NumeralsAssumption == WIDTH \in Nat /\ WIDTH > 0 /\ WIDTH % 2 = 0

VARIABLES
  fn,      \* the conversion called last: itoa, utoa, ltoa or ultoa
  given,   \* its argument
  base,
  num, sign, buffer,
  step     \* where it is

conversion == <<fn, given, base, num, sign, buffer, step>>

MINUS == -WIDTH

INT_MIN == -(WIDTH \div 2)
Ints == INT_MIN..(WIDTH \div 2 - 1)
Signed == {"itoa", "ltoa"}

\* The value of an int that a result out of its range wraps to.
Wrapped(n) == ((n + WIDTH \div 2) % WIDTH) - WIDTH \div 2

\* / and % of C, which round to zero.
Quotient(n, d) == IF n < 0 THEN -((-n) \div d) ELSE n \div d
Remainder(n, d) == n - d * Quotient(n, d)

Idle ==
  /\ fn = "utoa" /\ given = 0 /\ base = 10
  /\ num = 0 /\ sign = 0 /\ buffer = <<>> /\ step = "done"

-----------------------------------------------------------------------------
\* An int that is passed where an unsigned is wanted.
Call(f, n, b) ==
  /\ fn' = f /\ given' = n /\ base' = b
  /\ num' = IF f \in Signed THEN n ELSE n % WIDTH
  /\ sign' = 0 /\ buffer' = <<>>
  /\ step' = IF f \in Signed THEN "sign" ELSE "digits"

\* if ((sign = num) < 0) num = -num;
Positive(n) == IF n < 0 THEN Wrapped(-n) ELSE n

Sign ==
  /\ step = "sign"
  /\ sign' = num
  /\ num' = Positive(num)
  /\ step' = "digits"
  /\ UNCHANGED <<fn, given, base, buffer>>

IsLast(n) == n <= 0

\* One round of do { buffer[i++] = digits[num % base]; } while ((num /= base) > 0);
Digit ==
  /\ step = "digits"
  /\ buffer' = Append(buffer, Remainder(num, base))
  /\ num' = Quotient(num, base)
  /\ step' = IF IsLast(num') THEN "end" ELSE "digits"
  /\ UNCHANGED <<fn, given, base, sign>>

\* The sign after the digits, by itoa alone, and reverse.
SignLeftOut(f, s) == <<>>
SignOf(f, s) == IF f = "itoa" /\ s < 0 THEN <<MINUS>> ELSE <<>>

Finish ==
  /\ step = "end"
  /\ buffer' = Reverse(buffer \o SignOf(fn, sign))
  /\ step' = "done"
  /\ UNCHANGED <<fn, given, base, num, sign>>

Convert == Sign \/ Digit \/ Finish

-----------------------------------------------------------------------------
\* The number that a numeral of base b stands for.
Magnitude(digits, b) ==
  LET upTo[k \in 0..Len(digits)] == IF k = 0 THEN 0 ELSE upTo[k - 1] * b + digits[k]
  IN upTo[Len(digits)]

Value(text, b) == IF text[1] = MINUS THEN -Magnitude(Tail(text), b) ELSE Magnitude(text, b)

\* The number that a conversion was called with.
Meant == IF fn \in Signed THEN given ELSE given % WIDTH

\* The text is the number's numeral: it has its value, no leading zero and only
\* digits of the base.  Two cases are not claimed.  The value of a negative long
\* is wrong: ltoa gets the sign and forgets it, so -5 is printed as 5.  The least
\* int has no positive counterpart: its digits come out negative.
TextIsNumeral ==
  step = "done" /\ buffer # <<>> /\ ~(fn \in Signed /\ given = INT_MIN) =>
    LET digits == IF buffer[1] = MINUS THEN Tail(buffer) ELSE buffer
    IN /\ ~(fn = "ltoa" /\ given < 0) => Value(buffer, base) = Meant
       /\ \A i \in DOMAIN digits : digits[i] \in 0..(base - 1)
       /\ digits[1] = 0 => Len(digits) = 1
=============================================================================
