------------------------------- MODULE Printf -------------------------------
(***************************************************************************)
(* The walk of printf.c over its format, which calls the conversions of    *)
(* Numerals, and the copy of both in vprintf.c, which panic uses.          *)
(*                                                                         *)
(* A format is a sequence of characters; NUL is what stands behind it.     *)
(* What is printed is a sequence of pieces <<what, argument, text>>: a     *)
(* character of the format is <<c, 0, <<>>>>, the 0x of a %x is Hex, the   *)
(* text of a conversion is <<specifier, number of its argument, text>>.    *)
(***************************************************************************)
EXTENDS Numerals, FiniteSetsExt

CONSTANT Calls  \* what printf can be called with: pairs of a format and its arguments

NUL == "nul"
Hex == <<"0x", 0, <<>>>>

\* Neither NUL nor the name of the 0x piece is a character of a format.  There is
\* an argument for every specifier that a format of its length can hold; what a
\* call leaves over is not looked at.
ASSUME PrintfAssumption ==
  \A call \in Calls : /\ call.format \in Seq(STRING)
                      /\ {NUL, "0x"} \intersect Range(call.format) = {}
                      /\ call.args \in Seq(Ints)
                      /\ 2 * Len(call.args) >= Len(call.format) - 1

VARIABLES
  call,
  at,        \* the character that format points at
  rejected,  \* rejected_bad_specifier
  taken,     \* arguments taken by va_arg
  written,
  out,       \* what was printed
  pc

walk == <<call, at, rejected, taken, written, out, pc>>
vars == <<walk, conversion>>

Init ==
  /\ call \in Calls
  /\ at = 1 /\ rejected = FALSE /\ taken = 0 /\ written = 0 /\ out = <<>>
  /\ pc = "while"
  /\ Idle

Char(format, i) == IF i <= Len(format) THEN format[i] ELSE NUL
Now == Char(call.format, at)
Specifier == Char(call.format, at + 1)

Numbers == {"d", "i", "o", "x", "l"}
Specifiers == {"c", "s"} \union Numbers

\* The conversion of a specifier, and its base.
Converter == [d |-> "itoa", i |-> "itoa", o |-> "utoa", x |-> "ultoa", l |-> "ltoa"]
Octal == [d |-> 10, i |-> 10, o |-> 8, x |-> 8, l |-> 10]
Radius == [d |-> 10, i |-> 10, o |-> 8, x |-> 16, l |-> 10]

-----------------------------------------------------------------------------
\* print_c: the character at i, whatever it is, and those behind it up to the
\* next percent.
RunFrom(format, i) == Min({j \in i..(Len(format) + 1) : Char(format, j) \in {NUL, "%"}})
RunEnd(format, i) == Min({j \in (i + 1)..(Len(format) + 1) : Char(format, j) \in {NUL, "%"}})
Literally(format, i, j) == [k \in 1..(j - i) |-> <<format[i + k - 1], 0, <<>>>>]

print_c(i) ==
  LET end == RunEnd(call.format, i)
  IN /\ out' = out \o Literally(call.format, i, end)
     /\ at' = end
     /\ written' = written + (end - i)

PlainText ==
  /\ pc = "while" /\ Now \notin {NUL, "%"}
  /\ print_c(at)
  /\ UNCHANGED <<call, rejected, taken, pc, conversion>>

FirstPercent == at
SecondPercent == at + 1

PercentPercent ==
  /\ pc = "while" /\ Now = "%" /\ Specifier = "%"
  /\ print_c(SecondPercent)
  /\ UNCHANGED <<call, rejected, taken, pc, conversion>>

\* incomprehensible_conversion: the percent is printed too, and from here on no
\* specifier is understood.
Incomprehensible ==
  /\ pc = "while" /\ Now = "%" /\ Specifier # "%"
  /\ rejected \/ Specifier \notin Specifiers
  /\ rejected' = TRUE
  /\ print_c(at)
  /\ UNCHANGED <<call, taken, pc, conversion>>

Understood(specifiers) ==
  pc = "while" /\ Now = "%" /\ ~rejected /\ Specifier \in specifiers

va_arg == call.args[taken + 1]

\* %c and %s print their argument.
CharOrString ==
  /\ Understood({"c", "s"})
  /\ out' = Append(out, <<Specifier, taken + 1, <<va_arg>>>>)
  /\ at' = at + 2
  /\ taken' = taken + 1
  /\ UNCHANGED <<call, rejected, written, pc, conversion>>

\* %x prints 0x first.
Number ==
  /\ Understood(Numbers)
  /\ Call(Converter[Specifier], va_arg, Radius[Specifier])
  /\ out' = IF Specifier = "x" THEN Append(out, Hex) ELSE out
  /\ taken' = taken + 1
  /\ pc' = "converting"
  /\ UNCHANGED <<call, at, rejected, written>>

\* print(s, strlen(s))
PrintNumeral ==
  /\ pc = "converting" /\ step = "done"
  /\ out' = Append(out, <<Specifier, taken, buffer>>)
  /\ at' = at + 2
  /\ pc' = "while"
  /\ UNCHANGED <<call, rejected, taken, written, conversion>>

Return ==
  /\ pc = "while" /\ Now = NUL
  /\ pc' = "returned"
  /\ UNCHANGED <<call, at, rejected, taken, written, out, conversion>>

Returned == pc = "returned" /\ UNCHANGED vars

Next ==
  \/ PlainText \/ PercentPercent \/ Incomprehensible
  \/ CharOrString \/ Number \/ PrintNumeral
  \/ Convert /\ UNCHANGED walk
  \/ Return \/ Returned

Spec == Init /\ [][Next]_vars
FairSpec == Spec /\ WF_vars(Next)

-----------------------------------------------------------------------------
(* vprintf.c: the same walk and conversions in one go.                     *)

Digits(n, b) ==
  LET digits[k \in 0..(WIDTH - 1)] ==
        IF k < b THEN <<k>> ELSE Append(digits[k \div b], k % b)
  IN digits[n]

Numeral(specifier, n) ==
  CASE specifier \in {"d", "i"} ->
         IF n < 0 THEN <<MINUS>> \o Digits(-n, 10) ELSE Digits(n, 10)
    [] specifier = "l" -> Digits(IF n < 0 THEN -n ELSE n, 10)
    [] specifier = "o" -> Digits(n % WIDTH, 8)
    [] specifier = "x" -> Digits(n % WIDTH, 16)
    [] specifier \in {"c", "s"} -> <<n>>

\* What is printed from character i on, after k arguments.
Printing(format, args) ==
  LET from[w \in (1..(Len(format) + 1)) \X Nat \X BOOLEAN] ==
        LET i == w[1]
            k == w[2]
            reject == w[3]
            c == Char(format, i)
            d == Char(format, i + 1)
            literal(j) == Literally(format, j, RunEnd(format, j))
        IN CASE c = NUL -> <<>>
             [] c \notin {NUL, "%"} -> literal(i) \o from[<<RunEnd(format, i), k, reject>>]
             [] c = "%" /\ d = "%" ->
                  literal(i + 1) \o from[<<RunEnd(format, i + 1), k, reject>>]
             [] c = "%" /\ d # "%" /\ (reject \/ d \notin Specifiers) ->
                  literal(i) \o from[<<RunEnd(format, i), k, TRUE>>]
             [] OTHER ->
                  (IF d = "x" THEN <<Hex>> ELSE <<>>)
                    \o <<<<d, k + 1, Numeral(d, args[k + 1])>>>>
                    \o from[<<i + 2, k + 1, reject>>]
  IN from

vprintf(format, args) == Printing(format, args)[<<1, 0, FALSE>>]

-----------------------------------------------------------------------------
\* The format from each character on, with %% written as one percent.
Unescaping(format) ==
  LET from[i \in 1..(Len(format) + 1)] ==
        IF i > Len(format) THEN <<>>
        ELSE <<format[i]>> \o from[IF format[i] = "%" /\ Char(format, i + 1) = "%"
                                   THEN i + 2 ELSE i + 1]
  IN from

Unescaped(format) == Unescaping(format)[1]

\* What a piece stood for in the format.
Origin(piece) ==
  CASE piece = Hex -> <<>>
    [] piece[2] > 0 -> <<"%", piece[1]>>
    [] OTHER -> <<piece[1]>>

\* Nothing of the format is lost, printed twice or taken for something else: in
\* the order of the text, the pieces and the specifiers that printf replaced
\* are the format, with %% for a percent, whatever goto led where; the
\* conversions have the arguments in order, each once and none left out.
FormatIsKept ==
  pc = "returned" =>
    LET conversions == {i \in DOMAIN out : out[i][2] > 0}
    IN /\ FlattenSeq([i \in DOMAIN out |-> Origin(out[i])]) = Unescaped(call.format)
       /\ \A i, j \in conversions : i < j => out[i][2] < out[j][2]
       /\ {out[i][2] : i \in conversions} = 1..taken

\* vprintf, which is a copy, prints what printf prints.  For the least int the
\* build may print anything.
SameTextAsVprintf ==
  pc = "returned" /\ INT_MIN \notin Range(call.args) => out = vprintf(call.format, call.args)

\* Every call returns: the walk always gets past the percent it stopped at, and
\* the digits of a number come to an end.
Returns == <>(pc = "returned")
=============================================================================
