---------------------------- MODULE NumberParser ----------------------------
(***************************************************************************)
(* parse_vn_number (extractors/number_parser.py): an amount in Vietnamese  *)
(* notation, with dots between thousands, a decimal comma, and parentheses *)
(* or a minus sign for a negative amount.                                  *)
(*                                                                         *)
(* A text is a sequence of characters; "x" stands for every character that *)
(* no part of the parser looks for, "nbsp" for white space other than " ". *)
(* An amount is the sign and the two strings of digits that float() gets.  *)
(***************************************************************************)
EXTENDS Integers, Sequences, SequencesExt

Digits == <<"0", "1", "2", "3", "4", "5", "6", "7", "8", "9">>
Digit  == {Digits[i] : i \in DOMAIN Digits}
Space  == {" ", "nbsp"}
Dash   == {"-", "endash"}

ConsistsOf(text, characters) == \A i \in DOMAIN text : text[i] \in characters
Starts(text, character) == text # <<>> /\ text[1] = character
Ends(text, character)   == text # <<>> /\ text[Len(text)] = character

strip(text) ==
    LET ink == {i \in DOMAIN text : text[i] \notin Space}
    IN  IF ink = {} THEN <<>> ELSE SubSeq(text, Min(ink), Max(ink))

\* The elements of a sequence that are in S, in order.
Only(seq, S) ==
    LET kept[n \in 0 .. Len(seq)] ==
            IF n = 0 THEN <<>>
            ELSE IF seq[n] \in S THEN Append(kept[n - 1], seq[n]) ELSE kept[n - 1]
    IN  kept[Len(seq)]

Without(seq, x) == Only(seq, ToSet(seq) \ {x})
WithoutStart(text, character) == IF Starts(text, character) THEN Tail(text) ELSE text
WithoutEnd(text, character)   == IF Ends(text, character) THEN Front(text) ELSE text

\* _BLANK_RE and _NUMBER_RE
Blank(text) == ConsistsOf(text, Space \cup Dash)
LooksNumeric(text) ==
    LET body == WithoutEnd(WithoutStart(WithoutStart(text, "("), "-"), ")")
    IN  body # <<>> /\ ConsistsOf(body, Digit \cup Space \cup {".", ","})

\* Mutant: the fraction does not reach float().
WholeUnits(whole, fraction) == [whole |-> whole, fraction |-> <<>>]

\* Mutant: a comma is taken for a separator of thousands.
CommaGroups(whole, fraction) == [whole |-> whole \o fraction, fraction |-> <<>>]

\* What float() is given.
Parts(whole, fraction) == [whole |-> whole, fraction |-> fraction]

\* {the amount}, or {} where the code returns None.
parse_vn_number(raw) ==
    LET text     == strip(raw)
        enclosed == Starts(text, "(") /\ Ends(text, ")")
        inner    == Without(IF enclosed THEN strip(SubSeq(text, 2, Len(text) - 1)) ELSE text, " ")
        number   == WithoutStart(inner, "-")
        commas   == {i \in DOMAIN number : number[i] = ","}
        point    == IF commas = {} THEN Len(number) + 1 ELSE Max(commas)
        whole    == Without(SubSeq(number, 1, point - 1), ".")
        fraction == SubSeq(number, point + 1, Len(number))
    IN  IF /\ ~Blank(text) /\ LooksNumeric(text)
           /\ whole # <<>> /\ ConsistsOf(whole \o fraction, Digit)
          THEN {[negative |-> enclosed \/ Starts(inner, "-"), parts |-> Parts(whole, fraction)]}
          ELSE {}

-----------------------------------------------------------------------------
(* The value of an amount                                                  *)

DigitValue(digit) == CHOOSE d \in 0 .. 9 : Digits[d + 1] = digit

NaturalOf(digits) ==
    LET read[n \in 0 .. Len(digits)] ==
            IF n = 0 THEN 0 ELSE 10 * read[n - 1] + DigitValue(digits[n])
    IN  read[Len(digits)]

\* The amount in hundredths: no sheet of an instance has a finer fraction.
Hundredths(amount) ==
    LET cents == SubSeq(amount.parts.fraction \o <<"0", "0">>, 1, 2)
        size  == NaturalOf(amount.parts.whole \o cents)
    IN  IF amount.negative THEN -size ELSE size

-----------------------------------------------------------------------------
(* The notation: what a sheet prints for an amount in hundredths           *)

Separator == {".", " "}

\* Digits set apart by dots or spaces, and one or two more after a comma.
PrintsSize(text, size) ==
    \E m \in DOMAIN text :
        LET whole    == SubSeq(text, 1, m)
            fraction == SubSeq(text, m + 2, Len(text))
        IN  /\ ConsistsOf(whole, Digit \cup Separator) /\ {text[1], text[m]} \subseteq Digit
            /\ m < Len(text) => text[m + 1] = "," /\ Len(fraction) \in 1 .. 2
            /\ ConsistsOf(fraction, Digit)
            /\ size = NaturalOf(Only(whole, Digit) \o SubSeq(fraction \o <<"0", "0">>, 1, 2))

Prints(text, amount) ==
    \/ PrintsSize(text, amount)
    \/ Starts(text, "-") /\ PrintsSize(Tail(text), -amount)
    \/ /\ Starts(text, "(") /\ Ends(text, ")")
       /\ PrintsSize(SubSeq(text, 2, Len(text) - 1), -amount)

\* A name has a character that no amount has.
HasLetter(text) ==
    \E i \in DOMAIN text : text[i] \notin Digit \cup Space \cup Dash \cup {".", ",", "(", ")"}
=============================================================================
