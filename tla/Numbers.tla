------------------------------- MODULE Numbers -------------------------------
(* Decimal numbers as the modules' parsers read them, digit by digit.      *)
EXTENDS Integers, Sequences

DigitChars == <<"0", "1", "2", "3", "4", "5", "6", "7", "8", "9">>
IsDigit(c) == \E d \in DOMAIN DigitChars : DigitChars[d] = c
DigitOf(c) == (CHOOSE d \in DOMAIN DigitChars : DigitChars[d] = c) - 1
IsNumber(text) == text # <<>> /\ \A i \in DOMAIN text : IsDigit(text[i])
Number(text) ==
    LET value[i \in 0..Len(text)] ==
            IF i = 0 THEN 0 ELSE value[i - 1] * 10 + DigitOf(text[i])
    IN value[Len(text)]
=============================================================================
