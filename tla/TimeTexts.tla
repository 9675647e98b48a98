----------------------------- MODULE TimeTexts -----------------------------
(***************************************************************************)
(* The texts a start_time, a start_date and a service date are written in, *)
(* and the clock text E023 compares a start_time with                      *)
(* (rules/_shared/timeformats.py, times.py, servicedates.py).              *)
(*                                                                         *)
(* A text is a sequence of characters: a digit is the number it stands for *)
(* and the three others that matter have a number of their own.            *)
(***************************************************************************)
EXTENDS Integers, Sequences

Colon == 10
Minus == 11
OtherCharacter == 12

Digit == 0..9
Text == Seq(0..12)

-----------------------------------------------------------------------------
\* Java's / and %: toward zero, with the sign of the dividend.
quotient(value, divisor) == IF value < 0 THEN -((-value) \div divisor) ELSE value \div divisor
remainder(value, divisor) == value - quotient(value, divisor) * divisor

digits[n \in Nat] == IF n < 10 THEN <<n>> ELSE Append(digits[n \div 10], n % 10)

\* %02d: two characters at least, a sign among them.
two_digits(n) ==
  IF n < 0 THEN <<Minus>> \o digits[-n] ELSE IF n < 10 THEN <<0, n>> ELSE digits[n]

seconds_after_midnight_to_clock(s) ==
  two_digits(quotient(s, 3600)) \o <<Colon>>
    \o two_digits(remainder(quotient(s, 60), 60)) \o <<Colon>>
    \o two_digits(remainder(s, 60))

\* [0-2]?[0-9]:[0-5][0-9]:[0-5][0-9] in seven or eight characters.
is_valid_time_format(t) ==
  LET n == Len(t)
  IN  /\ n \in {7, 8}
      /\ n = 8 => t[1] \in 0..2
      /\ {t[n - 6], t[n - 3], t[n]} \subseteq Digit
      /\ {t[n - 4], t[n - 1]} \subseteq 0..5
      /\ t[n - 5] = Colon /\ t[n - 2] = Colon

-----------------------------------------------------------------------------
\* The number a sequence of digits writes.
number[t \in Seq(Digit)] ==
  IF t = <<>> THEN 0 ELSE 10 * number[SubSeq(t, 1, Len(t) - 1)] + t[Len(t)]

IsEightDigits(t) == Len(t) = 8 /\ \A i \in DOMAIN t : t[i] \in Digit

year(t) == number[SubSeq(t, 1, 4)]
month(t) == number[SubSeq(t, 5, 6)]
day(t) == number[SubSeq(t, 7, 8)]

\* The resolver is SMART: thirty-one days in every month.
is_valid_date_format(t) ==
  IsEightDigits(t) /\ year(t) >= 1 /\ month(t) \in 1..12 /\ day(t) \in 1..31

is_leap(y) == y % 4 = 0 /\ (y % 100 # 0 \/ y % 400 = 0)

days_in(y, m) == IF m = 2 THEN (IF is_leap(y) THEN 29 ELSE 28)
                 ELSE IF m \in {4, 6, 9, 11} THEN 30 ELSE 31

\* The calendar's own dates and no others; FALSE where the code answers None.
parse_service_date(t) ==
  IsEightDigits(t) /\ year(t) >= 1 /\ month(t) \in 1..12 /\ day(t) \in 1..days_in(year(t), month(t))

=============================================================================
