----------------------------- MODULE Polylines -----------------------------
(***************************************************************************)
(* An encoded polyline taken a character at a time                         *)
(* (rules/_shared/polyline.py).  A character is the group it stands for,   *)
(* its code less 63, which is below 0 or above 63 when it stands for none; *)
(* a point is its latitude and longitude in hundred-thousandths.           *)
(***************************************************************************)
EXTENDS Integers, Sequences, FiniteSets, SequencesExt

CONSTANTS
  Encodings,      \* texts of any kind
  Paths,          \* lines a producer may write, whole or cut off
  CONTINUATION,   \* 2^5 in the code: the flag above a group's own bits
  None

VARIABLES
  encoded, position,
  result, shift,          \* the value being read, and the power its next group has
  latitude_delta,         \* the first value of a point, or None
  points, error,
  done

vars == <<encoded, position, result, shift, latitude_delta, points, error, done>>

HIGHEST == 2 * CONTINUATION - 1

LegalInputs == CONTINUATION \in Nat /\ CONTINUATION > 1 /\ Paths \subseteq Seq(Int \X Int)

-----------------------------------------------------------------------------
(* What a producer writes: the format, which the code only reads.          *)

groups[n \in Nat] == IF n < CONTINUATION THEN <<n>> ELSE <<CONTINUATION + (n % CONTINUATION)>> \o groups[n \div CONTINUATION]

Encoded(v) == groups[IF v < 0 THEN (-2) * v - 1 ELSE 2 * v]

\* Deltas from the point before, the first from zero.
Encode(line) ==
  FlattenSeq([k \in DOMAIN line |->
    LET before == IF k = 1 THEN <<0, 0>> ELSE line[k - 1]
    IN  Encoded(line[k][1] - before[1]) \o Encoded(line[k][2] - before[2])])

Written == UNION {{SubSeq(Encode(line), 1, n) : n \in 0..Len(Encode(line))} : line \in Paths}

-----------------------------------------------------------------------------
(* The decoder.                                                            *)

Init ==
  /\ encoded \in Encodings \cup Written /\ position = 1
  /\ result = 0 /\ shift = 1
  /\ latitude_delta = None /\ points = <<>> /\ error = None /\ done = FALSE

is_group(group) == group \in 0..HIGHEST

\* The low bit is the sign, and a negative value is complemented.
signed(value) == IF value % 2 = 1 THEN -(value \div 2) - 1 ELSE value \div 2

last == IF points = <<>> THEN <<0, 0>> ELSE points[Len(points)]

\* One character: a group more of a value, or the value's last.
_value ==
  /\ ~done /\ position <= Len(encoded)
  /\ position' = position + 1
  /\ LET group == encoded[position]
         value == result + (group % CONTINUATION) * shift
     IN  IF ~is_group(group)
         THEN error' = "character" /\ done' = TRUE /\ UNCHANGED <<result, shift, latitude_delta, points>>
         ELSE IF group >= CONTINUATION
         THEN result' = value /\ shift' = shift * CONTINUATION /\ UNCHANGED <<latitude_delta, points, error, done>>
         ELSE /\ result' = 0 /\ shift' = 1
              /\ IF latitude_delta = None
                 THEN latitude_delta' = signed(value) /\ UNCHANGED points
                 ELSE /\ points' = Append(points, <<last[1] + latitude_delta, last[2] + signed(value)>>)
                      /\ latitude_delta' = None
              /\ UNCHANGED <<error, done>>
  /\ UNCHANGED encoded

\* The end of the text, which may be in the middle of a value or of a point.
decode_polyline ==
  /\ ~done /\ position > Len(encoded)
  /\ done' = TRUE
  /\ error' = IF shift > 1 THEN "ran off" ELSE IF latitude_delta # None THEN "no longitude" ELSE None
  /\ UNCHANGED <<encoded, position, result, shift, latitude_delta, points>>

Next == _value \/ decode_polyline

Spec == Init /\ [][Next]_vars

-----------------------------------------------------------------------------
\* The text is read once, and what stops the reading is known when it stops.
TypeOK ==
  /\ position \in 1..(Len(encoded) + 1)
  /\ error # None => done
  /\ points \in Seq(Int \X Int)

\* What an encoder writes is read back, to the hundred-thousandth, and every
\* text cut off before its end is broken or ends at one of its points
\* (decode_polyline accumulates integers and never floats).
LinesAreReadBack ==
  done =>
    \A line \in Paths :
      IsPrefix(encoded, Encode(line)) =>
        /\ IsPrefix(points, line)
        /\ (error = None) <=> (encoded = Encode(SubSeq(line, 1, Len(points))))
        /\ encoded = Encode(line) => points = line

\* The characters that end a value, up to the first that is none.
Ends ==
  {k \in DOMAIN encoded : encoded[k] \in 0..(CONTINUATION - 1) /\ \A j \in 1..k : encoded[j] \in 0..(2 * CONTINUATION - 1)}

\* A text is whole exactly when it is of nothing but groups, its last one ends a
\* value and the values pair up; a broken one keeps the points it had, so S040
\* never takes a stray character for a point.
BrokenKeepsItsPoints ==
  done =>
    /\ Len(points) = Cardinality(Ends) \div 2
    /\ (error = None) <=>
         /\ \A k \in DOMAIN encoded : encoded[k] \in 0..(2 * CONTINUATION - 1)
         /\ Cardinality(Ends) % 2 = 0
         /\ encoded # <<>> => Len(encoded) \in Ends
=============================================================================
