------------------------------ MODULE FandCurve ------------------------------
(***************************************************************************)
(* The fan curves of t6-fand: what Config::validate() asks of a curve and   *)
(* how interpolate() (curve.rs) reads it.  A curve is a sequence of points  *)
(* <<temperature, percent>>; the quotient is rounded down.                  *)
(***************************************************************************)
EXTENDS Integers, Sequences

\* A curve that Config::validate() lets through: not empty, temperatures
\* ascending, duties percent.
ValidCurve(points) ==
  /\ Len(points) > 0
  /\ \A i \in 1..(Len(points) - 1) : points[i][1] < points[i + 1][1]
  /\ \A i \in DOMAIN points : points[i][2] \in 0..100

\* The first pair of neighbours around a temperature.
Segment(points, temp) ==
  CHOOSE i \in 1..(Len(points) - 1) :
    /\ points[i][1] <= temp /\ temp <= points[i + 1][1]
    /\ \A j \in 1..(i - 1) : temp > points[j + 1][1]

\* Mutant: the way into the segment is measured from zero degrees.
InterpolateFromZero(points, temp) ==
  LET last == points[Len(points)] IN
  IF temp <= points[1][1] THEN points[1][2]
  ELSE IF temp >= last[1] THEN last[2]
  ELSE LET a == points[Segment(points, temp)]
           b == points[Segment(points, temp) + 1]
       IN  a[2] + ((b[2] - a[2]) * temp) \div (b[1] - a[1])

\* interpolate()
Interpolate(points, temp) ==
  LET last == points[Len(points)] IN
  IF temp <= points[1][1] THEN points[1][2]
  ELSE IF temp >= last[1] THEN last[2]
  ELSE LET a == points[Segment(points, temp)]
           b == points[Segment(points, temp) + 1]
       IN  a[2] + ((b[2] - a[2]) * (temp - a[1])) \div (b[1] - a[1])

=============================================================================
