------------------------------ MODULE MCServod ------------------------------
(* Small instances of the daemon: two servos, on one channel or on two.     *)
EXTENDS Servod

CONSTANT Garbage     \* model value: a line that is no line

OneChannel == [s \in Servos |-> 5]
TwoChannels == [s \in Servos |-> IF s = 0 THEN 5 ELSE 6]
Order5 == <<5>>
Order56 == <<5, 6>>

Line(i, w) == [id |-> i, width |-> w]

(* Both servos are moved, one of them to two places, and the stop line.     *)
GoodLines == {Line(0, 1), Line(0, 3), Line(1, 3), Line(0, 0)}

(* A servo that moves, a servo that is not there, a width out of range.     *)
MixedLines == {Line(0, 3), Line(1, 1), Line(2, 2), Line(0, 4), Garbage}

(* Both servos are moved, a width too large, a stop line, a bad line.       *)
FewLines == {Line(0, 3), Line(1, 1), Line(0, 4), Line(1, 0), Garbage}

TwoMoves == {Line(0, 3), Line(1, 1)}
OneMove == {Line(0, 3)}
=============================================================================
