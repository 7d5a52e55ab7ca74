--------------------------- MODULE MCCommandBuffer ---------------------------
(* Clients that write lines of eight characters, and of nine.               *)
EXTENDS CommandBuffer

D1500 == <<1, 5, 0, 0>>
D2500 == <<2, 5, 0, 0>>

(* Servo 0 and servo 1, a width out of range, and a stop line.              *)
ShortLines == { <<<<0>>, D1500>>, <<<<1>>, D1500>>, <<<<1>>, D2500>>,
                <<<<1>>, <<0, 0, 0, 0>>>> }
ShortGarbage == { <<Letter, Comma, Blank, 1, 5, 0, 0, Newline>> }

ASSUME ShortAssumption == Requests = ShortLines => Regular(8)

(* Servo 12 only. *)
LongLines == { <<<<1, 2>>, D1500>> }
NoGarbage == {}

(* Memory is clean, or holds what could complete a line.                    *)
AnyFill == {Letter, Newline}
Clean == { <<Letter>> }
AnyBeyond == { <<Letter>>, <<Newline>>, <<1, Comma, 1, 5, 0, 0, Newline>> }
=============================================================================
