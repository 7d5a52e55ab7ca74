---------------------------- MODULE MCServoConfig ----------------------------
(* Files of up to four lines for two slots a channel and three servos.      *)
EXTENDS ServoConfig
CONSTANT Garbage     \* model value: a line that is no pair of numbers
=============================================================================
