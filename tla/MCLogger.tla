------------------------------ MODULE MCLogger ------------------------------
(* Logger for TLC: payloads of two lengths.                                *)
EXTENDS Logger

TwoPayloads == {<<1>>, <<0, 1>>}
=============================================================================
