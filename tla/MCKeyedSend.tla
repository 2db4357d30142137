------------------------------ MODULE MCKeyedSend ------------------------------
(* KeyedSend for TLC: a few calls, keys and payloads as model values. *)
EXTENDS KeyedSend

CONSTANTS c1, c2, c3, k1, k2, p1, p2
=============================================================================
