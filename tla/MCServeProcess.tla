---------------------------- MODULE MCServeProcess -----------------------------
(* ServeProcess for TLC: transactions, a plain operation and calls of close. *)
EXTENDS ServeProcess

CONSTANTS t1, t2, p1, x1, x2
=============================================================================
