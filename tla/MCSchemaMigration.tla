--------------------------- MODULE MCSchemaMigration ---------------------------
(* SchemaMigration for TLC: three calls, one of them of an older release. *)
EXTENDS SchemaMigration

CONSTANTS c1, c2, c3

MCKnown == [c \in Call |-> IF c = c1 THEN 1 ELSE 2]
=============================================================================
