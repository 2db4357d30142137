--------------------------- MODULE MCOutboxWorkers ---------------------------
EXTENDS OutboxWorkers, TLC

CONSTANTS w1, w2

MCSymmetry == Permutations({w1, w2})
=============================================================================
