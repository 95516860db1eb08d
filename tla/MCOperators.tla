----------------------------- MODULE MCOperators -----------------------------
EXTENDS Operators, TLC

CONSTANTS db, mq, x, y

MCOps == {db, mq}
MCInstances == {x, y}
MCOwnerOf(i) == db
MCSymmetry == Permutations(MCInstances)

=============================================================================
