----------------------- MODULE MCConsequentialActions -----------------------
EXTENDS ConsequentialActions

CONSTANTS o1, w1, w2, u1, u2
=============================================================================
