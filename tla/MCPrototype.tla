----------------------------- MODULE MCPrototype -----------------------------
EXTENDS Prototype

CONSTANTS u1, u2, s1, s2, m1, m2

MCUsers == {u1, u2}
MCSponsors == {s1, s2}
MCMasters == {m1, m2}

=============================================================================
