----------------------------- MODULE MCAuthority -----------------------------
(* Model-checking instance of the authority registry.                      *)
EXTENDS Authority

CONSTANTS n1, n2, n3, e1, e2, i1

MCNodeMasters == {n1, n2, n3}
MCEndorsors == {e1, e2}
MCIdentities == {i1}

\* Zero endorsor and identity, which native_add passes on unchecked.
MCZeroEndorsors == {ZeroAddress}
MCZeroIdentities == {ZeroBytes32}
=============================================================================
