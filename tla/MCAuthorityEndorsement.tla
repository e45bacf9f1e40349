------------------------ MODULE MCAuthorityEndorsement ------------------------
(***************************************************************************)
(* Three node masters and two endorsors, as in MCAuthority; balances 0     *)
(* and 1 and thresholds 0 and 1, so that a balance equal to the threshold, *)
(* one below it and a threshold of nothing stored all happen; a cap of two *)
(* proposers, so that three endorsed node masters overflow it.  Params     *)
(* values are one byte wide.                                               *)
(***************************************************************************)
EXTENDS AuthorityEndorsement

CONSTANTS n1, n2, n3, e1, e2, i1

MCNodeMasters == {n1, n2, n3}
MCEndorsors == {e1, e2}
MCIdentities == {i1}
=============================================================================
