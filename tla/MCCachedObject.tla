--------------------------- MODULE MCCachedObject ---------------------------
(***************************************************************************)
(* Three objects: o1 and o2 are the same address at two states, with       *)
(* different storage roots and code hashes; o3 has neither storage nor     *)
(* code.  Two keys; the two roots disagree on both, and one holds nil.     *)
(***************************************************************************)
EXTENDS CachedObject, TLC

CONSTANTS o1, o2, o3, aA, aB, r1, r2, h1, h2, k1, k2, v1, v2, c1, c2

MCObjects == {o1, o2, o3}
MCAddr == (o1 :> aA) @@ (o2 :> aA) @@ (o3 :> aB)
MCRoot == (o1 :> r1) @@ (o2 :> r2) @@ (o3 :> NoRoot)
MCHash == (o1 :> h1) @@ (o2 :> h2) @@ (o3 :> NoHash)
MCKeys == {k1, k2}
MCContent == (r1 :> ((k1 :> v1) @@ (k2 :> Nil)))
          @@ (r2 :> ((k1 :> v2) @@ (k2 :> v1)))
MCCodeOf == (h1 :> c1) @@ (h2 :> c2)

=============================================================================
