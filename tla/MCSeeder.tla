------------------------------ MODULE MCSeeder ------------------------------
(***************************************************************************)
(* A chain that forks below the first seed height: g - a1 - a2 - a3 and    *)
(* a1 - b2 - b3, with an epoch of two blocks.  Parents a3 and b3 are in    *)
(* epoch 2 and take their seeds from a2 and b2, two blocks at height 2     *)
(* with different betas; parent a1 is in epoch 1 and gets the empty seed.  *)
(***************************************************************************)
EXTENDS Seeder, TLC

CONSTANTS w1, w2, g, a1, a2, a3, b2, b3, sA, sB, sNone

MCWorkers == {w1, w2}
MCOneWorker == {w1}
MCBlocks == {g, a1, a2, a3, b2, b3}
MCParent == (g :> g) @@ (a1 :> g) @@ (a2 :> a1) @@ (a3 :> a2)
                     @@ (b2 :> a1) @@ (b3 :> b2)
MCNumber == (g :> 0) @@ (a1 :> 1) @@ (a2 :> 2) @@ (a3 :> 3)
                     @@ (b2 :> 2) @@ (b3 :> 3)
MCBeta == (g :> sNone) @@ (a1 :> sNone) @@ (a2 :> sA) @@ (a3 :> sNone)
                       @@ (b2 :> sB) @@ (b3 :> sNone)
MCSeeds == {sA, sB, sNone}
MCRequests == {a1, a3, b3}

=============================================================================
