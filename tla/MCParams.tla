------------------------------ MODULE MCParams ------------------------------
(***************************************************************************)
(* Two keys, the executor key among them; addresses of one byte and values *)
(* of two, so that an executor value wider than an address happens; and   *)
(* the values at the edges of the encoding: 0 (stored as nothing), 1 and  *)
(* 127 (one byte), 128 and 255 (a one-byte string), 256 and 4660 (two     *)
(* bytes, the latter wider than an address).                              *)
(***************************************************************************)
EXTENDS Params

MCValues == {0, 1, 127, 128, 255, 256, 4660}

=============================================================================
