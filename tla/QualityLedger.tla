---------------------------- MODULE QualityLedger ----------------------------
(***************************************************************************)
(* The finality quality ledger (bft/persist.go): the BFT engine stores a   *)
(* uint32 quality per block ID as four big-endian bytes in a key-value     *)
(* store and reads it back.  The engine itself is not under src/: here it  *)
(* saves any quality under any block ID, in any order, and the properties  *)
(* say what the ledger gives back.  Each Put and Get is atomic on its key  *)
(* (spec 5), so each call is one step.                                     *)
(***************************************************************************)
EXTENDS Naturals

CONSTANTS
    BlockIDs,    \* block IDs the engine assesses
    Qualities,   \* quality values the engine saves (a subset of Uint32)
    Absent       \* the store holds nothing under a key

Byte == 0..255

\* The values of a uint32 (written so that TLC, whose integers stop below
\* 2^31, can test membership).
Uint32 == {q \in Nat : q \div 2^16 < 2^16}

ASSUME QualityLedgerAssumption ==
    /\ Qualities \subseteq Uint32
    /\ Absent \notin [1..4 -> Byte]
    /\ Absent \notin Nat

VARIABLES
    store,   \* key-value store: block ID -> stored bytes, or Absent
    saved    \* history: block ID -> the quality last saved, or Absent

vars == <<store, saved>>

-----------------------------------------------------------------------------

\* A little-endian encoding (binary.LittleEndian.PutUint32), which the
\* big-endian decoding of loadQuality does not invert.
PutUint32LE(q) ==
    <<q % 256, (q \div 2^8) % 256, (q \div 2^16) % 256, (q \div 2^24) % 256>>

\* binary.BigEndian.PutUint32(b[:], quality): most significant byte first.
PutUint32(q) ==
    <<(q \div 2^24) % 256, (q \div 2^16) % 256, (q \div 2^8) % 256, q % 256>>

\* binary.BigEndian.Uint32(b): the first four bytes, most significant first.
Uint32Of(b) == ((b[1] * 256 + b[2]) * 256 + b[3]) * 256 + b[4]

\* loadQuality: the getter fails on an absent key ("not found"), otherwise
\* the decoded value.
loadQuality(id) ==
    IF store[id] = Absent
    THEN [ok |-> FALSE, quality |-> 0]
    ELSE [ok |-> TRUE, quality |-> Uint32Of(store[id])]

\* saveQuality(putter, id, quality): Put overwrites or creates the key.
saveQuality(id, q) ==
    /\ store' = [store EXCEPT ![id] = PutUint32(q)]
    /\ saved' = [saved EXCEPT ![id] = q]

Init ==
    /\ store = [id \in BlockIDs |-> Absent]
    /\ saved = [id \in BlockIDs |-> Absent]

Next == \E id \in BlockIDs, q \in Qualities : saveQuality(id, q)

Spec == Init /\ [][Next]_vars

-----------------------------------------------------------------------------
(* Properties.                                                             *)

TypeOK ==
    /\ store \in [BlockIDs -> [1..4 -> Byte] \cup {Absent}]
    /\ saved \in [BlockIDs -> Qualities \cup {Absent}]

\* Spec 4.4 and 8: loadQuality returns the quality last saved under the
\* block ID, whatever was saved under it and under other IDs before, and
\* "not found" for a block ID never saved.
LoadReturnsSaved ==
    \A id \in BlockIDs :
        loadQuality(id) = IF saved[id] = Absent
                          THEN [ok |-> FALSE, quality |-> 0]
                          ELSE [ok |-> TRUE, quality |-> saved[id]]

=============================================================================
