------------------------ MODULE QualityLedgerProofs ------------------------
(***************************************************************************)
(* The finality quality ledger returns what was saved, for every uint32   *)
(* quality and every set of block IDs: TLC tests the values below 2^31,    *)
(* the proofs cover all of them.                                           *)
(***************************************************************************)
EXTENDS QualityLedger, TLAPS

\* The four bytes of PutUint32 are bytes, and BigEndian.Uint32 reads the
\* quality back from them, for every uint32.
LEMMA RoundTrip ==
    ASSUME NEW q \in Uint32
    PROVE  /\ PutUint32(q) \in [1..4 -> Byte]
           /\ Uint32Of(PutUint32(q)) = q
<1>1. q \in Nat /\ q < 2^32
    BY DEF Uint32
<1>2. PutUint32(q) \in [1..4 -> Byte]
    BY <1>1 DEF PutUint32, Byte
<1>3. Uint32Of(PutUint32(q)) = q
    BY <1>1 DEF PutUint32, Uint32Of
<1>4. QED
    BY <1>2, <1>3

\* The store holds the encoding of the quality last saved, and nothing
\* where none was saved.
Inv ==
    /\ saved \in [BlockIDs -> Qualities \cup {Absent}]
    /\ store \in [BlockIDs -> [1..4 -> Byte] \cup {Absent}]
    /\ \A id \in BlockIDs :
          store[id] = IF saved[id] = Absent THEN Absent ELSE PutUint32(saved[id])

LEMMA InitInv == Init => Inv
BY DEF Init, Inv

LEMMA NextInv == Inv /\ [Next]_vars => Inv'
<1> SUFFICES ASSUME Inv, [Next]_vars PROVE Inv'
    OBVIOUS
<1>1. ASSUME NEW id \in BlockIDs, NEW q \in Qualities, saveQuality(id, q)
      PROVE  Inv'
    <2>1. q \in Uint32 /\ q # Absent
        BY QualityLedgerAssumption DEF Uint32
    <2>2. PutUint32(q) \in [1..4 -> Byte]
        BY <2>1, RoundTrip
    <2>3. QED
        BY <1>1, <2>1, <2>2 DEF Inv, saveQuality
<1>2. CASE UNCHANGED vars
    BY <1>2 DEF Inv, vars
<1>3. QED
    BY <1>1, <1>2 DEF Next

LEMMA InvImpliesLoad == Inv => LoadReturnsSaved
<1> SUFFICES ASSUME Inv, NEW id \in BlockIDs
             PROVE  loadQuality(id) = IF saved[id] = Absent
                                      THEN [ok |-> FALSE, quality |-> 0]
                                      ELSE [ok |-> TRUE, quality |-> saved[id]]
    BY DEF LoadReturnsSaved
<1>1. CASE saved[id] = Absent
    BY <1>1 DEF Inv, loadQuality
<1>2. CASE saved[id] # Absent
    <2>1. saved[id] \in Uint32
        BY <1>2, QualityLedgerAssumption DEF Inv
    <2>2. PutUint32(saved[id]) # Absent
        BY <2>1, RoundTrip, QualityLedgerAssumption
    <2>3. QED
        BY <1>2, <2>1, <2>2, RoundTrip DEF Inv, loadQuality
<1>3. QED
    BY <1>1, <1>2

\* Spec 4.4: whatever the engine saves, in whatever order, loadQuality
\* returns the quality last saved under the block ID, and "not found"
\* for an ID never saved.
THEOREM LoadCorrect == Spec => []LoadReturnsSaved
<1>1. Spec => []Inv
    BY InitInv, NextInv, PTL DEF Spec
<1>2. QED
    BY <1>1, InvImpliesLoad, PTL

=============================================================================
