--------------------------- MODULE MCQualityLedger ---------------------------
(* Qualities at every byte boundary that TLC's integers reach: 0, the      *)
(* largest one-, two- and three-byte values and the next ones up, and      *)
(* 2^31 - 1.  Values from 2^31 on are covered by QualityLedgerProofs.      *)
EXTENDS QualityLedger

CONSTANTS b1, b2

MCBlockIDs == {b1, b2}
MCQualities == {0, 1, 7, 255, 256, 65535, 65536, 16777215, 16777216, 2147483647}

=============================================================================
