----------------------------- MODULE MCL2Transfer -----------------------------
(***************************************************************************)
(* L1Framing on a line that flips any one bit of the status byte.          *)
(***************************************************************************)
EXTENDS L1Framing, FiniteSets, TLC

\* The status bytes of lt_l2_frame_check.h.
Byte == [REQUEST_OK |-> 1, RESULT_OK |-> 2, REQUEST_CONT |-> 3,
         RESULT_CONT |-> 4, RESP_DISABLED |-> 120, HSK_ERR |-> 121,
         NO_SESSION |-> 122, TAG_ERR |-> 123, CRC_ERR |-> 124,
         UNKNOWN_ERR |-> 126, GEN_ERR |-> 127, NO_RESP |-> 255]

Bits(n) == {i \in 0..7 : (n \div 2^i) % 2 = 1}

Flips(s, t) == Cardinality((Bits(Byte[s]) \ Bits(Byte[t]))
                             \cup (Bits(Byte[t]) \ Bits(Byte[s])))

\* "other" is one flip away from every status.
SingleBitGarbled ==
    [s \in Status |->
        {"other"} \cup (IF s = "other" THEN {} ELSE
                          {t \in Status \ {"other"} : Flips(s, t) = 1})]
=============================================================================
