------------------------------- MODULE L2Frame -------------------------------
(***************************************************************************)
(* The frames of Layer 2 and lt_l2_frame_check, the one function that      *)
(* decides what a received frame means to the host.  Shared by the modules *)
(* L2Transfer and L2Encrypted.                                             *)
(*                                                                         *)
(* A frame keeps what the protocol can tell apart: its STATUS, whether its *)
(* CRC is right, and which payload it carries.  The CRC field is "good",   *)
(* "bad", or "head": only its first byte is right, which the host accepts  *)
(* for the answer to a Startup_Req (erratum CI_TR01_ERR_2025091800).  In a *)
(* "long" frame RSP_LEN is 253, one more than a frame can hold: the one    *)
(* wrong length that lt_l1_read lets pass.                                 *)
(***************************************************************************)

\* STATUS values of lt_l2_frame_check.h; "other" stands for every byte that is
\* none of them.
Status == {"REQUEST_OK", "RESULT_OK", "REQUEST_CONT", "RESULT_CONT",
           "RESP_DISABLED", "HSK_ERR", "NO_SESSION", "TAG_ERR", "CRC_ERR",
           "UNKNOWN_ERR", "GEN_ERR", "NO_RESP", "other"}

\* The statuses of the frames whose CRC lt_l2_frame_check compares.
CrcChecked == {"REQUEST_OK", "RESULT_OK"}

Crc == {"good", "bad", "head", "long"}

\* What each status means when the CRC is not looked at.
StatusRet ==
    [s \in Status |->
        CASE s \in CrcChecked      -> "LT_OK"
          [] s = "REQUEST_CONT"    -> "LT_L2_REQ_CONT"
          [] s = "RESULT_CONT"     -> "LT_L2_RES_CONT"
          [] s = "RESP_DISABLED"   -> "LT_L2_RESP_DISABLED"
          [] s = "HSK_ERR"         -> "LT_L2_HSK_ERR"
          [] s = "NO_SESSION"      -> "LT_L2_NO_SESSION"
          [] s = "TAG_ERR"         -> "LT_L2_TAG_ERR"
          [] s = "CRC_ERR"         -> "LT_L2_CRC_ERR"
          [] s = "UNKNOWN_ERR"     -> "LT_L2_UNKNOWN_REQ"
          [] s = "GEN_ERR"         -> "LT_L2_GEN_ERR"
          [] s = "NO_RESP"         -> "LT_L2_NO_RESP"
          [] s = "other"           -> "LT_L2_STATUS_UNKNOWN"]

\* A mutant of FrameCheck: it forgets to compare the CRC.
FrameCheckWithoutCrc(f) == StatusRet[f.status]

\* lt_l2_frame_check: a length that no frame has, then the status; only
\* REQUEST_OK and RESULT_OK frames have their CRC compared.
FrameCheck(f) ==
    IF f.crc = "long" THEN "LT_L2_RSP_LEN_ERROR"
    ELSE IF f.crc # "good" /\ f.status \in CrcChecked THEN "LT_L2_IN_CRC_ERR"
    ELSE StatusRet[f.status]
=============================================================================
