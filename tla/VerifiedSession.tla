--------------------------- MODULE VerifiedSession ---------------------------
(***************************************************************************)
(* The host's life with the chip: CertStore finds the key of the device,   *)
(* then lt_session_start of L3Calls begins the first session with it, or   *)
(* the call fails and no session was tried.  Later sessions of L3Calls are *)
(* those of callers that have the key already.                             *)
(***************************************************************************)
EXTENDS L3Calls, CertStore

verifiedVars == <<l3vars, certVars>>

VerifiedInit == L3Init /\ CertInit

\* The end of lt_verify_chip_and_start_secure_session.
StartSession ==
    /\ cert_pc = "session"
    /\ SessionStart /\ UNCHANGED callVars
    /\ CertReturned

GiveUp ==
    /\ cert_pc = "failed"
    /\ CertReturned
    /\ UNCHANGED l3vars

VerifiedNext ==
    \/ CertNext /\ UNCHANGED l3vars
    \/ StartSession
    \/ GiveUp
    \/ cert_pc = "returned" /\ L3Next /\ UNCHANGED certVars

VerifiedSpec == VerifiedInit /\ [][VerifiedNext]_verifiedVars
=============================================================================
