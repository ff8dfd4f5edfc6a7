------------------------------ MODULE CertStore ------------------------------
(***************************************************************************)
(* lt_verify_chip_and_start_secure_session up to lt_session_start: the     *)
(* chip's ID and versions are read, its certificate store block by block   *)
(* into one buffer per certificate, and the public key of the session is   *)
(* searched in the device's certificate, object by object.                 *)
(*                                                                         *)
(* Layer 2 is taken for what L2Transfer shows of it: a transfer fails, or  *)
(* brings what the chip answered.  An answer of a length other than the    *)
(* one asked for is an error like any other.                               *)
(***************************************************************************)
EXTENDS Asn1Der

CONSTANT Stores  \* certificate stores of chips

LT_CERT_STORE_VERSION == 1
LT_NUM_CERTIFICATES == 4
TR01_L2_GET_INFO_REQ_CERT_SIZE_TOTAL == 3840
TR01_L2_GET_INFO_REQ_CERT_SIZE_SINGLE == 700
TR01_GET_INFO_BLOCK_LEN == 128
LT_OBJ_ID_CURVEX25519 == 2844014  \* 0x2B656E
TR01_STPUB_LEN == 32

\* A store is the header's first two bytes and the certificates, the device's first.
\* "A single certificate is always larger than 128 bytes", says the code.
ASSUME StoresAssumption ==
    \A s \in Stores :
        /\ s.version \in Nat /\ s.count \in Nat
        /\ s.certs \in [1..LT_NUM_CERTIFICATES -> Seq(Nat)]
        /\ \A j \in 1..LT_NUM_CERTIFICATES : Len(s.certs[j]) > TR01_GET_INFO_BLOCK_LEN

VARIABLES
    cert_pc,     \* where the host is
    store,       \* the chip's certificate store
    block,       \* i, of the blocks of the store
    curr_cert,   \* the certificate that is being copied, from 1
    cert_len,    \* store->cert_len, as the header gives it
    certs,       \* what has been copied to each store->certs[j]; cert_head is its end
    parser,      \* the context of asn1der_find_object
    stpub,       \* what it has found
    cert_ret     \* what the call is to return

certVars == <<cert_pc, store, block, curr_cert, cert_len, certs, parser, stpub, cert_ret>>

Empty == [j \in 1..LT_NUM_CERTIFICATES |-> <<>>]
NoLengths == [j \in 1..LT_NUM_CERTIFICATES |-> 0]
NoStore == [version |-> 0, count |-> 0, certs |-> Empty]
NoParser == Ctx(0)

CertInit ==
    /\ cert_pc = "chip_id"
    /\ store \in Stores
    /\ block = 0
    /\ curr_cert = 1
    /\ cert_len = NoLengths
    /\ certs = Empty
    /\ parser = NoParser
    /\ stpub = <<>>
    /\ cert_ret = "LT_OK"

-----------------------------------------------------------------------------
\* The store as the chip sends it, and block i of it.
HighByte(n) == n \div 256
LowByte(n) == n % 256
StoreHeader(s) ==
    <<s.version, s.count,
      HighByte(Len(s.certs[1])), LowByte(Len(s.certs[1])),
      HighByte(Len(s.certs[2])), LowByte(Len(s.certs[2])),
      HighByte(Len(s.certs[3])), LowByte(Len(s.certs[3])),
      HighByte(Len(s.certs[4])), LowByte(Len(s.certs[4]))>>

Stream(s) ==
    LET used == StoreHeader(s) \o s.certs[1] \o s.certs[2] \o s.certs[3] \o s.certs[4] IN
    used \o [k \in 1..(TR01_L2_GET_INFO_REQ_CERT_SIZE_TOTAL - Len(used)) |-> 255]

Object(s, i) ==
    SubSeq(Stream(s), i * TR01_GET_INFO_BLOCK_LEN + 1, (i + 1) * TR01_GET_INFO_BLOCK_LEN)

HeaderLen == 2 + 2 * LT_NUM_CERTIFICATES

\* curr_len of each certificate in the header.
HeaderLengths(object) ==
    [j \in 1..LT_NUM_CERTIFICATES |-> Number(object, 2 * j, 2)]

HeaderRet(object) ==
    IF object[1] # LT_CERT_STORE_VERSION \/ object[2] # LT_NUM_CERTIFICATES
    THEN "LT_CERT_STORE_INVALID"
    ELSE IF \E j \in 1..LT_NUM_CERTIFICATES :
               HeaderLengths(object)[j] > TR01_L2_GET_INFO_REQ_CERT_SIZE_SINGLE
    THEN "LT_PARAM_ERR" ELSE "LT_OK"

-----------------------------------------------------------------------------
\* The call returns ret after the buffers are freed.
CertFails(ret_) ==
    /\ cert_pc' = "failed"
    /\ cert_ret' = ret_
    /\ UNCHANGED <<store, block, curr_cert, cert_len, certs, parser, stpub>>

CertGoes(from, to) ==
    /\ cert_pc = from
    /\ cert_pc' = to
    /\ UNCHANGED <<store, block, curr_cert, cert_len, certs, parser, stpub, cert_ret>>

\* lt_get_info_chip_id, lt_get_info_riscv_fw_ver and lt_get_info_spect_fw_ver.
\* What they read is not used.
GetInfoChipId == CertGoes("chip_id", "riscv_fw_ver")
GetInfoRiscvFwVer == CertGoes("riscv_fw_ver", "spect_fw_ver")
GetInfoSpectFwVer == CertGoes("spect_fw_ver", "calloc")

\* The four buffers, each zero.
Calloc ==
    \/ CertGoes("calloc", "mode")
    \/ cert_pc = "calloc" /\ CertFails("LT_FAIL")

\* lt_get_tr01_mode: the store is not read in Start-up Mode.  It is tried in the
\* alarm mode, although no chip answers then.
GetTr01Mode ==
    \/ CertGoes("mode", "blocks")
    \/ cert_pc = "mode" /\ CertFails("LT_L1_CHIP_STARTUP_MODE")

\* Any of the transfers fails.
CertTransferFails ==
    /\ cert_pc \in {"chip_id", "riscv_fw_ver", "spect_fw_ver", "mode", "blocks"}
    /\ CertFails("LT_L1_L2_ERROR")

-----------------------------------------------------------------------------
\* What is left of a block after the header, which is in the first one.
AfterHeader(object) == IF block = 0 THEN SubSeq(object, HeaderLen + 1, Len(object)) ELSE object

LeastOf(a, b) == IF a <= b THEN a ELSE b

\* A mutant of Copied: the rest of the block is not for the next certificate.
CopiedWithoutTrailer(head, len) ==
    LET till_end == len[curr_cert] - Len(certs[curr_cert])
        to_copy == LeastOf(till_end, Len(head))
        full == Len(certs[curr_cert]) + to_copy >= len[curr_cert] IN
    [certs |-> [certs EXCEPT ![curr_cert] = @ \o SubSeq(head, 1, to_copy)],
     curr |-> IF full /\ curr_cert < LT_NUM_CERTIFICATES THEN curr_cert + 1 ELSE curr_cert,
     done |-> full /\ curr_cert = LT_NUM_CERTIFICATES]

\* One pass of the loop: to the certificate under way, and when that is full the
\* rest of the block, trailer_len bytes, to the next one.
Copied(head, len) ==
    LET till_end == len[curr_cert] - Len(certs[curr_cert])
        to_copy == LeastOf(till_end, Len(head))
        trailer_len == TR01_GET_INFO_BLOCK_LEN - to_copy
        trailer == IF Len(head) > to_copy
                   THEN SubSeq(head, to_copy + 1, to_copy + trailer_len) ELSE <<>>
        full == Len(certs[curr_cert]) + to_copy >= len[curr_cert]
        done == full /\ curr_cert = LT_NUM_CERTIFICATES
        next == IF full /\ ~done THEN curr_cert + 1 ELSE curr_cert
        copied == [certs EXCEPT ![curr_cert] = @ \o SubSeq(head, 1, to_copy)] IN
    [certs |-> IF done THEN copied ELSE [copied EXCEPT ![next] = @ \o trailer],
     curr |-> next,
     done |-> done]

\* Get_Info of one block of the certificate store.
GetBlock ==
    /\ cert_pc = "blocks"
    /\ LET object == Object(store, block)
           len == IF block = 0 THEN HeaderLengths(object) ELSE cert_len
           copied == Copied(AfterHeader(object), len) IN
       \/ block = 0 /\ HeaderRet(object) # "LT_OK" /\ CertFails(HeaderRet(object))
       \/ /\ block = 0 => HeaderRet(object) = "LT_OK"
          /\ cert_len' = len
          /\ certs' = copied.certs
          /\ curr_cert' = copied.curr
          /\ block' = block + 1
          /\ cert_pc' = IF \/ copied.done
                           \/ block' = TR01_L2_GET_INFO_REQ_CERT_SIZE_TOTAL
                                            \div TR01_GET_INFO_BLOCK_LEN
                        THEN "parse" ELSE "blocks"
          /\ UNCHANGED <<store, parser, stpub, cert_ret>>

\* lt_get_st_pub calls asn1der_find_object on the device's certificate.
GetStPub ==
    /\ cert_pc = "parse"
    /\ cert_pc' = "parsing"
    /\ parser' = Ctx(cert_len[1])
    /\ UNCHANGED <<store, block, curr_cert, cert_len, certs, stpub, cert_ret>>

\* A pass of its loops, and the end of lt_get_st_pub if it was the last.
FindStPub ==
    /\ cert_pc = "parsing"
    /\ parser' = Parse(parser, SubSeq(certs[1], 1, cert_len[1]),
                       LT_OBJ_ID_CURVEX25519, TR01_STPUB_LEN)
    /\ cert_ret' = parser'.ret
    /\ IF parser'.ret # "LT_OK" THEN cert_pc' = "failed" /\ stpub' = stpub
       ELSE IF parser'.ends = <<>> THEN cert_pc' = "session" /\ stpub' = parser'.sbuf
       ELSE UNCHANGED <<cert_pc, stpub>>
    /\ UNCHANGED <<store, block, curr_cert, cert_len, certs>>

\* The call has returned, lt_session_start was called or not.
CertReturned ==
    /\ cert_pc' = "returned"
    /\ store' = NoStore
    /\ block' = 0
    /\ curr_cert' = 1
    /\ cert_len' = NoLengths
    /\ certs' = Empty
    /\ parser' = NoParser
    /\ stpub' = <<>>
    /\ cert_ret' = "LT_OK"

CertNext ==
    \/ GetInfoChipId \/ GetInfoRiscvFwVer \/ GetInfoSpectFwVer
    \/ Calloc \/ GetTr01Mode \/ CertTransferFails \/ GetBlock \/ GetStPub
    \/ FindStPub

-----------------------------------------------------------------------------
\* The buffers hold exactly the certificates when the last block is copied: the
\* header, the chunks and the one trailer of every certificate are cut where
\* the lengths say, for every place of the bounds within a block.
CertsExact ==
    cert_pc = "parse" =>
        /\ certs = store.certs
        /\ \A j \in 1..LT_NUM_CERTIFICATES : cert_len[j] = Len(certs[j])
=============================================================================
