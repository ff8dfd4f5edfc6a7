------------------------------ MODULE L2Transfer ------------------------------
(***************************************************************************)
(* lt_l2_transfer of libtropic_l2.c: one L2 Request, its Response, and the *)
(* retries on CRC errors in either direction, against a chip behind a line *)
(* that corrupts frames and a Layer 1 that may fail at any read or write.  *)
(*                                                                         *)
(* Requests are numbered by the call that sends them, so a response can be *)
(* told from the response to an earlier call; the frames themselves carry  *)
(* no such number, which is what makes stale and repeated frames a hazard. *)
(***************************************************************************)
EXTENDS L2Frame, Naturals

CONSTANTS
    MaxCalls,                   \* bound on the number of calls
    LT_CRC_ERR_RETRY_ATTEMPTS,  \* retries one call has
    Garbled                     \* Garbled[s]: statuses line noise can turn s into

\* The code uses 3 attempts; the protocol is correct for any number.
ASSUME AttemptsAssumption == LT_CRC_ERR_RETRY_ATTEMPTS \in Nat

ASSUME CallsAssumption == MaxCalls \in Nat

\* What Layer 2 relies on: noise does not turn a frame whose CRC the host
\* checks into CRC_ERR, nor CRC_ERR into one of those.  The status bytes are
\* 0x01, 0x02 and 0x7C, five or more bits apart.
ASSUME GarbledAssumption ==
    /\ Garbled \in [Status -> SUBSET Status]
    /\ \A s \in CrcChecked : "CRC_ERR" \notin Garbled[s]
    /\ Garbled["CRC_ERR"] \cap CrcChecked = {}

VARIABLES
    pc,                 \* where the host is in lt_l2_transfer
    buff,               \* s2->buff
    req_buff_backup,    \* the request, saved on entry
    total_retry_count,
    startup_req_sent,   \* s2->startup_req_sent
    ret,                \* what the latest finished call returned
    call,               \* number of the current call
    chip_in,            \* request the chip has received and not yet processed
    chip_out,           \* response the host has not yet read
    chip_last,          \* response a Resend_Req asks for
    executed            \* how many times the chip executed each call

hostVars == <<pc, buff, req_buff_backup, total_retry_count, startup_req_sent,
              ret, call>>
chipVars == <<chip_in, chip_out, chip_last, executed>>
vars == <<hostVars, chipVars>>

-----------------------------------------------------------------------------
\* Contents of the L2 buffer and of the line.  One record shape for requests
\* and responses: a request has no status.
Calls == 1..MaxCalls

Content == [kind : {"none", "req", "resend", "rsp"}, call : 0..MaxCalls,
            status : Status \cup {"none"}, crc : Crc]

None == [kind |-> "none", call |-> 0, status |-> "none", crc |-> "good"]
Req(c) == [kind |-> "req", call |-> c, status |-> "none", crc |-> "good"]
ResendReq == [kind |-> "resend", call |-> 0, status |-> "none", crc |-> "good"]
Rsp(c, s) == [kind |-> "rsp", call |-> c, status |-> s, crc |-> "good"]

Corrupt(m) == [m EXCEPT !.crc = "bad"]

\* What the host may read when the chip sends f: f, f with bits flipped in its
\* status, its length or anywhere else, or, for a Startup_Req, f without its last bits.
\* lt_l1_read takes NO_RESP, 0xFF, for no response yet and polls on, so it
\* never returns such a frame.
Noise(f) ==
    {g \in {f, Corrupt(f)}
             \cup {[f EXCEPT !.crc = "bad", !.status = s] : s \in Garbled[f.status]}
             \cup {[f EXCEPT !.crc = "long"]}
             \cup (IF startup_req_sent /\ f.status = "REQUEST_OK"
                   THEN {[f EXCEPT !.crc = "head"]} ELSE {}) :
        g.status # "NO_RESP"}

L1Error == {"LT_HAL_ERROR", "LT_L1_CHIP_BUSY", "LT_L1_CHIP_ALARM_MODE",
            "LT_L1_DATA_LEN_ERROR"}

Ret == {StatusRet[s] : s \in Status} \cup L1Error
         \cup {"LT_L2_IN_CRC_ERR", "LT_L2_RSP_LEN_ERROR"}

TypeOK ==
    /\ pc \in {"idle", "send", "receive", "resend", "resend_receive"}
    /\ buff \in Content
    /\ req_buff_backup \in Content
    /\ total_retry_count \in 0..LT_CRC_ERR_RETRY_ATTEMPTS
    /\ startup_req_sent \in BOOLEAN
    /\ ret \in Ret
    /\ call \in 0..MaxCalls
    /\ chip_in \in Content /\ chip_in.kind # "rsp"
    /\ chip_out \in Content /\ chip_out.kind \in {"none", "rsp"}
    /\ chip_last \in Content /\ chip_last.kind = "rsp"
    /\ chip_out.kind = "rsp" => chip_out.status \in Status
    /\ chip_last.status \in Status
    /\ executed \in [Calls -> Nat]

Init ==
    /\ pc = "idle"
    /\ buff = None
    /\ req_buff_backup = None
    /\ total_retry_count = 0
    /\ startup_req_sent = FALSE
    /\ ret = "LT_L1_CHIP_BUSY"
    /\ call = 0
    /\ chip_in = None
    /\ chip_out = None
    /\ chip_last = Rsp(0, "NO_RESP")
    /\ executed = [c \in Calls |-> 0]

-----------------------------------------------------------------------------
\* lt_l2_transfer's entry: the caller has put a request in the buffer.
\* lt_reboot raises startup_req_sent around its Startup_Req.  Another call may find
\* it raised too: the last byte of a "long" frame is written behind the buffer, where
\* startup_req_sent is.
Transfer ==
    /\ pc = "idle"
    /\ call < MaxCalls
    /\ call' = call + 1
    /\ buff' = Req(call + 1)
    /\ req_buff_backup' = Req(call + 1)
    /\ total_retry_count' = 0
    /\ startup_req_sent' \in BOOLEAN
    /\ pc' = "send"
    /\ UNCHANGED <<ret, chipVars>>

\* The function returns r; lt_reboot lowers startup_req_sent.
Return(r) ==
    /\ ret' = r
    /\ pc' = "idle"
    /\ startup_req_sent' = FALSE

\* lt_l1_write puts m on the line: it arrives whole or corrupted and replaces
\* what the chip had not yet processed or sent.
Write(m) ==
    /\ chip_in' \in {m, Corrupt(m)}
    /\ chip_out' = None
    /\ UNCHANGED <<chip_last, executed>>

\* lt_l1_write fails: the chip has seen nothing, a part, or, when only raising
\* CS failed, all of m.
WriteFails(m) ==
    /\ \/ UNCHANGED <<chip_in, chip_out>>
       \/ chip_in' \in {m, Corrupt(m)} /\ chip_out' = None
    /\ UNCHANGED <<chip_last, executed>>

\* lt_l1_read takes the response out of the chip.
Read ==
    /\ chip_out.kind = "rsp"
    /\ chip_out' = None
    /\ UNCHANGED <<chip_in, chip_last, executed>>

\* lt_l1_read fails, with the response read in part or not at all: the chip
\* stayed busy for LT_L1_READ_MAX_TRIES polls, raised ALARM, or SPI failed.
ReadFails ==
    /\ chip_out' \in {chip_out, None}
    /\ UNCHANGED <<buff, chip_in, chip_last, executed>>

Send ==
    /\ pc = "send"
    /\ \/ Write(buff) /\ pc' = "receive" /\ UNCHANGED <<ret, startup_req_sent>>
       \/ WriteFails(buff) /\ Return("LT_HAL_ERROR")
    /\ UNCHANGED <<buff, req_buff_backup, total_retry_count, call>>

\* lt_l2_receive: the answer to a Startup_Req is taken on the first CRC byte.
ReceiveRet(f) ==
    IF startup_req_sent /\ f.status = "REQUEST_OK" /\ f.crc \in {"good", "head"}
    THEN "LT_OK"
    ELSE FrameCheck(f)

\* Mutants of RetriesLeft and Retry: one retry too many; the response is sent
\* in place of the saved request; the retries are not counted.
RetriesLeftOffByOne == total_retry_count <= LT_CRC_ERR_RETRY_ATTEMPTS

RetriesLeft == total_retry_count < LT_CRC_ERR_RETRY_ATTEMPTS

RetryWithoutBackup ==
    /\ RetriesLeft
    /\ total_retry_count' = total_retry_count + 1
    /\ buff' = chip_out
    /\ pc' = "send"
    /\ UNCHANGED <<ret, startup_req_sent>>

RetryUncounted ==
    /\ RetriesLeft
    /\ buff' = req_buff_backup
    /\ pc' = "send"
    /\ UNCHANGED <<total_retry_count, ret, startup_req_sent>>

\* The chip saw a corrupted request: the whole exchange is tried again with
\* the saved request.
Retry ==
    /\ RetriesLeft
    /\ total_retry_count' = total_retry_count + 1
    /\ buff' = req_buff_backup
    /\ pc' = "send"
    /\ UNCHANGED <<ret, startup_req_sent>>

\* A mutant of Answered: a corrupted response repeats the whole exchange.
AnsweredRepeatingAll(f) ==
    LET r == ReceiveRet(f) IN
    \/ r \in {"LT_L2_CRC_ERR", "LT_L2_IN_CRC_ERR"} /\ Retry
    \/ /\ r \in {"LT_L2_CRC_ERR", "LT_L2_IN_CRC_ERR"} => ~RetriesLeft
       /\ Return(r)
       /\ buff' = f
       /\ UNCHANGED total_retry_count

\* What the body of the loop does with the answer f to the request.
Answered(f) ==
    LET r == ReceiveRet(f) IN
    \/ r = "LT_L2_CRC_ERR" /\ Retry
    \/ /\ r = "LT_L2_IN_CRC_ERR" /\ RetriesLeft
       /\ pc' = "resend"
       /\ buff' = f
       /\ UNCHANGED <<total_retry_count, ret, startup_req_sent>>
    \/ /\ r \in {"LT_L2_CRC_ERR", "LT_L2_IN_CRC_ERR"} => ~RetriesLeft
       /\ Return(r)
       /\ buff' = f
       /\ UNCHANGED total_retry_count

Receive ==
    /\ pc = "receive"
    /\ \/ Read /\ \E f \in Noise(chip_out) : Answered(f)
       \/ /\ ReadFails
          /\ \E e \in L1Error : Return(e)
          /\ UNCHANGED total_retry_count
    /\ UNCHANGED <<req_buff_backup, call>>

\* The write of lt_l2_resend_response; the loop's condition was checked before.
Resend ==
    /\ pc = "resend"
    /\ total_retry_count' = total_retry_count + 1
    /\ buff' = ResendReq
    /\ \/ Write(ResendReq) /\ pc' = "resend_receive" /\ UNCHANGED <<ret, startup_req_sent>>
       \/ WriteFails(ResendReq) /\ Return("LT_HAL_ERROR")
    /\ UNCHANGED <<req_buff_backup, call>>

\* A mutant of ResendAnswered: CRC_ERR to a Resend_Req is taken for CRC_ERR to
\* the request, which is sent again.
ResendAnsweredAnew(f) ==
    LET r == FrameCheck(f) IN
    \/ /\ r = "LT_L2_CRC_ERR" /\ RetriesLeft
       /\ buff' = req_buff_backup
       /\ pc' = "send"
       /\ UNCHANGED <<ret, startup_req_sent>>
    \/ /\ r = "LT_L2_IN_CRC_ERR" /\ RetriesLeft
       /\ buff' = f
       /\ pc' = "resend"
       /\ UNCHANGED <<ret, startup_req_sent>>
    \/ /\ r \in {"LT_L2_CRC_ERR", "LT_L2_IN_CRC_ERR"} => ~RetriesLeft
       /\ buff' = f
       /\ Return(r)

\* What the loop of Resend_Reqs does with the answer f: a CRC error of either
\* side asks again, as long as attempts are left.
ResendAnswered(f) ==
    LET r == FrameCheck(f)
        again == r \in {"LT_L2_IN_CRC_ERR", "LT_L2_CRC_ERR"} /\ RetriesLeft
    IN  /\ buff' = f
        /\ IF again
           THEN pc' = "resend" /\ UNCHANGED <<ret, startup_req_sent>>
           ELSE Return(r)

\* The read of lt_l2_resend_response.
ResendReceive ==
    /\ pc = "resend_receive"
    /\ \/ Read /\ \E f \in Noise(chip_out) : ResendAnswered(f)
       \/ ReadFails /\ \E e \in L1Error : Return(e)
    /\ UNCHANGED <<req_buff_backup, total_retry_count, call>>

-----------------------------------------------------------------------------
\* The chip, as libtropic_l2.c treats it: it answers a corrupted request with
\* CRC_ERR and a Resend_Req with its last response, and rejects a frame that
\* is no request.  Whether CRC_ERR becomes the last response the host's code
\* leaves open, and so does the model.
Answer(f) == chip_in' = None /\ chip_out' = f

ChipRefuses ==
    /\ chip_in.kind # "none"
    /\ chip_in.crc = "bad"
    /\ Answer(Rsp(0, "CRC_ERR"))
    /\ chip_last' \in {chip_last, Rsp(0, "CRC_ERR")}
    /\ UNCHANGED <<executed, hostVars>>

ChipResends ==
    /\ chip_in = ResendReq
    /\ Answer(chip_last)
    /\ UNCHANGED <<chip_last, executed, hostVars>>

ChipExecutes ==
    /\ chip_in.kind = "req" /\ chip_in.crc = "good"
    /\ Answer(Rsp(chip_in.call, "REQUEST_OK"))
    /\ chip_last' = chip_out'
    /\ executed' = [executed EXCEPT ![chip_in.call] = @ + 1]
    /\ UNCHANGED hostVars

ChipRejects ==
    /\ chip_in.kind = "req" /\ chip_in.crc = "good"
    /\ \E s \in {"GEN_ERR", "UNKNOWN_ERR", "RESP_DISABLED"} :
          Answer(Rsp(chip_in.call, s))
    /\ chip_last' = chip_out'
    /\ UNCHANGED <<executed, hostVars>>

Host == Send \/ Receive \/ Resend \/ ResendReceive
Chip == ChipRefuses \/ ChipResends \/ ChipExecutes \/ ChipRejects

Next == Transfer \/ Host \/ Chip

Spec == Init /\ [][Next]_vars

\* lt_l2_transfer is a C function on the one main loop: it runs on, and each
\* of its reads gives up by itself.  Nothing is asked of the chip or the caller.
FairSpec == Spec /\ WF_vars(Host)

-----------------------------------------------------------------------------
\* No request is executed twice: the whole exchange is repeated only after
\* the chip said that the request itself arrived corrupted.
AtMostOnce == \A c \in Calls : executed[c] <= 1

\* LT_OK means that the chip executed this request and that the buffer holds
\* its response, never the response to an earlier call or to a Resend_Req.
OkIsAnswered ==
    pc = "idle" /\ ret = "LT_OK" =>
        /\ executed[call] = 1
        /\ buff.kind = "rsp" /\ buff.call = call /\ buff.crc \in {"good", "head"}

\* The inductive invariant behind the two, in named parts.

\* A response that belongs to the current call, or the chip's CRC_ERR.
OfThisCall(f) ==
    \/ f = Rsp(0, "CRC_ERR")
    \/ \E s \in {"REQUEST_OK", "GEN_ERR", "UNKNOWN_ERR", "RESP_DISABLED"} :
          f = Rsp(call, s) /\ (s = "REQUEST_OK" => executed[call] = 1)

\* A request still in flight, even one its call gave up on, has not been
\* executed; later calls have not happened.
InFlightIsNew ==
    /\ chip_in.kind = "req" =>
          /\ chip_in.call \in 1..call
          /\ chip_in.crc = "good" => executed[chip_in.call] = 0
    /\ \A c \in Calls : c > call => executed[c] = 0

\* The buffer and its backup hold the caller's request whenever it is sent,
\* and it is sent only while the chip has not executed it.
SendingIsSafe ==
    /\ pc # "idle" => call \in Calls /\ req_buff_backup = Req(call)
    /\ pc = "send" =>
          /\ buff = Req(call)
          /\ executed[call] = 0
          /\ chip_in.kind = "req" => chip_in.call # call

\* While the host waits, either the chip holds the request or it has answered.
WaitingForAnswer ==
    pc = "receive" =>
        \/ /\ chip_in \in {Req(call), Corrupt(Req(call))}
           /\ chip_out = None /\ executed[call] = 0
        \/ /\ chip_in = None
           /\ OfThisCall(chip_out)
           /\ chip_out.status = "REQUEST_OK" \/ executed[call] = 0
           /\ chip_out.status = "CRC_ERR" \/ chip_last = chip_out

\* While the host asks for the response again, no request is in flight and the
\* chip's last response is one to this call.
ResendingIsSafe ==
    /\ pc \in {"resend", "resend_receive"} => OfThisCall(chip_last)
    /\ pc = "resend" => RetriesLeft /\ chip_in = None /\ chip_out = None
    /\ pc = "resend_receive" =>
          \/ chip_in \in {ResendReq, Corrupt(ResendReq)} /\ chip_out = None
          \/ chip_in = None /\ OfThisCall(chip_out)

\* Together: what every step of the exchange preserves.
IInv ==
    /\ TypeOK
    /\ AtMostOnce
    /\ OkIsAnswered
    /\ ret = "LT_OK" => call \in Calls
    /\ InFlightIsNew
    /\ SendingIsSafe
    /\ WaitingForAnswer
    /\ ResendingIsSafe

\* Every call returns: retries on a line that never clears run out.
CallReturns == (pc # "idle") ~> (pc = "idle")

\* lt_l2_transfer implements the remote call of AtMostOnceRpc.
Rpc == INSTANCE AtMostOnceRpc WITH busy <- pc # "idle", ok <- ret = "LT_OK"

ImplementsRpc == Rpc!Spec
=============================================================================
