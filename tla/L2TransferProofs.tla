--------------------------- MODULE L2TransferProofs ---------------------------
(***************************************************************************)
(* Proofs about L2Transfer, for every number of calls and of retry         *)
(* attempts and for every kind of line noise GarbledAssumption allows; and *)
(* about L1Framing, for every number of polls.  With Layer 1 in steps      *)
(* lt_l2_transfer does nothing that L2Transfer does not do, so that what   *)
(* is proved of L2Transfer holds of L1Framing.                             *)
(***************************************************************************)
EXTENDS L1Framing, TLAPS

-----------------------------------------------------------------------------
(* What the status table and the frame check return.                       *)

\* lt_l2_frame_check's switch: CRC_ERR is returned for that status only, LT_OK
\* for the two CRC-checked statuses only, and LT_L2_IN_CRC_ERR for none.
LEMMA StatusRetFacts ==
    ASSUME NEW s \in Status
    PROVE  /\ StatusRet[s] \in Ret
           /\ StatusRet[s] = "LT_OK" <=> s \in CrcChecked
           /\ StatusRet[s] = "LT_L2_CRC_ERR" <=> s = "CRC_ERR"
           /\ StatusRet[s] # "LT_L2_IN_CRC_ERR"
<1>1. StatusRet[s] \in Ret
    BY DEF Ret
<1>2. QED
    BY <1>1 DEF StatusRet, Status, CrcChecked

\* lt_l2_frame_check accepts a frame only if its CRC is right, and reports
\* LT_L2_IN_CRC_ERR only for a status whose CRC it looks at.
LEMMA FrameCheckFacts ==
    ASSUME NEW f \in Content, f.status \in Status
    PROVE  /\ FrameCheck(f) \in Ret
           /\ FrameCheck(f) = "LT_OK" => f.status \in CrcChecked /\ f.crc = "good"
           /\ FrameCheck(f) = "LT_L2_CRC_ERR" => f.status = "CRC_ERR"
           /\ FrameCheck(f) = "LT_L2_IN_CRC_ERR" => f.status \in CrcChecked /\ f.crc # "good"
<1>1. {"LT_L2_IN_CRC_ERR", "LT_L2_RSP_LEN_ERROR"} \subseteq Ret
    BY DEF Ret
<1>2. "CRC_ERR" \notin CrcChecked
    BY DEF CrcChecked
<1>3. QED
    BY <1>1, <1>2, StatusRetFacts DEF FrameCheck

\* lt_l2_receive accepts, beside those, the answer to a Startup_Req of which
\* the first CRC byte arrived.
LEMMA ReceiveRetFacts ==
    ASSUME NEW f \in Content, f.status \in Status
    PROVE  /\ ReceiveRet(f) \in Ret
           /\ ReceiveRet(f) = "LT_OK" => f.status \in CrcChecked /\ f.crc \in {"good", "head"}
           /\ ReceiveRet(f) = "LT_L2_CRC_ERR" => f.status = "CRC_ERR"
           /\ ReceiveRet(f) = "LT_L2_IN_CRC_ERR" => f.status \in CrcChecked /\ f.crc # "good"
<1>1. "LT_OK" \in Ret
    BY DEF Ret, StatusRet, Status, CrcChecked
<1>2. "REQUEST_OK" \in CrcChecked
    BY DEF CrcChecked
<1>3. QED
    BY <1>1, <1>2, FrameCheckFacts DEF ReceiveRet

\* Line noise keeps a frame a frame, makes no wrong CRC right, and leaves the
\* call it belongs to alone; it cannot cross between CRC_ERR and the statuses
\* whose CRC is checked.
LEMMA NoiseFacts ==
    ASSUME NEW f \in Content, f.kind = "rsp", f.crc = "good", f.status \in Status,
           NEW g \in Noise(f)
    PROVE  /\ g \in Content /\ g.kind = "rsp" /\ g.call = f.call
           /\ g.status \in Status
           /\ g.crc = "good" => g = f
           /\ g.crc = "head" => g.status = f.status /\ f.status = "REQUEST_OK"
           /\ g.status = "CRC_ERR" => f.status \notin CrcChecked
           /\ g.status \in CrcChecked => f.status # "CRC_ERR"
<1>1. CASE g = f
    BY <1>1 DEF CrcChecked
<1>2. CASE g = Corrupt(f)
    BY <1>2 DEF Corrupt, Content, Crc, CrcChecked
<1>3. CASE \E s \in Garbled[f.status] : g = [f EXCEPT !.crc = "bad", !.status = s]
  <2>1. PICK s \in Garbled[f.status] : g = [f EXCEPT !.crc = "bad", !.status = s]
      BY <1>3
  <2>2. s \in Status
      BY GarbledAssumption
  <2>3. g.status = s /\ g.crc = "bad" /\ g.kind = "rsp" /\ g.call = f.call
      BY <2>1 DEF Content
  <2>4. g \in Content
      BY <2>1, <2>2 DEF Content, Crc
  <2>5. /\ s = "CRC_ERR" => f.status \notin CrcChecked
        /\ s \in CrcChecked => f.status # "CRC_ERR"
      BY GarbledAssumption
  <2>6. QED
      BY <2>2, <2>3, <2>4, <2>5
<1>4. CASE g = [f EXCEPT !.crc = "head"] /\ f.status = "REQUEST_OK"
    BY <1>4 DEF Content, Crc, CrcChecked
<1>5. CASE g = [f EXCEPT !.crc = "long"]
    BY <1>5 DEF Content, Crc, CrcChecked
<1>6. QED
    BY <1>1, <1>2, <1>3, <1>4, <1>5 DEF Noise

-----------------------------------------------------------------------------
(* The inductive invariant.                                                *)

\* The members of the buffer's type that the actions put into it.
LEMMA ContentFacts ==
    /\ None \in Content
    /\ \A c \in 0..MaxCalls : Req(c) \in Content
    /\ \A c \in 0..MaxCalls : Corrupt(Req(c)) \in Content
    /\ ResendReq \in Content /\ Corrupt(ResendReq) \in Content
    /\ \A c \in 0..MaxCalls, s \in Status : Rsp(c, s) \in Content
BY CallsAssumption
   DEF None, Req, ResendReq, Rsp, Corrupt, Content, Crc

\* Their fields.
LEMMA FieldFacts ==
    /\ None.kind = "none"
    /\ \A c : Req(c).kind = "req" /\ Req(c).call = c /\ Req(c).crc = "good"
    /\ \A c : /\ Corrupt(Req(c)).kind = "req" /\ Corrupt(Req(c)).call = c
             /\ Corrupt(Req(c)).crc = "bad"
    /\ ResendReq.kind = "resend" /\ ResendReq.crc = "good"
    /\ Corrupt(ResendReq).kind = "resend" /\ Corrupt(ResendReq).crc = "bad"
    /\ \A c, s : /\ Rsp(c, s).kind = "rsp" /\ Rsp(c, s).call = c
                /\ Rsp(c, s).status = s /\ Rsp(c, s).crc = "good"
BY DEF None, Req, ResendReq, Rsp, Corrupt

\* Noise on a response to the current call yields frames that, when the host
\* takes them for LT_OK, prove that the chip executed the call.
LEMMA AcceptedIsAnswer ==
    ASSUME TypeOK, NEW f, OfThisCall(f), call \in Calls,
           NEW g \in Noise(f), g.status \in CrcChecked, g.crc \in {"good", "head"}
    PROVE  executed[call] = 1 /\ g.kind = "rsp" /\ g.call = call
<1>1. f \in Content /\ f.kind = "rsp" /\ f.crc = "good" /\ f.status \in Status
  <2>1. call \in 0..MaxCalls /\ 0 \in 0..MaxCalls
      BY CallsAssumption DEF TypeOK
  <2>2. PICK c \in 0..MaxCalls, s \in Status : f = Rsp(c, s)
      BY <2>1 DEF OfThisCall, Status
  <2>3. QED
      BY <2>2, ContentFacts, FieldFacts
<1>2. /\ g.kind = "rsp" /\ g.call = f.call
      /\ g.crc = "good" => g = f
      /\ g.crc = "head" => f.status = "REQUEST_OK"
      /\ f.status # "CRC_ERR"
      /\ g.crc \in {"good", "head"}
    BY <1>1, NoiseFacts DEF Content, Crc
<1>3. f.status = "REQUEST_OK"
    BY <1>1, <1>2 DEF OfThisCall, Rsp, CrcChecked
<1>4. QED
    BY <1>2, <1>3 DEF OfThisCall, Rsp

\* Init establishes it.
LEMMA InitIInv == Init => IInv
<1> SUFFICES ASSUME Init PROVE IInv
    OBVIOUS
<1>1. "LT_L1_CHIP_BUSY" \in Ret /\ "NO_RESP" \in Status
    BY DEF Ret, L1Error, Status
<1>2. TypeOK
  <2>1. 0 \in 0..MaxCalls /\ 0 \in 0..LT_CRC_ERR_RETRY_ATTEMPTS
      BY CallsAssumption, AttemptsAssumption
  <2>2. /\ chip_last \in Content /\ chip_last.kind = "rsp"
        /\ chip_last.status = "NO_RESP"
      BY <1>1, <2>1, ContentFacts, FieldFacts DEF Init
  <2>3. executed \in [Calls -> Nat]
      BY DEF Init
  <2>4. QED
      BY <1>1, <2>1, <2>2, <2>3, ContentFacts, FieldFacts DEF Init, TypeOK
<1>3. QED
    BY <1>2, CallsAssumption
       DEF Init, IInv, AtMostOnce, OkIsAnswered, InFlightIsNew, SendingIsSafe,
           WaitingForAnswer, ResendingIsSafe, None

\* Transfer preserves it: nothing is known of the new call to the chip.
LEMMA TransferIInv == IInv /\ Transfer => IInv'
<1> SUFFICES ASSUME IInv, Transfer PROVE IInv'
    OBVIOUS
<1>1. call \in 0..MaxCalls /\ call + 1 \in Calls /\ call' = call + 1 /\ executed' = executed
    BY CallsAssumption DEF IInv, TypeOK, Transfer, chipVars, Calls
<1>2. executed[call + 1] = 0
    BY <1>1 DEF IInv, InFlightIsNew
<1>3. TypeOK'
    BY <1>1, ContentFacts, AttemptsAssumption
       DEF IInv, TypeOK, Transfer, chipVars, Calls
<1>4. AtMostOnce' /\ OkIsAnswered' /\ (ret = "LT_OK" => call \in Calls)'
    BY <1>1 DEF IInv, AtMostOnce, OkIsAnswered, Transfer
<1>5. InFlightIsNew'
    BY <1>1 DEF IInv, InFlightIsNew, Transfer, chipVars, Calls
<1>6. SendingIsSafe'
    BY <1>1, <1>2 DEF IInv, InFlightIsNew, SendingIsSafe, Transfer, chipVars
<1>7. WaitingForAnswer' /\ ResendingIsSafe'
    BY DEF WaitingForAnswer, ResendingIsSafe, Transfer
<1>8. QED
    BY <1>3, <1>4, <1>5, <1>6, <1>7 DEF IInv

\* Send preserves it: what is in flight afterwards is a request the chip has
\* not executed.
LEMMA SendIInv == IInv /\ Send => IInv'
<1> SUFFICES ASSUME IInv, Send PROVE IInv'
    OBVIOUS
<1>1. /\ call \in Calls /\ call' = call /\ executed' = executed
      /\ buff = Req(call) /\ buff' = buff /\ executed[call] = 0
      /\ req_buff_backup' = req_buff_backup /\ chip_last' = chip_last
      /\ req_buff_backup = Req(call) /\ total_retry_count' = total_retry_count
    BY DEF IInv, Send, SendingIsSafe, Write, WriteFails
<1>2. /\ \/ chip_in' \in {Req(call), Corrupt(Req(call))} /\ chip_out' = None
         \/ chip_in' = chip_in /\ chip_out' = chip_out
      /\ \/ /\ pc' = "receive" /\ chip_in' \in {Req(call), Corrupt(Req(call))}
            /\ chip_out' = None /\ UNCHANGED <<ret, startup_req_sent>>
         \/ pc' = "idle" /\ ret' = "LT_HAL_ERROR" /\ startup_req_sent' = FALSE
    BY <1>1 DEF Send, Write, WriteFails, Return
<1>3. "LT_HAL_ERROR" \in Ret
    BY DEF Ret, L1Error
<1>4. TypeOK'
  <2>1. chip_in' \in Content /\ chip_in'.kind # "rsp"
      BY <1>1, <1>2, ContentFacts, FieldFacts DEF IInv, TypeOK, Calls
  <2>2. /\ chip_out' \in Content /\ chip_out'.kind \in {"none", "rsp"}
        /\ chip_out'.kind = "rsp" => chip_out'.status \in Status
      BY <1>2, ContentFacts, FieldFacts DEF IInv, TypeOK
  <2>3. pc' \in {"idle", "receive"} /\ ret' \in Ret /\ startup_req_sent' \in BOOLEAN
      BY <1>2, <1>3 DEF IInv, TypeOK
  <2>4. QED
      BY <1>1, <2>1, <2>2, <2>3 DEF IInv, TypeOK
<1>5. AtMostOnce' /\ OkIsAnswered' /\ (ret = "LT_OK" => call \in Calls)'
    BY <1>1, <1>2 DEF IInv, AtMostOnce, OkIsAnswered
<1>6. InFlightIsNew'
  <2>1. CASE chip_in' \in {Req(call), Corrupt(Req(call))}
      BY <1>1, <2>1 DEF IInv, InFlightIsNew, Req, Corrupt, Calls
  <2>2. CASE chip_in' = chip_in
      BY <1>1, <2>2 DEF IInv, InFlightIsNew
  <2>3. QED
      BY <1>2, <2>1, <2>2
<1>7. SendingIsSafe'
    BY <1>1, <1>2 DEF IInv, SendingIsSafe
<1>8. WaitingForAnswer' /\ ResendingIsSafe'
    BY <1>1, <1>2 DEF WaitingForAnswer, ResendingIsSafe
<1>9. QED
    BY <1>4, <1>5, <1>6, <1>7, <1>8 DEF IInv
\* Receive preserves it.  The answer is the chip's, disturbed by noise: LT_OK
\* only for an executed call, a repetition only for one not executed.
LEMMA ReceiveIInv == IInv /\ Receive => IInv'
<1> SUFFICES ASSUME IInv, Receive PROVE IInv'
    OBVIOUS
<1>1. /\ pc = "receive" /\ call \in Calls /\ call' = call /\ executed' = executed
      /\ req_buff_backup' = req_buff_backup /\ req_buff_backup = Req(call)
      /\ chip_in' = chip_in /\ chip_last' = chip_last
      /\ chip_out' \in {chip_out, None}
    BY DEF IInv, Receive, SendingIsSafe, Read, ReadFails
<1>2. /\ chip_in' \in Content /\ chip_in'.kind # "rsp"
      /\ chip_out' \in Content /\ chip_out'.kind \in {"none", "rsp"}
      /\ chip_out'.kind = "rsp" => chip_out'.status \in Status
    BY <1>1, ContentFacts, FieldFacts DEF IInv, TypeOK
<1>3. InFlightIsNew' /\ AtMostOnce'
    BY <1>1 DEF IInv, InFlightIsNew, AtMostOnce
<1>4. CASE ReadFails /\ (\E e \in L1Error : Return(e)) /\ UNCHANGED total_retry_count
  <2>1. /\ pc' = "idle" /\ ret' \in L1Error /\ startup_req_sent' = FALSE
        /\ buff' = buff /\ total_retry_count' = total_retry_count
      BY <1>4 DEF Return, ReadFails
  <2>2. ret' # "LT_OK" /\ ret' \in Ret
      BY <2>1 DEF L1Error, Ret
  <2>3. TypeOK'
      BY <1>1, <1>2, <2>1, <2>2 DEF IInv, TypeOK
  <2>4. QED
      BY <1>1, <1>3, <2>1, <2>2, <2>3
         DEF IInv, OkIsAnswered, SendingIsSafe, WaitingForAnswer, ResendingIsSafe
<1>5. CASE Read /\ \E f \in Noise(chip_out) : Answered(f)
  <2>1. PICK f \in Noise(chip_out) : Answered(f)
      BY <1>5
  <2>2. /\ chip_out.kind = "rsp" /\ chip_out' = None /\ chip_in = None
        /\ OfThisCall(chip_out)
        /\ chip_out.status = "REQUEST_OK" \/ executed[call] = 0
        /\ chip_out.status = "CRC_ERR" \/ chip_last = chip_out
      BY <1>1, <1>5, FieldFacts DEF Read, IInv, WaitingForAnswer
  <2>3. chip_out \in Content /\ chip_out.crc = "good" /\ chip_out.status \in Status
      BY <2>2, FieldFacts DEF IInv, TypeOK, OfThisCall
  <2>4. /\ f \in Content /\ f.kind = "rsp" /\ f.status \in Status
        /\ f.status = "CRC_ERR" => chip_out.status \notin CrcChecked
        /\ f.status \in CrcChecked => chip_out.status # "CRC_ERR"
      BY <2>1, <2>2, <2>3, NoiseFacts
  <2>5. TypeOK /\ "REQUEST_OK" \in CrcChecked
      BY DEF IInv, CrcChecked
  <2> DEFINE r == ReceiveRet(f)
  <2>6. /\ r \in Ret
        /\ r = "LT_OK" => f.status \in CrcChecked /\ f.crc \in {"good", "head"}
        /\ r = "LT_L2_CRC_ERR" => f.status = "CRC_ERR"
        /\ r = "LT_L2_IN_CRC_ERR" => f.status \in CrcChecked
      BY <2>4, ReceiveRetFacts
  <2>7. CASE r = "LT_L2_CRC_ERR" /\ Retry
    <3>1. executed[call] = 0
        BY <2>2, <2>4, <2>5, <2>6, <2>7
    <3>2. /\ pc' = "send" /\ buff' = Req(call) /\ ret' = ret
          /\ startup_req_sent' = startup_req_sent
          /\ total_retry_count' \in 0..LT_CRC_ERR_RETRY_ATTEMPTS
        BY <1>1, <2>5, <2>7, AttemptsAssumption DEF Retry, RetriesLeft, TypeOK
    <3>3. TypeOK'
        BY <1>1, <1>2, <2>5, <3>2, ContentFacts DEF TypeOK, Calls
    <3>4. QED
        BY <1>1, <1>3, <2>2, <3>1, <3>2, <3>3, FieldFacts
           DEF IInv, OkIsAnswered, SendingIsSafe, WaitingForAnswer, ResendingIsSafe
  <2>8. CASE /\ r = "LT_L2_IN_CRC_ERR" /\ RetriesLeft /\ pc' = "resend" /\ buff' = f
             /\ UNCHANGED <<total_retry_count, ret, startup_req_sent>>
    <3>1. OfThisCall(chip_last)
        BY <2>2, <2>4, <2>6, <2>8
    <3>2. OfThisCall(chip_last)'
        BY <1>1, <3>1 DEF OfThisCall
    <3>3. TypeOK'
        BY <1>1, <1>2, <2>4, <2>5, <2>8 DEF TypeOK
    <3>4. RetriesLeft'
        BY <2>8 DEF RetriesLeft
    <3>5. QED
        BY <1>1, <1>3, <2>2, <2>8, <3>2, <3>3, <3>4
           DEF IInv, OkIsAnswered, SendingIsSafe, WaitingForAnswer, ResendingIsSafe
  <2>9. CASE Return(r) /\ buff' = f /\ UNCHANGED total_retry_count
    <3>1. pc' = "idle" /\ ret' = r /\ startup_req_sent' = FALSE
        BY <2>9 DEF Return
    <3>2. r = "LT_OK" => executed[call] = 1 /\ f.kind = "rsp" /\ f.call = call /\ f.crc \in {"good", "head"}
        BY <1>1, <2>1, <2>2, <2>5, <2>6, AcceptedIsAnswer
    <3>3. TypeOK'
        BY <1>1, <1>2, <2>4, <2>5, <2>6, <2>9, <3>1 DEF TypeOK
    <3>4. OkIsAnswered'
        BY <1>1, <2>9, <3>1, <3>2 DEF OkIsAnswered
    <3>5. QED
        BY <1>1, <1>3, <3>1, <3>3, <3>4
           DEF IInv, SendingIsSafe, WaitingForAnswer, ResendingIsSafe
  <2>10. QED
      BY <2>1, <2>7, <2>8, <2>9 DEF Answered
<1>6. QED
    BY <1>4, <1>5 DEF Receive
\* Resend preserves it: a Resend_Req goes out, the request is not sent again.
LEMMA ResendIInv == IInv /\ Resend => IInv'
<1> SUFFICES ASSUME IInv, Resend PROVE IInv'
    OBVIOUS
<1>1. /\ pc = "resend" /\ call \in Calls /\ call' = call /\ executed' = executed
      /\ req_buff_backup' = req_buff_backup /\ req_buff_backup = Req(call)
      /\ buff' = ResendReq /\ chip_last' = chip_last
      /\ chip_in = None /\ chip_out = None /\ OfThisCall(chip_last) /\ RetriesLeft
    BY DEF IInv, Resend, SendingIsSafe, ResendingIsSafe, Write, WriteFails
<1>2. /\ chip_in' \in {None, ResendReq, Corrupt(ResendReq)} /\ chip_out' = None
      /\ \/ /\ pc' = "resend_receive" /\ chip_in' \in {ResendReq, Corrupt(ResendReq)}
            /\ UNCHANGED <<ret, startup_req_sent>>
         \/ pc' = "idle" /\ ret' = "LT_HAL_ERROR" /\ startup_req_sent' = FALSE
    BY <1>1 DEF Resend, Write, WriteFails, Return
<1>3. "LT_HAL_ERROR" \in Ret
    BY DEF Ret, L1Error
<1>4. TypeOK'
  <2>1. total_retry_count' \in 0..LT_CRC_ERR_RETRY_ATTEMPTS
      BY <1>1, AttemptsAssumption DEF Resend, RetriesLeft, IInv, TypeOK
  <2>2. chip_in' \in Content /\ chip_in'.kind # "rsp"
      BY <1>2, ContentFacts, FieldFacts
  <2>3. /\ chip_out' \in Content /\ chip_out'.kind = "none"
      BY <1>2, ContentFacts, FieldFacts
  <2>4. QED
      BY <1>1, <1>2, <1>3, <2>1, <2>2, <2>3, ContentFacts DEF IInv, TypeOK
<1>5. InFlightIsNew'
    BY <1>1, <1>2, FieldFacts DEF IInv, InFlightIsNew
<1>6. ResendingIsSafe'
  <2>1. OfThisCall(chip_last)'
      BY <1>1 DEF OfThisCall
  <2>2. QED
      BY <1>2, <2>1 DEF ResendingIsSafe
<1>7. QED
    BY <1>1, <1>2, <1>4, <1>5, <1>6
       DEF IInv, AtMostOnce, OkIsAnswered, SendingIsSafe, WaitingForAnswer
\* ResendReceive preserves it: what is read answers the current call or is a
\* CRC_ERR, and the latter is never taken for LT_OK.
LEMMA ResendReceiveIInv == IInv /\ ResendReceive => IInv'
<1> SUFFICES ASSUME IInv, ResendReceive PROVE IInv'
    OBVIOUS
<1>1. /\ pc = "resend_receive" /\ call \in Calls /\ call' = call /\ executed' = executed
      /\ req_buff_backup' = req_buff_backup /\ req_buff_backup = Req(call)
      /\ total_retry_count' = total_retry_count /\ OfThisCall(chip_last)
      /\ chip_in' = chip_in /\ chip_last' = chip_last
      /\ chip_out' \in {chip_out, None}
    BY DEF IInv, ResendReceive, SendingIsSafe, ResendingIsSafe, Read, ReadFails
<1>2. /\ chip_in' \in Content /\ chip_in'.kind # "rsp"
      /\ chip_out' \in Content /\ chip_out'.kind \in {"none", "rsp"}
      /\ chip_out'.kind = "rsp" => chip_out'.status \in Status
    BY <1>1, ContentFacts, FieldFacts DEF IInv, TypeOK
<1>3. InFlightIsNew' /\ AtMostOnce'
    BY <1>1 DEF IInv, InFlightIsNew, AtMostOnce
<1>4. CASE ReadFails /\ \E e \in L1Error : Return(e)
  <2>1. /\ pc' = "idle" /\ ret' \in L1Error /\ startup_req_sent' = FALSE
        /\ buff' = buff
      BY <1>4 DEF Return, ReadFails
  <2>2. ret' # "LT_OK" /\ ret' \in Ret
      BY <2>1 DEF L1Error, Ret
  <2>3. TypeOK'
      BY <1>1, <1>2, <2>1, <2>2 DEF IInv, TypeOK
  <2>4. QED
      BY <1>1, <1>3, <2>1, <2>2, <2>3
         DEF IInv, OkIsAnswered, SendingIsSafe, WaitingForAnswer, ResendingIsSafe
<1>5. CASE Read /\ \E f \in Noise(chip_out) : ResendAnswered(f)
  <2>1. PICK f \in Noise(chip_out) : ResendAnswered(f)
      BY <1>5
  <2>2. /\ chip_out.kind = "rsp" /\ chip_out' = None /\ chip_in = None
        /\ OfThisCall(chip_out)
      BY <1>1, <1>5, FieldFacts DEF Read, IInv, ResendingIsSafe
  <2>3. chip_out \in Content /\ chip_out.crc = "good" /\ chip_out.status \in Status
      BY <2>2, FieldFacts DEF IInv, TypeOK, OfThisCall
  <2>4. f \in Content /\ f.kind = "rsp" /\ f.status \in Status
      BY <2>1, <2>2, <2>3, NoiseFacts
  <2>5. TypeOK
      BY DEF IInv
  <2> DEFINE r == FrameCheck(f)
  <2>6. r \in Ret /\ (r = "LT_OK" => f.status \in CrcChecked /\ f.crc \in {"good", "head"})
      BY <2>4, FrameCheckFacts
  <2>7. CASE RetriesLeft /\ pc' = "resend" /\ buff' = f /\ UNCHANGED <<ret, startup_req_sent>>
    <3>1. TypeOK'
        BY <1>1, <1>2, <2>4, <2>5, <2>7 DEF TypeOK
    <3>2. RetriesLeft' /\ OfThisCall(chip_last)'
        BY <1>1, <2>7 DEF RetriesLeft, OfThisCall
    <3>3. QED
        BY <1>1, <1>3, <2>2, <2>7, <3>1, <3>2
           DEF IInv, OkIsAnswered, SendingIsSafe, WaitingForAnswer, ResendingIsSafe
  <2>8. CASE Return(r) /\ buff' = f
    <3>1. pc' = "idle" /\ ret' = r /\ startup_req_sent' = FALSE
        BY <2>8 DEF Return
    <3>2. r = "LT_OK" => executed[call] = 1 /\ f.kind = "rsp" /\ f.call = call /\ f.crc \in {"good", "head"}
        BY <1>1, <2>1, <2>2, <2>5, <2>6, AcceptedIsAnswer
    <3>3. TypeOK'
        BY <1>1, <1>2, <2>4, <2>5, <2>6, <2>8, <3>1 DEF TypeOK
    <3>4. OkIsAnswered'
        BY <1>1, <2>8, <3>1, <3>2 DEF OkIsAnswered
    <3>5. QED
        BY <1>1, <1>3, <3>1, <3>3, <3>4
           DEF IInv, SendingIsSafe, WaitingForAnswer, ResendingIsSafe
  <2>9. QED
      BY <2>1, <2>7, <2>8 DEF ResendAnswered
<1>6. QED
    BY <1>4, <1>5 DEF ResendReceive
\* The chip preserves it: it executes only what is in flight, once, and its
\* answers are answers to the call the host waits for.
LEMMA ChipIInv == IInv /\ Chip => IInv'
<1> SUFFICES ASSUME IInv, Chip PROVE IInv'
    OBVIOUS
<1>1. /\ UNCHANGED hostVars
      /\ pc' = pc /\ call' = call /\ buff' = buff /\ ret' = ret
      /\ req_buff_backup' = req_buff_backup /\ startup_req_sent' = startup_req_sent
      /\ total_retry_count' = total_retry_count
      /\ chip_in.kind # "none" /\ chip_in' = None
    BY FieldFacts DEF Chip, ChipRefuses, ChipResends, ChipExecutes, ChipRejects,
                      Answer, hostVars
<1>2. TypeOK /\ 0 \in 0..MaxCalls /\ call \in 0..MaxCalls
    BY CallsAssumption DEF IInv, TypeOK
<1>3. {"REQUEST_OK", "GEN_ERR", "UNKNOWN_ERR", "RESP_DISABLED", "CRC_ERR"} \subseteq Status
    BY DEF Status
<1>5. pc # "resend"
    BY <1>1, FieldFacts DEF IInv, ResendingIsSafe
<1>6. pc = "receive" => chip_in \in {Req(call), Corrupt(Req(call))} /\ executed[call] = 0
    BY <1>1, FieldFacts DEF IInv, WaitingForAnswer
<1>7. pc = "resend_receive" => chip_in \in {ResendReq, Corrupt(ResendReq)}
    BY <1>1, FieldFacts DEF IInv, ResendingIsSafe
<1>8. CASE ChipExecutes
  <2> DEFINE c == chip_in.call
  <2>1. /\ chip_in.kind = "req" /\ c \in 1..call /\ c \in Calls /\ executed[c] = 0
        /\ executed' = [executed EXCEPT ![c] = 1]
        /\ chip_out' = Rsp(c, "REQUEST_OK") /\ chip_last' = Rsp(c, "REQUEST_OK")
    <3>1. /\ chip_in.kind = "req" /\ chip_in.crc = "good"
          /\ executed' = [executed EXCEPT ![c] = executed[c] + 1]
          /\ chip_out' = Rsp(c, "REQUEST_OK") /\ chip_last' = Rsp(c, "REQUEST_OK")
        BY <1>8 DEF ChipExecutes, Answer
    <3>2. c \in 1..call /\ executed[c] = 0
        BY <3>1 DEF IInv, InFlightIsNew
    <3>3. c \in Calls
        BY <1>2, <3>2, CallsAssumption DEF Calls
    <3>4. QED
        BY <3>1, <3>2, <3>3
  <2>2. executed' \in [Calls -> Nat] /\ executed'[c] = 1
        /\ \A d \in Calls : d # c => executed'[d] = executed[d]
      BY <1>2, <2>1 DEF TypeOK
  <2>3. TypeOK'
      BY <1>1, <1>2, <1>3, <2>1, <2>2, ContentFacts, FieldFacts DEF TypeOK, Calls
  <2>4. AtMostOnce'
      BY <2>1, <2>2 DEF IInv, AtMostOnce
  <2>5. OkIsAnswered'
    <3>1. pc = "idle" /\ ret = "LT_OK" => call \in Calls /\ executed[call] = 1
        BY DEF IInv, OkIsAnswered
    <3>2. pc = "idle" /\ ret = "LT_OK" => executed'[call] = 1
        BY <2>1, <2>2, <3>1
    <3>3. QED
        BY <1>1, <3>2 DEF IInv, OkIsAnswered
  <2>6. InFlightIsNew'
      BY <1>1, <1>2, <2>1, <2>2, FieldFacts DEF IInv, InFlightIsNew, Calls
  <2>7. pc \in {"idle", "send", "receive"}
      BY <1>2, <1>5, <1>7, <2>1, FieldFacts DEF TypeOK
  <2>8. pc = "receive" => c = call
      BY <1>6, FieldFacts
  <2>9. WaitingForAnswer'
      BY <1>1, <2>1, <2>2, <2>8, FieldFacts DEF WaitingForAnswer, OfThisCall
  <2>10. SendingIsSafe'
    <3>1. pc = "send" => c # call /\ call \in Calls
        BY <2>1 DEF IInv, SendingIsSafe
    <3>2. QED
        BY <1>1, <2>2, <3>1, FieldFacts DEF IInv, SendingIsSafe
  <2>11. ResendingIsSafe'
      BY <1>1, <2>7 DEF ResendingIsSafe
  <2>12. QED
      BY <1>1, <2>3, <2>4, <2>5, <2>6, <2>9, <2>10, <2>11 DEF IInv
<1>9. CASE ChipRefuses \/ ChipResends \/ ChipRejects
  <2>1. executed' = executed
      BY <1>9 DEF ChipRefuses, ChipResends, ChipRejects
  <2>2. AtMostOnce' /\ OkIsAnswered' /\ (ret = "LT_OK" => call \in Calls)'
      BY <1>1, <2>1 DEF IInv, AtMostOnce, OkIsAnswered
  <2>3. InFlightIsNew' /\ SendingIsSafe'
      BY <1>1, <2>1, FieldFacts DEF IInv, InFlightIsNew, SendingIsSafe
  <2>4. ASSUME NEW f, OfThisCall(f) PROVE OfThisCall(f)'
      BY <1>1, <2>1, <2>4 DEF OfThisCall
  <2>5. OfThisCall(Rsp(0, "CRC_ERR"))
      BY DEF OfThisCall
  <2>6. CASE ChipRefuses
    <3>1. chip_out' = Rsp(0, "CRC_ERR") /\ chip_last' \in {chip_last, Rsp(0, "CRC_ERR")}
        BY <2>6 DEF ChipRefuses, Answer
    <3>2. TypeOK'
        BY <1>1, <1>2, <1>3, <2>1, <3>1, ContentFacts, FieldFacts DEF TypeOK
    <3>3. WaitingForAnswer'
        BY <1>1, <1>6, <2>1, <2>4, <2>5, <3>1, FieldFacts DEF WaitingForAnswer
    <3>4. ResendingIsSafe'
      <4>1. pc = "resend_receive" => OfThisCall(chip_last)'
        <5>1. pc = "resend_receive" => OfThisCall(chip_last')
            BY <2>5, <3>1 DEF IInv, ResendingIsSafe
        <5>2. QED
            BY <1>1, <2>1, <5>1 DEF OfThisCall
      <4>2. OfThisCall(chip_out)'
          BY <3>1 DEF OfThisCall
      <4>3. QED
          BY <1>1, <1>5, <4>1, <4>2 DEF ResendingIsSafe
    <3>5. QED
        BY <2>2, <2>3, <3>2, <3>3, <3>4 DEF IInv
  <2>7. CASE ChipResends
    <3>1. chip_out' = chip_last /\ chip_last' = chip_last /\ chip_in = ResendReq
        BY <2>7 DEF ChipResends, Answer
    <3>2. TypeOK'
        BY <1>1, <1>2, <2>1, <3>1, ContentFacts, FieldFacts DEF TypeOK
    <3>3. pc # "receive"
        BY <1>6, <3>1, FieldFacts
    <3>4. WaitingForAnswer'
        BY <1>1, <3>3 DEF WaitingForAnswer
    <3>5. ResendingIsSafe'
        BY <1>1, <1>5, <2>4, <2>1, <3>1 DEF IInv, ResendingIsSafe, OfThisCall
    <3>6. QED
        BY <2>2, <2>3, <3>2, <3>4, <3>5 DEF IInv
  <2>8. CASE ChipRejects
    <3>1. PICK s \in {"GEN_ERR", "UNKNOWN_ERR", "RESP_DISABLED"} :
               chip_out' = Rsp(chip_in.call, s) /\ chip_last' = chip_out'
        BY <2>8 DEF ChipRejects, Answer
    <3>2. chip_in.kind = "req" /\ chip_in.call \in 0..MaxCalls
        BY <2>8, <1>2 DEF ChipRejects, TypeOK, Content
    <3>3. TypeOK'
        BY <1>1, <1>2, <1>3, <2>1, <3>1, <3>2, ContentFacts, FieldFacts DEF TypeOK
    <3>4. pc = "receive" => chip_in.call = call
        BY <1>6, FieldFacts
    <3>5. WaitingForAnswer'
        BY <1>1, <1>6, <2>1, <3>1, <3>4 DEF WaitingForAnswer, OfThisCall
    <3>6. ResendingIsSafe'
        BY <1>1, <1>5, <1>7, <3>2, FieldFacts DEF ResendingIsSafe
    <3>7. QED
        BY <2>2, <2>3, <3>3, <3>5, <3>6 DEF IInv
  <2>9. QED
      BY <1>9, <2>6, <2>7, <2>8
<1>10. QED
    BY <1>8, <1>9 DEF Chip

LEMMA StutterIInv == IInv /\ UNCHANGED vars => IInv'
BY DEF IInv, TypeOK, AtMostOnce, OkIsAnswered, InFlightIsNew, SendingIsSafe,
       WaitingForAnswer, ResendingIsSafe, OfThisCall, RetriesLeft,
       vars, hostVars, chipVars

\* IInv holds in every reachable state.
THEOREM InductiveInvariant == Spec => []IInv
<1>1. IInv /\ [Next]_vars => IInv'
    BY TransferIInv, SendIInv, ReceiveIInv, ResendIInv, ResendReceiveIInv,
       ChipIInv, StutterIInv DEF Next, Host
<1>2. QED
    BY InitIInv, <1>1, PTL DEF Spec

\* The variables keep their types; in particular no call retries more than
\* LT_CRC_ERR_RETRY_ATTEMPTS times.
THEOREM TypeCorrect == Spec => []TypeOK
<1>1. IInv => TypeOK
    BY DEF IInv
<1>2. QED
    BY InductiveInvariant, <1>1, PTL

\* lt_l2_transfer never makes the chip execute a request twice.
THEOREM AtMostOnceHolds == Spec => []AtMostOnce
<1>1. IInv => AtMostOnce
    BY DEF IInv
<1>2. QED
    BY InductiveInvariant, <1>1, PTL

\* When lt_l2_transfer returns LT_OK the chip has executed the request and the
\* buffer holds its response.
THEOREM OkIsAnsweredHolds == Spec => []OkIsAnswered
<1>1. IInv => OkIsAnswered
    BY DEF IInv
<1>2. QED
    BY InductiveInvariant, <1>1, PTL

-----------------------------------------------------------------------------
(* lt_l2_transfer implements AtMostOnceRpc.                                *)

\* Every step maps to a step of AtMostOnceRpc or to a stutter.
LEMMA StepRefines == IInv /\ IInv' /\ [Next]_vars => [Rpc!Next]_(Rpc!vars)
<1> SUFFICES ASSUME IInv, IInv', [Next]_vars PROVE [Rpc!Next]_(Rpc!vars)
    OBVIOUS
<1> USE DEF Rpc!Next, Rpc!vars
<1>1. CASE Transfer
    BY <1>1 DEF Transfer, chipVars, Rpc!Begin
<1>2. CASE Host
  <2>1. /\ pc # "idle" /\ call' = call /\ executed' = executed
        /\ \/ pc' # "idle" /\ ret' = ret
           \/ pc' = "idle"
      BY <1>2 DEF Host, Send, Receive, Resend, ResendReceive, Write, WriteFails,
                  Read, ReadFails, Answered, ResendAnswered, Retry, Return
  <2>2. ret' = "LT_OK" /\ pc' = "idle" => executed'[call'] = 1
      BY DEF IInv, OkIsAnswered
  <2>3. QED
      BY <2>1, <2>2 DEF Rpc!Finish
<1>3. CASE ChipExecutes
  <2>1. chip_in.call \in 1..call /\ executed[chip_in.call] = 0
      BY <1>3 DEF ChipExecutes, IInv, InFlightIsNew
  <2>2. chip_in.call \in 1..MaxCalls /\ chip_in.call <= call
      BY <2>1, CallsAssumption DEF IInv, TypeOK
  <2>3. /\ executed' = [executed EXCEPT ![chip_in.call] = 1]
        /\ UNCHANGED <<call, pc, ret>>
      BY <1>3, <2>1 DEF ChipExecutes, hostVars
  <2>4. QED
      BY <2>1, <2>2, <2>3 DEF Rpc!Execute
<1>4. CASE ChipRefuses \/ ChipResends \/ ChipRejects
    BY <1>4 DEF ChipRefuses, ChipResends, ChipRejects, hostVars
<1>5. CASE UNCHANGED vars
    BY <1>5 DEF vars, hostVars, chipVars
<1>6. QED
    BY <1>1, <1>2, <1>3, <1>4, <1>5 DEF Next, Chip

\* The refinement: libtropic.c may treat lt_l2_transfer as the call of AtMostOnceRpc.
THEOREM Implementation == Spec => ImplementsRpc
<1>1. Init => Rpc!Init
    BY DEF Init, Rpc!Init, Calls
<1>2. QED
    BY <1>1, StepRefines, InductiveInvariant, PTL DEF Spec, ImplementsRpc, Rpc!Spec

-----------------------------------------------------------------------------
(* That a call returns is liveness, and TLC's.  What keeps it from going on *)
(* for ever is not: every read and write leaves fewer to come.             *)

\* How many reads and writes the call under way has left at most.
TransfersLeft ==
    LET left == 2 * (LT_CRC_ERR_RETRY_ATTEMPTS - total_retry_count) IN
    [idle |-> 0, send |-> left + 2, receive |-> left + 1,
     resend |-> left, resend_receive |-> left + 1][pc]

LEMMA TransfersLeftValues ==
    ASSUME TypeOK
    PROVE  LET left == 2 * (LT_CRC_ERR_RETRY_ATTEMPTS - total_retry_count) IN
           /\ left \in Nat /\ left <= 2 * LT_CRC_ERR_RETRY_ATTEMPTS
           /\ pc = "idle" => TransfersLeft = 0
           /\ pc = "send" => TransfersLeft = left + 2
           /\ pc \in {"receive", "resend_receive"} => TransfersLeft = left + 1
           /\ pc = "resend" => TransfersLeft = left
BY AttemptsAssumption DEF TypeOK, TransfersLeft

\* A call makes 2 * LT_CRC_ERR_RETRY_ATTEMPTS + 2 reads and writes at most, 8
\* with the attempts of libtropic_l2.c.
LEMMA TransfersLeftBound ==
    TypeOK => TransfersLeft \in 0..(2 * LT_CRC_ERR_RETRY_ATTEMPTS + 2)
BY TransfersLeftValues, AttemptsAssumption DEF TypeOK

LEMMA HostDescends == IInv /\ IInv' /\ Host => TransfersLeft' < TransfersLeft
<1> SUFFICES ASSUME IInv, IInv', Host
             PROVE  TransfersLeft' < TransfersLeft
    OBVIOUS
<1> DEFINE left == 2 * (LT_CRC_ERR_RETRY_ATTEMPTS - total_retry_count)
<1>1. /\ TypeOK /\ TypeOK'
      /\ pc = "resend" => RetriesLeft
    BY DEF IInv, ResendingIsSafe
<1>2. /\ left \in Nat
      /\ pc = "send" => TransfersLeft = left + 2
      /\ pc \in {"receive", "resend_receive"} => TransfersLeft = left + 1
      /\ pc = "resend" => TransfersLeft = left
    BY <1>1, TransfersLeftValues
<1>3. /\ pc' = "idle" => TransfersLeft' = 0
      /\ pc' = "send" => TransfersLeft' = left' + 2
      /\ pc' \in {"receive", "resend_receive"} => TransfersLeft' = left' + 1
      /\ pc' = "resend" => TransfersLeft' = left'
    BY <1>1 DEF TypeOK, TransfersLeft
<1>4. /\ total_retry_count \in Nat /\ LT_CRC_ERR_RETRY_ATTEMPTS \in Nat
      /\ pc = "resend" => left >= 2
    BY <1>1, AttemptsAssumption DEF TypeOK, RetriesLeft
<1>5. CASE Send
  <2>1. pc = "send" /\ left' = left /\ pc' \in {"receive", "idle"}
      BY <1>5 DEF Send, Return
  <2>2. QED
      BY <2>1, <1>2, <1>3
<1>6. CASE Receive
  <2>1. /\ pc = "receive"
        /\ \/ pc' = "idle"
           \/ pc' = "resend" /\ left' = left
           \/ pc' = "send" /\ left' = left - 2
      BY <1>6, <1>4 DEF Receive, Answered, Retry, Return
  <2>2. QED
      BY <2>1, <1>2, <1>3
<1>7. CASE Resend
  <2>1. pc = "resend" /\ left' = left - 2 /\ pc' \in {"resend_receive", "idle"}
      BY <1>7, <1>4 DEF Resend, Return
  <2>2. QED
      BY <2>1, <1>2, <1>3, <1>4
<1>8. CASE ResendReceive
  <2>1. pc = "resend_receive" /\ left' = left /\ pc' \in {"resend", "idle"}
      BY <1>8 DEF ResendReceive, ResendAnswered, Return
  <2>2. QED
      BY <2>1, <1>2, <1>3
<1>9. QED
    BY <1>5, <1>6, <1>7, <1>8 DEF Host

\* Every read or write of lt_l2_transfer leaves fewer to come, whatever the line
\* and the chip do, and what the chip does leaves as many.
TransfersRunOut ==
    [][(Host => TransfersLeft' < TransfersLeft) /\ (Chip => TransfersLeft' = TransfersLeft)]_vars

THEOREM TransfersRunOutHolds ==
    Spec => [](TransfersLeft \in 0..(2 * LT_CRC_ERR_RETRY_ATTEMPTS + 2)) /\ TransfersRunOut
<1>1. IInv => TransfersLeft \in 0..(2 * LT_CRC_ERR_RETRY_ATTEMPTS + 2)
    BY TransfersLeftBound DEF IInv
<1>2. Chip => TransfersLeft' = TransfersLeft
    BY DEF Chip, ChipRefuses, ChipResends, ChipExecutes, ChipRejects, hostVars, TransfersLeft
<1>3. IInv /\ IInv' =>
          [(Host => TransfersLeft' < TransfersLeft)
             /\ (Chip => TransfersLeft' = TransfersLeft)]_vars
    BY <1>2, HostDescends
<1>4. QED
    BY <1>1, <1>3, InductiveInvariant, PTL DEF TransfersRunOut

-----------------------------------------------------------------------------
(* Layer 1.                                                                *)

\* Types of Layer 1 and the released bus are inductive together.
L1IInv == L1TypeOK /\ BusReleased

LEMMA L1InitHolds == L1Init => L1IInv
<1> SUFFICES ASSUME L1Init
             PROVE  L1IInv
    OBVIOUS
<1>1. l1pc = "out" /\ cs = "high" /\ max_tries = 0 /\ l1_ret = "LT_OK" /\ lost = FALSE
    BY DEF L1Init
<1>2. 0 \in 0..LT_L1_READ_MAX_TRIES
    BY TriesAssumption
<1>3. lost \in BOOLEAN
    BY <1>1
<1>4. QED
    BY <1>1, <1>2, <1>3, Zenon DEF L1IInv, L1TypeOK, BusReleased

\* Every way out of a transfer passes through csn_high.
LEMMA L1ReturnPreserves ==
    ASSUME L1IInv, NEW r \in L1Error \cup {"LT_OK"}, L1Return(r)
    PROVE  L1IInv'
BY DEF L1Return, L1IInv, L1TypeOK, BusReleased

\* Layer 1's own steps.
LEMMA L1StepPreserves == L1IInv /\ L1Step => L1IInv'
<1> SUFFICES ASSUME L1IInv, L1Step
             PROVE  L1IInv'
    OBVIOUS
<1> USE TriesAssumption DEF L1IInv, L1TypeOK, BusReleased
<1>1. CASE WriteCalled
    BY <1>1 DEF WriteCalled
<1>2. CASE ReadCalled
    BY <1>2 DEF ReadCalled
<1>3. CASE SpiFails
    BY <1>3, L1ReturnPreserves DEF SpiFails, L1Error
<1>4. CASE Written
    BY <1>4, L1ReturnPreserves DEF Written
<1>5. CASE GetResponse
    BY <1>5 DEF GetResponse
<1>6. CASE ChipBusy
    BY <1>6 DEF ChipBusy, L1Error
<1>7. CASE AlarmSeen
    BY <1>7, L1ReturnPreserves DEF AlarmSeen, L1Error
<1>8. CASE ReadySeen
    BY <1>8 DEF ReadySeen
<1>9. CASE NotReady
    BY <1>9 DEF NotReady, PollAgain
<1>10. CASE NoResponse
    BY <1>10 DEF NoResponse, PollAgain
<1>11. CASE TooLong
    BY <1>11, L1ReturnPreserves DEF TooLong, L1Error
<1>12. CASE HeaderRead
    BY <1>12 DEF HeaderRead
<1>13. CASE BodyRead
    BY <1>13, L1ReturnPreserves DEF BodyRead
<1>14. QED
    BY <1>1, <1>2, <1>3, <1>4, <1>5, <1>6, <1>7, <1>8, <1>9, <1>10, <1>11, <1>12,
       <1>13 DEF L1Step

LEMMA L1NextPreserves == L1IInv /\ [L1Next]_allVars => L1IInv'
<1> SUFFICES ASSUME L1IInv, [L1Next]_allVars
             PROVE  L1IInv'
    OBVIOUS
<1>1. CASE L1Step
    BY <1>1, L1StepPreserves
<1>2. CASE L1Returned
    BY <1>2 DEF L1Returned, L1IInv, L1TypeOK, BusReleased
<1>3. CASE UNCHANGED l1Vars
    BY <1>3 DEF l1Vars, L1IInv, L1TypeOK, BusReleased
<1>4. QED
    BY <1>1, <1>2, <1>3 DEF L1Next, L1Host, allVars

\* However a read or a write ends, with whatever failing on the way, lt_l1_read
\* and lt_l1_write leave CS high, and so does every wait between two polls.
THEOREM BusReleasedHolds == L1Spec => []BusReleased
<1>1. L1IInv => BusReleased
    BY DEF L1IInv
<1>2. QED
    BY <1>1, L1InitHolds, L1NextPreserves, PTL DEF L1Spec

-----------------------------------------------------------------------------
\* A step with Layer 1 is a step of L2Transfer or none.
LEMMA L1NextImplements == [L1Next]_allVars => [Next]_vars
<1> SUFFICES ASSUME [L1Next]_allVars
             PROVE  [Next]_vars
    OBVIOUS
<1>1. CASE L1Returned
    BY <1>1 DEF L1Returned, Next
<1>2. CASE L1Next /\ ~L1Returned
    BY <1>2 DEF L1Next, L1Host, Next
<1>3. CASE UNCHANGED allVars
    BY <1>3 DEF allVars
<1>4. QED
    BY <1>1, <1>2, <1>3

\* lt_l1_read and lt_l1_write do what L2Transfer takes them to do, although the
\* chip works on between their transfers.
THEOREM L1Implementation == L1Spec => Spec
<1>1. L1Init => Init
    BY DEF L1Init
<1>2. QED
    BY <1>1, L1NextImplements, PTL DEF L1Spec, Spec

\* So no request is executed twice with polling and chip select in the picture.
THEOREM L1AtMostOnce == L1Spec => []AtMostOnce
BY L1Implementation, AtMostOnceHolds, PTL

\* And LT_OK still comes with the response to this request.
THEOREM L1OkIsAnswered == L1Spec => []OkIsAnswered
BY L1Implementation, OkIsAnsweredHolds, PTL
-----------------------------------------------------------------------------
(* A read ends because every poll uses up one of the tries.                *)

\* How many steps Layer 1 has left at most before it returns.
L1StepsLeft ==
    [out |-> 4 * LT_L1_READ_MAX_TRIES + 2, write |-> 1,
     poll |-> 4 * max_tries + 1, status |-> 4 * max_tries + 4,
     header |-> 4 * max_tries + 3, body |-> 4 * max_tries + 2,
     return |-> 0][l1pc]

LEMMA L1StepDescends == L1IInv /\ L1IInv' /\ L1Step => L1StepsLeft' < L1StepsLeft
<1> SUFFICES ASSUME L1IInv, L1IInv', L1Step
             PROVE  L1StepsLeft' < L1StepsLeft
    OBVIOUS
<1>1. max_tries \in Nat /\ max_tries' \in Nat /\ LT_L1_READ_MAX_TRIES \in Nat
    BY TriesAssumption DEF L1IInv, L1TypeOK
<1>2. CASE l1pc' = "return"
  <2>1. L1StepsLeft' = 0
      BY <1>2 DEF L1StepsLeft
  <2>2. l1pc \in {"write", "poll", "status", "header", "body"}
      BY <1>2 DEF L1Step, WriteCalled, ReadCalled, SpiFails, Written, GetResponse, ChipBusy,
                  AlarmSeen, ReadySeen, NotReady, NoResponse, TooLong, HeaderRead, BodyRead,
                  PollAgain
  <2>3. L1StepsLeft > 0
      BY <2>2, <1>1 DEF L1StepsLeft
  <2>4. QED
      BY <2>1, <2>3
<1>3. CASE l1pc' # "return"
  <2>1. \/ l1pc = "out" /\ l1pc' = "write"
        \/ l1pc = "out" /\ l1pc' = "poll" /\ max_tries' = LT_L1_READ_MAX_TRIES
        \/ l1pc = "poll" /\ l1pc' = "status" /\ max_tries' = max_tries - 1
        \/ l1pc = "status" /\ l1pc' \in {"header", "poll"} /\ max_tries' = max_tries
        \/ l1pc = "header" /\ l1pc' \in {"body", "poll"} /\ max_tries' = max_tries
      BY <1>3 DEF L1Step, WriteCalled, ReadCalled, SpiFails, Written, GetResponse, ChipBusy,
                  AlarmSeen, ReadySeen, NotReady, NoResponse, TooLong, HeaderRead, BodyRead,
                  PollAgain, L1Return
  <2>2. QED
      BY <2>1, <1>1 DEF L1StepsLeft
<1>4. QED
    BY <1>2, <1>3

\* Every step of the host brings Layer 1 nearer to its return, or, when Layer 1
\* has returned, Layer 2 nearer to its own: a chip that stays busy, raises no
\* flag or answers nothing but noise cannot hold the main loop for ever.
L1RunsOut ==
    [][L1Host => \/ TransfersLeft' < TransfersLeft
                 \/ TransfersLeft' = TransfersLeft /\ L1StepsLeft' < L1StepsLeft]_allVars

THEOREM L1RunsOutHolds ==
    L1Spec => [](TransfersLeft \in Nat /\ L1StepsLeft \in Nat) /\ L1RunsOut
<1>1. IInv => TransfersLeft \in Nat
    BY TransfersLeftBound, AttemptsAssumption DEF IInv
<1>2. L1IInv => L1StepsLeft \in Nat
    BY TriesAssumption DEF L1IInv, L1TypeOK, L1StepsLeft
<1>3. L1Step /\ UNCHANGED vars => TransfersLeft' = TransfersLeft
    BY DEF vars, hostVars, TransfersLeft
<1>4. IInv /\ IInv' /\ L1Returned => TransfersLeft' < TransfersLeft
    BY HostDescends DEF L1Returned
<1>5. IInv /\ IInv' /\ L1IInv /\ L1IInv' =>
          [L1Host => \/ TransfersLeft' < TransfersLeft
                     \/ TransfersLeft' = TransfersLeft /\ L1StepsLeft' < L1StepsLeft]_allVars
    BY <1>3, <1>4, L1StepDescends DEF L1Host
<1>6. L1Spec => []L1IInv
    BY L1InitHolds, L1NextPreserves, PTL DEF L1Spec
<1>7. L1Spec => []IInv
    BY L1Implementation, InductiveInvariant, PTL
<1>8. QED
    BY <1>1, <1>2, <1>5, <1>6, <1>7, PTL DEF L1RunsOut
=============================================================================
