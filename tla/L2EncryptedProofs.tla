-------------------------- MODULE L2EncryptedProofs --------------------------
(***************************************************************************)
(* TLAPS proofs about L2Encrypted, for every size of packets, chunks and   *)
(* results, every number of calls and of retries, and every kind of line   *)
(* noise GarbledAssumption allows.                                         *)
(***************************************************************************)
EXTENDS L2Encrypted, TLAPS, SequenceTheorems

-----------------------------------------------------------------------------
(* The arithmetic of chunks.                                               *)

\* A larger factor makes no smaller product.
LEMMA Product ==
    ASSUME NEW a \in Nat, NEW b \in Nat, a <= b, NEW m \in Nat
    PROVE  a * m <= b * m
<1>1. PICK d \in Nat : b = a + d
    <2>1. b - a \in Nat /\ b = a + (b - a)
        OBVIOUS
    <2>2. QED
        BY <2>1
<1>2. b * m = a * m + d * m /\ a * m \in Nat /\ d * m \in Nat
    BY <1>1
<1>3. QED
    BY <1>2

\* A packet has at least one chunk.
LEMMA ChunkCount ==
    ASSUME NEW n \in Nat \ {0}
    PROVE  (n + ChunkMax - 1) \div ChunkMax \in Nat \ {0}
<1> DEFINE m == n + ChunkMax - 1
<1>1. ChunkMax \in Nat \ {0} /\ m \in Nat /\ ChunkMax <= m
    BY SizesAssumption
<1>2. PICK q \in Nat : q = m \div ChunkMax
    BY <1>1
<1>3. m < q * ChunkMax + ChunkMax
    BY <1>1, <1>2
<1>4. q # 0
    BY <1>1, <1>3
<1>5. QED
    BY <1>2, <1>4

\* A chunk is not empty and not longer than the longest; the chunks before the
\* last are full, and the last one ends where the packet ends.
LEMMA ChunkArithmetic ==
    ASSUME size \in Nat \ {0}, i \in Nat, i < chunk_num, buff_offset = i * ChunkMax
    PROVE  /\ chunk_num \in Nat \ {0}
           /\ buff_offset \in Nat
           /\ req_len \in 1..ChunkMax
           /\ buff_offset + req_len <= size
           /\ buff_offset + req_len = size <=> i = chunk_num - 1
           /\ i # chunk_num - 1 => buff_offset + req_len = (i + 1) * ChunkMax
<1> DEFINE m == size + ChunkMax - 1
<1>1. ChunkMax \in Nat \ {0} /\ m \in Nat
    BY SizesAssumption
<1>2. PICK q \in Nat : q = chunk_num
    BY <1>1 DEF chunk_num
<1>3. q * ChunkMax <= m /\ m < q * ChunkMax + ChunkMax
    BY <1>1, <1>2 DEF chunk_num
<1>4. q \in Nat \ {0}
    BY <1>2
<1>5. (q - 1) * ChunkMax = q * ChunkMax - ChunkMax /\ q * ChunkMax \in Nat
    BY <1>1, <1>4
<1>6. (i + 1) * ChunkMax = buff_offset + ChunkMax /\ buff_offset \in Nat
    BY <1>1
<1>7. CASE i = q - 1
  <2>1. req_len = size - buff_offset
      BY <1>7, <1>2 DEF req_len, last_chunk_len
  <2>2. size - buff_offset \in 1..ChunkMax
      BY <1>7, <1>5, <1>3, <1>1, <1>6
  <2>3. QED
      BY <2>1, <2>2, <1>7, <1>2, <1>6, <1>4
<1>8. CASE i # q - 1
  <2>1. req_len = ChunkMax
      BY <1>8, <1>2 DEF req_len
  <2>2. (i + 1) * ChunkMax <= (q - 1) * ChunkMax
      BY <1>8, <1>2, <1>4, <1>1, Product, i + 1 \in Nat, q - 1 \in Nat, i + 1 <= q - 1
  <2>3. buff_offset + ChunkMax < size
      BY <2>2, <1>6, <1>5, <1>3, <1>1
  <2>4. QED
      BY <2>1, <2>3, <1>8, <1>6, <1>2, <1>4, <1>1
<1>9. QED
    BY <1>7, <1>8

-----------------------------------------------------------------------------
(* Cells.                                                                  *)

LEMMA CellsFacts ==
    ASSUME NEW c \in 0..MaxCalls, NEW n \in Nat
    PROVE  /\ Cells(c, n) \in Seq(Cell)
           /\ Len(Cells(c, n)) = n
           /\ \A k \in 1..n : Cells(c, n)[k] = [call |-> c, pos |-> k, of |-> n]
<1>1. \A k \in 1..n : [call |-> c, pos |-> k, of |-> n] \in Cell
    BY DEF Cell
<1>2. Cells(c, n) \in [1..n -> Cell]
    BY <1>1 DEF Cells
<1>3. Cells(c, n) \in Seq(Cell)
    BY <1>2
<1>4. DOMAIN Cells(c, n) = 1..n
    BY DEF Cells
<1>5. QED
    BY <1>3, <1>4 DEF Cells

LEMMA NoiseCellsFacts ==
    ASSUME NEW n \in Nat
    PROVE  NoiseCells(n) \in Seq(Cell)
<1>1. [call |-> 0, pos |-> 0, of |-> 0] \in Cell
    BY SizesAssumption DEF Cell
<1>2. NoiseCells(n) \in [1..n -> Cell]
    BY <1>1 DEF NoiseCells
<1>3. QED
    BY <1>2

\* The chunk the host sends: the next cells of its packet.
LEMMA CurrentChunkFacts ==
    ASSUME call \in Calls, size \in Nat \ {0}, i \in Nat, i < chunk_num,
           buff_offset = i * ChunkMax
    PROVE  LET d == CurrentChunk.data IN
           /\ CurrentChunk = Chunk(d)
           /\ d \in Seq(Cell)
           /\ Len(d) = req_len
           /\ ChunkOf(d, call, buff_offset + req_len, size)
<1>1. /\ buff_offset \in Nat /\ req_len \in Nat \ {0} /\ buff_offset + req_len <= size
      /\ call \in 0..MaxCalls
    BY ChunkArithmetic DEF Calls
<1> DEFINE p == Cells(call, size)
           d == SubSeq(p, buff_offset + 1, buff_offset + req_len)
<1>2. /\ p \in Seq(Cell) /\ Len(p) = size
      /\ \A k \in 1..size : p[k] = [call |-> call, pos |-> k, of |-> size]
    BY <1>1, CellsFacts
<1>3. CurrentChunk = Chunk(d) /\ CurrentChunk.data = d
    BY DEF CurrentChunk, Chunk
<1> HIDE DEF p
<1>4. /\ d \in Seq(Cell) /\ Len(d) = req_len
      /\ \A k \in 1..req_len : d[k] = p[buff_offset + k]
  <2>1. \A k \in buff_offset + 1 .. buff_offset + req_len : p[k] \in Cell
      BY <1>1, <1>2, ElementOfSeq
  <2>2. QED
      BY <2>1, <1>1, SubSeqProperties
<1> HIDE DEF d
<1>5. d # <<>>
    BY <1>4, <1>1
<1>6. ASSUME NEW k \in 1..Len(d)
      PROVE  d[k] = [call |-> call, pos |-> (buff_offset + req_len) - Len(d) + k, of |-> size]
  <2>1. d[k] = p[buff_offset + k] /\ buff_offset + k \in 1..size
      BY <1>1, <1>4
  <2>2. (buff_offset + req_len) - Len(d) + k = buff_offset + k
      BY <1>1, <1>4
  <2>3. QED
      BY <2>1, <2>2, <1>2
<1>7. ChunkOf(d, call, buff_offset + req_len, size)
    BY <1>5, <1>6 DEF ChunkOf
<1>8. QED
    BY <1>3, <1>4, <1>7

-----------------------------------------------------------------------------
(* Frames.                                                                 *)

\* lt_l2_frame_check's table: each of these is returned for that status only.
LEMMA StatusRetFacts ==
    ASSUME NEW s \in Status
    PROVE  /\ StatusRet[s] \in Ret
           /\ StatusRet[s] = "LT_OK" <=> s \in CrcChecked
           /\ StatusRet[s] = "LT_L2_CRC_ERR" <=> s = "CRC_ERR"
           /\ StatusRet[s] = "LT_L2_REQ_CONT" <=> s = "REQUEST_CONT"
           /\ StatusRet[s] = "LT_L2_RES_CONT" <=> s = "RESULT_CONT"
           /\ StatusRet[s] \notin {"LT_L2_IN_CRC_ERR", "LT_L2_RSP_LEN_ERROR"}
<1>1. StatusRet[s] \in Ret
    BY DEF Ret
<1>2. QED
    BY <1>1 DEF StatusRet, Status, CrcChecked

\* A frame as the host may read it.
Frame == [kind : {"rsp"}, status : Status, crc : Crc, data : Seq(Cell)]

\* What the host concludes from a frame's check.
LEMMA FrameCheckFacts ==
    ASSUME NEW f \in Frame
    PROVE  /\ FrameCheck(f) \in Ret
           /\ FrameCheck(f) = "LT_OK" => f.status \in CrcChecked /\ f.crc = "good"
           /\ FrameCheck(f) = "LT_L2_REQ_CONT" => f.status = "REQUEST_CONT"
           /\ FrameCheck(f) = "LT_L2_RES_CONT" => f.status = "RESULT_CONT" /\ f.crc # "long"
           /\ FrameCheck(f) = "LT_L2_CRC_ERR" => f.status = "CRC_ERR"
           /\ FrameCheck(f) = "LT_L2_IN_CRC_ERR" => f.status \in CrcChecked /\ f.crc # "good"
<1>1. {"LT_L2_IN_CRC_ERR", "LT_L2_RSP_LEN_ERROR"} \subseteq Ret
    BY DEF Ret
<1>2. {"CRC_ERR", "REQUEST_CONT", "RESULT_CONT"} \cap CrcChecked = {} /\ f.status \in Status
    BY DEF CrcChecked, Frame
<1>3. QED
    BY <1>1, <1>2, StatusRetFacts DEF FrameCheck

\* Line noise leaves a frame a frame and makes no wrong CRC right; it cannot
\* cross between CRC_ERR and the statuses by which the host moves on.
LEMMA NoiseFacts ==
    ASSUME NEW f \in Response, NEW g \in AtHost(f)
    PROVE  /\ g \in Frame
           /\ g.crc = "good" => g = f
           /\ g.crc # "bad" => g.status = f.status
           /\ g.status = "CRC_ERR" => f.status \notin MoveOn
           /\ g.status \in MoveOn => f.status # "CRC_ERR"
           /\ g.crc \in {"good", "bad", "long"}
<1>1. /\ f.kind = "rsp" /\ f.status \in Status /\ f.crc = "good" /\ f.data \in Seq(Cell)
      /\ f \in Frame
    BY DEF Response, Frame, Crc
<1>2. "CRC_ERR" \notin MoveOn
    BY DEF MoveOn, CrcChecked
<1>3. CASE g = f
    BY <1>3, <1>1, <1>2
<1>4. CASE g = [f EXCEPT !.crc = "long", !.data = <<>>]
  <2>1. g = [kind |-> "rsp", status |-> f.status, crc |-> "long", data |-> <<>>]
      BY <1>4, <1>1 DEF Response
  <2>2. "long" \in Crc /\ <<>> \in Seq(Cell)
      BY DEF Crc
  <2>3. g.crc = "long" /\ g.status = f.status /\ g \in Frame
      BY <2>1, <2>2, <1>1 DEF Frame
  <2>4. QED
      BY <2>3, <1>2
<1>5. ASSUME NEW s \in (Garbled[f.status] \cup {f.status}) \ {"NO_RESP"}, NEW n \in 0..ChunkMax,
             g = Noisy(f, s, n)
      PROVE  /\ g \in Frame /\ g.crc = "bad"
             /\ g.status = "CRC_ERR" => f.status \notin MoveOn
             /\ g.status \in MoveOn => f.status # "CRC_ERR"
  <2>1. s \in Status
      BY <1>1, GarbledAssumption
  <2>2. g = [kind |-> "rsp", status |-> s, crc |-> "bad", data |-> NoiseCells(n)]
      BY <1>5, <1>1 DEF Response, Noisy
  <2>3. "bad" \in Crc /\ NoiseCells(n) \in Seq(Cell)
      BY SizesAssumption, NoiseCellsFacts DEF Crc
  <2>4. g \in Frame /\ g.crc = "bad" /\ g.status = s
      BY <2>1, <2>2, <2>3 DEF Frame
  <2>5. s = f.status \/ s \in Garbled[f.status]
      OBVIOUS
  <2>6. s = "CRC_ERR" => f.status \notin MoveOn
      BY <2>5, <1>2, GarbledAssumption
  <2>7. s \in MoveOn => f.status # "CRC_ERR"
      BY <2>5, <1>2, GarbledAssumption
  <2>8. QED
      BY <2>4, <2>6, <2>7
<1>6. QED
    BY <1>3, <1>4, <1>5 DEF AtHost

\* The frames the actions put on the line.
LEMMA MessageFacts ==
    /\ None.kind = "none"
    /\ ResendReq \in Request /\ ResendReq.kind = "resend"
    /\ \A d \in Seq(Cell) : /\ Chunk(d) \in Request /\ Chunk(d).kind = "req"
                            /\ Chunk(d).crc = "good" /\ Chunk(d).data = d
    /\ \A s \in Status, d \in Seq(Cell) :
          Rsp(s, d) \in Response /\ Rsp(s, d).kind = "rsp" /\ Rsp(s, d).status = s
            /\ Rsp(s, d).data = d
<1>1. <<>> \in Seq(Cell)
    OBVIOUS
<1>2. QED
    BY <1>1 DEF None, ResendReq, Chunk, Rsp, Request, Response

\* A request as the chip may receive it is whole or recognisably corrupted.
LEMMA AtChipFacts ==
    ASSUME NEW q \in Request, NEW g \in AtChip(q)
    PROVE  /\ g \in Request /\ g.kind = q.kind
           /\ g = q \/ g.crc = "bad"
<1>1. CASE g = q
    BY <1>1
<1>2. CASE g = Noisy(q, q.status, 0)
  <2>1. NoiseCells(0) \in Seq(Cell)
      BY NoiseCellsFacts
  <2>2. g = [kind |-> q.kind, status |-> q.status, crc |-> "bad", data |-> NoiseCells(0)]
      BY <1>2 DEF Request, Noisy
  <2>3. QED
      BY <2>1, <2>2 DEF Request
<1>3. QED
    BY <1>1, <1>2 DEF AtChip

-----------------------------------------------------------------------------
(* What the parts of the invariant say about sequences.                    *)

\* A chunk is known by its last cell.
LEMMA ChunkEnd ==
    ASSUME NEW d \in Seq(Cell), NEW c, NEW b \in Int, NEW n, ChunkOf(d, c, b, n)
    PROVE  /\ Len(d) \in Nat \ {0}
           /\ d[Len(d)] = [call |-> c, pos |-> b, of |-> n]
           /\ d[Len(d)].call = c /\ d[Len(d)].pos = b /\ d[Len(d)].of = n
<1>1. Len(d) \in Nat \ {0}
    BY EmptySeq DEF ChunkOf
<1>2. d[Len(d)] = [call |-> c, pos |-> b - Len(d) + Len(d), of |-> n]
    BY <1>1 DEF ChunkOf
<1>3. b - Len(d) + Len(d) = b
    BY <1>1
<1>4. QED
    BY <1>1, <1>2, <1>3

\* The chip holds the cells of this call up to b; with the chunk behind b it
\* holds them up to the chunk's end.
LEMMA HeldChunk ==
    ASSUME chip_packet \in Seq(Cell), NEW d \in Seq(Cell), NEW b \in Nat, NEW n,
           Held(b), ChunkOf(d, call, b + Len(d), n), chip_packet' = chip_packet \o d,
           call' = call
    PROVE  Held(b + Len(d))'
<1> DEFINE l == Len(chip_packet)
           m == Len(d)
<1>1. /\ l \in Nat /\ m \in Nat /\ Len(chip_packet') = l + m
      /\ \A k \in 1..l + m : chip_packet'[k] = IF k <= l THEN chip_packet[k] ELSE d[k - l]
    BY ConcatProperties, LenProperties
<1>2. ASSUME NEW k \in 1..l + m, chip_packet'[k].call = call
      PROVE  chip_packet'[k].pos = b + m - (l + m) + k
  <2>1. CASE k <= l
    <3>1. k \in 1..l /\ chip_packet'[k] = chip_packet[k]
        BY <1>1, <2>1
    <3>2. chip_packet[k].pos = b - l + k
        BY <3>1, <1>2 DEF Held
    <3>3. b - l + k = b + m - (l + m) + k
        BY <1>1, <3>1
    <3>4. QED
        BY <3>1, <3>2, <3>3
  <2>2. CASE ~(k <= l)
    <3>1. k - l \in 1..m /\ chip_packet'[k] = d[k - l]
        BY <1>1, <2>2
    <3>2. d[k - l] = [call |-> call, pos |-> (b + m) - m + (k - l), of |-> n]
        BY <3>1 DEF ChunkOf
    <3>3. (b + m) - m + (k - l) = b + m - (l + m) + k
        BY <1>1
    <3>4. d[k - l].pos = (b + m) - m + (k - l)
        BY <3>2
    <3>5. QED
        BY <3>1, <3>4, <3>3
  <2>3. QED
      BY <2>1, <2>2
<1>3. QED
    BY <1>1, <1>2 DEF Held

\* The lengths of chunks depend on nothing but the packet and the count.
LEMMA SameChunk ==
    /\ size' = size => chunk_num' = chunk_num
    /\ size' = size /\ i' = i => req_len' = req_len
BY DEF chunk_num, req_len, last_chunk_len

-----------------------------------------------------------------------------
(* Each action preserves the inductive invariant.                          *)

LEMMA InitIInv == Init => IInv
<1> SUFFICES ASSUME Init PROVE IInv
    OBVIOUS
<1>1. "LT_L1_CHIP_BUSY" \in Ret /\ "NO_RESP" \in Status
    BY DEF Ret, L1Error, Status
<1>2. /\ 0 \in 0..MaxCalls /\ 0 \in 0..LT_CRC_ERR_RETRY_ATTEMPTS /\ 0 \in 0..RecvMaxChunks
      /\ 0 \in Nat /\ PacketMax \in Nat
    BY SizesAssumption
<1>3. <<>> \in Seq(Cell) /\ Len(<<>>) = 0
    OBVIOUS
<1>4. /\ chip_in = None /\ chip_out = None /\ chip_last \in Response
      /\ executed \in [Calls -> Nat] /\ \A c \in Calls : executed[c] = 0
    BY <1>1, <1>3, MessageFacts DEF Init
<1>5. TypeOK
    BY <1>1, <1>2, <1>3, <1>4 DEF Init, TypeOK
<1>6. InFlight /\ Answers
    BY <1>4, MessageFacts DEF InFlight, Answers
<1>7. QED
    BY <1>2, <1>3, <1>4, <1>5, <1>6
       DEF Init, IInv, Once, Known, Sending, Acknowledged, Receiving, ResultWhole, FitsBuffer

\* A call that returns with an error leaves behind at most a chunk in flight.
LEMMA Returned ==
    ASSUME IInv, pc' = "idle", ret' # "LT_OK", TypeOK', InFlight', Answers',
           UNCHANGED <<call, chip_packet, executed, received>>
    PROVE  IInv'
<1>1. Once' /\ Known' /\ FitsBuffer'
    BY DEF IInv, Once, Known, FitsBuffer
<1>2. Sending' /\ Acknowledged' /\ Receiving' /\ ResultWhole'
    BY DEF Sending, Acknowledged, Receiving, ResultWhole
<1>3. QED
    BY <1>1, <1>2 DEF IInv

LEMMA LtCommandStep == ASSUME IInv, LtCommand PROVE IInv'
<1>1. /\ call \in Nat /\ call' = call + 1 /\ call' \in Calls /\ call' \in 0..MaxCalls
      /\ size' \in CmdSizes /\ size' \in Nat \ {0}
      /\ i' = 0 /\ buff_offset' = 0 /\ received' = <<>> /\ ~damaged' /\ pc' = "check"
      /\ frame_resend_counter' = 0 /\ chunks_received' = 0 /\ damaged' = FALSE /\ ret' = ret
      /\ UNCHANGED <<chip_in, chip_out, chip_last, chip_packet, chip_result, executed>>
    BY SizesAssumption DEF IInv, TypeOK, LtCommand, Calls, chipVars
<1>2. TypeOK'
  <2>1. 0 \in 0..LT_CRC_ERR_RETRY_ATTEMPTS /\ 0 \in 0..RecvMaxChunks /\ <<>> \in Seq(Cell)
      BY SizesAssumption
  <2>2. QED
      BY <1>1, <2>1 DEF IInv, TypeOK
<1>3. Once' /\ executed'[call'] = 0
    BY <1>1 DEF IInv, Once, Calls
<1>4. \A k \in 1..Len(chip_packet') : chip_packet'[k].call <= call /\ chip_packet'[k].call \in Nat
  <2>1. chip_packet \in Seq(Cell) /\ Known
      BY DEF IInv, TypeOK
  <2>2. \A k \in 1..Len(chip_packet) : chip_packet[k] \in Cell
      BY <2>1, ElementOfSeq
  <2>3. \A x \in Cell : x.call \in Nat
      BY SizesAssumption DEF Cell
  <2>4. QED
      BY <1>1, <2>1, <2>2, <2>3 DEF Known
<1>5. Known' /\ \A k \in 1..Len(chip_packet') : chip_packet'[k].call # call'
    BY <1>1, <1>4 DEF Known
<1>6. InFlight'
    BY <1>1, <1>5 DEF IInv, InFlight, Unprocessed, ChunkOf
<1>7. 0 < chunk_num'
    BY <1>1, ChunkCount DEF chunk_num
<1>8. Sending'
    BY <1>1, <1>3, <1>5, <1>7, SizesAssumption DEF Sending
<1>9. Acknowledged' /\ Receiving' /\ ResultWhole'
    BY <1>1 DEF Acknowledged, Receiving, ResultWhole
<1>10. Answers' /\ FitsBuffer'
    BY <1>1, SizesAssumption DEF IInv, Answers, FitsBuffer
<1>11. QED
    BY <1>1, <1>2, <1>3, <1>5, <1>6, <1>8, <1>9, <1>10 DEF IInv

LEMMA CheckSizeStep == ASSUME IInv, CheckSize PROVE IInv'
<1>1. /\ pc = "check" /\ pc' \in {"idle", "send"}
      /\ pc' = "idle" => ret' = "LT_L3_DATA_LEN_ERROR"
      /\ pc' = "send" => ret' = ret
      /\ UNCHANGED <<call, size, i, buff_offset, frame_resend_counter, received,
                     chunks_received, damaged, chip_in, chip_out, chip_last, chip_packet,
                     chip_result, executed>>
    BY DEF CheckSize, Return, sendVars, recvVars, chipVars
<1>2. TypeOK'
    BY <1>1 DEF IInv, TypeOK, Ret
<1>3. InFlight' /\ Answers'
    BY <1>1, SameChunk DEF IInv, InFlight, Unprocessed, ChunkOf, Answers
<1>4. CASE pc' = "idle"
    BY <1>1, <1>2, <1>3, <1>4, Returned
<1>5. CASE pc' = "send"
  <2>1. Held(buff_offset)'
      BY <1>1 DEF IInv, Sending, Held
  <2>2. Sending'
      BY <1>1, <1>5, <2>1, SameChunk DEF IInv, Sending
  <2>3. Once' /\ Known' /\ FitsBuffer'
      BY <1>1 DEF IInv, Once, Known, FitsBuffer
  <2>4. Acknowledged' /\ Receiving' /\ ResultWhole'
      BY <1>5 DEF Acknowledged, Receiving, ResultWhole
  <2>5. QED
      BY <1>2, <1>3, <1>5, <2>2, <2>3, <2>4 DEF IInv
<1>6. QED
    BY <1>1, <1>4, <1>5

LEMMA SendStep == ASSUME IInv, Send PROVE IInv'
<1>1. /\ pc = "send" /\ call \in Calls /\ call \in Nat \ {0} /\ size \in Nat \ {0} /\ i \in Nat
      /\ i < chunk_num /\ buff_offset = i * ChunkMax /\ executed[call] = 0
      /\ UNCHANGED <<call, size, i, buff_offset, frame_resend_counter, received,
                     chunks_received, damaged, chip_last, chip_packet, chip_result, executed>>
    BY SizesAssumption
       DEF IInv, TypeOK, Send, Sending, sendVars, recvVars, Write, WriteFails, Calls
<1>2. PICK d \in Seq(Cell) :
        /\ CurrentChunk = Chunk(d) /\ Len(d) = req_len
        /\ ChunkOf(d, call, buff_offset + req_len, size)
    BY <1>1, CurrentChunkFacts
<1>3. /\ \/ chip_in' \in AtChip(Chunk(d)) /\ chip_out' = None
         \/ chip_in' = chip_in /\ chip_out' = chip_out /\ pc' = "idle"
      /\ \/ pc' = "sent" /\ ret' = ret
         \/ pc' = "idle" /\ ret' = "LT_HAL_ERROR"
    BY <1>2 DEF Send, Write, WriteFails, Return
<1>4. chip_in' \in AtChip(Chunk(d)) =>
        /\ chip_in' \in Request /\ chip_in'.kind = "req"
        /\ chip_in'.crc = "good" => chip_in'.data = d
    <2>1. Chunk(d) \in Request /\ Chunk(d).kind = "req" /\ Chunk(d).data = d
        BY MessageFacts
    <2>2. QED
        BY <2>1, AtChipFacts
<1>5. TypeOK'
    BY <1>1, <1>3, <1>4 DEF IInv, TypeOK, Ret, L1Error
<1>6. buff_offset + req_len \in Nat
    BY <1>1, ChunkArithmetic, SizesAssumption
<1>7. InFlight'
  <2>1. CASE chip_in' = chip_in /\ pc' = "idle"
      BY <1>1, <2>1 DEF IInv, InFlight, Unprocessed, ChunkOf
  <2>2. CASE chip_in' \in AtChip(Chunk(d))
    <3>1. /\ d[Len(d)].call = call /\ d[Len(d)].pos = buff_offset + req_len
          /\ d[Len(d)].of = size
      <4>1. buff_offset + req_len \in Int
          BY <1>6
      <4>2. QED
          BY <1>2, <4>1, ChunkEnd, Zenon
    <3>2. call \in 1..call
        BY <1>1
    <3>3. /\ buff_offset' = buff_offset /\ req_len' = req_len /\ call' = call
          /\ size' = size /\ executed' = executed /\ pc' \in {"idle", "sent"}
        BY <1>1, <1>3, SameChunk
    <3>4. Unprocessed(d, call, buff_offset + req_len, size)'
      <4>1. ChunkOf(d, call, buff_offset + req_len, size)'
          BY <1>2, <3>3 DEF ChunkOf
      <4>2. executed'[call'] = 0 /\ Len(d) = req_len' /\ call' \in 1..call'
          BY <1>1, <1>2, <3>2, <3>3
      <4>3. QED
          BY <3>3, <4>1, <4>2 DEF Unprocessed
    <3>5. chip_in'.crc = "good" => chip_in'.data = d
        BY <1>4, <2>2
    <3>6. QED
        BY <3>1, <3>3, <3>4, <3>5 DEF InFlight
  <2>3. QED
      BY <1>3, <2>1, <2>2
<1>8. Answers'
    BY <1>1, <1>3, MessageFacts DEF IInv, Answers
<1>9. CASE pc' = "idle"
    BY <1>1, <1>3, <1>5, <1>7, <1>8, <1>9, Returned
<1>10. CASE pc' = "sent"
  <2>1. Held(buff_offset)'
      BY <1>1 DEF IInv, Sending, Held
  <2>2. Sending'
      BY <1>1, <1>10, SameChunk DEF IInv, Sending
  <2>3. chip_in'.kind = "req" /\ chip_out'.kind = "none"
      BY <1>3, <1>4, <1>10, MessageFacts
  <2>4. Acknowledged'
      BY <1>1, <1>10, <2>1, <2>3 DEF Acknowledged
  <2>5. Once' /\ Known' /\ FitsBuffer'
      BY <1>1 DEF IInv, Once, Known, FitsBuffer
  <2>6. Receiving' /\ ResultWhole'
      BY <1>10 DEF Receiving, ResultWhole
  <2>7. QED
      BY <1>5, <1>7, <1>8, <1>10, <2>2, <2>4, <2>5, <2>6 DEF IInv
<1>11. QED
    BY <1>3, <1>9, <1>10

\* lt_l1_read leaves the chip nothing to do.
LEMMA ReadFacts ==
    ASSUME IInv, Read
    PROVE  /\ chip_out \in Response /\ chip_out.kind = "rsp" /\ chip_in.kind = "none"
           /\ chip_out' = None /\ chip_out'.kind = "none"
           /\ UNCHANGED <<chip_in, chip_last, chip_packet, chip_result, executed>>
<1>1. chip_out.kind = "rsp" /\ chip_out \in Response \cup {None}
    BY DEF IInv, TypeOK, Read
<1>2. QED
    BY <1>1, MessageFacts DEF IInv, Answers, Read

\* What the host concludes from the answer to a chunk.
LEMMA AnswerFacts ==
    ASSUME IInv, Read, NEW f \in AtHost(chip_out)
    PROVE  LET r == FrameCheck(f) IN
           /\ r \in Ret
           /\ r = "LT_L2_CRC_ERR" => chip_out.status \notin MoveOn
           /\ r \in {"LT_L2_IN_CRC_ERR", "LT_OK", "LT_L2_REQ_CONT"} => chip_out.status # "CRC_ERR"
<1>1. chip_out \in Response
    BY ReadFacts
<1>2. f \in Frame /\ (f.status = "CRC_ERR" => chip_out.status \notin MoveOn)
      /\ (f.status \in MoveOn => chip_out.status # "CRC_ERR")
    BY <1>1, NoiseFacts
<1>3. QED
    BY <1>2, FrameCheckFacts DEF MoveOn

\* The types of what a read and the host's own counters change.
LEMMA TypeAfterRead ==
    ASSUME IInv, Read, UNCHANGED <<call, size, received, chunks_received, damaged>>,
           i' \in Nat, buff_offset' \in Nat, ret' \in Ret,
           frame_resend_counter' \in 0..LT_CRC_ERR_RETRY_ATTEMPTS,
           pc' \in {"idle", "send", "resend", "recv"}
    PROVE  TypeOK'
BY ReadFacts DEF IInv, TypeOK

\* A read that returns, or fails, ends the call without LT_OK.
LEMMA ReturnAfterRead ==
    ASSUME IInv, Read \/ ReadFails, NEW r \in Ret \ {"LT_OK"}, Return(r),
           UNCHANGED <<call, size, i, buff_offset, received, chunks_received, damaged>>,
           frame_resend_counter' = frame_resend_counter
    PROVE  IInv'
<1>1. /\ chip_out' \in {chip_out, None} /\ pc' = "idle" /\ ret' = r
      /\ UNCHANGED <<chip_in, chip_last, chip_packet, chip_result, executed>>
    BY DEF Read, ReadFails, Return
<1>2. TypeOK'
    BY <1>1 DEF IInv, TypeOK
<1>3. InFlight'
    BY <1>1 DEF IInv, InFlight, Unprocessed, ChunkOf
<1>4. Answers'
    BY <1>1, MessageFacts DEF IInv, Answers
<1>5. QED
    BY <1>1, <1>2, <1>3, <1>4, Returned

\* The chip has taken the chunk: the next one follows it without a gap, and
\* behind the last one the result of this call is ready.
LEMMA NextChunkStep ==
    ASSUME IInv, pc \in {"sent", "resent"}, Taken, Read, NextChunk,
           UNCHANGED <<call, received, chunks_received, damaged>>
    PROVE  IInv'
<1>1. /\ call \in Calls /\ size \in CmdSizes /\ size \in Nat \ {0} /\ i \in Nat
      /\ i < chunk_num /\ buff_offset = i * ChunkMax /\ received = <<>> /\ ~damaged
      /\ chunks_received = 0 /\ 0 < RecvMaxChunks
      /\ executed[call] \in {0, 1}
      /\ executed[call] = 1 => i = chunk_num - 1
    BY SizesAssumption DEF IInv, TypeOK, Sending, Once
<1>2. /\ chunk_num \in Nat \ {0} /\ req_len \in Nat
      /\ buff_offset + req_len \in Nat /\ chunk_num' = chunk_num
      /\ buff_offset + req_len = size <=> i = chunk_num - 1
      /\ i # chunk_num - 1 => buff_offset + req_len = (i + 1) * ChunkMax
  <2>1. size' = size
      BY DEF NextChunk
  <2>2. QED
      BY <1>1, <2>1, ChunkArithmetic, SameChunk, SizesAssumption
<1>3. /\ chip_in.kind = "none" /\ chip_out'.kind = "none" /\ chip_out' = None
      /\ buff_offset' = buff_offset + req_len /\ i' = i + 1 /\ frame_resend_counter' = 0
      /\ pc' = IF i + 1 = chunk_num THEN "recv" ELSE "send"
      /\ UNCHANGED <<size, ret, chip_in, chip_last, chip_packet, chip_result, executed>>
    BY ReadFacts DEF NextChunk
<1>4. TypeOK'
  <2>1. /\ i' \in Nat /\ buff_offset' \in Nat
        /\ frame_resend_counter' \in 0..LT_CRC_ERR_RETRY_ATTEMPTS
        /\ pc' \in {"send", "recv"}
      BY <1>1, <1>2, <1>3, SizesAssumption
  <2>2. ret' \in Ret
      BY <1>3 DEF IInv, TypeOK
  <2>3. QED
      BY <1>3, <2>1, <2>2, TypeAfterRead
<1>5. InFlight' /\ Answers'
    BY <1>3 DEF InFlight, Answers
<1>6. Once' /\ Known' /\ FitsBuffer'
    BY <1>3 DEF IInv, Once, Known, FitsBuffer
<1>7. CASE i + 1 = chunk_num
  <2>1. pc' = "recv" /\ buff_offset' = size'
      BY <1>1, <1>2, <1>3, <1>7
  <2>2. ASSUME chip_result' # <<>> PROVE Continues(<<>>)'
    <3>1. /\ chip_result \in Seq(Cell) /\ chip_result # <<>> /\ executed[call] = 1
          /\ \E n \in ResSizes : chip_result = Cells(call, n)
        BY <1>3, <2>2 DEF IInv, TypeOK, Taken, Fresh
    <3>2. <<>> \o (<<>> \o chip_result) = chip_result
        BY <3>1, ConcatEmptySeq
    <3>3. executed'[call'] = 1 /\ received' = <<>> /\ chip_result' = chip_result /\ call' = call
        BY <1>1, <1>3, <3>1
    <3>4. QED
        BY <3>1, <3>2, <3>3 DEF Continues
  <2>3. Follows(chip_out)'
      BY <1>3 DEF Follows, Piece
  <2>4. chip_result' # <<>> => executed'[call'] = 1
      BY <2>2 DEF Continues
  <2>5. Receiving'
      BY <1>1, <1>3, <2>1, <2>2, <2>3, <2>4 DEF Receiving
  <2>6. Sending' /\ Acknowledged' /\ ResultWhole'
      BY <2>1 DEF Sending, Acknowledged, ResultWhole
  <2>7. QED
      BY <1>4, <1>5, <1>6, <2>1, <2>5, <2>6 DEF IInv
<1>8. CASE i + 1 # chunk_num
  <2>1. pc' = "send" /\ buff_offset' = i' * ChunkMax /\ i' < chunk_num' /\ executed'[call'] = 0
      BY <1>1, <1>2, <1>3, <1>8
  <2>2. Held(buff_offset)'
      BY <1>3 DEF Taken, Held
  <2>3. Sending'
      BY <1>1, <1>3, <2>1, <2>2 DEF Sending
  <2>4. Acknowledged' /\ Receiving' /\ ResultWhole'
      BY <2>1 DEF Acknowledged, Receiving, ResultWhole
  <2>5. QED
      BY <1>4, <1>5, <1>6, <2>1, <2>3, <2>4 DEF IInv
<1>9. QED
    BY <1>7, <1>8

\* Before the answer is read, either the chip has the chunk or it has not.
LEMMA SentStep == ASSUME IInv, Sent PROVE IInv'
<1>1. /\ pc = "sent" /\ UNCHANGED <<call, received, chunks_received, damaged>>
    BY DEF Sent, recvVars
<1>2. CASE ReadFails /\ \E e \in L1Error : Return(e) /\ UNCHANGED <<sendVars, frame_resend_counter>>
  <2>1. PICK e \in L1Error : Return(e)
      BY <1>2
  <2>2. e \in Ret \ {"LT_OK"}
      BY DEF L1Error, Ret
  <2>3. QED
      BY <1>1, <1>2, <2>1, <2>2, ReturnAfterRead DEF sendVars
<1>3. CASE Read /\ \E f \in AtHost(chip_out) : SendAnswered(FrameCheck(f))
  <2>1. PICK f \in AtHost(chip_out) : SendAnswered(FrameCheck(f))
      BY <1>3
  <2> DEFINE r == FrameCheck(f)
  <2>2. /\ r \in Ret
        /\ r = "LT_L2_CRC_ERR" => chip_out.status \notin MoveOn
        /\ r \in {"LT_L2_IN_CRC_ERR", "LT_OK", "LT_L2_REQ_CONT"} => chip_out.status # "CRC_ERR"
      BY <1>3, AnswerFacts
  <2>3. /\ chip_out.kind = "rsp" /\ chip_in.kind = "none" /\ chip_out'.kind = "none"
        /\ UNCHANGED <<chip_in, chip_last, chip_packet, chip_result, executed>>
      BY <1>3, ReadFacts
  <2>4. /\ chip_out.status \notin MoveOn => executed[call] = 0 /\ Held(buff_offset)
        /\ chip_out.status # "CRC_ERR" => Taken
      BY <1>1, <2>3 DEF IInv, Acknowledged
  <2> HIDE DEF r
  <2>5. CASE r \in {"LT_OK", "LT_L2_REQ_CONT"} /\ NextChunk
      BY <1>1, <1>3, <2>2, <2>4, <2>5, NextChunkStep
  <2>6. CASE r \notin {"LT_OK", "LT_L2_REQ_CONT"} /\ Return(r) /\ UNCHANGED <<sendVars, frame_resend_counter>>
      BY <1>1, <1>3, <2>2, <2>6, ReturnAfterRead DEF sendVars
  <2>7. CASE /\ r = "LT_L2_CRC_ERR" /\ RetriesLeft /\ pc' = "send"
             /\ frame_resend_counter' = frame_resend_counter + 1 /\ UNCHANGED <<sendVars, ret>>
    <3>1. UNCHANGED <<size, i, buff_offset, ret>> /\ pc' = "send"
        BY <2>7 DEF sendVars
    <3>2. TypeOK'
      <4>1. frame_resend_counter' \in 0..LT_CRC_ERR_RETRY_ATTEMPTS
          BY <2>7, SizesAssumption DEF IInv, TypeOK, RetriesLeft
      <4>2. i \in Nat /\ buff_offset \in Nat /\ ret \in Ret
          BY DEF IInv, TypeOK
      <4>3. QED
          BY <1>1, <1>3, <3>1, <4>1, <4>2, TypeAfterRead
    <3>3. InFlight' /\ Answers'
        BY <2>3 DEF InFlight, Answers
    <3>4. Once' /\ Known' /\ FitsBuffer'
        BY <1>1, <2>3 DEF IInv, Once, Known, FitsBuffer
    <3>5. Held(buff_offset)'
        BY <1>1, <2>2, <2>3, <2>4, <2>7, <3>1 DEF Held
    <3>6. executed'[call'] = 0
        BY <1>1, <2>2, <2>3, <2>4, <2>7
    <3>7. Sending'
        BY <1>1, <3>1, <3>5, <3>6, SameChunk DEF IInv, Sending
    <3>8. Acknowledged' /\ Receiving' /\ ResultWhole'
        BY <3>1 DEF Acknowledged, Receiving, ResultWhole
    <3>9. QED
        BY <3>1, <3>2, <3>3, <3>4, <3>7, <3>8 DEF IInv
  <2>8. CASE /\ r = "LT_L2_IN_CRC_ERR" /\ RetriesLeft /\ pc' = "resend"
             /\ UNCHANGED <<sendVars, frame_resend_counter, ret>>
    <3>1. UNCHANGED <<size, i, buff_offset, ret, frame_resend_counter>> /\ pc' = "resend"
        BY <2>8 DEF sendVars
    <3>2. TypeOK'
      <4>1. i \in Nat /\ buff_offset \in Nat /\ ret \in Ret
            /\ frame_resend_counter \in 0..LT_CRC_ERR_RETRY_ATTEMPTS
          BY DEF IInv, TypeOK
      <4>2. QED
          BY <1>1, <1>3, <3>1, <4>1, TypeAfterRead
    <3>3. InFlight' /\ Answers'
        BY <2>3 DEF InFlight, Answers
    <3>4. Once' /\ Known' /\ FitsBuffer'
        BY <1>1, <2>3 DEF IInv, Once, Known, FitsBuffer
    <3>5. Taken'
        BY <1>1, <2>2, <2>3, <2>4, <2>8, <3>1, SameChunk DEF Taken, Fresh, Held
    <3>6. Sending'
        BY <1>1, <2>3, <2>8, <3>1, SameChunk DEF IInv, Sending, RetriesLeft
    <3>7. Acknowledged'
        BY <2>3, <3>1, <3>5 DEF Acknowledged
    <3>8. Receiving' /\ ResultWhole'
        BY <3>1 DEF Receiving, ResultWhole
    <3>9. QED
        BY <3>1, <3>2, <3>3, <3>4, <3>6, <3>7, <3>8 DEF IInv
  <2>9. QED
      BY <2>1, <2>5, <2>6, <2>7, <2>8 DEF SendAnswered, r
<1>4. QED
    BY <1>2, <1>3 DEF Sent

\* A Resend_Req on the line, or a write that failed, changes nothing in the chip.
LEMMA ResendWritten ==
    ASSUME IInv, Write(ResendReq) \/ WriteFails(ResendReq)
    PROVE  /\ \/ chip_in' \in Request /\ chip_in'.kind = "resend" /\ chip_out' = None
              \/ ~Write(ResendReq) /\ chip_in' = chip_in /\ chip_out' = chip_out
           /\ chip_in' \in Request \cup {None} /\ chip_out' \in Response \cup {None}
           /\ Answers'
           /\ UNCHANGED <<chip_last, chip_packet, chip_result, executed>>
<1>1. \A g \in AtChip(ResendReq) : g \in Request /\ g.kind = "resend"
    BY MessageFacts, AtChipFacts
<1>2. QED
    BY <1>1, MessageFacts DEF IInv, TypeOK, Answers, Write, WriteFails

LEMMA ResendStep == ASSUME IInv, Resend PROVE IInv'
<1>1. /\ pc = "resend" /\ UNCHANGED <<call, size, i, buff_offset, received, chunks_received, damaged>>
      /\ frame_resend_counter' = frame_resend_counter + 1
      /\ \/ Write(ResendReq) /\ pc' = "resent" /\ ret' = ret
         \/ WriteFails(ResendReq) /\ pc' = "idle" /\ ret' = "LT_HAL_ERROR"
    BY DEF Resend, sendVars, recvVars, Return
<1>2. /\ \/ chip_in' \in Request /\ chip_in'.kind = "resend" /\ chip_out' = None
         \/ ~Write(ResendReq) /\ chip_in' = chip_in /\ chip_out' = chip_out
      /\ chip_in' \in Request \cup {None} /\ chip_out' \in Response \cup {None}
      /\ Answers'
      /\ UNCHANGED <<chip_last, chip_packet, chip_result, executed>>
    BY <1>1, ResendWritten
<1>3. frame_resend_counter' \in 0..LT_CRC_ERR_RETRY_ATTEMPTS
    BY <1>1, SizesAssumption DEF IInv, TypeOK, Sending, RetriesLeft
<1>4. TypeOK'
    BY <1>1, <1>2, <1>3 DEF IInv, TypeOK, Ret, L1Error
<1>5. Taken /\ chip_in.kind \in {"none", "resend"}
    BY <1>1 DEF IInv, Acknowledged
<1>6. InFlight'
    BY <1>2, <1>5 DEF InFlight
<1>7. CASE pc' = "idle"
    BY <1>1, <1>2, <1>4, <1>6, <1>7, Returned
<1>8. CASE pc' = "resent"
  <2>1. Once' /\ Known' /\ FitsBuffer'
      BY <1>1, <1>2 DEF IInv, Once, Known, FitsBuffer
  <2>2. Taken'
      BY <1>1, <1>2, <1>5, SameChunk DEF Taken, Fresh, Held
  <2>3. Sending'
      BY <1>1, <1>2, <1>8, SameChunk DEF IInv, Sending
  <2>4. chip_in'.kind \in {"none", "resend"}
      BY <1>2, <1>5
  <2>5. Acknowledged'
      BY <1>8, <2>2, <2>4 DEF Acknowledged
  <2>6. Receiving' /\ ResultWhole'
      BY <1>8 DEF Receiving, ResultWhole
  <2>7. QED
      BY <1>2, <1>4, <1>6, <1>8, <2>1, <2>3, <2>5, <2>6 DEF IInv
<1>9. QED
    BY <1>1, <1>7, <1>8

\* The chip took the chunk before the first Resend_Req: whatever answer comes
\* back, going on skips nothing.
LEMMA ResentStep == ASSUME IInv, Resent PROVE IInv'
<1>1. /\ pc = "resent" /\ UNCHANGED <<call, received, chunks_received, damaged>>
    BY DEF Resent, recvVars
<1>2. CASE ReadFails /\ \E e \in L1Error : Return(e) /\ UNCHANGED <<sendVars, frame_resend_counter>>
  <2>1. PICK e \in L1Error : Return(e)
      BY <1>2
  <2>2. e \in Ret \ {"LT_OK"}
      BY DEF L1Error, Ret
  <2>3. QED
      BY <1>1, <1>2, <2>1, <2>2, ReturnAfterRead DEF sendVars
<1>3. CASE Read /\ \E f \in AtHost(chip_out) : ResendAnswered(FrameCheck(f))
  <2>1. PICK f \in AtHost(chip_out) : ResendAnswered(FrameCheck(f))
      BY <1>3
  <2> DEFINE r == FrameCheck(f)
  <2>2. r \in Ret
      BY <1>3, AnswerFacts
  <2>3. /\ chip_out.kind = "rsp" /\ chip_in.kind = "none" /\ chip_out'.kind = "none"
        /\ UNCHANGED <<chip_in, chip_last, chip_packet, chip_result, executed>>
      BY <1>3, ReadFacts
  <2>4. Taken
      BY <1>1 DEF IInv, Acknowledged
  <2> HIDE DEF r
  <2>5. CASE r \in {"LT_OK", "LT_L2_REQ_CONT"} /\ NextChunk
      BY <1>1, <1>3, <2>4, <2>5, NextChunkStep
  <2>6. CASE r \notin {"LT_OK", "LT_L2_REQ_CONT"} /\ Return(r) /\ UNCHANGED <<sendVars, frame_resend_counter>>
      BY <1>1, <1>3, <2>2, <2>6, ReturnAfterRead DEF sendVars
  <2>7. CASE RetriesLeft /\ pc' = "resend" /\ UNCHANGED <<sendVars, frame_resend_counter, ret>>
    <3>1. UNCHANGED <<size, i, buff_offset, ret, frame_resend_counter>> /\ pc' = "resend"
        BY <2>7 DEF sendVars
    <3>2. TypeOK'
      <4>1. i \in Nat /\ buff_offset \in Nat /\ ret \in Ret
            /\ frame_resend_counter \in 0..LT_CRC_ERR_RETRY_ATTEMPTS
          BY DEF IInv, TypeOK
      <4>2. QED
          BY <1>1, <1>3, <3>1, <4>1, TypeAfterRead
    <3>3. InFlight' /\ Answers'
        BY <2>3 DEF InFlight, Answers
    <3>4. Once' /\ Known' /\ FitsBuffer'
        BY <1>1, <2>3 DEF IInv, Once, Known, FitsBuffer
    <3>5. Taken'
        BY <1>1, <2>3, <2>4, <3>1, SameChunk DEF Taken, Fresh, Held
    <3>6. Sending'
        BY <1>1, <2>3, <2>7, <3>1, SameChunk DEF IInv, Sending, RetriesLeft
    <3>7. Acknowledged'
        BY <2>3, <3>1, <3>5 DEF Acknowledged
    <3>8. Receiving' /\ ResultWhole'
        BY <3>1 DEF Receiving, ResultWhole
    <3>9. QED
        BY <3>1, <3>2, <3>3, <3>4, <3>6, <3>7, <3>8 DEF IInv
  <2>8. QED
      BY <2>1, <2>5, <2>6, <2>7 DEF ResendAnswered, r
<1>4. QED
    BY <1>2, <1>3 DEF Resent

\* The types of what the receiving loop changes.
LEMMA TypeAfterPiece ==
    ASSUME IInv, Read, UNCHANGED <<call, size, i, buff_offset>>,
           received' \in Seq(Cell), chunks_received' \in 0..RecvMaxChunks,
           damaged' \in BOOLEAN, ret' \in Ret,
           frame_resend_counter' \in 0..LT_CRC_ERR_RETRY_ATTEMPTS,
           pc' \in {"idle", "recv", "reask"}
    PROVE  TypeOK'
BY ReadFacts DEF IInv, TypeOK

\* A piece that fits is appended; unless it is damaged it is the next one.
LEMMA PieceTaken ==
    ASSUME IInv, pc \in {"recv", "reasked"}, Read, NEW f \in AtHost(chip_out), Fits(f),
           received' = received \o f.data
    PROVE  /\ f \in Frame
           /\ received' \in Seq(Cell) /\ Len(received') <= PacketMax
           /\ f.crc = "good" /\ f.status \in {"RESULT_OK", "RESULT_CONT"} =>
                 /\ executed[call] = 1
                 /\ f.status = "RESULT_OK" => chip_result = <<>>
                 /\ ~damaged => \E n \in ResSizes : received' \o chip_result = Cells(call, n)
<1>1. /\ chip_out \in Response /\ received \in Seq(Cell) /\ chip_result \in Seq(Cell)
      /\ Follows(chip_out) /\ chip_out.kind = "rsp"
    BY ReadFacts DEF IInv, TypeOK, Receiving
<1>2. f \in Frame /\ (f.crc = "good" => f = chip_out) /\ f.data \in Seq(Cell)
    BY <1>1, NoiseFacts DEF Frame
<1>3. received' \in Seq(Cell) /\ Len(received') = Len(received) + Len(f.data)
    BY <1>1, <1>2, ConcatProperties
<1>4. ASSUME f.crc = "good", f.status \in {"RESULT_OK", "RESULT_CONT"}
      PROVE  /\ executed[call] = 1
             /\ f.status = "RESULT_OK" => chip_result = <<>>
             /\ ~damaged => \E n \in ResSizes : received' \o chip_result = Cells(call, n)
  <2>1. Continues(f.data) /\ (f.status = "RESULT_OK" => chip_result = <<>>)
      BY <1>1, <1>2, <1>4 DEF Follows, Piece
  <2>2. received \o (f.data \o chip_result) = received' \o chip_result
    <3>1. (received \o f.data) \o chip_result = received \o (f.data \o chip_result)
      <4>1. received \in Seq(Cell) /\ f.data \in Seq(Cell) /\ chip_result \in Seq(Cell)
          BY <1>1, <1>2
      <4>2. \A s, t, u \in Seq(Cell) : (s \o t) \o u = s \o (t \o u)
          BY ConcatAssociative
      <4>3. QED
          BY <4>1, <4>2, Zenon
    <3>2. QED
        BY <3>1, Zenon
  <2>3. QED
      BY <2>1, <2>2 DEF Continues
<1>5. QED
    BY <1>2, <1>3, <1>4 DEF Fits

LEMMA RecvStep == ASSUME IInv, Recv PROVE IInv'
<1>1. /\ pc \in {"recv", "reasked"} /\ UNCHANGED <<call, size, i, buff_offset>>
      /\ call \in Calls /\ buff_offset = size /\ chunks_received < RecvMaxChunks
    BY DEF IInv, Receiving, Recv, sendVars
<1>2. CASE ReadFails /\ \E e \in L1Error : Return(e) /\ UNCHANGED <<recvVars, frame_resend_counter>>
  <2>1. PICK e \in L1Error : Return(e)
      BY <1>2
  <2>2. e \in Ret \ {"LT_OK"}
      BY DEF L1Error, Ret
  <2>3. QED
      BY <1>1, <1>2, <2>1, <2>2, ReturnAfterRead DEF recvVars
<1>3. CASE Read /\ \E f \in AtHost(chip_out) : ResultFrame(f)
  <2>1. PICK f \in AtHost(chip_out) : ResultFrame(f)
      BY <1>3
  <2> DEFINE r == FrameCheck(f)
  <2>2. /\ chip_out \in Response /\ chip_out.kind = "rsp" /\ chip_in.kind = "none"
        /\ chip_out' = None /\ chip_out'.kind = "none"
        /\ UNCHANGED <<chip_in, chip_last, chip_packet, chip_result, executed>>
      BY <1>3, ReadFacts
  <2>3. f \in Frame /\ f.crc \in {"good", "bad", "long"} /\ (f.crc = "good" => f = chip_out)
      BY <2>2, NoiseFacts
  <2>4. /\ r \in Ret
        /\ r = "LT_OK" => f.status \in CrcChecked /\ f.crc = "good"
        /\ r = "LT_L2_RES_CONT" => f.status = "RESULT_CONT" /\ f.crc # "long"
      BY <2>3, FrameCheckFacts
  <2> HIDE DEF r
  <2>5. InFlight' /\ Answers'
      BY <2>2 DEF InFlight, Answers
  <2>6. Once' /\ Known'
      BY <1>1, <2>2 DEF IInv, Once, Known
  <2>7. Follows(chip_out)'
      BY <2>2 DEF Follows, Piece
  <2>8. chip_result # <<>> => executed[call] = 1
      BY <1>1 DEF IInv, Receiving
  <2>9. CASE Return("LT_L2_RSP_LEN_ERROR") /\ UNCHANGED <<recvVars, frame_resend_counter>>
    <3>1. "LT_L2_RSP_LEN_ERROR" \in Ret \ {"LT_OK"}
        BY DEF Ret
    <3>2. QED
        BY <1>1, <1>3, <2>9, <3>1, ReturnAfterRead DEF recvVars
  <2>10. CASE r \notin {"LT_OK", "LT_L2_RES_CONT"} /\ Return(r) /\ UNCHANGED <<recvVars, frame_resend_counter>>
      BY <1>1, <1>3, <2>4, <2>10, ReturnAfterRead DEF recvVars
  <2>11. CASE /\ r = "LT_L2_RES_CONT" /\ Fits(f) /\ CopyPiece(f)
              /\ damaged' = (damaged \/ f.crc = "bad")
              /\ frame_resend_counter' = 0 /\ MorePieces
    <3>1. /\ received' \in Seq(Cell) /\ Len(received') <= PacketMax
          /\ f.crc = "good" =>
                /\ executed[call] = 1
                /\ ~damaged => \E n \in ResSizes : received' \o chip_result = Cells(call, n)
        BY <1>1, <1>3, <2>4, <2>11, PieceTaken DEF CopyPiece
    <3>2. f.crc \in {"good", "bad"} /\ (~damaged' => f.crc = "good" /\ ~damaged)
        BY <2>3, <2>4, <2>11
    <3>3. /\ chunks_received' = chunks_received + 1
          /\ \/ pc' = "recv" /\ ret' = ret /\ chunks_received' < RecvMaxChunks
             \/ pc' = "idle" /\ ret' = "LT_L3_DATA_LEN_ERROR"
        BY <2>11 DEF MorePieces, Return
    <3>4. TypeOK'
      <4>1. chunks_received' \in 0..RecvMaxChunks /\ 0 \in 0..LT_CRC_ERR_RETRY_ATTEMPTS
          BY <1>1, <3>3, SizesAssumption DEF IInv, TypeOK
      <4>2. damaged' \in BOOLEAN /\ frame_resend_counter' = 0
          BY <2>11
      <4>3. ret' \in Ret
          BY <3>3 DEF IInv, TypeOK, Ret
      <4>4. QED
          BY <1>1, <1>3, <3>1, <3>3, <4>1, <4>2, <4>3, TypeAfterPiece
    <3>5. FitsBuffer'
        BY <3>1 DEF FitsBuffer
    <3>6. CASE pc' = "idle" /\ ret' = "LT_L3_DATA_LEN_ERROR"
      <4>1. Sending' /\ Acknowledged' /\ Receiving' /\ ResultWhole'
          BY <3>6 DEF Sending, Acknowledged, Receiving, ResultWhole
      <4>2. QED
          BY <2>5, <2>6, <3>4, <3>5, <3>6, <4>1 DEF IInv
    <3>7. CASE pc' = "recv" /\ chunks_received' < RecvMaxChunks
      <4>1. ASSUME chip_result' # <<>> PROVE Continues(<<>>)'
        <5>1. executed'[call'] = 1
            BY <1>1, <2>2, <2>8, <4>1
        <5>2. received' \o (<<>> \o chip_result') = received' \o chip_result
            BY <2>2, ConcatEmptySeq DEF IInv, TypeOK
        <5>3. QED
            BY <1>1, <3>1, <3>2, <5>1, <5>2 DEF Continues
      <4>2. Receiving'
          BY <1>1, <2>2, <2>7, <2>8, <3>7, <4>1 DEF Receiving
      <4>3. Sending' /\ Acknowledged' /\ ResultWhole'
          BY <3>7 DEF Sending, Acknowledged, ResultWhole
      <4>4. QED
          BY <2>5, <2>6, <3>4, <3>5, <3>7, <4>2, <4>3 DEF IInv
    <3>8. QED
        BY <3>3, <3>6, <3>7
  <2>12. CASE /\ r = "LT_OK" /\ Fits(f) /\ CopyPiece(f) /\ Return("LT_OK")
              /\ UNCHANGED <<chunks_received, damaged, frame_resend_counter>>
    <3>1. f.crc = "good" /\ f.status = "RESULT_OK"
      <4>1. f.crc = "good" /\ f.status \in {"REQUEST_OK", "RESULT_OK"} /\ f = chip_out
          BY <2>3, <2>4, <2>12 DEF CrcChecked
      <4>2. chip_out.status # "REQUEST_OK"
          BY <1>1, <2>2 DEF IInv, Receiving
      <4>3. QED
          BY <4>1, <4>2
    <3>2. /\ received' \in Seq(Cell) /\ Len(received') <= PacketMax
          /\ executed[call] = 1 /\ chip_result = <<>>
          /\ ~damaged => \E n \in ResSizes : received' \o chip_result = Cells(call, n)
        BY <1>1, <1>3, <2>12, <3>1, PieceTaken DEF CopyPiece
    <3>3. pc' = "idle" /\ ret' = "LT_OK" /\ UNCHANGED <<chunks_received, damaged, frame_resend_counter>>
        BY <2>12 DEF Return
    <3>4. TypeOK'
      <4>1. /\ "LT_OK" \in Ret /\ chunks_received \in 0..RecvMaxChunks /\ damaged \in BOOLEAN
            /\ frame_resend_counter \in 0..LT_CRC_ERR_RETRY_ATTEMPTS
          BY <2>4, <2>12 DEF IInv, TypeOK
      <4>2. QED
          BY <1>1, <1>3, <3>2, <3>3, <4>1, TypeAfterPiece
    <3>5. received' \o chip_result = received'
        BY <3>2, ConcatEmptySeq
    <3>6. ResultWhole'
        BY <1>1, <2>2, <3>2, <3>3, <3>5 DEF ResultWhole
    <3>7. FitsBuffer'
        BY <3>2 DEF FitsBuffer
    <3>8. Sending' /\ Acknowledged' /\ Receiving'
        BY <3>3 DEF Sending, Acknowledged, Receiving
    <3>9. QED
        BY <1>1, <2>5, <2>6, <3>4, <3>6, <3>7, <3>8 DEF IInv
  <2>13. CASE /\ RetriesLeft /\ frame_resend_counter' = frame_resend_counter + 1
              /\ pc' = "reask" /\ UNCHANGED <<recvVars, ret>>
    <3>1. pc' = "reask" /\ UNCHANGED <<received, chunks_received, damaged, ret>>
        BY <2>13 DEF recvVars
    <3>2. TypeOK'
      <4>1. /\ ret \in Ret /\ chunks_received \in 0..RecvMaxChunks /\ damaged \in BOOLEAN
            /\ received \in Seq(Cell)
            /\ frame_resend_counter' \in 0..LT_CRC_ERR_RETRY_ATTEMPTS
          BY <2>13, SizesAssumption DEF IInv, TypeOK, RetriesLeft
      <4>2. QED
          BY <1>1, <1>3, <3>1, <4>1, TypeAfterPiece
    <3>3. chip_last.status \notin {"REQUEST_OK", "REQUEST_CONT"} /\ Follows(chip_last)
        BY <1>1, <2>2 DEF IInv, Receiving
    <3>4. Follows(chip_last)'
        BY <1>1, <2>2, <3>1, <3>3 DEF Follows, Piece, Continues
    <3>5. Receiving'
        BY <1>1, <2>2, <2>7, <2>8, <3>1, <3>3, <3>4 DEF Receiving
    <3>6. FitsBuffer' /\ Sending' /\ Acknowledged' /\ ResultWhole'
        BY <3>1 DEF IInv, FitsBuffer, Sending, Acknowledged, ResultWhole
    <3>7. QED
        BY <2>5, <2>6, <3>1, <3>2, <3>5, <3>6 DEF IInv
  <2>14. QED
      BY <2>1, <2>9, <2>10, <2>11, <2>12, <2>13 DEF ResultFrame, r
<1>4. QED
    BY <1>2, <1>3 DEF Recv

LEMMA ReaskStep == ASSUME IInv, Reask PROVE IInv'
<1>1. /\ pc = "reask" /\ UNCHANGED <<call, size, i, buff_offset, frame_resend_counter,
                                     received, chunks_received, damaged>>
      /\ \/ Write(ResendReq) /\ pc' = "reasked" /\ ret' = ret
         \/ WriteFails(ResendReq) /\ pc' = "idle" /\ ret' = "LT_HAL_ERROR"
    BY DEF Reask, sendVars, recvVars, Return
<1>2. /\ \/ chip_in' \in Request /\ chip_in'.kind = "resend" /\ chip_out' = None
         \/ ~Write(ResendReq) /\ chip_in' = chip_in /\ chip_out' = chip_out
      /\ chip_in' \in Request \cup {None} /\ chip_out' \in Response \cup {None}
      /\ Answers'
      /\ UNCHANGED <<chip_last, chip_packet, chip_result, executed>>
    BY <1>1, ResendWritten
<1>3. TypeOK'
    BY <1>1, <1>2 DEF IInv, TypeOK, Ret, L1Error
<1>4. Receiving
    BY DEF IInv
<1>5. chip_in'.kind \in {"none", "resend"}
    BY <1>1, <1>2, <1>4 DEF Receiving
<1>6. InFlight'
    BY <1>5 DEF InFlight
<1>7. CASE pc' = "idle"
    BY <1>1, <1>2, <1>3, <1>6, <1>7, Returned
<1>8. CASE pc' = "reasked"
  <2>1. Once' /\ Known' /\ FitsBuffer'
      BY <1>1, <1>2 DEF IInv, Once, Known, FitsBuffer
  <2>2. chip_out' = None \/ chip_out' = chip_out
      BY <1>2
  <2>3. Follows(chip_out)'
    <3>1. CASE chip_out' = None
        BY <3>1, MessageFacts DEF Follows, Piece
    <3>2. CASE chip_out' = chip_out
      <4>1. Follows(chip_out)
          BY <1>1, <1>4 DEF Receiving
      <4>2. QED
          BY <1>1, <1>2, <3>2, <4>1 DEF Follows, Piece, Continues
    <3>3. QED
        BY <2>2, <3>1, <3>2
  <2>4. Follows(chip_last)'
      BY <1>1, <1>2, <1>4 DEF Receiving, Follows, Piece, Continues
  <2>5. chip_out'.kind = "rsp" => chip_out'.status \notin {"REQUEST_OK", "REQUEST_CONT"}
      BY <1>1, <1>4, <2>2, MessageFacts DEF Receiving
  <2>6. Receiving'
      BY <1>1, <1>2, <1>4, <1>5, <1>8, <2>3, <2>4, <2>5 DEF Receiving
  <2>7. Sending' /\ Acknowledged' /\ ResultWhole'
      BY <1>8 DEF Sending, Acknowledged, ResultWhole
  <2>8. QED
      BY <1>2, <1>3, <1>6, <1>8, <2>1, <2>6, <2>7 DEF IInv
<1>9. QED
    BY <1>1, <1>7, <1>8

\* What the chip sends when it answers, and what it has received then.
LEMMA AnswerWithFacts ==
    ASSUME NEW s \in Status, Answer(Rsp(s, <<>>))
    PROVE  /\ chip_in' = None /\ chip_in'.kind = "none"
           /\ chip_out' \in Response /\ chip_out'.kind = "rsp" /\ chip_out'.status = s
           /\ InFlight' /\ Answers' /\ (Piece(chip_out') => s \in {"RESULT_OK", "RESULT_CONT"})
<1>1. <<>> \in Seq(Cell)
    OBVIOUS
<1>2. QED
    BY <1>1, MessageFacts DEF Answer, InFlight, Answers, Piece

LEMMA ChipRefusesStep == ASSUME IInv, ChipRefuses PROVE IInv'
<1>1. /\ chip_in.kind # "none" /\ chip_in.crc = "bad"
      /\ Answer(Rsp("CRC_ERR", <<>>)) /\ chip_last' \in {chip_last, chip_out'}
      /\ UNCHANGED <<pc, call, size, i, buff_offset, frame_resend_counter, received,
                     chunks_received, ret, damaged, chip_packet, chip_result, executed>>
    BY DEF ChipRefuses, hostVars
<1>2. "CRC_ERR" \in Status /\ "CRC_ERR" \notin MoveOn
    BY DEF Status, MoveOn, CrcChecked
<1>3. /\ chip_in' = None /\ chip_in'.kind = "none" /\ chip_out' \in Response
      /\ chip_out'.kind = "rsp" /\ chip_out'.status = "CRC_ERR"
      /\ InFlight' /\ Answers' /\ ~Piece(chip_out')
    BY <1>1, <1>2, AnswerWithFacts
<1>4. TypeOK'
    BY <1>1, <1>3 DEF IInv, TypeOK
<1>5. Once' /\ Known' /\ ResultWhole' /\ FitsBuffer' /\ (pc' = "idle" /\ ret' = "LT_OK" => call' \in Calls)
    BY <1>1 DEF IInv, Once, Known, ResultWhole, FitsBuffer
<1>6. Sending'
    BY <1>1, SameChunk DEF IInv, Sending, Held, RetriesLeft
<1>7. Acknowledged'
  <2>1. CASE pc = "sent"
    <3>1. executed[call] = 0 /\ Held(buff_offset)
        BY <1>1, <2>1 DEF IInv, Acknowledged
    <3>2. executed'[call'] = 0 /\ Held(buff_offset)'
        BY <1>1, <3>1 DEF Held
    <3>3. QED
        BY <1>1, <1>2, <1>3, <2>1, <3>2 DEF Acknowledged
  <2>2. CASE pc \in {"resend", "resent"}
    <3>1. Taken
        BY <2>2 DEF IInv, Acknowledged
    <3>2. Taken'
        BY <1>1, <3>1, SameChunk DEF Taken, Fresh, Held
    <3>3. QED
        BY <1>1, <1>3, <2>2, <3>2 DEF Acknowledged
  <2>3. QED
      BY <1>1, <2>1, <2>2 DEF Acknowledged
<1>8. Receiving'
  <2> SUFFICES ASSUME pc \in {"recv", "reask", "reasked"} PROVE Receiving'
      BY <1>1 DEF Receiving
  <2>1. pc # "recv" /\ Receiving
      BY <1>1 DEF IInv, Receiving
  <2>2. Follows(chip_out)'
      BY <1>3 DEF Follows, Piece
  <2>3. Follows(chip_last)'
      BY <1>1, <1>3, <2>1 DEF Receiving, Follows, Piece, Continues
  <2>4. chip_last'.status \notin {"REQUEST_OK", "REQUEST_CONT"}
      BY <1>1, <1>3, <2>1 DEF Receiving
  <2>5. QED
      BY <1>1, <1>3, <2>1, <2>2, <2>3, <2>4 DEF Receiving
<1>9. QED
    BY <1>3, <1>4, <1>5, <1>6, <1>7, <1>8 DEF IInv

LEMMA ChipResendsStep == ASSUME IInv, ChipResends PROVE IInv'
<1>1. /\ chip_in.kind = "resend" /\ chip_in' = None /\ chip_in'.kind = "none"
      /\ chip_out' = chip_last /\ chip_last \in Response
      /\ UNCHANGED <<pc, call, size, i, buff_offset, frame_resend_counter, received,
                     chunks_received, ret, damaged, chip_last, chip_packet, chip_result, executed>>
    BY MessageFacts DEF IInv, TypeOK, ChipResends, Answer, hostVars
<1>2. TypeOK'
    BY <1>1 DEF IInv, TypeOK
<1>3. Once' /\ Known' /\ ResultWhole' /\ FitsBuffer' /\ (pc' = "idle" /\ ret' = "LT_OK" => call' \in Calls)
    BY <1>1 DEF IInv, Once, Known, ResultWhole, FitsBuffer
<1>4. InFlight' /\ Answers'
    BY <1>1 DEF InFlight, Answers
<1>5. Sending'
    BY <1>1, SameChunk DEF IInv, Sending, Held, RetriesLeft
<1>6. Acknowledged'
  <2>1. pc # "sent" /\ (pc \in {"resend", "resent"} => Taken)
      BY <1>1 DEF IInv, Acknowledged
  <2>2. pc \in {"resend", "resent"} => Taken'
      BY <1>1, <2>1, SameChunk DEF Taken, Fresh, Held
  <2>3. QED
      BY <1>1, <2>1, <2>2 DEF Acknowledged
<1>7. Receiving'
  <2> SUFFICES ASSUME pc \in {"recv", "reask", "reasked"} PROVE Receiving'
      BY <1>1 DEF Receiving
  <2>1. pc # "recv" /\ Receiving
      BY <1>1 DEF IInv, Receiving
  <2>2. Follows(chip_last)'
      BY <1>1, <2>1 DEF Receiving, Follows, Piece, Continues
  <2>3. Follows(chip_out)'
      BY <1>1, <2>2 DEF Follows
  <2>4. QED
      BY <1>1, <2>1, <2>2, <2>3 DEF Receiving
<1>8. QED
    BY <1>2, <1>3, <1>4, <1>5, <1>6, <1>7 DEF IInv

\* The chunk the chip is about to process, by its end.
LEMMA ChunkToProcess ==
    ASSUME IInv, chip_in.kind = "req", chip_in.crc = "good"
    PROVE  /\ chip_packet \in Seq(Cell)
           /\ \E d \in Seq(Cell), c \in 1..call, b \in Nat, n \in Nat :
                 /\ chip_in.data = d /\ Len(d) \in Nat \ {0}
                 /\ d[Len(d)].call = c /\ d[Len(d)].pos = b /\ d[Len(d)].of = n
                 /\ Unprocessed(d, c, b, n)
                 /\ \A k \in 1..Len(d) : d[k].call = c
<1>1. chip_packet \in Seq(Cell) /\ chip_in \in Request
    BY MessageFacts DEF IInv, TypeOK
<1>2. PICK d \in Seq(Cell) : d = chip_in.data
    BY <1>1 DEF Request
<1> DEFINE end == d[Len(d)]
<1>3. Unprocessed(d, end.call, end.pos, end.of)
    BY <1>2 DEF IInv, InFlight
<1> HIDE DEF end
<1>4. ChunkOf(d, end.call, end.pos, end.of) /\ end.call \in 1..call
    BY <1>3 DEF Unprocessed
<1>5. Len(d) \in Nat \ {0}
    BY <1>2, <1>4, EmptySeq DEF ChunkOf
<1>6. end \in Cell
  <2>1. \A k \in 1..Len(d) : d[k] \in Cell
      BY <1>2, ElementOfSeq
  <2>2. QED
      BY <1>5, <2>1 DEF end
<1>7. \A k \in 1..Len(d) : d[k].call = end.call
  <2> TAKE k \in 1..Len(d)
  <2>1. d[k] = [call |-> end.call, pos |-> end.pos - Len(d) + k, of |-> end.of]
      BY <1>4 DEF ChunkOf
  <2>2. QED
      BY <2>1
<1>8. end.pos \in Nat /\ end.of \in Nat
    BY <1>6 DEF Cell
<1>9. QED
    BY <1>1, <1>2, <1>3, <1>4, <1>5, <1>7, <1>8 DEF end

LEMMA ChipTakesChunkStep == ASSUME IInv, ChipTakesChunk PROVE IInv'
<1>1. /\ chip_in.kind = "req" /\ chip_in.crc = "good"
      /\ Answer(Rsp("REQUEST_CONT", <<>>)) /\ chip_last' = chip_out'
      /\ chip_packet' = chip_packet \o chip_in.data /\ chip_result' = <<>>
      /\ UNCHANGED <<pc, call, size, i, buff_offset, frame_resend_counter, received,
                     chunks_received, ret, damaged, executed>>
    BY DEF ChipTakesChunk, ChunkTaken, hostVars
<1>2. chip_packet \in Seq(Cell)
    BY <1>1, ChunkToProcess
<1> PICK d \in Seq(Cell), c \in 1..call, b \in Nat, n \in Nat :
        chip_in.data = d /\ Unprocessed(d, c, b, n) /\ \A k \in 1..Len(d) : d[k].call = c
    BY <1>1, ChunkToProcess
<1>3. "REQUEST_CONT" \in Status /\ "REQUEST_CONT" \in MoveOn
    BY DEF Status, MoveOn
<1>4. /\ chip_in' = None /\ chip_in'.kind = "none" /\ chip_out' \in Response
      /\ chip_out'.kind = "rsp" /\ chip_out'.status = "REQUEST_CONT"
      /\ InFlight' /\ Answers'
    BY <1>1, <1>3, AnswerWithFacts
<1>5. /\ chip_packet' \in Seq(Cell) /\ Len(chip_packet') = Len(chip_packet) + Len(d)
      /\ Len(chip_packet) \in Nat /\ Len(d) \in Nat
      /\ \A k \in 1..Len(chip_packet) + Len(d) :
            chip_packet'[k] = IF k <= Len(chip_packet) THEN chip_packet[k]
                              ELSE d[k - Len(chip_packet)]
    BY <1>1, <1>2, ConcatProperties, LenProperties
<1>6. ASSUME NEW k \in 1..Len(chip_packet')
      PROVE  \/ chip_packet'[k].call = c
             \/ \E j \in 1..Len(chip_packet) : chip_packet'[k] = chip_packet[j]
  <2>1. CASE k <= Len(chip_packet)
      BY <1>5, <2>1
  <2>2. CASE ~(k <= Len(chip_packet))
    <3>1. k - Len(chip_packet) \in 1..Len(d) /\ chip_packet'[k] = d[k - Len(chip_packet)]
        BY <1>5, <2>2
    <3>2. QED
        BY <1>2, <3>1
  <2>3. QED
      BY <2>1, <2>2
<1>7. TypeOK'
  <2>1. <<>> \in Seq(Cell)
      OBVIOUS
  <2>2. QED
      BY <1>1, <1>4, <1>5, <2>1 DEF IInv, TypeOK
<1>8. c \in 1..call /\ call \in Nat
    BY <1>2, SizesAssumption DEF Unprocessed, IInv, TypeOK
<1>9. Known'
  <2>1. \A j \in 1..Len(chip_packet) : chip_packet[j].call <= call
      BY DEF IInv, Known
  <2>2. \A k \in 1..Len(chip_packet') : chip_packet'[k].call <= call
      BY <1>6, <1>8, <2>1
  <2>3. QED
      BY <1>1, <2>2 DEF Known
<1>10. Once' /\ ResultWhole' /\ FitsBuffer' /\ (pc' = "idle" /\ ret' = "LT_OK" => call' \in Calls)
    BY <1>1 DEF IInv, Once, ResultWhole, FitsBuffer
<1>11. pc \in {"idle", "check", "send", "sent"}
    BY <1>2 DEF Unprocessed
<1>12. ASSUME pc \in {"check", "send"}
       PROVE  \A k \in 1..Len(chip_packet') : chip_packet'[k].call # call
  <2>1. c < call /\ \A j \in 1..Len(chip_packet) : chip_packet[j].call # call
      BY <1>2, <1>12 DEF Unprocessed
  <2>2. c # call
      BY <1>8, <2>1
  <2>3. QED
      BY <1>6, <2>1, <2>2
<1>13. Sending'
  <2>1. pc = "send" => Held(buff_offset)'
      BY <1>1, <1>12 DEF Held
  <2>2. QED
      BY <1>1, <1>11, <1>12, <2>1, SameChunk DEF IInv, Sending
<1>14. Acknowledged'
  <2> SUFFICES ASSUME pc = "sent" PROVE Acknowledged'
      BY <1>1, <1>11 DEF Acknowledged
  <2>1. /\ c = call /\ b = buff_offset + req_len /\ Len(d) = req_len /\ ChunkOf(d, c, b, n)
      BY <1>2 DEF Unprocessed
  <2>2. executed[call] = 0 /\ Held(buff_offset) /\ buff_offset \in Nat
      BY <1>1 DEF IInv, Acknowledged, TypeOK
  <2>3. Held(buff_offset + Len(d))'
      BY <1>1, <1>2, <2>1, <2>2, HeldChunk
  <2>4. Held(buff_offset + req_len)'
      BY <1>1, <2>1, <2>3, SameChunk DEF Held
  <2>5. Taken'
      BY <1>1, <2>4 DEF Taken, Fresh
  <2>6. QED
      BY <1>1, <1>3, <1>4, <2>5 DEF Acknowledged
<1>15. Receiving'
    BY <1>1, <1>11 DEF Receiving
<1>16. QED
    BY <1>4, <1>7, <1>9, <1>10, <1>13, <1>14, <1>15 DEF IInv

\* A chunk that makes its packet whole is the last chunk of a command the chip
\* has not executed; if the host waits for its answer, it is this command.
LEMMA WholePacket ==
    ASSUME IInv, chip_in.kind = "req", chip_in.crc = "good",
           IsComplete(ChunkTaken), IsWhole(ChunkTaken)
    PROVE  LET c == ChunkTaken[1].call IN
           /\ c \in 1..call /\ executed[c] = 0
           /\ pc \in {"idle", "check", "send", "sent"}
           /\ pc \in {"check", "send"} => c < call
           /\ pc = "sent" => c = call /\ i = chunk_num - 1
<1>1. chip_packet \in Seq(Cell)
    BY ChunkToProcess
<1>2. PICK d \in Seq(Cell), c \in 1..call, b \in Nat, n \in Nat :
        /\ chip_in.data = d /\ Len(d) \in Nat \ {0}
        /\ d[Len(d)].call = c /\ d[Len(d)].pos = b /\ d[Len(d)].of = n
        /\ Unprocessed(d, c, b, n)
    BY ChunkToProcess
<1>3. PICK p \in Seq(Cell) : p = ChunkTaken /\ p = chip_packet \o d
    BY <1>1, <1>2, ConcatProperties DEF ChunkTaken
<1>4. Len(p) \in Nat \ {0} /\ p[Len(p)] = d[Len(d)]
  <2>1. Len(chip_packet) \in Nat /\ Len(p) = Len(chip_packet) + Len(d)
      BY <1>1, <1>2, <1>3, ConcatProperties, LenProperties
  <2>2. \A k \in 1..Len(chip_packet) + Len(d) :
            p[k] = IF k <= Len(chip_packet) THEN chip_packet[k] ELSE d[k - Len(chip_packet)]
      BY <1>1, <1>3, ConcatProperties
  <2>3. Len(chip_packet) + Len(d) \in 1..Len(chip_packet) + Len(d)
        /\ ~(Len(chip_packet) + Len(d) <= Len(chip_packet))
        /\ (Len(chip_packet) + Len(d)) - Len(chip_packet) = Len(d)
      BY <1>2, <2>1
  <2>4. QED
      BY <1>2, <2>1, <2>2, <2>3
<1>5. p[1] \in Cell
  <2>1. \A k \in 1..Len(p) : p[k] \in Cell
      BY <1>3, ElementOfSeq
  <2>2. QED
      BY <1>4, <2>1
<1>6. PICK e \in 0..MaxCalls, m \in Nat : e = p[1].call /\ m = p[1].of
    BY <1>5 DEF Cell
<1>7. p = Cells(e, m)
    BY <1>3, <1>6 DEF IsWhole
<1>8. Len(p) = m /\ p[Len(p)] = [call |-> e, pos |-> m, of |-> m]
  <2>1. Len(Cells(e, m)) = m /\ \A k \in 1..m : Cells(e, m)[k] = [call |-> e, pos |-> k, of |-> m]
      BY CellsFacts
  <2>2. Len(p) = m /\ m \in 1..m
      BY <1>4, <1>7, <2>1
  <2>3. QED
      BY <1>7, <2>1, <2>2
<1>9. e = c /\ m = b /\ m = n
  <2>1. d[Len(d)] = [call |-> e, pos |-> m, of |-> m]
      BY <1>4, <1>8
  <2>2. d[Len(d)].call = e /\ d[Len(d)].pos = m /\ d[Len(d)].of = m
      BY <2>1
  <2>3. QED
      BY <1>2, <2>2
<1>10. /\ executed[e] = 0 /\ pc \in {"idle", "check", "send", "sent"}
       /\ pc \in {"check", "send"} => e < call
       /\ pc = "sent" => e = call /\ buff_offset + req_len = size
    BY <1>2, <1>9 DEF Unprocessed
<1>11. pc = "sent" => i = chunk_num - 1
  <2> SUFFICES ASSUME pc = "sent" PROVE i = chunk_num - 1
      OBVIOUS
  <2>1. size \in Nat \ {0} /\ i \in Nat /\ i < chunk_num /\ buff_offset = i * ChunkMax
      BY SizesAssumption DEF IInv, TypeOK, Sending
  <2>2. QED
      BY <1>10, <2>1, ChunkArithmetic
<1>12. QED
    BY <1>2, <1>3, <1>6, <1>9, <1>10, <1>11

\* The command the chip executes.
LEMMA ExecutedCommand ==
    ASSUME IInv, ChipExecutes
    PROVE  \E c \in 1..call, m \in ResSizes :
              /\ executed[c] = 0 /\ pc \in {"idle", "check", "send", "sent"}
              /\ pc \in {"check", "send"} => c < call
              /\ pc = "sent" => c = call /\ i = chunk_num - 1
              /\ executed' = [executed EXCEPT ![c] = @ + 1]
              /\ chip_result' = Cells(c, m)
<1> DEFINE c == ChunkTaken[1].call
<1>1. /\ chip_in.kind = "req" /\ chip_in.crc = "good"
      /\ IsComplete(ChunkTaken) /\ IsWhole(ChunkTaken)
      /\ executed' = [executed EXCEPT ![c] = @ + 1]
      /\ \E m \in ResSizes : chip_result' = Cells(c, m)
    BY DEF ChipExecutes
<1>2. /\ c \in 1..call /\ executed[c] = 0
      /\ pc \in {"idle", "check", "send", "sent"}
      /\ pc \in {"check", "send"} => c < call
      /\ pc = "sent" => c = call /\ i = chunk_num - 1
    BY <1>1, WholePacket
<1> HIDE DEF c
<1>3. PICK m \in ResSizes : chip_result' = Cells(c, m)
    BY <1>1
<1>4. QED
    BY <1>1, <1>2, <1>3

LEMMA ChipExecutesStep == ASSUME IInv, ChipExecutes PROVE IInv'
<1>1. PICK c \in 1..call, m \in ResSizes :
        /\ executed[c] = 0 /\ pc \in {"idle", "check", "send", "sent"}
        /\ pc \in {"check", "send"} => c < call
        /\ pc = "sent" => c = call /\ i = chunk_num - 1
        /\ executed' = [executed EXCEPT ![c] = @ + 1]
        /\ chip_result' = Cells(c, m)
    BY ExecutedCommand
<1>2. /\ chip_in.kind = "req" /\ Answer(Rsp("REQUEST_OK", <<>>)) /\ chip_last' = chip_out'
      /\ chip_packet' = <<>> /\ Len(chip_packet') = 0
      /\ UNCHANGED <<pc, call, size, i, buff_offset, frame_resend_counter, received,
                     chunks_received, ret, damaged>>
    BY DEF ChipExecutes, hostVars
<1>3. "REQUEST_OK" \in Status /\ "REQUEST_OK" \in MoveOn /\ "REQUEST_OK" # "CRC_ERR"
    BY DEF Status, MoveOn, CrcChecked
<1>4. /\ chip_in' = None /\ chip_in'.kind = "none" /\ chip_out' \in Response
      /\ chip_out'.kind = "rsp" /\ chip_out'.status = "REQUEST_OK"
      /\ InFlight' /\ Answers'
    BY <1>2, <1>3, AnswerWithFacts
<1>5. call \in 0..MaxCalls /\ c \in Calls /\ c \in 0..MaxCalls /\ m \in Nat /\ executed \in [Calls -> Nat]
    BY <1>1, SizesAssumption DEF IInv, TypeOK, Calls
<1>6. /\ executed' \in [Calls -> Nat] /\ executed'[c] = 1
      /\ \A e \in Calls \ {c} : executed'[e] = executed[e]
    BY <1>1, <1>5
<1>7. TypeOK'
  <2>1. <<>> \in Seq(Cell)
      OBVIOUS
  <2>2. chip_result' \in Seq(Cell)
    <3>1. Cells(c, m) \in Seq(Cell)
        BY <1>5, CellsFacts
    <3>2. QED
        BY <1>1, <3>1
  <2>3. QED
      BY <1>2, <1>4, <1>6, <2>1, <2>2 DEF IInv, TypeOK
<1>8. Once'
  <2>1. \A e \in Calls : executed[e] \in {0, 1} /\ (e > call => executed[e] = 0)
      BY DEF IInv, Once
  <2>2. \A e \in Calls : executed'[e] \in {0, 1} /\ (e > call => executed'[e] = 0)
      BY <1>1, <1>5, <1>6, <2>1
  <2>3. QED
      BY <1>2, <2>2 DEF Once
<1>9. Known' /\ FitsBuffer' /\ (pc' = "idle" /\ ret' = "LT_OK" => call' \in Calls)
    BY <1>2 DEF IInv, Known, FitsBuffer
<1>10. ResultWhole'
  <2> SUFFICES ASSUME pc = "idle", ret = "LT_OK" PROVE ResultWhole'
      BY <1>2 DEF ResultWhole
  <2>1. call \in Calls /\ executed[call] = 1 /\ ResultWhole
      BY DEF IInv, ResultWhole
  <2>2. executed'[call] = 1
      BY <1>1, <1>6, <2>1
  <2>3. QED
      BY <1>2, <2>1, <2>2 DEF ResultWhole
<1>11. Sending'
  <2> SUFFICES ASSUME pc \in {"check", "send", "sent"} PROVE Sending'
      BY <1>1, <1>2 DEF Sending
  <2>1. Sending /\ call \in Calls
      BY DEF IInv, Sending
  <2>2. pc \in {"check", "send"} => executed'[call] = executed[call]
      BY <1>1, <1>5, <1>6, <2>1
  <2>3. pc = "sent" => i = chunk_num - 1
      BY <1>1
  <2>4. Held(buff_offset)'
      BY <1>2 DEF Held
  <2>5. QED
      BY <1>2, <2>1, <2>2, <2>3, <2>4, SameChunk DEF Sending
<1>12. Acknowledged'
  <2> SUFFICES ASSUME pc = "sent" PROVE Acknowledged'
      BY <1>1, <1>2 DEF Acknowledged
  <2>1. Taken'
      BY <1>1, <1>2, <1>6 DEF Taken, Fresh, Held
  <2>2. QED
      BY <1>2, <1>3, <1>4, <2>1 DEF Acknowledged
<1>13. Receiving'
    BY <1>1, <1>2 DEF Receiving
<1>14. QED
    BY <1>4, <1>7, <1>8, <1>9, <1>10, <1>11, <1>12, <1>13 DEF IInv

LEMMA ChipRejectsStep == ASSUME IInv, ChipRejects PROVE IInv'
<1>1. PICK s \in {"TAG_ERR", "NO_SESSION", "GEN_ERR", "REQUEST_OK"} : Answer(Rsp(s, <<>>))
    BY DEF ChipRejects
<1>2. /\ chip_in.kind = "req" /\ chip_in.crc = "good" /\ chip_last' = chip_out'
      /\ chip_packet' = <<>> /\ Len(chip_packet') = 0 /\ chip_result' = <<>>
      /\ UNCHANGED <<pc, call, size, i, buff_offset, frame_resend_counter, received,
                     chunks_received, ret, damaged, executed>>
    BY DEF ChipRejects, hostVars
<1>3. s \in Status /\ s # "CRC_ERR"
    BY DEF Status
<1>4. /\ chip_in' = None /\ chip_in'.kind = "none" /\ chip_out' \in Response
      /\ chip_out'.kind = "rsp" /\ chip_out'.status = s
      /\ InFlight' /\ Answers'
    BY <1>1, <1>3, AnswerWithFacts
<1>5. pc \in {"idle", "check", "send", "sent"}
    BY <1>2, ChunkToProcess DEF Unprocessed
<1>6. TypeOK'
  <2>1. <<>> \in Seq(Cell)
      OBVIOUS
  <2>2. QED
      BY <1>2, <1>4, <2>1 DEF IInv, TypeOK
<1>7. Once' /\ Known' /\ ResultWhole' /\ FitsBuffer' /\ (pc' = "idle" /\ ret' = "LT_OK" => call' \in Calls)
    BY <1>2 DEF IInv, Once, Known, ResultWhole, FitsBuffer
<1>8. Sending'
    BY <1>2, SameChunk DEF IInv, Sending, Held, RetriesLeft
<1>9. Acknowledged'
  <2> SUFFICES ASSUME pc = "sent" PROVE Acknowledged'
      BY <1>2, <1>5 DEF Acknowledged
  <2>1. executed[call] = 0
      BY <1>2 DEF IInv, Acknowledged
  <2>2. Held(buff_offset)' /\ Taken'
      BY <1>2 DEF Taken, Fresh, Held
  <2>3. QED
      BY <1>2, <1>4, <2>1, <2>2 DEF Acknowledged
<1>10. Receiving'
    BY <1>2, <1>5 DEF Receiving
<1>11. QED
    BY <1>4, <1>6, <1>7, <1>8, <1>9, <1>10 DEF IInv

\* The piece the chip sends and what is left make what was left before.
LEMMA ChipSendsPieceStep == ASSUME IInv, ChipSendsPiece PROVE IInv'
<1>1. PICK n \in 0..ChunkMax :
        /\ n <= Len(chip_result)
        /\ chip_out' = Rsp(IF n = Len(chip_result) THEN "RESULT_OK" ELSE "RESULT_CONT",
                           SubSeq(chip_result, 1, n))
        /\ chip_result' = SubSeq(chip_result, n + 1, Len(chip_result))
    BY DEF ChipSendsPiece
<1>2. /\ pc = "recv" /\ chip_in = None /\ chip_out = None /\ chip_result # <<>>
      /\ chip_last' = chip_out' /\ chip_in' = None
      /\ UNCHANGED <<pc, call, size, i, buff_offset, frame_resend_counter, received,
                     chunks_received, ret, damaged, chip_packet, executed>>
    BY DEF ChipSendsPiece, Polled, hostVars
<1>3. chip_result \in Seq(Cell) /\ received \in Seq(Cell) /\ Len(chip_result) \in Nat /\ n \in Nat
    BY SizesAssumption, LenProperties DEF IInv, TypeOK
<1> DEFINE d == SubSeq(chip_result, 1, n)
           rest == SubSeq(chip_result, n + 1, Len(chip_result))
<1>4. d \in Seq(Cell) /\ rest \in Seq(Cell) /\ (n = Len(chip_result) => rest = <<>>)
  <2>1. \A k \in 1..Len(chip_result) : chip_result[k] \in Cell
      BY <1>3, ElementOfSeq
  <2>2. d \in Seq(Cell)
      BY <1>1, <1>3, <2>1, SubSeqProperties
  <2>3. rest \in Seq(Cell)
      BY <1>1, <1>3, <2>1, SubSeqProperties
  <2>4. n = Len(chip_result) => rest = <<>>
      BY <1>3, SubSeqEmpty
  <2>5. QED
      BY <2>2, <2>3, <2>4
<1>5. d \o rest = chip_result
  <2>1. SubSeq(chip_result, 1, n) \o SubSeq(chip_result, n + 1, Len(chip_result))
          = SubSeq(chip_result, 1, Len(chip_result))
    <3>1. 1 \in 1..Len(chip_result) + 1 /\ n \in 1 - 1..Len(chip_result)
          /\ Len(chip_result) \in n..Len(chip_result)
        BY <1>1, <1>3
    <3>2. QED
        BY <1>3, <3>1, ConcatAdjacentSubSeq
  <2>2. SubSeq(chip_result, 1, Len(chip_result)) = chip_result
      BY <1>3, SubSeqFull
  <2>3. QED
      BY <2>1, <2>2
<1> PICK s \in {"RESULT_OK", "RESULT_CONT"} :
        chip_out' = Rsp(s, d) /\ (s = "RESULT_OK" => n = Len(chip_result))
    BY <1>1
<1> HIDE DEF d, rest
<1>6. /\ chip_out' \in Response /\ chip_out'.kind = "rsp" /\ chip_out'.data = d
      /\ chip_out'.status \in {"RESULT_OK", "RESULT_CONT"}
      /\ chip_out'.status = "RESULT_OK" => chip_result' = <<>>
      /\ chip_result' = rest
  <2>1. s \in Status
      BY DEF Status
  <2>2. chip_result' = rest
      BY <1>1 DEF rest
  <2>3. QED
      BY <1>4, <2>1, <2>2, MessageFacts
<1>7. TypeOK'
    BY <1>2, <1>4, <1>6 DEF IInv, TypeOK
<1>8. Once' /\ Known' /\ FitsBuffer' /\ InFlight' /\ Answers'
    BY <1>2, MessageFacts DEF IInv, Once, Known, FitsBuffer, InFlight, Answers
<1>9. Sending' /\ Acknowledged' /\ ResultWhole'
    BY <1>2 DEF Sending, Acknowledged, ResultWhole
<1>10. Receiving /\ Continues(<<>>)
    BY <1>2, MessageFacts DEF IInv, Receiving
<1>11. Continues(chip_out.data)'
  <2>1. <<>> \o chip_result = d \o rest
      BY <1>3, <1>5, ConcatEmptySeq
  <2>2. chip_out'.data \o chip_result' = <<>> \o chip_result
      BY <1>6, <2>1
  <2>3. QED
      BY <1>2, <1>10, <2>2 DEF Continues
<1>12. Receiving'
    BY <1>2, <1>6, <1>10, <1>11, MessageFacts DEF Receiving, Follows, Continues
<1>13. QED
    BY <1>2, <1>7, <1>8, <1>9, <1>12 DEF IInv

LEMMA ChipHasNoResultStep == ASSUME IInv, ChipHasNoResult PROVE IInv'
<1>1. PICK s \in {"TAG_ERR", "NO_SESSION"} : chip_out' = Rsp(s, <<>>)
    BY DEF ChipHasNoResult
<1>2. /\ pc = "recv" /\ chip_in = None /\ chip_result = <<>>
      /\ chip_last' = chip_out' /\ chip_in' = None
      /\ UNCHANGED <<pc, call, size, i, buff_offset, frame_resend_counter, received,
                     chunks_received, ret, damaged, chip_packet, chip_result, executed>>
    BY DEF ChipHasNoResult, Polled, hostVars
<1>3. chip_out' \in Response /\ chip_out'.status = s
  <2>1. s \in Status /\ <<>> \in Seq(Cell)
      BY DEF Status
  <2>2. QED
      BY <1>1, <2>1, MessageFacts
<1>4. TypeOK'
    BY <1>2, <1>3 DEF IInv, TypeOK
<1>5. Once' /\ Known' /\ FitsBuffer' /\ InFlight' /\ Answers'
    BY <1>2, MessageFacts DEF IInv, Once, Known, FitsBuffer, InFlight, Answers
<1>6. Sending' /\ Acknowledged' /\ ResultWhole'
    BY <1>2 DEF Sending, Acknowledged, ResultWhole
<1>7. Follows(chip_out)'
    BY <1>3 DEF Follows, Piece
<1>8. Receiving'
    BY <1>2, <1>3, <1>7 DEF IInv, Receiving
<1>9. QED
    BY <1>2, <1>4, <1>5, <1>6, <1>8 DEF IInv

LEMMA ChipResetStep == ASSUME IInv, ChipReset PROVE IInv'
<1>1. /\ chip_in' = None /\ chip_in'.kind = "none" /\ chip_out' = None /\ chip_out'.kind = "none"
      /\ chip_last' \in Response /\ chip_last'.status = "NO_RESP"
      /\ chip_packet' = <<>> /\ Len(chip_packet') = 0 /\ chip_result' = <<>>
      /\ UNCHANGED <<pc, call, size, i, buff_offset, frame_resend_counter, received,
                     chunks_received, ret, damaged, executed>>
  <2>1. "NO_RESP" \in Status /\ <<>> \in Seq(Cell)
      BY DEF Status
  <2>2. QED
      BY <2>1, MessageFacts DEF ChipReset, hostVars
<1>2. TypeOK'
  <2>1. <<>> \in Seq(Cell)
      OBVIOUS
  <2>2. QED
      BY <1>1, <2>1 DEF IInv, TypeOK
<1>3. Once' /\ Known' /\ ResultWhole' /\ FitsBuffer' /\ (pc' = "idle" /\ ret' = "LT_OK" => call' \in Calls)
    BY <1>1 DEF IInv, Once, Known, ResultWhole, FitsBuffer
<1>4. InFlight' /\ Answers'
    BY <1>1 DEF InFlight, Answers
<1>5. Sending'
    BY <1>1, SameChunk DEF IInv, Sending, Held, RetriesLeft
<1>6. Taken'
    BY <1>1 DEF Taken, Fresh, Held
<1>7. Acknowledged'
    BY <1>1, <1>6 DEF Acknowledged
<1>8. Follows(chip_out)' /\ Follows(chip_last)'
    BY <1>1 DEF Follows, Piece
<1>9. Receiving'
    BY <1>1, <1>8 DEF IInv, Receiving
<1>10. QED
    BY <1>2, <1>3, <1>4, <1>5, <1>7, <1>9 DEF IInv

LEMMA StutterStep == ASSUME IInv, UNCHANGED vars PROVE IInv'
<1>1. UNCHANGED <<pc, call, size, i, buff_offset, frame_resend_counter, received,
                  chunks_received, ret, damaged>>
    BY DEF vars, hostVars
<1>2. UNCHANGED <<chip_in, chip_out, chip_last, chip_packet, chip_result, executed>>
    BY DEF vars, chipVars
<1>3. TypeOK'
    BY <1>1, <1>2 DEF IInv, TypeOK
<1>4. Once' /\ Known' /\ Answers' /\ ResultWhole' /\ FitsBuffer'
    BY <1>1, <1>2 DEF IInv, Once, Known, Answers, ResultWhole, FitsBuffer
<1>5. InFlight'
    BY <1>1, <1>2, SameChunk DEF IInv, InFlight, Unprocessed, ChunkOf
<1>6. Sending'
    BY <1>1, <1>2, SameChunk DEF IInv, Sending, Held, RetriesLeft
<1>7. Acknowledged'
    BY <1>1, <1>2, SameChunk DEF IInv, Acknowledged, Taken, Fresh, Held
<1>8. Receiving'
    BY <1>1, <1>2 DEF IInv, Receiving, Follows, Piece, Continues
<1>9. QED
    BY <1>1, <1>3, <1>4, <1>5, <1>6, <1>7, <1>8 DEF IInv

\* Every step preserves the inductive invariant.
LEMMA NextIInv == IInv /\ [Next]_vars => IInv'
<1> SUFFICES ASSUME IInv, [Next]_vars PROVE IInv'
    OBVIOUS
<1>1. CASE LtCommand
    BY <1>1, LtCommandStep
<1>2. CASE Host
    BY <1>2, CheckSizeStep, SendStep, SentStep, ResendStep, ResentStep, RecvStep, ReaskStep
       DEF Host
<1>3. CASE Chip
    BY <1>3, ChipRefusesStep, ChipResendsStep, ChipTakesChunkStep, ChipExecutesStep,
       ChipRejectsStep, ChipSendsPieceStep, ChipHasNoResultStep, ChipResetStep
       DEF Chip
<1>4. CASE UNCHANGED vars
    BY <1>4, StutterStep
<1>5. QED
    BY <1>1, <1>2, <1>3, <1>4 DEF Next

-----------------------------------------------------------------------------
(* The theorems.                                                           *)

THEOREM InductiveInvariant == Spec => []IInv
BY InitIInv, NextIInv, PTL DEF Spec

\* The variables of the two functions and of the chip keep their types.
THEOREM TypeCorrect == Spec => []TypeOK
<1>1. IInv => TypeOK
    BY DEF IInv
<1>2. QED
    BY <1>1, InductiveInvariant, PTL

\* lt_l2_send_encrypted_cmd: however often chunks and their answers are lost,
\* corrupted or repeated, the chip is never one chunk behind or ahead of i.
THEOREM ChunksInOrderHolds == Spec => []ChunksInOrder
<1>1. IInv => ChunksInOrder
    BY DEF IInv, ChunksInOrder, Sending, Receiving
<1>2. QED
    BY <1>1, InductiveInvariant, PTL

\* lt_l2_recv_encrypted_res: LT_OK comes with the whole result of this very
\* command, unless the chip's RES_CONT piece was damaged on the way.
THEOREM ResultWholeHolds == Spec => []ResultWhole
<1>1. IInv => ResultWhole
    BY DEF IInv
<1>2. QED
    BY <1>1, InductiveInvariant, PTL

\* lt_l2_recv_encrypted_res: pieces of whatever length never leave the buffer.
THEOREM FitsBufferHolds == Spec => []FitsBuffer
<1>1. IInv => FitsBuffer
    BY DEF IInv
<1>2. QED
    BY <1>1, InductiveInvariant, PTL

-----------------------------------------------------------------------------
(* The refinement.                                                         *)

\* Each step of the two functions, of the line and of the chip is one of the
\* abstract call's, or none.
LEMMA StepRefines == IInv /\ [Next]_vars /\ IInv' => [Rpc!Next]_(Rpc!vars)
<1> SUFFICES ASSUME IInv, [Next]_vars, IInv' PROVE [Rpc!Next]_(Rpc!vars)
    OBVIOUS
<1>1. CASE LtCommand
  <2>1. /\ pc = "idle" /\ pc' = "check" /\ call < MaxCalls /\ call' = call + 1
        /\ UNCHANGED <<ret, executed>>
      BY <1>1 DEF LtCommand, chipVars
  <2>2. Rpc!Begin
      BY <2>1 DEF Rpc!Begin
  <2>3. QED
      BY <2>2 DEF Rpc!Next
<1>2. CASE Host
  <2>1. /\ UNCHANGED <<call, executed>> /\ pc # "idle"
        /\ \/ pc' = "idle"
           \/ pc' # "idle" /\ ret' = ret
    <3>1. CASE CheckSize
        BY <3>1 DEF CheckSize, chipVars, Return
    <3>2. CASE Send
        BY <3>2 DEF Send, Write, WriteFails, Return
    <3>3. CASE Sent
        BY <3>3 DEF Sent, Read, ReadFails, Return, SendAnswered, NextChunk
    <3>4. CASE Resend
        BY <3>4 DEF Resend, Write, WriteFails, Return
    <3>5. CASE Resent
        BY <3>5 DEF Resent, Read, ReadFails, Return, ResendAnswered, NextChunk
    <3>6. CASE Recv
        BY <3>6 DEF Recv, Read, ReadFails, Return, ResultFrame, MorePieces
    <3>7. CASE Reask
        BY <3>7 DEF Reask, Write, WriteFails, Return
    <3>8. QED
        BY <1>2, <3>1, <3>2, <3>3, <3>4, <3>5, <3>6, <3>7 DEF Host
  <2>2. CASE pc' = "idle"
    <3>1. ret' = "LT_OK" => executed[call] = 1
        BY <2>1, <2>2 DEF IInv, ResultWhole
    <3>2. Rpc!Finish
        BY <2>1, <2>2, <3>1 DEF Rpc!Finish
    <3>3. QED
        BY <3>2 DEF Rpc!Next
  <2>3. CASE pc' # "idle" /\ ret' = ret
      BY <2>1, <2>3 DEF Rpc!vars
  <2>4. QED
      BY <2>1, <2>2, <2>3
<1>3. CASE ChipExecutes
  <2>1. PICK c \in 1..call :
          executed[c] = 0 /\ executed' = [executed EXCEPT ![c] = @ + 1]
      BY <1>3, ExecutedCommand
  <2>2. c \in 1..MaxCalls /\ c <= call /\ executed \in [1..MaxCalls -> Nat]
    <3>1. call \in 0..MaxCalls /\ MaxCalls \in Nat /\ executed \in [1..MaxCalls -> Nat]
        BY SizesAssumption DEF IInv, TypeOK, Calls
    <3>2. c \in 1..MaxCalls /\ c <= call
        BY <3>1
    <3>3. QED
        BY <3>1, <3>2
  <2>3. executed' = [executed EXCEPT ![c] = 1]
      BY <2>1, <2>2
  <2>4. UNCHANGED <<call, pc, ret>>
      BY <1>3 DEF ChipExecutes, hostVars
  <2>5. Rpc!Execute(c)
      BY <2>1, <2>2, <2>3, <2>4 DEF Rpc!Execute
  <2>6. QED
      BY <2>2, <2>5 DEF Rpc!Next
<1>4. CASE Chip /\ ~ChipExecutes
  <2>1. UNCHANGED <<call, pc, ret, executed>>
      BY <1>4 DEF Chip, ChipRefuses, ChipResends, ChipTakesChunk, ChipRejects,
                  ChipSendsPiece, ChipHasNoResult, ChipReset, hostVars
  <2>2. QED
      BY <2>1 DEF Rpc!vars
<1>5. CASE UNCHANGED vars
    BY <1>5 DEF vars, hostVars, chipVars, Rpc!vars
<1>6. QED
    BY <1>1, <1>2, <1>3, <1>4, <1>5 DEF Next

\* A command sent in chunks with retries of every frame is still one remote
\* call: executed at most once, and executed if lt_l2_recv_encrypted_res
\* returns LT_OK.
THEOREM Implementation == Spec => ImplementsRpc
<1>1. Init => Rpc!Init
    BY DEF Init, Rpc!Init, Calls
<1>2. QED
    BY <1>1, StepRefines, InductiveInvariant, PTL DEF Spec, ImplementsRpc, Rpc!Spec
-----------------------------------------------------------------------------
(* That a command returns is liveness, and TLC's.  What keeps it from going *)
(* on for ever is not: there are so many frames, and for each of them so    *)
(* many reads and writes.                                                   *)

\* How many chunks and pieces the command has left at most.
FramesLeft ==
    CASE pc = "idle" -> 0
      [] pc \in {"recv", "reask", "reasked"} -> RecvMaxChunks - chunks_received
      [] OTHER -> chunk_num - i + RecvMaxChunks

\* How many steps the chunk or piece under way has left at most.
FrameStepsLeft ==
    LET left == 2 * (LT_CRC_ERR_RETRY_ATTEMPTS - frame_resend_counter) IN
    [idle |-> 0, check |-> left + 3,
     send |-> left + 2, sent |-> left + 1, resend |-> left, resent |-> left + 1,
     recv |-> left + 1, reask |-> left + 2, reasked |-> left + 1][pc]

LEMMA FramesLeftValues ==
    /\ pc = "idle" => FramesLeft = 0
    /\ pc \in {"recv", "reask", "reasked"} => FramesLeft = RecvMaxChunks - chunks_received
    /\ pc \in {"check", "send", "sent", "resend", "resent"} =>
          FramesLeft = chunk_num - i + RecvMaxChunks
BY Zenon DEF FramesLeft

LEMMA FramesLeftBound ==
    ASSUME IInv
    PROVE  /\ FramesLeft \in Nat /\ (pc # "idle" => FramesLeft > 0)
           /\ chunk_num \in Int /\ i \in Nat
           /\ chunks_received \in Nat /\ RecvMaxChunks \in Nat
<1>1. /\ TypeOK /\ Sending /\ Receiving
      /\ i \in Nat /\ chunks_received \in Nat /\ RecvMaxChunks \in Nat \ {0}
    BY SizesAssumption DEF IInv, TypeOK
<1>2. chunk_num \in Int
    BY <1>1, SizesAssumption DEF TypeOK, chunk_num
<1>3. CASE pc = "idle"
    BY <1>1, <1>2, <1>3, FramesLeftValues
<1>4. CASE pc \in {"check", "send", "sent", "resend", "resent"}
    BY <1>1, <1>2, <1>4, FramesLeftValues DEF Sending
<1>5. CASE pc \in {"recv", "reask", "reasked"}
    BY <1>1, <1>2, <1>5, FramesLeftValues DEF Receiving
<1>6. QED
    BY <1>1, <1>3, <1>4, <1>5 DEF TypeOK

LEMMA FrameStepsLeftBound ==
    TypeOK => FrameStepsLeft \in 0..(2 * LT_CRC_ERR_RETRY_ATTEMPTS + 3)
BY SizesAssumption DEF TypeOK, FrameStepsLeft

\* One step nearer to the end of the command, or of the frame under way.
Descends ==
    \/ FramesLeft' < FramesLeft
    \/ FramesLeft' = FramesLeft /\ FrameStepsLeft' < FrameStepsLeft

\* The command ends.
LEMMA ReturnDescends == ASSUME IInv, pc # "idle", pc' = "idle" PROVE Descends
<1>1. FramesLeft' = 0
    BY Zenon DEF FramesLeft
<1>2. QED
    BY <1>1, FramesLeftBound DEF Descends

\* The chunk under way is answered.
LEMMA NextChunkDescends ==
    ASSUME IInv, pc \in {"sent", "resent"}, NextChunk, chunks_received' = chunks_received
    PROVE  Descends
<1>1. /\ FramesLeft = chunk_num - i + RecvMaxChunks
      /\ i' = i + 1 /\ chunk_num' = chunk_num
      /\ pc' = IF i + 1 = chunk_num THEN "recv" ELSE "send"
    BY FramesLeftValues DEF NextChunk, chunk_num
<1>2. chunks_received' = 0
    BY DEF IInv, Sending
<1>3. FramesLeft' = chunk_num - (i + 1) + RecvMaxChunks
  <2>1. CASE pc' = "recv"
    <3>1. FramesLeft' = RecvMaxChunks - chunks_received'
        BY <2>1, Zenon DEF FramesLeft
    <3>2. QED
        BY <3>1, <2>1, <1>1, <1>2, FramesLeftBound
  <2>2. CASE pc' = "send"
    <3>1. FramesLeft' = chunk_num' - i' + RecvMaxChunks
        BY <2>2, Zenon DEF FramesLeft
    <3>2. QED
        BY <3>1, <1>1
  <2>3. QED
      BY <1>1, <2>1, <2>2
<1>4. QED
    BY <1>1, <1>3, FramesLeftBound DEF Descends

\* The frame under way goes on with fewer steps.
LEMMA SameFrameDescends ==
    ASSUME IInv, UNCHANGED <<size, i, chunks_received>>,
           FrameStepsLeft' < FrameStepsLeft,
           \/ /\ pc \in {"check", "send", "sent", "resend", "resent"}
              /\ pc' \in {"check", "send", "sent", "resend", "resent"}
           \/ /\ pc \in {"recv", "reask", "reasked"}
              /\ pc' \in {"recv", "reask", "reasked"}
    PROVE  Descends
<1>1. chunk_num' = chunk_num
    BY DEF chunk_num
<1>2. FramesLeft' = FramesLeft
  <2>1. CASE pc \in {"recv", "reask", "reasked"}
    <3>1. FramesLeft' = RecvMaxChunks - chunks_received'
        BY <2>1, Zenon DEF FramesLeft
    <3>2. QED
        BY <2>1, <3>1, FramesLeftValues
  <2>2. CASE pc \in {"check", "send", "sent", "resend", "resent"}
    <3>1. FramesLeft' = chunk_num' - i' + RecvMaxChunks
        BY <2>2, Zenon DEF FramesLeft
    <3>2. QED
        BY <2>2, <3>1, <1>1, FramesLeftValues
  <2>3. QED
      BY <2>1, <2>2
<1>3. QED
    BY <1>2 DEF Descends

LEMMA HostDescends == ASSUME IInv, IInv', Host PROVE Descends
<1> DEFINE frc == frame_resend_counter
           more(x) == 2 * (LT_CRC_ERR_RETRY_ATTEMPTS - x)
<1>1. /\ LT_CRC_ERR_RETRY_ATTEMPTS \in Nat
      /\ frc \in 0..LT_CRC_ERR_RETRY_ATTEMPTS /\ frc' \in 0..LT_CRC_ERR_RETRY_ATTEMPTS
      /\ pc = "resend" => frc < LT_CRC_ERR_RETRY_ATTEMPTS
    BY SizesAssumption DEF IInv, TypeOK, Sending, RetriesLeft
<1>2. CASE CheckSize
  <2>1. /\ pc = "check" /\ pc' \in {"idle", "send"}
        /\ UNCHANGED <<size, i, chunks_received, frame_resend_counter>>
      BY <1>2 DEF CheckSize, sendVars, recvVars, Return
  <2>2. pc' = "send" => FrameStepsLeft' < FrameStepsLeft
      BY <1>1, <2>1 DEF FrameStepsLeft
  <2>3. QED
      BY <2>1, <2>2, ReturnDescends, SameFrameDescends
<1>3. CASE Send
  <2>1. /\ pc = "send" /\ pc' \in {"idle", "sent"}
        /\ UNCHANGED <<size, i, chunks_received, frame_resend_counter>>
      BY <1>3 DEF Send, sendVars, recvVars, Return
  <2>2. pc' = "sent" => FrameStepsLeft' < FrameStepsLeft
      BY <1>1, <2>1 DEF FrameStepsLeft
  <2>3. QED
      BY <2>1, <2>2, ReturnDescends, SameFrameDescends
<1>4. CASE Sent
  <2>1. /\ pc = "sent" /\ chunks_received' = chunks_received
        /\ \/ pc' = "idle"
           \/ NextChunk
           \/ /\ UNCHANGED <<size, i>>
              /\ \/ pc' = "send" /\ frc' = frc + 1
                 \/ pc' = "resend" /\ frc' = frc
      BY <1>4 DEF Sent, SendAnswered, sendVars, recvVars, Return
  <2>2. CASE pc' = "idle"
      BY <2>1, <2>2, ReturnDescends
  <2>3. CASE NextChunk
      BY <2>1, <2>3, NextChunkDescends
  <2>4. CASE /\ UNCHANGED <<size, i>>
             /\ \/ pc' = "send" /\ frc' = frc + 1
                \/ pc' = "resend" /\ frc' = frc
    <3>1. FrameStepsLeft' < FrameStepsLeft
        BY <1>1, <2>1, <2>4 DEF FrameStepsLeft
    <3>2. QED
        BY <2>1, <2>4, <3>1, SameFrameDescends
  <2>5. QED
      BY <2>1, <2>2, <2>3, <2>4
<1>5. CASE Resend
  <2>1. /\ pc = "resend" /\ pc' \in {"idle", "resent"} /\ frc' = frc + 1
        /\ UNCHANGED <<size, i, chunks_received>>
      BY <1>5 DEF Resend, sendVars, recvVars, Return
  <2>2. pc' = "resent" => FrameStepsLeft' < FrameStepsLeft
      BY <1>1, <2>1 DEF FrameStepsLeft
  <2>3. QED
      BY <2>1, <2>2, ReturnDescends, SameFrameDescends
<1>6. CASE Resent
  <2>1. /\ pc = "resent" /\ chunks_received' = chunks_received
        /\ \/ pc' = "idle"
           \/ NextChunk
           \/ UNCHANGED <<size, i>> /\ pc' = "resend" /\ frc' = frc
      BY <1>6 DEF Resent, ResendAnswered, sendVars, recvVars, Return
  <2>2. CASE pc' = "idle"
      BY <2>1, <2>2, ReturnDescends
  <2>3. CASE NextChunk
      BY <2>1, <2>3, NextChunkDescends
  <2>4. CASE UNCHANGED <<size, i>> /\ pc' = "resend" /\ frc' = frc
    <3>1. FrameStepsLeft' < FrameStepsLeft
        BY <1>1, <2>1, <2>4 DEF FrameStepsLeft
    <3>2. QED
        BY <2>1, <2>4, <3>1, SameFrameDescends
  <2>5. QED
      BY <2>1, <2>2, <2>3, <2>4
<1>7. CASE Recv
  <2>1. /\ pc \in {"recv", "reasked"} /\ UNCHANGED <<size, i>>
        /\ \/ pc' = "idle"
           \/ pc' = "recv" /\ chunks_received' = chunks_received + 1
           \/ pc' = "reask" /\ frc' = frc + 1 /\ chunks_received' = chunks_received
      BY <1>7 DEF Recv, ResultFrame, MorePieces, sendVars, recvVars, Return
  <2>2. pc' = "reask" /\ frc' = frc + 1 => FrameStepsLeft' < FrameStepsLeft
      BY <1>1, <2>1 DEF FrameStepsLeft
  <2>3. pc' = "recv" /\ chunks_received' = chunks_received + 1 => Descends
    <3>1. pc' = "recv" => FramesLeft' = RecvMaxChunks - chunks_received'
        BY Zenon DEF FramesLeft
    <3>2. QED
        BY <2>1, <3>1, FramesLeftValues, FramesLeftBound DEF Descends
  <2>4. QED
      BY <2>1, <2>2, <2>3, ReturnDescends, SameFrameDescends
<1>8. CASE Reask
  <2>1. /\ pc = "reask" /\ pc' \in {"idle", "reasked"}
        /\ UNCHANGED <<size, i, chunks_received, frame_resend_counter>>
      BY <1>8 DEF Reask, sendVars, recvVars, Return
  <2>2. pc' = "reasked" => FrameStepsLeft' < FrameStepsLeft
      BY <1>1, <2>1 DEF FrameStepsLeft
  <2>3. QED
      BY <2>1, <2>2, ReturnDescends, SameFrameDescends
<1>9. QED
    BY <1>2, <1>3, <1>4, <1>5, <1>6, <1>7, <1>8 DEF Host

\* Every step of lt_l2_send_encrypted_cmd and lt_l2_recv_encrypted_res leaves fewer
\* frames to come or fewer steps for the frame under way, whatever the line does
\* and however many empty pieces the chip sends.
FramesRunOut == [][Host => Descends]_vars

THEOREM FramesRunOutHolds ==
    Spec => [](FramesLeft \in Nat /\ FrameStepsLeft \in Nat) /\ FramesRunOut
<1>1. IInv => FramesLeft \in Nat
    BY FramesLeftBound
<1>2. IInv => FrameStepsLeft \in Nat
    BY FrameStepsLeftBound, SizesAssumption DEF IInv
<1>3. IInv /\ IInv' => [Host => Descends]_vars
    BY HostDescends
<1>4. QED
    BY <1>1, <1>2, <1>3, InductiveInvariant, PTL DEF FramesRunOut
=============================================================================
