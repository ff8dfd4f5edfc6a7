----------------------------- MODULE L2Encrypted -----------------------------
(***************************************************************************)
(* lt_l2_send_encrypted_cmd and lt_l2_recv_encrypted_res of libtropic_l2.c: *)
(* an L3 packet goes to the chip in chunks and its result comes back in     *)
(* pieces, each frame with its own retries, over the line of L2Transfer.    *)
(*                                                                         *)
(* A packet is a sequence of cells, each of which knows the call it belongs *)
(* to, its position and the length of its packet.  The first cell is the    *)
(* SIZE field: it is all that tells the chip where a packet ends.  No chunk *)
(* has a number: a chunk lost, repeated, or left over from a call that gave *)
(* up changes the packet, and only the tag of Layer 3 would show it.        *)
(***************************************************************************)
EXTENDS L2Frame, Integers, Sequences

CONSTANTS
    MaxCalls,                   \* bound on the number of calls
    CmdSizes,                   \* packet_size of the commands a caller makes
    ResSizes,                   \* sizes of the results the chip makes
    ChunkMax,                   \* TR01_L2_CHUNK_MAX_DATA_SIZE
    PacketMax,                  \* TR01_L3_PACKET_MAX_SIZE; also buff_len, max_len
    RecvMaxChunks,              \* LT_L2_RECV_ENC_RES_MAX_CHUNKS
    LT_CRC_ERR_RETRY_ATTEMPTS,
    Garbled                     \* Garbled[s]: statuses line noise can turn s into

ASSUME SizesAssumption ==
    /\ CmdSizes \subseteq Nat \ {0} /\ ResSizes \subseteq Nat \ {0}
    /\ ChunkMax \in Nat \ {0} /\ PacketMax \in Nat /\ RecvMaxChunks \in Nat \ {0}
    /\ MaxCalls \in Nat /\ LT_CRC_ERR_RETRY_ATTEMPTS \in Nat

\* What Layer 2 relies on: noise turns no CRC_ERR into a status by which the
\* host moves on or asks again, and none of these into CRC_ERR.
MoveOn == CrcChecked \cup {"REQUEST_CONT", "RESULT_CONT"}

ASSUME GarbledAssumption ==
    /\ Garbled \in [Status -> SUBSET Status]
    /\ \A s \in MoveOn : "CRC_ERR" \notin Garbled[s]
    /\ Garbled["CRC_ERR"] \cap MoveOn = {}

VARIABLES
    pc,                     \* where the host is in the two functions
    call,                   \* number of the current call
    size,                   \* packet_size
    i,                      \* chunks the chip has acknowledged
    buff_offset,
    frame_resend_counter,
    received,               \* the L3 buffer up to offset
    chunks_received,
    ret,                    \* what the latest finished call returned
    damaged                 \* a piece whose CRC is wrong is in the L3 buffer

VARIABLES
    chip_in,                \* request the chip has received and not yet processed
    chip_out,               \* response the host has not yet read
    chip_last,              \* response a Resend_Req asks for
    chip_packet,            \* chunks of a packet that is not yet complete
    chip_result,            \* what is left to send of the result
    executed                \* how many times the chip executed each call

hostVars == <<pc, call, size, i, buff_offset, frame_resend_counter, received,
              chunks_received, ret, damaged>>
chipVars == <<chip_in, chip_out, chip_last, chip_packet, chip_result, executed>>
vars == <<hostVars, chipVars>>

-----------------------------------------------------------------------------
Calls == 1..MaxCalls
Sizes == CmdSizes \cup ResSizes

Cell == [call : 0..MaxCalls, pos : Nat, of : Nat]

\* The n cells of call c's packet, or of its result.
Cells(c, n) == [k \in 1..n |-> [call |-> c, pos |-> k, of |-> n]]

\* n cells that noise has made unreadable.
NoiseCells(n) == [k \in 1..n |-> [call |-> 0, pos |-> 0, of |-> 0]]

\* Requests and responses, and none of either.
Request == [kind : {"req", "resend"}, status : {"none"}, crc : {"good", "bad"}, data : Seq(Cell)]
Response == [kind : {"rsp"}, status : Status, crc : {"good"}, data : Seq(Cell)]

None == [kind |-> "none", status |-> "none", crc |-> "good", data |-> <<>>]
Chunk(d) == [kind |-> "req", status |-> "none", crc |-> "good", data |-> d]
ResendReq == [kind |-> "resend", status |-> "none", crc |-> "good", data |-> <<>>]
Rsp(s, d) == [kind |-> "rsp", status |-> s, crc |-> "good", data |-> d]

\* A message after noise: a CRC that is wrong, status s, n unreadable cells.
Noisy(m, s, n) == [m EXCEPT !.crc = "bad", !.status = s, !.data = NoiseCells(n)]

\* A request as it may arrive, and a response as it may arrive: whole, with a
\* wrong length and payload, with a length no frame has, or with bits of its status
\* flipped as well, but not to NO_RESP, which lt_l1_read takes for no response yet.
AtChip(m) == {m, Noisy(m, m.status, 0)}
AtHost(f) ==
    ({f} \ {Rsp("NO_RESP", <<>>)})
      \cup {Noisy(f, s, n) : s \in (Garbled[f.status] \cup {f.status}) \ {"NO_RESP"},
                             n \in 0..ChunkMax}
      \cup {[f EXCEPT !.crc = "long", !.data = <<>>]}

L1Error == {"LT_HAL_ERROR", "LT_L1_CHIP_BUSY", "LT_L1_CHIP_ALARM_MODE",
            "LT_L1_DATA_LEN_ERROR"}

Ret == {StatusRet[s] : s \in Status} \cup L1Error
         \cup {"LT_L2_IN_CRC_ERR", "LT_L2_RSP_LEN_ERROR", "LT_L3_DATA_LEN_ERROR"}

TypeOK ==
    /\ pc \in {"idle", "check", "send", "sent", "resend", "resent",
               "recv", "reask", "reasked"}
    /\ call \in 0..MaxCalls
    /\ size \in CmdSizes \cup {0}
    /\ i \in Nat /\ buff_offset \in Nat
    /\ frame_resend_counter \in 0..LT_CRC_ERR_RETRY_ATTEMPTS
    /\ received \in Seq(Cell)
    /\ chunks_received \in 0..RecvMaxChunks
    /\ ret \in Ret
    /\ damaged \in BOOLEAN
    /\ chip_in \in Request \cup {None}
    /\ chip_out \in Response \cup {None}
    /\ chip_last \in Response
    /\ chip_packet \in Seq(Cell)
    /\ chip_result \in Seq(Cell)
    /\ executed \in [Calls -> Nat]

Init ==
    /\ pc = "idle"
    /\ call = 0
    /\ size = 0
    /\ i = 0
    /\ buff_offset = 0
    /\ frame_resend_counter = 0
    /\ received = <<>>
    /\ chunks_received = 0
    /\ ret = "LT_L1_CHIP_BUSY"
    /\ damaged = FALSE
    /\ chip_in = None
    /\ chip_out = None
    /\ chip_last = Rsp("NO_RESP", <<>>)
    /\ chip_packet = <<>>
    /\ chip_result = <<>>
    /\ executed = [c \in Calls |-> 0]

-----------------------------------------------------------------------------
\* Layer 1, as in L2Transfer.

Write(m) ==
    /\ chip_in' \in AtChip(m)
    /\ chip_out' = None
    /\ UNCHANGED <<chip_last, chip_packet, chip_result, executed>>

WriteFails(m) ==
    /\ \/ UNCHANGED <<chip_in, chip_out>>
       \/ chip_in' \in AtChip(m) /\ chip_out' = None
    /\ UNCHANGED <<chip_last, chip_packet, chip_result, executed>>

Read ==
    /\ chip_out.kind = "rsp"
    /\ chip_out' = None
    /\ UNCHANGED <<chip_in, chip_last, chip_packet, chip_result, executed>>

ReadFails ==
    /\ chip_out' \in {chip_out, None}
    /\ UNCHANGED <<chip_in, chip_last, chip_packet, chip_result, executed>>

Return(r) ==
    /\ ret' = r
    /\ pc' = "idle"

-----------------------------------------------------------------------------
\* lt_l2_send_encrypted_cmd.
sendVars == <<size, i, buff_offset>>
recvVars == <<received, chunks_received, damaged>>

\* A lt_* function has encrypted a command into the L3 buffer and calls
\* lt_l2_send_encrypted_cmd, and on LT_OK lt_l2_recv_encrypted_res.
LtCommand ==
    /\ pc = "idle"
    /\ call < MaxCalls
    /\ call' = call + 1
    /\ size' \in CmdSizes
    /\ i' = 0 /\ buff_offset' = 0
    /\ frame_resend_counter' = 0
    /\ received' = <<>> /\ chunks_received' = 0 /\ damaged' = FALSE
    /\ pc' = "check"
    /\ UNCHANGED <<ret, chipVars>>

\* Nothing is sent of a packet longer than the longest.
CheckSize ==
    /\ pc = "check"
    /\ IF size > PacketMax
       THEN Return("LT_L3_DATA_LEN_ERROR")
       ELSE pc' = "send" /\ UNCHANGED ret
    /\ UNCHANGED <<call, sendVars, frame_resend_counter, recvVars, chipVars>>

chunk_num == (size + ChunkMax - 1) \div ChunkMax
last_chunk_len == size - (chunk_num - 1) * ChunkMax
req_len == IF i = chunk_num - 1 THEN last_chunk_len ELSE ChunkMax

\* The chunk at buff_offset, and the write of it.
CurrentChunk ==
    Chunk(SubSeq(Cells(call, size), buff_offset + 1, buff_offset + req_len))

Send ==
    /\ pc = "send"
    /\ \/ Write(CurrentChunk) /\ pc' = "sent" /\ UNCHANGED ret
       \/ WriteFails(CurrentChunk) /\ Return("LT_HAL_ERROR")
    /\ UNCHANGED <<call, sendVars, frame_resend_counter, recvVars>>

\* A mutant of RetriesLeft: one retry too many.
RetriesLeftOffByOne == frame_resend_counter <= LT_CRC_ERR_RETRY_ATTEMPTS

RetriesLeft == frame_resend_counter < LT_CRC_ERR_RETRY_ATTEMPTS

\* The chip has the chunk: on to the next, or to the result.
NextChunk ==
    /\ buff_offset' = buff_offset + req_len
    /\ i' = i + 1
    /\ frame_resend_counter' = 0
    /\ pc' = IF i + 1 = chunk_num THEN "recv" ELSE "send"
    /\ UNCHANGED <<size, ret>>

\* A mutant of SendAnswered: a corrupted answer repeats the chunk.
SendAnsweredRepeating(r) ==
    \/ /\ r \in {"LT_L2_CRC_ERR", "LT_L2_IN_CRC_ERR"} /\ RetriesLeft
       /\ frame_resend_counter' = frame_resend_counter + 1
       /\ pc' = "send"
       /\ UNCHANGED <<sendVars, ret>>
    \/ r \in {"LT_OK", "LT_L2_REQ_CONT"} /\ NextChunk
    \/ /\ r \notin {"LT_OK", "LT_L2_REQ_CONT"}
       /\ r \in {"LT_L2_CRC_ERR", "LT_L2_IN_CRC_ERR"} => ~RetriesLeft
       /\ Return(r)
       /\ UNCHANGED <<sendVars, frame_resend_counter>>

\* What the loop over the chunks does with the check r of an answer: the same
\* chunk again if it arrived corrupted, the answer again if that did.
SendAnswered(r) ==
    \/ /\ r = "LT_L2_CRC_ERR" /\ RetriesLeft
       /\ frame_resend_counter' = frame_resend_counter + 1
       /\ pc' = "send"
       /\ UNCHANGED <<sendVars, ret>>
    \/ /\ r = "LT_L2_IN_CRC_ERR" /\ RetriesLeft
       /\ pc' = "resend"
       /\ UNCHANGED <<sendVars, frame_resend_counter, ret>>
    \/ r \in {"LT_OK", "LT_L2_REQ_CONT"} /\ NextChunk
    \/ /\ r \notin {"LT_OK", "LT_L2_REQ_CONT"}
       /\ r \in {"LT_L2_CRC_ERR", "LT_L2_IN_CRC_ERR"} => ~RetriesLeft
       /\ Return(r)
       /\ UNCHANGED <<sendVars, frame_resend_counter>>

\* A mutant of ResendAnswered: CRC_ERR to a Resend_Req is taken for CRC_ERR to
\* the chunk, which is sent again.
ResendAnsweredAnew(r) ==
    \/ /\ r = "LT_L2_CRC_ERR" /\ RetriesLeft
       /\ pc' = "send"
       /\ UNCHANGED <<sendVars, frame_resend_counter, ret>>
    \/ r \in {"LT_OK", "LT_L2_REQ_CONT"} /\ NextChunk
    \/ /\ r \notin {"LT_OK", "LT_L2_REQ_CONT"}
       /\ r = "LT_L2_CRC_ERR" => ~RetriesLeft
       /\ Return(r)
       /\ UNCHANGED <<sendVars, frame_resend_counter>>

\* What the loop of Resend_Reqs does, and the code behind it.
ResendAnswered(r) ==
    \/ /\ r \in {"LT_L2_IN_CRC_ERR", "LT_L2_CRC_ERR"} /\ RetriesLeft
       /\ pc' = "resend"
       /\ UNCHANGED <<sendVars, frame_resend_counter, ret>>
    \/ r \in {"LT_OK", "LT_L2_REQ_CONT"} /\ NextChunk
    \/ /\ r \notin {"LT_OK", "LT_L2_REQ_CONT"}
       /\ r \in {"LT_L2_CRC_ERR", "LT_L2_IN_CRC_ERR"} => ~RetriesLeft
       /\ Return(r)
       /\ UNCHANGED <<sendVars, frame_resend_counter>>

Sent ==
    /\ pc = "sent"
    /\ \/ Read /\ \E f \in AtHost(chip_out) : SendAnswered(FrameCheck(f))
       \/ /\ ReadFails
          /\ \E e \in L1Error : Return(e)
          /\ UNCHANGED <<sendVars, frame_resend_counter>>
    /\ UNCHANGED <<call, recvVars>>

\* lt_l2_resend_response, write and read, within the loop over the chunks.
Resend ==
    /\ pc = "resend"
    /\ frame_resend_counter' = frame_resend_counter + 1
    /\ \/ Write(ResendReq) /\ pc' = "resent" /\ UNCHANGED ret
       \/ WriteFails(ResendReq) /\ Return("LT_HAL_ERROR")
    /\ UNCHANGED <<call, sendVars, recvVars>>

Resent ==
    /\ pc = "resent"
    /\ \/ Read /\ \E f \in AtHost(chip_out) : ResendAnswered(FrameCheck(f))
       \/ /\ ReadFails
          /\ \E e \in L1Error : Return(e)
          /\ UNCHANGED <<sendVars, frame_resend_counter>>
    /\ UNCHANGED <<call, recvVars>>

-----------------------------------------------------------------------------
\* lt_l2_recv_encrypted_res.

\* Mutants of Fits and CopyPiece: a buffer of the chip's size plus one chunk is
\* assumed; a piece is copied to the start of the buffer.
FitsBefore(f) == Len(received) <= PacketMax
CopyPieceToStart(f) == received' = f.data

Fits(f) == Len(received) + Len(f.data) <= PacketMax

CopyPiece(f) == received' = received \o f.data

\* Mutant of MorePieces: the pieces are not counted.
MorePiecesAlways == chunks_received' = chunks_received /\ pc' = "recv" /\ UNCHANGED ret

\* The loop's condition: the next piece, or too many of them.
MorePieces ==
    /\ chunks_received' = chunks_received + 1
    /\ IF chunks_received + 1 < RecvMaxChunks
       THEN pc' = "recv" /\ UNCHANGED ret
       ELSE Return("LT_L3_DATA_LEN_ERROR")

\* What one round of the loop does with a frame.
ResultFrame(f) ==
    LET r == FrameCheck(f) IN
    \/ /\ r \in {"LT_OK", "LT_L2_RES_CONT"} /\ ~Fits(f)
       /\ Return("LT_L2_RSP_LEN_ERROR")
       /\ UNCHANGED <<recvVars, frame_resend_counter>>
    \/ /\ r = "LT_L2_RES_CONT" /\ Fits(f)
       /\ CopyPiece(f)
       /\ damaged' = (damaged \/ f.crc = "bad")
       /\ frame_resend_counter' = 0
       /\ MorePieces
    \/ /\ r = "LT_OK" /\ Fits(f)
       /\ CopyPiece(f)
       /\ Return("LT_OK")
       /\ UNCHANGED <<chunks_received, damaged, frame_resend_counter>>
    \/ /\ r \in {"LT_L2_IN_CRC_ERR", "LT_L2_CRC_ERR"} /\ RetriesLeft
       /\ frame_resend_counter' = frame_resend_counter + 1
       /\ pc' = "reask"
       /\ UNCHANGED <<recvVars, ret>>
    \/ /\ r \notin {"LT_OK", "LT_L2_RES_CONT"}
       /\ r \in {"LT_L2_IN_CRC_ERR", "LT_L2_CRC_ERR"} => ~RetriesLeft
       /\ Return(r)
       /\ UNCHANGED <<recvVars, frame_resend_counter>>

\* lt_l1_read, for the next piece or within lt_l2_resend_response.
Recv ==
    /\ pc \in {"recv", "reasked"}
    /\ \/ Read /\ \E f \in AtHost(chip_out) : ResultFrame(f)
       \/ /\ ReadFails
          /\ \E e \in L1Error : Return(e)
          /\ UNCHANGED <<recvVars, frame_resend_counter>>
    /\ UNCHANGED <<call, sendVars>>

Reask ==
    /\ pc = "reask"
    /\ \/ Write(ResendReq) /\ pc' = "reasked" /\ UNCHANGED ret
       \/ WriteFails(ResendReq) /\ Return("LT_HAL_ERROR")
    /\ UNCHANGED <<call, sendVars, frame_resend_counter, recvVars>>

-----------------------------------------------------------------------------
\* The chip, as libtropic_l2.c treats it.
Answer(f) == chip_in' = None /\ chip_out' = f

ChipRefuses ==
    /\ chip_in.kind # "none" /\ chip_in.crc = "bad"
    /\ Answer(Rsp("CRC_ERR", <<>>))
    /\ chip_last' \in {chip_last, chip_out'}
    /\ UNCHANGED <<chip_packet, chip_result, executed, hostVars>>

ChipResends ==
    /\ chip_in = ResendReq
    /\ Answer(chip_last)
    /\ UNCHANGED <<chip_last, chip_packet, chip_result, executed, hostVars>>

\* The packet p by its SIZE field, which is any number if the cell there is
\* not the first of its packet.
IsComplete(p) == p # <<>> /\ (p[1].pos # 1 \/ Len(p) >= p[1].of)
IsPartial(p) == p = <<>> \/ p[1].pos # 1 \/ Len(p) < p[1].of

\* A packet whose tag can be right: all of one command, and nothing else.
IsWhole(p) == p = Cells(p[1].call, p[1].of)

ChunkTaken == chip_packet \o chip_in.data

ChipTakesChunk ==
    /\ chip_in.kind = "req" /\ chip_in.crc = "good"
    /\ IsPartial(ChunkTaken)
    /\ chip_packet' = ChunkTaken
    /\ Answer(Rsp("REQUEST_CONT", <<>>))
    /\ chip_last' = chip_out'
    /\ chip_result' = <<>>
    /\ UNCHANGED <<executed, hostVars>>

\* The chip acknowledges the last chunk, then executes the command.
ChipExecutes ==
    /\ chip_in.kind = "req" /\ chip_in.crc = "good"
    /\ IsComplete(ChunkTaken) /\ IsWhole(ChunkTaken)
    /\ chip_packet' = <<>>
    /\ Answer(Rsp("REQUEST_OK", <<>>))
    /\ chip_last' = chip_out'
    /\ LET c == ChunkTaken[1].call IN
          /\ executed' = [executed EXCEPT ![c] = @ + 1]
          /\ \E n \in ResSizes : chip_result' = Cells(c, n)
    /\ UNCHANGED hostVars

\* A packet that is not whole, or for which the chip has no session, is
\* refused with its last chunk or in place of a result.
ChipRejects ==
    /\ chip_in.kind = "req" /\ chip_in.crc = "good"
    /\ chip_packet' = <<>>
    /\ \/ \E s \in {"TAG_ERR", "NO_SESSION", "GEN_ERR"} : Answer(Rsp(s, <<>>))
       \/ IsComplete(ChunkTaken) /\ Answer(Rsp("REQUEST_OK", <<>>))
    /\ chip_last' = chip_out'
    /\ chip_result' = <<>>
    /\ UNCHANGED <<executed, hostVars>>

\* The chip is an SPI slave: it makes the next piece, of any length, when the
\* host polls for it.
Polled == pc = "recv" /\ chip_in = None /\ chip_out = None

ChipSendsPiece ==
    /\ Polled /\ chip_result # <<>>
    /\ \E n \in 0..ChunkMax :
          /\ n <= Len(chip_result)
          /\ chip_out' = Rsp(IF n = Len(chip_result) THEN "RESULT_OK" ELSE "RESULT_CONT",
                             SubSeq(chip_result, 1, n))
          /\ chip_result' = SubSeq(chip_result, n + 1, Len(chip_result))
    /\ chip_last' = chip_out'
    /\ UNCHANGED <<chip_in, chip_packet, executed, hostVars>>

ChipHasNoResult ==
    /\ Polled /\ chip_result = <<>>
    /\ \E s \in {"TAG_ERR", "NO_SESSION"} : chip_out' = Rsp(s, <<>>)
    /\ chip_last' = chip_out'
    /\ UNCHANGED <<chip_in, chip_packet, chip_result, executed, hostVars>>

\* The chip loses power or is reset.
ChipReset ==
    /\ chip_in' = None
    /\ chip_out' = None
    /\ chip_last' = Rsp("NO_RESP", <<>>)
    /\ chip_packet' = <<>>
    /\ chip_result' = <<>>
    /\ UNCHANGED <<executed, hostVars>>

Host == CheckSize \/ Send \/ Sent \/ Resend \/ Resent \/ Recv \/ Reask
Chip == \/ ChipRefuses \/ ChipResends \/ ChipTakesChunk \/ ChipExecutes
        \/ ChipRejects \/ ChipSendsPiece \/ ChipHasNoResult \/ ChipReset

Next == LtCommand \/ Host \/ Chip

Spec == Init /\ [][Next]_vars

\* As in L2Transfer: only the host's own steps are fair.
FairSpec == Spec /\ WF_vars(Host)

-----------------------------------------------------------------------------
\* The cells of this call that the chip holds run without a gap up to b.
Held(b) ==
    \A k \in 1..Len(chip_packet) :
        chip_packet[k].call = call => chip_packet[k].pos = b - Len(chip_packet) + k

\* No chunk is skipped or taken twice: when the host sends the next one, the
\* cells of this call that the chip holds run without a gap up to buff_offset;
\* when the host waits for the result, it has sent the whole packet.
ChunksInOrder ==
    /\ pc = "send" => Held(buff_offset)
    /\ pc \in {"recv", "reask", "reasked"} => buff_offset = size

\* LT_OK means that the chip executed this very command, and, unless a damaged
\* piece slipped through, that the L3 buffer holds its whole result: no piece
\* is missing, repeated, or from an earlier call.
ResultWhole ==
    pc = "idle" /\ ret = "LT_OK" =>
        /\ executed[call] = 1
        /\ ~damaged => \E n \in ResSizes : received = Cells(call, n)

\* Whatever lengths arrive, the pieces fit the L3 buffer.
FitsBuffer == Len(received) <= PacketMax

\* Every command returns: retries run out, and so do pieces, even empty ones.
CallReturns == (pc # "idle") ~> (pc = "idle")

\* "Frame received OK, resetting resend counter", says the code of a piece with
\* status RES_CONT: no piece in the L3 buffer has a wrong CRC.
PieceReceivedOk == ~damaged

\* The two functions implement the remote call of AtMostOnceRpc.
Rpc == INSTANCE AtMostOnceRpc WITH busy <- pc # "idle", ok <- ret = "LT_OK"

ImplementsRpc == Rpc!Spec

-----------------------------------------------------------------------------
(* The inductive invariant.                                                  *)

\* Calls are executed at most once, and not before they are made.
Once ==
    \A c \in Calls : executed[c] \in {0, 1} /\ (c > call => executed[c] = 0)

\* The chip holds nothing of calls that are not made yet.
Known == \A k \in 1..Len(chip_packet) : chip_packet[k].call <= call

\* d is the cells of call c that end at position b of n.
ChunkOf(d, c, b, n) ==
    /\ d # <<>>
    /\ \A k \in 1..Len(d) : d[k] = [call |-> c, pos |-> b - Len(d) + k, of |-> n]

\* A chunk that the chip has not processed, of this call or left by an earlier
\* one: if it is the last of its packet the call has not been executed.
Unprocessed(d, c, b, n) ==
    /\ ChunkOf(d, c, b, n)
    /\ c \in 1..call
    /\ b = n => executed[c] = 0
    /\ pc \in {"check", "send"} =>
          c < call /\ \A k \in 1..Len(chip_packet) : chip_packet[k].call # call
    /\ pc = "sent" =>
          c = call /\ b = buff_offset + req_len /\ n = size /\ Len(d) = req_len
    /\ pc \in {"idle", "check", "send", "sent"}

InFlight ==
    chip_in.kind = "req" /\ chip_in.crc = "good" =>
        LET end == chip_in.data[Len(chip_in.data)] IN
        Unprocessed(chip_in.data, end.call, end.pos, end.of)

\* Where the host is in its packet: only the last chunk completes it.
Sending ==
    pc \in {"check", "send", "sent", "resend", "resent"} =>
        /\ call \in Calls /\ size \in CmdSizes
        /\ received = <<>> /\ chunks_received = 0 /\ ~damaged
        /\ i < chunk_num /\ buff_offset = i * ChunkMax
        /\ executed[call] = 1 => i = chunk_num - 1
        /\ pc \in {"check", "send"} => executed[call] = 0
        /\ pc = "check" => \A k \in 1..Len(chip_packet) : chip_packet[k].call # call
        /\ pc = "send" => Held(buff_offset)
        /\ pc = "resend" => RetriesLeft

\* The chip has processed the chunk: what it has to send is of this call.
Fresh ==
    chip_result # <<>> =>
        executed[call] = 1 /\ \E n \in ResSizes : chip_result = Cells(call, n)

Taken == Fresh /\ Held(buff_offset + req_len)

\* The chunk is taken if the chip has answered, unless it asked for it again.
Acknowledged ==
    /\ pc = "sent" =>
          /\ chip_in.kind \in {"none", "req"}
          /\ chip_in.kind = "req" => executed[call] = 0 /\ Held(buff_offset)
          /\ chip_out.kind = "rsp" =>
                /\ chip_out.status \notin MoveOn => executed[call] = 0 /\ Held(buff_offset)
                /\ chip_out.status # "CRC_ERR" => Taken
    /\ pc \in {"resend", "resent"} => Taken /\ chip_in.kind \in {"none", "resend"}

\* The host has the beginning of its result up to d, which with the rest makes the
\* whole, unless a piece was damaged.
Continues(d) ==
    /\ executed[call] = 1
    /\ ~damaged => \E n \in ResSizes : received \o (d \o chip_result) = Cells(call, n)

\* f is the next piece; the last one if it says so.
Piece(f) == f.kind = "rsp" /\ f.status \in {"RESULT_OK", "RESULT_CONT"}
Follows(f) == Piece(f) => Continues(f.data) /\ (f.status = "RESULT_OK" => chip_result = <<>>)

Receiving ==
    pc \in {"recv", "reask", "reasked"} =>
        /\ call \in Calls /\ buff_offset = size /\ chunks_received < RecvMaxChunks
        /\ chip_in.kind \in {"none", "resend"}
        /\ chip_result # <<>> => executed[call] = 1
        /\ chip_out.kind = "rsp" => chip_out.status \notin {"REQUEST_OK", "REQUEST_CONT"}
        /\ Follows(chip_out)
        /\ pc = "recv" =>
              /\ chip_in.kind = "none"
              /\ chip_out.kind = "none" /\ chip_result # <<>> => Continues(<<>>)
              /\ chip_out.kind = "rsp" => chip_last = chip_out
        /\ pc \in {"reask", "reasked"} =>
              chip_last.status \notin {"REQUEST_OK", "REQUEST_CONT"} /\ Follows(chip_last)

\* The chip has answered what it was sent.
Answers == chip_out.kind = "rsp" => chip_in.kind = "none"

IInv ==
    /\ TypeOK
    /\ Once /\ Known /\ InFlight /\ Sending /\ Acknowledged /\ Receiving /\ Answers
    /\ ResultWhole /\ FitsBuffer
    /\ pc = "idle" /\ ret = "LT_OK" => call \in Calls
=============================================================================
