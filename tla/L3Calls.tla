------------------------------- MODULE L3Calls -------------------------------
(***************************************************************************)
(* The L3 Commands in the secure channel: SecureChannel with the command   *)
(* that each call is about.  A call of lt_X may be refused for its         *)
(* arguments before anything is sent; its Command is filled by lt_out__X,  *)
(* its Result is received up to a limit of its own and decoded by lt_in__X *)
(* (see L3Commands).                                                       *)
(***************************************************************************)
EXTENDS SecureChannel, L3Commands

CONSTANTS
    Requests,  \* what callers ask for
    Results,   \* what the chip may say, right or wrong
    SlotSizes  \* what lt_init_tr01_attrs may leave in the handle; 0 if it fails

\* Arguments are unsigned; the count of random bytes is a uint8_t; no caller has
\* a buffer of nearly 65536 bytes, so a length that wrapped fits in none.
ASSUME RequestsAssumption ==
    \A a \in Requests :
        /\ a.cmd \in Commands
        /\ a.slot \in Nat /\ a.n \in Nat /\ a.curve \in Nat
        /\ a.max \in Nat /\ a.max <= 65531
        /\ a.cmd = "random_value_get" => a.n <= 255
ASSUME ResultsAssumption == \A r \in Results : r.size \in Nat /\ r.size <= 65535
ASSUME SlotSizesAssumption == SlotSizes \subseteq {0, 444, 475}

VARIABLES
    slot_size,  \* tr01_attrs.r_mem_udata_slot_size_max
    request,    \* what the command under way is about
    output      \* what the latest call returned and copied to its caller, if it has ended

callVars == <<slot_size, request, output>>
l3vars == <<vars, callVars>>

\* No command is under way.
NoRequest == [cmd |-> "none"]

\* A call returned ret and copied so many bytes.  Kept for the properties: the
\* bytes of data in the Result, and the room in the caller's buffer.
Output(ret_, copied, data, room) ==
    [ret |-> ret_, copied |-> copied, data |-> data, room |-> room]
Nothing(ret_) == Output(ret_, 0, 0, 0)

L3Init ==
    /\ Init
    /\ slot_size \in SlotSizes
    /\ request = NoRequest
    /\ output = Nothing("LT_HOST_NO_SESSION")

\* A Result for the arguments of L3Command where none is needed.
NoResult == [result |-> "OK", size |-> 0, curve |-> P256]

\* What the code does about request a before there is a Result.
Asked(a) == L3Command(a, NoResult, slot_size)

\* The room that the caller's buffer has for the Result's data.
Room(a) ==
    CASE a.cmd \in {"ping", "random_value_get"} -> a.n
      [] a.cmd \in {"r_mem_data_read", "ecc_key_read"} -> a.max
      [] OTHER -> Asked(a).struct.res_data

-----------------------------------------------------------------------------
\* lt_X refuses its arguments, or lt_out__X does; the latter only looks at them
\* with a session, without one lt_X has returned LT_HOST_NO_SESSION.
Refused(a) ==
    \/ ~Asked(a).call.valid
    \/ session_status = "ON" /\ ~Asked(a).out.valid

LtRefused(a) ==
    /\ pc = "idle"
    /\ Refused(a)
    /\ output' = Nothing("LT_PARAM_ERR")
    /\ UNCHANGED <<vars, slot_size, request>>

LtCalled(a) ==
    /\ LtCommand
    /\ ~Refused(a)
    /\ request' = a
    /\ output' = Nothing("none")
    /\ UNCHANGED slot_size

\* A step of a call that has no Result: it goes on, or returns with nothing.
Goes ==
    /\ UNCHANGED slot_size
    /\ IF pc' = "idle"
       THEN request' = NoRequest /\ output' = Nothing(ret')
       ELSE UNCHANGED <<request, output>>

L3Out == Out /\ Goes

L3Send == Send /\ Goes

\* What SecureChannel tells apart of what lt_in__X returned.
RetOf(d) ==
    CASE d.ret = "LT_OK" -> "LT_OK"
      [] d.session = "OFF" -> "LT_L3_RES_SIZE_ERROR"
      [] OTHER -> "LT_L3_FAIL"

\* The chip's Result r is within the limit, decrypts and is decoded.
Decodes(r) ==
    LET command == L3Command(request, r, slot_size)
        d == lt_l3_decrypt_response(r, command.in) IN
    /\ Authentic(chip_out)
    /\ ~Overflows(decryption_IV)
    /\ PacketSize(r.size) <= command.call.limit
    /\ ret' = RetOf(d)
    /\ session_status' = d.session
    /\ request' = NoRequest
    /\ output' = Output(d.ret, d.copied, r.size - command.struct.res_fields, Room(request))
    /\ UNCHANGED slot_size

\* lt_l2_recv_encrypted_res and lt_in__X.  Without a Result to decode the call
\* ends in an error: LT_L2_RSP_LEN_ERROR for a Result over the limit is one of
\* the L1 and L2 errors.
L3Receive ==
    /\ Receive
    /\ \/ \E r \in Results : Decodes(r)
       \/ ret' \notin {"LT_OK", "LT_L3_FAIL"} /\ Goes

L3Next ==
    \/ \E a \in Requests : LtRefused(a) \/ LtCalled(a)
    \/ L3Out \/ L3Send \/ L3Receive
    \/ /\ \/ SessionStart \/ SessionStarted \/ SessionAbort \/ Reboot \/ Reinit
          \/ GetInfo \/ Chip
       /\ UNCHANGED callVars

L3Spec == L3Init /\ [][L3Next]_l3vars

-----------------------------------------------------------------------------
\* The sizes of an OK Result that the chip forms for request a by the layout.  A
\* slot of R-Memory holds what was written, at most slot_size bytes; where the
\* attributes are not set (0), a slot that was written is out of the host's reach,
\* and only an empty one counts.
ChipSizes(a) ==
    CASE a.cmd = "ping" -> {1 + a.n}
      [] a.cmd = "random_value_get" -> {4 + a.n}
      [] a.cmd = "r_mem_data_read" -> 4..(4 + slot_size)
      [] a.cmd = "ecc_key_read" -> {16 + 32, 16 + 64}
      [] OTHER -> {Asked(a).struct.res_fields + Asked(a).struct.res_data}

\* LT_OK hands the caller exactly the data of the chip's Result, in a buffer
\* that has room for it; any error hands over nothing.  A length the chip sends
\* must not pass as the length the caller asked for, nor wrap to a large one.
OutputIsResult ==
    /\ output.ret = "LT_OK" =>
          output.copied = output.data /\ output.copied <= output.room
    /\ output.ret # "LT_OK" => output.copied = 0

\* The checks of request a agree with each other and with the layouts, which
\* four places of the code state on their own: a Command that is encrypted was
\* filled to its last byte and no further than its struct and the L3 buffer;
\* and the limit and the size checks let every Result pass that the layout
\* allows, so that no honest answer is lost or ends the session.
Agree(a) ==
    LET command == Asked(a) IN
    /\ command.out.filled = command.out.cmd_size
    /\ command.out.filled <= command.struct.cmd_fields + command.struct.cmd_data
    /\ PacketSize(command.out.cmd_size) <= LT_SIZE_OF_L3_BUFF
    /\ \A n \in ChipSizes(a) :
          /\ PacketSize(n) <= command.call.limit
          /\ \A curve \in Curves :
                LET r == [result |-> "OK", size |-> n, curve |-> curve] IN
                (a.cmd = "ecc_key_read" => n = 16 + PubKeyLen(curve))
                    => L3Command(a, r, slot_size).in.session = "ON"

\* They agree for every request that gets as far as to be encrypted.
ChecksAgree == pc \in {"send", "receive"} => Agree(request)

-----------------------------------------------------------------------------
\* The inductive invariant of the calls: what is under way is a request that
\* was asked and not refused.
UnderWay ==
    pc \in {"out", "send", "receive"} => request \in Requests /\ ~Refused(request)

CallsIInv == slot_size \in SlotSizes /\ UnderWay /\ OutputIsResult
=============================================================================
