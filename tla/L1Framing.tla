------------------------------ MODULE L1Framing ------------------------------
(***************************************************************************)
(* lt_l1_read and lt_l1_write of lt_l1.c under lt_l2_transfer, with the    *)
(* port functions they call.  L2Transfer takes a read or a write for one   *)
(* step with any outcome; here each SPI transfer is a step, and the chip   *)
(* goes on between them.  CS must be high whenever Layer 1 waits or has    *)
(* returned: the display is on the same bus.                               *)
(*                                                                         *)
(* The badge's build has no interrupt pin, does not retrieve the alarm log *)
(* and does not check redundant arguments; csn_low, csn_high and delay of  *)
(* tropic01.cpp cannot fail while there is a component.                    *)
(***************************************************************************)
EXTENDS L2Transfer

CONSTANT
    LT_L1_READ_MAX_TRIES  \* polls of CHIP_STATUS one read has

ASSUME TriesAssumption == LT_L1_READ_MAX_TRIES \in Nat

VARIABLES
    l1pc,       \* where Layer 1 is, "out" of it, or about to "return"
    cs,         \* level of the chip's CS pin
    max_tries,
    l1_ret,     \* what Layer 1 is about to return
    lost        \* the chip has dropped a response of which only the header was read

l1Vars == <<l1pc, cs, max_tries, l1_ret, lost>>
allVars == <<vars, l1Vars>>

L1TypeOK ==
    /\ l1pc \in {"out", "write", "poll", "status", "header", "body", "return"}
    /\ cs \in {"low", "high"}
    /\ max_tries \in 0..LT_L1_READ_MAX_TRIES
    /\ l1_ret \in L1Error \cup {"LT_OK"}
    /\ lost \in BOOLEAN

\* lt_port_init leaves CS high.
L1Init ==
    /\ Init
    /\ l1pc = "out"
    /\ cs = "high"
    /\ max_tries = 0
    /\ l1_ret = "LT_OK"
    /\ lost = FALSE

-----------------------------------------------------------------------------
\* Layer 2 calls lt_l1_write, whose first act is CS low.
WriteCalled ==
    /\ l1pc = "out"
    /\ pc \in {"send", "resend"}
    /\ l1pc' = "write"
    /\ cs' = "low"
    /\ UNCHANGED <<max_tries, l1_ret, lost>>

\* Layer 2 calls lt_l1_read.
ReadCalled ==
    /\ l1pc = "out"
    /\ pc \in {"receive", "resend_receive"}
    /\ l1pc' = "poll"
    /\ max_tries' = LT_L1_READ_MAX_TRIES
    /\ UNCHANGED <<cs, l1_ret, lost>>

\* csn_high, and the function returns r.
L1Return(r) ==
    /\ cs' = "high"
    /\ l1pc' = "return"
    /\ l1_ret' = r
    /\ UNCHANGED <<max_tries, lost>>

\* spi_device_polling_transmit fails, or the device is removed already.
SpiFails ==
    /\ l1pc \in {"write", "status", "header", "body"}
    /\ L1Return("LT_HAL_ERROR")

\* The one transfer of lt_l1_write.
Written ==
    /\ l1pc = "write"
    /\ L1Return("LT_OK")

\* A mutant of GetResponse: the tries are not counted.
GetResponseUncounted ==
    /\ l1pc = "poll"
    /\ max_tries > 0
    /\ l1pc' = "status"
    /\ cs' = "low"
    /\ UNCHANGED <<max_tries, l1_ret, lost>>

\* The head of the loop.
GetResponse ==
    /\ l1pc = "poll"
    /\ max_tries > 0
    /\ max_tries' = max_tries - 1
    /\ l1pc' = "status"
    /\ cs' = "low"
    /\ UNCHANGED <<l1_ret, lost>>

\* The loop has run out.
ChipBusy ==
    /\ l1pc = "poll"
    /\ max_tries = 0
    /\ l1pc' = "return"
    /\ l1_ret' = "LT_L1_CHIP_BUSY"
    /\ UNCHANGED <<cs, max_tries, lost>>

\* CHIP_STATUS has the ALARM bit, as 0xFF of a chip that is off has.
AlarmSeen ==
    /\ l1pc = "status"
    /\ L1Return("LT_L1_CHIP_ALARM_MODE")

ReadySeen ==
    /\ l1pc = "status"
    /\ l1pc' = "header"
    /\ UNCHANGED <<cs, max_tries, l1_ret, lost>>

\* csn_high, and the loop goes on after a delay.
PollAgain ==
    /\ cs' = "high"
    /\ l1pc' = "poll"
    /\ UNCHANGED <<max_tries, l1_ret>>

NotReady == l1pc = "status" /\ PollAgain /\ UNCHANGED lost

\* The chip has a response to send.
HasResponse == chip_out.kind = "rsp" /\ ~lost

\* The byte after CHIP_STATUS is 0xFF: the chip has no response, or noise makes
\* it so.  What then becomes of the response is the chip's, and left open.
NoResponse ==
    /\ l1pc = "header"
    /\ IF HasResponse
       THEN "NO_RESP" \in Garbled[chip_out.status] /\ lost' \in BOOLEAN
       ELSE UNCHANGED lost
    /\ PollAgain

\* A mutant of TooLong: the early return leaves CS low.
TooLongHoldingCs ==
    /\ l1pc = "header"
    /\ l1pc' = "return"
    /\ l1_ret' = "LT_L1_DATA_LEN_ERROR"
    /\ UNCHANGED <<cs, max_tries, lost>>

\* Noise makes the length, or the 0xFF of no response and the length after it,
\* more than 253.  A length of 253 passes: see the "long" frames of L2Frame.
TooLong ==
    /\ l1pc = "header"
    /\ L1Return("LT_L1_DATA_LEN_ERROR")

\* Status and length are read.  Without a response both bytes are 0xFF: that
\* noise makes a status of one and a length of the other is left out.
HeaderRead ==
    /\ l1pc = "header"
    /\ HasResponse
    /\ l1pc' = "body"
    /\ UNCHANGED <<cs, max_tries, l1_ret, lost>>

\* The rest of the frame is read, with its CRC.
BodyRead ==
    /\ l1pc = "body"
    /\ L1Return("LT_OK")

L1Step ==
    \/ WriteCalled \/ ReadCalled \/ SpiFails \/ Written \/ GetResponse \/ ChipBusy
    \/ AlarmSeen \/ ReadySeen \/ NotReady \/ NoResponse \/ TooLong \/ HeaderRead
    \/ BodyRead

\* Layer 2 goes on with what Layer 1 returned: the step of L2Transfer with that
\* outcome.  A response the chip has dropped is not read by a later call either.
L1Returned ==
    /\ l1pc = "return"
    /\ Host
    /\ IF l1_ret = "LT_OK"
       THEN pc' # "idle" \/ ret' \notin L1Error
       ELSE pc' = "idle" /\ ret' = l1_ret
    /\ lost => chip_out' = None
    /\ l1pc' = "out"
    /\ lost' = FALSE
    /\ UNCHANGED <<cs, max_tries, l1_ret>>

L1Host == (L1Step /\ UNCHANGED vars) \/ L1Returned

L1Next == L1Host \/ ((Transfer \/ Chip) /\ UNCHANGED l1Vars)

L1Spec == L1Init /\ [][L1Next]_allVars

\* The whole of lt_l2_transfer is still one C function on the main loop.
L1FairSpec == L1Spec /\ WF_allVars(L1Host)

-----------------------------------------------------------------------------
\* CS is high whenever Layer 1 waits between two polls, and when it has returned
\* with whatever result: the display can use the bus.
BusReleased == l1pc \in {"out", "poll", "return"} => cs = "high"

\* Layer 1 does what L2Transfer takes it to do, although the chip works on while
\* Layer 1 polls, and each read and write ends: L2Transfer with its fairness.
ImplementsL2 == FairSpec
=============================================================================
