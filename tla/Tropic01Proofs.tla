--------------------------- MODULE Tropic01Proofs ---------------------------
(***************************************************************************)
(* What Tropic01 promises, for any slots, arguments and data, and any      *)
(* number of failures: its variables keep to their types, a chip with      *)
(* another pairing key is tried once per boot, libtropic is called on a    *)
(* live handle only, and nothing clears the warning of an alarm.           *)
(***************************************************************************)
EXTENDS Tropic01, TLAPS

\* A component that is not in service is not initialised; one that serves a call
\* or has a session is.  With LiveHandle this is what every guard relies on.
Initialised ==
    /\ phase \in {"constructed", "off"} => ~initialized_
    /\ initialized_ => handle = "live"
    /\ pending # NoCall => initialized_
    /\ session_status = "ON" => initialized_
    /\ handle = "live" => spi \/ phase = "torn_down"

\* The handshakes the chip rejected are counted by the flag.
Rejections == rejected \in Nat /\ (rejected # 0 => rejected = 1 /\ default_key_invalid_)

-----------------------------------------------------------------------------
(* What the parts of the actions do to the handle.                          *)

\* init_tropic leaves a handle that is live exactly if it succeeded.
LEMMA InitTropicEnds ==
    ASSUME InitTropic, ~initialized_
    PROVE  /\ session_status' = "OFF"
           /\ initialized_' => handle' = "live"
           /\ handle' = "live" => spi'
BY DEF InitTropic, InitFails, InitSucceeds

\* A service call that goes on, or that has a session, is past the guards.
LEMMA ServiceGuarded ==
    ASSUME NEW op, NEW s, NEW d, Service(op, s, d)
    PROVE  /\ UNCHANGED <<phase, handle, spi, initialized_>>
           /\ \/ pending' = pending /\ session_status' \in {session_status, "OFF"}
              \/ initialized_
BY DEF Service, EnsureSecureSession, SessionBlocked, Refuse, HandshakeFails, Invalidate

LEMMA InitialisedInit == Init => Initialised
BY DEF Init, Initialised

LEMMA InitialisedStep == Initialised /\ [Next]_vars => Initialised'
<1> SUFFICES ASSUME Initialised, [Next]_vars PROVE Initialised'
    OBVIOUS
<1> USE DEF Initialised
<1>1. CASE Setup
    BY <1>1, InitTropicEnds DEF Setup
<1>2. CASE Poll
    <2>1. CASE RetryFails
        BY <2>1 DEF RetryFails, InitFails
    <2>2. CASE Update
        BY <2>2 DEF Update, InitSucceeds
    <2>3. QED
        BY <1>2, <2>1, <2>2 DEF Poll
<1>3. CASE SeWrite \/ SeRead \/ SeErase
    <2>1. PICK op, s, d : Service(op, s, d)
        BY <1>3 DEF SeWrite, SeRead, SeErase
    <2>2. QED
        BY <2>1, ServiceGuarded
<1>4. CASE Exchange
    <2>1. /\ UNCHANGED <<phase, handle, spi, initialized_>>
          /\ pending # NoCall
        BY <1>4 DEF Exchange
    <2>2. QED
        BY <2>1
<1>5. CASE OnShutdown \/ Teardown \/ OnPowerdown \/ Restart
    BY <1>5 DEF OnShutdown, Teardown, OnPowerdown, Restart, Invalidate
<1>6. CASE ChipReset \/ ChipAlarm \/ UNCHANGED vars
    BY <1>6 DEF ChipReset, ChipAlarm, vars, hostVars
<1>7. QED
    BY <1>1, <1>2, <1>3, <1>4, <1>5, <1>6 DEF Next

\* libtropic is called on a live handle only, whatever fails and whenever the
\* badge shuts down.
THEOREM LiveHandleHolds == Spec => []LiveHandle
<1>1. Init => Initialised
    BY InitialisedInit
<1>2. Initialised /\ [Next]_vars => Initialised'
    BY InitialisedStep
<1>3. Initialised => LiveHandle
    BY DEF Initialised, LiveHandle
<1>4. QED
    BY <1>1, <1>2, <1>3, PTL DEF Spec

-----------------------------------------------------------------------------
(* One rejected handshake per boot.                                          *)

\* The only step of a service call that counts a rejection sets the flag, and
\* none is taken once it is set.
LEMMA ServiceRejections ==
    ASSUME NEW op, NEW s, NEW d, Service(op, s, d), Rejections
    PROVE  Rejections'
<1>1. CASE UNCHANGED <<default_key_invalid_, rejected>>
    BY <1>1 DEF Rejections
<1>2. CASE ~default_key_invalid_ /\ HandshakeFails
    BY <1>2 DEF Rejections, HandshakeFails
<1>3. QED
    BY <1>1, <1>2 DEF Service, EnsureSecureSession, SessionBlocked, HandshakeSucceeds

LEMMA RejectionsStep == Rejections /\ [Next]_vars => Rejections'
<1> SUFFICES ASSUME Rejections, [Next]_vars PROVE Rejections'
    OBVIOUS
<1>1. CASE SeWrite \/ SeRead \/ SeErase
    BY <1>1, ServiceRejections DEF SeWrite, SeRead, SeErase
<1>2. CASE Restart
    BY <1>2 DEF Restart, Rejections
<1>3. CASE Setup \/ Poll \/ Exchange \/ OnShutdown \/ Teardown \/ OnPowerdown
           \/ ChipReset \/ ChipAlarm \/ UNCHANGED vars
    BY <1>3 DEF Setup, Poll, RetryFails, Update, Exchange, OnShutdown, Teardown,
           OnPowerdown, ChipReset, ChipAlarm, vars, hostVars, chipVars, Rejections
<1>4. QED
    BY <1>1, <1>2, <1>3 DEF Next

\* A chip with another pairing key sees one rejected handshake per boot of the
\* badge, for any number of failures and calls.
THEOREM OneRejection == Spec => []OneRejectionPerBoot
<1>1. Init => Rejections
    BY DEF Init, Rejections
<1>2. Rejections /\ [Next]_vars => Rejections'
    BY RejectionsStep
<1>3. Rejections => OneRejectionPerBoot
    BY DEF Rejections, OneRejectionPerBoot
<1>4. QED
    BY <1>1, <1>2, <1>3, PTL DEF Spec

-----------------------------------------------------------------------------
(* The warning of an alarm.                                                  *)

\* What a finished call does to the warning unless all went well.
LEMMA FinishKeeps ==
    ASSUME NEW c, NEW r, NEW done, Finish(c, r, done), r # "LT_OK", warning
    PROVE  warning'
BY DEF Finish

LEMMA ExchangeKeeps ==
    ASSUME Exchange, mode = "ALARM", warning
    PROVE  warning'
<1>1. ~Answers
    BY DEF Answers
<1>2. CASE ParamError(pending) /\ Finish(pending, "LT_PARAM_ERR", FALSE)
    BY <1>2, FinishKeeps
<1>3. CASE Undelivered(pending)
    <2>1. Finish(pending, "LT_L1_L2_ERROR", FALSE)
        BY <1>3 DEF Undelivered
    <2>2. QED
        BY <2>1, FinishKeeps
<1>4. QED
    BY <1>1, <1>2, <1>3 DEF Exchange, Answered, NotReceived, Undecrypted, Rejected, ResultLost

LEMMA UpdateKeeps ==
    ASSUME Update, mode' = "ALARM", published' = "ALARM"
    PROVE  warning'
BY DEF Update, Publish

\* Nothing but the end of the alarm, or a poll that cannot read the mode, ends
\* the warning of an alarm.
THEOREM AlarmWarning == Spec => AlarmKeepsWarning
<1> DEFINE A == warning /\ mode = "ALARM" /\ mode' = "ALARM" /\ published' = "ALARM" => warning'
<1>1. ASSUME [Next]_vars PROVE [A]_vars
    <2> SUFFICES ASSUME warning, mode = "ALARM", mode' = "ALARM", published' = "ALARM"
                 PROVE  warning'
        OBVIOUS
    <2>1. CASE Exchange
        BY <2>1, ExchangeKeeps
    <2>2. CASE Poll
        BY <2>2, UpdateKeeps DEF Poll, RetryFails
    <2>3. CASE SeWrite \/ SeRead \/ SeErase
        BY <2>3 DEF SeWrite, SeRead, SeErase, Service, EnsureSecureSession, Refuse, Proceed
    <2>4. CASE Restart
        BY <2>4 DEF Restart
    <2>5. CASE Setup \/ OnShutdown \/ Teardown \/ OnPowerdown
               \/ ChipReset \/ ChipAlarm \/ UNCHANGED vars
        BY <2>5 DEF Setup, OnShutdown, Teardown, OnPowerdown, ChipReset, ChipAlarm,
               vars, hostVars
    <2>6. QED
        BY <1>1, <2>1, <2>2, <2>3, <2>4, <2>5 DEF Next
<1>2. QED
    BY <1>1, PTL DEF Spec, AlarmKeepsWarning

-----------------------------------------------------------------------------
(* After teardown.                                                           *)

\* Only a command that the chip answers changes what its slots hold.
LEMMA ContentChanges ==
    ASSUME Next, content' # content
    PROVE  Answers
<1>1. CASE Exchange
    BY <1>1 DEF Exchange, Answered, NotReceived, Undecrypted, Rejected, Undelivered, ResultLost
<1>2. CASE ~Exchange
    BY <1>2 DEF Next, Setup, Poll, RetryFails, Update, SeWrite, SeRead, SeErase, Service,
           OnShutdown, Teardown, OnPowerdown, Restart, ChipReset, ChipAlarm, chipVars
<1>3. QED
    BY <1>1, <1>2

\* The SPI device is gone from teardown to the next setup.
NoSpi == phase \in {"torn_down", "off"} => ~spi

LEMMA NoSpiStep == NoSpi /\ [Next]_vars => NoSpi'
<1> SUFFICES ASSUME NoSpi, [Next]_vars PROVE NoSpi'
    OBVIOUS
<1>1. CASE Setup \/ Poll
    BY <1>1 DEF Setup, Poll, RetryFails, Update, NoSpi
<1>2. CASE SeWrite \/ SeRead \/ SeErase
    BY <1>2 DEF SeWrite, SeRead, SeErase, Service, NoSpi
<1>3. CASE Exchange \/ OnShutdown \/ Teardown \/ OnPowerdown \/ Restart
    BY <1>3 DEF Exchange, OnShutdown, Teardown, OnPowerdown, Restart, NoSpi
<1>4. CASE ChipReset \/ ChipAlarm \/ UNCHANGED vars
    BY <1>4 DEF ChipReset, ChipAlarm, vars, hostVars, NoSpi
<1>5. QED
    BY <1>1, <1>2, <1>3, <1>4 DEF Next

\* A service that the API server runs after teardown leaves the chip's slots as
\* they are.
THEOREM LateServices == Spec => LateServicesAreHarmless
<1> DEFINE A == phase = "torn_down" => UNCHANGED content
<1>1. Init => NoSpi
    BY DEF Init, NoSpi
<1>2. NoSpi /\ [Next]_vars => NoSpi'
    BY NoSpiStep
<1>3. NoSpi /\ [Next]_vars => [A]_vars
    <2> SUFFICES ASSUME NoSpi, Next, phase = "torn_down" PROVE content' = content
        OBVIOUS
    <2>1. ~Answers
        BY DEF NoSpi, Answers
    <2>2. QED
        BY <2>1, ContentChanges
<1>4. QED
    BY <1>1, <1>2, <1>3, PTL DEF Spec, LateServicesAreHarmless

-----------------------------------------------------------------------------
(* Types.                                                                    *)

\* What a write carries is data, so that a slot only ever holds that.
WritesData == pending.op = "write" => pending.data \in Data \cup LongData

TypeInv == TypeOK /\ WritesData

LEMMA Uint16Type == ASSUME NEW n \in Nat PROVE Uint16(n) \in Uint16s
BY DEF Uint16, Uint16s

LEMMA TypeInit == Init => TypeInv
<1> SUFFICES ASSUME Init PROVE TypeInv
    OBVIOUS
<1>1. 0 \in 0..MaxFaults
    BY FaultsAssumption
<1>2. mode \in Modes
    BY DEF Init, BootModes, Modes
<1>3. NoOutcome \in Outcome
    BY DEF NoOutcome, Outcome
<1>4. [s \in Slots |-> "empty"] \in [Slots -> Contents]
    BY DEF Contents
<1>5. pending.op = "none" /\ pending \in Call \cup {NoCall}
    BY DEF Init, NoCall
<1>6. QED
    BY <1>1, <1>2, <1>3, <1>4, <1>5 DEF Init, TypeInv, TypeOK, WritesData

LEMMA BootModesType == BootModes \subseteq Modes
BY DEF BootModes, Modes

LEMMA FaultType == TypeOK /\ Fault => faults' \in 0..MaxFaults
BY FaultsAssumption DEF TypeOK, Fault

\* What init_tropic changes.
LEMMA InitTropicTypes ==
    ASSUME TypeOK, InitFails \/ (InitSucceeds /\ UNCHANGED faults)
    PROVE  /\ handle' \in {"null", "failed", "live"}
           /\ spi' \in BOOLEAN /\ attrs' \in BOOLEAN /\ initialized_' \in BOOLEAN
           /\ mode' \in Modes /\ sync' \in {"none", "in_step", "unsent", "lost"}
           /\ faults' \in 0..MaxFaults
<1>1. CASE InitFails
    BY <1>1, FaultType, BootModesType DEF InitFails, TypeOK
<1>2. CASE InitSucceeds /\ UNCHANGED faults
    BY <1>2, BootModesType DEF InitSucceeds, TypeOK, Modes
<1>3. QED
    BY <1>1, <1>2

\* The fields of a call.
LEMMA RecordFields ==
    ASSUME NEW O, NEW S, NEW D, NEW c \in [op : O, slot : S, data : D]
    PROVE  c.op \in O /\ c.slot \in S /\ c.data \in D
OBVIOUS

LEMMA OpOfCall == ASSUME NEW c \in Call PROVE c.op \in {"write", "erase", "read"}
BY RecordFields DEF Call

\* What ensure_secure_session changes, for call c.
LEMMA EnsureTypes ==
    ASSUME TypeOK, NEW c \in Call, EnsureSecureSession(c)
    PROVE  /\ session_established_' \in BOOLEAN /\ default_key_invalid_' \in BOOLEAN
           /\ warning' = warning
           /\ session_status' \in {"ON", "OFF"}
           /\ sync' \in {"none", "in_step", "unsent", "lost"}
           /\ rejected' \in Nat /\ faults' \in 0..MaxFaults
           /\ pending' = pending \/ pending' = c
           /\ last' \in Outcome
<1>1. c.op \in {"none", "write", "erase", "read"}
    BY OpOfCall
<1>2. [NoOutcome EXCEPT !.op = c.op, !.ret = "no session"] \in Outcome
    BY <1>1 DEF NoOutcome, Outcome
<1>3. CASE Refuse(c) \/ Proceed(c)
    <2>1. /\ warning' = warning
          /\ pending' = pending \/ pending' = c
          /\ last' \in Outcome
        BY <1>2, <1>3 DEF Refuse, Proceed, TypeOK
    <2>2. CASE HandshakeSucceeds
        BY <2>1, <2>2 DEF HandshakeSucceeds, TypeOK
    <2>3. CASE HandshakeFails
        <3>1. faults' \in 0..MaxFaults
            BY <2>3, FaultType DEF HandshakeFails, TypeOK
        <3>2. rejected' \in Nat
            BY <2>3 DEF HandshakeFails, TypeOK
        <3>3. /\ session_established_' = FALSE /\ default_key_invalid_' = TRUE
              /\ session_status' \in {"ON", "OFF"}
              /\ sync' \in {"none", "in_step", "unsent", "lost"}
            BY <2>3 DEF HandshakeFails, Invalidate, TypeOK
        <3>4. QED
            BY <2>1, <3>1, <3>2, <3>3
    <2>4. QED
        BY <2>1, <2>2, <2>3 DEF EnsureSecureSession, TypeOK
<1>4. QED
    BY <1>3 DEF EnsureSecureSession

LEMMA ServiceTypes ==
    ASSUME TypeInv, NEW op \in {"write", "erase", "read"}, NEW s \in SlotArgs,
           NEW d \in Data \cup LongData \cup {"none"},
           op = "write" => d \in Data \cup LongData,
           Service(op, s, d)
    PROVE  TypeInv'
<1> DEFINE c == [op |-> op, slot |-> Uint16(s), data |-> d]
<1>1. c \in Call
    <2>1. s \in Nat
        BY SlotsAssumption, Zenon
    <2>2. Uint16(s) \in Uint16s
        BY <2>1, Uint16Type
    <2>3. QED
        BY <2>2 DEF Call
<1>2. c.op = op /\ c.data = d
    OBVIOUS
<1>3. EnsureSecureSession(c)
    BY DEF Service
<1> HIDE DEF c
<1>4. pending' = pending \/ pending' = c
    BY <1>1, <1>3, EnsureTypes DEF TypeInv
<1>5. WritesData'
    BY <1>2, <1>4 DEF WritesData, TypeInv
<1>6. TypeOK'
    BY <1>1, <1>3, <1>4, EnsureTypes DEF Service, TypeInv, TypeOK
<1>7. QED
    BY <1>5, <1>6 DEF TypeInv

-----------------------------------------------------------------------------
(* The types after a command.                                                *)

LEMMA FinishTypes ==
    ASSUME TypeInv, NEW c \in Call, NEW done \in BOOLEAN, NEW r,
           r \in {"LT_OK", "LT_PARAM_ERR",
                   "LT_L3_SLOT_NOT_EMPTY", "LT_L3_FAIL",
                   "LT_L3_R_MEM_DATA_WRITE_FAILED", "LT_L3_R_MEM_DATA_ERASE_FAILED",
                   "LT_L3_R_MEM_DATA_READ_SLOT_EMPTY", "LT_CRYPTO_ERR",
                   "LT_L2_TAG_ERR", "LT_L2_RSP_LEN_ERROR", "LT_L1_L2_ERROR"},
           Finish(c, r, done)
    PROVE  /\ pending' = NoCall
           /\ last' \in Outcome
           /\ warning' \in BOOLEAN
<1>1. c.op \in {"none", "write", "erase", "read"}
    BY OpOfCall
<1>2. [op |-> c.op, ret |-> r, done |-> done] \in Outcome
    BY <1>1 DEF Outcome
<1>3. pending' = NoCall /\ last' \in Outcome
    BY <1>2 DEF Finish
<1>4. warning' \in {FALSE, warning, TRUE}
    <2>1. CASE r = "LT_OK"
        BY <2>1 DEF Finish
    <2>2. CASE r # "LT_OK" /\ c.op = "read"
        BY <2>2 DEF Finish
    <2>3. CASE r # "LT_OK" /\ c.op # "read"
        BY <2>3 DEF Finish
    <2>4. QED
        BY <2>1, <2>2, <2>3
<1>5. QED
    BY <1>3, <1>4 DEF TypeInv, TypeOK

LEMMA InRetType ==
    ASSUME NEW c \in Call
    PROVE  InRet(c) \in {"LT_OK", "LT_L3_SLOT_NOT_EMPTY", "LT_L3_FAIL",
                         "LT_L3_R_MEM_DATA_WRITE_FAILED", "LT_L3_R_MEM_DATA_ERASE_FAILED",
                         "LT_L3_R_MEM_DATA_READ_SLOT_EMPTY"}
<1>1. RESULT_OK # 0
    BY DEF RESULT_OK
<1>2. \A r : WriteRet(r) \in {"LT_L3_SLOT_NOT_EMPTY", "LT_L3_R_MEM_DATA_WRITE_FAILED"}
    BY <1>1, Zenon DEF WriteRet
<1>3. \A r : EraseRet(r) \in {"LT_L3_FAIL", "LT_L3_R_MEM_DATA_ERASE_FAILED"}
    BY <1>1, Zenon DEF EraseRet
<1>4. \A r : ReadRet(r) \in {"LT_L3_R_MEM_DATA_READ_SLOT_EMPTY", "LT_OK"}
    BY Zenon DEF ReadRet
<1>5. InRet(c) = WriteRet(ResultByte(c)) \/ InRet(c) = EraseRet(ResultByte(c))
        \/ InRet(c) = ReadRet(content[c.slot])
    BY Zenon DEF InRet
<1>6. QED
    BY <1>2, <1>3, <1>4, <1>5

\* A command that passed the checks leaves data or nothing in its slot.
LEMMA StoresTypes ==
    ASSUME TypeInv, pending \in Call, ~ParamError(pending), ChipStores(pending)
    PROVE  content' \in [Slots -> Contents]
<1>1. ASSUME pending.slot \in Slots PROVE Stored(pending) \in Contents
    <2>1. content[pending.slot] \in Contents
        BY <1>1 DEF TypeInv, TypeOK
    <2>2. pending.op = "write" => pending.data \in Contents
        BY DEF ParamError, SlotTakes, TypeInv, WritesData, Contents
    <2>3. "empty" \in Contents
        BY DEF Contents
    <2>4. QED
        BY <2>1, <2>2, <2>3, Zenon DEF Stored
<1>2. QED
    BY <1>1 DEF ChipStores, TypeInv, TypeOK

\* What the answer of the chip, or the lack of one, changes.
ExchangeEnds ==
    /\ pending' = NoCall
    /\ last' \in Outcome
    /\ warning' \in BOOLEAN
    /\ session_status' \in {"ON", "OFF"}
    /\ sync' \in {"none", "in_step", "unsent", "lost"}
    /\ content' \in [Slots -> Contents]
    /\ faults' \in 0..MaxFaults

LEMMA ExchangeEndTypes ==
    ASSUME TypeInv, Exchange
    PROVE  ExchangeEnds
<1> DEFINE c == pending
<1>1. c \in Call
    BY DEF Exchange, TypeInv, TypeOK
<1>2. Done(c) \in BOOLEAN
    BY DEF Done
<1>3. ASSUME NEW r, r \in {"LT_PARAM_ERR", "LT_L2_TAG_ERR", "LT_L1_L2_ERROR", "LT_CRYPTO_ERR",
                      "LT_L2_RSP_LEN_ERROR"},
             NEW done \in BOOLEAN, Finish(c, r, done)
      PROVE  pending' = NoCall /\ last' \in Outcome /\ warning' \in BOOLEAN
    BY <1>1, <1>3, FinishTypes
<1>4. CASE ParamError(c) /\ Finish(c, "LT_PARAM_ERR", FALSE)
           /\ UNCHANGED <<session_status, sync, content, faults>>
    BY <1>3, <1>4 DEF ExchangeEnds, TypeInv, TypeOK
<1>5. CASE ~ParamError(c) /\ Answered(c)
    <2>1. content' \in [Slots -> Contents]
        BY <1>1, <1>5, StoresTypes DEF Answered
    <2>2. pending' = NoCall /\ last' \in Outcome /\ warning' \in BOOLEAN
        BY <1>1, <1>2, <1>5, InRetType, FinishTypes DEF Answered
    <2>3. QED
        BY <1>5, <2>1, <2>2 DEF ExchangeEnds, Answered, TypeInv, TypeOK
<1>6. CASE ~ParamError(c) /\ Undecrypted(c)
    <2>1. content' \in [Slots -> Contents]
        BY <1>1, <1>6, StoresTypes DEF Undecrypted
    <2>2. pending' = NoCall /\ last' \in Outcome /\ warning' \in BOOLEAN
        BY <1>2, <1>3, <1>6 DEF Undecrypted
    <2>3. faults' \in 0..MaxFaults
        BY <1>6, FaultType DEF Undecrypted, TypeInv, TypeOK
    <2>4. QED
        BY <1>6, <2>1, <2>2, <2>3 DEF ExchangeEnds, Undecrypted, Invalidate
<1>7. CASE Rejected(c)
    BY <1>3, <1>7 DEF ExchangeEnds, Rejected, TypeInv, TypeOK
<1>8. CASE Undelivered(c)
    <2>1. faults' \in 0..MaxFaults
        BY <1>8, FaultType DEF Undelivered, TypeInv, TypeOK
    <2>2. pending' = NoCall /\ last' \in Outcome /\ warning' \in BOOLEAN
        BY <1>3, <1>8 DEF Undelivered
    <2>3. QED
        BY <1>8, <2>1, <2>2 DEF ExchangeEnds, Undelivered, TypeInv, TypeOK
<1>9. CASE ~ParamError(c) /\ ResultLost(c)
    <2>1. content' \in [Slots -> Contents]
        BY <1>1, <1>9, StoresTypes DEF ResultLost
    <2>2. pending' = NoCall /\ last' \in Outcome /\ warning' \in BOOLEAN
        BY <1>2, <1>3, <1>9 DEF ResultLost
    <2>3. faults' \in 0..MaxFaults
        BY <1>9, FaultType DEF ResultLost, TypeInv
    <2>4. QED
        BY <1>9, <2>1, <2>2, <2>3 DEF ExchangeEnds, ResultLost, TypeInv, TypeOK
<1>10. CASE ~ParamError(c) /\ NotReceived(c)
    <2>1. content' \in [Slots -> Contents]
        BY <1>1, <1>10, StoresTypes DEF NotReceived
    <2>2. pending' = NoCall /\ last' \in Outcome /\ warning' \in BOOLEAN
        BY <1>2, <1>3, <1>10 DEF NotReceived
    <2>3. QED
        BY <1>10, <2>1, <2>2 DEF ExchangeEnds, NotReceived, TypeInv, TypeOK
<1>11. QED
    BY <1>4, <1>5, <1>6, <1>7, <1>8, <1>9, <1>10 DEF Exchange

LEMMA ExchangeTypes ==
    ASSUME TypeInv, Exchange
    PROVE  TypeInv'
<1>1. ExchangeEnds
    BY ExchangeEndTypes
<1>2. WritesData'
    BY <1>1 DEF ExchangeEnds, WritesData, NoCall
<1>3. TypeOK'
    BY <1>1 DEF ExchangeEnds, Exchange, TypeInv, TypeOK
<1>4. QED
    BY <1>2, <1>3 DEF TypeInv

-----------------------------------------------------------------------------
LEMMA PublishTypes ==
    ASSUME TypeOK, NEW m, m \in Modes \cup {"UNKNOWN"}, Publish(m)
    PROVE  published' \in Modes \cup {"UNKNOWN"} /\ warning' \in BOOLEAN
<1>1. CASE m = "ALARM"
    BY <1>1 DEF Publish
<1>2. CASE m = "MAINTENANCE"
    BY <1>2 DEF Publish, TypeOK
<1>3. CASE m \notin {"ALARM", "MAINTENANCE"}
    BY <1>3 DEF Publish
<1>4. QED
    BY <1>1, <1>2, <1>3

LEMMA UpdateTypes ==
    ASSUME TypeInv, Update
    PROVE  TypeInv'
<1>1. /\ handle' \in {"null", "failed", "live"}
      /\ spi' \in BOOLEAN /\ attrs' \in BOOLEAN /\ initialized_' \in BOOLEAN
      /\ session_status' \in {"ON", "OFF"}
      /\ mode' \in Modes /\ sync' \in {"none", "in_step", "unsent", "lost"}
    BY BootModesType DEF Update, InitSucceeds, TypeInv, TypeOK, Modes
<1>2. CASE Publish(mode') /\ UNCHANGED faults
    <2>1. published' \in Modes \cup {"none", "UNKNOWN"} /\ warning' \in BOOLEAN
        BY <1>1, <1>2, PublishTypes DEF TypeInv
    <2>2. QED
        BY <1>1, <1>2, <2>1 DEF Update, TypeInv, TypeOK, WritesData
<1>3. CASE Publish("UNKNOWN") /\ Fault
    <2>1. published' \in Modes \cup {"none", "UNKNOWN"} /\ warning' \in BOOLEAN
        BY <1>3, PublishTypes DEF TypeInv
    <2>2. faults' \in 0..MaxFaults
        BY <1>3, FaultType DEF TypeInv
    <2>3. QED
        BY <1>1, <2>1, <2>2 DEF Update, TypeInv, TypeOK, WritesData
<1>4. QED
    BY <1>2, <1>3 DEF Update

LEMMA TypeStep == TypeInv /\ [Next]_vars => TypeInv'
<1> SUFFICES ASSUME TypeInv, [Next]_vars PROVE TypeInv'
    OBVIOUS
<1>1. CASE Setup
    BY <1>1, InitTropicTypes DEF Setup, InitTropic, TypeInv, TypeOK, WritesData
<1>2. CASE Poll
    <2>1. CASE RetryFails
        BY <2>1, InitTropicTypes DEF RetryFails, TypeInv, TypeOK, WritesData
    <2>2. CASE Update
        BY <2>2, UpdateTypes
    <2>3. QED
        BY <1>2, <2>1, <2>2 DEF Poll
<1>3. CASE SeWrite
    BY <1>3, ServiceTypes DEF SeWrite
<1>4. CASE SeRead
    BY <1>4, ServiceTypes DEF SeRead
<1>5. CASE SeErase
    BY <1>5, ServiceTypes DEF SeErase
<1>6. CASE Exchange
    BY <1>6, ExchangeTypes
<1>7. CASE OnShutdown \/ Teardown \/ OnPowerdown
    BY <1>7 DEF OnShutdown, Teardown, OnPowerdown, Invalidate, chipVars, TypeInv, TypeOK, WritesData
<1>8. CASE Restart
    <2>1. NoOutcome \in Outcome
        BY DEF NoOutcome, Outcome
    <2>2. QED
        BY <1>8, <2>1 DEF Restart, TypeInv, TypeOK, WritesData
<1>9. CASE ChipReset \/ ChipAlarm
    <2>1. faults' \in 0..MaxFaults /\ mode' \in Modes
        BY <1>9, FaultType, BootModesType DEF ChipReset, ChipAlarm, TypeInv, Modes
    <2>2. QED
        BY <1>9, <2>1 DEF ChipReset, ChipAlarm, hostVars, TypeInv, TypeOK, WritesData
<1>10. CASE UNCHANGED vars
    BY <1>10 DEF vars, hostVars, chipVars, TypeInv, TypeOK, WritesData
<1>11. QED
    BY <1>1, <1>2, <1>3, <1>4, <1>5, <1>6, <1>7, <1>8, <1>9, <1>10 DEF Next

\* The variables keep to their types; above all, a slot of the chip holds data
\* that fits, or nothing.
THEOREM TypeCorrect == Spec => []TypeOK
<1>1. TypeInv => TypeOK
    BY DEF TypeInv
<1>2. QED
    BY <1>1, TypeInit, TypeStep, PTL DEF Spec

-----------------------------------------------------------------------------
(* A session the chip has no more part in.                                   *)

\* While the main loop runs, the component and libtropic agree on the session.
Established == phase = "running" /\ session_status = "ON" => session_established_

LEMMA EstablishedStep == Initialised /\ Established /\ [Next]_vars => Established'
<1> SUFFICES ASSUME Initialised, Established, [Next]_vars PROVE Established'
    OBVIOUS
<1> USE DEF Established
<1>1. CASE Setup \/ Poll
    BY <1>1 DEF Setup, InitTropic, Poll, RetryFails, Update
<1>2. CASE SeWrite \/ SeRead \/ SeErase
  <2>1. PICK op, s, d : Service(op, s, d)
      BY <1>2 DEF SeWrite, SeRead, SeErase
  <2>2. QED
      BY <2>1 DEF Service, EnsureSecureSession, SessionUsable, HandshakeSucceeds,
                  HandshakeFails, Invalidate
<1>3. CASE Exchange
  <2>1. UNCHANGED <<phase, session_established_>> /\ session_status' \in {session_status, "OFF"}
      BY <1>3 DEF Exchange, Answered, NotReceived, Undecrypted, Rejected, Undelivered, ResultLost,
                  Invalidate
  <2>2. QED
      BY <2>1
<1>4. CASE OnShutdown \/ Teardown \/ OnPowerdown \/ Restart
    BY <1>4 DEF OnShutdown, Teardown, OnPowerdown, Restart, Invalidate
<1>5. CASE ChipReset \/ ChipAlarm \/ UNCHANGED vars
    BY <1>5 DEF ChipReset, ChipAlarm, vars, hostVars
<1>6. QED
    BY <1>1, <1>2, <1>3, <1>4, <1>5 DEF Next

\* The chip has no such session any more, or misses a command of it.
Stuck == phase = "running" /\ session_status = "ON" /\ sync \in {"none", "unsent"}

\* A call ends without LT_OK and changes neither the slots nor the session.
LEMMA StuckExchange ==
    ASSUME Stuck, Exchange
    PROVE  Stuck' /\ content' = content /\ last'.ret # "LT_OK"
<1>1. /\ phase' = phase /\ session_status' = session_status /\ content' = content
      /\ sync' \in {sync, "none"}
      /\ \E r \in {"LT_PARAM_ERR", "LT_L2_TAG_ERR", "LT_L1_L2_ERROR"} : Finish(pending, r, FALSE)
    BY DEF Stuck, Exchange, Answered, NotReceived, Undecrypted, Rejected, Undelivered, ResultLost
<1>2. last'.ret # "LT_OK"
    BY <1>1 DEF Finish
<1>3. QED
    BY <1>1, <1>2 DEF Stuck

\* Once the chip has lost the session, or a command of it was lost, no service of
\* this boot succeeds or changes a slot: ensure_secure_session goes by flags that
\* no L1 or L2 error resets, and polls and chip resets leave them as they are.
StuckUntilShutdown ==
    [][Stuck /\ phase' = "running" =>
          /\ Stuck' /\ content' = content
          /\ pending # NoCall /\ pending' = NoCall => last'.ret # "LT_OK"]_vars

THEOREM StuckUntilShutdownHolds == Spec => StuckUntilShutdown
<1> DEFINE A == Stuck /\ phase' = "running" =>
                    /\ Stuck' /\ content' = content
                    /\ pending # NoCall /\ pending' = NoCall => last'.ret # "LT_OK"
<1>1. Init => Initialised /\ Established
    BY InitialisedInit DEF Init, Established
<1>2. ASSUME Initialised, Established, Next, Stuck, phase' = "running"
      PROVE  /\ Stuck' /\ content' = content
             /\ pending # NoCall /\ pending' = NoCall => last'.ret # "LT_OK"
  <2>1. initialized_ /\ session_established_
      BY <1>2 DEF Initialised, Established, Stuck
  <2>2. CASE Exchange
      BY <1>2, <2>2, StuckExchange
  <2>3. CASE SeWrite \/ SeRead \/ SeErase
    <3>1. PICK op, s, d : Service(op, s, d)
        BY <2>3 DEF SeWrite, SeRead, SeErase
    <3>2. SessionUsable /\ pending = NoCall
        BY <1>2, <2>1, <3>1 DEF SessionUsable, Stuck, Service, Serving
    <3>3. UNCHANGED <<phase, session_status, sync, content>>
        BY <3>1, <3>2 DEF Service, EnsureSecureSession
    <3>4. QED
        BY <1>2, <3>2, <3>3 DEF Stuck
  <2>4. CASE Poll
      BY <1>2, <2>1, <2>4 DEF Poll, RetryFails, Update, Stuck
  <2>5. CASE ChipReset \/ ChipAlarm
      BY <1>2, <2>5 DEF ChipReset, ChipAlarm, hostVars, Stuck
  <2>6. CASE Setup \/ OnShutdown \/ Teardown \/ OnPowerdown \/ Restart
      BY <1>2, <2>6 DEF Setup, OnShutdown, Teardown, OnPowerdown, Restart, Stuck
  <2>7. QED
      BY <1>2, <2>2, <2>3, <2>4, <2>5, <2>6 DEF Next
<1>3. Initialised /\ Established /\ [Next]_vars => [A]_vars
    BY <1>2
<1>4. QED
    BY <1>1, <1>3, InitialisedStep, EstablishedStep, PTL DEF Spec, StuckUntilShutdown
=============================================================================
