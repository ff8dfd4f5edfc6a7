------------------------------- MODULE Tropic01 -------------------------------
(***************************************************************************)
(* Tropic01Component of tropic01.cpp: the badge's driver of the secure     *)
(* element.  It brings the chip up, retries in its polls, opens a secure   *)
(* session with the factory pairing key when a R-Memory service is called, *)
(* and closes everything down before a restart.                            *)
(*                                                                         *)
(* The main loop runs setup, polls and services one after the other, and   *)
(* each libtropic call blocks it.  What can come in between two libtropic  *)
(* calls is the chip: it loses power, or raises its tamper alarm.  Of the  *)
(* session the module keeps what SecureChannel shows to matter: whether    *)
(* the host has one, and where the chip stands in it (sync).               *)
(***************************************************************************)
EXTENDS Naturals

CONSTANTS
    Slots,        \* R-Memory slots the chip has
    SlotArgs,     \* slot numbers the services are called with
    Data,         \* data that fits into a slot
    LongData,     \* data of a size no slot takes: nothing, or too long
    MaxFaults     \* bound on failures of bus, line and chip

ASSUME SlotsAssumption == Slots \subseteq 0..511 /\ SlotArgs \subseteq Nat
ASSUME FaultsAssumption == MaxFaults \in Nat

VARIABLES
    phase,                 \* of the component's life
    handle,                \* handle_: none, lt_init failed on it, or live
    spi,                   \* is the SPI device registered (dev_->spi)?
    attrs,                 \* is tr01_attrs.r_mem_udata_slot_size_max set?
    initialized_,
    session_established_,
    default_key_invalid_,
    session_status,        \* handle_->l3.session_status
    warning,               \* the component's status warning
    published,             \* chip mode last given to the listeners
    pending,               \* service call past ensure_secure_session
    last                   \* the latest finished service call

VARIABLES
    mode,                  \* the chip's operating mode
    fw_valid,              \* does the chip hold valid Application FW?
    factory_key,           \* is the factory pairing key in its slot 0?
    sync,                  \* where the chip stands in the host's session
    content,               \* what each R-Memory slot holds
    rejected,              \* handshakes the chip rejected since the badge booted
    faults                 \* failures so far

hostVars == <<phase, handle, spi, attrs, initialized_, session_established_,
              default_key_invalid_, session_status, warning, published,
              pending, last>>
chipVars == <<mode, fw_valid, factory_key, sync, content, rejected>>
vars == <<hostVars, chipVars, faults>>

-----------------------------------------------------------------------------
Modes == {"MAINTENANCE", "APPLICATION", "ALARM"}

Contents == Data \cup {"empty"}

Uint16s == 0..65535

\* A service call: r_mem_write, r_mem_read or r_mem_erase, with the service's slot
\* and the size of its string as the uint16_t they take: of a string of 65536 bytes
\* and more it is the beginning, which may be one of Data.
Call == [op : {"write", "erase", "read"}, slot : Uint16s,
         data : Data \cup LongData \cup {"none"}]

NoCall == [op |-> "none"]

\* How a call ended: what the service was told, and whether the chip carried
\* it out.
Outcome == [op : {"none", "write", "erase", "read"}, done : BOOLEAN,
            ret : {"none", "no session", "LT_OK", "LT_PARAM_ERR",
                   "LT_L3_SLOT_NOT_EMPTY", "LT_L3_FAIL",
                   "LT_L3_R_MEM_DATA_WRITE_FAILED", "LT_L3_R_MEM_DATA_ERASE_FAILED",
                   "LT_L3_R_MEM_DATA_READ_SLOT_EMPTY", "LT_CRYPTO_ERR",
                   "LT_L2_TAG_ERR", "LT_L2_RSP_LEN_ERROR", "LT_L1_L2_ERROR"}]

NoOutcome == [op |-> "none", ret |-> "none", done |-> FALSE]

TypeOK ==
    /\ phase \in {"constructed", "running", "shutdown", "torn_down", "off"}
    /\ handle \in {"null", "failed", "live"}
    /\ {spi, attrs, initialized_, session_established_, default_key_invalid_,
        warning, fw_valid, factory_key} \subseteq BOOLEAN
    /\ session_status \in {"ON", "OFF"}
    /\ published \in Modes \cup {"none", "UNKNOWN"}
    /\ pending \in Call \cup {NoCall}
    /\ last \in Outcome
    /\ mode \in Modes
    /\ sync \in {"none", "in_step", "unsent", "lost"}
    /\ content \in [Slots -> Contents]
    /\ rejected \in Nat
    /\ faults \in 0..MaxFaults

\* A chip boots its Application FW if that is valid, and may be found still in
\* Start-up Mode when the host looks.
BootModes == IF fw_valid THEN {"APPLICATION", "MAINTENANCE"} ELSE {"MAINTENANCE"}

Init ==
    /\ phase = "constructed"
    /\ handle = "null"
    /\ spi = FALSE
    /\ attrs = FALSE
    /\ initialized_ = FALSE
    /\ session_established_ = FALSE
    /\ default_key_invalid_ = FALSE
    /\ session_status = "OFF"
    /\ warning = FALSE
    /\ published = "none"
    /\ pending = NoCall
    /\ last = NoOutcome
    /\ fw_valid \in BOOLEAN
    /\ factory_key \in BOOLEAN
    /\ mode \in BootModes \cup {"ALARM"}
    /\ sync = "none"
    /\ content = [s \in Slots |-> "empty"]
    /\ rejected = 0
    /\ faults = 0

-----------------------------------------------------------------------------
Fault ==
    /\ faults < MaxFaults
    /\ faults' = faults + 1

\* The chip can run L3 Commands and handshakes, and the host can reach it.
Answers == spi /\ mode = "APPLICATION"

\* init_tropic fails in psa_crypto_init or lt_init.  lt_init may have rebooted
\* the chip before it failed, and has removed the SPI device.
InitFails ==
    /\ Fault \/ (mode = "ALARM" /\ UNCHANGED faults)
    /\ handle' = "failed"
    /\ spi' = FALSE
    /\ attrs' = FALSE
    /\ \/ UNCHANGED <<mode, sync>>
       \/ mode = "MAINTENANCE" /\ mode' \in BootModes /\ sync' = "none"
    /\ UNCHANGED initialized_

\* lt_init: a chip in MAINTENANCE is rebooted; if it stays there lt_init
\* returns LT_OK all the same, without the chip's attributes, and init_tropic
\* reboots it once more, whatever comes of it.
InitSucceeds ==
    /\ handle' = "live"
    /\ spi' = TRUE
    /\ initialized_' = TRUE
    /\ \/ /\ mode = "APPLICATION"
          /\ attrs' = TRUE
          /\ UNCHANGED <<mode, sync>>
       \/ /\ mode = "MAINTENANCE"
          /\ sync' = "none"
          /\ \/ attrs' = TRUE /\ "APPLICATION" \in BootModes /\ mode' = "APPLICATION"
             \/ attrs' = FALSE /\ mode' \in BootModes

\* init_tropic allocates a new handle, so it starts with no session.
InitTropic ==
    /\ session_status' = "OFF"
    /\ InitFails \/ (InitSucceeds /\ UNCHANGED faults)

Setup ==
    /\ phase = "constructed"
    /\ phase' = "running"
    /\ InitTropic
    /\ UNCHANGED <<session_established_, default_key_invalid_, warning, published,
                   pending, last, fw_valid, factory_key, content, rejected>>

\* update, when it has to retry the initialisation and that fails again.
RetryFails ==
    /\ phase = "running" /\ pending = NoCall
    /\ ~initialized_
    /\ session_status' = "OFF"
    /\ InitFails
    /\ UNCHANGED <<phase, session_established_, default_key_invalid_, warning,
                   published, pending, last, fw_valid, factory_key, content,
                   rejected>>

\* The mode update_sensors publishes, and the warning it sets, keeps or clears.
Publish(m) ==
    /\ published' = m
    /\ warning' = CASE m = "ALARM"       -> TRUE
                    [] m = "MAINTENANCE" -> warning
                    [] OTHER             -> FALSE

\* A mutant of Update: a failed initialisation is not tried again.
UpdateWithoutRetry ==
    /\ phase = "running" /\ pending = NoCall
    /\ initialized_
    /\ Publish(mode)
    /\ UNCHANGED <<phase, handle, spi, attrs, initialized_, session_established_,
                   default_key_invalid_, session_status, pending, last, chipVars, faults>>

\* update after the component has been initialised, earlier or by this poll.
Update ==
    /\ phase = "running" /\ pending = NoCall
    /\ \/ /\ initialized_
          /\ UNCHANGED <<handle, spi, attrs, initialized_, session_status, mode, sync>>
       \/ /\ ~initialized_
          /\ session_status' = "OFF"
          /\ InitSucceeds
    /\ \/ Publish(mode') /\ UNCHANGED faults
       \/ Publish("UNKNOWN") /\ Fault
    /\ UNCHANGED <<phase, session_established_, default_key_invalid_, pending,
                   last, fw_valid, factory_key, content, rejected>>

-----------------------------------------------------------------------------
\* A service may be called while the main loop runs, and by the API server
\* while the other components are torn down.
Serving == phase \in {"running", "shutdown", "torn_down"} /\ pending = NoCall

Uint16(n) == n % 65536

\* The call goes on to its L3 Command.
Proceed(c) == pending' = c /\ UNCHANGED <<last, warning>>

\* ensure_secure_session returned false: the service does nothing.
Refuse(c) ==
    /\ last' = [NoOutcome EXCEPT !.op = c.op, !.ret = "no session"]
    /\ UNCHANGED <<pending, warning>>

\* The host drops its session, so the chip's is of no use to it.
Invalidate == session_status' = "OFF" /\ sync' = "none"

\* A mutant of SessionBlocked: a failed handshake is tried again.
SessionBlockedUninitialized == ~initialized_

\* The guards of ensure_secure_session.
SessionBlocked == ~initialized_ \/ default_key_invalid_
SessionUsable == session_established_ /\ session_status = "ON"

\* lt_verify_chip_and_start_secure_session succeeds.
HandshakeSucceeds ==
    /\ Answers /\ factory_key
    /\ session_status' = "ON"
    /\ sync' = "in_step"
    /\ session_established_' = TRUE
    /\ UNCHANGED <<default_key_invalid_, rejected, faults>>

\* It fails: before the handshake, because the chip does not answer, shows no
\* certificates in MAINTENANCE, or one of the reads fails; or in the
\* handshake, which has dropped the old session by then, on the way to the
\* chip or because the chip holds another pairing key.
HandshakeFails ==
    /\ session_established_' = FALSE
    /\ default_key_invalid_' = TRUE
    /\ \/ /\ Fault \/ (~Answers /\ UNCHANGED faults)
          /\ UNCHANGED <<session_status, sync, rejected>>
       \/ /\ Answers /\ Fault
          /\ Invalidate
          /\ UNCHANGED rejected
       \/ /\ Answers /\ ~factory_key
          /\ Invalidate
          /\ rejected' = rejected + 1
          /\ UNCHANGED faults

\* A service call, up to the end of ensure_secure_session.
EnsureSecureSession(c) ==
    \/ /\ SessionBlocked
       /\ Refuse(c)
       /\ UNCHANGED <<session_established_, default_key_invalid_, session_status,
                      sync, rejected, faults>>
    \/ /\ ~SessionBlocked /\ SessionUsable
       /\ Proceed(c)
       /\ UNCHANGED <<session_established_, default_key_invalid_, session_status,
                      sync, rejected, faults>>
    \/ /\ ~SessionBlocked /\ ~SessionUsable
       /\ \/ HandshakeSucceeds /\ Proceed(c)
          \/ HandshakeFails /\ Refuse(c)

Service(op, slot, data) ==
    /\ Serving
    /\ EnsureSecureSession([op |-> op, slot |-> Uint16(slot), data |-> data])
    /\ UNCHANGED <<phase, handle, spi, attrs, initialized_, published, mode,
                   fw_valid, factory_key, content>>

SeWrite == \E s \in SlotArgs, d \in Data \cup LongData : Service("write", s, d)
SeRead == \E s \in SlotArgs : Service("read", s, "none")
SeErase == \E s \in SlotArgs : Service("erase", s, "none")

-----------------------------------------------------------------------------
\* The second half of a service call: the L3 Command.

\* A mutant of SlotTakes: lt_init_tr01_attrs takes the slots of this chip, of 444 bytes,
\* for those of the next generation, of 475.
SlotTakesMore(data) == attrs

\* The data is within r_mem_udata_slot_size_max, which is 0 as long as it is not set.
SlotTakes(data) == attrs /\ data \notin LongData

\* The parameter checks of lt_r_mem_data_write, _read and _erase.
ParamError(c) ==
    \/ c.slot > 511
    \/ c.op = "write" /\ ~SlotTakes(c.data)

\* What the chip answers: its result byte.
RESULT_OK == 195
RESULT_SLOT_NOT_EMPTY == 16

ResultByte(c) ==
    IF c.op = "write" /\ content[c.slot] # "empty"
    THEN RESULT_SLOT_NOT_EMPTY ELSE RESULT_OK

\* What the slot holds when the chip has carried out c.
Stored(c) ==
    CASE c.op = "write" /\ content[c.slot] = "empty" -> c.data
      [] c.op = "erase" -> "empty"
      [] OTHER -> content[c.slot]

\* lt_l3_decrypt_response and the check of the result that follows it in
\* lt_in__r_mem_data_write and _erase.
WriteRet(result) ==
    CASE result # RESULT_OK -> "LT_L3_SLOT_NOT_EMPTY"
      [] result # 0         -> "LT_L3_R_MEM_DATA_WRITE_FAILED"
      [] OTHER              -> "LT_OK"

EraseRet(result) ==
    CASE result # RESULT_OK -> "LT_L3_FAIL"
      [] result # 0         -> "LT_L3_R_MEM_DATA_ERASE_FAILED"
      [] OTHER              -> "LT_OK"

\* lt_in__r_mem_data_read, with a result of no more than the slot size the host knows.
ReadRet(stored) ==
    IF stored = "empty" THEN "LT_L3_R_MEM_DATA_READ_SLOT_EMPTY" ELSE "LT_OK"

InRet(c) ==
    CASE c.op = "write" -> WriteRet(ResultByte(c))
      [] c.op = "erase" -> EraseRet(ResultByte(c))
      [] OTHER          -> ReadRet(content[c.slot])

\* A mutant of Finish: a read clears the warning, whatever its outcome.
FinishClearing(c, r, done) ==
    /\ pending' = NoCall
    /\ last' = [op |-> c.op, ret |-> r, done |-> done]
    /\ warning' = (r # "LT_OK" /\ c.op # "read")

\* The service ends with r: writes and erases set the warning unless all went
\* well, reads only ever clear it.
Finish(c, r, done) ==
    /\ pending' = NoCall
    /\ last' = [op |-> c.op, ret |-> r, done |-> done]
    /\ warning' = CASE r = "LT_OK"   -> FALSE
                    [] c.op = "read" -> warning
                    [] OTHER         -> TRUE

\* The chip does what c says, unless the slot is in the way.
Done(c) == ResultByte(c) = RESULT_OK
ChipStores(c) == content' = [content EXCEPT ![c.slot] = Stored(c)]

\* The result is over the limit that lt_r_mem_data_read sets for receiving it: without
\* the slot size the limit is 22 bytes, those of the result for an empty slot.
OverLimit(c) == c.op = "read" /\ ~attrs /\ content[c.slot] # "empty"

\* The chip is in step: it executes the command and the host gets the result.
Answered(c) ==
    /\ Answers /\ sync = "in_step"
    /\ ~OverLimit(c)
    /\ ChipStores(c)
    /\ Finish(c, InRet(c), Done(c))
    /\ UNCHANGED <<session_status, sync, faults>>

\* The chip executes the command, but the host does not take the result, and so does
\* not decrypt it: it keeps its session, and the chip is a result ahead.
NotReceived(c) ==
    /\ Answers /\ sync \in {"in_step", "lost"}
    /\ OverLimit(c)
    /\ sync' = "lost"
    /\ ChipStores(c)
    /\ Finish(c, "LT_L2_RSP_LEN_ERROR", Done(c))
    /\ UNCHANGED <<session_status, faults>>

\* The chip executes the command, but the host cannot decrypt the result: an
\* earlier result was lost, so the nonces differ, or noise got into this one, which may
\* also make the length of a piece pass the limit.
Undecrypted(c) ==
    /\ Answers
    /\ \/ sync = "lost" /\ ~OverLimit(c) /\ UNCHANGED faults
       \/ sync \in {"in_step", "lost"} /\ Fault
    /\ ChipStores(c)
    /\ Finish(c, "LT_CRYPTO_ERR", Done(c))
    /\ Invalidate

\* The chip has no such session, or misses an earlier command: it answers with
\* TAG_ERR or NO_SESSION, and the host keeps its session.
Rejected(c) ==
    /\ Answers /\ sync \in {"none", "unsent"}
    /\ sync' \in {sync, "none"}
    /\ Finish(c, "LT_L2_TAG_ERR", FALSE)
    /\ UNCHANGED <<session_status, content, faults>>

\* An L1 or L2 error: the command never reached the chip, or its result never
\* reached the host.
Undelivered(c) ==
    /\ Fault \/ (~Answers /\ UNCHANGED faults)
    /\ sync' = IF sync \in {"in_step", "lost"} THEN "unsent" ELSE sync
    /\ Finish(c, "LT_L1_L2_ERROR", FALSE)
    /\ UNCHANGED <<session_status, content>>

ResultLost(c) ==
    /\ Answers /\ sync \in {"in_step", "lost"}
    /\ Fault
    /\ sync' = "lost"
    /\ ChipStores(c)
    /\ Finish(c, "LT_L1_L2_ERROR", Done(c))
    /\ UNCHANGED session_status

Exchange ==
    /\ pending # NoCall
    /\ \/ /\ ParamError(pending)
          /\ Finish(pending, "LT_PARAM_ERR", FALSE)
          /\ UNCHANGED <<session_status, sync, content, faults>>
       \/ /\ ~ParamError(pending)
          /\ \/ Answered(pending)
             \/ NotReceived(pending)
             \/ Undecrypted(pending)
             \/ Rejected(pending)
             \/ Undelivered(pending)
             \/ ResultLost(pending)
    /\ UNCHANGED <<phase, handle, spi, attrs, initialized_, session_established_,
                   default_key_invalid_, published, mode, fw_valid, factory_key,
                   rejected>>

-----------------------------------------------------------------------------
\* The end of the component's life: the shutdown hooks, then teardown, during
\* which the API server still serves, then the powerdown hooks and the restart.
OnShutdown ==
    /\ phase = "running" /\ pending = NoCall
    /\ phase' = "shutdown"
    /\ session_established_' = FALSE
    /\ UNCHANGED <<handle, spi, attrs, initialized_, default_key_invalid_,
                   session_status, warning, published, pending, last, chipVars, faults>>

\* A mutant of Teardown: the SPI device stays.
TeardownKeepingSpi ==
    /\ phase = "shutdown" /\ pending = NoCall
    /\ phase' = "torn_down"
    /\ UNCHANGED <<spi, handle, attrs, initialized_, session_established_,
                   default_key_invalid_, session_status, warning, published,
                   pending, last, chipVars, faults>>

\* teardown removes the SPI device, so later calls fail with LT_HAL_ERROR.
Teardown ==
    /\ phase = "shutdown" /\ pending = NoCall
    /\ phase' = "torn_down"
    /\ spi' = FALSE
    /\ UNCHANGED <<handle, attrs, initialized_, session_established_,
                   default_key_invalid_, session_status, warning, published,
                   pending, last, chipVars, faults>>

\* A mutant of OnPowerdown: initialized_ stays set.
OnPowerdownForgetful ==
    /\ phase = "torn_down" /\ pending = NoCall
    /\ phase' = "off"
    /\ Invalidate
    /\ handle' = "null"
    /\ spi' = FALSE
    /\ UNCHANGED <<initialized_, attrs, session_established_, default_key_invalid_,
                   warning, published, pending, last, mode, fw_valid, factory_key,
                   content, rejected, faults>>

\* on_powerdown: lt_deinit of whatever handle there is.
OnPowerdown ==
    /\ phase = "torn_down" /\ pending = NoCall
    /\ phase' = "off"
    /\ Invalidate
    /\ handle' = "null"
    /\ spi' = FALSE
    /\ initialized_' = FALSE
    /\ UNCHANGED <<attrs, session_established_, default_key_invalid_, warning,
                   published, pending, last, mode, fw_valid, factory_key,
                   content, rejected, faults>>

\* The badge restarts, or wakes from deep sleep, and constructs the component
\* anew; the chip has kept its power.
Restart ==
    /\ phase = "off"
    /\ phase' = "constructed"
    /\ attrs' = FALSE
    /\ session_established_' = FALSE
    /\ default_key_invalid_' = FALSE
    /\ warning' = FALSE
    /\ published' = "none"
    /\ last' = NoOutcome
    /\ rejected' = 0
    /\ UNCHANGED <<handle, spi, initialized_, session_status, pending, mode,
                   fw_valid, factory_key, sync, content, faults>>

-----------------------------------------------------------------------------
\* The chip loses power and boots again.
ChipReset ==
    /\ Fault
    /\ mode' \in BootModes
    /\ sync' = "none"
    /\ UNCHANGED <<hostVars, fw_valid, factory_key, content, rejected>>

\* The chip finds that it is being tampered with.
ChipAlarm ==
    /\ mode # "ALARM"
    /\ Fault
    /\ mode' = "ALARM"
    /\ sync' = "none"
    /\ UNCHANGED <<hostVars, fw_valid, factory_key, content, rejected>>

Poll == RetryFails \/ Update

Next == \/ Setup \/ Poll
        \/ SeWrite \/ SeRead \/ SeErase \/ Exchange
        \/ OnShutdown \/ Teardown \/ OnPowerdown \/ Restart
        \/ ChipReset \/ ChipAlarm

Spec == Init /\ [][Next]_vars

\* The main loop calls setup, and update every interval; a libtropic call that
\* has begun returns.  Nobody need call a service or shut the badge down.
FairSpec == Spec /\ WF_vars(Setup) /\ WF_vars(Poll) /\ WF_vars(Exchange)

-----------------------------------------------------------------------------
\* A chip with another pairing key sees at most one handshake with the wrong
\* key between two boots of the badge, however services, polls, shutdown and
\* chip resets fall: after that one ensure_secure_session refuses.
OneRejectionPerBoot == rejected <= 1 /\ (rejected = 1 => default_key_invalid_)

\* libtropic is called only on a handle that lt_init has accepted and that
\* on_powerdown has not freed, over an SPI device that only teardown removes;
\* a session is ON only on such a handle.
LiveHandle ==
    /\ initialized_ \/ pending # NoCall \/ session_status = "ON" => handle = "live"
    /\ handle = "live" => spi \/ phase = "torn_down"

\* While the tamper alarm lasts that a poll has published, no service clears
\* the warning: nothing goes well on a chip in alarm, and a read that fails
\* leaves the warning as it is.
AlarmKeepsWarning ==
    [][warning /\ mode = "ALARM" /\ mode' = "ALARM" /\ published' = "ALARM" => warning']_vars

\* A service that the API server still runs after teardown changes nothing on
\* the chip.
LateServicesAreHarmless == [][phase = "torn_down" => UNCHANGED content]_vars

\* "TROPIC01 init failed, will retry in update loop": a chip without alarm
\* gets initialised in the end.
InitRetried ==
    (phase = "running" /\ ~initialized_)
        ~> (initialized_ \/ phase # "running" \/ mode = "ALARM")

-----------------------------------------------------------------------------
(* What comments of the code say, and the code does not do: see README.      *)

\* libtropic_common.h: LT_L3_R_MEM_DATA_WRITE_FAILED and _ERASE_FAILED mean
\* that the chip rejected the operation.
FailedMeansRejected ==
    last.ret \in {"LT_L3_R_MEM_DATA_WRITE_FAILED", "LT_L3_R_MEM_DATA_ERASE_FAILED"}
        => ~last.done

\* tropic01.h: default_key_invalid_ means that the user has customized the
\* pairing key.
KeyFlagMeansCustomKey == default_key_invalid_ => ~factory_key

\* libtropic.h: lt_deinit must not be called if lt_init failed.
DeinitOnlyAfterInit ==
    [][phase = "torn_down" /\ phase' = "off" => handle # "failed"]_vars

\* tropic01.cpp: ensure_secure_session finds out that an error has made the
\* session useless, and establishes a new one.
SessionRecovers ==
    (phase = "running" /\ session_status = "ON" /\ sync # "in_step")
        ~> \/ session_status = "OFF" \/ sync = "in_step"
           \/ phase # "running" \/ mode # "APPLICATION"

\* For it, the slots there are get read again and again, whatever else is done.
ServedSpec == FairSpec /\ \A s \in Slots : SF_vars(Service("read", s, "none"))
=============================================================================
