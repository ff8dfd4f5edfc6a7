---------------------------- MODULE SecureChannel ----------------------------
(***************************************************************************)
(* The L3 secure channel of libtropic: the session a host and a chip set   *)
(* up with a handshake, and the L3 Commands that run in it, each encrypted *)
(* under the session key with a counter as nonce (lt_l3_process.c,         *)
(* libtropic_l3.c, and the lt_* functions of libtropic.c around them).     *)
(*                                                                         *)
(* Below is Layer 2, taken as L2Transfer and L2Encrypted show it to be: a  *)
(* request arrives once, is lost, or arrives although the host saw an      *)
(* error, and a packet may be spoilt although it saw none.  A key is the   *)
(* number of the handshake that made it (both sides draw fresh ephemeral   *)
(* keys), 0 is no key.  A command is the number of the call that sends it. *)
(***************************************************************************)
EXTENDS Naturals

CONSTANTS
    MaxCalls,      \* bound on the number of L3 Commands
    MaxHandshakes, \* bound on the number of handshakes
    NonceMax       \* the code has UINT32_MAX

ASSUME CallsAssumption == MaxCalls \in Nat
ASSUME HandshakesAssumption == MaxHandshakes \in Nat
ASSUME NonceAssumption == NonceMax \in Nat

VARIABLES
    pc,              \* where the host is in lt_session_start or a command
    session_status,  \* s3->session_status
    encryption_IV,   \* s3->encryption_IV
    decryption_IV,   \* s3->decryption_IV
    key,             \* keys held by s3->crypto_ctx
    handshakes,      \* number of the latest handshake
    call,            \* number of the latest command
    ret,             \* what the latest finished command returned
    sent             \* every encrypted command handed to Layer 2

VARIABLES
    chip_key,        \* keys of the chip's session, 0 if it has none
    chip_IV,         \* nonce of the next command the chip accepts, and of its result
    chip_in,         \* request the chip has received and not yet processed
    chip_out,        \* response the host has not yet read
    executed         \* how many times the chip executed each command

sessionVars == <<session_status, encryption_IV, decryption_IV, key>>
chipVars == <<chip_key, chip_IV, chip_in, chip_out, executed>>
vars == <<pc, sessionVars, handshakes, call, ret, sent, chipVars>>

-----------------------------------------------------------------------------
Calls == 1..MaxCalls
Keys == 0..MaxHandshakes
Nonces == 0..NonceMax

\* What passes between host and chip.  "end" is a request that ends the chip's
\* session (Encrypted_Session_Abt, Startup_Req), "status" any response that
\* is an L2 status only: TAG_ERR, NO_SESSION, HSK_ERR.
Message == [kind : {"none", "handshake", "command", "end", "result", "status"},
            key : Keys, iv : Nonces, call : 0..MaxCalls]

Plain(kind) == [kind |-> kind, key |-> 0, iv |-> 0, call |-> 0]
None == Plain("none")
Handshake(k) == [kind |-> "handshake", key |-> k, iv |-> 0, call |-> 0]
Command(k, n, c) == [kind |-> "command", key |-> k, iv |-> n, call |-> c]
Result(k, n, c) == [kind |-> "result", key |-> k, iv |-> n, call |-> c]

Ret == {"LT_OK", "LT_HOST_NO_SESSION", "LT_CRYPTO_ERR", "LT_NONCE_OVERFLOW",
        "LT_L3_FAIL", "LT_L3_RES_SIZE_ERROR", "LT_L1_L2_ERROR"}

TypeOK ==
    /\ pc \in {"idle", "handshake", "out", "send", "receive"}
    /\ session_status \in {"ON", "OFF"}
    /\ encryption_IV \in Nonces
    /\ decryption_IV \in Nonces
    /\ key \in Keys
    /\ handshakes \in Keys
    /\ call \in 0..MaxCalls
    /\ ret \in Ret
    /\ sent \subseteq {m \in Message : m.kind = "command"}
    /\ chip_key \in Keys
    /\ chip_IV \in Nonces
    /\ chip_in \in Message /\ chip_in.kind \notin {"result", "status"}
    /\ chip_out \in Message /\ chip_out.kind \notin {"command", "end"}
    /\ executed \in [Calls -> Nat]

\* After lt_init on a fresh handle.
Init ==
    /\ pc = "idle"
    /\ session_status = "OFF"
    /\ encryption_IV = 0
    /\ decryption_IV = 0
    /\ key = 0
    /\ handshakes = 0
    /\ call = 0
    /\ ret = "LT_HOST_NO_SESSION"
    /\ sent = {}
    /\ chip_key = 0
    /\ chip_IV = 0
    /\ chip_in = None
    /\ chip_out = None
    /\ executed = [c \in Calls |-> 0]

-----------------------------------------------------------------------------
\* A mutant of Invalidate: the status is reset, keys and nonces are not.
InvalidateStatusOnly ==
    /\ session_status' = "OFF"
    /\ UNCHANGED <<encryption_IV, decryption_IV, key>>

\* lt_l3_invalidate_host_session_data.
Invalidate ==
    /\ session_status' = "OFF"
    /\ encryption_IV' = 0
    /\ decryption_IV' = 0
    /\ key' = 0

\* A command returns r.
Return(r) ==
    /\ ret' = r
    /\ pc' = "idle"

\* Layer 2 delivers m, which replaces what the chip had not yet processed or
\* sent.
Deliver(m) ==
    /\ chip_in' = m
    /\ chip_out' = None
    /\ UNCHANGED <<chip_key, chip_IV, executed>>

\* Layer 2 gives up: the chip has m, or nothing new, or a part of m.
DeliveryFails(m) ==
    /\ \/ UNCHANGED <<chip_in, chip_out>>
       \/ chip_in' \in {m, None} /\ chip_out' = None
    /\ UNCHANGED <<chip_key, chip_IV, executed>>

\* The host reads the chip's response.
Read ==
    /\ chip_out.kind # "none"
    /\ chip_out' = None
    /\ UNCHANGED <<chip_key, chip_IV, chip_in, executed>>

\* The host gives up reading, with the response gone or still there.
ReadFails ==
    /\ chip_out' \in {chip_out, None}
    /\ UNCHANGED <<chip_key, chip_IV, chip_in, executed>>

-----------------------------------------------------------------------------
\* lt_session_start up to the transfer: lt_out__session_start drops the old
\* session and draws the ephemeral keys.
SessionStart ==
    /\ pc = "idle"
    /\ handshakes < MaxHandshakes
    /\ Invalidate
    /\ handshakes' = handshakes + 1
    /\ \/ Deliver(Handshake(handshakes + 1)) /\ pc' = "handshake"
       \/ DeliveryFails(Handshake(handshakes + 1)) /\ UNCHANGED pc
    /\ UNCHANGED <<call, ret, sent>>

\* lt_in__session_start: the keys are kept if the chip's authentication tag
\* fits this handshake.  The chip may use another pairing key, so the tag can
\* be wrong for the right handshake too.
SessionStarted ==
    /\ pc = "handshake"
    /\ pc' = "idle"
    /\ \/ /\ Read
          /\ chip_out = Handshake(handshakes)
          /\ session_status' = "ON"
          /\ key' = handshakes
          /\ encryption_IV' = 0
          /\ decryption_IV' = 0
       \/ (Read \/ ReadFails) /\ Invalidate
    /\ UNCHANGED <<handshakes, call, ret, sent>>

\* A lt_* function that runs an L3 Command is called.
LtCommand ==
    /\ pc = "idle"
    /\ call < MaxCalls
    /\ call' = call + 1
    /\ pc' = "out"
    /\ UNCHANGED <<sessionVars, handshakes, ret, sent, chipVars>>

\* Mutants of Overflows and NonceIncrease: the check comes after the increase,
\* or never fires; the nonce of an overflow is increased all the same.
OverflowsAfter(n) == n + 1 = NonceMax
OverflowsNever(n) == n > NonceMax
NonceIncreaseAlways(n) == n + 1

\* lt_l3_nonce_increase: LT_NONCE_OVERFLOW leaves the nonce as it is.
Overflows(n) == n = NonceMax
NonceIncrease(n) == IF n = NonceMax THEN n ELSE n + 1

\* lt_out__*: the session check, then lt_l3_encrypt_request.  A nonce that
\* cannot be increased stops the command before it is sent, and leaves the
\* session as it is.
Out ==
    /\ pc = "out"
    /\ \/ /\ session_status = "OFF"
          /\ Return("LT_HOST_NO_SESSION")
          /\ UNCHANGED sessionVars
       \/ /\ session_status = "ON"
          /\ Invalidate
          /\ Return("LT_CRYPTO_ERR")
       \/ /\ session_status = "ON"
          /\ encryption_IV' = NonceIncrease(encryption_IV)
          /\ UNCHANGED <<session_status, decryption_IV, key>>
          /\ IF Overflows(encryption_IV)
             THEN Return("LT_NONCE_OVERFLOW")
             ELSE pc' = "send" /\ UNCHANGED ret
    /\ UNCHANGED <<handshakes, call, sent, chipVars>>

\* The packet in the L3 buffer: encrypted under the nonce before the increase.
Packet == Command(key, encryption_IV - 1, call)

\* A mutant of Send: a failed send gives its nonce back.
SendRollingBack ==
    /\ pc = "send"
    /\ sent' = sent \cup {Packet}
    /\ \/ /\ Deliver(Packet) \/ Deliver(None)
          /\ pc' = "receive" /\ UNCHANGED <<ret, encryption_IV>>
       \/ /\ DeliveryFails(Packet) /\ Return("LT_L1_L2_ERROR")
          /\ encryption_IV' = encryption_IV - 1
    /\ UNCHANGED <<session_status, decryption_IV, key, handshakes, call>>

\* lt_l2_send_encrypted_cmd.  An error leaves the session ON, one nonce ahead.
\* Success does not mean that the packet is whole: the chip may have taken its
\* chunks for the rest of a packet given up earlier (see L2Encrypted).
Send ==
    /\ pc = "send"
    /\ sent' = sent \cup {Packet}
    /\ \/ /\ Deliver(Packet) \/ Deliver(None)
          /\ pc' = "receive" /\ UNCHANGED ret
       \/ DeliveryFails(Packet) /\ Return("LT_L1_L2_ERROR")
    /\ UNCHANGED <<sessionVars, handshakes, call>>

\* Mutants of Authentic: any result of the session passes, in or out of order;
\* any response passes, a bare status among them.
AuthenticAnyNonce(m) == m.kind = "result" /\ m.key = key
AuthenticAnything(m) == m.kind # "none"

\* lt_l3_decrypt_response authenticates m under the session key and nonce.
Authentic(m) == m.kind = "result" /\ m.key = key /\ m.iv = decryption_IV

\* lt_l2_recv_encrypted_res and lt_in__*.  A result that decrypts carries a
\* result byte and a size: a wrong size drops the session, a result other than
\* OK does not.  A result that does not decrypt, because it is not the one
\* expected or because noise got into a frame whose CRC was not looked at,
\* drops the session.  An L1 or L2 error does not.
Receive ==
    /\ pc = "receive"
    /\ \/ /\ Read /\ Authentic(chip_out)
          /\ decryption_IV' = NonceIncrease(decryption_IV)
          /\ UNCHANGED <<session_status, encryption_IV, key>>
          /\ IF Overflows(decryption_IV)
             THEN Return("LT_NONCE_OVERFLOW")
             ELSE \E r \in {"LT_OK", "LT_L3_FAIL"} : Return(r)
       \/ /\ Read /\ chip_out.kind # "status"
          /\ Invalidate
          /\ \E r \in {"LT_CRYPTO_ERR", "LT_L3_RES_SIZE_ERROR"} : Return(r)
       \/ /\ ReadFails \/ (Read /\ chip_out.kind = "status")
          /\ Return("LT_L1_L2_ERROR")
          /\ UNCHANGED sessionVars
    /\ UNCHANGED <<handshakes, call, sent>>

\* lt_session_abort: the host's session ends before the chip is told.
SessionAbort ==
    /\ pc = "idle"
    /\ Invalidate
    /\ Deliver(Plain("end")) \/ DeliveryFails(Plain("end"))
    /\ UNCHANGED <<pc, handshakes, call, ret, sent>>

\* lt_reboot: the chip's session ends, the host's does not.
Reboot ==
    /\ pc = "idle"
    /\ Deliver(Plain("end")) \/ DeliveryFails(Plain("end"))
    /\ UNCHANGED <<pc, sessionVars, handshakes, call, ret, sent>>

\* lt_deinit, then lt_init of the same or a fresh handle.
Reinit ==
    /\ pc = "idle"
    /\ Invalidate
    /\ UNCHANGED <<pc, handshakes, call, ret, sent, chipVars>>

\* An L2 Request that has nothing to do with the session (lt_get_info_*).
GetInfo ==
    /\ pc = "idle"
    /\ Deliver(None)
    /\ UNCHANGED <<pc, sessionVars, handshakes, call, ret, sent>>

-----------------------------------------------------------------------------
\* The chip, as the host's code treats it.  It may drop its session whenever
\* it refuses a request, or by losing power.
hostVars == <<pc, sessionVars, handshakes, call, ret, sent>>

Answer(m) == chip_in' = None /\ chip_out' = m

ChipHandshake ==
    /\ chip_in.kind = "handshake"
    /\ Answer(chip_in)
    /\ chip_key' = chip_in.key
    /\ chip_IV' = 0
    /\ UNCHANGED <<executed, hostVars>>

\* Whether a packet decrypts in the chip's session.
Accepted(m) ==
    m.kind = "command" /\ chip_key # 0 /\ m.key = chip_key /\ m.iv = chip_IV

ChipExecutes ==
    /\ Accepted(chip_in)
    /\ Answer(Result(chip_key, chip_IV, chip_in.call))
    /\ chip_IV' = chip_IV + 1
    /\ executed' = [executed EXCEPT ![chip_in.call] = @ + 1]
    /\ UNCHANGED <<chip_key, hostVars>>

ChipRefuses ==
    /\ chip_in.kind \in {"handshake", "command"}
    /\ ~Accepted(chip_in)
    /\ Answer(Plain("status"))
    /\ chip_key' \in {chip_key, 0}
    /\ UNCHANGED <<chip_IV, executed, hostVars>>

ChipEndsSession ==
    /\ chip_in.kind = "end"
    /\ Answer(Plain("status"))
    /\ chip_key' = 0
    /\ UNCHANGED <<chip_IV, executed, hostVars>>

ChipReset ==
    /\ chip_key' = 0
    /\ chip_in' = None
    /\ chip_out' = None
    /\ UNCHANGED <<chip_IV, executed, hostVars>>

Host == \/ SessionStart \/ SessionStarted \/ LtCommand \/ Out \/ Send \/ Receive
        \/ SessionAbort \/ Reboot \/ Reinit \/ GetInfo
Chip == ChipHandshake \/ ChipExecutes \/ ChipRefuses \/ ChipEndsSession \/ ChipReset

Next == Host \/ Chip

Spec == Init /\ [][Next]_vars

-----------------------------------------------------------------------------
\* No nonce is used twice under one key: two commands on the wire with the
\* same key and nonce are the same command.  A send that failed must not give
\* its nonce back, and a nonce that overflows must not wrap.
NonceUnique ==
    \A m1, m2 \in sent : m1.key = m2.key /\ m1.iv = m2.iv => m1 = m2

\* LT_OK leaves the two ends in step: the host's nonces are equal, and those
\* of a chip that still has this session are the same.  So a command whose
\* result was lost cannot be followed by a successful one in its session.
InStep ==
    pc = "idle" /\ ret = "LT_OK" /\ session_status = "ON" =>
        /\ encryption_IV = decryption_IV
        /\ chip_key = key => chip_IV = encryption_IV

\* The chip executes the commands of a session in the order they were sent and
\* leaves none out.
ExecutedInOrder ==
    \A m1, m2 \in sent :
        m1.key = m2.key /\ m1.call < m2.call /\ executed[m2.call] > 0
            => executed[m1.call] > 0

\* LT_NONCE_OVERFLOW is the answer to a command that was never sent, so the
\* caller knows that the chip has not executed it: the nonce of the results
\* never overflows first.
OverflowNotSent ==
    pc \in {"idle", "handshake"} /\ ret = "LT_NONCE_OVERFLOW" =>
        \A m \in sent : m.call # call

-----------------------------------------------------------------------------
\* The inductive invariant, in named parts.

\* An OFF session has no keys and no nonces; an ON session has those of the
\* latest handshake.
SessionKeys ==
    /\ session_status = "OFF" => key = 0 /\ encryption_IV = 0 /\ decryption_IV = 0
    /\ session_status = "ON" => key = handshakes /\ key # 0
    /\ decryption_IV <= encryption_IV

\* Where the host is in an operation says what it holds.
HostProgress ==
    /\ pc = "handshake" => session_status = "OFF" /\ handshakes # 0
    /\ pc \in {"out", "send", "receive"} => call \in Calls
    /\ pc \in {"send", "receive"} =>
          session_status = "ON" /\ decryption_IV < encryption_IV
    /\ pc = "receive" => Packet \in sent

\* Commands on the wire are older than what the host will send next.
SentIsPast ==
    \A m \in sent :
        /\ m = Command(m.key, m.iv, m.call)
        /\ m.key \in 1..handshakes /\ m.iv < NonceMax /\ m.call \in 1..call
        /\ m.key = key => m.iv < encryption_IV
        /\ m.key = key /\ pc = "send" => m.iv < encryption_IV - 1
        /\ pc \in {"out", "send"} => m.call # call
        /\ pc = "handshake" => m.key # handshakes

\* In one session later commands have higher nonces.
SentInOrder ==
    \A m1, m2 \in sent :
        /\ m1.call = m2.call => m1 = m2
        /\ m1.key = m2.key /\ m1.call < m2.call => m1.iv < m2.iv

\* What is on its way to the chip is a command that was sent or a
\* handshake whose keys nobody has used yet.
InFlight ==
    /\ chip_in.kind = "command" => chip_in \in sent
    /\ chip_in.kind = "handshake" =>
          /\ chip_in = Handshake(chip_in.key) /\ chip_in.key \in 1..handshakes
          /\ chip_key # chip_in.key /\ key = 0
          /\ \A m \in sent : m.key # chip_in.key
          /\ chip_out = None
    /\ pc = "receive" /\ chip_in # None => chip_in = Packet /\ chip_out = None
    /\ pc = "receive" =>
          /\ chip_out.kind \in {"none", "result", "status"}
          /\ chip_out.kind = "result" =>
                /\ chip_out = Result(key, encryption_IV - 1, call)
                /\ executed[call] = 1
                /\ chip_key = key => chip_IV = encryption_IV

\* The chip has executed exactly the commands of its session below its nonce,
\* and none twice.
ChipProgress ==
    /\ chip_key <= handshakes
    /\ \A c \in Calls : executed[c] # 0 => executed[c] = 1 /\ \E m \in sent : m.call = c
    /\ \A m \in sent :
          m.key = chip_key => (m.iv < chip_IV <=> executed[m.call] = 1)
    /\ chip_key = key /\ key # 0 => chip_IV <= encryption_IV
    /\ chip_key = key /\ pc = "send" => chip_IV <= encryption_IV - 1
    /\ chip_key # 0 /\ (\A m \in sent : m.key # chip_key) => chip_IV = 0

\* LT_OK means that the chip executed the command.
OkIsExecuted ==
    pc \in {"idle", "handshake"} /\ ret = "LT_OK" =>
        call \in Calls /\ executed[call] = 1

\* Together: what every step of host and chip preserves.
IInv ==
    /\ TypeOK
    /\ SessionKeys
    /\ HostProgress
    /\ SentIsPast
    /\ SentInOrder
    /\ InFlight
    /\ ChipProgress
    /\ InStep
    /\ ExecutedInOrder
    /\ OverflowNotSent
    /\ OkIsExecuted

\* The channel implements the remote call of AtMostOnceRpc.
Rpc == INSTANCE AtMostOnceRpc
         WITH busy <- pc \in {"out", "send", "receive"}, ok <- ret = "LT_OK"

ImplementsRpc == Rpc!Spec
=============================================================================
