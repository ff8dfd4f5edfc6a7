------------------------- MODULE SecureChannelProofs -------------------------
(***************************************************************************)
(* Proofs about SecureChannel, for every number of calls and handshakes    *)
(* and every last nonce: IInv is an inductive invariant, and the safety    *)
(* properties of the channel follow from it.  A lemma for each action      *)
(* shows that it preserves IInv, in one step for each part of IInv.        *)
(***************************************************************************)
EXTENDS SecureChannel, TLAPS

(* The messages host and chip build are messages.                            *)
LEMMA MessageFacts ==
    /\ None \in Message /\ None.kind = "none"
    /\ Plain("end") \in Message /\ Plain("end").kind = "end"
    /\ Plain("status") \in Message /\ Plain("status").kind = "status"
    /\ \A k \in Keys : Handshake(k) \in Message
    /\ \A k \in Keys, n \in Nonces, c \in 0..MaxCalls :
          Command(k, n, c) \in Message /\ Result(k, n, c) \in Message
BY CallsAssumption, HandshakesAssumption, NonceAssumption
   DEF Message, None, Plain, Handshake, Command, Result, Keys, Nonces

(* A message has the fields it was built from.                               *)
LEMMA FieldFacts ==
    /\ \A k : Handshake(k).kind = "handshake" /\ Handshake(k).key = k
    /\ \A k, n, c : /\ Command(k, n, c).kind = "command"
                    /\ Command(k, n, c).key = k
                    /\ Command(k, n, c).iv = n
                    /\ Command(k, n, c).call = c
    /\ \A k, n, c : /\ Result(k, n, c).kind = "result"
                    /\ Result(k, n, c).key = k
                    /\ Result(k, n, c).iv = n
                    /\ Result(k, n, c).call = c
BY DEF Handshake, Command, Result

(* Between the encryption of a command and its result the packet in the L3   *)
(* buffer is a command of the current session, below its nonce.              *)
LEMMA PacketFacts ==
    ASSUME IInv, pc \in {"send", "receive"}
    PROVE  /\ encryption_IV - 1 \in Nonces /\ encryption_IV - 1 < NonceMax
           /\ key \in 1..handshakes /\ key \in Keys
           /\ call \in Calls
           /\ Packet \in Message
           /\ Packet.kind = "command" /\ Packet.key = key
           /\ Packet.iv = encryption_IV - 1 /\ Packet.call = call
           /\ Packet = Command(Packet.key, Packet.iv, Packet.call)
<1>1. encryption_IV \in Nonces /\ decryption_IV \in Nonces /\ key \in Keys /\ handshakes \in Keys
    BY DEF IInv, TypeOK
<1>2. decryption_IV < encryption_IV /\ call \in Calls /\ session_status = "ON"
    BY DEF IInv, HostProgress
<1>3. key = handshakes /\ key # 0
    BY <1>2 DEF IInv, SessionKeys
<1>4. encryption_IV - 1 \in Nonces /\ encryption_IV - 1 < NonceMax
    BY <1>1, <1>2, NonceAssumption DEF Nonces
<1>5. key \in 1..handshakes /\ call \in 0..MaxCalls
    BY <1>1, <1>2, <1>3, HandshakesAssumption, CallsAssumption DEF Keys, Calls
<1>6. QED
    BY <1>1, <1>2, <1>4, <1>5, MessageFacts, FieldFacts DEF Packet

-----------------------------------------------------------------------------
(* SessionStart drops the keys before the request leaves, and numbers its    *)
(* handshake above every key in use.                                         *)
LEMMA SessionStartStep == ASSUME IInv, SessionStart PROVE IInv'
<1>1. TypeOK'
    BY CallsAssumption, HandshakesAssumption, NonceAssumption
    DEF IInv, TypeOK, SessionStart, Keys, Nonces, Message, Plain, None,
        Handshake, Invalidate, Deliver, DeliveryFails
<1>2. SessionKeys'
    BY DEF SessionKeys, SessionStart, Invalidate
<1>3. HostProgress'
    BY DEF IInv, HostProgress, SessionStart, Keys, TypeOK, Invalidate
<1>4. SentIsPast'
  <2>1. /\ sent' = sent /\ key' = 0 /\ call' = call
        /\ handshakes \in Nat /\ handshakes' = handshakes + 1
        /\ pc' \in {"idle", "handshake"}
      BY HandshakesAssumption DEF IInv, TypeOK, Keys, SessionStart, Invalidate
  <2>2. QED
      BY <2>1 DEF IInv, SentIsPast
<1>5. SentInOrder'
    BY DEF IInv, SentInOrder, SessionStart, Invalidate
<1>6. InFlight'
    BY DEF IInv, InFlight, SessionStart, Keys, Message, Plain, None,
           Handshake, Command, Result, TypeOK, Invalidate, Deliver,
           DeliveryFails, SentIsPast, SentInOrder, ChipProgress
<1>7. ChipProgress'
  <2>1. /\ sent' = sent /\ key' = 0 /\ executed' = executed
        /\ chip_key' = chip_key /\ chip_IV' = chip_IV
        /\ handshakes \in Nat /\ handshakes' = handshakes + 1
        /\ chip_key \in Nat
        /\ pc' # "send"
      BY HandshakesAssumption DEF IInv, TypeOK, Keys, SessionStart, Invalidate, Deliver, DeliveryFails
  <2>2. QED
      BY <2>1 DEF IInv, ChipProgress
<1>8. InStep'
    BY DEF InStep, SessionStart, Invalidate
<1>9. ExecutedInOrder'
    BY DEF IInv, ExecutedInOrder, SessionStart, Invalidate, Deliver,
           DeliveryFails
<1>10. OverflowNotSent'
    BY DEF IInv, OverflowNotSent, SessionStart, Invalidate
<1>11. OkIsExecuted'
    BY DEF IInv, OkIsExecuted, SessionStart, Invalidate, Deliver,
           DeliveryFails
<1>12. QED
    BY <1>1, <1>2, <1>3, <1>4, <1>5, <1>6, <1>7, <1>8, <1>9, <1>10, <1>11 DEF IInv

(* SessionStarted takes the keys of the latest handshake, under which nothing *)
(* has been sent, or none.                                                   *)
LEMMA SessionStartedStep == ASSUME IInv, SessionStarted PROVE IInv'
<1>1. TypeOK'
    BY CallsAssumption, HandshakesAssumption, NonceAssumption
    DEF IInv, TypeOK, SessionStarted, Keys, Nonces, Message, Plain, None,
        Handshake, Invalidate, Read, ReadFails
<1>2. SessionKeys'
    BY DEF IInv, SessionKeys, SessionStarted, Invalidate, HostProgress
<1>3. HostProgress'
    BY DEF HostProgress, SessionStarted, Invalidate
<1>4. SentIsPast'
    BY DEF IInv, SentIsPast, SessionStarted, Invalidate
<1>5. SentInOrder'
    BY DEF IInv, SentInOrder, SessionStarted, Invalidate
<1>6. InFlight'
    BY DEF IInv, InFlight, SessionStarted, Plain, None, Command, Result,
           Invalidate, Read, ReadFails
<1>7. ChipProgress'
  <2>1. /\ sent' = sent /\ handshakes' = handshakes /\ executed' = executed
        /\ chip_key' = chip_key /\ chip_IV' = chip_IV
        /\ pc = "handshake" /\ pc' = "idle"
        /\ encryption_IV' = 0 /\ key' \in {0, handshakes}
      BY DEF SessionStarted, Invalidate, Read, ReadFails
  <2>2. chip_key = handshakes => chip_IV = 0
      BY <2>1 DEF IInv, ChipProgress, SentIsPast, HostProgress
  <2>3. QED
      BY <2>1, <2>2 DEF IInv, ChipProgress
<1>8. InStep'
    BY DEF IInv, InStep, SessionStarted, Invalidate, Read, ReadFails,
           ExecutedInOrder, OverflowNotSent, SentIsPast, SentInOrder,
           ChipProgress, OkIsExecuted
<1>9. ExecutedInOrder'
    BY DEF IInv, ExecutedInOrder, SessionStarted, Invalidate, Read, ReadFails
<1>10. OverflowNotSent'
    BY DEF IInv, OverflowNotSent, SessionStarted, Invalidate
<1>11. OkIsExecuted'
    BY DEF IInv, OkIsExecuted, SessionStarted, Invalidate, Read, ReadFails
<1>12. QED
    BY <1>1, <1>2, <1>3, <1>4, <1>5, <1>6, <1>7, <1>8, <1>9, <1>10, <1>11 DEF IInv

(* LtCommand numbers its command above every command sent.                   *)
LEMMA LtCommandStep == ASSUME IInv, LtCommand PROVE IInv'
<1>1. TypeOK'
    BY CallsAssumption
    DEF IInv, TypeOK, LtCommand, sessionVars, chipVars
<1>2. SessionKeys'
    BY DEF IInv, SessionKeys, LtCommand, sessionVars
<1>3. HostProgress'
    BY CallsAssumption
    DEF IInv, HostProgress, LtCommand, Calls, Keys, Nonces, TypeOK
<1>4. SentIsPast'
    BY DEF IInv, SentIsPast, LtCommand, sessionVars, TypeOK
<1>5. SentInOrder'
    BY DEF IInv, SentInOrder, LtCommand
<1>6. InFlight'
    BY DEF IInv, InFlight, LtCommand, sessionVars, chipVars
<1>7. ChipProgress'
    BY DEF IInv, ChipProgress, LtCommand, sessionVars, chipVars
<1>8. InStep'
    BY DEF InStep, LtCommand
<1>9. ExecutedInOrder'
    BY DEF IInv, ExecutedInOrder, LtCommand, chipVars
<1>10. OverflowNotSent'
    BY DEF OverflowNotSent, LtCommand
<1>11. OkIsExecuted'
    BY DEF OkIsExecuted, LtCommand
<1>12. QED
    BY <1>1, <1>2, <1>3, <1>4, <1>5, <1>6, <1>7, <1>8, <1>9, <1>10, <1>11 DEF IInv

(* Out moves the nonce past that of the packet it is about to send, or stops  *)
(* before anything is sent.                                                  *)
LEMMA OutStep == ASSUME IInv, Out PROVE IInv'
<1>1. TypeOK'
  <2>1. encryption_IV' \in Nonces /\ decryption_IV' \in Nonces /\ key' \in Keys
      BY CallsAssumption, HandshakesAssumption, NonceAssumption
      DEF IInv, TypeOK, Nonces, Keys, Out, Invalidate, NonceIncrease, sessionVars
  <2>2. session_status' \in {"ON", "OFF"} /\ pc' \in {"idle", "send"}
      BY DEF IInv, TypeOK, Out, Return, Invalidate, sessionVars
  <2>3. ret' \in Ret
      BY DEF IInv, TypeOK, Out, Return, Ret
  <2>4. QED
      BY <2>1, <2>2, <2>3 DEF IInv, TypeOK, Out, chipVars
<1>2. SessionKeys'
    BY DEF IInv, SessionKeys, Out, sessionVars, Keys, Nonces, TypeOK,
           Invalidate, Overflows, NonceIncrease, Packet
<1>3. HostProgress'
    BY DEF IInv, HostProgress, Out, Keys, Nonces, TypeOK, Invalidate, Return,
           Overflows, NonceIncrease, Packet, SessionKeys
<1>4. SentIsPast'
  <2>1. /\ sent' = sent /\ call' = call /\ handshakes' = handshakes
        /\ pc = "out" /\ pc' \in {"idle", "send"}
      BY DEF Out, Return
  <2>2. \/ key' = 0
        \/ key' = key /\ encryption_IV' = encryption_IV /\ pc' = "idle"
        \/ key' = key /\ encryption_IV' = encryption_IV + 1
      BY DEF Out, Return, Invalidate, NonceIncrease, Overflows, sessionVars
  <2>3. encryption_IV \in Nat /\ \A m \in sent : m.iv \in Nat
      BY NonceAssumption DEF IInv, TypeOK, Nonces, Message
  <2>4. QED
      BY <2>1, <2>2, <2>3 DEF IInv, SentIsPast
<1>5. SentInOrder'
    BY DEF IInv, SentInOrder, Out
<1>6. InFlight'
    BY DEF IInv, InFlight, Out, sessionVars, chipVars, Invalidate, Return
<1>7. ChipProgress'
    BY DEF IInv, ChipProgress, Out, sessionVars, chipVars, Keys, Nonces,
           TypeOK, Invalidate, Return, Overflows, NonceIncrease, Packet,
           SessionKeys
<1>8. InStep'
    BY DEF InStep, Out, Return
<1>9. ExecutedInOrder'
    BY DEF IInv, ExecutedInOrder, Out, chipVars
<1>10. OverflowNotSent'
    BY DEF IInv, OverflowNotSent, Out, Invalidate, SentIsPast, SentInOrder
<1>11. OkIsExecuted'
    BY DEF OkIsExecuted, Out, Invalidate, Return
<1>12. QED
    BY <1>1, <1>2, <1>3, <1>4, <1>5, <1>6, <1>7, <1>8, <1>9, <1>10, <1>11 DEF IInv

(* Send puts on the wire a packet that is later than every one there.        *)
LEMMA SendStep == ASSUME IInv, Send PROVE IInv'
<1>1. TypeOK'
  <2>1. pc = "send" /\ sent' = sent \cup {Packet}
      BY DEF Send
  <2>2. sent' \subseteq {m \in Message : m.kind = "command"}
      BY <2>1, PacketFacts DEF IInv, TypeOK
  <2>3. /\ chip_in' \in Message /\ chip_in'.kind \notin {"result", "status"}
        /\ chip_out' \in Message /\ chip_out'.kind \notin {"command", "end"}
      BY <2>1, PacketFacts, MessageFacts DEF IInv, TypeOK, Send, Deliver, DeliveryFails
  <2>4. pc' \in {"idle", "receive"} /\ ret' \in Ret
      BY DEF IInv, TypeOK, Send, Return, Ret
  <2>5. QED
      BY <2>2, <2>3, <2>4 DEF IInv, TypeOK, Send, Deliver, DeliveryFails, sessionVars
<1>2. SessionKeys'
    BY DEF IInv, SessionKeys, Send, sessionVars
<1>3. HostProgress'
    BY DEF IInv, HostProgress, Send, sessionVars, Return, Packet
<1>4. SentIsPast'
  <2>1. /\ pc = "send" /\ sent' = sent \cup {Packet} /\ call' = call
        /\ handshakes' = handshakes /\ key' = key /\ encryption_IV' = encryption_IV
        /\ pc' \in {"idle", "receive"}
      BY DEF Send, Return, sessionVars
  <2>2. call \in 1..call
      BY <2>1, PacketFacts, CallsAssumption DEF Calls
  <2>3. encryption_IV \in Nat /\ encryption_IV - 1 < encryption_IV
      BY NonceAssumption DEF IInv, TypeOK, Nonces
  <2>4. QED
      BY <2>1, <2>2, <2>3, PacketFacts DEF IInv, SentIsPast
<1>5. SentInOrder'
  <2>1. pc = "send" /\ sent' = sent \cup {Packet}
      BY DEF Send
  <2>2. \A m \in sent : /\ m.call < Packet.call
                        /\ m.key = Packet.key => m.iv < Packet.iv
    <3>1. call \in Nat /\ \A m \in sent : m.call \in 1..call /\ m.call # call
        BY <2>1, CallsAssumption DEF IInv, SentIsPast, TypeOK
    <3>2. QED
        BY <2>1, <3>1, PacketFacts DEF IInv, SentIsPast
  <2>3. Packet.call \in Nat /\ \A m \in sent : m.call \in Nat
      BY <2>1, PacketFacts, CallsAssumption DEF Calls, IInv, TypeOK, Message
  <2>4. QED
      BY <2>1, <2>2, <2>3 DEF IInv, SentInOrder
<1>6. InFlight'
    BY DEF IInv, InFlight, Send, sessionVars, Plain, None, Handshake,
           Command, Result, Return, Deliver, DeliveryFails, Packet
<1>7. ChipProgress'
  <2>1. /\ pc = "send" /\ sent' = sent \cup {Packet} /\ executed' = executed
        /\ handshakes' = handshakes /\ key' = key /\ encryption_IV' = encryption_IV
        /\ chip_key' = chip_key /\ chip_IV' = chip_IV
        /\ pc' # "send"
      BY DEF Send, Return, sessionVars, Deliver, DeliveryFails
  <2>2. executed[call] = 0
      BY <2>1, PacketFacts DEF IInv, SentIsPast, ChipProgress
  <2>3. chip_key = key => ~(Packet.iv < chip_IV)
    <3>1. chip_IV \in Nat /\ encryption_IV \in Nat
        BY NonceAssumption DEF IInv, TypeOK, Nonces
    <3>2. QED
        BY <2>1, <3>1, PacketFacts DEF IInv, ChipProgress
  <2>4. QED
      BY <2>1, <2>2, <2>3, PacketFacts DEF IInv, ChipProgress
<1>8. InStep'
    BY DEF InStep, Send, Return
<1>9. ExecutedInOrder'
  <2>1. pc = "send" /\ sent' = sent \cup {Packet} /\ executed' = executed
      BY DEF Send, Deliver, DeliveryFails
  <2>2. executed[Packet.call] = 0
      BY <2>1, PacketFacts DEF IInv, SentIsPast, ChipProgress
  <2>3. \A m \in sent : ~(Packet.call < m.call)
      BY <2>1, PacketFacts, CallsAssumption DEF IInv, SentIsPast, TypeOK, Calls
  <2>4. Packet.call \in Nat
      BY <2>1, PacketFacts, CallsAssumption DEF Calls
  <2>5. QED
      BY <2>1, <2>2, <2>3, <2>4 DEF IInv, ExecutedInOrder
<1>10. OverflowNotSent'
    BY DEF OverflowNotSent, Send, Return
<1>11. OkIsExecuted'
    BY DEF OkIsExecuted, Send, Return
<1>12. QED
    BY <1>1, <1>2, <1>3, <1>4, <1>5, <1>6, <1>7, <1>8, <1>9, <1>10, <1>11 DEF IInv

(* Receive advances the result nonce only for the result of the command it   *)
(* waits for.                                                                *)
LEMMA ReceiveStep == ASSUME IInv, Receive PROVE IInv'
<1>1. TypeOK'
  <2>1. encryption_IV' \in Nonces /\ decryption_IV' \in Nonces /\ key' \in Keys
      BY HandshakesAssumption, NonceAssumption
      DEF IInv, TypeOK, Nonces, Keys, Receive, Invalidate, NonceIncrease, sessionVars
  <2>2. session_status' \in {"ON", "OFF"} /\ pc' = "idle"
      BY DEF IInv, TypeOK, Receive, Return, Invalidate, sessionVars
  <2>3. ret' \in Ret
      BY DEF Receive, Return, Ret
  <2>4. /\ chip_out' \in Message /\ chip_out'.kind \notin {"command", "end"}
        /\ UNCHANGED <<handshakes, call, sent, chip_key, chip_IV, chip_in, executed>>
      BY MessageFacts DEF IInv, TypeOK, Receive, Read, ReadFails
  <2>5. QED
      BY <2>1, <2>2, <2>3, <2>4 DEF IInv, TypeOK
<1>2. SessionKeys'
  <2>1. /\ pc = "receive" /\ handshakes' = handshakes
        /\ encryption_IV \in Nat /\ decryption_IV \in Nat
      BY NonceAssumption DEF IInv, TypeOK, Nonces, Receive
  <2>2. decryption_IV < encryption_IV
      BY <2>1 DEF IInv, HostProgress
  <2>3. NonceIncrease(decryption_IV) <= encryption_IV
      BY <2>1, <2>2 DEF NonceIncrease
  <2>4. QED
      BY <2>1, <2>2, <2>3 DEF IInv, SessionKeys, Receive, Invalidate, sessionVars
<1>3. HostProgress'
    BY DEF HostProgress, Receive, Invalidate, Return
<1>4. SentIsPast'
    BY DEF IInv, SentIsPast, Receive, sessionVars, Invalidate, Return
<1>5. SentInOrder'
    BY DEF IInv, SentInOrder, Receive, Invalidate
<1>6. InFlight'
    BY DEF IInv, InFlight, Receive, Handshake, Command, Result, Invalidate,
           Return, Read, ReadFails, Overflows, NonceIncrease, Packet,
           Authentic
<1>7. ChipProgress'
    BY DEF IInv, ChipProgress, Receive, sessionVars, Invalidate, Return,
           Read, ReadFails
<1>8. InStep'
    BY DEF IInv, InStep, Receive, Nonces, Message, Plain, None, Handshake,
           Command, Result, TypeOK, Invalidate, Return, Read, ReadFails,
           Overflows, NonceIncrease, Packet, Authentic, InFlight
<1>9. ExecutedInOrder'
    BY DEF IInv, ExecutedInOrder, Receive, Invalidate, Read, ReadFails
<1>10. OverflowNotSent'
    BY DEF IInv, OverflowNotSent, Receive, Nonces, TypeOK, Invalidate,
           Return, Overflows, NonceIncrease, Packet, Authentic, HostProgress
<1>11. OkIsExecuted'
    BY DEF IInv, OkIsExecuted, Receive, Invalidate, Return, Read, ReadFails,
           Overflows, NonceIncrease, Packet, Authentic, HostProgress,
           InFlight
<1>12. QED
    BY <1>1, <1>2, <1>3, <1>4, <1>5, <1>6, <1>7, <1>8, <1>9, <1>10, <1>11 DEF IInv

(* SessionAbort drops the host's session, whatever the chip learns of it.     *)
LEMMA SessionAbortStep == ASSUME IInv, SessionAbort PROVE IInv'
<1>1. TypeOK'
    BY CallsAssumption, HandshakesAssumption, NonceAssumption
    DEF IInv, TypeOK, SessionAbort, Keys, Nonces, Message, Plain, None,
        Command, Invalidate, Deliver, DeliveryFails
<1>2. SessionKeys'
    BY DEF SessionKeys, SessionAbort, Invalidate
<1>3. HostProgress'
    BY DEF HostProgress, SessionAbort, Invalidate
<1>4. SentIsPast'
    BY DEF IInv, SentIsPast, SessionAbort, Invalidate
<1>5. SentInOrder'
    BY DEF IInv, SentInOrder, SessionAbort
<1>6. InFlight'
    BY DEF IInv, InFlight, SessionAbort, Plain, None, Command, Result,
           Invalidate, Deliver, DeliveryFails
<1>7. ChipProgress'
    BY DEF IInv, ChipProgress, SessionAbort, Invalidate, Deliver,
           DeliveryFails
<1>8. InStep'
    BY DEF InStep, SessionAbort, Invalidate
<1>9. ExecutedInOrder'
    BY DEF IInv, ExecutedInOrder, SessionAbort, Deliver, DeliveryFails
<1>10. OverflowNotSent'
    BY DEF IInv, OverflowNotSent, SessionAbort
<1>11. OkIsExecuted'
    BY DEF IInv, OkIsExecuted, SessionAbort, Invalidate, Deliver,
           DeliveryFails
<1>12. QED
    BY <1>1, <1>2, <1>3, <1>4, <1>5, <1>6, <1>7, <1>8, <1>9, <1>10, <1>11 DEF IInv

(* Reboot leaves the host's session as it is.                                *)
LEMMA RebootStep == ASSUME IInv, Reboot PROVE IInv'
<1>1. TypeOK'
    BY CallsAssumption, HandshakesAssumption, NonceAssumption
    DEF IInv, TypeOK, Reboot, sessionVars, Keys, Nonces, Message, Plain,
        None, Deliver, DeliveryFails
<1>2. SessionKeys'
    BY DEF IInv, SessionKeys, Reboot, sessionVars
<1>3. HostProgress'
    BY DEF HostProgress, Reboot
<1>4. SentIsPast'
    BY DEF IInv, SentIsPast, Reboot, sessionVars
<1>5. SentInOrder'
    BY DEF IInv, SentInOrder, Reboot
<1>6. InFlight'
    BY DEF IInv, InFlight, Reboot, sessionVars, Plain, None, Handshake,
           Command, Result, Deliver, DeliveryFails
<1>7. ChipProgress'
    BY DEF IInv, ChipProgress, Reboot, sessionVars, Deliver, DeliveryFails
<1>8. InStep'
    BY DEF IInv, InStep, Reboot, sessionVars, Deliver, DeliveryFails
<1>9. ExecutedInOrder'
    BY DEF IInv, ExecutedInOrder, Reboot, Deliver, DeliveryFails
<1>10. OverflowNotSent'
    BY DEF IInv, OverflowNotSent, Reboot
<1>11. OkIsExecuted'
    BY DEF IInv, OkIsExecuted, Reboot, Deliver, DeliveryFails
<1>12. QED
    BY <1>1, <1>2, <1>3, <1>4, <1>5, <1>6, <1>7, <1>8, <1>9, <1>10, <1>11 DEF IInv

(* Reinit drops the host's session and leaves the chip alone.                *)
LEMMA ReinitStep == ASSUME IInv, Reinit PROVE IInv'
<1>1. TypeOK'
    BY HandshakesAssumption, NonceAssumption
    DEF IInv, TypeOK, Reinit, chipVars, Keys, Nonces, Invalidate
<1>2. SessionKeys'
    BY DEF SessionKeys, Reinit, Invalidate
<1>3. HostProgress'
    BY DEF HostProgress, Reinit, Invalidate
<1>4. SentIsPast'
    BY DEF IInv, SentIsPast, Reinit, Invalidate
<1>5. SentInOrder'
    BY DEF IInv, SentInOrder, Reinit
<1>6. InFlight'
    BY DEF IInv, InFlight, Reinit, chipVars, Invalidate
<1>7. ChipProgress'
    BY DEF IInv, ChipProgress, Reinit, chipVars, Invalidate
<1>8. InStep'
    BY DEF InStep, Reinit, Invalidate
<1>9. ExecutedInOrder'
    BY DEF IInv, ExecutedInOrder, Reinit, chipVars
<1>10. OverflowNotSent'
    BY DEF IInv, OverflowNotSent, Reinit
<1>11. OkIsExecuted'
    BY DEF IInv, OkIsExecuted, Reinit, chipVars
<1>12. QED
    BY <1>1, <1>2, <1>3, <1>4, <1>5, <1>6, <1>7, <1>8, <1>9, <1>10, <1>11 DEF IInv

(* GetInfo replaces what the chip had not yet answered.                      *)
LEMMA GetInfoStep == ASSUME IInv, GetInfo PROVE IInv'
<1>1. TypeOK'
    BY CallsAssumption, HandshakesAssumption, NonceAssumption
    DEF IInv, TypeOK, GetInfo, sessionVars, Keys, Nonces, Message, Plain,
        None, Deliver
<1>2. SessionKeys'
    BY DEF IInv, SessionKeys, GetInfo, sessionVars
<1>3. HostProgress'
    BY DEF HostProgress, GetInfo
<1>4. SentIsPast'
    BY DEF IInv, SentIsPast, GetInfo, sessionVars
<1>5. SentInOrder'
    BY DEF IInv, SentInOrder, GetInfo
<1>6. InFlight'
    BY DEF InFlight, GetInfo, Plain, None, Handshake, Command, Result,
           Deliver
<1>7. ChipProgress'
    BY DEF IInv, ChipProgress, GetInfo, sessionVars, Deliver
<1>8. InStep'
    BY DEF IInv, InStep, GetInfo, sessionVars, Deliver
<1>9. ExecutedInOrder'
    BY DEF IInv, ExecutedInOrder, GetInfo, Deliver
<1>10. OverflowNotSent'
    BY DEF IInv, OverflowNotSent, GetInfo
<1>11. OkIsExecuted'
    BY DEF IInv, OkIsExecuted, GetInfo, Deliver
<1>12. QED
    BY <1>1, <1>2, <1>3, <1>4, <1>5, <1>6, <1>7, <1>8, <1>9, <1>10, <1>11 DEF IInv

(* ChipHandshake starts a session under a key nothing was sent under.        *)
LEMMA ChipHandshakeStep == ASSUME IInv, ChipHandshake PROVE IInv'
<1>1. TypeOK'
    BY CallsAssumption, HandshakesAssumption, NonceAssumption
    DEF IInv, TypeOK, ChipHandshake, sessionVars, Keys, Nonces, Message,
        Plain, None, hostVars, Answer
<1>2. SessionKeys'
    BY DEF IInv, SessionKeys, ChipHandshake, sessionVars, hostVars
<1>3. HostProgress'
    BY DEF IInv, HostProgress, ChipHandshake, sessionVars, Packet, hostVars
<1>4. SentIsPast'
    BY DEF IInv, SentIsPast, ChipHandshake, sessionVars, hostVars
<1>5. SentInOrder'
    BY DEF IInv, SentInOrder, ChipHandshake, hostVars
<1>6. InFlight'
    BY DEF IInv, InFlight, ChipHandshake, Plain, None, Handshake, Command,
           Result, Packet, hostVars, Answer
<1>7. ChipProgress'
    BY DEF IInv, ChipProgress, ChipHandshake, sessionVars, hostVars, InFlight
<1>8. InStep'
    BY DEF IInv, InStep, ChipHandshake, sessionVars, hostVars, InFlight
<1>9. ExecutedInOrder'
    BY DEF IInv, ExecutedInOrder, ChipHandshake, hostVars
<1>10. OverflowNotSent'
    BY DEF IInv, OverflowNotSent, ChipHandshake, hostVars
<1>11. OkIsExecuted'
    BY DEF IInv, OkIsExecuted, ChipHandshake, hostVars
<1>12. QED
    BY <1>1, <1>2, <1>3, <1>4, <1>5, <1>6, <1>7, <1>8, <1>9, <1>10, <1>11 DEF IInv

(* ChipExecutes runs the one sent packet whose nonce is the chip's.           *)
LEMMA ChipExecutesStep == ASSUME IInv, ChipExecutes PROVE IInv'
<1>1. TypeOK'
  <2>1. /\ chip_in \in sent /\ chip_in.iv = chip_IV /\ chip_in.kind = "command"
      BY DEF IInv, InFlight, ChipExecutes, Accepted
  <2>2. chip_in.call \in Calls /\ chip_IV + 1 \in Nonces
      BY <2>1, CallsAssumption, NonceAssumption DEF IInv, TypeOK, SentIsPast, Calls, Nonces
  <2>3. /\ None \in Message /\ None.kind = "none"
        /\ Result(chip_key, chip_IV, chip_in.call) \in Message
        /\ Result(chip_key, chip_IV, chip_in.call).kind = "result"
      BY <2>2, MessageFacts, FieldFacts, CallsAssumption DEF IInv, TypeOK, Calls
  <2>4. executed' \in [Calls -> Nat]
      BY <2>2 DEF IInv, TypeOK, ChipExecutes
  <2>5. QED
      BY <2>2, <2>3, <2>4 DEF IInv, TypeOK, ChipExecutes, Answer, hostVars, sessionVars
<1>2. SessionKeys'
    BY DEF IInv, SessionKeys, ChipExecutes, sessionVars, hostVars
<1>3. HostProgress'
    BY DEF IInv, HostProgress, ChipExecutes, sessionVars, Packet, hostVars,
           Accepted
<1>4. SentIsPast'
    BY DEF IInv, SentIsPast, ChipExecutes, sessionVars, hostVars
<1>5. SentInOrder'
    BY DEF IInv, SentInOrder, ChipExecutes, hostVars
<1>6. InFlight'
    BY DEF IInv, InFlight, ChipExecutes, sessionVars, Nonces, Message, Plain,
           None, Handshake, Command, Result, TypeOK, Packet, hostVars,
           Answer, Accepted, HostProgress, ChipProgress
<1>7. ChipProgress'
  <2>1. /\ chip_in \in sent /\ chip_key # 0 /\ chip_in.key = chip_key /\ chip_in.iv = chip_IV
        /\ chip_in.kind = "command"
      BY DEF IInv, InFlight, ChipExecutes, Accepted
  <2>2. chip_in.call \in Calls /\ chip_IV \in Nat
      BY <2>1, CallsAssumption, NonceAssumption DEF IInv, TypeOK, SentIsPast, Calls, Nonces
  <2>3. executed[chip_in.call] = 0
      BY <2>1, <2>2 DEF IInv, ChipProgress, TypeOK
  <2>4. /\ executed' = [executed EXCEPT ![chip_in.call] = 1]
        /\ chip_IV' = chip_IV + 1 /\ chip_key' = chip_key
        /\ UNCHANGED hostVars
      BY <2>3 DEF ChipExecutes
  <2>5. \A m \in sent : /\ m.iv \in Nat /\ m.call \in Calls
                        /\ m.call = chip_in.call => m = chip_in
                        /\ m.key = chip_key /\ m.iv = chip_IV => m = chip_in
    <3> SUFFICES ASSUME NEW m \in sent
                 PROVE  /\ m.iv \in Nat /\ m.call \in Calls
                        /\ m.call = chip_in.call => m = chip_in
                        /\ m.key = chip_key /\ m.iv = chip_IV => m = chip_in
        OBVIOUS
    <3>1. m.iv \in Nat /\ m.call \in Calls
        BY CallsAssumption, NonceAssumption DEF IInv, TypeOK, Message, SentIsPast, Calls, Nonces
    <3>2. m.call = chip_in.call => m = chip_in
        BY <2>1 DEF IInv, SentInOrder
    <3>3. m.key = chip_key /\ m.iv = chip_IV => ~(m.call < chip_in.call) /\ ~(chip_in.call < m.call)
        BY <2>1, <2>2 DEF IInv, SentInOrder
    <3>4. QED
        BY <2>2, <3>1, <3>2, <3>3, CallsAssumption DEF Calls
  <2>6. \A c \in Calls : executed'[c] = IF c = chip_in.call THEN 1 ELSE executed[c]
      BY <2>4 DEF IInv, TypeOK
  <2>7. \A c \in Calls : executed'[c] # 0 => executed'[c] = 1 /\ \E m \in sent' : m.call = c
      BY <2>1, <2>4, <2>6 DEF IInv, ChipProgress, hostVars
  <2>8. \A m \in sent' : m.key = chip_key' => (m.iv < chip_IV' <=> executed'[m.call] = 1)
      BY <2>1, <2>2, <2>4, <2>5, <2>6 DEF IInv, ChipProgress, hostVars
  <2>9. /\ chip_key = key => chip_IV + 1 <= encryption_IV
        /\ chip_key = key /\ pc = "send" => chip_IV + 1 <= encryption_IV - 1
      BY <2>1, <2>2, NonceAssumption DEF IInv, SentIsPast, TypeOK, Nonces
  <2>10. QED
      BY <2>1, <2>4, <2>7, <2>8, <2>9 DEF IInv, ChipProgress, hostVars, sessionVars
<1>8. InStep'
  <2>1. /\ chip_in \in sent /\ chip_key # 0 /\ chip_in.key = chip_key /\ chip_in.iv = chip_IV
        /\ chip_in.kind = "command"
      BY DEF IInv, InFlight, ChipExecutes, Accepted
  <2>2. chip_key = key => chip_IV < encryption_IV
      BY <2>1 DEF IInv, SentIsPast
  <2>3. chip_IV \in Nat /\ encryption_IV \in Nat
      BY NonceAssumption DEF IInv, TypeOK, Nonces
  <2>4. chip_key' = chip_key /\ UNCHANGED hostVars
      BY DEF ChipExecutes
  <2>5. QED
      BY <2>2, <2>3, <2>4 DEF IInv, InStep, hostVars, sessionVars
<1>9. ExecutedInOrder'
  <2>1. /\ chip_in \in sent /\ chip_key # 0 /\ chip_in.key = chip_key /\ chip_in.iv = chip_IV
        /\ chip_in.kind = "command"
      BY DEF IInv, InFlight, ChipExecutes, Accepted
  <2>2. chip_in.call \in Calls
      BY <2>1, CallsAssumption DEF IInv, TypeOK, SentIsPast, Calls
  <2>3. sent' = sent /\ \A c \in Calls : executed'[c] = IF c = chip_in.call THEN executed[c] + 1 ELSE executed[c]
      BY DEF IInv, TypeOK, ChipExecutes, hostVars
  <2>4. SUFFICES ASSUME NEW m1 \in sent, NEW m2 \in sent, m1.key = m2.key, m1.call < m2.call,
                        executed'[m2.call] > 0
                 PROVE  executed'[m1.call] > 0
      BY <2>3 DEF ExecutedInOrder
  <2>5. m1.call \in Calls /\ m2.call \in Calls /\ executed[m1.call] \in Nat
      BY CallsAssumption DEF IInv, TypeOK, SentIsPast, Calls
  <2>6. CASE m2.call = chip_in.call
    <3>1. m2 = chip_in
        BY <2>1, <2>6 DEF IInv, SentInOrder
    <3>2. m1.iv < chip_IV
        BY <2>1, <2>4, <3>1 DEF IInv, SentInOrder
    <3>3. executed[m1.call] = 1
        BY <2>1, <2>4, <3>1, <3>2 DEF IInv, ChipProgress
    <3>4. QED
        BY <2>3, <2>5, <3>3
  <2>7. CASE m2.call # chip_in.call
      BY <2>3, <2>4, <2>5, <2>7 DEF IInv, ExecutedInOrder
  <2>8. QED
      BY <2>6, <2>7
<1>10. OverflowNotSent'
    BY DEF IInv, OverflowNotSent, ChipExecutes, hostVars
<1>11. OkIsExecuted'
    BY DEF IInv, OkIsExecuted, ChipExecutes, Nonces, TypeOK, Packet,
           hostVars, Accepted, InFlight, ChipProgress
<1>12. QED
    BY <1>1, <1>2, <1>3, <1>4, <1>5, <1>6, <1>7, <1>8, <1>9, <1>10, <1>11 DEF IInv

(* ChipRefuses executes nothing and may end the chip's session.              *)
LEMMA ChipRefusesStep == ASSUME IInv, ChipRefuses PROVE IInv'
<1>1. TypeOK'
    BY CallsAssumption, HandshakesAssumption, NonceAssumption
    DEF IInv, TypeOK, ChipRefuses, sessionVars, Keys, Nonces, Message, Plain,
        None, hostVars, Answer
<1>2. SessionKeys'
    BY DEF IInv, SessionKeys, ChipRefuses, sessionVars, hostVars
<1>3. HostProgress'
    BY DEF IInv, HostProgress, ChipRefuses, sessionVars, Packet, hostVars,
           Accepted
<1>4. SentIsPast'
    BY DEF IInv, SentIsPast, ChipRefuses, sessionVars, hostVars
<1>5. SentInOrder'
    BY DEF IInv, SentInOrder, ChipRefuses, hostVars
<1>6. InFlight'
    BY DEF InFlight, ChipRefuses, Plain, None, Handshake, Command, Result,
           Answer
<1>7. ChipProgress'
    BY DEF IInv, ChipProgress, ChipRefuses, sessionVars, Keys, Nonces,
           TypeOK, hostVars, SessionKeys, HostProgress, SentIsPast,
           SentInOrder
<1>8. InStep'
    BY DEF IInv, InStep, ChipRefuses, sessionVars, hostVars, SessionKeys
<1>9. ExecutedInOrder'
    BY DEF IInv, ExecutedInOrder, ChipRefuses, hostVars
<1>10. OverflowNotSent'
    BY DEF IInv, OverflowNotSent, ChipRefuses, hostVars
<1>11. OkIsExecuted'
    BY DEF IInv, OkIsExecuted, ChipRefuses, hostVars
<1>12. QED
    BY <1>1, <1>2, <1>3, <1>4, <1>5, <1>6, <1>7, <1>8, <1>9, <1>10, <1>11 DEF IInv

(* ChipEndsSession forgets the chip's keys only.                             *)
LEMMA ChipEndsSessionStep == ASSUME IInv, ChipEndsSession PROVE IInv'
<1>1. TypeOK'
    BY CallsAssumption, HandshakesAssumption, NonceAssumption
    DEF IInv, TypeOK, ChipEndsSession, sessionVars, Keys, Nonces, Message,
        Plain, None, hostVars, Answer
<1>2. SessionKeys'
    BY DEF IInv, SessionKeys, ChipEndsSession, sessionVars, hostVars
<1>3. HostProgress'
    BY DEF IInv, HostProgress, ChipEndsSession, sessionVars, Packet, hostVars
<1>4. SentIsPast'
    BY DEF IInv, SentIsPast, ChipEndsSession, sessionVars, hostVars
<1>5. SentInOrder'
    BY DEF IInv, SentInOrder, ChipEndsSession, hostVars
<1>6. InFlight'
    BY DEF InFlight, ChipEndsSession, Plain, None, Handshake, Command,
           Result, Answer
<1>7. ChipProgress'
    BY DEF IInv, ChipProgress, ChipEndsSession, sessionVars, Keys, Nonces,
           TypeOK, hostVars, SessionKeys, HostProgress, SentIsPast,
           SentInOrder
<1>8. InStep'
    BY DEF IInv, InStep, ChipEndsSession, sessionVars, hostVars, SessionKeys
<1>9. ExecutedInOrder'
    BY DEF IInv, ExecutedInOrder, ChipEndsSession, hostVars
<1>10. OverflowNotSent'
    BY DEF IInv, OverflowNotSent, ChipEndsSession, hostVars
<1>11. OkIsExecuted'
    BY DEF IInv, OkIsExecuted, ChipEndsSession, hostVars
<1>12. QED
    BY <1>1, <1>2, <1>3, <1>4, <1>5, <1>6, <1>7, <1>8, <1>9, <1>10, <1>11 DEF IInv

(* ChipReset forgets the chip's keys and what it held unprocessed.          *)
LEMMA ChipResetStep == ASSUME IInv, ChipReset PROVE IInv'
<1>1. TypeOK'
    BY CallsAssumption, HandshakesAssumption, NonceAssumption
    DEF IInv, TypeOK, ChipReset, sessionVars, Keys, Nonces, Message, Plain,
        None, hostVars
<1>2. SessionKeys'
    BY DEF IInv, SessionKeys, ChipReset, sessionVars, hostVars
<1>3. HostProgress'
    BY DEF IInv, HostProgress, ChipReset, sessionVars, Packet, hostVars
<1>4. SentIsPast'
    BY DEF IInv, SentIsPast, ChipReset, sessionVars, hostVars
<1>5. SentInOrder'
    BY DEF IInv, SentInOrder, ChipReset, hostVars
<1>6. InFlight'
    BY DEF InFlight, ChipReset, Plain, None, Handshake, Command, Result
<1>7. ChipProgress'
    BY DEF IInv, ChipProgress, ChipReset, sessionVars, Keys, Nonces, TypeOK,
           hostVars, SessionKeys, HostProgress, SentIsPast, SentInOrder
<1>8. InStep'
    BY DEF IInv, InStep, ChipReset, sessionVars, hostVars, SessionKeys
<1>9. ExecutedInOrder'
    BY DEF IInv, ExecutedInOrder, ChipReset, hostVars
<1>10. OverflowNotSent'
    BY DEF IInv, OverflowNotSent, ChipReset, hostVars
<1>11. OkIsExecuted'
    BY DEF IInv, OkIsExecuted, ChipReset, hostVars
<1>12. QED
    BY <1>1, <1>2, <1>3, <1>4, <1>5, <1>6, <1>7, <1>8, <1>9, <1>10, <1>11 DEF IInv
-----------------------------------------------------------------------------
(* The channel starts without a session and with nothing on the wire.        *)
LEMMA InitIInv == Init => IInv
<1> SUFFICES ASSUME Init PROVE IInv
    OBVIOUS
<1> USE DEF Init
<1>1. TypeOK
    BY CallsAssumption, HandshakesAssumption, NonceAssumption, MessageFacts
    DEF TypeOK, Keys, Nonces, Ret
<1>2. SessionKeys /\ HostProgress
    BY DEF SessionKeys, HostProgress
<1>3. SentIsPast /\ SentInOrder
    BY DEF SentIsPast, SentInOrder
<1>4. InFlight
    BY MessageFacts DEF InFlight
<1>5. ChipProgress
    BY DEF ChipProgress
<1>6. InStep /\ ExecutedInOrder /\ OverflowNotSent /\ OkIsExecuted
    BY DEF InStep, ExecutedInOrder, OverflowNotSent, OkIsExecuted
<1>7. QED
    BY <1>1, <1>2, <1>3, <1>4, <1>5, <1>6 DEF IInv

(* A step that changes nothing preserves IInv.                               *)
LEMMA StutterStep == ASSUME IInv, UNCHANGED vars PROVE IInv'
<1> USE DEF vars, sessionVars, chipVars
<1>1. TypeOK' /\ SessionKeys' /\ HostProgress' /\ SentIsPast' /\ SentInOrder'
    BY DEF IInv, TypeOK, SessionKeys, HostProgress, SentIsPast, SentInOrder, Packet
<1>2. InFlight' /\ ChipProgress'
    BY DEF IInv, InFlight, ChipProgress, Packet
<1>3. InStep' /\ ExecutedInOrder' /\ OverflowNotSent' /\ OkIsExecuted'
    BY DEF IInv, InStep, ExecutedInOrder, OverflowNotSent, OkIsExecuted
<1>4. QED
    BY <1>1, <1>2, <1>3 DEF IInv

(* Every step of host and chip preserves IInv.                               *)
LEMMA NextIInv == IInv /\ [Next]_vars => IInv'
<1> SUFFICES ASSUME IInv, [Next]_vars PROVE IInv'
    OBVIOUS
<1>1. CASE Host
    BY <1>1, SessionStartStep, SessionStartedStep, LtCommandStep, OutStep,
       SendStep, ReceiveStep, SessionAbortStep, RebootStep, ReinitStep,
       GetInfoStep DEF Host
<1>2. CASE Chip
    BY <1>2, ChipHandshakeStep, ChipExecutesStep, ChipRefusesStep,
       ChipEndsSessionStep, ChipResetStep DEF Chip
<1>3. CASE UNCHANGED vars
    BY <1>3, StutterStep
<1>4. QED
    BY <1>1, <1>2, <1>3 DEF Next

(* IInv holds in every state the channel reaches.                            *)
THEOREM InductiveInvariant == Spec => []IInv
BY InitIInv, NextIInv, PTL DEF Spec

(* The state keeps its types: no nonce passes the last one.                  *)
THEOREM TypeCorrect == Spec => []TypeOK
<1>1. IInv => TypeOK
    BY DEF IInv
<1>2. QED
    BY <1>1, InductiveInvariant, PTL

(* No nonce is used twice under one key (lt_l3_encrypt_request).             *)
THEOREM NonceUniqueHolds == Spec => []NonceUnique
<1>1. IInv => NonceUnique
  <2> SUFFICES ASSUME IInv, NEW m1 \in sent, NEW m2 \in sent,
                      m1.key = m2.key, m1.iv = m2.iv
               PROVE  m1 = m2
      BY DEF NonceUnique
  <2>1. m1.iv \in Nat /\ m2.iv \in Nat /\ m1.call \in Nat /\ m2.call \in Nat
      BY CallsAssumption, NonceAssumption DEF IInv, TypeOK, Message, Nonces
  <2>2. ~(m1.call < m2.call) /\ ~(m2.call < m1.call)
      BY <2>1 DEF IInv, SentInOrder
  <2>3. QED
      BY <2>1, <2>2 DEF IInv, SentInOrder
<1>2. QED
    BY <1>1, InductiveInvariant, PTL

(* LT_OK leaves the nonces of host and chip equal.                           *)
THEOREM InStepHolds == Spec => []InStep
<1>1. IInv => InStep
    BY DEF IInv
<1>2. QED
    BY <1>1, InductiveInvariant, PTL

(* The chip executes the commands of a session in order, with no gap.        *)
THEOREM ExecutedInOrderHolds == Spec => []ExecutedInOrder
<1>1. IInv => ExecutedInOrder
    BY DEF IInv
<1>2. QED
    BY <1>1, InductiveInvariant, PTL

(* LT_NONCE_OVERFLOW means that the command was never sent.                  *)
THEOREM OverflowNotSentHolds == Spec => []OverflowNotSent
<1>1. IInv => OverflowNotSent
    BY DEF IInv
<1>2. QED
    BY <1>1, InductiveInvariant, PTL

-----------------------------------------------------------------------------
(* Every step of the channel maps to a step of AtMostOnceRpc or to a stutter.*)
LEMMA StepRefines == IInv /\ IInv' /\ [Next]_vars => [Rpc!Next]_(Rpc!vars)
<1> SUFFICES ASSUME IInv, IInv', [Next]_vars PROVE [Rpc!Next]_(Rpc!vars)
    OBVIOUS
<1> USE DEF Rpc!Next, Rpc!vars
<1>1. CASE SessionStart \/ SessionStarted \/ SessionAbort \/ Reboot \/ Reinit \/ GetInfo
    BY <1>1 DEF SessionStart, SessionStarted, SessionAbort, Reboot, Reinit, GetInfo,
                Deliver, DeliveryFails, Read, ReadFails, chipVars
<1>2. CASE LtCommand
    BY <1>2 DEF LtCommand, chipVars, Rpc!Begin
<1>3. CASE Out \/ Send \/ Receive
  <2>1. /\ pc \in {"out", "send", "receive"}
        /\ call' = call /\ executed' = executed
        /\ \/ pc' \in {"send", "receive"} /\ ret' = ret
           \/ pc' = "idle"
      BY <1>3 DEF Out, Send, Receive, Return, Deliver, DeliveryFails, Read,
                  ReadFails, chipVars
  <2>2. ret' = "LT_OK" /\ pc' = "idle" => executed'[call'] = 1
      BY DEF IInv, OkIsExecuted
  <2>3. QED
      BY <2>1, <2>2 DEF Rpc!Finish
<1>4. CASE ChipExecutes
  <2>1. chip_in \in sent /\ chip_in.key = chip_key /\ chip_in.iv = chip_IV
      BY <1>4 DEF IInv, InFlight, ChipExecutes, Accepted
  <2>2. chip_in.call \in 1..call /\ chip_in.call \in Calls /\ chip_IV \in Nat
      BY <2>1, CallsAssumption, NonceAssumption
      DEF IInv, SentIsPast, TypeOK, Calls, Nonces
  <2>3. executed[chip_in.call] = 0
      BY <2>1, <2>2 DEF IInv, ChipProgress, TypeOK
  <2>4. /\ executed' = [executed EXCEPT ![chip_in.call] = 1]
        /\ UNCHANGED <<call, pc, ret>>
      BY <1>4, <2>3 DEF ChipExecutes, hostVars
  <2>5. chip_in.call <= call
      BY <2>2, CallsAssumption DEF IInv, TypeOK
  <2>6. QED
      BY <2>2, <2>3, <2>4, <2>5 DEF Rpc!Execute, Calls
<1>5. CASE ChipHandshake \/ ChipRefuses \/ ChipEndsSession \/ ChipReset
    BY <1>5 DEF ChipHandshake, ChipRefuses, ChipEndsSession, ChipReset, hostVars
<1>6. CASE UNCHANGED vars
    BY <1>6 DEF vars, sessionVars, chipVars
<1>7. QED
    BY <1>1, <1>2, <1>3, <1>4, <1>5, <1>6 DEF Next, Host, Chip

(* The refinement: a caller may treat an L3 Command as the call of           *)
(* AtMostOnceRpc, whatever happens to its packets and to the session.        *)
THEOREM Implementation == Spec => ImplementsRpc
<1>1. Init => Rpc!Init
    BY DEF Init, Rpc!Init, Calls
<1>2. QED
    BY <1>1, StepRefines, InductiveInvariant, PTL DEF Spec, ImplementsRpc, Rpc!Spec

-----------------------------------------------------------------------------
(* A session that is out of step.                                            *)

\* The nonce of the command under way has no result yet.
Awaited == IF pc \in {"send", "receive"} THEN 1 ELSE 0

\* The host has a session of which the chip knows nothing any more, or in which a
\* command or a result has been lost.
OutOfStep ==
    session_status = "ON" /\ (chip_key # key \/ decryption_IV + Awaited # encryption_IV)

\* A result is held by a chip that still has its session.
HeldResult == pc = "receive" /\ chip_out.kind = "result" => chip_key = key

LEMMA HeldResultStep == IInv /\ HeldResult /\ [Next]_vars => HeldResult'
<1> SUFFICES ASSUME IInv, HeldResult, [Next]_vars PROVE HeldResult'
    OBVIOUS
<1> USE DEF HeldResult
<1>1. CASE Send
    BY <1>1 DEF Send, Deliver, DeliveryFails, Return, None, Plain
<1>2. CASE ChipExecutes
    BY <1>2 DEF ChipExecutes, Accepted, Answer, hostVars, sessionVars, IInv, InFlight,
                None, Plain, Packet, Command
<1>3. CASE ChipHandshake \/ ChipRefuses \/ ChipEndsSession \/ ChipReset
    BY <1>3 DEF ChipHandshake, ChipRefuses, ChipEndsSession, ChipReset, Answer, hostVars,
                None, Plain
<1>4. CASE SessionStart \/ SessionStarted \/ LtCommand \/ Out \/ Receive
           \/ SessionAbort \/ Reboot \/ Reinit \/ GetInfo
    BY <1>4 DEF SessionStart, SessionStarted, LtCommand, Out, Receive, Return, Overflows,
                SessionAbort, Reboot, Reinit, GetInfo
<1>5. CASE UNCHANGED vars
    BY <1>5 DEF vars, sessionVars, chipVars
<1>6. QED
    BY <1>1, <1>2, <1>3, <1>4, <1>5 DEF Next, Host, Chip

\* What the invariant says of a session that is ON.
LEMMA SessionOn ==
    ASSUME IInv, session_status = "ON"
    PROVE  /\ key # 0 /\ pc # "handshake"
           /\ encryption_IV \in Nat /\ decryption_IV \in Nat
           /\ pc \in {"send", "receive"} => decryption_IV < encryption_IV
BY NonceAssumption DEF IInv, SessionKeys, HostProgress, TypeOK, Nonces

\* The only result that decrypts is that of the command under way, when there has
\* been one for every command before.
LEMMA AuthenticInStep ==
    ASSUME IInv, HeldResult, pc = "receive", Authentic(chip_out)
    PROVE  ~OutOfStep
<1>1. chip_out = Result(key, encryption_IV - 1, call) /\ chip_out.iv = decryption_IV
    BY DEF IInv, InFlight, Authentic
<1>2. encryption_IV - 1 = decryption_IV /\ chip_key = key
    BY <1>1, FieldFacts DEF HeldResult, Authentic
<1>3. decryption_IV + Awaited = encryption_IV
    BY <1>2, NonceAssumption DEF IInv, TypeOK, Nonces, Awaited
<1>4. QED
    BY <1>2, <1>3 DEF OutOfStep

\* Whoever receives nothing that decrypts keeps the session out of step or ends it.
LEMMA ReceiveOutOfStep ==
    ASSUME IInv, HeldResult, Receive
    PROVE  /\ OutOfStep => ret' # "LT_OK"
           /\ ret' = "LT_L1_L2_ERROR" => OutOfStep'
           /\ OutOfStep /\ session_status' = "ON" => OutOfStep'
<1>1. pc = "receive" /\ pc' = "idle" /\ session_status = "ON"
    BY DEF Receive, Return, IInv, HostProgress
<1>2. decryption_IV < encryption_IV /\ encryption_IV \in Nat /\ decryption_IV \in Nat
    BY <1>1, SessionOn
<1>3. CASE Authentic(chip_out) /\ ret' # "LT_L1_L2_ERROR"
    BY <1>1, <1>3, AuthenticInStep
<1>4. CASE session_status' = "OFF" /\ ret' \notin {"LT_OK", "LT_L1_L2_ERROR"}
    BY <1>4
<1>5. CASE UNCHANGED sessionVars /\ ret' = "LT_L1_L2_ERROR"
  <2>1. OutOfStep'
      BY <1>1, <1>2, <1>5 DEF sessionVars, OutOfStep, Awaited
  <2>2. QED
      BY <1>5, <2>1
<1>6. QED
    BY <1>3, <1>4, <1>5 DEF Receive, Return, Invalidate

\* A session that is out of step stays so until the host drops it.
LEMMA OutOfStepStep ==
    IInv /\ HeldResult /\ [Next]_vars /\ OutOfStep /\ session_status' = "ON" => OutOfStep'
<1> SUFFICES ASSUME IInv, HeldResult, [Next]_vars, OutOfStep, session_status' = "ON"
             PROVE  OutOfStep'
    OBVIOUS
<1>1. session_status = "ON"
    BY DEF OutOfStep
<1>2. /\ key # 0 /\ pc # "handshake"
      /\ encryption_IV \in Nat /\ decryption_IV \in Nat
      /\ pc \in {"send", "receive"} => decryption_IV < encryption_IV
    BY <1>1, SessionOn
<1>3. CASE SessionStart \/ SessionStarted \/ SessionAbort \/ Reinit
    BY <1>2, <1>3 DEF SessionStart, SessionStarted, SessionAbort, Reinit, Invalidate
<1>4. CASE LtCommand \/ Reboot \/ GetInfo
  <2>1. UNCHANGED <<sessionVars, chip_key, Awaited>>
      BY <1>4 DEF LtCommand, Reboot, GetInfo, Deliver, DeliveryFails, chipVars, Awaited
  <2>2. QED
      BY <2>1 DEF OutOfStep, sessionVars
<1>5. CASE Out
  <2>1. /\ pc = "out" /\ chip_key' = chip_key /\ key' = key /\ decryption_IV' = decryption_IV
        /\ \/ encryption_IV' = encryption_IV /\ pc' = "idle"
           \/ encryption_IV' = encryption_IV + 1 /\ pc' = "send"
      BY <1>1, <1>5 DEF Out, Invalidate, Return, Overflows, NonceIncrease, chipVars
  <2>2. QED
      BY <1>1, <1>2, <2>1 DEF OutOfStep, Awaited
<1>6. CASE Send
  <2>1. /\ pc = "send" /\ chip_key' = chip_key /\ UNCHANGED sessionVars
        /\ pc' \in {"receive", "idle"}
      BY <1>6 DEF Send, Deliver, DeliveryFails, Return
  <2>2. QED
      BY <1>1, <1>2, <2>1 DEF OutOfStep, Awaited, sessionVars
<1>7. CASE Receive
    BY <1>7, ReceiveOutOfStep
<1>8. CASE Chip
  <2>1. chip_key' \in {chip_key, 0} /\ UNCHANGED hostVars
      BY <1>2, <1>8 DEF Chip, ChipHandshake, ChipExecutes, ChipRefuses, ChipEndsSession,
                        ChipReset, IInv, InFlight
  <2>2. QED
      BY <1>2, <2>1 DEF OutOfStep, Awaited, hostVars, sessionVars
<1>9. CASE UNCHANGED vars
    BY <1>9 DEF vars, sessionVars, chipVars, OutOfStep, Awaited
<1>10. QED
    BY <1>3, <1>4, <1>5, <1>6, <1>7, <1>8, <1>9 DEF Next, Host

\* A command that ends in an L1 or L2 error puts its session out of step, and so
\* does a chip that ends its own.
LEMMA PutsOutOfStep ==
    ASSUME IInv, HeldResult, Next
    PROVE  /\ pc \in {"send", "receive"} /\ pc' = "idle" /\ ret' = "LT_L1_L2_ERROR"
                => OutOfStep'
           /\ session_status = "ON" /\ chip_key = key /\ chip_key' # key => OutOfStep'
<1>1. CASE Send
  <2>1. /\ chip_key' = chip_key /\ UNCHANGED sessionVars /\ session_status = "ON"
        /\ decryption_IV < encryption_IV /\ encryption_IV \in Nat /\ decryption_IV \in Nat
      BY <1>1, SessionOn DEF Send, Deliver, DeliveryFails, IInv, HostProgress
  <2>2. QED
      BY <2>1 DEF OutOfStep, Awaited, sessionVars
<1>2. CASE Receive
  <2>1. chip_key' = chip_key
      BY <1>2 DEF Receive, Read, ReadFails
  <2>2. QED
      BY <1>2, <2>1, ReceiveOutOfStep
<1>3. CASE Host /\ ~Send /\ ~Receive
  <2>1. chip_key' = chip_key /\ pc \notin {"send", "receive"}
      BY <1>3 DEF Host, SessionStart, SessionStarted, LtCommand, Out, SessionAbort, Reboot,
                  Reinit, GetInfo, Deliver, DeliveryFails, Read, ReadFails, chipVars
  <2>2. QED
      BY <2>1
<1>4. CASE Chip
  <2>1. UNCHANGED hostVars
      BY <1>4 DEF Chip, ChipHandshake, ChipExecutes, ChipRefuses, ChipEndsSession, ChipReset
  <2>2. QED
      BY <2>1 DEF OutOfStep, hostVars, sessionVars
<1>5. QED
    BY <1>1, <1>2, <1>3, <1>4 DEF Next

\* A session in which a frame was lost, or which the chip has ended, is of no more
\* use, although session_status stays ON: no further command of it returns LT_OK
\* until the host drops it.  libtropic drops no session on an L1 or L2 error.
NoRecovery ==
    [][/\ pc \in {"send", "receive"} /\ pc' = "idle" /\ ret' = "LT_L1_L2_ERROR" => OutOfStep'
       /\ session_status = "ON" /\ chip_key = key /\ chip_key' # key => OutOfStep'
       /\ OutOfStep /\ session_status' = "ON" => OutOfStep'
       /\ OutOfStep /\ pc = "receive" /\ pc' = "idle" => ret' # "LT_OK"]_vars

THEOREM NoRecoveryHolds == Spec => NoRecovery
<1> DEFINE A == /\ pc \in {"send", "receive"} /\ pc' = "idle" /\ ret' = "LT_L1_L2_ERROR"
                     => OutOfStep'
                /\ session_status = "ON" /\ chip_key = key /\ chip_key' # key => OutOfStep'
                /\ OutOfStep /\ session_status' = "ON" => OutOfStep'
                /\ OutOfStep /\ pc = "receive" /\ pc' = "idle" => ret' # "LT_OK"
<1>1. Init => HeldResult
    BY DEF Init, HeldResult
<1>2. ASSUME IInv, HeldResult, Next PROVE A
  <2>1. pc = "receive" /\ pc' = "idle" => Receive
      BY <1>2 DEF Next, Host, Chip, SessionStart, SessionStarted, LtCommand, Out, Send,
                  SessionAbort, Reboot, Reinit, GetInfo, ChipHandshake, ChipExecutes,
                  ChipRefuses, ChipEndsSession, ChipReset, hostVars
  <2>2. QED
      BY <1>2, <2>1, PutsOutOfStep, OutOfStepStep, ReceiveOutOfStep
<1>3. IInv /\ HeldResult /\ [Next]_vars => [A]_vars
    BY <1>2
<1>4. QED
    BY <1>1, <1>3, HeldResultStep, InductiveInvariant, PTL DEF Spec, NoRecovery
=============================================================================
