---------------------------- MODULE L3CallsProofs ----------------------------
(***************************************************************************)
(* Proofs about L3Calls, for every set of requests, of Results and of slot *)
(* sizes: the calls are calls of SecureChannel, so that all that is proved *)
(* of the channel holds for each command; what lt_in__X hands to a caller  *)
(* is the Result; and the checks of every command agree with its layout.   *)
(* A lemma about the commands goes through them one by one.                *)
(***************************************************************************)
EXTENDS L3Calls, SecureChannelProofs

(* Every step of L3Calls is one of SecureChannel, or none.                   *)
LEMMA L3StepRefines == [L3Next]_l3vars => [Next]_vars
BY DEF L3Next, l3vars, LtRefused, LtCalled, L3Out, L3Send, L3Receive, Next, Host

(* The refinement: with the commands in it the channel is still the channel, *)
(* and a call that is refused does nothing to it.                            *)
THEOREM L3Implementation == L3Spec => Spec
<1>1. L3Init => Init
    BY DEF L3Init
<1>2. QED
    BY <1>1, L3StepRefines, PTL DEF L3Spec, Spec

(* So no command, whatever its sizes and checks, repeats a nonce.            *)
THEOREM L3NonceUnique == L3Spec => []NonceUnique
BY L3Implementation, NonceUniqueHolds, PTL

-----------------------------------------------------------------------------
(* What the records of a command hold.                                       *)
LEMMA DecodedFields ==
    ASSUME NEW x, NEW n
    PROVE  Decoded(x, n).ret = x /\ Decoded(x, n).copied = n /\ Decoded(x, n).session = "ON"
BY Zenon DEF Decoded

LEMMA SizeErrorFields ==
    SizeError.ret = "LT_L3_RES_SIZE_ERROR" /\ SizeError.copied = 0
BY Zenon DEF SizeError

LEMMA LayoutFields ==
    ASSUME NEW id, NEW cf, NEW cd, NEW cs, NEW rf, NEW rd, NEW rs, NEW s,
           s = Layout(id, cf, cd, cs, rf, rd, rs)
    PROVE  /\ s.cmd_fields = cf /\ s.cmd_data = cd /\ s.CMD_SIZE = cs
           /\ s.res_fields = rf /\ s.res_data = rd /\ s.RES_SIZE = rs
BY Zenon DEF Layout

LEMMA CallFields ==
    ASSUME NEW v, NEW n, NEW l, l = LimitedCall(v, n)
    PROVE  /\ l.valid = v
           /\ l.limit = IF n < LT_SIZE_OF_L3_BUFF THEN n ELSE LT_SIZE_OF_L3_BUFF
BY Zenon DEF LimitedCall

LEMMA FillFields ==
    ASSUME NEW v, NEW s, NEW out, out = Fill(v, s)
    PROVE  /\ out.valid = v /\ out.cmd_size = s.CMD_SIZE
           /\ out.filled = s.cmd_fields + s.cmd_data
BY Zenon DEF Fill

LEMMA FillDataFields ==
    ASSUME NEW v, NEW size, NEW s, NEW n, NEW out, out = FillData(v, size, s, n)
    PROVE  out.valid = v /\ out.cmd_size = size /\ out.filled = s.cmd_fields + n
BY Zenon DEF FillData

LEMMA WithFields ==
    ASSUME NEW s, NEW l, NEW out, NEW in, NEW c, c = With(s, l, out, in)
    PROVE  c.struct = s /\ c.call = l /\ c.out = out /\ c.in = in
BY Zenon DEF With

LEMMA ResultFields ==
    ASSUME NEW n, NEW curve, NEW r, r = [result |-> "OK", size |-> n, curve |-> curve]
    PROVE  r.size = n /\ r.curve = curve
BY Zenon

-----------------------------------------------------------------------------
(* What L3Command is for each command.                                       *)
LEMMA Ping ==
    ASSUME NEW a, a.cmd = "ping", NEW r, NEW c, c = L3Command(a, r, slot_size)
    PROVE  /\ c.struct = lt_l3_ping /\ c.call = lt_ping(a)
           /\ c.out = lt_out__ping(a) /\ c.in = lt_in__ping(a, r)
<1>1. c = With(lt_l3_ping, lt_ping(a),
               lt_out__ping(a), lt_in__ping(a, r))
    BY Zenon DEF L3Command
<1>2. QED
    BY <1>1, WithFields

LEMMA PairingKeyWrite ==
    ASSUME NEW a, a.cmd = "pairing_key_write", NEW r,
           NEW c, c = L3Command(a, r, slot_size)
    PROVE  /\ c.struct = lt_l3_pairing_key_write /\ c.call = lt_pairing_key_write(a)
           /\ c.out = lt_out__pairing_key_write(a) /\ c.in = lt_in__pairing_key_write(r)
<1>1. c = With(lt_l3_pairing_key_write, lt_pairing_key_write(a),
               lt_out__pairing_key_write(a), lt_in__pairing_key_write(r))
    BY Zenon DEF L3Command
<1>2. QED
    BY <1>1, WithFields

LEMMA PairingKeyRead ==
    ASSUME NEW a, a.cmd = "pairing_key_read", NEW r,
           NEW c, c = L3Command(a, r, slot_size)
    PROVE  /\ c.struct = lt_l3_pairing_key_read /\ c.call = lt_pairing_key_read(a)
           /\ c.out = lt_out__pairing_key_read(a) /\ c.in = lt_in__pairing_key_read(r)
<1>1. c = With(lt_l3_pairing_key_read, lt_pairing_key_read(a),
               lt_out__pairing_key_read(a), lt_in__pairing_key_read(r))
    BY Zenon DEF L3Command
<1>2. QED
    BY <1>1, WithFields

LEMMA PairingKeyInvalidate ==
    ASSUME NEW a, a.cmd = "pairing_key_invalidate", NEW r,
           NEW c, c = L3Command(a, r, slot_size)
    PROVE  /\ c.struct = lt_l3_pairing_key_invalidate /\ c.call = lt_pairing_key_invalidate(a)
           /\ c.out = lt_out__pairing_key_invalidate(a) /\ c.in = lt_in__pairing_key_invalidate(r)
<1>1. c = With(lt_l3_pairing_key_invalidate, lt_pairing_key_invalidate(a),
               lt_out__pairing_key_invalidate(a), lt_in__pairing_key_invalidate(r))
    BY Zenon DEF L3Command
<1>2. QED
    BY <1>1, WithFields

LEMMA RConfigWrite ==
    ASSUME NEW a, a.cmd = "r_config_write", NEW r, NEW c, c = L3Command(a, r, slot_size)
    PROVE  /\ c.struct = lt_l3_r_config_write /\ c.call = lt_r_config_write(a)
           /\ c.out = lt_out__r_config_write(a) /\ c.in = lt_in__r_config_write(r)
<1>1. c = With(lt_l3_r_config_write, lt_r_config_write(a),
               lt_out__r_config_write(a), lt_in__r_config_write(r))
    BY Zenon DEF L3Command
<1>2. QED
    BY <1>1, WithFields

LEMMA RConfigRead ==
    ASSUME NEW a, a.cmd = "r_config_read", NEW r, NEW c, c = L3Command(a, r, slot_size)
    PROVE  /\ c.struct = lt_l3_r_config_read /\ c.call = lt_r_config_read(a)
           /\ c.out = lt_out__r_config_read(a) /\ c.in = lt_in__r_config_read(r)
<1>1. c = With(lt_l3_r_config_read, lt_r_config_read(a),
               lt_out__r_config_read(a), lt_in__r_config_read(r))
    BY Zenon DEF L3Command
<1>2. QED
    BY <1>1, WithFields

LEMMA RConfigErase ==
    ASSUME NEW a, a.cmd = "r_config_erase", NEW r, NEW c, c = L3Command(a, r, slot_size)
    PROVE  /\ c.struct = lt_l3_r_config_erase /\ c.call = lt_r_config_erase(a)
           /\ c.out = lt_out__r_config_erase(a) /\ c.in = lt_in__r_config_erase(r)
<1>1. c = With(lt_l3_r_config_erase, lt_r_config_erase(a),
               lt_out__r_config_erase(a), lt_in__r_config_erase(r))
    BY Zenon DEF L3Command
<1>2. QED
    BY <1>1, WithFields

LEMMA IConfigWrite ==
    ASSUME NEW a, a.cmd = "i_config_write", NEW r, NEW c, c = L3Command(a, r, slot_size)
    PROVE  /\ c.struct = lt_l3_i_config_write /\ c.call = lt_i_config_write(a)
           /\ c.out = lt_out__i_config_write(a) /\ c.in = lt_in__i_config_write(r)
<1>1. c = With(lt_l3_i_config_write, lt_i_config_write(a),
               lt_out__i_config_write(a), lt_in__i_config_write(r))
    BY Zenon DEF L3Command
<1>2. QED
    BY <1>1, WithFields

LEMMA IConfigRead ==
    ASSUME NEW a, a.cmd = "i_config_read", NEW r, NEW c, c = L3Command(a, r, slot_size)
    PROVE  /\ c.struct = lt_l3_i_config_read /\ c.call = lt_i_config_read(a)
           /\ c.out = lt_out__i_config_read(a) /\ c.in = lt_in__i_config_read(r)
<1>1. c = With(lt_l3_i_config_read, lt_i_config_read(a),
               lt_out__i_config_read(a), lt_in__i_config_read(r))
    BY Zenon DEF L3Command
<1>2. QED
    BY <1>1, WithFields

LEMMA RMemDataWrite ==
    ASSUME NEW a, a.cmd = "r_mem_data_write", NEW r,
           NEW c, c = L3Command(a, r, slot_size)
    PROVE  /\ c.struct = lt_l3_r_mem_data_write /\ c.call = lt_r_mem_data_write(a, slot_size)
           /\ c.out = lt_out__r_mem_data_write(a, slot_size) /\ c.in = lt_in__r_mem_data_write(r)
<1>1. c = With(lt_l3_r_mem_data_write, lt_r_mem_data_write(a, slot_size),
               lt_out__r_mem_data_write(a, slot_size), lt_in__r_mem_data_write(r))
    BY Zenon DEF L3Command
<1>2. QED
    BY <1>1, WithFields

LEMMA RMemDataRead ==
    ASSUME NEW a, a.cmd = "r_mem_data_read", NEW r,
           NEW c, c = L3Command(a, r, slot_size)
    PROVE  /\ c.struct = lt_l3_r_mem_data_read /\ c.call = lt_r_mem_data_read(a, slot_size)
           /\ c.out = lt_out__r_mem_data_read(a) /\ c.in = lt_in__r_mem_data_read(a, r, slot_size)
<1>1. c = With(lt_l3_r_mem_data_read, lt_r_mem_data_read(a, slot_size),
               lt_out__r_mem_data_read(a), lt_in__r_mem_data_read(a, r, slot_size))
    BY Zenon DEF L3Command
<1>2. QED
    BY <1>1, WithFields

LEMMA RMemDataErase ==
    ASSUME NEW a, a.cmd = "r_mem_data_erase", NEW r,
           NEW c, c = L3Command(a, r, slot_size)
    PROVE  /\ c.struct = lt_l3_r_mem_data_erase /\ c.call = lt_r_mem_data_erase(a)
           /\ c.out = lt_out__r_mem_data_erase(a) /\ c.in = lt_in__r_mem_data_erase(r)
<1>1. c = With(lt_l3_r_mem_data_erase, lt_r_mem_data_erase(a),
               lt_out__r_mem_data_erase(a), lt_in__r_mem_data_erase(r))
    BY Zenon DEF L3Command
<1>2. QED
    BY <1>1, WithFields

LEMMA RandomValueGet ==
    ASSUME NEW a, a.cmd = "random_value_get", NEW r,
           NEW c, c = L3Command(a, r, slot_size)
    PROVE  /\ c.struct = lt_l3_random_value_get /\ c.call = lt_random_value_get(a)
           /\ c.out = lt_out__random_value_get(a) /\ c.in = lt_in__random_value_get(a, r)
<1>1. c = With(lt_l3_random_value_get, lt_random_value_get(a),
               lt_out__random_value_get(a), lt_in__random_value_get(a, r))
    BY Zenon DEF L3Command
<1>2. QED
    BY <1>1, WithFields

LEMMA EccKeyGenerate ==
    ASSUME NEW a, a.cmd = "ecc_key_generate", NEW r,
           NEW c, c = L3Command(a, r, slot_size)
    PROVE  /\ c.struct = lt_l3_ecc_key_generate /\ c.call = lt_ecc_key_generate(a)
           /\ c.out = lt_out__ecc_key_generate(a) /\ c.in = lt_in__ecc_key_generate(r)
<1>1. c = With(lt_l3_ecc_key_generate, lt_ecc_key_generate(a),
               lt_out__ecc_key_generate(a), lt_in__ecc_key_generate(r))
    BY Zenon DEF L3Command
<1>2. QED
    BY <1>1, WithFields

LEMMA EccKeyStore ==
    ASSUME NEW a, a.cmd = "ecc_key_store", NEW r, NEW c, c = L3Command(a, r, slot_size)
    PROVE  /\ c.struct = lt_l3_ecc_key_store /\ c.call = lt_ecc_key_store(a)
           /\ c.out = lt_out__ecc_key_store(a) /\ c.in = lt_in__ecc_key_store(r)
<1>1. c = With(lt_l3_ecc_key_store, lt_ecc_key_store(a),
               lt_out__ecc_key_store(a), lt_in__ecc_key_store(r))
    BY Zenon DEF L3Command
<1>2. QED
    BY <1>1, WithFields

LEMMA EccKeyRead ==
    ASSUME NEW a, a.cmd = "ecc_key_read", NEW r, NEW c, c = L3Command(a, r, slot_size)
    PROVE  /\ c.struct = lt_l3_ecc_key_read /\ c.call = lt_ecc_key_read(a)
           /\ c.out = lt_out__ecc_key_read(a) /\ c.in = lt_in__ecc_key_read(a, r)
<1>1. c = With(lt_l3_ecc_key_read, lt_ecc_key_read(a),
               lt_out__ecc_key_read(a), lt_in__ecc_key_read(a, r))
    BY Zenon DEF L3Command
<1>2. QED
    BY <1>1, WithFields

LEMMA EccKeyErase ==
    ASSUME NEW a, a.cmd = "ecc_key_erase", NEW r, NEW c, c = L3Command(a, r, slot_size)
    PROVE  /\ c.struct = lt_l3_ecc_key_erase /\ c.call = lt_ecc_key_erase(a)
           /\ c.out = lt_out__ecc_key_erase(a) /\ c.in = lt_in__ecc_key_erase(r)
<1>1. c = With(lt_l3_ecc_key_erase, lt_ecc_key_erase(a),
               lt_out__ecc_key_erase(a), lt_in__ecc_key_erase(r))
    BY Zenon DEF L3Command
<1>2. QED
    BY <1>1, WithFields

LEMMA EccEcdsaSign ==
    ASSUME NEW a, a.cmd = "ecc_ecdsa_sign", NEW r, NEW c, c = L3Command(a, r, slot_size)
    PROVE  /\ c.struct = lt_l3_ecdsa_sign /\ c.call = lt_ecc_ecdsa_sign(a)
           /\ c.out = lt_out__ecc_ecdsa_sign(a) /\ c.in = lt_in__ecc_ecdsa_sign(r)
<1>1. c = With(lt_l3_ecdsa_sign, lt_ecc_ecdsa_sign(a),
               lt_out__ecc_ecdsa_sign(a), lt_in__ecc_ecdsa_sign(r))
    BY Zenon DEF L3Command
<1>2. QED
    BY <1>1, WithFields

LEMMA EccEddsaSign ==
    ASSUME NEW a, a.cmd = "ecc_eddsa_sign", NEW r, NEW c, c = L3Command(a, r, slot_size)
    PROVE  /\ c.struct = lt_l3_eddsa_sign /\ c.call = lt_ecc_eddsa_sign(a)
           /\ c.out = lt_out__ecc_eddsa_sign(a) /\ c.in = lt_in__ecc_eddsa_sign(r)
<1>1. c = With(lt_l3_eddsa_sign, lt_ecc_eddsa_sign(a),
               lt_out__ecc_eddsa_sign(a), lt_in__ecc_eddsa_sign(r))
    BY Zenon DEF L3Command
<1>2. QED
    BY <1>1, WithFields

LEMMA McounterInit ==
    ASSUME NEW a, a.cmd = "mcounter_init", NEW r, NEW c, c = L3Command(a, r, slot_size)
    PROVE  /\ c.struct = lt_l3_mcounter_init /\ c.call = lt_mcounter_init(a)
           /\ c.out = lt_out__mcounter_init(a) /\ c.in = lt_in__mcounter_init(r)
<1>1. c = With(lt_l3_mcounter_init, lt_mcounter_init(a),
               lt_out__mcounter_init(a), lt_in__mcounter_init(r))
    BY Zenon DEF L3Command
<1>2. QED
    BY <1>1, WithFields

LEMMA McounterUpdate ==
    ASSUME NEW a, a.cmd = "mcounter_update", NEW r,
           NEW c, c = L3Command(a, r, slot_size)
    PROVE  /\ c.struct = lt_l3_mcounter_update /\ c.call = lt_mcounter_update(a)
           /\ c.out = lt_out__mcounter_update(a) /\ c.in = lt_in__mcounter_update(r)
<1>1. c = With(lt_l3_mcounter_update, lt_mcounter_update(a),
               lt_out__mcounter_update(a), lt_in__mcounter_update(r))
    BY Zenon DEF L3Command
<1>2. QED
    BY <1>1, WithFields

LEMMA McounterGet ==
    ASSUME NEW a, a.cmd = "mcounter_get", NEW r, NEW c, c = L3Command(a, r, slot_size)
    PROVE  /\ c.struct = lt_l3_mcounter_get /\ c.call = lt_mcounter_get(a)
           /\ c.out = lt_out__mcounter_get(a) /\ c.in = lt_in__mcounter_get(r)
<1>1. c = With(lt_l3_mcounter_get, lt_mcounter_get(a),
               lt_out__mcounter_get(a), lt_in__mcounter_get(r))
    BY Zenon DEF L3Command
<1>2. QED
    BY <1>1, WithFields

LEMMA MacAndDestroy ==
    ASSUME NEW a, a.cmd = "mac_and_destroy", NEW r,
           NEW c, c = L3Command(a, r, slot_size)
    PROVE  /\ c.struct = lt_l3_mac_and_destroy /\ c.call = lt_mac_and_destroy(a)
           /\ c.out = lt_out__mac_and_destroy(a) /\ c.in = lt_in__mac_and_destroy(r)
<1>1. c = With(lt_l3_mac_and_destroy, lt_mac_and_destroy(a),
               lt_out__mac_and_destroy(a), lt_in__mac_and_destroy(r))
    BY Zenon DEF L3Command
<1>2. QED
    BY <1>1, WithFields

-----------------------------------------------------------------------------
(* What a caller may be given: the data of the Result if it fits, else       *)
(* nothing.                                                                  *)
Faithful(d, data, room) ==
    /\ d.ret = "LT_OK" => d.copied = data /\ d.copied <= room
    /\ d.ret # "LT_OK" => d.copied = 0

LEMMA ExactFaithful ==
    ASSUME NEW r, NEW fields \in Nat, NEW n \in Nat, NEW size, size = fields + n
    PROVE  Faithful(ExactData(r, size, n), r.size - fields, n)
<1>1. CASE r.size = size
    BY <1>1, DecodedFields DEF ExactData, Faithful
<1>2. CASE r.size # size
    BY <1>2, SizeErrorFields DEF ExactData, Faithful
<1>3. QED
    BY <1>1, <1>2

(* The room that the caller has.                                             *)
LEMMA RoomIs ==
    ASSUME NEW a
    PROVE  /\ a.cmd \in {"ping", "random_value_get"} => Room(a) = a.n
           /\ a.cmd \in {"r_mem_data_read", "ecc_key_read"} => Room(a) = a.max
           /\ a.cmd \notin {"ping", "random_value_get", "r_mem_data_read", "ecc_key_read"}
                => Room(a) = L3Command(a, NoResult, slot_size).struct.res_data
BY Zenon DEF Room, Asked

(* lt_in__X, one command at a time.                                          *)
LEMMA DecodeFaithful ==
    ASSUME NEW a \in Requests, NEW r \in Results, slot_size \in SlotSizes,
           NEW c, c = L3Command(a, r, slot_size)
    PROVE  Faithful(c.in, r.size - c.struct.res_fields, Room(a))
<1>0. /\ a.cmd \in Commands /\ a.n \in Nat /\ a.max \in Nat /\ a.max <= 65531
      /\ r.size \in Nat /\ r.size <= 65535 /\ slot_size \in {0, 444, 475}
    BY RequestsAssumption, ResultsAssumption, SlotSizesAssumption
<1>1. CASE a.cmd = "ping"
  <2>1. c.in = ExactData(r, 1 + a.n, a.n) /\ c.struct.res_fields = 1 /\ Room(a) = a.n
      BY <1>1, Ping, LayoutFields, RoomIs DEF lt_in__ping, lt_l3_ping
  <2>2. QED
      BY <1>0, <2>1, ExactFaithful
<1>2. CASE a.cmd = "pairing_key_write"
  <2>1. c.in = ExactData(r, 1, 0) /\ c.struct.res_fields = 1 /\ Room(a) = 0
      BY <1>2, PairingKeyWrite, LayoutFields, RoomIs
         DEF lt_in__pairing_key_write, lt_l3_pairing_key_write, Exact
  <2>2. QED
      BY <2>1, ExactFaithful
<1>3. CASE a.cmd = "pairing_key_read"
  <2>1. c.in = ExactData(r, 36, 32) /\ c.struct.res_fields = 4 /\ Room(a) = 32
      BY <1>3, PairingKeyRead, LayoutFields, RoomIs
         DEF lt_in__pairing_key_read, lt_l3_pairing_key_read, Exact
  <2>2. QED
      BY <2>1, ExactFaithful
<1>4. CASE a.cmd = "pairing_key_invalidate"
  <2>1. c.in = ExactData(r, 1, 0) /\ c.struct.res_fields = 1 /\ Room(a) = 0
      BY <1>4, PairingKeyInvalidate, LayoutFields, RoomIs
         DEF lt_in__pairing_key_invalidate, lt_l3_pairing_key_invalidate, Exact
  <2>2. QED
      BY <2>1, ExactFaithful
<1>5. CASE a.cmd = "r_config_write"
  <2>1. c.in = ExactData(r, 1, 0) /\ c.struct.res_fields = 1 /\ Room(a) = 0
      BY <1>5, RConfigWrite, LayoutFields, RoomIs
         DEF lt_in__r_config_write, lt_l3_r_config_write, Exact
  <2>2. QED
      BY <2>1, ExactFaithful
<1>6. CASE a.cmd = "r_config_read"
  <2>1. c.in = ExactData(r, 8, 4) /\ c.struct.res_fields = 4 /\ Room(a) = 4
      BY <1>6, RConfigRead, LayoutFields, RoomIs
         DEF lt_in__r_config_read, lt_l3_r_config_read, Exact
  <2>2. QED
      BY <2>1, ExactFaithful
<1>7. CASE a.cmd = "r_config_erase"
  <2>1. c.in = ExactData(r, 1, 0) /\ c.struct.res_fields = 1 /\ Room(a) = 0
      BY <1>7, RConfigErase, LayoutFields, RoomIs
         DEF lt_in__r_config_erase, lt_l3_r_config_erase, Exact
  <2>2. QED
      BY <2>1, ExactFaithful
<1>8. CASE a.cmd = "i_config_write"
  <2>1. c.in = ExactData(r, 1, 0) /\ c.struct.res_fields = 1 /\ Room(a) = 0
      BY <1>8, IConfigWrite, LayoutFields, RoomIs
         DEF lt_in__i_config_write, lt_l3_i_config_write, Exact
  <2>2. QED
      BY <2>1, ExactFaithful
<1>9. CASE a.cmd = "i_config_read"
  <2>1. c.in = ExactData(r, 8, 4) /\ c.struct.res_fields = 4 /\ Room(a) = 4
      BY <1>9, IConfigRead, LayoutFields, RoomIs
         DEF lt_in__i_config_read, lt_l3_i_config_read, Exact
  <2>2. QED
      BY <2>1, ExactFaithful
<1>10. CASE a.cmd = "r_mem_data_write"
  <2>1. c.in = Decoded("LT_L3_R_MEM_DATA_WRITE_FAILED", 0) \/ c.in = SizeError
      BY <1>10, RMemDataWrite DEF lt_in__r_mem_data_write
  <2>2. QED
      BY <2>1, DecodedFields, SizeErrorFields DEF Faithful
<1>11. CASE a.cmd = "r_mem_data_read"
  <2> DEFINE data == (r.size - 4) % 65536
  <2>1. /\ c.in = lt_in__r_mem_data_read(a, r, slot_size)
        /\ c.struct = lt_l3_r_mem_data_read
        /\ lt_l3_r_mem_data_read.res_fields = 4
        /\ Room(a) = a.max
      BY <1>11, RMemDataRead, LayoutFields, RoomIs DEF lt_l3_r_mem_data_read
  <2>2. /\ c.struct.res_fields = 4
        /\ \/ c.in = Decoded("LT_OK", data) /\ data <= a.max
           \/ c.in = Decoded("LT_PARAM_ERR", 0)
           \/ c.in = Decoded("LT_L3_R_MEM_DATA_READ_SLOT_EMPTY", 0)
           \/ c.in = SizeError
      BY <1>0, <2>1 DEF lt_in__r_mem_data_read
  <2>3. data <= a.max => data = r.size - 4
      BY <1>0
  <2>4. QED
      BY <2>1, <2>2, <2>3, DecodedFields, SizeErrorFields DEF Faithful
<1>12. CASE a.cmd = "r_mem_data_erase"
  <2>1. c.in = Decoded("LT_L3_R_MEM_DATA_ERASE_FAILED", 0) \/ c.in = SizeError
      BY <1>12, RMemDataErase DEF lt_in__r_mem_data_erase
  <2>2. QED
      BY <2>1, DecodedFields, SizeErrorFields DEF Faithful
<1>13. CASE a.cmd = "random_value_get"
  <2>1. c.in = ExactData(r, 4 + a.n, a.n) /\ c.struct.res_fields = 4 /\ Room(a) = a.n
      BY <1>13, RandomValueGet, LayoutFields, RoomIs
         DEF lt_in__random_value_get, lt_l3_random_value_get
  <2>2. QED
      BY <1>0, <2>1, ExactFaithful
<1>14. CASE a.cmd = "ecc_key_generate"
  <2>1. c.in = ExactData(r, 1, 0) /\ c.struct.res_fields = 1 /\ Room(a) = 0
      BY <1>14, EccKeyGenerate, LayoutFields, RoomIs
         DEF lt_in__ecc_key_generate, lt_l3_ecc_key_generate, Exact
  <2>2. QED
      BY <2>1, ExactFaithful
<1>15. CASE a.cmd = "ecc_key_store"
  <2>1. c.in = ExactData(r, 1, 0) /\ c.struct.res_fields = 1 /\ Room(a) = 0
      BY <1>15, EccKeyStore, LayoutFields, RoomIs
         DEF lt_in__ecc_key_store, lt_l3_ecc_key_store, Exact
  <2>2. QED
      BY <2>1, ExactFaithful
<1>16. CASE a.cmd = "ecc_key_read"
  <2> DEFINE data == PubKeyLen(r.curve)
  <2>1. /\ c.in = lt_in__ecc_key_read(a, r)
        /\ c.struct = lt_l3_ecc_key_read
        /\ lt_l3_ecc_key_read.res_fields = 16
        /\ Room(a) = a.max
      BY <1>16, EccKeyRead, LayoutFields, RoomIs DEF lt_l3_ecc_key_read
  <2>2. data \in Nat
      BY DEF PubKeyLen
  <2>3. /\ c.struct.res_fields = 16
        /\ \/ c.in = Decoded("LT_OK", data) /\ data <= a.max /\ data = r.size - 16
           \/ c.in = Decoded("LT_PARAM_ERR", 0)
           \/ c.in = Decoded("LT_FAIL", 0)
           \/ c.in = SizeError
      BY <1>0, <2>1, <2>2 DEF lt_in__ecc_key_read
  <2>4. QED
      BY <2>1, <2>3, DecodedFields, SizeErrorFields DEF Faithful
<1>17. CASE a.cmd = "ecc_key_erase"
  <2>1. c.in = ExactData(r, 1, 0) /\ c.struct.res_fields = 1 /\ Room(a) = 0
      BY <1>17, EccKeyErase, LayoutFields, RoomIs
         DEF lt_in__ecc_key_erase, lt_l3_ecc_key_erase, Exact
  <2>2. QED
      BY <2>1, ExactFaithful
<1>18. CASE a.cmd = "ecc_ecdsa_sign"
  <2>1. c.in = ExactData(r, 80, 64) /\ c.struct.res_fields = 16 /\ Room(a) = 64
      BY <1>18, EccEcdsaSign, LayoutFields, RoomIs
         DEF lt_in__ecc_ecdsa_sign, lt_l3_ecdsa_sign, Exact
  <2>2. QED
      BY <2>1, ExactFaithful
<1>19. CASE a.cmd = "ecc_eddsa_sign"
  <2>1. c.in = ExactData(r, 80, 64) /\ c.struct.res_fields = 16 /\ Room(a) = 64
      BY <1>19, EccEddsaSign, LayoutFields, RoomIs
         DEF lt_in__ecc_eddsa_sign, lt_l3_eddsa_sign, Exact
  <2>2. QED
      BY <2>1, ExactFaithful
<1>20. CASE a.cmd = "mcounter_init"
  <2>1. c.in = ExactData(r, 1, 0) /\ c.struct.res_fields = 1 /\ Room(a) = 0
      BY <1>20, McounterInit, LayoutFields, RoomIs
         DEF lt_in__mcounter_init, lt_l3_mcounter_init, Exact
  <2>2. QED
      BY <2>1, ExactFaithful
<1>21. CASE a.cmd = "mcounter_update"
  <2>1. c.in = ExactData(r, 1, 0) /\ c.struct.res_fields = 1 /\ Room(a) = 0
      BY <1>21, McounterUpdate, LayoutFields, RoomIs
         DEF lt_in__mcounter_update, lt_l3_mcounter_update, Exact
  <2>2. QED
      BY <2>1, ExactFaithful
<1>22. CASE a.cmd = "mcounter_get"
  <2>1. c.in = ExactData(r, 8, 4) /\ c.struct.res_fields = 4 /\ Room(a) = 4
      BY <1>22, McounterGet, LayoutFields, RoomIs
         DEF lt_in__mcounter_get, lt_l3_mcounter_get, Exact
  <2>2. QED
      BY <2>1, ExactFaithful
<1>23. CASE a.cmd = "mac_and_destroy"
  <2>1. c.in = ExactData(r, 36, 32) /\ c.struct.res_fields = 4 /\ Room(a) = 32
      BY <1>23, MacAndDestroy, LayoutFields, RoomIs
         DEF lt_in__mac_and_destroy, lt_l3_mac_and_destroy, Exact
  <2>2. QED
      BY <2>1, ExactFaithful
<1>24. QED
    BY <1>0, <1>1, <1>2, <1>3, <1>4, <1>5, <1>6, <1>7, <1>8, <1>9, <1>10,
       <1>11, <1>12, <1>13, <1>14, <1>15, <1>16, <1>17, <1>18, <1>19, <1>20,
       <1>21, <1>22, <1>23 DEF Commands

-----------------------------------------------------------------------------
(* The sizes that the chip may send.                                         *)
LEMMA ChipSizesAre ==
    ASSUME NEW a, NEW s, s = L3Command(a, NoResult, slot_size).struct
    PROVE  /\ a.cmd = "ping" => ChipSizes(a) = {1 + a.n}
           /\ a.cmd = "random_value_get" => ChipSizes(a) = {4 + a.n}
           /\ a.cmd = "r_mem_data_read" => ChipSizes(a) = 4..(4 + slot_size)
           /\ a.cmd = "ecc_key_read" => ChipSizes(a) = {16 + 32, 16 + 64}
           /\ a.cmd \notin {"ping", "random_value_get", "r_mem_data_read", "ecc_key_read"}
                => ChipSizes(a) = {s.res_fields + s.res_data}
BY Zenon DEF ChipSizes, Asked

(* A command whose Result has one honest size agrees if its numbers do.      *)
LEMMA AgreeFrom ==
    ASSUME NEW a, a.cmd # "ecc_key_read",
           Asked(a).out.cmd_size \in Nat, Asked(a).out.cmd_size <= 4112,
           Asked(a).out.filled = Asked(a).out.cmd_size,
           Asked(a).out.cmd_size <= Asked(a).struct.cmd_fields + Asked(a).struct.cmd_data,
           \A n \in ChipSizes(a) : n \in Nat /\ n + 18 <= Asked(a).call.limit,
           \A n \in ChipSizes(a) : \A r :
              r.size = n => L3Command(a, r, slot_size).in.session = "ON"
    PROVE  Agree(a)
<1>1. /\ \A n \in ChipSizes(a) : PacketSize(n) = n + 18
      /\ PacketSize(Asked(a).out.cmd_size) <= LT_SIZE_OF_L3_BUFF
    BY DEF PacketSize, LT_SIZE_OF_L3_BUFF, TR01_L3_SIZE_SIZE, TR01_L3_TAG_SIZE,
           TR01_L3_CMD_CIPHERTEXT_MAX_SIZE
<1>2. ASSUME NEW n \in ChipSizes(a), NEW curve
      PROVE  L3Command(a, [result |-> "OK", size |-> n, curve |-> curve],
                       slot_size).in.session = "ON"
  <2> DEFINE r == [result |-> "OK", size |-> n, curve |-> curve]
  <2>1. r.size = n
      BY ResultFields
  <2> HIDE DEF r
  <2>2. L3Command(a, r, slot_size).in.session = "ON"
      BY <2>1
  <2>3. QED
      BY <2>2 DEF r
<1>3. QED
    BY <1>1, <1>2 DEF Agree

(* The limit of a call is that of its packet, which fits the L3 buffer.      *)
LEMMA LimitOf ==
    ASSUME NEW n \in Nat, n <= 4112, NEW v, NEW l, l = LimitedCall(v, PacketSize(n))
    PROVE  l.limit = n + 18
<1>1. /\ PacketSize(n) = n + 18 /\ LT_SIZE_OF_L3_BUFF = 4130
    BY DEF PacketSize, LT_SIZE_OF_L3_BUFF, TR01_L3_SIZE_SIZE, TR01_L3_TAG_SIZE,
           TR01_L3_CMD_CIPHERTEXT_MAX_SIZE
<1>2. QED
    BY <1>1, CallFields

LEMMA ExactStays ==
    ASSUME NEW r, NEW size, NEW n, r.size = size
    PROVE  ExactData(r, size, n).session = "ON"
BY DecodedFields DEF ExactData

(* The checks of each command agree, for every request that none refuses.    *)
LEMMA RequestAgrees ==
    ASSUME NEW a \in Requests, slot_size \in SlotSizes,
           Asked(a).call.valid, Asked(a).out.valid
    PROVE  Agree(a)
<1>0. /\ a.cmd \in Commands /\ a.n \in Nat
      /\ a.cmd = "random_value_get" => a.n <= 255
      /\ slot_size \in {0, 444, 475}
    BY RequestsAssumption, SlotSizesAssumption
<1> DEFINE c == L3Command(a, NoResult, slot_size)
<1>a. /\ Asked(a) = c /\ c.call.valid /\ c.out.valid
    BY DEF Asked
<1> HIDE DEF c
<1>1. CASE a.cmd = "ping"
  <2>1. c.struct = lt_l3_ping /\ c.call = lt_ping(a) /\ c.out = lt_out__ping(a)
      BY <1>1, Ping DEF c
  <2> DEFINE valid == a.n <= TR01_PING_LEN_MAX
  <2>o. c.out = FillData(valid, lt_l3_ping.CMD_SIZE + a.n, lt_l3_ping, a.n)
      BY <2>1 DEF lt_out__ping
  <2> HIDE DEF valid
  <2>f. /\ valid /\ c.out.cmd_size = lt_l3_ping.CMD_SIZE + a.n
        /\ c.out.filled = lt_l3_ping.cmd_fields + a.n
      BY <1>a, <2>o, FillDataFields
  <2>0. a.n <= 4096
      BY <1>0, <2>f DEF valid, TR01_PING_LEN_MAX
  <2>2. /\ c.out.cmd_size = 1 + a.n /\ c.out.filled = 1 + a.n
        /\ c.struct.cmd_fields = 1 /\ c.struct.cmd_data = 4096
      BY <1>0, <2>1, <2>f, LayoutFields DEF lt_l3_ping
  <2>3. c.call.limit = 4097 + 18
      BY <2>1, LimitOf, LayoutFields DEF lt_ping, lt_l3_ping, Call
  <2>4. ChipSizes(a) = {1 + a.n}
      BY <1>1, ChipSizesAre
  <2>5. ASSUME NEW r, r.size = 1 + a.n
        PROVE  L3Command(a, r, slot_size).in.session = "ON"
      BY <1>1, <2>5, Ping, ExactStays DEF lt_in__ping
  <2>6. 1 + a.n \in Nat /\ 1 + a.n <= 4097
      BY <1>0, <2>0
  <2>7. \A n \in ChipSizes(a) : n \in Nat /\ n + 18 <= c.call.limit
      BY <2>3, <2>4, <2>6
  <2>8. \A n \in ChipSizes(a) : \A r :
           r.size = n => L3Command(a, r, slot_size).in.session = "ON"
      BY <2>4, <2>5
  <2>9. QED
      BY <1>0, <1>a, <1>1, <2>2, <2>6, <2>7, <2>8, AgreeFrom
<1>2. CASE a.cmd = "pairing_key_write"
  <2>1. /\ c.struct = lt_l3_pairing_key_write
        /\ c.call = lt_pairing_key_write(a)
        /\ c.out = lt_out__pairing_key_write(a)
      BY <1>2, PairingKeyWrite DEF c
  <2>2. /\ c.out.cmd_size = 36 /\ c.out.filled = 36
        /\ c.struct.cmd_fields = 4 /\ c.struct.cmd_data = 32
      BY <2>1, FillFields, LayoutFields
         DEF lt_out__pairing_key_write, lt_l3_pairing_key_write
  <2>3. c.call.limit = 1 + 18
      BY <2>1, LimitOf, LayoutFields
         DEF lt_pairing_key_write, lt_l3_pairing_key_write, Call
  <2>4. ChipSizes(a) = {1}
      BY <1>2, <2>1, ChipSizesAre, LayoutFields DEF lt_l3_pairing_key_write, c
  <2>5. ASSUME NEW r, r.size = 1
        PROVE  L3Command(a, r, slot_size).in.session = "ON"
      BY <1>2, <2>5, PairingKeyWrite, ExactStays, LayoutFields
         DEF lt_in__pairing_key_write, lt_l3_pairing_key_write, Exact
  <2>6. 36 \in Nat /\ 36 <= 4112
      BY <1>0
  <2>7. \A n \in ChipSizes(a) : n \in Nat /\ n + 18 <= c.call.limit
      BY <2>3, <2>4, <2>6
  <2>8. \A n \in ChipSizes(a) : \A r :
           r.size = n => L3Command(a, r, slot_size).in.session = "ON"
      BY <2>4, <2>5
  <2>9. QED
      BY <1>0, <1>a, <1>2, <2>2, <2>6, <2>7, <2>8, AgreeFrom
<1>3. CASE a.cmd = "pairing_key_read"
  <2>1. /\ c.struct = lt_l3_pairing_key_read
        /\ c.call = lt_pairing_key_read(a)
        /\ c.out = lt_out__pairing_key_read(a)
      BY <1>3, PairingKeyRead DEF c
  <2>2. /\ c.out.cmd_size = 3 /\ c.out.filled = 3
        /\ c.struct.cmd_fields = 3 /\ c.struct.cmd_data = 0
      BY <2>1, FillFields, LayoutFields
         DEF lt_out__pairing_key_read, lt_l3_pairing_key_read
  <2>3. c.call.limit = 36 + 18
      BY <2>1, LimitOf, LayoutFields
         DEF lt_pairing_key_read, lt_l3_pairing_key_read, Call
  <2>4. ChipSizes(a) = {36}
      BY <1>3, <2>1, ChipSizesAre, LayoutFields DEF lt_l3_pairing_key_read, c
  <2>5. ASSUME NEW r, r.size = 36
        PROVE  L3Command(a, r, slot_size).in.session = "ON"
      BY <1>3, <2>5, PairingKeyRead, ExactStays, LayoutFields
         DEF lt_in__pairing_key_read, lt_l3_pairing_key_read, Exact
  <2>6. 3 \in Nat /\ 3 <= 4112
      BY <1>0
  <2>7. \A n \in ChipSizes(a) : n \in Nat /\ n + 18 <= c.call.limit
      BY <2>3, <2>4, <2>6
  <2>8. \A n \in ChipSizes(a) : \A r :
           r.size = n => L3Command(a, r, slot_size).in.session = "ON"
      BY <2>4, <2>5
  <2>9. QED
      BY <1>0, <1>a, <1>3, <2>2, <2>6, <2>7, <2>8, AgreeFrom
<1>4. CASE a.cmd = "pairing_key_invalidate"
  <2>1. /\ c.struct = lt_l3_pairing_key_invalidate
        /\ c.call = lt_pairing_key_invalidate(a)
        /\ c.out = lt_out__pairing_key_invalidate(a)
      BY <1>4, PairingKeyInvalidate DEF c
  <2>2. /\ c.out.cmd_size = 3 /\ c.out.filled = 3
        /\ c.struct.cmd_fields = 3 /\ c.struct.cmd_data = 0
      BY <2>1, FillFields, LayoutFields
         DEF lt_out__pairing_key_invalidate, lt_l3_pairing_key_invalidate
  <2>3. c.call.limit = 1 + 18
      BY <2>1, LimitOf, LayoutFields
         DEF lt_pairing_key_invalidate, lt_l3_pairing_key_invalidate, Call
  <2>4. ChipSizes(a) = {1}
      BY <1>4, <2>1, ChipSizesAre, LayoutFields DEF lt_l3_pairing_key_invalidate, c
  <2>5. ASSUME NEW r, r.size = 1
        PROVE  L3Command(a, r, slot_size).in.session = "ON"
      BY <1>4, <2>5, PairingKeyInvalidate, ExactStays, LayoutFields
         DEF lt_in__pairing_key_invalidate, lt_l3_pairing_key_invalidate, Exact
  <2>6. 3 \in Nat /\ 3 <= 4112
      BY <1>0
  <2>7. \A n \in ChipSizes(a) : n \in Nat /\ n + 18 <= c.call.limit
      BY <2>3, <2>4, <2>6
  <2>8. \A n \in ChipSizes(a) : \A r :
           r.size = n => L3Command(a, r, slot_size).in.session = "ON"
      BY <2>4, <2>5
  <2>9. QED
      BY <1>0, <1>a, <1>4, <2>2, <2>6, <2>7, <2>8, AgreeFrom
<1>5. CASE a.cmd = "r_config_write"
  <2>1. /\ c.struct = lt_l3_r_config_write
        /\ c.call = lt_r_config_write(a)
        /\ c.out = lt_out__r_config_write(a)
      BY <1>5, RConfigWrite DEF c
  <2>2. /\ c.out.cmd_size = 8 /\ c.out.filled = 8
        /\ c.struct.cmd_fields = 4 /\ c.struct.cmd_data = 4
      BY <2>1, FillFields, LayoutFields DEF lt_out__r_config_write, lt_l3_r_config_write
  <2>3. c.call.limit = 1 + 18
      BY <2>1, LimitOf, LayoutFields DEF lt_r_config_write, lt_l3_r_config_write, Call
  <2>4. ChipSizes(a) = {1}
      BY <1>5, <2>1, ChipSizesAre, LayoutFields DEF lt_l3_r_config_write, c
  <2>5. ASSUME NEW r, r.size = 1
        PROVE  L3Command(a, r, slot_size).in.session = "ON"
      BY <1>5, <2>5, RConfigWrite, ExactStays, LayoutFields
         DEF lt_in__r_config_write, lt_l3_r_config_write, Exact
  <2>6. 8 \in Nat /\ 8 <= 4112
      BY <1>0
  <2>7. \A n \in ChipSizes(a) : n \in Nat /\ n + 18 <= c.call.limit
      BY <2>3, <2>4, <2>6
  <2>8. \A n \in ChipSizes(a) : \A r :
           r.size = n => L3Command(a, r, slot_size).in.session = "ON"
      BY <2>4, <2>5
  <2>9. QED
      BY <1>0, <1>a, <1>5, <2>2, <2>6, <2>7, <2>8, AgreeFrom
<1>6. CASE a.cmd = "r_config_read"
  <2>1. /\ c.struct = lt_l3_r_config_read
        /\ c.call = lt_r_config_read(a)
        /\ c.out = lt_out__r_config_read(a)
      BY <1>6, RConfigRead DEF c
  <2>2. /\ c.out.cmd_size = 3 /\ c.out.filled = 3
        /\ c.struct.cmd_fields = 3 /\ c.struct.cmd_data = 0
      BY <2>1, FillFields, LayoutFields DEF lt_out__r_config_read, lt_l3_r_config_read
  <2>3. c.call.limit = 8 + 18
      BY <2>1, LimitOf, LayoutFields DEF lt_r_config_read, lt_l3_r_config_read, Call
  <2>4. ChipSizes(a) = {8}
      BY <1>6, <2>1, ChipSizesAre, LayoutFields DEF lt_l3_r_config_read, c
  <2>5. ASSUME NEW r, r.size = 8
        PROVE  L3Command(a, r, slot_size).in.session = "ON"
      BY <1>6, <2>5, RConfigRead, ExactStays, LayoutFields
         DEF lt_in__r_config_read, lt_l3_r_config_read, Exact
  <2>6. 3 \in Nat /\ 3 <= 4112
      BY <1>0
  <2>7. \A n \in ChipSizes(a) : n \in Nat /\ n + 18 <= c.call.limit
      BY <2>3, <2>4, <2>6
  <2>8. \A n \in ChipSizes(a) : \A r :
           r.size = n => L3Command(a, r, slot_size).in.session = "ON"
      BY <2>4, <2>5
  <2>9. QED
      BY <1>0, <1>a, <1>6, <2>2, <2>6, <2>7, <2>8, AgreeFrom
<1>7. CASE a.cmd = "r_config_erase"
  <2>1. /\ c.struct = lt_l3_r_config_erase
        /\ c.call = lt_r_config_erase(a)
        /\ c.out = lt_out__r_config_erase(a)
      BY <1>7, RConfigErase DEF c
  <2>2. /\ c.out.cmd_size = 1 /\ c.out.filled = 1
        /\ c.struct.cmd_fields = 1 /\ c.struct.cmd_data = 0
      BY <2>1, FillFields, LayoutFields DEF lt_out__r_config_erase, lt_l3_r_config_erase
  <2>3. c.call.limit = 1 + 18
      BY <2>1, LimitOf, LayoutFields DEF lt_r_config_erase, lt_l3_r_config_erase, Call
  <2>4. ChipSizes(a) = {1}
      BY <1>7, <2>1, ChipSizesAre, LayoutFields DEF lt_l3_r_config_erase, c
  <2>5. ASSUME NEW r, r.size = 1
        PROVE  L3Command(a, r, slot_size).in.session = "ON"
      BY <1>7, <2>5, RConfigErase, ExactStays, LayoutFields
         DEF lt_in__r_config_erase, lt_l3_r_config_erase, Exact
  <2>6. 1 \in Nat /\ 1 <= 4112
      BY <1>0
  <2>7. \A n \in ChipSizes(a) : n \in Nat /\ n + 18 <= c.call.limit
      BY <2>3, <2>4, <2>6
  <2>8. \A n \in ChipSizes(a) : \A r :
           r.size = n => L3Command(a, r, slot_size).in.session = "ON"
      BY <2>4, <2>5
  <2>9. QED
      BY <1>0, <1>a, <1>7, <2>2, <2>6, <2>7, <2>8, AgreeFrom
<1>8. CASE a.cmd = "i_config_write"
  <2>1. /\ c.struct = lt_l3_i_config_write
        /\ c.call = lt_i_config_write(a)
        /\ c.out = lt_out__i_config_write(a)
      BY <1>8, IConfigWrite DEF c
  <2>2. /\ c.out.cmd_size = 4 /\ c.out.filled = 4
        /\ c.struct.cmd_fields = 4 /\ c.struct.cmd_data = 0
      BY <2>1, FillFields, LayoutFields DEF lt_out__i_config_write, lt_l3_i_config_write
  <2>3. c.call.limit = 1 + 18
      BY <2>1, LimitOf, LayoutFields DEF lt_i_config_write, lt_l3_i_config_write, Call
  <2>4. ChipSizes(a) = {1}
      BY <1>8, <2>1, ChipSizesAre, LayoutFields DEF lt_l3_i_config_write, c
  <2>5. ASSUME NEW r, r.size = 1
        PROVE  L3Command(a, r, slot_size).in.session = "ON"
      BY <1>8, <2>5, IConfigWrite, ExactStays, LayoutFields
         DEF lt_in__i_config_write, lt_l3_i_config_write, Exact
  <2>6. 4 \in Nat /\ 4 <= 4112
      BY <1>0
  <2>7. \A n \in ChipSizes(a) : n \in Nat /\ n + 18 <= c.call.limit
      BY <2>3, <2>4, <2>6
  <2>8. \A n \in ChipSizes(a) : \A r :
           r.size = n => L3Command(a, r, slot_size).in.session = "ON"
      BY <2>4, <2>5
  <2>9. QED
      BY <1>0, <1>a, <1>8, <2>2, <2>6, <2>7, <2>8, AgreeFrom
<1>9. CASE a.cmd = "i_config_read"
  <2>1. /\ c.struct = lt_l3_i_config_read
        /\ c.call = lt_i_config_read(a)
        /\ c.out = lt_out__i_config_read(a)
      BY <1>9, IConfigRead DEF c
  <2>2. /\ c.out.cmd_size = 3 /\ c.out.filled = 3
        /\ c.struct.cmd_fields = 3 /\ c.struct.cmd_data = 0
      BY <2>1, FillFields, LayoutFields DEF lt_out__i_config_read, lt_l3_i_config_read
  <2>3. c.call.limit = 8 + 18
      BY <2>1, LimitOf, LayoutFields DEF lt_i_config_read, lt_l3_i_config_read, Call
  <2>4. ChipSizes(a) = {8}
      BY <1>9, <2>1, ChipSizesAre, LayoutFields DEF lt_l3_i_config_read, c
  <2>5. ASSUME NEW r, r.size = 8
        PROVE  L3Command(a, r, slot_size).in.session = "ON"
      BY <1>9, <2>5, IConfigRead, ExactStays, LayoutFields
         DEF lt_in__i_config_read, lt_l3_i_config_read, Exact
  <2>6. 3 \in Nat /\ 3 <= 4112
      BY <1>0
  <2>7. \A n \in ChipSizes(a) : n \in Nat /\ n + 18 <= c.call.limit
      BY <2>3, <2>4, <2>6
  <2>8. \A n \in ChipSizes(a) : \A r :
           r.size = n => L3Command(a, r, slot_size).in.session = "ON"
      BY <2>4, <2>5
  <2>9. QED
      BY <1>0, <1>a, <1>9, <2>2, <2>6, <2>7, <2>8, AgreeFrom
<1>10. CASE a.cmd = "r_mem_data_write"
  <2>1. /\ c.struct = lt_l3_r_mem_data_write
        /\ c.call = lt_r_mem_data_write(a, slot_size)
        /\ c.out = lt_out__r_mem_data_write(a, slot_size)
      BY <1>10, RMemDataWrite DEF c
  <2> DEFINE valid == a.slot \in UdataSlots /\ a.n \in TR01_R_MEM_DATA_SIZE_MIN..slot_size
  <2>o. c.out = FillData(valid, a.n + 4, lt_l3_r_mem_data_write, a.n)
      BY <2>1 DEF lt_out__r_mem_data_write
  <2> HIDE DEF valid
  <2>f. /\ valid /\ c.out.cmd_size = a.n + 4
        /\ c.out.filled = lt_l3_r_mem_data_write.cmd_fields + a.n
      BY <1>a, <2>o, FillDataFields
  <2>0. a.n <= 475
      BY <1>0, <2>f DEF valid, TR01_R_MEM_DATA_SIZE_MIN
  <2>2. /\ c.out.cmd_size = 4 + a.n /\ c.out.filled = 4 + a.n
        /\ c.struct.cmd_fields = 4 /\ c.struct.cmd_data = 475
      BY <1>0, <2>1, <2>f, LayoutFields DEF lt_l3_r_mem_data_write
  <2>3. c.call.limit = 1 + 18
      BY <2>1, LimitOf, LayoutFields
         DEF lt_r_mem_data_write, lt_l3_r_mem_data_write, Call
  <2>4. ChipSizes(a) = {1}
      BY <1>10, <2>1, ChipSizesAre, LayoutFields DEF lt_l3_r_mem_data_write, c
  <2>5. ASSUME NEW r, r.size = 1
        PROVE  L3Command(a, r, slot_size).in.session = "ON"
      BY <1>10, <2>5, RMemDataWrite, DecodedFields, LayoutFields
         DEF lt_in__r_mem_data_write, lt_l3_r_mem_data_write
  <2>6. 4 + a.n \in Nat /\ 4 + a.n <= 4112
      BY <1>0, <2>0
  <2>7. \A n \in ChipSizes(a) : n \in Nat /\ n + 18 <= c.call.limit
      BY <2>3, <2>4, <2>6
  <2>8. \A n \in ChipSizes(a) : \A r :
           r.size = n => L3Command(a, r, slot_size).in.session = "ON"
      BY <2>4, <2>5
  <2>9. QED
      BY <1>0, <1>a, <1>10, <2>2, <2>6, <2>7, <2>8, AgreeFrom, <2>0
<1>11. CASE a.cmd = "r_mem_data_read"
  <2>1. /\ c.struct = lt_l3_r_mem_data_read
        /\ c.call = lt_r_mem_data_read(a, slot_size)
        /\ c.out = lt_out__r_mem_data_read(a)
      BY <1>11, RMemDataRead DEF c
  <2>2. /\ c.out.cmd_size = 3 /\ c.out.filled = 3
        /\ c.struct.cmd_fields = 3 /\ c.struct.cmd_data = 0
      BY <2>1, FillFields, LayoutFields
         DEF lt_out__r_mem_data_read, lt_l3_r_mem_data_read
  <2>3. c.call.limit = (1 + (3 + slot_size)) + 18
      BY <1>0, <2>1, LimitOf DEF lt_r_mem_data_read
  <2>4. ChipSizes(a) = 4..(4 + slot_size)
      BY <1>11, ChipSizesAre
  <2>5. ASSUME NEW n \in 4..(4 + slot_size), NEW curve
        PROVE  L3Command(a, [result |-> "OK", size |-> n, curve |-> curve],
                         slot_size).in.session = "ON"
    <3> DEFINE r == [result |-> "OK", size |-> n, curve |-> curve]
    <3>1. r.size = n
        BY ResultFields
    <3> HIDE DEF r
    <3>2. L3Command(a, r, slot_size).in = lt_in__r_mem_data_read(a, r, slot_size)
        BY <1>11, RMemDataRead
    <3>3. ~(n > 1 + slot_size + 3)
        BY <1>0
    <3>4. \E ret_, copied : lt_in__r_mem_data_read(a, r, slot_size) = Decoded(ret_, copied)
        BY <3>1, <3>3 DEF lt_in__r_mem_data_read
    <3>5. QED
        BY <3>2, <3>4, DecodedFields DEF r
  <2>6. \A n \in 4..(4 + slot_size) : PacketSize(n) <= (1 + (3 + slot_size)) + 18
      BY <1>0 DEF PacketSize, TR01_L3_SIZE_SIZE, TR01_L3_TAG_SIZE
  <2>7. PacketSize(3) <= LT_SIZE_OF_L3_BUFF
      BY DEF PacketSize, TR01_L3_SIZE_SIZE, TR01_L3_TAG_SIZE, LT_SIZE_OF_L3_BUFF,
             TR01_L3_CMD_CIPHERTEXT_MAX_SIZE
  <2>8. QED
      BY <1>a, <1>11, <2>2, <2>3, <2>4, <2>5, <2>6, <2>7 DEF Agree
<1>12. CASE a.cmd = "r_mem_data_erase"
  <2>1. /\ c.struct = lt_l3_r_mem_data_erase
        /\ c.call = lt_r_mem_data_erase(a)
        /\ c.out = lt_out__r_mem_data_erase(a)
      BY <1>12, RMemDataErase DEF c
  <2>2. /\ c.out.cmd_size = 3 /\ c.out.filled = 3
        /\ c.struct.cmd_fields = 3 /\ c.struct.cmd_data = 0
      BY <2>1, FillFields, LayoutFields
         DEF lt_out__r_mem_data_erase, lt_l3_r_mem_data_erase
  <2>3. c.call.limit = 1 + 18
      BY <2>1, LimitOf, LayoutFields
         DEF lt_r_mem_data_erase, lt_l3_r_mem_data_erase, Call
  <2>4. ChipSizes(a) = {1}
      BY <1>12, <2>1, ChipSizesAre, LayoutFields DEF lt_l3_r_mem_data_erase, c
  <2>5. ASSUME NEW r, r.size = 1
        PROVE  L3Command(a, r, slot_size).in.session = "ON"
      BY <1>12, <2>5, RMemDataErase, DecodedFields, LayoutFields
         DEF lt_in__r_mem_data_erase, lt_l3_r_mem_data_erase
  <2>6. 3 \in Nat /\ 3 <= 4112
      BY <1>0
  <2>7. \A n \in ChipSizes(a) : n \in Nat /\ n + 18 <= c.call.limit
      BY <2>3, <2>4, <2>6
  <2>8. \A n \in ChipSizes(a) : \A r :
           r.size = n => L3Command(a, r, slot_size).in.session = "ON"
      BY <2>4, <2>5
  <2>9. QED
      BY <1>0, <1>a, <1>12, <2>2, <2>6, <2>7, <2>8, AgreeFrom
<1>13. CASE a.cmd = "random_value_get"
  <2>1. /\ c.struct = lt_l3_random_value_get
        /\ c.call = lt_random_value_get(a)
        /\ c.out = lt_out__random_value_get(a)
      BY <1>13, RandomValueGet DEF c
  <2>2. /\ c.out.cmd_size = 2 /\ c.out.filled = 2
        /\ c.struct.cmd_fields = 2 /\ c.struct.cmd_data = 0
      BY <2>1, FillFields, LayoutFields
         DEF lt_out__random_value_get, lt_l3_random_value_get
  <2>3. c.call.limit = 259 + 18
      BY <2>1, LimitOf, LayoutFields
         DEF lt_random_value_get, lt_l3_random_value_get, Call
  <2>4. ChipSizes(a) = {4 + a.n}
      BY <1>13, ChipSizesAre
  <2>5. ASSUME NEW r, r.size = 4 + a.n
        PROVE  L3Command(a, r, slot_size).in.session = "ON"
      BY <1>13, <2>5, RandomValueGet, ExactStays DEF lt_in__random_value_get
  <2>6. 4 + a.n \in Nat /\ 4 + a.n <= 259
      BY <1>0, <1>13
  <2>7. \A n \in ChipSizes(a) : n \in Nat /\ n + 18 <= c.call.limit
      BY <2>3, <2>4, <2>6
  <2>8. \A n \in ChipSizes(a) : \A r :
           r.size = n => L3Command(a, r, slot_size).in.session = "ON"
      BY <2>4, <2>5
  <2>9. QED
      BY <1>0, <1>a, <1>13, <2>2, <2>6, <2>7, <2>8, AgreeFrom
<1>14. CASE a.cmd = "ecc_key_generate"
  <2>1. /\ c.struct = lt_l3_ecc_key_generate
        /\ c.call = lt_ecc_key_generate(a)
        /\ c.out = lt_out__ecc_key_generate(a)
      BY <1>14, EccKeyGenerate DEF c
  <2>2. /\ c.out.cmd_size = 4 /\ c.out.filled = 4
        /\ c.struct.cmd_fields = 4 /\ c.struct.cmd_data = 0
      BY <2>1, FillFields, LayoutFields
         DEF lt_out__ecc_key_generate, lt_l3_ecc_key_generate
  <2>3. c.call.limit = 1 + 18
      BY <2>1, LimitOf, LayoutFields
         DEF lt_ecc_key_generate, lt_l3_ecc_key_generate, Call
  <2>4. ChipSizes(a) = {1}
      BY <1>14, <2>1, ChipSizesAre, LayoutFields DEF lt_l3_ecc_key_generate, c
  <2>5. ASSUME NEW r, r.size = 1
        PROVE  L3Command(a, r, slot_size).in.session = "ON"
      BY <1>14, <2>5, EccKeyGenerate, ExactStays, LayoutFields
         DEF lt_in__ecc_key_generate, lt_l3_ecc_key_generate, Exact
  <2>6. 4 \in Nat /\ 4 <= 4112
      BY <1>0
  <2>7. \A n \in ChipSizes(a) : n \in Nat /\ n + 18 <= c.call.limit
      BY <2>3, <2>4, <2>6
  <2>8. \A n \in ChipSizes(a) : \A r :
           r.size = n => L3Command(a, r, slot_size).in.session = "ON"
      BY <2>4, <2>5
  <2>9. QED
      BY <1>0, <1>a, <1>14, <2>2, <2>6, <2>7, <2>8, AgreeFrom
<1>15. CASE a.cmd = "ecc_key_store"
  <2>1. /\ c.struct = lt_l3_ecc_key_store
        /\ c.call = lt_ecc_key_store(a)
        /\ c.out = lt_out__ecc_key_store(a)
      BY <1>15, EccKeyStore DEF c
  <2>2. /\ c.out.cmd_size = 48 /\ c.out.filled = 48
        /\ c.struct.cmd_fields = 16 /\ c.struct.cmd_data = 32
      BY <2>1, FillFields, LayoutFields DEF lt_out__ecc_key_store, lt_l3_ecc_key_store
  <2>3. c.call.limit = 1 + 18
      BY <2>1, LimitOf, LayoutFields DEF lt_ecc_key_store, lt_l3_ecc_key_store, Call
  <2>4. ChipSizes(a) = {1}
      BY <1>15, <2>1, ChipSizesAre, LayoutFields DEF lt_l3_ecc_key_store, c
  <2>5. ASSUME NEW r, r.size = 1
        PROVE  L3Command(a, r, slot_size).in.session = "ON"
      BY <1>15, <2>5, EccKeyStore, ExactStays, LayoutFields
         DEF lt_in__ecc_key_store, lt_l3_ecc_key_store, Exact
  <2>6. 48 \in Nat /\ 48 <= 4112
      BY <1>0
  <2>7. \A n \in ChipSizes(a) : n \in Nat /\ n + 18 <= c.call.limit
      BY <2>3, <2>4, <2>6
  <2>8. \A n \in ChipSizes(a) : \A r :
           r.size = n => L3Command(a, r, slot_size).in.session = "ON"
      BY <2>4, <2>5
  <2>9. QED
      BY <1>0, <1>a, <1>15, <2>2, <2>6, <2>7, <2>8, AgreeFrom
<1>16. CASE a.cmd = "ecc_key_read"
  <2>1. /\ c.struct = lt_l3_ecc_key_read
        /\ c.call = lt_ecc_key_read(a)
        /\ c.out = lt_out__ecc_key_read(a)
      BY <1>16, EccKeyRead DEF c
  <2>2. /\ c.out.cmd_size = 3 /\ c.out.filled = 3
        /\ c.struct.cmd_fields = 3 /\ c.struct.cmd_data = 0
      BY <2>1, FillFields, LayoutFields DEF lt_out__ecc_key_read, lt_l3_ecc_key_read
  <2>3. c.call.limit = 80 + 18
      BY <2>1, LimitOf, LayoutFields DEF lt_ecc_key_read, lt_l3_ecc_key_read, Call
  <2>4. ChipSizes(a) = {48, 80}
      BY <1>16, ChipSizesAre
  <2>5. ASSUME NEW n, NEW curve \in Curves, n = 16 + PubKeyLen(curve)
        PROVE  L3Command(a, [result |-> "OK", size |-> n, curve |-> curve],
                         slot_size).in.session = "ON"
    <3> DEFINE r == [result |-> "OK", size |-> n, curve |-> curve]
    <3>1. r.size = n /\ r.curve = curve
        BY ResultFields
    <3> HIDE DEF r
    <3>2. L3Command(a, r, slot_size).in = lt_in__ecc_key_read(a, r)
        BY <1>16, EccKeyRead
    <3>3. /\ lt_l3_ecc_key_read.res_fields = 16
          /\ PubKeyLen(curve) \in Nat /\ n - 16 = PubKeyLen(curve)
        BY <2>5, LayoutFields DEF lt_l3_ecc_key_read, PubKeyLen
    <3>4. \/ lt_in__ecc_key_read(a, r) = Decoded("LT_PARAM_ERR", 0)
          \/ lt_in__ecc_key_read(a, r) = Decoded("LT_OK", PubKeyLen(curve))
        BY <3>1, <3>3 DEF lt_in__ecc_key_read
    <3>5. QED
        BY <3>2, <3>4, DecodedFields DEF r
  <2>6. \A n \in {48, 80} : PacketSize(n) <= 80 + 18
      BY DEF PacketSize, TR01_L3_SIZE_SIZE, TR01_L3_TAG_SIZE
  <2>7. PacketSize(3) <= LT_SIZE_OF_L3_BUFF
      BY DEF PacketSize, TR01_L3_SIZE_SIZE, TR01_L3_TAG_SIZE, LT_SIZE_OF_L3_BUFF,
             TR01_L3_CMD_CIPHERTEXT_MAX_SIZE
  <2>8. QED
      BY <1>a, <1>16, <2>2, <2>3, <2>4, <2>5, <2>6, <2>7 DEF Agree
<1>17. CASE a.cmd = "ecc_key_erase"
  <2>1. /\ c.struct = lt_l3_ecc_key_erase
        /\ c.call = lt_ecc_key_erase(a)
        /\ c.out = lt_out__ecc_key_erase(a)
      BY <1>17, EccKeyErase DEF c
  <2>2. /\ c.out.cmd_size = 3 /\ c.out.filled = 3
        /\ c.struct.cmd_fields = 3 /\ c.struct.cmd_data = 0
      BY <2>1, FillFields, LayoutFields DEF lt_out__ecc_key_erase, lt_l3_ecc_key_erase
  <2>3. c.call.limit = 1 + 18
      BY <2>1, LimitOf, LayoutFields DEF lt_ecc_key_erase, lt_l3_ecc_key_erase, Call
  <2>4. ChipSizes(a) = {1}
      BY <1>17, <2>1, ChipSizesAre, LayoutFields DEF lt_l3_ecc_key_erase, c
  <2>5. ASSUME NEW r, r.size = 1
        PROVE  L3Command(a, r, slot_size).in.session = "ON"
      BY <1>17, <2>5, EccKeyErase, ExactStays, LayoutFields
         DEF lt_in__ecc_key_erase, lt_l3_ecc_key_erase, Exact
  <2>6. 3 \in Nat /\ 3 <= 4112
      BY <1>0
  <2>7. \A n \in ChipSizes(a) : n \in Nat /\ n + 18 <= c.call.limit
      BY <2>3, <2>4, <2>6
  <2>8. \A n \in ChipSizes(a) : \A r :
           r.size = n => L3Command(a, r, slot_size).in.session = "ON"
      BY <2>4, <2>5
  <2>9. QED
      BY <1>0, <1>a, <1>17, <2>2, <2>6, <2>7, <2>8, AgreeFrom
<1>18. CASE a.cmd = "ecc_ecdsa_sign"
  <2>1. /\ c.struct = lt_l3_ecdsa_sign
        /\ c.call = lt_ecc_ecdsa_sign(a)
        /\ c.out = lt_out__ecc_ecdsa_sign(a)
      BY <1>18, EccEcdsaSign DEF c
  <2>2. /\ c.out.cmd_size = 48 /\ c.out.filled = 48
        /\ c.struct.cmd_fields = 16 /\ c.struct.cmd_data = 32
      BY <2>1, FillFields, LayoutFields DEF lt_out__ecc_ecdsa_sign, lt_l3_ecdsa_sign
  <2>3. c.call.limit = 80 + 18
      BY <2>1, LimitOf, LayoutFields DEF lt_ecc_ecdsa_sign, lt_l3_ecdsa_sign, Call
  <2>4. ChipSizes(a) = {80}
      BY <1>18, <2>1, ChipSizesAre, LayoutFields DEF lt_l3_ecdsa_sign, c
  <2>5. ASSUME NEW r, r.size = 80
        PROVE  L3Command(a, r, slot_size).in.session = "ON"
      BY <1>18, <2>5, EccEcdsaSign, ExactStays, LayoutFields
         DEF lt_in__ecc_ecdsa_sign, lt_l3_ecdsa_sign, Exact
  <2>6. 48 \in Nat /\ 48 <= 4112
      BY <1>0
  <2>7. \A n \in ChipSizes(a) : n \in Nat /\ n + 18 <= c.call.limit
      BY <2>3, <2>4, <2>6
  <2>8. \A n \in ChipSizes(a) : \A r :
           r.size = n => L3Command(a, r, slot_size).in.session = "ON"
      BY <2>4, <2>5
  <2>9. QED
      BY <1>0, <1>a, <1>18, <2>2, <2>6, <2>7, <2>8, AgreeFrom
<1>19. CASE a.cmd = "ecc_eddsa_sign"
  <2>1. /\ c.struct = lt_l3_eddsa_sign
        /\ c.call = lt_ecc_eddsa_sign(a)
        /\ c.out = lt_out__ecc_eddsa_sign(a)
      BY <1>19, EccEddsaSign DEF c
  <2> DEFINE valid == a.slot \in EccSlots /\ a.n <= TR01_L3_EDDSA_SIGN_CMD_MSG_LEN_MAX
  <2>o. c.out = FillData(valid, lt_l3_eddsa_sign.CMD_SIZE + a.n, lt_l3_eddsa_sign, a.n)
      BY <2>1 DEF lt_out__ecc_eddsa_sign
  <2> HIDE DEF valid
  <2>f. /\ valid /\ c.out.cmd_size = lt_l3_eddsa_sign.CMD_SIZE + a.n
        /\ c.out.filled = lt_l3_eddsa_sign.cmd_fields + a.n
      BY <1>a, <2>o, FillDataFields
  <2>0. a.n <= 4096
      BY <1>0, <2>f DEF valid, TR01_L3_EDDSA_SIGN_CMD_MSG_LEN_MAX
  <2>2. /\ c.out.cmd_size = 16 + a.n /\ c.out.filled = 16 + a.n
        /\ c.struct.cmd_fields = 16 /\ c.struct.cmd_data = 4096
      BY <1>0, <2>1, <2>f, LayoutFields DEF lt_l3_eddsa_sign
  <2>3. c.call.limit = 80 + 18
      BY <2>1, LimitOf, LayoutFields DEF lt_ecc_eddsa_sign, lt_l3_eddsa_sign, Call
  <2>4. ChipSizes(a) = {80}
      BY <1>19, <2>1, ChipSizesAre, LayoutFields DEF lt_l3_eddsa_sign, c
  <2>5. ASSUME NEW r, r.size = 80
        PROVE  L3Command(a, r, slot_size).in.session = "ON"
      BY <1>19, <2>5, EccEddsaSign, ExactStays, LayoutFields
         DEF lt_in__ecc_eddsa_sign, lt_l3_eddsa_sign, Exact
  <2>6. 16 + a.n \in Nat /\ 16 + a.n <= 4112
      BY <1>0, <2>0
  <2>7. \A n \in ChipSizes(a) : n \in Nat /\ n + 18 <= c.call.limit
      BY <2>3, <2>4, <2>6
  <2>8. \A n \in ChipSizes(a) : \A r :
           r.size = n => L3Command(a, r, slot_size).in.session = "ON"
      BY <2>4, <2>5
  <2>9. QED
      BY <1>0, <1>a, <1>19, <2>2, <2>6, <2>7, <2>8, AgreeFrom
<1>20. CASE a.cmd = "mcounter_init"
  <2>1. /\ c.struct = lt_l3_mcounter_init
        /\ c.call = lt_mcounter_init(a)
        /\ c.out = lt_out__mcounter_init(a)
      BY <1>20, McounterInit DEF c
  <2>2. /\ c.out.cmd_size = 8 /\ c.out.filled = 8
        /\ c.struct.cmd_fields = 4 /\ c.struct.cmd_data = 4
      BY <2>1, FillFields, LayoutFields DEF lt_out__mcounter_init, lt_l3_mcounter_init
  <2>3. c.call.limit = 1 + 18
      BY <2>1, LimitOf, LayoutFields DEF lt_mcounter_init, lt_l3_mcounter_init, Call
  <2>4. ChipSizes(a) = {1}
      BY <1>20, <2>1, ChipSizesAre, LayoutFields DEF lt_l3_mcounter_init, c
  <2>5. ASSUME NEW r, r.size = 1
        PROVE  L3Command(a, r, slot_size).in.session = "ON"
      BY <1>20, <2>5, McounterInit, ExactStays, LayoutFields
         DEF lt_in__mcounter_init, lt_l3_mcounter_init, Exact
  <2>6. 8 \in Nat /\ 8 <= 4112
      BY <1>0
  <2>7. \A n \in ChipSizes(a) : n \in Nat /\ n + 18 <= c.call.limit
      BY <2>3, <2>4, <2>6
  <2>8. \A n \in ChipSizes(a) : \A r :
           r.size = n => L3Command(a, r, slot_size).in.session = "ON"
      BY <2>4, <2>5
  <2>9. QED
      BY <1>0, <1>a, <1>20, <2>2, <2>6, <2>7, <2>8, AgreeFrom
<1>21. CASE a.cmd = "mcounter_update"
  <2>1. /\ c.struct = lt_l3_mcounter_update
        /\ c.call = lt_mcounter_update(a)
        /\ c.out = lt_out__mcounter_update(a)
      BY <1>21, McounterUpdate DEF c
  <2>2. /\ c.out.cmd_size = 3 /\ c.out.filled = 3
        /\ c.struct.cmd_fields = 3 /\ c.struct.cmd_data = 0
      BY <2>1, FillFields, LayoutFields
         DEF lt_out__mcounter_update, lt_l3_mcounter_update
  <2>3. c.call.limit = 1 + 18
      BY <2>1, LimitOf, LayoutFields DEF lt_mcounter_update, lt_l3_mcounter_update, Call
  <2>4. ChipSizes(a) = {1}
      BY <1>21, <2>1, ChipSizesAre, LayoutFields DEF lt_l3_mcounter_update, c
  <2>5. ASSUME NEW r, r.size = 1
        PROVE  L3Command(a, r, slot_size).in.session = "ON"
      BY <1>21, <2>5, McounterUpdate, ExactStays, LayoutFields
         DEF lt_in__mcounter_update, lt_l3_mcounter_update, Exact
  <2>6. 3 \in Nat /\ 3 <= 4112
      BY <1>0
  <2>7. \A n \in ChipSizes(a) : n \in Nat /\ n + 18 <= c.call.limit
      BY <2>3, <2>4, <2>6
  <2>8. \A n \in ChipSizes(a) : \A r :
           r.size = n => L3Command(a, r, slot_size).in.session = "ON"
      BY <2>4, <2>5
  <2>9. QED
      BY <1>0, <1>a, <1>21, <2>2, <2>6, <2>7, <2>8, AgreeFrom
<1>22. CASE a.cmd = "mcounter_get"
  <2>1. /\ c.struct = lt_l3_mcounter_get
        /\ c.call = lt_mcounter_get(a)
        /\ c.out = lt_out__mcounter_get(a)
      BY <1>22, McounterGet DEF c
  <2>2. /\ c.out.cmd_size = 3 /\ c.out.filled = 3
        /\ c.struct.cmd_fields = 3 /\ c.struct.cmd_data = 0
      BY <2>1, FillFields, LayoutFields DEF lt_out__mcounter_get, lt_l3_mcounter_get
  <2>3. c.call.limit = 8 + 18
      BY <2>1, LimitOf, LayoutFields DEF lt_mcounter_get, lt_l3_mcounter_get, Call
  <2>4. ChipSizes(a) = {8}
      BY <1>22, <2>1, ChipSizesAre, LayoutFields DEF lt_l3_mcounter_get, c
  <2>5. ASSUME NEW r, r.size = 8
        PROVE  L3Command(a, r, slot_size).in.session = "ON"
      BY <1>22, <2>5, McounterGet, ExactStays, LayoutFields
         DEF lt_in__mcounter_get, lt_l3_mcounter_get, Exact
  <2>6. 3 \in Nat /\ 3 <= 4112
      BY <1>0
  <2>7. \A n \in ChipSizes(a) : n \in Nat /\ n + 18 <= c.call.limit
      BY <2>3, <2>4, <2>6
  <2>8. \A n \in ChipSizes(a) : \A r :
           r.size = n => L3Command(a, r, slot_size).in.session = "ON"
      BY <2>4, <2>5
  <2>9. QED
      BY <1>0, <1>a, <1>22, <2>2, <2>6, <2>7, <2>8, AgreeFrom
<1>23. CASE a.cmd = "mac_and_destroy"
  <2>1. /\ c.struct = lt_l3_mac_and_destroy
        /\ c.call = lt_mac_and_destroy(a)
        /\ c.out = lt_out__mac_and_destroy(a)
      BY <1>23, MacAndDestroy DEF c
  <2>2. /\ c.out.cmd_size = 36 /\ c.out.filled = 36
        /\ c.struct.cmd_fields = 4 /\ c.struct.cmd_data = 32
      BY <2>1, FillFields, LayoutFields
         DEF lt_out__mac_and_destroy, lt_l3_mac_and_destroy
  <2>3. c.call.limit = 36 + 18
      BY <2>1, LimitOf, LayoutFields DEF lt_mac_and_destroy, lt_l3_mac_and_destroy, Call
  <2>4. ChipSizes(a) = {36}
      BY <1>23, <2>1, ChipSizesAre, LayoutFields DEF lt_l3_mac_and_destroy, c
  <2>5. ASSUME NEW r, r.size = 36
        PROVE  L3Command(a, r, slot_size).in.session = "ON"
      BY <1>23, <2>5, MacAndDestroy, ExactStays, LayoutFields
         DEF lt_in__mac_and_destroy, lt_l3_mac_and_destroy, Exact
  <2>6. 36 \in Nat /\ 36 <= 4112
      BY <1>0
  <2>7. \A n \in ChipSizes(a) : n \in Nat /\ n + 18 <= c.call.limit
      BY <2>3, <2>4, <2>6
  <2>8. \A n \in ChipSizes(a) : \A r :
           r.size = n => L3Command(a, r, slot_size).in.session = "ON"
      BY <2>4, <2>5
  <2>9. QED
      BY <1>0, <1>a, <1>23, <2>2, <2>6, <2>7, <2>8, AgreeFrom
<1>24. QED
    BY <1>0, <1>1, <1>2, <1>3, <1>4, <1>5, <1>6, <1>7, <1>8, <1>9, <1>10,
       <1>11, <1>12, <1>13, <1>14, <1>15, <1>16, <1>17, <1>18, <1>19, <1>20,
       <1>21, <1>22, <1>23 DEF Commands

-----------------------------------------------------------------------------
LEMMA OutputFields ==
    ASSUME NEW ret_, NEW copied, NEW data, NEW room, NEW o, o = Output(ret_, copied, data, room)
    PROVE  o.ret = ret_ /\ o.copied = copied /\ o.data = data /\ o.room = room
BY Zenon DEF Output

(* Nothing is no output.                                                     *)
LEMMA NothingOut == ASSUME NEW ret_, output' = Nothing(ret_) PROVE OutputIsResult'
BY OutputFields DEF Nothing, OutputIsResult

(* What is under way stays so while host and request do not change.          *)
LEMMA UnderWayStays ==
    ASSUME UnderWay, UNCHANGED <<request, slot_size, session_status>>,
           pc' \in {"out", "send", "receive"} => pc \in {"out", "send", "receive"}
    PROVE  UnderWay'
BY DEF UnderWay, Refused, Asked

(* A Result that is decoded leaves its data, or nothing, with the caller.    *)
LEMMA DecodesOut ==
    ASSUME CallsIInv, pc = "receive", NEW r \in Results, Decodes(r)
    PROVE  OutputIsResult'
<1> DEFINE command == L3Command(request, r, slot_size)
           d == lt_l3_decrypt_response(r, command.in)
           data == r.size - command.struct.res_fields
<1>1. request \in Requests /\ slot_size \in SlotSizes
    BY DEF CallsIInv, UnderWay
<1>2. Faithful(command.in, data, Room(request))
    BY <1>1, DecodeFaithful
<1>3. d = SizeError \/ d = command.in \/ d = Decoded("LT_L3_FAIL", 0)
    BY DEF lt_l3_decrypt_response
<1>4. Faithful(d, data, Room(request))
    BY <1>2, <1>3, DecodedFields, SizeErrorFields DEF Faithful
<1>5. output' = Output(d.ret, d.copied, data, Room(request))
    BY DEF Decodes
<1> HIDE DEF d, data
<1>6. QED
    BY <1>4, <1>5, OutputFields DEF OutputIsResult, Faithful

LEMMA L3InitCalls == L3Init => CallsIInv
<1> SUFFICES ASSUME L3Init PROVE CallsIInv
    OBVIOUS
<1>1. slot_size \in SlotSizes /\ UnderWay
    BY DEF L3Init, Init, UnderWay
<1>2. OutputIsResult
    BY OutputFields DEF L3Init, Nothing, OutputIsResult
<1>3. QED
    BY <1>1, <1>2 DEF CallsIInv

(* A step of a call that has no Result.                                      *)
LEMMA GoesCalls ==
    ASSUME CallsIInv, Goes, session_status' = session_status \/ pc' = "idle",
           pc' \in {"idle", "send", "receive"}, pc \in {"out", "send", "receive"}
    PROVE  CallsIInv'
<1>1. CASE pc' = "idle"
  <2>1. OutputIsResult'
      BY <1>1, NothingOut DEF Goes
  <2>2. QED
      BY <1>1, <2>1 DEF Goes, CallsIInv, UnderWay
<1>2. CASE pc' # "idle"
  <2>1. UnderWay'
      BY <1>2, UnderWayStays DEF Goes, CallsIInv
  <2>2. QED
      BY <1>2, <2>1 DEF Goes, CallsIInv, OutputIsResult
<1>3. QED
    BY <1>1, <1>2

(* Every step preserves the invariant of the calls.                          *)
LEMMA L3NextCalls == ASSUME CallsIInv, [L3Next]_l3vars PROVE CallsIInv'
<1>1. ASSUME NEW a \in Requests, LtRefused(a) PROVE CallsIInv'
  <2>1. OutputIsResult'
      BY <1>1, NothingOut DEF LtRefused
  <2>2. QED
      BY <1>1, <2>1 DEF LtRefused, vars, CallsIInv, UnderWay
<1>2. ASSUME NEW a \in Requests, LtCalled(a) PROVE CallsIInv'
  <2>1. OutputIsResult'
      BY <1>2, NothingOut DEF LtCalled
  <2>2. UnderWay'
      BY <1>2 DEF LtCalled, LtCommand, sessionVars, UnderWay, Refused, Asked
  <2>3. QED
      BY <1>2, <2>1, <2>2 DEF LtCalled, CallsIInv
<1>3. CASE L3Out
    BY <1>3, GoesCalls DEF L3Out, Out, Return
<1>4. CASE L3Send
    BY <1>4, GoesCalls DEF L3Send, Send, Return, sessionVars
<1>5. CASE L3Receive
  <2>1. pc = "receive" /\ pc' = "idle"
      BY <1>5 DEF L3Receive, Receive, Return
  <2>2. ASSUME NEW r \in Results, Decodes(r) PROVE CallsIInv'
    <3>1. OutputIsResult'
        BY <2>1, <2>2, DecodesOut
    <3>2. slot_size' = slot_size
        BY <2>2 DEF Decodes
    <3>3. QED
        BY <2>1, <3>1, <3>2 DEF CallsIInv, UnderWay
  <2>3. QED
      BY <1>5, <2>1, <2>2, GoesCalls DEF L3Receive
<1>6. ASSUME SessionStart \/ SessionStarted \/ SessionAbort \/ Reboot \/ Reinit \/ GetInfo,
             UNCHANGED callVars
      PROVE  CallsIInv'
  <2>1. pc' \in {"idle", "handshake"}
      BY <1>6 DEF SessionStart, SessionStarted, SessionAbort, Reboot, Reinit, GetInfo
  <2>2. QED
      BY <1>6, <2>1 DEF callVars, CallsIInv, UnderWay, OutputIsResult
<1>7. ASSUME Chip \/ UNCHANGED vars, UNCHANGED callVars PROVE CallsIInv'
  <2>1. UNCHANGED <<pc, session_status>>
      BY <1>7 DEF Chip, ChipHandshake, ChipExecutes, ChipRefuses, ChipEndsSession,
                  ChipReset, hostVars, vars, sessionVars
  <2>2. UnderWay'
      BY <1>7, <2>1, UnderWayStays DEF callVars, CallsIInv
  <2>3. QED
      BY <1>7, <2>2 DEF callVars, CallsIInv, OutputIsResult
<1>8. QED
    BY <1>1, <1>2, <1>3, <1>4, <1>5, <1>6, <1>7 DEF L3Next, l3vars

THEOREM CallsInductive == L3Spec => []CallsIInv
<1>1. CallsIInv /\ [L3Next]_l3vars => CallsIInv'
    BY L3NextCalls
<1>2. QED
    BY <1>1, L3InitCalls, PTL DEF L3Spec

(* LT_OK hands over exactly the data of the Result, within the caller's      *)
(* buffer (lt_in__X), for every request and whatever the chip says.          *)
THEOREM OutputIsResultHolds == L3Spec => []OutputIsResult
<1>1. CallsIInv => OutputIsResult
    BY DEF CallsIInv
<1>2. QED
    BY <1>1, CallsInductive, PTL

(* The checks and limits of every command agree with its layout, so that no  *)
(* honest Result is lost.                                                    *)
THEOREM ChecksAgreeHolds == L3Spec => []ChecksAgree
<1>1. CallsIInv /\ IInv => ChecksAgree
  <2> SUFFICES ASSUME CallsIInv, IInv, pc \in {"send", "receive"} PROVE Agree(request)
      BY DEF ChecksAgree
  <2>1. session_status = "ON"
      BY DEF IInv, HostProgress
  <2>2. request \in Requests /\ ~Refused(request) /\ slot_size \in SlotSizes
      BY DEF CallsIInv, UnderWay
  <2>3. QED
      BY <2>1, <2>2, RequestAgrees DEF Refused
<1>2. QED
    BY <1>1, CallsInductive, L3Implementation, InductiveInvariant, PTL

=============================================================================
