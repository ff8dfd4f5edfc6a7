----------------------------- MODULE L3Commands -----------------------------
(***************************************************************************)
(* The L3 Commands of libtropic, one by one: the layout of Command and     *)
(* Result (lt_l3_api_structs.h), what the function lt_X for the caller     *)
(* checks and how long a Result it receives (libtropic.c), how lt_out__X   *)
(* fills the Command and what lt_in__X makes of a Result that decrypted    *)
(* (libtropic_l3.c).  Sizes are in bytes; what the bytes hold is left out, *)
(* only how many there are, and who put them there, is kept.               *)
(*                                                                         *)
(* A request a is what a caller asks for: a.cmd; a.slot, the slot, counter *)
(* or configuration address; a.n, the length of the caller's data, the     *)
(* count asked for, or a value; a.curve; a.max, the room in the caller's   *)
(* buffer.  A Result r has r.result ("OK" or another result code), r.size  *)
(* (RES_SIZE) and r.curve.                                                 *)
(***************************************************************************)
EXTENDS Integers

CONSTANTS
    TR01_MCOUNTER_VALUE_MAX   \* the code has UINT32_MAX - 1

ASSUME MCounterAssumption == TR01_MCOUNTER_VALUE_MAX \in Nat

-----------------------------------------------------------------------------
TR01_L3_SIZE_SIZE == 2
TR01_L3_TAG_SIZE == 16
TR01_L3_CMD_CIPHERTEXT_MAX_SIZE == 4112
TR01_L3_RES_CIPHERTEXT_MAX_SIZE == 4097

\* A packet with n bytes of ciphertext: its size, the ciphertext, the tag.
PacketSize(n) == TR01_L3_SIZE_SIZE + n + TR01_L3_TAG_SIZE

\* The L3 buffer of a handle, for Commands and Results alike.
LT_SIZE_OF_L3_BUFF == PacketSize(TR01_L3_CMD_CIPHERTEXT_MAX_SIZE)

\* A Command and its Result as structs, less the two bytes of their size: the
\* fixed fields, then at most so many bytes of data.  CMD_SIZE and RES_SIZE are
\* the macros of these names; where these are ranges, the least CMD_SIZE and
\* the greatest RES_SIZE.
Layout(id, cmd_fields, cmd_data, CMD_SIZE, res_fields, res_data, RES_SIZE) ==
    [id |-> id,
     cmd_fields |-> cmd_fields, cmd_data |-> cmd_data, CMD_SIZE |-> CMD_SIZE,
     res_fields |-> res_fields, res_data |-> res_data, RES_SIZE |-> RES_SIZE]

lt_l3_ping == Layout(1, 1, 4096, 1, 1, 4096, 4097)
lt_l3_pairing_key_write == Layout(16, 4, 32, 36, 1, 0, 1)
lt_l3_pairing_key_read == Layout(17, 3, 0, 3, 4, 32, 36)
lt_l3_pairing_key_invalidate == Layout(18, 3, 0, 3, 1, 0, 1)
lt_l3_r_config_write == Layout(32, 4, 4, 8, 1, 0, 1)
lt_l3_r_config_read == Layout(33, 3, 0, 3, 4, 4, 8)
lt_l3_r_config_erase == Layout(34, 1, 0, 1, 1, 0, 1)
lt_l3_i_config_write == Layout(48, 4, 0, 4, 1, 0, 1)
lt_l3_i_config_read == Layout(49, 3, 0, 3, 4, 4, 8)
lt_l3_r_mem_data_write == Layout(64, 4, 475, 5, 1, 0, 1)
lt_l3_r_mem_data_read == Layout(65, 3, 0, 3, 4, 444, 4)
lt_l3_r_mem_data_erase == Layout(66, 3, 0, 3, 1, 0, 1)
lt_l3_random_value_get == Layout(80, 2, 0, 2, 4, 255, 259)
lt_l3_ecc_key_generate == Layout(96, 4, 0, 4, 1, 0, 1)
lt_l3_ecc_key_store == Layout(97, 16, 32, 48, 1, 0, 1)
lt_l3_ecc_key_read == Layout(98, 3, 0, 3, 16, 64, 80)
lt_l3_ecc_key_erase == Layout(99, 3, 0, 3, 1, 0, 1)
lt_l3_ecdsa_sign == Layout(112, 16, 32, 48, 16, 64, 80)
lt_l3_eddsa_sign == Layout(113, 16, 4096, 16, 16, 64, 80)
lt_l3_mcounter_init == Layout(128, 4, 4, 8, 1, 0, 1)
lt_l3_mcounter_update == Layout(129, 3, 0, 3, 1, 0, 1)
lt_l3_mcounter_get == Layout(130, 3, 0, 3, 4, 4, 8)
lt_l3_mac_and_destroy == Layout(144, 4, 32, 36, 4, 32, 36)

-----------------------------------------------------------------------------
\* What lt_X makes of its arguments: whether it takes them, and the
\* longest packet it will receive.
LimitedCall(valid, packet_size) ==
    [valid |-> valid,
     limit |-> IF packet_size < LT_SIZE_OF_L3_BUFF THEN packet_size
                                                   ELSE LT_SIZE_OF_L3_BUFF]

\* A mutant of Call: the packet's tag is forgotten.
CallWithoutTag(valid, struct) ==
    LimitedCall(valid, TR01_L3_SIZE_SIZE + struct.RES_SIZE)

Call(valid, struct) == LimitedCall(valid, PacketSize(struct.RES_SIZE))

\* What lt_out__X makes of them: whether it takes them, the CMD_SIZE
\* it sets, and how many bytes of the struct it fills: all, or the fixed
\* fields and n bytes of the caller's data.
Fill(valid, struct) ==
    [valid |-> valid, cmd_size |-> struct.CMD_SIZE,
     filled |-> struct.cmd_fields + struct.cmd_data]
FillData(valid, cmd_size, struct, n) ==
    [valid |-> valid, cmd_size |-> cmd_size, filled |-> struct.cmd_fields + n]

\* What lt_in__X returns, how many bytes it copies to the caller,
\* and whether the session stays.
Decoded(ret, copied) == [ret |-> ret, copied |-> copied, session |-> "ON"]
SizeError == [ret |-> "LT_L3_RES_SIZE_ERROR", copied |-> 0, session |-> "OFF"]

\* A mutant of ExactData: a Result shorter than expected is taken as well.
ExactDataOrLess(r, size, n) ==
    IF r.size <= size THEN Decoded("LT_OK", n) ELSE SizeError

\* The check of most of them: the Result has just this size.
ExactData(r, size, n) ==
    IF r.size = size THEN Decoded("LT_OK", n) ELSE SizeError
Exact(r, struct) == ExactData(r, struct.RES_SIZE, struct.res_data)

PairingSlots == 0..3
UdataSlots == 0..511
EccSlots == 0..31
CounterIndices == 0..15
MacSlots == 0..127
BitIndices == 0..31
P256 == 1
ED25519 == 2
Curves == {P256, ED25519}

\* lt_X leaves the arguments to lt_out__X, or nobody looks at them.
NoCheck == TRUE

TR01_PING_LEN_MAX == 4096
TR01_L3_EDDSA_SIGN_CMD_MSG_LEN_MAX == 4096
TR01_R_MEM_DATA_SIZE_MIN == 1

\* conf_addr_valid: the addresses of the configuration objects.
conf_addr_valid(addr) ==
    addr \in {0, 8, 16, 20, 24, 32, 36, 40, 48, 52, 64, 68, 256, 272, 276, 280, 288,
              304, 308, 312, 316, 320, 324, 336, 340, 344, 352}

lt_ping(a) == Call(a.n <= TR01_PING_LEN_MAX, lt_l3_ping)
lt_out__ping(a) ==
    FillData(a.n <= TR01_PING_LEN_MAX,
             lt_l3_ping.CMD_SIZE + a.n, lt_l3_ping, a.n)
lt_in__ping(a, r) == ExactData(r, 1 + a.n, a.n)

lt_pairing_key_write(a) == Call(a.slot \in PairingSlots, lt_l3_pairing_key_write)
lt_out__pairing_key_write(a) == Fill(a.slot \in PairingSlots, lt_l3_pairing_key_write)
lt_in__pairing_key_write(r) == Exact(r, lt_l3_pairing_key_write)

lt_pairing_key_read(a) == Call(a.slot \in PairingSlots, lt_l3_pairing_key_read)
lt_out__pairing_key_read(a) == Fill(a.slot \in PairingSlots, lt_l3_pairing_key_read)
lt_in__pairing_key_read(r) == Exact(r, lt_l3_pairing_key_read)

lt_pairing_key_invalidate(a) ==
    Call(a.slot \in PairingSlots, lt_l3_pairing_key_invalidate)
lt_out__pairing_key_invalidate(a) ==
    Fill(a.slot \in PairingSlots, lt_l3_pairing_key_invalidate)
lt_in__pairing_key_invalidate(r) == Exact(r, lt_l3_pairing_key_invalidate)

lt_r_config_write(a) == Call(NoCheck, lt_l3_r_config_write)
lt_out__r_config_write(a) == Fill(conf_addr_valid(a.slot), lt_l3_r_config_write)
lt_in__r_config_write(r) == Exact(r, lt_l3_r_config_write)

lt_r_config_read(a) == Call(NoCheck, lt_l3_r_config_read)
lt_out__r_config_read(a) == Fill(conf_addr_valid(a.slot), lt_l3_r_config_read)
lt_in__r_config_read(r) == Exact(r, lt_l3_r_config_read)

lt_r_config_erase(a) == Call(NoCheck, lt_l3_r_config_erase)
lt_out__r_config_erase(a) == Fill(NoCheck, lt_l3_r_config_erase)
lt_in__r_config_erase(r) == Exact(r, lt_l3_r_config_erase)

lt_i_config_write(a) == Call(a.n \in BitIndices, lt_l3_i_config_write)
lt_out__i_config_write(a) ==
    Fill(conf_addr_valid(a.slot) /\ a.n \in BitIndices, lt_l3_i_config_write)
lt_in__i_config_write(r) == Exact(r, lt_l3_i_config_write)

lt_i_config_read(a) == Call(NoCheck, lt_l3_i_config_read)
lt_out__i_config_read(a) == Fill(conf_addr_valid(a.slot), lt_l3_i_config_read)
lt_in__i_config_read(r) == Exact(r, lt_l3_i_config_read)

lt_r_mem_data_write(a, slot_size) ==
    Call(a.slot \in UdataSlots /\ a.n \in TR01_R_MEM_DATA_SIZE_MIN..slot_size,
         lt_l3_r_mem_data_write)
lt_out__r_mem_data_write(a, slot_size) ==
    FillData(a.slot \in UdataSlots /\ a.n \in TR01_R_MEM_DATA_SIZE_MIN..slot_size,
             a.n + 4, lt_l3_r_mem_data_write, a.n)
\* The result byte, which is 195 (OK) by now, is compared with 0 once more.
lt_in__r_mem_data_write(r) ==
    IF r.size = lt_l3_r_mem_data_write.RES_SIZE
    THEN Decoded("LT_L3_R_MEM_DATA_WRITE_FAILED", 0) ELSE SizeError

lt_r_mem_data_read(a, slot_size) ==
    LimitedCall(a.slot \in UdataSlots, PacketSize(1 + (3 + slot_size)))
lt_out__r_mem_data_read(a) == Fill(a.slot \in UdataSlots, lt_l3_r_mem_data_read)
\* data_read_size is a uint16_t: a Result of less than four bytes wraps.
lt_in__r_mem_data_read(a, r, slot_size) ==
    LET data_read_size == (r.size - lt_l3_r_mem_data_read.res_fields) % 65536 IN
    IF r.size > 1 + slot_size + 3 THEN SizeError
    ELSE IF data_read_size = 0 THEN Decoded("LT_L3_R_MEM_DATA_READ_SLOT_EMPTY", 0)
    ELSE IF a.max < data_read_size THEN Decoded("LT_PARAM_ERR", 0)
    ELSE Decoded("LT_OK", data_read_size)

lt_r_mem_data_erase(a) == Call(a.slot \in UdataSlots, lt_l3_r_mem_data_erase)
lt_out__r_mem_data_erase(a) == Fill(a.slot \in UdataSlots, lt_l3_r_mem_data_erase)
\* As above: every erase that was done is reported as failed.
lt_in__r_mem_data_erase(r) ==
    IF r.size = lt_l3_r_mem_data_erase.RES_SIZE
    THEN Decoded("LT_L3_R_MEM_DATA_ERASE_FAILED", 0) ELSE SizeError

lt_random_value_get(a) == Call(NoCheck, lt_l3_random_value_get)
lt_out__random_value_get(a) == Fill(NoCheck, lt_l3_random_value_get)
lt_in__random_value_get(a, r) == ExactData(r, 4 + a.n, a.n)

lt_ecc_key_generate(a) ==
    Call(a.slot \in EccSlots /\ a.curve \in Curves, lt_l3_ecc_key_generate)
lt_out__ecc_key_generate(a) ==
    Fill(a.slot \in EccSlots /\ a.curve \in Curves, lt_l3_ecc_key_generate)
lt_in__ecc_key_generate(r) == Exact(r, lt_l3_ecc_key_generate)

lt_ecc_key_store(a) ==
    Call(a.slot \in EccSlots /\ a.curve \in Curves, lt_l3_ecc_key_store)
lt_out__ecc_key_store(a) ==
    Fill(a.slot \in EccSlots /\ a.curve \in Curves, lt_l3_ecc_key_store)
lt_in__ecc_key_store(r) == Exact(r, lt_l3_ecc_key_store)

lt_ecc_key_read(a) == Call(a.slot \in EccSlots, lt_l3_ecc_key_read)
lt_out__ecc_key_read(a) == Fill(a.slot \in EccSlots, lt_l3_ecc_key_read)
\* The size must be that of the curve the Result names.
PubKeyLen(curve) == IF curve = ED25519 THEN 32 ELSE 64
lt_in__ecc_key_read(a, r) ==
    IF r.curve \notin Curves THEN Decoded("LT_FAIL", 0)
    ELSE IF r.size - lt_l3_ecc_key_read.res_fields # PubKeyLen(r.curve) THEN SizeError
    ELSE IF a.max < PubKeyLen(r.curve) THEN Decoded("LT_PARAM_ERR", 0)
    ELSE Decoded("LT_OK", PubKeyLen(r.curve))

lt_ecc_key_erase(a) == Call(a.slot \in EccSlots, lt_l3_ecc_key_erase)
lt_out__ecc_key_erase(a) == Fill(a.slot \in EccSlots, lt_l3_ecc_key_erase)
lt_in__ecc_key_erase(r) == Exact(r, lt_l3_ecc_key_erase)

lt_ecc_ecdsa_sign(a) == Call(a.slot \in EccSlots /\ a.n = 32, lt_l3_ecdsa_sign)
lt_out__ecc_ecdsa_sign(a) == Fill(a.slot \in EccSlots /\ a.n = 32, lt_l3_ecdsa_sign)
lt_in__ecc_ecdsa_sign(r) == Exact(r, lt_l3_ecdsa_sign)

lt_ecc_eddsa_sign(a) ==
    Call(a.slot \in EccSlots /\ a.n <= TR01_L3_EDDSA_SIGN_CMD_MSG_LEN_MAX, lt_l3_eddsa_sign)
lt_out__ecc_eddsa_sign(a) ==
    FillData(a.slot \in EccSlots /\ a.n <= TR01_L3_EDDSA_SIGN_CMD_MSG_LEN_MAX,
             lt_l3_eddsa_sign.CMD_SIZE + a.n, lt_l3_eddsa_sign, a.n)
lt_in__ecc_eddsa_sign(r) == Exact(r, lt_l3_eddsa_sign)

lt_mcounter_init(a) ==
    Call(a.slot \in CounterIndices /\ a.n <= TR01_MCOUNTER_VALUE_MAX, lt_l3_mcounter_init)
lt_out__mcounter_init(a) == Fill(a.slot \in CounterIndices, lt_l3_mcounter_init)
lt_in__mcounter_init(r) == Exact(r, lt_l3_mcounter_init)

lt_mcounter_update(a) == Call(a.slot \in CounterIndices, lt_l3_mcounter_update)
lt_out__mcounter_update(a) == Fill(a.slot \in CounterIndices, lt_l3_mcounter_update)
lt_in__mcounter_update(r) == Exact(r, lt_l3_mcounter_update)

lt_mcounter_get(a) == Call(a.slot \in CounterIndices, lt_l3_mcounter_get)
lt_out__mcounter_get(a) == Fill(a.slot \in CounterIndices, lt_l3_mcounter_get)
lt_in__mcounter_get(r) == Exact(r, lt_l3_mcounter_get)

lt_mac_and_destroy(a) == Call(a.slot \in MacSlots, lt_l3_mac_and_destroy)
lt_out__mac_and_destroy(a) == Fill(a.slot \in MacSlots, lt_l3_mac_and_destroy)
lt_in__mac_and_destroy(r) == Exact(r, lt_l3_mac_and_destroy)

-----------------------------------------------------------------------------
\* lt_l3_decrypt_response before and after the decryption: RES_SIZE against the
\* buffer, and the result code, before any size is looked at.
lt_l3_decrypt_response(r, in) ==
    IF \/ r.size > TR01_L3_RES_CIPHERTEXT_MAX_SIZE
       \/ PacketSize(r.size) > LT_SIZE_OF_L3_BUFF
    THEN SizeError
    ELSE IF r.result = "OK" THEN in ELSE Decoded("LT_L3_FAIL", 0)

\* A command with all that there is of it.
With(struct, call, out, in) == [struct |-> struct, call |-> call, out |-> out, in |-> in]

\* Request a, answered with Result r, by a handle whose attributes give slots
\* of slot_size bytes.
L3Command(a, r, slot_size) ==
    CASE a.cmd = "ping" ->
           With(lt_l3_ping, lt_ping(a),
                lt_out__ping(a), lt_in__ping(a, r))
      [] a.cmd = "pairing_key_write" ->
           With(lt_l3_pairing_key_write, lt_pairing_key_write(a),
                lt_out__pairing_key_write(a), lt_in__pairing_key_write(r))
      [] a.cmd = "pairing_key_read" ->
           With(lt_l3_pairing_key_read, lt_pairing_key_read(a),
                lt_out__pairing_key_read(a), lt_in__pairing_key_read(r))
      [] a.cmd = "pairing_key_invalidate" ->
           With(lt_l3_pairing_key_invalidate, lt_pairing_key_invalidate(a),
                lt_out__pairing_key_invalidate(a), lt_in__pairing_key_invalidate(r))
      [] a.cmd = "r_config_write" ->
           With(lt_l3_r_config_write, lt_r_config_write(a),
                lt_out__r_config_write(a), lt_in__r_config_write(r))
      [] a.cmd = "r_config_read" ->
           With(lt_l3_r_config_read, lt_r_config_read(a),
                lt_out__r_config_read(a), lt_in__r_config_read(r))
      [] a.cmd = "r_config_erase" ->
           With(lt_l3_r_config_erase, lt_r_config_erase(a),
                lt_out__r_config_erase(a), lt_in__r_config_erase(r))
      [] a.cmd = "i_config_write" ->
           With(lt_l3_i_config_write, lt_i_config_write(a),
                lt_out__i_config_write(a), lt_in__i_config_write(r))
      [] a.cmd = "i_config_read" ->
           With(lt_l3_i_config_read, lt_i_config_read(a),
                lt_out__i_config_read(a), lt_in__i_config_read(r))
      [] a.cmd = "r_mem_data_write" ->
           With(lt_l3_r_mem_data_write, lt_r_mem_data_write(a, slot_size),
                lt_out__r_mem_data_write(a, slot_size), lt_in__r_mem_data_write(r))
      [] a.cmd = "r_mem_data_read" ->
           With(lt_l3_r_mem_data_read, lt_r_mem_data_read(a, slot_size),
                lt_out__r_mem_data_read(a), lt_in__r_mem_data_read(a, r, slot_size))
      [] a.cmd = "r_mem_data_erase" ->
           With(lt_l3_r_mem_data_erase, lt_r_mem_data_erase(a),
                lt_out__r_mem_data_erase(a), lt_in__r_mem_data_erase(r))
      [] a.cmd = "random_value_get" ->
           With(lt_l3_random_value_get, lt_random_value_get(a),
                lt_out__random_value_get(a), lt_in__random_value_get(a, r))
      [] a.cmd = "ecc_key_generate" ->
           With(lt_l3_ecc_key_generate, lt_ecc_key_generate(a),
                lt_out__ecc_key_generate(a), lt_in__ecc_key_generate(r))
      [] a.cmd = "ecc_key_store" ->
           With(lt_l3_ecc_key_store, lt_ecc_key_store(a),
                lt_out__ecc_key_store(a), lt_in__ecc_key_store(r))
      [] a.cmd = "ecc_key_read" ->
           With(lt_l3_ecc_key_read, lt_ecc_key_read(a),
                lt_out__ecc_key_read(a), lt_in__ecc_key_read(a, r))
      [] a.cmd = "ecc_key_erase" ->
           With(lt_l3_ecc_key_erase, lt_ecc_key_erase(a),
                lt_out__ecc_key_erase(a), lt_in__ecc_key_erase(r))
      [] a.cmd = "ecc_ecdsa_sign" ->
           With(lt_l3_ecdsa_sign, lt_ecc_ecdsa_sign(a),
                lt_out__ecc_ecdsa_sign(a), lt_in__ecc_ecdsa_sign(r))
      [] a.cmd = "ecc_eddsa_sign" ->
           With(lt_l3_eddsa_sign, lt_ecc_eddsa_sign(a),
                lt_out__ecc_eddsa_sign(a), lt_in__ecc_eddsa_sign(r))
      [] a.cmd = "mcounter_init" ->
           With(lt_l3_mcounter_init, lt_mcounter_init(a),
                lt_out__mcounter_init(a), lt_in__mcounter_init(r))
      [] a.cmd = "mcounter_update" ->
           With(lt_l3_mcounter_update, lt_mcounter_update(a),
                lt_out__mcounter_update(a), lt_in__mcounter_update(r))
      [] a.cmd = "mcounter_get" ->
           With(lt_l3_mcounter_get, lt_mcounter_get(a),
                lt_out__mcounter_get(a), lt_in__mcounter_get(r))
      [] a.cmd = "mac_and_destroy" ->
           With(lt_l3_mac_and_destroy, lt_mac_and_destroy(a),
                lt_out__mac_and_destroy(a), lt_in__mac_and_destroy(r))

Commands ==
    {"ping", "pairing_key_write", "pairing_key_read", "pairing_key_invalidate",
     "r_config_write", "r_config_read", "r_config_erase",
     "i_config_write", "i_config_read", "r_mem_data_write",
     "r_mem_data_read", "r_mem_data_erase", "random_value_get",
     "ecc_key_generate", "ecc_key_store", "ecc_key_read", "ecc_key_erase",
     "ecc_ecdsa_sign", "ecc_eddsa_sign", "mcounter_init",
     "mcounter_update", "mcounter_get", "mac_and_destroy"}
=============================================================================
