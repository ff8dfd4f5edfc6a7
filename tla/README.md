# TLA+ models of cdc-badge-esphome

The CDC Badge is an ESP32-S3 running ESPHome with an e-paper display, a keypad,
a BQ25895 battery charger and a TROPIC01 secure element.  Nearly all of its own
code is the driver of the secure element: `components/tropic01` with the C
library libtropic in three layers.  That is where the protocol, the retries and
the sessions are, and where these models begin.

## The system

| Part | Code | State it keeps | Operations |
|---|---|---|---|
| L1 framing | `lt_l1.c` | none | poll CHIP_STATUS, read a frame, write a frame |
| L2 frame check | `lt_l2_frame_check.c` | none | meaning of a frame's status and CRC |
| L2 request/response | `libtropic_l2.c`, `lt_l2_transfer` | the one buffer, its backup, a retry counter, `startup_req_sent` | transfer, with Resend_Req |
| L2 encrypted chunks | `libtropic_l2.c`, `lt_l2_send_encrypted_cmd`, `lt_l2_recv_encrypted_res` | offset, chunk, retry counter | send a packet in chunks, reassemble a result |
| L3 secure channel | `lt_l3_process.c`, `libtropic_l3.c`, `libtropic.c` | `session_status`, two nonces, two keys | handshake, encrypt, decrypt, abort, invalidate |
| Boot and start-up | `lt_init`, `lt_deinit`, `lt_reboot`, `lt_tr01_attrs.c` | chip attributes | bring a chip up, reboot it |
| FW update | `lt_do_mutable_fw_update` | firmware banks of the chip | update both pairs of banks |
| Certificate store | `lt_get_info_cert_store`, `lt_asn1_der.c` | none | read four certificates, find the chip's key |
| Tropic01 component | `tropic01.cpp` | handle, flags, warning | setup, poll, R-Memory services, shutdown hooks |
| R-Memory services | `packages/api.yaml` | scratch string | se_write, se_read, se_erase |
| L3 commands | `libtropic.c`, `libtropic_l3.c`, `lt_l3_api_structs.h` | none | 23 commands: check arguments, fill the Command, check and copy the Result |
| Light automations | `api.yaml`, `controls.yaml`, `cdc-badge.yaml`, `sensors.yaml` | the backlight, the tab shown | notify, blink, boot blink, deep sleep, keys |
| BQ25895 | `bq25895.cpp` | the charger's registers | limits, ADC, poll |

How they interact: Home Assistant calls a service; the service, on the one main
loop, calls the component; the component opens a secure session if it has none
and runs one L3 Command; the command is encrypted, cut into L2 chunks, and each
chunk is a frame that Layer 1 writes and whose answer it polls for.  All these
are synchronous C calls.  What runs concurrently is the *chip*: it executes a
request while the host polls, keeps its own session and nonces, reboots, and
raises an alarm.  Between host and chip is an SPI line that flips bits.  Within
ESPHome, polls, services and the shutdown hooks come in any order, and the API
server still runs services while components are torn down.

What is hard, then: retries that cannot tell which direction was corrupted,
responses that carry no number, two ends of a session whose nonces and keys must
agree although either may lose its half, and a component with several records of
the same fact (`handle_`, `initialized_`, `session_established_`,
`session_status`) that are updated at different times.  Below all this are lengths that
cross three layers and a DER parser with 8-bit counters.  `PROJECT.json` lists each
hazard at its line, with the property that is about it.

## The modules

| Module | Models | Role |
|---|---|---|
| `AtMostOnceRpc` | what libtropic promises its caller: a call is executed at most once, and `LT_OK` means it was executed | abstract specification of both layers |
| `L2Frame` | `lt_l2_frame_check` | operators, shared |
| `L2Transfer` | `lt_l2_transfer` over a noisy line, with a chip | implements `AtMostOnceRpc` |
| `L1Framing` | `lt_l1_read` and `lt_l1_write`, one SPI transfer per step | implements `L2Transfer`'s reads and writes |
| `L2TransferProofs` | | proofs about `L2Transfer` and `L1Framing` |
| `L2Encrypted` | `lt_l2_send_encrypted_cmd`, `lt_l2_recv_encrypted_res` and a chip that puts the chunks together | implements `AtMostOnceRpc` |
| `L2EncryptedProofs` | | proofs about `L2Encrypted` |
| `SecureChannel` | handshake, session, nonces and a generic L3 Command, with a chip that may lose its session | implements `AtMostOnceRpc` |
| `SecureChannelProofs` | | proofs about `SecureChannel` |
| `L3Commands` | each of the 23 L3 Commands: layouts, argument checks, limits, what is filled and copied | operators |
| `L3Calls` | `SecureChannel` with the commands of `L3Commands` | implements `SecureChannel` |
| `L3CallsProofs` | | proofs about `L3Calls` |
| `Asn1Der` | the DER parser, one object per step | operators |
| `CertStore` | `lt_get_info_cert_store` and `lt_get_st_pub`, block by block | composed by the next |
| `VerifiedSession` | `lt_verify_chip_and_start_secure_session`, then the life of the channel | `CertStore` followed by `L3Calls` |
| `DerDocument` | the objects of a certificate with their places, their DER encoding, and what the parser should find | extends `VerifiedSession` |
| `CertStoreProofs` | | proofs about `CertStore`, `Asn1Der` and `VerifiedSession` |
| `Tropic01` | `Tropic01Component` with its services over its whole life | built on what `SecureChannel` shows |
| `Tropic01Proofs` | | proofs about `Tropic01` |
| `FwUpdate` | `lt_do_mutable_fw_update` with `lt_reboot`, for both silicon revisions | built on what `L2Transfer` shows |
| `FwUpdateProofs` | | proofs about `FwUpdate` |
| `BQ25895` | the charger's driver, from `to_code` to the sensors | stands alone |
| `BQ25895Proofs` | | proofs about `BQ25895` |
| `MC*` | | instances for TLC |

The layers are stacked by refinement, not multiplied into one state space: `L1Framing`
implements `L2Transfer`, which implements `AtMostOnceRpc`; `L3Calls` implements
`SecureChannel`, which implements it too, as does `L2Encrypted`.  Each module
takes of the layer below what that one promises.

**L2Transfer.**  `pc` is the place in `lt_l2_transfer`: about to send, waiting for
the response, about to send a Resend_Req, waiting for its answer.  `buff` and
`req_buff_backup` are the code's; `chip_in` and `chip_out` are the frame on its way
in each direction.  Each Layer 1 read or write is one step, in which the frame
arrives whole, arrives corrupted, or the call fails with any part of it having
happened.  A frame keeps its status, whether its CRC is right, and the number of
the call it belongs to, which the code cannot see.  The chip executes, rejects,
asks for a repetition of, or repeats (`ChipExecutes`, `ChipRejects`, `ChipRefuses`,
`ChipResends`).  The counters of CRC errors are left out: nothing reads them.

**L1Framing.**  `l1pc` is the place in `lt_l1_read` or `lt_l1_write`, `cs` the level of
the chip-select pin, `max_tries` the polls that are left, `l1_ret` what Layer 1 is about
to return.  Each SPI transfer is a step that may fail (`SpiFails`); between polls the
chip works on.  A response of which only the header was read is `lost`.  `L1Returned`
is the step of `L2Transfer` with the outcome that Layer 1 came to.

**L2Encrypted.**  One call is an `lt_*` command: its packet goes out in chunks, its
result comes back in pieces.  A packet is a sequence of cells that know their call,
their position and the packet's length; the chip knows only the first one, the SIZE
field, and joins whatever chunks arrive (`ChipTakesChunk`).  So a packet given up in
the middle can swallow the start of the next one, which then fails its tag
(`ChipRejects`).  The steps are those of L2Transfer: `Send`/`Sent` a chunk,
`Resend`/`Resent` its answer, `Recv` a piece, `Reask` for it.  The chip makes pieces of
any length, empty ones too, and may be reset at any time.  `damaged` records that a
piece with a wrong CRC was accepted.

**SecureChannel.**  A key is the number of the handshake that made it and a
command the number of its call; ciphertext is a record of key, nonce and call, so
"authentic" is equality (`Authentic`, `Accepted`).  Actions are the functions:
`SessionStart`/`SessionStarted` (the two halves of `lt_session_start` around its
transfer), `LtCommand`, `Out`, `Send`, `Receive` (an `lt_*` command: `lt_out__*`,
`lt_l2_send_encrypted_cmd`, `lt_l2_recv_encrypted_res` with `lt_in__*`),
`SessionAbort`, `Reboot`, `Reinit` (`lt_deinit` and `lt_init`), `GetInfo`.
`UINT32_MAX` is the constant `NonceMax`.

**L3Commands, L3Calls.**  `Call` is what a command's `lt_X` and `lt_out__X` do with a
request's arguments: refuse it, or fill so many bytes of a Command's struct and receive
a Result of at most so many.  `L3Command(a, r, slot_size).in` is `lt_in__X`: what it checks of a Result that
decrypted, and what it copies.  Only sizes are kept, but those at every byte.  `L3Calls`
adds to `SecureChannel` the `request` under way, the chip's `slot_size`, which depends on
its firmware, and the `output` its caller was given.

**Asn1Der, CertStore, VerifiedSession.**  `parser` is `parse_ctx_t`, with `past` and the
copied `sbuf`, and the stack of the recursion: `ends` has the end of each loop under
way, that of `asn1der_find_object` and those of `parse_object`.  A step (`FindStPub`) is one pass
of the innermost loop (`ParseObject`) or the check after it (`LoopEnd`).  In `DerDocument`
the objects of a certificate are known with their places (`IsDer`), and what the parser finds is
compared with what they say (`Find`).  `MCSecureChannel` makes the certificates from trees of
objects (`Document`, recursive); bytes of contents are numbered by their place, so that a
copy shows where it was taken.
`CertStore` cuts the store's blocks of 128 bytes into four certificates, with the places
where a certificate starts, ends, or is skipped.  `VerifiedSession` runs it once, starts
the first session with what it found or fails, and goes on as `L3Calls`.

**Tropic01.**  Actions are the component's hooks and services.  A service is two
steps, `ensure_secure_session` and the L3 Command, so that the chip can reset or
raise its alarm in between.  Of the session it keeps what SecureChannel shows to
matter: whether the host has one, and where the chip stands in it (`sync`: in
step, a command behind, a result ahead, or without one).  The result byte and the
checks of `lt_in__r_mem_data_*` are translated as they stand.  While the chip's attributes
are not set, a read of a written slot does not get that far: `lt_l2_recv_encrypted_res`
refuses the result, which is over a limit made for an empty one (`NotReceived`), and
leaves the chip a result ahead.

**FwUpdate.**  `Helper` is the sequence of steps of `lt_do_mutable_fw_update`, `pc` the
step it is at and `sent` the exchanges of that step so far: a reboot is the
Startup_Req and the reading of the mode, the update of a bank its request (for ABAB
the erasing) and one exchange per chunk.  What stays as it is, `config`, is chosen in
`Init`: the silicon revision, the update data (whole, too large, too short, or with
lengths that run past its end), whether libtropic knows the new firmware, whether the
chip may enter MAINTENANCE, and how an ACAB chip chooses banks.  Between any two
exchanges the chip may reset, raise its alarm, or lose power together with the badge;
an exchange that fails may have been executed.

**BQ25895.**  `phase` goes through the badge's start: `to_code`'s statements run in
`main()`, `setup()` applies the members, then `update()` is polled and lambdas call the
setters; `Restart` begins again with the charger's registers as they are.  A register
is the field the driver writes in it (no two setters share one), and a setter is one
step that may do nothing, since a failed transfer is not reported and the main loop
runs nothing in between.  The arithmetic of `Clamp8` is the setters', in 8 bits.
`asked` records what the last successful write of a limit was to set, `converting`
whether the charger's ADC runs, which may stall at any time.  A to_code call may go
through: whether ESPHome's bus is up before `App.setup()` changes nothing here.

## What is checked

| Run | Instance | Shows |
|---|---|---|
| `l2_transfer` | 2 calls, 3 attempts, 2 polls per read, any one bit of the status byte flipped, anything else corrupted; 102 thousand states | `AtMostOnce`, `OkIsAnswered`, `BusReleased`, `CallReturns`, refinement of `AtMostOnceRpc` and of `L2Transfer` (`ImplementsL2`), inductive invariant |
| `l2_encrypted` | 2 calls, chunks of 2 cells, packets of 2, 3 and 5 cells of which 4 fit, results of 1 and 3 cells in at most 3 pieces, 2 attempts; 162 thousand states | `ChunksInOrder`, `ResultWhole`, `FitsBuffer`, `CallReturns`, refinement of `AtMostOnceRpc` |
| `secure_channel` | 4 commands, 2 handshakes, last nonce 2; every command, with arguments at their bounds and one past them; Results around the layouts; 53 certificate stores; 370 thousand states | `NonceUnique`, `InStep`, `ExecutedInOrder`, `OverflowNotSent`, `OutputIsResult`, `ChecksAgree`, `CertsExact`, `KeyIsDevices`, refinement of `AtMostOnceRpc`, inductive invariant |
| `tropic01` | one slot under three numbers (0, 512, 65536), two data, one of a wrong size, 3 faults; 210 thousand states | `OneRejectionPerBoot`, `LiveHandle`, `AlarmKeepsWarning`, `LateServicesAreHarmless`, `InitRetried` |
| `fw_update` | images of 2 chunks, 3 calls, 2 faults, every `config`; 290 thousand states | `OkMeansUpdated`, `KeepsBootable`, `RetrySucceeds`, inductive invariant |
| `charger` | the configuration of `power.yaml`, lambdas asking for 12900 mA of input and 9000 mA of charge and switching ADC and charging off, two battery voltages; 120 thousand states | `LimitsHold`, `FailedIsSilent`, `ReadingsCatchUp` |

*Bounds.*  Two calls are what a stale response needs; the retry counter is the
code's, so it runs out in the model as it does in the code.  In `l2_encrypted` the packets are one
full chunk, a chunk and a shorter one, and one too long; a result may be one piece,
several, or too many; noise makes pieces longer than the buffer.  Two attempts
allow a retry within a retry; the code's three add nothing but states.
Two polls let a read meet a busy chip and a ready one, and run out.
Two handshakes give an
old key and a new one; four commands with nonces 0 to 2 pass the overflow in one
session and reach a second one.  The certificate stores
have a device certificate that ends before, at and after the end of a block, or objects
around the lengths where DER changes its form (127, 128, 255, 256), no key, a wrong one
or two, the other certificates from 129 bytes to 701, one more than the buffers take, and headers that are refused.
In `tropic01` three faults let the next hit what the last ones have
left (a lost result, then a lost command, then a reset; a failed initialisation, an alarm
and a reset out of it).  In `fw_update` each fault can end one call, so the third call has none left; two chunks
let an image be broken in its middle.
Every bound is in a guard: `MaxCalls`, `MaxHandshakes`, `MaxFaults`.
`MCL2Transfer`, `MCL2Encrypted` and `MCFwUpdate` switch the deadlock check off because
after the last call the system rests; the others always have a step.
`BQ25895` needs no bound: it never stops, and a limit takes one value per call in the configuration and the lambdas.
Those of the run reach the wrap-around of the 8-bit quotient (256) and a clamp.

`AlarmKeepsWarning` is a property of steps, not of states: an alarm may come, be
published, end by a reset and come again before the next poll, and for that time the chip
is in an alarm the badge does not know of.

*Fairness.*  Safety needs none.  `CallReturns` has weak fairness of the host's
steps, those of Layer 1 included: `lt_l2_transfer`, like the two functions of
`L2Encrypted`, is a C function on the main loop, and each read of it gives
up after `LT_L1_READ_MAX_TRIES` polls by itself; of the chip nothing is asked.
`ImplementsL2` therefore includes the fairness `L2Transfer` takes for granted.
`InitRetried` has weak fairness of `Setup`, of the poll ESPHome calls every update
interval, and of a libtropic call that has begun.  `RetrySucceeds` has weak fairness of the helper, which is one C function, and of the
caller who follows the advice at `libtropic.h:815` to call it again.
No fairness makes faults stop:
they are bounded.  `ReadingsCatchUp` has weak fairness of an `update()` whose transfers
go through (the scheduler calls it every interval; a bus that fails for ever is
reported by the warning) and strong fairness of a conversion: an ADC started again and
again completes one, although it may stall after any start.

### Where code and comments disagree

Each is a run that TLC refutes (`expect: violation`); `PROJECT.json` quotes the lines.

* `piece_received_ok`: a piece of a result with status RESULT_CONT is "received OK"
  whatever its CRC; it is not asked for again, and the damage costs the session.
* `write_failed_means_rejected`: the result byte is compared with 0 after
  `lt_l3_decrypt_response` has required it to be 0xC3.  Every write and erase that
  the chip carries out is reported as `..._FAILED`, "chip rejected".
* `key_flag_means_custom_key`: any failure to open a session, a chip that is still in
  MAINTENANCE for one, is recorded as a customised pairing key, and no service gets
  a session until the badge restarts.
* `deinit_only_after_init`: `on_powerdown` calls `lt_deinit` after a failed `lt_init`.
* `session_recovers`: `ensure_secure_session` means to find out that an error has
  invalidated the session, but L2 errors invalidate nothing; after one chip reset
  all services fail until the badge restarts.  (The run's specification adds strong
  fairness of reading each slot: somebody goes on calling the service.)  Reading a
  written slot while the attributes are not set ends the same way (`NotReceived`),
  without a reset after the handshake, as long as nothing but reads is asked.
* `charger_config_applied`: `to_code` calls the runtime setters, and `setup()` then
  writes the members' defaults over what they wrote.  With `charge_current: 1024` the
  charger is left with a limit of 2048 mA.

Others need no run to see: `lt_l1.h` gives `max_len` of `lt_l1_read` as the bound of what
is read, but `lt_l1.c:117` bounds it by the length field, up to 258 bytes, all within the
one buffer the code has; an object of 127 bytes is
refused as `LT_CERT_UNSUPPORTED` (`lt_asn1_der.c:108`) although DER gives it a short
length; an object identifier shorter than 3 bytes is logged as "skipping" and not skipped
(`lt_asn1_der.c:187-192`); `sleep_mode` of `power.yaml` is said to be set by the sleep
button, and nothing sets it.  In the automations, the end of a `notify`, of a
`blink_display` or of the boot's blink turns the backlight off for a `notify` still in its
5 s (`test/README.md:47`); the Deep Sleep button is "blocked if USB/charging"
(`README.md:167`) by no condition in `controls.yaml:48-65`; and in the 3 s it waits there a key
can select another tab than the one with the sleep icon.

## What is proved

TLAPS checks, for every value of the constants, the theorems `PROJECT.json` lists.

**L2TransferProofs**, from `AttemptsAssumption`, `CallsAssumption` and
`GarbledAssumption`.  The last is the one assumption on the line: noise does not turn
a status whose CRC the host compares into CRC_ERR or back.  It is needed, because the
code repeats a request on the word of a CRC_ERR frame whose own CRC it does not look
at.  `AtMostOnce` alone is not inductive: that the host may send says nothing about
whether the chip has already executed.  `IInv` adds where the request can be at each
`pc` (`SendingIsSafe`, `WaitingForAnswer`), that whatever a Resend_Req can fetch
belongs to this call (`ResendingIsSafe`), and that a request of a call given up
earlier is still unexecuted if it is in flight (`InFlightIsNew`).
The same module has Layer 1, for any number of polls.  `BusReleasedHolds` is inductive
with the types.  `L1Implementation` maps the state of `L1Framing` to that of `L2Transfer` by
leaving Layer 1 out: its steps are stutters, `L1Returned` is the read or write; so
`L1AtMostOnce` and `L1OkIsAnswered` hold with Layer 1 in steps.
`TransfersRunOutHolds` and `L1RunsOutHolds` say why a call returns: what is left of it
(`TransfersLeft`: two transfers for the request and two for each retry; within one of
them `L1StepsLeft`: the polls and the SPI transfers of each) gets less with
every step of the host, in lexicographic order, and the chip does not add to it.

**SecureChannelProofs**, from the three bounds being naturals, `NonceMax` being any.
`NonceUnique` follows from order: within a key later commands have larger nonces
(`SentInOrder`), and everything on the wire is below what the host will use next
(`SentIsPast`).  `ExecutedInOrder` needs the chip's side: it has executed exactly the
sent commands of its session below its nonce (`ChipProgress`), and what is in flight
is one of the sent commands or a handshake nobody has used (`InFlight`).  There is
one lemma for each action, with one step for each part of `IInv`.
`NoRecoveryHolds` is about steps: `OutOfStep` says that the chip has not this session any more
or that a command has no result, and once it holds it does so until the host drops the
session, because only the result of the command under way decrypts, and only if there has
been one for every command before (`AuthenticInStep`).  An L1 or L2 error always leads to it.
This is what `Tropic01` keeps of the session as `sync`.

**FwUpdateProofs**, from at least one chunk per image.  `OkMeansUpdated` needs to know what
the steps done so far have shown (`Progress`): for ABAB that a bank has been written,
for ACAB nothing before the validation, because the chip chooses the bank.  Writing
relies on host and chip agreeing on the next chunk (`ChunksAgree`).  `Running` carries
the result past the last reboot.  `KeepsBootable` follows for ACAB from the bank the
chip keeps aside (`Spare`), for ABAB from the order of the steps (`FirstCall`).
`HelperMovesOnHolds` bounds a call: no step leads back to an earlier one.
`UndisturbedCallSucceedsHolds` says that calling again is enough: however calls cut short,
resets and losses of power left the banks, a call with good data on a chip that allows the
update is on its course (`OnCourse`) from its first step, and a step that no fault disturbs
keeps it there or returns LT_OK.  `BanksOnCourse` is the argument for ACAB, where the chip
chooses the bank: the first round leaves one new image of each kind, so after the reboot the
chip gives the bank with the other one (`alternates`), and the second round writes that.
Together the two theorems are `RetrySucceeds` but for the fairness that it needs.

**BQ25895Proofs**, from the configuration and the lambdas' arguments being 16-bit
values.  `Clamp8Fits` is the arithmetic of the four setters, `CodeHolds` with their constants: division, truncation to 8
bits and clamping never give a limit above the value asked for, except the least one
the field can hold, and within the schema's ranges one less than a step below it.
`LimitsHold` is then inductive together with `TypeOK`.

**L2EncryptedProofs**, from `SizesAssumption` and the `GarbledAssumption` of its own (no
CRC_ERR becomes a status by which the host moves on, and no such status CRC_ERR), for
every size of chunks, packets, results and buffer.  `ChunksInOrder` says where the host is
when it sends; to keep it, one must know where the chunk is when an answer is lost.
`IInv` says what is in flight and not yet processed (`InFlight`, `Unprocessed`), that
the chip has taken the chunk exactly if it answered something else than CRC_ERR
(`Acknowledged`, `Taken`), that every answer that can still be fetched is to this chunk
(`Answers`), and that what the host has received, with the piece that follows and what the chip still
has, is one whole result (`Receiving`, `Follows`, `Continues`), unless a piece
was damaged.  `ChunkArithmetic` is the code's division into chunks: none is empty or longer
than the longest, and only the last ends where the packet ends.  `FramesRunOutHolds` is the descent of
these two functions: it counts the chunks and pieces still allowed, and the steps of
the frame under way with its retries.

**L3CallsProofs**, from the assumptions of `SecureChannel`, from requests whose buffers
end before the 16-bit sizes wrap (`RequestsAssumption`; no caller's is nearly that large),
and from Results of any 16-bit size.
`L3Implementation` carries the theorems about `SecureChannel` over: `L3NonceUnique` is
one of them.  `OutputIsResultHolds` goes through the commands by the way they check:
those whose Result has one size, those that take it from the chip, and the key whose length depends on its
curve.  `ChecksAgreeHolds` is about the arguments themselves: whatever passes the checks
fits the Command's struct, and what the chip may answer passes the checks on the way back.

**CertStoreProofs**, from `StoresAssumption` (four certificates, each longer than a
block) and the assumptions of the calls, for every certificate, well-formed or not.
`CertsExact` needs to know, at each pass, what has been copied: `BlocksCopied`
says that the next block begins within the certificate under way or at its start, that this one's buffer
holds what lies before the block, and that the certificates before it are complete.
The blocks are slices of one stream, of which each certificate is a slice
(`StreamFacts`); the cases of a pass are whether the certificate ends in this block, and
whether it is the last.  The parser is shown to keep `ParserOK` on any bytes: it has
read no further than the certificate's end, the loops it is in are at most half as many
as the bytes read (so the recursion of a certificate of 700 bytes is at most 350 deep; the
code bounds it in no other way), `sample_next` means that an OBJECT IDENTIFIER which begins
with the bytes of X25519 has been passed (`Identified`), and `found` that `sbuf` is what was
consumed of a later object of a type that may be sampled, or the last 32 bytes of it
(`SampledFrom`).
Hence `ParserWithinHolds` and `KeyIdentifiedHolds`; `ParserEnds` is the descent: each
pass consumes bytes or leaves a loop.  `VerifiedImplementation` maps the steps of the
verification to stutters of `L3Calls`, so `VerifiedSafety` and `VerifiedAtMostOnce` carry all
that is proved of the channel over, and `FirstSessionVerified` says that it begins with
the key the parser has found.

When the certificate is the encoding of a document, more holds: `FoundAsEncodedHolds` is
for every document, `KeyIsDevicesHolds` for the one each store has by `DeviceAssumption`.  A document is
the objects in the order of their tags, each with its place, so nesting needs no recursion: an
object that begins within a SEQUENCE ends within it.  The invariant is `OnTrack`: at
every pass the parser is right before one of the objects (`Place`), each loop under way ends
where the stream or a SEQUENCE already begun does (`LoopsAround`), and of the objects passed
the key has been sampled if it was among them (`SampledSoFar`).  To keep it, `HeaderDecodes` says
that the parser reads each of DER's forms of a length but for the value 127, `ObjectPassed`
that it comes out before the next object, and `ObjectAhead` that the check of a loop at one
byte before its end (`past < end - 1`) never leaves an object behind.  `AllRead` is the end of the stream.
So the parser refuses a well-formed certificate for an object of 127 bytes or for want of a
key, and for nothing else.  `Supported` is what it needs of the document beyond DER.

**Tropic01Proofs**, for any slots, arguments and data and any number of faults.
`Initialised` relates the component's five records of the same fact; `LiveHandle` and
`OneRejection` follow from it and from `Rejections`, which says that the flag counts them.
`AlarmWarning` and `LateServices` are about steps, and rest on the types and on the
same invariant.  `StuckUntilShutdownHolds` is the other side of `session_recovers`: while the main
loop runs, a session that is ON is one that the component takes for usable (`Established`),
so `ensure_secure_session` goes on with it, and if the chip has no such session every
service of this boot fails, whatever polls and resets come in between.

`Implementation` in the first two and in `L2EncryptedProofs` maps every step to a step of
`AtMostOnceRpc` or a stutter.

Only model-checked: liveness (`CallReturns`, `InitRetried`, `RetrySucceeds`,
`ReadingsCatchUp`, the fairness in `ImplementsL2`), which the prover cannot reach, although
the descents above bound every loop under `CallReturns`.

## What the models assume

* The chip drops a response not yet read when a new request arrives, and answers a
  Resend_Req with its last response.  Whether CRC_ERR becomes the last response is
  left open.
* Noise does not turn CRC_ERR into a status by which the host moves on, or back
  (`GarbledAssumption`); TLC evaluates this for single bit flips.
* The chip, an SPI slave, makes the next piece of a result when it is polled, so
  that the last response is one the host has seen.
* Noise does not make a frame out of 0xFF 0xFF, the chip's answer when it has none.
* The certificates are longer than one block of 128 bytes, as the comment in
  `lt_get_info_cert_store` says of the chip's; the device's has no object identifiers
  of 1 or 2 bytes, which the parser does not skip, and no key of more than 255, whose length
  it takes in 8 bits (`Supported`; the other theorems about the parser need neither).
* Each handshake has fresh ephemeral keys, so its keys are new.
* AES-GCM: a message under another key or nonce, or damaged, does not authenticate.
* In `Tropic01` the chip's firmware is one this libtropic knows (`LT_APP_FW_TOO_NEW` is
  modelled in `FwUpdate`).
* An ACAB chip never gives an update the bank with its last intact image, chooses the
  bank when it starts, and starts the newest intact image; that it alternates between
  equally good banks is assumed only by `RetrySucceeds` and `UndisturbedCallSucceeds`.  An
  update that is complete is intact: the chip's signature check and downgrade protection are left out.
* One main loop: libtropic is never entered twice.
* The build of this repository: ACAB silicon, no `LT_REDUNDANT_ARG_CHECK`, no alarm
  log, no interrupt pin, the L3 buffer inside the handle.

## What is not modelled

The plan of modules is carried out; what is left out, and why:

* `lt_read_whole_R_config` and its like repeat one command of `L3Commands` for each
  address; `lt_sleep` and `lt_get_log_req` are single L2 Requests that nobody in this
  repository calls.
* CRC16 and HKDF are functions without state whose model would be their loop again; the ciphers are mbedTLS's.
* The alarm log, the interrupt pin and the redundant argument checks are not in this build.
* Integers in fields of Commands and Results, and what data says: nothing depends on it.
* The automations of the backlight and the Deep Sleep button: each is a fixed list of
  actions and delays that ESPHome's scheduler runs.
* Light effects, the contents of the tabs, the network and the display:
  declarative configuration that ESPHome carries out.  `safe_mode` is ESPHome's.
* ESP-IDF's SPI and I2C, and ESPHome's scheduler, beyond the outcomes they have here.
* The sensors and `lt_print_*` only format (the charger's are in `BQ25895` as what they are
  told); the Python configuration schemas run at build time, but for `to_code` of the
  charger, which is in `BQ25895`.
* What the charger does by itself besides its ADC (its watchdog, its own limits).
