------------------------------- MODULE FwUpdate -------------------------------
(***************************************************************************)
(* lt_do_mutable_fw_update: the update of the chip's two firmware images,  *)
(* for its CPU and for its coprocessor SPECT, each kept in two banks.  The *)
(* helper is a straight sequence of steps that ends with the first one     *)
(* that fails, and the advice to its caller is to call it again.  The chip *)
(* may reset in between, and the badge may lose power.                     *)
(*                                                                         *)
(* Every exchange with the chip keeps the promise of AtMostOnceRpc (proved *)
(* of lt_l2_transfer in L2TransferProofs): LT_OK means that the chip       *)
(* executed the request once, and an error that it may have.               *)
(***************************************************************************)
EXTENDS Naturals, Sequences

CONSTANTS
    Chunks,       \* data chunks of an image
    MaxCalls,     \* bound on the calls of the helper
    MaxFaults     \* bound on failed exchanges, resets and power losses

ASSUME ChunksAssumption == Chunks \in Nat \ {0}
ASSUME BoundsAssumption == MaxCalls \in Nat /\ MaxFaults \in Nat

VARIABLES
    config,       \* what stays as it is: build, images and habits of the chip
    pc,           \* step of the helper, 0 when it is not running
    sent,         \* exchanges the step has finished
    result,       \* what the last call returned
    attrs,        \* firmware version tr01_attrs is set up for

    mode,         \* the chip's operating mode
    booted,       \* version the chip runs of each image, in APPLICATION
    bank,         \* what each bank holds
    open,         \* the bank being written and the chunks it has received
    target,       \* the bank an ACAB chip gives to an update of each image

    calls, faults

hostVars == <<pc, sent, result, attrs>>
chipVars == <<mode, booted, bank, open, target>>
vars == <<config, hostVars, chipVars, calls, faults>>

-----------------------------------------------------------------------------
Kinds == {"cpu", "spect"}
Banks == {1, 2}
Other(b) == 3 - b
Versions == {"old", "new"}

\* Update data, as the guards of the helper tell it apart: too large for any
\* update, too short for the header of an image, or with its length bytes
\* running past its end after so many chunks.
Images ==
    [fits : BOOLEAN, head : BOOLEAN, chunks : 0..Chunks]

Whole == [fits |-> TRUE, head |-> TRUE, chunks |-> Chunks]
TooLarge == [fits |-> FALSE, head |-> TRUE, chunks |-> Chunks]
TooShort == [fits |-> TRUE, head |-> FALSE, chunks |-> 0]
Cut == {[fits |-> TRUE, head |-> TRUE, chunks |-> n] : n \in 0..Chunks - 1}

\* The silicon revision the build is for, the update data, whether this
\* libtropic knows the new firmware, whether the chip's configuration allows
\* MAINTENANCE, and whether the chip, free to choose, always gives an update to
\* the bank with the older image.  An image for ABAB has no inner structure
\* that could be wrong, and its chip no choice.
Config ==
    [rev : {"ABAB", "ACAB"}, image : [Kinds -> Images],
     supported : BOOLEAN, maintenance : BOOLEAN, alternates : BOOLEAN]

Configs ==
    {c \in Config :
        /\ \A k \in Kinds : c.image[k] \in {Whole, TooLarge, TooShort} \cup Cut
        /\ c.rev = "ABAB" =>
            c.alternates /\ \A k \in Kinds : c.image[k] \in {Whole, TooLarge}}

-----------------------------------------------------------------------------
(* The steps of the helper.  A build for ABAB has no code for "validate"   *)
(* and "check".                                                            *)
Step(op, kind, b) == [op |-> op, kind |-> kind, bank |-> b]

\* Mutant of Helper: the chip is not started again between the bank pairs.
HelperStartingOnce ==
    <<Step("maintenance", "cpu", 1),
      Step("update", "cpu", 1), Step("update", "spect", 1),
      Step("update", "cpu", 2), Step("update", "spect", 2),
      Step("validate", "cpu", 1), Step("validate", "spect", 1),
      Step("validate", "cpu", 2), Step("validate", "spect", 2),
      Step("application", "cpu", 1),
      Step("check", "cpu", 1), Step("check", "spect", 1),
      Step("attrs", "cpu", 1)>>

Helper ==
    <<Step("maintenance", "cpu", 1),
      Step("update", "cpu", 1), Step("update", "spect", 1),
      Step("maintenance", "cpu", 2),
      Step("update", "cpu", 2), Step("update", "spect", 2),
      Step("validate", "cpu", 1), Step("validate", "spect", 1),
      Step("validate", "cpu", 2), Step("validate", "spect", 2),
      Step("application", "cpu", 1),
      Step("check", "cpu", 1), Step("check", "spect", 1),
      Step("attrs", "cpu", 1)>>

At(ops) == pc # 0 /\ Helper[pc].op \in ops

Continue ==
    /\ pc' = pc + 1
    /\ sent' = 0
    /\ UNCHANGED <<result, attrs>>

\* Mutant of Fail: the helper goes on after a step that failed.
FailIgnored(ret) == Continue

\* A step that fails ends the helper.
Fail(ret) ==
    /\ pc' = 0
    /\ sent' = 0
    /\ result' = ret
    /\ UNCHANGED attrs

-----------------------------------------------------------------------------
(* The chip.                                                               *)
Intact(banks, k, b) == banks[k][b] \in Versions

Bootable(banks) == \A k \in Kinds : \E b \in Banks : Intact(banks, k, b)

Newest(banks, k) ==
    IF \E b \in Banks : banks[k][b] = "new" THEN "new" ELSE "old"

\* An ACAB chip never gives away the last intact image.
MayTarget(banks, k, b) ==
    /\ Intact(banks, k, b) => Intact(banks, k, Other(b))
    /\ config.alternates =>
        ~(banks[k][b] = "new" /\ banks[k][Other(b)] # "new")

\* The chip starts, for the application unless it is asked to stay in its
\* bootloader and may, or has no firmware to run.  An ACAB chip forgets an update that
\* is not complete.
Boot(wanted) ==
    /\ mode' = IF Bootable(bank) /\ (wanted = "APPLICATION" \/ ~config.maintenance)
                 THEN "APPLICATION" ELSE "MAINTENANCE"
    /\ booted' = [k \in Kinds |-> IF mode' = "APPLICATION"
                                    THEN Newest(bank, k) ELSE "none"]
    /\ IF config.rev = "ACAB"
         THEN /\ target' \in {t \in [Kinds -> Banks] :
                                \A k \in Kinds : MayTarget(bank, k, t[k])}
              /\ open' = <<>>
         ELSE UNCHANGED <<target, open>>
    /\ UNCHANGED bank

ChipUnchanged == UNCHANGED chipVars

\* The bank an update with this step's image goes to.
Destination(step) ==
    IF config.rev = "ACAB" THEN target[step.kind] ELSE step.bank

\* The request that begins an update (for ABAB the erasing of the bank).
ChipErases(step) ==
    LET b == Destination(step)
    IN  /\ bank' = [bank EXCEPT ![step.kind][b] = "broken"]
        /\ open' = <<step.kind, b, 0>>
        /\ UNCHANGED <<mode, booted, target>>

ChipAccepts(step) ==
    open # <<>> /\ open[1] = step.kind /\ open[2] = Destination(step)

\* The next chunk.  With the last one the image is there.
ChipWrites ==
    /\ open' = <<open[1], open[2], open[3] + 1>>
    /\ bank' = [bank EXCEPT ![open[1]][open[2]] =
                    IF open[3] + 1 = Chunks THEN "new" ELSE @]
    /\ UNCHANGED <<mode, booted, target>>

-----------------------------------------------------------------------------
Init ==
    /\ config \in Configs
    /\ pc = 0
    /\ sent = 0
    /\ result = "none"
    /\ attrs = "old"
    /\ mode = "APPLICATION"
    /\ booted = [k \in Kinds |-> "old"]
    /\ bank = [k \in Kinds |-> [b \in Banks |-> "old"]]
    /\ open = <<>>
    /\ target \in IF config.rev = "ACAB" THEN [Kinds -> Banks] ELSE [Kinds -> {1}]
    /\ calls = 0
    /\ faults = 0

\* lt_do_mutable_fw_update is called, for the first time or again.
Call ==
    /\ pc = 0
    /\ calls < MaxCalls
    /\ calls' = calls + 1
    /\ sent' = 0
    /\ IF \A k \in Kinds : config.image[k].fits
         THEN pc' = 1 /\ UNCHANGED result
         ELSE pc' = 0 /\ result' = "LT_PARAM_ERR"
    /\ UNCHANGED <<config, attrs, faults, chipVars>>

\* An exchange that fails, whether or not the chip executed it.
ExchangeFails(effect) ==
    /\ faults < MaxFaults
    /\ faults' = faults + 1
    /\ Fail("L2_ERR")
    /\ ChipUnchanged \/ effect
    /\ UNCHANGED <<config, calls>>

\* The chip answers a request it cannot execute with an error.
Refused ==
    /\ Fail("L2_ERR")
    /\ ChipUnchanged
    /\ UNCHANGED <<config, calls, faults>>

Wanted == IF Helper[pc].op = "maintenance" THEN "MAINTENANCE" ELSE "APPLICATION"

\* lt_reboot, up to the answer to its Startup_Req.
Startup ==
    /\ At({"maintenance", "application"})
    /\ sent = 0
    /\ \/ /\ mode # "ALARM"
          /\ Boot(Wanted)
          /\ sent' = 1
          /\ UNCHANGED <<config, pc, result, attrs, calls, faults>>
       \/ mode # "ALARM" /\ ExchangeFails(Boot(Wanted))
       \/ mode = "ALARM" /\ Refused

\* lt_reboot asks what mode the chip is in now.
GetMode ==
    /\ At({"maintenance", "application"})
    /\ sent = 1
    /\ \/ /\ \/ mode = Wanted /\ Continue
             \/ mode = "ALARM" /\ Fail("LT_L1_CHIP_ALARM_MODE")
             \/ mode \notin {Wanted, "ALARM"} /\ Fail("LT_REBOOT_UNSUCCESSFUL")
          /\ ChipUnchanged
          /\ UNCHANGED <<config, calls, faults>>
       \/ ExchangeFails(ChipUnchanged)

\* update_mutable_fw_bank begins: erasing for ABAB, the update request with the
\* header of the image for ACAB.
BeginUpdate ==
    /\ At({"update"})
    /\ sent = 0
    /\ LET step == Helper[pc]
       IN  \/ /\ ~config.image[step.kind].head
              /\ Fail("LT_PARAM_ERR")
              /\ ChipUnchanged
              /\ UNCHANGED <<config, calls, faults>>
           \/ /\ config.image[step.kind].head
              /\ \/ /\ mode = "MAINTENANCE"
                    /\ ChipErases(step)
                    /\ sent' = 1
                    /\ UNCHANGED <<config, pc, result, attrs, calls, faults>>
                 \/ mode = "MAINTENANCE" /\ ExchangeFails(ChipErases(step))
                 \/ mode # "MAINTENANCE" /\ Refused

\* Mutant of MoreChunks: one turn of the loop too many.
MoreChunksOneTooMany == sent <= Chunks

\* Is there another chunk after the one being sent?
MoreChunks == sent < Chunks

\* One chunk of the image, found by its length byte in ACAB's update data.
SendChunk ==
    /\ At({"update"})
    /\ sent # 0
    /\ LET step == Helper[pc]
           accepted == mode = "MAINTENANCE" /\ ChipAccepts(step)
       IN  \/ /\ config.image[step.kind].chunks < sent
              /\ Fail("LT_PARAM_ERR")
              /\ ChipUnchanged
              /\ UNCHANGED <<config, calls, faults>>
           \/ /\ config.image[step.kind].chunks >= sent
              /\ \/ /\ accepted
                    /\ ChipWrites
                    /\ IF MoreChunks
                         THEN sent' = sent + 1 /\ UNCHANGED <<pc, result, attrs>>
                         ELSE Continue
                    /\ UNCHANGED <<config, calls, faults>>
                 \/ accepted /\ ExchangeFails(ChipWrites)
                 \/ ~accepted /\ Refused

\* Mutant of FwVersion: a bank with any complete image passes.
FwVersionAny(header) == header \in Versions

\* Is the version in this header the one of the update data?
FwVersion(header) == header = "new"

\* validate_fw_ver_in_bank reads the header back, which takes the bootloader.
ValidateFwVerInBank ==
    /\ At({"validate"})
    /\ config.rev = "ACAB"
    /\ \/ /\ mode = "MAINTENANCE"
          /\ IF FwVersion(bank[Helper[pc].kind][Helper[pc].bank])
               THEN Continue ELSE Fail("LT_FAIL")
          /\ ChipUnchanged
          /\ UNCHANGED <<config, calls, faults>>
       \/ mode # "MAINTENANCE" /\ Refused
       \/ ExchangeFails(ChipUnchanged)

\* The version that was booted is compared with the version of the image.
CheckBooted ==
    /\ At({"check"})
    /\ config.rev = "ACAB"
    /\ \/ /\ mode # "ALARM"
          /\ IF FwVersion(booted[Helper[pc].kind]) THEN Continue ELSE Fail("LT_FAIL")
          /\ ChipUnchanged
          /\ UNCHANGED <<config, calls, faults>>
       \/ mode = "ALARM" /\ Refused
       \/ ExchangeFails(ChipUnchanged)

\* The steps a build for ABAB does not have.
NotCompiled ==
    /\ At({"validate", "check"})
    /\ config.rev = "ABAB"
    /\ Continue
    /\ ChipUnchanged
    /\ UNCHANGED <<config, calls, faults>>

\* Mutant of AttrsOf: what is known of the chip stays as it is.
AttrsOfCached(version) == attrs

\* What lt_init_tr01_attrs makes of a firmware version.
AttrsOf(version) ==
    IF version = "new" /\ ~config.supported THEN "none" ELSE version

InitAttrs ==
    /\ At({"attrs"})
    /\ pc' = 0
    /\ sent' = 0
    /\ ChipUnchanged
    /\ UNCHANGED <<config, calls>>
    /\ \/ /\ mode # "ALARM"
          /\ attrs' = AttrsOf(booted["cpu"])
          /\ result' = IF attrs' = "none" THEN "LT_APP_FW_TOO_NEW" ELSE "LT_OK"
          /\ UNCHANGED faults
       \/ /\ mode = "ALARM" \/ faults < MaxFaults
          /\ faults' = IF mode = "ALARM" THEN faults ELSE faults + 1
          /\ attrs' = "none"
          /\ result' = "L2_ERR"

\* The chip resets while the host goes on.
ChipReset ==
    /\ faults < MaxFaults
    /\ faults' = faults + 1
    /\ Boot("APPLICATION")
    /\ UNCHANGED <<config, hostVars, calls>>

\* The chip raises its tamper alarm, which only a loss of power ends.
ChipAlarm ==
    /\ mode # "ALARM"
    /\ faults < MaxFaults
    /\ faults' = faults + 1
    /\ mode' = "ALARM"
    /\ UNCHANGED <<config, hostVars, booted, bank, open, target, calls>>

\* The badge loses power and starts again, up to the end of lt_init.
PowerLoss ==
    /\ faults < MaxFaults
    /\ faults' = faults + 1
    /\ Boot("APPLICATION")
    /\ pc' = 0
    /\ sent' = 0
    /\ result' = "none"
    /\ attrs' = AttrsOf(booted'["cpu"])
    /\ UNCHANGED <<config, calls>>

Work ==
    \/ Startup \/ GetMode \/ BeginUpdate \/ SendChunk
    \/ ValidateFwVerInBank \/ CheckBooted \/ NotCompiled \/ InitAttrs

Next == Call \/ Work \/ ChipReset \/ ChipAlarm \/ PowerLoss

Spec == Init /\ [][Next]_vars

\* The helper runs to its end, and the caller follows the advice to call again.
FairSpec == Spec /\ WF_vars(Work) /\ WF_vars(Call)

-----------------------------------------------------------------------------
Rets == {"none", "LT_OK", "LT_PARAM_ERR", "LT_FAIL", "LT_L1_CHIP_ALARM_MODE",
         "LT_REBOOT_UNSUCCESSFUL", "LT_APP_FW_TOO_NEW", "L2_ERR"}

TypeOK ==
    /\ config \in Config
    /\ pc \in 0..Len(Helper)
    /\ sent \in 0..Chunks
    /\ result \in Rets
    /\ attrs \in Versions \cup {"none"}
    /\ mode \in {"MAINTENANCE", "APPLICATION", "ALARM"}
    /\ booted \in [Kinds -> Versions \cup {"none"}]
    /\ bank \in [Kinds -> [Banks -> Versions \cup {"broken"}]]
    /\ open = <<>> \/ open \in Kinds \X Banks \X (0..Chunks)
    /\ target \in [Kinds -> Banks]
    /\ calls \in 0..MaxCalls
    /\ faults \in 0..MaxFaults

\* When lt_do_mutable_fw_update has returned LT_OK, no bank holds the old
\* firmware any more (a chip could be brought back to it otherwise), the chip
\* runs the new one, and tr01_attrs is set up for what the chip runs.
OkMeansUpdated ==
    pc = 0 /\ result = "LT_OK" =>
        /\ \A k \in Kinds, b \in Banks : bank[k][b] = "new"
        /\ mode = "APPLICATION" => \A k \in Kinds : booted[k] = "new"
        /\ attrs = "new"

\* An update that is interrupted anywhere leaves the chip firmware to run of
\* both kinds.  With ABAB this is so for the first call only, because it does
\* not begin with the second banks before the first ones are complete.
KeepsBootable ==
    config.rev = "ACAB" \/ calls <= 1 => Bootable(bank)

-----------------------------------------------------------------------------
(* Why this is so: the parts of the inductive invariant.                   *)

\* While a bank is being written, host and chip agree on the next chunk.
ChunksAgree ==
    At({"update"}) /\ sent # 0 /\ ChipAccepts(Helper[pc]) => open[3] = sent - 1

\* What the steps done so far have shown of the banks: with ACAB, which chooses
\* the banks itself, only the validation shows anything.
Shown(i) ==
    /\ Helper[i].op = (IF config.rev = "ACAB" THEN "validate" ELSE "update")
    /\ pc > i \/ (pc = 0 /\ result = "LT_OK")

Progress ==
    \A i \in 1..Len(Helper) : Shown(i) => bank[Helper[i].kind][Helper[i].bank] = "new"

\* From the last reboot on the chip runs nothing but the new firmware.
Running ==
    /\ pc > 11 \/ (pc = 11 /\ sent # 0) \/ (pc = 0 /\ result = "LT_OK") =>
        \A k \in Kinds : booted[k] \in {"new", "none"}
    /\ mode = "APPLICATION" => \A k \in Kinds : booted[k] # "none"
    /\ pc = 0 /\ result = "LT_OK" => attrs = "new"

\* An ACAB chip keeps one complete image of each kind aside.
Spare ==
    config.rev = "ACAB" => \A k \in Kinds : Intact(bank, k, Other(target[k]))

\* An ABAB chip still has its second banks until the first call gets to them.
FirstCall ==
    config.rev = "ABAB" =>
        /\ calls = 0 => pc = 0
        /\ calls <= 1 => Bootable(bank)
        /\ calls = 0 => \A k \in Kinds : Intact(bank, k, 2)
        /\ calls = 1 /\ pc # 0 =>
            /\ pc < 5 \/ (pc = 5 /\ sent = 0) => Intact(bank, "cpu", 2)
            /\ pc < 6 \/ (pc = 6 /\ sent = 0) => Intact(bank, "spect", 2)

IInv == TypeOK /\ ChunksAgree /\ Progress /\ Running /\ Spare /\ FirstCall

-----------------------------------------------------------------------------
\* Calling the helper again until it succeeds does bring the update to its end,
\* for good update data and a chip that allows it, when no cause of failure lasts,
\* and the chip changes over to the other bank as libtropic expects it to.
RetrySucceeds ==
    /\ config.alternates /\ config.supported /\ config.maintenance
    /\ \A k \in Kinds : config.image[k] = Whole
    /\ [](mode # "ALARM")
    => <>(pc = 0 /\ result = "LT_OK")
=============================================================================
