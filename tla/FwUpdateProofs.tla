---------------------------- MODULE FwUpdateProofs ----------------------------
(***************************************************************************)
(* Proofs about FwUpdate: for every number of chunks, calls and faults,    *)
(* LT_OK from lt_do_mutable_fw_update means that the whole chip is         *)
(* updated, an interruption leaves firmware to run, and a call that is not *)
(* disturbed ends with LT_OK however the ones before it ended.             *)
(***************************************************************************)
EXTENDS FwUpdate, TLAPS

\* What each step of the helper is.
LEMMA HelperSteps ==
    /\ Len(Helper) = 14
    /\ \A i \in 1..14 :
        /\ i \in {1, 4} => Helper[i].op = "maintenance"
        /\ i \in {2, 3, 5, 6} => Helper[i].op = "update"
        /\ i \in 7..10 => Helper[i].op = "validate"
        /\ i = 11 => Helper[i].op = "application"
        /\ i \in {12, 13} => Helper[i].op = "check"
        /\ i = 14 => Helper[i].op = "attrs"
        /\ Helper[i].kind \in Kinds
        /\ Helper[i].bank \in Banks
        /\ i \in {2, 5, 7, 9} => Helper[i].kind = "cpu"
        /\ i \in {3, 6, 8, 10} => Helper[i].kind = "spect"
        /\ i \in {2, 3, 7, 8} => Helper[i].bank = 1
        /\ i \in {5, 6, 9, 10} => Helper[i].bank = 2
  <1>1. Len(Helper) = 14
    BY DEF Helper, Step
  <1>2. ASSUME NEW i \in 1..14
        PROVE  /\ i \in {1, 4} => Helper[i].op = "maintenance"
               /\ i \in {2, 3, 5, 6} => Helper[i].op = "update"
               /\ i \in 7..10 => Helper[i].op = "validate"
               /\ i = 11 => Helper[i].op = "application"
               /\ i \in {12, 13} => Helper[i].op = "check"
               /\ i = 14 => Helper[i].op = "attrs"
               /\ Helper[i].kind \in Kinds
               /\ Helper[i].bank \in Banks
               /\ i \in {2, 5, 7, 9} => Helper[i].kind = "cpu"
               /\ i \in {3, 6, 8, 10} => Helper[i].kind = "spect"
               /\ i \in {2, 3, 7, 8} => Helper[i].bank = 1
               /\ i \in {5, 6, 9, 10} => Helper[i].bank = 2
    <2>1. CASE i \in 1..5   BY <2>1 DEF Helper, Step, Kinds, Banks
    <2>2. CASE i \in 6..10  BY <2>2 DEF Helper, Step, Kinds, Banks
    <2>3. CASE i \in 11..14 BY <2>3 DEF Helper, Step, Kinds, Banks
    <2>4. QED BY <2>1, <2>2, <2>3
  <1>3. QED BY <1>1, <1>2

\* At which steps the helper does what.
LEMMA Where ==
    ASSUME pc \in 0..14
    PROVE  /\ At({"maintenance", "application"}) <=> pc \in {1, 4, 11}
           /\ At({"update"}) <=> pc \in {2, 3, 5, 6}
           /\ At({"validate"}) <=> pc \in 7..10
           /\ At({"check"}) <=> pc \in {12, 13}
           /\ At({"validate", "check"}) <=> pc \in 7..10 \cup {12, 13}
           /\ At({"attrs"}) <=> pc = 14
  <1>1. CASE pc = 0
    BY <1>1 DEF At
  <1>2. CASE pc \in 1..14
    <2>1. pc \in {1, 4} \/ pc \in {2, 3, 5, 6} \/ pc \in 7..10 \/ pc = 11
            \/ pc \in {12, 13} \/ pc = 14
      BY <1>2
    <2>2. QED BY <1>2, <2>1, HelperSteps DEF At
  <1>3. QED BY <1>1, <1>2

-----------------------------------------------------------------------------
(* What is left of the invariant when the helper has given up: the part    *)
(* about the chip.                                                         *)
ChipTypeOK ==
    /\ mode \in {"MAINTENANCE", "APPLICATION", "ALARM"}
    /\ booted \in [Kinds -> Versions \cup {"none"}]
    /\ bank \in [Kinds -> [Banks -> Versions \cup {"broken"}]]
    /\ open = <<>> \/ open \in Kinds \X Banks \X (0..Chunks)
    /\ target \in [Kinds -> Banks]

ChipSound ==
    /\ ChipTypeOK
    /\ Spare
    /\ mode = "APPLICATION" => \A k \in Kinds : booted[k] # "none"
    /\ config.rev = "ABAB" /\ calls <= 1 => Bootable(bank)

LEMMA SoundNow ==
    ASSUME IInv
    PROVE  ChipSound
  BY DEF IInv, TypeOK, ChipTypeOK, ChipSound, Running, FirstCall

LEMMA UnchangedSound ==
    ASSUME IInv, ChipUnchanged, config' = config, calls' = calls
    PROVE  ChipSound'
  BY SoundNow DEF ChipUnchanged, chipVars, ChipSound, ChipTypeOK, Spare, Bootable, Intact

LEMMA BootSound ==
    ASSUME IInv, NEW wanted \in {"MAINTENANCE", "APPLICATION"}, Boot(wanted),
           config' = config, calls' = calls
    PROVE  ChipSound'
  <1>1. ChipSound
    BY SoundNow
  <1>2. config.rev \in {"ABAB", "ACAB"}
    BY DEF IInv, TypeOK, Config
  <1>3. ChipTypeOK'
    BY <1>1, <1>2 DEF Boot, ChipSound, ChipTypeOK, Newest, Versions
  <1>4. Spare'
    <2> SUFFICES ASSUME config.rev = "ACAB", NEW k \in Kinds
                 PROVE  Intact(bank, k, Other(target'[k]))
      BY DEF Spare, Boot, Intact
    <2>1. target' \in [Kinds -> Banks] /\ MayTarget(bank, k, target'[k])
      BY DEF Boot
    <2>2. \E b \in Banks : Intact(bank, k, b)
      <3>1. Intact(bank, k, Other(target[k])) /\ target[k] \in Banks
        BY <1>1 DEF ChipSound, ChipTypeOK, Spare
      <3>2. QED BY <3>1 DEF Other, Banks
    <2>3. QED BY <2>1, <2>2 DEF MayTarget, Other, Banks
  <1>5. mode' = "APPLICATION" => \A k \in Kinds : booted'[k] # "none"
    BY DEF Boot, Newest
  <1>6. config.rev = "ABAB" /\ calls <= 1 => Bootable(bank')
    BY <1>1 DEF ChipSound, Boot, Bootable, Intact
  <1>7. QED BY <1>3, <1>4, <1>5, <1>6 DEF ChipSound, Bootable, Intact

LEMMA EraseSound ==
    ASSUME IInv, pc \in {2, 3, 5, 6}, mode = "MAINTENANCE", sent = 0,
           ChipErases(Helper[pc]), config' = config, calls' = calls
    PROVE  /\ ChipSound'
           /\ open' = <<Helper[pc].kind, Destination(Helper[pc]), 0>>
           /\ \A k \in Kinds, b \in Banks :
                k # Helper[pc].kind \/ b # Destination(Helper[pc])
                    => bank'[k][b] = bank[k][b]
  <1>1. ChipSound /\ TypeOK
    BY SoundNow DEF IInv
  <1> DEFINE kind == Helper[pc].kind
             dest == Destination(Helper[pc])
  <1>2. kind \in Kinds /\ dest \in Banks
    BY <1>1, HelperSteps DEF Destination, ChipSound, ChipTypeOK
  <1>3. /\ bank' = [bank EXCEPT ![kind][dest] = "broken"]
        /\ open' = <<kind, dest, 0>>
        /\ UNCHANGED <<mode, booted, target>>
    BY DEF ChipErases
  <1> HIDE DEF kind, dest
  <1>4. \A k \in Kinds, b \in Banks : k # kind \/ b # dest => bank'[k][b] = bank[k][b]
    BY <1>1, <1>2, <1>3 DEF ChipSound, ChipTypeOK
  <1>5. ChipTypeOK'
    BY <1>1, <1>2, <1>3, ChunksAssumption DEF ChipSound, ChipTypeOK
  <1>6. Spare'
    <2> SUFFICES ASSUME config.rev = "ACAB", NEW k \in Kinds
                 PROVE  Intact(bank', k, Other(target[k]))
      BY <1>3 DEF Spare, Intact
    <2>1. dest = target[kind]
      BY DEF dest, kind, Destination
    <2>2. target[k] \in Banks /\ Other(target[k]) \in Banks /\ Other(target[k]) # target[k]
      BY <1>1 DEF ChipSound, ChipTypeOK, Other, Banks
    <2>3. bank'[k][Other(target[k])] = bank[k][Other(target[k])]
      BY <1>4, <2>1, <2>2
    <2>4. Intact(bank, k, Other(target[k]))
      BY <1>1 DEF ChipSound, Spare
    <2>5. QED BY <2>3, <2>4 DEF Intact
  <1>7. config.rev = "ABAB" /\ calls <= 1 => Bootable(bank')
    <2> SUFFICES ASSUME config.rev = "ABAB", calls <= 1, NEW k \in Kinds
                 PROVE  \E b \in Banks : Intact(bank', k, b)
      BY DEF Bootable
    <2>1. calls = 1 /\ dest = Helper[pc].bank
      BY DEF IInv, TypeOK, FirstCall, dest, Destination
    <2>2. CASE k # kind
      BY <1>1, <1>4, <2>2 DEF ChipSound, Bootable, Intact
    <2>3. CASE k = kind /\ pc \in {2, 3}
      <3>1. dest = 1 /\ Intact(bank, k, 2)
        BY <2>1, <2>3, HelperSteps DEF IInv, FirstCall, kind
      <3>2. QED BY <1>4, <3>1 DEF Intact, Banks
    <2>4. CASE k = kind /\ pc \in {5, 6}
      <3>1. dest = 2
        BY <2>1, <2>4, HelperSteps
      <3>2. CASE pc = 5
        <4>1. k = "cpu" /\ bank["cpu"][1] = "new"
          BY <2>4, <3>2, HelperSteps DEF IInv, Progress, Shown, kind
        <4>2. QED BY <1>4, <3>1, <4>1 DEF Intact, Banks, Versions
      <3>3. CASE pc = 6
        <4>1. k = "spect" /\ bank["spect"][1] = "new"
          BY <2>4, <3>3, HelperSteps DEF IInv, Progress, Shown, kind
        <4>2. QED BY <1>4, <3>1, <4>1 DEF Intact, Banks, Versions
      <3>4. QED BY <2>4, <3>2, <3>3
    <2>5. QED BY <2>2, <2>3, <2>4
  <1>8. QED BY <1>1, <1>3, <1>4, <1>5, <1>6, <1>7
            DEF ChipSound, kind, dest, Bootable, Intact

LEMMA WriteSound ==
    ASSUME IInv, pc \in {2, 3, 5, 6}, sent # 0,
           ChipAccepts(Helper[pc]), ChipWrites, config' = config, calls' = calls
    PROVE  /\ ChipSound'
           /\ open' = <<Helper[pc].kind, Destination(Helper[pc]), sent>>
           /\ \A k \in Kinds, b \in Banks :
                bank'[k][b] \in {bank[k][b], "new"}
           /\ sent = Chunks =>
                bank'[Helper[pc].kind][Destination(Helper[pc])] = "new"
  <1>1. ChipSound /\ TypeOK
    BY SoundNow DEF IInv
  <1> DEFINE kind == Helper[pc].kind
             dest == Destination(Helper[pc])
  <1>2. kind \in Kinds /\ dest \in Banks
    BY <1>1, HelperSteps DEF Destination, ChipSound, ChipTypeOK
  <1>3. open[1] = kind /\ open[2] = dest /\ open[3] = sent - 1
    BY Where DEF IInv, ChunksAgree, ChipAccepts
  <1>4. sent \in 1..Chunks /\ sent - 1 + 1 = sent
    BY <1>1, ChunksAssumption DEF TypeOK
  <1>5. /\ open' = <<kind, dest, sent>>
        /\ bank' = [bank EXCEPT ![kind][dest] = IF sent = Chunks THEN "new" ELSE @]
        /\ UNCHANGED <<mode, booted, target>>
    BY <1>3, <1>4 DEF ChipWrites
  <1> HIDE DEF kind, dest
  <1>6. \A k \in Kinds, b \in Banks : bank'[k][b] \in {bank[k][b], "new"}
    BY <1>1, <1>2, <1>5 DEF ChipSound, ChipTypeOK
  <1>7. sent = Chunks => bank'[kind][dest] = "new"
    BY <1>1, <1>2, <1>5 DEF ChipSound, ChipTypeOK
  <1>8. ChipTypeOK'
    BY <1>1, <1>2, <1>4, <1>5, ChunksAssumption DEF ChipSound, ChipTypeOK, Versions
  <1>9. \A k \in Kinds, b \in Banks : Intact(bank, k, b) => Intact(bank', k, b)
    BY <1>6 DEF Intact, Versions
  <1>10. Spare'
    <2>1. \A k \in Kinds : Other(target[k]) \in Banks
      BY <1>1 DEF ChipSound, ChipTypeOK, Other, Banks
    <2>2. QED BY <1>1, <1>5, <1>9, <2>1 DEF ChipSound, Spare, Intact
  <1>11. Bootable(bank) => Bootable(bank')
    BY <1>9 DEF Bootable
  <1>12. QED BY <1>1, <1>5, <1>6, <1>7, <1>8, <1>10, <1>11
             DEF ChipSound, kind, dest, Bootable, Intact

-----------------------------------------------------------------------------
(* The two ways a step of the helper ends.                                 *)
Errors == Rets \ {"none", "LT_OK"}

LEMMA FailKeeps ==
    ASSUME IInv, pc # 0, NEW ret \in Errors, Fail(ret), ChipSound',
           config' = config, calls' = calls, faults' \in 0..MaxFaults
    PROVE  IInv'
  <1>1. TypeOK'
    BY HelperSteps, ChunksAssumption DEF IInv, TypeOK, ChipSound, ChipTypeOK, Fail, Errors
  <1>2. ChunksAgree'
    BY DEF Fail, ChunksAgree, At
  <1>3. pc' = 0 /\ result' # "LT_OK"
    BY DEF Fail, Errors
  <1>4. Progress'
    BY <1>3, HelperSteps DEF Progress, Shown
  <1>5. Running'
    BY <1>3 DEF Running, ChipSound
  <1>6. Spare'
    BY DEF ChipSound
  <1>7. FirstCall'
    <2>1. config.rev = "ABAB" => calls # 0
      BY DEF IInv, FirstCall
    <2>2. QED BY <1>3, <2>1 DEF FirstCall, ChipSound
  <1>8. QED BY <1>1, <1>2, <1>4, <1>5, <1>6, <1>7 DEF IInv

\* After a step that has left the banks alone, what it has shown is what the
\* step itself says.
LEMMA ContinueKeeps ==
    ASSUME IInv, pc \in 1..13, Continue, ChipUnchanged,
           config' = config, calls' = calls, faults' \in 0..MaxFaults,
           Helper[pc].op = (IF config.rev = "ACAB" THEN "validate" ELSE "update")
                => bank[Helper[pc].kind][Helper[pc].bank] = "new",
           pc = 11 => sent # 0
    PROVE  IInv'
  <1>1. ChipSound'
    BY UnchangedSound
  <1>2. pc' = pc + 1 /\ sent' = 0 /\ UNCHANGED <<result, attrs>>
    BY DEF Continue
  <1>3. UNCHANGED <<mode, booted, bank, open, target>>
    BY DEF ChipUnchanged, chipVars
  <1>4. TypeOK'
    BY <1>2, <1>3, HelperSteps, ChunksAssumption DEF IInv, TypeOK
  <1>5. ChunksAgree'
    BY <1>2 DEF ChunksAgree
  <1>6. Progress'
    BY <1>2, <1>3, HelperSteps DEF IInv, Progress, Shown
  <1>7. Running'
    <2>1. pc' > 11 => pc > 11 \/ pc = 11
      BY <1>2
    <2>2. QED BY <1>2, <1>3, <2>1 DEF IInv, Running
  <1>8. Spare'
    BY <1>1 DEF ChipSound
  <1>9. FirstCall'
    BY <1>1, <1>2, <1>3 DEF IInv, FirstCall, ChipSound, Bootable, Intact
  <1>10. QED BY <1>4, <1>5, <1>6, <1>7, <1>8, <1>9 DEF IInv

\* A step fails, the chip having executed the request or not.
LEMMA ExchangeFailsKeeps ==
    ASSUME IInv, pc # 0, Fail("L2_ERR"), ChipSound', config' = config, calls' = calls,
           \/ faults < MaxFaults /\ faults' = faults + 1
           \/ faults' = faults
    PROVE  IInv'
  <1>1. faults' \in 0..MaxFaults
    BY BoundsAssumption DEF IInv, TypeOK
  <1>2. "L2_ERR" \in Errors
    BY DEF Errors, Rets
  <1>3. QED BY <1>1, <1>2, FailKeeps

-----------------------------------------------------------------------------
(* The actions.                                                            *)
LEMMA CallKeeps == IInv /\ Call => IInv'
  <1> SUFFICES ASSUME IInv, Call PROVE IInv'
    OBVIOUS
  <1>1. ChipSound /\ ChipUnchanged
    BY SoundNow DEF Call, ChipUnchanged
  <1>2. /\ pc = 0 /\ sent' = 0 /\ calls' = calls + 1 /\ calls' \in 0..MaxCalls
        /\ UNCHANGED <<config, attrs, faults, mode, booted, bank, open, target>>
    BY BoundsAssumption DEF Call, chipVars, IInv, TypeOK
  <1>3. pc' \in {0, 1} /\ (pc' = 0 => result' = "LT_PARAM_ERR") /\ result' \in Rets
    BY DEF Call, IInv, TypeOK, Rets
  <1>4. TypeOK'
    BY <1>2, <1>3, HelperSteps, ChunksAssumption DEF IInv, TypeOK
  <1>5. ChunksAgree'
    BY <1>2 DEF ChunksAgree
  <1>6. Progress'
    BY <1>3, HelperSteps DEF Progress, Shown
  <1>7. Running'
    BY <1>2, <1>3 DEF IInv, Running
  <1>8. Spare'
    BY <1>1, <1>2 DEF ChipSound, Spare, Intact
  <1>9. FirstCall'
    BY <1>2, <1>3 DEF IInv, TypeOK, FirstCall, Bootable, Intact, Kinds
  <1>10. QED BY <1>4, <1>5, <1>6, <1>7, <1>8, <1>9 DEF IInv

\* While the helper is at its last reboot all banks hold the new firmware.
LEMMA AllNew ==
    ASSUME IInv, pc > 10 \/ (pc = 0 /\ result = "LT_OK")
    PROVE  \A k \in Kinds, b \in Banks : bank[k][b] = "new"
  <1>1. config.rev \in {"ABAB", "ACAB"}
    BY DEF IInv, TypeOK, Config
  <1>2. pc \in 0..14
    BY HelperSteps DEF IInv, TypeOK
  <1>3. CASE config.rev = "ACAB"
    <2>1. Shown(7) /\ Shown(8) /\ Shown(9) /\ Shown(10)
      BY <1>2, <1>3, HelperSteps DEF Shown
    <2>2. QED BY <2>1, HelperSteps DEF IInv, Progress, Kinds, Banks
  <1>4. CASE config.rev = "ABAB"
    <2>1. Shown(2) /\ Shown(3) /\ Shown(5) /\ Shown(6)
      BY <1>2, <1>4, HelperSteps DEF Shown
    <2>2. QED BY <2>1, HelperSteps DEF IInv, Progress, Kinds, Banks
  <1>5. QED BY <1>1, <1>3, <1>4

\* A chip that starts with nothing but the new firmware runs the new firmware.
LEMMA BootsNew ==
    ASSUME NEW wanted, Boot(wanted), \A k \in Kinds, b \in Banks : bank[k][b] = "new"
    PROVE  /\ \A k \in Kinds : booted'[k] \in {"new", "none"}
           /\ bank' = bank
  BY DEF Boot, Newest, Banks

LEMMA StartupKeeps == IInv /\ Startup => IInv'
  <1> SUFFICES ASSUME IInv, Startup PROVE IInv'
    OBVIOUS
  <1>1. pc \in {1, 4, 11} /\ sent = 0
    BY Where, HelperSteps DEF IInv, TypeOK, Startup
  <1>2. Wanted \in {"MAINTENANCE", "APPLICATION"}
    BY DEF Wanted
  <1>3. CASE mode = "ALARM" /\ Refused
    BY <1>1, <1>3, UnchangedSound, ExchangeFailsKeeps DEF Refused
  <1>4. CASE ExchangeFails(Boot(Wanted))
    <2>1. ChipSound'
      BY <1>2, <1>4, UnchangedSound, BootSound DEF ExchangeFails
    <2>2. QED BY <1>1, <1>4, <2>1, ExchangeFailsKeeps DEF ExchangeFails
  <1>5. CASE /\ Boot(Wanted)
             /\ sent' = 1
             /\ UNCHANGED <<config, pc, result, attrs, calls, faults>>
    <2>1. ChipSound'
      BY <1>2, <1>5, BootSound
    <2>2. bank' = bank
      BY <1>5 DEF Boot
    <2>3. TypeOK'
      BY <1>5, <2>1, ChunksAssumption DEF IInv, TypeOK, ChipSound, ChipTypeOK
    <2>4. ChunksAgree'
      BY <1>1, <1>5, <2>3, Where, HelperSteps DEF ChunksAgree, At, TypeOK
    <2>5. Progress'
      BY <1>5, <2>2 DEF IInv, Progress, Shown
    <2>6. Running'
      <3>1. CASE pc = 11
        <4>1. \A k \in Kinds : booted'[k] \in {"new", "none"}
          BY <1>5, <3>1, AllNew, BootsNew
        <4>2. QED BY <1>5, <2>1, <3>1, <4>1 DEF Running, ChipSound
      <3>2. CASE pc \in {1, 4}
        BY <1>5, <2>1, <3>2 DEF Running, ChipSound
      <3>3. QED BY <1>1, <3>1, <3>2
    <2>7. Spare'
      BY <2>1 DEF ChipSound
    <2>8. FirstCall'
      BY <1>1, <1>5, <2>1, <2>2 DEF IInv, FirstCall, ChipSound, Intact
    <2>9. QED BY <2>3, <2>4, <2>5, <2>6, <2>7, <2>8 DEF IInv
  <1>6. QED BY <1>3, <1>4, <1>5 DEF Startup

LEMMA GetModeKeeps == IInv /\ GetMode => IInv'
  <1> SUFFICES ASSUME IInv, GetMode PROVE IInv'
    OBVIOUS
  <1>1. pc \in {1, 4, 11} /\ sent # 0
    BY Where, HelperSteps DEF IInv, TypeOK, GetMode
  <1>2. CASE ExchangeFails(ChipUnchanged)
    BY <1>1, <1>2, UnchangedSound, ExchangeFailsKeeps DEF ExchangeFails
  <1>3. CASE ChipUnchanged /\ UNCHANGED <<config, calls, faults>>
    <2>1. ChipSound' /\ faults' \in 0..MaxFaults
      BY <1>3, UnchangedSound DEF IInv, TypeOK
    <2>2. CASE Continue
      BY <1>1, <1>3, <2>1, <2>2, ContinueKeeps, HelperSteps
    <2>3. CASE Fail("LT_L1_CHIP_ALARM_MODE") \/ Fail("LT_REBOOT_UNSUCCESSFUL")
      BY <1>1, <1>3, <2>1, <2>3, FailKeeps DEF Errors, Rets
    <2>4. CASE ExchangeFails(ChipUnchanged)
      BY <1>2, <2>4
    <2>5. QED BY <2>2, <2>3, <2>4 DEF GetMode
  <1>4. QED BY <1>2, <1>3 DEF GetMode

LEMMA BeginUpdateKeeps == IInv /\ BeginUpdate => IInv'
  <1> SUFFICES ASSUME IInv, BeginUpdate PROVE IInv'
    OBVIOUS
  <1>1. pc \in {2, 3, 5, 6} /\ sent = 0
    BY Where, HelperSteps DEF IInv, TypeOK, BeginUpdate
  <1>2. CASE Fail("LT_PARAM_ERR") /\ ChipUnchanged /\ UNCHANGED <<config, calls, faults>>
    <2>1. ChipSound' /\ faults' \in 0..MaxFaults
      BY <1>2, UnchangedSound DEF IInv, TypeOK
    <2>2. QED BY <1>1, <1>2, <2>1, FailKeeps DEF Errors, Rets
  <1>3. CASE Refused
    BY <1>1, <1>3, UnchangedSound, ExchangeFailsKeeps DEF Refused
  <1>4. CASE mode = "MAINTENANCE" /\ ExchangeFails(ChipErases(Helper[pc]))
    <2>1. ChipSound'
      BY <1>1, <1>4, UnchangedSound, EraseSound DEF ExchangeFails
    <2>2. QED BY <1>1, <1>4, <2>1, ExchangeFailsKeeps DEF ExchangeFails
  <1>5. CASE /\ mode = "MAINTENANCE"
             /\ ChipErases(Helper[pc])
             /\ sent' = 1
             /\ UNCHANGED <<config, pc, result, attrs, calls, faults>>
    <2>1. /\ ChipSound'
          /\ open' = <<Helper[pc].kind, Destination(Helper[pc]), 0>>
          /\ \A k \in Kinds, b \in Banks :
                k # Helper[pc].kind \/ b # Destination(Helper[pc])
                    => bank'[k][b] = bank[k][b]
      BY <1>1, <1>5, EraseSound
    <2>2. TypeOK'
      BY <1>5, <2>1, ChunksAssumption DEF IInv, TypeOK, ChipSound, ChipTypeOK
    <2>3. ChunksAgree'
      BY <1>5, <2>1 DEF ChunksAgree
    <2>4. Progress'
      <3> SUFFICES ASSUME NEW i \in 1..Len(Helper), Shown(i)'
                   PROVE  bank'[Helper[i].kind][Helper[i].bank] = "new"
        BY DEF Progress
      <3>1. i \in 1..14 /\ Shown(i) /\ pc > i
        BY <1>1, <1>5, HelperSteps DEF Shown
      <3>2. config.rev = "ABAB" /\ i \in {2, 3, 5, 6}
        BY <1>1, <3>1, HelperSteps DEF Shown, IInv, TypeOK, Config
      <3>3. Helper[i].kind # Helper[pc].kind \/ Helper[i].bank # Helper[pc].bank
        BY <1>1, <3>1, <3>2, HelperSteps
      <3>4. Helper[i].kind \in Kinds /\ Helper[i].bank \in Banks
        BY <3>1, HelperSteps
      <3>5. bank'[Helper[i].kind][Helper[i].bank] = bank[Helper[i].kind][Helper[i].bank]
        BY <2>1, <3>2, <3>3, <3>4 DEF Destination
      <3>6. QED BY <3>1, <3>5 DEF IInv, Progress
    <2>5. Running'
      BY <1>1, <1>5, <2>1 DEF Running, ChipSound
    <2>6. Spare'
      BY <2>1 DEF ChipSound
    <2>7. FirstCall'
      <3>1. ASSUME config.rev = "ABAB"
            PROVE  \A k \in Kinds : k # Helper[pc].kind \/ pc \in {2, 3}
                        => (Intact(bank, k, 2) => Intact(bank', k, 2))
        BY <1>1, <2>1, <3>1, HelperSteps DEF Destination, Intact, Banks
      <3>2. config.rev = "ABAB" => calls # 0
        BY <1>1 DEF IInv, FirstCall
      <3>3. config.rev = "ABAB" /\ calls = 1 =>
                /\ pc < 5 => Intact(bank', "cpu", 2)
                /\ pc < 6 => Intact(bank', "spect", 2)
        BY <1>1, <3>1, HelperSteps DEF IInv, FirstCall, Kinds
      <3>4. QED BY <1>1, <1>5, <2>1, <3>2, <3>3 DEF FirstCall, ChipSound
    <2>8. QED BY <2>2, <2>3, <2>4, <2>5, <2>6, <2>7 DEF IInv
  <1>6. QED BY <1>2, <1>3, <1>4, <1>5 DEF BeginUpdate

LEMMA SendChunkKeeps == IInv /\ SendChunk => IInv'
  <1> SUFFICES ASSUME IInv, SendChunk PROVE IInv'
    OBVIOUS
  <1>1. pc \in {2, 3, 5, 6} /\ sent # 0 /\ sent \in 0..Chunks
    BY Where, HelperSteps DEF IInv, TypeOK, SendChunk
  <1>2. CASE Fail("LT_PARAM_ERR") /\ ChipUnchanged /\ UNCHANGED <<config, calls, faults>>
    <2>1. ChipSound' /\ faults' \in 0..MaxFaults
      BY <1>2, UnchangedSound DEF IInv, TypeOK
    <2>2. QED BY <1>1, <1>2, <2>1, FailKeeps DEF Errors, Rets
  <1>3. CASE Refused
    BY <1>1, <1>3, UnchangedSound, ExchangeFailsKeeps DEF Refused
  <1>4. CASE ChipAccepts(Helper[pc]) /\ ExchangeFails(ChipWrites)
    <2>1. ChipSound'
      BY <1>1, <1>4, UnchangedSound, WriteSound DEF ExchangeFails
    <2>2. QED BY <1>1, <1>4, <2>1, ExchangeFailsKeeps DEF ExchangeFails
  <1>5. CASE /\ ChipAccepts(Helper[pc])
             /\ ChipWrites
             /\ IF MoreChunks
                  THEN sent' = sent + 1 /\ UNCHANGED <<pc, result, attrs>>
                  ELSE Continue
             /\ UNCHANGED <<config, calls, faults>>
    <2>1. /\ ChipSound'
          /\ open' = <<Helper[pc].kind, Destination(Helper[pc]), sent>>
          /\ \A k \in Kinds, b \in Banks : bank'[k][b] \in {bank[k][b], "new"}
          /\ sent = Chunks =>
                bank'[Helper[pc].kind][Destination(Helper[pc])] = "new"
      BY <1>1, <1>5, WriteSound
    <2>2. /\ UNCHANGED <<result, attrs>>
          /\ \/ sent < Chunks /\ sent' = sent + 1 /\ pc' = pc
             \/ sent = Chunks /\ sent' = 0 /\ pc' = pc + 1
      BY <1>1, <1>5, ChunksAssumption DEF MoreChunks, Continue
    <2>3. TypeOK'
      <3>1. pc' \in 0..14 /\ sent' \in 0..Chunks
        BY <1>1, <2>2, ChunksAssumption
      <3>2. QED BY <1>5, <2>1, <2>2, <3>1, HelperSteps
                DEF IInv, TypeOK, ChipSound, ChipTypeOK
    <2>4. ChunksAgree'
      BY <1>1, <2>1, <2>2, ChunksAssumption DEF ChunksAgree
    <2>5. Progress'
      <3> SUFFICES ASSUME NEW i \in 1..Len(Helper), Shown(i)'
                   PROVE  bank'[Helper[i].kind][Helper[i].bank] = "new"
        BY DEF Progress
      <3>1. Helper[i].kind \in Kinds /\ Helper[i].bank \in Banks /\ i \in 1..14
        BY HelperSteps
      <3>2. CASE Shown(i)
        BY <2>1, <3>1, <3>2 DEF IInv, Progress
      <3>3. CASE ~Shown(i)
        <4>1. i = pc /\ sent = Chunks
          BY <1>1, <1>5, <2>2, <3>1, <3>3 DEF Shown
        <4>2. config.rev # "ACAB"
          BY <1>1, <1>5, <4>1, HelperSteps DEF Shown
        <4>3. QED BY <2>1, <4>1, <4>2 DEF Destination
      <3>4. QED BY <3>2, <3>3
    <2>6. Running'
      BY <1>1, <2>1, <2>2 DEF Running, ChipSound
    <2>7. Spare'
      BY <2>1 DEF ChipSound
    <2>8. FirstCall'
      <3>1. \A k \in Kinds : Intact(bank, k, 2) => Intact(bank', k, 2)
        BY <2>1 DEF Intact, Versions, Banks
      <3>2. config.rev = "ABAB" => calls # 0
        BY <1>1 DEF IInv, FirstCall
      <3>3. config.rev = "ABAB" /\ calls = 1 =>
                /\ pc < 5 => Intact(bank', "cpu", 2)
                /\ pc < 6 => Intact(bank', "spect", 2)
        BY <1>1, <3>1 DEF IInv, FirstCall, Kinds
      <3>4. config.rev = "ABAB" /\ calls = 1 =>
                /\ pc' < 5 \/ (pc' = 5 /\ sent' = 0) => pc < 5
                /\ pc' < 6 \/ (pc' = 6 /\ sent' = 0) => pc < 6
        BY <1>1, <2>2
      <3>5. QED BY <1>1, <1>5, <2>1, <2>2, <3>2, <3>3, <3>4 DEF FirstCall, ChipSound
    <2>9. QED BY <2>3, <2>4, <2>5, <2>6, <2>7, <2>8 DEF IInv
  <1>6. QED BY <1>2, <1>3, <1>4, <1>5 DEF SendChunk

LEMMA ValidateKeeps == IInv /\ ValidateFwVerInBank => IInv'
  <1> SUFFICES ASSUME IInv, ValidateFwVerInBank PROVE IInv'
    OBVIOUS
  <1>1. pc \in 7..10 /\ faults \in 0..MaxFaults
    BY Where, HelperSteps DEF IInv, TypeOK, ValidateFwVerInBank
  <1>2. CASE Refused \/ ExchangeFails(ChipUnchanged)
    BY <1>1, <1>2, UnchangedSound, ExchangeFailsKeeps DEF Refused, ExchangeFails
  <1>3. CASE /\ IF FwVersion(bank[Helper[pc].kind][Helper[pc].bank])
                  THEN Continue ELSE Fail("LT_FAIL")
             /\ ChipUnchanged
             /\ UNCHANGED <<config, calls, faults>>
    <2>1. CASE Continue /\ bank[Helper[pc].kind][Helper[pc].bank] = "new"
      BY <1>1, <1>3, <2>1, ContinueKeeps
    <2>2. CASE Fail("LT_FAIL")
      BY <1>1, <1>3, <2>2, UnchangedSound, FailKeeps DEF Errors, Rets
    <2>3. QED BY <1>3, <2>1, <2>2 DEF FwVersion
  <1>4. QED BY <1>2, <1>3 DEF ValidateFwVerInBank

LEMMA CheckKeeps == IInv /\ CheckBooted => IInv'
  <1> SUFFICES ASSUME IInv, CheckBooted PROVE IInv'
    OBVIOUS
  <1>1. pc \in {12, 13} /\ faults \in 0..MaxFaults /\ config.rev = "ACAB"
    BY Where, HelperSteps DEF IInv, TypeOK, CheckBooted
  <1>2. CASE Refused \/ ExchangeFails(ChipUnchanged)
    BY <1>1, <1>2, UnchangedSound, ExchangeFailsKeeps DEF Refused, ExchangeFails
  <1>3. CASE /\ IF FwVersion(booted[Helper[pc].kind]) THEN Continue ELSE Fail("LT_FAIL")
             /\ ChipUnchanged
             /\ UNCHANGED <<config, calls, faults>>
    <2>1. CASE Continue
      BY <1>1, <1>3, <2>1, ContinueKeeps, HelperSteps
    <2>2. CASE Fail("LT_FAIL")
      BY <1>1, <1>3, <2>2, UnchangedSound, FailKeeps DEF Errors, Rets
    <2>3. QED BY <1>3, <2>1, <2>2
  <1>4. QED BY <1>2, <1>3 DEF CheckBooted

LEMMA NotCompiledKeeps == IInv /\ NotCompiled => IInv'
  <1> SUFFICES ASSUME IInv, NotCompiled PROVE IInv'
    OBVIOUS
  <1>1. /\ pc \in 7..10 \cup {12, 13}
        /\ faults \in 0..MaxFaults
        /\ config.rev = "ABAB"
    BY Where, HelperSteps DEF IInv, TypeOK, NotCompiled
  <1>2. Helper[pc].op # "update"
    BY <1>1, HelperSteps
  <1>3. QED BY <1>1, <1>2, ContinueKeeps DEF NotCompiled

LEMMA InitAttrsKeeps == IInv /\ InitAttrs => IInv'
  <1> SUFFICES ASSUME IInv, InitAttrs PROVE IInv'
    OBVIOUS
  <1>1. pc = 14 /\ ChipUnchanged /\ UNCHANGED <<config, calls>> /\ pc' = 0 /\ sent' = 0
    BY Where, HelperSteps DEF IInv, TypeOK, InitAttrs
  <1>2. ChipSound'
    BY <1>1, UnchangedSound
  <1>3. \A k \in Kinds, b \in Banks : bank[k][b] = "new"
    BY <1>1, AllNew
  <1>4. \A k \in Kinds : booted[k] \in {"new", "none"}
    BY <1>1 DEF IInv, Running
  <1>5. /\ attrs' \in {"new", "none"}
        /\ result' = "LT_OK" => attrs' = "new"
        /\ result' \in Rets
    BY <1>4 DEF InitAttrs, AttrsOf, Kinds, Rets
  <1>6. faults' \in 0..MaxFaults
    BY BoundsAssumption DEF IInv, TypeOK, InitAttrs
  <1>7. TypeOK'
    BY <1>1, <1>2, <1>5, <1>6, HelperSteps, ChunksAssumption
       DEF IInv, TypeOK, ChipSound, ChipTypeOK, Versions
  <1>8. ChunksAgree'
    BY <1>1 DEF ChunksAgree
  <1>9. Progress'
    BY <1>1, <1>3, HelperSteps DEF Progress, ChipUnchanged, chipVars
  <1>10. Running'
    BY <1>1, <1>2, <1>4, <1>5 DEF Running, ChipUnchanged, chipVars, ChipSound
  <1>11. Spare'
    BY <1>2 DEF ChipSound
  <1>12. FirstCall'
    BY <1>1, <1>2 DEF IInv, FirstCall, ChipSound
  <1>13. QED BY <1>7, <1>8, <1>9, <1>10, <1>11, <1>12 DEF IInv

LEMMA ChipResetKeeps == IInv /\ ChipReset => IInv'
  <1> SUFFICES ASSUME IInv, ChipReset PROVE IInv'
    OBVIOUS
  <1>1. Boot("APPLICATION") /\ UNCHANGED <<config, pc, sent, result, attrs, calls>>
    BY DEF ChipReset, hostVars
  <1>2. ChipSound' /\ bank' = bank
    BY <1>1, BootSound DEF Boot
  <1>3. faults' \in 0..MaxFaults
    BY BoundsAssumption DEF IInv, TypeOK, ChipReset
  <1>4. TypeOK'
    BY <1>1, <1>2, <1>3 DEF IInv, TypeOK, ChipSound, ChipTypeOK
  <1>5. ChunksAgree'
    <2>1. CASE config.rev = "ACAB"
      BY <1>1, <2>1 DEF Boot, ChunksAgree, ChipAccepts
    <2>2. CASE config.rev # "ACAB"
      BY <1>1, <2>2 DEF Boot, IInv, ChunksAgree, ChipAccepts, Destination, At
    <2>3. QED BY <2>1, <2>2
  <1>6. Progress'
    BY <1>1, <1>2 DEF IInv, Progress, Shown
  <1>7. Running'
    <2>1. pc > 10 \/ (pc = 0 /\ result = "LT_OK") =>
            \A k \in Kinds : booted'[k] \in {"new", "none"}
      BY <1>1, AllNew, BootsNew
    <2>2. pc \in 0..14
      BY HelperSteps DEF IInv, TypeOK
    <2>3. QED BY <1>1, <1>2, <2>1, <2>2 DEF IInv, Running, ChipSound
  <1>8. Spare'
    BY <1>2 DEF ChipSound
  <1>9. FirstCall'
    BY <1>1, <1>2 DEF IInv, FirstCall, Intact, Bootable
  <1>10. QED BY <1>4, <1>5, <1>6, <1>7, <1>8, <1>9 DEF IInv

LEMMA ChipAlarmKeeps == IInv /\ ChipAlarm => IInv'
  <1> SUFFICES ASSUME IInv, ChipAlarm PROVE IInv'
    OBVIOUS
  <1>1. /\ mode' = "ALARM"
        /\ UNCHANGED <<config, pc, sent, result, attrs, booted, bank, open, target, calls>>
    BY DEF ChipAlarm, hostVars
  <1>2. faults' \in 0..MaxFaults
    BY BoundsAssumption DEF IInv, TypeOK, ChipAlarm
  <1>3. TypeOK'
    BY <1>1, <1>2 DEF IInv, TypeOK
  <1>4. ChunksAgree'
    BY <1>1 DEF IInv, ChunksAgree, ChipAccepts, Destination, At
  <1>5. Progress'
    BY <1>1 DEF IInv, Progress, Shown
  <1>6. Running'
    BY <1>1 DEF IInv, Running
  <1>7. Spare' /\ FirstCall'
    BY <1>1 DEF IInv, Spare, FirstCall, Intact, Bootable
  <1>8. QED BY <1>3, <1>4, <1>5, <1>6, <1>7 DEF IInv

LEMMA PowerLossKeeps == IInv /\ PowerLoss => IInv'
  <1> SUFFICES ASSUME IInv, PowerLoss PROVE IInv'
    OBVIOUS
  <1>1. /\ Boot("APPLICATION") /\ UNCHANGED <<config, calls>>
        /\ pc' = 0 /\ sent' = 0 /\ result' = "none"
        /\ attrs' = AttrsOf(booted'["cpu"])
    BY DEF PowerLoss
  <1>2. ChipSound' /\ bank' = bank
    BY <1>1, BootSound DEF Boot
  <1>3. faults' \in 0..MaxFaults
    BY BoundsAssumption DEF IInv, TypeOK, PowerLoss
  <1>4. attrs' \in Versions \cup {"none"}
    BY <1>1, <1>2 DEF AttrsOf, ChipSound, ChipTypeOK, Kinds
  <1>5. TypeOK'
    BY <1>1, <1>2, <1>3, <1>4, HelperSteps, ChunksAssumption
       DEF IInv, TypeOK, ChipSound, ChipTypeOK, Rets
  <1>6. ChunksAgree'
    BY <1>1 DEF ChunksAgree
  <1>7. Progress'
    BY <1>1, HelperSteps DEF Progress, Shown
  <1>8. Running'
    BY <1>1, <1>2 DEF Running, ChipSound
  <1>9. Spare'
    BY <1>2 DEF ChipSound
  <1>10. FirstCall'
    BY <1>1, <1>2 DEF IInv, FirstCall, ChipSound, Intact
  <1>11. QED BY <1>5, <1>6, <1>7, <1>8, <1>9, <1>10 DEF IInv

-----------------------------------------------------------------------------
LEMMA InitHolds == Init => IInv
  <1> SUFFICES ASSUME Init PROVE IInv
    OBVIOUS
  <1>1. config \in Config
    BY DEF Init, Configs
  <1>2. target \in [Kinds -> Banks]
    BY DEF Init, Banks
  <1>3. TypeOK
    BY <1>1, <1>2, HelperSteps, ChunksAssumption, BoundsAssumption
       DEF Init, TypeOK, Versions, Rets
  <1>4. ChunksAgree /\ Running
    BY DEF Init, ChunksAgree, Running, At
  <1>5. Progress
    BY HelperSteps DEF Init, Progress, Shown
  <1>6. Spare
    BY <1>2 DEF Init, Spare, Intact, Other, Banks, Versions
  <1>7. FirstCall
    BY DEF Init, FirstCall, Bootable, Intact, Banks, Versions
  <1>8. QED BY <1>3, <1>4, <1>5, <1>6, <1>7 DEF IInv

\* The inductive invariant of the firmware update.
THEOREM InductiveInvariant == Spec => []IInv
  <1>1. Init => IInv
    BY InitHolds
  <1>2. IInv /\ [Next]_vars => IInv'
    <2> SUFFICES ASSUME IInv, [Next]_vars PROVE IInv'
      OBVIOUS
    <2>1. CASE UNCHANGED vars
      BY <2>1 DEF vars, hostVars, chipVars, IInv, TypeOK, ChunksAgree, Progress, Shown,
                  Running, Spare, FirstCall, At, ChipAccepts, Destination, Intact, Bootable
    <2>2. CASE Call
      BY <2>2, CallKeeps
    <2>3. CASE Work
      BY <2>3, StartupKeeps, GetModeKeeps, BeginUpdateKeeps, SendChunkKeeps,
         ValidateKeeps, CheckKeeps, NotCompiledKeeps, InitAttrsKeeps DEF Work
    <2>4. CASE ChipReset
      BY <2>4, ChipResetKeeps
    <2>5. CASE ChipAlarm
      BY <2>5, ChipAlarmKeeps
    <2>6. CASE PowerLoss
      BY <2>6, PowerLossKeeps
    <2>7. QED BY <2>1, <2>2, <2>3, <2>4, <2>5, <2>6 DEF Next
  <1>3. QED BY <1>1, <1>2, PTL DEF Spec

\* The state keeps its types: the chip is never sent a chunk past the image.
THEOREM TypeCorrect == Spec => []TypeOK
  <1>1. IInv => TypeOK
    BY DEF IInv
  <1>2. QED BY <1>1, InductiveInvariant, PTL

\* LT_OK from lt_do_mutable_fw_update means that all four banks hold the new
\* firmware, that the chip runs it, and that tr01_attrs is set up for it.
THEOREM OkMeansUpdatedHolds == Spec => []OkMeansUpdated
  <1>1. IInv => OkMeansUpdated
    <2> SUFFICES ASSUME IInv, pc = 0, result = "LT_OK"
                 PROVE  /\ \A k \in Kinds, b \in Banks : bank[k][b] = "new"
                        /\ mode = "APPLICATION" => \A k \in Kinds : booted[k] = "new"
                        /\ attrs = "new"
      BY DEF OkMeansUpdated
    <2>1. \A k \in Kinds, b \in Banks : bank[k][b] = "new"
      BY AllNew
    <2>2. QED BY <2>1 DEF IInv, Running
  <1>2. QED BY <1>1, InductiveInvariant, PTL

\* Whenever an update is interrupted there is firmware of both kinds to run.
THEOREM KeepsBootableHolds == Spec => []KeepsBootable
  <1>1. IInv => KeepsBootable
    <2> SUFFICES ASSUME IInv, config.rev = "ACAB" \/ calls <= 1
                 PROVE  Bootable(bank)
      BY DEF KeepsBootable
    <2>1. CASE config.rev = "ACAB"
      <3>1. \A k \in Kinds : Other(target[k]) \in Banks
        BY DEF IInv, TypeOK, Other, Banks
      <3>2. QED BY <2>1, <3>1 DEF IInv, Spare, Bootable
    <2>2. CASE config.rev # "ACAB"
      <3>1. config.rev = "ABAB"
        BY <2>2 DEF IInv, TypeOK, Config
      <3>2. QED BY <2>2, <3>1 DEF IInv, FirstCall
    <2>3. QED BY <2>1, <2>2
  <1>2. QED BY <1>1, InductiveInvariant, PTL

-----------------------------------------------------------------------------
\* The helper only moves on: every exchange ends it, or brings it to a later step
\* or a later exchange of this one, and the chip moves it nowhere.  With its 14
\* steps and at most Chunks + 1 exchanges in each, every call returns.
HelperMovesOn ==
    [][/\ Work => pc' = 0 \/ pc' > pc \/ (pc' = pc /\ sent' > sent)
       /\ ChipReset \/ ChipAlarm => UNCHANGED <<pc, sent>>]_vars

THEOREM HelperMovesOnHolds ==
    Spec => [](pc \in 0..14 /\ sent \in 0..Chunks) /\ HelperMovesOn
<1> DEFINE A == /\ Work => pc' = 0 \/ pc' > pc \/ (pc' = pc /\ sent' > sent)
                /\ ChipReset \/ ChipAlarm => UNCHANGED <<pc, sent>>
<1>1. IInv => pc \in 0..14 /\ sent \in 0..Chunks
    BY HelperSteps DEF IInv, TypeOK
<1>2. ASSUME IInv, Work PROVE pc' = 0 \/ pc' > pc \/ (pc' = pc /\ sent' > sent)
  <2>1. pc \in Nat /\ sent \in Nat
      BY <1>1, <1>2, ChunksAssumption
  <2>2. CASE Startup \/ GetMode
      BY <2>1, <2>2 DEF Startup, GetMode, Continue, Fail, ExchangeFails, Refused
  <2>3. CASE BeginUpdate \/ SendChunk
      BY <2>1, <2>3 DEF BeginUpdate, SendChunk, Continue, Fail, ExchangeFails, Refused
  <2>4. CASE ValidateFwVerInBank \/ CheckBooted \/ NotCompiled \/ InitAttrs
      BY <2>1, <2>4 DEF ValidateFwVerInBank, CheckBooted, NotCompiled, InitAttrs,
                        Continue, Fail, ExchangeFails, Refused
  <2>5. QED
      BY <1>2, <2>2, <2>3, <2>4 DEF Work
<1>3. ChipReset \/ ChipAlarm => UNCHANGED <<pc, sent>>
    BY DEF ChipReset, ChipAlarm, hostVars
<1>4. IInv => [A]_vars
    BY <1>2, <1>3
<1>5. QED
    BY <1>1, <1>4, InductiveInvariant, PTL DEF HelperMovesOn

-----------------------------------------------------------------------------
(* A call that is not disturbed.                                           *)

\* Good update data, for a chip that allows the update.
GoodUpdate ==
    /\ config.alternates /\ config.supported /\ config.maintenance
    /\ \A k \in Kinds : config.image[k] = Whole

\* The steps at which each kind's images are written, first and second.
First(k) == IF k = "cpu" THEN 2 ELSE 3
Second(k) == IF k = "cpu" THEN 5 ELSE 6

Written(k) == bank[k][target[k]] = "new"

\* In which mode the chip is while the helper is where it is.
ModeOnCourse ==
    /\ mode # "ALARM"
    /\ pc \in 2..10 \/ (pc = 1 /\ sent # 0) \/ (pc = 11 /\ sent = 0) => mode = "MAINTENANCE"
    /\ pc > 11 \/ (pc = 11 /\ sent # 0) => mode = "APPLICATION"

\* What an ACAB chip's banks hold: in the first round one new image of each kind is
\* written, then the chip gives the other bank, whichever that was.
BanksOnCourse ==
    config.rev = "ACAB" =>
        \A k \in Kinds :
            /\ pc \in 2..3 \/ (pc = 4 /\ sent = 0) => (pc > First(k) => Written(k))
            /\ pc \in 5..6 \/ (pc = 4 /\ sent # 0) =>
                  /\ bank[k][Other(target[k])] = "new"
                  /\ pc > Second(k) => Written(k)
            /\ pc > 6 => \A b \in Banks : bank[k][b] = "new"

\* The helper is under way, and everything is as its next step needs it.
OnCourse ==
    /\ GoodUpdate /\ pc # 0
    /\ ModeOnCourse
    /\ At({"update"}) /\ sent # 0 => ChipAccepts(Helper[pc])
    /\ BanksOnCourse

\* However the banks were left by the calls before, and by resets, failed exchanges
\* and losses of power in the middle of them: a call is on its course from its
\* beginning, and leaves it with LT_OK only, unless it is disturbed.
UndisturbedCallSucceeds ==
    [][/\ Call /\ GoodUpdate /\ mode # "ALARM" => OnCourse'
       /\ OnCourse /\ faults' = faults => OnCourse' \/ (pc' = 0 /\ result' = "LT_OK")]_vars

LEMMA GoodFacts ==
    ASSUME TypeOK, GoodUpdate
    PROVE  /\ config.rev \in {"ABAB", "ACAB"} /\ config.maintenance /\ config.supported
           /\ config.alternates
           /\ \A k \in Kinds : /\ config.image[k].fits /\ config.image[k].head
                               /\ config.image[k].chunks = Chunks
  BY DEF TypeOK, Config, GoodUpdate, Whole

LEMMA CallOnCourse == IInv /\ Call /\ GoodUpdate /\ mode # "ALARM" => OnCourse'
  <1> SUFFICES ASSUME IInv, Call, GoodUpdate, mode # "ALARM" PROVE OnCourse'
    OBVIOUS
  <1>1. pc' = 1 /\ sent' = 0 /\ config' = config /\ mode' = mode
    BY GoodFacts DEF Call, IInv, chipVars
  <1>2. ~At({"update"})'
    BY <1>1, HelperSteps DEF At
  <1>3. QED BY <1>1, <1>2 DEF OnCourse, GoodUpdate, ModeOnCourse, BanksOnCourse

\* With one image of a kind new, the chip gives the bank with the other one.
LEMMA BootGivesOther ==
    ASSUME NEW wanted, Boot(wanted), config.rev = "ACAB", config.alternates, TypeOK,
           NEW k \in Kinds, \E b \in Banks : bank[k][b] = "new"
    PROVE  bank'[k][Other(target'[k])] = "new"
  <1>1. target' \in [Kinds -> Banks] /\ MayTarget(bank, k, target'[k]) /\ bank' = bank
    BY DEF Boot
  <1>2. \A b \in Banks : Other(b) \in Banks /\ (\A c \in Banks : c = b \/ c = Other(b))
    BY DEF Other, Banks
  <1>3. QED BY <1>1, <1>2 DEF MayTarget

LEMMA StartupOnCourse ==
    IInv /\ OnCourse /\ Startup /\ faults' = faults => OnCourse'
  <1> SUFFICES ASSUME IInv, OnCourse, Startup, faults' = faults PROVE OnCourse'
    OBVIOUS
  <1>1. pc \in {1, 4, 11} /\ sent = 0 /\ faults \in Nat
    BY Where, HelperSteps, BoundsAssumption DEF IInv, TypeOK, Startup
  <1>2. Boot(Wanted) /\ sent' = 1 /\ UNCHANGED <<config, pc>>
    BY <1>1 DEF Startup, OnCourse, ModeOnCourse, ExchangeFails
  <1>3. Wanted = IF pc = 11 THEN "APPLICATION" ELSE "MAINTENANCE"
    BY <1>1, HelperSteps DEF Wanted
  <1>4. ModeOnCourse'
    <2>1. CASE pc # 11
      BY <1>1, <1>2, <1>3, <2>1, GoodFacts DEF Boot, OnCourse, IInv, ModeOnCourse
    <2>2. CASE pc = 11
      <3>1. Bootable(bank)
        BY <2>2, AllNew DEF Bootable, Intact, Versions, Banks
      <3>2. QED BY <1>1, <1>2, <1>3, <2>2, <3>1 DEF Boot, ModeOnCourse
    <2>3. QED BY <2>1, <2>2
  <1>5. BanksOnCourse'
    <2> SUFFICES ASSUME config.rev = "ACAB" PROVE BanksOnCourse'
      BY <1>2 DEF BanksOnCourse
    <2>1. CASE pc = 1
      BY <1>2, <2>1 DEF BanksOnCourse
    <2>2. CASE pc = 4
      <3>1. \A k \in Kinds : Written(k) /\ target[k] \in Banks
        BY <1>1, <2>2 DEF OnCourse, BanksOnCourse, First, IInv, TypeOK
      <3>2. \A k \in Kinds : bank'[k][Other(target'[k])] = "new"
        BY <1>2, <3>1, BootGivesOther, GoodFacts DEF Written, OnCourse, IInv
      <3>3. QED BY <1>2, <2>2, <3>2 DEF BanksOnCourse, Second
    <2>3. CASE pc = 11
      <3>1. bank' = bank /\ \A k \in Kinds, b \in Banks : bank[k][b] = "new"
        BY <1>2, <2>3, AllNew DEF Boot
      <3>2. QED BY <1>2, <2>3, <3>1 DEF BanksOnCourse
    <2>4. QED BY <1>1, <2>1, <2>2, <2>3
  <1>6. ~At({"update"})'
    BY <1>1, <1>2, HelperSteps DEF At
  <1>7. QED BY <1>1, <1>2, <1>4, <1>5, <1>6 DEF OnCourse, GoodUpdate

LEMMA GetModeOnCourse ==
    IInv /\ OnCourse /\ GetMode /\ faults' = faults => OnCourse'
  <1> SUFFICES ASSUME IInv, OnCourse, GetMode, faults' = faults PROVE OnCourse'
    OBVIOUS
  <1>1. pc \in {1, 4, 11} /\ sent = 1 /\ faults \in Nat
    BY Where, HelperSteps, BoundsAssumption DEF IInv, TypeOK, GetMode
  <1>2. mode = IF pc = 11 THEN "APPLICATION" ELSE "MAINTENANCE"
    BY <1>1 DEF OnCourse, ModeOnCourse
  <1>3. Wanted = mode
    BY <1>1, <1>2, HelperSteps DEF Wanted
  <1>4. pc' = pc + 1 /\ sent' = 0 /\ UNCHANGED <<config, mode, bank, target>>
    BY <1>1, <1>2, <1>3 DEF GetMode, ExchangeFails, Continue, ChipUnchanged, chipVars
  <1>5. ModeOnCourse'
    BY <1>1, <1>2, <1>4 DEF ModeOnCourse
  <1>6. BanksOnCourse'
    BY <1>1, <1>4 DEF OnCourse, BanksOnCourse, First, Second, Written
  <1>7. QED BY <1>1, <1>4, <1>5, <1>6 DEF OnCourse, GoodUpdate

LEMMA BeginUpdateOnCourse ==
    IInv /\ OnCourse /\ BeginUpdate /\ faults' = faults => OnCourse'
  <1> SUFFICES ASSUME IInv, OnCourse, BeginUpdate, faults' = faults PROVE OnCourse'
    OBVIOUS
  <1>1. /\ pc \in {2, 3, 5, 6} /\ sent = 0 /\ faults \in Nat
        /\ target \in [Kinds -> Banks]
    BY Where, HelperSteps, BoundsAssumption DEF IInv, TypeOK, BeginUpdate
  <1> DEFINE kind == Helper[pc].kind
             dest == Destination(Helper[pc])
  <1>2. kind \in Kinds /\ config.image[kind].head /\ mode = "MAINTENANCE"
    BY <1>1, HelperSteps, GoodFacts DEF IInv, OnCourse, ModeOnCourse
  <1>3. ChipErases(Helper[pc]) /\ sent' = 1 /\ UNCHANGED <<config, pc, calls>>
    BY <1>1, <1>2 DEF BeginUpdate, ExchangeFails, Refused
  <1>4. UNCHANGED <<mode, target>>
    BY <1>3 DEF ChipErases
  <1>5. /\ open' = <<kind, dest, 0>>
        /\ \A k \in Kinds, b \in Banks : k # kind \/ b # dest => bank'[k][b] = bank[k][b]
    BY <1>1, <1>2, <1>3, EraseSound
  <1>6. ChipAccepts(Helper[pc])'
    BY <1>3, <1>4, <1>5 DEF ChipAccepts, Destination
  <1>7. ModeOnCourse'
    BY <1>1, <1>3, <1>4 DEF OnCourse, ModeOnCourse
  <1>8. BanksOnCourse'
    <2> SUFFICES ASSUME config.rev = "ACAB", NEW k \in Kinds
                 PROVE  /\ pc \in 2..3 => (pc > First(k) => Written(k)')
                        /\ pc \in 5..6 => /\ bank'[k][Other(target[k])] = "new"
                                          /\ pc > Second(k) => Written(k)'
      BY <1>1, <1>3, <1>4 DEF BanksOnCourse
    <2>1. dest = target[kind]
      BY DEF Destination
    <2>2. /\ pc = 2 => kind = "cpu"
          /\ pc = 3 => kind = "spect"
          /\ pc = 5 => kind = "cpu"
          /\ pc = 6 => kind = "spect"
      BY <1>1, HelperSteps
    <2>3. (pc \in 2..3 /\ pc > First(k)) \/ (pc \in 5..6 /\ pc > Second(k)) =>
              k # kind /\ Written(k)
      BY <1>1, <2>2 DEF First, Second, Kinds, OnCourse, BanksOnCourse
    <2>4. k # kind => (Written(k)' <=> Written(k))
      BY <1>1, <1>4, <1>5 DEF Written
    <2>5. Other(target[k]) \in Banks /\ Other(target[k]) # target[k]
      BY <1>1 DEF Other, Banks
    <2>6. pc \in 5..6 => bank'[k][Other(target[k])] = bank[k][Other(target[k])]
      BY <1>5, <2>1, <2>5
    <2>7. pc \in 5..6 => bank[k][Other(target[k])] = "new"
      BY DEF OnCourse, BanksOnCourse
    <2>8. QED BY <2>3, <2>4, <2>6, <2>7
  <1>9. QED BY <1>1, <1>3, <1>6, <1>7, <1>8 DEF OnCourse, GoodUpdate

LEMMA SendChunkOnCourse ==
    IInv /\ OnCourse /\ SendChunk /\ faults' = faults => OnCourse'
  <1> SUFFICES ASSUME IInv, OnCourse, SendChunk, faults' = faults PROVE OnCourse'
    OBVIOUS
  <1>1. /\ pc \in {2, 3, 5, 6} /\ sent # 0 /\ sent \in 0..Chunks /\ faults \in Nat
        /\ target \in [Kinds -> Banks]
    BY Where, HelperSteps, BoundsAssumption DEF IInv, TypeOK, SendChunk
  <1> DEFINE kind == Helper[pc].kind
             dest == Destination(Helper[pc])
  <1>2. /\ kind \in Kinds /\ config.image[kind].chunks = Chunks /\ mode = "MAINTENANCE"
        /\ ChipAccepts(Helper[pc])
    BY <1>1, HelperSteps, GoodFacts, Where DEF IInv, OnCourse, ModeOnCourse, TypeOK
  <1>3. /\ ChipWrites /\ UNCHANGED <<config, calls>>
        /\ \/ sent < Chunks /\ sent' = sent + 1 /\ pc' = pc
           \/ sent = Chunks /\ sent' = 0 /\ pc' = pc + 1
    BY <1>1, <1>2, ChunksAssumption
       DEF SendChunk, ExchangeFails, Refused, MoreChunks, Continue
  <1>4. UNCHANGED <<mode, target>>
    BY <1>3 DEF ChipWrites
  <1>5. /\ open' = <<kind, dest, sent>>
        /\ \A k \in Kinds, b \in Banks : bank'[k][b] \in {bank[k][b], "new"}
        /\ sent = Chunks => bank'[kind][dest] = "new"
    BY <1>1, <1>2, <1>3, WriteSound
  <1>6. ModeOnCourse'
    BY <1>1, <1>2, <1>3, <1>4 DEF ModeOnCourse
  <1>7. At({"update"})' /\ sent' # 0 => ChipAccepts(Helper[pc])'
    <2>1. CASE pc' = pc
      BY <1>3, <1>4, <1>5, <2>1 DEF ChipAccepts, Destination
    <2>2. CASE sent' = 0
      BY <2>2
    <2>3. QED BY <1>3, <2>1, <2>2
  <1>8. BanksOnCourse'
    <2> SUFFICES ASSUME config.rev = "ACAB", NEW k \in Kinds
                 PROVE  /\ pc' \in 2..3 \/ (pc' = 4 /\ sent' = 0) =>
                              (pc' > First(k) => Written(k)')
                        /\ pc' \in 5..6 \/ (pc' = 4 /\ sent' # 0) =>
                              /\ bank'[k][Other(target[k])] = "new"
                              /\ pc' > Second(k) => Written(k)'
                        /\ pc' > 6 => \A b \in Banks : bank'[k][b] = "new"
      BY <1>3, <1>4 DEF BanksOnCourse
    <2>1. dest = target[kind] /\ target[k] \in Banks /\ Other(target[k]) \in Banks
      BY <1>1 DEF Destination, Other, Banks
    <2>2. /\ pc = 2 => kind = "cpu"
          /\ pc = 3 => kind = "spect"
          /\ pc = 5 => kind = "cpu"
          /\ pc = 6 => kind = "spect"
      BY <1>1, HelperSteps
    <2>3. Written(k) => Written(k)'
      BY <1>4, <1>5, <2>1 DEF Written
    <2>4. k = kind /\ sent = Chunks => Written(k)'
      BY <1>4, <1>5, <2>1 DEF Written
    <2>5. /\ pc \in 2..3 /\ pc > First(k) => Written(k)
          /\ pc \in 5..6 /\ pc > Second(k) => Written(k)
      BY DEF OnCourse, BanksOnCourse
    <2>6. pc \in 5..6 => bank'[k][Other(target[k])] = "new"
      <3>1. pc \in 5..6 => bank[k][Other(target[k])] = "new"
        BY DEF OnCourse, BanksOnCourse
      <3>2. QED BY <1>5, <2>1, <3>1
    <2>7. CASE pc \in {2, 3}
      <3>1. pc' > First(k) => pc > First(k) \/ (k = kind /\ sent = Chunks)
        BY <1>3, <2>2, <2>7 DEF First, Kinds
      <3>2. pc' \in 2..4 /\ (pc' = 4 => sent' = 0)
        BY <1>3, <2>7
      <3>3. QED BY <2>3, <2>4, <2>5, <2>7, <3>1, <3>2
    <2>8. CASE pc \in {5, 6}
      <3>1. pc' > Second(k) => pc > Second(k) \/ (k = kind /\ sent = Chunks)
        BY <1>3, <2>2, <2>8 DEF Second, Kinds
      <3>2. pc' \in 5..7
        BY <1>3, <2>8
      <3>3. pc' > Second(k) => Written(k)'
        BY <2>3, <2>4, <2>5, <2>8, <3>1
      <3>4. pc' = 7 => pc' > Second(k)
        BY DEF Second
      <3>5. \A b \in Banks : b = target[k] \/ b = Other(target[k])
        BY <2>1 DEF Other, Banks
      <3>6. pc' > 6 => \A b \in Banks : bank'[k][b] = "new"
        BY <1>4, <2>6, <2>8, <3>2, <3>3, <3>4, <3>5 DEF Written
      <3>7. QED BY <2>6, <2>8, <3>2, <3>3, <3>6
    <2>9. QED BY <1>1, <2>7, <2>8
  <1>9. QED BY <1>1, <1>3, <1>6, <1>7, <1>8 DEF OnCourse, GoodUpdate

\* The steps that only look at the chip.
LEMMA LookOnCourse ==
    ASSUME IInv, OnCourse, pc \in 7..10 \/ pc \in {12, 13}, Continue, ChipUnchanged,
           config' = config
    PROVE  OnCourse'
  <1>1. pc' = pc + 1 /\ sent' = 0 /\ UNCHANGED <<config, mode, bank, target>>
    BY DEF Continue, ChipUnchanged, chipVars
  <1>2. ModeOnCourse'
    BY <1>1 DEF OnCourse, ModeOnCourse
  <1>3. BanksOnCourse'
    BY <1>1 DEF OnCourse, BanksOnCourse
  <1>4. QED BY <1>1, <1>2, <1>3 DEF OnCourse, GoodUpdate

LEMMA ChecksOnCourse ==
    /\ IInv /\ OnCourse /\ faults' = faults
    /\ ValidateFwVerInBank \/ CheckBooted \/ NotCompiled
    => OnCourse'
  <1> SUFFICES ASSUME IInv, OnCourse, faults' = faults,
                      ValidateFwVerInBank \/ CheckBooted \/ NotCompiled
               PROVE  OnCourse'
    OBVIOUS
  <1>1. pc \in 0..14 /\ faults \in Nat
    BY HelperSteps, BoundsAssumption DEF IInv, TypeOK
  <1>2. CASE ValidateFwVerInBank
    <2>1. pc \in 7..10 /\ config.rev = "ACAB" /\ mode = "MAINTENANCE"
      BY <1>1, <1>2, Where DEF ValidateFwVerInBank, OnCourse, ModeOnCourse
    <2>2. Helper[pc].kind \in Kinds /\ Helper[pc].bank \in Banks
      BY <2>1, HelperSteps
    <2>3. bank[Helper[pc].kind][Helper[pc].bank] = "new"
      BY <2>1, <2>2 DEF OnCourse, BanksOnCourse
    <2>4. Continue /\ ChipUnchanged /\ config' = config
      BY <1>1, <1>2, <2>1, <2>3 DEF ValidateFwVerInBank, FwVersion, ExchangeFails, Refused
    <2>5. QED BY <2>1, <2>4, LookOnCourse
  <1>3. CASE CheckBooted
    <2>1. pc \in {12, 13} /\ mode = "APPLICATION"
      BY <1>1, <1>3, Where DEF CheckBooted, OnCourse, ModeOnCourse
    <2>2. Helper[pc].kind \in Kinds
      BY <2>1, HelperSteps
    <2>3. booted[Helper[pc].kind] = "new"
      BY <2>1, <2>2 DEF IInv, Running
    <2>4. Continue /\ ChipUnchanged /\ config' = config
      BY <1>1, <1>3, <2>1, <2>3 DEF CheckBooted, FwVersion, ExchangeFails, Refused
    <2>5. QED BY <2>1, <2>4, LookOnCourse
  <1>4. CASE NotCompiled
    <2>1. pc \in 7..10 \/ pc \in {12, 13}
      BY <1>1, <1>4, Where DEF NotCompiled
    <2>2. QED BY <1>4, <2>1, LookOnCourse DEF NotCompiled
  <1>5. QED BY <1>2, <1>3, <1>4

LEMMA EndsWithOk ==
    IInv /\ OnCourse /\ InitAttrs /\ faults' = faults => pc' = 0 /\ result' = "LT_OK"
  <1> SUFFICES ASSUME IInv, OnCourse, InitAttrs, faults' = faults
               PROVE  pc' = 0 /\ result' = "LT_OK"
    OBVIOUS
  <1>1. pc = 14 /\ faults \in Nat
    BY Where, HelperSteps, BoundsAssumption DEF IInv, TypeOK, InitAttrs
  <1>2. mode = "APPLICATION" /\ config.supported
    BY <1>1 DEF OnCourse, ModeOnCourse, GoodUpdate
  <1>3. booted["cpu"] = "new"
    BY <1>1, <1>2 DEF IInv, Running, Kinds
  <1>4. QED BY <1>1, <1>2, <1>3 DEF InitAttrs, AttrsOf

\* Calling lt_do_mutable_fw_update again is enough: a call that is not disturbed
\* returns LT_OK, whatever was done to the chip before.  With HelperMovesOn, by which it
\* does return, this is what RetrySucceeds rests on.
THEOREM UndisturbedCallSucceedsHolds == Spec => UndisturbedCallSucceeds
<1> DEFINE A == /\ Call /\ GoodUpdate /\ mode # "ALARM" => OnCourse'
                /\ OnCourse /\ faults' = faults =>
                      OnCourse' \/ (pc' = 0 /\ result' = "LT_OK")
<1>1. IInv /\ [Next]_vars => [A]_vars
  <2> SUFFICES ASSUME IInv, Next PROVE A
      OBVIOUS
  <2>1. Call /\ GoodUpdate /\ mode # "ALARM" => OnCourse'
      BY CallOnCourse
  <2>2. ASSUME OnCourse, faults' = faults
        PROVE  OnCourse' \/ (pc' = 0 /\ result' = "LT_OK")
    <3>1. ~Call
        BY <2>2 DEF Call, OnCourse
    <3>2. ~ChipReset /\ ~ChipAlarm /\ ~PowerLoss
      <4>1. faults \in Nat
          BY BoundsAssumption DEF IInv, TypeOK
      <4>2. QED
          BY <2>2, <4>1 DEF ChipReset, ChipAlarm, PowerLoss
    <3>3. Work
        BY <3>1, <3>2 DEF Next
    <3>4. QED
        BY <2>2, <3>3, StartupOnCourse, GetModeOnCourse, BeginUpdateOnCourse, SendChunkOnCourse,
           ChecksOnCourse, EndsWithOk DEF Work
  <2>3. QED
      BY <2>1, <2>2
<1>2. QED
    BY <1>1, InductiveInvariant, PTL DEF Spec, UndisturbedCallSucceeds
=============================================================================
