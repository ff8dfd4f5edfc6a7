------------------------------ MODULE BQ25895 ------------------------------
(***************************************************************************)
(* The battery charger's driver (components/bq25895).  The generated       *)
(* main() first runs the statements of to_code in __init__.py, then        *)
(* setup() runs once, then the scheduler calls update() at every interval  *)
(* and lambdas may call the setters.  Every register access goes over I2C  *)
(* and may fail; the charger keeps its registers when the badge restarts.  *)
(*                                                                         *)
(* A register is represented by the bit field the driver writes in it.     *)
(* The charger's four limits are fields of 4 to 7 bits, its switches one   *)
(* bit.  Of the sensors two stand for all: the battery voltage, which the  *)
(* charger's ADC measures, and the presence of VBUS, a live status bit.    *)
(***************************************************************************)
EXTENDS Integers, Sequences

CONSTANTS
  LimitConfig,   \* the limits in the YAML configuration, in mA or mV
  SwitchConfig,  \* its switches
  LimitCalls,    \* the <<limit, value>> pairs that lambdas ask for
  SwitchCalls,   \* the <<switch, value>> pairs that lambdas ask for
  Volts          \* the battery voltages told apart

Limits == {"input", "voltage", "charge", "precharge"}
Switches == {"led", "enable", "adc"}
Uint16 == 0 .. 65535

ASSUME ConfigAssumption ==
  /\ LimitConfig \in [Limits -> Uint16]
  /\ SwitchConfig \in [Switches -> BOOLEAN]
ASSUME CallsAssumption ==
  /\ LimitCalls \subseteq Limits \X Uint16
  /\ SwitchCalls \subseteq Switches \X BOOLEAN

VARIABLES
  phase,       \* "config": to_code, "setup", "loop", or "failed": mark_failed()
  step,        \* the next call of to_code or of setup()
  warning,     \* the component's status warning
  limits,      \* the charger's limit fields
  switches,    \* its switch fields
  converting,  \* whether its ADC runs
  sample,      \* the battery voltage its ADC register holds
  battery,     \* the battery's voltage
  vbus,        \* whether USB power is present
  published,   \* what the sensors show, or {} before the first reading
  asked        \* what the last successful write of each limit was to set

chipVars == <<limits, switches, converting, asked>>
worldVars == <<sample, battery, vbus>>
driverVars == <<phase, step, warning, published>>
vars == <<driverVars, chipVars, worldVars>>

----------------------------------------------------------------------------
(* Values and codes                                                        *)

\* The value of code 0, that of one unit, and the code each setter clamps to.
Base == [input |-> 100, voltage |-> 3840, charge |-> 0, precharge |-> 64]
Step == [input |-> 50, voltage |-> 16, charge |-> 64, precharge |-> 64]
Top == [input |-> 63, voltage |-> 63, charge |-> 127, precharge |-> 15]

\* Mutants of Code: no clamping; the base is not taken off.
CodeNoClamp(f, value) ==
  ((IF value < Base[f] THEN 0 ELSE value - Base[f]) \div Step[f]) % 256
CodeNoBase(f, value) ==
  LET val == (value \div Step[f]) % 256
  IN  IF val > Top[f] THEN Top[f] ELSE val

\* A setter's arithmetic: the quotient is stored in a uint8_t before it is
\* compared with the top.
Clamp8(value, base, unit, top) ==
  LET val == ((IF value < base THEN 0 ELSE value - base) \div unit) % 256
  IN  IF val > top THEN top ELSE val

Code(f, value) == Clamp8(value, Base[f], Step[f], Top[f])

\* What the charger makes of a code.
Decoded(f, code) == Base[f] + code * Step[f]

\* The LED's bit disables it; the others enable.
Bit(s, on) == IF on = (s # "led") THEN 1 ELSE 0

----------------------------------------------------------------------------
(* The setters: a read-modify-write whose failure is not reported          *)

\* Mutant of SetLimit: is_failed() is not asked.
SetLimitUnguarded(f, value) ==
  \/ /\ limits' = [limits EXCEPT ![f] = Code(f, value)]
     /\ asked' = [asked EXCEPT ![f] = {value}]
  \/ UNCHANGED <<limits, asked>>

SetLimit(f, value) ==
  \/ /\ phase # "failed"
     /\ limits' = [limits EXCEPT ![f] = Code(f, value)]
     /\ asked' = [asked EXCEPT ![f] = {value}]
  \/ UNCHANGED <<limits, asked>>

SetSwitch(s, on) ==
  \/ /\ phase # "failed"
     /\ switches' = [switches EXCEPT ![s] = Bit(s, on)]
     /\ converting' = IF s = "adc" THEN on ELSE converting
  \/ UNCHANGED <<switches, converting>>

Set(f, limit, switch) ==
  \/ /\ f \in Limits
     /\ SetLimit(f, limit[f])
     /\ UNCHANGED <<switches, converting>>
  \/ /\ f \in Switches
     /\ SetSwitch(f, switch[f])
     /\ UNCHANGED <<limits, asked>>

\* The order of the calls, in to_code and in setup() alike.
Order == <<"led", "input", "voltage", "charge", "precharge", "enable", "adc">>

\* The members that setup() applies.  Nothing assigns them: to_code calls the
\* setters, which write the charger and not the members.
LimitMember == [input |-> 500, voltage |-> 4208, charge |-> 2048, precharge |-> 128]
SwitchMember == [s \in Switches |-> TRUE]

----------------------------------------------------------------------------
(* The driver's steps                                                      *)

\* The driver reads no field it has not written, so 0 stands for whatever
\* limits the charger powers up with.
Init ==
  /\ phase = "config"
  /\ step = 1
  /\ warning = FALSE
  /\ limits = [f \in Limits |-> 0]
  /\ switches = [s \in Switches |-> IF s = "enable" THEN 1 ELSE 0]
  /\ converting = FALSE
  /\ sample \in Volts
  /\ battery \in Volts
  /\ vbus \in BOOLEAN
  /\ published = {}
  /\ asked = [f \in Limits |-> {}]

\* main() runs to_code's statements; the last one is followed by App.setup().
ToCode ==
  /\ phase = "config"
  /\ Set(Order[step], LimitConfig, SwitchConfig)
  /\ IF step < Len(Order)
       THEN phase' = phase /\ step' = step + 1
       ELSE phase' = "setup" /\ step' = 0
  /\ UNCHANGED <<warning, published, worldVars>>

\* setup() first reads the chip ID, and gives up when that read fails.
ReadId ==
  /\ phase = "setup" /\ step = 0
  /\ \/ phase' = phase /\ step' = 1
     \/ phase' = "failed" /\ step' = 0
  /\ UNCHANGED <<warning, published, chipVars, worldVars>>

\* It then applies every member, whatever became of the one before.
ApplyMember ==
  /\ phase = "setup" /\ step > 0
  /\ Set(Order[step], LimitMember, SwitchMember)
  /\ IF step < Len(Order)
       THEN phase' = phase /\ step' = step + 1
       ELSE phase' = "loop" /\ step' = 0
  /\ UNCHANGED <<warning, published, worldVars>>

\* A lambda calls a setter, before or after the component has failed.
LambdaSetsLimit ==
  /\ phase \in {"loop", "failed"}
  /\ \E c \in LimitCalls : SetLimit(c[1], c[2])
  /\ UNCHANGED <<switches, converting, driverVars, worldVars>>

LambdaSetsSwitch ==
  /\ phase \in {"loop", "failed"}
  /\ \E c \in SwitchCalls : SetSwitch(c[1], c[2])
  /\ UNCHANGED <<limits, asked, driverVars, worldVars>>

\* Mutant of TriggerAdc: ADC_START is not written.
TriggerAdcNoStart(ok) ==
  /\ switches' = IF ok THEN [switches EXCEPT !["adc"] = 0] ELSE switches
  /\ converting' = converting

\* trigger_adc_() restarts continuous conversion, unless a transfer fails.
TriggerAdc(ok) ==
  /\ switches' = IF ok THEN [switches EXCEPT !["adc"] = 1] ELSE switches
  /\ converting' = (converting \/ ok)

\* The listeners are told of a reading that went well; otherwise the
\* component shows a warning.
Report(ok) ==
  /\ warning' = ~ok
  /\ published' = IF ok THEN {[battery |-> sample, vbus |-> vbus]} ELSE published

\* update() goes on to read when the trigger failed.
Update(triggered, read) ==
  /\ phase = "loop"
  /\ IF SwitchMember["adc"] THEN TriggerAdc(triggered)
                            ELSE UNCHANGED <<switches, converting>>
  /\ Report(read)
  /\ UNCHANGED <<phase, step, limits, asked, worldVars>>

\* A restart or a wake from deep sleep begins again at main(); the charger,
\* on its battery, keeps its registers.
Restart ==
  /\ phase' = "config" /\ step' = 1
  /\ warning' = FALSE
  /\ published' = {}
  /\ UNCHANGED <<chipVars, worldVars>>

----------------------------------------------------------------------------
(* The charger and its surroundings                                        *)

\* The ADC stalls "after register writes or charger state changes".
AdcStalls ==
  /\ converting /\ converting' = FALSE
  /\ UNCHANGED <<limits, switches, asked, driverVars, worldVars>>

AdcConverts ==
  /\ converting /\ sample' = battery
  /\ UNCHANGED <<battery, vbus, chipVars, driverVars>>

BatteryChanges ==
  /\ battery' \in Volts
  /\ UNCHANGED <<sample, vbus, chipVars, driverVars>>

CableMoves ==
  /\ vbus' = ~vbus
  /\ UNCHANGED <<sample, battery, chipVars, driverVars>>

----------------------------------------------------------------------------
Next ==
  \/ ToCode \/ ReadId \/ ApplyMember
  \/ LambdaSetsLimit \/ LambdaSetsSwitch
  \/ \E triggered, read \in BOOLEAN : Update(triggered, read)
  \/ Restart
  \/ AdcStalls \/ AdcConverts \/ BatteryChanges \/ CableMoves

Spec == Init /\ [][Next]_vars

\* The scheduler calls update() for ever, the bus does not fail for ever, and
\* an ADC that is restarted again and again completes a conversion.
Fairness ==
  /\ WF_vars(Update(TRUE, TRUE))
  /\ SF_vars(AdcConverts)
FairSpec == Spec /\ Fairness

----------------------------------------------------------------------------
(* Properties                                                              *)

\* Each limit field holds a code its setter can write; the quotient of every
\* 16-bit argument fits it once truncated and clamped.
TypeOK ==
  /\ phase \in {"config", "setup", "loop", "failed"}
  /\ step \in 0 .. Len(Order)
  /\ phase = "config" => step > 0
  /\ warning \in BOOLEAN
  /\ limits \in [Limits -> Nat]
  /\ \A f \in Limits : limits[f] <= Top[f]
  /\ switches \in [Switches -> {0, 1}]
  /\ converting \in BOOLEAN
  /\ sample \in Volts /\ battery \in Volts /\ vbus \in BOOLEAN
  /\ published \subseteq [battery : Volts, vbus : BOOLEAN]
  /\ asked \in [Limits -> SUBSET Uint16]

\* The schema's ranges, from the least to the greatest value it accepts.
Least == Base
Greatest == [input |-> 3200, voltage |-> 4608, charge |-> 5056, precharge |-> 1024]

\* The charger never allows more than was last asked of it, beyond the least
\* value a field can hold; and within the schema's range it allows what was
\* asked, but for less than one step (the setters' rounding, clamping and
\* truncation to 8 bits).
LimitsHold ==
  \A f \in Limits : \A value \in asked[f] :
    LET allowed == Decoded(f, limits[f])
    IN  /\ allowed <= value \/ allowed = Base[f]
        /\ value \in Least[f] .. Greatest[f] => value - allowed < Step[f]

\* A component that failed in setup() leaves the charger alone and publishes
\* nothing, whatever the scheduler and the lambdas call.
FailedIsSilent ==
  [][phase = "failed" => UNCHANGED <<limits, switches, asked>>
                         /\ published' \in {published, {}}]_vars

\* The sensors catch up with the battery and the cable although the ADC
\* stalls at any time and transfers fail (what trigger_adc_ is for).
ReadingsCatchUp ==
  /\ \A v \in Volts : (phase = "loop" /\ battery = v)
       ~> (phase # "loop" \/ battery # v \/ \E p \in published : p.battery = v)
  /\ \A b \in BOOLEAN : (phase = "loop" /\ vbus = b)
       ~> (phase # "loop" \/ vbus # b \/ \E p \in published : p.vbus = b)

\* Once set up, the limits the driver gave the charger are the configured
\* ones: bq25895.h says the members are "set via Python to_code before
\* setup()".  Stated where no lambda changes a limit.
ConfigApplied ==
  phase = "loop" => \A f \in Limits : asked[f] \subseteq {LimitConfig[f]}

============================================================================
