--------------------------- MODULE BQ25895Proofs ---------------------------
(***************************************************************************)
(* The charger's limits hold for every configuration and every 16-bit      *)
(* argument of a lambda, not only for those of the run.                    *)
(***************************************************************************)
EXTENDS BQ25895, TLAPS

\* A setter's code fits its field, and means at most the value asked for and,
\* within the schema's range, less than a step below it.
Holds(f, value, code) ==
  /\ Decoded(f, code) <= value \/ Decoded(f, code) = Base[f]
  /\ value \in Least[f] .. Greatest[f] => value - Decoded(f, code) < Step[f]

\* Truncation to 8 bits.
LEMMA Truncated ==
  ASSUME NEW n \in Nat
  PROVE  /\ n % 256 \in 0 .. 255
         /\ n % 256 <= n
         /\ n < 256 => n % 256 = n
OBVIOUS

\* Division by the three steps.
LEMMA Quotients ==
  ASSUME NEW n \in Nat, NEW d \in {16, 50, 64}
  PROVE  /\ n \div d \in Nat
         /\ d * (n \div d) <= n
         /\ n < d * (n \div d) + d
<1>1. CASE d = 16
  BY <1>1
<1>2. CASE d = 50
  BY <1>2
<1>3. CASE d = 64
  BY <1>3
<1> QED  BY <1>1, <1>2, <1>3

\* A code as the charger takes it, for any base and top.
Fits(value, base, unit, top, code) ==
  /\ code \in 0 .. top
  /\ base + unit * code <= value \/ code = 0
  /\ value - base \in 0 .. unit * top => value - (base + unit * code) < unit

LEMMA Clamp8Fits ==
  ASSUME NEW value \in Nat, NEW base \in Nat, NEW unit \in {16, 50, 64},
         NEW top \in 0 .. 255
  PROVE  Fits(value, base, unit, top, Clamp8(value, base, unit, top))
<1> DEFINE taken == IF value < base THEN 0 ELSE value - base
           quotient == taken \div unit
           val == quotient % 256
<1>1. taken \in Nat
  OBVIOUS
<1>2. /\ quotient \in Nat
      /\ unit * quotient <= taken
      /\ taken < unit * quotient + unit
  BY <1>1, Quotients
<1>3. /\ val \in 0 .. 255
      /\ val <= quotient
      /\ quotient < 256 => val = quotient
  BY <1>2, Truncated
<1>4. Clamp8(value, base, unit, top) = IF val > top THEN top ELSE val
  BY DEF Clamp8
<1> HIDE DEF val, quotient
<1>5. CASE unit = 16
  <2>1. /\ 16 * quotient <= taken
        /\ taken < 16 * quotient + 16
    BY <1>2, <1>5
  <2>2. Fits(value, base, 16, top, IF val > top THEN top ELSE val)
    BY <1>1, <1>2, <1>3, <2>1 DEF Fits
  <2> QED  BY <1>4, <1>5, <2>2
<1>6. CASE unit = 50
  <2>1. /\ 50 * quotient <= taken
        /\ taken < 50 * quotient + 50
    BY <1>2, <1>6
  <2>2. Fits(value, base, 50, top, IF val > top THEN top ELSE val)
    BY <1>1, <1>2, <1>3, <2>1 DEF Fits
  <2> QED  BY <1>4, <1>6, <2>2
<1>7. CASE unit = 64
  <2>1. /\ 64 * quotient <= taken
        /\ taken < 64 * quotient + 64
    BY <1>2, <1>7
  <2>2. Fits(value, base, 64, top, IF val > top THEN top ELSE val)
    BY <1>1, <1>2, <1>3, <2>1 DEF Fits
  <2> QED  BY <1>4, <1>7, <2>2
<1> QED  BY <1>5, <1>6, <1>7

\* The arithmetic of each setter, for all its 16-bit arguments.
LEMMA CodeHolds ==
  ASSUME NEW f \in Limits, NEW value \in Uint16
  PROVE  /\ Code(f, value) \in 0 .. Top[f]
         /\ Holds(f, value, Code(f, value))
<1>0. value \in Nat
  BY DEF Uint16
<1>1. CASE f = "input"
  <2>1. Base[f] = 100 /\ Step[f] = 50 /\ Top[f] = 63 /\ Greatest[f] = 3200
    BY <1>1 DEF Base, Step, Top, Greatest, Limits
  <2>2. Fits(value, 100, 50, 63, Code(f, value))
    BY <1>0, <2>1, Clamp8Fits DEF Code
  <2> QED  BY <1>0, <2>1, <2>2 DEF Fits, Holds, Decoded, Least
<1>2. CASE f = "voltage"
  <2>1. Base[f] = 3840 /\ Step[f] = 16 /\ Top[f] = 63 /\ Greatest[f] = 4608
    BY <1>2 DEF Base, Step, Top, Greatest, Limits
  <2>2. Fits(value, 3840, 16, 63, Code(f, value))
    BY <1>0, <2>1, Clamp8Fits DEF Code
  <2> QED  BY <1>0, <2>1, <2>2 DEF Fits, Holds, Decoded, Least
<1>3. CASE f = "charge"
  <2>1. Base[f] = 0 /\ Step[f] = 64 /\ Top[f] = 127 /\ Greatest[f] = 5056
    BY <1>3 DEF Base, Step, Top, Greatest, Limits
  <2>2. Fits(value, 0, 64, 127, Code(f, value))
    BY <1>0, <2>1, Clamp8Fits DEF Code
  <2> QED  BY <1>0, <2>1, <2>2 DEF Fits, Holds, Decoded, Least
<1>4. CASE f = "precharge"
  <2>1. Base[f] = 64 /\ Step[f] = 64 /\ Top[f] = 15 /\ Greatest[f] = 1024
    BY <1>4 DEF Base, Step, Top, Greatest, Limits
  <2>2. Fits(value, 64, 64, 15, Code(f, value))
    BY <1>0, <2>1, Clamp8Fits DEF Code
  <2> QED  BY <1>0, <2>1, <2>2 DEF Fits, Holds, Decoded, Least
<1> QED  BY <1>1, <1>2, <1>3, <1>4 DEF Limits

LEMMA Members == \A f \in Limits : LimitMember[f] \in Uint16
<1> TAKE f \in Limits
<1>1. CASE f = "input"
  BY <1>1 DEF LimitMember, Uint16
<1>2. CASE f = "voltage"
  BY <1>2 DEF LimitMember, Uint16
<1>3. CASE f = "charge"
  BY <1>3 DEF LimitMember, Uint16
<1>4. CASE f = "precharge"
  BY <1>4 DEF LimitMember, Uint16
<1> QED  BY <1>1, <1>2, <1>3, <1>4 DEF Limits

\* What the setters do, whoever calls them and however the bus behaves.
LEMMA SetLimitHolds ==
  ASSUME TypeOK, LimitsHold,
         NEW f \in Limits, NEW value \in Uint16, SetLimit(f, value)
  PROVE  /\ limits' \in [Limits -> Nat]
         /\ \A g \in Limits : limits'[g] <= Top[g]
         /\ asked' \in [Limits -> SUBSET Uint16]
         /\ \A g \in Limits : \A v \in asked'[g] : Holds(g, v, limits'[g])
<1>1. /\ Code(f, value) \in Nat
      /\ Code(f, value) <= Top[f]
      /\ Holds(f, value, Code(f, value))
  <2>1. Top[f] \in Nat
    BY DEF Top, Limits
  <2> QED  BY <2>1, CodeHolds
<1>2. \A g \in Limits : \A v \in asked[g] : Holds(g, v, limits[g])
  BY DEF LimitsHold, Holds
<1>3. CASE UNCHANGED <<limits, asked>>
  BY <1>2, <1>3 DEF TypeOK
<1>4. CASE /\ limits' = [limits EXCEPT ![f] = Code(f, value)]
           /\ asked' = [asked EXCEPT ![f] = {value}]
  <2>1. /\ limits' \in [Limits -> Nat]
        /\ \A g \in Limits : limits'[g] <= Top[g]
    BY <1>1, <1>4 DEF TypeOK
  <2>2. asked' \in [Limits -> SUBSET Uint16]
    BY <1>4 DEF TypeOK
  <2>3. ASSUME NEW g \in Limits, NEW v \in asked'[g]
        PROVE  Holds(g, v, limits'[g])
    <3>1. CASE g = f
      BY <1>1, <1>4, <2>3, <3>1 DEF TypeOK
    <3>2. CASE g # f
      BY <1>2, <1>4, <2>3, <3>2 DEF TypeOK
    <3> QED  BY <3>1, <3>2
  <2> QED  BY <2>1, <2>2, <2>3
<1> QED  BY <1>3, <1>4 DEF SetLimit

LEMMA SetSwitchTyped ==
  ASSUME TypeOK, NEW s \in Switches, NEW on \in BOOLEAN, SetSwitch(s, on)
  PROVE  switches' \in [Switches -> {0, 1}] /\ converting' \in BOOLEAN
<1>1. Bit(s, on) \in {0, 1}
  BY DEF Bit
<1> QED  BY <1>1 DEF SetSwitch, TypeOK

\* A call of to_code or of setup().
LEMMA SetHolds ==
  ASSUME TypeOK, LimitsHold,
         NEW i \in 1 .. Len(Order), NEW limit, NEW switch,
         \A f \in Limits : limit[f] \in Uint16,
         \A s \in Switches : switch[s] \in BOOLEAN,
         Set(Order[i], limit, switch)
  PROVE  /\ limits' \in [Limits -> Nat]
         /\ \A g \in Limits : limits'[g] <= Top[g]
         /\ asked' \in [Limits -> SUBSET Uint16]
         /\ switches' \in [Switches -> {0, 1}]
         /\ converting' \in BOOLEAN
         /\ \A g \in Limits : \A v \in asked'[g] : Holds(g, v, limits'[g])
<1> DEFINE f == Order[i]
<1>1. CASE /\ f \in Limits
           /\ SetLimit(f, limit[f])
           /\ UNCHANGED <<switches, converting>>
  BY <1>1, SetLimitHolds DEF TypeOK
<1>2. CASE /\ f \in Switches
           /\ SetSwitch(f, switch[f])
           /\ UNCHANGED <<limits, asked>>
  BY <1>2, SetSwitchTyped DEF TypeOK, LimitsHold, Holds
<1> QED  BY <1>1, <1>2 DEF Set

\* The two parts are inductive together: the codes a restart finds in the
\* charger are those of the last writes, whichever boot made them.
Inv == TypeOK /\ LimitsHold

LEMMA InitInv == Init => Inv
<1> SUFFICES ASSUME Init PROVE Inv
  OBVIOUS
<1>1. Len(Order) = 7
  BY DEF Order
<1>2. \A f \in Limits : 0 <= Top[f]
  BY DEF Top, Limits
<1>3. limits \in [Limits -> Nat] /\ \A f \in Limits : limits[f] <= Top[f]
  BY <1>2 DEF Init
<1>4. asked \in [Limits -> SUBSET Uint16] /\ \A f \in Limits : asked[f] = {}
  BY DEF Init
<1>5. switches \in [Switches -> {0, 1}]
  BY DEF Init
<1>6. published \subseteq [battery : Volts, vbus : BOOLEAN]
  BY DEF Init
<1>7. LimitsHold
  BY <1>4 DEF LimitsHold
<1>8. /\ phase \in {"config", "setup", "loop", "failed"}
      /\ step \in 0 .. Len(Order)
      /\ step > 0
  BY <1>1 DEF Init
<1>9. /\ warning \in BOOLEAN /\ converting \in BOOLEAN
      /\ sample \in Volts /\ battery \in Volts /\ vbus \in BOOLEAN
  BY DEF Init
<1> QED  BY <1>3, <1>4, <1>5, <1>6, <1>7, <1>8, <1>9, Zenon DEF Inv, TypeOK

LEMMA NextInv == Inv /\ [Next]_vars => Inv'
<1> SUFFICES ASSUME TypeOK, LimitsHold, [Next]_vars PROVE TypeOK' /\ LimitsHold'
  BY DEF Inv
<1>0. Len(Order) = 7
  BY DEF Order
<1>1. CASE ToCode
  <2>1. step \in 1 .. Len(Order)
    BY <1>0, <1>1 DEF ToCode, TypeOK
  <2>2. /\ \A f \in Limits : LimitConfig[f] \in Uint16
        /\ \A s \in Switches : SwitchConfig[s] \in BOOLEAN
    BY ConfigAssumption
  <2>3. /\ limits' \in [Limits -> Nat]
        /\ \A g \in Limits : limits'[g] <= Top[g]
        /\ asked' \in [Limits -> SUBSET Uint16]
        /\ switches' \in [Switches -> {0, 1}]
        /\ converting' \in BOOLEAN
        /\ \A g \in Limits : \A v \in asked'[g] : Holds(g, v, limits'[g])
    BY <1>1, <2>1, <2>2, SetHolds DEF ToCode
  <2>4. LimitsHold'
    BY <2>3 DEF LimitsHold, Holds
  <2>5. phase' \in {"config", "setup"} /\ step' \in 0 .. 7 /\ (phase' = "config" => step' > 0)
    BY <1>0, <1>1, <2>1 DEF ToCode
  <2> QED  BY <1>0, <1>1, <2>3, <2>4, <2>5 DEF ToCode, TypeOK, worldVars
<1>2. CASE ReadId
  BY <1>0, <1>2 DEF ReadId, TypeOK, LimitsHold, chipVars, worldVars
<1>3. CASE ApplyMember
  <2>1. step \in 1 .. Len(Order)
    BY <1>0, <1>3 DEF ApplyMember, TypeOK
  <2>2. \A s \in Switches : SwitchMember[s] \in BOOLEAN
    BY DEF SwitchMember
  <2>3. /\ limits' \in [Limits -> Nat]
        /\ \A g \in Limits : limits'[g] <= Top[g]
        /\ asked' \in [Limits -> SUBSET Uint16]
        /\ switches' \in [Switches -> {0, 1}]
        /\ converting' \in BOOLEAN
        /\ \A g \in Limits : \A v \in asked'[g] : Holds(g, v, limits'[g])
    BY <1>3, <2>1, <2>2, Members, SetHolds DEF ApplyMember
  <2>4. LimitsHold'
    BY <2>3 DEF LimitsHold, Holds
  <2>5. phase' \in {"setup", "loop"} /\ step' \in 0 .. 7
    BY <1>0, <1>3, <2>1 DEF ApplyMember
  <2> QED  BY <1>0, <1>3, <2>3, <2>4, <2>5 DEF ApplyMember, TypeOK, worldVars
<1>4. CASE LambdaSetsLimit
  <2>1. PICK c \in LimitCalls : SetLimit(c[1], c[2])
    BY <1>4 DEF LambdaSetsLimit
  <2>2. c[1] \in Limits /\ c[2] \in Uint16
    BY CallsAssumption
  <2>3. /\ limits' \in [Limits -> Nat]
        /\ \A g \in Limits : limits'[g] <= Top[g]
        /\ asked' \in [Limits -> SUBSET Uint16]
        /\ \A g \in Limits : \A v \in asked'[g] : Holds(g, v, limits'[g])
    BY <2>1, <2>2, SetLimitHolds
  <2>4. LimitsHold'
    BY <2>3 DEF LimitsHold, Holds
  <2> QED  BY <1>4, <2>3, <2>4 DEF LambdaSetsLimit, TypeOK, driverVars, worldVars
<1>5. CASE LambdaSetsSwitch
  <2>1. PICK c \in SwitchCalls : SetSwitch(c[1], c[2])
    BY <1>5 DEF LambdaSetsSwitch
  <2>2. c[1] \in Switches /\ c[2] \in BOOLEAN
    BY CallsAssumption
  <2>3. switches' \in [Switches -> {0, 1}] /\ converting' \in BOOLEAN
    BY <2>1, <2>2, SetSwitchTyped
  <2> QED  BY <1>5, <2>3 DEF LambdaSetsSwitch, TypeOK, LimitsHold, driverVars, worldVars
<1>6. ASSUME NEW triggered \in BOOLEAN, NEW read \in BOOLEAN, Update(triggered, read)
      PROVE  TypeOK' /\ LimitsHold'
  <2>1. switches' \in [Switches -> {0, 1}]
    BY <1>6 DEF Update, TriggerAdc, TypeOK
  <2>2. converting' \in BOOLEAN
    <3>1. converting' = converting \/ converting' = (converting \/ triggered)
      BY <1>6 DEF Update, TriggerAdc
    <3> QED  BY <3>1 DEF TypeOK
  <2>3. published' \subseteq [battery : Volts, vbus : BOOLEAN]
    BY <1>6 DEF Update, Report, TypeOK
  <2>4. warning' \in BOOLEAN
    BY <1>6 DEF Update, Report
  <2> QED  BY <1>6, <2>1, <2>2, <2>3, <2>4 DEF Update, TypeOK, LimitsHold, worldVars
<1>7. CASE Restart
  <2>1. UNCHANGED <<limits, switches, converting, asked>>
    BY <1>7 DEF Restart, chipVars
  <2>2. LimitsHold'
    BY <2>1 DEF LimitsHold
  <2>3. published' \subseteq [battery : Volts, vbus : BOOLEAN]
    BY <1>7 DEF Restart
  <2>4. /\ phase' \in {"config", "setup", "loop", "failed"}
        /\ step' \in 0 .. Len(Order)
        /\ step' > 0
    BY <1>0, <1>7 DEF Restart
  <2>5. /\ warning' \in BOOLEAN
        /\ UNCHANGED <<sample, battery, vbus>>
    BY <1>7 DEF Restart, worldVars
  <2> QED  BY <2>1, <2>2, <2>3, <2>4, <2>5 DEF TypeOK
<1>8. CASE AdcStalls
  BY <1>8 DEF AdcStalls, TypeOK, LimitsHold, driverVars, worldVars
<1>9. CASE AdcConverts
  BY <1>9 DEF AdcConverts, TypeOK, LimitsHold, driverVars, chipVars
<1>10. CASE BatteryChanges
  BY <1>10 DEF BatteryChanges, TypeOK, LimitsHold, driverVars, chipVars
<1>11. CASE CableMoves
  BY <1>11 DEF CableMoves, TypeOK, LimitsHold, driverVars, chipVars
<1>12. CASE UNCHANGED vars
  BY <1>12 DEF vars, TypeOK, LimitsHold, driverVars, chipVars, worldVars
<1> QED
  BY <1>1, <1>2, <1>3, <1>4, <1>5, <1>6, <1>7, <1>8, <1>9, <1>10, <1>11, <1>12 DEF Next

\* Every code the driver writes fits its field.
THEOREM TypeCorrect == Spec => []TypeOK
<1>1. Inv => TypeOK
  BY DEF Inv
<1> QED  BY <1>1, InitInv, NextInv, PTL DEF Spec

\* The charger never allows more than was last asked of it (but for the least
\* value of a field), and within the schema's range less than a step below.
THEOREM LimitsHoldAlways == Spec => []LimitsHold
<1>1. Inv => LimitsHold
  BY DEF Inv
<1> QED  BY <1>1, InitInv, NextInv, PTL DEF Spec

\* A failed component writes nothing to the charger and shows nothing new.
THEOREM FailedStaysSilent == Spec => FailedIsSilent
<1> DEFINE Silent == phase = "failed" => /\ UNCHANGED <<limits, switches, asked>>
                                         /\ published' \in {published, {}}
<1>1. [Next]_vars => [Silent]_vars
  <2> SUFFICES ASSUME Next, phase = "failed"
               PROVE  /\ UNCHANGED <<limits, switches, asked>>
                      /\ published' \in {published, {}}
    OBVIOUS
  <2>1. CASE ToCode \/ ReadId \/ ApplyMember
    BY <2>1 DEF ToCode, ReadId, ApplyMember
  <2>2. CASE LambdaSetsLimit
    BY <2>2 DEF LambdaSetsLimit, SetLimit, driverVars
  <2>3. CASE LambdaSetsSwitch
    BY <2>3 DEF LambdaSetsSwitch, SetSwitch, driverVars
  <2>4. CASE \E triggered, read \in BOOLEAN : Update(triggered, read)
    BY <2>4 DEF Update
  <2>5. CASE Restart
    BY <2>5 DEF Restart, chipVars
  <2>6. CASE AdcStalls \/ AdcConverts \/ BatteryChanges \/ CableMoves
    BY <2>6 DEF AdcStalls, AdcConverts, BatteryChanges, CableMoves, driverVars, chipVars
  <2> QED  BY <2>1, <2>2, <2>3, <2>4, <2>5, <2>6 DEF Next
<1> QED  BY <1>1, PTL DEF Spec, FailedIsSilent
============================================================================
