SPECIFICATION FairSpec
CONSTANTS
    LimitConfig <- YamlLimits
    SwitchConfig <- YamlSwitches
    LimitCalls <- LambdaLimits
    SwitchCalls <- LambdaSwitches
    Volts = {1, 2}
INVARIANTS
    TypeOK
    LimitsHold
PROPERTIES
    FailedIsSilent
    ReadingsCatchUp
