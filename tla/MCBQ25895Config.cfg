SPECIFICATION Spec
CONSTANTS
    LimitConfig <- YamlLimits
    SwitchConfig <- YamlSwitches
    LimitCalls = {}
    SwitchCalls = {}
    Volts = {1}
INVARIANTS
    ConfigApplied
