SPECIFICATION Spec
CONSTANTS
    KeyOp <- OpOfKey
    KeyBase <- BaseOfKey
    FlagTexts <- Dashes
    SortedNames <- ConfigurationNames
    FailingCommands <- BadCommands
    NonConfigurationKeys <- ConfigKeep
    InvalidConfigurationKeys <- NotInConfig
    Inputs <- SafeInputs
    GlobalVars <- Globals1
    MaxExpansion = 6
INVARIANTS
    PhaseLeavesNothing
PROPERTIES
    ConfigurationsAreComplete
    FiltersMeanTheLastMatch
CHECK_DEADLOCK FALSE
