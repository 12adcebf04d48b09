CONSTANTS
    ModuleId <- MCModuleId
    Builtins <- MCBuiltins
    Inputs <- MCInputs
SPECIFICATION Spec
INVARIANTS
    LeastOrder
    CycleExact
    RequirementsRunFirst
    NoSilentOverwrite
    OneHolderPerStage
