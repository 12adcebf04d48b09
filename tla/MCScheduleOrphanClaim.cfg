CONSTANTS
    ModuleId <- MCModuleId
    Builtins <- MCBuiltins
    Inputs <- ClaimInputs
SPECIFICATION Spec
INVARIANT WinnerIsKept
