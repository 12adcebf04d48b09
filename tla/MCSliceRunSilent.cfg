CONSTANTS
    None = None
    Layers = {l1}
    MaxDiagnostics = 1
SPECIFICATION Spec
INVARIANT FailureIsTold
