CONSTANTS
    None = None
    Layers = {l1, l2, l3}
    MaxDiagnostics = 2
SYMMETRY LayerSymmetry
SPECIFICATION Spec
INVARIANT TerminalEvent
INVARIANT LayersBracketed
INVARIANT CountsTold
