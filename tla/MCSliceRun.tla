------------------------------ MODULE MCSliceRun ------------------------------
EXTENDS SliceRun, TLC

LayerSymmetry == Permutations(Layers)

=============================================================================
