------------------------------ MODULE MCLayerTier ------------------------------
(* Three layers of two modules.  Module 1 is layer-parallel-safe, consumes a  *)
(* prepared owner and has fewer slots than there are workers, so that its     *)
(* callers wait; module 2 is not layer-parallel-safe.                         *)
EXTENDS LayerTier

MCSelected == ((1 .. NLayers) \X (1 .. NModules)) \ {<<2, 1>>}
MCPoolSize == <<Cardinality(Workers) - 1, 1>>
MCNoWork == {<<3, 1>>}
MCEmpty == {<<2, 2>>}
=============================================================================
