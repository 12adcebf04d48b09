------------------------ MODULE MCPreparedOwnerStore ------------------------
(* Two owners, two threads.  The first owner is staged with pieces, scenes   *)
(* and faults; the second only takes part in guards and disposal.            *)
EXTENDS PreparedOwnerStore, TLC

StoreSymmetry == Permutations(Threads) \cup Permutations(Identities)

SecondOwnerBare ==
  /\ pieces[1] = NoPieces
  /\ projection[1] = NoProjection
  /\ acct[1].put_calls = 0
  /\ writer_fault[1] = NoFault /\ projection_failure[1] = NoFault
  /\ \A w \in writers : w.o = 0
=============================================================================
