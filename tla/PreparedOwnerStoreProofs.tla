----------------------- MODULE PreparedOwnerStoreProofs -----------------------
(***************************************************************************)
(* Proofs about the prepared-owner store, for any number of owners and     *)
(* threads, any pieces and views and any width of its counters.            *)
(***************************************************************************)
EXTENDS PreparedOwnerStore, FiniteSetTheorems, TLAPS

\* Owners are numbered in order of creation, ready is the ready phase, and a
\* disposed store has no owner left.
OwnerShape ==
  /\ \A o \in Owners : phase[o] = "absent" <=> o >= next_owner
  /\ \A o \in Owners : ready[o] <=> phase[o] = "ready"
  /\ disposed => \A o \in Owners : phase[o] \in {"absent", "disposed"}

\* The part of the invariant about guards, transactions and disposal.
LifeInv == GuardBalance /\ StagingExclusive /\ NoDisposalUnderCall /\ OwnerShape

\* The inductive invariant.
StoreInv == TypeOK /\ LifeInv

-----------------------------------------------------------------------------
(* Types *)

\* The values that stand for Rust's None and for empty maps are typed.
LEMMA NoneTyped ==
  /\ NoInvocation \in Invocation
  /\ IdleCall \in [pc : Pcs, o : Owners \cup {0},
                   id : Identities \cup {NoIdentity}, prev : Invocation]
  /\ NoInner \in [on : BOOLEAN, o : Owners \cup {0},
                  bound : BOOLEAN, prev : Invocation]
  /\ IsFiniteSet(DOMAIN NoPieces) /\ DOMAIN NoPieces = {}
BY FS_EmptySet DEF NoInvocation, Invocation, IdleCall, NoInner, Pcs, NoPieces

\* An empty store is typed.
LEMMA TypeInit == Init => TypeOK
<1> SUFFICES ASSUME Init  PROVE TypeOK
  OBVIOUS
<1>1. TypeStore
  <2>1. next_owner \in 0 .. MaxOwners /\ active_reads \in [Owners -> Nat]
    BY StoreAssumption DEF Init
  <2> QED  BY <2>1, Zenon DEF Init, TypeStore
<1>2. TypePlan
  BY NoneTyped DEF Init, TypePlan, NoAccount, NoBytes, NoProjection
<1>3. TypeThreads
  BY NoneTyped DEF Init, TypeThreads, IdleCall, NoInner
<1> QED  BY <1>1, <1>2, <1>3 DEF TypeOK

\* A step that changes no plan, no store variable or no thread variable.
LEMMA TypeSame ==
  /\ TypePlan /\ UNCHANGED planVars => TypePlan'
  /\ TypeStore /\ UNCHANGED <<storeVars, active_reads, writers>> => TypeStore'
  /\ TypeThreads /\ UNCHANGED threadVars => TypeThreads'
BY DEF TypePlan, planVars, TypeStore, storeVars, TypeThreads, threadVars

\* Goto moves the program counter of a call that has started.
LEMMA TypeGoto ==
  ASSUME TypeThreads, NEW t \in Threads, NEW pc \in Pcs,
         call[t].pc # "idle", Goto(t, pc), UNCHANGED <<tls, inner, piece>>
  PROVE  TypeThreads'
BY DEF TypeThreads, Goto

\* A call past its first check names an owner.
LEMMA OwnerOfCall ==
  ASSUME TypeOK, NEW t \in Threads, call[t].pc # "idle"
  PROVE  call[t].o \in Owners
BY DEF TypeOK, TypeThreads

\* clear() leaves every field typed.
LEMMA TypeClear ==
  ASSUME TypePlan, NEW S, NEW to \in {"unready", "disposed"}, Clear(S, to)
  PROVE  TypePlan'
<1> USE DEF Clear, TypePlan
<1>1. phase' \in [Owners -> {"absent", "unready", "staging", "ready",
                             "disposed"}]
  OBVIOUS
<1>2. ready' \in [Owners -> BOOLEAN]
  OBVIOUS
<1>3. /\ DOMAIN pieces' = Owners /\ DOMAIN plan' = Owners
      /\ \A o \in Owners :
           /\ IsFiniteSet(DOMAIN pieces'[o])
           /\ DOMAIN pieces'[o] \subseteq Names
           /\ \A n \in DOMAIN pieces'[o] : pieces'[o][n] \in Piece
  BY NoneTyped
<1>4. /\ acct' \in [Owners -> [staged : Nat, retained : Nat, put_calls : Nat]]
      /\ diag' \in [Owners -> [staged : Nat, retained : Nat]]
  BY DEF NoAccount, NoBytes
<1>5. /\ writer_fault' \in [Owners -> WriterFaults \cup {NoFault}]
      /\ projection_failure' \in [Owners -> ProjectionFaults \cup {NoFault}]
      /\ projection' \in [Owners -> [views : SUBSET (Views \cup {Undeclared}),
                                     scenes : SUBSET (Views \cup {Undeclared})]]
      /\ call_identity' \in [Owners -> Identities \cup {NoIdentity}]
  BY DEF NoProjection
<1> QED  BY <1>1, <1>2, <1>3, <1>4, <1>5

\* Outlive only ages the writers.
LEMMA TypeOutlive ==
  ASSUME TypeStore, NEW o, writers' = Outlive(o),
         UNCHANGED <<storeVars, active_reads>>
  PROVE  TypeStore'
BY DEF TypeStore, Outlive, storeVars

\* The accounting of one more piece.
LEMMA TypeAccount ==
  ASSUME NEW o \in Owners, NEW len \in Nat,
         acct \in [Owners -> [staged : Nat, retained : Nat, put_calls : Nat]]
  PROVE  [acct EXCEPT ![o] =
            [staged |-> @.staged + len, retained |-> @.retained,
             put_calls |-> @.put_calls + 1]]
         \in [Owners -> [staged : Nat, retained : Nat, put_calls : Nat]]
OBVIOUS

\* The transaction's steps keep the types.
LEMMA TypeTransaction ==
  ASSUME TypeOK, NEW t \in Threads, Transaction(t)
  PROVE  TypeOK'
<1> DEFINE o == call[t].o
<1> USE DEF TypeOK
<1> HIDE DEF o
<1>1. CASE begin(t)
  <2>1. o \in Owners
    BY <1>1, OwnerOfCall DEF begin, o
  <2>2. tls[t].id \in Identities \cup {NoIdentity}
    BY DEF TypeThreads, Invocation, NoInvocation
  <2>3. TypePlan'
    BY <1>1, <2>1, <2>2 DEF begin, o, TypePlan
  <2>4. TypeThreads'
    BY <1>1, TypeGoto DEF begin, Pcs, GuardedPcs, TransactionPcs
  <2>5. TypeStore'
    BY <1>1, TypeSame DEF begin, storeVars
  <2> QED  BY <2>3, <2>4, <2>5
<1>2. CASE BeginRefused(t)
  BY <1>2, TypeGoto, TypeSame DEF BeginRefused, Pcs, GuardedPcs
<1>3. CASE SetupFails(t)
  BY <1>3, TypeGoto, TypeSame DEF SetupFails, Pcs, GuardedPcs, TransactionPcs
<1>4. ASSUME NEW requested \in SUBSET (Views \cup {Undeclared}),
             request_projections(t, requested)
      PROVE  TypeOK'
  <2>1. o \in Owners
    BY <1>4, OwnerOfCall DEF request_projections, o
  <2>2. TypePlan'
    BY <1>4, <2>1 DEF request_projections, o, TypePlan, ProjectionFaults
  <2>3. TypeThreads'
    BY <1>4, TypeGoto
    DEF request_projections, Pcs, GuardedPcs, TransactionPcs
  <2>4. TypeStore'
    BY <1>4, TypeSame DEF request_projections, storeVars
  <2> QED  BY <2>2, <2>3, <2>4
<1>5. ASSUME NEW name \in Names \cup {""}, NEW len \in Lens,
             put(t, name, len)
      PROVE  TypeOK'
  <2>1. o \in Owners
    BY <1>5, OwnerOfCall DEF put, o
  <2>2. PutFault(o, name, len) \in WriterFaults \cup {NoFault}
    BY DEF PutFault, WriterFaults
  <2>3. TypePlan'
    <3>1. CASE PutFault(o, name, len) = NoFault
      <4>1. name \in Names
        BY <3>1 DEF PutFault, NoFault
      <4>2. /\ DOMAIN PutPieces(o, name, len) = DOMAIN pieces[o] \cup {name}
            /\ Cardinality(DOMAIN pieces[o]) \in Nat
            /\ IsFiniteSet(DOMAIN pieces[o] \cup {name})
        BY <2>1, FS_AddElement, FS_CardinalityType DEF TypePlan, PutPieces
      <4>3. \A n \in DOMAIN pieces[o] \cup {name} :
              PutPieces(o, name, len)[n] \in Piece
        BY <2>1, <4>2, StoreAssumption DEF TypePlan, PutPieces, Piece
      <4>4. pieces' = [pieces EXCEPT ![o] = PutPieces(o, name, len)]
        BY <1>5, <3>1 DEF put, o
      <4>5. \A q \in Owners :
              /\ IsFiniteSet(DOMAIN pieces'[q])
              /\ DOMAIN pieces'[q] \subseteq Names
              /\ \A n \in DOMAIN pieces'[q] : pieces'[q][n] \in Piece
        BY <2>1, <4>1, <4>2, <4>3, <4>4 DEF TypePlan
      <4>6. acct' \in [Owners -> [staged : Nat, retained : Nat,
                                  put_calls : Nat]]
        <5>1. acct' = [acct EXCEPT ![o] =
                         [staged |-> @.staged + len, retained |-> @.retained,
                          put_calls |-> @.put_calls + 1]]
          BY <1>5, <3>1 DEF put, o
        <5>2. /\ len \in Nat
              /\ acct \in [Owners -> [staged : Nat, retained : Nat,
                                      put_calls : Nat]]
          BY StoreAssumption DEF TypePlan
        <5> QED  BY <2>1, <5>1, <5>2, TypeAccount
      <4>7. UNCHANGED <<phase, ready, plan, diag, writer_fault,
                        projection_failure, projection, call_identity>>
        BY <1>5, <3>1 DEF put, o
      <4>8. DOMAIN pieces' = Owners
        BY <4>4 DEF TypePlan
      <4> QED  BY <4>5, <4>6, <4>7, <4>8 DEF TypePlan
    <3>2. CASE PutFault(o, name, len) # NoFault
      <4>1. /\ writer_fault' = [writer_fault EXCEPT ![o] =
                                  PutFault(o, name, len)]
            /\ UNCHANGED <<phase, ready, pieces, plan, acct, diag,
                           projection_failure, projection, call_identity>>
        BY <1>5, <3>2 DEF put, o
      <4> QED  BY <2>1, <2>2, <4>1 DEF TypePlan
    <3> QED  BY <3>1, <3>2
  <2>4. TypeThreads' /\ TypeStore'
    BY <1>5, TypeSame DEF put, storeVars
  <2> QED  BY <2>3, <2>4
<1>6. CASE projection_writer(t)
  <2>1. o \in Owners
    BY <1>6, OwnerOfCall DEF projection_writer, o
  <2>2. TypeStore'
    <3>1. writers' = writers \cup {[o |-> o, id |-> call_identity[o],
                                    stale |-> FALSE]}
      BY <1>6 DEF projection_writer, o
    <3>2. call_identity[o] \in Identities \cup {NoIdentity}
      BY <2>1 DEF TypePlan
    <3>3. writers' \subseteq [o : Owners, id : Identities \cup {NoIdentity},
                              stale : BOOLEAN]
      <4> DEFINE new == [o |-> o, id |-> call_identity[o], stale |-> FALSE]
      <4>1. new \in [o : Owners, id : Identities \cup {NoIdentity},
                     stale : BOOLEAN]
        BY <2>1, <3>2
      <4> HIDE DEF new
      <4>2. writers' = writers \cup {new}
        BY <3>1 DEF new
      <4> QED  BY <4>1, <4>2 DEF TypeStore
    <3>4. UNCHANGED <<disposed, next_owner, active_reads>>
      BY <1>6 DEF projection_writer, storeVars
    <3> QED  BY <3>3, <3>4 DEF TypeStore
  <2> QED  BY <1>6, <2>2, TypeSame DEF projection_writer
<1>7. ASSUME NEW w \in writers, NEW view \in Views \cup {Undeclared},
             NEW valid \in BOOLEAN, publish(t, w, view, valid)
      PROVE  TypeOK'
  <2>1. w.o \in Owners
    BY DEF TypeStore
  <2>2. PublishFault(w.o, view, valid) \in ProjectionFaults \cup {NoFault}
    BY DEF PublishFault, ProjectionFaults
  <2>3. /\ projection' \in [Owners ->
                              [views : SUBSET (Views \cup {Undeclared}),
                               scenes : SUBSET (Views \cup {Undeclared})]]
        /\ diag' \in [Owners -> [staged : Nat, retained : Nat]]
        /\ projection_failure' \in [Owners -> ProjectionFaults \cup {NoFault}]
    <3>1. CASE PublishFault(w.o, view, valid) = NoFault
      <4>1. /\ projection' = [projection EXCEPT ![w.o].scenes = @ \cup {view}]
            /\ diag' = [diag EXCEPT ![w.o].staged = @ + 1]
            /\ UNCHANGED projection_failure
        BY <1>7, <3>1 DEF publish
      <4>2. /\ projection \in [Owners ->
                                 [views : SUBSET (Views \cup {Undeclared}),
                                  scenes : SUBSET (Views \cup {Undeclared})]]
            /\ diag \in [Owners -> [staged : Nat, retained : Nat]]
            /\ projection_failure \in [Owners ->
                                         ProjectionFaults \cup {NoFault}]
        BY DEF TypePlan
      <4> QED  BY <2>1, <4>1, <4>2
    <3>2. CASE PublishFault(w.o, view, valid) # NoFault
      <4>1. /\ projection_failure' = [projection_failure EXCEPT ![w.o] =
                                        PublishFault(w.o, view, valid)]
            /\ UNCHANGED <<projection, diag>>
        BY <1>7, <3>2 DEF publish
      <4> QED  BY <2>1, <2>2, <4>1 DEF TypePlan
    <3> QED  BY <3>1, <3>2
  <2>4. TypePlan'
    BY <1>7, <2>3 DEF publish, TypePlan
  <2> QED  BY <1>7, <2>4, TypeSame DEF publish
<1>8. ASSUME NEW pc \in {"finishing", "failing", "dropping"},
             ModuleReturns(t, pc)
      PROVE  TypeOK'
  BY <1>8, TypeGoto, TypeSame
  DEF ModuleReturns, Pcs, GuardedPcs, TransactionPcs
<1>9. CASE ModuleReturnsPoisoned(t)
  <2>1. o \in Owners
    BY <1>9, OwnerOfCall DEF ModuleReturnsPoisoned, o
  <2>2. TypePlan'
    BY <1>9, <2>1 DEF ModuleReturnsPoisoned, o, TypePlan, WriterFaults
  <2>3. TypeThreads'
    BY <1>9, TypeGoto
    DEF ModuleReturnsPoisoned, Pcs, GuardedPcs, TransactionPcs
  <2> QED  BY <1>9, <2>2, <2>3, TypeSame DEF ModuleReturnsPoisoned
<1>10. CASE FinishCheck(t)
  <2>1. o \in Owners
    BY <1>10, OwnerOfCall DEF FinishCheck, o
  <2>2. FinishFault(o) \in ProjectionFaults \cup {NoFault}
    BY <2>1 DEF FinishFault, ProjectionFaults, TypePlan
  <2>3. TypePlan'
    BY <1>10, <2>1, <2>2 DEF FinishCheck, o, TypePlan
  <2>4. TypeThreads'
    BY <1>10, TypeGoto DEF FinishCheck, Pcs, GuardedPcs, TransactionPcs
  <2> QED  BY <1>10, <2>3, <2>4, TypeSame DEF FinishCheck
<1>11. ASSUME NEW accepted \in BOOLEAN, Validate(t, accepted)
       PROVE  TypeOK'
  BY <1>11, TypeGoto, TypeSame DEF Validate, Pcs, GuardedPcs, TransactionPcs
<1>12. CASE FinishPublish(t)
  <2>1. o \in Owners
    BY <1>12, OwnerOfCall DEF FinishPublish, o
  <2>2. /\ diag' \in [Owners -> [staged : Nat, retained : Nat]]
        /\ acct' \in [Owners -> [staged : Nat, retained : Nat,
                                 put_calls : Nat]]
    <3>1. /\ diag' = [diag EXCEPT ![o] = [staged |-> 0,
                                        retained |-> @.retained + @.staged]]
          /\ acct' = [acct EXCEPT ![o] =
                        [staged |-> 0, retained |-> @.staged,
                         put_calls |-> @.put_calls]]
      BY <1>12 DEF FinishPublish, o
    <3>2. /\ diag \in [Owners -> [staged : Nat, retained : Nat]]
          /\ acct \in [Owners -> [staged : Nat, retained : Nat,
                                  put_calls : Nat]]
      BY DEF TypePlan
    <3> QED  BY <2>1, <3>1, <3>2
  <2>5. /\ call_identity' = [call_identity EXCEPT ![o] = NoIdentity]
        /\ plan' = [plan EXCEPT ![o] = pieces[o]]
        /\ phase' = [phase EXCEPT ![o] = "ready"]
        /\ ready' = [ready EXCEPT ![o] = TRUE]
        /\ UNCHANGED <<pieces, writer_fault, projection_failure, projection>>
    BY <1>12 DEF FinishPublish, o
  <2>3. TypePlan'
    BY <2>1, <2>2, <2>5 DEF TypePlan
  <2>4. TypeThreads'
    BY <1>12, TypeGoto DEF FinishPublish, Pcs, GuardedPcs
  <2> QED  BY <1>12, <2>3, <2>4, TypeOutlive DEF FinishPublish
<1>13. CASE FinishPoisoned(t)
  <2>1. o \in Owners
    BY <1>13, OwnerOfCall DEF FinishPoisoned, o
  <2>2. TypePlan'
    BY <1>13, <2>1 DEF FinishPoisoned, o, TypePlan, ProjectionFaults
  <2>3. TypeThreads'
    BY <1>13, TypeGoto DEF FinishPoisoned, Pcs, GuardedPcs, TransactionPcs
  <2> QED  BY <1>13, <2>2, <2>3, TypeSame DEF FinishPoisoned
<1>14. CASE DropTransaction(t)
  <2>1. TypePlan'
    BY <1>14, TypeClear DEF DropTransaction
  <2>2. TypeThreads'
    BY <1>14, TypeGoto DEF DropTransaction, Pcs, GuardedPcs
  <2> QED  BY <1>14, <2>1, <2>2, TypeOutlive DEF DropTransaction
<1> QED  BY <1>1, <1>2, <1>3, <1>4, <1>5, <1>6, <1>7, <1>8, <1>9, <1>10,
            <1>11, <1>12, <1>13, <1>14 DEF Transaction

\* Guards are counted over finitely many threads.
LEMMA GuardsFinite ==
  \A o : /\ IsFiniteSet(Callers(o)) /\ Cardinality(Callers(o)) \in Nat
         /\ IsFiniteSet(Readers(o)) /\ Cardinality(Readers(o)) \in Nat
<1>1. \A o : Callers(o) \in SUBSET Threads /\ Readers(o) \in SUBSET Threads
  BY DEF Callers, Readers
<1> QED  BY <1>1, StoreAssumption, FS_Subset, FS_CardinalityType

\* A live guard has been counted: its drop never decrements zero.
LEMMA GuardCounted ==
  ASSUME GuardBalance, NEW o \in Owners,
         Callers(o) # {} \/ Readers(o) # {}
  PROVE  active_reads[o] > 0
<1>1. Cardinality(Callers(o)) > 0 \/ Cardinality(Readers(o)) > 0
  BY GuardsFinite, FS_EmptySet
<1> QED  BY <1>1, GuardsFinite DEF GuardBalance

\* Entering and leaving calls and reads keeps the types.
LEMMA TypeGuarding ==
  ASSUME TypeOK, GuardBalance, NEW t \in Threads, Guarding(t)
  PROVE  TypeOK'
<1> USE DEF TypeOK
<1>1. ASSUME NEW o \in Owners, StartPrepare(t, o) \/ StartPlan(t, o)
      PROVE  TypeOK'
  <2>1. PICK pc \in {"checked_prepare", "checked_plan"} :
          call' = [call EXCEPT ![t] = [IdleCall EXCEPT !.pc = pc, !.o = o]]
    BY <1>1 DEF StartPrepare, StartPlan
  <2>2. TypeThreads'
    BY <1>1, <2>1, NoneTyped
    DEF StartPrepare, StartPlan, TypeThreads, IdleCall, Pcs
  <2> QED  BY <1>1, <2>2, TypeSame DEF StartPrepare, StartPlan
<1>2. CASE AcquireGuard(t)
  <2>1. call[t].o \in Owners
    BY <1>2, OwnerOfCall DEF AcquireGuard
  <2>2. PICK id \in Fresh :
          /\ tls' = [tls EXCEPT ![t] = [o |-> call[t].o, id |-> id]]
          /\ call' = [call EXCEPT ![t] = [pc |-> Entered(@.pc),
                                          o |-> call[t].o, id |-> id,
                                          prev |-> tls[t]]]
    BY <1>2 DEF AcquireGuard
  <2>3. id \in Identities
    BY DEF Fresh
  <2>4. TypeThreads'
    BY <1>2, <2>1, <2>2, <2>3
    DEF AcquireGuard, TypeThreads, Entered, Invocation, Pcs, GuardedPcs
  <2>5. TypeStore'
    BY <1>2, <2>1 DEF AcquireGuard, TypeStore, storeVars
  <2> QED  BY <1>2, <2>4, <2>5, TypeSame DEF AcquireGuard
<1>3. CASE AcquireDenied(t)
  <2>1. TypeThreads'
    BY <1>3, NoneTyped DEF AcquireDenied, TypeThreads, IdleCall
  <2> QED  BY <1>3, <2>1, TypeSame DEF AcquireDenied
<1>4. CASE LeaveCall(t)
  <2>1. call[t].o \in Owners
    BY <1>4, OwnerOfCall DEF LeaveCall
  <2>2. active_reads[call[t].o] > 0
    <3>1. t \in Callers(call[t].o)
      BY <1>4 DEF LeaveCall, Callers, HoldsGuard, GuardedPcs
    <3> QED  BY <2>1, <3>1, GuardCounted
  <2>3. TypeStore'
    BY <1>4, <2>1, <2>2 DEF LeaveCall, TypeStore, storeVars
  <2>4. TypeThreads'
    BY <1>4, NoneTyped DEF LeaveCall, TypeThreads, IdleCall
  <2> QED  BY <1>4, <2>3, <2>4, TypeSame DEF LeaveCall
<1>5. CASE InputReadEnter(t)
  <2>1. call[t].o \in Owners
    BY <1>5, OwnerOfCall DEF InputReadEnter
  <2>2. PICK id \in Fresh :
          tls' = [tls EXCEPT ![t] = [o |-> call[t].o, id |-> id]]
    BY <1>5 DEF InputReadEnter
  <2>3. id \in Identities
    BY DEF Fresh
  <2>4. TypeThreads'
    BY <1>5, <2>1, <2>2, <2>3 DEF InputReadEnter, TypeThreads, Invocation
  <2>5. TypeStore'
    BY <1>5, <2>1 DEF InputReadEnter, TypeStore, storeVars
  <2> QED  BY <1>5, <2>4, <2>5, TypeSame DEF InputReadEnter
<1>6. CASE ReadEnter(t)
  <2>1. piece[t].o \in Owners
    BY <1>6 DEF ReadEnter, TypeThreads
  <2>2. TypeThreads'
    BY <1>6, <2>1, NoneTyped DEF ReadEnter, TypeThreads
  <2>3. TypeStore'
    BY <1>6, <2>1 DEF ReadEnter, TypeStore, storeVars
  <2> QED  BY <1>6, <2>2, <2>3, TypeSame DEF ReadEnter
<1>7. CASE InnerLeave(t)
  <2>1. inner[t].o \in Owners
    BY <1>7 DEF InnerLeave, TypeThreads
  <2>2. active_reads[inner[t].o] > 0
    <3>1. t \in Readers(inner[t].o)
      BY <1>7 DEF InnerLeave, Readers
    <3> QED  BY <2>1, <3>1, GuardCounted
  <2>3. TypeStore'
    BY <1>7, <2>1, <2>2 DEF InnerLeave, TypeStore, storeVars
  <2>4. TypeThreads'
    BY <1>7, NoneTyped DEF InnerLeave, TypeThreads, NoInner
  <2> QED  BY <1>7, <2>3, <2>4, TypeSame DEF InnerLeave
<1> QED  BY <1>1, <1>2, <1>3, <1>4, <1>5, <1>6, <1>7 DEF Guarding

\* Reading a plan and the remaining steps keep the types.
LEMMA TypeConsuming ==
  ASSUME TypeOK, NEW t \in Threads, Consuming(t)
  PROVE  TypeOK'
<1> USE DEF TypeOK
<1>1. ASSUME NEW name \in Names, open(t, name)
      PROVE  TypeOK'
  <2>1. call[t].o \in Owners
    BY <1>1, OwnerOfCall DEF open
  <2>2. pieces[call[t].o][name] \in Piece
    BY <1>1, <2>1 DEF open, TypePlan
  <2>3. TypeThreads'
    BY <1>1, <2>1, <2>2 DEF open, TypeThreads, Piece
  <2> QED  BY <1>1, <2>3, TypeSame DEF open
<1>2. CASE DropPiece(t)
  <2>1. TypeThreads'
    BY <1>2 DEF DropPiece, TypeThreads
  <2> QED  BY <1>2, <2>1, TypeSame DEF DropPiece
<1>3. CASE PlanReturns(t)
  BY <1>3, TypeGoto, TypeSame DEF PlanReturns, Pcs, GuardedPcs
<1> QED  BY <1>1, <1>2, <1>3 DEF Consuming

\* Every step keeps the types; dropping a guard needs the balance.
LEMMA TypeStep ==
  ASSUME TypeOK, GuardBalance, [Next]_vars
  PROVE  TypeOK'
<1> USE DEF TypeOK
<1>1. CASE create_owner
  <2>1. next_owner \in Owners /\ next_owner + 1 \in 0 .. MaxOwners
    BY <1>1, StoreAssumption DEF create_owner, TypeStore, Owners
  <2>2. TypePlan'
    BY <1>1, <2>1 DEF create_owner, TypePlan
  <2>3. TypeStore'
    BY <1>1, <2>1 DEF create_owner, TypeStore
  <2> QED  BY <1>1, <2>2, <2>3, TypeSame DEF create_owner
<1>2. ASSUME NEW t \in Threads, Transaction(t) \/ Guarding(t) \/ Consuming(t)
      PROVE  TypeOK'
  BY <1>2, TypeTransaction, TypeGuarding, TypeConsuming
<1>3. ASSUME NEW w \in writers, DropWriter(w)
      PROVE  TypeOK'
  <2>1. TypeStore'
    BY <1>3 DEF DropWriter, TypeStore, storeVars
  <2> QED  BY <1>3, <2>1, TypeSame DEF DropWriter
<1>4. ASSUME NEW o \in Owners, dispose_owner(o)
      PROVE  TypeOK'
  BY <1>4, TypeClear, TypeSame DEF dispose_owner
<1>5. CASE dispose
  <2>1. TypePlan'
    BY <1>5, TypeClear DEF dispose
  <2>2. TypeStore'
    BY <1>5, Zenon DEF dispose, TypeStore
  <2> QED  BY <1>5, <2>1, <2>2, TypeSame DEF dispose
<1>6. CASE UNCHANGED vars
  BY <1>6, TypeSame DEF vars
<1> QED  BY <1>1, <1>2, <1>3, <1>4, <1>5, <1>6 DEF Next

-----------------------------------------------------------------------------
(* Guards, transactions and disposal *)

\* An empty store has no guard, no transaction and no owner.
LEMMA LifeInit == Init => LifeInv
<1> SUFFICES ASSUME Init  PROVE LifeInv
  OBVIOUS
<1>1. \A o : Callers(o) = {} /\ Readers(o) = {}
  BY DEF Init, Callers, Readers, HoldsGuard, GuardedPcs, TransactionPcs,
     IdleCall, NoInner
<1>2. GuardBalance
  BY <1>1, FS_EmptySet DEF Init, GuardBalance
<1>3. StagingExclusive /\ NoDisposalUnderCall
  BY DEF Init, StagingExclusive, NoDisposalUnderCall, InTransaction,
     HoldsGuard, GuardedPcs, TransactionPcs, IdleCall, NoInner
<1>4. OwnerShape
  BY StoreAssumption DEF Init, OwnerShape, Owners
<1> QED  BY <1>2, <1>3, <1>4 DEF LifeInv

\* The step neither takes nor drops a guard, neither starts nor ends a
\* transaction, and leaves the owners' phases alone.
SameGuards ==
  /\ UNCHANGED <<disposed, next_owner, phase, ready, active_reads, inner>>
  /\ \A t \in Threads :
       /\ HoldsGuard(t)' <=> HoldsGuard(t)
       /\ InTransaction(t)' <=> InTransaction(t)
       /\ HoldsGuard(t) => call'[t].o = call[t].o

\* A step that leaves the guards and the phases alone keeps the balance.
LEMMA LifeSame ==
  ASSUME LifeInv, SameGuards
  PROVE  LifeInv'
<1> USE DEF LifeInv, SameGuards
<1>1. \A t \in Threads : InTransaction(t) => HoldsGuard(t)
  BY DEF InTransaction, HoldsGuard, GuardedPcs
<1>2. GuardBalance'
  <2>1. \A o : Callers(o)' = Callers(o) /\ Readers(o)' = Readers(o)
    BY DEF Callers, Readers
  <2> QED  BY <2>1 DEF GuardBalance
<1>3. StagingExclusive'
  BY <1>1 DEF StagingExclusive
<1>4. NoDisposalUnderCall'
  BY DEF NoDisposalUnderCall, CheckOwner
<1>5. OwnerShape'
  BY DEF OwnerShape
<1> QED  BY <1>2, <1>3, <1>4, <1>5

\* Goto between two program counters on the same side of the guard and of
\* the transaction.
LEMMA SameGoto ==
  ASSUME TypeOK, NEW t \in Threads, NEW pc, Goto(t, pc),
         call[t].pc \in GuardedPcs <=> pc \in GuardedPcs,
         call[t].pc \in TransactionPcs <=> pc \in TransactionPcs,
         UNCHANGED <<disposed, next_owner, phase, ready, active_reads, inner>>
  PROVE  SameGuards
BY DEF SameGuards, Goto, HoldsGuard, InTransaction, TypeOK, TypeThreads

\* The steps of a transaction other than begin and its two ends.
LEMMA SameTransaction ==
  ASSUME TypeOK, NEW t \in Threads, Transaction(t)
  PROVE  SameGuards \/ begin(t) \/ FinishPublish(t) \/ DropTransaction(t)
<1> USE DEF storeVars, planVars, threadVars, GuardedPcs, TransactionPcs
<1>2. ASSUME BeginRefused(t)  PROVE SameGuards
  BY <1>2, SameGoto DEF BeginRefused
<1>3. ASSUME SetupFails(t)  PROVE SameGuards
  BY <1>3, SameGoto DEF SetupFails
<1>4. ASSUME NEW requested, request_projections(t, requested)
      PROVE  SameGuards
  BY <1>4, SameGoto DEF request_projections
<1>5. ASSUME NEW name, NEW len, put(t, name, len)  PROVE SameGuards
  BY <1>5 DEF put, SameGuards, HoldsGuard, InTransaction
<1>6. ASSUME projection_writer(t)  PROVE SameGuards
  BY <1>6 DEF projection_writer, SameGuards, HoldsGuard, InTransaction
<1>7. ASSUME NEW w, NEW view, NEW valid, publish(t, w, view, valid)
      PROVE  SameGuards
  BY <1>7 DEF publish, SameGuards, HoldsGuard, InTransaction
<1>8. ASSUME NEW pc \in {"finishing", "failing", "dropping"},
             ModuleReturns(t, pc)
      PROVE  SameGuards
  BY <1>8, SameGoto DEF ModuleReturns
<1>9. ASSUME ModuleReturnsPoisoned(t)  PROVE SameGuards
  BY <1>9, SameGoto DEF ModuleReturnsPoisoned
<1>10. ASSUME FinishCheck(t)  PROVE SameGuards
  BY <1>10, SameGoto DEF FinishCheck
<1>11. ASSUME NEW accepted, Validate(t, accepted)  PROVE SameGuards
  BY <1>11, SameGoto DEF Validate
<1>12. ASSUME FinishPoisoned(t)  PROVE SameGuards
  BY <1>12, SameGoto DEF FinishPoisoned
<1> QED  BY <1>2, <1>3, <1>4, <1>5, <1>6, <1>7, <1>8, <1>9, <1>10, <1>11,
            <1>12 DEF Transaction

\* The other steps that touch no guard.
LEMMA SameConsuming ==
  ASSUME TypeOK, NEW t \in Threads, Consuming(t)
  PROVE  SameGuards
<1> USE DEF storeVars, planVars, threadVars, GuardedPcs, TransactionPcs
<1>1. ASSUME NEW name, open(t, name)  PROVE SameGuards
  BY <1>1 DEF open, SameGuards, HoldsGuard, InTransaction
<1>2. ASSUME DropPiece(t)  PROVE SameGuards
  BY <1>2 DEF DropPiece, SameGuards, HoldsGuard, InTransaction
<1>3. ASSUME PlanReturns(t)  PROVE SameGuards
  BY <1>3, SameGoto DEF PlanReturns
<1> QED  BY <1>1, <1>2, <1>3 DEF Consuming

\* A call that passed its first check holds no guard yet.
LEMMA SameStart ==
  ASSUME TypeOK, NEW t \in Threads,
         \/ \E o \in Owners : StartPrepare(t, o) \/ StartPlan(t, o)
         \/ AcquireDenied(t)
  PROVE  SameGuards
<1> USE DEF storeVars, planVars, GuardedPcs, TransactionPcs
<1>1. /\ call[t].pc \notin GuardedPcs
      /\ \E new : /\ new.pc \notin GuardedPcs
                  /\ call' = [call EXCEPT ![t] = new]
      /\ UNCHANGED <<disposed, next_owner, phase, ready, active_reads, inner>>
  BY DEF StartPrepare, StartPlan, AcquireDenied, IdleCall
<1> QED  BY <1>1
         DEF SameGuards, HoldsGuard, InTransaction, TypeOK, TypeThreads

\* What the steps that begin or end a transaction have in common: no guard
\* moves, and one live owner changes to another live phase.
Transit(t, to) ==
  /\ call[t].pc \in GuardedPcs
  /\ phase' = [phase EXCEPT ![call[t].o] = to]
  /\ to \in {"unready", "staging", "ready"}
  /\ ready'[call[t].o] <=> to = "ready"
  /\ \A q \in Owners : q # call[t].o => ready'[q] = ready[q]
  /\ UNCHANGED <<disposed, next_owner, active_reads, inner>>

\* Begin, publish and abort move one owner between live phases.
LEMMA LifeTransit ==
  ASSUME TypeOK, LifeInv, NEW t \in Threads, NEW to, NEW pc \in GuardedPcs,
         Transit(t, to), Goto(t, pc)
  PROVE  GuardBalance' /\ NoDisposalUnderCall' /\ OwnerShape'
<1> DEFINE o == call[t].o
<1>1. o \in Owners /\ CheckOwner(o)
  BY OwnerOfCall
  DEF Transit, LifeInv, NoDisposalUnderCall, HoldsGuard, GuardedPcs,
      TransactionPcs
<1>2. \A u \in Threads : /\ call'[u].o = call[u].o
                         /\ HoldsGuard(u)' <=> HoldsGuard(u)
  BY DEF Transit, Goto, HoldsGuard, TypeOK, TypeThreads
<1>3. GuardBalance'
  <2>1. \A q : Callers(q)' = Callers(q) /\ Readers(q)' = Readers(q)
    BY <1>2 DEF Callers, Readers, Transit
  <2> QED  BY <2>1 DEF GuardBalance, LifeInv, Transit
<1>4. NoDisposalUnderCall'
  <2>1. \A q \in Owners : CheckOwner(q) => CheckOwner(q)'
    BY DEF Transit, CheckOwner, TypeOK, TypePlan
  <2>2. \A u \in Threads : HoldsGuard(u) => call[u].o \in Owners
    BY OwnerOfCall DEF HoldsGuard, GuardedPcs, TransactionPcs
  <2>3. \A u \in Threads : inner[u].on => inner[u].o \in Owners
    BY DEF TypeOK, TypeThreads
  <2> QED  BY <1>2, <2>1, <2>2, <2>3
           DEF NoDisposalUnderCall, LifeInv, Transit
<1>5. OwnerShape'
  BY <1>1 DEF OwnerShape, LifeInv, Transit, CheckOwner, TypeOK, TypePlan
<1> QED  BY <1>3, <1>4, <1>5

\* Begin and the two ends of a transaction keep staging exclusive.
LEMMA LifeTransaction ==
  ASSUME TypeOK, LifeInv, NEW t \in Threads,
         begin(t) \/ FinishPublish(t) \/ DropTransaction(t)
  PROVE  LifeInv'
<1> DEFINE o == call[t].o
<1>1. CASE begin(t)
  <2>1. o \in Owners
    BY <1>1, OwnerOfCall DEF begin
  <2>2. Transit(t, "staging")
    BY <1>1, <2>1
    DEF begin, Transit, GuardedPcs, storeVars, LifeInv, OwnerShape,
        TypeOK, TypePlan
  <2>3. GuardBalance' /\ NoDisposalUnderCall' /\ OwnerShape'
    BY <1>1, <2>2, LifeTransit DEF begin, GuardedPcs, TransactionPcs
  <2>4. \A u \in Threads :
          /\ InTransaction(u)' <=> u = t \/ InTransaction(u)
          /\ call'[u].o = call[u].o
    BY <1>1
    DEF begin, Goto, InTransaction, TransactionPcs, TypeOK, TypeThreads
  <2>5. ~\E u \in Threads : InTransaction(u) /\ call[u].o = o
    BY <1>1, <2>1 DEF begin, LifeInv, StagingExclusive
  <2>6. StagingExclusive'
    <3>1. \A q \in Owners :
            phase'[q] = IF q = o THEN "staging" ELSE phase[q]
      BY <2>1, <2>2 DEF Transit, TypeOK, TypePlan
    <3> HIDE DEF o
    <3>2. \A u \in Threads : InTransaction(u) => call[u].o # o
      BY <2>5
    <3>3. call[t].o = o
      BY DEF o
    <3> QED  BY <2>1, <2>4, <3>1, <3>2, <3>3 DEF LifeInv, StagingExclusive
  <2> QED  BY <2>3, <2>6 DEF LifeInv
<1>2. CASE FinishPublish(t) \/ DropTransaction(t)
  <2>1. o \in Owners /\ InTransaction(t)
    BY <1>2, OwnerOfCall
    DEF FinishPublish, DropTransaction, InTransaction, TransactionPcs
  <2>2. \E to \in {"ready", "unready"} : Transit(t, to)
    <3>1. CASE FinishPublish(t)
      BY <3>1, <2>1
      DEF FinishPublish, Transit, GuardedPcs, TransactionPcs, storeVars,
          TypeOK, TypePlan
    <3>2. CASE DropTransaction(t)
      BY <3>2, <2>1
      DEF DropTransaction, Clear, Transit, GuardedPcs, TransactionPcs,
          storeVars, TypeOK, TypePlan
    <3> QED  BY <1>2, <3>1, <3>2
  <2>3. Goto(t, "leaving")
    BY <1>2 DEF FinishPublish, DropTransaction
  <2>4. GuardBalance' /\ NoDisposalUnderCall' /\ OwnerShape'
    BY <2>2, <2>3, LifeTransit DEF GuardedPcs
  <2>5. \A u \in Threads :
          /\ InTransaction(u)' <=> u # t /\ InTransaction(u)
          /\ call'[u].o = call[u].o
    BY <2>3 DEF Goto, InTransaction, TransactionPcs, TypeOK, TypeThreads
  <2>6. \A u \in Threads : InTransaction(u) /\ call[u].o = o => u = t
    BY <2>1 DEF LifeInv, StagingExclusive
  <2>7. StagingExclusive'
    <3>1. \A q \in Owners : /\ q = o => phase'[q] # "staging"
                            /\ q # o => phase'[q] = phase[q]
      BY <2>1, <2>2 DEF Transit, TypeOK, TypePlan
    <3>2. call[t].o = o
      OBVIOUS
    <3> HIDE DEF o
    <3> QED  BY <2>1, <2>5, <2>6, <3>1, <3>2 DEF LifeInv, StagingExclusive
  <2> QED  BY <2>4, <2>7 DEF LifeInv
<1> QED  BY <1>1, <1>2

\* One guard more on o, in one of the two sets that are counted.
LEMMA GuardIn ==
  ASSUME TypeOK, GuardBalance, NEW o \in Owners, NEW t,
         \A q \in Owners : active_reads'[q] =
           IF q = o THEN active_reads[q] + 1 ELSE active_reads[q],
         \/ /\ t \notin Callers(o)
            /\ \A q : Callers(q)' = IF q = o THEN Callers(q) \cup {t}
                                    ELSE Callers(q)
            /\ \A q : Readers(q)' = Readers(q)
         \/ /\ t \notin Readers(o)
            /\ \A q : Readers(q)' = IF q = o THEN Readers(q) \cup {t}
                                    ELSE Readers(q)
            /\ \A q : Callers(q)' = Callers(q)
  PROVE  GuardBalance'
<1>1. ASSUME NEW q \in Owners, q # o
      PROVE  active_reads'[q] = Cardinality(Callers(q)') + Cardinality(Readers(q)')
  <2>1. Callers(q)' = Callers(q) /\ Readers(q)' = Readers(q)
    BY <1>1
  <2> QED  BY <1>1, <2>1 DEF GuardBalance
<1>2. active_reads'[o] = Cardinality(Callers(o)') + Cardinality(Readers(o)')
  <2>1. Cardinality(Callers(o)') + Cardinality(Readers(o)')
          = Cardinality(Callers(o)) + Cardinality(Readers(o)) + 1
    <3>1. \/ /\ Cardinality(Callers(o)') = Cardinality(Callers(o)) + 1
             /\ Readers(o)' = Readers(o)
          \/ /\ Cardinality(Readers(o)') = Cardinality(Readers(o)) + 1
             /\ Callers(o)' = Callers(o)
      BY GuardsFinite, FS_AddElement
    <3>2. Cardinality(Callers(o)) \in Nat /\ Cardinality(Readers(o)) \in Nat
      BY GuardsFinite
    <3> QED  BY <3>1, <3>2
  <2>2. active_reads[o] \in Nat
    BY DEF TypeOK, TypeStore
  <2> QED  BY <2>1, <2>2 DEF GuardBalance
<1> QED  BY <1>1, <1>2 DEF GuardBalance

\* One guard less on o.
LEMMA GuardOut ==
  ASSUME TypeOK, GuardBalance, NEW o \in Owners, NEW t,
         \A q \in Owners : active_reads'[q] =
           IF q = o THEN active_reads[q] - 1 ELSE active_reads[q],
         \/ /\ t \in Callers(o)
            /\ \A q : Callers(q)' = IF q = o THEN Callers(q) \ {t}
                                    ELSE Callers(q)
            /\ \A q : Readers(q)' = Readers(q)
         \/ /\ t \in Readers(o)
            /\ \A q : Readers(q)' = IF q = o THEN Readers(q) \ {t}
                                    ELSE Readers(q)
            /\ \A q : Callers(q)' = Callers(q)
  PROVE  GuardBalance'
<1>1. ASSUME NEW q \in Owners, q # o
      PROVE  active_reads'[q] = Cardinality(Callers(q)') + Cardinality(Readers(q)')
  <2>1. Callers(q)' = Callers(q) /\ Readers(q)' = Readers(q)
    BY <1>1
  <2> QED  BY <1>1, <2>1 DEF GuardBalance
<1>2. active_reads'[o] = Cardinality(Callers(o)') + Cardinality(Readers(o)')
  <2>1. Cardinality(Callers(o)') + Cardinality(Readers(o)')
          = Cardinality(Callers(o)) + Cardinality(Readers(o)) - 1
    <3>1. \/ /\ Cardinality(Callers(o)') = Cardinality(Callers(o)) - 1
             /\ Readers(o)' = Readers(o)
          \/ /\ Cardinality(Readers(o)') = Cardinality(Readers(o)) - 1
             /\ Callers(o)' = Callers(o)
      BY GuardsFinite, FS_RemoveElement
    <3>2. Cardinality(Callers(o)) \in Nat /\ Cardinality(Readers(o)) \in Nat
      BY GuardsFinite
    <3> QED  BY <3>1, <3>2
  <2>2. active_reads'[o] = active_reads[o] - 1
    OBVIOUS
  <2>3. active_reads[o] = Cardinality(Callers(o)) + Cardinality(Readers(o))
    BY DEF GuardBalance
  <2>4. Cardinality(Callers(o)) \in Nat /\ Cardinality(Readers(o)) \in Nat
    BY GuardsFinite
  <2> QED  BY <2>1, <2>2, <2>3, <2>4
<1> QED  BY <1>1, <1>2 DEF GuardBalance

\* A new guard is counted on a live owner; a dropped guard is the counted one.
LEMMA LifeGuarding ==
  ASSUME TypeOK, LifeInv, NEW t \in Threads,
         \/ AcquireGuard(t) \/ LeaveCall(t)
         \/ InputReadEnter(t) \/ ReadEnter(t) \/ InnerLeave(t)
  PROVE  LifeInv'
<1> USE DEF TypeOK, TypeThreads, TypeStore
<1>1. /\ UNCHANGED <<disposed, next_owner, phase, ready>>
      /\ OwnerShape'
  BY DEF AcquireGuard, LeaveCall, InputReadEnter, ReadEnter, InnerLeave,
     storeVars, planVars, LifeInv, OwnerShape
<1>2. StagingExclusive'
  <2>1. \A u \in Threads :
          /\ InTransaction(u)' <=> InTransaction(u)
          /\ InTransaction(u) => call'[u].o = call[u].o
    BY DEF AcquireGuard, LeaveCall, InputReadEnter, ReadEnter, InnerLeave,
       InTransaction, TransactionPcs, Entered, IdleCall
  <2> QED  BY <1>1, <2>1 DEF LifeInv, StagingExclusive
<1>3. NoDisposalUnderCall'
  <2>1. \A q : CheckOwner(q)' <=> CheckOwner(q)
    BY <1>1 DEF CheckOwner
  <2>2. \A u \in Threads : HoldsGuard(u)' => CheckOwner(call'[u].o)
    BY DEF AcquireGuard, LeaveCall, InputReadEnter, ReadEnter, InnerLeave,
       LifeInv, NoDisposalUnderCall, HoldsGuard, GuardedPcs,
       TransactionPcs, IdleCall
  <2>3. \A u \in Threads : inner'[u].on => CheckOwner(inner'[u].o)
    BY DEF AcquireGuard, LeaveCall, InputReadEnter, ReadEnter, InnerLeave,
       LifeInv, NoDisposalUnderCall, NoInner
  <2> QED  BY <2>1, <2>2, <2>3 DEF NoDisposalUnderCall
<1>4. GuardBalance'
  <2>1. CASE AcquireGuard(t)
    <3> DEFINE o == call[t].o
    <3>1. o \in Owners
      BY <2>1, OwnerOfCall DEF AcquireGuard
    <3>2. \A q \in Owners : active_reads'[q] =
            IF q = o THEN active_reads[q] + 1 ELSE active_reads[q]
      BY <2>1, <3>1 DEF AcquireGuard
    <3>3. \A q : Callers(q)' = IF q = o THEN Callers(q) \cup {t} ELSE Callers(q)
      BY <2>1 DEF AcquireGuard, Callers, HoldsGuard, GuardedPcs,
         TransactionPcs, Entered
    <3>4. t \notin Callers(o) /\ \A q : Readers(q)' = Readers(q)
      BY <2>1 DEF AcquireGuard, Callers, Readers, HoldsGuard, GuardedPcs,
         TransactionPcs
    <3> HIDE DEF o
    <3> QED  BY <3>1, <3>2, <3>3, <3>4, GuardIn DEF LifeInv
  <2>2. CASE LeaveCall(t)
    <3> DEFINE o == call[t].o
    <3>1. o \in Owners
      BY <2>2, OwnerOfCall DEF LeaveCall
    <3>2. \A q \in Owners : active_reads'[q] =
            IF q = o THEN active_reads[q] - 1 ELSE active_reads[q]
      BY <2>2, <3>1 DEF LeaveCall
    <3>3. \A q : Callers(q)' = IF q = o THEN Callers(q) \ {t} ELSE Callers(q)
      BY <2>2 DEF LeaveCall, Callers, HoldsGuard, GuardedPcs,
         TransactionPcs, IdleCall
    <3>4. t \in Callers(o) /\ \A q : Readers(q)' = Readers(q)
      BY <2>2 DEF LeaveCall, Callers, Readers, HoldsGuard, GuardedPcs
    <3> HIDE DEF o
    <3> QED  BY <3>1, <3>2, <3>3, <3>4, GuardOut DEF LifeInv
  <2>3. CASE InputReadEnter(t) \/ ReadEnter(t)
    <3>1. PICK o \in Owners :
            /\ active_reads' = [active_reads EXCEPT ![o] = @ + 1]
            /\ inner'[t].on /\ inner'[t].o = o
            /\ \A u \in Threads : u # t => inner'[u] = inner[u]
            /\ ~inner[t].on
            /\ UNCHANGED call
      BY <2>3, OwnerOfCall DEF InputReadEnter, ReadEnter
    <3>2. \A q \in Owners : active_reads'[q] =
            IF q = o THEN active_reads[q] + 1 ELSE active_reads[q]
      BY <3>1
    <3>3. \A q : Readers(q)' = IF q = o THEN Readers(q) \cup {t} ELSE Readers(q)
      BY <3>1 DEF Readers
    <3>4. t \notin Readers(o) /\ \A q : Callers(q)' = Callers(q)
      BY <3>1 DEF Callers, Readers, HoldsGuard
    <3> QED  BY <3>1, <3>2, <3>3, <3>4, GuardIn DEF LifeInv
  <2>4. CASE InnerLeave(t)
    <3> DEFINE o == inner[t].o
    <3>1. o \in Owners
      BY <2>4 DEF InnerLeave
    <3>2. \A q \in Owners : active_reads'[q] =
            IF q = o THEN active_reads[q] - 1 ELSE active_reads[q]
      BY <2>4, <3>1 DEF InnerLeave
    <3>3. \A q : Readers(q)' = IF q = o THEN Readers(q) \ {t} ELSE Readers(q)
      BY <2>4 DEF InnerLeave, Readers, NoInner
    <3>4. t \in Readers(o) /\ \A q : Callers(q)' = Callers(q)
      BY <2>4 DEF InnerLeave, Callers, Readers, HoldsGuard
    <3> HIDE DEF o
    <3> QED  BY <3>1, <3>2, <3>3, <3>4, GuardOut DEF LifeInv
  <2> QED  BY <2>1, <2>2, <2>3, <2>4
<1> QED  BY <1>1, <1>2, <1>3, <1>4 DEF LifeInv

\* Creating and disposing owners; disposal finds no guard to betray.
LEMMA LifeOwners ==
  ASSUME TypeOK, LifeInv,
         create_owner \/ dispose \/ \E o \in Owners : dispose_owner(o)
  PROVE  LifeInv'
<1> USE DEF TypeOK
<1>1. UNCHANGED <<active_reads, call, inner>>
  BY DEF create_owner, dispose, dispose_owner, threadVars
<1>2. GuardBalance'
  <2>1. \A o : Callers(o)' = Callers(o) /\ Readers(o)' = Readers(o)
    BY <1>1 DEF Callers, Readers, HoldsGuard
  <2> QED  BY <1>1, <2>1 DEF LifeInv, GuardBalance
<1>3. \A t \in Threads : InTransaction(t)' <=> InTransaction(t)
  BY <1>1 DEF InTransaction
<1>4. CASE create_owner
  <2>1. next_owner \in Owners /\ phase[next_owner] = "absent"
    BY <1>4, StoreAssumption
    DEF create_owner, TypeStore, Owners, LifeInv, OwnerShape
  <2>2. \A q \in Owners : phase'[q] =
          IF q = next_owner THEN "unready" ELSE phase[q]
    BY <1>4, <2>1 DEF create_owner, TypePlan
  <2>3. StagingExclusive'
    BY <1>1, <1>3, <2>1, <2>2 DEF LifeInv, StagingExclusive
  <2>4. \A q \in Owners : CheckOwner(q) => CheckOwner(q)'
    BY <1>4, <2>2 DEF create_owner, CheckOwner
  <2>5. NoDisposalUnderCall'
    BY <1>1, <2>4
    DEF LifeInv, NoDisposalUnderCall, HoldsGuard, GuardedPcs,
        TransactionPcs, TypeThreads
  <2>6. OwnerShape'
    BY <1>4, <2>1, <2>2
    DEF create_owner, LifeInv, OwnerShape, Owners, TypeStore
  <2> QED  BY <1>2, <2>3, <2>5, <2>6 DEF LifeInv
<1>5. ASSUME NEW S \in SUBSET Owners,
             \A o \in S : ~Busy(o) /\ phase[o] # "absent",
             Clear(S, "disposed"), next_owner' = next_owner,
             disposed' => disposed \/ S = {o \in Owners : phase[o] # "absent"}
      PROVE  LifeInv'
  <2>1. \A q \in Owners :
          /\ phase'[q] = IF q \in S THEN "disposed" ELSE phase[q]
          /\ ready'[q] <=> q \notin S /\ ready[q]
    BY <1>5 DEF Clear
  <2>2. StagingExclusive'
    BY <1>1, <1>3, <1>5, <2>1 DEF LifeInv, StagingExclusive, Busy
  <2>3. \A q \in S : Callers(q) = {} /\ Readers(q) = {}
    BY <1>5, GuardCounted DEF LifeInv, Busy
  <2>4. ASSUME NEW q \in Owners, Callers(q) # {} \/ Readers(q) # {},
               CheckOwner(q)
        PROVE  CheckOwner(q)'
    BY <1>5, <2>1, <2>3, <2>4 DEF CheckOwner
  <2>5. NoDisposalUnderCall'
    BY <1>1, <2>4
    DEF LifeInv, NoDisposalUnderCall, HoldsGuard, GuardedPcs,
        TransactionPcs, TypeThreads, Callers, Readers
  <2>6. OwnerShape'
    BY <1>5, <2>1 DEF LifeInv, OwnerShape
  <2> QED  BY <1>2, <2>2, <2>5, <2>6 DEF LifeInv
<1>6. CASE dispose
  BY <1>5, <1>6 DEF dispose
<1>7. ASSUME NEW o \in Owners, dispose_owner(o)  PROVE LifeInv'
  BY <1>5, <1>7 DEF dispose_owner, CheckOwner, storeVars
<1> QED  BY <1>4, <1>6, <1>7

\* Every step keeps the life-cycle half of the invariant.
LEMMA LifeStep ==
  ASSUME TypeOK, LifeInv, [Next]_vars
  PROVE  LifeInv'
<1>1. CASE create_owner \/ dispose \/ \E o \in Owners : dispose_owner(o)
  BY <1>1, LifeOwners
<1>2. ASSUME NEW t \in Threads, Transaction(t)  PROVE LifeInv'
  BY <1>2, SameTransaction, LifeSame, LifeTransaction
<1>3. ASSUME NEW t \in Threads, Guarding(t)  PROVE LifeInv'
  BY <1>3, SameStart, LifeSame, LifeGuarding DEF Guarding
<1>4. ASSUME NEW t \in Threads, Consuming(t)  PROVE LifeInv'
  BY <1>4, SameConsuming, LifeSame
<1>5. ASSUME NEW w \in writers, DropWriter(w)  PROVE LifeInv'
  <2>1. SameGuards
    BY <1>5 DEF DropWriter, SameGuards, HoldsGuard, InTransaction,
       storeVars, planVars, threadVars
  <2> QED  BY <2>1, LifeSame
<1>6. CASE UNCHANGED vars
  <2>1. SameGuards
    BY <1>6 DEF vars, SameGuards, HoldsGuard, InTransaction,
       storeVars, planVars, threadVars
  <2> QED  BY <2>1, LifeSame
<1> QED  BY <1>1, <1>2, <1>3, <1>4, <1>5, <1>6 DEF Next

-----------------------------------------------------------------------------
(* Theorems *)

\* The two halves are inductive together, not one by one.
LEMMA StoreInductive ==
  /\ Init => StoreInv
  /\ StoreInv /\ [Next]_vars => StoreInv'
BY TypeInit, LifeInit, TypeStep, LifeStep DEF StoreInv, LifeInv

\* The inductive invariant holds in every reachable state.
LEMMA StoreInvariant == Spec => []StoreInv
BY StoreInductive, PTL DEF Spec

\* Every variable of the store keeps its type; active_reads stays a natural
\* number, so no ReadGuard drop underflows it.
THEOREM StoreTypeCorrect == Spec => []TypeOK
<1>1. StoreInv => TypeOK
  BY DEF StoreInv
<1> QED  BY <1>1, StoreInvariant, PTL

\* active_reads counts exactly the live guards.
THEOREM StoreGuardBalance == Spec => []GuardBalance
<1>1. StoreInv => GuardBalance
  BY DEF StoreInv, LifeInv
<1> QED  BY <1>1, StoreInvariant, PTL

\* At most one thread stages an owner, and only while its transaction lives.
THEOREM StoreStagingExclusive == Spec => []StagingExclusive
<1>1. StoreInv => StagingExclusive
  BY DEF StoreInv, LifeInv
<1> QED  BY <1>1, StoreInvariant, PTL

\* dispose and dispose_owner never take an owner away under a guard.
THEOREM StoreNoDisposalUnderCall == Spec => []NoDisposalUnderCall
<1>1. StoreInv => NoDisposalUnderCall
  BY DEF StoreInv, LifeInv
<1> QED  BY <1>1, StoreInvariant, PTL

-----------------------------------------------------------------------------
(* Refinement *)

\* A step of the store, seen through phase, active_reads and disposed.
AuthorityStep == [Authority!ANext]_<<phase, active_reads, disposed>>

\* The transaction's begin and its two ends are the abstract ones.
LEMMA RefineTransaction ==
  ASSUME StoreInv, NEW t \in Threads, Transaction(t)
  PROVE  AuthorityStep
<1> DEFINE o == call[t].o
<1> USE DEF StoreInv, AuthorityStep
<1>1. CASE SameGuards
  BY <1>1 DEF SameGuards
<1>2. CASE begin(t)
  <2>1. o \in Owners
    BY <1>2, OwnerOfCall DEF begin
  <2>2. Authority!ABegin(o)
    BY <1>2 DEF begin, storeVars, Authority!ABegin, Authority!Move
  <2> QED  BY <2>1, <2>2 DEF Authority!ANext
<1>3. ASSUME FinishPublish(t) \/ DropTransaction(t)
      PROVE  o \in Owners /\ phase[o] = "staging"
  <2>1. o \in Owners
    BY <1>3, OwnerOfCall DEF FinishPublish, DropTransaction
  <2>2. InTransaction(t)
    BY <1>3
    DEF FinishPublish, DropTransaction, InTransaction, TransactionPcs
  <2> QED  BY <2>1, <2>2 DEF LifeInv, StagingExclusive
<1>4. CASE FinishPublish(t)
  <2>1. Authority!APublish(o)
    BY <1>3, <1>4
    DEF FinishPublish, storeVars, Authority!APublish, Authority!Move
  <2> QED  BY <1>3, <1>4, <2>1 DEF Authority!ANext
<1>5. CASE DropTransaction(t)
  <2>1. phase' = [phase EXCEPT ![o] = "unready"]
    BY <1>5 DEF DropTransaction, Clear, TypeOK, TypePlan
  <2>2. Authority!AAbort(o)
    BY <1>3, <1>5, <2>1
    DEF DropTransaction, storeVars, Authority!AAbort, Authority!Move
  <2> QED  BY <1>3, <1>5, <2>2 DEF Authority!ANext
<1> QED  BY <1>1, <1>2, <1>4, <1>5, SameTransaction

\* Taking and dropping guards enters and leaves the abstract authority.
LEMMA RefineGuarding ==
  ASSUME StoreInv, NEW t \in Threads, Guarding(t)
  PROVE  AuthorityStep
<1> USE DEF StoreInv, AuthorityStep
<1>1. CASE SameGuards
  BY <1>1 DEF SameGuards
<1>2. CASE AcquireGuard(t) \/ InputReadEnter(t) \/ ReadEnter(t)
  <2>1. PICK o \in Owners :
          /\ CheckOwner(o)
          /\ active_reads' = [active_reads EXCEPT ![o] = @ + 1]
          /\ UNCHANGED <<phase, disposed>>
    BY <1>2, OwnerOfCall
    DEF AcquireGuard, InputReadEnter, ReadEnter, storeVars, planVars,
        TypeOK, TypeThreads
  <2>2. Authority!Live(o)
    BY <2>1 DEF CheckOwner, Authority!Live, TypeOK, TypePlan
  <2> QED  BY <2>1, <2>2 DEF Authority!AEnter, Authority!ANext
<1>3. CASE LeaveCall(t) \/ InnerLeave(t)
  <2>1. PICK o \in Owners :
          /\ t \in Callers(o) \cup Readers(o)
          /\ active_reads' = [active_reads EXCEPT ![o] = @ - 1]
          /\ UNCHANGED <<phase, disposed>>
    BY <1>3, OwnerOfCall
    DEF LeaveCall, InnerLeave, storeVars, planVars, TypeOK, TypeThreads,
        Callers, Readers, HoldsGuard, GuardedPcs
  <2>2. active_reads[o] > 0
    BY <2>1, GuardCounted DEF LifeInv
  <2> QED  BY <2>1, <2>2 DEF Authority!ALeave, Authority!ANext
<1> QED  BY <1>1, <1>2, <1>3, SameStart DEF Guarding

\* Creation and disposal of owners and of the store.
LEMMA RefineOwners ==
  ASSUME StoreInv,
         create_owner \/ dispose \/ \E o \in Owners : dispose_owner(o)
  PROVE  AuthorityStep
<1> USE DEF StoreInv, AuthorityStep
<1>1. CASE create_owner
  <2>1. next_owner \in Owners /\ phase[next_owner] = "absent"
    BY <1>1, StoreAssumption
    DEF create_owner, TypeOK, TypeStore, Owners, LifeInv, OwnerShape
  <2>2. Authority!ACreate(next_owner)
    BY <1>1, <2>1 DEF create_owner, Authority!ACreate, Authority!Move
  <2> QED  BY <2>1, <2>2 DEF Authority!ANext
<1>2. ASSUME NEW o \in Owners, dispose_owner(o)  PROVE AuthorityStep
  <2>1. phase' = [phase EXCEPT ![o] = "disposed"]
    BY <1>2 DEF dispose_owner, Clear, TypeOK, TypePlan
  <2>2. Authority!ADisposeOwner(o)
    BY <1>2, <2>1
    DEF dispose_owner, CheckOwner, Busy, storeVars, TypeOK, TypePlan,
        Authority!ADisposeOwner, Authority!Live, Authority!Idle
  <2> QED  BY <2>2 DEF Authority!ANext
<1>3. CASE dispose
  <2>1. phase' = [o \in Owners |->
                    IF phase[o] = "absent" THEN "absent" ELSE "disposed"]
    BY <1>3 DEF dispose, Clear, TypeOK, TypePlan
  <2>2. Authority!ADispose
    BY <1>3, <2>1 DEF dispose, Busy, Authority!ADispose, Authority!Idle
  <2> QED  BY <2>2 DEF Authority!ANext
<1> QED  BY <1>1, <1>2, <1>3

\* Every step of the store is a step of the authority or a stutter.
LEMMA RefineStep ==
  ASSUME StoreInv, [Next]_vars
  PROVE  AuthorityStep
<1>1. CASE create_owner \/ dispose \/ \E o \in Owners : dispose_owner(o)
  BY <1>1, RefineOwners
<1>2. ASSUME NEW t \in Threads, Transaction(t) \/ Guarding(t)
      PROVE  AuthorityStep
  BY <1>2, RefineTransaction, RefineGuarding
<1>3. ASSUME NEW t \in Threads, Consuming(t)  PROVE AuthorityStep
  BY <1>3, SameConsuming DEF StoreInv, SameGuards, AuthorityStep
<1>4. ASSUME NEW w \in writers, DropWriter(w)  PROVE AuthorityStep
  BY <1>4 DEF DropWriter, storeVars, planVars, AuthorityStep
<1>5. CASE UNCHANGED vars
  BY <1>5 DEF vars, storeVars, planVars, AuthorityStep
<1> QED  BY <1>1, <1>2, <1>3, <1>4, <1>5 DEF Next

\* The store, with its transactions, poison, writers and nested guards,
\* implements the abstract authority: what callers may rely on is the life
\* cycle of an owner and the count of the guards on it.
THEOREM StoreImplementsAuthority == Spec => ImplementsAuthority
<1>1. Init => Authority!AInit
  BY DEF Init, Authority!AInit
<1>2. StoreInv /\ [Next]_vars => AuthorityStep
  BY RefineStep
<1>3. AuthorityStep <=> [Authority!ANext]_(Authority!authorityVars)
  BY DEF AuthorityStep, Authority!authorityVars
<1> QED  BY <1>1, <1>2, <1>3, StoreInvariant, PTL
         DEF Spec, ImplementsAuthority, Authority!ASpec

-----------------------------------------------------------------------------
(* Immutability *)

\* What PublishedImmutable says of one owner and one step.
PlanKept(o) ==
  ready[o] =>
    \/ ready'[o] /\ UNCHANGED <<pieces[o], plan[o], projection[o]>>
    \/ phase'[o] = "disposed" /\ active_reads[o] = 0

\* A transaction's steps write only to the owner it has in the staging phase.
LEMMA KeptTransaction ==
  ASSUME StoreInv, NEW t \in Threads, Transaction(t), NEW o \in Owners
  PROVE  PlanKept(o)
<1> SUFFICES ASSUME ready[o]
             PROVE  ready'[o] /\ UNCHANGED <<pieces[o], plan[o], projection[o]>>
  BY DEF PlanKept
<1> USE DEF StoreInv, TypeOK, TypePlan
<1>1. phase[o] = "ready"
  BY DEF LifeInv, OwnerShape
<1>2. InTransaction(t) => call[t].o # o
  BY <1>1 DEF LifeInv, StagingExclusive
<1>3. CASE begin(t)
  BY <1>3 DEF begin
<1>4. CASE BeginRefused(t) \/ SetupFails(t) \/ projection_writer(t)
  BY <1>4 DEF BeginRefused, SetupFails, projection_writer, planVars
<1>5. ASSUME NEW requested, request_projections(t, requested)
      PROVE  ready'[o] /\ UNCHANGED <<pieces[o], plan[o], projection[o]>>
  BY <1>2, <1>5 DEF request_projections, InTransaction, TransactionPcs
<1>6. ASSUME NEW name, NEW len, put(t, name, len)
      PROVE  ready'[o] /\ UNCHANGED <<pieces[o], plan[o], projection[o]>>
  BY <1>2, <1>6 DEF put, InTransaction, TransactionPcs
<1>7. ASSUME NEW w, NEW view, NEW valid, publish(t, w, view, valid)
      PROVE  ready'[o] /\ UNCHANGED <<pieces[o], plan[o], projection[o]>>
  BY <1>1, <1>7 DEF publish, Authorised
<1>8. CASE \/ \E pc \in {"finishing", "failing", "dropping"} :
                ModuleReturns(t, pc)
           \/ \E accepted \in BOOLEAN : Validate(t, accepted)
  BY <1>8 DEF ModuleReturns, Validate, planVars
<1>9. CASE ModuleReturnsPoisoned(t) \/ FinishCheck(t) \/ FinishPoisoned(t)
  BY <1>9 DEF ModuleReturnsPoisoned, FinishCheck, FinishPoisoned
<1>10. CASE FinishPublish(t)
  BY <1>2, <1>10 DEF FinishPublish, InTransaction, TransactionPcs
<1>11. CASE DropTransaction(t)
  BY <1>2, <1>11 DEF DropTransaction, Clear, InTransaction, TransactionPcs
<1> QED  BY <1>3, <1>4, <1>5, <1>6, <1>7, <1>8, <1>9, <1>10, <1>11
         DEF Transaction

\* No step changes the plan of an owner that stays Ready.
LEMMA KeptStep ==
  ASSUME StoreInv, [Next]_vars, NEW o \in Owners
  PROVE  PlanKept(o)
<1> USE DEF PlanKept
<1>1. CASE create_owner
  BY <1>1 DEF create_owner
<1>2. ASSUME NEW t \in Threads, Transaction(t)  PROVE PlanKept(o)
  BY <1>2, KeptTransaction
<1>3. ASSUME NEW t \in Threads, Guarding(t) \/ Consuming(t)
      PROVE  UNCHANGED planVars
  BY <1>3 DEF Guarding, StartPrepare, StartPlan, AcquireGuard,
     AcquireDenied, LeaveCall, InputReadEnter, ReadEnter, InnerLeave,
     Consuming, open, DropPiece, PlanReturns
<1>4. ASSUME NEW w \in writers, DropWriter(w)  PROVE UNCHANGED planVars
  BY <1>4 DEF DropWriter
<1>5. ASSUME NEW q \in Owners, dispose_owner(q)  PROVE PlanKept(o)
  BY <1>5 DEF dispose_owner, Clear, Busy
<1>6. CASE dispose
  <2>1. ready[o] => phase[o] # "absent"
    BY DEF StoreInv, LifeInv, OwnerShape
  <2> QED  BY <1>6, <2>1 DEF dispose, Clear, Busy
<1>7. CASE UNCHANGED vars
  BY <1>7 DEF vars, planVars
<1>8. CASE UNCHANGED planVars
  BY <1>8 DEF planVars
<1> QED  BY <1>1, <1>2, <1>3, <1>4, <1>5, <1>6, <1>7, <1>8 DEF Next

\* A published plan never changes while it is ready, whichever transactions,
\* retained writers and disposals interleave; it goes away only by disposal
\* with no guard on it.
THEOREM StorePublishedImmutable == Spec => PublishedImmutable
<1>1. StoreInv /\ [Next]_vars => \A o \in Owners : PlanKept(o)
  BY KeptStep
<1>2. Spec => [][\A o \in Owners : PlanKept(o)]_vars
  BY <1>1, StoreInvariant, PTL DEF Spec
<1> QED  BY <1>2 DEF PublishedImmutable, PlanKept

-----------------------------------------------------------------------------
(* Whole publications *)

\* One owner: only requested views have scenes, only a staging owner has an
\* identity that may write, and a ready owner shows a whole publication.
WholeOwner(o) ==
  /\ projection[o].scenes \subseteq projection[o].views
  /\ phase[o] # "staging" => call_identity[o] = NoIdentity
  /\ ready[o] =>
       /\ phase[o] = "ready"
       /\ plan[o] = pieces[o]
       /\ acct[o].staged = 0 /\ diag[o].staged = 0
       /\ projection[o].views = projection[o].scenes
       /\ ~Poisoned(o)
       /\ call_identity[o] = NoIdentity

\* What finish found before the validator still holds after it, or the poison
\* will stop the publication: every requested view has its scene.
Judged(t) ==
  call[t].pc \in {"validating", "publishing"} =>
    \/ Poisoned(call[t].o)
    \/ projection[call[t].o].views \subseteq projection[call[t].o].scenes

WholeInv ==
  /\ \A o \in Owners : WholeOwner(o)
  /\ \A t \in Threads : Judged(t)

\* The plan of one owner is left alone.
SamePlan(o) ==
  UNCHANGED <<phase[o], ready[o], pieces[o], plan[o], acct[o], diag[o],
              writer_fault[o], projection_failure[o], projection[o],
              call_identity[o]>>

\* A step that writes to one owner at most, which no other thread's
\* transaction is judging.
LEMMA WholeFrame ==
  ASSUME StoreInv, WholeInv, NEW t \in Threads, NEW o \in Owners,
         \A q \in Owners : q # o => SamePlan(q),
         \A u \in Threads : u # t => call'[u] = call[u],
         phase[o] # "staging" \/ (InTransaction(t) /\ call[t].o = o),
         WholeOwner(o)', Judged(t)'
  PROVE  WholeInv'
<1>1. ASSUME NEW q \in Owners  PROVE WholeOwner(q)'
  <2>1. CASE q = o
    BY <2>1
  <2>2. CASE q # o
    BY <2>2 DEF SamePlan, WholeInv, WholeOwner, Poisoned
  <2> QED  BY <2>1, <2>2
<1>2. ASSUME NEW u \in Threads  PROVE Judged(u)'
  <2>1. CASE u = t
    BY <2>1
  <2>2. CASE u # t
    <3> SUFFICES ASSUME call[u].pc \in {"validating", "publishing"},
                        call'[u] = call[u]
                 PROVE  Judged(u)'
      BY <2>2 DEF Judged
    <3>1. PICK q \in Owners : q = call[u].o
      BY OwnerOfCall DEF StoreInv
    <3>2. InTransaction(u)
      BY DEF InTransaction, TransactionPcs
    <3>3. phase[q] = "staging"
      BY <3>1, <3>2 DEF StoreInv, LifeInv, StagingExclusive
    <3>4. q # o
      BY <2>2, <3>1, <3>2, <3>3 DEF StoreInv, LifeInv, StagingExclusive
    <3>5. SamePlan(q)
      BY <3>4
    <3>6. Judged(u)
      BY DEF WholeInv
    <3> QED  BY <3>1, <3>5, <3>6 DEF Judged, SamePlan, Poisoned
  <2> QED  BY <2>1, <2>2
<1> QED  BY <1>1, <1>2 DEF WholeInv

\* A step that writes to no plan and lets no call reach the validator.
LEMMA WholeSame ==
  ASSUME StoreInv, WholeInv, UNCHANGED planVars,
         \A t \in Threads :
           call'[t].pc \in {"validating", "publishing"} =>
             /\ call[t].pc \in {"validating", "publishing"}
             /\ call'[t].o = call[t].o
  PROVE  WholeInv'
<1>1. \A o \in Owners : WholeOwner(o)'
  BY DEF WholeInv, WholeOwner, Poisoned, planVars
<1>2. ASSUME NEW t \in Threads  PROVE Judged(t)'
  <2>1. Judged(t)
    BY DEF WholeInv
  <2> QED  BY <2>1 DEF Judged, Poisoned, planVars
<1> QED  BY <1>1, <1>2 DEF WholeInv

\* Goto changes the program counter of its thread only.
LEMMA GotoOnly ==
  ASSUME TypeOK, NEW t \in Threads, NEW pc, Goto(t, pc)
  PROVE  /\ call'[t].pc = pc /\ call'[t].o = call[t].o
         /\ call'[t].id = call[t].id /\ call'[t].prev = call[t].prev
         /\ \A u \in Threads : u # t => call'[u] = call[u]
BY DEF Goto, TypeOK, TypeThreads

\* The plan variables are functions on the owners.
LEMMA PlanDomains ==
  ASSUME TypeOK
  PROVE  /\ DOMAIN phase = Owners /\ DOMAIN ready = Owners
         /\ DOMAIN pieces = Owners /\ DOMAIN plan = Owners
         /\ DOMAIN acct = Owners /\ DOMAIN diag = Owners
         /\ DOMAIN writer_fault = Owners
         /\ DOMAIN projection_failure = Owners
         /\ DOMAIN projection = Owners /\ DOMAIN call_identity = Owners
BY DEF TypeOK, TypePlan

\* A transaction on an owner that is neither ready nor free.
LEMMA StagedOwner ==
  ASSUME StoreInv, NEW t \in Threads, InTransaction(t)
  PROVE  /\ call[t].o \in Owners
         /\ phase[call[t].o] = "staging" /\ ~ready[call[t].o]
<1>1. call[t].o \in Owners
  BY OwnerOfCall DEF StoreInv, InTransaction, TransactionPcs
<1> QED  BY <1>1 DEF StoreInv, LifeInv, StagingExclusive, OwnerShape

\* begin opens an unready owner to the invocation it runs in.
LEMMA WholeBegin ==
  ASSUME StoreInv, WholeInv, NEW t \in Threads, begin(t)
  PROVE  WholeInv'
<1>1. PICK o \in Owners : o = call[t].o
  BY OwnerOfCall DEF StoreInv, begin
<1>2. /\ phase[o] = "unready" /\ phase'[o] = "staging" /\ ~ready[o]
      /\ ready' = ready /\ projection' = projection
      /\ \A q \in Owners : q # o => SamePlan(q)
  BY <1>1, PlanDomains DEF begin, SamePlan, StoreInv, LifeInv, OwnerShape
<1>3. call'[t].pc = "begun" /\ \A u \in Threads : u # t => call'[u] = call[u]
  BY GotoOnly DEF begin, StoreInv
<1>4. WholeOwner(o)'
  BY <1>2 DEF WholeInv, WholeOwner
<1>5. Judged(t)'
  BY <1>3 DEF Judged
<1>6. phase[o] # "staging" \/ (InTransaction(t) /\ call[t].o = o)
  BY <1>2
<1> QED  BY <1>2, <1>3, <1>4, <1>5, <1>6, WholeFrame

\* request_projections starts the scenes afresh, before anything is judged.
LEMMA WholeRequest ==
  ASSUME StoreInv, WholeInv, NEW t \in Threads, NEW requested,
         request_projections(t, requested)
  PROVE  WholeInv'
<1>0. InTransaction(t)
  BY DEF request_projections, InTransaction, TransactionPcs
<1>1. PICK o \in Owners : o = call[t].o /\ phase[o] = "staging" /\ ~ready[o]
  BY <1>0, StagedOwner
<1>2. /\ phase' = phase /\ ready' = ready /\ call_identity' = call_identity
      /\ projection'[o] \in {projection[o], [views |-> requested, scenes |-> {}]}
      /\ \A q \in Owners : q # o => SamePlan(q)
  BY <1>1, PlanDomains DEF request_projections, SamePlan, StoreInv
<1>3. /\ call'[t].pc \in {"dropping", "invoking"}
      /\ \A u \in Threads : u # t => call'[u] = call[u]
  BY GotoOnly DEF request_projections, StoreInv
<1>4. WholeOwner(o)'
  BY <1>1, <1>2 DEF WholeInv, WholeOwner
<1>5. Judged(t)'
  BY <1>3 DEF Judged
<1> QED  BY <1>0, <1>1, <1>2, <1>3, <1>4, <1>5, WholeFrame

\* put and the SDK's fault write pieces, bytes and poison of a staged owner.
LEMMA WholePut ==
  ASSUME StoreInv, WholeInv, NEW t \in Threads,
         \/ \E name, len : put(t, name, len)
         \/ ModuleReturnsPoisoned(t)
  PROVE  WholeInv'
<1>0. InTransaction(t)
  BY DEF put, ModuleReturnsPoisoned, InTransaction, TransactionPcs
<1>1. PICK o \in Owners : o = call[t].o /\ phase[o] = "staging" /\ ~ready[o]
  BY <1>0, StagedOwner
<1>2. /\ phase' = phase /\ ready' = ready /\ call_identity' = call_identity
      /\ projection' = projection
      /\ \A q \in Owners : q # o => SamePlan(q)
  <2>1. CASE ModuleReturnsPoisoned(t)
    BY <1>1, <2>1, PlanDomains DEF ModuleReturnsPoisoned, SamePlan, StoreInv
  <2>2. ASSUME NEW name, NEW len, put(t, name, len)
        PROVE  /\ phase' = phase /\ ready' = ready
               /\ call_identity' = call_identity /\ projection' = projection
               /\ \A q \in Owners : q # o => SamePlan(q)
    <3>1. CASE PutFault(o, name, len) = NoFault
      BY <1>1, <2>2, <3>1, PlanDomains DEF put, SamePlan, StoreInv
    <3>2. CASE PutFault(o, name, len) # NoFault
      BY <1>1, <2>2, <3>2, PlanDomains DEF put, SamePlan, StoreInv
    <3> QED  BY <3>1, <3>2
  <2> QED  BY <2>1, <2>2
<1>3. /\ call'[t].pc \in {"failing", "invoking"}
      /\ \A u \in Threads : u # t => call'[u] = call[u]
  BY GotoOnly DEF put, ModuleReturnsPoisoned, StoreInv, threadVars
<1>4. WholeOwner(o)'
  BY <1>1, <1>2 DEF WholeInv, WholeOwner
<1>5. Judged(t)'
  BY <1>3 DEF Judged
<1> QED  BY <1>0, <1>1, <1>2, <1>3, <1>4, <1>5, WholeFrame

\* publish adds a requested scene or poisons; it unsettles no verdict, whether
\* the transaction judged is its own or not.
LEMMA WholePublish ==
  ASSUME StoreInv, WholeInv, NEW t, NEW w \in writers, NEW view, NEW valid,
         publish(t, w, view, valid)
  PROVE  WholeInv'
<1>1. PICK o \in Owners : o = w.o
  BY DEF StoreInv, TypeOK, TypeStore
<1>2. phase[o] = "staging" /\ ~ready[o]
  BY <1>1 DEF publish, Authorised, StoreInv, LifeInv, OwnerShape
<1>3. /\ phase' = phase /\ ready' = ready /\ call_identity' = call_identity
      /\ call' = call /\ writer_fault' = writer_fault
      /\ \A q \in Owners : q # o => SamePlan(q)
      /\ projection'[o].views = projection[o].views
      /\ projection[o].scenes \subseteq projection'[o].scenes
      /\ projection'[o].scenes \subseteq projection[o].scenes \cup
                                           projection[o].views
      /\ projection_failure[o] # NoFault => projection_failure'[o] # NoFault
  <2>1. projection[o] \in [views : SUBSET (Views \cup {Undeclared}),
                           scenes : SUBSET (Views \cup {Undeclared})]
    BY DEF StoreInv, TypeOK, TypePlan
  <2>2. CASE PublishFault(o, view, valid) = NoFault
    <3>1. view \in projection[o].views
      BY <2>2 DEF PublishFault, NoFault
    <3> QED  BY <1>1, <2>1, <2>2, <3>1, PlanDomains
             DEF publish, SamePlan, StoreInv, threadVars
  <2>3. CASE PublishFault(o, view, valid) # NoFault
    BY <1>1, <2>1, <2>3, PlanDomains DEF publish, SamePlan, StoreInv, threadVars
  <2> QED  BY <2>2, <2>3
<1>4. ASSUME NEW q \in Owners  PROVE WholeOwner(q)'
  <2>1. CASE q = o
    BY <1>2, <1>3, <2>1 DEF WholeInv, WholeOwner
  <2>2. CASE q # o
    BY <1>3, <2>2 DEF SamePlan, WholeInv, WholeOwner, Poisoned
  <2> QED  BY <2>1, <2>2
<1>5. ASSUME NEW u \in Threads  PROVE Judged(u)'
  <2> SUFFICES ASSUME call[u].pc \in {"validating", "publishing"}
               PROVE  Judged(u)'
    BY <1>3 DEF Judged
  <2>1. PICK q \in Owners : q = call[u].o
    BY OwnerOfCall DEF StoreInv
  <2>2. Poisoned(q) \/ projection[q].views \subseteq projection[q].scenes
    BY <2>1 DEF WholeInv, Judged
  <2>3. Poisoned(q)' \/ projection'[q].views \subseteq projection'[q].scenes
    <3>1. CASE q = o
      BY <1>3, <2>2, <3>1 DEF Poisoned
    <3>2. CASE q # o
      BY <1>3, <2>2, <3>2 DEF Poisoned, SamePlan
    <3> QED  BY <3>1, <3>2
  <2> QED  BY <1>3, <2>1, <2>3 DEF Judged
<1> QED  BY <1>4, <1>5 DEF WholeInv

\* The verdict of finish that lets the validator run: no view is missing.
LEMMA WholeFinishCheck ==
  ASSUME StoreInv, WholeInv, NEW t \in Threads, FinishCheck(t)
  PROVE  WholeInv'
<1>0. InTransaction(t)
  BY DEF FinishCheck, InTransaction, TransactionPcs
<1>1. PICK o \in Owners : o = call[t].o /\ phase[o] = "staging" /\ ~ready[o]
  BY <1>0, StagedOwner
<1>2. /\ phase' = phase /\ ready' = ready /\ call_identity' = call_identity
      /\ projection' = projection
      /\ \A q \in Owners : q # o => SamePlan(q)
  BY <1>1, PlanDomains DEF FinishCheck, SamePlan, StoreInv
<1>3. \A u \in Threads : u # t => call'[u] = call[u]
  BY GotoOnly DEF FinishCheck, StoreInv
<1>4. /\ call'[t].o = o
      /\ \/ call'[t].pc = "dropping"
         \/ call'[t].pc = "validating" /\ FinishFault(o) = NoFault
  BY <1>1, GotoOnly DEF FinishCheck, StoreInv
<1>5. FinishFault(o) = NoFault => projection[o].views \subseteq projection[o].scenes
  BY DEF FinishFault, NoFault
<1>6. WholeOwner(o)'
  BY <1>1, <1>2 DEF WholeInv, WholeOwner
<1>7. Judged(t)'
  BY <1>2, <1>4, <1>5 DEF Judged
<1> QED  BY <1>0, <1>1, <1>2, <1>3, <1>6, <1>7, WholeFrame

\* Publishing needs the verdict and the second look at the poison.
LEMMA WholeFinishPublish ==
  ASSUME StoreInv, WholeInv, NEW t \in Threads, FinishPublish(t)
  PROVE  WholeInv'
<1>0. InTransaction(t)
  BY DEF FinishPublish, InTransaction, TransactionPcs
<1>1. PICK o \in Owners : o = call[t].o /\ phase[o] = "staging" /\ ~ready[o]
  BY <1>0, StagedOwner
<1>2. /\ phase'[o] = "ready" /\ call_identity'[o] = NoIdentity
      /\ plan'[o] = pieces[o] /\ pieces' = pieces
      /\ acct'[o].staged = 0 /\ diag'[o].staged = 0
      /\ projection' = projection /\ writer_fault' = writer_fault
      /\ projection_failure' = projection_failure
      /\ ~Poisoned(o)
  BY <1>1, PlanDomains DEF FinishPublish, StoreInv
<1>3. \A q \in Owners : q # o => SamePlan(q)
  BY <1>1, PlanDomains DEF FinishPublish, SamePlan, StoreInv
<1>4. call'[t].pc = "leaving" /\ \A u \in Threads : u # t => call'[u] = call[u]
  BY GotoOnly DEF FinishPublish, StoreInv
<1>5. projection[o].views = projection[o].scenes
  <2>1. call[t].pc = "publishing" /\ Judged(t) /\ WholeOwner(o)
    BY DEF FinishPublish, WholeInv
  <2> QED  BY <1>1, <1>2, <2>1 DEF Judged, WholeOwner
<1>6. WholeOwner(o)'
  BY <1>2, <1>5 DEF WholeOwner, Poisoned
<1>7. Judged(t)'
  BY <1>4 DEF Judged
<1> QED  BY <1>0, <1>1, <1>3, <1>4, <1>6, <1>7, WholeFrame

\* A poison found after the validator sends the transaction to its drop.
LEMMA WholeFinishPoisoned ==
  ASSUME StoreInv, WholeInv, NEW t \in Threads, FinishPoisoned(t)
  PROVE  WholeInv'
<1>0. InTransaction(t)
  BY DEF FinishPoisoned, InTransaction, TransactionPcs
<1>1. PICK o \in Owners : o = call[t].o /\ phase[o] = "staging" /\ ~ready[o]
  BY <1>0, StagedOwner
<1>2. /\ phase' = phase /\ ready' = ready /\ call_identity' = call_identity
      /\ projection' = projection
      /\ \A q \in Owners : q # o => SamePlan(q)
  BY <1>1, PlanDomains DEF FinishPoisoned, SamePlan, StoreInv
<1>3. call'[t].pc = "dropping" /\ \A u \in Threads : u # t => call'[u] = call[u]
  BY GotoOnly DEF FinishPoisoned, StoreInv
<1>4. WholeOwner(o)'
  BY <1>1, <1>2 DEF WholeInv, WholeOwner
<1>5. Judged(t)'
  BY <1>3 DEF Judged
<1> QED  BY <1>0, <1>1, <1>2, <1>3, <1>4, <1>5, WholeFrame

\* What clear() leaves of an owner, and of the others.
LEMMA Cleared ==
  ASSUME TypeOK, NEW S, NEW to, Clear(S, to)
  PROVE  \A q \in Owners :
           /\ q \in S => /\ phase'[q] = to /\ ~ready'[q]
                         /\ pieces'[q] = NoPieces
                         /\ projection'[q] = NoProjection
                         /\ call_identity'[q] = NoIdentity
           /\ q \notin S => SamePlan(q)
<1>1. ASSUME NEW q \in Owners, q \in S
      PROVE  /\ phase'[q] = to /\ ~ready'[q]
             /\ pieces'[q] = NoPieces
             /\ projection'[q] = NoProjection
             /\ call_identity'[q] = NoIdentity
  BY <1>1 DEF Clear
<1>2. ASSUME NEW q \in Owners, q \notin S  PROVE SamePlan(q)
  <2>1. ready'[q] = ready[q]
    BY <1>2, Zenon DEF Clear, TypeOK, TypePlan
  <2> QED  BY <1>2, <2>1 DEF Clear, SamePlan
<1> QED  BY <1>1, <1>2

\* clear() leaves an owner with nothing a reader or a writer could use.
LEMMA WholeCleared ==
  ASSUME TypeOK, NEW S, NEW to \in {"unready", "disposed"}, Clear(S, to),
         NEW q \in Owners, q \in S
  PROVE  WholeOwner(q)'
BY Cleared DEF WholeOwner, NoProjection

LEMMA WholeDrop ==
  ASSUME StoreInv, WholeInv, NEW t \in Threads, DropTransaction(t)
  PROVE  WholeInv'
<1>0. InTransaction(t)
  BY DEF DropTransaction, InTransaction, TransactionPcs
<1>1. PICK o \in Owners : o = call[t].o /\ phase[o] = "staging" /\ ~ready[o]
  BY <1>0, StagedOwner
<1>2. Clear({o}, "unready")
  BY <1>1 DEF DropTransaction
<1>3. WholeOwner(o)' /\ \A q \in Owners : q # o => SamePlan(q)
  BY <1>2, Cleared, WholeCleared DEF StoreInv
<1>4. call'[t].pc = "leaving" /\ \A u \in Threads : u # t => call'[u] = call[u]
  BY GotoOnly DEF DropTransaction, StoreInv
<1>5. Judged(t)'
  BY <1>4 DEF Judged
<1> QED  BY <1>0, <1>1, <1>3, <1>4, <1>5, WholeFrame

\* Owners are created empty and disposed of only when no transaction is on
\* them.
LEMMA WholeOwners ==
  ASSUME StoreInv, WholeInv,
         create_owner \/ dispose \/ \E o \in Owners : dispose_owner(o)
  PROVE  WholeInv'
<1>1. CASE create_owner
  <2>1. PICK o \in Owners : o = next_owner /\ phase[o] = "absent"
    BY <1>1, StoreAssumption
    DEF create_owner, StoreInv, TypeOK, TypeStore, Owners, LifeInv, OwnerShape
  <2>2. /\ phase'[o] = "unready"
        /\ \A q \in Owners : q # o => SamePlan(q)
        /\ ready' = ready /\ projection' = projection
        /\ call_identity' = call_identity /\ call' = call
        /\ writer_fault' = writer_fault
        /\ projection_failure' = projection_failure
    BY <1>1, <2>1, PlanDomains DEF create_owner, SamePlan, StoreInv, threadVars
  <2>3. ~ready[o]
    BY <2>1 DEF StoreInv, LifeInv, OwnerShape
  <2>4. ASSUME NEW q \in Owners  PROVE WholeOwner(q)'
    <3>1. CASE q = o
      BY <2>1, <2>2, <2>3, <3>1 DEF WholeInv, WholeOwner
    <3>2. CASE q # o
      BY <2>2, <3>2 DEF SamePlan, WholeInv, WholeOwner, Poisoned
    <3> QED  BY <3>1, <3>2
  <2>5. \A t \in Threads : Judged(t)'
    BY <2>2 DEF WholeInv, Judged, Poisoned
  <2> QED  BY <2>4, <2>5 DEF WholeInv
<1>2. ASSUME NEW S, \A o \in S : ~Busy(o), Clear(S, "disposed"), call' = call
      PROVE  WholeInv'
  <2>1. ASSUME NEW q \in Owners  PROVE WholeOwner(q)'
    <3>1. CASE q \in S
      BY <1>2, <3>1, WholeCleared DEF StoreInv
    <3>2. CASE q \notin S
      <4>1. SamePlan(q)
        BY <1>2, <3>2, Cleared DEF StoreInv
      <4> QED  BY <4>1 DEF SamePlan, WholeInv, WholeOwner, Poisoned
    <3> QED  BY <3>1, <3>2
  <2>2. ASSUME NEW u \in Threads  PROVE Judged(u)'
    <3> SUFFICES ASSUME call[u].pc \in {"validating", "publishing"}
                 PROVE  Judged(u)'
      BY <1>2 DEF Judged
    <3>1. InTransaction(u)
      BY DEF InTransaction, TransactionPcs
    <3>2. PICK q \in Owners : q = call[u].o /\ phase[q] = "staging"
      BY <3>1, StagedOwner
    <3>3. SamePlan(q)
      BY <1>2, <3>2, Cleared DEF StoreInv, Busy
    <3>4. Judged(u)
      BY DEF WholeInv
    <3> QED  BY <1>2, <3>2, <3>3, <3>4 DEF Judged, SamePlan, Poisoned
  <2> QED  BY <2>1, <2>2 DEF WholeInv
<1>3. CASE dispose
  <2> DEFINE S == {o \in Owners : phase[o] # "absent"}
  <2>1. /\ \A o \in S : ~Busy(o)
        /\ Clear(S, "disposed") /\ call' = call
    BY <1>3 DEF dispose, threadVars
  <2> HIDE DEF S
  <2> QED  BY <1>2, <2>1
<1>4. ASSUME NEW o \in Owners, dispose_owner(o)  PROVE WholeInv'
  <2>1. ~Busy(o) /\ Clear({o}, "disposed") /\ call' = call
    BY <1>4 DEF dispose_owner, threadVars
  <2> QED  BY <1>2, <2>1
<1> QED  BY <1>1, <1>3, <1>4

\* Every step keeps publications whole.
LEMMA WholeStep ==
  ASSUME StoreInv, WholeInv, [Next]_vars
  PROVE  WholeInv'
<1> USE DEF StoreInv
<1>1. CASE create_owner \/ dispose \/ \E o \in Owners : dispose_owner(o)
  BY <1>1, WholeOwners
<1>2. ASSUME NEW t \in Threads, Transaction(t)  PROVE WholeInv'
  <2>1. CASE BeginRefused(t)
    BY <2>1, GotoOnly, WholeSame DEF BeginRefused
  <2>2. CASE SetupFails(t)
    BY <2>2, GotoOnly, WholeSame DEF SetupFails
  <2>3. CASE projection_writer(t)
    BY <2>3, WholeSame DEF projection_writer, threadVars
  <2>4. ASSUME NEW pc \in {"finishing", "failing", "dropping"},
               ModuleReturns(t, pc)
        PROVE  WholeInv'
    BY <2>4, GotoOnly, WholeSame DEF ModuleReturns
  <2>5. ASSUME NEW accepted, Validate(t, accepted)  PROVE WholeInv'
    <3>1. PICK pc \in {"publishing", "dropping"} : Goto(t, pc)
      BY <2>5 DEF Validate
    <3>2. UNCHANGED planVars /\ call[t].pc = "validating"
      BY <2>5 DEF Validate
    <3> QED  BY <3>1, <3>2, GotoOnly, WholeSame
  <2> QED  BY <1>2, <2>1, <2>2, <2>3, <2>4, <2>5, WholeBegin, WholeRequest,
              WholePut, WholePublish, WholeFinishCheck, WholeFinishPublish,
              WholeFinishPoisoned, WholeDrop DEF Transaction
<1>3. ASSUME NEW t \in Threads, Guarding(t)  PROVE WholeInv'
  <2>1. UNCHANGED planVars
    BY <1>3 DEF Guarding, StartPrepare, StartPlan, AcquireGuard,
       AcquireDenied, LeaveCall, InputReadEnter, ReadEnter, InnerLeave
  <2>2. \/ call' = call
        \/ \E new : /\ new.pc \notin {"validating", "publishing"}
                    /\ call' = [call EXCEPT ![t] = new]
    <3>1. CASE AcquireGuard(t)
      <4>1. PICK id : call' = [call EXCEPT ![t] =
                                 [pc |-> Entered(call[t].pc), o |-> call[t].o,
                                  id |-> id, prev |-> tls[t]]]
        BY <3>1 DEF AcquireGuard, TypeOK, TypeThreads
      <4>2. Entered(call[t].pc) \notin {"validating", "publishing"}
        BY DEF Entered
      <4> QED  BY <4>1, <4>2
    <3>2. CASE ~AcquireGuard(t)
      BY <1>3, <3>2 DEF Guarding, StartPrepare, StartPlan, AcquireDenied,
         LeaveCall, InputReadEnter, ReadEnter, InnerLeave, IdleCall
    <3> QED  BY <3>1, <3>2
  <2>3. \A u \in Threads :
          call'[u].pc \in {"validating", "publishing"} => call'[u] = call[u]
    BY <2>2 DEF TypeOK, TypeThreads
  <2> QED  BY <2>1, <2>3, WholeSame
<1>4. ASSUME NEW t \in Threads, Consuming(t)  PROVE WholeInv'
  <2>1. CASE PlanReturns(t)
    BY <2>1, GotoOnly, WholeSame DEF PlanReturns
  <2>2. CASE ~PlanReturns(t)
    BY <1>4, <2>2, WholeSame DEF Consuming, open, DropPiece
  <2> QED  BY <2>1, <2>2
<1>5. ASSUME NEW w \in writers, DropWriter(w)  PROVE WholeInv'
  BY <1>5, WholeSame DEF DropWriter, threadVars
<1>6. CASE UNCHANGED vars
  BY <1>6, WholeSame DEF vars, threadVars
<1> QED  BY <1>1, <1>2, <1>3, <1>4, <1>5, <1>6 DEF Next

\* An empty store has published nothing.
LEMMA WholeInit == Init => WholeInv
BY DEF Init, WholeInv, WholeOwner, Judged, IdleCall, NoProjection

LEMMA WholeInvariant == Spec => []WholeInv
BY WholeInit, WholeStep, StoreInvariant, PTL DEF Spec

\* Readers see whole publications only: the recheck after the validator, which
\* runs without the lock, is enough, although retained sinks may publish or
\* poison while it runs.
THEOREM StorePublishedWhole == Spec => []PublishedWhole
<1>1. WholeInv => PublishedWhole
  BY DEF WholeInv, WholeOwner, PublishedWhole
<1> QED  BY <1>1, WholeInvariant, PTL

-----------------------------------------------------------------------------
(* Piece handles *)

\* A piece's id is its index: below the count, and no other piece's.
PieceIds(o) ==
  \A n \in DOMAIN pieces[o] :
    /\ pieces[o][n].id < Cardinality(DOMAIN pieces[o])
    /\ \A m \in DOMAIN pieces[o] : pieces[o][m].id = pieces[o][n].id => m = n

\* A retained handle is of an owner that was published, and names its piece
\* until that owner is disposed of.
HandleKept(t) ==
  piece[t] # NoPiece =>
    /\ phase[piece[t].o] \in {"ready", "disposed"}
    /\ phase[piece[t].o] = "ready" =>
         /\ piece[t].name \in DOMAIN pieces[piece[t].o]
         /\ pieces[piece[t].o][piece[t].name].id = piece[t].id
         /\ pieces[piece[t].o][piece[t].name].len = piece[t].len

HandleInv ==
  /\ \A o \in Owners : PieceIds(o)
  /\ \A t \in Threads : HandleKept(t)

\* The pieces of an owner stay, are cleared, or gain one under a new name.
LEMMA PiecesStep ==
  ASSUME StoreInv, [Next]_vars, NEW o \in Owners
  PROVE  \/ pieces'[o] = pieces[o]
         \/ pieces'[o] = NoPieces
         \/ \E name, len : /\ name \notin DOMAIN pieces[o]
                           /\ pieces'[o] = PutPieces(o, name, len)
<1> DEFINE Goal == \/ pieces'[o] = pieces[o]
                   \/ pieces'[o] = NoPieces
                   \/ \E name, len : /\ name \notin DOMAIN pieces[o]
                                     /\ pieces'[o] = PutPieces(o, name, len)
<1> SUFFICES Goal
  OBVIOUS
<1>1. ASSUME NEW t \in Threads, NEW name, NEW len, put(t, name, len)
      PROVE  Goal
  <2>1. PICK q \in Owners : q = call[t].o
    BY <1>1, OwnerOfCall DEF StoreInv, put
  <2>2. CASE PutFault(q, name, len) = NoFault
    <3>1. name \notin DOMAIN pieces[q]
      BY <2>2 DEF PutFault, NoFault
    <3>2. pieces' = [pieces EXCEPT ![q] = PutPieces(q, name, len)]
      BY <1>1, <2>1, <2>2 DEF put
    <3> QED  BY <2>1, <3>1, <3>2, PlanDomains DEF StoreInv
  <2>3. CASE PutFault(q, name, len) # NoFault
    BY <1>1, <2>1, <2>3 DEF put
  <2> QED  BY <2>2, <2>3
<1>2. ASSUME NEW t \in Threads, Transaction(t),
             ~\E name, len : put(t, name, len)
      PROVE  Goal
  <2>1. CASE DropTransaction(t)
    BY <2>1 DEF DropTransaction, Clear
  <2>2. CASE ~DropTransaction(t)
    <3>1. pieces' = pieces
      BY <1>2, <2>2 DEF Transaction, begin, BeginRefused, SetupFails,
         request_projections, projection_writer, publish, ModuleReturns,
         ModuleReturnsPoisoned, FinishCheck, Validate, FinishPublish,
         FinishPoisoned, planVars
    <3> QED  BY <3>1
  <2> QED  BY <2>1, <2>2
<1>3. CASE dispose \/ \E q \in Owners : dispose_owner(q)
  BY <1>3 DEF dispose, dispose_owner, Clear
<1>4. CASE create_owner
  BY <1>4 DEF create_owner
<1>5. ASSUME \/ \E t \in Threads : Guarding(t) \/ Consuming(t)
             \/ \E w \in writers : DropWriter(w)
             \/ UNCHANGED vars
      PROVE  pieces' = pieces
  BY <1>5 DEF Guarding, StartPrepare, StartPlan, AcquireGuard,
     AcquireDenied, LeaveCall, InputReadEnter, ReadEnter, InnerLeave,
     Consuming, open, DropPiece, PlanReturns, DropWriter, vars, planVars
<1> QED  BY <1>1, <1>2, <1>3, <1>4, <1>5 DEF Next

\* A published owner stays published, with its pieces, until it is disposed
\* of, and a disposed one stays disposed.
LEMMA PhaseStep ==
  ASSUME StoreInv, [Next]_vars, NEW o \in Owners
  PROVE  /\ phase[o] = "disposed" => phase'[o] = "disposed"
         /\ phase[o] = "ready" =>
              \/ phase'[o] = "disposed"
              \/ phase'[o] = "ready" /\ pieces'[o] = pieces[o]
<1>1. AuthorityStep
  BY RefineStep
<1>2. phase[o] = "disposed" => phase'[o] = "disposed"
  BY <1>1, PlanDomains
  DEF AuthorityStep, Authority!ANext, Authority!ACreate, Authority!AEnter,
      Authority!ALeave, Authority!ABegin, Authority!APublish,
      Authority!AAbort, Authority!ADisposeOwner, Authority!ADispose,
      Authority!Move, Authority!Live, Authority!Idle, StoreInv
<1>3. StoreInv'
  BY StoreInductive
<1>4. ready[o] <=> phase[o] = "ready"
  BY DEF StoreInv, LifeInv, OwnerShape
<1>5. ready'[o] <=> phase'[o] = "ready"
  BY <1>3 DEF StoreInv, LifeInv, OwnerShape
<1>6. PlanKept(o)
  BY KeptStep
<1> QED  BY <1>2, <1>4, <1>5, <1>6 DEF PlanKept

\* A new piece takes the next index.
LEMMA PieceIdsStep ==
  ASSUME StoreInv, [Next]_vars, NEW o \in Owners, PieceIds(o)
  PROVE  PieceIds(o)'
<1>1. CASE pieces'[o] = pieces[o]
  BY <1>1 DEF PieceIds
<1>2. CASE pieces'[o] = NoPieces
  BY <1>2 DEF PieceIds, NoPieces
<1>3. ASSUME NEW name, NEW len, name \notin DOMAIN pieces[o],
             pieces'[o] = PutPieces(o, name, len)
      PROVE  PieceIds(o)'
  <2>1. PICK D : D = DOMAIN pieces[o]
    OBVIOUS
  <2>2. PICK c : c = Cardinality(D)
    OBVIOUS
  <2>3. /\ IsFiniteSet(D) /\ c \in Nat
        /\ \A n \in D : pieces[o][n].id \in Nat
    BY <2>1, <2>2, FS_CardinalityType DEF StoreInv, TypeOK, TypePlan, Piece
  <2>4. Cardinality(D \cup {name}) = c + 1
    BY <1>3, <2>1, <2>2, <2>3, FS_AddElement
  <2>5. /\ DOMAIN pieces'[o] = D \cup {name}
        /\ pieces'[o][name].id = c
        /\ \A n \in D : pieces'[o][n] = pieces[o][n]
    BY <1>3, <2>1, <2>2 DEF PutPieces
  <2>6. \A n \in D : /\ pieces[o][n].id < c
                     /\ \A m \in D : pieces[o][m].id = pieces[o][n].id => m = n
    BY <2>1, <2>2 DEF PieceIds
  <2> QED  BY <2>3, <2>4, <2>5, <2>6 DEF PieceIds
<1> QED  BY <1>1, <1>2, <1>3, PiecesStep

\* Every step keeps the handles.
LEMMA HandleStep ==
  ASSUME StoreInv, HandleInv, [Next]_vars
  PROVE  HandleInv'
<1>1. \A o \in Owners : PieceIds(o)'
  BY PieceIdsStep DEF HandleInv
<1>2. ASSUME NEW t \in Threads  PROVE HandleKept(t)'
  <2>1. CASE piece'[t] = piece[t]
    <3> SUFFICES ASSUME piece[t] # NoPiece  PROVE HandleKept(t)'
      BY <2>1 DEF HandleKept
    <3>1. PICK o \in Owners : o = piece[t].o
      BY DEF StoreInv, TypeOK, TypeThreads
    <3>2. /\ phase[o] = "disposed" => phase'[o] = "disposed"
          /\ phase[o] = "ready" =>
               \/ phase'[o] = "disposed"
               \/ phase'[o] = "ready" /\ pieces'[o] = pieces[o]
      BY PhaseStep
    <3>3. HandleKept(t)
      BY DEF HandleInv
    <3> QED  BY <2>1, <3>1, <3>2, <3>3 DEF HandleKept
  <2>2. CASE piece'[t] = NoPiece
    BY <2>2 DEF HandleKept
  <2>3. ASSUME NEW name \in Names, open(t, name)  PROVE HandleKept(t)'
    <3>1. PICK o \in Owners : o = call[t].o
      BY <2>3, OwnerOfCall DEF StoreInv, open
    <3>2. phase[o] = "ready" /\ phase' = phase /\ pieces' = pieces
      BY <2>3, <3>1 DEF open, StoreInv, LifeInv, OwnerShape, planVars
    <3>3. /\ name \in DOMAIN pieces[o]
          /\ piece'[t] = [o |-> o, name |-> name, id |-> pieces[o][name].id,
                          len |-> pieces[o][name].len]
      BY <2>3, <3>1 DEF open, StoreInv, TypeOK, TypeThreads
    <3> QED  BY <3>2, <3>3 DEF HandleKept
  <2>4. \/ piece'[t] = piece[t] \/ piece'[t] = NoPiece
        \/ \E name \in Names : open(t, name)
    <3>1. ASSUME NEW u \in Threads, Consuming(u)
          PROVE  \/ piece'[t] = piece[t] \/ piece'[t] = NoPiece
                 \/ \E name \in Names : open(t, name)
      BY <3>1 DEF Consuming, open, DropPiece, PlanReturns, StoreInv, TypeOK,
         TypeThreads
    <3>2. ASSUME NEW u \in Threads, Guarding(u)  PROVE piece' = piece
      BY <3>2 DEF Guarding, StartPrepare, StartPlan, AcquireGuard,
         AcquireDenied, LeaveCall, InputReadEnter, ReadEnter, InnerLeave
    <3>3. ASSUME NEW u \in Threads, Transaction(u)  PROVE piece' = piece
      BY <3>3 DEF Transaction, begin, BeginRefused, SetupFails,
         request_projections, put, projection_writer, publish, ModuleReturns,
         ModuleReturnsPoisoned, FinishCheck, Validate, FinishPublish,
         FinishPoisoned, DropTransaction, threadVars
    <3>4. ASSUME \/ create_owner \/ dispose
                 \/ \E o \in Owners : dispose_owner(o)
                 \/ \E w \in writers : DropWriter(w)
                 \/ UNCHANGED vars
          PROVE  piece' = piece
      BY <3>4 DEF create_owner, dispose, dispose_owner, DropWriter, vars,
         threadVars
    <3> QED  BY <3>1, <3>2, <3>3, <3>4 DEF Next
  <2> QED  BY <2>1, <2>2, <2>3, <2>4
<1> QED  BY <1>1, <1>2 DEF HandleInv

LEMMA HandleInvariant == Spec => []HandleInv
<1>1. Init => HandleInv
  BY DEF Init, HandleInv, PieceIds, HandleKept, NoPieces
<1> QED  BY <1>1, HandleStep, StoreInvariant, PTL DEF Spec

\* A handle that outlives the call which opened it reads its own piece as long
\* as its owner lives, whatever transactions came before the publication.
THEOREM StoreHandleFaithful == Spec => []HandleFaithful
<1>1. ASSUME StoreInv, HandleInv  PROVE HandleFaithful
  <2> SUFFICES ASSUME NEW t \in Threads, piece[t] # NoPiece,
                      CheckOwner(piece[t].o)
               PROVE  /\ ready[piece[t].o]
                      /\ {n \in DOMAIN pieces[piece[t].o] :
                            pieces[piece[t].o][n].id = piece[t].id}
                           = {piece[t].name}
                      /\ pieces[piece[t].o][piece[t].name].len = piece[t].len
    BY DEF HandleFaithful
  <2>1. PICK o \in Owners : o = piece[t].o
    BY <1>1 DEF StoreInv, TypeOK, TypeThreads
  <2>2. HandleKept(t) /\ PieceIds(o)
    BY <1>1 DEF HandleInv
  <2>3. phase[o] = "ready"
    BY <2>1, <2>2 DEF HandleKept, CheckOwner
  <2>4. ready[o]
    BY <1>1, <2>3 DEF StoreInv, LifeInv, OwnerShape
  <2> QED  BY <2>1, <2>2, <2>3, <2>4 DEF HandleKept, PieceIds
<1> QED  BY <1>1, StoreInvariant, HandleInvariant, PTL

-----------------------------------------------------------------------------
(* Invocations *)

NestedBound(t) == inner[t].on /\ inner[t].bound

\* A bound guard is nested in an invocation only, and keeps that invocation; an
\* unbound one is nested in a plan call or in nothing.
Nesting(t) ==
  inner[t].on =>
    /\ inner[t].bound => /\ call[t].pc = "invoking"
                         /\ inner[t].prev = [o |-> call[t].o, id |-> call[t].id]
    /\ ~inner[t].bound => call[t].pc \in {"idle", "plan"}

\* The thread-local invocation outside a bound nested guard, the one the call
\* restores, and the owner the transaction may write to.
Binding(t) ==
  /\ ~NestedBound(t) =>
       tls[t] = IF HoldsGuard(t) THEN [o |-> call[t].o, id |-> call[t].id]
                ELSE NoInvocation
  /\ HoldsGuard(t) => call[t].prev = NoInvocation
  /\ InTransaction(t) => call_identity[call[t].o] = call[t].id

InvocationInv == \A t \in Threads : Nesting(t) /\ Binding(t)

\* The identity of a staged owner changes only when its transaction ends.
LEMMA IdentityStep ==
  ASSUME StoreInv, [Next]_vars, NEW o \in Owners, phase[o] = "staging"
  PROVE  \/ call_identity'[o] = call_identity[o]
         \/ \E t \in Threads : /\ call[t].o = o
                               /\ FinishPublish(t) \/ DropTransaction(t)
<1> DEFINE Goal == \/ call_identity'[o] = call_identity[o]
                   \/ \E t \in Threads :
                        /\ call[t].o = o
                        /\ FinishPublish(t) \/ DropTransaction(t)
<1> SUFFICES Goal
  OBVIOUS
<1>1. ASSUME NEW t \in Threads, Transaction(t)  PROVE Goal
  <2>1. CASE begin(t)
    BY <2>1, PlanDomains DEF begin, StoreInv
  <2>2. CASE FinishPublish(t)
    BY <2>2, PlanDomains DEF FinishPublish, StoreInv
  <2>3. CASE DropTransaction(t)
    BY <2>3 DEF DropTransaction, Clear
  <2>4. CASE ~begin(t) /\ ~FinishPublish(t) /\ ~DropTransaction(t)
    <3>1. call_identity' = call_identity
      BY <1>1, <2>4 DEF Transaction, BeginRefused, SetupFails,
         request_projections, put, projection_writer, publish, ModuleReturns,
         ModuleReturnsPoisoned, FinishCheck, Validate, FinishPoisoned,
         planVars
    <3> QED  BY <3>1
  <2> QED  BY <2>1, <2>2, <2>3, <2>4
<1>2. CASE dispose \/ \E q \in Owners : dispose_owner(q)
  BY <1>2 DEF dispose, dispose_owner, Clear, Busy
<1>3. ASSUME \/ create_owner
             \/ \E t \in Threads : Guarding(t) \/ Consuming(t)
             \/ \E w \in writers : DropWriter(w)
             \/ UNCHANGED vars
      PROVE  call_identity' = call_identity
  BY <1>3 DEF create_owner, Guarding, StartPrepare, StartPlan, AcquireGuard,
     AcquireDenied, LeaveCall, InputReadEnter, ReadEnter, InnerLeave,
     Consuming, open, DropPiece, PlanReturns, DropWriter, vars, planVars
<1> QED  BY <1>1, <1>2, <1>3 DEF Next

\* The transaction of a call keeps its identity until it ends.
LEMMA IdentityKept ==
  ASSUME StoreInv, [Next]_vars, NEW t \in Threads, InTransaction(t),
         InTransaction(t)', call'[t].o = call[t].o
  PROVE  call_identity'[call[t].o] = call_identity[call[t].o]
<1>1. PICK o \in Owners : o = call[t].o /\ phase[o] = "staging"
  BY StagedOwner
<1>2. ASSUME NEW u \in Threads, call[u].o = o,
             FinishPublish(u) \/ DropTransaction(u)
      PROVE  FALSE
  <2>1. InTransaction(u)
    BY <1>2 DEF FinishPublish, DropTransaction, InTransaction, TransactionPcs
  <2>2. u = t
    BY <1>1, <1>2, <2>1 DEF StoreInv, LifeInv, StagingExclusive
  <2>3. Goto(u, "leaving")
    BY <1>2 DEF FinishPublish, DropTransaction
  <2>4. call'[t].pc = "leaving"
    BY <2>2, <2>3, GotoOnly DEF StoreInv
  <2> QED  BY <2>4 DEF InTransaction, TransactionPcs
<1> QED  BY <1>1, <1>2, IdentityStep

\* A thread that does not step keeps its invocation.
LEMMA InvocationOther ==
  ASSUME StoreInv, [Next]_vars, NEW u \in Threads, Nesting(u), Binding(u),
         call'[u] = call[u], tls'[u] = tls[u], inner'[u] = inner[u]
  PROVE  Nesting(u)' /\ Binding(u)'
<1>1. InTransaction(u)' => InTransaction(u)
  BY DEF InTransaction
<1>2. InTransaction(u)' => call_identity'[call[u].o] = call_identity[call[u].o]
  BY <1>1, IdentityKept
<1>3. Nesting(u)'
  BY DEF Nesting
<1>4. Binding(u)'
  BY <1>1, <1>2 DEF Binding, NestedBound, HoldsGuard
<1> QED  BY <1>3, <1>4

\* A step of a transaction moves its program counter at most, and only with no
\* guard nested in it.
LEMMA TransactionMoves ==
  ASSUME NEW t \in Threads, Transaction(t)
  PROVE  /\ tls' = tls /\ inner' = inner
         /\ \/ call' = call
            \/ \E pc \in GuardedPcs :
                 /\ Goto(t, pc)
                 /\ call[t].pc \in GuardedPcs \ {"plan", "leaving"}
                 /\ call[t].pc = "invoking" => ~inner[t].on
                 /\ pc \in TransactionPcs =>
                      begin(t) \/ call[t].pc \in TransactionPcs
                 /\ pc \notin TransactionPcs =>
                      \/ call[t].pc \notin TransactionPcs
                      \/ FinishPublish(t) \/ DropTransaction(t)
<1> USE DEF GuardedPcs, TransactionPcs, threadVars
<1> DEFINE Goal == /\ tls' = tls /\ inner' = inner
                   /\ \/ call' = call
                      \/ \E pc \in GuardedPcs :
                           /\ Goto(t, pc)
                           /\ call[t].pc \in GuardedPcs \ {"plan", "leaving"}
                           /\ call[t].pc = "invoking" => ~inner[t].on
                           /\ pc \in TransactionPcs =>
                                begin(t) \/ call[t].pc \in TransactionPcs
                           /\ pc \notin TransactionPcs =>
                                \/ call[t].pc \notin TransactionPcs
                                \/ FinishPublish(t) \/ DropTransaction(t)
<1>1. ASSUME begin(t)  PROVE Goal
  BY <1>1 DEF begin
<1>2. ASSUME BeginRefused(t)  PROVE Goal
  BY <1>2 DEF BeginRefused
<1>3. ASSUME SetupFails(t)  PROVE Goal
  BY <1>3 DEF SetupFails
<1>4. ASSUME NEW requested, request_projections(t, requested)  PROVE Goal
  BY <1>4 DEF request_projections
<1>5. ASSUME NEW name, NEW len, put(t, name, len)  PROVE Goal
  BY <1>5 DEF put
<1>6. ASSUME projection_writer(t)  PROVE Goal
  BY <1>6 DEF projection_writer
<1>7. ASSUME NEW w, NEW view, NEW valid, publish(t, w, view, valid)
      PROVE  Goal
  BY <1>7 DEF publish
<1>8. ASSUME NEW pc \in {"finishing", "failing", "dropping"},
             ModuleReturns(t, pc)
      PROVE  Goal
  BY <1>8 DEF ModuleReturns
<1>9. ASSUME ModuleReturnsPoisoned(t)  PROVE Goal
  BY <1>9 DEF ModuleReturnsPoisoned
<1>10. ASSUME FinishCheck(t)  PROVE Goal
  BY <1>10 DEF FinishCheck
<1>11. ASSUME NEW accepted, Validate(t, accepted)  PROVE Goal
  BY <1>11 DEF Validate
<1>12. ASSUME FinishPublish(t)  PROVE Goal
  BY <1>12 DEF FinishPublish
<1>13. ASSUME FinishPoisoned(t)  PROVE Goal
  BY <1>13 DEF FinishPoisoned
<1>14. ASSUME DropTransaction(t)  PROVE Goal
  BY <1>14 DEF DropTransaction
<1> HIDE DEF Goal
<1>15. Goal
  BY <1>1, <1>2, <1>3, <1>4, <1>5, <1>6, <1>7, <1>8, <1>9, <1>10, <1>11,
     <1>12, <1>13, <1>14 DEF Transaction
<1> QED  BY <1>15 DEF Goal

\* A step of a transaction keeps the thread in its invocation; begin gives the
\* owner to that invocation.
LEMMA InvocationTransaction ==
  ASSUME StoreInv, InvocationInv, NEW t \in Threads, Transaction(t)
  PROVE  InvocationInv'
<1>1. [Next]_vars
  BY DEF Next
<1>2. tls' = tls /\ inner' = inner
  BY TransactionMoves
<1>3. CASE call' = call
  BY <1>1, <1>2, <1>3, InvocationOther DEF InvocationInv
<1>4. ASSUME NEW pc \in GuardedPcs, Goto(t, pc),
             call[t].pc \in GuardedPcs \ {"plan", "leaving"},
             call[t].pc = "invoking" => ~inner[t].on,
             pc \in TransactionPcs => begin(t) \/ call[t].pc \in TransactionPcs
      PROVE  InvocationInv'
  <2>1. /\ call'[t].pc = pc /\ call'[t].o = call[t].o
        /\ call'[t].id = call[t].id /\ call'[t].prev = call[t].prev
        /\ \A u \in Threads : u # t => call'[u] = call[u]
    BY <1>4, GotoOnly DEF StoreInv
  <2>2. \A u \in Threads : u # t => Nesting(u)' /\ Binding(u)'
    BY <1>1, <1>2, <2>1, InvocationOther DEF InvocationInv
  <2>3. Nesting(t) /\ Binding(t)
    BY DEF InvocationInv
  <2>4. ~inner[t].on
    BY <1>4, <2>3 DEF Nesting, GuardedPcs, TransactionPcs
  <2>5. Nesting(t)'
    BY <1>2, <2>4 DEF Nesting
  <2>6. HoldsGuard(t) /\ HoldsGuard(t)'
    BY <1>4, <2>1 DEF HoldsGuard
  <2>7. tls[t] = [o |-> call[t].o, id |-> call[t].id]
    BY <2>3, <2>4, <2>6 DEF Binding, NestedBound
  <2>8. ASSUME InTransaction(t)'
        PROVE  call_identity'[call[t].o] = call[t].id
    <3>1. CASE begin(t)
      <4>1. call[t].o \in Owners
        BY <3>1, OwnerOfCall DEF begin, StoreInv
      <4>2. call_identity'[call[t].o] = tls[t].id
        BY <3>1, <4>1, PlanDomains DEF begin, StoreInv
      <4> QED  BY <2>7, <4>2
    <3>2. CASE InTransaction(t)
      BY <1>1, <2>1, <2>3, <2>8, <3>2, IdentityKept DEF Binding
    <3> QED  BY <1>4, <2>1, <2>8, <3>1, <3>2 DEF InTransaction
  <2>9. Binding(t)'
    BY <1>2, <2>1, <2>3, <2>6, <2>7, <2>8 DEF Binding
  <2> QED  BY <2>2, <2>5, <2>9 DEF InvocationInv
<1> QED  BY <1>3, <1>4, TransactionMoves

\* A call that starts has passed its first check and holds nothing.
LEMMA CallStarts ==
  ASSUME TypeOK, NEW t \in Threads, NEW o \in Owners,
         StartPrepare(t, o) \/ StartPlan(t, o)
  PROVE  /\ call'[t].pc \in {"checked_prepare", "checked_plan"}
         /\ call[t].pc = "idle"
         /\ \A u \in Threads : u # t => call'[u] = call[u]
<1>1. PICK pc \in {"checked_prepare", "checked_plan"} :
        call' = [call EXCEPT ![t] = [IdleCall EXCEPT !.pc = pc, !.o = o]]
  BY DEF StartPrepare, StartPlan
<1>2. [IdleCall EXCEPT !.pc = pc, !.o = o].pc = pc
  BY DEF IdleCall
<1>3. call'[t].pc = pc /\ \A u \in Threads : u # t => call'[u] = call[u]
  BY <1>1, <1>2 DEF TypeOK, TypeThreads
<1> QED  BY <1>3 DEF StartPrepare, StartPlan

\* Guards bind an invocation and restore the one they found.
LEMMA InvocationGuarding ==
  ASSUME StoreInv, InvocationInv, NEW t \in Threads, Guarding(t)
  PROVE  InvocationInv'
<1>1. [Next]_vars
  BY DEF Next
<1>2. Nesting(t) /\ Binding(t)
  BY DEF InvocationInv
<1>3. /\ DOMAIN call = Threads /\ DOMAIN tls = Threads
      /\ DOMAIN inner = Threads
  BY DEF StoreInv, TypeOK, TypeThreads
<1>4. \A u \in Threads :
        u # t => call'[u] = call[u] /\ tls'[u] = tls[u] /\ inner'[u] = inner[u]
  BY <1>3 DEF Guarding, StartPrepare, StartPlan, AcquireGuard, AcquireDenied,
     LeaveCall, InputReadEnter, ReadEnter, InnerLeave
<1>5. \A u \in Threads : u # t => Nesting(u)' /\ Binding(u)'
  BY <1>1, <1>4, InvocationOther DEF InvocationInv
<1>6. ASSUME NEW o \in Owners, StartPrepare(t, o) \/ StartPlan(t, o)
      PROVE  Nesting(t)' /\ Binding(t)'
  <2>1. /\ call[t].pc = "idle" /\ ~inner[t].on
        /\ inner' = inner /\ tls' = tls
        /\ call'[t].pc \in {"checked_prepare", "checked_plan"}
    BY <1>6, CallStarts DEF StartPrepare, StartPlan, StoreInv
  <2> QED  BY <1>2, <2>1 DEF Nesting, Binding, NestedBound, HoldsGuard,
              InTransaction, GuardedPcs, TransactionPcs
<1>7. ASSUME AcquireGuard(t)  PROVE Nesting(t)' /\ Binding(t)'
  <2>1. PICK id \in Fresh :
          /\ tls' = [tls EXCEPT ![t] = [o |-> call[t].o, id |-> id]]
          /\ call' = [call EXCEPT ![t] = [pc |-> Entered(call[t].pc),
                                          o |-> call[t].o, id |-> id,
                                          prev |-> tls[t]]]
    BY <1>3, <1>7 DEF AcquireGuard
  <2>2. /\ call[t].pc \in {"checked_prepare", "checked_plan"}
        /\ inner' = inner
    BY <1>7 DEF AcquireGuard
  <2>3. ~inner[t].on
    BY <1>2, <2>2 DEF Nesting
  <2>4. tls[t] = NoInvocation
    BY <1>2, <2>2, <2>3
    DEF Binding, NestedBound, HoldsGuard, GuardedPcs, TransactionPcs
  <2>5. /\ tls'[t] = [o |-> call[t].o, id |-> id]
        /\ call'[t].pc \in {"guarded", "plan"}
        /\ call'[t].o = call[t].o /\ call'[t].id = id
        /\ call'[t].prev = NoInvocation
    BY <1>3, <2>1, <2>4 DEF Entered
  <2> QED  BY <2>2, <2>3, <2>5 DEF Nesting, Binding, NestedBound, HoldsGuard,
              InTransaction, GuardedPcs, TransactionPcs
<1>8. ASSUME AcquireDenied(t)  PROVE Nesting(t)' /\ Binding(t)'
  <2>1. /\ call[t].pc \in {"checked_prepare", "checked_plan"}
        /\ inner' = inner /\ tls' = tls /\ call'[t].pc = "idle"
    BY <1>3, <1>8 DEF AcquireDenied, IdleCall
  <2>2. ~inner[t].on
    BY <1>2, <2>1 DEF Nesting
  <2> QED  BY <1>2, <2>1, <2>2 DEF Nesting, Binding, NestedBound, HoldsGuard,
              InTransaction, GuardedPcs, TransactionPcs
<1>9. ASSUME LeaveCall(t)  PROVE Nesting(t)' /\ Binding(t)'
  <2>1. /\ call[t].pc = "leaving" /\ ~inner[t].on /\ inner' = inner
        /\ tls'[t] = call[t].prev /\ call'[t].pc = "idle"
    BY <1>3, <1>9 DEF LeaveCall, IdleCall
  <2>2. call[t].prev = NoInvocation
    BY <1>2, <2>1 DEF Binding, HoldsGuard, GuardedPcs
  <2> QED  BY <2>1, <2>2 DEF Nesting, Binding, NestedBound, HoldsGuard,
              InTransaction, GuardedPcs, TransactionPcs
<1>10. ASSUME call' = call,
              InputReadEnter(t) \/ ReadEnter(t) \/ InnerLeave(t)
       PROVE  /\ HoldsGuard(t)' <=> HoldsGuard(t)
              /\ HoldsGuard(t)' => call'[t].prev = NoInvocation
              /\ InTransaction(t)' => call_identity'[call'[t].o] = call'[t].id
  BY <1>2, <1>10
  DEF InputReadEnter, ReadEnter, InnerLeave, planVars, Binding, HoldsGuard,
      InTransaction
<1>11. ASSUME InputReadEnter(t)  PROVE Nesting(t)' /\ Binding(t)'
  <2>1. /\ call' = call /\ call[t].pc = "invoking" /\ ~inner[t].on
        /\ inner'[t] = [on |-> TRUE, o |-> call[t].o, bound |-> TRUE,
                        prev |-> tls[t]]
    BY <1>3, <1>11 DEF InputReadEnter
  <2>2. tls[t] = [o |-> call[t].o, id |-> call[t].id]
    BY <1>2, <2>1
    DEF Binding, NestedBound, HoldsGuard, GuardedPcs, TransactionPcs
  <2> QED  BY <1>10, <1>11, <2>1, <2>2 DEF Nesting, Binding, NestedBound
<1>12. ASSUME ReadEnter(t)  PROVE Nesting(t)' /\ Binding(t)'
  <2>1. /\ call' = call /\ tls' = tls /\ call[t].pc \in {"idle", "plan"}
        /\ ~inner[t].on /\ inner'[t].on /\ ~inner'[t].bound
    BY <1>3, <1>12 DEF ReadEnter
  <2> QED  BY <1>2, <1>10, <1>12, <2>1
           DEF Nesting, Binding, NestedBound, HoldsGuard
<1>13. ASSUME InnerLeave(t)  PROVE Nesting(t)' /\ Binding(t)'
  <2>1. /\ call' = call /\ inner[t].on /\ ~inner'[t].on
        /\ tls'[t] = IF inner[t].bound THEN inner[t].prev ELSE tls[t]
    BY <1>3, <1>13 DEF InnerLeave, NoInner
  <2>2. tls'[t] = IF HoldsGuard(t) THEN [o |-> call[t].o, id |-> call[t].id]
                  ELSE NoInvocation
    <3>1. CASE inner[t].bound
      BY <1>2, <2>1, <3>1 DEF Nesting, HoldsGuard, GuardedPcs, TransactionPcs
    <3>2. CASE ~inner[t].bound
      BY <1>2, <2>1, <3>2 DEF Binding, NestedBound
    <3> QED  BY <3>1, <3>2
  <2> QED  BY <1>10, <1>13, <2>1, <2>2 DEF Nesting, Binding, HoldsGuard
<1>14. Nesting(t)' /\ Binding(t)'
  BY <1>6, <1>7, <1>8, <1>9, <1>11, <1>12, <1>13 DEF Guarding
<1> QED  BY <1>5, <1>14 DEF InvocationInv

\* Every step keeps the invocations.
LEMMA InvocationStep ==
  ASSUME StoreInv, InvocationInv, [Next]_vars
  PROVE  InvocationInv'
<1>1. ASSUME NEW t \in Threads, Transaction(t) \/ Guarding(t)
      PROVE  InvocationInv'
  BY <1>1, InvocationTransaction, InvocationGuarding
<1>2. CASE call' = call /\ tls' = tls /\ inner' = inner
  BY <1>2, InvocationOther DEF InvocationInv
<1>3. ASSUME NEW t \in Threads, Consuming(t)  PROVE InvocationInv'
  <2>1. CASE PlanReturns(t)
    <3>1. /\ call'[t].pc = "leaving" /\ call'[t].o = call[t].o
          /\ call'[t].id = call[t].id /\ call'[t].prev = call[t].prev
          /\ \A u \in Threads : u # t => call'[u] = call[u]
      BY <2>1, GotoOnly DEF PlanReturns, StoreInv
    <3>2. /\ tls' = tls /\ inner' = inner /\ ~inner[t].on
          /\ call[t].pc = "plan"
      BY <2>1 DEF PlanReturns
    <3>3. \A u \in Threads : u # t => Nesting(u)' /\ Binding(u)'
      BY <3>1, <3>2, InvocationOther DEF InvocationInv
    <3>4. Nesting(t) /\ Binding(t)
      BY DEF InvocationInv
    <3>5. Nesting(t)' /\ Binding(t)'
      BY <3>1, <3>2, <3>4 DEF Nesting, Binding, NestedBound, HoldsGuard,
         InTransaction, GuardedPcs, TransactionPcs
    <3> QED  BY <3>3, <3>5 DEF InvocationInv
  <2>2. CASE ~PlanReturns(t)
    BY <1>2, <1>3, <2>2 DEF Consuming, open, DropPiece
  <2> QED  BY <2>1, <2>2
<1>4. ASSUME \/ create_owner \/ dispose
             \/ \E o \in Owners : dispose_owner(o)
             \/ \E w \in writers : DropWriter(w)
             \/ UNCHANGED vars
      PROVE  call' = call /\ tls' = tls /\ inner' = inner
  BY <1>4 DEF create_owner, dispose, dispose_owner, DropWriter, vars,
     threadVars
<1> QED  BY <1>1, <1>2, <1>3, <1>4 DEF Next

LEMMA InvocationInvariant == Spec => []InvocationInv
<1>1. Init => InvocationInv
  BY DEF Init, InvocationInv, Nesting, Binding, HoldsGuard, InTransaction,
     GuardedPcs, TransactionPcs, IdleCall, NoInner
<1> QED  BY <1>1, InvocationStep, StoreInvariant, PTL DEF Spec

\* However input reads and piece reads nest in calls, every guard restores the
\* invocation it found, and a transaction belongs to its own call.
THEOREM StoreInvocationRestored == Spec => []InvocationRestored
<1>1. InvocationInv => InvocationRestored
  BY DEF InvocationInv, Binding, NestedBound, InvocationRestored
<1> QED  BY <1>1, InvocationInvariant, PTL

-----------------------------------------------------------------------------
(* Retained writers *)

\* No two calls run under one identity, although addresses are reused.
IdentitiesApart ==
  \A t, u \in Threads :
    HoldsGuard(t) /\ HoldsGuard(u) /\ call[t].id = call[u].id => t = u

\* A writer of a running transaction has that call's identity; one that has
\* outlived its transaction has the identity of no call that could still begin
\* one, because the writer itself keeps the address from being reused.
WriterHeld(w) ==
  /\ ~w.stale => \E t \in Threads : /\ InTransaction(t) /\ call[t].o = w.o
                                    /\ call[t].id = w.id
  /\ w.stale => \A t \in Threads :
                  HoldsGuard(t) /\ call[t].id = w.id => call[t].pc = "leaving"

WriterInv == IdentitiesApart /\ \A w \in writers : WriterHeld(w)

\* What a step does to the call of a thread: nothing, a move within its guard,
\* the way out of it, or the way in under a fresh identity.
Stays(u) ==
  \/ call'[u] = call[u]
  \/ /\ HoldsGuard(u) /\ call[u].pc # "leaving" /\ HoldsGuard(u)'
     /\ call'[u].o = call[u].o /\ call'[u].id = call[u].id
     /\ InTransaction(u) =>
          InTransaction(u)' \/ FinishPublish(u) \/ DropTransaction(u)
  \/ ~HoldsGuard(u)' /\ ~InTransaction(u)

Enters(u) ==
  /\ HoldsGuard(u)' /\ ~HoldsGuard(u)
  /\ call'[u].id \in Fresh /\ call'[u].pc # "leaving"

\* Every step moves the call of one thread at most.
LEMMA CallsStep ==
  ASSUME StoreInv, [Next]_vars
  PROVE  \/ call' = call
         \/ \E t \in Threads : /\ Stays(t) \/ Enters(t)
                               /\ \A u \in Threads : u # t => call'[u] = call[u]
<1> DEFINE One(t) == /\ Stays(t) \/ Enters(t)
                     /\ \A u \in Threads : u # t => call'[u] = call[u]
<1> DEFINE Goal == call' = call \/ \E t \in Threads : One(t)
<1> USE DEF StoreInv
<1>1. DOMAIN call = Threads
  BY DEF TypeOK, TypeThreads
<1>2. ASSUME NEW t \in Threads, Transaction(t)  PROVE Goal
  <2>1. ASSUME NEW pc \in GuardedPcs, Goto(t, pc),
               call[t].pc \in GuardedPcs \ {"plan", "leaving"},
               pc \notin TransactionPcs =>
                 \/ call[t].pc \notin TransactionPcs
                 \/ FinishPublish(t) \/ DropTransaction(t)
        PROVE  One(t)
    BY <2>1, GotoOnly DEF Stays, HoldsGuard, InTransaction
  <2> QED  BY <1>2, <2>1, TransactionMoves
<1>3. ASSUME NEW t \in Threads, Guarding(t)  PROVE Goal
  <2>1. CASE AcquireGuard(t)
    <3>1. PICK id \in Fresh :
            call' = [call EXCEPT ![t] = [pc |-> Entered(call[t].pc),
                                         o |-> call[t].o, id |-> id,
                                         prev |-> tls[t]]]
      BY <1>1, <2>1 DEF AcquireGuard
    <3>2. call[t].pc \in {"checked_prepare", "checked_plan"}
      BY <2>1 DEF AcquireGuard
    <3>3. /\ call'[t].pc \in {"guarded", "plan"} /\ call'[t].id = id
          /\ \A u \in Threads : u # t => call'[u] = call[u]
      BY <1>1, <3>1 DEF Entered
    <3>4. Enters(t)
      BY <3>2, <3>3 DEF Enters, HoldsGuard, GuardedPcs, TransactionPcs
    <3> QED  BY <3>3, <3>4
  <2>2. CASE \/ \E o \in Owners : StartPrepare(t, o) \/ StartPlan(t, o)
             \/ AcquireDenied(t) \/ LeaveCall(t)
    <3>1. /\ call'[t].pc \in {"idle", "checked_prepare", "checked_plan"}
          /\ call[t].pc \notin TransactionPcs
          /\ \A u \in Threads : u # t => call'[u] = call[u]
      BY <1>1, <2>2, CallStarts
      DEF AcquireDenied, LeaveCall, IdleCall, TransactionPcs
    <3>2. Stays(t)
      BY <3>1
      DEF Stays, HoldsGuard, InTransaction, GuardedPcs, TransactionPcs
    <3> QED  BY <3>1, <3>2
  <2>3. CASE InputReadEnter(t) \/ ReadEnter(t) \/ InnerLeave(t)
    BY <2>3 DEF InputReadEnter, ReadEnter, InnerLeave
  <2> QED  BY <1>3, <2>1, <2>2, <2>3 DEF Guarding
<1>4. ASSUME NEW t \in Threads, Consuming(t)  PROVE Goal
  <2>1. CASE PlanReturns(t)
    <3>1. One(t)
      BY <2>1, GotoOnly DEF PlanReturns, Stays, HoldsGuard, InTransaction,
         GuardedPcs, TransactionPcs
    <3> QED  BY <3>1
  <2>2. CASE ~PlanReturns(t)
    BY <1>4, <2>2 DEF Consuming, open, DropPiece
  <2> QED  BY <2>1, <2>2
<1>5. ASSUME \/ create_owner \/ dispose
             \/ \E o \in Owners : dispose_owner(o)
             \/ \E w \in writers : DropWriter(w)
             \/ UNCHANGED vars
      PROVE  call' = call
  BY <1>5 DEF create_owner, dispose, dispose_owner, DropWriter, vars,
     threadVars
<1>6. Goal
  BY <1>2, <1>3, <1>4, <1>5 DEF Next
<1> QED  BY <1>6

\* A fresh identity is no call's and no writer's.
LEMMA FreshApart ==
  ASSUME NEW id \in Fresh
  PROVE  /\ \A u \in Threads : call[u].id # id
         /\ \A w \in writers : w.id # id
BY DEF Fresh, Referenced

\* Calls stay apart: only a fresh identity comes in.
LEMMA ApartStep ==
  ASSUME StoreInv, WriterInv, [Next]_vars
  PROVE  IdentitiesApart'
<1>1. CASE call' = call
  BY <1>1 DEF WriterInv, IdentitiesApart, HoldsGuard
<1>2. ASSUME NEW t \in Threads, Stays(t) \/ Enters(t),
             \A u \in Threads : u # t => call'[u] = call[u]
      PROVE  IdentitiesApart'
  <2>1. ASSUME NEW u \in Threads, u # t, HoldsGuard(t)', HoldsGuard(u)',
               call'[t].id = call'[u].id
        PROVE  FALSE
    <3>1. HoldsGuard(u) /\ call'[u].id = call[u].id
      BY <1>2, <2>1 DEF HoldsGuard
    <3>2. CASE Enters(t)
      BY <2>1, <3>1, <3>2, FreshApart DEF Enters
    <3>3. CASE Stays(t)
      <4>1. HoldsGuard(t) /\ call'[t].id = call[t].id
        BY <2>1, <3>3 DEF Stays, HoldsGuard
      <4> QED  BY <2>1, <3>1, <4>1 DEF WriterInv, IdentitiesApart
    <3> QED  BY <1>2, <3>2, <3>3
  <2>2. ASSUME NEW u \in Threads, NEW v \in Threads, u # t, v # t,
               HoldsGuard(u)', HoldsGuard(v)', call'[u].id = call'[v].id
        PROVE  u = v
    BY <1>2, <2>2 DEF WriterInv, IdentitiesApart, HoldsGuard
  <2> QED  BY <2>1, <2>2 DEF IdentitiesApart
<1> QED  BY <1>1, <1>2, CallsStep

\* A writer that has outlived its transaction stays without a caller.
LEMMA StaleHeld ==
  ASSUME StoreInv, WriterInv, [Next]_vars, NEW w \in writers, w.stale,
         NEW u \in Threads, HoldsGuard(u)', call'[u].id = w.id
  PROVE  call'[u].pc = "leaving"
<1>1. CASE call'[u] = call[u]
  BY <1>1 DEF WriterInv, WriterHeld, HoldsGuard
<1>2. CASE Enters(u)
  BY <1>2, FreshApart DEF Enters
<1>3. CASE Stays(u)
  BY <1>1, <1>3 DEF Stays, WriterInv, WriterHeld
<1> QED  BY <1>1, <1>2, <1>3, CallsStep

\* The transaction a writer belongs to goes on unless this step ends it.
LEMMA LiveHeld ==
  ASSUME StoreInv, WriterInv, [Next]_vars, NEW t \in Threads,
         InTransaction(t), ~FinishPublish(t), ~DropTransaction(t)
  PROVE  InTransaction(t)' /\ call'[t].o = call[t].o /\ call'[t].id = call[t].id
<1>1. HoldsGuard(t)
  BY DEF InTransaction, HoldsGuard, GuardedPcs
<1>2. CASE call'[t] = call[t]
  BY <1>2 DEF InTransaction
<1>3. CASE Stays(t)
  BY <1>2, <1>3 DEF Stays
<1>4. ~Enters(t)
  BY <1>1 DEF Enters
<1> QED  BY <1>2, <1>3, <1>4, CallsStep

\* The end of a transaction ages its writers.
LEMMA WriterEnd ==
  ASSUME StoreInv, WriterInv, NEW t \in Threads,
         FinishPublish(t) \/ DropTransaction(t)
  PROVE  \A x \in writers' : WriterHeld(x)'
<1>1. [Next]_vars
  BY DEF Next, Transaction
<1>2. InTransaction(t)
  BY DEF FinishPublish, DropTransaction, InTransaction, TransactionPcs
<1>3. PICK o \in Owners : o = call[t].o
  BY <1>2, StagedOwner
<1>4. writers' = Outlive(o) /\ Goto(t, "leaving")
  BY <1>3 DEF FinishPublish, DropTransaction
<1>5. /\ call'[t].pc = "leaving"
      /\ \A u \in Threads : /\ call'[u].id = call[u].id
                            /\ u # t => call'[u] = call[u]
      /\ \A u \in Threads : HoldsGuard(u)' => HoldsGuard(u)
  <2>1. HoldsGuard(t)
    BY <1>2 DEF InTransaction, HoldsGuard, GuardedPcs
  <2> QED  BY <1>4, <2>1, GotoOnly DEF StoreInv, HoldsGuard
<1>6. ASSUME NEW x \in writers'  PROVE WriterHeld(x)'
  <2>1. PICK w \in writers :
          x = IF w.o = o THEN [w EXCEPT !.stale = TRUE] ELSE w
    BY <1>4 DEF Outlive
  <2>2. w \in [o : Owners, id : Identities \cup {NoIdentity}, stale : BOOLEAN]
    BY DEF StoreInv, TypeOK, TypeStore
  <2>3. x.o = w.o /\ x.id = w.id
    BY <2>1, <2>2
  <2>4. CASE w.stale
    <3>1. x.stale
      BY <2>1, <2>2, <2>4
    <3>2. \A u \in Threads :
            HoldsGuard(u)' /\ call'[u].id = x.id => call'[u].pc = "leaving"
      BY <1>1, <2>3, <2>4, StaleHeld
    <3> QED  BY <3>1, <3>2 DEF WriterHeld
  <2>5. CASE ~w.stale
    <3>1. PICK s \in Threads : /\ InTransaction(s) /\ call[s].o = w.o
                               /\ call[s].id = w.id
      BY <2>5 DEF WriterInv, WriterHeld
    <3>2. CASE w.o = o
      <4>1. s = t
        BY <1>2, <1>3, <3>1, <3>2 DEF StoreInv, LifeInv, StagingExclusive
      <4>2. x.stale
        BY <2>1, <2>2, <3>2
      <4>3. HoldsGuard(t)
        BY <1>2 DEF InTransaction, HoldsGuard, GuardedPcs
      <4>4. ASSUME NEW u \in Threads, HoldsGuard(u)', call'[u].id = x.id
            PROVE  call'[u].pc = "leaving"
        <5>1. HoldsGuard(u) /\ call[u].id = call[t].id
          BY <1>5, <2>3, <3>1, <4>1, <4>4
        <5>2. u = t
          BY <4>3, <5>1 DEF WriterInv, IdentitiesApart
        <5> QED  BY <1>5, <5>2
      <4> QED  BY <4>2, <4>4 DEF WriterHeld
    <3>3. CASE w.o # o
      <4>1. s # t /\ x = w
        BY <1>3, <2>1, <3>1, <3>3
      <4>2. call'[s] = call[s]
        BY <1>5, <4>1
      <4> QED  BY <2>5, <3>1, <4>1, <4>2 DEF WriterHeld, InTransaction
    <3> QED  BY <3>2, <3>3
  <2> QED  BY <2>4, <2>5
<1> QED  BY <1>6

\* Where the writers of the next state come from, if no transaction ends.
LEMMA WritersStep ==
  ASSUME StoreInv, [Next]_vars,
         \A t \in Threads : ~FinishPublish(t) /\ ~DropTransaction(t)
  PROVE  \/ writers' \subseteq writers
         \/ \E t \in Threads : projection_writer(t)
<1> DEFINE Goal == \/ writers' \subseteq writers
                   \/ \E t \in Threads : projection_writer(t)
<1>1. ASSUME NEW t \in Threads, Transaction(t)  PROVE Goal
  BY <1>1 DEF Transaction, begin, BeginRefused, SetupFails,
     request_projections, put, publish, ModuleReturns,
     ModuleReturnsPoisoned, FinishCheck, Validate, FinishPoisoned
<1>2. ASSUME NEW t \in Threads, Guarding(t) \/ Consuming(t)  PROVE Goal
  BY <1>2 DEF Guarding, StartPrepare, StartPlan, AcquireGuard,
     AcquireDenied, LeaveCall, InputReadEnter, ReadEnter, InnerLeave,
     Consuming, open, DropPiece, PlanReturns
<1>3. ASSUME \/ create_owner \/ dispose
             \/ \E o \in Owners : dispose_owner(o)
             \/ \E w \in writers : DropWriter(w)
             \/ UNCHANGED vars
      PROVE  Goal
  BY <1>3 DEF create_owner, dispose, dispose_owner, DropWriter, vars
<1> QED  BY <1>1, <1>2, <1>3 DEF Next

\* Every step keeps the writers in their place.
LEMMA WriterStep ==
  ASSUME StoreInv, InvocationInv, WriterInv, [Next]_vars
  PROVE  WriterInv'
<1>1. CASE \E t \in Threads : FinishPublish(t) \/ DropTransaction(t)
  BY <1>1, ApartStep, WriterEnd DEF WriterInv
<1>2. CASE \A t \in Threads : ~FinishPublish(t) /\ ~DropTransaction(t)
  <2>1. ASSUME NEW w \in writers  PROVE WriterHeld(w)'
    <3>1. CASE w.stale
      <4>1. \A u \in Threads :
              HoldsGuard(u)' /\ call'[u].id = w.id => call'[u].pc = "leaving"
        BY <3>1, StaleHeld
      <4> QED  BY <3>1, <4>1 DEF WriterHeld
    <3>2. CASE ~w.stale
      <4>1. PICK t \in Threads : /\ InTransaction(t) /\ call[t].o = w.o
                                 /\ call[t].id = w.id
        BY <3>2 DEF WriterInv, WriterHeld
      <4>2. InTransaction(t)' /\ call'[t].o = w.o /\ call'[t].id = w.id
        BY <1>2, <4>1, LiveHeld
      <4> QED  BY <3>2, <4>2 DEF WriterHeld
    <3> QED  BY <3>1, <3>2
  <2>2. CASE writers' \subseteq writers
    BY <2>1, <2>2, ApartStep DEF WriterInv
  <2>3. ASSUME NEW t \in Threads, projection_writer(t)  PROVE WriterInv'
    <3>1. InTransaction(t) /\ call' = call
      BY <2>3
      DEF projection_writer, threadVars, InTransaction, TransactionPcs
    <3>2. call_identity[call[t].o] = call[t].id
      BY <3>1 DEF InvocationInv, Binding
    <3> DEFINE new == [o |-> call[t].o, id |-> call[t].id, stale |-> FALSE]
    <3>3. writers' = writers \cup {new}
      BY <2>3, <3>2 DEF projection_writer
    <3>4. new.o = call[t].o /\ new.id = call[t].id /\ ~new.stale
      OBVIOUS
    <3> HIDE DEF new
    <3>5. PICK x : x = new
      OBVIOUS
    <3>6. WriterHeld(x)'
      BY <3>1, <3>4, <3>5 DEF WriterHeld, InTransaction
    <3>7. \A y \in writers' : WriterHeld(y)'
      BY <2>1, <3>3, <3>5, <3>6
    <3> QED  BY <3>7, ApartStep DEF WriterInv
  <2> QED  BY <1>2, <2>2, <2>3, WritersStep
<1> QED  BY <1>1, <1>2

LEMMA WriterInvariant == Spec => []WriterInv
<1>1. Init => WriterInv
  BY DEF Init, WriterInv, IdentitiesApart, HoldsGuard, GuardedPcs,
     TransactionPcs, IdleCall
<1> QED  BY <1>1, WriterStep, StoreInvariant, InvocationInvariant, PTL DEF Spec

\* A projection writer kept beyond its transaction never passes with_entry's
\* check again, for any supply of addresses: pointer equality is enough since
\* the writer holds its Arc.
THEOREM StoreStaleWriterPowerless == Spec => []StaleWriterPowerless
<1>1. ASSUME StoreInv, InvocationInv, WriterInv  PROVE StaleWriterPowerless
  <2> SUFFICES ASSUME NEW w \in writers, w.stale, Authorised(w)  PROVE FALSE
    BY DEF StaleWriterPowerless
  <2>1. w.o \in Owners /\ phase[w.o] = "staging" /\ call_identity[w.o] = w.id
    BY <1>1 DEF Authorised, StoreInv, TypeOK, TypeStore
  <2>2. PICK t \in Threads : InTransaction(t) /\ call[t].o = w.o
    BY <1>1, <2>1 DEF StoreInv, LifeInv, StagingExclusive
  <2>3. call[t].id = w.id
    BY <1>1, <2>1, <2>2 DEF InvocationInv, Binding
  <2>4. call[t].pc = "leaving"
    BY <1>1, <2>2, <2>3
    DEF WriterInv, WriterHeld, InTransaction, HoldsGuard, GuardedPcs
  <2> QED  BY <2>2, <2>4 DEF InTransaction, TransactionPcs
<1> QED  BY <1>1, StoreInvariant, InvocationInvariant, WriterInvariant, PTL

-----------------------------------------------------------------------------
(* Accounting *)

\* What the counters of an owner are about.
Ledger(o) == <<pieces[o], acct[o], diag[o], projection[o].scenes>>

\* One owner: the counters are exact, nothing is retained before publication,
\* and an owner outside a transaction that is not published has no scenes.
Counted(o) ==
  /\ IsFiniteSet(StoredBytes(o))
  /\ acct[o].staged + acct[o].retained = Cardinality(StoredBytes(o))
  /\ IsFiniteSet(projection[o].scenes)
  /\ diag[o].staged + diag[o].retained = Cardinality(projection[o].scenes)
  /\ phase[o] # "ready" => acct[o].retained = 0
  /\ phase[o] \notin {"staging", "ready"} => projection[o].scenes = {}

\* A transaction that has not asked for its views yet finds no scenes, so the
\* fresh map request_projections installs drops none that was counted.
Untouched(t) ==
  call[t].pc = "begun" => projection[call[t].o].scenes = {}

AccountInv ==
  /\ \A o \in Owners : Counted(o)
  /\ \A t \in Threads : Untouched(t)

\* The ways a step moves the ledger of an owner.
LedgerKept(o) ==
  /\ UNCHANGED Ledger(o)
  /\ \/ phase'[o] = phase[o]
     \/ phase[o] \in {"absent", "unready"} /\ phase'[o] \in {"unready", "staging"}

Wiped(o) ==
  /\ pieces'[o] = NoPieces
  /\ acct'[o].staged = 0 /\ acct'[o].retained = 0
  /\ diag'[o].staged = 0 /\ diag'[o].retained = 0
  /\ projection'[o].scenes = {}
  /\ phase'[o] # "ready"

PieceAdded(o) ==
  \E name : \E len \in Nat :
    /\ name \notin DOMAIN pieces[o]
    /\ pieces'[o] = PutPieces(o, name, len)
    /\ acct'[o].staged = acct[o].staged + len
    /\ acct'[o].retained = acct[o].retained
    /\ UNCHANGED <<phase[o], diag[o], projection[o]>>

SceneAdded(o) ==
  /\ \E t \in Threads, w \in writers :
       \E view, valid : publish(t, w, view, valid) /\ w.o = o
  /\ phase[o] = "staging"
  /\ \E view : /\ view \notin projection[o].scenes
               /\ projection'[o].scenes = projection[o].scenes \cup {view}
  /\ diag'[o].staged = diag[o].staged + 1
  /\ diag'[o].retained = diag[o].retained
  /\ UNCHANGED <<phase[o], pieces[o], acct[o]>>

Retained(o) ==
  /\ phase[o] = "staging" /\ phase'[o] = "ready"
  /\ acct'[o].staged = 0 /\ acct'[o].retained = acct[o].staged
  /\ diag'[o].staged = 0 /\ diag'[o].retained = diag[o].retained + diag[o].staged
  /\ UNCHANGED <<pieces[o], projection[o]>>

ScenesRequested(o) ==
  /\ \E t \in Threads : call[t].pc = "begun" /\ call[t].o = o
  /\ projection'[o].scenes = {}
  /\ UNCHANGED <<phase[o], pieces[o], acct[o], diag[o]>>

LedgerMoves(o) == \/ LedgerKept(o) \/ Wiped(o) \/ PieceAdded(o)
                  \/ SceneAdded(o) \/ Retained(o) \/ ScenesRequested(o)

LEMMA SamePlanKeepsLedger ==
  ASSUME NEW o, SamePlan(o)
  PROVE  LedgerKept(o)
BY DEF SamePlan, LedgerKept, Ledger

LEMMA ClearWipes ==
  ASSUME TypeOK, NEW S, NEW to \in {"unready", "disposed"}, Clear(S, to),
         NEW o \in Owners
  PROVE  LedgerMoves(o)
<1>1. CASE o \in S
  <2>1. /\ pieces'[o] = NoPieces /\ projection'[o] = NoProjection
        /\ diag'[o] = NoBytes /\ phase'[o] = to
        /\ acct'[o] = [NoAccount EXCEPT !.put_calls = acct[o].put_calls]
    BY <1>1 DEF Clear
  <2>2. Wiped(o)
    BY <2>1 DEF Wiped, NoProjection, NoBytes, NoAccount
  <2> QED  BY <2>2 DEF LedgerMoves
<1>2. CASE o \notin S
  BY <1>2, Cleared, SamePlanKeepsLedger DEF LedgerMoves
<1> QED  BY <1>1, <1>2

LEMMA LedgerPut ==
  ASSUME StoreInv, NEW t \in Threads, NEW name, NEW len \in Lens,
         put(t, name, len), NEW o \in Owners
  PROVE  LedgerMoves(o)
<1>1. PICK q \in Owners : q = call[t].o
  BY OwnerOfCall DEF StoreInv, put
<1>2. CASE PutFault(q, name, len) # NoFault
  <2>1. /\ pieces' = pieces /\ acct' = acct /\ phase' = phase /\ diag' = diag
        /\ projection' = projection
    BY <1>1, <1>2 DEF put
  <2> QED  BY <2>1 DEF LedgerMoves, LedgerKept, Ledger
<1>3. CASE PutFault(q, name, len) = NoFault
  <2>1. /\ pieces' = [pieces EXCEPT ![q] = PutPieces(q, name, len)]
        /\ acct' = [acct EXCEPT ![q] =
                      [staged |-> acct[q].staged + len,
                       retained |-> acct[q].retained,
                       put_calls |-> acct[q].put_calls + 1]]
        /\ phase' = phase /\ diag' = diag /\ projection' = projection
    BY <1>1, <1>3, PlanDomains DEF put, StoreInv
  <2>2. CASE o = q
    <3>1. /\ pieces'[o] = PutPieces(o, name, len)
          /\ acct'[o].staged = acct[o].staged + len
          /\ acct'[o].retained = acct[o].retained
      BY <2>1, <2>2, PlanDomains DEF StoreInv
    <3>2. name \notin DOMAIN pieces[o]
      BY <1>3, <2>2 DEF PutFault, NoFault
    <3>3. len \in Nat
      BY StoreAssumption
    <3>4. UNCHANGED <<phase[o], diag[o], projection[o]>>
      BY <2>1
    <3>5. PieceAdded(o)
      BY <3>1, <3>2, <3>3, <3>4, Zenon DEF PieceAdded
    <3> QED  BY <3>5 DEF LedgerMoves
  <2>3. CASE o # q
    <3>1. pieces'[o] = pieces[o] /\ acct'[o] = acct[o]
      BY <2>1, <2>3, PlanDomains DEF StoreInv
    <3> QED  BY <2>1, <3>1 DEF LedgerMoves, LedgerKept, Ledger
  <2> QED  BY <2>2, <2>3
<1> QED  BY <1>2, <1>3

LEMMA LedgerPublish ==
  ASSUME StoreInv, NEW t \in Threads, NEW w \in writers, NEW view, NEW valid,
         publish(t, w, view, valid), NEW o \in Owners
  PROVE  LedgerMoves(o)
<1>1. PICK q \in Owners : q = w.o
  BY DEF StoreInv, TypeOK, TypeStore
<1>2. CASE PublishFault(q, view, valid) # NoFault
  <2>1. /\ pieces' = pieces /\ acct' = acct /\ phase' = phase /\ diag' = diag
        /\ projection' = projection
    BY <1>1, <1>2 DEF publish
  <2> QED  BY <2>1 DEF LedgerMoves, LedgerKept, Ledger
<1>3. CASE PublishFault(q, view, valid) = NoFault
  <2>1. /\ projection' = [projection EXCEPT ![q].scenes = @ \cup {view}]
        /\ diag' = [diag EXCEPT ![q].staged = @ + 1]
        /\ phase' = phase /\ pieces' = pieces /\ acct' = acct
        /\ phase[q] = "staging"
    BY <1>1, <1>3 DEF publish, Authorised
  <2>2. CASE o = q
    <3>1. /\ projection[o] \in [views : SUBSET (Views \cup {Undeclared}),
                                scenes : SUBSET (Views \cup {Undeclared})]
          /\ diag[o] \in [staged : Nat, retained : Nat]
      BY DEF StoreInv, TypeOK, TypePlan
    <3>2. /\ projection'[o].scenes = projection[o].scenes \cup {view}
          /\ diag'[o].staged = diag[o].staged + 1
          /\ diag'[o].retained = diag[o].retained
      BY <2>1, <2>2, <3>1, PlanDomains DEF StoreInv
    <3>3. view \notin projection[o].scenes
      BY <1>3, <2>2 DEF PublishFault, NoFault
    <3>4. SceneAdded(o)
      BY <1>1, <2>1, <2>2, <3>2, <3>3 DEF SceneAdded
    <3> QED  BY <3>4 DEF LedgerMoves
  <2>3. CASE o # q
    <3>1. projection'[o] = projection[o] /\ diag'[o] = diag[o]
      BY <2>1, <2>3, PlanDomains DEF StoreInv
    <3> QED  BY <2>1, <3>1 DEF LedgerMoves, LedgerKept, Ledger
  <2> QED  BY <2>2, <2>3
<1> QED  BY <1>2, <1>3

LEMMA LedgerFinish ==
  ASSUME StoreInv, NEW t \in Threads, FinishPublish(t), NEW o \in Owners
  PROVE  LedgerMoves(o)
<1>1. InTransaction(t)
  BY DEF FinishPublish, InTransaction, TransactionPcs
<1>2. PICK q \in Owners : q = call[t].o /\ phase[q] = "staging"
  BY <1>1, StagedOwner
<1>3. /\ diag' = [diag EXCEPT ![q] = [staged |-> 0,
                     retained |-> diag[q].retained + diag[q].staged]]
      /\ acct' = [acct EXCEPT ![q] = [staged |-> 0, retained |-> acct[q].staged,
                     put_calls |-> acct[q].put_calls]]
      /\ phase' = [phase EXCEPT ![q] = "ready"]
      /\ pieces' = pieces /\ projection' = projection
  BY <1>2, PlanDomains DEF FinishPublish, StoreInv
<1>4. CASE o = q
  <2>1. Retained(o)
    BY <1>2, <1>3, <1>4, PlanDomains DEF Retained, StoreInv
  <2> QED  BY <2>1 DEF LedgerMoves
<1>5. CASE o # q
  <2>1. diag'[o] = diag[o] /\ acct'[o] = acct[o] /\ phase'[o] = phase[o]
    BY <1>3, <1>5, PlanDomains DEF StoreInv
  <2> QED  BY <2>1, <1>3 DEF LedgerMoves, LedgerKept, Ledger
<1> QED  BY <1>4, <1>5

LEMMA LedgerRequest ==
  ASSUME StoreInv, NEW t \in Threads, NEW requested,
         request_projections(t, requested), NEW o \in Owners
  PROVE  LedgerMoves(o)
<1>1. PICK q \in Owners : q = call[t].o
  BY OwnerOfCall DEF StoreInv, request_projections
<1>2. /\ phase' = phase /\ pieces' = pieces /\ acct' = acct /\ diag' = diag
      /\ call[t].pc = "begun"
      /\ projection' = [projection EXCEPT ![q] =
                          IF requested = {} THEN projection[q]
                          ELSE [views |-> requested, scenes |-> {}]]
  BY <1>1, PlanDomains DEF request_projections, StoreInv
<1>3. CASE o = q /\ requested # {}
  <2>1. projection'[o].scenes = {}
    BY <1>2, <1>3, PlanDomains DEF StoreInv
  <2>2. ScenesRequested(o)
    BY <1>1, <1>2, <1>3, <2>1 DEF ScenesRequested
  <2> QED  BY <2>2 DEF LedgerMoves
<1>4. CASE o # q \/ requested = {}
  <2>1. projection'[o] = projection[o]
    BY <1>2, <1>4, PlanDomains DEF StoreInv
  <2> QED  BY <2>1, <1>2 DEF LedgerMoves, LedgerKept, Ledger
<1> QED  BY <1>3, <1>4

LEMMA LedgerStep ==
  ASSUME StoreInv, [Next]_vars, NEW o \in Owners
  PROVE  LedgerMoves(o)
<1>0. TypeOK
  BY DEF StoreInv
<1>1. ASSUME UNCHANGED <<phase, pieces, acct, diag, projection>>
      PROVE  LedgerMoves(o)
  BY <1>1 DEF LedgerMoves, LedgerKept, Ledger
<1>2. ASSUME NEW t \in Threads, Transaction(t)  PROVE LedgerMoves(o)
  <2>1. CASE begin(t)
    <3>1. PICK q \in Owners : q = call[t].o
      BY <2>1, OwnerOfCall DEF StoreInv, begin
    <3>2. /\ phase[q] = "unready" /\ phase' = [phase EXCEPT ![q] = "staging"]
          /\ UNCHANGED <<pieces, acct, diag, projection>>
      BY <2>1, <3>1 DEF begin
    <3>3. \/ phase'[o] = phase[o]
          \/ phase[o] = "unready" /\ phase'[o] = "staging"
      BY <3>2, <1>0, PlanDomains
    <3> QED  BY <3>2, <3>3 DEF LedgerMoves, LedgerKept, Ledger
  <2>2. CASE DropTransaction(t)
    <3>1. Clear({call[t].o}, "unready")
      BY <2>2 DEF DropTransaction
    <3> QED  BY <3>1, <1>0, ClearWipes
  <2>3. CASE FinishPublish(t)
    BY <2>3, LedgerFinish
  <2>4. ASSUME NEW requested, request_projections(t, requested)
        PROVE  LedgerMoves(o)
    BY <2>4, LedgerRequest
  <2>5. ASSUME NEW name, NEW len \in Lens, put(t, name, len)
        PROVE  LedgerMoves(o)
    BY <2>5, LedgerPut
  <2>6. ASSUME NEW w \in writers, NEW view, NEW valid,
               publish(t, w, view, valid)
        PROVE  LedgerMoves(o)
    BY <2>6, LedgerPublish
  <2>7. ASSUME \/ BeginRefused(t) \/ SetupFails(t) \/ projection_writer(t)
               \/ \E pc \in {"finishing", "failing", "dropping"} :
                    ModuleReturns(t, pc)
               \/ ModuleReturnsPoisoned(t) \/ FinishCheck(t)
               \/ \E accepted \in BOOLEAN : Validate(t, accepted)
               \/ FinishPoisoned(t)
        PROVE  UNCHANGED <<phase, pieces, acct, diag, projection>>
    BY <2>7 DEF BeginRefused, SetupFails, projection_writer, ModuleReturns,
       ModuleReturnsPoisoned, FinishCheck, Validate, FinishPoisoned, planVars
  <2> QED
    BY <1>1, <1>2, <2>1, <2>2, <2>3, <2>4, <2>5, <2>6, <2>7 DEF Transaction
<1>3. CASE create_owner
  <2>1. PICK q \in Owners : q = next_owner /\ phase[q] = "absent"
    BY <1>3, StoreAssumption
    DEF create_owner, StoreInv, TypeOK, TypeStore, Owners, LifeInv, OwnerShape
  <2>2. /\ phase' = [phase EXCEPT ![q] = "unready"]
        /\ UNCHANGED <<pieces, acct, diag, projection>>
    BY <1>3, <2>1 DEF create_owner
  <2>3. \/ phase'[o] = phase[o]
        \/ phase[o] = "absent" /\ phase'[o] = "unready"
    BY <2>1, <2>2, <1>0, PlanDomains
  <2> QED  BY <2>2, <2>3 DEF LedgerMoves, LedgerKept, Ledger
<1>4. CASE dispose
  <2>1. Clear({q \in Owners : phase[q] # "absent"}, "disposed")
    BY <1>4 DEF dispose
  <2> QED  BY <2>1, <1>0, ClearWipes
<1>5. ASSUME NEW q \in Owners, dispose_owner(q)  PROVE LedgerMoves(o)
  <2>1. Clear({q}, "disposed")
    BY <1>5 DEF dispose_owner
  <2> QED  BY <2>1, <1>0, ClearWipes
<1>6. ASSUME \/ \E t \in Threads : Guarding(t) \/ Consuming(t)
             \/ \E w \in writers : DropWriter(w)
             \/ UNCHANGED vars
      PROVE  UNCHANGED <<phase, pieces, acct, diag, projection>>
  BY <1>6 DEF Guarding, StartPrepare, StartPlan, AcquireGuard,
     AcquireDenied, LeaveCall, InputReadEnter, ReadEnter, InnerLeave,
     Consuming, open, DropPiece, PlanReturns, DropWriter, vars, planVars
<1> QED  BY <1>1, <1>2, <1>3, <1>4, <1>5, <1>6 DEF Next

\* A new piece adds as many bytes as it is long.
LEMMA BytesAdded ==
  ASSUME NEW o, NEW name, NEW len \in Nat, name \notin DOMAIN pieces[o],
         pieces'[o] = PutPieces(o, name, len), IsFiniteSet(StoredBytes(o))
  PROVE  /\ IsFiniteSet(StoredBytes(o)')
         /\ Cardinality(StoredBytes(o)') = Cardinality(StoredBytes(o)) + len
<1> DEFINE new == {name} \X (1 .. len)
           D == DOMAIN pieces[o]
<1>1. /\ DOMAIN pieces'[o] = D \cup {name}
      /\ pieces'[o][name].len = len
      /\ \A n \in D : pieces'[o][n] = pieces[o][n]
  BY DEF PutPieces
<1>2. \A b : b \in StoredBytes(o) <=>
               \E n \in D : b \in {n} \X (1 .. pieces[o][n].len)
  BY DEF StoredBytes
<1>3. \A b : b \in StoredBytes(o)' <=>
               \E n \in D \cup {name} : b \in {n} \X (1 .. pieces'[o][n].len)
  BY <1>1 DEF StoredBytes
<1>4. StoredBytes(o)' = StoredBytes(o) \cup new
  <2>1. ASSUME NEW b \in StoredBytes(o)'  PROVE b \in StoredBytes(o) \cup new
    <3>1. PICK n \in D \cup {name} : b \in {n} \X (1 .. pieces'[o][n].len)
      BY <1>3, <2>1, Zenon
    <3>2. CASE n = name
      BY <1>1, <3>1, <3>2
    <3>3. CASE n \in D
      <4>1. b \in {n} \X (1 .. pieces[o][n].len)
        BY <1>1, <3>1, <3>3
      <4> QED  BY <4>1, <3>3, <1>2, Zenon
    <3> QED  BY <3>2, <3>3
  <2>2. ASSUME NEW b \in StoredBytes(o) \cup new  PROVE b \in StoredBytes(o)'
    <3>1. CASE b \in new
      <4>1. b \in {name} \X (1 .. pieces'[o][name].len)
        BY <1>1, <3>1
      <4> QED  BY <4>1, <1>3, Zenon
    <3>2. CASE b \in StoredBytes(o)
      <4>1. PICK n \in D : b \in {n} \X (1 .. pieces[o][n].len)
        BY <1>2, <3>2, Zenon
      <4>2. b \in {n} \X (1 .. pieces'[o][n].len)
        BY <1>1, <4>1
      <4> QED  BY <4>1, <4>2, <1>3, Zenon
    <3> QED  BY <3>1, <3>2, <2>2
  <2> QED  BY <2>1, <2>2
<1>5. StoredBytes(o) \cap new = {}
  <2>1. ASSUME NEW b \in StoredBytes(o), b \in new  PROVE FALSE
    <3>1. PICK n \in D : b \in {n} \X (1 .. pieces[o][n].len)
      BY <1>2, <2>1, Zenon
    <3>2. b[1] = n /\ b[1] = name
      BY <2>1, <3>1
    <3> QED  BY <3>2
  <2> QED  BY <2>1
<1>6. IsFiniteSet(new) /\ Cardinality(new) = len
  <2>1. IsFiniteSet({name}) /\ Cardinality({name}) = 1
    BY FS_Singleton
  <2>2. IsFiniteSet(1 .. len) /\ Cardinality(1 .. len) = len
    BY FS_Interval
  <2>3. PICK A, B : A = {name} /\ B = 1 .. len
    OBVIOUS
  <2>4. IsFiniteSet(A \X B) /\ Cardinality(A \X B) = Cardinality(A) * Cardinality(B)
    BY <2>1, <2>2, <2>3, FS_Product
  <2>5. new = A \X B /\ 1 * len = len
    BY <2>3
  <2> QED  BY <2>1, <2>2, <2>3, <2>4, <2>5
<1>7. Cardinality(StoredBytes(o)) \in Nat
  BY FS_CardinalityType
<1> HIDE DEF new
<1>8. PICK old : old = StoredBytes(o)
  OBVIOUS
<1>9. /\ IsFiniteSet(old \cup new)
      /\ Cardinality(old \cup new) =
           Cardinality(old) + Cardinality(new) - Cardinality(old \cap new)
  BY <1>6, <1>8, FS_Union
<1>10. Cardinality(old \cap new) = 0
  BY <1>5, <1>8, FS_EmptySet
<1> QED  BY <1>4, <1>6, <1>7, <1>8, <1>9, <1>10

LEMMA CountedStep ==
  ASSUME StoreInv, AccountInv, [Next]_vars, NEW o \in Owners
  PROVE  Counted(o)'
<1>0. Counted(o)
  BY DEF AccountInv
<1>1. /\ acct[o] \in [staged : Nat, retained : Nat, put_calls : Nat]
      /\ diag[o] \in [staged : Nat, retained : Nat]
  BY DEF StoreInv, TypeOK, TypePlan
<1>2. CASE LedgerKept(o)
  <2>1. /\ pieces'[o] = pieces[o] /\ acct'[o] = acct[o] /\ diag'[o] = diag[o]
        /\ projection'[o].scenes = projection[o].scenes
        /\ \/ phase'[o] = phase[o]
           \/ /\ phase[o] \in {"absent", "unready"}
              /\ phase'[o] \in {"unready", "staging"}
    BY <1>2 DEF LedgerKept, Ledger
  <2>2. StoredBytes(o)' = StoredBytes(o)
    BY <2>1 DEF StoredBytes
  <2> QED  BY <1>0, <2>1, <2>2 DEF Counted
<1>3. CASE Wiped(o)
  <2>1. StoredBytes(o)' = {}
    BY <1>3 DEF Wiped, StoredBytes, NoPieces
  <2> QED  BY <1>3, <2>1, FS_EmptySet DEF Wiped, Counted
<1>4. CASE PieceAdded(o)
  <2>1. PICK name : \E len \in Nat :
          /\ name \notin DOMAIN pieces[o]
          /\ pieces'[o] = PutPieces(o, name, len)
          /\ acct'[o].staged = acct[o].staged + len
          /\ acct'[o].retained = acct[o].retained
          /\ UNCHANGED <<phase[o], diag[o], projection[o]>>
    BY <1>4 DEF PieceAdded
  <2>2. PICK len \in Nat :
          /\ name \notin DOMAIN pieces[o]
          /\ pieces'[o] = PutPieces(o, name, len)
          /\ acct'[o].staged = acct[o].staged + len
          /\ acct'[o].retained = acct[o].retained
          /\ UNCHANGED <<phase[o], diag[o], projection[o]>>
    BY <2>1
  <2>3. /\ IsFiniteSet(StoredBytes(o)')
        /\ Cardinality(StoredBytes(o)') = Cardinality(StoredBytes(o)) + len
    BY <2>2, <1>0, BytesAdded DEF Counted
  <2>4. Cardinality(StoredBytes(o)) \in Nat
    BY <1>0, FS_CardinalityType DEF Counted
  <2>5. acct'[o].staged + acct'[o].retained = Cardinality(StoredBytes(o)')
    BY <1>0, <1>1, <2>2, <2>3, <2>4 DEF Counted
  <2> QED  BY <1>0, <2>2, <2>3, <2>5 DEF Counted
<1>5. CASE SceneAdded(o)
  <2>1. PICK view : /\ view \notin projection[o].scenes
                    /\ projection'[o].scenes = projection[o].scenes \cup {view}
    BY <1>5 DEF SceneAdded
  <2>2. /\ IsFiniteSet(projection'[o].scenes)
        /\ Cardinality(projection'[o].scenes)
             = Cardinality(projection[o].scenes) + 1
    <3>1. PICK S : S = projection[o].scenes /\ IsFiniteSet(S)
      BY <1>0 DEF Counted
    <3>2. IsFiniteSet(S \cup {view}) /\ Cardinality(S \cup {view}) = Cardinality(S) + 1
      BY <2>1, <3>1, FS_AddElement
    <3> QED  BY <2>1, <3>1, <3>2
  <2>3. diag'[o].staged + diag'[o].retained = Cardinality(projection'[o].scenes)
    BY <1>0, <1>1, <1>5, <2>2 DEF Counted, SceneAdded
  <2>4. /\ pieces'[o] = pieces[o] /\ acct'[o] = acct[o] /\ phase'[o] = "staging"
        /\ phase[o] = "staging"
    BY <1>5 DEF SceneAdded
  <2>5. StoredBytes(o)' = StoredBytes(o)
    BY <2>4 DEF StoredBytes
  <2> QED  BY <1>0, <2>2, <2>3, <2>4, <2>5 DEF Counted
<1>6. CASE Retained(o)
  <2>1. StoredBytes(o)' = StoredBytes(o)
    BY <1>6 DEF Retained, StoredBytes
  <2>2. acct[o].retained = 0
    BY <1>0, <1>6 DEF Retained, Counted
  <2> QED  BY <1>0, <1>1, <1>6, <2>1, <2>2 DEF Retained, Counted
<1>7. CASE ScenesRequested(o)
  <2>1. projection[o].scenes = {}
    BY <1>7 DEF ScenesRequested, AccountInv, Untouched
  <2>2. StoredBytes(o)' = StoredBytes(o)
    BY <1>7 DEF ScenesRequested, StoredBytes
  <2> QED  BY <1>0, <1>7, <2>1, <2>2 DEF ScenesRequested, Counted
<1> QED
  BY <1>2, <1>3, <1>4, <1>5, <1>6, <1>7, LedgerStep DEF LedgerMoves

\* A call reaches begin's end by begin only.
LEMMA BegunStep ==
  ASSUME StoreInv, [Next]_vars, NEW t \in Threads, call'[t].pc = "begun"
  PROVE  call'[t] = call[t] \/ begin(t)
<1>1. DOMAIN call = Threads
  BY DEF StoreInv, TypeOK, TypeThreads
<1>2. ASSUME NEW u \in Threads, Transaction(u)
      PROVE  call'[t] = call[t] \/ begin(t)
  <2>1. ASSUME NEW pc, Goto(u, pc), pc # "begun"
        PROVE  call'[t] = call[t]
    BY <2>1, GotoOnly DEF StoreInv
  <2>2. CASE begin(u)
    BY <2>2, GotoOnly DEF begin, StoreInv
  <2>3. \/ call' = call \/ begin(u)
        \/ \E pc \in Pcs \ {"begun"} : Goto(u, pc)
    <3>1. ASSUME NEW name, NEW len, put(u, name, len)  PROVE call' = call
      BY <3>1 DEF put, threadVars
    <3>2. ASSUME NEW w, NEW view, NEW valid, publish(u, w, view, valid)
          PROVE  call' = call
      BY <3>2 DEF publish, threadVars
    <3>3. ASSUME NEW requested, request_projections(u, requested)
          PROVE  Goto(u, "dropping") \/ Goto(u, "invoking")
      BY <3>3 DEF request_projections
    <3>4. ASSUME FinishCheck(u)
          PROVE  Goto(u, "dropping") \/ Goto(u, "validating")
      BY <3>4 DEF FinishCheck
    <3>5. ASSUME NEW accepted, Validate(u, accepted)
          PROVE  Goto(u, "dropping") \/ Goto(u, "publishing")
      BY <3>5 DEF Validate
    <3>6. {"dropping", "invoking", "validating", "publishing", "leaving",
           "finishing", "failing"} \subseteq Pcs \ {"begun"}
      BY DEF Pcs, GuardedPcs, TransactionPcs
    <3>7. ASSUME \/ BeginRefused(u) \/ SetupFails(u)
                 \/ \E pc \in {"finishing", "failing", "dropping"} :
                      ModuleReturns(u, pc)
                 \/ ModuleReturnsPoisoned(u) \/ FinishPublish(u)
                 \/ FinishPoisoned(u) \/ DropTransaction(u)
          PROVE  \E pc \in {"leaving", "finishing", "failing", "dropping"} :
                   Goto(u, pc)
      BY <3>7 DEF BeginRefused, SetupFails, ModuleReturns,
         ModuleReturnsPoisoned, FinishPublish, FinishPoisoned, DropTransaction
    <3>8. ASSUME projection_writer(u)  PROVE call' = call
      BY <3>8 DEF projection_writer, threadVars
    <3> QED
      BY <1>2, <3>1, <3>2, <3>3, <3>4, <3>5, <3>6, <3>7, <3>8 DEF Transaction
  <2> QED  BY <2>1, <2>2, <2>3
<1>3. ASSUME NEW u \in Threads, Guarding(u)  PROVE call'[t] = call[t]
  <2>1. \/ call' = call
        \/ \E new : /\ new.pc # "begun"
                    /\ call' = [call EXCEPT ![u] = new]
    <3>1. CASE AcquireGuard(u)
      <4>1. PICK id : call' = [call EXCEPT ![u] =
                                 [pc |-> Entered(call[u].pc), o |-> call[u].o,
                                  id |-> id, prev |-> tls[u]]]
        BY <3>1, <1>1 DEF AcquireGuard
      <4>2. Entered(call[u].pc) # "begun"
        BY DEF Entered
      <4> QED  BY <4>1, <4>2
    <3>2. CASE ~AcquireGuard(u)
      BY <1>3, <3>2 DEF Guarding, StartPrepare, StartPlan, AcquireDenied,
         LeaveCall, InputReadEnter, ReadEnter, InnerLeave, IdleCall
    <3> QED  BY <3>1, <3>2
  <2> QED  BY <2>1, <1>1
<1>4. ASSUME NEW u \in Threads, Consuming(u)  PROVE call'[t] = call[t]
  <2>1. CASE PlanReturns(u)
    BY <2>1, GotoOnly DEF PlanReturns, StoreInv
  <2>2. CASE ~PlanReturns(u)
    BY <1>4, <2>2 DEF Consuming, open, DropPiece
  <2> QED  BY <2>1, <2>2
<1>5. ASSUME \/ create_owner \/ dispose
             \/ \E o \in Owners : dispose_owner(o)
             \/ \E w \in writers : DropWriter(w)
             \/ UNCHANGED vars
      PROVE  call' = call
  BY <1>5 DEF create_owner, dispose, dispose_owner, DropWriter, vars,
     threadVars
<1> QED  BY <1>2, <1>3, <1>4, <1>5 DEF Next

\* The scenes of a transaction that has not asked for its views stay none:
\* only a writer of that very transaction could add one, from inside it.
LEMMA UntouchedStep ==
  ASSUME StoreInv, InvocationInv, AccountInv, [Next]_vars, NEW t \in Threads
  PROVE  Untouched(t)'
<1> SUFFICES ASSUME call'[t].pc = "begun"
             PROVE  projection'[call'[t].o].scenes = {}
  BY DEF Untouched
<1>1. CASE begin(t)
  <2>1. PICK o \in Owners : o = call[t].o
    BY <1>1, OwnerOfCall DEF StoreInv, begin
  <2>2. /\ phase[o] = "unready" /\ projection' = projection
        /\ call'[t].o = o
    BY <1>1, <2>1, GotoOnly DEF begin, StoreInv
  <2>3. projection[o].scenes = {}
    BY <2>2 DEF AccountInv, Counted
  <2> QED  BY <2>2, <2>3
<1>2. CASE call'[t] = call[t]
  <2>1. call[t].pc = "begun" /\ InTransaction(t)
    BY <1>2 DEF InTransaction, TransactionPcs
  <2>2. PICK o \in Owners : o = call[t].o /\ phase[o] = "staging"
    BY <2>1, StagedOwner
  <2>3. projection[o].scenes = {}
    BY <2>1, <2>2 DEF AccountInv, Untouched
  <2>4. ~SceneAdded(o)
    <3> SUFFICES ASSUME NEW u \in Threads, NEW w \in writers, NEW view,
                        NEW valid, publish(u, w, view, valid), w.o = o
                 PROVE  FALSE
      BY DEF SceneAdded
    <3>1. /\ call[u].pc \in {"invoking", "validating"} /\ ~inner[u].on
          /\ tls[u] = [o |-> w.o, id |-> w.id]
      BY DEF publish, CheckCurrentInvocation
    <3>2. InTransaction(u) /\ HoldsGuard(u)
      BY <3>1 DEF InTransaction, HoldsGuard, GuardedPcs, TransactionPcs
    <3>3. tls[u] = [o |-> call[u].o, id |-> call[u].id]
      BY <3>1, <3>2 DEF InvocationInv, Binding, NestedBound
    <3>4. call[u].o = o
      BY <3>1, <3>3
    <3>5. u = t
      BY <2>1, <2>2, <3>2, <3>4 DEF StoreInv, LifeInv, StagingExclusive
    <3> QED  BY <2>1, <3>1, <3>5
  <2>5. projection'[o].scenes = {}
    BY <2>3, <2>4, LedgerStep
    DEF LedgerMoves, LedgerKept, Ledger, Wiped, PieceAdded, Retained,
        ScenesRequested
  <2> QED  BY <1>2, <2>2, <2>5
<1> QED  BY <1>1, <1>2, BegunStep

LEMMA AccountInit == Init => AccountInv
<1> SUFFICES ASSUME Init  PROVE AccountInv
  OBVIOUS
<1>1. ASSUME NEW o \in Owners  PROVE Counted(o)
  <2>1. /\ pieces[o] = NoPieces /\ projection[o] = NoProjection
        /\ acct[o] = NoAccount /\ diag[o] = NoBytes
    BY DEF Init
  <2>2. StoredBytes(o) = {}
    BY <2>1 DEF StoredBytes, NoPieces
  <2> QED
    BY <2>1, <2>2, FS_EmptySet DEF Counted, NoProjection, NoAccount, NoBytes
<1>2. \A t \in Threads : Untouched(t)
  BY DEF Init, Untouched, IdleCall
<1> QED  BY <1>1, <1>2 DEF AccountInv

LEMMA AccountInvariant == Spec => []AccountInv
<1>1. StoreInv /\ InvocationInv /\ AccountInv /\ [Next]_vars => AccountInv'
  BY CountedStep, UntouchedStep DEF AccountInv
<1> QED
  BY <1>1, AccountInit, StoreInvariant, InvocationInvariant, PTL DEF Spec

\* put, publish, finish and clear keep the byte counters of the report equal to
\* what the owner holds: a faulted put counts nothing, finish moves the staged
\* bytes without losing or doubling any, and an aborted transaction leaves
\* nothing counted for the next one.
THEOREM StoreAccountingExact == Spec => []AccountingExact
<1>1. AccountInv => AccountingExact
  BY DEF AccountInv, Counted, AccountingExact
<1> QED  BY <1>1, AccountInvariant, PTL

=============================================================================
