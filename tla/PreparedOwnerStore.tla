-------------------------- MODULE PreparedOwnerStore --------------------------
(***************************************************************************)
(* The print-scoped store of prepared plans                                *)
(* (slicer-wasm-host/src/preparation_store.rs) and the calls that the      *)
(* native and WASM adapters run over it (preparation_native.rs,            *)
(* preparation_host.rs, preparation.rs).                                   *)
(*                                                                         *)
(* Every critical section of the store's mutex is one action; threads      *)
(* interleave between them.  An early return that changes nothing is a     *)
(* stuttering step and has no action of its own.                           *)
(*                                                                         *)
(* Abstractions: u64 counters saturate at U64Max exactly where the code's  *)
(* checked_add fails; payload bytes are their length; name bytes, the read *)
(* statistics and prepare_invocations, which nothing in the store reads    *)
(* back, are left out; a projection scene is its view and weighs one byte. *)
(***************************************************************************)
EXTENDS Naturals, FiniteSets

CONSTANTS
  Threads,      \* threads that run adapter calls
  MaxOwners,    \* owners a print creates at most (next_owner's u64 limit)
  Names,        \* non-empty piece names
  Lens,         \* piece lengths
  Views,        \* views the frozen declaration declares
  Undeclared,   \* a view it does not declare
  Identities,   \* addresses of live Arc<()> invocation identities
  U64Max        \* limit of the checked u64 counters

ASSUME StoreAssumption ==
  /\ IsFiniteSet(Threads)
  /\ MaxOwners \in Nat
  /\ Lens \subseteq Nat
  /\ Undeclared \notin Views
  /\ "none" \notin Identities
  /\ U64Max \in Nat

Owners == 0 .. (MaxOwners - 1)

VARIABLES
  disposed, next_owner,              \* StoreState
  phase, ready,                      \* per owner: metadata.phase, .ready
  pieces,                            \* staged or retained pieces
  plan,                              \* metadata.pieces, the published names
  acct,                              \* byte counters and put_calls
  diag,                              \* diagnostic staged/retained bytes
  writer_fault, projection_failure,  \* poison of the running transaction
  projection,                        \* requested views and their scenes
  call_identity,                     \* who may write projections
  active_reads,                      \* live ReadGuards
  writers,                           \* retained ProjectionWriter handles
  tls,                               \* ACTIVE_PREPARATION_INVOCATION
  call,                              \* the adapter call of each thread
  inner,                             \* the guard nested in that call
  piece                              \* the PreparedPieceHandle it retains

storeVars == <<disposed, next_owner>>
planVars == <<phase, ready, pieces, plan, acct, diag, writer_fault,
              projection_failure, projection, call_identity>>
threadVars == <<tls, call, inner, piece>>
vars == <<storeVars, planVars, active_reads, writers, threadVars>>

NoIdentity == "none"
NoInvocation == [o |-> 0, id |-> NoIdentity]
NoFault == "none"
NoProjection == [views |-> {}, scenes |-> {}]
NoPiece == [o |-> 0, name |-> "none", id |-> 0, len |-> 0]
IdleCall == [pc |-> "idle", o |-> 0, id |-> NoIdentity, prev |-> NoInvocation]
NoInner == [on |-> FALSE, o |-> 0, bound |-> FALSE, prev |-> NoInvocation]

NoBytes == [staged |-> 0, retained |-> 0]
NoAccount == [staged |-> 0, retained |-> 0, put_calls |-> 0]
NoPieces == [n \in {} |-> 0]

WriterFaults == {"InvalidName", "DuplicateName", "ArithmeticOverflow", "Sdk"}
ProjectionFaults == {"UndeclaredView", "NotRequested", "DuplicateScene",
                     "ArithmeticOverflow", "MissingScene", "Rejected"}

\* Program counters of a call between begin and the transaction's end.
TransactionPcs == {"begun", "invoking", "finishing", "failing", "validating",
                   "publishing", "dropping"}
GuardedPcs == TransactionPcs \cup {"guarded", "plan", "leaving"}
Pcs == GuardedPcs \cup {"idle", "checked_prepare", "checked_plan"}

InTransaction(t) == call[t].pc \in TransactionPcs
HoldsGuard(t) == call[t].pc \in GuardedPcs

-----------------------------------------------------------------------------

\* check_owner: the token's entry exists and neither it nor the store is gone.
CheckOwner(o) == ~disposed /\ phase[o] \notin {"absent", "disposed"}

Poisoned(o) == writer_fault[o] # NoFault \/ projection_failure[o] # NoFault

\* Identities some Arc still holds; a fresh Arc is a different address.
Referenced ==
  {call[t].id : t \in Threads} \cup {tls[t].id : t \in Threads}
    \cup {inner[t].prev.id : t \in Threads} \cup {w.id : w \in writers}
    \cup {call_identity[o] : o \in Owners}

Fresh == Identities \ Referenced

\* add(a, b): None stands for ArithmeticOverflow.
Fits(a, b) == a + b <= U64Max

Init ==
  /\ disposed = FALSE
  /\ next_owner = 0
  /\ phase = [o \in Owners |-> "absent"]
  /\ ready = [o \in Owners |-> FALSE]
  /\ pieces = [o \in Owners |-> NoPieces]
  /\ plan = [o \in Owners |-> NoPieces]
  /\ acct = [o \in Owners |-> NoAccount]
  /\ diag = [o \in Owners |-> NoBytes]
  /\ writer_fault = [o \in Owners |-> NoFault]
  /\ projection_failure = [o \in Owners |-> NoFault]
  /\ projection = [o \in Owners |-> NoProjection]
  /\ call_identity = [o \in Owners |-> NoIdentity]
  /\ active_reads = [o \in Owners |-> 0]
  /\ writers = {}
  /\ tls = [t \in Threads |-> NoInvocation]
  /\ call = [t \in Threads |-> IdleCall]
  /\ inner = [t \in Threads |-> NoInner]
  /\ piece = [t \in Threads |-> NoPiece]

Goto(t, pc) == call' = [call EXCEPT ![t].pc = pc]

create_owner ==
  /\ ~disposed
  /\ next_owner < MaxOwners
  /\ phase' = [phase EXCEPT ![next_owner] = "unready"]
  /\ next_owner' = next_owner + 1
  /\ UNCHANGED <<disposed, ready, pieces, plan, acct, diag, writer_fault,
                 projection_failure, projection, call_identity,
                 active_reads, writers, threadVars>>

-----------------------------------------------------------------------------
(* Entering and leaving a call *)

\* prepare_requested, prepare_wasm: validate_owner, first check of active_guard.
StartPrepare(t, o) ==
  /\ call[t].pc = "idle" /\ ~inner[t].on
  /\ CheckOwner(o)
  /\ call' = [call EXCEPT ![t] = [IdleCall EXCEPT !.pc = "checked_prepare",
                                                  !.o = o]]
  /\ UNCHANGED <<storeVars, planVars, active_reads, writers, tls, inner, piece>>

\* The layer stage asks current() for the plan, then enters with_native_plan
\* or with_wasm_plan.
StartPlan(t, o) ==
  /\ call[t].pc = "idle" /\ ~inner[t].on
  /\ CheckOwner(o)
  /\ ready[o]
  /\ call' = [call EXCEPT ![t] = [IdleCall EXCEPT !.pc = "checked_plan",
                                                  !.o = o]]
  /\ UNCHANGED <<storeVars, planVars, active_reads, writers, tls, inner, piece>>

Entered(pc) == IF pc = "checked_prepare" THEN "guarded" ELSE "plan"

\* active_guard after its check: ReadGuard::acquire and bind_invocation.
AcquireGuard(t) ==
  LET o == call[t].o IN
  /\ call[t].pc \in {"checked_prepare", "checked_plan"}
  /\ CheckOwner(o)
  /\ Fits(active_reads[o], 1)
  /\ active_reads' = [active_reads EXCEPT ![o] = @ + 1]
  /\ \E id \in Fresh :
       /\ tls' = [tls EXCEPT ![t] = [o |-> o, id |-> id]]
       /\ call' = [call EXCEPT ![t] = [pc |-> Entered(@.pc), o |-> o,
                                       id |-> id, prev |-> tls[t]]]
  /\ UNCHANGED <<storeVars, planVars, writers, inner, piece>>

\* The owner was disposed between the check and the acquire.
AcquireDenied(t) ==
  LET o == call[t].o IN
  /\ call[t].pc \in {"checked_prepare", "checked_plan"}
  /\ ~(CheckOwner(o) /\ Fits(active_reads[o], 1))
  /\ call' = [call EXCEPT ![t] = IdleCall]
  /\ UNCHANGED <<storeVars, planVars, active_reads, writers, tls, inner, piece>>

\* Drop for ReadGuard of the whole call.
LeaveCall(t) ==
  /\ call[t].pc = "leaving" /\ ~inner[t].on
  /\ tls' = [tls EXCEPT ![t] = call[t].prev]
  /\ active_reads' = [active_reads EXCEPT ![call[t].o] = @ - 1]
  /\ call' = [call EXCEPT ![t] = IdleCall]
  /\ UNCHANGED <<storeVars, planVars, writers, inner, piece>>

\* A committed-input read inside prepare-print, or the authority check of a
\* WASM host callback, nests a bound guard in the call.
InputReadEnter(t) ==
  LET o == call[t].o IN
  /\ call[t].pc = "invoking" /\ ~inner[t].on
  /\ CheckOwner(o)
  /\ Fits(active_reads[o], 1)
  /\ active_reads' = [active_reads EXCEPT ![o] = @ + 1]
  /\ \E id \in Fresh : tls' = [tls EXCEPT ![t] = [o |-> o, id |-> id]]
  /\ inner' = [inner EXCEPT ![t] = [on |-> TRUE, o |-> o, bound |-> TRUE,
                                    prev |-> tls[t]]]
  /\ UNCHANGED <<storeVars, planVars, writers, call, piece>>

\* PreparedPieceHandle::read acquires an unbound guard; the handle may
\* outlive the call that opened it.
ReadEnter(t) ==
  LET o == piece[t].o IN
  /\ call[t].pc \in {"idle", "plan"} /\ ~inner[t].on
  /\ piece[t] # NoPiece
  /\ CheckOwner(o)
  /\ Fits(active_reads[o], 1)
  /\ active_reads' = [active_reads EXCEPT ![o] = @ + 1]
  /\ inner' = [inner EXCEPT ![t] = [on |-> TRUE, o |-> o, bound |-> FALSE,
                                    prev |-> NoInvocation]]
  /\ UNCHANGED <<storeVars, planVars, writers, tls, call, piece>>

\* Mutant: the nested guard is forgotten without its decrement.
InnerForgotten(t) ==
  /\ inner[t].on
  /\ tls' = [tls EXCEPT ![t] = IF inner[t].bound THEN inner[t].prev ELSE @]
  /\ inner' = [inner EXCEPT ![t] = NoInner]
  /\ UNCHANGED <<storeVars, planVars, active_reads, writers, call, piece>>

\* Mutant: the nested guard clears the invocation instead of restoring it.
InnerUnbinds(t) ==
  /\ inner[t].on
  /\ tls' = [tls EXCEPT ![t] = NoInvocation]
  /\ active_reads' = [active_reads EXCEPT ![inner[t].o] = @ - 1]
  /\ inner' = [inner EXCEPT ![t] = NoInner]
  /\ UNCHANGED <<storeVars, planVars, writers, call, piece>>

\* Drop for the nested ReadGuard.
InnerLeave(t) ==
  /\ inner[t].on
  /\ tls' = [tls EXCEPT ![t] = IF inner[t].bound THEN inner[t].prev ELSE @]
  /\ active_reads' = [active_reads EXCEPT ![inner[t].o] = @ - 1]
  /\ inner' = [inner EXCEPT ![t] = NoInner]
  /\ UNCHANGED <<storeVars, planVars, writers, call, piece>>

-----------------------------------------------------------------------------
(* The preparation transaction *)

\* Mutant: begin accepts an owner that is ready.
BeginAgain(t) ==
  LET o == call[t].o IN
  /\ call[t].pc = "guarded"
  /\ CheckOwner(o)
  /\ phase[o] \in {"unready", "ready"}
  /\ phase' = [phase EXCEPT ![o] = "staging"]
  /\ writer_fault' = [writer_fault EXCEPT ![o] = NoFault]
  /\ projection_failure' = [projection_failure EXCEPT ![o] = NoFault]
  /\ call_identity' = [call_identity EXCEPT ![o] = tls[t].id]
  /\ Goto(t, "begun")
  /\ UNCHANGED <<storeVars, ready, pieces, plan, acct, diag, projection,
                 active_reads, writers, tls, inner, piece>>

\* begin, under the call's guard: call_identity is the bound invocation's.
begin(t) ==
  LET o == call[t].o IN
  /\ call[t].pc = "guarded"
  /\ CheckOwner(o)
  /\ phase[o] = "unready"
  /\ phase' = [phase EXCEPT ![o] = "staging"]
  /\ writer_fault' = [writer_fault EXCEPT ![o] = NoFault]
  /\ projection_failure' = [projection_failure EXCEPT ![o] = NoFault]
  /\ call_identity' = [call_identity EXCEPT ![o] = tls[t].id]
  /\ Goto(t, "begun")
  /\ UNCHANGED <<storeVars, ready, pieces, plan, acct, diag, projection,
                 active_reads, writers, tls, inner, piece>>

\* begin answers AlreadyStarted.
BeginRefused(t) ==
  /\ call[t].pc = "guarded"
  /\ phase[call[t].o] # "unready"
  /\ Goto(t, "leaving")
  /\ UNCHANGED <<storeVars, planVars, active_reads, writers, tls, inner, piece>>

request_projections(t, requested) ==
  LET o == call[t].o IN
  /\ call[t].pc = "begun"
  /\ CheckOwner(o)
  /\ projection' = [projection EXCEPT ![o] =
                      IF requested = {} THEN @
                      ELSE [views |-> requested, scenes |-> {}]]
  /\ IF Undeclared \in requested
       THEN /\ projection_failure' =
                 [projection_failure EXCEPT ![o] = "UndeclaredView"]
            /\ Goto(t, "dropping")
       ELSE Goto(t, "invoking") /\ UNCHANGED projection_failure
  /\ UNCHANGED <<storeVars, phase, ready, pieces, plan, acct, diag,
                 writer_fault, call_identity, active_reads, writers,
                 tls, inner, piece>>

\* The projection schedule, or the WASM call's resource table, cannot be built.
SetupFails(t) ==
  /\ call[t].pc = "begun"
  /\ Goto(t, "dropping")
  /\ UNCHANGED <<storeVars, planVars, active_reads, writers, tls, inner, piece>>

PutFault(o, name, len) ==
  IF name = "" THEN "InvalidName"
  ELSE IF name \in DOMAIN pieces[o] THEN "DuplicateName"
  ELSE IF ~Fits(acct[o].staged, len) \/ ~Fits(acct[o].put_calls, 1)
       THEN "ArithmeticOverflow"
  ELSE NoFault

\* Mutant: piece ids are the last index instead of the next one.
PutPiecesLast(o, name, len) ==
  LET n0 == Cardinality(DOMAIN pieces[o]) IN
  [n \in DOMAIN pieces[o] \cup {name} |->
     IF n = name THEN [id |-> IF n0 = 0 THEN 0 ELSE n0 - 1, len |-> len]
     ELSE pieces[o][n]]

PutPieces(o, name, len) ==
  [n \in DOMAIN pieces[o] \cup {name} |->
     IF n = name THEN [id |-> Cardinality(DOMAIN pieces[o]), len |-> len]
     ELSE pieces[o][n]]

\* Mutant: the bytes are counted before the checks.
PutCountsFirst(t, name, len) ==
  LET o == call[t].o
      fault == PutFault(o, name, len) IN
  /\ call[t].pc = "invoking" /\ ~inner[t].on
  /\ CheckOwner(o)
  /\ ~Poisoned(o)
  /\ Fits(acct[o].staged, len)
  /\ acct' = [acct EXCEPT ![o].staged = @ + len]
  /\ IF fault = NoFault
       THEN /\ pieces' = [pieces EXCEPT ![o] = PutPieces(o, name, len)]
            /\ UNCHANGED writer_fault
       ELSE /\ writer_fault' = [writer_fault EXCEPT ![o] = fault]
            /\ UNCHANGED pieces
  /\ UNCHANGED <<storeVars, phase, ready, plan, diag, projection_failure,
                 projection, call_identity, active_reads, writers, threadVars>>

\* put: all fallible checks precede the mutation; a fault poisons the output.
put(t, name, len) ==
  LET o == call[t].o
      fault == PutFault(o, name, len) IN
  /\ call[t].pc = "invoking" /\ ~inner[t].on
  /\ CheckOwner(o)
  /\ ~Poisoned(o)
  /\ IF fault = NoFault
       THEN /\ pieces' = [pieces EXCEPT ![o] = PutPieces(o, name, len)]
            /\ acct' = [acct EXCEPT ![o] =
                          [staged |-> @.staged + len, retained |-> @.retained,
                           put_calls |-> @.put_calls + 1]]
            /\ UNCHANGED writer_fault
       ELSE /\ writer_fault' = [writer_fault EXCEPT ![o] = fault]
            /\ UNCHANGED <<pieces, acct>>
  /\ UNCHANGED <<storeVars, phase, ready, plan, diag, projection_failure,
                 projection, call_identity, active_reads, writers, threadVars>>

\* projection_writer: forwarding authority the module may keep beyond the
\* call.  stale is history: it becomes TRUE when the transaction ends.
projection_writer(t) ==
  LET o == call[t].o IN
  /\ call[t].pc = "invoking" /\ ~inner[t].on
  /\ CheckOwner(o)
  /\ call_identity[o] # NoIdentity
  /\ projection[o] # NoProjection
  /\ writers' = writers \cup {[o |-> o, id |-> call_identity[o],
                               stale |-> FALSE]}
  /\ UNCHANGED <<storeVars, planVars, active_reads, threadVars>>

DropWriter(w) ==
  /\ writers' = writers \ {w}
  /\ UNCHANGED <<storeVars, planVars, active_reads, threadVars>>

Outlive(o) == {IF w.o = o THEN [w EXCEPT !.stale = TRUE] ELSE w : w \in writers}

\* check_current_invocation: the calling thread is inside the writer's call.
CheckCurrentInvocation(t, w) == tls[t] = [o |-> w.o, id |-> w.id]

\* Mutant: any staging transaction of the owner accepts any writer.
AuthorisedByPhase(w) == CheckOwner(w.o) /\ phase[w.o] = "staging"

\* with_entry's authority check.
Authorised(w) ==
  /\ CheckOwner(w.o)
  /\ call_identity[w.o] = w.id
  /\ phase[w.o] = "staging"

PublishFault(o, view, valid) ==
  IF view = Undeclared THEN "UndeclaredView"
  ELSE IF view \notin projection[o].views THEN "NotRequested"
  ELSE IF view \in projection[o].scenes THEN "DuplicateScene"
  ELSE IF ~valid THEN "Rejected"
  ELSE IF ~Fits(diag[o].staged, 1) THEN "ArithmeticOverflow"
  ELSE NoFault

\* publish, possibly from a sink the module kept until the validator runs;
\* valid is validate_scene's verdict on the scene's geometry and references.
publish(t, w, view, valid) ==
  LET o == w.o
      fault == PublishFault(o, view, valid) IN
  /\ w \in writers
  /\ call[t].pc \in {"invoking", "validating"} /\ ~inner[t].on
  /\ CheckCurrentInvocation(t, w)
  /\ Authorised(w)
  /\ ~Poisoned(o)
  /\ IF fault = NoFault
       THEN /\ projection' = [projection EXCEPT ![o].scenes = @ \cup {view}]
            /\ diag' = [diag EXCEPT ![o].staged = @ + 1]
            /\ UNCHANGED projection_failure
       ELSE /\ projection_failure' = [projection_failure EXCEPT ![o] = fault]
            /\ UNCHANGED <<projection, diag>>
  /\ UNCHANGED <<storeVars, phase, ready, pieces, plan, acct, writer_fault,
                 call_identity, active_reads, writers, threadVars>>

\* The module returns.  "failing": an input or transport error; finish looks
\* at the poison first and returns the error after it.
ModuleReturns(t, pc) ==
  /\ call[t].pc = "invoking" /\ ~inner[t].on
  /\ Goto(t, pc)
  /\ UNCHANGED <<storeVars, planVars, active_reads, writers, tls, inner, piece>>

\* A fault the SDK raised before it reached put: record_writer_fault, then
\* finish with PoisonedOutput.
ModuleReturnsPoisoned(t) ==
  LET o == call[t].o IN
  /\ call[t].pc = "invoking" /\ ~inner[t].on
  /\ CheckOwner(o)
  /\ writer_fault' = [writer_fault EXCEPT ![o] = IF @ = NoFault THEN "Sdk" ELSE @]
  /\ Goto(t, "failing")
  /\ UNCHANGED <<storeVars, phase, ready, pieces, plan, acct, diag,
                 projection_failure, projection, call_identity,
                 active_reads, writers, tls, inner, piece>>

\* The projection verdict of finish's first critical section.
FinishFault(o) ==
  IF projection_failure[o] # NoFault THEN projection_failure[o]
  ELSE IF ~Fits(diag[o].retained, diag[o].staged) THEN "ArithmeticOverflow"
  ELSE IF ~(projection[o].views \subseteq projection[o].scenes)
       THEN "MissingScene"
  ELSE NoFault

\* finish up to the validator: the staging description is taken here.
FinishCheck(t) ==
  LET o == call[t].o
      fault == FinishFault(o) IN
  /\ call[t].pc \in {"finishing", "failing"}
  /\ CheckOwner(o)
  /\ IF writer_fault[o] # NoFault
       THEN Goto(t, "dropping") /\ UNCHANGED projection_failure
       ELSE /\ projection_failure' = [projection_failure EXCEPT ![o] = fault]
            /\ Goto(t, IF fault = NoFault /\ call[t].pc = "finishing"
                         THEN "validating" ELSE "dropping")
  /\ UNCHANGED <<storeVars, phase, ready, pieces, plan, acct, diag,
                 writer_fault, projection, call_identity, active_reads,
                 writers, tls, inner, piece>>

\* The caller's validator answers, with no store lock held.
Validate(t, accepted) ==
  /\ call[t].pc = "validating"
  /\ Goto(t, IF accepted /\ phase[call[t].o] = "staging"
               THEN "publishing" ELSE "dropping")
  /\ UNCHANGED <<storeVars, planVars, active_reads, writers, tls, inner, piece>>

\* Mutant: finish publishes without the recheck after the validator.
FinishUnchecked(t) ==
  LET o == call[t].o IN
  /\ call[t].pc = "publishing"
  /\ CheckOwner(o)
  /\ diag' = [diag EXCEPT ![o] = [staged |-> 0,
                                  retained |-> @.retained + @.staged]]
  /\ call_identity' = [call_identity EXCEPT ![o] = NoIdentity]
  /\ plan' = [plan EXCEPT ![o] = pieces[o]]
  /\ acct' = [acct EXCEPT ![o] = [staged |-> 0, retained |-> @.staged,
                                  put_calls |-> @.put_calls]]
  /\ phase' = [phase EXCEPT ![o] = "ready"]
  /\ ready' = [ready EXCEPT ![o] = TRUE]
  /\ writers' = Outlive(o)
  /\ Goto(t, "leaving")
  /\ UNCHANGED <<storeVars, pieces, writer_fault, projection_failure,
                 projection, active_reads, tls, inner, piece>>

\* finish after the validator: recheck the poison, then publish at once.
FinishPublish(t) ==
  LET o == call[t].o IN
  /\ call[t].pc = "publishing"
  /\ CheckOwner(o)
  /\ ~Poisoned(o)
  /\ Fits(diag[o].retained, diag[o].staged)
  /\ diag' = [diag EXCEPT ![o] = [staged |-> 0,
                                  retained |-> @.retained + @.staged]]
  /\ call_identity' = [call_identity EXCEPT ![o] = NoIdentity]
  /\ plan' = [plan EXCEPT ![o] = pieces[o]]
  /\ acct' = [acct EXCEPT ![o] = [staged |-> 0, retained |-> @.staged,
                                  put_calls |-> @.put_calls]]
  /\ phase' = [phase EXCEPT ![o] = "ready"]
  /\ ready' = [ready EXCEPT ![o] = TRUE]
  /\ writers' = Outlive(o)
  /\ Goto(t, "leaving")
  /\ UNCHANGED <<storeVars, pieces, writer_fault, projection_failure,
                 projection, active_reads, tls, inner, piece>>

FinishPoisoned(t) ==
  LET o == call[t].o IN
  /\ call[t].pc = "publishing"
  /\ Poisoned(o) \/ ~Fits(diag[o].retained, diag[o].staged)
  /\ projection_failure' = [projection_failure EXCEPT ![o] =
                              IF Poisoned(o) THEN @ ELSE "ArithmeticOverflow"]
  /\ Goto(t, "dropping")
  /\ UNCHANGED <<storeVars, phase, ready, pieces, plan, acct, diag,
                 writer_fault, projection, call_identity, active_reads,
                 writers, tls, inner, piece>>

-----------------------------------------------------------------------------
(* clear(entry, to) of the owners in S, and its two users *)

\* Fault fields survive an abort so that the caller can query them; the
\* cumulative put_calls survives both.
Clear(S, to) ==
  /\ pieces' = [o \in Owners |-> IF o \in S THEN NoPieces ELSE pieces[o]]
  /\ plan' = [o \in Owners |-> IF o \in S THEN NoPieces ELSE plan[o]]
  /\ projection' = [o \in Owners |-> IF o \in S THEN NoProjection
                                     ELSE projection[o]]
  /\ call_identity' = [o \in Owners |-> IF o \in S THEN NoIdentity
                                        ELSE call_identity[o]]
  /\ diag' = [o \in Owners |-> IF o \in S THEN NoBytes ELSE diag[o]]
  /\ acct' = [o \in Owners |->
                IF o \in S THEN [NoAccount EXCEPT !.put_calls = acct[o].put_calls]
                ELSE acct[o]]
  /\ phase' = [o \in Owners |-> IF o \in S THEN to ELSE phase[o]]
  /\ ready' = [o \in Owners |-> o \notin S /\ ready[o]]
  /\ projection_failure' =
       [o \in Owners |-> IF o \in S /\ to = "disposed" THEN NoFault
                         ELSE projection_failure[o]]
  /\ UNCHANGED writer_fault

\* Drop for PreparationTransaction that did not complete.
DropTransaction(t) ==
  LET o == call[t].o IN
  /\ call[t].pc = "dropping"
  /\ CheckOwner(o)
  /\ Clear({o}, "unready")
  /\ writers' = Outlive(o)
  /\ Goto(t, "leaving")
  /\ UNCHANGED <<storeVars, active_reads, tls, inner, piece>>

Busy(o) == phase[o] = "staging" \/ active_reads[o] # 0

\* try_lock: contention answers Busy, which changes nothing.
dispose_owner(o) ==
  /\ CheckOwner(o)
  /\ ~Busy(o)
  /\ Clear({o}, "disposed")
  /\ UNCHANGED <<storeVars, active_reads, writers, threadVars>>

\* Mutant: one idle owner is enough.
DisposeAny ==
  /\ \E o \in Owners : ~Busy(o)
  /\ Clear({o \in Owners : phase[o] # "absent"}, "disposed")
  /\ disposed' = TRUE
  /\ UNCHANGED <<next_owner, active_reads, writers, threadVars>>

dispose ==
  /\ \A o \in Owners : ~Busy(o)
  /\ Clear({o \in Owners : phase[o] # "absent"}, "disposed")
  /\ disposed' = TRUE
  /\ UNCHANGED <<next_owner, active_reads, writers, threadVars>>

-----------------------------------------------------------------------------
(* Consuming a published plan *)

open(t, name) ==
  LET o == call[t].o IN
  /\ call[t].pc = "plan" /\ ~inner[t].on
  /\ CheckOwner(o)
  /\ ready[o]
  /\ name \in DOMAIN pieces[o]
  /\ piece' = [piece EXCEPT ![t] = [o |-> o, name |-> name,
                                    id |-> pieces[o][name].id,
                                    len |-> pieces[o][name].len]]
  /\ UNCHANGED <<storeVars, planVars, active_reads, writers, tls, call, inner>>

DropPiece(t) ==
  /\ piece[t] # NoPiece /\ ~inner[t].on
  /\ piece' = [piece EXCEPT ![t] = NoPiece]
  /\ UNCHANGED <<storeVars, planVars, active_reads, writers, tls, call, inner>>

PlanReturns(t) ==
  /\ call[t].pc = "plan" /\ ~inner[t].on
  /\ Goto(t, "leaving")
  /\ UNCHANGED <<storeVars, planVars, active_reads, writers, tls, inner, piece>>

-----------------------------------------------------------------------------

Transaction(t) ==
  \/ begin(t) \/ BeginRefused(t) \/ SetupFails(t)
  \/ \E requested \in SUBSET (Views \cup {Undeclared}) :
       request_projections(t, requested)
  \/ \E name \in Names \cup {""}, len \in Lens : put(t, name, len)
  \/ projection_writer(t)
  \/ \E w \in writers, view \in Views \cup {Undeclared}, valid \in BOOLEAN :
       publish(t, w, view, valid)
  \/ \E pc \in {"finishing", "failing", "dropping"} : ModuleReturns(t, pc)
  \/ ModuleReturnsPoisoned(t)
  \/ FinishCheck(t)
  \/ \E accepted \in BOOLEAN : Validate(t, accepted)
  \/ FinishPublish(t) \/ FinishPoisoned(t)
  \/ DropTransaction(t)

Guarding(t) ==
  \/ \E o \in Owners : StartPrepare(t, o) \/ StartPlan(t, o)
  \/ AcquireGuard(t) \/ AcquireDenied(t) \/ LeaveCall(t)
  \/ InputReadEnter(t) \/ ReadEnter(t) \/ InnerLeave(t)

Consuming(t) ==
  \/ \E name \in Names : open(t, name)
  \/ DropPiece(t) \/ PlanReturns(t)

Next ==
  \/ create_owner
  \/ \E t \in Threads : Transaction(t) \/ Guarding(t) \/ Consuming(t)
  \/ \E w \in writers : DropWriter(w)
  \/ \E o \in Owners : dispose_owner(o)
  \/ dispose

Spec == Init /\ [][Next]_vars

-----------------------------------------------------------------------------
(* Properties *)

Piece == [id : Nat, len : Nat]
Invocation == [o : Owners, id : Identities \cup {NoIdentity}] \cup {NoInvocation}

TypeStore ==
  /\ disposed \in BOOLEAN
  /\ next_owner \in 0 .. MaxOwners
  /\ active_reads \in [Owners -> Nat]
  /\ writers \subseteq [o : Owners, id : Identities \cup {NoIdentity},
                        stale : BOOLEAN]

TypePlan ==
  /\ phase \in [Owners -> {"absent", "unready", "staging", "ready", "disposed"}]
  /\ ready \in [Owners -> BOOLEAN]
  /\ DOMAIN pieces = Owners /\ DOMAIN plan = Owners
  /\ \A o \in Owners : /\ IsFiniteSet(DOMAIN pieces[o])
                       /\ DOMAIN pieces[o] \subseteq Names
                       /\ \A n \in DOMAIN pieces[o] : pieces[o][n] \in Piece
  /\ acct \in [Owners -> [staged : Nat, retained : Nat, put_calls : Nat]]
  /\ diag \in [Owners -> [staged : Nat, retained : Nat]]
  /\ writer_fault \in [Owners -> WriterFaults \cup {NoFault}]
  /\ projection_failure \in [Owners -> ProjectionFaults \cup {NoFault}]
  /\ projection \in [Owners -> [views : SUBSET (Views \cup {Undeclared}),
                                scenes : SUBSET (Views \cup {Undeclared})]]
  /\ call_identity \in [Owners -> Identities \cup {NoIdentity}]

TypeThreads ==
  /\ tls \in [Threads -> Invocation]
  /\ call \in [Threads -> [pc : Pcs, o : Owners \cup {0},
                           id : Identities \cup {NoIdentity},
                           prev : Invocation]]
  /\ \A t \in Threads : call[t].pc # "idle" => call[t].o \in Owners
  /\ inner \in [Threads -> [on : BOOLEAN, o : Owners \cup {0},
                            bound : BOOLEAN, prev : Invocation]]
  /\ \A t \in Threads : inner[t].on => inner[t].o \in Owners
  /\ piece \in [Threads -> [o : Owners, name : Names, id : Nat, len : Nat]
                           \cup {NoPiece}]

\* The type of every variable of the store and of its threads.
TypeOK == TypeStore /\ TypePlan /\ TypeThreads

Callers(o) == {t \in Threads : HoldsGuard(t) /\ call[t].o = o}
Readers(o) == {t \in Threads : inner[t].on /\ inner[t].o = o}

\* active_reads counts exactly the guards that are alive, whole calls and
\* nested reads together, so ReadGuard's drop never finds it at zero (its
\* expect("balanced read guard")) and disposal is never refused forever.
GuardBalance ==
  \A o \in Owners :
    active_reads[o] = Cardinality(Callers(o)) + Cardinality(Readers(o))

\* An owner is staging exactly while one thread runs a transaction on it:
\* begin cannot start a second one, and no exit path (module error, trap,
\* poison, rejected publication) leaves the owner staging behind it.
StagingExclusive ==
  \A o \in Owners :
    /\ phase[o] = "staging" <=> \E t \in Threads : InTransaction(t) /\ call[t].o = o
    /\ \A t, u \in Threads :
         InTransaction(t) /\ InTransaction(u) /\ call[t].o = o /\ call[u].o = o
           => t = u

\* Neither dispose nor dispose_owner takes an owner away from a call or a read
\* that got past its guard, although both run between that call's locks.
NoDisposalUnderCall ==
  \A t \in Threads :
    /\ HoldsGuard(t) => CheckOwner(call[t].o)
    /\ inner[t].on => CheckOwner(inner[t].o)

\* What readers see is a whole publication: the names published are the pieces
\* stored, nothing of the transaction is left staged, every requested view has
\* its scene, and no poisoned transaction was published.
PublishedWhole ==
  \A o \in Owners : ready[o] =>
    /\ phase[o] = "ready"
    /\ plan[o] = pieces[o]
    /\ acct[o].staged = 0 /\ diag[o].staged = 0
    /\ projection[o].views = projection[o].scenes
    /\ ~Poisoned(o)
    /\ call_identity[o] = NoIdentity

\* A piece handle that can still be read resolves, by the id it captured, to
\* the piece it was opened for and to no other.
HandleFaithful ==
  \A t \in Threads :
    LET h == piece[t] IN
    h # NoPiece /\ CheckOwner(h.o) =>
      /\ ready[h.o]
      /\ {n \in DOMAIN pieces[h.o] : pieces[h.o][n].id = h.id} = {h.name}
      /\ pieces[h.o][h.name].len = h.len

\* A projection writer kept beyond its transaction cannot write into a later
\* transaction of the same owner, even when addresses are reused.
StaleWriterPowerless ==
  \A w \in writers : w.stale => ~Authorised(w)

\* Outside nested reads the thread-local invocation is the one of the call
\* the thread is in, and the transaction it runs belongs to that invocation.
InvocationRestored ==
  \A t \in Threads : ~inner[t].on \/ ~inner[t].bound =>
    /\ tls[t] = IF HoldsGuard(t) THEN [o |-> call[t].o, id |-> call[t].id]
                ELSE NoInvocation
    /\ InTransaction(t) => call_identity[call[t].o] = call[t].id

\* The bytes the pieces of an owner hold, each by its piece and offset.
StoredBytes(o) ==
  UNION {{n} \X (1 .. pieces[o][n].len) : n \in DOMAIN pieces[o]}

\* The byte counters a report shows are exact: while staging they count the
\* bytes of the staged pieces, once published those of the retained ones, and
\* the diagnostic bytes count the scenes, whatever was aborted before.
AccountingExact ==
  \A o \in Owners :
    /\ acct[o].staged + acct[o].retained = Cardinality(StoredBytes(o))
    /\ diag[o].staged + diag[o].retained = Cardinality(projection[o].scenes)

\* A published plan is immutable: pieces, names and scenes stay as they are
\* until the owner is disposed, which only happens with no guard on it.
PublishedImmutable ==
  [][\A o \in Owners : ready[o] =>
       \/ ready'[o] /\ UNCHANGED <<pieces[o], plan[o], projection[o]>>
       \/ phase'[o] = "disposed" /\ active_reads[o] = 0]_vars

-----------------------------------------------------------------------------
(* The store implements the abstract authority. *)

Authority == INSTANCE PreparationAuthority
               WITH status <- phase, calls <- active_reads, closed <- disposed

\* Every step of the store is a step the abstract authority allows.
ImplementsAuthority == Authority!ASpec
=============================================================================
