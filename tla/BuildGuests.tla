------------------------------ MODULE BuildGuests ------------------------------
(***************************************************************************)
(* cargo xtask build-guests: which guest components are rebuilt, and when  *)
(* one may be called fresh.  The disk survives a crash of the command; the *)
(* sources, the canonical WIT and the toolchain change under it.           *)
(*                                                                         *)
(* A file is abstracted to the versions of what it was made from.  The     *)
(* sources of a guest are its whole code-input closure.  An ordinary and   *)
(* an accelerated build have target directories, components and sidecars   *)
(* of their own, so a behaviour is of one mode.                            *)
(***************************************************************************)
EXTENDS Naturals, Sequences

CONSTANTS Guests,       \* the discovered guests, in their order
          Version,      \* of a guest's sources, of the WIT and of the tools
          First,        \* the versions of the checkout
          MaxEdits,     \* changes of the inputs
          MaxFaults,    \* crashes and failing tools
          None, Torn

Guest == {Guests[i] : i \in 1 .. Len(Guests)}
Kind == {"check", "build", "force"}

\* What a component, and what its sidecar, was made from.
Build == [src : Version, wit : Version, tool : Version]
Fingerprint == [src : Version, tool : Version]

ASSUME BuildAssumption ==
  /\ Guests \in Seq(Guest)
  /\ First \in Version
  /\ None \notin {0} \cup Version \cup Build \cup Fingerprint
  /\ Torn \notin {None} \cup Build
  /\ MaxEdits \in Nat /\ MaxFaults \in Nat

VARIABLES
  mode,            \* "ordinary" or "accelerated"
  src, wit, tool,  \* the inputs as they are now
  macros,          \* the WIT in the cached proc-macro, or None
  artifact,        \* per guest: a component, Torn or None
  side,            \* the fingerprint sidecar: [src, tool] or None
  ident,           \* the accelerated identity: the tools' version or None
  latch,           \* the accelerated session's rejection marker exists
  pc,              \* where the command is, "idle" between commands
  job,             \* [kind, probe, canonical]: its Invocation
  todo, stale,     \* the guests ahead of it, the ones found stale
  built,           \* what the last cargo build produced
  retried,         \* the second attempt at the guest
  code,            \* the exit code of the last command, or None
  steady,          \* no input has changed since the command started
  raced,           \* per guest: an input changed during its build
  edits, faults    \* how many there were

disk == <<macros, artifact, side, ident, latch>>
inputs == <<mode, src, wit, tool, edits>>
command == <<pc, job, todo, stale, built, retried, code>>
vars == <<inputs, disk, command, steady, raced, faults>>

Init ==
  /\ mode \in {"ordinary", "accelerated"}
  /\ src = [g \in Guest |-> First] /\ wit = First /\ tool = First
  /\ macros = None
  /\ artifact = [g \in Guest |->
                   IF mode = "ordinary"
                   THEN [src |-> First, wit |-> First, tool |-> First]
                   ELSE None]
  /\ side = [g \in Guest |-> None]
  /\ ident = [g \in Guest |-> None]
  /\ latch = FALSE
  /\ pc = "idle"
  /\ job = None /\ todo = <<>> /\ stale = <<>>
  /\ built = None /\ retried = FALSE /\ code = None
  /\ steady = FALSE
  /\ raced = [g \in Guest |-> FALSE]
  /\ edits = 0 /\ faults = 0

-----------------------------------------------------------------------------
(* Freshness.                                                              *)

Component(g) == artifact[g] \notin {None, Torn}

Accelerated == mode = "accelerated"

\* stale_reason_with_mode.
Stale(g, canonical, probe) ==
  \/ ~Component(g)
  \/ side[g] # [src |-> src[g], tool |-> probe]
  \/ Accelerated /\ ident[g] # probe
  \/ artifact[g].wit # canonical

-----------------------------------------------------------------------------
(* The command.                                                            *)

Current == Head(todo)

\* The command ends with this code.
Exit(c) == /\ pc' = "idle"
           /\ code' = c
           /\ todo' = <<>> /\ stale' = <<>>
           /\ built' = None /\ retried' = FALSE
           /\ UNCHANGED job

Fault == faults < MaxFaults /\ faults' = faults + 1

\* A command starts: the tools are probed and the canonical WIT is parsed,
\* once for the whole command.
Start(kind) ==
  /\ pc = "idle"
  /\ pc' = IF kind = "force" THEN "build" ELSE "check"
  /\ job' = [kind |-> kind, probe |-> tool, canonical |-> wit]
  /\ todo' = Guests /\ stale' = <<>> /\ code' = None
  /\ built' = None /\ retried' = FALSE
  /\ latch' = (latch /\ (~Accelerated \/ kind = "check"))
  /\ steady' = TRUE
  /\ UNCHANGED <<inputs, macros, artifact, side, ident, raced, faults>>

\* wasm-tools or the canonical WIT cannot be read: an infrastructure error.
StartFails ==
  /\ pc \in {"check", "build"} /\ todo = Guests /\ stale = <<>>
  /\ (pc = "check" <=> job.kind # "force")
  /\ Exit(IF pc = "check" THEN 3 ELSE 1)
  /\ Fault
  /\ UNCHANGED <<inputs, disk, steady, raced>>

CheckGuest ==
  /\ pc = "check" /\ todo # <<>>
  /\ stale' = IF Stale(Current, job.canonical, job.probe)
              THEN Append(stale, Head(todo)) ELSE stale
  /\ todo' = Tail(todo)
  /\ UNCHANGED <<inputs, disk, pc, job, built, retried, code, steady, raced,
                 faults>>

\* The check reports a stale guest, or lockfiles that diverge.
CheckEnds ==
  /\ pc = "check" /\ todo = <<>>
  /\ \/ /\ job.kind = "check"
        /\ \E diverged \in BOOLEAN :
             Exit(IF stale = <<>> /\ ~diverged THEN 0 ELSE 1)
     \/ /\ job.kind = "build"
        /\ pc' = "build" /\ todo' = stale
        /\ UNCHANGED <<job, stale, built, retried, code>>
  /\ UNCHANGED <<inputs, disk, steady, raced, faults>>

\* Every guest is built; an accelerated result is refused if the session was
\* latched.
BuildEnds ==
  /\ pc = "build" /\ todo = <<>>
  /\ Exit(IF Accelerated /\ latch THEN 1 ELSE 0)
  /\ UNCHANGED <<inputs, disk, steady, raced, faults>>

\* Mutant: the sidecars stay until they are overwritten.
RemoveNothing == UNCHANGED <<side, ident>>

RemoveSidecars == /\ side' = [side EXCEPT ![Current] = None]
                  /\ ident' = [ident EXCEPT ![Current] = None]

\* build_one: the sidecars go first.
BuildStarts ==
  /\ pc = "build" /\ todo # <<>>
  /\ RemoveSidecars
  /\ pc' = "cargo" /\ retried' = FALSE
  /\ UNCHANGED <<inputs, macros, artifact, latch, job, todo, stale, built,
                 code, steady, raced, faults>>

\* cargo compiles the sources and with the tools of this moment.  Whether it
\* notices that the WIT changed is its own affair, unless it has no
\* proc-macro cached.
Compile ==
  \E w \in {macros, wit} \ {None} :
    /\ macros' = w
    /\ built' = [src |-> src[Current], wit |-> w, tool |-> tool]
    /\ raced' = [raced EXCEPT ![Current] = (tool # job.probe)]

CargoBuild ==
  /\ pc = "cargo"
  /\ Compile
  /\ pc' = "component"
  /\ UNCHANGED <<inputs, artifact, side, ident, latch, job, todo, stale,
                 retried, code, steady, faults>>

\* The compiler driver refuses an invocation and latches the session, and a
\* build script swallows the refusal.
PolicyRejects ==
  /\ pc = "cargo" /\ Accelerated
  /\ latch' = TRUE
  /\ Compile
  /\ pc' = "component"
  /\ Fault
  /\ UNCHANGED <<inputs, artifact, side, ident, job, todo, stale, retried,
                 code, steady>>

\* Mutant: the loop goes on with the next guest.
GuestSkipped ==
  /\ pc' = "build" /\ todo' = Tail(todo)
  /\ UNCHANGED <<job, stale, built, retried, code>>

\* The first error ends the command.
GuestFails == Exit(1)

CargoFails ==
  /\ pc = "cargo"
  /\ GuestFails
  /\ Fault
  /\ UNCHANGED <<inputs, disk, steady, raced>>

\* wasm-tools writes the component; an accelerated session that is latched
\* ends here.
WriteComponent ==
  /\ pc = "component"
  /\ artifact' = [artifact EXCEPT ![Current] = built]
  /\ \/ Accelerated /\ latch /\ GuestFails
     \/ /\ ~(Accelerated /\ latch)
        /\ pc' = "verify"
        /\ UNCHANGED <<job, todo, stale, built, retried, code>>
  /\ UNCHANGED <<inputs, macros, side, ident, latch, steady, raced, faults>>

ComponentFails ==
  /\ pc = "component"
  /\ \E a \in {artifact[Current], Torn} :
       artifact' = [artifact EXCEPT ![Current] = a]
  /\ GuestFails
  /\ Fault
  /\ UNCHANGED <<inputs, macros, side, ident, latch, steady, raced>>

\* The component embeds the canonical world.
Verified ==
  /\ pc = "verify"
  /\ artifact[Current].wit = job.canonical
  /\ pc' = "write"
  /\ UNCHANGED <<inputs, disk, job, todo, stale, built, retried, code, steady,
                 raced, faults>>

\* Mutant: another target directory is cleaned.
CleanElsewhere == UNCHANGED macros

Clean == macros' = None

\* It does not: the proc-macro's cached build is discarded, whether or not
\* cargo can, and the guest built once more.
Rebuild ==
  /\ pc = "verify" /\ ~retried
  /\ artifact[Current].wit # job.canonical
  /\ retried' = TRUE /\ pc' = "cargo"
  /\ \/ Clean /\ UNCHANGED faults
     \/ Fault /\ UNCHANGED macros
  /\ UNCHANGED <<inputs, artifact, side, ident, latch, job, todo, stale,
                 built, code, steady, raced>>

\* It still does not, or it cannot be decoded or is of another stage.
VerifyFails ==
  /\ pc = "verify"
  /\ \/ retried /\ artifact[Current].wit # job.canonical /\ UNCHANGED faults
     \/ Fault
  /\ RemoveSidecars
  /\ GuestFails
  /\ UNCHANGED <<inputs, macros, artifact, latch, steady, raced>>

NextGuest == pc' = "build" /\ todo' = Tail(todo)

\* The fingerprint is taken of the sources as they are now, and of the tools
\* as they were probed.
WriteFingerprint ==
  /\ pc = "write"
  /\ side' = [side EXCEPT ![Current] =
                [src |-> src[Current], tool |-> job.probe]]
  /\ IF Accelerated THEN pc' = "identity" /\ UNCHANGED todo ELSE NextGuest
  /\ UNCHANGED <<inputs, macros, artifact, ident, latch, job, stale, built,
                 retried, code, steady, raced, faults>>

WriteIdentity ==
  /\ pc = "identity"
  /\ ident' = [ident EXCEPT ![Current] = job.probe]
  /\ NextGuest
  /\ UNCHANGED <<inputs, macros, artifact, side, latch, job, stale, built,
                 retried, code, steady, raced, faults>>

WriteFails ==
  /\ pc \in {"write", "identity"}
  /\ GuestFails
  /\ Fault
  /\ UNCHANGED <<inputs, disk, steady, raced>>

-----------------------------------------------------------------------------
(* What happens to the command.                                            *)

\* The process dies; a component that was being written is torn.
Crash ==
  /\ pc # "idle"
  /\ Exit(None)
  /\ \/ UNCHANGED artifact
     \/ pc = "component" /\ artifact' = [artifact EXCEPT ![Current] = Torn]
  /\ Fault
  /\ UNCHANGED <<inputs, macros, side, ident, latch, steady, raced>>

Edit == /\ edits < MaxEdits
        /\ edits' = edits + 1
        /\ steady' = FALSE
        /\ UNCHANGED <<disk, command, faults>>

\* cargo has read the guest's sources and its fingerprint is not taken yet.
BeingBuilt(g) == pc \in {"component", "verify", "write"} /\ Head(todo) = g

EditSource(g, v) ==
  /\ Edit
  /\ v # src[g]
  /\ src' = [src EXCEPT ![g] = v]
  /\ raced' = IF BeingBuilt(g) THEN [raced EXCEPT ![Current] = TRUE]
              ELSE raced
  /\ UNCHANGED <<mode, wit, tool>>

EditWit(v) == /\ Edit
              /\ v # wit
              /\ wit' = v
              /\ UNCHANGED <<mode, src, tool, raced>>

ChangeTool(v) == /\ Edit
                 /\ v # tool
                 /\ tool' = v
                 /\ UNCHANGED <<mode, src, wit, raced>>

-----------------------------------------------------------------------------

\* What the command does when nothing goes wrong.
Step == \/ CheckGuest
        \/ CheckEnds
        \/ BuildStarts
        \/ CargoBuild
        \/ WriteComponent
        \/ Verified
        \/ Rebuild
        \/ VerifyFails
        \/ WriteFingerprint
        \/ WriteIdentity
        \/ BuildEnds

Trouble == \/ StartFails
           \/ PolicyRejects
           \/ CargoFails
           \/ ComponentFails
           \/ WriteFails
           \/ Crash

Next == \/ \E k \in Kind : Start(k)
        \/ Step
        \/ Trouble
        \/ \E g \in Guest, v \in Version : EditSource(g, v)
        \/ \E v \in Version : EditWit(v) \/ ChangeTool(v)

\* A command that is not killed goes on, and the command is run again: by
\* the developer, by cargo xtask test, by CI.
Fairness == /\ WF_vars(Step)
            /\ SF_vars(Start("build"))

Spec == Init /\ [][Next]_vars /\ Fairness

-----------------------------------------------------------------------------
(* Properties.                                                             *)

\* What the check would now call fresh is what a build of the present inputs
\* would give, whatever crashed or failed before, and whatever was changed
\* and changed back: a sidecar never vouches for a component it was not
\* written for.  The WIT may change at any time.  The one exception is a
\* source edited, or a tool replaced, while the guest was being built.
FreshIsCurrent ==
  \A g \in Guest :
    (~Stale(g, wit, tool) /\ ~raced[g])
      => artifact[g] = [src |-> src[g], wit |-> wit, tool |-> tool]

\* A command that exits with 0, with no input changed since it started,
\* leaves every guest fresh: no failed guest hides behind a later
\* one.
SuccessIsFresh ==
  (code = 0 /\ steady) =>
    \A g \in Guest : ~Stale(g, wit, tool)

\* When inputs and tools come to rest, the command gets every guest fresh: a
\* proc-macro cached with an old WIT does not keep it stale for ever.
Converges ==
  []<>(\A g \in Guest : ~Stale(g, wit, tool))

=============================================================================
