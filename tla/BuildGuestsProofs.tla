-------------------------- MODULE BuildGuestsProofs --------------------------
(***************************************************************************)
(* A guest that the check calls fresh is what a build of the present       *)
(* inputs would give, for any number of guests, versions, edits, failures  *)
(* and crashes.                                                            *)
(***************************************************************************)
EXTENDS BuildGuests, TLAPS

Job == [kind : Kind, probe : Version, canonical : Version]

\* Every file and every cursor of the command is of its kind.
BuildTypeOK ==
  /\ src \in [Guest -> Version] /\ wit \in Version /\ tool \in Version
  /\ macros \in Version \cup {None}
  /\ artifact \in [Guest -> Build \cup {None, Torn}]
  /\ side \in [Guest -> Fingerprint \cup {None}]
  /\ raced \in [Guest -> BOOLEAN]
  /\ todo \in Seq(Guest) /\ stale \in Seq(Guest)
  /\ pc # "idle" => job \in Job

\* While a guest is being built it has no sidecar, so that whatever happens
\* to its component is not vouched for.
Unvouched ==
  /\ pc \in {"cargo", "component", "verify", "write", "identity"}
       => todo # <<>>
  /\ pc \in {"cargo", "component", "verify", "write"} => side[Current] = None

\* What was compiled for the current guest, and not raced by an edit.
Compiled(b) == /\ b \in Build
               /\ ~raced[Current] => /\ b.src = src[Current]
                                     /\ b.tool = job.probe

InProgress ==
  /\ pc = "component" => Compiled(built)
  /\ pc \in {"verify", "write"} => Compiled(artifact[Current])

\* A sidecar was written for the component beside it.
Vouches ==
  \A g \in Guest :
    (side[g] # None /\ artifact[g] \in Build /\ ~raced[g])
      => /\ artifact[g].src = side[g].src
         /\ artifact[g].tool = side[g].tool

BuildInv == BuildTypeOK /\ Unvouched /\ InProgress /\ Vouches

-----------------------------------------------------------------------------

LEMMA CursorTyped ==
  ASSUME NEW s \in Seq(Guest), s # <<>>
  PROVE  Head(s) \in Guest /\ Tail(s) \in Seq(Guest)
OBVIOUS

LEMMA InitInv == Init => BuildInv
BY BuildAssumption DEF Init, BuildInv, BuildTypeOK, Unvouched, InProgress,
  Vouches, Build, Fingerprint

\* The command's cursor moves and nothing on the disk changes.
LEMMA CursorKeeps ==
  ASSUME BuildInv, UNCHANGED <<inputs, artifact, side, raced>>,
         macros' \in Version \cup {None},
         todo' \in Seq(Guest), stale' \in Seq(Guest),
         pc' # "idle" => job' \in Job,
         pc' \in {"idle", "check", "build"}
  PROVE  BuildInv'
BY DEF BuildInv, BuildTypeOK, Unvouched, InProgress, Vouches, inputs

LEMMA ExitKeeps ==
  ASSUME BuildInv, NEW c, Exit(c),
         UNCHANGED <<inputs, artifact, side, raced, macros>>
  PROVE  BuildInv'
<1>1. <<>> \in Seq(Guest)
  OBVIOUS
<1> QED
  BY <1>1, CursorKeeps DEF Exit, BuildInv, BuildTypeOK

\* The commands that only look, and the ones that end.
LEMMA LookKeeps ==
  ASSUME BuildInv,
         \/ \E k \in Kind : Start(k)
         \/ StartFails
         \/ CheckGuest
         \/ CheckEnds
         \/ BuildEnds
         \/ CargoFails
         \/ WriteFails
  PROVE  BuildInv'
<1> USE DEF disk
<1>1. ASSUME NEW k \in Kind, Start(k) PROVE BuildInv'
  <2>1. /\ todo' \in Seq(Guest) /\ stale' \in Seq(Guest) /\ job' \in Job
        /\ pc' \in {"check", "build"}
    BY <1>1, BuildAssumption DEF Start, Job, BuildInv, BuildTypeOK
  <2> QED
    BY <1>1, <2>1, CursorKeeps DEF Start, BuildInv, BuildTypeOK
<1>2. CASE StartFails
  BY <1>2, ExitKeeps DEF StartFails
<1>3. CASE CheckGuest
  <2>1. todo' \in Seq(Guest) /\ stale' \in Seq(Guest)
    BY <1>3, CursorTyped DEF CheckGuest, Current, BuildInv, BuildTypeOK
  <2> QED
    BY <1>3, <2>1, CursorKeeps DEF CheckGuest, BuildInv, BuildTypeOK
<1>4. CASE CheckEnds
  <2>1. CASE \E diverged \in BOOLEAN :
               Exit(IF stale = <<>> /\ ~diverged THEN 0 ELSE 1)
    BY <1>4, <2>1, ExitKeeps DEF CheckEnds
  <2>2. CASE pc' = "build" /\ todo' = stale /\ UNCHANGED <<job, stale>>
    BY <1>4, <2>2, CursorKeeps DEF CheckEnds, BuildInv, BuildTypeOK
  <2> QED
    BY <1>4, <2>1, <2>2 DEF CheckEnds
<1>5. CASE BuildEnds
  BY <1>5, ExitKeeps DEF BuildEnds
<1>6. CASE CargoFails
  BY <1>6, ExitKeeps DEF CargoFails, GuestFails
<1>7. CASE WriteFails
  BY <1>7, ExitKeeps DEF WriteFails, GuestFails
<1> QED
  BY <1>1, <1>2, <1>3, <1>4, <1>5, <1>6, <1>7

\* build_one takes the sidecars away before anything else.
LEMMA BuildStartsKeeps ==
  ASSUME BuildInv, BuildStarts
  PROVE  BuildInv'
<1>1. Current \in Guest /\ Current' = Current
  BY CursorTyped DEF BuildInv, BuildTypeOK, BuildStarts, Current
<1>2. BuildTypeOK'
  BY DEF BuildInv, BuildTypeOK, BuildStarts, RemoveSidecars, inputs
<1>3. side'[Current] = None /\ \A g \in Guest : side'[g] \in {side[g], None}
  BY <1>1 DEF BuildInv, BuildTypeOK, BuildStarts, RemoveSidecars
<1>4. Unvouched' /\ InProgress'
  BY <1>1, <1>3 DEF BuildStarts, Unvouched, InProgress
<1>5. Vouches'
  BY <1>3 DEF BuildInv, BuildStarts, Vouches
<1> QED
  BY <1>2, <1>4, <1>5 DEF BuildInv

\* cargo reads the sources as they are: what it built is raced only if the
\* tools are no longer the ones that were probed.
LEMMA CompileKeeps ==
  ASSUME BuildInv, pc = "cargo", Compile, pc' = "component",
         UNCHANGED <<inputs, artifact, side, job, todo, stale>>
  PROVE  BuildInv'
<1>1. /\ Current \in Guest /\ Current' = Current /\ job \in Job
      /\ side[Current] = None /\ todo # <<>>
  BY CursorTyped DEF BuildInv, BuildTypeOK, Unvouched, Current
<1>2. PICK w \in {macros, wit} \ {None} :
        /\ macros' = w
        /\ built' = [src |-> src[Current], wit |-> w, tool |-> tool]
        /\ raced' = [raced EXCEPT ![Current] = (tool # job.probe)]
  BY DEF Compile
<1>3. BuildTypeOK'
  BY <1>1, <1>2 DEF BuildInv, BuildTypeOK, inputs
<1>4. /\ built' \in Build
      /\ built'.src = src[Current] /\ built'.tool = tool
  BY <1>1, <1>2 DEF BuildInv, BuildTypeOK, Build
<1>5. /\ raced'[Current] = (tool # job.probe)
      /\ \A g \in Guest : g # Current => raced'[g] = raced[g]
  BY <1>1, <1>2 DEF BuildInv, BuildTypeOK
<1>6. Unvouched' /\ InProgress'
  BY <1>1, <1>4, <1>5 DEF Unvouched, InProgress, Compiled, inputs
<1>7. Vouches'
  BY <1>1, <1>5 DEF BuildInv, Vouches
<1> QED
  BY <1>3, <1>6, <1>7 DEF BuildInv

\* A component that is written, torn or left as it was, has no sidecar.
LEMMA WriteComponentKeeps ==
  ASSUME BuildInv, WriteComponent
  PROVE  BuildInv'
<1>1. /\ Current \in Guest /\ side[Current] = None /\ todo # <<>>
      /\ Compiled(built)
  BY CursorTyped
  DEF BuildInv, BuildTypeOK, Unvouched, InProgress, WriteComponent, Current
<1>2. /\ artifact' \in [Guest -> Build \cup {None, Torn}]
      /\ artifact'[Current] = built
      /\ \A g \in Guest : g # Current => artifact'[g] = artifact[g]
  BY <1>1 DEF BuildInv, BuildTypeOK, WriteComponent, Compiled
<1>3. Vouches'
  BY <1>1, <1>2 DEF BuildInv, Vouches, WriteComponent
<1>4. CASE GuestFails
  <2>1. BuildTypeOK'
    BY <1>2, <1>4
    DEF BuildInv, BuildTypeOK, WriteComponent, GuestFails, Exit, inputs
  <2> QED
    BY <1>3, <1>4, <2>1
    DEF BuildInv, Unvouched, InProgress, GuestFails, Exit
<1>5. CASE pc' = "verify" /\ UNCHANGED <<job, todo, stale, built>>
  <2>1. BuildTypeOK'
    BY <1>2, <1>5 DEF BuildInv, BuildTypeOK, WriteComponent, inputs
  <2>2. Unvouched' /\ InProgress'
    BY <1>1, <1>2, <1>5
    DEF Unvouched, InProgress, Compiled, Current, WriteComponent, inputs
  <2> QED
    BY <1>3, <2>1, <2>2 DEF BuildInv
<1> QED
  BY <1>4, <1>5 DEF WriteComponent

LEMMA TornKeeps ==
  ASSUME BuildInv, NEW c, Exit(c), pc = "component",
         NEW a \in {artifact[Current], Torn},
         artifact' = [artifact EXCEPT ![Current] = a],
         UNCHANGED <<inputs, side, raced, macros>>
  PROVE  BuildInv'
<1>1. Current \in Guest /\ side[Current] = None
  BY CursorTyped DEF BuildInv, BuildTypeOK, Unvouched, Current
<1>2. /\ artifact' \in [Guest -> Build \cup {None, Torn}]
      /\ \A g \in Guest : g # Current => artifact'[g] = artifact[g]
  BY <1>1 DEF BuildInv, BuildTypeOK
<1>3. BuildTypeOK'
  BY <1>2 DEF BuildInv, BuildTypeOK, Exit, inputs
<1>4. Vouches'
  BY <1>1, <1>2 DEF BuildInv, Vouches
<1> QED
  BY <1>3, <1>4 DEF BuildInv, Unvouched, InProgress, Exit

\* The verification changes no component, and removes sidecars or none.
LEMMA VerifyKeeps ==
  ASSUME BuildInv, Verified \/ Rebuild \/ VerifyFails
  PROVE  BuildInv'
<1>1. pc = "verify"
  BY DEF Verified, Rebuild, VerifyFails
<1>2. Current \in Guest /\ side[Current] = None /\ todo # <<>>
  BY <1>1, CursorTyped DEF BuildInv, BuildTypeOK, Unvouched, Current
<1>3. CASE Verified
  BY <1>1, <1>2, <1>3
  DEF Verified, BuildInv, BuildTypeOK, Unvouched, InProgress, Compiled,
      Vouches, Current, inputs, disk
<1>4. CASE Rebuild
  <2>1. macros' \in Version \cup {None}
    BY <1>4 DEF Rebuild, Clean, BuildInv, BuildTypeOK
  <2> QED
    BY <1>2, <1>4, <2>1
    DEF Rebuild, BuildInv, BuildTypeOK, Unvouched, InProgress, Vouches,
        Current, inputs
<1>5. CASE VerifyFails
  <2>1. /\ side' = [side EXCEPT ![Current] = None]
        /\ Exit(1) /\ UNCHANGED <<inputs, artifact, raced, macros>>
    BY <1>5 DEF VerifyFails, RemoveSidecars, GuestFails
  <2>2. side' = side
    BY <1>2, <2>1 DEF BuildInv, BuildTypeOK
  <2> QED
    BY <2>1, <2>2, ExitKeeps
<1> QED
  BY <1>3, <1>4, <1>5

\* The sidecar is written for the component that was compiled from the
\* sources as they still are.
LEMMA WriteFingerprintKeeps ==
  ASSUME BuildInv, WriteFingerprint
  PROVE  BuildInv'
<1>1. /\ pc = "write" /\ Current \in Guest /\ todo # <<>> /\ job \in Job
      /\ Tail(todo) \in Seq(Guest) /\ Compiled(artifact[Current])
  BY CursorTyped
  DEF BuildInv, BuildTypeOK, Unvouched, InProgress, WriteFingerprint, Current
<1>2. [src |-> src[Current], tool |-> job.probe] \in Fingerprint
  BY <1>1 DEF BuildInv, BuildTypeOK, Fingerprint, Job
<1>3. /\ side' \in [Guest -> Fingerprint \cup {None}]
      /\ side'[Current] = [src |-> src[Current], tool |-> job.probe]
      /\ \A g \in Guest : g # Current => side'[g] = side[g]
  BY <1>1, <1>2 DEF BuildInv, BuildTypeOK, WriteFingerprint
<1>4. /\ pc' \in {"identity", "build"} /\ todo' \in Seq(Guest)
      /\ pc' = "identity" => todo' = todo
  BY <1>1
  DEF WriteFingerprint, NextGuest, BuildInv, BuildTypeOK
<1>5. BuildTypeOK'
  BY <1>1, <1>3, <1>4 DEF WriteFingerprint, BuildInv, BuildTypeOK, inputs
<1>6. Unvouched' /\ InProgress'
  BY <1>1, <1>4 DEF Unvouched, InProgress
<1>7. Vouches'
  <2> SUFFICES ASSUME NEW g \in Guest,
                      side'[g] # None, artifact[g] \in Build, ~raced[g]
               PROVE  /\ artifact[g].src = side'[g].src
                      /\ artifact[g].tool = side'[g].tool
    BY DEF Vouches, WriteFingerprint
  <2>1. CASE g = Current
    BY <1>1, <1>3, <2>1 DEF Compiled
  <2>2. CASE g # Current
    BY <1>3, <2>2 DEF BuildInv, Vouches
  <2> QED
    BY <2>1, <2>2
<1> QED
  BY <1>5, <1>6, <1>7 DEF BuildInv

LEMMA WriteIdentityKeeps ==
  ASSUME BuildInv, WriteIdentity
  PROVE  BuildInv'
<1>1. Tail(todo) \in Seq(Guest)
  BY CursorTyped DEF BuildInv, BuildTypeOK, Unvouched, WriteIdentity
<1> QED
  BY <1>1, CursorKeeps
  DEF WriteIdentity, NextGuest, BuildInv, BuildTypeOK

\* An edit touches no file that the command writes; one that comes between
\* the compilation of a guest and its fingerprint is noted.
LEMMA EditKeeps ==
  ASSUME BuildInv,
         \/ \E g \in Guest, v \in Version : EditSource(g, v)
         \/ \E v \in Version : EditWit(v) \/ ChangeTool(v)
  PROVE  BuildInv'
<1> USE DEF Edit, disk, command
<1>1. ASSUME NEW g \in Guest, NEW v \in Version, EditSource(g, v)
      PROVE  BuildInv'
  <2>1. /\ src' \in [Guest -> Version]
        /\ \A h \in Guest : h # g => src'[h] = src[h]
    BY <1>1 DEF EditSource, BuildInv, BuildTypeOK
  <2>2. /\ raced' \in [Guest -> BOOLEAN]
        /\ \A h \in Guest : ~raced'[h] => ~raced[h]
        /\ BeingBuilt(g) => Current = g /\ raced'[g]
    BY <1>1 DEF EditSource, BeingBuilt, Current, BuildInv, BuildTypeOK
  <2>3. BuildTypeOK'
    BY <1>1, <2>1, <2>2 DEF EditSource, BuildInv, BuildTypeOK
  <2>4. Unvouched'
    BY <1>1 DEF EditSource, BuildInv, Unvouched, Current
  <2>5. InProgress'
    <3> SUFFICES ASSUME pc \in {"component", "verify", "write"},
                        NEW b, Compiled(b)
                 PROVE  Compiled(b)'
      BY <1>1 DEF EditSource, BuildInv, InProgress, Compiled, Current
    <3>1. Current \in Guest /\ Current' = Current /\ job' = job
      BY <1>1, CursorTyped
      DEF EditSource, BuildInv, BuildTypeOK, Unvouched, Current
    <3>2. CASE Current = g
      BY <2>2, <3>1, <3>2 DEF Compiled, BeingBuilt, Current
    <3>3. CASE Current # g
      BY <2>1, <2>2, <3>1, <3>3 DEF Compiled
    <3> QED
      BY <3>2, <3>3
  <2>6. Vouches'
    BY <1>1, <2>2 DEF EditSource, BuildInv, Vouches
  <2> QED
    BY <2>3, <2>4, <2>5, <2>6 DEF BuildInv
<1>2. ASSUME NEW v \in Version, EditWit(v) \/ ChangeTool(v)
      PROVE  BuildInv'
  BY <1>2
  DEF EditWit, ChangeTool, BuildInv, BuildTypeOK, Unvouched, InProgress,
      Compiled, Vouches, Current
<1> QED
  BY <1>1, <1>2

LEMMA CrashKeeps ==
  ASSUME BuildInv, Crash
  PROVE  BuildInv'
<1>1. CASE UNCHANGED artifact
  BY <1>1, ExitKeeps DEF Crash
<1>2. CASE pc = "component"
             /\ artifact' = [artifact EXCEPT ![Current] = Torn]
  BY <1>2, TornKeeps DEF Crash
<1> QED
  BY <1>1, <1>2 DEF Crash

LEMMA NextKeeps == BuildInv /\ [Next]_vars => BuildInv'
<1> SUFFICES ASSUME BuildInv, [Next]_vars PROVE BuildInv'
  OBVIOUS
<1>1. CASE \/ \E k \in Kind : Start(k)
           \/ StartFails \/ CheckGuest \/ CheckEnds \/ BuildEnds
           \/ CargoFails \/ WriteFails
  BY <1>1, LookKeeps
<1>2. CASE BuildStarts
  BY <1>2, BuildStartsKeeps
<1>3. CASE CargoBuild \/ PolicyRejects
  BY <1>3, CompileKeeps DEF CargoBuild, PolicyRejects
<1>4. CASE WriteComponent
  BY <1>4, WriteComponentKeeps
<1>5. CASE ComponentFails
  BY <1>5, TornKeeps DEF ComponentFails, GuestFails
<1>6. CASE Verified \/ Rebuild \/ VerifyFails
  BY <1>6, VerifyKeeps
<1>7. CASE WriteFingerprint
  BY <1>7, WriteFingerprintKeeps
<1>8. CASE WriteIdentity
  BY <1>8, WriteIdentityKeeps
<1>9. CASE Crash
  BY <1>9, CrashKeeps
<1>10. CASE \/ \E g \in Guest, v \in Version : EditSource(g, v)
            \/ \E v \in Version : EditWit(v) \/ ChangeTool(v)
  BY <1>10, EditKeeps
<1>11. CASE UNCHANGED vars
  BY <1>11
  DEF vars, inputs, disk, command, BuildInv, BuildTypeOK, Unvouched,
      InProgress, Compiled, Vouches, Current
<1> QED
  BY <1>1, <1>2, <1>3, <1>4, <1>5, <1>6, <1>7, <1>8, <1>9, <1>10, <1>11
  DEF Next, Step, Trouble

LEMMA InvIsFresh == BuildInv => FreshIsCurrent
<1> SUFFICES ASSUME BuildInv, NEW g \in Guest,
                    ~Stale(g, wit, tool), ~raced[g]
             PROVE  artifact[g] = [src |-> src[g], wit |-> wit, tool |-> tool]
  BY DEF FreshIsCurrent
<1>1. artifact[g] \in Build
  BY DEF Stale, Component, BuildInv, BuildTypeOK
<1>2. /\ side[g] = [src |-> src[g], tool |-> tool]
      /\ artifact[g].wit = wit
  BY DEF Stale
<1>3. side[g] # None
  <2>1. [src |-> src[g], tool |-> tool] \in Fingerprint
    BY DEF BuildInv, BuildTypeOK, Fingerprint
  <2> QED
    BY <1>2, <2>1, BuildAssumption
<1>4. artifact[g].src = src[g] /\ artifact[g].tool = tool
  BY <1>1, <1>2, <1>3 DEF BuildInv, Vouches
<1> QED
  BY <1>1, <1>2, <1>4 DEF Build

\* What the check of build-guests calls fresh is what a build of the present
\* inputs would give, for every number of guests and after any history of
\* edits, failing tools and crashes, unless the guest's own sources or tools
\* changed while it was being built.
THEOREM BuildFreshIsCurrent == Spec => []FreshIsCurrent
BY InitInv, NextKeeps, InvIsFresh, PTL DEF Spec

\* The disk and the command stay well typed, and a guest that is being built
\* has no sidecar at any moment at which the command may die.
THEOREM BuildUnvouched == Spec => [](BuildTypeOK /\ Unvouched)
<1>1. BuildInv => BuildTypeOK /\ Unvouched
  BY DEF BuildInv
<1> QED
  BY <1>1, InitInv, NextKeeps, PTL DEF Spec

-----------------------------------------------------------------------------
(* A command that succeeds leaves every guest fresh.                       *)

InSeq(g, s) == \E i \in 1 .. Len(s) : s[i] = g

Fresh(g) == ~Stale(g, wit, tool)

\* While no input has changed, the command's view of them is the present one.
Settled == (steady /\ pc # "idle") => job.probe = tool /\ job.canonical = wit

\* What the check has passed is fresh, or listed as stale.
Checked ==
  (steady /\ pc = "check") =>
    \A g \in Guest : InSeq(g, todo) \/ InSeq(g, stale) \/ Fresh(g)

Building == {"build", "cargo", "component", "verify", "write", "identity"}

\* What the build loop has passed, or never had to build, is fresh.
Passed ==
  (steady /\ pc \in Building) => \A g \in Guest : InSeq(g, todo) \/ Fresh(g)

\* The guest whose sidecars are being written embeds the canonical world.
Embeds ==
  /\ pc \in {"write", "identity"} => /\ artifact[Current] \in Build
                                     /\ artifact[Current].wit = job.canonical
  /\ (pc = "identity" /\ steady) =>
       side[Current] = [src |-> src[Current], tool |-> tool]

\* Only a command that has ended has an exit code.
Succeeded ==
  /\ pc # "idle" => code # 0
  /\ (code = 0 /\ steady) => \A g \in Guest : Fresh(g)

SuccessInv ==
  /\ ident \in [Guest -> Version \cup {None}]
  /\ pc \in {"idle", "check"} \cup Building
  /\ Settled /\ Checked /\ Passed /\ Embeds /\ Succeeded

LEMMA InSeqTail ==
  ASSUME NEW s \in Seq(Guest), s # <<>>, NEW g, InSeq(g, s), g # Head(s)
  PROVE  InSeq(g, Tail(s))
<1>1. PICK i \in 1 .. Len(s) : s[i] = g
  BY DEF InSeq
<1>2. i # 1 /\ i - 1 \in 1 .. Len(Tail(s)) /\ Tail(s)[i - 1] = g
  BY <1>1
<1> QED
  BY <1>2 DEF InSeq

LEMMA InSeqAppend ==
  ASSUME NEW s \in Seq(Guest), NEW x \in Guest, NEW g,
         InSeq(g, s) \/ g = x
  PROVE  InSeq(g, Append(s, x))
<1>1. /\ Len(Append(s, x)) = Len(s) + 1
      /\ \A i \in 1 .. Len(s) : Append(s, x)[i] = s[i]
      /\ Append(s, x)[Len(s) + 1] = x /\ Len(s) \in Nat
  OBVIOUS
<1>2. CASE g = x
  <2>1. Len(s) + 1 \in 1 .. Len(Append(s, x))
    BY <1>1
  <2> QED
    BY <1>1, <1>2, <2>1 DEF InSeq
<1>3. CASE InSeq(g, s)
  <2>1. PICK i \in 1 .. Len(s) : s[i] = g
    BY <1>3 DEF InSeq
  <2>2. i \in 1 .. Len(Append(s, x)) /\ Append(s, x)[i] = g
    BY <1>1, <2>1
  <2> QED
    BY <2>2 DEF InSeq
<1> QED
  BY <1>2, <1>3

\* A guest that a step leaves alone stays fresh.
LEMMA FreshKeeps ==
  ASSUME NEW g \in Guest, Fresh(g), UNCHANGED inputs,
         artifact'[g] = artifact[g], side'[g] = side[g], ident'[g] = ident[g]
  PROVE  Fresh(g)'
BY DEF Fresh, Stale, Component, Accelerated, inputs

LEMMA InitSuccess == Init => SuccessInv
BY BuildAssumption
DEF Init, SuccessInv, Settled, Checked, Passed, Embeds, Succeeded, Building

\* The command fails or is killed: it has not succeeded.
LEMMA FailKeeps ==
  ASSUME BuildInv, SuccessInv, NEW c, Exit(c), c # 0,
         ident' \in [Guest -> Version \cup {None}]
  PROVE  SuccessInv'
BY DEF Exit, SuccessInv, Settled, Checked, Passed, Embeds, Succeeded,
       Building

\* The command succeeds.
LEMMA SucceedKeeps ==
  ASSUME BuildInv, SuccessInv, NEW c, Exit(c),
         UNCHANGED <<inputs, disk, steady>>,
         steady => \A g \in Guest : Fresh(g)
  PROVE  SuccessInv'
<1>1. \A g \in Guest : Fresh(g) => Fresh(g)'
  BY FreshKeeps DEF disk
<1> QED
  BY <1>1
  DEF Exit, SuccessInv, Settled, Checked, Passed, Embeds, Succeeded, disk

\* A step of the build of the current guest, which is not claimed fresh.
LEMMA BuildStepKeeps ==
  ASSUME BuildInv, SuccessInv, pc \in Building, todo # <<>>,
         pc' \in {"cargo", "component", "verify", "write"},
         UNCHANGED <<inputs, job, todo, code, steady>>,
         ident' \in [Guest -> Version \cup {None}],
         \A g \in Guest : g # Current =>
           /\ artifact'[g] = artifact[g] /\ side'[g] = side[g]
           /\ ident'[g] = ident[g],
         pc' = "write" => /\ artifact'[Current] \in Build
                          /\ artifact'[Current].wit = job.canonical
  PROVE  SuccessInv'
<1>1. InSeq(Current, todo)
  BY DEF InSeq, Current, BuildInv, BuildTypeOK
<1>2. \A g \in Guest : g # Current /\ Fresh(g) => Fresh(g)'
  BY FreshKeeps
<1>3. Settled' /\ Checked' /\ Succeeded'
  BY DEF SuccessInv, Settled, Checked, Succeeded, inputs, Building
<1>4. Passed'
  BY <1>1, <1>2 DEF SuccessInv, Passed, Building
<1>5. Embeds'
  BY DEF Embeds, Current
<1> QED
  BY <1>3, <1>4, <1>5 DEF SuccessInv, Building

LEMMA StartSucceeds ==
  ASSUME BuildInv, SuccessInv, NEW k \in Kind, Start(k)
  PROVE  SuccessInv'
<1>1. \A g \in Guest : InSeq(g, todo)'
  BY DEF Start, InSeq, Guest
<1>2. /\ job'.probe = tool /\ job'.canonical = wit /\ code' = None
      /\ pc' \in {"check", "build"} /\ steady'
      /\ UNCHANGED <<inputs, ident>>
  BY DEF Start
<1> QED
  BY <1>1, <1>2, BuildAssumption
  DEF SuccessInv, Settled, Checked, Passed, Embeds, Succeeded, Building,
      inputs

\* The check passes a guest: it is listed as stale, or it is fresh.
LEMMA CheckGuestSucceeds ==
  ASSUME BuildInv, SuccessInv, CheckGuest
  PROVE  SuccessInv'
<1>1. /\ Current \in Guest /\ todo \in Seq(Guest) /\ stale \in Seq(Guest)
      /\ pc = "check" /\ todo # <<>>
  BY CursorTyped DEF BuildInv, BuildTypeOK, CheckGuest, Current
<1>2. \A g \in Guest : Fresh(g) => Fresh(g)'
  BY FreshKeeps DEF CheckGuest, disk
<1>3. ASSUME steady, NEW g \in Guest
      PROVE  InSeq(g, todo)' \/ InSeq(g, stale)' \/ Fresh(g)'
  <2>1. CASE InSeq(g, stale)
    BY <1>1, <2>1, InSeqAppend DEF CheckGuest, Current
  <2>2. CASE Fresh(g)
    BY <1>2, <2>2
  <2>3. CASE InSeq(g, todo) /\ g # Current
    BY <1>1, <2>3, InSeqTail DEF CheckGuest, Current
  <2>4. CASE g = Current
    <3>1. Stale(Current, job.canonical, job.probe) => InSeq(g, stale)'
      BY <1>1, <2>4, InSeqAppend DEF CheckGuest, Current
    <3>2. ~Stale(Current, job.canonical, job.probe) => Fresh(g)
      BY <1>1, <1>3, <2>4 DEF SuccessInv, Settled, Fresh
    <3> QED
      BY <1>2, <3>1, <3>2
  <2> QED
    BY <1>1, <1>3, <2>1, <2>2, <2>3, <2>4 DEF SuccessInv, Checked
<1> QED
  BY <1>1, <1>3
  DEF CheckGuest, SuccessInv, Settled, Checked, Passed, Embeds, Succeeded,
      Building, inputs, disk

LEMMA CheckEndsSucceeds ==
  ASSUME BuildInv, SuccessInv, CheckEnds
  PROVE  SuccessInv'
<1>1. \A g \in Guest : ~InSeq(g, todo)
  BY DEF CheckEnds, InSeq
<1>2. CASE \E diverged \in BOOLEAN :
             Exit(IF stale = <<>> /\ ~diverged THEN 0 ELSE 1)
  <2>1. CASE stale = <<>> /\ Exit(0)
    <3>1. \A g \in Guest : ~InSeq(g, stale)
      BY <2>1 DEF InSeq
    <3> QED
      BY <1>1, <2>1, <3>1, SucceedKeeps DEF CheckEnds, SuccessInv, Checked
  <2>2. CASE Exit(1)
    BY <2>2, FailKeeps DEF CheckEnds, SuccessInv, disk
  <2> QED
    BY <1>2, <2>1, <2>2
<1>3. CASE pc' = "build" /\ todo' = stale /\ UNCHANGED <<job, stale, code>>
  <2>1. \A g \in Guest : Fresh(g) => Fresh(g)'
    BY FreshKeeps DEF CheckEnds, disk
  <2> QED
    BY <1>1, <1>3, <2>1
    DEF CheckEnds, SuccessInv, Settled, Checked, Passed, Embeds, Succeeded,
        Building, inputs, disk
<1> QED
  BY <1>2, <1>3 DEF CheckEnds

\* The steps of the build of one guest, up to its sidecars.
LEMMA GuestStepSucceeds ==
  ASSUME BuildInv, SuccessInv,
         \/ BuildStarts \/ CargoBuild \/ PolicyRejects \/ WriteComponent
         \/ Verified \/ Rebuild
  PROVE  SuccessInv'
<1>1. todo # <<>> /\ pc \in Building
  BY DEF BuildStarts, CargoBuild, PolicyRejects, WriteComponent, Verified,
         Rebuild, BuildInv, Unvouched, Building
<1>2. Current \in Guest
  BY <1>1, CursorTyped DEF BuildInv, BuildTypeOK, Current
<1>3. /\ side \in [Guest -> Fingerprint \cup {None}]
      /\ artifact \in [Guest -> Build \cup {None, Torn}]
      /\ ident \in [Guest -> Version \cup {None}]
  BY DEF BuildInv, BuildTypeOK, SuccessInv
<1>4. CASE BuildStarts
  BY <1>1, <1>2, <1>3, <1>4, BuildStepKeeps DEF BuildStarts, RemoveSidecars
<1>5. CASE CargoBuild \/ PolicyRejects
  BY <1>1, <1>3, <1>5, BuildStepKeeps DEF CargoBuild, PolicyRejects
<1>6. CASE WriteComponent
  <2>1. CASE GuestFails
    BY <1>3, <1>6, <2>1, FailKeeps DEF WriteComponent, GuestFails
  <2>2. CASE pc' = "verify" /\ UNCHANGED <<job, todo, code>>
    BY <1>1, <1>2, <1>3, <1>6, <2>2, BuildStepKeeps DEF WriteComponent
  <2> QED
    BY <1>6, <2>1, <2>2 DEF WriteComponent
<1>7. CASE Verified
  <2>1. artifact[Current] \in Build
    BY <1>7 DEF Verified, BuildInv, InProgress, Compiled
  <2> QED
    BY <1>1, <1>3, <1>7, <2>1, BuildStepKeeps DEF Verified, disk
<1>8. CASE Rebuild
  BY <1>1, <1>3, <1>8, BuildStepKeeps DEF Rebuild
<1> QED
  BY <1>4, <1>5, <1>6, <1>7, <1>8

\* The last sidecar of a guest makes it fresh, and the loop goes on.
LEMMA NextGuestKeeps ==
  ASSUME BuildInv, SuccessInv, pc \in Building, todo # <<>>, NextGuest,
         NEW c \in Guest, c = Current,
         UNCHANGED <<inputs, job, code, steady>>,
         ident' \in [Guest -> Version \cup {None}],
         \A g \in Guest : g # Current =>
           /\ artifact'[g] = artifact[g] /\ side'[g] = side[g]
           /\ ident'[g] = ident[g],
         steady => Fresh(c)'
  PROVE  SuccessInv'
<1>1. \A g \in Guest : g # c /\ Fresh(g) => Fresh(g)'
  BY FreshKeeps
<1>2. steady => \A g \in Guest : InSeq(g, todo)' \/ Fresh(g)'
  <2> SUFFICES ASSUME steady, NEW g \in Guest, g # c
               PROVE  InSeq(g, todo)' \/ Fresh(g)'
    OBVIOUS
  <2>1. CASE Fresh(g)
    BY <1>1, <2>1
  <2>2. CASE InSeq(g, todo)
    BY <2>2, InSeqTail DEF NextGuest, Current, BuildInv, BuildTypeOK
  <2> QED
    BY <2>1, <2>2 DEF SuccessInv, Passed
<1> QED
  BY <1>2
  DEF NextGuest, SuccessInv, Settled, Checked, Passed, Embeds, Succeeded,
      Building, inputs

LEMMA WriteFingerprintSucceeds ==
  ASSUME BuildInv, SuccessInv, WriteFingerprint
  PROVE  SuccessInv'
<1>0. PICK c \in Guest : c = Current
  BY CursorTyped
  DEF WriteFingerprint, BuildInv, BuildTypeOK, Unvouched, Current
<1>1. /\ pc = "write" /\ todo # <<>>
      /\ artifact[c] \in Build /\ artifact[c].wit = job.canonical
  BY <1>0
  DEF WriteFingerprint, BuildInv, BuildTypeOK, Unvouched, SuccessInv, Embeds,
      Current
<1>2. /\ side'[c] = [src |-> src[c], tool |-> job.probe]
      /\ \A g \in Guest : g # c => side'[g] = side[g]
      /\ UNCHANGED <<inputs, artifact, ident, job, code, steady>>
  BY <1>0, <1>1 DEF WriteFingerprint, BuildInv, BuildTypeOK
<1>3. artifact[c] \notin {None, Torn}
  BY <1>1, BuildAssumption
<1>4. CASE Accelerated
  <2>1. pc' = "identity" /\ todo' = todo
    BY <1>4 DEF WriteFingerprint
  <2>2. \A g \in Guest : g # c /\ Fresh(g) => Fresh(g)'
    BY <1>2, FreshKeeps
  <2>3. InSeq(c, todo)
    BY <1>0, <1>1 DEF InSeq, Current, BuildInv, BuildTypeOK
  <2>4. Passed'
    BY <1>1, <1>2, <2>1, <2>2, <2>3 DEF SuccessInv, Passed, Building
  <2>5. Embeds'
    BY <1>0, <1>1, <1>2, <2>1
    DEF SuccessInv, Settled, Embeds, Current, inputs
  <2> QED
    BY <1>1, <1>2, <2>1, <2>4, <2>5
    DEF SuccessInv, Settled, Checked, Succeeded, Building, inputs
<1>5. CASE ~Accelerated
  <2>1. steady => Fresh(c)'
    BY <1>1, <1>2, <1>3, <1>5
    DEF Fresh, Stale, Component, Accelerated, SuccessInv, Settled, inputs
  <2>2. NextGuest
    BY <1>5 DEF WriteFingerprint
  <2>3. ident' \in [Guest -> Version \cup {None}]
    BY <1>2 DEF SuccessInv
  <2> QED
    BY <1>0, <1>1, <1>2, <2>1, <2>2, <2>3, NextGuestKeeps DEF Building
<1> QED
  BY <1>4, <1>5

LEMMA WriteIdentitySucceeds ==
  ASSUME BuildInv, SuccessInv, WriteIdentity
  PROVE  SuccessInv'
<1>0. PICK c \in Guest : c = Current
  BY CursorTyped
  DEF WriteIdentity, BuildInv, BuildTypeOK, Unvouched, Current
<1>1. /\ pc = "identity" /\ todo # <<>>
      /\ artifact[c] \in Build /\ artifact[c].wit = job.canonical
      /\ job.probe \in Version
      /\ steady => side[c] = [src |-> src[c], tool |-> tool]
  BY <1>0
  DEF WriteIdentity, BuildInv, BuildTypeOK, Unvouched, SuccessInv, Embeds,
      Current, Job
<1>2. /\ ident' \in [Guest -> Version \cup {None}] /\ ident'[c] = job.probe
      /\ \A g \in Guest : g # c => ident'[g] = ident[g]
      /\ UNCHANGED <<inputs, artifact, side, job, code, steady>>
  BY <1>0, <1>1 DEF WriteIdentity, SuccessInv
<1>3. artifact[c] \notin {None, Torn}
  BY <1>1, BuildAssumption
<1>4. steady => Fresh(c)'
  BY <1>1, <1>2, <1>3
  DEF Fresh, Stale, Component, Accelerated, SuccessInv, Settled, inputs
<1> QED
  BY <1>0, <1>1, <1>2, <1>4, NextGuestKeeps DEF WriteIdentity, Building

\* The commands that end without success.
LEMMA TroubleSucceeds ==
  ASSUME BuildInv, SuccessInv,
         \/ StartFails \/ CargoFails \/ ComponentFails \/ WriteFails
         \/ VerifyFails \/ Crash
  PROVE  SuccessInv'
<1>1. ident' \in [Guest -> Version \cup {None}]
  <2>1. UNCHANGED ident \/ ident' = [ident EXCEPT ![Current] = None]
    BY DEF StartFails, CargoFails, ComponentFails, WriteFails, VerifyFails,
           Crash, RemoveSidecars, disk
  <2> QED
    BY <2>1 DEF SuccessInv
<1>2. \E c \in {1, 3, None} : Exit(c)
  BY DEF StartFails, CargoFails, ComponentFails, WriteFails, VerifyFails,
         Crash, GuestFails
<1> QED
  BY <1>1, <1>2, FailKeeps, BuildAssumption

\* An edit ends the promise until the next command.
LEMMA EditSucceeds ==
  ASSUME BuildInv, SuccessInv,
         \/ \E g \in Guest, v \in Version : EditSource(g, v)
         \/ \E v \in Version : EditWit(v) \/ ChangeTool(v)
  PROVE  SuccessInv'
<1>1. ~steady' /\ UNCHANGED <<disk, command>>
  BY DEF EditSource, EditWit, ChangeTool, Edit
<1> QED
  BY <1>1
  DEF disk, command, SuccessInv, Settled, Checked, Passed, Embeds, Succeeded,
      Current

LEMMA SuccessNext ==
  BuildInv /\ SuccessInv /\ [Next]_vars => SuccessInv'
<1> SUFFICES ASSUME BuildInv, SuccessInv, [Next]_vars PROVE SuccessInv'
  OBVIOUS
<1>1. CASE \E k \in Kind : Start(k)
  BY <1>1, StartSucceeds
<1>2. CASE CheckGuest
  BY <1>2, CheckGuestSucceeds
<1>3. CASE CheckEnds
  BY <1>3, CheckEndsSucceeds
<1>4. CASE \/ BuildStarts \/ CargoBuild \/ PolicyRejects \/ WriteComponent
           \/ Verified \/ Rebuild
  BY <1>4, GuestStepSucceeds
<1>5. CASE WriteFingerprint
  BY <1>5, WriteFingerprintSucceeds
<1>6. CASE WriteIdentity
  BY <1>6, WriteIdentitySucceeds
<1>7. CASE BuildEnds
  <2>1. \A g \in Guest : ~InSeq(g, todo)
    BY <1>7 DEF BuildEnds, InSeq
  <2>2. steady => \A g \in Guest : Fresh(g)
    BY <1>7, <2>1 DEF BuildEnds, SuccessInv, Passed, Building
  <2> QED
    BY <1>7, <2>2, SucceedKeeps DEF BuildEnds
<1>8. CASE \/ StartFails \/ CargoFails \/ ComponentFails \/ WriteFails
           \/ VerifyFails \/ Crash
  BY <1>8, TroubleSucceeds
<1>9. CASE \/ \E g \in Guest, v \in Version : EditSource(g, v)
           \/ \E v \in Version : EditWit(v) \/ ChangeTool(v)
  BY <1>9, EditSucceeds
<1>10. CASE UNCHANGED vars
  <2>1. \A g \in Guest : Fresh(g) => Fresh(g)'
    BY <1>10, FreshKeeps DEF vars, disk
  <2> QED
    BY <1>10, <2>1
    DEF vars, inputs, disk, command, SuccessInv, Settled, Checked, Passed,
        Embeds, Succeeded, Current
<1> QED
  BY <1>1, <1>2, <1>3, <1>4, <1>5, <1>6, <1>7, <1>8, <1>9, <1>10
  DEF Next, Step, Trouble

\* A command that exits with 0, with no input changed since it started,
\* leaves every guest fresh, for every number of guests and after any history
\* of failures and crashes of earlier commands: an error in one guest is
\* never hidden by the ones built after it.
THEOREM BuildSuccessIsFresh == Spec => []SuccessIsFresh
<1>1. SuccessInv => SuccessIsFresh
  BY DEF SuccessInv, Succeeded, SuccessIsFresh, Fresh
<1> QED
  BY <1>1, InitInv, NextKeeps, InitSuccess, SuccessNext, PTL DEF Spec
=============================================================================
