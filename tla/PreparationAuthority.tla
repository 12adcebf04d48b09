------------------------- MODULE PreparationAuthority -------------------------
(***************************************************************************)
(* What one print's preparation store promises its users, without saying   *)
(* how: every owner token goes through a fixed life cycle, a published     *)
(* owner stays published until it is disposed, and disposal never happens  *)
(* under an owner that is being staged or that a call is using.            *)
(*                                                                         *)
(* PreparedOwnerStore implements this module; PrintPreparation uses it.    *)
(***************************************************************************)
EXTENDS Naturals

CONSTANT Owners     \* the owner tokens the print may create

VARIABLES
  status,           \* life-cycle position of each owner
  calls,            \* number of guards (calls, reads) an owner is under
  closed            \* the print authority itself is disposed

authorityVars == <<status, calls, closed>>

Statuses == {"absent", "unready", "staging", "ready", "disposed"}

\* An owner that check_owner accepts.
Live(o) == status[o] \in {"unready", "staging", "ready"}

Idle(o) == status[o] # "staging" /\ calls[o] = 0

AInit ==
  /\ status = [o \in Owners |-> "absent"]
  /\ calls = [o \in Owners |-> 0]
  /\ closed = FALSE

Move(o, from, to) ==
  /\ status[o] = from
  /\ status' = [status EXCEPT ![o] = to]
  /\ UNCHANGED <<calls, closed>>

ACreate(o) == ~closed /\ Move(o, "absent", "unready")

ABegin(o) == Move(o, "unready", "staging")

APublish(o) == Move(o, "staging", "ready")

AAbort(o) == Move(o, "staging", "unready")

AEnter(o) ==
  /\ Live(o)
  /\ calls' = [calls EXCEPT ![o] = @ + 1]
  /\ UNCHANGED <<status, closed>>

ALeave(o) ==
  /\ calls[o] > 0
  /\ calls' = [calls EXCEPT ![o] = @ - 1]
  /\ UNCHANGED <<status, closed>>

ADisposeOwner(o) ==
  /\ Live(o)
  /\ Idle(o)
  /\ status' = [status EXCEPT ![o] = "disposed"]
  /\ UNCHANGED <<calls, closed>>

ADispose ==
  /\ \A o \in Owners : Idle(o)
  /\ status' = [o \in Owners |->
                  IF status[o] = "absent" THEN "absent" ELSE "disposed"]
  /\ closed' = TRUE
  /\ UNCHANGED calls

ANext ==
  \/ \E o \in Owners :
       ACreate(o) \/ ABegin(o) \/ APublish(o) \/ AAbort(o)
         \/ AEnter(o) \/ ALeave(o) \/ ADisposeOwner(o)
  \/ ADispose

ASpec == AInit /\ [][ANext]_authorityVars
=============================================================================
