---------------------------- MODULE LayerTierProofs ----------------------------
(***************************************************************************)
(* The per-layer tier, for any number of workers, layers and modules and   *)
(* any pool sizes: the leases are the guest calls on the stacks            *)
(* (LeasesAreCalls), every layer's commits follow the plan                 *)
(* (CommitsInPlanOrder) and no layer is lost (NoLayerLost).                *)
(*                                                                         *)
(* The argument is about claims.  A range on a stack or on a deque, and    *)
(* the frame of a layer that runs, claim layers; work stealing moves,      *)
(* splits and drops claims.  Every layer is claimed in at most one place   *)
(* (Sole) and exactly until it has ended (Covered).                        *)
(*                                                                         *)
(* The last part is about the pool from which a worker leases the instance *)
(* for a guest call: leases are exclusive, serialized modules run alone,   *)
(* and notify_one never leaves a free slot unannounced to a worker that    *)
(* sleeps.                                                                 *)
(***************************************************************************)
EXTENDS LayerTier, InstancePool, FiniteSetTheorems, SequenceTheorems,
        WellFoundedInduction, TLAPS

Job ==
  {j \in [kind : {"layers"}, from : Layers, to : Layers] : j.from <= j.to}
  \cup [kind : {"batch"}, from : Layers, to : Modules]

Stage == {"module", "probe", "acquire", "guest", "batched"}

Frame ==
  {r \in [f : {"range"}, lo : Layers, hi : Layers] : r.lo <= r.hi}
  \cup [f : {"join", "stolen"}, job : Job]
  \cup {r \in [f : {"layer"}, l : Layers, k : 1 .. (NModules + 1), at : Stage] :
          r.at # "module" => r.k \in Modules}

Ending == {"no", "ok", "error", "cancelled", "dropped"}

TypeOK ==
  /\ injector \in BOOLEAN
  /\ deque \in [Workers -> Seq(Job)]
  /\ stack \in [Workers -> Seq(Frame)]
  /\ applied \in [Layers -> Seq(Modules)]
  /\ ended \in [Layers -> Ending]
  /\ full \in BOOLEAN
  /\ cancel \in BOOLEAN

-----------------------------------------------------------------------------
(* The inductive invariant.                                                *)

FrameClaim(f) == IF f.f = "range" THEN f.lo .. f.hi
                 ELSE IF f.f = "layer" THEN {f.l} ELSE {}

JobClaim(j) == IF j.kind = "layers" THEN j.from .. j.to ELSE {}

OnStack(l, w, i) == i \in DOMAIN stack[w] /\ l \in FrameClaim(stack[w][i])
OnDeque(l, w, i) == i \in DOMAIN deque[w] /\ l \in JobClaim(deque[w][i])

\* A layer is claimed in one place at most.
SoleFor(l) ==
  \A w, v \in Workers, i, j \in Nat :
    /\ OnStack(l, w, i) /\ OnStack(l, v, j) => w = v /\ i = j
    /\ OnDeque(l, w, i) /\ OnDeque(l, v, j) => w = v /\ i = j
    /\ ~(OnStack(l, w, i) /\ OnDeque(l, v, j))

Claimed(l) ==
  injector \/ \E w \in Workers, i \in Nat : OnStack(l, w, i) \/ OnDeque(l, w, i)

\* It is claimed exactly until it has ended.
CoveredFor(l) == Claimed(l) <=> ended[l] = "no"

Sole == \A l \in Layers : SoleFor(l)
Covered ==
  /\ injector => \A w \in Workers : stack[w] = <<>> /\ deque[w] = <<>>
  /\ \A l \in Layers : CoveredFor(l)

\* The commits due to l before module c, and the modules that may reach a call.
Before(l, c) == {j \in Due(l) : j < c}
Callable(l) == {j \in Wanted(l) : <<l, j>> \notin NoWork}

\* What has been applied to l while f claims it: all that is due before the
\* module f is at or, once the print is cancelled and no module is called any
\* more, before an earlier one.
Ahead(l, f) ==
  /\ f.f = "range" => applied[l] = <<>>
  /\ f.f = "layer" =>
       /\ f.at # "module" => f.k \in Callable(l)
       /\ f.at # "module" \/ ~cancel => Applied(l) = Before(l, f.k)
       /\ \E c \in 1 .. (NModules + 1) : c <= f.k /\ Applied(l) = Before(l, c)

Progress ==
  /\ injector => \A l \in Layers : applied[l] = <<>>
  /\ \A l \in Layers, w \in Workers, i \in Nat :
       /\ OnStack(l, w, i) => Ahead(l, stack[w][i])
       /\ OnDeque(l, w, i) => applied[l] = <<>>

\* The collect is full exactly when a layer has failed.
Verdict ==
  /\ full <=> \E l \in Layers : ended[l] \in {"error", "cancelled"}
  /\ \A l \in Layers : ended[l] = "dropped" => full

Leases ==
  /\ leased \in [Modules -> Nat]
  /\ \A k \in Modules : IsFiniteSet(Calls(k)) /\ leased[k] = Cardinality(Calls(k))

TierInv ==
  TypeOK /\ Sole /\ Covered /\ Progress /\ CommitsInPlanOrder /\ Verdict /\ Leases

-----------------------------------------------------------------------------
(* Frames and stacks.                                                      *)

LEMMA FrameFields ==
  ASSUME NEW x \in Frame
  PROVE  /\ x.f \in {"range", "join", "stolen", "layer"}
         /\ x.f = "range" => /\ x.lo \in Layers /\ x.hi \in Layers /\ x.lo <= x.hi
                             /\ FrameClaim(x) = x.lo .. x.hi
         /\ x.f \in {"join", "stolen"} => x.job \in Job /\ FrameClaim(x) = {}
         /\ x.f = "layer" => /\ x.l \in Layers /\ x.k \in 1 .. (NModules + 1)
                             /\ x.at \in Stage
                             /\ x.at # "module" => x.k \in Modules
                             /\ FrameClaim(x) = {x.l}
BY DEF Frame, FrameClaim

LEMMA JobFields ==
  ASSUME NEW j \in Job
  PROVE  /\ j.kind \in {"layers", "batch"}
         /\ j.kind = "layers" => /\ j.from \in Layers /\ j.to \in Layers
                                 /\ j.from <= j.to
                                 /\ JobClaim(j) = j.from .. j.to
         /\ j.kind = "batch" => JobClaim(j) = {}
BY DEF Job, JobClaim

LEMMA MakeRange ==
  ASSUME NEW lo \in Layers, NEW hi \in Layers, lo <= hi
  PROVE  /\ RangeFrame(lo, hi) \in Frame /\ RangeFrame(lo, hi).f = "range"
         /\ FrameClaim(RangeFrame(lo, hi)) = lo .. hi
         /\ LayersJob(lo, hi) \in Job /\ JobClaim(LayersJob(lo, hi)) = lo .. hi
         /\ LayersJob(lo, hi).from = lo /\ LayersJob(lo, hi).to = hi
BY DEF RangeFrame, Frame, FrameClaim, LayersJob, Job, JobClaim

LEMMA MakeJob ==
  ASSUME NEW j \in Job
  PROVE  /\ JoinFrame(j) \in Frame /\ FrameClaim(JoinFrame(j)) = {}
         /\ JoinFrame(j).f = "join"
         /\ StolenFrame(j) \in Frame /\ FrameClaim(StolenFrame(j)) = {}
         /\ StolenFrame(j).f = "stolen"
BY DEF JoinFrame, StolenFrame, Frame, FrameClaim

LEMMA MakeLayer ==
  ASSUME NEW l \in Layers, NEW k \in 1 .. (NModules + 1), NEW at \in Stage,
         at # "module" => k \in Modules
  PROVE  /\ LayerFrame(l, k, at) \in Frame
         /\ FrameClaim(LayerFrame(l, k, at)) = {l}
         /\ LayerFrame(l, k, at).f = "layer" /\ LayerFrame(l, k, at).l = l
         /\ LayerFrame(l, k, at).k = k /\ LayerFrame(l, k, at).at = at
BY DEF LayerFrame, Frame, FrameClaim

LEMMA MakeBatch ==
  ASSUME NEW l \in Layers, NEW k \in Modules
  PROVE  BatchJob(l, k) \in Job /\ JobClaim(BatchJob(l, k)) = {}
BY DEF BatchJob, Job, JobClaim

LEMMA TopFrame ==
  ASSUME TypeOK, NEW w \in Workers, Busy(w)
  PROVE  /\ Len(stack[w]) \in Nat \ {0} /\ DOMAIN stack[w] = 1 .. Len(stack[w])
         /\ Top(w) = stack[w][Len(stack[w])] /\ Top(w) \in Frame
BY DEF TypeOK, Busy, Top, Last

\* Both halves of a split range hold a layer.
LEMMA Halves ==
  ASSUME NEW lo \in Layers, NEW hi \in Layers, lo < hi
  PROVE  LET mid == lo + (hi - lo + 1) \div 2
         IN  mid \in Layers /\ mid - 1 \in Layers /\ lo <= mid - 1 /\ mid <= hi
<1>1. PICK d \in Nat : d = hi - lo + 1 /\ d >= 2
  <2>1. hi - lo + 1 \in Nat /\ hi - lo + 1 >= 2
    BY TierAssumption DEF Layers
  <2> QED
    BY <2>1, Zenon
<1>2. d \div 2 \in Nat /\ d \div 2 >= 1 /\ d \div 2 <= d - 1
  BY <1>1
<1>3. PICK h \in Nat : h = d \div 2
  BY <1>2
<1> QED
  BY <1>1, <1>2, <1>3, TierAssumption DEF Layers

\* The first n frames of w stay and s comes on top of them.
Stacked(w, n, s) ==
  /\ n \in 0 .. Len(stack[w]) /\ s \in Seq(Frame)
  /\ stack' \in [Workers -> Seq(Frame)]
  /\ \A v \in Workers \ {w} : stack'[v] = stack[v]
  /\ Len(stack'[w]) = n + Len(s)
  /\ DOMAIN stack'[w] = 1 .. (n + Len(s))
  /\ \A i \in 1 .. n : stack'[w][i] = stack[w][i]
  /\ \A i \in 1 .. Len(s) : stack'[w][n + i] = s[i]

LEMMA FrontIs ==
  ASSUME NEW S, NEW t \in Seq(S), NEW n \in Nat, n = Len(t) - 1
  PROVE  /\ Front(t) \in Seq(S) /\ Len(Front(t)) = n
         /\ \A i \in 1 .. n : Front(t)[i] = t[i]
<1>1. Front(t) = SubSeq(t, 1, n)
  BY DEF Front
<1>2. \A i \in 1 .. n : t[i] \in S
  BY LenProperties, ElementOfSeq
<1>3. SubSeq(t, 1, n) = [i \in 1 .. n |-> t[i]]
  BY <1>2
<1> QED
  BY <1>1, <1>2, <1>3

LEMMA Replaced ==
  ASSUME TypeOK, NEW w \in Workers, Busy(w), NEW s \in Seq(Frame), Replace(w, s)
  PROVE  Stacked(w, Len(stack[w]) - 1, s)
<1> DEFINE t == stack[w]
           b == Front(t)
<1>1. t \in Seq(Frame) /\ Len(t) \in Nat \ {0}
  BY DEF TypeOK, Busy
<1>2. PICK n \in Nat : n = Len(t) - 1
  <2>1. Len(t) - 1 \in Nat
    BY <1>1
  <2> QED
    BY <2>1, Zenon
<1>3. /\ b \in Seq(Frame) /\ Len(b) = n
      /\ \A i \in 1 .. n : b[i] = t[i]
  <2> HIDE DEF t
  <2> QED
    BY <1>1, <1>2, FrontIs, Zenon
<1>4. stack' = [stack EXCEPT ![w] = b \o s]
  BY DEF Replace
<1> HIDE DEF b
<1>5. /\ b \o s \in Seq(Frame) /\ Len(b \o s) = n + Len(s)
      /\ \A i \in 1 .. n : (b \o s)[i] = t[i]
      /\ \A i \in 1 .. Len(s) : (b \o s)[n + i] = s[i]
  BY <1>3
<1>6. stack'[w] = b \o s /\ \A v \in Workers \ {w} : stack'[v] = stack[v]
  BY <1>4 DEF TypeOK
<1>7. stack' \in [Workers -> Seq(Frame)]
  BY <1>4, <1>5 DEF TypeOK
<1> QED
  BY <1>1, <1>2, <1>5, <1>6, <1>7 DEF Stacked

LEMMA Pushed ==
  ASSUME TypeOK, NEW w \in Workers, NEW s \in Seq(Frame),
         stack' = [stack EXCEPT ![w] = @ \o s]
  PROVE  Stacked(w, Len(stack[w]), s)
<1> DEFINE t == stack[w]
<1>1. t \in Seq(Frame) /\ Len(t) \in Nat
  BY DEF TypeOK
<1>2. stack'[w] = t \o s /\ \A v \in Workers \ {w} : stack'[v] = stack[v]
  BY DEF TypeOK
<1>3. /\ t \o s \in Seq(Frame) /\ Len(t \o s) = Len(t) + Len(s)
      /\ \A i \in 1 .. Len(t) : (t \o s)[i] = t[i]
      /\ \A i \in 1 .. Len(s) : (t \o s)[Len(t) + i] = s[i]
  BY <1>1
<1>4. stack' \in [Workers -> Seq(Frame)]
  BY <1>3 DEF TypeOK
<1> QED
  BY <1>1, <1>2, <1>3, <1>4 DEF Stacked

-----------------------------------------------------------------------------
(* Claims.                                                                 *)

\* Above frame n, worker w claims T before a step, and C at frame q after it.
Topped(w, n, T) ==
  \A l \in Layers, i \in Nat : i > n => (OnStack(l, w, i) <=> i = n + 1 /\ l \in T)

Moved(w, n, q, C) ==
  \A l \in Layers, v \in Workers, i \in Nat :
    OnStack(l, v, i)' <=> \/ OnStack(l, v, i) /\ ~(v = w /\ i > n)
                          \/ v = w /\ i = q /\ l \in C

DequesSame ==
  \A l \in Layers, v \in Workers, i \in Nat :
    OnDeque(l, v, i)' <=> OnDeque(l, v, i)

LEMMA ToppedByTop ==
  ASSUME TypeOK, NEW w \in Workers, Busy(w)
  PROVE  Topped(w, Len(stack[w]) - 1, FrameClaim(Top(w)))
<1>1. PICK n \in Nat : n = Len(stack[w]) - 1 /\ Len(stack[w]) = n + 1
  <2>1. Len(stack[w]) - 1 \in Nat /\ Len(stack[w]) = (Len(stack[w]) - 1) + 1
    BY TopFrame
  <2> QED
    BY <2>1, Zenon
<1>2. DOMAIN stack[w] = 1 .. (n + 1) /\ Top(w) = stack[w][n + 1]
  BY <1>1, TopFrame
<1>3. Topped(w, n, FrameClaim(Top(w)))
  BY <1>2 DEF Topped, OnStack
<1> QED
  BY <1>1, <1>3

LEMMA ToppedByNone ==
  ASSUME TypeOK, NEW w \in Workers
  PROVE  Topped(w, Len(stack[w]), {})
<1>1. Len(stack[w]) \in Nat /\ DOMAIN stack[w] = 1 .. Len(stack[w])
  BY DEF TypeOK
<1> QED
  BY <1>1 DEF Topped, OnStack

LEMMA Moves ==
  ASSUME TypeOK, NEW w \in Workers, NEW n, NEW s, Stacked(w, n, s),
         NEW q \in Nat, q > n, NEW C,
         \A i \in 1 .. Len(s) : /\ n + i = q => FrameClaim(s[i]) = C
                                /\ n + i # q => FrameClaim(s[i]) = {},
         q > n + Len(s) => C = {}
  PROVE  Moved(w, n, q, C)
<1>1. /\ n \in Nat /\ Len(s) \in Nat /\ Len(stack[w]) \in Nat /\ n <= Len(stack[w])
      /\ DOMAIN stack[w] = 1 .. Len(stack[w])
  BY DEF Stacked, TypeOK
<1>2. PICK m \in Nat : m = Len(s)
  BY <1>1
<1> SUFFICES ASSUME NEW l \in Layers, NEW v \in Workers, NEW i \in Nat
             PROVE  OnStack(l, v, i)' <=>
                      \/ OnStack(l, v, i) /\ ~(v = w /\ i > n)
                      \/ v = w /\ i = q /\ l \in C
  BY DEF Moved
<1>3. CASE v # w
  BY <1>3 DEF Stacked, OnStack
<1>4. CASE v = w /\ i <= n
  <2>1. OnStack(l, v, i)' <=> OnStack(l, v, i)
    <3>1. i \in DOMAIN stack'[w] <=> i \in DOMAIN stack[w]
      BY <1>1, <1>2, <1>4 DEF Stacked
    <3>2. i \in DOMAIN stack'[w] => stack'[w][i] = stack[w][i]
      BY <1>1, <1>2, <1>4 DEF Stacked
    <3> QED
      BY <1>4, <3>1, <3>2 DEF OnStack
  <2> QED
    BY <2>1, <1>1, <1>4
<1>5. CASE v = w /\ i > n
  <2>1. PICK j \in Nat : i = n + j /\ j > 0
    <3>1. i - n \in Nat /\ i = n + (i - n) /\ i - n > 0
      BY <1>1, <1>5
    <3> QED
      BY <3>1, Zenon
  <2>2. i \in DOMAIN stack'[w] <=> j \in 1 .. m
    BY <1>1, <1>2, <1>5, <2>1 DEF Stacked
  <2>3. j \in 1 .. m => stack'[w][i] = s[j]
    BY <1>2, <2>1 DEF Stacked
  <2>4. j \in 1 .. m => FrameClaim(s[j]) = IF i = q THEN C ELSE {}
    BY <1>2, <2>1
  <2>5. j \notin 1 .. m /\ i = q => C = {}
    BY <1>1, <1>2, <2>1
  <2>6. OnStack(l, w, i)' <=> i = q /\ l \in C
    BY <2>2, <2>3, <2>4, <2>5 DEF OnStack
  <2> QED
    BY <1>5, <2>6
<1> QED
  BY <1>1, <1>3, <1>4, <1>5

\* A step that changes frames above n only, and lets go of T \ C.
LEMMA ReclaimKeeps ==
  ASSUME Sole, Covered, NEW w \in Workers, NEW n \in Nat, NEW q \in Nat, q > n,
         ~injector, ~injector',
         NEW T, NEW C \in SUBSET T, Topped(w, n, T), Moved(w, n, q, C), DequesSame,
         \A l \in Layers : ended'[l] = "no" <=> ended[l] = "no" /\ l \notin T \ C
  PROVE  Sole' /\ Covered'
<1> SUFFICES ASSUME NEW l \in Layers PROVE SoleFor(l)' /\ CoveredFor(l)'
  BY DEF Sole, Covered
<1>1. SoleFor(l) /\ CoveredFor(l)
  BY DEF Sole, Covered
<1>2. \A v \in Workers, i \in Nat :
        OnStack(l, v, i)' <=> \/ OnStack(l, v, i) /\ ~(v = w /\ i > n)
                              \/ v = w /\ i = q /\ l \in C
  BY DEF Moved
<1>3. \A v \in Workers, i \in Nat : OnDeque(l, v, i)' <=> OnDeque(l, v, i)
  BY DEF DequesSame
<1>4. \A i \in Nat : i > n => (OnStack(l, w, i) <=> i = n + 1 /\ l \in T)
  BY DEF Topped
<1>5. n + 1 \in Nat /\ n + 1 > n
  OBVIOUS
<1>6. l \in T <=> OnStack(l, w, n + 1)
  BY <1>4, <1>5
<1>7. SoleFor(l)'
  BY <1>1, <1>2, <1>3, <1>5, <1>6 DEF SoleFor
<1>8. CoveredFor(l)'
  <2>1. CASE l \in C
    <3>1. OnStack(l, w, q)' /\ Claimed(l)
      BY <2>1, <1>2, <1>5, <1>6 DEF Claimed
    <3>2. Claimed(l)'
      BY <3>1 DEF Claimed
    <3> QED
      BY <3>1, <3>2, <2>1, <1>1 DEF CoveredFor
  <2>2. CASE l \in T \ C
    <3>1. ~Claimed(l)'
      BY <2>2, <1>1, <1>2, <1>3, <1>5, <1>6 DEF Claimed, SoleFor
    <3> QED
      BY <3>1, <2>2 DEF CoveredFor
  <2>3. CASE l \notin T
    <3>1. Claimed(l)' <=> Claimed(l)
      BY <2>3, <1>2, <1>3, <1>4 DEF Claimed
    <3> QED
      BY <3>1, <2>3, <1>1 DEF CoveredFor
  <2> QED
    BY <2>1, <2>2, <2>3
<1> QED
  BY <1>7, <1>8

\* A claim that splits between the stack and the own deque.
LEMMA SplitKeeps ==
  ASSUME Sole, Covered, NEW w \in Workers, NEW n \in Nat, NEW q \in Nat, q > n,
         ~injector, ~injector',
         NEW T, NEW C \in SUBSET T, NEW m \in Nat,
         Topped(w, n, T), Moved(w, n, q, C),
         \A l \in Layers, i \in Nat : OnDeque(l, w, i) => i <= m,
         \A l \in Layers, v \in Workers, i \in Nat :
           OnDeque(l, v, i)' <=> \/ OnDeque(l, v, i)
                                 \/ v = w /\ i = m + 1 /\ l \in T \ C,
         ended' = ended
  PROVE  Sole' /\ Covered'
<1> SUFFICES ASSUME NEW l \in Layers PROVE SoleFor(l)' /\ CoveredFor(l)'
  BY DEF Sole, Covered
<1>1. SoleFor(l) /\ CoveredFor(l)
  BY DEF Sole, Covered
<1>2. \A v \in Workers, i \in Nat :
        OnStack(l, v, i)' <=> \/ OnStack(l, v, i) /\ ~(v = w /\ i > n)
                              \/ v = w /\ i = q /\ l \in C
  BY DEF Moved
<1>3. \A i \in Nat : i > n => (OnStack(l, w, i) <=> i = n + 1 /\ l \in T)
  BY DEF Topped
<1>4. n + 1 \in Nat /\ n + 1 > n /\ m + 1 \in Nat
  OBVIOUS
<1>5. l \in T <=> OnStack(l, w, n + 1)
  BY <1>3, <1>4
<1>6. \A i \in Nat : OnDeque(l, w, i) => i # m + 1
  OBVIOUS
<1>7. SoleFor(l)'
  BY <1>1, <1>2, <1>4, <1>5, <1>6 DEF SoleFor
<1>8. Claimed(l)' <=> Claimed(l)
  <2>1. CASE l \in C
    <3>1. OnStack(l, w, q)' /\ OnStack(l, w, n + 1)
      BY <2>1, <1>2, <1>5
    <3> QED
      BY <3>1, <1>4 DEF Claimed
  <2>2. CASE l \in T \ C
    <3>1. OnDeque(l, w, m + 1)' /\ OnStack(l, w, n + 1)
      BY <2>2, <1>4, <1>5
    <3> QED
      BY <3>1, <1>4 DEF Claimed
  <2>3. CASE l \notin T
    BY <2>3, <1>2, <1>3 DEF Claimed
  <2> QED
    BY <2>1, <2>2, <2>3
<1>9. CoveredFor(l)'
  BY <1>1, <1>8 DEF CoveredFor
<1> QED
  BY <1>7, <1>9

\* A claim that goes from the end of the own deque to the stack.
LEMMA PopKeeps ==
  ASSUME Sole, Covered, NEW w \in Workers, NEW n \in Nat, NEW q \in Nat, q > n,
         ~injector, ~injector', NEW C, NEW m \in Nat,
         Topped(w, n, {}), Moved(w, n, q, C),
         \A l \in Layers : OnDeque(l, w, m) <=> l \in C,
         \A l \in Layers, v \in Workers, i \in Nat :
           OnDeque(l, v, i)' <=> OnDeque(l, v, i) /\ ~(v = w /\ i = m),
         ended' = ended
  PROVE  Sole' /\ Covered'
<1> SUFFICES ASSUME NEW l \in Layers PROVE SoleFor(l)' /\ CoveredFor(l)'
  BY DEF Sole, Covered
<1>1. SoleFor(l) /\ CoveredFor(l)
  BY DEF Sole, Covered
<1>2. \A v \in Workers, i \in Nat :
        OnStack(l, v, i)' <=> OnStack(l, v, i) \/ (v = w /\ i = q /\ l \in C)
  BY DEF Moved, Topped
<1>3. l \in C <=> OnDeque(l, w, m)
  OBVIOUS
<1>4. SoleFor(l)'
  BY <1>1, <1>2, <1>3 DEF SoleFor
<1>5. Claimed(l)' <=> Claimed(l)
  <2>1. CASE l \in C
    <3>1. OnStack(l, w, q)' /\ OnDeque(l, w, m)
      BY <2>1, <1>2, <1>3
    <3> QED
      BY <3>1 DEF Claimed
  <2>2. CASE l \notin C
    BY <2>2, <1>2, <1>3 DEF Claimed
  <2> QED
    BY <2>1, <2>2
<1> QED
  BY <1>1, <1>4, <1>5 DEF CoveredFor

\* A claim that goes from the head of the deque of v to the stack of w.
LEMMA StealKeeps ==
  ASSUME Sole, Covered, NEW w \in Workers, NEW v \in Workers,
         NEW n \in Nat, NEW q \in Nat, q > n,
         ~injector, ~injector', NEW C,
         Topped(w, n, {}), Moved(w, n, q, C),
         \A l \in Layers : (OnDeque(l, v, 1) <=> l \in C) /\ ~OnDeque(l, v, 0),
         \A l \in Layers, u \in Workers \ {v}, i \in Nat :
           OnDeque(l, u, i)' <=> OnDeque(l, u, i),
         \A l \in Layers, i \in Nat :
           OnDeque(l, v, i)' <=> i > 0 /\ OnDeque(l, v, i + 1),
         ended' = ended
  PROVE  Sole' /\ Covered'
<1> SUFFICES ASSUME NEW l \in Layers PROVE SoleFor(l)' /\ CoveredFor(l)'
  BY DEF Sole, Covered
<1>1. SoleFor(l) /\ CoveredFor(l)
  BY DEF Sole, Covered
<1>2. \A u \in Workers, i \in Nat :
        OnStack(l, u, i)' <=> OnStack(l, u, i) \/ (u = w /\ i = q /\ l \in C)
  BY DEF Moved, Topped
<1>3. l \in C <=> OnDeque(l, v, 1)
  OBVIOUS
<1> DEFINE at(u, i) == IF u = v THEN i + 1 ELSE i
<1>4. \A u \in Workers, i \in Nat :
        /\ at(u, i) \in Nat
        /\ u = v => at(u, i) = i + 1
        /\ OnDeque(l, u, i)' => /\ OnDeque(l, u, at(u, i))
                                /\ ~(u = v /\ at(u, i) = 1)
  OBVIOUS
<1>5. \A u \in Workers, i, j \in Nat : at(u, i) = at(u, j) => i = j
  OBVIOUS
<1>6. SoleFor(l)'
  <2> HIDE DEF at
  <2> SUFFICES ASSUME NEW u \in Workers, NEW x \in Workers, NEW i \in Nat, NEW j \in Nat
               PROVE  /\ OnStack(l, u, i)' /\ OnStack(l, x, j)' => u = x /\ i = j
                      /\ OnDeque(l, u, i)' /\ OnDeque(l, x, j)' => u = x /\ i = j
                      /\ ~(OnStack(l, u, i)' /\ OnDeque(l, x, j)')
    BY DEF SoleFor
  <2>1. OnStack(l, u, i)' /\ OnStack(l, x, j)' => u = x /\ i = j
    BY <1>1, <1>2, <1>3 DEF SoleFor
  <2>2. OnDeque(l, u, i)' /\ OnDeque(l, x, j)' => u = x /\ i = j
    BY <1>1, <1>4, <1>5 DEF SoleFor
  <2>3. ~(OnStack(l, u, i)' /\ OnDeque(l, x, j)')
    BY <1>1, <1>2, <1>3, <1>4 DEF SoleFor
  <2> QED
    BY <2>1, <2>2, <2>3
<1>7. Claimed(l)' <=> Claimed(l)
  <2>1. CASE l \in C
    <3>1. OnStack(l, w, q)' /\ OnDeque(l, v, 1)
      BY <2>1, <1>2, <1>3
    <3> QED
      BY <3>1 DEF Claimed
  <2>2. CASE l \notin C
    <3>1. \A u \in Workers, i \in Nat : OnStack(l, u, i)' <=> OnStack(l, u, i)
      BY <2>2, <1>2
    <3>2. Claimed(l)' => Claimed(l)
      BY <3>1, <1>4 DEF Claimed
    <3>3. ASSUME NEW u \in Workers, NEW i \in Nat, OnDeque(l, u, i)
          PROVE  \E j \in Nat : OnDeque(l, u, j)'
      <4>1. CASE u # v
        BY <3>3, <4>1
      <4>2. CASE u = v
        <5>1. i # 0 /\ i # 1
          BY <2>2, <3>3, <4>2
        <5>2. PICK j \in Nat : j > 0 /\ i = j + 1
          <6>1. i - 1 \in Nat /\ i - 1 > 0 /\ i = (i - 1) + 1
            BY <5>1
          <6> QED
            BY <6>1
        <5> QED
          BY <3>3, <4>2, <5>2
      <4> QED
        BY <4>1, <4>2
    <3>4. Claimed(l) => Claimed(l)'
      BY <3>1, <3>3 DEF Claimed
    <3> QED
      BY <3>2, <3>4
  <2> QED
    BY <2>1, <2>2
<1> QED
  BY <1>1, <1>6, <1>7 DEF CoveredFor

-----------------------------------------------------------------------------
(* What each action does to a stack.                                       *)

LEMMA OneFrame ==
  ASSUME NEW x \in Frame
  PROVE  <<x>> \in Seq(Frame) /\ Len(<<x>>) = 1 /\ <<x>>[1] = x
OBVIOUS

LEMMA TwoFrames ==
  ASSUME NEW x \in Frame, NEW y \in Frame
  PROVE  /\ <<x, y>> \in Seq(Frame) /\ Len(<<x, y>>) = 2
         /\ <<x, y>>[1] = x /\ <<x, y>>[2] = y
OBVIOUS

LEMMA NoFrame == <<>> \in Seq(Frame) /\ Len(<<>>) = 0
OBVIOUS

LEMMA MovesTwo ==
  ASSUME TypeOK, NEW w \in Workers, NEW n \in Nat, NEW x \in Frame, NEW y \in Frame,
         Stacked(w, n, <<x, y>>)
  PROVE  /\ FrameClaim(x) = {} => Moved(w, n, n + 2, FrameClaim(y))
         /\ FrameClaim(y) = {} => Moved(w, n, n + 1, FrameClaim(x))
<1> DEFINE s == <<x, y>>
<1>1. s \in Seq(Frame) /\ Len(s) = 2 /\ s[1] = x /\ s[2] = y
  BY TwoFrames
<1>2. Stacked(w, n, s)
  OBVIOUS
<1> HIDE DEF s
<1>3. \A i \in 1 .. Len(s) : i = 1 \/ i = 2
  BY <1>1
<1>4. n + 2 \in Nat /\ n + 2 > n /\ ~(n + 2 > n + Len(s))
  BY <1>1
<1>5. n + 1 \in Nat /\ n + 1 > n /\ ~(n + 1 > n + Len(s))
  BY <1>1
<1>6. n + 1 # n + 2
  OBVIOUS
<1>7. ASSUME FrameClaim(x) = {} PROVE Moved(w, n, n + 2, FrameClaim(y))
  <2>1. \A i \in 1 .. Len(s) : /\ n + i = n + 2 => FrameClaim(s[i]) = FrameClaim(y)
                               /\ n + i # n + 2 => FrameClaim(s[i]) = {}
    BY <1>1, <1>3, <1>6, <1>7
  <2> QED
    BY <1>2, <1>4, <2>1, Moves
<1>8. ASSUME FrameClaim(y) = {} PROVE Moved(w, n, n + 1, FrameClaim(x))
  <2>1. \A i \in 1 .. Len(s) : /\ n + i = n + 1 => FrameClaim(s[i]) = FrameClaim(x)
                               /\ n + i # n + 1 => FrameClaim(s[i]) = {}
    BY <1>1, <1>3, <1>6, <1>8
  <2> QED
    BY <1>2, <1>5, <2>1, Moves
<1> QED
  BY <1>7, <1>8

\* The top frame of w gives way to x.
Becomes(w, x) == Busy(w) /\ x \in Frame /\ Replace(w, <<x>>)

LEMMA StepsOfLayer ==
  ASSUME TypeOK, NEW w \in Workers,
         SkipModule(w) \/ YieldsNothing(w) \/ Dispatch(w) \/ OwnerReady(w)
         \/ Acquire(w) \/ GuestReturns(w)
  PROVE  /\ Busy(w) /\ Top(w) \in Frame /\ Top(w).f = "layer"
         /\ \E k \in 1 .. (NModules + 1), at \in Stage :
              /\ at # "module" => k \in Modules
              /\ Becomes(w, LayerFrame(Top(w).l, k, at))
         /\ UNCHANGED <<injector, deque, finished, ended, full, cancel>>
<1> DEFINE r == Top(w)
<1>1. Busy(w) /\ r.f = "layer"
  BY DEF SkipModule, YieldsNothing, Dispatch, OwnerReady, Acquire, GuestReturns,
         InLayer, TopIs
<1>2. r \in Frame
  BY <1>1, TopFrame
<1>3. /\ r.l \in Layers /\ r.k \in 1 .. (NModules + 1) /\ r.at \in Stage
      /\ r.at # "module" => r.k \in Modules
  BY <1>1, <1>2, FrameFields
<1>4. UNCHANGED <<injector, deque, finished, ended, full, cancel>>
  BY DEF SkipModule, YieldsNothing, Dispatch, OwnerReady, Acquire, GuestReturns
<1>5. \E k \in 1 .. (NModules + 1), at \in Stage :
        (at # "module" => k \in Modules) /\ Replace(w, <<LayerFrame(r.l, k, at)>>)
  <2>1. NModules \in Nat
    BY TierAssumption
  <2>2. CASE SkipModule(w)
    <3>1. r.k + 1 \in 1 .. (NModules + 1) /\ Replace(w, <<LayerFrame(r.l, r.k + 1, "module")>>)
      BY <1>3, <2>1, <2>2 DEF SkipModule
    <3> QED
      BY <3>1 DEF Stage
  <2>3. CASE Dispatch(w)
    <3>1. r.k \in Modules
      BY <1>3, <2>1, <2>3 DEF Dispatch, Modules
    <3>2. CASE Replace(w, <<LayerFrame(r.l, r.k, "acquire")>>)
      BY <3>1, <3>2, <1>3 DEF Stage
    <3>3. CASE Replace(w, <<LayerFrame(r.l, r.k, "probe")>>)
      BY <3>1, <3>3, <1>3 DEF Stage
    <3> QED
      BY <2>3, <3>2, <3>3 DEF Dispatch
  <2>4. CASE Acquire(w)
    <3>1. r.k \in Modules /\ Replace(w, <<LayerFrame(r.l, r.k, "guest")>>)
      BY <1>3, <2>4 DEF Acquire, InLayer
    <3> QED
      BY <3>1, <1>3 DEF Stage
  <2>5. CASE GuestReturns(w)
    <3>1. r.k \in Modules
      BY <1>3, <2>5 DEF GuestReturns, InLayer
    <3>2. r.k + 1 \in 1 .. (NModules + 1) /\ Replace(w, <<LayerFrame(r.l, r.k + 1, "module")>>)
      BY <2>1, <2>5, <3>1 DEF GuestReturns, Modules
    <3> QED
      BY <3>2 DEF Stage
  <2>6. CASE YieldsNothing(w)
    <3>1. r.k <= NModules
      BY <1>3, <2>1, <2>6 DEF YieldsNothing, InLayer, Modules
    <3>2. r.k + 1 \in 1 .. (NModules + 1) /\ Replace(w, <<LayerFrame(r.l, r.k + 1, "module")>>)
      BY <1>3, <2>1, <2>6, <3>1 DEF YieldsNothing
    <3> QED
      BY <3>2 DEF Stage
  <2>7. CASE OwnerReady(w)
    <3>1. r.k \in Modules /\ Replace(w, <<LayerFrame(r.l, r.k, "acquire")>>)
      BY <1>3, <2>7 DEF OwnerReady, InLayer
    <3> QED
      BY <3>1, <1>3 DEF Stage
  <2> QED
    BY <2>2, <2>3, <2>4, <2>5, <2>6, <2>7
<1>6. PICK k \in 1 .. (NModules + 1), at \in Stage :
        (at # "module" => k \in Modules) /\ Replace(w, <<LayerFrame(r.l, k, at)>>)
  BY <1>5
<1>7. LayerFrame(r.l, k, at) \in Frame
  BY <1>3, <1>6, MakeLayer
<1> QED
  BY <1>1, <1>2, <1>4, <1>6, <1>7 DEF Becomes

LEMMA BecomesClaims ==
  ASSUME TypeOK, Sole, Covered, NEW w \in Workers, NEW x \in Frame, Becomes(w, x),
         FrameClaim(x) \subseteq FrameClaim(Top(w)),
         UNCHANGED injector, DequesSame,
         \A l \in Layers : ended'[l] = "no" <=>
           ended[l] = "no" /\ l \notin FrameClaim(Top(w)) \ FrameClaim(x)
  PROVE  /\ stack' \in [Workers -> Seq(Frame)]
         /\ Sole' /\ Covered'
<1>1. Busy(w) /\ Replace(w, <<x>>)
  BY DEF Becomes
<1>2. <<x>> \in Seq(Frame) /\ Len(<<x>>) = 1 /\ <<x>>[1] = x
  BY OneFrame
<1>3. PICK n \in Nat : n = Len(stack[w]) - 1
  <2>1. Len(stack[w]) - 1 \in Nat
    BY <1>1, TopFrame
  <2> QED
    BY <2>1, Zenon
<1>4. Stacked(w, n, <<x>>)
  BY <1>1, <1>2, <1>3, Replaced
<1>5. Topped(w, n, FrameClaim(Top(w)))
  BY <1>1, <1>3, ToppedByTop
<1> DEFINE s == <<x>>
<1>6. \A i \in 1 .. Len(s) : /\ n + i = n + 1 => FrameClaim(s[i]) = FrameClaim(x)
                             /\ n + i # n + 1 => FrameClaim(s[i]) = {}
  BY <1>2
<1>7. /\ Stacked(w, n, s) /\ n + 1 \in Nat /\ n + 1 > n /\ ~(n + 1 > n + Len(s))
  BY <1>2, <1>4
<1> HIDE DEF s
<1>8. Moved(w, n, n + 1, FrameClaim(x))
  BY <1>6, <1>7, Moves
<1>9. ~injector /\ ~injector'
  BY <1>1 DEF Covered, Busy
<1>10. Sole' /\ Covered'
  BY <1>5, <1>7, <1>8, <1>9, ReclaimKeeps
<1> QED
  BY <1>4, <1>10 DEF Stacked

\* The top frame of w is popped.
LEMMA PoppedClaims ==
  ASSUME TypeOK, Sole, Covered, NEW w \in Workers, Busy(w), Replace(w, <<>>),
         UNCHANGED injector, DequesSame,
         \A l \in Layers : ended'[l] = "no" <=>
           ended[l] = "no" /\ l \notin FrameClaim(Top(w))
  PROVE  /\ stack' \in [Workers -> Seq(Frame)]
         /\ Sole' /\ Covered'
<1>1. PICK n \in Nat : n = Len(stack[w]) - 1
  <2>1. Len(stack[w]) - 1 \in Nat
    BY TopFrame
  <2> QED
    BY <2>1, Zenon
<1>2. <<>> \in Seq(Frame) /\ Len(<<>>) = 0
  BY NoFrame
<1>3. Stacked(w, n, <<>>)
  BY <1>1, <1>2, Replaced
<1>4. Topped(w, n, FrameClaim(Top(w)))
  BY <1>1, ToppedByTop
<1>5. Moved(w, n, n + 1, {})
  <2>1. \A i \in 1 .. Len(<<>>) : FrameClaim(<<>>[i]) = {}
    BY <1>2
  <2>2. n + 1 \in Nat /\ n + 1 > n
    OBVIOUS
  <2> QED
    BY <1>3, <2>1, <2>2, Moves
<1>6. ~injector /\ ~injector'
  BY DEF Covered, Busy
<1>7. Sole' /\ Covered'
  <2>1. {} \in SUBSET FrameClaim(Top(w)) /\ n + 1 \in Nat /\ n + 1 > n
    OBVIOUS
  <2>2. FrameClaim(Top(w)) \ {} = FrameClaim(Top(w))
    OBVIOUS
  <2> QED
    BY <1>4, <1>5, <1>6, <2>1, <2>2, ReclaimKeeps
<1> QED
  BY <1>3, <1>7 DEF Stacked

-----------------------------------------------------------------------------
(* Claims across each action.                                              *)

Kept == /\ stack' \in [Workers -> Seq(Frame)] /\ deque' \in [Workers -> Seq(Job)]
        /\ Sole' /\ Covered'

LEMMA SameDeques ==
  ASSUME TypeOK, UNCHANGED deque
  PROVE  DequesSame /\ deque' \in [Workers -> Seq(Job)]
BY DEF TypeOK, DequesSame, OnDeque

\* What an append to a deque does to the claims.
LEMMA Appended ==
  ASSUME TypeOK, NEW w \in Workers, NEW j \in Job,
         deque' = [deque EXCEPT ![w] = Append(@, j)]
  PROVE  /\ deque' \in [Workers -> Seq(Job)]
         /\ Len(deque[w]) \in Nat
         /\ \A l \in Layers, i \in Nat : OnDeque(l, w, i) => i <= Len(deque[w])
         /\ \A l \in Layers, v \in Workers, i \in Nat :
              OnDeque(l, v, i)' <=>
                \/ OnDeque(l, v, i)
                \/ v = w /\ i = Len(deque[w]) + 1 /\ l \in JobClaim(j)
<1> DEFINE d == deque[w]
<1>1. d \in Seq(Job) /\ Len(d) \in Nat /\ DOMAIN d = 1 .. Len(d)
  BY DEF TypeOK
<1>2. PICK m \in Nat : m = Len(d)
  BY <1>1
<1>3. /\ Append(d, j) \in Seq(Job) /\ DOMAIN Append(d, j) = 1 .. (m + 1)
      /\ \A i \in 1 .. m : Append(d, j)[i] = d[i]
      /\ Append(d, j)[m + 1] = j
  BY <1>1, <1>2
<1>4. deque'[w] = Append(d, j) /\ \A v \in Workers \ {w} : deque'[v] = deque[v]
  BY DEF TypeOK
<1>5. deque' \in [Workers -> Seq(Job)]
  BY <1>3 DEF TypeOK
<1>6. \A l \in Layers, i \in Nat : OnDeque(l, w, i) => i <= m
  BY <1>1, <1>2 DEF OnDeque
<1>7. ASSUME NEW l \in Layers, NEW v \in Workers, NEW i \in Nat
      PROVE  OnDeque(l, v, i)' <=> \/ OnDeque(l, v, i)
                                   \/ v = w /\ i = m + 1 /\ l \in JobClaim(j)
  <2>1. CASE v # w
    BY <1>4, <2>1 DEF OnDeque
  <2>2. CASE v = w
    <3>1. i \in DOMAIN deque'[w] <=> i \in DOMAIN d \/ i = m + 1
      BY <1>1, <1>2, <1>3, <1>4
    <3>2. i \in DOMAIN d => deque'[w][i] = d[i] /\ i # m + 1
      BY <1>1, <1>2, <1>3, <1>4
    <3>3. deque'[w][m + 1] = j
      BY <1>3, <1>4
    <3> QED
      BY <2>2, <3>1, <3>2, <3>3 DEF OnDeque
  <2> QED
    BY <2>1, <2>2
<1> QED
  BY <1>1, <1>2, <1>5, <1>6, <1>7

LEMMA ClaimsOfRoot ==
  ASSUME TypeOK, Sole, Covered, NEW w \in Workers, TakeRoot(w)
  PROVE  Kept
<1> DEFINE x == RangeFrame(1, NLayers)
<1>1. NLayers \in Nat \ {0}
  BY TierAssumption
<1>2. x \in Frame /\ FrameClaim(x) = Layers
  BY <1>1, MakeRange DEF Layers
<1> HIDE DEF x
<1>3. /\ injector /\ ~injector' /\ deque' = deque /\ ended' = ended
      /\ stack' = [stack EXCEPT ![w] = <<x>>]
  BY DEF TakeRoot, x
<1>4. \A v \in Workers : stack[v] = <<>> /\ deque[v] = <<>>
  BY <1>3 DEF Covered
<1>5. /\ stack'[w] = <<x>> /\ DOMAIN stack'[w] = 1 .. 1 /\ stack'[w][1] = x
      /\ \A v \in Workers \ {w} : stack'[v] = <<>>
  BY <1>2, <1>3, <1>4 DEF TypeOK
<1>6. stack' \in [Workers -> Seq(Frame)]
  BY <1>2, <1>3, OneFrame DEF TypeOK
<1>7. \A l \in Layers, v \in Workers, i \in Nat :
        /\ OnStack(l, v, i)' <=> v = w /\ i = 1
        /\ ~OnDeque(l, v, i)'
  BY <1>2, <1>3, <1>4, <1>5 DEF OnStack, OnDeque
<1>8. Sole'
  BY <1>7 DEF Sole, SoleFor
<1>9. \A l \in Layers : ended[l] = "no"
  BY <1>3 DEF Covered, CoveredFor, Claimed
<1>10. Covered'
  BY <1>3, <1>7, <1>9 DEF Covered, CoveredFor, Claimed
<1> QED
  BY <1>3, <1>6, <1>8, <1>10 DEF Kept, TypeOK

LEMMA ClaimsOfSplit ==
  ASSUME TypeOK, Sole, Covered, NEW w \in Workers, SplitRange(w)
  PROVE  Kept
<1> DEFINE r == Top(w)
           mid == r.lo + (r.hi - r.lo + 1) \div 2
           right == LayersJob(mid, r.hi)
<1>1. Busy(w) /\ r.f = "range" /\ r.lo < r.hi
  BY DEF SplitRange, TopIs
<1>2. r \in Frame
  BY <1>1, TopFrame
<1>3. /\ r.lo \in Layers /\ r.hi \in Layers
      /\ FrameClaim(r) = r.lo .. r.hi
  BY <1>1, <1>2, FrameFields
<1>4. /\ mid \in Layers /\ mid - 1 \in Layers /\ r.lo <= mid - 1 /\ mid <= r.hi
  BY <1>1, <1>3, Halves
<1>5. /\ deque' = [deque EXCEPT ![w] = Append(@, right)]
      /\ Replace(w, <<JoinFrame(right), RangeFrame(r.lo, right.from - 1)>>)
      /\ UNCHANGED <<injector, ended>>
  BY DEF SplitRange
<1> HIDE DEF mid
<1>6. right \in Job /\ JobClaim(right) = mid .. r.hi /\ right.from = mid
  BY <1>3, <1>4, MakeRange
<1> DEFINE x == JoinFrame(right)
           y == RangeFrame(r.lo, mid - 1)
<1>7. x \in Frame /\ FrameClaim(x) = {}
  BY <1>6, MakeJob
<1>8. y \in Frame /\ FrameClaim(y) = r.lo .. (mid - 1)
  BY <1>3, <1>4, MakeRange
<1>9. Replace(w, <<x, y>>)
  BY <1>5, <1>6
<1> HIDE DEF right, x, y
<1>10. PICK n \in Nat : n = Len(stack[w]) - 1
  <2>1. Len(stack[w]) - 1 \in Nat
    BY <1>1, TopFrame
  <2> QED
    BY <2>1, Zenon
<1> DEFINE s == <<x, y>>
<1>11. s \in Seq(Frame) /\ Len(s) = 2 /\ s[1] = x /\ s[2] = y
  BY <1>7, <1>8, TwoFrames
<1> HIDE DEF s
<1>12. Stacked(w, n, s)
  BY <1>1, <1>9, <1>10, <1>11, Replaced DEF s
<1>13. Moved(w, n, n + 2, FrameClaim(y))
  BY <1>7, <1>8, <1>12, MovesTwo DEF s
<1>14. Topped(w, n, FrameClaim(r))
  BY <1>1, <1>10, ToppedByTop
<1>15. /\ FrameClaim(y) \in SUBSET FrameClaim(r)
       /\ FrameClaim(r) \ FrameClaim(y) = JobClaim(right)
  BY <1>3, <1>4, <1>6, <1>8 DEF Layers
<1>16. ~injector /\ ~injector'
  BY <1>1, <1>5 DEF Covered, Busy
<1>17. PICK m \in Nat : m = Len(deque[w])
  BY DEF TypeOK
<1>18. /\ deque' \in [Workers -> Seq(Job)]
       /\ \A l \in Layers, i \in Nat : OnDeque(l, w, i) => i <= m
       /\ \A l \in Layers, v \in Workers, i \in Nat :
              OnDeque(l, v, i)' <=>
                \/ OnDeque(l, v, i)
                \/ v = w /\ i = m + 1 /\ l \in FrameClaim(r) \ FrameClaim(y)
  BY <1>5, <1>6, <1>15, <1>17, Appended
<1> HIDE DEF r
<1>19. n + 2 \in Nat /\ n + 2 > n
  OBVIOUS
<1>20. Sole' /\ Covered'
  <2>1. PICK q, T, C : q = n + 2 /\ T = FrameClaim(r) /\ C = FrameClaim(y)
    OBVIOUS
  <2>2. /\ q \in Nat /\ q > n /\ C \in SUBSET T
        /\ Topped(w, n, T) /\ Moved(w, n, q, C)
    BY <2>1, <1>13, <1>14, <1>15, <1>19
  <2>3. \A l \in Layers, v \in Workers, i \in Nat :
          OnDeque(l, v, i)' <=> \/ OnDeque(l, v, i)
                                \/ v = w /\ i = m + 1 /\ l \in T \ C
    BY <2>1, <1>18
  <2>4. ended' = ended
    BY <1>5
  <2>5. \A l \in Layers, i \in Nat : OnDeque(l, w, i) => i <= m
    BY <1>18
  <2> QED
    BY <2>2, <2>3, <2>4, <2>5, <1>16, SplitKeeps, SMTT(60)
<1> QED
  BY <1>12, <1>18, <1>20 DEF Kept, Stacked

\* What a job puts on the stack: one range, or nothing for a batch.
LEMMA ContentIs ==
  ASSUME NEW j \in Job
  PROVE  /\ Content(j) \in Seq(Frame)
         /\ \/ \E x \in Frame : /\ Content(j) = <<x>>
                                /\ x.f = "range" /\ FrameClaim(x) = JobClaim(j)
            \/ Content(j) = <<>> /\ JobClaim(j) = {}
<1>1. CASE j.kind = "layers"
  <2> DEFINE x == RangeFrame(j.from, j.to)
  <2>1. x \in Frame /\ x.f = "range" /\ FrameClaim(x) = JobClaim(j)
    BY <1>1, JobFields, MakeRange
  <2>2. Content(j) = <<x>>
    BY <1>1 DEF Content
  <2> HIDE DEF x
  <2> QED
    BY <2>1, <2>2, OneFrame
<1>2. CASE j.kind = "batch"
  BY <1>2, JobFields, NoFrame DEF Content
<1> QED
  BY <1>1, <1>2, JobFields

LEMMA MovesContent ==
  ASSUME TypeOK, NEW w \in Workers, NEW n \in Nat, NEW j \in Job,
         Stacked(w, n, Content(j))
  PROVE  Moved(w, n, n + 1, JobClaim(j))
<1>1. n + 1 \in Nat /\ n + 1 > n
  OBVIOUS
<1>2. CASE \E x \in Frame : Content(j) = <<x>> /\ FrameClaim(x) = JobClaim(j)
  <2>1. PICK x \in Frame : Content(j) = <<x>> /\ FrameClaim(x) = JobClaim(j)
    BY <1>2
  <2> DEFINE s == <<x>>
  <2>2. s \in Seq(Frame) /\ Len(s) = 1 /\ s[1] = x
    BY OneFrame
  <2>3. Stacked(w, n, s)
    BY <2>1
  <2> HIDE DEF s
  <2>4. \A i \in 1 .. Len(s) : /\ n + i = n + 1 => FrameClaim(s[i]) = JobClaim(j)
                               /\ n + i # n + 1 => FrameClaim(s[i]) = {}
    BY <2>1, <2>2
  <2>5. ~(n + 1 > n + Len(s))
    BY <2>2
  <2> QED
    BY <1>1, <2>3, <2>4, <2>5, Moves
<1>3. CASE Content(j) = <<>> /\ JobClaim(j) = {}
  <2> DEFINE s == Content(j)
  <2>1. s \in Seq(Frame) /\ Len(s) = 0
    BY <1>3, NoFrame
  <2>2. Stacked(w, n, s)
    OBVIOUS
  <2> HIDE DEF s
  <2>3. \A i \in 1 .. Len(s) : FrameClaim(s[i]) = {}
    BY <2>1
  <2> QED
    BY <1>1, <1>3, <2>2, <2>3, Moves
<1> QED
  BY <1>2, <1>3, ContentIs

LEMMA Shortened ==
  ASSUME TypeOK, NEW w \in Workers, deque[w] # <<>>,
         deque' = [deque EXCEPT ![w] = Front(@)]
  PROVE  /\ deque' \in [Workers -> Seq(Job)]
         /\ Len(deque[w]) \in Nat /\ Last(deque[w]) \in Job
         /\ \A l \in Layers :
              OnDeque(l, w, Len(deque[w])) <=> l \in JobClaim(Last(deque[w]))
         /\ \A l \in Layers, v \in Workers, i \in Nat :
              OnDeque(l, v, i)' <=>
                OnDeque(l, v, i) /\ ~(v = w /\ i = Len(deque[w]))
<1> DEFINE d == deque[w]
<1>1. d \in Seq(Job) /\ Len(d) \in Nat \ {0} /\ DOMAIN d = 1 .. Len(d)
  BY DEF TypeOK
<1>2. PICK n \in Nat : n = Len(d) - 1 /\ Len(d) = n + 1
  <2>1. Len(d) - 1 \in Nat /\ Len(d) = (Len(d) - 1) + 1
    BY <1>1
  <2> QED
    BY <2>1, Zenon
<1>3. /\ Front(d) \in Seq(Job) /\ Len(Front(d)) = n
      /\ \A i \in 1 .. n : Front(d)[i] = d[i]
  <2> HIDE DEF d
  <2> QED
    BY <1>1, <1>2, FrontIs, Zenon
<1>4. DOMAIN Front(d) = 1 .. n
  BY <1>3
<1>5. deque'[w] = Front(d) /\ \A v \in Workers \ {w} : deque'[v] = deque[v]
  BY DEF TypeOK
<1>6. deque' \in [Workers -> Seq(Job)]
  BY <1>3 DEF TypeOK
<1>7. Last(d) = d[n + 1] /\ n + 1 \in DOMAIN d
  BY <1>1, <1>2 DEF Last
<1>8. Last(d) \in Job
  BY <1>1, <1>7
<1>9. \A l \in Layers : OnDeque(l, w, n + 1) <=> l \in JobClaim(Last(d))
  BY <1>7 DEF OnDeque
<1>10. ASSUME NEW l \in Layers, NEW v \in Workers, NEW i \in Nat
       PROVE  OnDeque(l, v, i)' <=> OnDeque(l, v, i) /\ ~(v = w /\ i = n + 1)
  <2>1. CASE v # w
    BY <1>5, <2>1 DEF OnDeque
  <2>2. CASE v = w
    <3>1. i \in DOMAIN deque'[w] <=> i \in DOMAIN d /\ i # n + 1
      BY <1>1, <1>2, <1>4, <1>5
    <3>2. i \in DOMAIN deque'[w] => deque'[w][i] = d[i]
      BY <1>3, <1>4, <1>5
    <3> QED
      BY <2>2, <3>1, <3>2 DEF OnDeque
  <2> QED
    BY <2>1, <2>2
<1> QED
  BY <1>1, <1>2, <1>6, <1>8, <1>9, <1>10

LEMMA ClaimsOfPop ==
  ASSUME TypeOK, Sole, Covered, NEW w \in Workers, PopOwn(w)
  PROVE  Kept
<1> DEFINE job == Top(w).job
<1>1. /\ Busy(w) /\ Top(w).f = "join" /\ deque[w] # <<>> /\ Last(deque[w]) = job
      /\ deque' = [deque EXCEPT ![w] = Front(@)]
      /\ Replace(w, Content(job)) /\ injector' = injector /\ ended' = ended
  BY DEF PopOwn, TopIs
<1>2. Top(w) \in Frame
  BY <1>1, TopFrame
<1>3. job \in Job /\ FrameClaim(Top(w)) = {}
  BY <1>1, <1>2, FrameFields
<1> HIDE DEF job
<1>4. PICK n \in Nat : n = Len(stack[w]) - 1
  <2>1. Len(stack[w]) - 1 \in Nat
    BY <1>1, TopFrame
  <2> QED
    BY <2>1, Zenon
<1>5. Stacked(w, n, Content(job))
  BY <1>1, <1>3, <1>4, ContentIs, Replaced
<1>6. Moved(w, n, n + 1, JobClaim(job))
  BY <1>3, <1>5, MovesContent
<1>7. Topped(w, n, {})
  BY <1>1, <1>3, <1>4, ToppedByTop
<1>8. ~injector /\ ~injector'
  BY <1>1 DEF Covered, Busy
<1>9. PICK m \in Nat : m = Len(deque[w])
  BY <1>1, Shortened
<1>10. /\ deque' \in [Workers -> Seq(Job)]
       /\ \A l \in Layers : OnDeque(l, w, m) <=> l \in JobClaim(job)
       /\ \A l \in Layers, v \in Workers, i \in Nat :
            OnDeque(l, v, i)' <=> OnDeque(l, v, i) /\ ~(v = w /\ i = m)
  BY <1>1, <1>9, Shortened
<1>11. PICK q, C : q \in Nat /\ q = n + 1 /\ q > n /\ C = JobClaim(job)
  OBVIOUS
<1>12. /\ Moved(w, n, q, C)
       /\ \A l \in Layers : OnDeque(l, w, m) <=> l \in C
  BY <1>6, <1>10, <1>11
<1>13. ended' = ended
  BY <1>1
<1>14. Sole' /\ Covered'
  BY <1>7, <1>8, <1>10, <1>11, <1>12, <1>13, PopKeeps, SMTT(60)
<1> QED
  BY <1>5, <1>10, <1>14 DEF Kept, Stacked

\* The frames of a stolen job: the latch below, its content above.
LEMMA StolenStack ==
  ASSUME TypeOK, NEW w \in Workers, NEW j \in Job,
         stack' = [stack EXCEPT ![w] = @ \o <<StolenFrame(j)>> \o Content(j)]
  PROVE  \E s \in Seq(Frame) :
           /\ Stacked(w, Len(stack[w]), s) /\ Len(s) \in {1, 2}
           /\ Moved(w, Len(stack[w]), Len(stack[w]) + 2, JobClaim(j))
           /\ s[1].f = "stolen"
           /\ Len(s) = 2 => s[2].f = "range" /\ FrameClaim(s[2]) = JobClaim(j)
<1> DEFINE y == StolenFrame(j)
<1>1. y \in Frame /\ FrameClaim(y) = {} /\ y.f = "stolen"
  BY MakeJob
<1>2. PICK n \in Nat : n = Len(stack[w])
  BY DEF TypeOK
<1>3. stack[w] \in Seq(Frame)
  BY DEF TypeOK
<1>4. stack' = [stack EXCEPT ![w] = (stack[w] \o <<y>>) \o Content(j)]
  OBVIOUS
<1> HIDE DEF y
<1>5. <<y>> \in Seq(Frame) /\ Len(<<y>>) = 1 /\ <<y>>[1] = y
  BY <1>1, OneFrame
<1>6. CASE \E x \in Frame : /\ Content(j) = <<x>>
                            /\ x.f = "range" /\ FrameClaim(x) = JobClaim(j)
  <2>1. PICK x \in Frame : /\ Content(j) = <<x>>
                           /\ x.f = "range" /\ FrameClaim(x) = JobClaim(j)
    BY <1>6
  <2>2. /\ <<x>> \in Seq(Frame) /\ <<y, x>> \in Seq(Frame) /\ Len(<<y, x>>) = 2
        /\ <<y, x>>[1] = y /\ <<y, x>>[2] = x /\ Len(<<x>>) = 1 /\ <<x>>[1] = x
    BY <1>1, OneFrame, TwoFrames
  <2>3. <<y>> \o <<x>> = <<y, x>>
    <3> DEFINE p == <<y>> \o <<x>>
    <3>1. p \in Seq(Frame) /\ Len(p) = 2 /\ p[1] = y /\ p[2] = x
      BY <1>5, <2>2
    <3> HIDE DEF p
    <3>2. p = <<y, x>>
      BY <2>2, <3>1, SeqEqual
    <3> QED
      BY <3>2 DEF p
  <2>4. (stack[w] \o <<y>>) \o Content(j) = stack[w] \o <<y, x>>
    <3>1. (stack[w] \o <<y>>) \o <<x>> = stack[w] \o (<<y>> \o <<x>>)
      BY <1>3, <1>5, <2>2, ConcatAssociative
    <3> QED
      BY <2>1, <2>3, <3>1, Zenon
  <2>5. stack' = [stack EXCEPT ![w] = @ \o <<y, x>>]
    BY <1>4, <2>4
  <2>6. Stacked(w, n, <<y, x>>)
    BY <1>2, <2>2, <2>5, Pushed
  <2>7. Moved(w, n, n + 2, JobClaim(j))
    BY <1>1, <2>1, <2>6, MovesTwo
  <2> QED
    BY <1>1, <1>2, <2>1, <2>2, <2>6, <2>7
<1>7. CASE Content(j) = <<>> /\ JobClaim(j) = {}
  <2>1. (stack[w] \o <<y>>) \o Content(j) = stack[w] \o <<y>>
    BY <1>3, <1>5, <1>7
  <2>2. stack' = [stack EXCEPT ![w] = @ \o <<y>>]
    BY <1>4, <2>1
  <2> DEFINE s == <<y>>
  <2>3. s \in Seq(Frame) /\ Len(s) = 1 /\ s[1] = y
    BY <1>5
  <2>4. stack' = [stack EXCEPT ![w] = @ \o s]
    BY <2>2
  <2> HIDE DEF s
  <2>5. Stacked(w, n, s)
    BY <1>2, <2>3, <2>4, Pushed
  <2>6. \A i \in 1 .. Len(s) : FrameClaim(s[i]) = {}
    BY <1>1, <2>3
  <2>7. n + 2 \in Nat /\ n + 2 > n
    OBVIOUS
  <2>8. Moved(w, n, n + 2, JobClaim(j))
    BY <1>7, <2>5, <2>6, <2>7, Moves
  <2> QED
    BY <1>1, <1>2, <2>3, <2>5, <2>8
<1> QED
  BY <1>6, <1>7, ContentIs

LEMMA Beheaded ==
  ASSUME TypeOK, NEW v \in Workers, deque[v] # <<>>,
         deque' = [deque EXCEPT ![v] = Tail(@)]
  PROVE  /\ deque' \in [Workers -> Seq(Job)] /\ Head(deque[v]) \in Job
         /\ \A l \in Layers :
              /\ OnDeque(l, v, 1) <=> l \in JobClaim(Head(deque[v]))
              /\ ~OnDeque(l, v, 0)
         /\ \A l \in Layers, u \in Workers \ {v}, i \in Nat :
              OnDeque(l, u, i)' <=> OnDeque(l, u, i)
         /\ \A l \in Layers, i \in Nat :
              OnDeque(l, v, i)' <=> i > 0 /\ OnDeque(l, v, i + 1)
<1> DEFINE d == deque[v]
<1>1. d \in Seq(Job) /\ Len(d) \in Nat \ {0} /\ DOMAIN d = 1 .. Len(d)
  BY DEF TypeOK
<1>2. PICK n \in Nat : n = Len(d) - 1 /\ Len(d) = n + 1
  <2>1. Len(d) - 1 \in Nat /\ Len(d) = (Len(d) - 1) + 1
    BY <1>1
  <2> QED
    BY <2>1, Zenon
<1>3. Tail(d) \in Seq(Job) /\ Len(Tail(d)) = n /\ Head(d) = d[1] /\ Head(d) \in Job
  BY <1>1, <1>2
<1>4. \A i \in 1 .. n : Tail(d)[i] = d[i + 1]
  BY <1>1, <1>2
<1>5. DOMAIN Tail(d) = 1 .. n
  BY <1>3
<1>6. deque'[v] = Tail(d) /\ \A u \in Workers \ {v} : deque'[u] = deque[u]
  BY DEF TypeOK
<1>7. deque' \in [Workers -> Seq(Job)]
  BY <1>3 DEF TypeOK
<1>8. \A l \in Layers : /\ OnDeque(l, v, 1) <=> l \in JobClaim(Head(d))
                        /\ ~OnDeque(l, v, 0)
  BY <1>1, <1>3 DEF OnDeque
<1>9. \A l \in Layers, u \in Workers \ {v}, i \in Nat :
        OnDeque(l, u, i)' <=> OnDeque(l, u, i)
  BY <1>6 DEF OnDeque
<1>10. ASSUME NEW l \in Layers, NEW i \in Nat
       PROVE  OnDeque(l, v, i)' <=> i > 0 /\ OnDeque(l, v, i + 1)
  <2>1. i \in DOMAIN deque'[v] <=> i > 0 /\ i + 1 \in DOMAIN d
    <3>1. DOMAIN d = 1 .. (n + 1) /\ DOMAIN deque'[v] = 1 .. n
      BY <1>1, <1>2, <1>5, <1>6
    <3>2. i \in 1 .. n <=> i > 0 /\ i + 1 \in 1 .. (n + 1)
      OBVIOUS
    <3> QED
      BY <3>1, <3>2, Zenon
  <2>2. i \in DOMAIN deque'[v] => deque'[v][i] = d[i + 1]
    BY <1>4, <1>5, <1>6
  <2> QED
    BY <2>1, <2>2 DEF OnDeque
<1> QED
  BY <1>3, <1>7, <1>8, <1>9, <1>10

LEMMA ClaimsOfSteal ==
  ASSUME TypeOK, Sole, Covered, NEW w \in Workers, NEW v \in Workers, Steal(w, v)
  PROVE  Kept
<1> DEFINE h == Head(deque[v])
<1>1. /\ deque[v] # <<>> /\ deque' = [deque EXCEPT ![v] = Tail(@)]
      /\ stack' = [stack EXCEPT ![w] = @ \o <<StolenFrame(h)>> \o Content(h)]
      /\ injector' = injector /\ ended' = ended
  BY DEF Steal
<1>2. h \in Job /\ deque' \in [Workers -> Seq(Job)]
  BY <1>1, Beheaded
<1>3. \A l \in Layers : /\ OnDeque(l, v, 1) <=> l \in JobClaim(h)
                        /\ ~OnDeque(l, v, 0)
  BY <1>1, Beheaded
<1>4. /\ \A l \in Layers, u \in Workers \ {v}, i \in Nat :
           OnDeque(l, u, i)' <=> OnDeque(l, u, i)
      /\ \A l \in Layers, i \in Nat :
           OnDeque(l, v, i)' <=> i > 0 /\ OnDeque(l, v, i + 1)
  BY <1>1, Beheaded
<1> HIDE DEF h
<1>5. PICK n \in Nat : n = Len(stack[w])
  BY DEF TypeOK
<1>6. PICK s \in Seq(Frame) :
        Stacked(w, Len(stack[w]), s) /\ Moved(w, Len(stack[w]), Len(stack[w]) + 2, JobClaim(h))
  BY <1>1, <1>2, StolenStack
<1>7. Topped(w, n, {})
  BY <1>5, ToppedByNone
<1>8. ~injector /\ ~injector'
  BY <1>1 DEF Covered
<1>9. PICK q, C : q \in Nat /\ q = n + 2 /\ q > n /\ C = JobClaim(h)
  OBVIOUS
<1>10. /\ Moved(w, n, q, C)
       /\ \A l \in Layers : (OnDeque(l, v, 1) <=> l \in C) /\ ~OnDeque(l, v, 0)
  BY <1>3, <1>5, <1>6, <1>9
<1>11. ended' = ended
  BY <1>1
<1>12. Sole' /\ Covered'
  BY <1>4, <1>7, <1>8, <1>9, <1>10, <1>11, StealKeeps, SMTT(60)
<1> QED
  BY <1>2, <1>6, <1>12 DEF Kept, Stacked

LEMMA ClaimsOfFanOut ==
  ASSUME TypeOK, Sole, Covered, NEW w \in Workers, FanOut(w)
  PROVE  Kept
<1> DEFINE r == Top(w)
           job == BatchJob(r.l, r.k)
           x == LayerFrame(r.l, r.k, "batched")
           y == JoinFrame(job)
<1>1. /\ Busy(w) /\ r.f = "layer" /\ r.at = "guest"
      /\ deque' = [deque EXCEPT ![w] = Append(@, job)]
      /\ Replace(w, <<x, y>>) /\ injector' = injector /\ ended' = ended
  BY DEF FanOut, InLayer, TopIs
<1>2. r \in Frame
  BY <1>1, TopFrame
<1>3. /\ r.l \in Layers /\ r.k \in Modules /\ r.k \in 1 .. (NModules + 1)
      /\ FrameClaim(r) = {r.l}
  BY <1>1, <1>2, FrameFields
<1>4. job \in Job /\ JobClaim(job) = {}
  BY <1>3, MakeBatch
<1>5. x \in Frame /\ FrameClaim(x) = FrameClaim(r)
  BY <1>3, MakeLayer DEF Stage
<1>6. y \in Frame /\ FrameClaim(y) = {}
  BY <1>4, MakeJob
<1> HIDE DEF job, x, y
<1>7. PICK n \in Nat : n = Len(stack[w]) - 1
  <2>1. Len(stack[w]) - 1 \in Nat
    BY <1>1, TopFrame
  <2> QED
    BY <2>1, Zenon
<1>8. <<x, y>> \in Seq(Frame)
  BY <1>5, <1>6, TwoFrames
<1>9. Stacked(w, n, <<x, y>>)
  BY <1>1, <1>7, <1>8, Replaced
<1>10. Moved(w, n, n + 1, FrameClaim(r))
  BY <1>5, <1>6, <1>9, MovesTwo
<1>11. Topped(w, n, FrameClaim(r))
  BY <1>1, <1>7, ToppedByTop
<1>12. ~injector /\ ~injector'
  BY <1>1 DEF Covered, Busy
<1>13. DequesSame /\ deque' \in [Workers -> Seq(Job)]
  BY <1>1, <1>4, Appended DEF DequesSame
<1>14. PICK T : T = FrameClaim(r)
  OBVIOUS
<1>15. Topped(w, n, T) /\ Moved(w, n, n + 1, T)
  BY <1>10, <1>11, <1>14
<1>16. Sole' /\ Covered'
  <2>1. T \in SUBSET T /\ n + 1 \in Nat /\ n + 1 > n
    OBVIOUS
  <2>2. \A l \in Layers : ended'[l] = "no" <=> ended[l] = "no" /\ l \notin T \ T
    BY <1>1
  <2> QED
    BY <1>12, <1>13, <1>15, <2>1, <2>2, ReclaimKeeps, SMTT(60)
<1> QED
  BY <1>9, <1>13, <1>16 DEF Kept, Stacked

LEMMA ClaimsOfLayer ==
  ASSUME TypeOK, Sole, Covered, NEW w \in Workers,
         SkipModule(w) \/ YieldsNothing(w) \/ Dispatch(w) \/ OwnerReady(w)
         \/ Acquire(w) \/ GuestReturns(w)
  PROVE  Kept
<1>1. /\ Top(w) \in Frame /\ Top(w).f = "layer"
      /\ UNCHANGED <<injector, deque, ended>>
  BY StepsOfLayer
<1>2. PICK k \in 1 .. (NModules + 1), at \in Stage :
        /\ at # "module" => k \in Modules
        /\ Becomes(w, LayerFrame(Top(w).l, k, at))
  BY StepsOfLayer
<1> DEFINE x == LayerFrame(Top(w).l, k, at)
<1>3. Top(w).l \in Layers /\ FrameClaim(Top(w)) = {Top(w).l}
  BY <1>1, FrameFields
<1>4. x \in Frame /\ FrameClaim(x) = FrameClaim(Top(w))
  BY <1>2, <1>3, MakeLayer
<1>5. Becomes(w, x)
  BY <1>2
<1> HIDE DEF x
<1>6. DequesSame /\ deque' \in [Workers -> Seq(Job)]
  BY <1>1, SameDeques
<1>7. \A l \in Layers : ended'[l] = "no" <=>
        ended[l] = "no" /\ l \notin FrameClaim(Top(w)) \ FrameClaim(x)
  BY <1>1, <1>4
<1>8. stack' \in [Workers -> Seq(Frame)] /\ Sole' /\ Covered'
  BY <1>1, <1>4, <1>5, <1>6, <1>7, BecomesClaims
<1> QED
  BY <1>6, <1>8 DEF Kept

\* What the top frame claims has not ended.
LEMMA TopClaims ==
  ASSUME TypeOK, Covered, NEW w \in Workers, Busy(w),
         NEW l \in Layers, l \in FrameClaim(Top(w))
  PROVE  OnStack(l, w, Len(stack[w])) /\ Len(stack[w]) \in Nat /\ ended[l] = "no"
<1>1. OnStack(l, w, Len(stack[w])) /\ Len(stack[w]) \in Nat
  BY TopFrame DEF OnStack
<1> QED
  BY <1>1 DEF Covered, CoveredFor, Claimed

\* The layer that ends, and the frame that ran it.
Finishes(w, l, how) ==
  /\ Busy(w) /\ l \in Layers /\ FrameClaim(Top(w)) = {l}
  /\ how \in {"ok", "error", "cancelled"} /\ EndLayer(w, l, how)
  /\ UNCHANGED <<injector, deque, finished, applied, cancel>>

LEMMA StartShape ==
  ASSUME TypeOK, NEW w \in Workers, StartLayer(w)
  PROVE  /\ Busy(w) /\ Top(w) \in Frame /\ Top(w).f = "range"
         /\ Top(w).lo \in Layers /\ FrameClaim(Top(w)) = {Top(w).lo}
         /\ UNCHANGED <<injector, deque, finished, leased, applied, cancel>>
         /\ \/ Finishes(w, Top(w).lo, "cancelled")
            \/ /\ Becomes(w, LayerFrame(Top(w).lo, 1, "module"))
               /\ FrameClaim(LayerFrame(Top(w).lo, 1, "module")) = {Top(w).lo}
               /\ UNCHANGED <<ended, full>>
<1>1. Busy(w) /\ Top(w).f = "range" /\ Top(w).lo = Top(w).hi
  BY DEF StartLayer, TopIs
<1>2. Top(w) \in Frame
  BY <1>1, TopFrame
<1>3. Top(w).lo \in Layers /\ FrameClaim(Top(w)) = Top(w).lo .. Top(w).hi
  BY <1>1, <1>2, FrameFields
<1>4. FrameClaim(Top(w)) = {Top(w).lo}
  BY <1>1, <1>3, TierAssumption DEF Layers
<1>5. 1 \in 1 .. (NModules + 1) /\ "module" \in Stage
  BY TierAssumption DEF Stage
<1>6. /\ LayerFrame(Top(w).lo, 1, "module") \in Frame
      /\ FrameClaim(LayerFrame(Top(w).lo, 1, "module")) = {Top(w).lo}
  BY <1>3, <1>5, MakeLayer
<1>7. /\ UNCHANGED <<injector, deque, finished, leased, applied, cancel>>
      /\ \/ EndLayer(w, Top(w).lo, "cancelled")
         \/ /\ Replace(w, <<LayerFrame(Top(w).lo, 1, "module")>>)
            /\ UNCHANGED <<ended, full>>
  BY DEF StartLayer
<1> QED
  BY <1>1, <1>2, <1>3, <1>4, <1>6, <1>7 DEF Finishes, Becomes

LEMMA FailShape ==
  ASSUME TypeOK, NEW w \in Workers, LayerFails(w) \/ GuestFails(w) \/ FinishLayer(w)
  PROVE  /\ Top(w) \in Frame /\ Top(w).f = "layer"
         /\ LayerFails(w) \/ GuestFails(w) => Finishes(w, Top(w).l, "error")
         /\ FinishLayer(w) => Finishes(w, Top(w).l, "ok")
<1>1. Busy(w) /\ Top(w).f = "layer"
  BY DEF LayerFails, GuestFails, FinishLayer, InLayer, TopIs
<1>2. Top(w) \in Frame
  BY <1>1, TopFrame
<1>3. Top(w).l \in Layers /\ FrameClaim(Top(w)) = {Top(w).l}
  BY <1>1, <1>2, FrameFields
<1>4. LayerFails(w) \/ GuestFails(w) => Finishes(w, Top(w).l, "error")
  BY <1>1, <1>3 DEF LayerFails, GuestFails, Finishes
<1>5. FinishLayer(w) => Finishes(w, Top(w).l, "ok")
  BY <1>1, <1>3 DEF FinishLayer, Finishes
<1> QED
  BY <1>1, <1>2, <1>4, <1>5

LEMMA ClaimsOfEnd ==
  ASSUME TypeOK, Sole, Covered, NEW w \in Workers, NEW l, NEW how,
         Finishes(w, l, how)
  PROVE  Kept
<1>1. /\ Busy(w) /\ l \in Layers /\ FrameClaim(Top(w)) = {l} /\ how # "no"
      /\ ended' = [ended EXCEPT ![l] = how] /\ Replace(w, <<>>)
      /\ injector' = injector /\ deque' = deque
  BY DEF Finishes, EndLayer
<1>2. \A k \in Layers : ended'[k] = "no" <=>
        ended[k] = "no" /\ k \notin FrameClaim(Top(w))
  BY <1>1 DEF TypeOK
<1>3. DequesSame /\ deque' \in [Workers -> Seq(Job)]
  BY <1>1, SameDeques
<1>4. stack' \in [Workers -> Seq(Frame)] /\ Sole' /\ Covered'
  BY <1>1, <1>2, <1>3, PoppedClaims
<1> QED
  BY <1>3, <1>4 DEF Kept

LEMMA ClaimsOfStart ==
  ASSUME TypeOK, Sole, Covered, NEW w \in Workers, StartLayer(w)
  PROVE  Kept
<1> DEFINE x == LayerFrame(Top(w).lo, 1, "module")
<1>1. CASE Finishes(w, Top(w).lo, "cancelled")
  BY <1>1, ClaimsOfEnd
<1>2. CASE /\ Becomes(w, x) /\ FrameClaim(x) = {Top(w).lo}
           /\ UNCHANGED <<ended, full>>
  <2>1. FrameClaim(Top(w)) = {Top(w).lo} /\ UNCHANGED <<injector, deque>>
    BY StartShape
  <2>2. x \in Frame
    BY <1>2 DEF Becomes
  <2> HIDE DEF x
  <2>3. \A l \in Layers : ended'[l] = "no" <=>
          ended[l] = "no" /\ l \notin FrameClaim(Top(w)) \ FrameClaim(x)
    BY <1>2, <2>1
  <2>4. DequesSame /\ deque' \in [Workers -> Seq(Job)]
    BY <2>1, SameDeques
  <2>5. stack' \in [Workers -> Seq(Frame)] /\ Sole' /\ Covered'
    BY <1>2, <2>1, <2>2, <2>3, <2>4, BecomesClaims
  <2> QED
    BY <2>4, <2>5 DEF Kept
<1> QED
  BY <1>1, <1>2, StartShape

LEMMA ClaimsOfDrop ==
  ASSUME TypeOK, Sole, Covered, NEW w \in Workers, DropRange(w)
  PROVE  Kept
<1>1. /\ Busy(w) /\ Top(w).f = "range" /\ Replace(w, <<>>)
      /\ ended' = [l \in Layers |-> IF l \in Top(w).lo .. Top(w).hi
                                    THEN "dropped" ELSE ended[l]]
      /\ injector' = injector /\ deque' = deque
  BY DEF DropRange, TopIs
<1>2. FrameClaim(Top(w)) = Top(w).lo .. Top(w).hi
  BY <1>1, TopFrame, FrameFields
<1>3. \A k \in Layers : ended'[k] = "no" <=>
        ended[k] = "no" /\ k \notin FrameClaim(Top(w))
  BY <1>1, <1>2
<1>4. DequesSame /\ deque' \in [Workers -> Seq(Job)]
  BY <1>1, SameDeques
<1>5. stack' \in [Workers -> Seq(Frame)] /\ Sole' /\ Covered'
  BY <1>1, <1>3, <1>4, PoppedClaims
<1> QED
  BY <1>4, <1>5 DEF Kept

LEMMA ClaimsOfLatch ==
  ASSUME TypeOK, Sole, Covered, NEW w \in Workers, FinishStolen(w) \/ ResumeJoin(w)
  PROVE  Kept
<1>1. /\ Busy(w) /\ Top(w).f \in {"join", "stolen"} /\ Replace(w, <<>>)
      /\ injector' = injector /\ deque' = deque /\ ended' = ended
  BY DEF FinishStolen, ResumeJoin, TopIs
<1>2. FrameClaim(Top(w)) = {}
  BY <1>1, TopFrame, FrameFields
<1>3. \A k \in Layers : ended'[k] = "no" <=>
        ended[k] = "no" /\ k \notin FrameClaim(Top(w))
  BY <1>1, <1>2
<1>4. DequesSame /\ deque' \in [Workers -> Seq(Job)]
  BY <1>1, SameDeques
<1>5. stack' \in [Workers -> Seq(Frame)] /\ Sole' /\ Covered'
  BY <1>1, <1>3, <1>4, PoppedClaims
<1> QED
  BY <1>4, <1>5 DEF Kept

LEMMA ClaimsStep ==
  ASSUME TypeOK, Sole, Covered, NEW w \in Workers, Worker(w)
  PROVE  Kept
<1>1. CASE TakeRoot(w) \/ SplitRange(w) \/ DropRange(w) \/ PopOwn(w)
  BY <1>1, ClaimsOfRoot, ClaimsOfSplit, ClaimsOfDrop, ClaimsOfPop
<1>2. CASE \E v \in Workers : Steal(w, v)
  BY <1>2, ClaimsOfSteal
<1>3. CASE FinishStolen(w) \/ ResumeJoin(w) \/ StartLayer(w) \/ FanOut(w)
  BY <1>3, ClaimsOfLatch, ClaimsOfStart, ClaimsOfFanOut
<1>4. CASE SkipModule(w) \/ YieldsNothing(w) \/ Dispatch(w) \/ OwnerReady(w)
           \/ Acquire(w) \/ GuestReturns(w)
  BY <1>4, ClaimsOfLayer
<1>5. CASE LayerFails(w) \/ GuestFails(w) \/ FinishLayer(w)
  BY <1>5, FailShape, ClaimsOfEnd
<1> QED
  BY <1>1, <1>2, <1>3, <1>4, <1>5 DEF Worker

-----------------------------------------------------------------------------
(* The other variables, and the verdict of the collect.                    *)

LEMMA StepScalars ==
  ASSUME TypeOK, NEW w \in Workers, Worker(w)
  PROVE  /\ injector' \in BOOLEAN /\ full' \in BOOLEAN /\ cancel' \in BOOLEAN
         /\ ended' \in [Layers -> Ending]
         /\ applied' \in [Layers -> Seq(Modules)]
<1>1. CASE TakeRoot(w)
  BY <1>1, Zenon DEF TakeRoot, TypeOK
<1>2. CASE SplitRange(w) \/ PopOwn(w) \/ (\E v \in Workers : Steal(w, v))
           \/ FinishStolen(w) \/ ResumeJoin(w) \/ FanOut(w)
  BY <1>2 DEF SplitRange, PopOwn, Steal, FinishStolen, ResumeJoin, FanOut, TypeOK
<1>3. CASE DropRange(w)
  BY <1>3 DEF DropRange, TypeOK, Ending
<1>4. ASSUME NEW l, NEW how, Finishes(w, l, how)
      PROVE  /\ injector' \in BOOLEAN /\ full' \in BOOLEAN /\ cancel' \in BOOLEAN
             /\ ended' \in [Layers -> Ending]
             /\ applied' \in [Layers -> Seq(Modules)]
  <2>1. /\ ended' \in [Layers -> Ending]
        /\ UNCHANGED <<injector, applied, cancel>>
    BY <1>4 DEF Finishes, EndLayer, TypeOK, Ending
  <2>2. full' = (full \/ how # "ok")
    BY <1>4 DEF Finishes, EndLayer
  <2>3. full' \in BOOLEAN
    BY <2>2, Zenon
  <2> QED
    BY <2>1, <2>3 DEF TypeOK
<1>5. CASE StartLayer(w)
  <2>1. CASE Finishes(w, Top(w).lo, "cancelled")
    BY <2>1, <1>4
  <2>2. CASE UNCHANGED <<ended, full>>
    BY <1>5, <2>2 DEF StartLayer, TypeOK
  <2> QED
    BY <1>5, <2>1, <2>2, StartShape
<1>6. CASE LayerFails(w) \/ GuestFails(w) \/ FinishLayer(w)
  BY <1>4, <1>6, FailShape
<1>7. CASE SkipModule(w) \/ YieldsNothing(w) \/ Dispatch(w) \/ OwnerReady(w)
           \/ Acquire(w)
  BY <1>7 DEF SkipModule, YieldsNothing, Dispatch, OwnerReady, Acquire, TypeOK
<1>8. CASE GuestReturns(w)
  <2> DEFINE r == Top(w)
  <2>1. Busy(w) /\ r.f = "layer" /\ r.at # "module"
    BY <1>8 DEF GuestReturns, InLayer, TopIs
  <2>2. r.k \in Modules /\ r.l \in Layers
    BY <2>1, TopFrame, FrameFields
  <2>3. /\ UNCHANGED <<injector, ended, full, cancel>>
        /\ applied' = applied \/ applied' = [applied EXCEPT ![r.l] = Append(@, r.k)]
    BY <1>8 DEF GuestReturns, Commit
  <2> HIDE DEF r
  <2>4. Append(applied[r.l], r.k) \in Seq(Modules)
    BY <2>2 DEF TypeOK
  <2> QED
    BY <2>2, <2>3, <2>4 DEF TypeOK
<1> QED
  BY <1>1, <1>2, <1>3, <1>5, <1>6, <1>7, <1>8 DEF Worker

\* A step ends no layer, ends one, or drops what it claims.
LEMMA EndingOf ==
  ASSUME TypeOK, NEW w \in Workers, Worker(w)
  PROVE  \/ UNCHANGED <<ended, full>>
         \/ DropRange(w)
         \/ \E l \in Layers, how \in {"ok", "error", "cancelled"} :
              /\ Finishes(w, l, how)
              /\ how = "ok" => FinishLayer(w) /\ l = Top(w).l
<1>1. CASE StartLayer(w)
  BY <1>1, StartShape
<1>2. CASE LayerFails(w) \/ GuestFails(w)
  BY <1>2, FailShape DEF Finishes
<1>3. CASE FinishLayer(w)
  BY <1>3, FailShape DEF Finishes
<1>4. CASE TakeRoot(w) \/ SplitRange(w) \/ PopOwn(w) \/ (\E v \in Workers : Steal(w, v))
           \/ FinishStolen(w) \/ ResumeJoin(w) \/ FanOut(w)
           \/ SkipModule(w) \/ YieldsNothing(w) \/ Dispatch(w) \/ OwnerReady(w)
           \/ Acquire(w) \/ GuestReturns(w)
  BY <1>4 DEF TakeRoot, SplitRange, PopOwn, Steal, FinishStolen, ResumeJoin,
              FanOut, SkipModule, YieldsNothing, Dispatch, OwnerReady, Acquire,
              GuestReturns
<1> QED
  BY <1>1, <1>2, <1>3, <1>4 DEF Worker

LEMMA VerdictStep ==
  ASSUME TypeOK, Covered, Verdict, NEW w \in Workers, Worker(w)
  PROVE  Verdict'
<1>1. CASE UNCHANGED <<ended, full>>
  BY <1>1 DEF Verdict
<1>2. CASE DropRange(w)
  <2>1. /\ full /\ full' = full
        /\ Busy(w) /\ Top(w).f = "range"
        /\ ended' = [l \in Layers |-> IF l \in Top(w).lo .. Top(w).hi
                                      THEN "dropped" ELSE ended[l]]
    BY <1>2 DEF DropRange, TopIs
  <2>2. \A l \in Layers : l \in Top(w).lo .. Top(w).hi => ended[l] = "no"
    BY <2>1, TopFrame, FrameFields, TopClaims
  <2>3. \A l \in Layers : ended[l] \in {"error", "cancelled"} => ended'[l] = ended[l]
    BY <2>1, <2>2
  <2> QED
    BY <2>1, <2>3 DEF Verdict
<1>3. ASSUME NEW l \in Layers, NEW how \in {"ok", "error", "cancelled"},
             Finishes(w, l, how)
      PROVE  Verdict'
  <2>1. /\ ended' = [ended EXCEPT ![l] = how] /\ full' = (full \/ how # "ok")
        /\ ended[l] = "no"
    BY <1>3, TopClaims DEF Finishes, EndLayer
  <2>2. \A k \in Layers : ended'[k] = IF k = l THEN how ELSE ended[k]
    BY <2>1 DEF TypeOK
  <2> QED
    BY <2>1, <2>2 DEF Verdict
<1> QED
  BY <1>1, <1>2, <1>3, EndingOf

-----------------------------------------------------------------------------
(* Commits.                                                                *)

LEMMA ProgressKeeps ==
  ASSUME TypeOK, Progress, ~injector', applied' = applied, cancel' = cancel,
         NEW w \in Workers, NEW n, NEW s, Stacked(w, n, s),
         \A i \in 1 .. Len(s), l \in Layers :
           l \in FrameClaim(s[i]) => Ahead(l, s[i]),
         \A l \in Layers, v \in Workers, i \in Nat :
           OnDeque(l, v, i)' => applied[l] = <<>>
  PROVE  Progress'
<1>1. n \in Nat /\ Len(s) \in Nat /\ n <= Len(stack[w]) /\ Len(stack[w]) \in Nat
      /\ DOMAIN stack[w] = 1 .. Len(stack[w])
  BY DEF Stacked, TypeOK
<1>2. ASSUME NEW l \in Layers, NEW v \in Workers, NEW i \in Nat, OnStack(l, v, i)'
      PROVE  Ahead(l, stack[v][i])'
  <2>1. PICK f : f = stack'[v][i]
    OBVIOUS
  <2>2. l \in FrameClaim(f) /\ i \in DOMAIN stack'[v]
    BY <1>2, <2>1 DEF OnStack
  <2>3. CASE stack[v][i] = f /\ i \in DOMAIN stack[v]
    <3>1. Ahead(l, f)
      BY <2>2, <2>3 DEF Progress, OnStack
    <3> QED
      BY <2>1, <3>1 DEF Ahead, Applied
  <2>4. CASE \E j \in 1 .. Len(s) : f = s[j]
    <3>1. Ahead(l, f)
      BY <2>2, <2>4
    <3> QED
      BY <2>1, <3>1 DEF Ahead, Applied
  <2>5. CASE v # w
    BY <2>1, <2>2, <2>3, <2>5 DEF Stacked
  <2>6. CASE v = w /\ i <= n
    <3>1. i \in 1 .. n
      BY <1>1, <2>2, <2>6 DEF Stacked
    <3> QED
      BY <1>1, <2>1, <2>3, <2>6, <3>1 DEF Stacked
  <2>7. CASE v = w /\ i > n
    <3>1. i \in 1 .. (n + Len(s))
      BY <2>2, <2>7 DEF Stacked
    <3>2. PICK j \in 1 .. Len(s) : i = n + j
      <4>1. i - n \in 1 .. Len(s) /\ i = n + (i - n)
        BY <1>1, <2>7, <3>1
      <4> QED
        BY <4>1, Zenon
    <3>3. f = s[j]
      BY <2>1, <2>7, <3>2 DEF Stacked
    <3> QED
      BY <2>4, <3>3
  <2> QED
    BY <1>1, <2>5, <2>6, <2>7
<1> QED
  BY <1>2 DEF Progress

LEMMA Swapped ==
  ASSUME TypeOK, NEW w \in Workers, Busy(w), NEW s \in Seq(Frame), Replace(w, s)
  PROVE  \E n \in Nat : /\ Len(stack[w]) = n + 1 /\ Stacked(w, n, s)
                        /\ Top(w) = stack[w][n + 1] /\ Top(w) \in Frame
<1>1. PICK n \in Nat : n = Len(stack[w]) - 1 /\ Len(stack[w]) = n + 1
  <2>1. Len(stack[w]) - 1 \in Nat /\ Len(stack[w]) = (Len(stack[w]) - 1) + 1
    BY TopFrame
  <2> QED
    BY <2>1, Zenon
<1>2. Stacked(w, n, s)
  BY <1>1, Replaced
<1>3. Top(w) = stack[w][n + 1] /\ Top(w) \in Frame
  BY <1>1, TopFrame
<1> QED
  BY <1>1, <1>2, <1>3

LEMMA TopAhead ==
  ASSUME TypeOK, Progress, NEW w \in Workers, Busy(w),
         NEW l \in Layers, l \in FrameClaim(Top(w))
  PROVE  Ahead(l, Top(w))
<1>1. PICK n \in Nat : n = Len(stack[w])
  BY DEF TypeOK
<1>2. OnStack(l, w, n) /\ Top(w) = stack[w][n]
  BY <1>1, TopFrame DEF OnStack
<1> QED
  BY <1>2 DEF Progress

LEMMA ProgressPop ==
  ASSUME TypeOK, Progress, NEW w \in Workers, Busy(w), Replace(w, <<>>),
         ~injector', applied' = applied, cancel' = cancel, deque' = deque
  PROVE  Progress'
<1> DEFINE s == <<>>
<1>1. s \in Seq(Frame) /\ Len(s) = 0 /\ Replace(w, s)
  BY NoFrame
<1> HIDE DEF s
<1>2. PICK n \in Nat : Stacked(w, n, s)
  BY <1>1, Swapped
<1>3. \A i \in 1 .. Len(s), l \in Layers : l \in FrameClaim(s[i]) => Ahead(l, s[i])
  BY <1>1
<1>4. \A l \in Layers, v \in Workers, i \in Nat : OnDeque(l, v, i)' => applied[l] = <<>>
  BY DEF Progress, OnDeque
<1> QED
  BY <1>2, <1>3, <1>4, ProgressKeeps

LEMMA ProgressBecomes ==
  ASSUME TypeOK, Progress, NEW w \in Workers, NEW x \in Frame, Becomes(w, x),
         \A l \in Layers : l \in FrameClaim(x) => Ahead(l, x),
         ~injector', applied' = applied, cancel' = cancel, deque' = deque
  PROVE  Progress'
<1> DEFINE s == <<x>>
<1>1. s \in Seq(Frame) /\ Len(s) = 1 /\ s[1] = x /\ Replace(w, s) /\ Busy(w)
  BY OneFrame DEF Becomes
<1> HIDE DEF s
<1>2. PICK n \in Nat : Stacked(w, n, s)
  BY <1>1, Swapped
<1>3. \A i \in 1 .. Len(s), l \in Layers : l \in FrameClaim(s[i]) => Ahead(l, s[i])
  BY <1>1
<1>4. \A l \in Layers, v \in Workers, i \in Nat : OnDeque(l, v, i)' => applied[l] = <<>>
  BY DEF Progress, OnDeque
<1> QED
  BY <1>2, <1>3, <1>4, ProgressKeeps

LEMMA ProgressOfRoot ==
  ASSUME TypeOK, Covered, Progress, NEW w \in Workers, TakeRoot(w)
  PROVE  Progress'
<1>1. /\ injector /\ ~injector' /\ deque' = deque /\ applied' = applied
      /\ stack' = [stack EXCEPT ![w] = <<RangeFrame(1, NLayers)>>]
  BY DEF TakeRoot
<1>2. \A l \in Layers : applied[l] = <<>>
  BY <1>1 DEF Progress
<1>3. \A v \in Workers : stack[v] = <<>> /\ deque[v] = <<>>
  BY <1>1 DEF Covered
<1>4. RangeFrame(1, NLayers) \in Frame /\ RangeFrame(1, NLayers).f = "range"
  BY MakeRange, TierAssumption DEF Layers
<1>5. ASSUME NEW l \in Layers, NEW v \in Workers, NEW i \in Nat, OnStack(l, v, i)'
      PROVE  Ahead(l, stack[v][i])'
  <2>1. stack'[v][i] = RangeFrame(1, NLayers)
    <3>1. v = w
      BY <1>1, <1>3, <1>5 DEF OnStack, TypeOK
    <3>2. stack'[w] = <<RangeFrame(1, NLayers)>>
      BY <1>1 DEF TypeOK
    <3>3. i \in DOMAIN <<RangeFrame(1, NLayers)>>
      BY <1>5, <3>1, <3>2 DEF OnStack
    <3>4. i = 1
      BY <3>3
    <3> QED
      BY <3>1, <3>2, <3>4
  <2> QED
    BY <1>1, <1>2, <1>4, <2>1 DEF Ahead
<1> QED
  BY <1>1, <1>2, <1>5 DEF Progress

LEMMA ProgressOfSplit ==
  ASSUME TypeOK, Covered, Progress, NEW w \in Workers, SplitRange(w)
  PROVE  Progress'
<1> DEFINE r == Top(w)
           mid == r.lo + (r.hi - r.lo + 1) \div 2
           right == LayersJob(mid, r.hi)
<1>1. Busy(w) /\ r.f = "range" /\ r.lo < r.hi
  BY DEF SplitRange, TopIs
<1>2. r \in Frame
  BY <1>1, TopFrame
<1>3. r.lo \in Layers /\ r.hi \in Layers /\ FrameClaim(r) = r.lo .. r.hi
  BY <1>1, <1>2, FrameFields
<1>4. mid \in Layers /\ mid - 1 \in Layers /\ r.lo <= mid - 1 /\ mid <= r.hi
  BY <1>1, <1>3, Halves
<1>5. /\ deque' = [deque EXCEPT ![w] = Append(@, right)]
      /\ Replace(w, <<JoinFrame(right), RangeFrame(r.lo, right.from - 1)>>)
      /\ injector' = injector /\ applied' = applied /\ cancel' = cancel
  BY DEF SplitRange
<1>6. \A l \in Layers : l \in r.lo .. r.hi => applied[l] = <<>>
  BY <1>1, <1>3, TopAhead DEF Ahead
<1> HIDE DEF mid
<1>7. right \in Job /\ JobClaim(right) = mid .. r.hi /\ right.from = mid
  BY <1>3, <1>4, MakeRange
<1> DEFINE x == JoinFrame(right)
           y == RangeFrame(r.lo, mid - 1)
<1>8. x \in Frame /\ FrameClaim(x) = {}
  BY <1>7, MakeJob
<1>9. y \in Frame /\ y.f = "range" /\ FrameClaim(y) = r.lo .. (mid - 1)
  BY <1>3, <1>4, MakeRange
<1>10. \A l \in Layers : /\ l \in FrameClaim(y) => applied[l] = <<>>
                         /\ l \in JobClaim(right) => applied[l] = <<>>
  BY <1>3, <1>4, <1>6, <1>7, <1>9 DEF Layers
<1>11. Replace(w, <<x, y>>)
  BY <1>5, <1>7
<1> HIDE DEF right, x, y
<1> DEFINE s == <<x, y>>
<1>12. s \in Seq(Frame) /\ Len(s) = 2 /\ s[1] = x /\ s[2] = y /\ Replace(w, s)
  BY <1>8, <1>9, <1>11, TwoFrames
<1> HIDE DEF s, r
<1>13. PICK n \in Nat : Stacked(w, n, s)
  BY <1>1, <1>12, Swapped
<1>14. \A i \in 1 .. Len(s), l \in Layers : l \in FrameClaim(s[i]) => Ahead(l, s[i])
  <2>1. \A i \in 1 .. Len(s) : i = 1 \/ i = 2
    BY <1>12
  <2>2. \A l \in Layers : l \in FrameClaim(y) => Ahead(l, y)
    BY <1>9, <1>10 DEF Ahead
  <2> QED
    BY <1>8, <1>12, <2>1, <2>2
<1>15. \A l \in Layers, v \in Workers, i \in Nat :
         OnDeque(l, v, i)' => OnDeque(l, v, i) \/ l \in JobClaim(right)
  BY <1>5, <1>7, Appended
<1>16. \A l \in Layers, v \in Workers, i \in Nat : OnDeque(l, v, i)' => applied[l] = <<>>
  BY <1>10, <1>15 DEF Progress
<1>17. ~injector'
  BY <1>1, <1>5 DEF Covered, Busy
<1> QED
  BY <1>5, <1>13, <1>14, <1>16, <1>17, ProgressKeeps

LEMMA ProgressOfPop ==
  ASSUME TypeOK, Covered, Progress, NEW w \in Workers, PopOwn(w)
  PROVE  Progress'
<1> DEFINE job == Top(w).job
<1>1. /\ Busy(w) /\ Top(w).f = "join" /\ deque[w] # <<>> /\ Last(deque[w]) = job
      /\ deque' = [deque EXCEPT ![w] = Front(@)]
      /\ Replace(w, Content(job)) /\ injector' = injector /\ applied' = applied /\ cancel' = cancel
  BY DEF PopOwn, TopIs
<1>2. job \in Job
  BY <1>1, TopFrame, FrameFields
<1> HIDE DEF job
<1>3. PICK m \in Nat : m = Len(deque[w])
  BY <1>1, Shortened
<1>4. /\ \A l \in Layers : OnDeque(l, w, m) <=> l \in JobClaim(job)
      /\ \A l \in Layers, v \in Workers, i \in Nat : OnDeque(l, v, i)' => OnDeque(l, v, i)
  BY <1>1, <1>3, Shortened
<1>5. \A l \in Layers : l \in JobClaim(job) => applied[l] = <<>>
  BY <1>4 DEF Progress
<1>6. \A l \in Layers, v \in Workers, i \in Nat : OnDeque(l, v, i)' => applied[l] = <<>>
  BY <1>4 DEF Progress
<1> DEFINE s == Content(job)
<1>7. s \in Seq(Frame) /\ Replace(w, s)
  BY <1>1, <1>2, ContentIs
<1>8. \A i \in 1 .. Len(s) : s[i].f = "range" /\ FrameClaim(s[i]) = JobClaim(job)
  <2>1. CASE \E x \in Frame : s = <<x>> /\ x.f = "range" /\ FrameClaim(x) = JobClaim(job)
    BY <2>1, OneFrame
  <2>2. CASE s = <<>>
    BY <2>2, NoFrame
  <2> QED
    BY <1>2, <2>1, <2>2, ContentIs
<1> HIDE DEF s
<1>9. PICK n \in Nat : Stacked(w, n, s)
  BY <1>1, <1>7, Swapped
<1>10. \A i \in 1 .. Len(s), l \in Layers : l \in FrameClaim(s[i]) => Ahead(l, s[i])
  BY <1>5, <1>8 DEF Ahead
<1>11. ~injector'
  BY <1>1 DEF Covered, Busy
<1> QED
  BY <1>1, <1>6, <1>9, <1>10, <1>11, ProgressKeeps

LEMMA ProgressOfSteal ==
  ASSUME TypeOK, Covered, Progress, NEW w \in Workers, NEW v \in Workers, Steal(w, v)
  PROVE  Progress'
<1> DEFINE h == Head(deque[v])
<1>1. /\ deque[v] # <<>> /\ deque' = [deque EXCEPT ![v] = Tail(@)]
      /\ stack' = [stack EXCEPT ![w] = @ \o <<StolenFrame(h)>> \o Content(h)]
      /\ injector' = injector /\ applied' = applied /\ cancel' = cancel
  BY DEF Steal
<1>2. h \in Job /\ \A l \in Layers : OnDeque(l, v, 1) <=> l \in JobClaim(h)
  BY <1>1, Beheaded
<1>3. \A l \in Layers, u \in Workers, i \in Nat :
        OnDeque(l, u, i)' => OnDeque(l, u, i) \/ OnDeque(l, u, i + 1)
  <2>1. \A l \in Layers, u \in Workers \ {v}, i \in Nat :
          OnDeque(l, u, i)' <=> OnDeque(l, u, i)
    BY <1>1, Beheaded
  <2>2. \A l \in Layers, i \in Nat : OnDeque(l, v, i)' => OnDeque(l, v, i + 1)
    BY <1>1, Beheaded
  <2> QED
    BY <2>1, <2>2
<1> HIDE DEF h
<1>4. \A l \in Layers : l \in JobClaim(h) => applied[l] = <<>>
  BY <1>2 DEF Progress
<1>5. \A l \in Layers, u \in Workers, i \in Nat : OnDeque(l, u, i)' => applied[l] = <<>>
  <2>1. \A i \in Nat : i + 1 \in Nat
    OBVIOUS
  <2> QED
    BY <1>3, <2>1 DEF Progress
<1>6. PICK n \in Nat : n = Len(stack[w])
  BY DEF TypeOK
<1>7. PICK s \in Seq(Frame) :
        /\ Stacked(w, Len(stack[w]), s) /\ Len(s) \in {1, 2} /\ s[1].f = "stolen"
        /\ Len(s) = 2 => s[2].f = "range" /\ FrameClaim(s[2]) = JobClaim(h)
  BY <1>1, <1>2, StolenStack
<1>8. FrameClaim(s[1]) = {}
  BY <1>7 DEF FrameClaim
<1>9. \A i \in 1 .. Len(s), l \in Layers : l \in FrameClaim(s[i]) => Ahead(l, s[i])
  <2>1. \A i \in 1 .. Len(s) : i = 1 \/ (i = 2 /\ Len(s) = 2)
    <3>1. CASE Len(s) = 1
      BY <3>1
    <3>2. CASE Len(s) = 2
      BY <3>2
    <3> QED
      BY <1>7, <3>1, <3>2
  <2>2. Len(s) = 2 => \A l \in Layers : l \in FrameClaim(s[2]) => Ahead(l, s[2])
    BY <1>4, <1>7 DEF Ahead
  <2> QED
    BY <1>8, <2>1, <2>2
<1>10. Stacked(w, n, s) /\ ~injector'
  BY <1>1, <1>6, <1>7 DEF Covered
<1> QED
  BY <1>1, <1>5, <1>9, <1>10, ProgressKeeps

LEMMA ProgressOfFanOut ==
  ASSUME TypeOK, Covered, Progress, NEW w \in Workers, FanOut(w)
  PROVE  Progress'
<1> DEFINE r == Top(w)
           job == BatchJob(r.l, r.k)
           x == LayerFrame(r.l, r.k, "batched")
           y == JoinFrame(job)
<1>1. /\ Busy(w) /\ r.f = "layer" /\ r.at = "guest"
      /\ deque' = [deque EXCEPT ![w] = Append(@, job)]
      /\ Replace(w, <<x, y>>) /\ injector' = injector /\ applied' = applied /\ cancel' = cancel
  BY DEF FanOut, InLayer, TopIs
<1>2. r \in Frame
  BY <1>1, TopFrame
<1>3. /\ r.l \in Layers /\ r.k \in Modules /\ r.k \in 1 .. (NModules + 1)
      /\ FrameClaim(r) = {r.l}
  BY <1>1, <1>2, FrameFields
<1>4. job \in Job /\ JobClaim(job) = {}
  BY <1>3, MakeBatch
<1>5. /\ x \in Frame /\ FrameClaim(x) = {r.l} /\ x.f = "layer" /\ x.k = r.k
      /\ x.at = "batched"
  BY <1>3, MakeLayer DEF Stage
<1>6. y \in Frame /\ FrameClaim(y) = {}
  BY <1>4, MakeJob
<1>7. Ahead(r.l, r)
  BY <1>1, <1>3, TopAhead
<1>8. Ahead(r.l, x)
  BY <1>1, <1>5, <1>7 DEF Ahead
<1>9. \A l \in Layers : l \in FrameClaim(x) => Ahead(l, x)
  BY <1>5, <1>8
<1> HIDE DEF job, x, y, r
<1> DEFINE s == <<x, y>>
<1>10. s \in Seq(Frame) /\ Len(s) = 2 /\ s[1] = x /\ s[2] = y /\ Replace(w, s)
  BY <1>1, <1>5, <1>6, TwoFrames
<1> HIDE DEF s
<1>11. PICK n \in Nat : Stacked(w, n, s)
  BY <1>1, <1>10, Swapped
<1>12. \A i \in 1 .. Len(s), l \in Layers : l \in FrameClaim(s[i]) => Ahead(l, s[i])
  <2>1. \A i \in 1 .. Len(s) : i = 1 \/ i = 2
    BY <1>10
  <2> QED
    BY <1>6, <1>9, <1>10, <2>1
<1>13. \A l \in Layers, v \in Workers, i \in Nat : OnDeque(l, v, i)' => OnDeque(l, v, i)
  BY <1>1, <1>4, Appended
<1>14. \A l \in Layers, v \in Workers, i \in Nat : OnDeque(l, v, i)' => applied[l] = <<>>
  BY <1>13 DEF Progress
<1>15. ~injector'
  BY <1>1 DEF Covered, Busy
<1> QED
  BY <1>1, <1>11, <1>12, <1>14, <1>15, ProgressKeeps

LEMMA ProgressOfStart ==
  ASSUME TypeOK, Covered, Progress, NEW w \in Workers, StartLayer(w)
  PROVE  Progress'
<1>1. /\ Busy(w) /\ Top(w).f = "range" /\ Top(w).lo \in Layers
      /\ FrameClaim(Top(w)) = {Top(w).lo}
      /\ injector' = injector /\ deque' = deque /\ applied' = applied /\ cancel' = cancel
  BY StartShape
<1>2. ~injector'
  BY <1>1 DEF Covered, Busy
<1>3. CASE Finishes(w, Top(w).lo, "cancelled")
  BY <1>1, <1>2, <1>3, ProgressPop DEF Finishes, EndLayer
<1>4. CASE Becomes(w, LayerFrame(Top(w).lo, 1, "module"))
  <2>1. PICK l \in Layers : l = Top(w).lo
    BY <1>1
  <2>2. applied[l] = <<>>
    BY <1>1, <2>1, TopAhead DEF Ahead
  <2> DEFINE x == LayerFrame(l, 1, "module")
  <2>3. /\ x \in Frame /\ FrameClaim(x) = {l} /\ x.f = "layer" /\ x.k = 1
        /\ x.at = "module"
    <3>1. 1 \in 1 .. (NModules + 1) /\ "module" \in Stage
      BY TierAssumption DEF Stage
    <3> QED
      BY <3>1, MakeLayer
  <2> HIDE DEF x
  <2>4. Applied(l) = {}
    BY <2>2 DEF Applied, ToSet
  <2>5. Before(l, 1) = {} /\ 1 \in 1 .. (NModules + 1)
    BY TierAssumption DEF Before, Due, Wanted, Modules
  <2>6. Ahead(l, x)
    BY <2>3, <2>4, <2>5 DEF Ahead
  <2>7. Becomes(w, x)
    BY <1>4, <2>1 DEF x
  <2> QED
    BY <1>1, <1>2, <2>3, <2>6, <2>7, ProgressBecomes
<1> QED
  BY <1>3, <1>4, StartShape

\* The next module of a layer, with nothing committed by this one.
LEMMA PastModule ==
  ASSUME NEW l \in Layers, NEW k \in Modules, k \notin Due(l)
  PROVE  Before(l, k + 1) = Before(l, k)
<1>1. k \in Nat /\ \A j \in Due(l) : j \in Nat
  BY TierAssumption DEF Due, Wanted, Modules
<1>2. \A j \in Due(l) : j < k + 1 <=> j < k
  BY <1>1
<1> QED
  BY <1>2 DEF Before

\* A guest call that returned nothing, and one that returned a commit.
ReturnsEmpty(w) == GuestReturns(w) /\ <<Top(w).l, Top(w).k>> \in Empty
ReturnsCommit(w) == GuestReturns(w) /\ <<Top(w).l, Top(w).k>> \notin Empty

LEMMA ProgressOfModule ==
  ASSUME TypeOK, Covered, Progress, NEW w \in Workers,
         SkipModule(w) \/ YieldsNothing(w) \/ Dispatch(w) \/ OwnerReady(w)
         \/ Acquire(w) \/ ReturnsEmpty(w)
  PROVE  Progress'
<1> DEFINE r == Top(w)
<1>1. /\ Busy(w) /\ r.f = "layer"
      /\ injector' = injector /\ deque' = deque /\ applied' = applied
      /\ cancel' = cancel
  BY DEF SkipModule, YieldsNothing, Dispatch, OwnerReady, Acquire, ReturnsEmpty,
         GuestReturns, Commit, InLayer, TopIs
<1>2. r \in Frame
  BY <1>1, TopFrame
<1>3. /\ r.l \in Layers /\ r.k \in 1 .. (NModules + 1) /\ FrameClaim(r) = {r.l}
      /\ r.at # "module" => r.k \in Modules
  BY <1>1, <1>2, FrameFields
<1>4. Ahead(r.l, r) /\ ~injector' /\ NModules \in Nat
  BY <1>1, <1>3, TopAhead, TierAssumption DEF Covered, Busy
<1>5. ASSUME NEW k \in 1 .. (NModules + 1), NEW at \in Stage,
             at # "module" => k \in Callable(r.l),
             at # "module" \/ ~cancel => Applied(r.l) = Before(r.l, k),
             \E c \in 1 .. (NModules + 1) : c <= k /\ Applied(r.l) = Before(r.l, c),
             Replace(w, <<LayerFrame(r.l, k, at)>>)
      PROVE  Progress'
  <2> DEFINE x == LayerFrame(r.l, k, at)
  <2>1. /\ x \in Frame /\ FrameClaim(x) = {r.l} /\ x.f = "layer" /\ x.k = k
        /\ x.at = at
    BY <1>3, <1>5, MakeLayer DEF Callable, Wanted
  <2>2. Becomes(w, x)
    BY <1>1, <1>5, <2>1 DEF Becomes
  <2> HIDE DEF x
  <2>3. Ahead(r.l, x)
    BY <1>5, <2>1 DEF Ahead
  <2> QED
    BY <1>1, <1>4, <2>1, <2>2, <2>3, ProgressBecomes
<1>6. /\ r.at # "module" => r.k \in Callable(r.l)
      /\ r.at # "module" \/ ~cancel => Applied(r.l) = Before(r.l, r.k)
      /\ \E c \in 1 .. (NModules + 1) : c <= r.k /\ Applied(r.l) = Before(r.l, c)
  BY <1>1, <1>4 DEF Ahead
<1>7. ASSUME r.k \in Modules, cancel \/ r.k \notin Due(r.l),
             Replace(w, <<LayerFrame(r.l, r.k + 1, "module")>>)
      PROVE  Progress'
  <2> HIDE DEF r
  <2>1. r.k + 1 \in 1 .. (NModules + 1) /\ "module" \in Stage
    BY <1>4, <1>7 DEF Modules, Stage
  <2>2. ~cancel => Applied(r.l) = Before(r.l, r.k + 1)
    BY <1>3, <1>6, <1>7, PastModule
  <2>3. \E c \in 1 .. (NModules + 1) : c <= r.k + 1 /\ Applied(r.l) = Before(r.l, c)
    <3>1. PICK c \in 1 .. (NModules + 1) : c <= r.k /\ Applied(r.l) = Before(r.l, c)
      BY <1>6
    <3>2. c <= r.k + 1
      BY <1>3, <1>4, <3>1
    <3> QED
      BY <3>1, <3>2
  <2> QED
    BY <1>5, <1>7, <2>1, <2>2, <2>3
<1>8. CASE SkipModule(w)
  <2>1. /\ r.k \in Modules /\ r.k \notin Due(r.l)
        /\ Replace(w, <<LayerFrame(r.l, r.k + 1, "module")>>)
    BY <1>3, <1>4, <1>8 DEF SkipModule, Modules, Due, Wanted
  <2> QED
    BY <1>7, <2>1
<1>9. CASE YieldsNothing(w)
  <2>1. r.k \in Modules
    BY <1>3, <1>4, <1>9 DEF YieldsNothing, InLayer, Modules
  <2>2. cancel \/ <<r.l, r.k>> \in NoWork
    BY <1>9 DEF YieldsNothing
  <2>3. Replace(w, <<LayerFrame(r.l, r.k + 1, "module")>>)
    BY <1>9 DEF YieldsNothing
  <2>4. cancel \/ r.k \notin Due(r.l)
    BY <2>2 DEF Due
  <2> QED
    BY <1>7, <2>1, <2>3, <2>4
<1>10. CASE ReturnsEmpty(w)
  <2>1. /\ r.at # "module" /\ <<r.l, r.k>> \in Empty
        /\ Replace(w, <<LayerFrame(r.l, r.k + 1, "module")>>)
    BY <1>10 DEF ReturnsEmpty, GuestReturns, InLayer
  <2>2. r.k \in Modules /\ r.k \notin Due(r.l)
    BY <1>3, <2>1 DEF Due
  <2> QED
    BY <1>7, <2>1, <2>2
<1>11. ASSUME NEW at \in {"probe", "acquire", "guest"},
              r.k \in Callable(r.l), Applied(r.l) = Before(r.l, r.k),
              Replace(w, <<LayerFrame(r.l, r.k, at)>>)
       PROVE  Progress'
  <2>1. at \in Stage
    BY <1>11 DEF Stage
  <2> QED
    BY <1>3, <1>5, <1>6, <1>11, <2>1
<1>12. CASE Dispatch(w)
  <2>1. /\ r.k <= NModules /\ <<r.l, r.k>> \in Selected \ NoWork /\ ~cancel
    BY <1>12 DEF Dispatch
  <2>2. r.k \in Callable(r.l) /\ Applied(r.l) = Before(r.l, r.k)
    BY <1>3, <1>4, <1>6, <2>1 DEF Callable, Wanted, Modules
  <2>3. \/ Replace(w, <<LayerFrame(r.l, r.k, "probe")>>)
        \/ Replace(w, <<LayerFrame(r.l, r.k, "acquire")>>)
    BY <1>12 DEF Dispatch
  <2> QED
    BY <1>11, <2>2, <2>3
<1>13. CASE OwnerReady(w)
  <2>1. r.at = "probe" /\ Replace(w, <<LayerFrame(r.l, r.k, "acquire")>>)
    BY <1>13 DEF OwnerReady, InLayer
  <2> QED
    BY <1>6, <1>11, <2>1
<1>14. CASE Acquire(w)
  <2>1. r.at = "acquire" /\ Replace(w, <<LayerFrame(r.l, r.k, "guest")>>)
    BY <1>14 DEF Acquire, InLayer
  <2> QED
    BY <1>6, <1>11, <2>1
<1> QED
  BY <1>8, <1>9, <1>10, <1>12, <1>13, <1>14

LEMMA SetOfAppend ==
  ASSUME NEW S, NEW t \in Seq(S), NEW k \in S
  PROVE  /\ ToSet(Append(t, k)) = ToSet(t) \cup {k}
         /\ DOMAIN Append(t, k) = 1 .. (Len(t) + 1)
         /\ \A i \in 1 .. Len(t) : Append(t, k)[i] = t[i]
         /\ Append(t, k)[Len(t) + 1] = k
<1>1. PICK m \in Nat : m = Len(t) /\ DOMAIN t = 1 .. m
  OBVIOUS
<1> DEFINE u == Append(t, k)
<1>2. /\ DOMAIN u = 1 .. (m + 1) /\ u[m + 1] = k
      /\ \A i \in 1 .. m : u[i] = t[i]
  BY <1>1
<1> HIDE DEF u
<1>3. \A i : i \in 1 .. (m + 1) <=> i \in 1 .. m \/ i = m + 1
  OBVIOUS
<1>4. ToSet(u) = ToSet(t) \cup {k}
  BY <1>1, <1>2, <1>3 DEF ToSet
<1> QED
  BY <1>1, <1>2, <1>4 DEF u

\* The commit of module k to layer l, the frame x that goes on with it.
Commits(w, l, k, n, x) ==
  /\ Len(stack[w]) = n + 1 /\ Stacked(w, n, <<x>>)
  /\ x.f = "layer" /\ x.k = k + 1 /\ x.at = "module" /\ FrameClaim(x) = {l}
  /\ k \in Due(l) /\ Applied(l) = Before(l, k)
  /\ OnStack(l, w, n + 1)
  /\ applied' = [applied EXCEPT ![l] = Append(@, k)]
  /\ injector' = injector /\ deque' = deque /\ ended' = ended /\ cancel' = cancel

LEMMA CommitShape ==
  ASSUME TypeOK, Progress, NEW w \in Workers, ReturnsCommit(w)
  PROVE  \E l \in Layers, k \in Modules, n \in Nat, x \in Frame : Commits(w, l, k, n, x)
<1> DEFINE r == Top(w)
<1>1. /\ Busy(w) /\ r.f = "layer" /\ r.at # "module"
      /\ injector' = injector /\ deque' = deque /\ ended' = ended /\ cancel' = cancel
      /\ applied' = [applied EXCEPT ![r.l] = Append(@, r.k)]
      /\ Replace(w, <<LayerFrame(r.l, r.k + 1, "module")>>)
      /\ <<r.l, r.k>> \notin Empty
  BY DEF ReturnsCommit, GuestReturns, Commit, InLayer, TopIs
<1>2. r \in Frame
  BY <1>1, TopFrame
<1>3. r.l \in Layers /\ r.k \in Modules /\ FrameClaim(r) = {r.l}
  BY <1>1, <1>2, FrameFields
<1>4. r.k \in Due(r.l) /\ Applied(r.l) = Before(r.l, r.k)
  BY <1>1, <1>3, TopAhead DEF Ahead, Callable, Due
<1>5. PICK l \in Layers, k \in Modules : l = r.l /\ k = r.k
  BY <1>3
<1> DEFINE x == LayerFrame(l, k + 1, "module")
<1>6. /\ x \in Frame /\ x.f = "layer" /\ x.k = k + 1 /\ x.at = "module"
      /\ FrameClaim(x) = {l}
  <2>1. k + 1 \in 1 .. (NModules + 1) /\ "module" \in Stage
    BY TierAssumption DEF Modules, Stage
  <2> QED
    BY <2>1, MakeLayer
<1>7. Replace(w, <<x>>)
  BY <1>1, <1>5
<1> HIDE DEF x
<1>8. <<x>> \in Seq(Frame)
  BY <1>6, OneFrame
<1>9. PICK n \in Nat : /\ Len(stack[w]) = n + 1 /\ Stacked(w, n, <<x>>)
                       /\ r = stack[w][n + 1]
  BY <1>1, <1>7, <1>8, Swapped
<1>10. OnStack(l, w, n + 1)
  BY <1>1, <1>3, <1>5, <1>9, TopFrame DEF OnStack
<1>11. Commits(w, l, k, n, x)
  BY <1>1, <1>4, <1>5, <1>6, <1>9, <1>10 DEF Commits
<1> QED
  BY <1>6, <1>11

LEMMA ProgressOfCommit ==
  ASSUME TypeOK, Sole', Covered, Progress, NEW w \in Workers,
         NEW l \in Layers, NEW k \in Modules, NEW n \in Nat, NEW x \in Frame,
         Commits(w, l, k, n, x)
  PROVE  Progress'
<1>1. /\ Stacked(w, n, <<x>>) /\ Len(stack[w]) = n + 1
      /\ <<x>>[1] = x /\ Len(<<x>>) = 1
  BY OneFrame DEF Commits
<1>2. /\ stack'[w][n + 1] = x /\ DOMAIN stack'[w] = 1 .. (n + 1)
      /\ \A i \in 1 .. n : stack'[w][i] = stack[w][i]
      /\ \A v \in Workers \ {w} : stack'[v] = stack[v]
      /\ DOMAIN stack[w] = 1 .. (n + 1)
  BY <1>1 DEF Stacked, TypeOK
<1>3. OnStack(l, w, n + 1)'
  <2>1. n + 1 \in DOMAIN stack'[w] /\ l \in FrameClaim(stack'[w][n + 1])
    BY <1>2 DEF Commits
  <2>2. PICK q : q = n + 1
    OBVIOUS
  <2> QED
    BY <2>1, <2>2 DEF OnStack
<1>4. n + 1 \in Nat /\ SoleFor(l)'
  BY DEF Sole
<1>5. /\ applied'[l] = Append(applied[l], k)
      /\ \A m \in Layers \ {l} : applied'[m] = applied[m]
  BY DEF Commits, TypeOK
<1>6. ToSet(applied'[l]) = Applied(l) \cup {k}
  BY <1>5, SetOfAppend DEF Applied, TypeOK
<1>7. Before(l, k + 1) = Before(l, k) \cup {k}
  <2>1. k \in Due(l) /\ k \in Nat /\ \A j \in Due(l) : j \in Nat
    BY TierAssumption DEF Commits, Due, Wanted, Modules
  <2>2. \A j \in Due(l) : j < k + 1 <=> j < k \/ j = k
    BY <2>1
  <2> QED
    BY <2>1, <2>2 DEF Before
<1>8. Ahead(l, x)'
  <2>1. PICK y : y = x
    OBVIOUS
  <2>2. ToSet(applied'[l]) = Before(l, y.k)
    BY <1>6, <1>7, <2>1 DEF Commits
  <2>3. y.f = "layer" /\ y.at = "module" /\ y.k \in 1 .. (NModules + 1) /\ y.k <= y.k
    BY <2>1, TierAssumption DEF Commits, Modules
  <2> QED
    BY <2>1, <2>2, <2>3 DEF Ahead, Applied
<1>9. ASSUME NEW m \in Layers, NEW v \in Workers, NEW i \in Nat, OnStack(m, v, i)'
      PROVE  Ahead(m, stack[v][i])'
  <2>1. CASE v = w /\ i = n + 1
    <3>1. stack'[v][i] = x /\ m = l
      BY <1>2, <1>9, <2>1 DEF OnStack, Commits
    <3> QED
      BY <1>8, <3>1
  <2>2. CASE ~(v = w /\ i = n + 1)
    <3>1. m # l
      BY <1>3, <1>4, <1>9, <2>2 DEF SoleFor
    <3>2. PICK f : f = stack'[v][i]
      OBVIOUS
    <3>3. OnStack(m, v, i) /\ stack[v][i] = f
      BY <1>2, <1>9, <2>2, <3>2 DEF OnStack
    <3>4. Ahead(m, f)
      BY <3>3 DEF Progress
    <3>5. applied'[m] = applied[m] /\ cancel' = cancel
      BY <1>5, <3>1 DEF Commits
    <3> QED
      BY <3>2, <3>4, <3>5 DEF Ahead, Applied
  <2> QED
    BY <2>1, <2>2
<1>10. ASSUME NEW m \in Layers, NEW v \in Workers, NEW i \in Nat, OnDeque(m, v, i)'
       PROVE  applied'[m] = <<>>
  <2>1. m # l
    BY <1>3, <1>4, <1>10 DEF SoleFor
  <2>2. OnDeque(m, v, i)
    BY <1>10 DEF OnDeque, Commits
  <2> QED
    BY <1>5, <2>1, <2>2 DEF Progress
<1>11. ~injector'
  BY <1>1, <1>2 DEF Covered, Commits
<1> QED
  BY <1>9, <1>10, <1>11 DEF Progress

LEMMA ProgressStep ==
  ASSUME TypeOK, Sole, Covered, Progress, NEW w \in Workers, Worker(w)
  PROVE  Progress'
<1>1. CASE TakeRoot(w) \/ SplitRange(w) \/ PopOwn(w) \/ (\E v \in Workers : Steal(w, v))
  BY <1>1, ProgressOfRoot, ProgressOfSplit, ProgressOfPop, ProgressOfSteal
<1>2. CASE StartLayer(w) \/ SkipModule(w) \/ YieldsNothing(w) \/ Dispatch(w)
           \/ OwnerReady(w) \/ Acquire(w) \/ FanOut(w) \/ ReturnsEmpty(w)
  BY <1>2, ProgressOfStart, ProgressOfModule, ProgressOfFanOut
<1>3. CASE DropRange(w) \/ FinishStolen(w) \/ ResumeJoin(w)
  <2>1. /\ Busy(w) /\ Replace(w, <<>>) /\ injector' = injector
        /\ applied' = applied /\ cancel' = cancel /\ deque' = deque
    BY <1>3 DEF DropRange, FinishStolen, ResumeJoin, TopIs
  <2>2. ~injector'
    BY <2>1 DEF Covered, Busy
  <2> QED
    BY <2>1, <2>2, ProgressPop
<1>4. CASE LayerFails(w) \/ GuestFails(w) \/ FinishLayer(w)
  <2>1. /\ Busy(w) /\ Replace(w, <<>>) /\ injector' = injector
        /\ applied' = applied /\ cancel' = cancel /\ deque' = deque
    BY <1>4 DEF LayerFails, GuestFails, FinishLayer, EndLayer, InLayer, TopIs
  <2>2. ~injector'
    BY <2>1 DEF Covered, Busy
  <2> QED
    BY <2>1, <2>2, ProgressPop
<1>5. CASE ReturnsCommit(w)
  <2>1. Sole'
    BY <1>5, ClaimsOfLayer DEF Kept, ReturnsCommit
  <2> QED
    BY <1>5, <2>1, CommitShape, ProgressOfCommit
<1> QED
  BY <1>1, <1>2, <1>3, <1>4, <1>5 DEF Worker, ReturnsEmpty, ReturnsCommit

\* What CommitsInPlanOrder says of one layer.
InOrder(l) ==
  /\ \A i, j \in DOMAIN applied[l] : i < j => applied[l][i] < applied[l][j]
  /\ Applied(l) \subseteq Due(l)
  /\ \A k \in Applied(l), j \in Due(l) : j < k => j \in Applied(l)
  /\ ended[l] = "ok" => Applied(l) = Due(l) \/ cancel

LEMMA OrderOfCommit ==
  ASSUME TypeOK, Covered, NEW w \in Workers,
         NEW l \in Layers, NEW k \in Modules, NEW n \in Nat, NEW x \in Frame,
         Commits(w, l, k, n, x), InOrder(l)
  PROVE  InOrder(l)'
<1> DEFINE t == applied[l]
<1>1. t \in Seq(Modules) /\ applied'[l] = Append(t, k) /\ ended'[l] = ended[l]
  BY DEF Commits, TypeOK
<1>2. PICK m \in Nat : m = Len(t) /\ DOMAIN t = 1 .. m
  BY <1>1
<1>3. /\ ToSet(applied'[l]) = ToSet(t) \cup {k}
      /\ DOMAIN applied'[l] = 1 .. (m + 1)
      /\ \A i \in 1 .. m : applied'[l][i] = t[i]
      /\ applied'[l][m + 1] = k
  BY <1>1, <1>2, SetOfAppend
<1>4. /\ k \in Due(l) /\ ToSet(t) = {j \in Due(l) : j < k}
  BY DEF Commits, Applied, Before
<1>5. \A i \in 1 .. m : t[i] < k
  BY <1>2, <1>4 DEF ToSet
<1>6. \A i, j \in 1 .. m : i < j => t[i] < t[j]
  BY <1>2 DEF InOrder
<1>7. ended[l] = "no"
  <2>1. OnStack(l, w, n + 1) /\ n + 1 \in Nat
    BY DEF Commits
  <2> QED
    BY <2>1 DEF Covered, CoveredFor, Claimed
<1> HIDE DEF t
<1>8. \A i, j \in DOMAIN applied'[l] : i < j => applied'[l][i] < applied'[l][j]
  <2> SUFFICES ASSUME NEW i \in 1 .. (m + 1), NEW j \in 1 .. (m + 1), i < j
               PROVE  applied'[l][i] < applied'[l][j]
    BY <1>3
  <2>1. i \in 1 .. m /\ (j \in 1 .. m \/ j = m + 1)
    OBVIOUS
  <2> QED
    BY <1>3, <1>5, <1>6, <2>1
<1>9. \A j \in Due(l) : j \in Nat
  BY TierAssumption DEF Due, Wanted, Modules
<1>10. \A c \in ToSet(applied'[l]), j \in Due(l) : j < c => j \in ToSet(applied'[l])
  BY <1>3, <1>4, <1>9
<1>11. ToSet(applied'[l]) \subseteq Due(l)
  BY <1>3, <1>4
<1> QED
  BY <1>1, <1>7, <1>8, <1>10, <1>11 DEF InOrder, Applied

LEMMA CommitsStep ==
  ASSUME TypeOK, Covered, Progress, CommitsInPlanOrder, NEW w \in Workers, Worker(w)
  PROVE  CommitsInPlanOrder'
<1>1. SUFFICES ASSUME NEW l \in Layers PROVE InOrder(l)'
  BY DEF CommitsInPlanOrder, InOrder
<1>2. InOrder(l)
  BY DEF CommitsInPlanOrder, InOrder
<1>3. CASE ReturnsCommit(w)
  <2>1. PICK m \in Layers, k \in Modules, n \in Nat, x \in Frame :
          Commits(w, m, k, n, x)
    BY <1>3, CommitShape
  <2>2. CASE l = m
    BY <1>2, <2>1, <2>2, OrderOfCommit
  <2>3. CASE l # m
    <3>1. applied'[l] = applied[l] /\ ended'[l] = ended[l] /\ cancel' = cancel
      BY <2>1, <2>3 DEF Commits, TypeOK
    <3> QED
      BY <1>2, <3>1 DEF InOrder, Applied
  <2> QED
    BY <2>2, <2>3
<1>4. CASE ~ReturnsCommit(w)
  <2>1. applied' = applied /\ cancel' = cancel
    BY <1>4 DEF Worker, TakeRoot, SplitRange, DropRange, PopOwn, Steal, FinishStolen,
         ResumeJoin, StartLayer, LayerFails, SkipModule, YieldsNothing, Dispatch,
         OwnerReady, Acquire, FanOut, GuestReturns, ReturnsCommit, Commit, GuestFails,
         FinishLayer
  <2>2. ended'[l] = "ok" => ended[l] = "ok" \/ Applied(l) = Due(l) \/ cancel
    <3>1. CASE UNCHANGED <<ended, full>>
      BY <3>1
    <3>2. CASE DropRange(w)
      BY <3>2 DEF DropRange
    <3>3. ASSUME NEW m \in Layers, NEW how \in {"ok", "error", "cancelled"},
                 Finishes(w, m, how), how = "ok" => FinishLayer(w) /\ m = Top(w).l,
                 ended'[l] = "ok", ended[l] # "ok", ~cancel
          PROVE  Applied(l) = Due(l)
      <4>1. ended' = [ended EXCEPT ![m] = how]
        BY <3>3 DEF Finishes, EndLayer
      <4>2. l = m /\ how = "ok"
        BY <3>3, <4>1 DEF TypeOK
      <4>3. /\ Busy(w) /\ Top(w).f = "layer" /\ Top(w).k > NModules /\ l = Top(w).l
        BY <3>3, <4>2 DEF FinishLayer, InLayer, TopIs
      <4>4. Top(w).k \in 1 .. (NModules + 1) /\ FrameClaim(Top(w)) = {l}
        BY <4>3, TopFrame, FrameFields
      <4>5. Applied(l) = Before(l, Top(w).k)
        BY <3>3, <4>3, <4>4, TopAhead DEF Ahead
      <4>6. PICK k : k = Top(w).k
        OBVIOUS
      <4>7. k \in 1 .. (NModules + 1) /\ k > NModules /\ NModules \in Nat
        BY <4>3, <4>4, <4>6, TierAssumption
      <4>8. \A j \in Due(l) : j < k
        BY <4>7 DEF Due, Wanted, Modules
      <4> QED
        BY <4>5, <4>6, <4>8 DEF Before
    <3> QED
      BY <3>1, <3>2, <3>3, EndingOf
  <2> QED
    BY <1>2, <2>1, <2>2 DEF InOrder, Applied
<1> QED
  BY <1>3, <1>4

-----------------------------------------------------------------------------
(* Leases.                                                                 *)

\* The module whose guest call a frame is, if it is one.
Called(f) == IF f.f = "layer" /\ f.at \in {"guest", "batched"} THEN {f.k} ELSE {}

InCall(k, w, i) == i \in DOMAIN stack[w] /\ k \in Called(stack[w][i])

LEMMA CallsAre ==
  ASSUME TypeOK, NEW k \in Modules
  PROVE  \A p : p \in Calls(k) <=> \E w \in Workers, i \in Nat : p = <<w, i>> /\ InCall(k, w, i)
<1>1. \A w \in Workers : \A i : i \in Holding(w, k) <=> InCall(k, w, i)
  BY DEF Holding, InCall, Called
<1>2. \A w \in Workers : \A i \in DOMAIN stack[w] : i \in Nat
  BY DEF TypeOK
<1>3. \A w \in Workers : \A i : i \in Holding(w, k) => i \in Nat
  BY <1>2 DEF Holding
<1> QED
  BY <1>1, <1>3 DEF Calls

\* Frame n + 1 of w is a call of the modules A before a step and B after it.
Handed(w, n, A, B) ==
  \A k \in Modules :
    /\ InCall(k, w, n + 1) <=> k \in A
    /\ \A v \in Workers, i \in Nat :
         InCall(k, v, i)' <=> \/ InCall(k, v, i) /\ ~(v = w /\ i = n + 1)
                              \/ v = w /\ i = n + 1 /\ k \in B

LEMMA Hands ==
  ASSUME TypeOK, NEW w \in Workers, NEW n \in Nat, NEW s, Stacked(w, n, s), NEW A, NEW B,
         \/ Len(stack[w]) = n /\ A = {}
         \/ Len(stack[w]) = n + 1 /\ A = Called(stack[w][n + 1]),
         Len(s) = 0 => B = {}, Len(s) # 0 => Called(s[1]) = B,
         \A i \in 1 .. Len(s) : i # 1 => Called(s[i]) = {}
  PROVE  Handed(w, n, A, B)
<1>1. /\ Len(s) \in Nat /\ Len(stack[w]) \in Nat
      /\ DOMAIN stack[w] = 1 .. Len(stack[w])
  BY DEF Stacked, TypeOK
<1>2. PICK m \in Nat : m = Len(s)
  BY <1>1
<1> SUFFICES ASSUME NEW k \in Modules
             PROVE  /\ InCall(k, w, n + 1) <=> k \in A
                    /\ \A v \in Workers, i \in Nat :
                         InCall(k, v, i)' <=>
                           \/ InCall(k, v, i) /\ ~(v = w /\ i = n + 1)
                           \/ v = w /\ i = n + 1 /\ k \in B
  BY DEF Handed
<1>3. InCall(k, w, n + 1) <=> k \in A
  BY <1>1 DEF InCall
<1>4. ASSUME NEW v \in Workers, NEW i \in Nat
      PROVE  InCall(k, v, i)' <=> \/ InCall(k, v, i) /\ ~(v = w /\ i = n + 1)
                                  \/ v = w /\ i = n + 1 /\ k \in B
  <2>1. CASE v # w
    BY <2>1 DEF InCall, Stacked
  <2>2. CASE v = w /\ i <= n
    <3>1. i \in DOMAIN stack'[w] <=> i \in DOMAIN stack[w]
      BY <1>1, <1>2, <2>2 DEF Stacked
    <3>2. i \in DOMAIN stack'[w] => stack'[w][i] = stack[w][i]
      BY <1>1, <1>2, <2>2 DEF Stacked
    <3> QED
      BY <2>2, <3>1, <3>2 DEF InCall
  <2>3. CASE v = w /\ i > n
    <3>1. PICK j \in Nat : i = n + j /\ j > 0
      <4>1. i - n \in Nat /\ i = n + (i - n) /\ i - n > 0
        BY <2>3
      <4> QED
        BY <4>1, Zenon
    <3>2. i \in DOMAIN stack'[w] <=> j \in 1 .. m
      BY <1>1, <1>2, <2>3, <3>1 DEF Stacked
    <3>3. j \in 1 .. m => stack'[w][i] = s[j]
      BY <1>2, <3>1 DEF Stacked
    <3>4. j # 1 => ~InCall(k, w, i)
      BY <1>1, <3>1 DEF InCall
    <3>5. j \in 1 .. m /\ j # 1 => Called(s[j]) = {}
      BY <1>2
    <3>6. j = 1 => (j \in 1 .. m <=> m # 0)
      OBVIOUS
    <3>7. i = n + 1 <=> j = 1
      BY <3>1
    <3>8. InCall(k, w, i)' <=> j = 1 /\ k \in B
      BY <1>2, <3>2, <3>3, <3>5, <3>6 DEF InCall
    <3> QED
      BY <2>3, <3>4, <3>7, <3>8
  <2> QED
    BY <2>1, <2>2, <2>3
<1> QED
  BY <1>3, <1>4

LEMMA CallsNext ==
  ASSUME stack' \in [Workers -> Seq(Frame)], NEW k \in Modules
  PROVE  \A p : p \in Calls(k)' <=>
           \E w \in Workers, i \in Nat : p = <<w, i>> /\ InCall(k, w, i)'
<1>1. \A w \in Workers : \A i : i \in Holding(w, k)' <=> InCall(k, w, i)'
  BY DEF Holding, InCall, Called
<1>2. \A w \in Workers : \A i \in DOMAIN stack'[w] : i \in Nat
  OBVIOUS
<1>3. \A w \in Workers : \A i : i \in Holding(w, k)' => i \in Nat
  BY <1>2 DEF Holding
<1> QED
  BY <1>1, <1>3 DEF Calls

LEMMA CallsHanded ==
  ASSUME TypeOK, stack' \in [Workers -> Seq(Frame)], NEW k \in Modules,
         NEW w \in Workers, NEW n \in Nat, NEW A, NEW B, Handed(w, n, A, B)
  PROVE  /\ <<w, n + 1>> \in Calls(k) <=> k \in A
         /\ k \in B => Calls(k)' = Calls(k) \cup {<<w, n + 1>>}
         /\ k \notin B => Calls(k)' = Calls(k) \ {<<w, n + 1>>}
<1>1. PICK q \in Nat : q = n + 1
  OBVIOUS
<1>2. InCall(k, w, q) <=> k \in A
  BY <1>1 DEF Handed
<1>3. \A v \in Workers, i \in Nat :
        InCall(k, v, i)' <=> \/ InCall(k, v, i) /\ ~(v = w /\ i = q)
                             \/ v = w /\ i = q /\ k \in B
  BY <1>1 DEF Handed
<1>4. \A p : p \in Calls(k)' <=>
        \E v \in Workers, i \in Nat : p = <<v, i>> /\ InCall(k, v, i)'
  BY CallsNext
<1>5. \A p : p \in Calls(k) <=>
        \E v \in Workers, i \in Nat : p = <<v, i>> /\ InCall(k, v, i)
  BY CallsAre
<1>6. <<w, q>> \in Calls(k) <=> k \in A
  BY <1>2, <1>5
<1>7. \A v \in Workers, i \in Nat : <<v, i>> = <<w, q>> <=> v = w /\ i = q
  OBVIOUS
<1>8. \A p : p \in Calls(k)' <=> \/ p \in Calls(k) /\ p # <<w, q>>
                                 \/ p = <<w, q>> /\ k \in B
  <2> SUFFICES ASSUME NEW p
               PROVE  p \in Calls(k)' <=> \/ p \in Calls(k) /\ p # <<w, q>>
                                          \/ p = <<w, q>> /\ k \in B
    OBVIOUS
  <2>1. ASSUME p \in Calls(k)' 
        PROVE  (p \in Calls(k) /\ p # <<w, q>>) \/ (p = <<w, q>> /\ k \in B)
    <3>1. PICK v \in Workers, i \in Nat : p = <<v, i>> /\ InCall(k, v, i)'
      BY <1>4, <2>1
    <3>2. CASE v = w /\ i = q
      BY <1>3, <3>1, <3>2
    <3>3. CASE ~(v = w /\ i = q)
      <4>1. InCall(k, v, i)
        BY <1>3, <3>1, <3>3
      <4>2. p \in Calls(k)
        BY <1>5, <3>1, <4>1, Zenon
      <4>3. p # <<w, q>>
        <5>1. <<v, i>> # <<w, q>>
          BY <3>3
        <5> QED
          BY <3>1, <5>1, Zenon
      <4> QED
        BY <4>2, <4>3
    <3> QED
      BY <3>2, <3>3
  <2>2. ASSUME p \in Calls(k), p # <<w, q>> PROVE p \in Calls(k)'
    <3>1. PICK v \in Workers, i \in Nat : p = <<v, i>> /\ InCall(k, v, i)
      BY <1>5, <2>2
    <3>2. InCall(k, v, i)'
      BY <1>3, <2>2, <3>1
    <3> QED
      BY <1>4, <3>1, <3>2
  <2>3. ASSUME p = <<w, q>>, k \in B PROVE p \in Calls(k)'
    <3>1. InCall(k, w, q)'
      BY <1>3, <2>3
    <3>2. \E v \in Workers, i \in Nat : p = <<v, i>> /\ InCall(k, v, i)'
      BY <2>3, <3>1, Zenon
    <3> QED
      BY <1>4, <3>2, Zenon
  <2> QED
    BY <2>1, <2>2, <2>3
<1>9. k \in B => Calls(k)' = Calls(k) \cup {<<w, q>>}
  BY <1>8
<1>10. k \notin B => Calls(k)' = Calls(k) \ {<<w, q>>}
  BY <1>8
<1> QED
  BY <1>1, <1>6, <1>9, <1>10

\* The call stays, starts or ends, and the lease with it.
LEMMA LeaseSame ==
  ASSUME TypeOK, Leases, stack' \in [Workers -> Seq(Frame)], leased' = leased,
         NEW w \in Workers, NEW n \in Nat, NEW A, Handed(w, n, A, A)
  PROVE  Leases'
<1>1. ASSUME NEW k \in Modules PROVE Calls(k)' = Calls(k)
  <2>1. /\ <<w, n + 1>> \in Calls(k) <=> k \in A
        /\ k \in A => Calls(k)' = Calls(k) \cup {<<w, n + 1>>}
        /\ k \notin A => Calls(k)' = Calls(k) \ {<<w, n + 1>>}
    BY CallsHanded
  <2>2. CASE k \in A
    BY <2>1, <2>2
  <2>3. CASE k \notin A
    BY <2>1, <2>3
  <2> QED
    BY <2>2, <2>3
<1> QED
  BY <1>1 DEF Leases

LEMMA LeaseStarts ==
  ASSUME TypeOK, Leases, stack' \in [Workers -> Seq(Frame)], NEW m \in Modules,
         leased' = [leased EXCEPT ![m] = @ + 1],
         NEW w \in Workers, NEW n \in Nat, Handed(w, n, {}, {m})
  PROVE  Leases'
<1>1. leased' \in [Modules -> Nat]
  BY DEF Leases
<1>2. ASSUME NEW k \in Modules
      PROVE  IsFiniteSet(Calls(k)') /\ leased'[k] = Cardinality(Calls(k)')
  <2>1. IsFiniteSet(Calls(k)) /\ leased[k] = Cardinality(Calls(k)) /\ leased[k] \in Nat
    BY DEF Leases
  <2> DEFINE A == {}
             B == {m}
  <2>2. Handed(w, n, A, B) /\ (k \in A <=> FALSE) /\ (k \in B <=> k = m)
    OBVIOUS
  <2> HIDE DEF A, B
  <2>3. /\ <<w, n + 1>> \in Calls(k) <=> k \in A
        /\ k \in B => Calls(k)' = Calls(k) \cup {<<w, n + 1>>}
        /\ k \notin B => Calls(k)' = Calls(k) \ {<<w, n + 1>>}
    BY <2>2, CallsHanded
  <2>4. CASE k = m
    <3>1. /\ <<w, n + 1>> \notin Calls(k)
          /\ Calls(k)' = Calls(k) \cup {<<w, n + 1>>}
      BY <2>4, <2>2, <2>3
    <3>2. leased'[k] = leased[k] + 1
      BY <2>4 DEF Leases
    <3>3. PICK S, T, e : S = Calls(k) /\ T = Calls(k)' /\ e = <<w, n + 1>>
      OBVIOUS
    <3>4. e \notin S /\ T = S \cup {e} /\ IsFiniteSet(S)
      BY <2>1, <3>1, <3>3
    <3>5. IsFiniteSet(T) /\ Cardinality(T) = Cardinality(S) + 1
      BY <3>4, FS_AddElement
    <3> QED
      BY <2>1, <3>2, <3>3, <3>5
  <2>5. CASE k # m
    <3>1. Calls(k)' = Calls(k)
      BY <2>5, <2>2, <2>3
    <3>2. leased'[k] = leased[k]
      BY <2>5 DEF Leases
    <3> QED
      BY <2>1, <3>1, <3>2
  <2> QED
    BY <2>4, <2>5
<1> QED
  BY <1>1, <1>2 DEF Leases

LEMMA LeaseEnds ==
  ASSUME TypeOK, Leases, stack' \in [Workers -> Seq(Frame)], NEW m \in Modules,
         leased' = [leased EXCEPT ![m] = @ - 1],
         NEW w \in Workers, NEW n \in Nat, Handed(w, n, {m}, {})
  PROVE  Leases'
<1>1. ASSUME NEW k \in Modules
      PROVE  /\ IsFiniteSet(Calls(k)') /\ leased'[k] = Cardinality(Calls(k)')
             /\ leased'[k] \in Nat
  <2>1. IsFiniteSet(Calls(k)) /\ leased[k] = Cardinality(Calls(k)) /\ leased[k] \in Nat
    BY DEF Leases
  <2> DEFINE A == {m}
             B == {}
  <2>2. Handed(w, n, A, B) /\ (k \in A <=> k = m) /\ (k \in B <=> FALSE)
    OBVIOUS
  <2> HIDE DEF A, B
  <2>3. /\ <<w, n + 1>> \in Calls(k) <=> k \in A
        /\ k \in B => Calls(k)' = Calls(k) \cup {<<w, n + 1>>}
        /\ k \notin B => Calls(k)' = Calls(k) \ {<<w, n + 1>>}
    BY <2>2, CallsHanded
  <2>4. CASE k = m
    <3>1. /\ <<w, n + 1>> \in Calls(k)
          /\ Calls(k)' = Calls(k) \ {<<w, n + 1>>}
      BY <2>4, <2>2, <2>3
    <3>2. leased'[k] = leased[k] - 1
      BY <2>4 DEF Leases
    <3>3. IsFiniteSet(Calls(k)') /\ Cardinality(Calls(k)') = Cardinality(Calls(k)) - 1
      <4>1. PICK S, T, e : S = Calls(k) /\ T = Calls(k)' /\ e = <<w, n + 1>>
        OBVIOUS
      <4>2. e \in S /\ T = S \ {e} /\ IsFiniteSet(S)
        BY <2>1, <3>1, <4>1
      <4>3. IsFiniteSet(T) /\ Cardinality(T) = Cardinality(S) - 1
        BY <4>2, FS_RemoveElement
      <4> QED
        BY <4>1, <4>3
    <3>4. Cardinality(Calls(k)') \in Nat
      BY <3>3, FS_CardinalityType
    <3> QED
      BY <2>1, <3>2, <3>3, <3>4
  <2>5. CASE k # m
    <3>1. Calls(k)' = Calls(k)
      BY <2>5, <2>2, <2>3
    <3>2. leased'[k] = leased[k]
      BY <2>5 DEF Leases
    <3> QED
      BY <2>1, <3>1, <3>2
  <2> QED
    BY <2>4, <2>5
<1>2. leased' \in [Modules -> Nat]
  BY <1>1 DEF Leases
<1> QED
  BY <1>1, <1>2 DEF Leases

\* The frame on top of w gives way to x, or to nothing.
LEMMA HandsOne ==
  ASSUME TypeOK, NEW w \in Workers, NEW x \in Frame, Becomes(w, x)
  PROVE  \E n \in Nat : Handed(w, n, Called(Top(w)), Called(x))
<1> DEFINE s == <<x>>
<1>1. s \in Seq(Frame) /\ Len(s) = 1 /\ s[1] = x /\ Replace(w, s) /\ Busy(w)
  BY OneFrame DEF Becomes
<1> HIDE DEF s
<1>2. PICK n \in Nat : /\ Stacked(w, n, s) /\ Len(stack[w]) = n + 1
                       /\ Top(w) = stack[w][n + 1]
  BY <1>1, Swapped
<1>3. PICK A, B : A = Called(Top(w)) /\ B = Called(x)
  OBVIOUS
<1>4. /\ A = Called(stack[w][n + 1])
      /\ Len(s) = 0 => B = {}
      /\ Len(s) # 0 => Called(s[1]) = B
      /\ \A i \in 1 .. Len(s) : i # 1 => Called(s[i]) = {}
  BY <1>1, <1>2, <1>3
<1>5. Handed(w, n, A, B)
  BY <1>2, <1>4, Hands
<1> QED
  BY <1>3, <1>5

LEMMA HandsNone ==
  ASSUME TypeOK, NEW w \in Workers, Busy(w), Replace(w, <<>>)
  PROVE  /\ \E n \in Nat : Handed(w, n, Called(Top(w)), {})
         /\ stack' \in [Workers -> Seq(Frame)]
<1> DEFINE s == <<>>
<1>1. s \in Seq(Frame) /\ Len(s) = 0 /\ Replace(w, s)
  BY NoFrame
<1> HIDE DEF s
<1>2. PICK n \in Nat : /\ Stacked(w, n, s) /\ Len(stack[w]) = n + 1
                       /\ Top(w) = stack[w][n + 1]
  BY <1>1, Swapped
<1>3. PICK A, B : A = Called(Top(w)) /\ B = {}
  OBVIOUS
<1>4. /\ A = Called(stack[w][n + 1])
      /\ Len(s) = 0 => B = {}
      /\ Len(s) # 0 => Called(s[1]) = B
      /\ \A i \in 1 .. Len(s) : i # 1 => Called(s[i]) = {}
  BY <1>1, <1>2, <1>3
<1>5. Handed(w, n, A, B)
  BY <1>2, <1>4, Hands
<1> QED
  BY <1>2, <1>3, <1>5 DEF Stacked

LEMMA HandsTwo ==
  ASSUME TypeOK, NEW w \in Workers, NEW n \in Nat, NEW x \in Frame, NEW y \in Frame,
         Stacked(w, n, <<x, y>>), Len(stack[w]) = n + 1,
         Called(stack[w][n + 1]) = Called(x), Called(y) = {}
  PROVE  Handed(w, n, Called(x), Called(x))
<1> DEFINE s == <<x, y>>
<1>1. s \in Seq(Frame) /\ Len(s) = 2 /\ s[1] = x /\ s[2] = y /\ Stacked(w, n, s)
  BY TwoFrames
<1> HIDE DEF s
<1>2. PICK A : A = Called(x)
  OBVIOUS
<1>3. \A i \in 1 .. Len(s) : i # 1 => Called(s[i]) = {}
  <2>1. \A i \in 1 .. Len(s) : i = 1 \/ i = 2
    BY <1>1
  <2> QED
    BY <1>1, <2>1
<1>4. /\ A = Called(stack[w][n + 1])
      /\ Len(s) = 0 => A = {}
      /\ Len(s) # 0 => Called(s[1]) = A
  BY <1>1, <1>2
<1>5. Handed(w, n, A, A)
  BY <1>1, <1>3, <1>4, Hands
<1> QED
  BY <1>2, <1>5

LEMMA NotCalled ==
  ASSUME NEW x \in Frame, x.f # "layer" \/ x.at \in {"module", "probe", "acquire"}
  PROVE  Called(x) = {}
BY DEF Called

LEMMA LeasesOfRoot ==
  ASSUME TypeOK, Covered, Leases, NEW w \in Workers, TakeRoot(w),
         stack' \in [Workers -> Seq(Frame)]
  PROVE  Leases'
<1> DEFINE x == RangeFrame(1, NLayers)
           s == <<x>>
<1>1. x \in Frame /\ x.f = "range"
  BY MakeRange, TierAssumption DEF Layers
<1>2. /\ stack[w] = <<>> /\ leased' = leased
      /\ stack' = [stack EXCEPT ![w] = s]
  BY DEF TakeRoot, Busy
<1> HIDE DEF x
<1>3. s \in Seq(Frame) /\ Len(s) = 1 /\ s[1] = x
  BY <1>1, OneFrame
<1> HIDE DEF s
<1>4. Len(stack[w]) = 0 /\ s = stack[w] \o s
  <2>1. Len(stack[w]) = 0
    BY <1>2
  <2>2. <<>> \o s = s
    BY <1>3, ConcatEmptySeq
  <2> QED
    BY <1>2, <2>1, <2>2
<1>5. stack' = [stack EXCEPT ![w] = @ \o s]
  BY <1>2, <1>4
<1>6. Stacked(w, 0, s)
  BY <1>3, <1>4, <1>5, Pushed
<1>7. PICK n, A : n \in Nat /\ n = 0 /\ A = {}
  OBVIOUS
<1>8. /\ Len(stack[w]) = n /\ A = {} /\ Stacked(w, n, s)
      /\ Len(s) = 0 => A = {}
      /\ Len(s) # 0 => Called(s[1]) = A
      /\ \A i \in 1 .. Len(s) : i # 1 => Called(s[i]) = {}
  BY <1>1, <1>3, <1>4, <1>6, <1>7, NotCalled
<1>9. Handed(w, n, A, A)
  BY <1>7, <1>8, Hands
<1> QED
  BY <1>2, <1>7, <1>9, LeaseSame

LEMMA LeasesOfSteal ==
  ASSUME TypeOK, Leases, NEW w \in Workers, NEW v \in Workers, Steal(w, v)
  PROVE  Leases'
<1> DEFINE h == Head(deque[v])
<1>1. /\ deque[v] # <<>> /\ deque' = [deque EXCEPT ![v] = Tail(@)]
      /\ stack' = [stack EXCEPT ![w] = @ \o <<StolenFrame(h)>> \o Content(h)]
      /\ leased' = leased
  BY DEF Steal
<1>2. h \in Job
  BY <1>1, Beheaded
<1> HIDE DEF h
<1>3. PICK n \in Nat : n = Len(stack[w])
  BY DEF TypeOK
<1>4. PICK s \in Seq(Frame) :
        /\ Stacked(w, Len(stack[w]), s) /\ Len(s) \in {1, 2} /\ s[1].f = "stolen"
        /\ Len(s) = 2 => s[2].f = "range"
  BY <1>1, <1>2, StolenStack
<1>5. \A i \in 1 .. Len(s) : i # 1 => Called(s[i]) = {}
  <2>1. \A i \in 1 .. Len(s) : i = 1 \/ (i = 2 /\ Len(s) = 2)
    <3>1. CASE Len(s) = 1
      BY <3>1
    <3>2. CASE Len(s) = 2
      BY <3>2
    <3> QED
      BY <1>4, <3>1, <3>2
  <2> QED
    BY <1>4, <2>1 DEF Called
<1>6. PICK A : A = {}
  OBVIOUS
<1>7. /\ Stacked(w, n, s) /\ Len(stack[w]) = n /\ A = {}
      /\ Len(s) = 0 => A = {}
      /\ Len(s) # 0 => Called(s[1]) = A
  BY <1>3, <1>4, <1>6 DEF Called
<1>8. Handed(w, n, A, A)
  BY <1>5, <1>7, Hands
<1>9. stack' \in [Workers -> Seq(Frame)]
  BY <1>4 DEF Stacked
<1> QED
  BY <1>1, <1>8, <1>9, LeaseSame

LEMMA LeasesOfSplit ==
  ASSUME TypeOK, Leases, NEW w \in Workers, SplitRange(w)
  PROVE  Leases'
<1> DEFINE r == Top(w)
           mid == r.lo + (r.hi - r.lo + 1) \div 2
           right == LayersJob(mid, r.hi)
<1>1. Busy(w) /\ r.f = "range" /\ r.lo < r.hi
  BY DEF SplitRange, TopIs
<1>2. r.lo \in Layers /\ r.hi \in Layers
  <2>1. r \in Frame
    BY <1>1, TopFrame
  <2> QED
    BY <1>1, <2>1, FrameFields
<1>3. mid \in Layers /\ mid - 1 \in Layers /\ r.lo <= mid - 1 /\ mid <= r.hi
  BY <1>1, <1>2, Halves
<1>4. /\ Replace(w, <<JoinFrame(right), RangeFrame(r.lo, right.from - 1)>>)
      /\ leased' = leased
  BY DEF SplitRange
<1> HIDE DEF mid
<1> DEFINE x == JoinFrame(right)
           y == RangeFrame(r.lo, mid - 1)
<1>5. right \in Job /\ right.from = mid
  BY <1>2, <1>3, MakeRange
<1>6. x \in Frame /\ x.f = "join"
  BY <1>5, MakeJob
<1>7. y \in Frame /\ y.f = "range"
  BY <1>2, <1>3, MakeRange
<1>8. Replace(w, <<x, y>>)
  BY <1>4, <1>5
<1> HIDE DEF right, x, y
<1>9. <<x, y>> \in Seq(Frame)
  BY <1>6, <1>7, TwoFrames
<1>10. PICK n \in Nat : /\ Stacked(w, n, <<x, y>>) /\ Len(stack[w]) = n + 1
                        /\ r = stack[w][n + 1]
  BY <1>1, <1>8, <1>9, Swapped
<1>11. Called(r) = {} /\ Called(x) = {} /\ Called(y) = {}
  BY <1>1, <1>6, <1>7 DEF Called
<1>12. Handed(w, n, Called(x), Called(x))
  BY <1>6, <1>7, <1>10, <1>11, HandsTwo
<1>13. stack' \in [Workers -> Seq(Frame)]
  BY <1>10 DEF Stacked
<1> QED
  BY <1>4, <1>12, <1>13, LeaseSame

LEMMA LeasesOfFanOut ==
  ASSUME TypeOK, Leases, NEW w \in Workers, FanOut(w)
  PROVE  Leases'
<1> DEFINE r == Top(w)
           x == LayerFrame(r.l, r.k, "batched")
           y == JoinFrame(BatchJob(r.l, r.k))
<1>1. /\ Busy(w) /\ r.f = "layer" /\ r.at = "guest" /\ Replace(w, <<x, y>>)
      /\ leased' = leased
  BY DEF FanOut, InLayer, TopIs
<1>2. r.l \in Layers /\ r.k \in Modules /\ r.k \in 1 .. (NModules + 1)
  BY <1>1, TopFrame, FrameFields
<1>3. x \in Frame /\ x.f = "layer" /\ x.k = r.k /\ x.at = "batched"
  BY <1>2, MakeLayer DEF Stage
<1>4. y \in Frame /\ y.f = "join"
  BY <1>2, MakeBatch, MakeJob
<1> HIDE DEF x, y
<1>5. <<x, y>> \in Seq(Frame)
  BY <1>3, <1>4, TwoFrames
<1>6. PICK n \in Nat : /\ Stacked(w, n, <<x, y>>) /\ Len(stack[w]) = n + 1
                       /\ r = stack[w][n + 1]
  BY <1>1, <1>5, Swapped
<1>7. Called(r) = Called(x) /\ Called(y) = {}
  BY <1>1, <1>3, <1>4 DEF Called
<1>8. Handed(w, n, Called(x), Called(x))
  BY <1>3, <1>4, <1>6, <1>7, HandsTwo
<1>9. stack' \in [Workers -> Seq(Frame)]
  BY <1>6 DEF Stacked
<1> QED
  BY <1>1, <1>8, <1>9, LeaseSame

LEMMA LeasesOfPop ==
  ASSUME TypeOK, Leases, NEW w \in Workers, PopOwn(w)
  PROVE  Leases'
<1> DEFINE job == Top(w).job
<1>1. /\ Busy(w) /\ Top(w).f = "join" /\ Replace(w, Content(job)) /\ leased' = leased
  BY DEF PopOwn, TopIs
<1>2. job \in Job
  BY <1>1, TopFrame, FrameFields
<1>3. Called(Top(w)) = {}
  BY <1>1 DEF Called
<1> HIDE DEF job
<1>4. PICK A : A = {}
  OBVIOUS
<1>5. CASE \E x \in Frame : Content(job) = <<x>> /\ x.f = "range"
  <2>1. PICK x \in Frame : Content(job) = <<x>> /\ x.f = "range"
    BY <1>5
  <2>2. Becomes(w, x)
    BY <1>1, <2>1 DEF Becomes
  <2>3. Called(x) = {}
    BY <2>1 DEF Called
  <2>4. PICK n \in Nat : Handed(w, n, A, A)
    BY <1>3, <1>4, <2>2, <2>3, HandsOne
  <2>5. stack' \in [Workers -> Seq(Frame)]
    BY <1>1, <2>1, OneFrame, Swapped DEF Stacked
  <2> QED
    BY <1>1, <2>4, <2>5, LeaseSame
<1>6. CASE Content(job) = <<>>
  <2>1. PICK n \in Nat : Handed(w, n, A, A)
    BY <1>1, <1>3, <1>4, <1>6, HandsNone
  <2>2. stack' \in [Workers -> Seq(Frame)]
    BY <1>1, <1>6, HandsNone
  <2> QED
    BY <1>1, <2>1, <2>2, LeaseSame
<1> QED
  BY <1>2, <1>5, <1>6, ContentIs

\* Steps that pop a frame, or put a frame in its place, and lease nothing.
LEMMA LeasesOfPopped ==
  ASSUME TypeOK, Leases, NEW w \in Workers, Busy(w), Replace(w, <<>>),
         Called(Top(w)) = {}, leased' = leased
  PROVE  Leases'
<1>1. PICK A : A = {}
  OBVIOUS
<1>2. PICK n \in Nat : Handed(w, n, A, A)
  BY <1>1, HandsNone
<1>3. stack' \in [Workers -> Seq(Frame)]
  BY HandsNone
<1> QED
  BY <1>2, <1>3, LeaseSame

LEMMA LeasesOfPlain ==
  ASSUME TypeOK, Leases, NEW w \in Workers, NEW x \in Frame, Becomes(w, x),
         Called(Top(w)) = {}, Called(x) = {}, leased' = leased
  PROVE  Leases'
<1>1. PICK A : A = {}
  OBVIOUS
<1>2. PICK n \in Nat : Handed(w, n, A, A)
  BY <1>1, HandsOne
<1>3. stack' \in [Workers -> Seq(Frame)]
  BY OneFrame, Swapped DEF Stacked, Becomes
<1> QED
  BY <1>2, <1>3, LeaseSame

LEMMA LeasesOfAcquire ==
  ASSUME TypeOK, Leases, NEW w \in Workers, Acquire(w)
  PROVE  Leases'
<1> DEFINE r == Top(w)
<1>1. /\ Busy(w) /\ r.f = "layer" /\ r.at = "acquire"
      /\ leased' = [leased EXCEPT ![r.k] = @ + 1]
      /\ Replace(w, <<LayerFrame(r.l, r.k, "guest")>>)
  BY DEF Acquire, InLayer, TopIs
<1>2. r.l \in Layers /\ r.k \in Modules /\ r.k \in 1 .. (NModules + 1)
  BY <1>1, TopFrame, FrameFields
<1>3. PICK m \in Modules : m = r.k
  BY <1>2
<1> DEFINE x == LayerFrame(r.l, r.k, "guest")
<1>4. x \in Frame /\ x.f = "layer" /\ x.k = m /\ x.at = "guest"
  BY <1>2, <1>3, MakeLayer DEF Stage
<1>5. Becomes(w, x)
  BY <1>1, <1>4 DEF Becomes
<1> HIDE DEF x
<1>6. Called(r) = {} /\ Called(x) = {m}
  BY <1>1, <1>4 DEF Called
<1>7. PICK n \in Nat : Handed(w, n, Called(r), Called(x))
  BY <1>4, <1>5, HandsOne
<1>8. Handed(w, n, {}, {m})
  BY <1>6, <1>7
<1>9. stack' \in [Workers -> Seq(Frame)]
  BY <1>4, <1>5, OneFrame, Swapped DEF Stacked, Becomes
<1>10. leased' = [leased EXCEPT ![m] = @ + 1]
  BY <1>1, <1>3
<1> QED
  BY <1>8, <1>9, <1>10, LeaseStarts

LEMMA LeasesOfReturn ==
  ASSUME TypeOK, Leases, NEW w \in Workers, GuestReturns(w) \/ GuestFails(w)
  PROVE  Leases'
<1> DEFINE r == Top(w)
<1>1. /\ Busy(w) /\ r.f = "layer" /\ r.at \in {"guest", "batched"}
      /\ leased' = [leased EXCEPT ![r.k] = @ - 1]
  BY DEF GuestReturns, GuestFails, InLayer, TopIs
<1>2. r.l \in Layers /\ r.k \in Modules
  BY <1>1, TopFrame, FrameFields
<1>3. PICK m \in Modules : m = r.k
  BY <1>2
<1>4. Called(r) = {m} /\ leased' = [leased EXCEPT ![m] = @ - 1]
  BY <1>1, <1>3 DEF Called
<1>5. /\ stack' \in [Workers -> Seq(Frame)]
      /\ \E n \in Nat : Handed(w, n, {m}, {})
  <2>1. CASE GuestFails(w)
    <3>1. Replace(w, <<>>)
      BY <2>1 DEF GuestFails, EndLayer
    <3> QED
      BY <1>1, <1>4, <3>1, HandsNone
  <2>2. CASE GuestReturns(w)
    <3> DEFINE x == LayerFrame(r.l, r.k + 1, "module")
    <3>1. r.k + 1 \in 1 .. (NModules + 1) /\ "module" \in Stage
      BY <1>2, TierAssumption DEF Modules, Stage
    <3>2. x \in Frame /\ x.at = "module"
      BY <1>2, <3>1, MakeLayer
    <3>3. Replace(w, <<x>>)
      BY <2>2 DEF GuestReturns
    <3> HIDE DEF x
    <3>4. Becomes(w, x) /\ Called(x) = {}
      BY <1>1, <3>2, <3>3 DEF Becomes, Called
    <3>5. \E n \in Nat : Handed(w, n, {m}, {})
      BY <1>4, <3>2, <3>4, HandsOne
    <3>6. stack' \in [Workers -> Seq(Frame)]
      BY <1>1, <3>2, <3>3, OneFrame, Swapped DEF Stacked
    <3> QED
      BY <3>5, <3>6
  <2> QED
    BY <2>1, <2>2
<1> QED
  BY <1>4, <1>5, LeaseEnds

LEMMA LeasesStep ==
  ASSUME TypeOK, Covered, Leases, NEW w \in Workers, Worker(w),
         stack' \in [Workers -> Seq(Frame)]
  PROVE  Leases'
<1>1. CASE TakeRoot(w) \/ SplitRange(w) \/ PopOwn(w) \/ (\E v \in Workers : Steal(w, v))
  BY <1>1, LeasesOfRoot, LeasesOfSplit, LeasesOfPop, LeasesOfSteal
<1>2. CASE FanOut(w) \/ Acquire(w) \/ GuestReturns(w) \/ GuestFails(w)
  BY <1>2, LeasesOfFanOut, LeasesOfAcquire, LeasesOfReturn
<1>3. CASE DropRange(w) \/ FinishStolen(w) \/ ResumeJoin(w)
  <2>1. /\ Busy(w) /\ Top(w).f # "layer" /\ Replace(w, <<>>) /\ leased' = leased
    BY <1>3 DEF DropRange, FinishStolen, ResumeJoin, TopIs
  <2> QED
    BY <2>1, LeasesOfPopped DEF Called
<1>4. CASE FinishLayer(w) \/ LayerFails(w)
  <2>1. /\ Busy(w) /\ Top(w).at \in {"module", "probe"} /\ Replace(w, <<>>)
        /\ leased' = leased
    BY <1>4 DEF FinishLayer, LayerFails, EndLayer, InLayer, TopIs
  <2> QED
    BY <2>1, LeasesOfPopped DEF Called
<1>5. CASE StartLayer(w)
  <2>1. Busy(w) /\ Top(w).f = "range" /\ leased' = leased /\ Top(w).lo \in Layers
    BY <1>5, StartShape
  <2>2. Called(Top(w)) = {}
    BY <2>1 DEF Called
  <2>3. CASE Finishes(w, Top(w).lo, "cancelled")
    BY <2>1, <2>2, <2>3, LeasesOfPopped DEF Finishes, EndLayer
  <2>4. CASE Becomes(w, LayerFrame(Top(w).lo, 1, "module"))
    <3> DEFINE x == LayerFrame(Top(w).lo, 1, "module")
    <3>1. 1 \in 1 .. (NModules + 1) /\ "module" \in Stage
      BY TierAssumption DEF Stage
    <3>2. x \in Frame /\ x.at = "module"
      BY <2>1, <3>1, MakeLayer
    <3>3. Becomes(w, x)
      BY <2>4
    <3> HIDE DEF x
    <3>4. Called(x) = {}
      BY <3>2 DEF Called
    <3> QED
      BY <2>1, <2>2, <3>2, <3>3, <3>4, LeasesOfPlain
  <2> QED
    BY <1>5, <2>3, <2>4, StartShape
<1>6. CASE SkipModule(w) \/ YieldsNothing(w) \/ Dispatch(w) \/ OwnerReady(w)
  <2> DEFINE r == Top(w)
  <2>1. /\ Busy(w) /\ r.f = "layer" /\ r.at \in {"module", "probe"}
        /\ leased' = leased
    BY <1>6 DEF SkipModule, YieldsNothing, Dispatch, OwnerReady, InLayer, TopIs
  <2>2. /\ r.l \in Layers /\ r.k \in 1 .. (NModules + 1)
        /\ r.at = "probe" => r.k \in Modules
    BY <2>1, TopFrame, FrameFields
  <2>3. NModules \in Nat /\ Called(r) = {}
    BY <2>1, TierAssumption DEF Called
  <2>4. ASSUME NEW k \in 1 .. (NModules + 1), NEW at \in {"module", "probe", "acquire"},
               at # "module" => k \in Modules,
               Replace(w, <<LayerFrame(r.l, k, at)>>)
        PROVE  Leases'
    <3> DEFINE x == LayerFrame(r.l, k, at)
    <3>1. x \in Frame /\ x.at = at
      BY <2>2, <2>4, MakeLayer DEF Stage
    <3>2. Becomes(w, x)
      BY <2>1, <2>4, <3>1 DEF Becomes
    <3> HIDE DEF x
    <3>3. Called(x) = {}
      BY <3>1, NotCalled
    <3> QED
      BY <2>1, <2>3, <3>1, <3>2, <3>3, LeasesOfPlain
  <2>5. r.k \in Modules
    <3>1. r.at = "probe" \/ r.k <= NModules
      BY <1>6 DEF SkipModule, YieldsNothing, Dispatch, OwnerReady, InLayer
    <3> QED
      BY <2>2, <2>3, <3>1 DEF Modules
  <2>6. CASE SkipModule(w) \/ YieldsNothing(w)
    <3>1. Replace(w, <<LayerFrame(r.l, r.k + 1, "module")>>)
      BY <2>6 DEF SkipModule, YieldsNothing
    <3>2. r.k + 1 \in 1 .. (NModules + 1)
      BY <2>3, <2>5 DEF Modules
    <3> QED
      BY <2>4, <3>1, <3>2
  <2>7. CASE Dispatch(w) \/ OwnerReady(w)
    <3>1. \/ Replace(w, <<LayerFrame(r.l, r.k, "acquire")>>)
          \/ Replace(w, <<LayerFrame(r.l, r.k, "probe")>>)
      BY <2>7 DEF Dispatch, OwnerReady
    <3> QED
      BY <2>2, <2>4, <2>5, <3>1
  <2> QED
    BY <1>6, <2>6, <2>7
<1> QED
  BY <1>1, <1>2, <1>3, <1>4, <1>5, <1>6 DEF Worker

-----------------------------------------------------------------------------
(* The invariant and what follows from it.                                 *)

LEMMA TierStarts ==
  ASSUME TierInit
  PROVE  TierInv
<1>1. /\ injector = TRUE /\ full = FALSE /\ cancel = FALSE
      /\ \A w \in Workers : stack[w] = <<>> /\ deque[w] = <<>>
      /\ \A l \in Layers : applied[l] = <<>> /\ ended[l] = "no"
      /\ \A k \in Modules : leased[k] = 0
  BY DEF TierInit
<1>2. TypeOK
  <2>1. injector \in BOOLEAN /\ full \in BOOLEAN /\ cancel \in BOOLEAN
    BY <1>1, Zenon
  <2>2. /\ deque \in [Workers -> Seq(Job)] /\ stack \in [Workers -> Seq(Frame)]
        /\ applied \in [Layers -> Seq(Modules)] /\ ended \in [Layers -> Ending]
    BY DEF TierInit, Ending
  <2> QED
    BY <2>1, <2>2 DEF TypeOK
<1>3. \A l \in Layers, w \in Workers, i \in Nat : ~OnStack(l, w, i) /\ ~OnDeque(l, w, i)
  BY <1>1 DEF OnStack, OnDeque
<1>4. Sole /\ Covered
  BY <1>1, <1>3 DEF Sole, SoleFor, Covered, CoveredFor, Claimed
<1>5. Progress
  BY <1>1, <1>3 DEF Progress
<1>6. CommitsInPlanOrder
  BY <1>1 DEF CommitsInPlanOrder, Applied, ToSet
<1>7. Verdict
  BY <1>1 DEF Verdict
<1>8. Leases
  <2>1. leased \in [Modules -> Nat]
    BY DEF TierInit
  <2>2. \A k \in Modules : Calls(k) = {}
    BY <1>1 DEF Calls, Holding
  <2> QED
    BY <1>1, <2>1, <2>2, FS_EmptySet DEF Leases
<1> QED
  BY <1>2, <1>4, <1>5, <1>6, <1>7, <1>8 DEF TierInv

LEMMA TierSteps ==
  ASSUME TierInv, [TierNext]_tierVars
  PROVE  TierInv'
<1>1. ASSUME NEW w \in Workers, Worker(w)
      PROVE  TierInv'
  <2>1. Kept
    BY <1>1, ClaimsStep DEF TierInv
  <2>2. TypeOK'
    BY <1>1, <2>1, StepScalars DEF TierInv, Kept, TypeOK
  <2>3. Progress' /\ CommitsInPlanOrder' /\ Verdict'
    BY <1>1, ProgressStep, CommitsStep, VerdictStep DEF TierInv
  <2>4. Leases'
    BY <1>1, <2>1, LeasesStep DEF TierInv, Kept
  <2> QED
    BY <2>1, <2>2, <2>3, <2>4 DEF TierInv, Kept
<1>2. ASSUME UNCHANGED <<injector, deque, stack, leased, applied, ended, full>>,
             cancel' \in BOOLEAN, cancel => cancel'
      PROVE  TierInv'
  <2>1. TypeOK'
    BY <1>2 DEF TierInv, TypeOK
  <2>2. Sole' /\ Covered'
    BY <1>2 DEF TierInv, Sole, SoleFor, Covered, CoveredFor, Claimed, OnStack, OnDeque
  <2>3. Progress'
    BY <1>2 DEF TierInv, Progress, OnStack, OnDeque, Ahead, Applied
  <2>4. CommitsInPlanOrder' /\ Verdict'
    BY <1>2 DEF TierInv, CommitsInPlanOrder, Applied, Verdict
  <2>5. Leases'
    BY <1>2 DEF TierInv, Leases, Calls, Holding
  <2> QED
    BY <2>1, <2>2, <2>3, <2>4, <2>5 DEF TierInv
<1>3. CASE RequestCancel
  <2>1. cancel' \in BOOLEAN /\ (cancel => cancel')
    BY <1>3, Zenon DEF RequestCancel
  <2> QED
    BY <1>2, <1>3, <2>1 DEF RequestCancel
<1>4. CASE UNCHANGED tierVars
  <2>1. cancel' \in BOOLEAN /\ (cancel => cancel')
    BY <1>4 DEF tierVars, TierInv, TypeOK
  <2> QED
    BY <1>2, <1>4, <2>1 DEF tierVars
<1> QED
  BY <1>1, <1>3, <1>4 DEF TierNext, Over

\* Of every reachable state of the tier: whatever is split, stolen, nested or
\* dropped, a layer is claimed in one place exactly until it has ended, its
\* commits are those due before the module that runs or, after a cancellation,
\* before the one at which run_stage began to answer Ok(None); the collect is
\* full exactly when a layer has failed, and the leases are the guest calls.
THEOREM TierInvariant == TierSpec => []TierInv
<1>1. TierInit => TierInv
  BY TierStarts
<1>2. TierInv /\ [TierNext]_tierVars => TierInv'
  BY TierSteps
<1> QED
  BY <1>1, <1>2, PTL DEF TierSpec

\* The slots in use of every instance pool are the guest calls on the workers'
\* stacks, with any nesting of stolen layers (acquire and the lease's drop).
THEOREM TierLeases == TierSpec => []LeasesAreCalls
<1>1. TierInv => LeasesAreCalls
  BY DEF TierInv, Leases, LeasesAreCalls
<1> QED
  BY <1>1, TierInvariant, PTL

\* Every layer's commits are applied in plan order, without a gap, and a layer
\* that ends well has all that are due unless the print was cancelled, also
\* when run_stage or the guest answers Ok(None) (execute_single_layer).
THEOREM TierCommits == TierSpec => []CommitsInPlanOrder
<1>1. TierInv => CommitsInPlanOrder
  BY DEF TierInv
<1> QED
  BY <1>1, TierInvariant, PTL

\* When the parallel iterator returns, no layer is left over: it reports
\* success only if every layer succeeded and failure only if one failed.
THEOREM TierNoLayerLost == TierSpec => []NoLayerLost
<1>1. TierInv => NoLayerLost
  <2> SUFFICES ASSUME TierInv, Joined
               PROVE  IF full THEN \E l \in Layers : ended[l] \in {"error", "cancelled"}
                      ELSE \A l \in Layers : ended[l] = "ok"
    BY DEF NoLayerLost
  <2>1. ~injector /\ \A w \in Workers : stack[w] = <<>> /\ deque[w] = <<>>
    BY DEF Joined, Busy
  <2>2. \A l \in Layers, w \in Workers, i \in Nat :
          ~OnStack(l, w, i) /\ ~OnDeque(l, w, i)
    BY <2>1 DEF OnStack, OnDeque
  <2>3. \A l \in Layers : ended[l] # "no"
    BY <2>1, <2>2 DEF TierInv, Covered, CoveredFor, Claimed
  <2>4. \A l \in Layers : ended[l] \in Ending
    BY DEF TierInv, TypeOK
  <2>5. CASE full
    BY <2>5 DEF TierInv, Verdict
  <2>6. CASE ~full
    BY <2>3, <2>4, <2>6 DEF TierInv, Verdict, Ending
  <2> QED
    BY <2>5, <2>6
<1> QED
  BY <1>1, TierInvariant, PTL

-----------------------------------------------------------------------------
(* The instance pool, for any number of workers, of slots and of calls.    *)

\* No worker is inside acquire before the pool exists, and a pool that has to
\* serialize its module has one slot.
PoolShape ==
  /\ pool.size = 0 => \A c \in Clients : pc[c] = "idle"
  /\ ~pool.safe \/ pool.finalization => pool.size <= 1

\* The inductive invariant.
PoolInv == PoolTypeOK /\ LeaseExclusive /\ NoLostWakeup /\ PoolShape

\* The sets the wakeup argument counts are finite.
LEMMA PoolFinite ==
  ASSUME PoolTypeOK
  PROVE  /\ IsFiniteSet(Free)
         /\ \A where : IsFiniteSet(At(where))
<1>1. Slots \in SUBSET Int /\ IsFiniteSet(Slots)
  <2>1. pool.size \in Nat
    BY DEF PoolTypeOK
  <2>2. IsFiniteSet(0 .. pool.size - 1)
    BY <2>1, FS_Interval
  <2> QED  BY <2>1, <2>2 DEF Slots
<1>2. Free \subseteq Slots
  BY DEF Free
<1>3. \A where : At(where) \subseteq Clients
  BY DEF At
<1> QED  BY <1>1, <1>2, <1>3, FS_Subset, PoolAssumption

\* The lowest free index exists: position() finds a slot when one is free.
LEMMA FirstAvailableIsFree ==
  ASSUME PoolTypeOK, Free # {}
  PROVE  FirstAvailable \in Free
<1>1. Free \subseteq Nat
  BY DEF PoolTypeOK, Free, Slots
<1> DEFINE R == {ss \in Nat \X Nat : ss[1] < ss[2]}
<1>2. IsWellFoundedOn(R, Nat)
  BY NatLessThanWellFounded DEF OpToRel
<1>3. PICK s \in Free : \A r \in Free : ~(<<r, s>> \in R)
  <2> HIDE DEF R
  <2> QED  BY <1>1, <1>2, WFMin
<1>4. ASSUME NEW r \in Free  PROVE s <= r
  <2>1. r \in Nat /\ s \in Nat
    BY <1>1
  <2>2. r < s => <<r, s>> \in R
    BY <2>1
  <2> HIDE DEF R
  <2>3. ~(r < s)
    BY <1>3, <2>2
  <2> QED  BY <2>1, <2>3
<1> QED  BY <1>4 DEF FirstAvailable

\* Counting one element more or less.
LEMMA CountIn ==
  ASSUME NEW S, NEW x, IsFiniteSet(S), x \notin S
  PROVE  Cardinality(S) \in Nat /\ Cardinality(S \cup {x}) = Cardinality(S) + 1
BY FS_AddElement, FS_CardinalityType

\* Taking one element out of a finite set counts one less.
LEMMA CountOut ==
  ASSUME NEW S, NEW x, IsFiniteSet(S), x \in S
  PROVE  Cardinality(S) \in Nat /\ Cardinality(S \ {x}) = Cardinality(S) - 1
BY FS_RemoveElement, FS_CardinalityType

-----------------------------------------------------------------------------
(* One lemma per action *)

\* Building the pool starts it with every slot free and nobody inside.
LEMMA BuildKeeps ==
  ASSUME PoolInv,
         NEW safe \in BOOLEAN, NEW finalization \in BOOLEAN,
         NEW shared \in BOOLEAN, NEW n \in 0 .. MaxParallelism,
         build_wasm_instance_pool(safe, finalization, n, shared)
  PROVE  PoolInv'
<1> USE DEF build_wasm_instance_pool
<1>1. \A c \in Clients : pc[c] = "idle" /\ pc'[c] = "idle"
  BY DEF PoolInv, PoolShape, NoPool
<1>2. /\ pool' \in [mode : Modes, safe : BOOLEAN, finalization : BOOLEAN,
                    size : Nat]
      /\ ~pool'.safe \/ pool'.finalization => pool'.size <= 1
  <2>1. n \in Nat
    BY PoolAssumption
  <2>2. CASE safe /\ shared
    <3>1. pool' = [mode |-> "rejected", safe |-> TRUE,
                   finalization |-> finalization, size |-> 0]
      BY <2>2 DEF NoPool
    <3> QED  BY <3>1 DEF Modes
  <2>3. CASE ~(safe /\ shared)
    BY <2>1, <2>3 DEF PlannedPool, Modes
  <2> QED  BY <2>2, <2>3
<1>3. PoolTypeOK'
  BY <1>1, <1>2 DEF PoolInv, PoolTypeOK, Slots, At
<1>4. LeaseExclusive'
  BY <1>1 DEF LeaseExclusive, Slots, At
<1>5. NoLostWakeup'
  BY <1>1 DEF NoLostWakeup, At
<1> QED  BY <1>1, <1>2, <1>3, <1>4, <1>5 DEF PoolInv, PoolShape

\* A worker arriving at acquire holds nothing yet.
LEMMA StartCallKeeps ==
  ASSUME PoolInv, NEW c \in Clients, StartCall(c)
  PROVE  PoolInv'
<1> USE DEF StartCall, PoolInv
<1>1. PoolTypeOK'
  BY DEF PoolTypeOK, Slots, At
<1>2. LeaseExclusive'
  BY DEF PoolTypeOK, LeaseExclusive, Slots, At
<1>3. NoLostWakeup'
  <2>1. /\ Free' = Free
        /\ At("waiting")' = At("waiting")
        /\ At("locking")' = At("locking") \cup {c}
    BY DEF PoolTypeOK, Free, Slots, At
  <2>2. c \notin At("locking")
    BY DEF At
  <2>3. IsFiniteSet(Free) /\ IsFiniteSet(At("locking"))
    BY PoolFinite
  <2>4. Cardinality(At("locking"))' = Cardinality(At("locking")) + 1
    BY <2>1, <2>2, <2>3, CountIn
  <2>5. Cardinality(Free) \in Nat /\ Cardinality(At("locking")) \in Nat
    BY <2>3, FS_CardinalityType
  <2> QED  BY <2>1, <2>4, <2>5 DEF NoLostWakeup
<1> QED  BY <1>1, <1>2, <1>3 DEF PoolShape

\* take_first_available marks a slot nobody holds.
LEMMA TakeKeeps ==
  ASSUME PoolInv, NEW c \in Clients, take_first_available(c)
  PROVE  PoolInv'
<1> USE DEF take_first_available, PoolInv
<1> DEFINE f == FirstAvailable
<1>1. f \in Free
  BY FirstAvailableIsFree
<1> HIDE DEF f
<1>2. /\ in_use' = [in_use EXCEPT ![f] = TRUE]
      /\ slot' = [slot EXCEPT ![c] = f]
  BY DEF f
<1>3. f \in Slots /\ f \in Nat /\ in_use[f] = FALSE
  BY <1>1 DEF Free, PoolTypeOK, Slots
<1>4. At("leased")' = At("leased") \cup {c} /\ c \notin At("leased")
  BY DEF PoolTypeOK, At
<1>5. PoolTypeOK'
  BY <1>2, <1>3 DEF PoolTypeOK, Slots, At
<1>6. LeaseExclusive'
  <2>1. \A d \in At("leased") : slot[d] # f /\ slot'[d] = slot[d]
    BY <1>2, <1>3, <1>4 DEF LeaseExclusive, PoolTypeOK, At
  <2>2. slot'[c] = f
    BY <1>2 DEF PoolTypeOK
  <2>3. \A s \in Slots : in_use'[s] <=> s = f \/ in_use[s]
    BY <1>2, <1>3 DEF PoolTypeOK
  <2> QED  BY <1>4, <2>1, <2>2, <2>3 DEF LeaseExclusive, Slots
<1>7. NoLostWakeup'
  <2>1. Free' = Free \ {f}
    BY <1>2, <1>3 DEF Free, PoolTypeOK, Slots
  <2>2. /\ At("waiting")' = At("waiting")
        /\ At("locking")' = At("locking") \ {c}
        /\ c \in At("locking")
    BY DEF PoolTypeOK, At
  <2>3. IsFiniteSet(Free) /\ IsFiniteSet(At("locking"))
    BY PoolFinite
  <2>4. /\ Cardinality(Free)' = Cardinality(Free) - 1
        /\ Cardinality(At("locking"))' = Cardinality(At("locking")) - 1
    BY <1>1, <2>1, <2>2, <2>3, CountOut
  <2>5. Cardinality(Free) \in Nat /\ Cardinality(At("locking")) \in Nat
    BY <2>3, FS_CardinalityType
  <2> QED  BY <2>2, <2>4, <2>5 DEF NoLostWakeup
<1> QED  BY <1>5, <1>6, <1>7 DEF PoolShape, At, PoolTypeOK

\* A worker sleeps only when no slot is free.
LEMMA WaitKeeps ==
  ASSUME PoolInv, NEW c \in Clients, Wait(c)
  PROVE  PoolInv'
<1> USE DEF Wait, PoolInv
<1>1. PoolTypeOK' /\ LeaseExclusive'
  BY DEF PoolTypeOK, LeaseExclusive, Slots, At
<1>2. NoLostWakeup'
  <2>1. Free' = {}
    BY DEF Free, Slots
  <2>2. Cardinality(Free') = 0
    BY <2>1, FS_EmptySet
  <2>3. At("locking")' \subseteq Clients
    BY DEF At
  <2>4. Cardinality(At("locking")') \in Nat
    BY <2>3, PoolAssumption, FS_Subset, FS_CardinalityType
  <2> QED  BY <2>2, <2>4 DEF NoLostWakeup
<1> QED  BY <1>1, <1>2 DEF PoolShape, PoolTypeOK

\* A condvar that wakes by itself only adds a worker that will look again.
LEMMA SpuriousKeeps ==
  ASSUME PoolInv, NEW c \in Clients, SpuriousWakeup(c)
  PROVE  PoolInv'
<1> USE DEF SpuriousWakeup, PoolInv
<1>1. PoolTypeOK' /\ LeaseExclusive'
  BY DEF PoolTypeOK, LeaseExclusive, Slots, At
<1>2. NoLostWakeup'
  <2>1. /\ Free' = Free
        /\ At("waiting") # {}
        /\ At("locking")' = At("locking") \cup {c}
        /\ c \notin At("locking")
    BY DEF PoolTypeOK, Free, Slots, At
  <2>2. IsFiniteSet(Free) /\ IsFiniteSet(At("locking"))
    BY PoolFinite
  <2>3. Cardinality(At("locking"))' = Cardinality(At("locking")) + 1
    BY <2>1, <2>2, CountIn
  <2>4. Cardinality(Free) \in Nat /\ Cardinality(At("locking")) \in Nat
    BY <2>2, FS_CardinalityType
  <2> QED  BY <2>1, <2>3, <2>4 DEF NoLostWakeup
<1> QED  BY <1>1, <1>2 DEF PoolShape, PoolTypeOK

\* The slot is returned and, if anyone sleeps, one worker is sent for it.
LEMMA ReleaseKeeps ==
  ASSUME PoolInv, NEW c \in Clients, release(c)
  PROVE  PoolInv'
<1> USE DEF release, PoolInv
<1> DEFINE f == slot[c]
<1>1. f \in Slots /\ c \in At("leased") /\ in_use[f] = TRUE
  BY DEF PoolTypeOK, LeaseExclusive, At
<1>2. At("leased")' = At("leased") \ {c}
  BY DEF NotifyOne, PoolTypeOK, At
<1>3. PoolTypeOK'
  BY <1>1, <1>2 DEF NotifyOne, PoolTypeOK, Slots, At
<1>4. LeaseExclusive'
  <2>1. \A s \in Slots : in_use'[s] <=> s # f /\ in_use[s]
    BY <1>1 DEF PoolTypeOK
  <2> QED  BY <1>1, <1>2, <2>1 DEF LeaseExclusive, Slots
<1>5. NoLostWakeup'
  <2>1. Free' = Free \cup {f} /\ f \notin Free
    BY <1>1 DEF Free, PoolTypeOK, Slots
  <2>2. CASE At("waiting") = {}
    BY <2>2 DEF NotifyOne, NoLostWakeup, PoolTypeOK, At
  <2>3. CASE At("waiting") # {}
    <3>1. PICK w \in At("waiting") :
            pc' = [pc EXCEPT ![c] = "idle", ![w] = "locking"]
      BY <2>3 DEF NotifyOne
    <3>2. /\ At("locking")' = At("locking") \cup {w}
          /\ w \notin At("locking")
      BY <3>1 DEF PoolTypeOK, At
    <3>3. IsFiniteSet(Free) /\ IsFiniteSet(At("locking"))
      BY PoolFinite
    <3>4. /\ Cardinality(Free)' = Cardinality(Free) + 1
          /\ Cardinality(At("locking"))' = Cardinality(At("locking")) + 1
      BY <2>1, <3>2, <3>3, CountIn
    <3>5. Cardinality(Free) \in Nat /\ Cardinality(At("locking")) \in Nat
      BY <3>3, FS_CardinalityType
    <3> QED  BY <2>3, <3>4, <3>5 DEF NoLostWakeup
  <2> QED  BY <2>2, <2>3
<1>6. PoolShape'
  <2>1. pool.size # 0
    BY <1>1 DEF Slots, PoolTypeOK
  <2> QED  BY <2>1 DEF PoolShape
<1> QED  BY <1>3, <1>4, <1>5, <1>6

-----------------------------------------------------------------------------

\* The inductive invariant holds before the pool is built.
LEMMA PoolInitially == PoolInit => PoolInv
<1> SUFFICES ASSUME PoolInit  PROVE PoolInv
  OBVIOUS
<1>1. PoolTypeOK /\ LeaseExclusive /\ PoolShape
  BY PoolAssumption DEF PoolInit, PoolTypeOK, LeaseExclusive, PoolShape,
     NoPool, Modes, Slots, At
<1>2. NoLostWakeup
  BY DEF PoolInit, NoLostWakeup, At
<1> QED  BY <1>1, <1>2 DEF PoolInv

\* Every step of the pool keeps the inductive invariant.
LEMMA PoolInductive == PoolInv /\ [PoolNext]_poolVars => PoolInv'
<1> SUFFICES ASSUME PoolInv, [PoolNext]_poolVars  PROVE PoolInv'
  OBVIOUS
<1>1. ASSUME NEW safe \in BOOLEAN, NEW finalization \in BOOLEAN,
             NEW shared \in BOOLEAN, NEW n \in 0 .. MaxParallelism,
             build_wasm_instance_pool(safe, finalization, n, shared)
      PROVE  PoolInv'
  BY <1>1, BuildKeeps
<1>2. ASSUME NEW c \in Clients, Client(c)  PROVE PoolInv'
  BY <1>2, StartCallKeeps, TakeKeeps, WaitKeeps, ReleaseKeeps DEF Client
<1>3. ASSUME NEW c \in Clients, SpuriousWakeup(c)  PROVE PoolInv'
  BY <1>3, SpuriousKeeps
<1>4. CASE UNCHANGED poolVars
  BY <1>4 DEF poolVars, PoolInv, PoolTypeOK, LeaseExclusive, NoLostWakeup,
     PoolShape, Free, Slots, At
<1> QED  BY <1>1, <1>2, <1>3, <1>4 DEF PoolNext, Finished

\* The pool is well typed, whatever its size and its workers.
THEOREM PoolTypeCorrect == PoolSpec => []PoolTypeOK
<1>1. PoolInv => PoolTypeOK
  BY DEF PoolInv
<1> QED  BY <1>1, PoolInitially, PoolInductive, PTL DEF PoolSpec

\* pool.rs never leases a slot twice and never leaks one.
THEOREM PoolLeasesExclusive == PoolSpec => []LeaseExclusive
<1>1. PoolInv => LeaseExclusive
  BY DEF PoolInv
<1> QED  BY <1>1, PoolInitially, PoolInductive, PTL DEF PoolSpec

\* release may use notify_one: no wakeup is lost.
THEOREM PoolNoLostWakeup == PoolSpec => []NoLostWakeup
<1>1. PoolInv => NoLostWakeup
  BY DEF PoolInv
<1> QED  BY <1>1, PoolInitially, PoolInductive, PTL DEF PoolSpec

\* A module the manifest does not call layer-parallel-safe, and every
\* finalization module, is inside at most one guest call at a time.
THEOREM PoolSerializedAlone == PoolSpec => []SerializedAlone
<1>1. PoolInv => SerializedAlone
  <2> SUFFICES ASSUME PoolInv, ~pool.safe \/ pool.finalization,
                      NEW c \in At("leased"), NEW d \in At("leased")
               PROVE  c = d
    BY DEF SerializedAlone
  <2>1. slot[c] \in Slots /\ slot[d] \in Slots /\ pool.size <= 1
    BY DEF PoolInv, PoolTypeOK, PoolShape
  <2>2. slot[c] = slot[d]
    BY <2>1 DEF Slots, PoolInv, PoolTypeOK
  <2> QED  BY <2>2 DEF PoolInv, LeaseExclusive
<1> QED  BY <1>1, PoolInitially, PoolInductive, PTL DEF PoolSpec

=============================================================================
