---------------------------- MODULE SliceRunProofs ----------------------------
(***************************************************************************)
(* What the caller of a slice may rely on, proved for any number of layers *)
(* and of diagnostics: the stream, the exit code and the file agree        *)
(* (TerminalEvent), the layers' events are bracketed (LayersBracketed) and *)
(* the counts are those of the stream (CountsTold).                        *)
(*                                                                         *)
(* The inductive invariant has a part for each concern: where the main     *)
(* thread and the layers are (Course), what ends a stream (Terminal), the  *)
(* collector against the stream (Tally), when a phase is closed (Closing)  *)
(* and the events of each layer against the state of its job (Brackets).   *)
(* Most steps record only what none of these looks at: StepQuiet covers    *)
(* them all at once.                                                       *)
(***************************************************************************)
EXTENDS SliceRun, FiniteSetTheorems, SequenceTheorems, TLAPS

About == Layers \cup Topics

Kind == {"phase_start", "phase_complete", "layer_start", "layer_complete",
         "cancelled", "profile_summary", "slice_stats"}

Entry == [event : Kind, about : About]
         \cup [event : {"error"}, about : About, fatal : BOOLEAN]
         \cup [event : {"slice_complete"}, about : {None},
               counts : [fatal : Nat, nonfatal : Nat]]

Before == {"validation", "setup", "prepass", "in_prepass", "per_layer"}
After == {"postpass", "in_postpass", "done", "diagnostics", "summary"}
Late == {"cleanup", "main", "ended"}

JobState == {"queued", "running", "counted", "broken", "ok", "failed",
             "skipped"}

TypeOK ==
  /\ stream \in Seq(Entry)
  /\ count \in [fatal : Nat, nonfatal : Nat]
  /\ pc \in Before \cup After \cup Late \cup {"in_layers", "failed"}
  /\ layer \in [Layers -> JobState]
  /\ cancel \in BOOLEAN
  /\ result \in {None, "ok", "err"}
  /\ exit \in {None, 0, 1, 130}
  /\ output \in {"absent", "old", "torn", "new"}

\* Where the main thread is, and what is decided by then.
Course ==
  /\ pc \in Before => \A l \in Layers : layer[l] = "queued"
  /\ pc \in After \/ result = "ok" => \A l \in Layers : layer[l] = "ok"
  /\ result = None <=> pc \notin {"diagnostics", "summary"} \cup Late
  /\ pc \in {"diagnostics", "summary"} => result = "ok"
  /\ exit # None <=> pc = "ended"
  /\ pc # "ended" => output \in {"absent", "old"}
  /\ exit = 0 => result = "ok" /\ output = "new"
  /\ exit = 1 => result = "ok" \/ ~cancel
  /\ exit = 130 => result = "err" /\ output \in {"absent", "old"}

Ends(e) == e.event \in {"slice_complete", "cancelled"}

\* Nothing follows what ends a stream, and the result agrees with it.
Terminal ==
  /\ \A i \in DOMAIN stream : Ends(stream[i]) =>
       /\ i = Len(stream)
       /\ pc \in Late
       /\ stream[i].event = "slice_complete" => result = "ok" /\ pc # "cleanup"
       /\ stream[i].event = "cancelled" => result = "err" /\ cancel
  /\ result = "ok" /\ pc \in {"main", "ended"} => Told("slice_complete")

Pending == {l \in Layers : layer[l] = "counted"}

\* The collector is ahead of the stream by the errors between the two locks;
\* what may still succeed has no fatal error.
Tally ==
  /\ count.fatal = Errors(stream, TRUE) + Cardinality(Pending)
  /\ count.nonfatal = Errors(stream, FALSE)
  /\ pc \in Before \cup After \/ result = "ok" => count.fatal = 0
  /\ pc = "in_layers" =>
       \/ count.fatal = 0
       \/ \E l \in Layers : layer[l] \in {"counted", "broken", "failed"}
  /\ pc # "in_layers" => Pending = {}
  /\ \A i \in DOMAIN stream :
       stream[i].event = "slice_complete" => stream[i].counts = count

\* A closed per_layer phase: the jobs are over, their events written.
Closing ==
  \A i \in DOMAIN stream : Closed(i) =>
    /\ pc \notin Before \cup {"in_layers"}
    /\ Joined
    /\ \A j \in DOMAIN stream : stream[j].about \in Layers => j < i

\* l has begun: it has a start and, when it broke, perhaps an error.
Opened(l, most) ==
  \E first \in At(l) :
    /\ stream[first].event = "layer_start"
    /\ \A i \in At(l) \ {first} :
         /\ most = 2 /\ first < i
         /\ stream[i].event = "error"
         /\ At(l) = {first, i}

Brackets ==
  \A l \in Layers :
    /\ layer[l] \in {"queued", "skipped"} => At(l) = {}
    /\ layer[l] \in {"running", "counted"} => Opened(l, 1)
    /\ layer[l] = "broken" => Opened(l, 2)
    /\ layer[l] = "failed" => At(l) = {} \/ Bracketed(l)
    /\ layer[l] = "ok" => Bracketed(l)

SliceInv == TypeOK /\ Course /\ Terminal /\ Tally /\ Closing /\ Brackets

-----------------------------------------------------------------------------
(* Sequences and the entries that the steps append.                        *)

LEMMA One ==
  ASSUME NEW S, NEW x \in S
  PROVE  <<x>> \in Seq(S) /\ Len(<<x>>) = 1 /\ DOMAIN <<x>> = 1 .. 1 /\ <<x>>[1] = x
OBVIOUS

LEMMA Two ==
  ASSUME NEW S, NEW x \in S, NEW y \in S
  PROVE  /\ <<x, y>> \in Seq(S) /\ Len(<<x, y>>) = 2
         /\ DOMAIN <<x, y>> = 1 .. 2
         /\ <<x, y>>[1] = x /\ <<x, y>>[2] = y
OBVIOUS

LEMMA Three ==
  ASSUME NEW S, NEW x \in S, NEW y \in S, NEW z \in S
  PROVE  /\ <<x, y, z>> \in Seq(S) /\ Len(<<x, y, z>>) = 3
         /\ DOMAIN <<x, y, z>> = 1 .. 3
         /\ <<x, y, z>>[1] = x /\ <<x, y, z>>[2] = y /\ <<x, y, z>>[3] = z
OBVIOUS

LEMMA Joining ==
  ASSUME NEW S, NEW s \in Seq(S), NEW t \in Seq(S)
  PROVE  /\ s \o t \in Seq(S)
         /\ Len(s \o t) = Len(s) + Len(t)
         /\ DOMAIN s = 1 .. Len(s) /\ Len(s) \in Nat /\ Len(t) \in Nat
         /\ DOMAIN (s \o t) = 1 .. (Len(s) + Len(t))
         /\ \A i \in 1 .. Len(s) : (s \o t)[i] = s[i]
         /\ \A i \in 1 .. Len(t) : (s \o t)[Len(s) + i] = t[i]
         /\ \A i \in 1 .. (Len(s) + Len(t)) :
              i \notin 1 .. Len(s) =>
                i - Len(s) \in 1 .. Len(t) /\ (s \o t)[i] = t[i - Len(s)]
OBVIOUS

LEMMA Pair ==
  ASSUME NEW S, NEW x \in S, NEW y \in S
  PROVE  <<x>> \o <<y>> = <<x, y>>
<1>1. /\ <<x>> \in Seq(S) /\ <<y>> \in Seq(S) /\ <<x, y>> \in Seq(S)
      /\ Len(<<x>>) = 1 /\ Len(<<y>>) = 1 /\ Len(<<x, y>>) = 2
      /\ <<x>>[1] = x /\ <<y>>[1] = y /\ <<x, y>>[1] = x /\ <<x, y>>[2] = y
  BY One, Two
<1> DEFINE s == <<x>> \o <<y>>
<1>2. s \in Seq(S) /\ Len(s) = 2 /\ s[1] = x /\ s[2] = y
  BY <1>1
<1> HIDE DEF s
<1>3. s = <<x, y>>
  BY <1>1, <1>2, SeqEqual
<1> QED
  BY <1>3 DEF s

LEMMA Entries ==
  /\ \A e \in Kind, a \in About :
       /\ Event(e, a) \in Entry
       /\ Event(e, a).event = e /\ Event(e, a).about = a
  /\ \A a \in About, f \in BOOLEAN :
       /\ Error(a, f) \in Entry
       /\ Error(a, f).event = "error" /\ Error(a, f).about = a
       /\ Error(a, f).fatal = f
       /\ Error(a, f) # Event("phase_complete", "per_layer")
  /\ \A n \in [fatal : Nat, nonfatal : Nat] :
       /\ Completed(n) \in Entry
       /\ Completed(n).event = "slice_complete" /\ Completed(n).about = None
       /\ Completed(n).counts = n
       /\ Completed(n) # Event("phase_complete", "per_layer")
  /\ \A e \in Entry : e.event \in Kind \cup {"error", "slice_complete"}
BY DEF Event, Error, Completed, Entry, About, Topics, Kind

-----------------------------------------------------------------------------
(* Errors.                                                                 *)

Faults(s, f) == {i \in DOMAIN s : s[i].event = "error" /\ s[i].fatal = f}

LEMMA FaultsFinite ==
  ASSUME NEW s \in Seq(Entry), NEW f
  PROVE  IsFiniteSet(Faults(s, f)) /\ Errors(s, f) = Cardinality(Faults(s, f))
         /\ Errors(s, f) \in Nat
<1>1. IsFiniteSet(1 .. Len(s))
  BY FS_Interval
<1>2. Faults(s, f) \subseteq 1 .. Len(s)
  BY DEF Faults
<1>3. IsFiniteSet(Faults(s, f))
  BY <1>1, <1>2, FS_Subset
<1> QED
  BY <1>3, FS_CardinalityType DEF Errors, Faults

LEMMA ErrorsJoin ==
  ASSUME NEW s \in Seq(Entry), NEW t \in Seq(Entry), NEW f
  PROVE  Errors(s \o t, f) = Errors(s, f) + Errors(t, f)
<1> DEFINE A == Faults(s, f)
           B == Faults(t, f)
           C == {i \in Faults(s \o t, f) : i \notin 1 .. Len(s)}
           g == [i \in B |-> Len(s) + i]
<1>1. /\ IsFiniteSet(A) /\ IsFiniteSet(B) /\ IsFiniteSet(C)
      /\ IsFiniteSet(Faults(s \o t, f))
  <2>1. s \o t \in Seq(Entry)
    BY Joining
  <2>2. IsFiniteSet(Faults(s \o t, f))
    BY <2>1, FaultsFinite
  <2> QED
    BY <2>2, FaultsFinite, FS_Subset
<1>2. Faults(s \o t, f) = A \cup C /\ A \cap C = {}
  BY Joining DEF Faults
<1>3. g \in Bijection(B, C)
  <2>1. \A i \in B : g[i] \in C
    BY Joining DEF Faults
  <2>2. \A i, j \in B : g[i] = g[j] => i = j
    BY Joining DEF Faults
  <2>3. \A c \in C : \E i \in B : g[i] = c
    <3> SUFFICES ASSUME NEW c \in C PROVE c - Len(s) \in B /\ g[c - Len(s)] = c
      OBVIOUS
    <3> QED
      BY Joining DEF Faults
  <2> HIDE DEF B, C
  <2>4. g \in [B -> C]
    BY <2>1
  <2> QED
    <3> HIDE DEF g
    <3> QED
      BY <2>4, <2>2, <2>3 DEF Bijection, Injection, Surjection, IsInjective
<1>4. Cardinality(B) = Cardinality(C)
  BY <1>1, <1>3, FS_Bijection DEF ExistsBijection
<1>5. Cardinality(A \cup C) = Cardinality(A) + Cardinality(C)
  <2>1. Cardinality(A \cup C) = Cardinality(A) + Cardinality(C) - Cardinality(A \cap C)
    BY <1>1, FS_Union
  <2>2. Cardinality(A \cap C) = 0
    BY <1>2, FS_EmptySet
  <2>3. Cardinality(A) \in Nat /\ Cardinality(C) \in Nat
    BY <1>1, FS_CardinalityType
  <2> QED
    BY <2>1, <2>2, <2>3
<1> QED
  BY <1>2, <1>4, <1>5 DEF Errors, Faults

LEMMA ErrorsNone ==
  ASSUME NEW s \in Seq(Entry), NEW f \in BOOLEAN,
         \A i \in DOMAIN s : s[i].event = "error" => s[i].fatal # f
  PROVE  Errors(s, f) = 0
<1>1. Faults(s, f) = {}
  BY DEF Faults
<1> QED
  BY <1>1, FS_EmptySet DEF Errors, Faults

LEMMA ErrorsOne ==
  ASSUME NEW a \in About, NEW f \in BOOLEAN
  PROVE  /\ <<Error(a, f)>> \in Seq(Entry)
         /\ Errors(<<Error(a, f)>>, f) = 1
         /\ Errors(<<Error(a, f)>>, ~f) = 0
<1>1. Error(a, f) \in Entry /\ Error(a, f).event = "error" /\ Error(a, f).fatal = f
  BY Entries
<1> DEFINE s == <<Error(a, f)>>
<1>2. s \in Seq(Entry) /\ DOMAIN s = 1 .. 1 /\ s[1] = Error(a, f)
  BY <1>1, One
<1> HIDE DEF s
<1>3. Faults(s, f) = {1} /\ Faults(s, ~f) = {}
  BY <1>1, <1>2 DEF Faults
<1>4. Cardinality({1}) = 1 /\ Cardinality({}) = 0
  BY FS_Singleton, FS_EmptySet
<1>5. Errors(s, f) = 1 /\ Errors(s, ~f) = 0
  BY <1>3, <1>4 DEF Errors, Faults
<1> QED
  BY <1>2, <1>5 DEF s


LEMMA ErrorsEmpty == <<>> \in Seq(Entry) /\ \A f \in BOOLEAN : Errors(<<>>, f) = 0
<1>1. <<>> \in Seq(Entry) /\ DOMAIN <<>> = {}
  OBVIOUS
<1> QED
  BY <1>1, ErrorsNone

-----------------------------------------------------------------------------
(* The steps of the main thread that record nothing of the layers, nothing *)
(* that ends the stream and not the end of the per_layer phase.            *)

Plain(e) == /\ e.about \notin Layers
            /\ ~Ends(e)
            /\ e # Event("phase_complete", "per_layer")

Quiet(s) == \A i \in DOMAIN s : Plain(s[i])

QuietStep ==
  \/ Validate \/ SetupFails \/ Setup
  \/ EnterPrepass \/ EndPrepass \/ EnterPerLayer
  \/ EnterPostpass \/ EndPostpass
  \/ PipelineEnds /\ ~(pc = "failed" /\ cancel)
  \/ Cleanup \/ Diagnose \/ Main

LEMMA PlainEntries ==
  /\ \A a \in Topics, f \in BOOLEAN : Plain(Error(a, f)) /\ Error(a, f) \in Entry
  /\ \A a \in Topics, e \in {"phase_start", "phase_complete"} :
       /\ Event(e, a) \in Entry
       /\ (e = "phase_start" \/ a # "per_layer") => Plain(Event(e, a))
<1> USE SliceRunAssumption DEF Plain, Ends
<1>1. ASSUME NEW a \in Topics, NEW f \in BOOLEAN
      PROVE  Plain(Error(a, f)) /\ Error(a, f) \in Entry
  <2>1. /\ Error(a, f) \in Entry /\ Error(a, f).event = "error"
        /\ Error(a, f).about = a
        /\ Error(a, f) # Event("phase_complete", "per_layer")
    BY Entries DEF About
  <2> QED
    BY <2>1
<1>2. ASSUME NEW a \in Topics, NEW e \in {"phase_start", "phase_complete"}
      PROVE  /\ Event(e, a) \in Entry
             /\ (e = "phase_start" \/ a # "per_layer") => Plain(Event(e, a))
  <2>1. /\ Event(e, a) \in Entry /\ Event(e, a).event = e
        /\ Event(e, a).about = a
    BY Entries DEF About, Kind
  <2>2. e = "phase_start" \/ a # "per_layer"
          => Event(e, a) # Event("phase_complete", "per_layer")
    BY DEF Event
  <2> QED
    BY <2>1, <2>2
<1> QED
  BY <1>1, <1>2

LEMMA SilentRecords ==
  ASSUME TypeOK, Silent
  PROVE  Record(<<>>) /\ <<>> \in Seq(Entry) /\ Quiet(<<>>)
<1>1. <<>> \in Seq(Entry) /\ Errors(<<>>, TRUE) = 0 /\ Errors(<<>>, FALSE) = 0
  BY ErrorsEmpty
<1>2. stream' = stream \o <<>>
  BY DEF TypeOK, Silent
<1>3. count' = [fatal |-> count.fatal + 0, nonfatal |-> count.nonfatal + 0]
  BY DEF TypeOK, Silent
<1>4. Quiet(<<>>)
  BY DEF Quiet
<1> QED
  BY <1>1, <1>2, <1>3, <1>4 DEF Record, Counted, Emitted

\* What a quiet step appends: s, and a fatal error only on the way out.
Quietly(s) ==
  /\ s \in Seq(Entry) /\ Quiet(s) /\ Record(s)
  /\ Errors(s, TRUE) = 0 \/ (pc' \in {"main", "failed"} /\ result' # "ok")
  /\ pc \in Late => s = <<>>

LEMMA SilentQuietly ==
  ASSUME TypeOK, Silent
  PROVE  Quietly(<<>>)
BY SilentRecords, ErrorsEmpty DEF Quietly

\* A phase may start with one event and end with one or two.
LEMMA PlainSequences ==
  ASSUME NEW x \in Entry, NEW y \in Entry, NEW z \in Entry,
         Plain(x), Plain(y), Plain(z)
  PROVE  /\ <<x>> \in Seq(Entry) /\ Quiet(<<x>>)
         /\ <<x, y>> \in Seq(Entry) /\ Quiet(<<x, y>>)
         /\ <<x, y, z>> \in Seq(Entry) /\ Quiet(<<x, y, z>>)
         /\ x.event # "error" => Errors(<<x>>, TRUE) = 0
         /\ x.event # "error" /\ y.event # "error" => Errors(<<x, y>>, TRUE) = 0
<1>1. <<x>> \in Seq(Entry) /\ DOMAIN <<x>> = 1 .. 1 /\ <<x>>[1] = x
  BY One
<1>2. /\ <<x, y>> \in Seq(Entry) /\ DOMAIN <<x, y>> = 1 .. 2
      /\ <<x, y>>[1] = x /\ <<x, y>>[2] = y
  BY Two
<1>3. /\ <<x, y, z>> \in Seq(Entry) /\ DOMAIN <<x, y, z>> = 1 .. 3
      /\ <<x, y, z>>[1] = x /\ <<x, y, z>>[2] = y /\ <<x, y, z>>[3] = z
  BY Three
<1>4. ASSUME x.event # "error" PROVE Errors(<<x>>, TRUE) = 0
  <2>1. \A i \in DOMAIN <<x>> : <<x>>[i].event # "error"
    BY <1>1, <1>4
  <2> QED
    BY <1>1, <2>1, ErrorsNone
<1>5. ASSUME x.event # "error", y.event # "error"
      PROVE Errors(<<x, y>>, TRUE) = 0
  <2>1. \A i \in DOMAIN <<x, y>> : <<x, y>>[i].event # "error"
    BY <1>2, <1>5
  <2> QED
    BY <1>2, <2>1, ErrorsNone
<1>6. Quiet(<<x>>)
  BY <1>1 DEF Quiet
<1>7. Quiet(<<x, y>>)
  BY <1>2 DEF Quiet
<1>8. Quiet(<<x, y, z>>)
  BY <1>3 DEF Quiet
<1> QED
  BY <1>1, <1>2, <1>3, <1>4, <1>5, <1>6, <1>7, <1>8

LEMMA EnterQuietly ==
  ASSUME TypeOK, NEW phase \in Topics, NEW body, EnterPhase(phase, body),
         pc \notin Late
  PROVE  \E s \in Seq(Entry) : Quietly(s)
<1>1. CASE cancel
  BY <1>1, SilentQuietly, ErrorsEmpty DEF EnterPhase
<1>2. CASE ~cancel
  <2> DEFINE x == Event("phase_start", phase)
  <2>1. x \in Entry /\ Plain(x)
    BY PlainEntries
  <2>2. x.event = "phase_start"
    BY DEF Event
  <2>3. Record(<<x>>)
    BY <1>2 DEF EnterPhase
  <2> HIDE DEF x
  <2>4. <<x>> \in Seq(Entry) /\ Quiet(<<x>>) /\ Errors(<<x>>, TRUE) = 0
    BY <2>1, <2>2, PlainSequences
  <2> QED
    BY <2>3, <2>4 DEF Quietly
<1> QED
  BY <1>1, <1>2

LEMMA EndQuietly ==
  ASSUME TypeOK, NEW phase \in Topics, phase # "per_layer",
         NEW body, NEW next, EndPhase(phase, body, next),
         pc \notin Late, result # "ok"
  PROVE  \E s \in Seq(Entry) : Quietly(s)
<1> DEFINE y == Event("phase_complete", phase)
           x == Error(phase, TRUE)
<1>1. x \in Entry /\ y \in Entry /\ Plain(x) /\ Plain(y)
  BY PlainEntries
<1>2. y.event = "phase_complete"
  BY DEF Event
<1>3. PICK told \in {<<>>, <<x>>}, ok \in BOOLEAN :
        /\ ok => told = <<>>
        /\ Record(told \o <<y>>)
        /\ pc' = IF ok THEN next ELSE "failed"
  BY DEF EndPhase
<1>4. UNCHANGED result
  BY DEF EndPhase
<1> HIDE DEF x, y
<1>5. CASE told = <<>>
  <2>1. told \o <<y>> = <<y>>
    BY <1>5
  <2>2. <<y>> \in Seq(Entry) /\ Quiet(<<y>>) /\ Errors(<<y>>, TRUE) = 0
    BY <1>1, <1>2, PlainSequences
  <2> QED
    BY <1>3, <2>1, <2>2 DEF Quietly
<1>6. CASE told = <<x>> /\ ~ok
  <2>1. told \o <<y>> = <<x, y>>
    BY <1>1, <1>6, Pair
  <2>2. <<x, y>> \in Seq(Entry) /\ Quiet(<<x, y>>)
    BY <1>1, PlainSequences
  <2> QED
    BY <1>3, <1>4, <1>6, <2>1, <2>2 DEF Quietly
<1>7. told = <<>> \/ (told = <<x>> /\ ~ok)
  BY <1>3
<1> QED
  BY <1>5, <1>6, <1>7

LEMMA QuietSteps ==
  ASSUME TypeOK, Course, QuietStep
  PROVE  \E s \in Seq(Entry) : Quietly(s)
<1> USE DEF Before, After, Late
<1>1. CASE Validate
  <2> DEFINE x == Event("phase_start", "validation")
             y == Error("validation", TRUE)
             z == Event("phase_complete", "validation")
  <2>1. /\ x \in Entry /\ Plain(x) /\ y \in Entry /\ Plain(y)
        /\ z \in Entry /\ Plain(z)
    BY PlainEntries DEF Topics
  <2>2. x.event # "error" /\ z.event # "error"
    BY DEF Event
  <2>3. \/ Record(<<x, z>>)
        \/ Record(<<x, y, z>>) /\ pc' = "main" /\ result' = "err"
    BY <1>1 DEF Validate
  <2>4. pc \notin Late
    BY <1>1 DEF Validate
  <2> HIDE DEF x, y, z
  <2>5. /\ <<x, z>> \in Seq(Entry) /\ Quiet(<<x, z>>)
        /\ Errors(<<x, z>>, TRUE) = 0
    BY <2>1, <2>2, PlainSequences
  <2>6. <<x, y, z>> \in Seq(Entry) /\ Quiet(<<x, y, z>>)
    BY <2>1, PlainSequences
  <2> QED
    BY <2>3, <2>4, <2>5, <2>6 DEF Quietly
<1>2. CASE SetupFails \/ Setup \/ Cleanup \/ Main
  BY <1>2, SilentQuietly, ErrorsEmpty DEF SetupFails, Setup, Cleanup, Main
<1>3. CASE EnterPrepass \/ EnterPerLayer \/ EnterPostpass
  <2>1. PICK phase, body : phase \in Topics /\ EnterPhase(phase, body)
    BY <1>3 DEF EnterPrepass, EnterPerLayer, EnterPostpass, Topics
  <2>2. pc \notin Late
    BY <1>3 DEF EnterPrepass, EnterPerLayer, EnterPostpass, EnterPhase
  <2> QED
    BY <2>1, <2>2, EnterQuietly
<1>4. CASE EndPrepass \/ EndPostpass
  <2>1. PICK phase, body, next :
          /\ phase \in {"prepass", "postpass"}
          /\ EndPhase(phase, body, next)
    BY <1>4 DEF EndPrepass, EndPostpass
  <2>2. pc \notin Late /\ result # "ok"
    BY <1>4, SliceRunAssumption DEF EndPrepass, EndPostpass, EndPhase, Course
  <2>3. phase \in Topics /\ phase # "per_layer"
    BY <2>1 DEF Topics
  <2> QED
    BY <2>1, <2>2, <2>3, EndQuietly
<1>5. CASE PipelineEnds /\ ~(pc = "failed" /\ cancel)
  BY <1>5, SilentQuietly, ErrorsEmpty DEF PipelineEnds
<1>6. CASE Diagnose
  <2>1. PICK n \in 0 .. MaxDiagnostics :
          Record([i \in 1 .. n |-> Error("support", FALSE)])
    BY <1>6 DEF Diagnose, DiagnosticsRecorded
  <2> DEFINE x == Error("support", FALSE)
             s == [i \in 1 .. n |-> x]
  <2>2. x \in Entry /\ Plain(x)
    BY PlainEntries DEF Topics
  <2>3. x.fatal = FALSE
    BY DEF Error
  <2>4. n \in Nat
    BY SliceRunAssumption
  <2>5. Record(s)
    BY <2>1
  <2> HIDE DEF x
  <2>6. s \in Seq(Entry) /\ DOMAIN s = 1 .. n /\ \A i \in 1 .. n : s[i] = x
    BY <2>2, <2>4
  <2> HIDE DEF s
  <2>7. Errors(s, TRUE) = 0
    BY <2>3, <2>6, ErrorsNone
  <2>8. pc \notin Late
    BY <1>6 DEF Diagnose
  <2> QED
    BY <2>2, <2>5, <2>6, <2>7, <2>8 DEF Quietly, Quiet
<1> QED
  BY <1>1, <1>2, <1>3, <1>4, <1>5, <1>6 DEF QuietStep

\* Where a quiet step leads.
LEMMA QuietCourse ==
  ASSUME TypeOK, Course, QuietStep
  PROVE  /\ UNCHANGED <<layer, cancel>>
         /\ pc # "in_layers"
         /\ pc' = "in_layers" => pc = "per_layer" /\ result' # "ok"
         /\ pc' \in Before \cup After \/ result' = "ok"
              => pc \in Before \cup After \/ result = "ok"
         /\ pc \notin Before => pc' \notin Before \cup {"in_layers"}
         /\ pc \in Late => \/ pc' \in Late \ {"cleanup"}
                           \/ pc = "cleanup" /\ result = "ok"
         /\ pc \in Late /\ pc # "cleanup" => result' = result
         /\ pc = "cleanup" /\ result = "err" => result' = "err"
         /\ result' = "ok" /\ pc' \in {"main", "ended"}
              => pc = "main" /\ result = "ok"
<1> USE SliceRunAssumption DEF Before, After, Late, TypeOK, Course
<1>1. CASE Validate \/ SetupFails \/ Setup
  BY <1>1 DEF Validate, SetupFails, Setup
<1>2. CASE EnterPrepass \/ EnterPerLayer \/ EnterPostpass
  BY <1>2 DEF EnterPrepass, EnterPerLayer, EnterPostpass, EnterPhase
<1>3. CASE EndPrepass
  BY <1>3 DEF EndPrepass, EndPhase
<1>4. CASE EndPostpass
  BY <1>4 DEF EndPostpass, EndPhase
<1>5. CASE PipelineEnds /\ ~(pc = "failed" /\ cancel)
  BY <1>5 DEF PipelineEnds
<1>6. CASE Cleanup \/ Diagnose \/ Main
  BY <1>6 DEF Cleanup, Diagnose, Main
<1> QED
  BY <1>1, <1>2, <1>3, <1>4, <1>5, <1>6 DEF QuietStep

-----------------------------------------------------------------------------
(* The course of the main thread.                                          *)

LEMMA StepCourse ==
  ASSUME TypeOK, Course, Next
  PROVE  Course'
<1> USE SliceRunAssumption DEF Before, After, Late, TypeOK, Course
<1>1. CASE Validate \/ SetupFails \/ Setup
  BY <1>1 DEF Validate, SetupFails, Setup
<1>2. CASE EnterPrepass \/ EnterPerLayer \/ EnterPostpass
  BY <1>2 DEF EnterPrepass, EnterPerLayer, EnterPostpass, EnterPhase
<1>3. CASE EndPrepass
  BY <1>3 DEF EndPrepass, EndPhase
<1>4. CASE EndPostpass
  BY <1>4 DEF EndPostpass, EndPhase
<1>5. CASE EndLayers
  BY <1>5 DEF EndLayers
<1>6. CASE PipelineEnds
  BY <1>6 DEF PipelineEnds
<1>7. CASE Cleanup \/ Diagnose \/ Summarize
  BY <1>7 DEF Cleanup, Diagnose, Summarize
<1>8. CASE Main
  BY <1>8 DEF Main, ExitCode
<1>9. CASE \E l \in Layers : LayerStep(l)
  <2>1. PICK l \in Layers : LayerStep(l)
    BY <1>9
  <2>2. pc = "in_layers" /\ UNCHANGED <<pc, cancel, result, exit, output>>
    BY <2>1 DEF LayerStep, LayerStarts, LayerErrorCounted, LayerErrorEmitted,
                LayerBreaks, LayerEnds, LayerSkipped
  <2> QED
    BY <2>2
<1>10. CASE Cancel \/ Ended
  BY <1>10 DEF Cancel, Ended, vars
<1> QED
  BY <1>1, <1>2, <1>3, <1>4, <1>5, <1>6, <1>7, <1>8, <1>9, <1>10
     DEF Next, MainStep

-----------------------------------------------------------------------------
(* What appending s changes.                                               *)

LEMMA Grows ==
  ASSUME TypeOK, NEW s \in Seq(Entry), Emitted(s)
  PROVE  /\ stream' \in Seq(Entry)
         /\ Len(stream) \in Nat /\ DOMAIN stream = 1 .. Len(stream)
         /\ Len(s) \in Nat /\ DOMAIN s = 1 .. Len(s)
         /\ Len(stream') = Len(stream) + Len(s)
         /\ DOMAIN stream' = 1 .. (Len(stream) + Len(s))
         /\ \A i \in DOMAIN stream : i \in DOMAIN stream' /\ stream'[i] = stream[i]
         /\ \A i \in DOMAIN s : /\ Len(stream) + i \in DOMAIN stream'
                                /\ stream'[Len(stream) + i] = s[i]
         /\ \A i \in DOMAIN stream' : i \notin DOMAIN stream =>
              i - Len(stream) \in DOMAIN s /\ stream'[i] = s[i - Len(stream)]
BY Joining DEF TypeOK, Emitted

LEMMA CountsAdd ==
  ASSUME NEW c \in [fatal : Nat, nonfatal : Nat], NEW m \in Nat, NEW n \in Nat
  PROVE  [fatal |-> c.fatal + m, nonfatal |-> c.nonfatal + n]
           \in [fatal : Nat, nonfatal : Nat]
OBVIOUS

LEMMA TallyGrows ==
  ASSUME TypeOK, NEW s \in Seq(Entry), Record(s),
         count.fatal = Errors(stream, TRUE) + Cardinality(Pending),
         count.nonfatal = Errors(stream, FALSE),
         UNCHANGED layer
  PROVE  /\ count'.fatal = count.fatal + Errors(s, TRUE)
         /\ count'.fatal = Errors(stream', TRUE) + Cardinality(Pending')
         /\ count'.nonfatal = Errors(stream', FALSE)
         /\ count' \in [fatal : Nat, nonfatal : Nat]
<1>1. /\ Errors(stream', TRUE) = Errors(stream, TRUE) + Errors(s, TRUE)
      /\ Errors(stream', FALSE) = Errors(stream, FALSE) + Errors(s, FALSE)
  BY ErrorsJoin DEF TypeOK, Record, Emitted
<1>2. /\ Errors(s, TRUE) \in Nat /\ Errors(s, FALSE) \in Nat
      /\ Errors(stream, TRUE) \in Nat /\ Errors(stream, FALSE) \in Nat
  BY FaultsFinite DEF TypeOK
<1>3. count' = [fatal |-> count.fatal + Errors(s, TRUE),
                nonfatal |-> count.nonfatal + Errors(s, FALSE)]
  BY DEF Record, Counted
<1>4. IsFiniteSet(Pending)
  BY SliceRunAssumption, FS_Subset DEF Pending
<1>5. Cardinality(Pending) \in Nat
  BY <1>4, FS_CardinalityType
<1>6. Pending' = Pending
  BY DEF Pending
<1>7. count.fatal \in Nat /\ count.nonfatal \in Nat
  BY DEF TypeOK
<1>8. /\ count'.fatal = count.fatal + Errors(s, TRUE)
      /\ count'.nonfatal = count.nonfatal + Errors(s, FALSE)
  BY <1>3
<1>9. count' \in [fatal : Nat, nonfatal : Nat]
  <2>1. PICK m \in Nat : m = Errors(s, TRUE)
    BY <1>2, Zenon
  <2>2. PICK n \in Nat : n = Errors(s, FALSE)
    BY <1>2, Zenon
  <2>3. count' = [fatal |-> count.fatal + m, nonfatal |-> count.nonfatal + n]
    BY <1>3, <2>1, <2>2, Zenon
  <2>4. count \in [fatal : Nat, nonfatal : Nat]
    BY DEF TypeOK
  <2> QED
    BY <2>3, <2>4, CountsAdd, Zenon
<1> DEFINE a == Errors(stream, TRUE)
           b == Errors(s, TRUE)
           c == Cardinality(Pending)
<1>10. a \in Nat /\ b \in Nat /\ c \in Nat
  BY <1>2, <1>5
<1>11. count'.fatal = (a + b) + Cardinality(Pending')
  <2>1. count'.fatal = (a + c) + b
    BY <1>8
  <2>2. Cardinality(Pending') = c
    BY <1>6
  <2> HIDE DEF a, b, c
  <2> QED
    BY <2>1, <2>2, <1>10
<1> QED
  BY <1>1, <1>8, <1>9, <1>11

LEMMA AtKept ==
  ASSUME TypeOK, NEW s \in Seq(Entry), Emitted(s), NEW l \in Layers,
         \A i \in DOMAIN s : s[i].about # l
  PROVE  /\ At(l)' = At(l)
         /\ \A m \in {1, 2} : Opened(l, m) => Opened(l, m)'
         /\ Bracketed(l) => Bracketed(l)'
<1>1. At(l)' = At(l)
  BY Grows DEF At
<1>2. \A i \in At(l) : stream'[i] = stream[i]
  BY Grows DEF At
<1> QED
  BY <1>1, <1>2 DEF Opened, Bracketed

LEMMA QuietKeeps ==
  ASSUME SliceInv, QuietStep
  PROVE  /\ stream' \in Seq(Entry) /\ count' \in [fatal : Nat, nonfatal : Nat]
         /\ Terminal' /\ Tally' /\ Closing' /\ Brackets'
<1> USE DEF SliceInv
<1>1. PICK s \in Seq(Entry) : Quietly(s)
  BY QuietSteps
<1>2. Record(s) /\ Emitted(s) /\ Quiet(s)
  BY <1>1 DEF Quietly, Record
<1>3. UNCHANGED <<layer, cancel>> /\ pc # "in_layers"
  BY QuietCourse
<1>4. /\ stream' \in Seq(Entry)
      /\ \A i \in DOMAIN stream : i \in DOMAIN stream' /\ stream'[i] = stream[i]
      /\ \A i \in DOMAIN stream' : i \notin DOMAIN stream => Plain(stream'[i])
  BY <1>2, Grows DEF Quiet
<1>5. pc \in Late => stream' = stream /\ count' = count
  <2> SUFFICES ASSUME pc \in Late PROVE stream' = stream /\ count' = count
    OBVIOUS
  <2>1. s = <<>>
    BY <1>1 DEF Quietly
  <2>2. Errors(s, TRUE) = 0 /\ Errors(s, FALSE) = 0
    BY <2>1, ErrorsEmpty
  <2>3. stream' = stream
    BY <1>2, <2>1 DEF TypeOK, Emitted
  <2>4. count' = count
    <3>1. count' = [fatal |-> count.fatal + 0, nonfatal |-> count.nonfatal + 0]
      BY <1>2, <2>2 DEF Record, Counted
    <3> QED
      BY <3>1 DEF TypeOK
  <2> QED
    BY <2>3, <2>4
<1>6. Terminal'
  <2>1. ASSUME NEW i \in DOMAIN stream', Ends(stream'[i])
        PROVE  /\ i = Len(stream')
               /\ pc' \in Late
               /\ stream'[i].event = "slice_complete"
                    => result' = "ok" /\ pc' # "cleanup"
               /\ stream'[i].event = "cancelled" => result' = "err" /\ cancel'
    <3>1. i \in DOMAIN stream /\ stream'[i] = stream[i]
      BY <1>4, <2>1 DEF Plain
    <3>2. /\ i = Len(stream) /\ pc \in Late
          /\ stream[i].event = "slice_complete" => result = "ok" /\ pc # "cleanup"
          /\ stream[i].event = "cancelled" => result = "err" /\ cancel
      BY <2>1, <3>1 DEF Terminal
    <3>3. stream[i].event \in {"slice_complete", "cancelled"}
      BY <2>1, <3>1 DEF Ends
    <3>4. stream' = stream
      BY <1>5, <3>2
    <3> QED
      BY <3>1, <3>2, <3>3, <3>4, <1>3, QuietCourse DEF Late
  <2>2. result' = "ok" /\ pc' \in {"main", "ended"} => Told("slice_complete")'
    BY <1>4, QuietCourse DEF Terminal, Told
  <2> QED
    BY <2>1, <2>2 DEF Terminal
<1>7. Tally'
  <2>1. /\ count'.fatal = count.fatal + Errors(s, TRUE)
        /\ count'.fatal = Errors(stream', TRUE) + Cardinality(Pending')
        /\ count'.nonfatal = Errors(stream', FALSE)
    BY <1>2, <1>3, TallyGrows DEF Tally
  <2>2. pc' \in Before \cup After \/ result' = "ok" \/ pc' = "in_layers"
          => count.fatal = 0 /\ Errors(s, TRUE) = 0
    <3>1. pc' \in Before \cup After \/ result' = "ok" \/ pc' = "in_layers"
            => pc \in Before \cup After \/ result = "ok"
      BY QuietCourse DEF Before
    <3>2. pc' \in Before \cup After \/ result' = "ok" \/ pc' = "in_layers"
            => Errors(s, TRUE) = 0
      BY <1>1 DEF Quietly, Before, After
    <3> QED
      BY <3>1, <3>2 DEF Tally
  <2>3. Pending' = {}
    BY <1>3 DEF Tally, Pending
  <2>4. ASSUME NEW i \in DOMAIN stream', stream'[i].event = "slice_complete"
        PROVE  stream'[i].counts = count'
    <3>1. i \in DOMAIN stream /\ stream'[i] = stream[i]
      BY <1>4, <2>4 DEF Plain, Ends
    <3>2. pc \in Late
      BY <2>4, <3>1 DEF Terminal, Ends
    <3> QED
      BY <2>4, <3>1, <3>2, <1>5 DEF Tally
  <2>5. pc' \in Before \cup After \/ result' = "ok" \/ pc' = "in_layers"
          => count'.fatal = 0
    <3>1. count.fatal = 0 /\ Errors(s, TRUE) = 0 => count'.fatal = 0 + 0
      BY <2>1
    <3>2. 0 + 0 = 0
      OBVIOUS
    <3>3. count.fatal = 0 /\ Errors(s, TRUE) = 0 => count'.fatal = 0
      BY <3>1, <3>2, Zenon
    <3> QED
      BY <2>2, <3>3, Zenon
  <2> QED
    BY <2>1, <2>3, <2>4, <2>5 DEF Tally
<1>8. Closing'
  <2> SUFFICES ASSUME NEW i \in DOMAIN stream', Closed(i)'
               PROVE  /\ pc' \notin Before \cup {"in_layers"}
                      /\ Joined'
                      /\ \A j \in DOMAIN stream' :
                           stream'[j].about \in Layers => j < i
    BY DEF Closing
  <2>1. i \in DOMAIN stream /\ Closed(i)
    BY <1>4 DEF Plain, Closed
  <2>2. /\ pc \notin Before \cup {"in_layers"} /\ Joined
        /\ \A j \in DOMAIN stream : stream[j].about \in Layers => j < i
    BY <2>1 DEF Closing
  <2>3. \A j \in DOMAIN stream' : stream'[j].about \in Layers => j < i
    BY <1>4, <2>2 DEF Plain
  <2> QED
    BY <2>2, <2>3, <1>3, QuietCourse DEF Joined
<1>9. Brackets'
  <2> SUFFICES ASSUME NEW l \in Layers
               PROVE  /\ layer'[l] \in {"queued", "skipped"} => At(l)' = {}
                      /\ layer'[l] \in {"running", "counted"} => Opened(l, 1)'
                      /\ layer'[l] = "broken" => Opened(l, 2)'
                      /\ layer'[l] = "failed" => At(l)' = {} \/ Bracketed(l)'
                      /\ layer'[l] = "ok" => Bracketed(l)'
    BY DEF Brackets
  <2>1. \A i \in DOMAIN s : s[i].about # l
    BY <1>2 DEF Quiet, Plain
  <2>2. /\ At(l)' = At(l)
        /\ Opened(l, 1) => Opened(l, 1)'
        /\ Opened(l, 2) => Opened(l, 2)'
        /\ Bracketed(l) => Bracketed(l)'
    BY <1>2, <2>1, AtKept
  <2> QED
    BY <2>2, <1>3 DEF Brackets
<1>10. count' \in [fatal : Nat, nonfatal : Nat]
  BY <1>2, <1>3, TallyGrows DEF Tally
<1> QED
  BY <1>4, <1>6, <1>7, <1>8, <1>9, <1>10

-----------------------------------------------------------------------------
(* The steps of the layers.                                                *)

LEMMA GrowsByOne ==
  ASSUME TypeOK, NEW x \in Entry, Emitted(<<x>>)
  PROVE  /\ stream' \in Seq(Entry)
         /\ Len(stream) \in Nat /\ DOMAIN stream = 1 .. Len(stream)
         /\ Len(stream') = Len(stream) + 1
         /\ DOMAIN stream' = 1 .. (Len(stream) + 1)
         /\ \A i \in DOMAIN stream : i \in DOMAIN stream' /\ stream'[i] = stream[i]
         /\ stream'[Len(stream) + 1] = x
         /\ \A f \in BOOLEAN : Errors(stream', f) = Errors(stream, f) + Errors(<<x>>, f)
<1>1. /\ <<x>> \in Seq(Entry) /\ Len(<<x>>) = 1 /\ DOMAIN <<x>> = 1 .. 1
      /\ <<x>>[1] = x
  BY One
<1>2. \A f \in BOOLEAN : Errors(stream', f) = Errors(stream, f) + Errors(<<x>>, f)
  BY <1>1, ErrorsJoin DEF TypeOK, Emitted
<1> DEFINE s == <<x>>
<1>3. s \in Seq(Entry) /\ Emitted(s) /\ Len(s) = 1 /\ DOMAIN s = 1 .. 1 /\ s[1] = x
  BY <1>1
<1> HIDE DEF s
<1>4. /\ stream' \in Seq(Entry)
      /\ Len(stream) \in Nat /\ DOMAIN stream = 1 .. Len(stream)
      /\ Len(stream') = Len(stream) + 1
      /\ DOMAIN stream' = 1 .. (Len(stream) + 1)
      /\ \A i \in DOMAIN stream : i \in DOMAIN stream' /\ stream'[i] = stream[i]
      /\ stream'[Len(stream) + 1] = x
  BY <1>3, Grows
<1> QED
  BY <1>2, <1>4

\* A step of l writes nothing, or one event about l.
Writes(l, x) ==
  /\ x \in Entry /\ x.about = l /\ ~Ends(x)
  /\ x # Event("phase_complete", "per_layer")
  /\ Emitted(<<x>>)

LEMMA LayerEntries ==
  ASSUME NEW l \in Layers
  PROVE  /\ \A e \in {"layer_start", "layer_complete"} :
              /\ Event(e, l) \in Entry /\ Event(e, l).about = l
              /\ Event(e, l).event = e /\ ~Ends(Event(e, l))
              /\ Event(e, l) # Event("phase_complete", "per_layer")
              /\ \A f \in BOOLEAN : Errors(<<Event(e, l)>>, f) = 0
         /\ Error(l, TRUE) \in Entry /\ Error(l, TRUE).about = l
         /\ Error(l, TRUE).event = "error" /\ ~Ends(Error(l, TRUE))
         /\ Error(l, TRUE) # Event("phase_complete", "per_layer")
         /\ Errors(<<Error(l, TRUE)>>, TRUE) = 1
         /\ Errors(<<Error(l, TRUE)>>, FALSE) = 0
<1>1. ASSUME NEW e \in {"layer_start", "layer_complete"}
      PROVE  /\ Event(e, l) \in Entry /\ Event(e, l).about = l
             /\ Event(e, l).event = e /\ ~Ends(Event(e, l))
             /\ Event(e, l) # Event("phase_complete", "per_layer")
             /\ \A f \in BOOLEAN : Errors(<<Event(e, l)>>, f) = 0
  <2> DEFINE x == Event(e, l)
  <2>1. x \in Entry /\ x.about = l /\ x.event = e
    BY Entries DEF About, Kind
  <2>2. x # Event("phase_complete", "per_layer")
    BY DEF Event
  <2> HIDE DEF x
  <2>3. <<x>> \in Seq(Entry) /\ DOMAIN <<x>> = 1 .. 1 /\ <<x>>[1] = x
    BY <2>1, One
  <2>4. \A i \in DOMAIN <<x>> : <<x>>[i].event # "error"
    BY <2>1, <2>3
  <2>5. \A f \in BOOLEAN : Errors(<<x>>, f) = 0
    BY <2>3, <2>4, ErrorsNone
  <2>6. ~Ends(x)
    BY <2>1 DEF Ends
  <2> QED
    BY <2>1, <2>2, <2>5, <2>6 DEF x
<1>2. /\ Error(l, TRUE) \in Entry /\ Error(l, TRUE).about = l
      /\ Error(l, TRUE).event = "error"
      /\ Error(l, TRUE) # Event("phase_complete", "per_layer")
  BY Entries DEF About
<1>3. ~Ends(Error(l, TRUE))
  BY <1>2 DEF Ends
<1>4. l \in About
  BY DEF About
<1>5. Errors(<<Error(l, TRUE)>>, TRUE) = 1
  BY <1>4, ErrorsOne
<1>6. Errors(<<Error(l, TRUE)>>, ~TRUE) = 0
  BY <1>4, ErrorsOne
<1> QED
  BY <1>1, <1>2, <1>3, <1>5, <1>6

LEMMA LayerWrites ==
  ASSUME TypeOK, NEW l \in Layers, LayerStep(l)
  PROVE  /\ stream' = stream \/ \E x \in Entry : Writes(l, x)
         /\ pc = "in_layers" /\ UNCHANGED <<pc, cancel, result, exit, output>>
         /\ layer' \in [Layers -> JobState]
         /\ \A k \in Layers \ {l} : layer'[k] = layer[k]
<1>1. /\ pc = "in_layers" /\ UNCHANGED <<pc, cancel, result, exit, output>>
      /\ \E v \in JobState : layer' = [layer EXCEPT ![l] = v]
  BY DEF LayerStep, LayerStarts, LayerErrorCounted, LayerErrorEmitted,
         LayerBreaks, LayerEnds, LayerSkipped, JobState
<1>2. /\ layer' \in [Layers -> JobState]
      /\ \A k \in Layers \ {l} : layer'[k] = layer[k]
  BY <1>1 DEF TypeOK
<1>3. \/ stream' = stream
      \/ Emitted(<<Event("layer_start", l)>>)
      \/ Emitted(<<Event("layer_complete", l)>>)
      \/ Emitted(<<Error(l, TRUE)>>)
  BY DEF LayerStep, LayerStarts, LayerErrorCounted, LayerErrorEmitted,
         LayerBreaks, LayerEnds, LayerSkipped, Silent
<1>4. CASE Emitted(<<Event("layer_start", l)>>)
  <2>1. Writes(l, Event("layer_start", l))
    BY <1>4, LayerEntries DEF Writes
  <2> QED
    BY <1>1, <1>2, <2>1 DEF Writes
<1>5. CASE Emitted(<<Event("layer_complete", l)>>)
  <2>1. Writes(l, Event("layer_complete", l))
    BY <1>5, LayerEntries DEF Writes
  <2> QED
    BY <1>1, <1>2, <2>1 DEF Writes
<1>6. CASE Emitted(<<Error(l, TRUE)>>)
  <2>1. Writes(l, Error(l, TRUE))
    BY <1>6, LayerEntries DEF Writes
  <2> QED
    BY <1>1, <1>2, <2>1 DEF Writes
<1> QED
  BY <1>1, <1>2, <1>3, <1>4, <1>5, <1>6

LEMMA LayerFrame ==
  ASSUME SliceInv, NEW l \in Layers, LayerStep(l)
  PROVE  /\ stream' \in Seq(Entry)
         /\ \A i \in DOMAIN stream' : ~Ends(stream'[i]) /\ ~Closed(i)'
         /\ Terminal' /\ Closing'
         /\ \A k \in Layers \ {l} :
              /\ At(k)' = At(k)
              /\ \A m \in {1, 2} : Opened(k, m) => Opened(k, m)'
              /\ Bracketed(k) => Bracketed(k)'
<1> USE DEF SliceInv
<1>1. pc = "in_layers" /\ UNCHANGED <<pc, cancel, result, exit, output>>
  BY LayerWrites
<1>2. \A i \in DOMAIN stream : ~Ends(stream[i]) /\ ~Closed(i)
  BY <1>1 DEF Terminal, Closing, Late
<1>3. CASE stream' = stream
  <2>1. \A i \in DOMAIN stream' : ~Ends(stream'[i]) /\ ~Closed(i)'
    BY <1>2, <1>3 DEF Closed
  <2>2. \A k \in Layers : At(k)' = At(k)
    BY <1>3 DEF At
  <2>3. \A k \in Layers, m \in {1, 2} : Opened(k, m) => Opened(k, m)'
    BY <1>3, <2>2 DEF Opened
  <2>4. \A k \in Layers : Bracketed(k) => Bracketed(k)'
    BY <1>3, <2>2 DEF Bracketed
  <2>5. Terminal' /\ Closing'
    BY <2>1, <1>1 DEF Terminal, Closing
  <2> QED
    BY <1>3, <2>1, <2>2, <2>3, <2>4, <2>5 DEF TypeOK
<1>4. CASE \E x \in Entry : Writes(l, x)
  <2>1. PICK x \in Entry : Writes(l, x)
    BY <1>4
  <2>2. /\ stream' \in Seq(Entry)
        /\ \A i \in DOMAIN stream' : i \in DOMAIN stream \/ i = Len(stream) + 1
        /\ \A i \in DOMAIN stream : stream'[i] = stream[i]
        /\ stream'[Len(stream) + 1] = x
    BY <2>1, GrowsByOne DEF Writes
  <2>3. \A i \in DOMAIN stream' : ~Ends(stream'[i]) /\ ~Closed(i)'
    BY <1>2, <2>1, <2>2 DEF Closed, Writes
  <2>4. <<x>> \in Seq(Entry) /\ \A i \in DOMAIN <<x>> : <<x>>[i] = x
    BY One
  <2>5. ASSUME NEW k \in Layers \ {l}
        PROVE  /\ At(k)' = At(k)
               /\ \A m \in {1, 2} : Opened(k, m) => Opened(k, m)'
               /\ Bracketed(k) => Bracketed(k)'
    BY <2>1, <2>4, AtKept DEF Writes
  <2>6. Terminal' /\ Closing'
    BY <2>3, <1>1 DEF Terminal, Closing
  <2> QED
    BY <2>2, <2>3, <2>5, <2>6
<1> QED
  BY <1>3, <1>4, LayerWrites

\* The events of the layer that takes the step, when it writes x.
LEMMA AtGrows ==
  ASSUME TypeOK, NEW l \in Layers, NEW x \in Entry, Writes(l, x)
  PROVE  /\ At(l)' = At(l) \cup {Len(stream) + 1}
         /\ \A i \in At(l) : i < Len(stream) + 1 /\ stream'[i] = stream[i]
         /\ stream'[Len(stream) + 1] = x
BY GrowsByOne DEF At, Writes

LEMMA LayerBrackets ==
  ASSUME SliceInv, NEW l \in Layers, LayerStep(l)
  PROVE  Brackets'
<1> USE DEF SliceInv
<1> DEFINE Here == /\ layer'[l] \in {"queued", "skipped"} => At(l)' = {}
                   /\ layer'[l] \in {"running", "counted"} => Opened(l, 1)'
                   /\ layer'[l] = "broken" => Opened(l, 2)'
                   /\ layer'[l] = "failed" => At(l)' = {} \/ Bracketed(l)'
                   /\ layer'[l] = "ok" => Bracketed(l)'
<1>1. ASSUME NEW v, layer' = [layer EXCEPT ![l] = v] PROVE layer'[l] = v
  BY <1>1 DEF TypeOK
<1>2. ASSUME stream' = stream
      PROVE  At(l)' = At(l) /\ (Opened(l, 1) => Opened(l, 1)' /\ Opened(l, 2)')
  BY <1>2 DEF At, Opened
<1>3. ASSUME LayerStarts(l) PROVE Here
  <2>1. At(l) = {}
    BY <1>3 DEF LayerStarts, Brackets
  <2>2. CASE cancel
    <3>1. layer'[l] = "failed" /\ stream' = stream
      BY <1>3, <2>2, <1>1 DEF LayerStarts
    <3> QED
      BY <2>1, <3>1, <1>2
  <2>3. CASE ~cancel
    <3> DEFINE x == Event("layer_start", l)
    <3>1. x \in Entry /\ Writes(l, x) /\ x.event = "layer_start"
      BY <1>3, <2>3, LayerEntries DEF LayerStarts, Writes
    <3>2. layer'[l] = "running"
      BY <1>3, <2>3, <1>1 DEF LayerStarts
    <3> HIDE DEF x
    <3>3. At(l)' = {Len(stream) + 1} /\ stream'[Len(stream) + 1] = x
      BY <2>1, <3>1, AtGrows
    <3>4. Opened(l, 1)'
      BY <3>1, <3>3 DEF Opened
    <3> QED
      BY <3>2, <3>4
  <2> QED
    BY <2>2, <2>3
<1>4. ASSUME LayerErrorCounted(l) \/ LayerBreaks(l) PROVE Here
  <2>1. Opened(l, 1) /\ stream' = stream /\ layer'[l] \in {"counted", "broken"}
    BY <1>4, <1>1 DEF LayerErrorCounted, LayerBreaks, Brackets, Silent
  <2> QED
    BY <2>1, <1>2
<1>5. ASSUME LayerErrorEmitted(l) PROVE Here
  <2>1. Opened(l, 1)
    BY <1>5 DEF LayerErrorEmitted, Brackets
  <2>2. PICK first \in At(l) : /\ stream[first].event = "layer_start"
                               /\ At(l) = {first}
    BY <2>1 DEF Opened
  <2> DEFINE x == Error(l, TRUE)
             n == Len(stream) + 1
  <2>3. x \in Entry /\ Writes(l, x) /\ x.event = "error"
    BY <1>5, LayerEntries DEF LayerErrorEmitted, Writes
  <2>4. layer'[l] = "broken"
    BY <1>5, <1>1 DEF LayerErrorEmitted
  <2> HIDE DEF x
  <2>5. /\ At(l)' = {first, n} /\ first < n
        /\ stream'[first] = stream[first] /\ stream'[n] = x
    BY <2>2, <2>3, AtGrows
  <2>6. Opened(l, 2)'
    <3>1. first \in At(l)' /\ stream'[first].event = "layer_start"
      BY <2>2, <2>5
    <3>2. \A i \in At(l)' \ {first} :
            /\ first < i /\ stream'[i].event = "error"
            /\ At(l)' = {first, i}
      BY <2>3, <2>5
    <3> QED
      BY <3>1, <3>2 DEF Opened
  <2> QED
    BY <2>4, <2>6
<1>6. ASSUME LayerEnds(l) PROVE Here
  <2>1. Opened(l, 2)
    BY <1>6 DEF LayerEnds, Brackets, Opened
  <2>2. PICK first \in At(l) :
          /\ stream[first].event = "layer_start"
          /\ \A i \in At(l) \ {first} :
               first < i /\ stream[i].event = "error" /\ At(l) = {first, i}
    BY <2>1 DEF Opened
  <2> DEFINE x == Event("layer_complete", l)
             n == Len(stream) + 1
  <2>3. x \in Entry /\ Writes(l, x) /\ x.event = "layer_complete"
    BY <1>6, LayerEntries DEF LayerEnds, Writes
  <2>4. layer'[l] \in {"ok", "failed"}
    BY <1>6, <1>1 DEF LayerEnds
  <2> HIDE DEF x
  <2>5. /\ At(l)' = At(l) \cup {n} /\ stream'[n] = x
        /\ \A i \in At(l) : i < n /\ stream'[i] = stream[i]
    BY <2>3, AtGrows
  <2>6. Bracketed(l)'
    <3>1. /\ first \in At(l)' /\ n \in At(l)' /\ first < n
          /\ stream'[first].event = "layer_start"
          /\ stream'[n].event = "layer_complete"
      BY <2>2, <2>3, <2>5
    <3> HIDE DEF n
    <3>2. ASSUME NEW i \in At(l)' \ {first, n}
          PROVE  /\ first < i /\ i < n /\ stream'[i].event = "error"
                 /\ At(l)' = {first, i, n}
      BY <2>2, <2>5
    <3> QED
      BY <3>1, <3>2 DEF Bracketed
  <2> QED
    BY <2>4, <2>6
<1>7. ASSUME LayerSkipped(l) PROVE Here
  <2>1. At(l) = {} /\ stream' = stream /\ layer'[l] = "skipped"
    BY <1>7, <1>1 DEF LayerSkipped, Brackets, Silent
  <2> QED
    BY <2>1, <1>2
<1>8. Here
  BY <1>3, <1>4, <1>5, <1>6, <1>7 DEF LayerStep
<1>9. ASSUME NEW k \in Layers \ {l}
      PROVE  /\ layer'[k] = layer[k] /\ At(k)' = At(k)
             /\ Opened(k, 1) => Opened(k, 1)'
             /\ Opened(k, 2) => Opened(k, 2)'
             /\ Bracketed(k) => Bracketed(k)'
  BY LayerFrame, LayerWrites
<1> QED
  BY <1>8, <1>9 DEF Brackets

LEMMA LayerTally ==
  ASSUME SliceInv, NEW l \in Layers, LayerStep(l)
  PROVE  Tally' /\ count' \in [fatal : Nat, nonfatal : Nat]
<1> USE DEF SliceInv
<1>1. pc = "in_layers" /\ UNCHANGED <<pc, result>> /\ result = None
  BY LayerWrites DEF Course, Late
<1>2. \A i \in DOMAIN stream' : stream'[i].event # "slice_complete"
  BY LayerFrame DEF Ends
<1>3. \A k \in Layers \ {l} : layer'[k] = layer[k]
  BY LayerWrites
<1>4. IsFiniteSet(Pending) /\ Cardinality(Pending) \in Nat
  BY SliceRunAssumption, FS_Subset, FS_CardinalityType DEF Pending
<1>5. PICK c \in Nat : c = Cardinality(Pending)
  BY <1>4
<1>6. PICK a \in Nat : a = Errors(stream, TRUE)
  BY FaultsFinite DEF TypeOK
<1>7. PICK b \in Nat : b = Errors(stream, FALSE)
  BY FaultsFinite DEF TypeOK
<1>8. count = [fatal |-> a + c, nonfatal |-> b]
  BY <1>5, <1>6, <1>7 DEF Tally, TypeOK
<1>9. SUFFICES /\ count'.fatal = Errors(stream', TRUE) + Cardinality(Pending')
               /\ count'.nonfatal = Errors(stream', FALSE)
               /\ \/ count'.fatal = 0
                  \/ \E k \in Layers : layer'[k] \in {"counted", "broken", "failed"}
               /\ count' \in [fatal : Nat, nonfatal : Nat]
  BY <1>1, <1>2, SliceRunAssumption DEF Tally, Before, After
<1>10. CASE LayerErrorCounted(l)
  <2>1. /\ layer[l] = "running" /\ layer'[l] = "counted" /\ stream' = stream
    BY <1>10 DEF LayerErrorCounted, TypeOK
  <2>2. Pending' = Pending \cup {l} /\ l \notin Pending
    BY <1>3, <2>1 DEF Pending
  <2>3. Cardinality(Pending') = c + 1
    BY <1>4, <1>5, <2>2, FS_AddElement
  <2>4. /\ Errors(<<Error(l, TRUE)>>, TRUE) = 1
        /\ Errors(<<Error(l, TRUE)>>, FALSE) = 0
    BY LayerEntries
  <2>5. count' = [fatal |-> count.fatal + 1, nonfatal |-> count.nonfatal + 0]
    BY <1>10, <2>4 DEF LayerErrorCounted, Counted
  <2>6. count' = [fatal |-> (a + c) + 1, nonfatal |-> b]
    BY <1>8, <2>5
  <2>7. /\ Errors(stream', TRUE) = a /\ Errors(stream', FALSE) = b
    BY <1>6, <1>7, <2>1
  <2>8. count'.fatal = a + (c + 1) /\ count'.nonfatal = b
    BY <2>6
  <2>9. count' \in [fatal : Nat, nonfatal : Nat]
    BY <2>6
  <2> QED
    BY <2>1, <2>3, <2>7, <2>8, <2>9, Zenon
<1>11. CASE LayerErrorEmitted(l)
  <2>1. /\ layer[l] = "counted" /\ layer'[l] = "broken" /\ count' = count
    BY <1>11 DEF LayerErrorEmitted, TypeOK
  <2>2. Pending' = Pending \ {l} /\ l \in Pending
    BY <1>3, <2>1 DEF Pending
  <2>3. Cardinality(Pending') = c - 1
    BY <1>4, <1>5, <2>2, FS_RemoveElement
  <2>4. /\ Errors(<<Error(l, TRUE)>>, TRUE) = 1
        /\ Errors(<<Error(l, TRUE)>>, FALSE) = 0
    BY LayerEntries
  <2>5. Error(l, TRUE) \in Entry /\ Emitted(<<Error(l, TRUE)>>)
    BY <1>11, LayerEntries DEF LayerErrorEmitted
  <2>6. /\ Errors(stream', TRUE) = a + 1 /\ Errors(stream', FALSE) = b + 0
    BY <1>6, <1>7, <2>4, <2>5, GrowsByOne
  <2>7. count'.fatal = (a + 1) + (c - 1) /\ count'.nonfatal = b + 0
    BY <1>8, <2>1
  <2> QED
    BY <2>1, <2>3, <2>6, <2>7 DEF TypeOK
<1>12. CASE LayerStarts(l) \/ LayerBreaks(l) \/ LayerEnds(l) \/ LayerSkipped(l)
  <2>1. /\ count' = count
        /\ layer[l] \in {"queued", "running", "broken"}
        /\ layer'[l] \in {"failed", "running", "broken", "ok", "skipped"}
        /\ layer[l] = "broken" => layer'[l] = "failed"
    BY <1>12 DEF LayerStarts, LayerBreaks, LayerEnds, LayerSkipped, TypeOK, Silent
  <2>2. \/ stream' = stream
        \/ \E e \in {"layer_start", "layer_complete"} : Emitted(<<Event(e, l)>>)
    BY <1>12 DEF LayerStarts, LayerBreaks, LayerEnds, LayerSkipped, Silent
  <2>3. Errors(stream', TRUE) = a /\ Errors(stream', FALSE) = b
    <3>1. CASE stream' = stream
      BY <3>1, <1>6, <1>7
    <3>2. ASSUME NEW e \in {"layer_start", "layer_complete"},
                 Emitted(<<Event(e, l)>>)
          PROVE  Errors(stream', TRUE) = a /\ Errors(stream', FALSE) = b
      <4>1. /\ Event(e, l) \in Entry
            /\ Errors(<<Event(e, l)>>, TRUE) = 0
            /\ Errors(<<Event(e, l)>>, FALSE) = 0
        BY LayerEntries
      <4>2. /\ Errors(stream', TRUE) = a + 0 /\ Errors(stream', FALSE) = b + 0
        BY <1>6, <1>7, <3>2, <4>1, GrowsByOne
      <4>3. a + 0 = a /\ b + 0 = b
        OBVIOUS
      <4> QED
        BY <4>2, <4>3, Zenon
    <3> QED
      BY <2>2, <3>1, <3>2
  <2>4. Pending' = Pending
    BY <1>3, <2>1 DEF Pending
  <2>5. \/ count.fatal = 0
        \/ \E k \in Layers : layer[k] \in {"counted", "broken", "failed"}
    BY <1>1 DEF Tally
  <2>6. ASSUME NEW k \in Layers, layer[k] \in {"counted", "broken", "failed"}
        PROVE  layer'[k] \in {"counted", "broken", "failed"}
    BY <1>3, <2>1, <2>6
  <2>7. \/ count'.fatal = 0
        \/ \E k \in Layers : layer'[k] \in {"counted", "broken", "failed"}
    BY <2>1, <2>5, <2>6, Zenon
  <2>8. count'.fatal = a + c /\ count'.nonfatal = b
    BY <1>8, <2>1
  <2> QED
    BY <2>1, <2>3, <2>4, <2>7, <2>8, <1>5 DEF TypeOK
<1> QED
  BY <1>10, <1>11, <1>12 DEF LayerStep

-----------------------------------------------------------------------------
(* The steps that close the per_layer phase or end the stream.             *)

\* No layer is touched: the brackets are as they were.
LEMMA BracketsKept ==
  ASSUME SliceInv, NEW s \in Seq(Entry), Emitted(s), UNCHANGED layer,
         \A i \in DOMAIN s : s[i].about \notin Layers
  PROVE  Brackets'
<1> SUFFICES ASSUME NEW l \in Layers
             PROVE  /\ layer'[l] \in {"queued", "skipped"} => At(l)' = {}
                    /\ layer'[l] \in {"running", "counted"} => Opened(l, 1)'
                    /\ layer'[l] = "broken" => Opened(l, 2)'
                    /\ layer'[l] = "failed" => At(l)' = {} \/ Bracketed(l)'
                    /\ layer'[l] = "ok" => Bracketed(l)'
  BY DEF Brackets
<1>1. /\ At(l)' = At(l)
      /\ Opened(l, 1) => Opened(l, 1)'
      /\ Opened(l, 2) => Opened(l, 2)'
      /\ Bracketed(l) => Bracketed(l)'
  BY AtKept DEF SliceInv
<1> QED
  BY <1>1 DEF SliceInv, Brackets

LEMMA EndLayersKeeps ==
  ASSUME SliceInv, EndLayers
  PROVE  /\ stream' \in Seq(Entry) /\ count' \in [fatal : Nat, nonfatal : Nat]
         /\ Terminal' /\ Tally' /\ Closing' /\ Brackets'
<1> USE DEF SliceInv
<1> DEFINE x == Event("phase_complete", "per_layer")
           n == Len(stream) + 1
<1>1. x \in Entry /\ x.event = "phase_complete" /\ x.about \notin Layers
  BY Entries, SliceRunAssumption DEF Kind, About, Topics
<1>2. /\ pc = "in_layers" /\ Joined /\ UNCHANGED <<layer, cancel, result>>
      /\ pc' \in {"postpass", "failed"}
      /\ pc' = "postpass" => \A l \in Layers : layer[l] = "ok"
      /\ Record(<<x>>) /\ Emitted(<<x>>)
  BY DEF EndLayers, Record
<1>3. \A i \in DOMAIN stream : ~Ends(stream[i]) /\ ~Closed(i)
  BY <1>2 DEF Terminal, Closing, Late
<1>4. /\ stream' \in Seq(Entry) /\ Len(stream) \in Nat
      /\ DOMAIN stream = 1 .. Len(stream) /\ DOMAIN stream' = 1 .. n
      /\ \A i \in DOMAIN stream : stream'[i] = stream[i]
      /\ stream'[n] = x
  BY <1>1, <1>2, GrowsByOne
<1>5. <<x>> \in Seq(Entry) /\ \A i \in DOMAIN <<x>> : <<x>>[i] = x
  BY <1>1, One
<1>6. result = None
  BY <1>2 DEF Course, Late
<1>7. Brackets'
  BY <1>1, <1>2, <1>5, BracketsKept
<1>8. \A i \in DOMAIN stream' : ~Ends(stream'[i])
  BY <1>1, <1>3, <1>4 DEF Ends
<1>9. Terminal'
  BY <1>2, <1>6, <1>8, SliceRunAssumption DEF Terminal
<1>10. Closing'
  <2> SUFFICES ASSUME NEW i \in DOMAIN stream', Closed(i)'
               PROVE  /\ pc' \notin Before \cup {"in_layers"} /\ Joined'
                      /\ \A j \in DOMAIN stream' :
                           stream'[j].about \in Layers => j < i
    BY DEF Closing
  <2>1. i = n
    BY <1>3, <1>4 DEF Closed
  <2>2. \A j \in DOMAIN stream' : stream'[j].about \in Layers => j < i
    BY <1>1, <1>4, <2>1
  <2> QED
    BY <1>2, <2>2 DEF Before, Joined
<1>11. Errors(<<x>>, TRUE) = 0
  <2>1. \A i \in DOMAIN <<x>> : <<x>>[i].event # "error"
    BY <1>1, <1>5
  <2> QED
    BY <1>5, <2>1, ErrorsNone
<1> HIDE DEF x, n
<1>12. /\ count'.fatal = count.fatal + Errors(<<x>>, TRUE)
       /\ count'.fatal = Errors(stream', TRUE) + Cardinality(Pending')
       /\ count'.nonfatal = Errors(stream', FALSE)
       /\ count' \in [fatal : Nat, nonfatal : Nat]
  BY <1>2, <1>5, TallyGrows DEF Tally
<1>13. pc' = "postpass" => count'.fatal = 0
  <2>1. pc' = "postpass" => count.fatal = 0
    BY <1>2 DEF Tally
  <2>2. count'.fatal = count.fatal + 0
    BY <1>11, <1>12, Zenon
  <2>3. count'.fatal = count.fatal
    BY <2>2 DEF TypeOK
  <2> QED
    BY <2>1, <2>3
<1>14. Pending' = {}
  BY <1>2 DEF Pending, Joined
<1>15. Tally'
  <2>1. pc' \in Before \cup After \/ result' = "ok" => pc' = "postpass"
    BY <1>2, <1>6, SliceRunAssumption DEF Before, After
  <2>2. \A i \in DOMAIN stream' : stream'[i].event # "slice_complete"
    BY <1>8 DEF Ends
  <2>3. pc' # "in_layers"
    BY <1>2
  <2> QED
    BY <1>12, <1>13, <1>14, <2>1, <2>2, <2>3 DEF Tally
<1> QED
  BY <1>4, <1>7, <1>9, <1>10, <1>12, <1>15

LEMMA CancelledKeeps ==
  ASSUME SliceInv, PipelineEnds, pc = "failed", cancel
  PROVE  /\ stream' \in Seq(Entry) /\ count' \in [fatal : Nat, nonfatal : Nat]
         /\ Terminal' /\ Tally' /\ Closing' /\ Brackets'
<1> USE DEF SliceInv
<1> DEFINE x == Event("cancelled", None)
           n == Len(stream) + 1
<1>1. x \in Entry /\ x.event = "cancelled" /\ x.about \notin Layers
  BY Entries, SliceRunAssumption DEF Kind, About, Topics
<1>2. /\ UNCHANGED <<layer, cancel>> /\ result' = "err" /\ pc' = "cleanup"
      /\ Record(<<x>>) /\ Emitted(<<x>>)
  BY DEF PipelineEnds, Record
<1>3. \A i \in DOMAIN stream : ~Ends(stream[i])
  BY DEF Terminal, Late
<1>4. /\ stream' \in Seq(Entry) /\ Len(stream) \in Nat /\ Len(stream') = n
      /\ DOMAIN stream = 1 .. Len(stream) /\ DOMAIN stream' = 1 .. n
      /\ \A i \in DOMAIN stream : stream'[i] = stream[i]
      /\ stream'[n] = x
  BY <1>1, <1>2, GrowsByOne
<1>5. <<x>> \in Seq(Entry) /\ \A i \in DOMAIN <<x>> : <<x>>[i] = x
  BY <1>1, One
<1>6. Brackets'
  BY <1>1, <1>2, <1>5, BracketsKept
<1>7. \A i \in DOMAIN stream' : Ends(stream'[i]) => i = n
  BY <1>3, <1>4
<1>8. Terminal'
  <2>1. stream'[n].event = "cancelled"
    BY <1>1, <1>4
  <2> QED
    BY <1>2, <1>4, <1>7, <2>1 DEF Terminal, Late
<1>9. Closing'
  <2> SUFFICES ASSUME NEW i \in DOMAIN stream', Closed(i)'
               PROVE  /\ pc' \notin Before \cup {"in_layers"} /\ Joined'
                      /\ \A j \in DOMAIN stream' :
                           stream'[j].about \in Layers => j < i
    BY DEF Closing
  <2>1. x # Event("phase_complete", "per_layer")
    BY DEF Event
  <2>2. i \in DOMAIN stream /\ Closed(i)
    BY <1>4, <2>1 DEF Closed
  <2>3. /\ Joined
        /\ \A j \in DOMAIN stream : stream[j].about \in Layers => j < i
    BY <2>2 DEF Closing
  <2>4. \A j \in DOMAIN stream' : stream'[j].about \in Layers => j < i
    BY <1>1, <1>4, <2>3
  <2> QED
    BY <1>2, <2>3, <2>4 DEF Before, Joined
<1> HIDE DEF x, n
<1>10. /\ count'.fatal = Errors(stream', TRUE) + Cardinality(Pending')
       /\ count'.nonfatal = Errors(stream', FALSE)
       /\ count' \in [fatal : Nat, nonfatal : Nat]
  BY <1>2, <1>5, TallyGrows DEF Tally
<1>11. Tally'
  <2>1. \A i \in DOMAIN stream' : stream'[i].event # "slice_complete"
    BY <1>1, <1>3, <1>4, <1>7 DEF Ends
  <2>2. Pending' = {}
    BY <1>2 DEF Pending, Tally
  <2>3. /\ ~(pc' \in Before \cup After \/ result' = "ok")
        /\ pc' # "in_layers"
    BY <1>2 DEF Before, After
  <2> QED
    BY <1>10, <2>1, <2>2, <2>3 DEF Tally
<1> QED
  BY <1>4, <1>6, <1>8, <1>9, <1>10, <1>11

LEMMA SummarizeKeeps ==
  ASSUME SliceInv, Summarize
  PROVE  /\ stream' \in Seq(Entry) /\ count' \in [fatal : Nat, nonfatal : Nat]
         /\ Terminal' /\ Tally' /\ Closing' /\ Brackets'
<1> USE DEF SliceInv
<1> DEFINE p == Event("profile_summary", None)
           y == Event("slice_stats", None)
           z == Completed(count)
<1>1. /\ p \in Entry /\ p.event = "profile_summary" /\ p.about = None
      /\ y \in Entry /\ y.event = "slice_stats" /\ y.about = None
  BY Entries DEF Kind, About, Topics
<1>2. /\ z \in Entry /\ z.event = "slice_complete" /\ z.about = None
      /\ z.counts = count /\ z # Event("phase_complete", "per_layer")
  BY Entries DEF TypeOK
<1>3. PICK profile \in {<<>>, <<p>>} : Record(profile \o <<y, z>>)
  BY DEF Summarize
<1>4. /\ pc = "summary" /\ pc' = "main" /\ UNCHANGED <<layer, cancel, result>>
  BY DEF Summarize
<1>5. p # Event("phase_complete", "per_layer") /\ y # Event("phase_complete", "per_layer")
  BY DEF Event
<1> DEFINE s == profile \o <<y, z>>
<1> HIDE DEF p, y, z
<1>6. /\ s \in Seq(Entry) /\ Len(s) \in {2, 3} /\ DOMAIN s = 1 .. Len(s)
      /\ s[Len(s)] = z
      /\ \A i \in 1 .. Len(s) : i # Len(s) => s[i] \in {p, y}
  <2>1. /\ <<y, z>> \in Seq(Entry) /\ Len(<<y, z>>) = 2
        /\ <<y, z>>[1] = y /\ <<y, z>>[2] = z
    BY <1>1, <1>2, Two
  <2>2. CASE profile = <<>>
    <3>1. s \in Seq(Entry) /\ Len(s) = 2 /\ s[1] = y /\ s[2] = z
      BY <2>1, <2>2
    <3> HIDE DEF s
    <3> QED
      BY <3>1
  <2>3. CASE profile = <<p>>
    <3>1. <<p>> \in Seq(Entry) /\ Len(<<p>>) = 1 /\ <<p>>[1] = p
      BY <1>1, One
    <3>2. s \in Seq(Entry) /\ Len(s) = 3 /\ s[1] = p /\ s[2] = y /\ s[3] = z
      BY <2>1, <2>3, <3>1
    <3> HIDE DEF s
    <3> QED
      BY <3>2
  <2> QED
    BY <2>2, <2>3
<1>7. Record(s) /\ Emitted(s)
  BY <1>3 DEF Record
<1> HIDE DEF s
<1>8. \A i \in DOMAIN s : s[i].about \notin Layers
                          /\ s[i] # Event("phase_complete", "per_layer")
  BY <1>1, <1>2, <1>5, <1>6, SliceRunAssumption DEF Topics
<1>9. /\ stream' \in Seq(Entry) /\ Len(stream) \in Nat
      /\ DOMAIN stream = 1 .. Len(stream)
      /\ Len(stream') = Len(stream) + Len(s)
      /\ DOMAIN stream' = 1 .. (Len(stream) + Len(s))
      /\ \A i \in DOMAIN stream : stream'[i] = stream[i]
      /\ \A i \in DOMAIN stream' : i \notin DOMAIN stream =>
           i - Len(stream) \in DOMAIN s /\ stream'[i] = s[i - Len(stream)]
  BY <1>6, <1>7, Grows
<1>10. \A i \in DOMAIN stream : ~Ends(stream[i])
  BY <1>4 DEF Terminal, Late
<1>11. \A i \in DOMAIN stream' :
         Ends(stream'[i]) => i = Len(stream') /\ stream'[i] = z
  <2> SUFFICES ASSUME NEW i \in DOMAIN stream', Ends(stream'[i])
               PROVE  i = Len(stream') /\ stream'[i] = z
    OBVIOUS
  <2>1. i \notin DOMAIN stream
    BY <1>9, <1>10
  <2>2. i - Len(stream) \in DOMAIN s /\ stream'[i] = s[i - Len(stream)]
    BY <1>9, <2>1
  <2>3. ~Ends(p) /\ ~Ends(y)
    BY <1>1 DEF Ends
  <2>4. i - Len(stream) = Len(s)
    BY <1>6, <2>2, <2>3
  <2>5. i = Len(stream) + Len(s)
    <3>1. PICK m \in Nat : m = Len(stream)
      BY <1>9
    <3>2. PICK k \in {2, 3} : k = Len(s)
      BY <1>6
    <3>3. i \in 1 .. (m + k) /\ i - m = k
      BY <1>9, <2>4, <3>1, <3>2
    <3>4. i = m + k
      BY <3>3
    <3> QED
      BY <3>1, <3>2, <3>4
  <2> QED
    BY <1>6, <1>9, <2>2, <2>4, <2>5
<1>12. Len(stream') \in DOMAIN stream' /\ stream'[Len(stream')] = z
  <2>1. PICK m \in Nat : m = Len(stream)
    BY <1>9
  <2>2. PICK k \in {2, 3} : k = Len(s)
    BY <1>6
  <2>3. /\ Len(stream') = m + k /\ DOMAIN stream' = 1 .. (m + k)
        /\ DOMAIN stream = 1 .. m
    BY <1>9, <2>1, <2>2
  <2>4. m + k \in DOMAIN stream' /\ m + k \notin DOMAIN stream /\ (m + k) - m = k
    BY <2>3
  <2>5. stream'[m + k] = s[k]
    BY <1>9, <2>1, <2>4
  <2> QED
    BY <1>6, <2>2, <2>3, <2>4, <2>5
<1>13. result = "ok"
  BY <1>4 DEF Course
<1>14. Terminal'
  <2>1. Told("slice_complete")'
    BY <1>2, <1>12 DEF Told
  <2>2. ASSUME NEW i \in DOMAIN stream', Ends(stream'[i])
        PROVE  /\ i = Len(stream') /\ pc' \in Late
               /\ result' = "ok" /\ pc' # "cleanup"
               /\ stream'[i].event # "cancelled"
    BY <1>2, <1>4, <1>11, <1>13, <2>2 DEF Late
  <2> QED
    BY <2>1, <2>2 DEF Terminal
<1>15. Brackets'
  BY <1>4, <1>6, <1>7, <1>8, BracketsKept
<1>16. Closing'
  <2> SUFFICES ASSUME NEW i \in DOMAIN stream', Closed(i)'
               PROVE  /\ pc' \notin Before \cup {"in_layers"} /\ Joined'
                      /\ \A j \in DOMAIN stream' :
                           stream'[j].about \in Layers => j < i
    BY DEF Closing
  <2>1. i \in DOMAIN stream /\ Closed(i)
    BY <1>8, <1>9 DEF Closed
  <2>2. /\ Joined
        /\ \A j \in DOMAIN stream : stream[j].about \in Layers => j < i
    BY <2>1 DEF Closing
  <2>3. \A j \in DOMAIN stream' : stream'[j].about \in Layers => j < i
    BY <1>8, <1>9, <2>2
  <2> QED
    BY <1>4, <2>2, <2>3 DEF Before, Joined
<1>17. Errors(s, TRUE) = 0 /\ Errors(s, FALSE) = 0
  <2>1. \A i \in DOMAIN s : s[i].event # "error"
    BY <1>1, <1>2, <1>6
  <2> QED
    BY <1>6, <2>1, ErrorsNone
<1>18. count' = count
  <2>1. count' = [fatal |-> count.fatal + 0, nonfatal |-> count.nonfatal + 0]
    BY <1>7, <1>17, Zenon DEF Record, Counted
  <2> QED
    BY <2>1 DEF TypeOK
<1>19. /\ count'.fatal = Errors(stream', TRUE) + Cardinality(Pending')
       /\ count'.nonfatal = Errors(stream', FALSE)
  BY <1>4, <1>6, <1>7, TallyGrows DEF Tally
<1>20. Tally'
  <2>1. count'.fatal = 0
    BY <1>13, <1>18 DEF Tally
  <2>2. Pending' = {}
    BY <1>4 DEF Pending, Tally
  <2>3. \A i \in DOMAIN stream' :
          stream'[i].event = "slice_complete" => stream'[i].counts = count'
    BY <1>2, <1>11, <1>18 DEF Ends
  <2>4. pc' # "in_layers"
    BY <1>4
  <2> QED
    BY <1>19, <2>1, <2>2, <2>3, <2>4 DEF Tally
<1> QED
  BY <1>9, <1>14, <1>15, <1>16, <1>18, <1>20 DEF TypeOK

-----------------------------------------------------------------------------
(* The theorems.                                                           *)

LEMMA InitInv == Init => SliceInv
<1> SUFFICES ASSUME Init PROVE SliceInv
  OBVIOUS
<1> USE SliceRunAssumption DEF Init
<1>1. stream \in Seq(Entry) /\ DOMAIN stream = {}
  OBVIOUS
<1>2. TypeOK
  BY <1>1 DEF TypeOK, Before, JobState
<1>3. Course
  BY DEF Course, Before, After, Late
<1>4. Terminal
  BY <1>1 DEF Terminal
<1>5. Tally
  <2>1. Pending = {}
    BY DEF Pending
  <2>2. Cardinality(Pending) = 0
    BY <2>1, FS_EmptySet
  <2>3. Errors(stream, TRUE) = 0 /\ Errors(stream, FALSE) = 0
    BY ErrorsEmpty
  <2>4. 0 = 0 + 0
    OBVIOUS
  <2>5. count.fatal = 0 /\ count.nonfatal = 0 /\ pc # "in_layers"
    OBVIOUS
  <2>6. count.fatal = Errors(stream, TRUE) + Cardinality(Pending)
    BY <2>2, <2>3, <2>4, <2>5, Zenon
  <2>7. count.nonfatal = Errors(stream, FALSE)
    BY <2>3, <2>5, Zenon
  <2> QED
    BY <1>1, <2>1, <2>5, <2>6, <2>7 DEF Tally
<1>6. Closing
  BY <1>1 DEF Closing
<1>7. Brackets
  BY <1>1 DEF Brackets, At
<1> QED
  BY <1>2, <1>3, <1>4, <1>5, <1>6, <1>7 DEF SliceInv

\* The variables that hold no event.
LEMMA StepScalars ==
  ASSUME TypeOK, Next
  PROVE  /\ pc' \in Before \cup After \cup Late \cup {"in_layers", "failed"}
         /\ layer' \in [Layers -> JobState]
         /\ cancel' \in BOOLEAN
         /\ result' \in {None, "ok", "err"}
         /\ exit' \in {None, 0, 1, 130}
         /\ output' \in {"absent", "old", "torn", "new"}
<1> USE DEF Before, After, Late, TypeOK
<1>1. CASE Validate \/ SetupFails \/ Setup
  BY <1>1 DEF Validate, SetupFails, Setup
<1>2. CASE EnterPrepass \/ EnterPerLayer \/ EnterPostpass
  BY <1>2 DEF EnterPrepass, EnterPerLayer, EnterPostpass, EnterPhase
<1>3. CASE EndPrepass
  BY <1>3 DEF EndPrepass, EndPhase
<1>4. CASE EndPostpass
  BY <1>4 DEF EndPostpass, EndPhase
<1>5. CASE EndLayers
  BY <1>5 DEF EndLayers
<1>6. CASE PipelineEnds
  BY <1>6 DEF PipelineEnds
<1>7. CASE Cleanup \/ Diagnose \/ Summarize
  <2>1. /\ UNCHANGED <<layer, cancel, exit, output>>
        /\ pc' \in {"diagnostics", "main", "summary"}
        /\ result' = "err" \/ UNCHANGED result
    BY <1>7 DEF Cleanup, Diagnose, Summarize
  <2> QED
    BY <2>1
<1>8. CASE Main
  BY <1>8 DEF Main, ExitCode
<1>9. CASE \E l \in Layers : LayerStep(l)
  <2>1. PICK l \in Layers : LayerStep(l)
    BY <1>9
  <2>2. /\ UNCHANGED <<pc, cancel, result, exit, output>>
        /\ layer' \in [Layers -> JobState]
    BY <2>1, LayerWrites
  <2> QED
    BY <2>2
<1>10. CASE Cancel \/ Ended
  <2>1. UNCHANGED <<pc, layer, result, exit, output>>
    BY <1>10 DEF Cancel, Ended, vars
  <2>2. cancel' = TRUE \/ cancel' = cancel
    BY <1>10 DEF Cancel, Ended, vars
  <2>3. cancel' \in BOOLEAN
    BY <2>2, Zenon
  <2> QED
    BY <2>1, <2>3
<1> QED
  BY <1>1, <1>2, <1>3, <1>4, <1>5, <1>6, <1>7, <1>8, <1>9, <1>10
     DEF Next, MainStep

\* The signal handler sets the flag, which nothing recorded speaks against.
LEMMA FlagKeeps ==
  ASSUME SliceInv, UNCHANGED <<stream, count, pc, layer, result>>,
         cancel => cancel'
  PROVE  /\ stream' \in Seq(Entry) /\ count' \in [fatal : Nat, nonfatal : Nat]
         /\ Terminal' /\ Tally' /\ Closing' /\ Brackets'
<1> USE DEF SliceInv
<1>1. Terminal'
  BY DEF Terminal, Told
<1>2. Tally'
  BY DEF Tally, Pending
<1>3. Closing'
  BY DEF Closing, Closed, Joined
<1>4. Brackets'
  BY DEF Brackets, Opened, Bracketed, At
<1> QED
  BY <1>1, <1>2, <1>3, <1>4 DEF TypeOK

LEMMA StepInv == SliceInv /\ [Next]_vars => SliceInv'
<1> SUFFICES ASSUME SliceInv, [Next]_vars PROVE SliceInv'
  OBVIOUS
<1> DEFINE Kept == /\ stream' \in Seq(Entry)
                   /\ count' \in [fatal : Nat, nonfatal : Nat]
                   /\ Terminal' /\ Tally' /\ Closing' /\ Brackets'
<1>1. ASSUME Next PROVE Kept
  <2>1. ASSUME QuietStep PROVE Kept
    BY <2>1, QuietKeeps
  <2>2. ASSUME NEW l \in Layers, LayerStep(l) PROVE Kept
    BY <2>2, LayerFrame, LayerBrackets, LayerTally
  <2>3. ASSUME EndLayers PROVE Kept
    BY <2>3, EndLayersKeeps
  <2>4. ASSUME PipelineEnds, pc = "failed" /\ cancel PROVE Kept
    BY <2>4, CancelledKeeps
  <2>5. ASSUME Summarize PROVE Kept
    BY <2>5, SummarizeKeeps
  <2>6. ASSUME Cancel \/ Ended PROVE Kept
    <3>1. UNCHANGED <<stream, count, pc, layer, result>> /\ (cancel => cancel')
      BY <2>6 DEF Cancel, Ended, vars
    <3> QED
      BY <3>1, FlagKeeps
  <2> QED
    BY <1>1, <2>1, <2>2, <2>3, <2>4, <2>5, <2>6 DEF Next, MainStep, QuietStep
<1>2. CASE Next
  BY <1>1, <1>2, StepScalars, StepCourse DEF SliceInv, TypeOK
<1>3. CASE UNCHANGED vars
  <2>1. UNCHANGED <<stream, count, pc, layer, result>> /\ (cancel => cancel')
    BY <1>3 DEF vars
  <2>2. Kept
    BY <2>1, FlagKeeps
  <2>3. Course'
    BY <1>3 DEF SliceInv, Course, vars
  <2> QED
    BY <1>3, <2>2, <2>3 DEF SliceInv, TypeOK, vars
<1> QED
  BY <1>2, <1>3

\* The invariant of a slice: course, stream, counts, phases and layers agree
\* in every reachable state, for any number of layers and diagnostics.
THEOREM SliceInvariant == Spec => []SliceInv
BY InitInv, StepInv, PTL DEF Spec

\* Nothing follows slice_complete or cancelled, and stream, exit code and
\* output file agree, whenever the cancel flag is set.
THEOREM SliceTerminal == Spec => []TerminalEvent
<1>1. SliceInv => TerminalEvent
  <2> SUFFICES ASSUME SliceInv PROVE TerminalEvent
    OBVIOUS
  <2> USE SliceRunAssumption DEF SliceInv
  <2>1. \A i \in DOMAIN stream :
          stream[i].event \in {"slice_complete", "cancelled"} => i = Len(stream)
    BY DEF Terminal, Ends
  <2>2. ASSUME exit = 0
        PROVE  Told("slice_complete") /\ output = "new" /\ Errors(stream, TRUE) = 0
    <3>1. result = "ok" /\ output = "new" /\ pc = "ended"
      BY <2>2 DEF Course
    <3>2. count.fatal = 0 /\ Pending = {}
      BY <3>1 DEF Tally
    <3>3. Cardinality(Pending) = 0
      BY <3>2, FS_EmptySet
    <3>4. PICK a \in Nat : a = Errors(stream, TRUE)
      BY FaultsFinite DEF TypeOK
    <3>5. 0 = a + 0
      BY <3>2, <3>3, <3>4 DEF Tally
    <3>6. a = 0
      BY <3>5
    <3> QED
      BY <3>1, <3>4, <3>6 DEF Terminal
  <2>3. ASSUME exit = 130
        PROVE  ~Told("slice_complete") /\ output \in {"absent", "old"}
    BY <2>3 DEF Course, Terminal, Told, Ends
  <2>4. ASSUME Told("cancelled") PROVE exit \in {None, 130}
    <3>1. result = "err" /\ cancel
      BY <2>4 DEF Told, Terminal, Ends
    <3> QED
      BY <3>1 DEF Course, TypeOK
  <2> QED
    BY <2>1, <2>2, <2>3, <2>4 DEF TerminalEvent
<1> QED
  BY <1>1, SliceInvariant, PTL

\* Every layer that started is completed before its phase is, no event of a
\* layer comes later, and a completed slice has run every layer.
THEOREM SliceBrackets == Spec => []LayersBracketed
<1>1. SliceInv => LayersBracketed
  <2> SUFFICES ASSUME SliceInv PROVE LayersBracketed
    OBVIOUS
  <2> USE DEF SliceInv
  <2>1. \A i, j \in DOMAIN stream :
          Closed(i) /\ stream[j].about \in Layers => j < i
    BY DEF Closing
  <2>2. ASSUME NEW i \in DOMAIN stream, Closed(i), NEW l \in Layers, At(l) # {}
        PROVE  Bracketed(l)
    <3>1. Joined
      BY <2>2 DEF Closing
    <3> QED
      BY <2>2, <3>1 DEF Joined, Brackets
  <2>3. ASSUME Told("slice_complete"), NEW l \in Layers PROVE At(l) # {}
    <3>1. result = "ok"
      BY <2>3 DEF Told, Terminal, Ends
    <3>2. Bracketed(l)
      BY <3>1 DEF Course, Brackets
    <3> QED
      BY <3>2 DEF Bracketed
  <2> QED
    BY <2>1, <2>2, <2>3 DEF LayersBracketed
<1> QED
  BY <1>1, SliceInvariant, PTL

\* The collector is never behind the stream, and slice_complete carries the
\* errors the stream shows.
THEOREM SliceCounts == Spec => []CountsTold
<1>1. SliceInv => CountsTold
  <2> SUFFICES ASSUME SliceInv PROVE CountsTold
    OBVIOUS
  <2> USE SliceRunAssumption DEF SliceInv
  <2>1. PICK a \in Nat : a = Errors(stream, TRUE)
    BY FaultsFinite DEF TypeOK
  <2>2. PICK b \in Nat : b = Errors(stream, FALSE)
    BY FaultsFinite DEF TypeOK
  <2>3. PICK c \in Nat : c = Cardinality(Pending)
    BY FS_Subset, FS_CardinalityType DEF Pending
  <2>4. count.fatal = a + c /\ count.nonfatal = b
    BY <2>1, <2>2, <2>3, Zenon DEF Tally
  <2>5. count.fatal >= a /\ count.nonfatal >= b
    BY <2>4
  <2>6. ASSUME NEW i \in DOMAIN stream, stream[i].event = "slice_complete"
        PROVE  stream[i].counts = [fatal |-> 0, nonfatal |-> b]
    <3>1. stream[i].counts = count /\ result = "ok"
      BY <2>6 DEF Tally, Terminal, Ends
    <3>2. count.fatal = 0
      BY <3>1 DEF Tally
    <3> QED
      BY <2>4, <3>1, <3>2 DEF TypeOK
  <2>7. /\ count.fatal >= Errors(stream, TRUE)
        /\ count.nonfatal >= Errors(stream, FALSE)
    BY <2>1, <2>2, <2>5, Zenon
  <2> QED
    BY <2>2, <2>6, <2>7, Zenon DEF CountsTold
<1> QED
  BY <1>1, SliceInvariant, PTL

==============================================================================
