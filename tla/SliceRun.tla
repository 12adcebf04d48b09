------------------------------- MODULE SliceRun -------------------------------
(***************************************************************************)
(* One pnp_cli slice as its caller sees it: the JSONL progress stream, the *)
(* exit code and the output file.  The phases run on the main thread, the  *)
(* layers on rayon workers that share the sink; a signal handler may set   *)
(* the cancel flag at any time.  What a phase computes is abstracted to    *)
(* whether it fails and whether its failure is put on the stream.          *)
(*                                                                         *)
(* A full slice at the core progress tier: the preparation completions     *)
(* stop after the prepass and are part of PrintPreparation.                *)
(***************************************************************************)
EXTENDS Naturals, Sequences, FiniteSets

CONSTANTS Layers,          \* plan.global_layers
          MaxDiagnostics,  \* support diagnostics 1200 to 1202 of the prepass
          None

\* What an event is about that is not about a layer.
Topics == {"validation", "prepass", "per_layer", "postpass", "support", None}

ASSUME SliceRunAssumption ==
  /\ IsFiniteSet(Layers)
  /\ Layers \cap Topics = {}
  /\ MaxDiagnostics \in Nat
  /\ None \notin {"ok", "err"} /\ None \notin {0, 1, 130}

VARIABLES
  stream,   \* the events written to the JSONL transport
  count,    \* the SliceEventCollector's error counts
  pc,       \* where the main thread is
  layer,    \* per layer: where its job is
  cancel,   \* cancel_flag
  result,   \* of the pipeline and its cleanup: None, "ok" or "err"
  exit,     \* the exit code of the process, or None
  output    \* the file at --output: "absent", "old", "torn" or "new"

vars == <<stream, count, pc, layer, cancel, result, exit, output>>

Init == /\ stream = <<>>
        /\ count = [fatal |-> 0, nonfatal |-> 0]
        /\ pc = "validation"
        /\ layer = [l \in Layers |-> "queued"]
        /\ cancel = FALSE
        /\ result = None
        /\ exit = None
        /\ output \in {"absent", "old"}

-----------------------------------------------------------------------------
(* The sink.                                                               *)

Event(e, about) == [event |-> e, about |-> about]
Error(about, fatal) == [event |-> "error", about |-> about, fatal |-> fatal]
Completed(n) == [event |-> "slice_complete", about |-> None, counts |-> n]

Errors(s, fatal) ==
  Cardinality({i \in DOMAIN s : s[i].event = "error" /\ s[i].fatal = fatal})

\* SliceEventCollector::record.
Counted(s) == count' = [fatal |-> count.fatal + Errors(s, TRUE),
                        nonfatal |-> count.nonfatal + Errors(s, FALSE)]

Emitted(s) == stream' = stream \o s

\* RuntimeProgressSink::record, where no other thread records.
Record(s) == Counted(s) /\ Emitted(s)

Silent == UNCHANGED <<stream, count>>

-----------------------------------------------------------------------------
(* Before the pipeline.                                                    *)

\* The startup validation; only the version passes are fatal.
Validate ==
  /\ pc = "validation"
  /\ \/ /\ Record(<<Event("phase_start", "validation"),
                    Event("phase_complete", "validation")>>)
        /\ pc' = "setup"
        /\ UNCHANGED result
     \/ /\ Record(<<Event("phase_start", "validation"),
                    Error("validation", TRUE),
                    Event("phase_complete", "validation")>>)
        /\ result' = "err" /\ pc' = "main"
  /\ UNCHANGED <<layer, cancel, exit, output>>

\* The modules do not load, or the configuration does not resolve.
SetupFails ==
  /\ pc \in {"validation", "setup"}
  /\ Silent
  /\ result' = "err" /\ pc' = "main"
  /\ UNCHANGED <<layer, cancel, exit, output>>

Setup ==
  /\ pc = "setup"
  /\ Silent
  /\ pc' = "prepass"
  /\ UNCHANGED <<layer, cancel, result, exit, output>>

-----------------------------------------------------------------------------
(* The pipeline.                                                           *)

\* A phase begins, unless the run was cancelled before it.
EnterPhase(phase, body) ==
  /\ pc = phase
  /\ IF cancel
     THEN Silent /\ pc' = "failed"
     ELSE Record(<<Event("phase_start", phase)>>) /\ pc' = body
  /\ UNCHANGED <<layer, cancel, result, exit, output>>

\* A phase of the main thread ends, with an event whatever came of it.  A
\* module that fails is reported; a host built-in, the preparation of owners,
\* the emitter and the serializer return their error and record nothing.
EndPhase(phase, body, next) ==
  /\ pc = body
  /\ \E told \in {<<>>, <<Error(phase, TRUE)>>}, ok \in BOOLEAN :
       /\ ok => told = <<>>
       /\ Record(told \o <<Event("phase_complete", phase)>>)
       /\ pc' = IF ok THEN next ELSE "failed"
  /\ UNCHANGED <<layer, cancel, result, exit, output>>

EnterPrepass == EnterPhase("prepass", "in_prepass")
EndPrepass == EndPhase("prepass", "in_prepass", "per_layer")
EnterPerLayer == EnterPhase("per_layer", "in_layers")
EnterPostpass == EnterPhase("postpass", "in_postpass")
EndPostpass == EndPhase("postpass", "in_postpass", "done")

\* The job of a layer looks at the flag and begins.
LayerStarts(l) ==
  /\ pc = "in_layers" /\ layer[l] = "queued"
  /\ \/ /\ cancel
        /\ layer' = [layer EXCEPT ![l] = "failed"]
        /\ UNCHANGED stream
     \/ /\ ~cancel
        /\ layer' = [layer EXCEPT ![l] = "running"]
        /\ Emitted(<<Event("layer_start", l)>>)
  /\ UNCHANGED <<count, pc, cancel, result, exit, output>>

\* A module fails, or its commit does: on_module_error takes the collector's
\* lock and then the writer's.
LayerErrorCounted(l) ==
  /\ pc = "in_layers" /\ layer[l] = "running"
  /\ Counted(<<Error(l, TRUE)>>)
  /\ layer' = [layer EXCEPT ![l] = "counted"]
  /\ UNCHANGED <<stream, pc, cancel, result, exit, output>>

LayerErrorEmitted(l) ==
  /\ pc = "in_layers" /\ layer[l] = "counted"
  /\ Emitted(<<Error(l, TRUE)>>)
  /\ layer' = [layer EXCEPT ![l] = "broken"]
  /\ UNCHANGED <<count, pc, cancel, result, exit, output>>

\* The host's own step of a layer fails.
LayerBreaks(l) ==
  /\ pc = "in_layers" /\ layer[l] = "running"
  /\ layer' = [layer EXCEPT ![l] = "broken"]
  /\ Silent
  /\ UNCHANGED <<pc, cancel, result, exit, output>>

\* layer_complete, whatever the layer's result.
LayerEnds(l) ==
  /\ pc = "in_layers" /\ layer[l] \in {"running", "broken"}
  /\ Emitted(<<Event("layer_complete", l)>>)
  /\ layer' = [layer EXCEPT ![l] = IF @ = "running" THEN "ok" ELSE "failed"]
  /\ UNCHANGED <<count, pc, cancel, result, exit, output>>

\* rayon's collect into a Result takes no further item after an error.
LayerSkipped(l) ==
  /\ pc = "in_layers" /\ layer[l] = "queued"
  /\ \E k \in Layers : layer[k] = "failed"
  /\ layer' = [layer EXCEPT ![l] = "skipped"]
  /\ Silent
  /\ UNCHANGED <<pc, cancel, result, exit, output>>

\* Mutant: the first error ends the phase.
JoinedFirst ==
  \/ \E l \in Layers : layer[l] = "failed"
  \/ \A l \in Layers : layer[l] \in {"ok", "failed", "skipped"}

\* Every job has returned.
Joined == \A l \in Layers : layer[l] \in {"ok", "failed", "skipped"}

\* Anchored events and rows are the host's, and may fail as well.
EndLayers ==
  /\ pc = "in_layers"
  /\ Joined
  /\ Record(<<Event("phase_complete", "per_layer")>>)
  /\ \/ (\A l \in Layers : layer[l] = "ok") /\ pc' = "postpass"
     \/ pc' = "failed"
  /\ UNCHANGED <<layer, cancel, result, exit, output>>

\* map_err of run_pipeline_fork: the flag is read once more.
PipelineEnds ==
  /\ pc \in {"done", "failed"}
  /\ IF pc = "failed" /\ cancel
     THEN Record(<<Event("cancelled", None)>>)
     ELSE Silent
  /\ result' = IF pc = "done" THEN "ok" ELSE "err"
  /\ pc' = "cleanup"
  /\ UNCHANGED <<layer, cancel, exit, output>>

-----------------------------------------------------------------------------
(* After the pipeline.                                                     *)

\* dispose_after_run; its failure only counts if there was none before.
Cleanup ==
  /\ pc = "cleanup"
  /\ \/ result = "ok" /\ pc' = "diagnostics" /\ UNCHANGED result
     \/ result' = "err" /\ pc' = "main"
  /\ Silent
  /\ UNCHANGED <<layer, cancel, exit, output>>

\* Mutant: the diagnostics go to the emitter, past the collector.
DiagnosticsEmitted(s) == Emitted(s) /\ UNCHANGED count

DiagnosticsRecorded(s) == Record(s)

\* emit_host_support_diagnostics.
Diagnose ==
  /\ pc = "diagnostics"
  /\ \E n \in 0 .. MaxDiagnostics :
       DiagnosticsRecorded([i \in 1 .. n |-> Error("support", FALSE)])
  /\ pc' = "summary"
  /\ UNCHANGED <<layer, cancel, result, exit, output>>

\* emit_end_of_slice_events, after the profile if there is one.
Summarize ==
  /\ pc = "summary"
  /\ \E profile \in {<<>>, <<Event("profile_summary", None)>>} :
       Record(profile \o <<Event("slice_stats", None),
                           Completed(count)>>)
  /\ pc' = "main"
  /\ UNCHANGED <<layer, cancel, result, exit, output>>

\* Mutant: the flag is read before the result.
MainFlagFirst ==
  \/ /\ ~cancel
     /\ \/ output' = "new" /\ exit' = 0
        \/ output' \in {output, "torn"} /\ exit' = 1
     /\ result = "ok"
  \/ cancel /\ exit' = 130 /\ output' = "absent"
  \/ result = "err" /\ ~cancel /\ exit' = 1 /\ UNCHANGED output

\* main: the output is written, or removed after a cancel; a failed removal
\* is ignored.
ExitCode ==
  \/ /\ result = "ok"
     /\ \/ output' = "new" /\ exit' = 0
        \/ output' \in {output, "torn"} /\ exit' = 1
  \/ result = "err" /\ cancel /\ exit' = 130 /\ output' \in {output, "absent"}
  \/ result = "err" /\ ~cancel /\ exit' = 1 /\ UNCHANGED output

Main ==
  /\ pc = "main"
  /\ ExitCode
  /\ pc' = "ended"
  /\ Silent
  /\ UNCHANGED <<layer, cancel, result>>

\* Ctrl-C, or the end of stdin.
Cancel ==
  /\ pc # "ended" /\ ~cancel
  /\ cancel' = TRUE
  /\ UNCHANGED <<stream, count, pc, layer, result, exit, output>>

Ended == pc = "ended" /\ UNCHANGED vars

LayerStep(l) == \/ LayerStarts(l)
                \/ LayerErrorCounted(l)
                \/ LayerErrorEmitted(l)
                \/ LayerBreaks(l)
                \/ LayerEnds(l)
                \/ LayerSkipped(l)

MainStep == \/ Validate \/ SetupFails \/ Setup
            \/ EnterPrepass \/ EndPrepass
            \/ EnterPerLayer \/ EndLayers
            \/ EnterPostpass \/ EndPostpass
            \/ PipelineEnds \/ Cleanup \/ Diagnose \/ Summarize
            \/ Main

Next == \/ MainStep
        \/ \E l \in Layers : LayerStep(l)
        \/ Cancel
        \/ Ended

Spec == Init /\ [][Next]_vars

-----------------------------------------------------------------------------
(* Properties.                                                             *)

Told(e) == \E i \in DOMAIN stream : stream[i].event = e

\* A consumer may stop at the first slice_complete or cancelled, and stream,
\* exit code and file agree: 0 is a completed stream and a new file, 130 is
\* neither a completed stream nor a new file, a stream that was cancelled ends
\* in 130, and one with a fatal error never in 0.  The flag may be set
\* between any two reads of it.
TerminalEvent ==
  /\ \A i \in DOMAIN stream :
       stream[i].event \in {"slice_complete", "cancelled"} => i = Len(stream)
  /\ exit = 0 => /\ Told("slice_complete")
                 /\ output = "new"
                 /\ Errors(stream, TRUE) = 0
  /\ exit = 130 => ~Told("slice_complete") /\ output \in {"absent", "old"}
  /\ Told("cancelled") => exit \in {None, 130}

At(l) == {i \in DOMAIN stream : stream[i].about = l}

\* The events of l are its start, an error at most, and its completion.
Bracketed(l) ==
  \E first, last \in At(l) :
    /\ first < last
    /\ stream[first].event = "layer_start"
    /\ stream[last].event = "layer_complete"
    /\ \A i \in At(l) \ {first, last} :
         /\ first < i /\ i < last
         /\ stream[i].event = "error"
         /\ At(l) = {first, i, last}

Closed(i) == stream[i] = Event("phase_complete", "per_layer")

\* The layers' events are where docs/09 says: inside the per_layer phase, each
\* layer's in order; when the phase is complete no layer is open, whichever
\* failed, and a completed slice has started and completed every layer.
LayersBracketed ==
  /\ \A i, j \in DOMAIN stream :
       Closed(i) /\ stream[j].about \in Layers => j < i
  /\ (\E i \in DOMAIN stream : Closed(i))
       => \A l \in Layers : At(l) # {} => Bracketed(l)
  /\ Told("slice_complete") => \A l \in Layers : At(l) # {}

\* The counts of the collector are never behind the stream, though several
\* threads record, and slice_complete carries exactly the errors the stream
\* shows: no fatal one, and each diagnostic once.
CountsTold ==
  /\ count.fatal >= Errors(stream, TRUE)
  /\ count.nonfatal >= Errors(stream, FALSE)
  /\ \A i \in DOMAIN stream :
       stream[i].event = "slice_complete" =>
         stream[i].counts = [fatal |-> 0, nonfatal |-> Errors(stream, FALSE)]

\* A slice that fails after its pipeline has begun shows an error on its
\* stream (docs/09: "A fatally-failing slice ends its stream at the terminal
\* `module_error`/`validation_error`").
FailureIsTold ==
  (exit = 1 /\ Event("phase_start", "prepass") \in
                 {stream[i] : i \in DOMAIN stream})
    => Told("slice_complete") \/ Errors(stream, TRUE) > 0

=============================================================================
