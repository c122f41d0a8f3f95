-------------------------- MODULE GenerationReport --------------------------
(***************************************************************************)
(* Greedy generation with a report of its events (cli/generate_cli.mojo),  *)
(* and the study that accepts or rejects the report                        *)
(* (validate_generation_events and validate_generation_routes of           *)
(* validation/model.py).  The two are written in two languages and share   *)
(* nothing but the report.                                                 *)
(***************************************************************************)
EXTENDS Naturals, Sequences, FiniteSets

LOCAL INSTANCE SequencesExt

CONSTANTS
  MaxContext,   \* positions of the model
  Layers,       \* its layers
  Maximums,     \* max-new-tokens
  ChunkRows,    \* chunk-rows, 0 for the whole prompt
  Stops,        \* the two stop tokens
  Word          \* any other token

ASSUME ExtentsAssumption ==
  /\ MaxContext \in Nat \ {0} /\ Layers \in Nat \ {0}
  /\ Maximums \cup ChunkRows \subseteq 0..MaxContext

VARIABLES
  call,       \* the arguments, and the length of the encoded prompt
  offset,     \* prompt positions submitted
  calls,      \* forward calls made
  generated,  \* tokens selected
  cached,     \* positions in the KV
  rowsRun,    \* model.submitted_rows
  phase,      \* "start", "prefill", "sample", "decode", "finish", "done"
  report      \* the events: [event, index, value]
generationVars == <<call, offset, calls, generated, cached, rowsRun, phase, report>>

Fused == 26
FixedConfiguration == [baseline |-> 0, consistent |-> 20]
Fixed(mode)        == mode \in DOMAIN FixedConfiguration
FastPrefill        == {0, 2, 3, 21}
MeasuredDevice     == "Apple M4 Pro/metal"

(* execution_plan: any measured multi-row configuration in fast mode.      *)
PlanConfigurations(rows) ==
  IF Fixed(call.mode) THEN {FixedConfiguration[call.mode]}
  ELSE IF call.device # MeasuredDevice THEN {0}
  ELSE IF rows = 1 THEN {Fused} ELSE FastPrefill

Lesser(m, n) == IF m < n THEN m ELSE n
Budget  == Lesser(call.maximum, MaxContext - call.prompt)
MaxRows == IF call.chunk > 0 THEN Lesser(call.chunk, call.prompt) ELSE call.prompt

Entry(event, index, value) == [event |-> event, index |-> index, value |-> value]
-----------------------------------------------------------------------------
GenerationInit ==
  /\ call \in [mode : {"fast", "baseline", "consistent"}, prompt : 1..MaxContext, maximum : Maximums,
               chunk : ChunkRows, device : {MeasuredDevice, "other"}]
  /\ offset = 0 /\ calls = 0 /\ generated = <<>> /\ cached = 0 /\ rowsRun = 0
  /\ phase = "start" /\ report = <<>>

Announce ==
  LET opening == <<Entry("mode", 0, call.mode)>>
                   \o [i \in 1..call.prompt |-> Entry("prompt", i - 1, Word)]
  IN  /\ phase = "start"
      /\ IF Budget = 0
           THEN report' = Append(opening, Entry("finish", 0, "limit")) /\ phase' = "done"
           ELSE /\ report' = opening \o <<Entry("device", 0, call.device), Entry("load", 0, 0)>>
                /\ phase' = "prefill"
      /\ UNCHANGED <<call, offset, calls, generated, cached, rowsRun>>

(* A forward call over some rows, with its route.                          *)
Forward(rows, events) ==
  /\ cached' = cached + rows
  /\ rowsRun' = rowsRun + rows * Layers
  /\ calls' = calls + 1
  /\ report' = report \o events

PrefillChunk ==
  LET rows == Lesser(MaxRows, call.prompt - offset) IN
  /\ phase = "prefill" /\ offset < call.prompt
  /\ \E c \in PlanConfigurations(rows) :
       Forward(rows, <<Entry("configuration", offset, c), Entry("route", calls, c)>>)
  /\ offset' = offset + rows
  /\ UNCHANGED <<call, generated, phase>>

Prefilled ==
  /\ phase = "prefill" /\ offset = call.prompt
  /\ report' = Append(report, Entry("prefill", 0, call.prompt))
  /\ phase' = "sample"
  /\ UNCHANGED <<call, offset, calls, generated, cached, rowsRun>>

(* Mutant: the last token of a budget is run as well.                      *)
SampleAndRun(token) ==
  /\ phase = "sample"
  /\ generated' = Append(generated, token)
  /\ report' = Append(report, Entry("token", Len(generated), token))
  /\ phase' = IF token \in Stops \/ Len(generated) = Budget THEN "finish" ELSE "decode"
  /\ UNCHANGED <<call, offset, calls, cached, rowsRun>>

Sample(token) ==
  /\ phase = "sample"
  /\ generated' = Append(generated, token)
  /\ report' = Append(report, Entry("token", Len(generated), token))
  /\ phase' = IF token \in Stops \/ Len(generated') = Budget THEN "finish" ELSE "decode"
  /\ UNCHANGED <<call, offset, calls, cached, rowsRun>>

DecodeToken ==
  /\ phase = "decode"
  /\ \E c \in PlanConfigurations(1) :
       Forward(1, <<Entry("decode", Len(generated) - 1, 1), Entry("route", calls, c)>>)
  /\ phase' = "sample"
  /\ UNCHANGED <<call, offset, generated>>

FinishReason == IF Last(generated) \in Stops THEN "stop" ELSE "limit"
FinishGeneration ==
  /\ phase = "finish"
  /\ report' = report \o <<Entry("cache", 0, cached), Entry("submitted", 0, rowsRun),
                           Entry("finish", Len(generated), FinishReason)>>
  /\ phase' = "done"
  /\ UNCHANGED <<call, offset, calls, generated, cached, rowsRun>>

GenerationNext ==
  \/ Announce \/ PrefillChunk \/ Prefilled \/ DecodeToken \/ FinishGeneration
  \/ \E token \in Stops \cup {Word} : Sample(token)
-----------------------------------------------------------------------------
(* The study's audit of a report.                                          *)
Group(events, name)  == SelectSeq(events, LAMBDA e : e.event = name)
Indexed(events)      == \A k \in DOMAIN events : events[k].index = k - 1
Value(events, name)  == Group(events, name)[1].value
Once(events, name)   == Len(Group(events, name)) = 1

(* The rows of a prefill call reach to the next one's offset.              *)
AllowedConfigurations(mode, rows) ==
  IF Fixed(mode) THEN {FixedConfiguration[mode]} ELSE IF rows = 1 THEN {Fused} ELSE FastPrefill

ValidRoutes(events, mode) ==
  LET prefills == Group(events, "configuration")
      routes   == Group(events, "route")
      prompt   == Len(Group(events, "prompt"))
      End(k)   == IF k = Len(prefills) THEN prompt ELSE prefills[k + 1].index
      decode   == IF Fixed(mode) THEN FixedConfiguration[mode] ELSE Fused
  IN  /\ Once(events, "mode") /\ Value(events, "mode") = mode
      /\ Indexed(routes) /\ Len(routes) = Len(prefills) + Len(Group(events, "decode"))
      /\ \A k \in DOMAIN prefills :
           prefills[k].value \in AllowedConfigurations(mode, End(k) - prefills[k].index)
      /\ \A k \in DOMAIN routes :
           routes[k].value = IF k <= Len(prefills) THEN prefills[k].value ELSE decode

ValidReport(events, maximum, mode) ==
  LET prompt == Group(events, "prompt")
      tokens == Group(events, "token")
      limit  == Lesser(maximum, MaxContext - Len(prompt))
      extent == Len(prompt) + Len(tokens) - 1
      last   == tokens[Len(tokens)].value
  IN  /\ Indexed(prompt) /\ Indexed(tokens)
      /\ Len(prompt) \in 1..MaxContext /\ Len(tokens) <= limit
      /\ Once(events, "finish") /\ Group(events, "finish")[1].index = Len(tokens)
      /\ \A k \in 1..(Len(tokens) - 1) : tokens[k].value \notin Stops
      /\ IF Value(events, "finish") = "stop" THEN tokens # <<>> /\ last \in Stops
         ELSE Value(events, "finish") = "limit" /\ Len(tokens) = limit
      /\ limit > 0 =>
           /\ Once(events, "device") /\ Value(events, "device") = MeasuredDevice
           /\ Once(events, "cache") /\ Value(events, "cache") = extent
           /\ Once(events, "submitted") /\ Value(events, "submitted") = Layers * extent
           /\ Len(Group(events, "decode")) = Len(tokens) - 1
      /\ ValidRoutes(events, mode)
-----------------------------------------------------------------------------
(* The study accepts the report of every generation on the measured        *)
(* device, whatever the mode, prompt, chunks and limits (generation_study), *)
(* and none that lost any one event the audit is about (with no token to   *)
(* generate, the length of the prompt is not in the rest of the report).   *)
Timings == {"load", "prefill"}
ReportIsAudited ==
  phase = "done" /\ call.device = MeasuredDevice =>
    /\ ValidReport(report, call.maximum, call.mode)
    /\ Budget > 0 => \A k \in DOMAIN report :
         report[k].event \notin Timings => ~ValidReport(RemoveAt(report, k), call.maximum, call.mode)
=============================================================================
