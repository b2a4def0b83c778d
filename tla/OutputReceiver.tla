--------------------------- MODULE OutputReceiver ---------------------------
(***************************************************************************)
(* results/output_receiver.{h,cc}: reads the output file of an artifact    *)
(* writer back and sorts the artifacts into a model: one object for the    *)
(* run, one for each step, one for each series within its step.  The       *)
(* writer is the abstract log of ArtifactLog.tla, whose durable prefix is  *)
(* what OutputContainer (results/output_iterator.h) iterates over.         *)
(*                                                                         *)
(* The class is for one thread.  Ids are mapped to places in vectors by    *)
(* two hash maps; vector::operator[] past the end is undefined behaviour,  *)
(* after which the model says nothing.                                     *)
(***************************************************************************)
EXTENDS Artifacts, Ranks, SequencesExt

CONSTANTS
  Written,                \* the artifacts the test may write
  MaxArtifacts,           \* bound on the length of the log
  MaxBuilds               \* bound on the number of models built

ASSUME ReceiverAssumption ==
  /\ Written \subseteq Artifact
  /\ MaxArtifacts \in Nat /\ MaxBuilds \in Nat

VARIABLES
  log, durable, file, closed,    \* the artifact writer, see ArtifactLog.tla
  writerCreated,          \* writer_created_
  hasModel,               \* model_.has_value()
  model,                  \* the value of model_
  stepIdx,                \* test_step_id_to_idx_, a function on some steps
  seriesIdx,              \* measurement_series_id_to_idx_
  state,                  \* the program: "running", "dead", "undefined"
  builds                  \* history: how many artifacts each build has read

Log == INSTANCE ArtifactLog

logVars == <<log, durable, file, closed>>

receiverVars == <<writerCreated, hasModel, model, stepIdx, seriesIdx, state, builds>>

vars == <<logVars, receiverVars>>

\* An optional field keeps the last artifact of its kind, a repeated field all.
Optional ==
  {"SchemaVersion", "RunStart", "RunEnd", "StepStart", "StepEnd", "SeriesStart",
   "SeriesEnd"}

EmptyObject == [fields |-> {}, lists |-> <<>>]

Store(object, a) ==
  IF a.kind \in Optional
  THEN [object EXCEPT !.fields = {b \in @ : b.kind # a.kind} \cup {a}]
  ELSE [object EXCEPT !.lists = Append(@, a)]

EmptyStep(s) == [test_step_id |-> s, own |-> EmptyObject, measurement_series |-> <<>>]

EmptyModel == [run |-> EmptyObject, test_steps |-> <<>>]

IsOfSeries(a) == a.kind \in {"SeriesStart", "Element", "SeriesEnd"}

IsOfRun(a) == a \in RunArtifact

test_step_id(a) == IF IsOfSeries(a) THEN StepOf[a.series] ELSE a.step

Init ==
  /\ Log!Init /\ file = "open"
  /\ writerCreated = FALSE
  /\ hasModel = FALSE /\ model = EmptyModel
  /\ stepIdx = <<>> /\ seriesIdx = <<>>
  /\ state = "running"
  /\ builds = <<>>
-----------------------------------------------------------------------------
\* What BuildModel works on: the model, the two maps, and whether an index
\* was past the end of its vector.
Mapped(map, id) == id \in DOMAIN map

WithKey(map, id, idx) ==
  [i \in DOMAIN map \cup {id} |-> IF i = id THEN idx ELSE map[i]]

\* GetTestStepIdx: a step seen for the first time goes to the end.
GetTestStepIdx(b, s) ==
  IF Mapped(b.stepIdx, s) THEN b
  ELSE [b EXCEPT !.stepIdx = WithKey(@, s, Len(b.model.test_steps) + 1),
                 !.model.test_steps = Append(@, EmptyStep(s))]

\* Mutant: the index of a series counts the series of all steps.
GetMeasurementSeriesIdxOfRun(b, m, i) ==
  IF Mapped(b.seriesIdx, m) THEN b
  ELSE [b EXCEPT !.seriesIdx = WithKey(@, m, Cardinality(DOMAIN b.seriesIdx) + 1),
                 !.model.test_steps[i].measurement_series = Append(@, EmptyObject)]

\* GetMeasurementSeriesIdx, for a series of the step at place i.
GetMeasurementSeriesIdx(b, m, i) ==
  IF Mapped(b.seriesIdx, m) THEN b
  ELSE [b EXCEPT !.seriesIdx =
                   WithKey(@, m, Len(b.model.test_steps[i].measurement_series) + 1),
                 !.model.test_steps[i].measurement_series = Append(@, EmptyObject)]

OutOfRange(b) == [b EXCEPT !.undefined = TRUE]

StoreInSeries(b, m, i, a) ==
  LET c == GetMeasurementSeriesIdx(b, m, i)
      j == c.seriesIdx[m]
  IN  IF j \notin DOMAIN c.model.test_steps[i].measurement_series THEN OutOfRange(c)
      ELSE [c EXCEPT !.model.test_steps[i].measurement_series[j] = Store(@, a)]

HandleTestStepArtifact(b, a) ==
  LET c == GetTestStepIdx(b, test_step_id(a))
      i == c.stepIdx[test_step_id(a)]
  IN  CASE i \notin DOMAIN c.model.test_steps -> OutOfRange(c)
        [] i \in DOMAIN c.model.test_steps /\ IsOfSeries(a) ->
             StoreInSeries(c, a.series, i, a)
        [] OTHER -> [c EXCEPT !.model.test_steps[i].own = Store(@, a)]

HandleOutputArtifact(b, a) ==
  IF b.undefined THEN b
  ELSE IF IsOfRun(a) THEN [b EXCEPT !.model.run = Store(@, a)]
  ELSE HandleTestStepArtifact(b, a)

\* BuildModel: a new model, the maps as they are.
Built ==
  FoldLeft(HandleOutputArtifact,
           [model |-> EmptyModel, stepIdx |-> stepIdx, seriesIdx |-> seriesIdx,
            undefined |-> FALSE],
           SubSeq(log, 1, durable))
-----------------------------------------------------------------------------
\* A second call fails a CHECK.
MakeArtifactWriter ==
  /\ state = "running"
  /\ \/ writerCreated /\ state' = "dead" /\ UNCHANGED writerCreated
     \/ ~writerCreated /\ writerCreated' = TRUE /\ UNCHANGED state
  /\ UNCHANGED <<logVars, hasModel, model, stepIdx, seriesIdx, builds>>

\* The test writes an artifact, and flushes.
Write ==
  /\ state = "running" /\ writerCreated
  /\ Len(log) < MaxArtifacts
  /\ \E a \in Written : Log!Put(a)
  /\ UNCHANGED receiverVars

Flush ==
  /\ state = "running" /\ writerCreated
  /\ Log!Sync
  /\ UNCHANGED receiverVars

\* A model that is there is returned as it is.
GetOutputModel ==
  /\ state = "running"
  /\ ~hasModel
  /\ \/ /\ ~writerCreated
        /\ state' = "dead"
        /\ UNCHANGED <<hasModel, model, stepIdx, seriesIdx, builds>>
     \/ /\ writerCreated
        /\ Len(builds) < MaxBuilds
        /\ hasModel' = TRUE
        /\ model' = Built.model
        /\ stepIdx' = Built.stepIdx
        /\ seriesIdx' = Built.seriesIdx
        /\ state' = IF Built.undefined THEN "undefined" ELSE "running"
        /\ builds' = Append(builds, durable)
  /\ UNCHANGED <<logVars, writerCreated>>

ResetModel ==
  /\ state = "running"
  /\ hasModel' = FALSE /\ model' = EmptyModel
  /\ UNCHANGED <<logVars, writerCreated, stepIdx, seriesIdx, state, builds>>

Over == state # "running" /\ UNCHANGED vars

Next ==
  \/ MakeArtifactWriter \/ Write \/ Flush \/ GetOutputModel \/ ResetModel \/ Over

Spec == Init /\ [][Next]_vars
-----------------------------------------------------------------------------
\* The reference: what the artifacts read from the file say, by their places.
OfRun(read) == {i \in DOMAIN read : IsOfRun(read[i])}

OfStep(s, read) == {i \in DOMAIN read : ~IsOfRun(read[i]) /\ test_step_id(read[i]) = s}

OwnOf(s, read) == {i \in OfStep(s, read) : ~IsOfSeries(read[i])}

OfSeries(m, read) == {i \in DOMAIN read : IsOfSeries(read[i]) /\ read[i].series = m}

\* Where a step, and a series of step s, is first seen.
StepFirsts(read) ==
  {i \in DOMAIN read : /\ ~IsOfRun(read[i])
                       /\ \A j \in OfStep(test_step_id(read[i]), read) : i <= j}

SeriesFirsts(s, read) ==
  {i \in OfStep(s, read) : /\ IsOfSeries(read[i])
                           /\ \A j \in OfSeries(read[i].series, read) : i <= j}

\* An object has the artifacts at places K: the last of each optional kind, and
\* all of the others in order.
Collects(object, K, read) ==
  LET listed == {i \in K : read[i].kind \notin Optional}
      last == {i \in K \ listed : \A j \in K : j > i => read[j].kind # read[i].kind}
  IN  /\ object.fields = {read[i] : i \in last}
      /\ Len(object.lists) = Cardinality(listed)
      /\ \A i \in listed : object.lists[Rank(listed, i)] = read[i]

\* A step has its own artifacts, and its series in the order first seen.
StepMatches(step, s, read) ==
  LET firsts == SeriesFirsts(s, read)
  IN  /\ step.test_step_id = s
      /\ Collects(step.own, OwnOf(s, read), read)
      /\ Len(step.measurement_series) = Cardinality(firsts)
      /\ \A i \in firsts : Collects(step.measurement_series[Rank(firsts, i)],
                                    OfSeries(read[i].series, read), read)

(***************************************************************************)
(* The model is what n artifacts say: every step once, in the order they   *)
(* are first seen, with its own artifacts and every one of its series      *)
(* once, with the series' artifacts, however the artifacts of steps and    *)
(* series are interleaved.                                                 *)
(***************************************************************************)
Matches(n) ==
  LET read == SubSeq(log, 1, n)
      firsts == StepFirsts(read)
  IN  /\ Collects(model.run, OfRun(read), read)
      /\ Len(model.test_steps) = Cardinality(firsts)
      /\ \A i \in firsts : StepMatches(model.test_steps[Rank(firsts, i)],
                                       test_step_id(read[i]), read)

(***************************************************************************)
(* The first model a receiver builds is that of the file as it was flushed *)
(* when it was built, and the model is kept as it is until it is reset.    *)
(***************************************************************************)
FirstModelMatchesFile ==
  Len(builds) = 1 => state # "undefined" /\ (hasModel => Matches(builds[1]))

(***************************************************************************)
(* output_receiver.h:54 says of ResetModel: "Unsets the currently stored   *)
(* model (if any) so that it will be rebuilt when next accessed."          *)
(***************************************************************************)
EveryModelMatchesFile ==
  /\ state # "undefined"
  /\ hasModel => Matches(builds[Len(builds)])
=============================================================================
