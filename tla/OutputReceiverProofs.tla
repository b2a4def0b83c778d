------------------------ MODULE OutputReceiverProofs ------------------------
(***************************************************************************)
(* Proofs about the output receiver, for any file: the first model it      *)
(* builds is that of the artifacts it reads.                               *)
(***************************************************************************)
EXTENDS OutputReceiver, FoldLemmas

\* What the classes of the model are.
Object == [fields : SUBSET Artifact, lists : Seq(Artifact)]

StepModel == [test_step_id : Steps, own : Object, measurement_series : Seq(Object)]

Model == [run : Object, test_steps : Seq(StepModel)]

IdMap(Ids) == UNION {[ids -> Nat] : ids \in SUBSET Ids}

Reader ==
  [model : Model, stepIdx : IdMap(Steps), seriesIdx : IdMap(Series), undefined : BOOLEAN]

----------------------------------------------------------------------------
(* Artifacts, and what is stored of them.                                  *)

\* The object an artifact belongs to.
LEMMA Belongs ==
  ASSUME NEW a \in Artifact
  PROVE  /\ IsOfSeries(a) => ~IsOfRun(a) /\ a.series \in Series
         /\ ~IsOfRun(a) => test_step_id(a) \in Steps
         /\ ~IsOfRun(a) /\ ~IsOfSeries(a) => test_step_id(a) = a.step
<1>1. StepOf \in [Series -> Steps]
  BY ArtifactsAssumption
<1>2. CASE a \in RunArtifact
  <2>1. ~IsOfSeries(a)
    BY <1>2 DEF RunArtifact, IsOfSeries, SchemaVersion, RunStart, RunLog, RunError, RunEnd
  <2> QED
    BY <1>2, <2>1 DEF IsOfRun
<1>3. CASE a \in SeriesArtifact
  <2>1. IsOfSeries(a) /\ a.series \in Series
    BY <1>3 DEF SeriesArtifact, IsOfSeries
  <2>2. a \notin RunArtifact
    BY <2>1 DEF RunArtifact, IsOfSeries, SchemaVersion, RunStart, RunLog, RunError, RunEnd
  <2>3. StepOf[a.series] \in Steps
    BY <1>1, <2>1
  <2> QED
    BY <2>1, <2>2, <2>3 DEF IsOfRun, test_step_id
<1>4. ASSUME NEW s \in Steps, a \in StepArtifact(s)
      PROVE  ~IsOfSeries(a) /\ a.step \in Steps
  BY <1>4 DEF StepArtifact, IsOfSeries, StepStart, Content, Failure, StepError, StepEnd
<1>5. CASE \E s \in Steps : a \in StepArtifact(s)
  <2>1. ~IsOfSeries(a) /\ a.step \in Steps
    BY <1>4, <1>5
  <2> QED
    BY <2>1 DEF test_step_id
<1> QED
  BY <1>2, <1>3, <1>5 DEF Artifact

\* Storing keeps an object's type.
LEMMA StoreType ==
  ASSUME NEW o \in Object, NEW a \in Artifact
  PROVE  /\ Store(o, a) \in Object
         /\ a.kind \in Optional =>
              Store(o, a) = [fields |-> {b \in o.fields : b.kind # a.kind} \cup {a},
                             lists |-> o.lists]
         /\ a.kind \notin Optional =>
              Store(o, a) = [fields |-> o.fields, lists |-> Append(o.lists, a)]
<1>1. o = [fields |-> o.fields, lists |-> o.lists]
      /\ o.fields \in SUBSET Artifact /\ o.lists \in Seq(Artifact)
  BY DEF Object
<1>2. CASE a.kind \in Optional
  <2>1. Store(o, a) = [fields |-> {b \in o.fields : b.kind # a.kind} \cup {a},
                       lists |-> o.lists]
    BY <1>1, <1>2 DEF Store
  <2> QED
    BY <1>1, <1>2, <2>1 DEF Object
<1>3. CASE a.kind \notin Optional
  <2>1. Store(o, a) = [fields |-> o.fields, lists |-> Append(o.lists, a)]
    BY <1>1, <1>3 DEF Store
  <2>2. Append(o.lists, a) \in Seq(Artifact)
    BY <1>1, AppendProperties
  <2> QED
    BY <1>1, <1>3, <2>1, <2>2 DEF Object
<1> QED
  BY <1>2, <1>3

\* An object with nothing stored.
LEMMA CollectsNone ==
  ASSUME NEW read
  PROVE  EmptyObject \in Object /\ Collects(EmptyObject, {}, read)
<1>1. <<>> \in Seq(Artifact) /\ Len(<<>>) = 0 /\ Cardinality({}) = 0
  BY EmptySeq, FS_EmptySet
<1> QED
  BY <1>1 DEF EmptyObject, Object, Collects

\* One artifact more, stored after the others.
LEMMA CollectsOne ==
  ASSUME NEW o \in Object, NEW read \in Seq(Artifact), NEW k \in DOMAIN read,
         NEW K, K \subseteq DOMAIN read, \A j \in K : j < k, Collects(o, K, read)
  PROVE  Collects(Store(o, read[k]), K \cup {k}, read)
<1> DEFINE a == read[k]
           listed == {i \in K : read[i].kind \notin Optional}
           last == {i \in K \ listed : \A j \in K : j > i => read[j].kind # read[i].kind}
           L == K \cup {k}
           listed2 == {i \in L : read[i].kind \notin Optional}
           last2 == {i \in L \ listed2 : \A j \in L : j > i => read[j].kind # read[i].kind}
           o2 == Store(o, a)
<1>0. DOMAIN read \subseteq Nat /\ IsFiniteSet(DOMAIN read) /\ a \in Artifact /\ k \in Nat
  <2>1. DOMAIN read = 1..Len(read) /\ Len(read) \in Nat
    OBVIOUS
  <2>2. IsFiniteSet(1..Len(read))
    BY <2>1, FS_Interval
  <2>3. read[k] \in Artifact
    OBVIOUS
  <2> QED
    BY <2>1, <2>2, <2>3
<1>1. /\ o.fields = {read[i] : i \in last}
      /\ Len(o.lists) = Cardinality(listed)
      /\ \A i \in listed : o.lists[Rank(listed, i)] = read[i]
  BY DEF Collects
<1>2. /\ listed \subseteq Nat /\ IsFiniteSet(listed) /\ \A j \in listed : j < k
  BY <1>0, FS_Subset
<1>3. o.lists \in Seq(Artifact) /\ o.fields \in SUBSET Artifact
  BY DEF Object
<1>4. CASE a.kind \in Optional
  <2>1. o2 = [fields |-> {b \in o.fields : b.kind # a.kind} \cup {a}, lists |-> o.lists]
    BY <1>0, <1>4, StoreType
  <2>2. listed2 = listed
    BY <1>4
  <2>3. last2 = {i \in last : read[i].kind # a.kind} \cup {k}
    <3>1. \A i \in K : k > i /\ ~(i > k)
      BY <1>0
    <3>2. ~(k > k)
      BY <1>0
    <3> QED
      BY <1>4, <3>1, <3>2
  <2>4. {read[i] : i \in last2} = {b \in o.fields : b.kind # a.kind} \cup {a}
    <3> HIDE DEF last, last2
    <3> QED
      BY <1>1, <2>3
  <2>5. /\ o2.fields = {read[i] : i \in last2} /\ o2.lists = o.lists
    BY <2>1, <2>4
  <2> HIDE DEF o2, last, last2
  <2>6. Collects(o2, L, read) <=> 
          /\ o2.fields = {read[i] : i \in last2}
          /\ Len(o2.lists) = Cardinality(listed2)
          /\ \A i \in listed2 : o2.lists[Rank(listed2, i)] = read[i]
    BY DEF Collects, last2
  <2> HIDE DEF listed, listed2
  <2> QED
    BY <1>1, <2>2, <2>5, <2>6 DEF o2
<1>5. CASE a.kind \notin Optional
  <2>1. o2 = [fields |-> o.fields, lists |-> Append(o.lists, a)]
    BY <1>0, <1>5, StoreType
  <2>2. listed2 = listed \cup {k}
    BY <1>5
  <2>3. last2 = last
    <3>1. \A i \in K \ listed : read[k].kind # read[i].kind
      BY <1>5
    <3> QED
      BY <1>5, <3>1
  <2>4. /\ o2.fields = o.fields
        /\ Len(o2.lists) = Len(o.lists) + 1 /\ o2.lists[Len(o.lists) + 1] = a
        /\ \A i \in 1..Len(o.lists) : o2.lists[i] = o.lists[i]
    BY <1>0, <1>3, <2>1, AppendProperties
  <2> HIDE DEF o2, last, last2
  <2>5. Collects(o2, L, read) <=> 
          /\ o2.fields = {read[i] : i \in last2}
          /\ Len(o2.lists) = Cardinality(listed2)
          /\ \A i \in listed2 : o2.lists[Rank(listed2, i)] = read[i]
    BY DEF Collects, last2
  <2> HIDE DEF listed, listed2
  <2>6. /\ Cardinality(listed2) = Cardinality(listed) + 1
        /\ Rank(listed2, k) = Cardinality(listed) + 1
        /\ \A i \in listed : Rank(listed2, i) = Rank(listed, i)
    BY <1>0, <1>2, <2>2, RankGrows
  <2>7. \A i \in listed : Rank(listed, i) \in 1..Len(o.lists)
    <3>1. Len(o.lists) \in Nat
      BY <1>3
    <3>2. \A i \in listed : /\ Rank(listed, i) \in Nat /\ 1 <= Rank(listed, i)
                            /\ Rank(listed, i) <= Cardinality(listed)
      BY <1>2, RankIs
    <3> QED
      BY <1>1, <3>1, <3>2
  <2> QED
    BY <1>1, <2>2, <2>3, <2>4, <2>5, <2>6, <2>7 DEF o2
<1> QED
  BY <1>4, <1>5

----------------------------------------------------------------------------
(* One artifact's steps, on the model and the maps of any build.           *)

\* One id more in a map.
LEMMA WithKeyIs ==
  ASSUME NEW Ids, NEW map \in IdMap(Ids), NEW id \in Ids, NEW idx \in Nat
  PROVE  WithKey(map, id, idx) \in IdMap(Ids)
<1>1. PICK ids \in SUBSET Ids : map \in [ids -> Nat]
  BY DEF IdMap
<1>2. WithKey(map, id, idx) \in [ids \cup {id} -> Nat]
  BY <1>1 DEF WithKey
<1>3. ids \cup {id} \in SUBSET Ids
  BY <1>1
<1> QED
  BY <1>2, <1>3 DEF IdMap

\* The parts of what a build works on.
LEMMA ReaderParts ==
  ASSUME NEW b \in Reader
  PROVE  /\ b.model \in Model /\ b.model.run \in Object
         /\ b.model.test_steps \in Seq(StepModel)
         /\ b.stepIdx \in IdMap(Steps) /\ b.seriesIdx \in IdMap(Series)
         /\ b.undefined \in BOOLEAN
         /\ b.model = [run |-> b.model.run, test_steps |-> b.model.test_steps]
         /\ b = [model |-> b.model, stepIdx |-> b.stepIdx, seriesIdx |-> b.seriesIdx,
                 undefined |-> b.undefined]
BY DEF Reader, Model

LEMMA ReaderIs ==
  ASSUME NEW b \in Reader
  PROVE  \E r, l, p, q, u :
           /\ r = b.model.run /\ l = b.model.test_steps /\ p = b.stepIdx
           /\ q = b.seriesIdx /\ u = b.undefined
           /\ b = [model |-> [run |-> r, test_steps |-> l], stepIdx |-> p,
                   seriesIdx |-> q, undefined |-> u]
<1>1. PICK r, l, p, q, u :
        /\ r = b.model.run /\ l = b.model.test_steps /\ p = b.stepIdx
        /\ q = b.seriesIdx /\ u = b.undefined
  OBVIOUS
<1>2. b.model = [run |-> r, test_steps |-> l]
  BY <1>1, ReaderParts, Zenon
<1>3. b = [model |-> b.model, stepIdx |-> p, seriesIdx |-> q, undefined |-> u]
  BY <1>1, ReaderParts, Zenon
<1>4. b = [model |-> [run |-> r, test_steps |-> l], stepIdx |-> p,
           seriesIdx |-> q, undefined |-> u]
  BY <1>2, <1>3, Zenon
<1> QED
  BY <1>1, <1>4, Zenon

\* The step at a place of the model.
LEMMA StepParts ==
  ASSUME NEW b \in Reader, NEW i \in DOMAIN b.model.test_steps
  PROVE  /\ b.model.test_steps[i] \in StepModel
         /\ b.model.test_steps[i].own \in Object
         /\ b.model.test_steps[i].measurement_series \in Seq(Object)
<1>1. PICK list \in Seq(StepModel) : list = b.model.test_steps
  BY ReaderParts
<1>2. list[i] \in StepModel
  BY <1>1
<1> QED
  BY <1>1, <1>2 DEF StepModel

\* A field of a step changed.
LEMMA StepExcept ==
  ASSUME NEW step \in StepModel, NEW value
  PROVE  /\ [step EXCEPT !.own = value] =
              [test_step_id |-> step.test_step_id, own |-> value,
               measurement_series |-> step.measurement_series]
         /\ [step EXCEPT !.measurement_series = value] =
              [test_step_id |-> step.test_step_id, own |-> step.own,
               measurement_series |-> value]
<1>1. PICK s, own, list :
        /\ s = step.test_step_id /\ own = step.own /\ list = step.measurement_series
        /\ step = [test_step_id |-> s, own |-> own, measurement_series |-> list]
  BY DEF StepModel
<1>2. [step EXCEPT !.own = value] =
        [test_step_id |-> s, own |-> value, measurement_series |-> list]
  BY <1>1
<1>3. [step EXCEPT !.measurement_series = value] =
        [test_step_id |-> s, own |-> own, measurement_series |-> value]
  BY <1>1
<1> QED
  BY <1>1, <1>2, <1>3, Zenon

\* A step with one series more, the steps with one of them changed, and the reader
\* with one series more in the step at place i.
Longer(step, object) == [step EXCEPT !.measurement_series = Append(@, object)]

WithStep(list, i, step) == [list EXCEPT ![i] = step]

WithSeries(e, i, object) ==
  [e EXCEPT !.model.test_steps[i].measurement_series = Append(@, object)]

LEMMA SeriesExcept ==
  ASSUME NEW r, NEW l, NEW p, NEW q, NEW u, NEW i \in DOMAIN l, NEW object, NEW e,
         e = [model |-> [run |-> r, test_steps |-> l], stepIdx |-> p, seriesIdx |-> q,
              undefined |-> u]
  PROVE  WithSeries(e, i, object) =
           [model |-> [run |-> r, test_steps |-> WithStep(l, i, Longer(l[i], object))],
            stepIdx |-> p, seriesIdx |-> q, undefined |-> u]
BY DEF WithSeries, WithStep, Longer

\* A step of the model changed.
LEMMA StepChanged ==
  ASSUME NEW b \in Reader, NEW i \in DOMAIN b.model.test_steps, NEW step \in StepModel,
         NEW map \in IdMap(Series), NEW c,
         c = [model |-> [run |-> b.model.run,
                         test_steps |-> [b.model.test_steps EXCEPT ![i] = step]],
              stepIdx |-> b.stepIdx, seriesIdx |-> map, undefined |-> b.undefined]
  PROVE  c \in Reader
<1>1. [b.model.test_steps EXCEPT ![i] = step] \in Seq(StepModel)
  <2>1. PICK list \in Seq(StepModel) : list = b.model.test_steps
    BY ReaderParts
  <2>2. [list EXCEPT ![i] = step] \in Seq(StepModel)
    BY <2>1
  <2> QED
    BY <2>1, <2>2
<1> QED
  BY <1>1, ReaderParts DEF Reader, Model

\* What GetTestStepIdx returns for a step not seen yet.
StepAddedTo(b, s, c) ==
  /\ c \in Reader /\ c.model.run = b.model.run
  /\ c.model.test_steps = Append(b.model.test_steps, EmptyStep(s))
  /\ c.stepIdx = WithKey(b.stepIdx, s, Len(b.model.test_steps) + 1)
  /\ c.seriesIdx = b.seriesIdx /\ c.undefined = b.undefined

\* GetTestStepIdx, for a step not seen yet.
LEMMA NewStep ==
  ASSUME NEW b \in Reader, NEW s \in Steps, ~Mapped(b.stepIdx, s), NEW c,
         c = GetTestStepIdx(b, s)
  PROVE  StepAddedTo(b, s, c)
<1>1. EmptyStep(s) \in StepModel
  BY CollectsNone, EmptySeq DEF EmptyStep, StepModel
<1>2. Append(b.model.test_steps, EmptyStep(s)) \in Seq(StepModel)
  BY <1>1, ReaderParts, AppendProperties
<1>3. Len(b.model.test_steps) + 1 \in Nat
  BY ReaderParts
<1>4. WithKey(b.stepIdx, s, Len(b.model.test_steps) + 1) \in IdMap(Steps)
  BY <1>3, ReaderParts, WithKeyIs
<1>5. c = [model |-> [run |-> b.model.run,
                      test_steps |-> Append(b.model.test_steps, EmptyStep(s))],
           stepIdx |-> WithKey(b.stepIdx, s, Len(b.model.test_steps) + 1),
           seriesIdx |-> b.seriesIdx, undefined |-> b.undefined]
  <2> DEFINE map == WithKey(b.stepIdx, s, Len(b.model.test_steps) + 1)
             list == Append(b.model.test_steps, EmptyStep(s))
  <2>1. PICK r, l, p, q, u :
          /\ r = b.model.run /\ l = b.model.test_steps /\ p = b.stepIdx
          /\ q = b.seriesIdx /\ u = b.undefined
          /\ b = [model |-> [run |-> r, test_steps |-> l], stepIdx |-> p,
                  seriesIdx |-> q, undefined |-> u]
    BY ReaderIs, Zenon
  <2>2. c = [[b EXCEPT !.stepIdx = map] EXCEPT !.model.test_steps = list]
    BY DEF GetTestStepIdx
  <2> HIDE DEF map, list
  <2>3. PICK e : e = [b EXCEPT !.stepIdx = map]
    OBVIOUS
  <2>4. e = [model |-> [run |-> r, test_steps |-> l], stepIdx |-> map,
             seriesIdx |-> q, undefined |-> u]
    BY <2>1, <2>3
  <2>5. [e EXCEPT !.model.test_steps = list] =
          [model |-> [run |-> r, test_steps |-> list], stepIdx |-> map,
           seriesIdx |-> q, undefined |-> u]
    BY <2>4
  <2>6. c = [e EXCEPT !.model.test_steps = list]
    BY <2>2, <2>3, Zenon
  <2> QED
    BY <2>1, <2>5, <2>6, Zenon DEF map, list
<1>6. /\ c.model.run = b.model.run
      /\ c.model.test_steps = Append(b.model.test_steps, EmptyStep(s))
      /\ c.stepIdx = WithKey(b.stepIdx, s, Len(b.model.test_steps) + 1)
      /\ c.seriesIdx = b.seriesIdx /\ c.undefined = b.undefined
  BY <1>5
<1>7. c \in Reader
  BY <1>2, <1>4, <1>5, ReaderParts DEF Reader, Model
<1> QED
  BY <1>6, <1>7, Zenon DEF StepAddedTo

\* GetMeasurementSeriesIdx, for a series not seen yet.
SeriesAddedTo(b, m, i, step, c) ==
  /\ c \in Reader /\ c.model.run = b.model.run
  /\ c.model.test_steps =
       [b.model.test_steps EXCEPT ![i] =
          [test_step_id |-> step.test_step_id, own |-> step.own,
           measurement_series |-> Append(step.measurement_series, EmptyObject)]]
  /\ c.stepIdx = b.stepIdx
  /\ c.seriesIdx = WithKey(b.seriesIdx, m, Len(step.measurement_series) + 1)
  /\ c.undefined = b.undefined

LEMMA NewSeries ==
  ASSUME NEW b \in Reader, NEW m \in Series, ~Mapped(b.seriesIdx, m),
         NEW i \in DOMAIN b.model.test_steps, NEW step, step = b.model.test_steps[i], NEW c,
         c = GetMeasurementSeriesIdx(b, m, i)
  PROVE  SeriesAddedTo(b, m, i, step, c)
<1> DEFINE list == Append(step.measurement_series, EmptyObject)
           new == [test_step_id |-> step.test_step_id, own |-> step.own,
                   measurement_series |-> list]
           map == WithKey(b.seriesIdx, m, Len(step.measurement_series) + 1)
<1>1. step \in StepModel /\ step.measurement_series \in Seq(Object)
  BY StepParts
<1>2. list \in Seq(Object)
  BY <1>1, CollectsNone, AppendProperties
<1>3. new \in StepModel
  BY <1>1, <1>2 DEF StepModel
<1>4. Len(step.measurement_series) + 1 \in Nat
  BY <1>1
<1>5. map \in IdMap(Series)
  BY <1>4, ReaderParts, WithKeyIs
<1>6. c = [model |-> [run |-> b.model.run,
                      test_steps |-> [b.model.test_steps EXCEPT ![i] = new]],
           stepIdx |-> b.stepIdx, seriesIdx |-> map, undefined |-> b.undefined]
  <2>1. [step EXCEPT !.measurement_series = list] = new
    <3> HIDE DEF list
    <3> QED
      BY <1>1, StepExcept
  <2>2. c = [[b EXCEPT !.seriesIdx = map]
               EXCEPT !.model.test_steps[i].measurement_series = Append(@, EmptyObject)]
    BY DEF GetMeasurementSeriesIdx
  <2>3. PICK r, l, p, q, u :
          /\ r = b.model.run /\ l = b.model.test_steps /\ p = b.stepIdx
          /\ q = b.seriesIdx /\ u = b.undefined
          /\ b = [model |-> [run |-> r, test_steps |-> l], stepIdx |-> p,
                  seriesIdx |-> q, undefined |-> u]
    BY ReaderIs, Zenon
  <2> HIDE DEF map, new
  <2>4. PICK e : e = [b EXCEPT !.seriesIdx = map]
    OBVIOUS
  <2>5. e = [model |-> [run |-> r, test_steps |-> l], stepIdx |-> p,
             seriesIdx |-> map, undefined |-> u]
    BY <2>3, <2>4
  <2>6. i \in DOMAIN l /\ l[i] = step
    BY <2>3
  <2>7. WithSeries(e, i, EmptyObject) =
          [model |-> [run |-> r, test_steps |-> WithStep(l, i, Longer(l[i], EmptyObject))],
           stepIdx |-> p, seriesIdx |-> map, undefined |-> u]
    BY <2>5, <2>6, SeriesExcept
  <2>8. c = WithSeries(e, i, EmptyObject)
    BY <2>2, <2>4, Zenon DEF WithSeries
  <2> QED
    BY <2>1, <2>3, <2>6, <2>7, <2>8, Zenon DEF WithStep, Longer
<1> HIDE DEF new, map
<1>7. c \in Reader
  BY <1>3, <1>5, <1>6, StepChanged
<1>8. /\ c.model.run = b.model.run
      /\ c.model.test_steps = [b.model.test_steps EXCEPT ![i] = new]
      /\ c.stepIdx = b.stepIdx /\ c.seriesIdx = map /\ c.undefined = b.undefined
  BY <1>6
<1> QED
  BY <1>7, <1>8, Zenon DEF new, map, SeriesAddedTo

\* An artifact of a step stored.
OwnStoredIn(b, a, i, step, c) ==
  /\ c \in Reader /\ c.model.run = b.model.run
  /\ c.model.test_steps =
       [b.model.test_steps EXCEPT ![i] =
          [test_step_id |-> step.test_step_id, own |-> Store(step.own, a),
           measurement_series |-> step.measurement_series]]
  /\ c.stepIdx = b.stepIdx /\ c.seriesIdx = b.seriesIdx
  /\ c.undefined = b.undefined

LEMMA OwnStored ==
  ASSUME NEW b \in Reader, NEW a \in Artifact, NEW i \in DOMAIN b.model.test_steps,
         NEW step, step = b.model.test_steps[i], NEW c,
         c = [b EXCEPT !.model.test_steps[i].own = Store(@, a)]
  PROVE  OwnStoredIn(b, a, i, step, c)
<1> DEFINE own == Store(step.own, a)
           new == [test_step_id |-> step.test_step_id, own |-> own,
                   measurement_series |-> step.measurement_series]
<1>1. step \in StepModel /\ step.own \in Object
  BY StepParts
<1>2. own \in Object
  BY <1>1, StoreType
<1>3. new \in StepModel
  BY <1>1, <1>2 DEF StepModel
<1>4. c = [model |-> [run |-> b.model.run,
                      test_steps |-> [b.model.test_steps EXCEPT ![i] = new]],
           stepIdx |-> b.stepIdx, seriesIdx |-> b.seriesIdx, undefined |-> b.undefined]
  <2>1. [step EXCEPT !.own = own] = new
    <3> HIDE DEF own
    <3> QED
      BY <1>1, StepExcept
  <2>2. PICK r, l, p, q, u :
          /\ r = b.model.run /\ l = b.model.test_steps /\ p = b.stepIdx
          /\ q = b.seriesIdx /\ u = b.undefined
          /\ b = [model |-> [run |-> r, test_steps |-> l], stepIdx |-> p,
                  seriesIdx |-> q, undefined |-> u]
    BY ReaderIs, Zenon
  <2>3. i \in DOMAIN l /\ l[i] = step
    BY <2>2
  <2>4. c = [model |-> [run |-> r,
                        test_steps |-> [l EXCEPT ![i] =
                          [l[i] EXCEPT !.own = Store(l[i].own, a)]]],
             stepIdx |-> p, seriesIdx |-> q, undefined |-> u]
    BY <2>2, <2>3
  <2> HIDE DEF new
  <2> QED
    BY <2>1, <2>2, <2>3, <2>4, Zenon
<1> HIDE DEF new
<1>5. c \in Reader
  <2>1. b.seriesIdx \in IdMap(Series)
    BY ReaderParts
  <2> QED
    BY <1>3, <1>4, <2>1, StepChanged
<1> QED
  BY <1>4, <1>5 DEF new, OwnStoredIn

\* An artifact of a series stored.
SeriesStoredIn(b, a, i, step, j, c) ==
  /\ c \in Reader /\ c.model.run = b.model.run
  /\ c.model.test_steps =
       [b.model.test_steps EXCEPT ![i] =
          [test_step_id |-> step.test_step_id, own |-> step.own,
           measurement_series |->
             [step.measurement_series EXCEPT ![j] =
                Store(step.measurement_series[j], a)]]]
  /\ c.stepIdx = b.stepIdx /\ c.seriesIdx = b.seriesIdx
  /\ c.undefined = b.undefined

LEMMA SeriesStored ==
  ASSUME NEW b \in Reader, NEW a \in Artifact, NEW i \in DOMAIN b.model.test_steps,
         NEW step, step = b.model.test_steps[i],
         NEW j \in DOMAIN step.measurement_series, NEW c,
         c = [b EXCEPT !.model.test_steps[i].measurement_series[j] = Store(@, a)]
  PROVE  SeriesStoredIn(b, a, i, step, j, c)
<1> DEFINE object == Store(step.measurement_series[j], a)
           list == [step.measurement_series EXCEPT ![j] = object]
           new == [test_step_id |-> step.test_step_id, own |-> step.own,
                   measurement_series |-> list]
<1>1. step \in StepModel /\ step.measurement_series \in Seq(Object)
  BY StepParts
<1>2. object \in Object
  BY <1>1, StoreType
<1>3. list \in Seq(Object)
  <2> HIDE DEF object
  <2> QED
    BY <1>1, <1>2
<1>4. new \in StepModel
  <2> HIDE DEF list
  <2> QED
    BY <1>1, <1>3 DEF StepModel
<1>5. c = [model |-> [run |-> b.model.run,
                      test_steps |-> [b.model.test_steps EXCEPT ![i] = new]],
           stepIdx |-> b.stepIdx, seriesIdx |-> b.seriesIdx, undefined |-> b.undefined]
  <2>1. [step EXCEPT !.measurement_series = list] = new
    <3> HIDE DEF list
    <3> QED
      BY <1>1, StepExcept
  <2>2. PICK r, l, p, q, u :
          /\ r = b.model.run /\ l = b.model.test_steps /\ p = b.stepIdx
          /\ q = b.seriesIdx /\ u = b.undefined
          /\ b = [model |-> [run |-> r, test_steps |-> l], stepIdx |-> p,
                  seriesIdx |-> q, undefined |-> u]
    BY ReaderIs, Zenon
  <2>3. i \in DOMAIN l /\ l[i] = step
    BY <2>2
  <2>4. c = [model |-> [run |-> r,
                        test_steps |-> [l EXCEPT ![i] =
                          [l[i] EXCEPT !.measurement_series =
                             [l[i].measurement_series EXCEPT ![j] =
                                Store(l[i].measurement_series[j], a)]]]],
             stepIdx |-> p, seriesIdx |-> q, undefined |-> u]
    BY <2>2, <2>3
  <2> HIDE DEF new
  <2> QED
    BY <2>1, <2>2, <2>3, <2>4, Zenon
<1> HIDE DEF new
<1>6. c \in Reader
  <2>1. b.seriesIdx \in IdMap(Series)
    BY ReaderParts
  <2> QED
    BY <1>4, <1>5, <2>1, StepChanged
<1>7. /\ c.model.run = b.model.run /\ c.stepIdx = b.stepIdx
      /\ c.model.test_steps = [b.model.test_steps EXCEPT ![i] = new]
      /\ c.seriesIdx = b.seriesIdx /\ c.undefined = b.undefined
  BY <1>5
<1> QED
  BY <1>6, <1>7, Zenon DEF new, list, object, SeriesStoredIn

\* Storing an artifact of the run.
RunStoredIn(b, a, c) ==
  /\ c \in Reader /\ c.model.run = Store(b.model.run, a)
  /\ c.model.test_steps = b.model.test_steps
  /\ c.stepIdx = b.stepIdx /\ c.seriesIdx = b.seriesIdx
  /\ c.undefined = b.undefined

LEMMA RunStored ==
  ASSUME NEW b \in Reader, NEW a \in Artifact, NEW c,
         c = [b EXCEPT !.model.run = Store(@, a)]
  PROVE  RunStoredIn(b, a, c)
<1>1. PICK r, l, p, q, u :
        /\ r = b.model.run /\ l = b.model.test_steps /\ p = b.stepIdx
        /\ q = b.seriesIdx /\ u = b.undefined
        /\ b = [model |-> [run |-> r, test_steps |-> l], stepIdx |-> p,
                seriesIdx |-> q, undefined |-> u]
  BY ReaderIs, Zenon
<1>2. c = [model |-> [run |-> Store(r, a), test_steps |-> l], stepIdx |-> p,
           seriesIdx |-> q, undefined |-> u]
  BY <1>1
<1>3. Store(r, a) \in Object
  BY <1>1, ReaderParts, StoreType
<1>4. l \in Seq(StepModel) /\ p \in IdMap(Steps) /\ q \in IdMap(Series) /\ u \in BOOLEAN
  BY <1>1, ReaderParts
<1>5. c \in Reader
  <2>1. PICK object \in Object : object = Store(r, a)
    BY <1>3
  <2>2. PICK w : w = [run |-> object, test_steps |-> l]
    OBVIOUS
  <2>3. w \in Model
    BY <1>4, <2>2 DEF Model
  <2>4. c = [model |-> w, stepIdx |-> p, seriesIdx |-> q, undefined |-> u]
    BY <1>2, <2>1, <2>2, Zenon
  <2> QED
    BY <1>4, <2>3, <2>4 DEF Reader
<1>6. /\ c.model.run = Store(b.model.run, a) /\ c.model.test_steps = b.model.test_steps
      /\ c.stepIdx = b.stepIdx /\ c.seriesIdx = b.seriesIdx
      /\ c.undefined = b.undefined
  BY <1>1, <1>2
<1> QED
  BY <1>5, <1>6, Zenon DEF RunStoredIn

\* Past the end of a vector.
LEMMA OutOfRangeType == \A b \in Reader : OutOfRange(b) \in Reader
<1> SUFFICES ASSUME NEW b \in Reader PROVE OutOfRange(b) \in Reader
  OBVIOUS
<1>1. PICK r, l, p, q, u :
        /\ r = b.model.run /\ l = b.model.test_steps /\ p = b.stepIdx
        /\ q = b.seriesIdx /\ u = b.undefined
        /\ b = [model |-> [run |-> r, test_steps |-> l], stepIdx |-> p,
                seriesIdx |-> q, undefined |-> u]
  BY ReaderIs, Zenon
<1>2. OutOfRange(b) = [model |-> [run |-> r, test_steps |-> l], stepIdx |-> p,
                       seriesIdx |-> q, undefined |-> TRUE]
  <2>1. PICK w : w = [run |-> r, test_steps |-> l]
    OBVIOUS
  <2>2. b = [model |-> w, stepIdx |-> p, seriesIdx |-> q, undefined |-> u]
    BY <1>1, <2>1, Zenon
  <2>3. PICK yes : yes = TRUE
    OBVIOUS
  <2>4. [b EXCEPT !.undefined = yes] =
          [model |-> w, stepIdx |-> p, seriesIdx |-> q, undefined |-> yes]
    BY <2>2
  <2> QED
    BY <2>1, <2>3, <2>4, Zenon DEF OutOfRange
<1>3. /\ r \in Object /\ l \in Seq(StepModel) /\ p \in IdMap(Steps)
      /\ q \in IdMap(Series)
  BY <1>1, ReaderParts
<1> QED
  BY <1>2, <1>3 DEF Reader, Model

\* Looking a step up, and a series of a step.
LEMMA FoundTypes ==
  /\ \A b \in Reader, s \in Steps : GetTestStepIdx(b, s) \in Reader
  /\ \A b \in Reader, m \in Series : \A i \in DOMAIN b.model.test_steps :
       /\ GetMeasurementSeriesIdx(b, m, i) \in Reader
       /\ i \in DOMAIN GetMeasurementSeriesIdx(b, m, i).model.test_steps
<1>1. ASSUME NEW b \in Reader, NEW s \in Steps PROVE GetTestStepIdx(b, s) \in Reader
  <2>1. CASE Mapped(b.stepIdx, s)
    BY <2>1 DEF GetTestStepIdx
  <2>2. CASE ~Mapped(b.stepIdx, s)
    <3>1. PICK c : c = GetTestStepIdx(b, s)
      OBVIOUS
    <3>2. StepAddedTo(b, s, c)
      BY <2>2, <3>1, NewStep
    <3>3. c \in Reader
      BY <3>2, Zenon DEF StepAddedTo
    <3> QED
      BY <3>1, <3>3
  <2> QED
    BY <2>1, <2>2
<1>2. ASSUME NEW b \in Reader, NEW m \in Series, NEW i \in DOMAIN b.model.test_steps
      PROVE  /\ GetMeasurementSeriesIdx(b, m, i) \in Reader
             /\ i \in DOMAIN GetMeasurementSeriesIdx(b, m, i).model.test_steps
  <2>1. CASE Mapped(b.seriesIdx, m)
    BY <2>1 DEF GetMeasurementSeriesIdx
  <2>2. CASE ~Mapped(b.seriesIdx, m)
    <3>1. PICK c, step : c = GetMeasurementSeriesIdx(b, m, i)
                         /\ step = b.model.test_steps[i]
      OBVIOUS
    <3>2. /\ c \in Reader
          /\ c.model.test_steps =
               [b.model.test_steps EXCEPT ![i] =
                  [test_step_id |-> step.test_step_id, own |-> step.own,
                   measurement_series |-> Append(step.measurement_series, EmptyObject)]]
      BY <2>2, <3>1, NewSeries DEF SeriesAddedTo
    <3> QED
      BY <3>1, <3>2
  <2> QED
    BY <2>1, <2>2
<1> QED
  BY <1>1, <1>2

\* Handling an artifact is always a step between things a build works on.
LEMMA HandledType ==
  ASSUME NEW b \in Reader, NEW a \in Artifact
  PROVE  HandleOutputArtifact(b, a) \in Reader
<1>1. CASE b.undefined
  BY <1>1 DEF HandleOutputArtifact
<1>2. CASE ~b.undefined /\ IsOfRun(a)
  <2>1. HandleOutputArtifact(b, a) = [b EXCEPT !.model.run = Store(@, a)]
    BY <1>2 DEF HandleOutputArtifact
  <2> QED
    <3>1. PICK c : c = [b EXCEPT !.model.run = Store(@, a)]
      OBVIOUS
    <3>2. RunStoredIn(b, a, c)
      BY <3>1, RunStored
    <3> QED
      BY <2>1, <3>1, <3>2 DEF RunStoredIn
<1>3. CASE ~b.undefined /\ ~IsOfRun(a)
  <2>1. PICK c : c = GetTestStepIdx(b, test_step_id(a))
    OBVIOUS
  <2>2. c \in Reader
    BY <1>3, <2>1, Belongs, FoundTypes
  <2>3. PICK i : i = c.stepIdx[test_step_id(a)]
    OBVIOUS
  <2>4. HandleOutputArtifact(b, a) =
          CASE i \notin DOMAIN c.model.test_steps -> OutOfRange(c)
            [] i \in DOMAIN c.model.test_steps /\ IsOfSeries(a) ->
                 StoreInSeries(c, a.series, i, a)
            [] OTHER -> [c EXCEPT !.model.test_steps[i].own = Store(@, a)]
    BY <1>3, <2>1, <2>3 DEF HandleOutputArtifact, HandleTestStepArtifact
  <2>5. CASE i \notin DOMAIN c.model.test_steps
    BY <2>2, <2>4, <2>5, OutOfRangeType
  <2>6. CASE i \in DOMAIN c.model.test_steps /\ IsOfSeries(a)
    <3>1. HandleOutputArtifact(b, a) = StoreInSeries(c, a.series, i, a)
      BY <2>4, <2>6
    <3>2. PICK d : d = GetMeasurementSeriesIdx(c, a.series, i)
      OBVIOUS
    <3>3. d \in Reader /\ i \in DOMAIN d.model.test_steps
      BY <2>2, <2>6, <3>2, Belongs, FoundTypes
    <3>4. PICK j, step : j = d.seriesIdx[a.series] /\ step = d.model.test_steps[i]
      OBVIOUS
    <3>5. CASE j \notin DOMAIN step.measurement_series
      BY <3>1, <3>2, <3>3, <3>4, <3>5, OutOfRangeType DEF StoreInSeries
    <3>6. CASE j \in DOMAIN step.measurement_series
      <4>1. StoreInSeries(c, a.series, i, a) =
              [d EXCEPT !.model.test_steps[i].measurement_series[j] = Store(@, a)]
        BY <3>2, <3>4, <3>6 DEF StoreInSeries
      <4>2. PICK e : e = [d EXCEPT !.model.test_steps[i].measurement_series[j] =
                            Store(@, a)]
        OBVIOUS
      <4>3. e \in Reader
        BY <3>3, <3>4, <3>6, <4>2, SeriesStored DEF SeriesStoredIn
      <4> QED
        BY <3>1, <4>1, <4>2, <4>3, Zenon
    <3> QED
      BY <3>5, <3>6
  <2>7. CASE i \in DOMAIN c.model.test_steps /\ ~IsOfSeries(a)
    <3>1. HandleOutputArtifact(b, a) = [c EXCEPT !.model.test_steps[i].own = Store(@, a)]
      BY <2>4, <2>7
    <3>2. PICK e, step : e = [c EXCEPT !.model.test_steps[i].own = Store(@, a)]
                         /\ step = c.model.test_steps[i]
      OBVIOUS
    <3>3. e \in Reader
      BY <2>2, <2>7, <3>2, OwnStored DEF OwnStoredIn
    <3> QED
      BY <3>1, <3>2, <3>3, Zenon
  <2> QED
    BY <2>5, <2>6, <2>7
<1> QED
  BY <1>1, <1>2, <1>3, ReaderParts

\* A build, artifact by artifact.
LEMMA ReadSteps ==
  ASSUME NEW read \in Seq(Artifact), NEW start \in Reader
  PROVE  \E h \in [0..Len(read) -> Reader] :
           /\ h[0] = start
           /\ \A k \in 1..Len(read) : h[k] = HandleOutputArtifact(h[k - 1], read[k])
           /\ FoldLeft(HandleOutputArtifact, start, read) = h[Len(read)]
<1> DEFINE F == [p \in Reader \X Artifact |-> HandleOutputArtifact(p[1], p[2])]
           Body(f) == [s \in SUBSET (DOMAIN read) |->
                         IF s = {} THEN start
                         ELSE HandleOutputArtifact(f[s \ {Max(s)}], read[Max(s)])]
           chosen == CHOOSE f : f = Body(f)
           n == Len(read)
<1>1. n \in Nat /\ DOMAIN read = 1..n /\ \A k \in 1..n : read[k] \in Artifact
  OBVIOUS
<1>2. /\ F \in [Reader \X Artifact -> Reader]
      /\ \A b \in Reader, a \in Artifact : F[<<b, a>>] = HandleOutputArtifact(b, a)
  BY HandledType
<1> HIDE DEF F
<1>3. PICK f \in [SUBSET (1..n) -> Reader] : FoldsSets(f, start, read, F)
  BY <1>2, FoldDefined
<1>4. \A s \in SUBSET (1..n) :
        f[s] = IF s = {} THEN start
               ELSE HandleOutputArtifact(f[s \ {Max(s)}], read[Max(s)])
  <2> SUFFICES ASSUME NEW s \in SUBSET (1..n), s # {}
               PROVE  f[s] = HandleOutputArtifact(f[s \ {Max(s)}], read[Max(s)])
    BY <1>3 DEF FoldsSets
  <2>1. Max(s) \in 1..n
    BY <1>1, Greatest
  <2>2. PICK i \in 1..n : i = Max(s)
    BY <2>1
  <2>3. s \ {i} \in SUBSET (1..n) /\ f[s] = F[<<f[s \ {i}], read[i]>>]
    BY <1>3, <2>2 DEF FoldsSets
  <2>4. f[s \ {i}] \in Reader /\ read[i] \in Artifact
    BY <1>1, <1>3, <2>3
  <2> QED
    BY <1>2, <2>2, <2>3, <2>4
<1>5. f = Body(f)
  BY <1>1, <1>4
<1>6. chosen = Body(chosen)
  <2> HIDE DEF Body
  <2> QED
    BY <1>5
<1>7. FoldLeft(HandleOutputArtifact, start, read) = chosen[1..n]
  <2>1. FoldLeft(HandleOutputArtifact, start, read) =
          (CHOOSE g : g = Body(g))[DOMAIN read]
    BY Zenon DEF FoldLeft, MapThenFoldSet
  <2> QED
    BY <1>1, <2>1
<1> HIDE DEF chosen
<1>8. \A s \in SUBSET (1..n) :
        chosen[s] = IF s = {} THEN start
                    ELSE HandleOutputArtifact(chosen[s \ {Max(s)}], read[Max(s)])
  <2>1. \A s \in SUBSET (1..n) :
          Body(chosen)[s] = IF s = {} THEN start
                            ELSE HandleOutputArtifact(chosen[s \ {Max(s)}], read[Max(s)])
    BY <1>1
  <2> HIDE DEF Body
  <2> QED
    BY <1>6, <2>1
<1> DEFINE h == [k \in 0..n |-> chosen[1..k]]
<1>9. h[0] = start /\ 0 \in 0..n
  <2>1. 1..0 = {} /\ 0 \in 0..n
    BY <1>1
  <2> QED
    BY <1>8, <2>1
<1>10. \A k \in 1..n : h[k] = HandleOutputArtifact(h[k - 1], read[k])
  <2> SUFFICES ASSUME NEW k \in 1..n PROVE h[k] = HandleOutputArtifact(h[k - 1], read[k])
    OBVIOUS
  <2>1. k \in Nat /\ k # 0 /\ k \in 0..n /\ k - 1 \in 0..n /\ 1..k \in SUBSET (1..n)
    BY <1>1
  <2>2. Max(1..k) = k /\ (1..k) \ {k} = 1..(k - 1) /\ 1..k # {}
    BY <2>1, Places
  <2>3. chosen[1..k] = HandleOutputArtifact(chosen[1..(k - 1)], read[k])
    BY <1>8, <2>1, <2>2
  <2> QED
    BY <2>1, <2>3
<1>11. n \in 0..n /\ h[n] = chosen[1..n] /\ h = [k \in 0..n |-> h[k]]
  BY <1>1
<1> HIDE DEF h
<1>12. FoldLeft(HandleOutputArtifact, start, read) = h[n]
  BY <1>7, <1>11, Zenon
<1> DEFINE T == {k \in Nat : k <= n => h[k] \in Reader}
<1>13. 0 \in T
  BY <1>9
<1>14. ASSUME NEW k \in Nat, k \in T PROVE k + 1 \in T
  <2> SUFFICES ASSUME k + 1 <= n PROVE h[k + 1] \in Reader
    OBVIOUS
  <2>1. k + 1 \in 1..n /\ (k + 1) - 1 = k
    BY <1>1
  <2>2. h[k] \in Reader /\ read[k + 1] \in Artifact
    BY <1>1, <1>14, <2>1
  <2>3. h[k + 1] = HandleOutputArtifact(h[k], read[k + 1])
    BY <1>10, <2>1
  <2> QED
    BY <2>2, <2>3, HandledType
<1>15. \A k \in 0..n : h[k] \in Reader
  <2> HIDE DEF T
  <2>1. Nat \subseteq T
    BY <1>13, <1>14, SetInduction
  <2> QED
    BY <1>1, <2>1 DEF T
<1>16. h \in [0..n -> Reader]
  BY <1>11, <1>15
<1> QED
  BY <1>9, <1>10, <1>12, <1>16, Zenon

----------------------------------------------------------------------------
(* What the artifacts read so far say.                                     *)

Upto(K, k) == {i \in K : i <= k}

\* A step of the model, when the artifacts up to place k are stored, and the
\* series first seen up to place g are there.
StepSorted(map, step, s, read, g, k) ==
  LET firsts == Upto(SeriesFirsts(s, read), g)
  IN  /\ step.test_step_id = s
      /\ Collects(step.own, Upto(OwnOf(s, read), k), read)
      /\ Len(step.measurement_series) = Cardinality(firsts)
      /\ \A i \in firsts :
           /\ map[read[i].series] = Rank(firsts, i)
           /\ Collects(step.measurement_series[map[read[i].series]],
                       Upto(OfSeries(read[i].series, read), k), read)

\* The steps and the series seen up to place n.
StepIds(read, n) ==
  {test_step_id(read[i]) : i \in {j \in DOMAIN read : ~IsOfRun(read[j]) /\ j <= n}}

SeriesIds(read, n) ==
  {read[i].series : i \in {j \in DOMAIN read : IsOfSeries(read[j]) /\ j <= n}}

\* The whole model, when also the steps first seen up to place f are there.
Sorted(b, read, f, g, k) ==
  LET firsts == Upto(StepFirsts(read), f)
  IN  /\ b \in Reader /\ b.undefined = FALSE
      /\ Collects(b.model.run, Upto(OfRun(read), k), read)
      /\ DOMAIN b.stepIdx = StepIds(read, f)
      /\ DOMAIN b.seriesIdx = SeriesIds(read, g)
      /\ Len(b.model.test_steps) = Cardinality(firsts)
      /\ \A i \in firsts :
           LET s == test_step_id(read[i])
           IN  /\ b.stepIdx[s] = Rank(firsts, i)
               /\ StepSorted(b.seriesIdx, b.model.test_steps[b.stepIdx[s]], s, read, g, k)

\* A set of places up to the next.
LEMMA UptoNext ==
  ASSUME NEW read \in Seq(Artifact), NEW K, K \subseteq DOMAIN read, NEW k \in DOMAIN read
  PROVE  /\ k \in K => Upto(K, k) = Upto(K, k - 1) \cup {k}
         /\ k \notin K => Upto(K, k) = Upto(K, k - 1)
         /\ Upto(K, k - 1) \subseteq DOMAIN read /\ Upto(K, k - 1) \subseteq Nat
         /\ IsFiniteSet(Upto(K, k - 1))
         /\ \A j \in Upto(K, k - 1) : j < k
<1>1. DOMAIN read = 1..Len(read) /\ Len(read) \in Nat /\ IsFiniteSet(1..Len(read))
  BY FS_Interval
<1>2. Upto(K, k - 1) \subseteq DOMAIN read
  BY DEF Upto
<1>3. IsFiniteSet(Upto(K, k - 1))
  BY <1>1, <1>2, FS_Subset
<1>4. \A j \in K : j \in Nat /\ k \in Nat
  BY <1>1
<1> QED
  BY <1>1, <1>2, <1>3, <1>4 DEF Upto

\* The places up to the next are those up to this one, if the next is none of them.
LEMMA UptoSame ==
  ASSUME NEW read \in Seq(Artifact), NEW k \in DOMAIN read, NEW K, K \subseteq DOMAIN read,
         k \notin K
  PROVE  Upto(K, k) = Upto(K, k - 1)
<1>1. K \subseteq Nat /\ k \in Nat
  OBVIOUS
<1> QED
  BY <1>1 DEF Upto

\* If it is one of them, they are one more.
LEMMA UptoMore ==
  ASSUME NEW read \in Seq(Artifact), NEW k \in DOMAIN read, NEW K, K \subseteq DOMAIN read,
         k \in K
  PROVE  /\ Upto(K, k) = Upto(K, k - 1) \cup {k}
         /\ Upto(K, k - 1) \subseteq DOMAIN read
         /\ \A j \in Upto(K, k - 1) : j < k
<1>1. K \subseteq Nat /\ k \in Nat
  OBVIOUS
<1> QED
  BY <1>1 DEF Upto

\* Every step has its first artifact, and every series.
LEMMA FirstOfStep ==
  ASSUME NEW read \in Seq(Artifact), NEW j \in DOMAIN read, ~IsOfRun(read[j])
  PROVE  \E i \in StepFirsts(read) :
           i <= j /\ test_step_id(read[i]) = test_step_id(read[j])
<1> DEFINE s == test_step_id(read[j])
           T == OfStep(s, read)
<1>1. T \subseteq DOMAIN read /\ DOMAIN read \subseteq Nat /\ j \in T
  BY DEF OfStep
<1>2. T \subseteq Nat /\ T # {}
  BY <1>1
<1> HIDE DEF T
<1>3. PICK i \in T : \A m \in T : i <= m
  BY <1>2, Least
<1> QED
  BY <1>1, <1>3 DEF T, OfStep, StepFirsts

LEMMA FirstOfSeries ==
  ASSUME NEW read \in Seq(Artifact), NEW j \in DOMAIN read, IsOfSeries(read[j])
  PROVE  \E i \in SeriesFirsts(StepOf[read[j].series], read) :
           i <= j /\ read[i].series = read[j].series
<1> DEFINE m == read[j].series
           T == OfSeries(m, read)
<1>1. T \subseteq DOMAIN read /\ DOMAIN read \subseteq Nat /\ j \in T
  BY DEF OfSeries
<1>2. T \subseteq Nat /\ T # {}
  BY <1>1
<1> HIDE DEF T
<1>3. PICK i \in T : \A l \in T : i <= l
  BY <1>2, Least
<1>4. i \in DOMAIN read /\ IsOfSeries(read[i]) /\ read[i].series = m
  BY <1>3 DEF T, OfSeries
<1>5. read[i] \in Artifact
  BY <1>4
<1>6. ~IsOfRun(read[i]) /\ test_step_id(read[i]) = StepOf[m]
  BY <1>4, <1>5, Belongs DEF test_step_id
<1> QED
  BY <1>1, <1>3, <1>4, <1>6 DEF T, OfStep, SeriesFirsts

\* Where the steps of a sorted model are.
LEMMA StepAt ==
  ASSUME NEW read \in Seq(Artifact), NEW f \in Nat, NEW g, NEW k, NEW b,
         Sorted(b, read, f, g, k), NEW s \in DOMAIN b.stepIdx
  PROVE  /\ \E i \in Upto(StepFirsts(read), f) :
              s = test_step_id(read[i]) /\ b.stepIdx[s] = Rank(Upto(StepFirsts(read), f), i)
         /\ b.stepIdx[s] \in DOMAIN b.model.test_steps
         /\ StepSorted(b.seriesIdx, b.model.test_steps[b.stepIdx[s]], s, read, g, k)
         /\ s \in Steps
<1> DEFINE firsts == Upto(StepFirsts(read), f)
<1>1. /\ b \in Reader
      /\ DOMAIN b.stepIdx =
           {test_step_id(read[i]) : i \in {j \in DOMAIN read : ~IsOfRun(read[j]) /\ j <= f}}
      /\ Len(b.model.test_steps) = Cardinality(firsts)
      /\ \A i \in firsts :
           /\ b.stepIdx[test_step_id(read[i])] = Rank(firsts, i)
           /\ StepSorted(b.seriesIdx,
                         b.model.test_steps[b.stepIdx[test_step_id(read[i])]],
                         test_step_id(read[i]), read, g, k)
  BY DEF Sorted, StepIds, SeriesIds
<1>2. DOMAIN read = 1..Len(read) /\ Len(read) \in Nat /\ IsFiniteSet(1..Len(read))
  BY FS_Interval
<1>3. firsts \subseteq DOMAIN read
  BY DEF Upto, StepFirsts
<1>4. firsts \subseteq Nat /\ IsFiniteSet(firsts)
  BY <1>2, <1>3, FS_Subset
<1>5. PICK j \in DOMAIN read : ~IsOfRun(read[j]) /\ j <= f /\ s = test_step_id(read[j])
  BY <1>1
<1>6. PICK i \in StepFirsts(read) : i <= j /\ test_step_id(read[i]) = s
  BY <1>5, FirstOfStep
<1>7. i \in firsts
  BY <1>2, <1>5, <1>6 DEF Upto, StepFirsts
<1>8. read[j] \in Artifact
  BY <1>5
<1>9. s \in Steps
  BY <1>5, <1>8, Belongs
<1> HIDE DEF firsts
<1>10. Rank(firsts, i) \in Nat /\ 1 <= Rank(firsts, i) /\ Rank(firsts, i) <= Cardinality(firsts)
  BY <1>4, <1>7, RankIs
<1>11. DOMAIN b.model.test_steps = 1..Len(b.model.test_steps)
       /\ Len(b.model.test_steps) \in Nat
  <2>1. b.model.test_steps \in Seq(StepModel)
    BY <1>1, ReaderParts
  <2> QED
    BY <2>1
<1>12. b.stepIdx[s] = Rank(firsts, i) /\ b.stepIdx[s] \in DOMAIN b.model.test_steps
  BY <1>1, <1>6, <1>7, <1>10, <1>11
<1> QED
  BY <1>1, <1>6, <1>7, <1>9, <1>12 DEF firsts

\* No two steps of a sorted model are at the same place.
LEMMA StepsDiffer ==
  ASSUME NEW read \in Seq(Artifact), NEW f \in Nat, NEW g, NEW k, NEW b,
         Sorted(b, read, f, g, k), NEW s \in DOMAIN b.stepIdx, NEW t \in DOMAIN b.stepIdx,
         s # t
  PROVE  b.stepIdx[s] # b.stepIdx[t]
<1> DEFINE firsts == Upto(StepFirsts(read), f)
<1>1. PICK i \in firsts : s = test_step_id(read[i]) /\ b.stepIdx[s] = Rank(firsts, i)
  BY StepAt
<1>2. PICK j \in firsts : t = test_step_id(read[j]) /\ b.stepIdx[t] = Rank(firsts, j)
  BY StepAt
<1>3. DOMAIN read = 1..Len(read) /\ Len(read) \in Nat /\ IsFiniteSet(1..Len(read))
  BY FS_Interval
<1>4. firsts \subseteq DOMAIN read
  BY DEF Upto, StepFirsts
<1>5. firsts \subseteq Nat /\ IsFiniteSet(firsts)
  BY <1>3, <1>4, FS_Subset
<1> HIDE DEF firsts
<1>6. i \in Nat /\ j \in Nat /\ i # j
  BY <1>1, <1>2, <1>5
<1>7. /\ Rank(firsts, i) \in Nat /\ Rank(firsts, j) \in Nat
      /\ i < j => Rank(firsts, i) < Rank(firsts, j)
      /\ j < i => Rank(firsts, j) < Rank(firsts, i)
  BY <1>5, RankIs
<1> QED
  BY <1>1, <1>2, <1>6, <1>7

\* Where the series of a sorted step are.
LEMMA SeriesAt ==
  ASSUME NEW read \in Seq(Artifact), NEW g \in Nat, NEW k, NEW map, NEW step \in StepModel,
         NEW m, NEW j \in DOMAIN read, IsOfSeries(read[j]), j <= g, read[j].series = m,
         StepSorted(map, step, StepOf[m], read, g, k)
  PROVE  /\ \E i \in Upto(SeriesFirsts(StepOf[m], read), g) :
              /\ m = read[i].series
              /\ map[m] = Rank(Upto(SeriesFirsts(StepOf[m], read), g), i)
         /\ map[m] \in DOMAIN step.measurement_series
         /\ Collects(step.measurement_series[map[m]], Upto(OfSeries(m, read), k), read)
<1> DEFINE firsts == Upto(SeriesFirsts(StepOf[m], read), g)
<1>1. /\ Len(step.measurement_series) = Cardinality(firsts)
      /\ \A i \in firsts :
           /\ map[read[i].series] = Rank(firsts, i)
           /\ Collects(step.measurement_series[map[read[i].series]],
                       Upto(OfSeries(read[i].series, read), k), read)
  BY DEF StepSorted
<1>2. DOMAIN read = 1..Len(read) /\ Len(read) \in Nat /\ IsFiniteSet(1..Len(read))
  BY FS_Interval
<1>3. firsts \subseteq DOMAIN read
  BY DEF Upto, SeriesFirsts, OfStep
<1>4. firsts \subseteq Nat /\ IsFiniteSet(firsts)
  BY <1>2, <1>3, FS_Subset
<1>5. PICK i \in SeriesFirsts(StepOf[m], read) : i <= j /\ read[i].series = m
  BY FirstOfSeries
<1>6. i \in firsts
  BY <1>2, <1>5 DEF Upto, SeriesFirsts, OfStep
<1> HIDE DEF firsts
<1>7. Rank(firsts, i) \in Nat /\ 1 <= Rank(firsts, i) /\ Rank(firsts, i) <= Cardinality(firsts)
  BY <1>4, <1>6, RankIs
<1>8. DOMAIN step.measurement_series = 1..Len(step.measurement_series)
      /\ Len(step.measurement_series) \in Nat
  <2>1. step.measurement_series \in Seq(Object)
    BY DEF StepModel
  <2> QED
    BY <2>1
<1>9. map[m] = Rank(firsts, i) /\ map[m] \in DOMAIN step.measurement_series
  BY <1>1, <1>5, <1>6, <1>7, <1>8
<1> QED
  BY <1>1, <1>5, <1>6, <1>9 DEF firsts

\* A step stays sorted when the next artifact is not its own.
LEMMA StepKept ==
  ASSUME NEW read \in Seq(Artifact), NEW k \in DOMAIN read, NEW map, NEW step, NEW s,
         NEW g \in {k - 1, k}, StepSorted(map, step, s, read, g, k - 1),
         IsOfRun(read[k]) \/ test_step_id(read[k]) # s
  PROVE  StepSorted(map, step, s, read, k, k)
<1> DEFINE before == Upto(SeriesFirsts(s, read), g)
           firsts == Upto(SeriesFirsts(s, read), k)
<1>1. k \notin OfStep(s, read)
  BY DEF OfStep
<1>2. Upto(OwnOf(s, read), k) = Upto(OwnOf(s, read), k - 1)
  <2>1. OwnOf(s, read) \subseteq DOMAIN read /\ k \notin OwnOf(s, read)
    BY <1>1 DEF OwnOf, OfStep
  <2> QED
    BY <2>1, UptoSame
<1>3. firsts = before
  <2>1. SeriesFirsts(s, read) \subseteq DOMAIN read /\ k \notin SeriesFirsts(s, read)
    BY <1>1 DEF SeriesFirsts, OfStep
  <2>2. Upto(SeriesFirsts(s, read), k) = Upto(SeriesFirsts(s, read), k - 1)
    BY <2>1, UptoSame
  <2> QED
    BY <2>2
<1>4. ASSUME NEW i \in firsts
      PROVE  Upto(OfSeries(read[i].series, read), k) = Upto(OfSeries(read[i].series, read), k - 1)
  <2>1. i \in DOMAIN read /\ IsOfSeries(read[i]) /\ test_step_id(read[i]) = s
    BY <1>4 DEF Upto, SeriesFirsts, OfStep
  <2>2. StepOf[read[i].series] = s
    BY <2>1 DEF test_step_id
  <2>3. k \notin OfSeries(read[i].series, read)
    <3> SUFFICES ASSUME k \in OfSeries(read[i].series, read) PROVE FALSE
      OBVIOUS
    <3>1. IsOfSeries(read[k]) /\ read[k].series = read[i].series
      BY DEF OfSeries
    <3>2. read[k] \in Artifact
      OBVIOUS
    <3>3. ~IsOfRun(read[k]) /\ test_step_id(read[k]) = s
      BY <2>2, <3>1, <3>2, Belongs DEF test_step_id
    <3> QED
      BY <3>3
  <2>4. OfSeries(read[i].series, read) \subseteq DOMAIN read
    BY DEF OfSeries
  <2> QED
    BY <2>3, <2>4, UptoSame
<1>5. /\ step.test_step_id = s
      /\ Collects(step.own, Upto(OwnOf(s, read), k - 1), read)
      /\ Len(step.measurement_series) = Cardinality(before)
      /\ \A i \in before :
           /\ map[read[i].series] = Rank(before, i)
           /\ Collects(step.measurement_series[map[read[i].series]],
                       Upto(OfSeries(read[i].series, read), k - 1), read)
  BY DEF StepSorted
<1>6. StepSorted(map, step, s, read, k, k) <=>
        /\ step.test_step_id = s
        /\ Collects(step.own, Upto(OwnOf(s, read), k), read)
        /\ Len(step.measurement_series) = Cardinality(firsts)
        /\ \A i \in firsts :
             /\ map[read[i].series] = Rank(firsts, i)
             /\ Collects(step.measurement_series[map[read[i].series]],
                         Upto(OfSeries(read[i].series, read), k), read)
  BY DEF StepSorted
<1> HIDE DEF before, firsts
<1> QED
  BY <1>2, <1>3, <1>4, <1>5, <1>6

----------------------------------------------------------------------------
(* One artifact, handled in a sorted model.                                *)

\* An artifact of the run.
LEMMA RunHandled ==
  ASSUME NEW read \in Seq(Artifact), NEW k \in DOMAIN read, NEW b,
         Sorted(b, read, k - 1, k - 1, k - 1), IsOfRun(read[k]), NEW c,
         c = [b EXCEPT !.model.run = Store(@, read[k])]
  PROVE  Sorted(c, read, k, k, k)
<1> DEFINE before == Upto(StepFirsts(read), k - 1)
           firsts == Upto(StepFirsts(read), k)
<1>1. /\ b \in Reader /\ b.undefined = FALSE
      /\ Collects(b.model.run, Upto(OfRun(read), k - 1), read)
      /\ DOMAIN b.stepIdx =
           {test_step_id(read[i]) : i \in {j \in DOMAIN read : ~IsOfRun(read[j]) /\ j <= k - 1}}
      /\ DOMAIN b.seriesIdx =
           {read[i].series : i \in {j \in DOMAIN read : IsOfSeries(read[j]) /\ j <= k - 1}}
      /\ Len(b.model.test_steps) = Cardinality(before)
      /\ \A i \in before :
           /\ b.stepIdx[test_step_id(read[i])] = Rank(before, i)
           /\ StepSorted(b.seriesIdx,
                         b.model.test_steps[b.stepIdx[test_step_id(read[i])]],
                         test_step_id(read[i]), read, k - 1, k - 1)
  BY DEF Sorted, StepIds, SeriesIds
<1>2. read[k] \in Artifact /\ ~IsOfSeries(read[k]) /\ k \in Nat /\ DOMAIN read \subseteq Nat
  <2>1. read[k] \in Artifact /\ DOMAIN read \subseteq Nat
    OBVIOUS
  <2> QED
    BY <2>1, Belongs
<1>3. /\ c \in Reader /\ c.model.run = Store(b.model.run, read[k])
      /\ c.model.test_steps = b.model.test_steps
      /\ c.stepIdx = b.stepIdx /\ c.seriesIdx = b.seriesIdx /\ c.undefined = b.undefined
  <2>1. RunStoredIn(b, read[k], c)
    BY <1>1, <1>2, RunStored
  <2> QED
    BY <2>1, Zenon DEF RunStoredIn
<1>4. Collects(c.model.run, Upto(OfRun(read), k), read)
  <2>1. OfRun(read) \subseteq DOMAIN read /\ k \in OfRun(read)
    BY DEF OfRun
  <2>2. /\ Upto(OfRun(read), k) = Upto(OfRun(read), k - 1) \cup {k}
        /\ Upto(OfRun(read), k - 1) \subseteq DOMAIN read
        /\ \A j \in Upto(OfRun(read), k - 1) : j < k
    BY <2>1, UptoMore
  <2>3. b.model.run \in Object
    BY <1>1, ReaderParts
  <2>4. Collects(Store(b.model.run, read[k]), Upto(OfRun(read), k - 1) \cup {k}, read)
    BY <1>1, <2>2, <2>3, CollectsOne
  <2> QED
    BY <1>3, <2>2, <2>4
<1>5. {j \in DOMAIN read : ~IsOfRun(read[j]) /\ j <= k - 1} =
        {j \in DOMAIN read : ~IsOfRun(read[j]) /\ j <= k}
  BY <1>2
<1>6. {j \in DOMAIN read : IsOfSeries(read[j]) /\ j <= k - 1} =
        {j \in DOMAIN read : IsOfSeries(read[j]) /\ j <= k}
  BY <1>2
<1>7. firsts = before
  <2>1. StepFirsts(read) \subseteq DOMAIN read /\ k \notin StepFirsts(read)
    BY DEF StepFirsts
  <2> QED
    BY <2>1, UptoSame
<1>8. ASSUME NEW i \in before
      PROVE  StepSorted(b.seriesIdx, b.model.test_steps[b.stepIdx[test_step_id(read[i])]],
                        test_step_id(read[i]), read, k, k)
  <2>1. StepSorted(b.seriesIdx, b.model.test_steps[b.stepIdx[test_step_id(read[i])]],
                   test_step_id(read[i]), read, k - 1, k - 1)
    BY <1>1, <1>8
  <2>2. k - 1 \in {k - 1, k}
    OBVIOUS
  <2> QED
    BY <2>1, <2>2, StepKept
<1> HIDE DEF before
<1>9. /\ c \in Reader /\ c.undefined = FALSE
      /\ DOMAIN c.stepIdx =
           {test_step_id(read[i]) : i \in {j \in DOMAIN read : ~IsOfRun(read[j]) /\ j <= k}}
      /\ DOMAIN c.seriesIdx =
           {read[i].series : i \in {j \in DOMAIN read : IsOfSeries(read[j]) /\ j <= k}}
      /\ Len(c.model.test_steps) = Cardinality(before)
      /\ \A i \in before :
           /\ c.stepIdx[test_step_id(read[i])] = Rank(before, i)
           /\ StepSorted(c.seriesIdx,
                         c.model.test_steps[c.stepIdx[test_step_id(read[i])]],
                         test_step_id(read[i]), read, k, k)
  BY <1>1, <1>3, <1>5, <1>6, <1>8
<1> QED
  BY <1>4, <1>7, <1>9 DEF Sorted, StepIds, SeriesIds

\* GetTestStepIdx finds the step, or adds it where it is first seen.
LEMMA StepFound ==
  ASSUME NEW read \in Seq(Artifact), NEW k \in DOMAIN read, NEW b,
         Sorted(b, read, k - 1, k - 1, k - 1), ~IsOfRun(read[k]), NEW s,
         s = test_step_id(read[k]), NEW c, c = GetTestStepIdx(b, s)
  PROVE  Sorted(c, read, k, k - 1, k - 1) /\ s \in DOMAIN c.stepIdx
<1> DEFINE before == Upto(StepFirsts(read), k - 1)
           firsts == Upto(StepFirsts(read), k)
           ids(n) == {test_step_id(read[i]) :
                        i \in {j \in DOMAIN read : ~IsOfRun(read[j]) /\ j <= n}}
<1>1. /\ b \in Reader /\ b.undefined = FALSE
      /\ Collects(b.model.run, Upto(OfRun(read), k - 1), read)
      /\ DOMAIN b.stepIdx = ids(k - 1)
      /\ DOMAIN b.seriesIdx =
           {read[i].series : i \in {j \in DOMAIN read : IsOfSeries(read[j]) /\ j <= k - 1}}
      /\ Len(b.model.test_steps) = Cardinality(before)
      /\ \A i \in before :
           /\ b.stepIdx[test_step_id(read[i])] = Rank(before, i)
           /\ StepSorted(b.seriesIdx,
                         b.model.test_steps[b.stepIdx[test_step_id(read[i])]],
                         test_step_id(read[i]), read, k - 1, k - 1)
  BY DEF Sorted, StepIds, SeriesIds
<1>2. /\ read[k] \in Artifact /\ k \in Nat /\ k - 1 \in Nat
      /\ DOMAIN read = 1..Len(read) /\ Len(read) \in Nat
  OBVIOUS
<1>3. s \in Steps
  BY <1>2, Belongs
<1>4. ids(k) = ids(k - 1) \cup {s}
  <2>1. {j \in DOMAIN read : ~IsOfRun(read[j]) /\ j <= k} =
          {j \in DOMAIN read : ~IsOfRun(read[j]) /\ j <= k - 1} \cup {k}
    BY <1>2
  <2> QED
    BY <2>1
<1>5. CASE s \in DOMAIN b.stepIdx
  <2>1. c = b
    BY <1>5 DEF GetTestStepIdx, Mapped
  <2>2. k \notin StepFirsts(read)
    <3>1. PICK j \in DOMAIN read : ~IsOfRun(read[j]) /\ j <= k - 1 /\ test_step_id(read[j]) = s
      BY <1>1, <1>5
    <3>2. j \in OfStep(test_step_id(read[k]), read) /\ ~(k <= j)
      BY <1>2, <3>1 DEF OfStep
    <3> QED
      BY <3>2 DEF StepFirsts
  <2>3. firsts = before
    <3>1. StepFirsts(read) \subseteq DOMAIN read
      BY DEF StepFirsts
    <3> QED
      BY <2>2, <3>1, UptoSame
  <2>4. ids(k) = ids(k - 1)
    BY <1>1, <1>4, <1>5
  <2> HIDE DEF ids, before, firsts
  <2>5. Sorted(c, read, k, k - 1, k - 1) <=>
          /\ c \in Reader /\ c.undefined = FALSE
          /\ Collects(c.model.run, Upto(OfRun(read), k - 1), read)
          /\ DOMAIN c.stepIdx = ids(k)
          /\ DOMAIN c.seriesIdx =
               {read[i].series : i \in {j \in DOMAIN read : IsOfSeries(read[j]) /\ j <= k - 1}}
          /\ Len(c.model.test_steps) = Cardinality(firsts)
          /\ \A i \in firsts :
               /\ c.stepIdx[test_step_id(read[i])] = Rank(firsts, i)
               /\ StepSorted(c.seriesIdx,
                             c.model.test_steps[c.stepIdx[test_step_id(read[i])]],
                             test_step_id(read[i]), read, k - 1, k - 1)
    BY DEF Sorted, StepIds, SeriesIds, ids, firsts
  <2> QED
    BY <1>1, <1>5, <2>1, <2>3, <2>4, <2>5
<1>6. CASE s \notin DOMAIN b.stepIdx
  <2>0. PICK n \in Nat : n = Len(b.model.test_steps)
    BY <1>1, ReaderParts
  <2>1. /\ c \in Reader /\ c.model.run = b.model.run
        /\ c.model.test_steps = Append(b.model.test_steps, EmptyStep(s))
        /\ c.stepIdx = WithKey(b.stepIdx, s, n + 1)
        /\ c.seriesIdx = b.seriesIdx /\ c.undefined = b.undefined
    <3>1. ~Mapped(b.stepIdx, s)
      BY <1>6, Zenon DEF Mapped
    <3>2. StepAddedTo(b, s, c)
      BY <1>1, <1>3, <3>1, NewStep
    <3> QED
      BY <2>0, <3>2, Zenon DEF StepAddedTo
  <2>2. \A j \in OfStep(s, read) : k <= j
    <3> SUFFICES ASSUME NEW j \in OfStep(s, read), ~(k <= j) PROVE FALSE
      OBVIOUS
    <3>1. j \in DOMAIN read /\ ~IsOfRun(read[j]) /\ test_step_id(read[j]) = s /\ j <= k - 1
      BY <1>2 DEF OfStep
    <3> QED
      BY <1>1, <1>6, <3>1
  <2>3. k \in StepFirsts(read)
    BY <2>2 DEF StepFirsts
  <2>4. /\ firsts = before \cup {k} /\ before \subseteq Nat /\ IsFiniteSet(before)
        /\ \A j \in before : j < k
    <3>1. StepFirsts(read) \subseteq DOMAIN read
      BY DEF StepFirsts
    <3> QED
      BY <2>3, <3>1, UptoNext
  <2>5. /\ Cardinality(firsts) = Cardinality(before) + 1
        /\ Rank(firsts, k) = Cardinality(before) + 1
        /\ \A j \in before : Rank(firsts, j) = Rank(before, j)
    <3> HIDE DEF before, firsts
    <3> QED
      BY <1>2, <2>4, RankGrows
  <2>6. /\ DOMAIN c.stepIdx = DOMAIN b.stepIdx \cup {s} /\ c.stepIdx[s] = n + 1
        /\ \A i \in DOMAIN b.stepIdx : i # s => c.stepIdx[i] = b.stepIdx[i]
    <3>1. PICK map, idx : map = b.stepIdx /\ idx = n + 1
      OBVIOUS
    <3>2. /\ DOMAIN WithKey(map, s, idx) = DOMAIN map \cup {s}
          /\ WithKey(map, s, idx)[s] = idx
          /\ \A i \in DOMAIN map : i # s => WithKey(map, s, idx)[i] = map[i]
      BY DEF WithKey
    <3>3. c.stepIdx = WithKey(map, s, idx)
      BY <2>1, <3>1
    <3> QED
      BY <3>1, <3>2, <3>3, Zenon
  <2>7. /\ Len(c.model.test_steps) = n + 1 /\ c.model.test_steps[n + 1] = EmptyStep(s)
        /\ \A i \in 1..n : c.model.test_steps[i] = b.model.test_steps[i]
    <3>1. EmptyStep(s) \in StepModel
      BY <1>3, CollectsNone, EmptySeq DEF EmptyStep, StepModel
    <3>2. b.model.test_steps \in Seq(StepModel)
      BY <1>1, ReaderParts
    <3> QED
      BY <2>0, <2>1, <3>1, <3>2, AppendProperties
  <2>8. StepSorted(c.seriesIdx, EmptyStep(s), s, read, k - 1, k - 1)
    <3>1. Upto(OwnOf(s, read), k - 1) = {}
      BY <1>2, <2>2 DEF Upto, OwnOf, OfStep
    <3>2. Upto(SeriesFirsts(s, read), k - 1) = {}
      BY <1>2, <2>2 DEF Upto, SeriesFirsts, OfStep
    <3>3. Collects(EmptyObject, {}, read) /\ Cardinality({}) = 0 /\ Len(<<>>) = 0
      BY CollectsNone, FS_EmptySet
    <3> QED
      BY <3>1, <3>2, <3>3 DEF StepSorted, EmptyStep
  <2>9. ASSUME NEW i \in firsts
        PROVE  /\ c.stepIdx[test_step_id(read[i])] = Rank(firsts, i)
               /\ StepSorted(c.seriesIdx,
                             c.model.test_steps[c.stepIdx[test_step_id(read[i])]],
                             test_step_id(read[i]), read, k - 1, k - 1)
    <3>1. CASE i = k
      BY <1>1, <2>0, <2>5, <2>6, <2>7, <2>8, <3>1
    <3>2. CASE i \in before
      <4>1. i \in DOMAIN read /\ ~IsOfRun(read[i]) /\ i <= k - 1
        BY <3>2 DEF Upto, StepFirsts
      <4>2. PICK t : t = test_step_id(read[i])
        OBVIOUS
      <4>3. t \in DOMAIN b.stepIdx /\ t # s
        BY <1>1, <1>6, <4>1, <4>2
      <4>4. b.stepIdx[t] \in DOMAIN b.model.test_steps
        BY <1>2, <4>3, StepAt
      <4>5. b.stepIdx[t] \in 1..n
        <5>1. b.model.test_steps \in Seq(StepModel)
          BY <1>1, ReaderParts
        <5>2. DOMAIN b.model.test_steps = 1..Len(b.model.test_steps)
          BY <5>1
        <5> QED
          BY <2>0, <4>4, <5>2
      <4>6. c.stepIdx[t] = b.stepIdx[t]
            /\ c.model.test_steps[b.stepIdx[t]] = b.model.test_steps[b.stepIdx[t]]
        BY <2>6, <2>7, <4>3, <4>5
      <4>7. b.stepIdx[t] = Rank(before, i)
            /\ StepSorted(b.seriesIdx, b.model.test_steps[b.stepIdx[t]], t, read, k - 1, k - 1)
        BY <1>1, <3>2, <4>2
      <4>8. Rank(firsts, i) = Rank(before, i)
        BY <2>5, <3>2
      <4> QED
        BY <2>1, <4>2, <4>6, <4>7, <4>8
    <3> QED
      BY <2>4, <3>1, <3>2
  <2>10. Sorted(c, read, k, k - 1, k - 1) <=>
          /\ c \in Reader /\ c.undefined = FALSE
          /\ Collects(c.model.run, Upto(OfRun(read), k - 1), read)
          /\ DOMAIN c.stepIdx = ids(k)
          /\ DOMAIN c.seriesIdx =
               {read[i].series : i \in {j \in DOMAIN read : IsOfSeries(read[j]) /\ j <= k - 1}}
          /\ Len(c.model.test_steps) = Cardinality(firsts)
          /\ \A i \in firsts :
               /\ c.stepIdx[test_step_id(read[i])] = Rank(firsts, i)
               /\ StepSorted(c.seriesIdx,
                             c.model.test_steps[c.stepIdx[test_step_id(read[i])]],
                             test_step_id(read[i]), read, k - 1, k - 1)
    BY DEF Sorted, StepIds, SeriesIds
  <2> HIDE DEF ids, before, firsts
  <2>11. DOMAIN c.stepIdx = ids(k) /\ Len(c.model.test_steps) = Cardinality(firsts)
    BY <1>1, <1>4, <2>0, <2>5, <2>6, <2>7
  <2> QED
    BY <1>1, <2>1, <2>6, <2>9, <2>10, <2>11
<1> QED
  BY <1>5, <1>6

\* What keeps a model sorted, when no step is added.
StillSorted(b, c, read, h, l) ==
  /\ c \in Reader /\ c.undefined = FALSE
  /\ Collects(c.model.run, Upto(OfRun(read), l), read)
  /\ c.stepIdx = b.stepIdx /\ DOMAIN c.seriesIdx = SeriesIds(read, h)
  /\ Len(c.model.test_steps) = Len(b.model.test_steps)
  /\ \A s \in DOMAIN b.stepIdx :
       StepSorted(c.seriesIdx, c.model.test_steps[b.stepIdx[s]], s, read, h, l)

LEMMA SortedAgain ==
  ASSUME NEW read, NEW f, NEW g, NEW k, NEW b, Sorted(b, read, f, g, k),
         NEW h, NEW l, NEW c, StillSorted(b, c, read, h, l)
  PROVE  Sorted(c, read, f, h, l)
<1> DEFINE firsts == Upto(StepFirsts(read), f)
<1>1. /\ DOMAIN b.stepIdx = StepIds(read, f)
      /\ Len(b.model.test_steps) = Cardinality(firsts)
      /\ \A i \in firsts : b.stepIdx[test_step_id(read[i])] = Rank(firsts, i)
  BY DEF Sorted
<1>2. \A i \in firsts : i \in DOMAIN read /\ ~IsOfRun(read[i]) /\ i <= f
  BY DEF Upto, StepFirsts
<1>3. \A i \in firsts : test_step_id(read[i]) \in DOMAIN b.stepIdx
  BY <1>1, <1>2 DEF StepIds
<1> HIDE DEF firsts
<1>4. \A i \in firsts :
        /\ c.stepIdx[test_step_id(read[i])] = Rank(firsts, i)
        /\ StepSorted(c.seriesIdx, c.model.test_steps[c.stepIdx[test_step_id(read[i])]],
                      test_step_id(read[i]), read, h, l)
  BY <1>1, <1>3 DEF StillSorted
<1>5. DOMAIN c.stepIdx = StepIds(read, f) /\ Len(c.model.test_steps) = Cardinality(firsts)
  BY <1>1 DEF StillSorted
<1> QED
  BY <1>4, <1>5 DEF Sorted, StillSorted, firsts

\* The model with another step at place p.
StepReplaced(b, p, new, c) ==
  /\ c.model.test_steps[p] = new /\ Len(c.model.test_steps) = Len(b.model.test_steps)
  /\ \A i \in DOMAIN b.model.test_steps :
       i # p => c.model.test_steps[i] = b.model.test_steps[i]

LEMMA ReplacedStep ==
  ASSUME NEW b \in Reader, NEW p \in DOMAIN b.model.test_steps, NEW new, NEW c,
         c.model.test_steps = [b.model.test_steps EXCEPT ![p] = new]
  PROVE  StepReplaced(b, p, new, c)
<1>1. PICK list \in Seq(StepModel) : list = b.model.test_steps
  BY ReaderParts
<1>2. c.model.test_steps = [list EXCEPT ![p] = new] /\ p \in DOMAIN list
  BY <1>1
<1>3. /\ [list EXCEPT ![p] = new][p] = new /\ Len([list EXCEPT ![p] = new]) = Len(list)
      /\ \A i \in DOMAIN list : i # p => [list EXCEPT ![p] = new][i] = list[i]
  BY <1>2
<1> QED
  BY <1>1, <1>2, <1>3 DEF StepReplaced

\* The run stays as it is when the next artifact is not of it.
LEMMA OutsideRun ==
  ASSUME NEW read \in Seq(Artifact), NEW k \in DOMAIN read, ~IsOfRun(read[k])
  PROVE  Upto(OfRun(read), k) = Upto(OfRun(read), k - 1)
<1>1. OfRun(read) \subseteq DOMAIN read /\ k \notin OfRun(read)
  BY DEF OfRun
<1> QED
  BY <1>1, UptoSame

\* Two maps agree about the series of a step first seen before place k.
Agree(new, map, s, read, k) ==
  \A i \in Upto(SeriesFirsts(s, read), k - 1) : new[read[i].series] = map[read[i].series]

\* A step stays sorted when the next artifact is the first of no series of it.
LEMMA StepMapKept ==
  ASSUME NEW read \in Seq(Artifact), NEW k \in DOMAIN read, NEW map, NEW step, NEW s,
         NEW l, StepSorted(map, step, s, read, k - 1, l), k \notin SeriesFirsts(s, read),
         NEW new, Agree(new, map, s, read, k)
  PROVE  StepSorted(new, step, s, read, k, l)
<1> DEFINE before == Upto(SeriesFirsts(s, read), k - 1)
           firsts == Upto(SeriesFirsts(s, read), k)
<1>1. firsts = before
  <2>1. SeriesFirsts(s, read) \subseteq DOMAIN read
    BY DEF SeriesFirsts, OfStep
  <2> QED
    BY <2>1, UptoSame
<1>2. /\ step.test_step_id = s
      /\ Collects(step.own, Upto(OwnOf(s, read), l), read)
      /\ Len(step.measurement_series) = Cardinality(before)
      /\ \A i \in before :
           /\ map[read[i].series] = Rank(before, i)
           /\ Collects(step.measurement_series[map[read[i].series]],
                       Upto(OfSeries(read[i].series, read), l), read)
  BY DEF StepSorted
<1>3. StepSorted(new, step, s, read, k, l) <=>
        /\ step.test_step_id = s
        /\ Collects(step.own, Upto(OwnOf(s, read), l), read)
        /\ Len(step.measurement_series) = Cardinality(firsts)
        /\ \A i \in firsts :
             /\ new[read[i].series] = Rank(firsts, i)
             /\ Collects(step.measurement_series[new[read[i].series]],
                         Upto(OfSeries(read[i].series, read), l), read)
  BY DEF StepSorted
<1>4. \A i \in before : new[read[i].series] = map[read[i].series]
  BY DEF Agree
<1> HIDE DEF before, firsts
<1> QED
  BY <1>1, <1>2, <1>3, <1>4

\* A step with one series more.
LEMMA SeriesAdded ==
  ASSUME NEW read \in Seq(Artifact), NEW k \in DOMAIN read, NEW map, NEW s,
         NEW step \in StepModel, StepSorted(map, step, s, read, k - 1, k - 1),
         k \in SeriesFirsts(s, read), NEW new, Agree(new, map, s, read, k),
         new[read[k].series] = Len(step.measurement_series) + 1, NEW added,
         added = [test_step_id |-> step.test_step_id, own |-> step.own,
                  measurement_series |-> Append(step.measurement_series, EmptyObject)]
  PROVE  StepSorted(new, added, s, read, k, k - 1)
<1> DEFINE before == Upto(SeriesFirsts(s, read), k - 1)
           firsts == Upto(SeriesFirsts(s, read), k)
           list == Append(step.measurement_series, EmptyObject)
<1>1. /\ firsts = before \cup {k} /\ before \subseteq Nat /\ IsFiniteSet(before)
      /\ \A j \in before : j < k
  <2>1. SeriesFirsts(s, read) \subseteq DOMAIN read
    BY DEF SeriesFirsts, OfStep
  <2> QED
    BY <2>1, UptoNext
<1>2. /\ step.test_step_id = s
      /\ Collects(step.own, Upto(OwnOf(s, read), k - 1), read)
      /\ Len(step.measurement_series) = Cardinality(before)
      /\ \A i \in before :
           /\ map[read[i].series] = Rank(before, i)
           /\ Collects(step.measurement_series[map[read[i].series]],
                       Upto(OfSeries(read[i].series, read), k - 1), read)
  BY DEF StepSorted
<1>3. PICK n \in Nat : n = Len(step.measurement_series)
  BY DEF StepModel
<1>4. /\ Len(list) = n + 1 /\ list[n + 1] = EmptyObject
      /\ \A i \in 1..n : list[i] = step.measurement_series[i]
  <2>1. step.measurement_series \in Seq(Object)
    BY DEF StepModel
  <2>2. EmptyObject \in Object
    BY CollectsNone
  <2> QED
    BY <1>3, <2>1, <2>2, AppendProperties
<1>5. Upto(OfSeries(read[k].series, read), k - 1) = {}
  <2> SUFFICES ASSUME NEW j \in Upto(OfSeries(read[k].series, read), k - 1) PROVE FALSE
    OBVIOUS
  <2>1. k <= j /\ j <= k - 1 /\ j \in Nat /\ k \in Nat
    BY DEF Upto, OfSeries, SeriesFirsts
  <2> QED
    BY <2>1
<1>6. /\ new[read[k].series] = n + 1
      /\ \A i \in before : new[read[i].series] = map[read[i].series]
  BY <1>3 DEF Agree
<1> HIDE DEF before, firsts, list
<1>7. /\ Cardinality(firsts) = Cardinality(before) + 1
      /\ Rank(firsts, k) = Cardinality(before) + 1
      /\ \A j \in before : Rank(firsts, j) = Rank(before, j)
  <2>1. k \in Nat
    OBVIOUS
  <2> QED
    BY <1>1, <2>1, RankGrows
<1>8. \A j \in before : Rank(before, j) \in 1..n
  <2>1. \A j \in before : Rank(before, j) \in Nat /\ 1 <= Rank(before, j)
                          /\ Rank(before, j) <= Cardinality(before)
    BY <1>1, RankIs
  <2> QED
    BY <1>2, <1>3, <2>1
<1>9. ASSUME NEW i \in firsts
      PROVE  /\ new[read[i].series] = Rank(firsts, i)
             /\ Collects(list[new[read[i].series]],
                         Upto(OfSeries(read[i].series, read), k - 1), read)
  <2>1. CASE i = k
    <3>1. Collects(EmptyObject, {}, read)
      BY CollectsNone
    <3> QED
      BY <1>2, <1>3, <1>4, <1>5, <1>6, <1>7, <2>1, <3>1
  <2>2. CASE i \in before
    <3>1. new[read[i].series] = Rank(before, i)
      BY <1>2, <1>6, <2>2
    <3>2. list[Rank(before, i)] = step.measurement_series[Rank(before, i)]
      BY <1>4, <1>8, <2>2
    <3> QED
      BY <1>2, <1>7, <2>2, <3>1, <3>2
  <2> QED
    BY <1>1, <2>1, <2>2
<1>10. added = [test_step_id |-> step.test_step_id, own |-> step.own,
                measurement_series |-> list]
  BY DEF list
<1>11. /\ added.test_step_id = step.test_step_id /\ added.own = step.own
       /\ added.measurement_series = list
  BY <1>10
<1>12. StepSorted(new, added, s, read, k, k - 1) <=>
        /\ added.test_step_id = s
        /\ Collects(added.own, Upto(OwnOf(s, read), k - 1), read)
        /\ Len(added.measurement_series) = Cardinality(firsts)
        /\ \A i \in firsts :
             /\ new[read[i].series] = Rank(firsts, i)
             /\ Collects(added.measurement_series[new[read[i].series]],
                         Upto(OfSeries(read[i].series, read), k - 1), read)
  BY DEF StepSorted, firsts
<1> QED
  BY <1>2, <1>3, <1>4, <1>7, <1>9, <1>11, <1>12

\* GetMeasurementSeriesIdx finds the series, or adds it where it is first seen.
LEMMA SeriesFound ==
  ASSUME NEW read \in Seq(Artifact), NEW k \in DOMAIN read, NEW b,
         Sorted(b, read, k, k - 1, k - 1), IsOfSeries(read[k]), NEW m,
         m = read[k].series, StepOf[m] \in DOMAIN b.stepIdx, NEW p,
         p = b.stepIdx[StepOf[m]], NEW c, c = GetMeasurementSeriesIdx(b, m, p)
  PROVE  Sorted(c, read, k, k, k - 1) /\ c.stepIdx = b.stepIdx
<1>1. /\ b \in Reader /\ b.undefined = FALSE
      /\ Collects(b.model.run, Upto(OfRun(read), k - 1), read)
      /\ DOMAIN b.seriesIdx = SeriesIds(read, k - 1)
  BY DEF Sorted
<1>2. /\ read[k] \in Artifact /\ k \in Nat /\ k - 1 \in Nat
      /\ DOMAIN read = 1..Len(read) /\ Len(read) \in Nat
  OBVIOUS
<1>3. m \in Series /\ ~IsOfRun(read[k]) /\ test_step_id(read[k]) = StepOf[m]
  BY <1>2, Belongs DEF test_step_id
<1>4. SeriesIds(read, k) = SeriesIds(read, k - 1) \cup {m}
  <2>1. {j \in DOMAIN read : IsOfSeries(read[j]) /\ j <= k} =
          {j \in DOMAIN read : IsOfSeries(read[j]) /\ j <= k - 1} \cup {k}
    BY <1>2
  <2> QED
    BY <2>1 DEF SeriesIds
<1>5. ASSUME NEW t \in DOMAIN b.stepIdx
      PROVE  /\ b.stepIdx[t] \in DOMAIN b.model.test_steps
             /\ StepSorted(b.seriesIdx, b.model.test_steps[b.stepIdx[t]], t, read, k - 1, k - 1)
  BY <1>2, StepAt
<1>6. ASSUME NEW t, NEW i \in Upto(SeriesFirsts(t, read), k - 1)
      PROVE  read[i].series \in DOMAIN b.seriesIdx
  <2>1. i \in DOMAIN read /\ IsOfSeries(read[i]) /\ i <= k - 1
    BY DEF Upto, SeriesFirsts, OfStep
  <2> QED
    BY <1>1, <2>1 DEF SeriesIds
<1>7. CASE m \in DOMAIN b.seriesIdx
  <2>1. c = b
    BY <1>7 DEF GetMeasurementSeriesIdx, Mapped
  <2>2. PICK j \in DOMAIN read : IsOfSeries(read[j]) /\ j <= k - 1 /\ read[j].series = m
    BY <1>1, <1>7 DEF SeriesIds
  <2>3. j \in OfSeries(m, read) /\ ~(k <= j)
    BY <1>2, <2>2 DEF OfSeries
  <2>4. \A t : k \notin SeriesFirsts(t, read)
    BY <2>3 DEF SeriesFirsts
  <2>5. ASSUME NEW t \in DOMAIN b.stepIdx
        PROVE  StepSorted(c.seriesIdx, c.model.test_steps[b.stepIdx[t]], t, read, k, k - 1)
    <3>1. StepSorted(b.seriesIdx, b.model.test_steps[b.stepIdx[t]], t, read, k - 1, k - 1)
      BY <1>5
    <3>2. Agree(c.seriesIdx, b.seriesIdx, t, read, k)
      BY <2>1 DEF Agree
    <3>3. StepSorted(c.seriesIdx, b.model.test_steps[b.stepIdx[t]], t, read, k, k - 1)
      BY <2>4, <3>1, <3>2, StepMapKept
    <3> QED
      BY <2>1, <3>3
  <2>6. DOMAIN c.seriesIdx = SeriesIds(read, k)
    BY <1>1, <1>4, <1>7, <2>1
  <2>7. /\ c \in Reader /\ c.undefined = FALSE
        /\ Collects(c.model.run, Upto(OfRun(read), k - 1), read)
        /\ c.stepIdx = b.stepIdx /\ Len(c.model.test_steps) = Len(b.model.test_steps)
    BY <1>1, <2>1
  <2>8. StillSorted(b, c, read, k, k - 1)
    BY <2>5, <2>6, <2>7 DEF StillSorted
  <2>9. Sorted(c, read, k, k, k - 1)
    BY <2>8, SortedAgain
  <2> QED
    BY <2>7, <2>9
<1>8. CASE m \notin DOMAIN b.seriesIdx
  <2>1. p \in DOMAIN b.model.test_steps
        /\ StepSorted(b.seriesIdx, b.model.test_steps[p], StepOf[m], read, k - 1, k - 1)
    BY <1>5
  <2>2. PICK step \in StepModel : step = b.model.test_steps[p]
    BY <1>1, <2>1, StepParts
  <2>3. PICK new :
          new = [test_step_id |-> step.test_step_id, own |-> step.own,
                 measurement_series |-> Append(step.measurement_series, EmptyObject)]
    OBVIOUS
  <2>4. /\ c \in Reader /\ c.model.run = b.model.run
        /\ c.model.test_steps = [b.model.test_steps EXCEPT ![p] = new]
        /\ c.stepIdx = b.stepIdx
        /\ c.seriesIdx = WithKey(b.seriesIdx, m, Len(step.measurement_series) + 1)
        /\ c.undefined = b.undefined
    <3>1. /\ c \in Reader /\ c.model.run = b.model.run
          /\ c.model.test_steps =
               [b.model.test_steps EXCEPT ![p] =
                  [test_step_id |-> step.test_step_id, own |-> step.own,
                   measurement_series |-> Append(step.measurement_series, EmptyObject)]]
          /\ c.stepIdx = b.stepIdx
          /\ c.seriesIdx = WithKey(b.seriesIdx, m, Len(step.measurement_series) + 1)
          /\ c.undefined = b.undefined
      <4>1. ~Mapped(b.seriesIdx, m)
        BY <1>8 DEF Mapped
      <4>2. b \in Reader /\ m \in Series /\ p \in DOMAIN b.model.test_steps
        BY <1>1, <1>3, <2>1
      <4>3. SeriesAddedTo(b, m, p, step, c)
        BY <2>2, <4>1, <4>2, NewSeries
      <4> QED
        BY <4>3, Zenon DEF SeriesAddedTo
    <3> QED
      BY <2>3, <3>1, Zenon
  <2>5. /\ DOMAIN c.seriesIdx = DOMAIN b.seriesIdx \cup {m}
        /\ c.seriesIdx[m] = Len(step.measurement_series) + 1
        /\ \A i \in DOMAIN b.seriesIdx : i # m => c.seriesIdx[i] = b.seriesIdx[i]
    <3>1. PICK map, idx : map = b.seriesIdx /\ idx = Len(step.measurement_series) + 1
      OBVIOUS
    <3>2. /\ DOMAIN WithKey(map, m, idx) = DOMAIN map \cup {m}
          /\ WithKey(map, m, idx)[m] = idx
          /\ \A i \in DOMAIN map : i # m => WithKey(map, m, idx)[i] = map[i]
      BY DEF WithKey
    <3>3. c.seriesIdx = WithKey(map, m, idx)
      BY <2>4, <3>1
    <3> QED
      BY <3>1, <3>2, <3>3, Zenon
  <2>7. /\ c.model.test_steps[p] = new /\ Len(c.model.test_steps) = Len(b.model.test_steps)
        /\ \A i \in DOMAIN b.model.test_steps :
             i # p => c.model.test_steps[i] = b.model.test_steps[i]
    <3>1. b \in Reader /\ p \in DOMAIN b.model.test_steps
      BY <1>1, <2>1
    <3>2. c.model.test_steps = [b.model.test_steps EXCEPT ![p] = new]
      BY <2>4
    <3>3. StepReplaced(b, p, new, c)
      BY <3>1, <3>2, ReplacedStep
    <3> QED
      BY <3>3, Zenon DEF StepReplaced
  <2>8. \A j \in OfSeries(m, read) : k <= j
    <3> SUFFICES ASSUME NEW j \in OfSeries(m, read), ~(k <= j) PROVE FALSE
      OBVIOUS
    <3>1. j \in DOMAIN read /\ IsOfSeries(read[j]) /\ read[j].series = m /\ j <= k - 1
      BY <1>2 DEF OfSeries
    <3> QED
      BY <1>1, <1>8, <3>1 DEF SeriesIds
  <2>9. k \in SeriesFirsts(StepOf[m], read)
    BY <1>3, <2>8 DEF SeriesFirsts, OfStep
  <2>10. ASSUME NEW t PROVE Agree(c.seriesIdx, b.seriesIdx, t, read, k)
    <3> SUFFICES ASSUME NEW i \in Upto(SeriesFirsts(t, read), k - 1)
                 PROVE  c.seriesIdx[read[i].series] = b.seriesIdx[read[i].series]
      BY DEF Agree
    <3>1. read[i].series \in DOMAIN b.seriesIdx
      BY <1>6
    <3> QED
      BY <1>8, <2>5, <3>1
  <2>11. ASSUME NEW t \in DOMAIN b.stepIdx
         PROVE  StepSorted(c.seriesIdx, c.model.test_steps[b.stepIdx[t]], t, read, k, k - 1)
    <3>1. CASE t = StepOf[m]
      <4>1. StepSorted(b.seriesIdx, step, t, read, k - 1, k - 1)
        BY <2>1, <2>2, <3>1
      <4>2. StepSorted(c.seriesIdx, new, t, read, k, k - 1)
        <5>1. k \in SeriesFirsts(t, read)
              /\ c.seriesIdx[read[k].series] = Len(step.measurement_series) + 1
          BY <2>5, <2>9, <3>1
        <5>2. Agree(c.seriesIdx, b.seriesIdx, t, read, k)
          BY <2>10
        <5> QED
          BY <2>3, <4>1, <5>1, <5>2, SeriesAdded
      <4> QED
        BY <2>7, <3>1, <4>2
    <3>2. CASE t # StepOf[m]
      <4>1. b.stepIdx[t] # p
        BY <1>2, <3>2, StepsDiffer
      <4>2. k \notin SeriesFirsts(t, read)
        BY <1>3, <3>2 DEF SeriesFirsts, OfStep
      <4>3. /\ c.model.test_steps[b.stepIdx[t]] = b.model.test_steps[b.stepIdx[t]]
            /\ StepSorted(b.seriesIdx, b.model.test_steps[b.stepIdx[t]], t, read, k - 1, k - 1)
        BY <1>5, <2>7, <4>1
      <4>4. StepSorted(c.seriesIdx, b.model.test_steps[b.stepIdx[t]], t, read, k, k - 1)
        BY <2>10, <4>2, <4>3, StepMapKept
      <4> QED
        BY <4>3, <4>4
    <3> QED
      BY <3>1, <3>2
  <2>12. DOMAIN c.seriesIdx = SeriesIds(read, k)
    BY <1>1, <1>4, <2>5
  <2>13. Collects(c.model.run, Upto(OfRun(read), k - 1), read) /\ c.undefined = FALSE
    BY <1>1, <2>4
  <2>14. Sorted(c, read, k, k, k - 1)
    <3>1. c \in Reader /\ c.stepIdx = b.stepIdx
          /\ Len(c.model.test_steps) = Len(b.model.test_steps)
      BY <2>4, <2>7
    <3>2. StillSorted(b, c, read, k, k - 1)
      BY <2>11, <2>12, <2>13, <3>1 DEF StillSorted
    <3> QED
      BY <3>2, SortedAgain
  <2> QED
    BY <2>4, <2>14
<1> QED
  BY <1>7, <1>8

\* A step with one artifact of its own more.
LEMMA OwnAdded ==
  ASSUME NEW read \in Seq(Artifact), NEW k \in DOMAIN read, NEW map, NEW s,
         NEW step \in StepModel, StepSorted(map, step, s, read, k - 1, k - 1),
         ~IsOfRun(read[k]), ~IsOfSeries(read[k]), test_step_id(read[k]) = s,
         NEW new,
         new = [test_step_id |-> step.test_step_id, own |-> Store(step.own, read[k]),
                measurement_series |-> step.measurement_series]
  PROVE  StepSorted(map, new, s, read, k, k)
<1> DEFINE before == Upto(SeriesFirsts(s, read), k - 1)
           firsts == Upto(SeriesFirsts(s, read), k)
<1>1. firsts = before
  <2>1. SeriesFirsts(s, read) \subseteq DOMAIN read /\ k \notin SeriesFirsts(s, read)
    BY DEF SeriesFirsts, OfStep
  <2> QED
    BY <2>1, UptoSame
<1>2. /\ step.test_step_id = s
      /\ Collects(step.own, Upto(OwnOf(s, read), k - 1), read)
      /\ Len(step.measurement_series) = Cardinality(before)
      /\ \A i \in before :
           /\ map[read[i].series] = Rank(before, i)
           /\ Collects(step.measurement_series[map[read[i].series]],
                       Upto(OfSeries(read[i].series, read), k - 1), read)
  BY DEF StepSorted
<1>3. Collects(Store(step.own, read[k]), Upto(OwnOf(s, read), k), read)
  <2>1. OwnOf(s, read) \subseteq DOMAIN read /\ k \in OwnOf(s, read)
    BY DEF OwnOf, OfStep
  <2>2. /\ Upto(OwnOf(s, read), k) = Upto(OwnOf(s, read), k - 1) \cup {k}
        /\ Upto(OwnOf(s, read), k - 1) \subseteq DOMAIN read
        /\ \A j \in Upto(OwnOf(s, read), k - 1) : j < k
    BY <2>1, UptoMore
  <2>3. step.own \in Object
    BY DEF StepModel
  <2>4. Collects(Store(step.own, read[k]), Upto(OwnOf(s, read), k - 1) \cup {k}, read)
    BY <1>2, <2>2, <2>3, CollectsOne
  <2> QED
    BY <2>2, <2>4
<1>4. \A m : Upto(OfSeries(m, read), k) = Upto(OfSeries(m, read), k - 1)
  <2> TAKE m
  <2>1. OfSeries(m, read) \subseteq DOMAIN read /\ k \notin OfSeries(m, read)
    BY DEF OfSeries
  <2> QED
    BY <2>1, UptoSame
<1>5. /\ new.test_step_id = step.test_step_id /\ new.own = Store(step.own, read[k])
      /\ new.measurement_series = step.measurement_series
  OBVIOUS
<1>6. StepSorted(map, new, s, read, k, k) <=>
        /\ new.test_step_id = s
        /\ Collects(new.own, Upto(OwnOf(s, read), k), read)
        /\ Len(new.measurement_series) = Cardinality(firsts)
        /\ \A i \in firsts :
             /\ map[read[i].series] = Rank(firsts, i)
             /\ Collects(new.measurement_series[map[read[i].series]],
                         Upto(OfSeries(read[i].series, read), k), read)
  BY DEF StepSorted
<1> HIDE DEF before, firsts
<1> QED
  BY <1>1, <1>2, <1>3, <1>4, <1>5, <1>6

\* A series has the same artifacts when the next is not one of it.
LEMMA OthersKept ==
  ASSUME NEW read \in Seq(Artifact), NEW k \in DOMAIN read, NEW n,
         ~IsOfSeries(read[k]) \/ read[k].series # n
  PROVE  Upto(OfSeries(n, read), k) = Upto(OfSeries(n, read), k - 1)
<1>1. OfSeries(n, read) \subseteq DOMAIN read /\ k \notin OfSeries(n, read)
  BY DEF OfSeries
<1> QED
  BY <1>1, UptoSame

\* A series has one artifact more when the next is one of it.
LEMMA SeriesNext ==
  ASSUME NEW read \in Seq(Artifact), NEW k \in DOMAIN read, IsOfSeries(read[k]), NEW K,
         K = OfSeries(read[k].series, read)
  PROVE  /\ Upto(K, k) = Upto(K, k - 1) \cup {k} /\ Upto(K, k - 1) \subseteq DOMAIN read
         /\ \A j \in Upto(K, k - 1) : j < k
<1>1. K \subseteq DOMAIN read /\ k \in K
  BY DEF OfSeries
<1> QED
  BY <1>1, UptoMore

\* A step with one artifact of a series of it more.
Filled(step, new, j, a) ==
  /\ new.test_step_id = step.test_step_id /\ new.own = step.own
  /\ Len(new.measurement_series) = Len(step.measurement_series)
  /\ new.measurement_series[j] = Store(step.measurement_series[j], a)
  /\ \A i \in DOMAIN step.measurement_series :
       i # j => new.measurement_series[i] = step.measurement_series[i]

LEMMA SeriesFilled ==
  ASSUME NEW read \in Seq(Artifact), NEW k \in DOMAIN read, NEW map, NEW s,
         NEW step \in StepModel, StepSorted(map, step, s, read, k, k - 1),
         IsOfSeries(read[k]), NEW m, m = read[k].series, s = StepOf[m],
         NEW new, Filled(step, new, map[m], read[k])
  PROVE  StepSorted(map, new, s, read, k, k)
<1> DEFINE firsts == Upto(SeriesFirsts(s, read), k)
<1>0. /\ k \in Nat /\ DOMAIN read = 1..Len(read) /\ Len(read) \in Nat
      /\ IsFiniteSet(1..Len(read)) /\ read[k] \in Artifact
  BY FS_Interval
<1>1. /\ firsts \subseteq Nat /\ IsFiniteSet(firsts)
  <2>1. firsts \subseteq DOMAIN read
    BY DEF Upto, SeriesFirsts, OfStep
  <2> QED
    BY <1>0, <2>1, FS_Subset
<1>2. /\ step.test_step_id = s
      /\ Collects(step.own, Upto(OwnOf(s, read), k - 1), read)
      /\ Len(step.measurement_series) = Cardinality(firsts)
      /\ \A i \in firsts :
           /\ map[read[i].series] = Rank(firsts, i)
           /\ Collects(step.measurement_series[map[read[i].series]],
                       Upto(OfSeries(read[i].series, read), k - 1), read)
  BY DEF StepSorted
<1>3. PICK f \in SeriesFirsts(StepOf[m], read) : f <= k /\ read[f].series = m
  <2>1. \E i \in SeriesFirsts(StepOf[read[k].series], read) :
          i <= k /\ read[i].series = read[k].series
    BY FirstOfSeries
  <2> QED
    BY <2>1
<1>4. f \in firsts /\ map[m] = Rank(firsts, f)
      /\ Collects(step.measurement_series[map[m]], Upto(OfSeries(m, read), k - 1), read)
  BY <1>2, <1>3 DEF Upto
<1>5. PICK list \in Seq(Object) : list = step.measurement_series
  BY DEF StepModel
<1>6. DOMAIN list = 1..Len(list) /\ Len(list) \in Nat
  BY <1>5
<1> HIDE DEF firsts
<1>7. \A i \in firsts : Rank(firsts, i) \in DOMAIN list
  <2>1. \A i \in firsts : /\ Rank(firsts, i) \in Nat /\ 1 <= Rank(firsts, i)
                          /\ Rank(firsts, i) <= Cardinality(firsts)
    BY <1>1, RankIs
  <2> QED
    BY <1>2, <1>5, <1>6, <2>1
<1>8. PICK p : p = map[m]
  OBVIOUS
<1>9. p \in DOMAIN list /\ list[p] \in Object
  BY <1>4, <1>5, <1>7, <1>8
<1>10. Collects(Store(list[p], read[k]), Upto(OfSeries(m, read), k), read)
  <2>1. PICK K : K = OfSeries(m, read)
    OBVIOUS
  <2>2. /\ Upto(K, k) = Upto(K, k - 1) \cup {k} /\ Upto(K, k - 1) \subseteq DOMAIN read
        /\ \A j \in Upto(K, k - 1) : j < k
    BY <2>1, SeriesNext
  <2>3. Collects(list[p], Upto(K, k - 1), read)
    BY <1>4, <1>5, <1>8, <2>1
  <2>4. Collects(Store(list[p], read[k]), Upto(K, k - 1) \cup {k}, read)
    BY <1>9, <2>2, <2>3, CollectsOne
  <2> QED
    BY <2>1, <2>2, <2>4
<1>11. \A n : n # m => Upto(OfSeries(n, read), k) = Upto(OfSeries(n, read), k - 1)
  BY OthersKept
<1>12. Upto(OwnOf(s, read), k) = Upto(OwnOf(s, read), k - 1)
  <2>1. OwnOf(s, read) \subseteq DOMAIN read /\ k \notin OwnOf(s, read)
    BY DEF OwnOf, OfStep
  <2> QED
    BY <2>1, UptoSame
<1>13. ASSUME NEW i \in firsts
       PROVE  /\ map[read[i].series] = Rank(firsts, i)
              /\ Collects(new.measurement_series[map[read[i].series]],
                          Upto(OfSeries(read[i].series, read), k), read)
  <2>1. CASE read[i].series = m
    BY <1>2, <1>5, <1>8, <1>10, <2>1 DEF Filled
  <2>2. CASE read[i].series # m
    <3>1. /\ Rank(firsts, i) \in Nat /\ Rank(firsts, f) \in Nat
          /\ i < f => Rank(firsts, i) < Rank(firsts, f)
          /\ f < i => Rank(firsts, f) < Rank(firsts, i)
      BY <1>1, <1>4, RankIs
    <3>2. i \in Nat /\ f \in Nat /\ i # f
      BY <1>1, <1>3, <1>4, <2>2
    <3>3. Rank(firsts, i) # map[m] /\ Rank(firsts, i) \in DOMAIN step.measurement_series
      BY <1>4, <1>5, <1>7, <3>1, <3>2
    <3>4. map[read[i].series] = Rank(firsts, i)
          /\ Collects(step.measurement_series[map[read[i].series]],
                      Upto(OfSeries(read[i].series, read), k - 1), read)
      BY <1>2
    <3>5. Upto(OfSeries(read[i].series, read), k) = Upto(OfSeries(read[i].series, read), k - 1)
      BY <1>11, <2>2
    <3> QED
      BY <3>3, <3>4, <3>5 DEF Filled
  <2> QED
    BY <2>1, <2>2
<1>14. /\ new.test_step_id = s /\ new.own = step.own
       /\ Len(new.measurement_series) = Cardinality(firsts)
  BY <1>2 DEF Filled
<1> QED
  BY <1>2, <1>12, <1>13, <1>14 DEF StepSorted, firsts

\* An artifact of a step.
LEMMA OwnHandled ==
  ASSUME NEW read \in Seq(Artifact), NEW k \in DOMAIN read, NEW b,
         Sorted(b, read, k, k - 1, k - 1), ~IsOfRun(read[k]), ~IsOfSeries(read[k]),
         NEW s \in DOMAIN b.stepIdx, s = test_step_id(read[k]), NEW p, p = b.stepIdx[s],
         NEW c, OwnStoredIn(b, read[k], p, b.model.test_steps[p], c)
  PROVE  Sorted(c, read, k, k, k)
<1>1. /\ b \in Reader /\ b.undefined = FALSE
      /\ Collects(b.model.run, Upto(OfRun(read), k - 1), read)
      /\ DOMAIN b.seriesIdx = SeriesIds(read, k - 1)
  BY DEF Sorted
<1>2. /\ read[k] \in Artifact /\ k \in Nat /\ k - 1 \in Nat
      /\ DOMAIN read = 1..Len(read) /\ Len(read) \in Nat
  OBVIOUS
<1>3. ASSUME NEW t \in DOMAIN b.stepIdx
      PROVE  /\ b.stepIdx[t] \in DOMAIN b.model.test_steps
             /\ StepSorted(b.seriesIdx, b.model.test_steps[b.stepIdx[t]], t, read, k - 1, k - 1)
  BY <1>2, StepAt
<1>4. p \in DOMAIN b.model.test_steps
      /\ StepSorted(b.seriesIdx, b.model.test_steps[p], s, read, k - 1, k - 1)
  BY <1>3
<1>5. PICK step \in StepModel : step = b.model.test_steps[p]
  BY <1>1, <1>4, StepParts
<1>6. PICK new :
        new = [test_step_id |-> step.test_step_id, own |-> Store(step.own, read[k]),
               measurement_series |-> step.measurement_series]
  OBVIOUS
<1>7. /\ c \in Reader /\ c.model.run = b.model.run
      /\ c.model.test_steps = [b.model.test_steps EXCEPT ![p] = new]
      /\ c.stepIdx = b.stepIdx /\ c.seriesIdx = b.seriesIdx
      /\ c.undefined = b.undefined
  BY <1>5, <1>6, Zenon DEF OwnStoredIn
<1>8. /\ c.model.test_steps[p] = new /\ Len(c.model.test_steps) = Len(b.model.test_steps)
      /\ \A i \in DOMAIN b.model.test_steps :
           i # p => c.model.test_steps[i] = b.model.test_steps[i]
  <2>1. b \in Reader /\ p \in DOMAIN b.model.test_steps
    BY <1>1, <1>4
  <2>2. c.model.test_steps = [b.model.test_steps EXCEPT ![p] = new]
    BY <1>7
  <2>3. StepReplaced(b, p, new, c)
    BY <2>1, <2>2, ReplacedStep
  <2> QED
    BY <2>3, Zenon DEF StepReplaced
<1>9. ASSUME NEW t \in DOMAIN b.stepIdx
      PROVE  StepSorted(c.seriesIdx, c.model.test_steps[b.stepIdx[t]], t, read, k, k)
  <2>1. CASE t = s
    <3>1. StepSorted(b.seriesIdx, step, s, read, k - 1, k - 1)
      BY <1>4, <1>5
    <3>2. StepSorted(b.seriesIdx, new, s, read, k, k)
      BY <1>6, <3>1, OwnAdded
    <3> QED
      BY <1>7, <1>8, <2>1, <3>2
  <2>2. CASE t # s
    <3>1. b.stepIdx[t] # p
      BY <1>2, <2>2, StepsDiffer
    <3>2. c.model.test_steps[b.stepIdx[t]] = b.model.test_steps[b.stepIdx[t]]
      BY <1>3, <1>8, <3>1
    <3>3. StepSorted(b.seriesIdx, b.model.test_steps[b.stepIdx[t]], t, read, k - 1, k - 1)
      BY <1>3
    <3>4. k - 1 \in {k - 1, k} /\ test_step_id(read[k]) # t
      BY <2>2
    <3>5. StepSorted(b.seriesIdx, b.model.test_steps[b.stepIdx[t]], t, read, k, k)
      BY <3>3, <3>4, StepKept
    <3> QED
      BY <1>7, <3>2, <3>5
  <2> QED
    BY <2>1, <2>2
<1>10. Upto(OfRun(read), k) = Upto(OfRun(read), k - 1)
  BY OutsideRun
<1>11. SeriesIds(read, k) = SeriesIds(read, k - 1)
  <2>1. {j \in DOMAIN read : IsOfSeries(read[j]) /\ j <= k} =
          {j \in DOMAIN read : IsOfSeries(read[j]) /\ j <= k - 1}
    BY <1>2
  <2> QED
    BY <2>1 DEF SeriesIds
<1>12. StillSorted(b, c, read, k, k)
  BY <1>1, <1>7, <1>8, <1>9, <1>10, <1>11 DEF StillSorted
<1> QED
  BY <1>12, SortedAgain

\* A series that was looked up is there.
LEMMA SeriesThere ==
  ASSUME NEW read \in Seq(Artifact), NEW k \in DOMAIN read, NEW b,
         Sorted(b, read, k, k, k - 1), IsOfSeries(read[k]), NEW m, m = read[k].series,
         StepOf[m] \in DOMAIN b.stepIdx, NEW p, p = b.stepIdx[StepOf[m]]
  PROVE  /\ p \in DOMAIN b.model.test_steps
         /\ b.seriesIdx[m] \in DOMAIN b.model.test_steps[p].measurement_series
<1>1. b \in Reader /\ k \in Nat /\ k <= k
  BY DEF Sorted
<1>2. /\ p \in DOMAIN b.model.test_steps
      /\ StepSorted(b.seriesIdx, b.model.test_steps[p], StepOf[m], read, k, k - 1)
  BY <1>1, StepAt
<1>3. PICK step \in StepModel : step = b.model.test_steps[p]
  BY <1>1, <1>2, StepParts
<1>4. PICK map : map = b.seriesIdx
  OBVIOUS
<1>5. StepSorted(map, step, StepOf[m], read, k, k - 1)
  BY <1>2, <1>3, <1>4
<1>6. map[m] \in DOMAIN step.measurement_series
  BY <1>1, <1>5, SeriesAt
<1> QED
  BY <1>2, <1>3, <1>4, <1>6

\* An artifact of a series.
LEMMA SeriesHandled ==
  ASSUME NEW read \in Seq(Artifact), NEW k \in DOMAIN read, NEW b,
         Sorted(b, read, k, k, k - 1), IsOfSeries(read[k]), NEW m, m = read[k].series,
         NEW s \in DOMAIN b.stepIdx, s = StepOf[m], NEW p, p = b.stepIdx[s],
         NEW j, j = b.seriesIdx[m], NEW c,
         SeriesStoredIn(b, read[k], p, b.model.test_steps[p], j, c)
  PROVE  Sorted(c, read, k, k, k)
<1>1. /\ b \in Reader /\ b.undefined = FALSE
      /\ Collects(b.model.run, Upto(OfRun(read), k - 1), read)
      /\ DOMAIN b.seriesIdx = SeriesIds(read, k)
  BY DEF Sorted
<1>2. /\ read[k] \in Artifact /\ k \in Nat /\ k - 1 \in Nat
      /\ DOMAIN read = 1..Len(read) /\ Len(read) \in Nat
  OBVIOUS
<1>3. ~IsOfRun(read[k]) /\ test_step_id(read[k]) = s
  BY <1>2, Belongs DEF test_step_id
<1>4. ASSUME NEW t \in DOMAIN b.stepIdx
      PROVE  /\ b.stepIdx[t] \in DOMAIN b.model.test_steps
             /\ StepSorted(b.seriesIdx, b.model.test_steps[b.stepIdx[t]], t, read, k, k - 1)
  BY <1>2, StepAt
<1>5. p \in DOMAIN b.model.test_steps
      /\ StepSorted(b.seriesIdx, b.model.test_steps[p], s, read, k, k - 1)
  BY <1>4
<1>6. PICK step \in StepModel : step = b.model.test_steps[p]
  BY <1>1, <1>5, StepParts
<1>7. PICK list \in Seq(Object) : list = step.measurement_series
  BY <1>6 DEF StepModel
<1>8. j \in DOMAIN list
  BY <1>6, <1>7, SeriesThere
<1>9. PICK filled : filled = [list EXCEPT ![j] = Store(list[j], read[k])]
  OBVIOUS
<1>10. /\ filled[j] = Store(list[j], read[k]) /\ Len(filled) = Len(list)
       /\ \A i \in DOMAIN list : i # j => filled[i] = list[i]
  BY <1>8, <1>9
<1>11. PICK new :
         new = [test_step_id |-> step.test_step_id, own |-> step.own,
                measurement_series |-> filled]
  OBVIOUS
<1>12. /\ c \in Reader /\ c.model.run = b.model.run
       /\ c.model.test_steps = [b.model.test_steps EXCEPT ![p] = new]
       /\ c.stepIdx = b.stepIdx /\ c.seriesIdx = b.seriesIdx
       /\ c.undefined = b.undefined
  BY <1>6, <1>7, <1>9, <1>11, Zenon DEF SeriesStoredIn
<1>13. /\ c.model.test_steps[p] = new /\ Len(c.model.test_steps) = Len(b.model.test_steps)
       /\ \A i \in DOMAIN b.model.test_steps :
            i # p => c.model.test_steps[i] = b.model.test_steps[i]
  <2>1. b \in Reader /\ p \in DOMAIN b.model.test_steps
    BY <1>1, <1>5
  <2>2. c.model.test_steps = [b.model.test_steps EXCEPT ![p] = new]
    BY <1>12
  <2>3. StepReplaced(b, p, new, c)
    BY <2>1, <2>2, ReplacedStep
  <2> QED
    BY <2>3, Zenon DEF StepReplaced
<1>14. ASSUME NEW t \in DOMAIN b.stepIdx
       PROVE  StepSorted(c.seriesIdx, c.model.test_steps[b.stepIdx[t]], t, read, k, k)
  <2>1. CASE t = s
    <3>1. StepSorted(b.seriesIdx, step, s, read, k, k - 1)
      BY <1>5, <1>6
    <3>2. /\ new.test_step_id = step.test_step_id /\ new.own = step.own
          /\ new.measurement_series = filled
      BY <1>11
    <3>3. Filled(step, new, b.seriesIdx[m], read[k])
      BY <1>7, <1>10, <3>2 DEF Filled
    <3>4. StepSorted(b.seriesIdx, new, s, read, k, k)
      BY <3>1, <3>3, SeriesFilled
    <3> QED
      BY <1>12, <1>13, <2>1, <3>4
  <2>2. CASE t # s
    <3>1. b.stepIdx[t] # p
      BY <1>2, <2>2, StepsDiffer
    <3>2. c.model.test_steps[b.stepIdx[t]] = b.model.test_steps[b.stepIdx[t]]
      BY <1>4, <1>13, <3>1
    <3>3. StepSorted(b.seriesIdx, b.model.test_steps[b.stepIdx[t]], t, read, k, k - 1)
      BY <1>4
    <3>4. k \in {k - 1, k} /\ test_step_id(read[k]) # t
      BY <1>3, <2>2
    <3>5. StepSorted(b.seriesIdx, b.model.test_steps[b.stepIdx[t]], t, read, k, k)
      BY <3>3, <3>4, StepKept
    <3> QED
      BY <1>12, <3>2, <3>5
  <2> QED
    BY <2>1, <2>2
<1>15. Upto(OfRun(read), k) = Upto(OfRun(read), k - 1)
  BY <1>3, OutsideRun
<1>16. StillSorted(b, c, read, k, k)
  BY <1>1, <1>12, <1>13, <1>14, <1>15 DEF StillSorted
<1> QED
  BY <1>16, SortedAgain

\* Any artifact.
LEMMA HandledSorted ==
  ASSUME NEW read \in Seq(Artifact), NEW k \in DOMAIN read, NEW b,
         Sorted(b, read, k - 1, k - 1, k - 1)
  PROVE  Sorted(HandleOutputArtifact(b, read[k]), read, k, k, k)
<1>1. b \in Reader /\ b.undefined = FALSE
  BY DEF Sorted
<1>2. /\ read[k] \in Artifact /\ k \in Nat /\ k - 1 \in Nat
  OBVIOUS
<1>3. CASE IsOfRun(read[k])
  <2>1. PICK c : c = [b EXCEPT !.model.run = Store(@, read[k])]
    OBVIOUS
  <2>2. HandleOutputArtifact(b, read[k]) = c
    BY <1>1, <1>3, <2>1 DEF HandleOutputArtifact
  <2>3. Sorted(c, read, k, k, k)
    BY <1>3, <2>1, RunHandled
  <2> QED
    BY <2>2, <2>3
<1>4. CASE ~IsOfRun(read[k])
  <2>1. PICK s, c : s = test_step_id(read[k]) /\ c = GetTestStepIdx(b, s)
    OBVIOUS
  <2>2. Sorted(c, read, k, k - 1, k - 1) /\ s \in DOMAIN c.stepIdx
    BY <1>4, <2>1, StepFound
  <2>3. PICK p : p = c.stepIdx[s]
    OBVIOUS
  <2>4. c \in Reader /\ p \in DOMAIN c.model.test_steps
    BY <1>2, <2>2, <2>3, StepAt DEF Sorted
  <2>5. HandleOutputArtifact(b, read[k]) =
          IF IsOfSeries(read[k]) THEN StoreInSeries(c, read[k].series, p, read[k])
          ELSE [c EXCEPT !.model.test_steps[p].own = Store(@, read[k])]
    BY <1>1, <1>4, <2>1, <2>3, <2>4 DEF HandleOutputArtifact, HandleTestStepArtifact
  <2>6. CASE ~IsOfSeries(read[k])
    <3>1. PICK e, step : e = [c EXCEPT !.model.test_steps[p].own = Store(@, read[k])]
                         /\ step = c.model.test_steps[p]
      OBVIOUS
    <3>2. OwnStoredIn(c, read[k], p, step, e)
      BY <1>2, <2>4, <3>1, OwnStored
    <3>3. OwnStoredIn(c, read[k], p, c.model.test_steps[p], e)
      BY <3>1, <3>2
    <3>4. Sorted(e, read, k, k, k)
      BY <1>4, <2>1, <2>2, <2>3, <2>6, <3>3, OwnHandled
    <3>5. HandleOutputArtifact(b, read[k]) = e
      BY <2>5, <2>6, <3>1
    <3> QED
      BY <3>4, <3>5
  <2>7. CASE IsOfSeries(read[k])
    <3>1. PICK m, d : m = read[k].series /\ d = GetMeasurementSeriesIdx(c, m, p)
      OBVIOUS
    <3>2. s = StepOf[m]
      BY <2>1, <2>7, <3>1 DEF test_step_id
    <3>3. Sorted(d, read, k, k, k - 1) /\ d.stepIdx = c.stepIdx
      BY <2>2, <2>3, <2>7, <3>1, <3>2, SeriesFound
    <3>4. s \in DOMAIN d.stepIdx /\ p = d.stepIdx[s] /\ d \in Reader
      BY <2>2, <2>3, <3>3 DEF Sorted
    <3>5. PICK j, step : j = d.seriesIdx[m] /\ step = d.model.test_steps[p]
      OBVIOUS
    <3>6. p \in DOMAIN d.model.test_steps /\ j \in DOMAIN step.measurement_series
      BY <2>7, <3>1, <3>2, <3>3, <3>4, <3>5, SeriesThere
    <3>7. PICK e :
            e = [d EXCEPT !.model.test_steps[p].measurement_series[j] = Store(@, read[k])]
      OBVIOUS
    <3>8. HandleOutputArtifact(b, read[k]) = e
      BY <2>5, <2>7, <3>1, <3>5, <3>6, <3>7 DEF StoreInSeries
    <3>9. SeriesStoredIn(d, read[k], p, step, j, e)
      BY <1>2, <3>4, <3>5, <3>6, <3>7, SeriesStored
    <3>10. SeriesStoredIn(d, read[k], p, d.model.test_steps[p], j, e)
      BY <3>5, <3>9
    <3>11. Sorted(e, read, k, k, k)
      BY <2>7, <3>1, <3>2, <3>3, <3>4, <3>5, <3>10, SeriesHandled
    <3> QED
      BY <3>8, <3>11
  <2> QED
    BY <2>6, <2>7
<1> QED
  BY <1>3, <1>4

\* What a build starts with, when nothing was built before.
Fresh == [model |-> EmptyModel, stepIdx |-> <<>>, seriesIdx |-> <<>>, undefined |-> FALSE]

LEMMA FreshSorted ==
  ASSUME NEW read \in Seq(Artifact)
  PROVE  Fresh \in Reader /\ Sorted(Fresh, read, 0, 0, 0)
<1>1. \A i \in DOMAIN read : i \in Nat /\ ~(i <= 0)
  OBVIOUS
<1>2. /\ Upto(StepFirsts(read), 0) = {} /\ Upto(OfRun(read), 0) = {}
      /\ StepIds(read, 0) = {} /\ SeriesIds(read, 0) = {}
  BY <1>1 DEF Upto, StepFirsts, OfRun, StepIds, SeriesIds
<1>3. Collects(EmptyObject, {}, read) /\ EmptyObject \in Object
  BY CollectsNone
<1>4. /\ Fresh.model.run = EmptyObject /\ Fresh.model.test_steps = <<>>
      /\ Fresh.stepIdx = <<>> /\ Fresh.seriesIdx = <<>> /\ Fresh.undefined = FALSE
  BY DEF Fresh, EmptyModel
<1>5. DOMAIN <<>> = {} /\ Len(<<>>) = 0 /\ Cardinality({}) = 0
  BY FS_EmptySet
<1>6. EmptyModel \in Model
  BY <1>3, EmptySeq DEF EmptyModel, Model
<1>7. \A Ids : <<>> \in IdMap(Ids)
  <2> TAKE Ids
  <2>1. {} \in SUBSET Ids /\ <<>> \in [{} -> Nat]
    OBVIOUS
  <2> QED
    BY <2>1 DEF IdMap
<1>8. Fresh \in Reader
  BY <1>6, <1>7 DEF Fresh, Reader
<1> QED
  BY <1>2, <1>3, <1>4, <1>5, <1>8 DEF Sorted

\* A first build, of any artifacts.
LEMMA ReadSorted ==
  ASSUME NEW read \in Seq(Artifact)
  PROVE  LET n == Len(read)
         IN  Sorted(FoldLeft(HandleOutputArtifact, Fresh, read), read, n, n, n)
<1> DEFINE n == Len(read)
<1>1. n \in Nat /\ DOMAIN read = 1..n
  OBVIOUS
<1>2. PICK h \in [0..n -> Reader] :
        /\ h[0] = Fresh
        /\ \A k \in 1..n : h[k] = HandleOutputArtifact(h[k - 1], read[k])
        /\ FoldLeft(HandleOutputArtifact, Fresh, read) = h[n]
  BY FreshSorted, ReadSteps
<1> DEFINE T == {k \in Nat : k <= n => Sorted(h[k], read, k, k, k)}
<1> HIDE DEF n
<1>3. 0 \in T
  BY <1>2, FreshSorted
<1>4. ASSUME NEW k \in Nat, k \in T PROVE k + 1 \in T
  <2> SUFFICES ASSUME k + 1 <= n PROVE Sorted(h[k + 1], read, k + 1, k + 1, k + 1)
    OBVIOUS
  <2>1. PICK l : l = k + 1
    OBVIOUS
  <2>2. l \in DOMAIN read /\ l \in 1..n /\ l - 1 = k /\ k <= n
    BY <1>1, <2>1
  <2>3. Sorted(h[l - 1], read, l - 1, l - 1, l - 1)
    BY <1>4, <2>2
  <2>4. Sorted(HandleOutputArtifact(h[l - 1], read[l]), read, l, l, l)
    BY <2>2, <2>3, HandledSorted
  <2>5. h[l] = HandleOutputArtifact(h[l - 1], read[l])
    BY <1>2, <2>2
  <2> QED
    BY <2>1, <2>4, <2>5
<1>5. n \in T
  <2> HIDE DEF T
  <2>1. Nat \subseteq T
    BY <1>3, <1>4, SetInduction
  <2> QED
    BY <1>1, <2>1
<1> QED
  BY <1>1, <1>2, <1>5 DEF n

----------------------------------------------------------------------------
(* The receiver.                                                           *)

\* Matches, said of any model and any artifacts.
ModelOf(m, read) ==
  LET firsts == StepFirsts(read)
  IN  /\ Collects(m.run, OfRun(read), read)
      /\ Len(m.test_steps) = Cardinality(firsts)
      /\ \A i \in firsts : StepMatches(m.test_steps[Rank(firsts, i)],
                                       test_step_id(read[i]), read)

LEMMA UptoAll ==
  ASSUME NEW read \in Seq(Artifact), NEW K, K \subseteq DOMAIN read
  PROVE  Upto(K, Len(read)) = K
BY DEF Upto

\* A sorted model is what the artifacts say.
LEMMA SortedMatches ==
  ASSUME NEW read \in Seq(Artifact), NEW n, n = Len(read), NEW b, Sorted(b, read, n, n, n)
  PROVE  ModelOf(b.model, read)
<1> DEFINE firsts == StepFirsts(read)
<1>1. \A K : K \subseteq DOMAIN read => Upto(K, n) = K
  BY UptoAll
<1>2. /\ Upto(firsts, n) = firsts /\ Upto(OfRun(read), n) = OfRun(read)
      /\ \A m : Upto(OfSeries(m, read), n) = OfSeries(m, read)
      /\ \A s : Upto(OwnOf(s, read), n) = OwnOf(s, read)
                /\ Upto(SeriesFirsts(s, read), n) = SeriesFirsts(s, read)
  <2>1. /\ firsts \subseteq DOMAIN read /\ OfRun(read) \subseteq DOMAIN read
        /\ \A m : OfSeries(m, read) \subseteq DOMAIN read
        /\ \A s : OwnOf(s, read) \subseteq DOMAIN read
                  /\ SeriesFirsts(s, read) \subseteq DOMAIN read
    BY DEF StepFirsts, OfRun, OfSeries, OwnOf, SeriesFirsts, OfStep
  <2> HIDE DEF firsts
  <2> QED
    BY <1>1, <2>1
<1> HIDE DEF firsts
<1>3. /\ Collects(b.model.run, OfRun(read), read)
      /\ Len(b.model.test_steps) = Cardinality(firsts)
      /\ \A i \in firsts :
           /\ b.stepIdx[test_step_id(read[i])] = Rank(firsts, i)
           /\ StepSorted(b.seriesIdx,
                         b.model.test_steps[b.stepIdx[test_step_id(read[i])]],
                         test_step_id(read[i]), read, n, n)
  <2>1. Sorted(b, read, n, n, n) =>
          /\ Collects(b.model.run, Upto(OfRun(read), n), read)
          /\ Len(b.model.test_steps) = Cardinality(Upto(firsts, n))
          /\ \A i \in Upto(firsts, n) :
               /\ b.stepIdx[test_step_id(read[i])] = Rank(Upto(firsts, n), i)
               /\ StepSorted(b.seriesIdx,
                             b.model.test_steps[b.stepIdx[test_step_id(read[i])]],
                             test_step_id(read[i]), read, n, n)
    BY DEF Sorted, firsts
  <2> QED
    BY <1>2, <2>1
<1>4. ASSUME NEW step, NEW s, StepSorted(b.seriesIdx, step, s, read, n, n)
      PROVE  StepMatches(step, s, read)
  <2> DEFINE seen == SeriesFirsts(s, read)
  <2>1. StepSorted(b.seriesIdx, step, s, read, n, n) =>
          /\ step.test_step_id = s
          /\ Collects(step.own, Upto(OwnOf(s, read), n), read)
          /\ Len(step.measurement_series) = Cardinality(Upto(seen, n))
          /\ \A i \in Upto(seen, n) :
               /\ b.seriesIdx[read[i].series] = Rank(Upto(seen, n), i)
               /\ Collects(step.measurement_series[b.seriesIdx[read[i].series]],
                           Upto(OfSeries(read[i].series, read), n), read)
    BY DEF StepSorted
  <2>2. Upto(seen, n) = seen
    BY <1>2
  <2>3. StepMatches(step, s, read) <=>
          /\ step.test_step_id = s
          /\ Collects(step.own, OwnOf(s, read), read)
          /\ Len(step.measurement_series) = Cardinality(seen)
          /\ \A i \in seen : Collects(step.measurement_series[Rank(seen, i)],
                                      OfSeries(read[i].series, read), read)
    BY DEF StepMatches
  <2> HIDE DEF seen
  <2> QED
    BY <1>2, <1>4, <2>1, <2>2, <2>3
<1> QED
  BY <1>3, <1>4 DEF ModelOf, firsts

\* The file's artifacts: a prefix of the log, which more writes leave alone.
LEMMA ReadOf ==
  ASSUME NEW list \in Seq(Artifact), NEW n \in 0..Len(list)
  PROVE  /\ SubSeq(list, 1, n) \in Seq(Artifact)
         /\ \A a \in Artifact : SubSeq(Append(list, a), 1, n) = SubSeq(list, 1, n)
<1>1. SubSeq(list, 1, n) \in Seq(Artifact)
  BY SubSeqProperties
<1>2. ASSUME NEW a \in Artifact
      PROVE  SubSeq(Append(list, a), 1, n) = SubSeq(list, 1, n)
  <2>1. /\ Len(list) \in Nat /\ n \in Nat /\ n <= Len(list)
        /\ Append(list, a) \in Seq(Artifact) /\ Len(Append(list, a)) = Len(list) + 1
        /\ \A i \in 1..Len(list) : Append(list, a)[i] = list[i]
    BY AppendProperties
  <2>2. /\ SubSeq(list, 1, n) = [i \in 1..n |-> list[i]]
        /\ SubSeq(Append(list, a), 1, n) = [i \in 1..n |-> Append(list, a)[i]]
    BY <2>1
  <2> QED
    BY <2>1, <2>2
<1> QED
  BY <1>1, <1>2

\* The first build.
LEMMA FirstBuilt ==
  ASSUME log \in Seq(Artifact), durable \in 0..Len(log), stepIdx = <<>>, seriesIdx = <<>>
  PROVE  Built.undefined = FALSE /\ ModelOf(Built.model, SubSeq(log, 1, durable))
<1>1. PICK read \in Seq(Artifact) : read = SubSeq(log, 1, durable)
  BY ReadOf
<1>2. Built = FoldLeft(HandleOutputArtifact, Fresh, read)
  BY <1>1 DEF Built, Fresh
<1>3. PICK b, n : b = Built /\ n = Len(read)
  OBVIOUS
<1>4. Sorted(b, read, n, n, n)
  BY <1>2, <1>3, ReadSorted
<1>5. ModelOf(b.model, read)
  BY <1>3, <1>4, SortedMatches
<1> QED
  BY <1>1, <1>3, <1>4, <1>5 DEF Sorted

(***************************************************************************)
(* Until the first model is built nothing is kept in the maps, and the     *)
(* program is not past the end of a vector; the first one stays that of    *)
(* the part of the log that was in the file.                               *)
(***************************************************************************)
IInv ==
  /\ log \in Seq(Artifact) /\ durable \in 0..Len(log)
  /\ builds \in Seq(Nat)
  /\ Len(builds) = 0 =>
       stepIdx = <<>> /\ seriesIdx = <<>> /\ ~hasModel /\ state # "undefined"
  /\ Len(builds) = 1 =>
       /\ state # "undefined" /\ builds[1] \in 0..Len(log)
       /\ hasModel => Matches(builds[1])

LEMMA MatchesModelOf == \A n : Matches(n) <=> ModelOf(model, SubSeq(log, 1, n))
BY DEF Matches, ModelOf

LEMMA MatchesModelOfNext ==
  \A n : Matches(n)' <=> ModelOf(model', SubSeq(log', 1, n))
BY DEF Matches, ModelOf, Collects, StepMatches

LEMMA InitInv == Init => IInv
<1> SUFFICES ASSUME Init PROVE IInv
  OBVIOUS
<1>1. log = <<>> /\ durable = 0
  BY DEF Init, Log!Init
<1>2. log \in Seq(Artifact) /\ durable \in 0..Len(log)
  BY <1>1, EmptySeq
<1>3. builds \in Seq(Nat) /\ Len(builds) = 0
  BY EmptySeq DEF Init
<1> QED
  BY <1>2, <1>3 DEF Init, IInv

LEMMA NextInv == IInv /\ [Next]_vars => IInv'
<1> SUFFICES ASSUME IInv, [Next]_vars PROVE IInv'
  OBVIOUS
<1>1. CASE MakeArtifactWriter
  BY <1>1 DEF MakeArtifactWriter, logVars, IInv, Matches
<1>2. CASE Write
  <2>1. PICK a \in Written : log' = Append(log, a)
    BY <1>2 DEF Write, Log!Put
  <2>2. /\ UNCHANGED <<durable, hasModel, model, stepIdx, seriesIdx, state, builds>>
    BY <1>2 DEF Write, Log!Put, receiverVars
  <2>3. a \in Artifact /\ log \in Seq(Artifact)
    BY ReceiverAssumption DEF IInv
  <2>4. log' \in Seq(Artifact) /\ Len(log') = Len(log) + 1 /\ Len(log) \in Nat
    BY <2>1, <2>3, AppendProperties
  <2>5. durable' \in 0..Len(log')
    BY <2>2, <2>4 DEF IInv
  <2>6. ASSUME Len(builds) = 1
        PROVE  builds[1] \in 0..Len(log') /\ (Matches(builds[1]) => Matches(builds[1])')
    <3>1. PICK n \in 0..Len(log) : n = builds[1]
      BY <2>6 DEF IInv
    <3>2. SubSeq(log', 1, n) = SubSeq(log, 1, n)
      BY <2>1, <2>3, ReadOf
    <3>3. n \in 0..Len(log')
      BY <2>4
    <3>4. Matches(n) <=> Matches(n)'
      BY <2>2, <3>2, MatchesModelOf, MatchesModelOfNext
    <3> QED
      BY <2>2, <3>1, <3>3, <3>4
  <2> QED
    BY <2>2, <2>4, <2>5, <2>6 DEF IInv
<1>3. CASE Flush
  <2>1. UNCHANGED <<log, hasModel, model, stepIdx, seriesIdx, state, builds>>
    BY <1>3 DEF Flush, Log!Sync, receiverVars
  <2>2. durable' \in 0..Len(log')
    BY <1>3, <2>1 DEF Flush, Log!Sync, IInv
  <2> QED
    BY <2>1, <2>2 DEF IInv, Matches
<1>4. CASE GetOutputModel
  <2>1. UNCHANGED <<log, durable>>
    BY <1>4 DEF GetOutputModel, logVars
  <2>2. CASE ~writerCreated
    BY <1>4, <2>1, <2>2 DEF GetOutputModel, IInv, Matches
  <2>3. CASE writerCreated
    <3>1. /\ hasModel' = TRUE /\ model' = Built.model
          /\ state' = IF Built.undefined THEN "undefined" ELSE "running"
          /\ builds' = Append(builds, durable)
      BY <1>4, <2>3 DEF GetOutputModel
    <3>2. durable \in Nat /\ builds \in Seq(Nat) /\ Len(builds) \in Nat
      BY DEF IInv
    <3>3. builds' \in Seq(Nat) /\ Len(builds') = Len(builds) + 1
          /\ builds'[Len(builds) + 1] = durable
      BY <3>1, <3>2, AppendProperties
    <3>4. ASSUME Len(builds) = 0
          PROVE  state' # "undefined" /\ builds'[1] \in 0..Len(log') /\ Matches(builds[1])'
      <4>1. Built.undefined = FALSE /\ ModelOf(Built.model, SubSeq(log, 1, durable))
        BY <3>4, FirstBuilt DEF IInv
      <4>2. builds'[1] = durable /\ durable \in 0..Len(log)
        BY <3>3, <3>4 DEF IInv
      <4>3. Matches(durable)'
        BY <2>1, <3>1, <4>1, MatchesModelOfNext
      <4> QED
        BY <2>1, <3>1, <4>1, <4>2, <4>3
    <3> QED
      BY <2>1, <3>2, <3>3, <3>4 DEF IInv
  <2> QED
    BY <2>2, <2>3
<1>5. CASE ResetModel
  <2>1. UNCHANGED <<log, durable, stepIdx, seriesIdx, state, builds>>
    BY <1>5 DEF ResetModel, logVars
  <2>2. ~hasModel'
    BY <1>5 DEF ResetModel
  <2> QED
    BY <2>1, <2>2, Zenon DEF IInv
<1>6. CASE Over \/ UNCHANGED vars
  <2>1. /\ UNCHANGED <<log, durable>>
        /\ UNCHANGED <<hasModel, model, stepIdx, seriesIdx, state, builds>>
    BY <1>6 DEF Over, vars, logVars, receiverVars
  <2>2. Matches(builds[1])' <=> Matches(builds[1])
    BY <2>1 DEF Matches
  <2> QED
    BY <2>1, <2>2, Zenon DEF IInv
<1> QED
  BY <1>1, <1>2, <1>3, <1>4, <1>5, <1>6 DEF Next

THEOREM Invariance == Spec => []IInv
BY InitInv, NextInv, PTL DEF Spec

(***************************************************************************)
(* For any file: the first model a receiver builds (GetOutputModel) is     *)
(* what the artifacts in the file say, and no index it follows is past the *)
(* end of its vector.                                                      *)
(***************************************************************************)
THEOREM FirstModelAlways == Spec => []FirstModelMatchesFile
<1>1. IInv => FirstModelMatchesFile
  BY DEF IInv, FirstModelMatchesFile
<1> QED
  BY Invariance, <1>1, PTL
=============================================================================
