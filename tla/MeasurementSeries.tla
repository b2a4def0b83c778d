------------------------- MODULE MeasurementSeries -------------------------
(***************************************************************************)
(* results/measurement_series.{h,cc}: MeasurementSeries objects of the     *)
(* steps of TestStep.tla, shared by threads.  AddElement is several        *)
(* critical sections in a row (the type, the element's number, the         *)
(* artifact), and reads whether the step has ended under the step's lock,  *)
(* which it gives up before it emits.                                      *)
(***************************************************************************)
EXTENDS TestStep, FiniteSets

VARIABLES
  serState,               \* "absent", "starting", "live", "destroying", "destroyed"
  serType,                \* type_index_, "none" being -1
  serCount,               \* element_count_
  serEnded,               \* ended_
  serLock,                \* holder of the series' mutex_, or Nobody
  adding                  \* the element each thread is adding, see NoElement

seriesVars == <<serState, serType, serCount, serEnded, serLock, adding>>

SeriesLabel ==
  {"seriesStart", "seriesStartFlush", "number", "lockElement", "askStep",
   "emitElement", "seriesEndAskStep", "seriesEnd", "seriesEndFlush"}

NoElement == [index |-> 0, type |-> "none"]

Types == ValueTypes \cup {"none"}

SeriesTypeOK ==
  /\ StepTypeOK
  /\ serState \in [Series -> {"absent", "starting", "live", "destroying", "destroyed"}]
  /\ serType \in [Series -> Types]
  /\ serCount \in [Series -> Nat]
  /\ serEnded \in [Series -> BOOLEAN]
  /\ serLock \in [Series -> Threads \cup {Nobody}]
  /\ adding \in [Threads -> [index : Nat, type : Types]]

SeriesInit ==
  /\ StepInit
  /\ serState = [m \in Series |-> "absent"]
  /\ serType = [m \in Series |-> "none"]
  /\ serCount = [m \in Series |-> 0]
  /\ serEnded = [m \in Series |-> FALSE]
  /\ serLock = [m \in Series |-> Nobody]
  /\ adding = [t \in Threads |-> NoElement]
-----------------------------------------------------------------------------
\* What a method of a series leaves alone in the run and its steps.
StepFrame == UNCHANGED <<calculatorVars, stepVars>> /\ RunFrame

CallsSeries(t, m) == Calls(t) /\ serState[m] = "live"

AtSeries(t, label, m) == At(t, label) /\ on[t] = m

\* test_step_.Ended() takes the step's lock.
CanAskStep(m) == stepLock[StepOf[m]] = Nobody

\* MeasurementSeries::MeasurementSeries: CHECK(!test_step.Ended()), then the
\* type of the validators, if there are any.
ConstructSeries(t, m, type) ==
  /\ CallsStep(t, StepOf[m]) /\ Room
  /\ serState[m] = "absent"
  /\ CanAskStep(m)
  /\ \/ /\ stepEnded[StepOf[m]]
        /\ DieOn(t, m)
        /\ UNCHANGED seriesVars
     \/ /\ ~stepEnded[StepOf[m]]
        /\ serState' = [serState EXCEPT ![m] = "starting"]
        /\ serType' = [serType EXCEPT ![m] = type]
        /\ GotoOn(t, "seriesStart", m)
        /\ UNCHANGED <<logVars, serCount, serEnded, serLock, adding>>
        /\ StepFrame

\* EmitStart, in which nothing asks whether the step has ended since.
EmitSeriesStart(t, m) ==
  /\ AtSeries(t, "seriesStart", m)
  /\ Log!Put(SeriesStart(m))
  /\ GotoOn(t, "seriesStartFlush", m)
  /\ UNCHANGED seriesVars
  /\ StepFrame

FlushSeriesStart(t, m) ==
  /\ AtSeries(t, "seriesStartFlush", m)
  /\ Log!Sync
  /\ serState' = [serState EXCEPT ![m] = "live"]
  /\ Return(t)
  /\ UNCHANGED <<serType, serCount, serEnded, serLock, adding>>
  /\ StepFrame

\* Mutant: the type of the first element is not kept.
CheckTypeOfValidators(t, m, type) ==
  /\ CallsSeries(t, m) /\ Room
  /\ serLock[m] = Nobody
  /\ serType[m] \in {"none", type}
  /\ adding' = [adding EXCEPT ![t] = [index |-> 0, type |-> type]]
  /\ GotoOn(t, "number", m)
  /\ UNCHANGED <<logVars, serType, serState, serCount, serEnded, serLock>>
  /\ StepFrame

\* AddElement: SetAndCheckSeriesType, in a critical section of its own.
SetAndCheckSeriesType(t, m, type) ==
  /\ CallsSeries(t, m) /\ Room
  /\ serLock[m] = Nobody
  /\ \/ /\ serType[m] \notin {"none", type}
        /\ Die(t) /\ on' = [on EXCEPT ![t] = m]
        /\ serLock' = [serLock EXCEPT ![m] = t]
        /\ UNCHANGED <<stepVars, serState, serType, serCount, serEnded, adding>>
     \/ /\ serType[m] \in {"none", type}
        /\ serType' = [serType EXCEPT ![m] = type]
        /\ adding' = [adding EXCEPT ![t] = [index |-> 0, type |-> type]]
        /\ GotoOn(t, "number", m)
        /\ UNCHANGED <<logVars, serState, serCount, serEnded, serLock>>
        /\ StepFrame

\* Mutant: Next returns the incremented count.
NumberElementFromOne(t, m) ==
  /\ AtSeries(t, "number", m)
  /\ adding' = [adding EXCEPT ![t].index = serCount[m] + 1]
  /\ serCount' = [serCount EXCEPT ![m] = @ + 1]
  /\ GotoOn(t, "lockElement", m)
  /\ UNCHANGED <<logVars, serState, serType, serEnded, serLock>>
  /\ StepFrame

\* ... element_count_.Next(), which has a mutex of its own ...
NumberElement(t, m) ==
  /\ AtSeries(t, "number", m)
  /\ adding' = [adding EXCEPT ![t].index = serCount[m]]
  /\ serCount' = [serCount EXCEPT ![m] = @ + 1]
  /\ GotoOn(t, "lockElement", m)
  /\ UNCHANGED <<logVars, serState, serType, serEnded, serLock>>
  /\ StepFrame

\* ... the series' lock, kept to the end ...
LockElement(t, m) ==
  /\ AtSeries(t, "lockElement", m)
  /\ serLock[m] = Nobody
  /\ serLock' = [serLock EXCEPT ![m] = t]
  /\ GotoOn(t, "askStep", m)
  /\ UNCHANGED <<logVars, serState, serType, serCount, serEnded, adding>>
  /\ StepFrame

\* ... CHECK(!test_step_.Ended()) ...
AskStep(t, m) ==
  /\ AtSeries(t, "askStep", m)
  /\ CanAskStep(m)
  /\ \/ /\ stepEnded[StepOf[m]]
        /\ DieOn(t, m)
     \/ /\ ~stepEnded[StepOf[m]]
        /\ GotoOn(t, "emitElement", m)
        /\ UNCHANGED logVars
        /\ StepFrame
  /\ UNCHANGED seriesVars

\* Mutant: AddElement without its CHECK of ended_.
EmitElementUnchecked(t, m) ==
  /\ AtSeries(t, "emitElement", m)
  /\ Log!Put(Element(m, adding[t].index, adding[t].type))
  /\ serLock' = [serLock EXCEPT ![m] = Nobody]
  /\ adding' = [adding EXCEPT ![t] = NoElement]
  /\ Return(t)
  /\ UNCHANGED <<serState, serType, serCount, serEnded>>
  /\ StepFrame

\* ... CHECK(!ended_), and the artifact.
EmitElement(t, m) ==
  /\ AtSeries(t, "emitElement", m)
  /\ \/ /\ serEnded[m]
        /\ DieOn(t, m)
        /\ UNCHANGED seriesVars
     \/ /\ ~serEnded[m]
        /\ Log!Put(Element(m, adding[t].index, adding[t].type))
        /\ serLock' = [serLock EXCEPT ![m] = Nobody]
        /\ adding' = [adding EXCEPT ![t] = NoElement]
        /\ Return(t)
        /\ UNCHANGED <<serState, serType, serCount, serEnded>>
        /\ StepFrame

\* End, up to the question to the step; an ended series is left as it is.
EndSeries(t, m, then) ==
  /\ serLock[m] = Nobody
  /\ \/ /\ serEnded[m]
        /\ serState' = [serState EXCEPT ![m] =
                          IF then = "destroying" THEN "destroyed" ELSE then]
        /\ Return(t)
        /\ UNCHANGED serLock
     \/ /\ ~serEnded[m]
        /\ serState' = [serState EXCEPT ![m] = then]
        /\ serLock' = [serLock EXCEPT ![m] = t]
        /\ GotoOn(t, "seriesEndAskStep", m)
  /\ UNCHANGED <<logVars, serType, serCount, serEnded, adding>>
  /\ StepFrame

CallEndSeries(t, m) == CallsSeries(t, m) /\ EndSeries(t, m, "live")

\* ~MeasurementSeries: no other thread is in a method of the series.
DestroySeries(t, m) ==
  /\ CallsSeries(t, m)
  /\ \A u \in Threads : on[u] # m
  /\ EndSeries(t, m, "destroying")

\* A step that has ended is only complained of on cerr.
SeriesEndAsksStep(t, m) ==
  /\ AtSeries(t, "seriesEndAskStep", m)
  /\ CanAskStep(m)
  /\ serEnded' = [serEnded EXCEPT ![m] = TRUE]
  /\ GotoOn(t, "seriesEnd", m)
  /\ UNCHANGED <<logVars, serState, serType, serCount, serLock, adding>>
  /\ StepFrame

\* EmitEnd: the total is the count of elements numbered so far.
EmitSeriesEnd(t, m) ==
  /\ AtSeries(t, "seriesEnd", m)
  /\ Log!Put(SeriesEnd(m, serCount[m]))
  /\ serCount' = [serCount EXCEPT ![m] = @ + 1]
  /\ GotoOn(t, "seriesEndFlush", m)
  /\ UNCHANGED <<serState, serType, serEnded, serLock, adding>>
  /\ StepFrame

\* Mutant: the series' end is not flushed.
FlushSeriesEndForgotten(t, m) ==
  /\ AtSeries(t, "seriesEndFlush", m)
  /\ serLock' = [serLock EXCEPT ![m] = Nobody]
  /\ serState' = [serState EXCEPT ![m] = IF @ = "destroying" THEN "destroyed" ELSE @]
  /\ Return(t)
  /\ UNCHANGED <<logVars, serType, serCount, serEnded, adding>>
  /\ StepFrame

FlushSeriesEnd(t, m) ==
  /\ AtSeries(t, "seriesEndFlush", m)
  /\ Log!Sync
  /\ serLock' = [serLock EXCEPT ![m] = Nobody]
  /\ serState' = [serState EXCEPT ![m] = IF @ = "destroying" THEN "destroyed" ELSE @]
  /\ Return(t)
  /\ UNCHANGED <<serType, serCount, serEnded, adding>>
  /\ StepFrame
-----------------------------------------------------------------------------
SeriesCall(t, m) ==
  \/ \E type \in Types : ConstructSeries(t, m, type)
  \/ \E type \in ValueTypes : SetAndCheckSeriesType(t, m, type)
  \/ CallEndSeries(t, m)

SeriesContinue(t, m) ==
  \/ EmitSeriesStart(t, m) \/ FlushSeriesStart(t, m)
  \/ NumberElement(t, m) \/ LockElement(t, m) \/ AskStep(t, m) \/ EmitElement(t, m)
  \/ SeriesEndAsksStep(t, m) \/ EmitSeriesEnd(t, m) \/ FlushSeriesEnd(t, m)

\* The methods of the run and its steps; a step outlives its series.
StepStep ==
  /\ \/ RunStep
     \/ \E t \in Threads, s \in Steps :
          \/ StepCall(t, s) \/ StepContinue(t, s)
          \/ /\ DestroyStep(t, s)
             /\ \A m \in Series :
                  StepOf[m] = s => serState[m] \in {"absent", "destroyed"}
  /\ UNCHANGED seriesVars

resultsVars == <<stepsVars, seriesVars>>

Next ==
  \/ StepStep
  \/ \E t \in Threads, m \in Series :
       SeriesCall(t, m) \/ SeriesContinue(t, m) \/ DestroySeries(t, m)
  \/ RunOver /\ UNCHANGED resultsVars

\* The results library under any multi-threaded client.
Spec == SeriesInit /\ [][Next]_resultsVars

\* Threads run: a call that has begun goes on whenever it can.
Fairness ==
  \A t \in Threads : WF_resultsVars(
    \/ RunContinue(t) /\ UNCHANGED <<on, stepVars, seriesVars>>
    \/ (\E s \in Steps : StepContinue(t, s)) /\ UNCHANGED seriesVars
    \/ \E m \in Series : SeriesContinue(t, m))

FairSpec == Spec /\ Fairness
-----------------------------------------------------------------------------
IsElement(a, m) == a.kind = "Element" /\ a.series = m

IsSeriesEnd(a, m) == a.kind = "SeriesEnd" /\ a.series = m

OfSeries(a, m) == a = SeriesStart(m) \/ IsElement(a, m) \/ IsSeriesEnd(a, m)

(***************************************************************************)
(* Every series' artifacts lie between its one MeasurementSeriesStart and  *)
(* its one MeasurementSeriesEnd, and the start follows the start of the    *)
(* step, however AddElement of one thread races End of another.            *)
(***************************************************************************)
SeriesBracket ==
  \A m \in Series, i \in Places : OfSeries(log[i], m) =>
    /\ log[i] = SeriesStart(m) <=> ~\E a \in Before(i) : OfSeries(a, m)
    /\ ~\E a \in Before(i) : IsSeriesEnd(a, m)
    /\ StepStart(StepOf[m]) \in Before(i)

\* The elements of series m at places before i with number n.
Numbered(m, n, i) == {j \in 1..(i - 1) : IsElement(log[j], m) /\ log[j].index = n}

\* A thread adds element n of series m: it has the number, or has died with it.
IsAdding(m, n) ==
  \E t \in Threads :
    /\ on[t] = m /\ adding[t].type # "none" /\ adding[t].index = n
    /\ pc[t] \in {"lockElement", "askStep", "emitElement", "dying"}

(***************************************************************************)
(* Nothing is missing from a series and nothing is there twice: each       *)
(* number below the total of the MeasurementSeriesEnd is the index of      *)
(* exactly one element before it, unless the thread that has that number   *)
(* is still inside AddElement (where CHECK(!ended_) will kill it), and no  *)
(* element has a larger number.                                            *)
(***************************************************************************)
SeriesTotals ==
  \A m \in Series, i \in Places : IsSeriesEnd(log[i], m) =>
    /\ \A n \in 0..(log[i].total - 1) :
         \/ Cardinality(Numbered(m, n, i)) = 1
         \/ Numbered(m, n, i) = {} /\ IsAdding(m, n)
    /\ \A j \in Places : IsElement(log[j], m) => log[j].index < log[i].total

(***************************************************************************)
(* All elements of a series have one type, its type_index_, and what sets  *)
(* that first sets it for good: the constructor if there are validators,   *)
(* or else one element, even when two threads add the first elements.      *)
(***************************************************************************)
OneTypePerSeries ==
  /\ [](\A m \in Series, i \in Places :
           IsElement(log[i], m) => log[i].type = serType[m])
  /\ [][\A m \in Series : serType[m] # "none" => serType'[m] = serType[m]]_serType

(***************************************************************************)
(* Once End or the destructor has returned, the MeasurementSeriesEnd is in *)
(* the output file; so is the MeasurementSeriesStart of a series in use.   *)
(* Both are lost when a second TestRun truncates the file.                 *)
(***************************************************************************)
SeriesEndDurable ==
  file = "open" => \A m \in Series :
    /\ serEnded[m] /\ serLock[m] = Nobody =>
         \E i \in 1..durable : IsSeriesEnd(log[i], m)
    /\ serState[m] \notin {"absent", "starting"} =>
         \E i \in 1..durable : log[i] = SeriesStart(m)

\* The series' step has its TestStepEnd before place i.
StepEndBefore(m, i) == \E a \in Before(i) : IsStepEnd(a, StepOf[m])

(***************************************************************************)
(* measurement_series.h says "Elements cannot be added once the series or  *)
(* its assocated test step has been ended", and the constructor's CHECK    *)
(* "MeasurementSeries can only be created with active TestSteps".          *)
(***************************************************************************)
NothingAddedAfterStepEnd ==
  \A m \in Series, i \in Places :
    IsElement(log[i], m) \/ log[i] = SeriesStart(m) => ~StepEndBefore(m, i)

(***************************************************************************)
(* Every call that has begun returns, unless the program is killed: the    *)
(* locks of a series, of its step and of the run are always taken in this  *)
(* order, and none is kept by a call that returns.                         *)
(***************************************************************************)
CallsReturn == \A t \in Threads : (pc[t] # "idle") ~> (pc[t] = "idle" \/ aborted)
=============================================================================
