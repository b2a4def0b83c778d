----------------------- MODULE ResultCalculationProofs -----------------------
(***************************************************************************)
(* Proofs about the test result calculator, for any number of calls.       *)
(***************************************************************************)
EXTENDS ResultCalculation, SequenceTheorems, TLAPS

Calls == {"start", "skip", "error", "fail"}

\* One more report: what it adds to Reported.
LEMMA ReportedAppend ==
  ASSUME NEW h \in Seq(Calls), NEW r \in Calls, NEW x
  PROVE  V!Reported(Append(h, r), x) <=> V!Reported(h, x) \/ r = x
<1> DEFINE g == Append(h, r)
<1>1. /\ g \in Seq(Calls) /\ Len(g) = Len(h) + 1 /\ Len(h) \in Nat
      /\ \A i \in 1..Len(h) : g[i] = h[i]
      /\ g[Len(h) + 1] = r
  BY AppendProperties
<1> HIDE DEF g
<1>2. V!Reported(g, x) <=> V!Reported(h, x) \/ r = x
  BY <1>1 DEF V!Reported
<1>3. QED
  BY <1>2 DEF g

\* One more report: what it adds to CameFirst.
LEMMA CameFirstAppend ==
  ASSUME NEW h \in Seq(Calls), NEW r \in Calls, NEW x, NEW y
  PROVE  V!CameFirst(Append(h, r), x, {y})
           <=> V!CameFirst(h, x, {y}) \/ (r = x /\ ~V!Reported(h, y))
<1> DEFINE g == Append(h, r)
<1>1. /\ g \in Seq(Calls) /\ Len(g) = Len(h) + 1 /\ Len(h) \in Nat
      /\ \A i \in 1..Len(h) : g[i] = h[i]
      /\ g[Len(h) + 1] = r
  BY AppendProperties
<1> HIDE DEF g
<1>2. ASSUME V!CameFirst(g, x, {y})
      PROVE  V!CameFirst(h, x, {y}) \/ (r = x /\ ~V!Reported(h, y))
  <2>1. PICK i \in 1..Len(g) : g[i] = x /\ \A j \in 1..(i - 1) : g[j] \notin {y}
    BY <1>2 DEF V!CameFirst
  <2>2. CASE i \in 1..Len(h)
    BY <1>1, <2>1, <2>2 DEF V!CameFirst
  <2>3. CASE i = Len(h) + 1
    BY <1>1, <2>1, <2>3 DEF V!Reported
  <2>4. QED
    BY <1>1, <2>2, <2>3
<1>3. ASSUME V!CameFirst(h, x, {y})
      PROVE  V!CameFirst(g, x, {y})
  BY <1>1, <1>3 DEF V!CameFirst
<1>4. ASSUME r = x, ~V!Reported(h, y)
      PROVE  V!CameFirst(g, x, {y})
  BY <1>1, <1>4 DEF V!CameFirst, V!Reported
<1>5. QED
  BY <1>2, <1>3, <1>4 DEF g

\* What came first was reported.
LEMMA CameFirstReported ==
  ASSUME NEW h, NEW x, NEW O, V!CameFirst(h, x, O)
  PROVE  V!Reported(h, x)
BY DEF V!CameFirst, V!Reported

LEMMA InitInv == Init => IInv
<1>1. (\A x : ~V!Reported(<<>>, x)) /\ (\A x, O : ~V!CameFirst(<<>>, x, O))
  BY DEF V!Reported, V!CameFirst
<1>2. <<>> \in Seq(Calls)
  BY EmptySeq
<1>3. QED
  BY <1>1, <1>2 DEF Calls, Init, CalculatorInit, IInv, TypeOK, CalculatorTypeOK, TestStatus,
       TestResult, DigestOfHistory

LEMMA NextInv == IInv /\ [Next]_vars => IInv'
<1> SUFFICES ASSUME IInv, [Next]_vars PROVE IInv'
  OBVIOUS
<1>10. calls \in Seq(Calls) /\ CalculatorTypeOK /\ aborted \in BOOLEAN
  BY DEF IInv, TypeOK, Calls
<1>1. ASSUME NEW r \in Calls, Called(r), ~finalized
      PROVE  /\ calls' \in Seq(Calls)
             /\ \A x : V!Reported(calls', x) <=> V!Reported(calls, x) \/ r = x
             /\ \A x, y : V!CameFirst(calls', x, {y}) <=>
                  V!CameFirst(calls, x, {y}) \/ (r = x /\ ~V!Reported(calls, y))
  BY <1>1, <1>10, ReportedAppend, CameFirstAppend, AppendProperties DEF Called
<1> DEFINE Rs == V!Reported(calls, "start")   Rk == V!Reported(calls, "skip")
           Re == V!Reported(calls, "error")   Rf == V!Reported(calls, "fail")
           Fe == V!CameFirst(calls, "error", {"skip"})
           Fk == V!CameFirst(calls, "skip", {"error"})
<1>11. (Fe => Re) /\ (Fk => Rk)
  BY CameFirstReported
<1>12. IInv <=> /\ TypeOK
                /\ ~finalized =>
                     /\ runStarted <=> Rs
                     /\ runStatus = "Error" <=> Fe
                     /\ runStatus = "Skip" <=> Fk
                     /\ runStatus = "Unknown" <=> ~Rk /\ ~Re
                     /\ runResult = "Fail" <=> runStatus = "Unknown" /\ Rf
                     /\ runResult # "Pass" /\ runStatus # "Complete"
                /\ finalized => runStatus # "Unknown"
                /\ aborted => finalized
  BY DEF IInv, DigestOfHistory
<1>13. IInv' <=> /\ TypeOK'
                 /\ ~finalized' =>
                      /\ runStarted' <=> Rs'
                      /\ runStatus' = "Error" <=> Fe'
                      /\ runStatus' = "Skip" <=> Fk'
                      /\ runStatus' = "Unknown" <=> ~Rk' /\ ~Re'
                      /\ runResult' = "Fail" <=> runStatus' = "Unknown" /\ Rf'
                      /\ runResult' # "Pass" /\ runStatus' # "Complete"
                 /\ finalized' => runStatus' # "Unknown"
                 /\ aborted' => finalized'
  BY DEF IInv, DigestOfHistory
<1>2. CASE Start
  <2>1. /\ calls' \in Seq(Calls)
        /\ Rs' /\ (Rk' <=> Rk) /\ (Re' <=> Re) /\ (Rf' <=> Rf)
        /\ (Fe' <=> Fe) /\ (Fk' <=> Fk)
    BY <1>1, <1>2 DEF Start, NotifyStartRun, CheckFinalized, Calls
  <2> HIDE DEF Rs, Rk, Re, Rf, Fe, Fk
  <2>2. QED
    BY <1>2, <1>10, <1>12, <1>13, <2>1 DEF Start, NotifyStartRun, CheckFinalized, Called,
       TypeOK, CalculatorTypeOK, Calls
<1>3. CASE Skip
  <2>1. /\ calls' \in Seq(Calls)
        /\ (Rs' <=> Rs) /\ Rk' /\ (Re' <=> Re) /\ (Rf' <=> Rf)
        /\ (Fe' <=> Fe) /\ (Fk' <=> Fk \/ ~Re)
    BY <1>1, <1>3 DEF Skip, NotifySkip, SetStatusOnce, CheckFinalized, Calls
  <2> HIDE DEF Rs, Rk, Re, Rf, Fe, Fk
  <2>2. TypeOK' /\ ~finalized /\ ~finalized' /\ UNCHANGED <<runStarted, aborted>>
    BY <1>3, <1>10, <2>1 DEF Skip, NotifySkip, SetStatusOnce, CheckFinalized, Called,
       TypeOK, CalculatorTypeOK, TestStatus, TestResult, Calls
  <2>3. CASE runStatus = "Unknown"
    BY <1>3, <1>12, <1>13, <1>11, <2>1, <2>2, <2>3 DEF Skip, NotifySkip, SetStatusOnce
  <2>4. CASE runStatus # "Unknown"
    BY <1>3, <1>10, <1>12, <1>13, <1>11, <2>1, <2>2, <2>4 DEF Skip, NotifySkip,
       SetStatusOnce, CalculatorTypeOK, TestStatus
  <2>5. QED
    BY <2>3, <2>4
<1>4. CASE Error
  <2>1. /\ calls' \in Seq(Calls)
        /\ (Rs' <=> Rs) /\ (Rk' <=> Rk) /\ Re' /\ (Rf' <=> Rf)
        /\ (Fe' <=> Fe \/ ~Rk) /\ (Fk' <=> Fk)
    BY <1>1, <1>4 DEF Error, NotifyError, SetStatusOnce, CheckFinalized, Calls
  <2> HIDE DEF Rs, Rk, Re, Rf, Fe, Fk
  <2>2. TypeOK' /\ ~finalized /\ ~finalized' /\ UNCHANGED <<runStarted, aborted>>
    BY <1>4, <1>10, <2>1 DEF Error, NotifyError, SetStatusOnce, CheckFinalized, Called,
       TypeOK, CalculatorTypeOK, TestStatus, TestResult, Calls
  <2>3. CASE runStatus = "Unknown"
    BY <1>4, <1>12, <1>13, <1>11, <2>1, <2>2, <2>3 DEF Error, NotifyError, SetStatusOnce
  <2>4. CASE runStatus # "Unknown"
    BY <1>4, <1>10, <1>12, <1>13, <1>11, <2>1, <2>2, <2>4 DEF Error, NotifyError,
       SetStatusOnce, CalculatorTypeOK, TestStatus
  <2>5. QED
    BY <2>3, <2>4
<1>5. CASE Fail
  <2>1. /\ calls' \in Seq(Calls)
        /\ (Rs' <=> Rs) /\ (Rk' <=> Rk) /\ (Re' <=> Re) /\ Rf'
        /\ (Fe' <=> Fe) /\ (Fk' <=> Fk)
    BY <1>1, <1>5 DEF Fail, NotifyFailureDiagnosis, CheckFinalized, Calls
  <2> HIDE DEF Rs, Rk, Re, Rf, Fe, Fk
  <2>2. QED
    BY <1>5, <1>10, <1>12, <1>13, <2>1 DEF Fail, NotifyFailureDiagnosis, CheckFinalized,
       Called, TypeOK, CalculatorTypeOK, TestStatus, TestResult, Calls
<1>6. CASE Finish
  BY <1>6, <1>10 DEF Finish, Finalize, CheckFinalized, IInv, TypeOK, CalculatorTypeOK,
     DigestOfHistory, TestStatus, TestResult
<1>7. CASE UseAfterFinalize
  BY <1>7 DEF UseAfterFinalize, CheckFinalized, calculatorVars, IInv, TypeOK,
     CalculatorTypeOK, DigestOfHistory
<1>8. CASE UNCHANGED vars
  BY <1>8 DEF vars, IInv, TypeOK, CalculatorTypeOK, DigestOfHistory
<1>9. QED
  BY <1>2, <1>3, <1>4, <1>5, <1>6, <1>7, <1>8 DEF Next, Dead

(***************************************************************************)
(* Before Finalize, the calculator's two words are a faithful digest of    *)
(* every Notify call made so far.                                          *)
(***************************************************************************)
THEOREM Invariance == Spec => []IInv
<1>1. QED
  BY InitInv, NextInv, PTL DEF Spec

(***************************************************************************)
(* The calculator publishes the verdict that Verdict.tla defines over the  *)
(* whole history of calls, once, and never changes it.                     *)
(***************************************************************************)
THEOREM Refinement == Spec => ImplementsVerdict
<1>1. Init => V!Init
  BY DEF Init, CalculatorInit, V!Init, V!Undecided, Published
<1>2. ASSUME IInv, Next \/ UNCHANGED vars
      PROVE  V!Next \/ UNCHANGED V!verdictVars
  <2>1. ASSUME NEW r \in Calls, Called(r), CheckFinalized, UNCHANGED finalized
        PROVE  V!Next
    BY <2>1 DEF Called, CheckFinalized, Calls, V!Next, V!Hear, V!Report, V!Undecided,
       Published
  <2>2. CASE Start
    BY <2>1, <2>2 DEF Start, NotifyStartRun, Calls
  <2>3. CASE Skip
    BY <2>1, <2>3 DEF Skip, NotifySkip, SetStatusOnce, Calls
  <2>4. CASE Error
    BY <2>1, <2>4 DEF Error, NotifyError, SetStatusOnce, Calls
  <2>5. CASE Fail
    BY <2>1, <2>5 DEF Fail, NotifyFailureDiagnosis, Calls
  <2>6. CASE Finish
    <3>1. Published = V!Undecided /\ UNCHANGED calls
      BY <2>6 DEF Finish, Finalize, CheckFinalized, Published, V!Undecided
    <3>2. Published' = V!VerdictOf(calls)
      BY <1>2, <2>6, CameFirstReported DEF Finish, Finalize, CheckFinalized, Published, V!VerdictOf, IInv,
         DigestOfHistory, TypeOK, CalculatorTypeOK, TestStatus, TestResult
    <3>3. QED
      BY <3>1, <3>2 DEF V!Next, V!Decide
  <2>7. CASE UseAfterFinalize \/ UNCHANGED vars
    BY <2>7 DEF UseAfterFinalize, calculatorVars, vars, V!verdictVars, Published
  <2>8. QED
    BY <1>2, <2>2, <2>3, <2>4, <2>5, <2>6, <2>7 DEF Next, Dead
<1>3. QED
  BY Invariance, <1>1, <1>2, PTL DEF Spec, ImplementsVerdict, V!Spec

(***************************************************************************)
(* What Status() and Result() return is never taken back, except a failure *)
(* by a skip or an error, in any history of calls.  That Finalize keeps a  *)
(* skip rests on the digest: a run that is skipped has no result yet.      *)
(***************************************************************************)
THEOREM ReadingsNeverRetractedAlways == Spec => ReadingsNeverRetracted
<1> DEFINE A == /\ runStatus # "Unknown" => UNCHANGED <<runStatus, runResult>>
                /\ runResult = "Fail" => runResult' = "Fail" \/ runStatus' \in {"Skip", "Error"}
<1>1. ASSUME IInv, [Next]_vars PROVE [A]_calculatorVars
  <2>1. /\ runStatus \in TestStatus /\ runResult \in TestResult
        /\ ~finalized => /\ runResult = "Fail" => runStatus = "Unknown"
                         /\ runResult # "Pass" /\ runStatus # "Complete"
    BY <1>1 DEF IInv, TypeOK, CalculatorTypeOK, DigestOfHistory
  <2>2. CASE Start
    BY <2>2 DEF Start, NotifyStartRun
  <2>3. CASE Skip
    BY <2>3 DEF Skip, NotifySkip, SetStatusOnce
  <2>4. CASE Error
    BY <2>4 DEF Error, NotifyError, SetStatusOnce
  <2>5. CASE Fail
    BY <2>5 DEF Fail, NotifyFailureDiagnosis
  <2>6. CASE Finish
    <3>1. ~finalized
      BY <2>6 DEF Finish, Finalize, CheckFinalized
    <3>2. runStatus # "Unknown" => runResult = "NotApplicable"
      BY <2>1, <3>1 DEF TestResult
    <3> QED
      BY <2>1, <2>6, <3>1, <3>2 DEF Finish, Finalize, TestStatus
  <2>7. CASE UseAfterFinalize \/ Dead \/ UNCHANGED vars
    BY <2>7 DEF UseAfterFinalize, Dead, calculatorVars, vars
  <2> QED
    BY <1>1, <2>2, <2>3, <2>4, <2>5, <2>6, <2>7 DEF Next
<1> QED
  BY Invariance, <1>1, PTL DEF Spec, ReadingsNeverRetracted
=============================================================================
