-------------------------- MODULE NodeClientProofs --------------------------
(***************************************************************************)
(* Theorems about the clients and the host backend behind them, for every  *)
(* command line, configuration file and machine.  First what the operators *)
(* of the host backend compute: the parts of a topology, the events of an  *)
(* error report, identifiers and storage devices, which are folds and      *)
(* concatenations over the machine's data.  Then the clients: the last     *)
(* override decides, creation is all or nothing, a call reaches the        *)
(* backend that the configuration names, now and later, and what the host  *)
(* backend answers is right.                                               *)
(***************************************************************************)
EXTENDS NodeClient, FoldLemmas

-----------------------------------------------------------------------------
(* The operators of the host backend.                                      *)

\* A concatenation, part by part.
LEMMA FlattenSteps ==
  ASSUME NEW S, NEW s \in Seq(Seq(S)), s # <<>>
  PROVE  \E g \in [1..Len(s) -> Seq(S)] :
           /\ g[1] = s[1]
           /\ \A i \in 2..Len(s) : g[i] = g[i - 1] \o s[i]
           /\ FlattenSeq(s) = g[Len(s)]
<1> DEFINE Body(f) == [i \in 1..Len(s) |-> IF i = 1 THEN s[i] ELSE f[i - 1] \o s[i]]
           F == [p \in Seq(S) \X Seq(S) |-> p[1] \o p[2]]
           chosen == CHOOSE f : f = Body(f)
<1>1. Len(s) \in Nat /\ Len(s) # 0 /\ \A i \in 1..Len(s) : s[i] \in Seq(S)
  OBVIOUS
<1>2. <<>> \in Seq(S) /\ F \in [Seq(S) \X Seq(S) -> Seq(S)]
  OBVIOUS
<1>3. \A a, b \in Seq(S) : F[<<a, b>>] = a \o b
  OBVIOUS
<1> HIDE DEF F
<1>4. PICK h \in [0..Len(s) -> Seq(S)] :
             h[0] = <<>> /\ \A k \in 1..Len(s) : h[k] = F[<<h[k - 1], s[k]>>]
  <2> DEFINE none == <<>>
             parts == Seq(S)
  <2>1. none \in parts /\ F \in [parts \X parts -> parts] /\ s \in Seq(parts)
    BY <1>2
  <2> HIDE DEF none, parts
  <2>2. \E h \in [0..Len(s) -> parts] : FoldsPlaces(h, none, s, F)
    BY <2>1, FoldSteps
  <2> QED
    BY <2>2 DEF none, parts, FoldsPlaces
<1>5. \A k \in 1..Len(s) : h[k] = h[k - 1] \o s[k] /\ h[k - 1] \in Seq(S)
  <2> SUFFICES ASSUME NEW k \in 1..Len(s)
               PROVE  h[k] = h[k - 1] \o s[k] /\ h[k - 1] \in Seq(S)
    OBVIOUS
  <2>1. k - 1 \in 0..Len(s)
    BY <1>1
  <2>2. h[k - 1] \in Seq(S) /\ s[k] \in Seq(S)
    BY <1>1, <1>4, <2>1
  <2> QED
    BY <1>3, <1>4, <2>2
<1>6. h[1] = s[1]
  <2>1. 1 \in 1..Len(s) /\ 1 - 1 = 0
    BY <1>1
  <2>2. h[1] = <<>> \o s[1] /\ s[1] \in Seq(S)
    BY <1>1, <1>4, <1>5, <2>1
  <2> QED
    BY <2>2
<1> DEFINE g == [i \in 1..Len(s) |-> h[i]]
<1>7. g = Body(g)
  <2>1. ASSUME NEW i \in 1..Len(s)
        PROVE  h[i] = IF i = 1 THEN s[i] ELSE g[i - 1] \o s[i]
    <3>1. CASE i = 1
      BY <1>6, <3>1
    <3>2. CASE i # 1
      <4>1. i - 1 \in 1..Len(s)
        BY <1>1, <3>2
      <4> QED
        BY <1>5, <3>2, <4>1
    <3> QED
      BY <3>1, <3>2
  <2> QED
    BY <2>1
<1>8. chosen = Body(chosen)
  <2> HIDE DEF g, Body
  <2> QED
    BY <1>7
<1>9. FlattenSeq(s) = chosen[Len(s)]
  <2> HIDE DEF g
  <2>1. FlattenSeq(s) = (CHOOSE f : f = Body(f))[Len(s)]
    BY <1>1, Zenon DEF FlattenSeq
  <2> QED
    BY <2>1
<1> HIDE DEF chosen
<1>10. chosen[1] = s[1] /\ \A i \in 2..Len(s) : chosen[i] = chosen[i - 1] \o s[i]
  <2>1. \A i \in 1..Len(s) : Body(chosen)[i] = IF i = 1 THEN s[i] ELSE chosen[i - 1] \o s[i]
    OBVIOUS
  <2>2. \A i \in 1..Len(s) : chosen[i] = IF i = 1 THEN s[i] ELSE chosen[i - 1] \o s[i]
    <3> HIDE DEF Body
    <3> QED
      BY <1>8, <2>1
  <2>3. 1 \in 1..Len(s) /\ \A i \in 2..Len(s) : i \in 1..Len(s) /\ i # 1
    BY <1>1
  <2> QED
    BY <2>2, <2>3
<1>11. \A i \in 1..Len(s) : chosen[i] = g[i]
  <2> DEFINE T == {k \in Nat : k + 1 <= Len(s) => chosen[k + 1] = g[k + 1]}
  <2>1. 0 \in T
    BY <1>1, <1>6, <1>10
  <2>2. ASSUME NEW k \in Nat, k \in T PROVE k + 1 \in T
    <3> SUFFICES ASSUME k + 2 <= Len(s) PROVE chosen[k + 2] = g[k + 2]
      BY SMT
    <3>1. k + 2 \in 2..Len(s) /\ k + 2 \in 1..Len(s) /\ k + 1 \in 1..Len(s) /\ (k + 2) - 1 = k + 1
      BY <1>1
    <3>2. chosen[k + 1] = g[k + 1]
      BY <1>1, <2>2, <3>1
    <3>3. chosen[k + 2] = chosen[k + 1] \o s[k + 2]
      BY <1>10, <3>1
    <3>4. h[k + 2] = h[k + 1] \o s[k + 2]
      BY <1>5, <3>1
    <3> QED
      BY <3>1, <3>2, <3>3, <3>4
  <2> HIDE DEF T, g
  <2>3. Nat \subseteq T
    BY <2>1, <2>2, SetInduction
  <2> SUFFICES ASSUME NEW i \in 1..Len(s) PROVE chosen[i] = g[i]
    OBVIOUS
  <2>4. i - 1 \in T /\ (i - 1) + 1 = i
    BY <1>1, <2>3
  <2> QED
    BY <1>1, <2>4 DEF T
<1>12. g \in [1..Len(s) -> Seq(S)]
  BY <1>1, <1>4
<1>13. g[1] = s[1]
  BY <1>1, <1>6
<1>14. \A i \in 2..Len(s) : g[i] = g[i - 1] \o s[i]
  <2> SUFFICES ASSUME NEW i \in 2..Len(s) PROVE g[i] = g[i - 1] \o s[i]
    OBVIOUS
  <2>1. i \in 1..Len(s) /\ i - 1 \in 1..Len(s)
    BY <1>1
  <2> QED
    BY <1>5, <2>1
<1>15. FlattenSeq(s) = g[Len(s)]
  <2>1. Len(s) \in 1..Len(s)
    BY <1>1
  <2> HIDE DEF g
  <2> QED
    BY <1>9, <1>11, <2>1
<1> HIDE DEF g
<1> QED
  BY <1>12, <1>13, <1>14, <1>15

----------------------------------------------------------------------------
(* The three loops.                                                        *)

\* What ParseRangeList keeps while it reads.
RangesRead == [status : {"ok", "error"}, last : Int, value : Seq(Int)]

\* What ParseErrorReport keeps while it reads lines of the set L.
ReportRead(L) ==
  [step : {"MC_TITLE", "MC_RECORD", "FINISH", "returned", "failed"}, errors : Seq(L)]

\* The ranges of a list, one by one.
LEMMA RangeSteps ==
  ASSUME NEW text \in Seq(Seq(Int))
  PROVE  \E h \in [0..Len(text) -> RangesRead] :
           /\ h[0] = [status |-> "ok", last |-> -1, value |-> <<>>]
           /\ \A k \in 1..Len(text) : h[k] = AddRange(h[k - 1], text[k])
           /\ FoldLeft(AddRange, [status |-> "ok", last |-> -1, value |-> <<>>], text) =
                h[Len(text)]
<1> DEFINE F == [p \in RangesRead \X Seq(Int) |-> AddRange(p[1], p[2])]
           start == [status |-> "ok", last |-> -1, value |-> <<>>]
           Body(f) == [s \in SUBSET (DOMAIN text) |->
                         IF s = {} THEN start
                         ELSE AddRange(f[s \ {Max(s)}], text[Max(s)])]
           chosen == CHOOSE f : f = Body(f)
           n == Len(text)
<1>1. n \in Nat /\ DOMAIN text = 1..n /\ \A k \in 1..n : text[k] \in Seq(Int)
  OBVIOUS
<1>2. start \in RangesRead
  BY DEF RangesRead
<1>3. \A a \in RangesRead, e \in Seq(Int) : AddRange(a, e) \in RangesRead
  <2> SUFFICES ASSUME NEW a \in RangesRead, NEW e \in Seq(Int)
               PROVE  AddRange(a, e) \in RangesRead
    OBVIOUS
  <2> DEFINE good == /\ a.status = "ok"
                     /\ Len(e) \in {1, 2} /\ \A i \in DOMAIN e : e[i] # Garbage
                     /\ a.last < e[1] /\ e[1] <= e[Len(e)]
             next == [i \in 1..(e[Len(e)] - e[1] + 1) |-> e[1] + i - 1]
  <2>1. /\ a.status \in {"ok", "error"} /\ a.last \in Int /\ a.value \in Seq(Int)
    BY DEF RangesRead
  <2>2. CASE good
    <3>1. e[1] \in Int /\ e[Len(e)] \in Int /\ e[1] <= e[Len(e)]
      BY <2>2
    <3>2. PICK x, y \in Int : x = e[1] /\ y = e[Len(e)] /\ x <= y
      BY <3>1
    <3>3. y - x + 1 \in Nat /\ next = [i \in 1..(y - x + 1) |-> x + i - 1]
      BY <3>2
    <3>4. next \in Seq(Int)
      <4>1. \A i \in 1..(y - x + 1) : x + i - 1 \in Int
        BY <3>2, <3>3
      <4>2. [i \in 1..(y - x + 1) |-> x + i - 1] \in [1..(y - x + 1) -> Int]
        BY <4>1
      <4>3. [1..(y - x + 1) -> Int] \subseteq Seq(Int)
        <5>1. PICK k \in Nat : k = y - x + 1
          BY <3>3
        <5> QED
          BY <5>1
      <4> QED
        BY <3>3, <4>2, <4>3
    <3>5. AddRange(a, e) = [status |-> "ok", last |-> e[Len(e)], value |-> a.value \o next]
      BY <2>2 DEF AddRange
    <3> HIDE DEF next
    <3>6. a.value \o next \in Seq(Int)
      BY <2>1, <3>4
    <3> QED
      BY <3>1, <3>5, <3>6 DEF RangesRead
  <2>3. CASE ~good
    <3>1. AddRange(a, e) = [status |-> "error", last |-> a.last, value |-> <<>>]
      BY <2>3 DEF AddRange
    <3> QED
      BY <2>1, <3>1 DEF RangesRead
  <2> QED
    BY <2>2, <2>3
<1>4. /\ F \in [RangesRead \X Seq(Int) -> RangesRead]
      /\ \A a \in RangesRead, e \in Seq(Int) : F[<<a, e>>] = AddRange(a, e)
  BY <1>3
<1> HIDE DEF F, start
<1>5. PICK f \in [SUBSET (1..n) -> RangesRead] : FoldsSets(f, start, text, F)
  BY <1>2, <1>4, FoldDefined
<1>6. \A s \in SUBSET (1..n) :
        f[s] = IF s = {} THEN start ELSE AddRange(f[s \ {Max(s)}], text[Max(s)])
  <2> SUFFICES ASSUME NEW s \in SUBSET (1..n), s # {}
               PROVE  f[s] = AddRange(f[s \ {Max(s)}], text[Max(s)])
    BY <1>5 DEF FoldsSets
  <2>1. Max(s) \in 1..n
    BY <1>1, Greatest
  <2>2. PICK i \in 1..n : i = Max(s)
    BY <2>1
  <2>3. s \ {i} \in SUBSET (1..n) /\ f[s] = F[<<f[s \ {i}], text[i]>>]
    BY <1>5, <2>2 DEF FoldsSets
  <2>4. f[s \ {i}] \in RangesRead /\ text[i] \in Seq(Int)
    BY <1>1, <1>5, <2>3
  <2> QED
    BY <1>4, <2>2, <2>3, <2>4
<1>7. f = Body(f)
  BY <1>1, <1>6
<1>8. chosen = Body(chosen)
  <2> HIDE DEF Body
  <2> QED
    BY <1>7
<1>9. FoldLeft(AddRange, [status |-> "ok", last |-> -1, value |-> <<>>], text) = chosen[1..n]
  <2>1. FoldLeft(AddRange, [status |-> "ok", last |-> -1, value |-> <<>>], text) =
          (CHOOSE g : g = Body(g))[DOMAIN text]
    BY Zenon DEF FoldLeft, MapThenFoldSet, start
  <2> QED
    BY <1>1, <2>1
<1> HIDE DEF chosen
<1>10. \A s \in SUBSET (1..n) :
        chosen[s] = IF s = {} THEN start
                    ELSE AddRange(chosen[s \ {Max(s)}], text[Max(s)])
  <2>1. \A s \in SUBSET (1..n) :
          Body(chosen)[s] = IF s = {} THEN start
                            ELSE AddRange(chosen[s \ {Max(s)}], text[Max(s)])
    BY <1>1
  <2> HIDE DEF Body
  <2> QED
    BY <1>8, <2>1
<1> DEFINE h == [k \in 0..n |-> chosen[1..k]]
<1>11. h[0] = start /\ 0 \in 0..n
  <2>1. 1..0 = {} /\ 0 \in 0..n
    BY <1>1
  <2> QED
    BY <1>10, <2>1
<1>12. \A k \in 1..n : h[k] = AddRange(h[k - 1], text[k])
  <2> SUFFICES ASSUME NEW k \in 1..n PROVE h[k] = AddRange(h[k - 1], text[k])
    OBVIOUS
  <2>1. k \in Nat /\ k # 0 /\ k \in 0..n /\ k - 1 \in 0..n /\ 1..k \in SUBSET (1..n)
    BY <1>1
  <2>2. Max(1..k) = k /\ (1..k) \ {k} = 1..(k - 1) /\ 1..k # {}
    BY <2>1, Places
  <2>3. chosen[1..k] = AddRange(chosen[1..(k - 1)], text[k])
    BY <1>10, <2>1, <2>2
  <2> QED
    BY <2>1, <2>3
<1>13. n \in 0..n /\ h[n] = chosen[1..n]
  BY <1>1
<1> HIDE DEF h
<1>13a. FoldLeft(AddRange, [status |-> "ok", last |-> -1, value |-> <<>>], text) = h[n]
  BY <1>9, <1>13, Zenon
<1> DEFINE T == {k \in Nat : k <= n => h[k] \in RangesRead}
<1>14. 0 \in T
  BY <1>2, <1>11
<1>15. ASSUME NEW k \in Nat, k \in T PROVE k + 1 \in T
  <2> SUFFICES ASSUME k + 1 <= n PROVE h[k + 1] \in RangesRead
    OBVIOUS
  <2>1. k + 1 \in 1..n /\ (k + 1) - 1 = k
    BY <1>1
  <2>2. h[k] \in RangesRead /\ text[k + 1] \in Seq(Int)
    BY <1>1, <1>15, <2>1
  <2>3. h[k + 1] = AddRange(h[k], text[k + 1])
    BY <1>12, <2>1
  <2> QED
    BY <1>3, <2>2, <2>3
<1>16. \A k \in 0..n : h[k] \in RangesRead
  <2> HIDE DEF T
  <2>1. Nat \subseteq T
    BY <1>14, <1>15, SetInduction
  <2> QED
    BY <1>1, <2>1 DEF T
<1>17. h \in [0..n -> RangesRead]
  <2>1. h = [k \in 0..n |-> h[k]]
    BY DEF h
  <2> QED
    BY <1>16, <2>1
<1> QED
  BY <1>11, <1>12, <1>13a, <1>17, Zenon DEF start

\* The lines of a report, one by one.
LEMMA LineSteps ==
  ASSUME NEW L, NEW lines \in Seq(L)
  PROVE  \E h \in [0..Len(lines) -> ReportRead(L)] :
           /\ h[0] = [step |-> "MC_TITLE", errors |-> <<>>]
           /\ \A k \in 1..Len(lines) : h[k] = ParseLine(h[k - 1], lines[k])
           /\ FoldLeft(ParseLine, [step |-> "MC_TITLE", errors |-> <<>>], lines) = h[Len(lines)]
<1> DEFINE F == [p \in ReportRead(L) \X L |-> ParseLine(p[1], p[2])]
           start == [step |-> "MC_TITLE", errors |-> <<>>]
           Body(f) == [s \in SUBSET (DOMAIN lines) |->
                         IF s = {} THEN start
                         ELSE ParseLine(f[s \ {Max(s)}], lines[Max(s)])]
           chosen == CHOOSE f : f = Body(f)
           n == Len(lines)
<1>1. n \in Nat /\ DOMAIN lines = 1..n /\ \A k \in 1..n : lines[k] \in L
  OBVIOUS
<1>2. start \in ReportRead(L)
  BY DEF ReportRead
<1>3. \A a \in ReportRead(L), e \in L : ParseLine(a, e) \in ReportRead(L)
  <2> SUFFICES ASSUME NEW a \in ReportRead(L), NEW e \in L
               PROVE  ParseLine(a, e) \in ReportRead(L)
    OBVIOUS
  <2>1. /\ a = [step |-> a.step, errors |-> a.errors] /\ a.errors \in Seq(L)
        /\ a.step \in {"MC_TITLE", "MC_RECORD", "FINISH", "returned", "failed"}
    BY DEF ReportRead
  <2>2. Append(a.errors, e) \in Seq(L)
    BY <2>1
  <2>3. \A st \in {"MC_RECORD", "FINISH", "returned", "failed"} :
          [a EXCEPT !.step = st] \in ReportRead(L)
    BY <2>1 DEF ReportRead
  <2>4. [a EXCEPT !.errors = Append(@, e)] \in ReportRead(L)
    BY <2>1, <2>2 DEF ReportRead
  <2>5. CASE a.step \in {"failed", "returned"}
    BY <2>5 DEF ParseLine
  <2>6. CASE a.step = "MC_TITLE"
    BY <2>3, <2>6 DEF ParseLine
  <2>7. CASE a.step = "FINISH"
    BY <2>3, <2>7 DEF ParseLine
  <2>8. CASE a.step = "MC_RECORD"
    BY <2>3, <2>4, <2>8 DEF ParseLine
  <2> QED
    BY <2>1, <2>5, <2>6, <2>7, <2>8
<1>4. /\ F \in [ReportRead(L) \X L -> ReportRead(L)]
      /\ \A a \in ReportRead(L), e \in L : F[<<a, e>>] = ParseLine(a, e)
  BY <1>3
<1> HIDE DEF F, start
<1>5. PICK f \in [SUBSET (1..n) -> ReportRead(L)] : FoldsSets(f, start, lines, F)
  BY <1>2, <1>4, FoldDefined
<1>6. \A s \in SUBSET (1..n) :
        f[s] = IF s = {} THEN start ELSE ParseLine(f[s \ {Max(s)}], lines[Max(s)])
  <2> SUFFICES ASSUME NEW s \in SUBSET (1..n), s # {}
               PROVE  f[s] = ParseLine(f[s \ {Max(s)}], lines[Max(s)])
    BY <1>5 DEF FoldsSets
  <2>1. Max(s) \in 1..n
    BY <1>1, Greatest
  <2>2. PICK i \in 1..n : i = Max(s)
    BY <2>1
  <2>3. s \ {i} \in SUBSET (1..n) /\ f[s] = F[<<f[s \ {i}], lines[i]>>]
    BY <1>5, <2>2 DEF FoldsSets
  <2>4. f[s \ {i}] \in ReportRead(L) /\ lines[i] \in L
    BY <1>1, <1>5, <2>3
  <2> QED
    BY <1>4, <2>2, <2>3, <2>4
<1>7. f = Body(f)
  BY <1>1, <1>6
<1>8. chosen = Body(chosen)
  <2> HIDE DEF Body
  <2> QED
    BY <1>7
<1>9. FoldLeft(ParseLine, [step |-> "MC_TITLE", errors |-> <<>>], lines) = chosen[1..n]
  <2>1. FoldLeft(ParseLine, [step |-> "MC_TITLE", errors |-> <<>>], lines) =
          (CHOOSE g : g = Body(g))[DOMAIN lines]
    BY Zenon DEF FoldLeft, MapThenFoldSet, start
  <2> QED
    BY <1>1, <2>1
<1> HIDE DEF chosen
<1>10. \A s \in SUBSET (1..n) :
        chosen[s] = IF s = {} THEN start
                    ELSE ParseLine(chosen[s \ {Max(s)}], lines[Max(s)])
  <2>1. \A s \in SUBSET (1..n) :
          Body(chosen)[s] = IF s = {} THEN start
                            ELSE ParseLine(chosen[s \ {Max(s)}], lines[Max(s)])
    BY <1>1
  <2> HIDE DEF Body
  <2> QED
    BY <1>8, <2>1
<1> DEFINE h == [k \in 0..n |-> chosen[1..k]]
<1>11. h[0] = start /\ 0 \in 0..n
  <2>1. 1..0 = {} /\ 0 \in 0..n
    BY <1>1
  <2> QED
    BY <1>10, <2>1
<1>12. \A k \in 1..n : h[k] = ParseLine(h[k - 1], lines[k])
  <2> SUFFICES ASSUME NEW k \in 1..n PROVE h[k] = ParseLine(h[k - 1], lines[k])
    OBVIOUS
  <2>1. k \in Nat /\ k # 0 /\ k \in 0..n /\ k - 1 \in 0..n /\ 1..k \in SUBSET (1..n)
    BY <1>1
  <2>2. Max(1..k) = k /\ (1..k) \ {k} = 1..(k - 1) /\ 1..k # {}
    BY <2>1, Places
  <2>3. chosen[1..k] = ParseLine(chosen[1..(k - 1)], lines[k])
    BY <1>10, <2>1, <2>2
  <2> QED
    BY <2>1, <2>3
<1>13. n \in 0..n /\ h[n] = chosen[1..n]
  BY <1>1
<1> HIDE DEF h
<1>13a. FoldLeft(ParseLine, [step |-> "MC_TITLE", errors |-> <<>>], lines) = h[n]
  BY <1>9, <1>13, Zenon
<1> DEFINE T == {k \in Nat : k <= n => h[k] \in ReportRead(L)}
<1>14. 0 \in T
  BY <1>2, <1>11
<1>15. ASSUME NEW k \in Nat, k \in T PROVE k + 1 \in T
  <2> SUFFICES ASSUME k + 1 <= n PROVE h[k + 1] \in ReportRead(L)
    OBVIOUS
  <2>1. k + 1 \in 1..n /\ (k + 1) - 1 = k
    BY <1>1
  <2>2. h[k] \in ReportRead(L) /\ lines[k + 1] \in L
    BY <1>1, <1>15, <2>1
  <2>3. h[k + 1] = ParseLine(h[k], lines[k + 1])
    BY <1>12, <2>1
  <2> QED
    BY <1>3, <2>2, <2>3
<1>16. \A k \in 0..n : h[k] \in ReportRead(L)
  <2> HIDE DEF T
  <2>1. Nat \subseteq T
    BY <1>14, <1>15, SetInduction
  <2> QED
    BY <1>1, <2>1 DEF T
<1>17. h \in [0..n -> ReportRead(L)]
  <2>1. h = [k \in 0..n |-> h[k]]
    BY DEF h
  <2> QED
    BY <1>16, <2>1
<1> QED
  BY <1>11, <1>12, <1>13a, <1>17, Zenon DEF start

\* The errors of a report, one by one.
LEMMA KeptSteps ==
  ASSUME NEW L, NEW errors \in Seq(L), NEW filter
  PROVE  \E h \in [0..Len(errors) -> Seq(L)] :
           /\ h[0] = <<>>
           /\ \A k \in 1..Len(errors) : h[k] = (IF Wanted(errors[k], filter)
                                                THEN Append(h[k - 1], errors[k])
                                                ELSE h[k - 1])
           /\ WantedErrors(errors, filter) = h[Len(errors)]
<1> DEFINE F == [p \in Seq(L) \X L |-> (IF Wanted(p[2], filter) THEN Append(p[1], p[2]) ELSE p[1])]
           start == <<>>
           Body(f) == [s \in SUBSET (DOMAIN errors) |->
                         IF s = {} THEN start
                         ELSE (IF Wanted(errors[Max(s)], filter)
                               THEN Append(f[s \ {Max(s)}], errors[Max(s)])
                               ELSE f[s \ {Max(s)}])]
           chosen == CHOOSE f : f = Body(f)
           n == Len(errors)
<1>1. n \in Nat /\ DOMAIN errors = 1..n /\ \A k \in 1..n : errors[k] \in L
  OBVIOUS
<1>2. start \in Seq(L)
  OBVIOUS
<1>3. \A a \in Seq(L), e \in L : (IF Wanted(e, filter) THEN Append(a, e) ELSE a) \in Seq(L)
  OBVIOUS
<1>4. /\ F \in [Seq(L) \X L -> Seq(L)]
      /\ \A a \in Seq(L), e \in L : F[<<a, e>>] = (IF Wanted(e, filter) THEN Append(a, e) ELSE a)
  BY <1>3
<1> HIDE DEF F, start
<1>5. PICK f \in [SUBSET (1..n) -> Seq(L)] : FoldsSets(f, start, errors, F)
  BY <1>2, <1>4, FoldDefined
<1>6. \A s \in SUBSET (1..n) :
        f[s] = IF s = {} THEN start
               ELSE (IF Wanted(errors[Max(s)], filter)
                     THEN Append(f[s \ {Max(s)}], errors[Max(s)])
                     ELSE f[s \ {Max(s)}])
  <2> SUFFICES ASSUME NEW s \in SUBSET (1..n), s # {}
               PROVE  f[s] = (IF Wanted(errors[Max(s)], filter)
                              THEN Append(f[s \ {Max(s)}], errors[Max(s)])
                              ELSE f[s \ {Max(s)}])
    BY <1>5 DEF FoldsSets
  <2>1. Max(s) \in 1..n
    BY <1>1, Greatest
  <2>2. PICK i \in 1..n : i = Max(s)
    BY <2>1
  <2>3. s \ {i} \in SUBSET (1..n) /\ f[s] = F[<<f[s \ {i}], errors[i]>>]
    BY <1>5, <2>2 DEF FoldsSets
  <2>4. f[s \ {i}] \in Seq(L) /\ errors[i] \in L
    BY <1>1, <1>5, <2>3
  <2> QED
    BY <1>4, <2>2, <2>3, <2>4
<1>7. f = Body(f)
  BY <1>1, <1>6
<1>8. chosen = Body(chosen)
  <2> HIDE DEF Body
  <2> QED
    BY <1>7
<1>9. WantedErrors(errors, filter) = chosen[1..n]
  <2>1. WantedErrors(errors, filter) = (CHOOSE g : g = Body(g))[DOMAIN errors]
    BY Zenon DEF FoldLeft, MapThenFoldSet, start, WantedErrors
  <2> QED
    BY <1>1, <2>1
<1> HIDE DEF chosen
<1>10. \A s \in SUBSET (1..n) :
        chosen[s] = IF s = {} THEN start
                    ELSE (IF Wanted(errors[Max(s)], filter)
                          THEN Append(chosen[s \ {Max(s)}], errors[Max(s)])
                          ELSE chosen[s \ {Max(s)}])
  <2>1. \A s \in SUBSET (1..n) :
          Body(chosen)[s] = IF s = {} THEN start
                            ELSE (IF Wanted(errors[Max(s)], filter)
                                  THEN Append(chosen[s \ {Max(s)}], errors[Max(s)])
                                  ELSE chosen[s \ {Max(s)}])
    BY <1>1
  <2> HIDE DEF Body
  <2> QED
    BY <1>8, <2>1
<1> DEFINE h == [k \in 0..n |-> chosen[1..k]]
<1>11. h[0] = start /\ 0 \in 0..n
  <2>1. 1..0 = {} /\ 0 \in 0..n
    BY <1>1
  <2> QED
    BY <1>10, <2>1
<1>12. \A k \in 1..n : h[k] = (IF Wanted(errors[k], filter)
                               THEN Append(h[k - 1], errors[k])
                               ELSE h[k - 1])
  <2> SUFFICES ASSUME NEW k \in 1..n PROVE h[k] = (IF Wanted(errors[k], filter)
                                                   THEN Append(h[k - 1], errors[k])
                                                   ELSE h[k - 1])
    OBVIOUS
  <2>1. k \in Nat /\ k # 0 /\ k \in 0..n /\ k - 1 \in 0..n /\ 1..k \in SUBSET (1..n)
    BY <1>1
  <2>2. Max(1..k) = k /\ (1..k) \ {k} = 1..(k - 1) /\ 1..k # {}
    BY <2>1, Places
  <2>3. chosen[1..k] = (IF Wanted(errors[k], filter)
                        THEN Append(chosen[1..(k - 1)], errors[k])
                        ELSE chosen[1..(k - 1)])
    BY <1>10, <2>1, <2>2
  <2> QED
    BY <2>1, <2>3
<1>13. n \in 0..n /\ h[n] = chosen[1..n]
  BY <1>1
<1> HIDE DEF h
<1>13a. WantedErrors(errors, filter) = h[n]
  BY <1>9, <1>13, Zenon
<1> DEFINE T == {k \in Nat : k <= n => h[k] \in Seq(L)}
<1>14. 0 \in T
  BY <1>2, <1>11
<1>15. ASSUME NEW k \in Nat, k \in T PROVE k + 1 \in T
  <2> SUFFICES ASSUME k + 1 <= n PROVE h[k + 1] \in Seq(L)
    OBVIOUS
  <2>1. k + 1 \in 1..n /\ (k + 1) - 1 = k
    BY <1>1
  <2>2. h[k] \in Seq(L) /\ errors[k + 1] \in L
    BY <1>1, <1>15, <2>1
  <2>3. h[k + 1] = (IF Wanted(errors[k + 1], filter) THEN Append(h[k], errors[k + 1]) ELSE h[k])
    BY <1>12, <2>1
  <2> QED
    BY <1>3, <2>2, <2>3
<1>16. \A k \in 0..n : h[k] \in Seq(L)
  <2> HIDE DEF T
  <2>1. Nat \subseteq T
    BY <1>14, <1>15, SetInduction
  <2> QED
    BY <1>1, <2>1 DEF T
<1>17. h \in [0..n -> Seq(L)]
  <2>1. h = [k \in 0..n |-> h[k]]
    BY DEF h
  <2> QED
    BY <1>16, <2>1
<1> QED
  BY <1>11, <1>12, <1>13a, <1>17, Zenon DEF start

----------------------------------------------------------------------------
(* Lists of answers, and storage.                                          *)

\* When all of a list of answers is good, each of them is.
LEMMA AllOkIs ==
  ASSUME NEW answers, IsList(answers), IsOk(AllOk(answers))
  PROVE  /\ \A i \in DOMAIN answers : IsOk(answers[i])
         /\ AllOk(answers) = Ok([i \in DOMAIN answers |-> answers[i].value])
         /\ DOMAIN answers = 1..Len(answers) /\ Len(answers) \in Nat
<1>0. DOMAIN answers = 1..Len(answers) /\ Len(answers) \in Nat
  BY DEF IsList
<1>1. ASSUME \E i \in DOMAIN answers : ~IsOk(answers[i]) PROVE FALSE
  <2> DEFINE I == {i \in 1..Len(answers) : ~IsOk(answers[i])}
  <2>1. I # {} /\ I \subseteq Nat
    BY <1>0, <1>1
  <2> HIDE DEF I
  <2>2. \E x \in I : \A y \in I : x <= y
    BY <2>1, Least
  <2>3. Min(I) \in I
    BY <2>2 DEF Min
  <2>4. AllOk(answers) = answers[SelectInSeq(answers, LAMBDA a : ~IsOk(a))]
    BY <1>1, Zenon DEF AllOk
  <2>5. SelectInSeq(answers, LAMBDA a : ~IsOk(a)) = Min(I)
    BY <2>1, Zenon DEF SelectInSeq, I
  <2>6. ~IsOk(answers[Min(I)])
    BY <2>3 DEF I
  <2> QED
    BY <2>4, <2>5, <2>6
<1>2. \A i \in DOMAIN answers : IsOk(answers[i])
  BY <1>1
<1> QED
  BY <1>0, <1>2 DEF AllOk

\* A function on 1..n is a list.
LEMMA ListIs ==
  ASSUME NEW n \in Nat, NEW f, f = [i \in 1..n |-> f[i]]
  PROVE  IsList(f) /\ Len(f) = n /\ DOMAIN f = 1..n
<1>1. f \in [1..n -> Range(f)]
  BY DEF Range
<1> QED
  BY <1>1 DEF IsList

\* Concatenating sequences of one member lists these.
LEMMA FlattenSingletons ==
  ASSUME NEW S, NEW s \in Seq(Seq(S)), \A i \in DOMAIN s : Len(s[i]) = 1
  PROVE  FlattenSeq(s) = [i \in DOMAIN s |-> s[i][1]]
<1>1. CASE s = <<>>
  <2>1. Len(s) = 0 /\ DOMAIN s = {}
    BY <1>1
  <2>2. FlattenSeq(s) = s
    BY <2>1, Zenon DEF FlattenSeq
  <2>3. s = [i \in DOMAIN s |-> s[i]]
    OBVIOUS
  <2>4. [i \in DOMAIN s |-> s[i]] = [i \in DOMAIN s |-> s[i][1]]
    BY <2>1
  <2> QED
    BY <2>2, <2>3, <2>4
<1>2. CASE s # <<>>
  <2>1. PICK g \in [1..Len(s) -> Seq(S)] :
             /\ g[1] = s[1]
             /\ \A i \in 2..Len(s) : g[i] = g[i - 1] \o s[i]
             /\ FlattenSeq(s) = g[Len(s)]
    BY <1>2, FlattenSteps
  <2>2. Len(s) \in Nat /\ Len(s) # 0 /\ DOMAIN s = 1..Len(s)
    BY <1>2
  <2>3. \A i \in 1..Len(s) : s[i] \in Seq(S) /\ Len(s[i]) = 1
    <3>1. \A i \in DOMAIN s : s[i] \in Seq(S)
      OBVIOUS
    <3> QED
      BY <2>2, <3>1
  <2> DEFINE firsts(k) == [i \in 1..k |-> s[i][1]]
             T == {k \in Nat : k + 1 <= Len(s) => g[k + 1] = firsts(k + 1)}
  <2>4. 0 \in T
    <3>1. 1 \in 1..Len(s)
      BY <2>2
    <3>2. s[1] \in Seq(S) /\ Len(s[1]) = 1
      BY <2>3, <3>1
    <3>3. s[1] = firsts(1)
      BY <3>2
    <3> QED
      BY <2>1, <3>3
  <2>5. ASSUME NEW k \in Nat, k \in T PROVE k + 1 \in T
    <3> HIDE DEF firsts
    <3> SUFFICES ASSUME (k + 1) + 1 <= Len(s) PROVE g[(k + 1) + 1] = firsts((k + 1) + 1)
      OBVIOUS
    <3> USE DEF firsts
    <3>1. k + 2 \in 2..Len(s) /\ k + 2 \in 1..Len(s) /\ k + 1 \in 1..Len(s)
          /\ (k + 2) - 1 = k + 1
      BY <2>2
    <3>2. g[k + 1] = firsts(k + 1)
      BY <2>2, <2>5, <3>1
    <3>3. g[k + 2] = firsts(k + 1) \o s[k + 2]
      BY <2>1, <3>1, <3>2
    <3>4. PICK e \in Seq(S) : e = s[k + 2] /\ Len(e) = 1
      BY <2>3, <3>1
    <3>5. firsts(k + 1) \in Seq(S)
      BY <2>1, <3>1, <3>2
    <3>6. PICK a \in Seq(S) : a = firsts(k + 1)
      BY <3>5
    <3>7. Len(a) = k + 1 /\ \A i \in 1..(k + 1) : a[i] = s[i][1]
      BY <3>6
    <3> HIDE DEF firsts
    <3>8. PICK b \in Seq(S) :
            /\ b = a \o e
            /\ Len(b) = Len(a) + Len(e)
            /\ \A i \in 1..(Len(a) + Len(e)) :
                 b[i] = IF i <= Len(a) THEN a[i] ELSE e[i - Len(a)]
      <4>1. /\ a \o e \in Seq(S)
            /\ Len(a \o e) = Len(a) + Len(e)
            /\ \A i \in 1..(Len(a) + Len(e)) :
                 (a \o e)[i] = IF i <= Len(a) THEN a[i] ELSE e[i - Len(a)]
        BY ConcatProperties, Zenon
      <4> QED
        BY <4>1, Zenon
    <3>9. ASSUME NEW i \in 1..(k + 2) PROVE b[i] = s[i][1]
      <4>1. i \in 1..(Len(a) + Len(e))
        BY <3>4, <3>7
      <4>2. CASE i <= k + 1
        <5>1. i \in 1..(k + 1) /\ i <= Len(a)
          BY <3>7, <4>2
        <5> QED
          BY <3>7, <3>8, <4>1, <5>1
      <4>3. CASE i = k + 2
        <5>1. i - Len(a) = 1 /\ ~(i <= Len(a))
          BY <3>7, <4>3
        <5>2. b[i] = e[1]
          BY <3>8, <4>1, <5>1
        <5> QED
          BY <3>4, <4>3, <5>2
      <4>4. i <= k + 1 \/ i = k + 2
        OBVIOUS
      <4> QED
        BY <4>2, <4>3, <4>4
    <3>10. b = firsts(k + 2)
      <4>1. Len(b) = k + 2
        BY <3>4, <3>7, <3>8
      <4>2. DOMAIN b = 1..Len(b) /\ b = [i \in DOMAIN b |-> b[i]]
        OBVIOUS
      <4>3. b = [i \in 1..(k + 2) |-> b[i]]
        BY <4>1, <4>2
      <4> QED
        BY <3>9, <4>3 DEF firsts
    <3>11. (k + 1) + 1 = k + 2
      OBVIOUS
    <3> QED
      BY <3>3, <3>4, <3>6, <3>8, <3>10, <3>11
  <2> HIDE DEF T
  <2>6. Nat \subseteq T
    BY <2>4, <2>5, SetInduction
  <2>7. Len(s) - 1 \in Nat /\ (Len(s) - 1) + 1 = Len(s)
    BY <2>2
  <2>8. g[Len(s)] = firsts(Len(s))
    <3>1. Len(s) - 1 \in T
      BY <2>6, <2>7
    <3> QED
      BY <2>2, <2>7, <3>1 DEF T
  <2> QED
    BY <2>1, <2>2, <2>8
<1> QED
  BY <1>1, <1>2

\* A storage answer has an entry per disk, with what was asked of it.
StorageAnswered(m, types, answer) ==
  /\ DOMAIN answer.value.infos = 1..Len(m.disks) /\ DOMAIN m.disks = 1..Len(m.disks)
  /\ Len(answer.value.infos) = Len(m.disks) /\ Len(m.disks) \in Nat
  /\ \A i \in 1..Len(m.disks) :
       /\ answer.value.infos[i].id =
            IF InfoTypeHave(types, "IDENTIFIER")
            THEN <<Identifier(m.disks[i].all.serial, m.disks[i].type)>> ELSE <<>>
       /\ answer.value.infos[i].security =
            IF InfoTypeHave(types, "SECURITY_INFO")
            THEN <<SecurityInfo(m.disks[i].security)>> ELSE <<>>
  /\ answer.value.ids =
       FlattenSeq([i \in 1..Len(m.disks) |-> answer.value.infos[i].id])

\* The whole answer, or an error.
LEMMA StorageRight ==
  ASSUME NEW m, IsMachine(m), NEW types, NEW answer,
         answer = GetStorageInfo(m, types), IsOk(answer)
  PROVE  StorageAnswered(m, types, answer)
<1> DEFINE answers == [i \in DOMAIN m.disks |-> Storage(m.disks[i], types)]
           infos == AllOk(answers)
<1>1. DOMAIN m.disks = 1..Len(m.disks) /\ Len(m.disks) \in Nat
  BY DEF IsMachine, IsList
<1>2. IsList(answers) /\ DOMAIN answers = 1..Len(m.disks)
  <2>1. answers = [i \in 1..Len(m.disks) |-> answers[i]]
    BY <1>1
  <2> HIDE DEF answers
  <2> QED
    BY <1>1, <2>1, ListIs
<1>3. \A i \in DOMAIN m.disks : answers[i] = Storage(m.disks[i], types)
  OBVIOUS
<1>4. IsOk(infos) /\ answer = Ok([infos |-> infos.value,
         ids |-> FlattenSeq([i \in DOMAIN infos.value |-> infos.value[i].id])])
  <2>1. Error.status # "ok"
    BY DEF Error
  <2> HIDE DEF answers
  <2>2. answer = IF ~SmartctlAnswers(m.scan) THEN Error
      ELSE IF ~IsOk(infos) THEN infos
      ELSE Ok([infos |-> infos.value,
               ids   |-> FlattenSeq([i \in DOMAIN infos.value |-> infos.value[i].id])])
    BY DEF GetStorageInfo, answers
  <2> HIDE DEF infos
  <2> QED
    BY <2>1, <2>2 DEF IsOk
<1> HIDE DEF answers
<1>5. /\ \A i \in DOMAIN answers : IsOk(answers[i])
      /\ infos = Ok([i \in DOMAIN answers |-> answers[i].value])
  BY <1>2, <1>4, AllOkIs
<1>6. answer.value.infos = [i \in 1..Len(m.disks) |-> answers[i].value]
      /\ answer.value.ids = FlattenSeq([i \in DOMAIN infos.value |-> infos.value[i].id])
      /\ infos.value = [i \in 1..Len(m.disks) |-> answers[i].value]
  <2>1. infos.value = [i \in 1..Len(m.disks) |-> answers[i].value]
    BY <1>2, <1>5 DEF Ok
  <2> HIDE DEF infos
  <2> QED
    <3>1. answer.value = [infos |-> infos.value,
             ids |-> FlattenSeq([i \in DOMAIN infos.value |-> infos.value[i].id])]
      BY <1>4 DEF Ok
    <3> QED
      BY <2>1, <3>1
<1>7. ASSUME NEW i \in 1..Len(m.disks)
      PROVE  /\ answers[i].value.id =
                  IF InfoTypeHave(types, "IDENTIFIER")
                  THEN <<Identifier(m.disks[i].all.serial, m.disks[i].type)>> ELSE <<>>
             /\ answers[i].value.security =
                  IF InfoTypeHave(types, "SECURITY_INFO")
                  THEN <<SecurityInfo(m.disks[i].security)>> ELSE <<>>
  <2>1. PICK d : d = m.disks[i]
    OBVIOUS
  <2>2. IsOk(Storage(d, types)) /\ answers[i] = Storage(d, types)
    BY <1>1, <1>2, <1>3, <1>5, <2>1
  <2>3. ~IsOk(Error) /\ ~IsOk(Killed)
    BY DEF IsOk, Error, Killed
  <2> DEFINE name == IF InfoTypeHave(types, "SYSTEM_INFO") THEN d.name ELSE ""
             type == IF InfoTypeHave(types, "DEVICE_TYPE") THEN GetDeviceType(d.all) ELSE "UNKNOWN"
             ata == IF InfoTypeHave(types, "ATA_INFO") THEN <<AtaInfo(d.all)>> ELSE <<>>
             id == IF InfoTypeHave(types, "IDENTIFIER")
                   THEN <<Identifier(d.all.serial, d.type)>> ELSE <<>>
             security == IF InfoTypeHave(types, "SECURITY_INFO")
                         THEN <<SecurityInfo(d.security)>> ELSE <<>>
  <2>4. \/ Storage(d, types) = Error \/ Storage(d, types) = Killed
        \/ Storage(d, types) = Ok([name |-> name, id |-> id, type |-> type, ata |-> ata,
                                   security |-> security])
    BY DEF Storage
  <2> HIDE DEF name, type, ata, id, security
  <2>5. Storage(d, types).value.id = id /\ Storage(d, types).value.security = security
    BY <2>2, <2>3, <2>4 DEF Ok
  <2> QED
    BY <2>1, <2>2, <2>5 DEF id, security
<1>8. \A i \in 1..Len(m.disks) : answer.value.infos[i] = answers[i].value
  BY <1>6
<1>9. Len(answer.value.infos) = Len(m.disks) /\ DOMAIN answer.value.infos = 1..Len(m.disks)
  BY <1>1, <1>6
<1>10. [i \in DOMAIN infos.value |-> infos.value[i].id] =
         [i \in 1..Len(m.disks) |-> answer.value.infos[i].id]
  <2> HIDE DEF infos
  <2> QED
    BY <1>6, <1>8
<1>11. answer.value.ids = FlattenSeq([i \in 1..Len(m.disks) |-> answer.value.infos[i].id])
  <2> HIDE DEF infos
  <2> QED
    BY <1>6, <1>10, Zenon
<1>12. \A i \in 1..Len(m.disks) :
         /\ answer.value.infos[i].id =
              IF InfoTypeHave(types, "IDENTIFIER")
              THEN <<Identifier(m.disks[i].all.serial, m.disks[i].type)>> ELSE <<>>
         /\ answer.value.infos[i].security =
              IF InfoTypeHave(types, "SECURITY_INFO")
              THEN <<SecurityInfo(m.disks[i].security)>> ELSE <<>>
  <2> HIDE DEF infos
  <2> QED
    BY <1>7, <1>8
<1> HIDE DEF infos
<1> QED
  BY <1>1, <1>9, <1>11, <1>12, Zenon DEF StorageAnswered

\* With identifiers, one for each disk, in their order.
LEMMA StorageIds ==
  ASSUME NEW m, IsMachine(m), NEW types, NEW answer, InfoTypeHave(types, "IDENTIFIER"),
         answer = GetStorageInfo(m, types), IsOk(answer)
  PROVE  answer.value.ids =
           [i \in 1..Len(m.disks) |-> Identifier(m.disks[i].all.serial, m.disks[i].type)]
<1> DEFINE id(i) == Identifier(m.disks[i].all.serial, m.disks[i].type)
           parts == [i \in 1..Len(m.disks) |-> <<id(i)>>]
           S == {id(i) : i \in 1..Len(m.disks)}
<1>1. /\ Len(m.disks) \in Nat
      /\ \A i \in 1..Len(m.disks) : answer.value.infos[i].id = <<id(i)>>
      /\ answer.value.ids = FlattenSeq([i \in 1..Len(m.disks) |-> answer.value.infos[i].id])
  <2> HIDE DEF id
  <2>1. /\ Len(m.disks) \in Nat
        /\ \A i \in 1..Len(m.disks) :
             answer.value.infos[i].id =
                IF InfoTypeHave(types, "IDENTIFIER")
                THEN <<Identifier(m.disks[i].all.serial, m.disks[i].type)>> ELSE <<>>
        /\ answer.value.ids = FlattenSeq([i \in 1..Len(m.disks) |-> answer.value.infos[i].id])
    <3> HIDE DEF parts, S
    <3>1. StorageAnswered(m, types, answer)
      BY StorageRight
    <3> QED
      BY <3>1 DEF StorageAnswered
  <2> QED
    BY <2>1 DEF id
<1>2. answer.value.ids = FlattenSeq(parts)
  BY <1>1
<1>3. \A i \in 1..Len(m.disks) : <<id(i)>> \in Seq(S) /\ Len(<<id(i)>>) = 1 /\ <<id(i)>>[1] = id(i)
  OBVIOUS
<1>4. parts \in Seq(Seq(S)) /\ DOMAIN parts = 1..Len(m.disks)
  <2> HIDE DEF S, id
  <2> QED
    BY <1>1, <1>3
<1>5. \A i \in DOMAIN parts : Len(parts[i]) = 1 /\ parts[i][1] = id(i)
  BY <1>3
<1> HIDE DEF parts, S
<1>6. FlattenSeq(parts) = [i \in DOMAIN parts |-> parts[i][1]]
  BY <1>4, <1>5, FlattenSingletons
<1> QED
  BY <1>2, <1>4, <1>5, <1>6

----------------------------------------------------------------------------
(* Identifiers.                                                            *)

\* An identifier as the backend makes it.
IsIdentifier(id) ==
  id = Identifier(id.name, id.type) /\ IsText(id.name) /\ IsText(id.type)

\* An id that the interface resolves to its identifier, or refuses.
ResolvesRight(id) ==
  IF \A f \in DOMAIN id : Len(id[f]) = 1
  THEN UnmarshalIdentifier(PopulateId(id)) = Ok(id)
  ELSE UnmarshalIdentifier(PopulateId(id)) = Error

\* The concatenation of five sequences.
LEMMA FlattenFive ==
  ASSUME NEW S, NEW s \in Seq(Seq(S)), Len(s) = 5
  PROVE  FlattenSeq(s) = (((s[1] \o s[2]) \o s[3]) \o s[4]) \o s[5]
<1>1. s # <<>>
  OBVIOUS
<1>2. PICK g \in [1..Len(s) -> Seq(S)] :
             /\ g[1] = s[1]
             /\ \A i \in 2..Len(s) : g[i] = g[i - 1] \o s[i]
             /\ FlattenSeq(s) = g[Len(s)]
  BY <1>1, FlattenSteps
<1>3. ASSUME NEW i \in {2, 3, 4, 5} PROVE g[i] = g[i - 1] \o s[i]
  <2>1. i \in 2..Len(s)
    OBVIOUS
  <2> QED
    BY <1>2, <2>1
<1>4. g[2] = g[1] \o s[2] /\ g[3] = g[2] \o s[3] /\ g[4] = g[3] \o s[4] /\ g[5] = g[4] \o s[5]
  <2>1. 2 - 1 = 1 /\ 3 - 1 = 2 /\ 4 - 1 = 3 /\ 5 - 1 = 4
    OBVIOUS
  <2>2. /\ g[2] = g[2 - 1] \o s[2] /\ g[3] = g[3 - 1] \o s[3]
        /\ g[4] = g[4 - 1] \o s[4] /\ g[5] = g[5 - 1] \o s[5]
    BY <1>3
  <2> QED
    BY <2>1, <2>2
<1>5. FlattenSeq(s) = g[5]
  BY <1>2
<1> QED
  BY <1>2, <1>4, <1>5

\* The members of a concatenation.
Joined(x, a, b) ==
  /\ Len(x) = Len(a) + Len(b)
  /\ \A i \in 1..Len(a) : x[i] = a[i]
  /\ \A i \in 1..Len(b) : x[Len(a) + i] = b[i]

\* Concatenation joins.
LEMMA JoinIs ==
  ASSUME NEW S, NEW a \in Seq(S), NEW b \in Seq(S)
  PROVE  a \o b \in Seq(S) /\ Joined(a \o b, a, b)
<1> DEFINE x == a \o b
<1>1. /\ x \in Seq(S) /\ Len(x) = Len(a) + Len(b)
      /\ \A i \in 1..(Len(a) + Len(b)) : x[i] = IF i <= Len(a) THEN a[i] ELSE b[i - Len(a)]
  BY ConcatProperties, Zenon
<1> HIDE DEF x
<1>2. PICK n, k \in Nat : n = Len(a) /\ k = Len(b)
  OBVIOUS
<1>3. \A i \in 1..n : x[i] = a[i]
  BY <1>1, <1>2
<1>4. ASSUME NEW i \in 1..k PROVE x[n + i] = b[i]
  <2>1. n + i \in 1..(n + k) /\ ~(n + i <= n) /\ (n + i) - n = i
    BY <1>2
  <2> QED
    BY <1>1, <1>2, <2>1
<1> QED
  BY <1>1, <1>2, <1>3, <1>4 DEF x, Joined

\* Five sequences, one after another.
FiveJoined(x, a, b, c, d, e) == x = (((a \o b) \o c) \o d) \o e

\* The members of five sequences of one member each.
FiveOf(x, a, b, c, d, e) ==
  x[1] = a[1] /\ x[2] = b[1] /\ x[3] = c[1] /\ x[4] = d[1] /\ x[5] = e[1]

\* Five sequences of at least one member have five members only if each has one.
LEMMA FiveParts ==
  ASSUME NEW S, NEW a \in Seq(S), NEW b \in Seq(S), NEW c \in Seq(S), NEW d \in Seq(S),
         NEW e \in Seq(S), Len(a) = 1, Len(b) = 1, Len(c) >= 1, Len(d) = 1, Len(e) >= 1,
         NEW x, FiveJoined(x, a, b, c, d, e)
  PROVE  /\ (Len(x) = 5) <=> (Len(c) = 1 /\ Len(e) = 1)
         /\ Len(x) = 5 => FiveOf(x, a, b, c, d, e)
<1>1. PICK n, k \in Nat : n = Len(c) /\ k = Len(e) /\ n >= 1 /\ k >= 1
  OBVIOUS
<1>2. PICK ab \in Seq(S) : ab = a \o b /\ Joined(ab, a, b)
  BY JoinIs
<1>3. PICK abc \in Seq(S) : abc = ab \o c /\ Joined(abc, ab, c)
  BY JoinIs
<1>4. PICK abcd \in Seq(S) : abcd = abc \o d /\ Joined(abcd, abc, d)
  BY JoinIs
<1>5. x = abcd \o e /\ Joined(x, abcd, e)
  BY <1>2, <1>3, <1>4, JoinIs DEF FiveJoined
<1>6. Len(ab) = 2 /\ ab[1] = a[1] /\ ab[2] = b[1]
  BY <1>2 DEF Joined
<1>7. Len(abc) = n + 2 /\ abc[1] = a[1] /\ abc[2] = b[1] /\ abc[3] = c[1]
  BY <1>1, <1>3, <1>6 DEF Joined
<1>8. Len(abcd) = n + 3 /\ abcd[1] = a[1] /\ abcd[2] = b[1] /\ abcd[3] = c[1]
      /\ abcd[n + 3] = d[1]
  BY <1>1, <1>4, <1>7 DEF Joined
<1>9. Len(x) = n + 3 + k /\ x[1] = a[1] /\ x[2] = b[1] /\ x[3] = c[1] /\ x[n + 3] = d[1]
      /\ x[n + 4] = e[1]
  BY <1>1, <1>5, <1>8 DEF Joined
<1>10. (Len(x) = 5) <=> (n = 1 /\ k = 1)
  <2>1. PICK l : l = Len(x)
    OBVIOUS
  <2>2. l = n + 3 + k
    BY <1>9, <2>1
  <2>3. n \in Nat /\ k \in Nat /\ n >= 1 /\ k >= 1
    BY <1>1
  <2>4. ASSUME l = 5 PROVE n = 1 /\ k = 1
    <3>1. n + 3 + k = 5
      BY <2>2, <2>4
    <3> QED
      BY <2>3, <3>1
  <2>5. ASSUME n = 1, k = 1 PROVE l = 5
    BY <2>2, <2>5
  <2> QED
    BY <2>1, <2>4, <2>5
<1>11. ASSUME n = 1, k = 1 PROVE x[4] = d[1] /\ x[5] = e[1]
  <2>1. n + 3 = 4 /\ n + 4 = 5
    BY <1>11
  <2>2. x[n + 3] = d[1] /\ x[n + 4] = e[1]
    BY <1>9
  <2> QED
    BY <2>1, <2>2
<1> QED
  BY <1>1, <1>9, <1>10, <1>11 DEF FiveOf

\* An id that GetHwInfo resolves is resolved to the identifier it was made of.
LEMMA IdResolves ==
  ASSUME NEW id, IsIdentifier(id)
  PROVE  ResolvesRight(id)
<1> DEFINE S == {<<>>} \cup Range(id.name) \cup Range(id.type)
           s == [i \in 1..5 |-> id[Fields[i]]]
           x == PopulateId(id)
<1>1. /\ Fields[1] = "devpath" /\ Fields[2] = "odata_id" /\ Fields[3] = "name"
      /\ Fields[4] = "arena" /\ Fields[5] = "type"
  BY DEF Fields
<1>2. id = [devpath |-> NoText, odata_id |-> NoText, name |-> id.name, arena |-> NoText,
            type |-> id.type]
  BY DEF IsIdentifier, Identifier
<1>3. s[1] = NoText /\ s[2] = NoText /\ s[3] = id.name /\ s[4] = NoText /\ s[5] = id.type
  BY <1>1, <1>2
<1>4. NoText \in Seq(S) /\ id.name \in Seq(S) /\ id.type \in Seq(S)
  BY DEF NoText, IsIdentifier, IsText, IsList
<1>5. Len(NoText) = 1 /\ Len(id.name) >= 1 /\ Len(id.type) >= 1
  BY DEF NoText, IsIdentifier, IsText, IsList
<1>6. s \in Seq(Seq(S)) /\ Len(s) = 5
  <2>1. \A i \in 1..5 : s[i] \in Seq(S)
    <3>1. \A i \in 1..5 : i \in {1, 2, 3, 4, 5}
      OBVIOUS
    <3> HIDE DEF s, S
    <3> QED
      BY <1>3, <1>4, <3>1
  <2>2. s \in [1..5 -> Seq(S)]
    <3> HIDE DEF S
    <3> QED
      BY <2>1
  <2>3. PICK t \in [1..5 -> Seq(S)] : t = s
    <3> HIDE DEF s, S
    <3> QED
      BY <2>2
  <2>4. t \in Seq(Seq(S)) /\ Len(t) = 5
    <3> DEFINE Q == Seq(S)
    <3>1. t \in [1..5 -> Q]
      OBVIOUS
    <3> HIDE DEF s, S, Q
    <3>2. t \in Seq(Q) /\ Len(t) = 5
      <4>1. PICK n \in Nat : n = 5
        OBVIOUS
      <4>2. t \in [1..n -> Q]
        BY <3>1, <4>1
      <4>3. t \in Seq(Q) /\ Len(t) = n
        BY <4>2
      <4> QED
        BY <4>1, <4>3
    <3> QED
      BY <3>2 DEF Q
  <2> HIDE DEF s, S
  <2> QED
    BY <2>3, <2>4
<1>7. x = FlattenSeq(s)
  BY DEF PopulateId
<1> HIDE DEF s, S, x
<1>8. x = (((NoText \o NoText) \o id.name) \o NoText) \o id.type
  BY <1>3, <1>6, <1>7, FlattenFive
<1>9. /\ (Len(x) = 5) <=> (Len(id.name) = 1 /\ Len(id.type) = 1)
      /\ Len(x) = 5 => /\ x[1] = NoText[1] /\ x[2] = NoText[1] /\ x[3] = id.name[1]
                       /\ x[4] = NoText[1] /\ x[5] = id.type[1]
  <2>1. PICK no, name, type \in Seq(S) : no = NoText /\ name = id.name /\ type = id.type
    BY <1>4
  <2>2. Len(no) = 1 /\ Len(name) >= 1 /\ Len(type) >= 1
        /\ FiveJoined(x, no, no, name, no, type)
    BY <1>5, <1>8, <2>1 DEF FiveJoined
  <2>3. /\ (Len(x) = 5) <=> (Len(name) = 1 /\ Len(type) = 1)
        /\ Len(x) = 5 => FiveOf(x, no, no, name, no, type)
    BY <2>2, FiveParts
  <2> QED
    BY <2>1, <2>3 DEF FiveOf
<1>10. (\A f \in DOMAIN id : Len(id[f]) = 1) <=> (Len(id.name) = 1 /\ Len(id.type) = 1)
  <2>1. DOMAIN id = {"devpath", "odata_id", "name", "arena", "type"}
    BY <1>2
  <2>2. id["devpath"] = NoText /\ id["odata_id"] = NoText /\ id["arena"] = NoText
    BY <1>2
  <2> QED
    BY <1>5, <2>1, <2>2
<1>11. CASE Len(x) # 5
  BY <1>9, <1>10, <1>11 DEF ResolvesRight, UnmarshalIdentifier, x
<1>12. CASE Len(x) = 5
  <2> DEFINE place(f) == CHOOSE i \in 1..5 : Fields[i] = f
             names == {Fields[i] : i \in 1..5}
  <2>1. names = {"devpath", "odata_id", "name", "arena", "type"}
    <3>1. 1..5 = {1, 2, 3, 4, 5}
      OBVIOUS
    <3> QED
      BY <1>1, <3>1
  <2>2. /\ place("devpath") = 1 /\ place("odata_id") = 2 /\ place("name") = 3
        /\ place("arena") = 4 /\ place("type") = 5
    <3>1. \A i \in 1..5 : i \in {1, 2, 3, 4, 5}
      OBVIOUS
    <3>2. 1 \in 1..5 /\ 2 \in 1..5 /\ 3 \in 1..5 /\ 4 \in 1..5 /\ 5 \in 1..5
      OBVIOUS
    <3>3. \A i \in 1..5 : /\ Fields[i] = "devpath" => i = 1
                          /\ Fields[i] = "odata_id" => i = 2
                          /\ Fields[i] = "name" => i = 3
                          /\ Fields[i] = "arena" => i = 4
                          /\ Fields[i] = "type" => i = 5
      BY <1>1, <3>1
    <3> QED
      BY <1>1, <3>2, <3>3
  <2>3. UnmarshalIdentifier(x) = Ok([f \in names |-> <<x[place(f)]>>])
    BY <1>12 DEF UnmarshalIdentifier
  <2> DEFINE back == [f \in names |-> <<x[place(f)]>>]
  <2> HIDE DEF place
  <2>4. /\ DOMAIN back = {"devpath", "odata_id", "name", "arena", "type"}
        /\ back["devpath"] = <<x[1]>> /\ back["odata_id"] = <<x[2]>>
        /\ back["name"] = <<x[3]>> /\ back["arena"] = <<x[4]>> /\ back["type"] = <<x[5]>>
        /\ back = [f \in DOMAIN back |-> back[f]]
    BY <2>1, <2>2
  <2>5. \A t : IsText(t) /\ Len(t) = 1 => t = <<t[1]>>
    BY DEF IsText, IsList
  <2>6. IsText(NoText)
    BY DEF IsText, IsList, NoText, Range
  <2>7. NoText = <<NoText[1]>> /\ id.name = <<id.name[1]>> /\ id.type = <<id.type[1]>>
    BY <1>5, <1>9, <1>12, <2>5, <2>6 DEF IsIdentifier
  <2> HIDE DEF back
  <2>8. /\ back["devpath"] = NoText /\ back["odata_id"] = NoText /\ back["name"] = id.name
        /\ back["arena"] = NoText /\ back["type"] = id.type
    BY <1>9, <1>12, <2>4, <2>7
  <2>9. back = id
    <3>1. DOMAIN id = DOMAIN back /\ id = [f \in DOMAIN id |-> id[f]]
      BY <1>2, <2>4
    <3>2. /\ id["devpath"] = NoText /\ id["odata_id"] = NoText /\ id["name"] = id.name
          /\ id["arena"] = NoText /\ id["type"] = id.type
      BY <1>2
    <3>3. \A f \in DOMAIN id : back[f] = id[f]
      BY <2>4, <2>8, <3>1, <3>2
    <3> QED
      BY <2>4, <3>1, <3>3
  <2> QED
    BY <1>9, <1>10, <1>12, <2>3, <2>9 DEF ResolvesRight, x, back
<1> QED
  BY <1>11, <1>12

----------------------------------------------------------------------------
(* Reports of errors.                                                      *)

\* The members of src whose places are K, in order.
ListsFrom(seq, K, src) ==
  /\ Len(seq) = Cardinality(K)
  /\ \A i \in DOMAIN seq : \E k \in K : seq[i] = src[k] /\ i = Rank(K, k)

\* Nothing is the list of no places.
LEMMA ListsNone ==
  ASSUME NEW src, NEW none, none = <<>>
  PROVE  ListsFrom(none, {}, src)
<1>1. Len(none) = 0 /\ DOMAIN none = {}
  OBVIOUS
<1> QED
  BY <1>1, FS_EmptySet DEF ListsFrom

\* The next place is the last.
LEMMA ListsAppend ==
  ASSUME NEW L, NEW seq \in Seq(L), NEW K, K \subseteq Nat, IsFiniteSet(K), NEW src,
         NEW k \in Nat, \A j \in K : j < k, src[k] \in L, ListsFrom(seq, K, src)
  PROVE  /\ Append(seq, src[k]) \in Seq(L) /\ IsFiniteSet(K \cup {k})
         /\ ListsFrom(Append(seq, src[k]), K \cup {k}, src)
<1>1. k \notin K
  OBVIOUS
<1>2. Cardinality(K \cup {k}) = Cardinality(K) + 1 /\ IsFiniteSet(K \cup {k})
  BY <1>1, FS_AddElement
<1>3. PICK n \in Nat : n = Len(seq) /\ n = Cardinality(K)
  BY DEF ListsFrom
<1>4. PICK s \in Seq(L) : s = Append(seq, src[k])
  <2>1. PICK e \in L : e = src[k]
    OBVIOUS
  <2>2. Append(seq, e) \in Seq(L)
    OBVIOUS
  <2> QED
    BY <2>1, <2>2
<1>5. Len(s) = n + 1 /\ DOMAIN s = 1..(n + 1) /\ s[n + 1] = src[k]
      /\ (\A i \in 1..n : s[i] = seq[i]) /\ DOMAIN seq = 1..n
  <2>1. PICK e \in L : e = src[k]
    OBVIOUS
  <2>2. s = Append(seq, e)
    BY <1>4, <2>1
  <2>3. /\ Len(Append(seq, e)) = n + 1 /\ Append(seq, e)[n + 1] = e
        /\ \A i \in 1..n : Append(seq, e)[i] = seq[i]
    <3>1. /\ Len(Append(seq, e)) = Len(seq) + 1 /\ Append(seq, e)[Len(seq) + 1] = e
          /\ \A i \in 1..Len(seq) : Append(seq, e)[i] = seq[i]
      BY AppendProperties
    <3> QED
      BY <1>3, <3>1
  <2>4. DOMAIN s = 1..Len(s) /\ DOMAIN seq = 1..Len(seq)
    OBVIOUS
  <2> QED
    BY <1>3, <2>1, <2>2, <2>3, <2>4
<1>6. ASSUME NEW i \in DOMAIN s
      PROVE  \E l \in K \cup {k} : s[i] = src[l] /\ i = Rank(K \cup {k}, l)
  <2>1. CASE i \in 1..n
    <3>1. i \in DOMAIN seq
      BY <1>5, <2>1
    <3>2. PICK l \in K : seq[i] = src[l] /\ i = Rank(K, l)
      BY <3>1 DEF ListsFrom
    <3>3. {j \in K \cup {k} : j <= l} = {j \in K : j <= l}
      BY <3>2
    <3>4. Rank(K \cup {k}, l) = Rank(K, l)
      BY <3>3 DEF Rank
    <3> QED
      BY <1>5, <2>1, <3>2, <3>4
  <2>2. CASE i = n + 1
    <3>1. {j \in K \cup {k} : j <= k} = K \cup {k}
      <4>1. \A j \in K \cup {k} : j <= k
        OBVIOUS
      <4> QED
        BY <4>1
    <3>2. Rank(K \cup {k}, k) = n + 1
      BY <1>2, <1>3, <3>1 DEF Rank
    <3> QED
      BY <1>5, <2>2, <3>2
  <2>3. i \in 1..n \/ i = n + 1
    BY <1>5
  <2> QED
    BY <2>1, <2>2, <2>3
<1> QED
  BY <1>2, <1>3, <1>4, <1>5, <1>6 DEF ListsFrom

\* Of a list of places, the loop of GetErrors keeps those it wants.
LEMMA ListsWanted ==
  ASSUME NEW L, NEW errors \in Seq(L), NEW K, K \subseteq Nat, IsFiniteSet(K), NEW src,
         NEW filter, ListsFrom(errors, K, src)
  PROVE  ListsFrom(WantedErrors(errors, filter), {k \in K : Wanted(src[k], filter)}, src)
<1>1. PICK h \in [0..Len(errors) -> Seq(L)] :
             /\ h[0] = <<>>
             /\ \A i \in 1..Len(errors) :
                  h[i] = (IF Wanted(errors[i], filter) THEN Append(h[i - 1], errors[i])
                          ELSE h[i - 1])
             /\ WantedErrors(errors, filter) = h[Len(errors)]
  BY KeptSteps
<1>2. PICK n \in Nat : n = Len(errors) /\ n = Cardinality(K) /\ DOMAIN errors = 1..n
  BY DEF ListsFrom
<1> DEFINE Kept(i) == {k \in K : Rank(K, k) <= i /\ Wanted(src[k], filter)}
           Right(i) == ListsFrom(h[i], Kept(i), src)
           T == {i \in Nat : i <= n => Right(i)}
<1>3. \A i : Kept(i) \subseteq K /\ Kept(i) \subseteq Nat /\ IsFiniteSet(Kept(i))
  BY FS_Subset
<1>4. Kept(0) = {}
  <2>1. \A k \in K : Rank(K, k) \in Nat /\ 1 <= Rank(K, k)
    BY RankIs
  <2> QED
    BY <2>1
<1>5. Right(0)
  <2> HIDE DEF Kept
  <2> QED
    BY <1>1, <1>4, ListsNone
<1>6. ASSUME NEW i \in Nat, i + 1 <= n, Right(i) PROVE Right(i + 1)
  <2>1. i + 1 \in 1..n /\ (i + 1) - 1 = i /\ i \in 0..n
    BY <1>6
  <2>2. PICK k \in K : errors[i + 1] = src[k] /\ i + 1 = Rank(K, k)
    BY <1>2, <2>1 DEF ListsFrom
  <2>3. \A l \in K : /\ Rank(K, l) \in Nat
                     /\ l < k => Rank(K, l) < i + 1
                     /\ k < l => i + 1 < Rank(K, l)
    BY <2>2, RankIs
  <2>4. \A l \in K : Rank(K, l) <= i + 1 => l < k \/ l = k
    BY <2>3
  <2>5. \A l \in K : l < k => Rank(K, l) <= i
    BY <2>3
  <2>6. ~(Rank(K, k) <= i)
    BY <2>2
  <2>7. h[i] \in Seq(L) /\ src[k] \in L
    <3>1. errors[i + 1] \in L
      BY <1>2, <2>1
    <3> QED
      BY <1>1, <1>2, <2>1, <2>2, <3>1
  <2>8. \A j \in Kept(i) : j < k
    <3>1. \A j \in K : Rank(K, j) <= i => j < k
      <4>1. \A j \in K : Rank(K, j) <= i => Rank(K, j) <= i + 1 /\ j # k
        BY <2>3, <2>6
      <4> QED
        BY <2>4, <4>1
    <3> QED
      BY <3>1
  <2>9. h[i + 1] = (IF Wanted(src[k], filter) THEN Append(h[i], src[k]) ELSE h[i])
    BY <1>1, <1>2, <2>1, <2>2
  <2>10. CASE Wanted(src[k], filter)
    <3>1. Kept(i + 1) = Kept(i) \cup {k}
      <4>1. \A l \in K : Rank(K, l) <= i + 1 => Rank(K, l) <= i \/ l = k
        BY <2>4, <2>5
      <4>2. \A l \in K : Rank(K, l) <= i => Rank(K, l) <= i + 1
        BY <2>3
      <4>3. Rank(K, k) <= i + 1
        BY <2>2
      <4> QED
        BY <2>10, <4>1, <4>2, <4>3
    <3> HIDE DEF Kept
    <3>2. ListsFrom(Append(h[i], src[k]), Kept(i) \cup {k}, src)
      BY <1>3, <1>6, <2>7, <2>8, ListsAppend
    <3> QED
      BY <2>9, <2>10, <3>1, <3>2
  <2>11. CASE ~Wanted(src[k], filter)
    <3>1. Kept(i + 1) = Kept(i)
      <4>1. \A l \in K : Rank(K, l) <= i + 1 => Rank(K, l) <= i \/ l = k
        BY <2>4, <2>5
      <4>2. \A l \in K : Rank(K, l) <= i => Rank(K, l) <= i + 1
        BY <2>3
      <4> QED
        BY <2>11, <4>1, <4>2
    <3> HIDE DEF Kept
    <3> QED
      BY <1>6, <2>9, <2>11, <3>1
  <2> QED
    BY <2>10, <2>11
<1> HIDE DEF Right
<1>7. 0 \in T
  BY <1>5
<1>8. ASSUME NEW i \in Nat, i \in T PROVE i + 1 \in T
  <2> SUFFICES ASSUME i + 1 <= n PROVE Right(i + 1)
    OBVIOUS
  <2>1. Right(i)
    BY <1>8
  <2> QED
    BY <1>6, <2>1
<1> HIDE DEF T
<1>9. n \in T
  BY <1>2, <1>7, <1>8, SetInduction
<1>10. Right(n)
  BY <1>2, <1>9 DEF T
<1>11. Kept(n) = {k \in K : Wanted(src[k], filter)}
  <2>1. \A k \in K : Rank(K, k) <= n
    BY <1>2, RankIs
  <2> QED
    BY <2>1
<1> HIDE DEF Kept
<1> QED
  BY <1>1, <1>2, <1>10, <1>11 DEF Right

\* The errors among the lines from the second to the last before k.
ErrorsBefore(lines, k) == {j \in 2..(k - 1) : lines[j].error # "Info"}

\* Line e ends a whole report, and these are its errors.
ReportEnds(lines, e, errors) ==
  /\ \/ lines[1].kind = "none" /\ e = 1
     \/ lines[1].kind = "title" /\ e >= 2 /\ lines[e].kind = "blank"
  /\ \A j \in 2..(e - 1) : WellFormedRecord(lines[j])
  /\ ListsFrom(errors, ErrorsBefore(lines, e), lines)

\* What the parser knows after k lines.
ReportParsed(lines, k, acc) ==
  /\ acc.step = "MC_TITLE" => k = 0 /\ acc.errors = <<>>
  /\ acc.step = "MC_RECORD" =>
       /\ k >= 1 /\ lines[1].kind = "title"
       /\ \A j \in 2..k : WellFormedRecord(lines[j])
       /\ ListsFrom(acc.errors, ErrorsBefore(lines, k + 1), lines)
  /\ acc.step = "FINISH" => k >= 1 /\ ReportEnds(lines, k, acc.errors)
  /\ acc.step = "returned" => \E e \in 1..(k - 1) : ReportEnds(lines, e, acc.errors)

\* Each line.
LEMMA ParseOneLine ==
  ASSUME NEW L, NEW lines \in Seq(L), NEW k \in Nat, k + 1 <= Len(lines),
         NEW acc \in ReportRead(L), ReportParsed(lines, k, acc)
  PROVE  ReportParsed(lines, k + 1, ParseLine(acc, lines[k + 1]))
<1>1. /\ acc = [step |-> acc.step, errors |-> acc.errors] /\ acc.errors \in Seq(L)
      /\ acc.step \in {"MC_TITLE", "MC_RECORD", "FINISH", "returned", "failed"}
  BY DEF ReportRead
<1>2. PICK line \in L : line = lines[k + 1]
  <2>1. k + 1 \in 1..Len(lines)
    OBVIOUS
  <2> QED
    BY <2>1
<1>3. PICK next : next = ParseLine(acc, line)
  OBVIOUS
<1>4. \A i : ErrorsBefore(lines, i) \subseteq Nat
  BY DEF ErrorsBefore
<1>5. ErrorsBefore(lines, 1) = {} /\ ErrorsBefore(lines, 2) = {}
  BY DEF ErrorsBefore
<1>6. CASE acc.step = "MC_TITLE"
  <2>1. k = 0 /\ acc.errors = <<>> /\ line = lines[1]
    BY <1>2, <1>6 DEF ReportParsed
  <2>2. next.errors = acc.errors
        /\ next.step = CASE line.kind = "title" -> "MC_RECORD"
                         [] line.kind = "none" -> "FINISH"
                         [] OTHER -> "failed"
    BY <1>1, <1>3, <1>6 DEF ParseLine
  <2>3. \A src : ListsFrom(next.errors, {}, src)
    BY <2>1, <2>2, ListsNone
  <2>4. k + 1 = 1 /\ (k + 1) + 1 = 2
    BY <2>1
  <2>5. CASE line.kind = "title"
    <3>1. next.step = "MC_RECORD"
      BY <2>2, <2>5
    <3>2. \A j \in 2..1 : WellFormedRecord(lines[j])
      OBVIOUS
    <3>3. ListsFrom(next.errors, ErrorsBefore(lines, 2), lines)
      BY <1>5, <2>3
    <3>4. ReportParsed(lines, 1, next)
      BY <2>1, <2>5, <3>1, <3>2, <3>3 DEF ReportParsed
    <3> QED
      BY <1>2, <1>3, <2>4, <3>4
  <2>6. CASE line.kind = "none"
    <3>1. next.step = "FINISH"
      BY <2>2, <2>6
    <3>2. \A j \in 2..(1 - 1) : WellFormedRecord(lines[j])
      OBVIOUS
    <3>3. ListsFrom(next.errors, ErrorsBefore(lines, 1), lines)
      BY <1>5, <2>3
    <3>4. ReportEnds(lines, 1, next.errors)
      BY <2>1, <2>6, <3>2, <3>3 DEF ReportEnds
    <3>5. ReportParsed(lines, 1, next)
      BY <3>1, <3>4 DEF ReportParsed
    <3> QED
      BY <1>2, <1>3, <2>4, <3>5
  <2>7. CASE line.kind \notin {"title", "none"}
    <3>1. next.step = "failed"
      BY <2>2, <2>7
    <3> QED
      BY <1>2, <1>3, <3>1 DEF ReportParsed
  <2> QED
    BY <2>5, <2>6, <2>7
<1>7. CASE acc.step = "MC_RECORD"
  <2>1. /\ k >= 1 /\ lines[1].kind = "title"
        /\ \A j \in 2..k : WellFormedRecord(lines[j])
        /\ ListsFrom(acc.errors, ErrorsBefore(lines, k + 1), lines)
    BY <1>7 DEF ReportParsed
  <2>2. CASE line.kind = "blank"
    <3>1. next.step = "FINISH" /\ next.errors = acc.errors
      BY <1>1, <1>3, <1>7, <2>2 DEF ParseLine
    <3>2. (k + 1) - 1 = k /\ k + 1 >= 2
      BY <2>1
    <3>3. ReportEnds(lines, k + 1, next.errors)
      BY <1>2, <2>1, <2>2, <3>1, <3>2 DEF ReportEnds
    <3> QED
      BY <1>2, <1>3, <3>1, <3>2, <3>3 DEF ReportParsed
  <2>3. CASE line.kind # "blank" /\ ~WellFormedRecord(line)
    <3>1. next.step = "failed"
      BY <1>1, <1>3, <1>7, <2>3 DEF ParseLine
    <3> QED
      BY <1>2, <1>3, <3>1 DEF ReportParsed
  <2>4. CASE line.kind # "blank" /\ WellFormedRecord(line)
    <3>1. next.step = "MC_RECORD"
          /\ next.errors = (IF line.error = "Info" THEN acc.errors ELSE Append(acc.errors, line))
      BY <1>1, <1>3, <1>7, <2>4 DEF ParseLine
    <3>2. \A j \in 2..(k + 1) : WellFormedRecord(lines[j])
      <4>1. \A j \in 2..(k + 1) : j \in 2..k \/ j = k + 1
        OBVIOUS
      <4> QED
        BY <1>2, <2>1, <2>4, <4>1
    <3> DEFINE now == ErrorsBefore(lines, k + 1)
               then == ErrorsBefore(lines, (k + 1) + 1)
    <3>3. then = IF line.error = "Info" THEN now ELSE now \cup {k + 1}
      <4>1. 2..((k + 1) + 1 - 1) = 2..((k + 1) - 1) \cup {k + 1} /\ k + 1 \notin 2..((k + 1) - 1)
        BY <2>1
      <4> QED
        BY <1>2, <4>1 DEF ErrorsBefore
    <3>4. ListsFrom(next.errors, then, lines)
      <4>1. CASE line.error = "Info"
        BY <2>1, <3>1, <3>3, <4>1
      <4>2. CASE line.error # "Info"
        <5>1. \A j \in now : j < k + 1
          BY DEF ErrorsBefore
        <5>2. now \subseteq Nat /\ IsFiniteSet(now)
          <6>1. now \subseteq 2..k /\ 2..k \subseteq Nat
            BY DEF ErrorsBefore
          <6> HIDE DEF now
          <6>2. 2 \in Int /\ k \in Int
            OBVIOUS
          <6>3. IsFiniteSet(2..k)
            BY <6>2, FS_Interval
          <6>4. IsFiniteSet(now)
            BY <6>1, <6>3, FS_Subset
          <6> QED
            BY <6>1, <6>4
        <5> HIDE DEF now, then
        <5>3. ListsFrom(acc.errors, now, lines) /\ lines[k + 1] \in L
          BY <1>2, <2>1 DEF now
        <5>4. PICK n \in Nat : n = k + 1
          OBVIOUS
        <5>5. PICK s \in Seq(L) : s = acc.errors
          BY <1>1
        <5>6. ListsFrom(Append(s, lines[n]), now \cup {n}, lines)
          BY <5>1, <5>2, <5>3, <5>4, <5>5, ListsAppend
        <5> QED
          BY <1>2, <3>1, <3>3, <4>2, <5>4, <5>5, <5>6
      <4> QED
        BY <4>1, <4>2
    <3> QED
      BY <1>2, <1>3, <2>1, <3>1, <3>2, <3>4 DEF ReportParsed
  <2> QED
    BY <2>2, <2>3, <2>4
<1>8. CASE acc.step = "FINISH"
  <2>1. k >= 1 /\ ReportEnds(lines, k, acc.errors)
    BY <1>8 DEF ReportParsed
  <2>2. next.step = "returned" /\ next.errors = acc.errors
    BY <1>1, <1>3, <1>8 DEF ParseLine
  <2>3. k \in 1..((k + 1) - 1)
    BY <2>1
  <2> QED
    BY <1>2, <1>3, <2>1, <2>2, <2>3 DEF ReportParsed
<1>9. CASE acc.step = "returned"
  <2>1. PICK e \in 1..(k - 1) : ReportEnds(lines, e, acc.errors)
    BY <1>9 DEF ReportParsed
  <2>2. next = acc
    BY <1>3, <1>9 DEF ParseLine
  <2>3. e \in 1..((k + 1) - 1)
    OBVIOUS
  <2> QED
    BY <1>2, <1>3, <1>9, <2>1, <2>2, <2>3 DEF ReportParsed
<1>10. CASE acc.step = "failed"
  <2>1. next = acc
    BY <1>3, <1>10 DEF ParseLine
  <2> QED
    BY <1>2, <1>3, <1>10, <2>1 DEF ReportParsed
<1> QED
  BY <1>1, <1>6, <1>7, <1>8, <1>9, <1>10

\* A report that is accepted is whole: its end is read, and lines follow it.
LEMMA WholeReport ==
  ASSUME NEW L, NEW lines \in Seq(L), IsOk(ParseErrorReport(lines))
  PROVE  /\ ParseErrorReport(lines).value \in Seq(L)
         /\ \E e \in 1..(Len(lines) - 1) :
              ReportEnds(lines, e, ParseErrorReport(lines).value)
<1> DEFINE start == [step |-> "MC_TITLE", errors |-> <<>>]
           last == FoldLeft(ParseLine, [step |-> "MC_TITLE", errors |-> <<>>], lines)
<1>1. PICK h \in [0..Len(lines) -> ReportRead(L)] :
             /\ h[0] = start
             /\ \A k \in 1..Len(lines) : h[k] = ParseLine(h[k - 1], lines[k])
             /\ last = h[Len(lines)]
  BY LineSteps
<1>2. Len(lines) \in Nat
  OBVIOUS
<1> DEFINE Right(k) == ReportParsed(lines, k, h[k])
           T == {k \in Nat : k <= Len(lines) => Right(k)}
<1>3. Right(0)
  <2>1. h[0].step = "MC_TITLE" /\ h[0].errors = <<>>
    BY <1>1
  <2> QED
    BY <2>1 DEF ReportParsed
<1>4. ASSUME NEW k \in Nat, k + 1 <= Len(lines), Right(k) PROVE Right(k + 1)
  <2>1. k + 1 \in 1..Len(lines) /\ (k + 1) - 1 = k /\ k \in 0..Len(lines)
    BY <1>2, <1>4
  <2>2. h[k] \in ReportRead(L) /\ h[k + 1] = ParseLine(h[k], lines[k + 1])
    BY <1>1, <2>1
  <2> QED
    BY <1>4, <2>2, ParseOneLine
<1> HIDE DEF Right
<1>5. 0 \in T
  BY <1>3
<1>6. ASSUME NEW k \in Nat, k \in T PROVE k + 1 \in T
  <2> SUFFICES ASSUME k + 1 <= Len(lines) PROVE Right(k + 1)
    OBVIOUS
  <2>1. Right(k)
    BY <1>2, <1>6
  <2> QED
    BY <1>4, <2>1
<1> HIDE DEF T
<1>7. Len(lines) \in T
  BY <1>2, <1>5, <1>6, SetInduction
<1>8. ReportParsed(lines, Len(lines), last)
  BY <1>1, <1>2, <1>7 DEF T, Right
<1>9. last \in ReportRead(L)
  BY <1>1, <1>2
<1>10. last.step = "returned" /\ ParseErrorReport(lines) = Ok(last.errors)
  <2>1. ParseErrorReport(lines) = IF last.step = "returned" THEN Ok(last.errors) ELSE Error
    BY DEF ParseErrorReport
  <2> HIDE DEF last
  <2> QED
    BY <2>1 DEF IsOk, Error
<1> HIDE DEF last
<1>11. ParseErrorReport(lines).value = last.errors /\ last.errors \in Seq(L)
  BY <1>9, <1>10 DEF Ok, ReportRead
<1> QED
  BY <1>8, <1>10, <1>11 DEF ReportParsed

\* The line that ends a report.
EndOf(lines) ==
  LET ends == IF lines[1].kind = "none" THEN {1}
              ELSE {k \in DOMAIN lines : lines[k].kind = "blank"}
  IN  CHOOSE k \in ends \cup {Len(lines)} : \A j \in ends : k <= j

\* What ErrorsAreThoseOfTheReport says of an answer to GetErrors.
ErrorsRight(m, request, errors) ==
  LET lines == m.ras.lines
      end == EndOf(lines)
      filter == request.filter
      events == {k \in 2..(end - 1) :
                   /\ lines[k].error # "Info" /\ lines[k].label # UnknownMemory
                   /\ filter # <<>> => lines[k].time \in (filter[1] + 1)..filter[2]}
  IN  /\ end < Len(lines)
      /\ \A k \in 2..(end - 1) : lines[k].kind = "record"
      /\ Len(errors) = IF request.sources = {} THEN Cardinality(events) ELSE 0
      /\ \A i \in DOMAIN errors :
           \E k \in events : /\ errors[i] = lines[k]
                             /\ i = Cardinality({j \in events : j <= k})

\* The line that ends a report is the first that can.
LEMMA FirstEnd ==
  ASSUME NEW L, NEW lines \in Seq(L), NEW e \in 1..(Len(lines) - 1), NEW errors,
         ReportEnds(lines, e, errors)
  PROVE  EndOf(lines) = e
<1> DEFINE ends == IF lines[1].kind = "none" THEN {1}
                   ELSE {k \in DOMAIN lines : lines[k].kind = "blank"}
<1>1. Len(lines) \in Nat /\ DOMAIN lines = 1..Len(lines)
  OBVIOUS
<1>2. PICK n \in Nat : n = Len(lines)
  BY <1>1
<1>3. e \in 1..(n - 1) /\ DOMAIN lines = 1..n
  BY <1>1, <1>2
<1>4. e \in ends
  BY <1>3 DEF ReportEnds
<1>5. \A j \in ends : e <= j
  <2>1. CASE lines[1].kind = "none"
    BY <2>1 DEF ReportEnds
  <2>2. CASE lines[1].kind # "none"
    <3>1. /\ lines[1].kind = "title"
          /\ \A j \in 2..(e - 1) : lines[j].kind = "record"
      BY <2>2 DEF ReportEnds, WellFormedRecord
    <3>2. \A j \in 1..n : j < e => lines[j].kind # "blank"
      BY <1>3, <3>1
    <3> QED
      BY <1>3, <2>2, <3>2
  <2> QED
    BY <2>1, <2>2
<1>6. \A k \in ends \cup {n} : (\A j \in ends : k <= j) <=> k = e
  <2>1. ends \subseteq 1..n
    BY <1>3
  <2> QED
    BY <1>3, <1>4, <1>5, <2>1
<1>7. (CHOOSE k \in ends \cup {n} : \A j \in ends : k <= j) = e
  <2> HIDE DEF ends
  <2> QED
    BY <1>4, <1>6
<1> QED
  BY <1>2, <1>7 DEF EndOf

\* The errors of an answer are those of the report (error.cc:106-142).
LEMMA ErrorsOfTheReport ==
  ASSUME NEW m, IsMachine(m), NEW filter \in {<<>>, <<1, 2>>, <<2, 2>>},
         NEW sources \in {{}, {"OTHER"}}, NEW request,
         request = [filter |-> filter, sources |-> sources],
         NEW answer, answer = GetErrors(m, filter, sources), IsOk(answer)
  PROVE  ErrorsRight(m, request, answer.value.errors)
<1> DEFINE L == Range(m.ras.lines)
           report == ParseErrorReport(m.ras.lines)
<1>1. PICK lines \in Seq(L) : lines = m.ras.lines
  BY DEF IsMachine, IsList
<1>2. IsOk(report)
  BY DEF GetErrors, IsOk, Error
<1>3. PICK all \in Seq(L) : all = report.value
  <2> HIDE DEF L
  <2> QED
    BY <1>1, <1>2, WholeReport
<1>4. PICK e \in 1..(Len(lines) - 1) : ReportEnds(lines, e, all)
  <2> HIDE DEF L
  <2> QED
    BY <1>1, <1>2, <1>3, WholeReport
<1> DEFINE K == ErrorsBefore(lines, e)
           wanted == {k \in K : Wanted(lines[k], filter)}
           events == {k \in 2..(e - 1) :
                   /\ lines[k].error # "Info" /\ lines[k].label # UnknownMemory
                   /\ filter # <<>> => lines[k].time \in (filter[1] + 1)..filter[2]}
<1>5. EndOf(lines) = e
  BY <1>4, FirstEnd
<1>6. e < Len(lines) /\ \A k \in 2..(e - 1) : lines[k].kind = "record"
  BY <1>4 DEF ReportEnds, WellFormedRecord
<1>7. events = wanted
  <2>1. \A k \in 2..(e - 1) : lines[k].time \in Int
    BY <1>1 DEF IsMachine
  <2>2. \A k \in 2..(e - 1) :
          (filter # <<>> => lines[k].time \in (filter[1] + 1)..filter[2])
          <=> (filter # <<>> => filter[1] < lines[k].time /\ lines[k].time <= filter[2])
    BY <2>1
  <2> QED
    BY <2>2 DEF ErrorsBefore, Wanted
<1>8. ListsFrom(WantedErrors(all, filter), wanted, lines)
  <2>1. K \subseteq 2..(e - 1) /\ 2..(e - 1) \subseteq Nat
    BY DEF ErrorsBefore
  <2>2. 2 \in Int /\ e - 1 \in Int
    OBVIOUS
  <2>3. IsFiniteSet(K)
    BY <2>1, <2>2, FS_Interval, FS_Subset
  <2>4. ListsFrom(all, K, lines)
    BY <1>4 DEF ReportEnds
  <2> HIDE DEF L, K
  <2> QED
    BY <2>1, <2>3, <2>4, ListsWanted
<1>9. answer.value.errors = IF sources = {} THEN WantedErrors(all, filter) ELSE <<>>
  BY <1>3 DEF GetErrors, IsOk, Error, Ok, InfoTypeHave
<1>10. request.filter = filter /\ request.sources = sources
  OBVIOUS
<1> HIDE DEF wanted
<1>11. /\ Len(answer.value.errors) = IF sources = {} THEN Cardinality(events) ELSE 0
       /\ \A i \in DOMAIN answer.value.errors :
            \E k \in events : /\ answer.value.errors[i] = lines[k]
                              /\ i = Cardinality({j \in events : j <= k})
  <2> HIDE DEF events
  <2>1. CASE sources = {}
    <3>1. PICK s : s = WantedErrors(all, filter)
      OBVIOUS
    <3>2. ListsFrom(s, events, lines) /\ answer.value.errors = s
      BY <1>7, <1>8, <1>9, <2>1, <3>1
    <3>3. /\ Len(s) = Cardinality(events)
          /\ \A i \in DOMAIN s : \E k \in events : s[i] = lines[k] /\ i = Rank(events, k)
      BY <3>2 DEF ListsFrom
    <3>4. \A k : Rank(events, k) = Cardinality({j \in events : j <= k})
      BY DEF Rank
    <3> QED
      BY <2>1, <3>2, <3>3, <3>4
  <2>2. CASE sources # {}
    <3>1. answer.value.errors = <<>>
      BY <1>9, <2>2
    <3> QED
      BY <2>2, <3>1
  <2> QED
    BY <2>1, <2>2
<1> DEFINE written == {k \in 2..(EndOf(m.ras.lines) - 1) :
                   /\ m.ras.lines[k].error # "Info" /\ m.ras.lines[k].label # UnknownMemory
                   /\ request.filter # <<>> =>
                        m.ras.lines[k].time \in (request.filter[1] + 1)..request.filter[2]}
<1>12. written = events
  BY <1>1, <1>5, <1>10
<1>13. /\ EndOf(m.ras.lines) < Len(m.ras.lines)
       /\ \A k \in 2..(EndOf(m.ras.lines) - 1) : m.ras.lines[k].kind = "record"
       /\ Len(answer.value.errors) = IF request.sources = {} THEN Cardinality(written) ELSE 0
       /\ \A i \in DOMAIN answer.value.errors :
            \E k \in written : /\ answer.value.errors[i] = m.ras.lines[k]
                               /\ i = Cardinality({j \in written : j <= k})
  <2> HIDE DEF written, events
  <2> QED
    BY <1>1, <1>5, <1>6, <1>10, <1>11, <1>12
<1> QED
  BY <1>13, Zenon DEF ErrorsRight

----------------------------------------------------------------------------
(* The ids of an answer.                                                   *)

\* A list of identifiers as the backend makes them.
AreIdentifiers(ids) == IsList(ids) /\ \A i \in DOMAIN ids : IsIdentifier(ids[i])

\* A text of one piece.
LEMMA OnePiece ==
  ASSUME NEW p, NEW text, text = <<p>>
  PROVE  IsText(text)
<1>1. Range(text) = {p} /\ text \in Seq({p})
  BY DEF Range
<1> QED
  BY <1>1 DEF IsText, IsList

\* The parts of an identifier are texts.
LEMMA IdentifierIs ==
  ASSUME NEW name, NEW type, IsText(name), IsText(type)
  PROVE  IsIdentifier(Identifier(name, type))
  BY DEF IsIdentifier, Identifier

\* The types that are not read from the machine.
LEMMA ConstantTexts == IsText(NoText) /\ IsText(Dimm)
<1>1. PICK p : p = <<>>
  OBVIOUS
<1>2. NoText = <<p>> /\ Dimm = << <<"dimm">> >>
  BY <1>1 DEF NoText, Dimm
<1> QED
  BY <1>2, OnePiece

\* A function on 1..n whose values are identifiers.
LEMMA MadeIdentifiers ==
  ASSUME NEW n \in Nat, NEW ids, ids = [i \in 1..n |-> ids[i]],
         \A i \in 1..n : IsIdentifier(ids[i])
  PROVE  AreIdentifiers(ids) /\ Len(ids) = n
  BY ListIs DEF AreIdentifiers

\* No ids.
LEMMA NoIdentifiers ==
  ASSUME NEW ids, ids = <<>>
  PROVE  AreIdentifiers(ids)
<1>1. DOMAIN ids = {} /\ ids \in Seq(Range(ids))
  OBVIOUS
<1> QED
  BY <1>1 DEF AreIdentifiers, IsList

\* One id after the other.
LEMMA JoinedIdentifiers ==
  ASSUME NEW a, AreIdentifiers(a), NEW b, AreIdentifiers(b)
  PROVE  AreIdentifiers(a \o b)
<1> DEFINE S == Range(a) \cup Range(b)
<1>1. /\ a \in Seq(Range(a)) /\ b \in Seq(Range(b))
      /\ Range(a) \subseteq S /\ Range(b) \subseteq S
  BY DEF AreIdentifiers, IsList
<1>2. \A x \in S : IsIdentifier(x)
  BY DEF AreIdentifiers, Range
<1> HIDE DEF S
<1>3. a \in Seq(S) /\ b \in Seq(S)
  BY <1>1
<1>4. a \o b \in Seq(S)
  BY <1>3, ConcatProperties
<1>5. PICK c \in Seq(S) : c = a \o b
  BY <1>4
<1>6. \A i \in DOMAIN c : c[i] \in S
  OBVIOUS
<1>7. c \in Seq(Range(c))
  <2>1. \A i \in 1..Len(c) : c[i] \in Range(c)
    BY DEF Range
  <2> QED
    BY <2>1
<1>8. AreIdentifiers(c)
  BY <1>2, <1>6, <1>7 DEF AreIdentifiers, IsList
<1> QED
  BY <1>5, <1>8

\* What is concatenated has the members of its parts.
LEMMA FlattenMembers ==
  ASSUME NEW S, NEW s \in Seq(Seq(S))
  PROVE  FlattenSeq(s) \in Seq(S)
<1>1. CASE s = <<>>
  <2>1. Len(s) = 0
    BY <1>1
  <2>2. FlattenSeq(s) = s
    BY <2>1, Zenon DEF FlattenSeq
  <2>3. s \in Seq(S)
    <3>1. \A i \in 1..Len(s) : s[i] \in S
      BY <2>1
    <3> QED
      BY <1>1, <3>1
  <2> QED
    BY <2>2, <2>3
<1>2. CASE s # <<>>
  <2>1. PICK g \in [1..Len(s) -> Seq(S)] : FlattenSeq(s) = g[Len(s)]
    BY <1>2, FlattenSteps
  <2>2. Len(s) \in 1..Len(s)
    BY <1>2
  <2> QED
    BY <2>1, <2>2
<1> QED
  BY <1>1, <1>2

\* Members of a list of identifiers' set.
LEMMA SeqOfIdentifiers ==
  ASSUME NEW S, \A x \in S : IsIdentifier(x), NEW ids \in Seq(S)
  PROVE  AreIdentifiers(ids)
<1>1. \A i \in DOMAIN ids : ids[i] \in S
  OBVIOUS
<1>2. ids \in Seq(Range(ids))
  <2>1. \A i \in 1..Len(ids) : ids[i] \in Range(ids)
    BY DEF Range
  <2> QED
    BY <2>1
<1> QED
  BY <1>1, <1>2 DEF AreIdentifiers, IsList

\* Ids of DIMMs (memory.cc).
LEMMA MemoryIds ==
  ASSUME NEW m, IsMachine(m), NEW types
  PROVE  AreIdentifiers(GetMemoryInfo(m, types).value.ids)
<1> DEFINE id(i) == Identifier(<<<<"DIMM", i - 1>>>>, Dimm)
           ids == [i \in DOMAIN m.dimms |-> id(i)]
<1>1. DOMAIN m.dimms = 1..Len(m.dimms) /\ Len(m.dimms) \in Nat
  BY DEF IsMachine, IsList
<1>2. \A i : IsIdentifier(id(i))
  BY ConstantTexts, OnePiece, IdentifierIs
<1> HIDE DEF id
<1>3. AreIdentifiers(ids)
  <2>1. ids = [i \in 1..Len(m.dimms) |-> ids[i]]
    BY <1>1
  <2>2. \A i \in 1..Len(m.dimms) : IsIdentifier(ids[i])
    BY <1>1, <1>2
  <2> HIDE DEF ids
  <2> QED
    BY <1>1, <2>1, <2>2, MadeIdentifiers
<1>4. GetMemoryInfo(m, types).value.ids =
        IF InfoTypeHave(types, "DIMM_IDENTIFIER") THEN ids ELSE <<>>
  BY DEF GetMemoryInfo, Ok, id
<1>5. AreIdentifiers(<<>>)
  BY NoIdentifiers
<1> HIDE DEF ids
<1> QED
  BY <1>3, <1>4, <1>5

\* The id of the DIMM that an address is on (memory_convert.cc).
LEMMA ConvertedIds ==
  ASSUME NEW m, IsMachine(m), NEW address, NEW answer, answer = MemoryConvert(m, address),
         IsOk(answer)
  PROVE  AreIdentifiers(answer.value.ids)
<1> DEFINE map == SelectInSeq(m.maps, LAMBDA r : IsAddressWithinMap(address, r))
           handle == IF map = 0 THEN 0 ELSE m.maps[map].handle
           dimm == SelectInSeq(m.dimms, LAMBDA d : d.handle = handle)
           I == {i \in 1..Len(m.dimms) : m.dimms[i].handle = handle}
<1>1. answer = IF handle = 0 \/ dimm = 0 THEN Error
               ELSE Ok([ids |-> <<Identifier(m.dimms[dimm].locator, Dimm)>>])
  BY DEF MemoryConvert
<1> HIDE DEF map, handle
<1>2. dimm = IF I # {} THEN Min(I) ELSE 0
  BY Zenon DEF SelectInSeq
<1> HIDE DEF dimm
<1>3. dimm # 0 /\ answer = Ok([ids |-> <<Identifier(m.dimms[dimm].locator, Dimm)>>])
  BY <1>1 DEF IsOk, Error
<1>4. Len(m.dimms) \in Nat /\ DOMAIN m.dimms = 1..Len(m.dimms)
  BY DEF IsMachine, IsList
<1>5. dimm \in 1..Len(m.dimms)
  <2>1. I # {}
    BY <1>2, <1>3, Zenon
  <2>2. I \subseteq Nat /\ I \subseteq 1..Len(m.dimms)
    BY <1>4
  <2> HIDE DEF I
  <2>3. \E x \in I : \A y \in I : x <= y
    BY <2>1, <2>2, Least
  <2>4. Min(I) \in I
    BY <2>3 DEF Min
  <2> QED
    BY <1>2, <2>1, <2>2, <2>4
<1>6. IsIdentifier(Identifier(m.dimms[dimm].locator, Dimm))
  <2>1. IsText(m.dimms[dimm].locator)
    BY <1>4, <1>5 DEF IsMachine
  <2> QED
    BY <2>1, ConstantTexts, IdentifierIs
<1>7. PICK id : id = Identifier(m.dimms[dimm].locator, Dimm)
  OBVIOUS
<1>8. answer.value.ids = <<id>>
  BY <1>3, <1>7 DEF Ok
<1>9. <<id>> \in Seq({id})
  OBVIOUS
<1>10. \A x \in {id} : IsIdentifier(x)
  BY <1>6, <1>7
<1> QED
  BY <1>8, <1>9, <1>10, SeqOfIdentifiers

\* Ids of the DIMMs of events (host_backend.cc:206-217).
LEMMA ErrorIds ==
  ASSUME NEW m, IsMachine(m), NEW filter \in {<<>>, <<1, 2>>, <<2, 2>>},
         NEW sources \in {{}, {"OTHER"}}, NEW answer,
         answer = GetErrors(m, filter, sources), IsOk(answer)
  PROVE  AreIdentifiers(answer.value.ids)
<1> DEFINE errors == answer.value.errors
           lines == m.ras.lines
<1>1. ErrorsRight(m, [filter |-> filter, sources |-> sources], errors)
  BY ErrorsOfTheReport
<1>2. Len(lines) \in Nat /\ DOMAIN lines = 1..Len(lines)
  BY DEF IsMachine, IsList
<1>3. \A i \in DOMAIN errors :
        \E k \in 2..(EndOf(lines) - 1) : errors[i] = lines[k] /\ EndOf(lines) < Len(lines)
  BY <1>1, Zenon DEF ErrorsRight
<1>4. EndOf(lines) \in Int
  <2> DEFINE ends == IF lines[1].kind = "none" THEN {1}
                     ELSE {k \in DOMAIN lines : lines[k].kind = "blank"}
  <2>1. PICK report : report = ParseErrorReport(lines)
    OBVIOUS
  <2>2. IsOk(report)
    BY <2>1 DEF GetErrors, IsOk, Error
  <2>3. PICK seq \in Seq(Range(lines)) : seq = lines
    BY DEF IsMachine, IsList
  <2>4. \E e \in 1..(Len(seq) - 1) : ReportEnds(seq, e, ParseErrorReport(seq).value)
    BY <2>1, <2>2, <2>3, WholeReport
  <2>5. PICK e \in 1..(Len(seq) - 1) : ReportEnds(seq, e, ParseErrorReport(seq).value)
    BY <2>4
  <2>6. EndOf(seq) = e
    BY <2>5, FirstEnd
  <2> QED
    BY <2>3, <2>6
<1>5. \A i \in DOMAIN errors : IsText(errors[i].label)
  <2>1. \A k \in 2..(EndOf(lines) - 1) :
          EndOf(lines) < Len(lines) => k \in DOMAIN lines
    BY <1>2, <1>4
  <2>2. \A k \in DOMAIN lines : IsText(lines[k].label)
    BY DEF IsMachine
  <2> QED
    BY <1>3, <2>1, <2>2
<1>6. \/ answer.value.ids = <<>>
      \/ /\ answer.value.ids = [i \in DOMAIN errors |-> Identifier(errors[i].label, Dimm)]
         /\ \E s \in Seq(Range(lines)) : errors = WantedErrors(s, filter)
  <2>1. IsOk(ParseErrorReport(lines)) /\ lines \in Seq(Range(lines))
    BY DEF GetErrors, IsOk, Error, IsMachine, IsList
  <2>2. ParseErrorReport(lines).value \in Seq(Range(lines))
    BY <2>1, WholeReport
  <2>3. answer = IF ~InfoTypeHave(sources, "MEMORY_ERROR") THEN Ok([errors |-> <<>>, ids |-> <<>>])
                 ELSE Ok([errors |-> WantedErrors(ParseErrorReport(lines).value, filter),
                          ids |->
                            [i \in DOMAIN WantedErrors(ParseErrorReport(lines).value, filter) |->
                               Identifier(WantedErrors(ParseErrorReport(lines).value,
                                                       filter)[i].label, Dimm)]])
    BY DEF GetErrors, IsOk, Error
  <2>4. PICK w : w = WantedErrors(ParseErrorReport(lines).value, filter)
    OBVIOUS
  <2>5. \/ answer = Ok([errors |-> <<>>, ids |-> <<>>])
        \/ answer = Ok([errors |-> w, ids |-> [i \in DOMAIN w |-> Identifier(w[i].label, Dimm)]])
    BY <2>3, <2>4
  <2> QED
    BY <2>2, <2>4, <2>5 DEF Ok
<1>7. CASE answer.value.ids = <<>>
  BY <1>7, NoIdentifiers
<1>8. ASSUME NEW s \in Seq(Range(lines)), errors = WantedErrors(s, filter),
             answer.value.ids = [i \in DOMAIN errors |-> Identifier(errors[i].label, Dimm)]
      PROVE  AreIdentifiers(answer.value.ids)
  <2>1. PICK h \in [0..Len(s) -> Seq(Range(lines))] : WantedErrors(s, filter) = h[Len(s)]
    BY KeptSteps
  <2>2. errors \in Seq(Range(lines))
    <3>1. Len(s) \in 0..Len(s)
      OBVIOUS
    <3> QED
      BY <1>8, <2>1, <3>1
  <2>3. DOMAIN errors = 1..Len(errors) /\ Len(errors) \in Nat
    BY <2>2
  <2>4. PICK ids : ids = answer.value.ids
    OBVIOUS
  <2>5. ids = [i \in 1..Len(errors) |-> Identifier(errors[i].label, Dimm)]
    BY <1>8, <2>3, <2>4
  <2> HIDE DEF errors
  <2>6. \A i \in 1..Len(errors) : IsIdentifier(ids[i])
    BY <1>5, <2>3, <2>5, ConstantTexts, IdentifierIs
  <2>7. ids = [i \in 1..Len(errors) |-> ids[i]]
    BY <2>5
  <2> QED
    BY <2>3, <2>4, <2>6, <2>7, MadeIdentifiers
<1> QED
  BY <1>6, <1>7, <1>8

\* Ids of disks, with or without anything else of them.
LEMMA DiskIds ==
  ASSUME NEW m, IsMachine(m), NEW types, NEW answer,
         answer = GetStorageInfo(m, types), IsOk(answer)
  PROVE  AreIdentifiers(answer.value.ids)
<1> DEFINE id(i) == Identifier(m.disks[i].all.serial, m.disks[i].type)
           n == Len(m.disks)
           S == {id(i) : i \in 1..n}
           parts == [i \in 1..n |-> answer.value.infos[i].id]
<1>1. StorageAnswered(m, types, answer)
  BY StorageRight
<1>2. /\ n \in Nat /\ DOMAIN m.disks = 1..n
      /\ \A i \in 1..n :
           parts[i] = IF InfoTypeHave(types, "IDENTIFIER") THEN <<id(i)>> ELSE <<>>
      /\ answer.value.ids = FlattenSeq(parts)
  BY <1>1 DEF StorageAnswered
<1>3. \A i \in 1..n : <<id(i)>> \in Seq(S)
  OBVIOUS
<1>4. \A i \in 1..n : IsIdentifier(id(i))
  <2>1. \A i \in 1..n : IsText(m.disks[i].all.serial) /\ IsText(m.disks[i].type)
    BY <1>2 DEF IsMachine
  <2> QED
    BY <2>1, IdentifierIs
<1>5. \A x \in S : IsIdentifier(x)
  BY <1>4
<1>6. parts \in Seq(Seq(S))
  <2> HIDE DEF S, id
  <2>1. ASSUME NEW i \in 1..n PROVE parts[i] \in Seq(S)
    <3>1. CASE InfoTypeHave(types, "IDENTIFIER")
      <4>1. parts[i] = <<id(i)>>
        BY <1>2, <3>1
      <4> QED
        BY <1>3, <4>1
    <3>2. CASE ~InfoTypeHave(types, "IDENTIFIER")
      <4>1. PICK none : none = <<>> /\ parts[i] = none
        BY <1>2, <3>2
      <4> QED
        BY <4>1, EmptySeq
    <3> QED
      BY <3>1, <3>2
  <2>2. parts = [i \in 1..n |-> parts[i]]
    OBVIOUS
  <2> HIDE DEF parts, n
  <2> QED
    BY <1>2, <2>1, <2>2
<1> HIDE DEF parts, S
<1>7. FlattenSeq(parts) \in Seq(S)
  BY <1>6, FlattenMembers
<1> QED
  BY <1>2, <1>5, <1>7, SeqOfIdentifiers

----------------------------------------------------------------------------
(* The topology.                                                           *)

\* What a range list says of its numbers so far: each is greater than those before.
Increasing(seq) ==
  /\ seq \in Seq(Int)
  /\ \A i \in 1..Len(seq) : 0 <= seq[i]
  /\ \A i, j \in 1..Len(seq) : i < j => seq[i] < seq[j]

\* What is known after each range.
RangesRight(acc) ==
  acc.status = "ok" =>
    /\ -1 <= acc.last
    /\ Increasing(acc.value)
    /\ \A i \in 1..Len(acc.value) : acc.value[i] <= acc.last

\* Each range (utils.cc:38-61).
LEMMA RangeAdded ==
  ASSUME NEW acc \in RangesRead, RangesRight(acc), NEW r \in Seq(Int)
  PROVE  RangesRight(AddRange(acc, r))
<1> DEFINE next == AddRange(acc, r)
           grown == /\ acc.status = "ok"
                    /\ Len(r) \in {1, 2} /\ \A i \in DOMAIN r : r[i] # Garbage
                    /\ acc.last < r[1] /\ r[1] <= r[Len(r)]
<1>1. CASE ~grown
  <2>1. next = [status |-> "error", last |-> acc.last, value |-> <<>>]
    BY <1>1 DEF AddRange
  <2>2. next.status = "error"
    BY <2>1
  <2> QED
    BY <2>2 DEF RangesRight
<1>2. CASE grown
  <2>1. Len(r) \in 1..Len(r) /\ 1 \in 1..Len(r) /\ DOMAIN r = 1..Len(r)
    BY <1>2
  <2>2. PICK a \in Int, b \in Int : a = r[1] /\ b = r[Len(r)]
    BY <2>1
  <2>3. PICK last \in Int, value \in Seq(Int) : last = acc.last /\ value = acc.value
    BY DEF RangesRead
  <2>4. -1 <= last /\ last < a /\ a <= b
    BY <1>2, <2>2, <2>3 DEF RangesRight
  <2> DEFINE piece == [i \in 1..(b - a + 1) |-> a + i - 1]
  <2>5. b - a + 1 \in Nat
    BY <2>4
  <2>6. piece \in Seq(Int) /\ Len(piece) = b - a + 1
    BY <2>5
  <2>7. \A i \in 1..Len(piece) : piece[i] = a + i - 1
    BY <2>6
  <2>8. next = [status |-> "ok", last |-> b, value |-> value \o piece]
    BY <1>2, <2>2, <2>3 DEF AddRange
  <2> HIDE DEF piece, next, grown
  <2>9. next.status = "ok" /\ next.last = b /\ next.value = value \o piece
    BY <2>8
  <2>10. PICK n \in Nat, k \in Nat : n = Len(value) /\ k = Len(piece)
    BY <2>6
  <2>10a. PICK v : v = next.value
    OBVIOUS
  <2>11. v \in Seq(Int) /\ Joined(v, value, piece)
    BY <2>6, <2>9, <2>10, <2>10a, JoinIs
  <2>12. /\ \A i \in 1..n : 0 <= value[i] /\ value[i] <= last /\ value[i] \in Int
         /\ \A i, j \in 1..n : i < j => value[i] < value[j]
    <3>1. acc.status = "ok"
      BY <1>2 DEF grown
    <3>2. Increasing(value) /\ \A i \in 1..n : value[i] <= last
      BY <2>3, <2>10, <2>10a, <3>1 DEF RangesRight
    <3>3. \A i \in 1..n : value[i] \in Int
      BY <2>10, <2>10a
    <3> QED
      BY <2>10, <2>10a, <3>2, <3>3 DEF Increasing
  <2>13. /\ Len(v) = n + k /\ k = b - a + 1
         /\ \A i \in 1..(n + k) : i <= n => v[i] = value[i]
         /\ \A i \in 1..(n + k) : i > n => v[i] = a + (i - n) - 1
    <3>1. /\ Len(v) = n + k /\ k = b - a + 1
          /\ \A i \in 1..n : v[i] = value[i]
          /\ \A i \in 1..k : v[n + i] = piece[i]
      BY <2>6, <2>10, <2>10a, <2>11 DEF Joined
    <3>2. \A i \in 1..(n + k) : i > n => i - n \in 1..k
      OBVIOUS
    <3>3. \A i \in 1..k : piece[i] = a + i - 1
      BY <2>7, <2>10, <2>10a
    <3>4. \A i \in 1..(n + k) : i > n => piece[i - n] = a + (i - n) - 1
      BY <3>2, <3>3
    <3>5. \A i \in 1..(n + k) : i > n => v[i] = piece[i - n]
      <4> TAKE i \in 1..(n + k)
      <4> HAVE i > n
      <4>1. PICK j \in 1..k : j = i - n
        BY <3>2
      <4>2. i = n + j
        BY <4>1
      <4> QED
        BY <3>1, <4>1, <4>2
    <3>6. \A i \in 1..(n + k) : i <= n => i \in 1..n
      OBVIOUS
    <3> QED
      BY <3>1, <3>4, <3>5, <3>6
  <2>14. \A i \in 1..(n + k) : 0 <= v[i] /\ v[i] <= b
    <3> TAKE i \in 1..(n + k)
    <3>1. CASE i <= n
      <4>1. i \in 1..n /\ v[i] = value[i]
        BY <2>13, <3>1
      <4>2. 0 <= value[i] /\ value[i] <= last /\ value[i] \in Int
        BY <2>12, <4>1
      <4> QED
        BY <2>4, <4>1, <4>2
    <3>2. CASE i > n
      BY <2>4, <2>13, <3>2
    <3> QED
      BY <3>1, <3>2
  <2>15. \A i, j \in 1..(n + k) : i < j => v[i] < v[j]
    <3> SUFFICES ASSUME NEW i \in 1..(n + k), NEW j \in 1..(n + k), i < j PROVE v[i] < v[j]
      OBVIOUS
    <3>1. CASE j <= n
      BY <2>12, <2>13, <3>1
    <3>2. CASE i <= n /\ j > n
      <4>1. v[i] = value[i] /\ value[i] <= last /\ value[i] \in Int
        BY <2>12, <2>13, <3>2
      <4>2. v[j] = a + (j - n) - 1
        BY <2>13, <3>2
      <4> QED
        BY <2>4, <3>2, <4>1, <4>2
    <3>3. CASE i > n
      BY <2>13, <3>3
    <3> QED
      BY <3>1, <3>2, <3>3
  <2>16. Increasing(v) /\ \A i \in 1..Len(v) : v[i] <= b
    BY <2>11, <2>13, <2>14, <2>15 DEF Increasing
  <2>17. -1 <= b
    BY <2>4
  <2>18. RangesRight(next)
    BY <2>9, <2>10, <2>10a, <2>16, <2>17 DEF RangesRight
  <2> QED
    BY <2>18 DEF next
<1> QED
  BY <1>1, <1>2

\* A range list that is accepted lists increasing numbers.
LEMMA RangeListIs ==
  ASSUME NEW text, IsRanges(text), IsOk(ParseRangeListFile(text))
  PROVE  Increasing(ParseRangeListFile(text).value)
<1>0. PICK pieces \in Seq(Seq(Int)) : pieces = Pieces(text)
  <2>1. <<<<Garbage>>>> \in Seq(Seq(Int))
    BY DEF Garbage
  <2> QED
    BY <2>1 DEF Pieces, IsRanges
<1>1. PICK h \in [0..Len(pieces) -> RangesRead] :
             /\ h[0] = [status |-> "ok", last |-> -1, value |-> <<>>]
             /\ \A k \in 1..Len(pieces) : h[k] = AddRange(h[k - 1], pieces[k])
             /\ FoldLeft(AddRange, [status |-> "ok", last |-> -1, value |-> <<>>], pieces) =
                  h[Len(pieces)]
  BY RangeSteps
<1>2. pieces \in Seq(Seq(Int)) /\ Len(pieces) \in Nat
  OBVIOUS
<1>3. ParseRangeList(text) = h[Len(pieces)]
  BY <1>0, <1>1 DEF ParseRangeList
<1> DEFINE T == {k \in Nat : k <= Len(pieces) => RangesRight(h[k])}
<1>4. 0 \in T
  <2>1. h[0].last = -1 /\ h[0].value = <<>> /\ -1 <= -1
    BY <1>1
  <2>2. <<>> \in Seq(Int) /\ Len(<<>>) = 0
    OBVIOUS
  <2>3. Increasing(<<>>)
    BY <2>2 DEF Increasing
  <2> QED
    BY <2>1, <2>2, <2>3 DEF RangesRight
<1>5. ASSUME NEW k \in Nat, k \in T PROVE k + 1 \in T
  <2> SUFFICES ASSUME k + 1 <= Len(pieces) PROVE RangesRight(h[k + 1])
    OBVIOUS
  <2>1. k + 1 \in 1..Len(pieces) /\ (k + 1) - 1 = k /\ k \in 0..Len(pieces) /\ RangesRight(h[k])
    BY <1>2, <1>5
  <2> HIDE DEF T
  <2>2. h[k] \in RangesRead /\ pieces[k + 1] \in Seq(Int)
    <3>1. \A i \in 1..Len(pieces) : pieces[i] \in Seq(Int)
      BY <1>2
    <3> QED
      BY <2>1, <3>1
  <2>3. h[k + 1] = AddRange(h[k], pieces[k + 1])
    BY <1>1, <2>1
  <2> QED
    BY <2>1, <2>2, <2>3, RangeAdded
<1> HIDE DEF T
<1>6. RangesRight(h[Len(pieces)])
  <2>1. Nat \subseteq T
    BY <1>4, <1>5, SetInduction
  <2> QED
    BY <1>2, <2>1 DEF T
<1>7. /\ h[Len(pieces)].status = "ok"
      /\ ParseRangeListFile(text).value = h[Len(pieces)].value
  BY <1>3 DEF ParseRangeListFile, IsOk, Ok, Error
<1> QED
  BY <1>6, <1>7 DEF RangesRight

\* The processors of a NUMA node.
NodeRead(m, node, lpus) ==
  LET cpus == ParseRangeListFile(m.cpulist[node]).value
  IN  /\ IsOk(ParseRangeListFile(m.cpulist[node])) /\ Increasing(cpus)
      /\ Len(cpus) \in Nat /\ DOMAIN cpus = 1..Len(cpus)
      /\ lpus = [i \in 1..Len(cpus) |-> Lpu(m, node, cpus[i]).value]
      /\ \A i \in 1..Len(cpus) : IsOk(Lpu(m, node, cpus[i]))

\* A NUMA node is read whole, or not at all (cpu.cc).
LEMMA NodeIsRead ==
  ASSUME NEW m, NEW node, IsRanges(m.cpulist[node]), IsOk(NumaNode(m, node))
  PROVE  NodeRead(m, node, NumaNode(m, node).value)
<1> DEFINE list == ParseRangeListFile(m.cpulist[node])
<1>1. IsOk(list)
  BY DEF NumaNode, IsOk, Error
<1>2. PICK cpus : cpus = list.value
  OBVIOUS
<1>3. Increasing(cpus) /\ Len(cpus) \in Nat /\ DOMAIN cpus = 1..Len(cpus)
  <2>1. Increasing(cpus)
    BY <1>1, <1>2, RangeListIs
  <2> QED
    BY <2>1 DEF Increasing
<1> DEFINE answers == [i \in DOMAIN cpus |-> Lpu(m, node, cpus[i])]
<1>4. NumaNode(m, node) = AllOk(answers)
  BY <1>1, <1>2 DEF NumaNode
<1>5. IsList(answers) /\ DOMAIN answers = 1..Len(cpus)
  <2>1. answers = [i \in 1..Len(cpus) |-> answers[i]]
    BY <1>3
  <2> HIDE DEF answers
  <2> QED
    BY <1>3, <2>1, ListIs
<1>6. \A i \in 1..Len(cpus) : answers[i] = Lpu(m, node, cpus[i])
  BY <1>3
<1> HIDE DEF answers
<1>7. /\ \A i \in DOMAIN answers : IsOk(answers[i])
      /\ AllOk(answers) = Ok([i \in DOMAIN answers |-> answers[i].value])
  BY <1>4, <1>5, AllOkIs
<1>8. NumaNode(m, node).value = [i \in 1..Len(cpus) |-> Lpu(m, node, cpus[i]).value]
  BY <1>4, <1>5, <1>6, <1>7 DEF Ok
<1> QED
  BY <1>1, <1>2, <1>3, <1>5, <1>6, <1>7, <1>8 DEF NodeRead

\* The NUMA nodes of a machine.
NodesRead(m, nodes) ==
  LET online == ParseRangeListFile(m.online).value
  IN  /\ IsOk(ParseRangeListFile(m.online)) /\ Increasing(online)
      /\ IsList(nodes) /\ Len(nodes) = Len(online) /\ DOMAIN nodes = 1..Len(online)
      /\ Len(online) \in Nat /\ DOMAIN online = 1..Len(online)
      /\ \A n \in 1..Len(online) :
           online[n] \in DOMAIN m.cpulist /\ NodeRead(m, online[n], nodes[n])

\* A topology has every node that is online, or there is none.
LEMMA TopologyIsRead ==
  ASSUME NEW m, IsMachine(m), IsOk(Topology(m))
  PROVE  \E nodes : NodesRead(m, nodes) /\ Topology(m) = Ok(FlattenSeq(Normalize(nodes)))
<1> DEFINE list == ParseRangeListFile(m.online)
<1>1. IsOk(list)
  BY DEF Topology, IsOk, Error
<1>2. PICK online : online = list.value
  OBVIOUS
<1>3. Increasing(online) /\ Len(online) \in Nat /\ DOMAIN online = 1..Len(online)
  <2>1. Increasing(online)
    BY <1>1, <1>2, RangeListIs DEF IsMachine, IsLayout
  <2> QED
    BY <2>1 DEF Increasing
<1> DEFINE answers == [n \in DOMAIN online |-> NumaNode(m, online[n])]
<1>4. IsOk(AllOk(answers)) /\ Topology(m) = Ok(FlattenSeq(Normalize(AllOk(answers).value)))
  <2>1. PICK all : all = AllOk(answers)
    OBVIOUS
  <2>2. Topology(m) = IF ~IsOk(all) THEN all ELSE Ok(FlattenSeq(Normalize(all.value)))
    BY <1>1, <1>2, <2>1 DEF Topology
  <2> HIDE DEF answers
  <2> QED
    BY <2>1, <2>2
<1>5. IsList(answers) /\ DOMAIN answers = 1..Len(online) /\ Len(answers) = Len(online)
  <2>1. answers = [n \in 1..Len(online) |-> answers[n]]
    BY <1>3
  <2> HIDE DEF answers
  <2> QED
    BY <1>3, <2>1, ListIs
<1>6. \A n \in 1..Len(online) : answers[n] = NumaNode(m, online[n])
  BY <1>3
<1> HIDE DEF answers
<1>7. /\ \A n \in DOMAIN answers : IsOk(answers[n])
      /\ AllOk(answers) = Ok([n \in DOMAIN answers |-> answers[n].value])
  BY <1>4, <1>5, AllOkIs
<1>8. PICK nodes : nodes = AllOk(answers).value
  OBVIOUS
<1>9. nodes = [n \in 1..Len(online) |-> answers[n].value]
  BY <1>5, <1>7, <1>8 DEF Ok
<1>10. IsList(nodes) /\ Len(nodes) = Len(online) /\ DOMAIN nodes = 1..Len(online)
  BY <1>3, <1>9, ListIs
<1>11. ASSUME NEW n \in 1..Len(online)
       PROVE  online[n] \in DOMAIN m.cpulist /\ NodeRead(m, online[n], nodes[n])
  <2>1. online[n] \in DOMAIN m.cpulist
    <3>1. online[n] \in Range(online)
      BY <1>3 DEF Range
    <3> QED
      BY <1>1, <1>2, <3>1 DEF IsMachine, IsLayout
  <2>2. IsRanges(m.cpulist[online[n]])
    BY <2>1 DEF IsMachine, IsLayout
  <2>3. IsOk(NumaNode(m, online[n])) /\ nodes[n] = NumaNode(m, online[n]).value
    BY <1>5, <1>6, <1>7, <1>9
  <2> QED
    BY <2>1, <2>2, <2>3, NodeIsRead
<1>12. NodesRead(m, nodes)
  BY <1>1, <1>2, <1>3, <1>10, <1>11 DEF NodesRead
<1> QED
  BY <1>4, <1>8, <1>12

\* Each member of seq comes before the later ones in the order R.
OrderedBy(seq, R) == \A i, j \in 1..Len(seq) : i < j => <<seq[i], seq[j]>> \in R

\* What concatenation does to members and to their order.
LEMMA JoinedOrder ==
  ASSUME NEW S, NEW a \in Seq(S), NEW b \in Seq(S), NEW x, x = a \o b, NEW R,
         OrderedBy(a, R), OrderedBy(b, R),
         \A i \in 1..Len(a), j \in 1..Len(b) : <<a[i], b[j]>> \in R
  PROVE  /\ x \in Seq(S) /\ OrderedBy(x, R)
         /\ \A y : y \in Range(x) <=> y \in Range(a) \/ y \in Range(b)
<1>1. x \in Seq(S) /\ Joined(x, a, b)
  BY JoinIs
<1>2. PICK n \in Nat, k \in Nat : n = Len(a) /\ k = Len(b)
  OBVIOUS
<1>3. /\ Len(x) = n + k
      /\ \A i \in 1..n : x[i] = a[i]
      /\ \A i \in 1..k : x[n + i] = b[i]
  BY <1>1, <1>2 DEF Joined
<1>4. \A i \in 1..(n + k) : i \in 1..n \/ \E h \in 1..k : i = n + h
  <2> TAKE i \in 1..(n + k)
  <2>1. i \in 1..n \/ (i - n \in 1..k /\ i = n + (i - n))
    OBVIOUS
  <2> QED
    BY <2>1
<1>5. ASSUME NEW i \in 1..(n + k), NEW j \in 1..(n + k), i < j
      PROVE  <<x[i], x[j]>> \in R
  <2>1. CASE i \in 1..n /\ j \in 1..n
    BY <1>2, <1>3, <1>5, <2>1 DEF OrderedBy
  <2>2. ASSUME NEW h \in 1..k, j = n + h, i \in 1..n PROVE <<x[i], x[j]>> \in R
    BY <1>2, <1>3, <2>2
  <2>3. ASSUME NEW h \in 1..k, j = n + h, NEW l \in 1..k, i = n + l
        PROVE  <<x[i], x[j]>> \in R
    <3>1. l < h
      BY <1>5, <2>3
    <3>2. <<b[l], b[h]>> \in R
      BY <1>2, <3>1 DEF OrderedBy
    <3> QED
      BY <1>3, <2>3, <3>2
  <2>4. ASSUME NEW l \in 1..k, i = n + l, j \in 1..n PROVE FALSE
    BY <1>5, <2>4
  <2> QED
    BY <1>4, <2>1, <2>2, <2>3, <2>4
<1>6. OrderedBy(x, R)
  BY <1>3, <1>5 DEF OrderedBy
<1>7. DOMAIN x = 1..(n + k) /\ DOMAIN a = 1..n /\ DOMAIN b = 1..k
  BY <1>1, <1>2, <1>3
<1>8. \A y : y \in Range(x) <=> y \in Range(a) \/ y \in Range(b)
  <2>1. \A i \in 1..n : i \in 1..(n + k)
    OBVIOUS
  <2>2. \A i \in 1..k : n + i \in 1..(n + k)
    OBVIOUS
  <2>3. ASSUME NEW y \in Range(x) PROVE y \in Range(a) \/ y \in Range(b)
    <3>1. PICK i \in 1..(n + k) : y = x[i]
      BY <1>7 DEF Range
    <3>2. CASE i \in 1..n
      BY <1>3, <1>7, <3>1, <3>2 DEF Range
    <3>3. ASSUME NEW h \in 1..k, i = n + h PROVE y \in Range(b)
      BY <1>3, <1>7, <3>1, <3>3 DEF Range
    <3> QED
      BY <1>4, <3>2, <3>3
  <2>4. ASSUME NEW y \in Range(a) PROVE y \in Range(x)
    <3>1. PICK i \in 1..n : y = a[i]
      BY <1>7 DEF Range
    <3>2. i \in DOMAIN x /\ y = x[i]
      BY <1>3, <1>7, <2>1, <3>1
    <3> QED
      BY <3>2 DEF Range
  <2>5. ASSUME NEW y \in Range(b) PROVE y \in Range(x)
    <3>1. PICK i \in 1..k : y = b[i]
      BY <1>7 DEF Range
    <3>2. n + i \in DOMAIN x /\ y = x[n + i]
      BY <1>3, <1>7, <2>2, <3>1
    <3> QED
      BY <3>2 DEF Range
  <2> QED
    BY <2>3, <2>4, <2>5
<1> QED
  BY <1>1, <1>6, <1>8

\* The members of concatenated lists, in an order that the lists and their members have.
LEMMA FlattenOrdered ==
  ASSUME NEW S, NEW s \in Seq(Seq(S)), NEW R,
         \A n \in 1..Len(s) : OrderedBy(s[n], R),
         \A n, l \in 1..Len(s) : n < l =>
           \A x \in Range(s[n]), y \in Range(s[l]) : <<x, y>> \in R
  PROVE  /\ FlattenSeq(s) \in Seq(S) /\ OrderedBy(FlattenSeq(s), R)
         /\ \A x : x \in Range(FlattenSeq(s)) <=> \E n \in 1..Len(s) : x \in Range(s[n])
<1>0. Len(s) \in Nat /\ \A n \in 1..Len(s) : s[n] \in Seq(S)
  <2>1. \A n \in DOMAIN s : s[n] \in Seq(S)
    OBVIOUS
  <2> QED
    BY <2>1
<1>1. CASE s = <<>>
  <2>1. PICK f : f = FlattenSeq(s)
    OBVIOUS
  <2>2. Len(s) = 0 /\ DOMAIN s = {}
    BY <1>1
  <2>3. f = s
    BY <2>1, <2>2, Zenon DEF FlattenSeq
  <2>4. f \in Seq(S)
    BY <1>1, <2>3, EmptySeq
  <2>5. Len(f) = 0 /\ DOMAIN f = {}
    BY <2>2, <2>3
  <2>6. OrderedBy(f, R) /\ \A x : x \in Range(f) <=> \E n \in 1..Len(s) : x \in Range(s[n])
    BY <2>2, <2>5 DEF OrderedBy, Range
  <2> QED
    BY <2>1, <2>4, <2>6
<1>2. CASE s # <<>>
  <2>1. PICK g \in [1..Len(s) -> Seq(S)] :
               /\ g[1] = s[1]
               /\ \A i \in 2..Len(s) : g[i] = g[i - 1] \o s[i]
               /\ FlattenSeq(s) = g[Len(s)]
    BY <1>2, FlattenSteps
  <2>2. Len(s) \in Nat /\ Len(s) # 0
    BY <1>2
  <2> DEFINE Right(k) == /\ OrderedBy(g[k], R)
                         /\ \A x : x \in Range(g[k]) <=> \E n \in 1..k : x \in Range(s[n])
             T == {k \in Nat : k + 1 <= Len(s) => Right(k + 1)}
  <2>3. Right(1)
    <3>1. 1 \in 1..Len(s) /\ 1..1 = {1}
      BY <2>2
    <3> QED
      BY <2>1, <3>1
  <2>4. ASSUME NEW k \in Nat, k + 2 <= Len(s), Right(k + 1) PROVE Right(k + 2)
    <3>1. /\ k + 2 \in 2..Len(s) /\ k + 2 \in 1..Len(s) /\ k + 1 \in 1..Len(s)
          /\ (k + 2) - 1 = k + 1
      BY <2>2, <2>4
    <3>2. PICK a \in Seq(S), b \in Seq(S) : a = g[k + 1] /\ b = s[k + 2]
      BY <1>0, <2>1, <3>1
    <3>2a. PICK x : x = g[k + 2]
      OBVIOUS
    <3>3. x = a \o b
      BY <2>1, <3>1, <3>2, <3>2a
    <3>4. OrderedBy(a, R) /\ OrderedBy(b, R)
      BY <2>4, <3>1, <3>2, <3>2a
    <3>5. \A y : y \in Range(a) <=> \E n \in 1..(k + 1) : y \in Range(s[n])
      BY <2>4, <3>2, <3>2a
    <3>6. \A i \in 1..Len(a), j \in 1..Len(b) : <<a[i], b[j]>> \in R
      <4> TAKE i \in 1..Len(a), j \in 1..Len(b)
      <4>1. a[i] \in Range(a) /\ b[j] \in Range(b)
        BY DEF Range
      <4>2. PICK n \in 1..(k + 1) : a[i] \in Range(s[n])
        BY <3>5, <4>1
      <4>3. n \in 1..Len(s) /\ n < k + 2
        BY <2>2, <2>4
      <4> QED
        BY <3>1, <3>2, <3>2a, <4>1, <4>2, <4>3
    <3>7. /\ OrderedBy(x, R)
          /\ \A y : y \in Range(x) <=> y \in Range(a) \/ y \in Range(b)
      BY <3>3, <3>4, <3>6, JoinedOrder
    <3>8. \A n : n \in 1..(k + 2) <=> n \in 1..(k + 1) \/ n = k + 2
      OBVIOUS
    <3>9. \A y : y \in Range(x) <=> \E n \in 1..(k + 2) : y \in Range(s[n])
      BY <3>2, <3>2a, <3>5, <3>7, <3>8
    <3> QED
      BY <3>2, <3>2a, <3>7, <3>9
  <2> HIDE DEF Right
  <2>5. 0 \in T
    BY <2>3
  <2>6. ASSUME NEW k \in Nat, k \in T PROVE k + 1 \in T
    <3> SUFFICES ASSUME (k + 1) + 1 <= Len(s) PROVE Right((k + 1) + 1)
      OBVIOUS
    <3>1. (k + 1) + 1 = k + 2 /\ k + 2 <= Len(s) /\ k + 1 <= Len(s)
      BY <2>2
    <3>2. Right(k + 1)
      BY <2>6, <3>1
    <3> QED
      BY <2>4, <3>1, <3>2
  <2> HIDE DEF T
  <2>7. Nat \subseteq T
    BY <2>5, <2>6, SetInduction
  <2>8. PICK n \in Nat : n + 1 = Len(s)
    <3>1. Len(s) - 1 \in Nat /\ (Len(s) - 1) + 1 = Len(s)
      BY <2>2
    <3> QED
      BY <3>1
  <2>9. n \in T /\ n + 1 <= Len(s)
    BY <2>2, <2>7, <2>8
  <2>10. Right(n + 1)
    BY <2>9 DEF T
  <2>11. Right(Len(s)) /\ Len(s) \in 1..Len(s)
    BY <2>2, <2>8, <2>10
  <2> QED
    BY <2>1, <2>11 DEF Right
<1> QED
  BY <1>1, <1>2

\* Numbers in the order in which values are seen first: as many as there are values,
\* without a gap, and one for each value.
LEMMA FirstSeenIs ==
  ASSUME NEW T, NEW seq \in Seq(T)
  PROVE  /\ IsFiniteSet(Range(seq))
         /\ \A x, y \in Range(seq) : FirstSeen(seq, x) = FirstSeen(seq, y) => x = y
         /\ {FirstSeen(seq, x) : x \in Range(seq)} = 0..(Cardinality(Range(seq)) - 1)
<1> DEFINE V == Range(seq)
           first(x) == Position(seq, x)
           P(x) == {seq[i] : i \in 1..(first(x) - 1)}
<1>1. PICK n \in Nat : n = Len(seq) /\ DOMAIN seq = 1..n
  OBVIOUS
<1>2. \A x \in V : /\ first(x) \in 1..n /\ seq[first(x)] = x
                   /\ \A i \in 1..n : seq[i] = x => first(x) <= i
  <2> TAKE x \in V
  <2> DEFINE I == {i \in 1..Len(seq) : seq[i] = x}
  <2>1. I # {} /\ I \subseteq Nat /\ I \subseteq 1..n
    BY <1>1 DEF Range
  <2>2. first(x) = IF I # {} THEN Min(I) ELSE 0
    BY Zenon DEF Position, SelectInSeq
  <2>3. Min(I) \in I /\ \A i \in I : Min(I) <= i
    <3> HIDE DEF I
    <3>1. \E l \in I : \A i \in I : l <= i
      BY <2>1, Least
    <3> QED
      BY <3>1 DEF Min
  <2> HIDE DEF first
  <2> QED
    BY <1>1, <2>1, <2>2, <2>3
<1>3. IsFiniteSet(V)
  <2>1. 1 \in Int /\ n \in Int
    OBVIOUS
  <2>2. IsFiniteSet(1..n)
    BY <2>1, FS_Interval
  <2>3. seq \in Surjection(1..n, V)
    BY <1>1 DEF Surjection, Range
  <2> HIDE DEF V
  <2> QED
    BY <2>2, <2>3, FS_Surjection
<1> HIDE DEF first
<1>4. \A x \in V : P(x) \subseteq V /\ x \notin P(x)
  <2> TAKE x \in V
  <2>1. \A i \in 1..(first(x) - 1) : i \in 1..n /\ ~(first(x) <= i)
    BY <1>2
  <2> QED
    BY <1>1, <1>2, <2>1 DEF Range
<1>5. ASSUME NEW x \in V, NEW y \in V, first(x) < first(y)
      PROVE  P(x) \cup {x} \subseteq P(y)
  <2>1. first(x) \in 1..(first(y) - 1) /\ 1..(first(x) - 1) \subseteq 1..(first(y) - 1)
    BY <1>2, <1>5
  <2>2. seq[first(x)] = x
    BY <1>2
  <2> QED
    BY <2>1, <2>2
<1>6. \A x : FirstSeen(seq, x) = Cardinality(P(x))
  BY DEF FirstSeen, first
<1> HIDE DEF P, V
<1>7. ASSUME NEW x \in V, NEW W, P(x) \cup {x} \subseteq W, IsFiniteSet(W)
      PROVE  /\ Cardinality(P(x)) \in Nat /\ Cardinality(W) \in Nat
             /\ Cardinality(P(x)) < Cardinality(W)
  <2>1. IsFiniteSet(P(x)) /\ IsFiniteSet(P(x) \cup {x})
    BY <1>7, FS_Subset
  <2>2. Cardinality(P(x) \cup {x}) = Cardinality(P(x)) + 1
    BY <1>4, <2>1, FS_AddElement
  <2>3. Cardinality(P(x) \cup {x}) <= Cardinality(W)
    BY <1>7, FS_Subset
  <2>4. Cardinality(P(x)) \in Nat /\ Cardinality(W) \in Nat
    BY <1>7, <2>1, FS_CardinalityType
  <2> QED
    BY <2>2, <2>3, <2>4
<1>8. PICK c \in Nat : c = Cardinality(V)
  BY <1>3, FS_CardinalityType
<1>9. \A x \in V : FirstSeen(seq, x) \in 0..(c - 1)
  <2> TAKE x \in V
  <2>1. P(x) \cup {x} \subseteq V
    BY <1>4
  <2>2. Cardinality(P(x)) \in Nat /\ Cardinality(P(x)) < c
    BY <1>3, <1>7, <1>8, <2>1
  <2> QED
    BY <1>6, <2>2
<1>10. \A x, y \in V : FirstSeen(seq, x) = FirstSeen(seq, y) => x = y
  <2>1. ASSUME NEW x \in V, NEW y \in V, first(x) < first(y)
        PROVE  FirstSeen(seq, x) # FirstSeen(seq, y)
    <3>1. P(x) \cup {x} \subseteq P(y) /\ IsFiniteSet(P(y))
      BY <1>3, <1>4, <1>5, <2>1, FS_Subset
    <3>2. Cardinality(P(x)) \in Nat /\ Cardinality(P(y)) \in Nat
          /\ Cardinality(P(x)) < Cardinality(P(y))
      BY <1>7, <3>1
    <3> QED
      BY <1>6, <3>2
  <2>2. \A x, y \in V : first(x) = first(y) => x = y
    BY <1>2
  <2>3. \A x, y \in V : first(x) < first(y) \/ first(x) = first(y) \/ first(y) < first(x)
    BY <1>2
  <2> QED
    BY <2>1, <2>2, <2>3
<1>11. {FirstSeen(seq, x) : x \in V} = 0..(c - 1)
  <2> DEFINE Img == {FirstSeen(seq, x) : x \in V}
             f == [x \in V |-> FirstSeen(seq, x)]
  <2>1. f \in Bijection(V, Img)
    BY <1>10 DEF Bijection, Injection, Surjection, IsInjective
  <2> HIDE DEF f
  <2>2. ExistsBijection(V, Img)
    BY <2>1 DEF ExistsBijection
  <2>3. Img \subseteq 0..(c - 1)
    BY <1>9
  <2> HIDE DEF Img
  <2>4. Cardinality(Img) = c
    BY <1>3, <1>8, <2>2, FS_Bijection
  <2>5. IsFiniteSet(0..(c - 1)) /\ Cardinality(0..(c - 1)) = c
    <3>1. 0 \in Int /\ c - 1 \in Int
      OBVIOUS
    <3>2. /\ IsFiniteSet(0..(c - 1))
          /\ Cardinality(0..(c - 1)) = IF 0 > c - 1 THEN 0 ELSE (c - 1) - 0 + 1
      BY <3>1, FS_Interval
    <3> QED
      BY <3>2
  <2> QED
    BY <2>3, <2>4, <2>5, FS_Subset DEF Img
<1> QED
  BY <1>3, <1>8, <1>10, <1>11 DEF V

\* A processor as it was read, before the topology is normalized.
LpuRead(m, l) ==
  LET siblings == ParseRangeListFile(m.cpus[l.cpu].siblings)
  IN  /\ l = [cpu |-> l.cpu, node |-> l.node, socket |-> l.socket, die |-> l.die,
              core |-> l.core, thread |-> l.thread]
      /\ l.cpu \in Int /\ l.node \in Int
      /\ l.node \in DOMAIN m.cpulist /\ l.cpu \in DOMAIN m.cpus
      /\ m.cpus[l.cpu].node = l.node
      /\ l.socket = m.cpus[l.cpu].package /\ l.core = m.cpus[l.cpu].core
      /\ IsOk(siblings) /\ Position(siblings.value, l.cpu) # 0
      /\ l.thread = Position(siblings.value, l.cpu) - 1

\* The online processors of a machine, with their nodes.
OnlineOf(m) ==
  {o \in (DOMAIN m.cpulist) \X (DOMAIN m.cpus) : m.cpus[o[2]].node = o[1]}

\* The nodes that were read have the online processors, in order.
NodesListed(m, nodes) ==
  /\ IsList(nodes) /\ \A n \in DOMAIN nodes : IsList(nodes[n])
  /\ \A n \in DOMAIN nodes : \A i \in DOMAIN nodes[n] : LpuRead(m, nodes[n][i])
  /\ \A o \in OnlineOf(m) : \E n \in DOMAIN nodes : \E i \in DOMAIN nodes[n] :
       nodes[n][i].node = o[1] /\ nodes[n][i].cpu = o[2]
  /\ \A n \in DOMAIN nodes : \A i, j \in DOMAIN nodes[n] :
       /\ nodes[n][i].node = nodes[n][j].node
       /\ i < j => nodes[n][i].cpu < nodes[n][j].cpu
  /\ \A n, k \in DOMAIN nodes : n < k =>
       \A i \in DOMAIN nodes[n], j \in DOMAIN nodes[k] : nodes[n][i].node < nodes[k][j].node

\* A processor that is read (cpu.cc).
LEMMA LpuIsRead ==
  ASSUME NEW m, NEW node \in Int, NEW cpu \in Int, IsOk(Lpu(m, node, cpu)),
         node \in DOMAIN m.cpulist, cpu \in DOMAIN m.cpus, m.cpus[cpu].node = node
  PROVE  LET l == Lpu(m, node, cpu).value
         IN  LpuRead(m, l) /\ l.node = node /\ l.cpu = cpu
<1> DEFINE c == m.cpus[cpu]
           siblings == ParseRangeListFile(c.siblings)
<1>1. PICK list : list = siblings
  OBVIOUS
<1>2. PICK p : p = Position(list.value, cpu)
  OBVIOUS
<1>3. Lpu(m, node, cpu) =
        IF {c.package, c.die, c.core} \cap {Missing, Garbage} # {} \/ ~IsOk(list) \/ p = 0
        THEN Error
        ELSE Ok([cpu |-> cpu, node |-> node, socket |-> c.package, die |-> c.die,
                 core |-> c.core, thread |-> p - 1])
  BY <1>1, <1>2 DEF Lpu
<1>4. /\ IsOk(list) /\ p # 0
      /\ Lpu(m, node, cpu) =
           Ok([cpu |-> cpu, node |-> node, socket |-> c.package, die |-> c.die,
               core |-> c.core, thread |-> p - 1])
  BY <1>3 DEF IsOk, Error
<1>5. PICK l : l = Lpu(m, node, cpu).value
  OBVIOUS
<1>6. l = [cpu |-> cpu, node |-> node, socket |-> c.package, die |-> c.die,
           core |-> c.core, thread |-> p - 1]
  BY <1>4, <1>5 DEF Ok
<1>7. /\ l.cpu = cpu /\ l.node = node /\ l.socket = c.package /\ l.die = c.die
      /\ l.core = c.core /\ l.thread = p - 1
  BY <1>6
<1> HIDE DEF siblings
<1>8. LpuRead(m, l)
  BY <1>1, <1>2, <1>4, <1>6, <1>7 DEF LpuRead, siblings
<1> QED
  BY <1>5, <1>7, <1>8

\* Every node that is online, and every processor that a node lists.
LEMMA NodesAreListed ==
  ASSUME NEW m, IsMachine(m), NEW nodes, NodesRead(m, nodes)
  PROVE  NodesListed(m, nodes)
<1> DEFINE online == ParseRangeListFile(m.online).value
           cpus(n) == ParseRangeListFile(m.cpulist[online[n]]).value
<1>1. PICK N \in Nat : N = Len(online)
  BY DEF NodesRead
<1>2. /\ Range(online) = DOMAIN m.cpulist /\ DOMAIN online = 1..N
      /\ IsList(nodes) /\ DOMAIN nodes = 1..N
      /\ \A n, k \in 1..N : n < k => online[n] < online[k]
      /\ \A n \in 1..N : online[n] \in Int
  <2>1. /\ DOMAIN online = 1..N /\ IsList(nodes) /\ DOMAIN nodes = 1..N
        /\ Increasing(online) /\ IsOk(ParseRangeListFile(m.online))
    BY <1>1 DEF NodesRead
  <2>2. Range(online) = DOMAIN m.cpulist
    BY <2>1 DEF IsMachine, IsLayout
  <2> HIDE DEF online
  <2> QED
    BY <1>1, <2>1, <2>2 DEF Increasing
<1>3. ASSUME NEW n \in 1..N
      PROVE  /\ online[n] \in DOMAIN m.cpulist
             /\ NodeRead(m, online[n], nodes[n])
             /\ Range(cpus(n)) = {c \in DOMAIN m.cpus : m.cpus[c].node = online[n]}
  <2>1. online[n] \in DOMAIN m.cpulist /\ NodeRead(m, online[n], nodes[n])
    BY <1>1 DEF NodesRead
  <2> HIDE DEF online
  <2>2. IsOk(ParseRangeListFile(m.cpulist[online[n]]))
    BY <2>1 DEF NodeRead
  <2> QED
    BY <2>1, <2>2 DEF IsMachine, IsLayout
<1> HIDE DEF online
<1>4. ASSUME NEW n \in 1..N
      PROVE  /\ DOMAIN nodes[n] = 1..Len(cpus(n)) /\ DOMAIN cpus(n) = 1..Len(cpus(n))
             /\ IsList(nodes[n])
             /\ \A i, j \in 1..Len(cpus(n)) : i < j => cpus(n)[i] < cpus(n)[j]
             /\ \A i \in 1..Len(cpus(n)) :
                  /\ nodes[n][i] = Lpu(m, online[n], cpus(n)[i]).value
                  /\ IsOk(Lpu(m, online[n], cpus(n)[i]))
                  /\ cpus(n)[i] \in Int /\ cpus(n)[i] \in DOMAIN m.cpus
                  /\ m.cpus[cpus(n)[i]].node = online[n]
  <2>1. PICK list : list = cpus(n)
    OBVIOUS
  <2>2. /\ Increasing(list) /\ Len(list) \in Nat /\ DOMAIN list = 1..Len(list)
        /\ nodes[n] = [i \in 1..Len(list) |-> Lpu(m, online[n], list[i]).value]
        /\ \A i \in 1..Len(list) : IsOk(Lpu(m, online[n], list[i]))
    BY <1>3, <2>1 DEF NodeRead
  <2>3. IsList(nodes[n]) /\ DOMAIN nodes[n] = 1..Len(list)
    BY <2>2, ListIs
  <2>4. Range(list) = {c \in DOMAIN m.cpus : m.cpus[c].node = online[n]}
    BY <1>3, <2>1
  <2> HIDE DEF cpus
  <2>5. \A i \in 1..Len(list) : list[i] \in Range(list)
    BY <2>2 DEF Range
  <2>6. \A i \in 1..Len(list) : list[i] \in Int
    BY <2>2 DEF Increasing
  <2>7. \A i, j \in 1..Len(list) : i < j => list[i] < list[j]
    BY <2>2 DEF Increasing
  <2> QED
    BY <2>1, <2>2, <2>3, <2>4, <2>5, <2>6, <2>7
<1>5. ASSUME NEW n \in 1..N, NEW i \in DOMAIN nodes[n]
      PROVE  /\ LpuRead(m, nodes[n][i])
             /\ nodes[n][i].node = online[n] /\ nodes[n][i].cpu = cpus(n)[i]
  <2>1. PICK cpu \in Int : cpu = cpus(n)[i]
    BY <1>4
  <2>2. PICK node \in Int : node = online[n]
    BY <1>2
  <2> HIDE DEF cpus
  <2>3. /\ IsOk(Lpu(m, node, cpu)) /\ node \in DOMAIN m.cpulist /\ cpu \in DOMAIN m.cpus
        /\ m.cpus[cpu].node = node /\ nodes[n][i] = Lpu(m, node, cpu).value
    BY <1>3, <1>4, <2>1, <2>2
  <2> QED
    BY <2>1, <2>2, <2>3, LpuIsRead
<1>6. ASSUME NEW o \in OnlineOf(m)
      PROVE  \E n \in DOMAIN nodes : \E i \in DOMAIN nodes[n] :
               nodes[n][i].node = o[1] /\ nodes[n][i].cpu = o[2]
  <2>1. o[1] \in DOMAIN m.cpulist /\ o[2] \in DOMAIN m.cpus /\ m.cpus[o[2]].node = o[1]
    BY DEF OnlineOf
  <2>2. PICK n \in 1..N : online[n] = o[1]
    BY <1>2, <2>1 DEF Range
  <2>3. o[2] \in Range(cpus(n))
    BY <1>3, <2>1, <2>2
  <2>4. PICK i \in DOMAIN nodes[n] : cpus(n)[i] = o[2]
    BY <1>4, <2>3 DEF Range
  <2> HIDE DEF cpus
  <2> QED
    BY <1>2, <1>5, <2>2, <2>4
<1>7. ASSUME NEW n \in 1..N, NEW i \in DOMAIN nodes[n], NEW j \in DOMAIN nodes[n]
      PROVE  /\ nodes[n][i].node = nodes[n][j].node
             /\ i < j => nodes[n][i].cpu < nodes[n][j].cpu
  <2> HIDE DEF cpus
  <2> QED
    BY <1>4, <1>5
<1>8. ASSUME NEW n \in 1..N, NEW k \in 1..N, n < k,
             NEW i \in DOMAIN nodes[n], NEW j \in DOMAIN nodes[k]
      PROVE  nodes[n][i].node < nodes[k][j].node
  BY <1>2, <1>5, <1>8
<1> QED
  BY <1>2, <1>4, <1>5, <1>6, <1>7, <1>8 DEF NodesListed

\* The sockets that NormalizeTopology numbers.
SocketsOf(nodes) == [i \in DOMAIN FlattenSeq(nodes) |-> FlattenSeq(nodes)[i].socket]

\* The cores that it numbers, of a node.
CoresOf(nodes, n) == [i \in DOMAIN nodes[n] |-> nodes[n][i].core]

\* A processor that has its numbers.
Renumbered(nodes, n, l, read) ==
  /\ l.cpu = read.cpu /\ l.node = read.node /\ l.thread = read.thread
  /\ l.socket = FirstSeen(SocketsOf(nodes), read.socket)
  /\ l.core = FirstSeen(CoresOf(nodes, n), read.core)

\* The normalized nodes have the processors that were read.
AllRenumbered(nodes, N) ==
  /\ IsList(N) /\ DOMAIN N = DOMAIN nodes
  /\ \A n \in DOMAIN N : IsList(N[n]) /\ DOMAIN N[n] = DOMAIN nodes[n]
  /\ \A n \in DOMAIN N : \A i \in DOMAIN N[n] : Renumbered(nodes, n, N[n][i], nodes[n][i])

\* What NormalizeTopology changes (cpu.cc:146-190).
LEMMA NormalizedIs ==
  ASSUME NEW m, NEW nodes, NodesListed(m, nodes)
  PROVE  AllRenumbered(nodes, Normalize(nodes))
<1>1. PICK sockets : sockets = SocketsOf(nodes)
  OBVIOUS
<1> DEFINE new(n) == [i \in DOMAIN nodes[n] |->
                        [nodes[n][i] EXCEPT !.socket = FirstSeen(sockets, @),
                                            !.core   = FirstSeen(CoresOf(nodes, n), @)]]
<1>2. Normalize(nodes) = [n \in DOMAIN nodes |-> new(n)]
  BY <1>1 DEF Normalize, SocketsOf, CoresOf
<1>3. PICK N : N = Normalize(nodes)
  OBVIOUS
<1>4. /\ IsList(nodes) /\ DOMAIN nodes = 1..Len(nodes) /\ Len(nodes) \in Nat
      /\ \A n \in DOMAIN nodes : /\ IsList(nodes[n]) /\ DOMAIN nodes[n] = 1..Len(nodes[n])
                                 /\ Len(nodes[n]) \in Nat
  <2>1. IsList(nodes) /\ \A n \in DOMAIN nodes : IsList(nodes[n])
    BY DEF NodesListed
  <2> QED
    BY <2>1 DEF IsList
<1>5. ASSUME NEW n \in DOMAIN nodes, NEW i \in DOMAIN nodes[n]
      PROVE  Renumbered(nodes, n, new(n)[i], nodes[n][i])
  <2>1. PICK l : l = nodes[n][i]
    OBVIOUS
  <2>2. PICK cores : cores = CoresOf(nodes, n)
    OBVIOUS
  <2>3. new(n)[i] = [l EXCEPT !.socket = FirstSeen(sockets, @), !.core = FirstSeen(cores, @)]
    BY <2>1, <2>2
  <2>4. l = [cpu |-> l.cpu, node |-> l.node, socket |-> l.socket, die |-> l.die,
             core |-> l.core, thread |-> l.thread]
    BY <2>1 DEF NodesListed, LpuRead
  <2>5. new(n)[i] = [cpu |-> l.cpu, node |-> l.node, socket |-> FirstSeen(sockets, l.socket),
                     die |-> l.die, core |-> FirstSeen(cores, l.core), thread |-> l.thread]
    BY <2>3, <2>4
  <2> HIDE DEF new
  <2> QED
    BY <1>1, <2>1, <2>2, <2>5 DEF Renumbered
<1>6. ASSUME NEW n \in DOMAIN nodes
      PROVE  IsList(new(n)) /\ DOMAIN new(n) = DOMAIN nodes[n]
  <2>1. new(n) = [i \in 1..Len(nodes[n]) |-> new(n)[i]]
    BY <1>4
  <2> HIDE DEF new
  <2> QED
    BY <1>4, <2>1, ListIs
<1> HIDE DEF new
<1>7. N = [n \in 1..Len(nodes) |-> N[n]]
  BY <1>2, <1>3, <1>4
<1>8. IsList(N) /\ DOMAIN N = DOMAIN nodes
  BY <1>4, <1>7, ListIs
<1>9. \A n \in DOMAIN nodes : N[n] = new(n)
  BY <1>2, <1>3
<1> QED
  BY <1>3, <1>5, <1>6, <1>8, <1>9 DEF AllRenumbered

\* Lists of lists.
LEMMA ListOfLists ==
  ASSUME NEW s, IsList(s), \A n \in DOMAIN s : IsList(s[n])
  PROVE  \E S : s \in Seq(Seq(S)) /\ \A n \in DOMAIN s : Range(s[n]) \subseteq S
<1> DEFINE S == UNION {Range(s[n]) : n \in DOMAIN s}
<1>1. \A n \in DOMAIN s : Range(s[n]) \subseteq S
  OBVIOUS
<1> HIDE DEF S
<1>2. \A n \in DOMAIN s : s[n] \in Seq(S)
  <2> TAKE n \in DOMAIN s
  <2>1. s[n] \in Seq(Range(s[n]))
    BY DEF IsList
  <2>2. \A i \in 1..Len(s[n]) : s[n][i] \in S
    BY <1>1, <2>1 DEF Range
  <2> QED
    BY <2>1, <2>2
<1>3. s \in Seq(Seq(S))
  <2>1. PICK A : s \in Seq(A)
    BY DEF IsList
  <2>2. \A n \in 1..Len(s) : s[n] \in Seq(S)
    BY <1>2, <2>1
  <2> HIDE DEF S
  <2> QED
    BY <2>1, <2>2
<1> QED
  BY <1>1, <1>3

\* The sockets that are numbered are the packages of the online processors.
LEMMA SocketsAre ==
  ASSUME NEW m, NEW nodes, NodesListed(m, nodes)
  PROVE  /\ IsList(SocketsOf(nodes))
         /\ Range(SocketsOf(nodes)) = {m.cpus[o[2]].package : o \in OnlineOf(m)}
<1>1. PICK S : nodes \in Seq(Seq(S)) /\ \A n \in DOMAIN nodes : Range(nodes[n]) \subseteq S
  BY ListOfLists DEF NodesListed
<1>2. DOMAIN nodes = 1..Len(nodes) /\ \A n \in DOMAIN nodes : nodes[n] \in Seq(S)
  BY <1>1
<1>3. PICK flat : flat = FlattenSeq(nodes)
  OBVIOUS
<1>4. /\ flat \in Seq(S)
      /\ \A x : x \in Range(flat) <=> \E n \in 1..Len(nodes) : x \in Range(nodes[n])
  <2> DEFINE R == S \X S
  <2>1. \A n \in 1..Len(nodes) : OrderedBy(nodes[n], R)
    <3> TAKE n \in 1..Len(nodes)
    <3>1. nodes[n] \in Seq(S)
      BY <1>2
    <3>2. \A i \in 1..Len(nodes[n]) : nodes[n][i] \in S
      BY <3>1
    <3> QED
      BY <3>2 DEF OrderedBy
  <2>2. \A n, l \in 1..Len(nodes) : n < l =>
           \A x \in Range(nodes[n]), y \in Range(nodes[l]) : <<x, y>> \in R
    BY <1>1, <1>2
  <2> HIDE DEF R
  <2> QED
    BY <1>1, <1>3, <2>1, <2>2, FlattenOrdered
<1>5. PICK n \in Nat : n = Len(flat) /\ DOMAIN flat = 1..n
  BY <1>4
<1>6. SocketsOf(nodes) = [i \in 1..n |-> flat[i].socket]
  BY <1>3, <1>5 DEF SocketsOf
<1>7. PICK sockets : sockets = SocketsOf(nodes)
  OBVIOUS
<1>8. IsList(sockets) /\ DOMAIN sockets = 1..n
  <2>1. sockets = [i \in 1..n |-> sockets[i]]
    BY <1>6, <1>7
  <2> QED
    BY <2>1, ListIs
<1>9. ASSUME NEW s \in Range(sockets)
      PROVE  s \in {m.cpus[o[2]].package : o \in OnlineOf(m)}
  <2>1. PICK i \in 1..n : s = flat[i].socket
    BY <1>6, <1>7, <1>8, <1>9 DEF Range
  <2>2. flat[i] \in Range(flat)
    BY <1>5 DEF Range
  <2>3. PICK k \in 1..Len(nodes) : flat[i] \in Range(nodes[k])
    BY <1>4, <2>2
  <2>4. PICK j \in DOMAIN nodes[k] : flat[i] = nodes[k][j]
    BY <2>3 DEF Range
  <2>5. PICK l : l = nodes[k][j]
    OBVIOUS
  <2>6. LpuRead(m, l)
    BY <1>2, <2>4, <2>5 DEF NodesListed
  <2>7. <<l.node, l.cpu>> \in OnlineOf(m) /\ s = m.cpus[l.cpu].package
    BY <2>1, <2>4, <2>5, <2>6 DEF LpuRead, OnlineOf
  <2>8. PICK o \in OnlineOf(m) : o = <<l.node, l.cpu>>
    BY <2>7
  <2>9. o[2] = l.cpu
    BY <2>8
  <2> QED
    BY <2>7, <2>8, <2>9
<1>10. ASSUME NEW o \in OnlineOf(m)
       PROVE  m.cpus[o[2]].package \in Range(sockets)
  <2>1. PICK k \in DOMAIN nodes : \E j \in DOMAIN nodes[k] :
               nodes[k][j].node = o[1] /\ nodes[k][j].cpu = o[2]
    BY DEF NodesListed
  <2>2. PICK j \in DOMAIN nodes[k] : nodes[k][j].cpu = o[2]
    BY <2>1
  <2>3. PICK l : l = nodes[k][j]
    OBVIOUS
  <2>4. LpuRead(m, l)
    BY <2>3 DEF NodesListed
  <2>5. l.socket = m.cpus[o[2]].package
    BY <2>2, <2>3, <2>4 DEF LpuRead
  <2>6. l \in Range(nodes[k])
    BY <2>3 DEF Range
  <2>7. l \in Range(flat)
    BY <1>2, <1>4, <2>6
  <2>8. PICK i \in 1..n : flat[i] = l
    BY <1>5, <2>7 DEF Range
  <2>9. sockets[i] = l.socket /\ i \in DOMAIN sockets
    BY <1>6, <1>7, <2>8
  <2> QED
    BY <2>5, <2>9 DEF Range
<1> QED
  BY <1>7, <1>8, <1>9, <1>10

\* What a topology lists: the processors that were read, in the order of nodes and numbers.
TopologyLists(nodes, lpus) ==
  /\ IsList(lpus) /\ Len(lpus) \in Nat /\ DOMAIN lpus = 1..Len(lpus)
  /\ \A k \in DOMAIN lpus : \E n \in DOMAIN nodes : \E i \in DOMAIN nodes[n] :
       Renumbered(nodes, n, lpus[k], nodes[n][i])
  /\ \A n \in DOMAIN nodes : \A i \in DOMAIN nodes[n] : \E k \in DOMAIN lpus :
       Renumbered(nodes, n, lpus[k], nodes[n][i])
  /\ \A i, j \in DOMAIN lpus : i < j =>
       \/ lpus[i].node < lpus[j].node
       \/ lpus[i].node = lpus[j].node /\ lpus[i].cpu < lpus[j].cpu

\* The topology has each processor once.
LEMMA TopologyOfNodes ==
  ASSUME NEW m, NEW nodes, NodesListed(m, nodes), NEW lpus,
         lpus = FlattenSeq(Normalize(nodes))
  PROVE  TopologyLists(nodes, lpus)
<1>1. PICK N : N = Normalize(nodes)
  OBVIOUS
<1>2. AllRenumbered(nodes, N)
  BY <1>1, NormalizedIs
<1>3. PICK S : N \in Seq(Seq(S)) /\ \A n \in DOMAIN N : Range(N[n]) \subseteq S
  BY <1>2, ListOfLists DEF AllRenumbered
<1>4. DOMAIN N = 1..Len(N) /\ \A n \in DOMAIN N : N[n] \in Seq(S) /\ DOMAIN N[n] = 1..Len(N[n])
  BY <1>3
<1> DEFINE before(x, y) == x.node < y.node \/ (x.node = y.node /\ x.cpu < y.cpu)
           R == {p \in S \X S : before(p[1], p[2])}
<1>5. \A x, y \in S : <<x, y>> \in R <=> before(x, y)
  OBVIOUS
<1>6. \A n \in DOMAIN N : \A i \in DOMAIN N[n] :
        /\ N[n][i] \in S
        /\ N[n][i].node = nodes[n][i].node /\ N[n][i].cpu = nodes[n][i].cpu
  <2>1. \A n \in DOMAIN N : \A i \in DOMAIN N[n] : N[n][i] \in S
    BY <1>3 DEF Range
  <2> QED
    BY <1>2, <2>1 DEF AllRenumbered, Renumbered
<1>7. DOMAIN N = DOMAIN nodes /\ \A n \in DOMAIN N : DOMAIN N[n] = DOMAIN nodes[n]
  BY <1>2 DEF AllRenumbered
<1>8. \A n \in 1..Len(N) : OrderedBy(N[n], R)
  <2> TAKE n \in 1..Len(N)
  <2>1. ASSUME NEW i \in DOMAIN N[n], NEW j \in DOMAIN N[n], i < j
        PROVE  before(N[n][i], N[n][j])
    <3>1. nodes[n][i].node = nodes[n][j].node /\ nodes[n][i].cpu < nodes[n][j].cpu
      BY <1>4, <1>7, <2>1 DEF NodesListed
    <3> QED
      BY <1>4, <1>6, <3>1
  <2> HIDE DEF R, before
  <2>2. \A i, j \in DOMAIN N[n] : i < j => <<N[n][i], N[n][j]>> \in R
    BY <1>4, <1>5, <1>6, <2>1
  <2> QED
    BY <1>4, <2>2 DEF OrderedBy
<1>9. \A n, k \in 1..Len(N) : n < k =>
        \A x \in Range(N[n]), y \in Range(N[k]) : <<x, y>> \in R
  <2> SUFFICES ASSUME NEW n \in 1..Len(N), NEW k \in 1..Len(N), n < k,
                      NEW x \in Range(N[n]), NEW y \in Range(N[k])
               PROVE  <<x, y>> \in R
    OBVIOUS
  <2>1. PICK i \in DOMAIN N[n], j \in DOMAIN N[k] : x = N[n][i] /\ y = N[k][j]
    BY DEF Range
  <2>2. nodes[n][i].node < nodes[k][j].node
    BY <1>4, <1>7 DEF NodesListed
  <2>3. x.node < y.node /\ x \in S /\ y \in S
    BY <1>4, <1>6, <2>1, <2>2
  <2> QED
    BY <2>3
<1> HIDE DEF R
<1>10. /\ lpus \in Seq(S) /\ OrderedBy(lpus, R)
       /\ \A x : x \in Range(lpus) <=> \E n \in 1..Len(N) : x \in Range(N[n])
  BY <1>1, <1>3, <1>8, <1>9, FlattenOrdered
<1>11. IsList(lpus) /\ Len(lpus) \in Nat /\ DOMAIN lpus = 1..Len(lpus)
       /\ \A k \in DOMAIN lpus : lpus[k] \in S
  <2>1. Len(lpus) \in Nat /\ DOMAIN lpus = 1..Len(lpus) /\ \A k \in DOMAIN lpus : lpus[k] \in S
    BY <1>10
  <2>2. \A k \in 1..Len(lpus) : lpus[k] \in Range(lpus)
    BY <2>1 DEF Range
  <2>3. lpus \in Seq(Range(lpus))
    BY <1>10, <2>2
  <2> QED
    BY <2>1, <2>3 DEF IsList
<1>12. ASSUME NEW k \in DOMAIN lpus
       PROVE  \E n \in DOMAIN nodes : \E i \in DOMAIN nodes[n] :
                Renumbered(nodes, n, lpus[k], nodes[n][i])
  <2>1. lpus[k] \in Range(lpus)
    BY DEF Range
  <2>2. PICK n \in DOMAIN N : lpus[k] \in Range(N[n])
    BY <1>4, <1>10, <2>1
  <2>3. PICK i \in DOMAIN N[n] : lpus[k] = N[n][i]
    BY <2>2 DEF Range
  <2>4. Renumbered(nodes, n, N[n][i], nodes[n][i])
    BY <1>2 DEF AllRenumbered
  <2> QED
    BY <1>7, <2>3, <2>4
<1>13. ASSUME NEW n \in DOMAIN nodes, NEW i \in DOMAIN nodes[n]
       PROVE  \E k \in DOMAIN lpus : Renumbered(nodes, n, lpus[k], nodes[n][i])
  <2>1. n \in DOMAIN N /\ i \in DOMAIN N[n] /\ N[n][i] \in Range(N[n])
    BY <1>7 DEF Range
  <2>2. N[n][i] \in Range(lpus)
    BY <1>4, <1>10, <2>1
  <2>3. PICK k \in DOMAIN lpus : lpus[k] = N[n][i]
    BY <2>2 DEF Range
  <2>4. Renumbered(nodes, n, N[n][i], nodes[n][i])
    BY <1>2, <2>1 DEF AllRenumbered
  <2> QED
    BY <2>3, <2>4
<1>14. \A i, j \in DOMAIN lpus : i < j => before(lpus[i], lpus[j])
  <2> HIDE DEF before
  <2>1. \A i, j \in DOMAIN lpus : i < j => <<lpus[i], lpus[j]>> \in R
    BY <1>10, <1>11 DEF OrderedBy
  <2> QED
    BY <1>5, <1>11, <2>1
<1> QED
  BY <1>11, <1>12, <1>13, <1>14 DEF TopologyLists

\* The processors of a core.
CoreOf(m, c) ==
  {d \in DOMAIN m.cpus : CoreId(m, d) = CoreId(m, c)}

\* Thread 0 is the first processor of its core.
LEMMA ThreadIs ==
  ASSUME NEW m, IsMachine(m), NEW l, LpuRead(m, l)
  PROVE  /\ CoreOf(m, l.cpu) \subseteq Int
         /\ \E d \in CoreOf(m, l.cpu) : \A e \in CoreOf(m, l.cpu) : d <= e
         /\ l.thread = 0 <=> \A e \in CoreOf(m, l.cpu) : l.cpu <= e
<1>1. PICK ranges : ranges = m.cpus[l.cpu].siblings
  OBVIOUS
<1>2. PICK seq : seq = ParseRangeListFile(ranges).value
  OBVIOUS
<1>3. PICK p : p = Position(seq, l.cpu)
  OBVIOUS
<1>4. /\ IsOk(ParseRangeListFile(ranges)) /\ p # 0 /\ l.thread = p - 1
      /\ l.cpu \in Int /\ l.cpu \in DOMAIN m.cpus
  BY <1>1, <1>2, <1>3 DEF LpuRead
<1>5. IsRanges(ranges)
  BY <1>1, <1>4 DEF IsMachine, IsLayout
<1>6. Increasing(seq)
  BY <1>2, <1>4, <1>5, RangeListIs
<1>7. PICK n \in Nat : n = Len(seq) /\ DOMAIN seq = 1..n
  BY <1>6 DEF Increasing
<1>8. /\ \A i, j \in 1..n : i < j => seq[i] < seq[j]
      /\ \A i \in 1..n : seq[i] \in Int
  BY <1>6, <1>7 DEF Increasing
<1>9. p \in 1..n /\ seq[p] = l.cpu
  <2> DEFINE I == {i \in 1..Len(seq) : seq[i] = l.cpu}
  <2>1. p = IF I # {} THEN Min(I) ELSE 0
    BY <1>3, Zenon DEF Position, SelectInSeq
  <2>2. I # {} /\ I \subseteq Nat /\ I \subseteq 1..n
    BY <1>4, <1>7, <2>1
  <2>3. Min(I) \in I
    <3> HIDE DEF I
    <3>1. \E x \in I : \A y \in I : x <= y
      BY <2>2, Least
    <3> QED
      BY <3>1 DEF Min
  <2> QED
    BY <1>7, <2>1, <2>2, <2>3
<1>10. Range(seq) = CoreOf(m, l.cpu)
  <2>1. l.cpu \in Range(seq)
    BY <1>7, <1>9 DEF Range
  <2> QED
    BY <1>1, <1>2, <1>4, <2>1 DEF IsMachine, IsLayout, CoreOf
<1>11. /\ CoreOf(m, l.cpu) \subseteq Int
       /\ seq[1] \in CoreOf(m, l.cpu) /\ \A e \in CoreOf(m, l.cpu) : seq[1] <= e
  <2>1. 1 \in 1..n /\ \A i \in 1..n : i = 1 \/ 1 < i
    BY <1>9
  <2>2. \A i \in 1..n : seq[1] <= seq[i]
    BY <1>8, <2>1
  <2> HIDE DEF CoreOf
  <2> QED
    BY <1>7, <1>8, <1>10, <2>1, <2>2 DEF Range
<1>12. l.thread = 0 <=> p = 1
  BY <1>4, <1>9
<1>13. p = 1 <=> seq[1] = l.cpu
  <2>1. 1 \in 1..n /\ (p = 1 \/ 1 < p)
    BY <1>9
  <2> QED
    BY <1>8, <1>9, <2>1
<1>14. seq[1] = l.cpu <=> \A e \in CoreOf(m, l.cpu) : l.cpu <= e
  <2>1. l.cpu \in CoreOf(m, l.cpu)
    BY <1>4 DEF CoreOf
  <2> HIDE DEF CoreOf
  <2> QED
    BY <1>4, <1>11, <2>1
<1> QED
  BY <1>11, <1>12, <1>13, <1>14

\* A processor of the topology is one that is online, with its numbers.
LpuIs(m, nodes, l) ==
  /\ l.cpu \in Int /\ l.node \in Int /\ <<l.node, l.cpu>> \in OnlineOf(m)
  /\ m.cpus[l.cpu].package \in Range(SocketsOf(nodes))
  /\ l.socket = FirstSeen(SocketsOf(nodes), m.cpus[l.cpu].package)
  /\ \E n \in DOMAIN nodes :
       /\ \E i \in DOMAIN nodes[n] : nodes[n][i].node = l.node
       /\ m.cpus[l.cpu].core \in Range(CoresOf(nodes, n))
       /\ l.core = FirstSeen(CoresOf(nodes, n), m.cpus[l.cpu].core)
  /\ CoreOf(m, l.cpu) \subseteq Int
  /\ \E d \in CoreOf(m, l.cpu) : \A e \in CoreOf(m, l.cpu) : d <= e
  /\ l.thread = 0 <=> \A e \in CoreOf(m, l.cpu) : l.cpu <= e

\* Each processor of the topology.
LEMMA TopologyLpu ==
  ASSUME NEW m, IsMachine(m), NEW nodes, NodesListed(m, nodes), NEW lpus,
         TopologyLists(nodes, lpus), NEW k \in DOMAIN lpus
  PROVE  LpuIs(m, nodes, lpus[k])
<1>1. PICK n \in DOMAIN nodes : \E i \in DOMAIN nodes[n] :
             Renumbered(nodes, n, lpus[k], nodes[n][i])
  BY DEF TopologyLists
<1>2. PICK i \in DOMAIN nodes[n] : Renumbered(nodes, n, lpus[k], nodes[n][i])
  BY <1>1
<1>3. PICK l, read : l = lpus[k] /\ read = nodes[n][i]
  OBVIOUS
<1>4. LpuRead(m, read)
  BY <1>3 DEF NodesListed
<1>5. /\ l.cpu = read.cpu /\ l.node = read.node /\ l.thread = read.thread
      /\ l.socket = FirstSeen(SocketsOf(nodes), read.socket)
      /\ l.core = FirstSeen(CoresOf(nodes, n), read.core)
  BY <1>2, <1>3 DEF Renumbered
<1>6. /\ l.cpu \in Int /\ l.node \in Int
      /\ l.node \in DOMAIN m.cpulist /\ l.cpu \in DOMAIN m.cpus
      /\ m.cpus[l.cpu].node = l.node
      /\ read.socket = m.cpus[l.cpu].package /\ read.core = m.cpus[l.cpu].core
  BY <1>4, <1>5 DEF LpuRead
<1>7. PICK o : o = <<l.node, l.cpu>>
  OBVIOUS
<1>8. o \in OnlineOf(m) /\ o[2] = l.cpu
  BY <1>6, <1>7 DEF OnlineOf
<1>9. m.cpus[l.cpu].package \in Range(SocketsOf(nodes))
  <2>1. m.cpus[o[2]].package \in {m.cpus[q[2]].package : q \in OnlineOf(m)}
    BY <1>8
  <2> QED
    BY <1>8, <2>1, SocketsAre
<1>10. read.core \in Range(CoresOf(nodes, n))
  BY <1>3 DEF CoresOf, Range
<1>11. /\ CoreOf(m, l.cpu) \subseteq Int
       /\ \E d \in CoreOf(m, l.cpu) : \A e \in CoreOf(m, l.cpu) : d <= e
       /\ l.thread = 0 <=> \A e \in CoreOf(m, l.cpu) : l.cpu <= e
  BY <1>4, <1>5, ThreadIs
<1> QED
  BY <1>3, <1>5, <1>6, <1>7, <1>8, <1>9, <1>10, <1>11 DEF LpuIs

\* Processors that differ in the topology differ on the machine.
LEMMA LpusDiffer ==
  ASSUME NEW m, IsMachine(m), NEW nodes, NodesListed(m, nodes), NEW lpus,
         TopologyLists(nodes, lpus), NEW i \in DOMAIN lpus, NEW j \in DOMAIN lpus
  PROVE  lpus[i].cpu = lpus[j].cpu => i = j
<1> SUFFICES ASSUME lpus[i].cpu = lpus[j].cpu PROVE i = j
  OBVIOUS
<1>1. LpuIs(m, nodes, lpus[i]) /\ LpuIs(m, nodes, lpus[j])
  BY TopologyLpu
<1>2. PICK a, b : a = lpus[i] /\ b = lpus[j]
  OBVIOUS
<1>3. /\ m.cpus[a.cpu].node = a.node /\ m.cpus[b.cpu].node = b.node
      /\ a.cpu \in Int /\ a.node \in Int
  <2>1. <<a.node, a.cpu>> \in OnlineOf(m) /\ <<b.node, b.cpu>> \in OnlineOf(m)
    BY <1>1, <1>2 DEF LpuIs
  <2> QED
    BY <1>1, <1>2, <2>1 DEF LpuIs, OnlineOf
<1>4. a.cpu = b.cpu /\ a.node = b.node
  BY <1>2, <1>3
<1>5. i \in Nat /\ j \in Nat
  BY DEF TopologyLists
<1>6. ~(i < j) /\ ~(j < i)
  <2>1. ~(a.node < b.node) /\ ~(b.node < a.node) /\ ~(a.cpu < b.cpu) /\ ~(b.cpu < a.cpu)
    <3>1. ~(a.node < a.node) /\ ~(a.cpu < a.cpu)
      BY <1>3
    <3> QED
      BY <1>4, <3>1
  <2>2. /\ i < j => a.node < b.node \/ a.cpu < b.cpu
        /\ j < i => b.node < a.node \/ b.cpu < a.cpu
    BY <1>2, Zenon DEF TopologyLists
  <2> QED
    BY <2>1, <2>2, Zenon
<1> QED
  BY <1>5, <1>6

\* Each online processor is in the topology.
LEMMA EveryLpu ==
  ASSUME NEW m, NEW nodes, NodesListed(m, nodes), NEW lpus,
         TopologyLists(nodes, lpus), NEW o \in OnlineOf(m)
  PROVE  \E k \in DOMAIN lpus : <<lpus[k].node, lpus[k].cpu>> = o
<1>1. PICK n \in DOMAIN nodes : \E i \in DOMAIN nodes[n] :
             nodes[n][i].node = o[1] /\ nodes[n][i].cpu = o[2]
  BY DEF NodesListed
<1>2. PICK i \in DOMAIN nodes[n] : nodes[n][i].node = o[1] /\ nodes[n][i].cpu = o[2]
  BY <1>1
<1>3. PICK k \in DOMAIN lpus : Renumbered(nodes, n, lpus[k], nodes[n][i])
  BY DEF TopologyLists
<1>4. lpus[k].node = o[1] /\ lpus[k].cpu = o[2]
  BY <1>2, <1>3 DEF Renumbered
<1>5. o = <<o[1], o[2]>>
  BY DEF OnlineOf
<1> QED
  BY <1>4, <1>5

\* What TopologyIsFaithful says of an answer to GetCpuInfo.
TopologyRight(m, lpus, counts) ==
  LET Hw(i) == m.cpus[lpus[i].cpu]
      packages == {m.cpus[o[2]].package : o \in OnlineOf(m)}
      cores == {CoreId(m, o[2]) : o \in OnlineOf(m)}
  IN  /\ {<<lpus[i].node, lpus[i].cpu>> : i \in DOMAIN lpus} = OnlineOf(m)
      /\ Len(lpus) = Cardinality(OnlineOf(m))
      /\ \A i, j \in DOMAIN lpus :
           /\ lpus[i].socket = lpus[j].socket <=> Hw(i).package = Hw(j).package
           /\ lpus[i].node = lpus[j].node =>
                (lpus[i].core = lpus[j].core <=> Hw(i).core = Hw(j).core)
      /\ {lpus[i].socket : i \in DOMAIN lpus} = 0..(Cardinality(packages) - 1)
      /\ counts.sockets = Cardinality(packages)
      /\ counts.physical = Cardinality(cores)

\* Each processor once.
LEMMA LpusAreOnline ==
  ASSUME NEW m, IsMachine(m), NEW nodes, NodesListed(m, nodes), NEW lpus,
         TopologyLists(nodes, lpus)
  PROVE  /\ {<<lpus[i].node, lpus[i].cpu>> : i \in DOMAIN lpus} = OnlineOf(m)
         /\ Len(lpus) = Cardinality(OnlineOf(m))
<1> DEFINE pair == [i \in DOMAIN lpus |-> <<lpus[i].node, lpus[i].cpu>>]
<1>1. \A i \in DOMAIN lpus : <<lpus[i].node, lpus[i].cpu>> \in OnlineOf(m)
  BY TopologyLpu DEF LpuIs
<1>2. {<<lpus[i].node, lpus[i].cpu>> : i \in DOMAIN lpus} = OnlineOf(m)
  BY <1>1, EveryLpu
<1>3. \A i, j \in DOMAIN lpus : pair[i] = pair[j] => i = j
  BY LpusDiffer
<1>4. pair \in Bijection(DOMAIN lpus, OnlineOf(m))
  <2>1. pair \in [DOMAIN lpus -> OnlineOf(m)]
    BY <1>1
  <2>2. \A o \in OnlineOf(m) : \E i \in DOMAIN lpus : pair[i] = o
    BY EveryLpu
  <2> HIDE DEF pair
  <2> QED
    BY <1>3, <2>1, <2>2 DEF Bijection, Injection, Surjection, IsInjective
<1>5. DOMAIN lpus = 1..Len(lpus) /\ Len(lpus) \in Nat
  BY DEF TopologyLists
<1>6. IsFiniteSet(DOMAIN lpus) /\ Cardinality(DOMAIN lpus) = Len(lpus)
  <2>1. PICK n \in Nat : n = Len(lpus)
    BY <1>5
  <2>2. 1 \in Int /\ n \in Int
    OBVIOUS
  <2>3. IsFiniteSet(1..n) /\ Cardinality(1..n) = IF 1 > n THEN 0 ELSE n - 1 + 1
    BY <2>2, FS_Interval
  <2>4. (IF 1 > n THEN 0 ELSE n - 1 + 1) = n
    OBVIOUS
  <2> QED
    BY <1>5, <2>1, <2>3, <2>4
<1> HIDE DEF pair
<1>7. ExistsBijection(DOMAIN lpus, OnlineOf(m))
  BY <1>4 DEF ExistsBijection
<1>8. Cardinality(OnlineOf(m)) = Len(lpus)
  BY <1>6, <1>7, FS_Bijection
<1> QED
  BY <1>2, <1>8

\* Thread 0 of each core.
LEMMA HeadsAreCores ==
  ASSUME NEW m, IsMachine(m), NEW nodes, NodesListed(m, nodes), NEW lpus,
         TopologyLists(nodes, lpus)
  PROVE  Cardinality({i \in DOMAIN lpus : lpus[i].thread = 0})
           = Cardinality({CoreId(m, o[2]) : o \in OnlineOf(m)})
<1> DEFINE Heads == {i \in DOMAIN lpus : lpus[i].thread = 0}
           cores == {CoreId(m, o[2]) : o \in OnlineOf(m)}
           core(c) == CoreId(m, c)
           f == [i \in Heads |-> core(lpus[i].cpu)]
<1>1. \A i \in DOMAIN lpus : LpuIs(m, nodes, lpus[i])
  BY TopologyLpu
<1>2. \A o \in OnlineOf(m) : o[1] \in DOMAIN m.cpulist /\ o[2] \in DOMAIN m.cpus
  BY DEF OnlineOf
<1>3. \A c, d : core(c) = core(d) => CoreOf(m, c) = CoreOf(m, d)
  BY DEF CoreOf
<1>4. f \in [Heads -> cores]
  <2>1. ASSUME NEW i \in DOMAIN lpus PROVE core(lpus[i].cpu) \in cores
    <3>1. PICK o \in OnlineOf(m) : o = <<lpus[i].node, lpus[i].cpu>>
      BY <1>1 DEF LpuIs
    <3>2. o[2] = lpus[i].cpu
      BY <3>1
    <3> QED
      BY <3>1, <3>2
  <2> QED
    BY <2>1
<1>5. ASSUME NEW i \in Heads, NEW j \in Heads, f[i] = f[j] PROVE i = j
  <2>1. PICK a, b : a = lpus[i].cpu /\ b = lpus[j].cpu
    OBVIOUS
  <2>2. core(a) = core(b)
    BY <1>5, <2>1
  <2>3. CoreOf(m, a) = CoreOf(m, b)
    BY <1>3, <2>2
  <2>4. a \in CoreOf(m, a) /\ b \in CoreOf(m, b)
    <3>1. <<lpus[i].node, a>> \in OnlineOf(m) /\ <<lpus[j].node, b>> \in OnlineOf(m)
      BY <1>1, <2>1 DEF LpuIs
    <3>2. a \in DOMAIN m.cpus /\ b \in DOMAIN m.cpus
      BY <3>1 DEF OnlineOf
    <3> QED
      BY <3>2 DEF CoreOf
  <2>5. /\ \A e \in CoreOf(m, a) : a <= e
        /\ \A e \in CoreOf(m, b) : b <= e
        /\ a \in Int /\ b \in Int
    BY <1>1, <2>1 DEF LpuIs
  <2>6. a = b
    BY <2>3, <2>4, <2>5
  <2> QED
    BY <2>1, <2>6, LpusDiffer
<1>6. ASSUME NEW c \in cores PROVE \E i \in Heads : f[i] = c
  <2>1. PICK o \in OnlineOf(m) : c = core(o[2])
    OBVIOUS
  <2>2. PICK k \in DOMAIN lpus : <<lpus[k].node, lpus[k].cpu>> = o
    BY EveryLpu
  <2>3. lpus[k].cpu = o[2]
    BY <2>2
  <2>4. PICK d \in CoreOf(m, o[2]) : \A e \in CoreOf(m, o[2]) : d <= e
    BY <1>1, <2>3 DEF LpuIs
  <2>5. d \in DOMAIN m.cpus /\ core(d) = core(o[2])
    BY <2>4 DEF CoreOf
  <2>6. PICK q : q = <<m.cpus[d].node, d>>
    OBVIOUS
  <2>7. q \in OnlineOf(m) /\ q[2] = d
    <3>1. m.cpus[d].node \in DOMAIN m.cpulist
      BY <2>5 DEF IsMachine, IsLayout
    <3> QED
      BY <2>5, <2>6, <3>1 DEF OnlineOf
  <2>8. PICK h \in DOMAIN lpus : <<lpus[h].node, lpus[h].cpu>> = q
    BY <2>7, EveryLpu
  <2>9. lpus[h].cpu = d
    BY <2>7, <2>8
  <2>10. CoreOf(m, d) = CoreOf(m, o[2])
    BY <1>3, <2>5
  <2>11. lpus[h].thread = 0
    BY <1>1, <2>4, <2>9, <2>10 DEF LpuIs
  <2> QED
    BY <2>1, <2>5, <2>9, <2>11
<1>7. IsFiniteSet(Heads)
  <2>1. DOMAIN lpus = 1..Len(lpus) /\ Len(lpus) \in Nat
    BY DEF TopologyLists
  <2>2. 1 \in Int /\ Len(lpus) \in Int
    BY <2>1
  <2>3. IsFiniteSet(1..Len(lpus))
    BY <2>2, FS_Interval
  <2> QED
    BY <2>1, <2>3, FS_Subset
<1> HIDE DEF f, cores, Heads
<1>8. f \in Bijection(Heads, cores)
  BY <1>4, <1>5, <1>6 DEF Bijection, Injection, Surjection, IsInjective
<1>9. ExistsBijection(Heads, cores)
  BY <1>8 DEF ExistsBijection
<1>10. Cardinality(cores) = Cardinality(Heads)
  BY <1>7, <1>9, FS_Bijection
<1> QED
  BY <1>10 DEF Heads, cores

\* Sockets and cores keep their identity.
LEMMA NumbersAreFaithful ==
  ASSUME NEW m, IsMachine(m), NEW nodes, NodesListed(m, nodes), NEW lpus,
         TopologyLists(nodes, lpus), NEW i \in DOMAIN lpus, NEW j \in DOMAIN lpus
  PROVE  /\ lpus[i].socket = lpus[j].socket
              <=> m.cpus[lpus[i].cpu].package = m.cpus[lpus[j].cpu].package
         /\ lpus[i].node = lpus[j].node =>
              (lpus[i].core = lpus[j].core
                 <=> m.cpus[lpus[i].cpu].core = m.cpus[lpus[j].cpu].core)
<1>1. PICK a, b : a = lpus[i] /\ b = lpus[j]
  OBVIOUS
<1>2. LpuIs(m, nodes, a) /\ LpuIs(m, nodes, b)
  BY <1>1, TopologyLpu
<1>3. a.socket = b.socket <=> m.cpus[a.cpu].package = m.cpus[b.cpu].package
  <2>1. PICK sockets : sockets = SocketsOf(nodes)
    OBVIOUS
  <2>2. sockets \in Seq(Range(sockets))
    BY <2>1, SocketsAre DEF IsList
  <2>3. \A x, y \in Range(sockets) : FirstSeen(sockets, x) = FirstSeen(sockets, y) => x = y
    BY <2>2, FirstSeenIs
  <2> QED
    BY <1>2, <2>1, <2>3 DEF LpuIs
<1>4. ASSUME a.node = b.node
      PROVE  a.core = b.core <=> m.cpus[a.cpu].core = m.cpus[b.cpu].core
  <2>1. PICK n \in DOMAIN nodes :
               /\ \E k \in DOMAIN nodes[n] : nodes[n][k].node = a.node
               /\ m.cpus[a.cpu].core \in Range(CoresOf(nodes, n))
               /\ a.core = FirstSeen(CoresOf(nodes, n), m.cpus[a.cpu].core)
    BY <1>2 DEF LpuIs
  <2>2. PICK q \in DOMAIN nodes :
               /\ \E k \in DOMAIN nodes[q] : nodes[q][k].node = b.node
               /\ m.cpus[b.cpu].core \in Range(CoresOf(nodes, q))
               /\ b.core = FirstSeen(CoresOf(nodes, q), m.cpus[b.cpu].core)
    BY <1>2 DEF LpuIs
  <2>3. n = q
    <3>1. n \in Nat /\ q \in Nat
      BY DEF NodesListed, IsList
    <3>2. PICK k \in DOMAIN nodes[n], h \in DOMAIN nodes[q] :
                 nodes[n][k].node = nodes[q][h].node
      BY <1>4, <2>1, <2>2
    <3>3. nodes[n][k].node \in Int /\ nodes[q][h].node \in Int
      BY DEF NodesListed, LpuRead
    <3>4. ~(n < q)
      BY <3>2, <3>3 DEF NodesListed
    <3>5. ~(q < n)
      BY <3>2, <3>3 DEF NodesListed
    <3> QED
      BY <3>1, <3>4, <3>5
  <2>4. PICK cores : cores = CoresOf(nodes, n)
    OBVIOUS
  <2>5. cores \in Seq(Range(cores))
    <3>1. DOMAIN nodes[n] = 1..Len(nodes[n]) /\ Len(nodes[n]) \in Nat
      BY DEF NodesListed, IsList
    <3>2. cores = [k \in 1..Len(nodes[n]) |-> cores[k]]
      BY <2>4, <3>1 DEF CoresOf
    <3> QED
      BY <3>1, <3>2, ListIs DEF IsList
  <2>6. \A x, y \in Range(cores) : FirstSeen(cores, x) = FirstSeen(cores, y) => x = y
    BY <2>5, FirstSeenIs
  <2> QED
    BY <2>1, <2>2, <2>3, <2>4, <2>6
<1> QED
  BY <1>1, <1>3, <1>4

\* The packages of the online processors.
PackagesOf(m) == {m.cpus[o[2]].package : o \in OnlineOf(m)}

\* One number for each package.
SocketsNumbered(m, lpus) ==
  /\ {lpus[i].socket : i \in DOMAIN lpus} = 0..(Cardinality(PackagesOf(m)) - 1)
  /\ Cardinality({lpus[i].socket : i \in DOMAIN lpus}) = Cardinality(PackagesOf(m))

\* The sockets of the topology are numbered from 0, without a gap.
LEMMA SocketNumbers ==
  ASSUME NEW m, IsMachine(m), NEW nodes, NodesListed(m, nodes), NEW lpus,
         TopologyLists(nodes, lpus)
  PROVE  SocketsNumbered(m, lpus)
<1>0. PICK packages : packages = PackagesOf(m)
  OBVIOUS
<1>1. PICK sockets : sockets = SocketsOf(nodes)
  OBVIOUS
<1>2. sockets \in Seq(Range(sockets)) /\ Range(sockets) = packages
  BY <1>0, <1>1, SocketsAre DEF IsList, PackagesOf
<1>3. /\ IsFiniteSet(packages)
      /\ {FirstSeen(sockets, x) : x \in packages} = 0..(Cardinality(packages) - 1)
  <2>1. /\ IsFiniteSet(Range(sockets))
        /\ {FirstSeen(sockets, x) : x \in Range(sockets)} = 0..(Cardinality(Range(sockets)) - 1)
    BY <1>2, FirstSeenIs
  <2> QED
    BY <1>2, <2>1
<1>4. \A i \in DOMAIN lpus : /\ m.cpus[lpus[i].cpu].package \in packages
                             /\ lpus[i].socket = FirstSeen(sockets, m.cpus[lpus[i].cpu].package)
  <2> TAKE i \in DOMAIN lpus
  <2>1. LpuIs(m, nodes, lpus[i])
    BY TopologyLpu
  <2> QED
    BY <1>1, <1>2, <2>1 DEF LpuIs
<1>5. ASSUME NEW x \in packages
      PROVE  \E i \in DOMAIN lpus : lpus[i].socket = FirstSeen(sockets, x)
  <2>1. PICK o \in OnlineOf(m) : x = m.cpus[o[2]].package
    BY <1>0 DEF PackagesOf
  <2>2. PICK k \in DOMAIN lpus : <<lpus[k].node, lpus[k].cpu>> = o
    BY EveryLpu
  <2>3. lpus[k].cpu = o[2]
    BY <2>2
  <2> QED
    BY <1>4, <2>1, <2>3
<1>6. {lpus[i].socket : i \in DOMAIN lpus} = {FirstSeen(sockets, x) : x \in packages}
  BY <1>4, <1>5
<1>7. PICK c \in Nat : c = Cardinality(packages)
  BY <1>3, FS_CardinalityType
<1>8. Cardinality(0..(c - 1)) = c
  <2>1. 0 \in Int /\ c - 1 \in Int
    OBVIOUS
  <2>2. Cardinality(0..(c - 1)) = IF 0 > c - 1 THEN 0 ELSE (c - 1) - 0 + 1
    BY <2>1, FS_Interval
  <2> QED
    BY <2>2
<1> QED
  BY <1>0, <1>3, <1>6, <1>7, <1>8 DEF SocketsNumbered

\* A topology that is answered is the one of the machine.
LEMMA TopologyIsRight ==
  ASSUME NEW m, IsMachine(m), IsOk(Topology(m)), NEW lpus, lpus = Topology(m).value
  PROVE  IsList(lpus) /\ TopologyRight(m, lpus, Counts(lpus))
<1>1. PICK nodes : NodesRead(m, nodes) /\ Topology(m) = Ok(FlattenSeq(Normalize(nodes)))
  BY TopologyIsRead
<1>2. NodesListed(m, nodes)
  BY <1>1, NodesAreListed
<1>3. lpus = FlattenSeq(Normalize(nodes))
  BY <1>1 DEF Ok
<1>4. TopologyLists(nodes, lpus)
  BY <1>2, <1>3, TopologyOfNodes
<1>5. /\ {<<lpus[i].node, lpus[i].cpu>> : i \in DOMAIN lpus} = OnlineOf(m)
      /\ Len(lpus) = Cardinality(OnlineOf(m))
  BY <1>2, <1>4, LpusAreOnline
<1>6. \A i, j \in DOMAIN lpus :
        /\ lpus[i].socket = lpus[j].socket
             <=> m.cpus[lpus[i].cpu].package = m.cpus[lpus[j].cpu].package
        /\ lpus[i].node = lpus[j].node =>
             (lpus[i].core = lpus[j].core
                <=> m.cpus[lpus[i].cpu].core = m.cpus[lpus[j].cpu].core)
  BY <1>2, <1>4, NumbersAreFaithful
<1>7. /\ {lpus[i].socket : i \in DOMAIN lpus} = 0..(Cardinality(PackagesOf(m)) - 1)
      /\ Cardinality({lpus[i].socket : i \in DOMAIN lpus}) = Cardinality(PackagesOf(m))
  <2>1. SocketsNumbered(m, lpus)
    BY <1>2, <1>4, SocketNumbers
  <2> QED
    BY <2>1 DEF SocketsNumbered
<1>8. PackagesOf(m) = {m.cpus[o[2]].package : o \in OnlineOf(m)}
  BY DEF PackagesOf
<1>9. Cardinality({i \in DOMAIN lpus : lpus[i].thread = 0})
        = Cardinality({CoreId(m, o[2]) : o \in OnlineOf(m)})
  BY <1>2, <1>4, HeadsAreCores
<1>10. PICK counts : counts = Counts(lpus)
  OBVIOUS
<1>11. /\ counts.sockets = Cardinality({lpus[i].socket : i \in DOMAIN lpus})
       /\ counts.physical = Cardinality({i \in DOMAIN lpus : lpus[i].thread = 0})
  BY <1>10 DEF Counts
<1>12. /\ {lpus[i].socket : i \in DOMAIN lpus}
            = 0..(Cardinality({m.cpus[o[2]].package : o \in OnlineOf(m)}) - 1)
       /\ counts.sockets = Cardinality({m.cpus[o[2]].package : o \in OnlineOf(m)})
       /\ counts.physical
            = Cardinality({CoreId(m, o[2]) : o \in OnlineOf(m)})
  BY <1>7, <1>8, <1>9, <1>11
<1>13. IsList(lpus)
  BY <1>4 DEF TopologyLists
<1>14. TopologyRight(m, lpus, counts)
  BY <1>5, <1>6, <1>12, Zenon DEF TopologyRight
<1> QED
  BY <1>10, <1>13, <1>14

----------------------------------------------------------------------------
(* GetCpuInfo.                                                             *)

\* What an answer to GetCpuInfo has.
CpuRight(m, types, answer) ==
  /\ answer.value.lpus # <<>> =>
       /\ IsList(answer.value.lpus)
       /\ TopologyRight(m, answer.value.lpus, answer.value.counts)
  /\ AreIdentifiers(answer.value.ids)

\* The ids of a section, for the processors of a list.
LEMMA SectionIds ==
  ASSUME NEW lpus, IsList(lpus), NEW id, DOMAIN id = DOMAIN lpus,
         \A i \in DOMAIN lpus : IsIdentifier(id[i]),
         NEW answers, answers = [i \in DOMAIN lpus |-> Ok(id[i])]
  PROVE  AreIdentifiers(AllOk(answers).value)
<1>1. DOMAIN lpus = 1..Len(lpus) /\ Len(lpus) \in Nat
  BY DEF IsList
<1>2. \A i \in DOMAIN answers : IsOk(answers[i])
  BY DEF IsOk, Ok
<1>3. AllOk(answers) = Ok([i \in DOMAIN answers |-> answers[i].value])
  BY <1>2 DEF AllOk
<1>4. PICK ids : ids = AllOk(answers).value
  OBVIOUS
<1>5. ids = [i \in 1..Len(lpus) |-> answers[i].value]
  BY <1>1, <1>3, <1>4 DEF Ok
<1>6. \A i \in 1..Len(lpus) : ids[i] = id[i]
  BY <1>1, <1>5 DEF Ok
<1>7. ids = [i \in 1..Len(lpus) |-> ids[i]]
  BY <1>5
<1>8. \A i \in 1..Len(lpus) : IsIdentifier(ids[i])
  BY <1>1, <1>6
<1> QED
  BY <1>1, <1>4, <1>7, <1>8, MadeIdentifiers

\* Names of processors and sockets are texts.
LEMMA CpuNames ==
  ASSUME NEW l
  PROVE  /\ IsIdentifier(Identifier(LpuName(l), NoText))
         /\ IsIdentifier(Identifier(SocketName(l), NoText))
<1>1. PICK p, q : /\ p = <<"CPU", l.socket, l.die, l.core, l.thread, l.cpu>>
                  /\ q = <<"CPU", l.socket>>
  OBVIOUS
<1>2. LpuName(l) = <<p>> /\ SocketName(l) = <<q>>
  BY <1>1 DEF LpuName, SocketName
<1>3. IsText(LpuName(l)) /\ IsText(SocketName(l))
  BY <1>2, OnePiece
<1> QED
  BY <1>3, ConstantTexts, IdentifierIs

\* The ids of a list of processors by their names.
SectionOf(have, lpus, Name(_)) ==
  (IF have THEN AllOk([i \in DOMAIN lpus |-> Ok(Identifier(Name(lpus[i]), NoText))])
   ELSE Ok(<<>>)).value

\* Sections of ids.
LEMMA CpuSections ==
  ASSUME NEW lpus, IsList(lpus), NEW have
  PROVE  /\ AreIdentifiers(SectionOf(have, lpus, LpuName))
         /\ AreIdentifiers(SectionOf(have, lpus, SocketName))
<1>1. AreIdentifiers(<<>>)
  BY NoIdentifiers
<1>2. PICK a : a = [i \in DOMAIN lpus |-> Identifier(LpuName(lpus[i]), NoText)]
  OBVIOUS
<1>3. PICK b : b = [i \in DOMAIN lpus |-> Identifier(SocketName(lpus[i]), NoText)]
  OBVIOUS
<1>4. \A i \in DOMAIN lpus : IsIdentifier(a[i]) /\ IsIdentifier(b[i])
  BY <1>2, <1>3, CpuNames
<1>5. PICK as, bs : as = [i \in DOMAIN lpus |-> Ok(a[i])] /\ bs = [i \in DOMAIN lpus |-> Ok(b[i])]
  OBVIOUS
<1>6. AreIdentifiers(AllOk(as).value) /\ AreIdentifiers(AllOk(bs).value)
  BY <1>2, <1>3, <1>4, <1>5, SectionIds
<1>7. /\ as = [i \in DOMAIN lpus |-> Ok(Identifier(LpuName(lpus[i]), NoText))]
      /\ bs = [i \in DOMAIN lpus |-> Ok(Identifier(SocketName(lpus[i]), NoText))]
  BY <1>2, <1>3, <1>5
<1>8. Ok(<<>>).value = <<>>
  BY DEF Ok
<1> QED
  BY <1>1, <1>6, <1>7, <1>8 DEF SectionOf

\* An answer to GetCpuInfo (host_backend.cc:56-141).
LEMMA CpuInfoRight ==
  ASSUME NEW m, IsMachine(m), NEW types, NEW answer, answer = GetCpuInfo(m, types),
         IsOk(answer)
  PROVE  CpuRight(m, types, answer)
<1> DEFINE have(type) == InfoTypeHave(types, type)
           needs == \E type \in CpuTypes \ {"SIGNATURE"} : have(type)
           topology == IF needs THEN Topology(m) ELSE Ok(<<>>)
           lpus == topology.value
           A == SectionOf(have("LPU_IDENTIFIER"), lpus, LpuName)
           B == SectionOf(have("SOCKET_IDENTIFIER"), lpus, SocketName)
           C == SectionOf(have("PACKAGE_IDENTIFIER"), lpus, SocketName)
<1>1. /\ IsOk(topology)
      /\ answer.value.lpus = lpus /\ answer.value.counts = Counts(lpus)
      /\ answer.value.ids = A \o B \o C
  BY DEF GetCpuInfo, SectionOf, IsOk, Error, Ok
<1>2. IsList(lpus) /\ (lpus # <<>> => TopologyRight(m, lpus, Counts(lpus)))
  <2>1. CASE needs
    BY <1>1, <2>1, TopologyIsRight
  <2>2. CASE ~needs
    <3>1. topology = Ok(<<>>)
      BY <2>2
    <3>2. lpus = <<>>
      BY <3>1 DEF Ok
    <3> HIDE DEF lpus
    <3>3. IsList(lpus)
      BY <3>2, NoIdentifiers DEF AreIdentifiers
    <3> QED
      BY <3>2, <3>3
  <2> QED
    BY <2>1, <2>2
<1> HIDE DEF topology
<1>3. AreIdentifiers(A) /\ AreIdentifiers(B) /\ AreIdentifiers(C)
  BY <1>2, CpuSections
<1> HIDE DEF A, B, C
<1>4. AreIdentifiers((A \o B) \o C)
  <2>1. PICK ab : ab = A \o B /\ AreIdentifiers(ab)
    BY <1>3, JoinedIdentifiers
  <2> QED
    BY <1>3, <2>1, JoinedIdentifiers
<1> QED
  BY <1>1, <1>2, <1>4 DEF CpuRight

-----------------------------------------------------------------------------
(* The clients.                                                            *)

\* A client as its program holds it.
IsClient(c) ==
  c = [config |-> c.config, backends |-> c.backends] /\ IsConfiguration(c.config)

\* The backends a client of this configuration must have.
Needed(given) == {given.backend} \cup MethodBackends(given)

\* A client that serves every method as its configuration says, whatever SelectBackend
\* has put into its own copy.
Built(c, given) ==
  /\ IsClient(c)
  /\ c.backends = Needed(given) /\ "UNKNOWN" \notin c.backends
  /\ \A m : Selected(c.config, m) = Selected(given, m)

\* A sequence of clients.
IsClients(cs) == cs \in Seq(Range(cs))

\* What the configuration file and the builders are.
InputShape ==
  "UNKNOWN" \notin resolver /\ IsConfigurations(file.nodes) /\ IsConfigurations(configs)

\* What there is at each stage of creation, and after it.
StageShape ==
  /\ stage \in {"load", "build", "ready", "failed", "killed"}
  /\ stage \in {"load", "failed"} => clients = <<>>
  /\ stage \in {"load", "build", "failed"} => reply = <<>>
  /\ stage # "build" => building = <<>>
  /\ stage \in {"ready", "killed"} => Len(clients) = Len(configs)

\* The clients built so far serve the first configurations.
ClientsBuilt ==
  /\ IsClients(clients) /\ Len(clients) <= Len(configs)
  /\ \A n \in 1..Len(clients) : Built(clients[n], configs[n])

\* The client being built: the default backend comes first, others are those of methods.
BuildingRight ==
  building # <<>> =>
    LET given == configs[Len(clients) + 1]
    IN  /\ Len(clients) < Len(configs)
        /\ building = [config |-> given, backends |-> building.backends]
        /\ building.backends \subseteq Needed(given) /\ "UNKNOWN" \notin building.backends
        /\ building.backends # {} => given.backend \in building.backends

\* The last call went where the configuration sends its method.
ReplyRight ==
  reply # <<>> /\ reply.method # "GetVersion" =>
    /\ reply.client \in 1..Len(clients)
    /\ reply.backend = Selected(configs[reply.client], reply.method)
    /\ reply.backend \in clients[reply.client].backends

\* The inductive invariant of creation and calls.
IInv == InputShape /\ StageShape /\ ClientsBuilt /\ BuildingRight /\ ReplyRight

\* A sequence, and what Append makes of it.
LEMMA RangeAppend ==
  ASSUME NEW s, s \in Seq(Range(s)), NEW e
  PROVE  /\ Append(s, e) \in Seq(Range(Append(s, e)))
         /\ Len(Append(s, e)) = Len(s) + 1
         /\ DOMAIN Append(s, e) = 1..(Len(s) + 1)
         /\ \A i \in 1..Len(s) : Append(s, e)[i] = s[i]
         /\ Append(s, e)[Len(s) + 1] = e
<1> DEFINE S == Range(s) \cup {e}
<1>1. s \in Seq(S) /\ e \in S
  <2>1. Range(s) \subseteq S
    OBVIOUS
  <2> QED
    BY <2>1
<1> HIDE DEF S
<1>2. /\ Append(s, e) \in Seq(S)
      /\ Len(Append(s, e)) = Len(s) + 1
      /\ \A i \in 1..Len(s) : Append(s, e)[i] = s[i]
      /\ Append(s, e)[Len(s) + 1] = e
  BY <1>1, AppendProperties
<1>3. DOMAIN Append(s, e) = 1..(Len(s) + 1)
  BY <1>2
<1>4. \A i \in 1..Len(Append(s, e)) : Append(s, e)[i] \in Range(Append(s, e))
  BY <1>2, <1>3 DEF Range
<1>5. Append(s, e) \in Seq(Range(Append(s, e)))
  BY <1>2, <1>4
<1> QED
  BY <1>2, <1>3, <1>5

\* Replacing elements of a sequence leaves a sequence of the same length.
LEMMA RangeExcept ==
  ASSUME NEW s, s \in Seq(Range(s)), NEW r, DOMAIN r = DOMAIN s, r = [i \in DOMAIN r |-> r[i]]
  PROVE  r \in Seq(Range(r)) /\ Len(r) = Len(s) /\ DOMAIN r = 1..Len(s)
<1>1. DOMAIN s = 1..Len(s) /\ Len(s) \in Nat
  BY LenProperties
<1>2. r \in [1..Len(s) -> Range(r)]
  BY <1>1 DEF Range
<1>3. r \in Seq(Range(r))
  BY <1>1, <1>2
<1> QED
  BY <1>1, <1>3, LenProperties

\* An override leaves a configuration a configuration.
LEMMA OverrideShape ==
  ASSUME NEW c, IsConfiguration(c), NEW o
  PROVE  IsConfiguration(ApplyOverride(c, o))
<1>1. ASSUME NEW d, d = ApplyIbOverride(c, o) PROVE IsConfiguration(d)
  BY <1>1 DEF IsConfiguration, ApplyIbOverride
<1>2. ASSUME NEW d, d = ApplyOobOverride(c, o) PROVE IsConfiguration(d)
  BY <1>2 DEF IsConfiguration, ApplyOobOverride
<1> QED
  BY <1>1, <1>2 DEF ApplyOverride

\* The configuration that add_node_entity_configurations makes has every field.
LEMMA EmptyShape == IsConfiguration(EmptyConfiguration)
  BY DEF IsConfiguration, EmptyConfiguration

\* An override of a node, or a new node (node_client.cc:173-204).
LEMMA NodeOverrideShape ==
  ASSUME NEW s, IsConfigurations(s), NEW o
  PROVE  IsConfigurations(ApplyNodeOverride(s, o))
<1> DEFINE r == [i \in DOMAIN s |-> IF Matches(s[i], o) THEN ApplyOverride(s[i], o) ELSE s[i]]
           e == ApplyOverride(EmptyConfiguration, o)
<1>1. s \in Seq(Range(s)) /\ DOMAIN s = 1..Len(s) /\ Len(s) \in Nat
  BY LenProperties DEF IsConfigurations
<1>2. \A i \in DOMAIN s : IsConfiguration(s[i])
  BY DEF IsConfigurations
<1>3. IsConfigurations(r)
  <2>1. DOMAIN r = DOMAIN s /\ r = [i \in DOMAIN r |-> r[i]]
    OBVIOUS
  <2>2. \A i \in DOMAIN r : IsConfiguration(r[i])
    BY <1>2, OverrideShape
  <2> HIDE DEF r
  <2> QED
    BY <1>1, <2>1, <2>2, RangeExcept DEF IsConfigurations
<1>4. IsConfigurations(Append(s, e))
  <2>1. IsConfiguration(e)
    BY EmptyShape, OverrideShape
  <2> HIDE DEF e
  <2>2. /\ Append(s, e) \in Seq(Range(Append(s, e)))
        /\ DOMAIN Append(s, e) = 1..(Len(s) + 1)
        /\ \A i \in 1..Len(s) : Append(s, e)[i] = s[i]
        /\ Append(s, e)[Len(s) + 1] = e
    BY <1>1, RangeAppend
  <2>3. \A i \in 1..(Len(s) + 1) : i \in 1..Len(s) \/ i = Len(s) + 1
    BY <1>1
  <2>4. \A i \in DOMAIN Append(s, e) : IsConfiguration(Append(s, e)[i])
    BY <1>1, <1>2, <2>1, <2>2, <2>3
  <2> QED
    BY <2>2, <2>4 DEF IsConfigurations
<1> QED
  BY <1>3, <1>4 DEF ApplyNodeOverride

\* The only node, overridden by the single-node flags.
LEMMA SingleOverrideShape ==
  ASSUME NEW s, IsConfigurations(s), NEW o
  PROVE  IsConfigurations(SingleNodeOverride(s, o))
<1> DEFINE config == IF s = <<>> THEN EmptyConfiguration ELSE s[1]
           known  == IF config.backend = "UNKNOWN" THEN "HOST" ELSE config.backend
           e == ApplyOverride(config, [o EXCEPT !.backend = Given(@, {"UNKNOWN"}, known)])
<1>1. IsConfiguration(config)
  <2>1. CASE s = <<>>
    BY <2>1, EmptyShape
  <2>2. CASE s # <<>>
    <3>1. 1 \in DOMAIN s
      BY <2>2, EmptySeq, LenProperties DEF IsConfigurations
    <3> QED
      BY <2>2, <3>1 DEF IsConfigurations
  <2> QED
    BY <2>1, <2>2
<1>2. IsConfiguration(e)
  BY <1>1, OverrideShape
<1>3. SingleNodeOverride(s, o) = <<e>>
  BY DEF SingleNodeOverride
<1> HIDE DEF e
<1>4. IsConfigurations(<<e>>)
  BY <1>2 DEF IsConfigurations, Range
<1> QED
  BY <1>3, <1>4

\* SelectBackend changes where no method is sent (node_client.cc:353-361).
LEMMA SelectKeeps ==
  ASSUME NEW c, IsClient(c), NEW m, NEW d,
         d = [c EXCEPT !.config.methods = Assigned(@, m, Selected(c.config, m))]
  PROVE  /\ IsClient(d) /\ d.backends = c.backends
         /\ \A k : Selected(d.config, k) = Selected(c.config, k)
<1>1. IsClient(d) /\ d.backends = c.backends
  BY DEF IsClient, IsConfiguration
<1>2. /\ d.config.backend = c.config.backend
      /\ d.config.methods = Assigned(c.config.methods, m, Selected(c.config, m))
  BY DEF IsClient, IsConfiguration
<1>3. ASSUME NEW k
      PROVE  Selected(d.config, k) = Selected(c.config, k)
  <2> DEFINE old == c.config.methods
             b == Selected(c.config, m)
             new == Assigned(old, m, b)
  <2>1. new = [x \in {m} \cup DOMAIN old |-> IF x = m THEN b ELSE old[x]]
    BY DEF Assigned
  <2> HIDE DEF new, old
  <2>2. /\ DOMAIN new = {m} \cup DOMAIN old
        /\ new[m] = b
        /\ \A x \in DOMAIN old : x # m => new[x] = old[x]
    BY <2>1
  <2>3. d.config.methods = new
    BY <1>2 DEF new, old
  <2>4. CASE k = m
    BY <1>2, <2>2, <2>3, <2>4 DEF Selected, old
  <2>5. CASE k # m
    BY <1>2, <2>2, <2>3, <2>5 DEF Selected, old
  <2> QED
    BY <2>4, <2>5
<1> QED
  BY <1>1, <1>3

\* The call that any request is, whatever it asks and the host answers.
AnyCall(n) == \E m, request, answer : Call(n, m, request, answer)

\* Every method that is dispatched is such a call, with some request and answer.
LEMMA CallCases ==
  ASSUME NEW n, \/ CallGetCpuInfo(n) \/ CallGetMemoryInfo(n) \/ CallMemoryConvert(n)
                \/ CallGetErrors(n) \/ CallGetStorageInfo(n) \/ CallGetNodeInfo(n)
                \/ CallGetHwInfo(n) \/ CallReboot(n) \/ CallOther(n)
  PROVE  AnyCall(n)
<1>1. ASSUME NEW m, NEW r, NEW a, PlainCall(n, m, r, a) PROVE AnyCall(n)
  BY <1>1 DEF PlainCall, AnyCall
<1>2. ASSUME NEW m, NEW r, NEW a, SmbiosCall(n, m, r, a) PROVE AnyCall(n)
  BY <1>2 DEF SmbiosCall, AnyCall
<1>3. CASE CallGetCpuInfo(n)
  BY <1>1, <1>3, Zenon DEF CallGetCpuInfo
<1>4. CASE CallGetMemoryInfo(n)
  BY <1>2, <1>4, Zenon DEF CallGetMemoryInfo
<1>5. CASE CallMemoryConvert(n)
  BY <1>2, <1>5, Zenon DEF CallMemoryConvert
<1>6. CASE CallGetErrors(n)
  BY <1>1, <1>6, Zenon DEF CallGetErrors
<1>7. CASE CallGetStorageInfo(n)
  BY <1>1, <1>7, Zenon DEF CallGetStorageInfo
<1>8. CASE CallGetNodeInfo(n)
  BY <1>1, <1>8, Zenon DEF CallGetNodeInfo
<1>9. CASE CallGetHwInfo(n)
  BY <1>1, <1>9, Zenon DEF CallGetHwInfo
<1>10. CASE CallReboot(n)
  BY <1>1, <1>10, Zenon DEF CallReboot
<1>11. CASE CallOther(n)
  BY <1>1, <1>11, Zenon DEF CallOther
<1> QED
  BY <1>3, <1>4, <1>5, <1>6, <1>7, <1>8, <1>9, <1>10, <1>11

\* Before the flags are parsed there is nothing.
LEMMA InitInvariant == ClientInit => IInv
<1> SUFFICES ASSUME ClientInit PROVE IInv
  OBVIOUS
<1>1. PICK inputs \in Inputs : \E input \in inputs :
        /\ ConfigInit(input)
        /\ resolver = IF entry = "CreateClients" THEN DefaultBuilderResolver
                      ELSE input.resolver
  BY DEF ClientInit
<1>2. PICK input \in inputs :
        /\ ConfigInit(input)
        /\ resolver = IF entry = "CreateClients" THEN DefaultBuilderResolver
                      ELSE input.resolver
  BY <1>1
<1>3. IsConfigurations(input.file.nodes) /\ "UNKNOWN" \notin input.resolver
  BY InputsAssumption
<1>4. IsConfigurations(<<>>) /\ IsClients(<<>>)
  BY DEF IsConfigurations, IsClients, Range
<1>5. InputShape
  BY <1>2, <1>3, <1>4 DEF InputShape, ConfigInit, DefaultBuilderResolver
<1>6. clients = <<>> /\ building = <<>> /\ stage = "load" /\ reply = <<>> /\ configs = <<>>
  BY <1>2 DEF ClientInit, ConfigInit
<1>7. Len(clients) = 0 /\ Len(configs) = 0
  BY <1>6
<1> QED
  BY <1>4, <1>5, <1>6, <1>7
     DEF IInv, StageShape, ClientsBuilt, BuildingRight, ReplyRight

\* Loading changes configurations before any client is built from one.
LEMMA LoadKeeps ==
  ASSUME IInv, Load
  PROVE  IInv'
<1>1. stage = "load" /\ UNCHANGED <<hostVars, clientVars>>
  BY DEF Load
<1>2. UNCHANGED <<entry, methods, resolver, connection, clients, building, stage, reply>>
  BY <1>1 DEF clientVars
<1>3. IsConfigurations(configs') /\ file' = file
  <2>1. IsConfigurations(configs) /\ IsConfigurations(file.nodes)
    BY DEF IInv, InputShape
  <2>2. CASE ParseFlags
    BY <2>1, <2>2 DEF ParseFlags
  <2>3. CASE ReadFile
    BY <2>1, <2>3 DEF ReadFile
  <2>4. CASE ApplyMultiNodeOverrides
    BY <2>1, <2>4, NodeOverrideShape DEF ApplyMultiNodeOverrides
  <2>5. CASE ApplySingleNodeOverride
    BY <2>1, <2>5, SingleOverrideShape DEF ApplySingleNodeOverride
  <2> QED
    BY <2>2, <2>3, <2>4, <2>5 DEF Load, LoadConfigs
<1>4. clients = <<>> /\ building = <<>> /\ reply = <<>>
  BY <1>1 DEF IInv, StageShape
<1>5. Len(configs') \in Nat
  BY <1>3, LenProperties DEF IsConfigurations
<1>6. InputShape'
  BY <1>2, <1>3 DEF IInv, InputShape, IsConfigurations
<1>7. StageShape'
  BY <1>1, <1>2 DEF IInv, StageShape
<1>8. Len(clients') = 0
  BY <1>2, <1>4
<1>9. ClientsBuilt'
  BY <1>2, <1>4, <1>5, <1>8 DEF IInv, ClientsBuilt, IsClients
<1> QED
  BY <1>2, <1>4, <1>6, <1>7, <1>9 DEF IInv, BuildingRight, ReplyRight

\* Facts about the sequences of a state that satisfies the invariant.
LEMMA Lengths ==
  ASSUME IInv
  PROVE  /\ Len(configs) \in Nat /\ DOMAIN configs = 1..Len(configs)
         /\ Len(clients) \in Nat /\ DOMAIN clients = 1..Len(clients)
         /\ \A i \in DOMAIN configs : IsConfiguration(configs[i])
<1>1. configs \in Seq(Range(configs)) /\ clients \in Seq(Range(clients))
  BY DEF IInv, InputShape, ClientsBuilt, IsConfigurations, IsClients
<1>2. \A i \in DOMAIN configs : IsConfiguration(configs[i])
  BY DEF IInv, InputShape, IsConfigurations
<1> QED
  BY <1>1, <1>2, LenProperties

\* Creation builds one client after the other, or gives all of them up.
LEMMA CreateKeeps ==
  ASSUME IInv, Create
  PROVE  IInv'
<1> USE Lengths
<1>0. UNCHANGED <<resolver, file, configs, reply>> /\ reply = <<>>
      /\ stage \in {"load", "build"}
  BY DEF Create, Loaded, BeginClient, FinishClient, Return, AddBackend, configVars, IInv,
         StageShape
<1>1. InputShape'
  BY <1>0 DEF IInv, InputShape, IsConfigurations
<1>2. ReplyRight'
  BY <1>0 DEF ReplyRight
<1>3. ASSUME stage' = "failed", clients' = <<>>, building' = <<>>
      PROVE  StageShape' /\ ClientsBuilt' /\ BuildingRight'
  <2>1. IsClients(<<>>) /\ Len(<<>>) = 0
    BY DEF IsClients, Range
  <2> QED
    BY <1>0, <1>3, <2>1 DEF StageShape, ClientsBuilt, BuildingRight, IsClients
<1>4. CASE Loaded
  <2>1. stage = "load" /\ clients = <<>> /\ building = <<>> /\ clients' = clients
        /\ building' = building /\ stage' \in {"build", "failed"}
    BY <1>4 DEF Loaded, IInv, StageShape
  <2> QED
    BY <1>0, <1>1, <1>2, <2>1
       DEF IInv, StageShape, ClientsBuilt, BuildingRight, IsClients
<1>5. CASE BeginClient
  <2>1. /\ stage = "build" /\ stage' = stage /\ clients' = clients
        /\ Len(clients) < Len(configs)
        /\ building' = [config |-> configs[Len(clients) + 1], backends |-> {}]
    BY <1>0, <1>5 DEF BeginClient
  <2>2. StageShape' /\ ClientsBuilt'
    BY <1>0, <2>1 DEF IInv, StageShape, ClientsBuilt, IsClients
  <2>3. BuildingRight'
    BY <1>0, <2>1 DEF BuildingRight
  <2> QED
    BY <1>1, <1>2, <2>2, <2>3 DEF IInv
<1>6. ASSUME NEW b, AddBackend(b) PROVE IInv'
  <2>1. CASE Fail
    BY <1>1, <1>2, <1>3, <2>1 DEF Fail, IInv
  <2>2. CASE /\ b \in resolver
             /\ building' = [building EXCEPT !.backends = @ \cup {b}]
             /\ UNCHANGED <<clients, stage>>
    <3> DEFINE given == configs[Len(clients) + 1]
    <3>1. /\ stage = "build" /\ b \in NextBackends /\ building # <<>>
      BY <1>6 DEF AddBackend
    <3>2. /\ Len(clients) < Len(configs)
          /\ building = [config |-> given, backends |-> building.backends]
          /\ building.backends \subseteq Needed(given) /\ "UNKNOWN" \notin building.backends
          /\ building.backends # {} => given.backend \in building.backends
      BY <3>1 DEF IInv, BuildingRight
    <3>3. b # "UNKNOWN"
      BY <2>2 DEF IInv, InputShape
    <3>4. b \in Needed(given) /\ (building.backends = {} => b = given.backend)
      BY <3>1, <3>2 DEF NextBackends, Needed
    <3>5. building' = [config |-> given, backends |-> building.backends \cup {b}]
      <4> DEFINE bs == building.backends
                 new == bs \cup {b}
      <4>1. building' = [building EXCEPT !.backends = new]
        BY <2>2
      <4>2. building = [config |-> given, backends |-> bs]
        BY <3>2
      <4> HIDE DEF given, bs, new
      <4>3. [building EXCEPT !.backends = new] = [config |-> given, backends |-> new]
        BY <4>2
      <4> QED
        BY <4>1, <4>3 DEF new, bs
    <3>6. BuildingRight'
      <4>1. building'.backends = building.backends \cup {b}
        BY <3>5
      <4>2. building' = [config |-> given, backends |-> building'.backends]
        BY <3>5, <4>1
      <4>3. /\ building'.backends \subseteq Needed(given)
            /\ "UNKNOWN" \notin building'.backends
            /\ given.backend \in building'.backends
        <5> HIDE DEF given
        <5>1. given.backend \in building.backends \cup {b}
          BY <3>2, <3>4
        <5> QED
          BY <3>2, <3>3, <3>4, <4>1, <5>1
      <4> QED
        BY <1>0, <2>2, <3>2, <4>2, <4>3 DEF BuildingRight
    <3>7. StageShape' /\ ClientsBuilt'
      BY <1>0, <2>2, <3>1 DEF IInv, StageShape, ClientsBuilt, IsClients
    <3> QED
      BY <1>1, <1>2, <3>6, <3>7 DEF IInv
  <2> QED
    BY <1>6, <2>1, <2>2 DEF AddBackend
<1>7. CASE FinishClient
  <2>1. CASE Fail
    BY <1>1, <1>2, <1>3, <2>1 DEF Fail, IInv
  <2>2. CASE clients' = Append(clients, building) /\ building' = <<>> /\ UNCHANGED stage
    <3> DEFINE given == configs[Len(clients) + 1]
    <3>1. /\ stage = "build" /\ building # <<>>
          /\ building.backends # {} /\ NextBackends = {}
      BY <1>7 DEF FinishClient
    <3>2. /\ Len(clients) < Len(configs)
          /\ building = [config |-> given, backends |-> building.backends]
          /\ building.backends \subseteq Needed(given) /\ "UNKNOWN" \notin building.backends
          /\ given.backend \in building.backends
      BY <3>1 DEF IInv, BuildingRight
    <3>3. building.backends = Needed(given)
      BY <3>1, <3>2 DEF NextBackends, Needed
    <3>4. IsConfiguration(given)
      BY <3>2
    <3>5. Built(building, given)
      <4>1. building.config = given
        BY <3>2
      <4> HIDE DEF given
      <4> QED
        BY <3>2, <3>3, <3>4, <4>1 DEF Built, IsClient
    <3>6. /\ IsClients(clients') /\ Len(clients') = Len(clients) + 1
          /\ \A i \in 1..Len(clients) : clients'[i] = clients[i]
          /\ clients'[Len(clients) + 1] = building
      BY <2>2, RangeAppend DEF IInv, ClientsBuilt, IsClients
    <3>7. \A n \in 1..(Len(clients) + 1) : n \in 1..Len(clients) \/ n = Len(clients) + 1
      OBVIOUS
    <3>8. ClientsBuilt'
      BY <1>0, <3>2, <3>5, <3>6, <3>7 DEF IInv, ClientsBuilt, IsClients
    <3>9. StageShape' /\ BuildingRight'
      BY <1>0, <2>2, <3>1 DEF StageShape, BuildingRight
    <3> QED
      BY <1>1, <1>2, <3>8, <3>9 DEF IInv
  <2> QED
    BY <1>7, <2>1, <2>2 DEF FinishClient
<1>8. CASE Return
  BY <1>0, <1>1, <1>2, <1>8
     DEF Return, IInv, StageShape, ClientsBuilt, BuildingRight, IsClients
<1> QED
  BY <1>4, <1>5, <1>6, <1>7, <1>8 DEF Create

\* A client before and after a call of it, or of another.
SameRoutes(c, d) ==
  /\ IsClient(d) /\ d.backends = c.backends
  /\ \A m : Selected(d.config, m) = Selected(c.config, m)

\* What SelectBackend does to all clients.
LEMMA SelectBackendKeeps ==
  ASSUME IInv, NEW n \in DOMAIN clients, NEW m, SelectBackend(n, m)
  PROVE  /\ IsClients(clients') /\ Len(clients') = Len(clients)
         /\ \A i \in 1..Len(clients) : SameRoutes(clients[i], clients'[i])
<1>1. clients \in Seq(Range(clients)) /\ DOMAIN clients = 1..Len(clients)
      /\ \A i \in 1..Len(clients) : IsClient(clients[i])
  BY Lengths DEF IInv, ClientsBuilt, IsClients, Built
<1>2. /\ DOMAIN clients' = DOMAIN clients
      /\ clients' = [i \in DOMAIN clients' |-> clients'[i]]
      /\ \A i \in DOMAIN clients : i # n => clients'[i] = clients[i]
  BY DEF SelectBackend
<1>3. clients'[n] = [clients[n] EXCEPT !.config.methods =
                       Assigned(@, m, Selected(clients[n].config, m))]
  BY DEF SelectBackend
<1>4. SameRoutes(clients[n], clients'[n])
  <2> DEFINE c == clients[n]
             d == clients'[n]
  <2>1. IsClient(c)
    BY <1>1
  <2>2. d = [c EXCEPT !.config.methods = Assigned(@, m, Selected(c.config, m))]
    BY <1>3
  <2> HIDE DEF c, d
  <2>3. /\ IsClient(d) /\ d.backends = c.backends
        /\ \A k : Selected(d.config, k) = Selected(c.config, k)
    BY <2>1, <2>2, SelectKeeps
  <2>4. SameRoutes(c, d)
    BY <2>3, Zenon DEF SameRoutes
  <2> QED
    BY <2>4 DEF c, d
<1>5. \A i \in 1..Len(clients) : SameRoutes(clients[i], clients'[i])
  BY <1>1, <1>2, <1>4 DEF SameRoutes
<1>6. clients' \in Seq(Range(clients')) /\ Len(clients') = Len(clients)
  BY <1>1, <1>2, RangeExcept
<1> QED
  BY <1>5, <1>6 DEF IsClients

\* A method whose backend the configuration leaves open, or names as none, goes to the
\* default one; no client was built with none.
LEMMA BuiltServes ==
  ASSUME NEW c, NEW given, Built(c, given), NEW m
  PROVE  /\ Selected(given, m) \in c.backends
         /\ Selected(given, m) = IF m \in DOMAIN given.methods THEN given.methods[m]
                                 ELSE given.backend
<1>1. m \in DOMAIN given.methods => given.methods[m] \in c.backends
  BY DEF Built, Needed, MethodBackends
<1>2. given.backend \in c.backends /\ "UNKNOWN" \notin c.backends
  BY DEF Built, Needed
<1> QED
  BY <1>1, <1>2 DEF Selected

\* Calls leave every client as able as it was.
LEMMA CallKeeps ==
  ASSUME IInv, NEW n, AnyCall(n)
  PROVE  /\ IInv'
         /\ \A i \in 1..Len(clients) : SameRoutes(clients[i], clients'[i])
<1>1. PICK m, request, answer : Call(n, m, request, answer)
  BY DEF AnyCall
<1>2. /\ stage = "ready" /\ n \in DOMAIN clients /\ SelectBackend(n, m)
      /\ stage' \in {"ready", "killed"}
      /\ UNCHANGED <<file, configs, resolver, building>>
      /\ reply' # <<>> /\ reply'.client = n /\ reply'.method = m
      /\ reply'.backend = Selected(clients[n].config, m)
  BY <1>1 DEF Call, configVars
<1>3. /\ IsClients(clients') /\ Len(clients') = Len(clients)
      /\ \A i \in 1..Len(clients) : SameRoutes(clients[i], clients'[i])
  BY <1>2, SelectBackendKeeps
<1>4. InputShape'
  BY <1>2 DEF IInv, InputShape, IsConfigurations
<1>5. StageShape'
  BY <1>2, <1>3 DEF IInv, StageShape
<1>6. \A i \in 1..Len(clients) : Built(clients[i], configs[i])
  BY DEF IInv, ClientsBuilt
<1>7. \A i \in 1..Len(clients) : Built(clients'[i], configs[i])
  BY <1>3, <1>6 DEF Built, SameRoutes
<1>8. ClientsBuilt'
  BY <1>2, <1>3, <1>7 DEF IInv, ClientsBuilt, IsClients
<1>9. BuildingRight'
  BY <1>2 DEF IInv, StageShape, BuildingRight
<1>10. ReplyRight'
  <2>1. n \in 1..Len(clients)
    BY <1>2, Lengths
  <2>2. Selected(configs[n], m) = Selected(clients[n].config, m)
    BY <1>6, <2>1 DEF Built
  <2>3. Selected(configs[n], m) \in clients'[n].backends
    BY <1>7, <2>1, BuiltServes
  <2> QED
    BY <1>2, <1>3, <2>1, <2>2, <2>3 DEF ReplyRight
<1> QED
  BY <1>3, <1>4, <1>5, <1>8, <1>9, <1>10 DEF IInv

\* What calls and the rest of the program share: clients, configurations and stage stay.
LEMMA QuietKeeps ==
  ASSUME IInv, UNCHANGED <<file, configs, resolver, clients, building, stage>>,
         \/ reply' = reply
         \/ stage = "ready" /\ (reply' = <<>> \/ reply'.method = "GetVersion")
  PROVE  IInv'
<1>1. InputShape' /\ StageShape' /\ ClientsBuilt' /\ BuildingRight'
  BY DEF IInv, InputShape, IsConfigurations, StageShape, ClientsBuilt, IsClients,
         BuildingRight
<1>2. ReplyRight'
  BY DEF IInv, ReplyRight
<1> QED
  BY <1>1, <1>2 DEF IInv

\* Calls of any method, GetVersion of all backends included.
LEMMA CallsKeep ==
  ASSUME IInv, Calls
  PROVE  IInv' /\ \A i \in 1..Len(clients) : SameRoutes(clients[i], clients'[i])
<1>1. PICK n \in DOMAIN clients :
        \/ CallGetCpuInfo(n) \/ CallGetMemoryInfo(n) \/ CallMemoryConvert(n)
        \/ CallGetErrors(n) \/ CallGetStorageInfo(n) \/ CallGetNodeInfo(n)
        \/ CallGetHwInfo(n) \/ CallReboot(n) \/ CallOther(n) \/ CallGetVersion(n)
  BY DEF Calls
<1>2. CASE CallGetVersion(n)
  <2>1. /\ stage = "ready" /\ reply'.method = "GetVersion"
        /\ UNCHANGED <<file, configs, resolver, clients, building, stage>>
    BY <1>2 DEF CallGetVersion, configVars
  <2>2. \A i \in 1..Len(clients) : IsClient(clients[i])
    BY DEF IInv, ClientsBuilt, Built
  <2> QED
    BY <2>1, <2>2, QuietKeeps DEF SameRoutes
<1>3. CASE ~CallGetVersion(n)
  BY <1>1, <1>3, CallCases, CallKeeps
<1> QED
  BY <1>2, <1>3

\* No step breaks the invariant, and none but those of creation changes where calls go.
LEMMA StepInvariant ==
  ASSUME IInv, [Next]_vars
  PROVE  /\ IInv'
         /\ stage \in {"ready", "killed"} =>
              \A i \in 1..Len(clients) : SameRoutes(clients[i], clients'[i])
<1>1. ASSUME UNCHANGED clients
      PROVE  \A i \in 1..Len(clients) : SameRoutes(clients[i], clients'[i])
  BY <1>1 DEF IInv, ClientsBuilt, Built, SameRoutes
<1>2. CASE Load
  BY <1>2, LoadKeeps DEF Load
<1>3. CASE Create
  <2>1. stage \in {"load", "build"}
    BY <1>3 DEF Create, Loaded, BeginClient, FinishClient, Return, AddBackend
  <2> QED
    BY <1>3, <2>1, CreateKeeps
<1>4. CASE Calls
  BY <1>4, CallsKeep
<1>5. CASE DmiTable
  BY <1>1, <1>5, QuietKeeps DEF DmiTable, configVars
<1>6. CASE UNCHANGED vars
  BY <1>1, <1>6, QuietKeeps DEF vars, configVars, clientVars
<1> QED
  BY <1>2, <1>3, <1>4, <1>5, <1>6 DEF Next

\* Clients are what their configurations say, at any time (node_client.cc:272-373).
THEOREM Invariance == Spec => []IInv
<1>1. IInv /\ [Next]_vars => IInv'
  BY StepInvariant
<1> QED
  BY <1>1, InitInvariant, PTL DEF Spec

\* Creation is all or nothing (node_client.cc:272-337), with every backend that any
\* method of a node is configured for.
THEOREM AllOrNothing == Spec => []EveryNodeOrNone
<1>1. IInv => EveryNodeOrNone
  BY Lengths DEF IInv, StageShape, ClientsBuilt, Built, Needed, EveryNodeOrNone
<1> QED
  BY <1>1, Invariance, PTL

\* A call reaches the backend its configuration names, and backends_.at never throws
\* (node_client.cc:353-361), for every configuration, sequence of overrides and calls.
THEOREM RightBackend == Spec => []CallsReachConfiguredBackend
<1>1. IInv => CallsReachConfiguredBackend
  <2> SUFFICES ASSUME IInv, reply # <<>>, reply.method # "GetVersion"
               PROVE  CallsReachConfiguredBackend
    BY DEF CallsReachConfiguredBackend
  <2>1. /\ reply.client \in 1..Len(clients)
        /\ reply.backend = Selected(configs[reply.client], reply.method)
        /\ reply.backend \in clients[reply.client].backends
    BY DEF IInv, ReplyRight
  <2>2. Built(clients[reply.client], configs[reply.client])
    BY <2>1 DEF IInv, ClientsBuilt
  <2> QED
    BY <2>1, <2>2, BuiltServes DEF CallsReachConfiguredBackend
<1> QED
  BY <1>1, Invariance, PTL

\* No call changes where a later one goes (node_client.cc:353-361).
THEOREM StableRouting == Spec => RoutingNeverChanges
<1>1. IInv /\ [Next]_vars =>
        [stage = "ready" =>
           \A n \in DOMAIN clients :
             /\ clients'[n].backends = clients[n].backends
             /\ \A m \in ApiMethods :
                  Selected(clients'[n].config, m) = Selected(clients[n].config, m)]_vars
  BY StepInvariant, Lengths DEF SameRoutes
<1> QED
  BY <1>1, Invariance, PTL DEF Spec, RoutingNeverChanges

----------------------------------------------------------------------------
(* Overrides.                                                              *)

\* The largest of some numbers is found.
LEMMA SetMaxIs ==
  ASSUME NEW S, S \subseteq Nat, NEW n \in S, \A m \in S : m <= n
  PROVE  SetMax(S) = n
<1>1. \A k \in S : (\A m \in S : m <= k) => k = n
  OBVIOUS
<1> QED
  BY <1>1 DEF SetMax

\* An override is about the nodes that have its address.
LEMMA MatchesByAddress ==
  ASSUME NEW c, NEW o
  PROVE  Matches(c, o) <=> Address(o) \in Addresses(c)
  BY DEF Matches, Address, Addresses, IsOobBackend

\* What an override makes of a configuration with its address.
Overridden(d, c, o) ==
  /\ Addresses(d) = Addresses(c) /\ d.methods = c.methods
  /\ d.backend = o.backend
  /\ d.port = IF IsOobBackend(o.backend) /\ o.port # 0 THEN o.port ELSE c.port

\* What an override does to a node that it is about (node_client.cc:48-91).
LEMMA OverriddenNode ==
  ASSUME NEW c, IsConfiguration(c), NEW o, o.target # "", Matches(c, o),
         NEW d, d = ApplyOverride(c, o)
  PROVE  Overridden(d, c, o)
<1>1. CASE IsOobBackend(o.backend)
  <2>1. d = ApplyOobOverride(c, o) /\ c.target = o.target
    BY <1>1 DEF ApplyOverride, Matches
  <2>2. /\ d.backend = o.backend /\ d.methods = c.methods /\ d.host = c.host
        /\ d.port = Given(o.port, {0}, c.port) /\ d.target = Given(o.target, {""}, c.target)
    BY <2>1 DEF ApplyOobOverride, IsConfiguration
  <2> QED
    BY <1>1, <2>1, <2>2 DEF Given, Addresses, Overridden
<1>2. CASE ~IsOobBackend(o.backend)
  <2>1. d = ApplyIbOverride(c, o) /\ c.host = o.target
    BY <1>2 DEF ApplyOverride, Matches
  <2>2. /\ d.backend = o.backend /\ d.methods = c.methods /\ d.target = c.target
        /\ d.port = c.port /\ d.host = Given(o.target, {""}, c.host)
    BY <2>1 DEF ApplyIbOverride, IsConfiguration
  <2> QED
    BY <1>2, <2>1, <2>2 DEF Given, Addresses, Overridden
<1> QED
  BY <1>1, <1>2

\* The node that an override makes.
LEMMA NewNode ==
  ASSUME NEW o, o.target # "", NEW e, e = ApplyOverride(EmptyConfiguration, o)
  PROVE  /\ Address(o) \in Addresses(e)
         /\ \A address \in Addresses(e) : address = Address(o) \/ address[2] = ""
         /\ e.backend = o.backend
         /\ e.port = IF IsOobBackend(o.backend) THEN o.port ELSE 0
<1>1. CASE IsOobBackend(o.backend)
  <2>1. e = ApplyOobOverride(EmptyConfiguration, o)
    BY <1>1 DEF ApplyOverride
  <2>2. /\ e.backend = o.backend /\ e.host = ""
        /\ e.port = Given(o.port, {0}, 0) /\ e.target = Given(o.target, {""}, "")
    BY <2>1 DEF ApplyOobOverride, EmptyConfiguration
  <2>3. Addresses(e) = {<<FALSE, "">>, <<TRUE, o.target>>}
    BY <2>2 DEF Given, Addresses
  <2>4. Address(o) = <<TRUE, o.target>>
    BY <1>1 DEF Address, IsOobBackend
  <2>5. <<FALSE, "">>[2] = ""
    OBVIOUS
  <2>6. e.port = o.port
    BY <2>2 DEF Given
  <2> QED
    BY <1>1, <2>2, <2>3, <2>4, <2>5, <2>6
<1>2. CASE ~IsOobBackend(o.backend)
  <2>1. e = ApplyIbOverride(EmptyConfiguration, o)
    BY <1>2 DEF ApplyOverride
  <2>2. /\ e.backend = o.backend /\ e.target = ""
        /\ e.port = 0 /\ e.host = Given(o.target, {""}, "")
    BY <2>1 DEF ApplyIbOverride, EmptyConfiguration
  <2>3. Addresses(e) = {<<FALSE, o.target>>, <<TRUE, "">>}
    BY <2>2 DEF Given, Addresses
  <2>4. Address(o) = <<FALSE, o.target>>
    BY <1>2 DEF Address, IsOobBackend
  <2>5. <<TRUE, "">>[2] = ""
    OBVIOUS
  <2> QED
    BY <1>2, <2>2, <2>3, <2>4, <2>5
<1> QED
  BY <1>1, <1>2

\* The first n overrides that are about a node, and those that give it a port.
About(mhi, n, config) == {k \in 1..n : Address(mhi[k]) \in Addresses(config)}

\* Those of them that give a port.
AboutPort(mhi, n, config) ==
  {k \in About(mhi, n, config) : IsOobBackend(mhi[k].backend) /\ mhi[k].port # 0}

\* What BackendOfLast and PortOfLastGiven say of node i.
NodeRight(nodes, old, mhi, n, i) ==
  /\ i <= Len(old) => /\ Addresses(nodes[i]) = Addresses(old[i])
                      /\ nodes[i].methods = old[i].methods
  /\ nodes[i].backend = IF About(mhi, n, nodes[i]) = {} THEN old[i].backend
                        ELSE mhi[SetMax(About(mhi, n, nodes[i]))].backend
  /\ nodes[i].port =
       IF AboutPort(mhi, n, nodes[i]) # {} THEN mhi[SetMax(AboutPort(mhi, n, nodes[i]))].port
       ELSE IF i <= Len(old) THEN old[i].port ELSE 0

\* The addresses the file has, and those that only overrides have.
FileAddresses(old) == UNION {Addresses(old[i]) : i \in DOMAIN old}

\* The addresses of the first n overrides that the file does not have.
NewAddresses(old, mhi, n) == {Address(mhi[k]) : k \in 1..n} \ FileAddresses(old)

\* The overrides that are applied have a node each, and a node the file does not have
\* has the address of one.
AddressesRight(nodes, old, mhi, n) ==
  /\ \A k \in 1..n : \E i \in 1..Len(nodes) : Address(mhi[k]) \in Addresses(nodes[i])
  /\ \A i \in 1..Len(nodes) : i > Len(old) =>
       \A address \in Addresses(nodes[i]) :
         address[2] = "" \/ \E k \in 1..n : address = Address(mhi[k])

\* The nodes after the first n overrides of mhi, from the nodes `old` of the file.
NodesRight(nodes, old, mhi, n) ==
  /\ Len(old) <= Len(nodes)
  /\ \A i \in 1..Len(nodes) : NodeRight(nodes, old, mhi, n, i)
  /\ AddressesRight(nodes, old, mhi, n)
  /\ IsFiniteSet(NewAddresses(old, mhi, n))
  /\ Len(nodes) = Len(old) + Cardinality(NewAddresses(old, mhi, n))

\* Parsed overrides: each has a target.
OverridesRight(mhi) ==
  mhi \in Seq(Range(mhi)) /\ \A k \in 1..Len(mhi) : mhi[k].target # ""

\* One more override, the last one so far, about a node that keeps its addresses.
LEMMA NextOverrideOfNode ==
  ASSUME NEW old, NEW mhi, NEW n \in Nat, NEW nodes, NEW nodes1, NEW i,
         Len(old) \in Nat,
         NodeRight(nodes, old, mhi, n, i),
         Addresses(nodes1[i]) = Addresses(nodes[i]),
         nodes1[i].methods = nodes[i].methods,
         nodes1[i].backend = IF Matches(nodes[i], mhi[n + 1]) THEN mhi[n + 1].backend
                             ELSE nodes[i].backend,
         nodes1[i].port =
           IF /\ Matches(nodes[i], mhi[n + 1])
              /\ IsOobBackend(mhi[n + 1].backend) /\ mhi[n + 1].port # 0
           THEN mhi[n + 1].port ELSE nodes[i].port
  PROVE  NodeRight(nodes1, old, mhi, n + 1, i)
<1> DEFINE A == About(mhi, n, nodes[i])
           A1 == About(mhi, n + 1, nodes1[i])
           P == AboutPort(mhi, n, nodes[i])
           P1 == AboutPort(mhi, n + 1, nodes1[i])
<1>1. 1..(n + 1) = (1..n) \cup {n + 1}
  OBVIOUS
<1>2. A1 = IF Matches(nodes[i], mhi[n + 1]) THEN A \cup {n + 1} ELSE A
  BY <1>1, MatchesByAddress DEF About
<1>3. P1 = IF /\ Matches(nodes[i], mhi[n + 1])
              /\ IsOobBackend(mhi[n + 1].backend) /\ mhi[n + 1].port # 0
           THEN P \cup {n + 1} ELSE P
  BY <1>2 DEF AboutPort
<1>4. A \subseteq 1..n /\ P \subseteq 1..n
  BY DEF About, AboutPort
<1> HIDE DEF A, A1, P, P1
<1>5. SetMax(A \cup {n + 1}) = n + 1 /\ SetMax(P \cup {n + 1}) = n + 1
  <2>1. ASSUME NEW S, S \subseteq 1..n PROVE SetMax(S \cup {n + 1}) = n + 1
    <3> DEFINE T == S \cup {n + 1}
    <3>1. T \subseteq Nat /\ n + 1 \in T /\ \A m \in T : m <= n + 1
      BY <2>1
    <3> HIDE DEF T
    <3>2. SetMax(T) = n + 1
      BY <3>1, SetMaxIs
    <3> QED
      BY <3>2 DEF T
  <2> QED
    BY <1>4, <2>1
<1>6. /\ i <= Len(old) => /\ Addresses(nodes[i]) = Addresses(old[i])
                          /\ nodes[i].methods = old[i].methods
      /\ nodes[i].backend = IF A = {} THEN old[i].backend ELSE mhi[SetMax(A)].backend
      /\ nodes[i].port = IF P # {} THEN mhi[SetMax(P)].port
                         ELSE IF i <= Len(old) THEN old[i].port ELSE 0
  BY DEF NodeRight, A, P
<1>7. nodes1[i].backend = IF A1 = {} THEN old[i].backend ELSE mhi[SetMax(A1)].backend
  BY <1>2, <1>5, <1>6
<1>8. nodes1[i].port = IF P1 # {} THEN mhi[SetMax(P1)].port
                       ELSE IF i <= Len(old) THEN old[i].port ELSE 0
  BY <1>3, <1>5, <1>6
<1> QED
  BY <1>6, <1>7, <1>8 DEF NodeRight, A1, P1

\* The addresses that are new after one more override.
LEMMA NextNewAddresses ==
  ASSUME NEW old, NEW mhi, NEW n \in Nat
  PROVE  NewAddresses(old, mhi, n + 1) =
           NewAddresses(old, mhi, n) \cup ({Address(mhi[n + 1])} \ FileAddresses(old))
<1>1. 1..(n + 1) = (1..n) \cup {n + 1}
  OBVIOUS
<1> QED
  BY <1>1 DEF NewAddresses

\* One more override, on the nodes that have its address or on a node of its own.
LEMMA NextOverride ==
  ASSUME NEW nodes, NEW old, NEW mhi, NEW n \in Nat,
         IsConfigurations(nodes), IsConfigurations(old), OverridesRight(mhi),
         n < Len(mhi), NodesRight(nodes, old, mhi, n),
         NEW nodes1, nodes1 = ApplyNodeOverride(nodes, mhi[n + 1])
  PROVE  NodesRight(nodes1, old, mhi, n + 1)
<1> DEFINE o == mhi[n + 1]
           New == NewAddresses(old, mhi, n)
           New1 == NewAddresses(old, mhi, n + 1)
<1>1. /\ nodes \in Seq(Range(nodes)) /\ DOMAIN nodes = 1..Len(nodes) /\ Len(nodes) \in Nat
      /\ DOMAIN old = 1..Len(old) /\ Len(old) \in Nat /\ Len(mhi) \in Nat
      /\ \A i \in 1..Len(nodes) : IsConfiguration(nodes[i])
  BY LenProperties DEF IsConfigurations, OverridesRight
<1>2. n + 1 \in 1..Len(mhi) /\ 1..n \subseteq 1..Len(mhi)
  BY <1>1
<1>3. \A k \in 1..Len(mhi) : mhi[k].target # ""
  BY DEF OverridesRight
<1>9. o.target # "" /\ \A k \in 1..n : mhi[k].target # ""
  <2>1. \A k \in 1..n : k \in 1..Len(mhi)
    BY <1>2
  <2>2. \A k \in 1..n : mhi[k].target # ""
    BY <1>3, <2>1
  <2> QED
    BY <1>2, <1>3, <2>2
<1>4. /\ Len(old) <= Len(nodes)
      /\ \A i \in 1..Len(nodes) : NodeRight(nodes, old, mhi, n, i)
      /\ AddressesRight(nodes, old, mhi, n)
      /\ IsFiniteSet(New)
      /\ Len(nodes) = Len(old) + Cardinality(New)
  BY DEF NodesRight
<1>5. /\ New1 = New \cup ({Address(o)} \ FileAddresses(old))
      /\ 1..(n + 1) = (1..n) \cup {n + 1}
      /\ Cardinality(New) \in Nat
  BY <1>4, NextNewAddresses, FS_CardinalityType
<1>6. FileAddresses(old) \subseteq UNION {Addresses(nodes[i]) : i \in 1..Len(nodes)}
  <2>1. \A i \in 1..Len(old) : i \in 1..Len(nodes) /\ Addresses(nodes[i]) = Addresses(old[i])
    BY <1>1, <1>4 DEF NodeRight
  <2> QED
    BY <1>1, <2>1 DEF FileAddresses
<1> HIDE DEF o, New, New1
<1>7. CASE \E i \in 1..Len(nodes) : Matches(nodes[i], o)
  <2>1. nodes1 = [i \in DOMAIN nodes |->
                    IF Matches(nodes[i], o) THEN ApplyOverride(nodes[i], o) ELSE nodes[i]]
    BY <1>1, <1>7 DEF ApplyNodeOverride, o
  <2>2. Len(nodes1) = Len(nodes)
    <3>1. DOMAIN nodes1 = DOMAIN nodes /\ nodes1 = [i \in DOMAIN nodes1 |-> nodes1[i]]
      BY <2>1
    <3> QED
      BY <1>1, <3>1, RangeExcept
  <2>3. ASSUME NEW i \in 1..Len(nodes)
        PROVE  /\ Addresses(nodes1[i]) = Addresses(nodes[i])
               /\ nodes1[i].methods = nodes[i].methods
               /\ nodes1[i].backend = IF Matches(nodes[i], o) THEN o.backend
                                      ELSE nodes[i].backend
               /\ nodes1[i].port =
                    IF Matches(nodes[i], o) /\ IsOobBackend(o.backend) /\ o.port # 0
                    THEN o.port ELSE nodes[i].port
    <3>1. CASE Matches(nodes[i], o)
      <4>1. nodes1[i] = ApplyOverride(nodes[i], o) /\ IsConfiguration(nodes[i])
        BY <1>1, <2>1, <3>1
      <4> QED
        <5>1. ASSUME NEW c, IsConfiguration(c), Matches(c, o), NEW d, d = ApplyOverride(c, o)
              PROVE  /\ Addresses(d) = Addresses(c) /\ d.methods = c.methods
                     /\ d.backend = o.backend
                     /\ d.port = IF IsOobBackend(o.backend) /\ o.port # 0
                                 THEN o.port ELSE c.port
          <6>1. o.target # ""
            BY <1>9
          <6>2. Overridden(d, c, o)
            BY <5>1, <6>1, OverriddenNode
          <6> QED
            BY <6>2 DEF Overridden
        <5>2. PICK c, d : c = nodes[i] /\ d = nodes1[i]
          OBVIOUS
        <5>3. IsConfiguration(c) /\ Matches(c, o) /\ d = ApplyOverride(c, o)
          BY <3>1, <4>1, <5>2
        <5> QED
          BY <3>1, <5>1, <5>2, <5>3
    <3>2. CASE ~Matches(nodes[i], o)
      BY <1>1, <2>1, <3>2
    <3> QED
      BY <3>1, <3>2
  <2>4. ASSUME NEW i \in 1..Len(nodes) PROVE NodeRight(nodes1, old, mhi, n + 1, i)
    BY <1>1, <1>4, <2>3, NextOverrideOfNode DEF o
  <2>5. PICK j \in 1..Len(nodes) : Address(o) \in Addresses(nodes[j])
    BY <1>7, MatchesByAddress
  <2>6. AddressesRight(nodes1, old, mhi, n + 1)
    <3>1. ASSUME NEW k \in 1..(n + 1)
          PROVE  \E i \in 1..Len(nodes) : Address(mhi[k]) \in Addresses(nodes1[i])
      <4>1. CASE k = n + 1
        BY <2>3, <2>5, <4>1 DEF o
      <4>2. CASE k \in 1..n
        BY <1>4, <2>3, <4>2 DEF AddressesRight
      <4> QED
        BY <1>5, <4>1, <4>2
    <3>2. ASSUME NEW i \in 1..Len(nodes), i > Len(old),
                 NEW address \in Addresses(nodes1[i])
          PROVE  address[2] = "" \/ \E k \in 1..(n + 1) : address = Address(mhi[k])
      <4>1. address \in Addresses(nodes[i])
        BY <2>3, <3>2
      <4> QED
        BY <1>4, <1>5, <3>2, <4>1 DEF AddressesRight
    <3> QED
      BY <2>2, <3>1, <3>2 DEF AddressesRight
  <2>7. New1 = New
    <3>1. CASE j <= Len(old)
      <4>1. Address(o) \in FileAddresses(old)
        <5>1. Addresses(nodes[j]) = Addresses(old[j]) /\ j \in DOMAIN old
          BY <1>1, <1>4, <3>1 DEF NodeRight
        <5> QED
          BY <2>5, <5>1 DEF FileAddresses
      <4> QED
        BY <1>5, <4>1
    <3>2. CASE j > Len(old)
      <4>1. Address(o)[2] # ""
        BY <1>9 DEF Address
      <4>2. \E k \in 1..n : Address(o) = Address(mhi[k])
        BY <1>4, <2>5, <3>2, <4>1 DEF AddressesRight
      <4> QED
        BY <1>5, <4>2 DEF New, NewAddresses
    <3> QED
      BY <1>1, <3>1, <3>2
  <2> QED
    BY <1>4, <2>2, <2>4, <2>6, <2>7 DEF NodesRight, New1
<1>8. CASE \A i \in 1..Len(nodes) : ~Matches(nodes[i], o)
  <2> DEFINE e == ApplyOverride(EmptyConfiguration, o)
  <2>1. nodes1 = Append(nodes, e)
    BY <1>1, <1>8 DEF ApplyNodeOverride, o
  <2>2. /\ Address(o) \in Addresses(e)
        /\ \A address \in Addresses(e) : address = Address(o) \/ address[2] = ""
        /\ e.backend = o.backend
        /\ e.port = IF IsOobBackend(o.backend) THEN o.port ELSE 0
    BY <1>9, NewNode
  <2> HIDE DEF e
  <2>3. /\ Len(nodes1) = Len(nodes) + 1
        /\ \A i \in 1..Len(nodes) : nodes1[i] = nodes[i]
        /\ nodes1[Len(nodes) + 1] = e
        /\ 1..Len(nodes1) = (1..Len(nodes)) \cup {Len(nodes) + 1}
    <3>1. /\ Len(nodes1) = Len(nodes) + 1
          /\ \A i \in 1..Len(nodes) : nodes1[i] = nodes[i]
          /\ nodes1[Len(nodes) + 1] = e
      BY <1>1, <2>1, RangeAppend
    <3> QED
      BY <1>1, <3>1
  <2>4. ASSUME NEW i \in 1..Len(nodes) PROVE NodeRight(nodes1, old, mhi, n + 1, i)
    <3>1. nodes1[i] = nodes[i] /\ ~Matches(nodes[i], mhi[n + 1])
      BY <1>8, <2>3 DEF o
    <3>2. NodeRight(nodes, old, mhi, n, i)
      BY <1>4
    <3> QED
      BY <1>1, <3>1, <3>2, NextOverrideOfNode
  <2>5. \A i \in 1..Len(nodes) : Address(o) \notin Addresses(nodes[i])
    BY <1>8, MatchesByAddress
  <2>6. \A k \in 1..n : Address(mhi[k]) # Address(o)
    BY <1>4, <2>5 DEF AddressesRight
  <2>7. \A k \in 1..n : Address(mhi[k]) \notin Addresses(e)
    <3>1. \A k \in 1..n : Address(mhi[k])[2] # ""
      BY <1>9 DEF Address
    <3> QED
      BY <2>2, <2>6, <3>1
  <2>8. NodeRight(nodes1, old, mhi, n + 1, Len(nodes) + 1)
    <3> DEFINE A == About(mhi, n + 1, e)
               P == AboutPort(mhi, n + 1, e)
    <3>1. A = {n + 1}
      BY <1>5, <2>2, <2>7 DEF About, o
    <3>2. P = IF IsOobBackend(o.backend) /\ o.port # 0 THEN {n + 1} ELSE {}
      BY <3>1 DEF AboutPort, o
    <3> HIDE DEF A, P
    <3>3. SetMax({n + 1}) = n + 1
      <4>1. PICK S : S = {n + 1}
        OBVIOUS
      <4>2. S \subseteq Nat /\ n + 1 \in S /\ \A k \in S : k <= n + 1
        BY <4>1
      <4>3. SetMax(S) = n + 1
        BY <4>2, SetMaxIs
      <4> QED
        BY <4>1, <4>3
    <3>4. e.backend = IF A = {} THEN old[Len(nodes) + 1].backend ELSE mhi[SetMax(A)].backend
      BY <2>2, <3>1, <3>3 DEF o
    <3>5. ~(Len(nodes) + 1 <= Len(old))
      BY <1>1, <1>4
    <3>6. e.port = IF P # {} THEN mhi[SetMax(P)].port
                   ELSE IF Len(nodes) + 1 <= Len(old) THEN old[Len(nodes) + 1].port ELSE 0
      <4>1. CASE IsOobBackend(o.backend) /\ o.port # 0
        BY <2>2, <3>2, <3>3, <4>1 DEF o
      <4>2. CASE ~(IsOobBackend(o.backend) /\ o.port # 0)
        BY <2>2, <3>2, <3>5, <4>2
      <4> QED
        BY <4>1, <4>2
    <3> QED
      BY <2>3, <3>4, <3>5, <3>6 DEF NodeRight, A, P
  <2>9. AddressesRight(nodes1, old, mhi, n + 1)
    <3>1. ASSUME NEW k \in 1..(n + 1)
          PROVE  \E i \in 1..Len(nodes1) : Address(mhi[k]) \in Addresses(nodes1[i])
      <4>1. CASE k = n + 1
        BY <2>2, <2>3, <4>1 DEF o
      <4>2. CASE k \in 1..n
        BY <1>4, <2>3, <4>2 DEF AddressesRight
      <4> QED
        BY <1>5, <4>1, <4>2
    <3>2. ASSUME NEW i \in 1..Len(nodes1), i > Len(old),
                 NEW address \in Addresses(nodes1[i])
          PROVE  address[2] = "" \/ \E k \in 1..(n + 1) : address = Address(mhi[k])
      <4>1. CASE i \in 1..Len(nodes)
        <5>1. address \in Addresses(nodes[i])
          BY <2>3, <3>2, <4>1
        <5> QED
          BY <1>4, <1>5, <3>2, <4>1, <5>1 DEF AddressesRight
      <4>2. CASE i = Len(nodes) + 1
        BY <1>5, <2>2, <2>3, <3>2, <4>2 DEF o
      <4> QED
        BY <2>3, <4>1, <4>2
    <3> QED
      BY <3>1, <3>2 DEF AddressesRight
  <2>10. /\ IsFiniteSet(New1) /\ Cardinality(New1) = Cardinality(New) + 1
    <3>1. Address(o) \notin FileAddresses(old)
      BY <1>6, <2>5
    <3>2. Address(o) \notin New
      BY <2>6 DEF New, NewAddresses
    <3>3. New1 = New \cup {Address(o)}
      BY <1>5, <3>1
    <3> QED
      BY <1>4, <3>2, <3>3, FS_AddElement
  <2>11. Len(old) <= Len(nodes1) /\ Len(nodes1) = Len(old) + Cardinality(New1)
    BY <1>1, <1>4, <1>5, <2>3, <2>10
  <2> QED
    BY <2>3, <2>4, <2>8, <2>9, <2>10, <2>11 DEF NodesRight, New1
<1> QED
  BY <1>7, <1>8
\* The flags an override comes from, and the states of a file.
LoadShape ==
  /\ flags.mhi \in Seq(Range(flags.mhi))
  /\ \A i \in DOMAIN flags.mhi : flags.mhi[i].malformed \/ flags.mhi[i].target # ""
  /\ file.state \in {"missing", "malformed", "empty", "json"}

\* Nothing is built before the file is read, and then the nodes are those of the file
\* with the overrides applied so far.
LoadInv ==
  /\ LoadShape
  /\ loading \in {"flags", "file"} => configs = <<>> /\ applied = 0
  /\ loading \in {"file", "multi"} => OverridesRight(options.mhi)
  /\ loading = "multi" =>
       applied \in 0..Len(options.mhi) /\ NodesRight(configs, FileNodes, options.mhi, applied)

\* The overrides that parsing accepts have a target.
LEMMA ParsedOverrides ==
  ASSUME NEW texts, texts \in Seq(Range(texts)),
         \A i \in DOMAIN texts : texts[i].malformed \/ texts[i].target # "",
         ParseOverrides(texts).ok
  PROVE  OverridesRight(ParseOverrides(texts).value)
<1> DEFINE mhi == [i \in DOMAIN texts |-> ParseOverride(texts[i]).value]
<1>1. /\ \A i \in DOMAIN texts : ParseOverride(texts[i]).ok
      /\ ParseOverrides(texts).value = mhi
  BY DEF ParseOverrides, Parsed, Rejected
<1>2. ASSUME NEW i \in DOMAIN texts PROVE mhi[i].target # ""
  <2>1. ParseOverride(texts[i]).ok
    BY <1>1
  <2>2. ~texts[i].malformed /\ mhi[i].target = texts[i].target
    BY <2>1 DEF ParseOverride, Parsed, Rejected
  <2> QED
    BY <2>2
<1>3. mhi \in Seq(Range(mhi)) /\ DOMAIN mhi = DOMAIN texts
  <2>1. DOMAIN mhi = DOMAIN texts /\ mhi = [i \in DOMAIN mhi |-> mhi[i]]
    OBVIOUS
  <2> HIDE DEF mhi
  <2> QED
    BY <2>1, RangeExcept
<1> HIDE DEF mhi
<1>4. DOMAIN mhi = 1..Len(mhi)
  BY <1>3, LenProperties
<1> QED
  BY <1>1, <1>2, <1>3, <1>4 DEF OverridesRight

\* Before the first override the nodes are those of the file.
LEMMA NoOverrideYet ==
  ASSUME NEW old, IsConfigurations(old), NEW mhi
  PROVE  NodesRight(old, old, mhi, 0)
<1>1. Len(old) \in Nat
  BY LenProperties DEF IsConfigurations
<1>2. 1..0 = {}
  OBVIOUS
<1>3. NewAddresses(old, mhi, 0) = {}
  BY <1>2 DEF NewAddresses
<1>4. IsFiniteSet({}) /\ Cardinality({}) = 0
  BY FS_EmptySet
<1>5. ASSUME NEW i \in 1..Len(old) PROVE NodeRight(old, old, mhi, 0, i)
  <2>1. About(mhi, 0, old[i]) = {} /\ AboutPort(mhi, 0, old[i]) = {}
    BY <1>2 DEF About, AboutPort
  <2>2. i <= Len(old)
    BY <1>1
  <2> QED
    BY <2>1, <2>2 DEF NodeRight
<1>6. AddressesRight(old, old, mhi, 0)
  <2>1. \A k \in 1..0 : \E i \in 1..Len(old) : Address(mhi[k]) \in Addresses(old[i])
    BY <1>2
  <2>2. \A i \in 1..Len(old) : ~(i > Len(old))
    BY <1>1
  <2> QED
    BY <2>1, <2>2 DEF AddressesRight
<1>7. Len(old) <= Len(old) /\ Len(old) = Len(old) + Cardinality({})
  BY <1>1, <1>4
<1> QED
  BY <1>3, <1>4, <1>5, <1>6, <1>7 DEF NodesRight

\* At first nothing is parsed.
LEMMA InitLoad == ClientInit => LoadInv
<1> SUFFICES ASSUME ClientInit PROVE LoadInv
  OBVIOUS
<1>1. PICK inputs \in Inputs : \E input \in inputs : ConfigInit(input)
  BY DEF ClientInit
<1>2. PICK input \in inputs : ConfigInit(input)
  BY <1>1
<1>3. /\ input.file.state \in {"missing", "malformed", "empty", "json"}
      /\ input.flags.mhi \in Seq(Range(input.flags.mhi))
      /\ \A i \in DOMAIN input.flags.mhi :
           input.flags.mhi[i].malformed \/ input.flags.mhi[i].target # ""
  BY InputsAssumption
<1>4. LoadShape
  BY <1>2, <1>3 DEF LoadShape, ConfigInit
<1> QED
  BY <1>2, <1>4 DEF LoadInv, ConfigInit

\* Each step of LoadConfigs.
LEMMA LoadKeepsLoadInv ==
  ASSUME IInv, LoadInv, LoadConfigs
  PROVE  LoadInv'
<1>1. UNCHANGED <<flags, file>>
  BY DEF LoadConfigs, ParseFlags, ReadFile, ApplyMultiNodeOverrides,
         ApplySingleNodeOverride
<1>2. LoadShape' /\ FileNodes' = FileNodes
  BY <1>1 DEF LoadInv, LoadShape, FileNodes
<1>3. /\ IsConfigurations(file.nodes) /\ IsConfigurations(configs)
      /\ IsConfigurations(FileNodes)
  <2>1. IsConfigurations(file.nodes) /\ IsConfigurations(configs)
    BY DEF IInv, InputShape
  <2>2. IsConfigurations(<<>>)
    BY DEF IsConfigurations, Range
  <2> QED
    BY <2>1, <2>2 DEF FileNodes
<1>4. CASE ParseFlags
  <2>1. /\ UNCHANGED <<configs, applied>> /\ loading = "flags"
        /\ loading' \in {"file", "exited"}
    BY <1>4 DEF ParseFlags
  <2>2. loading' = "file" => OverridesRight(options'.mhi)
    <3>1. SUFFICES ASSUME loading' = "file" PROVE OverridesRight(options'.mhi)
      OBVIOUS
    <3>2. ParseOverrides(flags.mhi).ok /\ options'.mhi = ParseOverrides(flags.mhi).value
      BY <1>4, <3>1 DEF ParseFlags
    <3>3. PICK texts : texts = flags.mhi
      OBVIOUS
    <3>4. OverridesRight(ParseOverrides(texts).value)
      BY <3>2, <3>3, ParsedOverrides DEF LoadInv, LoadShape
    <3> QED
      BY <3>2, <3>3, <3>4
  <2> QED
    BY <1>2, <2>1, <2>2 DEF LoadInv, OverridesRight
<1>5. CASE ReadFile
  <2>1. /\ UNCHANGED <<options, applied>> /\ loading = "file"
        /\ loading' \in {"multi", "failed"}
        /\ configs = <<>> /\ applied = 0 /\ OverridesRight(options.mhi)
    BY <1>5 DEF ReadFile, LoadInv
  <2>2. loading' = "multi" => configs' = FileNodes
    BY <1>5, <2>1 DEF ReadFile, FileNodes, LoadInv, LoadShape
  <2>3. loading' = "multi" => NodesRight(configs', FileNodes, options.mhi, 0)
    <3>1. PICK old, mhi : old = FileNodes /\ mhi = options.mhi
      OBVIOUS
    <3>2. NodesRight(old, old, mhi, 0)
      BY <1>3, <3>1, NoOverrideYet
    <3> QED
      BY <2>2, <3>1, <3>2
  <2>4. Len(options.mhi) \in Nat
    BY <2>1, LenProperties DEF OverridesRight
  <2>5. loading' = "multi" => NodesRight(configs, FileNodes, options.mhi, applied)'
    BY <1>2, <2>1, <2>3
  <2> QED
    <3>1. OverridesRight(options'.mhi) /\ applied' \in 0..Len(options'.mhi)
      BY <2>1, <2>4
    <3> QED
      BY <1>2, <2>1, <2>5, <3>1 DEF LoadInv
<1>6. CASE ApplyMultiNodeOverrides
  <2>1. /\ loading = "multi" /\ UNCHANGED options /\ OverridesRight(options.mhi)
        /\ applied \in 0..Len(options.mhi)
        /\ NodesRight(configs, FileNodes, options.mhi, applied)
        /\ loading' \in {"multi", "single", "loaded"}
    BY <1>6 DEF ApplyMultiNodeOverrides, LoadInv
  <2>2. Len(options.mhi) \in Nat
    BY <2>1, LenProperties DEF OverridesRight
  <2>3. CASE applied < Len(options.mhi)
    <3>1. /\ configs' = ApplyNodeOverride(configs, options.mhi[applied + 1])
          /\ applied' = applied + 1
      BY <1>6, <2>3 DEF ApplyMultiNodeOverrides
    <3>2. applied' \in 0..Len(options.mhi) /\ applied \in Nat
      BY <2>1, <2>2, <2>3, <3>1
    <3>3. PICK nodes, old, mhi, n, nodes1 :
            /\ nodes = configs /\ old = FileNodes /\ mhi = options.mhi
            /\ n = applied /\ nodes1 = configs'
      OBVIOUS
    <3>4. NodesRight(nodes1, old, mhi, n + 1)
      <4>1. n \in Nat /\ n < Len(mhi) /\ nodes1 = ApplyNodeOverride(nodes, mhi[n + 1])
        BY <2>3, <3>1, <3>2, <3>3
      <4>2. IsConfigurations(nodes) /\ IsConfigurations(old) /\ OverridesRight(mhi)
        BY <1>3, <2>1, <3>3
      <4>3. NodesRight(nodes, old, mhi, n)
        BY <2>1, <3>3
      <4> QED
        BY <4>1, <4>2, <4>3, NextOverride
    <3>5. NodesRight(configs, FileNodes, options.mhi, applied)'
      BY <1>2, <2>1, <3>1, <3>3, <3>4
    <3> QED
      BY <1>2, <2>1, <3>2, <3>5, <1>6, <2>3 DEF LoadInv, OverridesRight,
         ApplyMultiNodeOverrides
  <2>4. CASE ~(applied < Len(options.mhi))
    <3>1. loading' \in {"single", "loaded"}
      BY <1>6, <2>4 DEF ApplyMultiNodeOverrides
    <3> QED
      BY <1>2, <3>1 DEF LoadInv
  <2> QED
    BY <2>3, <2>4
<1>7. CASE ApplySingleNodeOverride
  <2>1. loading' = "loaded"
    BY <1>7 DEF ApplySingleNodeOverride
  <2> QED
    BY <1>2, <2>1 DEF LoadInv
<1> QED
  BY <1>4, <1>5, <1>6, <1>7 DEF LoadConfigs

\* Once loaded, the configurations are read only.
LEMMA StepKeepsLoadInv ==
  ASSUME IInv, LoadInv, [Next]_vars
  PROVE  LoadInv'
<1>1. CASE Load
  BY <1>1, LoadKeepsLoadInv DEF Load
<1>2. CASE UNCHANGED configVars
  <2>1. UNCHANGED <<flags, file, options, configs, applied, loading>>
    BY <1>2 DEF configVars
  <2>2. FileNodes' = FileNodes /\ LoadShape'
    BY <2>1 DEF FileNodes, LoadInv, LoadShape
  <2> QED
    BY <2>1, <2>2 DEF LoadInv
<1>3. Create => UNCHANGED configVars
  BY DEF Create, Loaded, BeginClient, FinishClient, Return, AddBackend
<1>4. ASSUME Calls PROVE UNCHANGED configVars
  <2>1. PICK n \in DOMAIN clients :
          \/ CallGetCpuInfo(n) \/ CallGetMemoryInfo(n) \/ CallMemoryConvert(n)
          \/ CallGetErrors(n) \/ CallGetStorageInfo(n) \/ CallGetNodeInfo(n)
          \/ CallGetHwInfo(n) \/ CallReboot(n) \/ CallOther(n) \/ CallGetVersion(n)
    BY <1>4 DEF Calls
  <2>2. ASSUME NEW m, NEW request, NEW HostAnswer, Call(n, m, request, HostAnswer)
        PROVE  UNCHANGED configVars
    BY <2>2 DEF Call
  <2>3. CASE CallGetVersion(n)
    BY <2>3 DEF CallGetVersion
  <2>4. CASE ~CallGetVersion(n)
    BY <2>1, <2>2, <2>4, CallCases DEF AnyCall
  <2> QED
    BY <2>3, <2>4
<1>5. DmiTable => UNCHANGED configVars
  BY DEF DmiTable
<1>6. UNCHANGED vars => UNCHANGED configVars
  BY DEF vars
<1> QED
  BY <1>1, <1>2, <1>3, <1>4, <1>5, <1>6 DEF Next

\* The last of the overrides about a node gives its backend, the last that gives a port
\* its port, and addresses the file does not have make one node each
\* (node_client.cc:48-91, 173-223), for every configuration file and list of overrides.
THEOREM LastOverrideAlways == Spec => []LastOverrideDecides
<1>1. IInv /\ LoadInv => LastOverrideDecides
  <2> SUFFICES ASSUME IInv, LoadInv, loading = "multi"
               PROVE  BackendOfLast /\ PortOfLastGiven /\ OneNodePerNewAddress
    BY DEF LastOverrideDecides
  <2>1. NodesRight(configs, FileNodes, options.mhi, applied)
    BY DEF LoadInv
  <2>2. DOMAIN configs = 1..Len(configs)
    BY Lengths
  <2>3. BackendOfLast
    BY <2>1, <2>2 DEF BackendOfLast, NodesRight, NodeRight, OverridesOf, About
  <2>4. PortOfLastGiven
    BY <2>1, <2>2 DEF PortOfLastGiven, NodesRight, NodeRight, OverridesOf, AboutPort, About
  <2>5. OneNodePerNewAddress
    BY <2>1 DEF OneNodePerNewAddress, NodesRight, NewAddresses, FileAddresses
  <2> QED
    BY <2>3, <2>4, <2>5
<1>2. IInv /\ LoadInv /\ [Next]_vars => LoadInv'
  BY StepKeepsLoadInv
<1> QED
  BY <1>1, <1>2, Invariance, InitLoad, PTL DEF Spec

----------------------------------------------------------------------------
(* What the host backend answers.                                          *)

\* What is true of a good answer of the host backend, by the method that was called.
HostAnswered(m, method, request, answer) ==
  /\ AreIdentifiers(answer.value.ids)
  /\ method = "GetCpuInfo" /\ answer.value.lpus # <<>> =>
       TopologyRight(m, answer.value.lpus, answer.value.counts)
  /\ method = "GetErrors" => ErrorsRight(m, request, answer.value.errors)
  /\ method = "GetStorageInfo" => StorageAnswered(m, request, answer)
  /\ method = "GetNodeInfo" /\ request = {} =>
       answer.value.ids =
         [i \in 1..Len(m.disks) |-> Identifier(m.disks[i].all.serial, m.disks[i].type)]

\* The last good answer is one that the machine's files and tools justify.
AnswerInv ==
  /\ IsMachine(machine)
  /\ reply # <<>> /\ reply.answer.status = "ok" /\ reply.method # "GetHwInfo" =>
       HostAnswered(machine, reply.method, reply.request, reply.answer)

\* A good answer of a call is the host backend's, about the machine as it is.
LEMMA CallAnswers ==
  ASSUME NEW n, NEW m, NEW request, NEW answer, Call(n, m, request, answer)
  PROVE  /\ machine' = machine
         /\ reply'.method = m /\ reply'.request = request
         /\ reply'.answer.status = "ok" => reply'.answer = answer /\ m \in HostMethods
  BY DEF Call, Killed, Unimplemented

\* Each method of the host backend.
LEMMA MethodKeeps ==
  ASSUME IsMachine(machine), NEW n, NEW m, m # "GetHwInfo", NEW request, NEW answer,
         Call(n, m, request, answer),
         answer.status = "ok" => HostAnswered(machine, m, request, answer)
  PROVE  AnswerInv'
<1>1. /\ machine' = machine /\ reply'.method = m /\ reply'.request = request
      /\ reply'.answer.status = "ok" => reply'.answer = answer
  BY CallAnswers
<1>2. IsMachine(machine')
  BY <1>1
<1>3. reply'.answer.status = "ok" =>
        HostAnswered(machine', reply'.method, reply'.request, reply'.answer)
  BY <1>1
<1> QED
  BY <1>2, <1>3 DEF AnswerInv

\* Calls that need the SMBIOS table fail without it.
LEMMA SmbiosKeeps ==
  ASSUME IsMachine(machine), NEW n, NEW m, m # "GetHwInfo", NEW request, NEW answer,
         SmbiosCall(n, m, request, answer),
         answer.status = "ok" => HostAnswered(machine, m, request, answer)
  PROVE  AnswerInv'
<1>1. PICK a : a = IF n \in smbios \/ dmiReadable THEN answer ELSE Error
  OBVIOUS
<1>2. Call(n, m, request, a)
  BY <1>1 DEF SmbiosCall
<1>3. a.status = "ok" => HostAnswered(machine, m, request, a)
  BY <1>1 DEF Error
<1> QED
  BY <1>2, <1>3, MethodKeeps

\* Every call of a method keeps the invariant.
LEMMA AnswersKeep ==
  ASSUME AnswerInv, NEW n,
         \/ CallGetCpuInfo(n) \/ CallGetMemoryInfo(n) \/ CallMemoryConvert(n)
         \/ CallGetErrors(n) \/ CallGetStorageInfo(n) \/ CallGetNodeInfo(n)
         \/ CallGetHwInfo(n) \/ CallReboot(n) \/ CallOther(n)
  PROVE  AnswerInv'
<1>1. PICK mach : mach = machine /\ IsMachine(mach)
  BY DEF AnswerInv
<1>2. IsMachine(machine)
  BY DEF AnswerInv
<1>3. CASE CallGetCpuInfo(n)
  <2>1. PICK types : PlainCall(n, "GetCpuInfo", types, GetCpuInfo(machine, types))
    BY <1>3, Zenon DEF CallGetCpuInfo
  <2>2. PICK answer : answer = GetCpuInfo(mach, types)
    OBVIOUS
  <2>3. answer.status = "ok" => HostAnswered(mach, "GetCpuInfo", types, answer)
    BY <1>1, <2>2, CpuInfoRight DEF HostAnswered, CpuRight, IsOk
  <2>4. Call(n, "GetCpuInfo", types, answer)
    BY <1>1, <2>1, <2>2 DEF PlainCall
  <2> QED
    BY <1>1, <1>2, <2>3, <2>4, MethodKeeps
<1>4. CASE CallGetMemoryInfo(n)
  <2>1. PICK types : SmbiosCall(n, "GetMemoryInfo", types, GetMemoryInfo(machine, types))
    BY <1>4, Zenon DEF CallGetMemoryInfo
  <2>2. PICK answer : answer = GetMemoryInfo(mach, types)
    OBVIOUS
  <2>3. answer.status = "ok" => HostAnswered(mach, "GetMemoryInfo", types, answer)
    BY <1>1, <2>2, MemoryIds DEF HostAnswered
  <2>4. SmbiosCall(n, "GetMemoryInfo", types, answer)
    BY <1>1, <2>1, <2>2
  <2> QED
    BY <1>1, <1>2, <2>3, <2>4, SmbiosKeeps
<1>5. CASE CallMemoryConvert(n)
  <2>1. PICK address : SmbiosCall(n, "MemoryConvert", address, MemoryConvert(machine, address))
    BY <1>5, Zenon DEF CallMemoryConvert
  <2>2. PICK answer : answer = MemoryConvert(mach, address)
    OBVIOUS
  <2>3. answer.status = "ok" => HostAnswered(mach, "MemoryConvert", address, answer)
    BY <1>1, <2>2, ConvertedIds DEF HostAnswered, IsOk
  <2>4. SmbiosCall(n, "MemoryConvert", address, answer)
    BY <1>1, <2>1, <2>2
  <2> QED
    BY <1>1, <1>2, <2>3, <2>4, SmbiosKeeps
<1>6. CASE CallGetErrors(n)
  <2>1. PICK filter \in {<<>>, <<1, 2>>, <<2, 2>>}, sources \in {{}, {"OTHER"}} :
          PlainCall(n, "GetErrors", [filter |-> filter, sources |-> sources],
                    GetErrors(machine, filter, sources))
    BY <1>6, Zenon DEF CallGetErrors
  <2>2. PICK answer, request : /\ answer = GetErrors(mach, filter, sources)
                               /\ request = [filter |-> filter, sources |-> sources]
    OBVIOUS
  <2>3. answer.status = "ok" => HostAnswered(mach, "GetErrors", request, answer)
    BY <1>1, <2>2, ErrorsOfTheReport, ErrorIds DEF HostAnswered, IsOk
  <2>4. Call(n, "GetErrors", request, answer)
    BY <1>1, <2>1, <2>2 DEF PlainCall
  <2> QED
    BY <1>1, <1>2, <2>3, <2>4, MethodKeeps
<1>7. CASE CallGetStorageInfo(n)
  <2>1. PICK types : PlainCall(n, "GetStorageInfo", types, GetStorageInfo(machine, types))
    BY <1>7, Zenon DEF CallGetStorageInfo
  <2>2. PICK answer : answer = GetStorageInfo(mach, types)
    OBVIOUS
  <2>3. answer.status = "ok" => HostAnswered(mach, "GetStorageInfo", types, answer)
    BY <1>1, <2>2, StorageRight, DiskIds DEF HostAnswered, IsOk
  <2>4. Call(n, "GetStorageInfo", types, answer)
    BY <1>1, <2>1, <2>2 DEF PlainCall
  <2> QED
    BY <1>1, <1>2, <2>3, <2>4, MethodKeeps
<1>8. CASE CallGetNodeInfo(n)
  <2>1. PICK types \in {{}, {"OTHER"}} :
          PlainCall(n, "GetNodeInfo", types, GetNodeInfo(machine, types))
    BY <1>8, Zenon DEF CallGetNodeInfo
  <2>2. PICK answer : answer = GetNodeInfo(mach, types)
    OBVIOUS
  <2>3. answer.status = "ok" => HostAnswered(mach, "GetNodeInfo", types, answer)
    <3>1. SUFFICES ASSUME answer.status = "ok"
                   PROVE  HostAnswered(mach, "GetNodeInfo", types, answer)
      OBVIOUS
    <3>2. CASE types = {}
      <4>1. PICK ids, storage : ids = {"IDENTIFIER"} /\ storage = GetStorageInfo(mach, ids)
        OBVIOUS
      <4>2. InfoTypeHave(types, "FRUS") /\ InfoTypeHave(ids, "IDENTIFIER")
        BY <3>2, <4>1 DEF InfoTypeHave
      <4>3. answer = IF IsOk(storage) THEN Ok([ids |-> storage.value.ids]) ELSE storage
        BY <2>2, <4>1, <4>2 DEF GetNodeInfo
      <4>4. IsOk(storage) /\ answer.value.ids = storage.value.ids
        BY <3>1, <4>3 DEF IsOk, Ok
      <4>5. AreIdentifiers(storage.value.ids)
        BY <1>1, <4>1, <4>4, DiskIds
      <4>6. storage.value.ids =
              [i \in 1..Len(mach.disks) |->
                 Identifier(mach.disks[i].all.serial, mach.disks[i].type)]
        BY <1>1, <4>1, <4>2, <4>4, StorageIds
      <4> QED
        BY <4>4, <4>5, <4>6 DEF HostAnswered
    <3>3. CASE types = {"OTHER"}
      <4>1. ~InfoTypeHave(types, "FRUS") /\ types # {}
        BY <3>3 DEF InfoTypeHave
      <4>2. answer = Ok([ids |-> <<>>])
        BY <2>2, <4>1 DEF GetNodeInfo
      <4>3. answer.value.ids = <<>>
        BY <4>2 DEF Ok
      <4>4. AreIdentifiers(answer.value.ids)
        BY <4>3, NoIdentifiers
      <4> QED
        BY <4>1, <4>4 DEF HostAnswered
    <3> QED
      BY <3>2, <3>3
  <2>4. Call(n, "GetNodeInfo", types, answer)
    BY <1>1, <2>1, <2>2 DEF PlainCall
  <2> QED
    BY <1>1, <1>2, <2>3, <2>4, MethodKeeps
<1>9. CASE CallGetHwInfo(n)
  <2>1. PICK ids, answer : PlainCall(n, "GetHwInfo", ids, answer)
    BY <1>9, Zenon DEF CallGetHwInfo
  <2>2. machine' = machine /\ reply'.method = "GetHwInfo"
    BY <2>1, CallAnswers DEF PlainCall
  <2> QED
    BY <1>1, <2>2 DEF AnswerInv
<1>10. CASE CallReboot(n)
  <2>1. PICK type : PlainCall(n, "Reboot", type, Reboot(machine, type))
    BY <1>10, Zenon DEF CallReboot
  <2>2. PICK answer : answer = Reboot(mach, type)
    OBVIOUS
  <2>3. answer.status = "ok" => HostAnswered(mach, "Reboot", type, answer)
    <3>1. answer.status = "ok" => answer = Ok([ids |-> <<>>])
      BY <2>2 DEF Reboot, Error
    <3>2. answer.status = "ok" => answer.value.ids = <<>>
      BY <3>1 DEF Ok
    <3> QED
      BY <3>2, NoIdentifiers DEF HostAnswered
  <2>4. Call(n, "Reboot", type, answer)
    BY <1>1, <2>1, <2>2 DEF PlainCall
  <2> QED
    BY <1>1, <1>2, <2>3, <2>4, MethodKeeps
<1>11. CASE CallOther(n)
  <2>1. PICK m \in methods \ HostMethods : PlainCall(n, m, {}, Error)
    BY <1>11, Zenon DEF CallOther
  <2>2. Call(n, m, {}, Error)
    BY <2>1 DEF PlainCall
  <2>3. machine' = machine /\ reply'.answer.status # "ok"
    BY <2>2, CallAnswers DEF Error
  <2> QED
    BY <1>1, <2>3 DEF AnswerInv
<1> QED
  BY <1>3, <1>4, <1>5, <1>6, <1>7, <1>8, <1>9, <1>10, <1>11

\* Only calls answer, and the machine stays what it is.
LEMMA StepKeepsAnswer ==
  ASSUME AnswerInv, [Next]_vars
  PROVE  AnswerInv'
<1>1. ASSUME UNCHANGED machine, reply' = reply \/ reply' = <<>> PROVE AnswerInv'
  BY <1>1 DEF AnswerInv
<1>2. CASE Load
  BY <1>1, <1>2 DEF Load, hostVars, clientVars
<1>3. CASE Create
  BY <1>1, <1>3 DEF Create, Loaded, BeginClient, FinishClient, Return, AddBackend, hostVars
<1>4. CASE Calls
  <2>1. PICK n \in DOMAIN clients :
          \/ CallGetCpuInfo(n) \/ CallGetMemoryInfo(n) \/ CallMemoryConvert(n)
          \/ CallGetErrors(n) \/ CallGetStorageInfo(n) \/ CallGetNodeInfo(n)
          \/ CallGetHwInfo(n) \/ CallReboot(n) \/ CallOther(n) \/ CallGetVersion(n)
    BY <1>4 DEF Calls
  <2>2. CASE CallGetVersion(n)
    <3>1. UNCHANGED machine /\ reply'.answer.status # "ok"
      BY <2>2 DEF CallGetVersion, hostVars, Error
    <3> QED
      BY <3>1 DEF AnswerInv
  <2>3. CASE ~CallGetVersion(n)
    BY <2>1, <2>3, AnswersKeep
  <2> QED
    BY <2>2, <2>3
<1>5. CASE DmiTable
  BY <1>1, <1>5 DEF DmiTable
<1>6. CASE UNCHANGED vars
  BY <1>1, <1>6 DEF vars, hostVars, clientVars
<1> QED
  BY <1>2, <1>3, <1>4, <1>5, <1>6 DEF Next

\* Good answers are right, for every machine.
THEOREM GoodAnswers == Spec => []AnswerInv
<1>1. ClientInit => AnswerInv
  <2> SUFFICES ASSUME ClientInit PROVE AnswerInv
    OBVIOUS
  <2>1. PICK inputs \in Inputs : \E input \in inputs : machine \in input.machines
    BY DEF ClientInit
  <2>2. IsMachine(machine)
    BY <2>1, MachinesAssumption
  <2>3. reply = <<>>
    BY DEF ClientInit
  <2> QED
    BY <2>2, <2>3 DEF AnswerInv
<1>2. AnswerInv /\ [Next]_vars => AnswerInv'
  BY StepKeepsAnswer
<1> QED
  BY <1>1, <1>2, PTL DEF Spec

\* The renumbering of sockets and cores (cpu.cc:146-190) neither merges nor splits, on
\* any layout of processors, packages and NUMA nodes.
THEOREM TopologyAlways == Spec => []TopologyIsFaithful
<1>1. AnswerInv => TopologyIsFaithful
  <2> SUFFICES ASSUME AnswerInv, Answered("GetCpuInfo"), reply.answer.value.lpus # <<>>
               PROVE  TopologyRight(machine, reply.answer.value.lpus,
                                    reply.answer.value.counts)
    BY DEF TopologyIsFaithful, TopologyRight, OnlineOf, Online
  <2> QED
    BY DEF AnswerInv, Answered, HostAnswered
<1> QED
  BY <1>1, GoodAnswers, PTL

\* The errors reported are those of the log of the RAS daemon (error.cc:106-142,
\* host_backend.cc:175-223), whatever the daemon has logged.
THEOREM ErrorsAlways == Spec => []ErrorsAreThoseOfTheReport
<1>1. AnswerInv => ErrorsAreThoseOfTheReport
  <2> SUFFICES ASSUME AnswerInv, Answered("GetErrors")
               PROVE  ErrorsRight(machine, reply.request, reply.answer.value.errors)
    BY DEF ErrorsAreThoseOfTheReport, ErrorsRight, EndOf
  <2> QED
    BY DEF AnswerInv, Answered, HostAnswered
<1> QED
  BY <1>1, GoodAnswers, PTL

\* An id that an answer hands out resolves to its identifier, or is refused
\* (hw_info.cc:83-115), whatever texts the machine's tables and tools hold.
THEOREM IdsAlways == Spec => []IdsResolveToTheirIdentifier
<1>1. AnswerInv => IdsResolveToTheirIdentifier
  <2> SUFFICES ASSUME AnswerInv, reply # <<>>, reply.answer.status = "ok",
                      reply.method # "GetHwInfo",
                      NEW i \in DOMAIN reply.answer.value.ids
               PROVE  ResolvesRight(reply.answer.value.ids[i])
    BY DEF IdsResolveToTheirIdentifier, ResolvesRight
  <2>1. AreIdentifiers(reply.answer.value.ids)
    BY DEF AnswerInv, HostAnswered
  <2> QED
    BY <2>1, IdResolves DEF AreIdentifiers
<1> QED
  BY <1>1, GoodAnswers, PTL

\* Storage answers are complete (storage_info.cc:241-292), for any list of disks.
THEOREM StorageAlways == Spec => []StorageIsComplete
<1>1. AnswerInv => StorageIsComplete
  <2> SUFFICES ASSUME AnswerInv PROVE StorageIsComplete
    OBVIOUS
  <2>1. PICK m : m = machine /\ IsMachine(m)
    BY DEF AnswerInv
  <2>2. DOMAIN m.disks = 1..Len(m.disks) /\ Len(m.disks) \in Nat
    BY <2>1 DEF IsMachine, IsList
  <2>3. ASSUME Answered("GetStorageInfo")
        PROVE  LET infos == reply.answer.value.infos
                   have(type) == reply.request = {} \/ type \in reply.request
               IN  /\ Len(infos) = Len(machine.disks)
                   /\ \A i \in DOMAIN infos :
                        /\ have("IDENTIFIER") =>
                             infos[i].id[1].name = machine.disks[i].all.serial
                        /\ have("SECURITY_INFO") /\ machine.disks[i].security.enabled =>
                             infos[i].security[1].level = machine.disks[i].security.level
    <3>1. PICK types, answer : types = reply.request /\ answer = reply.answer
      OBVIOUS
    <3>2. StorageAnswered(m, types, answer)
      BY <2>1, <2>3, <3>1 DEF AnswerInv, Answered, HostAnswered
    <3>3. /\ Len(answer.value.infos) = Len(m.disks)
          /\ DOMAIN answer.value.infos = 1..Len(m.disks)
          /\ \A i \in DOMAIN answer.value.infos :
               /\ InfoTypeHave(types, "IDENTIFIER") =>
                    answer.value.infos[i].id =
                      <<Identifier(m.disks[i].all.serial, m.disks[i].type)>>
               /\ InfoTypeHave(types, "SECURITY_INFO") =>
                    answer.value.infos[i].security = <<SecurityInfo(m.disks[i].security)>>
      BY <3>2 DEF StorageAnswered
    <3>4. ASSUME NEW i \in DOMAIN answer.value.infos, InfoTypeHave(types, "IDENTIFIER")
          PROVE  answer.value.infos[i].id[1].name = m.disks[i].all.serial
      <4>1. PICK id : id = Identifier(m.disks[i].all.serial, m.disks[i].type)
        OBVIOUS
      <4>2. id.name = m.disks[i].all.serial
        BY <4>1 DEF Identifier
      <4>3. answer.value.infos[i].id = <<id>>
        BY <3>3, <3>4, <4>1
      <4> QED
        BY <4>2, <4>3
    <3>5. ASSUME NEW i \in DOMAIN answer.value.infos, InfoTypeHave(types, "SECURITY_INFO"),
                 m.disks[i].security.enabled
          PROVE  answer.value.infos[i].security[1].level = m.disks[i].security.level
      <4>1. PICK security : security = SecurityInfo(m.disks[i].security)
        OBVIOUS
      <4>2. security.level = m.disks[i].security.level
        BY <3>5, <4>1 DEF SecurityInfo
      <4>3. answer.value.infos[i].security = <<security>>
        BY <3>3, <3>5, <4>1
      <4> QED
        BY <4>2, <4>3
    <3> QED
      BY <2>1, <3>1, <3>3, <3>4, <3>5 DEF InfoTypeHave
  <2>4. ASSUME Answered("GetNodeInfo"), reply.request = {}
        PROVE  [i \in DOMAIN reply.answer.value.ids |-> reply.answer.value.ids[i].name]
                 = [i \in DOMAIN machine.disks |-> machine.disks[i].all.serial]
    <3>1. PICK ids : ids = reply.answer.value.ids
      OBVIOUS
    <3>2. ids = [i \in 1..Len(m.disks) |->
                   Identifier(m.disks[i].all.serial, m.disks[i].type)]
      BY <2>1, <2>4, <3>1 DEF AnswerInv, Answered, HostAnswered
    <3>3. DOMAIN ids = 1..Len(m.disks)
      BY <3>2
    <3>4. \A i \in 1..Len(m.disks) : ids[i].name = m.disks[i].all.serial
      BY <3>2 DEF Identifier
    <3>5. [i \in DOMAIN ids |-> ids[i].name] = [i \in DOMAIN m.disks |-> m.disks[i].all.serial]
      BY <2>2, <3>3, <3>4
    <3> QED
      BY <2>1, <3>1, <3>5
  <2> QED
    BY <2>3, <2>4 DEF StorageIsComplete
<1> QED
  BY <1>1, GoodAnswers, PTL
=============================================================================
