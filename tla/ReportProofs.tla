---------------------------- MODULE ReportProofs ----------------------------
(***************************************************************************)
(* Theorems about Report: whatever structs of the C++ types a program      *)
(* gives, reading the file back loses nothing (by an inverse law for each  *)
(* conversion), and whatever DutInfo objects it makes, references name     *)
(* what they were given for and the run starts once (by an invariant about *)
(* the current DutInfo, the references given out and the listed start).    *)
(***************************************************************************)
EXTENDS Report, FiniteSetTheorems, TLAPS

----------------------------------------------------------------------------
(* The converters undo one another.                                        *)

\* A value comes back with its type: no two alternatives of the variant are written the
\* same (VariantToProto, ProtoToVariant), and none as a list.
LEMMA VariantRoundTrip ==
  ASSUME NEW value \in Value
  PROVE  /\ ProtoToVariant(VariantToProto(value)) = value
         /\ VariantToProto(value).case # "list_value"
<1>1. /\ value.type \in {"string", "double", "bool"}
      /\ value = [type |-> value.type, v |-> value.v]
  BY DEF Value, Alternative
<1>2. \A type \in DOMAIN Alternative :
        Alternative[type] = Alternative[value.type] <=> type = value.type
  BY <1>1 DEF Alternative
<1>3. (CHOOSE type \in DOMAIN Alternative : Alternative[type] = Alternative[value.type])
        = value.type
  BY <1>1, <1>2 DEF Alternative
<1>4. Alternative[value.type] # "list_value"
  BY <1>1 DEF Alternative
<1>. QED
  BY <1>1, <1>3, <1>4 DEF ProtoToVariant, VariantToProto

\* A validator comes back with its values, whether they are written as one value or as a
\* list.
LEMMA ValidatorRoundTrip ==
  ASSUME NEW v \in [type : ValidatorTypes, value : Seq(Value)]
  PROVE  ProtoToValidator(ValidatorToProto(v)) = v
<1>1. /\ v.value \in Seq(Value) /\ v = [type |-> v.type, value |-> v.value]
  OBVIOUS
<1>2. CASE Len(v.value) = 1
  <2>1. v.value[1] \in Value /\ v.value = <<v.value[1]>>
    BY <1>1, <1>2
  <2>. QED
    BY <1>1, <1>2, <2>1, VariantRoundTrip DEF ProtoToValidator, ValidatorToProto
<1>3. CASE Len(v.value) # 1
  <2>1. \A i \in DOMAIN v.value : v.value[i] \in Value
    BY <1>1
  <2>2. [i \in DOMAIN v.value |-> ProtoToVariant(VariantToProto(v.value[i]))] = v.value
    BY <1>1, <2>1, VariantRoundTrip
  <2>. QED
    BY <1>1, <1>3, <2>2 DEF ProtoToValidator, ValidatorToProto
<1>. QED
  BY <1>2, <1>3

\* So does a list of validators.
LEMMA ValidatorsRoundTrip ==
  ASSUME NEW vs \in Validators
  PROVE  [i \in DOMAIN vs |-> ProtoToValidator(ValidatorToProto(vs[i]))] = vs
<1>. DEFINE V == [type : ValidatorTypes, value : Seq(Value)]
<1>0. vs \in Seq(V)
  BY DEF Validators
<1>1. \A i \in DOMAIN vs : vs[i] \in V
  <2>. HIDE DEF V
  <2>. QED
    BY <1>0
<1>2. \A i \in DOMAIN vs : ProtoToValidator(ValidatorToProto(vs[i])) = vs[i]
  BY <1>1, ValidatorRoundTrip
<1>3. [i \in DOMAIN vs |-> ProtoToValidator(ValidatorToProto(vs[i]))] =
        [i \in DOMAIN vs |-> vs[i]]
  BY <1>2
<1>4. vs = [i \in DOMAIN vs |-> vs[i]]
  BY DEF Validators
<1>. QED
  BY <1>3, <1>4

\* The one spelling a JSON text comes back in; the text of Declared.
Spelled(json) == IF json \in {"", "{}"} THEN "{}" ELSE "{a}"

\* A JSON text comes back in that spelling (JsonToProtoOrDie, ProtoToJsonOrDie).
LEMMA JsonRoundTrip ==
  ASSUME NEW json
  PROVE  ProtoToJsonOrDie(JsonToProtoOrDie(json)) = Spelled(json)
  BY DEF ProtoToJsonOrDie, JsonToProtoOrDie, Spelled

\* The infos of one sort in a DutInfo, and what a DutInfo is.
Infos == Seq([name : Names, id : Nat])
DutInfos ==
  [number : Nat, hardware : Infos, software : Infos, platform : Infos, json : JsonTexts]

\* A DutInfo comes back as it was but for the spelling of its JSON.
LEMMA DutInfoRoundTrip ==
  ASSUME NEW d \in DutInfos
  PROVE  ProtoToDutInfo(DutInfoToProto(d)) = [d EXCEPT !.json = Spelled(@)]
  BY JsonRoundTrip DEF ProtoToDutInfo, DutInfoToProto, DutInfos

\* What the start of a run is written from.
RunStarts == [kind : {"TestRunStart"}, json : JsonTexts, dut : Optional(DutInfos)]

\* Each field of a struct comes back as Declared says.
LEMMA FieldRoundTrip ==
  ASSUME NEW x \in Struct \cup RunStarts, NEW f \in DOMAIN x
  PROVE  FieldToStruct(f, FieldToProto(f, x[f])) = Declared(x)[f]
<1>1. CASE f = "hardware_info"
  BY <1>1 DEF FieldToStruct, FieldToProto, Declared
<1>2. CASE f = "software_infos"
  BY <1>2 DEF FieldToStruct, FieldToProto, Declared
<1>3. CASE f = "validators"
  <2>1. x.validators \in Validators
    BY <1>3 DEF Struct, RunStarts
  <2>2. [i \in DOMAIN x[f] |-> ProtoToValidator(ValidatorToProto(x[f][i]))] = x[f]
    BY <1>3, <2>1, ValidatorsRoundTrip
  <2>. QED
    BY <1>3, <2>2 DEF FieldToStruct, FieldToProto, Declared
<1>4. CASE f = "value"
  <2>1. x[f] \in Value
    BY <1>4 DEF Struct, RunStarts
  <2>. QED
    BY <1>4, <2>1, VariantRoundTrip DEF FieldToStruct, FieldToProto, Declared
<1>5. CASE f = "json"
  BY <1>5, JsonRoundTrip DEF FieldToStruct, FieldToProto, Declared, Spelled
<1>6. CASE f = "timestamp"
  BY <1>6 DEF FieldToStruct, FieldToProto, Declared
<1>7. CASE f = "dut"
  <2>1. x[f] \in Optional(DutInfos)
    BY <1>7 DEF Struct, RunStarts
  <2>2. CASE x[f] = <<>>
    BY <1>7, <2>2 DEF FieldToStruct, FieldToProto, Declared
  <2>3. CASE x[f] # <<>>
    <3>1. x[f][1] \in DutInfos /\ 1 \in DOMAIN x[f]
      BY <2>1, <2>3 DEF Optional
    <3>2. FieldToStruct(f, FieldToProto(f, x[f])) = ProtoToDutInfo(DutInfoToProto(x[f][1]))
      BY <1>7, <3>1 DEF FieldToStruct, FieldToProto
    <3>. QED
      BY <1>7, <2>3, <3>1, <3>2, DutInfoRoundTrip DEF Declared, Spelled
  <2>. QED
    BY <2>2, <2>3
<1>8. CASE f \notin {"hardware_info", "software_infos", "validators", "value", "json",
                     "timestamp", "dut"}
  BY <1>8 DEF FieldToStruct, FieldToProto, Declared
<1>. QED
  BY <1>1, <1>2, <1>3, <1>4, <1>5, <1>6, <1>7, <1>8

\* A struct comes back as Declared says.
LEMMA RoundTrip ==
  ASSUME NEW x \in Struct \cup RunStarts
  PROVE  ProtoToStruct(StructToProto(x)) = Declared(x)
<1>1. ProtoToStruct(StructToProto(x)) =
        [f \in DOMAIN x |-> FieldToStruct(f, FieldToProto(f, x[f]))]
  BY DEF ProtoToStruct, StructToProto
<1>2. \A f \in DOMAIN x : FieldToStruct(f, FieldToProto(f, x[f])) = Declared(x)[f]
  BY FieldRoundTrip
<1>3. Declared(x) = [f \in DOMAIN x |-> Declared(x)[f]]
  BY DEF Declared
<1>. QED
  BY <1>1, <1>2, <1>3

----------------------------------------------------------------------------
(* What a step never breaks.                                               *)

\* The sorts of info.
Sorts == {"hardware", "software", "platform"}

\* At most one DutInfo exists, numbered by how many were made; the run owns one exactly
\* while it has started (test_run.cc:115-135).
DutInv ==
  /\ dut \in Optional(DutInfos) /\ duts \in Nat
  /\ owner \in {"caller", "run", "nobody"} /\ run \in {"created", "started", "ended"}
  /\ parameters \in JsonTexts
  /\ (dut = <<>>) <=> (owner = "nobody")
  /\ dut # <<>> => dut[1].number = duts
  /\ (owner = "run") <=> (run = "started")

\* Ids count the infos of a sort from 0 (int_incrementer.h).
NumberedByPosition(d) ==
  \A sort \in Sorts : \A j \in DOMAIN d[sort] : d[sort][j].id = j - 1

\* If reference h was given by the DutInfo d and d lists it, then under h's name.
NamedIn(d, h) == h.dut = d.number /\ h.id < Len(d[h.sort]) => d[h.sort][h.id + 1].name = h.name

\* References come from a DutInfo that was made.
HandleInv ==
  /\ handles \subseteq Registered("hardware") \cup Registered("software")
  /\ \A h \in handles : h.dut <= duts

\* The current DutInfo lists all that it gave a reference to, at the place of the id.
CurrentInv ==
  dut # <<>> =>
    /\ NumberedByPosition(dut[1])
    /\ \A h \in handles :
         h.dut = dut[1].number => h.id < Len(dut[1][h.sort]) /\ NamedIn(dut[1], h)

\* What the library writes of a caller's structs: valid ones, with references it gave.
Accepted(x, refs) == x \in Struct /\ IsValid(x) /\ HandlesIn(x) \subseteq refs

\* The file is the conversion of what was accepted.
GivenInv ==
  /\ file = [i \in DOMAIN given |-> StructToProto(given[i])]
  /\ given \in Seq(Struct \cup RunStarts)
  /\ \A i \in DOMAIN given : given[i] \in RunStarts \/ Accepted(given[i], handles)

\* At most one start was written, and none before the run has started.
StartsInv ==
  \A i, k \in DOMAIN given :
    given[i].kind = "TestRunStart" =>
      run # "created" /\ (given[k].kind = "TestRunStart" => i = k)

\* A DutInfo that a start lists: later objects have other numbers, so a reference with
\* its number is one of its own; and while it exists it only grows, so references it
\* gave after the start have ids the start does not list.
ListedInv ==
  \A k \in DOMAIN given :
    given[k].kind = "TestRunStart" /\ given[k].dut # <<>> =>
      LET d == given[k].dut[1] IN
        /\ d.number <= duts
        /\ NumberedByPosition(d)
        /\ \A h \in handles : NamedIn(d, h)
        /\ dut # <<>> /\ dut[1].number = d.number =>
             \A sort \in Sorts : Len(d[sort]) <= Len(dut[1][sort])

\* The inductive invariant.
IInv == DutInv /\ HandleInv /\ CurrentInv /\ GivenInv /\ StartsInv /\ ListedInv

\* A DutInfo with one more info.
Added(d, sort, info) == [d EXCEPT ![sort] = Append(@, info)]

\* Adding an info appends to its sort and leaves the rest.
LEMMA AddedInfo ==
  ASSUME NEW d \in DutInfos, NEW sort \in Sorts, NEW info \in [name : Names, id : Nat]
  PROVE  LET e == Added(d, sort, info)
         IN  /\ e \in DutInfos /\ e.number = d.number
             /\ e[sort] = Append(d[sort], info)
             /\ \A other \in Sorts \ {sort} : e[other] = d[other]
<1>1. \A s \in Sorts : d[s] \in Infos
  BY DEF DutInfos, Sorts
<1>2. Append(d[sort], info) \in Infos
  <2>. DEFINE I == [name : Names, id : Nat]
  <2>1. d[sort] \in Seq(I) /\ info \in I
    BY <1>1 DEF Infos
  <2>2. Append(d[sort], info) \in Seq(I)
    <3>. HIDE DEF I
    <3>. QED
      BY <2>1
  <2>. QED
    BY <2>2 DEF Infos
<1>3. CASE sort = "hardware"
  BY <1>2, <1>3 DEF DutInfos, Sorts, Added
<1>4. CASE sort = "software"
  BY <1>2, <1>4 DEF DutInfos, Sorts, Added
<1>5. CASE sort = "platform"
  BY <1>2, <1>5 DEF DutInfos, Sorts, Added
<1>. QED
  BY <1>3, <1>4, <1>5 DEF Sorts

\* The one member of an optional DutInfo.
LEMMA TheDutInfo ==
  ASSUME NEW o \in Optional(DutInfos), o # <<>>
  PROVE  /\ o[1] \in DutInfos /\ o = <<o[1]>> /\ DOMAIN o = {1}
         /\ o[1].number \in Nat
         /\ \A sort \in Sorts : o[1][sort] \in Infos
<1>1. o \in Seq(DutInfos) /\ Len(o) = 1
  <2>1. o \in Seq(DutInfos) /\ Len(o) <= 1
    BY DEF Optional
  <2>2. Len(o) # 0
    BY <2>1
  <2>. QED
    BY <2>1, <2>2
<1>2. o[1] \in DutInfos /\ o = <<o[1]>> /\ DOMAIN o = {1}
  BY <1>1
<1>. QED
  BY <1>2 DEF DutInfos, Sorts

\* Write appends to the file and its history alike.
LEMMA WriteKeepsTheFile ==
  ASSUME GivenInv, NEW x \in Struct \cup RunStarts, Write(x)
  PROVE  /\ file' = [i \in DOMAIN given' |-> StructToProto(given'[i])]
         /\ given' \in Seq(Struct \cup RunStarts)
         /\ DOMAIN given' = DOMAIN given \cup {Len(given) + 1}
         /\ \A i \in DOMAIN given : given'[i] = given[i]
         /\ given'[Len(given) + 1] = x
         /\ Len(given) + 1 \notin DOMAIN given
<1>. DEFINE S == Struct \cup RunStarts
<1>1. /\ given \in Seq(S) /\ x \in S
      /\ file = [i \in DOMAIN given |-> StructToProto(given[i])]
      /\ file' = Append(file, StructToProto(x)) /\ given' = Append(given, x)
  BY DEF GivenInv, Write
<1>. HIDE DEF S
<1>2. /\ given' \in Seq(S)
      /\ DOMAIN given' = DOMAIN given \cup {Len(given) + 1}
      /\ \A i \in DOMAIN given : given'[i] = given[i]
      /\ given'[Len(given) + 1] = x
      /\ Len(given) + 1 \notin DOMAIN given
  BY <1>1
<1>. DEFINE P == {StructToProto(y) : y \in S}
<1>3. file \in Seq(P) /\ Len(file) = Len(given) /\ StructToProto(x) \in P
  <2>1. \A i \in DOMAIN given : StructToProto(given[i]) \in P
    BY <1>1
  <2>. HIDE DEF P
  <2>2. DOMAIN given = 1..Len(given) /\ Len(given) \in Nat
    BY <1>1
  <2>3. PICK n \in Nat : n = Len(given) /\ DOMAIN given = 1..n
    BY <2>2
  <2>4. file \in [1..n -> P]
    BY <1>1, <2>1, <2>3
  <2>5. file \in Seq(P) /\ Len(file) = n
    BY <2>4
  <2>. QED
    BY <1>1, <2>3, <2>5 DEF P
<1>. HIDE DEF P
<1>4. /\ file' \in Seq(P) /\ DOMAIN file' = DOMAIN given'
      /\ \A i \in DOMAIN given : file'[i] = file[i]
      /\ file'[Len(given) + 1] = StructToProto(x)
  BY <1>1, <1>3
<1>5. \A i \in DOMAIN given' : file'[i] = StructToProto(given'[i])
  BY <1>1, <1>2, <1>4
<1>6. file' = [i \in DOMAIN file' |-> file'[i]]
  BY <1>4
<1>7. file' = [i \in DOMAIN given' |-> StructToProto(given'[i])]
  BY <1>4, <1>5, <1>6
<1>. QED
  BY <1>2, <1>7 DEF S

\* The invariant holds before anything is made.
LEMMA InitIInv == Init => IInv
<1>. SUFFICES ASSUME Init PROVE IInv
  OBVIOUS
<1>1. DutInv
  BY DEF Init, DutInv, Optional
<1>2. HandleInv /\ CurrentInv /\ GivenInv /\ StartsInv /\ ListedInv
  BY DEF Init, HandleInv, CurrentInv, GivenInv, StartsInv, ListedInv
<1>. QED
  BY <1>1, <1>2 DEF IInv

\* A new DutInfo has a number that no reference and no listed DutInfo has.
LEMMA NewDutInfoKeeps ==
  ASSUME IInv, NEW name \in Names, NEW json \in JsonTexts, NewDutInfo(name, json)
  PROVE  IInv'
<1>1. CASE Die
  BY <1>1 DEF Die, IInv, DutInv, HandleInv, CurrentInv, GivenInv, StartsInv, ListedInv, Accepted
<1>2. CASE dut = <<>> /\ Construct(json)
  <2>. DEFINE d == [number |-> duts + 1, hardware |-> <<>>, software |-> <<>>,
                    platform |-> <<>>, json |-> json]
  <2>1. /\ duts \in Nat /\ duts' = duts + 1 /\ owner' = "caller" /\ dut' = <<d>>
        /\ UNCHANGED <<handles, run, parameters, program, file, given>>
    BY <1>2 DEF Construct, IInv, DutInv
  <2>2. d \in DutInfos
    BY <2>1 DEF DutInfos, Infos
  <2>3. DutInv'
    <3>1. dut' \in Optional(DutInfos) /\ dut' # <<>> /\ dut'[1] = d
      BY <2>1, <2>2 DEF Optional
    <3>. QED
      BY <1>2, <2>1, <3>1 DEF IInv, DutInv
  <2>4. HandleInv'
    BY <2>1 DEF IInv, HandleInv, Registered
  <2>5. CurrentInv'
    <3>1. NumberedByPosition(d)
      BY DEF NumberedByPosition, Sorts
    <3>2. \A h \in handles : h.dut # d.number
      BY <2>1 DEF IInv, HandleInv, Registered
    <3>3. dut'[1] = d
      BY <2>1
    <3>. QED
      BY <2>1, <3>1, <3>2, <3>3 DEF CurrentInv
  <2>6. GivenInv' /\ StartsInv'
    BY <2>1 DEF IInv, GivenInv, StartsInv, Accepted
  <2>7. ListedInv'
    <3>. SUFFICES ASSUME NEW k \in DOMAIN given, given[k].kind = "TestRunStart",
                         given[k].dut # <<>>,
                         NEW l, l = given[k].dut[1]
                  PROVE  /\ l.number <= duts' /\ NumberedByPosition(l)
                         /\ \A h \in handles : NamedIn(l, h)
                         /\ l.number # d.number
      BY <2>1 DEF ListedInv
    <3>1. /\ l.number <= duts /\ NumberedByPosition(l)
          /\ \A h \in handles : NamedIn(l, h)
      BY DEF IInv, ListedInv
    <3>2. l.number \in Nat
      <4>1. given[k] \in RunStarts
        BY DEF IInv, GivenInv, Accepted, Struct
      <4>. QED
        BY <4>1, TheDutInfo DEF RunStarts
    <3>. QED
      BY <2>1, <3>1, <3>2
  <2>. QED
    BY <2>3, <2>4, <2>5, <2>6, <2>7 DEF IInv
<1>. QED
  BY <1>1, <1>2 DEF NewDutInfo

\* A DutInfo that is destroyed leaves its number unused.
LEMMA DropDutInfoKeeps ==
  ASSUME IInv, DropDutInfo
  PROVE  IInv'
<1>1. /\ owner = "caller" /\ dut' = <<>> /\ owner' = "nobody"
      /\ UNCHANGED <<duts, handles, run, parameters, program, file, given>>
  BY DEF DropDutInfo
<1>2. DutInv'
  BY <1>1 DEF IInv, DutInv, Optional
<1>3. HandleInv' /\ CurrentInv' /\ GivenInv' /\ StartsInv' /\ ListedInv'
  BY <1>1 DEF IInv, HandleInv, CurrentInv, GivenInv, StartsInv, ListedInv, Accepted
<1>. QED
  BY <1>2, <1>3 DEF IInv

\* The DutInfo of a start is one.
LEMMA ListedIsTyped ==
  ASSUME IInv, NEW k \in DOMAIN given, given[k].kind = "TestRunStart", given[k].dut # <<>>
  PROVE  /\ given[k] \in RunStarts
         /\ given[k].dut[1] \in DutInfos
         /\ given[k].dut[1].number \in Nat
         /\ \A sort \in Sorts : given[k].dut[1][sort] \in Infos
<1>1. given[k] \in RunStarts
  BY DEF IInv, GivenInv, Accepted, Struct
<1>. QED
  BY <1>1, TheDutInfo DEF RunStarts

\* An info that is added has the next id: one the current DutInfo does not list yet, and
\* a start that lists the same DutInfo does not either.
LEMMA AddInfoKeeps ==
  ASSUME IInv, NEW sort \in Sorts, NEW name \in Names, AddInfo(sort, name)
  PROVE  IInv'
<1>1. CASE Die
  BY <1>1 DEF Die, IInv, DutInv, HandleInv, CurrentInv, GivenInv, StartsInv, ListedInv, Accepted
<1>2. CASE name # ""
  <2>. DEFINE d == dut[1]
              id == NextInfoId(dut[1][sort])
              info == [name |-> name, id |-> id]
              e == [dut[1] EXCEPT ![sort] = Append(@, [name |-> name, id |-> id])]
              h0 == [dut |-> dut[1].number, sort |-> sort, name |-> name, id |-> id]
  <2>1. /\ dut # <<>>
        /\ dut' = [dut EXCEPT ![1] = e]
        /\ handles' = handles \cup IF sort = "platform" THEN {} ELSE {h0}
        /\ UNCHANGED <<owner, duts, run, parameters, program, file, given>>
    BY <1>2 DEF AddInfo
  <2>2. /\ d \in DutInfos /\ dut = <<d>> /\ DOMAIN dut = {1} /\ d.number \in Nat
        /\ \A s \in Sorts : d[s] \in Infos
    BY <2>1, TheDutInfo DEF IInv, DutInv
  <2>3. id = Len(d[sort]) /\ id \in Nat
    BY <2>2 DEF NextInfoId, Infos
  <2>4. /\ e \in DutInfos /\ e.number = d.number
        /\ e[sort] = Append(d[sort], info)
        /\ \A other \in Sorts \ {sort} : e[other] = d[other]
    <3>1. info \in [name : Names, id : Nat]
      BY <2>3
    <3>2. e = Added(d, sort, info)
      BY DEF Added
    <3>. HIDE DEF d, e, info
    <3>. QED
      BY <2>2, <3>1, <3>2, AddedInfo
  <2>5. dut' = <<e>>
    <3>. HIDE DEF d, e
    <3>. QED
      BY <2>1, <2>2
  <2>6. /\ Len(e[sort]) = Len(d[sort]) + 1 /\ Len(d[sort]) \in Nat
        /\ e[sort][Len(d[sort]) + 1] = info
        /\ \A j \in 1..Len(d[sort]) : e[sort][j] = d[sort][j]
        /\ DOMAIN e[sort] = 1..(Len(d[sort]) + 1) /\ DOMAIN d[sort] = 1..Len(d[sort])
    <3>. DEFINE S == [name : Names, id : Nat]
    <3>1. d[sort] \in Seq(S) /\ info \in S
      BY <2>2, <2>3 DEF Infos
    <3>. HIDE DEF d, e, S, info
    <3>. QED
      BY <2>4, <3>1
  <2>7. handles' \subseteq handles \cup {h0} /\ (sort = "platform" => handles' = handles)
        /\ handles \subseteq handles'
    BY <2>1
  <2>. HIDE DEF d, e, id
  <2>8. DutInv'
    <3>1. dut' \in Optional(DutInfos) /\ dut' # <<>> /\ dut'[1] = e
      BY <2>4, <2>5 DEF Optional
    <3>2. e.number = duts
      BY <2>1, <2>4 DEF IInv, DutInv, d
    <3>. QED
      BY <2>1, <3>1, <3>2 DEF IInv, DutInv
  <2>9. HandleInv'
    <3>1. CASE sort = "platform"
      BY <2>1, <2>7, <3>1 DEF IInv, HandleInv
    <3>2. CASE sort # "platform"
      <4>1. h0 \in Registered("hardware") \cup Registered("software")
        <5>1. /\ d.number \in Nat /\ id \in Nat /\ name \in Names
              /\ sort \in {"hardware", "software"}
          BY <2>2, <2>3, <3>2 DEF Sorts
        <5>2. h0 = [dut |-> d.number, sort |-> sort, name |-> name, id |-> id]
          BY DEF d, id
        <5>. QED
          BY <5>1, <5>2 DEF Registered
      <4>2. h0.dut <= duts
        BY <2>1, <2>2 DEF IInv, DutInv, d
      <4>. QED
        BY <2>1, <2>7, <4>1, <4>2 DEF IInv, HandleInv
    <3>. QED
      BY <3>1, <3>2
  <2>10. CurrentInv'
    <3>1. NumberedByPosition(d)
          /\ \A h \in handles :
               h.dut = d.number => h.id < Len(d[h.sort]) /\ NamedIn(d, h)
      BY <2>1 DEF IInv, CurrentInv, d
    <3>2. NumberedByPosition(e)
      <4>. SUFFICES ASSUME NEW s \in Sorts, NEW j \in DOMAIN e[s] PROVE e[s][j].id = j - 1
        BY DEF NumberedByPosition
      <4>1. CASE s = sort /\ j = Len(d[sort]) + 1
        BY <2>3, <2>6, <4>1 DEF id
      <4>2. CASE s = sort /\ j # Len(d[sort]) + 1
        <5>1. PICK n \in Nat : n = Len(d[sort]) /\ DOMAIN d[sort] = 1..n
          BY <2>6
        <5>2. j \in 1..(n + 1) /\ j # n + 1
          BY <2>6, <4>2, <5>1, Zenon
        <5>3. j \in 1..n
          BY <5>2
        <5>4. j \in DOMAIN d[sort] /\ e[s][j] = d[sort][j]
          BY <2>6, <4>2, <5>1, <5>3, Zenon
        <5>. QED
          BY <3>1, <4>2, <5>4, Zenon DEF NumberedByPosition
      <4>3. CASE s # sort
        BY <2>4, <3>1, <4>3 DEF NumberedByPosition
      <4>. QED
        BY <4>1, <4>2, <4>3
    <3>3. ASSUME NEW h \in handles', h.dut = e.number
          PROVE  h.id < Len(e[h.sort]) /\ NamedIn(e, h)
      <4>1. CASE h \in handles
        <5>1. h.dut = d.number /\ h.sort \in Sorts /\ h.id \in Nat
          BY <2>4, <3>3, <4>1 DEF IInv, HandleInv, Registered, Sorts
        <5>2. h.id < Len(d[h.sort]) /\ d[h.sort][h.id + 1].name = h.name
          BY <3>1, <4>1, <5>1 DEF NamedIn
        <5>3. CASE h.sort = sort
          <6>1. h.id + 1 \in 1..Len(d[sort]) /\ h.id < Len(e[sort])
            BY <2>6, <5>1, <5>2, <5>3
          <6>2. e[sort][h.id + 1] = d[sort][h.id + 1]
            BY <2>6, <6>1
          <6>. QED
            BY <5>2, <5>3, <6>1, <6>2 DEF NamedIn
        <5>4. CASE h.sort # sort
          BY <2>4, <5>1, <5>2, <5>4 DEF NamedIn
        <5>. QED
          BY <5>3, <5>4
      <4>2. CASE h = h0 /\ sort # "platform"
        <5>1. h.sort = sort /\ h.id = Len(d[sort]) /\ h.name = name
          BY <2>3, <4>2 DEF id
        <5>2. e[sort][Len(d[sort]) + 1].name = name
          BY <2>6
        <5>. QED
          BY <2>6, <5>1, <5>2 DEF NamedIn
      <4>. QED
        BY <2>7, <4>1, <4>2
    <3>. QED
      BY <2>5, <3>2, <3>3 DEF CurrentInv
  <2>11. GivenInv' /\ StartsInv'
    BY <2>1, <2>7 DEF IInv, GivenInv, StartsInv, Accepted
  <2>12. ListedInv'
    <3>. SUFFICES ASSUME NEW k \in DOMAIN given, given[k].kind = "TestRunStart",
                         given[k].dut # <<>>,
                         NEW l, l = given[k].dut[1]
                  PROVE  /\ l.number <= duts /\ NumberedByPosition(l)
                         /\ \A h \in handles' : NamedIn(l, h)
                         /\ e.number = l.number =>
                              \A s \in Sorts : Len(l[s]) <= Len(e[s])
      BY <2>1, <2>5 DEF ListedInv
    <3>1. /\ l.number <= duts /\ NumberedByPosition(l)
          /\ \A h \in handles : NamedIn(l, h)
          /\ d.number = l.number => \A s \in Sorts : Len(l[s]) <= Len(d[s])
      BY <2>1 DEF IInv, ListedInv, d
    <3>2. \A s \in Sorts : Len(l[s]) \in Nat /\ Len(d[s]) \in Nat
      BY <2>2, ListedIsTyped DEF Infos
    <3>3. sort # "platform" => NamedIn(l, h0)
      <4>. SUFFICES ASSUME h0.dut = l.number, h0.id < Len(l[h0.sort]) PROVE FALSE
        BY DEF NamedIn
      <4>1. d.number = l.number /\ id < Len(l[sort])
        BY DEF d, id
      <4>. QED
        BY <2>3, <3>1, <3>2, <4>1
    <3>4. ASSUME NEW s \in Sorts, e.number = l.number PROVE Len(l[s]) <= Len(e[s])
      <4>1. Len(l[s]) <= Len(d[s])
        BY <2>4, <3>1, <3>4
      <4>2. CASE s = sort
        BY <2>6, <3>2, <4>1, <4>2
      <4>3. CASE s # sort
        BY <2>4, <4>1, <4>3
      <4>. QED
        BY <4>2, <4>3
    <3>. QED
      BY <2>7, <3>1, <3>3, <3>4
  <2>. QED
    BY <2>8, <2>9, <2>10, <2>11, <2>12 DEF IInv
<1>. QED
  BY <1>1, <1>2 DEF AddInfo

\* Writing what was accepted, or a start, keeps GivenInv.
LEMMA WriteKeepsGiven ==
  ASSUME IInv, NEW x \in Struct \cup RunStarts, Write(x), handles' = handles,
         x \in RunStarts \/ Accepted(x, handles)
  PROVE  GivenInv'
<1>1. GivenInv
  BY DEF IInv
<1>2. /\ file' = [i \in DOMAIN given' |-> StructToProto(given'[i])]
      /\ given' \in Seq(Struct \cup RunStarts)
      /\ DOMAIN given' = DOMAIN given \cup {Len(given) + 1}
      /\ \A i \in DOMAIN given : given'[i] = given[i]
      /\ given'[Len(given) + 1] = x
  BY <1>1, WriteKeepsTheFile
<1>3. ASSUME NEW i \in DOMAIN given'
      PROVE  given'[i] \in RunStarts \/ Accepted(given'[i], handles')
  <2>1. CASE i \in DOMAIN given
    <3>1. given'[i] = given[i] /\ (given[i] \in RunStarts \/ Accepted(given[i], handles))
      BY <1>1, <1>2, <2>1 DEF GivenInv
    <3>. QED
      BY <3>1 DEF Accepted
  <2>2. CASE i = Len(given) + 1
    BY <1>2, <2>2 DEF Accepted
  <2>. QED
    BY <1>2, <2>1, <2>2
<1>. QED
  BY <1>2, <1>3 DEF GivenInv

\* What EmitStart writes is a start.
LEMMA RunStartIsOne ==
  ASSUME IInv, NEW o \in Optional(DutInfos)
  PROVE  /\ RunStart(o) \in RunStarts
         /\ RunStart(o).kind = "TestRunStart" /\ RunStart(o).dut = o
  BY DEF IInv, DutInv, RunStart, RunStarts

\* The start of a run that was only created is the first.
LEMMA FirstStart ==
  ASSUME IInv, run = "created", NEW o \in Optional(DutInfos), Write(RunStart(o)),
         run' # "created"
  PROVE  StartsInv'
<1>1. /\ DOMAIN given' = DOMAIN given \cup {Len(given) + 1}
      /\ \A i \in DOMAIN given : given'[i] = given[i]
      /\ given'[Len(given) + 1] = RunStart(o)
  BY RunStartIsOne, WriteKeepsTheFile DEF IInv
<1>2. \A i \in DOMAIN given : given'[i].kind # "TestRunStart"
  BY <1>1 DEF IInv, StartsInv
<1>. QED
  BY <1>1, <1>2 DEF StartsInv

\* StartAndRegisterDutInfo lists the current DutInfo, and only a created run gets here:
\* one that has started owns the DutInfo, so that no caller does.
LEMMA StartKeeps ==
  ASSUME IInv, StartAndRegisterDutInfo
  PROVE  IInv'
<1>1. CASE Die
  BY <1>1 DEF Die, IInv, DutInv, HandleInv, CurrentInv, GivenInv, StartsInv, ListedInv, Accepted
<1>2. CASE /\ owner = "caller"
           /\ owner' = "run" /\ run' = "started"
           /\ Write(RunStart(dut))
           /\ UNCHANGED <<dut, duts, handles, parameters, program>>
  <2>1. dut \in Optional(DutInfos) /\ dut # <<>> /\ dut[1].number = duts
    BY <1>2 DEF IInv, DutInv
  <2>2. run = "created"
    BY <1>2 DEF StartAndRegisterDutInfo, IInv, DutInv
  <2>3. RunStart(dut) \in RunStarts
    BY <2>1, RunStartIsOne
  <2>4. DutInv' /\ HandleInv' /\ CurrentInv'
    BY <1>2 DEF IInv, DutInv, HandleInv, CurrentInv
  <2>5. GivenInv'
    BY <1>2, <2>3, WriteKeepsGiven
  <2>6. StartsInv'
    <3>1. run' # "created"
      BY <1>2
    <3>. QED
      BY <1>2, <2>1, <2>2, <3>1, FirstStart
  <2>7. ListedInv'
    <3>1. /\ DOMAIN given' = DOMAIN given \cup {Len(given) + 1}
          /\ \A i \in DOMAIN given : given'[i] = given[i]
          /\ given'[Len(given) + 1] = RunStart(dut)
      BY <1>2, <2>3, WriteKeepsTheFile DEF IInv
    <3>2. \A i \in DOMAIN given : given'[i].kind # "TestRunStart"
      BY <2>2, <3>1 DEF IInv, StartsInv
    <3>3. RunStart(dut).dut = dut
      BY <2>1, RunStartIsOne
    <3>4. dut[1] \in DutInfos /\ \A sort \in Sorts : dut[1][sort] \in Infos
      BY <2>1, TheDutInfo
    <3>5. \A sort \in Sorts : Len(dut[1][sort]) \in Nat
      BY <3>4 DEF Infos
    <3>6. NumberedByPosition(dut[1]) /\ \A h \in handles : NamedIn(dut[1], h)
      <4>1. /\ NumberedByPosition(dut[1])
            /\ \A h \in handles : h.dut = dut[1].number => NamedIn(dut[1], h)
        BY <2>1 DEF IInv, CurrentInv
      <4>. QED
        BY <4>1 DEF NamedIn
    <3>7. dut[1].number <= duts
      BY <2>1 DEF IInv, DutInv
    <3>. QED
      BY <1>2, <3>1, <3>2, <3>3, <3>5, <3>6, <3>7 DEF ListedInv
  <2>. QED
    BY <2>4, <2>5, <2>6, <2>7 DEF IInv
<1>. QED
  BY <1>1, <1>2 DEF StartAndRegisterDutInfo

\* No struct of a caller is a start.
LEMMA StructsAreNoStarts ==
  ASSUME NEW x \in Struct
  PROVE  x.kind # "TestRunStart"
  BY DEF Struct

\* A struct is accepted or the program dies.
LEMMA AddKeeps ==
  ASSUME IInv, NEW x \in Struct, HandlesIn(x) \subseteq handles, Add(x)
  PROVE  IInv'
<1>1. CASE Die
  BY <1>1 DEF Die, IInv, DutInv, HandleInv, CurrentInv, GivenInv, StartsInv, ListedInv, Accepted
<1>2. CASE IsValid(x) /\ Write(x) /\ UNCHANGED <<dut, owner, duts, handles, run, parameters>>
  <2>1. DutInv' /\ HandleInv' /\ CurrentInv'
    BY <1>2 DEF IInv, DutInv, HandleInv, CurrentInv
  <2>2. GivenInv'
    BY <1>2, WriteKeepsGiven DEF Accepted
  <2>3. /\ DOMAIN given' = DOMAIN given \cup {Len(given) + 1}
        /\ \A i \in DOMAIN given : given'[i] = given[i]
        /\ given'[Len(given) + 1].kind # "TestRunStart"
    BY <1>2, WriteKeepsTheFile, StructsAreNoStarts DEF IInv
  <2>4. StartsInv'
    BY <1>2, <2>3 DEF IInv, StartsInv
  <2>5. ListedInv'
    BY <1>2, <2>3 DEF IInv, ListedInv
  <2>. QED
    BY <2>1, <2>2, <2>4, <2>5 DEF IInv
<1>. QED
  BY <1>1, <1>2 DEF Add

\* The end of a run that never started writes a start without a DutInfo.
LEMMA EndKeeps ==
  ASSUME IInv, End
  PROVE  IInv'
<1>1. CASE Die
  BY <1>1 DEF Die, IInv, DutInv, HandleInv, CurrentInv, GivenInv, StartsInv, ListedInv, Accepted
<1>2. CASE /\ run' = "ended"
           /\ IF run = "created" THEN Write(RunStart(<<>>)) ELSE UNCHANGED <<file, given>>
           /\ IF owner = "run" THEN dut' = <<>> /\ owner' = "nobody" ELSE UNCHANGED <<dut, owner>>
           /\ UNCHANGED <<duts, handles, parameters, program>>
  <2>1. <<>> \in Optional(DutInfos)
    BY DEF Optional
  <2>2. DutInv'
    BY <1>2, <2>1 DEF IInv, DutInv
  <2>3. HandleInv' /\ CurrentInv'
    BY <1>2 DEF IInv, HandleInv, CurrentInv
  <2>4. CASE run = "created"
    <3>1. RunStart(<<>>) \in RunStarts
      BY <2>1, RunStartIsOne
    <3>2. GivenInv'
      BY <1>2, <2>4, <3>1, WriteKeepsGiven
    <3>3. StartsInv'
      <4>1. run' # "created"
        BY <1>2
      <4>. QED
        BY <1>2, <2>1, <2>4, <4>1, FirstStart
    <3>4. ListedInv'
      <4>1. /\ DOMAIN given' = DOMAIN given \cup {Len(given) + 1}
            /\ \A i \in DOMAIN given : given'[i] = given[i]
            /\ given'[Len(given) + 1] = RunStart(<<>>)
        BY <1>2, <2>4, <3>1, WriteKeepsTheFile DEF IInv
      <4>2. \A i \in DOMAIN given : given'[i].kind # "TestRunStart"
        BY <2>4, <4>1 DEF IInv, StartsInv
      <4>3. RunStart(<<>>).dut = <<>>
        BY <2>1, RunStartIsOne
      <4>. QED
        BY <4>1, <4>2, <4>3 DEF ListedInv
    <3>. QED
      BY <2>2, <2>3, <3>2, <3>3, <3>4 DEF IInv
  <2>5. CASE run # "created"
    BY <1>2, <2>2, <2>3, <2>5 DEF IInv, GivenInv, StartsInv, ListedInv, Accepted
  <2>. QED
    BY <2>4, <2>5
<1>. QED
  BY <1>1, <1>2 DEF End

\* The invariant holds in every state, for every bound and set of arguments.
THEOREM IInvAlways == Spec => []IInv
<1>1. Init => IInv
  BY InitIInv
<1>2. IInv /\ [Next]_vars => IInv'
  <2>. SUFFICES ASSUME IInv, [Next]_vars PROVE IInv'
    OBVIOUS
  <2>0. ASSUME NEW name \in Names, NEW json \in JsonTexts, NewDutInfo(name, json) PROVE IInv'
    BY <2>0, NewDutInfoKeeps
  <2>1. CASE DropDutInfo
    BY <2>1, DropDutInfoKeeps
  <2>2. ASSUME NEW sort \in Sorts, NEW name \in Names, AddInfo(sort, name) PROVE IInv'
    BY <2>2, AddInfoKeeps
  <2>3. CASE StartAndRegisterDutInfo
    BY <2>3, StartKeeps
  <2>4. ASSUME NEW x \in Arguments(handles), x \in Struct, HandlesIn(x) \subseteq handles, Add(x)
        PROVE  IInv'
    BY <2>4, AddKeeps
  <2>5. CASE End
    BY <2>5, EndKeeps
  <2>6. CASE UNCHANGED vars
    BY <2>6 DEF vars, IInv, DutInv, HandleInv, CurrentInv, GivenInv, StartsInv, ListedInv, Accepted
  <2>. QED
    BY <2>0, <2>1, <2>2, <2>3, <2>4, <2>5, <2>6 DEF Next, Sorts
<1>. QED
  BY <1>1, <1>2, PTL DEF Spec

----------------------------------------------------------------------------
(* The properties of Report.                                               *)

\* What GivenInv says of one artifact.
LEMMA TheFile ==
  ASSUME IInv
  PROVE  /\ DOMAIN file = DOMAIN given
         /\ \A i \in DOMAIN given :
              /\ given[i] \in Struct \cup RunStarts
              /\ file[i] = StructToProto(given[i])
              /\ ProtoToStruct(file[i]) = Declared(given[i])
              /\ file[i].kind = given[i].kind
<1>1. GivenInv
  BY DEF IInv
<1>2. DOMAIN file = DOMAIN given
  BY <1>1 DEF GivenInv
<1>3. ASSUME NEW i \in DOMAIN given
      PROVE  /\ given[i] \in Struct \cup RunStarts
             /\ file[i] = StructToProto(given[i])
             /\ ProtoToStruct(file[i]) = Declared(given[i])
             /\ file[i].kind = given[i].kind
  <2>1. given[i] \in Struct \cup RunStarts
    BY <1>1, <1>3 DEF GivenInv, Accepted
  <2>2. file[i] = StructToProto(given[i])
    BY <1>1, <1>3 DEF GivenInv
  <2>3. "kind" \in DOMAIN given[i]
    BY <2>1 DEF Struct, RunStarts
  <2>4. file[i].kind = given[i].kind
    BY <2>2, <2>3 DEF StructToProto, FieldToProto
  <2>. QED
    BY <2>1, <2>2, <2>4, RoundTrip
<1>. QED
  BY <1>2, <1>3

\* Nothing that was accepted is lost in the file: struct_to_proto.cc and
\* proto_to_struct.cc agree on every valid struct, not only on those the run tries.
THEOREM NothingLostAlways == Spec => []NothingLostInTheFile
<1>1. IInv => NothingLostInTheFile
  BY TheFile DEF NothingLostInTheFile
<1>. QED
  BY <1>1, IInvAlways, PTL

\* A set without two different members has at most one.
LEMMA AtMostOne ==
  ASSUME NEW S, \A i, k \in S : i = k
  PROVE  IsFiniteSet(S) /\ Cardinality(S) <= 1
<1>1. CASE S = {}
  BY <1>1, FS_EmptySet
<1>2. CASE S # {}
  <2>1. PICK i \in S : TRUE
    BY <1>2
  <2>2. S = {i}
    BY <2>1
  <2>3. IsFiniteSet({i}) /\ Cardinality({i}) = 1
    BY FS_Singleton
  <2>. QED
    BY <2>2, <2>3
<1>. QED
  BY <1>1, <1>2

\* The file has at most one start, although StartAndRegisterDutInfo does not ask whether
\* the run has started (test_run.cc:115-122).
THEOREM OneTestRunStartAlways == Spec => []OneTestRunStart
<1>1. IInv => OneTestRunStart
  <2>. SUFFICES ASSUME IInv PROVE OneTestRunStart
    OBVIOUS
  <2>. DEFINE S == {i \in DOMAIN file : file[i].kind = "TestRunStart"}
  <2>1. \A i, k \in S : i = k
    BY TheFile DEF IInv, StartsInv
  <2>. HIDE DEF S
  <2>2. Cardinality(S) <= 1
    BY <2>1, AtMostOne
  <2>. QED
    BY <2>2 DEF S, OneTestRunStart
<1>. QED
  BY <1>1, IInvAlways, PTL

\* A reference in a struct is an id of its sort in the artifact.
LEMMA SentReferenceIsWritten ==
  ASSUME NEW x \in Struct \cup RunStarts, NEW h \in HandlesIn(x)
  PROVE  /\ h.sort \in {"hardware", "software"}
         /\ h.id \in Nat
         /\ h.id \in IdsIn(Declared(x), h.sort)
<1>1. PICK f \in {"hardware_info", "software_infos"} \cap DOMAIN x :
        \E k \in DOMAIN x[f] : h = x[f][k]
  BY DEF HandlesIn
<1>2. PICK k \in DOMAIN x[f] : h = x[f][k]
  BY <1>1
<1>3. CASE f = "hardware_info"
  <2>1. x.hardware_info \in Optional(Registered("hardware")) /\ f \in DOMAIN x
    BY <1>1, <1>3 DEF Struct, RunStarts, HardwareInfo
  <2>2. k = 1 /\ x.hardware_info # <<>> /\ h \in Registered("hardware")
    <3>. DEFINE R == Registered("hardware")
    <3>1. x.hardware_info \in Seq(R) /\ Len(x.hardware_info) <= 1
      BY <2>1 DEF Optional
    <3>. HIDE DEF R
    <3>2. k \in 1..Len(x.hardware_info) /\ h \in R
      BY <1>2, <1>3, <3>1
    <3>. QED
      BY <3>1, <3>2 DEF R
  <2>3. h.sort = "hardware" /\ h.id \in Nat
    BY <2>2 DEF Registered
  <2>4. Declared(x).hardware_info = h.id /\ "hardware_info" \in DOMAIN Declared(x)
    BY <1>2, <1>3, <2>1, <2>2 DEF Declared
  <2>. QED
    BY <2>3, <2>4 DEF IdsIn, NoId
<1>4. CASE f = "software_infos"
  <2>1. x.software_infos \in Seq(Registered("software")) /\ f \in DOMAIN x
    BY <1>1, <1>4 DEF Struct, RunStarts, SoftwareInfos
  <2>2. h \in Registered("software")
    <3>. DEFINE R == Registered("software")
    <3>. HIDE DEF R
    <3>1. x.software_infos \in Seq(R)
      BY <2>1 DEF R
    <3>2. h \in R
      BY <1>2, <1>4, <3>1
    <3>. QED
      BY <3>2 DEF R
  <2>3. h.sort = "software" /\ h.id \in Nat
    BY <2>2 DEF Registered
  <2>4. /\ "software_infos" \in DOMAIN Declared(x)
        /\ Declared(x).software_infos = [j \in DOMAIN x.software_infos |-> x.software_infos[j].id]
    BY <1>4, <2>1 DEF Declared
  <2>5. h.id = Declared(x).software_infos[k] /\ k \in DOMAIN Declared(x).software_infos
    BY <1>2, <1>4, <2>4
  <2>. QED
    BY <2>3, <2>4, <2>5 DEF IdsIn
<1>. QED
  BY <1>1, <1>3, <1>4

\* References name one info of the listed DutInfo, the one they were given for
\* (dut_info.h:20-22), for any number of DutInfo objects and infos.
THEOREM ReferencesResolveAlways == Spec => []ReferencesResolve
<1>1. IInv => ReferencesResolve
  <2>. SUFFICES ASSUME IInv,
                       NEW i \in DOMAIN file, NEW k \in DOMAIN file,
                       file[k].kind = "TestRunStart", file[k].dut # <<>>,
                       NEW h \in HandlesIn(given[i]),
                       NEW listed, listed = file[k].dut[1][h.sort],
                       h.dut = file[k].dut[1].number, h.id < Len(listed),
                       NEW same, same = {j \in DOMAIN listed : listed[j].id = h.id}
                PROVE  /\ Cardinality(same) = 1
                       /\ \A j \in same : listed[j].name = h.name
                       /\ h.id \in IdsIn(ProtoToStruct(file[i]), h.sort)
    BY DEF ReferencesResolve
  <2>1. /\ i \in DOMAIN given /\ k \in DOMAIN given
        /\ given[i] \in Struct \cup RunStarts
        /\ ProtoToStruct(file[i]) = Declared(given[i])
        /\ given[k].kind = "TestRunStart"
        /\ file[k] = StructToProto(given[k])
    BY TheFile
  <2>2. given[k] \in RunStarts
    BY <2>1, StructsAreNoStarts, TheFile
  <2>3. file[k].dut = [j \in DOMAIN given[k].dut |-> DutInfoToProto(given[k].dut[j])]
    BY <2>1, <2>2 DEF StructToProto, FieldToProto, RunStarts
  <2>4. given[k].dut \in Optional(DutInfos)
    BY <2>2 DEF RunStarts
  <2>5. given[k].dut # <<>>
    <3>1. PICK u : u = given[k].dut
      OBVIOUS
    <3>2. [j \in DOMAIN u |-> DutInfoToProto(u[j])] # <<>>
      BY <2>3, <3>1
    <3>3. u # <<>>
      BY <3>2
    <3>. QED
      BY <3>1, <3>3
  <2>. DEFINE d == given[k].dut[1]
  <2>6. d \in DutInfos /\ DOMAIN given[k].dut = {1} /\ \A sort \in Sorts : d[sort] \in Infos
    BY <2>4, <2>5, TheDutInfo
  <2>7. file[k].dut[1] = DutInfoToProto(d)
    BY <2>3, <2>6
  <2>8. /\ h.sort \in {"hardware", "software"} /\ h.id \in Nat
        /\ h.id \in IdsIn(Declared(given[i]), h.sort)
    BY <2>1, SentReferenceIsWritten
  <2>9. listed = d[h.sort] /\ h.dut = d.number
    BY <2>6, <2>7, <2>8 DEF DutInfoToProto, DutInfos
  <2>10. /\ NumberedByPosition(d)
         /\ \A g \in handles : NamedIn(d, g)
    BY <2>1, <2>5 DEF IInv, ListedInv
  <2>11. h \in handles
    <3>1. given[i] \in RunStarts => HandlesIn(given[i]) = {}
      BY DEF RunStarts, HandlesIn
    <3>. QED
      BY <2>1, <3>1 DEF IInv, GivenInv, Accepted
  <2>12. listed[h.id + 1].name = h.name
    BY <2>9, <2>10, <2>11 DEF NamedIn
  <2>13. DOMAIN listed = 1..Len(listed) /\ Len(listed) \in Nat
    <3>1. listed \in Infos
      BY <2>6, <2>8, <2>9, Zenon DEF Sorts
    <3>. QED
      BY <3>1 DEF Infos
  <2>14. \A j \in DOMAIN listed : listed[j].id = j - 1
    BY <2>8, <2>9, <2>10 DEF NumberedByPosition, Sorts
  <2>15. same = {h.id + 1}
    <3>1. h.id + 1 \in DOMAIN listed
      BY <2>8, <2>13
    <3>2. \A j \in DOMAIN listed : j \in Int /\ (j - 1 = h.id <=> j = h.id + 1)
      BY <2>8, <2>13
    <3>3. \A j \in DOMAIN listed : listed[j].id = h.id <=> j = h.id + 1
      BY <2>14, <3>2
    <3>. QED
      BY <3>1, <3>3
  <2>16. Cardinality(same) = 1
    BY <2>15, FS_Singleton
  <2>. QED
    BY <2>1, <2>8, <2>12, <2>15, <2>16
<1>. QED
  BY <1>1, IInvAlways, PTL

\* What a reader finds of a written series or measurement.
LEMMA AcceptedReads ==
  ASSUME IInv, NEW i \in DOMAIN file, file[i].kind \in {"SeriesStart", "Measurement"}
  PROVE  /\ i \in DOMAIN given
         /\ given[i] \in Struct /\ IsValid(given[i])
         /\ given[i].kind = file[i].kind
         /\ ProtoToStruct(file[i]).kind = given[i].kind
         /\ ProtoToStruct(file[i]).validators = given[i].validators
         /\ given[i].validators \in Validators
         /\ given[i].kind = "Measurement" =>
              /\ ProtoToStruct(file[i]).value = given[i].value
              /\ given[i].value \in Value
<1>1. /\ i \in DOMAIN given
      /\ given[i].kind = file[i].kind
      /\ ProtoToStruct(file[i]) = Declared(given[i])
  BY TheFile
<1>2. given[i] \notin RunStarts
  BY <1>1 DEF RunStarts
<1>3. given[i] \in Struct /\ IsValid(given[i])
  BY <1>1, <1>2 DEF IInv, GivenInv, Accepted
<1>4. /\ {"kind", "validators"} \subseteq DOMAIN given[i]
      /\ given[i].validators \in Validators
      /\ given[i].kind = "Measurement" => "value" \in DOMAIN given[i] /\ given[i].value \in Value
  BY <1>1, <1>3 DEF Struct
<1>. QED
  BY <1>1, <1>3, <1>4 DEF Declared

\* What ValidatorsAreValid says of the values.
LEMMA ValuesOfValidators ==
  ASSUME NEW vs \in Validators, NEW type, ValidatorsAreValid(vs, type)
  PROVE  \A j \in DOMAIN vs :
           vs[j].value # <<>> /\ \A k \in DOMAIN vs[j].value : vs[j].value[k].type = type
  BY DEF ValidatorsAreValid, ValidatorIsValid

\* The types of the values of ValidatorsAreOfOneType.
TypesIn(x) ==
  LET values == UNION {{x.validators[j].value[k] : k \in DOMAIN x.validators[j].value} :
                         j \in DOMAIN x.validators}
  IN  {v.type : v \in values} \cup IF x.kind = "Measurement" THEN {x.value.type} ELSE {}

\* The validators of a written series or measurement have values, all of one type: what
\* SetAndCheckSeriesType reads without looking is there (measurement_series.cc:33-37).
THEOREM ValidatorsAreOfOneTypeAlways == Spec => []ValidatorsAreOfOneType
<1>1. IInv => ValidatorsAreOfOneType
  <2>. SUFFICES ASSUME IInv, NEW i \in DOMAIN file,
                       file[i].kind \in {"SeriesStart", "Measurement"},
                       NEW x, x = ProtoToStruct(file[i])
                PROVE  /\ \A j \in DOMAIN x.validators : x.validators[j].value # <<>>
                       /\ Cardinality(TypesIn(x)) <= 1
    BY DEF ValidatorsAreOfOneType, TypesIn
  <2>1. /\ given[i] \in Struct /\ IsValid(given[i])
        /\ given[i].kind \in {"SeriesStart", "Measurement"}
        /\ x.kind = given[i].kind
        /\ x.validators = given[i].validators /\ x.validators \in Validators
        /\ given[i].kind = "Measurement" => x.value = given[i].value
    BY AcceptedReads
  <2>2. PICK type : /\ ValidatorsAreValid(x.validators, type)
                    /\ x.kind = "Measurement" => x.value.type = type
    BY <2>1 DEF IsValid
  <2>3. \A j \in DOMAIN x.validators :
          /\ x.validators[j].value # <<>>
          /\ \A k \in DOMAIN x.validators[j].value : x.validators[j].value[k].type = type
    BY <2>1, <2>2, ValuesOfValidators
  <2>4. \A s \in TypesIn(x) : s = type
    BY <2>2, <2>3 DEF TypesIn
  <2>5. Cardinality(TypesIn(x)) <= 1
    BY <2>4, AtMostOne
  <2>. QED
    BY <2>3, <2>5
<1>. QED
  BY <1>1, IInvAlways, PTL

\* Inclusive limits accept what lies within them.
LEMMA InclusiveLimits ==
  ASSUME NEW lower \in Int, NEW upper \in Int, NEW n \in Int,
         NEW vs, vs = Limits(lower, "GreaterThanOrEqual", upper, "LessThanOrEqual")
  PROVE  (\A j \in DOMAIN vs : Accepts(vs[j], n)) <=> (lower <= n /\ n <= upper)
<1>1. DOMAIN vs = {1, 2}
  BY DEF Limits
<1>2. Accepts(vs[1], n) <=> lower <= n
  BY DEF Limits, Accepts, Double
<1>3. Accepts(vs[2], n) <=> n <= upper
  BY DEF Limits, Accepts, Double
<1>. QED
  BY <1>1, <1>2, <1>3

\* A measurement with inclusive limits reads as good exactly within them
\* (input_model_helpers.cc:39-55), for all limits.
THEOREM InclusiveLimitsDecideForAll == Spec => []InclusiveLimitsDecideFor(Int)
<1>1. IInv => InclusiveLimitsDecideFor(Int)
  <2>. SUFFICES ASSUME IInv, NEW i \in DOMAIN file, NEW lower \in Int, NEW upper \in Int,
                       file[i].kind = "Measurement", lower <= upper,
                       given[i].validators = ValidateWithinInclusiveLimits(lower, upper)
                PROVE  Good(i) <=> ProtoToStruct(file[i]).value.v \in lower..upper
    BY ZenonT(60) DEF InclusiveLimitsDecideFor
  <2>1. PICK x : x = ProtoToStruct(file[i])
    OBVIOUS
  <2>2. /\ x.validators = given[i].validators
        /\ x.value.v \in Int /\ lower \in Int /\ upper \in Int
    BY <2>1, AcceptedReads DEF Value
  <2>3. x.validators = Limits(lower, "GreaterThanOrEqual", upper, "LessThanOrEqual")
    BY <2>2 DEF ValidateWithinInclusiveLimits
  <2>4. (\A j \in DOMAIN x.validators : Accepts(x.validators[j], x.value.v))
          <=> (lower <= x.value.v /\ x.value.v <= upper)
    BY <2>2, <2>3, InclusiveLimits
  <2>5. Good(i) <=> (lower <= x.value.v /\ x.value.v <= upper)
    BY <2>1, <2>4 DEF Good
  <2>6. x.value.v \in lower..upper <=> (lower <= x.value.v /\ x.value.v <= upper)
    BY <2>2
  <2>. QED
    BY <2>1, <2>5, <2>6
<1>. QED
  BY <1>1, IInvAlways, PTL

\* So it does for the limits that the run uses.
THEOREM InclusiveLimitsDecideAlways == Spec => []InclusiveLimitsDecide
<1>1. InclusiveLimitsDecideFor(Int) => InclusiveLimitsDecide
  BY DEF InclusiveLimitsDecideFor, InclusiveLimitsDecide
<1>. QED
  BY <1>1, InclusiveLimitsDecideForAll, PTL

=============================================================================
