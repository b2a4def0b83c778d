------------------------------- MODULE Report -------------------------------
(***************************************************************************)
(* What a program gives the results library and what a reader of the file  *)
(* gets: the DUT information and its references (dut_info.cc), the         *)
(* validation of arguments (struct_validators.cc), their conversion to     *)
(* artifacts and back (struct_to_proto.cc, proto_to_struct.cc) and the     *)
(* helpers that make arguments (input_model_helpers.cc).                   *)
(*                                                                         *)
(* One thread and one test run: TestRun.tla and TestStep.tla have the      *)
(* threads and the order of calls.  `name` is the required text of a       *)
(* struct, the contents of a value are numbers whatever its type; texts    *)
(* that are only copied are left out.                                      *)
(***************************************************************************)
EXTENDS Integers, FiniteSets, Sequences, SequencesExt

CONSTANTS
  Arguments(_),           \* what a program may pass, given its references
  Names,                  \* names a program registers; the empty one kills it
  JsonTexts,              \* texts given for the JSON of a run or DutInfo
  MaxInfos,               \* bound: infos in a DutInfo
  MaxDuts,                \* bound: DutInfo objects made
  MaxArtifacts            \* bound: artifacts of the file

VARIABLES
  dut,                    \* the DutInfo object that exists, or <<>>
  owner,                  \* "caller", "run" or "nobody" owns it
  duts,                   \* how many were made
  handles,                \* the references handed out
  run,                    \* "created", "started" or "ended"
  parameters,             \* the JSON text the run was made with
  program,                \* "running" or "died", of a CHECK or LOG(FATAL)
  file,                   \* the artifacts written
  given                   \* the structs they were made from (history)

vars == <<dut, owner, duts, handles, run, parameters, program, file, given>>

----------------------------------------------------------------------------
(* The structs of input_model.h, by their members' types; a reference that *)
(* no DutInfo gave, which is empty, is left out.                           *)

Comparisons == {"LessThan", "LessThanOrEqual", "GreaterThan", "GreaterThanOrEqual"}
ValidatorTypes ==
  Comparisons \cup {"Unspecified", "Equal", "NotEqual", "RegexMatch", "RegexNoMatch",
                    "InSet", "NotInSet"}
Severities == {"Debug", "Info", "Warning", "Error", "Fatal"}

\* The variant's alternatives in google::protobuf::Value.
Alternative == [string |-> "string_value", double |-> "number_value", bool |-> "bool_value"]

Optional(S) == {s \in Seq(S) : Len(s) <= 1}

Value == [type : DOMAIN Alternative, v : Int]
Validators == Seq([type : ValidatorTypes, value : Seq(Value)])

\* RegisteredHardwareInfo and RegisteredSoftwareInfo: which DutInfo gave it, and to what.
Registered(sort) == [dut : Nat, sort : {sort}, name : Names, id : Nat]
HardwareInfo == Optional(Registered("hardware"))
SoftwareInfos == Seq(Registered("software"))

Struct ==
  [kind : {"Measurement"}, name : STRING, hardware_info : HardwareInfo,
     subcomponent : Optional(STRING), validators : Validators, value : Value, json : STRING]
  \cup [kind : {"SeriesStart"}, name : STRING, hardware_info : HardwareInfo,
        subcomponent : Optional(STRING), validators : Validators, json : STRING]
  \cup [kind : {"Element"}, value : Value, timestamp : Optional(STRING), json : STRING]
  \cup [kind : {"Diagnosis"}, name : STRING, type : {"Unknown", "Pass", "Fail"},
        hardware_info : HardwareInfo, subcomponent : Optional(STRING)]
  \cup [kind : {"Error"}, name : STRING, software_infos : SoftwareInfos]
  \cup [kind : {"Log"}, name : STRING, severity : Severities]
  \cup [kind : {"File"}, name : STRING, uri : STRING]
  \cup [kind : {"Extension"}, name : STRING, json : STRING]

\* The references a struct holds.
HandlesIn(x) ==
  UNION {{x[f][k] : k \in DOMAIN x[f]} : f \in {"hardware_info", "software_infos"} \cap DOMAIN x}

----------------------------------------------------------------------------
(* Limits (input_model_helpers.cc).                                        *)

Double(n) == [type |-> "double", v |-> n]

Limits(lower, lowerType, upper, upperType) ==
  <<[type |-> lowerType, value |-> <<Double(lower)>>],
    [type |-> upperType, value |-> <<Double(upper)>>]>>

\* Mutant: the upper limit itself is not accepted.
ValidateWithinLimitsBelow(lower, upper) ==
  Limits(lower, "GreaterThanOrEqual", upper, "LessThan")

\* Defined for lower <= upper; the program dies otherwise.
ValidateWithinInclusiveLimits(lower, upper) ==
  Limits(lower, "GreaterThanOrEqual", upper, "LessThanOrEqual")

\* Defined for lower < upper; accepts the lower limit itself, against
\* input_model_helpers.h:37-38.
ValidateWithinExclusiveLimits(lower, upper) ==
  Limits(lower, "GreaterThanOrEqual", upper, "LessThan")

----------------------------------------------------------------------------
(* ValidateStructOrDie.                                                    *)

\* Mutant: the types of further values are not compared with the first.
ValidatorIsValidByFirst(v) ==
  /\ v.value # <<>>
  /\ \/ v.type \in {"Equal", "NotEqual"} /\ Len(v.value) = 1
     \/ v.type \in Comparisons /\ Len(v.value) = 1 /\ v.value[1].type = "double"
     \/ v.type \in {"RegexMatch", "RegexNoMatch"} /\ v.value[1].type = "string"
     \/ v.type \in {"InSet", "NotInSet"} /\ v.value[1].type \in {"string", "double"}

ValidatorIsValid(v) ==
  /\ v.value # <<>>
  /\ \A i \in DOMAIN v.value : v.value[i].type = v.value[1].type
  /\ \/ v.type \in {"Equal", "NotEqual"} /\ Len(v.value) = 1
     \/ v.type \in Comparisons /\ Len(v.value) = 1 /\ v.value[1].type = "double"
     \/ v.type \in {"RegexMatch", "RegexNoMatch"} /\ v.value[1].type = "string"
     \/ v.type \in {"InSet", "NotInSet"} /\ v.value[1].type \in {"string", "double"}

\* Validators of one type; an empty list of values is read before it is refused, and
\* whatever that read gives, the program dies.
ValidatorsAreValid(validators, type) ==
  \A i \in DOMAIN validators :
    ValidatorIsValid(validators[i]) /\ validators[i].value[1].type = type

SubcomponentIsValid(subcomponent) == subcomponent = <<>> \/ subcomponent[1] # ""

IsValid(x) ==
  CASE x.kind = "Element" -> TRUE
    [] x.kind = "Measurement" ->
         /\ x.name # ""
         /\ SubcomponentIsValid(x.subcomponent)
         /\ ValidatorsAreValid(x.validators, x.value.type)
    [] x.kind = "SeriesStart" ->
         /\ x.name # ""
         /\ SubcomponentIsValid(x.subcomponent)
         /\ \E type \in DOMAIN Alternative : ValidatorsAreValid(x.validators, type)
    [] x.kind = "Diagnosis" ->
         x.name # "" /\ x.type # "Unknown" /\ SubcomponentIsValid(x.subcomponent)
    [] x.kind = "File" -> x.name # "" /\ x.uri # ""
    [] x.kind = "Extension" -> x.name # "" /\ x.json # ""
    [] x.kind \in {"Error", "Log"} -> x.name # ""

----------------------------------------------------------------------------
(* StructToProto and ProtoToStruct, field by field.                        *)

VariantToProto(value) == [case |-> Alternative[value.type], content |-> value.v]
ProtoToVariant(proto) ==
  [type |-> CHOOSE type \in DOMAIN Alternative : Alternative[type] = proto.case,
   v    |-> proto.content]

\* Mutant: of several values the first is written.
ValidatorToProtoFirst(v) == [type |-> v.type, value |-> VariantToProto(v.value[1])]

\* One value is a scalar, any other number a list.
ValidatorToProto(v) ==
  [type |-> v.type,
   value |-> IF Len(v.value) = 1 THEN VariantToProto(v.value[1])
             ELSE [case    |-> "list_value",
                   content |-> [i \in DOMAIN v.value |-> VariantToProto(v.value[i])]]]

ProtoToValidator(proto) ==
  [type |-> proto.type,
   value |-> IF proto.value.case = "list_value"
             THEN [i \in DOMAIN proto.value.content |-> ProtoToVariant(proto.value.content[i])]
             ELSE <<ProtoToVariant(proto.value)>>]

\* JSON texts of objects; the empty text stands for the empty object.
JsonIsValid(json) == json \in {"", "{}", "{a}", "{ a }"}
JsonToProtoOrDie(json) == IF json \in {"", "{}"} THEN {} ELSE {"a"}
ProtoToJsonOrDie(proto) == IF proto = {} THEN "{}" ELSE "{a}"

DutInfoToProto(d) == [d EXCEPT !.json = JsonToProtoOrDie(@)]
ProtoToDutInfo(proto) == [proto EXCEPT !.json = ProtoToJsonOrDie(@)]

\* What a reader finds where the start of a run has no DutInfo.
NoDutInfo ==
  [number |-> 0, hardware |-> <<>>, software |-> <<>>, platform |-> <<>>, json |-> "{}"]

NoId == -1                \* the empty id, also what an unset id reads as

FieldToProto(f, value) ==
  CASE f = "hardware_info" -> IF value = <<>> THEN NoId ELSE value[1].id
    [] f = "software_infos" -> [i \in DOMAIN value |-> value[i].id]
    [] f = "validators" -> [i \in DOMAIN value |-> ValidatorToProto(value[i])]
    [] f = "value" -> VariantToProto(value)
    [] f = "json" -> JsonToProtoOrDie(value)
    [] f = "timestamp" -> IF value = <<>> THEN "now" ELSE value[1]    \* AddElement
    [] f = "dut" -> [i \in DOMAIN value |-> DutInfoToProto(value[i])]
    [] OTHER -> value

FieldToStruct(f, value) ==
  CASE f = "validators" -> [i \in DOMAIN value |-> ProtoToValidator(value[i])]
    [] f = "value" -> ProtoToVariant(value)
    [] f = "json" -> ProtoToJsonOrDie(value)
    [] f = "dut" -> IF value = <<>> THEN NoDutInfo ELSE ProtoToDutInfo(value[1])
    [] OTHER -> value

StructToProto(x) == [f \in DOMAIN x |-> FieldToProto(f, x[f])]
ProtoToStruct(proto) == [f \in DOMAIN proto |-> FieldToStruct(f, proto[f])]

\* Where a JSON text of the struct is no object, its conversion kills the program.
Converts(x) ==
  /\ "json" \in DOMAIN x => JsonIsValid(x.json)
  /\ "dut" \in DOMAIN x => \A i \in DOMAIN x.dut : JsonIsValid(x.dut[i].json)

----------------------------------------------------------------------------
(* The program.                                                            *)

Init ==
  /\ dut = <<>> /\ owner = "nobody" /\ duts = 0 /\ handles = {}
  /\ run = "created" /\ parameters \in JsonTexts
  /\ program = "running" /\ file = <<>> /\ given = <<>>

Die ==
  program' = "died" /\ UNCHANGED <<dut, owner, duts, handles, run, parameters, file, given>>

Construct(json) ==
  /\ duts' = duts + 1 /\ owner' = "caller"
  /\ dut' = <<[number |-> duts + 1, hardware |-> <<>>, software |-> <<>>,
               platform |-> <<>>, json |-> json]>>
  /\ UNCHANGED <<handles, run, parameters, program, file, given>>

\* Mutant: nothing asks whether there is a DutInfo already.
NewDutInfoAlways(name, json) ==
  /\ program = "running" /\ duts < MaxDuts
  /\ IF name # "" THEN Construct(json) ELSE Die

\* The constructor with a name and an id, and SetMetadataJson.
NewDutInfo(name, json) ==
  /\ program = "running" /\ duts < MaxDuts
  /\ IF name # "" /\ dut = <<>> THEN Construct(json) ELSE Die

\* ~DutInfo, when the caller lets it go before it is registered.
DropDutInfo ==
  /\ program = "running" /\ owner = "caller"
  /\ dut' = <<>> /\ owner' = "nobody"
  /\ UNCHANGED <<duts, handles, run, parameters, program, file, given>>

\* Mutant: the number is given without being counted.
NextInfoIdUncounted(infos) == 0

\* The number the IntIncrementer of a sort gives to its next info.
NextInfoId(infos) == Len(infos)

\* AddHardwareInfo, AddSoftwareInfo and AddPlatformInfo, which gives no reference; also
\* through a pointer the caller has kept after the run has started.
AddInfo(sort, name) ==
  /\ program = "running" /\ dut # <<>>
  /\ Len(dut[1].hardware) + Len(dut[1].software) + Len(dut[1].platform) < MaxInfos
  /\ IF name = "" THEN Die
     ELSE LET id == NextInfoId(dut[1][sort]) IN
          /\ dut' = [dut EXCEPT ![1][sort] = Append(@, [name |-> name, id |-> id])]
          /\ handles' = handles \cup
               IF sort = "platform" THEN {}
               ELSE {[dut |-> dut[1].number, sort |-> sort, name |-> name, id |-> id]}
          /\ UNCHANGED <<owner, duts, run, parameters, program, file, given>>

\* What EmitStart writes, with the DutInfo if the run has one.
RunStart(d) == [kind |-> "TestRunStart", json |-> parameters, dut |-> d]

Write(x) == file' = Append(file, StructToProto(x)) /\ given' = Append(given, x)

\* The run dies without a DutInfo, and when the JSON of either is none.
StartAndRegisterDutInfo ==
  /\ program = "running" /\ run \in {"created", "started"} /\ Len(file) < MaxArtifacts
  /\ IF owner = "caller" /\ Converts(RunStart(dut))
     THEN /\ owner' = "run" /\ run' = "started"
          /\ Write(RunStart(dut))
          /\ UNCHANGED <<dut, duts, handles, parameters, program>>
     ELSE Die

\* A struct given to AddPreStartError or AddPreStartLog, or to a step or series once the
\* run has started.  A fatal log is written, then kills the program.
Add(x) ==
  /\ program = "running" /\ Len(file) < MaxArtifacts
  /\ run = "started" \/ (run = "created" /\ x.kind \in {"Error", "Log"})
  /\ IF IsValid(x) /\ Converts(x)
     THEN /\ Write(x)
          /\ program' = IF x.kind = "Log" /\ x.severity = "Fatal" THEN "died" ELSE "running"
          /\ UNCHANGED <<dut, owner, duts, handles, run, parameters>>
     ELSE Die

\* ~TestRun: a run that never started writes its start now; its DutInfo goes with it.
End ==
  /\ program = "running" /\ run \in {"created", "started"} /\ Len(file) < MaxArtifacts
  /\ IF run = "started" \/ Converts(RunStart(<<>>))
     THEN /\ run' = "ended"
          /\ IF run = "created" THEN Write(RunStart(<<>>)) ELSE UNCHANGED <<file, given>>
          /\ IF owner = "run" THEN dut' = <<>> /\ owner' = "nobody" ELSE UNCHANGED <<dut, owner>>
          /\ UNCHANGED <<duts, handles, parameters, program>>
     ELSE Die

Next ==
  \/ \E name \in Names, json \in JsonTexts : NewDutInfo(name, json)
  \/ DropDutInfo
  \/ \E sort \in {"hardware", "software", "platform"}, name \in Names : AddInfo(sort, name)
  \/ StartAndRegisterDutInfo
  \/ \E x \in Arguments(handles) : x \in Struct /\ HandlesIn(x) \subseteq handles /\ Add(x)
  \/ End

Spec == Init /\ [][Next]_vars

----------------------------------------------------------------------------
(* Properties.                                                             *)

\* What a reader should get for what was given: everything, references by their id and
\* JSON texts in one spelling.
Declared(x) ==
  LET Spelled(json) == IF json \in {"", "{}"} THEN "{}" ELSE "{a}"
      Ids(refs) == [i \in DOMAIN refs |-> refs[i].id]
  IN  [f \in DOMAIN x |->
         CASE f = "hardware_info" -> IF x[f] = <<>> THEN NoId ELSE Ids(x[f])[1]
           [] f = "software_infos" -> Ids(x[f])
           [] f = "json" -> Spelled(x[f])
           [] f = "timestamp" -> IF x[f] = <<>> THEN "now" ELSE x[f][1]
           [] f = "dut" -> IF x[f] = <<>> THEN NoDutInfo ELSE [x[f][1] EXCEPT !.json = Spelled(@)]
           [] OTHER -> x[f]]

\* Reading an artifact back loses nothing that was accepted (struct_to_proto.cc,
\* proto_to_struct.cc): a value keeps its type, a validator's list of values is a list
\* again whether it was written as a scalar or not, an optional subcomponent neither
\* appears nor vanishes; a missing reference or DutInfo is the empty one.
NothingLostInTheFile ==
  \A i \in DOMAIN file : ProtoToStruct(file[i]) = Declared(given[i])

\* The ids an artifact refers to.
IdsIn(x, sort) ==
  CASE sort = "hardware" /\ "hardware_info" \in DOMAIN x -> {x.hardware_info} \ {NoId}
    [] sort = "software" /\ "software_infos" \in DOMAIN x ->
         {x.software_infos[k] : k \in DOMAIN x.software_infos}
    [] OTHER -> {}

\* "Unique references to hardware and software info" (dut_info.h:20-22): a reference to
\* an info that the run's start lists names that info alone in the file, also when the
\* program has made other DutInfo objects whose ids begin at 0 again, and adds more
\* infos after the start.
ReferencesResolve ==
  \A i, k \in DOMAIN file :
    file[k].kind = "TestRunStart" /\ file[k].dut # <<>> =>
      \A h \in HandlesIn(given[i]) :
        LET listed == file[k].dut[1][h.sort]
            same == {j \in DOMAIN listed : listed[j].id = h.id}
        IN  h.dut = file[k].dut[1].number /\ h.id < Len(listed) =>
              /\ Cardinality(same) = 1
              /\ \A j \in same : listed[j].name = h.name
              /\ h.id \in IdsIn(ProtoToStruct(file[i]), h.sort)

\* A run starts once in the file, although StartAndRegisterDutInfo does not ask whether
\* it has (test_run.cc:115-122): a second call needs a DutInfo of its own, and the one
\* the run owns forbids to make it (dut_info.cc:35-38).
OneTestRunStart ==
  Cardinality({i \in DOMAIN file : file[i].kind = "TestRunStart"}) <= 1

\* What SetAndCheckSeriesType reads without looking (measurement_series.cc:33-37) is
\* there: in the file, the validators of a series or measurement have values, all of one
\* type, and of the measurement's type.
ValidatorsAreOfOneType ==
  \A i \in DOMAIN file :
    file[i].kind \in {"SeriesStart", "Measurement"} =>
      LET x == ProtoToStruct(file[i])
          values == UNION {{x.validators[j].value[k] : k \in DOMAIN x.validators[j].value} :
                             j \in DOMAIN x.validators}
      IN  /\ \A j \in DOMAIN x.validators : x.validators[j].value # <<>>
          /\ Cardinality({v.type : v \in values}
                            \cup IF x.kind = "Measurement" THEN {x.value.type} ELSE {}) <= 1

\* The meaning of the numerical validators that the helpers use.
Accepts(v, n) ==
  CASE v.type = "GreaterThanOrEqual" -> n >= v.value[1].v
    [] v.type = "LessThanOrEqual" -> n <= v.value[1].v
    [] v.type = "LessThan" -> n < v.value[1].v

\* What a reader finds that applies the validators of the file to the value they are with.
Good(i) ==
  LET x == ProtoToStruct(file[i])
  IN  \A j \in DOMAIN x.validators : Accepts(x.validators[j], x.value.v)

\* A measurement written with inclusive limits reads as good exactly when its value is
\* within them, or one of them (input_model_helpers.h:29-30,
\* input_model_helpers.cc:39-55).
InclusiveLimitsDecideFor(numbers) ==
  \A i \in DOMAIN file, lower, upper \in numbers :
    (/\ file[i].kind = "Measurement" /\ lower <= upper
     /\ given[i].validators = ValidateWithinInclusiveLimits(lower, upper)) =>
       (Good(i) <=> ProtoToStruct(file[i]).value.v \in lower..upper)

\* The same for the limits the run uses.
InclusiveLimitsDecide == InclusiveLimitsDecideFor(0..2)

=============================================================================
