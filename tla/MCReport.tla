------------------------------ MODULE MCReport ------------------------------
(* The structs a program passes in the run of Report.tla, legal and not.  *)
EXTENDS Report

Text(n) == [type |-> "string", v |-> n]
Flag(n) == [type |-> "bool", v |-> n]
Validator(type, value) == [type |-> type, value |-> value]

Measurement(value, validators) ==
  [kind |-> "Measurement", name |-> "n", hardware_info |-> <<>>, subcomponent |-> <<>>,
   validators |-> validators, value |-> value, json |-> ""]
SeriesStart(validators) ==
  [kind |-> "SeriesStart", name |-> "n", hardware_info |-> <<>>, subcomponent |-> <<>>,
   validators |-> validators, json |-> "{ a }"]
Diagnosis(type) ==
  [kind |-> "Diagnosis", name |-> "n", type |-> type, hardware_info |-> <<>>,
   subcomponent |-> <<"s">>]
Error(infos) == [kind |-> "Error", name |-> "n", software_infos |-> infos]

\* Measurements against limits, at, inside and outside them.
Limited ==
  {Measurement(Double(v), ValidateWithinInclusiveLimits(1, upper)) : v \in 0..2, upper \in 1..2}
    \cup {Measurement(Double(v), ValidateWithinExclusiveLimits(0, 2)) : v \in 0..2}

\* Lists of validators that some check of ValidateStructOrDie is about.
ValidatorLists ==
  {<<Validator("Equal", <<Flag(1)>>)>>,
   <<Validator("Equal", <<Text(0), Text(1)>>)>>,
   <<Validator("InSet", <<Text(0), Text(1)>>)>>,
   <<Validator("InSet", <<Text(0), Double(1)>>)>>,
   <<Validator("RegexMatch", <<Text(0)>>), Validator("NotInSet", <<>>)>>,
   <<Validator("NotEqual", <<Double(0)>>), Validator("RegexMatch", <<Text(0)>>)>>,
   <<Validator("Unspecified", <<Text(0)>>)>>}

Checked ==
  {SeriesStart(validators) : validators \in ValidatorLists}
    \cup {Measurement(Text(0), validators) : validators \in ValidatorLists}

Others ==
  {[kind |-> "Element", value |-> Flag(0), timestamp |-> t, json |-> json] :
     t \in {<<>>, <<"then">>}, json \in {"{}", "{"}}
    \cup {[Diagnosis(type) EXCEPT !.subcomponent = sub] :
            type \in {"Fail", "Unknown"}, sub \in {<<"s">>, <<"">>}}
    \cup {[kind |-> "Log", name |-> "n", severity |-> "Fatal"],
          [kind |-> "Log", name |-> "", severity |-> "Info"],
          [kind |-> "File", name |-> "n", uri |-> ""],
          [kind |-> "File", name |-> "n", uri |-> "u"],
          [kind |-> "Extension", name |-> "n", json |-> ""],
          [kind |-> "Extension", name |-> "n", json |-> "{ a }"]}

Referring(handles_) ==
  LET ofSort(sort) == {h \in handles_ : h.sort = sort} IN
  {[Diagnosis("Pass") EXCEPT !.hardware_info = <<h>>] : h \in ofSort("hardware")}
    \cup {Error(infos) : infos \in {<<>>} \cup {<<h>> : h \in ofSort("software")}
                                    \cup {<<g, h>> : g, h \in ofSort("software")}}

MCArguments(handles_) == Limited \cup Checked \cup Others \cup Referring(handles_)
=============================================================================
