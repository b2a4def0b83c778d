---------------------------- MODULE MCNodeClient ----------------------------
\* Instance of NodeClient for TLC: command lines, files and machines.
EXTENDS NodeClient

SeqsUpTo(S, n) == UNION {[1..k -> S] : k \in 0..n}

(* Command lines and configuration files.                                  *)

NoFlags ==
  [mhi |-> <<>>, backend |-> "", target |-> "", port |-> 0, auth |-> "", cache |-> "",
   query |-> <<>>, path |-> ""]

Override(backend, target, port, auth) ==
  [malformed |-> FALSE, backend |-> backend, target |-> target, port |-> port,
   auth |-> auth]

Overrides ==
  {Override("host", "A", 0, ""), Override("host", "B", 1, ""), Override("fake", "A", 0, ""),
   Override("redfish", "A", 7, "TLS"), Override("redfish", "A", 0, ""),
   Override("redfish", "B", 8, "default")}

BadOverrides ==
  {Override("mimik_redfish", "A", 0, ""), Override("host", "A", 0, "kerberos"),
   [Override("host", "A", 0, "") EXCEPT !.malformed = TRUE]}

Query(malformed, resource, query) ==
  [malformed |-> malformed, resource |-> resource, query |-> query]

SingleFlags ==
  [mhi : {<<>>}, backend : {"", "host", "redfish", "mmanager"}, target : {"", "C"},
   port : {0, 9}, auth : {"", "Basic", "kerberos"},
   cache : {"", "no_cache", "no_cache:", "time_based_cache:5", "other"},
   query : {<<>>, <<Query(FALSE, "other", "q")>>, <<Query(TRUE, "", "")>>,
            <<Query(FALSE, "sensor_query", "q"), Query(FALSE, "sensor_query", "r")>>},
   path : {"", "file"}]

Node(host, backend, target, ms) ==
  [EmptyConfiguration EXCEPT !.host = host, !.backend = backend, !.target = target,
     !.port = 5, !.query = "own", !.cache = "time", !.methods = ms]

n1 == Node("A", "HOST", "B", "GetSensors" :> "REDFISH")
n2 == Node("B", "REDFISH", "A", <<>>)
n3 == Node("A", "UNKNOWN", "", "GetSensors" :> "UNKNOWN")
n4 == Node("", "HOST", "A", "Reboot" :> "FAKE" @@ "GetSensors" :> "REDFISH")

Json(nodes) == [state |-> "json", nodes |-> nodes]
Empty == [state |-> "empty", nodes |-> <<>>]
Files ==
  {Json(s) : s \in {<<>>, <<n1>>, <<n3>>, <<n4>>, <<n1, n2>>, <<n1, n3>>, <<n4, n2, n1>>}}
  \cup {Empty}
BadFiles == {[state |-> s, nodes |-> <<>>] : s \in {"missing", "malformed"}}

(* Machines.                                                               *)

Ras(exit, lines) == [exit |-> exit, lines |-> lines]

Cpu(node, package, die, core, siblings) ==
  [node |-> node, package |-> package, die |-> die, core |-> core, siblings |-> siblings,
   freq |-> [design |-> 2, cur |-> 1, max |-> 3], throttle |-> 0]

Signed(vendor, microcode, bogomips, implementer) ==
  [vendor |-> vendor, microcode |-> microcode, bogomips |-> bogomips,
   implementer |-> implementer]

OneCpu ==
  [online |-> <<<<0>>>>, cpulist |-> (0 :> <<<<0>>>>), cpus |-> (0 :> Cpu(0, 0, 0, 0, <<<<0>>>>)),
   signature |-> Signed("GenuineIntel", 7, TRUE, ""),
   dimms |-> <<>>, maps |-> <<>>, addresses |-> {}, ras |-> Ras(0, <<>>),
   scan |-> [exit |-> 0, json |-> TRUE], disks |-> <<>>, shutdown |-> [ran |-> TRUE]]

\* The range list of a set of processors, in singletons.
List(S) == LET s == SetToSortSeq(S, <) IN [i \in DOMAIN s |-> <<s[i]>>]

\* NUMA node, package, die and core id of four processors; a core is in one node, and
\* where a package has two dies their cores have the same numbers.
Layouts ==
  {l \in [0..3 -> {0, 1} \X {0, 5} \X {0, 1} \X {0, 4}] :
     /\ l[0] = <<0, 5, 0, 0>>
     /\ \A c, d \in 0..3 : Tail(l[c]) = Tail(l[d]) => l[c][1] = l[d][1]}

\* Without a processor on node 1 its list is empty.
MachineOf(l) ==
  [OneCpu EXCEPT
     !.online = <<<<0, 1>>>>,
     !.cpulist = [n \in 0..1 |-> List({c \in 0..3 : l[c][1] = n})],
     !.cpus = [c \in 0..3 |->
                 Cpu(l[c][1], l[c][2], l[c][3], l[c][4],
                     List({d \in 0..3 : Tail(l[d]) = Tail(l[c])}))]]

AnyLayout == CHOOSE l \in Layouts : \E c \in 1..3 : l[c][1] = 1

CpuMachines ==
  {MachineOf(l) : l \in Layouts}
  \cup {[MachineOf(AnyLayout) EXCEPT !.online = o] :
          o \in {<<<<0>>, <<1>>>>, <<<<1, 0>>>>, <<<<0, 1>>, <<1>>>>, <<<<0, 1, 2>>>>,
                 <<<<Garbage>>>>}}
  \cup {[OneCpu EXCEPT !.online = <<<<0, 1>>>>,
                       !.cpulist = 0 :> <<<<0>>>> @@ 1 :> <<<<Garbage>>>>],
        [OneCpu EXCEPT !.cpus[0].core = Missing],
        [OneCpu EXCEPT !.cpus[0].siblings = <<<<1>>>>],
        [OneCpu EXCEPT !.cpus[0].siblings = <<<<Garbage>>>>],
        [OneCpu EXCEPT !.cpus[0].siblings = <<>>],
        [OneCpu EXCEPT !.cpus[0].throttle = Missing]}
  \cup {[OneCpu EXCEPT !.cpus[0].freq.cur = c, !.cpus[0].freq.max = f] :
          c \in {1, Missing, Garbage}, f \in {3, Missing}}
  \cup {[OneCpu EXCEPT !.signature = s] :
          s \in {Signed("AuthenticAMD", Missing, TRUE, ""), Signed("Other", Garbage, TRUE, "")}
                \cup {Signed("", Missing, b, i) : b \in BOOLEAN, i \in {"", "A", "P", "Q", "X"}}}

Line(kind, error, time, zone, label) ==
  [kind |-> kind, error |-> error, time |-> time, zone |-> zone, label |-> label]
Record(error, time, label) == Line("record", error, time, "+", label)
Plain(kind) == Line(kind, "", 0, "", NoText)

Lines ==
  {Plain("blank"), Plain("garbage"), Record("Corrected", 1, <<<<"DIMM 0">>>>),
   Record("Uncorrected", 2, <<<<"DIMM">>, <<"1">>>>), Record("Fatal", 2, UnknownMemory),
   Record("Info", 2, <<<<"DIMM 0">>>>), Line("record", "Fatal", 2, "-", <<<<"DIMM 0">>>>)}

RasMachines ==
  {[OneCpu EXCEPT !.ras = Ras(0, <<Plain(title)>> \o lines)] :
     title \in {"title", "none"}, lines \in SeqsUpTo(Lines, 4)}
  \cup {[OneCpu EXCEPT !.ras = Ras(1, <<Plain("none"), Plain("blank")>>)],
        [OneCpu EXCEPT !.ras = Ras(0, <<Plain("blank")>>)]}

Dimms(sizes) ==
  [i \in DOMAIN sizes |->
     [size |-> sizes[i], extended |-> IF i = 1 THEN 64 ELSE Missing, type |-> "DDR4",
      handle |-> 16 + i, speed |-> 3200, maker |-> Missing,
      locator |-> IF i = 1 THEN <<<<"SLOT A">>>> ELSE <<<<"SLOT">>, <<"B">>>>]]

Maps(h1, h2) ==
  <<[start |-> 0, end |-> 3, handle |-> h1], [start |-> 4, end |-> 7, handle |-> h2]>>

MemoryMachines ==
  {[OneCpu EXCEPT !.dimms = Dimms(<<s, 16>>), !.maps = Maps(h1, h2),
      !.addresses = {0, 3072, 3073, 4095, 4096, 7168, 8192}] :
     s \in {0, 16, InExtendedSize, UnknownSize, KilobyteFlag + 512},
     h1 \in {0, 17, 18}, h2 \in {17, 18, 99}}

Disk(kind, rotation, named, allExit, secured, secExit) ==
  [name |-> "sda", type |-> <<<<"scsi">>>>,
   all |-> [exit |-> allExit, json |-> TRUE, kind |-> kind, rotation |-> rotation,
            named |-> named, serial |-> <<<<"model#serial">>>>,
            caps |-> {<<"gp_logging", "supported">>, <<"data_table", "enabled">>,
                      <<"other", "enabled">>},
            smart |-> [available |-> {"SMART"}, enabled |-> {}], sct |-> TRUE],
   security |-> [exit |-> secExit, json |-> TRUE, enabled |-> secured, level |-> "SEC1"]]

Disks ==
  {Disk("sata", 0, TRUE, 0, TRUE, 0), Disk("sata", 7200, TRUE, 64, FALSE, 0),
   [Disk("sata", 0, TRUE, 0, TRUE, 0) EXCEPT !.all.serial = <<<<"50">>, <<"#1">>>>],
   Disk("nvme", Missing, TRUE, 0, FALSE, 0), Disk("other", Missing, FALSE, 0, FALSE, 1),
   Disk("sata", 0, TRUE, 2, TRUE, 0)}

StorageMachines ==
  {[OneCpu EXCEPT !.disks = disks] : disks \in SeqsUpTo(Disks, 2)}
  \cup {[OneCpu EXCEPT !.scan.exit = 1], [OneCpu EXCEPT !.scan.json = FALSE],
        [OneCpu EXCEPT !.shutdown.ran = FALSE]}

(* Scenarios.                                                              *)

Ssh(type, path, ssh) == [type |-> type, path |-> path, ssh |-> ssh]
GoodSsh == Ssh("ssh", <<"/usr/bin", "/bin">>, {"/usr/bin"})

Input(fs, f, e, ms, r, c, machines) ==
  [flags |-> fs, file |-> f, entry |-> e, methods |-> ms, resolver |-> r,
   connection |-> c, machines |-> machines]

Local(ms, machines) ==
  Input(NoFlags, Empty, "Create", ms, {"HOST"}, GoodSsh, machines)

Every == {"HOST", "REDFISH", "FAKE"}

\* Multi-node overrides, over every file.
ManyNodes ==
  {Input([NoFlags EXCEPT !.mhi = os, !.path = p], f, e, {}, Every, GoodSsh, {OneCpu}) :
     os \in SeqsUpTo(Overrides, 3), p \in {"", "file"}, f \in Files,
     e \in {"Create", "CreateClients"}}
  \cup {Input([NoFlags EXCEPT !.mhi = <<o>>], Empty, "CreateClients", {}, Every,
              GoodSsh, {OneCpu}) : o \in BadOverrides}

\* The flags of single-node programs.
OneNode ==
  {Input(fs, f, "Create", {}, Every, GoodSsh, {OneCpu}) :
     fs \in SingleFlags, f \in {Json(<<n1>>), Json(<<n3>>), Empty} \cup BadFiles}

\* Calls to every backend of a node, over connections that work or do not.
Routed ==
  {Input([NoFlags EXCEPT !.path = "file"], f, e, {"GetSensors", "Reboot", "GetStatus"},
         r, c, {OneCpu}) :
     f \in {Json(<<n1>>), Json(<<n2>>), Json(<<n4>>), Json(<<n1, n1>>)}, e \in {"Create", "CreateClients"},
     r \in {Every, {"HOST", "REDFISH"}},
     c \in {GoodSsh, Ssh("prod", <<"/usr/bin", "/bin">>, {"/bin", "/usr/bin"}),
            Ssh("ssh", <<"/opt", "/usr/bin">>, {"/usr/bin"}), Ssh("ssh", <<>>, {})}}
  \cup {Input(NoFlags, Empty, "CreateClients", {"GetSensors", "Reboot"}, {"HOST"}, GoodSsh,
              {OneCpu, [OneCpu EXCEPT !.shutdown.ran = FALSE]})}

SomeInputs ==
  {ManyNodes, OneNode, Routed,
   {Local({"GetCpuInfo", "GetHwInfo"}, CpuMachines),
    Local({"GetErrors", "GetHwInfo"}, RasMachines),
    Local({"GetMemoryInfo", "MemoryConvert", "GetHwInfo"}, MemoryMachines),
    Local({"GetStorageInfo", "GetNodeInfo", "GetHwInfo"}, StorageMachines)}}
=============================================================================
