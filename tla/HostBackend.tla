---------------------------- MODULE HostBackend ----------------------------
(***************************************************************************)
(* hwinterface/backends/host: the backend that answers from the machine    *)
(* itself.  Files and command outputs are what the backend's parsers tell  *)
(* apart; numbers of files are Missing (no such file) or Garbage (not a    *)
(* number) when they are not natural.                                      *)
(*                                                                         *)
(* An answer is [status, value]: "ok", "error" for any absl error, and     *)
(* "killed" where the code throws through absl or indexes a JSON key that  *)
(* is not there (a const nlohmann operator[]: an assertion, or undefined). *)
(***************************************************************************)
EXTENDS Integers, FiniteSets, Sequences, SequencesExt

VARIABLES
  machine,                \* files and commands of the node, see MCNodeClient
  dmiReadable,            \* the DMI table can be read now
  smbios                  \* the clients whose backend has made its smbios_reader_

hostVars == <<machine, dmiReadable, smbios>>

Missing == -1
Garbage == -2

Ok(value) == [status |-> "ok", value |-> value]
Error == [status |-> "error"]
Killed == [status |-> "killed"]

IsOk(answer) == answer.status = "ok"

InfoTypeHave(types, type) == types = {} \/ type \in types

\* Answers of the members of a sequence in order, up to the first that is not ok.
AllOk(answers) ==
  IF \A i \in DOMAIN answers : IsOk(answers[i])
  THEN Ok([i \in DOMAIN answers |-> answers[i].value])
  ELSE answers[SelectInSeq(answers, LAMBDA a : ~IsOk(a))]

----------------------------------------------------------------------------
(* Identifiers (backends/lib/hw_info.cc).  The text of a field is the      *)
(* sequence of its pieces between '%' signs, a piece the tuple of what it  *)
(* is formatted from; joining fields with '%' is concatenation.            *)

Fields == <<"devpath", "odata_id", "name", "arena", "type">>

NoText == <<<<>>>>
Dimm == <<<<"dimm">>>>

Identifier(name, type) ==
  [devpath |-> NoText, odata_id |-> NoText, name |-> name, arena |-> NoText,
   type |-> type]

PopulateId(identifier) ==
  FlattenSeq([i \in 1..5 |-> identifier[Fields[i]]])

\* Mutant: five pieces at least.
UnmarshalFirstFields(id) ==
  IF Len(id) < 5 THEN Error
  ELSE Ok([f \in {Fields[i] : i \in 1..5} |->
             <<id[CHOOSE i \in 1..5 : Fields[i] = f]>>])

\* StrSplit with MaxSplits('%', 5): more pieces than fields are six, never five.
UnmarshalIdentifier(id) ==
  IF Len(id) # 5 THEN Error
  ELSE Ok([f \in {Fields[i] : i \in 1..5} |->
             <<id[CHOOSE i \in 1..5 : Fields[i] = f]>>])

GetHwInfo(ids) == AllOk([i \in DOMAIN ids |-> UnmarshalIdentifier(ids[i])])

----------------------------------------------------------------------------
(* Processors (cpu.cc).                                                    *)

\* A range list is the sequence of its ranges, each the sequence of its numbers.
AddRange(acc, r) ==
  IF /\ acc.status = "ok"
     /\ Len(r) \in {1, 2} /\ \A i \in DOMAIN r : r[i] # Garbage
     /\ acc.last < r[1] /\ r[1] <= r[Len(r)]
  THEN [status |-> "ok", last |-> r[Len(r)],
        value |-> acc.value \o [i \in 1..(r[Len(r)] - r[1] + 1) |-> r[1] + i - 1]]
  ELSE [status |-> "error", last |-> acc.last, value |-> <<>>]

\* StrSplit cuts even an empty text into one piece, which is no number.
Pieces(text) == IF text = <<>> THEN <<<<Garbage>>>> ELSE text

ParseRangeList(text) ==
  FoldLeft(AddRange, [status |-> "ok", last |-> -1, value |-> <<>>], Pieces(text))

ParseRangeListFile(text) ==
  LET list == ParseRangeList(text) IN IF IsOk(list) THEN Ok(list.value) ELSE Error

Position(seq, x) == SelectInSeq(seq, LAMBDA y : y = x)

\* CpuLpu::DoRealGather.
Lpu(m, node, cpu) ==
  LET c == m.cpus[cpu]
      siblings == ParseRangeListFile(c.siblings)
  IN  IF \/ {c.package, c.die, c.core} \cap {Missing, Garbage} # {}
         \/ ~IsOk(siblings)
         \/ Position(siblings.value, cpu) = 0
      THEN Error
      ELSE Ok([cpu |-> cpu, node |-> node, socket |-> c.package, die |-> c.die,
               core |-> c.core, thread |-> Position(siblings.value, cpu) - 1])

\* CpuNumaNode::DoRealGather; the empty list of a node without processors is an error.
NumaNode(m, node) ==
  LET cpus == ParseRangeListFile(m.cpulist[node])
  IN  IF IsOk(cpus)
      THEN AllOk([i \in DOMAIN cpus.value |-> Lpu(m, node, cpus.value[i])])
      ELSE Error

\* The number a value gets: how many others were seen before it.
FirstSeen(seq, x) ==
  Cardinality({seq[i] : i \in 1..(Position(seq, x) - 1)})

\* Mutant: sockets are numbered over their NUMA node too.
NormalizePerNode(nodes) ==
  LET Of(n, Field(_)) == [i \in DOMAIN nodes[n] |-> Field(nodes[n][i])]
  IN  [n \in DOMAIN nodes |->
         [i \in DOMAIN nodes[n] |->
            [nodes[n][i] EXCEPT !.socket = FirstSeen(Of(n, LAMBDA l : l.socket), @),
                                !.core   = FirstSeen(Of(n, LAMBDA l : l.core), @)]]]

\* CpuTopology::NormalizeTopology: sockets are numbered over the machine, cores
\* over their NUMA node.
Normalize(nodes) ==
  LET sockets == [i \in DOMAIN FlattenSeq(nodes) |-> FlattenSeq(nodes)[i].socket]
      Cores(n) == [i \in DOMAIN nodes[n] |-> nodes[n][i].core]
  IN  [n \in DOMAIN nodes |->
         [i \in DOMAIN nodes[n] |->
            [nodes[n][i] EXCEPT !.socket = FirstSeen(sockets, @),
                                !.core   = FirstSeen(Cores(n), @)]]]

\* CpuTopology::DoRealGather: the logical processors in order.
Topology(m) ==
  LET online == ParseRangeListFile(m.online)
      nodes  == AllOk([n \in DOMAIN online.value |-> NumaNode(m, online.value[n])])
  IN  IF ~IsOk(online) THEN Error
      ELSE IF ~IsOk(nodes) THEN nodes
      ELSE Ok(FlattenSeq(Normalize(nodes.value)))

\* The counts of the topology message.
Counts(lpus) ==
  LET OfSocket(s) == {i \in DOMAIN lpus : lpus[i].socket = s}
      sizes == {Cardinality(OfSocket(lpus[i].socket)) : i \in DOMAIN lpus}
  IN  [sockets      |-> Cardinality({lpus[i].socket : i \in DOMAIN lpus}),
       logical      |-> Len(lpus),
       physical     |-> Cardinality({i \in DOMAIN lpus : lpus[i].thread = 0}),
       maxPerSocket |-> CHOOSE n \in sizes \cup {0} : \A k \in sizes : k <= n]

\* CpuSignature: x86 by its vendor, ARM by its implementer; a hex number wider
\* than the field is Garbage.
Signature(m) ==
  LET s == m.signature
      vendor == CASE s.vendor = "GenuineIntel" -> "INTEL"
                  [] s.vendor = "AuthenticAMD" -> "AMD"
                  [] s.vendor = "" /\ s.bogomips /\ s.implementer = "A" -> "ARM"
                  [] s.vendor = "" /\ s.bogomips /\ s.implementer = "P" -> "APM"
                  [] s.vendor = "" /\ s.bogomips /\ s.implementer = "Q" -> "QUALCOMM"
                  [] OTHER -> "UNKNOWN"
      revision == IF s.vendor # "" /\ s.microcode # Missing THEN s.microcode ELSE 0
  IN  IF \/ s.vendor # "" /\ s.microcode = Garbage
         \/ s.vendor = "" /\ s.bogomips /\ s.implementer = ""
      THEN Error
      ELSE Ok([vendor |-> vendor, microcode |-> revision])

\* CpuFrequency: without scaling every frequency is the design frequency.
Frequency(m, cpu) ==
  LET f == m.cpus[cpu].freq
      scaled == f.cur # Missing
  IN  IF \/ f.design \in {Missing, Garbage} \/ f.cur = Garbage
         \/ scaled /\ f.max \in {Missing, Garbage}
      THEN Error
      ELSE Ok([design |-> f.design, cur |-> IF scaled THEN f.cur ELSE f.design,
               max |-> IF scaled THEN f.max ELSE f.design])

Throttle(m, cpu) ==
  LET n == m.cpus[cpu].throttle IN IF n \in {Missing, Garbage} THEN Error ELSE Ok(n)

LpuName(lpu) ==
  <<<<"CPU", lpu.socket, lpu.die, lpu.core, lpu.thread, lpu.cpu>>>>
SocketName(lpu) == <<<<"CPU", lpu.socket>>>>

CpuTypes ==
  {"TOPOLOGY", "SIGNATURE", "LPU_INFO", "FREQUENCY", "THROTTLE_INFO",
   "LPU_IDENTIFIER", "SOCKET_IDENTIFIER", "PACKAGE_IDENTIFIER"}

\* Every section asked for, or an error; sections not asked for stay empty.
GetCpuInfo(m, types) ==
  LET have(type) == InfoTypeHave(types, type)
      needsTopology == \E type \in CpuTypes \ {"SIGNATURE"} : have(type)
      topology == IF needsTopology THEN Topology(m) ELSE Ok(<<>>)
      lpus == topology.value
      sig == IF have("SIGNATURE") \/ have("LPU_INFO") THEN Signature(m)
             ELSE Ok([vendor |-> "UNKNOWN", microcode |-> 0])
      Section(type, Answer(_)) ==
        IF have(type) THEN AllOk([i \in DOMAIN lpus |-> Answer(lpus[i])]) ELSE Ok(<<>>)
      freq == Section("FREQUENCY", LAMBDA l : Frequency(m, l.cpu))
      throttle == Section("THROTTLE_INFO", LAMBDA l : Throttle(m, l.cpu))
      Ids(type, Name(_)) ==
        Section(type, LAMBDA l : Ok(Identifier(Name(l), NoText))).value
  IN  IF ~IsOk(topology) \/ ~IsOk(sig) THEN Error
      ELSE IF ~IsOk(freq) \/ ~IsOk(throttle) THEN Error
      ELSE Ok([counts     |-> Counts(lpus),
               lpus       |-> lpus,
               vendor     |-> sig.value.vendor,
               microcode  |-> sig.value.microcode,
               freq       |-> freq.value,
               throttle   |-> throttle.value,
               ids        |-> Ids("LPU_IDENTIFIER", LpuName)
                              \o Ids("SOCKET_IDENTIFIER", SocketName)
                              \o Ids("PACKAGE_IDENTIFIER", SocketName)])

----------------------------------------------------------------------------
(* Memory (memory.cc, memory_convert.cc), from the SMBIOS table.           *)

InExtendedSize == 32767         \* 0x7FFF
UnknownSize == 65535            \* 0xFFFF
KilobyteFlag == 32768           \* 0x8000

\* Size in kilobytes; 0 when it is not known.
DimmSize(d) ==
  CASE d.size = InExtendedSize -> IF d.extended = Missing THEN 0 ELSE d.extended * 1024
    [] d.size = UnknownSize -> 0
    [] d.size >= KilobyteFlag /\ d.size # UnknownSize -> d.size - KilobyteFlag
    [] OTHER -> d.size * 1024

GetMemoryInfo(m, types) ==
  LET Info(i) ==
        LET d == m.dimms[i]
            have(type, value, none) == IF InfoTypeHave(types, type) THEN value ELSE none
        IN  [present |-> have("PRESENCE", d.size # 0, FALSE),
             size    |-> have("SIZE", DimmSize(d), 0),
             slot    |-> have("DIMM_LOCATION", i - 1, Missing),
             type    |-> have("FW_MEMORY_TYPE", d.type, "UNKNOWN"),
             speed   |-> have("SPEED", d.speed, Missing),
             maker   |-> have("JEDEC", d.maker, Missing)]
      ids == [i \in DOMAIN m.dimms |-> Identifier(<<<<"DIMM", i - 1>>>>, Dimm)]
  IN  Ok([dimms |-> [i \in DOMAIN m.dimms |-> Info(i)],
          ids   |-> IF InfoTypeHave(types, "DIMM_IDENTIFIER") THEN ids ELSE <<>>])

\* A mapped range in kilobytes holds this address of a byte.
IsAddressWithinMap(address, map) ==
  address >= map.start * 1024 /\ address <= map.end * 1024

\* The handle of the first range that holds the address; handle 0 reads as none.
MemoryConvert(m, address) ==
  LET map == SelectInSeq(m.maps, LAMBDA r : IsAddressWithinMap(address, r))
      handle == IF map = 0 THEN 0 ELSE m.maps[map].handle
      dimm == SelectInSeq(m.dimms, LAMBDA d : d.handle = handle)
  IN  IF handle = 0 \/ dimm = 0 THEN Error
      ELSE Ok([ids |-> <<Identifier(m.dimms[dimm].locator, Dimm)>>])

----------------------------------------------------------------------------
(* Memory errors (error.cc), from the lines of `ras-mc-ctl --errors`.      *)

\* The expression for a record's time has no '-' for the zone.
WellFormedRecord(line) ==
  /\ line.kind = "record" /\ line.zone = "+"
  /\ line.error \in {"Corrected", "Uncorrected", "Fatal", "Info"}

\* One line of the report: the step it leads to and the errors so far.
ParseLine(acc, line) ==
  CASE acc.step \in {"failed", "returned"} -> acc
    [] acc.step = "MC_TITLE" ->
         [acc EXCEPT !.step = CASE line.kind = "title" -> "MC_RECORD"
                                [] line.kind = "none" -> "FINISH"
                                [] OTHER -> "failed"]
    [] acc.step = "FINISH" -> [acc EXCEPT !.step = "returned"]
    [] acc.step = "MC_RECORD" /\ line.kind = "blank" -> [acc EXCEPT !.step = "FINISH"]
    [] acc.step = "MC_RECORD" /\ line.kind # "blank" ->
         IF ~WellFormedRecord(line) THEN [acc EXCEPT !.step = "failed"]
         ELSE IF line.error = "Info" THEN acc
         ELSE [acc EXCEPT !.errors = Append(@, line)]

\* Mutant: a report is good unless one of its lines is bad.
ParseUnfinishedReport(lines) ==
  LET end == FoldLeft(ParseLine, [step |-> "MC_TITLE", errors |-> <<>>], lines)
  IN  IF end.step # "failed" THEN Ok(end.errors) ELSE Error

ParseErrorReport(lines) ==
  LET end == FoldLeft(ParseLine, [step |-> "MC_TITLE", errors |-> <<>>], lines)
  IN  IF end.step = "returned" THEN Ok(end.errors) ELSE Error

UnknownMemory == <<<<"unknown memory">>>>

\* A filter of two times, or <<>> for none.
Wanted(e, filter) ==
  /\ e.label # UnknownMemory
  /\ filter # <<>> => filter[1] < e.time /\ e.time <= filter[2]

WantedErrors(errors, filter) ==
  FoldLeft(LAMBDA kept, e : IF Wanted(e, filter) THEN Append(kept, e) ELSE kept, <<>>, errors)

GetErrors(m, filter, sources) ==
  LET report == ParseErrorReport(m.ras.lines)
      errors == WantedErrors(report.value, filter)
  IN  IF filter # <<>> /\ filter[1] >= filter[2] THEN Error
      ELSE IF m.ras.exit # 0 \/ ~IsOk(report) THEN Error
      ELSE IF ~InfoTypeHave(sources, "MEMORY_ERROR") THEN Ok([errors |-> <<>>, ids |-> <<>>])
      ELSE Ok([errors |-> errors,
               ids |-> [i \in DOMAIN errors |-> Identifier(errors[i].label, Dimm)]])

----------------------------------------------------------------------------
(* Storage (storage_info.cc, node_info.cc), from the output of smartctl.   *)

\* RunCommand and ParseJson: 64 reports old failures of the disk, not of smartctl.
SmartctlAnswers(command) == command.exit \in {0, 64} /\ command.json

GetDeviceType(all) ==
  CASE all.kind = "sata" -> IF all.rotation = 0 THEN "SSD" ELSE "HDD"
    [] all.kind = "nvme" -> "NVME_SSD"
    [] OTHER -> "UNKNOWN"

\* Keys of capabilities that smartctl prints and the interface knows.
Capability ==
  [gp_logging |-> "GPL", error_recovery_control |-> "SCT_ERC",
   feature_control |-> "SCT_FEAT", data_table |-> "SCT_TAB"]

AtaInfo(all) ==
  LET Caps(how) == {Capability[c[1]] : c \in {x \in all.caps :
                       x[1] \in DOMAIN Capability /\ x[2] \in how}}
  IN  [rpm       |-> all.rotation,
       enabled   |-> Caps({"enabled"}) \cup all.smart.enabled,
       supported |-> Caps({"enabled", "supported"}) \cup all.smart.available
                     \cup IF all.sct THEN {"SCT"} ELSE {}]

SecurityInfo(security) ==
  IF security.enabled THEN [mode |-> "ATA", level |-> security.level]
  ELSE [mode |-> "UNKNOWN", level |-> "UNKNOWN"]

\* One device; the code reads keys that only the output for an ATA disk has.
Storage(device, types) ==
  LET have(type) == InfoTypeHave(types, type)
      all == device.all
      asked == have("IDENTIFIER") \/ have("DEVICE_TYPE") \/ have("ATA_INFO")
      keyMissing == \/ have("IDENTIFIER") /\ ~all.named
                    \/ have("DEVICE_TYPE") /\ all.kind = "sata" /\ all.rotation = Missing
                    \/ have("ATA_INFO") /\ (all.kind # "sata" \/ all.rotation = Missing)
  IN  IF asked /\ ~SmartctlAnswers(all) THEN Error
      ELSE IF keyMissing THEN Killed
      ELSE IF have("SECURITY_INFO") /\ ~SmartctlAnswers(device.security) THEN Error
      ELSE Ok([name |-> IF have("SYSTEM_INFO") THEN device.name ELSE "",
               id   |-> IF have("IDENTIFIER")
                        THEN <<Identifier(all.serial, device.type)>> ELSE <<>>,
               type |-> IF have("DEVICE_TYPE") THEN GetDeviceType(all) ELSE "UNKNOWN",
               ata  |-> IF have("ATA_INFO") THEN <<AtaInfo(all)>> ELSE <<>>,
               security |-> IF have("SECURITY_INFO")
                            THEN <<SecurityInfo(device.security)>> ELSE <<>>])

\* Mutant: a device that fails is skipped.
GetAnsweringStorageInfo(m, types) ==
  LET infos == SelectSeq([i \in DOMAIN m.disks |-> Storage(m.disks[i], types)], IsOk)
  IN  Ok([infos |-> [i \in DOMAIN infos |-> infos[i].value],
          ids   |-> FlattenSeq([i \in DOMAIN infos |-> infos[i].value.id])])

\* Errors are found in order; a device before the first failing one is lost with it.
GetStorageInfo(m, types) ==
  LET infos == AllOk([i \in DOMAIN m.disks |-> Storage(m.disks[i], types)])
  IN  IF ~SmartctlAnswers(m.scan) THEN Error
      ELSE IF ~IsOk(infos) THEN infos
      ELSE Ok([infos |-> infos.value,
               ids   |-> FlattenSeq([i \in DOMAIN infos.value |-> infos.value[i].id])])

GetNodeInfo(m, types) ==
  IF InfoTypeHave(types, "FRUS")
  THEN LET storage == GetStorageInfo(m, {"IDENTIFIER"})
       IN  IF IsOk(storage) THEN Ok([ids |-> storage.value.ids]) ELSE storage
  ELSE Ok([ids |-> <<>>])

\* Only that shutdown was run matters, not what it answered.
Reboot(m, type) ==
  IF type = "SOFT" /\ m.shutdown.ran THEN Ok([ids |-> <<>>]) ELSE Error

----------------------------------------------------------------------------
(* What the files and outputs of a machine are.                            *)

IsList(seq) == seq \in Seq(Range(seq))

\* A text is cut at its '%' signs into one piece at least.
IsText(text) == IsList(text) /\ text # <<>>

IsRanges(text) == text \in Seq(Seq(Int))

\* What the threads of a core have in common; dies number their cores on their own.
CoreId(m, c) == <<m.cpus[c].package, m.cpus[c].die, m.cpus[c].core>>

\* What the kernel lists: the nodes that have a directory are online, a node's list has
\* its processors, and a list of siblings that has its processor has those of its core.
IsLayout(m) ==
  LET Lists(text, set) ==
        LET list == ParseRangeListFile(text)
        IN  IsRanges(text) /\ (IsOk(list) => Range(list.value) = set)
      Siblings(c) ==
        LET list == ParseRangeListFile(m.cpus[c].siblings)
        IN  /\ IsRanges(m.cpus[c].siblings)
            /\ IsOk(list) /\ c \in Range(list.value) =>
                 Range(list.value) = {d \in DOMAIN m.cpus : CoreId(m, d) = CoreId(m, c)}
  IN  /\ Lists(m.online, DOMAIN m.cpulist)
      /\ \A n \in DOMAIN m.cpulist :
           Lists(m.cpulist[n], {c \in DOMAIN m.cpus : m.cpus[c].node = n})
      /\ \A c \in DOMAIN m.cpus : m.cpus[c].node \in DOMAIN m.cpulist /\ Siblings(c)

\* The files of a machine, and what its tools print.
IsMachine(m) ==
  /\ IsLayout(m)
  /\ IsList(m.dimms) /\ \A i \in DOMAIN m.dimms : IsText(m.dimms[i].locator)
  /\ IsList(m.ras.lines)
  /\ \A i \in DOMAIN m.ras.lines : m.ras.lines[i].time \in Int /\ IsText(m.ras.lines[i].label)
  /\ IsList(m.disks)
  /\ \A i \in DOMAIN m.disks : IsText(m.disks[i].all.serial) /\ IsText(m.disks[i].type)

============================================================================
