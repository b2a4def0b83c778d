----------------------------- MODULE NodeClient -----------------------------
(***************************************************************************)
(* hwinterface/client/node_client.cc: clients built from the               *)
(* configurations of NodeConfiguration.tla, each call dispatched to the    *)
(* backend of its method; HostBackend.tla answers for the host backend,    *)
(* any other backend is external.                                          *)
(*                                                                         *)
(* A client belongs to one thread: SelectBackend writes config_ and the    *)
(* host backend its SMBIOS reader without a lock.                          *)
(***************************************************************************)
EXTENDS NodeConfiguration, HostBackend

\* The machines have the files that the kernel makes, and tools that print what they do.
ASSUME MachinesAssumption ==
  \A inputs \in Inputs : \A input \in inputs : \A m \in input.machines : IsMachine(m)

VARIABLES
  entry,                  \* "Create" or "CreateClients"
  methods,                \* the methods its program calls
  resolver,               \* backend types with a builder
  connection,             \* mi_connection_type, PATH and where ssh is
  clients,                \* the clients built so far
  building,               \* the client being built, or <<>>
  stage,                  \* "load", "build", "ready", "failed", "killed"
  reply                   \* the last call and its answer, or <<>>

clientVars == <<entry, methods, resolver, connection, clients, building, stage, reply>>

vars == <<configVars, hostVars, clientVars>>

----------------------------------------------------------------------------
(* The interface.                                                          *)

HostMethods ==
  {"GetCpuInfo", "GetMemoryInfo", "GetErrors", "GetHwInfo", "Reboot", "MemoryConvert",
   "GetStorageInfo", "GetNodeInfo"}

\* Every method of the interface that a client dispatches to one backend.
ApiMethods ==
  HostMethods \cup
  {"GetSensors", "ClearErrors", "GetFanInfo", "SetFanPwm", "SetFanZone", "GetEepromInfo",
   "ReadEeprom", "SetDevicePower", "GetDevicePower", "GetStatus", "GetSystemInfo",
   "GetPcieInfo", "GetUsbInfo", "GetUpiInfo", "GetI2cInfo", "GetScsiInfo",
   "GetNvLinkInfo", "GetBootNumber", "GetSecurityChipInfo", "GetEcInfo",
   "GetFirmwareInfo", "GetNetworkInterfaceInfo", "GetPsuInfo", "GetGpuInfo",
   "GetNcsiInfo", "GetAcceleratorInfo"}

\* What the interface answers for a method its class does not define.
Unimplemented(backend) == [status |-> "unimplemented"]

DefaultBuilderResolver == {"HOST"}

----------------------------------------------------------------------------
(* Creation.                                                               *)

\* The last directory of PATH, which no ':' follows, is not looked at.
GetSSHPath ==
  \E i \in 1..(Len(connection.path) - 1) :
    connection.path[i] \in {"/bin", "/usr/bin"} \cap connection.ssh

\* remote::NewConn for a host address that is not empty.
NewConnSucceeds == connection.type = "ssh" /\ GetSSHPath

\* LocalHostAdapter for the empty address, else a RemoteHostAdapter.
AdapterSucceeds(config) == config.host # "" => NewConnSucceeds

MethodBackends(config) == {config.methods[m] : m \in DOMAIN config.methods}

ClientInit ==
  /\ \E inputs \in Inputs : \E input \in inputs :
       /\ ConfigInit(input)
       /\ machine \in input.machines /\ dmiReadable = TRUE /\ smbios = {}
       /\ entry = input.entry /\ connection = input.connection
       /\ methods = input.methods
       /\ resolver = IF entry = "CreateClients" THEN DefaultBuilderResolver
                     ELSE input.resolver
  /\ clients = <<>> /\ building = <<>> /\ stage = "load" /\ reply = <<>>

Load ==
  /\ stage = "load"
  /\ LoadConfigs
  /\ UNCHANGED <<hostVars, clientVars>>

\* LoadConfig, for Create, wants exactly one node.
Loaded ==
  /\ stage = "load" /\ loading \in {"loaded", "failed", "exited"}
  /\ stage' = IF loading = "loaded" /\ (entry = "Create" => Len(configs) = 1)
              THEN "build" ELSE "failed"
  /\ UNCHANGED <<configVars, hostVars, entry, methods, resolver, connection, clients, building, reply>>

BeginClient ==
  /\ stage = "build" /\ building = <<>> /\ Len(clients) < Len(configs)
  /\ building' = [config |-> configs[Len(clients) + 1], backends |-> {}]
  /\ UNCHANGED <<configVars, hostVars, entry, methods, resolver, connection, clients, stage, reply>>

\* Mutant: the clients built before the failure stay.
FailAtClient == stage' = "failed" /\ building' = <<>> /\ UNCHANGED clients

\* A failure anywhere gives up the clients built before it.
Fail == stage' = "failed" /\ building' = <<>> /\ clients' = <<>>

\* The default backend first, then those of the methods, in any order of the map.
NextBackends ==
  IF building.backends = {} THEN {building.config.backend}
  ELSE MethodBackends(building.config) \ building.backends

\* A type without a builder is not found; the host's builder makes an adapter, other
\* builders are external and may fail.
AddBackend(b) ==
  /\ stage = "build" /\ building # <<>> /\ b \in NextBackends
  /\ \/ /\ b \in resolver
        /\ b = "HOST" => AdapterSucceeds(building.config)
        /\ building' = [building EXCEPT !.backends = @ \cup {b}]
        /\ UNCHANGED <<clients, stage>>
     \/ /\ b \notin resolver \/ (b = "HOST" => ~AdapterSucceeds(building.config))
        /\ Fail
  /\ UNCHANGED <<configVars, hostVars, entry, methods, resolver, connection, reply>>

\* The client's own host adapter, once every backend is there.
FinishClient ==
  /\ stage = "build" /\ building # <<>>
  /\ building.backends # {} /\ NextBackends = {}
  /\ IF AdapterSucceeds(building.config)
     THEN /\ clients' = Append(clients, building)
          /\ building' = <<>> /\ UNCHANGED stage
     ELSE Fail
  /\ UNCHANGED <<configVars, hostVars, entry, methods, resolver, connection, reply>>

Return ==
  /\ stage = "build" /\ building = <<>> /\ Len(clients) = Len(configs)
  /\ stage' = "ready"
  /\ UNCHANGED <<configVars, hostVars, entry, methods, resolver, connection, clients, building, reply>>

Create == Loaded \/ BeginClient \/ FinishClient \/ Return
          \/ \E b \in {"UNKNOWN", "HOST", "FAKE", "REDFISH", "GSYS"} : AddBackend(b)

----------------------------------------------------------------------------
(* Calls.                                                                  *)

\* Mutant: operator[] without the substitution of the default backend.
SelectedRaw(config, m) ==
  IF m \in DOMAIN config.methods THEN config.methods[m] ELSE "UNKNOWN"

\* SelectBackend: operator[] puts the method in the map of the client's config, and
\* the unknown backend becomes the default one.
Selected(config, m) ==
  IF m \in DOMAIN config.methods /\ config.methods[m] # "UNKNOWN"
  THEN config.methods[m] ELSE config.backend

\* Mutant: the default backend is the one written.
SelectAsDefault(n, m) ==
  clients' = [clients EXCEPT ![n].config.backend = Selected(clients[n].config, m)]

\* A map after operator[] of the key has been assigned the value.
Assigned(map, key, value) ==
  [k \in {key} \cup DOMAIN map |-> IF k = key THEN value ELSE map[k]]

SelectBackend(n, m) ==
  clients' = [clients EXCEPT ![n].config.methods =
                Assigned(@, m, Selected(clients[n].config, m))]

\* A call of client n; backends_.at throws when the backend was not built.
Call(n, m, request, HostAnswer) ==
  LET backend == Selected(clients[n].config, m)
      answer == IF backend \notin clients[n].backends THEN Killed
                ELSE IF backend # "HOST" THEN [status |-> "external"]
                ELSE IF m \in HostMethods THEN HostAnswer
                ELSE Unimplemented(backend)
  IN  /\ stage = "ready" /\ n \in DOMAIN clients /\ m \in methods
      /\ SelectBackend(n, m)
      /\ reply' = [client |-> n, method |-> m, backend |-> backend, request |-> request,
                   answer |-> answer]
      /\ stage' = IF answer.status = "killed" THEN "killed" ELSE stage
      /\ UNCHANGED <<configVars, machine, dmiReadable, entry, methods, resolver, connection,
                     building>>

\* A call that needs no reader of the SMBIOS table.
PlainCall(n, m, request, HostAnswer) ==
  Call(n, m, request, HostAnswer) /\ UNCHANGED smbios

\* GetSmbiosReader: made at the first success and kept.
SmbiosCall(n, m, request, HostAnswer) ==
  /\ Call(n, m, request, IF n \in smbios \/ dmiReadable THEN HostAnswer ELSE Error)
  /\ smbios' = IF dmiReadable /\ Selected(clients[n].config, m) = "HOST"
               THEN smbios \cup {n} ELSE smbios

CallGetCpuInfo(n) ==
  \E types \in {{}} \cup {{type} : type \in CpuTypes} :
    PlainCall(n, "GetCpuInfo", types, GetCpuInfo(machine, types))

CallGetMemoryInfo(n) ==
  \E types \in {{}, {"SIZE"}, {"PRESENCE", "DIMM_IDENTIFIER"}} :
    SmbiosCall(n, "GetMemoryInfo", types, GetMemoryInfo(machine, types))

CallMemoryConvert(n) ==
  \E address \in machine.addresses :
    SmbiosCall(n, "MemoryConvert", address, MemoryConvert(machine, address))

CallGetErrors(n) ==
  \E filter \in {<<>>, <<1, 2>>, <<2, 2>>}, sources \in {{}, {"OTHER"}} :
    PlainCall(n, "GetErrors", [filter |-> filter, sources |-> sources],
              GetErrors(machine, filter, sources))

StorageTypes ==
  {"SYSTEM_INFO", "IDENTIFIER", "DEVICE_TYPE", "ATA_INFO", "SECURITY_INFO"}

CallGetStorageInfo(n) ==
  \E types \in {{}} \cup {{type} : type \in StorageTypes} :
    PlainCall(n, "GetStorageInfo", types, GetStorageInfo(machine, types))

CallGetNodeInfo(n) ==
  \E types \in {{}, {"OTHER"}} :
    PlainCall(n, "GetNodeInfo", types, GetNodeInfo(machine, types))

\* The caller asks about identifiers of the last answer, and of one that has no '%'.
CallGetHwInfo(n) ==
  \E ids \in {<<>>, NoText} \cup
             IF reply # <<>> /\ reply.answer.status = "ok" /\ reply.method # "GetHwInfo"
             THEN {[i \in DOMAIN reply.answer.value.ids |->
                      PopulateId(reply.answer.value.ids[i])]} ELSE {} :
    PlainCall(n, "GetHwInfo", ids, GetHwInfo(ids))

CallReboot(n) ==
  \E type \in {"SOFT", "HARD", "UNKNOWN"} :
    PlainCall(n, "Reboot", type, Reboot(machine, type))

\* Any other method of the interface.
CallOther(n) ==
  \E m \in methods \ HostMethods : PlainCall(n, m, {}, Error)

\* GetVersion asks every backend; the first that fails fails the call.
CallGetVersion(n) ==
  /\ stage = "ready" /\ n \in DOMAIN clients
  /\ \/ reply' = [client |-> n, method |-> "GetVersion",
                  answer |-> [status |-> "versions", value |-> clients[n].backends]]
     \/ /\ clients[n].backends # {"HOST"}
        /\ reply' = [client |-> n, method |-> "GetVersion", answer |-> Error]
  /\ UNCHANGED <<configVars, hostVars, entry, methods, resolver, connection, clients, building, stage>>

\* The DMI table can become unreadable, and readable again (a remote host).
DmiTable ==
  /\ stage = "ready" /\ methods \cap {"GetMemoryInfo", "MemoryConvert"} # {}
  /\ dmiReadable' = ~dmiReadable
  /\ reply' = <<>>
  /\ UNCHANGED <<configVars, machine, smbios, entry, methods, resolver, connection,
                 clients, building, stage>>

Calls ==
  \E n \in DOMAIN clients :
    \/ CallGetCpuInfo(n) \/ CallGetMemoryInfo(n) \/ CallMemoryConvert(n)
    \/ CallGetErrors(n) \/ CallGetStorageInfo(n) \/ CallGetNodeInfo(n)
    \/ CallGetHwInfo(n) \/ CallReboot(n) \/ CallOther(n) \/ CallGetVersion(n)

Next == Load \/ Create \/ Calls \/ DmiTable

Spec == ClientInit /\ [][Next]_vars

----------------------------------------------------------------------------
(* Properties of the clients.                                              *)

Answered(m) == reply # <<>> /\ reply.method = m /\ reply.answer.status = "ok"

\* Creation is all or nothing (node_client.cc:272-337): callers get every node of the
\* configuration in its order, each with its default backend and every backend a method
\* is configured for, or they get no client at all.
EveryNodeOrNone ==
  /\ stage \in {"load", "failed"} => clients = <<>>
  /\ stage \in {"ready", "killed"} =>
       /\ Len(clients) = Len(configs)
       /\ \A n \in DOMAIN clients :
            clients[n].backends = {configs[n].backend} \cup MethodBackends(configs[n])

\* A call reaches the backend the configuration names for its method, and that backend
\* exists: backends_.at never throws (node_client.cc:353-361), though SelectBackend
\* rewrites the configuration it reads.
CallsReachConfiguredBackend ==
  reply # <<>> /\ reply.method # "GetVersion" =>
    LET given == configs[reply.client]
        explicit == reply.method \in DOMAIN given.methods
    IN  /\ reply.backend = IF explicit THEN given.methods[reply.method] ELSE given.backend
        /\ reply.backend \in clients[reply.client].backends

\* No call changes where any method is sent, on this client or another, and none adds
\* or drops a backend (node_client.cc:353-361).
RoutingNeverChanges ==
  [][stage = "ready" =>
       \A n \in DOMAIN clients :
         /\ clients'[n].backends = clients[n].backends
         /\ \A m \in ApiMethods :
              Selected(clients'[n].config, m) = Selected(clients[n].config, m)]_vars

----------------------------------------------------------------------------
(* Properties of the host backend.                                         *)

\* The processors the machine has online, with the NUMA node that lists them.
Online == {o \in (DOMAIN machine.cpulist) \X (DOMAIN machine.cpus) :
             machine.cpus[o[2]].node = o[1]}

\* The renumbering of sockets and cores (cpu.cc:146-190) neither merges nor splits:
\* every online processor appears once, two share a socket number exactly when they
\* share a package, two of a NUMA node share a core number exactly when they share a
\* core id (cores of several dies may), sockets are numbered without a gap, and the
\* counts are those of packages and of cores, each a package, a die and a core id.
TopologyIsFaithful ==
  Answered("GetCpuInfo") /\ reply.answer.value.lpus # <<>> =>
    LET lpus == reply.answer.value.lpus
        counts == reply.answer.value.counts
        Hw(i) == machine.cpus[lpus[i].cpu]
        packages == {machine.cpus[o[2]].package : o \in Online}
        cores == {CoreId(machine, o[2]) : o \in Online}
    IN  /\ {<<lpus[i].node, lpus[i].cpu>> : i \in DOMAIN lpus} = Online
        /\ Len(lpus) = Cardinality(Online)
        /\ \A i, j \in DOMAIN lpus :
             /\ lpus[i].socket = lpus[j].socket <=> Hw(i).package = Hw(j).package
             /\ lpus[i].node = lpus[j].node =>
                  (lpus[i].core = lpus[j].core <=> Hw(i).core = Hw(j).core)
        /\ {lpus[i].socket : i \in DOMAIN lpus} = 0..(Cardinality(packages) - 1)
        /\ counts.sockets = Cardinality(packages)
        /\ counts.physical = Cardinality(cores)

\* What is reported is what the log of the RAS daemon says (error.cc:106-142,
\* host_backend.cc:175-223): whole reports only, every event of the window with a known
\* DIMM, in order, and nothing else; a report cut short is never taken for a clean one.
ErrorsAreThoseOfTheReport ==
  Answered("GetErrors") =>
    LET lines == machine.ras.lines
        ends == IF lines[1].kind = "none" THEN {1}
                ELSE {k \in DOMAIN lines : lines[k].kind = "blank"}
        end == CHOOSE k \in ends \cup {Len(lines)} : \A j \in ends : k <= j
        filter == reply.request.filter
        events == {k \in 2..(end - 1) :
                     /\ lines[k].error # "Info" /\ lines[k].label # UnknownMemory
                     /\ filter # <<>> => lines[k].time \in (filter[1] + 1)..filter[2]}
        errors == reply.answer.value.errors
    IN  /\ end < Len(lines)
        /\ \A k \in 2..(end - 1) : lines[k].kind = "record"
        /\ Len(errors) = IF reply.request.sources = {} THEN Cardinality(events) ELSE 0
        /\ \A i \in DOMAIN errors :
             \E k \in events : /\ errors[i] = lines[k]
                               /\ i = Cardinality({j \in events : j <= k})

\* An id handed out by any API resolves to the identifier it stands for, or GetHwInfo
\* refuses it because a field holds a '%'; it never resolves to another one
\* (hw_info.cc:83-115).
IdsResolveToTheirIdentifier ==
  reply # <<>> /\ reply.answer.status = "ok" /\ reply.method # "GetHwInfo" =>
    \A i \in DOMAIN reply.answer.value.ids :
      LET identifier == reply.answer.value.ids[i]
          resolved == UnmarshalIdentifier(PopulateId(identifier))
      IN  IF \A f \in DOMAIN identifier : Len(identifier[f]) = 1
          THEN resolved = Ok(identifier) ELSE resolved = Error

\* Storage answers are complete (storage_info.cc:241-292): one entry per device that the
\* scan lists, in its order, with its serial number and security level, or no answer at
\* all; and GetNodeInfo lists the same devices.
StorageIsComplete ==
  /\ Answered("GetStorageInfo") =>
       LET infos == reply.answer.value.infos
           have(type) == reply.request = {} \/ type \in reply.request
       IN  /\ Len(infos) = Len(machine.disks)
           /\ \A i \in DOMAIN infos :
                /\ have("IDENTIFIER") => infos[i].id[1].name = machine.disks[i].all.serial
                /\ have("SECURITY_INFO") /\ machine.disks[i].security.enabled =>
                     infos[i].security[1].level = machine.disks[i].security.level
  /\ Answered("GetNodeInfo") /\ reply.request = {} =>
       [i \in DOMAIN reply.answer.value.ids |-> reply.answer.value.ids[i].name]
         = [i \in DOMAIN machine.disks |-> machine.disks[i].all.serial]

============================================================================
