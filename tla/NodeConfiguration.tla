------------------------- MODULE NodeConfiguration -------------------------
(***************************************************************************)
(* Which nodes there are, and the backend of each: the flags of            *)
(* hwinterface/service_flags.cc, the configuration file and LoadConfigs of *)
(* hwinterface/client/node_client.cc.                                      *)
(*                                                                         *)
(* Texts of flags are members of small sets; the text of a node override   *)
(* is the record of the parts its regular expression separates.  Proxies   *)
(* are left out: the only value of the type is PROXYTYPE_NONE.             *)
(***************************************************************************)
EXTENDS Naturals, FiniteSets, Sequences, SequencesExt, TLC

CONSTANT Inputs           \* sets of command lines and files to try, see MCNodeClient

VARIABLES
  flags,                  \* the texts of the command line
  file,                   \* the file hwinterface_config_file_path names
  options,                \* the parsed flags
  configs,                \* EntityConfigurations being built
  applied,                \* how many overrides of mhi_config are applied
  loading                 \* "flags", "file", "multi", "single", "loaded",
                          \* "failed", "exited"

configVars == <<flags, file, options, configs, applied, loading>>

\* An EntityConfiguration has every field; a field that is not set has its default.
IsConfiguration(c) ==
  c = [host |-> c.host, backend |-> c.backend, target |-> c.target, port |-> c.port,
       auth |-> c.auth, cache |-> c.cache, query |-> c.query, methods |-> c.methods]

IsConfigurations(nodes) ==
  nodes \in Seq(Range(nodes)) /\ \A i \in DOMAIN nodes : IsConfiguration(nodes[i])

\* Files hold sequences of configurations, and nobody registers a builder for the
\* backend type that stands for none.  The regular expression of an override wants a
\* target.
ASSUME InputsAssumption ==
  \A inputs \in Inputs : \A input \in inputs :
    /\ IsConfigurations(input.file.nodes)
    /\ input.file.state \in {"missing", "malformed", "empty", "json"}
    /\ "UNKNOWN" \notin input.resolver
    /\ input.flags.mhi \in Seq(Range(input.flags.mhi))
    /\ \A i \in DOMAIN input.flags.mhi :
         input.flags.mhi[i].malformed \/ input.flags.mhi[i].target # ""

----------------------------------------------------------------------------
(* The values of flags.                                                    *)

\* absl::AsciiStrToLower on the texts that name an authentication method.
Lower(text) ==
  CASE text \in {"TLS", "Tls"} -> "tls" [] text = "Basic" -> "basic" [] OTHER -> text

Parsed(value) == [ok |-> TRUE, value |-> value]
Rejected == [ok |-> FALSE]

\* The value a table of accepted texts gives.
Lookup(table, text) ==
  IF text \in DOMAIN table THEN Parsed(table[text]) ELSE Rejected

AuthMethodOf(text) ==
  Lookup("" :> "DEFAULT" @@ "default" :> "DEFAULT" @@ "basic" :> "BASIC"
         @@ "tls" :> "TLS", Lower(text))

BackendTypeOf(text) ==
  Lookup("" :> "UNKNOWN" @@ "unknown" :> "UNKNOWN" @@ "host" :> "HOST"
         @@ "fake" :> "FAKE" @@ "redfish" :> "REDFISH" @@ "gsys" :> "GSYS", text)

\* Optional flags: the empty text is no value.  A type the parser does not know,
\* or time_based_cache without a number, is a policy with neither field set.
CachePolicyOf(text) ==
  CASE text = "" -> Parsed("unset")
    [] text = "no_cache" -> Parsed("no_cache")
    [] text = "time_based_cache:5" -> Parsed("time")
    [] text \in {"time_based_cache", "other", "other:5"} -> Parsed("neither")
    [] OTHER -> Rejected                 \* such as "no_cache:"

\* A list of <resource>:<query>; other resources than sensor_query are ignored,
\* yet the flag then has a value: overrides with an empty query.
QueryOverridesOf(items) ==
  IF items = <<>> THEN Parsed("unset")
  ELSE IF \E i \in DOMAIN items : items[i].malformed THEN Rejected
  ELSE Parsed(FoldLeft(LAMBDA query, item :
                         IF item.resource = "sensor_query" THEN item.query ELSE query,
                       "", items))

\* One <backend>://<target>:<port>[:<auth>] of mhi_config.
ParseOverride(text) ==
  IF \/ text.malformed
     \/ ~BackendTypeOf(text.backend).ok
     \/ ~AuthMethodOf(text.auth).ok
  THEN Rejected
  ELSE Parsed([backend |-> BackendTypeOf(text.backend).value, target |-> text.target,
               port |-> text.port, auth |-> AuthMethodOf(text.auth).value,
               cache |-> "unset", query |-> "unset"])

ParseOverrides(texts) ==
  IF \A i \in DOMAIN texts : ParseOverride(texts[i]).ok
  THEN Parsed([i \in DOMAIN texts |-> ParseOverride(texts[i]).value])
  ELSE Rejected

----------------------------------------------------------------------------
(* Configurations.                                                         *)

\* An EntityConfiguration as add_node_entity_configurations makes it.
EmptyConfiguration ==
  [host |-> "", backend |-> "UNKNOWN", target |-> "", port |-> 0,
   auth |-> "DEFAULT", cache |-> "neither", query |-> "", methods |-> <<>>]

IsOobBackend(backend) == backend = "REDFISH"

\* A setting of the override, unless the override does not give it.
Given(new, ungiven, old) == IF new \in ungiven THEN old ELSE new

\* Mutant: a port that is not given overwrites the configured one.
ApplyOobOverrideAlways(config, o) ==
  [config EXCEPT !.backend = o.backend, !.port = o.port]

ApplyOobOverride(config, o) ==
  [config EXCEPT !.backend = o.backend,
                 !.port    = Given(o.port, {0}, @),
                 !.target  = Given(o.target, {""}, @),
                 !.auth    = Given(o.auth, {"DEFAULT"}, @),
                 !.cache   = Given(o.cache, {"unset", "neither"}, @),
                 !.query   = Given(o.query, {"unset"}, @)]

ApplyIbOverride(config, o) ==
  [config EXCEPT !.backend = o.backend, !.host = Given(o.target, {""}, @)]

ApplyOverride(config, o) ==
  IF IsOobBackend(o.backend) THEN ApplyOobOverride(config, o)
  ELSE ApplyIbOverride(config, o)

Matches(config, o) ==
  o.target = IF IsOobBackend(o.backend) THEN config.target ELSE config.host

\* Mutant: only the first node of the target is overridden.
ApplyFirstNodeOverride(nodes, o) ==
  LET i == SelectInSeq(nodes, LAMBDA config : Matches(config, o))
  IN  IF i = 0 THEN Append(nodes, ApplyOverride(EmptyConfiguration, o))
      ELSE [nodes EXCEPT ![i] = ApplyOverride(@, o)]

\* Every configuration of the override's target, or else a new one.
ApplyNodeOverride(nodes, o) ==
  IF \E i \in DOMAIN nodes : Matches(nodes[i], o)
  THEN [i \in DOMAIN nodes |->
          IF Matches(nodes[i], o) THEN ApplyOverride(nodes[i], o) ELSE nodes[i]]
  ELSE Append(nodes, ApplyOverride(EmptyConfiguration, o))

\* The single-node flags, on the only configuration or on a new one.
SingleNodeOverride(nodes, o) ==
  LET config == IF nodes = <<>> THEN EmptyConfiguration ELSE nodes[1]
      known  == IF config.backend = "UNKNOWN" THEN "HOST" ELSE config.backend
  IN  <<ApplyOverride(config, [o EXCEPT !.backend = Given(@, {"UNKNOWN"}, known)])>>

----------------------------------------------------------------------------
(* LoadConfigs, one override per step.                                     *)

ConfigInit(input) ==
  /\ flags = input.flags /\ file = input.file
  /\ options = <<>> /\ configs = <<>> /\ applied = 0
  /\ loading = "flags"

\* Abseil parses the command line before main; a text it rejects ends the program.
ParseFlags ==
  LET mhi     == ParseOverrides(flags.mhi)
      backend == BackendTypeOf(flags.backend)
      auth    == AuthMethodOf(flags.auth)
      cache   == CachePolicyOf(flags.cache)
      query   == QueryOverridesOf(flags.query)
  IN  /\ loading = "flags"
      /\ IF mhi.ok /\ backend.ok /\ auth.ok /\ cache.ok /\ query.ok
         THEN /\ options' = [mhi |-> mhi.value,
                             single |-> [backend |-> backend.value,
                                         target |-> flags.target, port |-> flags.port,
                                         auth |-> auth.value, cache |-> cache.value,
                                         query |-> query.value]]
              /\ loading' = "file"
         ELSE loading' = "exited" /\ UNCHANGED options
      /\ UNCHANGED <<flags, file, configs, applied>>

\* JsonFileToMessage, overwriting: an empty file is not an error and leaves the
\* message as it was, one that does not parse leaves it too.
ReadFile ==
  /\ loading = "file"
  /\ CASE flags.path = "" -> loading' = "multi" /\ UNCHANGED configs
       [] flags.path # "" /\ file.state \in {"missing", "malformed"} ->
            loading' = "failed" /\ UNCHANGED configs
       [] flags.path # "" /\ file.state = "empty" ->
            loading' = "multi" /\ UNCHANGED configs
       [] OTHER -> loading' = "multi" /\ configs' = file.nodes
  /\ UNCHANGED <<flags, file, options, applied>>

ApplyMultiNodeOverrides ==
  /\ loading = "multi"
  /\ IF applied < Len(options.mhi)
     THEN /\ configs' = ApplyNodeOverride(configs, options.mhi[applied + 1])
          /\ applied' = applied + 1
          /\ UNCHANGED loading
     ELSE /\ loading' = IF options.mhi = <<>> /\ Len(configs) \in {0, 1}
                        THEN "single" ELSE "loaded"
          /\ UNCHANGED <<configs, applied>>
  /\ UNCHANGED <<flags, file, options>>

ApplySingleNodeOverride ==
  /\ loading = "single"
  /\ configs' = SingleNodeOverride(configs, options.single)
  /\ loading' = "loaded"
  /\ UNCHANGED <<flags, file, options, applied>>

LoadConfigs ==
  ParseFlags \/ ReadFile \/ ApplyMultiNodeOverrides \/ ApplySingleNodeOverride

----------------------------------------------------------------------------
(* Properties.                                                             *)

\* The nodes of the file, as the program read them.
FileNodes ==
  IF flags.path # "" /\ file.state = "json" THEN file.nodes ELSE <<>>

\* What an override is about: an address of a host or of a management controller.
Address(o) == <<IsOobBackend(o.backend), o.target>>
Addresses(config) == {<<FALSE, config.host>>, <<TRUE, config.target>>}

SetMax(S) == CHOOSE n \in S : \A m \in S : m <= n

\* The overrides applied so far that are about this node.
OverridesOf(config) ==
  {k \in 1..applied : Address(options.mhi[k]) \in Addresses(config)}

\* At every moment each node has the backend of the last override about one of its
\* addresses, which no override changes, and without one the backend of the file.
BackendOfLast ==
  \A i \in DOMAIN configs :
    LET ks == OverridesOf(configs[i])
    IN  /\ i <= Len(FileNodes) =>
             /\ Addresses(configs[i]) = Addresses(FileNodes[i])
             /\ configs[i].methods = FileNodes[i].methods
        /\ configs[i].backend = IF ks = {} THEN FileNodes[i].backend
                                ELSE options.mhi[SetMax(ks)].backend

\* Settings of Redfish survive the overrides that do not give them: the port of a node
\* is that of the last override about its controller that gave one, and the file's if
\* none did; an in-band override leaves it alone.
PortOfLastGiven ==
  \A i \in DOMAIN configs :
    LET ks == {k \in OverridesOf(configs[i]) :
                 IsOobBackend(options.mhi[k].backend) /\ options.mhi[k].port # 0}
    IN  configs[i].port =
          IF ks # {} THEN options.mhi[SetMax(ks)].port
          ELSE IF i <= Len(FileNodes) THEN FileNodes[i].port ELSE 0

\* An override never splits or merges nodes: those of the file stay, in order, and
\* each address the file does not have adds exactly one.
OneNodePerNewAddress ==
  LET new == {Address(options.mhi[k]) : k \in 1..applied}
             \ UNION {Addresses(FileNodes[i]) : i \in DOMAIN FileNodes}
  IN  Len(configs) = Len(FileNodes) + Cardinality(new)

\* The order of the flags decides which backend a call reaches (node_client.cc:206-223,
\* "the last override will be applied as the default backend"), on every node that has
\* the address (node_client.cc:48-91, 173-204).
LastOverrideDecides ==
  loading = "multi" => BackendOfLast /\ PortOfLastGiven /\ OneNodePerNewAddress

============================================================================
