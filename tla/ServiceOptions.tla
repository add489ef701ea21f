--------------------------- MODULE ServiceOptions ---------------------------
(***************************************************************************)
(* How a service is put together before it starts: the options of          *)
(* options.go, the command line of util/cmd/cmd.go, and the Init functions *)
(* of client, server, selector and broker that they call.                  *)
(*                                                                         *)
(* A service points to its parts, and parts point to each other: client    *)
(* and server have a registry, a broker and a transport, the client a      *)
(* selector and a pool, the selector and the broker a registry.  An option *)
(* or a flag changes one of them and tells the others.  Objects ending in  *)
(* 0 are the package defaults, in 1 what a program makes, in f what a flag *)
(* makes.  A flag names a type: that of what the program makes, another    *)
(* one, or one that nobody knows.                                          *)
(***************************************************************************)
EXTENDS WebService

CONSTANT SoMaxOptions    \* bound on the options a program gives

SoSlots == {"registry", "broker", "transport"}
SoMade == [registry |-> "r1", broker |-> "b1", transport |-> "t1",
           client |-> "c1", server |-> "v1", selector |-> "s1"]
SoByFlag == [registry |-> "rf", broker |-> "bf", transport |-> "tf",
             client |-> "cf", server |-> "vf", selector |-> "sf"]
SoFlagValues == {"unset", "made", "other", "unknown"}
SoNone == "none"

VARIABLES soPc,          \* options, the steps of Before, ready, failed
          soSvc,         \* Options of the service
          soClient,      \* client -> its options, and the transport of its pool
          soServer,      \* server -> its options
          soSelector,    \* selector -> registry of its cache
          soBroker,      \* broker -> registry
          soDefault,     \* selector.DefaultSelector, which the command line has
          soFlags,       \* flag -> value
          soPending,     \* "client", "server" -> slot -> option collected by Before
          soTable,       \* the table of the store
          soCount,       \* options given
          soLoose        \* history: part, slot -> the part came after the slot was set

soParts == <<soSvc, soClient, soServer, soSelector, soBroker, soDefault>>
soCmd == <<soPc, soFlags, soPending, soTable>>
soVars == <<soParts, soCmd, soCount, soLoose>>

SoNoPending == [registry |-> SoNone, broker |-> SoNone, transport |-> SoNone, selector |-> SoNone]

(* NewOptions of the client takes the defaults of the moment.              *)
SoNewClient == [registry |-> "r0", broker |-> "b0", transport |-> "t0", selector |-> "s0",
                pool |-> "t0"]
SoNewServer == [registry |-> "r0", broker |-> "b0", transport |-> "t0", ttl |-> "default"]

ServiceOptionsInit ==
  /\ soPc = "options" /\ soCount = 0 /\ soLoose = {} /\ soDefault = "s0"
  /\ soSvc = [registry |-> "r0", broker |-> "b0", transport |-> "t0", client |-> "c0",
              server |-> "v0"]
  /\ soClient = [c \in {"c0", "c1", "cf"} |-> SoNewClient]
  /\ soServer = [v \in {"v0", "v1", "vf"} |-> SoNewServer]
  /\ soSelector = [s \in {"s0", "s1", "sf"} |-> "r0"]
  /\ soBroker = [b \in {"b0", "b1", "bf"} |-> "r0"]
  /\ soFlags = [registry |-> "unset"] /\ soTable = SoNone
  /\ soPending = [p \in {"client", "server"} |-> SoNoPending]

-----------------------------------------------------------------------------
(* Init of a part, with the options pend (a slot without one is SoNone).   *)

SoSet(pend, slot, old) == IF pend[slot] = SoNone THEN old ELSE pend[slot]

(* Init of the server.                                                     *)
SoServerInit(v, pend) ==
  LET old == soServer[v]
  IN  [soServer EXCEPT ![v] = [old EXCEPT !.registry = SoSet(pend, "registry", old.registry),
                                          !.broker = SoSet(pend, "broker", old.broker),
                                          !.transport = SoSet(pend, "transport", old.transport)]]

(* Init of the client: a new transport makes a new pool.                   *)
SoClientInit(c, pend) ==
  LET old == soClient[c]
  IN  [soClient EXCEPT ![c] = [old EXCEPT !.registry = SoSet(pend, "registry", old.registry),
                                          !.broker = SoSet(pend, "broker", old.broker),
                                          !.transport = SoSet(pend, "transport", old.transport),
                                          !.pool = SoSet(pend, "transport", old.pool),
                                          !.selector = SoSet(pend, "selector", old.selector)]]

(* Mutant: the registry is set in the client and not in its selector.      *)
SoSelectorToldNot(c, pend) == soSelector

(* client.Registry also sets the registry of the selector the client has.  *)
SoSelectorTold(c, pend) ==
  IF pend["registry"] = SoNone THEN soSelector
  ELSE [soSelector EXCEPT ![soClient[c].selector] = pend["registry"]]

SoOne(slot, x) == [SoNoPending EXCEPT ![slot] = x]

-----------------------------------------------------------------------------
(* The options of a service.                                               *)

SoGive == soPc \in {"options", "ready"} /\ soCount < SoMaxOptions /\ soCount' = soCount + 1

(* Registry, Broker and Transport: the service, its client, its server,    *)
(* and the registry also the broker.                                       *)
SoOption(slot, x) ==
  /\ SoGive
  /\ soSvc' = [soSvc EXCEPT ![slot] = x]
  /\ soClient' = SoClientInit(soSvc.client, SoOne(slot, x))
  /\ soServer' = SoServerInit(soSvc.server, SoOne(slot, x))
  /\ soSelector' = SoSelectorTold(soSvc.client, SoOne(slot, x))
  /\ soBroker' = IF slot = "registry" THEN [soBroker EXCEPT ![soSvc.broker] = x] ELSE soBroker
  /\ soLoose' = LET kept == {l \in soLoose : l[2] # slot}
                IN  IF slot = "broker" THEN kept \cup {<<"broker", "registry">>} ELSE kept
  /\ UNCHANGED <<soDefault, soCmd>>

(* Client and Server: the part as it is.                                   *)
SoReplace(part, x) ==
  /\ SoGive
  /\ soSvc' = [soSvc EXCEPT ![part] = x]
  /\ soLoose' = soLoose \cup {<<part, slot>> : slot \in SoSlots}
                        \cup (IF part = "client" THEN {<<"selector", "registry">>} ELSE {})
  /\ UNCHANGED <<soClient, soServer, soSelector, soBroker, soDefault, soCmd>>

(* Selector, of the client.                                                *)
SoSelect(x) ==
  /\ SoGive
  /\ soClient' = SoClientInit(soSvc.client, SoOne("selector", x))
  /\ soLoose' = soLoose \cup {<<"selector", "registry">>}
  /\ UNCHANGED <<soSvc, soServer, soSelector, soBroker, soDefault, soCmd>>

(* RegisterTTL, and the other options that only the server has.            *)
SoRegisterTTL ==
  /\ SoGive
  /\ soServer' = [soServer EXCEPT ![soSvc.server].ttl = "code"]
  /\ UNCHANGED <<soSvc, soClient, soSelector, soBroker, soDefault, soCmd, soLoose>>

-----------------------------------------------------------------------------
(* Before, which cmd.Init runs on the first Init of the service.           *)

SoStep(from, to) == soPc = from /\ soPc' = to /\ UNCHANGED soCount

(* A flag names the type in use.                                           *)
SoNamesSame(flag, part, current) == flag = "made" /\ current = SoMade[part]

(* The flags of client and server: new ones if the type differs, and an    *)
(* unknown name changes nothing.                                           *)
SoSwaps(part, flags) ==
  flags[part] \in {"made", "other"} /\ ~SoNamesSame(flags[part], part, soSvc[part])
SoBegin(flags) ==
  /\ SoStep("options", "others")
  /\ soFlags' = flags
  /\ soSvc' = [p \in DOMAIN soSvc |->
                 IF p \in {"client", "server"} /\ SoSwaps(p, flags) THEN SoByFlag[p] ELSE soSvc[p]]
  /\ soLoose' = soLoose \cup
       {<<p, slot>> : p \in {q \in {"client", "server"} : SoSwaps(q, flags)}, slot \in SoSlots}
       \cup (IF SoSwaps("client", flags) THEN {<<"selector", "registry">>} ELSE {})
  /\ UNCHANGED <<soClient, soServer, soSelector, soBroker, soDefault, soPending, soTable>>

(* The flags of store, runtime, tracer and auth make a new one whatever    *)
(* the type in use; an unknown name ends the program.                      *)
SoOthers ==
  /\ SoStep("others", IF soFlags.other = "unknown" THEN "failed" ELSE "registry")
  /\ UNCHANGED <<soParts, soFlags, soPending, soTable, soLoose>>

(* A flag that names the type in use does nothing; any other name asks for *)
(* a new part, whoever gave the one in use, and an unknown one ends the    *)
(* program.                                                                *)
SoAsks(slot, current) == soFlags[slot] # "unset" /\ ~SoNamesSame(soFlags[slot], slot, current)
SoUnknown(slot, from, current) ==
  /\ SoStep(from, "failed")
  /\ SoAsks(slot, current) /\ soFlags[slot] = "unknown"
  /\ UNCHANGED <<soParts, soFlags, soPending, soTable, soLoose>>

SoCollect(slot) ==
  [p \in {"client", "server"} |-> [soPending[p] EXCEPT ![slot] = SoByFlag[slot]]]

(* --registry: the registry, the default selector and the broker of this   *)
(* moment; the client is to have that selector.                            *)
SoFlagRegistry ==
  /\ SoStep("registry", "profile")
  /\ SoAsks("registry", soSvc.registry) /\ soFlags["registry"] # "unknown"
  /\ soSvc' = [soSvc EXCEPT !.registry = SoByFlag.registry]
  /\ soSelector' = [soSelector EXCEPT ![soDefault] = SoByFlag.registry]
  /\ soBroker' = [soBroker EXCEPT ![soSvc.broker] = SoByFlag.registry]
  /\ soPending' = [SoCollect("registry") EXCEPT !["client"].selector = soDefault]
  /\ UNCHANGED <<soClient, soServer, soDefault, soFlags, soTable, soLoose>>

(* --profile: a new profiler, or the end for an unknown name.              *)
SoProfile ==
  /\ \E to \in {"broker", "failed"} : SoStep("profile", to)
  /\ UNCHANGED <<soParts, soFlags, soPending, soTable, soLoose>>

(* --broker: a new broker, which is not told of the registry.              *)
SoFlagBroker ==
  /\ SoStep("broker", "selector")
  /\ SoAsks("broker", soSvc.broker) /\ soFlags["broker"] # "unknown"
  /\ soSvc' = [soSvc EXCEPT !.broker = SoByFlag.broker]
  /\ soPending' = SoCollect("broker")
  /\ soLoose' = soLoose \cup {<<"broker", "registry">>}
  /\ UNCHANGED <<soClient, soServer, soSelector, soBroker, soDefault, soFlags, soTable>>

(* --selector: a new one with the registry of the service.                 *)
SoFlagSelector ==
  /\ SoStep("selector", "transport")
  /\ SoAsks("selector", soDefault) /\ soFlags["selector"] # "unknown"
  /\ soDefault' = SoByFlag.selector
  /\ soSelector' = [soSelector EXCEPT ![SoByFlag.selector] = soSvc.registry]
  /\ soPending' = [soPending EXCEPT !["client"].selector = SoByFlag.selector]
  /\ UNCHANGED <<soSvc, soClient, soServer, soBroker, soFlags, soTable, soLoose>>

(* --transport.                                                            *)
SoFlagTransport ==
  /\ SoStep("transport", "apply")
  /\ SoAsks("transport", soSvc.transport) /\ soFlags["transport"] # "unknown"
  /\ soSvc' = [soSvc EXCEPT !.transport = SoByFlag.transport]
  /\ soPending' = SoCollect("transport")
  /\ UNCHANGED <<soClient, soServer, soSelector, soBroker, soDefault, soFlags, soTable, soLoose>>

SoPass(slot, from, to, current) ==
  /\ SoStep(from, to) /\ ~SoAsks(slot, current)
  /\ UNCHANGED <<soParts, soFlags, soPending, soTable, soLoose>>

(* The table of the store, if there is a flag for it.                      *)
SoStoreTable == soTable' = IF soFlags["table"] = "known" THEN "flag" ELSE SoNone

(* --client_request_timeout or --client_pool_ttl is no duration: that ends *)
(* the program with no option applied.                                     *)
SoNoDuration ==
  /\ SoStep("apply", "failed")
  /\ SoStoreTable
  /\ UNCHANGED <<soParts, soFlags, soPending, soLoose>>

(* The collected options: server.Init, then client.Init, in which the      *)
(* registry goes to the selector that the client still has.  The ttl is    *)
(* always among them, as the flag has a default.                           *)
SoApply ==
  /\ SoStep("apply", "table")
  /\ soServer' = [SoServerInit(soSvc.server, soPending["server"])
                    EXCEPT ![soSvc.server].ttl = IF soFlags["ttl"] = "known" THEN "flag"
                                                 ELSE "flag default"]
  /\ soSelector' = SoSelectorTold(soSvc.client, soPending["client"])
  /\ soClient' = SoClientInit(soSvc.client, soPending["client"])
  /\ SoStoreTable
  /\ soLoose' = {l \in soLoose :
                   ~ \/ l[1] \in {"client", "server"} /\ soPending[l[1]][l[2]] # SoNone
                     \/ l[1] = "selector" /\ soPending["client"].selector # SoNone}
  /\ UNCHANGED <<soSvc, soBroker, soDefault, soFlags, soPending>>

(* The rest of Init of the service: a store without a table gets the name  *)
(* of the service as its table.                                            *)
SoReady ==
  /\ SoStep("table", "ready")
  /\ soTable' = IF soTable = SoNone THEN "name" ELSE soTable
  /\ UNCHANGED <<soParts, soFlags, soPending, soLoose>>

(* Flags that do not interact vary together.                               *)
SoFlagSets ==
  LET set(x) == IF x = "unset" THEN "unset" ELSE "known"
  IN  {[registry |-> r, selector |-> s, broker |-> b, transport |-> b, client |-> p, server |-> p,
        other |-> p, ttl |-> set(p), table |-> set(p)] : r, s, b, p \in SoFlagValues}

ServiceOptionsNext ==
  \/ \E slot \in SoSlots : SoOption(slot, SoMade[slot])
  \/ \E part \in {"client", "server"} : SoReplace(part, SoMade[part])
  \/ SoSelect(SoMade.selector) \/ SoRegisterTTL
  \/ \E flags \in SoFlagSets : SoBegin(flags)
  \/ SoOthers
  \/ SoUnknown("registry", "registry", soSvc.registry)
  \/ SoUnknown("broker", "broker", soSvc.broker)
  \/ SoUnknown("selector", "selector", soDefault)
  \/ SoUnknown("transport", "transport", soSvc.transport)
  \/ SoFlagRegistry \/ SoFlagBroker \/ SoFlagSelector \/ SoFlagTransport
  \/ SoPass("registry", "registry", "profile", soSvc.registry) \/ SoProfile
  \/ SoPass("broker", "broker", "selector", soSvc.broker)
  \/ SoPass("selector", "selector", "transport", soDefault)
  \/ SoPass("transport", "transport", "apply", soSvc.transport)
  \/ SoNoDuration \/ SoApply \/ SoReady

-----------------------------------------------------------------------------
(* The parts of a service agree when no flag is being processed.  Whatever *)
(* options and flags were given and in whatever order, client, server and  *)
(* broker use the service's registry, broker and transport, the client     *)
(* selects nodes of that registry and its pool dials with that transport.  *)
(* A flag counts also where the program gave the part.  Excepted is a part *)
(* that was itself put in place after the choice, by an option or a flag,  *)
(* and was not told of it: micro.Client, micro.Server, micro.Selector and  *)
(* micro.Broker, and the flags for client, server and broker.              *)
PartsAgree ==
  soPc \in {"options", "ready"} =>
    LET c == soClient[soSvc.client]
        v == soServer[soSvc.server]
        bound(part, slot) == <<part, slot>> \notin soLoose
    IN  /\ \A slot \in SoSlots : /\ bound("client", slot) => c[slot] = soSvc[slot]
                                 /\ bound("server", slot) => v[slot] = soSvc[slot]
        /\ bound("broker", "registry") => soBroker[soSvc.broker] = soSvc.registry
        /\ bound("selector", "registry") => soSelector[c.selector] = soSvc.registry
        /\ c.pool = c.transport

(* A service is assembled from parts that agree and is taken down by the   *)
(* Run that started it.                                                    *)
ServicePartsSound == RunCleansUp /\ PartsAgree

=============================================================================
