----------------------------- MODULE MCServices -----------------------------
(***************************************************************************)
(* The parts of a service that share nothing with each other, explored     *)
(* side by side: `part' says which of them a behaviour is about, and the   *)
(* others stay in their initial state.  The parts are grouped by what a    *)
(* user of the framework asks of them, one invariant for each group; those *)
(* of the runtimes, of the assembly and of the calls are with their parts. *)
(***************************************************************************)
EXTENDS LogStreams, ServiceOptions,
        RpcRouter, RpcCodec, Config, ApiRouter, PathTemplate, ApiHandlers,
        MdnsRegistry, EtcdRegistry, Selection, Addressing,
        MemoryStore, FileService, Access

VARIABLE part

ServiceParts ==
  {"local runtime", "kubernetes", "log streams", "web service", "micro service", "options",
   "calls", "messages", "codec", "config", "registry router", "static router", "path templates", "api handlers",
   "mdns queries", "mdns watchers", "etcd", "selection", "addresses", "store", "listing",
   "files", "access"}

(* The groups, and the variables of each. *)
runtimeVars == <<rtVars, kbVars, lgVars>>
assemblyVars == <<webVars, soVars>>
callVars == <<rrVars, cxVars>>
gatewayVars == <<arVars, ptVars>>
discoveryVars == <<mdVars, etVars, slVars, adVars>>
dataVars == <<msVars, fsVars, auVars>>

ServicesInit ==
  /\ part \in ServiceParts
  /\ RuntimeInit /\ KubernetesInit /\ LogStreamsInit
  /\ WebServiceInit /\ ServiceOptionsInit
  /\ RouterInit /\ CodecInit
  /\ ConfigInit
  /\ ApiRouterInit /\ PathTemplateInit
  /\ ApiHandlersInit
  /\ MdnsInit /\ EtcdInit /\ (part # "etcd" => etOps = 0)
  /\ SelectionInit /\ AddressingInit
  /\ StoreInit /\ FileServiceInit /\ AccessInit

RuntimesNext ==
  \/ part = "local runtime" /\ RuntimeNext /\ UNCHANGED <<kbVars, lgVars>>
  \/ part = "kubernetes" /\ KubernetesNext /\ UNCHANGED <<rtVars, lgVars>>
  \/ part = "log streams" /\ LogStreamsNext /\ UNCHANGED <<rtVars, kbVars>>

AssemblyNext ==
  \/ part = "web service" /\ WebServiceNext /\ UNCHANGED <<svVars, soVars>>
  \/ part = "micro service" /\ WebServiceNext /\ UNCHANGED <<wbVars, soVars>>
  \/ part = "options" /\ ServiceOptionsNext /\ UNCHANGED webVars

CallsNext ==
  \/ part = "calls" /\ RouterCallsNext /\ UNCHANGED cxVars
  \/ part = "messages" /\ RouterMessagesNext /\ UNCHANGED cxVars
  \/ part = "codec" /\ CodecNext /\ UNCHANGED rrVars

GatewayNext ==
  \/ part = "registry router" /\ ApiRouterNext /\ UNCHANGED ptVars
  \/ part = "static router" /\ StaticRouterNext /\ UNCHANGED ptVars
  \/ part = "path templates" /\ PathTemplateNext /\ UNCHANGED arVars

DiscoveryNext ==
  \/ part = "mdns queries" /\ MdnsQueriesNext /\ UNCHANGED <<etVars, slVars, adVars>>
  \/ part = "mdns watchers" /\ MdnsWatchersNext /\ UNCHANGED <<etVars, slVars, adVars>>
  \/ part = "etcd" /\ EtcdNext /\ UNCHANGED <<mdVars, slVars, adVars>>
  \/ part = "selection" /\ SelectionNext /\ UNCHANGED <<mdVars, etVars, adVars>>
  \/ part = "addresses" /\ AddressingNext /\ UNCHANGED <<mdVars, etVars, slVars>>

DataNext ==
  \/ part = "store" /\ StoreNext /\ UNCHANGED <<fsVars, auVars>>
  \/ part = "listing" /\ ListingNext /\ UNCHANGED <<fsVars, auVars>>
  \/ part = "files" /\ FileServiceNext /\ UNCHANGED <<msVars, auVars>>
  \/ part = "access" /\ AccessNext /\ UNCHANGED <<msVars, fsVars>>

ServicesNext ==
  \/ /\ RuntimesNext
     /\ UNCHANGED <<part, assemblyVars, callVars, cfVars, gatewayVars, apVars, discoveryVars, dataVars>>
  \/ /\ AssemblyNext
     /\ UNCHANGED <<part, runtimeVars, callVars, cfVars, gatewayVars, apVars, discoveryVars, dataVars>>
  \/ /\ CallsNext
     /\ UNCHANGED <<part, runtimeVars, assemblyVars, cfVars, gatewayVars, apVars, discoveryVars, dataVars>>
  \/ /\ part = "config" /\ ConfigNext
     /\ UNCHANGED <<part, runtimeVars, assemblyVars, callVars, gatewayVars, apVars, discoveryVars, dataVars>>
  \/ /\ GatewayNext
     /\ UNCHANGED <<part, runtimeVars, assemblyVars, callVars, cfVars, apVars, discoveryVars, dataVars>>
  \/ /\ part = "api handlers" /\ ApiHandlersNext
     /\ UNCHANGED <<part, runtimeVars, assemblyVars, callVars, cfVars, gatewayVars, discoveryVars, dataVars>>
  \/ /\ DiscoveryNext
     /\ UNCHANGED <<part, runtimeVars, assemblyVars, callVars, cfVars, gatewayVars, apVars, dataVars>>
  \/ /\ DataNext
     /\ UNCHANGED <<part, runtimeVars, assemblyVars, callVars, cfVars, gatewayVars, apVars, discoveryVars>>

ServicesSpec ==
  /\ ServicesInit
  /\ [][ServicesNext]_<<part, runtimeVars, assemblyVars, callVars, cfVars, gatewayVars, apVars,
                        discoveryVars, dataVars>>

-----------------------------------------------------------------------------

(* A node that is found was registered and is still right for the caller:  *)
(* by mdns, by etcd, by the selector, at the address it listens on.        *)
NodesFound == DiscoverySound /\ EtcdAgrees /\ SelectionSound /\ AddressesSound

(* Records, files and permissions come back as they were stored.           *)
DataSound == ReadsAreSound /\ TransfersSound /\ AccessByRules

=============================================================================
