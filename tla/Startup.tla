------------------------------- MODULE Startup -------------------------------
(***************************************************************************)
(* RunE (cmd/root.go): from the flags to a served mount.  It reads the     *)
(* talosconfig file once for the Omni gate and once for the nodes, and     *)
(* every client built afterwards reads it again (internal/talos/client.go),*)
(* so an edit of the file falls between any two of these.  The host names  *)
(* are fetched, and the cache is warmed, by one goroutine per node.        *)
(***************************************************************************)
CONSTANTS
    Nodes,    \* node IDs that flags and talosconfig may name
    Hosts,    \* host names the nodes may report
    None      \* no host name

ASSUME StartupAssumption == None \notin Hosts

(* The flags.  nodes is --nodes; cluster is whether --cluster is given.     *)
Flags == [format : {"yaml", "json", "toml"}, sync : BOOLEAN, maintenance : BOOLEAN,
          cluster : BOOLEAN, nodes : SUBSET Nodes]

(* What clientconfig.Open finds: whether the file can be read, whether it   *)
(* has the selected context, and that context's cluster and nodes fields.   *)
Config == [readable : BOOLEAN, context : BOOLEAN, cluster : BOOLEAN, nodes : SUBSET Nodes]

VARIABLES
    flags, omni,  \* the command line; whether Omni manages the cluster
    conf,         \* the talosconfig file
    pc,           \* where RunE is
    effective,    \* effectiveNodes
    naming,       \* goroutines of resolveNodeHostnames that have not ended
    warming,      \* goroutines of CachingRepository.Prefetch that have not
    labels,       \* nodeLabels
    writeable,    \* Options.Writeable given to fs.Mount
    edited        \* history: the file was edited after the start

inputs == <<flags, omni>>
file == <<conf, edited>>
vars == <<inputs, file, pc, effective, naming, warming, labels, writeable>>

(* Omni's proxy routes by cluster name, which the context or --cluster      *)
(* gives; only Omni contexts carry one.                                     *)
Plausible(f, o, c) ==
    /\ o /\ c.readable /\ c.context => c.cluster \/ f.cluster
    /\ c.cluster => o

Init ==
    /\ flags \in Flags
    /\ omni \in BOOLEAN
    /\ conf \in Config
    /\ Plausible(flags, omni, conf)
    /\ pc = "format"
    /\ effective = {}
    /\ naming = {}
    /\ warming = {}
    /\ labels = [n \in Nodes |-> None]
    /\ writeable = FALSE
    /\ edited = FALSE

Goto(where) == pc' = where

-----------------------------------------------------------------------------
(* The format is one of two; everything else is refused.                    *)
CheckFormat ==
    /\ pc = "format"
    /\ Goto(IF flags.format = "toml" THEN "failed" ELSE "gate")
    /\ UNCHANGED <<inputs, file, effective, naming, warming, labels, writeable>>

(* isOmniContext: an unreadable file counts as "not Omni", and so does a    *)
(* context that is missing or has no cluster field.                         *)
isOmniContext == conf.readable /\ conf.context /\ conf.cluster

(* A seeded bug: the gate asks nothing when nodes are named.                *)
GateSkippedForNodes ==
    /\ pc = "gate"
    /\ Goto(IF flags.sync /\ ~ flags.maintenance /\ flags.nodes = {} /\ isOmniContext
            THEN "failed" ELSE "resolve")
    /\ UNCHANGED <<inputs, file, effective, naming, warming, labels, writeable>>

OmniGate ==
    /\ pc = "gate"
    /\ Goto(IF flags.sync /\ ~ flags.maintenance /\ isOmniContext THEN "failed" ELSE "resolve")
    /\ UNCHANGED <<inputs, file, effective, naming, warming, labels, writeable>>

(* The nodes of the selected context.                                       *)
ConfigNodes == IF conf.readable /\ conf.context THEN conf.nodes ELSE {}

(* A seeded bug: host names are fetched for the nodes of the talosconfig.   *)
NamesTheConfigsNodes ==
    LET nodes == IF flags.nodes # {} THEN flags.nodes ELSE ConfigNodes IN
    /\ pc = "resolve"
    /\ Goto(IF nodes = {} THEN "failed" ELSE "hostnames")
    /\ effective' = nodes
    /\ naming' = ConfigNodes
    /\ UNCHANGED <<inputs, file, warming, labels, writeable>>

(* ResolveNodes: --nodes wins and leaves the file unread.  Then one         *)
(* goroutine per node is started for its host name.                         *)
ResolveNodes ==
    LET nodes == IF flags.nodes # {} THEN flags.nodes ELSE ConfigNodes IN
    /\ pc = "resolve"
    /\ Goto(IF nodes = {} THEN "failed" ELSE "hostnames")
    /\ effective' = nodes
    /\ naming' = nodes
    /\ UNCHANGED <<inputs, file, warming, labels, writeable>>

(* newClient reads the file in normal mode; maintenance mode with --nodes   *)
(* does not, and without them WithClient reads it for the nodes.            *)
ClientCanBeBuilt ==
    IF flags.maintenance THEN flags.nodes # {} \/ ConfigNodes # {} ELSE conf.readable

(* A seeded bug: wg.Done is reached only with a host name in hand.          *)
HostnameDoneOnSuccess(n) ==
    /\ n \in naming
    /\ naming' = naming \ {n}
    /\ ClientCanBeBuilt
    /\ \E h \in Hosts : labels' = [labels EXCEPT ![n] = h]
    /\ UNCHANGED <<inputs, file, pc, effective, warming, writeable>>

(* A goroutine of resolveNodeHostnames.  A node that fails, or reports no   *)
(* name, gets no label; wg.Done is deferred.                                *)
Hostname(n) ==
    /\ n \in naming
    /\ naming' = naming \ {n}
    /\ \/ ClientCanBeBuilt /\ \E h \in Hosts : labels' = [labels EXCEPT ![n] = h]
       \/ UNCHANGED labels
    /\ UNCHANGED <<inputs, file, pc, effective, warming, writeable>>

(* A seeded bug: RunE goes on while host names are still being fetched.     *)
HostnamesUnawaited ==
    /\ pc = "hostnames"
    /\ IF flags.maintenance
       THEN Goto("mount") /\ UNCHANGED warming
       ELSE Goto("prefetch") /\ warming' = effective
    /\ UNCHANGED <<inputs, file, effective, naming, labels, writeable>>

(* wg.Wait of resolveNodeHostnames; Prefetch is skipped in maintenance.     *)
HostnamesDone ==
    /\ pc = "hostnames"
    /\ naming = {}
    /\ IF flags.maintenance
       THEN Goto("mount") /\ UNCHANGED warming
       ELSE Goto("prefetch") /\ warming' = effective
    /\ UNCHANGED <<inputs, file, effective, naming, labels, writeable>>

(* A goroutine of CachingRepository.Prefetch; its error is dropped, and its *)
(* effect on the cache is in CachingRepository.                             *)
Prefetch(n) ==
    /\ n \in warming
    /\ warming' = warming \ {n}
    /\ UNCHANGED <<inputs, file, pc, effective, naming, labels, writeable>>

PrefetchDone ==
    /\ pc = "prefetch"
    /\ warming = {}
    /\ Goto("mount")
    /\ UNCHANGED <<inputs, file, effective, naming, warming, labels, writeable>>

(* fs.Mount succeeds and serves, or fails.                                  *)
Mount ==
    /\ pc = "mount"
    /\ \/ Goto("serving") /\ writeable' = (flags.sync /\ ~ flags.maintenance)
       \/ Goto("failed") /\ UNCHANGED writeable
    /\ UNCHANGED <<inputs, file, effective, naming, warming, labels>>

(* The user, or talosctl, rewrites the talosconfig file.                    *)
EditConfig ==
    /\ conf' \in { c \in Config : Plausible(flags, omni, c) }
    /\ edited' = TRUE
    /\ UNCHANGED <<inputs, pc, effective, naming, warming, labels, writeable>>

RunE ==
    CheckFormat \/ OmniGate \/ ResolveNodes \/ HostnamesDone \/ PrefetchDone \/ Mount

Next ==
    \/ RunE
    \/ \E n \in Nodes : Hostname(n) \/ Prefetch(n)
    \/ EditConfig

Spec == Init /\ [][Next]_vars

(* RunE and its goroutines run; the nodes they ask answer or fail.          *)
FairSpec ==
    /\ Spec
    /\ WF_vars(RunE)
    /\ \A n \in Nodes : WF_vars(Hostname(n)) /\ WF_vars(Prefetch(n))

-----------------------------------------------------------------------------
Stages == {"format", "gate", "resolve", "hostnames", "prefetch", "mount", "serving", "failed"}

(* Each value has its Go type, and goroutines are started only for nodes    *)
(* the mount will serve.                                                    *)
TypeOK ==
    /\ flags \in Flags
    /\ omni \in BOOLEAN
    /\ conf \in Config
    /\ pc \in Stages
    /\ effective \in SUBSET Nodes
    /\ naming \in SUBSET effective
    /\ warming \in SUBSET effective
    /\ labels \in [Nodes -> Hosts \cup {None}]
    /\ writeable \in BOOLEAN
    /\ edited \in BOOLEAN

(* An Omni context that could be read all along is never served writable,   *)
(* whatever nodes and flags come with it (root.go:88-95).                   *)
OmniContextNeverWritable == ~ edited /\ isOmniContext => ~ writeable

(* Past the gate, no Omni context that is still as it was read asks for a   *)
(* writable mount, and host names are fetched while RunE waits for them.    *)
IInv ==
    /\ TypeOK
    /\ writeable => flags.sync /\ ~ flags.maintenance /\ pc = "serving"
    /\ ~ edited /\ isOmniContext /\ pc \notin {"format", "gate", "failed"} =>
         ~ flags.sync \/ flags.maintenance
    /\ pc \in {"format", "gate", "resolve"} => effective = {}
    /\ naming # {} => pc = "hostnames"

(* The label map that Options shares with every directory inode is final    *)
(* before the mount serves: no goroutine writes it after wg.Wait.           *)
LabelsSettled == [][pc \notin {"resolve", "hostnames"} => labels' = labels]_vars

(* RunE serves or fails; no outcome of a node's call leaves it waiting.     *)
StartsOrFails == <>(pc \in {"serving", "failed"})
=============================================================================
