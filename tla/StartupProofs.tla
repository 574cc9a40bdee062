----------------------------- MODULE StartupProofs -----------------------------
(* Theorems about Startup for every set of nodes and of host names.         *)
EXTENDS Startup, Naturals, TLAPS

USE StartupAssumption

LEMMA InitIInv == Init => IInv
  BY DEF Init, IInv, TypeOK, Stages, isOmniContext, Config, Flags

(* The steps of RunE itself.                                                *)
LEMMA RunEStep == ASSUME IInv, RunE PROVE IInv'
<1> USE DEF IInv, TypeOK, inputs, file, Goto, isOmniContext
<1>1. CASE CheckFormat
  BY <1>1 DEF CheckFormat, Stages
<1>2. CASE OmniGate
  BY <1>2 DEF OmniGate, Stages
<1>3. CASE ResolveNodes
  <2>1. flags.nodes \in SUBSET Nodes /\ conf.nodes \in SUBSET Nodes
    BY DEF Flags, Config
  <2>2. effective' \in SUBSET Nodes /\ naming' = effective' /\ warming' = warming
    BY <1>3, <2>1 DEF ResolveNodes, ConfigNodes
  <2>3. /\ pc = "resolve" /\ pc' \in {"failed", "hostnames"}
        /\ pc' = "failed" => naming' = {}
    BY <1>3 DEF ResolveNodes
  <2> QED
    BY <1>3, <2>2, <2>3 DEF ResolveNodes, Stages
<1>4. CASE HostnamesDone
  BY <1>4 DEF HostnamesDone, Stages
<1>5. CASE PrefetchDone
  BY <1>5 DEF PrefetchDone, Stages
<1>6. CASE Mount
  BY <1>6 DEF Mount, Stages, Flags
<1> QED
  BY <1>1, <1>2, <1>3, <1>4, <1>5, <1>6 DEF RunE

(* The goroutines, and the edits of the file, which leave the gate's answer *)
(* open to doubt from then on.                                              *)
LEMMA OtherSteps ==
    ASSUME IInv, EditConfig \/ \E n \in Nodes : Hostname(n) \/ Prefetch(n)
    PROVE  IInv'
<1>1. CASE EditConfig
  BY <1>1 DEF IInv, TypeOK, inputs, EditConfig
<1>2. ASSUME NEW n \in Nodes, Hostname(n) PROVE IInv'
  <2>1. labels' \in [Nodes -> Hosts \cup {None}]
    BY <1>2 DEF IInv, TypeOK, Hostname
  <2> QED
    BY <1>2, <2>1 DEF IInv, TypeOK, inputs, file, Hostname, isOmniContext
<1>3. ASSUME NEW n \in Nodes, Prefetch(n) PROVE IInv'
  BY <1>3 DEF IInv, TypeOK, inputs, file, Prefetch, isOmniContext
<1> QED
  BY <1>1, <1>2, <1>3

(* What a start goes through, whatever is edited and whichever nodes answer. *)
THEOREM StartupInvariance == Spec => []IInv
<1>1. IInv /\ [Next]_vars => IInv'
  <2>1. CASE UNCHANGED vars
    BY <2>1 DEF vars, inputs, file, IInv, TypeOK, isOmniContext
  <2> QED
    BY <2>1, RunEStep, OtherSteps DEF Next
<1> QED
  BY <1>1, InitIInv, PTL DEF Spec

(* The gate holds: an Omni context that could be read all along is never    *)
(* served writable, with any nodes, flags and answers.                      *)
THEOREM OmniGateTheorem == Spec => []OmniContextNeverWritable
<1>1. IInv => OmniContextNeverWritable
  BY DEF IInv, OmniContextNeverWritable
<1> QED
  BY <1>1, StartupInvariance, PTL

(* No goroutine writes the label map once wg.Wait has returned.             *)
THEOREM LabelsSettledTheorem == Spec => LabelsSettled
<1>1. IInv /\ [Next]_vars => [pc \notin {"resolve", "hostnames"} => labels' = labels]_vars
  BY DEF IInv, Next, RunE, CheckFormat, OmniGate, ResolveNodes, HostnamesDone, PrefetchDone, Mount,
         EditConfig, Hostname, Prefetch, vars
<1> QED
  BY <1>1, StartupInvariance, PTL DEF Spec, LabelsSettled

(* What the stages of a start leave behind them.                            *)
Settled ==
    /\ pc \in {"hostnames", "prefetch", "mount", "serving"} => effective # {}
    /\ warming # {} => pc = "prefetch"
    /\ \A n \in Nodes \ effective : labels[n] = None
    /\ pc = "serving" => (writeable <=> flags.sync /\ ~ flags.maintenance)

(* A mount that is served has nodes, every goroutine for one of which has   *)
(* been waited for, labels only of these, and is writable exactly when the  *)
(* user asked for it outside maintenance mode (root.go:99-136).             *)
THEOREM ServedTheorem ==
    Spec => [](pc = "serving" =>
                 /\ effective # {} /\ naming = {} /\ warming = {}
                 /\ \A n \in Nodes \ effective : labels[n] = None
                 /\ (writeable <=> flags.sync /\ ~ flags.maintenance))
<1>1. Init => Settled
  BY DEF Init, Settled
<1>2. IInv /\ Settled /\ [Next]_vars => Settled'
  <2> SUFFICES ASSUME IInv, Settled, [Next]_vars PROVE Settled'
    OBVIOUS
  <2> USE DEF Settled, inputs, file, Goto
  <2>1. CASE CheckFormat \/ OmniGate
    BY <2>1 DEF IInv, CheckFormat, OmniGate
  <2>2. CASE ResolveNodes
    <3>1. effective = {} /\ warming' = {} /\ labels' = labels
      BY <2>2 DEF IInv, ResolveNodes
    <3> QED
      BY <2>2, <3>1 DEF ResolveNodes
  <2>3. CASE HostnamesDone \/ PrefetchDone \/ Mount
    BY <2>3 DEF IInv, TypeOK, Flags, HostnamesDone, PrefetchDone, Mount
  <2>4. ASSUME NEW n \in Nodes, Hostname(n) PROVE Settled'
    <3>1. n \in effective /\ \A m \in Nodes \ {n} : labels'[m] = labels[m]
      BY <2>4 DEF IInv, TypeOK, Hostname
    <3> QED
      BY <2>4, <3>1 DEF Hostname
  <2>5. ASSUME NEW n \in Nodes, Prefetch(n) PROVE Settled'
    BY <2>5 DEF Prefetch
  <2>6. CASE EditConfig \/ UNCHANGED vars
    BY <2>6 DEF EditConfig, vars
  <2> QED
    BY <2>1, <2>2, <2>3, <2>4, <2>5, <2>6 DEF Next, RunE
<1>3. IInv /\ Settled => (pc = "serving" =>
                 /\ effective # {} /\ naming = {} /\ warming = {}
                 /\ \A n \in Nodes \ effective : labels[n] = None
                 /\ (writeable <=> flags.sync /\ ~ flags.maintenance))
  BY DEF IInv, Settled
<1> QED
  BY <1>1, <1>2, <1>3, StartupInvariance, PTL DEF Spec

(* The stages of RunE in their order.                                       *)
Order(stage) ==
    CASE stage = "format" -> 0 [] stage = "gate" -> 1 [] stage = "resolve" -> 2
      [] stage = "hostnames" -> 3 [] stage = "prefetch" -> 4 [] stage = "mount" -> 5
      [] OTHER -> 6

(* The safe part of StartsOrFails: RunE only goes on, and the goroutines it *)
(* waits for only become fewer, whatever is edited meanwhile.               *)
THEOREM StartAdvances ==
    Spec => [][\/ pc' # pc /\ Order(pc') > Order(pc)
               \/ /\ pc' = pc /\ naming' \subseteq naming /\ warming' \subseteq warming]_vars
<1>1. IInv /\ [Next]_vars =>
        [\/ pc' # pc /\ Order(pc') > Order(pc)
         \/ /\ pc' = pc /\ naming' \subseteq naming /\ warming' \subseteq warming]_vars
  BY DEF Order, Next, RunE, CheckFormat, OmniGate, ResolveNodes, HostnamesDone, PrefetchDone, Mount,
         EditConfig, Hostname, Prefetch, Goto, vars
<1> QED
  BY <1>1, StartupInvariance, PTL DEF Spec
=============================================================================
