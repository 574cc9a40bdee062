-------------------------- MODULE RepositoryAdapter --------------------------
(***************************************************************************)
(* One call of the repository, from the file system to the nodes and back: *)
(* RepositoryAdapter (internal/fs/adapter.go) asks WithClient              *)
(* (internal/talos/client.go) for a client of its own, scopes the context  *)
(* to the node of the call, makes one or two RPCs                          *)
(* (internal/talos/resources.go), and the client is closed on the way      *)
(* back.  FUSE requests and prefetches call concurrently; what they share  *)
(* is the talosconfig, which each call reads again, and the nodes.         *)
(*                                                                         *)
(* An error is the chain that errors.Unwrap walks, outermost link first:   *)
(* "fmt" is a wrapping by fmt.Errorf, a code a gRPC status, "opaque" and   *)
(* "conflict" are errors of the client library that hold another and do    *)
(* not unwrap to it, and "plain" is anything else.                         *)
(***************************************************************************)
EXTENDS Integers, SequencesExt

CONSTANTS
    Callers,      \* goroutines that call
    Nodes,
    NoNode,       \* the node argument "", and a context that is not found
    FlagNodes,    \* values of --nodes
    ContextNodes, \* values of the nodes of the talosconfig's context
    Codes,        \* status codes of the nodes and of the proxies before them
    MaxVersion    \* bound: versions of what a node holds

ASSUME AdapterAssumption ==
    /\ NoNode \notin Nodes
    /\ FlagNodes \subseteq SUBSET Nodes
    /\ ContextNodes \subseteq (SUBSET Nodes) \cup {NoNode}
    /\ MaxVersion \in Nat \ {0}
    /\ Codes \cap {"fmt", "opaque", "conflict", "plain", "EACCES"} = {}

Reads == {"ResourceDefinitions", "ListResources", "GetResource"}
Ops == Reads \cup {"UpdateResource"}

NoError == <<>>
Wrapped(e) == <<"fmt">> \o e

(* A talosconfig opens or not: os.Open is denied, or it does not parse.     *)
OpenErrors == { <<"EACCES">>, <<"plain">> }
Configs ==
    [open : OpenErrors, nodes : {{}}] \cup [open : {NoError}, nodes : ContextNodes]

(* The client library may hide the status it was answered with.             *)
Refusals ==
    { <<c>> : c \in Codes } \cup { <<"opaque", c>> : c \in Codes } \cup { <<"plain">> }

VARIABLES
    maintenance, nodes,  \* Repository: --maintenance and --nodes
    config,              \* the talosconfig on disk
    srv,                 \* version of what each node holds
    pc, op, node,        \* the call each caller is making
    ctx,                 \* the nodes its context names, before WithNode
    val, err,            \* its result
    open,                \* history: its clients that are not closed
    asked                \* history: the nodes its RPCs have reached

options == <<maintenance, nodes>>
request == <<op, node>>
vars == <<options, config, srv, pc, request, ctx, val, err, open, asked>>

Init ==
    /\ maintenance \in BOOLEAN
    /\ nodes \in FlagNodes
    /\ config \in Configs
    /\ srv = [n \in Nodes |-> 1]
    /\ pc = [t \in Callers |-> "idle"]
    /\ op = [t \in Callers |-> "none"]
    /\ node = [t \in Callers |-> NoNode]
    /\ ctx = [t \in Callers |-> {}]
    /\ val = [t \in Callers |-> 0]
    /\ err = [t \in Callers |-> NoError]
    /\ open = [t \in Callers |-> 0]
    /\ asked = [t \in Callers |-> {}]

Goto(t, where) == pc' = [pc EXCEPT ![t] = where]
Fail(t, e) == err' = [err EXCEPT ![t] = e]

-----------------------------------------------------------------------------
(* A method of the adapter is called; the resource of an update is never    *)
(* nil, as it has been parsed.                                              *)
Call(t, o, n) ==
    /\ pc[t] = "idle"
    /\ Goto(t, "dial")
    /\ op' = [op EXCEPT ![t] = o]
    /\ node' = [node EXCEPT ![t] = n]
    /\ UNCHANGED <<options, config, srv, ctx, val, err, open, asked>>

(* The first RPC of the action: a list or a get resolves its kind first.    *)
Action(t) == IF op[t] \in {"ListResources", "GetResource"} THEN "resolve" ELSE "rpc"

(* Seeded bugs: the Close is set up before the error is looked at; the call *)
(* waits for a talosconfig that opens.                                      *)
ClosesUndialled(t) ==
    /\ pc[t] = "dial"
    /\ \/ /\ maintenance \/ config.open = NoError
          /\ open' = [open EXCEPT ![t] = @ + 1]
          /\ Goto(t, IF maintenance THEN "nodes" ELSE Action(t))
          /\ UNCHANGED err
       \/ Fail(t, <<"plain">>) /\ Goto(t, "close") /\ UNCHANGED open
    /\ UNCHANGED <<options, config, srv, request, ctx, val, asked>>
WaitsForConfig(t) ==
    /\ pc[t] = "dial"
    /\ maintenance \/ config.open = NoError
    /\ \/ /\ open' = [open EXCEPT ![t] = @ + 1]
          /\ Goto(t, IF maintenance THEN "nodes" ELSE Action(t))
          /\ UNCHANGED err
       \/ Fail(t, <<"plain">>) /\ Goto(t, "reply") /\ UNCHANGED open
    /\ UNCHANGED <<options, config, srv, request, ctx, val, asked>>

(* In maintenance mode client.New is called without a talosconfig, and its  *)
(* error is returned as it is.                                              *)
newClient(t) ==
    /\ pc[t] = "dial"
    /\ \/ /\ maintenance \/ config.open = NoError
          /\ open' = [open EXCEPT ![t] = @ + 1]
          /\ Goto(t, IF maintenance THEN "nodes" ELSE Action(t))
          /\ UNCHANGED err
       \/ /\ Fail(t, IF maintenance THEN <<"plain">>
                     ELSE IF config.open = NoError THEN Wrapped(<<"plain">>)
                     ELSE Wrapped(config.open))
          /\ Goto(t, "reply")
          /\ UNCHANGED open
    /\ UNCHANGED <<options, config, srv, request, ctx, val, asked>>

(* Why there are no nodes to name in maintenance mode, if there are none.   *)
NodesError ==
    IF nodes # {} THEN NoError
    ELSE IF config.open # NoError THEN Wrapped(config.open)
    ELSE IF config.nodes \in {NoNode, {}} THEN <<"plain">>
    ELSE NoError

(* A seeded bug: the error returns before the deferred Close is set up.     *)
LeavesClientOpen(t) ==
    /\ pc[t] = "nodes"
    /\ \/ /\ NodesError = NoError
          /\ ctx' = [ctx EXCEPT ![t] = IF nodes # {} THEN nodes ELSE config.nodes]
          /\ Goto(t, Action(t))
          /\ UNCHANGED err
       \/ /\ NodesError # NoError
          /\ Fail(t, NodesError)
          /\ Goto(t, "reply")
          /\ UNCHANGED ctx
    /\ UNCHANGED <<options, config, srv, request, val, open, asked>>

effectiveNodes(t) ==
    /\ pc[t] = "nodes"
    /\ \/ /\ NodesError = NoError
          /\ ctx' = [ctx EXCEPT ![t] = IF nodes # {} THEN nodes ELSE config.nodes]
          /\ Goto(t, Action(t))
          /\ UNCHANGED err
       \/ /\ NodesError # NoError
          /\ Fail(t, NodesError)
          /\ Goto(t, "close")
          /\ UNCHANGED ctx
    /\ UNCHANGED <<options, config, srv, request, val, open, asked>>

(* A seeded bug: the call is scoped only after its kind has been resolved.  *)
ScopedLate(t) == IF node[t] # NoNode /\ pc[t] = "rpc" THEN {node[t]} ELSE ctx[t]

(* WithNode takes the place of what WithNodes has put into the context.     *)
WithNode(t) == IF node[t] # NoNode THEN {node[t]} ELSE ctx[t]

(* What an RPC reaches: the endpoint itself when no node is named.          *)
Reached(t) == IF WithNode(t) = {} THEN { {n} : n \in Nodes } ELSE { WithNode(t) }

(* The RPC is made, and what it reaches is asked.                           *)
Asks(t, ns) ==
    /\ ns \in Reached(t)
    /\ asked' = [asked EXCEPT ![t] = @ \cup ns]

ResolveResourceKind(t) ==
    /\ pc[t] = "resolve"
    /\ \E ns \in SUBSET Nodes : Asks(t, ns)
    /\ \/ Goto(t, "rpc") /\ UNCHANGED err
       \/ Goto(t, "close") /\ \E e \in Refusals : Fail(t, Wrapped(e))
    /\ UNCHANGED <<options, config, srv, request, ctx, val, open>>

(* ResourceDefinitions, ListResources or GetResource answers.               *)
Read(t) ==
    /\ pc[t] = "rpc" /\ op[t] \in Reads
    /\ Goto(t, "close")
    /\ \E ns \in SUBSET Nodes :
         /\ Asks(t, ns)
         /\ \/ /\ \E n \in ns : val' = [val EXCEPT ![t] = srv[n]]
               /\ UNCHANGED err
            \/ /\ \E e \in Refusals : Fail(t, Wrapped(e))
               /\ UNCHANGED val
    /\ UNCHANGED <<options, config, srv, request, ctx, open>>

(* A seeded bug: an update whose reply is lost is sent again.               *)
UpdateRetried(t) ==
    /\ pc[t] = "rpc" /\ op[t] = "UpdateResource"
    /\ Goto(t, "close") \/ UNCHANGED pc
    /\ \E ns \in SUBSET Nodes :
         /\ Asks(t, ns)
         /\ \A n \in ns : srv[n] < MaxVersion
         /\ srv' = [n \in Nodes |-> IF n \in ns THEN srv[n] + 1 ELSE srv[n]]
    /\ UNCHANGED <<options, config, request, ctx, val, err, open>>

(* The update is applied, and its reply may be lost.                        *)
UpdateApplied(t) ==
    /\ pc[t] = "rpc" /\ op[t] = "UpdateResource"
    /\ Goto(t, "close")
    /\ \E ns \in SUBSET Nodes :
         /\ Asks(t, ns)
         /\ \A n \in ns : srv[n] < MaxVersion
         /\ srv' = [n \in Nodes |-> IF n \in ns THEN srv[n] + 1 ELSE srv[n]]
    /\ UNCHANGED err \/ \E e \in Refusals : Fail(t, Wrapped(e))
    /\ UNCHANGED <<options, config, request, ctx, val, open>>

UpdateRefused(t) ==
    /\ pc[t] = "rpc" /\ op[t] = "UpdateResource"
    /\ Goto(t, "close")
    /\ \E ns \in SUBSET Nodes : Asks(t, ns)
    /\ \E e \in Refusals \cup { <<"conflict">> } : Fail(t, Wrapped(e))
    /\ UNCHANGED <<options, config, srv, request, ctx, val, open>>

(* The deferred Close, whatever the action has returned.                    *)
Close(t) ==
    /\ pc[t] = "close"
    /\ Goto(t, "reply")
    /\ open' = [open EXCEPT ![t] = @ - 1]
    /\ UNCHANGED <<options, config, srv, request, ctx, val, err, asked>>

(* The adapter returns its result, or no result and the error.              *)
Return(t) ==
    /\ pc[t] = "reply"
    /\ Goto(t, "idle")
    /\ op' = [op EXCEPT ![t] = "none"]
    /\ node' = [node EXCEPT ![t] = NoNode]
    /\ ctx' = [ctx EXCEPT ![t] = {}]
    /\ val' = [val EXCEPT ![t] = 0]
    /\ err' = [err EXCEPT ![t] = NoError]
    /\ asked' = [asked EXCEPT ![t] = {}]
    /\ UNCHANGED <<options, config, srv, open>>

-----------------------------------------------------------------------------
ServerChange(n) ==
    /\ srv[n] < MaxVersion
    /\ srv' = [srv EXCEPT ![n] = @ + 1]
    /\ UNCHANGED <<options, config, pc, request, ctx, val, err, open, asked>>

EditConfig ==
    /\ config' \in Configs
    /\ UNCHANGED <<options, srv, pc, request, ctx, val, err, open, asked>>

Progress(t) ==
    \/ newClient(t) \/ effectiveNodes(t) \/ ResolveResourceKind(t)
    \/ Read(t) \/ UpdateApplied(t) \/ UpdateRefused(t) \/ Close(t) \/ Return(t)

Next ==
    \/ \E t \in Callers, o \in Ops, n \in Nodes \cup {NoNode} : Call(t, o, n)
    \/ \E t \in Callers : Progress(t)
    \/ \E n \in Nodes : ServerChange(n)
    \/ EditConfig

Spec == Init /\ [][Next]_vars

(* Dialling and the RPCs end, well or not.                                  *)
FairSpec == Spec /\ \A t \in Callers : WF_vars(Progress(t))

-----------------------------------------------------------------------------
(* The links of an error that errors.Unwrap comes to.                       *)
Seen(e) == { k \in DOMAIN e : \A j \in 1..(k - 1) : e[j] \notin {"opaque", "conflict"} }
Holds(e, links) == \E k \in Seen(e) : e[k] \in links

(* A seeded bug: the wrapping of the repository's layers is not undone.     *)
ErrnoOfOutermost(e) ==
    IF e[1] = "NotFound" THEN "ENOENT" ELSE IF e[1] = "Unimplemented" THEN "ENOSYS"
    ELSE IF e[1] \in {"PermissionDenied", "Unauthenticated"} THEN "EACCES" ELSE "EIO"

(* The first status decides; a chain holds one at most.                     *)
grpcErrno(e) ==
    IF Holds(e, {"PermissionDenied", "Unauthenticated"}) THEN "EACCES"
    ELSE IF Holds(e, {"NotFound"}) THEN "ENOENT"
    ELSE IF Holds(e, {"Unimplemented"}) THEN "ENOSYS"
    ELSE "EIO"

mapFlushError(e) ==
    IF Holds(e, {"EACCES"}) THEN "EPERM"
    ELSE IF Holds(e, {"conflict"}) THEN "EINVAL"
    ELSE grpcErrno(e)

Errno(t) == IF op[t] = "UpdateResource" THEN mapFlushError(err[t]) ELSE grpcErrno(err[t])

-----------------------------------------------------------------------------
(* The calls have their types; no client is closed that was not opened.     *)
TypeOK ==
    /\ maintenance \in BOOLEAN /\ nodes \in FlagNodes /\ config \in Configs
    /\ srv \in [Nodes -> 1..MaxVersion]
    /\ pc \in [Callers -> {"idle", "dial", "nodes", "resolve", "rpc", "close", "reply"}]
    /\ op \in [Callers -> Ops \cup {"none"}]
    /\ node \in [Callers -> Nodes \cup {NoNode}]
    /\ ctx \in [Callers -> SUBSET Nodes]
    /\ val \in [Callers -> 0..MaxVersion]
    /\ err \in [Callers -> Seq(Codes \cup {"fmt", "opaque", "conflict", "plain", "EACCES"})]
    /\ open \in [Callers -> Nat]
    /\ asked \in [Callers -> SUBSET Nodes]

(* Where a call is, what it has, and what it has still to do go together:   *)
(* the inductive invariant.                                                 *)
InOrder(t) ==
    /\ pc[t] = "idle" => op[t] = "none" /\ node[t] = NoNode
    /\ pc[t] # "idle" => op[t] \in Ops
    /\ pc[t] \in {"idle", "dial"} => asked[t] = {} /\ ctx[t] = {}
    /\ pc[t] \in {"idle", "dial", "reply"} => open[t] = 0
    /\ pc[t] \in {"nodes", "resolve", "rpc", "close"} => open[t] = 1
    /\ pc[t] \notin {"close", "reply"} => err[t] = NoError /\ val[t] = 0
    /\ node[t] # NoNode => asked[t] \subseteq {node[t]}

(* What a failure can have become: of the adapter's own making as long as   *)
(* no node has been asked, and later possibly what an RPC returned.         *)
OwnErrors == { <<"plain">>, Wrapped(<<"plain">>), Wrapped(<<"EACCES">>) }
RPCErrors == { Wrapped(e) : e \in Refusals \cup { <<"conflict">> } }
ErrorInOrder(t) ==
    /\ err[t] \in {NoError} \cup OwnErrors \cup RPCErrors
    /\ asked[t] = {} => err[t] \in {NoError} \cup OwnErrors
IInv == TypeOK /\ \A t \in Callers : InOrder(t) /\ ErrorInOrder(t)

(* "The client is always closed before WithClient returns" (client.go:65):  *)
(* whichever step of a call fails, it leaves no client behind, and it       *)
(* answers only once its client is closed.                                  *)
NoClientLeaks == \A t \in Callers : pc[t] \in {"idle", "dial", "reply"} => open[t] = 0

(* Each RPC of a call that names a node reaches that node and no other,     *)
(* also in maintenance mode, where WithClient names them all                *)
(* (adapter.go:64, client.go:86): the first of two RPCs like the second.    *)
AskedOfItsNode == \A t \in Callers : node[t] # NoNode => asked[t] \subseteq {node[t]}

(* What was said of a call in the end, where the client library does not    *)
(* hide it.                                                                 *)
Said(e) == IF "opaque" \in Range(e) THEN {} ELSE {Last(e)}

(* What the errno of a failed call tells (nodes.go:606-624,                 *)
(* file.go:157-174).  One that speaks of the resource comes from a node     *)
(* that was asked in that call and said so; a read or a list hears what the *)
(* node said through all the layers that wrap it; and a save that lost      *)
(* against another's is told so.  Which errno a save has that a node denies *)
(* is left open: the code and its plan disagree.                            *)
Failed(t) == pc[t] = "reply" /\ err[t] # NoError
Saying ==
    [ENOENT |-> {"NotFound"}, ENOSYS |-> {"Unimplemented"},
     EACCES |-> {"PermissionDenied", "Unauthenticated"}]
ErrnoTellsCause ==
    \A t \in Callers : Failed(t) =>
        /\ asked[t] = {} => Errno(t) \in {"EIO", "EPERM"}
        /\ \A errno \in DOMAIN Saying :
             /\ Errno(t) = errno => Said(err[t]) \subseteq Saying[errno] /\ Said(err[t]) # {}
             /\ op[t] \in Reads /\ Said(err[t]) \cap Saying[errno] # {} => Errno(t) = errno
        /\ op[t] = "UpdateResource" /\ "conflict" \in Said(err[t]) => Errno(t) = "EINVAL"

(* Every call returns when its dialling and its RPCs do: no failure leaves  *)
(* it waiting (client.go:67-90).                                            *)
CallReturns == \A t \in Callers : pc[t] # "idle" ~> pc[t] = "idle"

-----------------------------------------------------------------------------
(* A call as the abstract repository has it; one that could not dial has    *)
(* failed when it comes to reply.                                           *)
Kind(t) ==
    IF op[t] = "none" THEN "none" ELSE IF op[t] = "UpdateResource" THEN "write" ELSE "read"
Stage(t) ==
    IF pc[t] = "idle" THEN "idle"
    ELSE IF pc[t] \notin {"close", "reply"} THEN "asked"
    ELSE IF err[t] = NoError THEN "answered" ELSE "failed"
CallOf(t) == [at |-> Stage(t), kind |-> Kind(t), node |-> node[t], ver |-> val[t]]
Calls == [t \in Callers |-> CallOf(t)]

R == INSTANCE Repository WITH server <- srv, call <- Calls

(* However calls interleave with each other, with edits of the talosconfig  *)
(* and with what the nodes do, each has one effect at most, on its node,    *)
(* while it is under way (adapter.go:37-145).  It is what CachingRepository *)
(* and ResourceFile take their inner calls to be.                           *)
ImplementsRepository == R!Spec
=============================================================================
