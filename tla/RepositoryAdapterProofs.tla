------------------------ MODULE RepositoryAdapterProofs ------------------------
(* Theorems about RepositoryAdapter for every number of callers and nodes,  *)
(* every --nodes and talosconfig, and every set of status codes.            *)
EXTENDS RepositoryAdapter, TLAPS

USE AdapterAssumption

Links == Codes \cup {"fmt", "opaque", "conflict", "plain", "EACCES"}

(* Every error the layers make is a chain of links, and not empty.          *)
LEMMA WrappedIsError ==
    ASSUME NEW e \in Seq(Links)
    PROVE  Wrapped(e) \in Seq(Links) /\ Wrapped(e) # NoError
<1>1. <<"fmt">> \in Seq(Links)
  BY DEF Links
<1>2. Len(Wrapped(e)) = 1 + Len(e)
  BY <1>1 DEF Wrapped
<1> QED
  BY <1>1, <1>2 DEF Wrapped, NoError

LEMMA ErrorChains ==
    /\ NoError \in Seq(Links)
    /\ <<"plain">> \in Seq(Links) /\ <<"plain">> # NoError
    /\ \A e \in Refusals \cup OpenErrors \cup { <<"conflict">> } : e \in Seq(Links)
    /\ \A c \in Configs : c.open \in Seq(Links)
<1>1. \A c \in Links, d \in Links : <<c>> \in Seq(Links) /\ <<c, d>> \in Seq(Links)
  OBVIOUS
<1>2. NoError \in Seq(Links) /\ <<"plain">> # NoError
  BY DEF NoError
<1>3. \A e \in Refusals \cup OpenErrors \cup { <<"conflict">> } : e \in Seq(Links)
  <2>1. ASSUME NEW e \in Refusals PROVE e \in Seq(Links)
    <3>1. CASE e = <<"plain">>
      BY <1>1, <3>1 DEF Links
    <3>2. CASE \E c \in Codes : e = <<c>>
      BY <1>1, <3>2 DEF Links
    <3>3. CASE \E c \in Codes : e = <<"opaque", c>>
      BY <1>1, <3>3 DEF Links
    <3> QED
      BY <3>1, <3>2, <3>3, Zenon DEF Refusals
  <2>2. <<"EACCES">> \in Seq(Links) /\ <<"plain">> \in Seq(Links) /\ <<"conflict">> \in Seq(Links)
    BY <1>1 DEF Links
  <2> QED
    BY <2>1, <2>2 DEF OpenErrors
<1>4. \A c \in Configs : c.open \in Seq(Links)
  BY <1>2, <1>3 DEF Configs
<1> QED
  BY <1>1, <1>2, <1>3, <1>4 DEF Links

(* The nodes that maintenance mode names are nodes, if there is no error.   *)
LEMMA NodesErrorIsError ==
    ASSUME TypeOK
    PROVE  /\ NodesError \in Seq(Links)
           /\ NodesError = NoError =>
                (IF nodes # {} THEN nodes ELSE config.nodes) \in SUBSET Nodes
<1>1. config \in Configs /\ nodes \in SUBSET Nodes
  BY DEF TypeOK
<1>2. config.open \in Seq(Links)
  BY <1>1, ErrorChains
<1>3. NodesError \in Seq(Links)
  BY <1>2, ErrorChains, WrappedIsError DEF NodesError
<1>4. config.nodes \in (SUBSET Nodes) \cup {NoNode}
  BY <1>1 DEF Configs
<1>5. NodesError = NoError /\ nodes = {} => config.nodes # NoNode
  <2>1. NodesError = NoError /\ nodes = {} /\ config.open # NoError => FALSE
    BY <1>2, WrappedIsError DEF NodesError
  <2>2. nodes = {} /\ config.open = NoError /\ config.nodes = NoNode => NodesError = <<"plain">>
    BY DEF NodesError
  <2> QED
    BY <2>1, <2>2, ErrorChains
<1>6. ASSUME NodesError = NoError
      PROVE  (IF nodes # {} THEN nodes ELSE config.nodes) \in SUBSET Nodes
  <2>1. CASE nodes # {}
    BY <1>1, <2>1
  <2>2. CASE nodes = {}
    BY <1>4, <1>5, <1>6, <2>2
  <2> QED
    BY <2>1, <2>2
<1> QED
  BY <1>3, <1>6

(* What an RPC reaches is some nodes, and those of the call if it names any. *)
LEMMA ReachedNodes ==
    ASSUME TypeOK, NEW t \in Callers, NEW ns \in Reached(t)
    PROVE  /\ ns \in SUBSET Nodes /\ ns # {}
           /\ node[t] # NoNode => ns = {node[t]}
<1>1. node[t] \in Nodes \cup {NoNode} /\ ctx[t] \in SUBSET Nodes
  BY DEF TypeOK
<1>2. CASE node[t] # NoNode
  <2>1. WithNode(t) = {node[t]} /\ Reached(t) = { {node[t]} }
    BY <1>2 DEF Reached, WithNode
  <2> QED
    BY <1>1, <1>2, <2>1
<1>3. CASE node[t] = NoNode
  <2>1. WithNode(t) = ctx[t]
    BY <1>3 DEF WithNode
  <2>2. CASE ctx[t] = {}
    BY <1>3, <2>1, <2>2 DEF Reached
  <2>3. CASE ctx[t] # {}
    BY <1>1, <1>3, <2>1, <2>3 DEF Reached
  <2> QED
    BY <2>2, <2>3
<1> QED
  BY <1>2, <1>3

-----------------------------------------------------------------------------
LEMMA InitIInv == Init => IInv
  BY ErrorChains DEF Init, IInv, TypeOK, InOrder, ErrorInOrder, Links, NoError

(* A step of a call that moves only that call, and fails or not.            *)
LEMMA ErrStep ==
    ASSUME TypeOK, NEW t \in Callers, NEW e \in Seq(Links), Fail(t, e)
    PROVE  err' \in [Callers -> Seq(Links)] /\ err'[t] = e
           /\ \A u \in Callers \ {t} : err'[u] = err[u]
  BY DEF TypeOK, Fail, Links

(* Every step keeps the variables in their types.                           *)
LEMMA TypeStep ==
    ASSUME IInv, [Next]_vars
    PROVE  TypeOK'
<1> USE DEF options, request
<1>1. TypeOK
  BY DEF IInv
<1>2. ASSUME NEW t \in Callers, NEW e \in Seq(Links), Fail(t, e)
      PROVE  err' \in [Callers -> Seq(Links)]
  BY <1>1, <1>2, ErrStep
<1>3. ASSUME NEW t \in Callers, NEW e \in Refusals \cup { <<"conflict">> }, Fail(t, Wrapped(e))
      PROVE  err' \in [Callers -> Seq(Links)]
  BY <1>2, <1>3, ErrorChains, WrappedIsError
<1>4. ASSUME NEW t \in Callers, NEW ns \in SUBSET Nodes, Asks(t, ns)
      PROVE  asked' \in [Callers -> SUBSET Nodes]
  BY <1>1, <1>4 DEF Asks, TypeOK
<1>5. CASE \E t \in Callers, o \in Ops, n \in Nodes \cup {NoNode} : Call(t, o, n)
  BY <1>1, <1>5 DEF Call, Goto, TypeOK
<1>6. CASE \E t \in Callers : newClient(t)
  <2> PICK t \in Callers : newClient(t)
    BY <1>6
  <2>1. err' = err \/ \E e \in Seq(Links) : Fail(t, e)
    <3>1. config.open \in Seq(Links)
      BY <1>1, ErrorChains DEF TypeOK
    <3> QED
      BY <3>1, ErrorChains, WrappedIsError DEF newClient
  <2>2. err' \in [Callers -> Seq(Links)]
    BY <1>1, <1>2, <2>1 DEF TypeOK, Links
  <2>3. open' \in [Callers -> Nat]
    <3>1. open' = open \/ open' = [open EXCEPT ![t] = @ + 1]
      BY DEF newClient
    <3>2. open \in [Callers -> Nat]
      BY <1>1 DEF TypeOK
    <3> QED
      BY ONLY <3>1, <3>2
  <2>4. \E w \in {"nodes", "resolve", "rpc", "reply"} : Goto(t, w)
    BY DEF newClient, Action
  <2>5. UNCHANGED <<options, config, srv, request, ctx, val, asked>>
    BY DEF newClient
  <2> QED
    BY <1>1, <2>2, <2>3, <2>4, <2>5 DEF Goto, TypeOK, Links
<1>7. CASE \E t \in Callers : effectiveNodes(t)
  <2> PICK t \in Callers : effectiveNodes(t)
    BY <1>7
  <2>1. err' \in [Callers -> Seq(Links)]
    BY <1>1, <1>2, NodesErrorIsError DEF effectiveNodes, TypeOK, Links
  <2>2. ctx' \in [Callers -> SUBSET Nodes]
    <3> DEFINE ns == IF nodes # {} THEN nodes ELSE config.nodes
    <3>1. ctx' = ctx \/ (ns \in SUBSET Nodes /\ ctx' = [ctx EXCEPT ![t] = ns])
      BY <1>1, NodesErrorIsError DEF effectiveNodes
    <3>2. ctx \in [Callers -> SUBSET Nodes]
      BY <1>1 DEF TypeOK
    <3> QED
      BY ONLY <3>1, <3>2
  <2> QED
    BY <1>1, <2>1, <2>2 DEF effectiveNodes, Goto, TypeOK, Action, Links
<1>8. CASE \E t \in Callers : ResolveResourceKind(t)
  <2> PICK t \in Callers : ResolveResourceKind(t)
    BY <1>8
  <2>1. err' \in [Callers -> Seq(Links)] /\ asked' \in [Callers -> SUBSET Nodes]
    BY <1>1, <1>3, <1>4 DEF ResolveResourceKind, TypeOK, Links
  <2> QED
    BY <1>1, <2>1 DEF ResolveResourceKind, Goto, TypeOK, Links
<1>9. CASE \E t \in Callers : Read(t)
  <2> PICK t \in Callers : Read(t)
    BY <1>9
  <2>1. err' \in [Callers -> Seq(Links)] /\ asked' \in [Callers -> SUBSET Nodes]
    BY <1>1, <1>3, <1>4 DEF Read, TypeOK, Links
  <2>2. val' \in [Callers -> 0..MaxVersion]
    <3>1. \A n \in Nodes : srv[n] \in 0..MaxVersion
      BY <1>1 DEF TypeOK
    <3> QED
      BY <1>1, <3>1 DEF Read, TypeOK
  <2> QED
    BY <1>1, <2>1, <2>2 DEF Read, Goto, TypeOK, Links
<1>10. CASE \E t \in Callers : UpdateApplied(t)
  <2> PICK t \in Callers : UpdateApplied(t)
    BY <1>10
  <2>1. err' \in [Callers -> Seq(Links)] /\ asked' \in [Callers -> SUBSET Nodes]
    BY <1>1, <1>3, <1>4 DEF UpdateApplied, TypeOK, Links
  <2>2. srv' \in [Nodes -> 1..MaxVersion]
    BY <1>1 DEF UpdateApplied, TypeOK
  <2> QED
    BY <1>1, <2>1, <2>2 DEF UpdateApplied, Goto, TypeOK, Links
<1>11. CASE \E t \in Callers : UpdateRefused(t)
  <2> PICK t \in Callers : UpdateRefused(t)
    BY <1>11
  <2>1. err' \in [Callers -> Seq(Links)] /\ asked' \in [Callers -> SUBSET Nodes]
    BY <1>1, <1>3, <1>4 DEF UpdateRefused, TypeOK, Links
  <2> QED
    BY <1>1, <2>1 DEF UpdateRefused, Goto, TypeOK, Links
<1>12. CASE \E t \in Callers : Close(t)
  <2> PICK t \in Callers : Close(t)
    BY <1>12
  <2>1. open[t] = 1
    BY DEF Close, IInv, InOrder
  <2>2. open' \in [Callers -> Nat]
    BY <1>1, <2>1 DEF Close, TypeOK
  <2> QED
    BY <1>1, <2>2 DEF Close, Goto, TypeOK, Links
<1>13. CASE \E t \in Callers : Return(t)
  BY <1>1, <1>13, ErrorChains DEF Return, Goto, TypeOK, Links
<1>14. CASE \E n \in Nodes : ServerChange(n)
  BY <1>1, <1>14 DEF ServerChange, TypeOK
<1>15. CASE EditConfig
  BY <1>1, <1>15 DEF EditConfig, TypeOK
<1>16. CASE UNCHANGED vars
  BY <1>1, <1>16 DEF vars, TypeOK
<1> QED
  BY <1>5, <1>6, <1>7, <1>8, <1>9, <1>10, <1>11, <1>12, <1>13, <1>14, <1>15, <1>16
     DEF Next, Progress

(* A step of one call leaves the others where they are.                     *)
Local(t) == \A u \in Callers \ {t} :
    /\ pc'[u] = pc[u] /\ op'[u] = op[u] /\ node'[u] = node[u] /\ ctx'[u] = ctx[u]
    /\ val'[u] = val[u] /\ err'[u] = err[u] /\ open'[u] = open[u] /\ asked'[u] = asked[u]

LEMMA LocalSteps ==
    ASSUME TypeOK, NEW t \in Callers,
           Progress(t) \/ \E o \in Ops, n \in Nodes \cup {NoNode} : Call(t, o, n)
    PROVE  Local(t)
<1> USE DEF TypeOK, Local, Goto, Fail, Asks, request
<1>1. CASE \E o \in Ops, n \in Nodes \cup {NoNode} : Call(t, o, n)
  BY <1>1 DEF Call
<1>2. CASE newClient(t)
  BY <1>2 DEF newClient
<1>3. CASE effectiveNodes(t)
  BY <1>3 DEF effectiveNodes
<1>4. CASE ResolveResourceKind(t)
  BY <1>4 DEF ResolveResourceKind
<1>5. CASE Read(t)
  BY <1>5 DEF Read
<1>6. CASE UpdateApplied(t)
  BY <1>6 DEF UpdateApplied
<1>7. CASE UpdateRefused(t)
  BY <1>7 DEF UpdateRefused
<1>8. CASE Close(t)
  BY <1>8 DEF Close
<1>9. CASE Return(t)
  BY <1>9 DEF Return
<1> QED
  BY <1>1, <1>2, <1>3, <1>4, <1>5, <1>6, <1>7, <1>8, <1>9 DEF Progress

(* The call that moves stays in order.                                      *)
LEMMA OrderStep ==
    ASSUME IInv, NEW t \in Callers,
           Progress(t) \/ \E o \in Ops, n \in Nodes \cup {NoNode} : Call(t, o, n)
    PROVE  InOrder(t)'
<1> USE DEF TypeOK, InOrder, Goto, Fail, request
<1>1. TypeOK /\ InOrder(t)
  BY DEF IInv
<1>2. ASSUME NEW ns \in SUBSET Nodes, Asks(t, ns)
      PROVE  node[t] # NoNode => asked'[t] \subseteq {node[t]}
  <2>1. ns \in Reached(t) /\ asked'[t] = asked[t] \cup ns
    BY <1>1, <1>2 DEF Asks
  <2>2. node[t] # NoNode => ns = {node[t]}
    BY <1>1, <2>1, ReachedNodes
  <2> QED
    BY <1>1, <2>1, <2>2
<1>3. CASE \E o \in Ops, n \in Nodes \cup {NoNode} : Call(t, o, n)
  BY <1>1, <1>3 DEF Call
<1>4. CASE newClient(t)
  BY <1>1, <1>4 DEF newClient, Action
<1>5. CASE effectiveNodes(t)
  BY <1>1, <1>5 DEF effectiveNodes, Action
<1>6. CASE ResolveResourceKind(t)
  <2>1. node[t] # NoNode => asked'[t] \subseteq {node[t]}
    BY <1>2, <1>6 DEF ResolveResourceKind
  <2> QED
    BY <1>1, <2>1, <1>6 DEF ResolveResourceKind
<1>7. CASE Read(t)
  <2>1. node[t] # NoNode => asked'[t] \subseteq {node[t]}
    BY <1>2, <1>7 DEF Read
  <2> QED
    BY <1>1, <2>1, <1>7 DEF Read
<1>8. CASE UpdateApplied(t)
  <2>1. node[t] # NoNode => asked'[t] \subseteq {node[t]}
    BY <1>2, <1>8 DEF UpdateApplied
  <2> QED
    BY <1>1, <2>1, <1>8 DEF UpdateApplied
<1>9. CASE UpdateRefused(t)
  <2>1. node[t] # NoNode => asked'[t] \subseteq {node[t]}
    BY <1>2, <1>9 DEF UpdateRefused
  <2> QED
    BY <1>1, <2>1, <1>9 DEF UpdateRefused
<1>10. CASE Close(t)
  BY <1>1, <1>10 DEF Close
<1>11. CASE Return(t)
  BY <1>1, <1>11 DEF Return
<1> QED
  BY <1>3, <1>4, <1>5, <1>6, <1>7, <1>8, <1>9, <1>10, <1>11 DEF Progress

(* What a failure becomes on its way up goes with what has been asked.      *)
LEMMA ErrorStep ==
    ASSUME IInv, NEW t \in Callers,
           Progress(t) \/ \E o \in Ops, n \in Nodes \cup {NoNode} : Call(t, o, n)
    PROVE  ErrorInOrder(t)'
<1>1. TypeOK /\ InOrder(t) /\ ErrorInOrder(t)
  BY DEF IInv
<1>2. err \in [Callers -> Seq(Links)] /\ asked \in [Callers -> SUBSET Nodes]
  BY <1>1 DEF TypeOK, Links
<1>3. ASSUME NEW e, Fail(t, e) PROVE err'[t] = e
  BY <1>2, <1>3 DEF Fail
<1>4. ASSUME NEW ns \in SUBSET Nodes, Asks(t, ns) PROVE asked'[t] # {}
  BY <1>1, <1>2, <1>4, ReachedNodes DEF Asks
<1>5. ASSUME err' = err, asked' = asked PROVE ErrorInOrder(t)'
  BY <1>1, <1>5 DEF ErrorInOrder
<1>6. ASSUME NEW ns \in SUBSET Nodes, Asks(t, ns),
             err' = err \/ \E e \in Refusals \cup { <<"conflict">> } : Fail(t, Wrapped(e))
      PROVE  ErrorInOrder(t)'
  <2>1. asked'[t] # {}
    BY <1>4, <1>6
  <2>2. err'[t] = err[t] \/ err'[t] \in RPCErrors
    BY <1>3, <1>6 DEF RPCErrors
  <2> QED
    BY <1>1, <2>1, <2>2 DEF ErrorInOrder
<1>7. CASE newClient(t)
  <2>1. config.open \in OpenErrors \cup {NoError}
    BY <1>1 DEF TypeOK, Configs
  <2>2. err' = err \/ \E e \in OwnErrors : Fail(t, e)
    BY <1>7, <2>1 DEF newClient, OwnErrors, OpenErrors
  <2>3. err'[t] = err[t] \/ err'[t] \in OwnErrors
    BY <1>3, <2>2
  <2> QED
    BY <1>1, <1>7, <2>3 DEF newClient, ErrorInOrder, InOrder
<1>8. CASE effectiveNodes(t)
  <2>1. config.open \in OpenErrors \cup {NoError}
    BY <1>1 DEF TypeOK, Configs
  <2>2. NodesError \in {NoError} \cup OwnErrors
    BY <2>1 DEF NodesError, OwnErrors, OpenErrors
  <2>3. err'[t] = err[t] \/ err'[t] \in {NoError} \cup OwnErrors
    BY <1>3, <1>8, <2>2 DEF effectiveNodes
  <2> QED
    BY <1>1, <1>8, <2>3 DEF effectiveNodes, ErrorInOrder, InOrder
<1>9. CASE ResolveResourceKind(t)
  BY <1>6, <1>9 DEF ResolveResourceKind
<1>10. CASE Read(t)
  BY <1>6, <1>10 DEF Read
<1>11. CASE UpdateApplied(t)
  BY <1>6, <1>11 DEF UpdateApplied
<1>12. CASE UpdateRefused(t)
  BY <1>6, <1>12 DEF UpdateRefused
<1>13. CASE Return(t)
  BY <1>2, <1>13 DEF Return, ErrorInOrder
<1>14. CASE Close(t) \/ \E o \in Ops, n \in Nodes \cup {NoNode} : Call(t, o, n)
  BY <1>5, <1>14 DEF Close, Call
<1> QED
  BY <1>7, <1>8, <1>9, <1>10, <1>11, <1>12, <1>13, <1>14 DEF Progress

-----------------------------------------------------------------------------
(* IInv is an invariant of the specification.                               *)
THEOREM AdapterInvariance == Spec => []IInv
<1>1. ASSUME IInv, [Next]_vars PROVE IInv'
  <2>1. TypeOK'
    BY <1>1, TypeStep
  <2>2. ASSUME NEW u \in Callers PROVE InOrder(u)' /\ ErrorInOrder(u)'
    <3>1. InOrder(u) /\ ErrorInOrder(u) /\ TypeOK
      BY <1>1 DEF IInv
    <3>2. CASE \E t \in Callers :
                 Progress(t) \/ \E o \in Ops, n \in Nodes \cup {NoNode} : Call(t, o, n)
      <4> PICK t \in Callers :
                 Progress(t) \/ \E o \in Ops, n \in Nodes \cup {NoNode} : Call(t, o, n)
        BY <3>2
      <4>1. CASE u = t
        BY <1>1, <4>1, OrderStep, ErrorStep
      <4>2. CASE u # t
        BY <3>1, <4>2, LocalSteps DEF Local, InOrder, ErrorInOrder
      <4> QED
        BY <4>1, <4>2
    <3>3. CASE (\E n \in Nodes : ServerChange(n)) \/ EditConfig \/ UNCHANGED vars
      BY <3>1, <3>3 DEF ServerChange, EditConfig, vars, request, InOrder, ErrorInOrder
    <3> QED
      BY <1>1, <3>2, <3>3 DEF Next
  <2> QED
    BY <2>1, <2>2 DEF IInv
<1> QED
  BY InitIInv, <1>1, PTL DEF Spec

(* Whichever step fails, a call leaves no client behind (client.go:65-76).  *)
THEOREM NoClientLeaksTheorem == Spec => []NoClientLeaks
<1>1. IInv => NoClientLeaks
  BY DEF IInv, InOrder, NoClientLeaks
<1> QED
  BY AdapterInvariance, <1>1, PTL

(* In either mode, with or without --nodes, a call that names a node        *)
(* reaches that node only (adapter.go:40-142, client.go:78-87).             *)
THEOREM RoutingTheorem == Spec => []AskedOfItsNode
<1>1. IInv => AskedOfItsNode
  BY DEF IInv, InOrder, AskedOfItsNode
<1> QED
  BY AdapterInvariance, <1>1, PTL

-----------------------------------------------------------------------------
(* A wrapping is a link in front of the others.                             *)
LEMMA WrappedLinks ==
    ASSUME NEW e \in Seq(Links)
    PROVE  /\ Len(Wrapped(e)) = Len(e) + 1 /\ Wrapped(e)[1] = "fmt"
           /\ \A k \in 1..Len(e) : Wrapped(e)[k + 1] = e[k]
           /\ DOMAIN Wrapped(e) = 1..(Len(e) + 1) /\ DOMAIN e = 1..Len(e) /\ Len(e) \in Nat
<1>1. <<"fmt">> \in Seq(Links)
  BY DEF Links
<1> QED
  BY <1>1 DEF Wrapped

(* Below it is the first link of what is wrapped.                           *)
LEMMA FirstBelow ==
    ASSUME NEW e \in Seq(Links), Len(e) > 0
    PROVE  /\ Len(Wrapped(e)) = Len(e) + 1
           /\ 2 \in DOMAIN Wrapped(e) /\ Wrapped(e)[2] = e[1]
<1>1. Len(e) \in Nat /\ 1 \in 1..Len(e)
  OBVIOUS
<1>2. Wrapped(e)[1 + 1] = e[1]
  BY <1>1, WrappedLinks
<1>3. Len(Wrapped(e)) = Len(e) + 1 /\ DOMAIN Wrapped(e) = 1..(Len(e) + 1)
  BY WrappedLinks
<1> QED
  BY <1>1, <1>2, <1>3

(* errors.Unwrap goes through a wrapping to the links below it.             *)
LEMMA SeenThroughWrapping ==
    ASSUME NEW e \in Seq(Links)
    PROVE  Seen(Wrapped(e)) = {1} \cup { k + 1 : k \in Seen(e) }
<1>2. /\ Len(Wrapped(e)) = Len(e) + 1 /\ Wrapped(e)[1] = "fmt"
      /\ \A k \in 1..Len(e) : Wrapped(e)[k + 1] = e[k]
      /\ DOMAIN Wrapped(e) = 1..(Len(e) + 1) /\ DOMAIN e = 1..Len(e) /\ Len(e) \in Nat
  BY WrappedLinks
<1>3. ASSUME NEW k \in 1..Len(e)
      PROVE  k \in Seen(e) <=> k + 1 \in Seen(Wrapped(e))
  <2>1. ASSUME \A j \in 1..(k - 1) : e[j] \notin {"opaque", "conflict"},
               NEW j \in 1..k
        PROVE  Wrapped(e)[j] \notin {"opaque", "conflict"}
    <3>1. CASE j = 1
      BY <1>2, <3>1
    <3>2. CASE j # 1
      <4>1. j - 1 \in 1..(k - 1) /\ j - 1 \in 1..Len(e)
        BY <1>2, <3>2
      <4>2. Wrapped(e)[(j - 1) + 1] = e[j - 1]
        BY <1>2, <4>1
      <4> QED
        BY <2>1, <4>1, <4>2
    <3> QED
      BY <3>1, <3>2
  <2>2. ASSUME \A j \in 1..k : Wrapped(e)[j] \notin {"opaque", "conflict"},
               NEW j \in 1..(k - 1)
        PROVE  e[j] \notin {"opaque", "conflict"}
    <3>1. j \in 1..Len(e) /\ j + 1 \in 1..k
      BY <1>2
    <3> QED
      BY <1>2, <2>2, <3>1
  <2>3. k \in DOMAIN e /\ k + 1 \in DOMAIN Wrapped(e) /\ (k + 1) - 1 = k
    BY <1>2
  <2> QED
    BY <2>1, <2>2, <2>3 DEF Seen
<1>4. 1 \in Seen(Wrapped(e))
  BY <1>2 DEF Seen
<1>5. Seen(e) \subseteq 1..Len(e) /\ Seen(Wrapped(e)) \subseteq 1..(Len(e) + 1)
  BY <1>2 DEF Seen
<1>6. ASSUME NEW k \in 1..(Len(e) + 1), k # 1
      PROVE  k \in Seen(Wrapped(e)) <=> k \in { j + 1 : j \in Seen(e) }
  <2>1. k - 1 \in 1..Len(e) /\ (k - 1) + 1 = k
    BY <1>2, <1>6
  <2>2. k \in Seen(Wrapped(e)) <=> k - 1 \in Seen(e)
    BY <1>3, <2>1
  <2>3. \A j \in Seen(e) : j + 1 = k => j = k - 1
    BY <1>5, <2>1
  <2> QED
    BY <2>1, <2>2, <2>3
<1> HIDE DEF Seen, Wrapped
<1>7. \A k \in Seen(e) : k + 1 \in 1..(Len(e) + 1) /\ k + 1 # 1
  BY <1>2, <1>5
<1> QED
  BY <1>2, <1>4, <1>5, <1>6, <1>7

(* However many layers wrap an error with fmt.Errorf, the errno it becomes  *)
(* is that of the error within (resources.go, adapter.go, cache.go): the    *)
(* mappings of nodes.go:606-624 and file.go:157-174 look through them all.  *)
THEOREM WrappingIsTransparent ==
    ASSUME NEW e \in Seq(Links)
    PROVE  /\ grpcErrno(Wrapped(e)) = grpcErrno(e)
           /\ mapFlushError(Wrapped(e)) = mapFlushError(e)
<1>1. ASSUME NEW links, "fmt" \notin links
      PROVE  Holds(Wrapped(e), links) <=> Holds(e, links)
  <2>2. Wrapped(e)[1] = "fmt" /\ \A k \in 1..Len(e) : Wrapped(e)[k + 1] = e[k]
    BY WrappedLinks
  <2>3. Seen(e) \subseteq 1..Len(e)
    BY DEF Seen
  <2> QED
    BY <1>1, <2>2, <2>3, SeenThroughWrapping DEF Holds
<1>2. /\ Holds(Wrapped(e), {"EACCES"}) <=> Holds(e, {"EACCES"})
      /\ Holds(Wrapped(e), {"conflict"}) <=> Holds(e, {"conflict"})
      /\ Holds(Wrapped(e), {"NotFound"}) <=> Holds(e, {"NotFound"})
      /\ Holds(Wrapped(e), {"Unimplemented"}) <=> Holds(e, {"Unimplemented"})
      /\ Holds(Wrapped(e), {"PermissionDenied", "Unauthenticated"})
           <=> Holds(e, {"PermissionDenied", "Unauthenticated"})
  BY <1>1
<1> QED
  BY <1>2 DEF grpcErrno, mapFlushError

(* An error of one link holds that link.                                    *)
LEMMA OneLink ==
    ASSUME NEW c \in Links, NEW links
    PROVE  Holds(<<c>>, links) <=> c \in links
<1>1. DOMAIN <<c>> = {1} /\ <<c>>[1] = c
  OBVIOUS
<1>2. Seen(<<c>>) = {1}
  BY <1>1 DEF Seen
<1> QED
  BY <1>1, <1>2 DEF Holds

(* What is of the adapter's own making, as far as a wrapping leaves it to   *)
(* be told, is no status of a node.                                         *)
LEMMA OwnErrno ==
    ASSUME NEW e \in OwnErrors
    PROVE  grpcErrno(e) = "EIO" /\ mapFlushError(e) \in {"EIO", "EPERM"}
<1>1. \A c \in {"plain", "EACCES"} :
        /\ c \in Links /\ <<c>> \in Seq(Links)
        /\ grpcErrno(<<c>>) = "EIO" /\ mapFlushError(<<c>>) \in {"EIO", "EPERM"}
  <2> SUFFICES ASSUME NEW c \in {"plain", "EACCES"}
               PROVE  /\ c \in Links /\ <<c>> \in Seq(Links)
                      /\ grpcErrno(<<c>>) = "EIO" /\ mapFlushError(<<c>>) \in {"EIO", "EPERM"}
    OBVIOUS
  <2>1. c \in Links /\ <<c>> \in Seq(Links)
    BY DEF Links
  <2> QED
    BY <2>1, OneLink DEF grpcErrno, mapFlushError
<1>2. PICK c \in {"plain", "EACCES"} : e = <<c>> \/ e = Wrapped(<<c>>)
  BY DEF OwnErrors
<1> QED
  BY <1>1, <1>2, WrappingIsTransparent

(* A chain ends in what was said; below an "opaque" it is hidden, also from *)
(* errors.Unwrap (nodes.go:607-608).                                        *)
LEMMA SaidPlainly ==
    ASSUME NEW c \in Links \ {"fmt", "opaque"}, NEW e \in { <<c>>, Wrapped(<<c>>) }
    PROVE  /\ Said(e) = {c}
           /\ grpcErrno(e) = grpcErrno(<<c>>) /\ mapFlushError(e) = mapFlushError(<<c>>)
<1>1. PICK one \in Seq(Links) : one = <<c>>
  BY <<c>> \in Seq(Links)
<1>2. Len(one) = 1 /\ one[1] = c /\ DOMAIN one = {1}
  BY <1>1
<1>3. CASE e = <<c>>
  BY <1>1, <1>2, <1>3 DEF Said, Last, Range
<1>4. CASE e = Wrapped(<<c>>)
  <2>1. e = Wrapped(one)
    BY <1>1, <1>4
  <2>2. Len(e) = 2 /\ DOMAIN e = {1, 2} /\ e[1] = "fmt" /\ e[2] = c
    <3>1. /\ Len(Wrapped(one)) = Len(one) + 1 /\ Wrapped(one)[1] = "fmt"
          /\ DOMAIN Wrapped(one) = 1..(Len(one) + 1)
      BY WrappedLinks
    <3>2. Wrapped(one)[2] = one[1]
      BY <1>2, FirstBelow
    <3> QED
      BY <1>2, <2>1, <3>1, <3>2
  <2>3. Said(e) = {c}
    BY <2>2 DEF Said, Last, Range
  <2>4. grpcErrno(e) = grpcErrno(one) /\ mapFlushError(e) = mapFlushError(one)
    BY <2>1, WrappingIsTransparent
  <2> QED
    BY <1>1, <2>3, <2>4
<1> QED
  BY <1>3, <1>4

LEMMA SaidHidden ==
    ASSUME NEW c \in Codes
    PROVE  /\ Said(Wrapped(<<"opaque", c>>)) = {}
           /\ grpcErrno(Wrapped(<<"opaque", c>>)) = "EIO"
           /\ mapFlushError(Wrapped(<<"opaque", c>>)) = "EIO"
<1>1. PICK e \in Seq(Links) : e = <<"opaque", c>>
  <2>1. <<"opaque", c>> \in Seq(Links)
    BY DEF Links
  <2> QED
    BY <2>1
<1>2. Len(e) = 2 /\ DOMAIN e = {1, 2} /\ e[1] = "opaque"
  BY <1>1
<1>3. 2 \in DOMAIN Wrapped(e) /\ Wrapped(e)[2] = "opaque"
  BY <1>2, FirstBelow
<1>4. Said(Wrapped(e)) = {}
  BY <1>3 DEF Said, Range
<1>5. Seen(e) = {1}
  BY <1>2 DEF Seen
<1>6. \A links : Holds(e, links) <=> "opaque" \in links
  BY <1>2, <1>5 DEF Holds
<1>7. grpcErrno(e) = "EIO" /\ mapFlushError(e) = "EIO"
  BY <1>6 DEF grpcErrno, mapFlushError
<1> QED
  BY <1>1, <1>4, <1>7, WrappingIsTransparent

(* The errnos of the statuses, and what they leave to be told.              *)
LEMMA SayingErrnos ==
    ASSUME NEW c \in Links \ {"fmt", "opaque"}, NEW errno \in DOMAIN Saying
    PROVE  /\ grpcErrno(<<c>>) = errno <=> c \in Saying[errno]
           /\ mapFlushError(<<c>>) = errno => c \in Saying[errno]
<1>1. \/ errno = "ENOENT" /\ Saying[errno] = {"NotFound"}
      \/ errno = "ENOSYS" /\ Saying[errno] = {"Unimplemented"}
      \/ errno = "EACCES" /\ Saying[errno] = {"PermissionDenied", "Unauthenticated"}
  BY DEF Saying
<1> QED
  BY <1>1, OneLink DEF grpcErrno, mapFlushError

(* An errno that speaks of the resource comes from a node that was asked    *)
(* and said so; a read or a list hears what a node said, and a save that it *)
(* lost against another's, through every layer that wraps it                *)
(* (nodes.go:606-624, file.go:157-174).                                     *)
THEOREM ErrnoTheorem == Spec => []ErrnoTellsCause
<1>1. ASSUME IInv, NEW t \in Callers, Failed(t), asked[t] = {}
      PROVE  Errno(t) \in {"EIO", "EPERM"}
  <2>1. err[t] \in OwnErrors
    BY <1>1 DEF IInv, ErrorInOrder, Failed
  <2> QED
    BY <2>1, OwnErrno DEF Errno
<1>2. ASSUME IInv, NEW t \in Callers, Failed(t)
      PROVE  \/ \E c \in Links \ {"fmt", "opaque"} : err[t] \in { <<c>>, Wrapped(<<c>>) }
             \/ \E c \in Codes : err[t] = Wrapped(<<"opaque", c>>)
  <2>1. err[t] \in OwnErrors \cup RPCErrors
    BY <1>2 DEF IInv, ErrorInOrder, Failed
  <2>2. CASE err[t] \in OwnErrors
    BY <2>2 DEF OwnErrors, Links
  <2>3. CASE err[t] \in RPCErrors
    BY <2>3, AdapterAssumption DEF RPCErrors, Refusals, Links
  <2> QED
    BY <2>1, <2>2, <2>3
<1> DEFINE Tells(t) ==
             /\ \A errno \in DOMAIN Saying :
                  /\ Errno(t) = errno => Said(err[t]) \subseteq Saying[errno] /\ Said(err[t]) # {}
                  /\ op[t] \in Reads /\ Said(err[t]) \cap Saying[errno] # {} => Errno(t) = errno
             /\ op[t] = "UpdateResource" /\ "conflict" \in Said(err[t]) => Errno(t) = "EINVAL"
<1>3. ASSUME IInv, NEW t \in Callers, Failed(t)
      PROVE  Tells(t)
  <2>1. op[t] \in Reads => op[t] # "UpdateResource"
    BY DEF Reads
  <2>2. ASSUME NEW c \in Links \ {"fmt", "opaque"}, err[t] \in { <<c>>, Wrapped(<<c>>) }
        PROVE  Tells(t)
    <3>1. /\ Said(err[t]) = {c}
          /\ grpcErrno(err[t]) = grpcErrno(<<c>>) /\ mapFlushError(err[t]) = mapFlushError(<<c>>)
      BY <2>2, SaidPlainly
    <3>2. c = "conflict" => mapFlushError(<<c>>) = "EINVAL"
      BY OneLink DEF mapFlushError
    <3>3. \A errno \in DOMAIN Saying :
            /\ grpcErrno(<<c>>) = errno <=> c \in Saying[errno]
            /\ mapFlushError(<<c>>) = errno => c \in Saying[errno]
      BY <2>2, SayingErrnos
    <3>4. Errno(t) = IF op[t] = "UpdateResource" THEN mapFlushError(<<c>>) ELSE grpcErrno(<<c>>)
      BY <3>1 DEF Errno
    <3> QED
      BY <2>1, <3>1, <3>2, <3>3, <3>4
  <2>3. ASSUME NEW c \in Codes, err[t] = Wrapped(<<"opaque", c>>)
        PROVE  Tells(t)
    <3>1. Said(err[t]) = {} /\ Errno(t) = "EIO"
      BY <2>3, SaidHidden DEF Errno
    <3>2. "EIO" \notin DOMAIN Saying
      BY DEF Saying
    <3> QED
      BY <3>1, <3>2
  <2> QED
    BY <1>2, <1>3, <2>2, <2>3
<1>4. IInv => ErrnoTellsCause
  BY <1>1, <1>3 DEF ErrnoTellsCause
<1> QED
  BY AdapterInvariance, <1>4, PTL

-----------------------------------------------------------------------------
(* What the abstract repository sees of a step is the call that moves.      *)
LEMMA OneCall ==
    ASSUME NEW t \in Callers, Local(t)
    PROVE  Calls' = [Calls EXCEPT ![t] = CallOf(t)']
<1>1. \A u \in Callers \ {t} : CallOf(u)' = CallOf(u)
  BY DEF CallOf, Stage, Kind, Local
<1>2. Calls = [u \in Callers |-> CallOf(u)] /\ Calls' = [u \in Callers |-> CallOf(u)']
  BY DEF Calls
<1> QED
  BY ONLY <1>1, <1>2, t \in Callers

LEMMA SameCall ==
    ASSUME NEW t \in Callers, Local(t), CallOf(t)' = CallOf(t)
    PROVE  Calls' = Calls
  BY DEF Calls, CallOf, Stage, Kind, Local

(* An error ends a call that has been asked.                                *)
LEMMA FailStep ==
    ASSUME IInv, NEW t \in Callers, Local(t), UNCHANGED <<srv, request>>,
           pc[t] \in {"dial", "nodes", "resolve", "rpc"}, pc'[t] \in {"close", "reply"},
           err'[t] # NoError, val'[t] = val[t]
    PROVE  R!Fail(t)
<1>1. Calls[t] = CallOf(t) /\ Calls' = [Calls EXCEPT ![t] = CallOf(t)']
  BY OneCall DEF Calls
<1>2. CallOf(t).at = "asked"
  BY DEF CallOf, Stage
<1>3. CallOf(t)' = [CallOf(t) EXCEPT !.at = "failed"]
  BY DEF CallOf, Stage, Kind, request
<1> QED
  BY <1>1, <1>2, <1>3 DEF R!Fail, R!Becomes

(* Every step of a call is one of the abstract repository's, or none.       *)
LEMMA CallStep ==
    ASSUME IInv, NEW t \in Callers,
           Progress(t) \/ \E o \in Ops, n \in Nodes \cup {NoNode} : Call(t, o, n)
    PROVE  R!Next \/ UNCHANGED R!vars
<1> USE DEF Goto, Fail, request, TypeOK
<1>1. TypeOK /\ InOrder(t) /\ Local(t) /\ Calls[t] = CallOf(t)
  BY LocalSteps DEF IInv, Calls
<1>2. ASSUME UNCHANGED srv, CallOf(t)' = CallOf(t) PROVE UNCHANGED R!vars
  BY <1>1, <1>2, SameCall DEF R!vars
<1>3. ASSUME NEW ns \in SUBSET Nodes, Asks(t, ns)
      PROVE  ns \in R!Reach(node[t])
  <2>1. ns \in Reached(t)
    BY <1>3 DEF Asks
  <2> QED
    BY <1>1, <2>1, ReachedNodes DEF R!Reach
<1>4. \A e \in Refusals \cup { <<"conflict">> } : Wrapped(e) # NoError
  BY ErrorChains, WrappedIsError
<1>5. CASE \E o \in Ops, n \in Nodes \cup {NoNode} : Call(t, o, n)
  <2> PICK o \in Ops, n \in Nodes \cup {NoNode} : Call(t, o, n)
    BY <1>5
  <2> DEFINE kind == IF o = "UpdateResource" THEN "write" ELSE "read"
  <2>1. CallOf(t) = R!Idle
    BY <1>1 DEF Call, CallOf, Stage, Kind, InOrder, R!Idle
  <2>2. CallOf(t)' = R!Asked(kind, n)
    BY <1>1 DEF Call, CallOf, Stage, Kind, InOrder, R!Asked, Ops, Reads
  <2>3. R!Call(t, kind, n)
    BY <1>1, <2>1, <2>2, OneCall DEF Call, R!Call, R!Becomes
  <2> QED
    BY <2>3 DEF R!Next
<1>6. CASE newClient(t)
  <2>1. CASE pc'[t] = "reply"
    <3>1. err'[t] # NoError
      <4>1. config.open \in Seq(Links)
        BY <1>1, ErrorChains
      <4>2. Wrapped(config.open) # NoError /\ Wrapped(<<"plain">>) # NoError
        BY <4>1, ErrorChains, WrappedIsError
      <4> QED
        BY <1>1, <1>6, <2>1, <4>2, ErrorChains DEF newClient, Action
    <3>2. R!Fail(t)
      BY <1>1, <1>6, <2>1, <3>1, FailStep DEF newClient
    <3> QED
      BY <3>2 DEF R!Next
  <2>2. CASE pc'[t] # "reply"
    BY <1>1, <1>2, <1>6, <2>2 DEF newClient, Action, CallOf, Stage, Kind
  <2> QED
    BY <2>1, <2>2
<1>7. CASE effectiveNodes(t)
  <2>1. CASE NodesError = NoError
    BY <1>1, <1>2, <1>7, <2>1 DEF effectiveNodes, Action, CallOf, Stage, Kind
  <2>2. CASE NodesError # NoError
    <3>1. R!Fail(t)
      BY <1>1, <1>7, <2>2, FailStep DEF effectiveNodes
    <3> QED
      BY <3>1 DEF R!Next
  <2> QED
    BY <2>1, <2>2
<1>8. CASE ResolveResourceKind(t)
  <2>1. CASE pc'[t] = "rpc"
    BY <1>1, <1>2, <1>8, <2>1 DEF ResolveResourceKind, CallOf, Stage, Kind
  <2>2. CASE pc'[t] # "rpc"
    <3>1. R!Fail(t)
      BY <1>1, <1>4, <1>8, <2>2, FailStep DEF ResolveResourceKind
    <3> QED
      BY <3>1 DEF R!Next
  <2> QED
    BY <2>1, <2>2
<1>9. CASE Read(t)
  <2>1. PICK ns \in SUBSET Nodes :
          /\ Asks(t, ns)
          /\ \/ (\E n \in ns : val' = [val EXCEPT ![t] = srv[n]]) /\ UNCHANGED err
             \/ (\E e \in Refusals : Fail(t, Wrapped(e))) /\ UNCHANGED val
    BY <1>9 DEF Read
  <2>2. CASE (\E n \in ns : val' = [val EXCEPT ![t] = srv[n]]) /\ UNCHANGED err
    <3>1. PICK n \in ns : val' = [val EXCEPT ![t] = srv[n]]
      BY <2>2
    <3>2. CallOf(t).at = "asked" /\ CallOf(t).kind = "read" /\ CallOf(t).node = node[t]
      BY <1>1, <1>9 DEF Read, CallOf, Stage, Kind, Reads, InOrder
    <3>3. CallOf(t)' = R!Answered(CallOf(t), srv[n])
      <4>1. err[t] = NoError /\ err'[t] = NoError /\ pc'[t] = "close" /\ val'[t] = srv[n]
        BY <1>1, <1>9, <2>2, <3>1 DEF Read, InOrder
      <4>2. op'[t] = op[t] /\ node'[t] = node[t]
        BY <1>9 DEF Read
      <4>3. CallOf(t)' = [at |-> "answered", kind |-> Kind(t), node |-> node[t], ver |-> srv[n]]
        BY <4>1, <4>2 DEF CallOf, Stage, Kind
      <4> QED
        BY <4>3 DEF CallOf, R!Answered
    <3>4. ns \in R!Reach(node[t])
      BY <1>3, <2>1
    <3>5. Calls' = [Calls EXCEPT ![t] = CallOf(t)']
      BY <1>1, OneCall
    <3>6. UNCHANGED srv
      BY <1>9 DEF Read
    <3>7. R!Read(t)
      <4>1. R!Becomes(t, R!Answered(Calls[t], srv[n]))
        BY <1>1, <3>3, <3>5 DEF R!Becomes
      <4>2. Calls[t].at = "asked" /\ Calls[t].kind = "read" /\ Calls[t].node = node[t]
        BY <1>1, <3>2
      <4> HIDE DEF TypeOK
      <4> QED
        BY <3>4, <3>6, <4>1, <4>2, n \in ns DEF R!Read
    <3> QED
      BY <3>7 DEF R!Next
  <2>3. CASE (\E e \in Refusals : Fail(t, Wrapped(e))) /\ UNCHANGED val
    <3>1. R!Fail(t)
      BY <1>1, <1>4, <1>9, <2>3, FailStep DEF Read
    <3> QED
      BY <3>1 DEF R!Next
  <2> QED
    BY <2>1, <2>2, <2>3
<1>10. CASE UpdateApplied(t)
  <2>1. PICK ns \in SUBSET Nodes :
          /\ Asks(t, ns)
          /\ srv' = [n \in Nodes |-> IF n \in ns THEN srv[n] + 1 ELSE srv[n]]
    BY <1>10 DEF UpdateApplied
  <2>2. CallOf(t).at = "asked" /\ CallOf(t).kind = "write" /\ CallOf(t).node = node[t]
    BY <1>1, <1>10 DEF UpdateApplied, CallOf, Stage, Kind
  <2>3. \E end \in {"answered", "failed"} : CallOf(t)' = [CallOf(t) EXCEPT !.at = end]
    <3>1. pc'[t] = "close" /\ val'[t] = val[t] /\ op'[t] = op[t] /\ node'[t] = node[t]
      BY <1>1, <1>10 DEF UpdateApplied
    <3>2. CASE err'[t] = NoError
      BY <3>1, <3>2 DEF CallOf, Stage, Kind
    <3>3. CASE err'[t] # NoError
      BY <3>1, <3>3 DEF CallOf, Stage, Kind
    <3> QED
      BY <3>2, <3>3
  <2>4. ns \in R!Reach(node[t])
    BY <1>3, <2>1
  <2>5. Calls' = [Calls EXCEPT ![t] = CallOf(t)']
    BY <1>1, OneCall
  <2>6. R!Write(t)
    BY <1>1, <2>1, <2>2, <2>3, <2>4, <2>5 DEF R!Write, R!Becomes
  <2> QED
    BY <2>6 DEF R!Next
<1>11. CASE UpdateRefused(t)
  <2>1. R!Fail(t)
    BY <1>1, <1>4, <1>11, FailStep DEF UpdateRefused
  <2> QED
    BY <2>1 DEF R!Next
<1>12. CASE Close(t)
  BY <1>1, <1>2, <1>12 DEF Close, CallOf, Stage, Kind
<1>13. CASE Return(t)
  <2>1. CallOf(t).at \in {"answered", "failed"}
    BY <1>13 DEF Return, CallOf, Stage
  <2>2. CallOf(t)' = R!Idle
    BY <1>1, <1>13 DEF Return, CallOf, Stage, Kind, R!Idle
  <2>3. R!Return(t)
    BY <1>1, <1>13, <2>1, <2>2, OneCall DEF Return, R!Return, R!Becomes
  <2> QED
    BY <2>3 DEF R!Next
<1> QED
  BY <1>5, <1>6, <1>7, <1>8, <1>9, <1>10, <1>11, <1>12, <1>13 DEF Progress

(* However calls interleave, each has at most one effect, on the node it    *)
(* names and while it is under way, and returns what that node held then    *)
(* or an error (adapter.go:37-145).                                         *)
THEOREM AdapterRefinement == Spec => ImplementsRepository
<1>1. Init => R!Init
  BY DEF Init, R!Init, Calls, CallOf, Stage, Kind, R!Idle
<1>2. ASSUME IInv, [Next]_vars PROVE [R!Next]_R!vars
  <2>1. CASE \E t \in Callers :
               Progress(t) \/ \E o \in Ops, n \in Nodes \cup {NoNode} : Call(t, o, n)
    BY <1>2, <2>1, CallStep
  <2>2. CASE \E n \in Nodes : ServerChange(n)
    <3>1. PICK n \in Nodes : ServerChange(n)
      BY <2>2
    <3>2. Calls' = Calls /\ srv' = [srv EXCEPT ![n] = @ + 1]
      BY <3>1 DEF ServerChange, request, Calls, CallOf, Stage, Kind
    <3>3. R!Change(n)
      BY <3>2 DEF R!Change
    <3> QED
      BY <3>3 DEF R!Next
  <2>3. CASE EditConfig \/ UNCHANGED vars
    BY <2>3 DEF EditConfig, vars, request, R!vars, Calls, CallOf, Stage, Kind
  <2> QED
    BY <1>2, <2>1, <2>2, <2>3 DEF Next
<1> QED
  BY AdapterInvariance, <1>1, <1>2, PTL DEF Spec, R!Spec, ImplementsRepository

-----------------------------------------------------------------------------
(* Whom the RPCs of a call name.  WithNodes is called in maintenance mode   *)
(* only, and never without nodes.                                           *)
ModeScope(t) ==
    IF maintenance THEN pc[t] \in {"resolve", "rpc"} => ctx[t] # {}
    ELSE pc[t] # "nodes" /\ ctx[t] = {}
InScope == \A t \in Callers : ModeScope(t)

LEMMA ScopeStep ==
    ASSUME IInv, NEW t \in Callers, ModeScope(t),
           Progress(t) \/ \E o \in Ops, n \in Nodes \cup {NoNode} : Call(t, o, n)
    PROVE  ModeScope(t)'
<1> USE DEF TypeOK, ModeScope, Goto, Action, options
<1>1. TypeOK
  BY DEF IInv
<1>2. CASE \E o \in Ops, n \in Nodes \cup {NoNode} : Call(t, o, n)
  BY <1>1, <1>2 DEF Call
<1>3. CASE newClient(t)
  BY <1>1, <1>3 DEF newClient
<1>4. CASE effectiveNodes(t)
  <2>1. NodesError = NoError => (IF nodes # {} THEN nodes ELSE config.nodes) # {}
    <3>1. NodesError = NoError /\ nodes = {} => config.nodes # {}
      <4>1. config.open # NoError => Wrapped(config.open) # NoError
        BY <1>1, ErrorChains, WrappedIsError
      <4> QED
        BY <4>1, ErrorChains DEF NodesError
    <3> QED
      BY <3>1
  <2> QED
    BY <1>1, <1>4, <2>1 DEF effectiveNodes
<1>5. CASE ResolveResourceKind(t)
  BY <1>1, <1>5 DEF ResolveResourceKind
<1>6. CASE Read(t) \/ UpdateApplied(t) \/ UpdateRefused(t)
  BY <1>1, <1>6 DEF Read, UpdateApplied, UpdateRefused
<1>7. CASE Close(t) \/ Return(t)
  BY <1>1, <1>7 DEF Close, Return
<1> QED
  BY <1>2, <1>3, <1>4, <1>5, <1>6, <1>7 DEF Progress

(* An RPC names its nodes in maintenance mode, where nothing behind the     *)
(* endpoint would choose one, and no more than the one of its call in the   *)
(* other mode; several are named by a maintenance call without a node alone *)
(* (client.go:78-87, adapter.go:43-45).                                     *)
THEOREM ScopeTheorem ==
    Spec => [](\A t \in Callers : pc[t] \in {"resolve", "rpc"} =>
                 /\ IF maintenance THEN WithNode(t) # {} ELSE WithNode(t) \subseteq {node[t]}
                 /\ node[t] # NoNode => WithNode(t) = {node[t]})
<1>1. Init => InScope
  BY DEF Init, InScope, ModeScope
<1>2. ASSUME IInv, InScope, [Next]_vars
      PROVE  InScope'
  <2> SUFFICES ASSUME NEW u \in Callers PROVE ModeScope(u)'
    BY DEF InScope
  <2>1. TypeOK /\ ModeScope(u)
    BY <1>2 DEF IInv, InScope
  <2>2. CASE \E t \in Callers :
               Progress(t) \/ \E o \in Ops, n \in Nodes \cup {NoNode} : Call(t, o, n)
    <3> PICK t \in Callers :
               Progress(t) \/ \E o \in Ops, n \in Nodes \cup {NoNode} : Call(t, o, n)
      BY <2>2
    <3>1. maintenance' = maintenance
      BY DEF Progress, Call, newClient, effectiveNodes, ResolveResourceKind, Read,
             UpdateApplied, UpdateRefused, Close, Return, options
    <3>2. CASE u = t
      BY <1>2, <2>1, <3>2, ScopeStep
    <3>3. CASE u # t
      BY <2>1, <3>1, <3>3, LocalSteps DEF Local, ModeScope
    <3> QED
      BY <3>2, <3>3
  <2>3. CASE (\E n \in Nodes : ServerChange(n)) \/ EditConfig \/ UNCHANGED vars
    BY <2>1, <2>3 DEF ServerChange, EditConfig, vars, options, ModeScope
  <2> QED
    BY <1>2, <2>2, <2>3 DEF Next
<1>3. InScope =>
        \A t \in Callers : pc[t] \in {"resolve", "rpc"} =>
          /\ IF maintenance THEN WithNode(t) # {} ELSE WithNode(t) \subseteq {node[t]}
          /\ node[t] # NoNode => WithNode(t) = {node[t]}
  BY DEF InScope, ModeScope, WithNode
<1> QED
  BY <1>1, <1>2, <1>3, AdapterInvariance, PTL DEF Spec

-----------------------------------------------------------------------------
(* The safe part of CallReturns: every step of a call brings it nearer to   *)
(* its return, and no step of another one takes it back.                    *)
StepsLeft(t) ==
    CASE pc[t] = "dial" -> 6 [] pc[t] = "nodes" -> 5 [] pc[t] = "resolve" -> 4
      [] pc[t] = "rpc" -> 3 [] pc[t] = "close" -> 2 [] pc[t] = "reply" -> 1
      [] pc[t] = "idle" -> 0

LEMMA ProgressLess ==
    ASSUME TypeOK, NEW t \in Callers, Progress(t)
    PROVE  StepsLeft(t)' < StepsLeft(t)
<1> USE DEF TypeOK, StepsLeft, Goto, Action
<1>1. CASE newClient(t)
  BY <1>1 DEF newClient
<1>2. CASE effectiveNodes(t)
  BY <1>2 DEF effectiveNodes
<1>3. CASE ResolveResourceKind(t)
  BY <1>3 DEF ResolveResourceKind
<1>4. CASE Read(t)
  BY <1>4 DEF Read
<1>5. CASE UpdateApplied(t) \/ UpdateRefused(t)
  BY <1>5 DEF UpdateApplied, UpdateRefused
<1>6. CASE Close(t) \/ Return(t)
  BY <1>6 DEF Close, Return
<1> HIDE DEF StepsLeft
<1> QED
  BY <1>1, <1>2, <1>3, <1>4, <1>5, <1>6 DEF Progress

(* A call returns after at most six steps of its own (client.go:67-90).     *)
THEOREM CallAdvances ==
    Spec => [][\A t \in Callers :
                  \/ pc[t] = "idle"
                  \/ Progress(t) /\ StepsLeft(t)' < StepsLeft(t)
                  \/ pc'[t] = pc[t]]_vars
<1> DEFINE Advances(t) ==
      \/ pc[t] = "idle"
      \/ Progress(t) /\ StepsLeft(t)' < StepsLeft(t)
      \/ pc'[t] = pc[t]
<1>1. ASSUME TypeOK, Next, NEW t \in Callers PROVE Advances(t)
  <2>1. CASE \E u \in Callers :
               Progress(u) \/ \E o \in Ops, n \in Nodes \cup {NoNode} : Call(u, o, n)
    <3> PICK u \in Callers :
               Progress(u) \/ \E o \in Ops, n \in Nodes \cup {NoNode} : Call(u, o, n)
      BY <2>1
    <3>1. u # t => pc'[t] = pc[t]
      BY <1>1, LocalSteps DEF Local
    <3>2. Progress(u) => StepsLeft(u)' < StepsLeft(u)
      BY <1>1, ProgressLess
    <3>3. Progress(u) \/ pc[u] = "idle"
      BY DEF Call
    <3> QED
      BY <3>1, <3>2, <3>3
  <2>2. CASE (\E n \in Nodes : ServerChange(n)) \/ EditConfig
    BY <2>2 DEF ServerChange, EditConfig
  <2> QED
    BY <1>1, <2>1, <2>2 DEF Next
<1>2. TypeOK /\ [Next]_vars => [\A t \in Callers : Advances(t)]_vars
  BY <1>1
<1>3. IInv => TypeOK
  BY DEF IInv
<1> QED
  BY <1>2, <1>3, AdapterInvariance, PTL DEF Spec
=============================================================================
