------------------------------ MODULE Repository ------------------------------
(***************************************************************************)
(* What a repository of node resources promises to the file system and to  *)
(* the cache in front of it: each call has one effect at most, at one      *)
(* moment between its start and its return and on the node it names, and   *)
(* it returns what that node held at that moment, or an error.  An update  *)
(* that returns an error may have been applied all the same.               *)
(***************************************************************************)
EXTENDS Integers

CONSTANTS
    Callers,
    Nodes,
    NoNode        \* the argument of a call that names no node

VARIABLES
    server,       \* version of what each node holds
    call          \* the call each caller is making

vars == <<server, call>>

Idle == [at |-> "idle", kind |-> "none", node |-> NoNode, ver |-> 0]
Asked(kind, n) == [at |-> "asked", kind |-> kind, node |-> n, ver |-> 0]

Answered(asked, ver) ==
    [at |-> "answered", kind |-> asked.kind, node |-> asked.node, ver |-> ver]

(* A call that names no node may reach any of them, even several.           *)
Reach(n) == IF n = NoNode THEN (SUBSET Nodes) \ {{}} ELSE {{n}}

Init ==
    /\ server = [n \in Nodes |-> 1]
    /\ call = [c \in Callers |-> Idle]

Becomes(c, new) == call' = [call EXCEPT ![c] = new]

Call(c, kind, n) ==
    /\ call[c] = Idle
    /\ Becomes(c, Asked(kind, n))
    /\ UNCHANGED server

Read(c) ==
    /\ call[c].at = "asked" /\ call[c].kind = "read"
    /\ \E reached \in Reach(call[c].node) : \E n \in reached :
         Becomes(c, Answered(call[c], server[n]))
    /\ UNCHANGED server

Write(c) ==
    /\ call[c].at = "asked" /\ call[c].kind = "write"
    /\ \E reached \in Reach(call[c].node) :
         server' = [n \in Nodes |-> IF n \in reached THEN server[n] + 1 ELSE server[n]]
    /\ \E end \in {"answered", "failed"} : Becomes(c, [call[c] EXCEPT !.at = end])

Fail(c) ==
    /\ call[c].at = "asked"
    /\ Becomes(c, [call[c] EXCEPT !.at = "failed"])
    /\ UNCHANGED server

Return(c) ==
    /\ call[c].at \in {"answered", "failed"}
    /\ Becomes(c, Idle)
    /\ UNCHANGED server

Change(n) ==
    /\ server' = [server EXCEPT ![n] = @ + 1]
    /\ UNCHANGED call

Next ==
    \/ \E c \in Callers :
         \/ \E kind \in {"read", "write"}, n \in Nodes \cup {NoNode} : Call(c, kind, n)
         \/ Read(c) \/ Write(c) \/ Fail(c) \/ Return(c)
    \/ \E n \in Nodes : Change(n)

Spec == Init /\ [][Next]_vars
=============================================================================
