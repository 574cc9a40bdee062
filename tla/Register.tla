------------------------------- MODULE Register -------------------------------
(***************************************************************************)
(* What a file of the mount promises to the processes that use it: each    *)
(* inode is a register of its own.  A read takes effect at one moment, and *)
(* shows a version that the node has or had, no older than any version the *)
(* same inode has shown or acknowledged; a write that is answered with     *)
(* success is in all of its inode's later reads, and in those of inodes    *)
(* made for the path afterwards.  Nothing is promised across inodes that   *)
(* exist already, nor for a write whose answer was an error.               *)
(***************************************************************************)
EXTENDS Integers

CONSTANTS
    Threads,      \* requests that may be under way
    Inodes,
    None          \* no inode

VARIABLES
    server,       \* version of the resource at its node
    shown,        \* per inode, the newest version it showed or acknowledged
    acked,        \* the newest version any inode acknowledged
    req           \* the request each thread serves

vars == <<server, shown, acked, req>>

Idle == [op |-> "idle", inode |-> None, ver |-> 0]
Asked(op, i) == [op |-> op, inode |-> i, ver |-> 0]
Holds(op, i, v) == [op |-> op, inode |-> i, ver |-> v]

Newer(a, b) == IF a >= b THEN a ELSE b

Init ==
    /\ server = 1
    /\ shown = [i \in Inodes |-> 0]
    /\ acked = 0
    /\ req = [t \in Threads |-> Idle]

(* The request of thread t becomes r.                                       *)
Becomes(t, r) == req'[t] = r /\ req' = [req EXCEPT ![t] = r]

(* A process asks to read or to write through an inode.                     *)
Ask(t) ==
    /\ req[t] = Idle
    /\ \E op \in {"read", "write"}, i \in Inodes : Becomes(t, Asked(op, i))
    /\ UNCHANGED <<server, shown, acked>>

(* The read takes effect.                                                   *)
Read(t) ==
    LET i == req[t].inode IN
    /\ req[t].op = "read"
    /\ \E v \in 1..server :
         /\ v >= shown[i]
         /\ shown' = [shown EXCEPT ![i] = v]
         /\ Becomes(t, Holds("shown", i, v))
    /\ UNCHANGED <<server, acked>>

(* The write takes effect; its answer may be lost.                          *)
Write(t) ==
    /\ req[t].op = "write"
    /\ server' = server + 1
    /\ Becomes(t, Holds("written", req[t].inode, server + 1)) \/ Becomes(t, Idle)
    /\ UNCHANGED <<shown, acked>>

(* The write is answered with success.                                      *)
Acknowledge(t) ==
    /\ req[t].op = "written"
    /\ shown' = [shown EXCEPT ![req[t].inode] = Newer(@, req[t].ver)]
    /\ acked' = Newer(acked, req[t].ver)
    /\ Becomes(t, Idle)
    /\ UNCHANGED server

(* The process has its answer, or an error instead.                         *)
Return(t) ==
    /\ req[t].op \in {"read", "write", "shown"}
    /\ Becomes(t, Idle)
    /\ UNCHANGED <<server, shown, acked>>

(* The path gets a new inode, in the place of one that nobody uses.         *)
Renew(i) ==
    /\ \A t \in Threads : req[t].inode # i
    /\ shown' = [shown EXCEPT ![i] = acked]
    /\ UNCHANGED <<server, acked, req>>

(* The resource changes at its node by other means.                         *)
Change ==
    /\ server' = server + 1
    /\ UNCHANGED <<shown, acked, req>>

Next ==
    \/ \E t \in Threads : Ask(t) \/ Read(t) \/ Write(t) \/ Acknowledge(t) \/ Return(t)
    \/ \E i \in Inodes : Renew(i)
    \/ Change

Spec == Init /\ [][Next]_vars
=============================================================================
