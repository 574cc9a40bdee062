------------------------------ MODULE StaleStore ------------------------------
(***************************************************************************)
(* What the cache promises to its callers: for each key a copy of the      *)
(* server's listing may be kept, a copy is replaced only by one that a     *)
(* call has just brought, an acknowledged update leaves none, and nothing  *)
(* that has been out of date for more than bound ticks is handed out.  The *)
(* copies that calls are bringing are not touched by an update.            *)
(***************************************************************************)
EXTENDS Integers

CONSTANTS
    Callers,
    Keys

VARIABLES
    bound,        \* ticks for which a copy may be out of date; never changes
    server,       \* version of each key's listing on the server
    kept,         \* the copy kept for each key: a set of at most one
    coming,       \* the copies that calls are bringing for each key
    given         \* what each caller has been answered with

vars == <<bound, server, kept, coming, given>>

(* A copy is its version, and for how long the server has had a newer one.  *)
Fresh(k) == [ver |-> server[k], stale |-> 0]
Older(k, copy) ==
    [copy EXCEPT !.stale = IF copy.ver < server[k] THEN @ + 1 ELSE @]
Aged(k, copies) == { Older(k, copy) : copy \in copies }

(* What a caller may be answered with.                                      *)
Nothing == [is |-> "nothing", ver |-> 0]
Listing(v) == [is |-> "listing", ver |-> v]
Updated(v) == [is |-> "updated", ver |-> v]

Init ==
    /\ bound \in Nat
    /\ server = [k \in Keys |-> 1]
    /\ kept = [k \in Keys |-> {}]
    /\ coming = [k \in Keys |-> {}]
    /\ given = [c \in Callers |-> Nothing]

(* The server answers a call.                                               *)
Fetch(k) ==
    /\ coming' = [coming EXCEPT ![k] = @ \cup {Fresh(k)}]
    /\ UNCHANGED <<bound, server, kept, given>>

(* The call returns to its caller with the copy, and leaves it to be kept   *)
(* or not; another call may be bringing an equal one.                       *)
Arrive(c, k) ==
    \E copy \in coming[k] :
        /\ given' = [given EXCEPT ![c] = Listing(copy.ver)]
        /\ \/ UNCHANGED coming
           \/ coming' = [coming EXCEPT ![k] = @ \ {copy}]
        /\ \/ UNCHANGED kept
           \/ kept' = [kept EXCEPT ![k] = {copy}]
        /\ UNCHANGED <<bound, server>>

(* A caller is answered with the copy that is kept.                         *)
Hit(c, k) ==
    /\ \E copy \in kept[k] : given' = [given EXCEPT ![c] = Listing(copy.ver)]
    /\ UNCHANGED <<bound, server, kept, coming>>

Return(c) ==
    /\ given' = [given EXCEPT ![c] = Nothing]
    /\ UNCHANGED <<bound, server, kept, coming>>

(* An update of the key is acknowledged, which made one of its versions.    *)
Acknowledge(c, k) ==
    /\ kept' = [kept EXCEPT ![k] = {}]
    /\ \E v \in 1..server[k] : given' = [given EXCEPT ![c] = Updated(v)]
    /\ UNCHANGED <<bound, server, coming>>

Change(k) ==
    /\ server' = [server EXCEPT ![k] = @ + 1]
    /\ UNCHANGED <<bound, kept, coming, given>>

(* A tick ages every copy that is out of date; one that is kept may go, and *)
(* has to before it is too old.                                             *)
Tick ==
    /\ \A k \in Keys : kept'[k] \in {{}, Aged(k, kept[k])}
    /\ kept' = [k \in Keys |-> kept'[k]]
    /\ coming' = [k \in Keys |-> Aged(k, coming[k])]
    /\ \A k \in Keys : \A copy \in kept'[k] \cup coming'[k] : copy.stale <= bound
    /\ UNCHANGED <<bound, server, given>>

Next ==
    \/ \E k \in Keys : Fetch(k) \/ Change(k)
    \/ \E c \in Callers, k \in Keys : Hit(c, k) \/ Arrive(c, k) \/ Acknowledge(c, k)
    \/ \E c \in Callers : Return(c)
    \/ Tick

Spec == Init /\ [][Next]_vars
=============================================================================
