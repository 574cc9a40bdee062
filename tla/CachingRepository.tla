-------------------------- MODULE CachingRepository --------------------------
(***************************************************************************)
(* The TTL cache between the FUSE tree and the cluster                     *)
(* (internal/fs/cache.go).  Its two maps are one function here: the keys   *)
(* of rdCache are nodes, those of lrCache are (node, namespace, type)      *)
(* tuples, and both are filled in the same way.  FUSE requests, the        *)
(* prefetches of perNodeDir.Readdir and of RunE all call it concurrently,  *)
(* and c.mu is free while the inner repository is being called.            *)
(*                                                                         *)
(* A listing is the version of the list it was made from.  Time passes in  *)
(* ticks; left is what remains of an entry until its expiry.               *)
(***************************************************************************)
EXTENDS Integers

CONSTANTS
    Threads,      \* goroutines that call the repository
    Nodes,        \* keys of rdCache
    Lists,        \* keys of lrCache
    TTLs,         \* values of --cache-ttl, in ticks
    MaxVersion,   \* bound: versions a listing goes through
    MaxFlight,    \* bound: ticks a call of the inner repository takes
    None          \* no key

ASSUME CacheAssumption ==
    /\ TTLs \subseteq Nat
    /\ MaxVersion \in Nat \ {0}
    /\ MaxFlight \in Nat
    /\ None \notin Nodes \cup Lists

Keys == Nodes \cup Lists

VARIABLES
    ttl,          \* CachingRepository.ttl
    srv,          \* version of each listing on the server
    cache,        \* rdCache and lrCache
    pc, key, val, ok,        \* the call each goroutine is making
    acked,        \* history: newest acknowledged update of each key
    flight, stale, overtaken \* history of the listing each goroutine carries

call == <<pc, key, val, ok>>
carried == <<flight, stale, overtaken>>
vars == <<ttl, srv, cache, call, acked, carried>>

(* A cache entry, with the history of its listing: the ticks the call that  *)
(* fetched it took, the ticks since the server replaced it, and whether an  *)
(* update was acknowledged between the server's answer and the store.       *)
Entry == [ver : Nat, left : Nat, flight : Nat, stale : Nat, overtaken : BOOLEAN]
NoEntry == [ver |-> 0, left |-> 0, flight |-> 0, stale |-> 0, overtaken |-> FALSE]

(* A seeded bug: an entry is valid as long as it is in the map.             *)
ValidWhilePresent(k) == cache[k].ver # 0

(* The entry is there and its expiry has not come.                          *)
Valid(k) == cache[k].left > 0

Init ==
    /\ ttl \in TTLs
    /\ srv = [k \in Keys |-> 1]
    /\ cache = [k \in Keys |-> NoEntry]
    /\ pc = [t \in Threads |-> "idle"]
    /\ key = [t \in Threads |-> None]
    /\ val = [t \in Threads |-> 0]
    /\ ok = [t \in Threads |-> TRUE]
    /\ acked = [k \in Keys |-> 0]
    /\ flight = [t \in Threads |-> 0]
    /\ stale = [t \in Threads |-> 0]
    /\ overtaken = [t \in Threads |-> FALSE]

Goto(t, where) == pc' = [pc EXCEPT ![t] = where]

-----------------------------------------------------------------------------
(* A seeded bug: a hit renews the entry.                                    *)
LookupRenews(t, k) ==
    /\ pc[t] = "idle"
    /\ key' = [key EXCEPT ![t] = k]
    /\ \/ /\ Valid(k) /\ Goto(t, "reply") /\ val' = [val EXCEPT ![t] = cache[k].ver]
          /\ cache' = [cache EXCEPT ![k].left = ttl]
       \/ ~ Valid(k) /\ Goto(t, "fetch") /\ UNCHANGED <<val, cache>>
    /\ UNCHANGED <<ttl, srv, ok, acked, carried>>

(* A hit is decided, and its listing copied, under c.mu; a miss goes on     *)
(* without it.  With a ttl of 0 nothing is ever valid.                      *)
Lookup(t, k) ==
    /\ pc[t] = "idle"
    /\ key' = [key EXCEPT ![t] = k]
    /\ \/ Valid(k) /\ Goto(t, "reply") /\ val' = [val EXCEPT ![t] = cache[k].ver]
       \/ ~ Valid(k) /\ Goto(t, "fetch") /\ UNCHANGED val
    /\ UNCHANGED <<ttl, srv, cache, ok, acked, carried>>

ResourceDefinitions(t, node) == Lookup(t, node)
ListResources(t, list) == Lookup(t, list)

(* A seeded bug: an expired listing is served when the node fails.          *)
FetchFallsBack(t) ==
    /\ pc[t] = "fetch"
    /\ \/ Goto(t, "store") /\ val' = [val EXCEPT ![t] = srv[key[t]]]
       \/ Goto(t, "reply") /\ val' = [val EXCEPT ![t] = cache[key[t]].ver]
    /\ UNCHANGED <<ttl, srv, cache, key, ok, acked, carried>>

(* The inner repository answers, or fails; an error is not cached.          *)
InnerFetch(t) ==
    /\ pc[t] = "fetch"
    /\ \/ Goto(t, "store") /\ val' = [val EXCEPT ![t] = srv[key[t]]] /\ UNCHANGED ok
       \/ Goto(t, "reply") /\ ok' = [ok EXCEPT ![t] = FALSE] /\ UNCHANGED val
    /\ UNCHANGED <<ttl, srv, cache, key, acked, carried>>

(* A seeded bug: an entry that is there, expired or not, is not replaced.   *)
StoreOnce(t) ==
    /\ pc[t] = "store"
    /\ Goto(t, "reply")
    /\ cache' = IF ttl = 0 \/ cache[key[t]].ver # 0 THEN cache ELSE
                [cache EXCEPT ![key[t]] =
                   [ver |-> val[t], left |-> ttl, flight |-> flight[t],
                    stale |-> stale[t], overtaken |-> overtaken[t]]]
    /\ UNCHANGED <<ttl, srv, key, val, ok, acked, carried>>

(* The entry's life starts when it is stored, whatever was stored before.   *)
Store(t) ==
    /\ pc[t] = "store"
    /\ Goto(t, "reply")
    /\ cache' = IF ttl = 0 THEN cache ELSE
                [cache EXCEPT ![key[t]] =
                   [ver |-> val[t], left |-> ttl, flight |-> flight[t],
                    stale |-> stale[t], overtaken |-> overtaken[t]]]
    /\ UNCHANGED <<ttl, srv, key, val, ok, acked, carried>>

-----------------------------------------------------------------------------
(* UpdateResource: the inner call, whose effect is a new version of the     *)
(* list the resource is in, and the deletion of that list's entry only if   *)
(* the inner call returned no error.                                        *)
UpdateResource(t, list) ==
    /\ pc[t] = "idle"
    /\ Goto(t, "update")
    /\ key' = [key EXCEPT ![t] = list]
    /\ UNCHANGED <<ttl, srv, cache, val, ok, acked, carried>>

InnerUpdate(t) ==
    LET k == key[t] IN
    /\ pc[t] = "update"
    /\ srv[k] < MaxVersion
    /\ srv' = [srv EXCEPT ![k] = @ + 1]
    /\ \/ Goto(t, "delete") /\ val' = [val EXCEPT ![t] = srv[k] + 1] /\ UNCHANGED ok
       \/ Goto(t, "reply") /\ ok' = [ok EXCEPT ![t] = FALSE] /\ UNCHANGED val
    /\ UNCHANGED <<ttl, cache, key, acked, carried>>

InnerUpdateFails(t) ==
    /\ pc[t] = "update"
    /\ Goto(t, "reply")
    /\ ok' = [ok EXCEPT ![t] = FALSE]
    /\ UNCHANGED <<ttl, srv, cache, key, val, acked, carried>>

(* A seeded bug: the entry is left in place.                                *)
DeleteNothing(t) ==
    LET k == key[t] IN
    /\ pc[t] = "delete"
    /\ Goto(t, "updated")
    /\ acked' = [acked EXCEPT ![k] = IF @ > val[t] THEN @ ELSE val[t]]
    /\ overtaken' = [u \in Threads |-> overtaken[u] \/ (pc[u] = "store" /\ key[u] = k)]
    /\ UNCHANGED <<ttl, srv, cache, key, val, ok, flight, stale>>

Delete(t) ==
    LET k == key[t] IN
    /\ pc[t] = "delete"
    /\ Goto(t, "updated")
    /\ cache' = [cache EXCEPT ![k] = NoEntry]
    /\ acked' = [acked EXCEPT ![k] = IF @ > val[t] THEN @ ELSE val[t]]
    /\ overtaken' = [u \in Threads |-> overtaken[u] \/ (pc[u] = "store" /\ key[u] = k)]
    /\ UNCHANGED <<ttl, srv, key, val, ok, flight, stale>>

-----------------------------------------------------------------------------
(* The call returns to its caller.                                          *)
Return(t) ==
    /\ pc[t] \in {"reply", "updated"}
    /\ Goto(t, "idle")
    /\ key' = [key EXCEPT ![t] = None]
    /\ val' = [val EXCEPT ![t] = 0]
    /\ ok' = [ok EXCEPT ![t] = TRUE]
    /\ flight' = [flight EXCEPT ![t] = 0]
    /\ stale' = [stale EXCEPT ![t] = 0]
    /\ overtaken' = [overtaken EXCEPT ![t] = FALSE]
    /\ UNCHANGED <<ttl, srv, cache, acked>>

(* The listing changes on the server by other means.                        *)
ServerChange(k) ==
    /\ srv[k] < MaxVersion
    /\ srv' = [srv EXCEPT ![k] = @ + 1]
    /\ UNCHANGED <<ttl, cache, call, acked, carried>>

InFlight(t) == pc[t] \in {"fetch", "store"}
Carries(t) == pc[t] = "store"

(* One tick of the clock.                                                   *)
Aged(e, current) ==
    [e EXCEPT !.left = IF @ > 0 THEN @ - 1 ELSE 0,
              !.stale = IF e.left > 0 /\ e.ver < current THEN @ + 1 ELSE @]
Tick ==
    /\ \A t \in Threads : InFlight(t) => flight[t] < MaxFlight
    /\ cache' = [k \in Keys |-> Aged(cache[k], srv[k])]
    /\ flight' = [t \in Threads |-> IF InFlight(t) THEN flight[t] + 1 ELSE flight[t]]
    /\ stale' = [t \in Threads |->
                   IF Carries(t) /\ val[t] < srv[key[t]] THEN stale[t] + 1 ELSE stale[t]]
    /\ UNCHANGED <<ttl, srv, call, acked, overtaken>>

Progress(t) ==
    InnerFetch(t) \/ Store(t) \/ InnerUpdate(t) \/ InnerUpdateFails(t) \/ Delete(t) \/ Return(t)

Next ==
    \/ \E t \in Threads, n \in Nodes : ResourceDefinitions(t, n)
    \/ \E t \in Threads, l \in Lists : ListResources(t, l) \/ UpdateResource(t, l)
    \/ \E t \in Threads : Progress(t)
    \/ \E k \in Keys : ServerChange(k)
    \/ Tick

Spec == Init /\ [][Next]_vars

(* Time passes, and a call that the inner repository answers goes on.       *)
Fairness == WF_vars(Tick) /\ \A t \in Threads : WF_vars(Progress(t))
FairSpec == Spec /\ Fairness

-----------------------------------------------------------------------------
(* The cache's fields and the calls under way have their Go types, and a    *)
(* call under way has a key.                                                *)
TypeOK ==
    /\ ttl \in TTLs
    /\ srv \in [Keys -> 1..MaxVersion]
    /\ cache \in [Keys -> Entry]
    /\ pc \in [Threads -> {"idle", "fetch", "store", "update", "delete", "reply", "updated"}]
    /\ key \in [Threads -> Keys \cup {None}]
    /\ val \in [Threads -> Nat]
    /\ ok \in [Threads -> BOOLEAN]
    /\ acked \in [Keys -> Nat]
    /\ flight \in [Threads -> Nat]
    /\ stale \in [Threads -> Nat]
    /\ overtaken \in [Threads -> BOOLEAN]
    /\ \A t \in Threads : pc[t] # "idle" => key[t] \in Keys

(* A listing that is served from the cache was still the server's less than *)
(* ttl ticks ago, plus the ticks the call that fetched it took: entries are *)
(* not kept alive by hits, and a failed call does not extend them.          *)
StalenessBounded ==
    \A k \in Keys : Valid(k) => cache[k].stale < ttl + cache[k].flight

(* After UpdateResource has answered with success, an older listing of that *)
(* type is served only if it was on its way to the cache, already answered  *)
(* by the server, when the entry was deleted (cache.go:112-116).            *)
StaleOnlyIfOvertaken ==
    \A k \in Keys : Valid(k) /\ cache[k].ver < acked[k] => cache[k].overtaken

(* What makes them inductive.                                               *)
CarriedInOrder(t) ==
    /\ stale[t] <= flight[t]
    /\ flight[t] <= MaxFlight
    /\ pc[t] # "reply" => ok[t]
    /\ pc[t] \in {"idle", "update", "delete"} => flight[t] = 0
    /\ pc[t] \in {"idle", "fetch", "update", "delete"} => ~ overtaken[t] /\ stale[t] = 0
    /\ pc[t] = "store" /\ ~ overtaken[t] => acked[key[t]] <= val[t]
    /\ pc[t] = "delete" => val[t] \in 1..srv[key[t]]
EntryInOrder(k) ==
    Valid(k) =>
        /\ cache[k].left <= ttl
        /\ cache[k].flight <= MaxFlight
        /\ cache[k].stale <= (ttl - cache[k].left) + cache[k].flight
        /\ ~ cache[k].overtaken => acked[k] <= cache[k].ver

(* The inductive invariant behind the two: an entry's remaining life, its   *)
(* staleness and the trip it made to the cache add up, and so do those of   *)
(* a listing that is still on its way (cache.go:90-98).                     *)
IInv ==
    /\ TypeOK
    /\ \A k \in Keys : acked[k] <= srv[k] /\ EntryInOrder(k)
    /\ \A t \in Threads : CarriedInOrder(t)

(* The cache implements a store of copies of bounded age.                   *)
KeptCopies(k) == IF Valid(k) THEN {[ver |-> cache[k].ver, stale |-> cache[k].stale]} ELSE {}
Kept == [k \in Keys |-> KeptCopies(k)]
Copy(t) == [ver |-> val[t], stale |-> stale[t]]
ComingCopies(k) == { Copy(t) : t \in { u \in Threads : Carries(u) /\ key[u] = k } }
Coming == [k \in Keys |-> ComingCopies(k)]
AnswerTo(t) ==
    IF pc[t] = "updated" THEN [is |-> "updated", ver |-> val[t]]
    ELSE IF pc[t] = "reply" /\ ok[t] THEN [is |-> "listing", ver |-> val[t]]
    ELSE [is |-> "nothing", ver |-> 0]
Given == [t \in Threads |-> AnswerTo(t)]

S == INSTANCE StaleStore WITH
       Callers <- Threads, bound <- ttl + MaxFlight, server <- srv,
       kept <- Kept, coming <- Coming, given <- Given

(* Whatever the interleaving of hits, misses, stores, expiry and updates:   *)
(* only a copy that a call has just brought takes the place of another, an  *)
(* acknowledged update leaves none, and none gets older than the time to    *)
(* live and the trip of one call together (cache.go:76-118).                *)
ImplementsStaleStore == S!Spec

(* A listing the server has replaced does not stay in the cache for ever,   *)
(* however often it is read.                                                *)
Outdated(k) == Valid(k) /\ cache[k].ver < srv[k]
OutdatedIsDropped == \A k \in Keys : Outdated(k) ~> ~ Outdated(k)
=============================================================================
