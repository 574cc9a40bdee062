-------------------------------- MODULE Warming --------------------------------
(***************************************************************************)
(* The prefetch of a node's lists at work on the cache: the goroutines of  *)
(* Prefetch call the ListResources of CachingRepository, which a user of   *)
(* the mount calls at the same time (internal/fs/nodes.go, cache.go).  The *)
(* lists of the cache are those of the node's definitions.                 *)
(***************************************************************************)
EXTENDS Prefetch

CONSTANTS
    User,         \* a FUSE request
    MaxCalls,     \* bound: calls the user makes
    TTLs, MaxVersion, MaxFlight, None   \* as in CachingRepository

VARIABLES
    ttl, srv, cache, pc, key, val, ok, acked, flight, stale, overtaken,
    calls,        \* how many calls the user has made
    cold,         \* history: no list was cached when the walk began
    spoiled,      \* history: since then a call of it failed or an entry was deleted
    age           \* history: ticks since then, up to the time to live

Named == (1..Defs) \ Unnamed

ASSUME WarmingAssumption ==
    /\ TTLs \subseteq Nat
    /\ MaxVersion \in Nat \ {0}
    /\ MaxFlight \in Nat
    /\ None \notin Named
    /\ User \notin Walks \X Named

C == INSTANCE CachingRepository WITH
       Threads <- (Walks \X Named) \cup {User}, Nodes <- {}, Lists <- Named

cacheVars == <<ttl, srv, cache, pc, key, val, ok, acked, flight, stale, overtaken>>
history == <<calls, cold, spoiled, age>>
warmingVars == <<vars, cacheVars, history>>

WarmingInit ==
    /\ Init /\ C!Init
    /\ calls = 0
    /\ cold = [w \in Walks |-> FALSE]
    /\ spoiled = [w \in Walks |-> FALSE]
    /\ age = [w \in Walks |-> 0]

-----------------------------------------------------------------------------
ReaddirStarts(w) ==
    /\ Readdir(w)
    /\ cold' = [cold EXCEPT ![w] = \A d \in Named : ~ C!Valid(d)]
    /\ spoiled' = [spoiled EXCEPT ![w] = FALSE]
    /\ age' = [age EXCEPT ![w] = 0]
    /\ UNCHANGED <<cacheVars, calls>>

(* A goroutine calls the cache once; the call goes its way through it and   *)
(* returns to the goroutine, which drops what it is given.                  *)
Asks(w, d) ==
    /\ worker[w][d] = "list"
    /\ C!ListResources(<<w, d>>, d)
    /\ UNCHANGED <<vars, history>>
CacheStep(t) ==
    /\ C!InnerFetch(t) \/ C!Store(t)
    /\ UNCHANGED <<vars, history>>
Answered(w, d) ==
    /\ C!Return(<<w, d>>)
    /\ Listed(w, d)
    /\ spoiled' = [spoiled EXCEPT ![w] = @ \/ ~ ok[<<w, d>>]]
    /\ UNCHANGED <<calls, cold, age>>

(* The user lists, or saves a file.                                         *)
UserCalls ==
    /\ calls < MaxCalls
    /\ calls' = calls + 1
    /\ \E d \in Named : C!ListResources(User, d) \/ C!UpdateResource(User, d)
    /\ UNCHANGED <<vars, cold, spoiled, age>>
UserProgress ==
    \/ /\ C!InnerUpdate(User) \/ C!InnerUpdateFails(User) \/ C!Return(User)
       /\ UNCHANGED <<vars, history>>
    \/ /\ C!Delete(User)
       /\ spoiled' = [w \in Walks |-> TRUE]
       /\ UNCHANGED <<vars, calls, cold, age>>

TimePasses ==
    /\ C!Tick
    /\ age' = [w \in Walks |-> IF age[w] < ttl THEN age[w] + 1 ELSE age[w]]
    /\ UNCHANGED <<vars, calls, cold, spoiled>>

Steps(w, d) == Asks(w, d) \/ CacheStep(<<w, d>>) \/ Answered(w, d)
Rest(w, d) == (ReleaseSem(w, d) \/ WorkerDone(w, d)) /\ UNCHANGED <<cacheVars, history>>
Walking(w) == Loop(w) /\ UNCHANGED <<cacheVars, history>>

WarmingNext ==
    \/ \E w \in Walks : ReaddirStarts(w) \/ Walking(w)
    \/ \E w \in Walks, d \in Named : Steps(w, d) \/ Rest(w, d)
    \/ UserCalls \/ CacheStep(User) \/ UserProgress
    \/ TimePasses

WarmingSpec == WarmingInit /\ [][WarmingNext]_warmingVars

(* Goroutines run, and the inner repository answers.                        *)
FairWarmingSpec ==
    /\ WarmingSpec
    /\ \A w \in Walks : WF_warmingVars(Walking(w))
    /\ \A w \in Walks, d \in Named : WF_warmingVars(Steps(w, d)) /\ WF_warmingVars(Rest(w, d))

-----------------------------------------------------------------------------
(* "a subsequent recursive tree walk finds warm cache entries"              *)
(* (nodes.go:202-203): a walk that began with a cold cache, returned within *)
(* the time to live and met no failure and no update leaves every list of   *)
(* the node in the cache, whatever a user has listed meanwhile.             *)
ColdWalkWarms ==
    \A w \in Walks :
        at[w] = "done" /\ cold[w] /\ ~ spoiled[w] /\ age[w] < ttl =>
            \A d \in Named : C!Valid(d)

(* What makes it inductive: a goroutine of a walk is in a call of the cache *)
(* only while it lists, and in the call for its own definition; and what    *)
(* has been stored since a cold walk began, and what the walk has been      *)
(* given, lasts for what the walk's age leaves of the time to live.         *)
WarmingTypeOK ==
    /\ C!TypeOK
    /\ cold \in [Walks -> BOOLEAN]
    /\ spoiled \in [Walks -> BOOLEAN]
    /\ age \in [Walks -> Nat]
InCall(w, d) ==
    /\ pc[<<w, d>>] \in {"idle", "fetch", "store", "reply"}
    /\ pc[<<w, d>>] # "idle" => worker[w][d] = "list" /\ key[<<w, d>>] = d
Given(w, d) == d \in asked[w] \/ (pc[<<w, d>>] = "reply" /\ ok[<<w, d>>])
Warm(w, d) == cache[d].left + age[w] >= ttl
StaysWarm(w, d) ==
    cold[w] /\ ~ spoiled[w] /\ (C!Valid(d) \/ Given(w, d)) => Warm(w, d)
WarmingIInv ==
    /\ IInv /\ WarmingTypeOK
    /\ \A w \in Walks, d \in Named : InCall(w, d) /\ StaysWarm(w, d)
=============================================================================
