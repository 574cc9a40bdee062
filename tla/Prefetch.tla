------------------------------- MODULE Prefetch -------------------------------
(***************************************************************************)
(* The background warming of the list cache: perNodeDir.Readdir starts     *)
(* prefetchNodeLists on a goroutine, which starts one goroutine per        *)
(* resource definition and lets prefetchConcurrency of them run at a time  *)
(* (internal/fs/nodes.go).  Every Readdir starts another one.              *)
(***************************************************************************)
EXTENDS Integers, FiniteSets

CONSTANTS
    Walks,               \* goroutines running prefetchNodeLists
    Defs,                \* number of resource definitions of the node
    Unnamed,             \* those without a default namespace
    prefetchConcurrency

ASSUME PrefetchAssumption ==
    /\ Defs \in Nat
    /\ Unnamed \subseteq 1..Defs
    /\ prefetchConcurrency \in Nat \ {0}

VARIABLES
    at,       \* what each walk is doing
    next,     \* the definition its loop has reached
    sem,      \* elements in its channel sem
    wg,       \* counter of its WaitGroup
    worker,   \* its goroutines, by definition
    asked     \* history: definitions whose ListResources it has called

vars == <<at, next, sem, wg, worker, asked>>

Init ==
    /\ at = [w \in Walks |-> "idle"]
    /\ next = [w \in Walks |-> 1]
    /\ sem = [w \in Walks |-> 0]
    /\ wg = [w \in Walks |-> 0]
    /\ worker = [w \in Walks |-> [d \in 1..Defs |-> "none"]]
    /\ asked = [w \in Walks |-> {}]

Goto(w, where) == at' = [at EXCEPT ![w] = where]
Set(w, d, state) == worker' = [worker EXCEPT ![w][d] = state]

-----------------------------------------------------------------------------
(* perNodeDir.Readdir; a finished walk's goroutine stands for a new one's.  *)
Readdir(w) ==
    /\ at[w] \in {"idle", "done"}
    /\ Goto(w, "loop")
    /\ next' = [next EXCEPT ![w] = 1]
    /\ worker' = [worker EXCEPT ![w] = [d \in 1..Defs |-> "none"]]
    /\ asked' = [asked EXCEPT ![w] = {}]
    /\ UNCHANGED <<sem, wg>>

Skip(w) ==
    /\ at[w] = "loop"
    /\ next[w] \in Unnamed
    /\ next' = [next EXCEPT ![w] = @ + 1]
    /\ UNCHANGED <<at, sem, wg, worker, asked>>

(* A seeded bug: the goroutine is started before there is room in sem.      *)
StartUnthrottled(w) ==
    LET d == next[w] IN
    /\ at[w] = "loop"
    /\ d \in (1..Defs) \ Unnamed
    /\ sem' = [sem EXCEPT ![w] = @ + 1]
    /\ wg' = [wg EXCEPT ![w] = @ + 1]
    /\ Set(w, d, "list")
    /\ next' = [next EXCEPT ![w] = d + 1]
    /\ UNCHANGED <<at, asked>>

(* sem <- struct{}{}, which blocks while the channel is full; wg.Add; go.   *)
StartWorker(w) ==
    LET d == next[w] IN
    /\ at[w] = "loop"
    /\ d \in (1..Defs) \ Unnamed
    /\ sem[w] < prefetchConcurrency
    /\ sem' = [sem EXCEPT ![w] = @ + 1]
    /\ wg' = [wg EXCEPT ![w] = @ + 1]
    /\ Set(w, d, "list")
    /\ next' = [next EXCEPT ![w] = d + 1]
    /\ UNCHANGED <<at, asked>>

LoopEnds(w) ==
    /\ at[w] = "loop"
    /\ next[w] > Defs
    /\ Goto(w, "wait")
    /\ UNCHANGED <<next, sem, wg, worker, asked>>

(* Seeded bugs: an error returns past the receive on sem, or past wg.Done.  *)
ListedLeaksSem(w, d) ==
    /\ worker[w][d] = "list"
    /\ Set(w, d, "done") \/ Set(w, d, "release")
    /\ asked' = [asked EXCEPT ![w] = @ \cup {d}]
    /\ UNCHANGED <<at, next, sem, wg>>
WaitForSemOnly(w) ==
    /\ at[w] = "wait"
    /\ sem[w] = 0
    /\ Goto(w, "done")
    /\ UNCHANGED <<next, sem, wg, worker, asked>>

(* A goroutine's ListResources returns, with a listing or with an error     *)
(* that is dropped; then its deferred calls, the last one first.            *)
Listed(w, d) ==
    /\ worker[w][d] = "list"
    /\ Set(w, d, "release")
    /\ asked' = [asked EXCEPT ![w] = @ \cup {d}]
    /\ UNCHANGED <<at, next, sem, wg>>

ReleaseSem(w, d) ==
    /\ worker[w][d] = "release"
    /\ Set(w, d, "done")
    /\ sem' = [sem EXCEPT ![w] = @ - 1]
    /\ UNCHANGED <<at, next, wg, asked>>

WorkerDone(w, d) ==
    /\ worker[w][d] = "done"
    /\ Set(w, d, "none")
    /\ wg' = [wg EXCEPT ![w] = @ - 1]
    /\ UNCHANGED <<at, next, sem, asked>>

(* wg.Wait returns, and with it prefetchNodeLists.                          *)
WaitEnds(w) ==
    /\ at[w] = "wait"
    /\ wg[w] = 0
    /\ Goto(w, "done")
    /\ UNCHANGED <<next, sem, wg, worker, asked>>

Loop(w) == Skip(w) \/ StartWorker(w) \/ LoopEnds(w) \/ WaitEnds(w)
Work(w, d) == Listed(w, d) \/ ReleaseSem(w, d) \/ WorkerDone(w, d)

Next ==
    \/ \E w \in Walks : Readdir(w) \/ Loop(w)
    \/ \E w \in Walks, d \in 1..Defs : Work(w, d)

Spec == Init /\ [][Next]_vars

(* Goroutines run, and the cache or the node answers every list call.       *)
FairSpec ==
    /\ Spec
    /\ \A w \in Walks : WF_vars(Loop(w))
    /\ \A w \in Walks, d \in 1..Defs : WF_vars(Work(w, d))

-----------------------------------------------------------------------------
Workers(w, states) == { d \in 1..Defs : worker[w][d] \in states }

(* The channel never holds more than its capacity and the WaitGroup's       *)
(* counter never goes below zero, which would panic.                        *)
TypeOK ==
    /\ at \in [Walks -> {"idle", "loop", "wait", "done"}]
    /\ next \in [Walks -> 1..(Defs + 1)]
    /\ sem \in [Walks -> 0..prefetchConcurrency]
    /\ wg \in [Walks -> 0..Defs]
    /\ worker \in [Walks -> [1..Defs -> {"none", "list", "release", "done"}]]
    /\ asked \in [Walks -> SUBSET (1..Defs)]

(* The channel and the WaitGroup count the goroutines they stand for.       *)
Accounting ==
    \A w \in Walks :
        /\ sem[w] = Cardinality(Workers(w, {"list", "release"}))
        /\ wg[w] = Cardinality(Workers(w, {"list", "release", "done"}))

(* One walk never has more than prefetchConcurrency list calls under way.   *)
Throttled ==
    \A w \in Walks : Cardinality(Workers(w, {"list"})) <= prefetchConcurrency

(* A walk that has returned has asked for every definition that has a       *)
(* namespace and has left no goroutine, and no element in sem, behind.      *)
NothingLeftBehind ==
    \A w \in Walks :
        at[w] = "done" =>
            /\ asked[w] = (1..Defs) \ Unnamed
            /\ Workers(w, {"list", "release", "done"}) = {}
            /\ sem[w] = 0

(* A walk has asked for what it has passed, or is asking; once it waits it  *)
(* has passed everything.  With Accounting this is inductive.               *)
InOrder(w) ==
    /\ at[w] \in {"idle", "done"} => \A d \in 1..Defs : worker[w][d] = "none"
    /\ at[w] \in {"wait", "done"} => next[w] = Defs + 1
    /\ asked[w] \subseteq (1..Defs) \ Unnamed
    /\ \A d \in 1..Defs :
         /\ worker[w][d] # "none" => d < next[w] /\ d \notin Unnamed
         /\ at[w] # "idle" /\ d < next[w] /\ d \notin Unnamed =>
              d \in asked[w] \/ worker[w][d] = "list"
IInv == TypeOK /\ Accounting /\ \A w \in Walks : InOrder(w)

(* Every walk returns: failed list calls do not use up the semaphore.       *)
WalkEnds == \A w \in Walks : at[w] = "loop" ~> at[w] = "done"
=============================================================================
