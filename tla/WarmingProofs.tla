---------------------------- MODULE WarmingProofs ----------------------------
(* Theorems about Warming for every number of walks and of definitions,     *)
(* every --cache-ttl and however many calls the user makes.                 *)
EXTENDS Warming, PrefetchProofs

USE WarmingAssumption

Threads == (Walks \X Named) \cup {User}

LEMMA Goroutines ==
    /\ User \in Threads
    /\ \A w \in Walks, d \in Named :
         /\ d \in 1..Defs /\ <<w, d>> \in Threads /\ <<w, d>> # User
         /\ \A v \in Walks, e \in Named : <<w, d>> = <<v, e>> <=> w = v /\ d = e
    /\ \A t \in Threads : t = User \/ \E w \in Walks, d \in Named : t = <<w, d>>
  BY DEF Threads, Named

(* The constants of the cache are as CachingRepository assumes.             *)
LEMMA CacheConstants == C!CacheAssumption
  BY DEF C!CacheAssumption

-----------------------------------------------------------------------------
(* A step of the composition is one of Prefetch, or none of its business.   *)
LEMMA WalkStep ==
    ASSUME [WarmingNext]_warmingVars
    PROVE  [Next]_vars
<1> USE DEF Named
<1>1. CASE \E w \in Walks : ReaddirStarts(w) \/ Walking(w)
  BY <1>1 DEF ReaddirStarts, Walking, Next
<1>2. CASE \E w \in Walks, d \in Named : Answered(w, d) \/ Rest(w, d)
  BY <1>2 DEF Answered, Rest, Next, Work
<1>3. CASE \E w \in Walks, d \in Named : Asks(w, d) \/ CacheStep(<<w, d>>)
  BY <1>3 DEF Asks, CacheStep
<1>4. CASE UserCalls \/ CacheStep(User) \/ UserProgress \/ TimePasses
  BY <1>4 DEF UserCalls, CacheStep, UserProgress, TimePasses
<1>5. CASE UNCHANGED warmingVars
  BY <1>5 DEF warmingVars
<1> QED
  BY <1>1, <1>2, <1>3, <1>4, <1>5 DEF WarmingNext, Steps

(* And one of the cache, called as its callers may call it, or none.        *)
LEMMA CallStep ==
    ASSUME [WarmingNext]_warmingVars
    PROVE  [C!Next]_(C!vars)
<1>1. ASSUME UNCHANGED cacheVars PROVE UNCHANGED C!vars
  BY <1>1 DEF cacheVars, C!vars, C!call, C!carried
<1>2. ASSUME NEW t \in Threads, C!Progress(t) PROVE C!Next
  BY <1>2 DEF C!Next, Threads
<1>3. ASSUME NEW t \in Threads, NEW d \in Named, C!ListResources(t, d) \/ C!UpdateResource(t, d)
      PROVE  C!Next
  BY <1>3 DEF C!Next, Threads
<1>4. CASE \E w \in Walks : ReaddirStarts(w) \/ Walking(w)
  BY <1>1, <1>4 DEF ReaddirStarts, Walking
<1>5. CASE \E w \in Walks, d \in Named : Rest(w, d)
  BY <1>1, <1>5 DEF Rest
<1>6. CASE \E w \in Walks, d \in Named : Asks(w, d)
  BY <1>3, <1>6, Goroutines DEF Asks
<1>7. CASE \E w \in Walks, d \in Named : CacheStep(<<w, d>>) \/ Answered(w, d)
  BY <1>2, <1>7, Goroutines DEF CacheStep, Answered, C!Progress
<1>8. CASE UserCalls
  BY <1>3, <1>8, Goroutines DEF UserCalls
<1>9. CASE CacheStep(User) \/ UserProgress
  BY <1>2, <1>9, Goroutines DEF CacheStep, UserProgress, C!Progress
<1>10. CASE TimePasses
  BY <1>10 DEF TimePasses, C!Next
<1>11. CASE UNCHANGED warmingVars
  BY <1>1, <1>11 DEF warmingVars
<1> QED
  BY <1>4, <1>5, <1>6, <1>7, <1>8, <1>9, <1>10, <1>11 DEF WarmingNext, Steps

(* However the cache answers, a walk does nothing that Prefetch does not    *)
(* do (nodes.go:204-227): what is proved of it holds here.                  *)
THEOREM WarmingIsPrefetch == WarmingSpec => Spec
<1>1. WarmingInit => Init
  BY DEF WarmingInit
<1>2. [WarmingNext]_warmingVars => [Next]_vars
  BY WalkStep
<1> QED
  BY <1>1, <1>2, PTL DEF WarmingSpec, Spec

(* The walks call the cache as its specification has its callers call it    *)
(* (nodes.go:218, cache.go:76-100): what is proved of it for every set of   *)
(* callers holds for the walks and the user.                                *)
THEOREM WarmingIsCaching == WarmingSpec => C!Spec
<1>1. WarmingInit => C!Init
  BY DEF WarmingInit
<1>2. [WarmingNext]_warmingVars => [C!Next]_(C!vars)
  BY CallStep
<1> QED
  BY <1>1, <1>2, PTL DEF WarmingSpec, C!Spec

-----------------------------------------------------------------------------
(* Every step of the cache keeps its variables in their types.              *)
LEMMA CacheTypes ==
    ASSUME C!TypeOK, [C!Next]_(C!vars)
    PROVE  C!TypeOK'
<1> USE DEF C!TypeOK, C!call, C!carried, C!Keys, Threads
<1>1. CASE \E t \in Threads, k \in Named : C!Lookup(t, k)
  <2> PICK t \in Threads, k \in Named : C!Lookup(t, k)
    BY <1>1
  <2>1. cache[k].ver \in Nat /\ val \in [Threads -> Nat]
    BY DEF C!Entry
  <2>2. val' = val \/ val' = [val EXCEPT ![t] = cache[k].ver]
    BY DEF C!Lookup
  <2>3. val' \in [Threads -> Nat]
    BY ONLY <2>1, <2>2
  <2> QED
    BY <2>3 DEF C!Lookup, C!Goto
<1>2. CASE \E t \in Threads, k \in Named : C!UpdateResource(t, k)
  BY <1>2 DEF C!UpdateResource, C!Goto, C!Keys
<1>3. CASE \E t \in Threads : C!InnerFetch(t)
  <2> PICK t \in Threads : C!InnerFetch(t)
    BY <1>3
  <2>1. srv[key[t]] \in Nat /\ val \in [Threads -> Nat]
    BY DEF C!InnerFetch
  <2>2. val' = val \/ val' = [val EXCEPT ![t] = srv[key[t]]]
    BY DEF C!InnerFetch
  <2>3. val' \in [Threads -> Nat]
    BY ONLY <2>1, <2>2
  <2> QED
    BY <2>3 DEF C!InnerFetch, C!Goto
<1>4. CASE \E t \in Threads : C!Store(t)
  BY <1>4 DEF C!Store, C!Goto, C!Entry
<1>5. CASE \E t \in Threads : C!InnerUpdate(t)
  <2> PICK t \in Threads : C!InnerUpdate(t)
    BY <1>5
  <2>1. key[t] \in Named /\ srv[key[t]] + 1 \in 1..MaxVersion /\ val \in [Threads -> Nat]
    BY DEF C!InnerUpdate
  <2>2. val' = val \/ val' = [val EXCEPT ![t] = srv[key[t]] + 1]
    BY DEF C!InnerUpdate
  <2>3. val' \in [Threads -> Nat]
    BY ONLY <2>1, <2>2
  <2>4. srv' \in [Named -> 1..MaxVersion]
    <3>1. srv \in [Named -> 1..MaxVersion] /\ srv' = [srv EXCEPT ![key[t]] = srv[key[t]] + 1]
      BY DEF C!InnerUpdate
    <3> QED
      BY ONLY <2>1, <3>1
  <2>5. /\ pc' \in [Threads -> {"idle", "fetch", "store", "update", "delete", "reply", "updated"}]
        /\ ok' \in [Threads -> BOOLEAN]
    <3>1. \E where \in {"delete", "reply"} : pc' = [pc EXCEPT ![t] = where]
      BY DEF C!InnerUpdate, C!Goto
    <3>2. ok' = ok \/ ok' = [ok EXCEPT ![t] = FALSE]
      BY DEF C!InnerUpdate
    <3> QED
      BY <3>1, <3>2
  <2>6. /\ UNCHANGED <<ttl, cache, key, acked, flight, stale, overtaken>>
        /\ \A u \in Threads : pc'[u] # "idle" => key[u] \in Named
    BY DEF C!InnerUpdate, C!Goto
  <2> QED
    BY <2>3, <2>4, <2>5, <2>6
<1>6. CASE \E t \in Threads : C!InnerUpdateFails(t)
  BY <1>6 DEF C!InnerUpdateFails, C!Goto
<1>7. CASE \E t \in Threads : C!Delete(t)
  BY <1>7 DEF C!Delete, C!Goto, C!Entry, C!NoEntry
<1>8. CASE \E t \in Threads : C!Return(t)
  BY <1>8 DEF C!Return, C!Goto
<1>9. CASE \E k \in Named : C!ServerChange(k)
  BY <1>9 DEF C!ServerChange
<1>10. CASE C!Tick
  <2>1. ASSUME NEW k \in Named PROVE C!Aged(cache[k], srv[k]) \in C!Entry
    <3> DEFINE e == cache[k]
               l == IF e.left > 0 THEN e.left - 1 ELSE 0
               s == IF e.left > 0 /\ e.ver < srv[k] THEN e.stale + 1 ELSE e.stale
    <3>1. e \in C!Entry
      OBVIOUS
    <3>2. l \in Nat /\ s \in Nat
      BY <3>1 DEF C!Entry
    <3>3. C!Aged(e, srv[k]) = [e EXCEPT !.left = l, !.stale = s]
      BY DEF C!Aged
    <3> QED
      BY ONLY <3>1, <3>2, <3>3 DEF C!Entry
  <2>2. cache' \in [Named -> C!Entry]
    BY <1>10, <2>1 DEF C!Tick
  <2>3. flight' \in [Threads -> Nat] /\ stale' \in [Threads -> Nat]
    BY <1>10 DEF C!Tick
  <2> QED
    BY <1>10, <2>2, <2>3 DEF C!Tick
<1>11. CASE UNCHANGED C!vars
  BY <1>11 DEF C!vars
<1> HIDE DEF C!TypeOK
<1> QED
  BY <1>1, <1>2, <1>3, <1>4, <1>5, <1>6, <1>7, <1>8, <1>9, <1>10, <1>11
     DEF C!Next, C!Progress, C!ResourceDefinitions, C!ListResources, C!Keys

-----------------------------------------------------------------------------
LEMMA WarmingInitIInv == WarmingInit => WarmingIInv
<1> SUFFICES ASSUME WarmingInit PROVE WarmingIInv
  BY DEF WarmingIInv, WarmingTypeOK
<1>1. Init /\ C!Init
  BY DEF WarmingInit
<1>2. IInv
  BY <1>1, InitIInv
<1>3. C!TypeOK
  BY <1>1 DEF C!Init, C!TypeOK, C!Keys, C!Entry, C!NoEntry
<1>4. WarmingTypeOK
  BY <1>3 DEF WarmingInit, WarmingTypeOK
<1>5. ASSUME NEW w \in Walks, NEW d \in Named PROVE InCall(w, d) /\ StaysWarm(w, d)
  <2>1. pc[<<w, d>>] = "idle"
    BY <1>1, Goroutines DEF C!Init, Threads
  <2>2. ~ cold[w]
    BY DEF WarmingInit
  <2> QED
    BY <2>1, <2>2 DEF InCall, StaysWarm
<1> QED
  BY <1>2, <1>4, <1>5 DEF WarmingIInv

(* A goroutine whose call does not move, and that does not move itself,     *)
(* stays where it is.                                                       *)
LEMMA CallKept ==
    ASSUME NEW w \in Walks, NEW d \in Named, InCall(w, d),
           pc'[<<w, d>>] = pc[<<w, d>>], key'[<<w, d>>] = key[<<w, d>>],
           worker[w][d] = "list" => worker'[w][d] = "list"
    PROVE  InCall(w, d)'
  BY DEF InCall

(* What is warm stays so as long as the list is given to no goroutine anew, *)
(* and its entry stays or is stored.                                        *)
LEMMA WarmKept ==
    ASSUME WarmingTypeOK, NEW w \in Walks, NEW d \in Named, StaysWarm(w, d), ttl' = ttl,
           cold'[w] => cold[w], spoiled[w] => spoiled'[w], age'[w] = age[w],
           Given(w, d)' => Given(w, d) \/ C!Valid(d),
           cache'[d].left = cache[d].left \/ cache'[d].left = ttl
    PROVE  StaysWarm(w, d)'
<1>1. ttl \in Nat /\ age[w] \in Nat /\ cache[d].left \in Nat
  BY DEF WarmingTypeOK, C!TypeOK, C!Keys, C!Entry
<1> QED
  BY <1>1 DEF StaysWarm, Warm, C!Valid

(* The calls of the other goroutines stay where they are.                   *)
LocalCall(t) == \A u \in Threads \ {t} :
    pc'[u] = pc[u] /\ key'[u] = key[u] /\ ok'[u] = ok[u]

LEMMA OneCallMoves ==
    ASSUME C!TypeOK, NEW t \in Threads,
           C!Progress(t) \/ \E d \in Named : C!ListResources(t, d) \/ C!UpdateResource(t, d)
    PROVE  LocalCall(t) /\ ttl' = ttl
<1> USE DEF C!TypeOK, LocalCall, C!Goto, C!call, C!carried, Threads
<1>1. CASE \E d \in Named : C!ListResources(t, d) \/ C!UpdateResource(t, d)
  BY <1>1 DEF C!ListResources, C!Lookup, C!UpdateResource
<1>2. CASE C!InnerFetch(t) \/ C!Store(t)
  BY <1>2 DEF C!InnerFetch, C!Store
<1>3. CASE C!InnerUpdate(t) \/ C!InnerUpdateFails(t)
  BY <1>3 DEF C!InnerUpdate, C!InnerUpdateFails
<1>4. CASE C!Delete(t) \/ C!Return(t)
  BY <1>4 DEF C!Delete, C!Return
<1> QED
  BY <1>1, <1>2, <1>3, <1>4 DEF C!Progress

(* And so do the other goroutines.                                          *)
LEMMA OneGoroutineMoves ==
    ASSUME worker \in [Walks -> [1..Defs -> States]], NEW v \in Walks, NEW e \in 1..Defs,
           NEW state, Set(v, e, state), NEW w \in Walks, NEW d \in 1..Defs
    PROVE  worker'[w][d] = IF w = v /\ d = e THEN state ELSE worker[w][d]
<1>1. worker' = [worker EXCEPT ![v] = [worker[v] EXCEPT ![e] = state]]
  BY DEF Set
<1>2. worker[v] \in [1..Defs -> States]
  OBVIOUS
<1> QED
  BY <1>1, <1>2

(* What the invariant says of a goroutine and of the types it needs.        *)
LEMMA Facts ==
    ASSUME WarmingIInv
    PROVE  /\ IInv /\ WarmingTypeOK /\ C!TypeOK
           /\ worker \in [Walks -> [1..Defs -> States]]
           /\ asked \in [Walks -> SUBSET (1..Defs)]
           /\ pc \in [Threads -> {"idle", "fetch", "store", "update", "delete", "reply", "updated"}]
           /\ key \in [Threads -> Named \cup {None}]
           /\ ok \in [Threads -> BOOLEAN]
           /\ ttl \in Nat
           /\ \A d \in Named : cache[d].left \in Nat
           /\ \A w \in Walks : age[w] \in Nat
           /\ \A w \in Walks, d \in Named : InCall(w, d) /\ StaysWarm(w, d)
<1>1. IInv /\ WarmingTypeOK /\ C!TypeOK /\ TypeOK
      /\ \A w \in Walks, d \in Named : InCall(w, d) /\ StaysWarm(w, d)
  BY DEF WarmingIInv, WarmingTypeOK, IInv
<1>2. ttl \in Nat /\ \A d \in Named : cache[d].left \in Nat
  BY <1>1 DEF C!TypeOK, C!Keys, C!Entry
<1>3. \A w \in Walks : age[w] \in Nat
  BY <1>1 DEF WarmingTypeOK
<1>4. /\ pc \in [Threads -> {"idle", "fetch", "store", "update", "delete", "reply", "updated"}]
      /\ key \in [Threads -> Named \cup {None}]
      /\ ok \in [Threads -> BOOLEAN]
  BY <1>1 DEF C!TypeOK, C!Keys, Threads
<1>5. worker \in [Walks -> [1..Defs -> States]] /\ asked \in [Walks -> SUBSET (1..Defs)]
  BY <1>1 DEF TypeOK, States
<1> QED
  BY <1>1, <1>2, <1>3, <1>4, <1>5

(* A new walk has no call under way, and is cold only if no entry is valid. *)
LEMMA ReaddirKeepsWarm ==
    ASSUME WarmingIInv, NEW v \in Walks, ReaddirStarts(v), NEW w \in Walks, NEW d \in Named
    PROVE  InCall(w, d)' /\ StaysWarm(w, d)'
<1>1. /\ UNCHANGED <<pc, key, ok, cache, ttl>> /\ at[v] \in {"idle", "done"}
      /\ worker' = [worker EXCEPT ![v] = [e \in 1..Defs |-> "none"]]
      /\ asked' = [asked EXCEPT ![v] = {}]
      /\ cold' = [cold EXCEPT ![v] = \A e \in Named : ~ C!Valid(e)]
      /\ spoiled' = [spoiled EXCEPT ![v] = FALSE]
      /\ age' = [age EXCEPT ![v] = 0]
  BY DEF ReaddirStarts, Readdir, cacheVars
<1>2. CASE w = v
  <2>1. worker[w][d] = "none"
    BY <1>1, <1>2, Facts, Goroutines DEF IInv, InOrder
  <2>2. pc[<<w, d>>] = "idle"
    BY <2>1, Facts DEF InCall
  <2>3. InCall(w, d)'
    BY <1>1, <2>2 DEF InCall
  <2>4. asked'[w] = {} /\ (cold'[w] => ~ C!Valid(d))
    BY <1>1, <1>2, Facts DEF WarmingTypeOK
  <2>5. StaysWarm(w, d)'
    BY <1>1, <2>2, <2>4 DEF StaysWarm, Given, C!Valid
  <2> QED
    BY <2>3, <2>5
<1>3. CASE w # v
  <2>1. /\ worker'[w] = worker[w] /\ asked'[w] = asked[w] /\ cold'[w] = cold[w]
        /\ spoiled'[w] = spoiled[w] /\ age'[w] = age[w]
    BY <1>1, <1>3, Facts DEF WarmingTypeOK
  <2>2. InCall(w, d)'
    BY <1>1, <2>1, Facts, CallKept
  <2>3. Given(w, d)' => Given(w, d)
    BY <1>1, <2>1 DEF Given
  <2> QED
    BY <1>1, <2>1, <2>2, <2>3, Facts, WarmKept
<1> QED
  BY <1>2, <1>3

(* The loop of a walk, and its goroutines on their way out, leave the calls *)
(* alone.                                                                   *)
LEMMA WalkKeepsWarm ==
    ASSUME WarmingIInv, NEW v \in Walks, Walking(v) \/ \E e \in Named : Rest(v, e),
           NEW w \in Walks, NEW d \in Named
    PROVE  InCall(w, d)' /\ StaysWarm(w, d)'
<1>1. UNCHANGED <<pc, key, ok, cache, ttl, cold, spoiled, age, asked>>
  BY DEF Walking, Loop, Skip, StartWorker, LoopEnds, WaitEnds, Rest, ReleaseSem, WorkerDone,
         cacheVars, history
<1>2. worker[w][d] = "list" => worker'[w][d] = "list"
  <2>1. ASSUME NEW e \in 1..Defs, NEW state, Set(v, e, state), worker[w][d] = "list"
        PROVE  worker'[w][d] = "list" \/ (w = v /\ d = e /\ worker'[w][d] = state)
    <3>1. worker \in [Walks -> [1..Defs -> States]] /\ d \in 1..Defs
      BY Facts, Goroutines
    <3>2. worker'[w][d] = IF w = v /\ d = e THEN state ELSE worker[w][d]
      BY <2>1, <3>1, OneGoroutineMoves
    <3> QED
      BY <2>1, <3>2
  <2>2. CASE worker' = worker
    BY <2>2
  <2>3. CASE StartWorker(v)
    <3>1. next[v] \in 1..Defs /\ Set(v, next[v], "list")
      BY <2>3 DEF StartWorker
    <3> QED
      BY <2>1, <3>1
  <2>4. CASE \E e \in Named : Rest(v, e)
    <3>1. PICK e \in Named : Rest(v, e)
      BY <2>4
    <3>2. worker[v][e] # "list" /\ \E state : Set(v, e, state)
      BY <3>1 DEF Rest, ReleaseSem, WorkerDone
    <3>3. e \in 1..Defs
      BY Goroutines
    <3> QED
      BY <2>1, <3>2, <3>3
  <2> QED
    BY <2>2, <2>3, <2>4 DEF Walking, Loop, Skip, LoopEnds, WaitEnds
<1>3. InCall(w, d)'
  BY <1>1, <1>2, Facts, CallKept
<1>4. Given(w, d)' => Given(w, d)
  BY <1>1 DEF Given
<1> QED
  BY <1>1, <1>3, <1>4, Facts, WarmKept

(* A goroutine that asks is given a list only if its entry is valid, which  *)
(* is as warm as the others.                                                *)
LEMMA AskingKeepsWarm ==
    ASSUME WarmingIInv, NEW v \in Walks, NEW e \in Named, Asks(v, e),
           NEW w \in Walks, NEW d \in Named
    PROVE  InCall(w, d)' /\ StaysWarm(w, d)'
<1>1. /\ UNCHANGED <<worker, asked, cold, spoiled, age, ok, cache, ttl>>
      /\ pc[<<v, e>>] = "idle" /\ worker[v][e] = "list"
      /\ key' = [key EXCEPT ![<<v, e>>] = e]
      /\ \/ C!Valid(e) /\ pc' = [pc EXCEPT ![<<v, e>>] = "reply"]
         \/ pc' = [pc EXCEPT ![<<v, e>>] = "fetch"]
  BY DEF Asks, C!ListResources, C!Lookup, C!Goto, vars, history
<1>2. <<v, e>> \in Threads /\ <<w, d>> \in Threads
  BY Goroutines
<1>3. CASE w = v /\ d = e
  <2>1. pc'[<<w, d>>] \in {"fetch", "reply"} /\ key'[<<w, d>>] = d
        /\ (pc'[<<w, d>>] = "reply" => C!Valid(d))
    BY <1>1, <1>2, <1>3, Facts
  <2>2. InCall(w, d)'
    BY <1>1, <1>3, <2>1 DEF InCall
  <2>3. Given(w, d)' => Given(w, d) \/ C!Valid(d)
    BY <1>1, <2>1 DEF Given
  <2> QED
    BY <1>1, <2>2, <2>3, Facts, WarmKept
<1>4. CASE ~ (w = v /\ d = e)
  <2>1. pc'[<<w, d>>] = pc[<<w, d>>] /\ key'[<<w, d>>] = key[<<w, d>>]
    BY <1>1, <1>2, <1>4, Facts, Goroutines
  <2>2. InCall(w, d)'
    BY <1>1, <2>1, Facts, CallKept
  <2>3. Given(w, d)' => Given(w, d)
    BY <1>1, <2>1 DEF Given
  <2> QED
    BY <1>1, <2>2, <2>3, Facts, WarmKept
<1> QED
  BY <1>3, <1>4

(* A list that a call has brought is stored with all its life before it.    *)
LEMMA StoringKeepsWarm ==
    ASSUME WarmingIInv, NEW t \in Threads, CacheStep(t), NEW w \in Walks, NEW d \in Named
    PROVE  InCall(w, d)' /\ StaysWarm(w, d)'
<1>1. UNCHANGED <<worker, asked, cold, spoiled, age, key, ttl>> /\ LocalCall(t)
  <2>1. UNCHANGED <<worker, asked, cold, spoiled, age, key, ttl>>
    BY DEF CacheStep, vars, history, C!InnerFetch, C!Store, C!carried
  <2> QED
    BY <2>1, Facts, OneCallMoves DEF CacheStep, C!Progress
<1>2. cache'[d].left = cache[d].left \/ cache'[d].left = ttl
  <2>1. C!TypeOK
    BY Facts
  <2>2. cache' = cache \/
          \E k, r : cache' = [cache EXCEPT ![k] = r] /\ r.left = ttl
    BY DEF CacheStep, C!InnerFetch, C!Store
  <2> QED
    BY <2>1, <2>2 DEF C!TypeOK, C!Keys
<1>3. CASE <<w, d>> # t
  <2>1. pc'[<<w, d>>] = pc[<<w, d>>] /\ ok'[<<w, d>>] = ok[<<w, d>>]
    BY <1>1, <1>3, Goroutines DEF LocalCall
  <2>2. InCall(w, d)'
    BY <1>1, <2>1, Facts, CallKept
  <2>3. Given(w, d)' => Given(w, d)
    BY <1>1, <2>1 DEF Given
  <2> QED
    BY <1>1, <1>2, <2>2, <2>3, Facts, WarmKept
<1>4. CASE <<w, d>> = t /\ C!InnerFetch(t)
  <2>1. /\ pc[t] = "fetch" /\ pc'[t] \in {"store", "reply"}
        /\ pc'[t] = "reply" => ok'[t] = FALSE
    BY <1>4, Facts DEF C!InnerFetch, C!Goto
  <2>2. InCall(w, d)'
    BY <1>1, <1>4, <2>1, Facts DEF InCall
  <2>3. Given(w, d)' => Given(w, d)
    BY <1>1, <1>4, <2>1 DEF Given
  <2> QED
    BY <1>1, <1>2, <2>2, <2>3, Facts, WarmKept
<1>5. CASE <<w, d>> = t /\ C!Store(t)
  <2>1. pc[t] = "store" /\ pc'[t] = "reply" /\ worker[w][d] = "list" /\ key[t] = d
    BY <1>5, Facts DEF C!Store, C!Goto, InCall
  <2>2. InCall(w, d)'
    BY <1>1, <1>5, <2>1 DEF InCall
  <2>3. ttl = 0 \/ cache'[d].left = ttl
    BY <1>5, <2>1, Facts DEF C!Store, C!TypeOK, C!Keys
  <2>4. Warm(w, d)'
    BY <1>1, <1>2, <2>3, Facts DEF Warm
  <2> QED
    BY <2>2, <2>4 DEF StaysWarm
<1> QED
  BY <1>3, <1>4, <1>5 DEF CacheStep

(* A walk that was given a list has asked for it; it is spoiled by a call   *)
(* that failed.                                                             *)
LEMMA AnsweringKeepsWarm ==
    ASSUME WarmingIInv, NEW v \in Walks, NEW e \in Named, Answered(v, e),
           NEW w \in Walks, NEW d \in Named
    PROVE  InCall(w, d)' /\ StaysWarm(w, d)'
<1>1. /\ UNCHANGED <<cold, age, cache, ttl>> /\ LocalCall(<<v, e>>)
      /\ pc[<<v, e>>] = "reply" /\ pc'[<<v, e>>] = "idle"
      /\ spoiled' = [spoiled EXCEPT ![v] = @ \/ ~ ok[<<v, e>>]]
      /\ asked' = [asked EXCEPT ![v] = @ \cup {e}]
      /\ Set(v, e, "release")
  <2>1. <<v, e>> \in Threads /\ InCall(v, e)
    BY Facts, Goroutines
  <2>2. C!Return(<<v, e>>) /\ pc[<<v, e>>] \in {"reply", "updated"}
        /\ pc' = [pc EXCEPT ![<<v, e>>] = "idle"]
    BY DEF Answered, C!Return, C!Goto
  <2>3. pc[<<v, e>>] = "reply" /\ pc'[<<v, e>>] = "idle"
    BY <2>1, <2>2, Facts DEF InCall
  <2>4. LocalCall(<<v, e>>)
    BY <2>1, <2>2, Facts, OneCallMoves DEF C!Progress
  <2> QED
    BY <2>3, <2>4 DEF Answered, C!Return, Listed
<1>2. e \in 1..Defs /\ d \in 1..Defs /\ <<w, d>> \in Threads
  BY Goroutines
<1>3. worker'[w][d] = IF w = v /\ d = e THEN "release" ELSE worker[w][d]
  BY <1>1, <1>2, Facts, OneGoroutineMoves
<1>4. asked'[w] = IF w = v THEN asked[w] \cup {e} ELSE asked[w]
  BY <1>1, Facts
<1>5. spoiled'[w] = IF w = v THEN spoiled[w] \/ ~ ok[<<v, e>>] ELSE spoiled[w]
  BY <1>1, Facts DEF WarmingTypeOK
<1>6. CASE w = v /\ d = e
  <2>1. InCall(w, d)'
    BY <1>1, <1>6 DEF InCall
  <2>2. CASE ok[<<v, e>>]
    <3>1. Given(w, d)
      BY <1>1, <1>6, <2>2 DEF Given
    <3> QED
      BY <1>1, <1>5, <1>6, <2>1, <3>1, Facts, WarmKept
  <2>3. CASE ~ ok[<<v, e>>]
    BY <1>5, <1>6, <2>1, <2>3 DEF StaysWarm
  <2> QED
    BY <2>2, <2>3
<1>7. CASE ~ (w = v /\ d = e)
  <2>1. /\ pc'[<<w, d>>] = pc[<<w, d>>] /\ key'[<<w, d>>] = key[<<w, d>>]
        /\ ok'[<<w, d>>] = ok[<<w, d>>]
    BY <1>1, <1>2, <1>7, Goroutines DEF LocalCall
  <2>2. InCall(w, d)'
    BY <1>3, <1>7, <2>1, Facts, CallKept
  <2>3. Given(w, d)' => Given(w, d)
    BY <1>4, <1>7, <2>1 DEF Given
  <2>4. spoiled[w] => spoiled'[w]
    BY <1>5
  <2> QED
    BY <1>1, <2>2, <2>3, <2>4, Facts, WarmKept
<1> QED
  BY <1>6, <1>7

(* The user's calls are none of a walk's; what they store is as warm as     *)
(* what a walk stores, and a deletion spoils every walk.                    *)
LEMMA UserKeepsWarm ==
    ASSUME WarmingIInv, UserCalls \/ UserProgress, NEW w \in Walks, NEW d \in Named
    PROVE  InCall(w, d)' /\ StaysWarm(w, d)'
<1>1. UNCHANGED <<worker, asked, cold, age>> /\ LocalCall(User) /\ ttl' = ttl
  <2>1. LocalCall(User) /\ ttl' = ttl
    BY Facts, Goroutines, OneCallMoves DEF UserCalls, UserProgress, C!Progress
  <2> QED
    BY <2>1 DEF UserCalls, UserProgress, vars, history
<1>2. pc'[<<w, d>>] = pc[<<w, d>>] /\ key'[<<w, d>>] = key[<<w, d>>]
      /\ ok'[<<w, d>>] = ok[<<w, d>>]
  BY <1>1, Goroutines DEF LocalCall
<1>3. InCall(w, d)'
  BY <1>1, <1>2, Facts, CallKept
<1>4. CASE C!Delete(User) /\ spoiled' = [v \in Walks |-> TRUE]
  BY <1>3, <1>4 DEF StaysWarm
<1>5. CASE cache' = cache /\ spoiled' = spoiled
  <2>1. Given(w, d)' => Given(w, d)
    BY <1>1, <1>2 DEF Given
  <2> QED
    BY <1>1, <1>3, <1>5, <2>1, Facts, WarmKept
<1> QED
  BY <1>4, <1>5
     DEF UserCalls, UserProgress, history, C!ListResources, C!Lookup, C!UpdateResource,
         C!InnerUpdate, C!InnerUpdateFails, C!Return

(* A tick takes from an entry's life what it adds to the age of the walks.  *)
LEMMA TickKeepsWarm ==
    ASSUME WarmingIInv, TimePasses, NEW w \in Walks, NEW d \in Named
    PROVE  InCall(w, d)' /\ StaysWarm(w, d)'
<1>1. UNCHANGED <<worker, asked, cold, spoiled, pc, key, ok, ttl>>
  BY DEF TimePasses, C!Tick, C!call, vars
<1>2. InCall(w, d)'
  BY <1>1, Facts, CallKept
<1>3. Given(w, d)' = Given(w, d)
  BY <1>1 DEF Given
<1>4. cache'[d].left = IF cache[d].left > 0 THEN cache[d].left - 1 ELSE 0
  <2>1. d \in C!Keys /\ cache[d] \in C!Entry
    BY Facts DEF C!TypeOK, C!Keys
  <2>2. cache'[d] = C!Aged(cache[d], srv[d])
    BY <2>1 DEF TimePasses, C!Tick
  <2> QED
    BY <2>1, <2>2 DEF C!Aged, C!Entry
<1>5. age'[w] = IF age[w] < ttl THEN age[w] + 1 ELSE age[w]
  BY DEF TimePasses
<1>6. ttl \in Nat /\ age[w] \in Nat /\ cache[d].left \in Nat
  BY Facts
<1>7. Warm(w, d) => Warm(w, d)'
  BY <1>1, <1>4, <1>5, <1>6 DEF Warm
<1>8. C!Valid(d)' => C!Valid(d)
  BY <1>4, <1>6 DEF C!Valid
<1>9. StaysWarm(w, d)'
  BY <1>1, <1>3, <1>7, <1>8, Facts DEF StaysWarm
<1> QED
  BY <1>2, <1>9

(* The history variables of the walks keep their types.                     *)
LEMMA WarmingTypes ==
    ASSUME WarmingTypeOK, [WarmingNext]_warmingVars
    PROVE  WarmingTypeOK'
<1>1. C!TypeOK /\ ttl \in Nat
  BY DEF WarmingTypeOK, C!TypeOK
<1>2. C!TypeOK'
  BY <1>1, CallStep, CacheTypes
<1> SUFFICES /\ cold' \in [Walks -> BOOLEAN] /\ spoiled' \in [Walks -> BOOLEAN]
             /\ age' \in [Walks -> Nat]
  BY <1>2 DEF WarmingTypeOK
<1>3. CASE \E w \in Walks : ReaddirStarts(w) \/ Walking(w)
  <2>1. CASE \E w \in Walks : Walking(w)
    BY <2>1 DEF WarmingTypeOK, Walking, history
  <2>2. CASE \E w \in Walks : ReaddirStarts(w)
    <3> PICK w \in Walks : ReaddirStarts(w)
      BY <2>2
    <3> DEFINE none == \A d \in Named : ~ C!Valid(d)
    <3>1. none \in BOOLEAN
      OBVIOUS
    <3>2. /\ cold' = [cold EXCEPT ![w] = none]
          /\ spoiled' = [spoiled EXCEPT ![w] = FALSE]
          /\ age' = [age EXCEPT ![w] = 0]
      BY DEF ReaddirStarts
    <3> HIDE DEF none
    <3> QED
      BY <3>1, <3>2 DEF WarmingTypeOK
  <2> QED
    BY <1>3, <2>1, <2>2
<1>4. CASE \E w \in Walks, d \in Named : Answered(w, d)
  <2> PICK w \in Walks, d \in Named : Answered(w, d)
    BY <1>4
  <2>1. (spoiled[w] \/ ~ ok[<<w, d>>]) \in BOOLEAN
    OBVIOUS
  <2> QED
    BY <2>1 DEF WarmingTypeOK, Answered
<1>5. CASE \E w \in Walks, d \in Named : Asks(w, d) \/ CacheStep(<<w, d>>) \/ Rest(w, d)
  BY <1>5 DEF WarmingTypeOK, Asks, CacheStep, Rest, history
<1>6. CASE UserCalls \/ CacheStep(User) \/ UserProgress
  BY <1>6 DEF WarmingTypeOK, UserCalls, CacheStep, UserProgress, history
<1>7. CASE TimePasses
  BY <1>1, <1>7 DEF WarmingTypeOK, TimePasses
<1>8. CASE UNCHANGED warmingVars
  BY <1>8 DEF WarmingTypeOK, warmingVars, history
<1> QED
  BY <1>3, <1>4, <1>5, <1>6, <1>7, <1>8 DEF WarmingNext, Steps

-----------------------------------------------------------------------------
(* A goroutine of a walk is in the call of its own definition only while it *)
(* lists, and what a cold walk has been given lasts for what its age leaves *)
(* of the time to live (nodes.go:204-227, cache.go:76-100).                 *)
THEOREM WarmingInvariance == WarmingSpec => []WarmingIInv
<1>1. ASSUME WarmingIInv, IInv', [WarmingNext]_warmingVars PROVE WarmingIInv'
  <2>1. WarmingTypeOK'
    BY <1>1, WarmingTypes DEF WarmingIInv
  <2>2. ASSUME NEW w \in Walks, NEW d \in Named PROVE InCall(w, d)' /\ StaysWarm(w, d)'
    <3>1. CASE \E v \in Walks : ReaddirStarts(v)
      BY <1>1, <3>1, ReaddirKeepsWarm
    <3>2. CASE \E v \in Walks : Walking(v) \/ \E e \in Named : Rest(v, e)
      BY <1>1, <3>2, WalkKeepsWarm
    <3>3. CASE \E v \in Walks, e \in Named : Asks(v, e)
      BY <1>1, <3>3, AskingKeepsWarm
    <3>4. CASE CacheStep(User) \/ \E v \in Walks, e \in Named : CacheStep(<<v, e>>)
      BY <1>1, <3>4, StoringKeepsWarm, Goroutines
    <3>5. CASE \E v \in Walks, e \in Named : Answered(v, e)
      BY <1>1, <3>5, AnsweringKeepsWarm
    <3>6. CASE UserCalls \/ UserProgress
      BY <1>1, <3>6, UserKeepsWarm
    <3>7. CASE TimePasses
      BY <1>1, <3>7, TickKeepsWarm
    <3>8. CASE UNCHANGED warmingVars
      <4>1. UNCHANGED <<worker, asked, cold, spoiled, age, pc, key, ok, cache, ttl>>
        BY <3>8 DEF warmingVars, vars, cacheVars, history
      <4>2. InCall(w, d) /\ StaysWarm(w, d)
        BY <1>1, Facts
      <4> QED
        BY <4>1, <4>2 DEF InCall, StaysWarm, Given, Warm, C!Valid
    <3> QED
      BY <1>1, <3>1, <3>2, <3>3, <3>4, <3>5, <3>6, <3>7, <3>8 DEF WarmingNext, Steps
  <2> QED
    BY <1>1, <2>1, <2>2 DEF WarmingIInv
<1> QED
  BY <1>1, WarmingInitIInv, WarmingIsPrefetch, PrefetchInvariance, PTL DEF WarmingSpec

(* "A subsequent recursive tree walk finds warm cache entries" (nodes.go:   *)
(* 202-203), for every number of definitions and every semaphore: what a    *)
(* walk found cold it leaves warm for the rest of the time to live, unless  *)
(* a call of it failed or an update took an entry away.                     *)
THEOREM ColdWalkWarmsTheorem == WarmingSpec => []ColdWalkWarms
<1>1. IInv /\ NothingLeftBehind /\ WarmingIInv => ColdWalkWarms
  <2> SUFFICES ASSUME WarmingIInv, NothingLeftBehind, NEW w \in Walks, NEW d \in Named,
                      at[w] = "done", cold[w], ~ spoiled[w], age[w] < ttl
               PROVE  C!Valid(d)
    BY DEF ColdWalkWarms
  <2>1. d \in asked[w]
    BY DEF NothingLeftBehind, Named
  <2>2. Warm(w, d)
    BY <2>1, Facts DEF StaysWarm, Given
  <2> QED
    BY <2>2, Facts DEF Warm, C!Valid
<1> QED
  BY <1>1, WarmingInvariance, WarmingIsPrefetch, PrefetchInvariance, NothingLeftBehindTheorem, PTL

(* A walk throttles its list calls and cleans up after itself whatever the  *)
(* cache makes of them (nodes.go:205-226).                                  *)
THEOREM WarmingWalks == WarmingSpec => [](Accounting /\ Throttled /\ NothingLeftBehind)
  BY WarmingIsPrefetch, AccountingTheorem, ThrottledTheorem, NothingLeftBehindTheorem, PTL

-----------------------------------------------------------------------------
(* The safe part of WalkEnds where the cache takes part.                    *)
CallLeft(w, d) ==
    CASE pc[<<w, d>>] = "idle" -> 4 [] pc[<<w, d>>] = "fetch" -> 3
      [] pc[<<w, d>>] = "store" -> 2 [] OTHER -> 1
CanCall(w, d) ==
    /\ worker[w][d] = "list"
    /\ \/ pc[<<w, d>>] = "idle"
       \/ pc[<<w, d>>] \in {"fetch", "store", "reply"} /\ key[<<w, d>>] = d

(* When a walk has to wait, one of its goroutines is running, and if that   *)
(* one lists, its call of the cache has still to be made or is under way    *)
(* for its own definition: the cache keeps nobody waiting, whatever the     *)
(* user and the other walks do in it (nodes.go:210-226, cache.go:76-118).   *)
THEOREM WarmingNeverStuck ==
    WarmingSpec => [](\A w \in Walks : at[w] \in {"loop", "wait"} =>
      CanLoop(w) \/ \E d \in Named : worker[w][d] \in {"release", "done"} \/ CanCall(w, d))
<1>1. ASSUME WarmingIInv, NEW w \in Walks, CanWork(w)
      PROVE  \E d \in Named : worker[w][d] \in {"release", "done"} \/ CanCall(w, d)
  <2>1. PICK d \in 1..Defs : worker[w][d] \in {"list", "release", "done"}
    BY <1>1 DEF CanWork
  <2>2. d \in Named
    BY <1>1, <2>1, Facts DEF IInv, InOrder, Named
  <2>3. InCall(w, d)
    BY <1>1, <2>2, Facts
  <2> QED
    BY <2>1, <2>2, <2>3 DEF InCall, CanCall
<1>2. /\ WarmingIInv
      /\ \A w \in Walks : at[w] \in {"loop", "wait"} => CanLoop(w) \/ CanWork(w)
      => \A w \in Walks : at[w] \in {"loop", "wait"} =>
           CanLoop(w) \/ \E d \in Named : worker[w][d] \in {"release", "done"} \/ CanCall(w, d)
  BY <1>1
<1> QED
  BY <1>2, WarmingInvariance, WarmingIsPrefetch, WalkNeverStuck, PTL

(* A goroutine's call of the cache has at most four steps, and no step of   *)
(* another goroutine, of the user or of the clock takes it back.            *)
THEOREM WarmingCallsAdvance ==
    WarmingSpec => [][\A w \in Walks, d \in Named :
                        \/ /\ Asks(w, d) \/ CacheStep(<<w, d>>)
                           /\ CallLeft(w, d)' < CallLeft(w, d)
                        \/ Answered(w, d)
                        \/ pc'[<<w, d>>] = pc[<<w, d>>]]_warmingVars
<1> DEFINE Advances(w, d) ==
      \/ /\ Asks(w, d) \/ CacheStep(<<w, d>>)
         /\ CallLeft(w, d)' < CallLeft(w, d)
      \/ Answered(w, d)
      \/ pc'[<<w, d>>] = pc[<<w, d>>]
<1>1. ASSUME WarmingIInv, WarmingNext, NEW w \in Walks, NEW d \in Named
      PROVE  Advances(w, d)
  <2> DEFINE t == <<w, d>>
  <2>1. t \in Threads /\ t # User /\ C!TypeOK
    BY <1>1, Facts, Goroutines
  <2>2. pc \in [Threads -> {"idle", "fetch", "store", "update", "delete", "reply", "updated"}]
    BY <1>1, Facts
  <2>3. ASSUME NEW u \in Threads \ {t},
               C!Progress(u) \/ \E e \in Named : C!ListResources(u, e) \/ C!UpdateResource(u, e)
        PROVE  Advances(w, d)
    BY <2>1, <2>3, OneCallMoves DEF LocalCall
  <2>4. CASE Asks(w, d)
    <3>1. pc[t] = "idle" /\ pc'[t] \in {"reply", "fetch"}
      BY <2>1, <2>2, <2>4 DEF Asks, C!ListResources, C!Lookup, C!Goto
    <3> QED
      BY <2>4, <3>1 DEF CallLeft
  <2>5. CASE CacheStep(t)
    <3>1. \/ pc[t] = "fetch" /\ pc'[t] \in {"store", "reply"}
          \/ pc[t] = "store" /\ pc'[t] = "reply"
      BY <2>1, <2>2, <2>5 DEF CacheStep, C!InnerFetch, C!Store, C!Goto
    <3> QED
      BY <2>5, <3>1 DEF CallLeft
  <2>6. CASE Answered(w, d)
    BY <2>6
  <2>7. ASSUME NEW v \in Walks, NEW e \in Named, <<v, e>> # t, Steps(v, e)
        PROVE  Advances(w, d)
    <3>1. <<v, e>> \in Threads \ {t}
      BY <2>7, Goroutines
    <3>2. C!Progress(<<v, e>>) \/ C!ListResources(<<v, e>>, e)
      BY <2>7 DEF Steps, Asks, CacheStep, Answered, C!Progress
    <3> HIDE DEF Advances
    <3> QED
      BY <2>3, <3>1, <3>2
  <2>8. CASE UserCalls \/ CacheStep(User) \/ UserProgress
    <3>1. User \in Threads \ {t}
      BY <2>1, Goroutines
    <3>2. C!Progress(User) \/ \E e \in Named : C!ListResources(User, e) \/ C!UpdateResource(User, e)
      BY <2>8 DEF UserCalls, CacheStep, UserProgress, C!Progress
    <3> HIDE DEF Advances
    <3> QED
      BY <2>3, <3>1, <3>2
  <2>9. CASE \/ TimePasses \/ \E v \in Walks : ReaddirStarts(v) \/ Walking(v)
             \/ \E v \in Walks, e \in Named : Rest(v, e)
    <3>1. pc' = pc
      BY <2>9 DEF TimePasses, C!Tick, C!call, ReaddirStarts, Walking, Rest, cacheVars
    <3> QED
      BY <3>1
  <2>10. CASE \E v \in Walks, e \in Named : Steps(v, e)
    <3>1. PICK v \in Walks, e \in Named : Steps(v, e)
      BY <2>10
    <3>2. CASE <<v, e>> # t
      BY <2>7, <3>1, <3>2
    <3>3. CASE <<v, e>> = t
      <4>1. v = w /\ e = d
        BY <3>3, Goroutines
      <4> HIDE DEF Advances
      <4> QED
        BY <2>4, <2>5, <2>6, <3>1, <4>1 DEF Steps
    <3> QED
      BY <3>2, <3>3
  <2> HIDE DEF Advances
  <2> QED
    BY <1>1, <2>8, <2>9, <2>10 DEF WarmingNext
<1>2. WarmingIInv /\ [WarmingNext]_warmingVars =>
        [\A w \in Walks, d \in Named : Advances(w, d)]_warmingVars
  BY <1>1
<1> QED
  BY <1>2, WarmingInvariance, PTL DEF WarmingSpec
=============================================================================
