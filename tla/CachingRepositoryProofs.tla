----------------------- MODULE CachingRepositoryProofs -----------------------
(* Theorems about CachingRepository for every number of goroutines, nodes   *)
(* and listings, every --cache-ttl, and calls of any duration.              *)
EXTENDS CachingRepository, TLAPS

USE CacheAssumption

(* The initial states satisfy the inductive invariant.                      *)
LEMMA InitIInv == Init => IInv
  BY DEF Init, IInv, TypeOK, Keys, Entry, NoEntry, Valid, EntryInOrder, CarriedInOrder

(* Every step keeps the variables in their types.                           *)
LEMMA TypeStep ==
    ASSUME TypeOK, [Next]_vars
    PROVE  TypeOK'
<1> USE DEF TypeOK, call, carried
<1>1. CASE \E t \in Threads, k \in Keys : Lookup(t, k)
  <2> PICK t \in Threads, k \in Keys : Lookup(t, k)
    BY <1>1
  <2>1. cache[k].ver \in Nat /\ val \in [Threads -> Nat]
    BY DEF Entry
  <2>2. val' = val \/ val' = [val EXCEPT ![t] = cache[k].ver]
    BY DEF Lookup
  <2>3. val' \in [Threads -> Nat]
    BY ONLY <2>1, <2>2
  <2> QED
    BY <2>3 DEF Lookup, Goto
<1>2. CASE \E t \in Threads, k \in Lists : UpdateResource(t, k)
  BY <1>2 DEF UpdateResource, Goto, Keys
<1>3. CASE \E t \in Threads : InnerFetch(t)
  <2> PICK t \in Threads : InnerFetch(t)
    BY <1>3
  <2>1. srv[key[t]] \in Nat /\ val \in [Threads -> Nat]
    BY DEF InnerFetch
  <2>2. val' = val \/ val' = [val EXCEPT ![t] = srv[key[t]]]
    BY DEF InnerFetch
  <2>3. val' \in [Threads -> Nat]
    BY ONLY <2>1, <2>2
  <2> QED
    BY <2>3 DEF InnerFetch, Goto
<1>4. CASE \E t \in Threads : Store(t)
  BY <1>4 DEF Store, Goto, Entry
<1>5. CASE \E t \in Threads : InnerUpdate(t)
  <2> PICK t \in Threads : InnerUpdate(t)
    BY <1>5
  <2>1. key[t] \in Keys /\ srv[key[t]] + 1 \in 1..MaxVersion /\ val \in [Threads -> Nat]
    BY DEF InnerUpdate
  <2>2. val' = val \/ val' = [val EXCEPT ![t] = srv[key[t]] + 1]
    BY DEF InnerUpdate
  <2>3. val' \in [Threads -> Nat]
    BY ONLY <2>1, <2>2
  <2>4. srv' \in [Keys -> 1..MaxVersion]
    BY <2>1 DEF InnerUpdate
  <2> QED
    BY <2>3, <2>4 DEF InnerUpdate, Goto
<1>6. CASE \E t \in Threads : InnerUpdateFails(t)
  BY <1>6 DEF InnerUpdateFails, Goto
<1>7. CASE \E t \in Threads : Delete(t)
  BY <1>7 DEF Delete, Goto, Entry, NoEntry
<1>8. CASE \E t \in Threads : Return(t)
  BY <1>8 DEF Return, Goto
<1>9. CASE \E k \in Keys : ServerChange(k)
  BY <1>9 DEF ServerChange
<1>10. CASE Tick
  <2>1. ASSUME NEW k \in Keys PROVE Aged(cache[k], srv[k]) \in Entry
    <3> DEFINE e == cache[k]
               l == IF e.left > 0 THEN e.left - 1 ELSE 0
               s == IF e.left > 0 /\ e.ver < srv[k] THEN e.stale + 1 ELSE e.stale
    <3>1. e \in Entry
      OBVIOUS
    <3>2. l \in Nat /\ s \in Nat
      BY <3>1 DEF Entry
    <3>3. Aged(e, srv[k]) = [e EXCEPT !.left = l, !.stale = s]
      BY DEF Aged
    <3> QED
      BY ONLY <3>1, <3>2, <3>3 DEF Entry
  <2>2. cache' \in [Keys -> Entry]
    BY <1>10, <2>1 DEF Tick
  <2>3. flight' \in [Threads -> Nat] /\ stale' \in [Threads -> Nat]
    BY <1>10 DEF Tick
  <2> QED
    BY <1>10, <2>2, <2>3 DEF Tick
<1>11. CASE UNCHANGED vars
  BY <1>11 DEF vars
<1> HIDE DEF TypeOK
<1> QED
  BY <1>1, <1>2, <1>3, <1>4, <1>5, <1>6, <1>7, <1>8, <1>9, <1>10, <1>11
     DEF Next, Progress, ResourceDefinitions, ListResources, Keys

(* Entries and carried listings stay in order.                              *)
LEMMA OrderStep ==
    ASSUME IInv, TypeOK', [Next]_vars
    PROVE  IInv'
<1> USE DEF IInv, TypeOK, Entry, EntryInOrder, CarriedInOrder, Valid, call, carried
<1>1. CASE \E t \in Threads, k \in Keys : Lookup(t, k)
  BY <1>1 DEF Lookup, Goto
<1>2. CASE \E t \in Threads, k \in Lists : UpdateResource(t, k)
  BY <1>2 DEF UpdateResource, Goto
<1>3. CASE \E t \in Threads : InnerFetch(t)
  BY <1>3 DEF InnerFetch, Goto
<1>4. CASE \E t \in Threads : Store(t)
  BY <1>4 DEF Store, Goto
<1>5. CASE \E t \in Threads : InnerUpdate(t)
  BY <1>5 DEF InnerUpdate, Goto
<1>6. CASE \E t \in Threads : InnerUpdateFails(t)
  BY <1>6 DEF InnerUpdateFails, Goto
<1>7. CASE \E t \in Threads : Delete(t)
  <2> PICK t \in Threads : Delete(t)
    BY <1>7
  <2>1. key[t] \in Keys /\ pc[t] = "delete" /\ val[t] \in 1..srv[key[t]]
    BY DEF Delete
  <2>2. UNCHANGED <<ttl, srv, key, val, flight, stale>>
    BY DEF Delete
  <2>3. ASSUME NEW k \in Keys PROVE acked'[k] <= srv'[k] /\ EntryInOrder(k)'
    <3>1. CASE k = key[t]
      BY <2>1, <2>2, <3>1 DEF Delete, NoEntry
    <3>2. CASE k # key[t]
      BY <2>1, <2>2, <3>2 DEF Delete
    <3> QED
      BY <3>1, <3>2
  <2>4. ASSUME NEW u \in Threads PROVE CarriedInOrder(u)'
    <3>1. CASE u = t
      BY <2>1, <2>2, <3>1 DEF Delete, Goto
    <3>2. CASE u # t
      BY <2>1, <2>2, <3>2 DEF Delete, Goto
    <3> QED
      BY <3>1, <3>2
  <2> QED
    BY <2>3, <2>4
<1>8. CASE \E t \in Threads : Return(t)
  BY <1>8 DEF Return, Goto
<1>9. CASE \E k \in Keys : ServerChange(k)
  BY <1>9 DEF ServerChange
<1>10. CASE Tick
  <2>1. UNCHANGED <<ttl, srv, pc, key, val, acked, overtaken>>
    BY <1>10 DEF Tick
  <2>2. ASSUME NEW k \in Keys PROVE EntryInOrder(k)'
    <3>1. cache[k] \in Entry /\ cache'[k] = Aged(cache[k], srv[k]) /\ EntryInOrder(k)
      BY <1>10 DEF Tick
    <3>2. cache'[k].left = IF cache[k].left > 0 THEN cache[k].left - 1 ELSE 0
      BY <3>1 DEF Aged
    <3>3. cache'[k].stale = cache[k].stale
          \/ cache'[k].stale = cache[k].stale + 1
      BY <3>1 DEF Aged
    <3>4. /\ cache'[k].ver = cache[k].ver
          /\ cache'[k].flight = cache[k].flight
          /\ cache'[k].overtaken = cache[k].overtaken
      BY <3>1 DEF Aged
    <3>5. ttl \in Nat
      OBVIOUS
    <3> QED
      BY <2>1, <3>1, <3>2, <3>3, <3>4, <3>5
  <2>3. ASSUME NEW t \in Threads PROVE CarriedInOrder(t)'
    BY <1>10, <2>1 DEF Tick, InFlight, Carries
  <2> QED
    BY <2>1, <2>2, <2>3
<1>11. CASE UNCHANGED vars
  BY <1>11 DEF vars
<1> HIDE DEF IInv
<1> QED
  BY <1>1, <1>2, <1>3, <1>4, <1>5, <1>6, <1>7, <1>8, <1>9, <1>10, <1>11
     DEF Next, Progress, ResourceDefinitions, ListResources, Keys

-----------------------------------------------------------------------------
(* IInv is an invariant of the specification.                               *)
THEOREM CacheInvariance == Spec => []IInv
<1>1. IInv /\ [Next]_vars => IInv'
  BY TypeStep, OrderStep DEF IInv
<1> QED
  BY InitIInv, <1>1, PTL DEF Spec

(* The age of what the cache serves is bounded by --cache-ttl, whatever its *)
(* callers do: expiry is fixed when an entry is stored (cache.go:53, 69,    *)
(* 81, 97).                                                                 *)
THEOREM StalenessTheorem == Spec => []StalenessBounded
<1>1. IInv => StalenessBounded
  <2> SUFFICES ASSUME IInv, NEW k \in Keys, Valid(k)
               PROVE  cache[k].stale < ttl + cache[k].flight
    BY DEF StalenessBounded
  <2>1. cache[k] \in Entry /\ ttl \in Nat /\ EntryInOrder(k)
    BY DEF IInv, TypeOK
  <2> QED
    BY <2>1 DEF EntryInOrder, Valid, Entry
<1> QED
  BY CacheInvariance, <1>1, PTL

(* The only way past the invalidation of UpdateResource is a list call that *)
(* the server had answered and that stores after it (cache.go:90-98, 109-   *)
(* 116).                                                                    *)
THEOREM InvalidationTheorem == Spec => []StaleOnlyIfOvertaken
<1>1. IInv => StaleOnlyIfOvertaken
  <2> SUFFICES ASSUME IInv, NEW k \in Keys, Valid(k), ~ cache[k].overtaken
               PROVE  ~ (cache[k].ver < acked[k])
    BY DEF StaleOnlyIfOvertaken
  <2>1. acked[k] <= cache[k].ver
    BY DEF IInv, EntryInOrder
  <2>2. acked[k] \in Nat /\ cache[k].ver \in Nat
    BY DEF IInv, TypeOK, Entry
  <2> QED
    BY <2>1, <2>2
<1> QED
  BY CacheInvariance, <1>1, PTL

-----------------------------------------------------------------------------
(* Only goroutine t moves.                                                  *)
Local(t) == \A u \in Threads \ {t} :
    /\ pc'[u] = pc[u] /\ key'[u] = key[u] /\ val'[u] = val[u]
    /\ ok'[u] = ok[u] /\ stale'[u] = stale[u]

LEMMA SameKept == ASSUME UNCHANGED cache PROVE Kept' = Kept
  BY DEF Kept, KeptCopies, Valid

LEMMA OneKept ==
    ASSUME NEW k \in Keys, \A j \in Keys \ {k} : cache'[j] = cache[j]
    PROVE  Kept' = [Kept EXCEPT ![k] = KeptCopies(k)']
<1>1. \A j \in Keys \ {k} : KeptCopies(j)' = KeptCopies(j)
  BY DEF KeptCopies, Valid
<1>2. Kept = [j \in Keys |-> KeptCopies(j)] /\ Kept' = [j \in Keys |-> KeptCopies(j)']
  BY DEF Kept
<1> QED
  BY ONLY <1>1, <1>2, k \in Keys

(* What the calls bring for a key stays the same when the goroutine that    *)
(* moves brings nothing before or after its step.                           *)
LEMMA SameComing ==
    ASSUME NEW t \in Threads, Local(t), ~ Carries(t), ~ Carries(t)'
    PROVE  Coming' = Coming
<1>1. ASSUME NEW k \in Keys PROVE ComingCopies(k)' = ComingCopies(k)
  BY DEF ComingCopies, Carries, Local, Copy
<1> QED
  BY <1>1 DEF Coming

LEMMA OneGiven ==
    ASSUME NEW t \in Threads, Local(t)
    PROVE  Given' = [Given EXCEPT ![t] = AnswerTo(t)']
<1>1. ASSUME NEW u \in Threads \ {t} PROVE AnswerTo(u)' = AnswerTo(u)
  BY DEF AnswerTo, Local
<1>2. Given = [u \in Threads |-> AnswerTo(u)] /\ Given' = [u \in Threads |-> AnswerTo(u)']
  BY DEF Given
<1> QED
  BY ONLY <1>1, <1>2, t \in Threads

LEMMA SameGiven ==
    ASSUME NEW t \in Threads, Local(t), AnswerTo(t)' = AnswerTo(t)
    PROVE  Given' = Given
<1>1. ASSUME NEW u \in Threads PROVE AnswerTo(u)' = AnswerTo(u)
  <2>1. CASE u = t
    BY <2>1
  <2>2. CASE u # t
    BY <2>2 DEF AnswerTo, Local
  <2> QED
    BY <2>1, <2>2
<1> QED
  BY <1>1 DEF Given

(* A listing that has just been fetched is one more that is coming.         *)
LEMMA FetchStep ==
    ASSUME IInv, NEW t \in Threads, InnerFetch(t), pc'[t] = "store"
    PROVE  S!Fetch(key[t])
<1> DEFINE k == key[t]
<1>1. /\ k \in Keys /\ pc[t] = "fetch" /\ stale[t] = 0 /\ Local(t)
      /\ ~ Carries(t) /\ Carries(t)' /\ AnswerTo(t)' = AnswerTo(t)
      /\ UNCHANGED <<ttl, srv, cache>>
      /\ key'[t] = k /\ Copy(t)' = S!Fresh(k)
  BY DEF InnerFetch, Goto, IInv, TypeOK, CarriedInOrder, Local, Carries, AnswerTo, Copy,
         carried, S!Fresh
<1>2. ComingCopies(k)' = ComingCopies(k) \cup {S!Fresh(k)}
  BY <1>1 DEF ComingCopies, Carries, Local, Copy
<1>3. ASSUME NEW j \in Keys, j # k PROVE ComingCopies(j)' = ComingCopies(j)
  BY <1>1, <1>3 DEF ComingCopies, Carries, Local, Copy
<1>4. Coming' = [Coming EXCEPT ![k] = @ \cup {S!Fresh(k)}]
  BY <1>1, <1>2, <1>3 DEF Coming
<1> QED
  BY <1>1, <1>4, SameKept, SameGiven DEF S!Fetch

(* A listing that is stored, or with no time to live only handed over, is   *)
(* one of those that were coming.                                           *)
LEMMA StoreStep ==
    ASSUME IInv, NEW t \in Threads, Store(t), NEW k \in Keys, key[t] = k
    PROVE  S!Arrive(t, k)
<1>1. /\ Carries(t) /\ ~ Carries(t)' /\ Local(t) /\ AnswerTo(t)' = S!Listing(val[t])
      /\ val'[t] = val[t] /\ UNCHANGED <<ttl, srv>> /\ ttl \in Nat
  BY DEF Store, Goto, IInv, TypeOK, CarriedInOrder, Local, Carries, AnswerTo, carried,
         S!Listing
<1>2. Copy(t) \in ComingCopies(k) /\ ComingCopies(k) = Coming[k]
  BY <1>1 DEF ComingCopies, Coming
<1>3. Given' = [Given EXCEPT ![t] = S!Listing(Copy(t).ver)]
  BY <1>1, OneGiven DEF Copy
<1>4. Coming' = Coming \/ Coming' = [Coming EXCEPT ![k] = @ \ {Copy(t)}]
  <2>1. ASSUME NEW j \in Keys, j # k PROVE ComingCopies(j)' = ComingCopies(j)
    BY <1>1, <2>1 DEF ComingCopies, Carries, Local, Copy
  <2>2. \/ ComingCopies(k)' = ComingCopies(k)
        \/ ComingCopies(k)' = ComingCopies(k) \ {Copy(t)}
    <3> DEFINE Others == { Copy(u) : u \in { v \in Threads \ {t} : Carries(v) /\ key[v] = k } }
    <3>1. ComingCopies(k) = Others \cup {Copy(t)}
      BY <1>1 DEF ComingCopies
    <3>2. ComingCopies(k)' = Others
      BY <1>1 DEF ComingCopies, Carries, Local, Copy
    <3> QED
      BY ONLY <3>1, <3>2
  <2> QED
    BY <1>2, <2>1, <2>2 DEF Coming
<1>5. Kept' = Kept \/ Kept' = [Kept EXCEPT ![k] = {Copy(t)}]
  <2>1. CASE ttl = 0
    BY <2>1, SameKept DEF Store
  <2>2. CASE ttl # 0
    <3>1. KeptCopies(k)' = {Copy(t)} /\ \A j \in Keys \ {k} : cache'[j] = cache[j]
      BY <1>1, <2>2 DEF Store, KeptCopies, Valid, Copy, IInv, TypeOK, Entry
    <3> QED
      BY <1>1, <3>1, OneKept
  <2> QED
    BY <2>1, <2>2
<1> QED
  BY <1>1, <1>2, <1>3, <1>4, <1>5 DEF S!Arrive

(* A tick ages what is kept and what is coming alike, and neither beyond    *)
(* the time to live and the longest trip together.                          *)
LEMMA TickStep ==
    ASSUME IInv, IInv', Tick
    PROVE  S!Tick
<1>1. UNCHANGED <<ttl, srv, pc, key, val, ok>>
  BY DEF Tick, call
<1>2. ttl \in Nat /\ MaxFlight \in Nat
  BY DEF IInv, TypeOK
<1>3. ASSUME NEW k \in Keys
      PROVE  /\ KeptCopies(k)' \in {{}, S!Aged(k, KeptCopies(k))}
             /\ \A copy \in KeptCopies(k)' : copy.stale <= ttl + MaxFlight
  <2>1. cache[k] \in Entry /\ cache'[k] = Aged(cache[k], srv[k]) /\ cache'[k] \in Entry
    BY DEF IInv, TypeOK, Tick
  <2>2. CASE ~ Valid(k)'
    BY <2>2 DEF KeptCopies
  <2>3. CASE Valid(k)'
    <3>1. Valid(k) /\ cache'[k].ver = cache[k].ver
          /\ cache'[k].stale =
               IF cache[k].ver < srv[k] THEN cache[k].stale + 1 ELSE cache[k].stale
      BY <2>1, <2>3 DEF Valid, Aged, Entry
    <3>2. S!Aged(k, KeptCopies(k)) =
            { S!Older(k, [ver |-> cache[k].ver, stale |-> cache[k].stale]) }
      BY <3>1 DEF KeptCopies, S!Aged
    <3>3. S!Older(k, [ver |-> cache[k].ver, stale |-> cache[k].stale])
            = [ver |-> cache'[k].ver, stale |-> cache'[k].stale]
      BY <3>1 DEF S!Older
    <3>4. cache'[k].stale <= ttl + MaxFlight
      <4>1. /\ cache'[k].left <= ttl /\ cache'[k].flight <= MaxFlight
            /\ cache'[k].stale <= (ttl - cache'[k].left) + cache'[k].flight
        BY <1>1, <2>3 DEF IInv, EntryInOrder
      <4> QED
        BY <1>2, <2>1, <4>1 DEF Entry
    <3> QED
      BY <2>3, <3>2, <3>3, <3>4 DEF KeptCopies
  <2> QED
    BY <2>2, <2>3
<1>4. ASSUME NEW k \in Keys
      PROVE  /\ ComingCopies(k)' = S!Aged(k, ComingCopies(k))
             /\ \A copy \in ComingCopies(k)' : copy.stale <= ttl + MaxFlight
  <2>1. ASSUME NEW t \in Threads, Carries(t), key[t] = k
        PROVE  Copy(t)' = S!Older(k, Copy(t)) /\ stale'[t] <= ttl + MaxFlight
    <3>1. stale'[t] = IF val[t] < srv[k] THEN stale[t] + 1 ELSE stale[t]
      BY <2>1 DEF Tick
    <3>2. Copy(t)' = S!Older(k, Copy(t))
      BY <1>1, <3>1 DEF Copy, S!Older
    <3>3. stale'[t] <= flight'[t] /\ flight'[t] <= MaxFlight
          /\ stale'[t] \in Nat /\ flight'[t] \in Nat
      BY DEF IInv, TypeOK, CarriedInOrder
    <3> QED
      BY <1>2, <3>2, <3>3
  <2>2. ComingCopies(k)' =
          { Copy(t)' : t \in { u \in Threads : Carries(u) /\ key[u] = k } }
    BY <1>1 DEF ComingCopies, Carries
  <2>3. S!Aged(k, ComingCopies(k)) =
          { S!Older(k, Copy(t)) : t \in { u \in Threads : Carries(u) /\ key[u] = k } }
    BY DEF ComingCopies, S!Aged
  <2>4. ComingCopies(k)' = S!Aged(k, ComingCopies(k))
    BY ONLY <2>1, <2>2, <2>3
  <2>5. \A copy \in ComingCopies(k)' : copy.stale <= ttl + MaxFlight
    <3>1. ASSUME NEW copy \in ComingCopies(k)' PROVE copy.stale <= ttl + MaxFlight
      <4>1. PICK t \in Threads : Carries(t) /\ key[t] = k /\ copy = Copy(t)'
        BY <2>2, <3>1
      <4>2. stale'[t] <= ttl + MaxFlight
        BY <2>1, <4>1
      <4> QED
        BY ONLY <4>1, <4>2 DEF Copy
    <3> QED
      BY <3>1
  <2> QED
    BY <2>4, <2>5
<1>5. Given' = Given
  BY <1>1 DEF Given, AnswerTo
<1>6. \A k \in Keys : Kept[k] = KeptCopies(k) /\ Coming[k] = ComingCopies(k)
  BY DEF Kept, Coming
<1>7. \A k \in Keys : Kept'[k] = KeptCopies(k)' /\ Coming'[k] = ComingCopies(k)'
  BY DEF Kept, Coming
<1>8. Coming' = [k \in Keys |-> S!Aged(k, Coming[k])]
  BY <1>4, <1>6 DEF Coming
<1>9. Kept' = [k \in Keys |-> Kept'[k]]
  BY <1>7 DEF Kept
<1> QED
  BY <1>1, <1>3, <1>4, <1>5, <1>6, <1>7, <1>8, <1>9 DEF S!Tick

(* Every step of the cache is one of the store, or none.                    *)
LEMMA StoreRefinementStep ==
    ASSUME IInv, IInv', [Next]_vars
    PROVE  [S!Next]_S!vars
<1> USE DEF call, carried
<1>1. CASE \E t \in Threads, k \in Keys : Lookup(t, k)
  <2> PICK t \in Threads, k \in Keys : Lookup(t, k)
    BY <1>1
  <2>1. /\ UNCHANGED <<ttl, srv, cache>> /\ Local(t) /\ ok[t] /\ ok' = ok
        /\ ~ Carries(t) /\ ~ Carries(t)' /\ AnswerTo(t) = S!Nothing
    BY DEF Lookup, Goto, Local, Carries, AnswerTo, S!Nothing, IInv, TypeOK, CarriedInOrder
  <2>2. Kept' = Kept /\ Coming' = Coming
    BY <2>1, SameKept, SameComing
  <2>3. CASE Valid(k)
    <3>1. AnswerTo(t)' = S!Listing(cache[k].ver)
      BY <2>1, <2>3 DEF Lookup, Goto, AnswerTo, S!Listing, IInv, TypeOK
    <3>2. Given' = [Given EXCEPT ![t] = S!Listing(cache[k].ver)]
      BY <2>1, <3>1, OneGiven
    <3>3. [ver |-> cache[k].ver, stale |-> cache[k].stale] \in Kept[k]
      BY <2>3 DEF Kept, KeptCopies
    <3>4. S!Hit(t, k)
      BY <2>1, <2>2, <3>2, <3>3 DEF S!Hit
    <3> QED
      BY <3>4 DEF S!Next
  <2>4. CASE ~ Valid(k)
    <3>1. AnswerTo(t)' = S!Nothing
      BY <2>4 DEF Lookup, Goto, AnswerTo, S!Nothing, IInv, TypeOK
    <3> QED
      BY <2>1, <2>2, <3>1, SameGiven DEF S!vars
  <2> QED
    BY <2>3, <2>4
<1>2. CASE \E t \in Threads : (\E k \in Lists : UpdateResource(t, k)) \/ InnerUpdateFails(t)
  <2> PICK t \in Threads : (\E k \in Lists : UpdateResource(t, k)) \/ InnerUpdateFails(t)
    BY <1>2
  <2>1. /\ UNCHANGED <<ttl, srv, cache>> /\ Local(t)
        /\ ~ Carries(t) /\ ~ Carries(t)' /\ AnswerTo(t)' = AnswerTo(t)
    BY DEF UpdateResource, InnerUpdateFails, Goto, Local, Carries, AnswerTo, IInv, TypeOK
  <2> QED
    BY <2>1, SameKept, SameComing, SameGiven DEF S!vars
<1>3. CASE \E t \in Threads : InnerFetch(t)
  <2> PICK t \in Threads : InnerFetch(t)
    BY <1>3
  <2>1. CASE pc'[t] = "store"
    <3>1. S!Fetch(key[t]) /\ key[t] \in Keys
      BY <2>1, FetchStep DEF InnerFetch, IInv, TypeOK
    <3> QED
      BY <3>1 DEF S!Next
  <2>2. CASE pc'[t] # "store"
    <3>1. /\ UNCHANGED <<ttl, srv, cache>> /\ Local(t)
          /\ ~ Carries(t) /\ ~ Carries(t)' /\ AnswerTo(t)' = AnswerTo(t)
      BY <2>2 DEF InnerFetch, Goto, Local, Carries, AnswerTo, IInv, TypeOK
    <3> QED
      BY <3>1, SameKept, SameComing, SameGiven DEF S!vars
  <2> QED
    BY <2>1, <2>2
<1>4. CASE \E t \in Threads : Store(t)
  <2> PICK t \in Threads : Store(t)
    BY <1>4
  <2>1. PICK k \in Keys : key[t] = k
    BY DEF Store, IInv, TypeOK
  <2>2. S!Arrive(t, k)
    BY <2>1, StoreStep
  <2> QED
    BY <2>2 DEF S!Next
<1>5. CASE \E t \in Threads : InnerUpdate(t)
  <2> PICK t \in Threads : InnerUpdate(t)
    BY <1>5
  <2>1. /\ key[t] \in Keys /\ UNCHANGED <<ttl, cache>> /\ Local(t)
        /\ srv' = [srv EXCEPT ![key[t]] = @ + 1]
        /\ ~ Carries(t) /\ ~ Carries(t)' /\ AnswerTo(t)' = AnswerTo(t)
    BY DEF InnerUpdate, Goto, Local, Carries, AnswerTo, IInv, TypeOK
  <2>2. S!Change(key[t])
    BY <2>1, SameKept, SameComing, SameGiven DEF S!Change
  <2> QED
    BY <2>1, <2>2 DEF S!Next
<1>6. CASE \E t \in Threads : Delete(t)
  <2> PICK t \in Threads : Delete(t)
    BY <1>6
  <2> PICK k \in Keys : key[t] = k
    BY DEF Delete, IInv, TypeOK
  <2>1. /\ UNCHANGED <<ttl, srv, val>> /\ Local(t)
        /\ \A j \in Keys \ {k} : cache'[j] = cache[j]
        /\ ~ Carries(t) /\ ~ Carries(t)' /\ val[t] \in 1..srv[k]
        /\ AnswerTo(t)' = S!Updated(val[t])
    BY DEF Delete, Goto, Local, Carries, AnswerTo, S!Updated, IInv, TypeOK, CarriedInOrder
  <2>2. KeptCopies(k)' = {}
    BY <2>1 DEF Delete, KeptCopies, Valid, NoEntry, IInv, TypeOK
  <2>3. Kept' = [Kept EXCEPT ![k] = {}]
    BY <2>1, <2>2, OneKept
  <2>4. Given' = [Given EXCEPT ![t] = S!Updated(val[t])]
    BY <2>1, OneGiven
  <2>5. S!Acknowledge(t, k)
    BY <2>1, <2>3, <2>4, SameComing DEF S!Acknowledge
  <2> QED
    BY <2>1, <2>5 DEF S!Next
<1>7. CASE \E t \in Threads : Return(t)
  <2> PICK t \in Threads : Return(t)
    BY <1>7
  <2>1. /\ UNCHANGED <<ttl, srv, cache>> /\ Local(t)
        /\ ~ Carries(t) /\ ~ Carries(t)' /\ AnswerTo(t)' = S!Nothing
    BY DEF Return, Goto, Local, Carries, AnswerTo, S!Nothing, IInv, TypeOK
  <2>2. Given' = [Given EXCEPT ![t] = S!Nothing]
    BY <2>1, OneGiven
  <2>3. S!Return(t)
    BY <2>1, <2>2, SameKept, SameComing DEF S!Return
  <2> QED
    BY <2>3 DEF S!Next
<1>8. CASE \E k \in Keys : ServerChange(k)
  <2> PICK k \in Keys : ServerChange(k)
    BY <1>8
  <2>1. UNCHANGED <<ttl, cache, pc, key, val, ok, stale>> /\ srv' = [srv EXCEPT ![k] = @ + 1]
    BY DEF ServerChange
  <2>2. Kept' = Kept /\ Coming' = Coming /\ Given' = Given
    BY <2>1, SameKept DEF Coming, ComingCopies, Copy, Carries, Given, AnswerTo
  <2>3. S!Change(k)
    BY <2>1, <2>2 DEF S!Change
  <2> QED
    BY <2>3 DEF S!Next
<1>9. CASE Tick
  BY <1>9, TickStep DEF S!Next
<1>10. CASE UNCHANGED vars
  <2>1. UNCHANGED <<ttl, srv, cache, pc, key, val, ok, stale>>
    BY <1>10 DEF vars
  <2>2. Kept' = Kept /\ Coming' = Coming /\ Given' = Given
    BY <2>1, SameKept DEF Coming, ComingCopies, Copy, Carries, Given, AnswerTo
  <2> QED
    BY <2>1, <2>2 DEF S!vars
<1> QED
  BY <1>1, <1>2, <1>3, <1>4, <1>5, <1>6, <1>7, <1>8, <1>9, <1>10
     DEF Next, Progress, ResourceDefinitions, ListResources, Keys

(* However its callers interleave, the cache hands out nothing that has     *)
(* been out of date for longer than --cache-ttl and the longest call, and   *)
(* keeps nothing of a list whose update it has acknowledged                 *)
(* (cache.go:45-118).                                                       *)
THEOREM StoreRefinement == Spec => ImplementsStaleStore
<1>1. Init => S!Init
  BY DEF Init, S!Init, Kept, KeptCopies, Coming, ComingCopies, Given, AnswerTo, Carries,
         Valid, NoEntry, S!Nothing
<1>2. IInv /\ IInv' /\ [Next]_vars => [S!Next]_S!vars
  BY StoreRefinementStep
<1> QED
  BY CacheInvariance, <1>1, <1>2, PTL DEF Spec, S!Spec, ImplementsStaleStore

-----------------------------------------------------------------------------
(* The safe part of OutdatedIsDropped: only a call that has been to the     *)
(* inner repository gives an entry life, ttl ticks of it; every tick takes  *)
(* one, and no hit, update or failed call gives any back (cache.go:76-118). *)
THEOREM LifeRunsDown ==
    Spec => [][\A k \in Keys :
                  \/ cache'[k].left = cache[k].left /\ cache'[k].ver = cache[k].ver
                  \/ \E t \in Threads : Store(t) /\ key[t] = k /\ cache'[k].left = ttl
                  \/ \E t \in Threads : Delete(t) /\ key[t] = k /\ cache'[k].left = 0
                  \/ Tick /\ cache'[k].left < cache[k].left]_vars
<1> DEFINE Ages(k) ==
      \/ cache'[k].left = cache[k].left /\ cache'[k].ver = cache[k].ver
      \/ \E t \in Threads : Store(t) /\ key[t] = k /\ cache'[k].left = ttl
      \/ \E t \in Threads : Delete(t) /\ key[t] = k /\ cache'[k].left = 0
      \/ Tick /\ cache'[k].left < cache[k].left
<1>1. ASSUME TypeOK, Next, NEW k \in Keys PROVE Ages(k)
  <2>1. cache \in [Keys -> Entry] /\ cache[k] \in Entry /\ cache[k].left \in Nat
    BY <1>1 DEF TypeOK, Entry
  <2>2. CASE cache' = cache
    BY <2>2
  <2>3. ASSUME NEW t \in Threads, Store(t) PROVE Ages(k)
    <3>1. key[t] \in Keys
      BY <1>1, <2>3 DEF TypeOK, Store
    <3>2. CASE cache' = cache \/ k # key[t]
      BY <2>1, <2>3, <3>2 DEF Store
    <3>3. CASE cache' # cache /\ k = key[t]
      <4>1. cache'[k].left = ttl
        BY <2>1, <2>3, <3>3 DEF Store
      <4> QED
        BY <2>3, <3>3, <4>1
    <3> QED
      BY <3>2, <3>3
  <2>4. ASSUME NEW t \in Threads, Delete(t) PROVE Ages(k)
    <3>1. CASE k # key[t]
      BY <2>1, <2>4, <3>1 DEF Delete
    <3>2. CASE k = key[t]
      <4>1. cache'[k].left = 0
        BY <2>1, <2>4, <3>2 DEF Delete, NoEntry
      <4> QED
        BY <2>4, <3>2, <4>1
    <3> QED
      BY <3>1, <3>2
  <2>5. CASE Tick
    <3>1. cache'[k] = Aged(cache[k], srv[k])
      BY <2>5 DEF Tick
    <3>2. /\ cache'[k].ver = cache[k].ver
          /\ cache'[k].left = IF cache[k].left > 0 THEN cache[k].left - 1 ELSE 0
      BY <2>1, <3>1 DEF Aged, Entry
    <3>3. cache'[k].left = cache[k].left \/ cache'[k].left < cache[k].left
      BY <2>1, <3>2
    <3> QED
      BY <2>5, <3>2, <3>3
  <2> HIDE DEF Ages
  <2>6. ASSUME NEW t \in Threads, Progress(t) PROVE Ages(k)
    BY <2>2, <2>3, <2>4, <2>6
       DEF Progress, InnerFetch, InnerUpdate, InnerUpdateFails, Return
  <2>7. CASE \/ \E t \in Threads, n \in Nodes : ResourceDefinitions(t, n)
             \/ \E t \in Threads, l \in Lists : ListResources(t, l) \/ UpdateResource(t, l)
             \/ \E j \in Keys : ServerChange(j)
    BY <2>2, <2>7 DEF ResourceDefinitions, ListResources, Lookup, UpdateResource, ServerChange
  <2> QED
    BY <1>1, <2>5, <2>6, <2>7 DEF Next
<1>2. TypeOK /\ [Next]_vars => [\A k \in Keys : Ages(k)]_vars
  BY <1>1
<1>3. IInv => TypeOK
  BY DEF IInv
<1> QED
  BY <1>2, <1>3, CacheInvariance, PTL DEF Spec
=============================================================================
