---------------------------- MODULE PrefetchProofs ----------------------------
(* Theorems about Prefetch for every number of walks and of definitions,    *)
(* and every prefetchConcurrency.                                           *)
EXTENDS Prefetch, FiniteSetTheorems, TLAPS

USE PrefetchAssumption

InSem == {"list", "release"}
InWg == {"list", "release", "done"}
States == {"none", "list", "release", "done"}

(* A walk's goroutines in some of the states are finitely many.             *)
LEMMA WorkersFinite ==
    ASSUME NEW w \in Walks, NEW S
    PROVE  /\ Workers(w, S) \subseteq 1..Defs
           /\ IsFiniteSet(Workers(w, S))
           /\ Cardinality(Workers(w, S)) \in 0..Defs
<1>1. Workers(w, S) \subseteq 1..Defs
  BY DEF Workers
<1>2. IsFiniteSet(1..Defs) /\ Cardinality(1..Defs) = Defs
  BY FS_Interval
<1>3. IsFiniteSet(Workers(w, S)) /\ Cardinality(Workers(w, S)) <= Defs
  BY <1>1, <1>2, FS_Subset
<1>4. Cardinality(Workers(w, S)) \in Nat
  BY <1>3, FS_CardinalityType
<1> QED
  BY <1>1, <1>3, <1>4

(* One goroutine of one walk changes its state.                             *)
LEMMA Moves ==
    ASSUME TypeOK, NEW w \in Walks, NEW d \in 1..Defs, NEW state, Set(w, d, state), NEW S
    PROVE  /\ Workers(w, S)' =
                IF state \in S THEN Workers(w, S) \cup {d} ELSE Workers(w, S) \ {d}
           /\ d \in Workers(w, S) <=> worker[w][d] \in S
           /\ Cardinality(Workers(w, S))' =
                Cardinality(Workers(w, S))
                  + (IF state \in S /\ worker[w][d] \notin S THEN 1
                     ELSE IF state \notin S /\ worker[w][d] \in S THEN 0 - 1 ELSE 0)
<1>1. worker \in [Walks -> [1..Defs -> States]]
  BY DEF TypeOK, States
<1>2. worker'[w] = [worker[w] EXCEPT ![d] = state] /\ worker[w] \in [1..Defs -> States]
  BY <1>1 DEF Set
<1>3. worker'[w][d] = state /\ \A e \in (1..Defs) \ {d} : worker'[w][e] = worker[w][e]
  BY <1>2
<1>4. Workers(w, S)' = IF state \in S THEN Workers(w, S) \cup {d} ELSE Workers(w, S) \ {d}
  BY <1>3 DEF Workers
<1>5. d \in Workers(w, S) <=> worker[w][d] \in S
  BY DEF Workers
<1>6. IsFiniteSet(Workers(w, S)) /\ Cardinality(Workers(w, S)) \in Nat
  BY WorkersFinite
<1> DEFINE W == Workers(w, S)
<1>8. /\ Cardinality(W \cup {d}) = IF d \in W THEN Cardinality(W) ELSE Cardinality(W) + 1
      /\ Cardinality(W \ {d}) = IF d \in W THEN Cardinality(W) - 1 ELSE Cardinality(W)
  BY <1>6, FS_AddElement, FS_RemoveElement
<1>9. Cardinality(W)' = IF state \in S THEN Cardinality(W \cup {d}) ELSE Cardinality(W \ {d})
  BY <1>4
<1> HIDE DEF W
<1> QED
  BY <1>4, <1>5, <1>6, <1>8, <1>9 DEF W

(* The goroutines of a walk are its own.                                    *)
LEMMA OtherWalks ==
    ASSUME NEW w \in Walks, NEW S, worker'[w] = worker[w]
    PROVE  /\ Workers(w, S)' = Workers(w, S)
           /\ Cardinality(Workers(w, S))' = Cardinality(Workers(w, S))
  BY DEF Workers

-----------------------------------------------------------------------------
LEMMA InitIInv == Init => IInv
<1> SUFFICES ASSUME Init PROVE IInv
  OBVIOUS
<1>1. ASSUME NEW w \in Walks PROVE Workers(w, InSem) = {} /\ Workers(w, InWg) = {}
  BY DEF Init, Workers, InSem, InWg
<1>2. Accounting
  BY <1>1, FS_EmptySet DEF Accounting, Init, InSem, InWg
<1>3. TypeOK
  BY DEF Init, TypeOK
<1>4. \A w \in Walks : InOrder(w)
  BY DEF Init, InOrder
<1> QED
  BY <1>2, <1>3, <1>4 DEF IInv

(* What the channel and the counter hold, goroutine by goroutine.           *)
LEMMA Counts ==
    ASSUME IInv, NEW w \in Walks, NEW d \in 1..Defs
    PROVE  /\ sem[w] = Cardinality(Workers(w, InSem))
           /\ wg[w] = Cardinality(Workers(w, InWg))
           /\ worker[w][d] \in InSem => sem[w] > 0
           /\ worker[w][d] \in InWg => wg[w] > 0
<1>1. sem[w] = Cardinality(Workers(w, InSem)) /\ wg[w] = Cardinality(Workers(w, InWg))
  BY DEF IInv, Accounting, InSem, InWg
<1>2. ASSUME NEW S, worker[w][d] \in S PROVE Cardinality(Workers(w, S)) > 0
  <2>1. d \in Workers(w, S)
    BY <1>2 DEF Workers
  <2>2. IsFiniteSet(Workers(w, S)) /\ Cardinality(Workers(w, S)) \in Nat
    BY WorkersFinite
  <2>3. Cardinality(Workers(w, S)) # 0
    BY <2>1, <2>2, FS_EmptySet
  <2> QED
    BY <2>2, <2>3
<1> QED
  BY <1>1, <1>2

(* A step that changes the state of one goroutine keeps the accounts when   *)
(* the channel and the counter change with it.                              *)
LEMMA AccountsKept ==
    ASSUME IInv, NEW w \in Walks, NEW d \in 1..Defs, NEW state \in States, Set(w, d, state),
           \/ /\ worker[w][d] = "none" /\ state = "list"
              /\ sem' = [sem EXCEPT ![w] = @ + 1] /\ wg' = [wg EXCEPT ![w] = @ + 1]
           \/ /\ worker[w][d] = "list" /\ state = "release"
              /\ sem' = sem /\ wg' = wg
           \/ /\ worker[w][d] = "release" /\ state = "done"
              /\ sem' = [sem EXCEPT ![w] = @ - 1] /\ wg' = wg
           \/ /\ worker[w][d] = "done" /\ state = "none"
              /\ sem' = sem /\ wg' = [wg EXCEPT ![w] = @ - 1]
    PROVE  Accounting' /\ wg' \in [Walks -> 0..Defs] /\ worker' \in [Walks -> [1..Defs -> States]]
<1>1. TypeOK /\ sem \in [Walks -> 0..prefetchConcurrency] /\ wg \in [Walks -> 0..Defs]
      /\ worker \in [Walks -> [1..Defs -> States]]
  BY DEF IInv, TypeOK, States
<1>2. /\ sem'[w] - sem[w] = Cardinality(Workers(w, InSem))' - Cardinality(Workers(w, InSem))
      /\ wg'[w] - wg[w] = Cardinality(Workers(w, InWg))' - Cardinality(Workers(w, InWg))
      /\ sem'[w] \in Int /\ wg'[w] \in Int
      /\ Cardinality(Workers(w, InSem))' \in Int /\ Cardinality(Workers(w, InWg))' \in Int
      /\ \A v \in Walks \ {w} : sem'[v] = sem[v] /\ wg'[v] = wg[v]
  <2> DEFINE Delta(S) == IF state \in S /\ worker[w][d] \notin S THEN 1
                         ELSE IF state \notin S /\ worker[w][d] \in S THEN 0 - 1 ELSE 0
  <2>1. /\ Cardinality(Workers(w, InSem))' = Cardinality(Workers(w, InSem)) + Delta(InSem)
        /\ Cardinality(Workers(w, InWg))' = Cardinality(Workers(w, InWg)) + Delta(InWg)
        /\ Delta(InSem) \in Int /\ Delta(InWg) \in Int
    BY <1>1, Moves
  <2>2. sem'[w] = sem[w] + Delta(InSem) /\ wg'[w] = wg[w] + Delta(InWg)
    BY <1>1 DEF InSem, InWg
  <2>3. Cardinality(Workers(w, InSem)) \in Int /\ Cardinality(Workers(w, InWg)) \in Int
    BY WorkersFinite
  <2>4. \A v \in Walks \ {w} : sem'[v] = sem[v] /\ wg'[v] = wg[v]
    BY <1>1
  <2>5. sem[w] \in Int /\ wg[w] \in Int
    BY <1>1
  <2> HIDE DEF Delta
  <2> QED
    BY <2>1, <2>2, <2>3, <2>4, <2>5
<1>3. ASSUME NEW v \in Walks
      PROVE  /\ sem'[v] = Cardinality(Workers(v, InSem))'
             /\ wg'[v] = Cardinality(Workers(v, InWg))'
  <2>1. sem[v] = Cardinality(Workers(v, InSem)) /\ wg[v] = Cardinality(Workers(v, InWg))
    BY DEF IInv, Accounting, InSem, InWg
  <2>2. CASE v = w
    <3>1. sem[v] \in Int /\ wg[v] \in Int
      BY <1>1
    <3> QED
      BY <1>2, <2>1, <2>2, <3>1
  <2>3. CASE v # w
    <3>1. worker'[v] = worker[v] /\ sem'[v] = sem[v] /\ wg'[v] = wg[v]
      BY <1>1, <1>2, <2>3 DEF Set
    <3> QED
      BY <2>1, <3>1, OtherWalks
  <2> QED
    BY <2>2, <2>3
<1>4. ASSUME NEW v \in Walks PROVE Cardinality(Workers(v, InWg))' \in 0..Defs
  <2>1. Workers(v, InWg)' \subseteq 1..Defs
    BY DEF Workers
  <2>2. IsFiniteSet(1..Defs) /\ Cardinality(1..Defs) = Defs
    BY FS_Interval
  <2>3. /\ IsFiniteSet(Workers(v, InWg)')
        /\ Cardinality(Workers(v, InWg)') <= Defs
        /\ Cardinality(Workers(v, InWg)') \in Nat
    BY <2>1, <2>2, FS_Subset, FS_CardinalityType
  <2> QED
    BY <2>3
<1>5. wg' \in [Walks -> 0..Defs]
  <2>1. DOMAIN wg' = Walks /\ wg' = [v \in Walks |-> wg'[v]]
    BY <1>1
  <2>2. \A v \in Walks : wg'[v] \in 0..Defs
    BY <1>3, <1>4
  <2> QED
    BY ONLY <2>1, <2>2
<1>6. worker' \in [Walks -> [1..Defs -> States]]
  BY <1>1 DEF Set
<1> QED
  BY <1>3, <1>5, <1>6 DEF Accounting, InSem, InWg
-----------------------------------------------------------------------------
(* A step of one walk leaves the order of the others alone.                 *)
LEMMA OthersInOrder ==
    ASSUME NEW v \in Walks, InOrder(v), at'[v] = at[v], next'[v] = next[v],
           asked'[v] = asked[v], worker'[v] = worker[v]
    PROVE  InOrder(v)'
  BY DEF InOrder

(* The loop and the wait of a walk, and its Readdir, start no goroutine but *)
(* in StartWorker.                                                          *)
LEMMA LoopStep ==
    ASSUME IInv, NEW w \in Walks, Readdir(w) \/ Skip(w) \/ LoopEnds(w) \/ WaitEnds(w)
    PROVE  IInv'
<1>1. TypeOK /\ Accounting /\ \A v \in Walks : InOrder(v)
  BY DEF IInv
<1>2. worker' = worker
  <2>1. CASE Readdir(w)
    <3>1. worker[w] = [d \in 1..Defs |-> "none"]
      BY <1>1, <2>1 DEF Readdir, TypeOK, InOrder
    <3> QED
      BY <1>1, <2>1, <3>1 DEF Readdir, TypeOK
  <2> QED
    BY <2>1 DEF Skip, LoopEnds, WaitEnds
<1>3. sem' = sem /\ wg' = wg
  BY DEF Readdir, Skip, LoopEnds, WaitEnds
<1>4. Accounting'
  BY <1>1, <1>2, <1>3 DEF Accounting, Workers
<1>5. TypeOK'
  <2>1. \A where \in {"loop", "wait", "done"} :
            Goto(w, where) => at' \in [Walks -> {"idle", "loop", "wait", "done"}]
    BY <1>1 DEF TypeOK, Goto
  <2>2. at' \in [Walks -> {"idle", "loop", "wait", "done"}]
    BY <1>1, <2>1 DEF TypeOK, Readdir, Skip, LoopEnds, WaitEnds
  <2>3. next' \in [Walks -> 1..(Defs + 1)] /\ asked' \in [Walks -> SUBSET (1..Defs)]
    <3>1. CASE Readdir(w)
      <4>1. 1 \in 1..(Defs + 1)
        OBVIOUS
      <4> QED
        BY <1>1, <3>1, <4>1 DEF TypeOK, Readdir
    <3>2. CASE Skip(w)
      <4>1. next[w] + 1 \in 1..(Defs + 1)
        BY <1>1, <3>2 DEF TypeOK, Skip
      <4> QED
        BY <1>1, <3>2, <4>1 DEF TypeOK, Skip
    <3> QED
      BY <1>1, <3>1, <3>2 DEF TypeOK, LoopEnds, WaitEnds
  <2> QED
    BY <1>1, <1>2, <1>3, <2>2, <2>3 DEF TypeOK
<1>6. ASSUME NEW v \in Walks PROVE InOrder(v)'
  <2>1. CASE v # w
    <3>1. at'[v] = at[v] /\ next'[v] = next[v] /\ asked'[v] = asked[v] /\ worker'[v] = worker[v]
      BY <1>1, <1>2, <2>1 DEF TypeOK, Readdir, Skip, LoopEnds, WaitEnds, Goto
    <3> QED
      BY <1>1, <3>1, OthersInOrder
  <2>2. CASE v = w
    <3>1. CASE Readdir(w)
      BY <1>1, <1>2, <2>2, <3>1 DEF Readdir, Goto, InOrder, TypeOK
    <3>2. CASE Skip(w)
      BY <1>1, <1>2, <2>2, <3>2 DEF Skip, InOrder, TypeOK
    <3>3. CASE LoopEnds(w)
      BY <1>1, <1>2, <2>2, <3>3 DEF LoopEnds, Goto, InOrder, TypeOK
    <3>4. CASE WaitEnds(w)
      <4>1. \A d \in 1..Defs : worker[w][d] = "none"
        <5> SUFFICES ASSUME NEW d \in 1..Defs PROVE worker[w][d] = "none"
          OBVIOUS
        <5>1. wg[w] = 0 /\ (worker[w][d] \in InWg => wg[w] > 0)
          BY <3>4, Counts DEF WaitEnds
        <5>2. worker[w][d] \in {"none", "list", "release", "done"}
          BY <1>1 DEF TypeOK
        <5> QED
          BY <5>1, <5>2 DEF InWg
      <4> QED
        BY <1>1, <1>2, <2>2, <3>4, <4>1 DEF WaitEnds, Goto, InOrder, TypeOK
    <3> QED
      BY <3>1, <3>2, <3>3, <3>4
  <2> QED
    BY <2>1, <2>2
<1> QED
  BY <1>4, <1>5, <1>6 DEF IInv

(* The order of a walk survives a step of one of its goroutines.            *)
LEMMA WorkerOrder ==
    ASSUME IInv, NEW w \in Walks, NEW d \in 1..Defs, NEW state \in States, Set(w, d, state),
           at' = at,
           \/ /\ at[w] = "loop" /\ d = next[w] /\ d \notin Unnamed /\ state = "list"
              /\ next' = [next EXCEPT ![w] = d + 1] /\ asked' = asked
           \/ /\ worker[w][d] = "list" /\ state = "release"
              /\ next' = next /\ asked' = [asked EXCEPT ![w] = @ \cup {d}]
           \/ /\ worker[w][d] \in {"release", "done"} /\ state \in {"done", "none"}
              /\ next' = next /\ asked' = asked
    PROVE  \A v \in Walks : InOrder(v)'
<1>1. TypeOK /\ \A v \in Walks : InOrder(v)
  BY DEF IInv
<1>2. worker \in [Walks -> [1..Defs -> States]]
  BY <1>1 DEF TypeOK, States
<1> SUFFICES ASSUME NEW v \in Walks PROVE InOrder(v)'
  OBVIOUS
<1>3. CASE v # w
  <2>1. next'[v] = next[v] /\ asked'[v] = asked[v] /\ worker'[v] = worker[v]
    BY <1>1, <1>3 DEF TypeOK, Set
  <2> QED
    BY <1>1, <2>1, OthersInOrder
<1>4. CASE v = w
  <2>1. worker'[w][d] = state /\ \A e \in (1..Defs) \ {d} : worker'[w][e] = worker[w][e]
    BY <1>2 DEF Set
  <2>2. InOrder(w) /\ next[w] \in 1..(Defs + 1) /\ at'[w] = at[w]
    BY <1>1 DEF TypeOK
  <2>3. CASE /\ at[w] = "loop" /\ d = next[w] /\ d \notin Unnamed /\ state = "list"
             /\ next' = [next EXCEPT ![w] = d + 1] /\ asked' = asked
    <3>1. next'[w] = d + 1 /\ asked'[w] = asked[w]
      BY <1>1, <2>3 DEF TypeOK
    <3> QED
      BY <1>4, <2>1, <2>2, <2>3, <3>1 DEF InOrder
  <2>4. CASE /\ worker[w][d] = "list" /\ state = "release"
             /\ next' = next /\ asked' = [asked EXCEPT ![w] = @ \cup {d}]
    <3>1. next'[w] = next[w] /\ asked'[w] = asked[w] \cup {d}
      BY <1>1, <2>4 DEF TypeOK
    <3> QED
      BY <1>4, <2>1, <2>2, <2>4, <3>1 DEF InOrder
  <2>5. CASE /\ worker[w][d] \in {"release", "done"} /\ state \in {"done", "none"}
             /\ next' = next /\ asked' = asked
    BY <1>4, <2>1, <2>2, <2>5 DEF InOrder
  <2> QED
    BY <2>3, <2>4, <2>5
<1> QED
  BY <1>3, <1>4

(* The steps of the goroutines, and the one that starts them.               *)
LEMMA WorkerStep ==
    ASSUME IInv, NEW w \in Walks, NEW d \in 1..Defs,
           (StartWorker(w) /\ d = next[w]) \/ Work(w, d)
    PROVE  IInv'
<1>1. TypeOK /\ \A v \in Walks : InOrder(v)
  BY DEF IInv
<1>2. /\ sem \in [Walks -> 0..prefetchConcurrency] /\ wg \in [Walks -> 0..Defs]
      /\ next \in [Walks -> 1..(Defs + 1)] /\ asked \in [Walks -> SUBSET (1..Defs)]
      /\ at \in [Walks -> {"idle", "loop", "wait", "done"}]
      /\ worker \in [Walks -> [1..Defs -> States]]
  BY <1>1 DEF TypeOK, States
<1>3. sem[w] \in 0..prefetchConcurrency /\ prefetchConcurrency \in Nat
  BY <1>2
<1>4. ASSUME Accounting', wg' \in [Walks -> 0..Defs], worker' \in [Walks -> [1..Defs -> States]],
             sem' \in [Walks -> 0..prefetchConcurrency], next' \in [Walks -> 1..(Defs + 1)],
             asked' \in [Walks -> SUBSET (1..Defs)], at' = at,
             \A v \in Walks : InOrder(v)'
      PROVE  IInv'
  BY <1>2, <1>4 DEF IInv, TypeOK, States
<1>5. CASE StartWorker(w) /\ d = next[w]
  <2>1. Set(w, d, "list") /\ "list" \in States
    BY <1>5 DEF StartWorker, States
  <2>2. worker[w][d] = "none"
    BY <1>1, <1>2, <1>5 DEF InOrder, States
  <2>3. sem' = [sem EXCEPT ![w] = @ + 1] /\ wg' = [wg EXCEPT ![w] = @ + 1]
        /\ next' = [next EXCEPT ![w] = d + 1] /\ asked' = asked /\ at' = at
    BY <1>5 DEF StartWorker
  <2>4. Accounting' /\ wg' \in [Walks -> 0..Defs] /\ worker' \in [Walks -> [1..Defs -> States]]
    BY <2>1, <2>2, <2>3, AccountsKept
  <2>5. sem' \in [Walks -> 0..prefetchConcurrency] /\ next' \in [Walks -> 1..(Defs + 1)]
    BY <1>2, <1>5, <2>3 DEF StartWorker
  <2>6. \A v \in Walks : InOrder(v)'
    BY <1>5, <2>1, <2>3, WorkerOrder DEF StartWorker
  <2> QED
    BY <1>2, <1>4, <2>3, <2>4, <2>5, <2>6
<1>6. CASE Listed(w, d)
  <2>1. Set(w, d, "release") /\ "release" \in States /\ worker[w][d] = "list"
    BY <1>6 DEF Listed, States
  <2>2. sem' = sem /\ wg' = wg /\ next' = next /\ at' = at
        /\ asked' = [asked EXCEPT ![w] = @ \cup {d}]
    BY <1>6 DEF Listed
  <2>4. Accounting' /\ wg' \in [Walks -> 0..Defs] /\ worker' \in [Walks -> [1..Defs -> States]]
    BY <2>1, <2>2, AccountsKept
  <2>5. asked' \in [Walks -> SUBSET (1..Defs)]
    BY <1>2, <2>2
  <2>6. \A v \in Walks : InOrder(v)'
    BY <2>1, <2>2, WorkerOrder
  <2> QED
    BY <1>2, <1>4, <2>2, <2>4, <2>5, <2>6
<1>7. CASE ReleaseSem(w, d)
  <2>1. Set(w, d, "done") /\ "done" \in States /\ worker[w][d] = "release"
    BY <1>7 DEF ReleaseSem, States
  <2>2. sem' = [sem EXCEPT ![w] = @ - 1] /\ wg' = wg /\ next' = next /\ at' = at /\ asked' = asked
    BY <1>7 DEF ReleaseSem
  <2>4. Accounting' /\ wg' \in [Walks -> 0..Defs] /\ worker' \in [Walks -> [1..Defs -> States]]
    BY <2>1, <2>2, AccountsKept
  <2>5. sem' \in [Walks -> 0..prefetchConcurrency]
    BY <1>2, <1>3, <2>1, <2>2, Counts DEF InSem
  <2>6. \A v \in Walks : InOrder(v)'
    BY <2>1, <2>2, WorkerOrder
  <2> QED
    BY <1>2, <1>4, <2>2, <2>4, <2>5, <2>6
<1>8. CASE WorkerDone(w, d)
  <2>1. Set(w, d, "none") /\ "none" \in States /\ worker[w][d] = "done"
    BY <1>8 DEF WorkerDone, States
  <2>2. wg' = [wg EXCEPT ![w] = @ - 1] /\ sem' = sem /\ next' = next /\ at' = at /\ asked' = asked
    BY <1>8 DEF WorkerDone
  <2>4. Accounting' /\ wg' \in [Walks -> 0..Defs] /\ worker' \in [Walks -> [1..Defs -> States]]
    BY <2>1, <2>2, AccountsKept
  <2>6. \A v \in Walks : InOrder(v)'
    BY <2>1, <2>2, WorkerOrder
  <2> QED
    BY <1>2, <1>4, <2>2, <2>4, <2>6
<1> QED
  BY <1>5, <1>6, <1>7, <1>8 DEF Work

-----------------------------------------------------------------------------
(* The channel and the WaitGroup of every walk count its goroutines, the    *)
(* channel within its capacity, and a walk asks in the order of its loop.   *)
THEOREM PrefetchInvariance == Spec => []IInv
<1>1. IInv /\ [Next]_vars => IInv'
  <2> SUFFICES ASSUME IInv, [Next]_vars PROVE IInv'
    OBVIOUS
  <2>1. ASSUME NEW w \in Walks, Readdir(w) \/ Loop(w) PROVE IInv'
    <3>1. CASE StartWorker(w)
      <4>1. next[w] \in 1..Defs
        BY <3>1 DEF StartWorker
      <4> QED
        BY <3>1, <4>1, WorkerStep
    <3> QED
      BY <2>1, <3>1, LoopStep DEF Loop
  <2>2. ASSUME NEW w \in Walks, NEW d \in 1..Defs, Work(w, d) PROVE IInv'
    BY <2>2, WorkerStep
  <2>3. CASE UNCHANGED vars
    <3>1. /\ at' = at /\ next' = next /\ sem' = sem /\ wg' = wg
          /\ worker' = worker /\ asked' = asked
      BY <2>3 DEF vars
    <3>2. TypeOK'
      BY <3>1 DEF IInv, TypeOK
    <3>3. Accounting'
      BY <3>1 DEF IInv, Accounting, Workers
    <3>4. ASSUME NEW w \in Walks PROVE InOrder(w)'
      BY <3>1, OthersInOrder DEF IInv
    <3> QED
      BY <3>2, <3>3, <3>4 DEF IInv
  <2> QED
    BY <2>1, <2>2, <2>3 DEF Next
<1> QED
  BY <1>1, InitIInv, PTL DEF Spec

(* The elements in sem and the counter of the WaitGroup are the goroutines  *)
(* that have still to receive from it, or to call wg.Done.                  *)
THEOREM AccountingTheorem == Spec => []Accounting
<1>1. IInv => Accounting
  BY DEF IInv
<1> QED
  BY <1>1, PrefetchInvariance, PTL

(* One walk never has more than prefetchConcurrency lists under way,        *)
(* whatever the number of definitions.                                      *)
THEOREM ThrottledTheorem == Spec => []Throttled
<1>1. IInv => Throttled
  <2> SUFFICES ASSUME IInv, NEW w \in Walks
               PROVE  Cardinality(Workers(w, {"list"})) <= prefetchConcurrency
    BY DEF Throttled
  <2>1. sem[w] \in 0..prefetchConcurrency /\ sem[w] = Cardinality(Workers(w, InSem))
    BY DEF IInv, TypeOK, Accounting, InSem
  <2>2. Workers(w, {"list"}) \subseteq Workers(w, InSem)
    BY DEF Workers, InSem
  <2>3. Cardinality(Workers(w, {"list"})) <= Cardinality(Workers(w, InSem))
    BY <2>2, WorkersFinite, FS_Subset
  <2>4. Cardinality(Workers(w, {"list"})) \in Nat
    BY WorkersFinite
  <2> QED
    BY <2>1, <2>3, <2>4
<1> QED
  BY <1>1, PrefetchInvariance, PTL

(* A walk that has returned left no goroutine behind and nothing in sem,    *)
(* and has asked for every definition that has a namespace.                 *)
THEOREM NothingLeftBehindTheorem == Spec => []NothingLeftBehind
<1>1. IInv => NothingLeftBehind
  <2> SUFFICES ASSUME IInv, NEW w \in Walks, at[w] = "done"
               PROVE  /\ asked[w] = (1..Defs) \ Unnamed
                      /\ Workers(w, InWg) = {}
                      /\ sem[w] = 0
    BY DEF NothingLeftBehind, InWg
  <2>1. InOrder(w) /\ sem[w] = Cardinality(Workers(w, InSem))
    BY DEF IInv, Accounting, InSem
  <2>2. \A d \in 1..Defs : worker[w][d] = "none"
    BY <2>1 DEF InOrder
  <2>3. Workers(w, InWg) = {} /\ Workers(w, InSem) = {}
    BY <2>2 DEF Workers, InWg, InSem
  <2>4. sem[w] = 0
    BY <2>1, <2>3, FS_EmptySet
  <2>5. asked[w] = (1..Defs) \ Unnamed
    BY <2>1, <2>2 DEF InOrder
  <2> QED
    BY <2>3, <2>4, <2>5
<1> QED
  BY <1>1, PrefetchInvariance, PTL

-----------------------------------------------------------------------------
(* The safe part of WalkEnds: a walk has finitely many steps before it, and *)
(* until it returns one of them is possible.                                *)
StagesLeft(w) == CASE at[w] = "loop" -> 2 [] at[w] = "wait" -> 1 [] OTHER -> 0

StepsLeft(w) ==
    4 * (Defs + 1 - next[w]) + StagesLeft(w) + Cardinality(Workers(w, {"list"}))
        + Cardinality(Workers(w, InSem)) + Cardinality(Workers(w, InWg))

CanLoop(w) ==
    \/ at[w] = "loop" /\ next[w] \in Unnamed
    \/ at[w] = "loop" /\ next[w] \in (1..Defs) \ Unnamed /\ sem[w] < prefetchConcurrency
    \/ at[w] = "loop" /\ next[w] > Defs
    \/ at[w] = "wait" /\ wg[w] = 0
CanWork(w) == \E d \in 1..Defs : worker[w][d] \in {"list", "release", "done"}

LEMMA StepsLeftType ==
    ASSUME TypeOK, NEW w \in Walks
    PROVE  /\ StepsLeft(w) \in Nat
           /\ next[w] \in 1..(Defs + 1)
           /\ StagesLeft(w) \in 0..2
           /\ \A S : Cardinality(Workers(w, S)) \in Nat
<1>1. next[w] \in 1..(Defs + 1) /\ \A S : Cardinality(Workers(w, S)) \in Nat
  BY WorkersFinite DEF TypeOK
<1>2. StagesLeft(w) \in 0..2
  BY DEF StagesLeft
<1>3. /\ Cardinality(Workers(w, {"list"})) \in Nat
      /\ Cardinality(Workers(w, InSem)) \in Nat
      /\ Cardinality(Workers(w, InWg)) \in Nat
  BY <1>1
<1>4. 4 * (Defs + 1 - next[w]) \in Nat
  BY <1>1
<1> QED
  BY <1>1, <1>2, <1>3, <1>4 DEF StepsLeft

(* A goroutine's step brings it one state further.                          *)
LEMMA WorkLeavesLess ==
    ASSUME IInv, NEW w \in Walks, NEW d \in 1..Defs, Work(w, d)
    PROVE  StepsLeft(w)' = StepsLeft(w) - 1
<1>1. TypeOK
  BY DEF IInv
<1>2. at' = at /\ next' = next
  BY DEF Work, Listed, ReleaseSem, WorkerDone
<1>3. StagesLeft(w)' = StagesLeft(w)
  BY <1>2 DEF StagesLeft
<1> DEFINE L == Cardinality(Workers(w, {"list"}))
           M == Cardinality(Workers(w, InSem))
           N == Cardinality(Workers(w, InWg))
<1>4. L \in Nat /\ M \in Nat /\ N \in Nat /\ next[w] \in 1..(Defs + 1) /\ StagesLeft(w) \in 0..2
  BY <1>1, StepsLeftType
<1>5. StepsLeft(w) = 4 * (Defs + 1 - next[w]) + StagesLeft(w) + L + M + N
  BY DEF StepsLeft
<1>6. StepsLeft(w)' = 4 * (Defs + 1 - next[w]) + StagesLeft(w) + L' + M' + N'
  BY <1>2, <1>3 DEF StepsLeft
<1>7. \/ L' = L - 1 /\ M' = M /\ N' = N
      \/ L' = L /\ M' = M - 1 /\ N' = N
      \/ L' = L /\ M' = M /\ N' = N - 1
  <2>1. CASE Listed(w, d)
    BY <1>1, <1>4, <2>1, Moves DEF Listed, InSem, InWg
  <2>2. CASE ReleaseSem(w, d)
    BY <1>1, <1>4, <2>2, Moves DEF ReleaseSem, InSem, InWg
  <2>3. CASE WorkerDone(w, d)
    BY <1>1, <1>4, <2>3, Moves DEF WorkerDone, InSem, InWg
  <2> QED
    BY <2>1, <2>2, <2>3 DEF Work
<1> HIDE DEF L, M, N
<1> QED
  BY <1>4, <1>5, <1>6, <1>7

(* So does a step of the loop, also one that starts a goroutine.            *)
LEMMA LoopLeavesLess ==
    ASSUME IInv, NEW w \in Walks, Loop(w)
    PROVE  StepsLeft(w)' < StepsLeft(w)
<1>1. TypeOK /\ InOrder(w)
  BY DEF IInv
<1> DEFINE L == Cardinality(Workers(w, {"list"}))
           M == Cardinality(Workers(w, InSem))
           N == Cardinality(Workers(w, InWg))
<1>2. L \in Nat /\ M \in Nat /\ N \in Nat /\ next[w] \in 1..(Defs + 1) /\ StagesLeft(w) \in 0..2
  BY <1>1, StepsLeftType
<1>3. StepsLeft(w) = 4 * (Defs + 1 - next[w]) + StagesLeft(w) + L + M + N
  BY DEF StepsLeft
<1>4. StepsLeft(w)' = 4 * (Defs + 1 - next'[w]) + StagesLeft(w)' + L' + M' + N'
  BY DEF StepsLeft
<1>5. CASE StartWorker(w)
  <2>1. next[w] \in 1..Defs /\ Set(w, next[w], "list") /\ at' = at /\ next'[w] = next[w] + 1
    BY <1>1, <1>5 DEF StartWorker, TypeOK
  <2>2. worker[w][next[w]] = "none"
    BY <1>1, <2>1 DEF InOrder
  <2>3. L' = L + 1 /\ M' = M + 1 /\ N' = N + 1
    BY <1>1, <1>2, <2>1, <2>2, Moves DEF InSem, InWg
  <2>4. StagesLeft(w)' = StagesLeft(w)
    BY <2>1 DEF StagesLeft
  <2> HIDE DEF L, M, N
  <2> QED
    BY <1>2, <1>3, <1>4, <2>1, <2>3, <2>4
<1>6. CASE Skip(w) \/ LoopEnds(w) \/ WaitEnds(w)
  <2>1. worker' = worker
    BY <1>6 DEF Skip, LoopEnds, WaitEnds
  <2>2. L' = L /\ M' = M /\ N' = N
    BY <2>1, OtherWalks
  <2>3. /\ next'[w] = next[w] + 1 /\ StagesLeft(w)' = StagesLeft(w)
        \/ /\ next'[w] = next[w] /\ StagesLeft(w)' = StagesLeft(w) - 1
    <3>1. CASE Skip(w)
      BY <1>1, <3>1 DEF Skip, TypeOK, StagesLeft
    <3>2. CASE LoopEnds(w)
      BY <1>1, <3>2 DEF LoopEnds, Goto, TypeOK, StagesLeft
    <3>3. CASE WaitEnds(w)
      BY <1>1, <3>3 DEF WaitEnds, Goto, TypeOK, StagesLeft
    <3> QED
      BY <1>6, <3>1, <3>2, <3>3
  <2> HIDE DEF L, M, N
  <2> QED
    BY <1>2, <1>3, <1>4, <2>2, <2>3
<1> QED
  BY <1>5, <1>6 DEF Loop

(* The steps of one walk leave those of the others as they were.            *)
LEMMA OthersLeft ==
    ASSUME TypeOK, NEW v \in Walks, NEW w \in Walks \ {v},
           Readdir(v) \/ Loop(v) \/ \E d \in 1..Defs : Work(v, d)
    PROVE  StepsLeft(w)' = StepsLeft(w)
<1>1. worker'[w] = worker[w] /\ at'[w] = at[w] /\ next'[w] = next[w]
  <2>1. CASE Readdir(v)
    BY <2>1 DEF TypeOK, Readdir, Goto
  <2>2. CASE Loop(v)
    BY <2>2 DEF TypeOK, Loop, Skip, StartWorker, LoopEnds, WaitEnds, Goto, Set
  <2>3. ASSUME NEW d \in 1..Defs, Work(v, d)
        PROVE  worker'[w] = worker[w] /\ at'[w] = at[w] /\ next'[w] = next[w]
    BY <2>3 DEF TypeOK, Work, Listed, ReleaseSem, WorkerDone, Set
  <2> QED
    BY <2>1, <2>2, <2>3
<1> QED
  BY <1>1, OtherWalks DEF StepsLeft, StagesLeft

(* A walk takes finitely many steps from one Readdir to the next: every one *)
(* of them leaves it fewer, and nobody else's changes how many are left.    *)
THEOREM WalkAdvances ==
    Spec => [][\A w \in Walks :
                  /\ StepsLeft(w) \in Nat
                  /\ \/ Readdir(w)
                     \/ (Loop(w) \/ \E d \in 1..Defs : Work(w, d)) /\ StepsLeft(w)' < StepsLeft(w)
                     \/ StepsLeft(w)' = StepsLeft(w)]_vars
<1> DEFINE Advances(w) ==
      /\ StepsLeft(w) \in Nat
      /\ \/ Readdir(w)
         \/ (Loop(w) \/ \E d \in 1..Defs : Work(w, d)) /\ StepsLeft(w)' < StepsLeft(w)
         \/ StepsLeft(w)' = StepsLeft(w)
<1>1. ASSUME IInv, Next, NEW w \in Walks PROVE Advances(w)
  <2>1. TypeOK /\ StepsLeft(w) \in Nat
    BY <1>1, StepsLeftType DEF IInv
  <2>2. PICK v \in Walks : Readdir(v) \/ Loop(v) \/ \E d \in 1..Defs : Work(v, d)
    BY <1>1 DEF Next
  <2>3. CASE v # w
    <3>1. StepsLeft(w)' = StepsLeft(w)
      BY <2>1, <2>2, <2>3, OthersLeft
    <3> QED
      BY <2>1, <3>1
  <2>4. CASE v = w /\ Readdir(w)
    BY <2>1, <2>4
  <2>5. CASE v = w /\ Loop(w)
    <3>1. StepsLeft(w)' < StepsLeft(w)
      BY <1>1, <2>5, LoopLeavesLess
    <3> QED
      BY <2>1, <2>5, <3>1
  <2>6. CASE v = w /\ \E d \in 1..Defs : Work(w, d)
    <3>1. PICK d \in 1..Defs : Work(w, d)
      BY <2>6
    <3>2. StepsLeft(w)' = StepsLeft(w) - 1
      BY <1>1, <3>1, WorkLeavesLess
    <3>3. StepsLeft(w)' < StepsLeft(w)
      BY <2>1, <3>2
    <3> QED
      BY <2>1, <3>1, <3>3
  <2> HIDE DEF Advances
  <2> QED
    BY <2>2, <2>3, <2>4, <2>5, <2>6
<1>2. IInv /\ [Next]_vars => [\A w \in Walks : Advances(w)]_vars
  BY <1>1
<1> QED
  BY <1>2, PrefetchInvariance, PTL DEF Spec

(* A walk that has not returned is never stuck: when its loop waits for     *)
(* room in sem, or for the WaitGroup, one of its own goroutines is running, *)
(* and a goroutine waits for nobody.                                        *)
THEOREM WalkNeverStuck ==
    Spec => [](\A w \in Walks : at[w] \in {"loop", "wait"} => CanLoop(w) \/ CanWork(w))
<1>1. ASSUME IInv, NEW w \in Walks, at[w] \in {"loop", "wait"}, ~CanWork(w) PROVE CanLoop(w)
  <2>1. /\ next[w] \in 1..(Defs + 1) /\ sem[w] \in 0..prefetchConcurrency
        /\ sem[w] = Cardinality(Workers(w, InSem)) /\ wg[w] = Cardinality(Workers(w, InWg))
    BY <1>1 DEF IInv, TypeOK, Accounting, InSem, InWg
  <2>2. Workers(w, InSem) = {} /\ Workers(w, InWg) = {}
    BY <1>1 DEF CanWork, Workers, InSem, InWg
  <2>3. sem[w] = 0 /\ wg[w] = 0
    BY <2>1, <2>2, FS_EmptySet
  <2>4. sem[w] < prefetchConcurrency
    BY <2>3
  <2>5. next[w] \in Unnamed \/ next[w] \in (1..Defs) \ Unnamed \/ next[w] > Defs
    BY <2>1
  <2> QED
    BY <1>1, <2>3, <2>4, <2>5 DEF CanLoop
<1>2. IInv => \A w \in Walks : at[w] \in {"loop", "wait"} => CanLoop(w) \/ CanWork(w)
  BY <1>1
<1> QED
  BY <1>2, PrefetchInvariance, PTL
=============================================================================
