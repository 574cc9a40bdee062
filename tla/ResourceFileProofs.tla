-------------------------- MODULE ResourceFileProofs --------------------------
(* Theorems about ResourceFile for every number of threads, inodes, handles *)
(* and versions, and every mount.                                           *)
EXTENDS ResourceFile, TLAPS

USE ConstantsAssumption

(* The initial states satisfy the inductive invariant.                      *)
LEMMA InitIInv == Init => IInv
  BY DEF Init, IInv, TypeOK, LockHeldAcrossFetch, VersionsInOrder, InodeInOrder,
         RequestInOrder, FetchLeavesTrace,
         Points, Errnos, Replying, Cached, MountOptions

(* Every step keeps the variables in their types, and a request that is     *)
(* being served on an inode.                                                *)
LEMMA TypeStep ==
    ASSUME TypeOK, [Next]_vars
    PROVE  TypeOK'
<1> USE DEF TypeOK, cache, open, request, history, Points, Errnos, Replying
<1>1. CASE \E i \in Inodes : Lookup(i)
  BY <1>1 DEF Lookup
<1>2. CASE \E h \in Handles : Open(h)
  BY <1>2 DEF Open
<1>3. CASE \E h \in Handles : Release(h)
  BY <1>3 DEF Release
<1>4. CASE \E h \in Handles, c \in Writable(srv) : Write(h, c)
  <2> PICK h \in Handles, c \in Writable(srv) : Write(h, c)
    BY <1>4
  <2>1. /\ c \in Chunk /\ buf \in [Handles -> Seq(Chunk)]
        /\ buf' = [buf EXCEPT ![h] = Append(@, c)]
    BY DEF Write, Writable
  <2>2. buf' \in [Handles -> Seq(Chunk)]
    BY ONLY <2>1
  <2> QED
    BY <2>2 DEF Write
<1>5. CASE \E t \in Threads, h \in Handles : Read(t, h)
  BY <1>5 DEF Read, Start
<1>6. CASE \E t \in Threads, h \in Handles : Flush(t, h)
  <2> PICK t \in Threads, h \in Handles : Flush(t, h)
    BY <1>6
  <2>1. hfile[h] \in Inodes /\ FlushVerdict(buf[h]) \in Errnos /\ buf[h] \in Seq(Chunk)
    BY DEF Flush, FlushVerdict, WriteGate
  <2>2. pc' \in [Threads -> Points] /\ err' \in [Threads -> Errnos]
    BY <2>1 DEF Flush, Start
  <2>3. /\ file' \in [Threads -> Inodes \cup {None}]
        /\ hnd' \in [Threads -> Handles \cup {None}]
        /\ snap' \in [Threads -> Seq(Chunk)]
    BY <2>1 DEF Flush, Start
  <2>4. \A u \in Threads : pc'[u] # "idle" => file'[u] \in Inodes
    BY <2>1 DEF Flush, Start
  <2> QED
    BY <2>2, <2>3, <2>4 DEF Flush
<1>7. CASE \E t \in Threads, x \in Targets : Getattr(t, x)
  BY <1>7 DEF Getattr, Start, Targets
<1>8. CASE \E t \in Threads, x \in Targets, b \in BOOLEAN : Setattr(t, x, b)
  BY <1>8 DEF Setattr, Start, Targets, WriteGate
<1>9. CASE \E t \in Threads : FetchHit(t)
  BY <1>9 DEF FetchHit, Goto, Unlocked, Cached, Larger
<1>10. CASE \E t \in Threads : FetchMiss(t)
  BY <1>10 DEF FetchMiss, Goto, Unlocked, Cached
<1>11. CASE \E t \in Threads : FlushInvalidate(t)
  BY <1>11 DEF FlushInvalidate, invalidateContent, Goto, Unlocked, Larger
<1>12. CASE \E t \in Threads : GetattrSize(t)
  BY <1>12 DEF GetattrSize, Goto
<1>13. CASE \E t \in Threads : SetattrTruncate(t)
  BY <1>13 DEF SetattrTruncate, invalidateContent, Goto, Unlocked
<1>14. CASE \E t \in Threads : GetResource(t)
  <2> PICK t \in Threads : GetResource(t)
    BY <1>14
  <2>1. srv \in Nat /\ val \in [Threads -> Nat]
    OBVIOUS
  <2>2. val' = val \/ val' = [val EXCEPT ![t] = srv]
    BY DEF GetResource
  <2>3. val' \in [Threads -> Nat]
    BY ONLY <2>1, <2>2
  <2>4. pc' \in [Threads -> Points] /\ err' \in [Threads -> Errnos]
    BY DEF GetResource, Goto
  <2> QED
    BY <2>3, <2>4 DEF GetResource, Goto
<1>15. CASE \E t \in Threads : UpdateApplied(t)
  <2> PICK t \in Threads : UpdateApplied(t)
    BY <1>15
  <2>1. srv \in Nat /\ val \in [Threads -> Nat]
    OBVIOUS
  <2>2. val' = val \/ val' = [val EXCEPT ![t] = srv + 1]
    BY DEF UpdateApplied
  <2>3. val' \in [Threads -> Nat]
    BY ONLY <2>1, <2>2
  <2>4. pc' \in [Threads -> Points] /\ err' \in [Threads -> Errnos]
    BY DEF UpdateApplied, Goto
  <2>5. srv' \in 1..MaxVersion
    BY DEF UpdateApplied
  <2> QED
    BY <2>3, <2>4, <2>5 DEF UpdateApplied, Goto
<1>16. CASE \E t \in Threads : UpdateRefused(t)
  <2> PICK t \in Threads : UpdateRefused(t)
    BY <1>16
  <2>1. pc' \in [Threads -> Points]
    BY DEF UpdateRefused, Goto
  <2>2. err' = [err EXCEPT ![t] = "EINVAL"] \/ err' = [err EXCEPT ![t] = "EIO"]
    BY DEF UpdateRefused
  <2>3. err' \in [Threads -> Errnos]
    BY <2>2
  <2> QED
    BY <2>1, <2>3 DEF UpdateRefused, Goto
<1>17. CASE \E t \in Threads : FetchStore(t)
  BY <1>17 DEF FetchStore, Goto, Larger
<1>18. CASE \E t \in Threads : Answer(t)
  BY <1>18 DEF Answer, Goto, Replying
<1>19. CASE ServerChange
  BY <1>19 DEF ServerChange
<1>20. CASE UNCHANGED vars
  BY <1>20 DEF vars
<1> HIDE DEF TypeOK
<1> QED
  BY <1>1, <1>2, <1>3, <1>4, <1>5, <1>6, <1>7, <1>8, <1>9, <1>10, <1>11,
         <1>12, <1>13, <1>14, <1>15, <1>16, <1>17, <1>18, <1>19, <1>20 DEF
         Next, Request, LockStep, ServerStep, LocalStep

(* contentMu is held exactly by the thread that is between a miss and the   *)
(* end of its fetch.                                                        *)
LEMMA LockHeldStep ==
    ASSUME TypeOK, LockHeldAcrossFetch, [Next]_vars
    PROVE  LockHeldAcrossFetch'
<1> USE DEF TypeOK, LockHeldAcrossFetch, cache, open, request, history
<1>1. CASE \E i \in Inodes : Lookup(i)
  BY <1>1 DEF Lookup
<1>2. CASE \E h \in Handles : Open(h)
  BY <1>2 DEF Open
<1>3. CASE \E h \in Handles : Release(h)
  BY <1>3 DEF Release
<1>4. CASE \E h \in Handles, c \in Writable(srv) : Write(h, c)
  BY <1>4 DEF Write, Writable
<1>5. CASE \E t \in Threads, h \in Handles : Read(t, h)
  BY <1>5 DEF Read, Start
<1>6. CASE \E t \in Threads, h \in Handles : Flush(t, h)
  BY <1>6 DEF Flush, Start, FlushVerdict, WriteGate
<1>7. CASE \E t \in Threads, x \in Targets : Getattr(t, x)
  BY <1>7 DEF Getattr, Start, Targets
<1>8. CASE \E t \in Threads, x \in Targets, b \in BOOLEAN : Setattr(t, x, b)
  BY <1>8 DEF Setattr, Start, Targets, WriteGate
<1>9. CASE \E t \in Threads : FetchHit(t)
  BY <1>9 DEF FetchHit, Goto, Unlocked, Cached, Larger
<1>10. CASE \E t \in Threads : FetchMiss(t)
  BY <1>10 DEF FetchMiss, Goto, Unlocked, Cached
<1>11. CASE \E t \in Threads : FlushInvalidate(t)
  BY <1>11 DEF FlushInvalidate, invalidateContent, Goto, Unlocked, Larger
<1>12. CASE \E t \in Threads : GetattrSize(t)
  BY <1>12 DEF GetattrSize, Goto
<1>13. CASE \E t \in Threads : SetattrTruncate(t)
  BY <1>13 DEF SetattrTruncate, invalidateContent, Goto, Unlocked
<1>14. CASE \E t \in Threads : GetResource(t)
  BY <1>14 DEF GetResource, Goto
<1>15. CASE \E t \in Threads : UpdateApplied(t)
  BY <1>15 DEF UpdateApplied, Goto
<1>16. CASE \E t \in Threads : UpdateRefused(t)
  BY <1>16 DEF UpdateRefused, Goto
<1>17. CASE \E t \in Threads : FetchStore(t)
  BY <1>17 DEF FetchStore, Goto, Larger
<1>18. CASE \E t \in Threads : Answer(t)
  BY <1>18 DEF Answer, Goto, Replying
<1>19. CASE ServerChange
  BY <1>19 DEF ServerChange
<1>20. CASE UNCHANGED vars
  BY <1>20 DEF vars
<1> QED
  BY <1>1, <1>2, <1>3, <1>4, <1>5, <1>6, <1>7, <1>8, <1>9, <1>10, <1>11,
         <1>12, <1>13, <1>14, <1>15, <1>16, <1>17, <1>18, <1>19, <1>20 DEF
         Next, Request, LockStep, ServerStep, LocalStep

(* The order of the versions.  The lock is what keeps a second fetch, or an *)
(* invalidation, from coming between the server's answer and its store.     *)
LEMMA VersionsStep ==
    ASSUME TypeOK, LockHeldAcrossFetch, VersionsInOrder, FetchLeavesTrace, [Next]_vars
    PROVE  VersionsInOrder'
<1> USE DEF TypeOK, LockHeldAcrossFetch, VersionsInOrder, InodeInOrder,
            RequestInOrder, FetchLeavesTrace, cache, open, request, history
<1>1. CASE \E i \in Inodes : Lookup(i)
  BY <1>1 DEF Lookup
<1>2. CASE \E h \in Handles : Open(h)
  BY <1>2 DEF Open
<1>3. CASE \E h \in Handles : Release(h)
  BY <1>3 DEF Release
<1>4. CASE \E h \in Handles, c \in Writable(srv) : Write(h, c)
  BY <1>4 DEF Write, Writable
<1>5. CASE \E t \in Threads, h \in Handles : Read(t, h)
  BY <1>5 DEF Read, Start
<1>6. CASE \E t \in Threads, h \in Handles : Flush(t, h)
  BY <1>6 DEF Flush, Start, FlushVerdict, WriteGate
<1>7. CASE \E t \in Threads, x \in Targets : Getattr(t, x)
  BY <1>7 DEF Getattr, Start, Targets
<1>8. CASE \E t \in Threads, x \in Targets, b \in BOOLEAN : Setattr(t, x, b)
  BY <1>8 DEF Setattr, Start, Targets, WriteGate
<1>9. CASE \E t \in Threads : FetchHit(t)
  <2> PICK t \in Threads : FetchHit(t)
    BY <1>9
  <2> DEFINE i == file[t]
  <2>1. /\ pc[t] = "r.lock" /\ i \in Inodes /\ mu[i] = None
        /\ pc' = [pc EXCEPT ![t] = "r.reply"]
        /\ content[i] # 0 \/ contentErr[i]
        /\ val' = [val EXCEPT ![t] = content[i]]
        /\ err' = [err EXCEPT ![t] = IF contentErr[i] THEN "EIO" ELSE "OK"]
        /\ floor' = [floor EXCEPT ![i] = Larger(@, content[i])]
        /\ UNCHANGED <<srv, file, content, acked, since>>
    BY DEF FetchHit, Goto, Cached, Unlocked
  <2>2. floor'[i] \in Nat /\ floor[i] <= floor'[i]
    BY <2>1 DEF Larger
  <2>3. \A j \in Inodes : InodeInOrder(j)'
    BY <2>1 DEF Larger
  <2>4. RequestInOrder(t)'
    BY <2>1
  <2>5. ASSUME NEW u \in Threads \ {t} PROVE RequestInOrder(u)'
    <3>1. RequestInOrder(u) /\ (pc[u] = "r.got" => file[u] # i)
      BY <2>1
    <3>2. /\ pc'[u] = pc[u] /\ val'[u] = val[u] /\ err'[u] = err[u] /\ since'[u] = since[u]
          /\ file'[u] = file[u] /\ srv' = srv /\ since[u] \in Nat
          /\ file[u] \in Inodes \cup {None} /\ floor \in [Inodes -> Nat]
      BY <2>1
    <3>3. pc[u] = "r.got" => floor'[file[u]] = floor[file[u]]
      BY <3>1, <3>2, <2>1
    <3>4. \A j \in Inodes : floor[j] \in Nat /\ floor'[j] \in Nat /\ floor[j] <= floor'[j]
      BY ONLY <2>1, <2>2, <3>2
    <3>5. pc[u] \in {"r.lock", "r.get", "r.got"} => since[u] <= floor'[file[u]]
      <4> HAVE pc[u] \in {"r.lock", "r.get", "r.got"}
      <4>1. file[u] \in Inodes /\ since[u] <= floor[file[u]]
        BY <3>1
      <4> QED
        BY ONLY <4>1, <3>2, <3>4
    <3> QED
      BY ONLY <3>1, <3>2, <3>3, <3>5 DEF RequestInOrder
  <2> QED
    BY <2>1, <2>3, <2>4, <2>5
<1>10. CASE \E t \in Threads : FetchMiss(t)
  <2> PICK t \in Threads : FetchMiss(t)
    BY <1>10
  <2>1. /\ pc[t] = "r.lock" /\ pc' = [pc EXCEPT ![t] = "r.get"]
        /\ UNCHANGED <<srv, content, file, val, err, floor, acked, since>>
    BY DEF FetchMiss, Goto
  <2>2. RequestInOrder(t)'
    BY <2>1
  <2>3. ASSUME NEW u \in Threads \ {t} PROVE RequestInOrder(u)'
    BY <2>1
  <2> QED
    BY <2>1, <2>2, <2>3
<1>11. CASE \E t \in Threads : FlushInvalidate(t)
  <2> PICK t \in Threads : FlushInvalidate(t)
    BY <1>11
  <2> DEFINE i == file[t]
  <2>1. i \in Inodes /\ mu[i] = None /\ val[t] \in Nat /\ val[t] <= srv
    BY DEF FlushInvalidate, invalidateContent, Unlocked
  <2>2. /\ UNCHANGED <<srv, file, val, err, since>>
        /\ pc' = [pc EXCEPT ![t] = "f.reply"]
        /\ content' = [content EXCEPT ![i] = 0]
        /\ floor' = [floor EXCEPT ![i] = Larger(@, val[t])]
        /\ acked' = Larger(acked, val[t])
    BY DEF FlushInvalidate, invalidateContent, Goto
  <2>3. acked' <= srv' /\ floor'[i] \in Nat /\ floor[i] <= floor'[i] /\ floor'[i] <= srv'
    BY <2>1, <2>2 DEF Larger
  <2>4. \A j \in Inodes : InodeInOrder(j)'
    BY <2>2, <2>3
  <2>5. RequestInOrder(t)'
    BY <2>2
  <2>6. ASSUME NEW u \in Threads \ {t} PROVE RequestInOrder(u)'
    <3>1. RequestInOrder(u) /\ (pc[u] = "r.got" => file[u] # i)
      BY <2>1
    <3>2. /\ pc'[u] = pc[u] /\ val'[u] = val[u] /\ err'[u] = err[u] /\ since'[u] = since[u]
          /\ file'[u] = file[u] /\ srv' = srv /\ since[u] \in Nat
          /\ file[u] \in Inodes \cup {None} /\ floor \in [Inodes -> Nat]
      BY <2>2
    <3>3. pc[u] = "r.got" => floor'[file[u]] = floor[file[u]]
      BY <3>1, <3>2, <2>2
    <3>4. \A j \in Inodes : floor[j] \in Nat /\ floor'[j] \in Nat /\ floor[j] <= floor'[j]
      BY ONLY <2>2, <2>3, <3>2
    <3>5. pc[u] \in {"r.lock", "r.get", "r.got"} => since[u] <= floor'[file[u]]
      <4> HAVE pc[u] \in {"r.lock", "r.get", "r.got"}
      <4>1. file[u] \in Inodes /\ since[u] <= floor[file[u]]
        BY <3>1
      <4> QED
        BY ONLY <4>1, <3>2, <3>4
    <3>6. val[u] \in Nat /\ srv \in Nat
      OBVIOUS
    <3> QED
      BY ONLY <3>1, <3>2, <3>3, <3>5, <3>6 DEF RequestInOrder
  <2> QED
    BY <2>3, <2>4, <2>5, <2>6
<1>12. CASE \E t \in Threads : GetattrSize(t)
  BY <1>12 DEF GetattrSize, Goto
<1>13. CASE \E t \in Threads : SetattrTruncate(t)
  BY <1>13 DEF SetattrTruncate, invalidateContent, Goto, Unlocked
<1>14. CASE \E t \in Threads : GetResource(t)
  BY <1>14 DEF GetResource, Goto
<1>15. CASE \E t \in Threads : UpdateApplied(t)
  <2> PICK t \in Threads : UpdateApplied(t)
    BY <1>15
  <2>1. srv \in Nat /\ srv' = srv + 1 /\ pc[t] = "f.update"
    BY DEF UpdateApplied
  <2>2. \/ /\ pc' = [pc EXCEPT ![t] = "f.inval"]
           /\ val' = [val EXCEPT ![t] = srv + 1]
           /\ err' = err
        \/ /\ pc' = [pc EXCEPT ![t] = "f.reply"]
           /\ val' = val
           /\ err' = [err EXCEPT ![t] = "EIO"]
    BY DEF UpdateApplied, Goto
  <2>3. UNCHANGED <<file, content, floor, acked, since>>
    BY DEF UpdateApplied
  <2>4. acked' <= srv' /\ \A i \in Inodes :
          /\ floor'[i] <= srv'
          /\ content'[i] # 0 => floor'[i] <= content'[i] /\ content'[i] <= srv'
    BY <2>1, <2>3
  <2>5. \A u \in Threads \ {t} : pc'[u] = pc[u] /\ val'[u] = val[u] /\ err'[u] = err[u]
    BY <2>2
  <2>6. pc'[t] \in {"f.inval", "f.reply"} /\ (pc'[t] = "f.inval" => val'[t] = srv')
    BY <2>1, <2>2
  <2>7. RequestInOrder(t)'
    BY <2>1, <2>6
  <2>8. ASSUME NEW u \in Threads \ {t} PROVE RequestInOrder(u)'
    <3>1. RequestInOrder(u) /\ val[u] \in Nat
      OBVIOUS
    <3>2. pc'[u] = pc[u] /\ val'[u] = val[u] /\ err'[u] = err[u]
      BY <2>5
    <3> QED
      BY ONLY <2>1, <2>3, <3>1, <3>2 DEF RequestInOrder
  <2> QED
    BY <2>4, <2>7, <2>8
<1>16. CASE \E t \in Threads : UpdateRefused(t)
  BY <1>16 DEF UpdateRefused, Goto
<1>17. CASE \E t \in Threads : FetchStore(t)
  BY <1>17 DEF FetchStore, Goto, Larger
<1>18. CASE \E t \in Threads : Answer(t)
  BY <1>18 DEF Answer, Goto, Replying
<1>19. CASE ServerChange
  BY <1>19 DEF ServerChange
<1>20. CASE UNCHANGED vars
  BY <1>20 DEF vars
<1> QED
  BY <1>1, <1>2, <1>3, <1>4, <1>5, <1>6, <1>7, <1>8, <1>9, <1>10, <1>11,
         <1>12, <1>13, <1>14, <1>15, <1>16, <1>17, <1>18, <1>19, <1>20 DEF
         Next, Request, LockStep, ServerStep, LocalStep

(* A second fetch in one epoch would need the inode unlocked with nothing   *)
(* cached after the first.                                                  *)
LEMMA TraceStep ==
    ASSUME TypeOK, LockHeldAcrossFetch, VersionsInOrder, FetchLeavesTrace, [Next]_vars
    PROVE  FetchLeavesTrace'
<1> USE DEF TypeOK, LockHeldAcrossFetch, VersionsInOrder, InodeInOrder,
            RequestInOrder, FetchLeavesTrace, Cached, cache, open, request, history
<1>1. CASE \E i \in Inodes : Lookup(i)
  BY <1>1 DEF Lookup
<1>2. CASE \E h \in Handles : Open(h)
  BY <1>2 DEF Open
<1>3. CASE \E h \in Handles : Release(h)
  BY <1>3 DEF Release
<1>4. CASE \E h \in Handles, c \in Writable(srv) : Write(h, c)
  BY <1>4 DEF Write, Writable
<1>5. CASE \E t \in Threads, h \in Handles : Read(t, h)
  BY <1>5 DEF Read, Start
<1>6. CASE \E t \in Threads, h \in Handles : Flush(t, h)
  BY <1>6 DEF Flush, Start, FlushVerdict, WriteGate
<1>7. CASE \E t \in Threads, x \in Targets : Getattr(t, x)
  BY <1>7 DEF Getattr, Start, Targets
<1>8. CASE \E t \in Threads, x \in Targets, b \in BOOLEAN : Setattr(t, x, b)
  BY <1>8 DEF Setattr, Start, Targets, WriteGate
<1>9. CASE \E t \in Threads : FetchHit(t)
  BY <1>9 DEF FetchHit, Goto, Unlocked, Cached, Larger
<1>10. CASE \E t \in Threads : FetchMiss(t)
  BY <1>10 DEF FetchMiss, Goto, Unlocked, Cached
<1>11. CASE \E t \in Threads : FlushInvalidate(t)
  BY <1>11 DEF FlushInvalidate, invalidateContent, Goto, Unlocked, Larger
<1>12. CASE \E t \in Threads : GetattrSize(t)
  BY <1>12 DEF GetattrSize, Goto
<1>13. CASE \E t \in Threads : SetattrTruncate(t)
  BY <1>13 DEF SetattrTruncate, invalidateContent, Goto, Unlocked
<1>14. CASE \E t \in Threads : GetResource(t)
  BY <1>14 DEF GetResource, Goto
<1>15. CASE \E t \in Threads : UpdateApplied(t)
  BY <1>15 DEF UpdateApplied, Goto
<1>16. CASE \E t \in Threads : UpdateRefused(t)
  BY <1>16 DEF UpdateRefused, Goto
<1>17. CASE \E t \in Threads : FetchStore(t)
  <2> PICK t \in Threads : FetchStore(t)
    BY <1>17
  <2>1. file[t] \in Inodes /\ mu[file[t]] = t
    BY DEF FetchStore
  <2>2. val[t] # 0 \/ err[t] # "OK"
    BY <2>1 DEF FetchStore
  <2>3. content'[file[t]] = val[t] /\ contentErr'[file[t]] = (err[t] # "OK")
    BY <2>1 DEF FetchStore
  <2>4. mu'[file[t]] = None
    BY <2>1 DEF FetchStore
  <2>5. \A i \in Inodes \ {file[t]} :
          content'[i] = content[i] /\ contentErr'[i] = contentErr[i] /\ mu'[i] = mu[i]
    BY DEF FetchStore
  <2>6. fetches' = fetches
    BY DEF FetchStore
  <2>7. ASSUME NEW i \in Inodes, i = file[t]
        PROVE  /\ fetches'[i] = 1 /\ mu'[i] = None
               /\ content'[i] # 0 \/ contentErr'[i]
               /\ contentErr'[i] => content'[i] = 0
    <3>1. err[t] # "OK" => val[t] = 0
      BY DEF FetchStore
    <3>2. contentErr'[i] <=> err[t] # "OK"
      BY <2>3, <2>7
    <3> QED
      BY <2>1, <2>2, <2>3, <2>4, <2>6, <2>7, <3>1, <3>2
  <2>8. ASSUME NEW i \in Inodes, i # file[t]
        PROVE  /\ fetches'[i] <= 1
               /\ contentErr'[i] => content'[i] = 0
               /\ fetches'[i] = 1 <=> (content'[i] # 0 \/ contentErr'[i]) \/ mu'[i] # None
               /\ mu'[i] # None => fetches'[i] = 1 /\ ~ (content'[i] # 0 \/ contentErr'[i])
    BY <2>5, <2>6, <2>8
  <2> QED
    BY <2>7, <2>8
<1>18. CASE \E t \in Threads : Answer(t)
  BY <1>18 DEF Answer, Goto, Replying
<1>19. CASE ServerChange
  BY <1>19 DEF ServerChange
<1>20. CASE UNCHANGED vars
  BY <1>20 DEF vars
<1> QED
  BY <1>1, <1>2, <1>3, <1>4, <1>5, <1>6, <1>7, <1>8, <1>9, <1>10, <1>11,
         <1>12, <1>13, <1>14, <1>15, <1>16, <1>17, <1>18, <1>19, <1>20 DEF
         Next, Request, LockStep, ServerStep, LocalStep

-----------------------------------------------------------------------------
(* IInv is an invariant of the specification.                               *)
THEOREM Invariance == Spec => []IInv
<1>1. ASSUME IInv, [Next]_vars PROVE IInv'
  BY <1>1, TypeStep, LockHeldStep, VersionsStep, TraceStep DEF IInv
<1> QED
  BY InitIInv, <1>1, PTL DEF Spec

(* Every variable keeps its type, in every mount and under any load.        *)
THEOREM TypeCorrectness == Spec => []TypeOK
<1>1. IInv => TypeOK
  BY DEF IInv
<1> QED
  BY Invariance, <1>1, PTL

(* A read through an inode shows at least what that inode showed, or had    *)
(* acknowledged to a writer, before the read began (nodes.go:505-527,       *)
(* file.go:121-125, 178-183).                                               *)
THEOREM ReadSafety == Spec => []ReadsNeverGoBack
<1>1. IInv => ReadsNeverGoBack
  BY DEF IInv, VersionsInOrder, RequestInOrder, ReadsNeverGoBack
<1> QED
  BY Invariance, <1>1, PTL

(* However many readers an inode has, one GetResource serves them all until *)
(* the content is invalidated (nodes.go:471-473).                           *)
THEOREM SingleFetch == Spec => []OneFetchPerEpoch
<1>1. IInv => OneFetchPerEpoch
  BY DEF IInv, FetchLeavesTrace, OneFetchPerEpoch
<1> QED
  BY Invariance, <1>1, PTL

(* No content and no error outlives an invalidation of its inode, whichever *)
(* fetches, flushes and truncations are under way (nodes.go:505-527,        *)
(* file.go:178-183).                                                        *)
THEOREM NothingOutlivesInvalidation == Spec => []CachedSinceInvalidated
<1>1. IInv => CachedSinceInvalidated
  BY DEF IInv, FetchLeavesTrace, CachedSinceInvalidated
<1> QED
  BY Invariance, <1>1, PTL

-----------------------------------------------------------------------------
(* Without --sync the gates of Write, Flush and Setattr all refuse.         *)
LEMMA ReadOnlyStep ==
    ASSUME TypeOK, ReadOnlyMountIsInert, [Next]_vars
    PROVE  ReadOnlyMountIsInert'
<1> USE DEF TypeOK, ReadOnlyMountIsInert, open, cache, request, history
<1>1. CASE \E i \in Inodes : Lookup(i)
  BY <1>1 DEF Lookup
<1>2. CASE \E h \in Handles : Open(h) \/ Release(h)
  BY <1>2 DEF Open, Release
<1>3. CASE \E h \in Handles, c \in Writable(srv) : Write(h, c)
  BY <1>3 DEF Write, WriteGate
<1>4. CASE \E t \in Threads, h \in Handles : Flush(t, h)
  BY <1>4 DEF Flush, Start, FlushVerdict, WriteGate
<1>5. CASE \E t \in Threads, h \in Handles : Read(t, h)
  BY <1>5 DEF Read, Start
<1>6. CASE \E t \in Threads, x \in Targets :
             Getattr(t, x) \/ \E sized \in BOOLEAN : Setattr(t, x, sized)
  BY <1>6 DEF Getattr, Setattr, Start, WriteGate
<1>7. CASE \E t \in Threads : LockStep(t)
  BY <1>7 DEF LockStep, FetchHit, FetchMiss, FlushInvalidate, GetattrSize,
              SetattrTruncate, Goto
<1>8. CASE \E t \in Threads : ServerStep(t)
  BY <1>8 DEF ServerStep, GetResource, UpdateApplied, UpdateRefused, Goto
<1>9. CASE \E t \in Threads : LocalStep(t)
  BY <1>9 DEF LocalStep, FetchStore, Answer, Goto
<1>10. CASE ServerChange \/ UNCHANGED vars
  BY <1>10 DEF ServerChange, vars
<1> HIDE DEF TypeOK, ReadOnlyMountIsInert
<1> QED
  BY <1>1, <1>2, <1>3, <1>4, <1>5, <1>6, <1>7, <1>8, <1>9, <1>10 DEF Next, Request

(* A mount without --sync, or in maintenance mode, keeps no written data    *)
(* and never calls UpdateResource (root.go:125, file.go:38-43, 96-101).     *)
THEOREM ReadOnlySafety == Spec => []ReadOnlyMountIsInert
<1>1. Init => ReadOnlyMountIsInert
  BY DEF Init, ReadOnlyMountIsInert
<1>2. TypeOK /\ ReadOnlyMountIsInert /\ [Next]_vars => ReadOnlyMountIsInert'
  BY ReadOnlyStep
<1> QED
  BY <1>1, <1>2, TypeCorrectness, PTL DEF Spec

-----------------------------------------------------------------------------
(* The registers' requests, and how they follow the threads.                *)
Requests == [t \in Threads |-> RegisterRequest(t)]

(* A step that leaves a thread's request alone leaves the register's alone. *)
LEMMA SameRequest ==
    ASSUME NEW t \in Threads,
           pc'[t] = pc[t], file'[t] = file[t], val'[t] = val[t], err'[t] = err[t]
    PROVE  RegisterRequest(t)' = RegisterRequest(t)
  BY DEF RegisterRequest, RegisterOp

(* A step of one thread changes the request of that thread only.            *)
LEMMA OneRequest ==
    ASSUME NEW t \in Threads,
           \A u \in Threads \ {t} :
             pc'[u] = pc[u] /\ file'[u] = file[u] /\ val'[u] = val[u] /\ err'[u] = err[u]
    PROVE  /\ Requests' = [Requests EXCEPT ![t] = RegisterRequest(t)']
           /\ Requests'[t] = RegisterRequest(t)'
           /\ Requests[t] = RegisterRequest(t)
<1>1. \A u \in Threads \ {t} : RegisterRequest(u)' = RegisterRequest(u)
  BY SameRequest
<1> QED
  BY <1>1 DEF Requests

(* If no thread's request changes, neither do the registers'.               *)
LEMMA NoRequest ==
    ASSUME \A u \in Threads : RegisterRequest(u)' = RegisterRequest(u)
    PROVE  Requests' = Requests
  BY DEF Requests

(* The registers start as the inodes do.                                    *)
LEMMA RegisterInit == Init => R!Init
  BY DEF Init, R!Init, R!Idle, RegisterRequest, RegisterOp, ReadingAt

(* Every step of the file is a step of a register, or none.                 *)
LEMMA RegisterStep ==
    ASSUME IInv, IInv', [Next]_vars
    PROVE  [R!Next]_(R!vars)
<1> USE DEF IInv, TypeOK, cache, open, request, history
<1>1. CASE \E i \in Inodes : Lookup(i)
  <2> PICK i \in Inodes : Lookup(i)
    BY <1>1
  <2>1. UNCHANGED <<srv, acked, pc, file, val, err>> /\ floor' = [floor EXCEPT ![i] = acked]
    BY DEF Lookup
  <2>2. Requests' = Requests
    BY <2>1, SameRequest, NoRequest
  <2>3. \A t \in Threads : Requests[t].inode # i
    BY DEF Lookup, Requests, RegisterRequest, RegisterOp, ReadingAt
  <2>4. R!Renew(i)
    BY <2>1, <2>2, <2>3 DEF R!Renew, Requests
  <2> QED
    BY <2>4 DEF R!Next
<1>2. CASE \E h \in Handles : Open(h) \/ Release(h) \/ \E c \in Writable(srv) : Write(h, c)
  <2>1. UNCHANGED <<srv, floor, acked, pc, file, val, err>>
    BY <1>2 DEF Open, Release, Write
  <2>2. Requests' = Requests
    BY <2>1, SameRequest, NoRequest
  <2> QED
    BY <2>1, <2>2 DEF R!vars, Requests
<1>3. CASE ServerChange
  <2>1. UNCHANGED <<floor, acked, pc, file, val, err>> /\ srv' = srv + 1
    BY <1>3 DEF ServerChange
  <2>2. Requests' = Requests
    BY <2>1, SameRequest, NoRequest
  <2> QED
    BY <2>1, <2>2 DEF R!Next, R!Change, Requests
<1>4. CASE UNCHANGED vars
  <2>1. UNCHANGED <<srv, floor, acked, pc, file, val, err>>
    BY <1>4 DEF vars
  <2>2. Requests' = Requests
    BY <2>1, SameRequest, NoRequest
  <2> QED
    BY <2>1, <2>2 DEF R!vars, Requests
<1>5. ASSUME NEW t \in Threads, Request(t) \/ LockStep(t) \/ ServerStep(t) \/ LocalStep(t)
      PROVE  [R!Next]_(R!vars)
  <2> DEFINE r == RegisterRequest(t)
  <2>1. \A u \in Threads \ {t} :
          pc'[u] = pc[u] /\ file'[u] = file[u] /\ val'[u] = val[u] /\ err'[u] = err[u]
    <3>1. CASE Request(t)
      <4>1. CASE \E h \in Handles : Read(t, h)
        BY <4>1 DEF Read, Start
      <4>2. CASE \E h \in Handles : Flush(t, h)
        BY <4>2 DEF Flush, Start
      <4>3. CASE \E x \in Targets : Getattr(t, x)
        BY <4>3 DEF Getattr, Start
      <4>4. CASE \E x \in Targets, sized \in BOOLEAN : Setattr(t, x, sized)
        BY <4>4 DEF Setattr, Start
      <4> QED
        BY <3>1, <4>1, <4>2, <4>3, <4>4 DEF Request
    <3>2. CASE LockStep(t)
      <4>1. CASE FetchHit(t)
        BY <4>1 DEF FetchHit, Goto
      <4>2. CASE FetchMiss(t)
        BY <4>2 DEF FetchMiss, Goto
      <4>3. CASE FlushInvalidate(t)
        BY <4>3 DEF FlushInvalidate, Goto
      <4>4. CASE GetattrSize(t)
        BY <4>4 DEF GetattrSize, Goto
      <4>5. CASE SetattrTruncate(t)
        BY <4>5 DEF SetattrTruncate, Goto
      <4> QED
        BY <3>2, <4>1, <4>2, <4>3, <4>4, <4>5 DEF LockStep
    <3>3. CASE ServerStep(t)
      <4>1. CASE GetResource(t)
        BY <4>1 DEF GetResource, Goto
      <4>2. CASE UpdateApplied(t)
        BY <4>2 DEF UpdateApplied, Goto
      <4>3. CASE UpdateRefused(t)
        BY <4>3 DEF UpdateRefused, Goto
      <4> QED
        BY <3>3, <4>1, <4>2, <4>3 DEF ServerStep
    <3>4. CASE LocalStep(t)
      <4>1. CASE FetchStore(t)
        BY <4>1 DEF FetchStore, Goto
      <4>2. CASE Answer(t)
        BY <4>2 DEF Answer, Goto
      <4> QED
        BY <3>4, <4>1, <4>2 DEF LocalStep
    <3> QED
      BY <1>5, <3>1, <3>2, <3>3, <3>4
  <2>2. /\ Requests' = [Requests EXCEPT ![t] = r']
        /\ Requests'[t] = r'
        /\ Requests[t] = r
    BY <2>1, OneRequest
  <2>3. ASSUME r' = r, UNCHANGED <<srv, floor, acked>>
        PROVE  R!vars' = R!vars
    <3>1. Requests' = Requests
      BY <2>1, <2>3, SameRequest, NoRequest
    <3> QED
      BY <2>3, <3>1 DEF R!vars, Requests
  <2>4. ASSUME UNCHANGED <<srv, floor, acked>>, r.op \in {"read", "write", "shown"}, r' = R!Idle
        PROVE  R!Next
    <3> HIDE DEF r
    <3> QED
      BY <2>2, <2>4 DEF R!Next, R!Return, R!Becomes, Requests
  <2>17. ASSUME UNCHANGED <<srv, floor, acked>>, r = R!Idle,
                NEW i \in Inodes, NEW op \in {"read", "write"}, r' = R!Asked(op, i)
         PROVE  R!Next
    <3> HIDE DEF r
    <3>1. R!Ask(t)
      BY <2>2, <2>17 DEF R!Ask, R!Becomes, Requests
    <3> QED
      BY <3>1 DEF R!Next
  <2>18. ASSUME UNCHANGED <<srv, acked>>, NEW i \in Inodes, r = R!Asked("read", i),
                NEW v \in 1..srv, v >= floor[i], floor' = [floor EXCEPT ![i] = v],
                r' = R!Holds("shown", i, v)
         PROVE  R!Next
    <3> HIDE DEF r
    <3>1. /\ r.op = "read" /\ r.inode = i
      BY <2>18 DEF R!Asked
    <3>2. R!Becomes(t, R!Holds("shown", i, v))
      BY <2>2, <2>18 DEF R!Becomes, Requests
    <3>3. R!Read(t)
      BY <2>2, <2>18, <3>1, <3>2 DEF R!Read, Requests
    <3> QED
      BY <3>3 DEF R!Next
  <2> USE DEF RegisterRequest, RegisterOp, ReadingAt, R!Idle, Goto
  <2>5. CASE \E h \in Handles : Read(t, h)
    <3>1. UNCHANGED <<srv, floor, acked>> /\ r = R!Idle
      BY <2>5 DEF Read, Start
    <3>2. PICK i \in Inodes : r' = R!Asked("read", i)
      BY <2>5 DEF Read, Start, R!Asked
    <3> QED
      BY <2>17, <3>1, <3>2
  <2>6. CASE \E h \in Handles : Flush(t, h)
    <3>1. UNCHANGED <<srv, floor, acked>> /\ r = R!Idle
      BY <2>6 DEF Flush, Start
    <3>2. r' = R!Idle \/ \E i \in Inodes : r' = R!Asked("write", i)
      BY <2>6 DEF Flush, Start, R!Asked
    <3> QED
      BY <2>3, <2>17, <3>1, <3>2
  <2>7. CASE \E x \in Targets : Getattr(t, x) \/ \E sized \in BOOLEAN : Setattr(t, x, sized)
    <3>1. UNCHANGED <<srv, floor, acked>> /\ r = R!Idle
      BY <2>7 DEF Getattr, Setattr, Start
    <3>2. r' = R!Idle
      BY <2>7 DEF Getattr, Setattr, Start
    <3> QED
      BY <2>3, <3>1, <3>2
  <2>8. CASE FetchHit(t)
    <3>1. file[t] \in Inodes /\ r = R!Asked("read", file[t])
      BY <2>8 DEF FetchHit, R!Asked
    <3>2. CASE contentErr[file[t]]
      BY <2>4, <2>8, <3>1, <3>2 DEF FetchHit, FetchLeavesTrace, Larger, R!Asked
    <3>3. CASE ~ contentErr[file[t]]
      <4>1. content[file[t]] \in 1..srv /\ content[file[t]] >= floor[file[t]]
        BY <2>8, <3>1, <3>3 DEF FetchHit, Cached, VersionsInOrder, InodeInOrder
      <4>2. r' = R!Holds("shown", file[t], content[file[t]])
        BY <2>8, <3>1, <3>3 DEF FetchHit, R!Holds
      <4>3. floor' = [floor EXCEPT ![file[t]] = content[file[t]]] /\ UNCHANGED <<srv, acked>>
        <5>4. floor[file[t]] \in Nat /\ content[file[t]] \in Nat
          BY <3>1, <4>1
        <5>1. Larger(floor[file[t]], content[file[t]]) = content[file[t]]
          BY ONLY <4>1, <5>4 DEF Larger
        <5>2. floor' = [floor EXCEPT ![file[t]] = Larger(floor[file[t]], content[file[t]])]
          BY <2>8 DEF FetchHit
        <5>3. UNCHANGED <<srv, acked>>
          BY <2>8 DEF FetchHit
        <5> QED
          BY ONLY <5>1, <5>2, <5>3
      <4> QED
        BY <2>18, <3>1, <4>1, <4>2, <4>3
    <3> QED
      BY <3>2, <3>3
  <2>9. CASE FetchMiss(t)
    BY <2>3, <2>9 DEF FetchMiss
  <2>10. CASE FlushInvalidate(t)
    <3>1. file[t] \in Inodes /\ r = R!Holds("written", file[t], val[t]) /\ r' = R!Idle
      BY <2>10 DEF FlushInvalidate, R!Holds
    <3>2. /\ floor' = [floor EXCEPT ![file[t]] = R!Newer(@, val[t])]
          /\ acked' = R!Newer(acked, val[t])
          /\ srv' = srv
      BY <2>10 DEF FlushInvalidate, Larger, R!Newer
    <3>3. R!Acknowledge(t)
      BY <2>2, <3>1, <3>2 DEF R!Acknowledge, R!Becomes, R!Holds, Requests
    <3> QED
      BY <3>3 DEF R!Next
  <2>11. CASE GetattrSize(t) \/ SetattrTruncate(t)
    BY <2>3, <2>11 DEF GetattrSize, SetattrTruncate
  <2>12. CASE GetResource(t)
    BY <2>3, <2>12 DEF GetResource
  <2>13. CASE UpdateApplied(t)
    <3>1. file[t] \in Inodes /\ r = R!Asked("write", file[t])
      BY <2>13 DEF UpdateApplied, R!Asked
    <3>2. UNCHANGED <<floor, acked>> /\ srv' = srv + 1
      BY <2>13 DEF UpdateApplied
    <3>3. r' = R!Idle \/ r' = R!Holds("written", file[t], srv + 1)
      BY <2>13 DEF UpdateApplied, R!Holds
    <3>4. R!Write(t)
      BY <2>2, <3>1, <3>2, <3>3 DEF R!Write, R!Becomes, R!Asked, Requests
    <3> QED
      BY <3>4 DEF R!Next
  <2>14. CASE UpdateRefused(t)
    BY <2>4, <2>14 DEF UpdateRefused
  <2>15. CASE FetchStore(t)
    <3>1. file[t] \in Inodes /\ r = R!Asked("read", file[t])
      BY <2>15 DEF FetchStore, R!Asked
    <3>2. CASE err[t] # "OK"
      BY <2>4, <2>15, <3>1, <3>2 DEF FetchStore, VersionsInOrder, RequestInOrder, Larger, R!Asked
    <3>3. CASE err[t] = "OK"
      <4>1. val[t] \in 1..srv /\ val[t] >= floor[file[t]]
        BY <2>15, <3>1, <3>3 DEF FetchStore, VersionsInOrder, RequestInOrder
      <4>2. r' = R!Holds("shown", file[t], val[t])
        BY <2>15, <3>1, <3>3 DEF FetchStore, R!Holds
      <4>3. floor' = [floor EXCEPT ![file[t]] = val[t]] /\ UNCHANGED <<srv, acked>>
        <5>4. floor[file[t]] \in Nat /\ val[t] \in Nat
          BY <3>1, <4>1
        <5>1. Larger(floor[file[t]], val[t]) = val[t]
          BY ONLY <4>1, <5>4 DEF Larger
        <5>2. floor' = [floor EXCEPT ![file[t]] = Larger(floor[file[t]], val[t])]
          BY <2>15 DEF FetchStore
        <5>3. UNCHANGED <<srv, acked>>
          BY <2>15 DEF FetchStore
        <5> QED
          BY ONLY <5>1, <5>2, <5>3
      <4> QED
        BY <2>18, <3>1, <4>1, <4>2, <4>3
    <3> QED
      BY <3>2, <3>3
  <2>16. CASE Answer(t)
    <3>1. UNCHANGED <<srv, floor, acked>> /\ r' = R!Idle
      BY <2>16 DEF Answer
    <3>2. r = R!Idle \/ r.op = "shown"
      BY <2>16 DEF Answer, Replying
    <3> QED
      BY <2>3, <2>4, <3>1, <3>2
  <2> QED
    BY <1>5, <2>5, <2>6, <2>7, <2>8, <2>9, <2>10, <2>11, <2>12, <2>13, <2>14, <2>15, <2>16
       DEF Request, LockStep, ServerStep, LocalStep
<1> QED
  BY <1>1, <1>2, <1>3, <1>4, <1>5 DEF Next

(* Each inode of the mount is a register whose reads are atomic and never   *)
(* go back, and hold every write it has answered with success               *)
(* (nodes.go:505-527, file.go:95-128).                                      *)
THEOREM Refinement == Spec => ImplementsRegister
<1>1. IInv /\ IInv' /\ [Next]_vars => [R!Next]_(R!vars)
  BY RegisterStep
<1> QED
  BY RegisterInit, <1>1, Invariance, PTL DEF Spec, R!Spec, ImplementsRegister

-----------------------------------------------------------------------------
(* The safe part of Answered: a request has few steps before its answer,    *)
(* and the only thing it can wait for is a fetch that waits for nobody.     *)
StepsLeft(t) ==
    CASE pc[t] = "r.lock" -> 4
      [] pc[t] \in {"r.get", "f.update"} -> 3
      [] pc[t] \in {"r.got", "f.inval", "g.lock", "s.lock"} -> 2
      [] pc[t] \in Replying -> 1
      [] pc[t] = "idle" -> 0

Serves(t) == LockStep(t) \/ ServerStep(t) \/ LocalStep(t)

(* Every step of a request brings it nearer to its answer.                  *)
LEMMA ServesLess ==
    ASSUME TypeOK, NEW t \in Threads, Serves(t)
    PROVE  /\ StepsLeft(t)' < StepsLeft(t)
           /\ \A u \in Threads \ {t} : pc'[u] = pc[u]
<1> USE DEF TypeOK, StepsLeft, Replying, Goto
<1>1. CASE FetchHit(t)
  BY <1>1 DEF FetchHit
<1>2. CASE FetchMiss(t)
  BY <1>2 DEF FetchMiss
<1>3. CASE FlushInvalidate(t)
  BY <1>3 DEF FlushInvalidate
<1>4. CASE GetattrSize(t)
  BY <1>4 DEF GetattrSize
<1>5. CASE SetattrTruncate(t)
  BY <1>5 DEF SetattrTruncate
<1>6. CASE GetResource(t)
  BY <1>6 DEF GetResource
<1>7. CASE UpdateApplied(t)
  BY <1>7 DEF UpdateApplied
<1>8. CASE UpdateRefused(t)
  BY <1>8 DEF UpdateRefused
<1>9. CASE FetchStore(t)
  BY <1>9 DEF FetchStore
<1>10. CASE Answer(t)
  BY <1>10 DEF Answer
<1> HIDE DEF StepsLeft
<1> QED
  BY <1>1, <1>2, <1>3, <1>4, <1>5, <1>6, <1>7, <1>8, <1>9, <1>10
     DEF Serves, LockStep, ServerStep, LocalStep

(* A new request is taken by one idle thread.                               *)
LEMMA RequestTaken ==
    ASSUME TypeOK, NEW t \in Threads, Request(t)
    PROVE  \A u \in Threads \ {t} : pc'[u] = pc[u]
<1>1. \A where, i, h : Start(t, where, i, h) => \A u \in Threads \ {t} : pc'[u] = pc[u]
  BY DEF TypeOK, Start
<1>2. \E where, i, h : Start(t, where, i, h)
  BY DEF Request, Read, Flush, Getattr, Setattr
<1> QED
  BY <1>1, <1>2

(* A request is answered after at most four of its own steps: each of them  *)
(* brings it nearer, and no step of another one, of the kernel or of the    *)
(* server takes it back (nodes.go:505-527, file.go:95-128).                 *)
THEOREM RequestAdvances ==
    Spec => [][\A t \in Threads :
                  \/ Request(t)
                  \/ Serves(t) /\ StepsLeft(t)' < StepsLeft(t)
                  \/ pc'[t] = pc[t]]_vars
<1> DEFINE Advances(t) ==
      \/ Request(t)
      \/ Serves(t) /\ StepsLeft(t)' < StepsLeft(t)
      \/ pc'[t] = pc[t]
<1>1. ASSUME TypeOK, Next, NEW t \in Threads PROVE Advances(t)
  <2>1. CASE \E u \in Threads : Request(u)
    <3>1. PICK u \in Threads : Request(u)
      BY <2>1
    <3>2. t = u \/ pc'[t] = pc[t]
      BY <1>1, <3>1, RequestTaken
    <3> QED
      BY <3>1, <3>2
  <2>2. CASE \E u \in Threads : Serves(u)
    <3>1. PICK u \in Threads : Serves(u)
      BY <2>2
    <3>2. CASE u = t
      BY <1>1, <3>1, <3>2, ServesLess
    <3>3. CASE u # t
      BY <1>1, <3>1, <3>3, ServesLess
    <3> QED
      BY <3>2, <3>3
  <2>3. CASE \/ \E i \in Inodes : Lookup(i)
             \/ \E h \in Handles : Open(h) \/ Release(h)
             \/ \E h \in Handles : \E c \in Writable(srv) : Write(h, c)
             \/ ServerChange
    <3>1. pc' = pc
      BY <2>3 DEF Lookup, Open, Release, Write, ServerChange, request
    <3> QED
      BY <3>1
  <2> HIDE DEF Advances
  <2> QED
    BY <1>1, <2>1, <2>2, <2>3 DEF Next, Serves
<1>2. TypeOK /\ [Next]_vars => [\A t \in Threads : Advances(t)]_vars
  BY <1>1
<1> QED
  BY <1>2, TypeCorrectness, PTL DEF Spec

(* A request is at contentMu.Lock, and another holds the lock.              *)
WaitsForLock(t) == pc[t] \in {"r.lock", "f.inval", "g.lock", "s.lock"} /\ ~ Unlocked(file[t])

(* A request that waits for contentMu waits for one other goroutine, which  *)
(* is between its miss and its store and waits for no lock: no two requests *)
(* can wait for each other (nodes.go:506, 430, 460, file.go:179).           *)
THEOREM NoCircularWait ==
    Spec => [](\A t \in Threads : WaitsForLock(t) =>
                 \E u \in Threads \ {t} :
                   /\ mu[file[t]] = u /\ file[u] = file[t]
                   /\ pc[u] \in {"r.get", "r.got"} /\ ~ WaitsForLock(u)
                   /\ \A v \in Threads \ {u} :
                        ~ (pc[v] \in {"r.get", "r.got"} /\ file[v] = file[t]))
<1>1. ASSUME IInv, NEW t \in Threads, WaitsForLock(t)
      PROVE  \E u \in Threads \ {t} :
                   /\ mu[file[t]] = u /\ file[u] = file[t]
                   /\ pc[u] \in {"r.get", "r.got"} /\ ~ WaitsForLock(u)
                   /\ \A v \in Threads \ {u} :
                        ~ (pc[v] \in {"r.get", "r.got"} /\ file[v] = file[t])
  <2>1. file[t] \in Inodes /\ mu[file[t]] \in Threads
    BY <1>1 DEF IInv, TypeOK, WaitsForLock, Unlocked
  <2>2. \A v \in Threads : mu[file[t]] = v <=> pc[v] \in {"r.get", "r.got"} /\ file[v] = file[t]
    BY <1>1, <2>1 DEF IInv, LockHeldAcrossFetch
  <2>3. pc[t] \notin {"r.get", "r.got"}
    BY <1>1 DEF WaitsForLock
  <2>4. PICK u \in Threads : mu[file[t]] = u
    BY <2>1
  <2>5. pc[u] \in {"r.get", "r.got"} /\ file[u] = file[t] /\ u # t
    BY <2>2, <2>3, <2>4
  <2>6. ~ WaitsForLock(u)
    BY <2>5 DEF WaitsForLock
  <2> QED
    BY <2>2, <2>4, <2>5, <2>6
<1>2. IInv => \A t \in Threads : WaitsForLock(t) =>
                 \E u \in Threads \ {t} :
                   /\ mu[file[t]] = u /\ file[u] = file[t]
                   /\ pc[u] \in {"r.get", "r.got"} /\ ~ WaitsForLock(u)
                   /\ \A v \in Threads \ {u} :
                        ~ (pc[v] \in {"r.get", "r.got"} /\ file[v] = file[t])
  BY <1>1
<1> QED
  BY <1>2, Invariance, PTL

(* The two fields that contentMu guards.                                    *)
Caches(i) == <<content[i], contentErr[i]>>

(* What an inode caches changes while contentMu is free, or when the        *)
(* goroutine that holds it stores its fetch: no invalidation, and no reuse  *)
(* of an inode's place, falls between a miss and its store.                 *)
THEOREM LockProtectsContent ==
    Spec => [][\A i \in Inodes : Caches(i)' # Caches(i) =>
                 \/ Unlocked(i) /\ Unlocked(i)'
                 \/ \E t \in Threads : mu[i] = t /\ file[t] = i /\ FetchStore(t) /\ Unlocked(i)']_vars
<1> DEFINE Protected(i) == Caches(i)' # Caches(i) =>
                 \/ Unlocked(i) /\ Unlocked(i)'
                 \/ \E t \in Threads : mu[i] = t /\ file[t] = i /\ FetchStore(t) /\ Unlocked(i)'
<1>1. ASSUME IInv, Next, NEW i \in Inodes PROVE Protected(i)
  <2> USE DEF Caches, Unlocked
  <2>1. CASE \E j \in Inodes : Lookup(j)
    <3> PICK j \in Inodes : Lookup(j)
      BY <2>1
    <3>1. mu' = mu /\ mu[i] \in Threads \cup {None} /\ content \in [Inodes -> Nat]
          /\ contentErr \in [Inodes -> BOOLEAN]
      BY <1>1 DEF Lookup, IInv, TypeOK
    <3>2. \A t \in Threads : file[t] # j
      BY DEF Lookup
    <3>3. mu[j] \notin Threads
      BY <1>1, <3>2 DEF IInv, LockHeldAcrossFetch
    <3>4. i # j => content'[i] = content[i] /\ contentErr'[i] = contentErr[i]
      BY <3>1 DEF Lookup
    <3> QED
      BY <3>1, <3>3, <3>4
  <2>2. CASE \E t \in Threads : FetchStore(t)
    <3> PICK t \in Threads : FetchStore(t)
      BY <2>2
    <3>1. file[t] \in Inodes /\ mu[file[t]] = t
      BY <1>1 DEF IInv, TypeOK, LockHeldAcrossFetch, FetchStore
    <3>2. i # file[t] => content'[i] = content[i] /\ contentErr'[i] = contentErr[i]
      BY <1>1, <3>1 DEF FetchStore, IInv, TypeOK
    <3>3. mu'[file[t]] = None
      BY <1>1, <3>1 DEF FetchStore, IInv, TypeOK
    <3> QED
      BY <3>1, <3>2, <3>3
  <2>3. CASE \E t \in Threads : FlushInvalidate(t) \/ SetattrTruncate(t)
    <3> PICK t \in Threads : FlushInvalidate(t) \/ SetattrTruncate(t)
      BY <2>3
    <3>1. invalidateContent(file[t])
      BY DEF FlushInvalidate, SetattrTruncate
    <3> QED
      BY <1>1, <3>1 DEF invalidateContent, IInv, TypeOK
  <2>4. CASE content' = content /\ contentErr' = contentErr
    BY <2>4
  <2> HIDE DEF Protected
  <2>5. ASSUME NEW t \in Threads, Request(t) \/ LockStep(t) \/ ServerStep(t) \/ LocalStep(t)
        PROVE  Protected(i)
    <3>1. CASE Request(t)
      BY <2>4, <3>1 DEF Request, Read, Flush, Getattr, Setattr, cache
    <3>2. CASE LockStep(t)
      BY <2>3, <2>4, <3>2 DEF LockStep, FetchHit, FetchMiss, GetattrSize, cache
    <3>3. CASE ServerStep(t)
      BY <2>4, <3>3 DEF ServerStep, GetResource, UpdateApplied, UpdateRefused, cache
    <3>4. CASE LocalStep(t)
      BY <2>2, <2>4, <3>4 DEF LocalStep, Answer, cache
    <3> QED
      BY <2>5, <3>1, <3>2, <3>3, <3>4
  <2>6. CASE \/ \E h \in Handles : Open(h) \/ Release(h)
             \/ \E h \in Handles : \E c \in Writable(srv) : Write(h, c)
             \/ ServerChange
    BY <2>4, <2>6 DEF Open, Release, Write, ServerChange, cache
  <2> QED
    BY <1>1, <2>1, <2>5, <2>6 DEF Next
<1>2. IInv /\ [Next]_vars => [\A i \in Inodes : Protected(i)]_vars
  BY <1>1
<1> QED
  BY <1>2, Invariance, PTL DEF Spec
=============================================================================
