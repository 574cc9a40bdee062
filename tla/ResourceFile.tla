----------------------------- MODULE ResourceFile -----------------------------
(***************************************************************************)
(* One resource of one node, seen through the mount: the resourceFile      *)
(* inodes the kernel holds for its path (internal/fs/nodes.go), the        *)
(* fileHandles open on them (internal/fs/file.go), and the COSI server     *)
(* behind ResourceRepository, which is not part of this repository.        *)
(*                                                                         *)
(* go-fuse serves every kernel request on a goroutine of its own, so the   *)
(* requests of Threads interleave at each lock and at each call of the     *)
(* repository.  A content is the version of the resource it was formatted  *)
(* from; 0 is Go's nil.                                                    *)
(***************************************************************************)
EXTENDS Integers, Sequences, FiniteSetsExt

CONSTANTS
    Threads,      \* goroutines serving FUSE requests
    Inodes,       \* resourceFile values the kernel may hold for the path
    Handles,      \* open file descriptions
    Mounts,       \* the fs.Options the program may have been started with
    MaxVersion,   \* bound: versions the resource goes through
    Parts,        \* bound: the kinds of data processes write
    MaxBuf,       \* bound: write(2) calls buffered in one handle
    None          \* no inode, no handle, no lock holder

(* What RunE can put in fs.Options: Writeable is syncFlag && !maintenance,  *)
(* and the format flag has been checked.                                    *)
MountOptions ==
    { o \in [Writeable : BOOLEAN, Maintenance : BOOLEAN, Format : {"yaml", "json"}] :
        ~ (o.Writeable /\ o.Maintenance) }

ASSUME ConstantsAssumption ==
    /\ Mounts \subseteq MountOptions
    /\ MaxVersion \in Nat \ {0}
    /\ MaxBuf \in Nat
    /\ Parts \subseteq {"head", "alien", "rest", "junk"}
    /\ None \notin Threads \cup Inodes \cup Handles

VARIABLES
    opts,         \* fs.Options of the mount; never changes
    srv,          \* current version of the resource on the server
    entry,        \* the inode the kernel's dentry of the path points to
    content,      \* resourceFile.content, per inode
    contentErr,   \* resourceFile.contentErr # nil, per inode
    mu,           \* holder of resourceFile.contentMu, per inode
    hfile,        \* fileHandle.file, per handle; None: not open
    buf,          \* fileHandle.buf, per handle
    pc, file, hnd, val, err, snap,   \* the request each thread serves
    floor, acked, fetches, since     \* history, read by properties only

server == <<srv>>
cache == <<content, contentErr, mu>>
open == <<hfile, buf>>
request == <<pc, file, hnd, val, err, snap>>
history == <<floor, acked, fetches, since>>
vars == <<opts, srv, entry, cache, open, request, history>>

-----------------------------------------------------------------------------
(* What a process writes.  A resource document is a head (the metadata,     *)
(* with the version it was read at, and the start of the spec) and the rest *)
(* of its spec; a write may carry either, or the head of another resource,  *)
(* or bytes that parse as none of these.                                    *)
Chunk == [part : {"head", "alien", "rest", "junk"}, base : 0..MaxVersion]
Writable(v) ==
    { c \in Chunk : c.part \in Parts /\ IF c.part = "head" THEN c.base \in 1..v ELSE c.base = 0 }

Heads(b) == { n \in DOMAIN b : b[n].part \in {"head", "alien"} }
LastHead(b) == b[Max(Heads(b))]

(* ParseResource.  YAML text is accepted at any cut between its lines, and  *)
(* of several metadata blocks the last wins; JSON must be complete.         *)
Parses(b) ==
    /\ b # <<>>
    /\ b[1].part \in {"head", "alien"}
    /\ \A n \in DOMAIN b : b[n].part # "junk"
    /\ opts.Format = "json" => Len(b) = 2 /\ b[2].part = "rest"

(* Seeded bugs: only maintenance mode is refused; the plan's errno is used. *)
GateForgetsSync == IF opts.Maintenance THEN "EROFS" ELSE "OK"
GateSaysEPERM ==
    IF opts.Maintenance THEN "EROFS" ELSE IF ~ opts.Writeable THEN "EPERM" ELSE "OK"

(* The checks that open Write, Setattr and Flush, in the code's order.      *)
WriteGate ==
    IF opts.Maintenance THEN "EROFS"
    ELSE IF ~ opts.Writeable THEN "EACCES" ELSE "OK"

(* How Flush judges a buffer before it calls the repository.  A parse error *)
(* carries no gRPC status, so mapFlushError makes it EIO.                   *)
FlushVerdict(b) ==
    IF WriteGate # "OK" THEN WriteGate
    ELSE IF ~ Parses(b) THEN "EIO"
    ELSE IF LastHead(b).part = "alien" THEN "EINVAL" ELSE "OK"

-----------------------------------------------------------------------------
Init ==
    /\ opts \in Mounts
    /\ srv = 1
    /\ entry \in Inodes
    /\ content = [i \in Inodes |-> 0]
    /\ contentErr = [i \in Inodes |-> FALSE]
    /\ mu = [i \in Inodes |-> None]
    /\ hfile = [h \in Handles |-> None]
    /\ buf = [h \in Handles |-> <<>>]
    /\ pc = [t \in Threads |-> "idle"]
    /\ file = [t \in Threads |-> None]
    /\ hnd = [t \in Threads |-> None]
    /\ val = [t \in Threads |-> 0]
    /\ err = [t \in Threads |-> "OK"]
    /\ snap = [t \in Threads |-> <<>>]
    /\ floor = [i \in Inodes |-> 0]
    /\ acked = 0
    /\ fetches = [i \in Inodes |-> 0]
    /\ since = [t \in Threads |-> 0]

(* contentMu is a sync.Mutex: free, or held by one goroutine.               *)
Unlocked(i) == mu[i] = None

(* A seeded bug: a failed fetch does not count as fetched.                  *)
CachedSuccess(i) == content[i] # 0

Cached(i) == content[i] # 0 \/ contentErr[i]

Larger(a, b) == IF a >= b THEN a ELSE b

(* A thread takes a request on inode i, through handle h unless it is None. *)
Start(t, where, i, h) ==
    /\ pc[t] = "idle"
    /\ pc' = [pc EXCEPT ![t] = where]
    /\ file' = [file EXCEPT ![t] = i]
    /\ hnd' = [hnd EXCEPT ![t] = h]

Goto(t, where) == pc' = [pc EXCEPT ![t] = where]

(* The inodes a request without or with a handle is sent for.               *)
Targets == { <<entry, None>> } \cup
           { <<hfile[h], h>> : h \in { x \in Handles : hfile[x] # None } }

(* A seeded bug: the fields are cleared without taking contentMu.           *)
invalidateUnlocked(i) ==
    /\ content' = [content EXCEPT ![i] = 0]
    /\ contentErr' = [contentErr EXCEPT ![i] = FALSE]
    /\ fetches' = [fetches EXCEPT ![i] = 0]
    /\ UNCHANGED mu

(* A seeded bug: only the content is cleared.                               *)
invalidateKeepsError(i) ==
    /\ Unlocked(i)
    /\ content' = [content EXCEPT ![i] = 0]
    /\ fetches' = [fetches EXCEPT ![i] = 0]
    /\ UNCHANGED <<contentErr, mu>>

(* invalidateContent, which takes contentMu for its two assignments.        *)
invalidateContent(i) ==
    /\ Unlocked(i)
    /\ content' = [content EXCEPT ![i] = 0]
    /\ contentErr' = [contentErr EXCEPT ![i] = FALSE]
    /\ fetches' = [fetches EXCEPT ![i] = 0]
    /\ UNCHANGED mu

-----------------------------------------------------------------------------
(* resourceTypeDir.Lookup, sent when the dentry has expired: every Lookup   *)
(* makes a new resourceFile, with empty fields and a fresh inode number.    *)
(* Its place is taken from an inode nothing refers to any more.             *)
Lookup(i) ==
    /\ i # entry
    /\ \A h \in Handles : hfile[h] # i
    /\ \A t \in Threads : file[t] # i
    /\ entry' = i
    /\ content' = [content EXCEPT ![i] = 0]
    /\ contentErr' = [contentErr EXCEPT ![i] = FALSE]
    /\ floor' = [floor EXCEPT ![i] = acked]
    /\ fetches' = [fetches EXCEPT ![i] = 0]
    /\ UNCHANGED <<opts, srv, mu, open, request, acked, since>>

(* resourceFile.Open: a new fileHandle with an empty buffer, nothing else.  *)
Open(h) ==
    /\ hfile[h] = None
    /\ hfile' = [hfile EXCEPT ![h] = entry]
    /\ UNCHANGED <<opts, srv, entry, cache, buf, request, history>>

(* The kernel drops the handle; no method of fileHandle is called for it.   *)
Release(h) ==
    /\ hfile[h] # None
    /\ \A t \in Threads : hnd[t] # h
    /\ hfile' = [hfile EXCEPT ![h] = None]
    /\ buf' = [buf EXCEPT ![h] = <<>>]
    /\ UNCHANGED <<opts, srv, entry, cache, request, history>>

(* fileHandle.Write: the data goes to the end of the buffer whatever its    *)
(* offset.  A write the gate refuses changes nothing.                       *)
Write(h, c) ==
    /\ hfile[h] # None
    /\ WriteGate = "OK"
    /\ Len(buf[h]) < MaxBuf
    /\ buf' = [buf EXCEPT ![h] = Append(@, c)]
    /\ UNCHANGED <<opts, srv, entry, cache, hfile, request, history>>

-----------------------------------------------------------------------------
(* resourceFile.Read and fetch.  fetch holds contentMu from its test of the *)
(* cached fields to its return, across GetResource.                         *)
Read(t, h) ==
    /\ hfile[h] # None
    /\ Start(t, "r.lock", hfile[h], h)
    /\ since' = [since EXCEPT ![t] = floor[hfile[h]]]
    /\ UNCHANGED <<opts, srv, entry, cache, open, val, err, snap, floor, acked, fetches>>

FetchHit(t) ==
    LET i == file[t] IN
    /\ pc[t] = "r.lock"
    /\ Unlocked(i)
    /\ Cached(i)
    /\ Goto(t, "r.reply")
    /\ val' = [val EXCEPT ![t] = content[i]]
    /\ err' = [err EXCEPT ![t] = IF contentErr[i] THEN "EIO" ELSE "OK"]
    /\ floor' = [floor EXCEPT ![i] = Larger(@, content[i])]
    /\ UNCHANGED <<opts, srv, entry, cache, open, file, hnd, snap, acked, fetches, since>>

FetchMiss(t) ==
    LET i == file[t] IN
    /\ pc[t] = "r.lock"
    /\ Unlocked(i)
    /\ ~ Cached(i)
    /\ mu' = [mu EXCEPT ![i] = t]
    /\ Goto(t, "r.get")
    /\ fetches' = [fetches EXCEPT ![i] = @ + 1]
    /\ UNCHANGED <<opts, srv, entry, content, contentErr, open, file, hnd, val, err,
                   snap, floor, acked, since>>

(* GetResource at the server: the current version, or an error - of the     *)
(* server, of the connection, or of the interrupted request's context.      *)
(* EIO stands for every errno that grpcErrno makes of such an error.        *)
GetResource(t) ==
    /\ pc[t] = "r.get"
    /\ Goto(t, "r.got")
    /\ \/ /\ val' = [val EXCEPT ![t] = srv]
          /\ UNCHANGED err
       \/ /\ err' = [err EXCEPT ![t] = "EIO"]
          /\ UNCHANGED val
    /\ UNCHANGED <<opts, srv, entry, cache, open, file, hnd, snap, history>>

(* A seeded bug: the error return leaves contentMu locked.                  *)
FetchStoreKeepsLock(t) ==
    LET i == file[t] IN
    /\ pc[t] = "r.got"
    /\ Goto(t, "r.reply")
    /\ content' = [content EXCEPT ![i] = val[t]]
    /\ contentErr' = [contentErr EXCEPT ![i] = err[t] # "OK"]
    /\ mu' = [mu EXCEPT ![i] = IF err[t] = "OK" THEN None ELSE @]
    /\ floor' = [floor EXCEPT ![i] = Larger(@, val[t])]
    /\ UNCHANGED <<opts, srv, entry, open, file, hnd, val, err, snap, acked, fetches, since>>

(* The result, error included, is kept in the inode; contentMu is released. *)
FetchStore(t) ==
    LET i == file[t] IN
    /\ pc[t] = "r.got"
    /\ Goto(t, "r.reply")
    /\ content' = [content EXCEPT ![i] = val[t]]
    /\ contentErr' = [contentErr EXCEPT ![i] = err[t] # "OK"]
    /\ mu' = [mu EXCEPT ![i] = None]
    /\ floor' = [floor EXCEPT ![i] = Larger(@, val[t])]
    /\ UNCHANGED <<opts, srv, entry, open, file, hnd, val, err, snap, acked, fetches, since>>

-----------------------------------------------------------------------------
(* fileHandle.Flush, which the kernel sends at every close(2) of a          *)
(* descriptor of the handle.  The buffer is copied under its lock and kept. *)
Flush(t, h) ==
    LET verdict == FlushVerdict(buf[h]) IN
    /\ hfile[h] # None
    /\ Start(t, IF verdict = "OK" THEN "f.update" ELSE "f.reply", hfile[h], h)
    /\ err' = [err EXCEPT ![t] = verdict]
    /\ snap' = [snap EXCEPT ![t] = buf[h]]
    /\ UNCHANGED <<opts, srv, entry, cache, open, val, history>>

(* UpdateResource at the server: state.Update accepts a resource that names *)
(* the version it replaces.  The reply may be lost after that.              *)
UpdateApplied(t) ==
    /\ pc[t] = "f.update"
    /\ LastHead(snap[t]).base = srv
    /\ srv < MaxVersion
    /\ srv' = srv + 1
    /\ \/ /\ Goto(t, "f.inval")
          /\ val' = [val EXCEPT ![t] = srv + 1]
          /\ UNCHANGED err
       \/ /\ Goto(t, "f.reply")
          /\ err' = [err EXCEPT ![t] = "EIO"]
          /\ UNCHANGED val
    /\ UNCHANGED <<opts, entry, cache, open, file, hnd, snap, history>>

(* A version conflict, which is mapped to EINVAL, or any other error.       *)
UpdateRefused(t) ==
    /\ pc[t] = "f.update"
    /\ Goto(t, "f.reply")
    /\ \/ LastHead(snap[t]).base # srv /\ err' = [err EXCEPT ![t] = "EINVAL"]
       \/ err' = [err EXCEPT ![t] = "EIO"]
    /\ UNCHANGED <<opts, srv, entry, cache, open, file, hnd, val, snap, history>>

FlushInvalidate(t) ==
    LET i == file[t] IN
    /\ pc[t] = "f.inval"
    /\ invalidateContent(i)
    /\ Goto(t, "f.reply")
    /\ floor' = [floor EXCEPT ![i] = Larger(@, val[t])]
    /\ acked' = Larger(acked, val[t])
    /\ UNCHANGED <<opts, srv, entry, open, file, hnd, val, err, snap, since>>

-----------------------------------------------------------------------------
(* resourceFile.Getattr reports the length of the cached content.           *)
Getattr(t, target) ==
    /\ Start(t, "g.lock", target[1], target[2])
    /\ UNCHANGED <<opts, srv, entry, cache, open, val, err, snap, history>>

GetattrSize(t) ==
    /\ pc[t] = "g.lock"
    /\ Unlocked(file[t])
    /\ Goto(t, "g.reply")
    /\ val' = [val EXCEPT ![t] = content[file[t]]]
    /\ UNCHANGED <<opts, srv, entry, cache, open, file, hnd, err, snap, history>>

(* resourceFile.Setattr, which go-fuse prefers to the Setattr of the handle *)
(* even for ftruncate(2).  sized: the request carries FATTR_SIZE; its size, *)
(* which the code only echoes, is taken to be 0.                            *)
Setattr(t, target, sized) ==
    /\ Start(t, IF WriteGate = "OK" /\ sized THEN "s.lock" ELSE "s.reply",
             target[1], target[2])
    /\ err' = [err EXCEPT ![t] = WriteGate]
    /\ UNCHANGED <<opts, srv, entry, cache, open, val, snap, history>>

SetattrTruncate(t) ==
    /\ pc[t] = "s.lock"
    /\ invalidateContent(file[t])
    /\ Goto(t, "s.reply")
    /\ UNCHANGED <<opts, srv, entry, open, file, hnd, val, err, snap, floor, acked, since>>

-----------------------------------------------------------------------------
Replying == {"r.reply", "f.reply", "g.reply", "s.reply"}

(* go-fuse sends the reply and the goroutine ends.                          *)
Answer(t) ==
    /\ pc[t] \in Replying
    /\ Goto(t, "idle")
    /\ file' = [file EXCEPT ![t] = None]
    /\ hnd' = [hnd EXCEPT ![t] = None]
    /\ val' = [val EXCEPT ![t] = 0]
    /\ err' = [err EXCEPT ![t] = "OK"]
    /\ snap' = [snap EXCEPT ![t] = <<>>]
    /\ since' = [since EXCEPT ![t] = 0]
    /\ UNCHANGED <<opts, srv, entry, cache, open, floor, acked, fetches>>

(* The node itself, or another client, changes the resource.                *)
ServerChange ==
    /\ srv < MaxVersion
    /\ srv' = srv + 1
    /\ UNCHANGED <<opts, entry, cache, open, request, history>>

(* The steps of a request that has to find contentMu free, those in which   *)
(* the server acts, and the others.                                         *)
LockStep(t) ==
    FetchHit(t) \/ FetchMiss(t) \/ FlushInvalidate(t) \/ GetattrSize(t) \/ SetattrTruncate(t)
ServerStep(t) == GetResource(t) \/ UpdateApplied(t) \/ UpdateRefused(t)
LocalStep(t) == FetchStore(t) \/ Answer(t)

Request(t) ==
    \/ \E h \in Handles : Read(t, h) \/ Flush(t, h)
    \/ \E x \in Targets : Getattr(t, x) \/ \E sized \in BOOLEAN : Setattr(t, x, sized)

Next ==
    \/ \E i \in Inodes : Lookup(i)
    \/ \E h \in Handles : Open(h) \/ Release(h)
    \/ \E h \in Handles : \E c \in Writable(srv) : Write(h, c)
    \/ \E t \in Threads : Request(t) \/ LockStep(t) \/ ServerStep(t) \/ LocalStep(t)
    \/ ServerChange

Spec == Init /\ [][Next]_vars

(* Goroutines that can run do run, and Go's mutex hands itself to a waiter  *)
(* that has starved, so a lock that keeps becoming free is obtained.        *)
LocalFairness == \A t \in Threads : WF_vars(LocalStep(t)) /\ SF_vars(LockStep(t))

(* Calls of the repository return.  The code sets no deadline: this is what *)
(* it expects of the server, the connection and the user's patience.        *)
ServerFairness == \A t \in Threads : WF_vars(ServerStep(t))

FairSpec == Spec /\ LocalFairness /\ ServerFairness
-----------------------------------------------------------------------------
Points == {"idle", "r.lock", "r.get", "r.got", "f.update", "f.inval",
           "g.lock", "s.lock"} \cup Replying
Errnos == {"OK", "EROFS", "EACCES", "EIO", "EINVAL"}

(* Every variable has the type its Go counterpart has, and a request that   *)
(* is being served is on an inode.                                          *)
TypeOK ==
    /\ opts \in Mounts
    /\ srv \in 1..MaxVersion
    /\ entry \in Inodes
    /\ content \in [Inodes -> Nat]
    /\ contentErr \in [Inodes -> BOOLEAN]
    /\ mu \in [Inodes -> Threads \cup {None}]
    /\ hfile \in [Handles -> Inodes \cup {None}]
    /\ buf \in [Handles -> Seq(Chunk)]
    /\ pc \in [Threads -> Points]
    /\ file \in [Threads -> Inodes \cup {None}]
    /\ hnd \in [Threads -> Handles \cup {None}]
    /\ val \in [Threads -> Nat]
    /\ err \in [Threads -> Errnos]
    /\ snap \in [Threads -> Seq(Chunk)]
    /\ floor \in [Inodes -> Nat]
    /\ acked \in Nat
    /\ fetches \in [Inodes -> Nat]
    /\ since \in [Threads -> Nat]
    /\ \A t \in Threads : pc[t] # "idle" => file[t] \in Inodes

(* A read through an inode never returns less than what that inode had      *)
(* already shown when the read began: the version of a flush it answered    *)
(* with success (read your writes), or of an earlier read (monotonic        *)
(* reads).  floor is the newest such version and since its value at the     *)
(* start of the read; fetch's lock must cover its RPC for this to hold.     *)
ReadsNeverGoBack ==
    \A t \in Threads : pc[t] = "r.reply" /\ err[t] = "OK" => val[t] >= since[t]

(* Whatever the number of readers, an inode calls GetResource at most once  *)
(* between two invalidations: the first result, or the first error, is what *)
(* every later read gets (nodes.go:471-473).                                *)
OneFetchPerEpoch == \A i \in Inodes : fetches[i] <= 1

(* Nothing outlives an invalidation: the content or the error that an inode *)
(* has cached is of a GetResource issued after the last flush it has        *)
(* acknowledged and the last truncation (nodes.go:505-527,                  *)
(* file.go:178-183).  An error, which is kept like content, must go with    *)
(* it, and one that is on its way must not be stored after it: errors have  *)
(* no version, so that the register and ReadsNeverGoBack do not see them.   *)
CachedSinceInvalidated == \A i \in Inodes : Cached(i) => fetches[i] > 0

(* A mount that RunE did not make writable never reaches UpdateResource,    *)
(* nor keeps anything that a process tried to write to it.                  *)
ReadOnlyMountIsInert ==
    ~ opts.Writeable =>
        /\ \A h \in Handles : buf[h] = <<>>
        /\ \A t \in Threads : pc[t] \notin {"f.update", "f.inval", "s.lock"}
        /\ acked = 0

(* What contentMu protects, thread by thread: held exactly across the RPC   *)
(* of a fetch.                                                              *)
LockHeldAcrossFetch ==
    \A i \in Inodes, t \in Threads :
        mu[i] = t <=> pc[t] \in {"r.get", "r.got"} /\ file[t] = i

(* Nothing cached, fetched or acknowledged is newer than the server, and    *)
(* nothing cached or fetched is older than its inode's floor.               *)
InodeInOrder(i) ==
    /\ floor[i] <= srv
    /\ content[i] # 0 => floor[i] <= content[i] /\ content[i] <= srv
RequestInOrder(t) ==
    /\ pc[t] = "r.got" /\ err[t] = "OK" =>
         floor[file[t]] <= val[t] /\ 1 <= val[t] /\ val[t] <= srv
    /\ pc[t] = "r.got" /\ err[t] # "OK" => val[t] = 0
    /\ pc[t] = "r.reply" /\ err[t] = "OK" => val[t] >= since[t]
    /\ pc[t] \in {"r.lock", "r.get", "r.got"} => since[t] <= floor[file[t]]
    /\ pc[t] \in {"idle", "r.lock", "r.get"} => err[t] = "OK" /\ val[t] = 0
    /\ pc[t] = "f.update" => err[t] = "OK"
    /\ pc[t] = "f.inval" => val[t] <= srv
VersionsInOrder ==
    /\ acked <= srv
    /\ \A i \in Inodes : InodeInOrder(i)
    /\ \A t \in Threads : RequestInOrder(t)

(* A fetch was made if, and only if, its result or its error is cached or   *)
(* the thread that made it still holds the lock; never both are cached.     *)
FetchLeavesTrace ==
    \A i \in Inodes :
        /\ fetches[i] <= 1
        /\ contentErr[i] => content[i] = 0
        /\ fetches[i] = 1 <=> Cached(i) \/ mu[i] # None
        /\ mu[i] # None => fetches[i] = 1 /\ ~ Cached(i)

(* The inductive invariant behind the safety properties above.              *)
IInv ==
    /\ TypeOK
    /\ LockHeldAcrossFetch
    /\ VersionsInOrder
    /\ FetchLeavesTrace

(* The file implements the register it promises to be.  A read takes effect *)
(* when fetch finds the content or stores it, under contentMu; a flush is   *)
(* acknowledged when it has invalidated its inode.                          *)
ReadingAt == {"r.lock", "r.get", "r.got"}
RegisterOp(t) ==
    IF pc[t] \in ReadingAt THEN "read"
    ELSE IF pc[t] = "r.reply" /\ err[t] = "OK" THEN "shown"
    ELSE IF pc[t] = "f.update" THEN "write"
    ELSE IF pc[t] = "f.inval" THEN "written" ELSE "idle"
RegisterRequest(t) ==
    [op |-> RegisterOp(t),
     inode |-> IF RegisterOp(t) = "idle" THEN None ELSE file[t],
     ver |-> IF RegisterOp(t) \in {"shown", "written"} THEN val[t] ELSE 0]

R == INSTANCE Register WITH
       server <- srv, shown <- floor, req <- [t \in Threads |-> RegisterRequest(t)]

(* Every behaviour of the inodes, handles and locks is one of registers:    *)
(* reads are atomic and monotonic, and a reader sees its writes             *)
(* (nodes.go:505-527, file.go:95-128).                                      *)
ImplementsRegister == R!Spec

(* Every request is answered in the end: no error path keeps contentMu, and *)
(* no waiter for it is passed over for ever.                                *)
Answered == \A t \in Threads : pc[t] # "idle" ~> pc[t] = "idle"
=============================================================================
