---------------------------- MODULE MCResourceFile ----------------------------
(* Instances of ResourceFile for TLC, and what the comments and the plan of *)
(* the repository say of it that TLC refutes.                               *)
EXTENDS ResourceFile, TLC

CONSTANTS t1, t2, i1, i2, h1, h2

Symmetry ==
    Permutations({t1, t2}) \cup Permutations({i1, i2}) \cup Permutations({h1, h2})

(* What --sync mounts with, in the default format. *)
SyncYaml == {[Writeable |-> TRUE, Maintenance |-> FALSE, Format |-> "yaml"]}

-----------------------------------------------------------------------------
(* "The actual buffer resize happens in the per-open fileHandle"            *)
(* (nodes.go:450-451, file.go:5-6, 55-56): an accepted truncation sent on a *)
(* handle empties the handle's buffer.                                      *)
TruncateReachesBuffer ==
    [][\A t \in Threads :
         pc[t] = "s.lock" /\ pc'[t] = "s.reply" /\ hnd[t] # None => buf'[hnd[t]] = <<>>]_vars

(* "so that the next read fetches fresh content from the repository"        *)
(* (file.go:176-177): what the path's inode has cached is no older than the *)
(* last flush answered with success, even one through an older inode.       *)
FlushReachesPath == content[entry] # 0 => content[entry] >= acked
=============================================================================
