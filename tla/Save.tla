---------------------------------- MODULE Save ----------------------------------
(***************************************************************************)
(* A process that has walked to a file reads it, edits the document and    *)
(* saves it: what FormatResource (internal/resourceutil/format.go) shows,  *)
(* what ParseResource (parse.go) makes of the edited bytes, which of it    *)
(* fileHandle.Flush lets through (internal/fs/file.go), and which entry of *)
(* the list cache the update deletes.  When the bytes are buffered, locked *)
(* and sent is in ResourceFile.                                            *)
(***************************************************************************)
EXTENDS Tree

CONSTANTS
    Integers64,   \* integers that specs hold; bound: one bit more than Mantissa
    Mantissa      \* bits of a float64's mantissa

ASSUME SaveAssumption ==
    /\ Mantissa \in Nat
    /\ Integers64 \subseteq 0..(2 ^ (Mantissa + 1))
    /\ None \notin Integers64

VARIABLES
    got,          \* the resource that was read
    doc,          \* the document in the editor
    pushed        \* the update that Flush has sent

saving == <<got, doc, pushed>>
saveVars == <<vars, saving>>

-----------------------------------------------------------------------------
(* The metadata that identifies a resource.                                 *)
Identity(r) == [ns |-> r.ns, type |-> r.type, id |-> r.id]

(* A document has the keys "metadata" and "spec" any number of times, in    *)
(* any order, if it is a mapping at all.                                    *)
Document(mapping, metadata, spec) ==
    [mapping |-> mapping, metadata |-> metadata, spec |-> spec]

(* JSON comes from decoding the YAML, which keeps integers as they are.     *)
FormatResource(r) == Document(TRUE, <<Identity(r)>>, <<r.spec>>)

(* A seeded bug: the number goes through a shorter float.                   *)
ShorterFloat(n) ==
    IF n <= 2 ^ (Mantissa - 1) THEN n ELSE 2 * (n \div 2)

(* json.Unmarshal makes a float64 of a number: beyond the mantissa an odd   *)
(* one goes to the neighbour that is a multiple of four.                    *)
asFloat(n) ==
    IF n <= 2 ^ Mantissa \/ n % 2 = 0 THEN n
    ELSE IF (n - 1) % 4 = 0 THEN n - 1 ELSE n + 1

jsonNumber(n) == IF format = "json" THEN asFloat(n) ELSE n

(* Of two blocks with one key the last counts.                              *)
splitMetadataSpec(blocks) == IF blocks = <<>> THEN None ELSE blocks[Len(blocks)]

(* A document without a spec parses; one without metadata does not.         *)
ParseResource(d) ==
    LET md == splitMetadataSpec(d.metadata)
        spec == splitMetadataSpec(d.spec)
    IN IF ~ d.mapping \/ md = None THEN None
       ELSE [ns |-> md.ns, type |-> md.type, id |-> md.id,
             spec |-> IF spec = None THEN None ELSE jsonNumber(spec)]

(* A seeded bug: the ID alone is compared.                                  *)
MatchesById(r) == r.id = at.id

metadataMatchesFile(r) == r.ns = at.ns /\ r.type = at.rd.type /\ r.id = at.id

(* A seeded bug: the name the directory is shown under is in the key.       *)
KeyOfShownType(r) == [node |-> at.node, ns |-> r.ns, type |-> displayNameFor(at.rd)]

(* The entry of the list cache an update deletes, and the one a Readdir of  *)
(* the file's directory is answered from.                                   *)
UpdatedKey(r) == [node |-> at.node, ns |-> r.ns, type |-> r.type]
ListedKey == [node |-> at.node, ns |-> at.ns, type |-> at.rd.type]

-----------------------------------------------------------------------------
SaveInit == Init /\ got = None /\ doc = None /\ pushed = None

(* The process walks; a document it has read is forgotten.                  *)
Walk == Next /\ got' = None /\ doc' = None /\ pushed' = None

(* The node has such a resource, and answers.                               *)
ReadFile ==
    /\ at.level = "file" /\ got = None /\ pushed = None
    /\ \E n \in Integers64 :
         got' = [ns |-> at.ns, type |-> at.rd.type, id |-> at.id, spec |-> n]
    /\ doc' = FormatResource(got')
    /\ UNCHANGED <<vars, pushed>>

(* The metadata of another resource, and the one that was read.             *)
Identities ==
    LET own == Identity(got) IN
    { [own EXCEPT !.ns = ns] : ns \in Namespaces }
      \cup { [own EXCEPT !.type = rd.type] : rd \in Elements(at.defs) }
      \cup { [own EXCEPT !.id = id] : id \in Ids }

(* The document is edited: a block is changed, added a second time or taken *)
(* out, or what is left is no mapping.                                      *)
Edit ==
    /\ got # None /\ pushed = None /\ doc = FormatResource(got)
    /\ \/ \E m \in Identities :
            doc' \in { [doc EXCEPT !.metadata = <<m>>], [doc EXCEPT !.metadata = Append(@, m)] }
       \/ \E n \in Integers64 :
            doc' \in { [doc EXCEPT !.spec = <<n>>], [doc EXCEPT !.spec = Append(@, n)] }
       \/ doc' \in { [doc EXCEPT !.metadata = <<>>], [doc EXCEPT !.spec = <<>>],
                     [doc EXCEPT !.mapping = FALSE] }
    /\ UNCHANGED <<vars, got, pushed>>

(* The handle is closed on a writable mount, and the node accepts the       *)
(* update; a document that does not parse or match is refused.              *)
Flush ==
    LET r == ParseResource(doc) IN
    /\ doc # None /\ pushed = None
    /\ r # None
    /\ metadataMatchesFile(r)
    /\ pushed' = [node |-> at.node, resource |-> r, dropped |-> UpdatedKey(r)]
    /\ UNCHANGED <<vars, got, doc>>

SaveNext == Walk \/ ReadFile \/ Edit \/ Flush

SaveSpec == SaveInit /\ [][SaveNext]_saveVars

-----------------------------------------------------------------------------
(* A save goes to the node and the resource its path names, whatever the    *)
(* document says it is and however the names on the way were shortened,     *)
(* lowered or escaped (file.go:117-121, nodes.go:345-370).                  *)
SavedWherePathSays ==
    pushed # None =>
        /\ displayName(pushed.node) = path[1]
        /\ pushed.resource.ns = path[2]
        /\ pushed.resource.type = at.rd.type /\ displayNameFor(at.rd) = path[3]
        /\ escapeID(pushed.resource.id) = path[4].id

(* A document saved as it was read leaves the resource as it was: in YAML,  *)
(* and in JSON as long as its integers fit a float64 (parse.go:40-52).      *)
UneditedIsFaithful ==
    pushed # None /\ doc = FormatResource(got) =>
        \/ pushed.resource = got
        \/ format = "json" /\ got.spec > 2 ^ Mantissa

(* The list an update drops from the cache is the one its file is listed    *)
(* in, although one key is made of the document and the other of the path   *)
(* (cache.go:113, nodes.go:376).                                            *)
SaveDropsItsList == pushed # None => pushed.dropped = ListedKey
=============================================================================
