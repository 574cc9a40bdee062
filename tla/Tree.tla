---------------------------------- MODULE Tree ----------------------------------
(***************************************************************************)
(* The directory tree: how internal/fs/nodes.go turns a path               *)
(*     /<cluster>/<node>/<namespace>/<type>/<id>.<ext>                     *)
(* into the (node, namespace, type, id) it asks the repository for, and    *)
(* back, one Lookup or Readdir at a time, for a process that walks it.     *)
(* nodeDir takes a snapshot of a node's definitions, which the directories *)
(* below share; resourceTypeDir asks the node each time it is listed.  The *)
(* nodes change meanwhile, so each answer is any that a node may give.     *)
(***************************************************************************)
EXTENDS Integers, Sequences, FiniteSetsExt

CONSTANTS
    Nodes,        \* node IDs
    Hosts,        \* host names the nodes report
    NodeLists,    \* the values of Options.Nodes: sequences of Nodes
    Catalogs,     \* what a node may define: sequences of Def
    Words,        \* names in definitions, apart from their case
    Namespaces,
    Ids,          \* resource IDs: sequences of characters
    None          \* no label, node, namespace, definition or ID

Exts == {".yaml", ".yml", ".json", ".txt"}
Name == [word : Words, upper : BOOLEAN]
Def == [type : Name, ns : Namespaces \cup {None}, aliases : Seq(Name)]
Id == Seq({"a", "/", "+"})

ASSUME TreeAssumption ==
    /\ NodeLists \subseteq Seq(Nodes)
    /\ Catalogs \subseteq Seq(Def)
    /\ Ids \subseteq Id
    /\ None \notin Nodes \cup Hosts \cup Namespaces

VARIABLES
    nodes, labels, format,   \* Options.Nodes, .NodeLabels, .Format
    at,           \* the inode the process is in
    path,         \* the names it came by
    listed        \* what the last Readdir of that inode listed

options == <<nodes, labels, format>>
vars == <<options, at, path, listed>>

Elements(s) == { s[k] : k \in DOMAIN s }
NodeDir == [level |-> "nodes", node |-> None, defs |-> <<>>, ns |-> None, rd |-> None, id |-> None]

-----------------------------------------------------------------------------
(* A node's directory name is its label, unless that is empty or missing.   *)
displayName(n) == IF labels[n] # None THEN labels[n] ELSE n

(* buildNodeLabels: the map from display names to node IDs, filled in the   *)
(* order of Options.Nodes, so that of two nodes with one name the last wins. *)
buildNodeLabels ==
    [ name \in { displayName(n) : n \in Elements(nodes) } |->
        nodes[Max({ k \in DOMAIN nodes : displayName(nodes[k]) = name })] ]

lower(name) == [name EXCEPT !.upper = FALSE]

(* The first alias, or the canonical type, in lower case.                   *)
displayNameFor(rd) == lower(IF rd.aliases # <<>> THEN rd.aliases[1] ELSE rd.type)

namespaceNames(defs) == { rd.ns : rd \in Elements(defs) } \ {None}
findNamespace(defs, ns) == \E rd \in Elements(defs) : rd.ns = ns

(* Seeded bugs: the last match wins; the namespace is not compared.         *)
FindsLastMatch(defs, ns, name) ==
    LET matches == { k \in DOMAIN defs : defs[k].ns = ns /\ displayNameFor(defs[k]) = name }
    IN IF matches = {} THEN None ELSE defs[Max(matches)]
FindsInAnyNamespace(defs, ns, name) ==
    LET matches == { k \in DOMAIN defs : displayNameFor(defs[k]) = name }
    IN IF matches = {} THEN None ELSE defs[Min(matches)]

findResourceType(defs, ns, name) ==
    LET matches == { k \in DOMAIN defs : defs[k].ns = ns /\ displayNameFor(defs[k]) = name }
    IN IF matches = {} THEN None ELSE defs[Min(matches)]

(* children: a definition is listed unless one before it has its name.      *)
children(defs, ns) ==
    { defs[k] : k \in { k \in DOMAIN defs :
        /\ defs[k].ns = ns
        /\ \A j \in 1..(k - 1) : defs[j].ns = ns => displayNameFor(defs[j]) # displayNameFor(defs[k]) } }

escapeID(id) == [k \in DOMAIN id |-> IF id[k] = "/" THEN "+" ELSE id[k]]
unescapeID(id) == [k \in DOMAIN id |-> IF id[k] = "+" THEN "/" ELSE id[k]]
fileExtensionFor == IF format = "json" THEN ".json" ELSE ".yaml"

(* splitIDAndExtension refuses a name that ends in none of these.           *)
KnownExt(file) == file.ext \in {".yaml", ".yml", ".json"}

-----------------------------------------------------------------------------
Init ==
    /\ nodes \in NodeLists
    /\ labels \in [Nodes -> Hosts \cup {None}]
    /\ format \in {"yaml", "json"}
    /\ at = NodeDir
    /\ path = <<>>
    /\ listed = {}

(* The process enters the inode a Lookup of name has made.                  *)
Enter(name, inode) ==
    /\ at' = inode
    /\ path' = Append(path, name)
    /\ listed' = {}

(* It lists its directory.  Each entry has a name, and what it stands for.  *)
List(entries) ==
    /\ listed' = entries
    /\ UNCHANGED <<at, path>>

NodeDirReaddir ==
    /\ at.level = "nodes"
    /\ List({ [name |-> displayName(n), of |-> n] : n \in Elements(nodes) })
    /\ UNCHANGED options

(* A seeded bug: the directory is made for the label, not for the node.     *)
NodeDirPassesLabel(name) ==
    /\ at.level = "nodes"
    /\ name \in DOMAIN buildNodeLabels
    /\ \E defs \in Catalogs :
         Enter(name, [at EXCEPT !.level = "node", !.node = name, !.defs = defs])
    /\ UNCHANGED options

(* ResourceDefinitions goes through the cache; if it fails so does Lookup.  *)
NodeDirLookup(name) ==
    /\ at.level = "nodes"
    /\ name \in DOMAIN buildNodeLabels
    /\ \E defs \in Catalogs :
         Enter(name, [at EXCEPT !.level = "node", !.node = buildNodeLabels[name], !.defs = defs])
    /\ UNCHANGED options

(* Its prefetch of the lists is in Prefetch.                                *)
PerNodeDirReaddir ==
    /\ at.level = "node"
    /\ List({ [name |-> ns, of |-> ns] : ns \in namespaceNames(at.defs) })
    /\ UNCHANGED options

PerNodeDirLookup(ns) ==
    /\ at.level = "node"
    /\ findNamespace(at.defs, ns)
    /\ Enter(ns, [at EXCEPT !.level = "namespace", !.ns = ns])
    /\ UNCHANGED options

NamespaceDirReaddir ==
    /\ at.level = "namespace"
    /\ List({ [name |-> displayNameFor(rd), of |-> rd] : rd \in children(at.defs, at.ns) })
    /\ UNCHANGED options

NamespaceDirLookup(name) ==
    LET rd == findResourceType(at.defs, at.ns, name) IN
    /\ at.level = "namespace"
    /\ rd # None
    /\ Enter(name, [at EXCEPT !.level = "type", !.rd = rd])
    /\ UNCHANGED options

(* A list call the node refuses makes an empty directory.                   *)
ResourceTypeDirReaddir ==
    /\ at.level = "type"
    /\ \E ids \in {{}, Ids} :
         List({ [name |-> [id |-> escapeID(id), ext |-> fileExtensionFor], of |-> id] : id \in ids })
    /\ UNCHANGED options

(* Whether there is such a resource is not asked.                           *)
ResourceTypeDirLookup(file) ==
    /\ at.level = "type"
    /\ KnownExt(file)
    /\ Enter(file, [at EXCEPT !.level = "file", !.id = unescapeID(file.id)])
    /\ UNCHANGED options

(* The process goes back to the top and starts again.                       *)
Leave ==
    /\ at' = NodeDir
    /\ path' = <<>>
    /\ listed' = {}
    /\ UNCHANGED options

(* No kernel asks for a name with a slash in it.                            *)
FileNames == [id : { escapeID(id) : id \in Ids }, ext : Exts]

Next ==
    \/ NodeDirReaddir \/ PerNodeDirReaddir \/ NamespaceDirReaddir \/ ResourceTypeDirReaddir
    \/ \E name \in Nodes \cup Hosts : NodeDirLookup(name)
    \/ \E ns \in Namespaces : PerNodeDirLookup(ns)
    \/ \E name \in Name : NamespaceDirLookup(name)
    \/ \E file \in FileNames : ResourceTypeDirLookup(file)
    \/ Leave

Spec == Init /\ [][Next]_vars

-----------------------------------------------------------------------------
(* How many names lead to an inode of each level.                           *)
Depth == [nodes |-> 0, node |-> 1, namespace |-> 2, type |-> 3, file |-> 4]
Inode == [level : DOMAIN Depth, node : {None} \cup Nodes, defs : {<<>>} \cup Catalogs,
          ns : {None} \cup Namespaces, rd : {None} \cup Def, id : {None} \cup Id]

(* An inode has the fields its level has, and the requests made of it name  *)
(* a node and a definition, not what is shown for them.                     *)
TypeOK ==
    /\ nodes \in NodeLists /\ labels \in [Nodes -> Hosts \cup {None}]
    /\ at \in Inode
    /\ at.level # "nodes" => at.node \in Nodes /\ at.defs \in Catalogs
    /\ at.level \in {"namespace", "type", "file"} => at.ns \in Namespaces
    /\ at.level \in {"type", "file"} => at.rd \in Elements(at.defs)
    /\ at.level = "file" => at.id \in Id

(* Whatever the nodes answer, an inode asks for what its path says:         *)
(* the names it was reached by are those its node, namespace, definition    *)
(* and ID are shown under, and its definition is one of its namespace.      *)
PathNamesInode ==
    /\ Len(path) >= 1 => path[1] = displayName(at.node)
    /\ Len(path) >= 2 => path[2] = at.ns
    /\ Len(path) >= 3 => path[3] = displayNameFor(at.rd) /\ at.rd.ns = at.ns
    /\ Len(path) >= 4 => path[4].id = escapeID(at.id)

IInv == TypeOK /\ Len(path) = Depth[at.level] /\ PathNamesInode

(* What a Lookup of name in the current directory leads to.                 *)
Found(name) ==
    CASE at.level = "nodes" -> IF name \in DOMAIN buildNodeLabels THEN buildNodeLabels[name] ELSE None
      [] at.level = "node" -> IF findNamespace(at.defs, name) THEN name ELSE None
      [] at.level = "namespace" -> findResourceType(at.defs, at.ns, name)
      [] at.level = "type" -> IF KnownExt(name) THEN unescapeID(name.id) ELSE None

DistinctlyNamed(n) == \A m \in Elements(nodes) : displayName(m) = displayName(n) => m = n

(* Readdir and Lookup agree: an entry that was listed leads to what it was  *)
(* listed for, whichever of two definitions with one name comes first.  Two *)
(* nodes with one host name, and IDs with a '+' of their own, are not found. *)
ListedIsFound ==
    \A e \in listed :
        \/ at.level = "nodes" /\ ~ DistinctlyNamed(e.of)
        \/ at.level = "type" /\ "+" \in Elements(e.of)
        \/ Found(e.name) = e.of
=============================================================================
