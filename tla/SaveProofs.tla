------------------------------ MODULE SaveProofs ------------------------------
(* Theorems about Tree and Save for every set of nodes, labels, catalogs    *)
(* and IDs.                                                                 *)
EXTENDS Save, WellFoundedInduction, SequenceTheorems, TLAPS

(* A set of naturals that is not empty has a least member.                  *)
LEMMA Least ==
    ASSUME NEW S \in SUBSET Nat, S # {}
    PROVE  Min(S) \in S /\ \A k \in S : Min(S) <= k
<1>1. PICK x \in S : \A y \in S : ~ (<<y, x>> \in OpToRel(<, Nat))
  BY NatLessThanWellFounded, WFMin
<1>2. ASSUME NEW y \in S, y < x PROVE <<y, x>> \in OpToRel(<, Nat)
  <2>1. <<y, x>> \in Nat \X Nat
    OBVIOUS
  <2>2. <<y, x>>[1] < <<y, x>>[2]
    BY <1>2
  <2> DEFINE pair == <<y, x>>
  <2> HIDE DEF pair
  <2>3. pair \in Nat \X Nat /\ pair[1] < pair[2]
    BY <2>1, <2>2 DEF pair
  <2>4. pair \in OpToRel(<, Nat)
    BY ONLY <2>3, Zenon DEF OpToRel
  <2> QED
    BY <2>4 DEF pair
<1>3. \A y \in S : ~ (y < x)
  BY ONLY <1>1, <1>2, Zenon
<1>4. \A y \in S : x <= y
  <2> x \in Nat /\ S \in SUBSET Nat
    OBVIOUS
  <2> QED
    BY ONLY <1>3, x \in Nat, S \in SUBSET Nat
<1> QED
  BY <1>4 DEF Min

(* A set of naturals below a bound that is not empty has a greatest one.    *)
LEMMA Greatest ==
    ASSUME NEW n \in Nat, NEW S \in SUBSET (1..n), S # {}
    PROVE  Max(S) \in S /\ \A k \in S : k <= Max(S)
<1> DEFINE T == { n - k : k \in S }
<1>1. T \in SUBSET Nat /\ T # {}
  <2>1. \A k \in S : n - k \in Nat
    OBVIOUS
  <2>2. PICK k \in S : TRUE
    OBVIOUS
  <2>3. n - k \in T
    OBVIOUS
  <2> QED
    BY <2>1, <2>3
<1>2. Min(T) \in T /\ \A t \in T : Min(T) <= t
  BY <1>1, Least
<1>3. PICK x \in S : Min(T) = n - x
  BY <1>2
<1>4. \A k \in S : k <= x
  <2> SUFFICES ASSUME NEW k \in S PROVE k <= x
    OBVIOUS
  <2>1. n - x <= n - k
    BY <1>2, <1>3
  <2> QED
    BY <2>1
<1> QED
  BY <1>4 DEF Max
-----------------------------------------------------------------------------
(* A name in the map of buildNodeLabels leads to a node that is shown under *)
(* it, whichever of the nodes with that name.                               *)
LEMMA LabelLeads ==
    ASSUME TypeOK, NEW name \in DOMAIN buildNodeLabels
    PROVE  buildNodeLabels[name] \in Nodes /\ displayName(buildNodeLabels[name]) = name
<1>1. nodes \in Seq(Nodes)
  BY TreeAssumption DEF TypeOK
<1> DEFINE S == { k \in DOMAIN nodes : displayName(nodes[k]) = name }
<1>2. PICK k \in DOMAIN nodes : displayName(nodes[k]) = name
  BY DEF buildNodeLabels, Elements
<1>3. Len(nodes) \in Nat /\ S \in SUBSET (1..Len(nodes)) /\ S # {}
  BY <1>1, <1>2
<1>4. Max(S) \in S
  BY <1>3, Greatest
<1>5. buildNodeLabels[name] = nodes[Max(S)]
  BY DEF buildNodeLabels
<1> QED
  BY <1>1, <1>4, <1>5

(* The only node with a name is found under it.                             *)
LEMMA NodeFound ==
    ASSUME TypeOK, NEW n \in Elements(nodes), DistinctlyNamed(n)
    PROVE  displayName(n) \in DOMAIN buildNodeLabels /\ buildNodeLabels[displayName(n)] = n
<1>1. nodes \in Seq(Nodes)
  BY TreeAssumption DEF TypeOK
<1> DEFINE S == { k \in DOMAIN nodes : displayName(nodes[k]) = displayName(n) }
<1>2. PICK k \in DOMAIN nodes : nodes[k] = n
  BY DEF Elements
<1>3. Len(nodes) \in Nat /\ S \in SUBSET (1..Len(nodes)) /\ S # {}
  BY <1>1, <1>2
<1>4. Max(S) \in S
  BY <1>3, Greatest
<1>5. nodes[Max(S)] = n
  BY <1>4 DEF Elements, DistinctlyNamed
<1>6. displayName(n) \in DOMAIN buildNodeLabels
  BY DEF buildNodeLabels
<1>7. buildNodeLabels[displayName(n)] = nodes[Max(S)]
  BY <1>6 DEF buildNodeLabels
<1> QED
  BY <1>5, <1>6, <1>7

(* A resource type that is found is one of the namespace's, shown under the *)
(* name that was asked for.                                                 *)
LEMMA TypeLeads ==
    ASSUME NEW defs \in Seq(Def), NEW ns, NEW name, findResourceType(defs, ns, name) # None
    PROVE  LET rd == findResourceType(defs, ns, name) IN
           rd \in Elements(defs) /\ rd \in Def /\ rd.ns = ns /\ displayNameFor(rd) = name
<1> DEFINE S == { k \in DOMAIN defs : defs[k].ns = ns /\ displayNameFor(defs[k]) = name }
<1>1. S # {} /\ findResourceType(defs, ns, name) = defs[Min(S)]
  BY DEF findResourceType
<1>2. S \in SUBSET Nat
  OBVIOUS
<1>3. Min(S) \in S
  BY <1>1, <1>2, Least
<1> HIDE DEF S
<1>4. Min(S) \in DOMAIN defs /\ defs[Min(S)].ns = ns /\ displayNameFor(defs[Min(S)]) = name
  BY <1>3 DEF S
<1> QED
  BY <1>1, <1>4 DEF Elements

(* A resource type that is listed is found under its name.                  *)
LEMMA TypeFound ==
    ASSUME NEW defs \in Seq(Def), NEW ns, NEW rd \in children(defs, ns)
    PROVE  findResourceType(defs, ns, displayNameFor(rd)) = rd
<1> DEFINE S == { k \in DOMAIN defs : defs[k].ns = ns /\ displayNameFor(defs[k]) = displayNameFor(rd) }
<1>1. PICK k \in DOMAIN defs :
        /\ rd = defs[k] /\ defs[k].ns = ns
        /\ \A j \in 1..(k - 1) : defs[j].ns = ns => displayNameFor(defs[j]) # displayNameFor(defs[k])
  BY DEF children
<1>2. k \in S /\ S \in SUBSET Nat
  BY <1>1
<1>3. Min(S) \in S /\ Min(S) <= k
  BY <1>2, Least
<1>4. ~ (Min(S) < k)
  <2> SUFFICES ASSUME Min(S) < k PROVE FALSE
    OBVIOUS
  <2>1. Min(S) \in 1..(k - 1) /\ defs[Min(S)].ns = ns
        /\ displayNameFor(defs[Min(S)]) = displayNameFor(rd)
    BY <1>3
  <2> QED
    BY <1>1, <2>1
<1>5. Min(S) = k
  BY <1>2, <1>3, <1>4
<1>6. findResourceType(defs, ns, displayNameFor(rd)) = IF S = {} THEN None ELSE defs[Min(S)]
  BY DEF findResourceType
<1> HIDE DEF S
<1> QED
  BY <1>1, <1>2, <1>5, <1>6

(* escapeID and unescapeID: an escaped ID stands for an ID whose escape it  *)
(* is, and for the one it was made of unless that had a '+' of its own.     *)
LEMMA Escapes ==
    ASSUME NEW id \in Id
    PROVE  /\ unescapeID(escapeID(id)) \in Id
           /\ escapeID(unescapeID(escapeID(id))) = escapeID(id)
           /\ "+" \notin Elements(id) => unescapeID(escapeID(id)) = id
<1>1. PICK n \in Nat : id \in [1..n -> {"a", "/", "+"}]
  BY SeqDef DEF Id
<1> DEFINE e == escapeID(id)
           u == unescapeID(e)
<1>2. /\ e \in [1..n -> {"a", "+"}]
      /\ \A k \in 1..n : e[k] = IF id[k] = "/" THEN "+" ELSE id[k]
  BY <1>1 DEF escapeID
<1> HIDE DEF e
<1>3. /\ u \in [1..n -> {"a", "/"}]
      /\ \A k \in 1..n : u[k] = IF e[k] = "+" THEN "/" ELSE e[k]
  BY <1>2 DEF unescapeID
<1> HIDE DEF u
<1>4. u \in Id
  BY <1>3, SeqDef DEF Id
<1>5. escapeID(u) = e
  <2>1. escapeID(u) \in [1..n -> {"a", "+"}]
        /\ \A k \in 1..n : escapeID(u)[k] = IF u[k] = "/" THEN "+" ELSE u[k]
    BY <1>3 DEF escapeID
  <2>2. \A k \in 1..n : escapeID(u)[k] = e[k]
    BY <1>2, <1>3, <2>1
  <2> HIDE DEF escapeID
  <2> QED
    BY <1>2, <2>1, <2>2
<1>6. ASSUME "+" \notin Elements(id) PROVE u = id
  <2>1. \A k \in 1..n : u[k] = id[k]
    BY <1>1, <1>2, <1>3, <1>6 DEF Elements
  <2> QED
    BY <1>1, <1>3, <2>1
<1> QED
  BY <1>4, <1>5, <1>6 DEF u, e
-----------------------------------------------------------------------------

(* unescapeID undoes escapeID exactly on the IDs without a '+' of their own *)
(* (format.go:15-17, README.md:142), so no two of these share a file name:  *)
(* a collision in a directory is between an ID with a '+' and another one.  *)
THEOREM EscapeTheorem ==
    ASSUME NEW id \in Id, NEW other \in Id
    PROVE  /\ unescapeID(escapeID(id)) = id <=> "+" \notin Elements(id)
           /\ escapeID(id) = escapeID(other) /\ id # other =>
                "+" \in Elements(id) \cup Elements(other)
<1>1. ASSUME "+" \in Elements(id) PROVE unescapeID(escapeID(id)) # id
  <2>1. PICK n \in Nat : id \in [1..n -> {"a", "/", "+"}]
    BY SeqDef DEF Id
  <2>2. PICK k \in 1..n : id[k] = "+"
    BY <1>1, <2>1 DEF Elements
  <2>3. unescapeID(escapeID(id))[k] = "/"
    BY <2>1, <2>2 DEF escapeID, unescapeID
  <2> QED
    BY <2>2, <2>3
<1>2. /\ "+" \notin Elements(id) => unescapeID(escapeID(id)) = id
      /\ "+" \notin Elements(other) => unescapeID(escapeID(other)) = other
  BY Escapes
<1> QED
  BY <1>1, <1>2

(* IInv of Tree, with the sequence that the names of a path make.           *)
PathName == Nodes \cup Hosts \cup Namespaces \cup Name \cup FileNames
TreeInv == IInv /\ path \in Seq(PathName)

LEMMA CatalogDefs == ASSUME NEW defs \in Catalogs PROVE defs \in Seq(Def)
  BY TreeAssumption

(* A Lookup goes one level down, to an inode that is shown under the name.  *)
LEMMA EnterStep ==
    ASSUME TreeInv, NEW name \in PathName, NEW inode \in Inode, Enter(name, inode),
           UNCHANGED options,
           Depth[inode.level] = Depth[at.level] + 1,
           Len(path) >= 1 => inode.node = at.node,
           Len(path) >= 2 => inode.ns = at.ns,
           Len(path) >= 3 => inode.rd = at.rd,
           inode.level # "nodes" => inode.node \in Nodes /\ inode.defs \in Catalogs,
           inode.level \in {"namespace", "type", "file"} => inode.ns \in Namespaces,
           inode.level \in {"type", "file"} => inode.rd \in Elements(inode.defs),
           inode.level = "file" => inode.id \in Id,
           Len(path) = 0 => name = displayName(inode.node),
           Len(path) = 1 => name = inode.ns,
           Len(path) = 2 => name = displayNameFor(inode.rd) /\ inode.rd.ns = inode.ns,
           Len(path) = 3 => name.id = escapeID(inode.id)
    PROVE  TreeInv'
<1>1. TypeOK /\ PathNamesInode /\ Len(path) = Depth[at.level] /\ path \in Seq(PathName)
  BY DEF TreeInv, IInv
<1>2. /\ at' = inode /\ path' = Append(path, name)
      /\ nodes' = nodes /\ labels' = labels /\ format' = format
  BY DEF Enter, options
<1>3. /\ path' \in Seq(PathName) /\ Len(path') = Len(path) + 1 /\ Len(path) \in Nat
      /\ path'[Len(path) + 1] = name /\ \A k \in 1..Len(path) : path'[k] = path[k]
  BY <1>1, <1>2
<1>4. TypeOK'
  BY <1>1, <1>2 DEF TypeOK
<1>5. Len(path)' = Depth[at'.level]
  BY <1>1, <1>2, <1>3
<1>6. \A n : displayName(n)' = displayName(n)
  BY <1>2 DEF displayName
<1>7. PathNamesInode'
  <2>1. Len(path') >= 1 => path'[1] = displayName(at'.node)
    BY <1>1, <1>2, <1>3 DEF PathNamesInode
  <2>2. Len(path') >= 2 => path'[2] = at'.ns
    BY <1>1, <1>2, <1>3 DEF PathNamesInode
  <2>3. Len(path') >= 3 => path'[3] = displayNameFor(at'.rd) /\ at'.rd.ns = at'.ns
    BY <1>1, <1>2, <1>3 DEF PathNamesInode
  <2>4. Len(path') >= 4 => path'[4].id = escapeID(at'.id)
    <3>1. Len(path) <= 3
      BY <1>1, <1>2 DEF TypeOK, Inode, Depth
    <3>2. ASSUME Len(path) = 3 PROVE path'[4] = name /\ name.id = escapeID(at'.id)
      BY <1>2, <1>3, <3>2
    <3>3. Len(path) \in Nat /\ Len(path') = Len(path) + 1
      BY <1>3
    <3>4. \A m \in Nat : m <= 3 /\ m + 1 >= 4 => m = 3
      OBVIOUS
    <3>5. Len(path') >= 4 => Len(path) = 3
      BY ONLY <3>1, <3>3, <3>4
    <3> QED
      BY <3>2, <3>5
  <2> QED
    BY <1>2, <1>6, <2>1, <2>2, <2>3, <2>4 DEF PathNamesInode, displayName
<1> QED
  BY <1>3, <1>4, <1>5, <1>7 DEF TreeInv, IInv

LEMMA LookupStep ==
    ASSUME TreeInv
    PROVE  \/ \E name \in Nodes \cup Hosts : NodeDirLookup(name)
           \/ \E ns \in Namespaces : PerNodeDirLookup(ns)
           \/ \E name \in Name : NamespaceDirLookup(name)
           \/ \E file \in FileNames : ResourceTypeDirLookup(file)
           => TreeInv'
<1>1. TypeOK /\ Len(path) = Depth[at.level] /\ at \in Inode
  BY DEF TreeInv, IInv, TypeOK
<1>2. ASSUME NEW name \in Nodes \cup Hosts, NodeDirLookup(name) PROVE TreeInv'
  <2>1. PICK defs \in Catalogs :
          Enter(name, [at EXCEPT !.level = "node", !.node = buildNodeLabels[name], !.defs = defs])
    BY ONLY <1>2, Zenon DEF NodeDirLookup
  <2> DEFINE inode == [at EXCEPT !.level = "node", !.node = buildNodeLabels[name], !.defs = defs]
  <2>2. buildNodeLabels[name] \in Nodes /\ displayName(buildNodeLabels[name]) = name
    BY <1>1, <1>2, LabelLeads DEF NodeDirLookup
  <2>3. inode \in Inode /\ inode.level = "node" /\ inode.node = buildNodeLabels[name] /\ inode.defs = defs
    BY <1>1, <2>2 DEF Inode, Depth
  <2>4. at.level = "nodes" /\ Len(path) = 0 /\ Depth["node"] = 1 /\ Depth["nodes"] = 0 /\ UNCHANGED options
    BY <1>1, <1>2 DEF NodeDirLookup, Depth
  <2>5. name \in PathName
    BY DEF PathName
  <2>6. Enter(name, inode)
    BY <2>1
  <2> HIDE DEF inode
  <2> QED
    BY <2>2, <2>3, <2>4, <2>5, <2>6, EnterStep
<1>3. ASSUME NEW ns \in Namespaces, PerNodeDirLookup(ns) PROVE TreeInv'
  <2> DEFINE inode == [at EXCEPT !.level = "namespace", !.ns = ns]
  <2>1. Enter(ns, inode) /\ UNCHANGED options /\ at.level = "node"
    BY <1>3 DEF PerNodeDirLookup
  <2>2. /\ inode \in Inode /\ inode.level = "namespace" /\ inode.ns = ns
        /\ inode.node = at.node /\ inode.defs = at.defs /\ inode.rd = at.rd
    BY <1>1 DEF Inode, Depth
  <2>3. /\ Len(path) = 1 /\ Depth["namespace"] = 2 /\ Depth["node"] = 1
        /\ at.node \in Nodes /\ at.defs \in Catalogs
    BY <1>1, <2>1 DEF Depth, TypeOK
  <2>4. ns \in PathName
    BY DEF PathName
  <2> HIDE DEF inode
  <2> QED
    BY <2>1, <2>2, <2>3, <2>4, EnterStep
<1>4. ASSUME NEW name \in Name, NamespaceDirLookup(name) PROVE TreeInv'
  <2> DEFINE rd == findResourceType(at.defs, at.ns, name)
             inode == [at EXCEPT !.level = "type", !.rd = rd]
  <2>1. Enter(name, inode) /\ UNCHANGED options /\ at.level = "namespace" /\ rd # None
    BY <1>4 DEF NamespaceDirLookup
  <2>2. /\ Len(path) = 2 /\ Depth["type"] = 3 /\ Depth["namespace"] = 2
        /\ at.node \in Nodes /\ at.defs \in Catalogs /\ at.ns \in Namespaces
    BY <1>1, <2>1 DEF Depth, TypeOK
  <2>3. rd \in Elements(at.defs) /\ rd \in Def /\ rd.ns = at.ns /\ displayNameFor(rd) = name
    BY <2>1, <2>2, CatalogDefs, TypeLeads
  <2> HIDE DEF rd
  <2>4. /\ inode \in Inode /\ inode.level = "type" /\ inode.rd = rd
        /\ inode.node = at.node /\ inode.defs = at.defs /\ inode.ns = at.ns
    BY <1>1, <2>3 DEF Inode, Depth
  <2>5. name \in PathName
    BY DEF PathName
  <2> HIDE DEF inode
  <2> QED
    BY <2>1, <2>2, <2>3, <2>4, <2>5, EnterStep
<1>5. ASSUME NEW file \in FileNames, ResourceTypeDirLookup(file) PROVE TreeInv'
  <2> DEFINE inode == [at EXCEPT !.level = "file", !.id = unescapeID(file.id)]
  <2>1. Enter(file, inode) /\ UNCHANGED options /\ at.level = "type"
    BY <1>5 DEF ResourceTypeDirLookup
  <2>2. PICK id \in Ids : file.id = escapeID(id)
    BY DEF FileNames
  <2>3. unescapeID(file.id) \in Id /\ escapeID(unescapeID(file.id)) = file.id
    BY <2>2, TreeAssumption, Escapes
  <2>4. /\ inode \in Inode /\ inode.level = "file" /\ inode.id = unescapeID(file.id) /\ inode.rd = at.rd
        /\ inode.node = at.node /\ inode.defs = at.defs /\ inode.ns = at.ns
    BY <1>1, <2>3 DEF Inode, Depth
  <2>5. /\ Len(path) = 3 /\ Depth["file"] = 4 /\ Depth["type"] = 3 /\ at.rd \in Elements(at.defs)
        /\ at.node \in Nodes /\ at.defs \in Catalogs /\ at.ns \in Namespaces
    BY <1>1, <2>1 DEF Depth, TypeOK
  <2>6. file \in PathName
    BY DEF PathName
  <2> HIDE DEF inode
  <2> QED
    BY <2>1, <2>3, <2>4, <2>5, <2>6, EnterStep
<1> QED
  BY <1>2, <1>3, <1>4, <1>5

LEMMA TreeInvStays ==
    ASSUME TreeInv, UNCHANGED <<options, at, path>>
    PROVE  TreeInv'
<1>1. nodes' = nodes /\ labels' = labels /\ format' = format /\ at' = at /\ path' = path
  BY DEF options
<1>2. TypeOK'
  BY <1>1 DEF TreeInv, IInv, TypeOK
<1>3. PathNamesInode'
  BY <1>1 DEF TreeInv, IInv, PathNamesInode, displayName
<1> QED
  BY <1>1, <1>2, <1>3 DEF TreeInv, IInv

LEMMA TreeInit == Init => TreeInv
<1> SUFFICES ASSUME Init PROVE TreeInv
  OBVIOUS
<1>1. at \in Inode /\ at.level = "nodes" /\ Depth["nodes"] = 0
  BY DEF Init, NodeDir, Inode, Depth
<1>2. path \in Seq(PathName) /\ Len(path) = 0
  BY DEF Init
<1>3. TypeOK
  BY <1>1 DEF Init, TypeOK
<1> QED
  BY <1>1, <1>2, <1>3 DEF TreeInv, IInv, PathNamesInode

LEMMA TreeStep == ASSUME TreeInv, [Next]_vars PROVE TreeInv'
<1>1. CASE Leave
  <2>1. at'.level = "nodes" /\ at' \in Inode /\ Depth["nodes"] = 0
    BY <1>1 DEF Leave, NodeDir, Inode, Depth
  <2>2. path' \in Seq(PathName) /\ Len(path') = 0
    BY <1>1 DEF Leave
  <2>3. TypeOK'
    BY <1>1, <2>1 DEF Leave, options, TreeInv, IInv, TypeOK
  <2> QED
    BY <2>1, <2>2, <2>3 DEF TreeInv, IInv, PathNamesInode
<1>2. CASE NodeDirReaddir \/ PerNodeDirReaddir \/ NamespaceDirReaddir \/ ResourceTypeDirReaddir
  <2>1. UNCHANGED <<options, at, path>>
    BY <1>2 DEF NodeDirReaddir, PerNodeDirReaddir, NamespaceDirReaddir, ResourceTypeDirReaddir, List
  <2> QED
    BY <2>1, TreeInvStays
<1>3. CASE UNCHANGED vars
  <2>1. UNCHANGED <<options, at, path>>
    BY <1>3 DEF vars
  <2> QED
    BY <2>1, TreeInvStays
<1> QED
  BY <1>1, <1>2, <1>3, LookupStep DEF Next
-----------------------------------------------------------------------------
(* Whatever is listed, Readdir and Lookup agree on it.                      *)
LEMMA ReaddirStep ==
    ASSUME TreeInv, UNCHANGED <<options, at>>,
           NodeDirReaddir \/ PerNodeDirReaddir \/ NamespaceDirReaddir \/ ResourceTypeDirReaddir
    PROVE  ListedIsFound'
<1>1. TypeOK /\ nodes' = nodes /\ labels' = labels /\ format' = format /\ at' = at
  BY DEF TreeInv, IInv, options
<1>2. \A n : DistinctlyNamed(n)' <=> DistinctlyNamed(n)
  BY <1>1 DEF DistinctlyNamed, displayName
<1>3. \A name : Found(name)' = Found(name)
  BY <1>1 DEF Found, buildNodeLabels, displayName, KnownExt
<1> SUFFICES ASSUME NEW e \in listed'
             PROVE  \/ at.level = "nodes" /\ ~ DistinctlyNamed(e.of)
                    \/ at.level = "type" /\ "+" \in Elements(e.of)
                    \/ Found(e.name) = e.of
  BY <1>1, <1>2, <1>3 DEF ListedIsFound
<1>4. CASE NodeDirReaddir
  <2>1. PICK n \in Elements(nodes) : e.name = displayName(n) /\ e.of = n
    BY <1>4 DEF NodeDirReaddir, List
  <2>2. at.level = "nodes"
    BY <1>4 DEF NodeDirReaddir
  <2>3. DistinctlyNamed(n) => Found(displayName(n)) = n
    BY <1>1, <2>2, NodeFound DEF Found
  <2> QED
    BY <2>1, <2>2, <2>3
<1>5. CASE PerNodeDirReaddir
  <2>1. PICK ns \in namespaceNames(at.defs) : e.name = ns /\ e.of = ns
    BY <1>5 DEF PerNodeDirReaddir, List
  <2>2. at.level = "node" /\ findNamespace(at.defs, ns)
    BY <1>5 DEF PerNodeDirReaddir, namespaceNames, findNamespace
  <2> QED
    BY <2>1, <2>2 DEF Found
<1>6. CASE NamespaceDirReaddir
  <2>1. PICK rd \in children(at.defs, at.ns) : e.name = displayNameFor(rd) /\ e.of = rd
    BY <1>6 DEF NamespaceDirReaddir, List
  <2>2. at.level = "namespace" /\ at.defs \in Catalogs
    BY <1>1, <1>6 DEF NamespaceDirReaddir, TypeOK
  <2>3. findResourceType(at.defs, at.ns, displayNameFor(rd)) = rd
    BY <2>2, CatalogDefs, TypeFound
  <2> QED
    BY <2>1, <2>2, <2>3 DEF Found
<1>7. CASE ResourceTypeDirReaddir
  <2>1. PICK id \in Ids : /\ e.name = [id |-> escapeID(id), ext |-> fileExtensionFor]
                          /\ e.of = id
    BY <1>7 DEF ResourceTypeDirReaddir, List
  <2>2. at.level = "type"
    BY <1>7 DEF ResourceTypeDirReaddir
  <2>3. KnownExt(e.name) /\ e.name.id = escapeID(id)
    BY <2>1 DEF KnownExt, fileExtensionFor
  <2>4. "+" \notin Elements(id) => unescapeID(escapeID(id)) = id
    BY TreeAssumption, Escapes
  <2>5. Found(e.name) = unescapeID(e.name.id)
    BY <2>2, <2>3 DEF Found
  <2> QED
    BY <2>1, <2>2, <2>3, <2>4, <2>5
<1> QED
  BY <1>4, <1>5, <1>6, <1>7

LEMMA ListedStep == ASSUME TreeInv, ListedIsFound, [Next]_vars PROVE ListedIsFound'
<1>1. CASE NodeDirReaddir \/ PerNodeDirReaddir \/ NamespaceDirReaddir \/ ResourceTypeDirReaddir
  <2>1. UNCHANGED <<options, at>>
    BY <1>1 DEF NodeDirReaddir, PerNodeDirReaddir, NamespaceDirReaddir, ResourceTypeDirReaddir, List
  <2> QED
    BY <1>1, <2>1, ReaddirStep
<1>2. CASE listed' = {}
  BY <1>2 DEF ListedIsFound
<1>3. CASE UNCHANGED vars
  <2>1. nodes' = nodes /\ labels' = labels /\ format' = format /\ at' = at /\ listed' = listed
    BY <1>3 DEF vars, options
  <2>2. \A n : DistinctlyNamed(n)' <=> DistinctlyNamed(n)
    BY <2>1 DEF DistinctlyNamed, displayName
  <2>3. \A name : Found(name)' = Found(name)
    BY <2>1 DEF Found, buildNodeLabels, displayName, KnownExt
  <2> QED
    BY <2>1, <2>2, <2>3 DEF ListedIsFound
<1>4. ASSUME NEW name \in Nodes \cup Hosts, NodeDirLookup(name) PROVE listed' = {}
  BY ONLY <1>4, Zenon DEF NodeDirLookup, Enter
<1>5. ASSUME NEW ns \in Namespaces, PerNodeDirLookup(ns) PROVE listed' = {}
  BY ONLY <1>5, Zenon DEF PerNodeDirLookup, Enter
<1>6. ASSUME NEW name \in Name, NamespaceDirLookup(name) PROVE listed' = {}
  BY ONLY <1>6, Zenon DEF NamespaceDirLookup, Enter
<1>7. ASSUME NEW file \in FileNames, ResourceTypeDirLookup(file) PROVE listed' = {}
  BY ONLY <1>7, Zenon DEF ResourceTypeDirLookup, Enter
<1>8. Leave => listed' = {}
  BY DEF Leave
<1> QED
  BY <1>1, <1>2, <1>3, <1>4, <1>5, <1>6, <1>7, <1>8 DEF Next

-----------------------------------------------------------------------------
(* What a process that saves has in hand: a document of the inode it is in, *)
(* and an update of the resource the inode stands for.                      *)
OfInode == \E n \in Integers64 :
             got = [ns |-> at.ns, type |-> at.rd.type, id |-> at.id, spec |-> n]
Read == got # None \/ doc # None \/ pushed # None => at.level = "file" /\ OfInode
Pushed ==
    pushed # None =>
        /\ pushed.node = at.node
        /\ pushed.resource = ParseResource(doc) /\ pushed.resource # None
        /\ metadataMatchesFile(pushed.resource)
        /\ pushed.dropped = UpdatedKey(pushed.resource)
SaveInv == TreeInv /\ ListedIsFound /\ Read /\ Pushed

LEMMA StaysInTree ==
    ASSUME TreeInv, ListedIsFound, UNCHANGED vars
    PROVE  /\ TreeInv' /\ ListedIsFound'
           /\ at' = at /\ path' = path /\ format' = format
           /\ \A d : ParseResource(d)' = ParseResource(d)
           /\ \A r : metadataMatchesFile(r)' <=> metadataMatchesFile(r)
           /\ \A r : UpdatedKey(r)' = UpdatedKey(r)
<1>1. TreeInv' /\ ListedIsFound'
  BY TreeStep, ListedStep
<1>2. at' = at /\ path' = path /\ format' = format
  BY DEF vars, options
<1>3. \A d : ParseResource(d)' = ParseResource(d)
  BY <1>2 DEF ParseResource, jsonNumber
<1> QED
  BY <1>1, <1>2, <1>3 DEF metadataMatchesFile, UpdatedKey

LEMMA SaveStep == ASSUME SaveInv, [SaveNext]_saveVars PROVE SaveInv'
<1>1. TreeInv /\ ListedIsFound /\ Read /\ Pushed
  BY DEF SaveInv
<1>2. CASE Walk
  <2>1. TreeInv' /\ ListedIsFound'
    BY <1>1, <1>2, TreeStep, ListedStep DEF Walk
  <2>2. got' = None /\ doc' = None /\ pushed' = None
    BY <1>2 DEF Walk
  <2> QED
    BY <2>1, <2>2 DEF SaveInv, Read, Pushed
<1>3. CASE ReadFile
  <2>1. UNCHANGED vars /\ pushed' = None /\ at.level = "file"
    BY <1>3 DEF ReadFile
  <2>2. OfInode'
    BY <1>3, <2>1 DEF ReadFile, OfInode, vars
  <2>3. TreeInv' /\ ListedIsFound' /\ at' = at
    BY <1>1, <2>1, StaysInTree
  <2> QED
    BY <2>1, <2>2, <2>3 DEF SaveInv, Read, Pushed
<1>4. CASE Edit
  <2>1. UNCHANGED vars /\ got' = got /\ pushed' = pushed /\ got # None /\ pushed = None
    BY <1>4 DEF Edit
  <2>2. TreeInv' /\ ListedIsFound' /\ at' = at
    BY <1>1, <2>1, StaysInTree
  <2>3. Read'
    BY <1>1, <2>1, <2>2 DEF Read, OfInode
  <2> QED
    BY <2>1, <2>2, <2>3 DEF SaveInv, Pushed
<1>5. CASE Flush
  <2> DEFINE r == ParseResource(doc)
  <2>1. UNCHANGED vars /\ got' = got /\ doc' = doc /\ doc # None /\ r # None /\ metadataMatchesFile(r)
        /\ pushed' = [node |-> at.node, resource |-> r, dropped |-> UpdatedKey(r)]
    BY <1>5 DEF Flush
  <2> HIDE DEF r
  <2>2. /\ TreeInv' /\ ListedIsFound' /\ at' = at /\ ParseResource(doc)' = r
        /\ metadataMatchesFile(r)' /\ UpdatedKey(r)' = UpdatedKey(r)
    BY <1>1, <2>1, StaysInTree DEF r
  <2>3. Read'
    BY <1>1, <2>1, <2>2 DEF Read, OfInode
  <2>4. pushed'.node = at.node /\ pushed'.resource = r /\ pushed'.dropped = UpdatedKey(r)
    BY <2>1
  <2>5. Pushed'
    BY <2>1, <2>2, <2>4 DEF Pushed, metadataMatchesFile, UpdatedKey
  <2> QED
    BY <2>2, <2>3, <2>5 DEF SaveInv
<1>6. CASE UNCHANGED saveVars
  <2>1. UNCHANGED vars /\ got' = got /\ doc' = doc /\ pushed' = pushed
    BY <1>6 DEF saveVars, saving
  <2>2. TreeInv' /\ ListedIsFound' /\ at' = at
    BY <1>1, <2>1, StaysInTree
  <2>3. Read'
    BY <1>1, <2>1, <2>2 DEF Read, OfInode
  <2>4. Pushed'
    <3>1. /\ ParseResource(doc)' = ParseResource(doc)
          /\ metadataMatchesFile(pushed.resource)' <=> metadataMatchesFile(pushed.resource)
          /\ UpdatedKey(pushed.resource)' = UpdatedKey(pushed.resource)
      BY <1>1, <2>1, StaysInTree
    <3> QED
      BY <1>1, <2>1, <2>2, <3>1 DEF Pushed
  <2> QED
    BY <2>2, <2>3, <2>4 DEF SaveInv
<1> QED
  BY <1>2, <1>3, <1>4, <1>5, <1>6 DEF SaveNext

-----------------------------------------------------------------------------
(* The walk and the save keep their invariant, for every catalog, label and *)
(* ID, whatever a process looks up, lists and edits.                        *)
THEOREM SaveInvariance == SaveSpec => []SaveInv
<1>1. SaveInit => SaveInv
  <2> SUFFICES ASSUME SaveInit PROVE SaveInv
    OBVIOUS
  <2>1. TreeInv
    BY TreeInit DEF SaveInit
  <2>2. listed = {} /\ got = None /\ doc = None /\ pushed = None
    BY DEF SaveInit, Init
  <2> QED
    BY <2>1, <2>2 DEF SaveInv, ListedIsFound, Read, Pushed
<1>2. SaveInv /\ [SaveNext]_saveVars => SaveInv'
  BY SaveStep
<1> QED
  BY <1>1, <1>2, PTL DEF SaveSpec

(* An inode has the fields of its level, which the length of its path says. *)
THEOREM TreeInvariance == SaveSpec => []IInv
<1>1. SaveInv => IInv
  BY DEF SaveInv, TreeInv
<1> QED
  BY <1>1, SaveInvariance, PTL

(* The names of a path are those its inode's node, namespace, type and ID   *)
(* are shown under.                                                         *)
THEOREM PathNamesTheorem == SaveSpec => []PathNamesInode
<1>1. SaveInv => PathNamesInode
  BY DEF SaveInv, TreeInv, IInv
<1> QED
  BY <1>1, SaveInvariance, PTL

(* Readdir and Lookup agree, but for names two nodes share and '+' in IDs.  *)
THEOREM ListedTheorem == SaveSpec => []ListedIsFound
<1>1. SaveInv => ListedIsFound
  BY DEF SaveInv
<1> QED
  BY <1>1, SaveInvariance, PTL

(* A save goes to the node and the resource that the path names.            *)
THEOREM SavedTheorem == SaveSpec => []SavedWherePathSays
<1>1. SaveInv => SavedWherePathSays
  <2> SUFFICES ASSUME SaveInv, pushed # None
               PROVE  /\ displayName(pushed.node) = path[1]
                      /\ pushed.resource.ns = path[2]
                      /\ pushed.resource.type = at.rd.type /\ displayNameFor(at.rd) = path[3]
                      /\ escapeID(pushed.resource.id) = path[4].id
    BY DEF SavedWherePathSays
  <2>1. Len(path) = 4
    BY DEF SaveInv, Read, TreeInv, IInv, Depth
  <2>2. /\ path[1] = displayName(at.node) /\ path[2] = at.ns
        /\ path[3] = displayNameFor(at.rd) /\ path[4].id = escapeID(at.id)
    BY <2>1 DEF SaveInv, TreeInv, IInv, PathNamesInode
  <2>3. /\ pushed.node = at.node /\ pushed.resource.ns = at.ns
        /\ pushed.resource.type = at.rd.type /\ pushed.resource.id = at.id
    BY DEF SaveInv, Pushed, metadataMatchesFile
  <2> QED
    BY <2>2, <2>3
<1> QED
  BY <1>1, SaveInvariance, PTL

(* A document that was not edited is no change of the resource, unless it   *)
(* is JSON and holds an integer that a float64 does not.                    *)
THEOREM UneditedTheorem == SaveSpec => []UneditedIsFaithful
<1>1. SaveInv => UneditedIsFaithful
  <2> SUFFICES ASSUME SaveInv, pushed # None, doc = FormatResource(got),
                      format = "json" => ~ (got.spec > 2 ^ Mantissa)
               PROVE  pushed.resource = got
    BY DEF UneditedIsFaithful
  <2>1. PICK n \in Integers64 : got = [ns |-> at.ns, type |-> at.rd.type, id |-> at.id, spec |-> n]
    BY DEF SaveInv, Read, OfInode
  <2>2. pushed.resource = ParseResource(doc) /\ pushed.resource # None
    BY DEF SaveInv, Pushed
  <2>3. n \in Int /\ n # None /\ 2 ^ Mantissa \in Int
    BY SaveAssumption
  <2>4. jsonNumber(n) = n
    BY <2>1, <2>3 DEF jsonNumber, asFloat
  <2>5. /\ doc.mapping = TRUE /\ splitMetadataSpec(doc.spec) = n
        /\ splitMetadataSpec(doc.metadata) = Identity(got)
    BY <2>1 DEF FormatResource, Document, splitMetadataSpec
  <2>6. ParseResource(doc) = [ns |-> at.ns, type |-> at.rd.type, id |-> at.id, spec |-> n]
    BY <2>1, <2>2, <2>3, <2>4, <2>5 DEF ParseResource, Identity
  <2> QED
    BY <2>1, <2>2, <2>6
<1> QED
  BY <1>1, SaveInvariance, PTL

(* The list an update drops from the cache is its directory's.              *)
THEOREM DropsTheorem == SaveSpec => []SaveDropsItsList
<1>1. SaveInv => SaveDropsItsList
  BY DEF SaveInv, Pushed, metadataMatchesFile, UpdatedKey, ListedKey, SaveDropsItsList
<1> QED
  BY <1>1, SaveInvariance, PTL
=============================================================================
