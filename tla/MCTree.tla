--------------------------------- MODULE MCTree ---------------------------------
(* Instances of Save and Tree for TLC, and what the comments say of the     *)
(* tree that TLC refutes.                                                   *)
EXTENDS Save, TLC

CONSTANTS n1, n2, host

Lower(w) == [word |-> w, upper |-> FALSE]
Upper(w) == [word |-> w, upper |-> TRUE]

(* Definitions that meet: one display name within a namespace and across    *)
(* two, through an alias, a canonical name or a difference in case.         *)
Links == [type |-> Upper("links"), ns |-> "network", aliases |-> <<>>]
Alias == [type |-> Upper("routes"), ns |-> "network", aliases |-> <<Lower("links"), Lower("routes")>>]
Other == [type |-> Lower("links"), ns |-> "config", aliases |-> <<>>]
NoNamespace == [type |-> Lower("routes"), ns |-> None, aliases |-> <<>>]

MCCatalogs == { <<Other, Links, Alias>>, <<Alias, NoNamespace, Links>>, <<NoNamespace>> }
MCNodeLists == { <<n1, n2>>, <<n2>>, <<n1, n1>> }
MCIds == { <<"a">>, <<"a", "/", "a">>, <<"a", "+">> }

-----------------------------------------------------------------------------
(* "unescapeID is the inverse of escapeID" (format.go:15): the entry of a   *)
(* resource leads to that resource.  An ID with a '+' becomes another ID.   *)
ListedFileIsFound ==
    at.level = "type" => \A e \in listed : Found(e.name) = e.of
=============================================================================
