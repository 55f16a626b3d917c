----------------------------- MODULE JsonWrites -----------------------------
(***************************************************************************)
(* What is written into a Json is read back: the statements of JsonDom with *)
(* a record of what the last of them wrote, and where.                      *)
(***************************************************************************)
EXTENDS JsonDom

VARIABLE written    \* history: what the last statement wrote, and where

writes == <<state, written>>

NoWrite == [var |-> 0]

\* The place is in a tree, and no member that is null: to write over one
\* appends a second member with its name, behind the first.
Lands(m, h) == ~IsRoot(h) /\ (h.allocated \/ ~IsNull(m, h))

\* The nodes of a value, from the one at its top; a new one is at no node yet.
Top(value) == IF IsCopy(value) THEN value.of ELSE NoNode
NodesOf(m, value) ==
    IF IsCopy(value) THEN [n \in Under(m, value.of) |-> m[n]]
    ELSE [n \in {NoNode} |-> Leaf(value.kind)]

\* A statement writes a value: what it is when the place for it has been found.
Writes(x, path, m, value) ==
    written' = [var |-> x, path |-> path, top |-> Top(value), nodes |-> NodesOf(m, value)]

WritesMember(x, key, value) ==
    LET r == Subscript(mem, vars[x], key)
    IN  /\ SetMember(x, key, value)
        /\ IF Lands(r.mem, r.sub)
           THEN Writes(x, <<key>>, r.mem, Then(value, [vars EXCEPT ![x] = r.self]))
           ELSE written' = NoWrite

WritesDeep(x, key1, key2, value) ==
    LET r1 == Subscript(mem, vars[x], key1)
        r2 == Subscript(r1.mem, r1.sub, key2)
    IN  /\ SetDeep(x, key1, key2, value)
        /\ IF Lands(r1.mem, r1.sub) /\ Lands(r2.mem, r2.sub)
           THEN Writes(x, <<key1, key2>>, r2.mem,
                       Then(value, [vars EXCEPT ![x] = r1.self]))
           ELSE written' = NoWrite

WritesItem(x, i, value) ==
    SetItem(x, i, value) /\ Writes(x, <<i>>, mem, Then(value, vars))

-----------------------------------------------------------------------------

WritesInit == Init /\ written = NoWrite

WritesNext ==
    \/ Declares /\ written' = NoWrite
    \/ Leave /\ written' = NoWrite
    \/ \E x \in DOMAIN vars :
          \/ Does(x) /\ written' = NoWrite
          \/ \E value \in Values :
                \/ \E key \in Keys : WritesMember(x, key, value)
                \/ \E key1, key2 \in Keys : WritesDeep(x, key1, key2, value)
                \/ \E i \in Items(x) : WritesItem(x, i, value)

WritesSpec == WritesInit /\ [][WritesNext]_writes

-----------------------------------------------------------------------------
(* Properties.                                                              *)

\* What a name or a position of the value at n leads to: the first member with
\* the name, the element of an array, if there is one.
Reads(m, n, at) ==
    LET i == IF m[n].kind = "object" THEN json_object_find(m, n, at) ELSE at
    IN  {m[n].items[j].node : j \in {i} \cap DOMAIN m[n].items}

\* A path is a name or a position, or two of them.
Reached(m, n, path) ==
    IF Len(path) = 1 THEN Reads(m, n, path[1])
    ELSE UNION {Reads(m, k, path[2]) : k \in Reads(m, n, path[1])}

\* The tree at n is the one with these nodes and this top: the same kinds, names
\* and order.
Alike(m, nodes, top, n) ==
    \E image \in [DOMAIN nodes -> InUse(m)] :
       /\ image[top] = n
       /\ \A k \in DOMAIN nodes : m[image[k]] = Renamed(nodes[k], image)

\* What a statement has written is read back at the same place, whatever the
\* variable was: a root, a watcher or a placeholder, unless it was written over
\* a null or into a scalar (Json.cc:153-178, 399-470).
WriteRead ==
    written # NoWrite =>
        \E n \in Reached(mem, vars[written.var].node, written.path) :
           Alike(mem, written.nodes, written.top, n)
=============================================================================
