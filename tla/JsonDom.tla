------------------------------ MODULE JsonDom ------------------------------
(***************************************************************************)
(* The Json class (source/Base/Json.h, Json.cc) over the nodes of           *)
(* JsonParser.c.                                                            *)
(*                                                                          *)
(* A Json is a handle.  A root owns its node.  A watcher, which operator[]  *)
(* returns for a member that exists, owns nothing: it points into the tree  *)
(* of another Json.  For a member that does not exist operator[] returns a  *)
(* placeholder: it owns a null node of its own and remembers where the      *)
(* first assignment has to put the value.  What a handle is decides what    *)
(* assigning to it means, and assigning to it, or subscripting it, changes  *)
(* what it is.                                                              *)
(*                                                                          *)
(* Each action is a C++ statement with its temporaries, on variables that   *)
(* are declared and go out of scope like a stack.  A node that dies is      *)
(* "dead" up to the end of the statement, then free for the next ones.      *)
(***************************************************************************)
EXTENDS Integers, FiniteSets, Sequences, SequencesExt

CONSTANTS
    MaxLive,        \* bound: nodes in use between two statements
    Keys,           \* names of members
    Scalars,        \* values that are no null, object or array
    MaxVars         \* bound: Json variables in scope at a time

NoKey == ""         \* the key of an element or a root

ASSUME HeapAssumption ==
    /\ MaxLive \in Nat \ {0}
    /\ Scalars \cap {"free", "dead", "null", "object", "array", "copy"} = {}
    /\ NoKey \notin Keys
    /\ MaxVars \in Nat \ {0}

VARIABLES
    mem,            \* node -> json_value_t, with its members or elements
    vars,           \* the Json variables in scope
    stale           \* history: variables that point to a node that has died

state == <<mem, vars, stale>>

\* The heap: a statement may need as many again, and eight temporaries.
Nodes == 1 .. 2 * MaxLive + 8
NoNode == 0

Root(n) == [node |-> n, parent |-> NoNode, allocated |-> TRUE, key |-> NoKey]
Watcher(n, p, key) == [node |-> n, parent |-> p, allocated |-> FALSE, key |-> key]
Placeholder(n, p, key) == [Watcher(n, p, key) EXCEPT !.allocated = TRUE]

-----------------------------------------------------------------------------
(* The nodes (JsonParser.c).                                                *)

Leaf(kind) == [kind |-> kind, items |-> <<>>]

FreeNodes(m) == {n \in Nodes : m[n].kind = "free"}
Fresh(m) == CHOOSE n \in Nodes : m[n].kind = "free"

InUse(m) == {n \in Nodes : m[n].kind \notin {"free", "dead"}}

\* The element of a set that has one.  (TLC evaluates what a set binds once.)
The(S) == CHOOSE x \in S : TRUE

\* The nodes that have a place in a tree.
Held(m) == UNION {{m[k].items[i].node : i \in DOMAIN m[k].items} : k \in Nodes}

\* The nodes of the tree at n: it, and those in every set that has what n and
\* the nodes of the set have.
TreeAt(m, n, held) ==
    LET Whole(S) == \A k \in S : \A i \in DOMAIN m[k].items : m[k].items[i].node \in S
    IN  {n} \cup {k \in held : \A S \in SUBSET held : Whole(S \cup {n}) => k \in S}

Under(m, n) == The({TreeAt(h, k, Held(h)) : h \in {m}, k \in {n}})

json_value_destroy(m, n) ==
    The({[k \in Nodes |-> IF k \in tree THEN Leaf("dead") ELSE h[k]] :
            h \in {m}, tree \in {Under(m, n)}})

\* A node of its own for each node of a tree, the lowest that are free.
Image(tree, free) ==
    LET lowest == {f \in free : Cardinality({l \in free : l < f}) < Cardinality(tree)}
    IN  CHOOSE image \in [tree -> lowest] : IsInjective(image)

\* A node with its members or elements at other nodes.
Renamed(node, image) ==
    [kind |-> node.kind,
     items |-> [i \in DOMAIN node.items |-> [node.items[i] EXCEPT !.node = image[@]]]]

\* The memory with a copy of each node in its image.
Copied(m, image) ==
    [f \in Nodes |-> IF \E k \in DOMAIN image : image[k] = f
                     THEN Renamed(m[CHOOSE k \in DOMAIN image : image[k] = f], image)
                     ELSE m[f]]

\* A copy of the tree at n, in nodes that are free.
json_value_copy(m, n) ==
    The({[mem |-> Copied(h, image), node |-> image[n]] :
            h \in {m}, image \in {Image(tree, free) : tree \in {Under(m, n)},
                                                      free \in {FreeNodes(m)}}})

\* The position of the first member with the name, or 0.
json_object_find(m, n, key) ==
    LET named == {i \in DOMAIN m[n].items : m[n].items[i].key = key}
    IN  IF named = {} THEN 0 ELSE Min(named)

\* The position of an element.
Place(m, owner, n) ==
    CHOOSE i \in DOMAIN m[owner].items : m[owner].items[i].node = n

Appended(m, owner, key, n) ==
    [m EXCEPT ![owner].items = Append(@, [key |-> key, node |-> n])]

-----------------------------------------------------------------------------
(* The handles (Json.h, Json.cc).                                           *)

IsNull(m, h) == m[h.node].kind = "null"
IsRoot(h) == h.parent = NoNode
IsPlaceholder(m, h) == IsNull(m, h) /\ ~IsRoot(h)

destroy_node(m, h) ==
    IF h.allocated THEN json_value_destroy(m, h.node) ELSE m

\* What can be assigned: an empty value, or the value of another Json.
New(kind) == [kind |-> kind, of |-> NoNode]
CopyOf(n) == [kind |-> "copy", of |-> n]
IsCopy(value) == value.kind = "copy"

\* A new node with a value.
NewNode(m, value) ==
    IF IsCopy(value) THEN json_value_copy(m, value.of)
    ELSE [mem |-> [m EXCEPT ![Fresh(m)] = Leaf(value.kind)], node |-> Fresh(m)]

\* to_object, to_array: only a null root changes its type.
Converted(m, h, kind) ==
    IF IsNull(m, h) /\ IsRoot(h) THEN [m EXCEPT ![h.node].kind = kind] ELSE m

\* Mutant: the null of the placeholder is not destroyed.
PlacedLeaking(m, h, value) ==
    LET new == NewNode(m, value)
    IN  [mem |-> Appended(new.mem, h.parent, h.key, new.node),
         self |-> Watcher(new.node, h.parent, h.key)]

\* Mutant: the watcher does not know its name.
PlacedNameless(m, h, value) ==
    LET new == NewNode(destroy_node(m, h), value)
    IN  [mem |-> Appended(new.mem, h.parent, h.key, new.node),
         self |-> Watcher(new.node, h.parent, NoKey)]

\* A placeholder gets its value: its null is destroyed, the value appended to
\* the parent, and the handle is a watcher from then on.  The null that a
\* watcher points to is not its own and stays where it is.
Placed(m, h, value) ==
    LET new == NewNode(destroy_node(m, h), value)
    IN  [mem |-> Appended(new.mem, h.parent, h.key, new.node),
         self |-> Watcher(new.node, h.parent, h.key)]

\* h[key]: the state after it, the handle and the temporary it returns.
Subscript(m, h, key) ==
    LET found == IF m[h.node].kind = "object" THEN json_object_find(m, h.node, key)
                 ELSE 0
        base == IF IsPlaceholder(m, h) THEN Placed(m, h, New("object"))
                ELSE [mem |-> Converted(m, h, "object"), self |-> h]
        null == NewNode(base.mem, New("null"))
    IN  IF found # 0
        THEN [mem |-> m, self |-> h,
              sub |-> Watcher(m[h.node].items[found].node, h.node, key)]
        ELSE [mem |-> null.mem, self |-> base.self,
              sub |-> IF base.mem[base.self.node].kind = "object"
                      THEN Placeholder(null.node, base.self.node, key)
                      ELSE Root(null.node)]

\* normal_push_back, update_arr: the new value is inserted before the old
\* one, which is then removed and destroyed.
Replaced(m, owner, i, value) ==
    LET new == NewNode(m, value)
    IN  json_value_destroy([new.mem EXCEPT ![owner].items[i].node = new.node],
                           m[owner].items[i].node)

\* Mutant: the handle takes the value over, as a move does.
AssignedByMove(m, h, value) ==
    [mem |-> destroy_node(m, h), self |-> [h EXCEPT !.allocated = FALSE]]

\* h = value, for a scalar or an lvalue.  A member is found again by its name,
\* an element by its node.  A root keeps its value if it is assigned a scalar.
Assigned(m, h, value) ==
    CASE IsRoot(h) /\ IsCopy(value) ->
            LET new == NewNode(destroy_node(m, h), value)
            IN  [mem |-> new.mem, self |-> Root(new.node)]
      [] IsRoot(h) /\ ~IsCopy(value) -> [mem |-> m, self |-> h]
      [] ~IsRoot(h) /\ m[h.parent].kind = "array" ->
            [mem |-> Replaced(m, h.parent, Place(m, h.parent, h.node), value),
             self |-> h]
      [] ~IsRoot(h) /\ m[h.parent].kind = "object" ->
            IF IsPlaceholder(m, h) THEN Placed(m, h, value)
            ELSE [mem |-> Replaced(m, h.parent,
                                   json_object_find(m, h.parent, h.key), value),
                  self |-> h]

-----------------------------------------------------------------------------
(* Statements.                                                              *)

\* The end of a statement with memory m and variables hs.
Ends(m, hs) ==
    /\ Cardinality(InUse(m)) <= MaxLive
    /\ mem' = [n \in Nodes |-> IF m[n].kind = "dead" THEN Leaf("free") ELSE m[n]]
    /\ vars' = hs
    /\ stale' = {x \in DOMAIN hs :
                    x \in stale \/ m[hs[x].node].kind = "dead"
                                \/ (~IsRoot(hs[x]) /\ m[hs[x].parent].kind = "dead")}

\* What a statement can assign: a scalar or null, or a variable.
Values == {New(kind) : kind \in Scalars \cup {"null"}}
             \cup {CopyOf(y) : y \in DOMAIN vars \ stale}

\* A variable in a statement is what it is when it is copied.
Then(value, hs) == IF IsCopy(value) THEN CopyOf(hs[value.of].node) ELSE value

\* A placeholder has to be a member: the elements of an array are appended.
Usable(x) ==
    /\ x \notin stale
    /\ IsPlaceholder(mem, vars[x]) => mem[vars[x].parent].kind = "object"

Init ==
    /\ mem = [n \in Nodes |-> Leaf("free")]
    /\ vars = <<>> /\ stale = {}

\* Json x = ...;
Declare(value) ==
    /\ Len(vars) < MaxVars
    /\ LET new == NewNode(mem, Then(value, vars))
       IN  Ends(new.mem, Append(vars, Root(new.node)))

\* Json y = x[key];  the temporary is y.
Watch(x, key) ==
    /\ Len(vars) < MaxVars /\ Usable(x)
    /\ LET r == Subscript(mem, vars[x], key)
       IN  Ends(r.mem, Append([vars EXCEPT ![x] = r.self], r.sub))

\* Json y = x[i];
WatchItem(x, i) ==
    /\ Len(vars) < MaxVars /\ x \notin stale
    /\ mem[vars[x].node].kind = "array"
    /\ Ends(mem, Append(vars, Watcher(mem[vars[x].node].items[i].node,
                                      vars[x].node, NoKey)))

\* x[key] = value;
SetMember(x, key, value) ==
    /\ Usable(x)
    /\ LET r == Subscript(mem, vars[x], key)
           hs == [vars EXCEPT ![x] = r.self]
           v == Then(value, hs)
           a == Assigned(r.mem, r.sub, v)
       IN  Ends(destroy_node(a.mem, a.self), hs)

\* x[key] = std::move(value);  the temporary takes it, the tree does not.
MoveToMember(x, key) ==
    /\ Usable(x)
    /\ LET r == Subscript(mem, vars[x], key)
       IN  Ends(destroy_node(r.mem, r.sub), [vars EXCEPT ![x] = r.self])

\* x[key1][key2] = value;
SetDeep(x, key1, key2, value) ==
    /\ Usable(x)
    /\ LET r1 == Subscript(mem, vars[x], key1)
           r2 == Subscript(r1.mem, r1.sub, key2)
           hs == [vars EXCEPT ![x] = r1.self]
           v == Then(value, hs)
           a == Assigned(r2.mem, r2.sub, v)
       IN  Ends(destroy_node(destroy_node(a.mem, a.self), r2.self), hs)

\* x[i] = value;
SetItem(x, i, value) ==
    /\ x \notin stale
    /\ mem[vars[x].node].kind = "array"
    /\ LET h == Watcher(mem[vars[x].node].items[i].node, vars[x].node, NoKey)
       IN  Ends(Assigned(mem, h, Then(value, vars)).mem, vars)

\* x = value;  not out of the tree that x owns, which is destroyed first.
Assign(x, value) ==
    /\ Usable(x)
    /\ value # CopyOf(x)
    /\ vars[x].allocated /\ IsCopy(value) =>
          vars[value.of].node \notin Under(mem, vars[x].node)
    /\ LET a == Assigned(mem, vars[x], Then(value, vars))
       IN  Ends(a.mem, [vars EXCEPT ![x] = a.self])

\* x.push_back(key, value);  Of a value that is no object it does nothing,
\* except that for a watcher of one in an object can_obj_push_back says yes and
\* the append writes through a null pointer: that statement is left out.
PushMember(x, key, value) ==
    /\ Usable(x)
    /\ IF IsPlaceholder(mem, vars[x])
       THEN LET new == NewNode(mem, Then(value, vars))
                p == Placed(new.mem, vars[x], New("object"))
            IN  Ends(Appended(p.mem, p.self.node, key, new.node),
                     [vars EXCEPT ![x] = p.self])
       ELSE LET m == Converted(mem, vars[x], "object")
                new == NewNode(m, Then(value, vars))
            IN  /\ m[vars[x].node].kind = "object"
                /\ Ends(Appended(new.mem, vars[x].node, key, new.node), vars)

\* x.push_back(value);
Push(x, value) ==
    /\ Usable(x)
    /\ IF IsPlaceholder(mem, vars[x])
       THEN LET new == NewNode(mem, Then(value, vars))
                p == Placed(new.mem, vars[x], New("array"))
            IN  Ends(Appended(p.mem, p.self.node, NoKey, new.node),
                     [vars EXCEPT ![x] = p.self])
       ELSE LET m == Converted(mem, vars[x], "array")
                new == NewNode(m, Then(value, vars))
            IN  /\ m[vars[x].node].kind = "array"
                /\ Ends(Appended(new.mem, vars[x].node, NoKey, new.node), vars)

\* x.erase(key);  x.erase(i);
Erase(x, i) ==
    /\ x \notin stale
    /\ LET n == vars[x].node
       IN  /\ mem[n].kind = "object" => 
                i = json_object_find(mem, n, mem[n].items[i].key)
           /\ Ends(json_value_destroy([mem EXCEPT ![n].items = RemoveAt(@, i)],
                                      mem[n].items[i].node), vars)

\* The last variable goes out of scope.
Leave ==
    /\ vars # <<>>
    /\ Ends(destroy_node(mem, vars[Len(vars)]), Front(vars))

Items(x) == DOMAIN mem[vars[x].node].items

\* The statements that write a value into a tree by name or position.
SetsAt(x, value) ==
    \/ \E key \in Keys : SetMember(x, key, value)
    \/ \E key1, key2 \in Keys : SetDeep(x, key1, key2, value)
    \/ \E i \in Items(x) : SetItem(x, i, value)

\* The others.
Does(x) ==
    \/ \E key \in Keys : Watch(x, key) \/ MoveToMember(x, key)
    \/ \E i \in Items(x) : WatchItem(x, i) \/ Erase(x, i)
    \/ \E value \in Values :
          \/ Assign(x, value) \/ Push(x, value)
          \/ \E key \in Keys : PushMember(x, key, value)

Declares == \E value \in Values \cup {New("object"), New("array")} : Declare(value)

Next ==
    \/ Declares \/ Leave
    \/ \E x \in DOMAIN vars : Does(x) \/ \E value \in Values : SetsAt(x, value)

Spec == Init /\ [][Next]_state

-----------------------------------------------------------------------------
(* Properties.                                                              *)

\* Every node in use has exactly one owner, a place in a tree or a variable,
\* and no owner has a node that is not in use; and it is in the tree of a
\* variable that owns one: nothing leaks, nothing is freed twice, no tree shares
\* a part with another or goes round in a circle (Json.cc:67-114, Json.h:579-585).
OwnedOnce ==
    LET slots == UNION {{<<n, i>> : i \in DOMAIN mem[n].items} : n \in Nodes}
        Owners(n) == Cardinality({s \in slots : mem[s[1]].items[s[2]].node = n})
                       + Cardinality({x \in DOMAIN vars : /\ vars[x].allocated
                                                         /\ vars[x].node = n})
    IN  /\ \A n \in Nodes : Owners(n) = IF n \in InUse(mem) THEN 1 ELSE 0
        /\ \A n \in InUse(mem) : \E x \in DOMAIN vars :
               vars[x].allocated /\ n \in Under(mem, vars[x].node)

\* As long as nothing has died under it, a watcher points to what its parent
\* has under its name, whatever else was done to the tree (Json.cc:158-176).
WatchersTrue ==
    \A x \in DOMAIN vars \ stale :
        LET h == vars[x]
        IN  /\ mem[h.node].kind # "free"
            /\ ~IsRoot(h) => mem[h.parent].kind \in {"object", "array"}
            /\ ~h.allocated =>
                  \E i \in DOMAIN mem[h.parent].items :
                     mem[h.parent].items[i] = [key |-> h.key, node |-> h.node]
=============================================================================
