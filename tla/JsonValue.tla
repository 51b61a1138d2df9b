----------------------------- MODULE JsonValue -----------------------------
(***************************************************************************)
(* parson's values in memory: blocks with a type, a parent and, in arrays  *)
(* and objects, the values they own.  An operation is an operator from one *)
(* memory to the next.  A memory m is a record:                            *)
(*   heap   what is in each block, FREE for a block nobody has allocated   *)
(*   fuel   the allocations that still succeed; none does after the last   *)
(*   twice  has a block been freed that was free?                          *)
(*   got    the value the last operation returned, or NULL                 *)
(*   ok     did it return JSONSuccess?                                     *)
(* An object's table is JsonObject's subject; here it is the two lists of  *)
(* names and values in their order.  The array and the table behind a      *)
(* value are allocated and freed with it.  What the code does by recursion *)
(* is a set, or a function on the numbers, so that it can be proved about. *)
(***************************************************************************)
EXTENDS Naturals, FiniteSets, SequencesExt

CONSTANTS
    NULL,          \* no value
    FREE,          \* what is in a free block, and a pointer into one
    Nodes          \* the blocks there are (a bound)

Types == {"array", "object", "string", "number", "boolean", "null"}

Pointers == {NULL, FREE} \cup Nodes

Cells ==
    [type : Types, parent : Pointers, names : Seq(Seq(STRING)), items : Seq(Nodes),
     text : Seq(STRING)]

Memories ==
    [heap : [Nodes -> Cells \cup {FREE}], fuel : Nat, twice : BOOLEAN,
     got : Nodes \cup {NULL}, ok : BOOLEAN]

ASSUME NodesAssumption == IsFiniteSet(Nodes)
ASSUME PointersAssumption == NULL \notin Nodes /\ FREE \notin Nodes /\ NULL # FREE
ASSUME FreeAssumption == FREE \notin Cells

Block(type, text) ==
    [type |-> type, parent |-> NULL, names |-> <<>>, items |-> <<>>, text |-> text]

Failure(m) == [m EXCEPT !.ok = FALSE, !.got = NULL]
Success(m) == [m EXCEPT !.ok = TRUE]

\* parson_malloc() for something other than a value.
Malloc(m) == IF m.fuel = 0 THEN Failure(m) ELSE Success([m EXCEPT !.fuel = @ - 1])

-----------------------------------------------------------------------------
\* Values

Allocated(h, v, block) == [h EXCEPT ![v] = block]

json_value_init(m, block) ==
    LET free == {n \in Nodes : m.heap[n] = FREE}
    IN  IF m.fuel = 0 \/ free = {} THEN Failure(m)
        ELSE LET v == CHOOSE n \in free : TRUE
             IN  [m EXCEPT !.heap = Allocated(@, v, block), !.fuel = @ - 1, !.got = v, !.ok = TRUE]

Kids(h, n) == IF h[n] = FREE THEN {} ELSE ToSet(h[n].items)

\* v and the values below it: the least set with v and the items of its members.
Closed(h, S) == \A n \in S : Kids(h, n) \subseteq S
Below(h, v) == {n \in Nodes : \A S \in SUBSET Nodes : v \in S /\ Closed(h, S) => n \in S}

\* The heap without the blocks of S: a pointer to one of them is now FREE,
\* whatever the block is used for next.
Unallocated(h, S) ==
    [n \in Nodes |->
       IF n \in S \/ h[n] = FREE THEN FREE
       ELSE IF h[n].parent \in S THEN [h[n] EXCEPT !.parent = FREE]
       ELSE h[n]]

\* Does something in S lead to n in two places?
Shared(h, S, n) ==
    \E a, b \in S :
        /\ n \in Kids(h, a) \cap Kids(h, b)
        /\ a # b \/ \E i, j \in DOMAIN h[a].items : i # j /\ h[a].items[i] = n /\ h[a].items[j] = n

\* The blocks of S are freed, each as often as the values in "walked" lead to it.
FreeAll(m, S, walked) ==
    [m EXCEPT !.heap = Unallocated(@, S),
              !.twice = @ \/ \E n \in S : m.heap[n] = FREE \/ Shared(m.heap, walked, n)]

\* The value and, by recursion, all it owns.
json_value_free(m, v) ==
    IF v = NULL THEN m ELSE FreeAll(m, Below(m.heap, v), Below(m.heap, v))

-----------------------------------------------------------------------------
\* Arrays

\* What container c holds: these values under these names.
Filled(h, c, names, items) == [h EXCEPT ![c].names = names, ![c].items = items]

\* The same, when v is new among them.
Taken(h, c, names, items, v) == [Filled(h, c, names, items) EXCEPT ![v].parent = c]

\* The room may have to grow, and that may fail.
json_array_add(m, array, v) ==
    LET grown == Malloc(m)
    IN  IF ~grown.ok THEN grown
        ELSE [grown EXCEPT !.heap = Taken(@, array, <<>>, Append(@[array].items, v), v)]

json_array_append_value(m, array, v) ==
    IF m.heap[v].parent # NULL THEN Failure(m) ELSE json_array_add(m, array, v)

\* Faulty variant: the value that replaces another is not told its parent.
json_array_replace_value_orphan(m, array, i, v) ==
    IF m.heap[v].parent # NULL \/ i \notin DOMAIN m.heap[array].items THEN Failure(m)
    ELSE Success([json_value_free(m, m.heap[array].items[i]) EXCEPT !.heap[array].items[i] = v])

json_array_replace_value(m, array, i, v) ==
    LET items == m.heap[array].items
        freed == json_value_free(m, items[i])
    IN  IF m.heap[v].parent # NULL \/ i \notin DOMAIN items THEN Failure(m)
        ELSE Success([freed EXCEPT !.heap = Taken(@, array, <<>>, [items EXCEPT ![i] = v], v)])

json_array_remove(m, array, i) ==
    LET items == m.heap[array].items
        freed == json_value_free(m, items[i])
    IN  IF i \notin DOMAIN items THEN Failure(m)
        ELSE Success([freed EXCEPT !.heap = Filled(@, array, <<>>, RemoveAt(items, i))])

\* json_array_clear(), json_object_clear().
Clear(m, v) ==
    LET freed == FreeAll(m, Below(m.heap, v) \ {v}, Below(m.heap, v))
    IN  Success([freed EXCEPT !.heap = Filled(@, v, <<>>, <<>>)])

-----------------------------------------------------------------------------
\* Objects

\* Where the name is, or 0.
IndexOf(h, object, name) ==
    LET at == {i \in DOMAIN h[object].names : h[object].names[i] = name}
    IN  IF at = {} THEN 0 ELSE CHOOSE i \in at : \A j \in at : i <= j

json_object_getn_value(h, object, name) ==
    LET i == IndexOf(h, object, name)
    IN  IF i = 0 THEN NULL ELSE h[object].items[i]

\* A new item, with room or with a table that has grown.
Insert(m, object, name, v) ==
    LET grown == Malloc(m)
    IN  IF ~grown.ok THEN grown
        ELSE [grown EXCEPT !.heap = Taken(@, object, Append(@[object].names, name),
                                          Append(@[object].items, v), v)]

json_object_add(m, object, name, v) ==
    IF IndexOf(m.heap, object, name) # 0 THEN Failure(m) ELSE Insert(m, object, name, v)

\* Faulty variant: a name that the object has is inserted once more.
json_object_set_value_again(m, object, name, v) ==
    IF v = NULL THEN Failure(m)
    ELSE IF m.heap[v].parent # NULL THEN Failure(m)
    ELSE Insert(m, object, name, v)

\* The name's copy and the room for it may both fail, with the same effect.
json_object_set_value(m, object, name, v) ==
    LET i == IndexOf(m.heap, object, name)
        names == m.heap[object].names
        items == m.heap[object].items
        freed == json_value_free(m, items[i])
    IN  IF v = NULL THEN Failure(m)
        ELSE IF m.heap[v].parent # NULL THEN Failure(m)
        ELSE IF i = 0 THEN Insert(m, object, name, v)
        ELSE Success([freed EXCEPT !.heap = Taken(@, object, names, [items EXCEPT ![i] = v], v)])

\* The last item moves into the hole.
Close(s, i) == Front([s EXCEPT ![i] = s[Len(s)]])

\* Faulty variant: the name is left behind when the last item moves.
json_object_remove_internal_unnamed(m, object, name, free_value) ==
    LET i == IndexOf(m.heap, object, name)
        freed == IF free_value THEN json_value_free(m, m.heap[object].items[i]) ELSE m
    IN  IF i = 0 THEN Failure(m)
        ELSE Success([freed EXCEPT !.heap[object].names = Front(@),
                                   !.heap[object].items = Close(@, i)])

json_object_remove_internal(m, object, name, free_value) ==
    LET i == IndexOf(m.heap, object, name)
        names == m.heap[object].names
        items == m.heap[object].items
        freed == IF free_value THEN json_value_free(m, items[i]) ELSE m
    IN  IF i = 0 THEN Failure(m)
        ELSE Success([freed EXCEPT !.heap = Filled(@, object, Close(names, i), Close(items, i))])

-----------------------------------------------------------------------------
\* Dotted names: sequences of names

\* The objects on the way down: the k-th is to hold the k-th name.  NULL if
\* there is none, or if the value there is no object.
Way(h, object, path) ==
    LET at[k \in 1 .. Len(path)] ==
          IF k = 1 THEN object
          ELSE LET v == IF at[k - 1] = NULL THEN NULL
                        ELSE json_object_getn_value(h, at[k - 1], path[k - 1])
               IN  IF v = NULL THEN NULL ELSE IF h[v].type # "object" THEN NULL ELSE v
    IN  at

json_object_dotget_value(h, object, path) ==
    LET last == Way(h, object, path)[Len(path)]
    IN  IF last = NULL THEN NULL ELSE json_object_getn_value(h, last, path[Len(path)])

json_object_dotremove_internal(m, object, path, free_value) ==
    LET last == Way(m.heap, object, path)[Len(path)]
    IN  IF last = NULL THEN Failure(m)
        ELSE json_object_remove_internal(m, last, path[Len(path)], free_value)

\* Faulty variant: the caller's value is freed with the objects made for it.
GiveUpFreeing(m, object, path) == Failure(json_value_free(m, object))

\* A name or its item has failed: the objects made so far are freed, but not
\* the caller's value.  The value keeps its parent, which is FREE now.
GiveUp(m, object, path) ==
    Failure(json_value_free(json_object_dotremove_internal(m, object, path, FALSE), object))

\* The object does not have the first name: an object is made for every other
\* name, made[k] for the k-th, and on the way back one is put into the other:
\* set[k] is what setting all but n - k - 1 names has come to.
SetMaking(m, object, path, v) ==
    LET n == Len(path)
        made[k \in 1 .. n] ==
          IF k = 1 THEN [m EXCEPT !.got = object, !.ok = TRUE]
          ELSE IF ~made[k - 1].ok THEN made[k - 1]
          ELSE json_value_init(made[k - 1], Block("object", <<>>))
        set[k \in 0 .. n - 1] ==
          LET inner == set[k - 1]
              new == made[n - k + 1].got
              rest == SubSeq(path, n - k + 1, n)
              named == Malloc(inner)
              added == json_object_add(named, made[n - k].got, path[n - k], new)
          IN  IF ~made[n - k].ok THEN made[n - k]
              ELSE IF k = 0 THEN json_object_set_value(made[n], made[n].got, path[n], v)
              ELSE IF ~made[n - k + 1].ok THEN made[n - k + 1]
              ELSE IF ~inner.ok THEN Failure(json_value_free(inner, new))
              ELSE IF ~named.ok THEN GiveUp(inner, new, rest)
              ELSE IF ~added.ok THEN GiveUp(named, new, rest)
              ELSE added
    IN  set[n - 1]

json_object_dotset_value(m, object, path, v) ==
    LET n == Len(path)
        at == Way(m.heap, object, path)
        k == CHOOSE j \in 1 .. n : at[j] # NULL /\ (j < n => at[j + 1] = NULL)
    IN  IF k = n THEN json_object_set_value(m, at[n], path[n], v)
        ELSE IF json_object_getn_value(m.heap, at[k], path[k]) # NULL THEN Failure(m)
        ELSE SetMaking(m, at[k], SubSeq(path, k, n), v)

-----------------------------------------------------------------------------
\* Copies

\* Faulty variant: the copy of an array is not freed when an item fails.
GiveUpCopyLeaking(m, copy) == Failure(m)

\* An item or its name could not be copied.
GiveUpCopy(m, copy) == Failure(json_value_free(m, copy))

\* The i-th item of "from" is copied with f, and its copy is added to c.
CopyItem(f, m, from, i, c) ==
    LET item == f[<<m, from.items[i]>>]
        named == IF from.type = "object" THEN Malloc(item) ELSE item
        added == IF from.type = "object"
                 THEN json_object_add(named, c, from.names[i], item.got)
                 ELSE json_array_add(named, c, item.got)
    IN  IF ~item.ok THEN GiveUpCopy(item, c)
        ELSE IF ~named.ok \/ ~added.ok THEN GiveUpCopy(json_value_free(named, item.got), c)
        ELSE [added EXCEPT !.got = c]

\* A value is made, and the copies of the items are added one after the other.
CopyBy(f, m, v) ==
    LET from == m.heap[v]
        made == json_value_init(m, Block(from.type, from.text))
        done[i \in 0 .. Len(from.items)] ==
          IF i = 0 THEN made
          ELSE IF ~done[i - 1].ok THEN done[i - 1]
          ELSE CopyItem(f, done[i - 1], from, i, made.got)
    IN  done[Len(from.items)]

\* copied[k] copies the values that are less than k deep, and no value is
\* deeper than there are blocks.
json_value_deep_copy(m, v) ==
    LET copied[k \in 0 .. Cardinality(Nodes)] ==
          [x \in Memories \X Nodes |->
             IF k = 0 THEN Failure(x[1]) ELSE CopyBy(copied[k - 1], x[1], x[2])]
    IN  copied[Cardinality(Nodes)][<<m, v>>]
-----------------------------------------------------------------------------
\* Comparison, validation

\* Faulty variant: the members of an object are compared in their order.
CounterpartInOrder(h, a, i, b) == h[b].items[i]

\* What the i-th item of a is compared with.
Counterpart(h, a, i, b) ==
    IF h[a].type = "object" THEN json_object_getn_value(h, b, h[a].names[i]) ELSE h[b].items[i]

\* The items are compared with f. Numbers are symbols and compared exactly, where the
\* code allows a difference of less than 0.000001.
EqualBy(f, h, a, b) ==
    /\ h[a].type = h[b].type
    /\ h[a].text = h[b].text
    /\ Len(h[a].items) = Len(h[b].items)
    /\ \A i \in DOMAIN h[a].items :
          LET other == Counterpart(h, a, i, b)
          IN  other # NULL /\ f[<<h[a].items[i], other>>]

\* equal[k] compares the values that are less than k deep.
json_value_equals(h, a, b) ==
    LET equal[k \in 0 .. Cardinality(Nodes)] ==
          [p \in Nodes \X Nodes |-> k = 0 \/ EqualBy(equal[k - 1], h, p[1], p[2])]
    IN  equal[Cardinality(Nodes)][<<a, b>>]

\* The first item of an array is the schema of all; a null allows anything.
ValidBy(f, h, schema, v) ==
    LET items == h[schema].items
    IN  \/ h[schema].type = "null"
        \/ /\ h[schema].type = h[v].type
           /\ h[schema].type = "array" /\ items # <<>> =>
                \A i \in DOMAIN h[v].items : f[<<items[1], h[v].items[i]>>]
           /\ h[schema].type = "object" =>
                \A i \in DOMAIN items :
                    LET member == json_object_getn_value(h, v, h[schema].names[i])
                    IN  member # NULL /\ f[<<items[i], member>>]

json_validate(h, schema, v) ==
    LET valid[k \in 0 .. Cardinality(Nodes)] ==
          [p \in Nodes \X Nodes |-> k = 0 \/ ValidBy(valid[k - 1], h, p[1], p[2])]
    IN  valid[Cardinality(Nodes)][<<schema, v>>]
=============================================================================
