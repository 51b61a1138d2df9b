------------------------------ MODULE JsonObject ------------------------------
(* The hash table behind a JSON object (parson.c): cells, an open-addressing *)
(* table with linear probing, hold indices into an array of items; removing  *)
(* an item moves the last item into its place and shifts the cells after it  *)
(* back.  Any allocation may fail.                                           *)
EXTENDS Integers, FiniteSets, Functions, FiniteSetsExt

CONSTANTS
    Keys,              \* the names
    Values,            \* the JSON values that may be put into the object
    hash_string,       \* the hash of each name
    STARTING_CAPACITY, \* capacity of the first table (16 in the code)
    NULL

ASSUME HashAssumption == hash_string \in [Keys -> Nat]
ASSUME CapacityAssumption ==
    /\ STARTING_CAPACITY \in Nat
    /\ (STARTING_CAPACITY * 7) \div 10 >= 1
ASSUME NullAssumption == NULL \notin Values

OBJECT_INVALID_IX == -1

VARIABLES
    object,   \* the JSON_Object: cell_capacity, cells, items and count; an item
              \* is one entry of the arrays names, values, cell_ixs and hashes
    owner     \* who has to free each value: "none" (not allocated), "caller",
              \* "object" (value->parent is set)

vars == <<object, owner>>

(***************************************************************************)
(* The table as a value                                                    *)
(***************************************************************************)

json_object_init(capacity) ==
    [cell_capacity |-> capacity,
     cells         |-> [c \in 0..(capacity - 1) |-> OBJECT_INVALID_IX],
     items         |-> [i \in {} |-> NULL],
     count         |-> 0]

item_capacity(o) == (o.cell_capacity * 7) \div 10

(* The capacities are powers of two, so "& (capacity - 1)" is "% capacity". *)
Slot(o, n) == n % o.cell_capacity

(* The cell where the probe for key ends: the first free one or the one that *)
(* holds key; none when the whole table was searched.                        *)
json_object_get_cell_ix(o, key) ==
    LET CellAt(i) == Slot(o, hash_string[key] + i)
        Holds(c)  == /\ o.cells[c] # OBJECT_INVALID_IX
                     /\ o.items[o.cells[c]].hash = hash_string[key]
                     /\ o.items[o.cells[c]].name = key
        Stops     == {i \in 0..(o.cell_capacity - 1) :
                         o.cells[CellAt(i)] = OBJECT_INVALID_IX \/ Holds(CellAt(i))}
    IN  IF Stops = {} THEN [ix |-> OBJECT_INVALID_IX, found |-> FALSE]
                      ELSE [ix    |-> CellAt(Min(Stops)),
                            found |-> Holds(CellAt(Min(Stops)))]

Found(o, key) == json_object_get_cell_ix(o, key).found

json_object_getn_value(o, key) ==
    IF Found(o, key) THEN o.items[o.cells[json_object_get_cell_ix(o, key).ix]].value
                     ELSE NULL

(* The new item goes to the end of the items and into the cell of its probe. *)
Append(o, key, value) ==
    LET ix == json_object_get_cell_ix(o, key).ix
        item == [name |-> key, value |-> value, cell_ix |-> ix, hash |-> hash_string[key]]
    IN  [o EXCEPT !.cells[ix] = o.count,
                  !.items = [i \in 0..o.count |-> IF i = o.count THEN item ELSE o.items[i]],
                  !.count = o.count + 1]

(* Faulty variant: the bound of the cells, not that of the items. *)
FullAtCells(o) == o.count >= o.cell_capacity
Full(o) == o.count >= item_capacity(o)

(* A table twice the size, to which every item is added again in order. *)
json_object_grow_and_rehash(o) ==
    LET twice == 2 * o.cell_capacity
        new == json_object_init(Max({twice, STARTING_CAPACITY}))
        rehashed[n \in 0..o.count] ==
            IF n = 0 THEN new
                     ELSE Append(rehashed[n - 1], o.items[n - 1].name, o.items[n - 1].value)
    IN  rehashed[o.count]

MakeRoom(o) == IF Full(o) THEN json_object_grow_and_rehash(o) ELSE o

(* Faulty variant: the cell of the last item is forgotten. *)
FillHoleCellForgotten(o, ix) ==
    [o EXCEPT !.items[ix] = o.items[o.count - 1]]

(* Faulty variant: cell_ixs is not moved with the other arrays. *)
FillHoleKeepsCellIx(o, ix) ==
    LET last == o.items[o.count - 1]
    IN  [o EXCEPT !.items[ix] = [last EXCEPT !.cell_ix = o.items[ix].cell_ix],
                  !.cells[last.cell_ix] = ix]

(* The last item moves to the place of item ix; its cell follows it.  The    *)
(* entry it leaves is still read by the shift that comes next.               *)
FillHole(o, ix) ==
    LET last == o.items[o.count - 1]
    IN  IF ix < o.count - 1
          THEN [o EXCEPT !.items[ix] = last, !.cells[last.cell_ix] = ix]
          ELSE o

(* Faulty variant: "<" for "<=". *)
MayMoveHomeStays(k, i, j) ==
    \/ j > i /\ (k < i \/ k > j)
    \/ j < i /\ k < i /\ k > j

(* Faulty variant: the gap is left open. *)
MayMoveNever(k, i, j) == FALSE

(* The entry in cell j, whose probe starts at k, may move back to cell i. *)
MayMove(k, i, j) ==
    \/ j > i /\ (k <= i \/ k > j)
    \/ j < i /\ k <= i /\ k > j

(* The entry of item i moves into the cell at the gap. *)
MoveBack(o, i, gap) == [o EXCEPT !.items[i].cell_ix = gap, !.cells[gap] = i]

(* Close the gap at a cell: walk the run of used cells after it, moving back *)
(* every entry whose probe passes the gap, and free the cell left last.      *)
ShiftBack(o, cell) ==
    LET walk[x \in 0..(o.cell_capacity - 1)] ==
            IF x = 0 THEN [gap |-> cell, object |-> o, ended |-> FALSE]
            ELSE LET w == walk[x - 1]
                     j == Slot(o, cell + x)
                     used == w.object.cells[j]
                 IN  IF w.ended \/ used = OBJECT_INVALID_IX
                       THEN [w EXCEPT !.ended = TRUE]
                     ELSE IF MayMove(Slot(o, w.object.items[used].hash), w.gap, j)
                       THEN [w EXCEPT !.gap = j, !.object = MoveBack(w.object, used, w.gap)]
                       ELSE w
        end == walk[o.cell_capacity - 1]
    IN  [end.object EXCEPT !.cells[end.gap] = OBJECT_INVALID_IX]

json_object_remove_internal(o, key) ==
    LET cell == json_object_get_cell_ix(o, key).ix
        removed == ShiftBack(FillHole(o, o.cells[cell]), cell)
    IN  [removed EXCEPT !.items = [i \in 0..(o.count - 2) |-> removed.items[i]],
                        !.count = o.count - 1]

ValuesOf(o) == {o.items[i].value : i \in DOMAIN o.items}

Released(vs) == [v \in Values |-> IF v \in vs THEN "none" ELSE owner[v]]

(***************************************************************************)
(* The operations.  What they refuse without changing anything is no step: *)
(* a value that has a parent, a name that json_object_add finds, a name to *)
(* remove that is not there, a growth whose allocation fails.              *)
(***************************************************************************)

Init ==
    /\ object = json_object_init(0)
    /\ owner = [v \in Values |-> "none"]

(* json_value_init_...: the caller has a value of its own. *)
NewValue(v) ==
    /\ owner[v] = "none"
    /\ owner' = [owner EXCEPT ![v] = "caller"]
    /\ UNCHANGED object

(* The caller frees a value the object did not take. *)
FreeValue(v) ==
    /\ owner[v] = "caller"
    /\ owner' = [owner EXCEPT ![v] = "none"]
    /\ UNCHANGED object

(* Faulty variant: the parent is not looked at. *)
SettableUnlessFreed(v) == owner[v] # "none"

(* json_object_set_value refuses a value that has a parent. *)
Settable(v) == owner[v] = "caller"

(* The name is there: its old value is freed and the new one takes its place. *)
Replace(k, v) ==
    LET ix == object.cells[json_object_get_cell_ix(object, k).ix]
    IN  /\ Settable(v)
        /\ Found(object, k)
        /\ object' = [object EXCEPT !.items[ix].value = v]
        /\ owner' = [Released({object.items[ix].value}) EXCEPT ![v] = "object"]

(* The name is new, for json_object_set_value and for json_object_add: the   *)
(* table grows before the write when its items are full.                     *)
Add(k, v) ==
    /\ Settable(v)
    /\ ~Found(object, k)
    /\ object' = Append(MakeRoom(object), k, v)
    /\ owner' = [owner EXCEPT ![v] = "object"]

(* json_object_set_value cannot copy the name, once the table has grown if   *)
(* it had to: the larger table stays.                                        *)
AddFails(k, v) ==
    /\ Settable(v)
    /\ ~Found(object, k)
    /\ object' = MakeRoom(object)
    /\ UNCHANGED owner

Remove(k) ==
    /\ Found(object, k)
    /\ object' = json_object_remove_internal(object, k)
    /\ owner' = Released({json_object_getn_value(object, k)})

(* json_object_clear keeps the capacity of the table. *)
Clear ==
    /\ object' = json_object_init(object.cell_capacity)
    /\ owner' = Released(ValuesOf(object))

(* json_object_free, and json_value_init_object for the next one. *)
Free ==
    /\ object' = json_object_init(0)
    /\ owner' = Released(ValuesOf(object))

Next ==
    \/ \E v \in Values : NewValue(v) \/ FreeValue(v)
    \/ \E k \in Keys, v \in Values : Replace(k, v) \/ Add(k, v) \/ AddFails(k, v)
    \/ \E k \in Keys : Remove(k)
    \/ Clear
    \/ Free

Spec == Init /\ [][Next]_vars

(***************************************************************************)
(* Properties                                                              *)
(***************************************************************************)

Items == [name : Keys, value : Values, cell_ix : Nat, hash : Nat]

(* The arrays are accessed inside their bounds: every used cell names an     *)
(* item below count, and count never passes the room for items               *)
(* (parson.c:611-616 write at index count).                                  *)
TypeOK ==
    /\ owner \in [Values -> {"none", "caller", "object"}]
    /\ object.count \in 0..item_capacity(object)
    /\ object.items \in [0..(object.count - 1) -> Items]
    /\ object.cells \in [0..(object.cell_capacity - 1) ->
                            {OBJECT_INVALID_IX} \cup 0..(object.count - 1)]

(* Cells and items point at each other: cell_ixs says where each item's      *)
(* index is, and no cell names an item that is registered elsewhere.  Remove *)
(* follows these links when it moves the last item (parson.c:677) and when   *)
(* it shifts a cell (parson.c:691-692).                                      *)
LinksAgree ==
    /\ \A i \in DOMAIN object.items : object.cells[object.items[i].cell_ix] = i
    /\ \A c \in DOMAIN object.cells : object.cells[c] # OBJECT_INVALID_IX =>
           object.items[object.cells[c]].cell_ix = c

(* Every name in the object is found by its probe, in the cell it is         *)
(* registered in, and only once, whatever sequence of insertions, growths    *)
(* and removals came before: closing the gap of a removed name never cuts    *)
(* the probe of another (parson.c:681-696).                                  *)
EveryNameFound ==
    /\ IsInjective([i \in DOMAIN object.items |-> object.items[i].name])
    /\ \A i \in DOMAIN object.items :
           json_object_get_cell_ix(object, object.items[i].name)
               = [ix |-> object.items[i].cell_ix, found |-> TRUE]

(* A probe for an absent name ends at a free cell: only a table without      *)
(* cells is searched in vain, and Add grows that one before it uses the      *)
(* index it was given (parson.c:603-612).                                    *)
ProbeFindsRoom ==
    object.cell_capacity > 0 =>
        \A k \in Keys : json_object_get_cell_ix(object, k).ix # OBJECT_INVALID_IX

(* The object owns exactly the values it holds, each under one name: no      *)
(* value in it has been freed, and none is to be freed twice (parent,        *)
(* parson.c:2092 and 2101).                                                  *)
OwnsItsValues ==
    /\ IsInjective([i \in DOMAIN object.items |-> object.items[i].value])
    /\ ValuesOf(object) = {v \in Values : owner[v] = "object"}

Map == INSTANCE JsonMap WITH
    map <- [k \in Keys |-> json_object_getn_value(object, k)]

(* Seen through json_object_getn_value, the table is a map that owns its     *)
(* values: growth and a failed insertion change nothing, and an operation on *)
(* one name changes no other.                                                *)
MapSpec == Map!Spec

(***************************************************************************)
(* The inductive invariant.  It is stated of a table o whose first n items *)
(* count and in which one cell, the gap, is about to be freed, so that it  *)
(* holds also in the middle of a removal; without a removal the gap is     *)
(* OBJECT_INVALID_IX and n is the count.                                   *)
(***************************************************************************)

(* A probe that starts at cell h and ends at cell x passes cell y. *)
Passes(h, y, x) == IF h <= x THEN h <= y /\ y < x ELSE h <= y \/ y < x

Home(o, i) == Slot(o, o.items[i].hash)

(* The arrays have the sizes they were allocated with. *)
Shape(o) ==
    /\ o = [cell_capacity |-> o.cell_capacity, cells |-> o.cells,
            items |-> o.items, count |-> o.count]
    /\ o.cell_capacity \in Nat /\ o.count \in Nat
    /\ o.items \in [0..(o.count - 1) -> Items]
    /\ o.cells \in [0..(o.cell_capacity - 1) -> {OBJECT_INVALID_IX} \cup 0..(o.count - 1)]

(* Each item has a name of its own and the name's hash. *)
Named(o, n) ==
    /\ \A i \in 0..(n - 1) : o.items[i].hash = hash_string[o.items[i].name]
    /\ \A i, j \in 0..(n - 1) : o.items[i].name = o.items[j].name => i = j

(* Each item is in the cell it is registered in, and that is not the gap. *)
Placed(o, n, gap) ==
    \A i \in 0..(n - 1) :
        /\ o.items[i].cell_ix \in 0..(o.cell_capacity - 1) /\ o.items[i].cell_ix # gap
        /\ o.cells[o.items[i].cell_ix] = i

(* Each used cell is the one where its item is registered. *)
Backed(o, n, gap) ==
    \A c \in 0..(o.cell_capacity - 1) :
        c = gap \/ o.cells[c] = OBJECT_INVALID_IX
        \/ (o.cells[c] \in 0..(n - 1) /\ o.items[o.cells[c]].cell_ix = c)

(* The probe that looks for an item passes used cells, or the gap. *)
Uncut(o, n, gap) ==
    \A i \in 0..(n - 1), c \in 0..(o.cell_capacity - 1) :
        Passes(Home(o, i), c, o.items[i].cell_ix) => c = gap \/ o.cells[c] # OBJECT_INVALID_IX

Intact(o, n, gap) ==
    Named(o, n) /\ Placed(o, n, gap) /\ Backed(o, n, gap) /\ Uncut(o, n, gap)

Table(o) == Shape(o) /\ Intact(o, o.count, OBJECT_INVALID_IX)

(* The items never fill the cells, in a table of any of the sizes there are. *)
Roomy(o) ==
    /\ o.cell_capacity = 0 \/ o.cell_capacity >= STARTING_CAPACITY
    /\ o.count <= item_capacity(o)

IInv ==
    /\ Table(object) /\ Roomy(object)
    /\ owner \in [Values -> {"none", "caller", "object"}]
    /\ \A i, j \in DOMAIN object.items :
           object.items[i].value = object.items[j].value => i = j
    /\ ValuesOf(object) = {v \in Values : owner[v] = "object"}
=============================================================================
