------------------------------ MODULE JsonTree ------------------------------
(***************************************************************************)
(* A caller of parson and its documents: every call that makes, changes,   *)
(* copies, reads or frees a value, in any order, while every allocation    *)
(* may fail.  The caller frees the values it holds and no others, and does *)
(* not add a value to itself, which parson cannot see.                     *)
(***************************************************************************)
EXTENDS JsonParser

CONSTANTS
    MaxRoots,      \* how many values the caller holds at once (a bound)
    Fuels,         \* how many allocations of a call succeed
    Scalars,       \* [type, text]
    Names,
    Paths,         \* sequences of names
    Texts          \* what is parsed

ASSUME FuelsAssumption == Fuels \subseteq Nat
ASSUME ScalarsAssumption ==
    \A s \in Scalars : s.type \in Types \ {"array", "object"} /\ s.text \in Seq(STRING)
ASSUME NamesAssumption == Names \subseteq Seq(STRING)
ASSUME PathsAssumption == Paths \subseteq Seq(Names) \ {<<>>}
ASSUME TextsAssumption == Texts \subseteq Seq(STRING)

VARIABLES
    heap,          \* what is in each block
    roots,         \* the values the caller holds: it has to free them
    twice,         \* has a block been freed that was free?
    returned       \* values that a dotted setter has returned to the caller

vars == <<heap, roots, twice, returned>>

Init ==
    /\ heap = [n \in Nodes |-> FREE]
    /\ roots = {} /\ twice = FALSE /\ returned = {}

-----------------------------------------------------------------------------
Memory(h, fuel) == [heap |-> h, fuel |-> fuel, twice |-> twice, got |-> NULL, ok |-> TRUE]

Live == {n \in Nodes : heap[n] # FREE}
OfType(type) == {n \in Live : heap[n].type = type}
Blocks == {Block(s.type, s.text) : s \in Scalars}

\* The values that can be put into c: all but those c is in.
Addable(c) == {v \in Live : c \notin Below(heap, v)}

\* A new value is made and handed to a call.  json_array_append_string() and
\* its kin free the value they made if they cannot add it.
OrFree(m, v) == IF m.ok THEN m ELSE Failure(json_value_free(m, v))

\* A call that keeps the documents the caller has.
Keeps(m) == heap' = m.heap /\ twice' = m.twice /\ UNCHANGED <<roots, returned>>

\* A call that is to take v over.
Takes(m, v) ==
    /\ heap' = m.heap /\ twice' = m.twice
    /\ roots' = IF m.ok THEN roots \ {v} ELSE roots

\* A call that returns a new value, or NULL.
Returns(m) ==
    /\ Cardinality(roots) < MaxRoots
    /\ heap' = m.heap /\ twice' = m.twice
    /\ roots' = roots \cup ({m.got} \ {NULL})
    /\ UNCHANGED returned

-----------------------------------------------------------------------------
\* The calls

InitValue ==
    \E block \in Blocks \cup {Block("array", <<>>), Block("object", <<>>)}, fuel \in Fuels :
        Returns(json_value_init(Memory(heap, fuel), block))

FreeValue ==
    \E v \in roots :
        LET m == json_value_free(Memory(heap, 0), v)
        IN  /\ heap' = m.heap /\ twice' = m.twice
            /\ roots' = roots \ {v} /\ returned' = returned \ {v}

AppendValue ==
    \E a \in OfType("array"), fuel \in Fuels : \E v \in Addable(a) :
        /\ Takes(json_array_append_value(Memory(heap, fuel), a, v), v)
        /\ returned' = returned \cap roots'

AppendNew ==
    \E a \in OfType("array"), block \in Blocks, fuel \in Fuels :
        LET made == json_value_init(Memory(heap, fuel), block)
        IN  Keeps(IF ~made.ok THEN made
                  ELSE OrFree(json_array_append_value(made, a, made.got), made.got))

ReplaceValue ==
    \E a \in OfType("array") : \E v \in Addable(a), i \in 1 .. Len(heap[a].items) :
        /\ Takes(json_array_replace_value(Memory(heap, 0), a, i, v), v)
        /\ returned' = returned \cap roots'

\* Also for an index that is not in the array.
ReplaceNew ==
    \E a \in OfType("array"), block \in Blocks, fuel \in Fuels :
        \E i \in 1 .. Len(heap[a].items) + 1 :
            LET made == json_value_init(Memory(heap, fuel), block)
            IN  Keeps(IF ~made.ok THEN made
                      ELSE OrFree(json_array_replace_value(made, a, i, made.got), made.got))

RemoveItem ==
    \E a \in OfType("array") : \E i \in 1 .. Len(heap[a].items) :
        Keeps(json_array_remove(Memory(heap, 0), a, i))

ClearValue == \E v \in OfType("array") \cup OfType("object") : Keeps(Clear(Memory(heap, 0), v))

\* json_object_set_value(), json_object_dotset_value().
SetValue ==
    \E o \in OfType("object"), path \in Paths, fuel \in Fuels : \E v \in Addable(o) :
        LET m == json_object_dotset_value(Memory(heap, fuel), o, path, v)
        IN  /\ Takes(m, v)
            /\ returned' = roots' \cap (IF m.ok \/ Len(path) = 1 THEN returned ELSE returned \cup {v})

SetNew ==
    \E o \in OfType("object"), path \in Paths, block \in Blocks, fuel \in Fuels :
        LET made == json_value_init(Memory(heap, fuel), block)
        IN  Keeps(IF ~made.ok THEN made
                  ELSE OrFree(json_object_dotset_value(made, o, path, made.got), made.got))

RemoveName ==
    \E o \in OfType("object"), path \in Paths :
        Keeps(json_object_dotremove_internal(Memory(heap, 0), o, path, TRUE))

DeepCopy ==
    \E v \in Live, fuel \in Fuels : Returns(json_value_deep_copy(Memory(heap, fuel), v))

Parse ==
    \E t \in Texts, fuel \in Fuels : Returns(json_parse_string(Memory(heap, fuel), t))

Next ==
    \/ InitValue \/ FreeValue
    \/ AppendValue \/ AppendNew \/ ReplaceValue \/ ReplaceNew \/ RemoveItem \/ ClearValue
    \/ SetValue \/ SetNew \/ RemoveName
    \/ DeepCopy \/ Parse

Spec == Init /\ [][Next]_vars

-----------------------------------------------------------------------------
\* Properties

\* An object has as many names as items, an array has no names, and no other
\* value holds anything.
WellFormed(cell) ==
    /\ cell \in Cells
    /\ Len(cell.names) = IF cell.type = "object" THEN Len(cell.items) ELSE 0
    /\ cell.type \notin {"array", "object"} => cell.items = <<>>

TypeOK ==
    /\ DOMAIN heap = Nodes
    /\ \A n \in Live : WellFormed(heap[n])
    /\ roots \subseteq Live /\ returned \subseteq roots

\* The places that hold n: the caller, or an item of a container.
Owners(n) ==
    (IF n \in roots THEN {<<NULL, 0>>} ELSE {})
    \cup UNION {{<<c, i>> : i \in {j \in DOMAIN heap[c].items : heap[c].items[j] = n}} : c \in Live}

(***************************************************************************)
(* Every allocated value is owned once, by the caller or by one container, *)
(* no container holds a freed value, and nothing is freed twice: no call   *)
(* leaks a value, shares one or takes one back, whichever allocation       *)
(* fails.                                                                  *)
(***************************************************************************)
OneOwner ==
    /\ \A n \in Live : Cardinality(Owners(n)) = 1
    /\ \A n \in Nodes \ Live : Owners(n) = {}
    /\ ~twice

(***************************************************************************)
(* json_value_get_parent() tells the container a value is in, and NULL for *)
(* a value of the caller, which can then be added somewhere.  A dotted     *)
(* setter that runs out of memory breaks this for the value it returns,    *)
(* and for that value only: its parent is a block that is free.            *)
(***************************************************************************)
ParentsAgree ==
    \A n \in Live :
        IF n \in roots
        THEN heap[n].parent = NULL \/ (n \in returned /\ heap[n].parent = FREE)
        ELSE heap[n].parent \in Live /\ n \in Kids(heap, heap[n].parent)

\* v and the values below it are what they were: their parents may not be.
Alike(a, b) ==
    a # FREE /\ a.type = b.type /\ a.names = b.names /\ a.items = b.items /\ a.text = b.text
Untouched(g, h, v) == \A n \in Below(h, v) : Alike(g[n], h[n])

(***************************************************************************)
(* A setter that succeeds sets what it names and nothing else, and one     *)
(* that fails sets nothing: with any dotted name, for any value the caller *)
(* can pass, from any state, however many allocations succeed.             *)
(***************************************************************************)
SetMeansSet ==
    \A o \in OfType("object"), path \in Paths : \A v \in Addable(o) :
        \A m \in {json_object_dotset_value(Memory(heap, fuel), o, path, v) : fuel \in Fuels} :
            IF m.ok
            THEN /\ json_object_dotget_value(m.heap, o, path) = v
                 /\ Untouched(m.heap, heap, v)
                 /\ \A other \in Paths :
                       LET before == json_object_dotget_value(heap, o, other)
                           after == json_object_dotget_value(m.heap, o, other)
                       IN  before # NULL /\ ~IsPrefix(path, other) =>
                             after = before /\ (IsPrefix(other, path) \/ Untouched(m.heap, heap, before))
            ELSE \A r \in roots : Untouched(m.heap, heap, r)

\* A value without its memory; the documents in it are those of f.
DocBy(f, h, n) ==
    [type |-> h[n].type, text |-> h[n].text,
     items |-> IF h[n].type = "array" THEN [i \in DOMAIN h[n].items |-> f[h[n].items[i]]] ELSE <<>>,
     members |-> [name \in ToSet(h[n].names) |-> f[json_object_getn_value(h, n, name)]]]

Doc(h, n) ==
    LET doc[k \in 0 .. Cardinality(Nodes)] ==
          [v \in Nodes |-> IF k = 0 THEN NULL ELSE DocBy(doc[k - 1], h, v)]
    IN  doc[Cardinality(Nodes)][n]

\* The heap with one more block, v: object o with its members the other way round.
Mirrored(v, o) ==
    [heap EXCEPT ![v] = [heap[o] EXCEPT !.names = Reverse(@), !.items = Reverse(@)]]

(***************************************************************************)
(* json_value_equals() finds two values equal when they are the same       *)
(* document, whatever the order of the members, and json_validate() then   *)
(* tells them apart neither as schemas nor as values.                      *)
(* Numbers are symbols here; the code also takes for equal two numbers     *)
(* less than 0.000001 apart.                                               *)
(***************************************************************************)
EqualsIsStructural ==
    /\ \A a, b \in Live :
          LET same == Doc(heap, a) = Doc(heap, b)
          IN  /\ json_value_equals(heap, a, b) = same
              /\ same => \A c \in Live :
                           /\ json_validate(heap, a, c) = json_validate(heap, b, c)
                           /\ json_validate(heap, c, a) = json_validate(heap, c, b)
    /\ \A o \in OfType("object"), v \in Nodes \ Live : json_value_equals(Mirrored(v, o), o, v)
=============================================================================
