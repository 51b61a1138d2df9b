---------------------------- MODULE JsonMeaning ----------------------------
(***************************************************************************)
(* What the values of JsonTree mean to its caller: the documents they are, *)
(* and the texts they are read from and written to.  Recursive: for TLC    *)
(* only.                                                                   *)
(***************************************************************************)
EXTENDS JsonTree, JsonSerializer

\* What the texts of the model stand for.
EmptyHeap == [n \in Nodes |-> FREE]
Parsed(t) ==
    json_parse_string([heap |-> EmptyHeap, fuel |-> 100, twice |-> FALSE, got |-> NULL, ok |-> TRUE], t)

Documents == INSTANCE JsonDocuments WITH
    Handles <- Nodes,
    Scalars <- {Doc([n \in Nodes |-> block], CHOOSE n \in Nodes : TRUE) : block \in Blocks},
    Meanings <- {Doc(m.heap, m.got) : m \in {p \in {Parsed(t) : t \in Texts} : p.ok}},
    docs <- [r \in roots |-> Doc(heap, r)]

(***************************************************************************)
(* Seen without memory, every call makes, drops, changes in one place or   *)
(* moves a document, or, when it fails, does nothing at all: no other      *)
(* document changes, and no half of a dotted name or of a copy remains.    *)
(***************************************************************************)
DocumentsSpec == Documents!Spec

Depth(n) == Cardinality({a \in Live : n \in Below(heap, a)})
Height(r) == Max({Depth(n) - Depth(r) : n \in Below(heap, r)})

(***************************************************************************)
(* What json_serialize_to_string() writes, plain or pretty, is read back   *)
(* as an equal value, if it is not nested too deep.                        *)
(***************************************************************************)
RoundTrip ==
    \A r \in roots, is_pretty \in BOOLEAN :
        \A m \in {Parsed(json_serialize(heap, r, 0, is_pretty))} :
            IF Height(r) <= MAX_NESTING
            THEN m.ok /\ Doc(m.heap, m.got) = Doc(heap, r)
            ELSE ~m.ok /\ m.heap = EmptyHeap

(***************************************************************************)
(* A text that was cut off before its last bracket is refused, and what    *)
(* had been read of it is freed.                                           *)
(***************************************************************************)
PrefixRefused ==
    \A r \in roots :
        LET t == json_serialize(heap, r, 0, FALSE)
        IN  heap[r].type \in {"array", "object"} =>
              \A m \in {Parsed(SubSeq(t, 1, n)) : n \in 1 .. Len(t) - 1} :
                 ~m.ok /\ m.heap = EmptyHeap
=============================================================================
