------------------------------- MODULE JsonMap -------------------------------
(* What a JSON object promises its caller: a map from names to values that   *)
(* owns the values it holds.  JsonObject, the hash table of parson.c, is     *)
(* shown to implement it.                                                    *)
CONSTANTS Keys, Values, NULL

VARIABLES
    map,    \* the value of each name, NULL where the object has none
    owner   \* who has to free each value: "none" (not allocated), "caller", "object"

vars == <<map, owner>>

Released(vs) == [v \in Values |-> IF v \in vs THEN "none" ELSE owner[v]]

Init ==
    /\ map = [k \in Keys |-> NULL]
    /\ owner = [v \in Values |-> "none"]

Allocate(v) ==
    /\ owner[v] = "none"
    /\ owner' = [owner EXCEPT ![v] = "caller"]
    /\ UNCHANGED map

(* The caller takes back a value the object refused. *)
Discard(v) ==
    /\ owner[v] = "caller"
    /\ owner' = [owner EXCEPT ![v] = "none"]
    /\ UNCHANGED map

(* Setting a name replaces the value it had, and frees that value. *)
Put(k, v) ==
    /\ owner[v] = "caller"
    /\ map' = [map EXCEPT ![k] = v]
    /\ owner' = [Released({map[k]}) EXCEPT ![v] = "object"]

Remove(k) ==
    /\ map[k] # NULL
    /\ map' = [map EXCEPT ![k] = NULL]
    /\ owner' = Released({map[k]})

Clear ==
    /\ map' = [k \in Keys |-> NULL]
    /\ owner' = Released({map[k] : k \in Keys})

Next ==
    \/ \E v \in Values : Allocate(v) \/ Discard(v)
    \/ \E k \in Keys, v \in Values : Put(k, v)
    \/ \E k \in Keys : Remove(k)
    \/ Clear

Spec == Init /\ [][Next]_vars
=============================================================================
