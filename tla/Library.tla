------------------------------ MODULE Library ------------------------------
(***************************************************************************)
(* What the collection commands promise: a collection appears at once with *)
(* all the movies that were asked for, or not at all.  Only when something *)
(* went wrong while it was built (the session expired, or the server hid a *)
(* refusal) may it appear with a part of them.                             *)
(***************************************************************************)
CONSTANTS Movies, Ids, NULL

VARIABLES collections,    \* the movies of each collection, or NULL
          asked,          \* the movies of the add_collection under way
          trouble         \* what has gone wrong since the last command

vars == <<collections, asked, trouble>>

Init == collections = [id \in Ids |-> NULL] /\ asked = {} /\ trouble = {}

\* A new command; another one may still be troubled by an expired session.
Ask == asked' \in SUBSET Movies /\ trouble' \subseteq trouble /\ UNCHANGED collections

\* A movie is asked for again, in place of an id that can be none.
AskMore == asked' \in SUBSET Movies /\ asked \subseteq asked' /\ UNCHANGED <<collections, trouble>>

Hit == trouble \subseteq trouble' /\ UNCHANGED <<collections, asked>>

\* One collection appears, complete, or in part after some trouble.
Appear(id) ==
    /\ collections[id] = NULL
    /\ \E movies \in SUBSET asked :
          /\ movies # asked => trouble # {}
          /\ collections' = [collections EXCEPT ![id] = movies]
    /\ UNCHANGED <<asked, trouble>>

\* A command on one movie of a collection, or on a collection.
Change(id) ==
    /\ collections[id] # NULL
    /\ \/ \E m \in Movies : \/ collections' = [collections EXCEPT ![id] = @ \cup {m}]
                            \/ collections' = [collections EXCEPT ![id] = @ \ {m}]
       \/ collections' = [collections EXCEPT ![id] = NULL]
    /\ UNCHANGED <<asked, trouble>>

Next == Ask \/ AskMore \/ Hit \/ \E id \in Ids : Appear(id) \/ Change(id)

Spec == Init /\ [][Next]_vars
=============================================================================
