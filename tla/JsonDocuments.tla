--------------------------- MODULE JsonDocuments ---------------------------
(***************************************************************************)
(* What parson promises: the caller has documents, each a tree of its own, *)
(* and a call makes one, drops one, changes one in one place, or moves one *)
(* into another.  A document is a value without memory: an object's        *)
(* members are a function on its names.  JsonTree implements this module.  *)
(***************************************************************************)
EXTENDS Naturals, SequencesExt

CONSTANTS
    Handles,     \* what the caller calls its documents
    Scalars,     \* the strings, numbers, ... there are
    Paths,       \* the names, and the dotted names, members are set by
    Meanings     \* the documents the texts stand for

VARIABLE docs

NoMembers == [name \in {} |-> TRUE]
Scalar(type, text) == [type |-> type, text |-> text, items |-> <<>>, members |-> NoMembers]
EmptyArray == Scalar("array", <<>>)
EmptyObject == Scalar("object", <<>>)
Small == Scalars \cup {EmptyArray, EmptyObject}

\* The value without the member, and with one more or another one.
Without(v, name) ==
    [v EXCEPT !.members = [n \in DOMAIN v.members \ {name} |-> v.members[n]]]
With(v, name, x) ==
    [v EXCEPT !.members = [n \in DOMAIN v.members \cup {name} |->
                             IF n = name THEN x ELSE v.members[n]]]

\* The values in a value, itself included.
RECURSIVE Parts(_)
Parts(v) ==
    {v} \cup UNION {Parts(v.items[i]) : i \in DOMAIN v.items}
        \cup UNION {Parts(v.members[n]) : n \in DOMAIN v.members}

\* v with x under a dotted name: the objects on the way are made, and a value
\* on the way that is no object is in the way.
RECURSIVE SetAt(_, _, _)
SetAt(v, path, x) ==
    IF v.type # "object" THEN {}
    ELSE IF Len(path) = 1 THEN {With(v, path[1], x)}
    ELSE LET below == IF path[1] \in DOMAIN v.members THEN v.members[path[1]] ELSE EmptyObject
         IN  {With(v, path[1], w) : w \in SetAt(below, Tail(path), x)}

\* x is put into the array or the object v.
Put(v, x) ==
    (IF v.type = "array"
     THEN {[v EXCEPT !.items = Append(@, x)]} \cup {[v EXCEPT !.items[i] = x] : i \in DOMAIN v.items}
     ELSE {})
    \cup UNION {SetAt(v, path, x) : path \in Paths}

\* A part of the array or the object v, or all, is dropped.
Cut(v) ==
    {[v EXCEPT !.items = RemoveAt(@, i)] : i \in DOMAIN v.items}
    \cup {Without(v, n) : n \in DOMAIN v.members}
    \cup {[v EXCEPT !.items = <<>>, !.members = NoMembers]}

\* What v can become by one of X being put into it, or, if X is empty, by a
\* part of it being dropped; and so in one place, v itself or below.
Here(v, X) == IF X = {} THEN Cut(v) ELSE UNION {Put(v, x) : x \in X}

RECURSIVE Changed(_, _)
Changed(v, X) ==
    Here(v, X)
    \cup UNION {{[v EXCEPT !.items[i] = w] : w \in Changed(v.items[i], X)} : i \in DOMAIN v.items}
    \cup UNION {{With(v, n, w) : w \in Changed(v.members[n], X)} : n \in DOMAIN v.members}

-----------------------------------------------------------------------------
Init == docs = [h \in {} |-> EmptyObject]

\* A new document: a small one, one that is read from a text, or a copy.
Make(h, v) ==
    /\ v \in Small \cup Meanings \cup UNION {Parts(docs[k]) : k \in DOMAIN docs}
    /\ docs' = [k \in DOMAIN docs \cup {h} |-> IF k = h THEN v ELSE docs[k]]

Drop(h) == docs' = [k \in DOMAIN docs \ {h} |-> docs[k]]

\* One place of one document changes.
Change(h) ==
    /\ DOMAIN docs' = DOMAIN docs
    /\ \A k \in DOMAIN docs \ {h} : docs'[k] = docs[k]
    /\ docs'[h] \in Changed(docs[h], {}) \cup Changed(docs[h], Small)

\* Document k becomes a part of document h.
Move(h, k) ==
    /\ DOMAIN docs' = DOMAIN docs \ {k}
    /\ \A l \in DOMAIN docs \ {h, k} : docs'[l] = docs[l]
    /\ docs'[h] \in Changed(docs[h], {docs[k]})

Next ==
    /\ docs' # docs
    /\ \/ \E h \in Handles \ DOMAIN docs : h \in DOMAIN docs' /\ Make(h, docs'[h])
       \/ \E h \in DOMAIN docs : Drop(h) \/ Change(h) \/ \E k \in DOMAIN docs \ {h} : Move(h, k)

Spec == Init /\ [][Next]_docs
=============================================================================
