-------------------------- MODULE JsonTree_proofs --------------------------
(***************************************************************************)
(* Theorems about JsonTree, for every set of blocks, of names and of       *)
(* scalars: whichever allocation fails, every value keeps one owner,       *)
(* nothing is freed twice, every parent is right, a dotted setter sets     *)
(* what it names and nothing else.                                         *)
(***************************************************************************)
EXTENDS JsonTree, NatSets, FiniteSetTheorems, SequenceTheorems

LiveIn(h) == {n \in Nodes : h[n] # FREE}

\* The values of h are trees, whose roots are the values of R: every other
\* value is an item of its parent, and every set of values has one that no
\* member of the set holds.
Forest(h, R) ==
    /\ R \subseteq LiveIn(h)
    /\ \A c \in LiveIn(h) : \A n \in Kids(h, c) : n \in LiveIn(h) \ R /\ h[n].parent = c
    /\ \A n \in LiveIn(h) \ R : h[n].parent \in LiveIn(h) /\ n \in Kids(h, h[n].parent)
    /\ \A S \in SUBSET LiveIn(h) : S # {} => \E s \in S : \A c \in S : s \notin Kids(h, c)

\* The parents of the roots: those of T may have lost theirs.
Loose(h, R, T) == \A r \in R : h[r].parent = NULL \/ (r \in T /\ h[r].parent = FREE)

\* No item is in its container twice, and no name.
Distinct(s) == \A i, j \in DOMAIN s : s[i] = s[j] => i = j

Heaps == [Nodes -> Cells \cup {FREE}]

Sound(h) ==
    /\ h \in Heaps
    /\ \A n \in LiveIn(h) : WellFormed(h[n]) /\ Distinct(h[n].items) /\ Distinct(h[n].names)

Good(h, R, T) == Sound(h) /\ Forest(h, R) /\ Loose(h, R, T)

\* The inductive invariant.
IInv == Good(heap, roots, returned) /\ returned \subseteq roots /\ twice = FALSE

-----------------------------------------------------------------------------
\* What is below a value

LEMMA KidsAreNodes ==
  ASSUME NEW h, Sound(h), NEW n \in Nodes
  PROVE  Kids(h, n) \subseteq Nodes
<1>1. CASE h[n] = FREE
  BY <1>1 DEF Kids
<1>2. CASE h[n] # FREE
  <2>1. h[n].items \in Seq(Nodes)
    BY <1>2 DEF Sound, LiveIn, WellFormed, Cells
  <2>2. QED
    BY <1>2, <2>1 DEF Kids, ToSet
<1>3. QED
  BY <1>1, <1>2

\* v is below itself, and what is below v is closed and the least such set.
LEMMA BelowLeast ==
  ASSUME NEW h, NEW v \in Nodes, Sound(h)
  PROVE  /\ Below(h, v) \in SUBSET Nodes
         /\ v \in Below(h, v)
         /\ Closed(h, Below(h, v))
         /\ \A S \in SUBSET Nodes : v \in S /\ Closed(h, S) => Below(h, v) \subseteq S
<1>1. Below(h, v) \in SUBSET Nodes /\ v \in Below(h, v)
  BY DEF Below
<1>2. \A S \in SUBSET Nodes : v \in S /\ Closed(h, S) => Below(h, v) \subseteq S
  BY DEF Below
<1>3. Closed(h, Below(h, v))
  <2>1. SUFFICES ASSUME NEW n \in Below(h, v), NEW k \in Kids(h, n)
                 PROVE  k \in Below(h, v)
    BY DEF Closed
  <2>2. n \in Nodes /\ k \in Nodes
    BY <1>1, KidsAreNodes
  <2>3. SUFFICES ASSUME NEW S \in SUBSET Nodes, v \in S, Closed(h, S) PROVE k \in S
    BY <2>2 DEF Below
  <2>4. n \in S
    BY <1>2, <2>3
  <2>5. QED
    BY <2>3, <2>4 DEF Closed
<1>4. QED
  BY <1>1, <1>2, <1>3

\* Everything below a live value is live, is not a root, and is an item of
\* something below the value, the value itself excepted.
LEMMA BelowParent ==
  ASSUME NEW h, NEW R, Sound(h), Forest(h, R), NEW v \in LiveIn(h)
  PROVE  /\ Below(h, v) \subseteq LiveIn(h)
         /\ \A n \in Below(h, v) \ {v} :
               n \notin R /\ h[n].parent \in Below(h, v) /\ n \in Kids(h, h[n].parent)
<1> DEFINE B == Below(h, v)
<1>1. v \in Nodes /\ LiveIn(h) \in SUBSET Nodes
  BY DEF LiveIn
<1>2. B \in SUBSET Nodes /\ v \in B /\ Closed(h, B)
      /\ \A S \in SUBSET Nodes : v \in S /\ Closed(h, S) => B \subseteq S
  BY <1>1, BelowLeast
<1> HIDE DEF B
<1>3. B \subseteq LiveIn(h)
  <2>1. Closed(h, LiveIn(h))
    BY DEF Closed, Forest
  <2>2. QED
    BY <1>1, <1>2, <2>1
<1>4. ASSUME NEW n \in B \ {v}
      PROVE  n \notin R /\ h[n].parent \in B /\ n \in Kids(h, h[n].parent)
  <2>1. ~Closed(h, B \ {n})
    BY <1>2, <1>4
  <2>2. PICK c \in B \ {n} : ~(Kids(h, c) \subseteq B \ {n})
    BY <2>1 DEF Closed
  <2>3. n \in Kids(h, c)
    BY <1>2, <2>2 DEF Closed
  <2>4. n \notin R /\ h[n].parent = c
    BY <1>3, <2>2, <2>3 DEF Forest
  <2>5. QED
    BY <2>2, <2>3, <2>4
<1>5. QED
  BY <1>3, <1>4 DEF B

\* A container is not below its items.
LEMMA NotBelowItem ==
  ASSUME NEW h, NEW R, Sound(h), Forest(h, R), NEW a \in LiveIn(h), NEW x \in Kids(h, a)
  PROVE  x \in LiveIn(h) /\ a \notin Below(h, x)
<1>1. x \in LiveIn(h)
  BY DEF Forest
<1>2. SUFFICES ASSUME a \in Below(h, x) PROVE FALSE
  BY <1>1
<1> DEFINE B == Below(h, x)
<1>3. x \in B
  BY <1>1, BelowLeast DEF LiveIn
<1>4. B \subseteq LiveIn(h) /\ \A n \in B \ {x} : h[n].parent \in B /\ n \in Kids(h, h[n].parent)
  BY <1>1, BelowParent
<1>5. a \in B
  BY <1>2
<1> HIDE DEF B
<1>6. PICK s \in B : \A c \in B : s \notin Kids(h, c)
  BY <1>3, <1>4 DEF Forest
<1>7. s # x
  BY <1>5, <1>6
<1>8. QED
  BY <1>4, <1>6, <1>7

\* What is below a value depends on the items of what is below it only.
LEMMA SameBelow ==
  ASSUME NEW h, NEW g, Sound(h), Sound(g), NEW v \in Nodes,
         \A n \in Below(h, v) : Kids(g, n) = Kids(h, n)
  PROVE  Below(g, v) = Below(h, v)
<1> DEFINE B == Below(h, v)
           C == Below(g, v)
<1>1. B \in SUBSET Nodes /\ v \in B /\ Closed(h, B)
      /\ \A S \in SUBSET Nodes : v \in S /\ Closed(h, S) => B \subseteq S
  BY BelowLeast
<1>2. C \in SUBSET Nodes /\ v \in C /\ Closed(g, C)
      /\ \A S \in SUBSET Nodes : v \in S /\ Closed(g, S) => C \subseteq S
  BY BelowLeast
<1>3. \A n \in B : Kids(g, n) = Kids(h, n)
  OBVIOUS
<1> HIDE DEF B, C
<1>4. Closed(g, B)
  BY <1>1, <1>3 DEF Closed
<1>5. C \subseteq B
  BY <1>1, <1>2, <1>4
<1>6. Closed(h, C)
  BY <1>2, <1>3, <1>5 DEF Closed
<1>7. B \subseteq C
  BY <1>1, <1>2, <1>6
<1>8. QED
  BY <1>5, <1>7 DEF B, C

-----------------------------------------------------------------------------
\* How a forest changes

\* The container a takes over the root v.
LEMMA Attach ==
  ASSUME NEW h, NEW g, NEW R, Sound(h), Sound(g), Forest(h, R),
         NEW a \in LiveIn(h), NEW v \in R, a \notin Below(h, v),
         LiveIn(g) = LiveIn(h),
         Kids(g, a) = Kids(h, a) \cup {v},
         \A n \in LiveIn(h) \ {a} : Kids(g, n) = Kids(h, n),
         g[v].parent = a,
         \A n \in LiveIn(h) \ {v} : g[n].parent = h[n].parent
  PROVE  Forest(g, R \ {v})
<1>1. v \in LiveIn(h) /\ R \subseteq LiveIn(h)
  BY DEF Forest
<1>2. \A c \in LiveIn(g) : \A n \in Kids(g, c) : n \in LiveIn(g) \ (R \ {v}) /\ g[n].parent = c
  <2>1. SUFFICES ASSUME NEW c \in LiveIn(h), NEW n \in Kids(g, c)
                 PROVE  n \in LiveIn(h) \ (R \ {v}) /\ g[n].parent = c
    OBVIOUS
  <2>2. CASE n \in Kids(h, c)
    <3>1. n \in LiveIn(h) \ R /\ h[n].parent = c
      BY <2>2 DEF Forest
    <3>2. QED
      BY <3>1
  <2>3. CASE n \notin Kids(h, c)
    BY <1>1, <2>1, <2>3
  <2>4. QED
    BY <2>2, <2>3
<1>3. \A n \in LiveIn(g) \ (R \ {v}) : g[n].parent \in LiveIn(g) /\ n \in Kids(g, g[n].parent)
  <2>1. SUFFICES ASSUME NEW n \in LiveIn(h) \ R, n # v
                 PROVE  g[n].parent \in LiveIn(h) /\ n \in Kids(g, g[n].parent)
    BY <1>1
  <2>2. h[n].parent \in LiveIn(h) /\ n \in Kids(h, h[n].parent)
    BY <2>1 DEF Forest
  <2>3. QED
    BY <2>1, <2>2
<1>4. ASSUME NEW S \in SUBSET LiveIn(h), S # {}
      PROVE  \E s \in S : \A c \in S : s \notin Kids(g, c)
  <2> DEFINE B == Below(h, v)
  <2>1. v \in B /\ Closed(h, B) /\ a \notin B
    BY <1>1, BelowLeast DEF LiveIn
  <2> HIDE DEF B
  <2>2. CASE S \subseteq B
    <3>1. PICK s \in S : \A c \in S : s \notin Kids(h, c)
      BY <1>4 DEF Forest
    <3>2. \A c \in S : Kids(g, c) = Kids(h, c)
      BY <2>1, <2>2
    <3>3. QED
      BY <3>1, <3>2
  <2>3. CASE S \ B # {}
    <3>1. S \ B \in SUBSET LiveIn(h)
      OBVIOUS
    <3>2. PICK s \in S \ B : \A c \in S \ B : s \notin Kids(h, c)
      BY <2>3, <3>1 DEF Forest
    <3>3. ASSUME NEW c \in S, s \in Kids(g, c) PROVE FALSE
      <4>1. s # v
        BY <2>1, <3>2
      <4>2. s \in Kids(h, c)
        BY <3>3, <4>1
      <4>3. c \in B
        BY <3>2, <4>2
      <4>4. QED
        BY <2>1, <3>2, <4>2, <4>3 DEF Closed
    <3>4. QED
      BY <3>2, <3>3
  <2>4. QED
    BY <2>2, <2>3
<1>5. QED
  BY <1>1, <1>2, <1>3, <1>4 DEF Forest

\* A closed set of values is freed.
LEMMA Prune ==
  ASSUME NEW h, NEW g, NEW R, Sound(h), Sound(g), Forest(h, R),
         NEW G \in SUBSET LiveIn(h), Closed(h, G),
         LiveIn(g) = LiveIn(h) \ G,
         \A n \in LiveIn(g) : Kids(g, n) = Kids(h, n) \ G,
         \A n \in LiveIn(g) : h[n].parent \notin G => g[n].parent = h[n].parent
  PROVE  Forest(g, R \ G)
<1>1. R \ G \subseteq LiveIn(g)
  BY DEF Forest
<1>2. ASSUME NEW c \in LiveIn(g), NEW n \in Kids(g, c)
      PROVE  n \in LiveIn(g) \ (R \ G) /\ g[n].parent = c
  <2>1. n \in Kids(h, c) /\ n \notin G /\ c \in LiveIn(h) /\ c \notin G
    BY <1>2
  <2>2. n \in LiveIn(h) \ R /\ h[n].parent = c
    BY <2>1 DEF Forest
  <2>3. QED
    BY <2>1, <2>2
<1>3. ASSUME NEW n \in LiveIn(g) \ (R \ G)
      PROVE  g[n].parent \in LiveIn(g) /\ n \in Kids(g, g[n].parent)
  <2>1. n \in LiveIn(h) \ R /\ n \notin G
    BY <1>3
  <2>2. h[n].parent \in LiveIn(h) /\ n \in Kids(h, h[n].parent)
    BY <2>1 DEF Forest
  <2>3. h[n].parent \notin G
    BY <2>1, <2>2 DEF Closed
  <2>4. QED
    BY <1>3, <2>1, <2>2, <2>3
<1>4. ASSUME NEW S \in SUBSET LiveIn(g), S # {}
      PROVE  \E s \in S : \A c \in S : s \notin Kids(g, c)
  <2>1. S \in SUBSET LiveIn(h)
    BY <1>4
  <2>2. PICK s \in S : \A c \in S : s \notin Kids(h, c)
    BY <1>4, <2>1 DEF Forest
  <2>3. \A c \in S : Kids(g, c) \subseteq Kids(h, c)
    BY <1>4
  <2>4. QED
    BY <2>2, <2>3
<1>5. QED
  BY <1>1, <1>2, <1>3, <1>4 DEF Forest

\* The container a lets its item x go, which is then a root.
LEMMA Detach ==
  ASSUME NEW h, NEW g, NEW R, Sound(h), Sound(g), Forest(h, R),
         NEW a \in LiveIn(h), NEW x \in Kids(h, a),
         LiveIn(g) = LiveIn(h),
         Kids(g, a) = Kids(h, a) \ {x},
         \A n \in LiveIn(h) \ {a} : Kids(g, n) = Kids(h, n),
         \A n \in LiveIn(h) : g[n].parent = h[n].parent
  PROVE  Forest(g, R \cup {x})
<1>1. R \cup {x} \subseteq LiveIn(g)
  BY DEF Forest
<1>2. ASSUME NEW c \in LiveIn(g), NEW n \in Kids(g, c)
      PROVE  n \in LiveIn(g) \ (R \cup {x}) /\ g[n].parent = c
  <2>1. n \in Kids(h, c) /\ (c = a => n # x)
    BY <1>2
  <2>2. n \in LiveIn(h) \ R /\ h[n].parent = c /\ h[x].parent = a
    BY <2>1 DEF Forest
  <2>3. QED
    BY <2>1, <2>2
<1>3. ASSUME NEW n \in LiveIn(g) \ (R \cup {x})
      PROVE  g[n].parent \in LiveIn(g) /\ n \in Kids(g, g[n].parent)
  <2>1. h[n].parent \in LiveIn(h) /\ n \in Kids(h, h[n].parent)
    BY <1>3 DEF Forest
  <2>2. QED
    BY <1>3, <2>1
<1>4. ASSUME NEW S \in SUBSET LiveIn(g), S # {}
      PROVE  \E s \in S : \A c \in S : s \notin Kids(g, c)
  <2>1. PICK s \in S : \A c \in S : s \notin Kids(h, c)
    BY <1>4 DEF Forest
  <2>2. \A c \in S : Kids(g, c) \subseteq Kids(h, c)
    BY <1>4
  <2>3. QED
    BY <2>1, <2>2
<1>5. QED
  BY <1>1, <1>2, <1>3, <1>4 DEF Forest

-----------------------------------------------------------------------------
\* The items of a container

LEMMA InSet ==
  ASSUME NEW S, NEW s \in Seq(S), NEW x
  PROVE  x \in ToSet(s) <=> \E i \in 1 .. Len(s) : s[i] = x
BY DEF ToSet

\* An item is added at the end.
LEMMA AppendItem ==
  ASSUME NEW S, NEW s \in Seq(S), NEW v \in S
  PROVE  /\ Append(s, v) \in Seq(S) /\ Len(Append(s, v)) = Len(s) + 1
         /\ ToSet(Append(s, v)) = ToSet(s) \cup {v}
         /\ Distinct(s) /\ v \notin ToSet(s) => Distinct(Append(s, v))
<1> DEFINE t == Append(s, v)
<1>1. t \in Seq(S) /\ Len(t) = Len(s) + 1 /\ Len(s) \in Nat
      /\ t[Len(s) + 1] = v /\ \A i \in 1 .. Len(s) : t[i] = s[i]
  OBVIOUS
<1> HIDE DEF t
<1>2. \A x : x \in ToSet(t) <=> x \in ToSet(s) \/ x = v
  <2>1. \A i : i \in 1 .. Len(t) <=> i \in 1 .. Len(s) \/ i = Len(s) + 1
    BY <1>1
  <2>2. SUFFICES ASSUME NEW x PROVE x \in ToSet(t) <=> x \in ToSet(s) \/ x = v
    OBVIOUS
  <2>3. x \in ToSet(t) <=> \E i \in 1 .. Len(t) : t[i] = x
    BY <1>1, InSet
  <2>4. x \in ToSet(s) <=> \E i \in 1 .. Len(s) : s[i] = x
    BY InSet
  <2>5. QED
    BY <1>1, <2>1, <2>3, <2>4
<1>3. ASSUME Distinct(s), v \notin ToSet(s) PROVE Distinct(t)
  <2>1. \A i \in 1 .. Len(s) : s[i] # v
    BY <1>3, InSet
  <2>2. DOMAIN t = 1 .. Len(s) + 1 /\ DOMAIN s = 1 .. Len(s)
    BY <1>1
  <2>3. QED
    BY <1>1, <1>3, <2>1, <2>2 DEF Distinct
<1>4. QED
  BY <1>1, <1>2, <1>3 DEF t

\* An item takes the place of another.
LEMMA ReplaceItem ==
  ASSUME NEW S, NEW s \in Seq(S), NEW v \in S, NEW i \in 1 .. Len(s),
         Distinct(s), v \notin ToSet(s)
  PROVE  /\ [s EXCEPT ![i] = v] \in Seq(S) /\ Len([s EXCEPT ![i] = v]) = Len(s)
         /\ ToSet([s EXCEPT ![i] = v]) = (ToSet(s) \ {s[i]}) \cup {v}
         /\ Distinct([s EXCEPT ![i] = v])
<1> DEFINE t == [s EXCEPT ![i] = v]
<1>1. t \in Seq(S) /\ Len(t) = Len(s) /\ DOMAIN t = 1 .. Len(s) /\ DOMAIN s = 1 .. Len(s)
      /\ t[i] = v /\ \A j \in 1 .. Len(s) : j # i => t[j] = s[j]
  OBVIOUS
<1>2. \A j \in 1 .. Len(s) : s[j] # v
  BY InSet
<1>3. \A j, k \in 1 .. Len(s) : s[j] = s[k] => j = k
  BY <1>1 DEF Distinct
<1> HIDE DEF t
<1>4. \A x : x \in ToSet(t) <=> (x \in ToSet(s) /\ x # s[i]) \/ x = v
  <2>1. SUFFICES ASSUME NEW x
                 PROVE  x \in ToSet(t) <=> (x \in ToSet(s) /\ x # s[i]) \/ x = v
    OBVIOUS
  <2>2. x \in ToSet(t) <=> \E j \in 1 .. Len(s) : t[j] = x
    BY <1>1, InSet
  <2>3. x \in ToSet(s) <=> \E j \in 1 .. Len(s) : s[j] = x
    BY InSet
  <2>4. QED
    BY <1>1, <1>2, <1>3, <2>2, <2>3
<1>5. Distinct(t)
  BY <1>1, <1>2, <1>3 DEF Distinct
<1>6. QED
  BY <1>1, <1>4, <1>5 DEF t

\* An item is taken out and the others move up.
LEMMA RemoveItemAt ==
  ASSUME NEW S, NEW s \in Seq(S), NEW i \in 1 .. Len(s), Distinct(s)
  PROVE  /\ RemoveAt(s, i) \in Seq(S)
         /\ ToSet(RemoveAt(s, i)) = ToSet(s) \ {s[i]}
         /\ Distinct(RemoveAt(s, i))
<1> DEFINE t == RemoveAt(s, i)
           n == Len(s)
           a == SubSeq(s, 1, i - 1)
           b == SubSeq(s, i + 1, n)
<1>1. a \in Seq(S) /\ Len(a) = i - 1 /\ \A j \in 1 .. i - 1 : a[j] = s[j]
  OBVIOUS
<1>2. b \in Seq(S) /\ Len(b) = n - i /\ \A j \in 1 .. n - i : b[j] = s[i + j]
  OBVIOUS
<1>3. t = a \o b
  BY DEF RemoveAt
<1>n. n \in Nat /\ DOMAIN s = 1 .. n
  OBVIOUS
<1> HIDE DEF t, a, b
<1>4. t \in Seq(S) /\ Len(t) = n - 1 /\ DOMAIN t = 1 .. n - 1
      /\ \A j \in 1 .. n - 1 : t[j] = IF j <= i - 1 THEN a[j] ELSE b[j - (i - 1)]
  <2>1. t \in Seq(S) /\ Len(t) = Len(a) + Len(b)
        /\ \A j \in 1 .. Len(a) + Len(b) : t[j] = IF j <= Len(a) THEN a[j] ELSE b[j - Len(a)]
    BY <1>1, <1>2, <1>3, ConcatProperties
  <2>2. Len(a) + Len(b) = n - 1
    BY <1>1, <1>2, <1>n
  <2>3. QED
    BY <1>1, <2>1, <2>2
<1>5. \A j \in 1 .. n - 1 : t[j] = IF j < i THEN s[j] ELSE s[j + 1]
  <2>1. SUFFICES ASSUME NEW j \in 1 .. n - 1 PROVE t[j] = IF j < i THEN s[j] ELSE s[j + 1]
    OBVIOUS
  <2>2. CASE j < i
    <3>1. j <= i - 1 /\ j \in 1 .. i - 1
      BY <2>2
    <3>2. QED
      BY <1>1, <1>4, <2>2, <3>1
  <2>3. CASE ~(j < i)
    <3>1. ~(j <= i - 1) /\ j - (i - 1) \in 1 .. n - i /\ i + (j - (i - 1)) = j + 1
      BY <1>n, <2>3
    <3>2. t[j] = b[j - (i - 1)]
      BY <1>4, <3>1
    <3>3. b[j - (i - 1)] = s[i + (j - (i - 1))]
      BY <1>2, <3>1
    <3>4. QED
      BY <2>3, <3>1, <3>2, <3>3
  <2>4. QED
    BY <2>2, <2>3
<1>6. \A j, k \in 1 .. n : s[j] = s[k] => j = k
  BY <1>n DEF Distinct
<1>7. \A x : x \in ToSet(t) <=> x \in ToSet(s) /\ x # s[i]
  <2>1. SUFFICES ASSUME NEW x PROVE x \in ToSet(t) <=> x \in ToSet(s) /\ x # s[i]
    OBVIOUS
  <2>2. x \in ToSet(t) <=> \E j \in 1 .. n - 1 : t[j] = x
    BY <1>4, InSet
  <2>3. x \in ToSet(s) <=> \E j \in 1 .. n : s[j] = x
    BY InSet
  <2>4. ASSUME NEW j \in 1 .. n - 1 PROVE t[j] \in ToSet(s) /\ t[j] # s[i]
    <3>1. j \in 1 .. n /\ j + 1 \in 1 .. n
      BY <1>n
    <3>2. QED
      BY <1>5, <1>6, <3>1, InSet
  <2>5. ASSUME NEW j \in 1 .. n, j # i PROVE \E k \in 1 .. n - 1 : t[k] = s[j]
    <3>1. CASE j < i
      <4>1. j \in 1 .. n - 1
        BY <1>n, <3>1
      <4>2. QED
        BY <1>5, <3>1, <4>1
    <3>2. CASE j > i
      <4>1. j - 1 \in 1 .. n - 1 /\ ~(j - 1 < i) /\ (j - 1) + 1 = j
        BY <1>n, <3>2
      <4>2. QED
        BY <1>5, <4>1
    <3>3. QED
      BY <2>5, <3>1, <3>2
  <2>6. QED
    BY <2>2, <2>3, <2>4, <2>5
<1>8. Distinct(t)
  <2>1. SUFFICES ASSUME NEW j \in 1 .. n - 1, NEW k \in 1 .. n - 1, t[j] = t[k] PROVE j = k
    BY <1>4 DEF Distinct
  <2>2. j \in 1 .. n /\ j + 1 \in 1 .. n /\ k \in 1 .. n /\ k + 1 \in 1 .. n
    BY <1>n
  <2>3. QED
    BY <1>5, <1>6, <2>1, <2>2
<1>9. QED
  BY <1>4, <1>7, <1>8 DEF t

\* An item is taken out and the last one moves into the hole.
LEMMA CloseHole ==
  ASSUME NEW S, NEW s \in Seq(S), NEW i \in 1 .. Len(s)
  PROVE  /\ Close(s, i) \in Seq(S) /\ Len(Close(s, i)) = Len(s) - 1
         /\ Distinct(s) => ToSet(Close(s, i)) = ToSet(s) \ {s[i]} /\ Distinct(Close(s, i))
<1> DEFINE t == Close(s, i)
           n == Len(s)
           u == [s EXCEPT ![i] = s[n]]
<1>1. n \in Nat /\ n >= 1 /\ DOMAIN s = 1 .. n /\ n \in 1 .. n /\ s[n] \in S
  OBVIOUS
<1>n. n \in Nat /\ n >= 1 /\ i \in 1 .. n
  BY <1>1
<1>m. \A j \in 1 .. n : s[j] \in ToSet(s)
  BY InSet
<1>2. u \in Seq(S) /\ Len(u) = n /\ \A j \in 1 .. n : u[j] = IF j = i THEN s[n] ELSE s[j]
  BY <1>1
<1>3. t = SubSeq(u, 1, Len(u) - 1)
  BY DEF Close, Front
<1> HIDE DEF u, t, n
<1>4. t \in Seq(S) /\ Len(t) = n - 1 /\ DOMAIN t = 1 .. n - 1
      /\ \A j \in 1 .. n - 1 : t[j] = u[j]
  BY <1>n, <1>2, <1>3
<1>5. \A j \in 1 .. n - 1 : t[j] = IF j = i THEN s[n] ELSE s[j]
  <2>1. \A j \in 1 .. n - 1 : j \in 1 .. n
    BY <1>n
  <2>2. QED
    BY <1>2, <1>4, <2>1
<1>6. ASSUME Distinct(s) PROVE ToSet(t) = ToSet(s) \ {s[i]} /\ Distinct(t)
  <2>1. \A j, k \in 1 .. n : s[j] = s[k] => j = k
    BY <1>1, <1>6 DEF Distinct
  <2>2. ASSUME NEW x PROVE x \in ToSet(t) <=> x \in ToSet(s) /\ x # s[i]
    <3>1. x \in ToSet(t) <=> \E j \in 1 .. n - 1 : t[j] = x
      BY <1>4, InSet
    <3>2. x \in ToSet(s) <=> \E j \in 1 .. n : s[j] = x
      BY InSet DEF n
    <3>3. ASSUME NEW j \in 1 .. n - 1 PROVE t[j] \in ToSet(s) /\ t[j] # s[i]
      <4>1. j \in 1 .. n /\ j # n
        BY <1>n
      <4>2. QED
        BY <1>n, <1>m, <1>1, <1>5, <2>1, <4>1
    <3>4. ASSUME NEW j \in 1 .. n, j # i PROVE \E k \in 1 .. n - 1 : t[k] = s[j]
      <4>1. CASE j = n
        <5>1. i \in 1 .. n - 1
          BY <1>n, <3>4, <4>1
        <5>2. QED
          BY <1>5, <4>1, <5>1
      <4>2. CASE j # n
        <5>1. j \in 1 .. n - 1
          BY <1>n, <3>4, <4>2
        <5>2. QED
          BY <1>5, <3>4, <5>1
      <4>3. QED
        BY <4>1, <4>2
    <3>5. QED
      BY <3>1, <3>2, <3>3, <3>4
  <2>3. Distinct(t)
    <3>1. SUFFICES ASSUME NEW j \in 1 .. n - 1, NEW k \in 1 .. n - 1, t[j] = t[k] PROVE j = k
      BY <1>4 DEF Distinct
    <3>2. j \in 1 .. n /\ k \in 1 .. n /\ j # n /\ k # n
      BY <1>n
    <3>3. QED
      BY <1>1, <1>5, <2>1, <3>1, <3>2
  <2>4. QED
    BY <2>2, <2>3
<1>7. QED
  BY <1>4, <1>6 DEF t, n

-----------------------------------------------------------------------------
\* What an operation leaves of the heap

\* A cell of this type can hold these items under these names.
Fits(type, names, items) ==
    /\ names \in Seq(Seq(STRING)) /\ Distinct(names) /\ items \in Seq(Nodes) /\ Distinct(items)
    /\ Len(names) = IF type = "object" THEN Len(items) ELSE 0
    /\ type \notin {"array", "object"} => items = <<>>

LEMMA SoundFits ==
  ASSUME NEW h, Sound(h), NEW n \in LiveIn(h)
  PROVE  /\ n \in Nodes /\ h[n] \in Cells /\ h[n] # FREE
         /\ Fits(h[n].type, h[n].names, h[n].items)
         /\ Kids(h, n) = ToSet(h[n].items)
BY DEF Sound, LiveIn, WellFormed, Cells, Fits, Kids

\* A heap whose live cells fit is sound.
LEMMA FitsSound ==
  ASSUME NEW h \in Heaps,
         \A n \in LiveIn(h) : h[n] \in Cells => Fits(h[n].type, h[n].names, h[n].items)
  PROVE  Sound(h)
<1>1. SUFFICES ASSUME NEW n \in LiveIn(h)
               PROVE  WellFormed(h[n]) /\ Distinct(h[n].items) /\ Distinct(h[n].names)
  BY DEF Sound
<1>2. h[n] \in Cells
  BY DEF LiveIn, Heaps
<1>3. QED
  BY <1>2 DEF Fits, WellFormed

\* A cell, and one with other items under other names, or with another parent.
LEMMA CellParts ==
  ASSUME NEW cell \in Cells
  PROVE  cell = [type |-> cell.type, parent |-> cell.parent, names |-> cell.names,
                 items |-> cell.items, text |-> cell.text]
BY DEF Cells

LEMMA CellFilled ==
  ASSUME NEW cell \in Cells, NEW names, NEW items
  PROVE  [[cell EXCEPT !.names = names] EXCEPT !.items = items] =
            [type |-> cell.type, parent |-> cell.parent, names |-> names,
             items |-> items, text |-> cell.text]
<1> DEFINE c == [cell EXCEPT !.names = names]
<1>1. c = [type |-> cell.type, parent |-> cell.parent, names |-> names,
           items |-> cell.items, text |-> cell.text]
  BY CellParts
<1> HIDE DEF c
<1>2. [c EXCEPT !.items = items] = [type |-> cell.type, parent |-> cell.parent, names |-> names,
                                    items |-> items, text |-> cell.text]
  BY <1>1
<1>3. QED
  BY <1>2 DEF c

LEMMA CellTaken ==
  ASSUME NEW cell \in Cells, NEW p
  PROVE  [cell EXCEPT !.parent = p] =
            [type |-> cell.type, parent |-> p, names |-> cell.names,
             items |-> cell.items, text |-> cell.text]
BY CellParts

LEMMA FilledHeap ==
  ASSUME NEW h, Sound(h), NEW c \in LiveIn(h), NEW names, NEW items,
         Fits(h[c].type, names, items)
  PROVE  LET g == Filled(h, c, names, items)
         IN  /\ Sound(g) /\ LiveIn(g) = LiveIn(h)
             /\ \A n \in Nodes \ {c} : g[n] = h[n]
             /\ g[c].type = h[c].type /\ g[c].parent = h[c].parent /\ g[c].text = h[c].text
             /\ g[c].names = names /\ g[c].items = items
             /\ Kids(g, c) = ToSet(items)
             /\ \A n \in Nodes \ {c} : Kids(g, n) = Kids(h, n)
<1> DEFINE g == Filled(h, c, names, items)
           cell == [type |-> h[c].type, parent |-> h[c].parent, names |-> names,
                    items |-> items, text |-> h[c].text]
<1>1. c \in Nodes /\ h \in Heaps /\ h[c] \in Cells
  BY SoundFits DEF Sound
<1>2. cell \in Cells
  BY <1>1 DEF Cells, Fits
<1>3. g = [h EXCEPT ![c] = cell]
  <2>1. g = [h EXCEPT ![c] = [[h[c] EXCEPT !.names = names] EXCEPT !.items = items]]
    BY <1>1 DEF Filled, Heaps
  <2>2. QED
    BY <1>1, <2>1, CellFilled
<1>4. g[c] = cell /\ cell.type = h[c].type /\ cell.parent = h[c].parent /\ cell.names = names
      /\ cell.items = items /\ cell.text = h[c].text
  BY <1>1, <1>3 DEF Heaps
<1>5. \A n \in Nodes \ {c} : g[n] = h[n]
  BY <1>1, <1>3 DEF Heaps
<1>6. cell # FREE
  BY <1>2, FreeAssumption
<1>7. g \in Heaps
  BY <1>1, <1>2, <1>3 DEF Heaps
<1> HIDE DEF g, cell
<1>8. LiveIn(g) = LiveIn(h)
  BY <1>4, <1>5, <1>6 DEF LiveIn
<1>9. Sound(g)
  <2>1. ASSUME NEW n \in LiveIn(g) PROVE Fits(g[n].type, g[n].names, g[n].items)
    <3>1. n \in LiveIn(h) /\ n \in Nodes
      BY <1>8 DEF LiveIn
    <3>2. CASE n = c
      BY <1>4, <3>2
    <3>3. CASE n # c
      BY <1>5, <3>1, <3>3, SoundFits
    <3>4. QED
      BY <3>2, <3>3
  <2>2. QED
    BY <1>7, <2>1, FitsSound
<1>10. Kids(g, c) = ToSet(items)
  BY <1>4, <1>6 DEF Kids
<1>11. \A n \in Nodes \ {c} : Kids(g, n) = Kids(h, n)
  BY <1>5 DEF Kids
<1>12. QED
  BY <1>4, <1>5, <1>8, <1>9, <1>10, <1>11 DEF g

LEMMA TakenHeap ==
  ASSUME NEW h, Sound(h), NEW c \in LiveIn(h), NEW names, NEW items,
         Fits(h[c].type, names, items), NEW v \in LiveIn(h), v # c
  PROVE  LET g == Taken(h, c, names, items, v)
         IN  /\ Sound(g) /\ LiveIn(g) = LiveIn(h)
             /\ \A n \in Nodes \ {c, v} : g[n] = h[n]
             /\ g[c].type = h[c].type /\ g[c].parent = h[c].parent /\ g[c].text = h[c].text
             /\ g[c].names = names /\ g[c].items = items
             /\ g[v].type = h[v].type /\ g[v].parent = c /\ g[v].text = h[v].text
             /\ g[v].names = h[v].names /\ g[v].items = h[v].items
             /\ Kids(g, c) = ToSet(items)
             /\ \A n \in Nodes \ {c} : Kids(g, n) = Kids(h, n)
<1> DEFINE f == Filled(h, c, names, items)
           g == Taken(h, c, names, items, v)
           cell == [type |-> h[v].type, parent |-> c, names |-> h[v].names,
                    items |-> h[v].items, text |-> h[v].text]
<1>1. /\ Sound(f) /\ LiveIn(f) = LiveIn(h)
      /\ \A n \in Nodes \ {c} : f[n] = h[n]
      /\ f[c].type = h[c].type /\ f[c].parent = h[c].parent /\ f[c].text = h[c].text
      /\ f[c].names = names /\ f[c].items = items
      /\ Kids(f, c) = ToSet(items)
      /\ \A n \in Nodes \ {c} : Kids(f, n) = Kids(h, n)
  BY FilledHeap
<1>2. c \in Nodes /\ v \in Nodes /\ f \in Heaps /\ f[v] \in Cells /\ f[v] = h[v]
  BY <1>1, SoundFits DEF Sound
<1>3. cell \in Cells
  BY <1>2 DEF Cells, Pointers
<1>4. g = [f EXCEPT ![v].parent = c]
  BY DEF Taken
<1> HIDE DEF f, g
<1>5. g = [f EXCEPT ![v] = cell]
  <2>1. g = [f EXCEPT ![v] = [f[v] EXCEPT !.parent = c]]
    BY <1>2, <1>4 DEF Heaps
  <2>2. QED
    BY <1>2, <2>1, CellTaken
<1>6. g[v] = cell /\ cell.type = h[v].type /\ cell.parent = c /\ cell.names = h[v].names
      /\ cell.items = h[v].items /\ cell.text = h[v].text
  BY <1>2, <1>5 DEF Heaps
<1>7. \A n \in Nodes \ {v} : g[n] = f[n]
  BY <1>2, <1>5 DEF Heaps
<1>8. cell # FREE /\ f[v] # FREE
  BY <1>2, <1>3, FreeAssumption
<1>9. g \in Heaps
  BY <1>2, <1>3, <1>5 DEF Heaps
<1> HIDE DEF cell
<1>10. LiveIn(g) = LiveIn(f)
  BY <1>2, <1>6, <1>7, <1>8 DEF LiveIn
<1>11. Sound(g)
  <2>1. ASSUME NEW n \in LiveIn(g) PROVE Fits(g[n].type, g[n].names, g[n].items)
    <3>1. n \in LiveIn(f) /\ n \in Nodes /\ Fits(f[n].type, f[n].names, f[n].items)
      BY <1>1, <1>10, SoundFits
    <3>2. QED
      BY <1>2, <1>6, <1>7, <3>1
  <2>2. QED
    BY <1>9, <2>1, FitsSound
<1>12. \A n \in Nodes : Kids(g, n) = Kids(f, n)
  BY <1>2, <1>6, <1>7, <1>8 DEF Kids
<1>13. /\ Sound(g) /\ LiveIn(g) = LiveIn(h)
       /\ \A n \in Nodes \ {c, v} : g[n] = h[n]
       /\ g[c].type = h[c].type /\ g[c].parent = h[c].parent /\ g[c].text = h[c].text
       /\ g[c].names = names /\ g[c].items = items
       /\ g[v].type = h[v].type /\ g[v].parent = c /\ g[v].text = h[v].text
       /\ g[v].names = h[v].names /\ g[v].items = h[v].items
       /\ Kids(g, c) = ToSet(items)
       /\ \A n \in Nodes \ {c} : Kids(g, n) = Kids(h, n)
  BY <1>1, <1>2, <1>6, <1>7, <1>10, <1>11, <1>12
<1>14. QED
  BY <1>13 DEF g

\* Every value but c is the same in both heaps, but for its parent.
SameBut(g, h, c) ==
    \A n \in LiveIn(h) :
        n # c => /\ g[n].type = h[n].type /\ g[n].names = h[n].names
                 /\ g[n].items = h[n].items /\ g[n].text = h[n].text

\* What the container of it has then.
LEMMA TakenFields ==
  ASSUME NEW h, Sound(h), NEW c \in LiveIn(h), NEW names, NEW items,
         Fits(h[c].type, names, items), NEW v \in LiveIn(h), v # c
  PROVE  LET g == Taken(h, c, names, items, v)
         IN  /\ LiveIn(g) = LiveIn(h) /\ g[c].type = h[c].type /\ g[c].text = h[c].text
             /\ g[c].names = names /\ g[c].items = items
BY TakenHeap

LEMMA TakenSame ==
  ASSUME NEW h, Sound(h), NEW c \in LiveIn(h), NEW names, NEW items,
         Fits(h[c].type, names, items), NEW v \in LiveIn(h), v # c
  PROVE  SameBut(Taken(h, c, names, items, v), h, c)
<1> DEFINE g == Taken(h, c, names, items, v)
<1>1. /\ \A n \in Nodes \ {c, v} : g[n] = h[n]
      /\ g[v].type = h[v].type /\ g[v].names = h[v].names /\ g[v].items = h[v].items
      /\ g[v].text = h[v].text
  BY TakenHeap
<1> HIDE DEF g
<1>2. ASSUME NEW n \in LiveIn(h), n # c
      PROVE  /\ g[n].type = h[n].type /\ g[n].names = h[n].names
             /\ g[n].items = h[n].items /\ g[n].text = h[n].text
  <2>1. n \in Nodes
    BY DEF LiveIn
  <2>2. QED
    BY <1>1, <1>2, <2>1
<1>3. SameBut(g, h, c)
  BY <1>2 DEF SameBut
<1>4. QED
  BY <1>3 DEF g

\* A value as it is in h, but for its parent.
Looks(g, h, n) ==
    /\ n \in LiveIn(g)
    /\ g[n].type = h[n].type /\ g[n].names = h[n].names
    /\ g[n].items = h[n].items /\ g[n].text = h[n].text

LEMMA TakenLooks ==
  ASSUME NEW h, Sound(h), NEW c \in LiveIn(h), NEW names, NEW items, NEW w \in LiveIn(h), w # c,
         Sound(Taken(h, c, names, items, w)), c \in LiveIn(Taken(h, c, names, items, w))
  PROVE  LET g == Taken(h, c, names, items, w)
         IN  /\ LiveIn(g) = LiveIn(h)
             /\ g[c].type = h[c].type /\ g[c].names = names /\ g[c].items = items
             /\ g[c].text = h[c].text
             /\ \A n \in LiveIn(h) \ {c} : Looks(g, h, n)
<1> DEFINE f == Filled(h, c, names, items)
           g == Taken(h, c, names, items, w)
<1>1. h \in Heaps /\ c \in Nodes /\ w \in Nodes /\ h[c] \in Cells
  BY SoundFits DEF Sound
<1>2. f = [h EXCEPT ![c] = [[h[c] EXCEPT !.names = names] EXCEPT !.items = items]]
  BY <1>1 DEF Filled, Heaps
<1>3. f = [h EXCEPT ![c] = [type |-> h[c].type, parent |-> h[c].parent, names |-> names,
                            items |-> items, text |-> h[c].text]]
  BY <1>1, <1>2, CellFilled
<1>4. f[c].type = h[c].type /\ f[c].names = names /\ f[c].items = items /\ DOMAIN f = Nodes
  BY <1>1, <1>3 DEF Heaps
<1>5. g = [f EXCEPT ![w].parent = c]
  BY DEF Taken
<1>6. Sound(g) /\ c \in LiveIn(g)
  OBVIOUS
<1> HIDE DEF f, g
<1>7. g[c] = f[c]
  BY <1>1, <1>4, <1>5
<1>8. Fits(g[c].type, g[c].names, g[c].items)
  BY <1>6, SoundFits
<1>9. Fits(h[c].type, names, items)
  BY <1>4, <1>7, <1>8
<1>10. /\ LiveIn(g) = LiveIn(h)
       /\ g[c].type = h[c].type /\ g[c].text = h[c].text /\ g[c].names = names /\ g[c].items = items
  BY <1>9, TakenHeap DEF g
<1>11. SameBut(g, h, c)
  BY <1>9, TakenSame DEF g
<1>12. \A n \in LiveIn(h) \ {c} : Looks(g, h, n)
  BY <1>10, <1>11 DEF SameBut, Looks
<1>13. QED
  BY <1>10, <1>12 DEF g

LEMMA UnallocatedHeap ==
  ASSUME NEW h, Sound(h), NEW G \in SUBSET Nodes
  PROVE  LET g == Unallocated(h, G)
         IN  /\ Sound(g) /\ LiveIn(g) = LiveIn(h) \ G
             /\ \A n \in LiveIn(g) :
                   /\ g[n].type = h[n].type /\ g[n].names = h[n].names
                   /\ g[n].items = h[n].items /\ g[n].text = h[n].text
                   /\ g[n].parent = IF h[n].parent \in G THEN FREE ELSE h[n].parent
                   /\ h[n].parent \notin G => g[n] = h[n]
                   /\ Kids(g, n) = Kids(h, n)
<1> DEFINE g == Unallocated(h, G)
           Lost(n) == [type |-> h[n].type, parent |-> FREE, names |-> h[n].names,
                       items |-> h[n].items, text |-> h[n].text]
<1>1. ASSUME NEW n \in Nodes PROVE n \in G \/ h[n] = FREE => g[n] = FREE
  BY DEF Unallocated
<1>2. ASSUME NEW n \in LiveIn(h) \ G
      PROVE  /\ n \in Nodes /\ h[n] \in Cells
             /\ g[n] = IF h[n].parent \in G THEN Lost(n) ELSE h[n]
  <2>1. n \in Nodes /\ h[n] \in Cells /\ h[n] # FREE
    BY SoundFits
  <2>2. CASE h[n].parent \in G
    <3>1. g[n] = [h[n] EXCEPT !.parent = FREE]
      BY <1>2, <2>1, <2>2 DEF Unallocated
    <3>2. QED
      BY <2>1, <2>2, <3>1, CellTaken
  <2>3. CASE h[n].parent \notin G
    BY <1>2, <2>1, <2>3 DEF Unallocated
  <2>4. QED
    BY <2>1, <2>2, <2>3
<1>3. ASSUME NEW n \in LiveIn(h) \ G
      PROVE  /\ Lost(n) \in Cells
             /\ Lost(n).type = h[n].type /\ Lost(n).names = h[n].names
             /\ Lost(n).items = h[n].items /\ Lost(n).text = h[n].text
             /\ Lost(n).parent = FREE
  BY <1>2 DEF Cells, Pointers
<1>d. DOMAIN g = Nodes /\ g = [n \in Nodes |-> g[n]]
  BY DEF Unallocated
<1> HIDE DEF g, Lost
<1>4. ASSUME NEW n \in LiveIn(h) \ G
      PROVE  /\ n \in Nodes /\ g[n] \in Cells /\ g[n] # FREE
             /\ g[n].type = h[n].type /\ g[n].names = h[n].names
             /\ g[n].items = h[n].items /\ g[n].text = h[n].text
             /\ g[n].parent = IF h[n].parent \in G THEN FREE ELSE h[n].parent
             /\ h[n].parent \notin G => g[n] = h[n]
  BY <1>2, <1>3, FreeAssumption
<1>5. LiveIn(g) = LiveIn(h) \ G
  BY <1>1, <1>4 DEF LiveIn
<1>6. g \in Heaps
  <2>1. \A n \in Nodes : g[n] \in Cells \cup {FREE}
    BY <1>1, <1>4 DEF LiveIn
  <2>2. QED
    BY <2>1, <1>d DEF Heaps
<1>7. Sound(g)
  <2>1. ASSUME NEW n \in LiveIn(g) PROVE Fits(g[n].type, g[n].names, g[n].items)
    <3>1. n \in LiveIn(h) \ G
      BY <1>5
    <3>2. QED
      BY <1>4, <3>1, SoundFits
  <2>2. QED
    BY <1>6, <2>1, FitsSound
<1>8. ASSUME NEW n \in LiveIn(g) PROVE Kids(g, n) = Kids(h, n)
  BY <1>4, <1>5 DEF Kids, LiveIn
<1>9. QED
  BY <1>4, <1>5, <1>7, <1>8 DEF g

-----------------------------------------------------------------------------
\* What the operations keep

\* What is in a block when it is allocated.
IsNew(b) == b \in Cells /\ b.parent = NULL /\ b.names = <<>> /\ b.items = <<>>

LEMMA BlockIsNew ==
  ASSUME NEW type \in Types, NEW text \in Seq(STRING)
  PROVE  IsNew(Block(type, text)) /\ Block(type, text).type = type
BY DEF Block, Cells, Pointers, IsNew

\* A block is allocated.
LEMMA GoodInit ==
  ASSUME NEW h, NEW R, NEW T, Good(h, R, T), NEW v \in Nodes, h[v] = FREE,
         NEW b, IsNew(b)
  PROVE  LET g == Allocated(h, v, b)
         IN  /\ Good(g, R \cup {v}, T)
             /\ LiveIn(g) = LiveIn(h) \cup {v} /\ v \notin LiveIn(h)
             /\ g[v] = b /\ \A n \in Nodes \ {v} : g[n] = h[n]
<1> DEFINE g == Allocated(h, v, b)
<1>1. Sound(h) /\ Forest(h, R) /\ Loose(h, R, T) /\ h \in Heaps
  BY DEF Good, Sound
<1>2. b \in Cells /\ b.parent = NULL /\ b.names = <<>> /\ b.items = <<>>
  BY DEF IsNew
<1>3. b # FREE
  BY <1>2, FreeAssumption
<1>4. g \in Heaps /\ g[v] = b /\ \A n \in Nodes \ {v} : g[n] = h[n]
  BY <1>1, <1>2 DEF Heaps, Allocated
<1> HIDE DEF g
<1>5. LiveIn(g) = LiveIn(h) \cup {v} /\ v \notin LiveIn(h)
  BY <1>3, <1>4 DEF LiveIn
<1>6. Sound(g)
  <2>1. Fits(b.type, <<>>, <<>>)
    BY DEF Fits, Distinct
  <2>2. ASSUME NEW n \in LiveIn(g) PROVE Fits(g[n].type, g[n].names, g[n].items)
    <3>1. CASE n = v
      BY <1>2, <1>4, <2>1, <3>1
    <3>2. CASE n # v
      <4>1. n \in LiveIn(h) /\ n \in Nodes
        BY <1>5, <3>2 DEF LiveIn
      <4>2. QED
        BY <1>1, <1>4, <3>2, <4>1, SoundFits
    <3>3. QED
      BY <3>1, <3>2
  <2>3. QED
    BY <1>4, <2>2, FitsSound
<1>7. Kids(g, v) = {}
  <2>1. ToSet(<<>>) = {}
    BY DEF ToSet
  <2>2. QED
    BY <1>2, <1>3, <1>4, <2>1 DEF Kids
<1>8. \A n \in Nodes \ {v} : Kids(g, n) = Kids(h, n)
  BY <1>4 DEF Kids
<1>9. LiveIn(h) \subseteq Nodes \ {v}
  BY <1>5 DEF LiveIn
<1>10. Forest(g, R \cup {v})
  <2>1. R \cup {v} \subseteq LiveIn(g)
    BY <1>1, <1>5 DEF Forest
  <2>2. ASSUME NEW c \in LiveIn(g), NEW n \in Kids(g, c)
        PROVE  n \in LiveIn(g) \ (R \cup {v}) /\ g[n].parent = c
    <3>1. c \in LiveIn(h) /\ n \in Kids(h, c)
      BY <1>5, <1>7, <1>8, <1>9, <2>2
    <3>2. n \in LiveIn(h) \ R /\ h[n].parent = c
      BY <1>1, <3>1 DEF Forest
    <3>3. QED
      BY <1>4, <1>5, <1>9, <3>2
  <2>3. ASSUME NEW n \in LiveIn(g) \ (R \cup {v})
        PROVE  g[n].parent \in LiveIn(g) /\ n \in Kids(g, g[n].parent)
    <3>1. n \in LiveIn(h) \ R
      BY <1>5, <2>3
    <3>2. h[n].parent \in LiveIn(h) /\ n \in Kids(h, h[n].parent)
      BY <1>1, <3>1 DEF Forest
    <3>3. QED
      BY <1>4, <1>5, <1>8, <1>9, <3>1, <3>2
  <2>4. ASSUME NEW S \in SUBSET LiveIn(g), S # {}
        PROVE  \E s \in S : \A c \in S : s \notin Kids(g, c)
    <3>1. CASE S \subseteq {v}
      BY <1>7, <2>4, <3>1
    <3>2. CASE S \ {v} # {}
      <4>1. S \ {v} \in SUBSET LiveIn(h)
        BY <1>5
      <4>2. PICK s \in S \ {v} : \A c \in S \ {v} : s \notin Kids(h, c)
        BY <1>1, <3>2, <4>1 DEF Forest
      <4>3. QED
        BY <1>7, <1>8, <1>9, <4>1, <4>2
    <3>3. QED
      BY <3>1, <3>2
  <2>5. QED
    BY <2>1, <2>2, <2>3, <2>4 DEF Forest
<1>11. Loose(g, R \cup {v}, T)
  <2>1. R \subseteq Nodes \ {v}
    BY <1>1, <1>9 DEF Forest
  <2>2. QED
    BY <1>1, <1>2, <1>4, <2>1 DEF Loose
<1>12. QED
  BY <1>4, <1>5, <1>6, <1>10, <1>11 DEF Good, g

\* In a forest nothing is freed twice.
LEMMA NotShared ==
  ASSUME NEW h, NEW R, Sound(h), Forest(h, R), NEW W \in SUBSET LiveIn(h), NEW n
  PROVE  ~Shared(h, W, n)
<1>1. SUFFICES ASSUME Shared(h, W, n) PROVE FALSE
  OBVIOUS
<1>2. PICK a \in W, b \in W :
        /\ n \in Kids(h, a) \cap Kids(h, b)
        /\ a # b \/ \E i, j \in DOMAIN h[a].items : i # j /\ h[a].items[i] = n /\ h[a].items[j] = n
  BY <1>1 DEF Shared
<1>3. a = b
  <2>1. a \in LiveIn(h) /\ b \in LiveIn(h)
    BY <1>2
  <2>2. h[n].parent = a /\ h[n].parent = b
    BY <1>2, <2>1 DEF Forest
  <2>3. QED
    BY <2>2
<1>4. Distinct(h[a].items)
  BY <1>2 DEF Sound
<1>5. QED
  BY <1>2, <1>3, <1>4 DEF Distinct

\* The container c loses the blocks of a closed set, and nothing else does.
LEMMA GoodPrune ==
  ASSUME NEW h, NEW R, NEW T, Good(h, R, T), NEW G \in SUBSET LiveIn(h), Closed(h, G),
         R \cap G = {}, NEW c \in LiveIn(h) \ G, NEW names, NEW items,
         Fits(h[c].type, names, items), ToSet(items) = Kids(h, c) \ G,
         \A n \in LiveIn(h) \ (G \cup {c}) : Kids(h, n) \cap G = {}
  PROVE  LET g == Filled(Unallocated(h, G), c, names, items)
         IN  Good(g, R, T) /\ LiveIn(g) = LiveIn(h) \ G
<1> DEFINE u == Unallocated(h, G)
           g == Filled(u, c, names, items)
<1>1. Sound(h) /\ Forest(h, R) /\ Loose(h, R, T) /\ G \in SUBSET Nodes /\ LiveIn(h) \subseteq Nodes
  BY DEF Good, LiveIn
<1>2. /\ Sound(u) /\ LiveIn(u) = LiveIn(h) \ G
      /\ \A n \in LiveIn(u) :
           /\ u[n].type = h[n].type
           /\ u[n].parent = IF h[n].parent \in G THEN FREE ELSE h[n].parent
           /\ Kids(u, n) = Kids(h, n)
  BY <1>1, UnallocatedHeap
<1>3. c \in LiveIn(u) /\ u[c].type = h[c].type
  BY <1>2
<1> HIDE DEF u
<1>4. /\ Sound(g) /\ LiveIn(g) = LiveIn(u)
      /\ \A n \in Nodes \ {c} : g[n] = u[n]
      /\ g[c].parent = u[c].parent
      /\ Kids(g, c) = ToSet(items)
      /\ \A n \in Nodes \ {c} : Kids(g, n) = Kids(u, n)
  BY <1>2, <1>3, FilledHeap
<1> HIDE DEF g
<1>5. \A n \in LiveIn(g) : g[n].parent = IF h[n].parent \in G THEN FREE ELSE h[n].parent
  BY <1>1, <1>2, <1>4
<1>6. \A n \in LiveIn(g) : Kids(g, n) = Kids(h, n) \ G
  BY <1>1, <1>2, <1>4
<1>7. Forest(g, R \ G)
  BY <1>1, <1>2, <1>4, <1>5, <1>6, Prune
<1>8. R \ G = R
  OBVIOUS
<1>9. Loose(g, R, T)
  <2>1. R \subseteq LiveIn(g)
    BY <1>7, <1>8 DEF Forest
  <2>2. NULL \notin G
    BY <1>1, PointersAssumption
  <2>3. ASSUME NEW r \in R PROVE g[r].parent = NULL \/ (r \in T /\ g[r].parent = FREE)
    <3>1. h[r].parent = NULL \/ (r \in T /\ h[r].parent = FREE)
      BY <1>1 DEF Loose
    <3>2. FREE \notin G
      BY <1>1, PointersAssumption
    <3>3. g[r].parent = h[r].parent
      BY <1>5, <2>1, <2>2, <3>1, <3>2
    <3>4. QED
      BY <3>1, <3>3
  <2>4. QED
    BY <2>3 DEF Loose
<1>10. QED
  BY <1>2, <1>4, <1>7, <1>8, <1>9 DEF Good, g, u

\* A root is freed, and what is below it.
LEMMA GoodFree ==
  ASSUME NEW h, NEW R, NEW T, Good(h, R, T), NEW v \in R
  PROVE  LET g == Unallocated(h, Below(h, v))
         IN  Good(g, R \ {v}, T) /\ LiveIn(g) = LiveIn(h) \ Below(h, v)
<1> DEFINE G == Below(h, v)
           g == Unallocated(h, G)
<1>1. Sound(h) /\ Forest(h, R) /\ Loose(h, R, T) /\ LiveIn(h) \subseteq Nodes /\ v \in LiveIn(h)
  BY DEF Good, LiveIn, Forest
<1>2. G \subseteq LiveIn(h) /\ v \in G /\ Closed(h, G)
      /\ \A n \in G \ {v} : n \notin R /\ h[n].parent \in G /\ n \in Kids(h, h[n].parent)
  BY <1>1, BelowLeast, BelowParent
<1> HIDE DEF G
<1>3. /\ Sound(g) /\ LiveIn(g) = LiveIn(h) \ G
      /\ \A n \in LiveIn(g) :
           /\ g[n].parent = IF h[n].parent \in G THEN FREE ELSE h[n].parent
           /\ Kids(g, n) = Kids(h, n)
  <2>1. G \in SUBSET Nodes
    BY <1>1, <1>2
  <2>2. QED
    BY <1>1, <2>1, UnallocatedHeap
<1> HIDE DEF g
<1>4. ASSUME NEW n \in LiveIn(g), NEW k \in Kids(h, n) PROVE k \notin G
  <2>1. n \in LiveIn(h) /\ n \notin G
    BY <1>3
  <2>2. k \notin R /\ h[k].parent = n
    BY <1>1, <2>1, <1>4 DEF Forest
  <2>3. QED
    BY <1>2, <2>1, <2>2
<1>5. \A n \in LiveIn(g) : Kids(g, n) = Kids(h, n) \ G
  BY <1>3, <1>4
<1>6. Forest(g, R \ G)
  BY <1>1, <1>2, <1>3, <1>5, Prune
<1>7. R \ G = R \ {v}
  BY <1>2
<1>8. Loose(g, R \ {v}, T)
  <2>1. R \ {v} \subseteq LiveIn(g)
    BY <1>6, <1>7 DEF Forest
  <2>2. NULL \notin G /\ FREE \notin G
    BY <1>1, <1>2, PointersAssumption
  <2>3. QED
    BY <1>1, <1>3, <2>1, <2>2 DEF Loose
<1>9. QED
  BY <1>3, <1>6, <1>7, <1>8 DEF Good, g, G

\* The container c takes over the root v, which is not above it.
LEMMA GoodTake ==
  ASSUME NEW h, NEW R, NEW T, Good(h, R, T), NEW c \in LiveIn(h), NEW v \in R,
         c \notin Below(h, v), NEW names, NEW items,
         Fits(h[c].type, names, items), ToSet(items) = Kids(h, c) \cup {v}
  PROVE  LET g == Taken(h, c, names, items, v)
         IN  Good(g, R \ {v}, T) /\ LiveIn(g) = LiveIn(h)
<1> DEFINE g == Taken(h, c, names, items, v)
<1>1. Sound(h) /\ Forest(h, R) /\ Loose(h, R, T) /\ LiveIn(h) \subseteq Nodes /\ v \in LiveIn(h)
  BY DEF Good, LiveIn, Forest
<1>2. v # c
  BY <1>1, BelowLeast
<1>3. /\ Sound(g) /\ LiveIn(g) = LiveIn(h)
      /\ \A n \in Nodes \ {c, v} : g[n] = h[n]
      /\ g[c].parent = h[c].parent
      /\ g[v].parent = c
      /\ Kids(g, c) = ToSet(items)
      /\ \A n \in Nodes \ {c} : Kids(g, n) = Kids(h, n)
  BY <1>1, <1>2, TakenHeap
<1> HIDE DEF g
<1>4. \A n \in LiveIn(h) \ {v} : g[n].parent = h[n].parent
  BY <1>1, <1>3
<1>5. Forest(g, R \ {v})
  <2>1. Kids(g, c) = Kids(h, c) \cup {v}
    BY <1>3
  <2>2. \A n \in LiveIn(h) \ {c} : Kids(g, n) = Kids(h, n)
    BY <1>1, <1>3
  <2>3. QED
    BY <1>1, <1>3, <1>4, <2>1, <2>2, Attach
<1>6. Loose(g, R \ {v}, T)
  BY <1>1, <1>4 DEF Loose, Forest
<1>7. QED
  BY <1>3, <1>5, <1>6 DEF Good, g

\* What is below an item of c is closed, has no root, is held by nothing else,
\* and does not have c in it.
LEMMA BelowItem ==
  ASSUME NEW h, NEW R, NEW T, Good(h, R, T), NEW c \in LiveIn(h), NEW x \in Kids(h, c)
  PROVE  LET G == Below(h, x)
         IN  /\ G \in SUBSET LiveIn(h) /\ x \in G /\ Closed(h, G) /\ R \cap G = {} /\ c \notin G
             /\ Kids(h, c) \ G = Kids(h, c) \ {x}
             /\ \A n \in LiveIn(h) \ (G \cup {c}) : Kids(h, n) \cap G = {}
<1> DEFINE G == Below(h, x)
<1>1. Sound(h) /\ Forest(h, R) /\ LiveIn(h) \subseteq Nodes
  BY DEF Good, LiveIn
<1>2. x \in LiveIn(h) /\ c \notin G
  BY <1>1, NotBelowItem
<1>3. G \subseteq LiveIn(h) /\ x \in G /\ Closed(h, G)
      /\ \A n \in G \ {x} : n \notin R /\ h[n].parent \in G /\ n \in Kids(h, h[n].parent)
  BY <1>1, <1>2, BelowLeast, BelowParent
<1>4. x \notin R /\ h[x].parent = c
  BY <1>1 DEF Forest
<1> HIDE DEF G
<1>5. ASSUME NEW n \in LiveIn(h) \ G, NEW k \in Kids(h, n), k \in G PROVE n = c /\ k = x
  <2>1. h[k].parent = n
    BY <1>1, <1>5 DEF Forest
  <2>2. QED
    BY <1>3, <1>4, <1>5, <2>1
<1>6. Kids(h, c) \ G = Kids(h, c) \ {x}
  BY <1>2, <1>3, <1>5
<1>7. \A n \in LiveIn(h) \ (G \cup {c}) : Kids(h, n) \cap G = {}
  BY <1>5
<1>8. QED
  BY <1>2, <1>3, <1>4, <1>6, <1>7 DEF G

\* The same of all that is below c.
LEMMA BelowItems ==
  ASSUME NEW h, NEW R, NEW T, Good(h, R, T), NEW c \in LiveIn(h)
  PROVE  LET G == Below(h, c) \ {c}
         IN  /\ G \in SUBSET LiveIn(h) /\ Below(h, c) \in SUBSET LiveIn(h)
             /\ Closed(h, G) /\ R \cap G = {} /\ c \notin G
             /\ Kids(h, c) \ G = {}
             /\ \A n \in LiveIn(h) \ (G \cup {c}) : Kids(h, n) \cap G = {}
<1> DEFINE G == Below(h, c) \ {c}
           B == Below(h, c)
<1>1. Sound(h) /\ Forest(h, R) /\ LiveIn(h) \subseteq Nodes
  BY DEF Good, LiveIn
<1>2. B \subseteq LiveIn(h) /\ c \in B /\ Closed(h, B)
      /\ \A n \in B \ {c} : n \notin R /\ h[n].parent \in B /\ n \in Kids(h, h[n].parent)
  BY <1>1, BelowLeast, BelowParent
<1>3. ASSUME NEW n \in B PROVE c \notin Kids(h, n)
  <2>1. SUFFICES ASSUME c \in Kids(h, n) PROVE FALSE
    OBVIOUS
  <2>2. n \notin Below(h, c)
    BY <1>1, <1>2, <2>1, NotBelowItem
  <2>3. QED
    BY <2>2
<1> HIDE DEF B
<1>4. G = B \ {c}
  BY DEF B
<1> HIDE DEF G
<1>5. Closed(h, G)
  BY <1>2, <1>3, <1>4 DEF Closed
<1>6. ASSUME NEW n \in LiveIn(h) \ (G \cup {c}), NEW k \in Kids(h, n), k \in G PROVE FALSE
  <2>1. h[k].parent = n
    BY <1>1, <1>6 DEF Forest
  <2>2. QED
    BY <1>2, <1>4, <1>6, <2>1
<1>7. Kids(h, c) \subseteq G
  BY <1>2, <1>3, <1>4 DEF Closed
<1>8. QED
  BY <1>2, <1>4, <1>5, <1>6, <1>7 DEF G, B

\* With an item less, and its name if it has one, the rest fits.
LEMMA FitsClosed ==
  ASSUME NEW type, NEW names, NEW items, Fits(type, names, items), NEW i \in 1 .. Len(items)
  PROVE  LET fewer == IF type = "object" THEN Close(names, i) ELSE <<>>
         IN  /\ Fits(type, fewer, Close(items, i))
             /\ ToSet(Close(items, i)) = ToSet(items) \ {items[i]}
<1>1. /\ items \in Seq(Nodes) /\ Distinct(items) /\ names \in Seq(Seq(STRING)) /\ Distinct(names)
      /\ Len(names) = IF type = "object" THEN Len(items) ELSE 0
      /\ type \in {"array", "object"}
  BY DEF Fits
<1>2. /\ Close(items, i) \in Seq(Nodes) /\ Len(Close(items, i)) = Len(items) - 1
      /\ ToSet(Close(items, i)) = ToSet(items) \ {items[i]} /\ Distinct(Close(items, i))
  BY <1>1, CloseHole
<1>3. CASE type = "object"
  <2>1. i \in 1 .. Len(names)
    BY <1>1, <1>3
  <2>2. /\ Close(names, i) \in Seq(Seq(STRING)) /\ Len(Close(names, i)) = Len(names) - 1
        /\ Distinct(Close(names, i))
    BY <1>1, <2>1, CloseHole
  <2>3. QED
    BY <1>1, <1>2, <1>3, <2>2 DEF Fits
<1>4. CASE type # "object"
  <2>1. <<>> \in Seq(Seq(STRING)) /\ Len(<<>>) = 0 /\ Distinct(<<>>)
    BY DEF Distinct
  <2>2. QED
    BY <1>1, <1>2, <1>4, <2>1 DEF Fits
<1>5. QED
  BY <1>3, <1>4

\* The root v takes the place of item i of c, which is freed.
LEMMA GoodReplace ==
  ASSUME NEW h, NEW R, NEW T, Good(h, R, T), NEW c \in LiveIn(h), NEW v \in R,
         c \notin Below(h, v), NEW i \in 1 .. Len(h[c].items), NEW names,
         Fits(h[c].type, names, [h[c].items EXCEPT ![i] = v])
  PROVE  LET G == Below(h, h[c].items[i])
             g == Taken(Unallocated(h, G), c, names, [h[c].items EXCEPT ![i] = v], v)
         IN  Good(g, R \ {v}, T) /\ LiveIn(g) = LiveIn(h) \ G
<1> DEFINE items == h[c].items
           x == items[i]
           next == [items EXCEPT ![i] = v]
           G == Below(h, x)
           u == Unallocated(h, G)
           fewer == IF h[c].type = "object" THEN Close(h[c].names, i) ELSE <<>>
           rest == Close(items, i)
           f == Filled(u, c, fewer, rest)
           g == Taken(u, c, names, next, v)
<1>1. Sound(h) /\ Forest(h, R) /\ Loose(h, R, T) /\ LiveIn(h) \subseteq Nodes /\ v \in LiveIn(h)
  BY DEF Good, LiveIn, Forest
<1>2. /\ Fits(h[c].type, h[c].names, items) /\ Kids(h, c) = ToSet(items)
      /\ items \in Seq(Nodes) /\ Distinct(items) /\ i \in 1 .. Len(items)
  BY <1>1, SoundFits DEF Fits
<1>3. x \in Kids(h, c)
  BY <1>2, InSet
<1>4. v \notin Kids(h, c)
  BY <1>1 DEF Forest
<1>5. Fits(h[c].type, fewer, rest) /\ ToSet(rest) = Kids(h, c) \ {x}
  BY <1>2, FitsClosed
<1>6. ToSet(next) = (Kids(h, c) \ {x}) \cup {v}
  <2>1. v \in Nodes /\ v \notin ToSet(items)
    BY <1>1, <1>2, <1>4
  <2>2. ToSet(next) = (ToSet(items) \ {items[i]}) \cup {v}
    BY <1>2, <2>1, ReplaceItem
  <2>3. QED
    BY <1>2, <2>2
<1>7. Fits(h[c].type, names, next)
  OBVIOUS
<1>8. /\ G \in SUBSET LiveIn(h) /\ x \in G /\ Closed(h, G) /\ R \cap G = {} /\ c \notin G
      /\ Kids(h, c) \ G = Kids(h, c) \ {x}
      /\ \A n \in LiveIn(h) \ (G \cup {c}) : Kids(h, n) \cap G = {}
  BY <1>3, BelowItem
<1> HIDE DEF items, x, next, fewer, rest, G
<1>9. /\ Sound(u) /\ LiveIn(u) = LiveIn(h) \ G
      /\ \A n \in LiveIn(u) : u[n].type = h[n].type /\ Kids(u, n) = Kids(h, n)
  <2>1. G \in SUBSET Nodes
    BY <1>1, <1>8
  <2>2. QED
    BY <1>1, <2>1, UnallocatedHeap
<1>10. Good(f, R, T)
  <2>1. c \in LiveIn(h) \ G /\ ToSet(rest) = Kids(h, c) \ G
    BY <1>5, <1>8
  <2>2. QED
    BY <1>5, <1>8, <2>1, GoodPrune
<1>11. c \in LiveIn(u) /\ v \in LiveIn(u) /\ u[c].type = h[c].type /\ v # c
  <2>1. v # c
    BY <1>1, BelowLeast
  <2>2. QED
    BY <1>1, <1>8, <1>9, <2>1
<1> HIDE DEF u
<1>12. /\ Sound(f) /\ LiveIn(f) = LiveIn(u)
       /\ \A n \in Nodes \ {c} : f[n] = u[n]
       /\ f[c].parent = u[c].parent
       /\ Kids(f, c) = ToSet(rest)
       /\ \A n \in Nodes \ {c} : Kids(f, n) = Kids(u, n)
  BY <1>5, <1>9, <1>11, FilledHeap
<1>13. /\ Sound(g) /\ LiveIn(g) = LiveIn(u)
       /\ \A n \in Nodes \ {c, v} : g[n] = u[n]
       /\ g[c].parent = u[c].parent
       /\ g[v].parent = c
       /\ Kids(g, c) = ToSet(next)
       /\ \A n \in Nodes \ {c} : Kids(g, n) = Kids(u, n)
  BY <1>7, <1>9, <1>11, TakenHeap
<1> HIDE DEF f, g
<1>14. Forest(f, R) /\ Loose(f, R, T)
  BY <1>10 DEF Good
<1>15. LiveIn(u) \subseteq Nodes
  BY DEF LiveIn
<1>16. c \notin Below(f, v)
  <2> DEFINE B == Below(h, v)
  <2>1. /\ B \in SUBSET LiveIn(h) /\ v \in B /\ Closed(h, B) /\ c \notin B
        /\ \A n \in B : Kids(f, n) = Kids(h, n) \/ n \in G
    <3>1. B \in SUBSET LiveIn(h) /\ v \in B /\ Closed(h, B) /\ c \notin B
      BY <1>1, BelowLeast, BelowParent
    <3>2. \A n \in B : Kids(f, n) = Kids(h, n) \/ n \in G
      BY <1>1, <1>9, <1>12, <3>1
    <3>3. QED
      BY <3>1, <3>2
  <2> HIDE DEF B
  <2>2. \A n \in G : n \in Nodes /\ Kids(f, n) = {}
    <3>1. ASSUME NEW n \in G PROVE n \in Nodes /\ Kids(f, n) = {}
      <4>1. n \in Nodes /\ n \notin LiveIn(f)
        BY <1>1, <1>8, <1>9, <1>12
      <4>2. f[n] = FREE
        BY <4>1 DEF LiveIn
      <4>3. QED
        BY <4>1, <4>2 DEF Kids
    <3>2. QED
      BY <3>1
  <2>3. Closed(f, B)
    BY <2>1, <2>2 DEF Closed
  <2>4. Below(f, v) \subseteq B
    BY <1>1, <1>12, <2>1, <2>3, BelowLeast
  <2>5. QED
    BY <2>1, <2>4
<1>17. Kids(g, c) = Kids(f, c) \cup {v}
  BY <1>5, <1>6, <1>12, <1>13
<1>18. \A n \in LiveIn(f) \ {c} : Kids(g, n) = Kids(f, n)
  BY <1>12, <1>13, <1>15
<1>19. \A n \in LiveIn(f) \ {v} : g[n].parent = f[n].parent
  BY <1>12, <1>13, <1>15
<1>20. c \in LiveIn(f) /\ LiveIn(g) = LiveIn(f)
  BY <1>11, <1>12, <1>13
<1>21. Forest(g, R \ {v})
  BY <1>12, <1>13, <1>14, <1>16, <1>17, <1>18, <1>19, <1>20, Attach
<1>22. Loose(g, R \ {v}, T)
  BY <1>14, <1>19 DEF Loose, Forest
<1>23. Good(g, R \ {v}, T) /\ LiveIn(g) = LiveIn(h) \ G
  BY <1>9, <1>13, <1>21, <1>22 DEF Good
<1>24. QED
  BY <1>23 DEF g, u, next, G, x, items

-----------------------------------------------------------------------------
\* Memories

\* A memory whose heap is good, in which nothing has been freed twice.
Fine(m, R, T) == m \in Memories /\ Good(m.heap, R, T) /\ m.twice = FALSE

\* r comes of a call that is to take v over.
Moved(r, R, T, v) == IF r.ok THEN v \in R /\ Fine(r, R \ {v}, T) ELSE Fine(r, R, T)

LEMMA MemoryParts ==
  ASSUME NEW m \in Memories
  PROVE  /\ m = [heap |-> m.heap, fuel |-> m.fuel, twice |-> m.twice, got |-> m.got, ok |-> m.ok]
         /\ m.heap \in Heaps /\ m.fuel \in Nat /\ m.twice \in BOOLEAN
         /\ m.got \in Nodes \cup {NULL} /\ m.ok \in BOOLEAN
BY DEF Memories, Heaps

LEMMA MakeMemory ==
  ASSUME NEW h \in Heaps, NEW f \in Nat, NEW t \in BOOLEAN, NEW g \in Nodes \cup {NULL},
         NEW o \in BOOLEAN
  PROVE  [heap |-> h, fuel |-> f, twice |-> t, got |-> g, ok |-> o] \in Memories
BY DEF Memories, Heaps

LEMMA WithHeap ==
  ASSUME NEW m \in Memories, NEW h
  PROVE  [m EXCEPT !.heap = h] =
            [heap |-> h, fuel |-> m.fuel, twice |-> m.twice, got |-> m.got, ok |-> m.ok]
BY MemoryParts

\* (The value is hidden because it is a Boolean, which SMT keeps apart.)
LEMMA WithOk ==
  ASSUME NEW m \in Memories, NEW o
  PROVE  [m EXCEPT !.ok = o] =
            [heap |-> m.heap, fuel |-> m.fuel, twice |-> m.twice, got |-> m.got, ok |-> o]
BY MemoryParts

LEMMA SuccessParts ==
  ASSUME NEW m \in Memories
  PROVE  Success(m) = [heap |-> m.heap, fuel |-> m.fuel, twice |-> m.twice, got |-> m.got,
                       ok |-> TRUE]
BY WithOk, Zenon DEF Success

LEMMA FailureParts ==
  ASSUME NEW m \in Memories
  PROVE  Failure(m) = [heap |-> m.heap, fuel |-> m.fuel, twice |-> m.twice, got |-> NULL,
                       ok |-> FALSE]
<1> DEFINE f == [m EXCEPT !.ok = FALSE]
<1>1. f = [heap |-> m.heap, fuel |-> m.fuel, twice |-> m.twice, got |-> m.got, ok |-> FALSE]
  BY WithOk, Zenon
<1>2. Failure(m) = [f EXCEPT !.got = NULL]
  BY MemoryParts DEF Failure
<1> HIDE DEF f
<1>3. QED
  BY <1>1, <1>2

LEMMA FineFailure ==
  ASSUME NEW m, NEW R, NEW T, Fine(m, R, T)
  PROVE  /\ Fine(Failure(m), R, T) /\ Failure(m).heap = m.heap
         /\ Failure(m).ok = FALSE /\ Failure(m).got = NULL
<1> DEFINE r == [heap |-> m.heap, fuel |-> m.fuel, twice |-> m.twice, got |-> NULL, ok |-> FALSE]
<1>1. m \in Memories /\ Good(m.heap, R, T) /\ m.twice = FALSE
  BY DEF Fine
<1>2. Failure(m) = r
  BY <1>1, FailureParts
<1>3. r \in Memories
  BY <1>1, MemoryParts, MakeMemory
<1>4. r.heap = m.heap /\ r.ok = FALSE /\ r.got = NULL /\ r.twice = m.twice
  OBVIOUS
<1> HIDE DEF r
<1>5. QED
  BY <1>1, <1>2, <1>3, <1>4 DEF Fine

LEMMA FineSuccess ==
  ASSUME NEW m, NEW R, NEW T, Fine(m, R, T)
  PROVE  /\ Fine(Success(m), R, T) /\ Success(m).heap = m.heap
         /\ Success(m).ok = TRUE /\ Success(m).got = m.got
<1> DEFINE r == [heap |-> m.heap, fuel |-> m.fuel, twice |-> m.twice, got |-> m.got, ok |-> TRUE]
<1>1. m \in Memories /\ Good(m.heap, R, T) /\ m.twice = FALSE
  BY DEF Fine
<1>2. Success(m) = r
  BY <1>1, SuccessParts
<1>3. r \in Memories
  BY <1>1, MemoryParts, MakeMemory
<1>4. r.heap = m.heap /\ r.ok = TRUE /\ r.got = m.got /\ r.twice = m.twice
  OBVIOUS
<1> HIDE DEF r
<1>5. QED
  BY <1>1, <1>2, <1>3, <1>4 DEF Fine

LEMMA FineHeap ==
  ASSUME NEW m, NEW R, NEW T, Fine(m, R, T), NEW h, NEW R2, Good(h, R2, T)
  PROVE  LET r == [m EXCEPT !.heap = h]
         IN  Fine(r, R2, T) /\ r.heap = h /\ r.ok = m.ok /\ r.got = m.got
<1> DEFINE r == [heap |-> h, fuel |-> m.fuel, twice |-> m.twice, got |-> m.got, ok |-> m.ok]
<1>1. m \in Memories /\ m.twice = FALSE /\ h \in Heaps
  BY DEF Fine, Good, Sound
<1>2. [m EXCEPT !.heap = h] = r
  BY <1>1, WithHeap
<1>3. r \in Memories
  BY <1>1, MemoryParts, MakeMemory
<1>4. r.heap = h /\ r.ok = m.ok /\ r.got = m.got /\ r.twice = m.twice
  OBVIOUS
<1> HIDE DEF r
<1>5. QED
  BY <1>1, <1>2, <1>3, <1>4 DEF Fine

LEMMA FineMalloc ==
  ASSUME NEW m, NEW R, NEW T, Fine(m, R, T)
  PROVE  LET r == Malloc(m)
         IN  Fine(r, R, T) /\ r.heap = m.heap /\ r.ok \in BOOLEAN /\ (r.ok => r.got = m.got)
<1>1. m \in Memories /\ Good(m.heap, R, T) /\ m.twice = FALSE
  BY DEF Fine
<1>2. CASE m.fuel = 0
  BY <1>2, FineFailure DEF Malloc
<1>3. CASE m.fuel # 0
  <2> DEFINE f == [m EXCEPT !.fuel = @ - 1]
             r == [heap |-> m.heap, fuel |-> m.fuel - 1, twice |-> m.twice, got |-> m.got,
                   ok |-> m.ok]
  <2>1. f = r
    BY <1>1, MemoryParts
  <2>2. r \in Memories
    <3>1. m.fuel - 1 \in Nat
      BY <1>1, <1>3, MemoryParts
    <3>2. QED
      BY <1>1, <3>1, MemoryParts, MakeMemory
  <2>3. r.heap = m.heap /\ r.got = m.got /\ r.twice = m.twice
    OBVIOUS
  <2>4. Malloc(m) = Success(f)
    BY <1>3 DEF Malloc
  <2> HIDE DEF f, r
  <2>5. Fine(f, R, T)
    BY <1>1, <2>1, <2>2, <2>3 DEF Fine
  <2>6. QED
    BY <2>1, <2>3, <2>4, <2>5, FineSuccess
<1>4. QED
  BY <1>2, <1>3

\* A value is made.
LEMMA FineInit ==
  ASSUME NEW m, NEW R, NEW T, Fine(m, R, T), NEW block, IsNew(block)
  PROVE  LET r == json_value_init(m, block)
         IN  /\ r.ok \in BOOLEAN
             /\ r.ok => /\ r.got \in Nodes \ LiveIn(m.heap)
                        /\ Fine(r, R \cup {r.got}, T)
                        /\ LiveIn(r.heap) = LiveIn(m.heap) \cup {r.got}
                        /\ r.heap[r.got] = block
                        /\ \A n \in Nodes \ {r.got} : r.heap[n] = m.heap[n]
             /\ ~r.ok => Fine(r, R, T) /\ r.heap = m.heap /\ r.got = NULL
<1> DEFINE free == {n \in Nodes : m.heap[n] = FREE}
           v == CHOOSE n \in free : TRUE
           r == json_value_init(m, block)
<1>1. m \in Memories /\ Good(m.heap, R, T) /\ m.twice = FALSE
  BY DEF Fine
<1>2. CASE m.fuel = 0 \/ free = {}
  <2>1. r = Failure(m)
    BY <1>2 DEF json_value_init
  <2> HIDE DEF r
  <2>2. QED
    BY <2>1, FineFailure DEF r
<1>3. CASE ~(m.fuel = 0 \/ free = {})
  <2>1. v \in Nodes /\ m.heap[v] = FREE
    BY <1>3
  <2> HIDE DEF v
  <2> DEFINE g == Allocated(m.heap, v, block)
             s == [heap |-> g, fuel |-> m.fuel - 1, twice |-> m.twice, got |-> v, ok |-> TRUE]
  <2>2. r = [m EXCEPT !.heap = g, !.fuel = @ - 1, !.got = v, !.ok = TRUE]
    BY <1>3 DEF json_value_init, v
  <2>3. r = s
    <3> DEFINE a == [m EXCEPT !.heap = g]
               b == [a EXCEPT !.fuel = @ - 1]
               c == [b EXCEPT !.got = v]
               d == [c EXCEPT !.ok = TRUE]
    <3>1. a = [heap |-> g, fuel |-> m.fuel, twice |-> m.twice, got |-> m.got, ok |-> m.ok]
      BY <1>1, WithHeap
    <3>2. r = d
      BY <1>1, <2>2, MemoryParts
    <3> HIDE DEF a, g
    <3>3. b = [heap |-> g, fuel |-> m.fuel - 1, twice |-> m.twice, got |-> m.got, ok |-> m.ok]
      BY <3>1
    <3> HIDE DEF b
    <3>4. c = [heap |-> g, fuel |-> m.fuel - 1, twice |-> m.twice, got |-> v, ok |-> m.ok]
      BY <3>3
    <3> HIDE DEF c
    <3>5. d = [heap |-> g, fuel |-> m.fuel - 1, twice |-> m.twice, got |-> v, ok |-> TRUE]
      <4> DEFINE o == TRUE
                 e == [c EXCEPT !.ok = o]
      <4>1. d = e
        OBVIOUS
      <4> HIDE DEF o
      <4>2. e = [heap |-> g, fuel |-> m.fuel - 1, twice |-> m.twice, got |-> v, ok |-> o]
        BY <3>4
      <4> HIDE DEF d, e
      <4>3. d = [heap |-> g, fuel |-> m.fuel - 1, twice |-> m.twice, got |-> v, ok |-> o]
        BY <4>1, <4>2
      <4>4. QED
        BY <4>3, Zenon DEF o
    <3>6. QED
      BY <3>2, <3>5 DEF g
  <2>4. /\ Good(g, R \cup {v}, T)
        /\ LiveIn(g) = LiveIn(m.heap) \cup {v} /\ v \notin LiveIn(m.heap)
        /\ g[v] = block /\ \A n \in Nodes \ {v} : g[n] = m.heap[n]
    BY <1>1, <2>1, GoodInit
  <2> HIDE DEF g, r
  <2>5. s \in Memories
    <3>1. m.fuel - 1 \in Nat /\ g \in Heaps /\ v \in Nodes \cup {NULL}
      BY <1>1, <1>3, <2>1, <2>4, MemoryParts DEF Good, Sound
    <3>2. QED
      BY <1>1, <3>1, MemoryParts, MakeMemory
  <2>6. s.heap = g /\ s.got = v /\ s.ok = TRUE /\ s.twice = m.twice
    OBVIOUS
  <2> HIDE DEF s
  <2>7. QED
    BY <1>1, <2>1, <2>3, <2>4, <2>5, <2>6 DEF Fine, r
<1>4. QED
  BY <1>2, <1>3

\* Blocks that are all live, and led to once, are freed.
LEMMA FreeAllParts ==
  ASSUME NEW m \in Memories, NEW R, Sound(m.heap), Forest(m.heap, R), m.twice = FALSE,
         NEW S \in SUBSET LiveIn(m.heap), NEW W \in SUBSET LiveIn(m.heap)
  PROVE  FreeAll(m, S, W) = [m EXCEPT !.heap = Unallocated(m.heap, S)]
<1> DEFINE o == m.twice \/ \E n \in S : m.heap[n] = FREE \/ Shared(m.heap, W, n)
           g == Unallocated(m.heap, S)
           f == [m EXCEPT !.heap = g]
           r == [f EXCEPT !.twice = o]
<1>1. m \in Memories /\ Sound(m.heap) /\ Forest(m.heap, R) /\ m.twice = FALSE
  OBVIOUS
<1>2. o = FALSE
  <2>1. ASSUME NEW n \in S PROVE ~(m.heap[n] = FREE \/ Shared(m.heap, W, n))
    BY <1>1, NotShared DEF LiveIn
  <2>2. QED
    BY <1>1, <2>1
<1>3. f = [heap |-> g, fuel |-> m.fuel, twice |-> m.twice, got |-> m.got, ok |-> m.ok]
  BY <1>1, WithHeap
<1>4. FreeAll(m, S, W) = r
  BY Zenon DEF FreeAll
<1> HIDE DEF o, g, f
<1>5. r = [heap |-> g, fuel |-> m.fuel, twice |-> o, got |-> m.got, ok |-> m.ok]
  BY <1>3
<1> HIDE DEF r
<1>6. r = f
  BY <1>1, <1>2, <1>3, <1>5, Zenon
<1>7. QED
  BY <1>4, <1>6, Zenon DEF f, g

\* A root is freed, and NULL.
LEMMA FineFree ==
  ASSUME NEW m, NEW R, NEW T, Fine(m, R, T), NEW v \in R
  PROVE  LET r == json_value_free(m, v)
         IN  /\ Fine(r, R \ {v}, T) /\ r.ok = m.ok /\ r.got = m.got
             /\ r.heap = Unallocated(m.heap, Below(m.heap, v))
             /\ LiveIn(r.heap) = LiveIn(m.heap) \ Below(m.heap, v)
<1> DEFINE r == json_value_free(m, v)
           B == Below(m.heap, v)
           g == Unallocated(m.heap, B)
<1>1. /\ m \in Memories /\ Good(m.heap, R, T) /\ Sound(m.heap) /\ Forest(m.heap, R)
      /\ m.twice = FALSE
  BY DEF Fine, Good
<1>2. v \in LiveIn(m.heap) /\ v # NULL
  BY <1>1, PointersAssumption DEF Forest, LiveIn
<1>3. B \in SUBSET LiveIn(m.heap)
  BY <1>1, <1>2, BelowParent
<1>4. r = [m EXCEPT !.heap = g]
  BY <1>1, <1>2, <1>3, FreeAllParts DEF json_value_free
<1>5. Good(g, R \ {v}, T) /\ LiveIn(g) = LiveIn(m.heap) \ B
  BY <1>1, GoodFree
<1> HIDE DEF r, g, B
<1>6. Fine(r, R \ {v}, T) /\ r.heap = g /\ r.ok = m.ok /\ r.got = m.got
  BY <1>4, <1>5, FineHeap
<1>7. QED
  BY <1>5, <1>6 DEF r, g, B

\* An item is freed: the heap is whole again once it is taken out.
LEMMA FreeItem ==
  ASSUME NEW m, NEW R, NEW T, Fine(m, R, T), NEW c \in LiveIn(m.heap), NEW x \in Kids(m.heap, c)
  PROVE  LET r == json_value_free(m, x)
         IN  r = [m EXCEPT !.heap = Unallocated(m.heap, Below(m.heap, x))]
<1>1. m \in Memories /\ Sound(m.heap) /\ Forest(m.heap, R) /\ m.twice = FALSE
  BY DEF Fine, Good
<1>2. x \in LiveIn(m.heap) /\ x # NULL
  BY <1>1, PointersAssumption DEF Forest, LiveIn
<1>3. Below(m.heap, x) \in SUBSET LiveIn(m.heap)
  BY <1>1, <1>2, BelowParent
<1>4. QED
  BY <1>1, <1>2, <1>3, FreeAllParts DEF json_value_free

\* What Success() returns when the heap is replaced by one that is good.
LEMMA FineRefilled ==
  ASSUME NEW m, NEW R, NEW T, Fine(m, R, T), NEW u, NEW h, NEW R2, Good(h, R2, T)
  PROVE  LET r == Success([[m EXCEPT !.heap = u] EXCEPT !.heap = h])
         IN  Fine(r, R2, T) /\ r.heap = h /\ r.ok = TRUE
<1> DEFINE f == [m EXCEPT !.heap = u]
           s == [m EXCEPT !.heap = h]
<1>1. m \in Memories
  BY DEF Fine
<1>2. f = [heap |-> u, fuel |-> m.fuel, twice |-> m.twice, got |-> m.got, ok |-> m.ok]
  BY <1>1, WithHeap
<1>3. s = [heap |-> h, fuel |-> m.fuel, twice |-> m.twice, got |-> m.got, ok |-> m.ok]
  BY <1>1, WithHeap
<1>4. Fine(s, R2, T) /\ s.heap = h
  BY FineHeap
<1> HIDE DEF f, s
<1>5. [f EXCEPT !.heap = h] = s
  BY <1>2, <1>3
<1>6. QED
  BY <1>4, <1>5, FineSuccess DEF f

\* A value without a parent is a root.
LEMMA NoParentIsRoot ==
  ASSUME NEW h, NEW R, NEW T, Good(h, R, T), NEW v \in LiveIn(h), h[v].parent = NULL
  PROVE  v \in R
BY PointersAssumption DEF Good, Forest, LiveIn

-----------------------------------------------------------------------------
\* Arrays

LEMMA FineArrayAdd ==
  ASSUME NEW m, NEW R, NEW T, Fine(m, R, T), NEW a \in LiveIn(m.heap), m.heap[a].type = "array",
         NEW v \in R, a \notin Below(m.heap, v)
  PROVE  LET r == json_array_add(m, a, v)
         IN  Moved(r, R, T, v) /\ r.ok \in BOOLEAN /\ (~r.ok => r.heap = m.heap)
             /\ (r.ok => r.heap = Taken(m.heap, a, <<>>, Append(m.heap[a].items, v), v))
<1> DEFINE grown == Malloc(m)
           r == json_array_add(m, a, v)
           items == Append(m.heap[a].items, v)
           g == Taken(m.heap, a, <<>>, items, v)
<1>1. Fine(grown, R, T) /\ grown.heap = m.heap /\ grown.ok \in BOOLEAN
  BY FineMalloc
<1>2. CASE ~grown.ok
  <2>1. r = grown
    BY <1>2 DEF json_array_add
  <2> HIDE DEF grown, r
  <2>2. QED
    BY <1>1, <1>2, <2>1 DEF Moved, r
<1>3. CASE grown.ok
  <2>1. r = [grown EXCEPT !.heap = g]
    BY <1>1, <1>3 DEF json_array_add
  <2> HIDE DEF grown, r
  <2>2. Good(m.heap, R, T) /\ Sound(m.heap) /\ Forest(m.heap, R)
    BY DEF Fine, Good
  <2>3. Fits("array", <<>>, items) /\ ToSet(items) = Kids(m.heap, a) \cup {v}
    <3>1. /\ m.heap[a].items \in Seq(Nodes) /\ Distinct(m.heap[a].items)
          /\ Kids(m.heap, a) = ToSet(m.heap[a].items)
      BY <2>2, SoundFits DEF Fits
    <3>2. v \in Nodes /\ v \notin ToSet(m.heap[a].items)
      BY <2>2, <3>1 DEF Forest, LiveIn
    <3>3. items \in Seq(Nodes) /\ ToSet(items) = Kids(m.heap, a) \cup {v} /\ Distinct(items)
      BY <3>1, <3>2, AppendItem
    <3> HIDE DEF items
    <3>4. <<>> \in Seq(Seq(STRING)) /\ Len(<<>>) = 0 /\ Distinct(<<>>)
      BY DEF Distinct
    <3>5. QED
      BY <3>3, <3>4 DEF Fits
  <2> HIDE DEF items
  <2>4. Good(g, R \ {v}, T)
    BY <2>2, <2>3, GoodTake
  <2> HIDE DEF g
  <2>5. Fine(r, R \ {v}, T) /\ r.ok = grown.ok /\ r.heap = g
    BY <1>1, <2>1, <2>4, FineHeap
  <2>6. QED
    BY <1>3, <2>5 DEF Moved, r, g, items
<1>4. QED
  BY <1>1, <1>2, <1>3

LEMMA FineArrayAppend ==
  ASSUME NEW m, NEW R, NEW T, Fine(m, R, T), NEW a \in LiveIn(m.heap), m.heap[a].type = "array",
         NEW v \in LiveIn(m.heap), a \notin Below(m.heap, v)
  PROVE  LET r == json_array_append_value(m, a, v)
         IN  Moved(r, R, T, v) /\ r.ok \in BOOLEAN /\ (~r.ok => r.heap = m.heap)
<1> DEFINE r == json_array_append_value(m, a, v)
<1>1. CASE m.heap[v].parent # NULL
  <2>1. r = Failure(m)
    BY <1>1 DEF json_array_append_value
  <2> HIDE DEF r
  <2>2. QED
    BY <2>1, FineFailure DEF Moved, r
<1>2. CASE m.heap[v].parent = NULL
  <2>1. r = json_array_add(m, a, v)
    BY <1>2 DEF json_array_append_value
  <2>2. v \in R
    BY <1>2, NoParentIsRoot DEF Fine
  <2>3. QED
    BY <2>1, <2>2, FineArrayAdd
<1>3. QED
  BY <1>1, <1>2

LEMMA FineArrayReplace ==
  ASSUME NEW m, NEW R, NEW T, Fine(m, R, T), NEW a \in LiveIn(m.heap), m.heap[a].type = "array",
         NEW v \in LiveIn(m.heap), a \notin Below(m.heap, v), NEW i \in Nat
  PROVE  LET r == json_array_replace_value(m, a, i, v)
         IN  Moved(r, R, T, v) /\ r.ok \in BOOLEAN /\ (~r.ok => r.heap = m.heap)
<1> DEFINE r == json_array_replace_value(m, a, i, v)
           items == m.heap[a].items
           next == [items EXCEPT ![i] = v]
           u == Unallocated(m.heap, Below(m.heap, items[i]))
           g == Taken(u, a, <<>>, next, v)
<1>1. Good(m.heap, R, T) /\ Sound(m.heap) /\ Forest(m.heap, R) /\ m \in Memories
  BY DEF Fine, Good
<1>2. /\ items \in Seq(Nodes) /\ Distinct(items) /\ Kids(m.heap, a) = ToSet(items)
      /\ DOMAIN items = 1 .. Len(items)
  BY <1>1, SoundFits DEF Fits
<1>3. CASE m.heap[v].parent # NULL \/ i \notin DOMAIN items
  <2>1. r = Failure(m)
    BY <1>3 DEF json_array_replace_value
  <2> HIDE DEF r
  <2>2. QED
    BY <2>1, FineFailure DEF Moved, r
<1>4. CASE ~(m.heap[v].parent # NULL \/ i \notin DOMAIN items)
  <2>1. v \in R
    BY <1>1, <1>4, NoParentIsRoot
  <2>2. i \in 1 .. Len(items) /\ items[i] \in Kids(m.heap, a)
    BY <1>2, <1>4, InSet
  <2>3. json_value_free(m, items[i]) = [m EXCEPT !.heap = u]
    BY <2>2, FreeItem
  <2>4. r = Success([[m EXCEPT !.heap = u] EXCEPT !.heap = g])
    <3>1. r = Success([json_value_free(m, items[i])
                         EXCEPT !.heap = Taken(@, a, <<>>, next, v)])
      BY <1>4 DEF json_array_replace_value
    <3>2. [m EXCEPT !.heap = u].heap = u
      BY <1>1, WithHeap
    <3> HIDE DEF r, u, next
    <3>3. QED
      BY <2>3, <3>1, <3>2
  <2>5. Good(g, R \ {v}, T)
    <3>1. v \in Nodes /\ v \notin ToSet(items)
      BY <1>1, <1>2, <2>1 DEF Forest, LiveIn
    <3>2. next \in Seq(Nodes) /\ Distinct(next)
      BY <1>2, <2>2, <3>1, ReplaceItem
    <3>3. <<>> \in Seq(Seq(STRING)) /\ Len(<<>>) = 0 /\ Distinct(<<>>)
      BY DEF Distinct
    <3>4. Fits("array", <<>>, next)
      <4> HIDE DEF next
      <4>1. QED
        BY <3>2, <3>3 DEF Fits
    <3>5. Fits(m.heap[a].type, <<>>, next)
      BY <3>4
    <3>6. LET h == m.heap
              G == Below(h, h[a].items[i])
              k == Taken(Unallocated(h, G), a, <<>>, [h[a].items EXCEPT ![i] = v], v)
          IN  Good(k, R \ {v}, T)
      BY <1>1, <2>1, <2>2, <3>5, GoodReplace
    <3>7. QED
      BY <3>6
  <2> HIDE DEF r, g, u
  <2>6. Fine(r, R \ {v}, T) /\ r.ok = TRUE
    BY <2>4, <2>5, FineRefilled
  <2>7. QED
    BY <2>1, <2>6 DEF Moved, r
<1>5. QED
  BY <1>3, <1>4

LEMMA FineArrayRemove ==
  ASSUME NEW m, NEW R, NEW T, Fine(m, R, T), NEW a \in LiveIn(m.heap), m.heap[a].type = "array",
         NEW i \in 1 .. Len(m.heap[a].items)
  PROVE  Fine(json_array_remove(m, a, i), R, T)
<1> DEFINE r == json_array_remove(m, a, i)
           items == m.heap[a].items
           next == RemoveAt(items, i)
           G == Below(m.heap, items[i])
           u == Unallocated(m.heap, G)
           g == Filled(u, a, <<>>, next)
<1>1. Good(m.heap, R, T) /\ Sound(m.heap) /\ Forest(m.heap, R) /\ m \in Memories
  BY DEF Fine, Good
<1>2. /\ items \in Seq(Nodes) /\ Distinct(items) /\ Kids(m.heap, a) = ToSet(items)
      /\ DOMAIN items = 1 .. Len(items)
  BY <1>1, SoundFits DEF Fits
<1>3. i \in DOMAIN items /\ items[i] \in Kids(m.heap, a)
  BY <1>2, InSet
<1>4. json_value_free(m, items[i]) = [m EXCEPT !.heap = u]
  BY <1>3, FreeItem
<1>5. r = Success([[m EXCEPT !.heap = u] EXCEPT !.heap = g])
  <2>1. r = Success([json_value_free(m, items[i]) EXCEPT !.heap = Filled(@, a, <<>>, next)])
    BY <1>3 DEF json_array_remove
  <2>2. [m EXCEPT !.heap = u].heap = u
    BY <1>1, WithHeap
  <2> HIDE DEF r, u, next
  <2>3. QED
    BY <1>4, <2>1, <2>2
<1>6. next \in Seq(Nodes) /\ ToSet(next) = Kids(m.heap, a) \ {items[i]} /\ Distinct(next)
  BY <1>2, RemoveItemAt
<1>7. Fits("array", <<>>, next)
  <2> HIDE DEF next
  <2>1. <<>> \in Seq(Seq(STRING)) /\ Len(<<>>) = 0 /\ Distinct(<<>>)
    BY DEF Distinct
  <2>2. QED
    BY <1>6, <2>1 DEF Fits
<1>8. /\ G \in SUBSET LiveIn(m.heap) /\ Closed(m.heap, G) /\ R \cap G = {} /\ a \notin G
      /\ Kids(m.heap, a) \ G = Kids(m.heap, a) \ {items[i]}
      /\ \A n \in LiveIn(m.heap) \ (G \cup {a}) : Kids(m.heap, n) \cap G = {}
  BY <1>1, <1>3, BelowItem
<1> HIDE DEF G, next
<1>9. Good(g, R, T)
  <2>1. a \in LiveIn(m.heap) \ G /\ ToSet(next) = Kids(m.heap, a) \ G
    BY <1>6, <1>8
  <2>2. QED
    BY <1>1, <1>7, <1>8, <2>1, GoodPrune
<1> HIDE DEF r, g, u
<1>10. Fine(r, R, T)
  BY <1>5, <1>9, FineRefilled
<1>11. QED
  BY <1>10 DEF r

LEMMA FineClear ==
  ASSUME NEW m, NEW R, NEW T, Fine(m, R, T), NEW c \in LiveIn(m.heap)
  PROVE  Fine(Clear(m, c), R, T)
<1> DEFINE r == Clear(m, c)
           G == Below(m.heap, c) \ {c}
           u == Unallocated(m.heap, G)
           g == Filled(u, c, <<>>, <<>>)
<1>1. /\ Good(m.heap, R, T) /\ m \in Memories /\ Sound(m.heap) /\ Forest(m.heap, R)
      /\ m.twice = FALSE
  BY DEF Fine, Good
<1>2. /\ G \in SUBSET LiveIn(m.heap) /\ Below(m.heap, c) \in SUBSET LiveIn(m.heap)
      /\ Closed(m.heap, G) /\ R \cap G = {} /\ c \notin G
      /\ Kids(m.heap, c) \ G = {}
      /\ \A n \in LiveIn(m.heap) \ (G \cup {c}) : Kids(m.heap, n) \cap G = {}
  BY <1>1, BelowItems
<1>3. FreeAll(m, G, Below(m.heap, c)) = [m EXCEPT !.heap = u]
  BY <1>1, <1>2, FreeAllParts
<1>4. r = Success([[m EXCEPT !.heap = u] EXCEPT !.heap = g])
  <2>1. r = Success([FreeAll(m, G, Below(m.heap, c)) EXCEPT !.heap = Filled(@, c, <<>>, <<>>)])
    BY DEF Clear
  <2>2. [m EXCEPT !.heap = u].heap = u
    BY <1>1, WithHeap
  <2> HIDE DEF r, u, G
  <2>3. QED
    BY <1>3, <2>1, <2>2
<1> HIDE DEF G
<1>5. Fits(m.heap[c].type, <<>>, <<>>) /\ ToSet(<<>>) = Kids(m.heap, c) \ G
  BY <1>2 DEF Fits, Distinct, ToSet
<1>6. Good(g, R, T)
  <2>1. c \in LiveIn(m.heap) \ G
    BY <1>2
  <2>2. QED
    BY <1>1, <1>2, <1>5, <2>1, GoodPrune
<1> HIDE DEF r, g, u
<1>7. Fine(r, R, T)
  BY <1>4, <1>6, FineRefilled
<1>8. QED
  BY <1>7 DEF r

-----------------------------------------------------------------------------
\* Objects

\* A name that is found is the name of an item.
LEMMA NamePlace ==
  ASSUME NEW h, Sound(h), NEW o \in LiveIn(h), h[o].type = "object", NEW name,
         NEW i, i = IndexOf(h, o, name), i # 0
  PROVE  /\ i \in 1 .. Len(h[o].items) /\ i \in 1 .. Len(h[o].names)
         /\ h[o].items[i] \in Kids(h, o)
<1> DEFINE at == {j \in DOMAIN h[o].names : h[o].names[j] = name}
<1>1. /\ h[o].names \in Seq(Seq(STRING)) /\ h[o].items \in Seq(Nodes)
      /\ Len(h[o].names) = Len(h[o].items) /\ Kids(h, o) = ToSet(h[o].items)
  BY SoundFits DEF Fits
<1>2. at \in SUBSET Nat /\ at \subseteq 1 .. Len(h[o].names)
  BY <1>1
<1>3. at # {} /\ i = CHOOSE j \in at : \A k \in at : j <= k
  BY Zenon DEF IndexOf
<1> HIDE DEF at
<1>4. i \in at
  <2>1. \E j \in at : \A k \in at : j <= k
    BY <1>2, <1>3, Smallest
  <2>2. QED
    BY <1>3, <2>1
<1>5. i \in 1 .. Len(h[o].names) /\ i \in 1 .. Len(h[o].items)
  BY <1>1, <1>2, <1>4
<1>6. QED
  BY <1>1, <1>5, InSet

LEMMA NotNamed ==
  ASSUME NEW h, Sound(h), NEW o \in LiveIn(h), NEW name, IndexOf(h, o, name) = 0
  PROVE  name \notin ToSet(h[o].names)
<1> DEFINE at == {j \in DOMAIN h[o].names : h[o].names[j] = name}
           i == IndexOf(h, o, name)
<1>1. h[o].names \in Seq(Seq(STRING)) /\ DOMAIN h[o].names = 1 .. Len(h[o].names)
  BY SoundFits DEF Fits
<1>2. at \in SUBSET Nat
  BY <1>1
<1>3. at = {}
  <2>1. SUFFICES ASSUME at # {} PROVE FALSE
    OBVIOUS
  <2>2. i = CHOOSE j \in at : \A k \in at : j <= k
    BY <2>1, Zenon DEF IndexOf
  <2> HIDE DEF at
  <2>3. \E j \in at : \A k \in at : j <= k
    BY <1>2, <2>1, Smallest
  <2>4. i \in at
    BY <2>2, <2>3
  <2>5. i # 0
    BY <1>1, <2>4 DEF at
  <2>6. QED
    BY <2>5
<1>4. QED
  BY <1>1, <1>3 DEF ToSet

\* One more item, under one more name.
LEMMA FitsMore ==
  ASSUME NEW h, NEW R, NEW T, Good(h, R, T), NEW o \in LiveIn(h), h[o].type = "object",
         NEW name \in Seq(STRING), IndexOf(h, o, name) = 0, NEW v \in R
  PROVE  LET names == Append(h[o].names, name)
             items == Append(h[o].items, v)
         IN  Fits("object", names, items) /\ ToSet(items) = Kids(h, o) \cup {v}
<1> DEFINE names == Append(h[o].names, name)
           items == Append(h[o].items, v)
<1>1. Sound(h) /\ Forest(h, R)
  BY DEF Good
<1>2. /\ h[o].items \in Seq(Nodes) /\ Distinct(h[o].items)
      /\ Kids(h, o) = ToSet(h[o].items)
      /\ h[o].names \in Seq(Seq(STRING)) /\ Len(h[o].names) = Len(h[o].items)
      /\ Distinct(h[o].names)
  BY <1>1, SoundFits DEF Fits
<1>3. v \in Nodes /\ v \notin ToSet(h[o].items)
  BY <1>1, <1>2 DEF Forest, LiveIn
<1>4. /\ items \in Seq(Nodes) /\ ToSet(items) = Kids(h, o) \cup {v} /\ Distinct(items)
      /\ Len(items) = Len(h[o].items) + 1
  BY <1>2, <1>3, AppendItem
<1>5. names \in Seq(Seq(STRING)) /\ Len(names) = Len(h[o].names) + 1 /\ Distinct(names)
  BY <1>1, <1>2, AppendItem, NotNamed
<1> HIDE DEF items, names
<1>6. Fits("object", names, items) /\ ToSet(items) = Kids(h, o) \cup {v}
  BY <1>2, <1>4, <1>5 DEF Fits
<1>7. QED
  BY <1>6 DEF items, names

LEMMA FineInsert ==
  ASSUME NEW m, NEW R, NEW T, Fine(m, R, T), NEW o \in LiveIn(m.heap), m.heap[o].type = "object",
         NEW name \in Seq(STRING), IndexOf(m.heap, o, name) = 0,
         NEW v \in R, o \notin Below(m.heap, v)
  PROVE  LET r == Insert(m, o, name, v)
         IN  Moved(r, R, T, v) /\ r.ok \in BOOLEAN /\ (~r.ok => r.heap = m.heap)
             /\ (r.ok => r.heap = Taken(m.heap, o, Append(m.heap[o].names, name),
                                        Append(m.heap[o].items, v), v))
<1> DEFINE grown == Malloc(m)
           r == Insert(m, o, name, v)
           names == Append(m.heap[o].names, name)
           items == Append(m.heap[o].items, v)
           g == Taken(m.heap, o, names, items, v)
<1>1. Fine(grown, R, T) /\ grown.heap = m.heap /\ grown.ok \in BOOLEAN
  BY FineMalloc
<1>2. CASE ~grown.ok
  <2>1. r = grown
    BY <1>2 DEF Insert
  <2> HIDE DEF grown, r
  <2>2. QED
    BY <1>1, <1>2, <2>1 DEF Moved, r
<1>3. CASE grown.ok
  <2>1. r = [grown EXCEPT !.heap = g]
    BY <1>1, <1>3 DEF Insert
  <2> HIDE DEF grown, r
  <2>2. Good(m.heap, R, T) /\ Sound(m.heap) /\ Forest(m.heap, R)
    BY DEF Fine, Good
  <2>3. Fits("object", names, items) /\ ToSet(items) = Kids(m.heap, o) \cup {v}
    BY <2>2, FitsMore
  <2> HIDE DEF items, names
  <2>4. Good(g, R \ {v}, T)
    BY <2>2, <2>3, GoodTake
  <2> HIDE DEF g
  <2>5. Fine(r, R \ {v}, T) /\ r.ok = grown.ok /\ r.heap = g
    BY <1>1, <2>1, <2>4, FineHeap
  <2>6. QED
    BY <1>3, <2>5 DEF Moved, r, g, items, names
<1>4. QED
  BY <1>1, <1>2, <1>3

LEMMA FineObjectAdd ==
  ASSUME NEW m, NEW R, NEW T, Fine(m, R, T), NEW o \in LiveIn(m.heap), m.heap[o].type = "object",
         NEW name \in Seq(STRING), NEW v \in R, o \notin Below(m.heap, v)
  PROVE  LET r == json_object_add(m, o, name, v)
         IN  Moved(r, R, T, v) /\ r.ok \in BOOLEAN /\ (~r.ok => r.heap = m.heap)
             /\ (r.ok => r.heap = Taken(m.heap, o, Append(m.heap[o].names, name),
                                        Append(m.heap[o].items, v), v))
<1> DEFINE r == json_object_add(m, o, name, v)
<1>1. CASE IndexOf(m.heap, o, name) # 0
  <2>1. r = Failure(m)
    BY <1>1 DEF json_object_add
  <2> HIDE DEF r
  <2>2. QED
    BY <2>1, FineFailure DEF Moved, r
<1>2. CASE IndexOf(m.heap, o, name) = 0
  <2>1. r = Insert(m, o, name, v)
    BY <1>2 DEF json_object_add
  <2>2. QED
    BY <1>2, <2>1, FineInsert
<1>3. QED
  BY <1>1, <1>2

\* The object has got one more name, or another value under one of its names.
SetTo(g, h, o, name, v) ==
    LET i == IndexOf(h, o, name)
    IN  \/ /\ i = 0
           /\ g = Taken(h, o, Append(h[o].names, name), Append(h[o].items, v), v)
        \/ /\ i # 0
           /\ g = Taken(Unallocated(h, Below(h, h[o].items[i])), o, h[o].names,
                        [h[o].items EXCEPT ![i] = v], v)

LEMMA FineObjectSet ==
  ASSUME NEW m, NEW R, NEW T, Fine(m, R, T), NEW o \in LiveIn(m.heap), m.heap[o].type = "object",
         NEW name \in Seq(STRING), NEW v \in LiveIn(m.heap), v \in R => o \notin Below(m.heap, v)
  PROVE  LET r == json_object_set_value(m, o, name, v)
         IN  /\ Moved(r, R, T, v) /\ r.ok \in BOOLEAN /\ (~r.ok => r.heap = m.heap)
             /\ r.ok => v \in R /\ SetTo(r.heap, m.heap, o, name, v)
             /\ r.ok /\ m.heap[o].names = <<>> =>
                   r.heap = Taken(m.heap, o, <<name>>, <<v>>, v)
<1> DEFINE r == json_object_set_value(m, o, name, v)
           i == IndexOf(m.heap, o, name)
           names == m.heap[o].names
           items == m.heap[o].items
           next == [items EXCEPT ![i] = v]
           u == Unallocated(m.heap, Below(m.heap, items[i]))
           g == Taken(u, o, names, next, v)
<1>1. Good(m.heap, R, T) /\ Sound(m.heap) /\ Forest(m.heap, R) /\ m \in Memories /\ v # NULL
  BY PointersAssumption DEF Fine, Good, LiveIn
<1>2. /\ items \in Seq(Nodes) /\ Distinct(items) /\ Kids(m.heap, o) = ToSet(items)
      /\ names \in Seq(Seq(STRING)) /\ Len(names) = Len(items) /\ Distinct(names)
  BY <1>1, SoundFits DEF Fits
<1>3. CASE m.heap[v].parent # NULL
  <2>1. r = Failure(m)
    BY <1>1, <1>3 DEF json_object_set_value
  <2> HIDE DEF r
  <2>2. QED
    BY <2>1, FineFailure DEF Moved, r
<1>4. CASE m.heap[v].parent = NULL /\ i = 0
  <2>1. r = Insert(m, o, name, v)
    BY <1>1, <1>4 DEF json_object_set_value
  <2>2. v \in R
    BY <1>1, <1>4, NoParentIsRoot
  <2>3. names = <<>> => Append(names, name) = <<name>> /\ Append(items, v) = <<v>>
    <3>1. ASSUME names = <<>> PROVE items = <<>>
      <4>1. Len(items) = 0
        BY <1>2, <3>1
      <4>2. QED
        BY <1>2, <4>1
    <3>2. Append(<<>>, name) = <<name>> /\ Append(<<>>, v) = <<v>>
      OBVIOUS
    <3> HIDE DEF names, items
    <3>3. QED
      BY <3>1, <3>2, Zenon
  <2> HIDE DEF r, names, items
  <2>4. Moved(r, R, T, v) /\ r.ok \in BOOLEAN /\ (~r.ok => r.heap = m.heap)
        /\ (r.ok => r.heap = Taken(m.heap, o, Append(names, name), Append(items, v), v))
    BY <1>4, <2>1, <2>2, FineInsert DEF names, items
  <2>5. r.ok => SetTo(r.heap, m.heap, o, name, v)
    BY <1>4, <2>4 DEF SetTo, names, items
  <2>6. QED
    BY <2>2, <2>3, <2>4, <2>5 DEF r, names
<1>5. CASE m.heap[v].parent = NULL /\ i # 0
  <2>1. v \in R
    BY <1>1, <1>5, NoParentIsRoot
  <2>2. i \in 1 .. Len(items) /\ items[i] \in Kids(m.heap, o) /\ i \in 1 .. Len(names)
    BY <1>1, <1>5, NamePlace
  <2>3. json_value_free(m, items[i]) = [m EXCEPT !.heap = u]
    BY <2>2, FreeItem
  <2>4. r = Success([[m EXCEPT !.heap = u] EXCEPT !.heap = g])
    <3>1. r = Success([json_value_free(m, items[i])
                         EXCEPT !.heap = Taken(@, o, names, next, v)])
      BY <1>1, <1>5 DEF json_object_set_value
    <3>2. [m EXCEPT !.heap = u].heap = u
      BY <1>1, WithHeap
    <3> HIDE DEF r, u, next, i
    <3>3. QED
      BY <2>3, <3>1, <3>2
  <2>5. Good(g, R \ {v}, T)
    <3>1. v \in Nodes /\ v \notin ToSet(items)
      BY <1>1, <1>2, <2>1 DEF Forest, LiveIn
    <3> HIDE DEF i
    <3>2. next \in Seq(Nodes) /\ Distinct(next) /\ Len(next) = Len(items)
      BY <1>2, <2>2, <3>1, ReplaceItem
    <3>3. Fits("object", names, next)
      <4> HIDE DEF next, names, items
      <4>1. QED
        BY <1>2, <3>2 DEF Fits
    <3>4. Fits(m.heap[o].type, names, next) /\ i \in 1 .. Len(m.heap[o].items)
      BY <2>2, <3>3
    <3> HIDE DEF names
    <3>5. QED
      BY <1>1, <2>1, <3>4, GoodReplace
  <2> HIDE DEF r, g, u
  <2>6. Fine(r, R \ {v}, T) /\ r.ok = TRUE /\ r.heap = g
    <3> DEFINE s == Success([[m EXCEPT !.heap = u] EXCEPT !.heap = g])
    <3>1. Fine(s, R \ {v}, T) /\ s.heap = g /\ s.ok = TRUE
      BY <2>5, FineRefilled
    <3>2. r = s
      BY <2>4
    <3> HIDE DEF s
    <3>3. QED
      BY <3>1, <3>2
  <2>7. names # <<>>
    BY <2>2
  <2>8. SetTo(g, m.heap, o, name, v)
    BY <1>5 DEF SetTo, g, u
  <2> HIDE DEF i
  <2>9. QED
    BY <2>1, <2>6, <2>7, <2>8 DEF Moved, r
<1>6. QED
  BY <1>3, <1>4, <1>5

LEMMA FineObjectRemove ==
  ASSUME NEW m, NEW R, NEW T, Fine(m, R, T), NEW o \in LiveIn(m.heap), m.heap[o].type = "object",
         NEW name
  PROVE  Fine(json_object_remove_internal(m, o, name, TRUE), R, T)
<1> DEFINE r == json_object_remove_internal(m, o, name, TRUE)
           i == IndexOf(m.heap, o, name)
           names == m.heap[o].names
           items == m.heap[o].items
           fewer == Close(names, i)
           next == Close(items, i)
           G == Below(m.heap, items[i])
           u == Unallocated(m.heap, G)
           g == Filled(u, o, fewer, next)
<1>1. Good(m.heap, R, T) /\ Sound(m.heap) /\ Forest(m.heap, R) /\ m \in Memories
  BY DEF Fine, Good
<1>2. Fits("object", names, items) /\ Kids(m.heap, o) = ToSet(items)
  BY <1>1, SoundFits
<1>3. CASE i = 0
  <2>1. r = Failure(m)
    BY <1>3 DEF json_object_remove_internal
  <2> HIDE DEF r
  <2>2. QED
    BY <2>1, FineFailure DEF r
<1>4. CASE i # 0
  <2>1. i \in 1 .. Len(items) /\ items[i] \in Kids(m.heap, o)
    BY <1>1, <1>4, NamePlace
  <2>2. json_value_free(m, items[i]) = [m EXCEPT !.heap = u]
    BY <2>1, FreeItem
  <2>3. r = Success([[m EXCEPT !.heap = u] EXCEPT !.heap = g])
    <3>1. r = Success([json_value_free(m, items[i]) EXCEPT !.heap = Filled(@, o, fewer, next)])
      BY <1>4 DEF json_object_remove_internal
    <3>2. [m EXCEPT !.heap = u].heap = u
      BY <1>1, WithHeap
    <3> HIDE DEF r, u, next, fewer, i
    <3>3. QED
      BY <2>2, <3>1, <3>2
  <2> HIDE DEF i
  <2>4. Fits("object", fewer, next) /\ ToSet(next) = Kids(m.heap, o) \ {items[i]}
    BY <1>2, <2>1, FitsClosed
  <2>5. /\ G \in SUBSET LiveIn(m.heap) /\ Closed(m.heap, G) /\ R \cap G = {} /\ o \notin G
        /\ Kids(m.heap, o) \ G = Kids(m.heap, o) \ {items[i]}
        /\ \A n \in LiveIn(m.heap) \ (G \cup {o}) : Kids(m.heap, n) \cap G = {}
    BY <1>1, <2>1, BelowItem
  <2> HIDE DEF G, next, fewer
  <2>6. Good(g, R, T)
    <3>1. o \in LiveIn(m.heap) \ G /\ ToSet(next) = Kids(m.heap, o) \ G
      BY <2>4, <2>5
    <3>2. QED
      BY <1>1, <2>4, <2>5, <3>1, GoodPrune
  <2> HIDE DEF r, g, u
  <2>7. Fine(r, R, T)
    BY <2>3, <2>6, FineRefilled
  <2>8. QED
    BY <2>7 DEF r
<1>5. QED
  BY <1>3, <1>4

-----------------------------------------------------------------------------
\* Dotted names

\* What is below o is not below a root that o is not below.
LEMMA BelowRoot ==
  ASSUME NEW h, NEW R, Sound(h), Forest(h, R), NEW v \in R, NEW o \in LiveIn(h),
         o \notin Below(h, v), NEW x \in Below(h, o)
  PROVE  x \notin Below(h, v)
<1> DEFINE B == Below(h, v)
           C == Below(h, o)
           S == C \ B
<1>1. v \in LiveIn(h) /\ v \in Nodes /\ o \in Nodes
  BY DEF Forest, LiveIn
<1>2. B \subseteq LiveIn(h) /\ \A n \in B \ {v} : h[n].parent \in B
  BY <1>1, BelowParent
<1>3. /\ C \in SUBSET Nodes /\ o \in C /\ Closed(h, C)
      /\ \A U \in SUBSET Nodes : o \in U /\ Closed(h, U) => C \subseteq U
  BY <1>1, BelowLeast
<1>4. o \notin B /\ C \subseteq LiveIn(h)
  BY BelowParent
<1>5. x \in C
  OBVIOUS
<1> HIDE DEF B, C
<1>6. ASSUME NEW n \in S, NEW k \in Kids(h, n) PROVE k \in S
  <2>1. k \in C
    BY <1>3, <1>6 DEF Closed
  <2>2. k \notin R /\ h[k].parent = n
    BY <1>4, <1>6 DEF Forest
  <2>3. k \notin B
    BY <1>2, <1>6, <2>2
  <2>4. QED
    BY <2>1, <2>3
<1>7. Closed(h, S)
  BY <1>6 DEF Closed
<1>8. C \subseteq S
  BY <1>3, <1>4, <1>7
<1>9. QED
  BY <1>5, <1>8 DEF B

\* The objects on the way: the first is o, and each next one is an item of the
\* one before, found by its name.
LEMMA WayParts ==
  ASSUME NEW h, NEW R, Sound(h), Forest(h, R), NEW o \in LiveIn(h), h[o].type = "object",
         NEW path, Len(path) \in Nat \ {0}
  PROVE  LET at == Way(h, o, path)
         IN  /\ at[1] = o
             /\ \A k \in 1 .. Len(path) :
                   at[k] = NULL \/ (at[k] \in LiveIn(h) /\ h[at[k]].type = "object"
                                    /\ at[k] \in Below(h, o))
             /\ \A k \in 2 .. Len(path) :
                   at[k] = IF at[k - 1] = NULL THEN NULL
                           ELSE LET v == json_object_getn_value(h, at[k - 1], path[k - 1])
                                IN  IF v = NULL THEN NULL
                                    ELSE IF h[v].type # "object" THEN NULL ELSE v
<1> DEFINE N == Len(path)
           Next1(x, k) == IF x = NULL THEN NULL
                          ELSE LET v == json_object_getn_value(h, x, path[k - 1])
                               IN  IF v = NULL THEN NULL
                                   ELSE IF h[v].type # "object" THEN NULL ELSE v
           Step(g, k) == IF k = 1 THEN o
                         ELSE LET v == IF g[k - 1] = NULL THEN NULL
                                       ELSE json_object_getn_value(h, g[k - 1], path[k - 1])
                              IN  IF v = NULL THEN NULL
                                  ELSE IF h[v].type # "object" THEN NULL ELSE v
           Walked(g, n) == g = [k \in 1 .. n |-> Step(g, k)]
           at == CHOOSE g : Walked(g, N)
           defined == {n \in Nat : \E g : Walked(g, n)}
           On(x) == x = NULL \/ (x \in LiveIn(h) /\ h[x].type = "object" /\ x \in Below(h, o))
           found == {n \in Nat : n + 1 <= N => On(at[n + 1])}
<1>1. N \in Nat /\ N # 0
  OBVIOUS
<1>2. Way(h, o, path) = at
  BY Zenon DEF Way
<1>3. defined = Nat
  <2>1. 0 \in defined
    <3> DEFINE f == [k \in 1 .. 0 |-> <<>>]
    <3>1. Walked(f, 0)
      OBVIOUS
    <3>2. QED
      BY <3>1
  <2>2. ASSUME NEW n \in defined PROVE n + 1 \in defined
    <3>1. PICK f : Walked(f, n)
      OBVIOUS
    <3> DEFINE g == [k \in 1 .. n + 1 |-> IF k = n + 1 THEN Step(f, n + 1) ELSE f[k]]
    <3>2. n \in Nat /\ n + 1 \in Nat /\ n + 1 \in 1 .. n + 1
          /\ (\A k \in 1 .. n + 1 : k # n + 1 => k \in 1 .. n)
          /\ (\A k \in 1 .. n : k \in 1 .. n + 1 /\ k # n + 1)
          /\ (\A k \in 1 .. n + 1 : k # 1 => k - 1 \in 1 .. n)
      OBVIOUS
    <3>3. \A k \in 1 .. n : f[k] = Step(f, k)
      BY <3>1
    <3> HIDE DEF Step
    <3>4. (\A k \in 1 .. n : g[k] = f[k]) /\ g[n + 1] = Step(f, n + 1)
      BY <3>2
    <3>5. g = [k \in 1 .. n + 1 |-> g[k]]
      OBVIOUS
    <3> HIDE DEF g
    <3>6. \A k \in 1 .. n + 1 : Step(g, k) = Step(f, k)
      BY <3>2, <3>4 DEF Step
    <3>7. \A k \in 1 .. n + 1 : g[k] = Step(g, k)
      BY <3>2, <3>3, <3>4, <3>6
    <3>8. Walked(g, n + 1)
      BY <3>5, <3>7
    <3> HIDE DEF Walked
    <3>9. QED
      BY <3>2, <3>8
  <2>3. defined \in SUBSET Nat
    OBVIOUS
  <2> HIDE DEF defined
  <2>4. QED
    BY <2>1, <2>2, <2>3, SetInduction
<1>4. Walked(at, N)
  <2>1. \E g : Walked(g, N)
    BY <1>1, <1>3
  <2> HIDE DEF Walked
  <2>2. QED
    BY <2>1
<1> HIDE DEF at
<1>5. at[1] = o
  BY <1>1, <1>4
<1>6. \A k \in 2 .. N : at[k] = Next1(at[k - 1], k)
  <2>1. SUFFICES ASSUME NEW k \in 2 .. N PROVE at[k] = Next1(at[k - 1], k)
    OBVIOUS
  <2>2. k \in 1 .. N /\ k # 1
    BY <1>1
  <2>3. at[k] = Step(at, k)
    BY <1>4, <2>2
  <2>4. QED
    BY <2>2, <2>3
<1>7. ASSUME NEW k \in Nat, NEW x, On(x) PROVE On(Next1(x, k))
  <2> DEFINE i == IndexOf(h, x, path[k - 1])
  <2>1. CASE Next1(x, k) = NULL
    BY <2>1
  <2>2. CASE Next1(x, k) # NULL
    <3>1. /\ x \in LiveIn(h) /\ h[x].type = "object" /\ x \in Below(h, o)
          /\ i # 0 /\ Next1(x, k) = h[x].items[i] /\ h[h[x].items[i]].type = "object"
      BY <1>7, <2>2 DEF json_object_getn_value
    <3>2. h[x].items[i] \in Kids(h, x)
      BY <3>1, NamePlace
    <3>3. h[x].items[i] \in LiveIn(h)
      BY <3>1, <3>2 DEF Forest
    <3>4. Closed(h, Below(h, o))
      BY BelowLeast DEF LiveIn
    <3>5. h[x].items[i] \in Below(h, o)
      BY <3>1, <3>2, <3>4 DEF Closed
    <3> HIDE DEF Next1, i
    <3>6. QED
      BY <3>1, <3>3, <3>5
  <2>3. QED
    BY <2>1, <2>2
<1>8. found = Nat
  <2>1. On(o)
    BY BelowLeast DEF LiveIn
  <2> HIDE DEF On, Next1
  <2>2. 0 \in found
    BY <1>5, <2>1
  <2>3. ASSUME NEW n \in found PROVE n + 1 \in found
    <3>1. n \in Nat /\ n + 1 \in Nat /\ (n + 1) + 1 \in Nat /\ ((n + 1) + 1) - 1 = n + 1
      OBVIOUS
    <3>2. SUFFICES ASSUME (n + 1) + 1 <= N PROVE On(at[(n + 1) + 1])
      BY <3>1
    <3>3. n + 1 <= N /\ (n + 1) + 1 \in 2 .. N
      BY <1>1, <3>1, <3>2
    <3>4. On(at[n + 1])
      BY <3>3
    <3>5. at[(n + 1) + 1] = Next1(at[n + 1], (n + 1) + 1)
      BY <1>6, <3>1, <3>3
    <3>6. QED
      BY <1>7, <3>1, <3>4, <3>5
  <2>4. found \in SUBSET Nat
    OBVIOUS
  <2> HIDE DEF found
  <2>5. QED
    BY <2>2, <2>3, <2>4, SetInduction
<1>9. \A k \in 1 .. N : On(at[k])
  <2>1. SUFFICES ASSUME NEW k \in 1 .. N PROVE On(at[k])
    OBVIOUS
  <2>2. k - 1 \in Nat /\ (k - 1) + 1 = k /\ k <= N
    BY <1>1
  <2>3. k - 1 \in found
    BY <1>8, <2>2
  <2>4. QED
    BY <2>2, <2>3
<1>10. QED
  BY <1>2, <1>5, <1>6, <1>9

LEMMA FineDotRemove ==
  ASSUME NEW m, NEW R, NEW T, Fine(m, R, T), NEW o \in LiveIn(m.heap), m.heap[o].type = "object",
         NEW path, Len(path) \in Nat \ {0}
  PROVE  Fine(json_object_dotremove_internal(m, o, path, TRUE), R, T)
<1> DEFINE r == json_object_dotremove_internal(m, o, path, TRUE)
           last == Way(m.heap, o, path)[Len(path)]
<1>1. Sound(m.heap) /\ Forest(m.heap, R)
  BY DEF Fine, Good
<1>2. last = NULL \/ (last \in LiveIn(m.heap) /\ m.heap[last].type = "object")
  <2>1. Len(path) \in 1 .. Len(path)
    OBVIOUS
  <2>2. QED
    BY <1>1, <2>1, WayParts
<1>3. CASE last = NULL
  <2>1. r = Failure(m)
    BY <1>3 DEF json_object_dotremove_internal
  <2> HIDE DEF r
  <2>2. QED
    BY <2>1, FineFailure DEF r
<1>4. CASE last # NULL
  <2>1. r = json_object_remove_internal(m, last, path[Len(path)], TRUE)
    BY <1>4 DEF json_object_dotremove_internal
  <2> HIDE DEF r, last
  <2>2. QED
    BY <1>2, <1>4, <2>1, FineObjectRemove DEF r
<1>5. QED
  BY <1>3, <1>4

-----------------------------------------------------------------------------
\* A dotted setter gives up

\* The values of g are those of h that are not in B, and differ in their
\* parents at most.
Without(g, h, B) ==
    /\ LiveIn(g) = LiveIn(h) \ B
    /\ \A n \in LiveIn(g) :
          /\ g[n].type = h[n].type /\ g[n].names = h[n].names
          /\ g[n].items = h[n].items /\ g[n].text = h[n].text

\* The values below new once c holds these items, and the heap without them.
Lost(h, c, names, items, new) == Below(Filled(h, c, names, items), new)
Left(h, c, names, items, new) ==
    Unallocated(Filled(h, c, names, items), Lost(h, c, names, items, new))

\* The container c, below the root new, lets its item x go, and new is freed:
\* x stays, and its parent is free.  What was not below new stays as it was.
LEMMA GoodGiveUp ==
  ASSUME NEW h, NEW R, NEW T, Good(h, R, T), NEW c \in LiveIn(h), NEW x \in Kids(h, c),
         NEW names, NEW items, Fits(h[c].type, names, items), ToSet(items) = Kids(h, c) \ {x},
         NEW new \in R, c \in Below(h, new)
  PROVE  LET g == Filled(h, c, names, items)
             B == Lost(h, c, names, items, new)
             f == Left(h, c, names, items, new)
         IN  /\ Sound(g) /\ Forest(g, R \cup {x})
             /\ B \in SUBSET LiveIn(g)
             /\ \A S \in SUBSET Nodes :
                   new \in S /\ (\A n \in S : Kids(h, n) \ {x} \subseteq S) => B \subseteq S
             /\ Good(f, (R \ {new}) \cup {x}, T \cup {x})
             /\ Without(f, h, B)
<1> DEFINE g == Filled(h, c, names, items)
           B == Below(g, new)
           f == Unallocated(g, B)
<1>1. /\ Sound(h) /\ Forest(h, R) /\ Loose(h, R, T) /\ LiveIn(h) \subseteq Nodes
      /\ new \in LiveIn(h) /\ R \subseteq LiveIn(h)
  BY DEF Good, LiveIn, Forest
<1>2. x \in LiveIn(h) \ R /\ h[x].parent = c
  BY <1>1 DEF Forest
<1>3. /\ Sound(g) /\ LiveIn(g) = LiveIn(h)
      /\ \A n \in Nodes \ {c} : g[n] = h[n]
      /\ g[c].parent = h[c].parent
      /\ Kids(g, c) = ToSet(items)
      /\ \A n \in Nodes \ {c} : Kids(g, n) = Kids(h, n)
  BY <1>1, FilledHeap
<1> HIDE DEF g
<1>4. /\ Kids(g, c) = Kids(h, c) \ {x}
      /\ \A n \in LiveIn(h) \ {c} : Kids(g, n) = Kids(h, n)
      /\ \A n \in LiveIn(h) : g[n].parent = h[n].parent
  BY <1>1, <1>3
<1>5. Forest(g, R \cup {x})
  BY <1>1, <1>3, <1>4, Detach
<1>6. /\ B \in SUBSET Nodes /\ new \in B /\ Closed(g, B)
      /\ \A S \in SUBSET Nodes : new \in S /\ Closed(g, S) => B \subseteq S
  BY <1>1, <1>3, BelowLeast
<1>7. B \subseteq LiveIn(g) /\ \A n \in B \ {new} : n \notin R \cup {x}
  BY <1>1, <1>3, <1>5, BelowParent
<1> HIDE DEF B
<1>8. x \notin B
  BY <1>2, <1>7
<1>9. c \in B
  <2>1. SUFFICES ASSUME c \notin B PROVE FALSE
    OBVIOUS
  <2>2. Closed(h, B)
    BY <1>3, <1>6, <2>1 DEF Closed
  <2>3. new \in Nodes /\ Below(h, new) \subseteq B
    BY <1>1, <1>6, <2>2, BelowLeast
  <2>4. QED
    BY <2>1, <2>3
<1>10. ASSUME NEW S \in SUBSET Nodes, new \in S, \A n \in S : Kids(h, n) \ {x} \subseteq S
       PROVE  B \subseteq S
  <2>1. ASSUME NEW n \in S PROVE Kids(g, n) \subseteq S
    <3>1. CASE n = c
      BY <1>4, <1>10, <3>1
    <3>2. CASE n # c
      <4>1. Kids(g, n) = Kids(h, n)
        BY <1>3, <1>10, <3>2
      <4>2. x \notin Kids(h, n)
        <5>1. SUFFICES ASSUME x \in Kids(h, n) PROVE n = c
          BY <3>2
        <5>2. n \in LiveIn(h)
          BY <1>10, <5>1 DEF LiveIn, Kids
        <5>3. QED
          BY <1>1, <1>2, <5>1, <5>2 DEF Forest
      <4>3. QED
        BY <1>10, <2>1, <4>1, <4>2
    <3>3. QED
      BY <3>1, <3>2
  <2>2. Closed(g, S)
    BY <2>1 DEF Closed
  <2>3. QED
    BY <1>6, <1>10, <2>2
<1>11. /\ Sound(f) /\ LiveIn(f) = LiveIn(g) \ B
       /\ \A n \in LiveIn(f) :
            /\ f[n].type = g[n].type /\ f[n].names = g[n].names /\ f[n].items = g[n].items
            /\ f[n].text = g[n].text
            /\ f[n].parent = IF g[n].parent \in B THEN FREE ELSE g[n].parent
            /\ Kids(f, n) = Kids(g, n)
  BY <1>3, <1>6, UnallocatedHeap
<1> HIDE DEF f
<1>12. ASSUME NEW n \in LiveIn(f), NEW k \in Kids(g, n) PROVE k \notin B
  <2>1. n \in LiveIn(g) /\ n \notin B
    BY <1>11
  <2>2. k \notin R \cup {x} /\ g[k].parent = n
    BY <1>5, <1>12, <2>1 DEF Forest
  <2>3. k # new
    BY <2>2
  <2>4. k \in B => g[k].parent \in B
    BY <1>1, <1>3, <1>5, <2>3, BelowParent DEF B
  <2>5. QED
    BY <2>1, <2>2, <2>4
<1>13. \A n \in LiveIn(f) : Kids(f, n) = Kids(g, n) \ B
  BY <1>11, <1>12
<1>14. Forest(f, (R \cup {x}) \ B)
  <2>1. \A n \in LiveIn(f) : g[n].parent \notin B => f[n].parent = g[n].parent
    BY <1>11
  <2>2. QED
    BY <1>3, <1>5, <1>6, <1>7, <1>11, <1>13, <2>1, Prune
<1>15. (R \cup {x}) \ B = (R \ {new}) \cup {x}
  BY <1>2, <1>6, <1>7, <1>8
<1>16. Loose(f, (R \ {new}) \cup {x}, T \cup {x})
  <2>1. (R \ {new}) \cup {x} \subseteq LiveIn(f)
    BY <1>14, <1>15 DEF Forest
  <2>2. NULL \notin B /\ FREE \notin B
    BY <1>6, PointersAssumption
  <2>3. f[x].parent = FREE
    BY <1>2, <1>4, <1>9, <1>11, <2>1
  <2>4. ASSUME NEW r \in R \ {new}
        PROVE  f[r].parent = NULL \/ (r \in T /\ f[r].parent = FREE)
    <3>1. h[r].parent = NULL \/ (r \in T /\ h[r].parent = FREE)
      BY <1>1 DEF Loose
    <3>2. g[r].parent = h[r].parent /\ r \in LiveIn(f)
      BY <1>1, <1>4, <2>1
    <3>3. f[r].parent = g[r].parent
      BY <1>11, <2>2, <3>1, <3>2
    <3>4. QED
      BY <3>1, <3>2, <3>3
  <2>5. QED
    BY <2>3, <2>4 DEF Loose
<1>17. ASSUME NEW n \in LiveIn(f)
       PROVE  /\ f[n].type = h[n].type /\ f[n].names = h[n].names
              /\ f[n].items = h[n].items /\ f[n].text = h[n].text
  <2>1. n \in Nodes /\ n # c
    BY <1>1, <1>3, <1>9, <1>11
  <2>2. QED
    BY <1>3, <1>11, <2>1
<1>18. Good(f, (R \ {new}) \cup {x}, T \cup {x})
  BY <1>11, <1>14, <1>15, <1>16 DEF Good
<1>19. LiveIn(f) = LiveIn(h) \ B /\ B \in SUBSET LiveIn(g)
  BY <1>3, <1>7, <1>11
<1>20. Without(f, h, B)
  BY <1>17, <1>19 DEF Without
<1>21. QED
  BY <1>3, <1>5, <1>10, <1>18, <1>19, <1>20 DEF f, B, g, Lost, Left

Refill(m, h) == [m EXCEPT !.heap = h]

\* A memory whose heap is changed twice, and is good at the end.
LEMMA Refilled ==
  ASSUME NEW m, NEW R, NEW T, Fine(m, R, T), NEW g \in Heaps, NEW f, NEW R2, NEW T2,
         Good(f, R2, T2)
  PROVE  LET r == Success(Refill(m, g))
             s == Refill(r, f)
         IN  /\ r \in Memories /\ r.heap = g /\ r.twice = FALSE
             /\ Fine(s, R2, T2)
<1> DEFINE a == Refill(m, g)
           r == Success(a)
           s == Refill(r, f)
           R1 == [heap |-> g, fuel |-> m.fuel, twice |-> m.twice, got |-> m.got, ok |-> TRUE]
           S1 == [heap |-> f, fuel |-> m.fuel, twice |-> m.twice, got |-> m.got, ok |-> TRUE]
<1>1. m \in Memories /\ m.twice = FALSE
  BY DEF Fine
<1>2. a = [heap |-> g, fuel |-> m.fuel, twice |-> m.twice, got |-> m.got, ok |-> m.ok]
  BY <1>1, WithHeap DEF Refill
<1>3. a \in Memories
  BY <1>1, <1>2, MemoryParts, MakeMemory
<1>4. a.heap = g /\ a.fuel = m.fuel /\ a.twice = m.twice /\ a.got = m.got
  BY <1>2
<1> HIDE DEF a
<1>5. r = R1
  BY <1>3, <1>4, SuccessParts
<1>6. R1 \in Memories
  BY <1>1, MemoryParts, MakeMemory
<1>7. R1.heap = g /\ R1.twice = m.twice /\ R1.fuel = m.fuel /\ R1.got = m.got /\ R1.ok = TRUE
  OBVIOUS
<1> HIDE DEF r, R1
<1>8. s = S1
  BY <1>5, <1>6, <1>7, WithHeap DEF Refill
<1>9. f \in Heaps
  BY DEF Good, Sound
<1>10. S1 \in Memories
  BY <1>1, <1>9, MemoryParts, MakeMemory
<1>11. S1.heap = f /\ S1.twice = m.twice
  OBVIOUS
<1> HIDE DEF s, S1
<1>12. QED
  BY <1>1, <1>5, <1>6, <1>7, <1>8, <1>10, <1>11 DEF Fine, r, s, a

\* The way leads from new to the container c, which has x under the last name.
AtEnd(h, new, path, c, x) ==
    c = Way(h, new, path)[Len(path)] /\ x = json_object_getn_value(h, c, path[Len(path)])

\* Nothing is lost but what new leads to without x.
GivenUp(g, h, new, x) ==
    \E B \in SUBSET Nodes :
        /\ Without(g, h, B)
        /\ \A S \in SUBSET Nodes :
              new \in S /\ (\A n \in S : Kids(h, n) \ {x} \subseteq S) => B \subseteq S

\* The value at the end of the way is let go, and the object where the way
\* begins is freed.
LEMMA FineGiveUp ==
  ASSUME NEW m, NEW R, NEW T, Fine(m, R, T), NEW new \in R, m.heap[new].type = "object",
         NEW path, Len(path) \in Nat \ {0},
         NEW c \in LiveIn(m.heap), NEW x \in Kids(m.heap, c), AtEnd(m.heap, new, path, c, x)
  PROVE  LET r == GiveUp(m, new, path)
         IN  /\ Fine(r, (R \ {new}) \cup {x}, T \cup {x}) /\ r.ok = FALSE
             /\ GivenUp(r.heap, m.heap, new, x)
<1> DEFINE h == m.heap
           N == Len(path)
           i == IndexOf(h, c, path[N])
           names == Close(h[c].names, i)
           items == Close(h[c].items, i)
           g == Filled(h, c, names, items)
           B == Lost(h, c, names, items, new)
           f == Left(h, c, names, items, new)
           removed == json_object_dotremove_internal(m, new, path, FALSE)
           freed == json_value_free(removed, new)
           r == GiveUp(m, new, path)
<1>1. /\ Good(h, R, T) /\ Sound(h) /\ Forest(h, R) /\ new \in LiveIn(h) /\ LiveIn(h) \subseteq Nodes
      /\ c # NULL /\ new # NULL
  BY PointersAssumption DEF Fine, Good, Forest, LiveIn
<1>2. h[c].type = "object" /\ c \in Below(h, new)
  <2>1. N \in 1 .. N
    OBVIOUS
  <2>2. QED
    BY <1>1, <2>1, WayParts DEF AtEnd
<1>3. x \in Nodes /\ x # NULL
  BY <1>1, PointersAssumption DEF Forest
<1>4. i # 0 /\ x = h[c].items[i]
  BY <1>3 DEF json_object_getn_value, AtEnd
<1>5. i \in 1 .. Len(h[c].items)
  BY <1>1, <1>2, <1>4, NamePlace
<1>6. Fits(h[c].type, names, items) /\ ToSet(items) = Kids(h, c) \ {x}
  <2>1. Fits("object", h[c].names, h[c].items) /\ Kids(h, c) = ToSet(h[c].items)
    BY <1>1, <1>2, SoundFits
  <2> HIDE DEF i
  <2>2. Fits("object", names, items) /\ ToSet(items) = ToSet(h[c].items) \ {h[c].items[i]}
    BY <1>5, <2>1, FitsClosed
  <2> HIDE DEF names, items
  <2>3. QED
    BY <1>2, <1>4, <2>1, <2>2
<1>7. removed = Success(Refill(m, g))
  <2>1. removed = json_object_remove_internal(m, c, path[N], FALSE)
    BY <1>1 DEF json_object_dotremove_internal, AtEnd
  <2>2. json_object_remove_internal(m, c, path[N], FALSE) =
           Success([m EXCEPT !.heap = Filled(@, c, names, items)])
    BY <1>4 DEF json_object_remove_internal
  <2> HIDE DEF removed
  <2>3. QED
    BY <2>1, <2>2 DEF Refill
<1> HIDE DEF removed, names, items, i
<1>8. /\ Sound(g) /\ Forest(g, R \cup {x})
      /\ B \in SUBSET LiveIn(g)
      /\ \A S \in SUBSET Nodes :
            new \in S /\ (\A n \in S : Kids(h, n) \ {x} \subseteq S) => B \subseteq S
      /\ Good(f, (R \ {new}) \cup {x}, T \cup {x})
      /\ Without(f, h, B)
  <2>1. c \in LiveIn(h) /\ x \in Kids(h, c) /\ new \in R
    OBVIOUS
  <2>2. /\ Good(h, R, T) /\ c \in Below(h, new)
        /\ Fits(h[c].type, names, items) /\ ToSet(items) = Kids(h, c) \ {x}
    BY <1>1, <1>2, <1>6
  <2> HIDE DEF h
  <2>3. Sound(g) /\ Forest(g, R \cup {x}) /\ B \in SUBSET LiveIn(g)
    BY <2>1, <2>2, GoodGiveUp
  <2>4. \A S \in SUBSET Nodes :
            new \in S /\ (\A n \in S : Kids(h, n) \ {x} \subseteq S) => B \subseteq S
    BY <2>1, <2>2, GoodGiveUp
  <2>5. Good(f, (R \ {new}) \cup {x}, T \cup {x})
    BY <2>1, <2>2, GoodGiveUp
  <2>6. Without(f, h, B)
    BY <2>1, <2>2, GoodGiveUp
  <2>7. QED
    BY <2>3, <2>4, <2>5, <2>6
<1>9. g \in Heaps /\ Good(f, (R \ {new}) \cup {x}, T \cup {x})
  BY <1>8 DEF Sound
<1> HIDE DEF f, g
<1>10. removed \in Memories /\ removed.heap = g /\ removed.twice = FALSE
  BY <1>7, <1>9, Refilled
<1>11. freed = Refill(removed, f)
  <2>1. freed = FreeAll(removed, B, B)
    BY <1>1, <1>10 DEF json_value_free, g, Lost
  <2>2. Sound(removed.heap) /\ Forest(removed.heap, R \cup {x}) /\ B \in SUBSET LiveIn(removed.heap)
    BY <1>8, <1>10
  <2> HIDE DEF B, freed
  <2>3. FreeAll(removed, B, B) = [removed EXCEPT !.heap = Unallocated(removed.heap, B)]
    BY <1>10, <2>2, FreeAllParts
  <2>4. QED
    BY <1>10, <2>1, <2>3 DEF f, g, B, Left, Refill
<1>12. Fine(freed, (R \ {new}) \cup {x}, T \cup {x}) /\ freed.heap = f
  <2> HIDE DEF freed
  <2> DEFINE R2 == (R \ {new}) \cup {x}
             T2 == T \cup {x}
  <2>1. Good(f, R2, T2) /\ Fine(m, R, T)
    BY <1>9
  <2> HIDE DEF R2, T2
  <2>2. Fine(Refill(Success(Refill(m, g)), f), R2, T2)
    BY <1>9, <2>1, Refilled
  <2>3. freed.heap = f
    BY <1>10, <1>11, WithHeap DEF Refill
  <2>4. QED
    BY <1>7, <1>11, <2>2, <2>3 DEF R2, T2
<1>13. r = Failure(freed)
  BY DEF GiveUp, removed
<1> HIDE DEF freed, r
<1>14. Fine(r, (R \ {new}) \cup {x}, T \cup {x}) /\ r.ok = FALSE /\ r.heap = f
  BY <1>12, <1>13, FineFailure
<1>15. B \in SUBSET Nodes
  BY <1>8 DEF LiveIn
<1> HIDE DEF B
<1>16. GivenUp(r.heap, h, new, x)
  BY <1>8, <1>14, <1>15 DEF GivenUp
<1>17. QED
  BY <1>14, <1>16 DEF r

\* The two functions of SetMaking(): objects are made, and put into each other.
Started(m, object) == [m EXCEPT !.got = object, !.ok = TRUE]

Making(made, m, object, n) ==
    /\ made[1] = Started(m, object)
    /\ \A k \in 2 .. n :
          made[k] = IF ~made[k - 1].ok THEN made[k - 1]
                    ELSE json_value_init(made[k - 1], Block("object", <<>>))

Put(inner, made, path, v, j) ==
    LET n == Len(path)
        new == made[j + 1].got
        rest == SubSeq(path, j + 1, n)
        named == Malloc(inner)
        added == json_object_add(named, made[j].got, path[j], new)
    IN  IF ~made[j].ok THEN made[j]
        ELSE IF ~made[j + 1].ok THEN made[j + 1]
        ELSE IF ~inner.ok THEN Failure(json_value_free(inner, new))
        ELSE IF ~named.ok THEN GiveUp(inner, new, rest)
        ELSE IF ~added.ok THEN GiveUp(named, new, rest)
        ELSE added

PutFirst(made, path, v) ==
    LET n == Len(path)
    IN  IF ~made[n].ok THEN made[n]
        ELSE json_object_set_value(made[n], made[n].got, path[n], v)

Setting(set, made, path, v) ==
    LET n == Len(path)
    IN  /\ set[0] = PutFirst(made, path, v)
        /\ \A k \in 1 .. n - 1 : set[k] = Put(set[k - 1], made, path, v, n - k)

LEMMA SetMakingParts ==
  ASSUME NEW m, NEW object, NEW path, Len(path) \in Nat \ {0}, NEW v
  PROVE  \E made, set : /\ Making(made, m, object, Len(path))
                        /\ Setting(set, made, path, v)
                        /\ SetMaking(m, object, path, v) = set[Len(path) - 1]
<1> DEFINE n == Len(path)
           MadeStep(g, k) == IF k = 1 THEN Started(m, object)
                             ELSE IF ~g[k - 1].ok THEN g[k - 1]
                             ELSE json_value_init(g[k - 1], Block("object", <<>>))
           MadeUpTo(g, q) == g = [k \in 1 .. q |-> MadeStep(g, k)]
           made == CHOOSE g : MadeUpTo(g, n)
           SetStep(g, k) ==
              LET inner == g[k - 1]
                  new == made[n - k + 1].got
                  rest == SubSeq(path, n - k + 1, n)
                  named == Malloc(inner)
                  added == json_object_add(named, made[n - k].got, path[n - k], new)
              IN  IF ~made[n - k].ok THEN made[n - k]
                  ELSE IF k = 0 THEN json_object_set_value(made[n], made[n].got, path[n], v)
                  ELSE IF ~made[n - k + 1].ok THEN made[n - k + 1]
                  ELSE IF ~inner.ok THEN Failure(json_value_free(inner, new))
                  ELSE IF ~named.ok THEN GiveUp(inner, new, rest)
                  ELSE IF ~added.ok THEN GiveUp(named, new, rest)
                  ELSE added
           SetUpTo(g, q) == g = [k \in 0 .. q |-> SetStep(g, k)]
           set == CHOOSE g : SetUpTo(g, n - 1)
           madeTo == {q \in Nat : \E g : MadeUpTo(g, q)}
           setTo == {q \in Nat : \E g : SetUpTo(g, q)}
<1>1. n \in Nat /\ n - 1 \in Nat /\ 1 \in 1 .. n /\ 0 \in 0 .. n - 1 /\ n - 0 = n
  OBVIOUS
<1>2. SetMaking(m, object, path, v) = set[n - 1]
  BY Zenon DEF SetMaking, Started
<1>3. madeTo = Nat
  <2>1. 0 \in madeTo
    <3> DEFINE f == [k \in 1 .. 0 |-> <<>>]
    <3>1. MadeUpTo(f, 0)
      OBVIOUS
    <3>2. QED
      BY <3>1
  <2>2. ASSUME NEW q \in madeTo PROVE q + 1 \in madeTo
    <3>1. PICK f : MadeUpTo(f, q)
      OBVIOUS
    <3> DEFINE g == [k \in 1 .. q + 1 |-> IF k = q + 1 THEN MadeStep(f, q + 1) ELSE f[k]]
    <3>2. q \in Nat /\ q + 1 \in Nat /\ q + 1 \in 1 .. q + 1
          /\ (\A k \in 1 .. q + 1 : k # q + 1 => k \in 1 .. q)
          /\ (\A k \in 1 .. q : k \in 1 .. q + 1 /\ k # q + 1)
          /\ (\A k \in 1 .. q + 1 : k # 1 => k - 1 \in 1 .. q)
      OBVIOUS
    <3>3. \A k \in 1 .. q : f[k] = MadeStep(f, k)
      BY <3>1
    <3> HIDE DEF MadeStep
    <3>4. (\A k \in 1 .. q : g[k] = f[k]) /\ g[q + 1] = MadeStep(f, q + 1)
      BY <3>2
    <3>5. g = [k \in 1 .. q + 1 |-> g[k]]
      OBVIOUS
    <3> HIDE DEF g
    <3>6. \A k \in 1 .. q + 1 : MadeStep(g, k) = MadeStep(f, k)
      BY <3>2, <3>4 DEF MadeStep
    <3>7. \A k \in 1 .. q + 1 : g[k] = MadeStep(g, k)
      BY <3>2, <3>3, <3>4, <3>6
    <3>8. MadeUpTo(g, q + 1)
      BY <3>5, <3>7
    <3> HIDE DEF MadeUpTo
    <3>9. QED
      BY <3>2, <3>8
  <2>3. madeTo \in SUBSET Nat
    OBVIOUS
  <2> HIDE DEF madeTo
  <2>4. QED
    BY <2>1, <2>2, <2>3, SetInduction
<1>4. MadeUpTo(made, n)
  <2>1. \E g : MadeUpTo(g, n)
    BY <1>1, <1>3
  <2> HIDE DEF MadeUpTo
  <2>2. QED
    BY <2>1
<1> HIDE DEF made
<1>5. Making(made, m, object, n)
  <2>1. \A k \in 1 .. n : made[k] = MadeStep(made, k)
    BY <1>4
  <2>2. \A k \in 2 .. n : k \in 1 .. n /\ k # 1
    BY <1>1
  <2>3. made[1] = Started(m, object)
    BY <1>1, <2>1
  <2>4. \A k \in 2 .. n :
          made[k] = IF ~made[k - 1].ok THEN made[k - 1]
                    ELSE json_value_init(made[k - 1], Block("object", <<>>))
    BY <2>1, <2>2
  <2>5. QED
    BY <2>3, <2>4 DEF Making
<1>6. setTo = Nat
  <2>1. 0 \in setTo
    <3> DEFINE f == [k \in 0 .. 0 |-> SetStep(<<>>, 0)]
    <3>1. SetStep(f, 0) = SetStep(<<>>, 0)
      BY <1>1
    <3> HIDE DEF SetStep
    <3>2. f[0] = SetStep(f, 0)
      BY <3>1
    <3>3. f = [k \in 0 .. 0 |-> SetStep(f, k)]
      BY <3>2
    <3>4. SetUpTo(f, 0)
      BY <3>3
    <3>5. QED
      BY <3>4
  <2>2. ASSUME NEW q \in setTo PROVE q + 1 \in setTo
    <3>1. PICK f : SetUpTo(f, q)
      OBVIOUS
    <3> DEFINE g == [k \in 0 .. q + 1 |-> IF k = q + 1 THEN SetStep(f, q + 1) ELSE f[k]]
    <3>2. q \in Nat /\ q + 1 \in Nat /\ q + 1 \in 0 .. q + 1
          /\ (\A k \in 0 .. q + 1 : k # q + 1 => k \in 0 .. q)
          /\ (\A k \in 0 .. q : k \in 0 .. q + 1 /\ k # q + 1)
          /\ (\A k \in 0 .. q + 1 : k # 0 => k - 1 \in 0 .. q)
      OBVIOUS
    <3>3. \A k \in 0 .. q : f[k] = SetStep(f, k)
      BY <3>1
    <3> HIDE DEF SetStep
    <3>4. (\A k \in 0 .. q : g[k] = f[k]) /\ g[q + 1] = SetStep(f, q + 1)
      BY <3>2
    <3>5. g = [k \in 0 .. q + 1 |-> g[k]]
      OBVIOUS
    <3> HIDE DEF g
    <3>6. \A k \in 0 .. q + 1 : SetStep(g, k) = SetStep(f, k)
      <4>1. SUFFICES ASSUME NEW k \in 0 .. q + 1 PROVE SetStep(g, k) = SetStep(f, k)
        OBVIOUS
      <4>2. k # 0 => g[k - 1] = f[k - 1]
        BY <3>2, <3>4
      <4>3. CASE k = 0
        BY <4>3 DEF SetStep
      <4>4. CASE k # 0
        BY <4>2, <4>4, Zenon DEF SetStep
      <4>5. QED
        BY <4>3, <4>4
    <3>7. \A k \in 0 .. q + 1 : g[k] = SetStep(g, k)
      BY <3>2, <3>3, <3>4, <3>6
    <3>8. SetUpTo(g, q + 1)
      BY <3>5, <3>7
    <3> HIDE DEF SetUpTo
    <3>9. QED
      BY <3>2, <3>8
  <2>3. setTo \in SUBSET Nat
    OBVIOUS
  <2> HIDE DEF setTo
  <2>4. QED
    BY <2>1, <2>2, <2>3, SetInduction
<1>7. SetUpTo(set, n - 1)
  <2>1. \E g : SetUpTo(g, n - 1)
    BY <1>1, <1>6
  <2> HIDE DEF SetUpTo
  <2>2. QED
    BY <2>1
<1> HIDE DEF set
<1>8. Setting(set, made, path, v)
  <2>1. \A k \in 0 .. n - 1 : set[k] = SetStep(set, k)
    BY <1>7
  <2>2. set[0] = PutFirst(made, path, v)
    <3>1. set[0] = SetStep(set, 0)
      BY <1>1, <2>1
    <3>2. QED
      BY <1>1, <3>1 DEF PutFirst
  <2>3. ASSUME NEW k \in 1 .. n - 1 PROVE set[k] = Put(set[k - 1], made, path, v, n - k)
    <3>1. k \in 0 .. n - 1 /\ k # 0
      OBVIOUS
    <3>2. set[k] = SetStep(set, k)
      BY <2>1, <3>1
    <3>3. SetStep(set, k) = Put(set[k - 1], made, path, v, n - k)
      BY <3>1, Zenon DEF Put
    <3>4. QED
      BY <3>2, <3>3
  <2>4. QED
    BY <2>2, <2>3 DEF Setting
<1>9. QED
  BY <1>2, <1>5, <1>8

LEMMA FineStarted ==
  ASSUME NEW m, NEW R, NEW T, Fine(m, R, T), NEW object \in Nodes
  PROVE  LET r == Started(m, object)
         IN  Fine(r, R, T) /\ r.heap = m.heap /\ r.ok = TRUE /\ r.got = object
<1> DEFINE o == TRUE
           a == [m EXCEPT !.got = object]
           r == Started(m, object)
           s == [heap |-> m.heap, fuel |-> m.fuel, twice |-> m.twice, got |-> object, ok |-> o]
<1>1. m \in Memories /\ Good(m.heap, R, T) /\ m.twice = FALSE
  BY DEF Fine
<1>2. a = [heap |-> m.heap, fuel |-> m.fuel, twice |-> m.twice, got |-> object, ok |-> m.ok]
  BY <1>1, MemoryParts
<1>3. r = [a EXCEPT !.ok = o]
  BY DEF Started
<1>4. o \in BOOLEAN
  OBVIOUS
<1> HIDE DEF a, r, o
<1>5. r = s
  BY <1>2, <1>3
<1>6. s \in Memories
  BY <1>1, <1>4, MemoryParts, MakeMemory
<1>7. s.heap = m.heap /\ s.twice = m.twice /\ s.got = object /\ s.ok = o
  OBVIOUS
<1> HIDE DEF s
<1>8. Fine(r, R, T) /\ r.heap = m.heap /\ r.ok = o /\ r.got = object
  BY <1>1, <1>5, <1>6, <1>7 DEF Fine
<1>9. QED
  BY <1>8, Zenon DEF r, o

\* The objects that have been made and are in no other yet, when all but the
\* first k have been put into each other.
Spare(made, k) == {made[i].got : i \in {j \in 2 .. k : made[j].ok}}

LEMMA SpareNext ==
  ASSUME NEW made, NEW k \in Nat \ {0}
  PROVE  /\ Spare(made, 1) = {}
         /\ Spare(made, k + 1) = IF made[k + 1].ok THEN Spare(made, k) \cup {made[k + 1].got}
                                 ELSE Spare(made, k)
<1>1. Spare(made, 1) = {}
  BY DEF Spare
<1>2. \A j : j \in 2 .. k + 1 <=> j \in 2 .. k \/ j = k + 1
  OBVIOUS
<1>3. CASE made[k + 1].ok
  <2>1. \A x : x \in Spare(made, k + 1) <=> x \in Spare(made, k) \/ x = made[k + 1].got
    BY <1>2, <1>3, Zenon DEF Spare
  <2>2. QED
    BY <1>1, <1>3, <2>1
<1>4. CASE ~made[k + 1].ok
  <2>1. \A x : x \in Spare(made, k + 1) <=> x \in Spare(made, k)
    BY <1>2, <1>4, Zenon DEF Spare
  <2>2. QED
    BY <1>1, <1>4, <2>1
<1>5. QED
  BY <1>3, <1>4

\* The memory once k - 1 objects have been made, or have been asked for.
MadeWell(made, m, R, T, k) ==
    /\ made[k].ok \in BOOLEAN
    /\ Fine(made[k], R \cup Spare(made, k), T)
    /\ LiveIn(made[k].heap) = LiveIn(m.heap) \cup Spare(made, k)
    /\ \A n \in LiveIn(m.heap) : made[k].heap[n] = m.heap[n]
    /\ \A n \in Spare(made, k) : n \notin LiveIn(m.heap) /\ made[k].heap[n] = Block("object", <<>>)
    /\ k # 1 /\ made[k].ok => made[k - 1].ok /\ made[k].got \notin Spare(made, k - 1)

LEMMA MadeObjects ==
  ASSUME NEW m, NEW R, NEW T, Fine(m, R, T), NEW object \in Nodes, NEW n \in Nat \ {0},
         NEW made, Making(made, m, object, n), NEW k \in 1 .. n
  PROVE  MadeWell(made, m, R, T, k)
<1> DEFINE new == Block("object", <<>>)
           S == {q \in Nat : q + 1 <= n => MadeWell(made, m, R, T, q + 1)}
<1>1. /\ made[1] = Started(m, object)
      /\ \A q \in 2 .. n : made[q] = IF ~made[q - 1].ok THEN made[q - 1]
                                     ELSE json_value_init(made[q - 1], new)
  BY DEF Making
<1>2. IsNew(new)
  <2>1. <<>> \in Seq(STRING) /\ "object" \in Types
    BY DEF Types
  <2>2. QED
    BY <2>1, BlockIsNew
<1> HIDE DEF new
<1>3. MadeWell(made, m, R, T, 1)
  <2>1. Spare(made, 1) = {}
    BY SpareNext
  <2>2. Fine(made[1], R, T) /\ made[1].heap = m.heap
    <3>1. Fine(Started(m, object), R, T)
      BY FineStarted
    <3>2. Started(m, object).heap = m.heap
      BY FineStarted
    <3>3. QED
      BY <1>1, <3>1, <3>2
  <2>3. made[1].ok \in BOOLEAN
    BY <2>2, MemoryParts DEF Fine
  <2>4. R \cup {} = R
    OBVIOUS
  <2>5. QED
    BY <2>1, <2>2, <2>3, <2>4 DEF MadeWell
<1>4. ASSUME NEW q \in Nat \ {0}, q + 1 <= n, MadeWell(made, m, R, T, q)
      PROVE  MadeWell(made, m, R, T, q + 1)
  <2> DEFINE X == Spare(made, q)
             Y == Spare(made, q + 1)
             p == made[q]
             r == made[q + 1]
  <2>1. q + 1 \in 2 .. n /\ (q + 1) - 1 = q /\ q + 1 # 1
    BY <1>4
  <2>2. r = IF ~p.ok THEN p ELSE json_value_init(p, new)
    BY <1>1, <2>1
  <2>3. Y = IF r.ok THEN X \cup {r.got} ELSE X
    BY SpareNext
  <2>4. /\ p.ok \in BOOLEAN /\ Fine(p, R \cup X, T)
        /\ LiveIn(p.heap) = LiveIn(m.heap) \cup X
        /\ \A x \in LiveIn(m.heap) : p.heap[x] = m.heap[x]
        /\ \A x \in X : x \notin LiveIn(m.heap) /\ p.heap[x] = new
    BY <1>4 DEF MadeWell, new
  <2> HIDE DEF X, Y, p, r
  <2>5. CASE ~p.ok
    <3>1. r = p /\ Y = X
      BY <2>2, <2>3, <2>5
    <3>2. /\ r.ok \in BOOLEAN /\ Fine(r, R \cup Y, T) /\ ~r.ok
          /\ LiveIn(r.heap) = LiveIn(m.heap) \cup Y
          /\ \A x \in LiveIn(m.heap) : r.heap[x] = m.heap[x]
          /\ \A x \in Y : x \notin LiveIn(m.heap) /\ r.heap[x] = new
      BY <2>4, <2>5, <3>1
    <3>3. QED
      BY <3>2 DEF MadeWell, new, Y, r
  <2>6. CASE p.ok
    <3>1. r = json_value_init(p, new)
      BY <2>2, <2>6
    <3>2. /\ r.ok \in BOOLEAN
          /\ r.ok => /\ r.got \in Nodes \ LiveIn(p.heap)
                     /\ Fine(r, (R \cup X) \cup {r.got}, T)
                     /\ LiveIn(r.heap) = LiveIn(p.heap) \cup {r.got}
                     /\ r.heap[r.got] = new
                     /\ \A x \in Nodes \ {r.got} : r.heap[x] = p.heap[x]
          /\ ~r.ok => Fine(r, R \cup X, T) /\ r.heap = p.heap
      BY <1>2, <2>4, <3>1, FineInit
    <3>3. CASE ~r.ok
      <4>1. Y = X /\ r.heap = p.heap /\ Fine(r, R \cup X, T)
        BY <2>3, <3>2, <3>3
      <4>2. /\ r.ok \in BOOLEAN /\ Fine(r, R \cup Y, T)
            /\ LiveIn(r.heap) = LiveIn(m.heap) \cup Y
            /\ \A x \in LiveIn(m.heap) : r.heap[x] = m.heap[x]
            /\ \A x \in Y : x \notin LiveIn(m.heap) /\ r.heap[x] = new
        BY <2>4, <3>2, <4>1
      <4>3. QED
        BY <3>3, <4>2 DEF MadeWell, new, Y, r
    <3>4. CASE r.ok
      <4>1. Y = X \cup {r.got} /\ (R \cup X) \cup {r.got} = R \cup Y
        BY <2>3, <3>4
      <4>2. /\ r.got \in Nodes \ LiveIn(p.heap)
            /\ Fine(r, (R \cup X) \cup {r.got}, T)
            /\ LiveIn(r.heap) = LiveIn(p.heap) \cup {r.got}
            /\ r.heap[r.got] = new
            /\ \A x \in Nodes \ {r.got} : r.heap[x] = p.heap[x]
        BY <3>2, <3>4
      <4>3. Fine(r, R \cup Y, T)
        BY <4>1, <4>2
      <4>4. LiveIn(r.heap) = LiveIn(m.heap) \cup Y
        BY <2>4, <4>1, <4>2
      <4>5. \A x \in LiveIn(m.heap) \cup X : x \in Nodes \ {r.got} /\ r.heap[x] = p.heap[x]
        <5>1. LiveIn(p.heap) \subseteq Nodes
          BY DEF LiveIn
        <5>2. QED
          BY <2>4, <4>2, <5>1
      <4>6. \A x \in LiveIn(m.heap) : r.heap[x] = m.heap[x]
        BY <2>4, <4>5
      <4>7. \A x \in Y : x \notin LiveIn(m.heap) /\ r.heap[x] = new
        BY <2>4, <4>1, <4>2, <4>5
      <4>8. r.got \notin X
        BY <2>4, <4>2
      <4> HIDE DEF new
      <4>9. /\ made[q + 1].ok \in BOOLEAN
            /\ Fine(made[q + 1], R \cup Spare(made, q + 1), T)
            /\ LiveIn(made[q + 1].heap) = LiveIn(m.heap) \cup Spare(made, q + 1)
            /\ \A x \in LiveIn(m.heap) : made[q + 1].heap[x] = m.heap[x]
            /\ \A x \in Spare(made, q + 1) :
                  x \notin LiveIn(m.heap) /\ made[q + 1].heap[x] = Block("object", <<>>)
        BY <3>2, <4>3, <4>4, <4>6, <4>7 DEF new, Y, r
      <4>10. made[(q + 1) - 1].ok /\ made[q + 1].got \notin Spare(made, (q + 1) - 1)
        BY <2>1, <2>6, <4>8 DEF p, X, r
      <4>11. QED
        BY <4>9, <4>10 DEF MadeWell
    <3>5. QED
      BY <3>2, <3>3, <3>4
  <2>7. QED
    BY <2>4, <2>5, <2>6
<1>5. S = Nat
  <2>1. 0 \in S
    BY <1>3
  <2>2. ASSUME NEW q \in S PROVE q + 1 \in S
    <3>1. q + 1 \in Nat \ {0}
      OBVIOUS
    <3>2. SUFFICES ASSUME (q + 1) + 1 <= n PROVE MadeWell(made, m, R, T, (q + 1) + 1)
      BY <3>1
    <3>3. q + 1 <= n
      BY <3>2
    <3>4. QED
      BY <1>4, <3>1, <3>2, <3>3
  <2>3. S \in SUBSET Nat
    OBVIOUS
  <2> HIDE DEF S
  <2>4. QED
    BY <2>1, <2>2, <2>3, SetInduction
<1>6. k - 1 \in Nat /\ (k - 1) + 1 = k /\ k <= n
  OBVIOUS
<1>7. k - 1 \in S
  BY <1>5, <1>6
<1>8. QED
  BY <1>6, <1>7

LEMMA FineLoosen ==
  ASSUME NEW m, NEW R, NEW T, Fine(m, R, T), NEW v
  PROVE  Fine(m, R, T \cup {v})
BY DEF Fine, Good, Loose

\* The values of h are as they were in g, their parents excepted, and the
\* values of X are empty objects.
Apart(h, g, X) ==
    /\ LiveIn(h) \cup X \subseteq LiveIn(g)
    /\ \A n \in LiveIn(h) :
          /\ g[n].type = h[n].type /\ g[n].names = h[n].names
          /\ g[n].items = h[n].items /\ g[n].text = h[n].text
    /\ \A x \in X : g[x].type = "object" /\ g[x].names = <<>> /\ g[x].items = <<>>

\* What setting has come to: v has been taken over, or all are left.
Outcome(r, R, T, X, v) ==
    /\ r.ok \in BOOLEAN
    /\ r.ok => v \in R /\ Fine(r, (R \ {v}) \cup X, T)
    /\ ~r.ok => Fine(r, R \cup X, T \cup {v})

\* The container c of h has got one more item, and the rest is as it was.
Grown(g, h, c, name, x) ==
    /\ LiveIn(h) \subseteq LiveIn(g) /\ c \in LiveIn(h)
    /\ SameBut(g, h, c)
    /\ g[c].type = h[c].type /\ g[c].text = h[c].text
    /\ g[c].names = Append(h[c].names, name) /\ g[c].items = Append(h[c].items, x)

\* The objects made for the names from j on hold one another, and the last v.
Holds(h, a, name, x) ==
    a \in LiveIn(h) /\ h[a].type = "object" /\ h[a].names = <<name>> /\ h[a].items = <<x>>

Linked(h, made, path, v, j) ==
    \A i \in j .. Len(path) :
        /\ made[i].ok
        /\ Holds(h, made[i].got, path[i], IF i = Len(path) THEN v ELSE made[i + 1].got)

Progress(r, made, m, R, T, path, v, j) ==
    /\ Outcome(r, R, T, Spare(made, j), v)
    /\ ~r.ok => Apart(m.heap, r.heap, Spare(made, j))
    /\ r.ok /\ j # 1 => /\ Apart(m.heap, r.heap, Spare(made, j - 1))
                        /\ Linked(r.heap, made, path, v, j)
    /\ r.ok /\ j = 1 => /\ Grown(r.heap, m.heap, made[1].got, path[1], made[2].got)
                        /\ Linked(r.heap, made, path, v, 2)

Ready(made, m, R, T, object, path, v) ==
    /\ Fine(m, R, T) /\ object \in LiveIn(m.heap) /\ m.heap[object].type = "object"
    /\ path \in Seq(Seq(STRING)) /\ Len(path) \in Nat /\ Len(path) >= 2
    /\ v \in LiveIn(m.heap) /\ (v \in R => object \notin Below(m.heap, v))
    /\ made[1].ok = TRUE /\ made[1].got = object
    /\ \A k \in 1 .. Len(path) : MadeWell(made, m, R, T, k)

LEMMA MadeApart ==
  ASSUME NEW made, NEW m, NEW R, NEW T, NEW k, MadeWell(made, m, R, T, k)
  PROVE  Apart(m.heap, made[k].heap, Spare(made, k))
<1> DEFINE new == Block("object", <<>>)
           X == Spare(made, k)
           g == made[k].heap
<1>1. new.type = "object" /\ new.names = <<>> /\ new.items = <<>>
  BY DEF Block
<1>2. /\ LiveIn(g) = LiveIn(m.heap) \cup X
      /\ \A n \in LiveIn(m.heap) : g[n] = m.heap[n]
      /\ \A n \in X : g[n] = new
  BY DEF MadeWell
<1> HIDE DEF new, X, g
<1>3. Apart(m.heap, g, X)
  BY <1>1, <1>2 DEF Apart
<1>4. QED
  BY <1>3 DEF X, g

\* An object that could not be made ends it.
LEMMA NotMade ==
  ASSUME NEW made, NEW m, NEW R, NEW T, NEW object, NEW path, NEW v,
         Ready(made, m, R, T, object, path, v), NEW k \in 2 .. Len(path), ~made[k].ok
  PROVE  /\ Progress(made[k], made, m, R, T, path, v, k)
         /\ made[k - 1].ok => Progress(made[k], made, m, R, T, path, v, k - 1)
<1> DEFINE r == made[k]
           X == Spare(made, k)
<1>1. MadeWell(made, m, R, T, k) /\ k \in Nat /\ k - 1 \in Nat \ {0} /\ (k - 1) + 1 = k /\ k # 1
  BY DEF Ready
<1>2. Apart(m.heap, r.heap, X)
  BY <1>1, MadeApart
<1>3. Spare(made, (k - 1) + 1) = IF made[(k - 1) + 1].ok
                                 THEN Spare(made, k - 1) \cup {made[(k - 1) + 1].got}
                                 ELSE Spare(made, k - 1)
  BY <1>1, SpareNext
<1>4. Spare(made, k - 1) = X
  BY <1>1, <1>3
<1>5. r.ok \in BOOLEAN /\ Fine(r, R \cup X, T) /\ ~r.ok
  BY <1>1 DEF MadeWell
<1> HIDE DEF X, r
<1>6. Fine(r, R \cup X, T \cup {v})
  BY <1>5, FineLoosen
<1>7. Outcome(r, R, T, X, v)
  BY <1>5, <1>6 DEF Outcome
<1>8. Progress(r, made, m, R, T, path, v, k)
  BY <1>1, <1>2, <1>5, <1>7 DEF Progress, X
<1>9. Progress(r, made, m, R, T, path, v, k - 1)
  BY <1>2, <1>4, <1>5, <1>7 DEF Progress
<1>10. QED
  BY <1>8, <1>9 DEF r

\* The objects are new, and different from each other.
LEMMA MadeApartFrom ==
  ASSUME NEW made, NEW m, NEW R, NEW T, NEW object, NEW path, NEW v,
         Ready(made, m, R, T, object, path, v), NEW i \in 2 .. Len(path), made[i].ok,
         NEW j \in Nat, j < i
  PROVE  /\ made[i].got \in Spare(made, i) /\ made[i].got \notin Spare(made, j)
         /\ made[i].got \in Nodes \ LiveIn(m.heap)
<1>1. /\ MadeWell(made, m, R, T, i) /\ i \in Nat /\ i # 1
      /\ \A k : k \in 2 .. j => k \in 2 .. i - 1
  BY DEF Ready
<1>2. made[i].got \in Spare(made, i)
  <2>1. i \in 2 .. i
    BY <1>1
  <2>2. QED
    BY <2>1 DEF Spare
<1>3. made[i].got \notin Spare(made, i - 1) /\ made[i].got \notin LiveIn(m.heap)
      /\ LiveIn(made[i].heap) = LiveIn(m.heap) \cup Spare(made, i)
  BY <1>1, <1>2 DEF MadeWell
<1>4. Spare(made, j) \subseteq Spare(made, i - 1)
  BY <1>1, Zenon DEF Spare
<1>5. made[i].got \in Nodes
  BY <1>2, <1>3 DEF LiveIn
<1>6. QED
  BY <1>2, <1>3, <1>4, <1>5

LEMMA HoldsNamed ==
  ASSUME NEW h, NEW a, NEW name, NEW x, Holds(h, a, name, x)
  PROVE  json_object_getn_value(h, a, name) = x /\ Kids(h, a) = {x}
<1> DEFINE at == {i \in DOMAIN h[a].names : h[a].names[i] = name}
<1>1. a \in LiveIn(h) /\ h[a].names = <<name>> /\ h[a].items = <<x>>
  BY DEF Holds
<1>2. at = {1}
  <2>1. DOMAIN <<name>> = {1} /\ <<name>>[1] = name
    OBVIOUS
  <2>2. QED
    BY <1>1, <2>1
<1>3. IndexOf(h, a, name) = CHOOSE i \in at : \A k \in at : i <= k
  BY <1>2, Zenon DEF IndexOf
<1>4. IndexOf(h, a, name) = 1
  <2> HIDE DEF at
  <2>1. \E i \in at : \A k \in at : i <= k
    BY <1>2
  <2>2. (CHOOSE i \in at : \A k \in at : i <= k) \in at
    BY <2>1
  <2>3. QED
    BY <1>2, <1>3, <2>2
<1>5. <<x>>[1] = x /\ ToSet(<<x>>) = {x}
  BY DEF ToSet
<1>6. Kids(h, a) = {x}
  BY <1>1, <1>5 DEF Kids, LiveIn
<1>7. QED
  BY <1>1, <1>4, <1>5, <1>6 DEF json_object_getn_value

\* The way from one of the objects leads to the last, and to v.
Chain(made, j, n) == {made[i].got : i \in j .. n}

\* Of what is not in S, S leads only to v.
OnlyTo(h, S, v) == \A x \in S : Kids(h, x) \subseteq S \cup {v}

LEMMA LinkedWay ==
  ASSUME NEW made, NEW path \in Seq(Seq(STRING)), NEW v, NEW h, NEW R, Sound(h), Forest(h, R),
         NEW j \in 1 .. Len(path), Linked(h, made, path, v, j)
  PROVE  LET n == Len(path)
             rest == SubSeq(path, j, n)
             S == Chain(made, j, n)
         IN  /\ AtEnd(h, made[j].got, rest, made[n].got, v) /\ Len(rest) \in Nat \ {0}
             /\ made[j].got \in LiveIn(h) /\ h[made[j].got].type = "object"
             /\ made[n].got \in LiveIn(h) /\ v \in Kids(h, made[n].got)
             /\ S \in SUBSET Nodes /\ made[j].got \in S
             /\ OnlyTo(h, S, v)
<1> DEFINE n == Len(path)
           rest == SubSeq(path, j, n)
           N == Len(rest)
           next(i) == IF i = n THEN v ELSE made[i + 1].got
           S == {made[i].got : i \in j .. n}
           at == Way(h, made[j].got, rest)
           led == {k \in Nat : k + 1 <= N => at[k + 1] = made[j + k].got}
<1>1. n \in Nat /\ j \in Nat /\ j <= n /\ 1 <= j /\ j \in j .. n /\ n \in j .. n
  OBVIOUS
<1>2. \A i \in j .. n : Holds(h, made[i].got, path[i], next(i))
  BY DEF Linked
<1>3. \A i \in j .. n : /\ made[i].got \in LiveIn(h) /\ made[i].got \in Nodes
                        /\ h[made[i].got].type = "object"
                        /\ json_object_getn_value(h, made[i].got, path[i]) = next(i)
                        /\ Kids(h, made[i].got) = {next(i)}
  <2>1. SUFFICES ASSUME NEW i \in j .. n
                 PROVE  /\ made[i].got \in LiveIn(h) /\ made[i].got \in Nodes
                        /\ h[made[i].got].type = "object"
                        /\ json_object_getn_value(h, made[i].got, path[i]) = next(i)
                        /\ Kids(h, made[i].got) = {next(i)}
    OBVIOUS
  <2>2. Holds(h, made[i].got, path[i], next(i))
    BY <1>2
  <2> HIDE DEF next
  <2>3. made[i].got \in LiveIn(h) /\ h[made[i].got].type = "object"
    BY <2>2 DEF Holds
  <2>4. made[i].got \in Nodes
    BY <2>3 DEF LiveIn
  <2>5. /\ json_object_getn_value(h, made[i].got, path[i]) = next(i)
        /\ Kids(h, made[i].got) = {next(i)}
    BY <2>2, HoldsNamed
  <2>6. QED
    BY <2>3, <2>4, <2>5
<1>4. N = n - j + 1 /\ \A k \in 1 .. N : rest[k] = path[j + k - 1]
  <2>1. \A s \in Seq(Seq(STRING)), a, b \in Nat : a >= 1 /\ a <= b /\ b <= Len(s) =>
            /\ Len(SubSeq(s, a, b)) = b - a + 1
            /\ \A k \in 1 .. b - a + 1 : SubSeq(s, a, b)[k] = s[a + k - 1]
    OBVIOUS
  <2>2. QED
    BY <1>1, <2>1
<1> HIDE DEF rest, n
<1>5. N \in Nat \ {0} /\ j + N - 1 = n
  BY <1>1, <1>4
<1> HIDE DEF N
<1>6. /\ at[1] = made[j].got
      /\ \A k \in 2 .. N :
           at[k] = IF at[k - 1] = NULL THEN NULL
                   ELSE LET w == json_object_getn_value(h, at[k - 1], rest[k - 1])
                        IN  IF w = NULL THEN NULL ELSE IF h[w].type # "object" THEN NULL ELSE w
  BY <1>1, <1>3, <1>5, WayParts DEF N
<1> HIDE DEF at
<1>7. led = Nat
  <2>1. 0 \in led
    BY <1>1, <1>6
  <2>2. ASSUME NEW k \in led PROVE k + 1 \in led
    <3>1. k + 1 \in Nat /\ (k + 1) + 1 \in Nat
      OBVIOUS
    <3>2. SUFFICES ASSUME (k + 1) + 1 <= N PROVE at[(k + 1) + 1] = made[j + (k + 1)].got
      BY <3>1
    <3>3. /\ (k + 1) + 1 \in 2 .. N /\ ((k + 1) + 1) - 1 = k + 1 /\ k + 1 <= N /\ k + 1 \in 1 .. N
          /\ j + (k + 1) - 1 = j + k /\ j + k \in j .. n /\ (j + k) + 1 = j + (k + 1)
          /\ j + (k + 1) \in j .. n /\ j + k # n
      BY <1>1, <1>5, <3>1, <3>2
    <3>4. at[k + 1] = made[j + k].got
      BY <2>2, <3>3
    <3>5. rest[k + 1] = path[j + k]
      BY <1>4, <3>3
    <3>6. json_object_getn_value(h, made[j + k].got, path[j + k]) = made[j + (k + 1)].got
      BY <1>3, <3>3
    <3>7. made[j + k].got # NULL /\ made[j + (k + 1)].got # NULL
          /\ h[made[j + (k + 1)].got].type = "object"
      BY <1>3, <3>3, PointersAssumption
    <3>8. at[(k + 1) + 1] =
             IF at[k + 1] = NULL THEN NULL
             ELSE LET w == json_object_getn_value(h, at[k + 1], rest[k + 1])
                  IN  IF w = NULL THEN NULL ELSE IF h[w].type # "object" THEN NULL ELSE w
      BY <1>6, <3>3
    <3>9. QED
      BY <3>4, <3>5, <3>6, <3>7, <3>8
  <2>3. led \in SUBSET Nat
    OBVIOUS
  <2> HIDE DEF led
  <2>4. QED
    BY <2>1, <2>2, <2>3, SetInduction
<1>8. at[N] = made[n].got
  <2>1. N - 1 \in Nat /\ (N - 1) + 1 = N /\ N <= N /\ j + (N - 1) = n
    BY <1>1, <1>5
  <2>2. N - 1 \in led
    BY <1>7, <2>1
  <2>3. QED
    BY <2>1, <2>2
<1>9. rest[N] = path[n] /\ json_object_getn_value(h, made[n].got, path[n]) = v
      /\ v \in Kids(h, made[n].got)
  <2>1. N \in 1 .. N
    BY <1>5
  <2>2. QED
    BY <1>1, <1>3, <1>4, <1>5, <2>1
<1>10. AtEnd(h, made[j].got, rest, made[n].got, v)
  BY <1>8, <1>9 DEF AtEnd, at, N
<1>11. S \in SUBSET Nodes /\ made[j].got \in S
  BY <1>1, <1>3
<1>12. \A x \in S : Kids(h, x) \subseteq S \cup {v}
  <2>1. SUFFICES ASSUME NEW i \in j .. n PROVE Kids(h, made[i].got) \subseteq S \cup {v}
    OBVIOUS
  <2>2. i # n => i + 1 \in j .. n
    BY <1>1
  <2>3. next(i) \in S \cup {v}
    BY <2>2
  <2>4. Kids(h, made[i].got) = {next(i)}
    BY <1>3
  <2> HIDE DEF next, S
  <2>5. QED
    BY <2>3, <2>4
<1>13. QED
  BY <1>1, <1>3, <1>5, <1>9, <1>10, <1>11, <1>12 DEF n, rest, N, Chain, OnlyTo

\* The empty object c takes x over.
LEMMA TakenApart ==
  ASSUME NEW h0, NEW h, Sound(h), NEW X, NEW c \in Nodes, Apart(h0, h, X \cup {c}),
         c \notin LiveIn(h0), c \notin X, NEW x \in LiveIn(h), x # c, NEW name \in Seq(STRING)
  PROVE  LET g == Taken(h, c, <<name>>, <<x>>, x)
         IN  /\ Apart(h0, g, X) /\ c \in LiveIn(g) /\ Holds(g, c, name, x)
             /\ \A a, p, y : Holds(h, a, p, y) /\ a # c => Holds(g, a, p, y)
<1> DEFINE g == Taken(h, c, <<name>>, <<x>>, x)
<1>1. /\ LiveIn(h0) \cup X \subseteq LiveIn(h) /\ c \in LiveIn(h)
      /\ h[c].type = "object" /\ h[c].names = <<>> /\ h[c].items = <<>>
      /\ LiveIn(h) \subseteq Nodes
  BY DEF Apart, LiveIn
<1>2. Fits("object", <<name>>, <<x>>)
  <2>1. x \in Nodes
    BY <1>1
  <2>2. <<name>> \in Seq(Seq(STRING)) /\ Len(<<name>>) = 1 /\ Distinct(<<name>>)
    BY DEF Distinct
  <2>3. <<x>> \in Seq(Nodes) /\ Len(<<x>>) = 1 /\ Distinct(<<x>>)
    BY <2>1 DEF Distinct
  <2>4. QED
    BY <2>2, <2>3 DEF Fits
<1> DEFINE names == <<name>>
           items == <<x>>
<1> HIDE DEF names, items
<1>3. /\ LiveIn(g) = LiveIn(h) /\ SameBut(g, h, c)
      /\ g[c].type = h[c].type /\ g[c].names = names /\ g[c].items = items
  <2>1. Fits(h[c].type, names, items)
    BY <1>1, <1>2 DEF names, items
  <2>2. g = Taken(h, c, names, items, x)
    BY DEF names, items
  <2>3. c \in LiveIn(h) /\ x \in LiveIn(h) /\ x # c /\ Sound(h)
    BY <1>1
  <2> DEFINE k == Taken(h, c, names, items, x)
  <2>4. SameBut(k, h, c)
    BY <2>1, <2>3, TakenSame
  <2>5. LiveIn(k) = LiveIn(h) /\ k[c].type = h[c].type /\ k[c].names = names
        /\ k[c].items = items
    BY <2>1, <2>3, TakenFields
  <2> HIDE DEF g, k
  <2>6. g = k
    BY <2>2 DEF k
  <2>7. QED
    BY <2>4, <2>5, <2>6
<1> HIDE DEF g
<1>4. \A n \in LiveIn(h) \ {c} :
         /\ g[n].type = h[n].type /\ g[n].names = h[n].names
         /\ g[n].items = h[n].items /\ g[n].text = h[n].text
  BY <1>3 DEF SameBut
<1>5. Holds(g, c, name, x)
  BY <1>1, <1>3 DEF Holds, names, items
<1>6. \A a, p, y : Holds(h, a, p, y) /\ a # c => Holds(g, a, p, y)
  BY <1>3, <1>4 DEF Holds
<1>7. Apart(h0, g, X)
  <2>1. LiveIn(h0) \cup X \subseteq LiveIn(g)
    BY <1>1, <1>3
  <2>2. ASSUME NEW n \in LiveIn(h0)
        PROVE  /\ g[n].type = h0[n].type /\ g[n].names = h0[n].names
               /\ g[n].items = h0[n].items /\ g[n].text = h0[n].text
    <3>1. n \in LiveIn(h) \ {c}
      BY <1>1
    <3>2. /\ h[n].type = h0[n].type /\ h[n].names = h0[n].names
          /\ h[n].items = h0[n].items /\ h[n].text = h0[n].text
      BY DEF Apart
    <3>3. QED
      BY <1>4, <3>1, <3>2
  <2>3. ASSUME NEW n \in X PROVE g[n].type = "object" /\ g[n].names = <<>> /\ g[n].items = <<>>
    <3>1. n \in LiveIn(h) \ {c}
      BY <1>1
    <3>2. h[n].type = "object" /\ h[n].names = <<>> /\ h[n].items = <<>>
      BY DEF Apart
    <3>3. QED
      BY <1>4, <3>1, <3>2
  <2>4. QED
    BY <2>1, <2>2, <2>3 DEF Apart
<1>8. QED
  BY <1>1, <1>3, <1>5, <1>6, <1>7 DEF g

\* The value is set in the last object.
LEMMA FirstPut ==
  ASSUME NEW made, NEW m, NEW R, NEW T, NEW object, NEW path, NEW v,
         Ready(made, m, R, T, object, path, v)
  PROVE  Progress(PutFirst(made, path, v), made, m, R, T, path, v, Len(path))
<1> DEFINE n == Len(path)
           r == PutFirst(made, path, v)
           p == made[n]
           c == p.got
           X == Spare(made, n)
           Y == Spare(made, n - 1)
<1>1. /\ Fine(m, R, T) /\ path \in Seq(Seq(STRING)) /\ n \in Nat /\ n >= 2 /\ v \in LiveIn(m.heap)
      /\ MadeWell(made, m, R, T, n)
  BY DEF Ready
<1>2. n \in 2 .. n /\ n \in 1 .. n /\ n - 1 \in Nat \ {0} /\ (n - 1) + 1 = n /\ n - 1 < n /\ n # 1
  <2> HIDE DEF n
  <2>1. QED
    BY <1>1
<1>3. CASE ~p.ok
  <2>1. r = made[n]
    BY <1>3 DEF PutFirst
  <2>2. QED
    BY <1>2, <1>3, <2>1, NotMade
<1>4. CASE p.ok
  <2>1. r = json_object_set_value(p, c, path[n], v)
    BY <1>4 DEF PutFirst
  <2>2. path[n] \in Seq(STRING)
    BY <1>1, <1>2, ElementOfSeq
  <2>3. c \in X /\ c \notin Y /\ c \in Nodes \ LiveIn(m.heap)
    BY <1>2, <1>4, MadeApartFrom
  <2>4. X = Y \cup {c}
    BY <1>2, <1>4, SpareNext
  <2>5. /\ Fine(p, R \cup X, T) /\ LiveIn(p.heap) = LiveIn(m.heap) \cup X
        /\ \A x \in LiveIn(m.heap) : p.heap[x] = m.heap[x]
        /\ \A x \in X : x \notin LiveIn(m.heap)
    BY <1>1 DEF MadeWell
  <2>6. Apart(m.heap, p.heap, X)
    BY <1>1, MadeApart
  <2> HIDE DEF n, r, p, c, X, Y
  <2>7. c \in LiveIn(p.heap) /\ p.heap[c].type = "object" /\ p.heap[c].names = <<>>
        /\ v \in LiveIn(p.heap) /\ v # c
    BY <1>1, <2>3, <2>5, <2>6 DEF Apart
  <2>8. Sound(m.heap) /\ Forest(m.heap, R) /\ Sound(p.heap) /\ Forest(p.heap, R \cup X)
    BY <1>1, <2>5 DEF Fine, Good
  <2>9. c \notin Below(p.heap, v)
    <3>1. Below(m.heap, v) \subseteq LiveIn(m.heap) /\ v \in Nodes
      BY <1>1, <2>8, BelowParent DEF LiveIn
    <3>2. \A x \in Below(m.heap, v) : Kids(p.heap, x) = Kids(m.heap, x)
      BY <2>5, <3>1 DEF Kids
    <3>3. Below(p.heap, v) = Below(m.heap, v)
      BY <2>8, <3>1, <3>2, SameBelow
    <3>4. QED
      BY <2>3, <3>1, <3>3
  <2>10. /\ Moved(r, R \cup X, T, v) /\ r.ok \in BOOLEAN /\ (~r.ok => r.heap = p.heap)
         /\ r.ok => r.heap = Taken(p.heap, c, <<path[n]>>, <<v>>, v)
    BY <2>1, <2>2, <2>5, <2>7, <2>9, FineObjectSet
  <2>11. CASE ~r.ok
    <3>1. Fine(r, R \cup X, T) /\ r.heap = p.heap
      BY <2>10, <2>11 DEF Moved
    <3>2. Fine(r, R \cup X, T \cup {v})
      BY <3>1, FineLoosen
    <3>3. Outcome(r, R, T, X, v) /\ Apart(m.heap, r.heap, X)
      BY <2>6, <2>10, <2>11, <3>1, <3>2 DEF Outcome
    <3>4. QED
      BY <2>11, <3>3 DEF Progress, n, r, X
  <2>12. CASE r.ok
    <3>1. v \in R \cup X /\ Fine(r, (R \cup X) \ {v}, T)
          /\ r.heap = Taken(p.heap, c, <<path[n]>>, <<v>>, v)
      BY <2>10, <2>12 DEF Moved
    <3>2. v \in R /\ v \notin X
      BY <1>1, <2>5, <3>1
    <3>3. (R \cup X) \ {v} = (R \ {v}) \cup X
      BY <3>2
    <3>4. Outcome(r, R, T, X, v)
      BY <2>10, <2>12, <3>1, <3>2, <3>3 DEF Outcome
    <3>5. Apart(m.heap, r.heap, Y) /\ Holds(r.heap, c, path[n], v)
      BY <2>2, <2>3, <2>4, <2>6, <2>7, <2>8, <3>1, TakenApart
    <3>6. Linked(r.heap, made, path, v, n)
      <4>1. \A i \in n .. n : i = n
        BY <1>1
      <4>2. QED
        BY <1>4, <3>5, <4>1 DEF Linked, n, p, c
    <3>7. QED
      BY <1>2, <2>12, <3>4, <3>5, <3>6 DEF Progress, n, r, X, Y
  <2>13. QED
    BY <2>10, <2>11, <2>12
<1>5. QED
  BY <1>3, <1>4

\* The object made for the name after the j-th.
LEMMA NextMade ==
  ASSUME NEW made, NEW m, NEW R, NEW T, NEW object, NEW path, NEW v,
         Ready(made, m, R, T, object, path, v), NEW j \in 1 .. Len(path) - 1, made[j + 1].ok
  PROVE  LET new == made[j + 1].got
         IN  /\ Spare(made, j + 1) = Spare(made, j) \cup {new}
             /\ new \notin Spare(made, j) /\ new \in Nodes \ LiveIn(m.heap) /\ new \notin R
<1> DEFINE n == Len(path)
           new == made[j + 1].got
<1>1. /\ n \in Nat /\ n >= 2 /\ Fine(m, R, T)
  BY DEF Ready
<1>2. j \in Nat \ {0} /\ j \in Nat /\ j + 1 \in 2 .. n /\ j < j + 1
  <2>1. j \in 1 .. n - 1
    OBVIOUS
  <2> HIDE DEF n
  <2>2. QED
    BY <1>1, <2>1
<1>3. Spare(made, j + 1) = Spare(made, j) \cup {new}
  BY <1>2, SpareNext
<1>4. new \notin Spare(made, j) /\ new \in Nodes \ LiveIn(m.heap)
  BY <1>2, MadeApartFrom
<1>5. R \subseteq LiveIn(m.heap)
  BY <1>1 DEF Fine, Good, Forest
<1>6. QED
  BY <1>3, <1>4, <1>5

\* A value without items, by itself.
LEMMA BelowEmpty ==
  ASSUME NEW h, NEW v \in Nodes, Sound(h), h[v].items = <<>>
  PROVE  Below(h, v) = {v}
<1>1. Kids(h, v) = {}
  <2>1. ToSet(<<>>) = {}
    BY DEF ToSet
  <2>2. QED
    BY <2>1 DEF Kids
<1>2. Closed(h, {v}) /\ {v} \in SUBSET Nodes /\ v \in {v}
  BY <1>1 DEF Closed
<1>3. QED
  BY <1>2, BelowLeast

\* Setting the next name has failed: the object made for it is freed.
LEMMA PutFree ==
  ASSUME NEW made, NEW m, NEW R, NEW T, NEW object, NEW path, NEW v,
         Ready(made, m, R, T, object, path, v), NEW j \in 1 .. Len(path) - 1, made[j + 1].ok,
         NEW inner, Progress(inner, made, m, R, T, path, v, j + 1), ~inner.ok
  PROVE  Progress(Failure(json_value_free(inner, made[j + 1].got)), made, m, R, T, path, v, j)
<1> DEFINE new == made[j + 1].got
           X == Spare(made, j)
           Y == Spare(made, j + 1)
           f == json_value_free(inner, new)
           r == Failure(f)
<1>1. Y = X \cup {new} /\ new \notin X /\ new \in Nodes /\ new \notin LiveIn(m.heap) /\ new \notin R
  BY NextMade
<1>2. Fine(inner, R \cup Y, T \cup {v})
  BY DEF Progress, Outcome
<1>3. Apart(m.heap, inner.heap, Y)
  BY DEF Progress
<1> HIDE DEF new, X, Y
<1>4. inner.heap[new].items = <<>> /\ new \in Y
  BY <1>1, <1>3 DEF Apart
<1>5. Sound(inner.heap)
  BY <1>2 DEF Fine, Good
<1>6. Below(inner.heap, new) = {new}
  BY <1>1, <1>4, <1>5, BelowEmpty
<1>7. new \in R \cup Y
  BY <1>4
<1>8. /\ Fine(f, (R \cup Y) \ {new}, T \cup {v})
      /\ f.heap = Unallocated(inner.heap, {new})
  BY <1>2, <1>6, <1>7, FineFree
<1>9. (R \cup Y) \ {new} = R \cup X
  BY <1>1
<1> DEFINE g == Unallocated(inner.heap, {new})
<1>10. {new} \in SUBSET Nodes
  BY <1>1
<1>11. /\ LiveIn(g) = LiveIn(inner.heap) \ {new}
       /\ \A n \in LiveIn(g) :
             /\ g[n].type = inner.heap[n].type /\ g[n].names = inner.heap[n].names
             /\ g[n].items = inner.heap[n].items /\ g[n].text = inner.heap[n].text
  BY <1>5, <1>10, UnallocatedHeap
<1>12. /\ Fine(r, R \cup X, T \cup {v}) /\ r.heap = g /\ r.ok = FALSE
  BY <1>8, <1>9, FineFailure
<1> HIDE DEF g, f, r
<1>13. Apart(m.heap, g, X)
  BY <1>1, <1>3, <1>11 DEF Apart
<1>14. Outcome(r, R, T, X, v)
  BY <1>12 DEF Outcome
<1>15. Progress(r, made, m, R, T, path, v, j)
  BY <1>12, <1>13, <1>14 DEF Progress, X
<1>16. QED
  BY <1>15 DEF r, f, new

IsObject(h, a) == a \in LiveIn(h) /\ h[a].type = "object"

\* The objects made for the names after the j-th, all linked.
LEMMA LinkedApart ==
  ASSUME NEW made, NEW m, NEW R, NEW T, NEW object, NEW path, NEW v,
         Ready(made, m, R, T, object, path, v), NEW j \in 1 .. Len(path) - 1,
         NEW inner, Progress(inner, made, m, R, T, path, v, j + 1), inner.ok
  PROVE  LET n == Len(path)
             new == made[j + 1].got
             rest == SubSeq(path, j + 1, n)
             S == Chain(made, j + 1, n)
         IN  /\ Fine(inner, (R \ {v}) \cup Spare(made, j + 1), T) /\ v \in R
             /\ AtEnd(inner.heap, new, rest, made[n].got, v) /\ Len(rest) \in Nat \ {0}
             /\ IsObject(inner.heap, new)
             /\ made[n].got \in LiveIn(inner.heap) /\ v \in Kids(inner.heap, made[n].got)
             /\ S \in SUBSET Nodes /\ new \in S
             /\ OnlyTo(inner.heap, S, v)
             /\ \A x \in S : x \notin LiveIn(m.heap) /\ x \notin Spare(made, j)
             /\ Apart(m.heap, inner.heap, Spare(made, j))
             /\ Linked(inner.heap, made, path, v, j + 1)
<1> DEFINE n == Len(path)
           R2 == (R \ {v}) \cup Spare(made, j + 1)
<1>1. path \in Seq(Seq(STRING)) /\ n \in Nat /\ n >= 2
  BY DEF Ready
<1>2. j + 1 \in 1 .. n /\ j + 1 # 1 /\ (j + 1) - 1 = j /\ j \in Nat
  <2>1. j \in 1 .. n - 1
    OBVIOUS
  <2> HIDE DEF n
  <2>2. QED
    BY <1>1, <2>1
<1>3. /\ Fine(inner, R2, T) /\ v \in R
  BY DEF Progress, Outcome
<1>4. /\ Apart(m.heap, inner.heap, Spare(made, j)) /\ Linked(inner.heap, made, path, v, j + 1)
  <2>1. Apart(m.heap, inner.heap, Spare(made, (j + 1) - 1))
        /\ Linked(inner.heap, made, path, v, j + 1)
    BY <1>2 DEF Progress
  <2>2. QED
    BY <1>2, <2>1
<1>5. Sound(inner.heap) /\ Forest(inner.heap, R2)
  BY <1>3 DEF Fine, Good
<1> DEFINE new == made[j + 1].got
           rest == SubSeq(path, j + 1, n)
           S == Chain(made, j + 1, n)
<1>6. /\ AtEnd(inner.heap, new, rest, made[n].got, v) /\ Len(rest) \in Nat \ {0}
      /\ new \in LiveIn(inner.heap) /\ inner.heap[new].type = "object"
      /\ made[n].got \in LiveIn(inner.heap) /\ v \in Kids(inner.heap, made[n].got)
      /\ S \in SUBSET Nodes /\ new \in S
      /\ OnlyTo(inner.heap, S, v)
  <2> DEFINE k == j + 1
             h == inner.heap
  <2>1. /\ path \in Seq(Seq(STRING)) /\ Sound(h) /\ Forest(h, R2)
        /\ k \in 1 .. Len(path) /\ Linked(h, made, path, v, k)
    BY <1>1, <1>2, <1>4, <1>5
  <2> HIDE DEF k, h, R2
  <2>2. LET new2 == made[k].got
            rest2 == SubSeq(path, k, Len(path))
            S2 == Chain(made, k, Len(path))
        IN  /\ AtEnd(h, new2, rest2, made[Len(path)].got, v) /\ Len(rest2) \in Nat \ {0}
            /\ new2 \in LiveIn(h) /\ h[new2].type = "object"
            /\ made[Len(path)].got \in LiveIn(h) /\ v \in Kids(h, made[Len(path)].got)
            /\ S2 \in SUBSET Nodes /\ new2 \in S2
            /\ OnlyTo(h, S2, v)
    BY <2>1, LinkedWay
  <2>3. QED
    BY <2>2 DEF k, h
<1>7. ASSUME NEW i \in j + 1 .. n
      PROVE  made[i].got \notin LiveIn(m.heap) /\ made[i].got \notin Spare(made, j)
  <2>1. made[i].ok
    BY <1>4 DEF Linked
  <2>2. i \in 2 .. n /\ j < i
    <3> HIDE DEF n
    <3>1. QED
      BY <1>1, <1>2
  <2>3. QED
    BY <1>2, <2>1, <2>2, MadeApartFrom
<1>8. \A x \in S : x \notin LiveIn(m.heap) /\ x \notin Spare(made, j)
  BY <1>7 DEF Chain
<1>9. QED
  BY <1>3, <1>4, <1>6, <1>8 DEF R2, IsObject

SameHeap(p, q) == p.heap = q.heap

\* The name or its item has failed: the objects are freed, and v is let go.
LEMMA PutGiveUp ==
  ASSUME NEW made, NEW m, NEW R, NEW T, NEW object, NEW path, NEW v,
         Ready(made, m, R, T, object, path, v), NEW j \in 1 .. Len(path) - 1, made[j + 1].ok,
         NEW inner, Progress(inner, made, m, R, T, path, v, j + 1), inner.ok,
         NEW p, Fine(p, (R \ {v}) \cup Spare(made, j + 1), T), SameHeap(p, inner)
  PROVE  Progress(GiveUp(p, made[j + 1].got, SubSeq(path, j + 1, Len(path))),
                  made, m, R, T, path, v, j)
<1> DEFINE n == Len(path)
           new == made[j + 1].got
           rest == SubSeq(path, j + 1, n)
           S == Chain(made, j + 1, n)
           X == Spare(made, j)
           Y == Spare(made, j + 1)
           R2 == (R \ {v}) \cup Y
           c == made[n].got
           r == GiveUp(p, new, rest)
           h == p.heap
<1> DEFINE k == inner.heap
<1>13. /\ v \in R
       /\ AtEnd(k, new, rest, c, v) /\ Len(rest) \in Nat \ {0}
       /\ k[new].type = "object" /\ c \in LiveIn(k) /\ v \in Kids(k, c)
       /\ S \in SUBSET Nodes /\ new \in S
       /\ OnlyTo(k, S, v)
       /\ \A x \in S : x \notin LiveIn(m.heap) /\ x \notin X
       /\ Apart(m.heap, k, X)
  <2>1. v \in R
    BY LinkedApart
  <2>2. AtEnd(k, new, rest, c, v)
    BY LinkedApart
  <2>3. Len(rest) \in Nat \ {0}
    BY LinkedApart
  <2>12. IsObject(k, new)
    BY LinkedApart
  <2>4. k[new].type = "object"
    BY <2>12 DEF IsObject
  <2>10. c \in LiveIn(k)
    BY LinkedApart
  <2>11. v \in Kids(k, c)
    BY LinkedApart
  <2>5. S \in SUBSET Nodes /\ new \in S
    BY LinkedApart
  <2>6. OnlyTo(k, S, v)
    BY LinkedApart
  <2>7. \A x \in S : x \notin LiveIn(m.heap) /\ x \notin X
    BY LinkedApart
  <2>8. Apart(m.heap, k, X)
    BY LinkedApart
  <2>9. QED
    BY <2>1, <2>2, <2>3, <2>4, <2>5, <2>6, <2>7, <2>8, <2>10, <2>11
<1>1. /\ v \in R
      /\ AtEnd(h, new, rest, c, v) /\ Len(rest) \in Nat \ {0}
      /\ h[new].type = "object" /\ c \in LiveIn(h) /\ v \in Kids(h, c)
      /\ S \in SUBSET Nodes /\ new \in S
      /\ OnlyTo(h, S, v)
      /\ \A x \in S : x \notin LiveIn(m.heap) /\ x \notin X
      /\ Apart(m.heap, h, X)
  <2>1. h = k
    BY DEF SameHeap
  <2> HIDE DEF h, k, S, X, new, rest, c
  <2>2. QED
    BY <1>13, <2>1
<1>2. Y = X \cup {new} /\ new \notin X /\ new \notin R
  BY NextMade
<1>3. Fine(p, R2, T)
  OBVIOUS
<1>4. new \in R2
  BY <1>2
<1> HIDE DEF S, X, Y, R2, new, rest, c, h
<1>5. /\ Fine(r, (R2 \ {new}) \cup {v}, T \cup {v}) /\ r.ok = FALSE
      /\ GivenUp(r.heap, h, new, v)
  BY <1>1, <1>3, <1>4, FineGiveUp DEF h
<1> HIDE DEF r
<1>6. (R2 \ {new}) \cup {v} = R \cup X
  BY <1>1, <1>2 DEF R2
<1>7. Outcome(r, R, T, X, v)
  BY <1>5, <1>6 DEF Outcome
<1>8. PICK B \in SUBSET Nodes :
         /\ Without(r.heap, h, B)
         /\ \A U \in SUBSET Nodes :
               new \in U /\ (\A n2 \in U : Kids(h, n2) \ {v} \subseteq U) => B \subseteq U
  BY <1>5 DEF GivenUp
<1>9. B \subseteq S
  <2>1. \A n2 \in S : Kids(h, n2) \ {v} \subseteq S
    BY <1>1 DEF OnlyTo
  <2>2. QED
    BY <1>1, <1>8, <2>1
<1>10. Apart(m.heap, r.heap, X)
  BY <1>1, <1>8, <1>9 DEF Apart, Without
<1>11. Progress(r, made, m, R, T, path, v, j)
  BY <1>5, <1>7, <1>10 DEF Progress, X
<1>12. QED
  BY <1>11 DEF r, new, rest

\* A value stays where it is below what S leads to, and no more.
LEMMA BelowChain ==
  ASSUME NEW h0, NEW h, Sound(h0), Sound(h), NEW X, Apart(h0, h, X), NEW v \in Nodes,
         Below(h0, v) \subseteq LiveIn(h0), NEW S \in SUBSET Nodes, NEW new \in S, OnlyTo(h, S, v)
  PROVE  Below(h, new) \subseteq S \cup Below(h0, v)
<1> DEFINE U == S \cup Below(h0, v)
<1>1. Below(h0, v) \in SUBSET Nodes /\ v \in Below(h0, v) /\ Closed(h0, Below(h0, v))
  BY BelowLeast
<1>2. ASSUME NEW n \in Below(h0, v) PROVE Kids(h, n) \subseteq U
  <2>1. n \in LiveIn(h0) /\ n \in LiveIn(h) /\ h[n].items = h0[n].items
    BY DEF Apart
  <2>2. Kids(h, n) = Kids(h0, n)
    BY <2>1 DEF Kids, LiveIn
  <2>3. QED
    BY <1>1, <2>2 DEF Closed
<1>3. ASSUME NEW n \in S PROVE Kids(h, n) \subseteq U
  BY <1>1 DEF OnlyTo
<1>4. U \in SUBSET Nodes /\ new \in U /\ Closed(h, U)
  BY <1>1, <1>2, <1>3 DEF Closed
<1> HIDE DEF U
<1>5. new \in Nodes
  OBVIOUS
<1>6. Below(h, new) \subseteq U
  BY <1>4, <1>5, BelowLeast
<1>7. QED
  BY <1>6 DEF U

\* The object that is to hold the j-th name.
LEMMA HolderMade ==
  ASSUME NEW made, NEW m, NEW R, NEW T, NEW object, NEW path, NEW v,
         Ready(made, m, R, T, object, path, v), NEW j \in 1 .. Len(path) - 1, made[j].ok,
         NEW h, Apart(m.heap, h, Spare(made, j))
  PROVE  LET c == made[j].got
         IN  /\ IsObject(h, c) /\ path[j] \in Seq(STRING)
             /\ j = 1 => c = object
             /\ j # 1 => /\ c \notin LiveIn(m.heap) /\ c \in Nodes
                         /\ Spare(made, j) = Spare(made, j - 1) \cup {c}
                         /\ c \in Spare(made, j) /\ c \notin Spare(made, j - 1)
<1> DEFINE n == Len(path)
           c == made[j].got
<1>1. /\ n \in Nat /\ n >= 2 /\ path \in Seq(Seq(STRING)) /\ made[1].got = object
      /\ object \in LiveIn(m.heap) /\ m.heap[object].type = "object"
  BY DEF Ready
<1>2. j \in Nat \ {0} /\ j \in 1 .. n /\ (j # 1 => j \in 2 .. n /\ j - 1 \in Nat \ {0} /\ j - 1 < j
                                                   /\ j - 1 \in Nat /\ (j - 1) + 1 = j)
  <2>1. j \in 1 .. n - 1
    OBVIOUS
  <2> HIDE DEF n
  <2>2. QED
    BY <1>1, <2>1
<1>3. path[j] \in Seq(STRING)
  BY <1>1, <1>2, ElementOfSeq
<1>4. CASE j = 1
  <2>1. c = object
    BY <1>1, <1>4
  <2>2. c \in LiveIn(h) /\ h[c].type = "object"
    BY <1>1, <2>1 DEF Apart
  <2>3. QED
    BY <1>3, <1>4, <2>1, <2>2 DEF IsObject
<1>5. CASE j # 1
  <2>1. c \in Spare(made, j) /\ c \notin Spare(made, j - 1) /\ c \in Nodes \ LiveIn(m.heap)
    BY <1>2, <1>5, MadeApartFrom
  <2>2. Spare(made, (j - 1) + 1) = IF made[(j - 1) + 1].ok
                                  THEN Spare(made, j - 1) \cup {made[(j - 1) + 1].got}
                                  ELSE Spare(made, j - 1)
    BY <1>2, <1>5, SpareNext
  <2>3. Spare(made, j) = Spare(made, j - 1) \cup {c}
    BY <1>2, <1>5, <2>2
  <2>4. c \in LiveIn(h) /\ h[c].type = "object"
    BY <2>1 DEF Apart
  <2>5. QED
    BY <1>3, <1>5, <2>1, <2>3, <2>4 DEF IsObject
<1>6. QED
  BY <1>4, <1>5

\* The object made for a name is added to the one before it.
LEMMA PutAdd ==
  ASSUME NEW made, NEW m, NEW R, NEW T, NEW object, NEW path, NEW v,
         Ready(made, m, R, T, object, path, v), NEW j \in 1 .. Len(path) - 1,
         made[j].ok, made[j + 1].ok,
         NEW inner, Progress(inner, made, m, R, T, path, v, j + 1), inner.ok,
         NEW p, Fine(p, (R \ {v}) \cup Spare(made, j + 1), T), SameHeap(p, inner)
  PROVE  LET a == json_object_add(p, made[j].got, path[j], made[j + 1].got)
         IN  /\ a.ok \in BOOLEAN
             /\ a.ok => Progress(a, made, m, R, T, path, v, j)
             /\ ~a.ok => Fine(a, (R \ {v}) \cup Spare(made, j + 1), T) /\ SameHeap(a, inner)
<1> DEFINE n == Len(path)
           new == made[j + 1].got
           c == made[j].got
           name == path[j]
           rest == SubSeq(path, j + 1, n)
           S == Chain(made, j + 1, n)
           X == Spare(made, j)
           Y == Spare(made, j + 1)
           R2 == (R \ {v}) \cup Y
           a == json_object_add(p, c, name, new)
           h == p.heap
           k == inner.heap
<1>1. h = k
  BY DEF SameHeap
<1>2. v \in R /\ S \in SUBSET Nodes /\ new \in S
  <2>1. v \in R
    BY LinkedApart
  <2>2. S \in SUBSET Nodes /\ new \in S
    BY LinkedApart
  <2>3. QED
    BY <2>1, <2>2
<1>3. OnlyTo(k, S, v)
  BY LinkedApart
<1>4. \A x \in S : x \notin LiveIn(m.heap) /\ x \notin X
  BY LinkedApart
<1>5. Apart(m.heap, k, X)
  BY LinkedApart
<1>6. Linked(k, made, path, v, j + 1)
  BY LinkedApart
<1>7. Y = X \cup {new} /\ new \notin X /\ new \notin R /\ new \in Nodes
  BY NextMade
<1>8. /\ IsObject(k, c) /\ name \in Seq(STRING)
      /\ j = 1 => c = object
      /\ j # 1 => /\ c \notin LiveIn(m.heap) /\ c \in Nodes
                  /\ X = Spare(made, j - 1) \cup {c}
                  /\ c \in X /\ c \notin Spare(made, j - 1)
  BY <1>5, HolderMade
<1>9. /\ Fine(m, R, T) /\ v \in LiveIn(m.heap) /\ v \in Nodes /\ object \notin Below(m.heap, v)
      /\ object \in LiveIn(m.heap)
  BY <1>2 DEF Ready, LiveIn
<1>10. Fine(p, R2, T)
  OBVIOUS
<1>15. n \in Nat /\ j \in 1 .. n - 1 /\ made[j].ok
  BY DEF Ready
<1> HIDE DEF S, X, Y, R2, new, rest, c, name, h, k, a, n
<1>11. Sound(h) /\ Sound(k) /\ Sound(m.heap) /\ Forest(m.heap, R)
  BY <1>1, <1>9, <1>10 DEF Fine, Good, h
<1>12. Below(m.heap, v) \subseteq LiveIn(m.heap)
  BY <1>9, <1>11, BelowParent
<1>13. Below(k, new) \subseteq S \cup Below(m.heap, v)
  BY <1>2, <1>3, <1>5, <1>9, <1>11, <1>12, BelowChain
<1>14. c \notin Below(h, new)
  BY <1>1, <1>4, <1>8, <1>9, <1>12, <1>13
<1>16. new \in R2 /\ c \in LiveIn(h) /\ h[c].type = "object"
  BY <1>1, <1>7, <1>8 DEF R2, IsObject
<1>17. /\ Moved(a, R2, T, new) /\ a.ok \in BOOLEAN /\ (~a.ok => a.heap = h)
       /\ (a.ok => a.heap = Taken(h, c, Append(h[c].names, name), Append(h[c].items, new), new))
  BY <1>8, <1>10, <1>14, <1>16, FineObjectAdd DEF h, a
<1>18. ~a.ok => Fine(a, R2, T) /\ SameHeap(a, inner)
  BY <1>1, <1>17 DEF Moved, SameHeap, k
<1>19. ASSUME a.ok PROVE Progress(a, made, m, R, T, path, v, j)
  <2>1. Fine(a, R2 \ {new}, T)
    BY <1>17, <1>19 DEF Moved
  <2>2. R2 \ {new} = (R \ {v}) \cup X
    BY <1>7 DEF R2
  <2>3. Outcome(a, R, T, X, v)
    BY <1>2, <1>17, <1>19, <2>1, <2>2 DEF Outcome
  <2>4. ASSUME j # 1
        PROVE  Apart(m.heap, a.heap, Spare(made, j - 1)) /\ Linked(a.heap, made, path, v, j)
    <3> DEFINE Z == Spare(made, j - 1)
               g == Taken(h, c, <<name>>, <<new>>, new)
    <3>1. h[c].names = <<>> /\ h[c].items = <<>> /\ new \in LiveIn(h) /\ new # c
      <4>1. h[c].names = <<>> /\ h[c].items = <<>>
        BY <1>1, <1>5, <1>8, <2>4 DEF Apart
      <4>2. Forest(h, R2)
        BY <1>10 DEF Fine, Good, h
      <4>3. new \in LiveIn(h)
        BY <1>16, <4>2 DEF Forest
      <4>4. QED
        BY <1>7, <1>8, <2>4, <4>1, <4>3
    <3>2. Append(h[c].names, name) = <<name>> /\ Append(h[c].items, new) = <<new>>
      <4>1. Append(<<>>, name) = <<name>> /\ Append(<<>>, new) = <<new>>
        OBVIOUS
      <4>2. QED
        BY <3>1, <4>1
    <3>3. a.heap = g
      BY <1>17, <1>19, <3>2
    <3> HIDE DEF Z
    <3>4. Apart(m.heap, h, Z \cup {c})
      BY <1>1, <1>5, <1>8, <2>4 DEF Z
    <3>5. c \notin Z /\ c \notin LiveIn(m.heap) /\ c \in Nodes
      BY <1>8, <2>4 DEF Z
    <3>6. /\ Apart(m.heap, g, Z) /\ Holds(g, c, name, new)
          /\ \A b, q, y : Holds(h, b, q, y) /\ b # c => Holds(g, b, q, y)
      BY <1>8, <1>11, <3>1, <3>4, <3>5, TakenApart
    <3> HIDE DEF g
    <3>7. ASSUME NEW i \in j .. n
          PROVE  made[i].ok /\ Holds(g, made[i].got, path[i], IF i = n THEN v ELSE made[i + 1].got)
      <4>1. CASE i = j
        <5>1. j # n
          BY <1>15
        <5>2. QED
          BY <1>15, <3>6, <4>1, <5>1 DEF c, name, new
      <4>2. CASE i # j
        <5>1. i \in j + 1 .. n
          BY <1>15, <4>2
        <5>2. /\ made[i].ok
              /\ Holds(k, made[i].got, path[i], IF i = n THEN v ELSE made[i + 1].got)
          BY <1>6, <5>1 DEF Linked, n
        <5>3. made[i].got \in S
          BY <5>1 DEF S, Chain
        <5>4. made[i].got # c
          BY <1>4, <1>8, <2>4, <5>3
        <5>5. QED
          BY <1>1, <3>6, <5>2, <5>4
      <4>3. QED
        BY <4>1, <4>2
    <3>8. Linked(g, made, path, v, j)
      BY <3>7 DEF Linked, n
    <3>9. QED
      BY <3>3, <3>6, <3>8 DEF Z
  <2>5. ASSUME j = 1
        PROVE  Grown(a.heap, m.heap, c, name, new) /\ Linked(a.heap, made, path, v, 2)
    <3> DEFINE names == Append(h[c].names, name)
               items == Append(h[c].items, new)
               g == Taken(h, c, names, items, new)
    <3>1. Good(h, R2, T)
      BY <1>10 DEF Fine, h
    <3>2. Fits(h[c].type, names, items)
      <4>1. IndexOf(h, c, name) = 0
        <5>1. a.ok => IndexOf(h, c, name) = 0
          <6>1. ASSUME IndexOf(h, c, name) # 0
                PROVE  ~a.ok
            <7>1. a = Failure(p)
              BY <6>1 DEF json_object_add, a, h
            <7>2. QED
              BY <7>1, FineFailure
          <6>2. QED
            BY <6>1
        <5>2. QED
          BY <1>19, <5>1
      <4>2. QED
        BY <1>8, <1>16, <3>1, <4>1, FitsMore DEF IsObject
    <3>3. /\ c = object /\ c \in LiveIn(m.heap) /\ new \notin LiveIn(m.heap) /\ new # c
          /\ new \in LiveIn(h)
      <4>1. c = object /\ new \notin LiveIn(m.heap)
        BY <1>2, <1>4, <1>8, <2>5
      <4>2. new \in LiveIn(h)
        BY <1>16, <3>1 DEF Good, Forest
      <4>3. QED
        BY <1>9, <4>1, <4>2
    <3>4. /\ Apart(m.heap, h, X) /\ m.heap[c].names = h[c].names
          /\ m.heap[c].items = h[c].items
      BY <1>1, <1>5, <3>3 DEF Apart
    <3> HIDE DEF names, items
    <3>5. SameBut(g, h, c)
      BY <1>11, <1>16, <3>2, <3>3, TakenSame
    <3>6. /\ LiveIn(g) = LiveIn(h) /\ g[c].type = h[c].type /\ g[c].text = h[c].text
          /\ g[c].names = names /\ g[c].items = items
      BY <1>11, <1>16, <3>2, <3>3, TakenHeap
    <3>7. a.heap = g
      BY <1>17, <1>19 DEF names, items
    <3> HIDE DEF g
    <3>8. SameBut(g, m.heap, c)
      BY <3>4, <3>5 DEF SameBut, Apart
    <3>9. Grown(g, m.heap, c, name, new)
      BY <3>3, <3>4, <3>6, <3>8 DEF Grown, Apart, names, items
    <3>10. ASSUME NEW i \in 2 .. n
           PROVE  made[i].ok /\ Holds(g, made[i].got, path[i], IF i = n THEN v ELSE made[i + 1].got)
      <4>1. i \in j + 1 .. n
        BY <1>15, <2>5
      <4>2. /\ made[i].ok
            /\ Holds(h, made[i].got, path[i], IF i = n THEN v ELSE made[i + 1].got)
        BY <1>1, <1>6, <4>1 DEF Linked, n
      <4>3. made[i].got \in S
        BY <4>1 DEF S, Chain
      <4>4. made[i].got # c
        BY <1>4, <3>3, <4>3
      <4>5. QED
        BY <3>5, <3>6, <4>2, <4>4 DEF Holds, SameBut
    <3>11. Linked(g, made, path, v, 2)
      BY <3>10 DEF Linked, n
    <3>12. QED
      BY <3>7, <3>9, <3>11
  <2>6. j = 1 => c = made[1].got /\ name = path[1] /\ new = made[2].got
    BY DEF c, name, new
  <2>7. QED
    BY <1>19, <2>3, <2>4, <2>5, <2>6 DEF Progress, X
<1>20. QED
  BY <1>17, <1>18, <1>19 DEF a, c, name, new, R2, Y

\* One more name is set.
LEMMA NextPut ==
  ASSUME NEW made, NEW m, NEW R, NEW T, NEW object, NEW path, NEW v,
         Ready(made, m, R, T, object, path, v), NEW j \in 1 .. Len(path) - 1,
         NEW inner, Progress(inner, made, m, R, T, path, v, j + 1)
  PROVE  Progress(Put(inner, made, path, v, j), made, m, R, T, path, v, j)
<1> DEFINE n == Len(path)
           new == made[j + 1].got
           rest == SubSeq(path, j + 1, n)
           named == Malloc(inner)
           added == json_object_add(named, made[j].got, path[j], new)
           r == Put(inner, made, path, v, j)
           R2 == (R \ {v}) \cup Spare(made, j + 1)
<1>1. /\ r = IF ~made[j].ok THEN made[j]
             ELSE IF ~made[j + 1].ok THEN made[j + 1]
             ELSE IF ~inner.ok THEN Failure(json_value_free(inner, new))
             ELSE IF ~named.ok THEN GiveUp(inner, new, rest)
             ELSE IF ~added.ok THEN GiveUp(named, new, rest)
             ELSE added
  BY DEF Put
<1>2. /\ n \in Nat /\ made[1].ok = TRUE
  BY DEF Ready
<1>3. j \in 1 .. n /\ j + 1 \in 2 .. n /\ (j + 1) - 1 = j /\ (j # 1 => j \in 2 .. n)
  <2>1. j \in 1 .. n - 1
    OBVIOUS
  <2> HIDE DEF n
  <2>2. QED
    BY <1>2, <2>1
<1>4. CASE ~made[j].ok
  <2>1. j \in 2 .. Len(path)
    BY <1>2, <1>3, <1>4
  <2>2. Progress(made[j], made, m, R, T, path, v, j)
    BY <1>4, <2>1, NotMade
  <2>3. r = made[j]
    BY <1>1, <1>4
  <2>4. QED
    BY <2>2, <2>3
<1>5. CASE made[j].ok /\ ~made[j + 1].ok
  <2>1. made[(j + 1) - 1].ok => Progress(made[j + 1], made, m, R, T, path, v, (j + 1) - 1)
    BY <1>3, <1>5, NotMade
  <2>2. Progress(made[j + 1], made, m, R, T, path, v, j)
    BY <1>3, <1>5, <2>1
  <2>3. r = made[j + 1]
    BY <1>1, <1>5
  <2>4. QED
    BY <2>2, <2>3
<1>6. CASE made[j].ok /\ made[j + 1].ok /\ ~inner.ok
  <2>1. Progress(Failure(json_value_free(inner, made[j + 1].got)), made, m, R, T, path, v, j)
    BY <1>6, PutFree
  <2>2. r = Failure(json_value_free(inner, new))
    BY <1>1, <1>6
  <2>3. QED
    BY <2>1, <2>2
<1>7. CASE made[j].ok /\ made[j + 1].ok /\ inner.ok
  <2>1. Fine(inner, R2, T)
    BY <1>7 DEF Progress, Outcome
  <2>2. Fine(named, R2, T) /\ named.heap = inner.heap
    BY <2>1, FineMalloc
  <2>3. SameHeap(inner, inner) /\ SameHeap(named, inner)
    BY <2>2 DEF SameHeap
  <2> HIDE DEF named
  <2>4. CASE ~named.ok
    <3>1. Progress(GiveUp(inner, made[j + 1].got, SubSeq(path, j + 1, Len(path))),
                   made, m, R, T, path, v, j)
      BY <1>7, <2>1, <2>3, PutGiveUp
    <3>2. r = GiveUp(inner, new, rest)
      BY <1>1, <1>7, <2>4
    <3>3. QED
      BY <3>1, <3>2
  <2>5. CASE named.ok
    <3>1. added.ok \in BOOLEAN
      BY <1>7, <2>2, <2>3, PutAdd
    <3>2. added.ok => Progress(added, made, m, R, T, path, v, j)
      BY <1>7, <2>2, <2>3, PutAdd
    <3>3. ~added.ok => Fine(added, R2, T) /\ SameHeap(added, inner)
      BY <1>7, <2>2, <2>3, PutAdd
    <3> HIDE DEF added
    <3>4. CASE added.ok
      <4>1. r = added
        BY <1>1, <1>7, <2>5, <3>4 DEF added
      <4>2. QED
        BY <3>2, <3>4, <4>1
    <3>5. CASE ~added.ok
      <4>1. Progress(GiveUp(named, made[j + 1].got, SubSeq(path, j + 1, Len(path))),
                     made, m, R, T, path, v, j)
        BY <1>7, <2>2, <2>3, PutGiveUp
      <4>2. r = GiveUp(named, new, rest)
        BY <1>1, <1>7, <2>5, <3>5 DEF added
      <4>3. QED
        BY <4>1, <4>2
    <3>6. QED
      BY <3>4, <3>5
  <2>6. QED
    BY <2>4, <2>5
<1>8. QED
  BY <1>4, <1>5, <1>6, <1>7

\* The object c of h has got, under the first name, the first of the objects
\* made for the other names, and the last of them holds v.
Grafted(g, h, c, path, v) ==
    \E w :
        /\ w[1] = c /\ w[Len(path) + 1] = v
        /\ Grown(g, h, c, path[1], w[2])
        /\ \A i \in 2 .. Len(path) : Holds(g, w[i], path[i], w[i + 1])

\* Setting more than one name in an object that has not the first: the value
\* is taken over, or stays with the caller, perhaps with a parent that is free.
LEMMA FineSetMaking ==
  ASSUME NEW m, NEW R, NEW T, Fine(m, R, T), NEW o \in LiveIn(m.heap), m.heap[o].type = "object",
         NEW path \in Seq(Seq(STRING)), Len(path) >= 2,
         NEW v \in LiveIn(m.heap), v \in R => o \notin Below(m.heap, v)
  PROVE  LET r == SetMaking(m, o, path, v)
         IN  /\ Outcome(r, R, T, {}, v)
             /\ r.ok => Grafted(r.heap, m.heap, o, path, v)
             /\ ~r.ok => Apart(m.heap, r.heap, {})
<1> DEFINE n == Len(path)
<1>1. n \in Nat /\ n >= 2 /\ n \in Nat \ {0} /\ n - 1 \in Nat /\ n - (n - 1) = 1 /\ 1 \in 1 .. n
  OBVIOUS
<1>2. PICK made, set : /\ Making(made, m, o, n)
                       /\ Setting(set, made, path, v)
                       /\ SetMaking(m, o, path, v) = set[n - 1]
  BY <1>1, SetMakingParts
<1>3. o \in Nodes
  BY DEF LiveIn
<1>4. \A k \in 1 .. n : MadeWell(made, m, R, T, k)
  BY <1>1, <1>2, <1>3, MadeObjects
<1>5. made[1].ok = TRUE /\ made[1].got = o
  <2>1. made[1] = Started(m, o)
    BY <1>2 DEF Making
  <2>2. QED
    BY <1>3, <2>1, FineStarted
<1>6. Ready(made, m, R, T, o, path, v)
  BY <1>1, <1>4, <1>5 DEF Ready
<1> DEFINE done == {k \in Nat : k < n => Progress(set[k], made, m, R, T, path, v, n - k)}
<1>7. done = Nat
  <2>1. 0 \in done
    <3>1. set[0] = PutFirst(made, path, v)
      BY <1>2 DEF Setting
    <3>2. Progress(PutFirst(made, path, v), made, m, R, T, path, v, Len(path))
      BY <1>6, FirstPut
    <3>3. n - 0 = n /\ 0 \in Nat
      BY <1>1
    <3>4. QED
      BY <3>1, <3>2, <3>3
  <2>2. ASSUME NEW k \in done PROVE k + 1 \in done
    <3>1. k \in Nat /\ k + 1 \in Nat
      OBVIOUS
    <3>2. SUFFICES ASSUME k + 1 < n
                   PROVE  Progress(set[k + 1], made, m, R, T, path, v, n - (k + 1))
      BY <3>1
    <3> DEFINE j == n - (k + 1)
    <3>3. k < n /\ k + 1 \in 1 .. n - 1 /\ (k + 1) - 1 = k /\ j \in 1 .. n - 1 /\ j + 1 = n - k
      <4> HIDE DEF n
      <4>1. QED
        BY <1>1, <3>1, <3>2
    <3>4. Progress(set[k], made, m, R, T, path, v, n - k)
      BY <3>3
    <3>5. set[k + 1] = Put(set[(k + 1) - 1], made, path, v, n - (k + 1))
      BY <1>2, <3>3 DEF Setting
    <3>6. set[k + 1] = Put(set[k], made, path, v, j)
      BY <3>3, <3>5
    <3>7. j \in 1 .. Len(path) - 1 /\ Progress(set[k], made, m, R, T, path, v, j + 1)
      BY <3>3, <3>4
    <3> HIDE DEF j
    <3>8. Progress(Put(set[k], made, path, v, j), made, m, R, T, path, v, j)
      BY <1>6, <3>7, NextPut
    <3>9. QED
      BY <3>6, <3>8 DEF j
  <2>3. done \in SUBSET Nat
    OBVIOUS
  <2> HIDE DEF done
  <2>4. QED
    BY <2>1, <2>2, <2>3, SetInduction
<1>8. Progress(set[n - 1], made, m, R, T, path, v, 1)
  <2>1. n - 1 < n
    BY <1>1
  <2>2. n - 1 \in done
    <3> HIDE DEF done
    <3>1. QED
      BY <1>1, <1>7
  <2>3. QED
    BY <1>1, <2>1, <2>2
<1>9. Spare(made, 1) = {}
  <2>1. 1 \in Nat \ {0}
    OBVIOUS
  <2>2. QED
    BY <2>1, SpareNext
<1> DEFINE r == set[n - 1]
<1>10. Outcome(r, R, T, {}, v) /\ (~r.ok => Apart(m.heap, r.heap, {}))
  BY <1>8, <1>9 DEF Progress
<1>11. ASSUME r.ok PROVE Grafted(r.heap, m.heap, o, path, v)
  <2> DEFINE w == [i \in 1 .. n + 1 |-> IF i = n + 1 THEN v ELSE made[i].got]
  <2>1. Grown(r.heap, m.heap, o, path[1], made[2].got) /\ Linked(r.heap, made, path, v, 2)
    BY <1>5, <1>8, <1>11 DEF Progress
  <2>2. /\ w[1] = o /\ w[n + 1] = v /\ w[2] = made[2].got
        /\ \A i \in 2 .. n : w[i] = made[i].got /\ w[i + 1] = IF i = n THEN v ELSE made[i + 1].got
    <3>1. /\ 1 \in 1 .. n + 1 /\ n + 1 \in 1 .. n + 1 /\ 2 \in 1 .. n + 1 /\ 1 # n + 1 /\ 2 # n + 1
          /\ \A i \in 2 .. n : /\ i \in 1 .. n + 1 /\ i # n + 1 /\ i + 1 \in 1 .. n + 1
                               /\ (i + 1 = n + 1 <=> i = n)
      BY <1>1
    <3> HIDE DEF n
    <3>2. QED
      BY <1>5, <3>1
  <2> HIDE DEF w
  <2>3. \A i \in 2 .. n : Holds(r.heap, w[i], path[i], w[i + 1])
    BY <2>1, <2>2 DEF Linked
  <2>4. QED
    BY <2>1, <2>2, <2>3 DEF Grafted
<1>12. QED
  BY <1>2, <1>10, <1>11

-----------------------------------------------------------------------------
\* Ways through the trees

LEMMA BelowTransitive ==
  ASSUME NEW h, Sound(h), NEW v \in Nodes, NEW x \in Below(h, v)
  PROVE  Below(h, x) \subseteq Below(h, v)
<1>1. Below(h, v) \in SUBSET Nodes /\ Closed(h, Below(h, v))
  BY BelowLeast
<1>2. x \in Nodes
  BY <1>1
<1>3. QED
  BY <1>1, <1>2, BelowLeast

\* What is below two values is below one of them, which is below the other.
LEMMA Nested ==
  ASSUME NEW h, NEW R, Sound(h), Forest(h, R), NEW y \in LiveIn(h), NEW z \in LiveIn(h),
         NEW n \in Below(h, y), n \in Below(h, z)
  PROVE  y \in Below(h, z) \/ z \in Below(h, y)
<1> DEFINE B == Below(h, y)
           C == Below(h, z)
           S == B \cap C
<1>1. /\ B \subseteq LiveIn(h)
      /\ \A k \in B \ {y} : h[k].parent \in B /\ k \in Kids(h, h[k].parent)
  BY BelowParent
<1>2. /\ C \subseteq LiveIn(h)
      /\ \A k \in C \ {z} : h[k].parent \in C /\ k \in Kids(h, h[k].parent)
  BY BelowParent
<1> HIDE DEF B, C
<1>3. S \in SUBSET LiveIn(h) /\ S # {}
  BY <1>1 DEF B, C
<1>4. PICK s \in S : \A c \in S : s \notin Kids(h, c)
  BY <1>3 DEF Forest
<1>5. CASE s = y
  BY <1>4, <1>5 DEF C
<1>6. CASE s = z
  BY <1>4, <1>6 DEF B
<1>7. CASE s # y /\ s # z
  BY <1>1, <1>2, <1>4, <1>7
<1>8. QED
  BY <1>5, <1>6, <1>7

\* The items of a container have nothing in common.
LEMMA Siblings ==
  ASSUME NEW h, NEW R, Sound(h), Forest(h, R), NEW a \in LiveIn(h),
         NEW y \in Kids(h, a), NEW z \in Kids(h, a), y # z
  PROVE  Below(h, y) \cap Below(h, z) = {}
<1>1. /\ y \in LiveIn(h) /\ a \notin Below(h, y) /\ h[y].parent = a
      /\ z \in LiveIn(h) /\ a \notin Below(h, z) /\ h[z].parent = a
  BY NotBelowItem DEF Forest
<1>2. y \notin Below(h, z)
  <2>1. y \in Below(h, z) \ {z} => h[y].parent \in Below(h, z)
    BY <1>1, BelowParent
  <2>2. QED
    BY <1>1, <2>1
<1>3. z \notin Below(h, y)
  <2>1. z \in Below(h, y) \ {y} => h[z].parent \in Below(h, y)
    BY <1>1, BelowParent
  <2>2. QED
    BY <1>1, <2>1
<1>4. SUFFICES ASSUME NEW n \in Below(h, y), n \in Below(h, z) PROVE FALSE
  OBVIOUS
<1>5. QED
  BY <1>1, <1>2, <1>3, <1>4, Nested

\* One step of a way: the object a has x under the name.
Link(h, a, name, x) ==
    IsObject(h, a) /\ x # NULL /\ json_object_getn_value(h, a, name) = x

LEMMA LinkKid ==
  ASSUME NEW h, NEW R, Sound(h), Forest(h, R), NEW a, NEW name, NEW x, Link(h, a, name, x)
  PROVE  a \in LiveIn(h) /\ x \in Kids(h, a) /\ x \in LiveIn(h)
<1> DEFINE i == IndexOf(h, a, name)
<1>1. a \in LiveIn(h) /\ h[a].type = "object" /\ i # 0 /\ x = h[a].items[i]
  BY DEF Link, IsObject, json_object_getn_value
<1>2. x \in Kids(h, a)
  BY <1>1, NamePlace
<1>3. QED
  BY <1>1, <1>2 DEF Forest

\* The steps from w[1] to w[k + 1].
Leads(h, w, path, k) == \A i \in 1 .. k : Link(h, w[i], path[i], w[i + 1])

LEMMA LeadsBelow ==
  ASSUME NEW h, NEW R, Sound(h), Forest(h, R), NEW w, NEW path, NEW k \in Nat,
         Leads(h, w, path, k), w[k + 1] \in LiveIn(h), NEW i \in 1 .. k + 1
  PROVE  w[i] \in LiveIn(h) /\ w[k + 1] \in Below(h, w[i])
<1> DEFINE S == {d \in Nat : d <= k => /\ w[k + 1 - d] \in LiveIn(h)
                                      /\ w[k + 1] \in Below(h, w[k + 1 - d])}
<1>1. 0 \in S
  <2>1. k + 1 - 0 = k + 1 /\ w[k + 1] \in Nodes
    BY DEF LiveIn
  <2>2. w[k + 1] \in Below(h, w[k + 1])
    BY <2>1, BelowLeast
  <2>3. QED
    BY <2>1, <2>2
<1>2. ASSUME NEW d \in S PROVE d + 1 \in S
  <2>1. d \in Nat /\ d + 1 \in Nat
    OBVIOUS
  <2>2. SUFFICES ASSUME d + 1 <= k
                 PROVE  w[k + 1 - (d + 1)] \in LiveIn(h) /\ w[k + 1] \in Below(h, w[k + 1 - (d + 1)])
    BY <2>1
  <2> DEFINE j == k + 1 - (d + 1)
             a == w[j]
             b == w[j + 1]
  <2>3. d <= k /\ j \in 1 .. k /\ j + 1 = k + 1 - d
    BY <2>1, <2>2
  <2>4. b \in LiveIn(h) /\ w[k + 1] \in Below(h, b)
    BY <2>3
  <2>5. Link(h, a, path[j], b)
    BY <2>3 DEF Leads
  <2> HIDE DEF j, a, b
  <2>6. a \in LiveIn(h) /\ b \in Kids(h, a)
    BY <2>5, LinkKid
  <2>7. a \in Nodes /\ b \in Nodes
    BY <2>4, <2>6 DEF LiveIn
  <2>8. b \in Below(h, a)
    BY <2>6, <2>7, BelowLeast DEF Closed
  <2>9. Below(h, b) \subseteq Below(h, a)
    BY <2>7, <2>8, BelowTransitive
  <2>10. QED
    BY <2>4, <2>6, <2>9 DEF a, j
<1>3. S \in SUBSET Nat
  OBVIOUS
<1> HIDE DEF S
<1>4. S = Nat
  BY <1>1, <1>2, <1>3, SetInduction
<1>5. k + 1 - i \in Nat /\ k + 1 - i <= k /\ k + 1 - (k + 1 - i) = i
  OBVIOUS
<1>6. k + 1 - i \in S
  BY <1>4, <1>5
<1>7. QED
  BY <1>5, <1>6 DEF S

\* Where a name is.
LEMMA GetIs ==
  ASSUME NEW h, Sound(h), NEW a, NEW name, NEW x, Link(h, a, name, x)
  PROVE  \E i \in 1 .. Len(h[a].names) :
            /\ h[a].names[i] = name /\ h[a].items[i] = x /\ i \in 1 .. Len(h[a].items)
            /\ \A j \in 1 .. Len(h[a].names) : h[a].names[j] = name => i <= j
<1> DEFINE at == {j \in DOMAIN h[a].names : h[a].names[j] = name}
           i == IndexOf(h, a, name)
<1>1. a \in LiveIn(h) /\ h[a].type = "object" /\ i # 0 /\ x = h[a].items[i]
  BY DEF Link, IsObject, json_object_getn_value
<1>2. i \in 1 .. Len(h[a].items) /\ i \in 1 .. Len(h[a].names)
  BY <1>1, NamePlace
<1>3. h[a].names \in Seq(Seq(STRING))
  BY <1>1, SoundFits DEF Fits
<1>4. at \in SUBSET Nat /\ DOMAIN h[a].names = 1 .. Len(h[a].names)
  BY <1>3
<1>5. at # {} /\ i = CHOOSE j \in at : \A k \in at : j <= k
  BY <1>1, Zenon DEF IndexOf
<1> HIDE DEF i
<1>6. i \in at /\ \A k \in at : i <= k
  <2> HIDE DEF at
  <2>1. \E j \in at : \A k \in at : j <= k
    BY <1>4, <1>5, Smallest
  <2>2. QED
    BY <1>5, <2>1
<1>7. QED
  BY <1>1, <1>2, <1>4, <1>6

\* The i-th is the first of this name.
FirstAt(h, a, name, i) ==
    /\ h[a].names \in Seq(Seq(STRING))
    /\ i \in 1 .. Len(h[a].names) /\ h[a].names[i] = name
    /\ \A j \in 1 .. Len(h[a].names) : h[a].names[j] = name => i <= j

LEMMA GetAt ==
  ASSUME NEW h, NEW a, NEW name, NEW i, FirstAt(h, a, name, i)
  PROVE  IndexOf(h, a, name) = i /\ json_object_getn_value(h, a, name) = h[a].items[i]
<1> DEFINE at == {j \in DOMAIN h[a].names : h[a].names[j] = name}
<1>1. DOMAIN h[a].names = 1 .. Len(h[a].names)
  BY DEF FirstAt
<1>2. i \in at /\ i \in Nat \ {0} /\ (\A j \in at : i <= j) /\ at \in SUBSET Nat
  BY <1>1 DEF FirstAt
<1>3. IndexOf(h, a, name) = CHOOSE j \in at : \A k \in at : j <= k
  BY <1>2, Zenon DEF IndexOf
<1> HIDE DEF at
<1>4. IndexOf(h, a, name) = i
  <2> DEFINE c == CHOOSE j \in at : \A k \in at : j <= k
  <2>1. c \in at /\ \A k \in at : c <= k
    <3>1. \E j \in at : \A k \in at : j <= k
      BY <1>2
    <3>2. QED
      BY <3>1
  <2>2. IndexOf(h, a, name) = c
    BY <1>3
  <2> HIDE DEF c
  <2>3. c \in Nat /\ c <= i /\ i <= c
    BY <1>2, <2>1
  <2>4. QED
    BY <1>2, <2>2, <2>3
<1>5. i # 0
  BY <1>2
<1>6. QED
  BY <1>4, <1>5 DEF json_object_getn_value

LEMMA GetNone ==
  ASSUME NEW h, Sound(h), NEW a, IsObject(h, a), NEW name, json_object_getn_value(h, a, name) = NULL
  PROVE  IndexOf(h, a, name) = 0 /\ \A i \in 1 .. Len(h[a].names) : h[a].names[i] # name
<1> DEFINE at == {j \in DOMAIN h[a].names : h[a].names[j] = name}
           i == IndexOf(h, a, name)
<1>1. a \in LiveIn(h) /\ h[a].type = "object"
  BY DEF IsObject
<1>2. h[a].names \in Seq(Seq(STRING)) /\ h[a].items \in Seq(Nodes)
  BY <1>1, SoundFits DEF Fits
<1>3. i = 0
  <2>1. SUFFICES ASSUME i # 0 PROVE FALSE
    OBVIOUS
  <2>2. i \in 1 .. Len(h[a].items) /\ NULL = h[a].items[i]
    BY <1>1, <2>1, NamePlace DEF json_object_getn_value
  <2> HIDE DEF i
  <2>3. NULL \in Nodes
    BY <1>2, <2>2, ElementOfSeq
  <2>4. QED
    BY <2>3, PointersAssumption
<1>4. DOMAIN h[a].names = 1 .. Len(h[a].names) /\ at \in SUBSET Nat
  BY <1>2
<1>5. at = {}
  <2>1. SUFFICES ASSUME at # {} PROVE FALSE
    OBVIOUS
  <2>2. i = CHOOSE j \in at : \A k \in at : j <= k
    BY <2>1, Zenon DEF IndexOf
  <2> HIDE DEF at, i
  <2>3. \E j \in at : \A k \in at : j <= k
    BY <1>4, <2>1, Smallest
  <2>4. i \in at
    BY <2>2, <2>3
  <2>5. QED
    BY <1>3, <1>4, <2>4 DEF at
<1>6. QED
  BY <1>3, <1>4, <1>5

\* Different names, different values.
LEMMA NamesApart ==
  ASSUME NEW h, Sound(h), NEW a, NEW p, NEW q, p # q, NEW y, Link(h, a, p, y)
  PROVE  ~Link(h, a, q, y)
<1>1. SUFFICES ASSUME Link(h, a, q, y) PROVE FALSE
  OBVIOUS
<1>2. PICK i \in 1 .. Len(h[a].names) :
        h[a].names[i] = p /\ h[a].items[i] = y /\ i \in 1 .. Len(h[a].items)
  BY GetIs
<1>3. PICK j \in 1 .. Len(h[a].names) :
        h[a].names[j] = q /\ h[a].items[j] = y /\ j \in 1 .. Len(h[a].items)
  BY <1>1, GetIs
<1>4. a \in LiveIn(h)
  BY DEF Link, IsObject
<1>5. Distinct(h[a].items) /\ h[a].items \in Seq(Nodes)
  BY <1>4, SoundFits DEF Fits
<1>6. i = j
  BY <1>2, <1>3, <1>5 DEF Distinct
<1>7. QED
  BY <1>2, <1>3, <1>6

\* The same names lead to the same values.
LEMMA SameWay ==
  ASSUME NEW h, NEW w, NEW u, w[1] = u[1], NEW p, NEW q, NEW d \in Nat,
         Leads(h, w, p, d), Leads(h, u, q, d), \A i \in 1 .. d : p[i] = q[i]
  PROVE  w[d + 1] = u[d + 1]
<1> DEFINE S == {k \in Nat : k <= d => w[k + 1] = u[k + 1]}
<1>1. 0 \in S
  OBVIOUS
<1>2. ASSUME NEW k \in S PROVE k + 1 \in S
  <2>1. k \in Nat /\ k + 1 \in Nat
    OBVIOUS
  <2>2. SUFFICES ASSUME k + 1 <= d PROVE w[(k + 1) + 1] = u[(k + 1) + 1]
    BY <2>1
  <2>3. k <= d /\ k + 1 \in 1 .. d
    BY <2>1, <2>2
  <2>4. w[k + 1] = u[k + 1] /\ p[k + 1] = q[k + 1]
    BY <2>3
  <2>5. /\ json_object_getn_value(h, w[k + 1], p[k + 1]) = w[(k + 1) + 1]
        /\ json_object_getn_value(h, u[k + 1], q[k + 1]) = u[(k + 1) + 1]
    BY <2>3 DEF Leads, Link
  <2>6. QED
    BY <2>4, <2>5
<1>3. S \in SUBSET Nat
  OBVIOUS
<1> HIDE DEF S
<1>4. d \in S
  BY <1>1, <1>2, <1>3, SetInduction
<1>5. QED
  BY <1>4 DEF S

\* A way to a value below another one goes through the other.
LEMMA WaysApart ==
  ASSUME NEW h, NEW R, Sound(h), Forest(h, R), NEW w, NEW u, w[1] = u[1],
         NEW p, NEW m \in Nat, Leads(h, w, p, m), w[m + 1] \in LiveIn(h),
         NEW q, NEW k \in Nat, Leads(h, u, q, k), u[k + 1] \in Below(h, w[m + 1])
  PROVE  m <= k /\ \A i \in 1 .. m : p[i] = q[i]
<1> DEFINE D == {d \in 0 .. m : d <= k /\ \A i \in 1 .. d : p[i] = q[i]}
           x == w[m + 1]
           y == u[k + 1]
<1>1. D \in SUBSET (0 .. m) /\ D # {}
  <2>1. 0 \in D
    OBVIOUS
  <2>2. QED
    BY <2>1
<1>2. PICK d \in D : \A e \in D : e <= d
  <2> HIDE DEF D
  <2>1. QED
    BY <1>1, Largest
<1>3. d \in Nat /\ d <= m /\ d <= k /\ \A i \in 1 .. d : p[i] = q[i]
  OBVIOUS
<1>4. CASE d = m
  BY <1>3, <1>4
<1>5. CASE d # m
  <2> DEFINE a == w[d + 1]
             b == w[d + 2]
  <2>1. d + 1 \in 1 .. m /\ d + 2 \in 1 .. m + 1 /\ (d + 1) + 1 = d + 2 /\ d + 1 \in 0 .. m
    BY <1>3, <1>5
  <2>2. x \in LiveIn(h) /\ x \in Nodes
    BY DEF LiveIn
  <2>3. b \in LiveIn(h) /\ x \in Below(h, b)
    BY <2>1, LeadsBelow
  <2>4. Link(h, a, p[d + 1], b)
    BY <2>1 DEF Leads
  <2>5. a \in LiveIn(h) /\ b \in Kids(h, a)
    BY <2>4, LinkKid
  <2>6. a \notin Below(h, b)
    BY <2>5, NotBelowItem
  <2>7. y \in Below(h, b)
    <3>1. b \in Nodes
      BY <2>3 DEF LiveIn
    <3>2. Below(h, x) \subseteq Below(h, b)
      BY <2>3, <3>1, BelowTransitive
    <3>3. QED
      BY <3>2
  <2>8. u[d + 1] = a
    <3>1. Leads(h, w, p, d) /\ Leads(h, u, q, d)
      BY <1>3 DEF Leads
    <3>2. QED
      BY <1>3, <3>1, SameWay
  <2>9. CASE d = k
    BY <2>6, <2>7, <2>8, <2>9
  <2>10. CASE d # k
    <3> DEFINE c == u[d + 2]
    <3>1. d + 1 \in 1 .. k /\ d + 2 \in 1 .. k + 1 /\ d + 1 <= k
      BY <1>3, <2>10
    <3>2. Link(h, a, q[d + 1], c)
      BY <2>1, <2>8, <3>1 DEF Leads
    <3>3. c \in Kids(h, a)
      BY <3>2, LinkKid
    <3>4. y \in LiveIn(h)
      BY <2>2, BelowParent
    <3>5. y \in Below(h, c)
      BY <3>1, <3>4, LeadsBelow
    <3>6. p[d + 1] # q[d + 1]
      <4>1. SUFFICES ASSUME p[d + 1] = q[d + 1] PROVE FALSE
        OBVIOUS
      <4>2. \A i \in 1 .. d + 1 : i \in 1 .. d \/ i = d + 1
        BY <1>3
      <4>3. d + 1 \in D
        BY <1>3, <2>1, <3>1, <4>1, <4>2
      <4>4. QED
        BY <1>2, <1>3, <4>3
    <3> HIDE DEF a, b, c, y
    <3>7. b # c
      BY <2>4, <3>2, <3>6, NamesApart
    <3>8. QED
      BY <2>5, <2>7, <3>3, <3>5, <3>7, <2>5, Siblings
  <2>11. QED
    BY <2>9, <2>10
<1>6. QED
  BY <1>4, <1>5

\* As far as there are objects, the way leads on.
LEMMA WayLeads ==
  ASSUME NEW h, NEW R, Sound(h), Forest(h, R), NEW o, IsObject(h, o),
         NEW path, Len(path) \in Nat \ {0}, NEW k \in 1 .. Len(path),
         Way(h, o, path)[k] # NULL
  PROVE  LET at == Way(h, o, path)
         IN  at[1] = o /\ Leads(h, at, path, k - 1) /\ IsObject(h, at[k])
<1> DEFINE n == Len(path)
           at == Way(h, o, path)
           S == {d \in Nat : d <= k - 1 => at[k - d] # NULL}
<1>1. o \in LiveIn(h) /\ h[o].type = "object"
  BY DEF IsObject
<1>2. /\ at[1] = o
      /\ \A i \in 1 .. n : at[i] = NULL \/ (at[i] \in LiveIn(h) /\ h[at[i]].type = "object")
      /\ \A i \in 2 .. n :
            at[i] = IF at[i - 1] = NULL THEN NULL
                    ELSE LET v == json_object_getn_value(h, at[i - 1], path[i - 1])
                         IN  IF v = NULL THEN NULL
                             ELSE IF h[v].type # "object" THEN NULL ELSE v
  BY <1>1, WayParts
<1> HIDE DEF at
<1>3. 0 \in S
  <2>1. k - 0 = k
    OBVIOUS
  <2>2. at[k] # NULL
    BY DEF at
  <2>3. QED
    BY <2>1, <2>2
<1>4. ASSUME NEW d \in S PROVE d + 1 \in S
  <2>1. d \in Nat /\ d + 1 \in Nat
    OBVIOUS
  <2>2. SUFFICES ASSUME d + 1 <= k - 1 PROVE at[k - (d + 1)] # NULL
    BY <2>1
  <2>3. d <= k - 1 /\ k - d \in 2 .. n /\ (k - d) - 1 = k - (d + 1)
    BY <2>1, <2>2
  <2>4. at[k - d] # NULL
    BY <2>3
  <2>5. QED
    BY <1>2, <2>3, <2>4
<1>5. S \in SUBSET Nat
  OBVIOUS
<1> HIDE DEF S
<1>6. S = Nat
  BY <1>3, <1>4, <1>5, SetInduction
<1>7. ASSUME NEW i \in 1 .. k PROVE at[i] # NULL
  <2>1. k - i \in Nat /\ k - i <= k - 1 /\ k - (k - i) = i
    OBVIOUS
  <2>2. k - i \in S
    BY <1>6, <2>1
  <2>3. QED
    BY <2>1, <2>2 DEF S
<1>8. ASSUME NEW i \in 1 .. k PROVE IsObject(h, at[i])
  <2>1. i \in 1 .. n
    OBVIOUS
  <2>2. QED
    BY <1>2, <1>7, <2>1 DEF IsObject
<1>9. ASSUME NEW i \in 1 .. k - 1 PROVE Link(h, at[i], path[i], at[i + 1])
  <2>1. i \in 1 .. k /\ i + 1 \in 1 .. k /\ i + 1 \in 2 .. n /\ (i + 1) - 1 = i
    OBVIOUS
  <2>2. at[i] # NULL /\ at[i + 1] # NULL
    BY <1>7, <2>1
  <2>3. json_object_getn_value(h, at[i], path[i]) = at[i + 1]
    BY <1>2, <2>1, <2>2
  <2>4. QED
    BY <1>8, <2>1, <2>2, <2>3 DEF Link
<1>10. Leads(h, at, path, k - 1) /\ IsObject(h, at[k])
  BY <1>8, <1>9 DEF Leads
<1>11. QED
  BY <1>2, <1>10 DEF at

\* What a dotted name finds, a way leads to.
LEMMA FoundLeads ==
  ASSUME NEW h, NEW R, Sound(h), Forest(h, R), NEW o, IsObject(h, o),
         NEW path, Len(path) \in Nat \ {0},
         json_object_dotget_value(h, o, path) # NULL
  PROVE  \E w : /\ w[1] = o /\ Leads(h, w, path, Len(path))
                /\ w[Len(path) + 1] = json_object_dotget_value(h, o, path)
<1> DEFINE n == Len(path)
           at == Way(h, o, path)
           x == json_object_dotget_value(h, o, path)
           w == [i \in 1 .. n + 1 |-> IF i = n + 1 THEN x ELSE at[i]]
<1>1. n \in 1 .. n /\ n \in Nat
  OBVIOUS
<1>2. at[n] # NULL /\ x = json_object_getn_value(h, at[n], path[n])
  BY DEF json_object_dotget_value
<1>3. at[1] = o /\ Leads(h, at, path, n - 1) /\ IsObject(h, at[n])
  BY <1>1, <1>2, WayLeads
<1>4. x # NULL
  OBVIOUS
<1> HIDE DEF at, x, n
<1>5. /\ 1 \in 1 .. n + 1 /\ n + 1 \in 1 .. n + 1 /\ 1 # n + 1 /\ n # n + 1 /\ n \in 1 .. n + 1
      /\ \A i \in 1 .. n - 1 : i \in 1 .. n + 1 /\ i + 1 \in 1 .. n + 1 /\ i # n + 1 /\ i + 1 # n + 1
      /\ \A i \in 1 .. n : i \in 1 .. n - 1 \/ i = n
  BY <1>1
<1>6. /\ w[1] = o /\ w[n + 1] = x /\ w[n] = at[n]
      /\ \A i \in 1 .. n - 1 : w[i] = at[i] /\ w[i + 1] = at[i + 1]
  BY <1>3, <1>5
<1> HIDE DEF w
<1>7. Link(h, w[n], path[n], w[n + 1])
  BY <1>2, <1>3, <1>4, <1>6 DEF Link
<1>8. Leads(h, w, path, n)
  BY <1>3, <1>5, <1>6, <1>7 DEF Leads
<1>9. QED
  BY <1>6, <1>8 DEF x, n

LEMMA LeadsFound ==
  ASSUME NEW h, NEW R, Sound(h), Forest(h, R), NEW o, IsObject(h, o),
         NEW path, Len(path) \in Nat \ {0}, NEW w, w[1] = o, Leads(h, w, path, Len(path))
  PROVE  json_object_dotget_value(h, o, path) = w[Len(path) + 1]
<1> DEFINE n == Len(path)
           at == Way(h, o, path)
           S == {d \in Nat : d + 1 <= n => at[d + 1] = w[d + 1]}
<1>1. o \in LiveIn(h) /\ h[o].type = "object" /\ n \in Nat
  BY DEF IsObject
<1>2. /\ at[1] = o
      /\ \A i \in 2 .. n :
            at[i] = IF at[i - 1] = NULL THEN NULL
                    ELSE LET v == json_object_getn_value(h, at[i - 1], path[i - 1])
                         IN  IF v = NULL THEN NULL
                             ELSE IF h[v].type # "object" THEN NULL ELSE v
  BY <1>1, WayParts
<1>3. ASSUME NEW i \in 1 .. n
      PROVE  /\ w[i] # NULL /\ h[w[i]].type = "object" /\ w[i + 1] # NULL
             /\ json_object_getn_value(h, w[i], path[i]) = w[i + 1]
  BY PointersAssumption DEF Leads, Link, IsObject, LiveIn
<1> HIDE DEF at
<1>4. 0 \in S
  BY <1>2
<1>5. ASSUME NEW d \in S PROVE d + 1 \in S
  <2>1. d \in Nat /\ d + 1 \in Nat
    OBVIOUS
  <2>2. SUFFICES ASSUME (d + 1) + 1 <= n PROVE at[(d + 1) + 1] = w[(d + 1) + 1]
    BY <2>1
  <2>3. /\ d + 1 <= n /\ d + 1 \in 1 .. n /\ (d + 1) + 1 \in 2 .. n /\ (d + 1) + 1 \in 1 .. n
        /\ ((d + 1) + 1) - 1 = d + 1
    BY <1>1, <2>1, <2>2
  <2>4. at[d + 1] = w[d + 1]
    BY <2>3
  <2>5. at[(d + 1) + 1] = IF at[d + 1] = NULL THEN NULL
                          ELSE LET v == json_object_getn_value(h, at[d + 1], path[d + 1])
                               IN  IF v = NULL THEN NULL
                                   ELSE IF h[v].type # "object" THEN NULL ELSE v
    BY <1>2, <2>3
  <2>6. w[d + 1] # NULL /\ w[(d + 1) + 1] # NULL /\ h[w[(d + 1) + 1]].type = "object"
        /\ json_object_getn_value(h, w[d + 1], path[d + 1]) = w[(d + 1) + 1]
    BY <1>3, <2>3
  <2>7. QED
    BY <2>4, <2>5, <2>6
<1>6. S \in SUBSET Nat
  OBVIOUS
<1> HIDE DEF S
<1>7. S = Nat
  BY <1>4, <1>5, <1>6, SetInduction
<1>8. n - 1 \in Nat /\ (n - 1) + 1 = n /\ n <= n /\ n \in 1 .. n
  BY <1>1
<1>9. at[n] = w[n]
  <2>1. n - 1 \in S
    BY <1>7, <1>8
  <2>2. QED
    BY <1>8, <2>1 DEF S
<1>10. QED
  BY <1>3, <1>8, <1>9 DEF json_object_dotget_value, at

-----------------------------------------------------------------------------
\* What a setter does

LEMMA LinkAlike ==
  ASSUME NEW g, NEW h, NEW a, NEW name, NEW x, Link(h, a, name, x), Alike(g[a], h[a])
  PROVE  Link(g, a, name, x)
<1>1. IndexOf(g, a, name) = IndexOf(h, a, name)
  BY DEF IndexOf, Alike
<1>2. json_object_getn_value(g, a, name) = json_object_getn_value(h, a, name)
  BY <1>1 DEF json_object_getn_value, Alike
<1>3. QED
  BY <1>2 DEF Link, Alike, IsObject, LiveIn

\* What goes when c gets another value under the name.
Gone(h, c, name) ==
    LET old == json_object_getn_value(h, c, name)
    IN  IF old = NULL THEN {} ELSE Below(h, old)

\* The object c has x under the name, and nothing else has changed.
Placed(g, h, c, name, x) ==
    /\ IsObject(h, c) /\ Link(g, c, name, x)
    /\ \A n \in LiveIn(h) \ Gone(h, c, name) : n # c => Alike(g[n], h[n])
    /\ \A q : q # name /\ json_object_getn_value(h, c, q) # NULL =>
                 json_object_getn_value(g, c, q) = json_object_getn_value(h, c, q)

LEMMA GrownPlaced ==
  ASSUME NEW h, NEW g, Sound(h), Sound(g), NEW c, IsObject(h, c), NEW name,
         json_object_getn_value(h, c, name) = NULL, NEW x, x # NULL, Grown(g, h, c, name, x)
  PROVE  Placed(g, h, c, name, x)
<1>1. c \in LiveIn(h) /\ h[c].type = "object"
  BY DEF IsObject
<1>2. /\ h[c].names \in Seq(Seq(STRING)) /\ h[c].items \in Seq(Nodes)
      /\ Len(h[c].names) = Len(h[c].items)
  BY <1>1, SoundFits DEF Fits
<1>3. /\ LiveIn(h) \subseteq LiveIn(g) /\ c \in LiveIn(g) /\ g[c].type = "object"
      /\ g[c].names = Append(h[c].names, name) /\ g[c].items = Append(h[c].items, x)
  BY <1>1 DEF Grown
<1>4. g[c].names \in Seq(Seq(STRING))
  BY <1>3, SoundFits DEF Fits
<1> DEFINE k == Len(h[c].names)
<1>5. /\ k \in Nat /\ Len(g[c].names) = k + 1
      /\ g[c].names[k + 1] = name /\ g[c].items[k + 1] = x
      /\ \A i \in 1 .. k : g[c].names[i] = h[c].names[i] /\ g[c].items[i] = h[c].items[i]
  BY <1>2, <1>3
<1> HIDE DEF k
<1>6. Link(g, c, name, x)
  <2> DEFINE last == k + 1
  <2>1. \A i \in 1 .. k : h[c].names[i] # name
    BY GetNone DEF k
  <2>2. last \in 1 .. Len(g[c].names) /\ g[c].names[last] = name /\ g[c].items[last] = x
    BY <1>5
  <2>3. \A j \in 1 .. Len(g[c].names) : g[c].names[j] = name => last <= j
    BY <1>5, <2>1
  <2> HIDE DEF last
  <2>4. json_object_getn_value(g, c, name) = x
    <3>1. FirstAt(g, c, name, last)
      BY <1>4, <2>2, <2>3 DEF FirstAt
    <3>2. QED
      BY <2>2, <3>1, GetAt
  <2>5. QED
    BY <1>3, <2>4 DEF Link, IsObject
<1>7. ASSUME NEW q, q # name, json_object_getn_value(h, c, q) # NULL
      PROVE  json_object_getn_value(g, c, q) = json_object_getn_value(h, c, q)
  <2> DEFINE y == json_object_getn_value(h, c, q)
  <2>1. Link(h, c, q, y)
    BY <1>7 DEF Link
  <2> HIDE DEF y
  <2>2. PICK i \in 1 .. Len(h[c].names) :
          /\ h[c].names[i] = q /\ h[c].items[i] = y /\ i \in 1 .. Len(h[c].items)
          /\ \A j \in 1 .. Len(h[c].names) : h[c].names[j] = q => i <= j
    BY <2>1, GetIs
  <2>3. i \in 1 .. k /\ i \in 1 .. Len(g[c].names)
    BY <1>5, <2>2 DEF k
  <2>4. \A j \in 1 .. k + 1 : j \in 1 .. k \/ j = k + 1
    BY <1>5
  <2>5. \A j \in 1 .. k : g[c].names[j] = q => i <= j
    BY <1>5, <2>2 DEF k
  <2>6. g[c].names[k + 1] # q
    BY <1>5, <1>7
  <2>7. \A j \in 1 .. Len(g[c].names) : g[c].names[j] = q => i <= j
    BY <1>5, <2>4, <2>5, <2>6
  <2>8. g[c].names[i] = q /\ g[c].items[i] = y
    BY <1>5, <2>2, <2>3
  <2>9. json_object_getn_value(g, c, q) = y
    <3>1. FirstAt(g, c, q, i)
      BY <1>4, <2>3, <2>7, <2>8 DEF FirstAt
    <3>2. QED
      BY <2>8, <3>1, GetAt
  <2>10. QED
    BY <2>9 DEF y
<1>8. \A n \in LiveIn(h) : n # c => Alike(g[n], h[n])
  BY <1>3 DEF Grown, SameBut, Alike, LiveIn
<1>9. QED
  BY <1>6, <1>7, <1>8 DEF Placed
LEMMA SetPlaced ==
  ASSUME NEW h, NEW R, NEW T, Good(h, R, T), NEW o \in LiveIn(h), h[o].type = "object",
         NEW name \in Seq(STRING), NEW v \in R, o \notin Below(h, v),
         NEW g, SetTo(g, h, o, name, v), Sound(g)
  PROVE  Placed(g, h, o, name, v)
<1> DEFINE i == IndexOf(h, o, name)
           names == h[o].names
           items == h[o].items
           next == [items EXCEPT ![i] = v]
           old == items[i]
           G == Below(h, old)
           u == Unallocated(h, G)
<1>1. Sound(h) /\ Forest(h, R) /\ v \in LiveIn(h) /\ v # NULL /\ IsObject(h, o) /\ v \in Nodes
  BY PointersAssumption DEF Good, Forest, LiveIn, IsObject
<1>2. /\ items \in Seq(Nodes) /\ Distinct(items) /\ Kids(h, o) = ToSet(items)
      /\ names \in Seq(Seq(STRING)) /\ Len(names) = Len(items) /\ Distinct(names)
  BY <1>1, SoundFits DEF Fits
<1>3. v # o
  BY <1>1, BelowLeast
<1>4. CASE i = 0
  <2> DEFINE more == Append(names, name)
             longer == Append(items, v)
  <2>1. g = Taken(h, o, more, longer, v)
    BY <1>4 DEF SetTo
  <2>2. Fits(h[o].type, more, longer)
    BY <1>4, FitsMore
  <2> DEFINE f == Taken(h, o, more, longer, v)
  <2> HIDE DEF more, longer
  <2>3. /\ LiveIn(f) = LiveIn(h) /\ f[o].type = h[o].type /\ f[o].text = h[o].text
        /\ f[o].names = more /\ f[o].items = longer
    <3>1. /\ Sound(h) /\ o \in LiveIn(h) /\ v \in LiveIn(h) /\ v # o
          /\ Fits(h[o].type, more, longer)
      BY <1>1, <1>3, <2>2
    <3> HIDE DEF names, items
    <3>2. QED
      BY <3>1, TakenFields
  <2>4. SameBut(f, h, o)
    BY <1>1, <1>3, <2>2, TakenSame
  <2>5. Grown(g, h, o, name, v)
    BY <2>1, <2>3, <2>4 DEF Grown, more, longer
  <2>6. json_object_getn_value(h, o, name) = NULL
    BY <1>4 DEF json_object_getn_value
  <2>7. QED
    BY <1>1, <2>5, <2>6, GrownPlaced
<1>5. CASE i # 0
  <2>1. i \in 1 .. Len(items) /\ old \in Kids(h, o) /\ i \in 1 .. Len(names)
    BY <1>1, <1>5, NamePlace
  <2>2. g = Taken(u, o, names, next, v)
    BY <1>5 DEF SetTo
  <2>3. old \in LiveIn(h) /\ o \notin G
    BY <1>1, <2>1, NotBelowItem
  <2>4. /\ G \subseteq LiveIn(h) /\ old \notin R
        /\ \A n \in G \ {old} : n \notin R
    <3> HIDE DEF old
    <3>1. old \notin R
      BY <1>1, <2>1 DEF Forest
    <3>2. G \subseteq LiveIn(h) /\ \A n \in G \ {old} : n \notin R
      BY <1>1, <2>3, BelowParent
    <3>3. QED
      BY <3>1, <3>2
  <2>5. v \notin G /\ G \in SUBSET Nodes /\ old # NULL
    BY <2>3, <2>4, PointersAssumption DEF LiveIn
  <2>6. json_object_getn_value(h, o, name) = old
    BY <1>5 DEF json_object_getn_value
  <2>7. Gone(h, o, name) = G
    BY <2>5, <2>6 DEF Gone
  <2> HIDE DEF G
  <2>8. /\ Sound(u) /\ LiveIn(u) = LiveIn(h) \ G
        /\ \A n \in LiveIn(u) : /\ u[n].type = h[n].type /\ u[n].names = h[n].names
                                /\ u[n].items = h[n].items /\ u[n].text = h[n].text
    BY <1>1, <2>5, UnallocatedHeap
  <2> HIDE DEF u
  <2>9. o \in LiveIn(u) /\ v \in LiveIn(u) /\ u[o].type = "object"
    BY <1>1, <2>3, <2>5, <2>8
  <2>10. Fits("object", names, next) /\ Len(next) = Len(items)
    <3>1. v \notin ToSet(items)
      BY <1>1, <1>2 DEF Forest
    <3> HIDE DEF i
    <3>2. next \in Seq(Nodes) /\ Distinct(next) /\ Len(next) = Len(items)
      BY <1>1, <1>2, <2>1, <3>1, ReplaceItem
    <3> HIDE DEF next, names, items
    <3>3. QED
      BY <1>2, <3>2 DEF Fits
  <2>11. next[i] = v /\ \A j \in 1 .. Len(items) : j # i => next[j] = items[j]
    <3> HIDE DEF i
    <3>1. QED
      BY <1>2, <2>1
  <2> HIDE DEF next
  <2>12. /\ LiveIn(g) = LiveIn(u) /\ g[o].type = "object" /\ g[o].names = names
         /\ g[o].items = next
    BY <1>3, <2>2, <2>8, <2>9, <2>10, TakenHeap
  <2>13. SameBut(g, u, o)
    BY <1>3, <2>2, <2>8, <2>9, <2>10, TakenSame
  <2>14. \A n \in LiveIn(h) \ G : n # o => Alike(g[n], h[n])
    BY <2>8, <2>12, <2>13 DEF SameBut, Alike, LiveIn
  <2>15. IsObject(g, o)
    BY <2>9, <2>12 DEF IsObject
  <2>16. \A q : IndexOf(g, o, q) = IndexOf(h, o, q)
    BY <2>12 DEF IndexOf
  <2>17. Link(g, o, name, v)
    BY <1>1, <1>5, <2>11, <2>12, <2>15, <2>16 DEF Link, json_object_getn_value
  <2>18. ASSUME NEW q, q # name, json_object_getn_value(h, o, q) # NULL
         PROVE  json_object_getn_value(g, o, q) = json_object_getn_value(h, o, q)
    <3> DEFINE k == IndexOf(h, o, q)
    <3>1. k # 0 /\ json_object_getn_value(h, o, q) = items[k]
      BY <2>18 DEF json_object_getn_value
    <3>2. k \in 1 .. Len(items)
      BY <1>1, <3>1, NamePlace
    <3>3. IndexOf(g, o, q) = k
      BY <2>16
    <3>4. json_object_getn_value(g, o, q) = next[k]
      BY <2>12, <3>1, <3>3 DEF json_object_getn_value
    <3>5. k # i
      <4>1. Link(h, o, name, old)
        BY <1>1, <2>5, <2>6 DEF Link
      <4>2. ~Link(h, o, q, old)
        BY <1>1, <2>18, <4>1, NamesApart
      <4>3. Link(h, o, q, items[k])
        BY <1>1, <2>18, <3>1 DEF Link
      <4> HIDE DEF k
      <4>4. QED
        BY <4>2, <4>3
    <3> HIDE DEF k, i
    <3>6. QED
      BY <2>11, <3>1, <3>2, <3>4, <3>5
  <2>19. QED
    BY <1>1, <2>7, <2>14, <2>17, <2>18 DEF Placed
<1>6. QED
  BY <1>4, <1>5

\* The value v has been put at the end of the path: w is the way to it, and its
\* k-th object was there and has changed.
SetAt(g, h, o, path, v, w, k) ==
    /\ w[1] = o /\ w[Len(path) + 1] = v
    /\ Leads(h, w, path, k - 1)
    /\ Placed(g, h, w[k], path[k], w[k + 1])
    /\ \A i \in k + 1 .. Len(path) : Link(g, w[i], path[i], w[i + 1])
    /\ k < Len(path) => json_object_getn_value(h, w[k], path[k]) = NULL

\* What leads to w[k] is not in G.
Leading(h, G, w, k) == \A i \in 1 .. k - 1 : w[i] \in LiveIn(h) \ G /\ w[i] # w[k]

\* Something goes only for the last name: the value that had it.
Replaced(h, c, path, k) ==
    LET old == json_object_getn_value(h, c, path[k])
    IN  Gone(h, c, path[k]) # {} =>
           k = Len(path) /\ Link(h, c, path[k], old) /\ Gone(h, c, path[k]) = Below(h, old)

\* The object that changes is not among what goes, nor is what leads to it.
LEMMA SetPlace ==
  ASSUME NEW h, NEW R, Sound(h), Forest(h, R), NEW g, NEW o, NEW path, Len(path) \in Nat \ {0},
         NEW v, NEW w, NEW k \in 1 .. Len(path), SetAt(g, h, o, path, v, w, k)
  PROVE  LET c == w[k]
             G == Gone(h, c, path[k])
         IN  /\ c \in LiveIn(h) /\ c \in Below(h, o) /\ c \notin G
             /\ G \subseteq Below(h, c) /\ G \subseteq LiveIn(h)
             /\ Replaced(h, c, path, k)
             /\ Leading(h, G, w, k)
<1> DEFINE n == Len(path)
           c == w[k]
           old == json_object_getn_value(h, c, path[k])
           G == Gone(h, c, path[k])
<1>1. /\ w[1] = o /\ Leads(h, w, path, k - 1) /\ IsObject(h, c)
      /\ k < n => old = NULL
  BY DEF SetAt, Placed
<1>2. c \in LiveIn(h) /\ k - 1 \in Nat /\ (k - 1) + 1 = k /\ 1 \in 1 .. (k - 1) + 1
  BY <1>1 DEF IsObject
<1>3. c \in Nodes
  BY <1>2 DEF LiveIn
<1>4. c \in Below(h, o)
  BY <1>1, <1>2, LeadsBelow
<1>5. G # {} => Link(h, c, path[k], old) /\ G = Below(h, old) /\ old # NULL
  BY <1>1 DEF Gone, Link
<1>6. G # {} => /\ c \notin G /\ G \subseteq Below(h, c) /\ G \subseteq LiveIn(h) /\ k = n
                /\ old \in Nodes
  <2>1. SUFFICES ASSUME G # {}
                 PROVE  /\ c \notin G /\ G \subseteq Below(h, c) /\ G \subseteq LiveIn(h)
                        /\ k = n /\ old \in Nodes
    OBVIOUS
  <2> HIDE DEF old, G, c
  <2>2. old \in Kids(h, c) /\ old \in LiveIn(h)
    BY <1>5, <2>1, LinkKid
  <2>3. c \notin Below(h, old) /\ Below(h, old) \subseteq LiveIn(h) /\ old \in Nodes
    BY <1>2, <2>2, NotBelowItem, BelowParent DEF LiveIn
  <2>4. old \in Below(h, c)
    BY <1>3, <2>2, BelowLeast DEF Closed
  <2>5. Below(h, old) \subseteq Below(h, c)
    BY <1>3, <2>4, BelowTransitive
  <2>6. k = n
    BY <1>1, <1>5, <2>1
  <2>7. QED
    BY <1>5, <2>1, <2>3, <2>5, <2>6
<1>7. ASSUME NEW i \in 1 .. k - 1 PROVE w[i] \in LiveIn(h) \ G /\ w[i] # c
  <2>1. i \in 1 .. (k - 1) + 1 /\ i + 1 \in 1 .. (k - 1) + 1 /\ i \in 1 .. n
    OBVIOUS
  <2>2. /\ w[i] \in LiveIn(h) /\ c \in Below(h, w[i])
        /\ w[i + 1] \in LiveIn(h) /\ c \in Below(h, w[i + 1])
    BY <1>1, <1>2, <2>1, LeadsBelow
  <2>3. Link(h, w[i], path[i], w[i + 1])
    BY <1>1 DEF Leads
  <2>4. w[i + 1] \in Kids(h, w[i])
    BY <2>3, LinkKid
  <2>5. w[i] \notin Below(h, w[i + 1])
    BY <2>2, <2>4, NotBelowItem
  <2>6. w[i] \notin G
    <3>1. SUFFICES ASSUME w[i] \in G PROVE FALSE
      OBVIOUS
    <3>2. w[i] \in Below(h, old) /\ old \in Nodes /\ c \notin Below(h, old)
      BY <1>5, <1>6, <3>1
    <3> HIDE DEF old, c
    <3>3. Below(h, w[i]) \subseteq Below(h, old)
      BY <3>2, BelowTransitive
    <3>4. QED
      BY <2>2, <3>2, <3>3
  <2>7. QED
    BY <2>2, <2>5, <2>6
<1>8. Leading(h, G, w, k)
  BY <1>7 DEF Leading
<1>9. Replaced(h, c, path, k)
  BY <1>5, <1>6 DEF Replaced
<1>10. QED
  BY <1>2, <1>4, <1>6, <1>8, <1>9

\* The value is found where it has been set.
LEMMA SetFound ==
  ASSUME NEW h, NEW R, Sound(h), Forest(h, R), NEW g, NEW Q, Sound(g), Forest(g, Q),
         NEW o, NEW path, Len(path) \in Nat \ {0},
         NEW v, NEW w, NEW k \in 1 .. Len(path), SetAt(g, h, o, path, v, w, k)
  PROVE  json_object_dotget_value(g, o, path) = v
<1> DEFINE n == Len(path)
           c == w[k]
           G == Gone(h, c, path[k])
<1>1. Leading(h, G, w, k)
  BY SetPlace
<1>2. /\ w[1] = o /\ w[n + 1] = v /\ Leads(h, w, path, k - 1)
      /\ Link(g, c, path[k], w[k + 1])
      /\ \A m \in LiveIn(h) \ G : m # c => Alike(g[m], h[m])
      /\ \A i \in k + 1 .. n : Link(g, w[i], path[i], w[i + 1])
  BY DEF SetAt, Placed
<1> HIDE DEF G
<1>3. \A i \in 1 .. k - 1 : Link(g, w[i], path[i], w[i + 1])
  BY <1>1, <1>2, LinkAlike DEF Leads, Leading
<1>4. \A i \in 1 .. n : i \in 1 .. k - 1 \/ i = k \/ i \in k + 1 .. n
  OBVIOUS
<1>5. Leads(g, w, path, n)
  BY <1>2, <1>3, <1>4 DEF Leads
<1>6. IsObject(g, o)
  BY <1>2, <1>5 DEF Leads, Link
<1>7. QED
  BY <1>2, <1>5, <1>6, LeadsFound

\* The value and what is below it stay as they are.
LEMMA SetKeepsValue ==
  ASSUME NEW h, NEW R, Sound(h), Forest(h, R), NEW g, NEW o \in LiveIn(h),
         NEW path, Len(path) \in Nat \ {0}, NEW v \in R, o \notin Below(h, v),
         NEW w, NEW k \in 1 .. Len(path), SetAt(g, h, o, path, v, w, k)
  PROVE  Untouched(g, h, v)
<1> DEFINE c == w[k]
           G == Gone(h, c, path[k])
<1>1. c \in LiveIn(h) /\ c \in Below(h, o) /\ G \subseteq Below(h, c)
  BY SetPlace
<1>2. \A m \in LiveIn(h) \ G : m # c => Alike(g[m], h[m])
  BY DEF SetAt, Placed
<1> HIDE DEF G, c
<1>3. c \notin Below(h, v)
  BY <1>1, BelowRoot
<1>4. \A x \in Below(h, c) : x \notin Below(h, v)
  BY <1>1, <1>3, BelowRoot
<1>5. Below(h, v) \subseteq LiveIn(h)
  <2>1. v \in LiveIn(h)
    BY DEF Forest
  <2>2. QED
    BY <2>1, BelowParent
<1>6. QED
  BY <1>1, <1>2, <1>3, <1>4, <1>5 DEF Untouched

\* A prefix, as the way down sees it.
LEMMA PrefixIs ==
  ASSUME NEW S, NEW s \in Seq(S), NEW t \in Seq(S), Len(s) <= Len(t),
         \A i \in 1 .. Len(s) : s[i] = t[i]
  PROVE  IsPrefix(s, t)
<1>1. SubSeq(s, 1, Len(s)) = SubSeq(t, 1, Len(s))
  OBVIOUS
<1>2. QED
  BY <1>1 DEF IsPrefix

\* A name that does not go on from what was set finds what it found.
LEMMA SetKeepsNames ==
  ASSUME NEW h, NEW R, Sound(h), Forest(h, R), NEW g, NEW Q, Sound(g), Forest(g, Q),
         NEW o \in LiveIn(h),
         NEW S, NEW path \in Seq(S), path # <<>>, NEW v, NEW w, NEW k \in 1 .. Len(path),
         SetAt(g, h, o, path, v, w, k),
         NEW other \in Seq(S), other # <<>>, ~IsPrefix(path, other),
         h[o].type = "object", json_object_dotget_value(h, o, other) # NULL
  PROVE  /\ json_object_dotget_value(g, o, other) = json_object_dotget_value(h, o, other)
         /\ \/ IsPrefix(other, path)
            \/ Untouched(g, h, json_object_dotget_value(h, o, other))
<1> DEFINE n == Len(path)
           m == Len(other)
           c == w[k]
           old == json_object_getn_value(h, c, path[k])
           G == Gone(h, c, path[k])
           x == json_object_dotget_value(h, o, other)
<1>1. n \in Nat \ {0} /\ m \in Nat \ {0} /\ IsObject(h, o)
  BY DEF IsObject
<1>2. PICK u : u[1] = o /\ Leads(h, u, other, m) /\ u[m + 1] = x
  BY <1>1, FoundLeads
<1> HIDE DEF x
<1>3. /\ c \in LiveIn(h) /\ c \notin G
      /\ G # {} => k = n /\ Link(h, c, path[k], old) /\ G = Below(h, old)
  <2>1. Len(path) \in Nat \ {0}
    BY <1>1
  <2>2. c \in LiveIn(h) /\ c \notin G
    BY <2>1, SetPlace
  <2>3. G # {} => k = n /\ Link(h, c, path[k], old) /\ G = Below(h, old)
    <3>1. Replaced(h, c, path, k)
      BY <2>1, SetPlace
    <3>2. QED
      BY <3>1 DEF Replaced
  <2>4. QED
    BY <2>2, <2>3
<1>4. /\ w[1] = o /\ Leads(h, w, path, k - 1)
      /\ \A z \in LiveIn(h) \ G : z # c => Alike(g[z], h[z])
      /\ \A q : q # path[k] /\ json_object_getn_value(h, c, q) # NULL =>
                   json_object_getn_value(g, c, q) = json_object_getn_value(h, c, q)
      /\ IsObject(g, c)
  BY DEF SetAt, Placed, Link
<1>5. \A i \in 1 .. m : Link(h, u[i], other[i], u[i + 1])
  BY <1>2 DEF Leads
<1>6. \A i \in 1 .. m : u[i] \in LiveIn(h) /\ u[i + 1] \in LiveIn(h)
  BY <1>5, LinkKid
<1>7. \A i \in 1 .. m + 1 : u[i] \in LiveIn(h)
  <2>1. \A i \in 1 .. m + 1 : i \in 1 .. m \/ (m \in 1 .. m /\ i = m + 1)
    BY <1>1
  <2>2. QED
    BY <1>6, <2>1
<1> DEFINE W == [i \in 1 .. n + 1 |-> IF i = n + 1 THEN old ELSE w[i]]
<1>8. G # {} => /\ W[1] = o /\ Leads(h, W, path, n) /\ W[n + 1] = old /\ old \in LiveIn(h)
                /\ G = Below(h, W[n + 1]) /\ W[n + 1] \in LiveIn(h)
  <2>1. SUFFICES ASSUME G # {}
                 PROVE  W[1] = o /\ Leads(h, W, path, n) /\ W[n + 1] = old /\ old \in LiveIn(h)
    BY <1>3
  <2>2. k = n /\ Link(h, c, path[n], old)
    BY <1>3, <2>1
  <2> HIDE DEF old, c, G, n
  <2>3. old \in LiveIn(h)
    BY <2>2, LinkKid
  <2>4. /\ 1 \in 1 .. n + 1 /\ n + 1 \in 1 .. n + 1 /\ 1 # n + 1 /\ n # n + 1 /\ n \in 1 .. n + 1
        /\ \A i \in 1 .. n - 1 : i \in 1 .. n + 1 /\ i + 1 \in 1 .. n + 1 /\ i # n + 1 /\ i + 1 # n + 1
        /\ \A i \in 1 .. n : i \in 1 .. n - 1 \/ i = n
    BY <1>1
  <2>5. /\ W[1] = o /\ W[n + 1] = old /\ W[n] = c
        /\ \A i \in 1 .. n - 1 : W[i] = w[i] /\ W[i + 1] = w[i + 1]
    BY <1>4, <2>2, <2>4 DEF c
  <2> HIDE DEF W
  <2>6. Leads(h, W, path, n)
    BY <1>4, <2>2, <2>4, <2>5 DEF Leads
  <2>7. QED
    BY <2>3, <2>5, <2>6
<1> HIDE DEF W, old, G
<1>9. ASSUME NEW i \in 1 .. m + 1 PROVE u[i] \notin G
  <2>1. SUFFICES ASSUME u[i] \in G PROVE FALSE
    OBVIOUS
  <2> DEFINE d == i - 1
  <2>2. d \in Nat /\ d <= m /\ d + 1 = i
    BY <1>1
  <2>3. /\ W[1] = u[1] /\ Leads(h, W, path, n) /\ W[n + 1] \in LiveIn(h)
        /\ u[d + 1] \in Below(h, W[n + 1])
    BY <1>2, <1>8, <2>1, <2>2
  <2>4. Leads(h, u, other, d)
    BY <1>5, <2>2 DEF Leads
  <2> HIDE DEF d
  <2>5. n <= d /\ \A j \in 1 .. n : path[j] = other[j]
    BY <1>1, <2>2, <2>3, <2>4, WaysApart
  <2>6. n <= m
    BY <1>1, <2>2, <2>5
  <2>7. QED
    BY <2>5, <2>6, PrefixIs
<1>10. ASSUME NEW i \in 1 .. m PROVE Link(g, u[i], other[i], u[i + 1])
  <2> DEFINE a == u[i]
             y == u[i + 1]
  <2>1. Link(h, a, other[i], y) /\ i \in 1 .. m + 1 /\ i + 1 \in 1 .. m + 1
    BY <1>1, <1>5
  <2>2. a \in LiveIn(h) \ G /\ y \in LiveIn(h) /\ y \notin G
    BY <1>6, <1>9, <2>1
  <2> HIDE DEF a, y
  <2>3. CASE a # c
    <3>1. Alike(g[a], h[a])
      BY <1>4, <2>2, <2>3
    <3>2. QED
      BY <2>1, <3>1, LinkAlike DEF a, y
  <2>4. CASE a = c
    <3>1. json_object_getn_value(h, c, other[i]) = y /\ y # NULL
      BY <2>1, <2>4 DEF Link
    <3>2. other[i] # path[k]
      <4>1. SUFFICES ASSUME other[i] = path[k] PROVE FALSE
        OBVIOUS
      <4>2. old = y
        BY <3>1, <4>1 DEF old
      <4>3. G = Below(h, y)
        BY <3>1, <4>2 DEF G, Gone, old
      <4>4. y \in Nodes
        BY <2>2 DEF LiveIn
      <4>5. y \in Below(h, y)
        BY <4>4, BelowLeast
      <4>6. QED
        BY <2>2, <4>3, <4>5
    <3>3. json_object_getn_value(g, c, other[i]) = y
      BY <1>4, <3>1, <3>2
    <3>4. QED
      BY <1>4, <2>4, <3>1, <3>3 DEF Link, a, y
  <2>5. QED
    BY <2>3, <2>4
<1>11. json_object_dotget_value(g, o, other) = x
  <2>1. Leads(g, u, other, m)
    BY <1>10 DEF Leads
  <2>2. IsObject(g, o)
    BY <1>1, <1>2, <1>10 DEF Link
  <2>3. QED
    BY <1>1, <1>2, <2>1, <2>2, LeadsFound
<1>12. x \in LiveIn(h) /\ x \notin G
  BY <1>1, <1>2, <1>7, <1>9
<1>13. ASSUME ~IsPrefix(other, path), NEW z \in Below(h, x) PROVE Alike(g[z], h[z])
  <2>1. z \in LiveIn(h)
    BY <1>12, BelowParent
  <2>2. ASSUME NEW d \in Nat, d <= n, NEW t, t[1] = o, Leads(h, t, path, d)
        PROVE  t[d + 1] \notin Below(h, x)
    <3>1. SUFFICES ASSUME t[d + 1] \in Below(h, x) PROVE FALSE
      OBVIOUS
    <3>2. u[1] = t[1] /\ u[m + 1] \in LiveIn(h) /\ t[d + 1] \in Below(h, u[m + 1])
      BY <1>2, <1>12, <2>2, <3>1
    <3>3. m <= d /\ \A j \in 1 .. m : other[j] = path[j]
      BY <1>1, <1>2, <2>2, <3>2, WaysApart
    <3>4. m <= n
      BY <1>1, <2>2, <3>3
    <3>5. QED
      BY <1>13, <3>3, <3>4, PrefixIs
  <2>3. z # c
    <3>1. k - 1 \in Nat /\ k - 1 <= n /\ (k - 1) + 1 = k
      BY <1>1
    <3>2. w[k] \notin Below(h, x)
      BY <1>4, <2>2, <3>1
    <3>3. QED
      BY <3>2
  <2>4. z \notin G
    <3>1. SUFFICES ASSUME z \in G PROVE FALSE
      OBVIOUS
    <3>2. /\ W[1] = o /\ Leads(h, W, path, n) /\ W[n + 1] = old /\ old \in LiveIn(h)
          /\ G = Below(h, old)
      BY <1>8, <3>1
    <3>3. old \notin Below(h, x)
      BY <1>1, <2>2, <3>2
    <3>4. x \in Below(h, old) \/ old \in Below(h, x)
      BY <1>12, <1>13, <3>1, <3>2, Nested
    <3>5. QED
      BY <1>12, <3>2, <3>3, <3>4
  <2>5. QED
    BY <1>4, <2>1, <2>3, <2>4
<1>14. IsPrefix(other, path) \/ Untouched(g, h, x)
  BY <1>13 DEF Untouched
<1>15. QED
  BY <1>11, <1>14 DEF x

\* What a dotted setter comes to.
SetDown(r, R, T, path, v) ==
    /\ r.ok \in BOOLEAN
    /\ r.ok => v \in R /\ Fine(r, R \ {v}, T)
    /\ ~r.ok => Fine(r, R, IF Len(path) = 1 THEN T ELSE T \cup {v})

\* Where it has put the value, if it has.
SetWhere(r, h, o, path, v) ==
    /\ r.ok => \E k \in 1 .. Len(path) : \E w : SetAt(r.heap, h, o, path, v, w, k)
    /\ ~r.ok => Apart(h, r.heap, {})

LEMMA SameApart ==
  ASSUME NEW h, NEW g, g = h
  PROVE  Apart(h, g, {})
BY DEF Apart

\* The ways down to the k-th object, which was there, and on to the value.
LEMMA SetAtLast ==
  ASSUME NEW h, NEW R, Sound(h), Forest(h, R), NEW o, IsObject(h, o),
         NEW path, Len(path) \in Nat \ {0}, NEW at, at[1] = o,
         Leads(h, at, path, Len(path) - 1), NEW v, NEW g,
         Placed(g, h, at[Len(path)], path[Len(path)], v)
  PROVE  \E k \in 1 .. Len(path) : \E w : SetAt(g, h, o, path, v, w, k)
<1> DEFINE n == Len(path)
           w == [i \in 1 .. n + 1 |-> IF i = n + 1 THEN v ELSE at[i]]
<1>1. /\ n \in 1 .. n /\ 1 \in 1 .. n + 1 /\ n + 1 \in 1 .. n + 1 /\ n \in 1 .. n + 1
      /\ 1 # n + 1 /\ n # n + 1 /\ ~(n < n) /\ n + 1 .. n = {}
      /\ \A i \in 1 .. n - 1 : i \in 1 .. n + 1 /\ i + 1 \in 1 .. n + 1 /\ i # n + 1 /\ i + 1 # n + 1
  OBVIOUS
<1> HIDE DEF n
<1>2. /\ w[1] = o /\ w[n] = at[n] /\ w[n + 1] = v
      /\ \A i \in 1 .. n - 1 : w[i] = at[i] /\ w[i + 1] = at[i + 1]
  BY <1>1
<1> HIDE DEF w
<1>3. Leads(h, w, path, n - 1)
  BY <1>2 DEF Leads, n
<1>4. Placed(g, h, w[n], path[n], w[n + 1])
  BY <1>2 DEF n
<1>5. SetAt(g, h, o, path, v, w, n)
  BY <1>1, <1>2, <1>3, <1>4 DEF SetAt, n
<1>6. n \in 1 .. Len(path)
  BY <1>1 DEF n
<1>7. QED
  BY <1>5, <1>6

LEMMA SetAtMade ==
  ASSUME NEW h, NEW R, Sound(h), Forest(h, R), NEW o, IsObject(h, o),
         NEW S, NEW path \in Seq(S), NEW k \in 1 .. Len(path) - 1, NEW at, at[1] = o,
         Leads(h, at, path, k - 1), IsObject(h, at[k]),
         json_object_getn_value(h, at[k], path[k]) = NULL,
         NEW v, v # NULL, NEW g, Sound(g),
         Grafted(g, h, at[k], SubSeq(path, k, Len(path)), v)
  PROVE  \E j \in 1 .. Len(path) : \E w : SetAt(g, h, o, path, v, w, j)
<1> DEFINE n == Len(path)
           rest == SubSeq(path, k, n)
<1>1. /\ n \in Nat /\ k \in 1 .. n /\ k < n /\ Len(rest) = n - k + 1
      /\ rest[1] = path[k] /\ \A i \in k + 1 .. n : rest[i - k + 1] = path[i]
  OBVIOUS
<1>2. PICK u : /\ u[1] = at[k] /\ u[Len(rest) + 1] = v
               /\ Grown(g, h, at[k], rest[1], u[2])
               /\ \A i \in 2 .. Len(rest) : Holds(g, u[i], rest[i], u[i + 1])
  BY DEF Grafted
<1> HIDE DEF rest
<1> DEFINE w == [i \in 1 .. n + 1 |-> IF i <= k THEN at[i] ELSE u[i - k + 1]]
<1>3. /\ 1 \in 1 .. n + 1 /\ 1 <= k /\ n + 1 \in 1 .. n + 1 /\ ~(n + 1 <= k)
      /\ n + 1 - k + 1 = (n - k + 1) + 1
      /\ k \in 1 .. n + 1 /\ k <= k /\ k + 1 \in 1 .. n + 1 /\ ~(k + 1 <= k) /\ k + 1 - k + 1 = 2
      /\ \A i \in 1 .. k - 1 : i \in 1 .. n + 1 /\ i <= k /\ i + 1 \in 1 .. n + 1 /\ i + 1 <= k
      /\ \A i \in k + 1 .. n : /\ i \in 1 .. n + 1 /\ ~(i <= k) /\ i + 1 \in 1 .. n + 1
                               /\ ~(i + 1 <= k) /\ i + 1 - k + 1 = (i - k + 1) + 1
                               /\ i - k + 1 \in 2 .. n - k + 1
  BY <1>1
<1> HIDE DEF n
<1>4. /\ w[1] = o /\ w[n + 1] = v /\ w[k] = at[k] /\ w[k + 1] = u[2]
      /\ \A i \in 1 .. k - 1 : w[i] = at[i] /\ w[i + 1] = at[i + 1]
      /\ \A i \in k + 1 .. n : w[i] = u[i - k + 1] /\ w[i + 1] = u[(i - k + 1) + 1]
  BY <1>1, <1>2, <1>3
<1> HIDE DEF w
<1>6. Leads(h, w, path, k - 1)
  BY <1>4 DEF Leads
<1>7. ASSUME NEW i \in k + 1 .. n PROVE Holds(g, w[i], path[i], w[i + 1])
  <2> DEFINE j == i - k + 1
  <2>1. j \in 2 .. Len(rest) /\ w[i] = u[j] /\ w[i + 1] = u[j + 1] /\ rest[j] = path[i]
    BY <1>1, <1>3, <1>4
  <2> HIDE DEF j
  <2>2. QED
    BY <1>2, <2>1
<1>8. \A i \in k + 1 .. n : w[i] # NULL
  BY <1>7, PointersAssumption DEF Holds, LiveIn
<1>9. \A i \in k + 1 .. n : w[i + 1] # NULL
  <2>1. \A i \in k + 1 .. n : i + 1 \in k + 1 .. n \/ i = n
    BY <1>1
  <2>2. QED
    BY <1>4, <1>8, <2>1
<1>10. ASSUME NEW i \in k + 1 .. n PROVE Link(g, w[i], path[i], w[i + 1])
  <2> DEFINE a == w[i]
             y == w[i + 1]
  <2>1. Holds(g, a, path[i], y) /\ y # NULL
    BY <1>7, <1>9
  <2> HIDE DEF a, y
  <2>2. json_object_getn_value(g, a, path[i]) = y
    BY <2>1, HoldsNamed
  <2>3. QED
    BY <2>1, <2>2 DEF Holds, Link, IsObject, a, y
<1>11. w[k + 1] # NULL
  <2>1. k + 1 \in k + 1 .. n
    BY <1>1
  <2>2. QED
    BY <1>8, <2>1
<1>12. Placed(g, h, w[k], path[k], w[k + 1])
  <2>1. Grown(g, h, w[k], path[k], w[k + 1]) /\ IsObject(h, w[k])
        /\ json_object_getn_value(h, w[k], path[k]) = NULL
    BY <1>1, <1>2, <1>4
  <2>2. QED
    BY <1>11, <2>1, GrownPlaced
<1>13. SetAt(g, h, o, path, v, w, k)
  BY <1>4, <1>6, <1>10, <1>12 DEF SetAt, n
<1>14. k \in 1 .. Len(path)
  BY <1>1 DEF n
<1>15. QED
  BY <1>13, <1>14

LEMMA FineDotSet ==
  ASSUME NEW m, NEW R, NEW T, Fine(m, R, T), NEW o \in LiveIn(m.heap), m.heap[o].type = "object",
         NEW path \in Seq(Seq(STRING)), path # <<>>,
         NEW v \in LiveIn(m.heap), o \notin Below(m.heap, v)
  PROVE  /\ SetDown(json_object_dotset_value(m, o, path, v), R, T, path, v)
         /\ SetWhere(json_object_dotset_value(m, o, path, v), m.heap, o, path, v)
<1> DEFINE n == Len(path)
           h == m.heap
           at == Way(h, o, path)
           good(j) == at[j] # NULL /\ (j < n => at[j + 1] = NULL)
           k == CHOOSE j \in 1 .. n : good(j)
           r == json_object_dotset_value(m, o, path, v)
<1>1. n \in Nat \ {0}
  OBVIOUS
<1>2. Sound(h) /\ Forest(h, R) /\ LiveIn(h) \subseteq Nodes
  BY DEF Fine, Good, LiveIn
<1>3. /\ at[1] = o
      /\ \A j \in 1 .. n : at[j] = NULL \/ (at[j] \in LiveIn(h) /\ h[at[j]].type = "object"
                                           /\ at[j] \in Below(h, o))
  BY <1>1, <1>2, WayParts
<1>4. r = IF k = n THEN json_object_set_value(m, at[n], path[n], v)
          ELSE IF json_object_getn_value(h, at[k], path[k]) # NULL THEN Failure(m)
          ELSE SetMaking(m, at[k], SubSeq(path, k, n), v)
  BY DEF json_object_dotset_value
<1>5. o # NULL
  BY <1>2, PointersAssumption
<1> HIDE DEF at, r, h
<1>6. \E j \in 1 .. n : good(j)
  <2> DEFINE L == {j \in 1 .. n : at[j] # NULL}
  <2>1. 1 \in L /\ L \in SUBSET (0 .. n)
    BY <1>1, <1>3, <1>5
  <2>2. n \in Nat /\ L # {}
    BY <1>1, <2>1
  <2>3. \E j \in L : \A i \in L : i <= j
    <3> HIDE DEF L, n
    <3>1. QED
      BY <2>1, <2>2, Largest
  <2>4. PICK j \in L : \A i \in L : i <= j
    BY <2>3
  <2>5. j \in 1 .. n /\ at[j] # NULL
    BY <2>4
  <2>6. j < n => j + 1 \in 1 .. n /\ ~(j + 1 <= j)
    BY <1>1, <2>5
  <2>7. j < n => at[j + 1] = NULL
    BY <2>4, <2>6
  <2>8. QED
    BY <2>5, <2>7
<1>7. k \in 1 .. n /\ at[k] # NULL
  BY <1>6
<1> HIDE DEF k
<1> DEFINE c == at[k]
<1>8. c \in LiveIn(h) /\ h[c].type = "object" /\ c \in Below(h, o)
  BY <1>3, <1>7
<1>9. v \in R => c \notin Below(h, v)
  <2>1. SUFFICES ASSUME v \in R PROVE c \notin Below(h, v)
    OBVIOUS
  <2>2. o \in LiveIn(h) /\ o \notin Below(h, v)
    BY DEF h
  <2>3. QED
    BY <1>2, <1>8, <2>1, <2>2, BelowRoot
<1>10. path[k] \in Seq(STRING)
  BY <1>7, ElementOfSeq
<1>11. at[1] = o /\ Leads(h, at, path, k - 1) /\ IsObject(h, c) /\ IsObject(h, o)
  <2>1. IsObject(h, o)
    BY DEF IsObject, h
  <2>2. QED
    BY <1>1, <1>2, <1>7, <2>1, WayLeads DEF at
<1>12. CASE k = n
  <2>1. r = json_object_set_value(m, c, path[k], v)
    BY <1>4, <1>12
  <2>2. /\ Moved(r, R, T, v) /\ r.ok \in BOOLEAN /\ (~r.ok => r.heap = h)
        /\ r.ok => v \in R /\ SetTo(r.heap, h, c, path[k], v)
    <3> HIDE DEF c
    <3>1. v \in LiveIn(m.heap) /\ c \in LiveIn(m.heap) /\ m.heap[c].type = "object"
          /\ (v \in R => c \notin Below(m.heap, v))
      BY <1>8, <1>9 DEF h
    <3>2. QED
      BY <1>10, <2>1, <3>1, FineObjectSet DEF h
  <2>3. ~r.ok => Fine(r, R, IF n = 1 THEN T ELSE T \cup {v})
    <3>1. CASE ~r.ok
      <4>1. Fine(r, R, T)
        BY <2>2, <3>1 DEF Moved
      <4>2. Fine(r, R, T \cup {v})
        BY <4>1, FineLoosen
      <4>3. QED
        BY <4>1, <4>2
    <3>2. QED
      BY <3>1
  <2>4. r.ok => v \in R /\ Fine(r, R \ {v}, T)
    BY <2>2 DEF Moved
  <2>5. SetDown(r, R, T, path, v)
    BY <2>2, <2>3, <2>4 DEF SetDown
  <2>6. ~r.ok => Apart(h, r.heap, {})
    BY <2>2, SameApart
  <2>7. ASSUME r.ok PROVE \E j \in 1 .. n : \E w : SetAt(r.heap, h, o, path, v, w, j)
    <3>1. Good(h, R, T) /\ Sound(r.heap)
      BY <2>4, <2>7 DEF Fine, Good, h
    <3>2. Placed(r.heap, h, c, path[k], v)
      <4> HIDE DEF c
      <4>1. QED
        BY <1>8, <1>9, <1>10, <2>2, <2>7, <3>1, SetPlaced
    <3>3. Leads(h, at, path, n - 1) /\ Placed(r.heap, h, at[n], path[n], v)
      BY <1>12, <1>11, <3>2
    <3>4. QED
      BY <1>1, <1>2, <1>11, <3>3, SetAtLast
  <2>8. QED
    BY <2>5, <2>6, <2>7 DEF SetWhere, r, h
<1>13. CASE k # n
  <2>1. k < n /\ n # 1
    <3>1. k \in 1 .. n
      BY <1>7
    <3> HIDE DEF n
    <3>2. QED
      BY <1>1, <1>13, <3>1
  <2>2. CASE json_object_getn_value(h, c, path[k]) # NULL
    <3>1. r = Failure(m)
      BY <1>4, <1>13, <2>2
    <3>2. Fine(r, R, T) /\ r.ok = FALSE
      BY <3>1, FineFailure
    <3>3. Fine(r, R, T \cup {v})
      BY <3>2, FineLoosen
    <3>4. SetDown(r, R, T, path, v)
      BY <2>1, <3>2, <3>3 DEF SetDown
    <3>5. Apart(h, r.heap, {})
      <4>1. r.heap = h
        BY <3>1, FineFailure DEF h
      <4>2. QED
        BY <4>1, SameApart
    <3>6. QED
      BY <3>2, <3>4, <3>5 DEF SetWhere, r, h
  <2>3. CASE json_object_getn_value(h, c, path[k]) = NULL
    <3> DEFINE rest == SubSeq(path, k, n)
    <3>1. r = SetMaking(m, c, rest, v)
      BY <1>4, <1>13, <2>3
    <3>2. rest \in Seq(Seq(STRING)) /\ Len(rest) = n - k + 1
      <4>1. \A s \in Seq(Seq(STRING)), a, b \in Nat : a >= 1 /\ a <= b /\ b <= Len(s) =>
                SubSeq(s, a, b) \in Seq(Seq(STRING)) /\ Len(SubSeq(s, a, b)) = b - a + 1
        OBVIOUS
      <4>2. k \in Nat /\ k >= 1 /\ k <= n /\ n \in Nat /\ n <= Len(path)
        BY <1>1, <1>7
      <4>3. QED
        BY <4>1, <4>2
    <3>3. Len(rest) >= 2
      BY <1>1, <1>7, <2>1, <3>2
    <3> HIDE DEF rest, c
    <3>4. v \in LiveIn(m.heap) /\ c \in LiveIn(m.heap) /\ m.heap[c].type = "object"
          /\ (v \in R => c \notin Below(m.heap, v))
      BY <1>8, <1>9 DEF h
    <3>5. /\ Outcome(r, R, T, {}, v)
          /\ r.ok => Grafted(r.heap, h, c, rest, v)
          /\ ~r.ok => Apart(h, r.heap, {})
      BY <3>1, <3>2, <3>3, <3>4, FineSetMaking DEF h
    <3>6. (R \ {v}) \cup {} = R \ {v} /\ R \cup {} = R
      OBVIOUS
    <3>7. SetDown(r, R, T, path, v)
      BY <2>1, <3>5, <3>6 DEF SetDown, Outcome
    <3>8. ASSUME r.ok PROVE \E j \in 1 .. n : \E w : SetAt(r.heap, h, o, path, v, w, j)
      <4>1. Sound(r.heap) /\ v # NULL
        BY <3>5, <3>6, <3>8, PointersAssumption DEF Outcome, Fine, Good, LiveIn
      <4>2. k \in 1 .. Len(path) - 1
        BY <1>1, <1>7, <2>1
      <4>3. IsObject(h, at[k]) /\ json_object_getn_value(h, at[k], path[k]) = NULL
            /\ Grafted(r.heap, h, at[k], SubSeq(path, k, Len(path)), v)
        BY <1>11, <2>3, <3>5, <3>8 DEF c, rest
      <4>4. QED
        BY <1>2, <1>11, <4>1, <4>2, <4>3, SetAtMade
    <3>9. QED
      BY <3>5, <3>7, <3>8 DEF SetWhere, r, h
  <2>4. QED
    BY <2>2, <2>3
<1>14. QED
  BY <1>12, <1>13

\* The two functions of json_value_deep_copy().
CopyingItems(done, f, m, v) ==
    LET from == m.heap[v]
        made == json_value_init(m, Block(from.type, from.text))
    IN  /\ done[0] = made
        /\ \A i \in 1 .. Len(from.items) :
              done[i] = IF ~done[i - 1].ok THEN done[i - 1]
                        ELSE CopyItem(f, done[i - 1], from, i, made.got)

LEMMA CopyByParts ==
  ASSUME NEW f, NEW m, NEW v, Len(m.heap[v].items) \in Nat
  PROVE  \E done : CopyingItems(done, f, m, v) /\ CopyBy(f, m, v) = done[Len(m.heap[v].items)]
<1> DEFINE from == m.heap[v]
           n == Len(from.items)
           made == json_value_init(m, Block(from.type, from.text))
           Step(g, i) == IF i = 0 THEN made
                         ELSE IF ~g[i - 1].ok THEN g[i - 1]
                         ELSE CopyItem(f, g[i - 1], from, i, made.got)
           UpTo(g, q) == g = [i \in 0 .. q |-> Step(g, i)]
           done == CHOOSE g : UpTo(g, n)
           to == {q \in Nat : \E g : UpTo(g, q)}
<1>1. n \in Nat /\ 0 \in 0 .. n
  OBVIOUS
<1>2. CopyBy(f, m, v) = done[n]
  BY Zenon DEF CopyBy
<1>3. to = Nat
  <2>1. 0 \in to
    <3> DEFINE e == [i \in 0 .. 0 |-> Step(<<>>, 0)]
    <3>1. Step(e, 0) = Step(<<>>, 0)
      OBVIOUS
    <3> HIDE DEF Step
    <3>2. e[0] = Step(e, 0)
      BY <3>1
    <3>3. e = [i \in 0 .. 0 |-> Step(e, i)]
      BY <3>2
    <3>4. UpTo(e, 0)
      BY <3>3
    <3>5. QED
      BY <3>4
  <2>2. ASSUME NEW q \in to PROVE q + 1 \in to
    <3>1. PICK e : UpTo(e, q)
      OBVIOUS
    <3> DEFINE g == [i \in 0 .. q + 1 |-> IF i = q + 1 THEN Step(e, q + 1) ELSE e[i]]
    <3>2. q \in Nat /\ q + 1 \in Nat /\ q + 1 \in 0 .. q + 1
          /\ (\A i \in 0 .. q + 1 : i # q + 1 => i \in 0 .. q)
          /\ (\A i \in 0 .. q : i \in 0 .. q + 1 /\ i # q + 1)
          /\ (\A i \in 0 .. q + 1 : i # 0 => i - 1 \in 0 .. q)
      OBVIOUS
    <3>3. \A i \in 0 .. q : e[i] = Step(e, i)
      BY <3>1
    <3> HIDE DEF Step
    <3>4. (\A i \in 0 .. q : g[i] = e[i]) /\ g[q + 1] = Step(e, q + 1)
      BY <3>2
    <3>5. g = [i \in 0 .. q + 1 |-> g[i]]
      OBVIOUS
    <3> HIDE DEF g
    <3>6. \A i \in 0 .. q + 1 : Step(g, i) = Step(e, i)
      <4>1. SUFFICES ASSUME NEW i \in 0 .. q + 1 PROVE Step(g, i) = Step(e, i)
        OBVIOUS
      <4>2. i # 0 => g[i - 1] = e[i - 1]
        BY <3>2, <3>4
      <4>3. CASE i = 0
        BY <4>3 DEF Step
      <4>4. CASE i # 0
        BY <4>2, <4>4, Zenon DEF Step
      <4>5. QED
        BY <4>3, <4>4
    <3>7. \A i \in 0 .. q + 1 : g[i] = Step(g, i)
      BY <3>2, <3>3, <3>4, <3>6
    <3>8. UpTo(g, q + 1)
      BY <3>5, <3>7
    <3> HIDE DEF UpTo
    <3>9. QED
      BY <3>2, <3>8
  <2>3. to \in SUBSET Nat
    OBVIOUS
  <2> HIDE DEF to
  <2>4. QED
    BY <2>1, <2>2, <2>3, SetInduction
<1>4. UpTo(done, n)
  <2>1. \E g : UpTo(g, n)
    BY <1>1, <1>3
  <2> HIDE DEF UpTo
  <2>2. QED
    BY <2>1
<1> HIDE DEF done
<1>5. CopyingItems(done, f, m, v)
  <2>1. \A i \in 0 .. n : done[i] = Step(done, i)
    BY <1>4
  <2>2. done[0] = made
    BY <1>1, <2>1
  <2>3. ASSUME NEW i \in 1 .. n
        PROVE  done[i] = IF ~done[i - 1].ok THEN done[i - 1]
                         ELSE CopyItem(f, done[i - 1], from, i, made.got)
    <3>1. i \in 0 .. n /\ i # 0
      OBVIOUS
    <3>2. done[i] = Step(done, i)
      BY <2>1, <3>1
    <3>3. QED
      BY <3>1, <3>2, Zenon
  <2>4. QED
    BY <2>2, <2>3 DEF CopyingItems
<1>6. QED
  BY <1>2, <1>5

Copying(copied, n) ==
    \A k \in 0 .. n :
        copied[k] = [x \in Memories \X Nodes |->
                       IF k = 0 THEN Failure(x[1]) ELSE CopyBy(copied[k - 1], x[1], x[2])]

LEMMA DeepCopyParts ==
  ASSUME Cardinality(Nodes) \in Nat
  PROVE  \E copied : /\ Copying(copied, Cardinality(Nodes))
                     /\ \A m, v : json_value_deep_copy(m, v) = copied[Cardinality(Nodes)][<<m, v>>]
<1> DEFINE n == Cardinality(Nodes)
           Step(g, k) == [x \in Memories \X Nodes |->
                            IF k = 0 THEN Failure(x[1]) ELSE CopyBy(g[k - 1], x[1], x[2])]
           UpTo(g, q) == g = [k \in 0 .. q |-> Step(g, k)]
           copied == CHOOSE g : UpTo(g, n)
           to == {q \in Nat : \E g : UpTo(g, q)}
<1>1. n \in Nat /\ 0 \in 0 .. n
  OBVIOUS
<1>2. \A m, v : json_value_deep_copy(m, v) = copied[n][<<m, v>>]
  BY Zenon DEF json_value_deep_copy
<1>3. to = Nat
  <2>1. 0 \in to
    <3> DEFINE e == [k \in 0 .. 0 |-> Step(<<>>, 0)]
    <3>1. Step(e, 0) = Step(<<>>, 0)
      OBVIOUS
    <3> HIDE DEF Step
    <3>2. e[0] = Step(e, 0)
      BY <3>1
    <3>3. e = [k \in 0 .. 0 |-> Step(e, k)]
      BY <3>2
    <3>4. UpTo(e, 0)
      BY <3>3
    <3>5. QED
      BY <3>4
  <2>2. ASSUME NEW q \in to PROVE q + 1 \in to
    <3>1. PICK e : UpTo(e, q)
      OBVIOUS
    <3> DEFINE g == [k \in 0 .. q + 1 |-> IF k = q + 1 THEN Step(e, q + 1) ELSE e[k]]
    <3>2. q \in Nat /\ q + 1 \in Nat /\ q + 1 \in 0 .. q + 1
          /\ (\A k \in 0 .. q + 1 : k # q + 1 => k \in 0 .. q)
          /\ (\A k \in 0 .. q : k \in 0 .. q + 1 /\ k # q + 1)
          /\ (\A k \in 0 .. q + 1 : k # 0 => k - 1 \in 0 .. q)
      OBVIOUS
    <3>3. \A k \in 0 .. q : e[k] = Step(e, k)
      BY <3>1
    <3> HIDE DEF Step
    <3>4. (\A k \in 0 .. q : g[k] = e[k]) /\ g[q + 1] = Step(e, q + 1)
      BY <3>2
    <3>5. g = [k \in 0 .. q + 1 |-> g[k]]
      OBVIOUS
    <3> HIDE DEF g
    <3>6. \A k \in 0 .. q + 1 : Step(g, k) = Step(e, k)
      <4>1. SUFFICES ASSUME NEW k \in 0 .. q + 1 PROVE Step(g, k) = Step(e, k)
        OBVIOUS
      <4>2. k # 0 => g[k - 1] = e[k - 1]
        BY <3>2, <3>4
      <4>3. CASE k = 0
        BY <4>3 DEF Step
      <4>4. CASE k # 0
        BY <4>2, <4>4 DEF Step
      <4>5. QED
        BY <4>3, <4>4
    <3>7. \A k \in 0 .. q + 1 : g[k] = Step(g, k)
      BY <3>2, <3>3, <3>4, <3>6
    <3>8. UpTo(g, q + 1)
      BY <3>5, <3>7
    <3> HIDE DEF UpTo
    <3>9. QED
      BY <3>2, <3>8
  <2>3. to \in SUBSET Nat
    OBVIOUS
  <2> HIDE DEF to
  <2>4. QED
    BY <2>1, <2>2, <2>3, SetInduction
<1>4. UpTo(copied, n)
  <2>1. \E g : UpTo(g, n)
    BY <1>1, <1>3
  <2> HIDE DEF UpTo
  <2>2. QED
    BY <2>1
<1> HIDE DEF copied
<1>5. Copying(copied, n)
  <2>1. \A k \in 0 .. n : copied[k] = Step(copied, k)
    BY <1>4
  <2>2. QED
    BY <2>1 DEF Copying
<1>6. QED
  BY <1>2, <1>5

\* What was live has not changed at all.
Kept(g, h) == \A n \in LiveIn(h) : g[n] = h[n]

LEMMA KeptLive ==
  ASSUME NEW g, NEW h, Kept(g, h)
  PROVE  /\ LiveIn(h) \subseteq LiveIn(g)
         /\ \A f : Kept(f, g) => Kept(f, h)
BY DEF Kept, LiveIn

\* Nothing that was live is below a root that is new.
LEMMA FreshBelow ==
  ASSUME NEW h, NEW R, NEW T, Good(h, R, T), NEW g, NEW Q, NEW T2, Good(g, Q, T2), R \subseteq Q,
         Kept(g, h), NEW c \in Q, c \notin LiveIn(h)
  PROVE  /\ \A n \in Below(g, c) : n \notin LiveIn(h)
         /\ Kept(Unallocated(g, Below(g, c)), h)
<1> DEFINE U == Nodes \ LiveIn(h)
           B == Below(g, c)
           f == Unallocated(g, B)
<1>1. /\ Sound(h) /\ Forest(h, R) /\ Loose(h, R, T) /\ Sound(g) /\ Forest(g, Q) /\ c \in Nodes
      /\ LiveIn(h) \subseteq LiveIn(g) /\ \A n \in LiveIn(h) : g[n] = h[n] /\ n \in Nodes
  BY KeptLive DEF Good, Forest, LiveIn, Kept
<1>2. ASSUME NEW z \in U, NEW y \in Kids(g, z) PROVE y \in U
  <2>1. z \in LiveIn(g)
    BY DEF Kids, LiveIn
  <2>2. y \in LiveIn(g) \ Q /\ g[y].parent = z
    BY <1>1, <2>1 DEF Forest
  <2>3. y \in Nodes
    BY <2>2 DEF LiveIn
  <2>4. ASSUME y \in LiveIn(h) PROVE FALSE
    <3>1. y \in LiveIn(h) \ R /\ h[y].parent = z
      BY <1>1, <2>2, <2>4
    <3>2. h[y].parent \in LiveIn(h)
      BY <1>1, <3>1 DEF Forest
    <3>3. QED
      BY <3>1, <3>2
  <2>5. QED
    BY <2>3, <2>4
<1>3. U \in SUBSET Nodes /\ c \in U /\ Closed(g, U)
  BY <1>1, <1>2 DEF Closed
<1> HIDE DEF U
<1>4. B \subseteq U /\ B \in SUBSET Nodes
  BY <1>1, <1>3, BelowLeast
<1>5. \A n \in B : n \notin LiveIn(h)
  BY <1>4 DEF U
<1> HIDE DEF B
<1>6. LiveIn(f) = LiveIn(g) \ B /\ \A n \in LiveIn(f) : g[n].parent \notin B => f[n] = g[n]
  BY <1>1, <1>4, UnallocatedHeap
<1>7. ASSUME NEW n \in LiveIn(h) PROVE f[n] = h[n]
  <2>1. n \in LiveIn(f) /\ g[n] = h[n]
    BY <1>1, <1>5, <1>6
  <2>2. h[n].parent \notin B
    <3>1. CASE n \in R
      <4>1. h[n].parent = NULL \/ h[n].parent = FREE
        BY <1>1, <3>1 DEF Loose
      <4>2. QED
        BY <1>4, <4>1, PointersAssumption
    <3>2. CASE n \notin R
      <4>1. h[n].parent \in LiveIn(h)
        BY <1>1, <3>2 DEF Forest
      <4>2. QED
        BY <1>5, <4>1
    <3>3. QED
      BY <3>1, <3>2
  <2>3. QED
    BY <1>6, <2>1, <2>2
<1> HIDE DEF f
<1>8. Kept(f, h)
  BY <1>7 DEF Kept
<1>9. QED
  BY <1>5, <1>8 DEF f, B

\* A root that is new is freed.
LEMMA FreeFresh ==
  ASSUME NEW h, NEW R, NEW T, Good(h, R, T), NEW p, NEW Q, Fine(p, Q, T), R \subseteq Q,
         Kept(p.heap, h), NEW c \in Q, c \notin LiveIn(h)
  PROVE  LET r == json_value_free(p, c)
         IN  Fine(r, Q \ {c}, T) /\ Kept(r.heap, h)
<1> DEFINE r == json_value_free(p, c)
           g == p.heap
<1>1. Fine(r, Q \ {c}, T) /\ r.heap = Unallocated(g, Below(g, c))
  BY FineFree
<1>2. Good(g, Q, T) /\ Kept(g, h)
  BY DEF Fine
<1> HIDE DEF r, g
<1>3. Kept(Unallocated(g, Below(g, c)), h)
  BY <1>2, FreshBelow
<1>4. QED
  BY <1>1, <1>3 DEF r

\* A container that holds one more changes, and what it holds has it as parent.
LEMMA TakenKept ==
  ASSUME NEW g, Sound(g), NEW h, Kept(g, h), NEW c \in LiveIn(g), c \notin LiveIn(h),
         NEW w \in LiveIn(g), w \notin LiveIn(h), w # c, NEW names, NEW items
  PROVE  Kept(Taken(g, c, names, items, w), h) /\ Taken(g, c, names, items, w)[c].type = g[c].type
<1> DEFINE f == Filled(g, c, names, items)
           k == Taken(g, c, names, items, w)
<1>1. g \in Heaps /\ c \in Nodes /\ w \in Nodes /\ g[c] \in Cells
  BY SoundFits DEF Sound
<1>2. f = [g EXCEPT ![c] = [[g[c] EXCEPT !.names = names] EXCEPT !.items = items]]
  BY <1>1 DEF Filled, Heaps
<1>3. f = [g EXCEPT ![c] = [type |-> g[c].type, parent |-> g[c].parent, names |-> names,
                            items |-> items, text |-> g[c].text]]
  BY <1>1, <1>2, CellFilled
<1>4. f[c].type = g[c].type /\ (\A n \in Nodes \ {c} : f[n] = g[n]) /\ DOMAIN f = Nodes
  BY <1>1, <1>3 DEF Heaps
<1>5. k = [f EXCEPT ![w].parent = c]
  BY DEF Taken
<1> HIDE DEF f, k
<1>6. \A n \in Nodes \ {w} : k[n] = f[n]
  BY <1>4, <1>5
<1>7. k[c].type = g[c].type
  BY <1>1, <1>4, <1>6
<1>8. Kept(k, h)
  <2>1. \A n \in LiveIn(h) : n \in Nodes \ {w} /\ n \in Nodes \ {c}
    BY DEF LiveIn
  <2>2. QED
    BY <1>4, <1>6, <2>1 DEF Kept
<1>9. QED
  BY <1>7, <1>8 DEF k

\* What a call that copies comes to: nothing it found has changed, and it
\* returns a new root or has left none.
Copies(r, m, R, T) ==
    /\ r.ok \in BOOLEAN /\ Kept(r.heap, m.heap)
    /\ r.ok => r.got \in Nodes \ LiveIn(m.heap) /\ Fine(r, R \cup {r.got}, T)
    /\ ~r.ok => r.got = NULL /\ Fine(r, R, T)

Copier(f) ==
    \A m, R, T, v : Fine(m, R, T) /\ v \in LiveIn(m.heap) => Copies(f[<<m, v>>], m, R, T)

\* While items are added to the copy c.
CopyTo(d, m, R, T, c, type) ==
    Copies(d, m, R, T) /\ (d.ok => d.got = c /\ d.heap[c].type = type)

LEMMA FineGiveUpCopy ==
  ASSUME NEW m, NEW R, NEW T, Fine(m, R, T), NEW c \in Nodes, c \notin LiveIn(m.heap),
         NEW p, Fine(p, R \cup {c}, T), Kept(p.heap, m.heap)
  PROVE  Copies(GiveUpCopy(p, c), m, R, T) /\ GiveUpCopy(p, c).ok = FALSE
<1> DEFINE h == m.heap
           Q == R \cup {c}
           f == json_value_free(p, c)
           r == GiveUpCopy(p, c)
<1>1. Good(h, R, T) /\ R \subseteq LiveIn(h)
  BY DEF Fine, Good, Forest
<1>2. Fine(p, Q, T) /\ R \subseteq Q /\ c \in Q /\ Kept(p.heap, h) /\ c \notin LiveIn(h)
  OBVIOUS
<1>3. Q \ {c} = R
  BY <1>1
<1>4. r = Failure(f)
  BY DEF GiveUpCopy
<1> HIDE DEF h, Q, r, f
<1>5. Fine(f, Q \ {c}, T) /\ Kept(f.heap, h)
  BY <1>1, <1>2, FreeFresh DEF f
<1>6. Fine(f, R, T)
  BY <1>3, <1>5
<1>7. Fine(r, R, T) /\ r.heap = f.heap /\ r.ok = FALSE /\ r.got = NULL
  BY <1>4, <1>6, FineFailure
<1>8. Copies(r, m, R, T)
  BY <1>5, <1>7 DEF Copies, h
<1>9. QED
  BY <1>7, <1>8 DEF r

Returned(m, c) == [m EXCEPT !.got = c]

LEMMA FineReturned ==
  ASSUME NEW m, NEW R, NEW T, Fine(m, R, T), NEW c \in Nodes
  PROVE  LET r == Returned(m, c)
         IN  Fine(r, R, T) /\ r.heap = m.heap /\ r.ok = m.ok /\ r.got = c
<1> DEFINE r == Returned(m, c)
<1>1. m \in Memories /\ m.twice = FALSE /\ Good(m.heap, R, T)
  BY DEF Fine
<1>2. /\ m = [heap |-> m.heap, fuel |-> m.fuel, twice |-> m.twice, got |-> m.got, ok |-> m.ok]
      /\ m.heap \in Heaps /\ m.fuel \in Nat /\ m.twice \in BOOLEAN /\ m.ok \in BOOLEAN
  BY <1>1, MemoryParts
<1>3. r = [heap |-> m.heap, fuel |-> m.fuel, twice |-> m.twice, got |-> c, ok |-> m.ok]
  BY <1>2 DEF Returned
<1> DEFINE s == [heap |-> m.heap, fuel |-> m.fuel, twice |-> m.twice, got |-> c, ok |-> m.ok]
<1>4. s \in Memories
  BY <1>2, MakeMemory
<1>5. s.heap = m.heap /\ s.ok = m.ok /\ s.got = c /\ s.twice = m.twice
  OBVIOUS
<1> HIDE DEF r, s
<1>6. r = s
  BY <1>3 DEF s
<1>7. Fine(r, R, T)
  BY <1>1, <1>4, <1>5, <1>6 DEF Fine
<1>8. QED
  BY <1>5, <1>6, <1>7 DEF r

\* The heap g is h with one more item, w, in c.
Added(g, h, type, c, name, w) ==
    g = Taken(h, c, IF type = "object" THEN Append(h[c].names, name) ELSE <<>>,
              Append(h[c].items, w), w)

\* The item's copy is added to the copy of its container.
OneMore(p, type, c, name, w) ==
    IF type = "object" THEN json_object_add(p, c, name, w) ELSE json_array_add(p, c, w)

LEMMA FineCopyAdd ==
  ASSUME NEW m, NEW R, NEW T, Fine(m, R, T), NEW c \in Nodes, c \notin LiveIn(m.heap),
         NEW p, NEW w \in Nodes, w \notin LiveIn(m.heap), w # c,
         Fine(p, (R \cup {c}) \cup {w}, T), Kept(p.heap, m.heap),
         NEW type \in {"array", "object"}, p.heap[c].type = type,
         NEW name \in Seq(STRING)
  PROVE  LET a == OneMore(p, type, c, name, w)
         IN  /\ a.ok \in BOOLEAN
             /\ a.ok => /\ CopyTo(Returned(a, c), m, R, T, c, type)
                        /\ Added(Returned(a, c).heap, p.heap, type, c, name, w)
<1> DEFINE h == p.heap
           Q == (R \cup {c}) \cup {w}
           a == OneMore(p, type, c, name, w)
           names == IF type = "object" THEN Append(h[c].names, name) ELSE <<>>
           items == Append(h[c].items, w)
           k == Taken(h, c, names, items, w)
           r == Returned(a, c)
<1>1. Fine(p, Q, T) /\ R \subseteq LiveIn(m.heap)
  BY DEF Fine, Good, Forest
<1>2. Sound(h) /\ Forest(h, Q) /\ Q \subseteq LiveIn(h) /\ LiveIn(h) \subseteq Nodes
      /\ Kept(h, m.heap)
  BY <1>1 DEF Fine, Good, Forest, LiveIn
<1>3. c \in Q /\ w \in Q /\ c \in LiveIn(h) /\ w \in LiveIn(h)
  BY <1>2
<1>4. Q \ {w} = R \cup {c}
  BY <1>1
<1> HIDE DEF Q, h
<1>5. c \notin Below(h, w)
  <2>1. \A n \in Below(h, w) \ {w} : n \notin Q
    BY <1>2, <1>3, BelowParent
  <2>2. QED
    BY <1>3, <2>1
<1>6. Moved(a, Q, T, w) /\ a.ok \in BOOLEAN /\ (a.ok => a.heap = k)
  <2>1. CASE type = "object"
    <3> DEFINE b == json_object_add(p, c, name, w)
    <3>1. /\ Moved(b, Q, T, w) /\ b.ok \in BOOLEAN
          /\ (b.ok => b.heap = Taken(h, c, Append(h[c].names, name), Append(h[c].items, w), w))
      BY <1>1, <1>3, <1>5, <2>1, FineObjectAdd DEF h
    <3>2. a = b /\ names = Append(h[c].names, name)
      BY <2>1 DEF OneMore
    <3>3. QED
      BY <3>1, <3>2
  <2>2. CASE type # "object"
    <3> DEFINE b == json_array_add(p, c, w)
    <3>1. type = "array"
      BY <2>2
    <3>2. /\ Moved(b, Q, T, w) /\ b.ok \in BOOLEAN
          /\ (b.ok => b.heap = Taken(h, c, <<>>, Append(h[c].items, w), w))
      BY <1>1, <1>3, <1>5, <3>1, FineArrayAdd DEF h
    <3>3. a = b /\ names = <<>>
      BY <2>2 DEF OneMore
    <3>4. QED
      BY <3>2, <3>3
  <2>3. QED
    BY <2>1, <2>2
<1>7. Kept(k, m.heap) /\ k[c].type = type
  <2> HIDE DEF names, items
  <2>1. Kept(k, m.heap) /\ k[c].type = h[c].type
    BY <1>2, <1>3, TakenKept
  <2>2. QED
    BY <2>1 DEF h
<1>8. Added(k, p.heap, type, c, name, w)
  BY DEF Added, h
<1> HIDE DEF a, k, r
<1>9. ASSUME a.ok PROVE CopyTo(r, m, R, T, c, type) /\ Added(r.heap, p.heap, type, c, name, w)
  <2>1. Fine(a, R \cup {c}, T) /\ a.heap = k
    BY <1>4, <1>6, <1>9 DEF Moved
  <2>2. Fine(r, R \cup {c}, T) /\ r.heap = a.heap /\ r.ok = a.ok /\ r.got = c
    BY <2>1, FineReturned DEF r
  <2>3. QED
    BY <1>6, <1>7, <1>8, <1>9, <2>1, <2>2 DEF CopyTo, Copies
<1>10. QED
  BY <1>6, <1>9 DEF a, r

LEMMA FineCopyItem ==
  ASSUME NEW m, NEW R, NEW T, Fine(m, R, T), NEW v \in LiveIn(m.heap), NEW f, Copier(f),
         NEW i \in 1 .. Len(m.heap[v].items), NEW c \in Nodes, c \notin LiveIn(m.heap),
         NEW d, CopyTo(d, m, R, T, c, m.heap[v].type), d.ok
  PROVE  LET from == m.heap[v]
             r == CopyItem(f, d, from, i, c)
             item == f[<<d, from.items[i]>>]
         IN  /\ CopyTo(r, m, R, T, c, from.type)
             /\ r.ok => item.ok /\ Added(r.heap, item.heap, from.type, c, from.names[i], item.got)
<1> DEFINE from == m.heap[v]
           type == from.type
           y == from.items[i]
           item == f[<<d, y>>]
           named == IF type = "object" THEN Malloc(item) ELSE item
           added == IF type = "object" THEN json_object_add(named, c, from.names[i], item.got)
                    ELSE json_array_add(named, c, item.got)
           r == CopyItem(f, d, from, i, c)
           Q == R \cup {c}
<1>1. r = IF ~item.ok THEN GiveUpCopy(item, c)
          ELSE IF ~named.ok \/ ~added.ok THEN GiveUpCopy(json_value_free(named, item.got), c)
          ELSE Returned(added, c)
  BY DEF CopyItem, Returned
<1>2. /\ Fine(d, Q, T) /\ Kept(d.heap, m.heap) /\ d.heap[c].type = type
  BY DEF CopyTo, Copies
<1>3. Good(m.heap, R, T) /\ Sound(m.heap) /\ R \subseteq LiveIn(m.heap) /\ Forest(m.heap, R)
  BY DEF Fine, Good, Forest
<1>4. type \in {"array", "object"} /\ y \in LiveIn(m.heap)
      /\ (type = "object" => from.names[i] \in Seq(STRING))
  <2>1. Fits(type, from.names, from.items) /\ Kids(m.heap, v) = ToSet(from.items)
    BY <1>3, SoundFits
  <2>2. from.items \in Seq(Nodes) /\ from.names \in Seq(Seq(STRING))
        /\ (type = "object" => Len(from.names) = Len(from.items))
    BY <2>1 DEF Fits
  <2>3. from.items # <<>>
    BY <2>2
  <2>4. type \in {"array", "object"}
    BY <2>1, <2>3 DEF Fits
  <2>5. y \in Kids(m.heap, v)
    BY <2>1, <2>2, InSet
  <2>6. y \in LiveIn(m.heap)
    BY <1>3, <2>5 DEF Forest
  <2>7. type = "object" => from.names[i] \in Seq(STRING)
    <3>1. SUFFICES ASSUME type = "object" PROVE from.names[i] \in Seq(STRING)
      OBVIOUS
    <3>2. i \in 1 .. Len(from.names)
      BY <2>2, <3>1
    <3> DEFINE names == from.names
    <3>3. names \in Seq(Seq(STRING)) /\ i \in 1 .. Len(names)
      BY <2>2, <3>2
    <3> HIDE DEF names
    <3>4. names[i] \in Seq(STRING)
      BY <3>3, ElementOfSeq
    <3>5. QED
      BY <3>4 DEF names
  <2>8. QED
    BY <2>4, <2>6, <2>7
<1>5. y \in LiveIn(d.heap) /\ LiveIn(m.heap) \subseteq LiveIn(d.heap)
  BY <1>2, <1>4, KeptLive
<1>6. Copies(item, d, Q, T)
  BY <1>2, <1>5 DEF Copier
<1> HIDE DEF item, from, type, y, r, named, added, Q
<1>7. Kept(item.heap, d.heap) /\ Kept(item.heap, m.heap) /\ item.ok \in BOOLEAN
  BY <1>2, <1>6, KeptLive DEF Copies
<1>8. CASE ~item.ok
  <2>1. r = GiveUpCopy(item, c)
    BY <1>1, <1>8
  <2>2. Fine(item, R \cup {c}, T)
    BY <1>6, <1>8 DEF Copies, Q
  <2>3. Copies(r, m, R, T) /\ r.ok = FALSE
    BY <1>7, <2>1, <2>2, FineGiveUpCopy
  <2>4. CopyTo(r, m, R, T, c, type) /\ r.ok = FALSE
    BY <2>3 DEF CopyTo
  <2>5. QED
    BY <2>4 DEF r, from, type
<1>9. CASE item.ok
  <2> DEFINE w == item.got
             freed == json_value_free(named, w)
  <2>1. w \in Nodes /\ w \notin LiveIn(d.heap) /\ Fine(item, Q \cup {w}, T)
    BY <1>6, <1>9 DEF Copies
  <2>2. c \in LiveIn(d.heap)
    BY <1>2 DEF Fine, Good, Forest, Q
  <2>3. w # c /\ w \notin LiveIn(m.heap)
    BY <1>5, <2>1, <2>2
  <2>4. Fine(named, Q \cup {w}, T) /\ named.heap = item.heap /\ named.ok \in BOOLEAN
    <3>1. CASE type = "object"
      BY <2>1, <3>1, FineMalloc DEF named
    <3>2. CASE type # "object"
      BY <1>7, <2>1, <3>2 DEF named
    <3>3. QED
      BY <3>1, <3>2
  <2>5. named.heap[c].type = type /\ Kept(named.heap, m.heap)
    BY <1>2, <1>7, <2>2, <2>4 DEF Kept
  <2>6. CopyTo(GiveUpCopy(freed, c), m, R, T, c, type) /\ GiveUpCopy(freed, c).ok = FALSE
    <3> DEFINE P == Q \cup {w}
    <3>1. Fine(named, P, T) /\ R \subseteq P /\ w \in P
      BY <2>4 DEF Q
    <3>2. P \ {w} = R \cup {c}
      BY <1>3, <2>3 DEF Q
    <3> HIDE DEF P, w, freed
    <3>3. Fine(freed, P \ {w}, T) /\ Kept(freed.heap, m.heap)
      BY <1>3, <2>3, <2>5, <3>1, FreeFresh DEF freed
    <3>4. Fine(freed, R \cup {c}, T)
      BY <3>2, <3>3
    <3>5. Copies(GiveUpCopy(freed, c), m, R, T) /\ GiveUpCopy(freed, c).ok = FALSE
      BY <3>3, <3>4, FineGiveUpCopy
    <3>6. QED
      BY <3>5 DEF CopyTo
  <2>7. /\ added.ok \in BOOLEAN
        /\ added.ok => /\ CopyTo(Returned(added, c), m, R, T, c, type)
                       /\ Added(Returned(added, c).heap, item.heap, type, c, from.names[i], w)
    <3> DEFINE name == IF type = "object" THEN from.names[i] ELSE <<>>
               a == OneMore(named, type, c, name, w)
    <3>1. name \in Seq(STRING)
      <4>1. <<>> \in Seq(STRING)
        OBVIOUS
      <4>2. QED
        BY <1>4, <4>1
    <3>2. added = a
      BY DEF added, OneMore
    <3>3. Fine(named, (R \cup {c}) \cup {w}, T)
      BY <2>4 DEF Q
    <3> HIDE DEF name, w, a
    <3>4. /\ a.ok \in BOOLEAN
          /\ a.ok => /\ CopyTo(Returned(a, c), m, R, T, c, type)
                     /\ Added(Returned(a, c).heap, named.heap, type, c, name, w)
      BY <1>4, <2>1, <2>3, <2>5, <3>1, <3>3, FineCopyAdd DEF a
    <3> HIDE DEF a, added, named
    <3>5. \A g : Added(g, item.heap, type, c, name, w) => Added(g, item.heap, type, c, from.names[i], w)
      BY DEF Added, name
    <3>6. QED
      BY <2>4, <3>2, <3>4, <3>5
  <2> HIDE DEF freed
  <2>8. CASE ~named.ok \/ ~added.ok
    <3>1. r = GiveUpCopy(freed, c)
      BY <1>1, <1>9, <2>8 DEF freed
    <3>2. QED
      BY <2>6, <3>1 DEF r, from, type
  <2>9. CASE named.ok /\ added.ok
    <3>1. r = Returned(added, c)
      BY <1>1, <1>9, <2>9
    <3> HIDE DEF w
    <3>2. /\ CopyTo(Returned(added, c), m, R, T, c, type)
          /\ Added(Returned(added, c).heap, item.heap, type, c, from.names[i], w)
      BY <2>7, <2>9
    <3>3. CopyTo(r, m, R, T, c, type) /\ Added(r.heap, item.heap, type, c, from.names[i], w)
      BY <3>1, <3>2
    <3>4. CopyTo(r, m, R, T, c, type) /\ item.ok
          /\ Added(r.heap, item.heap, type, c, from.names[i], item.got)
      BY <1>9, <3>3 DEF w
    <3>5. QED
      BY <3>4 DEF r, from, type, item, y
  <2>10. QED
    BY <2>4, <2>7, <2>8, <2>9
<1>10. QED
  BY <1>7, <1>8, <1>9

\* A call that has made nothing.
LEMMA NotCopied ==
  ASSUME NEW m, NEW R, NEW T, Fine(m, R, T)
  PROVE  Copies(Failure(m), m, R, T) /\ Failure(m).ok = FALSE
<1>1. /\ Fine(Failure(m), R, T) /\ Failure(m).heap = m.heap
      /\ Failure(m).ok = FALSE /\ Failure(m).got = NULL
  BY FineFailure
<1>2. QED
  BY <1>1 DEF Copies, Kept

LEMMA FineMade ==
  ASSUME NEW m, NEW R, NEW T, Fine(m, R, T), NEW block, IsNew(block)
  PROVE  LET r == json_value_init(m, block)
         IN  Copies(r, m, R, T) /\ (r.ok => r.heap[r.got] = block)
<1> DEFINE r == json_value_init(m, block)
<1>1. /\ r.ok \in BOOLEAN
      /\ r.ok => /\ r.got \in Nodes \ LiveIn(m.heap)
                 /\ Fine(r, R \cup {r.got}, T)
                 /\ r.heap[r.got] = block
                 /\ \A n \in Nodes \ {r.got} : r.heap[n] = m.heap[n]
      /\ ~r.ok => Fine(r, R, T) /\ r.heap = m.heap /\ r.got = NULL
  BY FineInit
<1> HIDE DEF r
<1>2. Kept(r.heap, m.heap)
  BY <1>1 DEF Kept, LiveIn
<1>3. Copies(r, m, R, T)
  BY <1>1, <1>2 DEF Copies
<1>4. QED
  BY <1>1, <1>3 DEF r

\* The values that rel pairs are copies of each other: so are their items.
Twin(h, rel, x, y) ==
    /\ x \in LiveIn(h) /\ y \in LiveIn(h)
    /\ h[y].type = h[x].type /\ h[y].names = h[x].names /\ h[y].text = h[x].text
    /\ Len(h[y].items) = Len(h[x].items)
    /\ \A i \in 1 .. Len(h[x].items) : <<h[x].items[i], h[y].items[i]>> \in rel

Twins(h, rel) == \A x, y : <<x, y>> \in rel => Twin(h, rel, x, y)

Between(rel, A, B) == \A x, y : <<x, y>> \in rel => x \in A /\ y \in B

LEMMA TwinsLook ==
  ASSUME NEW h, NEW g, NEW rel, Twins(h, rel), NEW A, NEW B, Between(rel, A, B),
         \A n \in A \cup B : n \in LiveIn(h) => Looks(g, h, n)
  PROVE  Twins(g, rel)
<1>1. SUFFICES ASSUME NEW x, NEW y, <<x, y>> \in rel PROVE Twin(g, rel, x, y)
  BY DEF Twins
<1>2. Twin(h, rel, x, y) /\ x \in A /\ y \in B
  BY <1>1 DEF Twins, Between
<1>3. Looks(g, h, x) /\ Looks(g, h, y)
  BY <1>2 DEF Twin
<1>4. QED
  BY <1>2, <1>3 DEF Twin, Looks

LEMMA TwinsTogether ==
  ASSUME NEW h, NEW rel, Twins(h, rel), NEW more, Twins(h, more)
  PROVE  Twins(h, rel \cup more)
<1>1. SUFFICES ASSUME NEW x, NEW y, <<x, y>> \in rel \cup more PROVE Twin(h, rel \cup more, x, y)
  BY DEF Twins
<1>2. Twin(h, rel, x, y) \/ Twin(h, more, x, y)
  BY <1>1 DEF Twins
<1>3. QED
  BY <1>2 DEF Twin

\* The value that a call which copies returns is a copy, paired with v.  S is
\* the part of memory that is copied.
Paired(r, m, S, v) ==
    r.ok => \E rel : /\ Twins(r.heap, rel) /\ <<v, r.got>> \in rel
                     /\ Between(rel, S, LiveIn(r.heap) \ LiveIn(m.heap))

Pairer(f) ==
    \A m, R, T, S, v :
        Fine(m, R, T) /\ S \subseteq LiveIn(m.heap) /\ Closed(m.heap, S) /\ v \in S =>
            Paired(f[<<m, v>>], m, S, v)

\* The first i items of "from" have copies in this cell.
CopiedTo(cell, from, i, rel) ==
    /\ cell.type = from.type /\ cell.text = from.text
    /\ cell.names \in Seq(Seq(STRING)) /\ cell.items \in Seq(Nodes) /\ Len(cell.items) = i
    /\ \A j \in 1 .. i : <<from.items[j], cell.items[j]>> \in rel
    /\ Len(cell.names) = IF from.type = "object" THEN i ELSE 0
    /\ from.type = "object" => \A j \in 1 .. i : cell.names[j] = from.names[j]

PairedTo(d, m, S, c, from, i) ==
    d.ok => \E rel : /\ Twins(d.heap, rel) /\ CopiedTo(d.heap[c], from, i, rel)
                     /\ Between(rel, S, LiveIn(d.heap) \ (LiveIn(m.heap) \cup {c}))

LEMMA OneMoreCopied ==
  ASSUME NEW from, NEW cell, NEW new, NEW i \in Nat, NEW rel, CopiedTo(cell, from, i, rel),
         NEW w \in Nodes, NEW more, <<from.items[i + 1], w>> \in more,
         from.type = "object" => from.names[i + 1] \in Seq(STRING),
         new.type = cell.type, new.text = cell.text, new.items = Append(cell.items, w),
         new.names = IF from.type = "object" THEN Append(cell.names, from.names[i + 1]) ELSE <<>>
  PROVE  CopiedTo(new, from, i + 1, rel \cup more)
<1> DEFINE s == cell.items
           t == Append(s, w)
<1>1. /\ s \in Seq(Nodes) /\ Len(s) = i /\ \A j \in 1 .. i : <<from.items[j], s[j]>> \in rel
  BY DEF CopiedTo
<1>2. t \in Seq(Nodes) /\ Len(t) = i + 1 /\ t[i + 1] = w /\ \A j \in 1 .. i : t[j] = s[j]
  BY <1>1
<1>3. new.items = t
  OBVIOUS
<1> HIDE DEF s, t
<1>4. \A j \in 1 .. i + 1 : j = i + 1 \/ j \in 1 .. i
  OBVIOUS
<1>5. \A j \in 1 .. i + 1 : <<from.items[j], t[j]>> \in rel \cup more
  BY <1>1, <1>2, <1>4
<1>6. CASE from.type = "object"
  <2> DEFINE p == cell.names
             name == from.names[i + 1]
             q == Append(p, name)
  <2>1. p \in Seq(Seq(STRING)) /\ Len(p) = i /\ \A j \in 1 .. i : p[j] = from.names[j]
    BY <1>6 DEF CopiedTo
  <2>2. name \in Seq(STRING) /\ new.names = q
    BY <1>6
  <2> HIDE DEF p, name
  <2>3. q \in Seq(Seq(STRING)) /\ Len(q) = i + 1 /\ q[i + 1] = name /\ \A j \in 1 .. i : q[j] = p[j]
    BY <2>1, <2>2
  <2> HIDE DEF q
  <2>4. \A j \in 1 .. i + 1 : q[j] = from.names[j]
    BY <1>4, <2>1, <2>3 DEF name
  <2>5. QED
    BY <1>2, <1>3, <1>5, <1>6, <2>2, <2>3, <2>4 DEF CopiedTo
<1>7. CASE from.type # "object"
  <2>1. new.names = <<>> /\ <<>> \in Seq(Seq(STRING)) /\ Len(<<>>) = 0
    BY <1>7
  <2>2. QED
    BY <1>2, <1>3, <1>5, <1>7, <2>1 DEF CopiedTo
<1>8. QED
  BY <1>6, <1>7

LEMMA PairedItem ==
  ASSUME NEW m, NEW R, NEW T, Fine(m, R, T), NEW f, Copier(f), Pairer(f),
         NEW S \in SUBSET LiveIn(m.heap), Closed(m.heap, S), NEW v \in S,
         NEW i \in Nat, i + 1 \in 1 .. Len(m.heap[v].items),
         NEW c \in Nodes, c \notin LiveIn(m.heap),
         NEW d, CopyTo(d, m, R, T, c, m.heap[v].type), d.ok, PairedTo(d, m, S, c, m.heap[v], i)
  PROVE  PairedTo(CopyItem(f, d, m.heap[v], i + 1, c), m, S, c, m.heap[v], i + 1)
<1> DEFINE from == m.heap[v]
           k == i + 1
           r == CopyItem(f, d, from, k, c)
           y == from.items[k]
           item == f[<<d, y>>]
           w == item.got
           Q == R \cup {c}
           new == LiveIn(d.heap) \ (LiveIn(m.heap) \cup {c})
           last == LiveIn(item.heap) \ LiveIn(d.heap)
           here == LiveIn(item.heap) \ (LiveIn(m.heap) \cup {c})
<1>1. SUFFICES ASSUME r.ok
               PROVE  \E rel : /\ Twins(r.heap, rel) /\ CopiedTo(r.heap[c], from, k, rel)
                               /\ Between(rel, S, LiveIn(r.heap) \ (LiveIn(m.heap) \cup {c}))
  BY DEF PairedTo
<1>2. v \in LiveIn(m.heap) /\ k \in 1 .. Len(m.heap[v].items)
  OBVIOUS
<1>3. /\ CopyTo(r, m, R, T, c, from.type)
      /\ item.ok /\ Added(r.heap, item.heap, from.type, c, from.names[k], w)
  <2> HIDE DEF k
  <2>1. /\ CopyTo(r, m, R, T, c, from.type)
        /\ r.ok => item.ok /\ Added(r.heap, item.heap, from.type, c, from.names[k], w)
    BY <1>2, FineCopyItem
  <2>2. QED
    BY <1>1, <2>1
<1>4. /\ Fine(d, Q, T) /\ Kept(d.heap, m.heap) /\ Sound(m.heap) /\ Forest(m.heap, R)
      /\ c \in LiveIn(d.heap) /\ LiveIn(m.heap) \subseteq LiveIn(d.heap)
  <2>1. Fine(d, Q, T) /\ Kept(d.heap, m.heap)
    BY DEF CopyTo, Copies
  <2>2. QED
    BY <2>1, KeptLive DEF Fine, Good, Forest
<1>5. /\ y \in S /\ from.items \in Seq(Nodes)
      /\ (from.type = "object" => from.names[k] \in Seq(STRING))
  <2>1. Fits(from.type, from.names, from.items) /\ Kids(m.heap, v) = ToSet(from.items)
    BY <1>2, <1>4, SoundFits
  <2>2. from.items \in Seq(Nodes) /\ from.names \in Seq(Seq(STRING))
        /\ (from.type = "object" => Len(from.names) = Len(from.items))
    BY <2>1 DEF Fits
  <2>3. y \in Kids(m.heap, v)
    BY <1>2, <2>1, <2>2, InSet
  <2>4. y \in S
    BY <2>3 DEF Closed
  <2>5. from.type = "object" => from.names[k] \in Seq(STRING)
    <3>1. SUFFICES ASSUME from.type = "object" PROVE from.names[k] \in Seq(STRING)
      OBVIOUS
    <3> DEFINE names == from.names
    <3>2. names \in Seq(Seq(STRING)) /\ k \in 1 .. Len(names)
      BY <1>2, <2>2, <3>1
    <3> HIDE DEF names, k
    <3>3. names[k] \in Seq(STRING)
      BY <3>2, ElementOfSeq
    <3>4. QED
      BY <3>3 DEF names
  <2>6. QED
    BY <2>2, <2>4, <2>5
<1> HIDE DEF r, item, y, from, k
<1>6. y \in LiveIn(d.heap) /\ S \subseteq LiveIn(d.heap) /\ Closed(d.heap, S)
  <2>1. \A n \in S : n \in LiveIn(m.heap) /\ d.heap[n] = m.heap[n]
    BY <1>4 DEF Kept
  <2>2. \A n \in S : Kids(d.heap, n) = Kids(m.heap, n)
    BY <2>1 DEF Kids
  <2>3. QED
    BY <1>4, <1>5, <2>2 DEF Closed
<1>7. Copies(item, d, Q, T)
  BY <1>4, <1>6 DEF Copier, item
<1>8. PICK more : Twins(item.heap, more) /\ <<y, w>> \in more /\ Between(more, S, last)
  <2>1. Paired(item, d, S, y)
    BY <1>4, <1>5, <1>6 DEF Pairer, item
  <2>2. QED
    BY <1>3, <2>1 DEF Paired
<1>9. PICK rel : Twins(d.heap, rel) /\ CopiedTo(d.heap[c], from, i, rel) /\ Between(rel, S, new)
  BY DEF PairedTo, from
<1>10. /\ w \in LiveIn(item.heap) /\ w # c /\ w \in Nodes /\ Sound(item.heap)
       /\ Kept(item.heap, d.heap) /\ LiveIn(d.heap) \subseteq LiveIn(item.heap)
       /\ c \in LiveIn(item.heap) /\ item.heap[c] = d.heap[c]
  <2>1. w \in Nodes \ LiveIn(d.heap) /\ Fine(item, Q \cup {w}, T) /\ Kept(item.heap, d.heap)
    BY <1>3, <1>7 DEF Copies
  <2>2. w \in LiveIn(item.heap) /\ Sound(item.heap)
    BY <2>1 DEF Fine, Good, Forest
  <2>3. QED
    BY <1>4, <2>1, <2>2, KeptLive DEF Kept
<1> DEFINE pairs == rel \cup more
<1>11. Twins(item.heap, pairs) /\ Between(pairs, S, here)
  <2>1. Twins(item.heap, rel)
    <3>1. \A n \in S \cup new : n \in LiveIn(d.heap) => Looks(item.heap, d.heap, n)
      BY <1>10 DEF Kept, Looks
    <3>2. QED
      BY <1>9, <3>1, TwinsLook
  <2>2. Twins(item.heap, pairs)
    BY <1>8, <2>1, TwinsTogether
  <2>3. new \subseteq here /\ last \subseteq here
    BY <1>4, <1>10
  <2> HIDE DEF new, last, here
  <2>4. Between(pairs, S, here)
    BY <1>8, <1>9, <2>3 DEF Between
  <2>5. QED
    BY <2>2, <2>4
<1> DEFINE cell == item.heap[c]
           names == IF from.type = "object" THEN Append(cell.names, from.names[k]) ELSE <<>>
           items == Append(cell.items, w)
<1>12. /\ LiveIn(r.heap) = LiveIn(item.heap)
       /\ r.heap[c].type = cell.type /\ r.heap[c].names = names /\ r.heap[c].items = items
       /\ r.heap[c].text = cell.text
       /\ \A n \in LiveIn(item.heap) \ {c} : Looks(r.heap, item.heap, n)
  <2>1. r.heap = Taken(item.heap, c, names, items, w)
    BY <1>3 DEF Added
  <2>2. Fine(r, Q, T)
    BY <1>1, <1>3 DEF CopyTo, Copies
  <2>3. Sound(r.heap) /\ c \in LiveIn(r.heap)
    BY <2>2 DEF Fine, Good, Forest
  <2> HIDE DEF names, items
  <2>4. QED
    BY <1>10, <2>1, <2>3, TakenLooks
<1>13. CopiedTo(r.heap[c], from, k, pairs)
  <2>1. CopiedTo(cell, from, i, rel)
    BY <1>9, <1>10
  <2>2. <<from.items[i + 1], w>> \in more
    BY <1>8 DEF y, k
  <2>3. from.type = "object" => from.names[i + 1] \in Seq(STRING)
    BY <1>5 DEF k
  <2>4. /\ r.heap[c].type = cell.type /\ r.heap[c].text = cell.text
        /\ r.heap[c].items = Append(cell.items, w)
        /\ r.heap[c].names = IF from.type = "object" THEN Append(cell.names, from.names[i + 1])
                             ELSE <<>>
    BY <1>12 DEF k
  <2> HIDE DEF cell
  <2>5. CopiedTo(r.heap[c], from, i + 1, rel \cup more)
    BY <1>10, <2>1, <2>2, <2>3, <2>4, OneMoreCopied
  <2>6. QED
    BY <2>5 DEF k
<1> HIDE DEF pairs
<1>14. Twins(r.heap, pairs)
  <2>1. c \notin S /\ c \notin here
    OBVIOUS
  <2>2. \A n \in S \cup here : n \in LiveIn(item.heap) => Looks(r.heap, item.heap, n)
    BY <1>12, <2>1
  <2>3. QED
    BY <1>11, <2>2, TwinsLook
<1>15. Between(pairs, S, LiveIn(r.heap) \ (LiveIn(m.heap) \cup {c}))
  BY <1>11, <1>12
<1>16. QED
  BY <1>13, <1>14, <1>15

LEMMA PairedMade ==
  ASSUME NEW m, NEW R, NEW T, Fine(m, R, T), NEW S, NEW v \in LiveIn(m.heap),
         NEW made, made = json_value_init(m, Block(m.heap[v].type, m.heap[v].text))
  PROVE  PairedTo(made, m, S, made.got, m.heap[v], 0)
<1> DEFINE from == m.heap[v]
           block == Block(from.type, from.text)
           c == made.got
<1>1. SUFFICES ASSUME made.ok
               PROVE  /\ Twins(made.heap, {}) /\ CopiedTo(made.heap[c], from, 0, {})
                      /\ Between({}, S, LiveIn(made.heap) \ (LiveIn(m.heap) \cup {c}))
  BY DEF PairedTo
<1>2. from \in Cells
  BY SoundFits DEF Fine, Good
<1>3. IsNew(block)
  BY <1>2, BlockIsNew DEF Cells
<1>4. made.heap[c] = block
  <2> HIDE DEF block
  <2>1. made = json_value_init(m, block)
    BY DEF block
  <2>2. QED
    BY <1>1, <1>3, <2>1, FineMade
<1>5. /\ block.type = from.type /\ block.text = from.text /\ block.names = <<>> /\ block.items = <<>>
  BY DEF Block
<1>6. CopiedTo(block, from, 0, {})
  <2>1. <<>> \in Seq(Seq(STRING)) /\ <<>> \in Seq(Nodes) /\ Len(<<>>) = 0
    OBVIOUS
  <2> HIDE DEF block, from
  <2>2. QED
    BY <1>5, <2>1 DEF CopiedTo
<1>7. Twins(made.heap, {}) /\ Between({}, S, LiveIn(made.heap) \ (LiveIn(m.heap) \cup {c}))
  BY DEF Twins, Between
<1>8. QED
  BY <1>4, <1>6, <1>7

LEMMA SameNames ==
  ASSUME NEW S, NEW s \in Seq(S), NEW t \in Seq(S), Len(s) = Len(t), \A i \in 1 .. Len(t) : s[i] = t[i]
  PROVE  s = t
OBVIOUS

\* All items have been copied.
LEMMA AllCopied ==
  ASSUME NEW m, NEW R, NEW T, Fine(m, R, T), NEW S \in SUBSET LiveIn(m.heap), NEW v \in S,
         NEW c \in Nodes, c \notin LiveIn(m.heap),
         NEW d, CopyTo(d, m, R, T, c, m.heap[v].type),
         PairedTo(d, m, S, c, m.heap[v], Len(m.heap[v].items))
  PROVE  Paired(d, m, S, v)
<1> DEFINE from == m.heap[v]
           n == Len(from.items)
           h == d.heap
           new == LiveIn(h) \ LiveIn(m.heap)
<1>1. SUFFICES ASSUME d.ok
               PROVE  \E rel : Twins(h, rel) /\ <<v, d.got>> \in rel /\ Between(rel, S, new)
  BY DEF Paired
<1>2. /\ Fine(d, R \cup {c}, T) /\ Kept(h, m.heap) /\ d.got = c /\ v \in LiveIn(m.heap)
  BY <1>1 DEF CopyTo, Copies
<1>3. /\ c \in new /\ h[v] = from /\ v \in LiveIn(h) /\ Sound(h) /\ Sound(m.heap)
  <2>1. c \in LiveIn(h) /\ Sound(h) /\ Sound(m.heap)
    BY <1>2 DEF Fine, Good, Forest
  <2>2. QED
    BY <1>2, <2>1, KeptLive DEF Kept
<1>4. PICK rel : /\ Twins(h, rel) /\ CopiedTo(h[c], from, n, rel)
                 /\ Between(rel, S, LiveIn(h) \ (LiveIn(m.heap) \cup {c}))
  BY <1>1 DEF PairedTo
<1>5. Fits(from.type, from.names, from.items)
  BY <1>2, <1>3, SoundFits
<1> HIDE DEF from, h, n
<1>6. h[c].names = from.names
  <2> DEFINE names == h[c].names
  <2>1. /\ names \in Seq(Seq(STRING)) /\ from.names \in Seq(Seq(STRING))
        /\ Len(names) = Len(from.names)
    BY <1>4, <1>5 DEF CopiedTo, Fits, n
  <2>2. \A i \in 1 .. Len(from.names) : names[i] = from.names[i]
    <3>1. CASE from.type = "object"
      <4>1. Len(from.names) = n
        BY <1>5, <3>1 DEF Fits, n
      <4>2. QED
        BY <1>4, <3>1, <4>1 DEF CopiedTo
    <3>2. CASE from.type # "object"
      BY <1>5, <3>2 DEF Fits
    <3>3. QED
      BY <3>1, <3>2
  <2> HIDE DEF names
  <2>3. names = from.names
    BY <2>1, <2>2, SameNames
  <2>4. QED
    BY <2>3 DEF names
<1> DEFINE all == rel \cup {<<v, c>>}
<1>7. Twin(h, all, v, c)
  BY <1>3, <1>4, <1>6 DEF Twin, CopiedTo, n
<1>8. ASSUME NEW x, NEW y, <<x, y>> \in all PROVE Twin(h, all, x, y)
  <2>1. CASE <<x, y>> \in rel
    BY <1>4, <2>1 DEF Twins, Twin
  <2>2. CASE <<x, y>> = <<v, c>>
    BY <1>7, <2>2
  <2>3. QED
    BY <1>8, <2>1, <2>2
<1>9. Twins(h, all)
  BY <1>8 DEF Twins
<1>10. Between(all, S, new)
  BY <1>3, <1>4 DEF Between
<1>11. QED
  BY <1>2, <1>9, <1>10

LEMMA FineCopyBy ==
  ASSUME NEW m, NEW R, NEW T, Fine(m, R, T), NEW S \in SUBSET LiveIn(m.heap), Closed(m.heap, S),
         NEW v \in S, NEW f, Copier(f), Pairer(f)
  PROVE  Copies(CopyBy(f, m, v), m, R, T) /\ Paired(CopyBy(f, m, v), m, S, v)
<1> DEFINE from == m.heap[v]
           n == Len(from.items)
           block == Block(from.type, from.text)
           made == json_value_init(m, block)
           c == made.got
<1>1. from \in Cells /\ v \in LiveIn(m.heap)
  BY SoundFits DEF Fine, Good
<1>2. n \in Nat /\ from.type \in Types /\ from.text \in Seq(STRING)
  BY <1>1 DEF Cells
<1>3. IsNew(block) /\ block.type = from.type
  BY <1>2, BlockIsNew
<1>4. PICK done : CopyingItems(done, f, m, v) /\ CopyBy(f, m, v) = done[n]
  BY <1>2, CopyByParts
<1>5. /\ done[0] = made
      /\ \A i \in 1 .. n : done[i] = IF ~done[i - 1].ok THEN done[i - 1]
                                     ELSE CopyItem(f, done[i - 1], from, i, c)
  BY <1>4 DEF CopyingItems
<1>6. PairedTo(made, m, S, c, from, 0)
  BY <1>1, PairedMade
<1> HIDE DEF block
<1>7. Copies(made, m, R, T) /\ (made.ok => made.heap[c] = block)
  BY <1>3, FineMade
<1> HIDE DEF made, from, n
<1>8. CASE ~made.ok
  <2> DEFINE to == {i \in Nat : i <= n => done[i] = made}
  <2>1. 0 \in to
    BY <1>5
  <2>2. ASSUME NEW i \in to PROVE i + 1 \in to
    <3>1. i \in Nat /\ i + 1 \in Nat
      OBVIOUS
    <3>2. SUFFICES ASSUME i + 1 <= n PROVE done[i + 1] = made
      BY <3>1
    <3>3. i <= n /\ i + 1 \in 1 .. n /\ (i + 1) - 1 = i
      BY <1>2, <3>1, <3>2
    <3>4. done[i] = made
      BY <3>3
    <3>5. QED
      BY <1>5, <1>8, <3>3, <3>4
  <2>3. to \in SUBSET Nat
    OBVIOUS
  <2>4. n \in to
    <3> HIDE DEF to
    <3>1. to = Nat
      BY <2>1, <2>2, <2>3, SetInduction
    <3>2. QED
      BY <1>2, <3>1
  <2>5. done[n] = made
    BY <1>2, <2>4
  <2>6. QED
    BY <1>4, <1>7, <1>8, <2>5 DEF Paired
<1>9. CASE made.ok
  <2>1. c \in Nodes /\ c \notin LiveIn(m.heap) /\ CopyTo(made, m, R, T, c, from.type)
    BY <1>3, <1>7, <1>9 DEF Copies, CopyTo
  <2> HIDE DEF c
  <2> DEFINE Along(i) == /\ CopyTo(done[i], m, R, T, c, from.type)
                         /\ PairedTo(done[i], m, S, c, from, i)
             to == {i \in Nat : i <= n => Along(i)}
  <2>2. 0 \in to
    BY <1>5, <1>6, <2>1
  <2>3. ASSUME NEW i \in to PROVE i + 1 \in to
    <3>1. i \in Nat /\ i + 1 \in Nat
      OBVIOUS
    <3>2. SUFFICES ASSUME i + 1 <= n PROVE Along(i + 1)
      BY <3>1
    <3>3. i <= n /\ i + 1 \in 1 .. n /\ (i + 1) - 1 = i
      BY <1>2, <3>1, <3>2
    <3> DEFINE d == done[i]
    <3>4. CopyTo(d, m, R, T, c, from.type) /\ PairedTo(d, m, S, c, from, i)
      BY <3>3
    <3>5. done[i + 1] = IF ~d.ok THEN d ELSE CopyItem(f, d, from, i + 1, c)
      <4>1. done[i + 1] = IF ~done[(i + 1) - 1].ok THEN done[(i + 1) - 1]
                          ELSE CopyItem(f, done[(i + 1) - 1], from, i + 1, c)
        BY <1>5, <3>3 DEF c
      <4>2. QED
        BY <3>3, <4>1
    <3> HIDE DEF d
    <3>6. CASE ~d.ok
      BY <3>4, <3>5, <3>6 DEF PairedTo
    <3>7. CASE d.ok
      <4>1. i + 1 \in 1 .. Len(m.heap[v].items) /\ CopyTo(d, m, R, T, c, m.heap[v].type)
            /\ PairedTo(d, m, S, c, m.heap[v], i)
        BY <3>3, <3>4 DEF n, from
      <4>2. PairedTo(CopyItem(f, d, m.heap[v], i + 1, c), m, S, c, m.heap[v], i + 1)
        BY <2>1, <3>1, <3>7, <4>1, PairedItem
      <4> DEFINE j == i + 1
      <4>3. j \in 1 .. Len(m.heap[v].items)
        BY <4>1
      <4> HIDE DEF j
      <4>4. CopyTo(CopyItem(f, d, m.heap[v], j, c), m, R, T, c, m.heap[v].type)
        BY <1>1, <2>1, <3>7, <4>1, <4>3, FineCopyItem
      <4>5. QED
        BY <3>5, <3>7, <4>2, <4>4 DEF j, from
    <3>8. QED
      BY <3>6, <3>7
  <2>4. to \in SUBSET Nat
    OBVIOUS
  <2>5. n \in to
    <3> HIDE DEF to
    <3>1. to = Nat
      BY <2>2, <2>3, <2>4, SetInduction
    <3>2. QED
      BY <1>2, <3>1
  <2> DEFINE d == done[n]
  <2>6. CopyTo(d, m, R, T, c, m.heap[v].type) /\ PairedTo(d, m, S, c, m.heap[v], Len(m.heap[v].items))
    BY <1>2, <2>5 DEF from, n
  <2> HIDE DEF d
  <2>7. Paired(d, m, S, v)
    BY <2>1, <2>6, AllCopied
  <2>8. QED
    BY <1>4, <2>6, <2>7 DEF d, CopyTo
<1>10. QED
  BY <1>7, <1>8, <1>9 DEF Copies

LEMMA CopyingLevel ==
  ASSUME NEW n \in Nat, NEW copied, Copying(copied, n),
         NEW k \in 0 .. n, NEW p \in Memories, NEW w \in Nodes
  PROVE  copied[k][<<p, w>>] = IF k = 0 THEN Failure(p) ELSE CopyBy(copied[k - 1], p, w)
<1>1. copied[k] = [x \in Memories \X Nodes |->
                     IF k = 0 THEN Failure(x[1]) ELSE CopyBy(copied[k - 1], x[1], x[2])]
  BY DEF Copying
<1>2. <<p, w>> \in Memories \X Nodes /\ <<p, w>>[1] = p /\ <<p, w>>[2] = w
  OBVIOUS
<1>3. QED
  BY <1>1, <1>2

\* At every level what is returned is a copy, or nothing is left.
LEMMA FineCopying ==
  ASSUME NEW n \in Nat, NEW copied, Copying(copied, n)
  PROVE  \A k \in 0 .. n : Copier(copied[k]) /\ Pairer(copied[k])
<1>1. n \in Nat
  OBVIOUS
<1>2. ASSUME NEW k \in 0 .. n, NEW p, NEW w, p \in Memories, w \in Nodes
      PROVE  copied[k][<<p, w>>] = IF k = 0 THEN Failure(p) ELSE CopyBy(copied[k - 1], p, w)
  BY <1>2, CopyingLevel
<1> DEFINE to == {k \in Nat : k <= n => Copier(copied[k]) /\ Pairer(copied[k])}
<1>3. 0 \in to
  <2>1. 0 \in 0 .. n
    BY <1>1
  <2>2. ASSUME NEW p, NEW Q, NEW U, NEW S, NEW w, Fine(p, Q, U), w \in LiveIn(p.heap)
        PROVE  Copies(copied[0][<<p, w>>], p, Q, U) /\ Paired(copied[0][<<p, w>>], p, S, w)
    <3>1. p \in Memories /\ w \in Nodes
      BY <2>2 DEF Fine, LiveIn
    <3>2. copied[0][<<p, w>>] = Failure(p)
      BY <1>2, <2>1, <3>1
    <3>3. QED
      BY <2>2, <3>2, NotCopied DEF Paired
  <2>3. Copier(copied[0]) /\ Pairer(copied[0])
    BY <2>2 DEF Copier, Pairer
  <2>4. QED
    BY <2>3
<1>4. ASSUME NEW k \in to PROVE k + 1 \in to
  <2>1. k \in Nat /\ k + 1 \in Nat
    OBVIOUS
  <2>2. SUFFICES ASSUME k + 1 <= n PROVE Copier(copied[k + 1]) /\ Pairer(copied[k + 1])
    BY <2>1
  <2>3. k <= n /\ k + 1 \in 0 .. n /\ (k + 1) - 1 = k /\ k + 1 # 0
    BY <1>1, <2>1, <2>2
  <2> DEFINE f == copied[k]
             g == copied[k + 1]
  <2>4. Copier(f) /\ Pairer(f)
    BY <2>3
  <2>5. ASSUME NEW p, NEW w, p \in Memories, w \in Nodes
        PROVE  g[<<p, w>>] = CopyBy(f, p, w)
    <3>1. g[<<p, w>>] = IF k + 1 = 0 THEN Failure(p) ELSE CopyBy(copied[(k + 1) - 1], p, w)
      BY <1>2, <2>3, <2>5
    <3>2. QED
      BY <2>3, <3>1
  <2> HIDE DEF f, g
  <2>6. ASSUME NEW p, NEW Q, NEW U, NEW w, Fine(p, Q, U), w \in LiveIn(p.heap)
        PROVE  Copies(g[<<p, w>>], p, Q, U)
    <3> DEFINE S == LiveIn(p.heap)
    <3>1. p \in Memories /\ w \in Nodes
      BY <2>6 DEF Fine, LiveIn
    <3>2. Copies(CopyBy(f, p, w), p, Q, U)
      <4>1. S \in SUBSET LiveIn(p.heap) /\ w \in S /\ Closed(p.heap, S)
        BY <2>6 DEF Fine, Good, Forest, Closed
      <4> HIDE DEF S
      <4>2. QED
        BY <2>4, <2>6, <4>1, FineCopyBy
    <3>3. QED
      BY <2>5, <3>1, <3>2
  <2>7. ASSUME NEW p, NEW Q, NEW U, NEW S, NEW w, Fine(p, Q, U), S \subseteq LiveIn(p.heap),
               Closed(p.heap, S), w \in S
        PROVE  Paired(g[<<p, w>>], p, S, w)
    <3>1. p \in Memories /\ w \in Nodes
      BY <2>7 DEF Fine, LiveIn
    <3>2. Paired(CopyBy(f, p, w), p, S, w)
      BY <2>4, <2>7, FineCopyBy
    <3>3. QED
      BY <2>5, <3>1, <3>2
  <2>8. QED
    BY <2>6, <2>7 DEF Copier, Pairer, g
<1>5. to \in SUBSET Nat
  OBVIOUS
<1>6. to = Nat
  <2> HIDE DEF to
  <2>1. QED
    BY <1>3, <1>4, <1>5, SetInduction
<1>7. QED
  <2>1. SUFFICES ASSUME NEW k \in 0 .. n PROVE Copier(copied[k]) /\ Pairer(copied[k])
    OBVIOUS
  <2>2. k \in Nat /\ k <= n
    OBVIOUS
  <2>3. k \in to
    BY <1>6, <2>2
  <2>4. QED
    BY <2>2, <2>3

\* The copy of a value is a new root; if an allocation fails, nothing is left.
LEMMA FineDeepCopy ==
  ASSUME NEW m, NEW R, NEW T, Fine(m, R, T), NEW v \in LiveIn(m.heap)
  PROVE  /\ Copies(json_value_deep_copy(m, v), m, R, T)
         /\ Paired(json_value_deep_copy(m, v), m, LiveIn(m.heap), v)
<1> DEFINE n == Cardinality(Nodes)
<1>1. n \in Nat /\ n \in 0 .. n
  BY NodesAssumption, FS_CardinalityType
<1>2. PICK copied : /\ Copying(copied, n)
                    /\ \A p, w : json_value_deep_copy(p, w) = copied[n][<<p, w>>]
  BY <1>1, DeepCopyParts
<1> HIDE DEF n
<1>3. Copier(copied[n]) /\ Pairer(copied[n])
  BY <1>1, <1>2, FineCopying
<1>4. Closed(m.heap, LiveIn(m.heap))
  BY DEF Fine, Good, Forest, Closed
<1>5. QED
  BY <1>2, <1>3, <1>4 DEF Copier, Pairer

-----------------------------------------------------------------------------
\* Texts

LEMMA NatMin ==
  ASSUME NEW S \in SUBSET Nat, S # {}
  PROVE  Min(S) \in S
<1>1. \E x \in S : \A y \in S : x <= y
  BY Smallest
<1>2. QED
  BY <1>1 DEF Min

LEMMA SkipNat ==
  ASSUME NEW t \in Seq(STRING), NEW i \in Nat
  PROVE  SKIP_WHITESPACES(t, i) \in Nat
<1> DEFINE S == {j \in i .. i + Len(t) : At(t, j) \notin {"sp", "nl"}}
<1>1. DOMAIN t = 1 .. Len(t) /\ Len(t) \in Nat
  OBVIOUS
<1>2. S # {}
  <2>1. CASE i = 0
    <3>1. i \notin DOMAIN t
      BY <1>1, <2>1
    <3>2. At(t, i) = "end" /\ i \in i .. i + Len(t)
      BY <1>1, <3>1 DEF At
    <3>3. i \in S
      BY <3>2
    <3>4. QED
      BY <3>3
  <2>2. CASE i # 0
    <3> DEFINE j == i + Len(t)
    <3>1. j \notin DOMAIN t /\ j \in i .. i + Len(t)
      BY <1>1, <2>2
    <3>2. At(t, j) = "end"
      BY <3>1 DEF At
    <3>3. j \in S
      BY <3>1, <3>2
    <3>4. QED
      BY <3>3
  <2>3. QED
    BY <2>1, <2>2
<1>3. S \in SUBSET Nat /\ SKIP_WHITESPACES(t, i) = Min(S)
  BY DEF SKIP_WHITESPACES
<1> HIDE DEF S
<1>4. QED
  BY <1>2, <1>3, NatMin

LEMMA QuotesNat ==
  ASSUME NEW t \in Seq(STRING), NEW i \in Nat
  PROVE  skip_quotes(t, i) \in 0 .. Len(t)
<1> DEFINE S(escaped) == {j \in i + 1 .. Len(t) : t[j] = "quote" /\ ~escaped[j]}
<1>1. \E g : skip_quotes(t, i) = IF S(g) = {} THEN 0 ELSE Min(S(g))
  BY Zenon DEF skip_quotes
<1>2. PICK g : skip_quotes(t, i) = IF S(g) = {} THEN 0 ELSE Min(S(g))
  BY <1>1
<1>3. S(g) \subseteq 1 .. Len(t) /\ S(g) \in SUBSET Nat /\ Len(t) \in Nat
  OBVIOUS
<1> HIDE DEF S
<1>4. QED
  BY <1>2, <1>3, NatMin

\* The symbols of a string are spelled one after the other.
Spelling(spelled, s) ==
    /\ spelled[0] = Spelled(<<>>, "no")
    /\ \A n \in 1 .. Len(s) : spelled[n] = Spell(spelled[n - 1], s[n])

IsSpelled(d) == d.chars \in Seq(STRING)

LEMMA SpelledIs ==
  ASSUME NEW chars \in Seq(STRING), NEW escape
  PROVE  IsSpelled(Spelled(chars, escape))
BY DEF Spelled, IsSpelled

LEMMA SpellIs ==
  ASSUME NEW d, IsSpelled(d), NEW c \in STRING
  PROVE  IsSpelled(Spell(d, c))
<1> DEFINE chars == d.chars
<1>1. chars \in Seq(STRING)
  BY DEF IsSpelled
<1> HIDE DEF chars
<1>2. \A x \in STRING : Append(chars, x) \in Seq(STRING)
  BY <1>1, AppendItem
<1>b. Append(chars, "nl") \in Seq(STRING) /\ Append(chars, "ctl") \in Seq(STRING)
  BY <1>2, EscapesAssumption
<1>3. \E to \in Seq(STRING) : \E escape : Spell(d, c) = Spelled(to, escape)
  BY <1>1, <1>2, <1>b DEF Spell, chars
<1>4. QED
  BY <1>3, SpelledIs

LEMMA ProcessParts ==
  ASSUME NEW s \in Seq(STRING)
  PROVE  \E spelled : Spelling(spelled, s) /\ process_string(s) = spelled[Len(s)]
<1> DEFINE n == Len(s)
           Step(g, i) == IF i = 0 THEN Spelled(<<>>, "no") ELSE Spell(g[i - 1], s[i])
           UpTo(g, q) == g = [i \in 0 .. q |-> Step(g, i)]
           spelled == CHOOSE g : UpTo(g, n)
           to == {q \in Nat : \E g : UpTo(g, q)}
<1>1. n \in Nat /\ 0 \in 0 .. n
  OBVIOUS
<1>2. process_string(s) = spelled[n]
  BY Zenon DEF process_string
<1>3. to = Nat
  <2>1. 0 \in to
    <3> DEFINE e == [i \in 0 .. 0 |-> Step(<<>>, 0)]
    <3>1. Step(e, 0) = Step(<<>>, 0)
      OBVIOUS
    <3> HIDE DEF Step
    <3>2. e[0] = Step(e, 0)
      BY <3>1
    <3>3. e = [i \in 0 .. 0 |-> Step(e, i)]
      BY <3>2
    <3>4. UpTo(e, 0)
      BY <3>3
    <3>5. QED
      BY <3>4
  <2>2. ASSUME NEW q \in to PROVE q + 1 \in to
    <3>1. PICK e : UpTo(e, q)
      OBVIOUS
    <3> DEFINE g == [i \in 0 .. q + 1 |-> IF i = q + 1 THEN Step(e, q + 1) ELSE e[i]]
    <3>2. q \in Nat /\ q + 1 \in Nat /\ q + 1 \in 0 .. q + 1
          /\ (\A i \in 0 .. q + 1 : i # q + 1 => i \in 0 .. q)
          /\ (\A i \in 0 .. q : i \in 0 .. q + 1 /\ i # q + 1)
          /\ (\A i \in 0 .. q + 1 : i # 0 => i - 1 \in 0 .. q)
      OBVIOUS
    <3>3. \A i \in 0 .. q : e[i] = Step(e, i)
      BY <3>1
    <3> HIDE DEF Step
    <3>4. (\A i \in 0 .. q : g[i] = e[i]) /\ g[q + 1] = Step(e, q + 1)
      BY <3>2
    <3>5. g = [i \in 0 .. q + 1 |-> g[i]]
      OBVIOUS
    <3> HIDE DEF g
    <3>6. \A i \in 0 .. q + 1 : Step(g, i) = Step(e, i)
      <4>1. SUFFICES ASSUME NEW i \in 0 .. q + 1 PROVE Step(g, i) = Step(e, i)
        OBVIOUS
      <4>2. i # 0 => g[i - 1] = e[i - 1]
        BY <3>2, <3>4
      <4>3. CASE i = 0
        BY <4>3 DEF Step
      <4>4. CASE i # 0
        BY <4>2, <4>4, Zenon DEF Step
      <4>5. QED
        BY <4>3, <4>4
    <3>7. \A i \in 0 .. q + 1 : g[i] = Step(g, i)
      BY <3>2, <3>3, <3>4, <3>6
    <3>8. UpTo(g, q + 1)
      BY <3>5, <3>7
    <3> HIDE DEF UpTo
    <3>9. QED
      BY <3>2, <3>8
  <2>3. to \in SUBSET Nat
    OBVIOUS
  <2> HIDE DEF to
  <2>4. QED
    BY <2>1, <2>2, <2>3, SetInduction
<1>4. UpTo(spelled, n)
  <2>1. \E g : UpTo(g, n)
    BY <1>1, <1>3
  <2> HIDE DEF UpTo
  <2>2. QED
    BY <2>1
<1> HIDE DEF spelled
<1>5. Spelling(spelled, s)
  <2>1. \A i \in 0 .. n : spelled[i] = Step(spelled, i)
    BY <1>4
  <2>2. spelled[0] = Spelled(<<>>, "no")
    BY <1>1, <2>1
  <2>3. ASSUME NEW i \in 1 .. n PROVE spelled[i] = Spell(spelled[i - 1], s[i])
    <3>1. i \in 0 .. n /\ i # 0
      OBVIOUS
    <3>2. spelled[i] = Step(spelled, i)
      BY <2>1, <3>1
    <3>3. QED
      BY <3>1, <3>2, Zenon
  <2>4. QED
    BY <2>2, <2>3 DEF Spelling
<1>6. QED
  BY <1>2, <1>5

LEMMA ProcessIs ==
  ASSUME NEW s \in Seq(STRING)
  PROVE  IsSpelled(process_string(s))
<1>1. PICK spelled : Spelling(spelled, s) /\ process_string(s) = spelled[Len(s)]
  BY ProcessParts
<1> DEFINE n == Len(s)
           to == {i \in Nat : i <= n => IsSpelled(spelled[i])}
<1>2. n \in Nat
  OBVIOUS
<1>3. 0 \in to
  <2>1. <<>> \in Seq(STRING)
    OBVIOUS
  <2>2. IsSpelled(spelled[0])
    BY <1>1, <2>1, SpelledIs DEF Spelling
  <2>3. QED
    BY <2>2
<1>4. ASSUME NEW i \in to PROVE i + 1 \in to
  <2>1. i \in Nat /\ i + 1 \in Nat
    OBVIOUS
  <2>2. SUFFICES ASSUME i + 1 <= n PROVE IsSpelled(spelled[i + 1])
    BY <2>1
  <2>3. i <= n /\ i + 1 \in 1 .. n /\ (i + 1) - 1 = i
    BY <1>2, <2>1, <2>2
  <2>4. IsSpelled(spelled[i])
    BY <2>3
  <2>5. spelled[i + 1] = Spell(spelled[i], s[i + 1])
    BY <1>1, <2>3 DEF Spelling
  <2>6. s[i + 1] \in STRING
    BY <2>3, ElementOfSeq
  <2>7. QED
    BY <2>4, <2>5, <2>6, SpellIs
<1>5. to \in SUBSET Nat
  OBVIOUS
<1>6. n \in to
  <2> HIDE DEF to
  <2>1. to = Nat
    BY <1>3, <1>4, <1>5, SetInduction
  <2>2. QED
    BY <1>2, <2>1
<1>7. QED
  BY <1>1, <1>2, <1>6

\* A quoted string takes an allocation and gives its characters.
Keyed(r, m, R, T) ==
    /\ r.at \in Nat /\ r.chars \in Seq(STRING) /\ r.mem.ok \in BOOLEAN
    /\ Fine(r.mem, R, T) /\ r.mem.heap = m.heap

LEMMA QuotedIs ==
  ASSUME NEW m, NEW R, NEW T, Fine(m, R, T), NEW t \in Seq(STRING), NEW i \in Nat
  PROVE  Keyed(get_quoted_string(m, t, i), m, R, T)
<1> DEFINE last == IF At(t, i) = "quote" THEN skip_quotes(t, i) ELSE 0
           s == SubSeq(t, i + 1, last - 1)
           string == process_string(s)
           copied == Malloc(m)
           bad == [mem |-> Failure(m), at |-> 0, chars |-> <<>>]
           good == [mem |-> copied, at |-> last + 1, chars |-> string.chars]
           r == get_quoted_string(m, t, i)
<1>1. r = IF last = 0 \/ string.escape # "no" \/ ~copied.ok THEN bad ELSE good
  BY DEF get_quoted_string
<1>2. last \in 0 .. Len(t) /\ Len(t) \in Nat
  BY QuotesNat
<1>3. Fine(copied, R, T) /\ copied.heap = m.heap /\ copied.ok \in BOOLEAN
  BY FineMalloc
<1>4. Keyed(bad, m, R, T)
  <2> DEFINE failed == Failure(m)
  <2>1. Fine(failed, R, T) /\ failed.heap = m.heap /\ failed.ok = FALSE
    BY FineFailure
  <2> HIDE DEF failed
  <2>2. <<>> \in Seq(STRING)
    OBVIOUS
  <2>3. QED
    BY <2>1, <2>2 DEF Keyed, failed
<1> HIDE DEF string, copied, bad, r
<1>5. CASE last # 0
  <2>1. s \in Seq(STRING)
    BY <1>2, <1>5
  <2> HIDE DEF s
  <2>2. string.chars \in Seq(STRING)
    BY <2>1, ProcessIs DEF IsSpelled, string
  <2> HIDE DEF last
  <2>3. Keyed(good, m, R, T)
    BY <1>2, <1>3, <2>2 DEF Keyed
  <2>4. QED
    BY <1>1, <1>4, <2>3 DEF r
<1>6. CASE last = 0
  BY <1>1, <1>4, <1>6 DEF r
<1>7. QED
  BY <1>5, <1>6

-----------------------------------------------------------------------------
\* The parser

\* What a reader of a value comes to: it is a copy, of a text.
Reads(r, m, R, T) == Copies(r.mem, m, R, T) /\ r.at \in Nat

Reader(f) ==
    \A m, R, T, i : Fine(m, R, T) /\ i \in Nat => Reads(f[<<m, i>>], m, R, T)

LEMMA ReadParts ==
  ASSUME NEW m, NEW R, NEW T, NEW p, Copies(p, m, R, T), NEW i \in Nat
  PROVE  Reads(Read(p, i), m, R, T)
BY DEF Reads, Read, Reached

LEMMA RefusedReads ==
  ASSUME NEW m, NEW R, NEW T, Fine(m, R, T)
  PROVE  Reads(Refused(m), m, R, T)
<1>1. Copies(Failure(m), m, R, T)
  BY NotCopied
<1>2. QED
  BY <1>1, ReadParts DEF Refused

LEMMA StringReads ==
  ASSUME NEW m, NEW R, NEW T, Fine(m, R, T), NEW t \in Seq(STRING), NEW i \in Nat
  PROVE  Reads(parse_string_value(m, t, i), m, R, T)
<1> DEFINE s == get_quoted_string(m, t, i)
           p == s.mem
           block == Block("string", s.chars)
           made == json_value_init(p, block)
<1>1. Keyed(s, m, R, T)
  BY QuotedIs
<1>2. parse_string_value(m, t, i) = IF ~p.ok THEN Refused(m) ELSE Read(made, s.at)
  BY DEF parse_string_value
<1> HIDE DEF s
<1>3. s.at \in Nat /\ s.chars \in Seq(STRING) /\ Fine(p, R, T) /\ p.heap = m.heap
  BY <1>1 DEF Keyed
<1>4. IsNew(block)
  BY <1>3, BlockIsNew DEF Types
<1> HIDE DEF p, block
<1>5. Copies(made, p, R, T)
  BY <1>3, <1>4, FineMade
<1> HIDE DEF made
<1>6. Copies(made, m, R, T)
  BY <1>3, <1>5 DEF Copies
<1>7. Reads(Read(made, s.at), m, R, T)
  BY <1>3, <1>6, ReadParts
<1>8. QED
  BY <1>2, <1>7, RefusedReads

LEMMA TokenReads ==
  ASSUME NEW m, NEW R, NEW T, Fine(m, R, T), NEW t \in Seq(STRING), NEW i \in Nat,
         At(t, i) # "end"
  PROVE  Reads(ParseToken(m, t, i), m, R, T)
<1> DEFINE type == CASE At(t, i) \in Numbers -> "number"
                     [] At(t, i) = "null" -> "null"
                     [] OTHER -> "boolean"
           text == <<At(t, i)>>
           block == Block(type, text)
           made == json_value_init(m, block)
<1>1. ParseToken(m, t, i) = Read(made, i + 1)
  BY DEF ParseToken
<1>2. type \in Types
  BY DEF Types
<1>3. text \in Seq(STRING)
  <2>1. i \in 1 .. Len(t) /\ At(t, i) = t[i]
    BY DEF At
  <2>2. t[i] \in STRING
    BY <2>1, ElementOfSeq
  <2> DEFINE c == t[i]
  <2> HIDE DEF c
  <2>3. <<c>> \in Seq(STRING)
    BY <2>2 DEF c
  <2>4. QED
    BY <2>1, <2>3 DEF c
<1> HIDE DEF type, text
<1>4. IsNew(block)
  BY <1>2, <1>3, BlockIsNew
<1> HIDE DEF block
<1>5. Copies(made, m, R, T)
  BY <1>4, FineMade
<1> HIDE DEF made
<1>6. Reads(Read(made, i + 1), m, R, T)
  BY <1>5, ReadParts
<1>7. QED
  BY <1>1, <1>6

LEMMA KeyIs ==
  ASSUME NEW m, NEW R, NEW T, Fine(m, R, T), NEW t \in Seq(STRING), NEW i \in Nat,
         NEW type \in {"array", "object"}
  PROVE  Keyed(ParseKey(m, t, i, type), m, R, T)
<1> DEFINE key == get_quoted_string(m, t, i)
           colon == SKIP_WHITESPACES(t, key.at)
           none == [mem |-> m, at |-> i, chars |-> <<>>]
           bad == [key EXCEPT !.mem = Failure(@)]
           good == [key EXCEPT !.at = colon + 1]
           r == ParseKey(m, t, i, type)
<1>1. r = IF type = "array" THEN none
          ELSE IF ~key.mem.ok \/ At(t, colon) # ":" THEN bad ELSE good
  BY DEF ParseKey
<1>2. Keyed(key, m, R, T)
  BY QuotedIs
<1>3. key = [mem |-> key.mem, at |-> key.at, chars |-> key.chars]
  BY DEF get_quoted_string
<1> HIDE DEF key, r
<1>4. key.at \in Nat /\ key.chars \in Seq(STRING) /\ key.mem.ok \in BOOLEAN
      /\ Fine(key.mem, R, T) /\ key.mem.heap = m.heap
  BY <1>2 DEF Keyed
<1>5. Keyed(none, m, R, T)
  <2>1. <<>> \in Seq(STRING) /\ m.ok \in BOOLEAN
    <3>1. m \in Memories
      BY DEF Fine
    <3>2. QED
      BY <3>1, MemoryParts
  <2>2. QED
    BY <2>1 DEF Keyed
<1>6. Keyed(bad, m, R, T)
  <2> DEFINE p == key.mem
             failed == Failure(p)
  <2>1. Fine(failed, R, T) /\ failed.heap = p.heap /\ failed.ok = FALSE
    BY <1>4, FineFailure
  <2> HIDE DEF failed
  <2>2. bad = [mem |-> failed, at |-> key.at, chars |-> key.chars]
    BY <1>3 DEF failed
  <2>3. QED
    BY <1>4, <2>1, <2>2 DEF Keyed
<1>7. Keyed(good, m, R, T)
  <2>1. colon \in Nat
    BY <1>4, SkipNat
  <2> HIDE DEF colon
  <2>2. good = [mem |-> key.mem, at |-> colon + 1, chars |-> key.chars]
    BY <1>3
  <2>3. QED
    BY <1>4, <2>1, <2>2 DEF Keyed
<1> HIDE DEF none, bad, good
<1>8. QED
  BY <1>1, <1>5, <1>6, <1>7 DEF r

\* While items are read into the container c.
ReadTo(d, m, R, T, c, type) ==
    /\ CopyTo(d.mem, m, R, T, c, type) /\ d.at \in Nat
    /\ d.more \in BOOLEAN /\ (d.more => d.mem.ok)

LEMMA GiveUpReads ==
  ASSUME NEW m, NEW R, NEW T, Fine(m, R, T), NEW c \in Nodes, c \notin LiveIn(m.heap),
         NEW p, Fine(p, R \cup {c}, T), Kept(p.heap, m.heap), NEW type
  PROVE  /\ ReadTo(GiveUpParse(p, c), m, R, T, c, type)
         /\ Reads(GiveUpParse(p, c), m, R, T)
<1> DEFINE given == GiveUpCopy(p, c)
<1>1. Copies(given, m, R, T) /\ given.ok = FALSE
  BY FineGiveUpCopy
<1>2. GiveUpParse(p, c) = [mem |-> given, at |-> 0, more |-> FALSE]
  BY DEF GiveUpParse, GiveUpCopy, Refused, Read, Reached
<1> HIDE DEF given
<1>3. QED
  BY <1>1, <1>2 DEF ReadTo, Reads, CopyTo

LEMMA ReachedTo ==
  ASSUME NEW m, NEW R, NEW T, NEW c, NEW type, NEW p, CopyTo(p, m, R, T, c, type), p.ok,
         NEW i \in Nat, NEW more \in BOOLEAN
  PROVE  ReadTo(Reached(p, i, more), m, R, T, c, type)
BY DEF ReadTo, Reached

LEMMA ItemRead ==
  ASSUME NEW m, NEW R, NEW T, Fine(m, R, T), NEW f, Reader(f), NEW t \in Seq(STRING),
         NEW type \in {"array", "object"}, NEW c \in Nodes, c \notin LiveIn(m.heap),
         NEW d, CopyTo(d, m, R, T, c, type), d.ok, NEW i \in Nat
  PROVE  ReadTo(ParseItem(f, d, t, i, type, c), m, R, T, c, type)
<1> DEFINE key == ParseKey(d, t, i, type)
           k == key.mem
           value == f[<<k, key.at>>]
           p == value.mem
           added == IF type = "object" THEN json_object_add(p, c, key.chars, p.got)
                    ELSE json_array_add(p, c, p.got)
           after == SKIP_WHITESPACES(t, value.at)
           next == SKIP_WHITESPACES(t, after + 1)
           item == Returned(added, c)
           more == At(t, next) \notin {Brackets[type][2], "end"}
           Q == R \cup {c}
           r == ParseItem(f, d, t, i, type, c)
<1>1. r = IF ~k.ok THEN GiveUpParse(k, c)
          ELSE IF ~p.ok THEN GiveUpParse(p, c)
          ELSE IF ~added.ok THEN GiveUpParse(json_value_free(p, p.got), c)
          ELSE IF At(t, after) # "," THEN Read(item, after)
          ELSE Reached(item, next, more)
  BY DEF ParseItem, AddItem, Returned
<1>2. Fine(d, Q, T) /\ Kept(d.heap, m.heap) /\ d.heap[c].type = type
  BY DEF CopyTo, Copies
<1>3. Good(m.heap, R, T) /\ R \subseteq LiveIn(m.heap) /\ c \in Q /\ R \subseteq Q
  BY DEF Fine, Good, Forest
<1> HIDE DEF Q
<1>4. Keyed(key, d, Q, T)
  BY <1>2, KeyIs
<1> HIDE DEF key, r
<1>5. key.at \in Nat /\ key.chars \in Seq(STRING) /\ k.ok \in BOOLEAN
      /\ Fine(k, Q, T) /\ k.heap = d.heap
  BY <1>4 DEF Keyed
<1> HIDE DEF k
<1>6. Reads(value, k, Q, T)
  BY <1>5 DEF Reader
<1> HIDE DEF value
<1>7. Copies(p, k, Q, T) /\ value.at \in Nat
  BY <1>6 DEF Reads
<1> HIDE DEF p
<1>8. Kept(p.heap, k.heap) /\ Kept(p.heap, m.heap) /\ p.ok \in BOOLEAN
      /\ Kept(k.heap, m.heap) /\ c \in LiveIn(k.heap)
  <2>1. Kept(p.heap, k.heap) /\ p.ok \in BOOLEAN
    BY <1>7 DEF Copies
  <2>2. Kept(k.heap, m.heap)
    BY <1>2, <1>5
  <2>3. c \in LiveIn(k.heap)
    BY <1>3, <1>5 DEF Fine, Good, Forest
  <2>4. QED
    BY <2>1, <2>2, <2>3, KeptLive
<1>9. CASE ~k.ok
  <2>1. Fine(k, R \cup {c}, T)
    BY <1>5 DEF Q
  <2>2. ReadTo(GiveUpParse(k, c), m, R, T, c, type)
    BY <1>8, <2>1, GiveUpReads
  <2>3. QED
    BY <1>1, <1>9, <2>2 DEF r
<1>10. CASE k.ok /\ ~p.ok
  <2>1. Fine(p, R \cup {c}, T)
    BY <1>7, <1>10 DEF Copies, Q
  <2>2. ReadTo(GiveUpParse(p, c), m, R, T, c, type)
    BY <1>8, <2>1, GiveUpReads
  <2>3. QED
    BY <1>1, <1>10, <2>2 DEF r
<1>11. CASE k.ok /\ p.ok
  <2> DEFINE w == p.got
             freed == json_value_free(p, w)
  <2>1. w \in Nodes /\ w \notin LiveIn(k.heap) /\ Fine(p, Q \cup {w}, T)
    BY <1>7, <1>11 DEF Copies
  <2>2. w # c /\ w \notin LiveIn(m.heap)
    BY <1>8, <2>1, KeptLive
  <2>3. p.heap[c].type = type
    BY <1>2, <1>5, <1>8 DEF Kept
  <2>4. ReadTo(GiveUpParse(freed, c), m, R, T, c, type)
    <3> DEFINE P == Q \cup {w}
    <3>1. Fine(p, P, T) /\ R \subseteq P /\ w \in P
      BY <1>3, <2>1
    <3>2. P \ {w} = R \cup {c}
      BY <1>3, <2>2 DEF Q
    <3> HIDE DEF P, w, freed
    <3>3. Fine(freed, P \ {w}, T) /\ Kept(freed.heap, m.heap)
      BY <1>3, <1>8, <2>2, <3>1, FreeFresh DEF freed
    <3>4. Fine(freed, R \cup {c}, T)
      BY <3>2, <3>3
    <3>5. QED
      BY <3>3, <3>4, GiveUpReads
  <2>5. added.ok \in BOOLEAN /\ (added.ok => CopyTo(Returned(added, c), m, R, T, c, type))
    <3> DEFINE name == key.chars
               a == OneMore(p, type, c, name, w)
    <3>1. name \in Seq(STRING)
      BY <1>5
    <3>2. added = a
      BY DEF OneMore
    <3>3. /\ Fine(m, R, T) /\ c \in Nodes /\ c \notin LiveIn(m.heap)
          /\ w \in Nodes /\ w \notin LiveIn(m.heap) /\ w # c
          /\ Fine(p, (R \cup {c}) \cup {w}, T) /\ Kept(p.heap, m.heap)
          /\ type \in {"array", "object"} /\ p.heap[c].type = type
      BY <1>8, <2>1, <2>2, <2>3 DEF Q
    <3> HIDE DEF name, w, added
    <3>4. a.ok \in BOOLEAN /\ (a.ok => CopyTo(Returned(a, c), m, R, T, c, type))
      BY <3>1, <3>3, FineCopyAdd
    <3>5. QED
      BY <3>2, <3>4
  <2> HIDE DEF freed, w
  <2>6. CASE ~added.ok
    <3>1. r = GiveUpParse(freed, c)
      BY <1>1, <1>11, <2>6 DEF freed, w
    <3>2. QED
      BY <2>4, <3>1 DEF r
  <2>7. CASE added.ok
    <3>1. CopyTo(item, m, R, T, c, type)
      BY <2>5, <2>7
    <3>2. item.ok
      <4> HIDE DEF added
      <4>1. item = [added EXCEPT !.got = c]
        BY DEF Returned
      <4>2. item.ok \in BOOLEAN
        BY <3>1 DEF CopyTo, Copies
      <4>3. QED
        BY <2>7, <4>1, <4>2
    <3>3. after \in Nat /\ next \in Nat
      <4>1. after \in Nat
        BY <1>7, SkipNat
      <4> HIDE DEF after
      <4>2. after + 1 \in Nat
        BY <4>1
      <4>3. QED
        BY <4>1, <4>2, SkipNat
    <3>4. more \in BOOLEAN
      OBVIOUS
    <3>5. r = IF At(t, after) # "," THEN Reached(item, after, FALSE)
              ELSE Reached(item, next, more)
      BY <1>1, <1>11, <2>7 DEF Read
    <3> HIDE DEF item, more, next, after
    <3>6. /\ ReadTo(Reached(item, after, FALSE), m, R, T, c, type)
          /\ ReadTo(Reached(item, next, more), m, R, T, c, type)
      BY <3>1, <3>2, <3>3, <3>4, ReachedTo
    <3>7. QED
      BY <3>5, <3>6 DEF r
  <2>8. QED
    BY <2>5, <2>6, <2>7
<1>12. QED
  BY <1>5, <1>8, <1>9, <1>10, <1>11

\* The loop over the items.
ReadingItems(done, f, m, t, i, type) ==
    LET made == json_value_init(m, Block(type, <<>>))
        first == SKIP_WHITESPACES(t, i + 1)
    IN  /\ done[0] = Reached(made, first, At(t, first) # "end")
        /\ \A n \in 1 .. Len(t) :
              done[n] = IF ~done[n - 1].more THEN done[n - 1]
                        ELSE ParseItem(f, done[n - 1].mem, t, done[n - 1].at, type, made.got)

\* What the container is after these items.
ItemsEnded(items, m, t, i, type) ==
    EndOfItems(json_value_init(m, Block(type, <<>>)), SKIP_WHITESPACES(t, i + 1),
               items, m, t, type)

LEMMA ContainerParts ==
  ASSUME NEW f, NEW m, NEW t \in Seq(STRING), NEW i, NEW type
  PROVE  \E done : /\ ReadingItems(done, f, m, t, i, type)
                   /\ ParseContainer(f, m, t, i, type) = ItemsEnded(done[Len(t)], m, t, i, type)
<1> DEFINE n == Len(t)
           made == json_value_init(m, Block(type, <<>>))
           first == SKIP_WHITESPACES(t, i + 1)
           Step(g, k) == LET last == g[k - 1]
                         IN  IF k = 0 THEN Reached(made, first, At(t, first) # "end")
                             ELSE IF ~last.more THEN last
                             ELSE ParseItem(f, last.mem, t, last.at, type, made.got)
           UpTo(g, q) == g = [k \in 0 .. q |-> Step(g, k)]
           done == CHOOSE g : UpTo(g, n)
           to == {q \in Nat : \E g : UpTo(g, q)}
<1>1. n \in Nat /\ 0 \in 0 .. n
  OBVIOUS
<1>2. ParseContainer(f, m, t, i, type) = ItemsEnded(done[n], m, t, i, type)
  BY Zenon DEF ParseContainer, ItemsEnded
<1>3. to = Nat
  <2>1. 0 \in to
    <3> DEFINE e == [k \in 0 .. 0 |-> Step(<<>>, 0)]
    <3>1. Step(e, 0) = Step(<<>>, 0)
      OBVIOUS
    <3> HIDE DEF Step
    <3>2. e[0] = Step(e, 0)
      BY <3>1
    <3>3. e = [k \in 0 .. 0 |-> Step(e, k)]
      BY <3>2
    <3>4. UpTo(e, 0)
      BY <3>3
    <3>5. QED
      BY <3>4
  <2>2. ASSUME NEW q \in to PROVE q + 1 \in to
    <3>1. PICK e : UpTo(e, q)
      OBVIOUS
    <3> DEFINE g == [k \in 0 .. q + 1 |-> IF k = q + 1 THEN Step(e, q + 1) ELSE e[k]]
    <3>2. q \in Nat /\ q + 1 \in Nat /\ q + 1 \in 0 .. q + 1
          /\ (\A k \in 0 .. q + 1 : k # q + 1 => k \in 0 .. q)
          /\ (\A k \in 0 .. q : k \in 0 .. q + 1 /\ k # q + 1)
          /\ (\A k \in 0 .. q + 1 : k # 0 => k - 1 \in 0 .. q)
      OBVIOUS
    <3>3. \A k \in 0 .. q : e[k] = Step(e, k)
      BY <3>1
    <3> HIDE DEF Step
    <3>4. (\A k \in 0 .. q : g[k] = e[k]) /\ g[q + 1] = Step(e, q + 1)
      BY <3>2
    <3>5. g = [k \in 0 .. q + 1 |-> g[k]]
      OBVIOUS
    <3> HIDE DEF g
    <3>6. \A k \in 0 .. q + 1 : Step(g, k) = Step(e, k)
      <4>1. SUFFICES ASSUME NEW k \in 0 .. q + 1 PROVE Step(g, k) = Step(e, k)
        OBVIOUS
      <4>2. k # 0 => g[k - 1] = e[k - 1]
        BY <3>2, <3>4
      <4>3. CASE k = 0
        BY <4>3 DEF Step
      <4>4. CASE k # 0
        BY <4>2, <4>4, Zenon DEF Step
      <4>5. QED
        BY <4>3, <4>4
    <3>7. \A k \in 0 .. q + 1 : g[k] = Step(g, k)
      BY <3>2, <3>3, <3>4, <3>6
    <3>8. UpTo(g, q + 1)
      BY <3>5, <3>7
    <3> HIDE DEF UpTo
    <3>9. QED
      BY <3>2, <3>8
  <2>3. to \in SUBSET Nat
    OBVIOUS
  <2> HIDE DEF to
  <2>4. QED
    BY <2>1, <2>2, <2>3, SetInduction
<1>4. UpTo(done, n)
  <2>1. \E g : UpTo(g, n)
    BY <1>1, <1>3
  <2> HIDE DEF UpTo
  <2>2. QED
    BY <2>1
<1> HIDE DEF done
<1>5. ReadingItems(done, f, m, t, i, type)
  <2>1. \A k \in 0 .. n : done[k] = Step(done, k)
    BY <1>4
  <2>2. done[0] = Reached(made, first, At(t, first) # "end")
    <3>1. done[0] = Step(done, 0)
      BY <1>1, <2>1
    <3> HIDE DEF made, first
    <3>2. QED
      BY <3>1, Zenon
  <2>3. ASSUME NEW k \in 1 .. n
        PROVE  done[k] = IF ~done[k - 1].more THEN done[k - 1]
                         ELSE ParseItem(f, done[k - 1].mem, t, done[k - 1].at, type, made.got)
    <3>1. k \in 0 .. n /\ k # 0
      OBVIOUS
    <3>2. done[k] = Step(done, k)
      BY <2>1, <3>1
    <3>3. QED
      BY <3>1, <3>2, Zenon
  <2>4. QED
    BY <2>2, <2>3 DEF ReadingItems
<1>6. QED
  BY <1>2, <1>5

\* The value of each number of levels.
Parsing(value, t, n) ==
    \A k \in 0 .. n :
        value[k] = [x \in Memories \X Nat |->
                      IF k = 0 THEN Refused(x[1]) ELSE parse_value(value[k - 1], x[1], t, x[2])]

LEMMA ParseParts ==
  ASSUME NEW m, NEW t
  PROVE  \E value :
            /\ Parsing(value, t, MAX_NESTING + 1)
            /\ json_parse_string(m, t) =
                  value[MAX_NESTING + 1][<<m, IF At(t, 1) = "bom" THEN 2 ELSE 1>>].mem
<1> DEFINE n == MAX_NESTING + 1
           Step(g, k) == [x \in Memories \X Nat |->
                            IF k = 0 THEN Refused(x[1]) ELSE parse_value(g[k - 1], x[1], t, x[2])]
           UpTo(g, q) == g = [k \in 0 .. q |-> Step(g, k)]
           value == CHOOSE g : UpTo(g, n)
           to == {q \in Nat : \E g : UpTo(g, q)}
<1>1. n \in Nat /\ 0 \in 0 .. n
  BY NestingAssumption
<1>2. json_parse_string(m, t) = value[n][<<m, IF At(t, 1) = "bom" THEN 2 ELSE 1>>].mem
  BY Zenon DEF json_parse_string
<1>3. to = Nat
  <2>1. 0 \in to
    <3> DEFINE e == [k \in 0 .. 0 |-> Step(<<>>, 0)]
    <3>1. Step(e, 0) = Step(<<>>, 0)
      OBVIOUS
    <3> HIDE DEF Step
    <3>2. e[0] = Step(e, 0)
      BY <3>1
    <3>3. e = [k \in 0 .. 0 |-> Step(e, k)]
      BY <3>2
    <3>4. UpTo(e, 0)
      BY <3>3
    <3>5. QED
      BY <3>4
  <2>2. ASSUME NEW q \in to PROVE q + 1 \in to
    <3>1. PICK e : UpTo(e, q)
      OBVIOUS
    <3> DEFINE g == [k \in 0 .. q + 1 |-> IF k = q + 1 THEN Step(e, q + 1) ELSE e[k]]
    <3>2. q \in Nat /\ q + 1 \in Nat /\ q + 1 \in 0 .. q + 1
          /\ (\A k \in 0 .. q + 1 : k # q + 1 => k \in 0 .. q)
          /\ (\A k \in 0 .. q : k \in 0 .. q + 1 /\ k # q + 1)
          /\ (\A k \in 0 .. q + 1 : k # 0 => k - 1 \in 0 .. q)
      OBVIOUS
    <3>3. \A k \in 0 .. q : e[k] = Step(e, k)
      BY <3>1
    <3> HIDE DEF Step
    <3>4. (\A k \in 0 .. q : g[k] = e[k]) /\ g[q + 1] = Step(e, q + 1)
      BY <3>2
    <3>5. g = [k \in 0 .. q + 1 |-> g[k]]
      OBVIOUS
    <3> HIDE DEF g
    <3>6. \A k \in 0 .. q + 1 : Step(g, k) = Step(e, k)
      <4>1. SUFFICES ASSUME NEW k \in 0 .. q + 1 PROVE Step(g, k) = Step(e, k)
        OBVIOUS
      <4>2. k # 0 => g[k - 1] = e[k - 1]
        BY <3>2, <3>4
      <4>3. CASE k = 0
        BY <4>3 DEF Step
      <4>4. CASE k # 0
        BY <4>2, <4>4 DEF Step
      <4>5. QED
        BY <4>3, <4>4
    <3>7. \A k \in 0 .. q + 1 : g[k] = Step(g, k)
      BY <3>2, <3>3, <3>4, <3>6
    <3>8. UpTo(g, q + 1)
      BY <3>5, <3>7
    <3> HIDE DEF UpTo
    <3>9. QED
      BY <3>2, <3>8
  <2>3. to \in SUBSET Nat
    OBVIOUS
  <2> HIDE DEF to
  <2>4. QED
    BY <2>1, <2>2, <2>3, SetInduction
<1>4. UpTo(value, n)
  <2>1. \E g : UpTo(g, n)
    BY <1>1, <1>3
  <2> HIDE DEF UpTo
  <2>2. QED
    BY <2>1
<1> HIDE DEF value
<1>5. Parsing(value, t, n)
  <2>1. \A k \in 0 .. n : value[k] = Step(value, k)
    BY <1>4
  <2>2. QED
    BY <2>1 DEF Parsing
<1>6. QED
  BY <1>2, <1>5

LEMMA ItemsEnd ==
  ASSUME NEW m, NEW R, NEW T, Fine(m, R, T), NEW t \in Seq(STRING), NEW i \in Nat,
         NEW type \in {"array", "object"},
         LET made == json_value_init(m, Block(type, <<>>))
         IN  made.ok /\ Copies(made, m, R, T),
         NEW items, ReadTo(items, m, R, T, json_value_init(m, Block(type, <<>>)).got, type)
  PROVE  Reads(ItemsEnded(items, m, t, i, type), m, R, T)
<1> DEFINE made == json_value_init(m, Block(type, <<>>))
           c == made.got
           first == SKIP_WHITESPACES(t, i + 1)
           p == items.mem
           trimmed == IF type = "array" THEN Malloc(p) ELSE p
           closed == Closes(t, items.at, Brackets[type][2])
           opened == At(t, first) = Brackets[type][2]
           r == ItemsEnded(items, m, t, i, type)
<1>1. r = IF ~made.ok THEN Refused(m)
          ELSE IF opened THEN Read(made, first + 1)
          ELSE IF ~p.ok THEN items
          ELSE IF closed /\ trimmed.ok THEN Read(Returned(trimmed, c), items.at + 1)
          ELSE GiveUpParse(p, c)
  BY DEF ItemsEnded, EndOfItems, Returned
<1>2. made.ok /\ Copies(made, m, R, T) /\ CopyTo(p, m, R, T, c, type) /\ items.at \in Nat
  BY DEF ReadTo
<1>3. i + 1 \in Nat
  OBVIOUS
<1>4. first \in Nat
  BY <1>3, SkipNat
<1> HIDE DEF made, first, p, closed, opened, r
<1>5. c \in Nodes /\ c \notin LiveIn(m.heap) /\ Copies(p, m, R, T) /\ (p.ok => p.got = c)
  BY <1>2 DEF Copies, CopyTo
<1> HIDE DEF c
<1>6. CASE opened
  <2>1. Reads(Read(made, first + 1), m, R, T)
    BY <1>2, <1>4, ReadParts
  <2>2. QED
    BY <1>1, <1>2, <1>6, <2>1 DEF r
<1>7. CASE ~opened /\ ~p.ok
  <2>1. Reads(items, m, R, T)
    BY <1>2, <1>5 DEF Reads, p
  <2>2. QED
    BY <1>1, <1>2, <1>7, <2>1 DEF r
<1>8. CASE ~opened /\ p.ok
  <2>1. Fine(p, R \cup {c}, T) /\ Kept(p.heap, m.heap) /\ p.ok \in BOOLEAN
    BY <1>5, <1>8 DEF Copies
  <2>2. Fine(trimmed, R \cup {c}, T) /\ trimmed.heap = p.heap /\ trimmed.ok \in BOOLEAN
    <3>1. CASE type = "array"
      BY <2>1, <3>1, FineMalloc
    <3>2. CASE type # "array"
      BY <2>1, <3>2
    <3>3. QED
      BY <3>1, <3>2
  <2> HIDE DEF trimmed
  <2>3. CASE closed /\ trimmed.ok
    <3> DEFINE q == Returned(trimmed, c)
    <3>1. Fine(q, R \cup {c}, T) /\ q.heap = trimmed.heap /\ q.ok = trimmed.ok /\ q.got = c
      BY <1>5, <2>2, FineReturned
    <3> HIDE DEF q
    <3>2. Copies(q, m, R, T)
      BY <1>5, <2>1, <2>2, <2>3, <3>1 DEF Copies
    <3>3. items.at + 1 \in Nat
      BY <1>2
    <3>4. Reads(Read(q, items.at + 1), m, R, T)
      BY <3>2, <3>3, ReadParts
    <3>5. QED
      BY <1>1, <1>2, <1>8, <2>3, <3>4 DEF r, q
  <2>4. CASE ~(closed /\ trimmed.ok)
    <3>1. Reads(GiveUpParse(p, c), m, R, T)
      BY <1>5, <2>1, GiveUpReads
    <3>2. QED
      BY <1>1, <1>2, <1>8, <2>4, <3>1 DEF r
  <2>5. QED
    BY <2>3, <2>4
<1>9. QED
  BY <1>5, <1>6, <1>7, <1>8

LEMMA ContainerReads ==
  ASSUME NEW m, NEW R, NEW T, Fine(m, R, T), NEW f, Reader(f), NEW t \in Seq(STRING),
         NEW i \in Nat, NEW type \in {"array", "object"}
  PROVE  Reads(ParseContainer(f, m, t, i, type), m, R, T)
<1> DEFINE n == Len(t)
           block == Block(type, <<>>)
           made == json_value_init(m, block)
           c == made.got
           first == SKIP_WHITESPACES(t, i + 1)
<1>1. PICK done : /\ ReadingItems(done, f, m, t, i, type)
                  /\ ParseContainer(f, m, t, i, type) = ItemsEnded(done[n], m, t, i, type)
  BY ContainerParts
<1>2. /\ done[0] = Reached(made, first, At(t, first) # "end")
      /\ \A k \in 1 .. n :
            done[k] = IF ~done[k - 1].more THEN done[k - 1]
                      ELSE ParseItem(f, done[k - 1].mem, t, done[k - 1].at, type, c)
  BY <1>1 DEF ReadingItems
<1>3. IsNew(block) /\ block.type = type
  <2>1. <<>> \in Seq(STRING) /\ type \in Types
    BY DEF Types
  <2>2. QED
    BY <2>1, BlockIsNew
<1>4. n \in Nat /\ i + 1 \in Nat
  OBVIOUS
<1>5. first \in Nat
  BY <1>4, SkipNat
<1>6. made.ok \/ ParseContainer(f, m, t, i, type) = Refused(m)
  BY <1>1 DEF ItemsEnded, EndOfItems
<1> HIDE DEF block, first
<1>7. Copies(made, m, R, T) /\ (made.ok => made.heap[c] = block)
  BY <1>3, FineMade
<1> HIDE DEF made, n
<1>8. CASE ~made.ok
  BY <1>6, <1>8, RefusedReads
<1>9. CASE made.ok
  <2>1. c \in Nodes /\ c \notin LiveIn(m.heap) /\ CopyTo(made, m, R, T, c, type)
    BY <1>3, <1>7, <1>9 DEF Copies, CopyTo
  <2> HIDE DEF c
  <2> DEFINE to == {k \in Nat : k <= n => ReadTo(done[k], m, R, T, c, type)}
  <2>2. 0 \in to
    <3> DEFINE more == At(t, first) # "end"
    <3>1. more \in BOOLEAN
      OBVIOUS
    <3>2. done[0] = Reached(made, first, more)
      BY <1>2
    <3> HIDE DEF more
    <3>3. ReadTo(Reached(made, first, more), m, R, T, c, type)
      BY <1>5, <1>9, <2>1, <3>1, ReachedTo
    <3>4. QED
      BY <3>2, <3>3
  <2>3. ASSUME NEW k \in to PROVE k + 1 \in to
    <3>1. k \in Nat /\ k + 1 \in Nat
      OBVIOUS
    <3>2. SUFFICES ASSUME k + 1 <= n PROVE ReadTo(done[k + 1], m, R, T, c, type)
      BY <3>1
    <3>3. k <= n /\ k + 1 \in 1 .. n /\ (k + 1) - 1 = k
      BY <1>4, <3>1, <3>2
    <3> DEFINE d == done[k]
    <3>4. ReadTo(d, m, R, T, c, type)
      BY <3>3
    <3>5. done[k + 1] = IF ~d.more THEN d ELSE ParseItem(f, d.mem, t, d.at, type, c)
      <4>1. done[k + 1] = IF ~done[(k + 1) - 1].more THEN done[(k + 1) - 1]
                          ELSE ParseItem(f, done[(k + 1) - 1].mem, t, done[(k + 1) - 1].at, type, c)
        BY <1>2, <3>3 DEF c
      <4>2. QED
        BY <3>3, <4>1
    <3> HIDE DEF d
    <3>6. CASE ~d.more
      BY <3>4, <3>5, <3>6
    <3>7. CASE d.more
      <4> DEFINE q == d.mem
                 at == d.at
      <4>1. CopyTo(q, m, R, T, c, type) /\ q.ok /\ at \in Nat
        BY <3>4, <3>7 DEF ReadTo
      <4>2. done[k + 1] = ParseItem(f, q, t, at, type, c)
        BY <3>5, <3>7
      <4> HIDE DEF q, at
      <4>3. ReadTo(ParseItem(f, q, t, at, type, c), m, R, T, c, type)
        BY <2>1, <4>1, ItemRead
      <4>4. QED
        BY <4>2, <4>3
    <3>8. QED
      BY <3>4, <3>6, <3>7 DEF ReadTo
  <2>4. to \in SUBSET Nat
    OBVIOUS
  <2>5. n \in to
    <3> HIDE DEF to
    <3>1. to = Nat
      BY <2>2, <2>3, <2>4, SetInduction
    <3>2. QED
      BY <1>4, <3>1
  <2> DEFINE items == done[n]
  <2>6. ReadTo(items, m, R, T, c, type)
    BY <1>4, <2>5
  <2> HIDE DEF items
  <2>7. made.ok /\ Copies(made, m, R, T)
    BY <1>7, <1>9
  <2>8. Reads(ItemsEnded(items, m, t, i, type), m, R, T)
    BY <2>6, <2>7, ItemsEnd DEF made, c, block
  <2>9. QED
    BY <1>1, <2>8 DEF items
<1>10. QED
  BY <1>7, <1>8, <1>9 DEF Copies

LEMMA ValueReads ==
  ASSUME NEW m, NEW R, NEW T, Fine(m, R, T), NEW f, Reader(f), NEW t \in Seq(STRING),
         NEW i \in Nat
  PROVE  Reads(parse_value(f, m, t, i), m, R, T)
<1> DEFINE j == SKIP_WHITESPACES(t, i)
           r == parse_value(f, m, t, i)
<1>1. r = CASE At(t, j) = "{" -> ParseContainer(f, m, t, j, "object")
            [] At(t, j) = "[" -> ParseContainer(f, m, t, j, "array")
            [] At(t, j) = "quote" -> parse_string_value(m, t, j)
            [] At(t, j) \in Numbers \cup Keywords -> ParseToken(m, t, j)
            [] OTHER -> Refused(m)
  BY DEF parse_value
<1>2. j \in Nat
  BY SkipNat
<1> HIDE DEF j, r
<1>3. CASE At(t, j) = "{"
  <2>1. Reads(ParseContainer(f, m, t, j, "object"), m, R, T)
    BY <1>2, ContainerReads
  <2>2. QED
    BY <1>1, <1>3, <2>1 DEF r, Numbers, Keywords
<1>4. CASE At(t, j) = "["
  <2>1. Reads(ParseContainer(f, m, t, j, "array"), m, R, T)
    BY <1>2, ContainerReads
  <2>2. QED
    BY <1>1, <1>4, <2>1 DEF r, Numbers, Keywords
<1>5. CASE At(t, j) = "quote"
  <2>1. Reads(parse_string_value(m, t, j), m, R, T)
    BY <1>2, StringReads
  <2>2. QED
    BY <1>1, <1>5, <2>1 DEF r, Numbers, Keywords
<1>6. CASE At(t, j) \in Numbers \cup Keywords
  <2>1. At(t, j) # "end"
    BY <1>6 DEF Numbers, Keywords
  <2>2. Reads(ParseToken(m, t, j), m, R, T)
    BY <1>2, <2>1, TokenReads
  <2>3. QED
    BY <1>1, <1>6, <2>2 DEF r, Numbers, Keywords
<1>7. CASE At(t, j) \notin {"{", "[", "quote"} \cup Numbers \cup Keywords
  <2>1. r = Refused(m)
    BY <1>1, <1>7
  <2>2. QED
    BY <2>1, RefusedReads DEF r
<1>8. QED
  BY <1>3, <1>4, <1>5, <1>6, <1>7

\* A text that is read is a new root; if it is refused, nothing is left.
LEMMA FineParse ==
  ASSUME NEW m, NEW R, NEW T, Fine(m, R, T), NEW t \in Seq(STRING)
  PROVE  Copies(json_parse_string(m, t), m, R, T)
<1> DEFINE n == MAX_NESTING + 1
           i == IF At(t, 1) = "bom" THEN 2 ELSE 1
<1>1. n \in Nat /\ i \in Nat
  BY NestingAssumption
<1>2. PICK value : Parsing(value, t, n) /\ json_parse_string(m, t) = value[n][<<m, i>>].mem
  BY ParseParts
<1> HIDE DEF n, i
<1>3. ASSUME NEW k \in 0 .. n, NEW p, NEW j, p \in Memories, j \in Nat
      PROVE  value[k][<<p, j>>] = IF k = 0 THEN Refused(p) ELSE parse_value(value[k - 1], p, t, j)
  <2>1. value[k] = [x \in Memories \X Nat |->
                      IF k = 0 THEN Refused(x[1]) ELSE parse_value(value[k - 1], x[1], t, x[2])]
    BY <1>2 DEF Parsing
  <2>2. <<p, j>> \in Memories \X Nat /\ <<p, j>>[1] = p /\ <<p, j>>[2] = j
    BY <1>3
  <2>3. QED
    BY <2>1, <2>2
<1> DEFINE to == {k \in Nat : k <= n => Reader(value[k])}
<1>4. 0 \in to
  <2>1. 0 \in 0 .. n
    BY <1>1
  <2>2. ASSUME NEW p, NEW Q, NEW S, NEW j, Fine(p, Q, S), j \in Nat
        PROVE  Reads(value[0][<<p, j>>], p, Q, S)
    <3>1. p \in Memories
      BY <2>2 DEF Fine
    <3>2. value[0][<<p, j>>] = Refused(p)
      BY <1>3, <2>1, <2>2, <3>1
    <3>3. QED
      BY <2>2, <3>2, RefusedReads
  <2>3. Reader(value[0])
    BY <2>2 DEF Reader
  <2>4. QED
    BY <2>3
<1>5. ASSUME NEW k \in to PROVE k + 1 \in to
  <2>1. k \in Nat /\ k + 1 \in Nat
    OBVIOUS
  <2>2. SUFFICES ASSUME k + 1 <= n PROVE Reader(value[k + 1])
    BY <2>1
  <2>3. k <= n /\ k + 1 \in 0 .. n /\ (k + 1) - 1 = k /\ k + 1 # 0
    BY <1>1, <2>1, <2>2
  <2>4. Reader(value[k])
    BY <2>3
  <2>5. ASSUME NEW p, NEW Q, NEW S, NEW j, Fine(p, Q, S), j \in Nat
        PROVE  Reads(value[k + 1][<<p, j>>], p, Q, S)
    <3>1. p \in Memories
      BY <2>5 DEF Fine
    <3>2. value[k + 1][<<p, j>>] = IF k + 1 = 0 THEN Refused(p)
                                    ELSE parse_value(value[(k + 1) - 1], p, t, j)
      BY <1>3, <2>3, <2>5, <3>1
    <3>3. value[k + 1][<<p, j>>] = parse_value(value[k], p, t, j)
      BY <2>3, <3>2
    <3>4. Reads(parse_value(value[k], p, t, j), p, Q, S)
      BY <2>4, <2>5, ValueReads
    <3>5. QED
      BY <3>3, <3>4
  <2>6. QED
    BY <2>5 DEF Reader
<1>6. to \in SUBSET Nat
  OBVIOUS
<1>7. n \in to
  <2> HIDE DEF to
  <2>1. to = Nat
    BY <1>4, <1>5, <1>6, SetInduction
  <2>2. QED
    BY <1>1, <2>1
<1>8. Reader(value[n])
  BY <1>1, <1>7
<1>9. Reads(value[n][<<m, i>>], m, R, T)
  BY <1>1, <1>8 DEF Reader
<1>10. QED
  BY <1>2, <1>9 DEF Reads

-----------------------------------------------------------------------------
\* The calls

LEMMA LooseAs ==
  ASSUME NEW r, NEW R, NEW S, NEW T, Fine(r, R, S), S \cap R \subseteq T
  PROVE  Fine(r, R, T)
BY DEF Fine, Good, Loose

\* What a call begins with.
LEMMA FineMemory ==
  ASSUME IInv, NEW fuel \in Nat
  PROVE  LET m == Memory(heap, fuel)
         IN  Fine(m, roots, returned) /\ m.heap = heap
<1> DEFINE h == heap
           t == twice
           m == [heap |-> h, fuel |-> fuel, twice |-> t, got |-> NULL, ok |-> TRUE]
<1>1. h \in Heaps /\ t = FALSE /\ t \in BOOLEAN /\ Good(h, roots, returned)
  BY DEF IInv, Good, Sound
<1>2. Memory(heap, fuel) = m
  BY DEF Memory
<1> HIDE DEF h, t
<1>3. m \in Memories
  BY <1>1, MakeMemory
<1>4. m.heap = h /\ m.twice = t
  OBVIOUS
<1> HIDE DEF m
<1>5. Fine(m, roots, returned)
  BY <1>1, <1>3, <1>4 DEF Fine
<1>6. QED
  BY <1>2, <1>4, <1>5 DEF h

\* What a call ends with.
LEMMA NextIInv ==
  ASSUME NEW r, NEW R, NEW T, Fine(r, R, T), heap' = r.heap, twice' = r.twice, roots' = R,
         returned' \subseteq R, T \cap R \subseteq returned'
  PROVE  IInv'
<1>1. Fine(r, R, returned')
  BY LooseAs
<1>2. Good(heap', roots', returned') /\ twice' = FALSE
  BY <1>1 DEF Fine
<1>3. QED
  BY <1>2 DEF IInv

LEMMA KeepsIInv ==
  ASSUME IInv, NEW r, Fine(r, roots, returned), Keeps(r)
  PROVE  IInv'
BY NextIInv DEF Keeps, IInv

LEMMA TakesIInv ==
  ASSUME IInv, NEW r, NEW v, Moved(r, roots, returned, v), Takes(r, v),
         r.ok \in BOOLEAN, returned' = returned \cap roots'
  PROVE  IInv'
<1>1. CASE r.ok
  <2>1. Fine(r, roots \ {v}, returned) /\ roots' = roots \ {v}
    BY <1>1 DEF Moved, Takes
  <2>2. heap' = r.heap /\ twice' = r.twice
    BY DEF Takes
  <2>3. QED
    BY <2>1, <2>2, NextIInv
<1>2. CASE ~r.ok
  <2>1. Fine(r, roots, returned) /\ roots' = roots
    BY <1>2 DEF Moved, Takes
  <2>2. heap' = r.heap /\ twice' = r.twice
    BY DEF Takes
  <2>3. QED
    BY <2>1, <2>2, NextIInv
<1>3. QED
  BY <1>1, <1>2

LEMMA ReturnsIInv ==
  ASSUME IInv, NEW r, NEW m, Copies(r, m, roots, returned), Returns(r)
  PROVE  IInv'
<1>1. heap' = r.heap /\ twice' = r.twice /\ roots' = roots \cup ({r.got} \ {NULL})
      /\ returned' = returned /\ returned \subseteq roots
  BY DEF Returns, IInv
<1>2. CASE r.ok
  <2>1. Fine(r, roots \cup {r.got}, returned) /\ r.got # NULL
    BY <1>2, PointersAssumption DEF Copies
  <2>2. roots' = roots \cup {r.got}
    BY <1>1, <2>1
  <2>3. QED
    BY <1>1, <2>1, <2>2, NextIInv
<1>3. CASE ~r.ok
  <2>1. Fine(r, roots, returned) /\ r.got = NULL
    BY <1>3 DEF Copies
  <2>2. roots' = roots
    BY <1>1, <2>1
  <2>3. QED
    BY <1>1, <2>1, <2>2, NextIInv
<1>4. QED
  BY <1>2, <1>3 DEF Copies

LEMMA BlocksAreNew ==
  ASSUME NEW block \in Blocks \cup {Block("array", <<>>), Block("object", <<>>)}
  PROVE  IsNew(block)
<1>1. <<>> \in Seq(STRING) /\ "array" \in Types /\ "object" \in Types
  BY DEF Types
<1>2. IsNew(Block("array", <<>>)) /\ IsNew(Block("object", <<>>))
  BY <1>1, BlockIsNew
<1>3. CASE block \in Blocks
  <2>1. PICK s \in Scalars : block = Block(s.type, s.text)
    BY <1>3 DEF Blocks
  <2>2. s.type \in Types /\ s.text \in Seq(STRING)
    BY ScalarsAssumption
  <2>3. QED
    BY <2>1, <2>2, BlockIsNew
<1>4. QED
  BY <1>2, <1>3

SameCell(p, q, a) == p.heap[a] = q.heap[a]

\* A value that has just been made is a root with nothing below it.
LEMMA NewRoot ==
  ASSUME NEW m, NEW R, NEW T, Fine(m, R, T), NEW block, IsNew(block), NEW a \in LiveIn(m.heap),
         json_value_init(m, block).ok
  PROVE  LET made == json_value_init(m, block)
             w == made.got
         IN  /\ Fine(made, R \cup {w}, T) /\ w \in LiveIn(made.heap) /\ w \notin R
             /\ a \in LiveIn(made.heap) /\ SameCell(made, m, a)
             /\ a \notin Below(made.heap, w)
<1> DEFINE made == json_value_init(m, block)
           w == made.got
<1>1. /\ w \in Nodes \ LiveIn(m.heap)
      /\ Fine(made, R \cup {w}, T)
      /\ LiveIn(made.heap) = LiveIn(m.heap) \cup {w}
      /\ made.heap[w] = block
      /\ \A n \in Nodes \ {w} : made.heap[n] = m.heap[n]
  BY FineInit
<1>2. R \subseteq LiveIn(m.heap) /\ a \in Nodes
  BY DEF Fine, Good, Forest, LiveIn
<1> HIDE DEF w, made
<1>3. Sound(made.heap) /\ made.heap[w].items = <<>> /\ w \in Nodes
  BY <1>1 DEF Fine, Good, IsNew
<1>4. Below(made.heap, w) = {w}
  BY <1>3, BelowEmpty
<1>5. a # w
  BY <1>1
<1>6. SameCell(made, m, a)
  BY <1>1, <1>2, <1>5 DEF SameCell
<1>7. QED
  BY <1>1, <1>2, <1>4, <1>5, <1>6 DEF w, made

\* A new value is freed if it could not be added.
LEMMA FineOrFree ==
  ASSUME NEW r, NEW R, NEW S, NEW T, NEW w, w \notin R, r.ok \in BOOLEAN,
         r.ok => Fine(r, R, T), ~r.ok => Fine(r, R \cup {w}, S), S \cap R \subseteq T
  PROVE  Fine(OrFree(r, w), R, T)
<1>1. CASE r.ok
  BY <1>1 DEF OrFree
<1>2. CASE ~r.ok
  <2> DEFINE f == json_value_free(r, w)
             Q == R \cup {w}
  <2>1. Fine(r, Q, S) /\ w \in Q /\ Q \ {w} = R
    BY <1>2
  <2> HIDE DEF Q
  <2>2. Fine(f, Q \ {w}, S)
    BY <2>1, FineFree
  <2> HIDE DEF f
  <2>3. Fine(Failure(f), R, S)
    BY <2>1, <2>2, FineFailure
  <2>4. Fine(Failure(f), R, T)
    BY <2>3, LooseAs
  <2>5. QED
    BY <1>2, <2>4 DEF OrFree, f
<1>3. QED
  BY <1>1, <1>2

LEMMA InitIInv ==
  ASSUME Init
  PROVE  IInv
<1> DEFINE h == heap
<1>1. h = [n \in Nodes |-> FREE] /\ roots = {} /\ twice = FALSE /\ returned = {}
  BY DEF Init
<1>2. h \in Heaps /\ LiveIn(h) = {}
  BY <1>1 DEF Heaps, LiveIn
<1>3. Sound(h)
  BY <1>2 DEF Sound
<1>4. Forest(h, {})
  BY <1>2 DEF Forest
<1>5. Loose(h, {}, {})
  BY DEF Loose
<1>6. QED
  BY <1>1, <1>3, <1>4, <1>5 DEF IInv, Good

LEMMA InitValueIInv ==
  ASSUME IInv, InitValue
  PROVE  IInv'
<1>1. PICK block \in Blocks \cup {Block("array", <<>>), Block("object", <<>>)}, fuel \in Fuels :
         Returns(json_value_init(Memory(heap, fuel), block))
  BY DEF InitValue
<1> DEFINE m == Memory(heap, fuel)
           r == json_value_init(m, block)
<1>2. fuel \in Nat /\ IsNew(block)
  BY FuelsAssumption, BlocksAreNew
<1>3. Fine(m, roots, returned)
  BY <1>2, FineMemory
<1>4. Returns(r)
  BY <1>1
<1> HIDE DEF m
<1>5. Copies(r, m, roots, returned)
  BY <1>2, <1>3, FineMade
<1> HIDE DEF r
<1>6. QED
  BY <1>4, <1>5, ReturnsIInv

LEMMA FreeValueIInv ==
  ASSUME IInv, FreeValue
  PROVE  IInv'
<1> DEFINE m == Memory(heap, 0)
<1>1. PICK v \in roots :
         /\ heap' = json_value_free(m, v).heap /\ twice' = json_value_free(m, v).twice
         /\ roots' = roots \ {v} /\ returned' = returned \ {v}
  BY DEF FreeValue
<1> DEFINE r == json_value_free(m, v)
<1>2. 0 \in Nat
  OBVIOUS
<1>3. Fine(m, roots, returned)
  BY <1>2, FineMemory
<1>4. heap' = r.heap /\ twice' = r.twice /\ roots' = roots \ {v} /\ returned' = returned \ {v}
  BY <1>1
<1> HIDE DEF m
<1>5. Fine(r, roots \ {v}, returned)
  BY <1>3, FineFree
<1>6. returned \subseteq roots
  BY DEF IInv
<1> HIDE DEF r
<1>7. returned' \subseteq roots \ {v} /\ returned \cap (roots \ {v}) \subseteq returned'
  BY <1>4, <1>6
<1>8. QED
  BY <1>4, <1>5, <1>7, NextIInv

LEMMA AppendValueIInv ==
  ASSUME IInv, AppendValue
  PROVE  IInv'
<1>0. PICK a \in OfType("array"), fuel \in Fuels :
         \E v \in Addable(a) :
            /\ Takes(json_array_append_value(Memory(heap, fuel), a, v), v)
            /\ returned' = returned \cap roots'
  BY DEF AppendValue
<1>1. PICK v \in Addable(a) :
         /\ Takes(json_array_append_value(Memory(heap, fuel), a, v), v)
         /\ returned' = returned \cap roots'
  BY <1>0
<1> DEFINE m == Memory(heap, fuel)
           r == json_array_append_value(m, a, v)
<1>2. fuel \in Nat
  BY FuelsAssumption
<1>3. Fine(m, roots, returned) /\ m.heap = heap
  BY <1>2, FineMemory
<1>4. Takes(r, v) /\ returned' = returned \cap roots'
  BY <1>1
<1> HIDE DEF m
<1>5. a \in LiveIn(m.heap) /\ m.heap[a].type = "array" /\ v \in LiveIn(m.heap)
      /\ a \notin Below(m.heap, v)
  BY <1>3 DEF OfType, Live, LiveIn, Addable
<1>6. Moved(r, roots, returned, v) /\ r.ok \in BOOLEAN
  BY <1>3, <1>5, FineArrayAppend
<1> HIDE DEF r
<1>7. QED
  BY <1>4, <1>6, TakesIInv

LEMMA ReplaceValueIInv ==
  ASSUME IInv, ReplaceValue
  PROVE  IInv'
<1>0. PICK a \in OfType("array") :
         \E v \in Addable(a), i \in 1 .. Len(heap[a].items) :
            /\ Takes(json_array_replace_value(Memory(heap, 0), a, i, v), v)
            /\ returned' = returned \cap roots'
  BY DEF ReplaceValue
<1>1. PICK v \in Addable(a), i \in 1 .. Len(heap[a].items) :
         /\ Takes(json_array_replace_value(Memory(heap, 0), a, i, v), v)
         /\ returned' = returned \cap roots'
  BY <1>0
<1> DEFINE m == Memory(heap, 0)
           r == json_array_replace_value(m, a, i, v)
<1>2. 0 \in Nat /\ i \in Nat
  OBVIOUS
<1>3. Fine(m, roots, returned) /\ m.heap = heap
  BY <1>2, FineMemory
<1>4. Takes(r, v) /\ returned' = returned \cap roots'
  BY <1>1
<1> HIDE DEF m
<1>5. a \in LiveIn(m.heap) /\ m.heap[a].type = "array" /\ v \in LiveIn(m.heap)
      /\ a \notin Below(m.heap, v)
  BY <1>3 DEF OfType, Live, LiveIn, Addable
<1>6. Moved(r, roots, returned, v) /\ r.ok \in BOOLEAN
  BY <1>2, <1>3, <1>5, FineArrayReplace
<1> HIDE DEF r
<1>7. QED
  BY <1>4, <1>6, TakesIInv

LEMMA RemoveItemIInv ==
  ASSUME IInv, RemoveItem
  PROVE  IInv'
<1>0. PICK a \in OfType("array") :
         \E i \in 1 .. Len(heap[a].items) :
            Keeps(json_array_remove(Memory(heap, 0), a, i))
  BY DEF RemoveItem
<1>1. PICK i \in 1 .. Len(heap[a].items) :
         Keeps(json_array_remove(Memory(heap, 0), a, i))
  BY <1>0
<1> DEFINE m == Memory(heap, 0)
           r == json_array_remove(m, a, i)
<1>2. 0 \in Nat
  OBVIOUS
<1>3. Fine(m, roots, returned) /\ m.heap = heap
  BY <1>2, FineMemory
<1>4. Keeps(r)
  BY <1>1
<1> HIDE DEF m
<1>5. a \in LiveIn(m.heap) /\ m.heap[a].type = "array" /\ i \in 1 .. Len(m.heap[a].items)
  BY <1>3 DEF OfType, Live, LiveIn
<1>6. Fine(r, roots, returned)
  BY <1>3, <1>5, FineArrayRemove
<1> HIDE DEF r
<1>7. QED
  BY <1>4, <1>6, KeepsIInv

LEMMA ClearValueIInv ==
  ASSUME IInv, ClearValue
  PROVE  IInv'
<1>1. PICK v \in OfType("array") \cup OfType("object") : Keeps(Clear(Memory(heap, 0), v))
  BY DEF ClearValue
<1> DEFINE m == Memory(heap, 0)
           r == Clear(m, v)
<1>2. 0 \in Nat
  OBVIOUS
<1>3. Fine(m, roots, returned) /\ m.heap = heap
  BY <1>2, FineMemory
<1>4. Keeps(r)
  BY <1>1
<1> HIDE DEF m
<1>5. v \in LiveIn(m.heap)
  BY <1>3 DEF OfType, Live, LiveIn
<1>6. Fine(r, roots, returned)
  BY <1>3, <1>5, FineClear
<1> HIDE DEF r
<1>7. QED
  BY <1>4, <1>6, KeepsIInv

LEMMA PathsAreNames ==
  ASSUME NEW path \in Paths
  PROVE  path \in Seq(Seq(STRING)) /\ path # <<>> /\ Len(path) \in Nat \ {0}
<1>1. path \in Seq(Names) /\ path # <<>>
  BY PathsAssumption
<1>2. Len(path) \in Nat \ {0}
  BY <1>1
<1>3. \A i \in 1 .. Len(path) : path[i] \in Seq(STRING)
  BY <1>1, NamesAssumption
<1>4. path = [i \in 1 .. Len(path) |-> path[i]]
  BY <1>1
<1>5. path \in Seq(Seq(STRING))
  BY <1>2, <1>3, <1>4
<1>6. QED
  BY <1>1, <1>2, <1>5

LEMMA RemoveNameIInv ==
  ASSUME IInv, RemoveName
  PROVE  IInv'
<1>1. PICK o \in OfType("object"), path \in Paths :
         Keeps(json_object_dotremove_internal(Memory(heap, 0), o, path, TRUE))
  BY DEF RemoveName
<1> DEFINE m == Memory(heap, 0)
           r == json_object_dotremove_internal(m, o, path, TRUE)
<1>2. 0 \in Nat
  OBVIOUS
<1>3. Fine(m, roots, returned) /\ m.heap = heap
  BY <1>2, FineMemory
<1>4. Keeps(r)
  BY <1>1
<1> HIDE DEF m
<1>5. o \in LiveIn(m.heap) /\ m.heap[o].type = "object" /\ Len(path) \in Nat \ {0}
  BY <1>3, PathsAreNames DEF OfType, Live, LiveIn
<1>6. Fine(r, roots, returned)
  BY <1>3, <1>5, FineDotRemove
<1> HIDE DEF r
<1>7. QED
  BY <1>4, <1>6, KeepsIInv

LEMMA DeepCopyIInv ==
  ASSUME IInv, DeepCopy
  PROVE  IInv'
<1>1. PICK v \in Live, fuel \in Fuels : Returns(json_value_deep_copy(Memory(heap, fuel), v))
  BY DEF DeepCopy
<1> DEFINE m == Memory(heap, fuel)
           r == json_value_deep_copy(m, v)
<1>2. fuel \in Nat
  BY FuelsAssumption
<1>3. Fine(m, roots, returned) /\ m.heap = heap
  BY <1>2, FineMemory
<1>4. Returns(r)
  BY <1>1
<1> HIDE DEF m
<1>5. v \in LiveIn(m.heap)
  BY <1>3 DEF Live, LiveIn
<1>6. Copies(r, m, roots, returned)
  BY <1>3, <1>5, FineDeepCopy
<1> HIDE DEF r
<1>7. QED
  BY <1>4, <1>6, ReturnsIInv

LEMMA ParseIInv ==
  ASSUME IInv, Parse
  PROVE  IInv'
<1>1. PICK t \in Texts, fuel \in Fuels : Returns(json_parse_string(Memory(heap, fuel), t))
  BY DEF Parse
<1> DEFINE m == Memory(heap, fuel)
           r == json_parse_string(m, t)
<1>2. fuel \in Nat /\ t \in Seq(STRING)
  BY FuelsAssumption, TextsAssumption
<1>3. Fine(m, roots, returned)
  BY <1>2, FineMemory
<1>4. Returns(r)
  BY <1>1
<1> HIDE DEF m
<1>5. Copies(r, m, roots, returned)
  BY <1>2, <1>3, FineParse
<1> HIDE DEF r
<1>6. QED
  BY <1>4, <1>5, ReturnsIInv

LEMMA SetValueIInv ==
  ASSUME IInv, SetValue
  PROVE  IInv'
<1>0. PICK o \in OfType("object"), path \in Paths, fuel \in Fuels :
         \E v \in Addable(o) :
            LET m == json_object_dotset_value(Memory(heap, fuel), o, path, v)
            IN  /\ Takes(m, v)
                /\ returned' = roots' \cap (IF m.ok \/ Len(path) = 1 THEN returned
                                            ELSE returned \cup {v})
  BY DEF SetValue
<1>1. PICK v \in Addable(o) :
         LET m == json_object_dotset_value(Memory(heap, fuel), o, path, v)
         IN  /\ Takes(m, v)
             /\ returned' = roots' \cap (IF m.ok \/ Len(path) = 1 THEN returned
                                         ELSE returned \cup {v})
  BY <1>0
<1> DEFINE m == Memory(heap, fuel)
           r == json_object_dotset_value(m, o, path, v)
<1>2. fuel \in Nat
  BY FuelsAssumption
<1>3. Fine(m, roots, returned) /\ m.heap = heap
  BY <1>2, FineMemory
<1>4. Takes(r, v) /\ returned' = roots' \cap (IF r.ok \/ Len(path) = 1 THEN returned
                                              ELSE returned \cup {v})
  BY <1>1
<1> HIDE DEF m
<1>5. o \in LiveIn(m.heap) /\ m.heap[o].type = "object" /\ v \in LiveIn(m.heap)
      /\ o \notin Below(m.heap, v) /\ path \in Seq(Seq(STRING)) /\ path # <<>>
  BY <1>3, PathsAreNames DEF OfType, Live, LiveIn, Addable
<1>6. SetDown(r, roots, returned, path, v)
  BY <1>3, <1>5, FineDotSet
<1> HIDE DEF r
<1>7. heap' = r.heap /\ twice' = r.twice /\ roots' = IF r.ok THEN roots \ {v} ELSE roots
  BY <1>4 DEF Takes
<1>8. CASE r.ok
  <2>1. Fine(r, roots \ {v}, returned) /\ roots' = roots \ {v}
    BY <1>6, <1>7, <1>8 DEF SetDown
  <2>2. returned' = returned \cap roots'
    BY <1>4, <1>8
  <2>3. QED
    BY <1>7, <2>1, <2>2, NextIInv
<1>9. CASE ~r.ok
  <2> DEFINE T == IF Len(path) = 1 THEN returned ELSE returned \cup {v}
  <2>1. Fine(r, roots, T) /\ roots' = roots
    BY <1>6, <1>7, <1>9 DEF SetDown
  <2>2. returned' = T \cap roots'
    BY <1>4, <1>9
  <2> HIDE DEF T
  <2>3. QED
    BY <1>7, <2>1, <2>2, NextIInv
<1>10. QED
  BY <1>8, <1>9

LEMMA NewKept ==
  ASSUME NEW m, NEW R, NEW T, Fine(m, R, T), NEW block, IsNew(block)
  PROVE  LET made == json_value_init(m, block)
         IN  made.ok \in BOOLEAN /\ (~made.ok => Fine(made, R, T))
<1> DEFINE made == json_value_init(m, block)
<1>1. Copies(made, m, R, T)
  BY FineMade
<1> HIDE DEF made
<1>2. made.ok \in BOOLEAN /\ (~made.ok => Fine(made, R, T))
  BY <1>1 DEF Copies
<1>3. QED
  BY <1>2 DEF made

LEMMA AppendNewIInv ==
  ASSUME IInv, AppendNew
  PROVE  IInv'
<1> DEFINE Made(fuel, block) == json_value_init(Memory(heap, fuel), block)
           Done(fuel, block, a) ==
              LET made == Made(fuel, block)
              IN  IF ~made.ok THEN made
                  ELSE OrFree(json_array_append_value(made, a, made.got), made.got)
<1>1. PICK a \in OfType("array"), block \in Blocks, fuel \in Fuels : Keeps(Done(fuel, block, a))
  BY DEF AppendNew
<1> DEFINE m == Memory(heap, fuel)
           made == Made(fuel, block)
           w == made.got
           r == json_array_append_value(made, a, w)
           s == Done(fuel, block, a)
<1>2. fuel \in Nat /\ IsNew(block)
  BY FuelsAssumption, BlocksAreNew
<1>3. Fine(m, roots, returned) /\ m.heap = heap
  BY <1>2, FineMemory
<1>4. made = json_value_init(m, block) /\ Keeps(s)
      /\ s = IF ~made.ok THEN made ELSE OrFree(r, w)
  BY <1>1
<1> HIDE DEF m, Made, Done
<1>5. a \in LiveIn(m.heap) /\ m.heap[a].type = "array"
  BY <1>3 DEF OfType, Live, LiveIn
<1>6. made.ok \in BOOLEAN /\ (~made.ok => Fine(made, roots, returned))
  BY <1>2, <1>3, <1>4, NewKept
<1>7. ASSUME made.ok PROVE Fine(OrFree(r, w), roots, returned)
  <2> DEFINE R == roots \cup {w}
  <2>1. /\ Fine(made, R, returned) /\ w \in LiveIn(made.heap) /\ w \notin roots
        /\ a \in LiveIn(made.heap) /\ SameCell(made, m, a)
        /\ a \notin Below(made.heap, w)
    <3> DEFINE k == json_value_init(m, block)
    <3>1. IsNew(block) /\ Fine(m, roots, returned) /\ a \in LiveIn(m.heap) /\ k.ok
      BY <1>2, <1>3, <1>4, <1>5, <1>7
    <3>2. /\ Fine(k, roots \cup {k.got}, returned) /\ k.got \in LiveIn(k.heap)
          /\ k.got \notin roots /\ a \in LiveIn(k.heap) /\ SameCell(k, m, a)
          /\ a \notin Below(k.heap, k.got)
      BY <3>1, NewRoot
    <3>3. made = k
      BY <1>4
    <3> HIDE DEF k, made
    <3>4. QED
      BY <3>2, <3>3
  <2>2. made.heap[a].type = "array"
    BY <1>5, <2>1 DEF SameCell
  <2> HIDE DEF R, w, made
  <2>3. Moved(r, R, returned, w) /\ r.ok \in BOOLEAN
    BY <2>1, <2>2, FineArrayAppend
  <2>4. R \ {w} = roots
    BY <2>1 DEF R
  <2> HIDE DEF r
  <2>5. /\ r.ok => Fine(r, roots, returned)
        /\ ~r.ok => Fine(r, roots \cup {w}, returned)
    BY <2>3, <2>4 DEF Moved, R
  <2>6. returned \cap roots \subseteq returned
    OBVIOUS
  <2>7. QED
    BY <2>1, <2>3, <2>5, <2>6, FineOrFree
<1> HIDE DEF made, r, w, s
<1>8. Fine(s, roots, returned)
  BY <1>4, <1>6, <1>7
<1>9. QED
  BY <1>4, <1>8, KeepsIInv

LEMMA ReplaceNewIInv ==
  ASSUME IInv, ReplaceNew
  PROVE  IInv'
<1> DEFINE Made(fuel, block) == json_value_init(Memory(heap, fuel), block)
           Done(fuel, block, a, i) ==
              LET made == Made(fuel, block)
              IN  IF ~made.ok THEN made
                  ELSE OrFree(json_array_replace_value(made, a, i, made.got), made.got)
<1>0. PICK a \in OfType("array"), block \in Blocks, fuel \in Fuels :
         \E i \in 1 .. Len(heap[a].items) + 1 : Keeps(Done(fuel, block, a, i))
  BY DEF ReplaceNew
<1>1. PICK i \in 1 .. Len(heap[a].items) + 1 : Keeps(Done(fuel, block, a, i))
  BY <1>0
<1> DEFINE m == Memory(heap, fuel)
           made == Made(fuel, block)
           w == made.got
           r == json_array_replace_value(made, a, i, w)
           s == Done(fuel, block, a, i)
<1>2. fuel \in Nat /\ IsNew(block) /\ i \in Nat
  BY FuelsAssumption, BlocksAreNew
<1>3. Fine(m, roots, returned) /\ m.heap = heap
  BY <1>2, FineMemory
<1>4. made = json_value_init(m, block) /\ Keeps(s)
      /\ s = IF ~made.ok THEN made ELSE OrFree(r, w)
  BY <1>1
<1> HIDE DEF m, Made, Done
<1>5. a \in LiveIn(m.heap) /\ m.heap[a].type = "array"
  BY <1>3 DEF OfType, Live, LiveIn
<1>6. made.ok \in BOOLEAN /\ (~made.ok => Fine(made, roots, returned))
  BY <1>2, <1>3, <1>4, NewKept
<1>7. ASSUME made.ok PROVE Fine(OrFree(r, w), roots, returned)
  <2> DEFINE R == roots \cup {w}
  <2>1. /\ Fine(made, R, returned) /\ w \in LiveIn(made.heap) /\ w \notin roots
        /\ a \in LiveIn(made.heap) /\ SameCell(made, m, a)
        /\ a \notin Below(made.heap, w)
    <3> DEFINE k == json_value_init(m, block)
    <3>1. IsNew(block) /\ Fine(m, roots, returned) /\ a \in LiveIn(m.heap) /\ k.ok
      BY <1>2, <1>3, <1>4, <1>5, <1>7
    <3>2. /\ Fine(k, roots \cup {k.got}, returned) /\ k.got \in LiveIn(k.heap)
          /\ k.got \notin roots /\ a \in LiveIn(k.heap) /\ SameCell(k, m, a)
          /\ a \notin Below(k.heap, k.got)
      BY <3>1, NewRoot
    <3>3. made = k
      BY <1>4
    <3> HIDE DEF k, made
    <3>4. QED
      BY <3>2, <3>3
  <2>2. made.heap[a].type = "array"
    BY <1>5, <2>1 DEF SameCell
  <2> HIDE DEF R, w, made
  <2>3. Moved(r, R, returned, w) /\ r.ok \in BOOLEAN
    BY <1>2, <2>1, <2>2, FineArrayReplace
  <2>4. R \ {w} = roots
    BY <2>1 DEF R
  <2> HIDE DEF r
  <2>5. /\ r.ok => Fine(r, roots, returned)
        /\ ~r.ok => Fine(r, roots \cup {w}, returned)
    BY <2>3, <2>4 DEF Moved, R
  <2>6. returned \cap roots \subseteq returned
    OBVIOUS
  <2>7. QED
    BY <2>1, <2>3, <2>5, <2>6, FineOrFree
<1> HIDE DEF made, r, w, s
<1>8. Fine(s, roots, returned)
  BY <1>4, <1>6, <1>7
<1>9. QED
  BY <1>4, <1>8, KeepsIInv

LEMMA SetNewIInv ==
  ASSUME IInv, SetNew
  PROVE  IInv'
<1> DEFINE Made(fuel, block) == json_value_init(Memory(heap, fuel), block)
           Done(fuel, block, o, path) ==
              LET made == Made(fuel, block)
              IN  IF ~made.ok THEN made
                  ELSE OrFree(json_object_dotset_value(made, o, path, made.got), made.got)
<1>1. PICK o \in OfType("object"), path \in Paths, block \in Blocks, fuel \in Fuels :
         Keeps(Done(fuel, block, o, path))
  BY DEF SetNew
<1> DEFINE m == Memory(heap, fuel)
           made == Made(fuel, block)
           w == made.got
           r == json_object_dotset_value(made, o, path, w)
           s == Done(fuel, block, o, path)
<1>2. fuel \in Nat /\ IsNew(block) /\ path \in Seq(Seq(STRING)) /\ path # <<>>
  BY FuelsAssumption, BlocksAreNew, PathsAreNames
<1>3. Fine(m, roots, returned) /\ m.heap = heap
  BY <1>2, FineMemory
<1>4. made = json_value_init(m, block) /\ Keeps(s)
      /\ s = IF ~made.ok THEN made ELSE OrFree(r, w)
  BY <1>1
<1> HIDE DEF m, Made, Done
<1>5. o \in LiveIn(m.heap) /\ m.heap[o].type = "object"
  BY <1>3 DEF OfType, Live, LiveIn
<1>6. made.ok \in BOOLEAN /\ (~made.ok => Fine(made, roots, returned))
  BY <1>2, <1>3, <1>4, NewKept
<1>7. ASSUME made.ok PROVE Fine(OrFree(r, w), roots, returned)
  <2> DEFINE R == roots \cup {w}
             S == IF Len(path) = 1 THEN returned ELSE returned \cup {w}
  <2>1. /\ Fine(made, R, returned) /\ w \in LiveIn(made.heap) /\ w \notin roots
        /\ o \in LiveIn(made.heap) /\ SameCell(made, m, o)
        /\ o \notin Below(made.heap, w)
    <3> DEFINE k == json_value_init(m, block)
    <3>1. IsNew(block) /\ Fine(m, roots, returned) /\ o \in LiveIn(m.heap) /\ k.ok
      BY <1>2, <1>3, <1>4, <1>5, <1>7
    <3>2. /\ Fine(k, roots \cup {k.got}, returned) /\ k.got \in LiveIn(k.heap)
          /\ k.got \notin roots /\ o \in LiveIn(k.heap) /\ SameCell(k, m, o)
          /\ o \notin Below(k.heap, k.got)
      BY <3>1, NewRoot
    <3>3. made = k
      BY <1>4
    <3> HIDE DEF k, made
    <3>4. QED
      BY <3>2, <3>3
  <2>2. made.heap[o].type = "object"
    BY <1>5, <2>1 DEF SameCell
  <2> HIDE DEF R, w, made
  <2>3. SetDown(r, R, returned, path, w)
    BY <1>2, <2>1, <2>2, FineDotSet
  <2>4. R \ {w} = roots
    BY <2>1 DEF R
  <2> HIDE DEF r
  <2>5. /\ r.ok \in BOOLEAN
        /\ r.ok => Fine(r, roots, returned)
        /\ ~r.ok => Fine(r, roots \cup {w}, S)
    BY <2>3, <2>4 DEF SetDown, R
  <2>6. S \cap roots \subseteq returned
    BY <2>1
  <2> HIDE DEF S
  <2>7. QED
    BY <2>1, <2>5, <2>6, FineOrFree
<1> HIDE DEF made, r, w, s
<1>8. Fine(s, roots, returned)
  BY <1>4, <1>6, <1>7
<1>9. QED
  BY <1>4, <1>8, KeepsIInv

LEMMA NextKeepsIInv ==
  ASSUME IInv, [Next]_vars
  PROVE  IInv'
<1>1. CASE InitValue
  BY <1>1, InitValueIInv
<1>2. CASE FreeValue
  BY <1>2, FreeValueIInv
<1>3. CASE AppendValue
  BY <1>3, AppendValueIInv
<1>4. CASE AppendNew
  BY <1>4, AppendNewIInv
<1>5. CASE ReplaceValue
  BY <1>5, ReplaceValueIInv
<1>6. CASE ReplaceNew
  BY <1>6, ReplaceNewIInv
<1>7. CASE RemoveItem
  BY <1>7, RemoveItemIInv
<1>8. CASE ClearValue
  BY <1>8, ClearValueIInv
<1>9. CASE SetValue
  BY <1>9, SetValueIInv
<1>10. CASE SetNew
  BY <1>10, SetNewIInv
<1>11. CASE RemoveName
  BY <1>11, RemoveNameIInv
<1>12. CASE DeepCopy
  BY <1>12, DeepCopyIInv
<1>13. CASE Parse
  BY <1>13, ParseIInv
<1>14. CASE UNCHANGED vars
  BY <1>14 DEF vars, IInv, Good, Sound, Forest, Loose, LiveIn, Kids
<1>15. QED
  BY <1>1, <1>2, <1>3, <1>4, <1>5, <1>6, <1>7, <1>8, <1>9, <1>10, <1>11, <1>12, <1>13, <1>14 DEF Next

-----------------------------------------------------------------------------
\* Theorems

(***************************************************************************)
(* Whatever the calls of parson and whichever allocations fail, the live   *)
(* values form trees whose roots the caller holds, each with its parent,   *)
(* but for values that a dotted setter has returned, and nothing has been  *)
(* freed twice: the inductive invariant.                                   *)
(***************************************************************************)
THEOREM Trees == Spec => []IInv
<1>1. Init => IInv
  BY InitIInv
<1>2. IInv /\ [Next]_vars => IInv'
  BY NextKeepsIInv
<1>3. QED
  BY <1>1, <1>2, PTL DEF Spec

LEMMA TreesAreTyped ==
  ASSUME IInv
  PROVE  TypeOK
<1>1. Sound(heap) /\ Forest(heap, roots) /\ returned \subseteq roots
  BY DEF IInv, Good
<1>2. DOMAIN heap = Nodes
  BY <1>1 DEF Sound, Heaps
<1>3. Live = LiveIn(heap)
  BY DEF Live, LiveIn
<1>4. \A n \in Live : WellFormed(heap[n])
  BY <1>1, <1>3 DEF Sound
<1>5. roots \subseteq Live
  BY <1>1, <1>3 DEF Forest
<1>6. QED
  BY <1>1, <1>2, <1>4, <1>5 DEF TypeOK

\* The places that hold a value: one of a root, and of every other value the
\* place in its parent.
LEMMA OwnersOfLive ==
  ASSUME IInv, NEW n \in Live
  PROVE  \E place : Owners(n) = {place}
<1> DEFINE h == heap
           places(c) == {<<c, i>> : i \in {j \in DOMAIN h[c].items : h[c].items[j] = n}}
           caller == IF n \in roots THEN {<<NULL, 0>>} ELSE {}
<1>1. /\ Sound(h) /\ Forest(h, roots) /\ Live = LiveIn(h)
  BY DEF IInv, Good, Live, LiveIn
<1>2. Owners(n) = caller \cup UNION {places(c) : c \in Live}
  BY DEF Owners
<1> HIDE DEF h
<1>3. \A c \in Live : n \notin Kids(h, c) => places(c) = {}
  <2>1. SUFFICES ASSUME NEW c \in Live, NEW i \in DOMAIN h[c].items, h[c].items[i] = n
                 PROVE  n \in Kids(h, c)
    OBVIOUS
  <2>2. Kids(h, c) = ToSet(h[c].items) /\ Fits(h[c].type, h[c].names, h[c].items)
    BY <1>1, SoundFits
  <2>3. QED
    BY <2>1, <2>2 DEF ToSet
<1>4. CASE n \in roots
  <2>1. \A c \in Live : n \notin Kids(h, c)
    BY <1>1, <1>4 DEF Forest
  <2>2. \A c \in Live : places(c) = {}
    BY <1>3, <2>1
  <2> HIDE DEF places
  <2>3. UNION {places(c) : c \in Live} = {}
    BY <2>2
  <2>4. Owners(n) = {<<NULL, 0>>}
    BY <1>2, <1>4, <2>3
  <2>5. QED
    BY <2>4
<1>5. CASE n \notin roots
  <2> DEFINE p == h[n].parent
  <2>1. p \in Live /\ n \in Kids(h, p)
    BY <1>1, <1>5 DEF Forest
  <2>2. \A c \in Live : c # p => n \notin Kids(h, c)
    BY <1>1 DEF Forest
  <2> HIDE DEF p
  <2>3. \A c \in Live : c # p => places(c) = {}
    BY <1>3, <2>2
  <2>4. Kids(h, p) = ToSet(h[p].items) /\ Distinct(h[p].items)
    BY <1>1, <2>1, SoundFits DEF Fits
  <2>5. PICK i \in DOMAIN h[p].items : h[p].items[i] = n
    BY <2>1, <2>4 DEF ToSet
  <2>6. \A j \in DOMAIN h[p].items : h[p].items[j] = n => j = i
    BY <2>4, <2>5 DEF Distinct
  <2>7. places(p) = {<<p, i>>}
    BY <2>5, <2>6
  <2> HIDE DEF places
  <2>8. UNION {places(c) : c \in Live} = {<<p, i>>}
    <3>1. \A x : x \in UNION {places(c) : c \in Live} <=> x = <<p, i>>
      BY <2>1, <2>3, <2>7
    <3>2. QED
      BY <3>1
  <2>9. Owners(n) = {<<p, i>>}
    BY <1>2, <1>5, <2>8
  <2>10. QED
    BY <2>9
<1>6. QED
  BY <1>4, <1>5

LEMMA OwnersOfFree ==
  ASSUME IInv, NEW n \in Nodes \ Live
  PROVE  Owners(n) = {}
<1> DEFINE h == heap
           places(c) == {<<c, i>> : i \in {j \in DOMAIN h[c].items : h[c].items[j] = n}}
           caller == IF n \in roots THEN {<<NULL, 0>>} ELSE {}
<1>1. /\ Sound(h) /\ Forest(h, roots) /\ Live = LiveIn(h)
  BY DEF IInv, Good, Live, LiveIn
<1>2. Owners(n) = caller \cup UNION {places(c) : c \in Live}
  BY DEF Owners
<1> HIDE DEF h
<1>3. n \notin roots
  BY <1>1 DEF Forest
<1>4. \A c \in Live : places(c) = {}
  <2>1. SUFFICES ASSUME NEW c \in Live, NEW i \in DOMAIN h[c].items, h[c].items[i] = n
                 PROVE  FALSE
    OBVIOUS
  <2>2. n \in Kids(h, c)
    <3>1. Kids(h, c) = ToSet(h[c].items)
      BY <1>1, SoundFits
    <3>2. QED
      BY <2>1, <3>1 DEF ToSet
  <2>3. n \in Live
    BY <1>1, <2>2 DEF Forest
  <2>4. QED
    BY <2>3
<1> HIDE DEF places
<1>5. UNION {places(c) : c \in Live} = {}
  BY <1>4
<1>6. QED
  BY <1>2, <1>3, <1>5

LEMMA TreesHaveOneOwner ==
  ASSUME IInv
  PROVE  OneOwner
<1>1. ASSUME NEW n \in Live PROVE Cardinality(Owners(n)) = 1
  <2>1. PICK place : Owners(n) = {place}
    BY OwnersOfLive
  <2>2. QED
    BY <2>1, FS_Singleton
<1>2. \A n \in Nodes \ Live : Owners(n) = {}
  BY OwnersOfFree
<1>3. ~twice
  BY DEF IInv
<1>4. QED
  BY <1>1, <1>2, <1>3 DEF OneOwner

LEMMA TreesAgree ==
  ASSUME IInv
  PROVE  ParentsAgree
<1>1. Forest(heap, roots) /\ Loose(heap, roots, returned) /\ Live = LiveIn(heap)
  BY DEF IInv, Good, Live, LiveIn
<1>2. QED
  BY <1>1 DEF ParentsAgree, Forest, Loose

\* A setter whose allocations fail leaves the caller's values as they were.
LEMMA FailedSetter ==
  ASSUME NEW h, NEW R, Sound(h), Forest(h, R), NEW g, Apart(h, g, {}), NEW r \in R
  PROVE  Untouched(g, h, r)
<1>1. r \in LiveIn(h)
  BY DEF Forest
<1>2. Below(h, r) \subseteq LiveIn(h)
  BY <1>1, BelowParent
<1>3. \A n \in LiveIn(h) : Alike(g[n], h[n])
  BY DEF Apart, Alike, LiveIn
<1>4. QED
  BY <1>2, <1>3 DEF Untouched

LEMMA TreesAreSet ==
  ASSUME IInv
  PROVE  SetMeansSet
<1> DEFINE Set(o, path, v, fuel) == json_object_dotset_value(Memory(heap, fuel), o, path, v)
<1>1. Sound(heap) /\ Forest(heap, roots)
  BY DEF IInv, Good
<1>2. ASSUME NEW o \in OfType("object"), NEW path \in Paths, NEW v \in Addable(o),
             NEW fuel \in Fuels
      PROVE  LET m == Set(o, path, v, fuel)
             IN  IF m.ok
                 THEN /\ json_object_dotget_value(m.heap, o, path) = v
                      /\ Untouched(m.heap, heap, v)
                      /\ \A other \in Paths :
                            LET before == json_object_dotget_value(heap, o, other)
                                after == json_object_dotget_value(m.heap, o, other)
                            IN  before # NULL /\ ~IsPrefix(path, other) =>
                                  /\ after = before
                                  /\ IsPrefix(other, path) \/ Untouched(m.heap, heap, before)
                 ELSE \A r \in roots : Untouched(m.heap, heap, r)
  <2> DEFINE m == Memory(heap, fuel)
             r == Set(o, path, v, fuel)
             g == r.heap
  <2>1. fuel \in Nat
    BY FuelsAssumption
  <2>2. Fine(m, roots, returned) /\ m.heap = heap
    BY <2>1, FineMemory
  <2>3. r = json_object_dotset_value(m, o, path, v)
    OBVIOUS
  <2>4. o \in LiveIn(heap) /\ heap[o].type = "object" /\ v \in LiveIn(heap)
        /\ o \notin Below(heap, v)
    BY DEF OfType, Live, LiveIn, Addable
  <2>5. path \in Seq(Seq(STRING)) /\ path # <<>> /\ Len(path) \in Nat \ {0}
    BY PathsAreNames
  <2> HIDE DEF m, r
  <2>6. SetDown(r, roots, returned, path, v) /\ SetWhere(r, heap, o, path, v)
    <3>1. o \in LiveIn(m.heap) /\ m.heap[o].type = "object" /\ v \in LiveIn(m.heap)
          /\ o \notin Below(m.heap, v)
      BY <2>2, <2>4
    <3>2. SetDown(r, roots, returned, path, v) /\ SetWhere(r, m.heap, o, path, v)
      BY <2>2, <2>3, <2>5, <3>1, FineDotSet
    <3>3. QED
      BY <2>2, <3>2
  <2> HIDE DEF g
  <2>7. ASSUME ~r.ok, NEW x \in roots PROVE Untouched(g, heap, x)
    <3>1. Apart(heap, g, {})
      BY <2>6, <2>7 DEF SetWhere, g
    <3>2. QED
      BY <1>1, <3>1, FailedSetter
  <2>8. ASSUME r.ok
        PROVE  /\ json_object_dotget_value(g, o, path) = v
               /\ Untouched(g, heap, v)
               /\ \A other \in Paths :
                     json_object_dotget_value(heap, o, other) # NULL /\ ~IsPrefix(path, other) =>
                        /\ json_object_dotget_value(g, o, other)
                             = json_object_dotget_value(heap, o, other)
                        /\ \/ IsPrefix(other, path)
                           \/ Untouched(g, heap, json_object_dotget_value(heap, o, other))
    <3>1. v \in roots /\ Sound(g) /\ Forest(g, roots \ {v})
      BY <2>6, <2>8 DEF SetDown, Fine, Good, g
    <3>2. PICK k \in 1 .. Len(path) : \E w : SetAt(g, heap, o, path, v, w, k)
      BY <2>6, <2>8 DEF SetWhere, g
    <3>3. PICK w : SetAt(g, heap, o, path, v, w, k)
      BY <3>2
    <3>4. json_object_dotget_value(g, o, path) = v
      BY <1>1, <2>5, <3>1, <3>3, SetFound
    <3>5. Untouched(g, heap, v)
      BY <1>1, <2>4, <2>5, <3>1, <3>3, SetKeepsValue
    <3>6. ASSUME NEW other \in Paths, json_object_dotget_value(heap, o, other) # NULL,
                 ~IsPrefix(path, other)
          PROVE  /\ json_object_dotget_value(g, o, other)
                      = json_object_dotget_value(heap, o, other)
                 /\ \/ IsPrefix(other, path)
                    \/ Untouched(g, heap, json_object_dotget_value(heap, o, other))
      <4>1. other \in Seq(Seq(STRING)) /\ other # <<>>
        BY PathsAreNames
      <4>2. QED
        BY <1>1, <2>4, <2>5, <3>1, <3>3, <3>6, <4>1, SetKeepsNames
    <3>7. QED
      BY <3>4, <3>5, <3>6
  <2>9. QED
    BY <2>7, <2>8 DEF g, r
<1>3. QED
  BY <1>2 DEF SetMeansSet

\* Types, for any blocks, names, paths and fuels: every value is well formed,
\* the caller's values are live, and those a dotted setter has returned are its.
THEOREM TypeCorrect == Spec => []TypeOK
<1>1. IInv => TypeOK
  BY TreesAreTyped
<1>2. QED
  BY <1>1, Trees, PTL

(***************************************************************************)
(* Ownership, for any number of blocks and whichever allocations fail:     *)
(* every call of parson leaves every live value with one owner, which is   *)
(* the caller or one place in one container, no container with a freed     *)
(* value, and frees nothing twice.                                         *)
(***************************************************************************)
THEOREM OwnedOnce == Spec => []OneOwner
<1>1. IInv => OneOwner
  BY TreesHaveOneOwner
<1>2. QED
  BY <1>1, Trees, PTL

(***************************************************************************)
(* Parents, likewise: the parent of a value is the container that holds    *)
(* it, and a value of the caller has none, but for the value that a dotted *)
(* setter returned when it ran out of memory.                              *)
(***************************************************************************)
THEOREM ParentsKept == Spec => []ParentsAgree
<1>1. IInv => ParentsAgree
  BY TreesAgree
<1>2. QED
  BY <1>1, Trees, PTL

(***************************************************************************)
(* Dotted setters, for any names, any depth and whichever allocations      *)
(* fail: one that succeeds puts the value where its name says, leaves the  *)
(* value as it was and changes nothing that another name finds; one that   *)
(* fails changes nothing the caller has.                                   *)
(***************************************************************************)
THEOREM SetsWhatItNames == Spec => []SetMeansSet
<1>1. IInv => SetMeansSet
  BY TreesAreSet
<1>2. QED
  BY <1>1, Trees, PTL
=============================================================================
