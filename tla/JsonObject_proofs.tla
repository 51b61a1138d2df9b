------------------------- MODULE JsonObject_proofs -------------------------
(***************************************************************************)
(* Theorems about the hash table of JsonObject, for every set of names,    *)
(* every hash function and every starting capacity: removal by shifting    *)
(* cells back keeps every name findable, and the table is a map.           *)
(***************************************************************************)
EXTENDS JsonObject, NatSets, FiniteSetTheorems

-----------------------------------------------------------------------------
\* The cells as a ring

\* A remainder is what is left of a multiple.
LEMMA Remainder ==
  ASSUME NEW c \in Nat \ {0}, NEW q \in Int, NEW r \in 0 .. c - 1
  PROVE  (c * q + r) % c = r
<1> DEFINE x == c * q + r
           p == x \div c
           s == x % c
           d == q - p
<1>1. x \in Int /\ p \in Int /\ s \in 0 .. c - 1 /\ c * q \in Int
  OBVIOUS
<1>2. x = c * p + s
  BY <1>1
<1>3. d \in Int /\ c * d = s - r
  BY <1>1, <1>2
<1>4. \A e \in Int : e >= 1 => c * e >= c
  <2>1. SUFFICES ASSUME NEW e \in Int, e >= 1 PROVE c * e >= c
    OBVIOUS
  <2>2. c * (e - 1) \in Nat
    BY <2>1
  <2>3. QED
    BY <2>1, <2>2
<1>5. \A e \in Int : e <= -1 => c * e <= -c
  <2>1. SUFFICES ASSUME NEW e \in Int, e <= -1 PROVE c * e <= -c
    OBVIOUS
  <2>2. c * (-1 - e) \in Nat
    BY <2>1
  <2>3. QED
    BY <2>1, <2>2
<1> HIDE DEF d, p, s, x
<1>6. ~(d >= 1) /\ ~(d <= -1)
  BY <1>1, <1>3, <1>4, <1>5
<1>7. d = 0
  BY <1>3, <1>6
<1>8. QED
  BY <1>1, <1>3, <1>7 DEF s, x

\* e cells on from cell c of a ring of n.
Ahead(n, c, e) == IF c + e < n THEN c + e ELSE c + e - n

\* The slots of successive numbers are successive cells of the ring.
LEMMA Ring ==
  ASSUME NEW n \in Nat \ {0}, NEW a \in Nat, NEW e \in 0 .. n - 1
  PROVE  a % n \in 0 .. n - 1 /\ (a + e) % n = Ahead(n, a % n, e)
<1> DEFINE q == a \div n
           r == a % n
<1>1. q \in Int /\ r \in 0 .. n - 1 /\ a = n * q + r
  OBVIOUS
<1> HIDE DEF q, r
<1>2. CASE r + e < n
  <2>1. a + e = n * q + (r + e) /\ r + e \in 0 .. n - 1
    BY <1>1, <1>2
  <2>2. QED
    BY <1>1, <1>2, <2>1, Remainder DEF r, Ahead
<1>3. CASE ~(r + e < n)
  <2>1. a + e = n * (q + 1) + (r + e - n) /\ r + e - n \in 0 .. n - 1 /\ q + 1 \in Int
    BY <1>1, <1>3
  <2>2. QED
    BY <1>1, <1>3, <2>1, Remainder DEF r, Ahead
<1>4. QED
  BY <1>2, <1>3

\* The slot of a cell is the cell.
LEMMA OwnSlot ==
  ASSUME NEW n \in Nat \ {0}, NEW c \in 0 .. n - 1
  PROVE  c % n = c
<1>1. (n * 0 + c) % n = c
  BY Remainder
<1>2. QED
  BY <1>1

\* Going on around the ring reaches every cell, past those in between.
LEMMA Around ==
  ASSUME NEW n \in Nat \ {0}, NEW c \in 0 .. n - 1
  PROVE  /\ \A e \in 0 .. n - 1 : Ahead(n, c, e) \in 0 .. n - 1
         /\ \A x \in 0 .. n - 1 : \E e \in 0 .. n - 1 : x = Ahead(n, c, e)
         /\ \A d, e \in 0 .. n - 1 : Ahead(n, c, d) = Ahead(n, c, e) => d = e
         /\ \A x \in 0 .. n - 1, e \in 0 .. n - 1 :
               Passes(c, x, Ahead(n, c, e)) <=> \E d \in 0 .. e - 1 : x = Ahead(n, c, d)
<1>1. \A e \in 0 .. n - 1 : Ahead(n, c, e) \in 0 .. n - 1
  BY DEF Ahead
<1>2. ASSUME NEW x \in 0 .. n - 1
      PROVE  \E e \in 0 .. n - 1 : x = Ahead(n, c, e)
  <2>1. CASE x >= c
    <3>1. x - c \in 0 .. n - 1 /\ x = Ahead(n, c, x - c)
      BY <2>1 DEF Ahead
    <3>2. QED
      BY <3>1
  <2>2. CASE x < c
    <3>1. x - c + n \in 0 .. n - 1 /\ x = Ahead(n, c, x - c + n)
      BY <2>2 DEF Ahead
    <3>2. QED
      BY <3>1
  <2>3. QED
    BY <2>1, <2>2
<1>3. \A d, e \in 0 .. n - 1 : Ahead(n, c, d) = Ahead(n, c, e) => d = e
  BY DEF Ahead
<1>4. ASSUME NEW x \in 0 .. n - 1, NEW e \in 0 .. n - 1, Passes(c, x, Ahead(n, c, e))
      PROVE  \E d \in 0 .. e - 1 : x = Ahead(n, c, d)
  <2>1. PICK d \in 0 .. n - 1 : x = Ahead(n, c, d)
    BY <1>2
  <2>2. d < e
    BY <1>4, <2>1 DEF Passes, Ahead
  <2>3. QED
    BY <2>1, <2>2
<1>5. ASSUME NEW e \in 0 .. n - 1, NEW d \in 0 .. e - 1
      PROVE  Passes(c, Ahead(n, c, d), Ahead(n, c, e))
  BY DEF Passes, Ahead
<1>6. QED
  BY <1>1, <1>2, <1>3, <1>4, <1>5

\* Of two cells on the ring a probe passes one before it ends at the other,
\* and it does not pass the cell where it ends.
LEMMA PassesOne ==
  ASSUME NEW n \in Nat, NEW h \in 0 .. n - 1, NEW x \in 0 .. n - 1, NEW y \in 0 .. n - 1
  PROVE  /\ x # y => (Passes(h, x, y) <=> ~Passes(h, y, x))
         /\ ~Passes(h, x, x)
  BY DEF Passes

-----------------------------------------------------------------------------
\* The probe

\* Cell c holds the item of that name.
Holding(o, c, key) ==
    /\ o.cells[c] # OBJECT_INVALID_IX
    /\ o.items[o.cells[c]].hash = hash_string[key]
    /\ o.items[o.cells[c]].name = key

Stop(o, c, key) == o.cells[c] = OBJECT_INVALID_IX \/ Holding(o, c, key)

\* json_object_get_cell_ix() ends at the first cell that is free or holds the
\* name, or finds no such cell.
LEMMA Probe ==
  ASSUME NEW o, o.cell_capacity \in Nat, NEW key \in Keys
  PROVE  LET n == o.cell_capacity
             h == Slot(o, hash_string[key])
             probe == json_object_get_cell_ix(o, key)
         IN  \/ /\ probe = [ix |-> OBJECT_INVALID_IX, found |-> FALSE]
                /\ \A c \in 0 .. n - 1 : ~Stop(o, c, key)
             \/ /\ n # 0 /\ h \in 0 .. n - 1
                /\ probe.ix \in 0 .. n - 1
                /\ probe = [ix |-> probe.ix, found |-> Holding(o, probe.ix, key)]
                /\ Stop(o, probe.ix, key)
                /\ \A c \in 0 .. n - 1 : Passes(h, c, probe.ix) => ~Stop(o, c, key)
<1> DEFINE n == o.cell_capacity
           h == Slot(o, hash_string[key])
           probe == json_object_get_cell_ix(o, key)
           CellAt(e) == Slot(o, hash_string[key] + e)
           Stops == {e \in 0 .. n - 1 : Stop(o, CellAt(e), key)}
<1>1. probe = IF Stops = {} THEN [ix |-> OBJECT_INVALID_IX, found |-> FALSE]
              ELSE [ix |-> CellAt(Min(Stops)), found |-> Holding(o, CellAt(Min(Stops)), key)]
  BY DEF json_object_get_cell_ix, Stop, Holding
<1>2. hash_string[key] \in Nat
  BY HashAssumption
<1>3. CASE n = 0
  <2>1. Stops = {}
    BY <1>3
  <2>2. QED
    BY <1>1, <1>3, <2>1
<1>4. CASE n # 0
  <2>1. h \in 0 .. n - 1 /\ \A e \in 0 .. n - 1 : CellAt(e) = Ahead(n, h, e)
    <3>1. n \in Nat \ {0} /\ 0 \in 0 .. n - 1
      BY <1>4
    <3>2. h \in 0 .. n - 1
      BY <1>2, <3>1, Ring DEF Slot
    <3>3. ASSUME NEW e \in 0 .. n - 1 PROVE CellAt(e) = Ahead(n, h, e)
      <4>1. (hash_string[key] + e) % n = Ahead(n, hash_string[key] % n, e)
        BY <1>2, <3>1, Ring
      <4>2. QED
        BY <4>1 DEF Slot
    <3>4. QED
      BY <3>2, <3>3
  <2> HIDE DEF h
  <2>2. CASE Stops = {}
    <3>1. ASSUME NEW c \in 0 .. n - 1, Stop(o, c, key) PROVE FALSE
      <4>1. PICK e \in 0 .. n - 1 : c = Ahead(n, h, e)
        BY <1>4, <2>1, Around
      <4>2. e \in Stops
        BY <2>1, <3>1, <4>1
      <4>3. QED
        BY <2>2, <4>2
    <3>2. QED
      BY <1>1, <2>2, <3>1
  <2>3. CASE Stops # {}
    <3>1. Stops \in SUBSET Nat
      OBVIOUS
    <3>2. \E e \in Stops : \A d \in Stops : e <= d
      BY <2>3, <3>1, Smallest
    <3> DEFINE e == Min(Stops)
    <3>3. e \in Stops /\ \A d \in Stops : e <= d
      BY <3>2 DEF Min
    <3> HIDE DEF e
    <3>4. /\ probe = [ix |-> CellAt(e), found |-> Holding(o, CellAt(e), key)]
          /\ probe.ix = CellAt(e)
      BY <1>1, <2>3 DEF e
    <3>5. probe.ix = Ahead(n, h, e) /\ e \in 0 .. n - 1 /\ Stop(o, probe.ix, key)
      BY <2>1, <3>3, <3>4
    <3>6. ASSUME NEW c \in 0 .. n - 1, Passes(h, c, probe.ix), Stop(o, c, key) PROVE FALSE
      <4>1a. n \in Nat \ {0}
        BY <1>4
      <4>1. PICK d \in 0 .. e - 1 : c = Ahead(n, h, d)
        <5> HIDE DEF n
        <5>1. \A x \in 0 .. n - 1, b \in 0 .. n - 1 :
                 Passes(h, x, Ahead(n, h, b)) <=> \E d \in 0 .. b - 1 : x = Ahead(n, h, d)
          BY <2>1, <4>1a, Around
        <5>2. QED
          BY <3>5, <3>6, <5>1
      <4>2. d \in 0 .. n - 1
        BY <3>5
      <4>3. d \in Stops
        BY <2>1, <3>6, <4>1, <4>2
      <4>4. QED
        BY <3>3, <3>5, <4>1, <4>3
    <3>7. probe.ix \in 0 .. n - 1
      BY <1>4, <2>1, <3>5, Around
    <3> HIDE DEF probe
    <3>8. QED
      BY <1>4, <2>1, <3>4, <3>5, <3>6, <3>7 DEF probe, h
  <2>4. QED
    BY <2>2, <2>3
<1>5. QED
  BY <1>3, <1>4

-----------------------------------------------------------------------------
\* What a table answers

\* The numbers of a table: its items have a home and a name.
LEMMA Numbers ==
  ASSUME NEW o, Shape(o), NEW m \in 0 .. o.count, NEW g, Intact(o, m, g)
  PROVE  /\ o.cell_capacity \in Nat /\ o.count \in Nat
         /\ \A i \in 0 .. m - 1 :
               /\ o.items[i] \in Items /\ o.items[i].name \in Keys
               /\ o.items[i].cell_ix \in 0 .. o.cell_capacity - 1
               /\ o.cell_capacity # 0
               /\ Home(o, i) \in 0 .. o.cell_capacity - 1
               /\ Home(o, i) = Slot(o, hash_string[o.items[i].name])
<1>1. o.cell_capacity \in Nat /\ o.count \in Nat /\ o.items \in [0 .. o.count - 1 -> Items]
  BY DEF Shape
<1>2. ASSUME NEW i \in 0 .. m - 1
      PROVE  /\ o.items[i] \in Items /\ o.items[i].name \in Keys
             /\ o.items[i].cell_ix \in 0 .. o.cell_capacity - 1
             /\ o.cell_capacity # 0
             /\ Home(o, i) \in 0 .. o.cell_capacity - 1
             /\ Home(o, i) = Slot(o, hash_string[o.items[i].name])
  <2>1. i \in 0 .. o.count - 1
    BY <1>1
  <2>2. o.items[i] \in Items
    BY <1>1, <2>1
  <2>3. o.items[i].name \in Keys /\ o.items[i].hash \in Nat
    BY <2>2 DEF Items
  <2>4. o.items[i].cell_ix \in 0 .. o.cell_capacity - 1
    BY DEF Intact, Placed
  <2>5. o.cell_capacity \in Nat \ {0} /\ 0 \in 0 .. o.cell_capacity - 1
    BY <1>1, <2>4
  <2>6. o.items[i].hash % o.cell_capacity \in 0 .. o.cell_capacity - 1
    BY <2>3, <2>5, Ring
  <2>7. o.items[i].hash = hash_string[o.items[i].name]
    BY DEF Intact, Named
  <2>8. QED
    BY <2>2, <2>3, <2>4, <2>5, <2>6, <2>7 DEF Home, Slot
<1>3. QED
  BY <1>1, <1>2

\* The probe for the name of an item ends at the cell of the item.
LEMMA NameFound ==
  ASSUME NEW o, Table(o), NEW i \in 0 .. o.count - 1
  PROVE  json_object_get_cell_ix(o, o.items[i].name) = [ix |-> o.items[i].cell_ix, found |-> TRUE]
<1> DEFINE n == o.cell_capacity
           key == o.items[i].name
           x == o.items[i].cell_ix
           h == Slot(o, hash_string[key])
           probe == json_object_get_cell_ix(o, key)
           y == probe.ix
<1>1. Shape(o) /\ Intact(o, o.count, OBJECT_INVALID_IX) /\ o.count \in 0 .. o.count
  BY DEF Table, Shape
<1>2. /\ n \in Nat /\ n # 0 /\ key \in Keys /\ x \in 0 .. n - 1
      /\ h \in 0 .. n - 1 /\ Home(o, i) = h
  BY <1>1, Numbers
<1>3. Holding(o, x, key)
  <2>1. o.cells[x] = i
    BY <1>1 DEF Intact, Placed
  <2>2. i # OBJECT_INVALID_IX /\ o.items[i].hash = hash_string[key]
    BY <1>1 DEF Intact, Named, OBJECT_INVALID_IX
  <2>3. QED
    BY <2>1, <2>2 DEF Holding
<1>4. \A c \in 0 .. n - 1 : Holding(o, c, key) => c = x
  <2>1. SUFFICES ASSUME NEW c \in 0 .. n - 1, Holding(o, c, key) PROVE c = x
    OBVIOUS
  <2>2. /\ o.cells[c] \in 0 .. o.count - 1 /\ o.items[o.cells[c]].cell_ix = c
        /\ o.items[o.cells[c]].name = key
    BY <1>1, <1>2, <2>1 DEF Intact, Backed, Holding, OBJECT_INVALID_IX
  <2>3. o.cells[c] = i
    BY <1>1, <2>2 DEF Intact, Named
  <2>4. QED
    BY <2>2, <2>3
<1>5. /\ y \in 0 .. n - 1 /\ probe = [ix |-> y, found |-> Holding(o, y, key)]
      /\ Stop(o, y, key) /\ \A c \in 0 .. n - 1 : Passes(h, c, y) => ~Stop(o, c, key)
  BY <1>2, <1>3, Probe DEF Stop
<1>6. \A c \in 0 .. n - 1 : Passes(h, c, x) => o.cells[c] # OBJECT_INVALID_IX
  BY <1>1, <1>2 DEF Intact, Uncut, OBJECT_INVALID_IX
<1> HIDE DEF n, key, x, h, probe, y
<1>7. y = x
  <2>1. SUFFICES ASSUME y # x PROVE FALSE
    OBVIOUS
  <2>2. ~Holding(o, y, key)
    BY <1>4, <1>5, <2>1
  <2>3. o.cells[y] = OBJECT_INVALID_IX
    BY <1>5, <2>2 DEF Stop
  <2>4. ~Passes(h, y, x)
    BY <1>5, <1>6, <2>3
  <2>5. Passes(h, x, y)
    BY <1>2, <1>5, <2>1, <2>4, PassesOne
  <2>6. QED
    BY <1>2, <1>3, <1>5, <2>5 DEF Stop
<1>8. probe = [ix |-> x, found |-> TRUE]
  BY <1>3, <1>5, <1>7
<1>9. QED
  BY <1>8 DEF probe, key, x

\* The probe for another name does not find it, and ends at a free cell if
\* there is one.
LEMMA NameAbsent ==
  ASSUME NEW o, Table(o), NEW key \in Keys, \A i \in 0 .. o.count - 1 : o.items[i].name # key
  PROVE  LET probe == json_object_get_cell_ix(o, key)
             h == Slot(o, hash_string[key])
         IN  /\ ~probe.found
             /\ (\E c \in 0 .. o.cell_capacity - 1 : o.cells[c] = OBJECT_INVALID_IX) =>
                   /\ h \in 0 .. o.cell_capacity - 1
                   /\ probe.ix \in 0 .. o.cell_capacity - 1
                   /\ o.cells[probe.ix] = OBJECT_INVALID_IX
                   /\ \A c \in 0 .. o.cell_capacity - 1 :
                         Passes(h, c, probe.ix) => o.cells[c] # OBJECT_INVALID_IX
<1> DEFINE n == o.cell_capacity
           h == Slot(o, hash_string[key])
           probe == json_object_get_cell_ix(o, key)
<1>1. Shape(o) /\ Intact(o, o.count, OBJECT_INVALID_IX) /\ n \in Nat
  BY DEF Table, Shape
<1>2. ASSUME NEW c \in 0 .. n - 1 PROVE ~Holding(o, c, key)
  <2>1. c # OBJECT_INVALID_IX
    BY <1>1 DEF OBJECT_INVALID_IX
  <2>2. o.cells[c] = OBJECT_INVALID_IX \/ o.cells[c] \in 0 .. o.count - 1
    BY <1>1, <2>1 DEF Intact, Backed
  <2>3. QED
    BY <2>2 DEF Holding
<1>3. \A c \in 0 .. n - 1 : Stop(o, c, key) <=> o.cells[c] = OBJECT_INVALID_IX
  BY <1>2 DEF Stop
<1>4. \/ /\ probe = [ix |-> OBJECT_INVALID_IX, found |-> FALSE]
         /\ \A c \in 0 .. n - 1 : ~Stop(o, c, key)
      \/ /\ n # 0 /\ h \in 0 .. n - 1
         /\ probe.ix \in 0 .. n - 1
         /\ probe = [ix |-> probe.ix, found |-> Holding(o, probe.ix, key)]
         /\ Stop(o, probe.ix, key)
         /\ \A c \in 0 .. n - 1 : Passes(h, c, probe.ix) => ~Stop(o, c, key)
  BY <1>1, Probe
<1> HIDE DEF n, h, probe
<1>5. CASE /\ probe = [ix |-> OBJECT_INVALID_IX, found |-> FALSE]
           /\ \A c \in 0 .. n - 1 : ~Stop(o, c, key)
  BY <1>3, <1>5 DEF n, h, probe
<1>6. CASE /\ n # 0 /\ h \in 0 .. n - 1
           /\ probe.ix \in 0 .. n - 1
           /\ probe = [ix |-> probe.ix, found |-> Holding(o, probe.ix, key)]
           /\ Stop(o, probe.ix, key)
           /\ \A c \in 0 .. n - 1 : Passes(h, c, probe.ix) => ~Stop(o, c, key)
  <2>1. probe.found = FALSE
    BY <1>2, <1>6
  <2>2. QED
    BY <1>3, <1>6, <2>1 DEF n, h, probe
<1>7. QED
  BY <1>4, <1>5, <1>6

\* Items that do not fill the cells leave one free.
LEMMA FreeCell ==
  ASSUME NEW o, Table(o), o.count < o.cell_capacity
  PROVE  \E c \in 0 .. o.cell_capacity - 1 : o.cells[c] = OBJECT_INVALID_IX
<1> DEFINE C == 0 .. o.cell_capacity - 1
           I == 0 .. o.count - 1
<1>1. Shape(o) /\ Intact(o, o.count, OBJECT_INVALID_IX)
      /\ o.cell_capacity \in Nat /\ o.count \in Nat
  BY DEF Table, Shape
<1>2. SUFFICES ASSUME \A c \in C : o.cells[c] # OBJECT_INVALID_IX PROVE FALSE
  OBVIOUS
<1>3. \A c \in C : o.cells[c] \in I /\ o.items[o.cells[c]].cell_ix = c
  BY <1>1, <1>2 DEF Intact, Backed, OBJECT_INVALID_IX
<1>4. o.cells \in [C -> I]
  BY <1>1, <1>3 DEF Shape
<1>5. IsFiniteSet(C) /\ Cardinality(C) = o.cell_capacity
  <2>1. 0 \in Int /\ o.cell_capacity - 1 \in Int
    BY <1>1
  <2>2. IsFiniteSet(C) /\ Cardinality(C) = IF 0 > o.cell_capacity - 1 THEN 0 ELSE o.cell_capacity - 1 - 0 + 1
    BY <2>1, FS_Interval
  <2>3. QED
    BY <1>1, <2>2
<1>6. IsFiniteSet(I) /\ Cardinality(I) = o.count
  <2>1. 0 \in Int /\ o.count - 1 \in Int
    BY <1>1
  <2>2. IsFiniteSet(I) /\ Cardinality(I) = IF 0 > o.count - 1 THEN 0 ELSE o.count - 1 - 0 + 1
    BY <2>1, FS_Interval
  <2>3. QED
    BY <1>1, <2>2
<1> HIDE DEF C, I
<1>7. \E c, d \in C : c # d /\ o.cells[c] = o.cells[d]
  BY <1>4, <1>5, <1>6, FS_PigeonHole
<1>8. QED
  BY <1>3, <1>7

\* json_object_getn_value() returns the value of the item with the name.
LEMMA ValueFound ==
  ASSUME NEW o, Table(o)
  PROVE  \A k \in Keys :
            /\ \A i \in 0 .. o.count - 1 : o.items[i].name = k =>
                  /\ Found(o, k) /\ json_object_getn_value(o, k) = o.items[i].value
                  /\ o.cells[json_object_get_cell_ix(o, k).ix] = i
            /\ (\A i \in 0 .. o.count - 1 : o.items[i].name # k) =>
                  ~Found(o, k) /\ json_object_getn_value(o, k) = NULL
<1>1. TAKE k \in Keys
<1>2. ASSUME NEW i \in 0 .. o.count - 1, o.items[i].name = k
      PROVE  /\ Found(o, k) /\ json_object_getn_value(o, k) = o.items[i].value
             /\ o.cells[json_object_get_cell_ix(o, k).ix] = i
  <2>1. json_object_get_cell_ix(o, k) = [ix |-> o.items[i].cell_ix, found |-> TRUE]
    BY <1>2, NameFound
  <2>2. o.cells[o.items[i].cell_ix] = i
    BY DEF Table, Intact, Placed
  <2>3. QED
    BY <2>1, <2>2 DEF Found, json_object_getn_value
<1>3. ASSUME \A i \in 0 .. o.count - 1 : o.items[i].name # k
      PROVE  ~Found(o, k) /\ json_object_getn_value(o, k) = NULL
  <2>1. ~json_object_get_cell_ix(o, k).found
    BY <1>3, NameAbsent
  <2>2. QED
    BY <2>1 DEF Found, json_object_getn_value
<1>4. QED
  BY <1>2, <1>3

-----------------------------------------------------------------------------
\* Adding to a table, and growing it

\* A table just allocated is empty and well formed.
LEMMA EmptyTable ==
  ASSUME NEW n \in Nat
  PROVE  LET o == json_object_init(n)
         IN  /\ Table(o) /\ o.count = 0 /\ o.cell_capacity = n /\ ValuesOf(o) = {}
             /\ \A k \in Keys : json_object_getn_value(o, k) = NULL
<1> DEFINE o == json_object_init(n)
<1>1. /\ o.cell_capacity = n /\ o.count = 0 /\ o.items = [i \in {} |-> NULL]
      /\ o.cells = [c \in 0 .. n - 1 |-> OBJECT_INVALID_IX]
      /\ o = [cell_capacity |-> o.cell_capacity, cells |-> o.cells,
              items |-> o.items, count |-> o.count]
  BY DEF json_object_init
<1> HIDE DEF o
<1>2. 0 .. o.count - 1 = {} /\ 0 .. -1 = {}
  BY <1>1
<1>3. o.items \in [{} -> Items]
  BY <1>1
<1>4. Shape(o)
  <2>1. o.items \in [0 .. o.count - 1 -> Items]
    BY <1>2, <1>3
  <2>2. o.cells \in [0 .. o.cell_capacity - 1 -> {OBJECT_INVALID_IX} \cup 0 .. o.count - 1]
    BY <1>1
  <2>3. QED
    BY <1>1, <2>1, <2>2 DEF Shape
<1>5. Intact(o, o.count, OBJECT_INVALID_IX)
  BY <1>1, <1>2 DEF Intact, Named, Placed, Backed, Uncut
<1>6. Table(o)
  BY <1>4, <1>5 DEF Table
<1>7. ValuesOf(o) = {}
  BY <1>1 DEF ValuesOf
<1>8. \A k \in Keys : json_object_getn_value(o, k) = NULL
  BY <1>2, <1>6, ValueFound
<1>9. QED
  BY <1>1, <1>6, <1>7, <1>8 DEF o

\* The parts of a table after a change of its cells, items and count.
LEMMA ChangedTable ==
  ASSUME NEW o, o = [cell_capacity |-> o.cell_capacity, cells |-> o.cells,
                     items |-> o.items, count |-> o.count],
         NEW x, NEW m, NEW items, NEW count
  PROVE  [o EXCEPT !.cells[x] = m, !.items = items, !.count = count]
             = [cell_capacity |-> o.cell_capacity, cells |-> [o.cells EXCEPT ![x] = m],
                items |-> items, count |-> count]
<1> DEFINE p == [o EXCEPT !.cells[x] = m]
           q == [p EXCEPT !.items = items]
<1>1. p = [cell_capacity |-> o.cell_capacity, cells |-> [o.cells EXCEPT ![x] = m],
           items |-> o.items, count |-> o.count]
  OBVIOUS
<1> HIDE DEF p
<1>2. q = [cell_capacity |-> o.cell_capacity, cells |-> [o.cells EXCEPT ![x] = m],
           items |-> items, count |-> o.count]
  BY <1>1
<1> HIDE DEF q
<1>3. [q EXCEPT !.count = count] = [cell_capacity |-> o.cell_capacity, cells |-> [o.cells EXCEPT ![x] = m],
           items |-> items, count |-> count]
  BY <1>2
<1>4. QED
  BY <1>3 DEF p, q

\* A new name goes to the end of the items and into the free cell where its
\* probe ends; every other item stays findable.
LEMMA Appended ==
  ASSUME NEW o, Table(o), NEW key \in Keys, NEW value \in Values,
         \A i \in 0 .. o.count - 1 : o.items[i].name # key,
         \E c \in 0 .. o.cell_capacity - 1 : o.cells[c] = OBJECT_INVALID_IX
  PROVE  LET r == Append(o, key, value)
         IN  /\ Table(r)
             /\ r.cell_capacity = o.cell_capacity /\ r.count = o.count + 1
             /\ \A i \in 0 .. o.count - 1 : r.items[i] = o.items[i]
             /\ r.items[o.count].name = key /\ r.items[o.count].value = value
<1> DEFINE n == o.cell_capacity
           m == o.count
           x == json_object_get_cell_ix(o, key).ix
           h == Slot(o, hash_string[key])
           item == [name |-> key, value |-> value, cell_ix |-> x, hash |-> hash_string[key]]
           r == Append(o, key, value)
<1>1. Shape(o) /\ Intact(o, m, OBJECT_INVALID_IX) /\ n \in Nat /\ m \in Nat /\ m \in 0 .. o.count
  BY DEF Table, Shape
<1>2. /\ h \in 0 .. n - 1 /\ x \in 0 .. n - 1 /\ o.cells[x] = OBJECT_INVALID_IX
      /\ \A c \in 0 .. n - 1 : Passes(h, c, x) => o.cells[c] # OBJECT_INVALID_IX
  BY NameAbsent
<1>3. hash_string[key] \in Nat
  BY HashAssumption
<1>4. item \in Items
  BY <1>1, <1>2, <1>3 DEF Items
<1>5. /\ r.cell_capacity = n /\ r.count = m + 1
      /\ r.cells = [o.cells EXCEPT ![x] = m]
      /\ r.items = [i \in 0 .. m |-> IF i = m THEN item ELSE o.items[i]]
      /\ r = [cell_capacity |-> r.cell_capacity, cells |-> r.cells,
              items |-> r.items, count |-> r.count]
  <2>1. o = [cell_capacity |-> o.cell_capacity, cells |-> o.cells,
             items |-> o.items, count |-> o.count]
    BY <1>1 DEF Shape
  <2>2. r = [cell_capacity |-> o.cell_capacity, cells |-> [o.cells EXCEPT ![x] = m],
             items |-> [i \in 0 .. m |-> IF i = m THEN item ELSE o.items[i]],
             count |-> m + 1]
    <3> DEFINE items == [i \in 0 .. m |-> IF i = m THEN item ELSE o.items[i]]
    <3>1. r = [o EXCEPT !.cells[x] = m, !.items = items, !.count = m + 1]
      BY DEF Append
    <3> HIDE DEF x, items, m
    <3>2. r = [cell_capacity |-> o.cell_capacity, cells |-> [o.cells EXCEPT ![x] = m],
               items |-> items, count |-> m + 1]
      BY <2>1, <3>1, ChangedTable
    <3>3. QED
      BY <3>2 DEF items
  <2> HIDE DEF r, x, item
  <2>3. QED
    BY <2>2
<1> HIDE DEF r
<1>6. item.name = key /\ item.value = value /\ item.cell_ix = x /\ item.hash = hash_string[key]
  OBVIOUS
<1> HIDE DEF item, x
<1>7. \A i \in 0 .. m : r.items[i] = IF i = m THEN item ELSE o.items[i]
  BY <1>5
<1>8. \A c \in 0 .. n - 1 : r.cells[c] = IF c = x THEN m ELSE o.cells[c]
  BY <1>1, <1>5 DEF Shape
<1>9. Shape(r)
  <2>1. \A i \in 0 .. m : r.items[i] \in Items
    BY <1>1, <1>4, <1>7 DEF Shape
  <2>2. r.items \in [0 .. r.count - 1 -> Items]
    <3>1. 0 .. r.count - 1 = 0 .. m
      BY <1>1, <1>5
    <3>2. r.items \in [0 .. m -> Items]
      BY <1>5, <2>1
    <3>3. QED
      BY <3>1, <3>2
  <2>3. r.cells \in [0 .. n - 1 -> {OBJECT_INVALID_IX} \cup 0 .. r.count - 1]
    <3>1. o.cells \in [0 .. n - 1 -> {OBJECT_INVALID_IX} \cup 0 .. m]
      BY <1>1 DEF Shape
    <3>2. QED
      BY <1>1, <1>2, <1>5, <3>1
  <2>4. QED
    BY <1>1, <1>5, <2>2, <2>3 DEF Shape
<1>10. Named(r, m + 1)
  BY <1>1, <1>6, <1>7 DEF Intact, Named
<1>11. Placed(r, m + 1, OBJECT_INVALID_IX)
  <2>1. \A i \in 0 .. m - 1 : o.items[i].cell_ix # x
    BY <1>1, <1>2 DEF Intact, Placed, OBJECT_INVALID_IX
  <2>2. QED
    BY <1>1, <1>2, <1>5, <1>6, <1>7, <1>8, <2>1 DEF Intact, Placed, OBJECT_INVALID_IX
<1>12. Backed(r, m + 1, OBJECT_INVALID_IX)
  BY <1>1, <1>2, <1>5, <1>6, <1>7, <1>8 DEF Intact, Backed, OBJECT_INVALID_IX
<1>13. Uncut(r, m + 1, OBJECT_INVALID_IX)
  <2>1. \A i \in 0 .. m - 1 : Home(r, i) = Home(o, i)
    BY <1>1, <1>5, <1>7 DEF Home, Slot
  <2>2. Home(r, m) = h
    BY <1>1, <1>5, <1>6, <1>7 DEF Home, Slot
  <2> HIDE DEF h
  <2>3. QED
    BY <1>1, <1>2, <1>5, <1>6, <1>7, <1>8, <2>1, <2>2 DEF Intact, Uncut, OBJECT_INVALID_IX
<1>14. Table(r)
  BY <1>5, <1>9, <1>10, <1>11, <1>12, <1>13 DEF Table, Intact
<1>15. QED
  BY <1>1, <1>5, <1>6, <1>7, <1>14 DEF r

\* The sizes that growing gives a table: more room than it had, and never
\* room for as many items as there are cells.
LEMMA LargerCapacity ==
  ASSUME NEW c \in Nat, NEW m \in Nat, m <= (c * 7) \div 10, c = 0 \/ c >= STARTING_CAPACITY
  PROVE  LET n == Max({2 * c, STARTING_CAPACITY})
         IN  /\ n \in Nat /\ n >= STARTING_CAPACITY
             /\ m < (n * 7) \div 10 /\ (n * 7) \div 10 < n
<1> DEFINE n == Max({2 * c, STARTING_CAPACITY})
<1>1. STARTING_CAPACITY \in Nat /\ STARTING_CAPACITY >= 2
  BY CapacityAssumption
<1>2. \E x \in {2 * c, STARTING_CAPACITY} : \A y \in {2 * c, STARTING_CAPACITY} : x >= y
  BY <1>1
<1>3. n \in {2 * c, STARTING_CAPACITY} /\ n >= 2 * c /\ n >= STARTING_CAPACITY
  BY <1>2 DEF Max
<1> HIDE DEF n
<1>4. n \in Nat /\ n >= 2
  BY <1>1, <1>3
<1>5. (n * 7) \div 10 < n
  BY <1>4
<1>6. m < (n * 7) \div 10
  <2>1. CASE c = 0
    <3>1. n = STARTING_CAPACITY /\ m = 0
      BY <1>1, <1>3, <2>1
    <3>2. QED
      BY <3>1, CapacityAssumption
  <2>2. CASE c >= STARTING_CAPACITY
    <3>1. n = 2 * c /\ c >= 2
      BY <1>1, <1>3, <2>2
    <3>2. m < (2 * c * 7) \div 10
      BY <3>1
    <3>3. QED
      BY <3>1, <3>2
  <2>3. QED
    BY <2>1, <2>2
<1>7. QED
  BY <1>3, <1>4, <1>5, <1>6 DEF n

\* The same items in the same order, wherever their cells are.
Alike(o, r, m) ==
    \A i \in 0 .. m - 1 : r.items[i].name = o.items[i].name /\ r.items[i].value = o.items[i].value

\* Growing adds every item again, in order, to a larger table.
LEMMA Grown ==
  ASSUME NEW o, Table(o), Roomy(o)
  PROVE  LET r == json_object_grow_and_rehash(o)
         IN  /\ Table(r) /\ Roomy(r)
             /\ r.count = o.count /\ Alike(o, r, o.count)
             /\ r.count < item_capacity(r) /\ r.count < r.cell_capacity
<1> DEFINE m == o.count
           size == Max({2 * o.cell_capacity, STARTING_CAPACITY})
           new == json_object_init(size)
           rehashed[k \in 0 .. o.count] ==
               IF k = 0 THEN new
                        ELSE Append(rehashed[k - 1], o.items[k - 1].name, o.items[k - 1].value)
<1>1. json_object_grow_and_rehash(o) = rehashed[o.count]
  BY DEF json_object_grow_and_rehash
<1>2. /\ Shape(o) /\ Intact(o, m, OBJECT_INVALID_IX) /\ m \in Nat /\ o.cell_capacity \in Nat
      /\ \A i \in 0 .. m - 1 : o.items[i].name \in Keys /\ o.items[i].value \in Values
  BY DEF Table, Shape, Items
<1>3. /\ size \in Nat /\ size >= STARTING_CAPACITY
      /\ m < (size * 7) \div 10 /\ (size * 7) \div 10 < size
  BY <1>2, LargerCapacity DEF Roomy, item_capacity
<1> HIDE DEF size
<1>4. \E f : f = [k \in 0 .. m |-> IF k = 0 THEN new
                     ELSE Append(f[k - 1], o.items[k - 1].name, o.items[k - 1].value)]
  <2> HIDE DEF new, m
  <2> DEFINE Begun(f, e) ==
               f = [k \in 0 .. e |-> IF k = 0 THEN new
                       ELSE Append(f[k - 1], o.items[k - 1].name, o.items[k - 1].value)]
             S == {e \in Nat : \E f : Begun(f, e)}
  <2>1. 0 \in S
    <3>1. Begun([k \in 0 .. 0 |-> new], 0)
      OBVIOUS
    <3>2. QED
      BY <3>1
  <2>2. ASSUME NEW e \in S PROVE e + 1 \in S
    <3>1. PICK f : Begun(f, e)
      OBVIOUS
    <3> DEFINE g == [k \in 0 .. e + 1 |->
                       IF k = e + 1 THEN Append(f[e], o.items[e].name, o.items[e].value) ELSE f[k]]
    <3>2. e \in Nat
      OBVIOUS
    <3>3. \A k \in 0 .. e : g[k] = f[k]
      BY <3>2
    <3>4. \A k \in 0 .. e : f[k] = IF k = 0 THEN new
                       ELSE Append(f[k - 1], o.items[k - 1].name, o.items[k - 1].value)
      BY <3>1
    <3>5. \A k \in 0 .. e + 1 : g[k] = IF k = 0 THEN new
                       ELSE Append(g[k - 1], o.items[k - 1].name, o.items[k - 1].value)
      <4>1. TAKE k \in 0 .. e + 1
      <4>2. CASE k = 0
        BY <3>2, <3>3, <3>4, <4>2
      <4>3. CASE k # 0 /\ k # e + 1
        <5>1. k \in 0 .. e /\ k - 1 \in 0 .. e
          BY <3>2, <4>3
        <5>2. g[k] = f[k] /\ g[k - 1] = f[k - 1]
          BY <3>3, <5>1
        <5> HIDE DEF g
        <5>3. QED
          BY <3>4, <4>3, <5>1, <5>2
      <4>4. CASE k = e + 1
        <5>1. k # 0 /\ k - 1 = e /\ k - 1 \in 0 .. e
          BY <3>2, <4>4
        <5>2. g[k] = Append(f[e], o.items[e].name, o.items[e].value)
          BY <4>4
        <5>3. g[k - 1] = f[e]
          BY <3>3, <5>1
        <5> HIDE DEF g
        <5>4. QED
          BY <5>1, <5>2, <5>3
      <4>5. QED
        BY <4>2, <4>3, <4>4
    <3>6. g = [k \in 0 .. e + 1 |-> g[k]]
      OBVIOUS
    <3> HIDE DEF g
    <3>7. Begun(g, e + 1)
      BY <3>5, <3>6
    <3>8. QED
      BY <3>2, <3>7
  <2>3. S = Nat
    <3> HIDE DEF S
    <3>1. S \in SUBSET Nat
      BY DEF S
    <3>2. QED
      BY <2>1, <2>2, <3>1, SetInduction
  <2>4. m \in S
    BY <1>2, <2>3
  <2>5. QED
    BY <2>4
<1>5. rehashed = [k \in 0 .. m |-> IF k = 0 THEN new
                     ELSE Append(rehashed[k - 1], o.items[k - 1].name, o.items[k - 1].value)]
  BY <1>4, Zenon DEF rehashed
<1> HIDE DEF rehashed, new
<1>6. /\ rehashed[0] = new
      /\ \A k \in 0 .. m - 1 :
            rehashed[k + 1] = Append(rehashed[k], o.items[k].name, o.items[k].value)
  <2>1. rehashed[0] = new
    BY <1>2, <1>5
  <2>2. ASSUME NEW k \in 0 .. m - 1
        PROVE  rehashed[k + 1] = Append(rehashed[k], o.items[k].name, o.items[k].value)
    <3>1. k + 1 \in 0 .. m /\ k + 1 # 0 /\ (k + 1) - 1 = k
      BY <1>2
    <3>2. rehashed[k + 1] = Append(rehashed[(k + 1) - 1], o.items[(k + 1) - 1].name, o.items[(k + 1) - 1].value)
      BY <1>5, <3>1
    <3>3. QED
      BY <3>1, <3>2
  <2>3. QED
    BY <2>1, <2>2
<1> DEFINE Right(k) ==
             /\ Table(rehashed[k]) /\ rehashed[k].count = k
             /\ rehashed[k].cell_capacity = size
             /\ Alike(o, rehashed[k], k)
           T == {k \in Nat : k <= m => Right(k)}
<1>7. 0 \in T
  <2>1. Table(new) /\ new.count = 0 /\ new.cell_capacity = size
    BY <1>3, EmptyTable DEF new
  <2>2. QED
    BY <1>6, <2>1 DEF Alike
<1>8. ASSUME NEW k \in T PROVE k + 1 \in T
  <2>1. k \in Nat
    OBVIOUS
  <2>2. SUFFICES ASSUME k + 1 <= m PROVE Right(k + 1)
    BY <2>1
  <2> DEFINE p == rehashed[k]
  <2>3. k \in 0 .. m - 1 /\ Right(k)
    BY <1>2, <2>1, <2>2
  <2>4. /\ Table(p) /\ p.count = k /\ p.cell_capacity = size
        /\ Alike(o, p, k) /\ rehashed[k + 1] = Append(p, o.items[k].name, o.items[k].value)
    BY <1>6, <2>3
  <2>5. o.items[k].name \in Keys /\ o.items[k].value \in Values
    BY <1>2, <2>3
  <2>6. p.count < p.cell_capacity
    BY <1>2, <1>3, <2>2, <2>4
  <2> HIDE DEF p
  <2>7. \A i \in 0 .. p.count - 1 : p.items[i].name # o.items[k].name
    <3>1. \A i \in 0 .. k - 1 : i \in 0 .. m - 1 /\ i # k
      BY <1>2, <2>3
    <3>2. \A i \in 0 .. m - 1 : o.items[i].name = o.items[k].name => i = k
      BY <1>2, <2>3 DEF Intact, Named
    <3>3. QED
      BY <2>4, <3>1, <3>2 DEF Alike
  <2> DEFINE r == Append(p, o.items[k].name, o.items[k].value)
  <2>8. /\ Table(r) /\ r.cell_capacity = p.cell_capacity /\ r.count = p.count + 1
        /\ \A i \in 0 .. p.count - 1 : r.items[i] = p.items[i]
        /\ r.items[p.count].name = o.items[k].name /\ r.items[p.count].value = o.items[k].value
    BY <2>4, <2>5, <2>6, <2>7, FreeCell, Appended
  <2> HIDE DEF r
  <2>9. Alike(o, r, k + 1)
    BY <2>1, <2>4, <2>8 DEF Alike
  <2>10. rehashed[k + 1] = r
    BY <2>4 DEF r
  <2>11. QED
    BY <2>4, <2>8, <2>9, <2>10
<1>9. T = Nat
  <2> HIDE DEF T
  <2>1. T \in SUBSET Nat
    BY DEF T
  <2>2. QED
    BY <1>7, <1>8, <2>1, SetInduction
<1>10. Right(m)
  BY <1>2, <1>9
<1>11. Roomy(rehashed[m])
  BY <1>2, <1>3, <1>10 DEF Roomy, item_capacity
<1>12. QED
  BY <1>1, <1>2, <1>3, <1>10, <1>11 DEF item_capacity

-----------------------------------------------------------------------------
\* Removing from a table

\* The parts of a table after a change of one item and one cell.
LEMMA ChangedItem ==
  ASSUME NEW o, o = [cell_capacity |-> o.cell_capacity, cells |-> o.cells,
                     items |-> o.items, count |-> o.count],
         NEW i, NEW item, NEW x, NEW m
  PROVE  [o EXCEPT !.items[i] = item, !.cells[x] = m]
             = [cell_capacity |-> o.cell_capacity, cells |-> [o.cells EXCEPT ![x] = m],
                items |-> [o.items EXCEPT ![i] = item], count |-> o.count]
<1> DEFINE p == [o EXCEPT !.items[i] = item]
<1>1. p = [cell_capacity |-> o.cell_capacity, cells |-> o.cells,
           items |-> [o.items EXCEPT ![i] = item], count |-> o.count]
  OBVIOUS
<1> HIDE DEF p
<1>2. [p EXCEPT !.cells[x] = m]
         = [cell_capacity |-> o.cell_capacity, cells |-> [o.cells EXCEPT ![x] = m],
            items |-> [o.items EXCEPT ![i] = item], count |-> o.count]
  BY <1>1
<1>3. QED
  BY <1>2 DEF p

\* The last item has taken the place of the removed one, whose cell is the gap.
LEMMA HoleFilled ==
  ASSUME NEW o, Table(o), NEW cell \in 0 .. o.cell_capacity - 1,
         NEW ix \in 0 .. o.count - 1, o.cells[cell] = ix
  PROVE  LET r == FillHole(o, ix)
         IN  /\ Shape(r) /\ Intact(r, o.count - 1, cell)
             /\ r.cell_capacity = o.cell_capacity /\ r.count = o.count
             /\ \A c \in 0 .. o.cell_capacity - 1 :
                   o.cells[c] = OBJECT_INVALID_IX => r.cells[c] = OBJECT_INVALID_IX
             /\ \A i \in 0 .. o.count - 2 :
                   r.items[i] = IF i = ix THEN o.items[o.count - 1] ELSE o.items[i]
<1> DEFINE n == o.cell_capacity
           m == o.count - 1
           last == o.items[m]
           x == last.cell_ix
           r == FillHole(o, ix)
<1>1. /\ Shape(o) /\ Intact(o, o.count, OBJECT_INVALID_IX)
      /\ n \in Nat /\ o.count \in Nat /\ m \in Nat /\ o.count = m + 1 /\ ix \in 0 .. m
      /\ o.count - 2 = m - 1
  BY DEF Table, Shape
<1>2. last \in Items /\ x \in 0 .. n - 1 /\ o.cells[x] = m
  BY <1>1 DEF Shape, Intact, Placed
<1>3. \A i \in 0 .. m : o.items[i] \in Items /\ o.items[i].cell_ix \in 0 .. n - 1
        /\ o.cells[o.items[i].cell_ix] = i
  BY <1>1 DEF Shape, Intact, Placed
<1>4. /\ r.cell_capacity = n /\ r.count = o.count
      /\ r = [cell_capacity |-> r.cell_capacity, cells |-> r.cells,
              items |-> r.items, count |-> r.count]
      /\ r.cells \in [0 .. n - 1 -> {OBJECT_INVALID_IX} \cup 0 .. m]
      /\ r.items \in [0 .. m -> Items]
      /\ \A i \in 0 .. m : r.items[i] = IF i = ix THEN last ELSE o.items[i]
      /\ \A c \in 0 .. n - 1 : r.cells[c] = IF c = x /\ ix < m THEN ix ELSE o.cells[c]
  <2>1. /\ o = [cell_capacity |-> o.cell_capacity, cells |-> o.cells,
                items |-> o.items, count |-> o.count]
        /\ o.cells \in [0 .. n - 1 -> {OBJECT_INVALID_IX} \cup 0 .. m]
        /\ o.items \in [0 .. m -> Items]
    BY <1>1 DEF Shape
  <2>2. CASE ix < m
    <3>1. r = [o EXCEPT !.items[ix] = last, !.cells[x] = ix]
      BY <2>2 DEF FillHole
    <3> HIDE DEF r, x, last
    <3>2. r = [cell_capacity |-> o.cell_capacity, cells |-> [o.cells EXCEPT ![x] = ix],
               items |-> [o.items EXCEPT ![ix] = last], count |-> o.count]
      BY <2>1, <3>1, ChangedItem
    <3>3. /\ r.cells = [o.cells EXCEPT ![x] = ix] /\ r.items = [o.items EXCEPT ![ix] = last]
          /\ r.cell_capacity = n /\ r.count = o.count
      BY <3>2
    <3>4. r = [cell_capacity |-> r.cell_capacity, cells |-> r.cells,
               items |-> r.items, count |-> r.count]
      BY <3>2, <3>3
    <3>5. QED
      BY <1>1, <1>2, <2>1, <2>2, <3>3, <3>4
  <2>3. CASE ~(ix < m)
    <3>1. r = o /\ ix = m
      BY <1>1, <2>3 DEF FillHole
    <3> HIDE DEF r
    <3>2. QED
      BY <1>1, <2>1, <2>3, <3>1
  <2>4. QED
    BY <2>2, <2>3
<1> HIDE DEF r
<1>5. Shape(r)
  <2>1. r.count - 1 = m
    BY <1>1, <1>4
  <2>2. QED
    BY <1>1, <1>4, <2>1 DEF Shape
<1> DEFINE From(i) == IF i = ix THEN m ELSE i
<1>5a. /\ \A i \in 0 .. m - 1 : From(i) \in 0 .. m /\ r.items[i] = o.items[From(i)]
      /\ \A i, j \in 0 .. m - 1 : From(i) = From(j) => i = j
  BY <1>1, <1>4
<1> HIDE DEF x, last, From
<1>6. Named(r, m)
  <2>1. /\ \A i \in 0 .. m : o.items[i].hash = hash_string[o.items[i].name]
        /\ \A i, j \in 0 .. m : o.items[i].name = o.items[j].name => i = j
    BY <1>1 DEF Intact, Named
  <2>2. QED
    BY <1>5a, <2>1 DEF Named
<1>7. ix < m => x # cell
  BY <1>1, <1>2
<1>8. \A i \in 0 .. m - 1 : r.items[i].cell_ix = IF i = ix THEN x ELSE o.items[i].cell_ix
  BY <1>1, <1>4 DEF x, last
<1>9. Placed(r, m, cell)
  <2>1. SUFFICES ASSUME NEW i \in 0 .. m - 1
                 PROVE  /\ r.items[i].cell_ix \in 0 .. n - 1 /\ r.items[i].cell_ix # cell
                        /\ r.cells[r.items[i].cell_ix] = i
    BY <1>4 DEF Placed
  <2>2. CASE i = ix
    BY <1>1, <1>2, <1>4, <1>7, <1>8, <2>1, <2>2
  <2>3. CASE i # ix
    <3>1. i \in 0 .. m /\ i # m /\ r.items[i].cell_ix = o.items[i].cell_ix
      BY <1>1, <1>8, <2>1, <2>3
    <3>2. /\ o.items[i].cell_ix \in 0 .. n - 1 /\ o.cells[o.items[i].cell_ix] = i
          /\ o.items[i].cell_ix # cell /\ o.items[i].cell_ix # x
      BY <1>2, <1>3, <2>3, <3>1
    <3>3. QED
      BY <1>4, <3>1, <3>2
  <2>4. QED
    BY <2>2, <2>3
<1>10. Backed(r, m, cell)
  <2>1. \A c \in 0 .. n - 1 : o.cells[c] = OBJECT_INVALID_IX
           \/ (o.cells[c] \in 0 .. m /\ o.items[o.cells[c]].cell_ix = c)
    BY <1>1 DEF Intact, Backed, OBJECT_INVALID_IX
  <2>2. SUFFICES ASSUME NEW c \in 0 .. n - 1, c # cell, r.cells[c] # OBJECT_INVALID_IX
                 PROVE  r.cells[c] \in 0 .. m - 1 /\ r.items[r.cells[c]].cell_ix = c
    BY <1>4 DEF Backed
  <2>3. CASE c = x /\ ix < m
    BY <1>1, <1>4, <1>8, <2>3
  <2>4. CASE ~(c = x /\ ix < m)
    <3>1. r.cells[c] = o.cells[c] /\ o.cells[c] \in 0 .. m /\ o.items[o.cells[c]].cell_ix = c
      BY <1>4, <2>1, <2>2, <2>4
    <3>2. o.cells[c] # ix
      BY <1>3, <2>1, <2>2, <3>1, <1>1
    <3>3. o.cells[c] # m
      BY <1>1, <2>4, <3>1, <3>2 DEF x, last
    <3>4. QED
      BY <1>1, <1>8, <3>1, <3>2, <3>3
  <2>5. QED
    BY <2>3, <2>4
<1>11. \A c \in 0 .. n - 1 : o.cells[c] = OBJECT_INVALID_IX <=> r.cells[c] = OBJECT_INVALID_IX
  <2>1. ix # OBJECT_INVALID_IX /\ o.cells[x] # OBJECT_INVALID_IX
    BY <1>1, <1>2 DEF OBJECT_INVALID_IX
  <2>2. QED
    BY <1>4, <2>1
<1>12. Uncut(r, m, cell)
  <2>1. \A i \in 0 .. m, c \in 0 .. n - 1 :
           Passes(Home(o, i), c, o.items[i].cell_ix) => o.cells[c] # OBJECT_INVALID_IX
    BY <1>1 DEF Intact, Uncut, OBJECT_INVALID_IX
  <2>2. ASSUME NEW i \in 0 .. m - 1, NEW c \in 0 .. n - 1,
               Passes(Home(r, i), c, r.items[i].cell_ix)
        PROVE  r.cells[c] # OBJECT_INVALID_IX
    <3>1. PICK j \in 0 .. m : r.items[i] = o.items[j]
      BY <1>5a
    <3>2. Home(r, i) = Home(o, j)
      BY <1>4, <3>1 DEF Home, Slot
    <3>3. QED
      BY <1>11, <2>1, <2>2, <3>1, <3>2
  <2>3. QED
    BY <1>4, <2>2 DEF Uncut
<1>13. Intact(r, m, cell)
  BY <1>6, <1>9, <1>10, <1>12 DEF Intact
<1>14. QED
  BY <1>1, <1>4, <1>5, <1>11, <1>13 DEF r, last

\* An entry whose probe passes the gap has moved into it: its own cell is the
\* gap now, and no other probe is cut.
LEMMA EntryMoved ==
  ASSUME NEW o, Shape(o), NEW m \in 0 .. o.count,
         NEW gap \in 0 .. o.cell_capacity - 1, Intact(o, m, gap),
         NEW j \in 0 .. o.cell_capacity - 1, j # gap,
         o.cells[j] # OBJECT_INVALID_IX, Passes(Home(o, o.cells[j]), gap, j)
  PROVE  LET r == MoveBack(o, o.cells[j], gap)
         IN  /\ Shape(r) /\ Intact(r, m, j)
             /\ r.cell_capacity = o.cell_capacity /\ r.count = o.count /\ Alike(o, r, m)
             /\ \A c \in 0 .. o.cell_capacity - 1 :
                   r.cells[c] = IF c = gap THEN o.cells[j] ELSE o.cells[c]
<1> DEFINE n == o.cell_capacity
           u == o.cells[j]
           item == [o.items[u] EXCEPT !.cell_ix = gap]
           r == MoveBack(o, u, gap)
<1>1. /\ n \in Nat /\ o.count \in Nat /\ m \in Nat /\ m <= o.count
      /\ o = [cell_capacity |-> o.cell_capacity, cells |-> o.cells,
              items |-> o.items, count |-> o.count]
      /\ o.items \in [0 .. o.count - 1 -> Items]
      /\ o.cells \in [0 .. n - 1 -> {OBJECT_INVALID_IX} \cup 0 .. o.count - 1]
  BY DEF Shape
<1>2. u \in 0 .. m - 1 /\ o.items[u].cell_ix = j
  BY DEF Intact, Backed
<1>3. \A i \in 0 .. m - 1 : i \in 0 .. o.count - 1 /\ o.items[i] \in Items
  BY <1>1
<1>4. /\ item \in Items /\ item.cell_ix = gap /\ item.name = o.items[u].name
      /\ item.value = o.items[u].value /\ item.hash = o.items[u].hash
  <2>1. \A t \in Items : LET s == [t EXCEPT !.cell_ix = gap]
                         IN  /\ s \in Items /\ s.cell_ix = gap /\ s.name = t.name
                             /\ s.value = t.value /\ s.hash = t.hash
    <3>1. TAKE t \in Items
    <3>2. /\ t = [name |-> t.name, value |-> t.value, cell_ix |-> t.cell_ix, hash |-> t.hash]
          /\ t.name \in Keys /\ t.value \in Values /\ t.hash \in Nat
      BY DEF Items
    <3>3. [t EXCEPT !.cell_ix = gap]
              = [name |-> t.name, value |-> t.value, cell_ix |-> gap, hash |-> t.hash]
      BY <3>2
    <3>4. gap \in Nat
      BY <1>1
    <3>5. QED
      BY <3>2, <3>3, <3>4 DEF Items
  <2>2. o.items[u] \in Items
    BY <1>2, <1>3
  <2> HIDE DEF u
  <2>3. QED
    BY <2>1, <2>2
<1>5. /\ r.cell_capacity = n /\ r.count = o.count
      /\ r = [cell_capacity |-> r.cell_capacity, cells |-> r.cells,
              items |-> r.items, count |-> r.count]
      /\ r.cells = [o.cells EXCEPT ![gap] = u]
      /\ r.items = [o.items EXCEPT ![u] = item]
  <2>1. r = [o EXCEPT !.items[u] = item, !.cells[gap] = u]
    BY <1>1 DEF MoveBack
  <2> HIDE DEF r, item, u
  <2>2. r = [cell_capacity |-> o.cell_capacity, cells |-> [o.cells EXCEPT ![gap] = u],
             items |-> [o.items EXCEPT ![u] = item], count |-> o.count]
    BY <1>1, <2>1, ChangedItem
  <2>3. QED
    BY <2>2
<1> HIDE DEF r, item, u
<1>6. /\ \A i \in 0 .. o.count - 1 : r.items[i] = IF i = u THEN item ELSE o.items[i]
      /\ \A c \in 0 .. n - 1 : r.cells[c] = IF c = gap THEN u ELSE o.cells[c]
      /\ u # OBJECT_INVALID_IX
  BY <1>1, <1>2, <1>5 DEF OBJECT_INVALID_IX
<1>7. \A i \in 0 .. m - 1 :
         /\ r.items[i].name = o.items[i].name /\ r.items[i].value = o.items[i].value
         /\ r.items[i].hash = o.items[i].hash
         /\ r.items[i].cell_ix = IF i = u THEN gap ELSE o.items[i].cell_ix
  BY <1>3, <1>4, <1>6
<1>8. Shape(r)
  <2>1. r.items \in [0 .. o.count - 1 -> Items]
    BY <1>1, <1>3, <1>4, <1>5
  <2>2. r.cells \in [0 .. n - 1 -> {OBJECT_INVALID_IX} \cup 0 .. o.count - 1]
    BY <1>1, <1>2, <1>3, <1>5
  <2>3. QED
    BY <1>1, <1>5, <2>1, <2>2 DEF Shape
<1>9. Named(r, m)
  BY <1>7 DEF Intact, Named
<1>10. Placed(r, m, j)
  <2>1. SUFFICES ASSUME NEW i \in 0 .. m - 1
                 PROVE  /\ r.items[i].cell_ix \in 0 .. n - 1 /\ r.items[i].cell_ix # j
                        /\ r.cells[r.items[i].cell_ix] = i
    BY <1>5 DEF Placed
  <2>2. CASE i = u
    BY <1>6, <1>7, <2>2
  <2>3. CASE i # u
    <3>1. /\ o.items[i].cell_ix \in 0 .. n - 1 /\ o.items[i].cell_ix # gap
          /\ o.cells[o.items[i].cell_ix] = i
      BY <2>1 DEF Intact, Placed
    <3>2. o.items[i].cell_ix # j
      BY <2>3, <3>1 DEF u
    <3>3. QED
      BY <1>6, <1>7, <2>3, <3>1, <3>2
  <2>4. QED
    BY <2>2, <2>3
<1>11. Backed(r, m, j)
  <2>1. SUFFICES ASSUME NEW c \in 0 .. n - 1, c # j, r.cells[c] # OBJECT_INVALID_IX
                 PROVE  r.cells[c] \in 0 .. m - 1 /\ r.items[r.cells[c]].cell_ix = c
    BY <1>5 DEF Backed
  <2>2. CASE c = gap
    BY <1>2, <1>6, <1>7, <2>2
  <2>3. CASE c # gap
    <3>1. r.cells[c] = o.cells[c] /\ o.cells[c] \in 0 .. m - 1 /\ o.items[o.cells[c]].cell_ix = c
      BY <1>6, <2>1, <2>3 DEF Intact, Backed
    <3>2. o.cells[c] # u
      BY <1>2, <2>1, <3>1
    <3>3. QED
      BY <1>7, <3>1, <3>2
  <2>4. QED
    BY <2>2, <2>3
<1>12. \A i \in 0 .. m - 1 : Home(r, i) = Home(o, i)
  BY <1>5, <1>7 DEF Home, Slot
<1>13. \A i \in 0 .. m - 1 : Home(o, i) \in 0 .. n - 1
  BY Numbers
<1>14. Uncut(r, m, j)
  <2>1. SUFFICES ASSUME NEW i \in 0 .. m - 1, NEW c \in 0 .. n - 1,
                        Passes(Home(o, i), c, r.items[i].cell_ix), c # j
                 PROVE  r.cells[c] # OBJECT_INVALID_IX
    BY <1>5, <1>12 DEF Uncut
  <2>2. CASE c = gap
    BY <1>6, <2>2
  <2>3. CASE c # gap /\ i # u
    <3>1. o.cells[c] # OBJECT_INVALID_IX
      BY <1>7, <2>1, <2>3 DEF Intact, Uncut
    <3>2. QED
      BY <1>6, <2>3, <3>1
  <2>4. CASE c # gap /\ i = u
    <3>1. Passes(Home(o, u), c, gap) /\ Passes(Home(o, u), gap, j)
      BY <1>7, <2>1, <2>4 DEF u
    <3>2. Passes(Home(o, u), c, j)
      BY <1>1, <1>2, <1>13, <3>1 DEF Passes
    <3>3. o.cells[c] # OBJECT_INVALID_IX
      BY <1>2, <2>4, <3>2 DEF Intact, Uncut
    <3>4. QED
      BY <1>6, <2>4, <3>3
  <2>5. QED
    BY <2>2, <2>3, <2>4
<1>15. Intact(r, m, j) /\ Alike(o, r, m)
  BY <1>7, <1>9, <1>10, <1>11, <1>14 DEF Intact, Alike
<1>16. QED
  BY <1>5, <1>6, <1>8, <1>15 DEF r, u

\* A gap that no probe passes can be freed.
LEMMA GapFreed ==
  ASSUME NEW o, Shape(o), NEW m \in 0 .. o.count,
         NEW gap \in 0 .. o.cell_capacity - 1, Intact(o, m, gap),
         \A i \in 0 .. m - 1 : ~Passes(Home(o, i), gap, o.items[i].cell_ix)
  PROVE  LET r == [o EXCEPT !.cells[gap] = OBJECT_INVALID_IX]
         IN  /\ Shape(r) /\ Intact(r, m, OBJECT_INVALID_IX)
             /\ r.cell_capacity = o.cell_capacity /\ r.count = o.count /\ r.items = o.items
<1> DEFINE n == o.cell_capacity
           r == [o EXCEPT !.cells[gap] = OBJECT_INVALID_IX]
<1>1. /\ n \in Nat /\ o.count \in Nat /\ m \in Nat
      /\ o = [cell_capacity |-> o.cell_capacity, cells |-> o.cells,
              items |-> o.items, count |-> o.count]
      /\ o.cells \in [0 .. n - 1 -> {OBJECT_INVALID_IX} \cup 0 .. o.count - 1]
  BY DEF Shape
<1>2. r = [cell_capacity |-> o.cell_capacity,
           cells |-> [o.cells EXCEPT ![gap] = OBJECT_INVALID_IX],
           items |-> o.items, count |-> o.count]
  BY <1>1
<1> HIDE DEF r
<1>3. /\ r.cell_capacity = n /\ r.count = o.count /\ r.items = o.items
      /\ r = [cell_capacity |-> r.cell_capacity, cells |-> r.cells,
              items |-> r.items, count |-> r.count]
      /\ r.cells = [o.cells EXCEPT ![gap] = OBJECT_INVALID_IX]
  BY <1>2
<1>4. \A c \in 0 .. n - 1 : r.cells[c] = IF c = gap THEN OBJECT_INVALID_IX ELSE o.cells[c]
  BY <1>1, <1>3
<1>5. Shape(r)
  <2>1. r.cells \in [0 .. n - 1 -> {OBJECT_INVALID_IX} \cup 0 .. o.count - 1]
    BY <1>1, <1>3
  <2>2. QED
    BY <1>3, <2>1 DEF Shape
<1>6. Named(r, m)
  BY <1>3 DEF Intact, Named
<1>7. Placed(r, m, OBJECT_INVALID_IX)
  BY <1>1, <1>3, <1>4 DEF Intact, Placed, OBJECT_INVALID_IX
<1>8. Backed(r, m, OBJECT_INVALID_IX)
  BY <1>3, <1>4 DEF Intact, Backed
<1>9. \A i \in 0 .. m - 1 : Home(r, i) = Home(o, i)
  BY <1>3 DEF Home, Slot
<1>10. Uncut(r, m, OBJECT_INVALID_IX)
  BY <1>3, <1>4, <1>9 DEF Intact, Uncut
<1>11. QED
  BY <1>3, <1>5, <1>6, <1>7, <1>8, <1>10 DEF r, Intact

\* The test of the code: is the gap on the probe that ends at cell j?
LEMMA MayMovePasses ==
  ASSUME NEW n \in Nat, NEW k \in 0 .. n - 1, NEW i \in 0 .. n - 1, NEW j \in 0 .. n - 1, i # j
  PROVE  MayMove(k, i, j) <=> Passes(k, i, j)
  BY DEF MayMove, Passes

\* A turn of the walk in ShiftBack.
Turn(o, cell, w, x) ==
    LET j == Slot(o, cell + x)
        used == w.object.cells[j]
    IN  IF w.ended \/ used = OBJECT_INVALID_IX
          THEN [w EXCEPT !.ended = TRUE]
        ELSE IF MayMove(Slot(o, w.object.items[used].hash), w.gap, j)
          THEN [w EXCEPT !.gap = j, !.object = MoveBack(w.object, used, w.gap)]
          ELSE w

\* Where the walk stands after x turns: the cells between the gap and here
\* are used and no probe that ends in them passes the gap; at the end, no
\* probe at all does.  The free cell y will end it.
Scan(o, cell, y, m, w, x) ==
    /\ w = [gap |-> w.gap, object |-> w.object, ended |-> w.ended] /\ w.ended \in BOOLEAN
    /\ Shape(w.object) /\ Alike(o, w.object, m)
    /\ w.object.cell_capacity = o.cell_capacity /\ w.object.count = o.count
    /\ w.gap \in 0 .. o.cell_capacity - 1 /\ Intact(w.object, m, w.gap)
    /\ w.gap # y /\ w.object.cells[y] = OBJECT_INVALID_IX
    /\ w.ended => \A i \in 0 .. m - 1 :
                     ~Passes(Home(w.object, i), w.gap, w.object.items[i].cell_ix)
    /\ ~w.ended =>
          /\ \A d \in 0 .. x : Ahead(o.cell_capacity, cell, d) # y
          /\ \E g \in 0 .. x :
                /\ w.gap = Ahead(o.cell_capacity, cell, g)
                /\ \A d \in g + 1 .. x, i \in 0 .. m - 1 :
                      w.object.items[i].cell_ix = Ahead(o.cell_capacity, cell, d)
                         => ~Passes(Home(w.object, i), w.gap, w.object.items[i].cell_ix)

\* A probe that passes the gap but not a cell j further on ends between them.
LEMMA Between ==
  ASSUME NEW n \in Nat \ {0}, NEW cell \in 0 .. n - 1, NEW x \in 0 .. n - 1, NEW g \in 0 .. x - 1,
         NEW h \in 0 .. n - 1, NEW e \in 0 .. n - 1,
         Passes(h, Ahead(n, cell, g), e), ~Passes(h, Ahead(n, cell, x), e),
         e # Ahead(n, cell, x)
  PROVE  \E d \in g + 1 .. x - 1 : e = Ahead(n, cell, d)
<1>1. PICK d \in 0 .. n - 1 : e = Ahead(n, cell, d)
  BY Around
<1>2. d > g /\ d < x
  BY <1>1 DEF Passes, Ahead
<1>3. QED
  BY <1>1, <1>2

\* Every turn of the walk leaves it so.
LEMMA TurnKeeps ==
  ASSUME NEW o, o.cell_capacity \in Nat, o.count \in Nat,
         NEW cell \in 0 .. o.cell_capacity - 1,
         NEW y \in 0 .. o.cell_capacity - 1, NEW m \in 0 .. o.count,
         NEW x \in 1 .. o.cell_capacity - 1, NEW w, Scan(o, cell, y, m, w, x - 1)
  PROVE  Scan(o, cell, y, m, Turn(o, cell, w, x), x)
<1> DEFINE n == o.cell_capacity
           j == Ahead(n, cell, x)
           p == w.object
           gap == w.gap
           used == p.cells[j]
           v == Turn(o, cell, w, x)
<1>1. n \in Nat \ {0} /\ x \in 0 .. n - 1 /\ x - 1 \in 0 .. n - 1
  OBVIOUS
<1>2. Slot(o, cell + x) = j /\ j \in 0 .. n - 1
  <2>1. cell % n = cell /\ cell \in Nat
    BY <1>1, OwnSlot
  <2>2. (cell + x) % n = Ahead(n, cell % n, x)
    BY <1>1, <2>1, Ring
  <2>3. QED
    BY <1>1, <2>1, <2>2, Around DEF Slot
<1>3. /\ w = [gap |-> gap, object |-> p, ended |-> w.ended] /\ w.ended \in BOOLEAN
      /\ Shape(p) /\ Alike(o, p, m) /\ p.cell_capacity = n /\ p.count = o.count
      /\ gap \in 0 .. n - 1 /\ Intact(p, m, gap)
      /\ gap # y /\ p.cells[y] = OBJECT_INVALID_IX
  BY DEF Scan
<1>4. \A i \in 0 .. m - 1 : /\ Home(p, i) \in 0 .. n - 1 /\ p.items[i].cell_ix \in 0 .. n - 1
                            /\ p.items[i].cell_ix # gap /\ p.cells[p.items[i].cell_ix] = i
  BY <1>3, Numbers DEF Intact, Placed
<1>5. CASE w.ended
  <2>1. v = [w EXCEPT !.ended = TRUE]
    BY <1>5 DEF Turn
  <2>2. v = w
    BY <1>3, <1>5, <2>1
  <2>3. QED
    BY <1>5, <2>2 DEF Scan
<1>6. CASE ~w.ended
  <2>1. \A d \in 0 .. x - 1 : Ahead(n, cell, d) # y
    BY <1>6 DEF Scan
  <2>2. PICK g \in 0 .. x - 1 :
           /\ gap = Ahead(n, cell, g)
           /\ \A d \in g + 1 .. x - 1, i \in 0 .. m - 1 :
                 p.items[i].cell_ix = Ahead(n, cell, d)
                    => ~Passes(Home(p, i), gap, p.items[i].cell_ix)
    BY <1>6 DEF Scan
  <2>3. j # gap
    BY <1>1, <2>2 DEF Ahead
  <2>4. v = IF used = OBJECT_INVALID_IX THEN [w EXCEPT !.ended = TRUE]
            ELSE IF MayMove(Slot(o, p.items[used].hash), gap, j)
              THEN [w EXCEPT !.gap = j, !.object = MoveBack(p, used, gap)]
              ELSE w
    BY <1>2, <1>6 DEF Turn
  <2>5. CASE used = OBJECT_INVALID_IX
    <3>1. v = [gap |-> gap, object |-> p, ended |-> TRUE]
      BY <1>3, <2>4, <2>5
    <3>2. v.gap = gap /\ v.object = p /\ v.ended = TRUE
      BY <3>1
    <3>3. ASSUME NEW i \in 0 .. m - 1
          PROVE  ~Passes(Home(p, i), gap, p.items[i].cell_ix)
      <4>1. SUFFICES ASSUME Passes(Home(p, i), gap, p.items[i].cell_ix) PROVE FALSE
        OBVIOUS
      <4>2. ~Passes(Home(p, i), j, p.items[i].cell_ix)
        BY <1>2, <1>3, <2>3, <2>5 DEF Intact, Uncut
      <4>3. p.items[i].cell_ix # j
        BY <1>4, <2>5 DEF OBJECT_INVALID_IX
      <4>4. \E d \in g + 1 .. x - 1 : p.items[i].cell_ix = Ahead(n, cell, d)
        <5> DEFINE h == Home(p, i)
                   e == p.items[i].cell_ix
        <5>1. h \in 0 .. n - 1 /\ e \in 0 .. n - 1
          BY <1>4
        <5>2. Passes(h, Ahead(n, cell, g), e) /\ ~Passes(h, Ahead(n, cell, x), e)
              /\ e # Ahead(n, cell, x)
          BY <2>2, <4>1, <4>2, <4>3
        <5> HIDE DEF h, e, n
        <5>3. \E d \in g + 1 .. x - 1 : e = Ahead(n, cell, d)
          BY <1>1, <5>1, <5>2, Between DEF n
        <5>4. QED
          BY <5>3 DEF e, n
      <4>5. QED
        BY <2>2, <4>1, <4>4
    <3> HIDE DEF v
    <3>4. Scan(o, cell, y, m, v, x)
      BY <1>3, <3>1, <3>2, <3>3 DEF Scan
    <3>5. QED
      BY <3>4 DEF v
  <2>6. CASE used # OBJECT_INVALID_IX
    <3>1. used \in 0 .. m - 1 /\ p.items[used].cell_ix = j
      BY <1>2, <1>3, <2>3, <2>6 DEF Intact, Backed
    <3>2. j # y /\ \A d \in 0 .. x : Ahead(n, cell, d) # y
      <4>1. j # y
        BY <1>3, <2>6
      <4>2. QED
        BY <2>1, <4>1
    <3>3. Slot(o, p.items[used].hash) = Home(p, used) /\ Home(p, used) \in 0 .. n - 1
      BY <1>3, <1>4, <3>1 DEF Home, Slot
    <3>4. MayMove(Slot(o, p.items[used].hash), gap, j) <=> Passes(Home(p, used), gap, j)
      BY <1>1, <1>2, <1>3, <2>3, <3>3, MayMovePasses
    <3>5. CASE Passes(Home(p, used), gap, j)
      <4> DEFINE r == MoveBack(p, used, gap)
      <4>1. v = [w EXCEPT !.gap = j, !.object = r]
        BY <2>4, <2>6, <3>4, <3>5
      <4>2. /\ Shape(r) /\ Intact(r, m, j)
            /\ r.cell_capacity = n /\ r.count = o.count /\ Alike(p, r, m)
            /\ \A c \in 0 .. n - 1 : r.cells[c] = IF c = gap THEN used ELSE p.cells[c]
        BY <1>2, <1>3, <2>3, <2>6, <3>5, EntryMoved
      <4> HIDE DEF r
      <4>3. v = [gap |-> j, object |-> r, ended |-> FALSE]
        <5> HIDE DEF v, p, gap, j
        <5>1. w.ended = FALSE
          BY <1>3, <1>6
        <5>2. QED
          BY <1>3, <4>1, <5>1
      <4> HIDE DEF v
      <4>4. v.gap = j /\ v.object = r /\ v.ended = FALSE
        BY <4>3
      <4>5. Alike(o, r, m)
        BY <1>3, <4>2 DEF Alike
      <4>6. r.cells[y] = OBJECT_INVALID_IX
        BY <1>3, <4>2
      <4>7. x \in 0 .. x /\ x + 1 .. x = {}
        BY <1>1
      <4>8. \E b \in 0 .. x :
               /\ v.gap = Ahead(n, cell, b)
               /\ \A d \in b + 1 .. x, i \in 0 .. m - 1 :
                     v.object.items[i].cell_ix = Ahead(n, cell, d)
                        => ~Passes(Home(v.object, i), v.gap, v.object.items[i].cell_ix)
        BY <4>4, <4>7
      <4>9. Scan(o, cell, y, m, v, x)
        BY <1>2, <3>2, <4>2, <4>3, <4>4, <4>5, <4>6, <4>8 DEF Scan
      <4>10. QED
        BY <4>9 DEF v
    <3>6. CASE ~Passes(Home(p, used), gap, j)
      <4>1. v = w
        BY <2>4, <2>6, <3>4, <3>6
      <4>2. ASSUME NEW d \in g + 1 .. x, NEW i \in 0 .. m - 1,
                   p.items[i].cell_ix = Ahead(n, cell, d)
            PROVE  ~Passes(Home(p, i), gap, p.items[i].cell_ix)
        <5>1. CASE d = x
          <6>1. i = used
            BY <1>4, <4>2, <5>1
          <6>2. QED
            BY <3>1, <3>6, <6>1
        <5>2. CASE d # x
          <6>1. d \in g + 1 .. x - 1
            BY <1>1, <5>2
          <6>2. QED
            BY <2>2, <4>2, <6>1
        <5>3. QED
          BY <5>1, <5>2
      <4>3. g \in 0 .. x
        BY <1>1
      <4> HIDE DEF v
      <4>4. Scan(o, cell, y, m, w, x)
        BY <1>3, <1>6, <2>2, <3>2, <4>2, <4>3 DEF Scan
      <4>5. QED
        BY <4>1, <4>4 DEF v
    <3>7. QED
      BY <3>5, <3>6
  <2>7. QED
    BY <2>5, <2>6
<1>7. QED
  BY <1>5, <1>6

\* Closing the gap: every item stays where its probe finds it.
LEMMA Shifted ==
  ASSUME NEW o, Shape(o), NEW m \in 0 .. o.count,
         NEW cell \in 0 .. o.cell_capacity - 1, Intact(o, m, cell),
         NEW y \in 0 .. o.cell_capacity - 1, y # cell, o.cells[y] = OBJECT_INVALID_IX
  PROVE  LET r == ShiftBack(o, cell)
         IN  /\ Shape(r) /\ Intact(r, m, OBJECT_INVALID_IX)
             /\ r.cell_capacity = o.cell_capacity /\ r.count = o.count /\ Alike(o, r, m)
<1> DEFINE n == o.cell_capacity
           first == [gap |-> cell, object |-> o, ended |-> FALSE]
           walk[x \in 0 .. (o.cell_capacity - 1)] ==
               IF x = 0 THEN [gap |-> cell, object |-> o, ended |-> FALSE]
               ELSE LET w == walk[x - 1]
                        j == Slot(o, cell + x)
                        used == w.object.cells[j]
                    IN  IF w.ended \/ used = OBJECT_INVALID_IX
                          THEN [w EXCEPT !.ended = TRUE]
                        ELSE IF MayMove(Slot(o, w.object.items[used].hash), w.gap, j)
                          THEN [w EXCEPT !.gap = j, !.object = MoveBack(w.object, used, w.gap)]
                          ELSE w
           last == walk[n - 1]
<1>1. ShiftBack(o, cell) = [last.object EXCEPT !.cells[last.gap] = OBJECT_INVALID_IX]
  BY DEF ShiftBack
<1>2. n \in Nat \ {0} /\ o.count \in Nat
  BY DEF Shape
<1>3. \E f : f = [x \in 0 .. n - 1 |-> IF x = 0 THEN first ELSE Turn(o, cell, f[x - 1], x)]
  <2> HIDE DEF first, n
  <2> DEFINE Begun(f, e) ==
               f = [x \in 0 .. e |-> IF x = 0 THEN first ELSE Turn(o, cell, f[x - 1], x)]
             S == {e \in Nat : \E f : Begun(f, e)}
  <2>1. 0 \in S
    <3>1. Begun([x \in 0 .. 0 |-> first], 0)
      OBVIOUS
    <3>2. QED
      BY <3>1
  <2>2. ASSUME NEW e \in S PROVE e + 1 \in S
    <3>1. PICK f : Begun(f, e)
      OBVIOUS
    <3> DEFINE g == [x \in 0 .. e + 1 |->
                       IF x = e + 1 THEN Turn(o, cell, f[e], e + 1) ELSE f[x]]
    <3>2. e \in Nat
      OBVIOUS
    <3>3. \A x \in 0 .. e : g[x] = f[x]
      BY <3>2
    <3>4. \A x \in 0 .. e : f[x] = IF x = 0 THEN first ELSE Turn(o, cell, f[x - 1], x)
      BY <3>1
    <3>5. \A x \in 0 .. e + 1 : g[x] = IF x = 0 THEN first ELSE Turn(o, cell, g[x - 1], x)
      <4>1. TAKE x \in 0 .. e + 1
      <4>2. CASE x = 0
        BY <3>2, <3>3, <3>4, <4>2
      <4>3. CASE x # 0 /\ x # e + 1
        <5>1. x \in 0 .. e /\ x - 1 \in 0 .. e
          BY <3>2, <4>3
        <5>2. g[x] = f[x] /\ g[x - 1] = f[x - 1]
          BY <3>3, <5>1
        <5> HIDE DEF g
        <5>3. QED
          BY <3>4, <4>3, <5>1, <5>2
      <4>4. CASE x = e + 1
        <5>1. x # 0 /\ x - 1 = e /\ x - 1 \in 0 .. e
          BY <3>2, <4>4
        <5>2. g[x] = Turn(o, cell, f[e], e + 1)
          BY <4>4
        <5>3. g[x - 1] = f[e]
          BY <3>3, <5>1
        <5> HIDE DEF g
        <5>4. QED
          BY <4>4, <5>1, <5>2, <5>3
      <4>5. QED
        BY <4>2, <4>3, <4>4
    <3>6. g = [x \in 0 .. e + 1 |-> g[x]]
      OBVIOUS
    <3> HIDE DEF g
    <3>7. Begun(g, e + 1)
      BY <3>5, <3>6
    <3>8. QED
      BY <3>2, <3>7
  <2>3. S = Nat
    <3> HIDE DEF S
    <3>1. S \in SUBSET Nat
      BY DEF S
    <3>2. QED
      BY <2>1, <2>2, <3>1, SetInduction
  <2>4. n - 1 \in S
    <3>1. n - 1 \in Nat
      BY <1>2
    <3> HIDE DEF S
    <3>2. QED
      BY <2>3, <3>1
  <2>5. QED
    BY <2>4
<1>4. walk = [x \in 0 .. n - 1 |-> IF x = 0 THEN first ELSE Turn(o, cell, walk[x - 1], x)]
  BY <1>3, Zenon DEF walk, Turn
<1> HIDE DEF walk
<1> DEFINE T == {x \in Nat : x < n => Scan(o, cell, y, m, walk[x], x)}
<1>5. 0 \in T
  <2>1. walk[0] = first
    BY <1>2, <1>4
  <2>2. first = [gap |-> cell, object |-> o, ended |-> FALSE]
        /\ first.gap = cell /\ first.object = o /\ first.ended = FALSE
    OBVIOUS
  <2>3. Ahead(n, cell, 0) = cell
    BY <1>2 DEF Ahead
  <2>4. Alike(o, o, m)
    BY DEF Alike
  <2> HIDE DEF first
  <2>5. Scan(o, cell, y, m, first, 0)
    BY <1>2, <2>2, <2>3, <2>4 DEF Scan
  <2>6. QED
    BY <2>1, <2>5
<1>6. ASSUME NEW k \in T PROVE k + 1 \in T
  <2>1. k \in Nat
    OBVIOUS
  <2>2. SUFFICES ASSUME k + 1 < n PROVE Scan(o, cell, y, m, walk[k + 1], k + 1)
    BY <2>1
  <2>3. k + 1 \in 1 .. n - 1 /\ k + 1 # 0 /\ (k + 1) - 1 = k /\ k + 1 \in 0 .. n - 1
    BY <1>2, <2>1, <2>2
  <2>4. walk[k + 1] = Turn(o, cell, walk[(k + 1) - 1], k + 1)
    BY <1>4, <2>3
  <2>5. walk[k + 1] = Turn(o, cell, walk[k], k + 1)
    BY <2>3, <2>4
  <2>6. Scan(o, cell, y, m, walk[k], k)
    BY <1>2, <2>1, <2>2
  <2>7. Scan(o, cell, y, m, walk[k], (k + 1) - 1)
    BY <2>3, <2>6
  <2> DEFINE w == walk[k]
             x == k + 1
  <2>8. x \in 1 .. o.cell_capacity - 1 /\ Scan(o, cell, y, m, w, x - 1)
    BY <2>3, <2>7
  <2> HIDE DEF w, x
  <2>9. Scan(o, cell, y, m, Turn(o, cell, w, x), x)
    BY <1>2, <2>8, TurnKeeps
  <2>10. QED
    BY <2>5, <2>9 DEF w, x
<1>7. T = Nat
  <2> HIDE DEF T
  <2>1. T \in SUBSET Nat
    BY DEF T
  <2>2. QED
    BY <1>5, <1>6, <2>1, SetInduction
<1>8. Scan(o, cell, y, m, last, n - 1)
  BY <1>2, <1>7
<1> HIDE DEF last
<1>9. last.ended
  <2>1. PICK d \in 0 .. n - 1 : y = Ahead(n, cell, d)
    BY <1>2, Around
  <2>2. ~(\A e \in 0 .. n - 1 : Ahead(n, cell, e) # y)
    BY <2>1
  <2>3. QED
    BY <1>8, <2>2 DEF Scan
<1> DEFINE p == last.object
           r == [p EXCEPT !.cells[last.gap] = OBJECT_INVALID_IX]
<1>10. /\ Shape(p) /\ Alike(o, p, m) /\ p.cell_capacity = n /\ p.count = o.count
       /\ last.gap \in 0 .. p.cell_capacity - 1 /\ Intact(p, m, last.gap) /\ m \in 0 .. p.count
       /\ \A i \in 0 .. m - 1 : ~Passes(Home(p, i), last.gap, p.items[i].cell_ix)
  BY <1>8, <1>9 DEF Scan
<1> HIDE DEF p
<1>11. /\ Shape(r) /\ Intact(r, m, OBJECT_INVALID_IX)
       /\ r.cell_capacity = p.cell_capacity /\ r.count = p.count /\ r.items = p.items
  BY <1>10, GapFreed
<1> HIDE DEF r
<1>12. Alike(o, r, m)
  BY <1>10, <1>11 DEF Alike
<1>13. ShiftBack(o, cell) = r
  BY <1>1 DEF r, p
<1>14. QED
  BY <1>10, <1>11, <1>12, <1>13

\* Removing a name takes its item out, with the last item in its place.
LEMMA Removed ==
  ASSUME NEW o, Table(o), Roomy(o), NEW ix \in 0 .. o.count - 1
  PROVE  LET r == json_object_remove_internal(o, o.items[ix].name)
         IN  /\ Table(r) /\ r.cell_capacity = o.cell_capacity /\ r.count = o.count - 1
             /\ \A i \in 0 .. r.count - 1 :
                   LET j == IF i = ix THEN o.count - 1 ELSE i
                   IN  r.items[i].name = o.items[j].name /\ r.items[i].value = o.items[j].value
<1> DEFINE n == o.cell_capacity
           m == o.count - 1
           key == o.items[ix].name
           cell == json_object_get_cell_ix(o, key).ix
           p == FillHole(o, ix)
           q == ShiftBack(p, cell)
           r == json_object_remove_internal(o, key)
<1>1. /\ Shape(o) /\ Intact(o, o.count, OBJECT_INVALID_IX) /\ n \in Nat /\ o.count \in Nat
      /\ m \in Nat /\ o.count = m + 1 /\ o.count - 2 = m - 1 /\ m \in 0 .. o.count
  BY DEF Table, Shape
<1>2. cell = o.items[ix].cell_ix
  <2>1. json_object_get_cell_ix(o, key) = [ix |-> o.items[ix].cell_ix, found |-> TRUE]
    BY NameFound
  <2> HIDE DEF key
  <2>2. QED
    BY <2>1
<1>3. cell \in 0 .. n - 1 /\ o.cells[cell] = ix
  BY <1>1, <1>2 DEF Intact, Placed
<1>4. r = [q EXCEPT !.items = [i \in 0 .. m - 1 |-> q.items[i]], !.count = m]
  <2>1. r = [ShiftBack(FillHole(o, o.cells[cell]), cell) EXCEPT
               !.items = [i \in 0 .. o.count - 2 |->
                            ShiftBack(FillHole(o, o.cells[cell]), cell).items[i]],
               !.count = o.count - 1]
    BY DEF json_object_remove_internal
  <2> HIDE DEF cell
  <2>2. QED
    BY <1>1, <1>3, <2>1
<1> HIDE DEF cell, r
<1>5. /\ Shape(p) /\ Intact(p, m, cell) /\ p.cell_capacity = n /\ p.count = o.count
      /\ \A c \in 0 .. n - 1 : o.cells[c] = OBJECT_INVALID_IX => p.cells[c] = OBJECT_INVALID_IX
      /\ \A i \in 0 .. m - 1 : p.items[i] = IF i = ix THEN o.items[m] ELSE o.items[i]
  BY <1>1, <1>3, HoleFilled
<1> HIDE DEF p
<1>6. PICK y \in 0 .. n - 1 : o.cells[y] = OBJECT_INVALID_IX
  <2>1. o.count < n
    <3>1. n >= STARTING_CAPACITY /\ n # 0 /\ o.count <= (n * 7) \div 10
      BY <1>1, <1>3 DEF Roomy, item_capacity
    <3>2. QED
      BY <1>1, <3>1
  <2>2. QED
    BY <2>1, FreeCell
<1>7. y # cell /\ p.cells[y] = OBJECT_INVALID_IX /\ y \in 0 .. p.cell_capacity - 1
      /\ cell \in 0 .. p.cell_capacity - 1 /\ m \in 0 .. p.count
  BY <1>1, <1>3, <1>5, <1>6 DEF OBJECT_INVALID_IX
<1>8. /\ Shape(q) /\ Intact(q, m, OBJECT_INVALID_IX)
      /\ q.cell_capacity = n /\ q.count = o.count /\ Alike(p, q, m)
  BY <1>5, <1>7, Shifted
<1> HIDE DEF q
<1>9. /\ r.cell_capacity = n /\ r.count = m /\ r.cells = q.cells
      /\ r.items = [i \in 0 .. m - 1 |-> q.items[i]]
      /\ r = [cell_capacity |-> r.cell_capacity, cells |-> r.cells,
              items |-> r.items, count |-> r.count]
  <2>1. q = [cell_capacity |-> q.cell_capacity, cells |-> q.cells,
             items |-> q.items, count |-> q.count]
    BY <1>8 DEF Shape
  <2>2. r = [cell_capacity |-> q.cell_capacity, cells |-> q.cells,
             items |-> [i \in 0 .. m - 1 |-> q.items[i]], count |-> m]
    BY <1>4, <2>1
  <2>3. QED
    BY <1>8, <2>2
<1>10. \A i \in 0 .. m - 1 : r.items[i] = q.items[i]
  BY <1>9
<1>11. Intact(r, m, OBJECT_INVALID_IX)
  <2>1. Named(r, m)
    BY <1>8, <1>10 DEF Intact, Named
  <2>2. Placed(r, m, OBJECT_INVALID_IX)
    BY <1>8, <1>9, <1>10 DEF Intact, Placed
  <2>3. Backed(r, m, OBJECT_INVALID_IX)
    <3>1. SUFFICES ASSUME NEW c \in 0 .. n - 1, r.cells[c] # OBJECT_INVALID_IX
                   PROVE  r.cells[c] \in 0 .. m - 1 /\ r.items[r.cells[c]].cell_ix = c
      BY <1>9 DEF Backed
    <3>2. q.cells[c] \in 0 .. m - 1 /\ q.items[q.cells[c]].cell_ix = c
      <4>1. Backed(q, m, OBJECT_INVALID_IX)
        BY <1>8 DEF Intact
      <4>2. c \in 0 .. q.cell_capacity - 1 /\ c # OBJECT_INVALID_IX
            /\ q.cells[c] # OBJECT_INVALID_IX
        BY <1>1, <1>8, <1>9, <3>1 DEF OBJECT_INVALID_IX
      <4>3. QED
        BY <4>1, <4>2 DEF Backed
    <3>3. QED
      BY <1>9, <1>10, <3>2
  <2>4. Uncut(r, m, OBJECT_INVALID_IX)
    <3>1. \A i \in 0 .. m - 1 : Home(r, i) = Home(q, i)
      BY <1>8, <1>9, <1>10 DEF Home, Slot
    <3>2. QED
      BY <1>8, <1>9, <1>10, <3>1 DEF Intact, Uncut
  <2>5. QED
    BY <2>1, <2>2, <2>3, <2>4 DEF Intact
<1>12. Shape(r)
  <2>1. \A i \in 0 .. m - 1 : q.items[i] \in Items
    <3>1. \A i \in 0 .. m - 1 : i \in 0 .. q.count - 1
      BY <1>1, <1>8
    <3>2. QED
      BY <1>8, <3>1 DEF Shape
  <2>2. r.items \in [0 .. m - 1 -> Items]
    BY <1>9, <2>1
  <2>3. r.cells \in [0 .. n - 1 -> {OBJECT_INVALID_IX} \cup 0 .. m - 1]
    <3>1. \A c \in 0 .. n - 1 : q.cells[c] \in {OBJECT_INVALID_IX} \cup 0 .. m - 1
      BY <1>1, <1>8 DEF Intact, Backed, OBJECT_INVALID_IX
    <3>2. q.cells = [c \in 0 .. n - 1 |-> q.cells[c]]
      BY <1>8 DEF Shape
    <3>3. QED
      BY <1>9, <3>1, <3>2
  <2>4. QED
    BY <1>1, <1>9, <2>2, <2>3 DEF Shape
<1>13. Table(r)
  BY <1>9, <1>11, <1>12 DEF Table
<1>14. \A i \in 0 .. m - 1 :
          LET j == IF i = ix THEN m ELSE i
          IN  r.items[i].name = o.items[j].name /\ r.items[i].value = o.items[j].value
  BY <1>5, <1>8, <1>10 DEF Alike
<1>15. QED
  BY <1>1, <1>9, <1>13, <1>14 DEF r

-----------------------------------------------------------------------------
\* The operations of the object

\* The map that a table stands for.
MapOf(o) == [k \in Keys |-> json_object_getn_value(o, k)]

\* Each value is in one item, and w gives the object exactly those.
Owns(o, w) ==
    /\ \A i, j \in 0 .. o.count - 1 : o.items[i].value = o.items[j].value => i = j
    /\ \A v \in Values : w[v] = "object" <=> \E i \in 0 .. o.count - 1 : o.items[i].value = v

Owners == [Values -> {"none", "caller", "object"}]

\* A table and its owners, as the invariant has them.
Sound(o, w) == Table(o) /\ Roomy(o) /\ w \in Owners /\ Owns(o, w)

\* The items of a table have names and values.
LEMMA Contents ==
  ASSUME NEW o, Table(o)
  PROVE  /\ o.count \in Nat /\ o.cell_capacity \in Nat
         /\ DOMAIN o.items = 0 .. o.count - 1
         /\ \A i \in 0 .. o.count - 1 : /\ o.items[i] \in Items
                                        /\ o.items[i].name \in Keys /\ o.items[i].value \in Values
         /\ \A i, j \in 0 .. o.count - 1 : o.items[i].name = o.items[j].name => i = j
         /\ ValuesOf(o) = {o.items[i].value : i \in 0 .. o.count - 1}
<1>1. o.count \in Nat /\ o.cell_capacity \in Nat /\ o.items \in [0 .. o.count - 1 -> Items]
  BY DEF Table, Shape
<1>2. DOMAIN o.items = 0 .. o.count - 1
  BY <1>1
<1>3. \A i \in 0 .. o.count - 1 : /\ o.items[i] \in Items
                                  /\ o.items[i].name \in Keys /\ o.items[i].value \in Values
  BY <1>1 DEF Items
<1>4. \A i, j \in 0 .. o.count - 1 : o.items[i].name = o.items[j].name => i = j
  BY DEF Table, Intact, Named
<1>5. QED
  BY <1>1, <1>2, <1>3, <1>4 DEF ValuesOf

\* The invariant speaks of the table and the owners only.
LEMMA Soundness ==
  ASSUME NEW o, NEW w
  PROVE  Sound(o, w) <=>
           /\ Table(o) /\ Roomy(o)
           /\ w \in [Values -> {"none", "caller", "object"}]
           /\ \A i, j \in DOMAIN o.items : o.items[i].value = o.items[j].value => i = j
           /\ ValuesOf(o) = {v \in Values : w[v] = "object"}
<1>1. SUFFICES ASSUME Table(o)
               PROVE  Owns(o, w) <=>
                        /\ \A i, j \in DOMAIN o.items : o.items[i].value = o.items[j].value => i = j
                        /\ ValuesOf(o) = {v \in Values : w[v] = "object"}
  BY DEF Sound, Owners
<1>2. /\ DOMAIN o.items = 0 .. o.count - 1
      /\ \A i \in 0 .. o.count - 1 : o.items[i].value \in Values
      /\ ValuesOf(o) = {o.items[i].value : i \in 0 .. o.count - 1}
  BY <1>1, Contents
<1>3. ValuesOf(o) = {v \in Values : w[v] = "object"} <=>
        \A v \in Values : w[v] = "object" <=> \E i \in 0 .. o.count - 1 : o.items[i].value = v
  BY <1>2
<1>4. QED
  BY <1>2, <1>3 DEF Owns

\* What has the same items is the same map with the same values.
LEMMA AlikeMaps ==
  ASSUME NEW o, NEW r, Table(o), Table(r), r.count = o.count, Alike(o, r, o.count)
  PROVE  MapOf(r) = MapOf(o) /\ \A w : Owns(o, w) => Owns(r, w)
<1>1. ASSUME NEW k \in Keys
      PROVE  json_object_getn_value(r, k) = json_object_getn_value(o, k)
  <2>1. CASE \E i \in 0 .. o.count - 1 : o.items[i].name = k
    <3>1. PICK i \in 0 .. o.count - 1 : o.items[i].name = k
      BY <2>1
    <3>2. r.items[i].name = k /\ r.items[i].value = o.items[i].value /\ i \in 0 .. r.count - 1
      BY <3>1 DEF Alike
    <3>3. QED
      BY <3>1, <3>2, ValueFound
  <2>2. CASE \A i \in 0 .. o.count - 1 : o.items[i].name # k
    <3>1. \A i \in 0 .. r.count - 1 : r.items[i].name # k
      BY <2>2 DEF Alike
    <3>2. QED
      BY <2>2, <3>1, ValueFound
  <2>3. QED
    BY <2>1, <2>2
<1>2. ASSUME NEW w, Owns(o, w) PROVE Owns(r, w)
  BY <1>2 DEF Owns, Alike
<1>3. QED
  BY <1>1, <1>2 DEF MapOf

\* After MakeRoom there is room for one more item, and nothing else changes.
LEMMA RoomMade ==
  ASSUME NEW o, NEW w, Sound(o, w)
  PROVE  LET r == MakeRoom(o)
         IN  /\ Sound(r, w) /\ MapOf(r) = MapOf(o)
             /\ r.count = o.count /\ Alike(o, r, o.count)
             /\ r.count < item_capacity(r) /\ r.count < r.cell_capacity
<1>1. Table(o) /\ Roomy(o) /\ w \in Owners /\ Owns(o, w)
  BY DEF Sound
<1>2. CASE Full(o)
  <2> DEFINE r == json_object_grow_and_rehash(o)
  <2>1. MakeRoom(o) = r
    BY <1>2 DEF MakeRoom
  <2>2. /\ Table(r) /\ Roomy(r) /\ r.count = o.count /\ Alike(o, r, o.count)
        /\ r.count < item_capacity(r) /\ r.count < r.cell_capacity
    BY <1>1, Grown
  <2> HIDE DEF r
  <2>3. MapOf(r) = MapOf(o) /\ Owns(r, w)
    BY <1>1, <2>2, AlikeMaps
  <2>4. QED
    BY <1>1, <2>1, <2>2, <2>3 DEF Sound
<1>3. CASE ~Full(o)
  <2>1. MakeRoom(o) = o
    BY <1>3 DEF MakeRoom
  <2>2. o.count \in Nat /\ o.cell_capacity \in Nat
    BY <1>1, Contents
  <2>3. o.count < (o.cell_capacity * 7) \div 10
    BY <1>3, <2>2 DEF Full, item_capacity
  <2>4. (o.cell_capacity * 7) \div 10 < o.cell_capacity
    BY <2>2, <2>3
  <2>5. QED
    BY <2>1, <2>2, <2>3, <2>4 DEF Alike, item_capacity
<1>4. QED
  BY <1>2, <1>3

\* json_object_add() on a table with room.
LEMMA Added ==
  ASSUME NEW o, NEW w, Sound(o, w), o.count < item_capacity(o), o.count < o.cell_capacity,
         NEW k \in Keys, NEW v \in Values, w[v] = "caller",
         \A i \in 0 .. o.count - 1 : o.items[i].name # k
  PROVE  /\ Sound(Append(o, k, v), [w EXCEPT ![v] = "object"])
         /\ MapOf(Append(o, k, v)) = [MapOf(o) EXCEPT ![k] = v]
<1> DEFINE r == Append(o, k, v)
           x == [w EXCEPT ![v] = "object"]
           m == o.count
<1>1. Table(o) /\ Roomy(o) /\ w \in Owners /\ Owns(o, w) /\ m \in Nat
  BY Contents DEF Sound
<1>2. /\ Table(r) /\ r.cell_capacity = o.cell_capacity /\ r.count = m + 1
      /\ \A i \in 0 .. m - 1 : r.items[i] = o.items[i]
      /\ r.items[m].name = k /\ r.items[m].value = v
  BY <1>1, FreeCell, Appended
<1> HIDE DEF r
<1>3. Roomy(r)
  <2>1. m < (o.cell_capacity * 7) \div 10 /\ o.cell_capacity \in Nat
    BY <1>1, Contents DEF item_capacity
  <2>2. m + 1 <= (o.cell_capacity * 7) \div 10
    BY <1>1, <2>1
  <2>3. QED
    BY <1>1, <1>2, <2>2 DEF Roomy, item_capacity
<1>4. /\ x \in Owners
      /\ \A u \in Values : x[u] = IF u = v THEN "object" ELSE w[u]
  BY <1>1 DEF Owners
<1> HIDE DEF x
<1>5. \A i \in 0 .. m - 1 : o.items[i].value # v /\ o.items[i].value \in Values
  BY <1>1, Contents DEF Owns
<1>6. Owns(r, x)
  <2>1. \A i \in 0 .. m : i \in 0 .. m - 1 \/ i = m
    BY <1>1
  <2>2. \A i, j \in 0 .. r.count - 1 : r.items[i].value = r.items[j].value => i = j
    BY <1>1, <1>2, <1>5, <2>1 DEF Owns
  <2>3. ASSUME NEW u \in Values
        PROVE  x[u] = "object" <=> \E i \in 0 .. r.count - 1 : r.items[i].value = u
    <3>1. CASE u = v
      <4>1. m \in 0 .. r.count - 1
        BY <1>1, <1>2
      <4>2. QED
        BY <1>2, <1>4, <3>1, <4>1
    <3>2. CASE u # v
      <4>1. x[u] = "object" <=> \E i \in 0 .. m - 1 : o.items[i].value = u
        BY <1>1, <1>4, <3>2 DEF Owns
      <4>2. QED
        BY <1>1, <1>2, <2>1, <3>2, <4>1
    <3>3. QED
      BY <3>1, <3>2
  <2>4. QED
    BY <2>2, <2>3 DEF Owns
<1>7. ASSUME NEW c \in Keys
      PROVE  json_object_getn_value(r, c) = IF c = k THEN v ELSE json_object_getn_value(o, c)
  <2>1. CASE c = k
    <3>1. m \in 0 .. r.count - 1
      BY <1>1, <1>2
    <3>2. QED
      BY <1>2, <2>1, <3>1, ValueFound
  <2>2. CASE c # k /\ \E i \in 0 .. m - 1 : o.items[i].name = c
    <3>1. PICK i \in 0 .. m - 1 : o.items[i].name = c
      BY <2>2
    <3>2. i \in 0 .. r.count - 1 /\ r.items[i].name = c
      BY <1>1, <1>2, <3>1
    <3>3. QED
      BY <1>1, <1>2, <2>2, <3>1, <3>2, ValueFound
  <2>3. CASE c # k /\ \A i \in 0 .. m - 1 : o.items[i].name # c
    <3>1. \A i \in 0 .. r.count - 1 : r.items[i].name # c
      BY <1>1, <1>2, <2>3
    <3>2. QED
      BY <1>1, <1>2, <2>3, <3>1, ValueFound
  <2>4. QED
    BY <2>1, <2>2, <2>3
<1>8. MapOf(r) = [MapOf(o) EXCEPT ![k] = v]
  BY <1>7 DEF MapOf
<1>9. QED
  BY <1>2, <1>3, <1>4, <1>6, <1>8 DEF Sound, r, x

\* The owners after values have been freed.
Freed(w, vs) == [v \in Values |-> IF v \in vs THEN "none" ELSE w[v]]

\* json_object_set_value() on a name that is there.
LEMMA Replaced ==
  ASSUME NEW o, NEW w, Sound(o, w), NEW i \in 0 .. o.count - 1,
         NEW v \in Values, w[v] = "caller"
  PROVE  LET r == [o EXCEPT !.items[i].value = v]
         IN  /\ Sound(r, [Freed(w, {o.items[i].value}) EXCEPT ![v] = "object"])
             /\ MapOf(r) = [MapOf(o) EXCEPT ![o.items[i].name] = v]
<1> DEFINE r == [o EXCEPT !.items[i].value = v]
           item == [o.items[i] EXCEPT !.value = v]
           u == o.items[i].value
           k == o.items[i].name
           x == [Freed(w, {u}) EXCEPT ![v] = "object"]
           m == o.count
<1>1. /\ Table(o) /\ Roomy(o) /\ w \in Owners /\ Owns(o, w) /\ m \in Nat
      /\ Shape(o) /\ Intact(o, m, OBJECT_INVALID_IX)
  BY Contents DEF Sound, Table
<1>2. /\ \A j \in 0 .. m - 1 : /\ o.items[j] \in Items
                               /\ o.items[j].name \in Keys /\ o.items[j].value \in Values
      /\ \A j, l \in 0 .. m - 1 : o.items[j].name = o.items[l].name => j = l
  BY <1>1, Contents
<1>3. /\ item \in Items /\ item.value = v /\ item.name = k
      /\ item.cell_ix = o.items[i].cell_ix /\ item.hash = o.items[i].hash
  <2> DEFINE t == o.items[i]
  <2>1. t \in Items
    BY <1>2
  <2> HIDE DEF t
  <2>2. /\ t = [name |-> t.name, value |-> t.value, cell_ix |-> t.cell_ix, hash |-> t.hash]
        /\ t.name \in Keys /\ t.cell_ix \in Nat /\ t.hash \in Nat
    BY <2>1 DEF Items
  <2>3. [t EXCEPT !.value = v]
            = [name |-> t.name, value |-> v, cell_ix |-> t.cell_ix, hash |-> t.hash]
    BY <2>2
  <2>4. [t EXCEPT !.value = v] \in Items
    BY <2>2, <2>3 DEF Items
  <2>5. QED
    BY <2>3, <2>4 DEF t
<1>4. /\ r.cell_capacity = o.cell_capacity /\ r.count = m /\ r.cells = o.cells
      /\ r.items = [o.items EXCEPT ![i] = item]
      /\ r = [cell_capacity |-> r.cell_capacity, cells |-> r.cells,
              items |-> r.items, count |-> r.count]
  <2>1. o = [cell_capacity |-> o.cell_capacity, cells |-> o.cells,
             items |-> o.items, count |-> o.count]
    BY <1>1 DEF Shape
  <2>2. r = [o EXCEPT !.items = [o.items EXCEPT ![i] = item]]
    BY <2>1
  <2> HIDE DEF r, item
  <2>3. r = [cell_capacity |-> o.cell_capacity, cells |-> o.cells,
             items |-> [o.items EXCEPT ![i] = item], count |-> o.count]
    BY <2>1, <2>2
  <2>4. QED
    BY <2>3
<1> HIDE DEF r, item
<1>5. \A j \in 0 .. m - 1 : r.items[j] = IF j = i THEN item ELSE o.items[j]
  BY <1>1, <1>4 DEF Shape
<1>6. \A j \in 0 .. m - 1 :
         /\ r.items[j].name = o.items[j].name /\ r.items[j].hash = o.items[j].hash
         /\ r.items[j].cell_ix = o.items[j].cell_ix
         /\ r.items[j].value = IF j = i THEN v ELSE o.items[j].value
  BY <1>3, <1>5
<1>7. Table(r)
  <2>1. r.items \in [0 .. m - 1 -> Items]
    BY <1>1, <1>3, <1>4 DEF Shape
  <2>2. Shape(r)
    BY <1>1, <1>4, <2>1 DEF Shape
  <2>3. Named(r, m)
    BY <1>1, <1>6 DEF Intact, Named
  <2>4. Placed(r, m, OBJECT_INVALID_IX)
    BY <1>1, <1>4, <1>6 DEF Intact, Placed
  <2>5. Backed(r, m, OBJECT_INVALID_IX)
    BY <1>1, <1>4, <1>6 DEF Intact, Backed, OBJECT_INVALID_IX
  <2>6. \A j \in 0 .. m - 1 : Home(r, j) = Home(o, j)
    BY <1>4, <1>6 DEF Home, Slot
  <2>7. Uncut(r, m, OBJECT_INVALID_IX)
    BY <1>1, <1>4, <1>6, <2>6 DEF Intact, Uncut
  <2>8. QED
    BY <1>4, <2>2, <2>3, <2>4, <2>5, <2>7 DEF Table, Intact
<1>8. Roomy(r)
  BY <1>1, <1>4 DEF Roomy, item_capacity
<1>9. /\ x \in Owners
      /\ \A c \in Values : x[c] = IF c = v THEN "object" ELSE IF c = u THEN "none" ELSE w[c]
  BY <1>1 DEF Owners, Freed
<1> HIDE DEF x
<1>10. \A j \in 0 .. m - 1 : o.items[j].value # v
  BY <1>1, <1>2 DEF Owns
<1>11. Owns(r, x)
  <2>1. \A j, l \in 0 .. r.count - 1 : r.items[j].value = r.items[l].value => j = l
    BY <1>1, <1>4, <1>6, <1>10 DEF Owns
  <2>2. ASSUME NEW c \in Values
        PROVE  x[c] = "object" <=> \E j \in 0 .. r.count - 1 : r.items[j].value = c
    <3>1. CASE c = v
      BY <1>4, <1>6, <1>9, <3>1
    <3>2. CASE c # v /\ c = u
      <4>1. \A j \in 0 .. m - 1 : j # i => o.items[j].value # c
        BY <1>1, <3>2 DEF Owns
      <4>2. QED
        BY <1>4, <1>6, <1>9, <3>2, <4>1
    <3>3. CASE c # v /\ c # u
      <4>1. w[c] = "object" <=> \E j \in 0 .. m - 1 : o.items[j].value = c
        BY <1>1 DEF Owns
      <4>2. (\E j \in 0 .. m - 1 : o.items[j].value = c)
               <=> \E j \in 0 .. r.count - 1 : r.items[j].value = c
        BY <1>4, <1>6, <3>3
      <4>3. QED
        BY <1>9, <3>3, <4>1, <4>2
    <3>4. QED
      BY <3>1, <3>2, <3>3
  <2>3. QED
    BY <2>1, <2>2 DEF Owns
<1>12. ASSUME NEW c \in Keys
       PROVE  json_object_getn_value(r, c) = IF c = k THEN v ELSE json_object_getn_value(o, c)
  <2>1. CASE \E j \in 0 .. m - 1 : o.items[j].name = c
    <3>1. PICK j \in 0 .. m - 1 : o.items[j].name = c
      BY <2>1
    <3>2. r.items[j].name = c /\ j \in 0 .. r.count - 1
      BY <1>4, <1>6, <3>1
    <3>3. json_object_getn_value(r, c) = r.items[j].value
          /\ json_object_getn_value(o, c) = o.items[j].value
      BY <1>1, <1>7, <3>1, <3>2, ValueFound
    <3>4. c = k <=> j = i
      BY <1>2, <3>1
    <3>5. QED
      BY <1>6, <3>3, <3>4
  <2>2. CASE \A j \in 0 .. m - 1 : o.items[j].name # c
    <3>1. c # k /\ \A j \in 0 .. r.count - 1 : r.items[j].name # c
      BY <1>4, <1>6, <2>2
    <3>2. QED
      BY <1>1, <1>7, <2>2, <3>1, ValueFound
  <2>3. QED
    BY <2>1, <2>2
<1>13. MapOf(r) = [MapOf(o) EXCEPT ![k] = v]
  BY <1>12 DEF MapOf
<1>14. QED
  BY <1>7, <1>8, <1>9, <1>11, <1>13 DEF Sound, r, x

\* json_object_remove() on a name that is there.
LEMMA TakenOut ==
  ASSUME NEW o, NEW w, Sound(o, w), NEW i \in 0 .. o.count - 1
  PROVE  LET r == json_object_remove_internal(o, o.items[i].name)
         IN  /\ Sound(r, Freed(w, {o.items[i].value}))
             /\ MapOf(r) = [MapOf(o) EXCEPT ![o.items[i].name] = NULL]
<1> DEFINE r == json_object_remove_internal(o, o.items[i].name)
           u == o.items[i].value
           k == o.items[i].name
           x == Freed(w, {u})
           m == o.count - 1
           From(j) == IF j = i THEN m ELSE j
<1>1. /\ Table(o) /\ Roomy(o) /\ w \in Owners /\ Owns(o, w) /\ m \in Nat /\ o.count = m + 1
  BY Contents DEF Sound
<1>2. /\ \A j \in 0 .. m : o.items[j].name \in Keys /\ o.items[j].value \in Values
      /\ \A j, l \in 0 .. m : o.items[j].name = o.items[l].name => j = l
      /\ \A j, l \in 0 .. m : o.items[j].value = o.items[l].value => j = l
  BY <1>1, Contents DEF Owns
<1>3. /\ Table(r) /\ r.cell_capacity = o.cell_capacity /\ r.count = m
      /\ \A j \in 0 .. r.count - 1 : /\ r.items[j].name = o.items[From(j)].name
                                     /\ r.items[j].value = o.items[From(j)].value
  BY <1>1, Removed
<1> HIDE DEF r
<1>4. /\ \A j \in 0 .. m - 1 : From(j) \in 0 .. m /\ From(j) # i
      /\ \A j, l \in 0 .. m - 1 : From(j) = From(l) => j = l
      /\ \A l \in 0 .. m : l # i => \E j \in 0 .. m - 1 : From(j) = l
  <2>1. \A j \in 0 .. m - 1 : From(j) \in 0 .. m /\ From(j) # i
    BY <1>1
  <2>2. \A j, l \in 0 .. m - 1 : From(j) = From(l) => j = l
    BY <1>1
  <2>3. ASSUME NEW l \in 0 .. m, l # i PROVE \E j \in 0 .. m - 1 : From(j) = l
    <3>1. CASE l = m
      <4>1. i \in 0 .. m - 1 /\ From(i) = l
        BY <1>1, <2>3, <3>1
      <4>2. QED
        BY <4>1
    <3>2. CASE l # m
      <4>1. l \in 0 .. m - 1 /\ From(l) = l
        BY <1>1, <2>3, <3>2
      <4>2. QED
        BY <4>1
    <3>3. QED
      BY <3>1, <3>2
  <2>4. QED
    BY <2>1, <2>2, <2>3
<1> HIDE DEF From
<1>5. Roomy(r)
  <2>1. m <= (o.cell_capacity * 7) \div 10
    <3>1. o.cell_capacity \in Nat /\ o.count <= (o.cell_capacity * 7) \div 10
      BY <1>1, Contents DEF Roomy, item_capacity
    <3>2. QED
      BY <1>1, <3>1
  <2>2. QED
    BY <1>1, <1>3, <2>1 DEF Roomy, item_capacity
<1>6. x \in Owners /\ \A c \in Values : x[c] = IF c = u THEN "none" ELSE w[c]
  BY <1>1 DEF Owners, Freed
<1> HIDE DEF x
<1>7. Owns(r, x)
  <2>1. \A j, l \in 0 .. r.count - 1 : r.items[j].value = r.items[l].value => j = l
    BY <1>2, <1>3, <1>4
  <2>2. ASSUME NEW c \in Values
        PROVE  x[c] = "object" <=> \E j \in 0 .. r.count - 1 : r.items[j].value = c
    <3>1. w[c] = "object" <=> \E l \in 0 .. m : o.items[l].value = c
      BY <1>1 DEF Owns
    <3>2. (\E j \in 0 .. r.count - 1 : r.items[j].value = c)
             <=> \E l \in 0 .. m : l # i /\ o.items[l].value = c
      BY <1>3, <1>4
    <3>3. \A l \in 0 .. m : o.items[l].value = u <=> l = i
      BY <1>1, <1>2
    <3>4. QED
      BY <1>6, <3>1, <3>2, <3>3
  <2>3. QED
    BY <2>1, <2>2 DEF Owns
<1>8. ASSUME NEW c \in Keys
      PROVE  json_object_getn_value(r, c) = IF c = k THEN NULL ELSE json_object_getn_value(o, c)
  <2>1. \A l \in 0 .. m : o.items[l].name = k <=> l = i
    BY <1>1, <1>2
  <2>2. CASE \E l \in 0 .. m : l # i /\ o.items[l].name = c
    <3>1. PICK j \in 0 .. m - 1 : o.items[From(j)].name = c /\ From(j) \in 0 .. m
      BY <1>4, <2>2
    <3>2. j \in 0 .. r.count - 1 /\ r.items[j].name = c
      BY <1>3, <3>1
    <3>3. json_object_getn_value(r, c) = r.items[j].value
      BY <1>3, <3>2, ValueFound
    <3>4. json_object_getn_value(o, c) = o.items[From(j)].value
      BY <1>1, <3>1, ValueFound
    <3>5. QED
      BY <1>3, <2>1, <2>2, <3>2, <3>3, <3>4
  <2>3. CASE \A l \in 0 .. m : l # i => o.items[l].name # c
    <3>1. \A j \in 0 .. r.count - 1 : r.items[j].name # c
      BY <1>3, <1>4, <2>3
    <3>2. json_object_getn_value(r, c) = NULL
      BY <1>3, <3>1, ValueFound
    <3>3. c # k => json_object_getn_value(o, c) = NULL
      BY <1>1, <2>3, ValueFound
    <3>4. QED
      BY <3>2, <3>3
  <2>4. QED
    BY <2>2, <2>3
<1>9. MapOf(r) = [MapOf(o) EXCEPT ![k] = NULL]
  BY <1>8 DEF MapOf
<1>10. QED
  BY <1>3, <1>5, <1>6, <1>7, <1>9 DEF Sound, r, x

\* An object emptied or made anew.
LEMMA Emptied ==
  ASSUME NEW o, NEW w, Sound(o, w), NEW n \in {0, o.cell_capacity}
  PROVE  /\ Sound(json_object_init(n), Freed(w, ValuesOf(o)))
         /\ MapOf(json_object_init(n)) = [k \in Keys |-> NULL]
<1> DEFINE r == json_object_init(n)
           x == Freed(w, ValuesOf(o))
<1>1. /\ Table(o) /\ Roomy(o) /\ w \in Owners /\ Owns(o, w) /\ n \in Nat
      /\ ValuesOf(o) = {o.items[i].value : i \in 0 .. o.count - 1}
  BY Contents DEF Sound
<1>2. /\ Table(r) /\ r.count = 0 /\ r.cell_capacity = n
      /\ \A k \in Keys : json_object_getn_value(r, k) = NULL
  BY <1>1, EmptyTable
<1> HIDE DEF r
<1>3. Roomy(r)
  <2>1. 0 <= (n * 7) \div 10
    BY <1>1
  <2>2. QED
    BY <1>1, <1>2, <2>1 DEF Roomy, item_capacity
<1>4. x \in Owners /\ \A v \in Values : x[v] = IF v \in ValuesOf(o) THEN "none" ELSE w[v]
  BY <1>1 DEF Owners, Freed
<1> HIDE DEF x
<1>5. \A v \in Values : x[v] # "object"
  BY <1>1, <1>4 DEF Owns
<1>6. Owns(r, x)
  BY <1>2, <1>5 DEF Owns
<1>7. QED
  BY <1>2, <1>3, <1>4, <1>6 DEF Sound, MapOf, r, x

-----------------------------------------------------------------------------
\* The inductive invariant, and the map

\* The invariant says that the object is sound.
LEMMA IInvIsSound == IInv <=> Sound(object, owner)
  BY Soundness DEF IInv

\* A new object is sound, and an empty map.
LEMMA InitSound == Init => Sound(object, owner) /\ Map!Init
<1>1. SUFFICES ASSUME Init PROVE Sound(object, owner) /\ Map!Init
  OBVIOUS
<1>2. /\ object = json_object_init(0) /\ owner = [v \in Values |-> "none"]
  BY <1>1 DEF Init
<1>3. /\ Table(object) /\ object.count = 0 /\ object.cell_capacity = 0
      /\ \A k \in Keys : json_object_getn_value(object, k) = NULL
  BY <1>2, EmptyTable
<1>4. Roomy(object)
  BY <1>3 DEF Roomy, item_capacity
<1>5. owner \in Owners /\ Owns(object, owner)
  BY <1>2, <1>3 DEF Owners, Owns
<1>6. Map!Init
  BY <1>2, <1>3 DEF Map!Init
<1>7. QED
  BY <1>3, <1>4, <1>5, <1>6 DEF Sound

\* A value made or freed by the caller.
LEMMA CallerStep ==
  ASSUME Sound(object, owner), NEW v \in Values, NewValue(v) \/ FreeValue(v)
  PROVE  Sound(object', owner') /\ (Map!Allocate(v) \/ Map!Discard(v))
<1>1. /\ Table(object) /\ Roomy(object) /\ owner \in Owners /\ Owns(object, owner)
      /\ object' = object
  BY DEF Sound, NewValue, FreeValue
<1>2. /\ owner[v] \in {"none", "caller"} /\ owner' \in Owners
      /\ \A u \in Values : owner'[u] = "object" <=> owner[u] = "object"
  BY <1>1 DEF NewValue, FreeValue, Owners
<1>3. Sound(object', owner')
  BY <1>1, <1>2 DEF Sound, Owns
<1>4. Map!Allocate(v) \/ Map!Discard(v)
  BY <1>1 DEF NewValue, FreeValue, Map!Allocate, Map!Discard
<1>5. QED
  BY <1>3, <1>4

\* json_object_set_value() on a name that is there.
LEMMA ReplaceStep ==
  ASSUME Sound(object, owner), NEW k \in Keys, NEW v \in Values, Replace(k, v)
  PROVE  Sound(object', owner') /\ Map!Put(k, v)
<1>1. Table(object) /\ owner[v] = "caller" /\ Found(object, k)
  BY DEF Sound, Replace, Settable
<1>2. PICK i \in 0 .. object.count - 1 : object.items[i].name = k
  BY <1>1, ValueFound
<1>3. object.cells[json_object_get_cell_ix(object, k).ix] = i
      /\ json_object_getn_value(object, k) = object.items[i].value
  BY <1>1, <1>2, ValueFound
<1>4. /\ object' = [object EXCEPT !.items[i].value = v]
      /\ owner' = [Freed(owner, {object.items[i].value}) EXCEPT ![v] = "object"]
  BY <1>3 DEF Replace, Released, Freed
<1> DEFINE r == [object EXCEPT !.items[i].value = v]
           x == [Freed(owner, {object.items[i].value}) EXCEPT ![v] = "object"]
<1>5. Sound(r, x) /\ MapOf(r) = [MapOf(object) EXCEPT ![k] = v]
  <2>1. /\ Sound(r, x)
        /\ MapOf(r) = [MapOf(object) EXCEPT ![object.items[i].name] = v]
    BY <1>1, <1>2, Replaced
  <2> HIDE DEF r, x
  <2>2. QED
    BY <1>2, <2>1
<1>6. object' = r /\ owner' = x
  BY <1>4
<1> HIDE DEF r, x
<1>7. Sound(object', owner') /\ MapOf(object') = [MapOf(object) EXCEPT ![k] = v]
  BY <1>5, <1>6
<1>8. Map!Put(k, v)
  <2>1. MapOf(object)[k] = object.items[i].value
    BY <1>3 DEF MapOf
  <2>2. owner' = [Map!Released({MapOf(object)[k]}) EXCEPT ![v] = "object"]
    BY <1>4, <2>1 DEF Freed, Map!Released
  <2>3. QED
    BY <1>1, <1>7, <2>2 DEF MapOf, Map!Put
<1>9. QED
  BY <1>7, <1>8

\* json_object_set_value() and json_object_add() on a new name.
LEMMA AddStep ==
  ASSUME Sound(object, owner), NEW k \in Keys, NEW v \in Values, Add(k, v)
  PROVE  Sound(object', owner') /\ Map!Put(k, v)
<1> DEFINE p == MakeRoom(object)
<1>1. /\ Table(object) /\ owner \in Owners /\ owner[v] = "caller" /\ ~Found(object, k)
      /\ object' = Append(p, k, v) /\ owner' = [owner EXCEPT ![v] = "object"]
  BY DEF Sound, Add, Settable
<1>2. /\ Sound(p, owner) /\ MapOf(p) = MapOf(object)
      /\ p.count = object.count /\ Alike(object, p, object.count)
      /\ p.count < item_capacity(p) /\ p.count < p.cell_capacity
  BY RoomMade
<1> HIDE DEF p
<1>3. \A i \in 0 .. object.count - 1 : object.items[i].name # k
  BY <1>1, ValueFound
<1>4. \A i \in 0 .. p.count - 1 : p.items[i].name # k
  BY <1>2, <1>3 DEF Alike
<1> DEFINE r == Append(p, k, v)
           x == [owner EXCEPT ![v] = "object"]
<1>5. Sound(r, x) /\ MapOf(r) = [MapOf(object) EXCEPT ![k] = v]
  <2>1. /\ Sound(p, owner) /\ owner[v] = "caller"
        /\ p.count < item_capacity(p) /\ p.count < p.cell_capacity
    BY <1>1, <1>2
  <2>2. /\ Sound(Append(p, k, v), [owner EXCEPT ![v] = "object"])
        /\ MapOf(Append(p, k, v)) = [MapOf(p) EXCEPT ![k] = v]
    BY <1>4, <2>1, Added
  <2>3. Sound(r, x) /\ MapOf(r) = [MapOf(p) EXCEPT ![k] = v]
    BY <2>2
  <2> HIDE DEF r, x
  <2>4. QED
    BY <1>2, <2>3
<1>6. object' = r /\ owner' = x
  BY <1>1
<1> HIDE DEF r, x
<1>7. Sound(object', owner') /\ MapOf(object') = [MapOf(object) EXCEPT ![k] = v]
  BY <1>5, <1>6
<1>8. Map!Put(k, v)
  <2>1. MapOf(object)[k] = NULL
    BY <1>1, <1>3, ValueFound DEF MapOf
  <2>2. Map!Released({MapOf(object)[k]}) = owner
    BY <1>1, <2>1, NullAssumption DEF Map!Released, Owners
  <2>3. QED
    BY <1>1, <1>7, <2>2 DEF MapOf, Map!Put
<1>9. QED
  BY <1>7, <1>8

\* json_object_remove().
LEMMA RemoveStep ==
  ASSUME Sound(object, owner), NEW k \in Keys, Remove(k)
  PROVE  Sound(object', owner') /\ Map!Remove(k)
<1>1. Table(object) /\ Found(object, k)
  BY DEF Sound, Remove
<1>2. PICK i \in 0 .. object.count - 1 : object.items[i].name = k
  BY <1>1, ValueFound
<1>3. json_object_getn_value(object, k) = object.items[i].value
      /\ object.items[i].value \in Values
  BY <1>1, <1>2, ValueFound, Contents
<1>4. /\ object' = json_object_remove_internal(object, object.items[i].name)
      /\ owner' = Freed(owner, {object.items[i].value})
  BY <1>2, <1>3 DEF Remove, Released, Freed
<1>5. Sound(object', owner') /\ MapOf(object') = [MapOf(object) EXCEPT ![k] = NULL]
  BY <1>2, <1>4, TakenOut
<1>6. Map!Remove(k)
  <2>1. MapOf(object)[k] = object.items[i].value
    BY <1>3 DEF MapOf
  <2>2. MapOf(object)[k] # NULL
    BY <1>3, <2>1, NullAssumption
  <2>3. owner' = Map!Released({MapOf(object)[k]})
    BY <1>4, <2>1 DEF Freed, Map!Released
  <2>4. QED
    BY <1>5, <2>2, <2>3 DEF MapOf, Map!Remove
<1>7. QED
  BY <1>5, <1>6

\* json_object_clear(), json_object_free().
LEMMA ClearStep ==
  ASSUME Sound(object, owner), Clear \/ Free
  PROVE  Sound(object', owner') /\ Map!Clear
<1>1. Table(object) /\ Owns(object, owner) /\ owner \in Owners
  BY DEF Sound
<1>2. /\ object' = json_object_init(0) \/ object' = json_object_init(object.cell_capacity)
      /\ owner' = Freed(owner, ValuesOf(object))
  BY DEF Clear, Free, Released, Freed
<1>3. Sound(object', owner') /\ MapOf(object') = [k \in Keys |-> NULL]
  BY <1>2, Emptied
<1>4. \A v \in Values : v \in ValuesOf(object) <=> v \in {MapOf(object)[k] : k \in Keys}
  <2>1. \A v \in Values : v \in ValuesOf(object)
           <=> \E i \in 0 .. object.count - 1 : object.items[i].value = v
    BY <1>1, Contents
  <2>2. ASSUME NEW v \in Values, NEW i \in 0 .. object.count - 1, object.items[i].value = v
        PROVE  \E k \in Keys : MapOf(object)[k] = v
    <3>1. object.items[i].name \in Keys
      BY <1>1, Contents
    <3>2. MapOf(object)[object.items[i].name] = v
      BY <1>1, <2>2, <3>1, ValueFound DEF MapOf
    <3>3. QED
      BY <3>1, <3>2
  <2>3. ASSUME NEW v \in Values, NEW k \in Keys, MapOf(object)[k] = v
        PROVE  \E i \in 0 .. object.count - 1 : object.items[i].value = v
    <3>1. json_object_getn_value(object, k) # NULL
      BY <2>3, NullAssumption DEF MapOf
    <3>2. PICK i \in 0 .. object.count - 1 : object.items[i].name = k
      BY <1>1, <3>1, ValueFound
    <3>3. json_object_getn_value(object, k) = object.items[i].value
      BY <1>1, <3>2, ValueFound
    <3>4. QED
      BY <2>3, <3>3 DEF MapOf
  <2>4. QED
    BY <2>1, <2>2, <2>3
<1>5. owner' = Map!Released({MapOf(object)[k] : k \in Keys})
  BY <1>2, <1>4 DEF Freed, Map!Released
<1>6. Map!Clear
  BY <1>3, <1>5 DEF MapOf, Map!Clear
<1>7. QED
  BY <1>3, <1>6

\* json_object_set_value() that cannot copy the name: seen as a map, nothing changes.
LEMMA AddFailsStep ==
  ASSUME Sound(object, owner), NEW k \in Keys, NEW v \in Values, AddFails(k, v)
  PROVE  Sound(object', owner') /\ MapOf(object') = MapOf(object) /\ owner' = owner
<1> DEFINE p == MakeRoom(object)
<1>1. object' = p /\ owner' = owner
  BY DEF AddFails
<1>2. Sound(p, owner) /\ MapOf(p) = MapOf(object)
  BY RoomMade
<1> HIDE DEF p
<1>3. QED
  BY <1>1, <1>2

\* What the invariant says is kept by every step, and every step is one of the map.
LEMMA NextSound ==
  ASSUME Sound(object, owner), [Next]_vars
  PROVE  Sound(object', owner') /\ [Map!Next]_(Map!vars)
<1>1. CASE UNCHANGED vars
  <2>1. object' = object /\ owner' = owner
    BY <1>1 DEF vars
  <2>2. UNCHANGED Map!vars
    BY <2>1 DEF Map!vars
  <2>3. QED
    BY <2>1, <2>2
<1>2. ASSUME NEW v \in Values, NewValue(v) \/ FreeValue(v)
      PROVE  Sound(object', owner') /\ [Map!Next]_(Map!vars)
  BY <1>2, CallerStep DEF Map!Next
<1>3. ASSUME NEW k \in Keys, NEW v \in Values, Replace(k, v)
      PROVE  Sound(object', owner') /\ [Map!Next]_(Map!vars)
  BY <1>3, ReplaceStep DEF Map!Next
<1>4. ASSUME NEW k \in Keys, NEW v \in Values, Add(k, v)
      PROVE  Sound(object', owner') /\ [Map!Next]_(Map!vars)
  BY <1>4, AddStep DEF Map!Next
<1>5. ASSUME NEW k \in Keys, NEW v \in Values, AddFails(k, v)
      PROVE  Sound(object', owner') /\ [Map!Next]_(Map!vars)
  BY <1>5, AddFailsStep DEF Map!vars, MapOf
<1>6. ASSUME NEW k \in Keys, Remove(k)
      PROVE  Sound(object', owner') /\ [Map!Next]_(Map!vars)
  BY <1>6, RemoveStep DEF Map!Next
<1>7. CASE Clear \/ Free
  BY <1>7, ClearStep DEF Map!Next
<1>8. QED
  BY <1>1, <1>2, <1>3, <1>4, <1>5, <1>6, <1>7 DEF Next

(***************************************************************************)
(* The theorems.                                                           *)
(***************************************************************************)

\* The inductive invariant: every item is where the probe for its name looks,
\* and the object owns what it holds (parson.c:525-698).
THEOREM Invariance == Spec => []IInv
<1>1. Init => IInv
  BY InitSound, IInvIsSound
<1>2. IInv /\ [Next]_vars => IInv'
  <2>1. IInv' <=> Sound(object, owner)'
    BY IInvIsSound, PTL
  <2>2. Sound(object, owner)' <=> Sound(object', owner')
    OBVIOUS
  <2>3. QED
    BY <2>1, <2>2, IInvIsSound, NextSound
<1>3. QED
  BY <1>1, <1>2, PTL DEF Spec

\* Arrays are accessed inside their bounds (parson.c:611-616).
THEOREM TypeCorrect == Spec => []TypeOK
<1>1. IInv => TypeOK
  BY DEF IInv, TypeOK, Table, Shape, Roomy, item_capacity
<1>2. QED
  BY <1>1, Invariance, PTL

\* Cells and items point at each other, as a removal relies on when it moves the
\* last item (parson.c:677) and shifts a cell (parson.c:691-692).
THEOREM CellsAgree == Spec => []LinksAgree
<1>1. IInv => LinksAgree
  <2>1. SUFFICES ASSUME IInv PROVE LinksAgree
    OBVIOUS
  <2>2. /\ Shape(object) /\ Table(object)
        /\ Placed(object, object.count, OBJECT_INVALID_IX)
        /\ Backed(object, object.count, OBJECT_INVALID_IX)
    BY <2>1 DEF IInv, Table, Intact
  <2>3. /\ DOMAIN object.items = 0 .. object.count - 1
        /\ DOMAIN object.cells = 0 .. object.cell_capacity - 1
    BY <2>2 DEF Shape
  <2>4. \A c \in 0 .. object.cell_capacity - 1 : c # OBJECT_INVALID_IX
    BY DEF OBJECT_INVALID_IX
  <2>5. \A i \in DOMAIN object.items : object.cells[object.items[i].cell_ix] = i
    BY <2>2, <2>3 DEF Placed
  <2>6. \A c \in DOMAIN object.cells : object.cells[c] # OBJECT_INVALID_IX =>
            object.items[object.cells[c]].cell_ix = c
    BY <2>2, <2>3, <2>4 DEF Backed
  <2>7. QED
    BY <2>5, <2>6 DEF LinksAgree
<1>2. QED
  BY <1>1, Invariance, PTL

\* Every name in the object is found by its probe, once, whatever was inserted,
\* grown and removed before (json_object_get_cell_ix, parson.c:555-584).
THEOREM NamesFound == Spec => []EveryNameFound
<1>1. IInv => EveryNameFound
  <2>1. SUFFICES ASSUME IInv PROVE EveryNameFound
    OBVIOUS
  <2>2. Table(object)
    BY <2>1 DEF IInv
  <2>3. /\ DOMAIN object.items = 0 .. object.count - 1
        /\ \A i, j \in 0 .. object.count - 1 :
              object.items[i].name = object.items[j].name => i = j
    BY <2>2, Contents
  <2>4. IsInjective([i \in DOMAIN object.items |-> object.items[i].name])
    BY <2>3 DEF IsInjective
  <2>5. ASSUME NEW i \in DOMAIN object.items
        PROVE  json_object_get_cell_ix(object, object.items[i].name)
                   = [ix |-> object.items[i].cell_ix, found |-> TRUE]
    BY <2>2, <2>3, NameFound
  <2>6. QED
    BY <2>4, <2>5 DEF EveryNameFound
<1>2. QED
  BY <1>1, Invariance, PTL

\* A probe of a table with cells always ends in one of them, so an insertion has
\* a cell to write to (parson.c:603-612).
THEOREM RoomForAll == Spec => []ProbeFindsRoom
<1>1. IInv => ProbeFindsRoom
  <2>1. SUFFICES ASSUME IInv, object.cell_capacity > 0, NEW k \in Keys
                 PROVE  json_object_get_cell_ix(object, k).ix # OBJECT_INVALID_IX
    BY DEF ProbeFindsRoom
  <2>2. Table(object) /\ Roomy(object)
    BY <2>1 DEF IInv
  <2>3. CASE \E i \in 0 .. object.count - 1 : object.items[i].name = k
    <3>1. PICK i \in 0 .. object.count - 1 : object.items[i].name = k
      BY <2>3
    <3>2. json_object_get_cell_ix(object, k) = [ix |-> object.items[i].cell_ix, found |-> TRUE]
      BY <2>2, <3>1, NameFound
    <3>3. object.items[i].cell_ix # OBJECT_INVALID_IX
      BY <2>2 DEF Table, Intact, Placed
    <3>4. QED
      BY <3>2, <3>3
  <2>4. CASE \A i \in 0 .. object.count - 1 : object.items[i].name # k
    <3>1. object.count \in Nat /\ object.cell_capacity \in Nat
      BY <2>2, Contents
    <3>2. object.count < object.cell_capacity
      BY <2>1, <2>2, <3>1 DEF Roomy, item_capacity
    <3>3. \E c \in 0 .. object.cell_capacity - 1 : object.cells[c] = OBJECT_INVALID_IX
      BY <2>2, <3>2, FreeCell
    <3>4. json_object_get_cell_ix(object, k).ix \in 0 .. object.cell_capacity - 1
      BY <2>2, <2>4, <3>3, NameAbsent
    <3>5. QED
      BY <3>4 DEF OBJECT_INVALID_IX
  <2>5. QED
    BY <2>3, <2>4
<1>2. QED
  BY <1>1, Invariance, PTL

\* The object owns exactly the values it holds, each under one name: none is
\* freed while it is held and none is freed twice (parson.c:2092 and 2101).
THEOREM OwnsValues == Spec => []OwnsItsValues
<1>1. IInv => OwnsItsValues
  BY DEF IInv, OwnsItsValues, IsInjective
<1>2. QED
  BY <1>1, Invariance, PTL

\* Through json_object_getn_value, the hash table is a map that owns its values.
THEOREM ImplementsMap == Spec => MapSpec
<1>1. Init => Map!Init
  BY InitSound
<1>2. IInv /\ [Next]_vars => [Map!Next]_(Map!vars)
  BY IInvIsSound, NextSound
<1>3. QED
  BY <1>1, <1>2, Invariance, PTL DEF Spec, MapSpec, Map!Spec
=============================================================================
