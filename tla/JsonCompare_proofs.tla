------------------------- MODULE JsonCompare_proofs -------------------------
(***************************************************************************)
(* Theorems about what JsonTree's values say, for documents of any size:   *)
(* they are compared, validated and copied as what they are.               *)
(***************************************************************************)
EXTENDS JsonTree_proofs

-----------------------------------------------------------------------------
\* Comparison

\* The heap is sound, and what a container holds is live.
Whole(h) == Sound(h) /\ \A c \in LiveIn(h) : Kids(h, c) \subseteq LiveIn(h)

LEMMA WholeFits ==
  ASSUME NEW h, Whole(h), NEW n \in LiveIn(h)
  PROVE  /\ n \in Nodes /\ h[n].items \in Seq(LiveIn(h))
         /\ h[n].names \in Seq(Seq(STRING)) /\ Distinct(h[n].names)
         /\ h[n].type = "object" => Len(h[n].names) = Len(h[n].items)
         /\ h[n].type # "object" => h[n].names = <<>>
         /\ h[n].type \notin {"array", "object"} => h[n].items = <<>>
<1>1. /\ n \in Nodes /\ Fits(h[n].type, h[n].names, h[n].items)
      /\ Kids(h, n) = ToSet(h[n].items) /\ Kids(h, n) \subseteq LiveIn(h)
  BY SoundFits DEF Whole
<1>2. h[n].items \in Seq(LiveIn(h))
  <2>1. h[n].items \in Seq(Nodes)
    BY <1>1 DEF Fits
  <2>2. \A i \in 1 .. Len(h[n].items) : h[n].items[i] \in LiveIn(h)
    BY <1>1, <2>1, InSet
  <2>3. QED
    BY <2>1, <2>2
<1>3. h[n].type # "object" => h[n].names = <<>>
  BY <1>1 DEF Fits
<1>4. QED
  BY <1>1, <1>2, <1>3 DEF Fits

\* The members of an object, by their names.
LEMMA MemberOf ==
  ASSUME NEW h, Whole(h), NEW o \in LiveIn(h), h[o].type = "object"
  PROVE  /\ \A i \in 1 .. Len(h[o].items) :
               /\ h[o].names[i] \in ToSet(h[o].names)
               /\ json_object_getn_value(h, o, h[o].names[i]) = h[o].items[i]
         /\ \A name \in ToSet(h[o].names) :
               /\ json_object_getn_value(h, o, name) \in LiveIn(h)
               /\ json_object_getn_value(h, o, name) # NULL
               /\ \E i \in 1 .. Len(h[o].items) : h[o].names[i] = name
         /\ \A name : name \notin ToSet(h[o].names) => json_object_getn_value(h, o, name) = NULL
<1>1. /\ h[o].items \in Seq(LiveIn(h)) /\ h[o].names \in Seq(Seq(STRING))
      /\ Distinct(h[o].names) /\ Len(h[o].names) = Len(h[o].items)
  BY WholeFits
<1>2. DOMAIN h[o].names = 1 .. Len(h[o].names)
  BY <1>1
<1>3. ASSUME NEW i \in 1 .. Len(h[o].items)
      PROVE  /\ h[o].names[i] \in ToSet(h[o].names)
             /\ json_object_getn_value(h, o, h[o].names[i]) = h[o].items[i]
             /\ h[o].items[i] \in LiveIn(h)
  <2>1. FirstAt(h, o, h[o].names[i], i)
    <3>1. i \in 1 .. Len(h[o].names) /\ i \in Nat
      BY <1>1
    <3>2. \A j \in 1 .. Len(h[o].names) : h[o].names[j] = h[o].names[i] => j = i
      BY <1>1, <1>2, <3>1 DEF Distinct
    <3>3. \A j \in 1 .. Len(h[o].names) : h[o].names[j] = h[o].names[i] => i <= j
      BY <3>1, <3>2
    <3>4. QED
      BY <1>1, <3>1, <3>3 DEF FirstAt
  <2>2. json_object_getn_value(h, o, h[o].names[i]) = h[o].items[i]
    BY <2>1, GetAt
  <2>3. h[o].names[i] \in ToSet(h[o].names)
    BY <1>1, <1>2, <1>3 DEF ToSet
  <2>4. QED
    BY <1>1, <1>3, <2>2, <2>3
<1>4. \A name \in ToSet(h[o].names) : \E i \in 1 .. Len(h[o].items) : h[o].names[i] = name
  BY <1>1, <1>2 DEF ToSet
<1>5. ASSUME NEW name, name \notin ToSet(h[o].names)
      PROVE  json_object_getn_value(h, o, name) = NULL
  <2>1. SUFFICES ASSUME IndexOf(h, o, name) # 0 PROVE FALSE
    BY DEF json_object_getn_value
  <2> DEFINE at == {j \in DOMAIN h[o].names : h[o].names[j] = name}
  <2>2. at # {}
    BY <2>1, Zenon DEF IndexOf
  <2>3. QED
    BY <1>5, <2>2 DEF ToSet
<1>6. ASSUME NEW name \in ToSet(h[o].names)
      PROVE  /\ json_object_getn_value(h, o, name) \in LiveIn(h)
             /\ json_object_getn_value(h, o, name) # NULL
             /\ \E i \in 1 .. Len(h[o].items) : h[o].names[i] = name
  <2>1. PICK i \in 1 .. Len(h[o].items) : h[o].names[i] = name
    BY <1>4
  <2>2. json_object_getn_value(h, o, name) \in LiveIn(h)
    BY <1>3, <2>1
  <2>3. NULL \notin LiveIn(h)
    BY PointersAssumption DEF LiveIn
  <2>4. QED
    BY <2>1, <2>2, <2>3
<1>7. QED
  BY <1>3, <1>5, <1>6

\* What is compared of two values, and of their items by d.
Matched(d, h, a, b) ==
    /\ h[a].type = h[b].type /\ h[a].text = h[b].text
    /\ Len(h[a].items) = Len(h[b].items)
    /\ h[a].type = "array" => \A i \in 1 .. Len(h[a].items) : d[h[a].items[i]] = d[h[b].items[i]]
    /\ h[a].type = "object" =>
         /\ ToSet(h[a].names) = ToSet(h[b].names)
         /\ \A name \in ToSet(h[a].names) :
               d[json_object_getn_value(h, a, name)] = d[json_object_getn_value(h, b, name)]

\* As many names as items.
LEMMA AsManyNames ==
  ASSUME NEW s \in Seq(Seq(STRING)), Distinct(s)
  PROVE  IsFiniteSet(ToSet(s)) /\ Cardinality(ToSet(s)) = Len(s)
<1> DEFINE n == Len(s)
           f == [i \in 1 .. n |-> s[i]]
<1>1. n \in Nat /\ DOMAIN s = 1 .. n
  OBVIOUS
<1>2. /\ f \in [1 .. n -> ToSet(s)]
      /\ \A i, j \in 1 .. n : f[i] = f[j] => i = j
      /\ \A x \in ToSet(s) : \E i \in 1 .. n : f[i] = x
  BY <1>1 DEF ToSet, Distinct
<1> HIDE DEF f, n
<1>3. ExistsBijection(1 .. n, ToSet(s))
  BY <1>2 DEF ExistsBijection, Bijection, Injection, Surjection, IsInjective
<1>4. QED
  BY <1>1, <1>3, FS_CountingElements, FS_NatBijection DEF n

LEMMA DocMatched ==
  ASSUME NEW h, Whole(h), NEW a \in LiveIn(h), NEW b \in LiveIn(h), NEW d
  PROVE  DocBy(d, h, a) = DocBy(d, h, b) <=> Matched(d, h, a, b)
<1> DEFINE Items(n) == IF h[n].type = "array" THEN [i \in DOMAIN h[n].items |-> d[h[n].items[i]]]
                       ELSE <<>>
           Members(n) == [name \in ToSet(h[n].names) |-> d[json_object_getn_value(h, n, name)]]
<1>1. \A n : DocBy(d, h, n) = [type |-> h[n].type, text |-> h[n].text, items |-> Items(n),
                               members |-> Members(n)]
  BY DEF DocBy
<1>2. \A n \in {a, b} :
        /\ h[n].items \in Seq(LiveIn(h)) /\ DOMAIN h[n].items = 1 .. Len(h[n].items)
        /\ h[n].names \in Seq(Seq(STRING)) /\ Distinct(h[n].names)
        /\ h[n].type = "object" => Len(h[n].names) = Len(h[n].items)
        /\ h[n].type # "object" => h[n].names = <<>>
        /\ h[n].type \notin {"array", "object"} => h[n].items = <<>>
  BY WholeFits
<1>3. DocBy(d, h, a) = DocBy(d, h, b) <=>
        /\ h[a].type = h[b].type /\ h[a].text = h[b].text
        /\ Items(a) = Items(b) /\ Members(a) = Members(b)
  <2> HIDE DEF Items, Members
  <2>1. QED
    BY <1>1
<1>4. Members(a) = Members(b) <=>
        /\ ToSet(h[a].names) = ToSet(h[b].names)
        /\ \A name \in ToSet(h[a].names) :
              d[json_object_getn_value(h, a, name)] = d[json_object_getn_value(h, b, name)]
  <2>1. DOMAIN Members(a) = ToSet(h[a].names) /\ DOMAIN Members(b) = ToSet(h[b].names)
    OBVIOUS
  <2>2. Members(a) = Members(b) => ToSet(h[a].names) = ToSet(h[b].names)
    <3> HIDE DEF Members
    <3>1. QED
      BY <2>1
  <2>3. ASSUME ToSet(h[a].names) = ToSet(h[b].names)
        PROVE  Members(a) = Members(b) <=>
                 \A name \in ToSet(h[a].names) :
                    d[json_object_getn_value(h, a, name)] = d[json_object_getn_value(h, b, name)]
    BY <2>3
  <2>4. QED
    BY <2>2, <2>3
<1>5. ASSUME h[a].type = "array", h[b].type = "array"
      PROVE  Items(a) = Items(b) <=>
               /\ Len(h[a].items) = Len(h[b].items)
               /\ \A i \in 1 .. Len(h[a].items) : d[h[a].items[i]] = d[h[b].items[i]]
  <2>1. \A n \in {a, b} : Items(n) = [i \in 1 .. Len(h[n].items) |-> d[h[n].items[i]]]
    BY <1>2, <1>5
  <2>2. Items(a) = Items(b) => Len(h[a].items) = Len(h[b].items)
    <3>1. Len(Items(a)) = Len(h[a].items) /\ Len(Items(b)) = Len(h[b].items)
      BY <1>2, <2>1
    <3> HIDE DEF Items
    <3>2. QED
      BY <3>1
  <2>3. ASSUME Len(h[a].items) = Len(h[b].items)
        PROVE  Items(a) = Items(b) <=>
                 \A i \in 1 .. Len(h[a].items) : d[h[a].items[i]] = d[h[b].items[i]]
    <3>1. /\ Items(a) = [i \in 1 .. Len(h[a].items) |-> d[h[a].items[i]]]
          /\ Items(b) = [i \in 1 .. Len(h[a].items) |-> d[h[b].items[i]]]
      BY <2>1, <2>3
    <3> HIDE DEF Items
    <3>2. QED
      BY <3>1
  <2> HIDE DEF Items
  <2>4. QED
    BY <2>2, <2>3
<1>6. ASSUME h[a].type = h[b].type, h[a].type # "array"
      PROVE  Items(a) = Items(b)
  BY <1>6
<1>7. ASSUME h[a].type = h[b].type, h[a].type = "object", ToSet(h[a].names) = ToSet(h[b].names)
      PROVE  Len(h[a].items) = Len(h[b].items)
  <2>1. /\ Cardinality(ToSet(h[a].names)) = Len(h[a].names)
        /\ Cardinality(ToSet(h[b].names)) = Len(h[b].names)
    BY <1>2, AsManyNames
  <2>2. QED
    BY <1>2, <1>7, <2>1
<1>8. ASSUME h[a].type = h[b].type, h[a].type \notin {"array", "object"}
      PROVE  Len(h[a].items) = Len(h[b].items) /\ ToSet(h[a].names) = ToSet(h[b].names)
             /\ ToSet(h[a].names) = {}
  BY <1>2, <1>8 DEF ToSet
<1>9. h[a].type = "array" /\ h[b].type = "array" => ToSet(h[a].names) = {} /\ ToSet(h[b].names) = {}
  BY <1>2 DEF ToSet
<1> HIDE DEF Items, Members
<1>10. CASE h[a].type = h[b].type /\ h[a].type = "array"
  BY <1>3, <1>4, <1>5, <1>9, <1>10 DEF Matched
<1>11. CASE h[a].type = h[b].type /\ h[a].type = "object"
  BY <1>3, <1>4, <1>6, <1>7, <1>11 DEF Matched
<1>12. CASE h[a].type = h[b].type /\ h[a].type \notin {"array", "object"}
  BY <1>3, <1>4, <1>6, <1>8, <1>12 DEF Matched
<1>13. CASE h[a].type # h[b].type
  BY <1>3, <1>13 DEF Matched
<1>14. QED
  BY <1>10, <1>11, <1>12, <1>13

\* f compares live values as d describes them.
Agrees(f, d, h) == \A x, y \in LiveIn(h) : f[<<x, y>>] <=> d[x] = d[y]

LEMMA EqualMatched ==
  ASSUME NEW h, Whole(h), NEW a \in LiveIn(h), NEW b \in LiveIn(h), NEW f, NEW d, Agrees(f, d, h)
  PROVE  EqualBy(f, h, a, b) <=> Matched(d, h, a, b)
<1> DEFINE n == Len(h[a].items)
           other(i) == Counterpart(h, a, i, b)
<1>1. \A x \in {a, b} :
        /\ h[x].items \in Seq(LiveIn(h)) /\ DOMAIN h[x].items = 1 .. Len(h[x].items)
        /\ h[x].names \in Seq(Seq(STRING)) /\ Distinct(h[x].names)
        /\ h[x].type = "object" => Len(h[x].names) = Len(h[x].items)
        /\ h[x].type \notin {"array", "object"} => h[x].items = <<>>
  BY WholeFits
<1>2. NULL \notin LiveIn(h)
  BY PointersAssumption DEF LiveIn
<1>3. EqualBy(f, h, a, b) <=>
        /\ h[a].type = h[b].type /\ h[a].text = h[b].text /\ n = Len(h[b].items)
        /\ \A i \in 1 .. n : other(i) # NULL /\ f[<<h[a].items[i], other(i)>>]
  BY <1>1 DEF EqualBy
<1>4. SUFFICES ASSUME h[a].type = h[b].type, h[a].text = h[b].text, n = Len(h[b].items)
               PROVE  (\A i \in 1 .. n : other(i) # NULL /\ f[<<h[a].items[i], other(i)>>])
                        <=> Matched(d, h, a, b)
  BY <1>3 DEF Matched
<1>5. CASE h[a].type = "object"
  <2>1. \A i \in 1 .. n : other(i) = json_object_getn_value(h, b, h[a].names[i])
    BY <1>5 DEF Counterpart
  <2>2. /\ \A i \in 1 .. n : /\ h[a].names[i] \in ToSet(h[a].names)
                            /\ json_object_getn_value(h, a, h[a].names[i]) = h[a].items[i]
        /\ \A name \in ToSet(h[a].names) : \E i \in 1 .. n : h[a].names[i] = name
    <3>1. \A i \in 1 .. n : /\ h[a].names[i] \in ToSet(h[a].names)
                            /\ json_object_getn_value(h, a, h[a].names[i]) = h[a].items[i]
      BY <1>5, MemberOf
    <3>2. \A name \in ToSet(h[a].names) : \E i \in 1 .. n : h[a].names[i] = name
      BY <1>5, MemberOf
    <3>3. QED
      BY <3>1, <3>2
  <2>3. /\ \A name \in ToSet(h[b].names) : /\ json_object_getn_value(h, b, name) \in LiveIn(h)
                                           /\ json_object_getn_value(h, b, name) # NULL
        /\ \A name : name \notin ToSet(h[b].names) => json_object_getn_value(h, b, name) = NULL
    <3>1. h[b].type = "object"
      BY <1>4, <1>5
    <3> HIDE DEF n, other
    <3>2. QED
      BY <3>1, MemberOf
  <2>4. \A i \in 1 .. n : h[a].items[i] \in LiveIn(h)
    BY <1>1
  <2> HIDE DEF other
  <2>5. ASSUME \A i \in 1 .. n : other(i) # NULL /\ f[<<h[a].items[i], other(i)>>]
        PROVE  Matched(d, h, a, b)
    <3>1. \A i \in 1 .. n : h[a].names[i] \in ToSet(h[b].names)
      BY <2>1, <2>3, <2>5
    <3>2. ToSet(h[a].names) \subseteq ToSet(h[b].names)
      BY <2>2, <3>1
    <3>3. ToSet(h[a].names) = ToSet(h[b].names)
      <4>1. /\ IsFiniteSet(ToSet(h[b].names))
            /\ Cardinality(ToSet(h[a].names)) = Len(h[a].names)
            /\ Cardinality(ToSet(h[b].names)) = Len(h[b].names)
        BY <1>1, AsManyNames
      <4>2. Cardinality(ToSet(h[a].names)) = Cardinality(ToSet(h[b].names))
        BY <1>1, <1>4, <1>5, <4>1
      <4>3. QED
        BY <3>2, <4>1, <4>2, FS_Subset
    <3>4. ASSUME NEW name \in ToSet(h[a].names)
          PROVE  d[json_object_getn_value(h, a, name)] = d[json_object_getn_value(h, b, name)]
      <4>1. PICK i \in 1 .. n : h[a].names[i] = name
        BY <2>2
      <4>2. /\ other(i) = json_object_getn_value(h, b, name)
            /\ json_object_getn_value(h, a, name) = h[a].items[i]
            /\ f[<<h[a].items[i], other(i)>>]
        BY <2>1, <2>2, <2>5, <4>1
      <4>3. h[a].items[i] \in LiveIn(h) /\ other(i) \in LiveIn(h)
        BY <2>3, <2>4, <3>1, <4>1, <4>2
      <4>4. QED
        BY <4>2, <4>3 DEF Agrees
    <3>5. QED
      BY <1>4, <1>5, <3>3, <3>4 DEF Matched
  <2>6. ASSUME Matched(d, h, a, b), NEW i \in 1 .. n
        PROVE  other(i) # NULL /\ f[<<h[a].items[i], other(i)>>]
    <3>1. h[a].names[i] \in ToSet(h[b].names) /\ h[a].names[i] \in ToSet(h[a].names)
      BY <1>5, <2>2, <2>6 DEF Matched
    <3>2. other(i) # NULL /\ other(i) \in LiveIn(h)
      BY <2>1, <2>3, <3>1
    <3>3. d[h[a].items[i]] = d[other(i)]
      BY <1>5, <2>1, <2>2, <2>6, <3>1 DEF Matched
    <3>4. QED
      BY <2>4, <3>2, <3>3 DEF Agrees
  <2>7. QED
    BY <2>5, <2>6
<1>6. CASE h[a].type # "object"
  <2>1. \A i \in 1 .. n : /\ other(i) = h[b].items[i] /\ other(i) \in LiveIn(h)
                          /\ h[a].items[i] \in LiveIn(h)
    BY <1>1, <1>4, <1>6 DEF Counterpart
  <2>2. h[a].type # "array" => n = 0
    BY <1>1, <1>6
  <2> HIDE DEF other
  <2>3. \A i \in 1 .. n : (other(i) # NULL /\ f[<<h[a].items[i], other(i)>>])
                            <=> d[h[a].items[i]] = d[h[b].items[i]]
    BY <1>2, <2>1 DEF Agrees
  <2>4. Matched(d, h, a, b) <=> \A i \in 1 .. n : d[h[a].items[i]] = d[h[b].items[i]]
    BY <1>4, <1>6, <2>2 DEF Matched
  <2>5. QED
    BY <2>3, <2>4
<1>7. QED
  BY <1>5, <1>6

\* v does not tell values apart that d describes alike.
Respects(v, d, h) ==
    \A x, y, z \in LiveIn(h) :
        d[x] = d[y] => (v[<<x, z>>] => v[<<y, z>>]) /\ (v[<<z, x>>] => v[<<z, y>>])

LEMMA Respected ==
  ASSUME NEW h, NEW v, NEW d, Respects(v, d, h), NEW x \in LiveIn(h), NEW y \in LiveIn(h),
         NEW z \in LiveIn(h), d[x] = d[y]
  PROVE  (v[<<x, z>>] => v[<<y, z>>]) /\ (v[<<z, x>>] => v[<<z, y>>])
BY DEF Respects

\* Of two values that match, each is as good a schema as the other.
LEMMA SchemaMatched ==
  ASSUME NEW h, Whole(h), NEW a \in LiveIn(h), NEW b \in LiveIn(h), NEW c \in LiveIn(h),
         NEW v, NEW d, Respects(v, d, h), Matched(d, h, a, b), ValidBy(v, h, a, c)
  PROVE  ValidBy(v, h, b, c)
<1>1. \A x \in {a, b, c} :
        /\ h[x].items \in Seq(LiveIn(h)) /\ DOMAIN h[x].items = 1 .. Len(h[x].items)
        /\ (h[x].items = <<>> <=> Len(h[x].items) = 0)
  BY WholeFits
<1>2. h[a].type = h[b].type /\ Len(h[a].items) = Len(h[b].items)
  BY DEF Matched
<1>3. SUFFICES ASSUME h[a].type # "null" PROVE ValidBy(v, h, b, c)
  BY <1>2 DEF ValidBy
<1>4. h[b].type = h[c].type
  BY <1>2, <1>3 DEF ValidBy
<1>5. ASSUME h[b].type = "array", h[b].items # <<>>, NEW i \in DOMAIN h[c].items
      PROVE  v[<<h[b].items[1], h[c].items[i]>>]
  <2>1. h[a].items # <<>> /\ 1 \in 1 .. Len(h[a].items)
    BY <1>1, <1>2, <1>5
  <2>2. v[<<h[a].items[1], h[c].items[i]>>]
    BY <1>2, <1>3, <1>5, <2>1 DEF ValidBy
  <2>3. d[h[a].items[1]] = d[h[b].items[1]]
    BY <1>2, <1>5, <2>1 DEF Matched
  <2>4. h[a].items[1] \in LiveIn(h) /\ h[b].items[1] \in LiveIn(h) /\ h[c].items[i] \in LiveIn(h)
    BY <1>1, <1>2, <1>5, <2>1
  <2> DEFINE x == h[a].items[1]
             y == h[b].items[1]
             z == h[c].items[i]
  <2>5. x \in LiveIn(h) /\ y \in LiveIn(h) /\ z \in LiveIn(h) /\ d[x] = d[y] /\ v[<<x, z>>]
    BY <2>2, <2>3, <2>4
  <2> HIDE DEF x, y, z
  <2>6. v[<<y, z>>]
    BY <2>5, Respected
  <2>7. QED
    BY <2>6 DEF y, z
<1>6. ASSUME h[b].type = "object", NEW i \in DOMAIN h[b].items
      PROVE  /\ json_object_getn_value(h, c, h[b].names[i]) # NULL
             /\ v[<<h[b].items[i], json_object_getn_value(h, c, h[b].names[i])>>]
  <2> DEFINE name == h[b].names[i]
             member == json_object_getn_value(h, c, name)
  <2>1. /\ name \in ToSet(h[b].names) /\ json_object_getn_value(h, b, name) = h[b].items[i]
        /\ i \in 1 .. Len(h[b].items)
    BY <1>1, <1>6, MemberOf
  <2>2. name \in ToSet(h[a].names)
    BY <1>2, <1>6, <2>1 DEF Matched
  <2>3. d[json_object_getn_value(h, a, name)] = d[json_object_getn_value(h, b, name)]
    BY <1>2, <1>6, <2>2 DEF Matched
  <2> HIDE DEF name
  <2>4. PICK j \in 1 .. Len(h[a].items) : h[a].names[j] = name
    <3>1. h[a].type = "object"
      BY <1>2, <1>6
    <3>2. QED
      BY <2>2, <3>1, MemberOf
  <2>5. json_object_getn_value(h, a, name) = h[a].items[j]
    <3>1. h[a].type = "object"
      BY <1>2, <1>6
    <3>2. json_object_getn_value(h, a, h[a].names[j]) = h[a].items[j]
      BY <3>1, MemberOf
    <3>3. QED
      BY <2>4, <3>2
  <2>6. member # NULL /\ v[<<h[a].items[j], member>>]
    BY <1>1, <1>2, <1>3, <1>6, <2>4 DEF ValidBy
  <2>7. member \in LiveIn(h)
    BY <1>4, <1>6, <2>6, MemberOf
  <2>8. h[a].items[j] \in LiveIn(h) /\ h[b].items[i] \in LiveIn(h)
    BY <1>1, <2>1, <2>4
  <2> DEFINE x == h[a].items[j]
             y == h[b].items[i]
  <2> HIDE DEF member
  <2>9. x \in LiveIn(h) /\ y \in LiveIn(h) /\ d[x] = d[y] /\ v[<<x, member>>]
    BY <2>1, <2>3, <2>5, <2>6, <2>8
  <2> HIDE DEF x, y
  <2>10. v[<<y, member>>]
    BY <2>7, <2>9, Respected
  <2>11. QED
    BY <2>6, <2>10 DEF member, name, y
<1>7. QED
  BY <1>4, <1>5, <1>6 DEF ValidBy

\* And what one of them can be, the other can.
LEMMA ValueMatched ==
  ASSUME NEW h, Whole(h), NEW a \in LiveIn(h), NEW b \in LiveIn(h), NEW c \in LiveIn(h),
         NEW v, NEW d, Respects(v, d, h), Matched(d, h, a, b), ValidBy(v, h, c, a)
  PROVE  ValidBy(v, h, c, b)
<1>1. \A x \in {a, b, c} :
        h[x].items \in Seq(LiveIn(h)) /\ DOMAIN h[x].items = 1 .. Len(h[x].items)
  BY WholeFits
<1>2. h[a].type = h[b].type /\ Len(h[a].items) = Len(h[b].items)
  BY DEF Matched
<1>3. SUFFICES ASSUME h[c].type # "null" PROVE ValidBy(v, h, c, b)
  BY DEF ValidBy
<1>4. h[c].type = h[b].type
  BY <1>2, <1>3 DEF ValidBy
<1>5. ASSUME h[c].type = "array", h[c].items # <<>>, NEW i \in DOMAIN h[b].items
      PROVE  v[<<h[c].items[1], h[b].items[i]>>]
  <2>1. 1 \in 1 .. Len(h[c].items) /\ i \in 1 .. Len(h[a].items) /\ i \in DOMAIN h[a].items
    BY <1>1, <1>2, <1>5
  <2>2. v[<<h[c].items[1], h[a].items[i]>>]
    BY <1>3, <1>5, <2>1 DEF ValidBy
  <2>3. d[h[a].items[i]] = d[h[b].items[i]]
    BY <1>2, <1>4, <1>5, <2>1 DEF Matched
  <2>4. h[c].items[1] \in LiveIn(h) /\ h[a].items[i] \in LiveIn(h) /\ h[b].items[i] \in LiveIn(h)
    BY <1>1, <1>5, <2>1
  <2> DEFINE x == h[a].items[i]
             y == h[b].items[i]
             z == h[c].items[1]
  <2>5. x \in LiveIn(h) /\ y \in LiveIn(h) /\ z \in LiveIn(h) /\ d[x] = d[y] /\ v[<<z, x>>]
    BY <2>2, <2>3, <2>4
  <2> HIDE DEF x, y, z
  <2>6. v[<<z, y>>]
    BY <2>5, Respected
  <2>7. QED
    BY <2>6 DEF y, z
<1>6. ASSUME h[c].type = "object", NEW i \in DOMAIN h[c].items
      PROVE  /\ json_object_getn_value(h, b, h[c].names[i]) # NULL
             /\ v[<<h[c].items[i], json_object_getn_value(h, b, h[c].names[i])>>]
  <2> DEFINE name == h[c].names[i]
             inA == json_object_getn_value(h, a, name)
             inB == json_object_getn_value(h, b, name)
  <2>1. inA # NULL /\ v[<<h[c].items[i], inA>>]
    BY <1>3, <1>6 DEF ValidBy
  <2>2. h[a].type = "object" /\ h[b].type = "object"
    BY <1>2, <1>4, <1>6
  <2> HIDE DEF name
  <2>3. name \in ToSet(h[a].names) /\ inA \in LiveIn(h)
    BY <2>1, <2>2, MemberOf
  <2>4. name \in ToSet(h[b].names) /\ d[inA] = d[inB]
    BY <2>2, <2>3 DEF Matched
  <2>5. inB \in LiveIn(h) /\ inB # NULL
    BY <2>2, <2>4, MemberOf
  <2>6. h[c].items[i] \in LiveIn(h)
    BY <1>1, <1>6
  <2> DEFINE z == h[c].items[i]
  <2> HIDE DEF inA, inB
  <2>7. z \in LiveIn(h) /\ v[<<z, inA>>]
    BY <2>1, <2>6
  <2> HIDE DEF z
  <2>8. v[<<z, inB>>]
    BY <2>3, <2>4, <2>5, <2>7, Respected
  <2>9. QED
    BY <2>5, <2>8 DEF inB, name, z
<1>7. QED
  BY <1>4, <1>5, <1>6 DEF ValidBy

Comparing(equal, h, n) ==
    \A k \in 0 .. n : equal[k] = [p \in Nodes \X Nodes |-> k = 0 \/ EqualBy(equal[k - 1], h, p[1], p[2])]

LEMMA EqualsParts ==
  ASSUME NEW h, Cardinality(Nodes) \in Nat
  PROVE  \E equal : /\ Comparing(equal, h, Cardinality(Nodes))
                   /\ \A a, b : json_value_equals(h, a, b) = equal[Cardinality(Nodes)][<<a, b>>]
<1> DEFINE n == Cardinality(Nodes)
           Step(g, k) ==
             [p \in Nodes \X Nodes |-> k = 0 \/ EqualBy(g[k - 1], h, p[1], p[2])]
           UpTo(g, q) == g = [k \in 0 .. q |-> Step(g, k)]
           equal == CHOOSE g : UpTo(g, n)
           to == {q \in Nat : \E g : UpTo(g, q)}
<1>1. n \in Nat /\ 0 \in 0 .. n
  OBVIOUS
<1>2. \A a, b : json_value_equals(h, a, b) = equal[n][<<a, b>>]
  BY Zenon DEF json_value_equals
<1>3. to = Nat
  <2>1. 0 \in to
    <3> DEFINE e == [k \in 0 .. 0 |-> Step(<<>>, 0)]
    <3>1. Step(e, 0) = Step(<<>>, 0)
      OBVIOUS
    <3> HIDE DEF Step
    <3>2. e[0] = Step(e, 0)
      BY <3>1
    <3>3. e = [k \in 0 .. 0 |-> Step(e, k)]
      BY <3>2
    <3>4. UpTo(e, 0)
      BY <3>3
    <3>5. QED
      BY <3>4
  <2>2. ASSUME NEW q \in to PROVE q + 1 \in to
    <3>1. PICK e : UpTo(e, q)
      OBVIOUS
    <3> DEFINE g == [k \in 0 .. q + 1 |-> IF k = q + 1 THEN Step(e, q + 1) ELSE e[k]]
    <3>2. q \in Nat /\ q + 1 \in Nat /\ q + 1 \in 0 .. q + 1
          /\ (\A k \in 0 .. q + 1 : k # q + 1 => k \in 0 .. q)
          /\ (\A k \in 0 .. q : k \in 0 .. q + 1 /\ k # q + 1)
          /\ (\A k \in 0 .. q + 1 : k # 0 => k - 1 \in 0 .. q)
      OBVIOUS
    <3>3. \A k \in 0 .. q : e[k] = Step(e, k)
      BY <3>1
    <3> HIDE DEF Step
    <3>4. (\A k \in 0 .. q : g[k] = e[k]) /\ g[q + 1] = Step(e, q + 1)
      BY <3>2
    <3>5. g = [k \in 0 .. q + 1 |-> g[k]]
      OBVIOUS
    <3> HIDE DEF g
    <3>6. \A k \in 0 .. q + 1 : Step(g, k) = Step(e, k)
      <4>1. SUFFICES ASSUME NEW k \in 0 .. q + 1 PROVE Step(g, k) = Step(e, k)
        OBVIOUS
      <4>2. k # 0 => g[k - 1] = e[k - 1]
        BY <3>2, <3>4
      <4>3. CASE k = 0
        BY <4>3 DEF Step
      <4>4. CASE k # 0
        BY <4>2, <4>4 DEF Step
      <4>5. QED
        BY <4>3, <4>4
    <3>7. \A k \in 0 .. q + 1 : g[k] = Step(g, k)
      BY <3>2, <3>3, <3>4, <3>6
    <3>8. UpTo(g, q + 1)
      BY <3>5, <3>7
    <3> HIDE DEF UpTo
    <3>9. QED
      BY <3>2, <3>8
  <2>3. to \in SUBSET Nat
    OBVIOUS
  <2> HIDE DEF to
  <2>4. QED
    BY <2>1, <2>2, <2>3, SetInduction
<1>4. UpTo(equal, n)
  <2>1. \E g : UpTo(g, n)
    BY <1>1, <1>3
  <2> HIDE DEF UpTo
  <2>2. QED
    BY <2>1
<1> HIDE DEF equal
<1>5. Comparing(equal, h, n)
  <2>1. \A k \in 0 .. n : equal[k] = Step(equal, k)
    BY <1>4
  <2>2. QED
    BY <2>1 DEF Comparing
<1>6. QED
  BY <1>2, <1>5

Validating(valid, h, n) ==
    \A k \in 0 .. n : valid[k] = [p \in Nodes \X Nodes |-> k = 0 \/ ValidBy(valid[k - 1], h, p[1], p[2])]

LEMMA ValidParts ==
  ASSUME NEW h, Cardinality(Nodes) \in Nat
  PROVE  \E valid : /\ Validating(valid, h, Cardinality(Nodes))
                   /\ \A a, b : json_validate(h, a, b) = valid[Cardinality(Nodes)][<<a, b>>]
<1> DEFINE n == Cardinality(Nodes)
           Step(g, k) ==
             [p \in Nodes \X Nodes |-> k = 0 \/ ValidBy(g[k - 1], h, p[1], p[2])]
           UpTo(g, q) == g = [k \in 0 .. q |-> Step(g, k)]
           valid == CHOOSE g : UpTo(g, n)
           to == {q \in Nat : \E g : UpTo(g, q)}
<1>1. n \in Nat /\ 0 \in 0 .. n
  OBVIOUS
<1>2. \A a, b : json_validate(h, a, b) = valid[n][<<a, b>>]
  BY Zenon DEF json_validate
<1>3. to = Nat
  <2>1. 0 \in to
    <3> DEFINE e == [k \in 0 .. 0 |-> Step(<<>>, 0)]
    <3>1. Step(e, 0) = Step(<<>>, 0)
      OBVIOUS
    <3> HIDE DEF Step
    <3>2. e[0] = Step(e, 0)
      BY <3>1
    <3>3. e = [k \in 0 .. 0 |-> Step(e, k)]
      BY <3>2
    <3>4. UpTo(e, 0)
      BY <3>3
    <3>5. QED
      BY <3>4
  <2>2. ASSUME NEW q \in to PROVE q + 1 \in to
    <3>1. PICK e : UpTo(e, q)
      OBVIOUS
    <3> DEFINE g == [k \in 0 .. q + 1 |-> IF k = q + 1 THEN Step(e, q + 1) ELSE e[k]]
    <3>2. q \in Nat /\ q + 1 \in Nat /\ q + 1 \in 0 .. q + 1
          /\ (\A k \in 0 .. q + 1 : k # q + 1 => k \in 0 .. q)
          /\ (\A k \in 0 .. q : k \in 0 .. q + 1 /\ k # q + 1)
          /\ (\A k \in 0 .. q + 1 : k # 0 => k - 1 \in 0 .. q)
      OBVIOUS
    <3>3. \A k \in 0 .. q : e[k] = Step(e, k)
      BY <3>1
    <3> HIDE DEF Step
    <3>4. (\A k \in 0 .. q : g[k] = e[k]) /\ g[q + 1] = Step(e, q + 1)
      BY <3>2
    <3>5. g = [k \in 0 .. q + 1 |-> g[k]]
      OBVIOUS
    <3> HIDE DEF g
    <3>6. \A k \in 0 .. q + 1 : Step(g, k) = Step(e, k)
      <4>1. SUFFICES ASSUME NEW k \in 0 .. q + 1 PROVE Step(g, k) = Step(e, k)
        OBVIOUS
      <4>2. k # 0 => g[k - 1] = e[k - 1]
        BY <3>2, <3>4
      <4>3. CASE k = 0
        BY <4>3 DEF Step
      <4>4. CASE k # 0
        BY <4>2, <4>4 DEF Step
      <4>5. QED
        BY <4>3, <4>4
    <3>7. \A k \in 0 .. q + 1 : g[k] = Step(g, k)
      BY <3>2, <3>3, <3>4, <3>6
    <3>8. UpTo(g, q + 1)
      BY <3>5, <3>7
    <3> HIDE DEF UpTo
    <3>9. QED
      BY <3>2, <3>8
  <2>3. to \in SUBSET Nat
    OBVIOUS
  <2> HIDE DEF to
  <2>4. QED
    BY <2>1, <2>2, <2>3, SetInduction
<1>4. UpTo(valid, n)
  <2>1. \E g : UpTo(g, n)
    BY <1>1, <1>3
  <2> HIDE DEF UpTo
  <2>2. QED
    BY <2>1
<1> HIDE DEF valid
<1>5. Validating(valid, h, n)
  <2>1. \A k \in 0 .. n : valid[k] = Step(valid, k)
    BY <1>4
  <2>2. QED
    BY <2>1 DEF Validating
<1>6. QED
  BY <1>2, <1>5

Describing(doc, h, n) ==
    \A k \in 0 .. n : doc[k] = [v \in Nodes |-> IF k = 0 THEN NULL ELSE DocBy(doc[k - 1], h, v)]

LEMMA DocParts ==
  ASSUME NEW h, Cardinality(Nodes) \in Nat
  PROVE  \E doc : /\ Describing(doc, h, Cardinality(Nodes))
                  /\ \A v : Doc(h, v) = doc[Cardinality(Nodes)][v]
<1> DEFINE n == Cardinality(Nodes)
           Step(g, k) ==
             [v \in Nodes |-> IF k = 0 THEN NULL ELSE DocBy(g[k - 1], h, v)]
           UpTo(g, q) == g = [k \in 0 .. q |-> Step(g, k)]
           doc == CHOOSE g : UpTo(g, n)
           to == {q \in Nat : \E g : UpTo(g, q)}
<1>1. n \in Nat /\ 0 \in 0 .. n
  OBVIOUS
<1>2. \A v : Doc(h, v) = doc[n][v]
  BY Zenon DEF Doc
<1>3. to = Nat
  <2>1. 0 \in to
    <3> DEFINE e == [k \in 0 .. 0 |-> Step(<<>>, 0)]
    <3>1. Step(e, 0) = Step(<<>>, 0)
      OBVIOUS
    <3> HIDE DEF Step
    <3>2. e[0] = Step(e, 0)
      BY <3>1
    <3>3. e = [k \in 0 .. 0 |-> Step(e, k)]
      BY <3>2
    <3>4. UpTo(e, 0)
      BY <3>3
    <3>5. QED
      BY <3>4
  <2>2. ASSUME NEW q \in to PROVE q + 1 \in to
    <3>1. PICK e : UpTo(e, q)
      OBVIOUS
    <3> DEFINE g == [k \in 0 .. q + 1 |-> IF k = q + 1 THEN Step(e, q + 1) ELSE e[k]]
    <3>2. q \in Nat /\ q + 1 \in Nat /\ q + 1 \in 0 .. q + 1
          /\ (\A k \in 0 .. q + 1 : k # q + 1 => k \in 0 .. q)
          /\ (\A k \in 0 .. q : k \in 0 .. q + 1 /\ k # q + 1)
          /\ (\A k \in 0 .. q + 1 : k # 0 => k - 1 \in 0 .. q)
      OBVIOUS
    <3>3. \A k \in 0 .. q : e[k] = Step(e, k)
      BY <3>1
    <3> HIDE DEF Step
    <3>4. (\A k \in 0 .. q : g[k] = e[k]) /\ g[q + 1] = Step(e, q + 1)
      BY <3>2
    <3>5. g = [k \in 0 .. q + 1 |-> g[k]]
      OBVIOUS
    <3> HIDE DEF g
    <3>6. \A k \in 0 .. q + 1 : Step(g, k) = Step(e, k)
      <4>1. SUFFICES ASSUME NEW k \in 0 .. q + 1 PROVE Step(g, k) = Step(e, k)
        OBVIOUS
      <4>2. k # 0 => g[k - 1] = e[k - 1]
        BY <3>2, <3>4
      <4>3. CASE k = 0
        BY <4>3 DEF Step
      <4>4. CASE k # 0
        BY <4>2, <4>4 DEF Step
      <4>5. QED
        BY <4>3, <4>4
    <3>7. \A k \in 0 .. q + 1 : g[k] = Step(g, k)
      BY <3>2, <3>3, <3>4, <3>6
    <3>8. UpTo(g, q + 1)
      BY <3>5, <3>7
    <3> HIDE DEF UpTo
    <3>9. QED
      BY <3>2, <3>8
  <2>3. to \in SUBSET Nat
    OBVIOUS
  <2> HIDE DEF to
  <2>4. QED
    BY <2>1, <2>2, <2>3, SetInduction
<1>4. UpTo(doc, n)
  <2>1. \E g : UpTo(g, n)
    BY <1>1, <1>3
  <2> HIDE DEF UpTo
  <2>2. QED
    BY <2>1
<1> HIDE DEF doc
<1>5. Describing(doc, h, n)
  <2>1. \A k \in 0 .. n : doc[k] = Step(doc, k)
    BY <1>4
  <2>2. QED
    BY <2>1 DEF Describing
<1>6. QED
  BY <1>2, <1>5

\* At every level the comparison agrees with the documents.
LEMMA Compared ==
  ASSUME NEW h, Whole(h), NEW a \in LiveIn(h), NEW b \in LiveIn(h)
  PROVE  json_value_equals(h, a, b) = (Doc(h, a) = Doc(h, b))
<1> DEFINE n == Cardinality(Nodes)
<1>1. n \in Nat
  BY NodesAssumption, FS_CardinalityType
<1>2. PICK equal : /\ Comparing(equal, h, n)
                   /\ \A x, y : json_value_equals(h, x, y) = equal[n][<<x, y>>]
  BY <1>1, EqualsParts
<1>3. PICK doc : Describing(doc, h, n) /\ \A x : Doc(h, x) = doc[n][x]
  BY <1>1, DocParts
<1> HIDE DEF n
<1>4. ASSUME NEW k \in 0 .. n, NEW x \in LiveIn(h), NEW y \in LiveIn(h)
      PROVE  /\ equal[k][<<x, y>>] \in BOOLEAN
             /\ equal[k][<<x, y>>] <=> k = 0 \/ EqualBy(equal[k - 1], h, x, y)
             /\ doc[k][x] = IF k = 0 THEN NULL ELSE DocBy(doc[k - 1], h, x)
  <2>1. x \in Nodes /\ y \in Nodes
    BY DEF LiveIn
  <2>2. equal[k] = [p \in Nodes \X Nodes |-> k = 0 \/ EqualBy(equal[k - 1], h, p[1], p[2])]
    BY <1>2 DEF Comparing
  <2>3. <<x, y>> \in Nodes \X Nodes /\ <<x, y>>[1] = x /\ <<x, y>>[2] = y
    BY <2>1
  <2>4. /\ equal[k][<<x, y>>] \in BOOLEAN
        /\ equal[k][<<x, y>>] <=> k = 0 \/ EqualBy(equal[k - 1], h, x, y)
    BY <2>2, <2>3
  <2>5. doc[k] = [v \in Nodes |-> IF k = 0 THEN NULL ELSE DocBy(doc[k - 1], h, v)]
    BY <1>3 DEF Describing
  <2>6. QED
    BY <2>1, <2>4, <2>5
<1> DEFINE to == {k \in Nat : k <= n => Agrees(equal[k], doc[k], h)}
<1>5. 0 \in to
  <2>1. 0 \in 0 .. n
    BY <1>1
  <2>2. \A x, y \in LiveIn(h) : equal[0][<<x, y>>] /\ doc[0][x] = NULL
    BY <1>4, <2>1
  <2>3. Agrees(equal[0], doc[0], h)
    BY <2>2 DEF Agrees
  <2>4. QED
    BY <2>3
<1>6. ASSUME NEW k \in to PROVE k + 1 \in to
  <2>1. k \in Nat /\ k + 1 \in Nat
    OBVIOUS
  <2>2. SUFFICES ASSUME k + 1 <= n PROVE Agrees(equal[k + 1], doc[k + 1], h)
    BY <2>1
  <2>3. k <= n /\ k + 1 \in 0 .. n /\ (k + 1) - 1 = k /\ k + 1 # 0
    BY <1>1, <2>1, <2>2
  <2>4. Agrees(equal[k], doc[k], h)
    BY <2>3
  <2>5. ASSUME NEW x \in LiveIn(h), NEW y \in LiveIn(h)
        PROVE  equal[k + 1][<<x, y>>] <=> doc[k + 1][x] = doc[k + 1][y]
    <3>1. /\ equal[k + 1][<<x, y>>] <=> EqualBy(equal[k], h, x, y)
          /\ doc[k + 1][x] = DocBy(doc[k], h, x) /\ doc[k + 1][y] = DocBy(doc[k], h, y)
      BY <1>4, <2>3
    <3>2. EqualBy(equal[k], h, x, y) <=> Matched(doc[k], h, x, y)
      BY <2>4, EqualMatched
    <3>3. DocBy(doc[k], h, x) = DocBy(doc[k], h, y) <=> Matched(doc[k], h, x, y)
      BY DocMatched
    <3>4. QED
      BY <3>1, <3>2, <3>3
  <2>6. QED
    BY <2>5 DEF Agrees
<1>7. to \in SUBSET Nat
  OBVIOUS
<1>8. n \in to
  <2> HIDE DEF to
  <2>1. to = Nat
    BY <1>5, <1>6, <1>7, SetInduction
  <2>2. QED
    BY <1>1, <2>1
<1>9. Agrees(equal[n], doc[n], h) /\ n \in 0 .. n
  BY <1>1, <1>8
<1>10. equal[n][<<a, b>>] <=> doc[n][a] = doc[n][b]
  BY <1>9 DEF Agrees
<1>11. equal[n][<<a, b>>] \in BOOLEAN
  BY <1>4, <1>9
<1>12. QED
  BY <1>2, <1>3, <1>10, <1>11

\* At every level validation respects the documents.
LEMMA Validated ==
  ASSUME NEW h, Whole(h), NEW a \in LiveIn(h), NEW b \in LiveIn(h), NEW c \in LiveIn(h),
         Doc(h, a) = Doc(h, b)
  PROVE  /\ json_validate(h, a, c) = json_validate(h, b, c)
         /\ json_validate(h, c, a) = json_validate(h, c, b)
<1> DEFINE n == Cardinality(Nodes)
<1>1. n \in Nat
  BY NodesAssumption, FS_CardinalityType
<1>2. PICK valid : /\ Validating(valid, h, n)
                   /\ \A x, y : json_validate(h, x, y) = valid[n][<<x, y>>]
  BY <1>1, ValidParts
<1>3. PICK doc : Describing(doc, h, n) /\ \A x : Doc(h, x) = doc[n][x]
  BY <1>1, DocParts
<1> HIDE DEF n
<1>4. ASSUME NEW k \in 0 .. n, NEW x \in LiveIn(h), NEW y \in LiveIn(h)
      PROVE  /\ valid[k][<<x, y>>] \in BOOLEAN
             /\ valid[k][<<x, y>>] <=> k = 0 \/ ValidBy(valid[k - 1], h, x, y)
             /\ doc[k][x] = IF k = 0 THEN NULL ELSE DocBy(doc[k - 1], h, x)
  <2>1. x \in Nodes /\ y \in Nodes
    BY DEF LiveIn
  <2>2. valid[k] = [p \in Nodes \X Nodes |-> k = 0 \/ ValidBy(valid[k - 1], h, p[1], p[2])]
    BY <1>2 DEF Validating
  <2>3. <<x, y>> \in Nodes \X Nodes /\ <<x, y>>[1] = x /\ <<x, y>>[2] = y
    BY <2>1
  <2>4. /\ valid[k][<<x, y>>] \in BOOLEAN
        /\ valid[k][<<x, y>>] <=> k = 0 \/ ValidBy(valid[k - 1], h, x, y)
    BY <2>2, <2>3
  <2>5. doc[k] = [v \in Nodes |-> IF k = 0 THEN NULL ELSE DocBy(doc[k - 1], h, v)]
    BY <1>3 DEF Describing
  <2>6. QED
    BY <2>1, <2>4, <2>5
<1> DEFINE to == {k \in Nat : k <= n => Respects(valid[k], doc[k], h)}
<1>5. 0 \in to
  <2>1. 0 \in 0 .. n
    BY <1>1
  <2>2. \A x, y \in LiveIn(h) : valid[0][<<x, y>>]
    BY <1>4, <2>1
  <2>3. Respects(valid[0], doc[0], h)
    BY <2>2 DEF Respects
  <2>4. QED
    BY <2>3
<1>6. ASSUME NEW k \in to PROVE k + 1 \in to
  <2>1. k \in Nat /\ k + 1 \in Nat
    OBVIOUS
  <2>2. SUFFICES ASSUME k + 1 <= n PROVE Respects(valid[k + 1], doc[k + 1], h)
    BY <2>1
  <2>3. k <= n /\ k + 1 \in 0 .. n /\ (k + 1) - 1 = k /\ k + 1 # 0
    BY <1>1, <2>1, <2>2
  <2>4. Respects(valid[k], doc[k], h)
    BY <2>3
  <2>5. ASSUME NEW x \in LiveIn(h), NEW y \in LiveIn(h), NEW z \in LiveIn(h),
               doc[k + 1][x] = doc[k + 1][y]
        PROVE  /\ valid[k + 1][<<x, z>>] => valid[k + 1][<<y, z>>]
               /\ valid[k + 1][<<z, x>>] => valid[k + 1][<<z, y>>]
    <3>1. \A p, q \in LiveIn(h) : valid[k + 1][<<p, q>>] <=> ValidBy(valid[k], h, p, q)
      BY <1>4, <2>3
    <3>2. doc[k + 1][x] = DocBy(doc[k], h, x) /\ doc[k + 1][y] = DocBy(doc[k], h, y)
      BY <1>4, <2>3
    <3>3. Matched(doc[k], h, x, y)
      BY <2>5, <3>2, DocMatched
    <3>4. ValidBy(valid[k], h, x, z) => ValidBy(valid[k], h, y, z)
      BY <2>4, <3>3, SchemaMatched
    <3>5. ValidBy(valid[k], h, z, x) => ValidBy(valid[k], h, z, y)
      BY <2>4, <3>3, ValueMatched
    <3>6. QED
      BY <3>1, <3>4, <3>5
  <2>6. QED
    BY <2>5 DEF Respects
<1>7. to \in SUBSET Nat
  OBVIOUS
<1>8. n \in to
  <2> HIDE DEF to
  <2>1. to = Nat
    BY <1>5, <1>6, <1>7, SetInduction
  <2>2. QED
    BY <1>1, <2>1
<1>9. Respects(valid[n], doc[n], h) /\ n \in 0 .. n
  BY <1>1, <1>8
<1>10. doc[n][a] = doc[n][b]
  BY <1>3
<1>11. /\ valid[n][<<a, c>>] <=> valid[n][<<b, c>>]
       /\ valid[n][<<c, a>>] <=> valid[n][<<c, b>>]
  <2>1. /\ valid[n][<<a, c>>] => valid[n][<<b, c>>]
        /\ valid[n][<<c, a>>] => valid[n][<<c, b>>]
    BY <1>9, <1>10, Respected
  <2>2. /\ valid[n][<<b, c>>] => valid[n][<<a, c>>]
        /\ valid[n][<<c, b>>] => valid[n][<<c, a>>]
    BY <1>9, <1>10, Respected
  <2>3. QED
    BY <2>1, <2>2
<1>12. \A x, y \in LiveIn(h) : valid[n][<<x, y>>] \in BOOLEAN
  BY <1>4, <1>9
<1>13. QED
  BY <1>2, <1>11, <1>12

\* Values whose items are described alike at every level are the same document.
LEMMA SameDoc ==
  ASSUME NEW h, Whole(h), NEW a \in LiveIn(h), NEW b \in LiveIn(h), \A d : Matched(d, h, a, b)
  PROVE  Doc(h, a) = Doc(h, b)
<1> DEFINE n == Cardinality(Nodes)
<1>1. n \in Nat
  BY NodesAssumption, FS_CardinalityType
<1>2. PICK doc : Describing(doc, h, n) /\ \A x : Doc(h, x) = doc[n][x]
  BY <1>1, DocParts
<1> HIDE DEF n
<1>3. \A x \in LiveIn(h) : doc[n][x] = IF n = 0 THEN NULL ELSE DocBy(doc[n - 1], h, x)
  <2>1. doc[n] = [v \in Nodes |-> IF n = 0 THEN NULL ELSE DocBy(doc[n - 1], h, v)]
    BY <1>1, <1>2 DEF Describing
  <2>2. QED
    BY <2>1 DEF LiveIn
<1> DEFINE d == doc[n - 1]
<1>4. DocBy(d, h, a) = DocBy(d, h, b)
  <2>1. Matched(d, h, a, b)
    OBVIOUS
  <2> HIDE DEF d
  <2>2. QED
    BY <2>1, DocMatched
<1>5. QED
  BY <1>2, <1>3, <1>4

LEMMA Reversed ==
  ASSUME NEW S, NEW s \in Seq(S)
  PROVE  /\ Reverse(s) \in Seq(S) /\ Len(Reverse(s)) = Len(s)
         /\ \A i \in 1 .. Len(s) : /\ Len(s) - i + 1 \in 1 .. Len(s)
                                   /\ Reverse(s)[i] = s[Len(s) - i + 1]
                                   /\ Reverse(s)[Len(s) - i + 1] = s[i]
         /\ ToSet(Reverse(s)) = ToSet(s)
         /\ Distinct(s) => Distinct(Reverse(s))
<1> DEFINE n == Len(s)
           r == Reverse(s)
<1>1. n \in Nat /\ DOMAIN s = 1 .. n /\ \A i \in 1 .. n : s[i] \in S
  OBVIOUS
<1>2. r = [i \in 1 .. n |-> s[(n - i) + 1]]
  BY DEF Reverse
<1> HIDE DEF n, r
<1>3. \A i \in 1 .. n : n - i + 1 \in 1 .. n /\ n - (n - i + 1) + 1 = i
  BY <1>1
<1>4. r \in Seq(S) /\ Len(r) = n /\ DOMAIN r = 1 .. n
  BY <1>1, <1>2, <1>3
<1>5. \A i \in 1 .. n : r[i] = s[n - i + 1] /\ r[n - i + 1] = s[i]
  BY <1>2, <1>3
<1>6. ToSet(r) = ToSet(s)
  BY <1>1, <1>3, <1>4, <1>5 DEF ToSet
<1>7. ASSUME Distinct(s), NEW i \in 1 .. n, NEW j \in 1 .. n, r[i] = r[j] PROVE i = j
  <2>1. n - i + 1 = n - j + 1
    BY <1>1, <1>3, <1>5, <1>7 DEF Distinct
  <2>2. QED
    BY <1>1, <2>1
<1>8. Distinct(s) => Distinct(r)
  BY <1>4, <1>7 DEF Distinct
<1>9. QED
  BY <1>3, <1>4, <1>5, <1>6, <1>8 DEF n, r

LEMMA MirroredHeap ==
  ASSUME Whole(heap), NEW o \in LiveIn(heap), heap[o].type = "object", NEW v \in Nodes \ LiveIn(heap)
  PROVE  LET g == Mirrored(v, o)
         IN  /\ Whole(g) /\ o \in LiveIn(g) /\ v \in LiveIn(g) /\ g[o] = heap[o]
             /\ g[v].type = g[o].type /\ g[v].text = g[o].text
             /\ g[v].names = Reverse(g[o].names) /\ g[v].items = Reverse(g[o].items)
<1> DEFINE old == heap[o]
           names == Reverse(old.names)
           items == Reverse(old.items)
           cell == [type |-> old.type, parent |-> old.parent, names |-> names,
                    items |-> items, text |-> old.text]
           g == [heap EXCEPT ![v] = cell]
<1>1. /\ o \in Nodes /\ v \in Nodes /\ o # v /\ old \in Cells /\ heap \in Heaps
      /\ old # FREE
  BY SoundFits DEF Whole, Sound, LiveIn
<1>2. /\ old.items \in Seq(LiveIn(heap)) /\ old.names \in Seq(Seq(STRING))
      /\ Distinct(old.names) /\ Len(old.names) = Len(old.items)
      /\ old.items \in Seq(Nodes) /\ Distinct(old.items) /\ Kids(heap, o) = ToSet(old.items)
  BY WholeFits, SoundFits DEF Whole, Fits
<1>3. /\ names \in Seq(Seq(STRING)) /\ Distinct(names) /\ items \in Seq(Nodes) /\ Distinct(items)
      /\ Len(names) = Len(items) /\ ToSet(items) = Kids(heap, o)
  BY <1>2, Reversed
<1>4. Mirrored(v, o) = g
  <2>1. [old EXCEPT !.names = Reverse(@), !.items = Reverse(@)] = cell
    <3>1. [old EXCEPT !.names = Reverse(@), !.items = Reverse(@)]
            = [[old EXCEPT !.names = names] EXCEPT !.items = items]
      BY <1>1 DEF Cells
    <3>2. QED
      BY <1>1, <3>1, CellFilled
  <2>2. QED
    BY <2>1 DEF Mirrored
<1>5. /\ cell.type = old.type /\ cell.text = old.text /\ cell.names = names /\ cell.items = items
      /\ cell \in Cells
  BY <1>1, <1>3 DEF Cells
<1> HIDE DEF cell
<1>6. /\ g \in Heaps /\ g[v] = cell /\ g[o] = old
      /\ \A n \in Nodes \ {v} : g[n] = heap[n]
  BY <1>1, <1>5 DEF Heaps
<1>7. LiveIn(g) = LiveIn(heap) \cup {v}
  BY <1>1, <1>5, <1>6, FreeAssumption DEF LiveIn
<1> HIDE DEF g, old, names, items
<1>8. ASSUME NEW n \in LiveIn(g)
      PROVE  Fits(g[n].type, g[n].names, g[n].items) /\ Kids(g, n) \subseteq LiveIn(g)
  <2>1. CASE n = v
    <3>1. Fits(cell.type, names, items)
      BY <1>3, <1>5 DEF Fits, old
    <3>2. Kids(g, v) = ToSet(items)
      BY <1>5, <1>6, FreeAssumption DEF Kids
    <3>3. Kids(heap, o) \subseteq LiveIn(heap)
      BY DEF Whole
    <3>4. QED
      BY <1>3, <1>5, <1>6, <1>7, <2>1, <3>1, <3>2, <3>3
  <2>2. CASE n # v
    <3>1. n \in LiveIn(heap) /\ n \in Nodes
      BY <1>7, <1>8, <2>2 DEF LiveIn
    <3>2. g[n] = heap[n]
      BY <1>6, <2>2, <3>1
    <3>3. Fits(heap[n].type, heap[n].names, heap[n].items) /\ Kids(heap, n) \subseteq LiveIn(heap)
      BY <3>1, SoundFits DEF Whole
    <3>4. Kids(g, n) = Kids(heap, n)
      BY <3>2 DEF Kids
    <3>5. QED
      BY <1>7, <3>2, <3>3, <3>4
  <2>3. QED
    BY <2>1, <2>2
<1>9. Whole(g)
  <2>1. Sound(g)
    BY <1>6, <1>8, FitsSound
  <2>2. QED
    BY <1>8, <2>1 DEF Whole
<1>10. /\ Whole(g) /\ o \in LiveIn(g) /\ v \in LiveIn(g) /\ g[o] = old
       /\ g[v].type = old.type /\ g[v].text = old.text
       /\ g[v].names = names /\ g[v].items = items
  BY <1>5, <1>6, <1>7, <1>9
<1>11. QED
  BY <1>4, <1>10 DEF old, names, items

LEMMA MirroredEquals ==
  ASSUME Whole(heap), NEW o \in LiveIn(heap), heap[o].type = "object", NEW v \in Nodes \ LiveIn(heap)
  PROVE  json_value_equals(Mirrored(v, o), o, v)
<1> DEFINE g == Mirrored(v, o)
           n == Len(g[o].items)
<1>1. /\ Whole(g) /\ o \in LiveIn(g) /\ v \in LiveIn(g) /\ g[o].type = "object"
      /\ g[v].type = "object" /\ g[v].text = g[o].text
      /\ g[v].names = Reverse(g[o].names) /\ g[v].items = Reverse(g[o].items)
  BY MirroredHeap
<1> HIDE DEF g
<1>2. /\ g[o].items \in Seq(LiveIn(g)) /\ g[o].names \in Seq(Seq(STRING))
      /\ Len(g[o].names) = n
  BY <1>1, WholeFits
<1>3. /\ Len(g[v].items) = n /\ ToSet(g[v].names) = ToSet(g[o].names)
      /\ \A i \in 1 .. n : /\ n - i + 1 \in 1 .. n /\ g[v].names[n - i + 1] = g[o].names[i]
                          /\ g[v].items[n - i + 1] = g[o].items[i]
  <2> DEFINE names == g[o].names
             items == g[o].items
  <2>1. names \in Seq(Seq(STRING)) /\ items \in Seq(LiveIn(g)) /\ Len(names) = n /\ Len(items) = n
    BY <1>2
  <2> HIDE DEF n, names, items
  <2>2. /\ ToSet(Reverse(names)) = ToSet(names)
        /\ \A i \in 1 .. n : n - i + 1 \in 1 .. n /\ Reverse(names)[n - i + 1] = names[i]
    BY <2>1, Reversed
  <2>3. /\ Len(Reverse(items)) = n
        /\ \A i \in 1 .. n : Reverse(items)[n - i + 1] = items[i]
    BY <2>1, Reversed
  <2>4. QED
    BY <1>1, <2>2, <2>3 DEF names, items
<1> HIDE DEF n
<1>4. ASSUME NEW name \in ToSet(g[o].names)
      PROVE  json_object_getn_value(g, o, name) = json_object_getn_value(g, v, name)
  <2>1. PICK i \in 1 .. n : g[o].names[i] = name
    BY <1>1, MemberOf DEF n
  <2> DEFINE j == n - i + 1
  <2>2. j \in 1 .. n /\ g[v].names[j] = name /\ g[v].items[j] = g[o].items[i]
    BY <1>3, <2>1
  <2> HIDE DEF j
  <2>3. json_object_getn_value(g, o, g[o].names[i]) = g[o].items[i]
    BY <1>1, MemberOf DEF n
  <2>4. json_object_getn_value(g, v, g[v].names[j]) = g[v].items[j]
    <3>1. j \in 1 .. Len(g[v].items)
      BY <1>3, <2>2
    <3>2. \A k \in 1 .. Len(g[v].items) :
            json_object_getn_value(g, v, g[v].names[k]) = g[v].items[k]
      BY <1>1, MemberOf
    <3>3. QED
      BY <3>1, <3>2
  <2>5. QED
    BY <2>1, <2>2, <2>3, <2>4
<1>5. ASSUME NEW d PROVE Matched(d, g, o, v)
  BY <1>1, <1>3, <1>4 DEF Matched, n
<1>6. Doc(g, o) = Doc(g, v)
  BY <1>1, <1>5, SameDoc
<1>7. QED
  BY <1>1, <1>6, Compared DEF g

LEMMA TreesCompare == IInv => EqualsIsStructural
<1>1. SUFFICES ASSUME IInv PROVE EqualsIsStructural
  OBVIOUS
<1>2. Whole(heap)
  BY <1>1 DEF IInv, Good, Forest, Whole
<1>3. LiveIn(heap) = Live
  BY DEF LiveIn, Live
<1>4. ASSUME NEW a \in Live, NEW b \in Live
      PROVE  json_value_equals(heap, a, b) = (Doc(heap, a) = Doc(heap, b))
  BY <1>2, <1>3, Compared
<1>5. ASSUME NEW a \in Live, NEW b \in Live, NEW c \in Live, Doc(heap, a) = Doc(heap, b)
      PROVE  /\ json_validate(heap, a, c) = json_validate(heap, b, c)
             /\ json_validate(heap, c, a) = json_validate(heap, c, b)
  BY <1>2, <1>3, <1>5, Validated
<1>6. ASSUME NEW o \in OfType("object"), NEW v \in Nodes \ Live
      PROVE  json_value_equals(Mirrored(v, o), o, v)
  <2>1. o \in LiveIn(heap) /\ heap[o].type = "object" /\ v \in Nodes \ LiveIn(heap)
    BY <1>3 DEF OfType
  <2>2. QED
    BY <1>2, <2>1, MirroredEquals
<1>7. QED
  BY <1>4, <1>5, <1>6 DEF EqualsIsStructural

(***************************************************************************)
(* json_value_equals() tells documents apart and nothing else, neither the *)
(* order of members nor where the values are in memory, and               *)
(* json_validate() treats values that are equal alike.                     *)
(***************************************************************************)
THEOREM ComparesDocuments == Spec => []EqualsIsStructural
<1>1. IInv => EqualsIsStructural
  BY TreesCompare
<1>2. QED
  BY <1>1, Trees, PTL

-----------------------------------------------------------------------------
\* The levels suffice

LEMMA SmallerBelow ==
  ASSUME NEW h, NEW R, Sound(h), Forest(h, R), NEW a \in LiveIn(h)
  PROVE  /\ Cardinality(Below(h, a)) \in 1 .. Cardinality(Nodes)
         /\ \A x \in Kids(h, a) : /\ x \in LiveIn(h) /\ Cardinality(Below(h, x)) \in Nat
                                  /\ Cardinality(Below(h, x)) < Cardinality(Below(h, a))
<1>1. a \in Nodes /\ IsFiniteSet(Nodes)
  BY NodesAssumption DEF LiveIn
<1>2. Below(h, a) \in SUBSET Nodes /\ a \in Below(h, a) /\ Closed(h, Below(h, a))
  BY <1>1, BelowLeast
<1>3. /\ IsFiniteSet(Below(h, a)) /\ Cardinality(Below(h, a)) \in Nat
      /\ Cardinality(Nodes) \in Nat /\ Cardinality(Below(h, a)) <= Cardinality(Nodes)
  BY <1>1, <1>2, FS_Subset, FS_CardinalityType
<1>4. Cardinality(Below(h, a)) # 0
  BY <1>2, <1>3, FS_EmptySet
<1>5. ASSUME NEW x \in Kids(h, a)
      PROVE  /\ x \in LiveIn(h) /\ Cardinality(Below(h, x)) \in Nat
             /\ Cardinality(Below(h, x)) < Cardinality(Below(h, a))
  <2>1. x \in LiveIn(h) /\ a \notin Below(h, x)
    BY NotBelowItem
  <2>2. x \in Below(h, a)
    BY <1>2 DEF Closed
  <2>3. Below(h, x) \subseteq Below(h, a)
    BY <1>1, <2>2, BelowTransitive
  <2>4. Below(h, x) # Below(h, a)
    BY <1>2, <2>1
  <2>5. QED
    BY <1>3, <2>1, <2>3, <2>4, FS_Subset, FS_CardinalityType
<1>6. QED
  BY <1>3, <1>4, <1>5

\* A document is made of those of the kids, and of a value only the kids are validated.
LEMMA DocByKids ==
  ASSUME NEW h, Whole(h), NEW a \in LiveIn(h), NEW f, NEW g, \A x \in Kids(h, a) : f[x] = g[x]
  PROVE  DocBy(f, h, a) = DocBy(g, h, a)
<1>1. /\ h[a].items \in Seq(LiveIn(h)) /\ Kids(h, a) = ToSet(h[a].items)
      /\ h[a].type # "object" => h[a].names = <<>>
  BY WholeFits, SoundFits DEF Whole
<1>2. DOMAIN h[a].items = 1 .. Len(h[a].items)
  BY <1>1
<1>3. \A i \in 1 .. Len(h[a].items) : h[a].items[i] \in Kids(h, a)
  BY <1>1, <1>2 DEF ToSet
<1>4. [i \in DOMAIN h[a].items |-> f[h[a].items[i]]] = [i \in DOMAIN h[a].items |-> g[h[a].items[i]]]
  BY <1>2, <1>3
<1>5. ASSUME NEW name \in ToSet(h[a].names)
      PROVE  f[json_object_getn_value(h, a, name)] = g[json_object_getn_value(h, a, name)]
  <2>1. h[a].type = "object"
    <3>1. h[a].names # <<>>
      BY <1>5 DEF ToSet
    <3>2. QED
      BY <1>1, <3>1
  <2>2. PICK i \in 1 .. Len(h[a].items) : h[a].names[i] = name
    BY <2>1, MemberOf
  <2>3. json_object_getn_value(h, a, h[a].names[i]) = h[a].items[i]
    BY <2>1, MemberOf
  <2>4. json_object_getn_value(h, a, name) \in Kids(h, a)
    BY <1>3, <2>2, <2>3
  <2>5. QED
    BY <2>4
<1>6. [name \in ToSet(h[a].names) |-> f[json_object_getn_value(h, a, name)]]
        = [name \in ToSet(h[a].names) |-> g[json_object_getn_value(h, a, name)]]
  BY <1>5
<1>7. QED
  BY <1>4, <1>6 DEF DocBy

LEMMA ValidByKids ==
  ASSUME NEW h, Whole(h), NEW a \in LiveIn(h), NEW b \in LiveIn(h), NEW f, NEW g,
         \A x \in Kids(h, a), y \in LiveIn(h) : f[<<x, y>>] <=> g[<<x, y>>],
         ValidBy(f, h, a, b)
  PROVE  ValidBy(g, h, a, b)
<1>1. /\ h[a].items \in Seq(LiveIn(h)) /\ Kids(h, a) = ToSet(h[a].items)
      /\ h[b].items \in Seq(LiveIn(h))
  BY WholeFits, SoundFits DEF Whole
<1>2. /\ DOMAIN h[a].items = 1 .. Len(h[a].items)
      /\ DOMAIN h[b].items = 1 .. Len(h[b].items)
      /\ h[a].items # <<>> => 1 \in 1 .. Len(h[a].items)
  BY <1>1
<1>3. /\ \A i \in DOMAIN h[a].items : h[a].items[i] \in Kids(h, a)
      /\ \A i \in DOMAIN h[b].items : h[b].items[i] \in LiveIn(h)
  BY <1>1, <1>2 DEF ToSet
<1>4. SUFFICES ASSUME h[a].type # "null" PROVE ValidBy(g, h, a, b)
  BY DEF ValidBy
<1>5. h[a].type = h[b].type
  BY <1>4 DEF ValidBy
<1>6. ASSUME h[a].type = "array", h[a].items # <<>>, NEW i \in DOMAIN h[b].items
      PROVE  g[<<h[a].items[1], h[b].items[i]>>]
  <2> DEFINE x == h[a].items[1]
             y == h[b].items[i]
  <2>1. f[<<x, y>>]
    BY <1>4, <1>6 DEF ValidBy
  <2>2. x \in Kids(h, a) /\ y \in LiveIn(h)
    BY <1>2, <1>3, <1>6
  <2> HIDE DEF x, y
  <2>3. g[<<x, y>>]
    BY <2>1, <2>2
  <2>4. QED
    BY <2>3 DEF x, y
<1>7. ASSUME h[a].type = "object", NEW i \in DOMAIN h[a].items
      PROVE  /\ json_object_getn_value(h, b, h[a].names[i]) # NULL
             /\ g[<<h[a].items[i], json_object_getn_value(h, b, h[a].names[i])>>]
  <2> DEFINE name == h[a].names[i]
             x == h[a].items[i]
             member == json_object_getn_value(h, b, name)
  <2>1. member # NULL /\ f[<<x, member>>]
    BY <1>4, <1>7 DEF ValidBy
  <2>2. x \in Kids(h, a)
    BY <1>3, <1>7
  <2> HIDE DEF name, x
  <2>3. member \in LiveIn(h)
    BY <1>5, <1>7, <2>1, MemberOf
  <2> HIDE DEF member
  <2>4. g[<<x, member>>]
    BY <2>1, <2>2, <2>3
  <2>5. QED
    BY <2>1, <2>4 DEF name, x, member
<1>8. QED
  BY <1>5, <1>6, <1>7 DEF ValidBy

LEMMA DocUnfolds ==
  ASSUME NEW h, NEW R, Whole(h), Forest(h, R), NEW a \in LiveIn(h)
  PROVE  Doc(h, a) = DocBy([x \in Nodes |-> Doc(h, x)], h, a)
<1> DEFINE n == Cardinality(Nodes)
           size(x) == Cardinality(Below(h, x))
<1>1. n \in Nat
  BY NodesAssumption, FS_CardinalityType
<1>2. PICK doc : Describing(doc, h, n) /\ \A x : Doc(h, x) = doc[n][x]
  BY <1>1, DocParts
<1>3. \A x \in LiveIn(h) : /\ size(x) \in 1 .. n
                           /\ \A y \in Kids(h, x) : y \in LiveIn(h) /\ size(y) < size(x)
                                                    /\ size(y) \in Nat
  BY SmallerBelow DEF Whole
<1> HIDE DEF n, size
<1>4. \A k \in 0 .. n, x \in LiveIn(h) :
         doc[k][x] = IF k = 0 THEN NULL ELSE DocBy(doc[k - 1], h, x)
  <2>1. SUFFICES ASSUME NEW k \in 0 .. n, NEW x \in LiveIn(h)
                 PROVE  doc[k][x] = IF k = 0 THEN NULL ELSE DocBy(doc[k - 1], h, x)
    OBVIOUS
  <2>2. doc[k] = [v \in Nodes |-> IF k = 0 THEN NULL ELSE DocBy(doc[k - 1], h, v)]
    BY <1>2 DEF Describing
  <2>3. QED
    BY <2>2 DEF LiveIn
<1> DEFINE Settled(k) == \A x \in LiveIn(h) : size(x) <= k => doc[k + 1][x] = doc[k][x]
           to == {k \in Nat : k < n => Settled(k)}
<1>5. 0 \in to
  <2>1. \A x \in LiveIn(h) : ~(size(x) <= 0)
    BY <1>1, <1>3
  <2>2. QED
    BY <2>1
<1>6. ASSUME NEW k \in to PROVE k + 1 \in to
  <2>1. k \in Nat /\ k + 1 \in Nat
    OBVIOUS
  <2>2. SUFFICES ASSUME k + 1 < n PROVE Settled(k + 1)
    BY <2>1
  <2>3. /\ k < n /\ k + 1 \in 0 .. n /\ (k + 1) - 1 = k /\ k + 1 # 0
        /\ (k + 1) + 1 \in 0 .. n /\ ((k + 1) + 1) - 1 = k + 1 /\ (k + 1) + 1 # 0
    BY <1>1, <2>1, <2>2
  <2>4. Settled(k)
    BY <2>3
  <2>5. ASSUME NEW x \in LiveIn(h), size(x) <= k + 1
        PROVE  doc[(k + 1) + 1][x] = doc[k + 1][x]
    <3>1. /\ doc[k + 1][x] = DocBy(doc[k], h, x)
          /\ doc[(k + 1) + 1][x] = DocBy(doc[k + 1], h, x)
      BY <1>4, <2>3
    <3>2. \A y \in Kids(h, x) : y \in LiveIn(h) /\ size(y) <= k
      BY <1>1, <1>3, <2>1, <2>5
    <3>3. \A y \in Kids(h, x) : doc[k + 1][y] = doc[k][y]
      BY <2>4, <3>2
    <3>4. DocBy(doc[k + 1], h, x) = DocBy(doc[k], h, x)
      BY <3>3, DocByKids
    <3>5. QED
      BY <3>1, <3>4
  <2>6. QED
    BY <2>5
<1>7. to \in SUBSET Nat
  OBVIOUS
<1>8. n - 1 \in Nat /\ n - 1 < n /\ (n - 1) + 1 = n /\ n # 0 /\ n \in 0 .. n
  BY <1>1, <1>3
<1>9. Settled(n - 1)
  <2>1. n - 1 \in to
    <3> HIDE DEF to
    <3>1. to = Nat
      BY <1>5, <1>6, <1>7, SetInduction
    <3>2. QED
      BY <1>8, <3>1
  <2>2. QED
    BY <1>8, <2>1
<1> DEFINE D == [x \in Nodes |-> Doc(h, x)]
<1>10. \A y \in Kids(h, a) : D[y] = doc[n - 1][y]
  <2>1. \A y \in Kids(h, a) : y \in LiveIn(h) /\ y \in Nodes /\ size(y) <= n - 1
    BY <1>1, <1>3 DEF LiveIn
  <2>2. \A y \in Kids(h, a) : doc[n][y] = doc[n - 1][y]
    BY <1>8, <1>9, <2>1
  <2>3. QED
    BY <1>2, <2>1, <2>2
<1> HIDE DEF D
<1>11. DocBy(D, h, a) = DocBy(doc[n - 1], h, a)
  <2> DEFINE d == doc[n - 1]
  <2>1. \A y \in Kids(h, a) : D[y] = d[y]
    BY <1>10
  <2> HIDE DEF d
  <2>2. DocBy(D, h, a) = DocBy(d, h, a)
    BY <2>1, DocByKids
  <2>3. QED
    BY <2>2 DEF d
<1>12. QED
  BY <1>2, <1>4, <1>8, <1>11 DEF D

LEMMA ValidUnfolds ==
  ASSUME NEW h, NEW R, Whole(h), Forest(h, R), NEW a \in LiveIn(h), NEW b \in LiveIn(h)
  PROVE  json_validate(h, a, b)
           <=> ValidBy([p \in Nodes \X Nodes |-> json_validate(h, p[1], p[2])], h, a, b)
<1> DEFINE n == Cardinality(Nodes)
           size(x) == Cardinality(Below(h, x))
<1>1. n \in Nat
  BY NodesAssumption, FS_CardinalityType
<1>2. PICK valid : /\ Validating(valid, h, n)
                   /\ \A x, y : json_validate(h, x, y) = valid[n][<<x, y>>]
  BY <1>1, ValidParts
<1>3. \A x \in LiveIn(h) : /\ size(x) \in 1 .. n
                           /\ \A y \in Kids(h, x) : y \in LiveIn(h) /\ size(y) < size(x)
                                                    /\ size(y) \in Nat
  BY SmallerBelow DEF Whole
<1> HIDE DEF n, size
<1>4. ASSUME NEW k \in 0 .. n, NEW x \in LiveIn(h), NEW y \in LiveIn(h)
      PROVE  valid[k][<<x, y>>] <=> k = 0 \/ ValidBy(valid[k - 1], h, x, y)
  <2>1. valid[k] = [p \in Nodes \X Nodes |-> k = 0 \/ ValidBy(valid[k - 1], h, p[1], p[2])]
    BY <1>2 DEF Validating
  <2>2. <<x, y>> \in Nodes \X Nodes /\ <<x, y>>[1] = x /\ <<x, y>>[2] = y
    BY DEF LiveIn
  <2>3. QED
    BY <2>1, <2>2
<1> DEFINE Settled(k) == \A x, y \in LiveIn(h) :
                            size(x) <= k => (valid[k + 1][<<x, y>>] <=> valid[k][<<x, y>>])
           to == {k \in Nat : k < n => Settled(k)}
<1>5. 0 \in to
  <2>1. \A x \in LiveIn(h) : ~(size(x) <= 0)
    BY <1>1, <1>3
  <2>2. QED
    BY <2>1
<1>6. ASSUME NEW k \in to PROVE k + 1 \in to
  <2>1. k \in Nat /\ k + 1 \in Nat
    OBVIOUS
  <2>2. SUFFICES ASSUME k + 1 < n PROVE Settled(k + 1)
    BY <2>1
  <2>3. /\ k < n /\ k + 1 \in 0 .. n /\ (k + 1) - 1 = k /\ k + 1 # 0
        /\ (k + 1) + 1 \in 0 .. n /\ ((k + 1) + 1) - 1 = k + 1 /\ (k + 1) + 1 # 0
    BY <1>1, <2>1, <2>2
  <2>4. Settled(k)
    BY <2>3
  <2>5. ASSUME NEW x \in LiveIn(h), NEW y \in LiveIn(h), size(x) <= k + 1
        PROVE  valid[(k + 1) + 1][<<x, y>>] <=> valid[k + 1][<<x, y>>]
    <3> DEFINE f == valid[k]
               g == valid[k + 1]
    <3>1. /\ valid[k + 1][<<x, y>>] <=> ValidBy(f, h, x, y)
          /\ valid[(k + 1) + 1][<<x, y>>] <=> ValidBy(g, h, x, y)
      BY <1>4, <2>3
    <3>2. \A u \in Kids(h, x) : u \in LiveIn(h) /\ size(u) <= k
      BY <1>1, <1>3, <2>1, <2>5
    <3>3. \A u \in Kids(h, x), w \in LiveIn(h) : f[<<u, w>>] <=> g[<<u, w>>]
      BY <2>4, <3>2
    <3> HIDE DEF f, g
    <3>4. ValidBy(f, h, x, y) => ValidBy(g, h, x, y)
      BY <3>3, ValidByKids
    <3>5. ValidBy(g, h, x, y) => ValidBy(f, h, x, y)
      <4>1. \A u \in Kids(h, x), w \in LiveIn(h) : g[<<u, w>>] <=> f[<<u, w>>]
        BY <3>3
      <4>2. QED
        BY <4>1, ValidByKids
    <3>6. QED
      BY <3>1, <3>4, <3>5
  <2>6. QED
    BY <2>5
<1>7. to \in SUBSET Nat
  OBVIOUS
<1>8. n - 1 \in Nat /\ n - 1 < n /\ (n - 1) + 1 = n /\ n # 0 /\ n \in 0 .. n
  BY <1>1, <1>3
<1>9. Settled(n - 1)
  <2>1. n - 1 \in to
    <3> HIDE DEF to
    <3>1. to = Nat
      BY <1>5, <1>6, <1>7, SetInduction
    <3>2. QED
      BY <1>8, <3>1
  <2>2. QED
    BY <1>8, <2>1
<1> DEFINE F == [p \in Nodes \X Nodes |-> json_validate(h, p[1], p[2])]
           g == valid[n - 1]
<1>10. \A x \in Kids(h, a), y \in LiveIn(h) : F[<<x, y>>] <=> g[<<x, y>>]
  <2>1. SUFFICES ASSUME NEW x \in Kids(h, a), NEW y \in LiveIn(h) PROVE F[<<x, y>>] <=> g[<<x, y>>]
    OBVIOUS
  <2>2. x \in LiveIn(h) /\ <<x, y>> \in Nodes \X Nodes /\ size(x) <= n - 1
    BY <1>1, <1>3 DEF LiveIn
  <2>3. valid[n][<<x, y>>] <=> valid[n - 1][<<x, y>>]
    BY <1>8, <1>9, <2>2
  <2>4. F[<<x, y>>] = valid[n][<<x, y>>]
    BY <1>2, <2>2
  <2>5. QED
    BY <2>3, <2>4
<1>11. json_validate(h, a, b) <=> ValidBy(g, h, a, b)
  <2>1. valid[n][<<a, b>>] <=> n = 0 \/ ValidBy(valid[n - 1], h, a, b)
    BY <1>4, <1>8
  <2>2. json_validate(h, a, b) = valid[n][<<a, b>>]
    BY <1>2
  <2>3. QED
    BY <1>8, <2>1, <2>2
<1> HIDE DEF F, g
<1>12. ValidBy(F, h, a, b) => ValidBy(g, h, a, b)
  BY <1>10, ValidByKids
<1>13. ValidBy(g, h, a, b) => ValidBy(F, h, a, b)
  <2>1. \A x \in Kids(h, a), y \in LiveIn(h) : g[<<x, y>>] <=> F[<<x, y>>]
    BY <1>10
  <2>2. QED
    BY <2>1, ValidByKids
<1>14. QED
  BY <1>11, <1>12, <1>13 DEF F

LEMMA EqualsUnfold ==
  ASSUME NEW h, NEW R, Whole(h), Forest(h, R), NEW a \in LiveIn(h), NEW b \in LiveIn(h)
  PROVE  json_value_equals(h, a, b)
           <=> EqualBy([p \in Nodes \X Nodes |-> json_value_equals(h, p[1], p[2])], h, a, b)
<1> DEFINE F == [p \in Nodes \X Nodes |-> json_value_equals(h, p[1], p[2])]
           D == [x \in Nodes |-> Doc(h, x)]
<1>1. Agrees(F, D, h)
  <2>1. SUFFICES ASSUME NEW x \in LiveIn(h), NEW y \in LiveIn(h)
                 PROVE  F[<<x, y>>] <=> D[x] = D[y]
    BY DEF Agrees
  <2>2. x \in Nodes /\ y \in Nodes /\ <<x, y>> \in Nodes \X Nodes
    BY DEF LiveIn
  <2>3. F[<<x, y>>] = json_value_equals(h, x, y) /\ D[x] = Doc(h, x) /\ D[y] = Doc(h, y)
    BY <2>2
  <2>4. json_value_equals(h, x, y) = (Doc(h, x) = Doc(h, y))
    BY Compared
  <2>5. QED
    BY <2>3, <2>4
<1>2. Doc(h, a) = DocBy(D, h, a) /\ Doc(h, b) = DocBy(D, h, b)
  BY DocUnfolds
<1>3. json_value_equals(h, a, b) = (Doc(h, a) = Doc(h, b))
  BY Compared
<1> HIDE DEF F, D
<1>4. DocBy(D, h, a) = DocBy(D, h, b) <=> Matched(D, h, a, b)
  BY DocMatched
<1>5. EqualBy(F, h, a, b) <=> Matched(D, h, a, b)
  BY <1>1, EqualMatched
<1>6. QED
  BY <1>2, <1>3, <1>4, <1>5 DEF F

\* Nothing is below a value that was not below it when it was live already.
LEMMA KeptBelow ==
  ASSUME NEW h, Whole(h), NEW g, Sound(g), Kept(g, h), NEW a \in LiveIn(h)
  PROVE  Below(g, a) = Below(h, a)
<1> DEFINE L == LiveIn(h)
<1>1. Sound(h) /\ L \in SUBSET Nodes /\ a \in L /\ a \in Nodes /\ Closed(h, L)
  BY DEF Whole, LiveIn, Closed
<1>2. \A n \in L : Kids(g, n) = Kids(h, n)
  BY DEF Kept, Kids
<1> HIDE DEF L
<1>3. Below(h, a) \subseteq L
  BY <1>1, BelowLeast
<1>4. QED
  BY <1>1, <1>2, <1>3, SameBelow

\* A value is copied as its items are.
LEMMA CopyByKids ==
  ASSUME NEW m, NEW R, NEW T, Fine(m, R, T), NEW v \in LiveIn(m.heap),
         NEW f, Copier(f), Pairer(f), NEW g,
         \A p, Q, y : Fine(p, Q, T) /\ Kept(p.heap, m.heap) /\ y \in Kids(m.heap, v) =>
                         f[<<p, y>>] = g[<<p, y>>]
  PROVE  CopyBy(f, m, v) = CopyBy(g, m, v)
<1> DEFINE from == m.heap[v]
           n == Len(from.items)
           block == Block(from.type, from.text)
           made == json_value_init(m, block)
           c == made.got
<1>1. from \in Cells /\ from.items \in Seq(Nodes) /\ Kids(m.heap, v) = ToSet(from.items)
  BY SoundFits DEF Fine, Good, Fits
<1>2. n \in Nat /\ from.type \in Types /\ from.text \in Seq(STRING)
  BY <1>1 DEF Cells
<1>3. \A i \in 1 .. n : from.items[i] \in Kids(m.heap, v)
  BY <1>1, InSet
<1>4. IsNew(block) /\ block.type = from.type
  BY <1>2, BlockIsNew
<1>5. PICK done : CopyingItems(done, f, m, v) /\ CopyBy(f, m, v) = done[n]
  BY <1>2, CopyByParts
<1>6. PICK next : CopyingItems(next, g, m, v) /\ CopyBy(g, m, v) = next[n]
  BY <1>2, CopyByParts
<1>7. /\ done[0] = made
      /\ \A i \in 1 .. n : done[i] = IF ~done[i - 1].ok THEN done[i - 1]
                                     ELSE CopyItem(f, done[i - 1], from, i, c)
  BY <1>5 DEF CopyingItems
<1>8. /\ next[0] = made
      /\ \A i \in 1 .. n : next[i] = IF ~next[i - 1].ok THEN next[i - 1]
                                     ELSE CopyItem(g, next[i - 1], from, i, c)
  BY <1>6 DEF CopyingItems
<1> HIDE DEF block
<1>9. Copies(made, m, R, T) /\ (made.ok => made.heap[c] = block)
  BY <1>4, FineMade
<1> HIDE DEF made, from, n
<1>10. made.ok => c \in Nodes /\ c \notin LiveIn(m.heap) /\ CopyTo(made, m, R, T, c, from.type)
  BY <1>4, <1>9 DEF Copies, CopyTo
<1> DEFINE Along(i) == /\ next[i] = done[i]
                       /\ done[i].ok => made.ok /\ CopyTo(done[i], m, R, T, c, from.type)
           to == {i \in Nat : i <= n => Along(i)}
<1> HIDE DEF c
<1>11. 0 \in to
  BY <1>7, <1>8, <1>10
<1>12. ASSUME NEW i \in to PROVE i + 1 \in to
  <2>1. i \in Nat /\ i + 1 \in Nat
    OBVIOUS
  <2>2. SUFFICES ASSUME i + 1 <= n PROVE Along(i + 1)
    BY <2>1
  <2>3. i <= n /\ i + 1 \in 1 .. n /\ (i + 1) - 1 = i
    BY <1>2, <2>1, <2>2
  <2> DEFINE d == done[i]
             j == i + 1
  <2>4. next[i] = d /\ (d.ok => made.ok /\ CopyTo(d, m, R, T, c, from.type))
    BY <2>3
  <2>5. /\ done[j] = IF ~d.ok THEN d ELSE CopyItem(f, d, from, j, c)
        /\ next[j] = IF ~d.ok THEN d ELSE CopyItem(g, d, from, j, c)
    <3>1. done[j - 1] = d /\ next[j - 1] = d
      BY <2>3, <2>4
    <3>2. j \in 1 .. n
      BY <2>3
    <3> HIDE DEF d, j
    <3>3. QED
      BY <1>7, <1>8, <3>1, <3>2 DEF c
  <2>6. j \in 1 .. n
    BY <2>3
  <2> HIDE DEF d, j
  <2>7. CASE ~d.ok
    BY <2>4, <2>5, <2>7 DEF j
  <2>8. CASE d.ok
    <3> DEFINE y == from.items[j]
    <3>1. Fine(d, R \cup {c}, T) /\ Kept(d.heap, m.heap) /\ CopyTo(d, m, R, T, c, from.type)
          /\ c \in Nodes /\ c \notin LiveIn(m.heap)
      BY <1>10, <2>4, <2>8 DEF CopyTo, Copies
    <3>2. y \in Kids(m.heap, v)
      BY <1>3, <2>6
    <3>3. f[<<d, y>>] = g[<<d, y>>]
      BY <3>1, <3>2
    <3>4. CopyItem(f, d, from, j, c) = CopyItem(g, d, from, j, c)
      BY <3>3 DEF CopyItem
    <3>5. CopyTo(CopyItem(f, d, from, j, c), m, R, T, c, from.type)
      <4>1. j \in 1 .. Len(m.heap[v].items) /\ CopyTo(d, m, R, T, c, m.heap[v].type)
        BY <2>6, <3>1 DEF n, from
      <4>2. CopyTo(CopyItem(f, d, m.heap[v], j, c), m, R, T, c, m.heap[v].type)
        BY <2>8, <3>1, <4>1, FineCopyItem
      <4>3. QED
        BY <4>2 DEF from
    <3>6. QED
      BY <2>4, <2>5, <2>8, <3>4, <3>5 DEF j
  <2>9. QED
    BY <2>7, <2>8
<1>13. to \in SUBSET Nat
  OBVIOUS
<1>14. n \in to
  <2> HIDE DEF to
  <2>1. to = Nat
    BY <1>11, <1>12, <1>13, SetInduction
  <2>2. QED
    BY <1>2, <2>1
<1>15. QED
  BY <1>2, <1>5, <1>6, <1>14

LEMMA CopyUnfolds ==
  ASSUME NEW m, NEW R, NEW T, Fine(m, R, T), NEW v \in LiveIn(m.heap)
  PROVE  json_value_deep_copy(m, v)
           = CopyBy([x \in Memories \X Nodes |-> json_value_deep_copy(x[1], x[2])], m, v)
<1> DEFINE n == Cardinality(Nodes)
           size(h, x) == Cardinality(Below(h, x))
<1>1. n \in Nat
  BY NodesAssumption, FS_CardinalityType
<1>2. PICK copied : /\ Copying(copied, n)
                    /\ \A p, w : json_value_deep_copy(p, w) = copied[n][<<p, w>>]
  BY <1>1, DeepCopyParts
<1>3. ASSUME NEW p, NEW Q, NEW U, Fine(p, Q, U), NEW w \in LiveIn(p.heap)
      PROVE  /\ size(p.heap, w) \in 1 .. n
             /\ \A y \in Kids(p.heap, w) : y \in LiveIn(p.heap) /\ y \in Nodes
                                           /\ size(p.heap, y) \in Nat
                                           /\ size(p.heap, y) < size(p.heap, w)
  BY <1>3, SmallerBelow DEF Fine, Good, LiveIn
<1>4. ASSUME NEW p, NEW Q, NEW U, Fine(p, Q, U), NEW q, NEW V, NEW W, Fine(q, V, W),
             Kept(q.heap, p.heap), NEW y \in LiveIn(p.heap)
      PROVE  y \in LiveIn(q.heap) /\ size(q.heap, y) = size(p.heap, y)
  <2>1. Whole(p.heap) /\ Sound(q.heap) /\ y \in LiveIn(q.heap)
    BY <1>4, KeptLive DEF Fine, Good, Forest, Whole
  <2>2. QED
    BY <1>4, <2>1, KeptBelow
<1> HIDE DEF n, size
<1>5. \A k \in 0 .. n : Copier(copied[k]) /\ Pairer(copied[k])
  BY <1>1, <1>2, FineCopying
<1>6. ASSUME NEW k \in 0 .. n, NEW p, NEW w, p \in Memories, w \in Nodes
      PROVE  copied[k][<<p, w>>] = IF k = 0 THEN Failure(p) ELSE CopyBy(copied[k - 1], p, w)
  BY <1>1, <1>2, <1>6, CopyingLevel
<1> DEFINE Settled(k) ==
             \A p, Q, U, w : Fine(p, Q, U) /\ w \in LiveIn(p.heap) /\ size(p.heap, w) <= k =>
                                copied[k + 1][<<p, w>>] = copied[k][<<p, w>>]
           to == {k \in Nat : k < n => Settled(k)}
<1>7. 0 \in to
  <2>1. \A p, Q, U, w : Fine(p, Q, U) /\ w \in LiveIn(p.heap) => ~(size(p.heap, w) <= 0)
    BY <1>1, <1>3
  <2>2. QED
    BY <2>1
<1>8. ASSUME NEW k \in to PROVE k + 1 \in to
  <2>1. k \in Nat /\ k + 1 \in Nat
    OBVIOUS
  <2>2. SUFFICES ASSUME k + 1 < n PROVE Settled(k + 1)
    BY <2>1
  <2>3. /\ k < n /\ k + 1 \in 0 .. n /\ (k + 1) - 1 = k /\ k + 1 # 0
        /\ (k + 1) + 1 \in 0 .. n /\ ((k + 1) + 1) - 1 = k + 1 /\ (k + 1) + 1 # 0
    BY <1>1, <2>1, <2>2
  <2>4. Settled(k)
    BY <2>3
  <2>5. ASSUME NEW p, NEW Q, NEW U, NEW w, Fine(p, Q, U), w \in LiveIn(p.heap),
               size(p.heap, w) <= k + 1
        PROVE  copied[(k + 1) + 1][<<p, w>>] = copied[k + 1][<<p, w>>]
    <3> DEFINE f == copied[k + 1]
               g == copied[k]
    <3>1. p \in Memories /\ w \in Nodes
      BY <2>5 DEF Fine, LiveIn
    <3>2. f[<<p, w>>] = CopyBy(g, p, w) /\ copied[(k + 1) + 1][<<p, w>>] = CopyBy(f, p, w)
      BY <1>6, <2>3, <3>1
    <3>3. ASSUME NEW q, NEW V, NEW y, Fine(q, V, U), Kept(q.heap, p.heap), y \in Kids(p.heap, w)
          PROVE  f[<<q, y>>] = g[<<q, y>>]
      <4>1. y \in LiveIn(p.heap) /\ size(p.heap, y) <= k
        BY <1>1, <1>3, <2>1, <2>5, <3>3
      <4>2. y \in LiveIn(q.heap) /\ size(q.heap, y) <= k
        BY <1>4, <2>5, <3>3, <4>1
      <4>3. QED
        BY <2>4, <3>3, <4>2
    <3>4. Copier(f) /\ Pairer(f)
      BY <1>5, <2>3
    <3> HIDE DEF f, g
    <3>5. CopyBy(f, p, w) = CopyBy(g, p, w)
      BY <2>5, <3>3, <3>4, CopyByKids
    <3>6. QED
      BY <3>2, <3>5 DEF f
  <2>6. QED
    BY <2>5
<1>9. to \in SUBSET Nat
  OBVIOUS
<1>10. n - 1 \in Nat /\ n - 1 < n /\ (n - 1) + 1 = n /\ n # 0 /\ n \in 0 .. n
  BY <1>1, <1>3
<1>11. Settled(n - 1)
  <2>1. n - 1 \in to
    <3> HIDE DEF to
    <3>1. to = Nat
      BY <1>7, <1>8, <1>9, SetInduction
    <3>2. QED
      BY <1>10, <3>1
  <2>2. QED
    BY <1>10, <2>1
<1> DEFINE D == [x \in Memories \X Nodes |-> json_value_deep_copy(x[1], x[2])]
           f == copied[n]
           g == copied[n - 1]
<1>12. m \in Memories /\ v \in Nodes
  BY DEF Fine, LiveIn
<1>13. f[<<m, v>>] = CopyBy(g, m, v)
  BY <1>6, <1>10, <1>12
<1>14. \A p, w : p \in Memories /\ w \in Nodes => D[<<p, w>>] = f[<<p, w>>]
  BY <1>2
<1>15. ASSUME NEW p, NEW Q, NEW y, Fine(p, Q, T), Kept(p.heap, m.heap), y \in Kids(m.heap, v)
       PROVE  f[<<p, y>>] = g[<<p, y>>] /\ f[<<p, y>>] = D[<<p, y>>]
  <2>1. y \in LiveIn(m.heap) /\ y \in Nodes /\ size(m.heap, y) <= n - 1
    BY <1>1, <1>3, <1>15
  <2>2. y \in LiveIn(p.heap) /\ size(p.heap, y) <= n - 1
    BY <1>4, <1>15, <2>1
  <2>3. copied[(n - 1) + 1][<<p, y>>] = copied[n - 1][<<p, y>>]
    BY <1>11, <1>15, <2>2
  <2>4. f[<<p, y>>] = g[<<p, y>>]
    BY <1>10, <2>3
  <2>5. p \in Memories
    BY <1>15 DEF Fine
  <2>6. QED
    BY <1>14, <2>1, <2>4, <2>5
<1>16. Copier(f) /\ Pairer(f)
  BY <1>5, <1>10
<1>17. json_value_deep_copy(m, v) = f[<<m, v>>]
  BY <1>2
<1> HIDE DEF D, f, g
<1>18. CopyBy(f, m, v) = CopyBy(g, m, v) /\ CopyBy(f, m, v) = CopyBy(D, m, v)
  BY <1>15, <1>16, CopyByKids
<1>19. QED
  BY <1>13, <1>17, <1>18 DEF D

\* What the code says of a value in terms of its items.
Unfolds ==
    \A a, b \in Live :
        /\ Doc(heap, a) = DocBy([n \in Nodes |-> Doc(heap, n)], heap, a)
        /\ json_value_equals(heap, a, b)
             <=> EqualBy([p \in Nodes \X Nodes |-> json_value_equals(heap, p[1], p[2])], heap, a, b)
        /\ json_validate(heap, a, b)
             <=> ValidBy([p \in Nodes \X Nodes |-> json_validate(heap, p[1], p[2])], heap, a, b)
        /\ \A fuel \in Fuels :
              json_value_deep_copy(Memory(heap, fuel), a)
                = CopyBy([x \in Memories \X Nodes |-> json_value_deep_copy(x[1], x[2])],
                         Memory(heap, fuel), a)

LEMMA TreesUnfold == IInv => Unfolds
<1>1. SUFFICES ASSUME IInv, NEW a \in Live, NEW b \in Live
               PROVE  /\ Doc(heap, a) = DocBy([n \in Nodes |-> Doc(heap, n)], heap, a)
                      /\ json_value_equals(heap, a, b)
                           <=> EqualBy([p \in Nodes \X Nodes |-> json_value_equals(heap, p[1], p[2])],
                                       heap, a, b)
                      /\ json_validate(heap, a, b)
                           <=> ValidBy([p \in Nodes \X Nodes |-> json_validate(heap, p[1], p[2])],
                                       heap, a, b)
                      /\ \A fuel \in Fuels :
                            json_value_deep_copy(Memory(heap, fuel), a)
                              = CopyBy([x \in Memories \X Nodes |-> json_value_deep_copy(x[1], x[2])],
                                       Memory(heap, fuel), a)
  BY DEF Unfolds
<1>2. Whole(heap) /\ Forest(heap, roots) /\ a \in LiveIn(heap) /\ b \in LiveIn(heap)
  BY <1>1 DEF IInv, Good, Forest, Whole, Live, LiveIn
<1>3. Doc(heap, a) = DocBy([n \in Nodes |-> Doc(heap, n)], heap, a)
  BY <1>2, DocUnfolds
<1>4. json_value_equals(heap, a, b)
        <=> EqualBy([p \in Nodes \X Nodes |-> json_value_equals(heap, p[1], p[2])], heap, a, b)
  BY <1>2, EqualsUnfold
<1>5. json_validate(heap, a, b)
        <=> ValidBy([p \in Nodes \X Nodes |-> json_validate(heap, p[1], p[2])], heap, a, b)
  BY <1>2, ValidUnfolds
<1>6. ASSUME NEW fuel \in Fuels
      PROVE  json_value_deep_copy(Memory(heap, fuel), a)
               = CopyBy([x \in Memories \X Nodes |-> json_value_deep_copy(x[1], x[2])],
                        Memory(heap, fuel), a)
  <2> DEFINE m == Memory(heap, fuel)
  <2>1. Fine(m, roots, returned) /\ a \in LiveIn(m.heap)
    BY <1>1, <1>2, FuelsAssumption, FineMemory
  <2> HIDE DEF m
  <2>2. json_value_deep_copy(m, a)
          = CopyBy([x \in Memories \X Nodes |-> json_value_deep_copy(x[1], x[2])], m, a)
    BY <2>1, CopyUnfolds
  <2>3. QED
    BY <2>2 DEF m
<1>7. QED
  BY <1>3, <1>4, <1>5, <1>6

(***************************************************************************)
(* The levels that stand for the recursion of json_value_equals(), of      *)
(* json_validate() and of json_value_deep_copy() are enough: the outcome   *)
(* for a value is what the code makes of the outcomes for its items, and   *)
(* so is a document.                                                       *)
(***************************************************************************)
THEOREM LevelsSuffice == Spec => []Unfolds
<1>1. IInv => Unfolds
  BY TreesUnfold
<1>2. QED
  BY <1>1, Trees, PTL

-----------------------------------------------------------------------------
\* Copies

\* At every level twins are described alike, so they are the same document.
LEMMA TwinsAreSame ==
  ASSUME NEW h, Whole(h), NEW rel, Twins(h, rel), NEW a, NEW b, <<a, b>> \in rel
  PROVE  Doc(h, a) = Doc(h, b)
<1> DEFINE n == Cardinality(Nodes)
<1>1. n \in Nat
  BY NodesAssumption, FS_CardinalityType
<1>2. PICK doc : Describing(doc, h, n) /\ \A x : Doc(h, x) = doc[n][x]
  BY <1>1, DocParts
<1> HIDE DEF n
<1>3. \A k \in 0 .. n, x \in LiveIn(h) :
         doc[k][x] = IF k = 0 THEN NULL ELSE DocBy(doc[k - 1], h, x)
  <2>1. SUFFICES ASSUME NEW k \in 0 .. n, NEW x \in LiveIn(h)
                 PROVE  doc[k][x] = IF k = 0 THEN NULL ELSE DocBy(doc[k - 1], h, x)
    OBVIOUS
  <2>2. doc[k] = [v \in Nodes |-> IF k = 0 THEN NULL ELSE DocBy(doc[k - 1], h, v)]
    BY <1>2 DEF Describing
  <2>3. QED
    BY <2>2 DEF LiveIn
<1> DEFINE to == {k \in Nat : k <= n => \A x, y : <<x, y>> \in rel => doc[k][x] = doc[k][y]}
<1>4. \A x, y : <<x, y>> \in rel => x \in LiveIn(h) /\ y \in LiveIn(h)
  BY DEF Twins, Twin
<1>5. 0 \in to
  BY <1>1, <1>3, <1>4
<1>6. ASSUME NEW k \in to PROVE k + 1 \in to
  <2>1. k \in Nat /\ k + 1 \in Nat
    OBVIOUS
  <2>2. SUFFICES ASSUME k + 1 <= n, NEW x, NEW y, <<x, y>> \in rel
                 PROVE  doc[k + 1][x] = doc[k + 1][y]
    BY <2>1
  <2>3. k <= n /\ k + 1 \in 0 .. n /\ (k + 1) - 1 = k /\ k + 1 # 0
    BY <1>1, <2>1, <2>2
  <2> DEFINE d == doc[k]
  <2>4. \A p, q : <<p, q>> \in rel => d[p] = d[q]
    BY <2>3
  <2>5. doc[k + 1][x] = DocBy(d, h, x) /\ doc[k + 1][y] = DocBy(d, h, y)
    BY <1>3, <1>4, <2>2, <2>3
  <2> HIDE DEF d
  <2>6. Twin(h, rel, x, y) /\ x \in LiveIn(h) /\ y \in LiveIn(h)
    BY <1>4, <2>2 DEF Twins
  <2>7. \A i \in 1 .. Len(h[x].items) : d[h[x].items[i]] = d[h[y].items[i]]
    BY <2>4, <2>6 DEF Twin
  <2>8. ASSUME h[x].type = "object", NEW name \in ToSet(h[x].names)
        PROVE  d[json_object_getn_value(h, x, name)] = d[json_object_getn_value(h, y, name)]
    <3>1. PICK i \in 1 .. Len(h[x].items) : h[x].names[i] = name
      BY <2>6, <2>8, MemberOf
    <3>2. json_object_getn_value(h, x, h[x].names[i]) = h[x].items[i]
      BY <2>6, <2>8, MemberOf
    <3>3. h[y].type = "object" /\ i \in 1 .. Len(h[y].items) /\ h[y].names[i] = name
      BY <2>6, <2>8, <3>1 DEF Twin
    <3>4. json_object_getn_value(h, y, h[y].names[i]) = h[y].items[i]
      BY <2>6, <3>3, MemberOf
    <3>5. QED
      BY <2>7, <3>1, <3>2, <3>3, <3>4
  <2>9. Matched(d, h, x, y)
    BY <2>6, <2>7, <2>8 DEF Matched, Twin
  <2>10. DocBy(d, h, x) = DocBy(d, h, y)
    BY <2>6, <2>9, DocMatched
  <2>11. QED
    BY <2>5, <2>10
<1>7. to \in SUBSET Nat
  OBVIOUS
<1>8. n \in to
  <2> HIDE DEF to
  <2>1. to = Nat
    BY <1>5, <1>6, <1>7, SetInduction
  <2>2. QED
    BY <1>1, <2>1
<1>9. QED
  BY <1>1, <1>2, <1>8

\* What was live is described as it was.
LEMMA DocKept ==
  ASSUME NEW h, Whole(h), NEW g, Kept(g, h), NEW a \in LiveIn(h)
  PROVE  Doc(g, a) = Doc(h, a)
<1> DEFINE n == Cardinality(Nodes)
<1>1. n \in Nat
  BY NodesAssumption, FS_CardinalityType
<1>2. PICK old : Describing(old, h, n) /\ \A x : Doc(h, x) = old[n][x]
  BY <1>1, DocParts
<1>3. PICK new : Describing(new, g, n) /\ \A x : Doc(g, x) = new[n][x]
  BY <1>1, DocParts
<1> HIDE DEF n
<1>4. ASSUME NEW k \in 0 .. n, NEW x \in LiveIn(h)
      PROVE  /\ old[k][x] = IF k = 0 THEN NULL ELSE DocBy(old[k - 1], h, x)
             /\ new[k][x] = IF k = 0 THEN NULL ELSE DocBy(new[k - 1], g, x)
  <2>1. /\ old[k] = [v \in Nodes |-> IF k = 0 THEN NULL ELSE DocBy(old[k - 1], h, v)]
        /\ new[k] = [v \in Nodes |-> IF k = 0 THEN NULL ELSE DocBy(new[k - 1], g, v)]
    BY <1>2, <1>3 DEF Describing
  <2>2. QED
    BY <2>1 DEF LiveIn
<1> DEFINE to == {k \in Nat : k <= n => \A x \in LiveIn(h) : new[k][x] = old[k][x]}
<1>5. 0 \in to
  BY <1>1, <1>4
<1>6. ASSUME NEW k \in to PROVE k + 1 \in to
  <2>1. k \in Nat /\ k + 1 \in Nat
    OBVIOUS
  <2>2. SUFFICES ASSUME k + 1 <= n, NEW x \in LiveIn(h) PROVE new[k + 1][x] = old[k + 1][x]
    BY <2>1
  <2>3. k <= n /\ k + 1 \in 0 .. n /\ (k + 1) - 1 = k /\ k + 1 # 0
    BY <1>1, <2>1, <2>2
  <2> DEFINE d == old[k]
             e == new[k]
  <2>4. \A y \in Kids(h, x) : e[y] = d[y]
    <3>1. Kids(h, x) \subseteq LiveIn(h)
      BY DEF Whole
    <3>2. QED
      BY <2>3, <3>1
  <2>5. new[k + 1][x] = DocBy(e, g, x) /\ old[k + 1][x] = DocBy(d, h, x)
    BY <1>4, <2>3
  <2> HIDE DEF d, e
  <2>6. DocBy(e, h, x) = DocBy(d, h, x)
    BY <2>4, DocByKids
  <2>7. DocBy(e, g, x) = DocBy(e, h, x)
    <3>1. g[x] = h[x]
      BY DEF Kept
    <3>2. \A name : json_object_getn_value(g, x, name) = json_object_getn_value(h, x, name)
      <4>1. SUFFICES ASSUME NEW name
                     PROVE  json_object_getn_value(g, x, name) = json_object_getn_value(h, x, name)
        OBVIOUS
      <4> DEFINE at(cell) == {i \in DOMAIN cell.names : cell.names[i] = name}
                 index(cell) == IF at(cell) = {} THEN 0
                                ELSE CHOOSE i \in at(cell) : \A j \in at(cell) : i <= j
                 value(cell) == IF index(cell) = 0 THEN NULL ELSE cell.items[index(cell)]
      <4>2. /\ json_object_getn_value(g, x, name) = value(g[x])
            /\ json_object_getn_value(h, x, name) = value(h[x])
        BY Zenon DEF json_object_getn_value, IndexOf
      <4> HIDE DEF value
      <4>3. QED
        BY <3>1, <4>2
    <3>3. QED
      BY <3>1, <3>2, Zenon DEF DocBy
  <2>8. QED
    BY <2>5, <2>6, <2>7
<1>7. to \in SUBSET Nat
  OBVIOUS
<1>8. n \in to
  <2> HIDE DEF to
  <2>1. to = Nat
    BY <1>5, <1>6, <1>7, SetInduction
  <2>2. QED
    BY <1>1, <2>1
<1>9. QED
  BY <1>1, <1>2, <1>3, <1>8

\* If nothing but what was there is owned, nothing else is there.
LEMMA NothingLeft ==
  ASSUME NEW h, NEW R, NEW T, Good(h, R, T), NEW g, Good(g, R, T), Kept(g, h)
  PROVE  g = h
<1> DEFINE more == LiveIn(g) \ LiveIn(h)
<1>1. /\ Forest(h, R) /\ Forest(g, R) /\ g \in Heaps /\ h \in Heaps
      /\ LiveIn(h) \subseteq LiveIn(g) /\ \A n \in LiveIn(h) : g[n] = h[n]
  BY KeptLive DEF Good, Sound, Kept
<1>2. more = {}
  <2>1. SUFFICES ASSUME more # {} PROVE FALSE
    OBVIOUS
  <2>2. PICK s \in more : \A c \in more : s \notin Kids(g, c)
    <3>1. more \in SUBSET LiveIn(g)
      OBVIOUS
    <3> HIDE DEF more
    <3>2. QED
      BY <1>1, <2>1, <3>1 DEF Forest
  <2>3. s \in LiveIn(g) \ R /\ s \notin LiveIn(h)
    BY <1>1 DEF Forest
  <2>4. PICK c \in LiveIn(g) : s \in Kids(g, c)
    BY <1>1, <2>3 DEF Forest
  <2>5. c \in LiveIn(h)
    BY <2>2, <2>4
  <2>6. s \in Kids(h, c)
    BY <1>1, <2>4, <2>5 DEF Kids
  <2>7. QED
    BY <1>1, <2>3, <2>5, <2>6 DEF Forest
<1>3. LiveIn(g) = LiveIn(h)
  BY <1>1, <1>2
<1>4. \A n \in Nodes : g[n] = h[n]
  BY <1>1, <1>3 DEF LiveIn
<1>5. QED
  BY <1>1, <1>4 DEF Heaps

\* What json_value_deep_copy() comes to, whichever allocation fails.
CopiesDocuments ==
    \A v \in Live, fuel \in Fuels :
        LET copy == json_value_deep_copy(Memory(heap, fuel), v)
        IN  IF copy.ok
            THEN /\ copy.got \in Nodes \ Live /\ \A n \in Live : copy.heap[n] = heap[n]
                 /\ Doc(copy.heap, copy.got) = Doc(heap, v)
                 /\ json_value_equals(copy.heap, v, copy.got)
            ELSE copy.heap = heap

LEMMA TreesCopied == IInv => CopiesDocuments
<1>1. SUFFICES ASSUME IInv, NEW v \in Live, NEW fuel \in Fuels
               PROVE  LET copy == json_value_deep_copy(Memory(heap, fuel), v)
                      IN  IF copy.ok
                          THEN /\ copy.got \in Nodes \ Live
                               /\ \A n \in Live : copy.heap[n] = heap[n]
                               /\ Doc(copy.heap, copy.got) = Doc(heap, v)
                               /\ json_value_equals(copy.heap, v, copy.got)
                          ELSE copy.heap = heap
  BY DEF CopiesDocuments
<1> DEFINE m == Memory(heap, fuel)
           copy == json_value_deep_copy(m, v)
           g == copy.heap
           w == copy.got
           h == heap
<1>2. Fine(m, roots, returned) /\ m.heap = h
  BY <1>1, FuelsAssumption, FineMemory
<1>3. LiveIn(h) = Live /\ v \in LiveIn(h)
  BY DEF LiveIn, Live
<1> HIDE DEF m, h
<1>4. Copies(copy, m, roots, returned) /\ Paired(copy, m, LiveIn(h), v)
  BY <1>2, <1>3, FineDeepCopy
<1>5. Good(h, roots, returned) /\ Whole(h)
  BY <1>2 DEF Fine, Good, Forest, Whole
<1> HIDE DEF copy
<1>6. Kept(g, h) /\ copy.ok \in BOOLEAN
  BY <1>2, <1>4 DEF Copies
<1>7. CASE copy.ok
  <2>1. w \in Nodes \ LiveIn(h) /\ Fine(copy, roots \cup {w}, returned)
    BY <1>2, <1>4, <1>7 DEF Copies
  <2>2. Whole(g) /\ w \in LiveIn(g) /\ v \in LiveIn(g)
    BY <1>3, <1>6, <2>1, KeptLive DEF Fine, Good, Forest, Whole
  <2>3. PICK rel : Twins(g, rel) /\ <<v, w>> \in rel
    BY <1>4, <1>7 DEF Paired
  <2>4. Doc(g, v) = Doc(g, w)
    BY <2>2, <2>3, TwinsAreSame
  <2>5. Doc(g, v) = Doc(h, v)
    BY <1>3, <1>5, <1>6, DocKept
  <2>6. json_value_equals(g, v, w)
    BY <2>2, <2>4, Compared
  <2>7. \A n \in Live : g[n] = h[n]
    BY <1>3, <1>6 DEF Kept
  <2>8. QED
    BY <1>3, <1>7, <2>1, <2>4, <2>5, <2>6, <2>7 DEF copy, m, h
<1>8. CASE ~copy.ok
  <2>1. Good(g, roots, returned)
    BY <1>4, <1>8 DEF Copies, Fine
  <2>2. g = h
    BY <1>5, <1>6, <2>1, NothingLeft
  <2>3. QED
    BY <1>8, <2>2 DEF copy, m, h
<1>9. QED
  BY <1>6, <1>7, <1>8

(***************************************************************************)
(* json_value_deep_copy() returns a new value that is the same document,   *)
(* which json_value_equals() confirms, and changes no value there was; if  *)
(* it runs out of memory on the way, it leaves the memory as it found it.  *)
(***************************************************************************)
THEOREM CopiesAreEqual == Spec => []CopiesDocuments
<1>1. IInv => CopiesDocuments
  BY TreesCopied
<1>2. QED
  BY <1>1, Trees, PTL
=============================================================================
