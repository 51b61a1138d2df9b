------------------------ MODULE HttpExchange_proofs ------------------------
(***************************************************************************)
(* Theorems about HttpReceive, for every set of framed replies and however *)
(* many symbols one read() returns, and then about HttpExchange.  There    *)
(* the connection carries exactly the calls that HttpReceive describes, so *)
(* what is proved of one call holds in the whole exchange; and what the    *)
(* server hears is what the handler asked for.                             *)
(***************************************************************************)
EXTENDS HttpExchange, NatSets, FiniteSetTheorems, SequenceTheorems

Symbols == {"CR", "LF", "CL", "D", "X", "B"}

-----------------------------------------------------------------------------
\* Prefixes

\* A message is a first part of itself.
LEMMA PrefixSelf ==
  ASSUME NEW S, NEW s \in Seq(S) PROVE Prefix(s, s)
  BY SubSeqFull DEF Prefix

\* Two first parts of one message agree where both have symbols.
LEMMA PrefixAt ==
  ASSUME NEW S, NEW s \in Seq(S), NEW t \in Seq(S), Prefix(s, t)
  PROVE  Len(s) <= Len(t) /\ \A k \in 1 .. Len(s) : s[k] = t[k]
<1>1. Len(s) \in Nat /\ Len(t) \in Nat /\ Len(s) <= Len(t) /\ s = SubSeq(t, 1, Len(s))
  BY DEF Prefix
<1>2. \A k \in 1 .. Len(s) : t[k] \in S
  BY <1>1, ElementOfSeq
<1>3. \A k \in 1 .. Len(s) - 1 + 1 : SubSeq(t, 1, Len(s))[k] = t[1 + k - 1]
  BY <1>1, <1>2, SubSeqProperties
<1>4. QED
  BY <1>1, <1>3

\* What agrees with a message, symbol by symbol, is a first part of it.
LEMMA PrefixOf ==
  ASSUME NEW S, NEW s \in Seq(S), NEW t \in Seq(S), Len(s) <= Len(t),
         \A k \in 1 .. Len(s) : s[k] = t[k]
  PROVE  Prefix(s, t)
<1>1. Len(s) \in Nat /\ Len(t) \in Nat
  OBVIOUS
<1>2. \A k \in 1 .. Len(s) : t[k] \in S
  BY <1>1, ElementOfSeq
<1>3. /\ SubSeq(t, 1, Len(s)) \in Seq(S)
      /\ Len(SubSeq(t, 1, Len(s))) = IF 1 <= Len(s) THEN Len(s) - 1 + 1 ELSE 0
      /\ \A k \in 1 .. Len(s) - 1 + 1 : SubSeq(t, 1, Len(s))[k] = t[1 + k - 1]
  BY <1>1, <1>2, SubSeqProperties
<1>4. Len(SubSeq(t, 1, Len(s))) = Len(s) /\ \A k \in 1 .. Len(s) : SubSeq(t, 1, Len(s))[k] = s[k]
  BY <1>1, <1>3
<1>5. s = SubSeq(t, 1, Len(s))
  BY <1>3, <1>4, SeqEqual
<1>6. QED
  BY <1>5 DEF Prefix

\* A first part of a first part is a first part.
LEMMA PrefixTransitive ==
  ASSUME NEW S, NEW s \in Seq(S), NEW t \in Seq(S), NEW u \in Seq(S),
         Prefix(s, t), Prefix(t, u)
  PROVE  Prefix(s, u)
<1>1. Len(s) \in Nat /\ Len(t) \in Nat /\ Len(u) \in Nat
  OBVIOUS
<1>2. Len(s) <= Len(t) /\ \A k \in 1 .. Len(s) : s[k] = t[k]
  BY PrefixAt
<1>3. Len(t) <= Len(u) /\ \A k \in 1 .. Len(t) : t[k] = u[k]
  BY PrefixAt
<1>4. Len(s) <= Len(u) /\ \A k \in 1 .. Len(s) : s[k] = u[k]
  BY <1>1, <1>2, <1>3
<1>5. QED
  BY <1>4, PrefixOf

\* What has been read is a first part of what has been sent.
LEMMA PrefixConcat ==
  ASSUME NEW S, NEW s \in Seq(S), NEW t \in Seq(S)
  PROVE  Prefix(s, s \o t)
<1>1. /\ s \o t \in Seq(S) /\ Len(s) \in Nat /\ Len(t) \in Nat
      /\ Len(s \o t) = Len(s) + Len(t)
      /\ \A k \in 1 .. Len(s) + Len(t) : (s \o t)[k] = IF k <= Len(s) THEN s[k] ELSE t[k - Len(s)]
  BY ConcatProperties
<1>2. Len(s) <= Len(s \o t) /\ \A k \in 1 .. Len(s) : s[k] = (s \o t)[k]
  BY <1>1
<1>3. QED
  BY <1>1, <1>2, PrefixOf

\* Cutting the end off what is under way leaves a first part.
LEMMA PrefixCut ==
  ASSUME NEW S, NEW s \in Seq(S), NEW t \in Seq(S), NEW n \in 0 .. Len(t)
  PROVE  SubSeq(t, 1, n) \in Seq(S) /\ Prefix(s \o SubSeq(t, 1, n), s \o t)
<1> DEFINE u == SubSeq(t, 1, n)
<1>1. Len(t) \in Nat /\ Len(s) \in Nat /\ \A k \in 1 .. n : t[k] \in S
  BY ElementOfSeq
<1>2. u \in Seq(S) /\ Len(u) = n /\ \A k \in 1 .. n : u[k] = t[k]
  <2>1. /\ u \in Seq(S) /\ Len(u) = IF 1 <= n THEN n - 1 + 1 ELSE 0
        /\ \A k \in 1 .. n - 1 + 1 : u[k] = t[1 + k - 1]
    BY <1>1, SubSeqProperties
  <2>2. QED
    BY <1>1, <2>1
<1> HIDE DEF u
<1>3. /\ s \o t \in Seq(S) /\ Len(s \o t) = Len(s) + Len(t)
      /\ \A k \in 1 .. Len(s) + Len(t) : (s \o t)[k] = IF k <= Len(s) THEN s[k] ELSE t[k - Len(s)]
  BY ConcatProperties
<1>4. /\ s \o u \in Seq(S) /\ Len(s \o u) = Len(s) + n
      /\ \A k \in 1 .. Len(s) + n : (s \o u)[k] = IF k <= Len(s) THEN s[k] ELSE u[k - Len(s)]
  BY <1>2, ConcatProperties
<1>5. Len(s \o u) <= Len(s \o t) /\ \A k \in 1 .. Len(s \o u) : (s \o u)[k] = (s \o t)[k]
  BY <1>1, <1>2, <1>3, <1>4
<1>6. Prefix(s \o u, s \o t)
  BY <1>3, <1>4, <1>5, PrefixOf
<1>7. QED
  BY <1>2, <1>6 DEF u

\* A first part of t moves to the end of s.
LEMMA MovedOn ==
  ASSUME NEW S
  PROVE  \A s, t \in Seq(S) : \A n \in 1 .. Len(t) :
            /\ t # <<>>
            /\ s \o SubSeq(t, 1, n) \in Seq(S) /\ SubSeq(t, n + 1, Len(t)) \in Seq(S)
            /\ (s \o SubSeq(t, 1, n)) \o SubSeq(t, n + 1, Len(t)) = s \o t
<1>0. \A a, b, c \in Seq(S) : (a \o b) \o c = a \o (b \o c)
  BY ConcatAssociative
<1> TAKE s, t \in Seq(S)
<1> TAKE n \in 1 .. Len(t)
<1> DEFINE piece == SubSeq(t, 1, n)
           rest == SubSeq(t, n + 1, Len(t))
<1>1. Len(t) \in Nat /\ n \in Nat /\ n <= Len(t)
  OBVIOUS
<1>2. \A k \in 1 .. Len(t) : t[k] \in S
  BY ElementOfSeq
<1>3. piece \in Seq(S)
  BY <1>1, <1>2, SubSeqProperties
<1>4. rest \in Seq(S)
  BY <1>1, <1>2, SubSeqProperties
<1>5. piece \o rest = SubSeq(t, 1, Len(t))
  <2>1. 1 \in 1 .. Len(t) + 1 /\ n \in 1 - 1 .. Len(t) /\ Len(t) \in n .. Len(t)
    BY <1>1
  <2>2. QED
    BY <2>1, ConcatAdjacentSubSeq
<1>6. piece \o rest = t
  BY <1>5, SubSeqFull
<1> HIDE DEF piece, rest
<1>7. s \o piece \in Seq(S)
  BY <1>3, ConcatProperties
<1>8. (s \o piece) \o rest = s \o t
  <2>1. (s \o piece) \o rest = s \o (piece \o rest)
    BY <1>0, <1>3, <1>4
  <2>2. QED
    BY <1>6, <2>1
<1>9. t # <<>>
  BY <1>1
<1>10. QED
  BY <1>4, <1>7, <1>8, <1>9 DEF piece, rest

-----------------------------------------------------------------------------
\* buffer_find() and strtol()

\* The symbols behind place i of buf are the pattern's.
Lies(buf, pattern, i) == \A k \in 1 .. Len(pattern) : buf[i + k] = pattern[k]

\* Comparing a piece of a buffer with a pattern is comparing their symbols.
LEMMA SamePiece ==
  ASSUME NEW S, NEW buf \in Seq(S), NEW pattern \in Seq(S),
         NEW i \in 0 .. Len(buf) - Len(pattern)
  PROVE  SubSeq(buf, i + 1, i + Len(pattern)) = pattern <=> Lies(buf, pattern, i)
<1> DEFINE piece == SubSeq(buf, i + 1, i + Len(pattern))
<1>1. Len(buf) \in Nat /\ Len(pattern) \in Nat /\ i \in Nat /\ i + Len(pattern) <= Len(buf)
  OBVIOUS
<1>2. \A k \in i + 1 .. i + Len(pattern) : buf[k] \in S
  BY <1>1, ElementOfSeq
<1>3. /\ piece \in Seq(S)
      /\ Len(piece) = IF i + 1 <= i + Len(pattern) THEN i + Len(pattern) - (i + 1) + 1 ELSE 0
      /\ \A k \in 1 .. i + Len(pattern) - (i + 1) + 1 : piece[k] = buf[i + 1 + k - 1]
  BY <1>1, <1>2, SubSeqProperties
<1> HIDE DEF piece
<1>4. Len(piece) = Len(pattern) /\ \A k \in 1 .. Len(pattern) : piece[k] = buf[i + k]
  BY <1>1, <1>3
<1>5. ASSUME piece = pattern PROVE Lies(buf, pattern, i)
  BY <1>4, <1>5 DEF Lies
<1>6. ASSUME Lies(buf, pattern, i) PROVE piece = pattern
  <2>1. \A k \in 1 .. Len(piece) : piece[k] = pattern[k]
    BY <1>4, <1>6 DEF Lies
  <2>2. QED
    BY <1>3, <1>4, <2>1, SeqEqual
<1>7. QED
  BY <1>5, <1>6 DEF piece

\* buffer_find() returns -1 if the pattern lies nowhere, else its first place.
LEMMA Found ==
  ASSUME NEW S, NEW buf \in Seq(S), NEW pattern \in Seq(S)
  PROVE  \/ /\ buffer_find(buf, pattern) = -1
            /\ \A i \in 0 .. Len(buf) - Len(pattern) : ~Lies(buf, pattern, i)
         \/ /\ buffer_find(buf, pattern) \in 0 .. Len(buf) - Len(pattern)
            /\ Lies(buf, pattern, buffer_find(buf, pattern))
            /\ \A i \in 0 .. Len(buf) - Len(pattern) :
                  Lies(buf, pattern, i) => buffer_find(buf, pattern) <= i
<1> DEFINE at == {i \in 0 .. Len(buf) - Len(pattern) :
                    SubSeq(buf, i + 1, i + Len(pattern)) = pattern}
           first == CHOOSE i \in at : \A j \in at : i <= j
<1>1. buffer_find(buf, pattern) = IF at = {} THEN -1 ELSE first
  BY DEF buffer_find
<1>2. \A i \in 0 .. Len(buf) - Len(pattern) : i \in at <=> Lies(buf, pattern, i)
  BY SamePiece
<1>3. at \in SUBSET Nat /\ at \subseteq 0 .. Len(buf) - Len(pattern)
  OBVIOUS
<1> HIDE DEF at
<1>4. CASE at = {}
  BY <1>1, <1>2, <1>4
<1>5. CASE at # {}
  <2>1. \E i \in at : \A j \in at : i <= j
    BY <1>3, <1>5, Smallest
  <2>2. first \in at /\ \A j \in at : first <= j
    BY <2>1
  <2>3. buffer_find(buf, pattern) = first
    BY <1>1, <1>5
  <2> HIDE DEF first
  <2>4. QED
    BY <1>2, <1>3, <2>2, <2>3
<1>6. QED
  BY <1>4, <1>5

\* What is found in the first part of a message is found there in the whole.
LEMMA FoundInPrefix ==
  ASSUME NEW S, NEW b \in Seq(S), NEW r \in Seq(S), Prefix(b, r),
         NEW pattern \in Seq(S), buffer_find(b, pattern) >= 0
  PROVE  buffer_find(r, pattern) = buffer_find(b, pattern)
<1> DEFINE i == buffer_find(b, pattern)
           j == buffer_find(r, pattern)
<1>1. Len(b) \in Nat /\ Len(r) \in Nat /\ Len(pattern) \in Nat
  OBVIOUS
<1>2. Len(b) <= Len(r) /\ \A k \in 1 .. Len(b) : b[k] = r[k]
  BY PrefixAt
<1>3. /\ i \in 0 .. Len(b) - Len(pattern) /\ Lies(b, pattern, i)
      /\ \A k \in 0 .. Len(b) - Len(pattern) : Lies(b, pattern, k) => i <= k
  BY <1>1, Found
<1>4. \/ j = -1 /\ \A k \in 0 .. Len(r) - Len(pattern) : ~Lies(r, pattern, k)
      \/ /\ j \in 0 .. Len(r) - Len(pattern) /\ Lies(r, pattern, j)
         /\ \A k \in 0 .. Len(r) - Len(pattern) : Lies(r, pattern, k) => j <= k
  BY Found
<1>5. \A k \in 0 .. Len(b) - Len(pattern) : Lies(b, pattern, k) <=> Lies(r, pattern, k)
  <2>1. TAKE k \in 0 .. Len(b) - Len(pattern)
  <2>2. \A n \in 1 .. Len(pattern) : k + n \in 1 .. Len(b)
    BY <1>1
  <2>3. QED
    BY <1>2, <2>2 DEF Lies
<1> HIDE DEF i, j
<1>6. i \in 0 .. Len(r) - Len(pattern) /\ Lies(r, pattern, i)
  BY <1>1, <1>2, <1>3, <1>5
<1>7. j \in 0 .. Len(r) - Len(pattern) /\ Lies(r, pattern, j) /\ j <= i
  BY <1>1, <1>4, <1>6
<1>8. j \in 0 .. Len(b) - Len(pattern)
  BY <1>1, <1>3, <1>7
<1>9. i <= j
  BY <1>3, <1>5, <1>7, <1>8
<1>10. QED
  BY <1>1, <1>3, <1>7, <1>9 DEF i, j

\* k is the length of the number behind the first n symbols of buf.
Digits(buf, n, k) ==
    /\ k \in 0 .. Len(buf) - n
    /\ \A i \in 1 .. k : buf[n + i] = "D"
    /\ n + k < Len(buf) => buf[n + k + 1] # "D"

\* A number has one length.
LEMMA OneNumber ==
  ASSUME NEW buf \in Seq(Symbols), NEW n \in 0 .. Len(buf), NEW k, NEW m,
         Digits(buf, n, k), Digits(buf, n, m)
  PROVE  k = m
<1>1. Len(buf) \in Nat /\ n \in Nat /\ k \in Nat /\ m \in Nat
      /\ n + k <= Len(buf) /\ n + m <= Len(buf)
  BY DEF Digits
<1>2. ~(k < m)
  <2>1. SUFFICES ASSUME k < m PROVE FALSE
    OBVIOUS
  <2>2. n + k < Len(buf) /\ k + 1 \in 1 .. m /\ n + (k + 1) = n + k + 1
    BY <1>1, <2>1
  <2>3. QED
    BY <2>2 DEF Digits
<1>3. ~(m < k)
  <2>1. SUFFICES ASSUME m < k PROVE FALSE
    OBVIOUS
  <2>2. n + m < Len(buf) /\ m + 1 \in 1 .. k /\ n + (m + 1) = n + m + 1
    BY <1>1, <2>1
  <2>3. QED
    BY <2>2 DEF Digits
<1>4. QED
  BY <1>1, <1>2, <1>3

\* strtol() finds it.
LEMMA NumberRead ==
  ASSUME NEW buf \in Seq(Symbols), NEW n \in 0 .. Len(buf)
  PROVE  Digits(buf, n, strtol(buf, n))
<1> DEFINE ends == {k \in 0 .. Len(buf) - n : n + k < Len(buf) => buf[n + k + 1] # "D"}
<1>1. Len(buf) \in Nat /\ n \in Nat /\ n <= Len(buf)
  OBVIOUS
<1>2. Len(buf) - n \in ends /\ ends \in SUBSET Nat
  BY <1>1
<1>3. PICK k \in ends : \A m \in ends : k <= m
  BY <1>2, Smallest
<1>4. ASSUME NEW i \in 1 .. k PROVE buf[n + i] = "D"
  <2>1. k \in 0 .. Len(buf) - n /\ i - 1 \in 0 .. Len(buf) - n /\ n + (i - 1) < Len(buf)
        /\ n + (i - 1) + 1 = n + i /\ ~(k <= i - 1)
    BY <1>1, <1>3
  <2>2. i - 1 \notin ends
    BY <1>3, <2>1
  <2>3. QED
    BY <2>1, <2>2
<1>5. Digits(buf, n, k)
  BY <1>3, <1>4 DEF Digits
<1>6. \E m \in 0 .. Len(buf) - n :
         /\ \A i \in 1 .. m : buf[n + i] = "D"
         /\ n + m < Len(buf) => buf[n + m + 1] # "D"
  BY <1>5 DEF Digits
<1>7. QED
  BY <1>6 DEF strtol, Digits

\* A number that ends within the first part of a message is read whole there.
LEMMA NumberInPrefix ==
  ASSUME NEW b \in Seq(Symbols), NEW r \in Seq(Symbols), Prefix(b, r),
         NEW n \in 0 .. Len(b), NEW j \in n + 1 .. Len(b), b[j] # "D"
  PROVE  strtol(r, n) = strtol(b, n)
<1> DEFINE k == strtol(b, n)
<1>1. Len(b) \in Nat /\ Len(r) \in Nat /\ n \in Nat /\ n <= Len(b) /\ j \in Nat
  OBVIOUS
<1>2. Len(b) <= Len(r) /\ \A i \in 1 .. Len(b) : b[i] = r[i]
  BY PrefixAt
<1>3. Digits(b, n, k)
  BY NumberRead
<1> HIDE DEF k
<1>4. k \in Nat /\ n + k < j
  <2>1. k \in Nat /\ \A i \in 1 .. k : b[n + i] = "D"
    BY <1>3 DEF Digits
  <2>2. ASSUME n + k >= j PROVE FALSE
    <3>1. j - n \in 1 .. k /\ n + (j - n) = j
      BY <1>1, <2>1, <2>2
    <3>2. QED
      BY <2>1, <3>1
  <2>3. QED
    BY <1>1, <2>1, <2>2
<1>5. n + k < Len(b) /\ n + k + 1 \in 1 .. Len(b) /\ k \in 0 .. Len(r) - n
  BY <1>1, <1>2, <1>4
<1>6. \A i \in 1 .. k : n + i \in 1 .. Len(b)
  BY <1>1, <1>5
<1>7. Digits(r, n, k)
  BY <1>2, <1>3, <1>5, <1>6 DEF Digits
<1>8. n \in 0 .. Len(r)
  BY <1>1, <1>2
<1>9. Digits(r, n, strtol(r, n))
  BY <1>8, NumberRead
<1>10. QED
  BY <1>7, <1>8, <1>9, OneNumber DEF k

-----------------------------------------------------------------------------
\* The size of a reply

\* The patterns the header is searched for.
LEMMA Patterns ==
  /\ HEADER_TERMINATOR \in Seq(Symbols) /\ Len(HEADER_TERMINATOR) = 4
  /\ HEADER_TERMINATOR[1] = "CR"
  /\ CONTENT_LENGTH \in Seq(Symbols) /\ Len(CONTENT_LENGTH) = 1
  BY DEF HEADER_TERMINATOR, CONTENT_LENGTH, Symbols

\* A reply, or none yet, is a message.
LEMMA Reply ==
  ASSUME NEW r \in Responses \cup {<<>>}
  PROVE  r \in Seq(Symbols)
<1>1. CASE r = <<>>
  BY <1>1, EmptySeq
<1>2. CASE r \in Responses
  BY <1>2, ResponsesAssumption DEF Symbols
<1>3. QED
  BY <1>1, <1>2

\* buffer_find() returns the first place of a pattern.
LEMMA FirstFound ==
  ASSUME NEW S, NEW r \in Seq(S), NEW pattern \in Seq(S), Len(pattern) > 0,
         NEW i \in 0 .. Len(r), FirstAt(r, pattern, i)
  PROVE  buffer_find(r, pattern) = i
<1> DEFINE j == buffer_find(r, pattern)
<1>1. Len(r) \in Nat /\ Len(pattern) \in Nat /\ i \in Nat /\ i \in 0 .. Len(r) - Len(pattern)
  BY DEF FirstAt
<1>2. Lies(r, pattern, i) /\ \A k \in 0 .. i - 1 : ~Lies(r, pattern, k)
  BY DEF FirstAt, Lies
<1>3. \/ j = -1 /\ ~Lies(r, pattern, i)
      \/ j \in 0 .. Len(r) - Len(pattern) /\ Lies(r, pattern, j) /\ j <= i
  BY <1>1, <1>2, Found
<1> HIDE DEF j
<1>4. j \notin 0 .. i - 1
  BY <1>2, <1>3
<1>5. QED
  BY <1>1, <1>2, <1>3, <1>4 DEF j

\* What the framing of a reply says of what the code looks for in it.
LEMMA LengthIsTrue ==
  ASSUME NEW r \in Seq(Symbols), Framed(r)
  PROVE  LET start == buffer_find(r, CONTENT_LENGTH)
             end == buffer_find(r, HEADER_TERMINATOR)
         IN  start < end /\ end + 4 + strtol(r, start + 1) = Len(r)
<1>1. PICK start, end, length \in 0 .. Len(r) :
         /\ FirstAt(r, CONTENT_LENGTH, start) /\ FirstAt(r, HEADER_TERMINATOR, end)
         /\ start < end
         /\ end + Len(HEADER_TERMINATOR) + length = Len(r)
         /\ \A i \in 1 .. length : r[start + 1 + i] = "D"
         /\ r[start + 1 + length + 1] # "D"
  BY DEF Framed
<1> DEFINE cl == CONTENT_LENGTH
           ht == HEADER_TERMINATOR
<1>2. cl \in Seq(Symbols) /\ Len(cl) > 0 /\ ht \in Seq(Symbols) /\ Len(ht) > 0
  BY Patterns
<1>3. FirstAt(r, cl, start) /\ FirstAt(r, ht, end)
  BY <1>1
<1> HIDE DEF cl, ht
<1>4. buffer_find(r, cl) = start /\ buffer_find(r, ht) = end
  BY <1>2, <1>3, FirstFound
<1>5. buffer_find(r, CONTENT_LENGTH) = start
  BY <1>4 DEF cl
<1>6. buffer_find(r, HEADER_TERMINATOR) = end
  BY <1>4 DEF ht
<1>7. Len(r) \in Nat /\ start + 1 \in 0 .. Len(r) /\ length \in 0 .. Len(r) - (start + 1)
  BY <1>1, Patterns
<1>8. Digits(r, start + 1, length)
  BY <1>1, <1>7 DEF Digits
<1>9. strtol(r, start + 1) = length
  BY <1>7, <1>8, NumberRead, OneNumber
<1>10. QED
  BY <1>1, <1>5, <1>6, <1>9, Patterns

\* The size that receive_from_server() computes in the first loop, from the
\* first part of a reply it has read, is the size of the whole reply, and
\* neither the int nor the size_t overflows.
LEMMA SizeFound ==
  ASSUME NEW r \in Responses, NEW b \in Seq(Symbols), Prefix(b, r),
         buffer_find(b, HEADER_TERMINATOR) >= 0, buffer_find(b, CONTENT_LENGTH) >= 0
  PROVE  LET end == buffer_find(b, HEADER_TERMINATOR) + Len(HEADER_TERMINATOR)
             length == strtol(b, buffer_find(b, CONTENT_LENGTH) + Len(CONTENT_LENGTH))
         IN  /\ length \in 0 .. 2 ^ SizeBits - 1
             /\ Total(length, end) = Len(r)
<1> DEFINE end == buffer_find(b, HEADER_TERMINATOR)
           start == buffer_find(b, CONTENT_LENGTH)
           length == strtol(b, start + 1)
<1>1. r \in Seq(Symbols) /\ Len(r) \in Nat /\ Len(b) \in Nat /\ Len(b) <= Len(r)
  BY Reply DEF Prefix
<1>2. buffer_find(r, HEADER_TERMINATOR) = end /\ buffer_find(r, CONTENT_LENGTH) = start
  BY <1>1, FoundInPrefix, Patterns
<1>3. end \in 0 .. Len(b) - 4 /\ Lies(b, HEADER_TERMINATOR, end)
  <2>1. end = -1 \/ (end \in 0 .. Len(b) - Len(HEADER_TERMINATOR) /\ Lies(b, HEADER_TERMINATOR, end))
    BY Found, Patterns
  <2>2. QED
    BY <2>1, Patterns
<1>4. start \in 0 .. Len(b) - 1
  <2>1. start = -1 \/ start \in 0 .. Len(b) - Len(CONTENT_LENGTH)
    BY Found, Patterns
  <2>2. QED
    BY <2>1, Patterns
<1>5. start < end /\ end + 4 + strtol(r, start + 1) = Len(r)
  <2>1. r[start + 1] = "CL" /\ start + 1 \in 1 .. Len(r)
    <3>1. start \in 0 .. Len(r) - 1 /\ Lies(r, CONTENT_LENGTH, start)
      BY <1>1, <1>2, <1>4, Found, Patterns
    <3>2. CONTENT_LENGTH[1] = "CL" /\ 1 \in 1 .. Len(CONTENT_LENGTH)
      BY Patterns DEF CONTENT_LENGTH
    <3>3. QED
      BY <1>1, <3>1, <3>2 DEF Lies
  <2>2. Framed(r)
    BY <2>1, FramingAssumption
  <2>3. QED
    BY <1>1, <1>2, <2>2, LengthIsTrue
<1>6. b[end + 1] # "D"
  BY <1>3, Patterns DEF Lies
<1>7. start + 1 \in 0 .. Len(b) /\ end + 1 \in (start + 1) + 1 .. Len(b)
  BY <1>1, <1>3, <1>4, <1>5
<1> HIDE DEF end, start
<1>8. strtol(r, start + 1) = length
  BY <1>1, <1>6, <1>7, NumberInPrefix
<1>9. length \in Nat
  BY <1>7, NumberRead DEF Digits
<1> HIDE DEF length
<1>10. 2 * Len(r) < 2 ^ SizeBits - 1 /\ 2 ^ SizeBits \in Int
  BY SizeAssumption
<1>11. length + (end + 4) = Len(r)
  BY <1>3, <1>5, <1>8, <1>9
<1>12. length \in 0 .. 2 ^ SizeBits - 1
  BY <1>1, <1>3, <1>9, <1>10, <1>11
<1>13. Len(r) % 2 ^ SizeBits = Len(r)
  BY <1>1, <1>10
<1>14. Total(length, end + 4) = Len(r)
  BY <1>11, <1>13 DEF Total
<1>15. QED
  BY <1>12, <1>14, Patterns DEF end, start, length

\* Reading moves symbols from the wire to the buffer and loses none.
LEMMA ReadMoves ==
  ASSUME Read, buffer \in Seq(Symbols), wire \in Seq(Symbols)
  PROVE  /\ wire # <<>>
         /\ buffer' \in Seq(Symbols) /\ wire' \in Seq(Symbols)
         /\ buffer' \o wire' = buffer \o wire
<1>1. PICK n \in 1 .. BUFLEN :
         /\ n <= Len(wire)
         /\ buffer' = buffer \o SubSeq(wire, 1, n)
         /\ wire' = SubSeq(wire, n + 1, Len(wire))
  BY DEF Read
<1>2. n \in 1 .. Len(wire)
  BY <1>1, BuflenAssumption
<1>3. \A s, t \in Seq(Symbols) : \A k \in 1 .. Len(t) :
         /\ t # <<>>
         /\ s \o SubSeq(t, 1, k) \in Seq(Symbols) /\ SubSeq(t, k + 1, Len(t)) \in Seq(Symbols)
         /\ (s \o SubSeq(t, 1, k)) \o SubSeq(t, k + 1, Len(t)) = s \o t
  BY MovedOn
<1>4. QED
  BY <1>1, <1>2, <1>3

-----------------------------------------------------------------------------
\* The inductive invariant

\* TypeOK in the parts the provers handle best.
LEMMA Types ==
  TypeOK <=>
    /\ pc \in {"idle", "head", "body", "died"}
    /\ header_end \in -1 .. 2 ^ SizeBits - 1
    /\ content_length \in 0 .. 2 ^ SizeBits - 1
    /\ total \in 0 .. 2 ^ SizeBits - 1
    /\ buffer \in Seq(Symbols) /\ returned \in Seq(Symbols)
    /\ response \in Seq(Symbols) /\ wire \in Seq(Symbols)
    /\ waiting \in BOOLEAN /\ closed \in BOOLEAN
    /\ waiting => pc \in {"head", "body"} /\ wire = <<>>
  BY DEF TypeOK, Symbols

\* No size has been computed yet: 0 fits every size_t.
LEMMA ZeroFits ==
  2 ^ SizeBits \in Int /\ 0 \in 0 .. 2 ^ SizeBits - 1 /\ 0 \in -1 .. 2 ^ SizeBits - 1
  BY SizeAssumption

\* An empty message is a first part of every message.
LEMMA EmptyIsPrefix ==
  ASSUME NEW s \in Seq(Symbols)
  PROVE  <<>> \in Seq(Symbols) /\ Prefix(<<>>, s)
<1>1. <<>> \in Seq(Symbols) /\ Len(<<>>) = 0 /\ Len(s) \in Nat
  BY EmptySeq
<1>2. Len(<<>>) <= Len(s) /\ \A k \in 1 .. Len(<<>>) : <<>>[k] = s[k]
  BY <1>1
<1>3. QED
  BY <1>1, <1>2, PrefixOf

\* A client that has just connected has received nothing.
LEMMA InitIInv == Init => IInv
<1>1. SUFFICES ASSUME Init PROVE IInv
  OBVIOUS
<1>2. <<>> \in Seq(Symbols) /\ Prefix(<<>>, <<>>)
  BY EmptySeq, EmptyIsPrefix
<1>3. TypeOK
  BY <1>1, <1>2, ZeroFits, Types DEF Init
<1>4. QED
  BY <1>1, <1>2, <1>3 DEF Init, IInv

\* What the invariant says of a reply in the making.
LEMMA Underway ==
  ASSUME IInv
  PROVE  /\ buffer \in Seq(Symbols) /\ wire \in Seq(Symbols) /\ response \in Seq(Symbols)
         /\ returned \in Seq(Symbols)
         /\ waiting \in BOOLEAN /\ closed \in BOOLEAN
         /\ buffer \o wire \in Seq(Symbols)
  BY Types, ConcatProperties DEF IInv

\* A new call starts with an empty buffer and nothing on the wire.
LEMMA RequestKeeps ==
  ASSUME IInv, Request
  PROVE  IInv'
<1>1. wire = <<>> /\ buffer' = <<>> /\ response' = <<>> /\ wire' = <<>> /\ pc' = "head"
  BY DEF IInv, Request
<1>2. <<>> \in Seq(Symbols) /\ Prefix(<<>>, <<>>) /\ <<>> \o <<>> = <<>>
  BY EmptySeq, EmptyIsPrefix, ConcatEmptySeq
<1>3. waiting' = ~closed /\ closed' = closed /\ closed \in BOOLEAN
  BY Underway DEF Request
<1>4. TypeOK'
  <2>1. returned' \in Seq(Symbols)
    BY Underway DEF Request
  <2>2. /\ header_end' \in -1 .. 2 ^ SizeBits - 1
        /\ content_length' \in 0 .. 2 ^ SizeBits - 1
        /\ total' \in 0 .. 2 ^ SizeBits - 1
    BY ZeroFits DEF Request
  <2>3. QED
    BY <1>1, <1>2, <1>3, <2>1, <2>2 DEF TypeOK, Symbols
<1>5. QED
  BY <1>1, <1>2, <1>3, <1>4 DEF IInv

\* The server's reply is on its way, whole.
LEMMA RespondKeeps ==
  ASSUME IInv, Respond
  PROVE  IInv'
<1>1. /\ waiting /\ ~closed /\ pc = "head" /\ buffer = <<>> /\ wire = <<>>
      /\ pc' = "head" /\ buffer' = <<>> /\ closed' = closed /\ ~waiting'
      /\ response' \in Responses /\ wire' = <<>> \o response'
  BY Types DEF IInv, Respond, call
<1>2. response' \in Seq(Symbols) /\ Prefix(response', response')
  BY <1>1, Reply, PrefixSelf
<1>3. wire' = response' /\ buffer' \o wire' = response'
  BY <1>1, <1>2, ConcatEmptySeq
<1>4. TypeOK'
  <2>1. TypeOK /\ <<>> \in Seq(Symbols)
    BY EmptySeq DEF IInv
  <2>2. waiting' \in BOOLEAN
    BY DEF Respond
  <2>3. QED
    BY <1>1, <1>2, <1>3, <2>1, <2>2 DEF TypeOK, Symbols, Respond, call
<1>5. QED
  BY <1>1, <1>2, <1>3, <1>4 DEF IInv

\* A turn of the first loop: what it reads belongs to the reply, and when it
\* ends, the size it has computed is the reply's.
LEMMA ReadHeadKeeps ==
  ASSUME IInv, ReadHead
  PROVE  IInv'
<1> DEFINE end == buffer_find(buffer', HEADER_TERMINATOR)
           start == buffer_find(buffer', CONTENT_LENGTH)
<1>1. /\ pc = "head" /\ Read /\ response' = response /\ closed' = closed
      /\ waiting' = waiting /\ returned' = returned
  BY DEF ReadHead
<1>2. /\ header_end' = IF end < 0 THEN end ELSE end + Len(HEADER_TERMINATOR)
      /\ \/ /\ end < 0 \/ start < 0
            /\ pc' = "head" /\ content_length' = content_length /\ total' = total
         \/ /\ ~(end < 0) /\ ~(start < 0)
            /\ content_length' = strtol(buffer', start + Len(CONTENT_LENGTH))
            /\ total' = Total(content_length', header_end')
            /\ pc' = "body"
  BY DEF ReadHead
<1>3. /\ wire # <<>> /\ buffer' \in Seq(Symbols) /\ wire' \in Seq(Symbols)
      /\ buffer' \o wire' = buffer \o wire
  BY <1>1, ReadMoves, Underway
<1>4. ~waiting
  BY <1>3, Types DEF IInv
<1>5. response \in Seq(Symbols) /\ Prefix(buffer \o wire, response)
      /\ (~closed => buffer \o wire = response)
  BY <1>1, <1>4, Underway DEF IInv
<1>6. Prefix(buffer', response)
  <2>1. Prefix(buffer', buffer' \o wire') /\ buffer' \o wire' \in Seq(Symbols)
    BY <1>3, PrefixConcat, ConcatProperties
  <2>2. QED
    BY <1>3, <1>5, <2>1, PrefixTransitive
<1>7. response \in Responses
  <2>1. Len(buffer) \in Nat /\ Len(wire) \in Nat \ {0} /\ Len(buffer \o wire) = Len(buffer) + Len(wire)
    BY <1>3, Underway, EmptySeq, ConcatProperties
  <2>2. response # <<>>
    BY <1>5, <2>1, EmptySeq DEF Prefix
  <2>3. QED
    BY <2>2 DEF IInv
<1>8. end = -1 \/ end \in 0 .. Len(buffer') - 4
  <2>1. end = -1 \/ end \in 0 .. Len(buffer') - Len(HEADER_TERMINATOR)
    BY <1>3, Found, Patterns
  <2>2. QED
    BY <2>1, Patterns
<1>9. start \in Int
  <2>1. start = -1 \/ start \in 0 .. Len(buffer') - Len(CONTENT_LENGTH)
    BY <1>3, Found, Patterns
  <2>2. QED
    BY <1>3, <2>1, Patterns
<1>10. header_end' \in -1 .. 2 ^ SizeBits - 1
  <2>1. 2 * Len(response) < 2 ^ SizeBits - 1 /\ 2 ^ SizeBits \in Int
    BY <1>7, SizeAssumption
  <2>2. Len(buffer') \in Nat /\ Len(response) \in Nat /\ Len(buffer') <= Len(response)
    BY <1>3, <1>5, <1>6 DEF Prefix
  <2> HIDE DEF end
  <2>3. header_end' = IF end < 0 THEN end ELSE end + 4
    BY <1>2, Patterns
  <2>4. QED
    BY <1>8, <2>1, <2>2, <2>3
<1>11. CASE pc' = "head"
  <2>1. content_length' = content_length /\ total' = total
    BY <1>2, <1>11
  <2>2. TypeOK'
    BY <1>1, <1>3, <1>4, <1>10, <1>11, <2>1 DEF TypeOK, Symbols, IInv
  <2>3. QED
    BY <1>1, <1>3, <1>4, <1>5, <1>11, <2>2, Underway DEF IInv
<1>12. CASE pc' = "body"
  <2>1. /\ end >= 0 /\ start >= 0
        /\ header_end' = end + Len(HEADER_TERMINATOR)
        /\ content_length' = strtol(buffer', start + Len(CONTENT_LENGTH))
        /\ total' = Total(content_length', header_end')
    BY <1>2, <1>8, <1>9, <1>12
  <2>2. content_length' \in 0 .. 2 ^ SizeBits - 1 /\ total' = Len(response)
    BY <1>3, <1>6, <1>7, <2>1, SizeFound
  <2>3. total' \in 0 .. 2 ^ SizeBits - 1
    BY <1>5, <1>7, <2>2, SizeAssumption
  <2>4. TypeOK'
    BY <1>1, <1>3, <1>4, <1>10, <1>12, <2>2, <2>3 DEF TypeOK, Symbols, IInv
  <2>5. QED
    BY <1>1, <1>3, <1>4, <1>5, <1>12, <2>2, <2>4, Underway DEF IInv
<1>13. QED
  BY <1>2, <1>11, <1>12

\* The stream has ended in the first loop: the second has nothing to read.
LEMMA EofHeadKeeps ==
  ASSUME IInv, EofHead
  PROVE  IInv'
<1>1. /\ pc = "head" /\ Eof /\ pc' = "body" /\ total' = Total(content_length, header_end)
      /\ buffer' = buffer /\ header_end' = header_end /\ content_length' = content_length
      /\ returned' = returned /\ waiting' = waiting /\ response' = response
      /\ wire' = wire /\ closed' = closed
  BY DEF EofHead, server
<1>2. ~waiting /\ Eof'
  BY <1>1 DEF IInv, Eof
<1>3. total' \in 0 .. 2 ^ SizeBits - 1
  <2>1. 2 ^ SizeBits \in Int /\ 2 ^ SizeBits > 0
    BY SizeAssumption
  <2>2. header_end \in Int /\ content_length \in Int
    BY Types, <2>1 DEF IInv
  <2>3. \A n \in Int : n % 2 ^ SizeBits \in 0 .. 2 ^ SizeBits - 1
    BY <2>1
  <2>4. QED
    BY <1>1, <2>2, <2>3 DEF Total
<1>4. TypeOK'
  BY <1>1, <1>2, <1>3 DEF TypeOK, IInv
<1>5. QED
  BY <1>1, <1>2, <1>4 DEF IInv

\* A turn of the second loop.
LEMMA ReadBodyKeeps ==
  ASSUME IInv, ReadBody
  PROVE  IInv'
<1>1. /\ pc = "body" /\ pc' = "body" /\ Read
      /\ header_end' = header_end /\ content_length' = content_length /\ total' = total
      /\ returned' = returned /\ waiting' = waiting /\ response' = response
      /\ closed' = closed
  BY DEF ReadBody
<1>2. /\ wire # <<>> /\ buffer' \in Seq(Symbols) /\ wire' \in Seq(Symbols)
      /\ buffer' \o wire' = buffer \o wire
  BY <1>1, ReadMoves, Underway
<1>3. ~waiting /\ total = Len(response)
  BY <1>1, <1>2 DEF IInv, Eof
<1>4. TypeOK'
  BY <1>1, <1>2, <1>3 DEF TypeOK, Symbols, IInv
<1>5. QED
  BY <1>1, <1>2, <1>3, <1>4 DEF IInv

\* The call returns the whole reply and leaves nothing of it on the wire,
\* unless the stream has ended.
LEMMA ReturnKeeps ==
  ASSUME IInv, Return
  PROVE  IInv'
<1>1. /\ pc = "body" /\ pc' = "idle" /\ returned' = buffer
      /\ (Len(buffer) >= total \/ Eof)
      /\ buffer' = buffer /\ header_end' = header_end /\ content_length' = content_length
      /\ total' = total /\ waiting' = waiting /\ response' = response
      /\ wire' = wire /\ closed' = closed
  BY DEF Return, call, server
<1>2. /\ buffer \in Seq(Symbols) /\ wire \in Seq(Symbols) /\ response \in Seq(Symbols)
      /\ buffer \o wire \in Seq(Symbols)
      /\ ~waiting /\ Prefix(buffer \o wire, response)
      /\ (~closed => buffer \o wire = response) /\ (Eof \/ total = Len(response))
  BY <1>1, Underway DEF IInv
<1>3. Len(buffer) \in Nat /\ Len(wire) \in Nat /\ Len(response) \in Nat
      /\ Len(buffer \o wire) = Len(buffer) + Len(wire)
  BY <1>2, ConcatProperties
<1>4. wire = <<>>
  <2>1. CASE Eof
    BY <2>1 DEF Eof
  <2>2. CASE ~Eof
    <3>1. Len(buffer) >= Len(response) /\ Len(buffer \o wire) <= Len(response)
      BY <1>1, <1>2, <2>2 DEF Prefix
    <3>2. Len(wire) = 0
      BY <1>3, <3>1
    <3>3. QED
      BY <1>2, <3>2, EmptySeq
  <2>3. QED
    BY <2>1, <2>2
<1>5. buffer \o wire = buffer
  BY <1>2, <1>4, ConcatEmptySeq
<1>6. Prefix(buffer, response) /\ (buffer # response => closed)
  BY <1>2, <1>5
<1>7. TypeOK'
  BY <1>1, <1>2 DEF TypeOK, Symbols, IInv
<1>8. QED
  BY <1>1, <1>2, <1>4, <1>6, <1>7 DEF IInv

\* The server closes, and what it takes back was the end of the reply.
LEMMA CloseKeeps ==
  ASSUME IInv, Close
  PROVE  IInv'
<1>1. PICK n \in 0 .. Len(wire) : wire' = SubSeq(wire, 1, n)
  BY DEF Close
<1>2. /\ ~closed /\ closed' = TRUE /\ waiting' = FALSE
      /\ pc' = pc /\ returned' = returned /\ response' = response /\ buffer' = buffer
      /\ header_end' = header_end /\ content_length' = content_length /\ total' = total
  BY DEF Close, call
<1>3. /\ buffer \in Seq(Symbols) /\ wire \in Seq(Symbols) /\ response \in Seq(Symbols)
      /\ buffer \o wire \in Seq(Symbols)
  BY Underway
<1>4. wire' \in Seq(Symbols) /\ Prefix(buffer \o wire', buffer \o wire)
  BY <1>1, <1>3, PrefixCut
<1>5. buffer \o wire' \in Seq(Symbols)
  BY <1>3, <1>4, ConcatProperties
<1>6. TypeOK'
  BY <1>2, <1>4 DEF TypeOK, Symbols, IInv
<1>7. CASE pc = "idle"
  <2>1. wire = <<>>
    BY <1>7 DEF IInv
  <2>2. wire' = <<>>
    BY <1>1, <2>1, EmptySeq, SubSeqEmpty
  <2>3. QED
    BY <1>2, <1>6, <1>7, <2>2 DEF IInv
<1>8. CASE pc \in {"head", "body"}
  <2>1. Prefix(buffer \o wire, response)
    BY <1>8 DEF IInv
  <2>2. Prefix(buffer \o wire', response)
    BY <1>3, <1>4, <1>5, <2>1, PrefixTransitive
  <2>3. pc = "body" => total = Len(response)
    BY <1>2 DEF IInv, Eof
  <2>4. QED
    BY <1>2, <1>6, <1>8, <2>2, <2>3 DEF IInv
<1>9. CASE pc = "died"
  BY <1>2, <1>6, <1>9 DEF IInv
<1>10. QED
  BY <1>7, <1>8, <1>9, Types DEF IInv

\* A process that has died leaves everything as it was.
LEMMA DyingKeeps ==
  ASSUME IInv, WriteError \/ ReadError
  PROVE  IInv'
<1>1. /\ pc' = "died" /\ closed
      /\ buffer' = buffer /\ header_end' = header_end /\ content_length' = content_length
      /\ total' = total /\ returned' = returned /\ waiting' = waiting
      /\ response' = response /\ wire' = wire /\ closed' = closed
  BY DEF WriteError, ReadError, call, server
<1>2. ~waiting
  BY <1>1 DEF IInv
<1>3. TypeOK'
  BY <1>1, <1>2 DEF TypeOK, IInv
<1>4. QED
  BY <1>1, <1>2, <1>3 DEF IInv

\* Every step of the client and of the server keeps the invariant.
LEMMA NextIInv == IInv /\ [Next]_vars => IInv'
<1>1. SUFFICES ASSUME IInv, [Next]_vars PROVE IInv'
  OBVIOUS
<1>2. CASE Request
  BY <1>1, <1>2, RequestKeeps
<1>3. CASE WriteError \/ ReadError
  BY <1>1, <1>3, DyingKeeps
<1>4. CASE Respond
  BY <1>1, <1>4, RespondKeeps
<1>5. CASE ReadHead
  BY <1>1, <1>5, ReadHeadKeeps
<1>6. CASE EofHead
  BY <1>1, <1>6, EofHeadKeeps
<1>7. CASE ReadBody
  BY <1>1, <1>7, ReadBodyKeeps
<1>8. CASE Return
  BY <1>1, <1>8, ReturnKeeps
<1>9. CASE Close
  BY <1>1, <1>9, CloseKeeps
<1>10. CASE UNCHANGED vars
  BY <1>1, <1>10 DEF IInv, TypeOK, Eof, vars, call, server
<1>11. QED
  BY <1>1, <1>2, <1>3, <1>4, <1>5, <1>6, <1>7, <1>8, <1>9, <1>10
     DEF Next, Receive, Died

-----------------------------------------------------------------------------
\* The theorems

\* What has been read and what is on the wire always make up the reply, or,
\* once the server has closed, a first part of it.
THEOREM Invariance == Spec => []IInv
<1>1. Init => IInv
  BY InitIInv
<1>2. IInv /\ [Next]_vars => IInv'
  BY NextIInv
<1>3. QED
  BY <1>1, <1>2, PTL DEF Spec

\* The int and the size_t of receive_from_server() hold what is computed.
THEOREM TypeCorrect == Spec => []TypeOK
<1>1. IInv => TypeOK
  BY DEF IInv
<1>2. QED
  BY <1>1, Invariance, PTL

\* receive_from_server() returns the reply, whole, however read() cuts it; a
\* first part of it only if the server has closed.
THEOREM ReturnsWhole == Spec => []ReturnsReply
<1>1. IInv => ReturnsReply
  BY DEF IInv, ReturnsReply
<1>2. QED
  BY <1>1, Invariance, PTL

\* Nothing of a reply is left on the connection when the call returns.
THEOREM StaysInStep == Spec => []ConnectionInStep
<1>1. IInv => ConnectionInStep
  BY DEF IInv, ConnectionInStep
<1>2. QED
  BY <1>1, Invariance, PTL

-----------------------------------------------------------------------------
\* The exchange

\* Every step of an exchange is one of receive_from_server() and its server,
\* or leaves them alone: the last write() of a request is what starts a call.
LEMMA ExchangeStep == [NextExchange]_allvars => [Next]_vars
<1>1. SUFFICES ASSUME NextExchange PROVE [Next]_vars
  BY DEF allvars
<1>2. CASE Compose
  BY <1>2 DEF Compose
<1>3. CASE Write
  BY <1>3 DEF Write, Next
<1>4. CASE FailToWrite
  BY <1>4 DEF FailToWrite, Next
<1>5. CASE Take
  BY <1>5 DEF Take
<1>6. CASE Answer
  BY <1>6 DEF Answer, Next
<1>7. CASE CloseExchange
  BY <1>7 DEF CloseExchange, Next
<1>8. CASE ReceiveReply
  BY <1>8 DEF ReceiveReply, Next
<1>9. CASE DiedExchange
  BY <1>9 DEF DiedExchange, Next
<1>10. QED
  BY <1>1, <1>2, <1>3, <1>4, <1>5, <1>6, <1>7, <1>8, <1>9 DEF NextExchange

\* An exchange is a behaviour of HttpReceive.
THEOREM ExchangeReceives == ExchangeSpec => Spec
<1>1. InitExchange => Init
  BY DEF InitExchange
<1>2. QED
  BY <1>1, ExchangeStep, PTL DEF ExchangeSpec, Spec

\* In every exchange the call returns the whole reply to the request, or the
\* part that came before the server closed, and leaves nothing of it unread
\* for the next exchange; the sizes it computes stay in their types.
THEOREM ExchangeInStep == ExchangeSpec => [](TypeOK /\ ReturnsReply /\ ConnectionInStep)
  BY ExchangeReceives, TypeCorrect, ReturnsWhole, StaysInStep, PTL

-----------------------------------------------------------------------------
(***************************************************************************)
(* What a message says.                                                    *)
(***************************************************************************)

\* The header lines that the server looks for and m has.
Marked(m) == {s \in {"AUTH", "CTYPE", "COOKIE"} : \E k \in 1 .. Len(m) : m[k] = s}

\* The places of the digits.
Digit(m) == {k \in 1 .. Len(m) : m[k] = "D"}

\* m is made of whole lines, none of them empty.
Lined(m) ==
    /\ m \in Seq(MessageSymbols) /\ Len(m) >= 2
    /\ m[Len(m) - 1] = "CR" /\ m[Len(m)] = "LF"
    /\ \A k \in 2 .. Len(m) : m[k] = "CR" => m[k - 1] # "LF"

\* What compute_message() appends.
LEMMA LineText ==
  ASSUME NEW m \in Seq(MessageSymbols), NEW line \in Seq(LineSymbols)
  PROVE  LET t == compute_message(m, line)
         IN  /\ t \in Seq(MessageSymbols) /\ Len(t) = Len(m) + Len(line) + 2
             /\ \A k \in 1 .. Len(m) : t[k] = m[k]
             /\ \A k \in 1 .. Len(line) : t[Len(m) + k] = line[k]
             /\ t[Len(m) + Len(line) + 1] = "CR" /\ t[Len(m) + Len(line) + 2] = "LF"
<1> DEFINE end == <<"CR", "LF">>
           ml == m \o line
<1>1. end \in Seq(MessageSymbols) /\ Len(end) = 2 /\ end[1] = "CR" /\ end[2] = "LF"
  BY DEF MessageSymbols
<1>2. line \in Seq(MessageSymbols) /\ Len(m) \in Nat /\ Len(line) \in Nat
  BY DEF MessageSymbols
<1> HIDE DEF end
<1>3. /\ ml \in Seq(MessageSymbols) /\ Len(ml) = Len(m) + Len(line)
      /\ \A k \in 1 .. Len(m) + Len(line) : ml[k] = IF k <= Len(m) THEN m[k] ELSE line[k - Len(m)]
  BY <1>2, ConcatProperties
<1> HIDE DEF ml
<1>4. /\ ml \o end \in Seq(MessageSymbols) /\ Len(ml \o end) = Len(ml) + 2
      /\ \A k \in 1 .. Len(ml) + 2 : (ml \o end)[k] = IF k <= Len(ml) THEN ml[k] ELSE end[k - Len(ml)]
  <2>1. /\ ml \o end \in Seq(MessageSymbols) /\ Len(ml \o end) = Len(ml) + Len(end)
        /\ \A k \in 1 .. Len(ml) + Len(end) :
              (ml \o end)[k] = IF k <= Len(ml) THEN ml[k] ELSE end[k - Len(ml)]
    <3>1. ml \in Seq(MessageSymbols) /\ end \in Seq(MessageSymbols)
      BY <1>1, <1>3
    <3>2. QED
      BY <3>1, ConcatProperties
  <2>2. QED
    BY <1>1, <2>1
<1>5. compute_message(m, line) = ml \o end
  BY DEF compute_message, ml, end
<1>6. \A k \in 1 .. Len(m) : (ml \o end)[k] = m[k]
  BY <1>2, <1>3, <1>4
<1>7. \A k \in 1 .. Len(line) : (ml \o end)[Len(m) + k] = line[k]
  BY <1>2, <1>3, <1>4
<1>8. (ml \o end)[Len(ml) + 1] = "CR" /\ (ml \o end)[Len(ml) + 2] = "LF"
  BY <1>1, <1>2, <1>3, <1>4
<1>9. QED
  BY <1>2, <1>3, <1>4, <1>5, <1>6, <1>7, <1>8

\* A line of the header is added to the lines before it.
LEMMA LineAdded ==
  ASSUME NEW m \in Seq(MessageSymbols), m = <<>> \/ Lined(m),
         NEW line \in Seq(LineSymbols), line # <<>>
  PROVE  LET t == compute_message(m, line)
         IN  /\ Lined(t)
             /\ t[1] = IF m = <<>> THEN line[1] ELSE m[1]
             /\ Marked(t) = Marked(m) \cup Marked(line)
             /\ Digit(t) = Digit(m) \cup {Len(m) + k : k \in Digit(line)}
<1> DEFINE t == compute_message(m, line)
<1>1. /\ t \in Seq(MessageSymbols) /\ Len(t) = Len(m) + Len(line) + 2
      /\ \A k \in 1 .. Len(m) : t[k] = m[k]
      /\ \A k \in 1 .. Len(line) : t[Len(m) + k] = line[k]
      /\ t[Len(m) + Len(line) + 1] = "CR" /\ t[Len(m) + Len(line) + 2] = "LF"
  BY LineText
<1>2. Len(m) \in Nat /\ Len(line) \in Nat /\ Len(line) >= 1
  BY EmptySeq
<1>3. \A k \in 1 .. Len(line) : line[k] # "CR" /\ line[k] # "LF"
  BY ElementOfSeq DEF LineSymbols, BodySymbols, Methods
<1> HIDE DEF t
<1>4. \A k \in 1 .. Len(t) : \/ k \in 1 .. Len(m)
                             \/ k - Len(m) \in 1 .. Len(line) /\ k = Len(m) + (k - Len(m))
                             \/ k = Len(m) + Len(line) + 1 \/ k = Len(m) + Len(line) + 2
  BY <1>1, <1>2
<1>5. Lined(t)
  <2>1. ASSUME NEW k \in 2 .. Len(t), t[k] = "CR" PROVE t[k - 1] # "LF"
    <3>1. CASE k \in 1 .. Len(m)
      <4>1. Lined(m) /\ k \in 2 .. Len(m) /\ k - 1 \in 1 .. Len(m)
        BY <1>2, <2>1, <3>1, EmptySeq
      <4>2. QED
        BY <1>1, <2>1, <3>1, <4>1 DEF Lined
    <3>2. CASE k = Len(m) + Len(line) + 1
      <4>1. k - 1 = Len(m) + Len(line) /\ Len(line) \in 1 .. Len(line)
        BY <1>2, <3>2
      <4>2. QED
        BY <1>1, <1>3, <4>1
    <3>3. CASE k - Len(m) \in 1 .. Len(line) /\ k = Len(m) + (k - Len(m))
      BY <1>1, <1>3, <2>1, <3>3
    <3>4. QED
      BY <1>1, <1>2, <1>4, <2>1, <3>1, <3>2, <3>3
  <2>2. Len(t) - 1 = Len(m) + Len(line) + 1 /\ Len(t) >= 2
    BY <1>1, <1>2
  <2>3. QED
    BY <1>1, <2>1, <2>2 DEF Lined
<1>6. t[1] = IF m = <<>> THEN line[1] ELSE m[1]
  <2>1. CASE m = <<>>
    <3>1. Len(m) = 0 /\ 1 \in 1 .. Len(line) /\ Len(m) + 1 = 1
      BY <1>2, <2>1
    <3>2. QED
      BY <1>1, <2>1, <3>1
  <2>2. CASE m # <<>>
    <3>1. 1 \in 1 .. Len(m)
      BY <1>2, <2>2, EmptySeq
    <3>2. QED
      BY <1>1, <2>2, <3>1
  <2>3. QED
    BY <2>1, <2>2
<1>7. \A s \in LineSymbols :
         (\E k \in 1 .. Len(t) : t[k] = s)
            <=> (\E k \in 1 .. Len(m) : m[k] = s) \/ (\E k \in 1 .. Len(line) : line[k] = s)
  <2>1. TAKE s \in LineSymbols
  <2>2. s # "CR" /\ s # "LF"
    BY DEF LineSymbols, BodySymbols, Methods
  <2>3. ASSUME NEW k \in 1 .. Len(t), t[k] = s
        PROVE (\E j \in 1 .. Len(m) : m[j] = s) \/ (\E j \in 1 .. Len(line) : line[j] = s)
    BY <1>1, <1>4, <2>2, <2>3
  <2>4. ASSUME NEW k \in 1 .. Len(m), m[k] = s PROVE \E j \in 1 .. Len(t) : t[j] = s
    <3>1. k \in 1 .. Len(t)
      BY <1>1, <1>2
    <3>2. QED
      BY <1>1, <2>4, <3>1
  <2>5. ASSUME NEW k \in 1 .. Len(line), line[k] = s PROVE \E j \in 1 .. Len(t) : t[j] = s
    <3>1. Len(m) + k \in 1 .. Len(t)
      BY <1>1, <1>2
    <3>2. QED
      BY <1>1, <2>5, <3>1
  <2>6. QED
    BY <2>3, <2>4, <2>5
<1>8. Marked(t) = Marked(m) \cup Marked(line)
  <2>1. {"AUTH", "CTYPE", "COOKIE"} \subseteq LineSymbols
    BY DEF LineSymbols, BodySymbols
  <2>2. QED
    BY <1>7, <2>1 DEF Marked
<1>9. Digit(t) = Digit(m) \cup {Len(m) + k : k \in Digit(line)}
  <2>1. ASSUME NEW k \in Digit(t) PROVE k \in Digit(m) \cup {Len(m) + j : j \in Digit(line)}
    <3>1. k \in 1 .. Len(t) /\ t[k] = "D"
      BY <2>1 DEF Digit
    <3>2. CASE k \in 1 .. Len(m)
      BY <1>1, <3>1, <3>2 DEF Digit
    <3>3. CASE k - Len(m) \in 1 .. Len(line) /\ k = Len(m) + (k - Len(m))
      <4>1. k - Len(m) \in Digit(line)
        BY <1>1, <3>1, <3>3 DEF Digit
      <4>2. QED
        BY <3>3, <4>1
    <3>4. QED
      BY <1>1, <1>4, <3>1, <3>2, <3>3
  <2>2. ASSUME NEW k \in Digit(m) PROVE k \in Digit(t)
    BY <1>1, <1>2, <2>2 DEF Digit
  <2>3. ASSUME NEW k \in Digit(line) PROVE Len(m) + k \in Digit(t)
    BY <1>1, <1>2, <2>3 DEF Digit
  <2>4. QED
    BY <2>1, <2>2, <2>3
<1>10. QED
  BY <1>5, <1>6, <1>8, <1>9 DEF t

Marks == {"AUTH", "CTYPE", "COOKIE"}

\* A line of one symbol.
LEMMA SymbolAdded ==
  ASSUME NEW m \in Seq(MessageSymbols), m = <<>> \/ Lined(m),
         NEW s \in LineSymbols \ {"D"}
  PROVE  LET t == compute_message(m, <<s>>)
         IN  /\ Lined(t)
             /\ t[1] = IF m = <<>> THEN s ELSE m[1]
             /\ Marked(t) = Marked(m) \cup ({s} \cap Marks)
             /\ Digit(t) = Digit(m)
<1> DEFINE line == <<s>>
<1>1. line \in Seq(LineSymbols) /\ line # <<>> /\ Len(line) = 1 /\ line[1] = s
  OBVIOUS
<1> HIDE DEF line
<1>2. Marked(line) = {s} \cap Marks
  <2>1. \A x : (\E k \in 1 .. Len(line) : line[k] = x) <=> x = s
    <3>1. 1 \in 1 .. Len(line) /\ \A k \in 1 .. Len(line) : k = 1
      BY <1>1
    <3>2. QED
      BY <1>1, <3>1
  <2>2. QED
    BY <2>1 DEF Marked, Marks
<1>3. Digit(line) = {}
  BY <1>1 DEF Digit
<1>4. QED
  <2> DEFINE t == compute_message(m, line)
  <2>1. /\ Lined(t)
        /\ t[1] = IF m = <<>> THEN line[1] ELSE m[1]
        /\ Marked(t) = Marked(m) \cup Marked(line)
        /\ Digit(t) = Digit(m) \cup {Len(m) + k : k \in Digit(line)}
    BY <1>1, LineAdded
  <2> HIDE DEF t
  <2>2. /\ Lined(t)
        /\ t[1] = IF m = <<>> THEN s ELSE m[1]
        /\ Marked(t) = Marked(m) \cup ({s} \cap Marks)
        /\ Digit(t) = Digit(m)
    BY <1>1, <1>2, <1>3, <2>1
  <2>3. QED
    BY <2>2 DEF t, line

\* The line that announces a length: as many digits.
LEMMA LengthAdded ==
  ASSUME NEW m \in Seq(MessageSymbols), Lined(m), Digit(m) = {}, NEW n \in Nat
  PROVE  LET t == compute_message(m, <<"CL">> \o Number(n))
         IN  /\ Lined(t) /\ t[1] = m[1]
             /\ Marked(t) = Marked(m)
             /\ IsFiniteSet(Digit(t)) /\ Cardinality(Digit(t)) = n
<1> DEFINE cl == <<"CL">>
           number == Number(n)
           line == cl \o number
           t == compute_message(m, line)
<1>1. cl \in Seq(LineSymbols) /\ Len(cl) = 1 /\ cl[1] = "CL"
  BY DEF LineSymbols, BodySymbols
<1>2. number \in Seq(LineSymbols) /\ Len(number) = n /\ \A k \in 1 .. n : number[k] = "D"
  BY DEF Number, LineSymbols, BodySymbols
<1> HIDE DEF cl, number
<1>3. /\ line \in Seq(LineSymbols) /\ Len(line) = Len(cl) + Len(number)
      /\ \A k \in 1 .. Len(cl) + Len(number) :
            line[k] = IF k <= Len(cl) THEN cl[k] ELSE number[k - Len(cl)]
  BY <1>1, <1>2, ConcatProperties
<1> HIDE DEF line
<1>4. Len(line) = n + 1 /\ line[1] = "CL" /\ \A k \in 2 .. n + 1 : line[k] = "D"
  <2>1. Len(line) = n + 1 /\ line[1] = "CL"
    BY <1>1, <1>2, <1>3
  <2>2. ASSUME NEW k \in 2 .. n + 1 PROVE line[k] = "D"
    <3>1. k \in 1 .. Len(cl) + Len(number) /\ ~(k <= Len(cl)) /\ k - Len(cl) \in 1 .. n
      BY <1>1, <1>2
    <3>2. QED
      BY <1>2, <1>3, <3>1
  <2>3. QED
    BY <2>1, <2>2
<1>5. Marked(line) = {}
  <2>1. \A k \in 1 .. Len(line) : line[k] \in {"CL", "D"}
    BY <1>4
  <2>2. QED
    BY <2>1 DEF Marked
<1>6. Digit(line) = 2 .. n + 1
  <2>1. \A k \in 1 .. n + 1 : line[k] = "D" <=> k \in 2 .. n + 1
    BY <1>4
  <2>2. QED
    BY <1>4, <2>1 DEF Digit
<1>7. line # <<>> /\ m # <<>>
  BY <1>4, EmptySeq DEF Lined
<1>8. /\ Lined(t) /\ t[1] = m[1]
      /\ Marked(t) = Marked(m) \cup Marked(line)
      /\ Digit(t) = Digit(m) \cup {Len(m) + k : k \in Digit(line)}
  BY <1>3, <1>7, LineAdded
<1> HIDE DEF t
<1>9. Len(m) \in Nat
  OBVIOUS
<1>10. Digit(t) = Len(m) + 2 .. Len(m) + n + 1
  <2>1. Digit(t) = {Len(m) + k : k \in 2 .. n + 1}
    BY <1>6, <1>8
  <2>2. \A j \in Len(m) + 2 .. Len(m) + n + 1 : j - Len(m) \in 2 .. n + 1 /\ j = Len(m) + (j - Len(m))
    BY <1>9
  <2>3. \A k \in 2 .. n + 1 : Len(m) + k \in Len(m) + 2 .. Len(m) + n + 1
    BY <1>9
  <2>4. QED
    BY <2>1, <2>2, <2>3
<1>11. IsFiniteSet(Digit(t)) /\ Cardinality(Digit(t)) = n
  <2>1. Len(m) + 2 \in Int /\ Len(m) + n + 1 \in Int
    BY <1>9
  <2>2. /\ IsFiniteSet(Len(m) + 2 .. Len(m) + n + 1)
        /\ Cardinality(Len(m) + 2 .. Len(m) + n + 1) =
             IF Len(m) + 2 > Len(m) + n + 1 THEN 0 ELSE (Len(m) + n + 1) - (Len(m) + 2) + 1
    BY <2>1, FS_Interval
  <2>3. QED
    BY <1>9, <1>10, <2>2
<1>12. QED
  BY <1>5, <1>8, <1>11 DEF t, line, cl, number

\* What the first lines of a request say.
LEMMA Started ==
  ASSUME NEW r \in Requests
  PROVE  /\ Lined(Start(r)) /\ Start(r)[1] = r.method /\ Digit(Start(r)) = {}
         /\ Marked(Start(r)) = IF r.jwt THEN {"AUTH"} ELSE {}
<1> DEFINE first == compute_message(<<>>, <<r.method>>)
           host == compute_message(first, <<"HOST">>)
           auth == compute_message(host, <<"AUTH">>)
<1>1. r.method \in Methods
  BY RequestsAssumption
<1>2. /\ r.method \in LineSymbols \ {"D"} /\ {r.method} \cap Marks = {}
      /\ {"HOST", "AUTH", "CTYPE"} \subseteq LineSymbols \ {"D"}
  BY <1>1 DEF LineSymbols, BodySymbols, Methods, Marks
<1>3. <<>> \in Seq(MessageSymbols) /\ Marked(<<>>) = {} /\ Digit(<<>>) = {}
  BY DEF Marked, Digit
<1>4. Lined(first) /\ first[1] = r.method /\ Marked(first) = {} /\ Digit(first) = {}
  BY <1>2, <1>3, SymbolAdded
<1> HIDE DEF first
<1>5. first \in Seq(MessageSymbols) /\ first # <<>>
  BY <1>4, EmptySeq DEF Lined
<1>6. {"HOST"} \cap Marks = {} /\ {"AUTH"} \cap Marks = {"AUTH"}
  BY DEF Marks
<1>7. Lined(host) /\ host[1] = r.method /\ Marked(host) = {} /\ Digit(host) = {}
  BY <1>2, <1>4, <1>5, <1>6, SymbolAdded
<1> HIDE DEF host
<1>8. host \in Seq(MessageSymbols) /\ host # <<>>
  BY <1>7, EmptySeq DEF Lined
<1>9. Lined(auth) /\ auth[1] = r.method /\ Marked(auth) = {"AUTH"} /\ Digit(auth) = {}
  BY <1>2, <1>6, <1>7, <1>8, SymbolAdded
<1> HIDE DEF auth
<1>10. Start(r) = IF r.jwt THEN auth ELSE host
  BY DEF Start, first, host, auth
<1>11. QED
  BY <1>7, <1>9, <1>10

\* What the cookie's line adds.
LEMMA CookieAdded ==
  ASSUME NEW m, Lined(m), NEW cookies \in {NULL, <<"COOKIE">>, <<"NOCOOKIE">>}
  PROVE  LET t == Cookies(m, cookies)
         IN  /\ Lined(t) /\ t[1] = m[1] /\ Digit(t) = Digit(m)
             /\ Marked(t) = Marked(m) \cup IF cookies = <<"COOKIE">> THEN {"COOKIE"} ELSE {}
<1>1. <<"COOKIE">> # NULL /\ <<"NOCOOKIE">> # NULL /\ <<"COOKIE">> # <<"NOCOOKIE">>
  <2>1. <<"COOKIE">> # NULL /\ <<"NOCOOKIE">> # NULL
    BY NullAssumption
  <2>2. <<"COOKIE">>[1] = "COOKIE" /\ <<"NOCOOKIE">>[1] = "NOCOOKIE"
    OBVIOUS
  <2>3. QED
    BY <2>1, <2>2
<1>2. m \in Seq(MessageSymbols) /\ m # <<>>
  BY EmptySeq DEF Lined
<1>3. CASE cookies = NULL
  <2>1. Cookies(m, cookies) = m
    BY <1>3 DEF Cookies
  <2>2. QED
    BY <1>1, <1>3, <2>1
<1>4. ASSUME NEW s \in {"COOKIE", "NOCOOKIE"}, cookies = <<s>>
      PROVE  Cookies(m, cookies) = compute_message(m, <<s>>)
  <2> DEFINE line == compute_message(m, <<s>>)
             f == [i \in 0 .. 1 |-> IF i = 0 THEN m ELSE line]
             after == CHOOSE g : g = [i \in 0 .. 1 |->
                        IF i = 0 THEN m ELSE compute_message(g[i - 1], <<cookies[i]>>)]
  <2>1. Len(cookies) = 1 /\ cookies[1] = s /\ cookies # NULL
    BY <1>1, <1>4
  <2>2. Cookies(m, cookies) = after[1]
    <3>1. cookies # NULL => Cookies(m, cookies) =
            (CHOOSE g : g = [i \in 0 .. Len(cookies) |->
                IF i = 0 THEN m ELSE compute_message(g[i - 1], <<cookies[i]>>)])[Len(cookies)]
      BY Zenon DEF Cookies
    <3>2. QED
      BY <2>1, <3>1
  <2>3. f = [i \in 0 .. 1 |-> IF i = 0 THEN m ELSE compute_message(f[i - 1], <<cookies[i]>>)]
    <3>1. f[0] = m
      OBVIOUS
    <3>2. \A i \in 0 .. 1 : i # 0 => i = 1 /\ i - 1 = 0
      OBVIOUS
    <3> HIDE DEF line
    <3>3. \A i \in 0 .. 1 : i # 0 => compute_message(f[i - 1], <<cookies[i]>>) = line
      BY <2>1, <3>1, <3>2 DEF line
    <3>4. QED
      BY <3>3
  <2> HIDE DEF f
  <2>4. after = [i \in 0 .. 1 |->
           IF i = 0 THEN m ELSE compute_message(after[i - 1], <<cookies[i]>>)]
    BY <2>3
  <2> HIDE DEF after
  <2>5. after[0] = m /\ after[1] = compute_message(after[1 - 1], <<cookies[1]>>)
    BY <2>4
  <2>6. QED
    BY <2>1, <2>2, <2>5
<1>5. CASE cookies = <<"COOKIE">>
  <2>1. "COOKIE" \in LineSymbols \ {"D"} /\ {"COOKIE"} \cap Marks = {"COOKIE"}
    BY DEF LineSymbols, BodySymbols, Marks
  <2> DEFINE t == compute_message(m, <<"COOKIE">>)
  <2>2. Lined(t) /\ t[1] = m[1] /\ Digit(t) = Digit(m) /\ Marked(t) = Marked(m) \cup {"COOKIE"}
    BY <1>2, <2>1, SymbolAdded
  <2>3. Cookies(m, cookies) = t
    BY <1>4, <1>5
  <2> HIDE DEF t
  <2>4. QED
    BY <1>5, <2>2, <2>3
<1>6. CASE cookies = <<"NOCOOKIE">>
  <2>1. "NOCOOKIE" \in LineSymbols \ {"D"} /\ {"NOCOOKIE"} \cap Marks = {}
    BY DEF LineSymbols, BodySymbols, Marks
  <2> DEFINE t == compute_message(m, <<"NOCOOKIE">>)
  <2>2. Lined(t) /\ t[1] = m[1] /\ Digit(t) = Digit(m) /\ Marked(t) = Marked(m) \cup {}
    BY <1>2, <2>1, SymbolAdded
  <2>3. Cookies(m, cookies) = t
    BY <1>4, <1>6
  <2> HIDE DEF t
  <2>4. QED
    BY <1>1, <1>6, <2>2, <2>3
<1>7. QED
  BY <1>3, <1>5, <1>6

\* The body is one whatever the fields are, and how many.
LEMMA BodyPrinted ==
  ASSUME NEW data \in Seq(Seq(BodySymbols))
  PROVE  body_data_buffer(data) \in Seq(BodySymbols)
<1> DEFINE N == Len(data)
           Field(g, i) == CASE i = 0 -> <<>>
                            [] i = 1 -> data[1]
                            [] OTHER -> g[i - 1] \o <<"B">> \o data[i]
           Printed(g, n) == g = [i \in 0 .. n |-> Field(g, i)]
           printed == CHOOSE g : Printed(g, N)
           defined == {n \in Nat : \E g : Printed(g, n)}
           typed == {n \in Nat : n <= N => printed[n] \in Seq(BodySymbols)}
<1>1. N \in Nat /\ \A i \in 1 .. N : data[i] \in Seq(BodySymbols)
  BY ElementOfSeq
<1>2. body_data_buffer(data) = printed[N]
  BY Zenon DEF body_data_buffer
<1>3. defined = Nat
  <2>1. 0 \in defined
    <3> DEFINE f == [i \in 0 .. 0 |-> <<>>]
    <3>1. Printed(f, 0)
      OBVIOUS
    <3>2. QED
      BY <3>1
  <2>2. ASSUME NEW n \in defined PROVE n + 1 \in defined
    <3>1. PICK f : Printed(f, n)
      OBVIOUS
    <3> DEFINE h == [i \in 0 .. n + 1 |-> IF i = n + 1 THEN Field(f, n + 1) ELSE f[i]]
    <3>2. n \in Nat /\ \A i \in 0 .. n + 1 : i # n + 1 => i \in 0 .. n
      OBVIOUS
    <3>3. \A i \in 0 .. n : h[i] = f[i] /\ f[i] = Field(f, i)
      <4>1. \A i \in 0 .. n : f[i] = Field(f, i)
        BY <3>1
      <4>2. \A i \in 0 .. n : i \in 0 .. n + 1 /\ i # n + 1
        BY <3>2
      <4>3. \A i \in 0 .. n : h[i] = f[i]
        BY <4>2
      <4>4. QED
        BY <4>1, <4>3
    <3>4. h[n + 1] = Field(f, n + 1)
      BY <3>2
    <3>5. h = [i \in 0 .. n + 1 |-> h[i]]
      OBVIOUS
    <3> HIDE DEF h
    <3>6. \A i \in 0 .. n + 1 : i # 0 => i - 1 \in 0 .. n /\ h[i - 1] = f[i - 1]
      BY <3>2, <3>3
    <3>7. \A i \in 0 .. n + 1 : h[i] = Field(h, i)
      BY <3>2, <3>3, <3>4, <3>6
    <3>8. Printed(h, n + 1)
      BY <3>5, <3>7
    <3> HIDE DEF Printed
    <3>9. \E g : Printed(g, n + 1)
      BY <3>8
    <3>10. n + 1 \in Nat
      BY <3>2
    <3>11. QED
      BY <3>9, <3>10
  <2>3. defined \in SUBSET Nat
    OBVIOUS
  <2> HIDE DEF defined
  <2>4. QED
    BY <2>1, <2>2, <2>3, SetInduction
<1>4. Printed(printed, N)
  <2>1. \E g : Printed(g, N)
    BY <1>1, <1>3
  <2> HIDE DEF Printed
  <2>2. QED
    BY <2>1
<1> HIDE DEF printed
<1>5. typed = Nat
  <2>1. 0 \in typed
    BY <1>1, <1>4
  <2>2. ASSUME NEW n \in typed, n + 1 <= N PROVE printed[n + 1] \in Seq(BodySymbols)
    <3>1. n \in Nat /\ n <= N /\ n + 1 \in 0 .. N /\ n + 1 \in 1 .. N /\ n + 1 # 0
      BY <1>1, <2>2
    <3>2. printed[n] \in Seq(BodySymbols) /\ data[n + 1] \in Seq(BodySymbols)
      BY <1>1, <3>1
    <3>3. printed[n + 1] = Field(printed, n + 1)
      BY <1>4, <3>1
    <3>4. CASE n = 0
      BY <1>1, <3>1, <3>3, <3>4
    <3>5. CASE n # 0
      <4>1. n + 1 # 1 /\ (n + 1) - 1 = n
        BY <3>1, <3>5
      <4>2. printed[n + 1] = printed[n] \o <<"B">> \o data[n + 1]
        BY <3>1, <3>3, <4>1
      <4>3. <<"B">> \in Seq(BodySymbols)
        BY DEF BodySymbols
      <4>4. printed[n] \o <<"B">> \in Seq(BodySymbols)
        BY <3>2, <4>3, ConcatProperties
      <4>5. QED
        BY <3>2, <4>2, <4>4, ConcatProperties
    <3>6. QED
      BY <3>4, <3>5
  <2>3. \A n \in typed : n + 1 \in typed
    BY <2>2
  <2>4. typed \in SUBSET Nat
    OBVIOUS
  <2> HIDE DEF typed
  <2>5. QED
    BY <2>1, <2>3, <2>4, SetInduction
<1>6. printed[N] \in Seq(BodySymbols)
  BY <1>1, <1>5
<1>7. QED
  BY <1>2, <1>6

\* The empty line behind the lines of a header is the first in the message.
LEMMA HeaderEnds ==
  ASSUME NEW m, Lined(m), NEW body \in Seq(BodySymbols)
  PROVE  LET t == compute_message(m, <<>>) \o body
         IN  /\ t \in Seq(MessageSymbols) /\ Len(t) = Len(m) + 2 + Len(body)
             /\ \A k \in 1 .. Len(m) : t[k] = m[k]
             /\ t[Len(m) + 1] = "CR" /\ t[Len(m) + 2] = "LF"
             /\ \A k \in 1 .. Len(body) : t[Len(m) + 2 + k] = body[k]
             /\ buffer_find(t, HEADER_TERMINATOR) = Len(m) - 2
<1> DEFINE header == compute_message(m, <<>>)
           t == header \o body
           ht == HEADER_TERMINATOR
<1>1. m \in Seq(MessageSymbols) /\ Len(m) \in Nat /\ Len(m) >= 2
  BY DEF Lined
<1>2. <<>> \in Seq(LineSymbols) /\ Len(<<>>) = 0
  OBVIOUS
<1>3. /\ header \in Seq(MessageSymbols) /\ Len(header) = Len(m) + 2
      /\ \A k \in 1 .. Len(m) : header[k] = m[k]
      /\ header[Len(m) + 1] = "CR" /\ header[Len(m) + 2] = "LF"
  <2>1. /\ header \in Seq(MessageSymbols) /\ Len(header) = Len(m) + Len(<<>>) + 2
        /\ \A k \in 1 .. Len(m) : header[k] = m[k]
        /\ header[Len(m) + Len(<<>>) + 1] = "CR" /\ header[Len(m) + Len(<<>>) + 2] = "LF"
    BY <1>1, <1>2, LineText
  <2> HIDE DEF header
  <2>2. QED
    BY <1>1, <1>2, <2>1
<1> HIDE DEF header
<1>4. body \in Seq(MessageSymbols) /\ Len(body) \in Nat
  BY DEF BodySymbols, LineSymbols, MessageSymbols
<1>5. /\ t \in Seq(MessageSymbols) /\ Len(t) = Len(header) + Len(body)
      /\ \A k \in 1 .. Len(header) + Len(body) :
            t[k] = IF k <= Len(header) THEN header[k] ELSE body[k - Len(header)]
  <2>1. header \in Seq(MessageSymbols)
    BY <1>3
  <2>2. QED
    BY <1>4, <2>1, ConcatProperties
<1> HIDE DEF t
<1>6. \A k \in 1 .. Len(m) : t[k] = m[k]
  BY <1>1, <1>3, <1>4, <1>5
<1>7. t[Len(m) + 1] = "CR" /\ t[Len(m) + 2] = "LF"
  BY <1>1, <1>3, <1>4, <1>5
<1>8. \A k \in 1 .. Len(body) : t[Len(m) + 2 + k] = body[k]
  <2>1. TAKE k \in 1 .. Len(body)
  <2>2. /\ Len(m) + 2 + k \in 1 .. Len(header) + Len(body)
        /\ ~(Len(m) + 2 + k <= Len(header)) /\ (Len(m) + 2 + k) - Len(header) = k
    BY <1>1, <1>3, <1>4
  <2>3. QED
    BY <1>5, <2>2
<1>9. Len(t) = Len(m) + 2 + Len(body)
  BY <1>3, <1>5
<1>10. /\ ht \in Seq(MessageSymbols) /\ Len(ht) = 4
       /\ ht[1] = "CR" /\ ht[2] = "LF" /\ ht[3] = "CR" /\ ht[4] = "LF"
  BY DEF HEADER_TERMINATOR, MessageSymbols
<1> HIDE DEF ht
<1> DEFINE end == Len(m) - 2
<1>11. end \in 0 .. Len(t) /\ end + 4 <= Len(t) /\ end \in Nat
  BY <1>1, <1>4, <1>9
<1>12. \A k \in 1 .. 4 : t[end + k] = ht[k]
  <2>1. /\ end + 1 = Len(m) - 1 /\ end + 2 = Len(m) /\ end + 3 = Len(m) + 1 /\ end + 4 = Len(m) + 2
        /\ Len(m) - 1 \in 1 .. Len(m) /\ Len(m) \in 1 .. Len(m)
    BY <1>1
  <2>2. t[end + 1] = "CR" /\ t[end + 2] = "LF" /\ t[end + 3] = "CR" /\ t[end + 4] = "LF"
    BY <1>6, <1>7, <2>1 DEF Lined
  <2>3. \A k \in 1 .. 4 : k = 1 \/ k = 2 \/ k = 3 \/ k = 4
    OBVIOUS
  <2> HIDE DEF end
  <2>4. QED
    BY <1>10, <2>2, <2>3
<1>13. \A j \in 0 .. end - 1 : \E k \in 1 .. 4 : t[j + k] # ht[k]
  <2>1. SUFFICES ASSUME NEW j \in 0 .. end - 1, \A k \in 1 .. 4 : t[j + k] = ht[k] PROVE FALSE
    OBVIOUS
  <2>2. 2 \in 1 .. 4 /\ 3 \in 1 .. 4
    OBVIOUS
  <2>3. t[j + 2] = "LF" /\ t[j + 3] = "CR"
    BY <1>10, <2>1, <2>2
  <2>4. j + 2 \in 1 .. Len(m) /\ j + 3 \in 1 .. Len(m) /\ j + 3 \in 2 .. Len(m) /\ (j + 3) - 1 = j + 2
    BY <1>1, <2>1
  <2>5. m[j + 2] = "LF" /\ m[j + 3] = "CR"
    BY <1>6, <2>3, <2>4
  <2>6. QED
    BY <2>4, <2>5 DEF Lined
<1> HIDE DEF end
<1>14. FirstAt(t, ht, end)
  BY <1>10, <1>11, <1>12, <1>13 DEF FirstAt
<1>15. Len(ht) > 0
  BY <1>10
<1>16. buffer_find(t, ht) = end
  BY <1>5, <1>10, <1>11, <1>14, <1>15, FirstFound
<1>17. QED
  BY <1>5, <1>6, <1>7, <1>8, <1>9, <1>16 DEF t, header, ht, end

\* x is what a header of the lines m and a body say.
ReadAs(x, m, body) ==
    \E jwt, cookie, json \in BOOLEAN :
        /\ x = [method |-> m[1], jwt |-> jwt, cookie |-> cookie, json |-> json, body |-> body]
        /\ jwt <=> "AUTH" \in Marked(m)
        /\ cookie <=> "COOKIE" \in Marked(m)
        /\ json <=> "CTYPE" \in Marked(m)

\* A server that frames requests as HTTP does takes a message, of which it has
\* a first part, when that is all of it, and reads in it what it says.
LEMMA Taken ==
  ASSUME NEW m, Lined(m), NEW body \in Seq(BodySymbols), Cardinality(Digit(m)) = Len(body),
         NEW t, t = compute_message(m, <<>>) \o body,
         NEW n \in 1 .. Len(t), NEW x \in Understood(SubSeq(t, 1, n))
  PROVE  n = Len(t) /\ ReadAs(x, m, body)
<1> DEFINE p == SubSeq(t, 1, n)
           Says(s, e) == \E k \in 1 .. e : p[k] = s
<1>1. /\ t \in Seq(MessageSymbols) /\ Len(t) = Len(m) + 2 + Len(body)
      /\ \A k \in 1 .. Len(m) : t[k] = m[k]
      /\ t[Len(m) + 1] = "CR" /\ t[Len(m) + 2] = "LF"
      /\ \A k \in 1 .. Len(body) : t[Len(m) + 2 + k] = body[k]
      /\ buffer_find(t, HEADER_TERMINATOR) = Len(m) - 2
  BY HeaderEnds
<1>2. Len(t) \in Nat /\ n \in Nat /\ n <= Len(t) /\ Len(body) \in Nat
  BY <1>1
<1>3. m \in Seq(MessageSymbols) /\ Len(m) \in Nat /\ Len(m) >= 2
  BY DEF Lined
<1>4. p \in Seq(MessageSymbols) /\ Len(p) = n /\ \A k \in 1 .. n : p[k] = t[k]
  <2>1. \A k \in 1 .. n : t[k] \in MessageSymbols
    BY <1>1, <1>2, ElementOfSeq
  <2>2. /\ p \in Seq(MessageSymbols) /\ Len(p) = IF 1 <= n THEN n - 1 + 1 ELSE 0
        /\ \A k \in 1 .. n - 1 + 1 : p[k] = t[1 + k - 1]
    BY <2>1, SubSeqProperties
  <2>3. QED
    BY <1>2, <2>2
<1>5. PICK e \in Len(HEADER_TERMINATOR) .. Len(p) :
         /\ Header(p, e) /\ Len(p) = e + Announced(p, e)
         /\ x = [method |-> p[1], jwt |-> Says("AUTH", e), cookie |-> Says("COOKIE", e),
                 json |-> Says("CTYPE", e), body |-> SubSeq(p, e + 1, Len(p))]
  BY DEF Understood
<1> HIDE DEF p
<1>6. e = Len(m) + 2
  <2>1. Len(HEADER_TERMINATOR) = 4
    BY DEF HEADER_TERMINATOR
  <2>2. buffer_find(p, HEADER_TERMINATOR) = e - 4 /\ buffer_find(p, HEADER_TERMINATOR) >= 0
    <3>1. e = buffer_find(p, HEADER_TERMINATOR) + 4 /\ e \in 4 .. Len(p)
      BY <1>5, <2>1 DEF Header
    <3>2. HEADER_TERMINATOR \in Seq(MessageSymbols)
      BY DEF HEADER_TERMINATOR, MessageSymbols
    <3>3. buffer_find(p, HEADER_TERMINATOR) \in Int
      BY <1>4, <3>2, Found
    <3>4. QED
      BY <3>1, <3>3
  <2>3. Prefix(p, t)
    BY <1>1, <1>2, <1>4, PrefixOf
  <2>4. HEADER_TERMINATOR \in Seq(MessageSymbols)
    BY DEF HEADER_TERMINATOR, MessageSymbols
  <2>5. buffer_find(t, HEADER_TERMINATOR) = buffer_find(p, HEADER_TERMINATOR)
    <3>1. p \in Seq(MessageSymbols) /\ t \in Seq(MessageSymbols)
      BY <1>1, <1>4
    <3>2. buffer_find(p, HEADER_TERMINATOR) >= 0
      BY <2>2
    <3>3. QED
      BY <2>3, <2>4, <3>1, <3>2, FoundInPrefix
  <2>6. e \in Int
    BY <1>4, <1>5, <2>1
  <2>7. QED
    BY <1>1, <1>3, <2>2, <2>5, <2>6
<1>7. /\ \A k \in 1 .. Len(m) : p[k] = m[k]
      /\ p[Len(m) + 1] = "CR" /\ p[Len(m) + 2] = "LF"
      /\ e <= n /\ e \in Nat
  <2>1. e <= n /\ e \in Nat
    BY <1>2, <1>3, <1>4, <1>5, <1>6
  <2>2. Len(m) + 1 \in 1 .. n /\ Len(m) + 2 \in 1 .. n /\ \A k \in 1 .. Len(m) : k \in 1 .. n
    BY <1>2, <1>3, <1>6, <2>1
  <2>3. QED
    BY <1>1, <1>4, <2>1, <2>2
<1>8. \A s : s # "CR" /\ s # "LF" =>
         {k \in 1 .. e : p[k] = s} = {k \in 1 .. Len(m) : m[k] = s}
  <2>1. TAKE s
  <2>2. HAVE s # "CR" /\ s # "LF"
  <2>3. \A k \in 1 .. e : k \in 1 .. Len(m) \/ k = Len(m) + 1 \/ k = Len(m) + 2
    BY <1>3, <1>6
  <2>4. \A k \in 1 .. Len(m) : k \in 1 .. e
    BY <1>3, <1>6
  <2>5. QED
    BY <1>7, <2>2, <2>3, <2>4
<1>9. Announced(p, e) = Len(body)
  <2>1. {k \in 1 .. e : p[k] = "D"} = Digit(m)
    BY <1>8 DEF Digit
  <2>2. QED
    BY <2>1 DEF Announced
<1>10. n = Len(t)
  BY <1>1, <1>2, <1>3, <1>4, <1>5, <1>6, <1>9
<1>11. SubSeq(p, e + 1, Len(p)) = body
  <2> DEFINE rest == SubSeq(p, e + 1, Len(p))
  <2>1. /\ e + 1 \in Nat /\ Len(p) = e + Len(body) /\ e \in Nat
    BY <1>1, <1>3, <1>4, <1>6, <1>10
  <2>2. \A k \in e + 1 .. Len(p) : p[k] \in MessageSymbols
    BY <1>4, <2>1, ElementOfSeq
  <2>3. /\ rest \in Seq(MessageSymbols)
        /\ Len(rest) = IF e + 1 <= Len(p) THEN Len(p) - (e + 1) + 1 ELSE 0
        /\ \A k \in 1 .. Len(p) - (e + 1) + 1 : rest[k] = p[e + 1 + k - 1]
    BY <1>2, <1>4, <2>1, <2>2, SubSeqProperties
  <2> HIDE DEF rest
  <2>4. Len(rest) = Len(body)
    BY <1>2, <2>1, <2>3
  <2>5. \A k \in 1 .. Len(body) : rest[k] = body[k]
    <3>1. TAKE k \in 1 .. Len(body)
    <3>2. /\ k \in 1 .. Len(p) - (e + 1) + 1 /\ e + 1 + k - 1 = Len(m) + 2 + k
          /\ Len(m) + 2 + k \in 1 .. n
      BY <1>2, <1>3, <1>4, <1>6, <2>1
    <3>3. rest[k] = p[Len(m) + 2 + k]
      BY <2>3, <3>2
    <3>4. QED
      BY <1>1, <1>4, <3>2, <3>3
  <2>6. body \in Seq(MessageSymbols)
    BY DEF BodySymbols, LineSymbols, MessageSymbols
  <2>7. rest = body
    BY <2>3, <2>4, <2>5, <2>6, SeqEqual
  <2>8. QED
    BY <2>7 DEF rest
<1>12. p[1] = m[1]
  BY <1>3, <1>7
<1>13. \A s \in {"AUTH", "CTYPE", "COOKIE"} : Says(s, e) <=> s \in Marked(m)
  <2>1. TAKE s \in {"AUTH", "CTYPE", "COOKIE"}
  <2>2. {k \in 1 .. e : p[k] = s} = {k \in 1 .. Len(m) : m[k] = s}
    BY <1>8
  <2>3. (\E k \in 1 .. e : p[k] = s) <=> (\E k \in 1 .. Len(m) : m[k] = s)
    BY <2>2
  <2>4. QED
    BY <2>3 DEF Marked
<1>14. \A s : Says(s, e) \in BOOLEAN
  OBVIOUS
<1> HIDE DEF Says
<1>15. x = [method |-> m[1], jwt |-> Says("AUTH", e), cookie |-> Says("COOKIE", e),
            json |-> Says("CTYPE", e), body |-> body]
  BY <1>5, <1>11, <1>12
<1>16. ReadAs(x, m, body)
  <2>1. /\ Says("AUTH", e) <=> "AUTH" \in Marked(m)
        /\ Says("COOKIE", e) <=> "COOKIE" \in Marked(m)
        /\ Says("CTYPE", e) <=> "CTYPE" \in Marked(m)
    BY <1>13
  <2>2. QED
    BY <1>14, <1>15, <2>1, Zenon DEF ReadAs
<1>17. QED
  BY <1>10, <1>16

\* What a handler meant by its request.
Body(r) == IF r.body_data = NULL THEN <<>> ELSE body_data_buffer(r.body_data)

Means(r, m, body) ==
    /\ Lined(m) /\ m[1] = r.method
    /\ "AUTH" \in Marked(m) <=> r.jwt
    /\ "COOKIE" \in Marked(m) <=> r.cookies = <<"COOKIE">>
    /\ "CTYPE" \in Marked(m) <=> r.body_data # NULL
    /\ body \in Seq(BodySymbols) /\ Cardinality(Digit(m)) = Len(body)

\* The four functions of requests.c: a header and the body it announces.
LEMMA Composed ==
  ASSUME NEW r \in Requests
  PROVE  \E m : /\ compute_request(r) = compute_message(m, <<>>) \o Body(r)
                /\ Means(r, m, Body(r))
<1> DEFINE start == Start(r)
           ck == IF r.cookies = <<"COOKIE">> THEN {"COOKIE"} ELSE {}
           au == IF r.jwt THEN {"AUTH"} ELSE {}
<1>1. /\ r.method \in Methods /\ r.jwt \in BOOLEAN
      /\ r.cookies \in {NULL, <<"COOKIE">>, <<"NOCOOKIE">>}
      /\ IF r.method \in {"POST", "PUT"}
         THEN r.body_data \in Seq(Seq(BodySymbols)) ELSE r.body_data = NULL
  BY RequestsAssumption
<1>2. Lined(start) /\ start[1] = r.method /\ Digit(start) = {} /\ Marked(start) = au
  BY Started
<1> HIDE DEF start
<1>3. CASE r.method \in {"GET", "DELETE"}
  <2> DEFINE m == Cookies(start, r.cookies)
  <2>1. Lined(m) /\ m[1] = r.method /\ Digit(m) = {} /\ Marked(m) = au \cup ck
    BY <1>1, <1>2, CookieAdded
  <2>2. r.body_data = NULL /\ Body(r) = <<>>
    BY <1>1, <1>3 DEF Body
  <2>3. compute_request(r) = compute_message(m, <<>>)
    BY <1>3 DEF compute_request, compute_bodyless_request, start
  <2> HIDE DEF m
  <2>4. m \in Seq(MessageSymbols) /\ <<>> \in Seq(LineSymbols)
    BY <2>1 DEF Lined
  <2>5. compute_message(m, <<>>) \in Seq(MessageSymbols)
    BY <2>4, LineText
  <2>6. compute_message(m, <<>>) \o <<>> = compute_message(m, <<>>)
    BY <2>5, ConcatEmptySeq
  <2>7. Means(r, m, <<>>)
    <3>1. "AUTH" \in Marked(m) <=> r.jwt
      BY <2>1
    <3>2. "COOKIE" \in Marked(m) <=> r.cookies = <<"COOKIE">>
      BY <2>1
    <3>3. "CTYPE" \notin Marked(m)
      BY <2>1
    <3>4. Cardinality(Digit(m)) = Len(<<>>) /\ <<>> \in Seq(BodySymbols)
      BY <2>1, FS_EmptySet
    <3>5. QED
      BY <2>1, <2>2, <3>1, <3>2, <3>3, <3>4 DEF Means
  <2>8. QED
    BY <2>2, <2>3, <2>6, <2>7
<1>4. CASE r.method \in {"POST", "PUT"}
  <2> DEFINE body == body_data_buffer(r.body_data)
             type == compute_message(start, <<"CTYPE">>)
             sized == compute_message(type, <<"CL">> \o Number(Len(body)))
             m == Cookies(sized, r.cookies)
  <2>1. r.body_data \in Seq(Seq(BodySymbols)) /\ r.body_data # NULL
    BY <1>1, <1>4, NullAssumption
  <2>2. body \in Seq(BodySymbols) /\ Body(r) = body
    BY <2>1, BodyPrinted DEF Body
  <2>3. compute_request(r) = compute_message(m, <<>>) \o body
    BY <1>4 DEF compute_request, compute_body_request, WithBody, start
  <2> HIDE DEF body
  <2>4. Len(body) \in Nat
    BY <2>2
  <2>5. /\ Lined(type) /\ type[1] = r.method /\ Digit(type) = {}
        /\ Marked(type) = au \cup {"CTYPE"}
    <3>1. start \in Seq(MessageSymbols) /\ start # <<>>
      BY <1>2, EmptySeq DEF Lined
    <3>2. "CTYPE" \in LineSymbols \ {"D"} /\ {"CTYPE"} \cap Marks = {"CTYPE"}
      BY DEF LineSymbols, Marks
    <3>3. QED
      BY <1>2, <3>1, <3>2, SymbolAdded
  <2> HIDE DEF type
  <2>6. /\ Lined(sized) /\ sized[1] = r.method /\ Marked(sized) = au \cup {"CTYPE"}
        /\ Cardinality(Digit(sized)) = Len(body)
    <3>1. type \in Seq(MessageSymbols)
      BY <2>5 DEF Lined
    <3>2. QED
      BY <2>4, <2>5, <3>1, LengthAdded
  <2> HIDE DEF sized
  <2>7. /\ Lined(m) /\ m[1] = r.method /\ Digit(m) = Digit(sized)
        /\ Marked(m) = au \cup {"CTYPE"} \cup ck
    BY <1>1, <2>6, CookieAdded
  <2> HIDE DEF m
  <2>8. Means(r, m, body)
    <3>1. "AUTH" \in Marked(m) <=> r.jwt
      BY <2>7
    <3>2. "COOKIE" \in Marked(m) <=> r.cookies = <<"COOKIE">>
      BY <2>7
    <3>3. "CTYPE" \in Marked(m)
      BY <2>7
    <3>4. QED
      BY <2>1, <2>2, <2>6, <2>7, <3>1, <3>2, <3>3 DEF Means
  <2>9. QED
    BY <2>2, <2>3, <2>8
<1>5. QED
  BY <1>1, <1>3, <1>4 DEF Methods

\* x is what the handler meant by r.
Meant(r, x) ==
    /\ x # NULL
    /\ x.method = r.method
    /\ x.jwt = r.jwt
    /\ x.cookie = (r.cookies = <<"COOKIE">>)
    /\ x.json = (r.body_data # NULL)
    /\ x.body = Body(r)

\* The server takes a request only when it is all there, and takes all of it:
\* whatever the body says, it takes it for what it is.
LEMMA Understandable ==
  ASSUME NEW r \in Requests, NEW n \in 1 .. Len(compute_request(r)),
         NEW x \in Understood(SubSeq(compute_request(r), 1, n))
  PROVE  n = Len(compute_request(r)) /\ Meant(r, x)
<1> DEFINE t == compute_request(r)
           body == Body(r)
<1>1. PICK m : t = compute_message(m, <<>>) \o body /\ Means(r, m, body)
  BY Composed
<1> HIDE DEF t, body
<1>2. n \in 1 .. Len(t) /\ x \in Understood(SubSeq(t, 1, n))
  BY DEF t
<1>3. Lined(m) /\ m[1] = r.method /\ body \in Seq(BodySymbols) /\ Cardinality(Digit(m)) = Len(body)
  BY <1>1 DEF Means
<1>4. n = Len(t) /\ ReadAs(x, m, body)
  BY <1>1, <1>2, <1>3, Taken
<1>5. PICK jwt \in BOOLEAN, cookie \in BOOLEAN, json \in BOOLEAN :
         /\ x = [method |-> m[1], jwt |-> jwt, cookie |-> cookie, json |-> json, body |-> body]
         /\ jwt <=> "AUTH" \in Marked(m)
         /\ cookie <=> "COOKIE" \in Marked(m)
         /\ json <=> "CTYPE" \in Marked(m)
  BY <1>4 DEF ReadAs
<1>6. r.method \in Methods /\ r.jwt \in BOOLEAN
  BY RequestsAssumption
<1>7. x \in Heard
  BY <1>3, <1>5, <1>6 DEF Heard
<1>8. x # NULL
  BY <1>7, NullAssumption
<1>9. /\ jwt <=> r.jwt
      /\ cookie <=> r.cookies = <<"COOKIE">>
      /\ json <=> r.body_data # NULL
  BY <1>1, <1>5, Zenon DEF Means
<1>10. /\ x.method = r.method /\ x.jwt = jwt /\ x.cookie = cookie /\ x.json = json
       /\ x.body = body
  BY <1>3, <1>5
<1>11. jwt = r.jwt /\ cookie = (r.cookies = <<"COOKIE">>) /\ json = (r.body_data # NULL)
  BY <1>6, <1>9
<1>12. QED
  BY <1>4, <1>8, <1>10, <1>11 DEF Meant, t, body

-----------------------------------------------------------------------------
(***************************************************************************)
(* What the server hears.                                                  *)
(***************************************************************************)

LEMMA HeardAsMeant ==
  RequestHeard <=> (heard # NULL => Meant(request, heard))
  BY DEF RequestHeard, Meant, Body

\* A request is a message, and not an empty one.
LEMMA IsMessage ==
  ASSUME NEW r \in Requests
  PROVE  compute_request(r) \in Seq(MessageSymbols) /\ compute_request(r) # <<>>
<1>1. PICK m : compute_request(r) = compute_message(m, <<>>) \o Body(r) /\ Means(r, m, Body(r))
  BY Composed
<1>2. Lined(m) /\ Body(r) \in Seq(BodySymbols) /\ Len(m) \in Nat
  BY <1>1 DEF Means, Lined
<1> DEFINE t == compute_message(m, <<>>) \o Body(r)
<1>3. t \in Seq(MessageSymbols) /\ Len(t) = Len(m) + 2 + Len(Body(r))
  BY <1>2, HeaderEnds
<1> HIDE DEF t
<1>4. Len(Body(r)) \in Nat
  BY <1>2
<1>5. t # <<>>
  BY <1>2, <1>3, <1>4, EmptySeq
<1>6. QED
  BY <1>1, <1>3, <1>5 DEF t

LEMMA InitExchangeIInv == InitExchange => ExchangeIInv
  BY DEF InitExchange, Init, ExchangeIInv, Sending, UplinkHolds, RequestHeard

LEMMA ComposeKeeps ==
  ASSUME IInv, ExchangeIInv, Compose
  PROVE  ExchangeIInv'
<1>1. PICK r \in Requests : request' = r /\ message' = compute_request(r)
  BY DEF Compose
<1>2. /\ pc = "idle" /\ pc' = pc /\ message = <<>> /\ heard' = NULL
      /\ uplink' = uplink /\ closed' = closed
  BY DEF Compose, vars, server
<1>3. message' \in Seq(MessageSymbols) /\ message' # <<>>
  BY <1>1, IsMessage
<1>4. uplink = <<>> /\ uplink \in Seq(MessageSymbols)
  <2>1. closed \in BOOLEAN
    BY Types DEF IInv
  <2>2. QED
    BY <1>2, <2>1 DEF ExchangeIInv, UplinkHolds
<1>5. uplink' \o message' = compute_request(request')
  BY <1>1, <1>2, <1>3, <1>4, ConcatEmptySeq
<1>6. Sending'
  BY <1>2 DEF Sending
<1>7. UplinkHolds'
  BY <1>1, <1>2, <1>3, <1>4, <1>5 DEF UplinkHolds
<1>8. RequestHeard'
  BY <1>2 DEF RequestHeard
<1>9. QED
  BY <1>2, <1>3, <1>4, <1>6, <1>7, <1>8 DEF ExchangeIInv

LEMMA WriteKeeps ==
  ASSUME IInv, ExchangeIInv, Write
  PROVE  ExchangeIInv'
<1>1. PICK n \in 1 .. Len(message) :
         /\ uplink' = IF closed THEN uplink ELSE uplink \o SubSeq(message, 1, n)
         /\ message' = SubSeq(message, n + 1, Len(message))
  BY DEF Write
<1>2. /\ pc = "idle" /\ message # <<>> /\ request' = request /\ heard' = heard
      /\ IF message' = <<>> THEN Request ELSE UNCHANGED vars
  BY DEF Write
<1>3. message \in Seq(MessageSymbols) /\ uplink \in Seq(MessageSymbols)
  BY DEF ExchangeIInv
<1>4. /\ message' \in Seq(MessageSymbols) /\ uplink' \in Seq(MessageSymbols)
      /\ ~closed => uplink' \o message' = uplink \o message
  <2>1. /\ uplink \o SubSeq(message, 1, n) \in Seq(MessageSymbols)
        /\ SubSeq(message, n + 1, Len(message)) \in Seq(MessageSymbols)
        /\ (uplink \o SubSeq(message, 1, n)) \o SubSeq(message, n + 1, Len(message))
             = uplink \o message
    <3>1. \A s, t \in Seq(MessageSymbols) : \A k \in 1 .. Len(t) :
             /\ t # <<>>
             /\ s \o SubSeq(t, 1, k) \in Seq(MessageSymbols) /\ SubSeq(t, k + 1, Len(t)) \in Seq(MessageSymbols)
             /\ (s \o SubSeq(t, 1, k)) \o SubSeq(t, k + 1, Len(t)) = s \o t
      BY MovedOn, Zenon
    <3>2. QED
      BY <1>3, <3>1
  <2>2. QED
    BY <1>1, <1>3, <2>1
<1>5. /\ closed' = closed
      /\ message' # <<>> => pc' = "idle"
      /\ message' = <<>> => pc' = "head" /\ waiting' = ~closed
  BY <1>2 DEF Request, vars, server
<1>6. /\ request \in Requests /\ (closed => uplink = <<>>)
      /\ ~closed => heard = NULL /\ uplink \o message = compute_request(request)
  BY <1>2 DEF ExchangeIInv, UplinkHolds
<1>7. Sending' /\ (pc' = "died" => closed')
  BY <1>5 DEF Sending
<1>8. ~closed /\ message' = <<>> => uplink' = compute_request(request)
  BY <1>4, <1>6, ConcatEmptySeq
<1>9. UplinkHolds'
  <2>1. closed' => uplink' = <<>>
    BY <1>1, <1>5, <1>6
  <2>2. ~closed' /\ message' # <<>> =>
            heard' = NULL /\ uplink' \o message' = compute_request(request')
    BY <1>2, <1>4, <1>5, <1>6
  <2>3. ~closed' /\ message' = <<>> => waiting' /\ heard' = NULL /\ pc' # "idle"
            /\ uplink' = compute_request(request')
    BY <1>2, <1>5, <1>6, <1>8
  <2>4. request' \in Requests
    BY <1>2, <1>6
  <2>5. QED
    BY <2>1, <2>2, <2>3, <2>4 DEF UplinkHolds
<1>10. RequestHeard'
  BY <1>2 DEF ExchangeIInv, RequestHeard
<1>11. QED
  BY <1>4, <1>7, <1>9, <1>10 DEF ExchangeIInv

LEMMA TakeKeeps ==
  ASSUME IInv, ExchangeIInv, Take
  PROVE  ExchangeIInv'
<1>1. PICK size \in 1 .. Len(uplink) :
         /\ heard' \in Understood(SubSeq(uplink, 1, size))
         /\ uplink' = SubSeq(uplink, size + 1, Len(uplink))
  BY DEF Take
<1>2. /\ ~closed /\ heard = NULL /\ closed' = closed /\ pc' = pc /\ waiting' = waiting
      /\ request' = request /\ message' = message
  BY DEF Take, vars, server
<1>3. message \in Seq(MessageSymbols) /\ uplink \in Seq(MessageSymbols) /\ uplink # <<>>
  <2>1. message \in Seq(MessageSymbols) /\ uplink \in Seq(MessageSymbols)
    BY DEF ExchangeIInv
  <2>2. Len(uplink) \in Nat /\ Len(uplink) >= 1
    BY <1>1, <2>1
  <2>3. QED
    BY <2>1, <2>2, EmptySeq
<1>4. uplink \o message = compute_request(request) /\ request \in Requests
  <2>1. CASE message # <<>>
    BY <1>2, <2>1 DEF ExchangeIInv, UplinkHolds
  <2>2. CASE message = <<>>
    <3>1. pc # "idle" /\ uplink = compute_request(request)
      BY <1>2, <1>3, <2>2 DEF ExchangeIInv, UplinkHolds
    <3>2. pc \in {"head", "body"}
      BY <1>2, <3>1, Types DEF IInv, ExchangeIInv
    <3>3. QED
      BY <1>3, <2>2, <3>1, <3>2, ConcatEmptySeq DEF ExchangeIInv, UplinkHolds
  <2>3. QED
    BY <2>1, <2>2
<1> DEFINE t == compute_request(request)
<1>5. /\ t \in Seq(MessageSymbols) /\ Len(t) = Len(uplink) + Len(message)
      /\ \A k \in 1 .. Len(uplink) : t[k] = uplink[k]
  <2>1. /\ uplink \o message \in Seq(MessageSymbols)
        /\ Len(uplink \o message) = Len(uplink) + Len(message)
        /\ \A k \in 1 .. Len(uplink) + Len(message) :
              (uplink \o message)[k] = IF k <= Len(uplink) THEN uplink[k]
                                       ELSE message[k - Len(uplink)]
    BY <1>3, ConcatProperties
  <2>2. Len(uplink) \in Nat /\ Len(message) \in Nat
    BY <1>3
  <2> HIDE DEF t
  <2>3. t = uplink \o message
    BY <1>4 DEF t
  <2>4. QED
    BY <2>1, <2>2, <2>3
<1>6. Len(uplink) \in Nat /\ Len(message) \in Nat /\ size \in 1 .. Len(t)
  BY <1>3, <1>5
<1>7. SubSeq(uplink, 1, size) = SubSeq(t, 1, size)
  <2>1. Prefix(uplink, t)
    BY <1>3, <1>5, <1>6, PrefixOf
  <2>2. uplink = SubSeq(t, 1, Len(uplink))
    BY <2>1 DEF Prefix
  <2> DEFINE a == SubSeq(uplink, 1, size)
             b == SubSeq(t, 1, size)
  <2>3. \A k \in 1 .. size : uplink[k] \in MessageSymbols /\ t[k] \in MessageSymbols
    BY <1>3, <1>5, <1>6, ElementOfSeq
  <2>4. /\ a \in Seq(MessageSymbols) /\ Len(a) = IF 1 <= size THEN size - 1 + 1 ELSE 0
        /\ \A k \in 1 .. size - 1 + 1 : a[k] = uplink[1 + k - 1]
    BY <1>3, <1>6, <2>3, SubSeqProperties
  <2>5. /\ b \in Seq(MessageSymbols) /\ Len(b) = IF 1 <= size THEN size - 1 + 1 ELSE 0
        /\ \A k \in 1 .. size - 1 + 1 : b[k] = t[1 + k - 1]
    BY <1>5, <1>6, <2>3, SubSeqProperties
  <2> HIDE DEF a, b, t
  <2>6. Len(a) = Len(b) /\ \A k \in 1 .. Len(a) : a[k] = b[k]
    BY <1>5, <1>6, <2>4, <2>5
  <2>7. a = b
    BY <2>4, <2>5, <2>6, SeqEqual
  <2>8. QED
    BY <2>7 DEF a, b
<1>8. size = Len(t) /\ Meant(request, heard')
  BY <1>1, <1>4, <1>6, <1>7, Understandable
<1>9. message = <<>> /\ size = Len(uplink)
  <2>1. Len(message) = 0 /\ size = Len(uplink)
    BY <1>1, <1>5, <1>6, <1>8
  <2>2. QED
    BY <1>3, <2>1, EmptySeq
<1>10. uplink' = <<>>
  BY <1>1, <1>3, <1>6, <1>9, SubSeqEmpty
<1>11. heard' # NULL
  BY <1>8 DEF Meant
<1>12. Sending' /\ (pc' = "died" => closed')
  BY <1>2 DEF ExchangeIInv, Sending
<1>13. UplinkHolds'
  BY <1>2, <1>4, <1>9, <1>10, <1>11 DEF UplinkHolds
<1>14. RequestHeard'
  BY <1>2, <1>8 DEF RequestHeard, Meant, Body
<1>15. QED
  BY <1>2, <1>3, <1>10, <1>12, <1>13, <1>14, EmptySeq DEF ExchangeIInv

\* A request that cannot be written changes nothing but the process.
LEMMA FailToWriteKeeps ==
  ASSUME IInv, ExchangeIInv, FailToWrite
  PROVE  ExchangeIInv'
<1>1. /\ message # <<>> /\ closed /\ closed' = closed /\ pc' = "died"
      /\ request' = request /\ message' = message /\ uplink' = uplink /\ heard' = heard
  BY DEF FailToWrite, WriteError, exchange, server
<1>2. request \in Requests /\ uplink = <<>>
  BY <1>1 DEF ExchangeIInv, UplinkHolds
<1>3. Sending' /\ UplinkHolds'
  BY <1>1, <1>2 DEF Sending, UplinkHolds
<1>4. RequestHeard'
  BY <1>1 DEF ExchangeIInv, RequestHeard
<1>5. QED
  BY <1>1, <1>3, <1>4 DEF ExchangeIInv

\* The server answers only what it has taken.
LEMMA AnswerKeeps ==
  ASSUME IInv, ExchangeIInv, Answer
  PROVE  ExchangeIInv'
<1>1. /\ heard # NULL /\ pc' = pc /\ closed' = closed
      /\ request' = request /\ message' = message /\ uplink' = uplink /\ heard' = heard
  BY DEF Answer, Respond, exchange
<1>2. Sending' /\ (pc' = "died" => closed')
  BY <1>1 DEF ExchangeIInv, Sending
<1>3. UplinkHolds'
  BY <1>1 DEF ExchangeIInv, UplinkHolds
<1>4. RequestHeard'
  BY <1>1 DEF ExchangeIInv, RequestHeard
<1>5. QED
  BY <1>1, <1>2, <1>3, <1>4 DEF ExchangeIInv

LEMMA CloseExchangeKeeps ==
  ASSUME IInv, ExchangeIInv, CloseExchange
  PROVE  ExchangeIInv'
<1>1. /\ pc' = pc /\ closed' = TRUE /\ uplink' = <<>>
      /\ request' = request /\ message' = message /\ heard' = heard
  BY DEF CloseExchange, Close
<1>2. Sending'
  BY <1>1 DEF ExchangeIInv, Sending
<1>3. UplinkHolds'
  BY <1>1 DEF ExchangeIInv, UplinkHolds
<1>4. RequestHeard'
  BY <1>1 DEF ExchangeIInv, RequestHeard
<1>5. QED
  BY <1>1, <1>2, <1>3, <1>4, EmptySeq DEF ExchangeIInv

\* A call returns only after the answer, or on a closed connection: its
\* request has been taken.
LEMMA ReceiveReplyKeeps ==
  ASSUME IInv, ExchangeIInv, ReceiveReply
  PROVE  ExchangeIInv'
<1>1. /\ request' = request /\ message' = message /\ uplink' = uplink /\ heard' = heard
  BY DEF ReceiveReply, exchange
<1>2. /\ closed' = closed /\ waiting' = waiting /\ pc \in {"head", "body"}
      /\ \/ pc' \in {"head", "body"}
         \/ pc' = "idle" /\ pc = "body"
         \/ pc' = "died" /\ closed
  <2>1. CASE ReadHead
    <3>1. pc = "head" /\ (pc' = pc \/ pc' = "body") /\ closed' = closed /\ waiting' = waiting
      BY <2>1 DEF ReadHead
    <3>2. QED
      BY <3>1
  <2>2. CASE EofHead
    BY <2>2 DEF EofHead, server
  <2>3. CASE ReadBody
    BY <2>3 DEF ReadBody
  <2>4. CASE Return
    BY <2>4 DEF Return, server
  <2>5. CASE ReadError
    BY <2>5 DEF ReadError, server
  <2>6. QED
    BY <2>1, <2>2, <2>3, <2>4, <2>5 DEF ReceiveReply, Receive
<1>3. message = <<>> /\ request \in Requests
  BY <1>2 DEF ExchangeIInv, Sending, UplinkHolds
<1>4. pc = "body" => ~waiting
  BY DEF IInv
<1>5. Sending' /\ (pc' = "died" => closed')
  BY <1>1, <1>2, <1>3 DEF Sending
<1>6. UplinkHolds'
  <2>1. closed' => uplink' = <<>>
    BY <1>1, <1>2 DEF ExchangeIInv, UplinkHolds
  <2>2. ASSUME ~closed'
        PROVE  IF pc' # "idle" /\ heard' = NULL
               THEN waiting' /\ uplink' = compute_request(request') ELSE uplink' = <<>>
    <3>1. ~closed /\ pc # "idle"
      BY <1>2, <2>2
    <3>2. IF heard = NULL THEN waiting /\ uplink = compute_request(request) ELSE uplink = <<>>
      BY <1>3, <3>1 DEF ExchangeIInv, UplinkHolds
    <3>3. pc' = "idle" => heard # NULL
      BY <1>2, <1>4, <3>2
    <3>4. QED
      BY <1>1, <1>2, <3>2, <3>3
  <2>3. QED
    BY <1>1, <1>3, <2>1, <2>2 DEF UplinkHolds
<1>7. RequestHeard'
  BY <1>1 DEF ExchangeIInv, RequestHeard
<1>8. QED
  BY <1>1, <1>5, <1>6, <1>7 DEF ExchangeIInv

LEMMA NextExchangeIInv == IInv /\ ExchangeIInv /\ [NextExchange]_allvars => ExchangeIInv'
<1>1. ASSUME IInv, ExchangeIInv, UNCHANGED allvars PROVE ExchangeIInv'
  BY <1>1 DEF allvars, vars, server, exchange, ExchangeIInv, Sending, UplinkHolds, RequestHeard
<1>2. ASSUME IInv, ExchangeIInv, DiedExchange PROVE ExchangeIInv'
  BY <1>1, <1>2 DEF DiedExchange, Died, allvars
<1>3. QED
  BY <1>1, <1>2, ComposeKeeps, WriteKeeps, TakeKeeps, FailToWriteKeeps, AnswerKeeps,
     CloseExchangeKeeps, ReceiveReplyKeeps DEF NextExchange

\* The request is in the uplink and what is still to be written, together,
\* until the server has taken all of it.
THEOREM ExchangeInvariance == ExchangeSpec => [](IInv /\ ExchangeIInv)
<1>1. ExchangeSpec => []IInv
  BY ExchangeReceives, Invariance, PTL
<1>2. QED
  BY <1>1, InitExchangeIInv, NextExchangeIInv, PTL DEF ExchangeSpec

\* The server hears what the handler asked for (requests.c), whatever the body
\* says and however write() cuts the message.
THEOREM HeardRight == ExchangeSpec => []RequestHeard
<1>1. ExchangeIInv => RequestHeard
  BY DEF ExchangeIInv
<1>2. QED
  BY <1>1, ExchangeInvariance, PTL

\* No rest of a request is left in front of the next.
THEOREM UplinkStaysInStep == ExchangeSpec => []UplinkInStep
<1>1. ExchangeIInv => UplinkInStep
  BY DEF ExchangeIInv, UplinkHolds, UplinkInStep
<1>2. QED
  BY <1>1, ExchangeInvariance, PTL
=============================================================================
