------------------------ MODULE CommandInput_proofs ------------------------
(***************************************************************************)
(* Proofs about the keyboard input of CommandInput: a careful user's       *)
(* answers reach the reads they were typed for, and text is no command,    *)
(* for lines of any length, any number of movies and any commands.         *)
(***************************************************************************)
EXTENDS CommandInput, NatSets, SequenceTheorems

Kinds == {"command", "skip", "line", "int", "float"}
Entry == [sym : Symbols, at : [step : Nat, kind : Kinds]]

\* The symbols are all different.
LEMMA SymbolFacts ==
  /\ Words \cap (Blanks \cup {"7", "."}) = {}
  /\ Words \cup Blanks \cup {"7", "."} \subseteq Symbols
  /\ {"7", "."} \cap Blanks = {} /\ "7" # "." /\ "text" \in Words /\ "exit" \in Words
  BY DEF Words, Blanks, Symbols, AllCommands, HandlerOf

-----------------------------------------------------------------------------
\* The reads of the handlers

InputLists ==
    { <<>>, <<"int">>, <<"int", "int">>, <<"skip", "line">>, <<"skip", "line", "line">>,
      <<"skip", "line", "line", "line">>, <<"skip", "line", "int">>,
      <<"skip", "line", "int", "line", "float">>,
      <<"int", "line", "int", "line", "float", "skip">> }

\* The inputs of the handler table.
LEMMA TableInputs ==
  ASSUME NEW c \in AllCommands
  PROVE  HandlerOf[c].input \in InputLists
<1>1. HandlerOf[c] \in {login_admin, add_user, get_users, delete_user, login, logout_admin,
          get_access, get_movies, add_movie, get_movie, update_movie, delete_movie, logout,
          get_collections, get_collection, delete_collection, add_movie_to_collection,
          add_collection, delete_movie_from_collection}
  BY DEF AllCommands, HandlerOf
<1>2. QED
  BY <1>1 DEF Handler, login_admin, add_user, get_users, delete_user, login, logout_admin,
          get_access, get_movies, add_movie, get_movie, update_movie, delete_movie, logout,
          get_collections, get_collection, delete_collection, add_movie_to_collection,
          add_collection, delete_movie_from_collection, InputLists

\* They are reads, and fit the newline of the command.
LEMMA InputListsFit ==
  ASSUME NEW t \in InputLists
  PROVE  t \in Seq(ReadKinds) /\ Len(t) <= 6 /\ Fits(t, TRUE)
<1>1. /\ <<>> \in Seq(ReadKinds)
      /\ <<"int">> \in Seq(ReadKinds)
      /\ <<"int", "int">> \in Seq(ReadKinds)
      /\ <<"skip", "line">> \in Seq(ReadKinds)
  BY DEF ReadKinds
<1>2. /\ <<"skip", "line", "line">> \in Seq(ReadKinds)
      /\ <<"skip", "line", "int">> \in Seq(ReadKinds)
  BY DEF ReadKinds
<1>3. /\ <<"skip", "line", "line", "line">> \in Seq(ReadKinds)
  BY DEF ReadKinds
<1>4. /\ <<"skip", "line", "int", "line", "float">> \in Seq(ReadKinds)
  BY DEF ReadKinds
<1>5. /\ <<"int", "line", "int", "line", "float", "skip">> \in Seq(ReadKinds)
  BY DEF ReadKinds
<1>6. /\ Len(<<>>) <= 6
      /\ Len(<<"int">>) <= 6
      /\ Len(<<"int", "int">>) <= 6
      /\ Len(<<"skip", "line">>) <= 6
      /\ Len(<<"skip", "line", "line">>) <= 6
      /\ Len(<<"skip", "line", "int">>) <= 6
      /\ Len(<<"skip", "line", "line", "line">>) <= 6
      /\ Len(<<"skip", "line", "int", "line", "float">>) <= 6
      /\ Len(<<"int", "line", "int", "line", "float", "skip">>) <= 6
  OBVIOUS
<1>7. Fits(t, TRUE)
  BY DEF Fits, InputLists
<1>8. t \in Seq(ReadKinds)
  BY <1>1, <1>2, <1>3, <1>4, <1>5, Zenon DEF InputLists
<1>9. Len(t) <= 6
  BY <1>6, Zenon DEF InputLists
<1>10. QED
  BY <1>7, <1>8, <1>9

\* Each handler's reads fit a stdin that has the newline of the command left.
LEMMA InputsFit ==
  ASSUME NEW c \in AllCommands, NEW input \in InputOf(c)
  PROVE  input \in Seq(ReadKinds) /\ Len(input) <= 6 + 2 * MaxMovies /\ Fits(input, TRUE)
<1> DEFINE base == HandlerOf[c].input
<1>1. MaxMovies \in Nat
  BY BoundsAssumption
<1>2. base \in Seq(ReadKinds) /\ Len(base) <= 6 /\ Fits(base, TRUE)
  BY TableInputs, InputListsFit
<1>3. CASE c = "add_collection"
  <2>1. base = <<"skip", "line", "int">>
    BY <1>3 DEF HandlerOf, add_collection, Handler
  <2>2. PICK n \in 0 .. 2 * MaxMovies : input = base \o [i \in 1 .. n |-> "int"]
    BY <1>3 DEF InputOf
  <2> DEFINE more == [i \in 1 .. n |-> "int"]
  <2>3. n \in Nat /\ more \in Seq(ReadKinds) /\ Len(more) = n /\ \A i \in 1 .. n : more[i] = "int"
    BY <1>1 DEF ReadKinds
  <2>4. Len(base) = 3 /\ base[1] = "skip" /\ base[2] = "line" /\ base[3] = "int"
    BY <2>1
  <2>5. input = base \o more
    BY <2>2
  <2> HIDE DEF base, more
  <2>6. /\ base \o more \in Seq(ReadKinds) /\ Len(base \o more) = Len(base) + Len(more)
        /\ \A i \in 1 .. Len(base) + Len(more) :
              (base \o more)[i] = IF i <= Len(base) THEN base[i] ELSE more[i - Len(base)]
    BY <1>2, <2>3, ConcatProperties
  <2>7. /\ input \in Seq(ReadKinds) /\ Len(input) = 3 + n
        /\ \A i \in 1 .. 3 + n : input[i] = IF i <= 3 THEN base[i] ELSE more[i - 3]
    BY <2>3, <2>4, <2>5, <2>6
  <2>8. /\ input # <<>> /\ Head(input) = "skip"
        /\ \A i \in 2 .. Len(input) : input[i] # "skip" /\ (input[i] = "line" => i = 2)
        /\ input[1] = "skip"
    BY <2>3, <2>4, <2>7
  <2>9. Fits(input, TRUE)
    BY <2>8 DEF Fits
  <2>10. Len(input) <= 6 + 2 * MaxMovies
    BY <1>1, <2>2, <2>7
  <2>11. QED
    BY <2>7, <2>9, <2>10
<1>4. CASE c # "add_collection"
  <2>1. input = base
    BY <1>4 DEF InputOf
  <2> HIDE DEF base
  <2>2. Len(input) <= 6 + 2 * MaxMovies
    BY <1>1, <1>2, <2>1
  <2>3. QED
    BY <1>2, <2>1, <2>2
<1>5. QED
  BY <1>3, <1>4

\* What is left of the reads fits what a read leaves in stdin: "%f" its newline.
LEMMA FitsOn ==
  ASSUME NEW r \in Seq(ReadKinds), r # <<>>, NEW b \in BOOLEAN, Fits(r, b), NEW d \in BOOLEAN
  PROVE  Fits(Tail(r), Head(r) = "float") /\ Fits(<<>>, d)
<1>1. /\ Tail(r) \in Seq(ReadKinds) /\ Len(Tail(r)) = Len(r) - 1 /\ Len(r) \in Nat
      /\ \A i \in 1 .. Len(Tail(r)) : Tail(r)[i] = r[i + 1]
      /\ Head(r) = r[1]
  BY HeadTailProperties
<1>2. \A i \in 2 .. Len(r) : /\ r[i] = "skip" => r[i - 1] = "float"
                             /\ r[i] = "line" => r[i - 1] # "float"
  BY DEF Fits
<1>3. Tail(r) # <<>> => Head(Tail(r)) = r[2] /\ 2 \in 2 .. Len(r)
  BY <1>1
<1>4. \A i \in 2 .. Len(Tail(r)) : i + 1 \in 2 .. Len(r) /\ i - 1 \in 1 .. Len(Tail(r))
                                   /\ Tail(r)[i] = r[i + 1] /\ Tail(r)[i - 1] = r[(i + 1) - 1]
  BY <1>1
<1>5. Fits(Tail(r), Head(r) = "float")
  <2>1. Tail(r) # <<>> => /\ Head(Tail(r)) = "skip" => Head(r) = "float"
                          /\ Head(Tail(r)) = "line" => Head(r) # "float"
    BY <1>1, <1>2, <1>3
  <2>2. \A i \in 2 .. Len(Tail(r)) : /\ Tail(r)[i] = "skip" => Tail(r)[i - 1] = "float"
                                     /\ Tail(r)[i] = "line" => Tail(r)[i - 1] # "float"
    BY <1>2, <1>4
  <2>3. QED
    BY <2>1, <2>2 DEF Fits
<1>6. Fits(<<>>, d)
  BY DEF Fits
<1>7. QED
  BY <1>5, <1>6

-----------------------------------------------------------------------------
\* Standard input

\* What is behind the first n elements of a sequence.
LEMMA Rest ==
  ASSUME NEW T, NEW s \in Seq(T), NEW n \in Nat
  PROVE  LET r == SubSeq(s, n + 1, Len(s))
         IN  /\ r \in Seq(T) /\ Len(r) = IF n <= Len(s) THEN Len(s) - n ELSE 0
             /\ \A i \in 1 .. Len(r) : n + i \in 1 .. Len(s) /\ r[i] = s[n + i]
<1>1. /\ SubSeq(s, n + 1, Len(s)) \in Seq(T)
      /\ Len(SubSeq(s, n + 1, Len(s))) = IF n + 1 <= Len(s) THEN Len(s) - (n + 1) + 1 ELSE 0
      /\ \A i \in 1 .. Len(s) - (n + 1) + 1 : SubSeq(s, n + 1, Len(s))[i] = s[n + 1 + i - 1]
  <2>1. \A i \in n + 1 .. Len(s) : s[i] \in T
    OBVIOUS
  <2>2. n + 1 \in Int /\ Len(s) \in Int
    OBVIOUS
  <2>3. QED
    BY <2>1, <2>2, SubSeqProperties
<1> DEFINE r == SubSeq(s, n + 1, Len(s))
<1> HIDE DEF r
<1>2. Len(r) = IF n <= Len(s) THEN Len(s) - n ELSE 0
  BY <1>1 DEF r
<1>3. ASSUME NEW i \in 1 .. Len(r) PROVE n + i \in 1 .. Len(s) /\ r[i] = s[n + i]
  <2>1. n + i \in 1 .. Len(s) /\ i \in 1 .. Len(s) - (n + 1) + 1 /\ n + 1 + i - 1 = n + i
    BY <1>2
  <2>2. r[i] = s[n + 1 + i - 1]
    BY <1>1, <2>1 DEF r
  <2>3. QED
    BY <2>1, <2>2
<1>4. QED
  BY <1>1, <1>2, <1>3 DEF r

\* A run ends at the first symbol outside of the set, or at the end.
LEMMA RunValue ==
  ASSUME stdin \in Seq(Entry), NEW n \in 0 .. Len(stdin), NEW S
  PROVE  /\ Run(n, S) \in 0 .. Len(stdin) - n
         /\ \A i \in n + 1 .. n + Run(n, S) : stdin[i].sym \in S
         /\ n + Run(n, S) < Len(stdin) => stdin[n + Run(n, S) + 1].sym \notin S
<1> DEFINE T == {k \in 0 .. Len(stdin) - n : n + k < Len(stdin) => stdin[n + k + 1].sym \notin S}
<1>1. T \in SUBSET Nat /\ Len(stdin) - n \in T
  OBVIOUS
<1>2. PICK k \in T : \A m \in T : k <= m
  BY <1>1, Smallest
<1>3. ASSUME NEW i \in n + 1 .. n + k PROVE stdin[i].sym \in S
  <2>1. i - n - 1 \in 0 .. Len(stdin) - n /\ i - n - 1 < k
        /\ n + (i - n - 1) < Len(stdin) /\ n + (i - n - 1) + 1 = i
    BY <1>1, <1>2
  <2>2. i - n - 1 \notin T
    <3>1. SUFFICES ASSUME i - n - 1 \in T PROVE FALSE
      OBVIOUS
    <3>2. k <= i - n - 1
      BY <1>2, <3>1
    <3>3. QED
      BY <1>1, <2>1, <3>2
  <2>3. QED
    BY <2>1, <2>2
<1>4. QED
  BY <1>2, <1>3 DEF Run

\* A run has one length.
LEMMA RunIs ==
  ASSUME stdin \in Seq(Entry), NEW n \in 0 .. Len(stdin), NEW S, NEW k \in 0 .. Len(stdin) - n,
         \A i \in n + 1 .. n + k : stdin[i].sym \in S,
         n + k < Len(stdin) => stdin[n + k + 1].sym \notin S
  PROVE  Run(n, S) = k
<1> DEFINE m == Run(n, S)
<1>1. /\ m \in 0 .. Len(stdin) - n
      /\ \A i \in n + 1 .. n + m : stdin[i].sym \in S
      /\ n + m < Len(stdin) => stdin[n + m + 1].sym \notin S
  BY RunValue
<1> HIDE DEF m
<1>2. ~(k < m)
  <2>1. SUFFICES ASSUME k < m PROVE FALSE
    OBVIOUS
  <2>2. n + k < Len(stdin) /\ n + k + 1 \in n + 1 .. n + m
    BY <1>1, <2>1
  <2>3. QED
    BY <1>1, <2>2
<1>3. ~(m < k)
  <2>1. SUFFICES ASSUME m < k PROVE FALSE
    OBVIOUS
  <2>2. n + m < Len(stdin) /\ n + m + 1 \in n + 1 .. n + k
    BY <1>1, <2>1
  <2>3. QED
    BY <1>1, <2>2
<1>4. m = k
  BY <1>1, <1>2, <1>3
<1>5. QED
  BY <1>4 DEF m

\* What the type invariant says of stdin and of the prompt.
LEMMA Stdin ==
  ASSUME TypeOK
  PROVE  /\ stdin \in Seq(Entry) /\ Len(stdin) \in Nat
         /\ \A i \in 1 .. Len(stdin) : stdin[i] \in Entry
         /\ reads \in Seq(ReadKinds) /\ step \in Nat
         /\ pc = "read" => reads # <<>> /\ Head(reads) \in ReadKinds /\ Head(reads) = reads[1]
         /\ Prompt \in [step : Nat, kind : Kinds]
<1>1. /\ stdin \in Seq(Entry) /\ reads \in Seq(ReadKinds) /\ step \in Nat
      /\ pc = "read" <=> reads # <<>>
  <2>1. MaxMovies \in Nat
    BY BoundsAssumption
  <2>2. QED
    BY <2>1 DEF TypeOK, Entry, Kinds, ReadKinds
<1>2. pc = "read" => reads # <<>> /\ Head(reads) \in ReadKinds /\ Head(reads) = reads[1]
  BY <1>1, HeadTailProperties
<1>3. Prompt \in [step : Nat, kind : Kinds]
  BY <1>1, <1>2 DEF Prompt, Kinds, ReadKinds
<1>4. QED
  BY <1>1, <1>2, <1>3

\* Something is read only where the symbol behind the leading blanks is none.
LEMMA LeadingBlanks ==
  ASSUME TypeOK
  PROVE  /\ Leading \in 0 .. Len(stdin)
         /\ \A i \in 1 .. Leading : stdin[i].sym \in Blanks
         /\ Something <=> \E i \in 1 .. Len(stdin) : stdin[i].sym \notin Blanks
<1>1. stdin \in Seq(Entry) /\ 0 \in 0 .. Len(stdin)
  BY Stdin
<1>2. /\ Leading \in 0 .. Len(stdin)
      /\ \A i \in 1 .. Leading : stdin[i].sym \in Blanks
      /\ Leading < Len(stdin) => stdin[Leading + 1].sym \notin Blanks
  BY <1>1, RunValue DEF Leading
<1>3. QED
  BY <1>1, <1>2 DEF Something

\* What Drop leaves.
LEMMA Dropped ==
  ASSUME TypeOK, NEW n \in Nat
  PROVE  /\ Drop(n) \in Seq(Entry) /\ Len(Drop(n)) = IF n <= Len(stdin) THEN Len(stdin) - n ELSE 0
         /\ \A i \in 1 .. Len(Drop(n)) : n + i \in 1 .. Len(stdin) /\ Drop(n)[i] = stdin[n + i]
  BY Stdin, Rest DEF Drop

\* The answers that fit the present prompt have no blanks in them.
LEMMA Answers ==
  ASSUME TypeOK, NEW line \in Answer
  PROVE  /\ line \in Seq(Symbols \ Blanks) /\ Len(line) \in 1 .. 3
         /\ \A i \in 1 .. Len(line) : line[i] \in Symbols \ Blanks
<1> DEFINE S == Symbols \ Blanks
<1>1. {"7", ".", "text", "exit"} \cup Commands \subseteq S
  BY SymbolFacts, CommandsAssumption DEF Words
<1> HIDE DEF S
<1>2. /\ <<"7">> \in Seq(S) /\ <<"7", "7">> \in Seq(S) /\ <<"7", ".", "7">> \in Seq(S)
      /\ <<"text">> \in Seq(S)
      /\ Len(<<"7">>) = 1 /\ Len(<<"7", "7">>) = 2 /\ Len(<<"7", ".", "7">>) = 3
      /\ Len(<<"text">>) = 1
  BY <1>1
<1>3. \A c \in Commands \cup {"exit"} : <<c>> \in Seq(S) /\ Len(<<c>>) = 1
  BY <1>1
<1>4. \/ line \in {<<"7">>, <<"7", "7">>, <<"7", ".", "7">>, <<"text">>}
      \/ \E c \in Commands \cup {"exit"} : line = <<c>>
  BY DEF Answer
<1>5. line \in Seq(S) /\ Len(line) \in 1 .. 3
  <2>1. line \in Seq(S)
    BY <1>2, <1>3, <1>4, Zenon
  <2>2. Len(line) = 1 \/ Len(line) = 2 \/ Len(line) = 3
    BY <1>2, <1>3, <1>4, Zenon
  <2>3. QED
    BY <2>1, <2>2
<1>6. \A i \in 1 .. Len(line) : line[i] \in S
  BY <1>5
<1>7. QED
  BY <1>5, <1>6 DEF S

-----------------------------------------------------------------------------
\* Type correctness, one action at a time

\* The handler goes on to its next read or returns.
LEMMA Advance ==
  ASSUME TypeOK, StepsLeft, pc = "read", GoOn \/ Over
  PROVE  /\ reads' = <<>> \/ reads' = Tail(reads)
         /\ reads' \in Seq(ReadKinds) /\ step' \in Nat
         /\ step' + Len(reads') <= 7 + 2 * MaxMovies /\ step' <= 6 + 2 * MaxMovies
         /\ pc' \in {"scan", "read"} /\ (pc' = "read" <=> reads' # <<>>)
         /\ pc' = "scan" => reads' = <<>>
<1>1. /\ reads \in Seq(ReadKinds) /\ reads # <<>> /\ step \in Nat /\ MaxMovies \in Nat
      /\ Tail(reads) \in Seq(ReadKinds) /\ Len(Tail(reads)) = Len(reads) - 1 /\ Len(reads) \in Nat
      /\ step + Len(reads) <= 7 + 2 * MaxMovies
  BY Stdin, BoundsAssumption, HeadTailProperties DEF StepsLeft
<1>2. CASE Over
  BY <1>1, <1>2 DEF Over
<1>3. CASE Len(reads) # 1 /\ pc' = pc /\ reads' = Tail(reads) /\ step' = step + 1
  <2>1. Len(reads) >= 2
    BY <1>1, <1>3
  <2>2. Tail(reads) # <<>>
    <3>1. Len(Tail(reads)) # Len(<<>>)
      BY <1>1, <2>1
    <3>2. QED
      BY <3>1
  <2>3. step' + Len(reads') <= 7 + 2 * MaxMovies /\ step' <= 6 + 2 * MaxMovies
    BY <1>1, <1>3, <2>1, <2>2
  <2>4. QED
    BY <1>1, <1>3, <2>2, <2>3
<1>4. QED
  BY <1>2, <1>3 DEF GoOn

\* The handler of a command starts, or main() reads on.
LEMMA Dispatched ==
  ASSUME NEW word \in Words, Dispatch(word)
  PROVE  /\ reads' \in Seq(ReadKinds) /\ step' \in Nat
         /\ step' + Len(reads') <= 7 + 2 * MaxMovies /\ step' <= 6 + 2 * MaxMovies
         /\ pc' \in {"scan", "read", "exited"} /\ (pc' = "read" <=> reads' # <<>>)
         /\ Fits(reads', TRUE)
<1>1. MaxMovies \in Nat
  BY BoundsAssumption
<1>2. CASE word \in AllCommands
  <2>1. PICK input \in InputOf(word) :
            /\ reads' = input
            /\ IF input = <<>> THEN pc' = "scan" /\ step' = 0 ELSE pc' = "read" /\ step' = 1
    BY <1>2 DEF Dispatch
  <2>2. input \in Seq(ReadKinds) /\ Len(input) <= 6 + 2 * MaxMovies /\ Fits(input, TRUE)
    BY <1>2, InputsFit
  <2>3. step' \in Nat /\ step' + Len(reads') <= 7 + 2 * MaxMovies /\ step' <= 6 + 2 * MaxMovies
    BY <1>1, <2>1, <2>2
  <2>4. Fits(reads', TRUE)
    BY <2>1, <2>2 DEF Fits
  <2>5. /\ reads' \in Seq(ReadKinds)
        /\ pc' \in {"scan", "read", "exited"} /\ (pc' = "read" <=> reads' # <<>>)
    BY <2>1, <2>2
  <2>6. QED
    BY <2>3, <2>4, <2>5
<1>3. CASE word \notin AllCommands
  <2>1. reads' = <<>> /\ step' = 0 /\ pc' \in {"scan", "exited"}
    BY <1>3 DEF Dispatch
  <2>2. Fits(reads', TRUE)
    BY <2>1 DEF Fits
  <2>3. /\ reads' \in Seq(ReadKinds) /\ step' \in Nat /\ Len(reads') = 0
        /\ step' + Len(reads') <= 7 + 2 * MaxMovies /\ step' <= 6 + 2 * MaxMovies
    BY <1>1, <2>1
  <2>4. pc' \in {"scan", "read", "exited"} /\ (pc' = "read" <=> reads' # <<>>)
    BY <2>1
  <2>5. QED
    BY <2>2, <2>3, <2>4
<1>4. QED
  BY <1>2, <1>3

\* A step that leaves no more in stdin than there was keeps the types.
LEMMA TypesKept ==
  ASSUME TypeOK,
         command' \in Words, {careful', eof', fresh', split'} \subseteq BOOLEAN,
         stdin' \in Seq(Entry), Len(stdin') <= Len(stdin),
         reads' \in Seq(ReadKinds), step' \in Nat,
         step' + Len(reads') <= 7 + 2 * MaxMovies, step' <= 6 + 2 * MaxMovies,
         pc' \in {"scan", "read", "exited"}, pc' = "read" <=> reads' # <<>>
  PROVE  TypeOK' /\ StepsLeft'
<1>1. MaxMovies \in Nat /\ MaxTyped \in Nat /\ Len(stdin) <= MaxTyped /\ Len(stdin) \in Nat
      /\ Len(stdin') \in Nat
  BY BoundsAssumption, Stdin DEF TypeOK
<1>2. Len(stdin') <= MaxTyped
  BY <1>1
<1>3. step' \in 0 .. 6 + 2 * MaxMovies
  BY <1>1
<1>4. QED
  BY <1>2, <1>3 DEF TypeOK, StepsLeft, Entry, Kinds, ReadKinds

\* What scanf() takes in ReadInt and ReadFloat is in stdin.
LEMMA NumberTaken ==
  ASSUME TypeOK
  PROVE  LET whole == Leading + Run(Leading, {"7"})
         IN  /\ Leading \in 0 .. Len(stdin) /\ whole \in Leading .. Len(stdin)
             /\ whole < Len(stdin) => Run(whole + 1, {"7"}) \in 0 .. Len(stdin) - whole - 1
<1>1. stdin \in Seq(Entry) /\ Leading \in 0 .. Len(stdin) /\ Len(stdin) \in Nat
  BY Stdin, LeadingBlanks
<1>2. Run(Leading, {"7"}) \in 0 .. Len(stdin) - Leading
  BY <1>1, RunValue
<1> DEFINE whole == Leading + Run(Leading, {"7"})
<1>3. whole \in Leading .. Len(stdin)
  BY <1>1, <1>2
<1> HIDE DEF whole
<1>4. whole < Len(stdin) => Run(whole + 1, {"7"}) \in 0 .. Len(stdin) - (whole + 1)
  <2>1. SUFFICES ASSUME whole < Len(stdin)
                 PROVE  Run(whole + 1, {"7"}) \in 0 .. Len(stdin) - (whole + 1)
    OBVIOUS
  <2>2. whole + 1 \in 0 .. Len(stdin)
    BY <1>1, <1>3, <2>1
  <2>3. QED
    BY <1>1, <2>2, RunValue
<1>5. whole < Len(stdin) => Run(whole + 1, {"7"}) \in 0 .. Len(stdin) - whole - 1
  BY <1>1, <1>3, <1>4
<1>6. QED
  BY <1>1, <1>3, <1>5 DEF whole

\* What a line typed at the prompt is.
LEMMA TypedLine ==
  ASSUME TypeOK, NEW line, line \in Answer \/ line \in Lines
  PROVE  /\ line \in Seq(Symbols \ {"nl"}) /\ Len(line) \in Nat
         /\ \A i \in 1 .. Len(line) : line[i] \in Symbols /\ line[i] # "nl"
         /\ [i \in 1 .. Len(line) + 1 |-> Typed(line, i)] \in Seq(Entry)
         /\ Len([i \in 1 .. Len(line) + 1 |-> Typed(line, i)]) = Len(line) + 1
<1>1. line \in Seq(Symbols \ {"nl"})
  <2>1. Symbols \ Blanks \subseteq Symbols \ {"nl"}
    BY DEF Blanks
  <2>2. \A s \in Seq(Symbols \ Blanks) : s \in Seq(Symbols \ {"nl"})
    BY <2>1
  <2>3. QED
    BY <2>2, Answers, LinesAssumption
<1>2. Len(line) \in Nat /\ \A i \in 1 .. Len(line) : line[i] \in Symbols /\ line[i] # "nl"
  BY <1>1
<1>3. \A i \in 1 .. Len(line) + 1 : Typed(line, i) \in Entry
  <2>1. Prompt \in [step : Nat, kind : Kinds] /\ "nl" \in Symbols
    BY Stdin, SymbolFacts DEF Blanks
  <2>2. QED
    BY <1>2, <2>1 DEF Typed, Entry
<1>4. QED
  BY <1>1, <1>2, <1>3

\* The user's typing.
LEMMA TypeTypes ==
  ASSUME TypeOK, StepsLeft, Type
  PROVE  TypeOK' /\ StepsLeft'
<1>1. PICK line \in Answer \cup Lines :
         /\ Len(stdin) + Len(line) < MaxTyped
         /\ stdin' = stdin \o [i \in 1 .. Len(line) + 1 |-> Typed(line, i)]
  BY DEF Type, Typed
<1> DEFINE typed == [i \in 1 .. Len(line) + 1 |-> Typed(line, i)]
<1>2. typed \in Seq(Entry) /\ Len(typed) = Len(line) + 1 /\ Len(line) \in Nat
  BY TypedLine
<1> HIDE DEF typed
<1>3. stdin \in Seq(Entry) /\ Len(stdin) \in Nat /\ MaxTyped \in Nat
  BY Stdin, BoundsAssumption
<1>4. stdin' \in Seq(Entry) /\ Len(stdin') = Len(stdin) + (Len(line) + 1)
  <2>1. stdin \o typed \in Seq(Entry) /\ Len(stdin \o typed) = Len(stdin) + Len(typed)
    BY <1>2, <1>3, ConcatProperties
  <2>2. stdin' = stdin \o typed
    BY <1>1 DEF typed
  <2>3. QED
    BY <1>2, <2>1, <2>2
<1>5. Len(stdin') <= MaxTyped
  BY <1>1, <1>2, <1>3, <1>4
<1>6. UNCHANGED <<careful, pc, command, reads, step, eof, origin, fresh, split, got>>
  BY DEF Type
<1>7. QED
  BY <1>4, <1>5, <1>6 DEF TypeOK, StepsLeft, Entry, Kinds

\* The end of the input, and main()'s reads.
LEMMA MainTypes ==
  ASSUME TypeOK, StepsLeft, CloseInput \/ ScanCommand \/ ScanEof
  PROVE  TypeOK' /\ StepsLeft'
<1>1. CASE CloseInput
  BY <1>1 DEF CloseInput, TypeOK, StepsLeft
<1>2. CASE ScanCommand
  <2> DEFINE n == Run(Leading, Symbols \ Blanks)
             word == IF n = 1 /\ stdin[Leading + 1].sym \in Words
                     THEN stdin[Leading + 1].sym ELSE "text"
  <2>1. /\ stdin \in Seq(Entry) /\ Leading \in 0 .. Len(stdin) /\ Len(stdin) \in Nat
    BY Stdin, LeadingBlanks
  <2>2. n \in 0 .. Len(stdin) - Leading
    BY <2>1, RunValue
  <2>3. word \in Words
    BY SymbolFacts
  <2>4. /\ command' = word /\ stdin' = Drop(Leading + n) /\ fresh' = TRUE /\ Dispatch(word)
        /\ UNCHANGED <<careful, eof, split>>
    BY <1>2 DEF ScanCommand
  <2> HIDE DEF n, word
  <2>5. Leading + n \in Nat /\ Leading + n <= Len(stdin)
    BY <2>1, <2>2
  <2>6. stdin' \in Seq(Entry) /\ Len(stdin') <= Len(stdin)
    <3>1. Drop(Leading + n) \in Seq(Entry)
          /\ Len(Drop(Leading + n)) = Len(stdin) - (Leading + n)
      BY <2>5, Dropped
    <3>2. QED
      BY <2>1, <2>4, <2>5, <3>1
  <2>7. command' \in Words /\ {careful', eof', fresh', split'} \subseteq BOOLEAN
    BY <2>3, <2>4 DEF TypeOK
  <2>8. QED
    BY <2>3, <2>4, <2>6, <2>7, Dispatched, TypesKept
<1>3. CASE ScanEof
  <2>1. /\ stdin' = <<>> /\ Dispatch(command) /\ command' = command /\ command \in Words
        /\ {careful', eof', fresh', split'} \subseteq BOOLEAN
    BY <1>3 DEF ScanEof, TypeOK
  <2>2. stdin' \in Seq(Entry) /\ Len(stdin') <= Len(stdin)
    BY <2>1, Stdin
  <2>3. QED
    BY <2>1, <2>2, Dispatched, TypesKept
<1>4. QED
  BY <1>1, <1>2, <1>3

\* A read of a handler leaves what it does not take.
LEMMA ReadTypes ==
  ASSUME TypeOK, StepsLeft, pc = "read", GoOn \/ Over,
         stdin' \in Seq(Entry), Len(stdin') <= Len(stdin), split' \in BOOLEAN,
         UNCHANGED <<careful, command, eof, fresh>>
  PROVE  TypeOK' /\ StepsLeft'
<1>1. command' \in Words /\ {careful', eof', fresh', split'} \subseteq BOOLEAN
  BY DEF TypeOK
<1>2. QED
  BY <1>1, Advance, TypesKept

\* How much a read takes: it drops the first symbols.
LEMMA ReadDrops ==
  ASSUME TypeOK, Skip \/ ReadLine \/ ReadInt \/ ReadFloat
  PROVE  /\ pc = "read" /\ (GoOn \/ Over) /\ UNCHANGED <<careful, command, eof, origin, fresh>>
         /\ split' \in BOOLEAN /\ (~ReadLine => split' = split)
         /\ \E n \in Nat : stdin' = Drop(n)
<1>1. stdin \in Seq(Entry) /\ Len(stdin) \in Nat /\ split \in BOOLEAN
  BY Stdin DEF TypeOK
<1>2. CASE Skip
  <2>1. stdin' = Drop(0) \/ stdin' = Drop(1)
    <3>1. CASE stdin = <<>>
      BY <1>1, <1>2, <3>1, SubSeqFull DEF Skip, Drop
    <3>2. CASE stdin # <<>>
      BY <1>1, <1>2, <3>2, TailIsSubSeq DEF Skip, Drop
    <3>3. QED
      BY <3>1, <3>2
  <2>2. QED
    BY <1>1, <1>2, <2>1 DEF Skip
<1>3. CASE ReadLine
  <2> DEFINE line == Run(0, Symbols \ {"nl"})
             whole == IF line < Len(stdin) THEN line + 1 ELSE line
             n == IF whole < LINELEN THEN whole ELSE LINELEN - 1
  <2>1. line \in 0 .. Len(stdin) - 0 /\ LINELEN \in Nat /\ LINELEN >= 3
    BY <1>1, RunValue, LinelenAssumption
  <2>2. stdin' = Drop(n) /\ split' = (split \/ n < whole)
    BY <1>3 DEF ReadLine
  <2> HIDE DEF line
  <2>3. n \in Nat
    BY <1>1, <2>1
  <2> HIDE DEF n, whole
  <2>4. QED
    BY <1>1, <1>3, <2>2, <2>3 DEF ReadLine
<1>4. CASE ReadInt
  <2>1. Leading \in Nat
    BY <1>1, LeadingBlanks
  <2>2. Leading + Run(Leading, {"7"}) \in Nat
    BY <1>1, <2>1, NumberTaken
  <2>3. \/ NumberNext /\ stdin' = Drop(Leading + Run(Leading, {"7"}) + 1)
        \/ stdin' = Drop(Leading)
    BY <1>4 DEF ReadInt
  <2>4. \E n \in Nat : stdin' = Drop(n)
    BY <2>1, <2>2, <2>3
  <2>5. pc = "read" /\ (GoOn \/ Over) /\ UNCHANGED <<careful, command, eof, origin, fresh, split>>
    BY <1>4 DEF ReadInt
  <2>6. QED
    BY <1>1, <2>4, <2>5
<1>5. CASE ReadFloat
  <2> DEFINE whole == Leading + Run(Leading, {"7"})
  <2>1. Leading \in Nat
    BY <1>1, LeadingBlanks
  <2>2. whole \in Nat /\ (whole < Len(stdin) => whole + 1 + Run(whole + 1, {"7"}) \in Nat)
    BY <1>1, <2>1, NumberTaken
  <2>3. \/ stdin' = Drop(whole)
        \/ whole < Len(stdin) /\ stdin' = Drop(whole + 1 + Run(whole + 1, {"7"}))
    BY <1>5 DEF ReadFloat
  <2> HIDE DEF whole
  <2>4. \E n \in Nat : stdin' = Drop(n)
    BY <2>1, <2>2, <2>3
  <2>5. pc = "read" /\ (GoOn \/ Over) /\ UNCHANGED <<careful, command, eof, origin, fresh, split>>
    BY <1>5 DEF ReadFloat
  <2>6. QED
    BY <1>1, <2>4, <2>5
<1>6. QED
  BY <1>2, <1>3, <1>4, <1>5

\* The handlers' reads keep the types.
LEMMA HandlerTypes ==
  ASSUME TypeOK, StepsLeft, Skip \/ ReadLine \/ ReadInt \/ ReadFloat
  PROVE  TypeOK' /\ StepsLeft'
<1>1. PICK n \in Nat : stdin' = Drop(n)
  BY ReadDrops
<1>2. stdin' \in Seq(Entry) /\ Len(stdin') <= Len(stdin)
  <2>1. /\ Drop(n) \in Seq(Entry)
        /\ Len(Drop(n)) = IF n <= Len(stdin) THEN Len(stdin) - n ELSE 0
    BY Dropped
  <2>2. Len(stdin) \in Nat
    BY Stdin
  <2>3. Len(Drop(n)) <= Len(stdin)
    BY <2>1, <2>2
  <2>4. QED
    BY <1>1, <2>1, <2>3
<1>3. QED
  BY <1>2, ReadDrops, ReadTypes

-----------------------------------------------------------------------------
\* Text is no command

NoText(s) == \A i \in 1 .. Len(s) : s[i].at.kind # "line"

\* Where the next read is no fgets(), no text waits in stdin.
LEMMA TextElsewhere ==
  ASSUME TextIsNext, ~(pc = "read" /\ Head(reads) = "line")
  PROVE  NoText(stdin)
  BY DEF TextIsNext, NoText

\* No text, nothing to keep.
LEMMA NoTextIsNext ==
  ASSUME NoText(stdin')
  PROVE  TextIsNext'
  BY DEF TextIsNext, NoText

\* What is left of a stdin without text has none.
LEMMA DropNoText ==
  ASSUME TypeOK, NEW n \in Nat, NoText(stdin)
  PROVE  NoText(Drop(n))
  BY Dropped DEF NoText

\* A line of text is typed into an empty stdin.
LEMMA TypeText ==
  ASSUME TypeOK, TextIsNext, Type
  PROVE  TextIsNext'
<1>1. PICK line \in Answer \cup Lines :
         stdin' = stdin \o [i \in 1 .. Len(line) + 1 |-> Typed(line, i)]
  BY DEF Type, Typed
<1> DEFINE typed == [i \in 1 .. Len(line) + 1 |-> Typed(line, i)]
<1>2. /\ typed \in Seq(Entry) /\ Len(typed) = Len(line) + 1 /\ Len(line) \in Nat
      /\ \A i \in 1 .. Len(line) : line[i] # "nl"
  BY TypedLine
<1>3. \A i \in 1 .. Len(line) + 1 : typed[i] = Typed(line, i)
  OBVIOUS
<1>4. stdin \in Seq(Entry) /\ Len(stdin) \in Nat
  BY Stdin
<1>5. Waiting /\ pc' = pc /\ reads' = reads
  BY DEF Type
<1>6. stdin' = stdin \o typed
  BY <1>1
<1> HIDE DEF typed
<1>7. CASE pc = "read" /\ Head(reads) = "line"
  <2>1. stdin = <<>>
    BY <1>5, <1>7 DEF Waiting
  <2>2. stdin' = typed
    BY <1>2, <1>6, <2>1, ConcatEmptySeq
  <2>3. \A i \in 1 .. Len(typed) : typed[i].sym = "nl" <=> i = Len(typed)
    BY <1>2, <1>3 DEF Typed
  <2>4. QED
    BY <1>5, <1>7, <2>2, <2>3 DEF TextIsNext
<1>8. CASE ~(pc = "read" /\ Head(reads) = "line")
  <2>1. NoText(stdin)
    BY <1>8, TextElsewhere
  <2>2. Prompt.kind # "line"
    BY <1>8 DEF Prompt
  <2>3. \A i \in 1 .. Len(typed) : typed[i].at.kind # "line"
    BY <1>2, <1>3, <2>2 DEF Typed
  <2>4. /\ Len(stdin \o typed) = Len(stdin) + Len(typed)
        /\ \A i \in 1 .. Len(stdin) + Len(typed) :
              (stdin \o typed)[i] = IF i <= Len(stdin) THEN stdin[i] ELSE typed[i - Len(stdin)]
    BY <1>2, <1>4, ConcatProperties
  <2>5. NoText(stdin \o typed)
    <3>1. SUFFICES ASSUME NEW i \in 1 .. Len(stdin) + Len(typed)
                   PROVE  (stdin \o typed)[i].at.kind # "line"
      BY <2>4 DEF NoText
    <3>2. CASE i <= Len(stdin)
      BY <1>4, <2>1, <2>4, <3>2 DEF NoText
    <3>3. CASE ~(i <= Len(stdin))
      <4>1. i - Len(stdin) \in 1 .. Len(typed)
        BY <1>2, <1>4, <3>3
      <4>2. QED
        BY <2>3, <2>4, <3>3, <4>1
    <3>4. QED
      BY <3>2, <3>3
  <2>6. QED
    BY <1>6, <2>5, NoTextIsNext
<1>9. QED
  BY <1>7, <1>8

\* fgets() takes the line of text whole, if the array is large enough.
LEMMA ReadLineText ==
  ASSUME TypeOK, TextIsNext, ReadLine, ~split'
  PROVE  TextIsNext'
<1> DEFINE line == Run(0, Symbols \ {"nl"})
           whole == IF line < Len(stdin) THEN line + 1 ELSE line
           n == IF whole < LINELEN THEN whole ELSE LINELEN - 1
<1>1. stdin \in Seq(Entry) /\ Len(stdin) \in Nat /\ 0 \in 0 .. Len(stdin)
      /\ \A i \in 1 .. Len(stdin) : stdin[i] \in Entry
  BY Stdin
<1>2. stdin' = Drop(n) /\ split' = (split \/ n < whole)
  BY DEF ReadLine
<1>3. LINELEN \in Nat /\ LINELEN >= 3
  BY LinelenAssumption
<1>4. line \in 0 .. Len(stdin) - 0
  BY <1>1, RunValue
<1>5. CASE NoText(stdin)
  <2> HIDE DEF line
  <2>1. n \in Nat
    BY <1>1, <1>3, <1>4
  <2> HIDE DEF n, whole
  <2>2. NoText(Drop(n))
    BY <1>5, <2>1, DropNoText
  <2>3. QED
    BY <1>2, <2>2, NoTextIsNext
<1>6. CASE ~NoText(stdin)
  <2>1. /\ \A i \in 1 .. Len(stdin) : stdin[i].sym = "nl" <=> i = Len(stdin)
        /\ Len(stdin) >= 1
    BY <1>1, <1>6 DEF NoText, TextIsNext
  <2>2. line = Len(stdin) - 1
    <3>1. Len(stdin) - 1 \in 0 .. Len(stdin) - 0
      BY <1>1, <2>1
    <3>2. \A i \in 0 + 1 .. 0 + (Len(stdin) - 1) : stdin[i].sym \in Symbols \ {"nl"}
      BY <1>1, <2>1 DEF Entry
    <3>3. stdin[0 + (Len(stdin) - 1) + 1].sym \notin Symbols \ {"nl"}
      BY <1>1, <2>1
    <3>4. QED
      BY <1>1, <3>1, <3>2, <3>3, RunIs
  <2> HIDE DEF line
  <2>3. whole = Len(stdin)
    BY <1>1, <2>1, <2>2
  <2>4. ~(n < whole)
    BY <1>2
  <2>5. n = Len(stdin)
    BY <1>1, <1>3, <2>3, <2>4
  <2> HIDE DEF n, whole
  <2>6. Len(Drop(n)) = 0
    BY <1>1, <2>5, Dropped
  <2>7. NoText(Drop(n))
    BY <2>6 DEF NoText
  <2>8. QED
    BY <1>2, <2>7, NoTextIsNext
<1>7. QED
  BY <1>5, <1>6

\* Every step keeps a line of text together, and none takes a command from it.
LEMMA TextStep ==
  ASSUME TypeOK, ~split => TextIsNext, TextIsNoCommand, Next
  PROVE  (~split => TextIsNext)' /\ TextIsNoCommand'
<1>1. CASE Type
  <2>1. split' = split /\ origin' = origin
    BY <1>1 DEF Type
  <2>2. QED
    BY <1>1, <2>1, TypeText DEF TextIsNoCommand
<1>2. CASE CloseInput
  BY <1>2 DEF CloseInput, TextIsNext, TextIsNoCommand
<1>3. CASE ScanCommand
  <2> DEFINE n == Run(Leading, Symbols \ Blanks)
  <2>1. split' = split /\ pc = "scan" /\ stdin' = Drop(Leading + n)
        /\ origin' = Prompts(Leading + 1, Leading + n)
    BY <1>3 DEF ScanCommand
  <2>2. stdin \in Seq(Entry) /\ Len(stdin) \in Nat /\ Leading \in 0 .. Len(stdin)
    BY Stdin, LeadingBlanks
  <2>3. n \in 0 .. Len(stdin) - Leading
    BY <2>2, RunValue
  <2> HIDE DEF n
  <2>4. SUFFICES ASSUME ~split PROVE TextIsNext' /\ TextIsNoCommand'
    BY <2>1 DEF TextIsNoCommand
  <2>5. NoText(stdin)
    BY <2>1, <2>4, TextElsewhere
  <2>6. NoText(Drop(Leading + n))
    BY <2>2, <2>3, <2>5, DropNoText
  <2>7. \A p \in Prompts(Leading + 1, Leading + n) : p.kind # "line"
    BY <2>2, <2>3, <2>5 DEF Prompts, NoText
  <2>8. QED
    BY <2>1, <2>6, <2>7, NoTextIsNext DEF TextIsNoCommand
<1>4. CASE ScanEof
  <2>1. NoText(<<>>)
    BY DEF NoText
  <2>2. stdin' = <<>> /\ origin' = origin /\ split' = split
    BY <1>4 DEF ScanEof
  <2>3. TextIsNext'
    BY <2>1, <2>2, NoTextIsNext
  <2>4. QED
    BY <2>2, <2>3 DEF TextIsNoCommand
<1>5. CASE ReadLine
  <2>1. origin' = origin /\ (~split' => ~split)
    BY <1>5 DEF ReadLine
  <2>2. QED
    BY <1>5, <2>1, ReadLineText DEF TextIsNoCommand
<1>6. CASE Skip \/ ReadInt \/ ReadFloat
  <2>1. PICK n \in Nat : stdin' = Drop(n)
    BY <1>6, ReadDrops
  <2>2. /\ origin' = origin /\ split' = split
        /\ Head(reads) # "line"
    BY <1>6 DEF Skip, ReadInt, ReadFloat
  <2>3. ~split => NoText(stdin)
    BY <2>2, TextElsewhere
  <2>4. ~split => NoText(Drop(n))
    BY <2>3, DropNoText
  <2>5. ~split => TextIsNext'
    BY <2>1, <2>4, NoTextIsNext
  <2>6. QED
    BY <2>2, <2>5 DEF TextIsNoCommand
<1>7. CASE Exited
  BY <1>7 DEF Exited, vars, TextIsNext, TextIsNoCommand
<1>8. QED
  BY <1>1, <1>2, <1>3, <1>4, <1>5, <1>6, <1>7 DEF Next

-----------------------------------------------------------------------------
\* A careful user's answers

\* Before the answer there is nothing to read.
LEMMA Unanswered ==
  ASSUME TypeOK, NEW k \in {0, 1}, Holds(k), Len(stdin) = k
  PROVE  ~Something
<1>1. \A i \in 1 .. Len(stdin) : stdin[i].sym = "nl"
  BY DEF Holds
<1>2. "nl" \in Blanks
  BY DEF Blanks
<1>3. QED
  BY <1>1, <1>2, LeadingBlanks

\* The answer is all there is behind the newline left over.
LEMMA Answered ==
  ASSUME TypeOK, NEW k \in {0, 1}, Holds(k), Len(stdin) # k
  PROVE  /\ Something /\ Leading = k /\ (pc = "read" => Head(reads) # "skip")
         /\ \A i \in k + 1 .. Len(stdin) : stdin[i].at = Prompt
         /\ stdin[Len(stdin)].sym = "nl"
         /\ \E line \in Answer : /\ Len(stdin) = k + Len(line) + 1
                                 /\ \A i \in 1 .. Len(line) : stdin[k + i].sym = line[i]
<1>1. PICK line \in Answer :
         /\ Len(stdin) = k + Len(line) + 1
         /\ \A i \in 1 .. Len(line) + 1 : stdin[k + i] = Typed(line, i)
  BY DEF Holds
<1>2. Len(line) \in 1 .. 3 /\ \A i \in 1 .. Len(line) : line[i] \in Symbols \ Blanks
  BY Answers
<1>3. k \in Nat /\ stdin \in Seq(Entry) /\ Len(stdin) \in Nat
  BY Stdin
<1>4. ASSUME NEW i \in 1 .. Len(line) PROVE stdin[k + i].sym = line[i]
  <2>1. i \in 1 .. Len(line) + 1 /\ ~(i > Len(line))
    BY <1>2
  <2>2. stdin[k + i] = Typed(line, i)
    BY <1>1, <2>1
  <2>3. QED
    BY <2>1, <2>2 DEF Typed
<1>5. stdin[k + 1].sym \notin Blanks /\ k + 1 \in 1 .. Len(stdin)
  <2>1. 1 \in 1 .. Len(line) /\ line[1] \notin Blanks
    BY <1>2
  <2>2. stdin[k + 1].sym = line[1]
    BY <1>4, <2>1
  <2>3. k + 1 \in 1 .. Len(stdin)
    BY <1>1, <1>2, <1>3
  <2>4. QED
    BY <2>1, <2>2, <2>3
<1>6. Something
  BY <1>5, LeadingBlanks
<1>7. Leading = k
  <2>1. 0 \in 0 .. Len(stdin) /\ k \in 0 .. Len(stdin) - 0
    BY <1>1, <1>2, <1>3
  <2>2. \A i \in 0 + 1 .. 0 + k : stdin[i].sym \in Blanks
    <3>1. k = 1 => stdin[1].sym = "nl"
      BY DEF Holds
    <3>2. \A i \in 0 + 1 .. 0 + k : k = 1 /\ i = 1
      OBVIOUS
    <3>3. QED
      BY <3>1, <3>2 DEF Blanks
  <2>3. stdin[0 + k + 1].sym \notin Blanks
    BY <1>5
  <2>4. QED
    BY <1>3, <2>1, <2>2, <2>3, RunIs DEF Leading
<1>8. ASSUME NEW i \in k + 1 .. Len(stdin) PROVE stdin[i].at = Prompt
  <2>1. i - k \in 1 .. Len(line) + 1 /\ k + (i - k) = i
    BY <1>1, <1>2, <1>3
  <2>2. stdin[i] = Typed(line, i - k)
    BY <1>1, <2>1
  <2>3. QED
    BY <2>2 DEF Typed
<1>9. stdin[Len(stdin)].sym = "nl"
  <2>1. Len(line) + 1 \in 1 .. Len(line) + 1 /\ k + (Len(line) + 1) = Len(stdin)
        /\ Len(line) + 1 > Len(line)
    BY <1>1, <1>2, <1>3
  <2>2. stdin[Len(stdin)] = Typed(line, Len(line) + 1)
    BY <1>1, <2>1
  <2>3. QED
    BY <2>1, <2>2 DEF Typed
<1>10. pc = "read" => Head(reads) # "skip"
  BY DEF Holds
<1>11. QED
  BY <1>1, <1>4, <1>6, <1>7, <1>8, <1>9, <1>10

\* A read that leaves at most the newline of a "%f" fits the reads to come.
LEMMA HoldsNext ==
  ASSUME TypeOK, StepsLeft, pc = "read", GoOn \/ Over, NEW k \in {0, 1}, Holds(k),
         NEW j \in {0, 1}, Len(stdin') = j, j = 1 => stdin'[1].sym = "nl",
         j = 1 <=> Head(reads) = "float"
  PROVE  Holds(j)'
<1>1. reads \in Seq(ReadKinds) /\ reads # <<>>
  BY Stdin
<1>2. Fits(reads, k = 1) /\ (k = 1) \in BOOLEAN /\ TRUE \in BOOLEAN
  BY DEF Holds
<1>3. Fits(Tail(reads), Head(reads) = "float")
  BY <1>1, <1>2, FitsOn
<1>4. reads' = <<>> \/ reads' = Tail(reads)
  BY Advance
<1>5. Fits(reads', j = 1)
  <2>1. CASE reads' = <<>>
    BY <2>1 DEF Fits
  <2>2. CASE reads' = Tail(reads)
    <3>1. Fits(Tail(reads), j = 1)
      BY <1>3 DEF Fits
    <3>2. QED
      BY <2>2, <3>1
  <2>3. QED
    BY <1>4, <2>1, <2>2
<1>6. j <= Len(stdin')
  OBVIOUS
<1>7. QED
  BY <1>5, <1>6 DEF Holds

\* The answer is typed behind what the last read left.
LEMMA TypeInStep ==
  ASSUME TypeOK, careful, NEW k \in {0, 1}, Holds(k), Type
  PROVE  Holds(k)'
<1>1. PICK line \in Answer : stdin' = stdin \o [i \in 1 .. Len(line) + 1 |-> Typed(line, i)]
  BY DEF Type, Typed
<1> DEFINE typed == [i \in 1 .. Len(line) + 1 |-> Typed(line, i)]
<1>2. /\ typed \in Seq(Entry) /\ Len(typed) = Len(line) + 1 /\ Len(line) \in Nat
  BY TypedLine
<1>3. \A i \in 1 .. Len(line) + 1 : typed[i] = Typed(line, i)
  OBVIOUS
<1>4. stdin \in Seq(Entry) /\ Len(stdin) \in Nat /\ k \in Nat
  BY Stdin
<1>5. stdin' = stdin \o typed
  BY <1>1
<1> HIDE DEF typed
<1>6. Waiting /\ pc' = pc /\ reads' = reads /\ step' = step
  BY DEF Type
<1>7. Len(stdin) = k
  <2>1. SUFFICES ASSUME Len(stdin) # k PROVE FALSE
    OBVIOUS
  <2>2. Something /\ \E l \in Answer : Len(stdin) = k + Len(l) + 1
    BY <2>1, Answered
  <2>3. stdin # <<>>
    <3>1. Len(stdin) >= 1
      BY <1>4, <2>2, Answers
    <3>2. QED
      BY <3>1
  <2>4. QED
    BY <1>6, <2>2, <2>3 DEF Waiting
<1>8. pc = "read" => Head(reads) # "skip"
  <2>1. SUFFICES ASSUME pc = "read", Head(reads) = "skip" PROVE FALSE
    OBVIOUS
  <2>2. stdin = <<>> /\ reads # <<>>
    BY <1>6, <2>1, Stdin DEF Waiting
  <2>3. k = 1
    BY <2>1, <2>2 DEF Holds, Fits
  <2>4. QED
    BY <1>7, <2>2, <2>3
<1>9. /\ Len(stdin') = k + Len(line) + 1
      /\ \A i \in 1 .. k : stdin'[i] = stdin[i]
      /\ \A i \in 1 .. Len(line) + 1 : stdin'[k + i] = typed[i]
  <2>1. /\ Len(stdin \o typed) = Len(stdin) + Len(typed)
        /\ \A i \in 1 .. Len(stdin) + Len(typed) :
              (stdin \o typed)[i] = IF i <= Len(stdin) THEN stdin[i] ELSE typed[i - Len(stdin)]
    BY <1>2, <1>4, ConcatProperties
  <2>2. Len(stdin \o typed) = k + Len(line) + 1
    BY <1>2, <1>4, <1>7, <2>1
  <2>3. \A i \in 1 .. k : (stdin \o typed)[i] = stdin[i]
    BY <1>2, <1>4, <1>7, <2>1
  <2>4. ASSUME NEW i \in 1 .. Len(line) + 1 PROVE (stdin \o typed)[k + i] = typed[i]
    <3>1. k + i \in 1 .. Len(stdin) + Len(typed) /\ ~(k + i <= Len(stdin))
          /\ k + i - Len(stdin) = i
      BY <1>2, <1>4, <1>7
    <3>2. QED
      BY <2>1, <3>1
  <2>5. QED
    BY <1>5, <2>2, <2>3, <2>4
<1>10. Answer' = Answer /\ Prompt' = Prompt
  BY <1>6 DEF Answer, Prompt
<1>11. \A i \in 1 .. Len(line) + 1 : stdin'[k + i] = Typed(line, i)'
  BY <1>3, <1>9, <1>10 DEF Typed
<1>12. k <= Len(stdin') /\ (k = 1 => stdin'[1].sym = "nl")
  <2>1. k = 1 => stdin[1].sym = "nl"
    BY DEF Holds
  <2>2. k = 1 => 1 \in 1 .. k
    OBVIOUS
  <2>3. QED
    BY <1>2, <1>4, <1>9, <2>1, <2>2
<1>13. Fits(reads', k = 1)
  <2>1. Fits(reads, k = 1)
    BY DEF Holds
  <2>2. QED
    BY <1>6, <2>1
<1>14. QED
  BY <1>6, <1>8, <1>9, <1>10, <1>11, <1>12, <1>13 DEF Holds

\* The command is read, and its newline is left.
LEMMA ScanInStep ==
  ASSUME TypeOK, NEW k \in {0, 1}, Holds(k), ScanCommand
  PROVE  Holds(1)' /\ got'.at \subseteq {got'.prompt}
<1> DEFINE n == Run(Leading, Symbols \ Blanks)
           word == IF n = 1 /\ stdin[Leading + 1].sym \in Words
                   THEN stdin[Leading + 1].sym ELSE "text"
<1>1. /\ pc = "scan" /\ Something /\ stdin' = Drop(Leading + n)
      /\ got' = [prompt |-> Prompt, at |-> Prompts(Leading + 1, Leading + n)]
      /\ Dispatch(word)
  BY DEF ScanCommand
<1>2. word \in Words
  BY SymbolFacts
<1>3. stdin \in Seq(Entry) /\ Len(stdin) \in Nat /\ k \in Nat
      /\ \A i \in 1 .. Len(stdin) : stdin[i] \in Entry
  BY Stdin
<1>4. Len(stdin) # k
  BY <1>1, Unanswered
<1>5. /\ Leading = k
      /\ \A i \in k + 1 .. Len(stdin) : stdin[i].at = Prompt
      /\ stdin[Len(stdin)].sym = "nl"
  BY <1>4, Answered
<1>6. PICK line \in Answer : /\ Len(stdin) = k + Len(line) + 1
                             /\ \A i \in 1 .. Len(line) : stdin[k + i].sym = line[i]
  BY <1>4, Answered
<1>7. Len(line) = 1 /\ line[1] \in Symbols \ Blanks
  <2>1. Len(line) = 1
    BY <1>1 DEF Answer
  <2>2. QED
    BY <2>1, Answers
<1>8. Len(stdin) = k + 2 /\ stdin[k + 1].sym \in Symbols \ Blanks /\ stdin[k + 2].sym = "nl"
  <2>1. Len(stdin) = k + 2
    BY <1>3, <1>6, <1>7
  <2>2. QED
    BY <1>5, <1>6, <1>7, <2>1
<1>9. n = 1
  <2>1. k \in 0 .. Len(stdin) /\ 1 \in 0 .. Len(stdin) - k
    BY <1>3, <1>8
  <2>2. \A i \in k + 1 .. k + 1 : stdin[i].sym \in Symbols \ Blanks
    BY <1>3, <1>8
  <2>3. stdin[k + 1 + 1].sym \notin Symbols \ Blanks
    BY <1>3, <1>8 DEF Blanks
  <2>4. Run(k, Symbols \ Blanks) = 1
    BY <1>3, <2>1, <2>2, <2>3, RunIs
  <2>5. QED
    BY <1>5, <2>4
<1> HIDE DEF n, word
<1>10. Len(stdin') = 1 /\ stdin'[1].sym = "nl"
  <2> DEFINE m == k + 1
  <2>1. stdin' = Drop(m) /\ m \in Nat /\ m + 1 = k + 2 /\ Len(stdin) = m + 1
    BY <1>1, <1>3, <1>5, <1>8, <1>9
  <2> HIDE DEF m
  <2>2. /\ Len(Drop(m)) = IF m <= Len(stdin) THEN Len(stdin) - m ELSE 0
        /\ \A i \in 1 .. Len(Drop(m)) : Drop(m)[i] = stdin[m + i]
    BY <2>1, Dropped
  <2>3. Len(Drop(m)) = 1
    BY <1>3, <2>1, <2>2
  <2>4. QED
    BY <1>8, <2>1, <2>2, <2>3
<1>11. Fits(reads', TRUE)
  BY <1>1, <1>2, Dispatched
<1>12. Fits(reads', 1 = 1)
  BY <1>11 DEF Fits
<1>13. Holds(1)'
  BY <1>10, <1>12 DEF Holds
<1>14. got'.at \subseteq {got'.prompt}
  <2>1. \A i \in k + 1 .. k + 1 : stdin[i].at = Prompt
    BY <1>3, <1>5, <1>8
  <2>2. Prompts(k + 1, k + 1) \subseteq {Prompt}
    BY <2>1 DEF Prompts
  <2>3. got' = [prompt |-> Prompt, at |-> Prompts(k + 1, k + 1)]
    BY <1>1, <1>5, <1>9
  <2>4. QED
    BY <2>2, <2>3
<1>15. QED
  BY <1>13, <1>14

\* Symbols from a to b, all typed at the prompt.
LEMMA AllHere ==
  ASSUME NEW a \in Nat, NEW b \in Nat, \A i \in a .. b : stdin[i].at = Prompt,
         got' = [prompt |-> Prompt, at |-> Prompts(a, b)]
  PROVE  got'.at \subseteq {got'.prompt}
<1>1. Prompts(a, b) \subseteq {Prompt}
  BY DEF Prompts
<1>2. QED
  BY <1>1

\* getchar() takes the newline that was left.
LEMMA SkipInStep ==
  ASSUME TypeOK, StepsLeft, ~eof, NEW k \in {0, 1}, Holds(k), Skip
  PROVE  Holds(0)' /\ got' = got
<1>1. /\ pc = "read" /\ Head(reads) = "skip" /\ stdin # <<>> /\ stdin' = Tail(stdin)
      /\ GoOn /\ got' = got
  BY DEF Skip
<1>2. Len(stdin) = k
  BY <1>1, Answered
<1>3. k = 1 /\ reads # <<>>
  BY <1>1, Stdin DEF Holds, Fits
<1>4. stdin \in Seq(Entry)
  BY Stdin
<1>5. Len(Tail(stdin)) = 0
  BY <1>1, <1>2, <1>3, <1>4, HeadTailProperties
<1>6. Holds(0)'
  BY <1>1, <1>5, HoldsNext
<1>7. QED
  BY <1>1, <1>6

\* fgets() takes the answer and its newline.
LEMMA ReadLineInStep ==
  ASSUME TypeOK, StepsLeft, ~eof, NEW k \in {0, 1}, Holds(k), ReadLine
  PROVE  Holds(0)' /\ got'.at \subseteq {got'.prompt}
<1> DEFINE line == Run(0, Symbols \ {"nl"})
           whole == IF line < Len(stdin) THEN line + 1 ELSE line
           n == IF whole < LINELEN THEN whole ELSE LINELEN - 1
<1>1. /\ pc = "read" /\ Head(reads) = "line" /\ stdin # <<>> /\ stdin' = Drop(n) /\ GoOn
      /\ got' = [prompt |-> Prompt, at |-> Prompts(1, n)]
  BY DEF ReadLine, Took
<1>2. stdin \in Seq(Entry) /\ Len(stdin) \in Nat /\ \A i \in 1 .. Len(stdin) : stdin[i] \in Entry
  BY Stdin
<1>3. k = 0 /\ reads # <<>>
  BY <1>1, Stdin DEF Holds, Fits
<1>4. Len(stdin) # k
  BY <1>1, <1>2, <1>3
<1>5. /\ \A i \in k + 1 .. Len(stdin) : stdin[i].at = Prompt
      /\ stdin[Len(stdin)].sym = "nl"
  BY <1>4, Answered
<1>6. PICK l \in Answer : /\ Len(stdin) = k + Len(l) + 1
                          /\ \A i \in 1 .. Len(l) : stdin[k + i].sym = l[i]
  BY <1>4, Answered
<1>7. l = <<"text">>
  BY <1>1 DEF Answer
<1>8. Len(l) = 1 /\ l[1] = "text"
  BY <1>7
<1>9. Len(stdin) = 2 /\ stdin[1].sym = "text" /\ stdin[2].sym = "nl"
  BY <1>3, <1>5, <1>6, <1>8
<1>10. line = 1
  <2>1. 0 \in 0 .. Len(stdin) /\ 1 \in 0 .. Len(stdin) - 0
    BY <1>9
  <2>2. \A i \in 0 + 1 .. 0 + 1 : stdin[i].sym \in Symbols \ {"nl"}
    BY <1>9, SymbolFacts DEF Blanks
  <2>3. stdin[0 + 1 + 1].sym \notin Symbols \ {"nl"}
    BY <1>9
  <2>4. QED
    BY <1>2, <2>1, <2>2, <2>3, RunIs
<1> HIDE DEF line
<1>11. n = 2
  BY <1>9, <1>10, LinelenAssumption
<1> HIDE DEF n, whole
<1>12. Len(stdin') = 0
  <2>1. Len(Drop(2)) = 0
    BY <1>9, Dropped
  <2>2. QED
    BY <1>1, <1>11, <2>1
<1>13. Holds(0)'
  BY <1>1, <1>12, HoldsNext
<1>14. got'.at \subseteq {got'.prompt}
  <2>1. \A i \in 1 .. 2 : stdin[i].at = Prompt
    BY <1>3, <1>5, <1>9
  <2>2. QED
    BY <1>1, <1>11, <2>1, AllHere
<1>15. QED
  BY <1>13, <1>14

\* scanf("%d%c") takes the number and its newline.
LEMMA ReadIntInStep ==
  ASSUME TypeOK, StepsLeft, ~eof, NEW k \in {0, 1}, Holds(k), ReadInt
  PROVE  Holds(0)' /\ got'.at \subseteq {got'.prompt}
<1>1. pc = "read" /\ Head(reads) = "int" /\ Something
  BY DEF ReadInt
<1>2. /\ stdin \in Seq(Entry) /\ Len(stdin) \in Nat /\ k \in Nat
  BY Stdin
<1>3. Len(stdin) # k
  BY <1>1, Unanswered
<1>4. /\ Leading = k
      /\ \A i \in k + 1 .. Len(stdin) : stdin[i].at = Prompt
      /\ stdin[Len(stdin)].sym = "nl"
  BY <1>3, Answered
<1>5. PICK l \in Answer : /\ Len(stdin) = k + Len(l) + 1
                          /\ \A i \in 1 .. Len(l) : stdin[k + i].sym = l[i]
  BY <1>3, Answered
<1>6. l = <<"7">> \/ l = <<"7", "7">>
  BY <1>1 DEF Answer
<1>7. Len(l) \in {1, 2} /\ \A i \in 1 .. Len(l) : l[i] = "7"
  BY <1>6
<1> DEFINE n == Leading + Run(Leading, {"7"})
<1>8. n = k + Len(l)
  <2>1. k \in 0 .. Len(stdin) /\ Len(l) \in 0 .. Len(stdin) - k /\ Len(stdin) = k + Len(l) + 1
    BY <1>2, <1>5, <1>7
  <2>2. ASSUME NEW i \in k + 1 .. k + Len(l) PROVE stdin[i].sym \in {"7"}
    <3>1. i - k \in 1 .. Len(l) /\ k + (i - k) = i
      BY <1>2, <1>7
    <3>2. QED
      BY <1>5, <1>7, <3>1
  <2>3. stdin[k + Len(l) + 1].sym \notin {"7"}
    BY <1>4, <2>1
  <2>4. Run(k, {"7"}) = Len(l)
    BY <1>2, <2>1, <2>2, <2>3, RunIs
  <2>5. QED
    BY <1>4, <2>4
<1>9. NumberNext
  <2>1. stdin[k + 1].sym = "7"
    BY <1>5, <1>7
  <2>2. QED
    BY <1>1, <1>4, <2>1 DEF NumberNext
<1>10. /\ stdin' = Drop(n + 1) /\ got' = [prompt |-> Prompt, at |-> Prompts(Leading + 1, n)]
       /\ (GoOn \/ Over)
  BY <1>9 DEF ReadInt, Took
<1> HIDE DEF n
<1>11. n \in Nat /\ n + 1 = Len(stdin) /\ n + 1 \in Nat
  BY <1>2, <1>5, <1>7, <1>8
<1>12. Len(stdin') = 0
  <2> DEFINE m == n + 1
  <2>1. m \in Nat /\ m = Len(stdin) /\ stdin' = Drop(m)
    BY <1>10, <1>11
  <2> HIDE DEF m
  <2>2. Len(Drop(m)) = IF m <= Len(stdin) THEN Len(stdin) - m ELSE 0
    BY <2>1, Dropped
  <2>3. QED
    BY <1>2, <2>1, <2>2
<1>13. Holds(0)'
  BY <1>1, <1>10, <1>12, HoldsNext
<1>14. got'.at \subseteq {got'.prompt}
  <2> DEFINE a == k + 1
  <2>1. \A i \in a .. n : stdin[i].at = Prompt
    BY <1>2, <1>4, <1>11
  <2>2. a \in Nat /\ got' = [prompt |-> Prompt, at |-> Prompts(a, n)]
    BY <1>2, <1>4, <1>10
  <2> HIDE DEF a
  <2>3. QED
    BY <1>11, <2>1, <2>2, AllHere
<1>15. QED
  BY <1>13, <1>14

\* scanf("%f") takes the number and leaves its newline.
LEMMA ReadFloatInStep ==
  ASSUME TypeOK, StepsLeft, ~eof, NEW k \in {0, 1}, Holds(k), ReadFloat
  PROVE  Holds(1)' /\ got'.at \subseteq {got'.prompt}
<1>1. pc = "read" /\ Head(reads) = "float" /\ Something
  BY DEF ReadFloat
<1>2. /\ stdin \in Seq(Entry) /\ Len(stdin) \in Nat /\ k \in Nat
  BY Stdin
<1>3. Len(stdin) # k
  BY <1>1, Unanswered
<1>4. /\ Leading = k
      /\ \A i \in k + 1 .. Len(stdin) : stdin[i].at = Prompt
      /\ stdin[Len(stdin)].sym = "nl"
  BY <1>3, Answered
<1>5. PICK l \in Answer : /\ Len(stdin) = k + Len(l) + 1
                          /\ \A i \in 1 .. Len(l) : stdin[k + i].sym = l[i]
  BY <1>3, Answered
<1>6. l = <<"7">> \/ l = <<"7", ".", "7">>
  BY <1>1 DEF Answer
<1>7. /\ Len(l) \in {1, 3} /\ l[1] = "7"
      /\ Len(l) = 3 => l[2] = "." /\ l[3] = "7"
  BY <1>6
<1>8. /\ Len(stdin) = k + Len(l) + 1
      /\ stdin[k + 1].sym = "7"
      /\ Len(l) = 1 => stdin[k + 2].sym = "nl"
      /\ Len(l) = 3 => stdin[k + 2].sym = "." /\ stdin[k + 3].sym = "7" /\ stdin[k + 4].sym = "nl"
  BY <1>2, <1>4, <1>5, <1>7
<1> DEFINE whole == Leading + Run(Leading, {"7"})
           point == whole < Len(stdin) /\ stdin[whole + 1].sym = "."
           n == IF point THEN whole + 1 + Run(whole + 1, {"7"}) ELSE whole
<1>9. /\ stdin' = Drop(n)
      /\ (\E i \in Leading + 1 .. n : stdin[i].sym = "7") =>
            got' = [prompt |-> Prompt, at |-> Prompts(Leading + 1, n)] /\ GoOn
  BY DEF ReadFloat, Took
<1>10. whole = k + 1
  <2>1. k \in 0 .. Len(stdin) /\ 1 \in 0 .. Len(stdin) - k
    BY <1>2, <1>7, <1>8
  <2>2. \A i \in k + 1 .. k + 1 : stdin[i].sym \in {"7"}
    BY <1>2, <1>8
  <2>3. stdin[k + 1 + 1].sym \notin {"7"}
    BY <1>2, <1>7, <1>8
  <2>4. Run(k, {"7"}) = 1
    BY <1>2, <2>1, <2>2, <2>3, RunIs
  <2>5. QED
    BY <1>4, <2>4
<1> HIDE DEF whole
<1>11. n = k + Len(l)
  <2>1. CASE Len(l) = 1
    <3>1. stdin[whole + 1].sym = "nl"
      BY <1>2, <1>8, <1>10, <2>1
    <3>2. ~point
      BY <3>1
    <3>3. QED
      BY <1>10, <2>1, <3>2
  <2>2. CASE Len(l) = 3
    <3>1. stdin[whole + 1].sym = "." /\ whole < Len(stdin)
      BY <1>2, <1>8, <1>10, <2>2
    <3>2. point
      BY <3>1
    <3> DEFINE w == whole + 1
    <3>3. w = k + 2 /\ w \in 0 .. Len(stdin) /\ 1 \in 0 .. Len(stdin) - w
      BY <1>2, <1>8, <1>10, <2>2
    <3> HIDE DEF w
    <3>4. \A i \in w + 1 .. w + 1 : stdin[i].sym \in {"7"}
      <4>1. w + 1 = k + 3 /\ stdin[k + 3].sym = "7"
        BY <1>2, <1>8, <2>2, <3>3
      <4>2. \A i \in w + 1 .. w + 1 : i = k + 3
        BY <1>2, <3>3
      <4>3. QED
        BY <4>1, <4>2
    <3>5. stdin[w + 1 + 1].sym \notin {"7"}
      BY <1>2, <1>8, <2>2, <3>3
    <3>6. Run(w, {"7"}) = 1
      BY <1>2, <3>3, <3>4, <3>5, RunIs
    <3>7. Run(whole + 1, {"7"}) = 1
      BY <3>6 DEF w
    <3> HIDE DEF point
    <3>8. n = whole + 1 + 1
      BY <3>2, <3>7
    <3>9. QED
      BY <1>2, <1>10, <2>2, <3>8
  <2>3. QED
    BY <1>7, <2>1, <2>2
<1> HIDE DEF n, point
<1>12. n \in Nat /\ Len(stdin) = n + 1
  BY <1>2, <1>7, <1>8, <1>11
<1>13. /\ stdin' = Drop(n) /\ got' = [prompt |-> Prompt, at |-> Prompts(Leading + 1, n)]
       /\ GoOn
  <2>1. k + 1 \in Leading + 1 .. n
    BY <1>2, <1>4, <1>7, <1>11, <1>12
  <2>2. QED
    BY <1>8, <1>9, <2>1
<1>14. Len(stdin') = 1 /\ stdin'[1].sym = "nl"
  <2>1. /\ Len(Drop(n)) = IF n <= Len(stdin) THEN Len(stdin) - n ELSE 0
        /\ \A i \in 1 .. Len(Drop(n)) : Drop(n)[i] = stdin[n + i]
    BY <1>12, Dropped
  <2>2. Len(Drop(n)) = 1
    BY <1>2, <1>12, <2>1
  <2>3. QED
    BY <1>4, <1>12, <1>13, <2>1, <2>2
<1>15. Holds(1)'
  BY <1>1, <1>13, <1>14, HoldsNext
<1>16. got'.at \subseteq {got'.prompt}
  <2> DEFINE a == k + 1
  <2>1. \A i \in a .. n : stdin[i].at = Prompt
    BY <1>2, <1>4, <1>12
  <2>2. a \in Nat /\ got' = [prompt |-> Prompt, at |-> Prompts(a, n)]
    BY <1>2, <1>4, <1>13
  <2> HIDE DEF a
  <2>3. QED
    BY <1>12, <2>1, <2>2, AllHere
<1>17. QED
  BY <1>15, <1>16

\* Every step of a careful user's session.
LEMMA CarefulStep ==
  ASSUME TypeOK, StepsLeft, careful, InStep, got.at \subseteq {got.prompt}, Next
  PROVE  InStep' /\ got'.at \subseteq {got'.prompt}
<1>1. ~eof /\ (pc # "exited" => \E k \in {0, 1} : Holds(k))
  BY DEF InStep
<1>2. CASE Type
  <2>1. pc # "exited" /\ eof' = eof /\ got' = got
    BY <1>2 DEF Type
  <2>2. \E k \in {0, 1} : Holds(k)'
    BY <1>1, <1>2, <2>1, TypeInStep
  <2>3. QED
    BY <1>1, <2>1, <2>2 DEF InStep
<1>3. CASE CloseInput
  BY <1>3 DEF CloseInput
<1>4. CASE ScanCommand
  <2>1. pc # "exited" /\ eof' = eof
    BY <1>4 DEF ScanCommand
  <2>2. Holds(1)' /\ got'.at \subseteq {got'.prompt}
    BY <1>1, <1>4, <2>1, ScanInStep
  <2>3. QED
    BY <1>1, <2>1, <2>2 DEF InStep
<1>5. CASE ScanEof
  BY <1>1, <1>5 DEF ScanEof
<1>6. CASE Skip \/ ReadLine \/ ReadInt \/ ReadFloat
  <2>1. pc # "exited" /\ eof' = eof
    BY <1>6 DEF Skip, ReadLine, ReadInt, ReadFloat
  <2>2. (Holds(0)' \/ Holds(1)') /\ got'.at \subseteq {got'.prompt}
    BY <1>1, <1>6, <2>1, SkipInStep, ReadLineInStep, ReadIntInStep, ReadFloatInStep
  <2>3. QED
    BY <1>1, <2>1, <2>2 DEF InStep
<1>7. CASE Exited
  BY <1>1, <1>7 DEF Exited, vars, InStep
<1>8. QED
  BY <1>2, <1>3, <1>4, <1>5, <1>6, <1>7 DEF Next

(***************************************************************************)
(* The theorems.                                                           *)
(***************************************************************************)

\* The inductive invariant: the types, the reads that fit what is left in stdin,
\* and the line of text that is next.
THEOREM Invariance == Spec => []IInv
<1>1. Init => IInv
  <2>1. SUFFICES ASSUME Init PROVE IInv
    OBVIOUS
  <2>2. TypeOK /\ StepsLeft
    <3>1. /\ pc = "scan" /\ command = "text" /\ reads = <<>> /\ step = 0 /\ stdin = <<>>
          /\ {careful, eof, fresh, split} \subseteq BOOLEAN
      BY <2>1 DEF Init
    <3>2. command \in Words
      BY <3>1, SymbolFacts
    <3>3. /\ step \in 0 .. 6 + 2 * MaxMovies /\ Len(stdin) <= MaxTyped
          /\ step + Len(reads) <= 7 + 2 * MaxMovies
      BY <3>1, BoundsAssumption
    <3>4. reads \in Seq(ReadKinds) /\ stdin \in Seq(Entry)
      BY <3>1
    <3>5. QED
      BY <3>1, <3>2, <3>3, <3>4 DEF TypeOK, StepsLeft, Entry, Kinds, ReadKinds
  <2>3. Holds(0)
    BY <2>1 DEF Init, Holds, Fits
  <2>4. InStep /\ AnswersInStep /\ TextIsNext /\ TextIsNoCommand
    BY <2>1, <2>3 DEF Init, InStep, AnswersInStep, TextIsNext, TextIsNoCommand
  <2>5. QED
    BY <2>2, <2>4 DEF IInv
<1>2. IInv /\ [Next]_vars => IInv'
  <2>1. SUFFICES ASSUME IInv, [Next]_vars PROVE IInv'
    OBVIOUS
  <2>2. CASE UNCHANGED vars
    <3>1. UNCHANGED <<TypeOK, StepsLeft, InStep, AnswersInStep, TextIsNext, TextIsNoCommand>>
      BY <2>2 DEF vars, TypeOK, StepsLeft, InStep, Holds, Typed, Answer, Prompt, AnswersInStep,
                  TextIsNext, TextIsNoCommand
    <3>2. QED
      BY <2>1, <2>2, <3>1 DEF IInv, vars
  <2>3. CASE Next
    <3>1. TypeOK' /\ StepsLeft'
      BY <2>1, <2>3, TypeTypes, MainTypes, HandlerTypes DEF IInv, Next, Exited, vars,
         TypeOK, StepsLeft
    <3>2. careful' = careful
      BY <2>3 DEF Next, Type, CloseInput, ScanCommand, ScanEof, Skip, ReadLine, ReadInt,
                  ReadFloat, Exited, vars
    <3>3. (careful => InStep)' /\ AnswersInStep'
      BY <2>1, <2>3, <3>2, CarefulStep DEF IInv, AnswersInStep
    <3>4. (~split => TextIsNext)' /\ TextIsNoCommand'
      BY <2>1, <2>3, TextStep DEF IInv
    <3>5. QED
      BY <3>1, <3>3, <3>4 DEF IInv
  <2>4. QED
    BY <2>1, <2>2, <2>3
<1>3. QED
  BY <1>1, <1>2, PTL DEF Spec

\* Type correctness: a handler in the middle of its input has a read to come.
THEOREM TypeCorrect == Spec => []TypeOK
<1>1. IInv => TypeOK
  BY DEF IInv
<1>2. QED
  BY <1>1, Invariance, PTL

\* Each line of a careful user is taken by the read it was typed for, through
\* every getchar() and "%c" of the handlers (client.c).
THEOREM EachAnswerInStep == Spec => []AnswersInStep
<1>1. IInv => AnswersInStep
  BY DEF IInv
<1>2. QED
  BY <1>1, Invariance, PTL

\* Whatever is typed, a line of text that fgets() takes whole is no command.
THEOREM TextStaysText == Spec => []TextIsNoCommand
<1>1. IInv => TextIsNoCommand
  BY DEF IInv
<1>2. QED
  BY <1>1, Invariance, PTL
=============================================================================
