------------------------- MODULE Collections_proofs -------------------------
(***************************************************************************)
(* Theorems about Collections, for every set of movies and of collection   *)
(* ids, every number of movies typed and every fault.                      *)
(***************************************************************************)
EXTENDS Collections, TLAPS

\* The ids and the movies are numbers, and no fault value is taken for them.
LEMMA Numbers ==
    /\ 0 \notin Ids /\ NULL \notin Ids
    /\ ASK \in Int /\ UNKNOWN \in Int /\ ASK \notin Movies \cup {0, UNKNOWN}
    /\ \A m \in Movies : m \in Nat
    /\ \A movies \in SUBSET Movies : NULL # movies
  BY MoviesAssumption, IdsAssumption, NullAssumption DEF ASK, UNKNOWN

\* The library starts empty, and no command is under way.
LEMMA InitIInv == Init => IInv
<1> SUFFICES ASSUME Init PROVE IInv
  OBVIOUS
<1>1. TypeOK
  BY DEF Init, TypeOK, Operations
<1>2. InFlight /\ Commanded /\ OwnContents /\ KeepsStep
  BY DEF Init, InFlight, Commanded, OwnContents, KeepsStep, AnsweredOk
<1>3. QED
  BY <1>1, <1>2 DEF Init, IInv

\* add_collection() starts with no id of its own and no movie handed out.
LEMMA StartAddCollectionStep == IInv /\ StartAddCollection => IInv'
<1> SUFFICES ASSUME IInv, StartAddCollection PROVE IInv'
  OBVIOUS
<1> USE DEF IInv, StartAddCollection
<1>1. movie_ids' \in Seq(Typed) /\ 0 \in 0 .. Len(movie_ids')
  <2>1. PICK n \in 0 .. MaxMovies : movie_ids' \in [1 .. n -> Movies \cup {ASK}]
    OBVIOUS
  <2>2. n \in Nat /\ Len(movie_ids') = n
    BY <2>1, BoundAssumption
  <2>3. movie_ids' \in [1 .. n -> Typed]
    BY <2>1 DEF Typed
  <2>4. QED
    BY <2>2, <2>3
<1>2. TypeOK'
  BY <1>1 DEF TypeOK, Operations
<1>3. InFlight' /\ Commanded' /\ OwnContents' /\ KeepsStep'
  BY DEF InFlight, Commanded, OwnContents, KeepsStep, AnsweredOk
<1>4. QED
  BY <1>2, <1>3

\* The other handlers start with the ids typed.
LEMMA StartOneStep == \A c \in OneRequest : IInv /\ StartOne(c) => IInv'
<1> SUFFICES ASSUME NEW c \in OneRequest, IInv, StartOne(c) PROVE IInv'
  OBVIOUS
<1> USE DEF IInv, StartOne
<1>1. PICK m \in Movies \cup {UNKNOWN} : movie_ids' = <<m>>
  OBVIOUS
<1>2. m \in Typed /\ m # ASK
  BY Numbers DEF Typed
<1>3. movie_ids' \in Seq(Typed) /\ Len(movie_ids') = 1 /\ movie_ids'[1] = m
  BY <1>1, <1>2
<1>4. TypeOK'
  BY <1>3 DEF TypeOK, Operations
<1>5. Commanded'
  BY <1>2, <1>3 DEF Commanded, OneRequest
<1>6. InFlight' /\ OwnContents' /\ KeepsStep'
  BY DEF InFlight, OwnContents, KeepsStep, AnsweredOk, OneRequest
<1>7. QED
  BY <1>4, <1>5, <1>6

\* The movie in hand is one typed, or 0 before the first.
LEMMA MovieType == TypeOK => Movie \in Typed \cup {0} /\ (i # 0 => Movie = movie_ids[i])
<1> SUFFICES ASSUME TypeOK, i # 0 PROVE movie_ids[i] \in Typed
  BY DEF Movie
<1>1. i \in 1 .. Len(movie_ids)
  BY DEF TypeOK
<1>2. QED
  BY <1>1 DEF TypeOK

\* The request that goes out is that of the handler.
LEMMA SendStep == IInv /\ Send => IInv'
<1> SUFFICES ASSUME IInv, Send PROVE IInv'
  OBVIOUS
<1> USE DEF IInv, Send
<1>1. Movie' = Movie
  BY DEF Movie
<1>2. request' \in Request
  <2>1. Movie \in Int
    <3>1. \A m \in Typed \cup {0} : m \in Int
      BY Numbers DEF Typed
    <3>2. QED
      BY <3>1, MovieType
  <2>2. op \in Operations /\ collection_id \in Nat
    <3>1. op \in Operations /\ collection_id \in Ids \cup {0}
      BY DEF TypeOK
    <3>2. QED
      BY <3>1, IdsAssumption
  <2>3. QED
    BY <2>1, <2>2 DEF Request
<1>3. request' # NULL /\ reply = NULL
  BY <1>2, NullAssumption DEF InFlight
<1>4. TypeOK'
  BY <1>2 DEF TypeOK
<1>5. InFlight'
  BY <1>1, <1>3 DEF InFlight, AnsweredOk
<1>6. Commanded' /\ OwnContents' /\ KeepsStep'
  BY <1>3 DEF InFlight, Commanded, OwnContents, KeepsStep, AnsweredOk, HandedOut
<1>7. QED
  BY <1>4, <1>5, <1>6

\* Another id is typed in place of one that can be none: only a movie not yet
\* handed to the server changes.
LEMMA AskAgainStep == IInv /\ AskAgain => IInv'
<1> SUFFICES ASSUME IInv, AskAgain PROVE IInv'
  OBVIOUS
<1> USE DEF IInv, AskAgain
<1>1. command = "add_collection" /\ i >= 1 /\ i \in 1 .. Len(movie_ids) /\ movie_ids[i] = ASK
  BY Numbers DEF TypeOK, Commanded, Movie
<1>2. PICK m \in Movies \cup {UNKNOWN} : movie_ids' = [movie_ids EXCEPT ![i] = m]
  OBVIOUS
<1>3. movie_ids' \in Seq(Typed) /\ Len(movie_ids') = Len(movie_ids)
  BY <1>1, <1>2 DEF TypeOK, Typed
<1>4. TypeOK'
  BY <1>3 DEF TypeOK
<1>5. \A k \in 1 .. Len(movie_ids) : k # i => movie_ids'[k] = movie_ids[k]
  BY <1>2 DEF TypeOK
<1>6. HandedOut(i - 1)' = HandedOut(i - 1)
  BY <1>1, <1>5 DEF HandedOut, TypeOK
<1>7. own # NULL /\ collections[own] # NULL => collections[own] \subseteq HandedOut(i)'
  <2>1. SUFFICES ASSUME own # NULL, collections[own] # NULL, NEW m1 \in collections[own]
                 PROVE  m1 \in HandedOut(i)'
    OBVIOUS
  <2>2. m1 \in Movies
    BY <2>1 DEF TypeOK
  <2>3. PICK k \in 1 .. i : m1 = movie_ids[k]
    BY <2>1 DEF OwnContents, HandedOut
  <2>4. k # i
    BY <1>1, <2>2, <2>3, Numbers
  <2>5. movie_ids'[k] = m1
    BY <1>1, <1>5, <2>3, <2>4
  <2>6. QED
    BY <2>5 DEF HandedOut
<1>8. InFlight' /\ Commanded'
  BY <1>1 DEF InFlight, Commanded, AnsweredOk
<1>9. OwnContents'
  BY <1>7 DEF OwnContents
<1>10. KeepsStep'
  BY <1>6 DEF KeepsStep, InFlight, AnsweredOk
<1>11. QED
  BY <1>4, <1>8, <1>9, <1>10

\* A movie that is no number is refused before it is sent: the collection
\* holds the movies before it, and is deleted next.
LEMMA RefuseMovieStep == IInv /\ RefuseMovie => IInv'
<1> SUFFICES ASSUME IInv, RefuseMovie PROVE IInv'
  OBVIOUS
<1> USE DEF IInv, RefuseMovie
<1>1. command = "add_collection"
  BY Numbers DEF TypeOK, Commanded, Movie
<1>2. TypeOK'
  BY DEF TypeOK, Operations, OneRequest
<1>3. InFlight' /\ Commanded' /\ OwnContents'
  BY <1>1 DEF InFlight, Commanded, OwnContents, AnsweredOk, HandedOut
<1>4. KeepsStep'
  BY <1>1 DEF KeepsStep, InFlight, OwnContents
<1>5. QED
  BY <1>2, <1>3, <1>4

\* The session ends while a command is under way, or between two.
LEMMA ExpireStep == IInv /\ Expire => IInv'
<1> SUFFICES ASSUME IInv, Expire PROVE IInv'
  OBVIOUS
<1> USE DEF IInv, Expire
<1>1. TypeOK'
  BY DEF TypeOK, client
<1>2. InFlight' /\ Commanded' /\ OwnContents' /\ KeepsStep'
  BY DEF InFlight, Commanded, OwnContents, KeepsStep, AnsweredOk, HandedOut, Movie, client
<1>3. QED
  BY <1>1, <1>2

\* A new login repairs the session for the next command only.
LEMMA RenewStep == IInv /\ Renew => IInv'
<1> SUFFICES ASSUME IInv, Renew PROVE IInv'
  OBVIOUS
<1> USE DEF IInv, Renew
<1>1. TypeOK'
  BY DEF TypeOK, client
<1>2. InFlight' /\ Commanded' /\ OwnContents' /\ KeepsStep'
  BY DEF InFlight, Commanded, OwnContents, KeepsStep, AnsweredOk, HandedOut, Movie, client
<1>3. QED
  BY <1>1, <1>2

\* A refusal changes nothing at the server; without trouble the deletion of a
\* new collection is not refused, because the collection is there.
LEMMA RefuseStep == IInv /\ Refuse => IInv'
<1> SUFFICES ASSUME IInv, Refuse PROVE IInv'
  OBVIOUS
<1> USE DEF IInv, Refuse
<1>1. PICK status \in {"error", "blank"} :
        /\ Answer(status, 0)
        /\ status = "error" => UNCHANGED trouble
        /\ status = "blank" => trouble' = trouble \cup {"opaque"}
  BY SMT
<1>2. reply' \in Reply /\ reply'.status = status /\ reply'.id = 0 /\ request' = NULL
  BY <1>1 DEF Answer, Reply
<1>3. reply' # NULL /\ ~AnsweredOk'
  BY <1>2, NullAssumption DEF AnsweredOk
<1>4. pc = "receive" /\ reply = NULL /\ ~AnsweredOk
  BY DEF InFlight, AnsweredOk
<1>5. TypeOK'
  BY <1>1, <1>2 DEF TypeOK, client
<1>6. InFlight'
  BY <1>1, <1>2, <1>3, <1>4 DEF InFlight, client
<1>7. Commanded' /\ OwnContents'
  BY <1>3, <1>4 DEF Commanded, OwnContents, HandedOut, client
<1>8. KeepsStep'
  <2>1. SUFFICES ASSUME trouble' = {}, command = "add_collection"
                 PROVE  /\ op = "add_movie_to_collection" =>
                              own # NULL /\ collections[own] = HandedOut(i - 1)
                        /\ op # "delete_collection"
    BY <1>3, <1>4 DEF KeepsStep, HandedOut, client
  <2>2. trouble = {} /\ session
    BY <1>1, <2>1
  <2>3. ASSUME op = "delete_collection" PROVE FALSE
    <3>1. own # NULL /\ collections[own] # NULL
      BY <1>4, <2>1, <2>2, <2>3 DEF KeepsStep, InFlight
    <3>2. collection_id = own
      BY <1>4, <2>1, <2>3, <3>1 DEF Commanded
    <3>3. request.op = "delete_collection" /\ request.id = own
      BY <2>3, <3>2 DEF InFlight
    <3>4. own \in Ids
      BY <3>1 DEF TypeOK
    <3>5. QED
      BY <2>2, <3>1, <3>3, <3>4
  <2>4. QED
    BY <1>4, <2>1, <2>2, <2>3 DEF KeepsStep
<1>9. QED
  BY <1>1, <1>5, <1>6, <1>7, <1>8 DEF client

\* The server creates the collection the client is waiting for.
LEMMA CreateStep ==
  ASSUME IInv, request # NULL, request.op = "add_collection", NEW id \in Ids,
         collections[id] = NULL, collections' = [collections EXCEPT ![id] = {}],
         own' = id, Answer("ok", id), UNCHANGED <<client, session, trouble>>
  PROVE  IInv'
<1> USE DEF IInv, client
<1>1. /\ pc = "receive" /\ reply = NULL /\ op = "add_collection" /\ command = "add_collection"
      /\ own = NULL /\ i = 0 /\ collection_id = 0
  BY DEF InFlight, Commanded, AnsweredOk, TypeOK, Operations, OneRequest
<1>2. id \in Nat /\ id # NULL
  BY IdsAssumption, Numbers
<1>3. reply' \in Reply /\ reply'.status = "ok" /\ reply'.id = id /\ request' = NULL
  BY <1>2 DEF Answer, Reply
<1>4. reply' # NULL /\ AnsweredOk'
  BY <1>3, NullAssumption DEF AnsweredOk
<1>5. collections'[id] = {} /\ collections'[id] # NULL
  BY Numbers DEF TypeOK
<1>6. TypeOK'
  BY <1>3 DEF TypeOK
<1>7. InFlight'
  BY <1>1, <1>3, <1>4 DEF InFlight
<1>8. Commanded' /\ OwnContents' /\ KeepsStep'
  BY <1>1, <1>2, <1>4, <1>5 DEF Commanded, OwnContents, KeepsStep
<1>9. QED
  BY <1>6, <1>7, <1>8

\* The three ways a request changes a collection that is there.
Changed(movies) ==
    CASE request.op = "add_movie_to_collection" -> movies \cup {request.movie}
      [] request.op = "delete_movie_from_collection" -> movies \ {request.movie}
      [] request.op = "delete_collection" -> NULL

\* Within add_collection() the only collection a request can reach is the
\* one created for it.
LEMMA ReachesOwn ==
  ASSUME IInv, request # NULL, command = "add_collection", request.op \in OneRequest,
         request.id \in Ids
  PROVE  request.id = own /\ own # NULL
<1>1. request.op = op /\ request.id = collection_id /\ pc = "receive"
  BY DEF IInv, InFlight
<1>2. op # "add_collection"
  BY <1>1 DEF OneRequest
<1>3. collection_id = IF own = NULL THEN 0 ELSE own
  BY <1>2 DEF IInv, Commanded
<1>4. QED
  BY <1>1, <1>3, Numbers

\* The server executes a request on one movie or on the whole collection.
LEMMA ChangeStep ==
  ASSUME IInv, request # NULL, request.op \in OneRequest, request.id \in Ids,
         collections[request.id] # NULL,
         request.op # "delete_collection" => request.movie \in Movies,
         collections' = [collections EXCEPT ![request.id] = Changed(@)],
         Answer("ok", 0), UNCHANGED <<client, own, session, trouble>>
  PROVE  IInv'
<1> USE DEF IInv, client
<1> DEFINE id == request.id
<1>1. pc = "receive" /\ reply = NULL /\ op = request.op /\ op # "add_collection" /\ ~AnsweredOk
  BY DEF InFlight, AnsweredOk, OneRequest
<1>2. reply' \in Reply /\ reply'.status = "ok" /\ reply'.id = 0 /\ request' = NULL
  BY DEF Answer, Reply
<1>3. reply' # NULL /\ AnsweredOk'
  BY <1>2, NullAssumption DEF AnsweredOk
<1>4. request.op = "add_movie_to_collection" => request.movie = Movie /\ Movie \in Movies
  BY <1>1 DEF InFlight
<1>5. collections[id] \in SUBSET Movies
  BY DEF TypeOK
<1>6. Changed(collections[id]) \in (SUBSET Movies) \cup {NULL}
  BY <1>4, <1>5 DEF Changed, OneRequest
<1>7. collections'[id] = Changed(collections[id])
      /\ \A x \in Ids : x # id => collections'[x] = collections[x]
  BY DEF TypeOK
<1>8. TypeOK'
  BY <1>2, <1>6 DEF TypeOK
<1>9. InFlight'
  BY <1>1, <1>2, <1>3 DEF InFlight
<1>10. Commanded'
  BY <1>1 DEF Commanded
<1>11. CASE command # "add_collection"
  BY <1>8, <1>9, <1>10, <1>11 DEF Commanded, OwnContents, KeepsStep
<1>12. CASE command = "add_collection"
  <2>1. id = own /\ own # NULL /\ op \in {"add_movie_to_collection", "delete_collection"}
    BY <1>1, <1>12, ReachesOwn DEF Commanded
  <2>2. CASE op = "add_movie_to_collection"
    <3>1. collections'[own] = collections[own] \cup {Movie} /\ collections'[own] # NULL
      BY <1>1, <1>4, <1>5, <1>7, <2>1, <2>2, Numbers DEF Changed
    <3>2. i >= 1 /\ i \in Nat /\ Movie = movie_ids[i]
      BY <1>12, <2>2 DEF Commanded, Movie, TypeOK
    <3>3. HandedOut(i) = HandedOut(i - 1) \cup {Movie}
      BY <3>2 DEF HandedOut
    <3>4. OwnContents'
      BY <2>1, <2>2, <3>1, <3>3 DEF OwnContents, HandedOut
    <3>5. KeepsStep'
      BY <1>1, <1>3, <2>2, <3>1, <3>3 DEF KeepsStep, HandedOut
    <3>6. QED
      BY <1>8, <1>9, <1>10, <3>4, <3>5
  <2>3. CASE op = "delete_collection"
    <3>1. collections'[own] = NULL
      BY <1>1, <1>7, <2>1, <2>3 DEF Changed
    <3>2. OwnContents' /\ KeepsStep'
      BY <1>3, <2>3, <3>1 DEF OwnContents, KeepsStep
    <3>3. QED
      BY <1>8, <1>9, <1>10, <3>2
  <2>4. QED
    BY <2>1, <2>2, <2>3
<1>13. QED
  BY <1>11, <1>12

\* Whatever the server executes keeps the invariant.
LEMMA PerformStep == IInv /\ Perform => IInv'
<1> SUFFICES ASSUME IInv, Perform PROVE IInv'
  OBVIOUS
<1>1. CASE /\ request.op = "add_collection"
           /\ \E id \in Ids :
                 /\ collections[id] = NULL
                 /\ collections' = [collections EXCEPT ![id] = {}]
                 /\ own' = id
                 /\ Answer("ok", id)
  BY <1>1, CreateStep DEF Perform
<1>2. CASE /\ request.op \in OneRequest /\ request.id \in Ids
           /\ collections[request.id] # NULL
           /\ request.op # "delete_collection" => request.movie \in Movies
           /\ collections' = [collections EXCEPT ![request.id] = Changed(@)]
           /\ Answer("ok", 0)
           /\ UNCHANGED own
  BY <1>2, ChangeStep DEF Perform
<1>3. QED
  BY <1>1, <1>2 DEF Perform, Changed

\* An error ends the command, or turns add_collection() to the deletion.
LEMMA ReceiveErrorStep == IInv /\ Receive /\ reply.status = "error" => IInv'
<1> SUFFICES ASSUME IInv, Receive, reply.status = "error" PROVE IInv'
  OBVIOUS
<1> USE DEF IInv, Receive
<1>1. /\ pc = "receive" /\ reply # NULL /\ request = NULL /\ ~AnsweredOk
      /\ reply' = NULL /\ request' = NULL /\ ~AnsweredOk'
      /\ HandleError
  BY DEF InFlight, AnsweredOk
<1>2. TypeOK'
  BY <1>1 DEF TypeOK, HandleError, Finish, Operations, OneRequest
<1>3. InFlight'
  BY <1>1 DEF InFlight, HandleError, Finish
<1>4. CASE command = "add_collection" /\ op = "add_movie_to_collection"
  <2>1. pc' = "send" /\ op' = "delete_collection" /\ outcome' = "ERROR" /\ UNCHANGED <<i, collection_id>>
    BY <1>1, <1>4 DEF HandleError
  <2>2. Commanded' /\ OwnContents'
    BY <1>1, <1>4, <2>1 DEF Commanded, OwnContents, HandedOut
  <2>3. KeepsStep'
    BY <1>1, <1>4, <2>1 DEF KeepsStep, OwnContents
  <2>4. QED
    BY <1>2, <1>3, <2>2, <2>3
<1>5. CASE ~(command = "add_collection" /\ op = "add_movie_to_collection")
  <2>1. pc' = "command" /\ outcome' = "ERROR" /\ UNCHANGED <<op, i, collection_id>>
    BY <1>1, <1>5 DEF HandleError, Finish
  <2>2. Commanded' /\ OwnContents'
    BY <1>1, <1>5, <2>1 DEF Commanded, OwnContents, HandedOut
  <2>3. KeepsStep'
    BY <1>1, <1>5, <2>1 DEF KeepsStep, Commanded
  <2>4. QED
    BY <1>2, <1>3, <2>2, <2>3
<1>6. QED
  BY <1>4, <1>5

\* The ids in a reply are those the server gives; 0 stands for none.
LEMMA LearnsOwn ==
  ASSUME IInv, Receive, reply.status # "error", op = "add_collection"
  PROVE  /\ collection_id' = IF own = NULL THEN 0 ELSE own
         /\ reply.status = "ok" <=> own # NULL
         /\ reply.status = "blank" => trouble # {}
<1>1. command = "add_collection" /\ pc = "receive" /\ reply # NULL /\ collection_id' = reply.id
  BY DEF IInv, Commanded, Receive, HandleSuccess, OneRequest, TypeOK, Operations
<1>2. reply.status \in {"ok", "blank"}
  BY <1>1 DEF IInv, TypeOK, Reply
<1>3. own # NULL <=> reply.status = "ok"
  BY <1>1 DEF IInv, Commanded, AnsweredOk
<1>4. reply.id = IF reply.status = "ok" THEN own ELSE 0
  BY <1>1 DEF IInv, InFlight, AnsweredOk
<1>5. QED
  BY <1>1, <1>2, <1>3, <1>4 DEF IInv, InFlight

\* After a success add_collection() goes on with the next movie, ends with the
\* last, and keeps to its error after the deletion; the others end.
LEMMA ReceiveSuccessStep == IInv /\ Receive /\ reply.status # "error" => IInv'
<1> SUFFICES ASSUME IInv, Receive, reply.status # "error" PROVE IInv'
  OBVIOUS
<1> USE DEF IInv, Receive
<1>1. /\ pc = "receive" /\ reply # NULL /\ request = NULL
      /\ reply' = NULL /\ request' = NULL /\ ~AnsweredOk'
      /\ HandleSuccess(reply)
  BY DEF InFlight, AnsweredOk
<1>2. i \in Nat /\ Len(movie_ids) \in Nat /\ i <= Len(movie_ids)
  BY DEF TypeOK
<1>3. trouble = {} => AnsweredOk
  BY <1>1 DEF InFlight, TypeOK, Reply, AnsweredOk
<1>4. op = "add_collection" => command = "add_collection" /\ i = 0
  BY DEF Commanded, TypeOK, Operations, OneRequest
<1>5. /\ collection_id' \in Ids \cup {0}
      /\ command = "add_collection" => collection_id' = IF own = NULL THEN 0 ELSE own
      /\ command # "add_collection" => collection_id' = collection_id
  <2>1. CASE op = "add_collection"
    BY <1>4, <2>1, LearnsOwn DEF TypeOK
  <2>2. CASE op # "add_collection"
    BY <1>1, <2>2 DEF HandleSuccess, TypeOK, Commanded
  <2>3. QED
    BY <2>1, <2>2
<1>6. CASE command # "add_collection"
  <2>1. pc' = "command" /\ outcome' = "SUCCESS" /\ UNCHANGED <<op, i>>
    BY <1>1, <1>6 DEF HandleSuccess, Finish
  <2>2. TypeOK'
    BY <1>1, <1>5, <2>1 DEF TypeOK
  <2>3. InFlight' /\ Commanded' /\ OwnContents' /\ KeepsStep'
    BY <1>1, <1>5, <1>6, <2>1 DEF InFlight, Commanded, OwnContents, KeepsStep
  <2>4. QED
    BY <2>2, <2>3
<1>7. CASE command = "add_collection" /\ op = "delete_collection"
  <2>1. pc' = "command" /\ outcome' = "ERROR" /\ UNCHANGED <<op, i>>
    BY <1>1, <1>7 DEF HandleSuccess, Finish
  <2>2. TypeOK'
    BY <1>1, <1>5, <2>1 DEF TypeOK
  <2>3. InFlight' /\ Commanded' /\ OwnContents'
    BY <1>1, <1>5, <1>7, <2>1 DEF InFlight, Commanded, OwnContents, HandedOut
  <2>4. KeepsStep'
    BY <1>1, <1>7, <2>1 DEF KeepsStep
  <2>5. QED
    BY <2>2, <2>3, <2>4
<1>8. CASE command = "add_collection" /\ op # "delete_collection"
  <2>1. op \in {"add_collection", "add_movie_to_collection"} /\ NextMovie
    BY <1>1, <1>8 DEF HandleSuccess, Commanded
  <2>2. trouble = {} => own # NULL /\ collections[own] = HandedOut(i)
    <3>1. CASE op = "add_collection"
      <4>1. HandedOut(i) = {} /\ (trouble = {} => own # NULL)
        BY <1>3, <1>4, <3>1, LearnsOwn DEF HandedOut, AnsweredOk
      <4>2. QED
        BY <3>1, <4>1 DEF OwnContents, TypeOK
    <3>2. CASE op = "add_movie_to_collection"
      BY <1>1, <1>3, <1>8, <3>2 DEF KeepsStep
    <3>3. QED
      BY <2>1, <3>1, <3>2
  <2>3. own # NULL => collections[own] # NULL /\ collections[own] \subseteq HandedOut(i)
    BY <1>8 DEF OwnContents
  <2>4. CASE i < Len(movie_ids)
    <3>1. pc' = "send" /\ op' = "add_movie_to_collection" /\ i' = i + 1 /\ UNCHANGED outcome
      BY <2>1, <2>4 DEF NextMovie
    <3>2. HandedOut(i - 1)' = HandedOut(i) /\ HandedOut(i) \subseteq HandedOut(i)'
      BY <1>2, <3>1 DEF HandedOut
    <3>3. TypeOK'
      BY <1>1, <1>2, <1>5, <2>4, <3>1 DEF TypeOK, Operations, OneRequest
    <3>4. InFlight' /\ Commanded'
      BY <1>1, <1>2, <1>5, <1>8, <3>1 DEF InFlight, Commanded
    <3>5. OwnContents'
      BY <2>3, <3>1, <3>2 DEF OwnContents
    <3>6. KeepsStep'
      BY <1>1, <2>2, <3>1, <3>2 DEF KeepsStep
    <3>7. QED
      BY <3>3, <3>4, <3>5, <3>6
  <2>5. CASE ~(i < Len(movie_ids))
    <3>1. pc' = "command" /\ outcome' = "SUCCESS" /\ UNCHANGED <<op, i>>
      BY <2>1, <2>5 DEF NextMovie, Finish
    <3>2. i = Len(movie_ids)
      BY <1>2, <2>5
    <3>3. TypeOK'
      BY <1>1, <1>5, <3>1 DEF TypeOK
    <3>4. InFlight' /\ Commanded'
      BY <1>1, <1>5, <1>8, <3>1 DEF InFlight, Commanded
    <3>5. OwnContents'
      BY <2>3, <3>1 DEF OwnContents, HandedOut
    <3>6. op = "add_collection" => movie_ids = <<>>
      BY <1>4, <3>2 DEF TypeOK
    <3>7. KeepsStep'
      BY <2>1, <2>2, <3>1, <3>2, <3>6 DEF KeepsStep, HandedOut
    <3>8. QED
      BY <3>3, <3>4, <3>5, <3>7
  <2>6. QED
    BY <2>4, <2>5
<1>9. QED
  BY <1>6, <1>7, <1>8

\* Every step keeps the invariant.
LEMMA NextIInv == IInv /\ [Next]_vars => IInv'
<1> SUFFICES ASSUME IInv, [Next]_vars PROVE IInv'
  OBVIOUS
<1>1. CASE UNCHANGED vars
  BY <1>1 DEF vars, client, IInv, TypeOK, InFlight, Commanded, OwnContents, KeepsStep, AnsweredOk,
              HandedOut, Movie
<1>2. CASE Receive
  BY <1>2, ReceiveErrorStep, ReceiveSuccessStep
<1>3. QED
  BY <1>1, <1>2, StartAddCollectionStep, StartOneStep, SendStep, AskAgainStep, RefuseMovieStep,
     PerformStep, RefuseStep, ExpireStep, RenewStep DEF Next

\* The inductive invariant holds in every reachable state, whatever is typed,
\* answered, refused or expired.
THEOREM Invariance == Spec => []IInv
<1>1. QED
  BY InitIInv, NextIInv, PTL DEF Spec

\* Ids and movies keep their types, and the loop of add_collection() never
\* reads behind the movies typed (client.c:771-772).
THEOREM TypeCorrect == Spec => []TypeOK
<1>1. IInv => TypeOK
  BY DEF IInv
<1>2. QED
  BY <1>1, Invariance, PTL

\* Every movie has been handed out when the loop is over.
LEMMA AllHandedOut == TypeOK => HandedOut(Len(movie_ids)) = Asked
  BY DEF TypeOK, HandedOut, Asked

\* When add_collection() is over the invariant says what is in its collection.
LEMMA AllOrNothingState == IInv => CompleteOrGone
<1>1. SUFFICES ASSUME IInv, trouble = {}, pc = "command", command = "add_collection"
               PROVE  /\ outcome = "SUCCESS" => own # NULL /\ collections[own] = Asked
                      /\ outcome = "ERROR" => own = NULL \/ collections[own] = NULL
  BY DEF CompleteOrGone, Over
<1>2. TypeOK
  BY <1>1 DEF IInv
<1>3. CASE op = "add_collection"
  <2>1. movie_ids = <<>> => Asked = {} /\ \A k \in 1 .. 0 : FALSE
    BY DEF Asked
  <2>2. outcome = "SUCCESS" => collections[own] = {}
    BY <1>1, <1>3 DEF IInv, Commanded, OwnContents, KeepsStep, HandedOut, TypeOK
  <2>3. QED
    BY <1>1, <1>3, <2>1, <2>2 DEF IInv, KeepsStep
<1>4. CASE op = "add_movie_to_collection"
  BY <1>1, <1>2, <1>4, AllHandedOut DEF IInv, KeepsStep
<1>5. CASE op = "delete_collection"
  BY <1>1, <1>5 DEF IInv, KeepsStep
<1>6. QED
  BY <1>1, <1>3, <1>4, <1>5 DEF IInv, Commanded

\* add_collection() (client.c:709-786) is all or nothing, for any number of
\* movies, as long as no session expires and no refusal is hidden.
THEOREM AllOrNothing == Spec => []CompleteOrGone
<1>1. QED
  BY AllOrNothingState, Invariance, PTL

-----------------------------------------------------------------------------
\* Only the server's execution of a request changes a collection.
LEMMA OnlyPerformChanges ==
  ASSUME [Next]_vars, ~Perform
  PROVE  UNCHANGED collections
  BY DEF Next, vars, StartAddCollection, StartOne, Send, AskAgain, RefuseMovie, Refuse, Expire,
         Renew, Receive

\* Executing a request of add_collection() changes only the collection that
\* is its own, before or after the step.
LEMMA PerformOwn ==
  ASSUME IInv, Perform, command = "add_collection"
  PROVE  /\ own' # NULL /\ own' \in Ids /\ (own # NULL => own' = own)
         /\ \A id \in Ids : id # own' => collections'[id] = collections[id]
         /\ own = NULL => collections[own'] = NULL
<1>1. CASE request.op = "add_collection"
  <2>1. PICK id \in Ids : /\ collections[id] = NULL /\ own' = id
                          /\ collections' = [collections EXCEPT ![id] = {}]
    BY <1>1 DEF Perform, OneRequest
  <2>2. own = NULL
    BY <1>1 DEF Perform, IInv, InFlight, Commanded, AnsweredOk
  <2>3. QED
    BY <2>1, <2>2, Numbers DEF IInv, TypeOK
<1>2. CASE request.op \in OneRequest
  <2>1. request # NULL /\ request.id \in Ids /\ own' = own
        /\ collections' = [collections EXCEPT ![request.id] = Changed(@)]
    BY <1>2 DEF Perform, Changed, OneRequest
  <2>2. request.id = own /\ own # NULL
    BY <1>2, <2>1, ReachesOwn
  <2>3. QED
    BY <2>1, <2>2 DEF IInv, TypeOK
<1>3. QED
  BY <1>1, <1>2 DEF Perform

\* add_collection() changes no collection but its own, whatever goes wrong: a
\* missing id is 0, which is no collection (client.c:755-786).
THEOREM LeavesOthersAlone == Spec => OthersUntouched
<1>1. ASSUME IInv, [Next]_vars
      PROVE  [command = "add_collection" /\ pc # "command" =>
                 \A id \in Ids : id # own' => collections'[id] = collections[id]]_vars
  BY <1>1, OnlyPerformChanges, PerformOwn
<1>2. QED
  BY <1>1, Invariance, PTL DEF Spec, OthersUntouched

-----------------------------------------------------------------------------
\* Collections implements Library.

\* The collections a reader of the library counts, and the movies asked for.
Counted == [id \in Ids |-> IF Building(id) THEN NULL ELSE collections[id]]
Wanted == IF command = "add_collection" THEN Asked \cap Movies ELSE {}

\* Outside add_collection() everything is counted.
LEMMA NothingBuilding ==
  ASSUME TypeOK, own = NULL \/ pc = "command" \/ command # "add_collection"
  PROVE  Counted = collections
  BY Numbers DEF Counted, Building, TypeOK

\* A step that leaves the collections, their owner and the command alone
\* changes what is counted only when the command ends or begins.
LEMMA StillBuilding ==
  ASSUME UNCHANGED <<collections, own, command>>, pc = "command" <=> pc' = "command"
  PROVE  Counted' = Counted
  BY DEF Counted, Building

\* The end of add_collection() is the moment its collection appears: with all
\* the movies asked for, or with a part of them after some trouble.
LEMMA AppearsAtTheEnd ==
  ASSUME IInv, IInv', Receive, pc' = "command", command = "add_collection", own # NULL,
         collections[own] # NULL
  PROVE  \E id \in Ids : Abstract!Appear(id)
<1>1. own \in Ids /\ collections[own] \in SUBSET Movies /\ pc = "receive"
      /\ UNCHANGED <<collections, own, command, movie_ids, trouble>>
  BY DEF IInv, TypeOK, Receive
<1>2. Counted[own] = NULL
  BY <1>1 DEF Counted, Building
<1>3. Counted' = [Counted EXCEPT ![own] = collections[own]]
  BY <1>1 DEF Counted, Building, Receive
<1>4. collections[own] \subseteq Wanted
  <2>1. HandedOut(i) \subseteq Asked
    BY DEF HandedOut, Asked, IInv, TypeOK
  <2>2. collections[own] \subseteq HandedOut(i)
    BY DEF IInv, OwnContents
  <2>3. QED
    BY <1>1, <2>1, <2>2 DEF Wanted
<1>5. trouble = {} => collections[own] = Wanted
  <2>1. SUFFICES ASSUME trouble = {} PROVE collections[own] = Wanted
    OBVIOUS
  <2>2. trouble' = {} /\ command' = "add_collection" /\ collections'[own'] # NULL /\ own' # NULL
    BY <1>1, <2>1
  <2>3. CompleteOrGone' /\ outcome' \in {"SUCCESS", "ERROR"}
    <3>1. outcome' \in {"SUCCESS", "ERROR"}
      BY DEF Receive, HandleError, HandleSuccess, NextMovie, Finish
    <3>2. IInv' => CompleteOrGone'
      BY AllOrNothingState, PTL
    <3>3. QED
      BY <3>1, <3>2
  <2>4. collections'[own'] = Asked'
    BY <2>2, <2>3 DEF CompleteOrGone, Over
  <2>5. QED
    BY <1>1, <2>4 DEF Asked, Wanted
<1>6. UNCHANGED <<Wanted, trouble>>
  BY <1>1 DEF Wanted, Asked
<1>7. \A id \in Ids : id = own => Abstract!Appear(id)
  BY <1>2, <1>3, <1>4, <1>5, <1>6 DEF Abstract!Appear, Counted, Wanted
<1>8. QED
  BY <1>1, <1>7

\* The end of any command is a step of Library, or changes nothing it counts.
LEMMA AbstractReceive == IInv /\ IInv' /\ Receive => [Abstract!Next]_(Abstract!vars)
<1> SUFFICES ASSUME IInv, IInv', Receive PROVE [Abstract!Next]_(Abstract!vars)
  OBVIOUS
<1>1. UNCHANGED <<collections, own, command, movie_ids, trouble>> /\ pc = "receive"
  BY DEF Receive
<1>2. UNCHANGED <<Wanted, trouble>>
  BY <1>1 DEF Wanted, Asked
<1>3. CASE pc' = "command" /\ command = "add_collection" /\ own # NULL /\ collections[own] # NULL
  <2>1. \E id \in Ids : Abstract!Appear(id)
    BY <1>1, <1>3, AppearsAtTheEnd
  <2>2. QED
    BY <2>1 DEF Abstract!Next
<1>4. CASE ~(pc' = "command" /\ command = "add_collection" /\ own # NULL /\ collections[own] # NULL)
  <2>1. Counted' = Counted
    BY <1>1, <1>4, Numbers DEF Counted, Building
  <2>2. QED
    BY <1>2, <2>1 DEF Abstract!vars, Counted, Wanted
<1>5. QED
  BY <1>3, <1>4

\* What the server executes for add_collection() is not counted yet; for the
\* other handlers it is their step of Library.
LEMMA AbstractPerform == IInv /\ Perform => [Abstract!Next]_(Abstract!vars)
<1> SUFFICES ASSUME IInv, Perform PROVE [Abstract!Next]_(Abstract!vars)
  OBVIOUS
<1>1. UNCHANGED <<command, pc, movie_ids, trouble>> /\ pc = "receive" /\ request # NULL
  BY DEF Perform, client, IInv, InFlight
<1>2. UNCHANGED <<Wanted, trouble>>
  BY <1>1 DEF Wanted, Asked
<1>3. CASE command = "add_collection"
  <2>1. \A id \in Ids : Counted'[id] = Counted[id]
    <3>1. SUFFICES ASSUME NEW id \in Ids PROVE Counted'[id] = Counted[id]
      OBVIOUS
    <3>2. Counted'[id] = IF id = own' THEN NULL ELSE collections'[id]
      BY <1>1, <1>3 DEF Counted, Building
    <3>3. Counted[id] = IF id = own THEN NULL ELSE collections[id]
      BY <1>1, <1>3 DEF Counted, Building
    <3>4. QED
      BY <1>3, <3>2, <3>3, PerformOwn, Numbers
  <2>2. Counted' = Counted
    BY <2>1 DEF Counted
  <2>3. QED
    BY <1>2, <2>2 DEF Abstract!vars, Counted, Wanted
<1>4. CASE command # "add_collection"
  <2>1. request.op = op /\ op = command /\ op # "add_collection"
    BY <1>1, <1>4 DEF IInv, InFlight, Commanded
  <2>2. /\ request.op \in OneRequest /\ request.id \in Ids /\ collections[request.id] # NULL
        /\ collections' = [collections EXCEPT ![request.id] = Changed(@)]
    BY <2>1 DEF Perform, Changed
  <2>3. Counted = collections /\ Counted' = collections'
    BY <1>1, <1>4, <2>2 DEF Counted, Building, IInv, TypeOK
  <2>4. op = "add_movie_to_collection" \/ op = "delete_movie_from_collection" => request.movie \in Movies
    BY <2>1 DEF Perform
  <2>5. SUFFICES ASSUME NEW id \in Ids, id = request.id PROVE Abstract!Change(id)
    BY <2>2 DEF Abstract!Next
  <2>6. QED
    <3>1. CASE op = "add_movie_to_collection"
      BY <1>2, <2>1, <2>2, <2>3, <2>4, <2>5, <3>1 DEF Abstract!Change, Changed, Counted, Wanted
    <3>2. CASE op = "delete_movie_from_collection"
      BY <1>2, <2>1, <2>2, <2>3, <2>4, <2>5, <3>2 DEF Abstract!Change, Changed, Counted, Wanted
    <3>3. CASE op = "delete_collection"
      BY <1>2, <2>1, <2>2, <2>3, <2>5, <3>3 DEF Abstract!Change, Changed, Counted, Wanted
    <3>4. QED
      BY <2>1, <2>2, <3>1, <3>2, <3>3 DEF OneRequest
<1>5. QED
  BY <1>3, <1>4

\* A command begins by asking; only an expired session troubles it at once.
LEMMA AbstractStart ==
  IInv /\ (StartAddCollection \/ \E c \in OneRequest : StartOne(c)) => Abstract!Ask
<1> SUFFICES ASSUME IInv, StartAddCollection \/ \E c \in OneRequest : StartOne(c)
             PROVE  Abstract!Ask
  OBVIOUS
<1>1. pc = "command" /\ own' = NULL /\ UNCHANGED collections
  BY DEF StartAddCollection, StartOne
<1>2. Counted' = Counted
  BY <1>1, Numbers DEF Counted, Building
<1>3. Wanted' \in SUBSET Movies
  BY DEF Wanted
<1>4. trouble' \subseteq trouble
  BY DEF StartAddCollection, StartOne, IInv
<1>5. QED
  BY <1>2, <1>3, <1>4 DEF Abstract!Ask, Counted, Wanted

\* Another movie in place of an id that can be none asks for no less.
LEMMA AbstractAskAgain == IInv /\ AskAgain => Abstract!AskMore
<1> SUFFICES ASSUME IInv, AskAgain PROVE Abstract!AskMore
  OBVIOUS
<1>1. i \in 1 .. Len(movie_ids) /\ movie_ids[i] = ASK
  BY Numbers DEF IInv, TypeOK, Commanded, Movie, AskAgain
<1>2. PICK m \in Movies \cup {UNKNOWN} : movie_ids' = [movie_ids EXCEPT ![i] = m]
  BY DEF AskAgain
<1>3. DOMAIN movie_ids' = DOMAIN movie_ids /\ \A k \in DOMAIN movie_ids : k # i => movie_ids'[k] = movie_ids[k]
  BY <1>2
<1>4. Asked \cap Movies \subseteq Asked' \cap Movies
  BY <1>1, <1>3, Numbers DEF Asked
<1>5. Wanted \subseteq Wanted' /\ Wanted' \in SUBSET Movies
  BY <1>4 DEF Wanted, AskAgain
<1>6. Counted' = Counted /\ UNCHANGED trouble
  BY StillBuilding DEF AskAgain
<1>7. QED
  BY <1>5, <1>6 DEF Abstract!AskMore, Counted, Wanted

\* Every step is a step of Library or changes nothing it knows of.
LEMMA AbstractNext == IInv /\ IInv' /\ [Next]_vars => [Abstract!Next]_(Abstract!vars)
<1> SUFFICES ASSUME IInv, IInv', [Next]_vars PROVE [Abstract!Next]_(Abstract!vars)
  OBVIOUS
<1>1. CASE StartAddCollection \/ \E c \in OneRequest : StartOne(c)
  BY <1>1, AbstractStart DEF Abstract!Next
<1>2. CASE AskAgain
  BY <1>2, AbstractAskAgain DEF Abstract!Next
<1>3. CASE Perform
  BY <1>3, AbstractPerform
<1>4. CASE Receive
  BY <1>4, AbstractReceive
<1>5. CASE Refuse \/ Expire
  <2>1. UNCHANGED <<collections, own, command, pc, movie_ids>> /\ trouble \subseteq trouble'
    BY <1>5 DEF Refuse, Expire, client
  <2>2. Counted' = Counted /\ Wanted' = Wanted
    BY <2>1, StillBuilding DEF Wanted, Asked
  <2>3. QED
    BY <2>1, <2>2 DEF Abstract!Hit, Abstract!Next, Counted, Wanted
<1>6. CASE Send \/ RefuseMovie \/ Renew \/ UNCHANGED vars
  <2>1. UNCHANGED <<collections, own, command, movie_ids, trouble>> /\ (pc = "command" <=> pc' = "command")
    BY <1>6 DEF Send, RefuseMovie, Renew, vars, client
  <2>2. Counted' = Counted /\ Wanted' = Wanted
    BY <2>1, StillBuilding DEF Wanted, Asked
  <2>3. QED
    BY <2>1, <2>2 DEF Abstract!vars, Counted, Wanted
<1>7. QED
  BY <1>1, <1>2, <1>3, <1>4, <1>5, <1>6 DEF Next

\* The requests of the four handlers implement a library in which a new
\* collection appears in one step, with all its movies or, after trouble, with
\* a part of them.
THEOREM ImplementsLibrary == Spec => LibrarySpec
<1>1. Init => Abstract!Init
  BY DEF Init, Abstract!Init, Asked, Building
<1>2. QED
  BY <1>1, AbstractNext, Invariance, PTL DEF Spec, LibrarySpec, Abstract!Spec
=============================================================================
