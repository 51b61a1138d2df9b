---------------------------- MODULE Collections ----------------------------
(***************************************************************************)
(* The collections of the server's library under the four handlers that    *)
(* change them.  add_collection() is a sequence of requests: create the    *)
(* collection, add each movie to the id the server gave it, and, when a    *)
(* movie is refused, delete the collection again.  The other handlers send *)
(* one request.  One exchange is one Send, one step of the server and one  *)
(* Receive.                                                                *)
(***************************************************************************)
EXTENDS Integers, Sequences

CONSTANTS
    Movies,       \* movie ids the user types
    Ids,          \* the ids the server gives to collections
    MaxMovies,    \* the most movies typed into one add_collection (a bound)
    Faults,       \* "expire": the session ends; "opaque": a refusal without JSON
    NULL          \* no collection, no message

ASSUME MoviesAssumption == Movies \subseteq Nat
ASSUME IdsAssumption == Ids \subseteq Nat \ {0}     \* 0 stands for a missing id
ASSUME BoundAssumption == MaxMovies \in Nat
ASSUME FaultsAssumption == Faults \subseteq {"expire", "opaque"}

OneRequest == {"add_movie_to_collection", "delete_movie_from_collection", "delete_collection"}
Operations == OneRequest \cup {"add_collection"}
Request == [op : Operations, id : Nat, movie : Int]
Reply == [status : {"error", "ok", "blank"}, id : Nat]

ASSUME NullAssumption ==
    NULL \notin Ids \cup Request \cup Reply /\ \A movies \in SUBSET Movies : NULL # movies

ASK == -1             \* a negative id, for which another one is asked
UNKNOWN == -2         \* a negative id at the last question, sent as it is
Typed == Movies \cup {ASK, UNKNOWN}

VARIABLES
    pc, command, op,       \* as in SessionClient
    collection_id,
    movie_ids,             \* the ids typed
    i,                     \* movies of movie_ids handed out so far
    outcome,               \* of the command: "none", "SUCCESS" or "ERROR"
    request, reply,        \* in flight, or NULL
    collections,           \* server: the movies of each collection, or NULL
    session,               \* server: does it still accept the cookie and the token?
    own,                   \* the collection this command has created, or NULL
    trouble                \* the faults that have struck since the last command

client == <<pc, command, op, collection_id, movie_ids, i, outcome>>
vars == <<client, request, reply, collections, session, own, trouble>>

Init ==
    /\ pc = "command" /\ command = "add_collection" /\ op = "add_collection"
    /\ collection_id = 0 /\ movie_ids = <<>> /\ i = 0 /\ outcome = "none"
    /\ request = NULL /\ reply = NULL
    /\ collections = [id \in Ids |-> NULL]
    /\ session = TRUE /\ own = NULL /\ trouble = {}

-----------------------------------------------------------------------------
\* Reading a command

StartAddCollection ==
    /\ pc = "command"
    /\ pc' = "send" /\ command' = "add_collection" /\ op' = "add_collection"
    /\ \E n \in 0 .. MaxMovies : movie_ids' \in [1 .. n -> Movies \cup {ASK}]
    /\ collection_id' = 0 /\ i' = 0 /\ outcome' = "none"
    /\ own' = NULL /\ trouble' = IF session THEN {} ELSE {"expire"}
    /\ UNCHANGED <<request, reply, collections, session>>

\* The ids are typed, the last answer for the movie.
StartOne(c) ==
    /\ pc = "command"
    /\ pc' = "send" /\ command' = c /\ op' = c
    /\ collection_id' \in Ids
    /\ \E m \in Movies \cup {UNKNOWN} : movie_ids' = <<m>>
    /\ i' = 1 /\ outcome' = "none"
    /\ own' = NULL /\ trouble' = IF session THEN {} ELSE {"expire"}
    /\ UNCHANGED <<request, reply, collections, session>>

-----------------------------------------------------------------------------
\* Sending

Movie == IF i = 0 THEN 0 ELSE movie_ids[i]

\* Faulty variant: the collection's id and the movie's are exchanged.
SendSwapped ==
    /\ pc = "send"
    /\ ~(op = "add_movie_to_collection" /\ Movie = ASK)
    /\ pc' = "receive"
    /\ request' = [op |-> op, id |-> Movie, movie |-> collection_id]
    /\ UNCHANGED <<command, op, collection_id, movie_ids, i, outcome,
                   reply, collections, session, own, trouble>>

Send ==
    /\ pc = "send"
    /\ ~(op = "add_movie_to_collection" /\ Movie = ASK)
    /\ pc' = "receive"
    /\ request' = [op |-> op, id |-> collection_id, movie |-> Movie]
    /\ UNCHANGED <<command, op, collection_id, movie_ids, i, outcome,
                   reply, collections, session, own, trouble>>

\* add_movie_to_collection() asks again for a negative id, once...
AskAgain ==
    /\ pc = "send" /\ op = "add_movie_to_collection" /\ Movie = ASK
    /\ \E m \in Movies \cup {UNKNOWN} : movie_ids' = [movie_ids EXCEPT ![i] = m]
    /\ UNCHANGED <<pc, command, op, collection_id, i, outcome,
                   request, reply, collections, session, own, trouble>>

\* ... and returns 1 when what it reads is no number.
RefuseMovie ==
    /\ pc = "send" /\ op = "add_movie_to_collection" /\ Movie = ASK
    /\ op' = "delete_collection" /\ outcome' = "ERROR"
    /\ UNCHANGED <<pc, command, collection_id, movie_ids, i,
                   request, reply, collections, session, own, trouble>>

-----------------------------------------------------------------------------
\* The server (external)

Answer(status, id) == request' = NULL /\ reply' = [status |-> status, id |-> id]

Perform ==
    /\ request # NULL /\ session
    /\ \/ /\ request.op = "add_collection"
          /\ \E id \in Ids :
                /\ collections[id] = NULL
                /\ collections' = [collections EXCEPT ![id] = {}]
                /\ own' = id
                /\ Answer("ok", id)
       \/ /\ request.op \in OneRequest /\ request.id \in Ids
          /\ collections[request.id] # NULL
          /\ request.op # "delete_collection" => request.movie \in Movies
          /\ collections' = [collections EXCEPT ![request.id] =
                CASE request.op = "add_movie_to_collection" -> @ \cup {request.movie}
                  [] request.op = "delete_movie_from_collection" -> @ \ {request.movie}
                  [] request.op = "delete_collection" -> NULL]
          /\ Answer("ok", 0)
          /\ UNCHANGED own
    /\ UNCHANGED <<client, session, trouble>>

\* An unknown movie or collection, an expired session, a title in use; but a
\* valid session may delete a collection that is there.
Refuse ==
    /\ request # NULL
    /\ ~ /\ session /\ request.op = "delete_collection"
         /\ request.id \in Ids /\ collections[request.id] # NULL
    /\ \/ Answer("error", 0) /\ UNCHANGED trouble
       \/ "opaque" \in Faults /\ Answer("blank", 0) /\ trouble' = trouble \cup {"opaque"}
    /\ UNCHANGED <<client, collections, session, own>>

Expire ==
    /\ "expire" \in Faults /\ session
    /\ session' = FALSE /\ trouble' = trouble \cup {"expire"}
    /\ UNCHANGED <<client, request, reply, collections, own>>

\* A new login and get_access between two commands.
Renew ==
    /\ pc = "command" /\ ~session
    /\ session' = TRUE
    /\ UNCHANGED <<client, request, reply, collections, own, trouble>>

-----------------------------------------------------------------------------
\* Receiving

Finish(verdict) == pc' = "command" /\ outcome' = verdict /\ UNCHANGED <<op, i>>

\* Faulty variant: the loop ends before the last movie.
NextMovieShort ==
    IF i + 1 < Len(movie_ids)
    THEN pc' = "send" /\ op' = "add_movie_to_collection" /\ i' = i + 1 /\ UNCHANGED outcome
    ELSE Finish("SUCCESS")

\* Faulty variant: "<=" in the loop.
NextMovieLong ==
    IF i <= Len(movie_ids)
    THEN pc' = "send" /\ op' = "add_movie_to_collection" /\ i' = i + 1 /\ UNCHANGED outcome
    ELSE Finish("SUCCESS")

NextMovie ==
    IF i < Len(movie_ids)
    THEN pc' = "send" /\ op' = "add_movie_to_collection" /\ i' = i + 1 /\ UNCHANGED outcome
    ELSE Finish("SUCCESS")

\* Faulty variant: a refused movie is not followed by the deletion.
HandleErrorKeeps == Finish("ERROR") /\ UNCHANGED collection_id

\* A movie is refused within add_collection(): delete what was created.
HandleError ==
    /\ IF command = "add_collection" /\ op = "add_movie_to_collection"
       THEN pc' = "send" /\ op' = "delete_collection" /\ outcome' = "ERROR" /\ UNCHANGED i
       ELSE Finish("ERROR")
    /\ UNCHANGED collection_id

\* The id of a new collection is read from the reply; a missing one is 0.
\* The verdict of the deletion of a refused collection stays an error.
HandleSuccess(r) ==
    /\ collection_id' = IF op = "add_collection" THEN r.id ELSE collection_id
    /\ CASE command = "add_collection" /\ op # "delete_collection" -> NextMovie
         [] command = "add_collection" /\ op = "delete_collection" -> Finish("ERROR")
         [] OTHER -> Finish("SUCCESS")

Receive ==
    /\ pc = "receive" /\ reply # NULL
    /\ IF reply.status = "error" THEN HandleError ELSE HandleSuccess(reply)
    /\ reply' = NULL
    /\ UNCHANGED <<command, movie_ids, request, collections, session, own, trouble>>

-----------------------------------------------------------------------------
Next ==
    \/ StartAddCollection
    \/ \E c \in OneRequest : StartOne(c)
    \/ Send \/ AskAgain \/ RefuseMovie
    \/ Perform \/ Refuse \/ Expire \/ Renew
    \/ Receive

Spec == Init /\ [][Next]_vars

-----------------------------------------------------------------------------
\* Properties

\* Ids stay in the range the server gave or the user typed, and the loop of
\* add_collection never reads behind the movies typed (client.c:771-772).
TypeOK ==
    /\ pc \in {"command", "send", "receive"}
    /\ command \in Operations /\ op \in Operations
    /\ collection_id \in Ids \cup {0}
    /\ movie_ids \in Seq(Typed) /\ i \in 0 .. Len(movie_ids)
    /\ outcome \in {"none", "SUCCESS", "ERROR"}
    /\ request \in Request \cup {NULL} /\ reply \in Reply \cup {NULL}
    /\ collections \in [Ids -> (SUBSET Movies) \cup {NULL}]
    /\ session \in BOOLEAN /\ own \in Ids \cup {NULL}
    /\ trouble \subseteq {"expire", "opaque"}

Asked == {movie_ids[k] : k \in DOMAIN movie_ids}

\* add_collection() is over, with this verdict.
Over(verdict) == pc = "command" /\ command = "add_collection" /\ outcome = verdict

(***************************************************************************)
(* add_collection() is all or nothing, though it is many requests: after a *)
(* success the collection is there with exactly the movies typed, after an *)
(* error it is not there.  Unless the session expired on the way, or the   *)
(* server hid a refusal from check_for_error_and_print().                  *)
(***************************************************************************)
CompleteOrGone ==
    trouble = {} =>
        /\ Over("SUCCESS") => own # NULL /\ collections[own] = Asked
        /\ Over("ERROR") => own = NULL \/ collections[own] = NULL

(***************************************************************************)
(* add_collection() changes no collection but the one it has created,      *)
(* whatever goes wrong: not when it gives up and deletes, and not when the *)
(* reply that should bring the new id holds none.                          *)
(***************************************************************************)
OthersUntouched ==
    [][command = "add_collection" /\ pc # "command" =>
         \A id \in Ids : id # own' => collections'[id] = collections[id]]_vars

(***************************************************************************)
(* The comment of client.c:773: after any error message "the data is       *)
(* invalid, so I delete the collection".  The deletion is one more request *)
(* and can fail like the one before it.                                    *)
(***************************************************************************)
ErrorDeletesCollection == Over("ERROR") => own = NULL \/ collections[own] = NULL

(***************************************************************************)
(* The requests of the four handlers implement the collections of Library, *)
(* in which add_collection is one step: a collection under construction is *)
(* not counted until its command is over.                                  *)
(***************************************************************************)
Building(id) == command = "add_collection" /\ pc # "command" /\ id = own

Abstract == INSTANCE Library WITH
    collections <- [id \in Ids |-> IF Building(id) THEN NULL ELSE collections[id]],
    asked <- IF command = "add_collection" THEN Asked \cap Movies ELSE {}

LibrarySpec == Abstract!Spec

-----------------------------------------------------------------------------
(***************************************************************************)
(* The inductive invariant, in named parts.  CompleteOrGone speaks of the  *)
(* end of add_collection() only; that it holds there depends on what each  *)
(* request and each reply on the way has done to the collection.           *)
(***************************************************************************)
AnsweredOk == reply # NULL /\ reply.status = "ok"

\* One request or one reply is in flight while the client waits, and none
\* otherwise; the request is that of the handler that waits.
InFlight ==
    /\ pc = "receive" <=> request # NULL \/ reply # NULL
    /\ request = NULL \/ reply = NULL
    /\ request # NULL => request = [op |-> op, id |-> collection_id, movie |-> Movie]
    /\ reply # NULL =>
          /\ reply.id = IF op = "add_collection" /\ AnsweredOk THEN own ELSE 0
          /\ reply.status = "blank" => "opaque" \in trouble

\* What a command has in hand: the handlers of one request create nothing,
\* and add_collection() learns the id it owns from the first reply.
Commanded ==
    /\ command # "add_collection" =>
          op = command /\ own = NULL /\ i = 1 /\ Len(movie_ids) = 1 /\ movie_ids[1] # ASK
    /\ command = "add_collection" =>
          /\ op \in {"add_collection", "add_movie_to_collection", "delete_collection"}
          /\ op = "add_collection" => i = 0
          /\ op = "add_movie_to_collection" => i >= 1
          /\ IF op = "add_collection" /\ pc # "command"
             THEN collection_id = 0 /\ (own # NULL <=> AnsweredOk)
             ELSE collection_id = IF own = NULL THEN 0 ELSE own

HandedOut(n) == {movie_ids[k] : k \in 1 .. n}

\* The new collection is there until it is deleted, with no movie that has
\* not been handed out.
OwnContents ==
    own # NULL =>
        /\ op # "delete_collection" => collections[own] # NULL
        /\ collections[own] # NULL => collections[own] \subseteq HandedOut(i)

\* Without trouble the collection keeps step with the loop: every movie
\* answered with a success is in it, and a deletion cannot be refused.
KeepsStep ==
    trouble = {} /\ command = "add_collection" =>
        /\ op = "add_movie_to_collection" =>
              /\ own # NULL
              /\ collections[own] = HandedOut(IF pc = "command" \/ AnsweredOk THEN i ELSE i - 1)
              /\ pc = "command" => outcome = "SUCCESS" /\ i = Len(movie_ids)
        /\ op = "delete_collection" =>
              /\ own # NULL /\ outcome = "ERROR"
              /\ collections[own] = NULL <=> pc = "command" \/ reply # NULL
        /\ op = "add_collection" /\ pc = "command" =>
              /\ outcome = "SUCCESS" => own # NULL /\ movie_ids = <<>>
              /\ outcome = "ERROR" => own = NULL

IInv ==
    /\ TypeOK /\ InFlight /\ Commanded /\ OwnContents /\ KeepsStep
    /\ ~session => "expire" \in trouble
=============================================================================
