----------------------- MODULE SessionClient_proofs -----------------------
(***************************************************************************)
(* Theorems about SessionClient, for every set of sessions and of heap     *)
(* blocks, every bound on the movies and every environment.                *)
(***************************************************************************)
EXTENDS SessionClient, TLAPS

\* The rows of the table the proofs look into: the handler names the control
\* flow mentions are handlers, only get_access asks for a token, with the
\* user's cookie, only the two logins store a cookie, and a logout sends the
\* cookie it clears.
LEMMA Table ==
    /\ {"add_movie_to_collection", "delete_collection"} \subseteq AllCommands
    /\ \A c \in AllCommands : Effect(c) = "store_jwt" => HandlerOf[c].cookie = "user"
    /\ Effect("get_access") = "store_jwt"
    /\ \A c \in AllCommands : Effect(c) \in {"store_admin", "store_user"} => c \in NeedsBody
    /\ \A c \in AllCommands : Effect(c) = "clear_admin" => HandlerOf[c].cookie = "admin"
    /\ \A c \in AllCommands : Effect(c) = "clear_user" => HandlerOf[c].cookie = "user"
  BY DEF NeedsBody, AllCommands, HandlerOf, Effect, Handler, login_admin, add_user, get_users,
         delete_user, login, logout_admin, get_access, get_movies, add_movie, get_movie,
         update_movie, delete_movie, logout, get_collections, get_collection,
         delete_collection, add_movie_to_collection, add_collection,
         delete_movie_from_collection

\* The program starts with null globals, an empty heap and nothing in flight.
LEMMA InitIInv == Init => IInv
<1> SUFFICES ASSUME Init PROVE IInv
  OBVIOUS
<1>1. TypeOK
  <2>1. heap \in [Blocks -> Credential \cup {NULL}] /\ role \in [Sessions -> {"none", "admin", "user"}]
    BY DEF Init
  <2>2. left \in 0 .. MaxMovies
    BY BoundAssumption DEF Init
  <2>3. open \in BOOLEAN /\ performed \in BOOLEAN
    BY DEF Init
  <2>4. QED
    BY <2>1, <2>2, <2>3 DEF Init, TypeOK
<1>2. CredentialSafety
  BY DEF Init, CredentialSafety, Points
<1>3. OneInFlight
  BY DEF Init, OneInFlight
<1>4. TokenKeepsItsCookie
  BY DEF Init, TokenKeepsItsCookie
<1>5. OutcomeIsTrue
  <2>1. printed # {"SUCCESS"}
    BY DEF Init
  <2>2. QED
    BY <2>1 DEF Init, OutcomeIsTrue
<1>6. QED
  BY <1>1, <1>2, <1>3, <1>4, <1>5 DEF IInv

\* A step that leaves the globals, the heap and the roles alone.
LEMMA CredentialsKept ==
  ASSUME CredentialSafety, TokenKeepsItsCookie, UNCHANGED <<globals, heap, role>>
  PROVE  CredentialSafety' /\ TokenKeepsItsCookie'
  BY DEF globals, CredentialSafety, Points, TokenKeepsItsCookie, SessionAt

\* Refused input (client.c:38-41 and its like) touches neither credentials nor messages.
LEMMA RefuseInputStep == \A c \in Commands : IInv /\ RefuseInput(c) => IInv'
<1> SUFFICES ASSUME NEW c \in Commands, IInv, RefuseInput(c) PROVE IInv'
  OBVIOUS
<1> USE DEF IInv, RefuseInput
<1>1. TypeOK'
  BY CommandsAssumption DEF TypeOK, globals
<1>2. CredentialSafety' /\ TokenKeepsItsCookie'
  BY CredentialsKept
<1>3. OneInFlight'
  BY DEF OneInFlight
<1>4. OutcomeIsTrue'
  BY DEF OutcomeIsTrue
<1>5. QED
  BY <1>1, <1>2, <1>3, <1>4

\* A handler that starts sends nothing yet.
LEMMA StartStep == \A c \in Commands : IInv /\ Start(c) => IInv'
<1> SUFFICES ASSUME NEW c \in Commands, IInv, Start(c) PROVE IInv'
  OBVIOUS
<1> USE DEF IInv, Start
<1>1. TypeOK'
  BY CommandsAssumption, BoundAssumption DEF TypeOK, globals, server
<1>2. CredentialSafety' /\ TokenKeepsItsCookie'
  BY CredentialsKept DEF server
<1>3. OneInFlight'
  BY CommandsAssumption DEF OneInFlight, server
<1>4. OutcomeIsTrue'
  BY DEF OutcomeIsTrue, server, Faithful
<1>5. QED
  BY <1>1, <1>2, <1>3, <1>4

\* exit frees the three blocks and nulls the pointers together.
LEMMA ExitStep == IInv /\ Exit => IInv'
<1> SUFFICES ASSUME IInv, Exit PROVE IInv'
  OBVIOUS
<1> USE DEF IInv, Exit
<1>1. TypeOK'
  <2>1. heap' \in [Blocks -> Credential \cup {NULL}]
    BY DEF TypeOK, Freed
  <2>2. QED
    BY <2>1 DEF TypeOK
<1>2. CredentialSafety' /\ TokenKeepsItsCookie'
  BY DEF CredentialSafety, Points, TokenKeepsItsCookie
<1>3. OneInFlight'
  BY DEF OneInFlight
<1>4. OutcomeIsTrue'
  BY DEF OutcomeIsTrue
<1>5. QED
  BY <1>1, <1>2, <1>3, <1>4

\* What a request carries is a session or nobody.
LEMMA RequestType ==
  ASSUME TypeOK, CredentialSafety, NEW c \in AllCommands
  PROVE  RequestOf(c) \in Request
<1> DEFINE Carried(pointer) == SessionAt(pointer) \in Sessions \cup {NULL}
<1>1. \A p \in Blocks \cup {NULL} : (p # NULL => heap[p] # NULL) => Carried(p)
  BY NullAssumption DEF TypeOK, SessionAt, Credential
<1>2. Carried(admin_session_cookie) /\ Carried(user_session_cookie) /\ Carried(jwt_token)
  BY <1>1 DEF TypeOK, CredentialSafety, Points
<1>3. QED
  BY <1>2 DEF RequestOf, Request

\* The request sent is the one the globals stand for at that moment.
LEMMA SendStep == IInv /\ Send => IInv'
<1> SUFFICES ASSUME IInv, Send PROVE IInv'
  OBVIOUS
<1> USE DEF IInv, Send
<1>1. TypeOK'
  <2>1. request' \in Request \cup {NULL}
    BY RequestType DEF OneInFlight
  <2>2. QED
    BY <2>1 DEF TypeOK, globals
<1>2. CredentialSafety' /\ TokenKeepsItsCookie'
  BY CredentialsKept
<1>3. OneInFlight'
  <2>1. RequestOf(op)' = RequestOf(op)
    BY DEF RequestOf, SessionAt, globals
  <2>2. QED
    BY <2>1 DEF OneInFlight
<1>4. OutcomeIsTrue'
  BY DEF OutcomeIsTrue
<1>5. QED
  BY <1>1, <1>2, <1>3, <1>4

\* A movie refused within add_collection only turns to the deletion.
LEMMA RefuseMovieStep == IInv /\ RefuseMovie => IInv'
<1> SUFFICES ASSUME IInv, RefuseMovie PROVE IInv'
  OBVIOUS
<1> USE Table DEF IInv, RefuseMovie
<1>1. TypeOK'
  BY DEF TypeOK, globals
<1>2. CredentialSafety' /\ TokenKeepsItsCookie'
  BY CredentialsKept
<1>3. OneInFlight'
  BY DEF OneInFlight
<1>4. OutcomeIsTrue'
  BY DEF OutcomeIsTrue
<1>5. QED
  BY <1>1, <1>2, <1>3, <1>4

\* Steps that change no credential and nothing an exchange is judged by.
LEMMA QuietStep ==
  ASSUME IInv, SendFails \/ ReceiveReset \/ (\E s \in Sessions : Expire(s)) \/ UNCHANGED vars
  PROVE  IInv'
<1>1. UNCHANGED <<globals, heap, role, command, op, left, printed, open, request, reply, performed>>
  BY DEF SendFails, ReceiveReset, Expire, vars, client, server
<1>2. pc' = pc \/ (pc \in {"send", "receive"} /\ pc' = "died" /\ request = NULL /\ reply = NULL)
  BY DEF SendFails, ReceiveReset, Expire, vars, client, IInv, OneInFlight
<1>3. live' \subseteq live
  BY DEF SendFails, ReceiveReset, Expire, vars, server
<1>4. TypeOK'
  BY <1>1, <1>2, <1>3 DEF IInv, TypeOK, globals
<1>5. CredentialSafety' /\ TokenKeepsItsCookie'
  BY <1>1, CredentialsKept DEF IInv
<1>6. OneInFlight'
  <2>1. RequestOf(op)' = RequestOf(op) /\ (Answers(reply)' <=> Answers(reply))
    BY <1>1 DEF RequestOf, SessionAt, globals, Answers, Faithful
  <2>2. CASE pc' = pc
    <3>1. reply' # NULL => pc' = "receive" /\ request' = NULL /\ Answers(reply)'
      BY <1>1, <2>1, <2>2 DEF IInv, OneInFlight
    <3>2. request' # NULL =>
            /\ open' /\ pc' = "receive" /\ reply' = NULL
            /\ request' = RequestOf(op)' /\ ~performed'
      BY <1>1, <2>1, <2>2 DEF IInv, OneInFlight
    <3>3. open' \/ pc' = "exited" \/ "close" \in Faults
      BY <1>1, <2>2 DEF IInv, OneInFlight
    <3>4. pc' \in {"send", "receive"} => op' \in AllCommands
      BY <1>1, <2>2 DEF IInv, OneInFlight
    <3>5. QED
      BY <3>1, <3>2, <3>3, <3>4 DEF OneInFlight
  <2>3. CASE pc \in {"send", "receive"} /\ pc' = "died" /\ request = NULL /\ reply = NULL
    <3>1. open' \/ pc' = "exited" \/ "close" \in Faults
      BY <1>1, <2>3 DEF IInv, OneInFlight
    <3>2. request' = NULL /\ reply' = NULL
      BY <1>1, <2>3
    <3>3. QED
      BY <2>3, <3>1, <3>2 DEF OneInFlight
  <2>4. QED
    BY <1>2, <2>2, <2>3
<1>7. OutcomeIsTrue'
  BY <1>1, <1>2 DEF IInv, OutcomeIsTrue, Faithful
<1>8. QED
  BY <1>4, <1>5, <1>6, <1>7 DEF IInv

\* A refusal is an error, or blank when the server's refusals cannot be read.
LEMMA RefuseStep == IInv /\ Refuse => IInv'
<1> SUFFICES ASSUME IInv, Refuse PROVE IInv'
  OBVIOUS
<1> USE DEF IInv, Refuse
<1>1. PICK r \in [status : {"error", "blank"}, of : {NULL}] :
        reply' = r /\ (r.status = "blank" => "opaque" \in Faults)
  <2>1. CASE "opaque" \in Faults
    BY <2>1
  <2>2. CASE "opaque" \notin Faults
    BY <2>2
  <2>3. QED
    BY <2>1, <2>2
<1>2. TypeOK'
  BY <1>1 DEF TypeOK, client, globals, Reply
<1>3. CredentialSafety' /\ TokenKeepsItsCookie'
  BY CredentialsKept
<1>4. OneInFlight'
  <2>1. Answers(reply)'
    <3>1. ~performed'
      BY DEF OneInFlight
    <3>2. r.of = NULL /\ r.status # "ok" /\ (r.status = "blank" => ~Faithful)
      BY <1>1 DEF Faithful
    <3>3. QED
      BY <1>1, <3>1, <3>2 DEF Answers, Faithful
  <2>2. QED
    BY <2>1 DEF OneInFlight, client
<1>5. OutcomeIsTrue'
  BY DEF OutcomeIsTrue, client, OneInFlight, Faithful
<1>6. QED
  BY <1>2, <1>3, <1>4, <1>5

\* A closed connection loses messages and changes nothing else.
LEMMA CloseStep == IInv /\ Close => IInv'
<1> SUFFICES ASSUME IInv, Close PROVE IInv'
  OBVIOUS
<1> USE DEF IInv, Close
<1>1. TypeOK'
  BY DEF TypeOK, client, globals
<1>2. CredentialSafety' /\ TokenKeepsItsCookie'
  BY CredentialsKept
<1>3. OneInFlight'
  <2>1. reply' # NULL => Answers(reply)'
    <3>1. SUFFICES ASSUME reply' # NULL PROVE Answers(reply)'
      OBVIOUS
    <3>2. reply' = reply /\ Answers(reply)
      BY <3>1 DEF OneInFlight
    <3>3. QED
      BY <3>2 DEF Answers, client, globals, SessionAt, Faithful
  <2>2. QED
    BY <2>1 DEF OneInFlight, client
<1>4. OutcomeIsTrue'
  BY DEF OutcomeIsTrue, client, Faithful
<1>5. QED
  BY <1>1, <1>2, <1>3, <1>4

\* What the server does for a handler that stores, clears or gets a credential,
\* or does none of these.
LEMMA PerformOutcome ==
  ASSUME IInv, Perform
  PROVE  /\ reply' \in Reply /\ reply'.status = "ok"
         /\ role' \in [Sessions -> {"none", "admin", "user"}]
         /\ live' \subseteq Sessions
         /\ \A s \in Sessions : role[s] # "none" => role'[s] = role[s]
         /\ Effect(op) = "store_admin" => reply'.of \in Sessions /\ role'[reply'.of] = "admin"
         /\ Effect(op) = "store_user" => reply'.of \in Sessions /\ role'[reply'.of] = "user"
         /\ Effect(op) = "store_jwt" => reply'.of \in Sessions /\ reply'.of = request.cookie
<1>1. request # NULL /\ request.op = op /\ request \in Request
  BY DEF Perform, IInv, OneInFlight, RequestOf, TypeOK
<1>2. TypeOK
  BY DEF IInv
<1>3. CASE Effect(op) \in {"store_admin", "store_user"}
  <2>1. PICK s \in Sessions :
          /\ role[s] = "none"
          /\ role' = [role EXCEPT ![s] = IF Effect(op) = "store_admin" THEN "admin" ELSE "user"]
          /\ live' = live \cup {s}
          /\ reply' = [status |-> "ok", of |-> s]
    BY <1>1, <1>3 DEF Perform
  <2>2. QED
    BY <1>2, <1>3, <2>1 DEF TypeOK, Reply
<1>4. CASE Effect(op) \in {"clear_admin", "clear_user"}
  <2>1. /\ live' = live \ {request.cookie}
        /\ reply' = [status |-> "ok", of |-> NULL]
        /\ role' = role
    BY <1>1, <1>4 DEF Perform
  <2>2. QED
    BY <1>2, <1>4, <2>1 DEF TypeOK, Reply
<1>5. CASE Effect(op) = "store_jwt"
  <2>1. /\ reply' = [status |-> "ok", of |-> request.cookie]
        /\ role' = role /\ live' = live
    BY <1>1, <1>5 DEF Perform
  <2>2. request.cookie \in Sessions
    <3>1. op \in AllCommands
      BY <1>1 DEF IInv, OneInFlight
    <3>2. HandlerOf[op].cookie # "none"
      BY <1>5, <3>1, Table
    <3>3. request.cookie \in live
      BY <1>1, <3>2 DEF Perform, Authorised
    <3>4. QED
      BY <1>2, <3>3 DEF TypeOK
  <2>3. QED
    BY <1>2, <1>5, <2>1, <2>2 DEF TypeOK, Reply
<1>6. CASE Effect(op) \notin {"store_admin", "store_user", "clear_admin", "clear_user", "store_jwt"}
  <2>1. /\ reply' = [status |-> "ok", of |-> NULL]
        /\ role' = role /\ live' = live
    BY <1>1, <1>6 DEF Perform
  <2>2. QED
    BY <1>2, <1>6, <2>1 DEF TypeOK, Reply
<1>7. QED
  BY <1>3, <1>4, <1>5, <1>6

\* The server's answer to the request in flight is the one the waiting handler
\* expects: a session it has opened in the handler's role, or the token of the
\* user whose cookie is in hand.
LEMMA PerformStep == IInv /\ Perform => IInv'
<1> SUFFICES ASSUME IInv, Perform PROVE IInv'
  OBVIOUS
<1>1. /\ request # NULL /\ request' = NULL /\ performed' = TRUE
      /\ UNCHANGED <<client, globals, heap, open>>
  BY DEF Perform
<1>2. open /\ pc = "receive" /\ op \in AllCommands /\ request = RequestOf(op)
  BY <1>1 DEF IInv, OneInFlight
<1>3. TypeOK'
  BY <1>1, PerformOutcome DEF IInv, TypeOK, client, globals
<1>4. CredentialSafety'
  <2>1. ASSUME NEW p \in Blocks \cup {NULL}, NEW kind, NEW owner \in {"admin", "user"},
               Points(p, kind, owner)
        PROVE  p # NULL => heap[p] # NULL /\ heap[p].kind = kind /\ role'[heap[p].of] = owner
    <3>1. p # NULL => heap[p].of \in Sessions
      BY <2>1 DEF IInv, TypeOK, Points, Credential
    <3>2. QED
      BY <2>1, <3>1, PerformOutcome DEF Points
  <2>2. QED
    BY <1>1, <2>1 DEF IInv, CredentialSafety, Points, TypeOK, globals
<1>5. TokenKeepsItsCookie'
  BY <1>1 DEF IInv, TokenKeepsItsCookie, SessionAt, globals
<1>6. OneInFlight'
  <2>1. reply'.of # NULL => reply'.status = "ok"
    BY PerformOutcome
  <2>2. Effect(op) = "store_jwt" =>
          user_session_cookie # NULL /\ reply'.of = SessionAt(user_session_cookie)
    <3>1. SUFFICES ASSUME Effect(op) = "store_jwt"
                   PROVE  user_session_cookie # NULL /\ reply'.of = SessionAt(user_session_cookie)
      OBVIOUS
    <3>2. request.cookie = SessionAt(user_session_cookie)
      BY <1>2, <3>1, Table DEF RequestOf
    <3>3. QED
      BY <3>1, <3>2, PerformOutcome, NullAssumption DEF SessionAt
  <2>3. Answers(reply)'
    BY <1>1, <2>1, <2>2, PerformOutcome, NullAssumption
       DEF Answers, client, globals, SessionAt
  <2>4. QED
    BY <1>1, <1>2, <2>3 DEF OneInFlight, client
<1>7. OutcomeIsTrue'
  BY <1>1, <1>2 DEF OutcomeIsTrue, client
<1>8. QED
  BY <1>3, <1>4, <1>5, <1>6, <1>7 DEF IInv

\* What a reply in the hands of a handler tells it, the end of the stream included.
Tells(r) ==
    /\ r \in Reply
    /\ r.of # NULL => r.status = "ok"
    /\ r.status = "ok" => performed
    /\ r.status = "error" => ~performed
    /\ r.status = "blank" => ~Faithful
    /\ r.status = "ok" =>
         /\ Effect(op) = "store_admin" => r.of # NULL /\ role[r.of] = "admin"
         /\ Effect(op) = "store_user" => r.of # NULL /\ role[r.of] = "user"
         /\ Effect(op) = "store_jwt" =>
              user_session_cookie # NULL /\ r.of = SessionAt(user_session_cookie)

Pointer == Blocks \cup {NULL}

\* The part of the invariant that storing or clearing a credential can break.
GlobalsInv ==
    /\ heap \in [Blocks -> Credential \cup {NULL}]
    /\ admin_session_cookie \in Pointer
    /\ user_session_cookie \in Pointer
    /\ jwt_token \in Pointer
    /\ CredentialSafety
    /\ TokenKeepsItsCookie

\* A new credential goes to a free block, so no pointer and no kept cookie
\* is disturbed.
LEMMA StoreKeeps ==
  ASSUME GlobalsInv, NEW r \in Reply, r.of \in Sessions, UNCHANGED role,
         NEW pointer \in {"admin", "user", "jwt"}, Store(pointer, r),
         role[r.of] = IF pointer = "admin" THEN "admin" ELSE "user",
         pointer = "jwt" => user_session_cookie # NULL /\ r.of = SessionAt(user_session_cookie)
  PROVE  GlobalsInv'
<1>1. PICK b \in Blocks :
        /\ heap[b] = NULL
        /\ heap' = [heap EXCEPT ![b] = [kind |-> pointer, of |-> r.of]]
        /\ admin_session_cookie' = IF pointer = "admin" THEN b ELSE admin_session_cookie
        /\ user_session_cookie' = IF pointer = "user" THEN b ELSE user_session_cookie
        /\ jwt_token' = IF pointer = "jwt" THEN b ELSE jwt_token
  BY DEF Store
<1>2. NULL \notin Blocks /\ NULL \notin Credential
  BY NullAssumption
<1>3. [kind |-> pointer, of |-> r.of] \in Credential
  BY DEF Credential
<1>4. /\ heap' \in [Blocks -> Credential \cup {NULL}]
      /\ admin_session_cookie' \in Pointer /\ user_session_cookie' \in Pointer
      /\ jwt_token' \in Pointer
  BY <1>1, <1>3 DEF GlobalsInv, Pointer
<1>5. \A p \in Blocks : heap[p] # NULL => p # b /\ heap'[p] = heap[p]
  BY <1>1 DEF GlobalsInv
<1>6. heap'[b] = [kind |-> pointer, of |-> r.of]
  BY <1>1 DEF GlobalsInv
<1>7. CredentialSafety'
  <2>1. Points(admin_session_cookie, "admin", "admin")'
    BY <1>1, <1>2, <1>3, <1>5, <1>6 DEF GlobalsInv, CredentialSafety, Points, Pointer
  <2>2. Points(user_session_cookie, "user", "user")'
    BY <1>1, <1>2, <1>3, <1>5, <1>6 DEF GlobalsInv, CredentialSafety, Points, Pointer
  <2>3. Points(jwt_token, "jwt", "user")'
    BY <1>1, <1>2, <1>3, <1>5, <1>6 DEF GlobalsInv, CredentialSafety, Points, Pointer
  <2>4. QED
    BY <2>1, <2>2, <2>3 DEF CredentialSafety
<1>8. TokenKeepsItsCookie'
  <2>1. CASE pointer = "jwt"
    <3>1. heap[user_session_cookie] = [kind |-> "user", of |-> r.of]
      <4>1. /\ user_session_cookie \in Blocks /\ heap[user_session_cookie] \in Credential
            /\ heap[user_session_cookie].kind = "user"
            /\ heap[user_session_cookie].of = r.of
        BY <2>1 DEF GlobalsInv, CredentialSafety, Points, Pointer, SessionAt
      <4>2. QED
        BY <4>1 DEF Credential
    <3>2. heap'[user_session_cookie] = [kind |-> "user", of |-> r.of]
      BY <1>2, <1>5, <2>1, <3>1 DEF GlobalsInv, Pointer, Credential
    <3>3. SessionAt(jwt_token)' = r.of
      BY <1>1, <1>2, <1>6, <2>1 DEF SessionAt
    <3>4. user_session_cookie' = user_session_cookie /\ user_session_cookie \in Blocks
      BY <1>1, <2>1 DEF GlobalsInv, Pointer
    <3>5. QED
      BY <2>1, <3>2, <3>3, <3>4 DEF TokenKeepsItsCookie
  <2>2. CASE pointer # "jwt" /\ jwt_token # NULL
    <3>1. jwt_token \in Blocks /\ heap'[jwt_token] = heap[jwt_token] /\ jwt_token' = jwt_token
      BY <1>1, <1>5, <2>2 DEF GlobalsInv, CredentialSafety, Points, Pointer
    <3>2. PICK c \in Blocks : heap[c] = [kind |-> "user", of |-> SessionAt(jwt_token)]
      BY <2>2 DEF GlobalsInv, TokenKeepsItsCookie
    <3>3. heap[c] # NULL
      <4>1. SessionAt(jwt_token) \in Sessions
        BY <2>2, <3>1 DEF GlobalsInv, CredentialSafety, Points, Credential, SessionAt
      <4>2. QED
        BY <1>2, <3>2, <4>1 DEF Credential
    <3>4. heap'[c] = heap[c]
      BY <1>5, <3>3
    <3>5. user_session_cookie' # NULL
      BY <1>1, <1>2, <2>2 DEF GlobalsInv, TokenKeepsItsCookie
    <3>6. SessionAt(jwt_token)' = SessionAt(jwt_token)
      BY <3>1 DEF SessionAt
    <3>7. QED
      BY <3>2, <3>4, <3>5, <3>6 DEF TokenKeepsItsCookie
  <2>3. CASE pointer # "jwt" /\ jwt_token = NULL
    BY <1>1, <2>3 DEF TokenKeepsItsCookie
  <2>4. QED
    BY <2>1, <2>2, <2>3
<1>9. QED
  BY <1>4, <1>7, <1>8 DEF GlobalsInv

\* A logout frees the blocks behind its own globals only.
LEMMA ClearAdminKeeps ==
  ASSUME GlobalsInv, UNCHANGED <<role, user_session_cookie, jwt_token>>,
         heap' = Freed({admin_session_cookie}), admin_session_cookie' = NULL
  PROVE  GlobalsInv'
<1>1. NULL \notin Blocks /\ NULL \notin Credential
  BY NullAssumption
<1>2. \A p \in Blocks : heap[p] # NULL /\ heap[p].kind # "admin" => heap'[p] = heap[p]
  BY <1>1 DEF Freed, GlobalsInv, CredentialSafety, Points
<1>3. heap' \in [Blocks -> Credential \cup {NULL}]
  BY DEF Freed, GlobalsInv
<1>4. /\ user_session_cookie # NULL =>
           user_session_cookie \in Blocks /\ heap'[user_session_cookie] = heap[user_session_cookie]
      /\ jwt_token # NULL => jwt_token \in Blocks /\ heap'[jwt_token] = heap[jwt_token]
  BY <1>2 DEF GlobalsInv, CredentialSafety, Points, Pointer
<1>5. CredentialSafety'
  BY <1>4 DEF GlobalsInv, CredentialSafety, Points
<1>6. TokenKeepsItsCookie'
  <2>1. SUFFICES ASSUME jwt_token # NULL PROVE TokenKeepsItsCookie'
    BY DEF TokenKeepsItsCookie
  <2>2. PICK c \in Blocks : heap[c] = [kind |-> "user", of |-> SessionAt(jwt_token)]
    BY <2>1 DEF GlobalsInv, TokenKeepsItsCookie
  <2>3. SessionAt(jwt_token) \in Sessions
    BY <1>4, <2>1 DEF GlobalsInv, CredentialSafety, Points, Credential, SessionAt
  <2>4. heap[c] # NULL /\ heap[c].kind # "admin"
    BY <1>1, <2>2, <2>3 DEF Credential
  <2>5. SessionAt(jwt_token)' = SessionAt(jwt_token)
    BY <1>4, <2>1 DEF SessionAt
  <2>6. user_session_cookie' # NULL
    BY <2>1 DEF GlobalsInv, TokenKeepsItsCookie
  <2>7. heap'[c] = [kind |-> "user", of |-> SessionAt(jwt_token)']
    BY <1>2, <2>2, <2>4, <2>5
  <2>8. QED
    BY <2>6, <2>7 DEF TokenKeepsItsCookie
<1>7. QED
  BY <1>3, <1>5, <1>6 DEF GlobalsInv, Pointer

\* logout drops the cookie and the token together.
LEMMA ClearUserKeeps ==
  ASSUME GlobalsInv, UNCHANGED <<role, admin_session_cookie>>,
         heap' = Freed({user_session_cookie, jwt_token}),
         user_session_cookie' = NULL, jwt_token' = NULL
  PROVE  GlobalsInv'
<1>1. heap' \in [Blocks -> Credential \cup {NULL}]
  BY DEF Freed, GlobalsInv
<1>2. admin_session_cookie # NULL =>
        admin_session_cookie \in Blocks /\ heap'[admin_session_cookie] = heap[admin_session_cookie]
  BY DEF Freed, GlobalsInv, CredentialSafety, Points, Pointer
<1>3. CredentialSafety'
  BY <1>2 DEF GlobalsInv, CredentialSafety, Points
<1>4. TokenKeepsItsCookie'
  BY DEF TokenKeepsItsCookie
<1>5. QED
  BY <1>1, <1>3, <1>4 DEF GlobalsInv, Pointer

\* Whatever a handler does with a reply that answers it, the globals stay safe.
LEMMA StoreCredentialKeeps ==
  ASSUME GlobalsInv, op \in AllCommands, NEW r, Tells(r), UNCHANGED role,
         r.status = "ok" \/ (r.status = "blank" /\ op \notin NeedsBody),
         StoreCredential(r)
  PROVE  GlobalsInv'
<1>1. r \in Reply
  BY DEF Tells
<1>2. CASE Effect(op) = "store_admin"
  <2>1. r.of \in Sessions /\ role[r.of] = "admin"
    BY <1>1, <1>2, Table DEF Tells, Reply
  <2>2. Store("admin", r)
    BY <1>2 DEF StoreCredential
  <2>3. QED
    BY <1>1, <2>1, <2>2, StoreKeeps
<1>3. CASE Effect(op) = "store_user"
  <2>1. r.of \in Sessions /\ role[r.of] = "user"
    BY <1>1, <1>3, Table DEF Tells, Reply
  <2>2. Store("user", r)
    BY <1>3 DEF StoreCredential
  <2>3. QED
    BY <1>1, <2>1, <2>2, StoreKeeps
<1>4. CASE Effect(op) = "store_jwt" /\ r.of # NULL
  <2>1. user_session_cookie # NULL /\ r.of = SessionAt(user_session_cookie) /\ r.of \in Sessions
    BY <1>1, <1>4 DEF Tells, Reply
  <2>2. role[r.of] = "user"
    BY <2>1 DEF GlobalsInv, CredentialSafety, Points, SessionAt
  <2>3. Store("jwt", r)
    BY <1>4 DEF StoreCredential
  <2>4. QED
    BY <1>1, <2>1, <2>2, <2>3, StoreKeeps
<1>5. CASE Effect(op) = "store_jwt" /\ r.of = NULL
  <2>1. jwt_token' = NULL /\ UNCHANGED <<admin_session_cookie, user_session_cookie, heap>>
    BY <1>5 DEF StoreCredential
  <2>2. QED
    BY <2>1 DEF GlobalsInv, CredentialSafety, Points, TokenKeepsItsCookie, Pointer
<1>6. CASE Effect(op) = "clear_admin"
  BY <1>6, ClearAdminKeeps DEF StoreCredential
<1>7. CASE Effect(op) = "clear_user"
  BY <1>7, ClearUserKeeps DEF StoreCredential
<1>8. CASE Effect(op) \notin {"store_admin", "store_user", "store_jwt", "clear_admin", "clear_user"}
  <2>1. UNCHANGED <<globals, heap>>
    BY <1>8 DEF StoreCredential
  <2>2. QED
    BY <2>1, CredentialsKept DEF GlobalsInv, globals, Pointer
<1>9. QED
  BY <1>2, <1>3, <1>4, <1>5, <1>6, <1>7, <1>8

\* Handling a reply that answers the waiting handler keeps the invariant,
\* whether the reply came from the server or from the end of the stream.
LEMMA HandleReplyStep ==
  ASSUME IInv, pc = "receive", NEW r, Tells(r), HandleReply(r),
         UNCHANGED <<command, open, role, live, performed>>, request' = NULL, reply' = NULL
  PROVE  IInv'
<1>1. op \in AllCommands /\ GlobalsInv
  BY DEF IInv, OneInFlight, GlobalsInv, TypeOK, Pointer
<1>2. GlobalsInv'
  <2>1. CASE UNCHANGED <<globals, heap>>
    BY <1>1, <2>1, CredentialsKept DEF GlobalsInv, globals, Pointer
  <2>2. CASE /\ r.status = "ok" \/ (r.status = "blank" /\ op \notin NeedsBody)
             /\ StoreCredential(r)
    BY <1>1, <2>2, StoreCredentialKeeps
  <2>3. QED
    BY <2>1, <2>2 DEF HandleReply
<1>3. /\ pc' \in {"command", "send", "died"}
      /\ op' \in AllCommands
      /\ left' \in 0 .. MaxMovies
  <2>1. left \in 0 .. MaxMovies /\ (left > 0 => left - 1 \in 0 .. MaxMovies)
    BY BoundAssumption DEF IInv, TypeOK
  <2>2. AfterSuccess \/ AfterError \/ (pc' = "died" /\ UNCHANGED <<op, left>>)
    BY DEF HandleReply
  <2>3. QED
    BY <1>1, <2>1, <2>2, Table DEF AfterSuccess, AfterError
<1>4. printed' \subseteq {"SUCCESS", "ERROR"}
  <2>1. Announced \subseteq {"SUCCESS", "ERROR"}
    BY DEF Announced
  <2>2. PrintedOnSuccess(r) \subseteq {"SUCCESS", "ERROR"}
    BY DEF PrintedOnSuccess
  <2>3. QED
    BY <2>1, <2>2 DEF HandleReply, IInv, TypeOK
<1>5. TypeOK'
  BY <1>2, <1>3, <1>4 DEF IInv, TypeOK, GlobalsInv, Pointer
<1>6. OneInFlight'
  BY <1>3 DEF IInv, OneInFlight
<1>7. OutcomeIsTrue'
  <2>1. SUFFICES ASSUME Faithful, pc' \in {"command", "send"}
                 PROVE  /\ performed => "ERROR" \notin printed'
                        /\ printed' = {"SUCCESS"} => performed
    BY DEF OutcomeIsTrue, Faithful
  <2>2. r.status # "blank"
    BY <2>1 DEF Tells
  <2>3. CASE r.status = "error"
    BY <2>3 DEF Tells, HandleReply
  <2>4. CASE r.status = "ok"
    <3>1. performed
      BY <2>4 DEF Tells
    <3>2. op = "get_access" => r.of # NULL
      <4>1. SUFFICES ASSUME op = "get_access" PROVE r.of \in Sessions
        BY NullAssumption
      <4>2. user_session_cookie # NULL /\ r.of = SessionAt(user_session_cookie)
        BY <2>4, <4>1, Table DEF Tells
      <4>3. QED
        BY <1>1, <4>2 DEF SessionAt, GlobalsInv, CredentialSafety, Points, Pointer, Credential
    <3>3. "ERROR" \notin PrintedOnSuccess(r)
      BY <3>2 DEF PrintedOnSuccess
    <3>4. "ERROR" \notin printed'
      BY <2>4, <3>3 DEF HandleReply, Announced
    <3>5. QED
      BY <3>1, <3>4
  <2>5. QED
    BY <2>2, <2>3, <2>4 DEF Tells, Reply
<1>8. QED
  BY <1>2, <1>5, <1>6, <1>7 DEF IInv, GlobalsInv

\* The reply in flight answers the handler that waits.
LEMMA ReceiveStep == IInv /\ Receive => IInv'
<1> SUFFICES ASSUME IInv, Receive PROVE IInv'
  OBVIOUS
<1>1. Tells(reply)
  BY DEF Receive, IInv, TypeOK, OneInFlight, Answers, Tells
<1>2. request = NULL
  BY DEF Receive, IInv, OneInFlight
<1>3. QED
  BY <1>1, <1>2, HandleReplyStep DEF Receive

\* The empty string read at the end of the stream is a blank reply.
LEMMA ReceiveEofStep == IInv /\ ReceiveEof => IInv'
<1> SUFFICES ASSUME IInv, ReceiveEof PROVE IInv'
  OBVIOUS
<1> DEFINE r == [status |-> "blank", of |-> NULL]
<1>1. "close" \in Faults /\ request = NULL
  BY DEF ReceiveEof, IInv, OneInFlight
<1>2. Tells(r)
  BY <1>1 DEF Tells, Reply, Faithful
<1>3. QED
  BY <1>1, <1>2, HandleReplyStep DEF ReceiveEof, server

\* Every step keeps the invariant.
LEMMA NextIInv == IInv /\ [Next]_vars => IInv'
  BY RefuseInputStep, StartStep, ExitStep, SendStep, RefuseMovieStep, QuietStep, RefuseStep,
     PerformStep, CloseStep, ReceiveStep, ReceiveEofStep DEF Next, Ended

\* The inductive invariant holds in every reachable state, for any sets of
\* sessions, blocks and commands, any number of movies and any faults.
THEOREM Invariance == Spec => []IInv
<1>1. QED
  BY InitIInv, NextIInv, PTL DEF Spec

\* Every variable stays in its type: in particular the count of movies that
\* add_collection has still to add never falls below 0.
THEOREM TypeCorrect == Spec => []TypeOK
<1>1. IInv => TypeOK
  BY DEF IInv
<1>2. QED
  BY <1>1, Invariance, PTL

\* Whatever the user types and the server answers, a global is null or points
\* to an allocated block with a credential of its own kind.
THEOREM CredentialsSafe == Spec => []CredentialSafety
<1>1. IInv => CredentialSafety
  BY DEF IInv
<1>2. QED
  BY <1>1, Invariance, PTL

\* The token's own cookie is in memory as long as the token is.
THEOREM TokenWithCookie == Spec => []TokenKeepsItsCookie
<1>1. IInv => TokenKeepsItsCookie
  BY DEF IInv
<1>2. QED
  BY <1>1, Invariance, PTL

\* With a server whose refusals can be read and that keeps the connection, the
\* message printed for an exchange tells whether the server executed it.
THEOREM OutcomesTrue == Spec => []OutcomeIsTrue
<1>1. IInv => OutcomeIsTrue
  BY DEF IInv
<1>2. QED
  BY <1>1, Invariance, PTL
-----------------------------------------------------------------------------
\* SessionClient implements Credentials.

\* An allocated block keeps its session when another block is written.
LEMMA AbstractStore ==
  ASSUME GlobalsInv, NEW r \in Reply, r.of \in Sessions,
         NEW pointer \in {"admin", "user", "jwt"}, Store(pointer, r)
  PROVE  /\ pointer = "admin" => Abstract!LoginAdmin(r.of)
         /\ pointer = "user" => Abstract!Login(r.of)
         /\ pointer = "jwt" /\ user_session_cookie # NULL
              /\ r.of = SessionAt(user_session_cookie) => Abstract!GetAccess
<1>1. PICK b \in Blocks :
        /\ heap[b] = NULL
        /\ heap' = [heap EXCEPT ![b] = [kind |-> pointer, of |-> r.of]]
        /\ admin_session_cookie' = IF pointer = "admin" THEN b ELSE admin_session_cookie
        /\ user_session_cookie' = IF pointer = "user" THEN b ELSE user_session_cookie
        /\ jwt_token' = IF pointer = "jwt" THEN b ELSE jwt_token
  BY DEF Store
<1>2. b # NULL /\ heap'[b].of = r.of
  BY <1>1, NullAssumption DEF GlobalsInv
<1>3. /\ pointer # "admin" => SessionAt(admin_session_cookie)' = SessionAt(admin_session_cookie)
      /\ pointer # "user" => SessionAt(user_session_cookie)' = SessionAt(user_session_cookie)
      /\ pointer # "jwt" => SessionAt(jwt_token)' = SessionAt(jwt_token)
  BY <1>1 DEF GlobalsInv, CredentialSafety, Points, Pointer, SessionAt
<1>4. /\ pointer = "admin" => SessionAt(admin_session_cookie)' = r.of
      /\ pointer = "user" => SessionAt(user_session_cookie)' = r.of
      /\ pointer = "jwt" => SessionAt(jwt_token)' = r.of
  BY <1>1, <1>2 DEF SessionAt
<1>5. r.of # NULL
  BY NullAssumption
<1>6. QED
  BY <1>3, <1>4, <1>5 DEF Abstract!LoginAdmin, Abstract!Login, Abstract!GetAccess

\* A step that leaves the globals, and what they point to, is no step of
\* Credentials.
LEMMA AbstractStutter ==
  ASSUME UNCHANGED <<globals, heap>>
  PROVE  UNCHANGED Abstract!vars
  BY DEF Abstract!vars, globals, SessionAt

\* Handling a reply is the step of Credentials that the handler stands for.
LEMMA AbstractHandle ==
  ASSUME GlobalsInv, op \in AllCommands, NEW r, Tells(r), HandleReply(r)
  PROVE  [Abstract!Next]_(Abstract!vars)
<1>1. CASE UNCHANGED <<globals, heap>>
  BY <1>1, AbstractStutter
<1>2. CASE /\ r.status = "ok" \/ (r.status = "blank" /\ op \notin NeedsBody)
           /\ StoreCredential(r)
  <2>1. r \in Reply
    BY DEF Tells
  <2>2. CASE Effect(op) \in {"store_admin", "store_user"}
    <3>1. r.of \in Sessions
      BY <1>2, <2>1, <2>2, Table DEF Tells, Reply
    <3>2. (Effect(op) = "store_admin" /\ Store("admin", r)) \/ (Effect(op) = "store_user" /\ Store("user", r))
      BY <1>2, <2>2 DEF StoreCredential
    <3>3. Abstract!LoginAdmin(r.of) \/ Abstract!Login(r.of)
      BY <2>1, <3>1, <3>2, AbstractStore
    <3>4. QED
      BY <3>1, <3>3 DEF Abstract!Next
  <2>3. CASE Effect(op) = "store_jwt" /\ r.of # NULL
    <3>1. /\ user_session_cookie # NULL /\ r.of = SessionAt(user_session_cookie)
          /\ r.of \in Sessions
      BY <2>1, <2>3 DEF Tells, Reply
    <3>2. Store("jwt", r)
      BY <1>2, <2>3 DEF StoreCredential
    <3>3. Abstract!GetAccess
      BY <2>1, <3>1, <3>2, AbstractStore
    <3>4. QED
      BY <3>3 DEF Abstract!Next
  <2>4. CASE Effect(op) = "store_jwt" /\ r.of = NULL
    <3>1. jwt_token' = NULL /\ UNCHANGED <<admin_session_cookie, user_session_cookie, heap>>
      BY <1>2, <2>4 DEF StoreCredential
    <3>2. ~Faithful
      <4>1. ASSUME r.status = "ok" PROVE FALSE
        <5>1. user_session_cookie # NULL /\ SessionAt(user_session_cookie) = NULL
          BY <2>4, <4>1 DEF Tells
        <5>2. SessionAt(user_session_cookie) \in Sessions
          BY <5>1 DEF GlobalsInv, CredentialSafety, Points, Pointer, Credential, SessionAt
        <5>3. QED
          BY <5>1, <5>2, NullAssumption
      <4>2. QED
        BY <1>2, <4>1 DEF Tells
    <3>3. Abstract!LoseAccess
      BY <3>1, <3>2 DEF Abstract!LoseAccess, SessionAt
    <3>4. QED
      BY <3>3 DEF Abstract!Next
  <2>5. CASE Effect(op) = "clear_admin"
    <3>1. /\ heap' = Freed({admin_session_cookie}) /\ admin_session_cookie' = NULL
          /\ UNCHANGED <<user_session_cookie, jwt_token>>
      BY <1>2, <2>5 DEF StoreCredential
    <3>2. Abstract!LogoutAdmin
      BY <3>1 DEF Abstract!LogoutAdmin, SessionAt, Freed, GlobalsInv, CredentialSafety, Points,
                  Pointer
    <3>3. QED
      BY <3>2 DEF Abstract!Next
  <2>6. CASE Effect(op) = "clear_user"
    <3>1. /\ heap' = Freed({user_session_cookie, jwt_token})
          /\ user_session_cookie' = NULL /\ jwt_token' = NULL
          /\ UNCHANGED admin_session_cookie
      BY <1>2, <2>6 DEF StoreCredential
    <3>2. Abstract!Logout
      BY <3>1 DEF Abstract!Logout, SessionAt, Freed, GlobalsInv, CredentialSafety, Points, Pointer
    <3>3. QED
      BY <3>2 DEF Abstract!Next
  <2>7. CASE Effect(op) \notin {"store_admin", "store_user", "store_jwt", "clear_admin", "clear_user"}
    BY <1>2, <2>7, AbstractStutter DEF StoreCredential
  <2>8. QED
    BY <2>2, <2>3, <2>4, <2>5, <2>6, <2>7
<1>3. QED
  BY <1>1, <1>2 DEF HandleReply

\* Every step is a step of Credentials or changes no credential.
LEMMA AbstractNext == IInv /\ [Next]_vars => [Abstract!Next]_(Abstract!vars)
<1> SUFFICES ASSUME IInv, [Next]_vars PROVE [Abstract!Next]_(Abstract!vars)
  OBVIOUS
<1>1. CASE Exit
  BY <1>1 DEF Exit, Abstract!Exit, Abstract!Next, SessionAt
<1>2. CASE Receive \/ ReceiveEof
  <2>1. GlobalsInv /\ op \in AllCommands
    BY <1>2 DEF IInv, TypeOK, GlobalsInv, Pointer, OneInFlight, Receive, ReceiveEof
  <2>2. CASE Receive
    <3>1. Tells(reply)
      BY <2>2 DEF Receive, IInv, TypeOK, OneInFlight, Answers, Tells
    <3>2. QED
      BY <2>1, <2>2, <3>1, AbstractHandle DEF Receive
  <2>3. CASE ReceiveEof
    <3>1. Tells([status |-> "blank", of |-> NULL])
      BY <2>3 DEF ReceiveEof, IInv, OneInFlight, Tells, Reply, Faithful
    <3>2. QED
      BY <2>1, <2>3, <3>1, AbstractHandle DEF ReceiveEof
  <2>4. QED
    BY <1>2, <2>2, <2>3
<1>3. CASE UNCHANGED <<globals, heap>>
  BY <1>3, AbstractStutter
<1>4. QED
  BY <1>1, <1>2, <1>3
     DEF Next, vars, RefuseInput, Start, Send, SendFails, RefuseMovie, Perform, Refuse, Expire,
         Close, ReceiveReset, Ended

\* The pointers and the heap implement the three credentials of Credentials:
\* a credential changes only by its own login, logout or get_access, or at
\* exit, and a token is always that of the user whose cookie is in hand.
THEOREM ImplementsCredentials == Spec => CredentialsSpec
<1>1. Init => Abstract!Init
  BY DEF Init, Abstract!Init, SessionAt
<1>2. QED
  BY <1>1, AbstractNext, Invariance, PTL DEF Spec, CredentialsSpec, Abstract!Spec
-----------------------------------------------------------------------------
\* Live sessions and their cookies.

\* Nothing is live at the start.
LEMMA InitLiveInv == Init => LiveInv
  BY DEF Init, LiveInv, Confirms, BringsCookie

\* A step that leaves the credentials alone, ends no handler's wait and opens
\* no session: at most sessions end or a refusal arrives.
LEMMA LiveKept ==
  ASSUME LiveInv, UNCHANGED <<globals, heap, role>>, pc' = "exited" <=> pc = "exited",
         live' \subseteq live, Faults = {} => live' = live,
         \/ reply' = reply /\ (reply # NULL => op' = op)
         \/ reply = NULL /\ reply'.of = NULL /\ reply'.status # "ok"
         \/ reply' = NULL /\ ~Faithful
  PROVE  LiveInv'
<1> USE DEF LiveInv, globals
<1>1. UNCHANGED <<SessionAt(admin_session_cookie), SessionAt(user_session_cookie)>>
      /\ \A s \in live : InMemory(s)' <=> InMemory(s)
  BY DEF SessionAt, InMemory
<1>2. Faults = {} => Faithful
  BY DEF Faithful
<1>3. CASE reply' = reply /\ (reply # NULL => op' = op)
  <2>1. (BringsCookie' <=> BringsCookie) /\ \A e \in {"clear_admin", "clear_user"} : Confirms(e)' <=> Confirms(e)
    BY <1>3 DEF BringsCookie, Confirms
  <2>2. QED
    BY <1>1, <1>3, <2>1 DEF Faithful
<1>4. CASE reply = NULL /\ reply'.of = NULL /\ reply'.status # "ok"
  <2>1. ~BringsCookie /\ \A e \in {"clear_admin", "clear_user"} : ~Confirms(e)' /\ ~Confirms(e)
    BY <1>4 DEF BringsCookie, Confirms
  <2>2. QED
    BY <1>1, <1>4, <2>1 DEF Faithful
<1>5. CASE reply' = NULL /\ ~Faithful
  <2>1. ~BringsCookie' /\ \A e \in {"clear_admin", "clear_user"} : ~Confirms(e)'
    BY <1>5 DEF BringsCookie, Confirms
  <2>2. QED
    BY <1>1, <1>2, <1>5, <2>1 DEF Faithful
<1>6. QED
  BY <1>3, <1>4, <1>5

\* A login opens a session and its reply brings the cookie; a logout closes
\* the session of the cookie it was sent with, and no other.
LEMMA PerformLive == IInv /\ LiveInv /\ Perform => LiveInv'
<1> SUFFICES ASSUME IInv, LiveInv, Perform PROVE LiveInv'
  OBVIOUS
<1> USE DEF LiveInv
<1>1. /\ request # NULL /\ pc = "receive" /\ reply = NULL /\ op \in AllCommands
      /\ request = RequestOf(op) /\ request.op = op
      /\ UNCHANGED <<client, globals, heap, open>>
  BY DEF Perform, IInv, OneInFlight, RequestOf
<1>2. UNCHANGED <<SessionAt(admin_session_cookie), SessionAt(user_session_cookie), op, pc,
                  admin_session_cookie, user_session_cookie>>
  BY <1>1 DEF SessionAt, globals, client
<1>3. ~BringsCookie /\ \A e \in {"clear_admin", "clear_user"} : ~Confirms(e)
  BY <1>1 DEF BringsCookie, Confirms
<1>4. \A s \in live : s \in Sessions /\ role'[s] = role[s]
  BY PerformOutcome DEF IInv, TypeOK
<1>5. \A s \in live : InMemory(s) => InMemory(s)'
  BY <1>1, <1>4 DEF InMemory
<1>6. Effect(op)' = Effect(op)
  BY <1>2
<1>7. reply'.status = "ok" /\ reply' # NULL
  BY PerformOutcome, NullAssumption
<1>8. CASE Effect(op) \in {"store_admin", "store_user"}
  <2>1. PICK s \in Sessions : live' = live \cup {s} /\ reply'.of = s
    BY <1>1, <1>8 DEF Perform
  <2>2. role'[s] # "none"
    BY <1>8, <2>1, PerformOutcome
  <2>3. BringsCookie' /\ \A e \in {"clear_admin", "clear_user"} : ~Confirms(e)'
    BY <1>6, <1>7, <1>8 DEF BringsCookie, Confirms
  <2>4. QED
    BY <1>2, <1>3, <1>4, <1>5, <2>1, <2>2, <2>3 DEF Faithful
<1>9. CASE Effect(op) \in {"clear_admin", "clear_user"}
  <2>1. live' = live \ {request.cookie} /\ role' = role /\ request.cookie \in live
    <3>1. live' = live \ {request.cookie} /\ role' = role
      BY <1>1, <1>9 DEF Perform
    <3>2. HandlerOf[op].cookie # "none"
      BY <1>1, <1>9, Table
    <3>3. QED
      BY <1>1, <3>1, <3>2 DEF Perform, Authorised
  <2>2. ~BringsCookie'
    BY <1>6, <1>9 DEF BringsCookie
  <2>3. CASE Effect(op) = "clear_admin"
    <3>1. request.cookie = SessionAt(admin_session_cookie)
      BY <1>1, <2>3, Table DEF RequestOf
    <3>2. Confirms("clear_admin")' /\ ~Confirms("clear_user")'
      BY <1>6, <1>7, <2>3 DEF Confirms
    <3>3. user_session_cookie # NULL => SessionAt(user_session_cookie) # request.cookie
      <4>1. request.cookie # NULL
        BY <2>1, <1>4, NullAssumption
      <4>2. role[request.cookie] = "admin"
        BY <3>1, <4>1 DEF SessionAt, IInv, CredentialSafety, Points
      <4>3. user_session_cookie # NULL => role[SessionAt(user_session_cookie)] = "user"
        BY DEF SessionAt, IInv, CredentialSafety, Points
      <4>4. QED
        BY <4>2, <4>3
    <3>4. QED
      BY <1>2, <1>3, <1>5, <2>1, <2>2, <3>1, <3>2, <3>3 DEF Faithful
  <2>4. CASE Effect(op) = "clear_user"
    <3>1. request.cookie = SessionAt(user_session_cookie)
      BY <1>1, <2>4, Table DEF RequestOf
    <3>2. Confirms("clear_user")' /\ ~Confirms("clear_admin")'
      BY <1>6, <1>7, <2>4 DEF Confirms
    <3>3. admin_session_cookie # NULL => SessionAt(admin_session_cookie) # request.cookie
      <4>1. request.cookie # NULL
        BY <2>1, <1>4, NullAssumption
      <4>2. role[request.cookie] = "user"
        BY <3>1, <4>1 DEF SessionAt, IInv, CredentialSafety, Points
      <4>3. admin_session_cookie # NULL => role[SessionAt(admin_session_cookie)] = "admin"
        BY DEF SessionAt, IInv, CredentialSafety, Points
      <4>4. QED
        BY <4>2, <4>3
    <3>4. QED
      BY <1>2, <1>3, <1>5, <2>1, <2>2, <3>1, <3>2, <3>3 DEF Faithful
  <2>5. QED
    BY <1>9, <2>3, <2>4
<1>10. CASE Effect(op) \notin {"store_admin", "store_user", "clear_admin", "clear_user"}
  <2>1. live' = live /\ role' = role
    BY <1>1, <1>10 DEF Perform
  <2>2. ~BringsCookie' /\ \A e \in {"clear_admin", "clear_user"} : ~Confirms(e)'
    BY <1>6, <1>10 DEF BringsCookie, Confirms
  <2>3. QED
    BY <1>2, <1>3, <1>5, <2>1, <2>2 DEF Faithful
<1>11. QED
  BY <1>8, <1>9, <1>10

\* What storing a credential does to the cookies and the blocks.
LEMMA StoreEffect ==
  ASSUME GlobalsInv, NEW r \in Reply, r.of \in Sessions,
         NEW pointer \in {"admin", "user", "jwt"}, Store(pointer, r)
  PROVE  /\ IF pointer = "admin"
            THEN SessionAt(admin_session_cookie)' = r.of
            ELSE UNCHANGED <<admin_session_cookie, SessionAt(admin_session_cookie)>>
         /\ IF pointer = "user"
            THEN SessionAt(user_session_cookie)' = r.of
            ELSE UNCHANGED <<user_session_cookie, SessionAt(user_session_cookie)>>
         /\ \A b \in Blocks : heap[b] # NULL => heap'[b] = heap[b]
<1>1. PICK b \in Blocks :
        /\ heap[b] = NULL
        /\ heap' = [heap EXCEPT ![b] = [kind |-> pointer, of |-> r.of]]
        /\ admin_session_cookie' = IF pointer = "admin" THEN b ELSE admin_session_cookie
        /\ user_session_cookie' = IF pointer = "user" THEN b ELSE user_session_cookie
        /\ jwt_token' = IF pointer = "jwt" THEN b ELSE jwt_token
  BY DEF Store
<1>2. b # NULL /\ heap'[b] = [kind |-> pointer, of |-> r.of]
      /\ \A c \in Blocks : heap[c] # NULL => heap'[c] = heap[c]
  BY <1>1, NullAssumption DEF GlobalsInv
<1>3. /\ admin_session_cookie # NULL => admin_session_cookie \in Blocks /\ heap[admin_session_cookie] # NULL
      /\ user_session_cookie # NULL => user_session_cookie \in Blocks /\ heap[user_session_cookie] # NULL
  BY DEF GlobalsInv, CredentialSafety, Points, Pointer
<1>4. QED
  BY <1>1, <1>2, <1>3 DEF SessionAt

\* Handling a success: the cookie of a new session reaches the heap, and a
\* cookie leaves the heap only when its session is closed.
LEMMA StoreCredentialLive ==
  ASSUME IInv, LiveInv, Tells(reply), reply # NULL, reply.status = "ok", op \in AllCommands,
         StoreCredential(reply), reply' = NULL, UNCHANGED <<role, live>>,
         pc # "exited"
  PROVE  LiveInv'
<1> USE DEF LiveInv
<1>1. GlobalsInv /\ reply \in Reply
  BY DEF IInv, TypeOK, GlobalsInv, Pointer, Tells
<1>2. ~BringsCookie' /\ \A e \in {"clear_admin", "clear_user"} : ~Confirms(e)'
  BY DEF BringsCookie, Confirms
<1>3. \A s \in live : role[s] \in {"admin", "user"} /\ [kind |-> role[s], of |-> s] # NULL
  <2>1. \A s \in live : role[s] \in {"admin", "user"} /\ s \in Sessions
    BY DEF IInv, TypeOK
  <2>2. \A s \in live : [kind |-> role[s], of |-> s] \in Credential
    BY <2>1 DEF Credential
  <2>3. QED
    BY <2>1, <2>2, NullAssumption
<1>4. CASE Effect(op) \in {"store_admin", "store_user"}
  <2>1. reply.of \in Sessions /\ role[reply.of] = IF Effect(op) = "store_admin" THEN "admin" ELSE "user"
    BY <1>1, <1>4 DEF Tells, Reply
  <2>2. PICK pointer \in {"admin", "user"} : Store(pointer, reply) /\ role[reply.of] = pointer
    BY <1>4, <2>1 DEF StoreCredential
  <2>3. \A s \in live : InMemory(s) \/ reply.of = s => InMemory(s)'
    <3>1. \A s \in live : InMemory(s) => InMemory(s)'
      BY <1>1, <1>3, <2>1, <2>2, StoreEffect DEF InMemory
    <3>2. \A s \in live : reply.of = s => InMemory(s)'
      <4>1. PICK b \in Blocks : heap'[b] = [kind |-> pointer, of |-> reply.of]
        BY <1>1, <2>2 DEF Store, GlobalsInv
      <4>2. SUFFICES ASSUME NEW s \in live, reply.of = s PROVE heap'[b] = [kind |-> role'[s], of |-> s]
        BY DEF InMemory
      <4>3. role'[s] = pointer
        BY <2>2, <4>2
      <4>4. QED
        BY <4>1, <4>2, <4>3
    <3>3. QED
      BY <3>1, <3>2
  <2>4. BringsCookie /\ reply.of # NULL /\ \A e \in {"clear_admin", "clear_user"} : ~Confirms(e)
    BY <1>4, <2>1, NullAssumption DEF BringsCookie, Confirms
  <2>5. Faults = {} =>
          /\ admin_session_cookie' # NULL => SessionAt(admin_session_cookie)' \in live
          /\ user_session_cookie' # NULL => SessionAt(user_session_cookie)' \in live
    BY <1>1, <2>1, <2>2, <2>4, StoreEffect
  <2>6. QED
    BY <1>2, <1>3, <2>3, <2>4, <2>5 DEF Faithful
<1>5. CASE Effect(op) = "store_jwt"
  <2>1. ~BringsCookie /\ \A e \in {"clear_admin", "clear_user"} : ~Confirms(e)
    BY <1>5 DEF BringsCookie, Confirms
  <2>2. CASE reply.of # NULL
    <3>1. Store("jwt", reply) /\ reply.of \in Sessions
      BY <1>1, <1>5, <2>2 DEF StoreCredential, Reply
    <3>2. /\ UNCHANGED <<admin_session_cookie, SessionAt(admin_session_cookie)>>
          /\ UNCHANGED <<user_session_cookie, SessionAt(user_session_cookie)>>
          /\ \A b \in Blocks : heap[b] # NULL => heap'[b] = heap[b]
      BY <1>1, <3>1, StoreEffect
    <3>3. \A s \in live : InMemory(s) => InMemory(s)'
      BY <1>3, <3>2 DEF InMemory
    <3>4. QED
      BY <1>2, <2>1, <3>2, <3>3 DEF Faithful
  <2>3. CASE reply.of = NULL
    <3>1. UNCHANGED <<admin_session_cookie, user_session_cookie, heap>>
      BY <1>5, <2>3 DEF StoreCredential
    <3>2. /\ UNCHANGED <<SessionAt(admin_session_cookie), SessionAt(user_session_cookie)>>
          /\ \A s \in live : InMemory(s) => InMemory(s)'
      BY <3>1 DEF SessionAt, InMemory
    <3>3. QED
      BY <1>2, <2>1, <3>1, <3>2 DEF Faithful
  <2>4. QED
    BY <2>2, <2>3
<1>6. CASE Effect(op) = "clear_admin"
  <2>1. ~BringsCookie /\ Confirms("clear_admin") /\ ~Confirms("clear_user")
    BY <1>6 DEF BringsCookie, Confirms
  <2>2. /\ heap' = Freed({admin_session_cookie}) /\ admin_session_cookie' = NULL
        /\ UNCHANGED user_session_cookie
    BY <1>6 DEF StoreCredential
  <2>3. SessionAt(user_session_cookie)' = SessionAt(user_session_cookie)
    BY <1>1, <2>2 DEF SessionAt, Freed, GlobalsInv, CredentialSafety, Points, Pointer
  <2>4. \A s \in live : InMemory(s) => InMemory(s)'
    <3>1. SUFFICES ASSUME NEW s \in live, NEW b \in Blocks, heap[b] = [kind |-> role[s], of |-> s]
                   PROVE  heap'[b] = heap[b]
      BY DEF InMemory
    <3>2. b # admin_session_cookie
      BY <2>1, <3>1, NullAssumption DEF SessionAt
    <3>3. QED
      BY <2>2, <3>2 DEF Freed
  <2>5. QED
    BY <1>2, <2>1, <2>2, <2>3, <2>4 DEF Faithful
<1>7. CASE Effect(op) = "clear_user"
  <2>1. ~BringsCookie /\ Confirms("clear_user") /\ ~Confirms("clear_admin")
    BY <1>7 DEF BringsCookie, Confirms
  <2>2. /\ heap' = Freed({user_session_cookie, jwt_token}) /\ user_session_cookie' = NULL
        /\ UNCHANGED admin_session_cookie
    BY <1>7 DEF StoreCredential
  <2>3. SessionAt(admin_session_cookie)' = SessionAt(admin_session_cookie)
    BY <1>1, <2>2 DEF SessionAt, Freed, GlobalsInv, CredentialSafety, Points, Pointer
  <2>4. \A s \in live : InMemory(s) => InMemory(s)'
    <3>1. SUFFICES ASSUME NEW s \in live, NEW b \in Blocks, heap[b] = [kind |-> role[s], of |-> s]
                   PROVE  heap'[b] = heap[b]
      BY DEF InMemory
    <3>2. b # user_session_cookie
      BY <2>1, <3>1, NullAssumption DEF SessionAt
    <3>3. b # jwt_token
      BY <1>1, <1>3, <3>1, NullAssumption DEF GlobalsInv, CredentialSafety, Points
    <3>4. QED
      BY <2>2, <3>2, <3>3 DEF Freed
  <2>5. QED
    BY <1>2, <2>1, <2>2, <2>3, <2>4 DEF Faithful
<1>8. CASE Effect(op) \notin {"store_admin", "store_user", "store_jwt", "clear_admin", "clear_user"}
  <2>1. UNCHANGED <<globals, heap>>
    BY <1>8 DEF StoreCredential
  <2>2. /\ UNCHANGED <<SessionAt(admin_session_cookie), SessionAt(user_session_cookie)>>
        /\ UNCHANGED <<admin_session_cookie, user_session_cookie>>
        /\ \A s \in live : InMemory(s) => InMemory(s)'
    BY <2>1 DEF SessionAt, InMemory, globals
  <2>3. ~BringsCookie /\ \A e \in {"clear_admin", "clear_user"} : ~Confirms(e)
    BY <1>8 DEF BringsCookie, Confirms
  <2>4. QED
    BY <1>2, <2>2, <2>3 DEF Faithful
<1>9. QED
  BY <1>4, <1>5, <1>6, <1>7, <1>8

\* A reply that is no success drops no cookie of a live session: an error
\* changes nothing, and a blank one comes only from an unfaithful server.
LEMMA ReceiveLive == IInv /\ LiveInv /\ Receive => LiveInv'
<1> SUFFICES ASSUME IInv, LiveInv, Receive PROVE LiveInv'
  OBVIOUS
<1>1. Tells(reply) /\ op \in AllCommands
  BY DEF Receive, IInv, TypeOK, OneInFlight, Answers, Tells
<1>2. pc = "receive" /\ reply # NULL /\ reply' = NULL /\ UNCHANGED <<role, live>> /\ HandleReply(reply)
  BY DEF Receive
<1>3. ~BringsCookie' /\ \A e \in {"clear_admin", "clear_user"} : ~Confirms(e)'
  BY <1>2 DEF BringsCookie, Confirms
<1>4. CASE reply.status = "ok"
  BY <1>1, <1>2, <1>4, StoreCredentialLive DEF HandleReply
<1>5. CASE reply.status = "error"
  <2>1. UNCHANGED <<globals, heap>> /\ reply.of = NULL
    BY <1>1, <1>2, <1>5 DEF HandleReply, Tells
  <2>2. /\ UNCHANGED <<SessionAt(admin_session_cookie), SessionAt(user_session_cookie)>>
        /\ UNCHANGED <<admin_session_cookie, user_session_cookie>>
        /\ \A s \in live : InMemory(s) => InMemory(s)'
    BY <1>2, <2>1 DEF SessionAt, InMemory, globals
  <2>3. \A e \in {"clear_admin", "clear_user"} : ~Confirms(e)
    BY <1>5 DEF Confirms
  <2>4. NULL \notin live
    BY NullAssumption DEF IInv, TypeOK
  <2>5. QED
    BY <1>2, <1>3, <2>1, <2>2, <2>3, <2>4 DEF LiveInv, Faithful
<1>6. CASE reply.status = "blank"
  <2>1. ~Faithful /\ Faults # {}
    BY <1>1, <1>6 DEF Tells, Faithful
  <2>2. QED
    BY <1>2, <1>3, <2>1 DEF LiveInv, Faithful
<1>7. QED
  BY <1>1, <1>4, <1>5, <1>6 DEF Tells, Reply

\* Every step keeps the live sessions accounted for.
LEMMA NextLiveInv == IInv /\ LiveInv /\ [Next]_vars => LiveInv'
<1> SUFFICES ASSUME IInv, LiveInv, [Next]_vars PROVE LiveInv'
  OBVIOUS
<1>1. CASE Exit
  <2>1. /\ pc' = "exited" /\ admin_session_cookie' = NULL /\ user_session_cookie' = NULL
        /\ reply' = NULL /\ UNCHANGED <<role, live>>
    BY <1>1 DEF Exit, IInv, OneInFlight
  <2>2. QED
    BY <2>1 DEF LiveInv, Confirms, BringsCookie
<1>2. CASE ReceiveEof
  <2>1. Faults # {} /\ ~Faithful /\ reply' = NULL /\ UNCHANGED <<role, live>>
    BY <1>2 DEF ReceiveEof, IInv, OneInFlight, Faithful, server
  <2>2. QED
    BY <2>1 DEF LiveInv, Confirms, BringsCookie, Faithful
<1>3. CASE \E c \in Commands : RefuseInput(c) \/ Start(c)
  BY <1>3, LiveKept DEF RefuseInput, Start, IInv, OneInFlight, server
<1>4. CASE Send \/ SendFails \/ RefuseMovie \/ ReceiveReset \/ UNCHANGED vars
  BY <1>4, LiveKept DEF Send, SendFails, RefuseMovie, ReceiveReset, IInv, OneInFlight, vars, client,
                        server
<1>5. CASE Refuse
  <2>1. reply = NULL /\ reply'.of = NULL /\ reply'.status # "ok"
    BY <1>5 DEF Refuse, IInv, OneInFlight
  <2>2. QED
    BY <1>5, <2>1, LiveKept DEF Refuse, client
<1>6. CASE \E s \in Sessions : Expire(s)
  BY <1>6, LiveKept DEF Expire, client
<1>7. CASE Close
  BY <1>7, LiveKept DEF Close, client, Faithful
<1>8. QED
  BY <1>1, <1>2, <1>3, <1>4, <1>5, <1>6, <1>7, PerformLive, ReceiveLive DEF Next, Ended

\* The sessions live at the server and the cookies in memory stay in step.
LEMMA LiveInvariance == Spec => []LiveInv
<1>1. QED
  BY InitLiveInv, NextLiveInv, Invariance, PTL DEF Spec

\* As long as refusals can be read and the connection stays, the client throws
\* no cookie away while its session is open at the server: not on a refused
\* logout, not on a second login (client.c:259-268, 537-550).
THEOREM NoSessionForgotten == Spec => []SessionsAccountedFor
<1>1. LiveInv => SessionsAccountedFor
  BY DEF LiveInv, SessionsAccountedFor, InMemory, BringsCookie
<1>2. QED
  BY <1>1, LiveInvariance, PTL

\* Without faults the cookies in hand between two exchanges are of sessions
\* the server still accepts.
THEOREM CookiesStayLive == Spec => []CookiesAreLive
<1>1. LiveInv => CookiesAreLive
  BY DEF LiveInv, CookiesAreLive, Confirms, SessionAt
<1>2. QED
  BY <1>1, LiveInvariance, PTL
=============================================================================
