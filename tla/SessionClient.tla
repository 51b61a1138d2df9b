--------------------------- MODULE SessionClient ---------------------------
(***************************************************************************)
(* The client as a whole: the command loop of main(), the life of a        *)
(* command (read, refuse, send, receive, check, store), the three          *)
(* credentials kept in malloc'ed strings behind the globals of client.c,   *)
(* the one connection opened at the start, and the server at its other     *)
(* end.  What a handler asks and stores is the table in Handlers.          *)
(*                                                                         *)
(* One exchange is one send_to_server() and one receive_from_server(); how *)
(* the bytes of a reply arrive is the subject of HttpReceive.  The server  *)
(* is external: it is known only from how the handlers use it.             *)
(***************************************************************************)
EXTENDS Handlers, FiniteSets

CONSTANTS
    Commands,     \* the commands the user types, "exit" apart
    Sessions,     \* the sessions the server can open (each at most once)
    Blocks,       \* the heap blocks that can hold a credential (a bound)
    MaxMovies,    \* the most movies typed into one add_collection (a bound)
    Faults,       \* what the environment may do: "opaque", "close", "expire"
    NULL          \* the null pointer, a freed block, nobody, no message

\* What a handler malloc()s and keeps: a cookie or a token of some session.
Credential == [kind : {"admin", "user", "jwt"}, of : Sessions]

\* The credentials a request carries, by the session they belong to.
Request == [op : AllCommands, cookie : Sessions \cup {NULL}, jwt : Sessions \cup {NULL}]

(***************************************************************************)
(* A reply is an error the client can read ({"error": ...}), a success     *)
(* with the session of the cookie or token in it, or "blank": no JSON, as  *)
(* in an error page, a truncated reply, or the empty string that           *)
(* receive_from_server() returns at the end of the stream.                 *)
(***************************************************************************)
Reply == [status : {"error", "ok", "blank"}, of : Sessions \cup {NULL}]

ASSUME CommandsAssumption == Commands \subseteq AllCommands
ASSUME BoundAssumption == MaxMovies \in Nat
ASSUME FaultsAssumption == Faults \subseteq {"opaque", "close", "expire"}
ASSUME NullAssumption == NULL \notin Blocks \cup Sessions \cup Credential \cup Request \cup Reply

VARIABLES
    pc,                    \* where main() is
    command,               \* the command in hand
    op,                    \* the handler whose exchange is under way
    left,                  \* add_collection: movies not added yet
    admin_session_cookie, user_session_cookie, jwt_token,    \* the globals
    heap,                  \* what each block holds; NULL when free
    printed,               \* {"SUCCESS", "ERROR"} printed since the last send
    open,                  \* is the connection still open at the server?
    request, reply,        \* in flight, or NULL
    role,                  \* server: what each session was opened as, or "none"
    live,                  \* server: the sessions it still accepts
    performed              \* did the server execute the last request?

globals == <<admin_session_cookie, user_session_cookie, jwt_token>>
client == <<pc, command, op, left, printed>>
server == <<open, request, reply, role, live, performed>>
vars == <<client, globals, heap, server>>

Init ==
    /\ pc = "command" /\ command = "exit" /\ op = "exit" /\ left = 0
    /\ admin_session_cookie = NULL /\ user_session_cookie = NULL /\ jwt_token = NULL
    /\ heap = [b \in Blocks |-> NULL]
    /\ printed = {}
    /\ open = TRUE /\ request = NULL /\ reply = NULL
    /\ role = [s \in Sessions |-> "none"] /\ live = {} /\ performed = FALSE

-----------------------------------------------------------------------------
\* Reading a command

\* A blank in a name, or a number that does not scan: nothing is sent.
RefuseInput(c) ==
    /\ pc = "command"
    /\ MayRefuseInput(c)
    /\ command' = c /\ op' = c
    /\ printed' = {"ERROR"} /\ performed' = FALSE
    /\ UNCHANGED <<pc, left, globals, heap, open, request, reply, role, live>>

\* The handler has its input.  num_movies below one adds no movie.
Start(c) ==
    /\ pc = "command"
    /\ pc' = "send" /\ command' = c /\ op' = c
    /\ left' \in IF c = "add_collection" THEN 0 .. MaxMovies ELSE {0}
    /\ UNCHANGED <<printed, globals, heap, server>>

Freed(pointers) == [b \in Blocks |-> IF b \in pointers THEN NULL ELSE heap[b]]

Exit ==
    /\ pc = "command"
    /\ pc' = "exited" /\ open' = FALSE
    /\ heap' = Freed({admin_session_cookie, user_session_cookie, jwt_token})
    /\ admin_session_cookie' = NULL /\ user_session_cookie' = NULL /\ jwt_token' = NULL
    /\ UNCHANGED <<command, op, left, printed, request, reply, role, live, performed>>

-----------------------------------------------------------------------------
\* Sending the request

\* A null pointer is printed into the request as "(null)": nobody's cookie.
SessionAt(pointer) == IF pointer = NULL THEN NULL ELSE heap[pointer].of

RequestOf(c) ==
    [op |-> c,
     cookie |-> CASE HandlerOf[c].cookie = "admin" -> SessionAt(admin_session_cookie)
                  [] HandlerOf[c].cookie = "user" -> SessionAt(user_session_cookie)
                  [] OTHER -> NULL,
     jwt |-> IF HandlerOf[c].jwt THEN SessionAt(jwt_token) ELSE NULL]

Send ==
    /\ pc = "send"
    /\ pc' = "receive"
    /\ request' = IF open THEN RequestOf(op) ELSE NULL
    /\ printed' = {} /\ performed' = FALSE
    /\ UNCHANGED <<command, op, left, globals, heap, open, reply, role, live>>

\* write() on a connection the server has reset: SIGPIPE, or error()'s exit.
SendFails ==
    /\ pc = "send" /\ ~open
    /\ pc' = "died"
    /\ UNCHANGED <<command, op, left, printed, globals, heap, server>>

(***************************************************************************)
(* add_collection hands each id to add_movie_to_collection, which asks for *)
(* another one when it is negative, and may refuse what it then reads: the *)
(* collection is deleted without an exchange for the movie.                *)
(***************************************************************************)
RefuseMovie ==
    /\ pc = "send" /\ command = "add_collection" /\ op = "add_movie_to_collection"
    /\ op' = "delete_collection"
    /\ printed' = {"ERROR"} /\ performed' = FALSE
    /\ UNCHANGED <<pc, command, left, globals, heap, open, request, reply, role, live>>

-----------------------------------------------------------------------------
\* The server (external)

Effect(c) == HandlerOf[c].effect

Authorised(r) ==
    /\ HandlerOf[r.op].cookie # "none" => r.cookie \in live /\ role[r.cookie] = HandlerOf[r.op].cookie
    /\ HandlerOf[r.op].jwt => r.jwt # NULL

\* A login opens a session, a logout ends it, access hands out its token.
Perform ==
    /\ request # NULL /\ Authorised(request)
    /\ Effect(request.op) \in {"store_admin", "store_user", "store_jwt"} =>
          \E b \in Blocks : heap[b] = NULL        \* the bound on credentials
    /\ CASE Effect(request.op) \in {"store_admin", "store_user"} ->
              \E s \in Sessions :
                  /\ role[s] = "none"
                  /\ role' = [role EXCEPT ![s] = IF Effect(request.op) = "store_admin" THEN "admin"
                                                                                          ELSE "user"]
                  /\ live' = live \cup {s}
                  /\ reply' = [status |-> "ok", of |-> s]
         [] Effect(request.op) \in {"clear_admin", "clear_user"} ->
              /\ live' = live \ {request.cookie}
              /\ reply' = [status |-> "ok", of |-> NULL]
              /\ UNCHANGED role
         [] Effect(request.op) = "store_jwt" ->
              /\ reply' = [status |-> "ok", of |-> request.cookie]
              /\ UNCHANGED <<role, live>>
         [] OTHER ->
              /\ reply' = [status |-> "ok", of |-> NULL]
              /\ UNCHANGED <<role, live>>
    /\ request' = NULL /\ performed' = TRUE
    /\ UNCHANGED <<client, globals, heap, open>>

\* A wrong password, an unknown id, no access: the server may refuse anything.
Refuse ==
    /\ request # NULL
    /\ request' = NULL
    /\ reply' \in [status : IF "opaque" \in Faults THEN {"error", "blank"} ELSE {"error"},
                   of : {NULL}]
    /\ UNCHANGED <<client, globals, heap, open, role, live, performed>>

Serve == Perform \/ Refuse

Expire(s) ==
    /\ "expire" \in Faults /\ s \in live
    /\ live' = live \ {s}
    /\ UNCHANGED <<client, globals, heap, open, request, reply, role, performed>>

\* The server closes an idle or broken connection; a reply may be lost with it.
Close ==
    /\ "close" \in Faults /\ open
    /\ open' = FALSE /\ request' = NULL
    /\ reply' \in {reply, NULL}
    /\ UNCHANGED <<client, globals, heap, role, live, performed>>

-----------------------------------------------------------------------------
\* Receiving the reply

\* parse_and_print_users() announces success before the reply is checked.
Announced == IF op = "get_users" THEN {"SUCCESS"} ELSE {}

\* malloc() or strdup() for the new value; the old one is not freed.
Store(pointer, r) ==
    \E b \in Blocks :
        /\ heap[b] = NULL
        /\ heap' = [heap EXCEPT ![b] = [kind |-> pointer, of |-> r.of]]
        /\ admin_session_cookie' = IF pointer = "admin" THEN b ELSE admin_session_cookie
        /\ user_session_cookie' = IF pointer = "user" THEN b ELSE user_session_cookie
        /\ jwt_token' = IF pointer = "jwt" THEN b ELSE jwt_token

\* Faulty variant: logout() frees the token and leaves the pointer to it.
StoreCredentialDangling(r) ==
    IF Effect(op) = "clear_user"
    THEN /\ heap' = Freed({user_session_cookie, jwt_token})
         /\ user_session_cookie' = NULL
         /\ UNCHANGED <<admin_session_cookie, jwt_token>>
    ELSE CASE Effect(op) = "store_user" -> Store("user", r)
           [] Effect(op) = "store_jwt" /\ r.of # NULL -> Store("jwt", r)
           [] OTHER -> UNCHANGED <<globals, heap>>

\* Faulty variant: logout() forgets the token.
StoreCredentialKeepsToken(r) ==
    CASE Effect(op) = "store_user" -> Store("user", r)
      [] Effect(op) = "store_jwt" /\ r.of # NULL -> Store("jwt", r)
      [] Effect(op) = "clear_user" ->
           /\ heap' = Freed({user_session_cookie})
           /\ user_session_cookie' = NULL
           /\ UNCHANGED <<admin_session_cookie, jwt_token>>
      [] OTHER -> UNCHANGED <<globals, heap>>

\* Faulty variant: logout() forgets the cookie.
StoreCredentialKeepsCookie(r) ==
    CASE Effect(op) = "store_user" -> Store("user", r)
      [] Effect(op) = "store_jwt" /\ r.of # NULL -> Store("jwt", r)
      [] Effect(op) = "clear_user" ->
           /\ heap' = Freed({jwt_token}) /\ jwt_token' = NULL
           /\ UNCHANGED <<admin_session_cookie, user_session_cookie>>
      [] OTHER -> UNCHANGED <<globals, heap>>

StoreCredential(r) ==
    CASE Effect(op) = "store_admin" -> Store("admin", r)
      [] Effect(op) = "store_user" -> Store("user", r)
      [] Effect(op) = "store_jwt" ->
           IF r.of # NULL
           THEN Store("jwt", r)
           ELSE jwt_token' = NULL /\ UNCHANGED <<admin_session_cookie, user_session_cookie, heap>>
      [] Effect(op) = "clear_admin" ->
           /\ heap' = Freed({admin_session_cookie})
           /\ admin_session_cookie' = NULL
           /\ UNCHANGED <<user_session_cookie, jwt_token>>
      [] Effect(op) = "clear_user" ->
           /\ heap' = Freed({user_session_cookie, jwt_token})
           /\ user_session_cookie' = NULL /\ jwt_token' = NULL
           /\ UNCHANGED admin_session_cookie
      [] OTHER -> UNCHANGED <<globals, heap>>

\* The handlers that dereference what a reply without JSON does not hold:
\* no "Set-Cookie: ", no "rating".
NeedsBody == {"login", "login_admin", "get_movie"}

\* Faulty variant: "<=" in the loop over the movies.
AfterSuccessOneTooMany ==
    IF command = "add_collection" /\ op # "delete_collection" /\ left >= 0
    THEN pc' = "send" /\ op' = "add_movie_to_collection" /\ left' = left - 1
    ELSE pc' = "command" /\ UNCHANGED <<op, left>>

\* Faulty variant: the loop does not count.
AfterSuccessNoCount ==
    IF command = "add_collection" /\ op # "delete_collection" /\ left > 0
    THEN pc' = "send" /\ op' = "add_movie_to_collection" /\ UNCHANGED left
    ELSE pc' = "command" /\ UNCHANGED <<op, left>>

\* A command is over, but for add_collection's loop over the movies.
AfterSuccess ==
    IF command = "add_collection" /\ op # "delete_collection" /\ left > 0
    THEN pc' = "send" /\ op' = "add_movie_to_collection" /\ left' = left - 1
    ELSE pc' = "command" /\ UNCHANGED <<op, left>>

AfterError ==
    IF command = "add_collection" /\ op = "add_movie_to_collection"
    THEN pc' = "send" /\ op' = "delete_collection" /\ UNCHANGED left
    ELSE pc' = "command" /\ UNCHANGED <<op, left>>

\* What a success prints: nothing before the last movie of a new collection,
\* an error when get_access finds no token.
PrintedOnSuccess(r) ==
    CASE op = "add_collection" /\ left > 0 -> {}
      [] op = "get_access" /\ r.of = NULL -> {"ERROR"}
      [] OTHER -> {"SUCCESS"}

\* Faulty variant: the reply is not checked for an error.
HandleReplyUnchecked(r) ==
    /\ printed' = {"SUCCESS"}
    /\ IF r.of # NULL \/ Effect(op) \notin {"store_admin", "store_user"}
       THEN StoreCredential(r)
       ELSE UNCHANGED <<globals, heap>>
    /\ AfterSuccess

\* Faulty variant: the credentials are cleared before the reply is checked.
HandleReplyEager(r) ==
    /\ printed' = IF r.status = "error" THEN {"ERROR"} ELSE {"SUCCESS"}
    /\ IF Effect(op) \in {"clear_admin", "clear_user"} \/ r.of # NULL
       THEN StoreCredential(r)
       ELSE UNCHANGED <<globals, heap>>
    /\ IF r.status = "error" THEN AfterError ELSE AfterSuccess

\* check_for_error_and_print(): only an "error" in the JSON is an error.
HandleReply(r) ==
    \/ /\ r.status = "error"
       /\ printed' = Announced \cup {"ERROR"}
       /\ AfterError
       /\ UNCHANGED <<globals, heap>>
    \/ /\ r.status = "blank" /\ op \in NeedsBody
       /\ pc' = "died"
       /\ printed' = IF op = "get_movie" THEN printed ELSE {"SUCCESS"}    \* a login prints first
       /\ UNCHANGED <<op, left, globals, heap>>
    \/ /\ r.status = "ok" \/ (r.status = "blank" /\ op \notin NeedsBody)
       /\ printed' = Announced \cup PrintedOnSuccess(r)
       /\ StoreCredential(r)
       /\ AfterSuccess

Receive ==
    /\ pc = "receive" /\ reply # NULL
    /\ HandleReply(reply)
    /\ reply' = NULL
    /\ UNCHANGED <<command, open, request, role, live, performed>>

\* read() returns 0: the reply is the empty string.
ReceiveEof ==
    /\ pc = "receive" /\ ~open /\ reply = NULL
    /\ HandleReply([status |-> "blank", of |-> NULL])
    /\ UNCHANGED <<command, server>>

\* read() fails: error() exits.
ReceiveReset ==
    /\ pc = "receive" /\ ~open /\ reply = NULL
    /\ pc' = "died"
    /\ UNCHANGED <<command, op, left, printed, globals, heap, server>>

-----------------------------------------------------------------------------
\* The process has ended; nothing more happens.
Ended ==
    /\ pc \in {"exited", "died"}
    /\ UNCHANGED vars

Next ==
    \/ \E c \in Commands : RefuseInput(c) \/ Start(c)
    \/ Exit
    \/ Send \/ SendFails \/ RefuseMovie
    \/ Perform \/ Refuse
    \/ \E s \in Sessions : Expire(s)
    \/ Close
    \/ Receive \/ ReceiveEof \/ ReceiveReset
    \/ Ended

Spec == Init /\ [][Next]_vars

\* A single thread goes on with its next statement while it can, and the
\* server answers what it has received.
Fairness ==
    /\ WF_vars(Send \/ SendFails)
    /\ WF_vars(Serve)
    /\ WF_vars(Receive \/ ReceiveEof \/ ReceiveReset)

FairSpec == Spec /\ Fairness

-----------------------------------------------------------------------------
\* Properties

\* What each variable can hold; the loop of add_collection never hands out
\* more movies than were typed (client.c:771).
TypeOK ==
    /\ pc \in {"command", "send", "receive", "exited", "died"}
    /\ command \in AllCommands \cup {"exit"}
    /\ op \in AllCommands \cup {"exit"}
    /\ left \in 0 .. MaxMovies
    /\ admin_session_cookie \in Blocks \cup {NULL}
    /\ user_session_cookie \in Blocks \cup {NULL}
    /\ jwt_token \in Blocks \cup {NULL}
    /\ heap \in [Blocks -> Credential \cup {NULL}]
    /\ printed \subseteq {"SUCCESS", "ERROR"}
    /\ open \in BOOLEAN
    /\ request \in Request \cup {NULL}
    /\ reply \in Reply \cup {NULL}
    /\ role \in [Sessions -> {"none", "admin", "user"}]
    /\ live \subseteq Sessions
    /\ performed \in BOOLEAN

(***************************************************************************)
(* A global that is not null points to a block that is still allocated and *)
(* that holds its own kind of credential, of a session the server opened   *)
(* as an admin's or as a user's: no dangling pointer after a logout, no    *)
(* block freed twice by logout() and exit, no cookie behind the wrong      *)
(* global.                                                                 *)
(***************************************************************************)
Points(pointer, kind, owner) ==
    pointer # NULL =>
        /\ heap[pointer] # NULL
        /\ heap[pointer].kind = kind
        /\ role[heap[pointer].of] = owner

CredentialSafety ==
    /\ Points(admin_session_cookie, "admin", "admin")
    /\ Points(user_session_cookie, "user", "user")
    /\ Points(jwt_token, "jwt", "user")

(***************************************************************************)
(* The token is never kept without the cookie it was obtained with: a      *)
(* logout drops both, and a second login overwrites the cookie's pointer   *)
(* but leaves its block.  The token may therefore belong to another        *)
(* session than the cookie in use, but only at the price of that leak.     *)
(***************************************************************************)
TokenKeepsItsCookie ==
    jwt_token # NULL =>
        /\ user_session_cookie # NULL
        /\ \E b \in Blocks : heap[b] = [kind |-> "user", of |-> SessionAt(jwt_token)]

\* No reply is blank, so every refusal is one the client can read.
Faithful == Faults \cap {"opaque", "close"} = {}

(***************************************************************************)
(* What an exchange printed agrees with what the server did: no ERROR for  *)
(* a request it executed, and a SUCCESS alone only for one it executed.    *)
(* get_users prints both when it is refused.                               *)
(***************************************************************************)
OutcomeIsTrue ==
    Faithful /\ pc \in {"command", "send"} =>
        /\ performed => "ERROR" \notin printed
        /\ printed = {"SUCCESS"} => performed

(***************************************************************************)
(* While the client runs, no session is live at the server whose cookie    *)
(* the client has thrown away: it is in memory or in the reply on its way. *)
(* A logout forgets a cookie only after the server has closed its session. *)
(***************************************************************************)
SessionsAccountedFor ==
    Faithful /\ pc # "exited" =>
        \A s \in live :
            \/ \E b \in Blocks : heap[b] = [kind |-> role[s], of |-> s]
            \/ reply # NULL /\ reply.of = s

(***************************************************************************)
(* Between two exchanges the cookies in hand are sessions the server still *)
(* accepts, unless the environment expires sessions or hides refusals.     *)
(***************************************************************************)
CookiesAreLive ==
    Faults = {} /\ reply = NULL =>
        \A pointer \in {admin_session_cookie, user_session_cookie} :
            pointer # NULL => heap[pointer].of \in live

(***************************************************************************)
(* The inductive invariant behind the theorems of SessionClient_proofs: at *)
(* most one message is in flight, only while the client waits for it; the  *)
(* request still says what the globals say, and a reply answers the        *)
(* handler that waits, so a token is of the cookie still in hand.          *)
(***************************************************************************)
Answers(r) ==
    /\ r.of # NULL => r.status = "ok"
    /\ r.status = "ok" <=> performed
    /\ r.status = "blank" => ~Faithful
    /\ r.status = "ok" =>
         /\ Effect(op) = "store_admin" => r.of # NULL /\ role[r.of] = "admin"
         /\ Effect(op) = "store_user" => r.of # NULL /\ role[r.of] = "user"
         /\ Effect(op) = "store_jwt" =>
              user_session_cookie # NULL /\ r.of = SessionAt(user_session_cookie)

OneInFlight ==
    /\ pc \in {"send", "receive"} => op \in AllCommands
    /\ request # NULL =>
         open /\ pc = "receive" /\ reply = NULL /\ request = RequestOf(op) /\ ~performed
    /\ reply # NULL => pc = "receive" /\ request = NULL /\ Answers(reply)
    /\ open \/ pc = "exited" \/ "close" \in Faults

IInv ==
    /\ TypeOK
    /\ CredentialSafety
    /\ OneInFlight
    /\ TokenKeepsItsCookie
    /\ OutcomeIsTrue

(***************************************************************************)
(* The inductive invariant behind SessionsAccountedFor and CookiesAreLive, *)
(* on top of IInv.  A live session's cookie is in memory, or in the reply  *)
(* to the login that opened it (a token's reply names the session too, but *)
(* holds no cookie); and the reply to a logout says that the session of    *)
(* the cookie about to be dropped is closed.                               *)
(***************************************************************************)
BringsCookie == reply # NULL /\ Effect(op) \in {"store_admin", "store_user"}
Confirms(effect) == reply # NULL /\ reply.status = "ok" /\ Effect(op) = effect
InMemory(s) == \E b \in Blocks : heap[b] = [kind |-> role[s], of |-> s]

LiveInv ==
    /\ \A s \in live : role[s] # "none"
    /\ Faithful /\ pc # "exited" =>
          \A s \in live : InMemory(s) \/ (BringsCookie /\ reply.of = s)
    /\ Confirms("clear_admin") => SessionAt(admin_session_cookie) \notin live
    /\ Confirms("clear_user") => SessionAt(user_session_cookie) \notin live
    /\ Faults = {} =>
          /\ admin_session_cookie # NULL =>
                SessionAt(admin_session_cookie) \in live \/ Confirms("clear_admin")
          /\ user_session_cookie # NULL =>
                SessionAt(user_session_cookie) \in live \/ Confirms("clear_user")
          /\ BringsCookie /\ reply.of # NULL => reply.of \in live

(***************************************************************************)
(* The globals and the heap implement the credentials without memory of    *)
(* Credentials: no handler changes what another one stored, and a token is *)
(* always given to the session whose cookie is in hand.                    *)
(***************************************************************************)
Abstract == INSTANCE Credentials WITH
    admin <- SessionAt(admin_session_cookie),
    user <- SessionAt(user_session_cookie),
    token <- SessionAt(jwt_token),
    Lossy <- ~Faithful

CredentialsSpec == Abstract!Spec

(***************************************************************************)
(* README.md:10, "Close the connection and free allocated resources": exit *)
(* leaves no credential in memory.  A second login or a second get_access  *)
(* overwrites the only pointer to the block of the first.                  *)
(***************************************************************************)
ExitFreesMemory == pc = "exited" => \A b \in Blocks : heap[b] = NULL

(***************************************************************************)
(* README.md:9, "Execute operations until the exit command is received":   *)
(* an operation that ends with a SUCCESS message was executed.  Once the   *)
(* server has closed the connection, the only one the client ever opens,   *)
(* receive_from_server() returns the empty string, which holds no error.   *)
(***************************************************************************)
SuccessMeansExecuted == pc = "command" /\ printed = {"SUCCESS"} => performed

(***************************************************************************)
(* Every command comes to an end: its exchanges are answered, and the loop *)
(* of add_collection over its movies is finite, or the process is dead.    *)
(***************************************************************************)
CommandEnds == pc \in {"send", "receive"} ~> pc \in {"command", "died"}
=============================================================================
