------------------------------ MODULE Handlers ------------------------------
(***************************************************************************)
(* The command handlers of client.c as data: for each command that main()  *)
(* dispatches, what the handler reads from the keyboard, whether it        *)
(* refuses blanks, the request it sends, the credentials the request       *)
(* carries, and what the handler does with a credential once the server    *)
(* has answered without an error.  The control flow that all handlers      *)
(* share (read, refuse, send, receive, check, store, return) is in the     *)
(* modules that use this table.                                            *)
(***************************************************************************)
EXTENDS Naturals, Sequences

(***************************************************************************)
(* Keyboard reads, in order:                                               *)
(*   "skip"   getchar(), the newline left behind the command               *)
(*   "line"   fgets() and the strcspn() that cuts the newline              *)
(*   "int"    scanf("%d%c") that must be followed by a newline             *)
(*   "float"  scanf("%f")                                                  *)
(***************************************************************************)
Handler(input, nospaces, method, cookie, jwt, effect) ==
    [input |-> input, nospaces |-> nospaces, method |-> method,
     cookie |-> cookie, jwt |-> jwt, effect |-> effect]

login_admin ==
    Handler(<<"skip", "line", "line">>, TRUE, "POST", "none", FALSE, "store_admin")
add_user ==
    Handler(<<"skip", "line", "line">>, TRUE, "POST", "admin", FALSE, "nothing")
get_users ==
    Handler(<<>>, FALSE, "GET", "admin", FALSE, "nothing")
delete_user ==
    Handler(<<"skip", "line">>, TRUE, "DELETE", "admin", FALSE, "nothing")
login ==
    Handler(<<"skip", "line", "line", "line">>, TRUE, "POST", "none", FALSE, "store_user")
logout_admin ==
    Handler(<<>>, FALSE, "GET", "admin", FALSE, "clear_admin")
get_access ==
    Handler(<<>>, FALSE, "GET", "user", FALSE, "store_jwt")
get_movies ==
    Handler(<<>>, FALSE, "GET", "user", TRUE, "nothing")
add_movie ==
    Handler(<<"skip", "line", "int", "line", "float">>, FALSE, "POST", "user", TRUE, "nothing")
get_movie ==
    Handler(<<"int">>, FALSE, "GET", "user", TRUE, "nothing")
update_movie ==
    Handler(<<"int", "line", "int", "line", "float", "skip">>,
            FALSE, "PUT", "user", TRUE, "nothing")
delete_movie ==
    Handler(<<"int">>, FALSE, "DELETE", "user", TRUE, "nothing")
logout ==
    Handler(<<>>, FALSE, "GET", "user", FALSE, "clear_user")
get_collections ==
    Handler(<<>>, FALSE, "GET", "user", TRUE, "nothing")
get_collection ==
    Handler(<<"int">>, FALSE, "GET", "user", TRUE, "nothing")
delete_collection ==
    Handler(<<"int">>, FALSE, "DELETE", "user", TRUE, "nothing")
add_movie_to_collection ==
    Handler(<<"int", "int">>, FALSE, "POST", "user", TRUE, "nothing")
add_collection ==    \* its further requests are steps of the modules that use it
    Handler(<<"skip", "line", "int">>, FALSE, "POST", "user", TRUE, "nothing")
delete_movie_from_collection ==
    Handler(<<"int", "int">>, FALSE, "DELETE", "user", TRUE, "nothing")

\* main(): the exact words it compares the command with, "exit" apart.
HandlerOf ==
    [login_admin |-> login_admin, add_user |-> add_user, get_users |-> get_users,
     delete_user |-> delete_user, login |-> login, logout_admin |-> logout_admin,
     get_access |-> get_access, get_movies |-> get_movies, add_movie |-> add_movie,
     get_movie |-> get_movie, update_movie |-> update_movie,
     delete_movie |-> delete_movie, logout |-> logout,
     get_collections |-> get_collections, get_collection |-> get_collection,
     delete_collection |-> delete_collection,
     add_movie_to_collection |-> add_movie_to_collection,
     add_collection |-> add_collection,
     delete_movie_from_collection |-> delete_movie_from_collection]

AllCommands == DOMAIN HandlerOf

\* A handler can return before it sends anything: a blank in a name or a
\* password, or a number that does not scan.
MayRefuseInput(c) ==
    \/ HandlerOf[c].nospaces
    \/ \E i \in DOMAIN HandlerOf[c].input : HandlerOf[c].input[i] \in {"int", "float"}
=============================================================================
