---------------------------- MODULE Credentials ----------------------------
(***************************************************************************)
(* What the three globals of client.c promise their user, with no memory,  *)
(* no network and no requests: the client is, at any time, some admin      *)
(* session, some user session and the holder of one access token, each of  *)
(* them possibly nobody's.  A token comes from the session of the day; it  *)
(* outlives a second login and dies with the logout.                       *)
(***************************************************************************)
CONSTANTS Sessions,     \* what a server can open
          NULL,         \* nobody
          Lossy         \* can a reply without an error lack its token?

VARIABLES admin,        \* the session of the admin cookie
          user,         \* the session of the user cookie
          token         \* the session the access token was given to

vars == <<admin, user, token>>

Init == admin = NULL /\ user = NULL /\ token = NULL

LoginAdmin(s) == admin' = s /\ UNCHANGED <<user, token>>

LogoutAdmin == admin' = NULL /\ UNCHANGED <<user, token>>

\* The token of whoever was logged in before stays.
Login(s) == user' = s /\ UNCHANGED <<admin, token>>

GetAccess == user # NULL /\ token' = user /\ UNCHANGED <<admin, user>>

\* The reply held no token.
LoseAccess == Lossy /\ token' = NULL /\ UNCHANGED <<admin, user>>

Logout == user' = NULL /\ token' = NULL /\ UNCHANGED admin

Exit == admin' = NULL /\ user' = NULL /\ token' = NULL

Next == \/ \E s \in Sessions : LoginAdmin(s) \/ Login(s)
        \/ LogoutAdmin
        \/ GetAccess
        \/ LoseAccess
        \/ Logout
        \/ Exit

Spec == Init /\ [][Next]_vars
=============================================================================
