-------------------------- MODULE MCSessionClient --------------------------
(***************************************************************************)
(* SessionClient on small instances.                                       *)
(***************************************************************************)
EXTENDS SessionClient, TLC

\* Sessions and blocks are interchangeable: only for runs without liveness.
Symmetry == Permutations(Sessions) \cup Permutations(Blocks)

\* The commands that change a credential, and one of each other kind.
FewCommands == {"login_admin", "logout_admin", "login", "get_access", "logout",
                "get_users", "get_movie", "add_movie", "add_collection"}
=============================================================================
