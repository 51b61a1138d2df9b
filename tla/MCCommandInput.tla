-------------------------- MODULE MCCommandInput --------------------------
(***************************************************************************)
(* CommandInput with a few lines that fit no prompt: an empty one, words   *)
(* with a blank between or behind them, numbers followed by text, and one  *)
(* too long for fgets().                                                   *)
(***************************************************************************)
EXTENDS CommandInput

OddLines ==
    { <<>>, <<"text", "sp", "logout">>, <<"login_admin", "sp">>, <<"exit">>,
      <<"7", "sp", "logout">>, <<"7", ".", "7", "sp", "get_access">>, <<".", "text">>, <<".", "7">>,
      <<"text", "sp", "text", "sp", "logout">> }
=============================================================================
