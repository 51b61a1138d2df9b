--------------------------- MODULE MCHttpReceive ---------------------------
(***************************************************************************)
(* HttpExchange on short messages.  Replies: an empty and a non-empty      *)
(* body, the length before and after another header line, a body that      *)
(* itself speaks of a length, and a reply without a length.  Requests:     *)
(* each method, with and without cookie and token, the cookie missing, and *)
(* bodies that read like a header.                                         *)
(***************************************************************************)
EXTENDS HttpExchange

CRLF == <<"CR", "LF">>

Replies ==
    { <<"X">> \o CRLF \o <<"CL">> \o CRLF \o CRLF,
      <<"CL", "D", "D">> \o CRLF \o <<"X">> \o CRLF \o CRLF \o <<"B", "B">>,
      <<"X">> \o CRLF \o <<"CL", "D", "D", "D">> \o CRLF \o CRLF \o <<"CL", "D", "B">>,
      <<"X">> \o CRLF \o CRLF \o <<"B", "B">> }

Asked(method, cookies, jwt, body_data) ==
    [method |-> method, cookies |-> cookies, jwt |-> jwt, body_data |-> body_data]

Asks ==
    { Asked("GET", <<"COOKIE">>, FALSE, NULL),
      Asked("DELETE", <<"NOCOOKIE">>, TRUE, NULL),
      Asked("POST", NULL, FALSE, <<<<"CL", "D", "B">>>>),
      Asked("PUT", <<"COOKIE">>, TRUE, <<<<"COOKIE">>>>),
      Asked("POST", <<"NOCOOKIE">>, FALSE, <<<<"B", "B">>>>) }
=============================================================================
