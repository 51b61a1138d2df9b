---------------------------- MODULE HttpExchange ----------------------------
(***************************************************************************)
(* An exchange from the handler's point of view: requests.c composes the   *)
(* request, send_to_server() writes it in as many pieces as write() takes, *)
(* and receive_from_server() (HttpReceive) reads the reply.  The server    *)
(* cuts what it is sent into requests as HTTP frames them, and answers     *)
(* each.  All exchanges share one connection, so a request that announces  *)
(* the wrong length disturbs the one after it.                             *)
(*                                                                         *)
(* A message is a sequence of symbols: "CR", "LF", a method (a whole first *)
(* line), "HOST", "AUTH", "CTYPE", "COOKIE" and "NOCOOKIE" (the other      *)
(* header lines; "Cookie: (null);" is what a missing cookie prints), "CL"  *)
(* and its "D"s as in HttpReceive, and "B", any other byte of a body.      *)
(***************************************************************************)
EXTENDS HttpReceive, FiniteSets

CONSTANTS
    Requests,      \* what the handlers ask for
    NULL           \* no cookies, no body, no request

Methods == {"GET", "POST", "PUT", "DELETE"}
BodySymbols == {"CL", "D", "COOKIE", "B"}
LineSymbols == Methods \cup {"HOST", "AUTH", "CTYPE", "NOCOOKIE"} \cup BodySymbols
MessageSymbols == LineSymbols \cup {"CR", "LF"}

ASSUME RequestsAssumption ==
    \A r \in Requests :
        /\ r.method \in Methods /\ r.jwt \in BOOLEAN
        /\ r.cookies \in {NULL, <<"COOKIE">>, <<"NOCOOKIE">>}
        /\ IF r.method \in {"POST", "PUT"}
           THEN r.body_data \in Seq(Seq(BodySymbols))
           ELSE r.body_data = NULL

\* A request as the server understands it.
Heard == [method : Methods, jwt : BOOLEAN, cookie : BOOLEAN, json : BOOLEAN,
          body : Seq(BodySymbols)]

ASSUME NullAssumption ==
    NULL \notin Requests \cup Heard \cup Seq(Seq(BodySymbols))
                \cup {<<"COOKIE">>, <<"NOCOOKIE">>}

VARIABLES
    request,       \* the exchange's request, or NULL before the first
    message,       \* what send_to_server() has still to write
    uplink,        \* written, and not taken by the server
    heard          \* server: the request it has taken, or NULL

exchange == <<request, message, uplink, heard>>
allvars == <<vars, exchange>>

InitExchange ==
    /\ Init
    /\ request = NULL /\ message = <<>> /\ uplink = <<>> /\ heard = NULL

-----------------------------------------------------------------------------
\* requests.c

compute_message(message_, line) == message_ \o line \o <<"CR", "LF">>

Number(n) == [i \in 1 .. n |-> "D"]

\* The lines all requests begin with, and the token's.
Start(r) ==
    LET method == compute_message(<<>>, <<r.method>>)
        host == compute_message(method, <<"HOST">>)
    IN  IF r.jwt THEN compute_message(host, <<"AUTH">>) ELSE host

\* One line for each of the cookies, if there is an array.
Cookies(message_, cookies) ==
    LET after[i \in 0 .. Len(cookies)] ==
            IF i = 0 THEN message_ ELSE compute_message(after[i - 1], <<cookies[i]>>)
    IN  IF cookies = NULL THEN message_ ELSE after[Len(cookies)]

\* Faulty variant: the cookies come behind the empty line.
compute_split_request(r) == Cookies(compute_message(Start(r), <<>>), r.cookies)

\* compute_get_request(), compute_delete_request().
compute_bodyless_request(r) == compute_message(Cookies(Start(r), r.cookies), <<>>)

\* The fields of the body, with "&" (a "B") between them.
body_data_buffer(body_data) ==
    LET printed[i \in 0 .. Len(body_data)] ==
            CASE i = 0 -> <<>>
              [] i = 1 -> body_data[1]
              [] OTHER -> printed[i - 1] \o <<"B">> \o body_data[i]
    IN  printed[Len(body_data)]

\* The header lines and the body, whose length is announced.
WithBody(r, body, length) ==
    LET type == compute_message(Start(r), <<"CTYPE">>)
        sized == compute_message(type, <<"CL">> \o Number(length))
    IN  compute_message(Cookies(sized, r.cookies), <<>>) \o body

\* Faulty variant: the length is one short.
compute_short_request(r) ==
    LET body == body_data_buffer(r.body_data) IN WithBody(r, body, Len(body) - 1)

\* compute_post_request(), compute_put_request().
compute_body_request(r) ==
    LET body == body_data_buffer(r.body_data) IN WithBody(r, body, Len(body))

compute_request(r) ==
    IF r.method \in {"GET", "DELETE"} THEN compute_bodyless_request(r)
    ELSE compute_body_request(r)

-----------------------------------------------------------------------------
\* send_to_server()

\* A handler composes its request and sends it.
Compose ==
    /\ pc = "idle" /\ message = <<>>
    /\ \E r \in Requests : request' = r /\ message' = compute_request(r)
    /\ heard' = NULL
    /\ UNCHANGED <<vars, uplink>>

\* Faulty variant: one write() is taken to send everything.
WriteOnce ==
    /\ pc = "idle" /\ message # <<>>
    /\ \E n \in 1 .. Len(message) :
          /\ uplink' = IF closed THEN uplink ELSE uplink \o SubSeq(message, 1, n)
          /\ message' = <<>>
    /\ Request
    /\ UNCHANGED <<request, heard>>

\* A turn of the loop: write() takes any part.  What is written to a server
\* that has closed is lost.
Write ==
    /\ pc = "idle" /\ message # <<>>
    /\ \E n \in 1 .. Len(message) :
          /\ uplink' = IF closed THEN uplink ELSE uplink \o SubSeq(message, 1, n)
          /\ message' = SubSeq(message, n + 1, Len(message))
    /\ IF message' = <<>> THEN Request ELSE UNCHANGED vars
    /\ UNCHANGED <<request, heard>>

FailToWrite == message # <<>> /\ WriteError /\ UNCHANGED exchange

-----------------------------------------------------------------------------
\* The server (external)

\* The first "end" symbols of m are its header.
Header(m, end) == end = buffer_find(m, HEADER_TERMINATOR) + Len(HEADER_TERMINATOR)

\* The length a header announces, 0 if it announces none.
Announced(m, end) == Cardinality({k \in 1 .. end : m[k] = "D"})

\* What a message says, if it is one whole request as HTTP frames it.
Understood(m) ==
    {[method |-> m[1], jwt |-> \E k \in 1 .. end : m[k] = "AUTH",
      cookie |-> \E k \in 1 .. end : m[k] = "COOKIE",
      json |-> \E k \in 1 .. end : m[k] = "CTYPE",
      body |-> SubSeq(m, end + 1, Len(m))] :
        end \in {e \in Len(HEADER_TERMINATOR) .. Len(m) :
                    Header(m, e) /\ Len(m) = e + Announced(m, e)}}

Take ==
    /\ ~closed /\ heard = NULL
    /\ \E size \in 1 .. Len(uplink) :
          /\ heard' \in Understood(SubSeq(uplink, 1, size))
          /\ uplink' = SubSeq(uplink, size + 1, Len(uplink))
    /\ UNCHANGED <<vars, request, message>>

Answer == heard # NULL /\ Respond /\ UNCHANGED exchange

\* Nothing more is taken after the connection is closed.
CloseExchange ==
    /\ Close
    /\ uplink' = <<>>
    /\ UNCHANGED <<request, message, heard>>

ReceiveReply == Receive /\ UNCHANGED exchange

DiedExchange == Died /\ UNCHANGED exchange

NextExchange ==
    \/ Compose \/ Write \/ FailToWrite
    \/ Take \/ Answer \/ CloseExchange
    \/ ReceiveReply
    \/ DiedExchange

\* write() and read() go on, and the server takes and answers what it is
\* sent, and closes behind a reply without a length.
ExchangeSpec ==
    /\ InitExchange /\ [][NextExchange]_allvars
    /\ WF_allvars(Write) /\ WF_allvars(ReceiveReply)
    /\ WF_uplink(Take) /\ WF_allvars(Answer)
    /\ WF_allvars(CloseUnframed /\ CloseExchange)

-----------------------------------------------------------------------------
\* Properties

(***************************************************************************)
(* What the server takes is the request the handler meant: its method, the *)
(* token and the cookie that were given, and the body, whole, whatever the *)
(* body says and however write() cut the message.                          *)
(***************************************************************************)
RequestHeard ==
    heard # NULL =>
        /\ heard.method = request.method
        /\ heard.jwt = request.jwt
        /\ heard.cookie = (request.cookies = <<"COOKIE">>)
        /\ heard.json = (request.body_data # NULL)
        /\ heard.body = IF request.body_data = NULL THEN <<>>
                        ELSE body_data_buffer(request.body_data)

(***************************************************************************)
(* Once a call has returned, the server has taken all that was sent: no    *)
(* rest of a request is left in front of the next.                         *)
(***************************************************************************)
UplinkInStep == pc = "idle" /\ message = <<>> /\ ~closed => uplink = <<>>

(***************************************************************************)
(* A request is sent, taken and answered, or the process has died on the   *)
(* connection: neither side waits for bytes the other will not send.       *)
(***************************************************************************)
ExchangeEnds == message # <<>> ~> pc = "died" \/ (pc = "idle" /\ message = <<>>)

-----------------------------------------------------------------------------
(***************************************************************************)
(* The inductive invariant, on top of that of HttpReceive: while a request *)
(* is being sent, what lies in the uplink and what is still to be written  *)
(* are, together, the request; the server takes it only when all of it is  *)
(* there, and answers only what it has taken.                              *)
(***************************************************************************)
Sending == message # <<>> => pc \in {"idle", "died"}

UplinkHolds ==
    /\ heard # NULL \/ message # <<>> \/ pc \in {"head", "body"} => request \in Requests
    /\ closed => uplink = <<>>
    /\ ~closed /\ message # <<>> =>
          heard = NULL /\ uplink \o message = compute_request(request)
    /\ ~closed /\ message = <<>> =>
          IF pc # "idle" /\ heard = NULL
          THEN waiting /\ uplink = compute_request(request)
          ELSE uplink = <<>>

ExchangeIInv ==
    /\ message \in Seq(MessageSymbols) /\ uplink \in Seq(MessageSymbols)
    /\ Sending
    /\ pc = "died" => closed
    /\ UplinkHolds
    /\ RequestHeard
=============================================================================
