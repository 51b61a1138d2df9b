---------------------------- MODULE HttpReceive ----------------------------
(***************************************************************************)
(* receive_from_server(): one HTTP reply is put together from however many *)
(* pieces read() delivers.  A first loop reads until the end of the header *)
(* and a "Content-Length: " are in the buffer, a second one until the size *)
(* they announce, and the end of the stream ends both.  The connection is  *)
(* kept for all the exchanges of the client, so a byte too few or too many *)
(* would also spoil the next reply.                                        *)
(*                                                                         *)
(* A reply is a sequence of symbols: "CR", "LF", "CL" (the text            *)
(* "Content-Length: ", in any case), "D" (one unit of the number after it: *)
(* n digits D stand for the number n), "X" (any other header byte) and "B" *)
(* (any other body byte).                                                  *)
(***************************************************************************)
EXTENDS Integers, Sequences

CONSTANTS
    Responses,     \* the replies the server can send
    BUFLEN,        \* the most symbols one read() returns
    SizeBits       \* the width of size_t

HEADER_TERMINATOR == <<"CR", "LF", "CR", "LF">>
CONTENT_LENGTH == <<"CL">>

ASSUME ResponsesAssumption == Responses \subseteq Seq({"CR", "LF", "CL", "D", "X", "B"})
ASSUME BuflenAssumption == BUFLEN \in Nat \ {0}
\* That a power of 2 is positive is arithmetic the provers do not know.
ASSUME SizeAssumption ==
    /\ SizeBits \in Nat /\ 2 ^ SizeBits > 0
    /\ \A r \in Responses : 2 * Len(r) < 2 ^ SizeBits - 1

VARIABLES
    pc,                \* "idle", in the "head" loop, in the "body" loop, "died"
    buffer,            \* what has been read of the reply
    header_end,        \* the int of the code: -1 while the header is incomplete
    content_length,
    total,             \* the size_t the second loop waits for
    returned,          \* what the last call returned
    waiting,           \* server: has it to answer a request?
    response,          \* server: its reply to the last request
    wire,              \* sent and not read yet
    closed             \* has the server closed the connection?

call == <<buffer, header_end, content_length, total>>
server == <<waiting, response, wire, closed>>
vars == <<pc, call, returned, server>>

Init ==
    /\ pc = "idle"
    /\ buffer = <<>> /\ header_end = 0 /\ content_length = 0 /\ total = 0
    /\ returned = <<>>
    /\ waiting = FALSE /\ response = <<>> /\ wire = <<>> /\ closed = FALSE

-----------------------------------------------------------------------------
\* Faulty variant: the last match.
FindLast(buf, pattern) ==
    LET at == {i \in 0 .. Len(buf) - Len(pattern) :
                 SubSeq(buf, i + 1, i + Len(pattern)) = pattern}
    IN  IF at = {} THEN -1 ELSE CHOOSE i \in at : \A j \in at : j <= i

\* The first place, from 0, where the pattern lies in the buffer, or -1.
buffer_find(buf, pattern) ==
    LET at == {i \in 0 .. Len(buf) - Len(pattern) :
                 SubSeq(buf, i + 1, i + Len(pattern)) = pattern}
    IN  IF at = {} THEN -1 ELSE CHOOSE i \in at : \A j \in at : i <= j

\* The number that starts behind the first n symbols.
strtol(buf, n) ==
    CHOOSE k \in 0 .. Len(buf) - n :
        /\ \A i \in 1 .. k : buf[n + i] = "D"
        /\ n + k < Len(buf) => buf[n + k + 1] # "D"

\* Faulty variant: the sum is kept in an int.
IntTotal(length, end) == length + end

\* Faulty variant: one byte of the header is forgotten.
ShortTotal(length, end) == (length + end - 1) % 2 ^ SizeBits

\* content_length + (size_t) header_end: unsigned, so that -1 wraps around.
Total(length, end) == (length + end) % 2 ^ SizeBits

-----------------------------------------------------------------------------
\* The last byte of a request is sent, and receive_from_server() is called.
Request ==
    /\ pc = "idle"
    /\ pc' = "head"
    /\ buffer' = <<>> /\ header_end' = 0 /\ content_length' = 0 /\ total' = 0
    /\ waiting' = ~closed /\ response' = <<>>
    /\ UNCHANGED <<returned, wire, closed>>

\* write() fails on a closed connection: error() exits.
WriteError ==
    /\ pc = "idle" /\ closed
    /\ pc' = "died"
    /\ UNCHANGED <<call, returned, server>>

\* The server (external) answers.
Respond ==
    /\ waiting /\ ~closed
    /\ waiting' = FALSE
    /\ response' \in Responses
    /\ wire' = wire \o response'
    /\ UNCHANGED <<pc, call, returned, closed>>

\* read() and buffer_add(): any first part of what has arrived.
Read ==
    \E n \in 1 .. BUFLEN :
        /\ n <= Len(wire)
        /\ buffer' = buffer \o SubSeq(wire, 1, n)
        /\ wire' = SubSeq(wire, n + 1, Len(wire))

\* read() returns 0.
Eof == closed /\ wire = <<>>

\* Faulty variant: the terminator is looked for in the new piece only.
ReadHeadPiece ==
    /\ pc = "head"
    /\ Read
    /\ LET end == buffer_find(SubSeq(buffer', Len(buffer) + 1, Len(buffer')), HEADER_TERMINATOR)
           start == buffer_find(buffer', CONTENT_LENGTH)
       IN  IF end < 0 \/ start < 0
           THEN header_end' = end /\ UNCHANGED <<pc, content_length, total>>
           ELSE /\ header_end' = Len(buffer) + end + Len(HEADER_TERMINATOR)
                /\ content_length' = strtol(buffer', start + Len(CONTENT_LENGTH))
                /\ total' = Total(content_length', header_end')
                /\ pc' = "body"
    /\ UNCHANGED <<returned, waiting, response, closed>>

\* A turn of the first loop: without the whole header, or without a length
\* in what has been read, it reads on.
ReadHead ==
    /\ pc = "head"
    /\ Read
    /\ LET end == buffer_find(buffer', HEADER_TERMINATOR)
           start == buffer_find(buffer', CONTENT_LENGTH)
       IN  /\ header_end' = IF end < 0 THEN end ELSE end + Len(HEADER_TERMINATOR)
           /\ IF end < 0 \/ start < 0
              THEN UNCHANGED <<pc, content_length, total>>
              ELSE /\ content_length' = strtol(buffer', start + Len(CONTENT_LENGTH))
                   /\ total' = Total(content_length', header_end')
                   /\ pc' = "body"
    /\ UNCHANGED <<returned, waiting, response, closed>>

\* The stream ends in the first loop: the size comes from what was found.
EofHead ==
    /\ pc = "head" /\ Eof
    /\ pc' = "body"
    /\ total' = Total(content_length, header_end)
    /\ UNCHANGED <<buffer, header_end, content_length, returned, server>>

ReadBody ==
    /\ pc = "body" /\ Len(buffer) < total
    /\ Read
    /\ UNCHANGED <<pc, header_end, content_length, total, returned, waiting, response, closed>>

\* The size is reached, or the stream ends in the second loop.
Return ==
    /\ pc = "body" /\ (Len(buffer) >= total \/ Eof)
    /\ pc' = "idle" /\ returned' = buffer
    /\ UNCHANGED <<call, server>>

\* read() fails on a reset connection: error() exits.
ReadError ==
    /\ pc \in {"head", "body"} /\ closed
    /\ pc = "body" => Len(buffer) < total
    /\ pc' = "died"
    /\ UNCHANGED <<call, returned, server>>

\* The server (external) closes: before its reply, after it or in the middle.
Close ==
    /\ ~closed /\ pc # "died"
    /\ closed' = TRUE /\ waiting' = FALSE
    /\ \E n \in 0 .. Len(wire) : wire' = SubSeq(wire, 1, n)
    /\ UNCHANGED <<pc, call, returned, response>>

Died == pc = "died" /\ UNCHANGED vars

Receive == ReadHead \/ EofHead \/ ReadBody \/ Return \/ ReadError

Next == Request \/ WriteError \/ Respond \/ Receive \/ Close \/ Died

Spec == Init /\ [][Next]_vars

\* i is the first place, from 0, where the pattern lies in r.
FirstAt(r, pattern, i) ==
    /\ i + Len(pattern) <= Len(r)
    /\ \A k \in 1 .. Len(pattern) : r[i + k] = pattern[k]
    /\ \A j \in 0 .. i - 1 : \E k \in 1 .. Len(pattern) : r[j + k] # pattern[k]

\* A reply whose header, the part before the first empty line, gives the
\* length of its body.
Framed(r) ==
    \E start, end, length \in 0 .. Len(r) :
        /\ FirstAt(r, CONTENT_LENGTH, start) /\ FirstAt(r, HEADER_TERMINATOR, end)
        /\ start < end
        /\ end + Len(HEADER_TERMINATOR) + length = Len(r)
        /\ \A i \in 1 .. length : r[start + 1 + i] = "D"
        /\ r[start + 1 + length + 1] # "D"

\* The server (external): the length a header gives is true, and a reply that
\* gives none does not speak of one in its body.
ASSUME FramingAssumption ==
    \A r \in Responses : Framed(r) \/ \A i \in 1 .. Len(r) : r[i] # "CL"

\* A server that sends a reply without a length marks its end by closing, as
\* HTTP asks of it.
CloseUnframed == ~Framed(response) /\ pc = "head" /\ ~waiting /\ wire = <<>> /\ Close

\* The client reads while there is something to read; the server answers.
FairSpec ==
    /\ Spec
    /\ WF_vars(Receive) /\ WF_vars(Respond) /\ WF_vars(CloseUnframed)

-----------------------------------------------------------------------------
\* Properties

\* The sizes of receive_from_server() stay in their types: header_end is -1
\* until the header is whole, and the unsigned total is never negative.
TypeOK ==
    /\ pc \in {"idle", "head", "body", "died"}
    /\ header_end \in -1 .. 2 ^ SizeBits - 1
    /\ content_length \in 0 .. 2 ^ SizeBits - 1
    /\ total \in 0 .. 2 ^ SizeBits - 1
    /\ {buffer, returned, response, wire} \subseteq Seq({"CR", "LF", "CL", "D", "X", "B"})
    /\ {waiting, closed} \subseteq BOOLEAN
    /\ waiting => pc \in {"head", "body"} /\ wire = <<>>

Prefix(s, t) == Len(s) <= Len(t) /\ s = SubSeq(t, 1, Len(s))

(***************************************************************************)
(* However its bytes were cut into pieces, the call returns the reply to   *)
(* the request just sent, the whole of it; a part of it, perhaps nothing,  *)
(* only if the server has closed the connection.                           *)
(***************************************************************************)
ReturnsReply ==
    pc = "idle" =>
        /\ Prefix(returned, response)
        /\ returned # response => closed

(***************************************************************************)
(* Between two exchanges nothing of a reply is left unread: the next call  *)
(* starts at the first byte of the next reply.                             *)
(***************************************************************************)
ConnectionInStep == pc = "idle" /\ ~closed => wire = <<>>

(***************************************************************************)
(* A call returns, or the process has died on a reset: it does not wait    *)
(* for bytes beyond the reply, wherever the pieces were cut.               *)
(***************************************************************************)
ReceiveEnds == pc \in {"head", "body"} ~> pc \in {"idle", "died"}

-----------------------------------------------------------------------------
(***************************************************************************)
(* The inductive invariant: what has been read and what is under way are,  *)
(* together, the reply sent or, on a closed connection, a first part of    *)
(* it; and the size the second loop waits for is the reply's, unless the   *)
(* stream has ended.                                                       *)
(***************************************************************************)
IInv ==
    /\ TypeOK
    /\ response \in Responses \cup {<<>>}
    /\ waiting => pc = "head" /\ ~closed /\ response = <<>> /\ buffer = <<>>
    /\ pc = "idle" =>
          wire = <<>> /\ Prefix(returned, response) /\ (returned # response => closed)
    /\ pc \in {"head", "body"} =>
          /\ Prefix(buffer \o wire, response)
          /\ ~closed /\ ~waiting => buffer \o wire = response
    /\ pc = "body" => Eof \/ total = Len(response)
=============================================================================
