# A verification of the REST command-line client

The program under `src/` is a command-line client, written in C, for a web
service that keeps users, movies and collections of movies. It opens one TCP
connection, reads commands from the keyboard, sends one HTTP request at a time
(`add_collection` sends several), and keeps a session cookie for the admin, one
for the user, and the user's JWT. The requests' JSON is built, and the replies' JSON
read, with the bundled library parson.

This directory holds TLA+ modules that model the program, configurations that
check them with TLC, and proofs checked by TLAPS. `PROJECT.json` maps every
definition to the lines it models.

    tlc -config SessionHonest.cfg MCSessionClient.tla     # one run
    tlapm SessionClient_proofs.tla                        # the proofs

## The parts of the program

| Part | State | Operations | Talks to |
|---|---|---|---|
| Command loop, `main()` | the array `command`, the socket | read a word, dispatch, `exit` | keyboard, handlers |
| Handlers, `client.c` | three globals: `admin_session_cookie`, `user_session_cookie`, `jwt_token` | nineteen commands: read input, refuse it, send, receive, check, store | all the others |
| Collections, `client.c:646-828` | the id and the typed movies of a collection under construction | `add_collection` (create, add each movie, delete on error) and three more | handlers, server |
| Keyboard | what is typed and not read | `getchar`, `fgets`, `scanf` | main loop and handlers share one `stdin` |
| Transport, `helper.c:24-71` | the connection | open, send all in as many writes as it takes, close | server |
| Reply framing, `helper.c:73-126`, `buffer.c` | the growing buffer, the header's end, the length | two loops of `read()` | server |
| Reading replies, `helper.c:128-336` | none | error check, cookie, token, listings | parson |
| Requests, `requests.c` | fixed-size buffers | GET, POST, PUT, DELETE | handlers |
| JSON objects, `parson.c:440-718` | cells, items, capacity | init, look up, add, set, remove, clear, free | parser, handlers |
| JSON arrays and ownership | items, `parent` pointers | append, replace, remove, copy, dotted access | objects |
| JSON parser, serializer | the position in the text | recursive descent; measure, then write | objects, arrays |
| JSON comparison, validation | none | `json_value_equals`, `json_validate` | objects, arrays |

The program is one thread. What is hard about it is not parallelism within it
but the other sides of its three interfaces: the server, which may refuse, expire a
session, cut a reply into pieces, or close, between any two of the client's
steps; the user, whose lines are shared by reads written in different places;
and the long sequences of legal calls that lead to a stale pointer or a hash
table with a lost entry.

What makes each part correct:

* credentials: no pointer dangles, none is freed twice, a credential belongs to
  the session it is used for, and the client's and the server's view of the
  sessions agree;
* messages: what is printed is what the server did;
* collections: a collection is complete or gone, and no other is touched;
* framing: one reply is returned per request, whole, however it is cut, and
  the server takes from the connection the requests that were asked for, however
  they are written;
* keyboard: each answer goes to the prompt it was typed at;
* JSON objects: the hash table is a map that owns its values;
* JSON values: each has one owner, whichever allocation fails in whichever
  call; a call changes the document it names and in the place it names; what is
  written is read back.

The list of hazards in `PROJECT.json` gives, for each, the line and the
properties that would catch it.

## The modules

**Handlers** is a table, a row for each handler: its keyboard reads, whether it
refuses blanks, its request, the credentials the request carries, and
what it does with a credential on success. The control flow all handlers share is written
once, in the modules that use the table.

**SessionClient** is the core: the main loop, an exchange (`Send`, the server's
`Perform` or `Refuse`, `Receive`), the globals as pointers into a `heap` of
blocks, the connection and the server's sessions. `pc` says where the client is,
`command` which command was typed and `op` whose exchange is under way (they
differ within `add_collection`). `Store`, `StoreCredential` and `Exit` are the
assignments and `free()`s of `client.c`: a login allocates a block and
overwrites the pointer without freeing what it had. `HandleReply` is
`check_for_error_and_print` and what follows it: a reply is an error, a success,
or *blank*, without JSON, which is also what `receive_from_server` returns at the
end of the stream; the two logins and `get_movie` dereference something missing in a
blank reply, and the process dies, a login after it has printed SUCCESS. The server is external: it is known
only from what the handlers expect. `Faults` says what it may do beyond
that: `opaque` (a refusal without JSON), `close`, `expire`.

**Credentials** is the abstract specification: three credentials without memory.
A login sets the admin or the user, `get_access` gives the user whose
cookie is in hand a token, a logout drops what belongs together.
`CredentialsSpec` says SessionClient implements it. A token may be lost (`LoseAccess`)
only if replies can be blank (`Lossy`).

**HttpReceive** is `receive_from_server` on a stream of symbols: CR, LF, `CL` for
the text `Content-Length: `, digits, header and body bytes. A `read()` takes any first
part of what has arrived, up to `BUFLEN`. The length is the number of digits behind `CL` (a
unary code, so that cutting it short changes it). `Total` wraps at `2 ^ SizeBits`
as `size_t` does. Several exchanges follow one another on one connection, so an
exchange that leaves bytes behind disturbs the next. The module is open on the other
side: `Request`, `Respond` and `WriteError` are what the sender does to it.

**HttpExchange** extends it to whole exchanges. `compute_request` builds the message line
by line as the four functions of `requests.c` do, the method's line or a header line as one symbol
and the body's length in the same unary code; `Write` passes on any part of it; the server
takes what HTTP says is the first request (`Understood`), remembers it in `heard`, and answers.
A request that announces a byte too many, or has its lines in the wrong order,
is therefore visible in this exchange or in the next. How the server frames a reply
(`Framed`) is said symbol by symbol, without the operators that model the client's search,
so that an error in those cannot also redefine what a good reply is.

**Collections** is the four handlers that change a collection, with the collections
of the server, and **Library** what they promise: `add_collection` is one step. Under the
refinement a collection under construction does not count until its command is over. Of the
negative movie ids only two are told apart: `ASK`, for which the code asks once more, and `UNKNOWN`, the
negative answer to its last question, which is sent as it is and refused.

**CommandInput** is the keyboard. `stdin` is a sequence of symbols, each remembering
the prompt it was typed at; the handlers' reads are those of Handlers. The user
is careful, one fitting line for each prompt, or types odd lines and may close the input.
A line of `LINELEN` symbols or more is taken by `fgets` in pieces; `split` says that this
has happened to the handler's input, after which text may well be taken for a command.

**JsonObject** is parson's hash table: linear probing, growth that adds every
item again, and a removal that moves the last item and shifts the run of used
cells back (`ShiftBack`, over the cells as the code walks them). `owner` says who has to free each
value. **JsonMap** is the map it implements; `MapSpec` sees the table
through `json_object_getn_value`.

**JsonValue** is parson's values in memory: blocks with a type, a parent and, for arrays
and objects, their items. Each function is an operator from one memory to the next, and a
memory carries the number of allocations that will still succeed (`fuel`), so that every call
can be made to fail at every one of its allocations. An object's table, JsonObject's subject,
is two lists here. Growth costs an allocation on every addition, which
covers an addition that finds room as well as one that does not. What the code does by recursion
is stated without it, so that it can be proved about: the blocks that `json_value_free` visits are the
least set with the value and the items of its members (`Below`); the objects a dotted name leads through (`Way`) and
those it makes (`SetMaking`) are functions of the position in the name; the deep copy, `json_value_equals` and `json_validate` are functions of the depth.
**JsonParser** is the parser, on texts that are sequences of symbols: its descent is a function of the levels of nesting that
are left, its loops functions of the number of their turns (`ParseItem` is one turn, of the loop over the members and of the one over the items).
**JsonTree** is a caller that makes any of the
calls in any order; it frees what it holds (`roots`), and does not add a value to
one below itself, which parson does not check. `returned` are the values that a dotted setter gave
back when it failed: their parent may be a block that is free (`parson.c:2209`),
so they can be freed but not added anywhere. A pointer to a freed block is
`FREE` in the model, whatever becomes of the block. `SetMeansSet` is said of blocks: a value is untouched
when it and all below it keep their types, texts, names and items (`Untouched`). `Doc` is a value without
its memory, its members a function of their names. **JsonDocuments** is what all this
implements: documents as pure values, of which a call makes, drops, changes or moves one.
**JsonSerializer** writes a value as the parser's symbols. **JsonMeaning** relates a value to its documents and its texts.
JsonSerializer and JsonDocuments are recursive, and all three hence for TLC only.

**SessionClient_proofs**, **Collections_proofs**, **HttpExchange_proofs**, **CommandInput_proofs**,
**JsonObject_proofs** and **JsonTree_proofs** hold the theorems about the module of their name;
HttpExchange_proofs also those about HttpReceive (`Invariance` to `StaysInStep`), **JsonCompare_proofs**
those about comparison, validation and copies in JsonTree (`ComparesDocuments`, `LevelsSuffice`,
`CopiesAreEqual`), and **NatSets** what they share about sets of numbers. Each inductive invariant stands
at the end of the module it is about, where TLC can check it; that of JsonTree stands in JsonTree_proofs.

The definitions named as faulty variants are the plausible bugs each property is tried against;
no specification uses them. The `MC*` modules and the `.cfg` files give instances.

## The runs

| Run | Asks | Bounds |
|---|---|---|
| `session_honest` | credentials, messages and sessions with all nineteen handlers and a server without faults | 3 sessions, 4 blocks, 2 movies |
| `session_faults` | the inductive invariant and the refinement under every fault | the commands that change a credential and one of each other kind; 3 sessions, 4 blocks, 1 movie |
| `session_live` | every command ends | 2 sessions, 2 blocks, 2 movies, the server may close |
| `session_leak` | does `exit` free all? (violated) | 2 sessions, 3 blocks |
| `session_closed` | does SUCCESS mean executed? (violated) | 2 sessions, 3 blocks |
| `http_receive` | each side gets what the other sent, once and whole; nothing left over; calls return | four replies, five requests, reads of up to 5 symbols, writes of any size, 6-bit sizes |
| `collections` | the inductive invariant; all or nothing; no other collection touched; Library implemented | 2 ids, 2 movies, up to 3 typed |
| `collections_expire` | does an error delete the collection? (violated) | 2 ids, 2 movies, up to 2 typed |
| `command_input` | answers in step; text is no command | nine odd lines, 8 symbols waiting, `fgets` of 4 symbols |
| `input_end` | was the dispatched command read? (violated) | the same |
| `json_object` | the inductive invariant; the table is consistent, finds every name and is a map | 5 colliding names, 5 values, 4 cells to begin with |
| `json_tree` | one owner; parents; setters; documents written, read, compared and changed as what they are | 4 blocks, 2 documents held at once, names with up to 2 dots, up to 8 allocations, nesting of 2, 4 texts |

Why these bounds are enough to be interesting. Three sessions and four blocks
are the smallest in which an admin, a user and a second login of the same user,
with a token of the first, exist together; the bound on blocks sits in the guard of `Perform`, which
then offers no further credential. Two movies let `add_collection` fail at its
first, at its last and after its last movie. The replies of `http_receive` are longer
than one read, and a read may take any part of what has arrived, so that the header's end and the length are cut at every place, and
the 6-bit size holds every length while `-1` still wraps. The names of `json_object` collide in
one cell, in neighbouring cells and around the end of the table, two of them with equal hashes;
five names force a table of four cells (two items) to grow to eight, whose five
items are then full. In the code the first table has 16 cells; `STARTING_CAPACITY` is a constant.
Four blocks in `json_tree` are enough for a name with two dots that has to make
both objects on the way to the caller's value, for a container of two items with one more
to move into it, for a copy of a container with an item, and for values nested one deeper than the parser
accepts; two documents are what a move needs. No call of the model allocates more than eight times. Two objects of two members
do not fit, so `EqualsIsStructural` also compares each object with one that has its members the other way round.

Sessions, and the blocks and values of both heaps, are interchangeable and are declared symmetric in runs
of safety properties only.

### What the violated runs show

* `session_leak`: `login; login; exit` leaves the first cookie in memory.
  README.md:10 of the repository says that allocated resources are freed.
* `session_closed`: once the server has closed the connection, the client prints
  SUCCESS for what the server never saw. README.md:9 speaks of operations that are executed until
  `exit`.
* `collections_expire`: the deletion after a refused movie can be refused too; the
  comment of client.c:773 promises the deletion. The movie may be refused for any reason; the
  session has expired when the deletion is sent.
* `input_end`: at the end of `stdin` the last command is dispatched
  again, without end. README.md:8 says that a command is read and dispatched.

### Fairness

`session_live` assumes weak fairness of the client's `Send` and `Receive` (one
thread, which goes on with its next statement when the call it waits in returns)
and of the server's answer to a request it has received. Nothing is assumed
of the user, of `Close`, or of a session's end. `http_receive` assumes weak fairness of the calls to
`write()` and `read()`, of the server's taking and answering a request it has received whole,
and that a server which sends a reply without a length closes the connection after it,
as HTTP asks; without that the client would indeed wait for ever (`helper.c:100`).

## What is proved

Each theorem below holds for every value of the constants that satisfies the
module's assumptions.

| Module | Theorem | States |
|---|---|---|
| SessionClient | `Invariance` | `Spec => []IInv` |
| | `TypeCorrect`, `CredentialsSafe`, `TokenWithCookie`, `OutcomesTrue` | the four properties that are parts of `IInv` |
| | `NoSessionForgotten`, `CookiesStayLive` | `SessionsAccountedFor`, `CookiesAreLive` |
| | `ImplementsCredentials` | `Spec => CredentialsSpec` |
| Collections | `Invariance`, `TypeCorrect` | `Spec => []IInv`, `TypeOK` |
| | `AllOrNothing`, `LeavesOthersAlone` | `CompleteOrGone`, the action property `OthersUntouched` |
| | `ImplementsLibrary` | `Spec => LibrarySpec` |
| HttpReceive | `Invariance`, `TypeCorrect` | `Spec => []IInv`, `TypeOK` |
| | `ReturnsWhole`, `StaysInStep` | `ReturnsReply`, `ConnectionInStep` |
| HttpExchange | `ExchangeReceives`, `ExchangeInStep` | an exchange is a behaviour of HttpReceive, so that module's properties hold in it |
| | `ExchangeInvariance` | `ExchangeSpec => [](IInv /\ ExchangeIInv)` |
| | `HeardRight`, `UplinkStaysInStep` | `RequestHeard`, `UplinkInStep` |
| CommandInput | `Invariance`, `TypeCorrect` | `Spec => []IInv`, `TypeOK` |
| | `EachAnswerInStep`, `TextStaysText` | `AnswersInStep`, `TextIsNoCommand` |
| JsonObject | `Invariance`, `TypeCorrect` | `Spec => []IInv`, `TypeOK` |
| | `CellsAgree`, `NamesFound`, `RoomForAll`, `OwnsValues` | `LinksAgree`, `EveryNameFound`, `ProbeFindsRoom`, `OwnsItsValues` |
| | `ImplementsMap` | `Spec => MapSpec` |
| JsonTree | `Trees` | `Spec => []IInv` |
| | `TypeCorrect`, `OwnedOnce`, `ParentsKept` | `TypeOK`, `OneOwner`, `ParentsAgree` |
| | `SetsWhatItNames` | `SetMeansSet` |
| | `ComparesDocuments` | `EqualsIsStructural` |
| | `LevelsSuffice` | comparison, validation, copies and documents are what the items' make them |
| | `CopiesAreEqual` | a deep copy is the same document and changes nothing else; one that fails leaves no trace |

### From which assumptions

Most say what kind of value a constant is. Those that say more:

* `NullAssumption` (four modules): `NULL` is none of the values it stands apart from.
* SessionClient and Collections: `Faults` names only faults the modules know; ids are numbers from 1 on.
* `SizeAssumption`: twice a reply's length fits `size_t`. (That `2 ^ SizeBits` is positive is
  stated too, since the provers do not know powers.)
* `FramingAssumption`, about the server: a reply either is framed, with a header that
  gives the true length of its body, or does not contain the text `Content-Length: ` anywhere. A reply without
  a length whose body speaks of one would indeed mislead the client.
* `RequestsAssumption`, about the handlers: a body is fields of body symbols, which hold no
  line ends. The client sends JSON in one line.
* `LinelenAssumption`: `fgets` takes at least two characters.
* `CapacityAssumption`: the smallest table has room for an item; parson's has 16 cells.
  `HashAssumption`: a hash is a natural number; nothing is said of collisions.
* `NodesAssumption` (JsonTree): there are finitely many blocks. `PathsAssumption`: a dotted name has at least one name in it.
  `ScalarsAssumption`: a scalar is no array and no object. (That two words are strings, `EscapesAssumption`, is stated since the
  provers do not know it.)

### Along which arguments

None of the properties is inductive as it stands.

*SessionClient.* A reply in flight could bring the wrong
kind of session. `OneInFlight` adds what an exchange keeps: at most one message
is in flight, and only while the client waits for it; the request is still the
one the globals stand for, since nothing changes them before the reply; a reply
answers the handler that waits, so a login's session was opened in its role, and
a token is of the session whose cookie is still in hand. Storing and clearing credentials
have lemmas of their own (`StoreKeeps`, `ClearAdminKeeps`, `ClearUserKeeps`), whose point is that a new
block was free and a cleared block is behind no other global. The refinement uses
the same invariant: a store writes a free block, so what the other pointers
show stays the same. `LiveInv` on top of it says where the cookie of each live session
is, in memory or in the reply to its login, and that the reply to a logout confirms
that the session about to be dropped is closed.

*Collections.* `CompleteOrGone` speaks of the end of `add_collection` only. `InFlight` and
`Commanded` say what the requests on the way can do, `OwnContents` that the collection holds only movies that
have been handed out, and `KeepsStep` that without trouble it holds all of them.
`ImplementsLibrary` shows that the steps in between are stutters of Library.

*HttpReceive.* What is in the buffer and on the wire are, together, the reply or, after a
close, a first part of it; and in the second loop the size waited for is the reply's length, or the stream has
ended. The lemmas on prefixes carry this over a read of any size; `SizeFound` shows
that what `buffer_find` and `strtol` find in a part of the reply is what they would find in the whole,
and that neither sum overflows.

*HttpExchange.* What is in the uplink and what is still to be written are, together, the
request; so the server, which takes only whole requests, must be shown to see none in a proper prefix. `Lined` says
what the lines written so far look like (a carriage return never follows a line feed), which
`LineAdded` keeps for every line; hence the first empty line is the one `requests.c` writes last
(`HeaderEnds`), the announced digits are as many as the body's symbols (`LengthAdded`), and `Taken`
concludes that only the whole message is a request and that it says what was meant (`Composed`),
whatever the body says.

*CommandInput.* `AnswersInStep` depends on how many newlines are left in `stdin`. `Fits` says of the
reads to come that a `getchar()` stands exactly where one newline is left, and `Holds` that `stdin` is such a newline, if any,
and the rest of one answer. `TextIsNext` says that a line of text waits for `fgets` and
nothing is typed behind it.

*JsonObject.* `Named`, `Placed`, `Backed` and `Uncut` describe the table: names occur once, items
and cells point at each other, and the probe for an item meets no empty cell. They do not hold in the
middle of a removal, after the last item has moved and while the cells shift back. They are therefore stated
with the cell about to be freed as a parameter, the gap: a turn of the loop (`TurnKeeps`) either leaves the
table as it is or moves an entry into the gap, which moves the gap, and `GapFreed` ends it. `MayMovePasses` is
the fact about the ring of cells on which the code's comparison of three positions rests. `Roomy`
says that a table is never full, which is why a probe ends.

*JsonTree.* `IInv` says that every block is a well-formed value or free, without an item or a name that is there twice (`Sound`), that the blocks form trees
(`Forest`: what is not held by the caller is in the container its parent names, in one place, and every set of values has one that no
other of the set holds),
and that the caller's values have no parent, or are among those a failed setter returned (`Loose`). That last part is the strengthening: one owner alone would allow a ring of containers that nobody can free. Three lemmas on heaps carry the trees over every change: `Attach` (a root goes below a container that
is not below it), `Detach` (an item becomes a root) and `Prune` (a root and all below it are freed). On them rest a lemma
for each operation (`FineInit`, `FineFree`, `FineArrayAdd`, ..., over memories: `Fine`), and on these one for each call. Two calls are long. A dotted set that makes
objects builds them from the inside out, and between two steps the heap holds a chain of new objects around the caller's
value (`Progress`, by induction over the names): every way out of memory must free that chain and not the value, and `PutGiveUp` shows that the removal finds
the value at its end, by the same names. A deep copy that fails half way must free what it has copied and nothing else:
`Copies` says that an operation leaves every block it found as it was (`Kept`) and returns a root, and is carried over the items
and then over the depth (`FineCopyItem`, `FineCopyBy`, `FineDeepCopy`). The parser is proved the same way (`ItemRead`, `ContainerReads`, `FineParse`): whatever
the text, and wherever it stops making sense, what had been read of it is freed once.

`SetsWhatItNames` needs, on top of ownership, where the value went: `SetAt` says that there is a way of objects from the one that was
given to the value, of which one was there and has changed in that name only (`Placed`), those before it were there and those after it are new.
`SetPlace` shows that nothing on that way was freed with the value that was replaced. The rest is about trees: two ways from the same
object to values of which one is below the other go by the same names (`WaysApart`), since different names lead
to items that have nothing in common (`Siblings`). So a name that does not go on from the one that was set finds what it found
(`SetKeepsNames`).

`ComparesDocuments` goes by the levels of the recursion: at each, the comparison holds of two values exactly if their documents
agree to that depth (`Compared`), and validation does not tell such values apart (`Validated`). One level
rests on `Matched`, to which both the comparison (`EqualMatched`) and the documents (`DocMatched`) come down. There the
code looks only for the names of the one object in the other, and counts: that the names are the same follows because no name is there twice
(`AsManyNames`). `LevelsSuffice` shows that the levels do not run out: below each item there is less than below its container (`SmallerBelow`).
For the deep copy that has to hold in the memory of each step, and does because what was there is kept (`KeptBelow`).

`CopiesAreEqual` goes along with the copying: `Paired` says that a set of pairs of an old and a new value has the pair of the value and its copy,
and with each pair those of its items, in their order and under the same names (`Twins`). An item's copy brings its own pairs, which adding it
to the container leaves as they are (`PairedItem`), and the container's own pair comes last (`AllCopied`). Paired values are described alike at every
level (`TwinsAreSame`), hence by `Compared` equal for the code. That a failed copy leaves the memory exactly as it was follows from
who owns what: a block more would have no owner (`NothingLeft`).

The walks over cells, fields, lines, names and items are recursive functions. The induction theorems of the
library take an operator, which the provers cannot instantiate, so NatSets has induction on a *set* of
numbers (`SetInduction`, from the well-foundedness of `<`); with it the values of a recursive function
can be bounded or compared for inputs of any length.

Every inductive invariant was checked with TLC on the instance of its module's run before it was
proved (that of JsonTree on `json_tree`'s, as were `Unfolds` and `CopiesDocuments`); `session_faults`, `collections` and `json_object` still check theirs.

### What is only model-checked

* Liveness: `CommandEnds`, `ReceiveEnds`, `ExchangeEnds`. The prover has no rule for fairness and `ENABLED`.
* What JsonMeaning says of documents and texts: `RoundTrip`, `PrefixRefused`, `DocumentsSpec`. The serializer and JsonDocuments
  are recursive over trees, and what a recursive operator computes for every tree is an induction over data, which the prover does not have.
* The four violated properties, which are counterexamples by nature.

## What is not modelled

* The sizes of the buffers a request is printed into (`LINELEN`, `BUFLEN`): messages are
  assumed to fit.
* Numbers in JSON as numbers: they are symbols, compared exactly. `json_value_equals` finds two numbers
  equal that differ by less than 0.000001 (`parson.c:2425`), so `EqualsIsStructural` and its proof hold for
  documents whose numbers are further apart than that, or the same.
* Numbers and keywords in JSON letter by letter (that `parse_number_value` accepts a lone `-`, for one), surrogate escapes and UTF-8, and that
  `json_serialize_to_string` runs the serializer twice, to measure and to write; JSON files,
  comments in JSON, number formats, the allocator hooks. The client uses none of the last four.
* Layout: what the listings look like.
* Undefined behaviour outside the models' inputs: a negative `num_movies`, a word
  longer than `command`.
* The memory of requests and replies, freed on each path but those of
  `get_access` and `add_collection`.
* Assumed of the server: ids start at 1 (0 is what a reply without an id
  reads as), and a session is given to a login only once.
* Assumed of parson's caller: no value is added to itself or to one below it, and a value is
  not used after it was freed.

## Plan

Done: all modules of the plan, and proofs of every safety property but those of JsonMeaning. What is left:

1. **HttpExchange**: an abstract specification of an exchange as one step, a request heard and a reply returned,
   for SessionClient's atomic `Perform` to rest on.
