----------------------------- MODULE JsonParser -----------------------------
(***************************************************************************)
(* parson's parser.  A text is a sequence of symbols: the brackets, ":"    *)
(* and ",", "quote", "bs" (a backslash), whitespace ("sp", "nl"), a number *)
(* or a keyword as one symbol, four hexadecimal digits as one symbol       *)
(* ("0001"), and any other character.  "ctl" is the control character that *)
(* \u0001 stands for.  The recursive descent is a function of the levels   *)
(* that are left, a loop one of its turns.                                 *)
(***************************************************************************)
EXTENDS JsonValue

CONSTANT MAX_NESTING

ASSUME NestingAssumption == MAX_NESTING \in Nat

\* What an escape may stand for; the provers do not know what STRING holds.
ASSUME EscapesAssumption == {"nl", "ctl"} \subseteq STRING

Numbers == {"7", "8"}
Keywords == {"true", "false", "null"}
Brackets == [array |-> <<"[", "]">>, object |-> <<"{", "}">>]

At(t, i) == IF i \in DOMAIN t THEN t[i] ELSE "end"

SKIP_WHITESPACES(t, i) == Min({j \in i .. i + Len(t) : At(t, j) \notin {"sp", "nl"}})

-----------------------------------------------------------------------------
\* Strings

\* Where the string ends that begins with the quote i, or 0: at the first
\* quote without a backslash, but a backslash may itself have one.
skip_quotes(t, i) ==
    LET escaped[j \in i + 1 .. Len(t)] == j > i + 1 /\ t[j - 1] = "bs" /\ ~escaped[j - 1]
        ends == {j \in i + 1 .. Len(t) : t[j] = "quote" /\ ~escaped[j]}
    IN  IF ends = {} THEN 0 ELSE Min(ends)

\* The characters so far, and the escape we are in: "no", "bs", "u", or
\* "error" when there is none like it.
Spelled(chars, escape) == [chars |-> chars, escape |-> escape]

\* One more symbol.
Spell(done, c) ==
    LET Writes(char) == Spelled(Append(done.chars, char), "no")
        Escapes(escape) == Spelled(done.chars, escape)
    IN  CASE done.escape = "no" /\ c = "bs" -> Escapes("bs")
          [] done.escape = "no" /\ c \notin {"bs", "nl", "ctl"} -> Writes(c)
          [] done.escape = "bs" /\ c \in {"quote", "bs", "/"} -> Writes(c)
          [] done.escape = "bs" /\ c = "n" -> Writes("nl")
          [] done.escape = "bs" /\ c = "u" -> Escapes("u")
          [] done.escape = "u" /\ c = "0001" -> Writes("ctl")
          [] OTHER -> Escapes("error")

\* What the symbols between two quotes spell.
process_string(s) ==
    LET spelled[n \in 0 .. Len(s)] ==
          IF n = 0 THEN Spelled(<<>>, "no") ELSE Spell(spelled[n - 1], s[n])
    IN  spelled[Len(s)]

\* The string at the quote i: its characters and the position behind it.
get_quoted_string(m, t, i) ==
    LET last == IF At(t, i) = "quote" THEN skip_quotes(t, i) ELSE 0
        string == process_string(SubSeq(t, i + 1, last - 1))
        copied == Malloc(m)
    IN  IF last = 0 \/ string.escape # "no" \/ ~copied.ok
        THEN [mem |-> Failure(m), at |-> 0, chars |-> <<>>]
        ELSE [mem |-> copied, at |-> last + 1, chars |-> string.chars]

-----------------------------------------------------------------------------
\* Values: an operator returns the memory, the position behind what it has
\* read, and whether one more item follows.

Reached(m, i, more) == [mem |-> m, at |-> i, more |-> more]
Read(m, i) == Reached(m, i, FALSE)
Refused(m) == Read(Failure(m), 0)
GiveUpParse(m, v) == Refused(json_value_free(m, v))

parse_string_value(m, t, i) ==
    LET s == get_quoted_string(m, t, i)
    IN  IF ~s.mem.ok THEN Refused(m)
        ELSE Read(json_value_init(s.mem, Block("string", s.chars)), s.at)

\* parse_number_value(), parse_boolean_value(), parse_null_value().
ParseToken(m, t, i) ==
    LET type == CASE At(t, i) \in Numbers -> "number"
                  [] At(t, i) = "null" -> "null"
                  [] OTHER -> "boolean"
    IN  Read(json_value_init(m, Block(type, <<At(t, i)>>)), i + 1)

\* A member's name and its ":".  An item of an array has none.
ParseKey(m, t, i, type) ==
    LET key == get_quoted_string(m, t, i)
        colon == SKIP_WHITESPACES(t, key.at)
    IN  IF type = "array" THEN [mem |-> m, at |-> i, chars |-> <<>>]
        ELSE IF ~key.mem.ok \/ At(t, colon) # ":" THEN [key EXCEPT !.mem = Failure(@)]
        ELSE [key EXCEPT !.at = colon + 1]

\* The value that has been read is added to c under the name.  A comma may
\* also stand before the closing bracket.
AddItem(key, value, t, type, c) ==
    LET added == IF type = "object"
                 THEN json_object_add(value.mem, c, key.chars, value.mem.got)
                 ELSE json_array_add(value.mem, c, value.mem.got)
        after == SKIP_WHITESPACES(t, value.at)
        next == SKIP_WHITESPACES(t, after + 1)
        item == [added EXCEPT !.got = c]
    IN  IF ~key.mem.ok THEN GiveUpParse(key.mem, c)
        ELSE IF ~value.mem.ok THEN GiveUpParse(value.mem, c)
        ELSE IF ~added.ok THEN GiveUpParse(json_value_free(value.mem, value.mem.got), c)
        ELSE IF At(t, after) # "," THEN Read(item, after)
        ELSE Reached(item, next, At(t, next) \notin {Brackets[type][2], "end"})

\* An item, or a member, is read with f and added to c.
ParseItem(f, m, t, i, type, c) ==
    LET key == ParseKey(m, t, i, type)
    IN  AddItem(key, f[<<key.mem, key.at>>], t, type, c)

\* Faulty variant: the end of the text closes an object or an array.
CloseAtEnd(t, i, bracket) == At(t, i) \in {bracket, "end"}

Closes(t, i, bracket) == At(t, i) = bracket

\* The other bracket.  An array is then trimmed.
EndOfItems(made, first, items, m, t, type) ==
    LET trimmed == IF type = "array" THEN Malloc(items.mem) ELSE items.mem
    IN  IF ~made.ok THEN Refused(m)
        ELSE IF At(t, first) = Brackets[type][2] THEN Read(made, first + 1)
        ELSE IF ~items.mem.ok THEN items
        ELSE IF Closes(t, items.at, Brackets[type][2]) /\ trimmed.ok
             THEN Read([trimmed EXCEPT !.got = made.got], items.at + 1)
        ELSE GiveUpParse(items.mem, made.got)

\* parse_object_value(), parse_array_value().
ParseContainer(f, m, t, i, type) ==
    LET made == json_value_init(m, Block(type, <<>>))
        first == SKIP_WHITESPACES(t, i + 1)
        done[n \in 0 .. Len(t)] ==
          LET last == done[n - 1]
          IN  IF n = 0 THEN Reached(made, first, At(t, first) # "end")
              ELSE IF ~last.more THEN last
              ELSE ParseItem(f, last.mem, t, last.at, type, made.got)
    IN  EndOfItems(made, first, done[Len(t)], m, t, type)

parse_value(f, m, t, i) ==
    LET j == SKIP_WHITESPACES(t, i)
    IN  CASE At(t, j) = "{" -> ParseContainer(f, m, t, j, "object")
          [] At(t, j) = "[" -> ParseContainer(f, m, t, j, "array")
          [] At(t, j) = "quote" -> parse_string_value(m, t, j)
          [] At(t, j) \in Numbers \cup Keywords -> ParseToken(m, t, j)
          [] OTHER -> Refused(m)

\* value[k] reads a value in which k levels are left.  What is behind the
\* value is not looked at.
json_parse_string(m, t) ==
    LET value[k \in 0 .. MAX_NESTING + 1] ==
          [x \in Memories \X Nat |->
             IF k = 0 THEN Refused(x[1]) ELSE parse_value(value[k - 1], x[1], t, x[2])]
    IN  value[MAX_NESTING + 1][<<m, IF At(t, 1) = "bom" THEN 2 ELSE 1>>].mem
=============================================================================
