--------------------------- MODULE CommandInput ---------------------------
(***************************************************************************)
(* The keyboard side of the client: main() reads a command with            *)
(* scanf("%s"), and its handler reads what it needs with getchar(),        *)
(* fgets() and scanf(), all from the one stdin, where each leaves behind   *)
(* what it did not take.  The user types a line when the program waits.    *)
(*                                                                         *)
(* Standard input is a sequence of symbols: "nl" and "sp", "7" (a digit),  *)
(* ".", and words, the command names among them.  Each symbol remembers    *)
(* the prompt it was typed at: the number and kind of the handler's read,  *)
(* 0 and "command" at main()'s.                                            *)
(***************************************************************************)
EXTENDS Handlers

CONSTANTS
    Commands,      \* the commands typed, "exit" apart
    Lines,         \* the lines a careless user types at any prompt
    LINELEN,       \* fgets() takes fewer symbols than this
    MaxMovies,     \* the most movies typed into one add_collection (a bound)
    MaxTyped       \* the most symbols waiting in stdin (a bound)

Words == AllCommands \cup {"exit", "text"}
Blanks == {"sp", "nl"}
Symbols == Words \cup Blanks \cup {"7", "."}

ASSUME CommandsAssumption == Commands \subseteq AllCommands
ASSUME LinesAssumption == Lines \subseteq Seq(Symbols \ {"nl"})
ASSUME BoundsAssumption == MaxMovies \in Nat /\ MaxTyped \in Nat
ASSUME LinelenAssumption == LINELEN \in Nat /\ LINELEN >= 3

VARIABLES
    careful,     \* does the user answer each prompt with one line that fits it?
    pc,          \* "scan" (the command), "read" (the handler's input), "exited"
    command,     \* the array of main(): a name, or "text" for no command's name
    reads,       \* the handler's reads still to come, the present one first
    step,        \* the number of the present read, 0 for the command's
    stdin,       \* typed and not read: [sym, at]
    eof,         \* has the user closed stdin?
    origin,      \* the prompts at which the last command was typed
    fresh,       \* was the command of the last handler run read for it?
    split,       \* has fgets() left a part of a line behind?
    got          \* the last read: its prompt and the prompts of what it took

vars == <<careful, pc, command, reads, step, stdin, eof, origin, fresh, split, got>>

\* The prompt the user sees.
Prompt == [step |-> step, kind |-> IF pc = "read" THEN Head(reads) ELSE "command"]

Init ==
    /\ careful \in BOOLEAN
    /\ pc = "scan" /\ command = "text" /\ reads = <<>> /\ step = 0
    /\ stdin = <<>> /\ eof = FALSE
    /\ origin = {} /\ fresh = TRUE /\ split = FALSE /\ got = [prompt |-> Prompt, at |-> {}]

-----------------------------------------------------------------------------
\* What the library calls take from stdin (external)

Drop(n) == SubSeq(stdin, n + 1, Len(stdin))
Prompts(first, last) == {stdin[i].at : i \in first .. last}

\* The length of the run of symbols from position n + 1 on that are in S.
Run(n, S) ==
    CHOOSE k \in 0 .. Len(stdin) - n :
        /\ \A i \in n + 1 .. n + k : stdin[i].sym \in S
        /\ n + k < Len(stdin) => stdin[n + k + 1].sym \notin S

Leading == Run(0, Blanks)

\* Is there something to read, behind the blanks scanf() skips?
Something == Leading < Len(stdin)
NumberNext == Something /\ stdin[Leading + 1].sym = "7"

\* Does the program wait for the user?
Waiting ==
    /\ ~eof
    /\ IF pc = "read" /\ Head(reads) \in {"skip", "line"} THEN stdin = <<>> ELSE ~Something

-----------------------------------------------------------------------------
\* The user

\* The line that fits a prompt.
Answer ==
    IF pc = "scan" THEN {<<c>> : c \in Commands \cup {"exit"}}
    ELSE CASE Head(reads) = "int" -> {<<"7">>, <<"7", "7">>}
           [] Head(reads) = "float" -> {<<"7">>, <<"7", ".", "7">>}
           [] OTHER -> {<<"text">>}

Type ==
    /\ pc # "exited" /\ Waiting
    /\ \E line \in IF careful THEN Answer ELSE Answer \cup Lines :
          /\ Len(stdin) + Len(line) < MaxTyped
          /\ stdin' = stdin \o [i \in 1 .. Len(line) + 1 |->
                [sym |-> IF i > Len(line) THEN "nl" ELSE line[i], at |-> Prompt]]
    /\ UNCHANGED <<careful, pc, command, reads, step, eof, origin, fresh, split, got>>

CloseInput ==
    /\ ~careful /\ pc # "exited" /\ ~eof
    /\ eof' = TRUE
    /\ UNCHANGED <<careful, pc, command, reads, step, stdin, origin, fresh, split, got>>

-----------------------------------------------------------------------------
\* main()

\* Faulty variant: add_movie() does not skip the newline behind the command.
InputWithoutSkip(c) ==
    IF c = "add_movie" THEN {<<"line", "int", "line", "float">>} ELSE {HandlerOf[c].input}

\* The reads of a handler; add_collection() has one more for each movie, and
\* another when add_movie_to_collection() asks again for a negative id.
InputOf(c) ==
    IF c = "add_collection"
    THEN {HandlerOf[c].input \o [i \in 1 .. n |-> "int"] : n \in 0 .. 2 * MaxMovies}
    ELSE {HandlerOf[c].input}

\* The handler of the command in the array runs; no handler, and main()
\* reads on.  A handler without input is over once it has sent its request.
Dispatch(word) ==
    IF word \in AllCommands
    THEN \E input \in InputOf(word) :
            /\ reads' = input
            /\ IF input = <<>> THEN pc' = "scan" /\ step' = 0 ELSE pc' = "read" /\ step' = 1
    ELSE /\ reads' = <<>> /\ step' = 0
         /\ pc' = IF word = "exit" THEN "exited" ELSE "scan"

\* scanf("%s", command): the next word, wherever it was typed.
ScanCommand ==
    /\ pc = "scan" /\ Something
    /\ LET n == Run(Leading, Symbols \ Blanks)
           word == IF n = 1 /\ stdin[Leading + 1].sym \in Words
                   THEN stdin[Leading + 1].sym ELSE "text"
       IN  /\ command' = word
           /\ stdin' = Drop(Leading + n)
           /\ origin' = Prompts(Leading + 1, Leading + n)
           /\ got' = [prompt |-> Prompt, at |-> origin']
           /\ fresh' = TRUE
           /\ Dispatch(word)
    /\ UNCHANGED <<careful, eof, split>>

\* At the end of the input scanf() fails, unnoticed: the array is as it was.
ScanEof ==
    /\ pc = "scan" /\ ~Something /\ eof
    /\ stdin' = <<>> /\ fresh' = (command \notin AllCommands)
    /\ Dispatch(command)
    /\ UNCHANGED <<careful, command, eof, origin, split, got>>

-----------------------------------------------------------------------------
\* The handlers' reads

\* The handler returns, having refused its input or sent its request.
Over == pc' = "scan" /\ reads' = <<>> /\ step' = 0

\* Faulty variant: off by one.
GoOnPast ==
    IF reads = <<>> THEN Over
    ELSE pc' = pc /\ reads' = Tail(reads) /\ step' = step + 1

GoOn ==
    IF Len(reads) = 1 THEN Over
    ELSE pc' = pc /\ reads' = Tail(reads) /\ step' = step + 1

Took(first, last) == got' = [prompt |-> Prompt, at |-> Prompts(first, last)]

\* getchar(), the result ignored.
Skip ==
    /\ pc = "read" /\ Head(reads) = "skip" /\ (stdin # <<>> \/ eof)
    /\ stdin' = IF stdin = <<>> THEN stdin ELSE Tail(stdin)
    /\ GoOn
    /\ UNCHANGED <<careful, command, eof, origin, fresh, split, got>>

\* Faulty variant: the line is taken to end at its first blank.
ReadLineWord ==
    /\ pc = "read" /\ Head(reads) = "line" /\ (stdin # <<>> \/ eof)
    /\ LET word == Run(0, Symbols \ Blanks)
           n == IF word < Len(stdin) THEN word + 1 ELSE word
       IN  stdin' = Drop(n) /\ Took(1, n) /\ GoOn
    /\ UNCHANGED <<careful, command, eof, origin, fresh, split>>

\* fgets(): up to and with the newline, as far as the array reaches.
ReadLine ==
    /\ pc = "read" /\ Head(reads) = "line" /\ (stdin # <<>> \/ eof)
    /\ LET line == Run(0, Symbols \ {"nl"})
           whole == IF line < Len(stdin) THEN line + 1 ELSE line
           n == IF whole < LINELEN THEN whole ELSE LINELEN - 1
       IN  /\ stdin' = Drop(n)
           /\ Took(1, n)
           /\ split' = (split \/ n < whole)
    /\ GoOn
    /\ UNCHANGED <<careful, command, eof, origin, fresh>>

\* scanf("%d%c"): a number and the newline right behind it, or the handler
\* returns; what is no number stays in stdin.
ReadInt ==
    /\ pc = "read" /\ Head(reads) = "int" /\ (Something \/ eof)
    /\ IF NumberNext
       THEN LET n == Leading + Run(Leading, {"7"})
            IN  /\ stdin' = Drop(n + 1)
                /\ Took(Leading + 1, n)
                /\ IF n < Len(stdin) /\ stdin[n + 1].sym = "nl" THEN GoOn ELSE Over
       ELSE stdin' = Drop(Leading) /\ Over /\ UNCHANGED got
    /\ UNCHANGED <<careful, command, eof, origin, fresh, split>>

\* scanf("%f"): the newline, and whatever else is behind the number, stays.  A
\* point without a digit is taken from stdin, though it is no number.
ReadFloat ==
    /\ pc = "read" /\ Head(reads) = "float" /\ (Something \/ eof)
    /\ LET whole == Leading + Run(Leading, {"7"})
           point == whole < Len(stdin) /\ stdin[whole + 1].sym = "."
           n == IF point THEN whole + 1 + Run(whole + 1, {"7"}) ELSE whole
       IN  /\ stdin' = Drop(n)
           /\ IF \E i \in Leading + 1 .. n : stdin[i].sym = "7"
              THEN Took(Leading + 1, n) /\ GoOn
              ELSE Over /\ UNCHANGED got
    /\ UNCHANGED <<careful, command, eof, origin, fresh, split>>

Exited == pc = "exited" /\ UNCHANGED vars

Next ==
    \/ Type \/ CloseInput
    \/ ScanCommand \/ ScanEof
    \/ Skip \/ ReadLine \/ ReadInt \/ ReadFloat
    \/ Exited

Spec == Init /\ [][Next]_vars

-----------------------------------------------------------------------------
\* Properties

\* A handler in the middle of its input has a read to come, and one that is
\* over has none.
TypeOK ==
    /\ pc \in {"scan", "read", "exited"}
    /\ command \in Words
    /\ reads \in Seq({"skip", "line", "int", "float"}) /\ step \in 0 .. 6 + 2 * MaxMovies
    /\ pc = "read" <=> reads # <<>>
    /\ stdin \in Seq([sym : Symbols, at : [step : Nat, kind : {"command", "skip", "line", "int", "float"}]])
    /\ Len(stdin) <= MaxTyped
    /\ {careful, eof, fresh, split} \subseteq BOOLEAN

(***************************************************************************)
(* With a user who answers each prompt with one line that fits it, every   *)
(* read of every handler takes the line typed for it, and nothing else:    *)
(* the getchar() here and there, the "%c" behind the numbers and the       *)
(* newline left by "%f" add up, from one command to the next.              *)
(***************************************************************************)
AnswersInStep == careful => got.at \subseteq {got.prompt}

(***************************************************************************)
(* Whatever the user types, the text typed for a name, a password, a title *)
(* or a description is never executed as a command, unless a line was too  *)
(* long for fgets(), which leaves its rest for the next read.  (What is    *)
(* typed where a number is expected can be: scanf() leaves it in stdin.)   *)
(***************************************************************************)
TextIsNoCommand == ~split => \A p \in origin : p.kind # "line"

(***************************************************************************)
(* README.md:8, "Read user command from stdin and dispatch to the          *)
(* corresponding handler": a handler runs for a command that was read.  At *)
(* the end of stdin scanf() fails, its result is not looked at, and the    *)
(* last command runs again, and again.                                     *)
(***************************************************************************)
DispatchedWasRead == fresh

-----------------------------------------------------------------------------
(***************************************************************************)
(* The inductive invariant.                                                *)
(***************************************************************************)

ReadKinds == {"skip", "line", "int", "float"}

\* The handler's reads are at most as many as the steps that are left.
StepsLeft == step + Len(reads) <= 7 + 2 * MaxMovies

\* Each getchar() among the reads finds a newline left in stdin, and each
\* fgets() finds none: scanf() leaves one behind a command and a "%f".
Fits(r, newlineLeft) ==
    /\ r # <<>> /\ Head(r) = "skip" => newlineLeft
    /\ r # <<>> /\ Head(r) = "line" => ~newlineLeft
    /\ \A i \in 2 .. Len(r) : /\ r[i] = "skip" => r[i - 1] = "float"
                              /\ r[i] = "line" => r[i - 1] # "float"

\* The symbol at position i of a line typed at the prompt.
Typed(line, i) == [sym |-> IF i > Len(line) THEN "nl" ELSE line[i], at |-> Prompt]

\* stdin holds k newlines, at most one, and behind them the answer to the
\* prompt if it has been typed.
Holds(k) ==
    /\ k \in {0, 1} /\ k <= Len(stdin)
    /\ k = 1 => stdin[1].sym = "nl"
    /\ Fits(reads, k = 1)
    /\ \/ Len(stdin) = k
       \/ /\ pc = "read" => Head(reads) # "skip"
          /\ \E line \in Answer :
                /\ Len(stdin) = k + Len(line) + 1
                /\ \A i \in 1 .. Len(line) + 1 : stdin[k + i] = Typed(line, i)

InStep == ~eof /\ (pc # "exited" => \E k \in {0, 1} : Holds(k))

\* A line of text waits for fgets(), and nothing is typed behind it.
TextIsNext ==
    (\E i \in 1 .. Len(stdin) : stdin[i].at.kind = "line") =>
        /\ pc = "read" /\ Head(reads) = "line"
        /\ \A i \in 1 .. Len(stdin) : stdin[i].sym = "nl" <=> i = Len(stdin)

IInv ==
    /\ TypeOK /\ StepsLeft
    /\ careful => InStep
    /\ AnswersInStep
    /\ ~split => TextIsNext
    /\ TextIsNoCommand
=============================================================================
