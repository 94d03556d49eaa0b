----------------------------- MODULE CommandLine -----------------------------
(***************************************************************************)
(* How x_process_start of src/src/x_process.c hands arguments and          *)
(* environment to a Windows child: one command line, quoted so that the    *)
(* child's runtime splits it into the same arguments, and one block of     *)
(* variables.  Each is written into a buffer whose length is computed      *)
(* first.  A string is a sequence of characters.                           *)
(***************************************************************************)
EXTENDS Naturals, Sequences

CONSTANTS
    Chars,          \* characters of an argument
    MaxLength,      \* bound on the length of an argument
    MaxArguments,   \* bound on the number of arguments, and of variables
    PathChars,      \* characters of the path of a program
    MaxPath         \* bound on its length

VARIABLES
    path,           \* the path of the program
    arguments,      \* its arguments
    environment,    \* its variables
    command_line,   \* what x_process_build_command_line has written
    block           \* what x_process_build_environment_block has written

vars == <<path, arguments, environment, command_line, block>>

Quote == "quote"
Backslash == "backslash"
Space == "space"
NUL == "nul"

ListsUpTo(n, S) == UNION {[1 .. k -> S] : k \in 0 .. n}
Strings == ListsUpTo(MaxLength, Chars)
Repeat(c, n) == [i \in 1 .. n |-> c]

\* A loop over a list: Step takes the state and the element to the next state.
Loop(Step(_, _), start, list) ==
    LET after[k \in 0 .. Len(list)] ==
            IF k = 0 THEN start ELSE Step(after[k - 1], list[k])
    IN  after[Len(list)]

\* The state of the loops over a string: the characters, or their number, so
\* far and the backslashes just before.
Advance(out, backslashes) == [out |-> out, backslashes |-> backslashes]

\* Variant: the backslashes before a quote are not counted twice.
CountUndoubled(s, c) ==
    IF c = Backslash THEN Advance(s.out + 1, s.backslashes + 1)
    ELSE IF c = Quote THEN Advance(s.out + 2, 0)
    ELSE Advance(s.out + 1, 0)

CountChar(s, c) ==
    IF c = Backslash THEN Advance(s.out + 1, s.backslashes + 1)
    ELSE IF c = Quote THEN Advance(s.out + s.backslashes + 2, 0)
    ELSE Advance(s.out + 1, 0)

x_process_quoted_length(value) ==
    LET end == Loop(CountChar, Advance(2, 0), value)
    IN  end.out + end.backslashes + 1

PutChar(s, c) ==
    IF c = Backslash THEN Advance(Append(s.out, c), s.backslashes + 1)
    ELSE IF c = Quote
    THEN Advance(s.out \o Repeat(Backslash, s.backslashes + 1) \o <<Quote>>, 0)
    ELSE Advance(Append(s.out, c), 0)

\* Variant: backslashes at the end are not doubled.
AppendUndoubled(target, value) ==
    LET end == Loop(PutChar, Advance(Append(target, Quote), 0), value)
    IN  Append(end.out, Quote)

x_process_append_quoted(target, value) ==
    LET end == Loop(PutChar, Advance(Append(target, Quote), 0), value)
    IN  Append(end.out \o Repeat(Backslash, end.backslashes), Quote)

\* The text and the capacity of a buffer, terminators included.
MeasureArgument(n, value) == n + 1 + x_process_quoted_length(value)
PutArgument(text, value) == x_process_append_quoted(Append(text, Space), value)

x_process_build_command_line ==
    [capacity |-> Loop(MeasureArgument, x_process_quoted_length(path), arguments) + 1,
     text |-> Append(Loop(PutArgument, x_process_append_quoted(<<>>, path), arguments), NUL)]

MeasureVariable(n, variable) == n + Len(variable) + 1
PutVariable(text, variable) == Append(text \o variable, NUL)

x_process_build_environment_block ==
    [capacity |-> Loop(MeasureVariable, 1, environment),
     text |-> Append(Loop(PutVariable, <<>>, environment), NUL)]

(***************************************************************************)
(* The child: how its runtime splits a command line.                       *)
(***************************************************************************)
\* The arguments so far, the one being read, the backslashes just before, whether
\* anything of it has been read, and whether a quote is open.
Reading(args, arg, backslashes, some, quoted) ==
    [args |-> args, arg |-> arg, backslashes |-> backslashes, some |-> some, quoted |-> quoted]

\* 2n backslashes before a quote are n backslashes and the quote opens or closes;
\* 2n + 1 are n backslashes and a plain quote; others are plain.
TakeChar(s, c) ==
    LET plain == s.arg \o Repeat(Backslash, s.backslashes)
        half == s.arg \o Repeat(Backslash, s.backslashes \div 2)
    IN  IF c = Backslash
        THEN Reading(s.args, s.arg, s.backslashes + 1, s.some, s.quoted)
        ELSE IF c = Quote /\ s.backslashes % 2 = 1
        THEN Reading(s.args, Append(half, Quote), 0, TRUE, s.quoted)
        ELSE IF c = Quote
        THEN Reading(s.args, half, 0, TRUE, ~s.quoted)
        ELSE IF c \notin {Space, NUL} \/ s.quoted
        THEN Reading(s.args, Append(plain, c), 0, TRUE, s.quoted)
        ELSE Reading(IF s.some \/ s.backslashes > 0 THEN Append(s.args, plain) ELSE s.args,
                     <<>>, 0, FALSE, FALSE)

\* The program's name is what the first pair of quotes encloses.
Split(line) ==
    LET close == CHOOSE i \in 2 .. Len(line) :
                     line[i] = Quote /\ \A j \in 2 .. i - 1 : line[j] # Quote
        start == Reading(<<SubSeq(line, 2, close - 1)>>, <<>>, 0, FALSE, FALSE)
    IN  Loop(TakeChar, start, SubSeq(line, close + 1, Len(line))).args

\* A path names a file: it is not empty, and ends with no backslash.
Programs == {p \in ListsUpTo(MaxPath, PathChars) : p # <<>> /\ p[Len(p)] # Backslash}

Unwritten == [capacity |-> 0, text |-> <<>>]

Init ==
    /\ path \in Programs
    /\ arguments \in ListsUpTo(MaxArguments, Strings)
    /\ environment \in IF arguments = <<>> THEN ListsUpTo(MaxArguments, Strings) ELSE {<<>>}
           \* the buffers are independent
    /\ command_line = Unwritten /\ block = Unwritten

Start ==
    /\ command_line = Unwritten
    /\ command_line' = x_process_build_command_line
    /\ block' = x_process_build_environment_block
    /\ UNCHANGED <<path, arguments, environment>>

Next == Start

(***************************************************************************)
(* Properties.                                                             *)
(***************************************************************************)
Written == command_line # Unwritten

\* The child gets the program's name and the arguments as they were given, with
\* all their quotes, spaces and backslashes.
ArgumentsArrive == Written => Split(command_line.text) = <<path>> \o arguments

\* The command line and the environment block never outgrow the buffers whose
\* lengths were computed before.
BuffersSuffice ==
    /\ Len(command_line.text) <= command_line.capacity
    /\ Len(block.text) <= block.capacity

==============================================================================
