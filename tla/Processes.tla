------------------------------ MODULE Processes ------------------------------
(***************************************************************************)
(* The parts of src/src/x_process.c side by side: a pipeline of two        *)
(* processes (Pipeline), one process and its pipe (Process) and the        *)
(* command line of a Windows process (CommandLine).  A behaviour is one of *)
(* the three.                                                              *)
(***************************************************************************)
EXTENDS Integers, Sequences

CONSTANTS
    MaxFd, StdOpen, Files, Capacity, Items, OtherThread, Faults,    \* Pipeline
    Chars, MaxLength, MaxArguments, PathChars, MaxPath,             \* CommandLine
    Codes, MaxBytes                                                 \* Process

ASSUME ProcessesAssumption ==
    /\ MaxFd \in Nat \ (0 .. 4)
    /\ StdOpen \subseteq 0 .. 2 /\ Files \subseteq 0 .. 2
    /\ Capacity \in Nat \ {0} /\ Items \in Nat
    /\ OtherThread \in BOOLEAN
    /\ Faults \subseteq {"pipe", "start", "setup", "waitpid"}
    /\ MaxLength \in Nat /\ MaxArguments \in Nat /\ MaxPath \in Nat
    /\ "quote" \notin PathChars     \* no file name of Windows has one
    /\ Codes \subseteq 0 .. 255 /\ MaxBytes \in Nat

VARIABLES
    part,   \* which of the three
    pc, fds, state, status, buffer, written, r, w, codes, error,
    path, arguments, environment, command_line, block,
    build, client, handle, child, child_status, pid, writers, held, sent, got, eof,
    answers, struck

pipeline_vars == <<pc, fds, state, status, buffer, written, r, w, codes, error>>
command_vars == <<path, arguments, environment, command_line, block>>
process_vars == <<build, client, handle, child, child_status, pid, writers, held, sent,
                  got, eof, answers, struck>>
vars == <<part, pipeline_vars, command_vars, process_vars>>

L == INSTANCE Pipeline
C == INSTANCE CommandLine
P == INSTANCE Process WITH status <- child_status

Init ==
    /\ part \in {"pipeline", "command_line", "process"}
    /\ L!Init
    /\ IF part = "command_line" THEN C!Init
       ELSE /\ path = <<"a">> /\ arguments = <<>> /\ environment = <<>>
            /\ command_line = C!Unwritten /\ block = C!Unwritten
    /\ P!Init /\ (part # "process" => build = "posix")

InPipeline(step) == part = "pipeline" /\ step /\ UNCHANGED <<part, command_vars, process_vars>>

Ended ==
    /\ part # "pipeline" /\ (C!Written \/ client = "done")
    /\ UNCHANGED vars

Next ==
    \/ InPipeline(L!Next)
    \/ part = "command_line" /\ C!Next /\ UNCHANGED <<part, pipeline_vars, process_vars>>
    \/ part = "process" /\ P!Next /\ UNCHANGED <<part, pipeline_vars, command_vars>>
    \/ Ended

\* The parent and the stages of a pipeline are scheduled.
FairSpec ==
    /\ Init /\ [][Next]_vars
    /\ WF_vars(InPipeline(L!Parent))
    /\ \A p \in L!Stages : WF_vars(InPipeline(L!Child(p)))
    /\ WF_vars(InPipeline(L!Setup("other")))

(***************************************************************************)
(* Properties.                                                             *)
(***************************************************************************)
\* The program of a stage finds the pipe at its standard stream and nowhere else.
StagesConnected == L!StagesConnected

\* Whatever fails, x_process_run_pipeline leaves no descriptor open, no stage
\* running, and no ended stage unreaped; and it reports success only if both
\* stages have really run and succeeded.
PipelineSound == L!NothingLeft /\ L!SuccessIsReal

\* A pipeline ends, unless a process of another thread keeps the pipe open.
PipelineReturns == L!PipelineReturns

\* A Windows child gets its name and its arguments as they were given, with all
\* their quotes, spaces and backslashes, and the command line and the environment
\* block never outgrow the buffers whose lengths were computed before.
CommandLineSound == C!ArgumentsArrive /\ C!BuffersSuffice

\* However often and in whatever order the client polls and waits, it is given
\* one exit code, that of the way the child ended.
OneTrueExitCode == P!OneTrueExitCode

\* The end of a child's output is reported only after every byte was read.
EofMeansAll == P!EofMeansAll

\* x_process_terminate signals no process but the child, unless the client had
\* already been told that the child was gone.
SignalsOwnChild == P!SignalsOwnChild

==============================================================================
