---------------------------- MODULE Constructors -----------------------------
(***************************************************************************)
(* What the constructors and destructors of src/src acquire and release.   *)
(* A constructor is a sequence of steps, one for each call it makes that   *)
(* can fail or that acquires something, in the order of the code, for one  *)
(* build: "linux", "macos" or "windows".  A step says what it gets, what   *)
(* the error path behind it releases and what is released once it has      *)
(* succeeded.  A destructor is the set of what it releases.                *)
(***************************************************************************)
EXTENDS Naturals, Sequences

Builds == {"linux", "macos", "windows"}

\* A call that gets "gets"; the error path behind it releases "undo".
Step(gets, undo) == [gets |-> gets, undo |-> undo, drops |-> {},
                     exposes |-> {}, seals |-> {}, fails |-> TRUE]

\* A call that only reports an error.
Test(undo) == Step({}, undo)

\* What has been acquired is released after the call.
Dropping(s, drops) == [s EXCEPT !.drops = drops]

\* A call without an error path.
Sure(s) == [s EXCEPT !.fails = FALSE]

\* A descriptor that a child process would inherit, until fcntl seals it.
Exposed(s) == [s EXCEPT !.exposes = s.gets]
Seal(fd) == [Sure(Test({})) EXCEPT !.seals = {fd}]

\* A call of another constructor: behind its own error paths the caller
\* releases "undo".
Calling(program, undo) ==
    [i \in 1 .. Len(program) |-> [program[i] EXCEPT !.undo = @ \cup undo]]

Freeing(program, drops) ==
    [i \in 1 .. Len(program) |->
        IF i = Len(program) THEN Dropping(program[i], drops) ELSE program[i]]

(***************************************************************************)
(* x_thread.c                                                              *)
(***************************************************************************)
\* A slim reader/writer lock and a condition variable of Windows hold nothing.
x_mutex_create_with_type(b, recursive) ==
    IF b = "windows"
    THEN <<Step({"created"}, {}), Sure(Step(IF recursive THEN {"lock"} ELSE {}, {}))>>
    ELSE <<Step({"created"}, {}), Step({"attr"}, {"created"}), Test({"attr", "created"}),
           Dropping(Step({"lock"}, {"attr", "created"}), {"attr"})>>
x_mutex_destroy(b, recursive) ==
    {"created"} \cup (IF b = "windows" /\ ~recursive THEN {} ELSE {"lock"})

x_thread_create == <<Step({"created"}, {}), Step({"thread"}, {"created"})>>

\* pthread_join has released the thread; a Windows thread has a handle to close.
x_thread_destroy(b, joined) ==
    {"created"} \cup (IF b # "windows" /\ joined THEN {} ELSE {"thread"})

x_condition_create(b) ==
    <<Step({"created"}, {})>> \o
    (IF b = "windows" THEN <<>> ELSE <<Step({"condition"}, {"created"})>>)
x_condition_destroy(b) == {"created"} \cup (IF b = "windows" THEN {} ELSE {"condition"})

\* Variant: a failing pthread_cond_init keeps the mutex.
SemaphoreKeepingMutex(b) ==
    <<Step({"created"}, {})>> \o
    (IF b = "windows" THEN <<Sure(Step({"mutex"}, {}))>>
     ELSE <<Step({"mutex"}, {"created"}), Step({"condition"}, {"created"})>>)

x_semaphore_create(b) ==
    <<Step({"created"}, {})>> \o
    (IF b = "windows" THEN <<Sure(Step({"mutex"}, {}))>>
     ELSE <<Step({"mutex"}, {"created"}), Step({"condition"}, {"mutex", "created"})>>)
x_semaphore_destroy(b) ==
    {"mutex", "created"} \cup (IF b = "windows" THEN {} ELSE {"condition"})

x_tls_key_create == <<Step({"created"}, {}), Step({"key"}, {"created"})>>
x_tls_key_destroy == {"key", "created"}

(***************************************************************************)
(* x_filesystem.c, x_memory.c and x_dynamic_library.c                      *)
(***************************************************************************)
x_filesystem_utf8_to_wide(wide) == <<Test({}), Step({wide}, {}), Test({wide})>>
x_dynamic_library_utf8_to_wide(wide) == <<Test({}), Step({wide}, {}), Test({wide})>>

\* x_path_join may find the path too long.
x_filesystem_make_search_pattern == <<Test({})>> \o x_filesystem_utf8_to_wide("pattern")

\* On Windows the last step is the seek of X_FILE_APPEND.
x_file_open(b) ==
    <<Step({"created"}, {})>> \o
    (IF b = "windows"
     THEN Calling(x_filesystem_utf8_to_wide("wide_path"), {"created"}) \o
          <<Dropping(Step({"handle"}, {"wide_path", "created"}), {"wide_path"}),
            Test({"handle", "created"})>>
     ELSE <<Step({"fd"}, {"created"})>>)
x_file_close(b) == {IF b = "windows" THEN "handle" ELSE "fd", "created"}

x_directory_open(b) ==
    <<Step({"created"}, {})>> \o
    (IF b = "windows"
     THEN Calling(x_filesystem_make_search_pattern, {"created"}) \o
          <<Dropping(Step({"handle"}, {"pattern", "created"}), {"pattern"})>>
     ELSE <<Step({"handle"}, {"created"}), Test({"handle", "created"})>>)
x_directory_close == {"handle", "created"}

x_virtual_memory_alloc == <<Test({}), Step({"pages"}, {})>>
x_virtual_memory_free == {"pages"}

x_mapped_file_create(b) ==
    <<Step({"created"}, {})>> \o
    (IF b = "windows"
     THEN <<Test({"created"}), Step({"file"}, {"created"}), Test({"file", "created"}),
            Step({"mapping"}, {"file", "created"}),
            Step({"data"}, {"mapping", "file", "created"})>>
     ELSE <<Step({"file"}, {"created"}), Test({"file", "created"}),
            Step({"data"}, {"file", "created"})>>)

\* The file's size is asked for and must not be zero.
x_mapped_file_open(b) ==
    <<Test({}), Step({"created"}, {}), Step({"file"}, {"created"}),
      Test({"file", "created"}), Test({"file", "created"})>> \o
    (IF b = "windows"
     THEN <<Step({"mapping"}, {"file", "created"}),
            Step({"data"}, {"mapping", "file", "created"})>>
     ELSE <<Step({"data"}, {"file", "created"})>>)
x_mapped_file_destroy == {"data", "mapping", "file", "created"}

x_dynamic_library_open(b) ==
    <<Step({"created"}, {})>> \o
    (IF b = "windows"
     THEN Calling(x_dynamic_library_utf8_to_wide("wide_path"), {"created"}) \o
          <<Dropping(Step({"handle"}, {"wide_path", "created"}), {"wide_path"})>>
     ELSE <<Step({"handle"}, {"created"})>>)
x_dynamic_library_close == {"handle", "created"}

\* These keep nothing.
x_file_remove(b) ==
    IF b # "windows" THEN <<Test({})>>
    ELSE x_filesystem_utf8_to_wide("wide_path") \o
         <<Dropping(Test({"wide_path"}), {"wide_path"})>>
x_directory_create(b) ==
    IF b # "windows" THEN <<Test({})>>
    ELSE x_filesystem_utf8_to_wide("wide_path") \o
         <<Dropping(Test({"wide_path"}), {"wide_path"})>>
x_directory_remove(b) ==
    IF b # "windows" THEN <<Test({})>>
    ELSE x_filesystem_utf8_to_wide("wide_path") \o
         <<Dropping(Test({"wide_path"}), {"wide_path"})>>

(***************************************************************************)
(* x_network.c: "m" names the memory and "fd" the descriptor of the socket *)
(***************************************************************************)
x_socket_create(b, m, fd) ==
    <<Test({}), Step({m}, {})>> \o
    (IF b = "linux" THEN <<Step({fd}, {m})>>
     ELSE IF b = "macos" THEN <<Exposed(Step({fd}, {m})), Seal(fd)>>
     ELSE <<Exposed(Step({fd}, {m}))>>)
x_socket_close(m, fd) == {m, fd}

\* Variant: the accepted socket is left to child processes.
AcceptUnsealed(b) == <<Step({"created"}, {}), Exposed(Step({"fd"}, {"created"}))>>

x_socket_accept(b) ==
    <<Step({"created"}, {}), Exposed(Step({"fd"}, {"created"}))>> \o
    (IF b = "windows" THEN <<>> ELSE <<Seal("fd")>>)

x_socket_udp_bound(b) ==
    LET close == x_socket_close("created", "fd")
    IN  <<Test({})>> \o x_socket_create(b, "created", "fd") \o <<Test(close), Test(close)>>

(***************************************************************************)
(* x_event.c                                                               *)
(***************************************************************************)
\* x_event_loop_add_socket for the wake source of a loop without sources.
AddWakeSource(b) ==
    <<Step({"sources"}, {}), Step({"wake_source"}, {})>> \o
    (IF b = "windows" THEN <<>> ELSE <<Test({"wake_source"})>>)

Backend(b) ==
    IF b = "linux" THEN <<Step({"backend"}, {"created"})>>
    ELSE IF b = "macos" THEN <<Exposed(Step({"backend"}, {"created"})), Seal("backend")>>
    ELSE <<>>

\* The address is resolved and bound, asked for, and made non-blocking.
x_event_loop_create(b) ==
    LET loop == {"backend", "created"}
        receiver == x_socket_close("wake_receiver", "receiver_fd")
        all == loop \cup receiver \cup x_socket_close("wake_sender", "sender_fd")
    IN  <<Step({"created"}, {})>> \o Backend(b) \o
        Calling(x_socket_create(b, "wake_receiver", "receiver_fd"), loop) \o
        Calling(x_socket_create(b, "wake_sender", "sender_fd"), loop \cup receiver) \o
        <<Test(all), Test(all), Test(all), Test(all)>> \o
        Calling(AddWakeSource(b), all \cup {"sources"})
x_event_loop_destroy ==
    {"wake_source", "backend", "sources", "created"}
        \cup x_socket_close("wake_sender", "sender_fd")
        \cup x_socket_close("wake_receiver", "receiver_fd")

(***************************************************************************)
(* x_tls.c                                                                 *)
(***************************************************************************)
x_tls_context_create == <<Step({"created"}, {})>>
x_tls_context_destroy == {"created"}

(***************************************************************************)
(* x_process.c.  The options say for each standard stream whether a path   *)
(* or a pipe replaces it, and whether a directory and an environment are   *)
(* given.                                                                  *)
(***************************************************************************)
Options == [working_directory : BOOLEAN, environment : BOOLEAN,
            stdin : {"none", "path", "pipe"}, stdout : {"none", "path", "pipe"},
            stderr : {"none", "path", "pipe"}]

x_process_utf8_to_wide(wide) == <<Test({}), Step({wide}, {}), Test({wide})>>

x_process_build_command_line ==
    <<Step({"utf8_command"}, {})>> \o
    Freeing(Calling(x_process_utf8_to_wide("command_line"), {"utf8_command"}),
            {"utf8_command"})

x_process_build_environment_block ==
    <<Test({}), Step({"environment_block"}, {}), Test({"environment_block"})>>

x_process_open_redirect(handle) ==
    x_process_utf8_to_wide("wide_path") \o
    <<Dropping(Exposed(Step({handle}, {"wide_path"})), {"wide_path"})>>
x_process_duplicate_pipe_for_child(handle) == <<Exposed(Step({handle}, {}))>>

Redirect(choice, handle, undo) ==
    IF choice = "path" THEN Calling(x_process_open_redirect(handle), undo)
    ELSE IF choice = "pipe" THEN Calling(x_process_duplicate_pipe_for_child(handle), undo)
    ELSE <<>>

Texts == {"environment_block", "working_directory", "command_line", "created"}

\* The command line, the directory and the environment as wide strings.
Prepare(o) ==
    Calling(x_process_build_command_line, {"created"}) \o
    (IF o.working_directory
     THEN Calling(x_process_utf8_to_wide("working_directory"), {"command_line", "created"})
     ELSE <<>>) \o
    (IF o.environment
     THEN Calling(x_process_build_environment_block, Texts \ {"environment_block"})
     ELSE <<>>)

\* Variant: the handle for standard output is forgotten when that for standard
\* error cannot be opened.
RedirectionsForgetting(o) ==
    Redirect(o.stdin, "stdin", Texts) \o
    Redirect(o.stdout, "stdout", Texts \cup {"stdin"}) \o
    Redirect(o.stderr, "stderr", Texts \cup {"stdin"})

Redirections(o) ==
    Redirect(o.stdin, "stdin", Texts) \o
    Redirect(o.stdout, "stdout", Texts \cup {"stdin"}) \o
    Redirect(o.stderr, "stderr", Texts \cup {"stdin", "stdout"})

CreateProcess ==
    LET used == Texts \cup {"stdin", "stdout", "stderr"}
    IN  <<Dropping(Step({"hProcess", "hThread"}, used), used \ {"created"})>>

\* Elsewhere the child makes its redirections after fork.
ForkProcess ==
    <<Step({"child_arguments"}, {"created"}),
      Dropping(Test({"child_arguments", "created"}), {"child_arguments"})>>

x_process_start(b, o) ==
    <<Step({"created"}, {})>> \o
    (IF b = "windows" THEN Prepare(o) \o Redirections(o) \o CreateProcess ELSE ForkProcess)
x_process_destroy(b) ==
    {"created"} \cup (IF b = "windows" THEN {"hThread", "hProcess"} ELSE {})

\* The environment of the own process; nothing is kept.  The value is asked for
\* twice, for its length and for its text.
x_environment_get(b) ==
    LET both == {"wide_value", "wide_name"}
    IN  IF b # "windows" THEN <<Test({}), Test({})>>
        ELSE x_process_utf8_to_wide("wide_name") \o
             <<Test({"wide_name"}), Step({"wide_value"}, {"wide_name"}), Test(both),
               Dropping(Test(both), both)>>

x_environment_set(b) ==
    LET both == {"wide_value", "wide_name"}
    IN  IF b # "windows" THEN <<Test({})>>
        ELSE x_process_utf8_to_wide("wide_name") \o
             Calling(x_process_utf8_to_wide("wide_value"), {"wide_name"}) \o
             <<Dropping(Test(both), both)>>

x_environment_unset(b) ==
    IF b # "windows" THEN <<Test({})>>
    ELSE x_process_utf8_to_wide("wide_name") \o
         <<Dropping(Test({"wide_name"}), {"wide_name"})>>

==============================================================================
