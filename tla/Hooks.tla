-------------------------------- MODULE Hooks --------------------------------
(***************************************************************************)
(* The log, diagnostics and tracing hooks of src/src/x_diagnostics.c.      *)
(* Each kind of hook is two globals, the function and its user data,       *)
(* without a lock.  One thread installs hooks, one call after the other,   *)
(* as diagnostics.h asks; any thread emits at any time.  The two stores of *)
(* an installation are plain: another thread sees them in either order.    *)
(* The installing thread calls the setters, or leaves that to the hook     *)
(* guards of src/include/xlib/xlib.hpp.                                    *)
(***************************************************************************)
EXTENDS Naturals, Functions

CONSTANTS
    Kinds,          \* "log", "diag", "trace"
    Emitters,       \* threads that emit
    MaxInstalls     \* bound on the installations of all kinds together

VARIABLES
    guarded,    \* hooks are installed by the guards of xlib.hpp
    guards,     \* the living guards of each kind, by their installation
    hook,       \* the function of each kind; installation i installs i or NULL
    user_data,  \* its user data: that of installation i is i
    target,     \* the function being installed
    stores,     \* the stores the setter has yet to make
    installs,   \* number of installations of each kind
    emit,       \* what each emitter is doing
    call        \* history: the last call of a hook each emitter made

vars == <<guarded, guards, hook, user_data, target, stores, installs, emit, call>>

NULL == 0

Idle == [at |-> "rest", kind |-> "none", hook |-> NULL, since |-> 0]
NoCall == [hook |-> NULL, data |-> NULL, since |-> 0, upto |-> 0]

Installed == FoldFunction(+, 0, installs)

\* x_log_set_hook, x_diag_set_hook, x_trace_set_hook: the next installation, of
\* a function or of NULL.
SetHook(k, function) ==
    /\ \A j \in Kinds : stores[j] = {}
    /\ Installed < MaxInstalls
    /\ installs' = [installs EXCEPT ![k] = @ + 1]
    /\ target' = [target EXCEPT ![k] = function]
    /\ stores' = [stores EXCEPT ![k] = {"hook", "user_data"}]
    /\ UNCHANGED <<guarded, hook, user_data, emit, call>>

Set(k) ==
    /\ k \in Kinds /\ ~guarded
    /\ \E function \in {installs[k] + 1, NULL} : SetHook(k, function)
    /\ UNCHANGED guards

x_log_set_hook == Set("log")
x_diag_set_hook == Set("diag")
x_trace_set_hook == Set("trace")

Construct(k) ==
    /\ guarded
    /\ SetHook(k, installs[k] + 1)
    /\ guards' = [guards EXCEPT ![k] = @ \cup {installs[k] + 1}]

\* Variant: the destructor installs the hook of the guard around it.
DestructRestoring(k, g) ==
    LET outer == {i \in 1 .. installs[k] : i < g}
    IN  /\ guarded /\ g \in guards[k]
        /\ SetHook(k, IF outer = {} THEN NULL ELSE CHOOSE i \in outer : \A j \in outer : j <= i)
        /\ guards' = [guards EXCEPT ![k] = @ \ {g}]

\* The destructor of a guard removes the hook that is installed, its own or not.
Destruct(k, g) ==
    /\ guarded /\ g \in guards[k]
    /\ SetHook(k, NULL)
    /\ guards' = [guards EXCEPT ![k] = @ \ {g}]

log_hook_guard == "log" \in Kinds /\ (Construct("log") \/ \E g \in guards["log"] : Destruct("log", g))
diag_hook_guard == "diag" \in Kinds /\ (Construct("diag") \/ \E g \in guards["diag"] : Destruct("diag", g))
trace_hook_guard == "trace" \in Kinds /\ (Construct("trace") \/ \E g \in guards["trace"] : Destruct("trace", g))

\* Variant: the data of a removed hook are kept.
StoreKeepingData(k, s) ==
    /\ s \in stores[k]
    /\ stores' = [stores EXCEPT ![k] = @ \ {s}]
    /\ IF s = "hook" THEN /\ hook' = [hook EXCEPT ![k] = target[k]]
                          /\ UNCHANGED user_data
       ELSE /\ user_data' = [user_data EXCEPT
                  ![k] = IF target[k] = NULL THEN @ ELSE installs[k]]
            /\ UNCHANGED hook
    /\ UNCHANGED <<guarded, guards, target, installs, emit, call>>

\* One of the two stores reaches the other threads.
Store(k, s) ==
    /\ s \in stores[k]
    /\ stores' = [stores EXCEPT ![k] = @ \ {s}]
    /\ IF s = "hook" THEN /\ hook' = [hook EXCEPT ![k] = target[k]]
                          /\ UNCHANGED user_data
                     ELSE /\ user_data' = [user_data EXCEPT ![k] = installs[k]]
                          /\ UNCHANGED hook
    /\ UNCHANGED <<guarded, guards, target, installs, emit, call>>

\* The first installation an emission that begins now may still see.
Settled(k) == IF stores[k] = {} THEN installs[k] ELSE installs[k] - 1

Begin(e, k) ==
    /\ k \in Kinds
    /\ emit[e].at = "rest" /\ hook[k] # NULL
    /\ emit' = [emit EXCEPT ![e] = [at |-> "format", kind |-> k,
                                    hook |-> hook[k], since |-> Settled(k)]]
    /\ UNCHANGED <<guarded, guards, hook, user_data, target, stores, installs, call>>

\* The hook is read once, then tested, then the message is made.  Without a
\* hook nothing is done.
x_log_emit(e) == Begin(e, "log")
x_diag_emit(e) == Begin(e, "diag")
x_trace_emit(e) == Begin(e, "trace")

\* Variant: the global is called, not the copy that was tested.
CallGlobal(e) ==
    LET k == emit[e].kind
    IN  /\ emit[e].at = "format"
        /\ call' = [call EXCEPT ![e] = [hook |-> hook[k], data |-> user_data[k],
                                        since |-> emit[e].since, upto |-> installs[k]]]
        /\ emit' = [emit EXCEPT ![e] = Idle]
        /\ UNCHANGED <<guarded, guards, hook, user_data, target, stores, installs>>

\* The copy of the hook is called with the data as they are now.
CallHook(e) ==
    LET k == emit[e].kind
    IN  /\ emit[e].at = "format"
        /\ call' = [call EXCEPT ![e] = [hook |-> emit[e].hook, data |-> user_data[k],
                                        since |-> emit[e].since, upto |-> installs[k]]]
        /\ emit' = [emit EXCEPT ![e] = Idle]
        /\ UNCHANGED <<guarded, guards, hook, user_data, target, stores, installs>>

Init ==
    /\ guarded \in BOOLEAN /\ guards = [k \in Kinds |-> {}]
    /\ target = [k \in Kinds |-> NULL]
    /\ hook = [k \in Kinds |-> NULL] /\ user_data = [k \in Kinds |-> NULL]
    /\ stores = [k \in Kinds |-> {}] /\ installs = [k \in Kinds |-> 0]
    /\ emit = [e \in Emitters |-> Idle] /\ call = [e \in Emitters |-> NoCall]

Next ==
    \/ x_log_set_hook \/ x_diag_set_hook \/ x_trace_set_hook
    \/ log_hook_guard \/ diag_hook_guard \/ trace_hook_guard
    \/ \E k \in Kinds, s \in {"hook", "user_data"} : Store(k, s)
    \/ \E e \in Emitters : \/ x_log_emit(e) \/ x_diag_emit(e) \/ x_trace_emit(e)
                           \/ CallHook(e)

Spec == Init /\ [][Next]_vars

(***************************************************************************)
(* Properties.                                                             *)
(***************************************************************************)
Called == {call[e] : e \in Emitters} \ {NoCall}

\* A hook that is called was installed during the emission or was the last one
\* installed before it; so were the data it is given.  A hook removed or
\* replaced before an emission began is never called by it, and no emitter calls
\* NULL, although the hook may be removed between the test and the call.
CallsCurrent ==
    \A c \in Called : c.hook # NULL /\ {c.hook, c.data} \subseteq c.since .. c.upto

\* No guard that is gone has its hook installed: whatever the order in which the
\* guards of a kind are constructed and destroyed, an emission that begins finds
\* the hook of a living guard, or none.
GuardsRemoveTheirHooks ==
    guarded => \A k \in Kinds :
        stores[k] = {} => hook[k] \in guards[k] \cup {NULL}

==============================================================================
