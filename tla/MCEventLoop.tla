----------------------------- MODULE MCEventLoop -----------------------------
(***************************************************************************)
(* EventLoop for TLC.  The sockets are interchangeable in the safety runs.     *)
(***************************************************************************)
EXTENDS EventLoop, TLC

Symmetric == Permutations(Sockets)

==============================================================================
