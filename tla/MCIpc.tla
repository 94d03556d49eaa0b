-------------------------------- MODULE MCIpc --------------------------------
(* Ipc for TLC: two spellings of one name, and one that is too long. *)
EXTENDS Ipc, TLC

NamesModel == {[slash |-> FALSE, body |-> "a", length |-> 1],
               [slash |-> TRUE, body |-> "a", length |-> 2],
               [slash |-> FALSE, body |-> "long", length |-> 3]}

\* All processes do the same.
Symmetric == Permutations(Procs)

==============================================================================
