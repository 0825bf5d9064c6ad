---------------------------- MODULE MCResultStore ----------------------------
EXTENDS ResultStore
CONSTANTS w1, w2
Alike == Permutations(Workers)
(* An analysis may leave the sample of another; a pid may be given twice. *)
SomeFolders == {[items |-> <<<<"dropped", "b">>>>, pids |-> <<1, 1>>,
                 processes |-> <<<< >>, <<"net", "file", "net">>>>]}
=============================================================================
