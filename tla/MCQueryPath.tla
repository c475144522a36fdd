---------------------------- MODULE MCQueryPath ----------------------------
(***************************************************************************)
(* A script of at most two instructions before END; the stream to Query    *)
(* Control holds less than a READ message; Storage may end at any point,   *)
(* the Worker up to the end of its first instruction, or when it has       *)
(* nothing left to ask for a READ that is its first or its second.         *)
(***************************************************************************)
EXTENDS QueryPath

DiesEarly == Gone => \/ worker.done = 0
                     \/ worker.done = 1 /\ worker.ins = "READ" /\ worker.todo = <<>>
=============================================================================
