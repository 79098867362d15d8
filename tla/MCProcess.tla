------------------------------ MODULE MCProcess ------------------------------
(* Two processes on one database, with two tasks. *)
EXTENDS Process

MCProcs == {"p", "q"}
MCTasks == {"search", "copy"}
=============================================================================
