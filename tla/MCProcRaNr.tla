----------------------------- MODULE MCProcRaNr -----------------------------
(* Two preambles per procedure, two tasks in the queue of the stack.         *)
EXTENDS ProcRaNr
=============================================================================
