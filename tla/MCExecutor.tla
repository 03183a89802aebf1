----------------------------- MODULE MCExecutor -----------------------------
(* A small instance of Executor for TLC. *)
EXTENDS Executor

CONSTANT MaxLines  \* bound: lines that a command writes

MCOutputs == UNION {[1..n -> Line] : n \in 0..MaxLines}
MCCommands == [output : MCOutputs, ends : {"ok", "fail", "never"}]
=============================================================================
