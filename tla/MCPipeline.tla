------------------------------ MODULE MCPipeline ------------------------------
(* The event pipeline and, beside it, the transactions that feed it: a         *)
(* behaviour examines one of the two, chosen at the start.                     *)
EXTENDS EventPipeline, Transactions, TLC

VARIABLE examined

vars == <<examined, pipeVars, sendVars>>

Init == examined \in {"pipeline", "transactions"} /\ PipelineInit /\ TransactionsInit

ExaminePipeline(A) == examined = "pipeline" /\ A /\ UNCHANGED <<examined, sendVars>>

Next ==
    \/ ExaminePipeline(PipelineNext)
    \/ examined = "transactions" /\ TransactionsNext /\ UNCHANGED <<examined, pipeVars>>

Spec == Init /\ [][Next]_vars

\* The callers are alike, and so are the flushes.
Alike == Permutations(Callers) \cup Permutations(Flushers)

\* The rows, the messages and the callers have their types.
TypeOK == PipelineTypeOK /\ TransactionsTypeOK
=============================================================================
