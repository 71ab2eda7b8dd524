-------------------------- MODULE ExecutorContract --------------------------
(***************************************************************************)
(* The executor implements the contract its callers rely on: RunContract,  *)
(* on what a reader of its journal tells apart.                            *)
(***************************************************************************)
EXTENDS Executor, Enumeration

\* The events a reader tells apart, in their order, and what it calls them.
Read == {i \in DOMAIN journal :
            journal[i].type \in {"started", "failure", "released", "finished"}}

Named(e) == IF e.type = "finished" THEN e.what ELSE e.type
\* Their selection, written without recursion.
Seen == [k \in 1 .. Cardinality(Read) |-> Named(journal[Nth(Read, k)])]

\* No call costs more than the dearest: what a provider reports is a u64.
ASSUME DearestAssumption ==
    \E d \in Costs : \A c \in Costs : c["tokens"] <= d["tokens"]

DearestCall ==
    CHOOSE m \in {c.tokens : c \in Costs} : \A c \in Costs : c.tokens <= m

Contract ==
    INSTANCE RunContract WITH
        MaxCall <- DearestCall, frames <- Seen, result <- outcome,
        allowance <- plan.cap["tokens"], spent <- spent["tokens"]

\* Whatever the graph, a run appends, releases, ends, returns and spends as
\* the retry loop and the session history take for granted.
KeepsContract == Contract!Spec
=============================================================================
