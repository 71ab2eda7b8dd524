------------------------------- MODULE RunLog -------------------------------
(***************************************************************************)
(* A run's journal as those who read it later see it: the CLI that retries *)
(* and delivers, the session that continues (graffy-core journal.rs).      *)
(* They tell apart the frames RunStarted, a failure signal, the released   *)
(* answer, RunFinished with its status, and the receipt that a frontend    *)
(* appends after the run has ended.                                        *)
(***************************************************************************)
EXTENDS Naturals, Sequences, SequencesExt

CONSTANT MaxCall    \* the most tokens one model call can spend

ASSUME MaxCallAssumption == MaxCall \in Nat

Statuses == {"succeeded", "failed", "cancelled", "budget-exhausted"}
Progress == {"started", "failure", "released"}
FrameNames == Statuses \cup Progress \cup {"delivered"}

Has(fr, name) == \E i \in DOMAIN fr : fr[i] = name
Ended(fr) == \E i \in DOMAIN fr : fr[i] \in Statuses

\* A run writes its start first, its only status last, and its only answer
\* just before the end of a run that succeeded.
Sound(fr) ==
    /\ \A i \in DOMAIN fr : (fr[i] = "started") <=> (i = 1)
    /\ \A i \in DOMAIN fr : fr[i] \in Statuses => i = Len(fr)
    /\ \A i \in DOMAIN fr : fr[i] = "released" /\ i < Len(fr) => fr[i + 1] = "succeeded"
    /\ \A i \in DOMAIN fr : fr[i] = "succeeded" => fr[i - 1] = "released"

\* Caps are checked between calls, so a cap is overshot by less than a call.
OvershootsByOneCall(cap, cost) == \A c \in cap : cost = 0 \/ cost < c + MaxCall

\* What deliver_response asks of a journal, and whether it has done its work.
Deliverable(fr) == Has(fr, "succeeded") /\ Has(fr, "released")
Delivered(fr) == Has(fr, "delivered")
=============================================================================
