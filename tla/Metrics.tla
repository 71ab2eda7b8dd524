------------------------------ MODULE Metrics ------------------------------
(***************************************************************************)
(* What `graffy metrics' makes of the journals (graffy-core metrics.rs):   *)
(* one row per journal, folded from its frames, and the rows grouped into  *)
(* attempt groups and added up.  Tokens, costs and labels are left out.    *)
(***************************************************************************)
EXTENDS Enumeration, Sequences, SequencesExt

\* Mutant of IsRating: a rating is a run like any other.
NoRating(row) == FALSE

IsRating(row) == row.kind = "rating"

Count(run, what) == Cardinality({i \in DOMAIN run.frames : run.frames[i].is = what})

Row(run) ==
    LET ends == {i \in DOMAIN run.frames : run.frames[i].is = "finished"}
        Decided(d) == Cardinality({i \in DOMAIN run.frames :
            run.frames[i].is = "approval" /\ run.frames[i].decision = d})
    IN  [id |-> run.id, group |-> run.group, kind |-> run.kind,
         status |-> IF ends = {} THEN "unfinished" ELSE run.frames[Max(ends)].status,
         failures |-> Count(run, "failure"), repairs |-> Count(run, "repair"),
         samples |-> Count(run, "sample"), units |-> Count(run, "unit"),
         approved |-> Decided("approved"), rejected |-> Decided("rejected")]

\* The rows that are runs, in the order of the rows.
Executions(rows) == Those(rows, {i \in DOMAIN rows : ~IsRating(rows[i])})

\* The first of the rows that succeeded, counting from 1; 0 if none did.
FirstPass(rows) == SelectInSeq(rows, LAMBDA r : r.status = "succeeded")

Sum(rows, Field(_)) == Total([i \in DOMAIN rows |-> Field(rows[i])], Len(rows))

Repairs(rows) == Sum(rows, LAMBDA r : r.repairs)
Failures(rows) == Sum(rows, LAMBDA r : r.failures)

GroupOf(rows, g) ==
    LET mine == Executions(rows) IN Those(mine, {i \in DOMAIN mine : mine[i].group = g})

AttemptGroups(rows) ==
    [g \in {r.group : r \in ToSet(Executions(rows))} |->
        LET mine == GroupOf(rows, g)
        IN  [attempts |-> Len(mine), pass |-> FirstPass(mine), repairs |-> Repairs(mine)]]

\* The same over a session; the rows given are those of one session.
SessionMetrics(rows) ==
    LET mine == Executions(rows)
    IN  [runs |-> Len(mine), pass |-> FirstPass(mine),
         repairs |-> Repairs(mine), failures |-> Failures(mine)]

Aggregate(rows) ==
    LET mine == Executions(rows)
        groups == AttemptGroups(rows)
        retried == {g \in DOMAIN groups : groups[g].attempts > 1}
    IN  [runs |-> Len(mine),
         succeeded |-> Cardinality({i \in DOMAIN mine : mine[i].status = "succeeded"}),
         failures |-> Failures(mine), repairs |-> Repairs(mine),
         ratings |-> Len(rows) - Len(mine),
         samples |-> Sum(rows, LAMBDA r : r.samples),
         groups |-> Cardinality(DOMAIN groups),
         retried |-> Cardinality(retried),
         converged |-> Cardinality({g \in retried : groups[g].pass # 0})]
=============================================================================
