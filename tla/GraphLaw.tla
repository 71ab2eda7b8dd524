------------------------------ MODULE GraphLaw ------------------------------
(***************************************************************************)
(* What a graph specification is, when it compiles, where it starts and    *)
(* when a guard lets execution pass (graffy-core graph.rs and the guard    *)
(* half of exec.rs).                                                       *)
(*                                                                         *)
(* A graph g is a record.  Nodes are their petgraph indices, 1..Len(kind). *)
(* g.succ[n] lists the outgoing edges of n in specification order; an edge *)
(* is [to, when], and `when' is the guard as a sequence of its clauses, so *)
(* that the empty sequence is an edge without a guard.                     *)
(***************************************************************************)
EXTENDS Naturals, Sequences, FiniteSets

NodesOf(g) == DOMAIN g.kind

EdgesOf(g) ==
    UNION {{[from |-> n, to |-> g.succ[n][i].to, when |-> g.succ[n][i].when] :
              i \in DOMAIN g.succ[n]} : n \in NodesOf(g)}

Unguarded == <<>>

Into(g, n) == {e \in EdgesOf(g) : e.to = n}

(***************************************************************************)
(* Guards.  A clause is [op, fact, lit]: `fact == lit', `fact != lit', a   *)
(* bare `fact', or text the grammar rejects.  Clauses are evaluated left   *)
(* to right and evaluation stops at the first that does not hold, so a     *)
(* malformed clause is only noticed when everything before it holds.       *)
(***************************************************************************)
FactIs(facts, name, lit) == name \in DOMAIN facts /\ facts[name] = lit

ClauseHolds(c, facts) ==
    \/ c.op = "eq" /\ FactIs(facts, c.fact, c.lit)
    \/ c.op = "ne" /\ ~FactIs(facts, c.fact, c.lit)
    \/ c.op = "bare" /\ FactIs(facts, c.fact, "true")

GuardPasses(when, facts) ==
    \A i \in DOMAIN when : ClauseHolds(when[i], facts)

GuardIsBad(when, facts) ==
    \E i \in DOMAIN when :
        /\ when[i].op = "malformed"
        /\ \A j \in 1 .. i - 1 : ClauseHolds(when[j], facts)

(***************************************************************************)
(* The structural law: what is left when the guarded edges are dropped has *)
(* no cycle.  A finite graph has a cycle exactly when some non-empty set   *)
(* of nodes gives each of its members a predecessor inside the set.        *)
(***************************************************************************)
UnguardedCycle(g) ==
    \E S \in SUBSET NodesOf(g) :
        /\ S # {}
        /\ \A n \in S : \E e \in Into(g, n) : e.when = Unguarded /\ e.from \in S

StrictEntries(g) == {n \in NodesOf(g) : Into(g, n) = {}}

\* Mutant of EntryNodes: nodes with only guarded incoming edges always start.
EagerEntryNodes(g) ==
    {n \in NodesOf(g) : \A e \in Into(g, n) : e.when # Unguarded}

EntryNodes(g) ==
    IF StrictEntries(g) # {}
    THEN StrictEntries(g)
    ELSE {n \in NodesOf(g) : \A e \in Into(g, n) : e.when # Unguarded}

\* SupportLevel: 1 definitional, 2 observational, 3 empirical, 4 validated.
Levels == 1 .. 4

Compiles(g) ==
    /\ g.floor \in Levels
    /\ g.mode \in {"strict", "trace-only"}
    /\ g.quality \in {"unset", "escalate", "halt"}
    /\ NodesOf(g) # {}
    /\ ~UnguardedCycle(g)
    /\ EntryNodes(g) # {}

\* The ways to list a set of node indices in ascending order (there is one).
InIndexOrder(S) ==
    {q \in [1 .. Cardinality(S) -> S] :
        \A i, j \in DOMAIN q : i < j => q[i] < q[j]}

\* Routing ladder: position of the tier a node's call goes to, `base' when the
\* node's own tier is not on the ladder (position 0) or nothing escalated.
ResolveTier(ladder, base, escalation) ==
    IF escalation = 0 \/ ladder = 0 \/ base = 0 THEN base
    ELSE IF base + escalation <= ladder THEN base + escalation ELSE ladder
=============================================================================
