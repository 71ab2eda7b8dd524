--------------------------- MODULE ShippedGraphs ---------------------------
(***************************************************************************)
(* The graphs graffy ships or generates, as plans of the Executor: the     *)
(* default conversation, the gated conversation and the facade that fronts *)
(* an MCP tool.  Budgets are parameters, so that a run can meet them.      *)
(***************************************************************************)
EXTENDS GraphLaw

\* A clause `fact == lit', and the edges of a graph.
Is(fact, lit) == <<[op |-> "eq", fact |-> fact, lit |-> lit]>>
Then(n) == <<[to |-> n, when |-> <<>>]>>
If(fact, lit, n) == <<[to |-> n, when |-> Is(fact, lit)]>>

\* A plan over nodes of the given kinds whose model nodes write drafts:
\* PolicySpec's ladder of three tiers with every node at the middle one, the
\* observational support floor, no budget.
Sketch(kind, succ) ==
    [kind |-> kind, succ |-> succ,
     role |-> [n \in DOMAIN kind |-> "draft"],
     reads |-> [n \in DOMAIN kind |-> {}],
     level |-> [n \in DOMAIN kind |-> 2],
     base |-> [n \in DOMAIN kind |-> 2],
     ladder |-> 3, floor |-> 2, mode |-> "strict", quality |-> "escalate",
     cap |-> [r \in {"tokens", "usd"} |-> {}],
     deadline |-> FALSE, seconds |-> FALSE, human |-> TRUE, tools |-> FALSE,
     feedback |-> 0, history |-> 0]

\* intake -> ground -> draft -> verify -> respond, verify -> draft on revise.
Conversation ==
    Sketch(<<"intake", "research", "model", "verify", "respond">>,
           <<Then(2), Then(3), Then(4),
             If("verdict", "pass", 5) \o If("verdict", "revise", 3), <<>>>>)

\* The same with a person's approval between verify and respond.
GatedConversation ==
    Sketch(<<"intake", "research", "model", "verify", "approval", "respond">>,
           <<Then(2), Then(3), Then(4),
             If("verdict", "pass", 5) \o If("verdict", "revise", 3),
             If("approval", "approved", 6), <<>>>>)

(***************************************************************************)
(* generate_facade: prepare the arguments, ask for approval when the tool  *)
(* is an effector, invoke, digest the result, verify, respond.  A revision *)
(* goes back to the digest, never to the tool.                             *)
(***************************************************************************)
AfterReview(respond, digest) ==
    If("verdict", "pass", respond) \o If("verdict", "revise", digest)

EffectorFacade(level) ==
    [Sketch(<<"intake", "model", "approval", "tool.invoke", "model", "verify", "respond">>,
            <<Then(2), Then(3), If("approval", "approved", 4),
              If("tool.ok", "true", 5), Then(6), AfterReview(7, 5), <<>>>>)
     EXCEPT !.role[2] = "tool-args", !.reads[5] = {"tool-result"},
            !.level[4] = level, !.base[2] = 1, !.base[5] = 1, !.tools = TRUE]

ReaderFacade(level) ==
    [Sketch(<<"intake", "model", "tool.invoke", "model", "verify", "respond">>,
            <<Then(2), Then(3), If("tool.ok", "true", 4), Then(5),
              AfterReview(6, 4), <<>>>>)
     EXCEPT !.role[2] = "tool-args", !.reads[4] = {"tool-result"},
            !.level[3] = level, !.base[2] = 1, !.base[4] = 1, !.tools = TRUE]
=============================================================================
