------------------------------ MODULE Executor ------------------------------
(***************************************************************************)
(* One call of Executor::run (graffy-core exec.rs): the executor walks a   *)
(* compiled graph with a queue, runs one node at a time, appends every     *)
(* observable to the run's journal, and at the end releases at most one    *)
(* answer.  Around it: the model and tool planes (calls that leave the     *)
(* process), the approval handler, a latched cancellation and a deadline.  *)
(*                                                                         *)
(* A plan is the graph together with its policy and the part of RunInput   *)
(* and of the executor's configuration that the run depends on.  It is     *)
(* picked from Plans when the run begins and never changes.                *)
(***************************************************************************)
EXTENDS GraphLaw

CONSTANTS
    Plans,        \* the plans explored
    MaxVisits,    \* Executor.max_node_visits
    Costs         \* what one model call can spend, by resource

Resources == {"tokens", "usd"}
Kinds == {"intake", "research", "model", "verify", "respond", "approval",
          "tool.invoke", "unknown"}
RoleNames == {"draft", "tool-args", "tool-result", "review", "review-feedback",
              "boundary-history", "response", "other"}
Roles == RoleNames \cup {"none"}

(***************************************************************************)
(* kind, role, reads, level, base: per node, its kind, the iu_role and     *)
(* context_roles of a model node, the evidence_level of a tool node, its   *)
(* tier as a position on the ladder (0: it is not on it).  cap (a set,     *)
(* empty for no cap) and deadline are what is left once the whole-turn     *)
(* budget of a retry is taken into account; seconds says that the policy's *)
(* max_seconds sets the deadline (otherwise what remains of the turn       *)
(* does).  human: the approval handler speaks for a person.  tools: a tool *)
(* plane is configured.  feedback, history: how many critiques and prior   *)
(* turns are carried in.                                                   *)
(***************************************************************************)
EdgesWithin(S) ==
    [to : S, when : Seq([op : {"eq", "ne", "bare", "malformed"}, fact : STRING,
                         lit : STRING])]

PlanTyped(p) ==
    /\ p.kind \in Seq(Kinds)
    /\ p.role \in [NodesOf(p) -> RoleNames]
    /\ p.reads \in [NodesOf(p) -> SUBSET RoleNames]
    /\ p.level \in [NodesOf(p) -> Levels]
    /\ p.ladder \in Nat /\ p.base \in [NodesOf(p) -> 0 .. p.ladder]
    /\ DOMAIN p.succ = NodesOf(p)
    /\ \A n \in NodesOf(p) : p.succ[n] \in Seq(EdgesWithin(NodesOf(p)))
    /\ p.cap \in [Resources -> SUBSET Nat]
    /\ {p.deadline, p.seconds, p.human, p.tools} \subseteq BOOLEAN
    /\ p.seconds => p.deadline
    /\ p.feedback \in Nat /\ p.history \in Nat

ASSUME PlansAssumption == \A p \in Plans : PlanTyped(p)
ASSUME MaxVisitsAssumption == MaxVisits \in Nat
ASSUME CostsAssumption == Costs \subseteq [Resources -> Nat]

VARIABLES
    plan,
    pc,           \* where the executor's loop stands
    node,         \* the node popped last (0 before the first)
    edge,         \* the outgoing edge of node considered next
    facts,        \* guard facts node's output carries
    escalated,    \* node returned Escalate
    queue, queued, visits, escalations,
    spent,        \* tokens and USD of the model calls that returned
    receipts,     \* artifact_levels: evidence id -> support level
    ledger,       \* the information units; an id is a position
    verified,     \* verified_iu_ids
    pending,      \* pending_response: at most one <<text, role>>
    finalText,    \* final_text, 0 for None
    forced,       \* forced_status, "none" for None
    journal,
    outcome,      \* what the call of run returned
    cancelled, late, issued

progress == <<node, edge, facts, escalated>>
schedule == <<queue, queued, visits, escalations>>
knowledge == <<receipts, ledger, verified>>
answer == <<pending, finalText>>
world == <<cancelled, late>>
vars == <<plan, pc, progress, schedule, spent, knowledge, answer, forced,
          journal, outcome, world, issued>>

(***************************************************************************)
(* Journal events.  type says which event it is, at the node (0: none),    *)
(* what its variant, ref the information unit or text it is about, or the  *)
(* ladder position of a call.                                              *)
(***************************************************************************)
Event(type, at, what, ref) == [type |-> type, at |-> at, what |-> what, ref |-> ref]
Transition(n, state) == Event("transition", n, state, 0)
Finished(status) == Event("finished", 0, status, 0)

Append1(e) == journal' = Append(journal, e)

\* An information unit: who may cite it, what receipts it cites, what it says.
Unit(role, human, cites, text, reviewed) ==
    [role |-> role, human |-> human, cites |-> cites, text |-> text,
     reviewed |-> reviewed]

Newest(S) == IF S = {} THEN 0 ELSE CHOOSE i \in S : \A j \in S : j <= i

Latest(roles) == Newest({i \in DOMAIN ledger : ledger[i].role \in roles})

LatestDraft == Latest({"draft"})

NextId == Len(ledger) + 1
NextReceipt == Len(receipts) + 1

-----------------------------------------------------------------------------
(* Starting the run. *)

Init ==
    /\ plan \in Plans
    /\ pc = "new"
    /\ node = 0 /\ edge = 1 /\ facts = <<>> /\ escalated = FALSE
    /\ queue = <<>> /\ queued = {}
    /\ visits = [n \in NodesOf(plan) |-> 0]
    /\ escalations = [n \in NodesOf(plan) |-> 0]
    /\ spent = [r \in Resources |-> 0]
    /\ receipts = <<>> /\ ledger = <<>> /\ verified = {}
    /\ pending = <<>> /\ finalText = 0 /\ forced = "none"
    /\ journal = <<>> /\ outcome = "none"
    /\ cancelled = FALSE /\ late = FALSE
    /\ issued = <<>>

\* Carried critiques become review-feedback units, prior visible turns
\* boundary-history units; neither cites a receipt.
CarriedUnits ==
    [i \in 1 .. plan.feedback + plan.history |->
        Unit(IF i <= plan.feedback THEN "review-feedback" ELSE "boundary-history",
             FALSE, {}, i, FALSE)]

Open ==
    /\ pc = "new"
    /\ Compiles(plan)
    /\ ledger' = CarriedUnits
    /\ journal' = <<Event("started", 0, "", 0)>>
          \o [i \in 1 .. plan.feedback + plan.history |->
                 Event("unit", 0, CarriedUnits[i].role, i)]
    /\ \E q \in InIndexOrder(EntryNodes(plan)) : queue' = q
    /\ queued' = EntryNodes(plan)
    /\ pc' = "pop"
    /\ UNCHANGED <<plan, progress, visits, escalations, spent, receipts, verified,
                   answer, forced, outcome, world, issued>>

RefuseToCompile ==
    /\ pc = "new"
    /\ ~Compiles(plan)
    /\ pc' = "returned" /\ outcome' = "error"
    /\ UNCHANGED <<plan, progress, schedule, spent, knowledge, answer, forced,
                   journal, world, issued>>

-----------------------------------------------------------------------------
(* Taking the next node off the queue. *)

Paid == {"model", "verify", "tool.invoke"}

AtCap == \E r \in Resources : \E c \in plan.cap[r] : spent[r] >= c

Pop(n) ==
    /\ pc = "pop"
    /\ queue # <<>> /\ n = Head(queue)
    /\ queue' = Tail(queue)
    /\ queued' = queued \ {n}
    /\ node' = n

Stops(status) ==
    /\ forced' = status
    /\ pc' = "closing"

StopAtCap ==
    /\ \E n \in NodesOf(plan) : Pop(n) /\ plan.kind[n] \in Paid
    /\ AtCap
    /\ Stops("budget-exhausted")
    /\ UNCHANGED <<plan, edge, facts, escalated, visits, escalations, spent,
                   knowledge, answer, journal, outcome, world, issued>>

Visit(n) ==
    /\ Pop(n)
    /\ ~(plan.kind[n] \in Paid /\ AtCap)
    /\ visits' = [visits EXCEPT ![n] = @ + 1]

StopAtVisitCap ==
    /\ \E n \in NodesOf(plan) :
          /\ Visit(n)
          /\ visits'[n] > MaxVisits
          /\ journal' = journal \o <<Transition(n, "skipped"),
                                     Event("failure", n, "exhaustion", 0)>>
    /\ Stops("failed")
    /\ UNCHANGED <<plan, edge, facts, escalated, escalations, spent, knowledge,
                   answer, outcome, world, issued>>

RunNode ==
    /\ \E n \in NodesOf(plan) :
          /\ Visit(n)
          /\ visits'[n] <= MaxVisits
          /\ plan.kind[n] # "unknown"
          /\ Append1(Transition(n, "running"))
    /\ pc' = "running"
    /\ UNCHANGED <<plan, edge, facts, escalated, escalations, spent, knowledge,
                   answer, forced, outcome, world, issued>>

\* Mutant of Fails: the error is returned before the run's end is journaled.
FailsUnfinished(n, events) ==
    /\ journal' = journal \o events \o <<Transition(n, "failed")>>
    /\ pc' = "returned" /\ outcome' = "error"

\* Leaving run with an error, after the failed node's own transition.
Fails(n, events) ==
    /\ journal' = journal \o Append(Append(events, Transition(n, "failed")),
                                   Finished("failed"))
    /\ pc' = "returned" /\ outcome' = "error"

UnknownKind ==
    /\ \E n \in NodesOf(plan) :
          /\ Visit(n)
          /\ visits'[n] <= MaxVisits
          /\ plan.kind[n] = "unknown"
          /\ Fails(n, <<Transition(n, "running")>>)
    /\ UNCHANGED <<plan, edge, facts, escalated, escalations, spent, knowledge,
                   answer, forced, world, issued>>

-----------------------------------------------------------------------------
(* Executing a node under `controlled': a cancellation or a deadline that  *)
(* has already fired wins over a result that is ready.                     *)

Live == ~cancelled /\ ~late
Running(kinds) == pc = "running" /\ Live /\ plan.kind[node] \in kinds
Calling(kinds) == pc = "calling" /\ Live /\ plan.kind[node] \in kinds

StopStatus == IF cancelled THEN "cancelled" ELSE "budget-exhausted"

\* Mutant of Stopped: the interrupted node's transition is not journaled.
StoppedSilently ==
    /\ pc \in {"running", "calling"}
    /\ ~Live
    /\ Stops(StopStatus)
    /\ UNCHANGED <<plan, progress, schedule, spent, knowledge, answer, journal,
                   outcome, world, issued>>

Stopped ==
    /\ pc \in {"running", "calling"}
    /\ ~Live
    /\ Append1(Transition(node, "cancelled"))
    /\ Stops(StopStatus)
    /\ UNCHANGED <<plan, progress, schedule, spent, knowledge, answer, outcome,
                   world, issued>>

\* Mutant of ReceiptEvents: receipts are kept in memory only.
NoReceiptEvents(levels) == <<>>

ReceiptEvents(levels) ==
    [i \in DOMAIN levels |-> Event("receipt", node, "", NextReceipt)]

\* Mutant of Kept: artifact_levels is not told of a node's receipts.
NotKept(levels) == receipts

Kept(levels) == receipts \o levels

\* What the executor does with the output of a node that came back: journal
\* the node's records, receipt and unit, keep the answer candidate, close the
\* node, extend the ledger.  levels and units hold at most one element.
Commit(records, levels, units, fs, esc) ==
    LET shown == [i \in DOMAIN units |-> Event("unit", node, units[i].role, NextId)]
        said  == IF units # <<>> /\ units[1].human
                 THEN <<Event("visible", node, "prompt", units[1].text)>> ELSE <<>>
        done  == <<Transition(node, "succeeded")>>
    IN  /\ journal' = journal \o (records \o ReceiptEvents(levels))
                              \o (shown \o said \o done)
        /\ receipts' = Kept(levels)
        /\ ledger' = ledger \o units
        /\ pending' = IF units # <<>> /\ units[1].role = "response"
                      THEN <<units[1].text, IF units[1].reviewed
                                            THEN "verified_response" ELSE "response">>
                      ELSE pending
        /\ facts' = fs /\ escalated' = esc
        /\ edge' = 1
        /\ IF esc /\ plan.quality = "halt"
           THEN Stops("failed")
           ELSE pc' = "routing" /\ UNCHANGED forced

\* Leaving run with the error of the current node.
NodeError(records) ==
    /\ Fails(node, records)
    /\ UNCHANGED <<plan, progress, schedule, spent, knowledge, answer, forced,
                   world, issued>>

Intake ==
    /\ Running({"intake"})
    /\ Commit(<<>>, <<2>>, <<Unit("none", TRUE, {NextReceipt}, NextId, FALSE)>>,
              [intake |-> "true"], FALSE)
    /\ UNCHANGED <<plan, node, schedule, spent, verified, finalText, outcome,
                   world, issued>>

Research ==
    /\ Running({"research"})
    /\ Commit(<<>>, <<>>, <<>>, [grounded |-> "true"], FALSE)
    /\ UNCHANGED <<plan, node, schedule, spent, verified, finalText, outcome,
                   world, issued>>

\* Mutant of Reviewed: some draft was reviewed, not this one.
SomethingReviewed == verified # {}

Reviewed == LatestDraft \in verified

Respond ==
    /\ Running({"respond"})
    /\ LatestDraft # 0
    /\ LET draft == ledger[LatestDraft]
       IN  /\ Commit(<<>>, <<>>, <<Unit("response", FALSE, draft.cites, draft.text,
                                        Reviewed)>>,
                     [done |-> "true"], FALSE)
           /\ finalText' = draft.text
    /\ UNCHANGED <<plan, node, schedule, spent, verified, outcome, world, issued>>

-----------------------------------------------------------------------------
(* Model calls. *)

\* Receipts are checked, then the support floor, before a judge is called.
Strongest(draft) ==
    CHOOSE l \in 0 .. 4 :
        /\ \A c \in draft.cites : receipts[c] <= l
        /\ l # 0 => \E c \in draft.cites : receipts[c] = l

Receipted(draft) == draft.cites # {} /\ draft.cites \subseteq DOMAIN receipts

\* Mutant of MeetsFloor: one level below the floor passes.
NearlyMeetsFloor(draft) == Strongest(draft) + 1 >= plan.floor

MeetsFloor(draft) == Strongest(draft) >= plan.floor

BelowFloor ==
    /\ Running({"verify"})
    /\ LatestDraft # 0 /\ Receipted(ledger[LatestDraft])
    /\ ~MeetsFloor(ledger[LatestDraft])
    /\ Commit(<<>>, <<>>, <<>>, [verdict |-> "revise"], TRUE)
    /\ UNCHANGED <<plan, node, schedule, spent, verified, finalText, outcome,
                   world, issued>>

ReadyToCall ==
    \/ Running({"model"})
    \/ /\ Running({"verify"})
       /\ LatestDraft # 0 /\ Receipted(ledger[LatestDraft])
       /\ MeetsFloor(ledger[LatestDraft])
    \/ Running({"tool.invoke"}) /\ plan.tools

\* The arguments of a tool call: the latest tool-args unit, or "{}" (0).
CallArgument ==
    IF plan.kind[node] = "tool.invoke" THEN Latest({"tool-args"}) ELSE 0

Call ==
    /\ ReadyToCall
    /\ issued' = Append(issued, [at |-> node, arg |-> CallArgument,
                                 after |-> Len(journal)])
    /\ pc' = "calling"
    /\ UNCHANGED <<plan, progress, schedule, spent, knowledge, answer, forced,
                   journal, outcome, world>>

NothingToWorkOn ==
    /\ \/ Running({"verify", "respond"}) /\ LatestDraft = 0
       \/ Running({"verify"}) /\ LatestDraft # 0 /\ ~Receipted(ledger[LatestDraft])
       \/ Running({"tool.invoke"}) /\ ~plan.tools
    /\ NodeError(<<>>)

\* The provider adapter refuses, before any contact, a request whose
\* estimated prompt does not fit in what is left of the token budget.
NoRoomForPrompt ==
    /\ Running({"model", "verify"})
    /\ ReadyToCall
    /\ plan.cap["tokens"] # {}
    /\ Append1(Transition(node, "cancelled"))
    /\ Stops("budget-exhausted")
    /\ UNCHANGED <<plan, progress, schedule, spent, knowledge, answer, outcome,
                   world, issued>>

\* Mutant of FailureRecords: a failed tool call leaves no record either.
NoFailureRecords == <<>>

\* A call that fails leaves a record only if it was a tool call.
FailureRecords ==
    IF plan.kind[node] = "tool.invoke"
    THEN <<Event("tool-call", node, "error", CallArgument)>> ELSE <<>>

CallFails == Calling(Paid) /\ NodeError(FailureRecords)

Spend(cost) == spent' = [r \in Resources |-> spent[r] + cost[r]]

Tier(n) == ResolveTier(plan.ladder, plan.base[n], escalations[n])

CallRecords ==
    <<Event("routing", node, "", escalations[node]),
      Event("model-call", node, "", Tier(node))>>

\* What a model node reads: the latest goal or correction of the human, all review
\* feedback, all history, the latest unit of each of its context roles.
Consumed ==
    LET request == Newest({i \in DOMAIN ledger : ledger[i].human})
    IN  {i \in DOMAIN ledger :
            \/ i = request
            \/ ledger[i].role \in {"review-feedback", "boundary-history"}
            \/ \E r \in plan.reads[node] : i = Latest({r})}

ModelReturns ==
    /\ Calling({"model"})
    /\ \E cost \in Costs : Spend(cost)
    /\ Commit(CallRecords, <<1>>,
              <<Unit(plan.role[node], FALSE,
                     {NextReceipt} \cup UNION {ledger[i].cites : i \in Consumed},
                     NextId, FALSE)>>,
              [drafted |-> "true"], FALSE)
    /\ UNCHANGED <<plan, node, schedule, verified, finalText, outcome, world, issued>>

JudgePasses ==
    /\ Calling({"verify"})
    /\ \E cost \in Costs : Spend(cost)
    /\ Commit(CallRecords, <<1>>,
              <<Unit("review", FALSE, {NextReceipt}, NextId, FALSE)>>,
              [verdict |-> "pass"], FALSE)
    /\ verified' = verified \cup {LatestDraft}
    /\ UNCHANGED <<plan, node, schedule, finalText, outcome, world, issued>>

JudgeRevises ==
    /\ Calling({"verify"})
    /\ \E cost \in Costs : Spend(cost)
    /\ Commit(Append(CallRecords, Event("failure", node, "judged", LatestDraft)),
              <<1>>, <<Unit("review-feedback", FALSE, {NextReceipt}, NextId, FALSE)>>,
              [verdict |-> "revise"], TRUE)
    /\ UNCHANGED <<plan, node, schedule, verified, finalText, outcome, world, issued>>

\* A tool can answer with an error of its own: a result like any other.
ToolReturns(ok) ==
    /\ Calling({"tool.invoke"})
    /\ Commit(<<Event("tool-call", node, IF ok THEN "ok" ELSE "is_error", CallArgument)>>,
              <<plan.level[node]>>,
              <<Unit("tool-result", FALSE, {NextReceipt}, NextId, FALSE)>>,
              [f \in {"invoked", "tool.ok"} |->
                  IF f = "tool.ok" /\ ~ok THEN "false" ELSE "true"],
              FALSE)
    /\ UNCHANGED <<plan, node, schedule, spent, verified, finalText, outcome,
                   world, issued>>

-----------------------------------------------------------------------------
(* Approval: the run pauses on the exact payload a person is shown. *)

\* Mutant of Shown: the question shows the draft, not the tool's arguments.
ShownDraft == LatestDraft

Shown == Latest({"tool-args", "draft"})

AskApproval ==
    /\ Running({"approval"})
    /\ journal' = journal \o <<Transition(node, "awaiting"),
                               Event("approval", node, "pending", Shown)>>
    /\ pc' = "awaiting"
    /\ UNCHANGED <<plan, progress, schedule, spent, knowledge, answer, forced,
                   outcome, world, issued>>

\* The journal entries of a decision.  Only a handler that speaks for a
\* person leaves boundary events, and only one that answered a visible one.
DecisionEvents(decision) ==
    LET answered == plan.human /\ decision # "abandoned"
        question == IF plan.human
                    THEN <<Event(IF answered THEN "visible" ELSE "unknown",
                                 node, "approval_question", Shown)>> ELSE <<>>
        record   == <<Event("approval", node, IF decision = "approved"
                            THEN "approved" ELSE "rejected", Shown)>>
        reply    == IF answered
                    THEN <<Event("visible", node, "approval_decision", 0)>> ELSE <<>>
    IN  question \o record \o reply

Approve ==
    /\ pc = "awaiting" /\ Live
    /\ Commit(DecisionEvents("approved"), <<>>, <<>>, [approval |-> "approved"], FALSE)
    /\ UNCHANGED <<plan, node, schedule, spent, verified, finalText, outcome,
                   world, issued>>

Refuse(decision, status) ==
    /\ pc = "awaiting"
    /\ journal' = journal \o DecisionEvents(decision)
                          \o <<Transition(node, "cancelled")>>
    /\ Stops(status)
    /\ UNCHANGED <<plan, progress, schedule, spent, knowledge, answer, outcome,
                   world, issued>>

\* Rejected, an edit (never applied), or a handler that gave up on an answer.
Decline ==
    /\ Live
    /\ \E decision \in {"rejected", "edited", "abandoned"} :
          Refuse(decision, "cancelled")

\* Mutant of Silence: only a cancellation ends the wait for a person.
WaitForPerson == cancelled /\ Refuse("abandoned", StopStatus)

\* Cancellation or the deadline ends the wait: silence is a refusal.
Silence == ~Live /\ Refuse("abandoned", StopStatus)

-----------------------------------------------------------------------------
(* Following the edges of a completed node, then the budget check. *)

Edge == plan.succ[node][edge]

\* Mutant of Escalated: the judge is moved up the ladder, not its target.
EscalatedJudge ==
    IF escalated THEN [escalations EXCEPT ![node] = @ + 1] ELSE escalations

\* A node a quality gate escalates to moves up, even if it is already queued.
Escalated ==
    IF escalated THEN [escalations EXCEPT ![Edge.to] = @ + 1] ELSE escalations

FollowEdge ==
    /\ pc = "routing" /\ edge \in DOMAIN plan.succ[node]
    /\ GuardPasses(Edge.when, facts)
    /\ escalations' = Escalated
    /\ queue' = IF Edge.to \in queued THEN queue ELSE Append(queue, Edge.to)
    /\ queued' = queued \cup {Edge.to}
    /\ edge' = edge + 1
    /\ UNCHANGED <<plan, pc, node, facts, escalated, visits, spent, knowledge,
                   answer, forced, journal, outcome, world, issued>>

PassOverEdge ==
    /\ pc = "routing" /\ edge \in DOMAIN plan.succ[node]
    /\ ~GuardPasses(Edge.when, facts) /\ ~GuardIsBad(Edge.when, facts)
    /\ edge' = edge + 1
    /\ UNCHANGED <<plan, pc, node, facts, escalated, schedule, spent, knowledge,
                   answer, forced, journal, outcome, world, issued>>

\* A malformed guard leaves run with an error and the journal without an end.
BadGuard ==
    /\ pc = "routing" /\ edge \in DOMAIN plan.succ[node]
    /\ GuardIsBad(Edge.when, facts)
    /\ pc' = "returned" /\ outcome' = "error"
    /\ UNCHANGED <<plan, progress, schedule, spent, knowledge, answer, forced,
                   journal, world, issued>>

\* Mutant of Exceeded: off by one.
ExceededByTwo(overtime) ==
    \/ \E r \in Resources : \E c \in plan.cap[r] : spent[r] > c + 1
    \/ overtime

Exceeded(overtime) ==
    \/ \E r \in Resources : \E c \in plan.cap[r] : spent[r] > c
    \/ overtime

\* Whether max_seconds has passed by now, the deadline noticed before or not.
Overtimes == IF ~plan.seconds THEN {FALSE} ELSE IF late THEN {TRUE} ELSE BOOLEAN

Settle ==
    /\ pc = "routing" /\ edge \notin DOMAIN plan.succ[node]
    /\ \E overtime \in Overtimes :
          /\ late' = (late \/ overtime)
          /\ IF Exceeded(overtime)
             THEN /\ Append1(Event("budget", node, "", 0))
                  /\ Stops("budget-exhausted")
             ELSE pc' = "pop" /\ UNCHANGED <<journal, forced>>
    /\ UNCHANGED <<plan, progress, schedule, spent, knowledge, answer, outcome,
                   cancelled, issued>>

-----------------------------------------------------------------------------
(* The end of the run. *)

Status ==
    IF forced # "none" THEN forced
    ELSE IF finalText # 0 THEN "succeeded" ELSE "failed"

\* Mutant of Release: a candidate is released however the run ended.
ReleaseAnyway ==
    IF pending # <<>> THEN <<Event("released", 0, pending[2], pending[1])>> ELSE <<>>

Release ==
    IF Status = "succeeded" /\ pending # <<>>
    THEN <<Event("released", 0, pending[2], pending[1])>> ELSE <<>>

\* Mutant of Answer: the candidate text is handed back whatever the status.
AnswerAnyway == finalText

\* What run hands back: nothing unless the whole run succeeded.
Answer == IF Status = "succeeded" THEN finalText ELSE 0

Repairs ==
    [i \in 1 .. plan.feedback |->
        Event("repair", 0, IF Status = "succeeded" THEN "successful" ELSE "unsuccessful", i)]

Close ==
    /\ \/ pc = "closing"
       \/ pc = "pop" /\ queue = <<>>
    /\ journal' = journal \o (Release \o Repairs \o <<Finished(Status)>>)
    /\ finalText' = Answer
    /\ forced' = Status
    /\ outcome' = "ok"
    /\ pc' = "returned"
    /\ UNCHANGED <<plan, progress, schedule, spent, knowledge, pending, world, issued>>

-----------------------------------------------------------------------------
(* The environment: Ctrl-C, a closed UI, the clock. *)

Cancel ==
    /\ pc # "returned" /\ ~cancelled
    /\ cancelled' = TRUE
    /\ UNCHANGED <<plan, pc, progress, schedule, spent, knowledge, answer, forced,
                   journal, outcome, late, issued>>

Expire ==
    /\ pc # "returned" /\ plan.deadline /\ ~late
    /\ late' = TRUE
    /\ UNCHANGED <<plan, pc, progress, schedule, spent, knowledge, answer, forced,
                   journal, outcome, cancelled, issued>>

\* Steps the executor takes by itself, given processor time.
Executes ==
    \/ Open \/ RefuseToCompile
    \/ StopAtCap \/ StopAtVisitCap \/ RunNode \/ UnknownKind
    \/ Stopped \/ Intake \/ Research \/ Respond
    \/ BelowFloor \/ Call \/ NothingToWorkOn
    \/ AskApproval \/ Silence
    \/ FollowEdge \/ PassOverEdge \/ BadGuard \/ Settle \/ Close

\* What depends on a provider, a tool server or a person.
Outside ==
    \/ NoRoomForPrompt \/ CallFails
    \/ ModelReturns \/ JudgePasses \/ JudgeRevises
    \/ (\E ok \in BOOLEAN : ToolReturns(ok))
    \/ Approve \/ Decline

Environment == Cancel \/ Expire

Returned == pc = "returned" /\ UNCHANGED vars

Next == Executes \/ Outside \/ Environment \/ Returned

\* The executor's task is polled until it ends and time passes; nothing is
\* assumed of providers, of tools or of the person asked.
Fairness == WF_vars(Executes) /\ WF_vars(Expire)

Spec == Init /\ [][Next]_vars
FairSpec == Spec /\ Fairness

-----------------------------------------------------------------------------
(* Properties. *)

Statuses == {"none", "succeeded", "failed", "cancelled", "budget-exhausted"}

\* Information units that cite nothing but the given receipts.
UnitsCiting(R) ==
    [role : Roles, human : BOOLEAN, cites : SUBSET R, text : Nat, reviewed : BOOLEAN]

\* Types: every piece of the loop's state, and every identifier it stores,
\* names something that exists.
TypeOK ==
    /\ plan \in Plans
    /\ pc \in {"new", "pop", "running", "calling", "awaiting", "routing", "closing",
              "returned"}
    /\ node \in NodesOf(plan) \cup {0} /\ edge \in Nat \ {0}
    /\ pc \in {"running", "calling", "awaiting", "routing"} => node # 0
    /\ escalated \in BOOLEAN
    /\ queue \in Seq(NodesOf(plan)) /\ queued \subseteq NodesOf(plan)
    /\ visits \in [NodesOf(plan) -> Nat] /\ escalations \in [NodesOf(plan) -> Nat]
    /\ spent \in [Resources -> Nat]
    /\ receipts \in Seq(Levels)
    /\ ledger \in Seq(UnitsCiting(DOMAIN receipts))
    /\ verified \subseteq DOMAIN ledger
    /\ finalText \in Nat
    /\ forced \in Statuses
    /\ outcome \in {"none", "ok", "error"}
    /\ cancelled \in BOOLEAN /\ late \in BOOLEAN

\* The events of a type in the journal, by position.
Logged(type) == {i \in DOMAIN journal : journal[i].type = type}
LoggedAt(type, what) == {i \in Logged(type) : journal[i].what = what}

\* run's loop keeps `queued' beside the queue so that no node waits twice; if
\* the two ever differed, a node could be lost (never queued again) or run
\* twice for one arrival.
QueuedIsQueue ==
    /\ queued = {queue[i] : i \in DOMAIN queue}
    /\ \A i, j \in DOMAIN queue : queue[i] = queue[j] => i = j

\* Both: at every step of the loop what it keeps exists, and agrees.
LoopIsSound == TypeOK /\ QueuedIsQueue

\* A journal ends once, with its last event, and a run that returns has ended
\* its journal unless its graph did not compile (there is no journal) or a
\* guard of the last node did not parse.
EndIsUnique ==
    /\ \A i \in Logged("finished") : i = Len(journal)
    /\ pc = "returned" /\ Logged("finished") = {} =>
          \/ journal = <<>>
          \/ outcome = "error" /\ GuardIsBad(Edge.when, facts)

\* An answer is released at most once, by a run that succeeded, and nothing
\* but repair records and the end of the run follows it: a reader of any
\* prefix of the journal that stops short of the end must not deliver it.
ReleaseEndsTheRun ==
    \A i \in Logged("released") :
        /\ outcome = "ok"
        /\ journal[Len(journal)] = Finished("succeeded")
        /\ \A j \in i + 1 .. Len(journal) - 1 : journal[j].type = "repair"

\* However a run ends, its journal ends once, and only the end of a success
\* releases.
JournalEndsOnce == EndIsUnique /\ ReleaseEndsTheRun

\* What run returns to the frontend, which prints it, is the text its journal
\* says was released; a run that did not succeed returns no text.
AnswerIsTheRelease ==
    outcome = "ok" =>
        /\ finalText = 0 <=> Logged("released") = {}
        /\ \A i \in Logged("released") : journal[i].ref = finalText

\* A release labelled verified was judged: some review passed while the
\* released text was the newest draft in the journal, whatever the nodes of
\* the graph wrote afterwards.
VerifiedReleaseWasReviewed ==
    \A i \in LoggedAt("released", "verified_response") :
        \E j \in LoggedAt("unit", "review") :
            LET drafts == {k \in LoggedAt("unit", "draft") : k < j}
            IN  /\ drafts # {}
                /\ ledger[journal[Newest(drafts)].ref].text = journal[i].ref

\* A judge only sees, and so a verified release only rests on, a draft that
\* cites a journaled receipt at or above the policy's support floor.
ReviewedMeetsFloor ==
    \A d \in verified :
        \E i \in Logged("receipt") :
            /\ journal[i].ref \in ledger[d].cites
            /\ receipts[journal[i].ref] >= plan.floor

\* Every receipt a unit cites is in the journal before the unit, through any
\* number of inheritance steps: the check that fails a run for missing
\* receipts never has to fire.
ReceiptsPrecedeUnits ==
    \A i \in Logged("unit") :
        \A c \in ledger[journal[i].ref].cites :
            \E j \in Logged("receipt") : j < i /\ journal[j].ref = c

\* A node whose every incoming edge is an approval's `approved' edge.
BehindApproval(p, n) ==
    /\ Into(p, n) # {}
    /\ \A e \in Into(p, n) :
          /\ p.kind[e.from] = "approval"
          /\ e.when = <<[op |-> "eq", fact |-> "approval", lit |-> "approved"]>>

\* The newest approval record before position i approves exactly this text.
ApprovedBefore(i, text) ==
    LET asked == {j \in Logged("approval") : j < i}
    IN  asked # {} /\ journal[Newest(asked)].what = "approved"
                   /\ journal[Newest(asked)].ref = text

\* Behind an approval, what is done is what was shown: a tool runs with the
\* very arguments, and a response carries the very draft, of the payload in
\* the newest approval record, which approves it (the question a person sees
\* ends `Approve this exact payload?').
ApprovedPayloadIsUsed ==
    /\ \A i \in DOMAIN issued :
          plan.kind[issued[i].at] = "tool.invoke" /\ BehindApproval(plan, issued[i].at) =>
              ApprovedBefore(issued[i].after + 1, issued[i].arg)
    /\ \A i \in LoggedAt("unit", "response") :
          BehindApproval(plan, journal[i].at) =>
              ApprovedBefore(i, ledger[journal[i].ref].text)

\* A released answer was paid for within the budget, on every resource.
AnswerWithinBudget ==
    Logged("released") # {} =>
        \A r \in Resources : \A c \in plan.cap[r] : spent[r] <= c

\* Budgets are checked between calls, so a run can overshoot a cap, but by
\* less than one call: a call only starts while the cap is not reached.
OvershootIsOneCall ==
    \A r \in Resources : \A c \in plan.cap[r] :
        spent[r] # 0 => \E cost \in Costs : spent[r] < c + cost[r]

\* Whatever the calls cost, what was spent stays near the caps, and within
\* them if it bought an answer.
SpendingIsBounded == AnswerWithinBudget /\ OvershootIsOneCall

Closes(i, j) ==
    /\ journal[j].type = "transition" /\ journal[j].at = journal[i].at
    /\ journal[j].what \in {"succeeded", "failed", "cancelled"}

Unclosed ==
    {i \in LoggedAt("transition", "running") :
        ~\E j \in DOMAIN journal : i < j /\ Closes(i, j)}

\* Nodes run one at a time and each run of a node is closed exactly while it
\* should be: the journal shows an open node only while one is executing or
\* waiting for a person, so a cancelled, timed out or failed run leaves none.
NodesAreBracketed ==
    /\ Cardinality(Unclosed) = IF pc \in {"running", "calling", "awaiting"} THEN 1 ELSE 0
    /\ \A i \in Unclosed : journal[i].at = node
    /\ \A i, j \in LoggedAt("transition", "running") :
          i < j => \E k \in i + 1 .. j - 1 : Closes(i, k)

\* Every tool call that left the process has its record in the journal,
\* except one abandoned by a cancellation or a deadline while it was in
\* flight (the effect of such a call cannot be undone, nor is it known).
ToolCallsAreRecorded ==
    LET sent == {i \in DOMAIN issued : plan.kind[issued[i].at] = "tool.invoke"}
        excused == pc = "calling" \/ forced \in {"cancelled", "budget-exhausted"}
    IN  /\ Cardinality(Logged("tool-call")) <= Cardinality(sent)
        /\ Cardinality(sent) <= Cardinality(Logged("tool-call")) + IF excused THEN 1 ELSE 0

\* Positions i < j of two calls of one node with, between them, a revision
\* whose `revise' edge leads back to that node.
SentBack(i, j) ==
    /\ i < j /\ journal[i].at = journal[j].at
    /\ \E k \in LoggedAt("failure", "judged") :
          /\ i < k /\ k < j
          /\ \E e \in Into(plan, journal[i].at) :
                e.from = journal[k].at /\ GuardPasses(e.when, [verdict |-> "revise"])

\* A node whose work a judge sent back is called again on a higher tier, as
\* long as the routing ladder has one.
RevisionEscalates ==
    \A i, j \in Logged("model-call") :
        SentBack(i, j) =>
            \/ journal[j].ref > journal[i].ref
            \/ journal[i].ref \in {0, plan.ladder} \/ plan.ladder = 0

\* As spec.rs and the shipped graphs say: quality failures escalate, never
\* bounce silently back to the producer of the rejected content.
NeverBouncesBack ==
    \A i, j \in Logged("model-call") :
        SentBack(i, j) => journal[j].ref # journal[i].ref

\* A revised digest is reviewed without calling the tool again.
ToolRunsOnce ==
    \A i, j \in DOMAIN issued :
        issued[i].at = issued[j].at /\ plan.kind[issued[i].at] = "tool.invoke" => i = j

\* Through cancellations, failures and revisions, a tool with effects is called
\* once and the journal tells of it.
ToolCallsAreAccountedFor == ToolCallsAreRecorded /\ ToolRunsOnce

(***************************************************************************)
(* Shapes of plans.                                                        *)
(***************************************************************************)
\* Some node has no incoming edge: then only such nodes start.
HasSource(p) == StrictEntries(p) # {}

\* A straight stretch S holds with each node whatever leads to it, over one edge
\* at most, and over none if the node may start: a run comes by each once at most.
Straight(p, S) ==
    /\ \A n \in NodesOf(p) : \A i \in DOMAIN p.succ[n] : p.succ[n][i].to \in S => n \in S
    /\ \A n \in NodesOf(p) : \A i \in DOMAIN p.succ[n] :
          p.succ[n][i].to \in S =>
              HasSource(p) \/ \E e \in Into(p, p.succ[n][i].to) : e.when = Unguarded
    /\ \A n, m \in S : \A i \in DOMAIN p.succ[n], j \in DOMAIN p.succ[m] :
          p.succ[n][i].to \in S /\ p.succ[n][i].to = p.succ[m][j].to => n = m /\ i = j

\* Every tool is on such a stretch.
OneWayToTools(p) ==
    \A t \in NodesOf(p) : p.kind[t] = "tool.invoke" =>
        \E S \in SUBSET NodesOf(p) : t \in S /\ Straight(p, S)

\* Nobody but a respond node writes in the role of a response.
NobodyElseAnswers(p) ==
    \A n \in NodesOf(p) : p.kind[n] = "model" => p.role[n] # "response"

\* One node starts, and at most one edge of a node can pass: two edges of a
\* node ask for different values of one fact.
Excludes(g, h) ==
    \E i \in DOMAIN g, j \in DOMAIN h :
        /\ g[i].op = "eq" /\ h[j].op = "eq"
        /\ g[i].fact = h[j].fact /\ g[i].lit # h[j].lit
SingleFile(p) ==
    /\ HasSource(p)
    /\ \A m, n \in StrictEntries(p) : m = n
    /\ \A n \in NodesOf(p) : \A i, j \in DOMAIN p.succ[n] :
          i # j => Excludes(p.succ[n][i].when, p.succ[n][j].when)

\* An approval that gates a tool comes right after a node that prepares
\* arguments, and one that gates an answer shows drafts only.
ShowsWhatItGates(p) ==
    \A n \in NodesOf(p) : BehindApproval(p, n) =>
        /\ p.kind[n] = "tool.invoke" =>
              \A e \in Into(p, n) :
                 /\ Into(p, e.from) # {}
                 /\ \A d \in Into(p, e.from) :
                       p.kind[d.from] = "model" /\ p.role[d.from] = "tool-args"
        /\ p.kind[n] = "respond" =>
              \A m \in NodesOf(p) : p.kind[m] = "model" => p.role[m] # "tool-args"

\* No path of edges leads from node a to node b.
CannotReach(a, b) ==
    \E S \in SUBSET NodesOf(plan) :
        /\ a \in S /\ b \notin S
        /\ \A e \in EdgesOf(plan) : e.from \in S => e.to \in S

\* A node fed by forward edges (edges that close no cycle) first runs once a
\* node that feeds it has succeeded: it is never an entry, `or it would run
\* before its inputs exist'.
RunsAfterInputs ==
    \A i \in LoggedAt("transition", "running") :
        LET feeders == {e.from : e \in {d \in Into(plan, journal[i].at) :
                                           CannotReach(d.to, d.from)}}
        IN  feeders # {} =>
              \E j \in LoggedAt("transition", "succeeded") :
                  j < i /\ journal[j].at \in {e.from : e \in Into(plan, journal[i].at)}

\* A graph with a deadline ends, however long providers, tools and the person
\* asked stay silent and however its guarded cycles are wired.
EndsByDeadline == plan.deadline ~> pc = "returned"
=============================================================================
