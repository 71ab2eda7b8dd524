# graffy in TLA+

A verification development kept beside the graffy sources: TLA+ modules that
model the program, TLC configurations that check them on small instances, and
TLAPS proofs of what holds for every instance.

## 1. The system

graffy is a Rust command line program (with a terminal UI) that never sends a
prompt to a model directly.  A prompt runs through a *graph*: nodes record the
request, prepare, draft, call tools, judge, ask a person, and respond.  Every
observable goes to an append-only *journal*, one per run, and everything else
(what a turn was, what was delivered, ratings, metrics) is projected from
journals.

| Component | Source | State | Operations | Talks to |
|---|---|---|---|---|
| Graph law | `crates/graffy-core/src/graph.rs`, `spec.rs` | a compiled graph (immutable) | compile, entry nodes, successors, guard evaluation | executor |
| Executor | `crates/graffy-core/src/exec.rs`, `control.rs` | queue and queued set, visit and escalation counters, ledger of information units, receipt levels, reviewed units, spending, answer candidate | `run`: pop a node, execute it, commit its output, follow edges, stop, close | model and tool planes (calls), approval handler (call-back), cancellation and deadline (latched signals), journal |
| Shipped and generated graphs | `graphs/*.toml`, `crates/graffy-mcp/src/lib.rs` | none | facade generation | executor |
| Journal and delivery | `crates/graffy-core/src/journal.rs` | one file of framed events per run | create, append, read back, deliver the released answer and append a receipt | executor, CLI, projection |
| CLI turn | `src/main.rs` (`run_graph`) | attempts of one turn, what is left of its budget, carried critiques | retry with feedback, report the outcome | executor, delivery, store |
| Boundary projection and rating | `crates/graffy-core/src/boundary.rs`, `src/rating.rs` | derived: exchanges, windows, episodes; ratings on them | project, validate and apply a rating | journals |
| Store | `crates/graffy-memory/src/lib.rs` | SQLite: graphs, runs, mirrored events, servers | register, record, mirror, look up sessions | CLI |
| Frontend interaction | `crates/graffy-tui/src/ui.rs`, `state.rs`, `src/main.rs` | pending approval, quit flag, folded view | ask, answer, quit, shut down | executor (channels), terminal |
| MCP registration and interview | `crates/graffy-mcp/src`, `src/main.rs` | registered servers and their roles | classify, interview, add, invoke | store, executor |
| Provider adapter | `crates/graffy-providers/src/lib.rs` | per-tier output limits | reserve tokens, complete | HTTP services |
| Metrics | `crates/graffy-core/src/metrics.rs` | folds of event streams | fold, group attempts, propose windows | journals |

What is hard in it: a run is interrupted at any await (Ctrl-C, a closed UI, a
deadline) while a model, a tool or a person is being waited for; graphs have
cycles whose exit is a judge's opinion; what was shown, reviewed and approved is
looked up again later, after other nodes may have run; a journal can end at any
event, and what it does not say cannot be known; a turn is several runs that
share one budget.

What makes each component correct, and which modules show it:

| Component | What must hold | Modelled by |
|---|---|---|
| Graph law | no unguarded cycle, an entry that waits for its inputs, guards that decide | `GraphLaw`, with the executor |
| Executor | a journal that is well formed at every step, one release and only on success, review and approval of the exact content, budgets, an end by the deadline | `Executor`, `RunContract`, `ExecutorContract`, `ExecutorProofs`, `AnswerProofs` |
| Shipped graphs | a tool runs once per run, behind its approval | `ShippedGraphs` |
| Journal and delivery | a receipt means the answer was printed, before, and that the run succeeded | `RunLog`, `Turns`, `TurnsProofs` |
| CLI turn | at most one answer, one budget, linked retries, complete and confirmed history | `Turns`, `TurnsProofs`, `TokenReserve` |
| Boundary projection, rating, metrics | what a person said is one turn however often it is retried; an answer is visible only if its delivery is confirmed; the transcript only grows; what is rated is whole and complete, and cites what was seen; two folds of the same journals agree | `Boundary`, `Rating`, `Metrics`, `Sessions`, `SessionsProofs` |
| Frontend interaction | an answer goes to the question it was given to; quitting refuses what is pending and ends the program; the screen shows the journal | `Frontend`, `FrontendProofs` |
| Store, MCP registration, interview | a tool without a gate was trusted by its declaration or by a person; a facade has its server; a built-in is the one this binary ships; runs, counts and mirrored events agree, wherever a command dies | `Interview`, `Registry`, `RegistryProofs` |
| Provider adapter | no call asks for more than all reports left of the turn's budget, a turn that overspent is over, and a turn overruns its budget only by what providers hide and by one call's excess | `TokenReserve`, `ReserveProofs` |

## 2. The plan

Order: the most important behaviour first.

1. *Done.* One run: `GraphLaw`, `Executor`, `ShippedGraphs`, `MCExecutor`,
   `ExecutorProofs`, `AnswerProofs`.
2. *Done.* What its callers rely on and build on it: `RunLog`, `RunContract`,
   `ExecutorContract` (the executor implements it), `Turns`, `MCTurns`, `TurnsProofs`.
3. *Done.* `Boundary`, `Rating`, `Metrics`, composed by `Sessions` with the
   journals of a session that goes on while it is rated; `SessionsProofs`.
4. *Done.* `Frontend`: both approval handlers, the TUI's loop and its fold, a
   reader blocked on an abandoned question, quitting and shutdown; `FrontendProofs`.
5. *Done.* `Interview` and `Registry`: the store's statements and the commands
   made of them, several processes, failures between any two statements.
6. *Done.* `TokenReserve`: the exact token budget from the environment to the
   retry loop.

Theorems: one run with all its safety properties and its refinement of `RunContract`,
turns and their delivery, sessions and their rating, the frontends' questions and their
screen, the registry and the reserve are done.  What is left to TLC, and why, is at the end of section 9.

## 3. One run: GraphLaw, Executor

`Executor` is one call of `Executor::run`.  Its variables are the locals of that
function: `queue`, `queued`, `visits`, `escalations`, `ledger`, `receipts`
(artifact_levels), `verified`, `pending`, `finalText`, `forced`, `spent`, and
`journal`.  `plan` stands for the inputs of the call (graph, policy, what is
carried in), `pc` for the place in the loop, `cancelled` and `late` for the two
latched signals.  `issued` is kept for checking: the calls that left the
process.  The initial state is the call itself; `Open` does all that happens
before the loop.

An iteration is one of `StopAtCap`, `StopAtVisitCap`, `UnknownKind`, `RunNode`;
then a node of a kind that makes no call is one step (`Intake`, `Research`,
`Respond`, `BelowFloor`, `NothingToWorkOn`) which ends in `Commit`, where the
function journals the node's records, receipt and unit and extends the ledger.  A
node that calls out takes two (`Call`, then `ModelReturns`, `JudgePasses`,
`JudgeRevises`, `ToolReturns` or `CallFails`), and so does an approval
(`AskApproval`, then `Approve`, `Decline` or `Silence`); between the two anything
may happen to the two signals.  `FollowEdge`, `PassOverEdge`, `BadGuard` walk the
edges of the finished node one by one; `Settle` is the budget check; `Close`
releases, repairs and ends the journal.

Abstractions: a unit's text is the number of the unit that first said it; a tier
is its position on the routing ladder; a guard is the sequence of its clauses;
model output is a draft, a pass or a revision, chosen freely.  Not represented:
duplicate node ids and edges to unknown nodes (refused when the graph compiles),
non-finite budgets (likewise), the `facts_in` of a queue entry (never read), and
failing writes to the journal (they leave `run` at once; `Turns` has them).

Plans of the runs (`MCExecutor`): the shipped graphs; the same under token and USD
budgets of 1 to 6 that are met, missed or met exactly; all 32 graphs made of an
intake, two drafts, a judge and a respond node with any of five further edges;
and graphs only a user would write: a second draft after the review, an answer
prepared while its review is pending, a graph without an intake, a guard that does
not parse, an unknown kind, a missing tool plane, a halting policy, an unguarded
cycle, a graph that is one cycle, a model node in the role of a response.

| Run | Bounds | Shows |
|---|---|---|
| `usual` | shipped graphs and the 32 wirings, visit cap 3 (the shipped default) | `AnswerIsTheRelease`: what is handed back is what was released; `VerifiedReleaseWasReviewed`: a reviewed response is a reviewed draft; `ReceiptsPrecedeUnits`: receipts before citations; `ApprovedPayloadIsUsed`; `ToolCallsAreAccountedFor`: calls are recorded and happen once; `RevisionEscalates`; `RunsAfterInputs` |
| `unusual` | the other plans, visit cap 2, calls of 1 or 3 tokens | `LoopIsSound`: types, and queue and set agree; `JournalEndsOnce`: one end, and a release only right before the end of a success; `SpendingIsBounded`: a success is within budget, an overshoot below one call; `NodesAreBracketed`; `ReviewedMeetsFloor`: the support floor; `EndsByDeadline`; `KeepsContract`: the executor implements `RunContract` |
| `bounce`, `branching`, `entry` | one graph each | three disagreements, below |

A visit cap of 2 lets a guarded cycle be taken, taken again and cut off; 3 reaches
the top of a ladder of three tiers from its middle and goes past it.  The runs need
no bound on the journal: the visit cap bounds it.  Five nodes are enough for what
the properties relate: two writers, a judge, an approval, a tool and a release.

`AnswerIsTheRelease`, `RunsAfterInputs`, `ApprovedPayloadIsUsed` and the part of
`ToolCallsAreAccountedFor` that says that a tool runs once are about graphs of the
shapes named in section 9, which the shipped ones have, and are not stated of every
graph: a model node whose `iu_role` is `response`, for one, makes the released candidate
differ from the text `run` returns.  Of a node behind an approval
`ApprovedPayloadIsUsed` speaks if it is a tool or responds.

Fairness (`FairSpec`): weak fairness of the executor's own steps, because its task
is polled until it ends, and of `Expire`, because time passes.  Nothing is assumed
of providers, tools or the person asked: `EndsByDeadline` holds although they may
stay silent for ever.

## 4. Turns of conversations: RunLog, RunContract, Turns

`RunLog` is a journal as its readers see it: `started`, `failure`, `released`, a
status, `delivered`.  `RunContract` is the abstract specification of a run: it only
appends, starts once, ends once and last, releases only right before the end of a
success, hands over an outcome only after the end and an error only without a
release, and overshoots a token cap by less than one call.  `ExecutorContract` says that
the executor implements it (`KeepsContract`): its mapping selects the events of the
journal that a reader looks at, by their ranks among those, and takes the dearest call
for `MaxCall`.  The run `unusual` checks it, `ContractIsKept` proves it.  `Turns` uses the contract's operators `Sound` and
`OvershootsByOneCall` as the guards of its runs, so that what it shows holds for
any graph whose executor keeps the contract.

`Turns` has terminals that share one graffy home.  `files` are the journals with
what the store knows of them, `turn[t]` the locals of `run_graph` in terminal `t`,
`shown` what was printed.  The steps follow the function: `Ask`; `List`, `LookUp`,
`Read`, `Resume` (load_session_runs: directory, index, one journal at a time, with
its refusals); `Start`, `BudgetIsGone`; `Journals`, `Ends`, `Errs` (the run, one
flushed frame at a time); `Show`, `Receipt` and their failures (deliver_response);
`Index` (best effort); `Retry`, `Done`.  `Dies` may happen anywhere and may leave a
torn frame; it also stands for a journal write that fails, after which `run_graph`
leaves in the same way.  Only tokens are budgeted; that time is over is part of
`GiveUp`.  A cancellation is any run that ends `cancelled`.  The order in which
journals are read does not matter and is that of their creation.

| Run | Bounds | Shows |
|---|---|---|
| `turns` | one terminal, one turn of three attempts, a cap of 3, calls up to 2 tokens | `OneAnswerPerTurn`; `TurnWithinBudget`: the attempts share the budget; `RetriesAreLinked`: a retry repairs the attempt before it; `TurnsEnd` |
| `followups` | two terminals, a first turn left in six states, two more journals | types; `DeliveryIsTrue`: a receipt means printed, and success means confirmed; `ContextWasShown`: context was printed in this session; `HistoryIsComplete` |
| `unindexed` | one terminal, three journals, `--journal` anywhere | a disagreement, below |

Three attempts are what it takes to tell the attempt before from the first; three
journals are what it takes to miss one of two in a history.  Fairness: a live
process takes its steps, and a run ends (the executor's `EndsByDeadline`).

What the model shows but no property states: a torn journal is refused by every
reader, so that all of it is lost to `replay` and one of them in the runs
directory refuses the continuation of every session; two terminals that ask at
once do not see each other's turn.

## 5. A session and its rating: Boundary, Rating, Metrics, Sessions

Three pure modules and one that moves.  `Boundary` is `project` of `boundary.rs`:
`OrderRuns`, the turns of a run (`EventTurn`, or `SpokenTurn` and `LegacyResponse` for
journals without boundary events), added frame by frame (`Tell`) by `Merge`, which lets a
receipt upgrade the answer it confirms and a retry add a reference to what the
person said, then `Exchanges`, `Windows`, `Episodes` and the counts kept apart in
`Internal`.  `Rating` is `rating.rs`: which sheet, the file with a corrected
segmentation, is accepted, and which turns may be cited.  `Metrics` is the other
fold of the same journals, in `metrics.rs`.  `Sessions` has the journals of one
session, written as the executor and the delivery write them (`Ask`, `Retry`,
`Deliver`, `Legacy`; an attempt is one step, because nobody projects a run that has
not ended), and `cmd_rate` beside it: `StartRating` and `StartCorrected` freeze a
projection, `Exclude`, `AcceptWindow` and `ConfirmEpisode` go through its units,
`Record` writes the rating to a journal that later readers find among the others,
`Abort` leaves nothing.  The rater's `of` is the snapshot that was reviewed, the one
printed or the one that the sheet was written for.  What may be cited is not a step: it
is asked in every state in which a window is rated, for every one or two indices and
every proxy (`CitationsAreEvidence`).  The property says the documented rule of the
exchanges themselves (`InScope`: the cited turn is in an exchange of the window and in
none outside it; so many exchanges begin between the two ends of drift), where
`citation_refs` counts first positions, and follows each citation into the snapshot, the
transcript and the journals as they are by then (`StillStands`, `OfTheHuman`).

Abstractions: a journal is the frames the folds look at; a hash is what it hashes;
a run's time is its number, so that `started_at` strictly increases (two terminals
that ask at once are in `Turns`); contents are a few words, and the same words may
be said twice.  A frame is referred to by its place.  A journal given a name of its own
sorts before the others, which only `Metrics` could notice.

| Run | Bounds | Shows |
|---|---|---|
| `sessions` | three journals, two attempts a turn, windows of 2, a drift of 1, sheets about three turns | types; `OneTurnPerContribution`; `AnswersAreTrue`; `SegmentationIsExact`: proposed or corrected, sound and complete; `CitationsAreEvidence`: for all indices a rater may type, under any sheet that is accepted and while the session goes on, a citation obeys the rule of its proxy and is what was reviewed; `FoldsAgree`: metrics against the projection; `TranscriptOnlyGrows` |

Windows of two exchanges and a drift of one stand for the code's five and three: both
are only counted with, and the smaller values let three runs fill a window, leave an
exchange over and cite across windows.  Three journals hold a question, its retry and
a correction, or two turns and a rating between them.

## 6. The frontends: Frontend

`Frontend` is a run's task, abstracted to the frames it writes and the questions
it puts, with both frontends around it.  The task's steps are those of `exec.rs`
around an approval (`Visit`, `Work`, `AskTui`/`AskCli`, `Resolve`, `Stopped`,
`Errs`, `Finish`), frames leaving one by one through `Write`.  `Resolution` is
`controlled` of `control.rs`: cancellation before the deadline before an answer
that is there too.  The TUI's loop is `DrainFrame` while the tap holds one,
`TapIsEmpty`, `DrainQuestions` (a later question
replaces the one on screen and drops its reply channel), `HandleKey` or `NoKey`,
and, on the way out, `CloseChannel`, `TakePrompt`, `CancelRun`, `Join`.  `view` is
the fold of `state.rs` (`ApplyFrame`).  The plain terminal is `AskCli`, a reader
per question that stays blocked when the question is over, and `Interrupt`.
`Press` is the person, who types what and when they like; `acts` is kept for
checking: what was read while which question was on screen.

| Run | Bounds | Shows |
|---|---|---|
| `frontend` | two frontends; two questions in a row, or a node visited again with a question and a deadline; two key presses | types; `SilenceReleasesNothing`: nothing but a yes read for the very question goes on; `HumanWordsAreHuman`: nothing but such a yes or no is recorded as a human's words; `ScreenShowsTheJournal`: drained in any portions; `QuitEndsTheProgram`; `StopsEndTheRun` |

Two questions are what it takes to answer the wrong one, two keys to answer and to
quit.  The executor runs one node at a time, so that there is one question at a
time.  Fairness: of the task, of the loop, of the reader threads, which the runtime
and the system schedule, and of time.  Nothing is assumed of the person.

What the model shows but no property states: a key or line typed before the question is
there is read as its answer, in both frontends.

## 7. The store and what is registered in it: Interview, Registry

`Interview` is `interview.rs` with the questions of `main.rs`: `Claimed`,
`run_usage_interview`, `ServerDefault`, and `seed_role` of `lib.rs`, which decides
per tool.  `Trusted` says independently what it takes.  `Registry` has the tables of the store and
processes whose commands are sequences of its statements, each of them atomic:
`SeedLook` and `SeedWrite` (open_store), `AddRow` and `AddFacade` (mcp add),
`Register` (graph import and graphify, after its review), `GetGraph`,
`RecordRun`, `CountRun` and `MirrorFrame` (index_run).  `Fail` may come before any of
them: a kill, a busy database, a full disk, a graph that does not compile.  Kept for checking:
`shipped`, `lost`, `sole`.  Graphs are names in `Shape`, which gives
their structure, so that `Lawful` is the compilation of `GraphLaw`.

| Run | Bounds | Shows |
|---|---|---|
| `registry` | two processes of different versions, three commands, three tools of which two share an id once sanitized, journals of two frames, every combination of flags and answers | `UngatedToolsWereTrusted`; `FacadesMatchTheirServer`: a facade has its server's row, and after an undisturbed add each id holds a facade of it; `ResolvedBuiltinIsShipped`; `IndexMatchesRuns` |

Two processes are what every race here takes, and three commands let one of them
come between two of the other.

## 8. The token budget: TokenReserve

`Turns` budgets a turn with a generic cap; `TokenReserve` has the arithmetic.
`FromEnv` reads bindings and limits; `StartRun` hands a run what is left; `Call`
sets the prompt's reserve aside and bounds the answer by the rest
(`OutputTokenLimit`), or refuses (`NoRoom`); `Returns` and `Loses` charge, and only
the first reports (`AddCall`) and is checked against the run's budget (`Exceeded`);
`EndRun` is the sum of `run_graph`.

Nothing is assumed of providers, which are external.  The reserve of a prompt is an
estimate, "not provider usage or a universal tokenizer bound" (`lib.rs`); usage is
recorded "when the provider returns" it, and the limit "is not a hard bound on total
input plus output" (the repository's README).  So a call is charged any amount and
reports any other, nothing included.  `billed`, `unreported` and `beyond` are auxiliary:
what was charged, what of it answers did not report, and by how much the last call
cost more than its reserve and its `max_tokens`.  What the code can promise is said with them: `billed`
exceeds the budget by at most `unreported + beyond`.  A provider that reports what it charges thus
overruns a turn by one call's excess at most, over all runs, and a lost call, whose
cost nobody reports, is within that too; one that also keeps to reserve and `max_tokens` never
does.

| Run | Bounds | Shows |
|---|---|---|
| `reserve` | two tiers, budgets around what a prompt reserves, two runs of two calls, charges and reports of 0 to 7, which is more than a call sets aside and as much as the largest budget; framing 1 for 64, default limit 2 for 4096 | `BudgetHolds`: `CallFits`, a call fits into what all reports left; `OverspentIsOver`, no call or retry after a reported overspending; `BilledWithinCap`, the bound above; every call asks for 1 up to its limit; while the turn can call its sums cover every reported charge |

## 9. What is proved

For all plans, visit caps and costs (assumed: `PlansAssumption`, what the parser of a
specification returns, `MaxVisitsAssumption`, `CostsAssumption`), with
`IndexTheorems` for sequences, ranks, sums and folds over positions (`Enumeration` has
the operators, written without recursion so that they can be proved about):

- `ExecutorProofs`, `LoopStaysSound`: `Spec => []LoopIsSound`, from `TypeCorrect` and
  `QueueIsExact`.  A queued node exists, a unit cites only receipts that exist, only
  existing units are verified, and queue and set agree.  `OvershootIsBounded` for
  `OvershootIsOneCall`; `JournalsEndOnce`, `SpendingStaysBounded`, `ReceiptsComeFirst`,
  `ReviewsHadSupport` for `JournalEndsOnce`, `SpendingIsBounded`,
  `ReceiptsPrecedeUnits`, `ReviewedMeetsFloor`.
  On the flow of a run: `RunsAreBracketed` for `NodesAreBracketed`, `ToolCallsHaveRecords` for
  `ToolCallsAreRecorded`, `ToolsAreAccountedFor` for `ToolCallsAreAccountedFor`.
- `AnswerProofs`: `AnswersAreReleased` for `AnswerIsTheRelease`, `VerifiedMeansReviewed`
  for `VerifiedReleaseWasReviewed`, `RevisionsClimb` for `RevisionEscalates`,
  `NodesRunAfterInputs` for `RunsAfterInputs`, `ApprovalsAreExact` for
  `ApprovedPayloadIsUsed`, and `ContractIsKept` for `KeepsContract`.

So every safety property of a run is proved.  `ContractIsKept` adds to the
assumptions that there is a dearest call (`DearestAssumption`; usage is reported in a
u64).  Four theorems are about plans of a certain shape.  `ShapesAssumption` in
`MCExecutor` evaluates the shapes on the graphs as shipped and generated, and without
its shape each property fails:

| Theorem | Shape | Without it |
|---|---|---|
| `ToolsAreAccountedFor` | `OneWayToTools`: to every tool leads a stretch of nodes with at most one edge to each of them | a tool in a revise loop is called again by every revision |
| `AnswersAreReleased` | `NobodyElseAnswers`: no model node writes in the role of a response | `SecondVoice` in `MCExecutor`: what is released is not what is returned |
| `NodesRunAfterInputs` | `HasSource`: some node has no incoming edge | the run `entry` |
| `ApprovalsAreExact` | `NobodyElseAnswers`; `SingleFile`: one entry, and the edges of a node exclude each other; `ShowsWhatItGates`: an approval before a tool comes right after a node that prepares arguments, one before an answer shows drafts only | the run `branching` |

`TypeOK` is not inductive: after a judge passed, the newest draft is added to
`verified`, so one has to know that there is a draft when the judge is called
(`JudgedDraft`: while a verify node is calling there is a draft in the ledger, with
receipts at or above the floor), and that nothing was verified before the ledger
exists (`NothingVerifiedYet`).  `TypeInv` is the conjunction, and `NextTypes` shows
that it is preserved, one step per action over the lemmas for what actions share:
`PopTypes`, `VisitTypes`, `CommitTypes`.  `QueueIsExact` needs only that popping and
following keep the pair.  `OvershootIsBounded` needs to know that spending is compared
with the caps before the node that calls, and by nothing else in between
(`CallsBelowCap`).

For the journal, the steps are first sorted by what they do to it (`NextWrites`): they leave it alone, they write frames before the end and go on, they write an end
and return.  `JournalInv` says that a journal whose run goes on has no end and no
release (`Unended`); the lemma `TailEnds` says that the frames `Close` writes end once,
with a release only before the end of a success.  For the budget, `CapsInv` adds
that spending is within the caps whenever the loop is at its top, and that a run which
closes early has a status other than success.  `CiteInv` relates ledger and journal:
every receipt the run holds is journaled, and a unit comes after the receipts it cites,
so that inheriting citations, in any number of steps, cannot break the order.
`VerifiedIsSupported` follows from `JudgedDraft` and the fact that only judges verify.

The flow of a run sorts the steps again, by the frames they append (`StepsAdd`): those a node
leaves that came back (`Shape`) or failed (`Failing`), those of a refusal, of an opening,
of a close.  `BracketInv` says that each run of a node is closed before the next starts
and that only the newest can be open, while its node executes; a sequence of frames can
only leave that alone, open a run, shut it, or both (`Brackets`).  `ToolInv` counts:
until the run is over, the tool calls sent are as many as their records, but for one in
flight, and then but for one if the run was interrupted; `ToolCallsAreRecorded` allows
no more than that.  That no tool runs twice is about a straight stretch of nodes and
cannot be shown for the tool alone: an edge to a node of the stretch has been passed
only if the node it leaves was visited once and is done with it (`LedOn`), so a
node is queued once (`ComesOnce`) and calls out once (`CallsOnce`); `OnceInv` says so
of all stretches.

`AnswerProofs` sorts the steps by the units they make (`StepsMake`).

- `AnswerInv`: every unit says something, and until the run returns the candidate's text
  is `finalText` (`Agreed`), so that there is a text if and only if there is a release.
- `UnitInv`: the units are in the journal in the order of the ledger, with their roles.
  With it, `VerdictInv` finds for every verified draft a review before which it was the
  newest draft; what is labelled verified has the text of such a draft.
- `EscInv`: a call was made on the tier its node had then, and if its work was sent back
  the node has moved up since, or the judge whose verdict it was is still walking its
  edges (`Underway`), in which case the node cannot be called.
- `FedInv`: what is queued has nothing that feeds it, or something that feeds it has
  succeeded, and so had it before every run of a node in the journal.
- `ApprovalInv`: in single file, nothing waits while a node executes, and at most one
  node waits (`FileInv`).  Hence, from the node that prepares a tool's arguments until
  the approval after it is done, what it shows are the latest arguments (`ShownInv`);
  the newest approval record approves what a gated node that is queued or at work
  will use (`GateInv`), and nobody can prepare others in between; `UsedInv` keeps this
  of what was used.
- `ReadersInv`: a journal has its start first and once, and says success only after a
  release.  `SeenIsSound` carries that over to what a reader sees, `SeenGrows` that a
  reader keeps what it has seen; both rest on facts about ranks in a set of positions
  (`Ranks`, `Enumerated`, `EnumerationGrows`).  Every step is then a `Step` of
  `RunContract` or leaves it alone (`NextKeepsContract`).

For every set of terminals and any number of journals, attempts and questions
(`MaxFilesAssumption`, `AttemptsAssumption`, `ElsewhereAssumption`, and `CapAssumption`:
there is at most one cap):

- `TurnsProofs`: `TurnsAreTyped` for the types, `DeliveryHolds` for `DeliveryIsTrue`,
  `OneAnswer` for `OneAnswerPerTurn`, `Budgets` for `TurnWithinBudget`, `Retrials` for
  `RetriesAreLinked`, `ContextIsDelivered` for `ContextWasShown`, and, where no journal lies outside the
  runs directory, `HistoryIsWhole` for `HistoryIsComplete`; the run `unindexed` shows
  that this condition is needed.

They share `Typed`, which ties a turn's locals to the journal of its run (`Fits`), and
two classifications of steps: by what they do to the locals (`StepsMove`) and by what
they write to the journal (`StepsWrite`).  Everything about delivery needs that two
turns are never at work on one attempt group (`Apart`), although turns of one session
overlap freely.  `DeliveryInv` adds that a journal is either what its run wrote
or that and a receipt, in which case the run succeeded and was printed (`Kept`), and
what the turn knows at each place (`Place`).  `AnswerInv` adds that all attempts of a
turn but the newest failed, and that the one at work was not printed.  With these,
`ContextInv` only follows the reading of the history: what is confirmed was printed.
`HistoryInv` follows what the session had from the listing to what was found.
`BudgetInv` follows the money: what a turn knows to have spent is what its attempts cost
together, but for the one at work, which was only begun while something was left
(`Owed`).

For sessions of any number of journals, attempts and sheets, any window and any drift
(`WindowSizeAssumption`, `DriftSpanAssumption`, `BoundsAssumption`):

- `SessionsProofs`: `Exactness` for `SegmentationIsExact`, `Evidence` for
  `CitationsAreEvidence`, `SessionTypes` for `TypeOK`, `OneTurn` for
  `OneTurnPerContribution`, `AnswersTrue` for `AnswersAreTrue`, `OnlyGrows` for
  `TranscriptOnlyGrows`, and `BooksAgree` for `FoldsAgree`.

`SessionHolds` is the invariant they rest on.  `JournalsOK`: a journal's number is its
place, its frames are labelled as an attempt or a legacy run can write them (`FramesOK`),
and a retry follows the attempt that failed (`LinkOK`).  `RaterOK`: what lies before a
rater is well formed and sound, although it was frozen when the session was younger.
That a projection proposes exactly the exchanges there are is about the scan of a
transcript (`Scan`), one turn at a time; that every correction which is accepted is sound
is about chains (`Chained`), whose links, compared two by two, have to order any two
elements; and that a rater who returns the proposal is taken at his word needs every part
of the proposal to be sound first (`ProposalAccepted`).

The transcript is followed on two levels.  Within a run, `Ledger` relates frame i, under
its label, to the turns told so far: the older turns are as they were but for references
and receipts (`Lines`), the human's words are one turn which a retry finds instead of
making another (`Says`), a release is one turn which its receipt finds (`Concludes`), and
what the scan has pending fits where the run stands (`Situation`).  `EveryRunAdds`
closes it, for attempts and for legacy runs: `Adds`.  Across the runs, `Standing` says of
the transcript of the first k that every turn refers, in order, to frames of its group
(`Refers`), no two turns begin with the same reference, a group has one input which
refers to all that was heard (`InputsSo`, `NothingUnheard`), answers are visible as they
were delivered and meet their question (`AnswersStand`), and a failed attempt leaves its
question waiting (`Waits`), which is what lets the answer of a retry find it.
`TranscriptOnlyGrows` compares with the session a step earlier: a run more only
`Prolongs` the transcript, a receipt makes its last turn visible and nothing else
(`ReceiptExtends`, for which the receipt has to be the last frame of the last run,
`ReceiptLast`), and both are cases of `Extends`, under which exchanges, windows and
closed episodes stay (`ExchangesGrow`, `WindowsGrow`, `EpisodesGrow`).

`CitationsAreEvidence` needs both levels and one invariant more.  That a turn found in an
exchange of the window is in no other, and that positions so far apart have so many
exchanges between them, follows from the order of whatever segmentation lies before the
rater (`InsideIsWithin`, `DriftLiesBetween`).  `RaterStays` says that the frozen turns are
still the first of the transcript (`Kept`): every step of a session either adds a run or
confirms the last one or leaves the runs alone (`Asked`, `Confirmed`), so the session
before is one of the two that `TranscriptOnlyGrows` compares with (`SessionKeeps`), and
keeping is transitive.  A turn that was kept refers, by `Refers`, to frames of its group,
and to something a human said or decided if it is the human's (`ByHuman`).

`FoldsAgree` compares a fold in the order of the names with one in the order of time.
Sorting places each journal once (`Placed`), what is then selected is the runs in another
order (`SelectedReordered`, `RowsTabulate`), and a sum does not depend on the order
(`TotalReordered`).  That a row's status is that of its last end, and tells whether the
run succeeded, is `StatusTells`; that there are as many groups as runs that are no
retries is `GroupsBegin`.  A question's references are of runs that follow one another
(`Ascending`), so no more than its group has (`RefsFit`), and the groups with an answer
are those of the runs that succeeded (`AnsweredIn`).

For every plan, every set of records a node may leave and any number of keys and lines
(`NodesAssumption`, `PlansAssumption`, `BatchesAssumption`):

- `FrontendProofs`: `HumanWords` for `HumanWordsAreHuman` and `Silence` for
  `SilenceReleasesNothing`, in both frontends; `Screens` for `ScreenShowsTheJournal`,
  however the drained frames interleave with those still written; `Types` for `TypeOK`.

`AnswersInv` says that a yes or no in a question's channel was read for that question,
that the question a key would answer is the one drawn, and that a thread still reading a
line reads it for the last question, which nobody answered; so in plain mode no line is
waited for while the run goes on.  `FlowInv` says that every question but the one waited
for was answered yes, and speaks of what the run has written and what it is about to
write together (`All`), so that `Write` leaves it alone.  `Extending` and `Putting` are
what a step adds: frames that put no question, or one question.

The screen rests on two more invariants.  `StoryInv` is about the run alone: every
record, over `All`, is made at the node entered last (`Under`), the frame of the end is
the last frame, and no node but the one the run is at is left at work (`AtRest`).
`ViewInv` says that the view tells exactly the first `applied` frames of `All`
(`Tells`: visits, last state, the node running last, every entry's node, an end only if
one was said), and that a screen that says the run has ended was drawn after the task
had ended and its last frame was applied.  `Applying` is the fold of `state.rs` part by
part, and `TellsMore` its step.  The last frame being the end is what makes the ended
screen complete; without `StoryInv` a record without a node could not be attributed.

For every set of processes, tools, requests and import ids, and any number of commands
(`ProcsAssumption`, `VersionAssumption`, `RequestsAssumption`, `FramesAssumption`):

- `RegistryProofs`: `GatesAreKept` for `UngatedToolsWereTrusted`, where the lemma
  `TrustIsEarned` is the interview against its reference; `FacadesKeepTheirServer` and
  `AddIsWhole`, together `FacadesAreOfTheirServer` for `FacadesMatchTheirServer`;
  `BuiltinsAreShipped` for `ResolvedBuiltinIsShipped`; `CountIsExact` and
  `MirrorIsAPrefix`, together `IndexIsFaithful` for `IndexMatchesRuns`; and
  `StoredGraphsCompile`.  All rest on `Typed`: what a process is given to do fits
  where it stands (`JobFits`).  `CountInv` adds that runs on their way have numbers of
  their own, `MirrorInv` that the events of a run are a prefix, `BuiltinInv` that who
  saw to the built-in and was not interfered with finds it, `WholeInv` that an add nobody
  disturbed has written the facades of all tools before the next.

For every budget, limit, reserve, size of prompt and number of runs and calls
(`SizesAssumption`, `DefaultAssumption`, `CapsAssumption`, `SettingsAssumption`,
`BoundsAssumption`), and for all charges and reports (`AmountsAssumption`: they are natural
numbers):

- `ReserveProofs`, `BudgetIsKept`: `Spec => []BudgetHolds`, from `TurnIsWithinCap`,
  `CallsFit`, `OverspentTurnsEnd`, `CallsAreUsable` and `AccountIsWhole`.  `ReserveInv` adds
  types and that the executor's sum starts afresh.  A charge is at most reserve, `max_tokens` and
  excess (`ChargeFits`); with `CallFits` and the account before the call that bounds
  what is charged after it, and a new excess takes the place of the old one, since calling goes on
  only while the reports are within the budget.

Every safety property of a passing run is proved.  Only model-checked are those of liveness
(`EndsByDeadline`, `TurnsEnd`, `QuitEndsTheProgram`, `StopsEndTheRun`).  Liveness and what
needs ENABLED are out of the provers' reach and stay with TLC.

## 10. Disagreements found

Shown by a run:

- `bounce`: escalation clamps at the top of the ladder, so with the visit cap of 3
  a third draft goes to the tier whose draft was just rejected; `spec.rs` and
  `exec.rs` say that failures never bounce back to the producer.
- `branching`: a tool takes the newest arguments when it runs, not those the
  approval showed; with a second branch they differ, although the person was asked
  to approve "this exact payload".  Shipped and generated graphs have no such branch
  (`ApprovedPayloadIsUsed` holds in `usual`).
- `entry`: without a source node, every node all of whose incoming edges are
  guarded starts at once, forward edges included, which the comment on
  `entry_nodes` rules out.
- `unindexed`: a journal outside the runs directory is found through the index
  only, and the index is written last and may fail with a warning; the next turn of
  that session silently misses it, although the README says that incomplete history
  fails explicitly.

Met while modelling, and modelled as the code has them:

- The interview looks for its words inside longer ones: "I don't know" contains "no"
  and makes the server read-only, where `interview.rs` calls what it does not
  recognise ambiguous.  Overriding the warning never ungates a tool that declares
  itself destructive, though the question offers to trust it anyway.
- The end of the input refuses a question, but a piped `y` approves it, though a comment
  in `main.rs` says that piped runs can never rubber-stamp.
- The TUI shows every cancelled run as cancelled by a human decision.
- `metrics` orders attempts by file name; journals with names of their own make its
  number of attempts to a pass wrong.
- The citations of a correction end at the AI's turn of the closing exchange; if the AI
  began that exchange, the human's turn in it is not cited.
- Two terminals that take turns in one session shift the pairing of its exchanges.
- Two tools whose names sanitize to the same id share one facade, that of the
  later; facades stay when a server is added again without them or an add dies; two
  binaries of different versions take turns replacing the built-in, and an import
  under its id is replaced when the store is next opened.
- A test calls `record_run` idempotent; recording a run again counts it again in its
  session.  The program records a run once.

## 11. What is not modelled

Drawing and layout, TOML and protobuf encoding, the HTTP and MCP transports (external),
Markdown extraction in graphify, queries that only list or count, the migration of
old database columns, the edits a review makes to names and tiers, the keys of the
replay viewer, `propose_windows` and `propose_episodes` of `metrics.rs`, which
nothing calls, generated protocol types, and the crates that hold no behaviour yet.  Of
a turn's budget only tokens are followed across attempts.
