------------------------------ MODULE Sessions ------------------------------
(***************************************************************************)
(* One session as its journals tell it, and a human who rates it.  Turns   *)
(* are asked one after the other (src/main.rs run_graph); each of their    *)
(* attempts journals what crossed the boundary (exec.rs) and the one that  *)
(* succeeds is delivered, or not (journal.rs).  Meanwhile `graffy rate'    *)
(* projects the journals, freezes the proposal, takes the rater's          *)
(* decisions unit by unit and writes them to a journal of its own in the   *)
(* same directory (src/main.rs cmd_rate), which `graffy metrics' and later *)
(* readers then find among the others.                                     *)
(***************************************************************************)
EXTENDS Rating, Metrics

CONSTANTS
    MaxJournals,  \* bound: journals of runs and ratings, a rating under way included
    MaxAttempts,  \* the value of --retry, plus one
    SheetTurns    \* bound: a sheet speaks of so many turns at most

ASSUME BoundsAssumption ==
    MaxJournals \in Nat /\ SheetTurns \in Nat /\ MaxAttempts \in Nat \ {0}

VARIABLES
    journals,     \* the journals of the session, in the order of creation
    rater         \* where cmd_rate stands, and its locals

vars == <<journals, rater>>

Runs == Those(journals, {i \in DOMAIN journals : journals[i].kind # "rating"})
Id == Len(journals) + 1

-----------------------------------------------------------------------------
(* What an attempt journals, in the order of Executor::run. *)

Unit(role, human, content) ==
    [is |-> "unit", role |-> role, human |-> human, content |-> content]

\* source: the frame with the unit that was said, 0 for the event itself.
Said(actor, role, content, visibility, source) ==
    [is |-> "boundary", actor |-> actor, role |-> role, content |-> content,
     visibility |-> visibility, source |-> source]

Finished(status) == [is |-> "finished", status |-> status]

\* The human's words enter by the input node.
Intake(fs, role) ==
    fs \o <<Unit(role, TRUE, "words"), Said("human", role, "words", "visible", Len(fs) + 1)>>

\* The question is journaled once its fate is known.
Gate(fs, decision) ==
    LET seen == IF decision = "abandoned" THEN "unknown" ELSE "visible"
        record == IF decision = "approved" THEN "approved" ELSE "rejected"
    IN  fs \o <<Said("ai", "approval_question", "question", seen, 0),
                [is |-> "approval", decision |-> record]>>
           \o IF decision = "abandoned" THEN <<>>
              ELSE <<Said("human", "approval_decision", decision, "visible", 0)>>

\* A response unit, and its release when the run succeeds.
Answer(fs, role) ==
    fs \o <<Unit("response", FALSE, "answer"),
            Said("ai", role, "answer", "released", Len(fs) + 1)>>

\* The gates a graph may have, how the human decides, how the run ends.
Shapes ==
    [asks : {"never"}, decision : {"none"}, result : {"response", "failed", "error"}]
    \cup [asks : {"first", "later"}, decision : {"approved"}, result : {"verified_response"}]
    \cup [asks : {"first", "later"}, decision : {"rejected"}, result : {"stopped"}]
    \cup [asks : {"later"}, decision : {"approved"}, result : {"failed"}]
    \cup [asks : {"later"}, decision : {"abandoned"}, result : {"stopped"}]

Attempt(shape, role, feedback) ==
    LET carried == IF feedback THEN <<Unit("correction", FALSE, "critique")>> ELSE <<>>
        before == IF shape.asks = "first" THEN Gate(carried, shape.decision) ELSE carried
        heard == IF shape.asks = "first" /\ shape.result = "stopped" THEN before
                 ELSE Intake(before, role)
        decided == IF shape.asks = "later" THEN Gate(heard, shape.decision) ELSE heard
        repair == IF feedback THEN <<[is |-> "repair"]>> ELSE <<>>
    IN  CASE IsResponse(shape.result) ->
                Answer(decided, shape.result) \o repair \o <<Finished("succeeded")>>
          [] shape.result = "failed" ->
                decided \o <<[is |-> "failure"]>> \o repair \o <<Finished("failed")>>
          [] shape.result = "stopped" -> decided \o repair \o <<Finished("cancelled")>>
          [] shape.result = "error" -> carried \o <<Finished("failed")>>

Journal(group, kind, role, attempt, path, frames) ==
    [id |-> Id, group |-> group, kind |-> kind, role |-> role, attempt |-> attempt,
     at |-> Id, path |-> path, frames |-> frames]

-----------------------------------------------------------------------------
(* The session goes on. *)

Init ==
    /\ journals = <<>>
    /\ rater = [pc |-> "idle"]

LastRun == Last(Runs)

Room == Len(journals) + (IF rater.pc = "idle" THEN 0 ELSE 1) < MaxJournals

\* A new question, or a correction; its journal may be given a name of its
\* own, which sorts before the others (bounds: once, not the first, not a
\* correction, no gates; a correction that is never heard is left out).
Ask(role, shape, custom) ==
    /\ Room
    /\ role = "correction" =>
          Runs # <<>> /\ \E f \in ToSet(Attempt(shape, role, FALSE)) : IsHumanUnit(f)
    /\ custom => role = "prompt" /\ shape.asks = "never" /\ Runs # <<>>
    /\ custom => \A i \in DOMAIN journals : journals[i].path > 0
    /\ journals' = Append(journals,
          Journal(Id, IF Runs = <<>> THEN "initial" ELSE "followup", role, 1,
                  IF custom THEN -Id ELSE Id, Attempt(shape, role, FALSE)))
    /\ UNCHANGED rater

\* An attempt that failed and left a failure signal is followed by another.
Retry(shape) ==
    /\ Room /\ Runs # <<>>
    /\ LastRun.attempt < MaxAttempts
    /\ \E i \in DOMAIN LastRun.frames : LastRun.frames[i].is = "failure"
    /\ journals' = Append(journals,
          Journal(LastRun.group, "retry", LastRun.role, LastRun.attempt + 1, Id,
                  Attempt(shape, LastRun.role, TRUE)))
    /\ UNCHANGED rater

\* The answer is written out and confirmed.
Deliver ==
    /\ Runs # <<>>
    /\ \E i \in DOMAIN LastRun.frames :
          LET f == LastRun.frames[i]
          IN  /\ f.is = "boundary" /\ f.visibility = "released"
              /\ ~Contains(LastRun.frames, [f EXCEPT !.visibility = "delivered"])
              /\ journals' = [journals EXCEPT ![LastRun.id].frames =
                                 Append(@, [f EXCEPT !.visibility = "delivered"])]
    /\ UNCHANGED rater

\* A run from before there were boundary events and attempt groups.
Legacy(answered) ==
    /\ Room
    /\ \A i \in DOMAIN journals : journals[i].kind = "legacy"
    /\ journals' = Append(journals,
          Journal(Id, "legacy", "prompt", 1, Id,
             <<Unit("prompt", TRUE, "words")>> \o
             IF answered THEN <<Unit("response", FALSE, "answer"), Finished("succeeded")>>
             ELSE <<Finished("failed")>>))
    /\ UNCHANGED rater

-----------------------------------------------------------------------------
(* The rater. *)

\* load_session_runs and project.
Projection == Project(OrderRuns(Runs))

Proxies == {"H", "D", "M"}

\* Mutant of At: one window too many.
AtOneMore(p, k, episode) ==
    CASE ~episode /\ k <= Len(p.windows) + 1 -> [unit |-> "window", k |-> k]
      [] episode /\ k <= Len(p.episodes) -> [unit |-> "episode", k |-> k]
      [] OTHER -> [unit |-> "end", k |-> 0]

\* Where rating goes on: the units left, first windows, then episodes.
At(p, k, episode) ==
    CASE ~episode /\ k <= Len(p.windows) -> [unit |-> "window", k |-> k]
      [] episode /\ k <= Len(p.episodes) -> [unit |-> "episode", k |-> k]
      [] ~episode /\ k > Len(p.windows) /\ p.episodes # <<>> -> [unit |-> "episode", k |-> 1]
      [] OTHER -> [unit |-> "end", k |-> 0]

\* of: the snapshot that the rater reviewed: the one printed, or a sheet's own.
Begin(p, of) ==
    rater' = [pc |-> "unit", p |-> p, of |-> of, at |-> At(p, 1, FALSE),
              decided |-> FALSE, scored |-> FALSE]

\* What a sheet may say: pairs of neighbouring turns as exchanges, a window,
\* an episode (bounds: of the first turns, and no more of each); it may have
\* been written when the session had fewer runs.
Sheets(p) ==
    LET turns == 1 .. Min({SheetTurns, Len(p.turns)})
        pairs == {<<i, i + 1>> : i \in turns}
    IN  [of : {Snapshot(Project(OrderRuns(SubSeq(Runs, 1, n)))) : n \in DOMAIN Runs},
         exchanges : {<<>>} \cup {<<x>> : x \in pairs} \cup (pairs \X pairs),
         windows : {<<>>, <<<<1, WindowSize>>>>},
         episodes : {<<>>} \cup {<<e>> : e \in [turn : turns, closed : 0 .. 1]}]

StartRating ==
    /\ rater.pc = "idle" /\ Runs # <<>> /\ Room
    /\ LET p == Projection IN Begin(p, Snapshot(p))
    /\ UNCHANGED journals

\* With a sheet; one that does not hold is refused and nothing happens (a
\* bound: those that are taken have a window).
StartCorrected ==
    /\ rater.pc = "idle" /\ Runs # <<>> /\ Room
    /\ LET p == Projection
       IN  \E sheet \in Sheets(p) :
              /\ sheet.windows # <<>> /\ Accepts(p, sheet)
              /\ Begin(Corrected(p, sheet), sheet.of)
    /\ UNCHANGED journals

\* The input ends or the rater quits: nothing is written.
Abort ==
    /\ rater.pc # "idle"
    /\ rater' = [pc |-> "idle"]
    /\ UNCHANGED journals

Advance == At(rater.p, rater.at.k + 1, rater.at.unit = "episode")

Exclude ==
    /\ rater.pc = "unit" /\ rater.at.unit # "end"
    /\ rater' = [rater EXCEPT !.at = Advance, !.decided = TRUE]
    /\ UNCHANGED journals

\* A window is accepted and its proxies are scored, each with its citations
\* where the score needs some (see CitationsAreEvidence), or said to be
\* unratable.
AcceptWindow ==
    /\ rater.pc = "unit" /\ rater.at.unit = "window"
    /\ rater' = [rater EXCEPT !.at = Advance, !.decided = TRUE, !.scored = TRUE]
    /\ UNCHANGED journals

\* An episode is confirmed as proposed, or as open; an open one is recorded
\* as unratable, a closed one is scored or said to be unratable.
ConfirmEpisode ==
    /\ rater.pc = "unit" /\ rater.at.unit = "episode"
    /\ rater' = [rater EXCEPT !.at = Advance, !.decided = TRUE, !.scored = TRUE]
    /\ UNCHANGED journals

\* The rating's own journal; one sample stands for all.
Record ==
    /\ rater.pc = "unit" /\ rater.at.unit = "end"
    /\ journals' = IF ~rater.decided THEN journals
                   ELSE Append(journals, Journal(Id, "rating", "", 1, Id,
                           <<[is |-> "segmentation"]>>
                           \o (IF rater.scored THEN <<[is |-> "sample"]>> ELSE <<>>)
                           \o <<Finished("succeeded")>>))
    /\ rater' = [pc |-> "idle"]

-----------------------------------------------------------------------------
Continues ==
    \/ \E role \in HumanInput, shape \in Shapes, custom \in BOOLEAN : Ask(role, shape, custom)
    \/ \E shape \in Shapes : Retry(shape)
    \/ Deliver
    \/ \E answered \in BOOLEAN : Legacy(answered)

Rates ==
    \/ StartRating \/ StartCorrected \/ Abort \/ Exclude \/ AcceptWindow
    \/ ConfirmEpisode \/ Record

Next == Continues \/ Rates

Spec == Init /\ [][Next]_vars

-----------------------------------------------------------------------------
(* Properties. *)

RunOf(ref) == journals[ref[1]]

\* The frames of run j that take in the human's words.
Heard(j) == {i \in DOMAIN j.frames : IsHumanUnit(j.frames[i])}

\* Types: turns refer to frames that exist, exchanges, windows and episodes to
\* turns and exchanges that exist, and a rater stands at a unit that exists.
TypeOK ==
    LET p == Projection IN
    /\ \A t \in ToSet(p.turns) : \A ref \in ToSet(t.refs) :
          /\ ref[1] \in DOMAIN journals /\ ref[2] \in DOMAIN RunOf(ref).frames
          /\ RunOf(ref).group = t.group
    /\ p.exchanges \in Seq((DOMAIN p.turns) \X (DOMAIN p.turns))
    /\ p.windows \in Seq((DOMAIN p.exchanges) \X (DOMAIN p.exchanges))
    /\ \A e \in ToSet(p.episodes) :
          e.turn \in DOMAIN p.turns /\ e.closed \in {0} \cup DOMAIN p.exchanges
    /\ rater.pc \in {"idle", "unit"}
    /\ rater.pc # "idle" =>
          \/ rater.at.unit = "window" /\ rater.at.k \in DOMAIN rater.p.windows
          \/ rater.at.unit = "episode" /\ rater.at.k \in DOMAIN rater.p.episodes
          \/ rater.at.unit = "end"

\* However often a turn is retried, what the human said is one turn of the
\* transcript, which refers to each attempt that heard it; the same words
\* said again are another.  A receipt never makes a second answer.
OneTurnPerContribution ==
    LET p == Projection IN
    /\ \A g \in {r.group : r \in ToSet(Runs)} :
          LET heard == UNION {{<<j.id, i>> : i \in Heard(j)} :
                                 j \in {r \in ToSet(Runs) : r.group = g}}
              turns == {i \in DOMAIN p.turns : p.turns[i].group = g
                                               /\ p.turns[i].role \in HumanInput}
          IN  /\ heard # {} => Cardinality(turns) = 1
              /\ \A i \in turns : ToSet(p.turns[i].refs) = heard
    /\ \A i, k \in DOMAIN p.turns :
          p.turns[i].role \notin HumanInput /\ p.turns[i].refs = p.turns[k].refs => i = k

\* Of the answers, those are visible whose delivery is confirmed in the
\* journal of a run that succeeded, and no others.
VisibleMeansDelivered ==
    LET p == Projection IN
    \A t \in ToSet(p.turns) : IsResponse(t.role) =>
        (t.visible <=>
            /\ Succeeded(RunOf(t.refs[1]))
            /\ \E f \in ToSet(RunOf(t.refs[1]).frames) :
                  f.is = "boundary" /\ f.visibility = "delivered")

\* Whatever the journals are called, every answer that was seen completes an
\* exchange with what a human said in the same turn.
AnswersMeetTheirQuestion ==
    LET p == Projection IN
    \A i \in DOMAIN p.turns :
        IsResponse(p.turns[i].role) /\ p.turns[i].visible =>
            \E ex \in ToSet(p.exchanges) :
                ex[2] = i /\ p.turns[ex[1]].group = p.turns[i].group

\* An answer is in the transcript, and rated, for what was seen of it.
AnswersAreTrue == VisibleMeansDelivered /\ AnswersMeetTheirQuestion

\* As the session goes on its transcript only grows: turns keep their place,
\* words and party and never become invisible; exchanges and windows stay;
\* an episode that closed stays closed where it did.
Grows(p, q) ==
    /\ Len(p.turns) <= Len(q.turns)
    /\ \A i \in DOMAIN p.turns :
          LET t == p.turns[i]
              u == q.turns[i]
          IN  /\ [u EXCEPT !.refs = t.refs, !.visible = t.visible] = t
              /\ IsPrefix(t.refs, u.refs) /\ (t.visible => u.visible)
    /\ IsPrefix(p.exchanges, q.exchanges) /\ IsPrefix(p.windows, q.windows)
    /\ \A e \in ToSet(p.episodes) : e.closed # 0 => e \in ToSet(q.episodes)

\* The session one step earlier: without its last run, or its last receipt.
Earlier ==
    LET n == Len(Runs)
        Receipt(f) == f.is = "boundary" /\ f.visibility = "delivered"
    IN  IF n = 0 THEN {}
        ELSE {Front(Runs),
              [Runs EXCEPT ![n].frames = Those(@, {i \in DOMAIN @ : ~Receipt(@[i])})]}

TranscriptOnlyGrows ==
    rater.pc = "idle" =>
        LET q == Projection
        IN  \A runs \in Earlier : LET p == Project(OrderRuns(runs)) IN Grows(p, q)

\* What is rated, proposed or corrected: exchanges are neighbouring turns of
\* the two parties that both saw, share no turn and come in order; windows
\* are whole and share no exchange; an episode opens with something a human
\* said and closes in a later exchange.
Segmented(p) ==
    /\ \A x \in DOMAIN p.exchanges :
          LET ex == p.exchanges[x]
          IN  /\ ex[2] = ex[1] + 1 /\ p.turns[ex[1]].visible /\ p.turns[ex[2]].visible
              /\ p.turns[ex[1]].actor # p.turns[ex[2]].actor
              /\ \A y \in DOMAIN p.exchanges : x < y => ex[2] < p.exchanges[y][1]
    /\ \A v \in DOMAIN p.windows :
          /\ p.windows[v][2] - p.windows[v][1] = WindowSize - 1
          /\ \A w \in DOMAIN p.windows : v < w => p.windows[v][2] < p.windows[w][1]
    /\ p.trailing = Len(p.exchanges) - WindowSize * Len(p.windows)
    /\ \A e \in ToSet(p.episodes) :
          /\ p.turns[e.turn].actor = "human" /\ p.turns[e.turn].visible
          /\ e.closed # 0 => p.exchanges[e.closed][1] > e.turn

SegmentationIsSound ==
    LET p == Projection
    IN  /\ Segmented(p)
        /\ rater.pc = "idle" =>
              \A sheet \in Sheets(p) : Accepts(p, sheet) => Segmented(Corrected(p, sheet))
        /\ rater.pc # "idle" => Segmented(rater.p)

\* The proposal leaves nothing out: of two neighbouring turns that both were
\* seen, by the two parties, one is in an exchange; less than a window is left
\* over; and every correction that was seen opens an episode.
NothingRatableIsLost ==
    LET p == Projection IN
    /\ \A i \in 1 .. Len(p.turns) - 1 :
          /\ p.turns[i].visible /\ p.turns[i + 1].visible
          /\ p.turns[i].actor # p.turns[i + 1].actor
          => \E ex \in ToSet(p.exchanges) : i \in ToSet(ex) \/ i + 1 \in ToSet(ex)
    /\ p.trailing < WindowSize
    /\ {e.turn : e \in ToSet(p.episodes)} = {i \in DOMAIN p.turns : IsCorrection(p.turns[i])}

\* A rater who returns the proposal as it is finds it accepted unchanged.
OwnProposalIsAccepted ==
    LET p == Projection
        own == [of |-> Snapshot(p), exchanges |-> p.exchanges, windows |-> p.windows,
                episodes |-> p.episodes]
    IN  Accepts(p, own) /\ Corrected(p, own) = p

\* What is put before a rater is sound and complete, corrected or not.
SegmentationIsExact == SegmentationIsSound /\ NothingRatableIsLost /\ OwnProposalIsAccepted

\* A turn is in the window: it is in an exchange, and in none outside.
Within(p, turn, w) ==
    LET at == {x \in DOMAIN p.exchanges : turn \in ToSet(p.exchanges[x])}
    IN  at # {} /\ at \subseteq w[1] .. w[2]

\* The exchanges that begin after the one turn and no later than the other.
Between(p, from, to) ==
    {x \in DOMAIN p.exchanges : from < p.exchanges[x][1] /\ p.exchanges[x][1] <= to}

\* The rule that citation_refs documents, said of the exchanges themselves.
InScope(p, cited, w, proxy) ==
    IF proxy = "D"
    THEN Within(p, cited[2], w) /\ Cardinality(Between(p, cited[1], cited[2])) >= DriftSpan
    ELSE \A i \in DOMAIN cited : Within(p, cited[i], w)

\* Turn i, as the rater has it, is that turn of the snapshot that was reviewed,
\* and of the session as it is by now; and each of its references is one of
\* that turn's still and leads to a frame of its group.
StillStands(i) ==
    LET t == rater.p.turns[i]
        now == Projection.turns
    IN  /\ i \in DOMAIN rater.of.turns /\ rater.of.turns[i] = t
        /\ i \in DOMAIN now /\ [now[i] EXCEPT !.refs = t.refs] = t /\ now[i].visible
        /\ \A ref \in ToSet(t.refs) :
              /\ ref \in ToSet(now[i].refs)
              /\ ref[1] \in DOMAIN journals /\ ref[2] \in DOMAIN RunOf(ref).frames
              /\ RunOf(ref).group = t.group

\* Each reference of turn i leads to something a human said or decided.
OfTheHuman(i) ==
    \A ref \in ToSet(rater.p.turns[i].refs) :
        LET f == RunOf(ref).frames[ref[2]]
        IN  IsHumanUnit(f) \/ (f.is = "boundary" /\ f.actor = "human")

\* Whatever indices a rater types, what is accepted as evidence obeys the
\* rule (H and M inside the window, drift discovered inside it and so many
\* exchanges after it was introduced) whatever segmentation was accepted; and
\* although the session goes on while it is rated, each citation still means
\* the turn that the rater saw and leads to frames that the journals have,
\* which for blame (M) a human made.
CitationsAreEvidence ==
    rater.pc = "unit" /\ rater.at.unit = "window" =>
        LET p == rater.p
            w == p.windows[rater.at.k]
            turns == 1 .. Len(p.turns) + 1
        IN  \A cited \in {<<i>> : i \in turns} \cup (turns \X turns), proxy \in Proxies :
                MayCite(p, cited, w, proxy) =>
                    /\ InScope(p, cited, w, proxy)
                    /\ \A i \in DOMAIN cited :
                          StillStands(cited[i]) /\ (proxy = "M" => OfTheHuman(cited[i]))

\* The rating's books and the metrics agree, ratings or not: as many attempts
\* in a group as its question has references, a group passes if it has an
\* answer, and the same failures and repairs.
Rows ==
    LET sorted == Sorted(journals, LAMBDA a, b : a.path < b.path)
    IN  [i \in DOMAIN sorted |-> Row(sorted[i])]

FoldsAgree ==
    LET p == Projection IN
    LET rows == Rows
        groups == AttemptGroups(rows)
        all == Aggregate(rows)
    IN  /\ \A t \in ToSet(p.turns) :
              t.role \in HumanInput =>
                  t.group \in DOMAIN groups /\ groups[t.group].attempts >= Len(t.refs)
        /\ {g \in DOMAIN groups : groups[g].pass # 0} =
               {t.group : t \in {u \in ToSet(p.turns) : IsResponse(u.role)}}
        /\ all.runs = p.internal.runs /\ all.failures = p.internal.failures
        /\ all.repairs = p.internal.repairs
        /\ all.runs - all.groups = p.internal.retries
        /\ SessionMetrics(rows).failures = all.failures
=============================================================================
