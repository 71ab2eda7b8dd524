------------------------------- MODULE Turns -------------------------------
(***************************************************************************)
(* The command `graffy run' in plain mode, from several terminals over one *)
(* graffy home (src/main.rs run_graph, report_outcome, load_session_runs,  *)
(* harvest_feedback; journal.rs deliver_response).  A turn asks one        *)
(* question: it loads the session's history, runs the graph, retries with  *)
(* feedback while its budget lasts, prints the one released answer,        *)
(* confirms it with a receipt in the journal, and indexes each run.  The   *)
(* process may die between any two of these steps.                         *)
(*                                                                         *)
(* A run is what RunContract says of it.  It is identified by its position *)
(* in `files', in the order of creation, which is also the order of the    *)
(* names under the runs directory.  A session and a turn (attempt group)   *)
(* carry the number of their first run.                                    *)
(***************************************************************************)
EXTENDS RunLog, Enumeration, FiniteSetsExt

CONSTANTS
    Terminals,
    MaxFiles,     \* bound: journals that turns may create in all
    Attempts,     \* the values of --retry, plus one
    Elsewhere,    \* whether --journal may name a path outside runs_dir()
    Cap           \* the graph's token budget (a set, empty for none)

ASSUME MaxFilesAssumption == MaxFiles \in Nat
ASSUME AttemptsAssumption == Attempts \subseteq Nat \ {0}
ASSUME ElsewhereAssumption == Elsewhere \subseteq BOOLEAN
ASSUME CapAssumption == Cap \subseteq Nat /\ \A c, d \in Cap : c = d

VARIABLES
    files,        \* the journals, each with what is known of its run
    shown,        \* the runs whose answer was printed, in order
    pc, turn      \* per terminal: where run_graph stands, and its locals

vars == <<files, shown, pc, turn>>

Runs == DOMAIN files

(***************************************************************************)
(* Of a journal: session and group from its manifest, attempt, the run it  *)
(* retries and the one its feedback stems from (0: none), the prior answers*)
(* it was given as context, the runs its history was projected from and    *)
(* (kept for checking) those it should have been.  torn: a last frame was  *)
(* only written in part.  listed: the file lies in the runs directory.     *)
(* indexed: the store has a row with its path.                             *)
(***************************************************************************)
Idle == [session |-> 0, todo |-> {}, found |-> {}, context |-> {}, known |-> {},
         max |-> 0, attempt |-> 0, group |-> 0, prior |-> 0, feedback |-> 0,
         spent |-> 0, elsewhere |-> FALSE, run |-> 0, failed |-> FALSE]

Init ==
    /\ files = <<>> /\ shown = <<>>
    /\ pc = [t \in Terminals |-> "idle"]
    /\ turn = [t \in Terminals |-> Idle]

Goto(t, label) == pc' = [pc EXCEPT ![t] = label]
Set(t, locals) == turn' = [turn EXCEPT ![t] = locals]

\* The end of the command, with whatever exit code.
Quit(t) == Goto(t, "idle") /\ Set(t, Idle)

MyRun(t) == files[turn[t].run]
Frames(t) == MyRun(t).frames
Log(t, name) == files' = [files EXCEPT ![turn[t].run].frames = Append(@, name)]

-----------------------------------------------------------------------------
(* The question, and the history of the session it continues. *)

\* Runs that turns now under way may still create.
Promised == MapThenSumSet(LAMBDA t : turn[t].max - turn[t].attempt, Terminals)

OfSession(s) == {r \in Runs : files[r].session = s /\ files[r].frames # <<>>}

Ask(t, s, n, elsewhere) ==
    /\ pc[t] = "idle"
    /\ Len(files) + Promised + n <= MaxFiles
    /\ Set(t, [Idle EXCEPT !.session = s, !.max = n, !.elsewhere = elsewhere,
                           !.known = OfSession(s)])
    /\ Goto(t, IF s = 0 THEN "ready" ELSE "listing")
    /\ UNCHANGED <<files, shown>>

List(t) ==
    /\ pc[t] = "listing"
    /\ Set(t, [turn[t] EXCEPT !.todo = {r \in Runs : files[r].listed}])
    /\ Goto(t, "lookup")
    /\ UNCHANGED <<files, shown>>

LookUp(t) ==
    /\ pc[t] = "lookup"
    /\ Set(t, [turn[t] EXCEPT !.todo = @ \cup
                  {r \in Runs : files[r].indexed /\ files[r].session = turn[t].session}])
    /\ Goto(t, "reading")
    /\ UNCHANGED <<files, shown>>

\* read_all fails on a torn frame.  Without a manifest, whose journal it is is
\* unknown.
Readable(f) == IF f.torn THEN <<>> ELSE f.frames
Unreadable(f) == Readable(f) = <<>>

\* Mutant of Refused: journals that cannot be read are skipped.
SkipsUnreadable(t, f) ==
    f.session = turn[t].session /\ ~Unreadable(f) /\ ~Ended(f.frames)

Refused(t, f) ==
    \/ Unreadable(f)
    \/ f.session = turn[t].session /\ ~Ended(f.frames)

\* Mutant of Confirmed: a released answer counts as history.
Candidate(f) == Has(f.frames, "released")

Confirmed(f) == Delivered(f.frames)

Read(t) ==
    /\ pc[t] = "reading" /\ turn[t].todo # {}
    /\ LET r == Min(turn[t].todo)
           f == files[r]
           mine == f.session = turn[t].session /\ ~Unreadable(f)
       IN  IF Refused(t, f) THEN Quit(t)
           ELSE /\ Set(t, [turn[t] EXCEPT !.todo = @ \ {r},
                              !.found = IF mine THEN @ \cup {r} ELSE @,
                              !.context = IF mine /\ Confirmed(f) THEN @ \cup {r} ELSE @])
                /\ UNCHANGED pc
    /\ UNCHANGED <<files, shown>>

Resume(t) ==
    /\ pc[t] = "reading" /\ turn[t].todo = {}
    /\ IF turn[t].found = {} THEN Quit(t) ELSE Goto(t, "ready") /\ UNCHANGED turn
    /\ UNCHANGED <<files, shown>>

\* The store or a tool server is not there, or the turn's time is over.
GiveUp(t) ==
    /\ pc[t] \in {"lookup", "ready"}
    /\ Quit(t)
    /\ UNCHANGED <<files, shown>>

-----------------------------------------------------------------------------
(* Attempts. *)

\* Mutant of Left: every attempt is given the whole budget.
WholeCap(t) == Cap

\* What is left of the whole-turn budget.
Left(t) == {IF turn[t].spent < c THEN c - turn[t].spent ELSE 0 : c \in Cap}

\* Mutants of RetryOf: retries point at the first attempt of the turn; every
\* run points at itself.
RetryOfFirst(t) == turn[t].group

RetryOfItself(t) == Len(files) + 1

RetryOf(t) == turn[t].prior

\* The executor creates the journal, exclusively, and picks identities.
Start(t) ==
    /\ pc[t] = "ready" /\ 0 \notin Left(t)
    /\ Len(files) < MaxFiles      \* bound, never met: Ask counts ahead
    /\ LET new == Len(files) + 1
           own(id) == IF id = 0 THEN new ELSE id
           l == turn[t]
       IN  /\ files' = Append(files,
                 [session |-> own(l.session), group |-> own(l.group),
                  attempt |-> l.attempt + 1, retryOf |-> RetryOf(t),
                  feedback |-> l.feedback, context |-> l.context,
                  found |-> l.found, known |-> l.known,
                  frames |-> <<>>, torn |-> FALSE, spent |-> 0,
                  listed |-> ~l.elsewhere \/ l.attempt > 0, indexed |-> FALSE])
           /\ Set(t, [l EXCEPT !.session = own(@), !.group = own(@), !.attempt = @ + 1,
                               !.run = new, !.prior = new, !.feedback = 0])
    /\ Goto(t, "running")
    /\ UNCHANGED shown

BudgetIsGone(t) ==
    /\ pc[t] = "ready" /\ 0 \in Left(t)
    /\ Quit(t)
    /\ UNCHANGED <<files, shown>>

\* The run journals: its start, at most one failure signal (a bound: only the
\* last one is harvested), an answer.
Journals(t, name) ==
    /\ pc[t] = "running"
    /\ name = "failure" => ~Has(Frames(t), "failure")
    /\ Sound(Append(Frames(t), name))
    /\ Log(t, name)
    /\ UNCHANGED <<shown, pc, turn>>

Costs(t) ==
    {c \in 0 .. Max(Cap \cup {0}) + MaxCall : OvershootsByOneCall(Left(t), c)}

\* The run ends and hands over its outcome.
Ends(t, status) ==
    /\ pc[t] = "running"
    /\ Sound(Append(Frames(t), status)) /\ Frames(t) # <<>>
    /\ \E c \in IF Cap = {} THEN {0} ELSE Costs(t) :
          files' = [files EXCEPT ![turn[t].run].frames = Append(@, status),
                                 ![turn[t].run].spent = c]
    /\ Goto(t, "report")
    /\ UNCHANGED <<shown, turn>>

\* The run ends in an error: its journal may have an end or not.
Errs(t) ==
    /\ pc[t] = "running" /\ ~Has(Frames(t), "released") /\ Frames(t) # <<>>
    /\ Log(t, "failed") \/ UNCHANGED files
    /\ Quit(t)
    /\ UNCHANGED shown

-----------------------------------------------------------------------------
(* report_outcome: deliver, then index, then return how delivery went. *)

Succeeded(t) == Has(Frames(t), "succeeded")

\* Mutant of Show: the receipt is written before the answer.
ConfirmsFirst(t) ==
    /\ pc[t] = "report"
    /\ Succeeded(t) /\ Deliverable(Frames(t)) /\ ~Delivered(Frames(t))
    /\ Goto(t, "receipt")
    /\ UNCHANGED <<files, shown, turn>>

Show(t) ==
    /\ pc[t] = "report"
    /\ Succeeded(t) /\ Deliverable(Frames(t)) /\ ~Delivered(Frames(t))
    /\ shown' = Append(shown, turn[t].run)
    /\ Goto(t, "receipt")
    /\ UNCHANGED <<files, turn>>

NothingToShow(t) ==
    /\ pc[t] = "report" /\ ~Succeeded(t)
    /\ Goto(t, "index")
    /\ UNCHANGED <<files, shown, turn>>

\* Standard output is closed or full, before or after the answer was accepted.
OutputFails(t) ==
    /\ pc[t] = "report"
    /\ Set(t, [turn[t] EXCEPT !.failed = TRUE])
    /\ shown' \in IF Deliverable(Frames(t)) THEN {shown, Append(shown, turn[t].run)}
                  ELSE {shown}
    /\ Goto(t, "index")
    /\ UNCHANGED files

Receipt(t) ==
    /\ pc[t] = "receipt"
    /\ Log(t, "delivered")
    /\ Goto(t, "index")
    /\ UNCHANGED <<shown, turn>>

ReceiptFails(t) ==
    /\ pc[t] = "receipt"
    /\ \E torn \in BOOLEAN : files' = [files EXCEPT ![turn[t].run].torn = torn]
    /\ Set(t, [turn[t] EXCEPT !.failed = TRUE])
    /\ Goto(t, "index")
    /\ UNCHANGED shown

\* Indexing is best effort: a failure is a warning.
Index(t) ==
    /\ pc[t] = "index"
    /\ \/ ~MyRun(t).torn /\ files' = [files EXCEPT ![turn[t].run].indexed = TRUE]
       \/ UNCHANGED files
    /\ IF turn[t].failed THEN Quit(t) ELSE Goto(t, "decide") /\ UNCHANGED turn
    /\ UNCHANGED shown

\* Mutants of Retries: whatever left a failure signal is tried again; the
\* attempts are not counted.
RetriesAnyway(t) ==
    turn[t].attempt < turn[t].max /\ Has(Frames(t), "failure")
RetriesForever(t) ==
    Has(Frames(t), "failed") /\ Has(Frames(t), "failure")

\* A run that failed is tried again when it left a failure signal.
Retries(t) ==
    /\ Has(Frames(t), "failed")
    /\ turn[t].attempt < turn[t].max
    /\ Has(Frames(t), "failure")

Retry(t) ==
    /\ pc[t] = "decide" /\ Retries(t)
    /\ Set(t, [turn[t] EXCEPT !.feedback = turn[t].run,
                              !.spent = @ + MyRun(t).spent])
    /\ Goto(t, "ready")
    /\ UNCHANGED <<files, shown>>

Done(t) ==
    /\ pc[t] = "decide" /\ ~Retries(t)
    /\ Quit(t)
    /\ UNCHANGED <<files, shown>>

-----------------------------------------------------------------------------
(* The process dies, or an append to the journal fails, which ends the     *)
(* turn in the same way: the frame being written may be there in part.     *)

Dies(t) ==
    /\ pc[t] # "idle"
    /\ \/ UNCHANGED files
       \/ /\ pc[t] \in {"running", "receipt"}
          /\ files' = [files EXCEPT ![turn[t].run].torn = TRUE]
    /\ Quit(t)
    /\ UNCHANGED shown

Works(t) ==
    \/ List(t) \/ LookUp(t) \/ Read(t) \/ Resume(t)
    \/ Start(t) \/ BudgetIsGone(t)
    \/ (\E name \in Progress : Journals(t, name))
    \/ (\E status \in Statuses : Ends(t, status))
    \/ Show(t) \/ NothingToShow(t) \/ Receipt(t) \/ Index(t) \/ Retry(t) \/ Done(t)

Fails(t) ==
    GiveUp(t) \/ Errs(t) \/ OutputFails(t) \/ ReceiptFails(t) \/ Dies(t)

Asks(t) ==
    \E s \in {files[r].session : r \in Runs} \cup {0}, n \in Attempts, e \in Elsewhere :
        Ask(t, s, n, e)

Next == \E t \in Terminals : Asks(t) \/ Works(t) \/ Fails(t)

\* A process that is alive runs, and a run ends (see EndsByDeadline).
Fairness == \A t \in Terminals : WF_vars(Works(t))

Spec == Init /\ [][Next]_vars
FairSpec == Spec /\ Fairness

-----------------------------------------------------------------------------
(* Properties. *)

Locals ==
    [session : Nat, todo : SUBSET Runs, found : SUBSET Runs, context : SUBSET Runs,
     known : SUBSET Runs, max : Nat, attempt : Nat, group : Nat, prior : Nat,
     feedback : Nat, spent : Nat, elsewhere : BOOLEAN, run : Nat, failed : BOOLEAN]

\* Types: run numbers in journals, on screens and in a turn's locals exist.
TypeOK ==
    /\ \A r \in Runs :
          /\ files[r].frames \in Seq(FrameNames)
          /\ files[r].session \in 1 .. r /\ files[r].group \in 1 .. r
          /\ files[r].retryOf \in 0 .. r - 1 /\ files[r].feedback \in 0 .. r - 1
          /\ files[r].context \subseteq files[r].found
          /\ files[r].found \subseteq 1 .. r - 1
    /\ shown \in Seq(Runs)
    /\ pc \in [Terminals -> {"idle", "listing", "lookup", "reading", "ready", "running",
                             "report", "receipt", "index", "decide"}]
    /\ turn \in [Terminals -> Locals]
    /\ \A t \in Terminals :
          pc[t] \in {"running", "report", "receipt", "index", "decide"} =>
              turn[t].run \in Runs

\* A turn prints at most one answer, however many attempts it takes and
\* however often its process dies and another takes over the session.
OneAnswerPerTurn ==
    \A i, j \in DOMAIN shown : files[shown[i]].group = files[shown[j]].group => i = j

\* A receipt is the last frame of the journal of a run that succeeded and
\* whose answer was printed before.
ReceiptsAreTrue ==
    \A r \in Runs : \A i \in DOMAIN files[r].frames :
        files[r].frames[i] = "delivered" =>
            /\ i = Len(files[r].frames) /\ files[r].frames[i - 1] = "succeeded"
            /\ \E j \in DOMAIN shown : shown[j] = r

\* What a run is told of earlier turns was printed, on some terminal, as an
\* answer of the same session: candidates, answers whose delivery is not
\* confirmed and other sessions stay out.
ContextWasShown ==
    \A r \in Runs : \A c \in files[r].context :
        /\ files[c].session = files[r].session /\ files[c].group # files[r].group
        /\ \E j \in DOMAIN shown : shown[j] = c

\* README: `Unknown sessions and incomplete/corrupt history fail explicitly':
\* a run of a session only starts with a history that has every run the
\* session had when the question was asked.
HistoryIsComplete ==
    \A r \in Runs : files[r].known \subseteq files[r].found

\* What the attempts of a turn have spent together.
Price(g) == [r \in Runs |-> IF files[r].group = g THEN files[r].spent ELSE 0]
Spent(g) == Total(Price(g), Len(files))

\* The attempts of a turn together overshoot its budget by less than a call.
TurnWithinBudget == \A r \in Runs : OvershootsByOneCall(Cap, Spent(files[r].group))

\* A retry retries the attempt just before it, in the same turn and session,
\* which ended without an answer, and repairs a failure signal of that very
\* attempt.
RetriesAreLinked ==
    \A r \in Runs :
        files[r].attempt > 1 =>
            LET f == files[r]
            IN  /\ f.retryOf \in Runs /\ f.feedback = f.retryOf
                /\ LET p == files[f.retryOf]
                   IN  /\ p.group = f.group /\ p.session = f.session
                       /\ p.attempt = f.attempt - 1
                       /\ Has(p.frames, "failure") /\ Has(p.frames, "failed")

\* A turn that is about to exit with success has printed and confirmed its
\* answer.
SuccessIsConfirmed ==
    \A t \in Terminals :
        pc[t] = "decide" /\ Succeeded(t) => Delivered(Frames(t))

\* Receipts, prints and exit codes agree, whatever dies between them.
DeliveryIsTrue == ReceiptsAreTrue /\ SuccessIsConfirmed

\* Every turn comes to an end.
TurnsEnd == \A t \in Terminals : pc[t] # "idle" ~> pc[t] = "idle"
=============================================================================
