------------------------------ MODULE Frontend ------------------------------
(***************************************************************************)
(* The two frontends around a run: the live TUI (graffy-tui ui.rs and      *)
(* state.rs) and the plain terminal (main.rs, CliApprovalHandler).  The    *)
(* run executes on its own task.  It appends frames to the journal, each   *)
(* mirrored on the tap, and at some nodes it puts a question to the human  *)
(* and waits for the answer, for cancellation or for its deadline.  The    *)
(* TUI's loop drains the tap and the questions, draws, and reads one key;  *)
(* the plain terminal prints the question and leaves a thread blocked on a *)
(* line of input.                                                          *)
(*                                                                         *)
(* A plan lists the nodes the run goes through (a node may come twice) and *)
(* says which of them pause for a human.  A question is its number.        *)
(***************************************************************************)
EXTENDS Integers, SequencesExt

CONSTANTS
    Nodes,        \* the nodes of the graph, numbered from 1
    Plans,        \* the plans explored
    Batches,      \* the records one node can leave: sequences of <<type, own>>
    MaxKeys       \* bound: how often the human presses a key or Enter

ASSUME NodesAssumption == Nodes \subseteq Nat \ {0}
ASSUME PlansAssumption ==
    \A p \in Plans :
        /\ p.steps \in Seq([node : Nodes, asks : BOOLEAN])
        /\ p.front \in {"tui", "cli"}
        /\ p.deadline \in BOOLEAN
ASSUME BatchesAssumption == Batches \subseteq Seq({"call", "unit"} \X BOOLEAN)
ASSUME MaxKeysAssumption == MaxKeys \in Nat

VARIABLES
    plan,
    pc, at, outbox,         \* the run's task: where it is, what it still writes
    journal,
    asked,                  \* how many questions were put
    answers,                \* the reply channel of each question
    cancelled, expired,
    ui,                     \* where the TUI's loop stands ("off" in plain mode)
    requests, closed,       \* the channel of questions
    applied, view,          \* the frames drained from the tap, and their fold
    prompt,                 \* the question waiting for a key (0: none)
    screen,                 \* what was drawn or printed last
    readers,                \* questions whose input thread still waits for a line
    input, pressed,         \* what the terminal holds for the program
    acts                    \* which answer was read with which question on screen

run == <<pc, at, outbox, journal, asked>>
stop == <<cancelled, expired>>
loop == <<ui, requests, closed, applied, view, prompt>>
human == <<input, pressed, acts>>
vars == <<plan, run, answers, stop, loop, screen, readers, human>>

Frame(type, node, what, own) ==
    [type |-> type, at |-> node, what |-> what, own |-> own]
Transition(n, to) == Frame("transition", n, to, TRUE)

-----------------------------------------------------------------------------
(* The fold from frames to what the TUI renders (state.rs).                *)

Blank == [rows |-> [n \in Nodes |-> [state |-> "pending", visits |-> 0]],
          current |-> 0, status |-> "none", events |-> 0, calls |-> 0,
          units |-> 0, level |-> 0, line |-> "", entries |-> <<>>]

\* inspect: an entry is filed under a node (0: the run itself).
Filed(v, n) == [v EXCEPT !.entries = Append(@, <<v.events, n>>)]

Moved(v, f) ==
    [v EXCEPT !.rows[f.at].state = f.what,
              !.rows[f.at].visits = @ + (IF f.what = "running" THEN 1 ELSE 0),
              !.current = IF f.what = "running" THEN f.at ELSE @,
              !.line = IF f.what = "running" THEN "at a node" ELSE @]

Called(v, f) == Filed([v EXCEPT !.calls = @ + 1], f.at)

\* Mutant: a record that names no node is filed under the run.
AttributionToRun(v, f) == IF f.own THEN f.at ELSE 0

Attribution(v, f) == IF f.own THEN f.at ELSE v.current
Recorded(v, f) == Filed([v EXCEPT !.units = @ + 1], Attribution(v, f))

Consulted(v, f) ==
    Filed(IF f.what = "pending" THEN [v EXCEPT !.line = "waiting for a human"] ELSE v,
          f.at)

Concluded(v, f) ==
    [v EXCEPT !.status = f.what,
              !.line = CASE f.what = "succeeded" -> "done"
                         [] f.what = "failed" -> "could not verify"
                         [] f.what = "cancelled" -> "cancelled by a human"
                         [] OTHER -> "budget used up"]

ApplyFrame(w, f) ==
    LET v == [w EXCEPT !.events = @ + 1] IN
    CASE f.type = "transition" -> Moved(v, f)
      [] f.type = "call" -> Called(v, f)
      [] f.type = "unit" -> Recorded(v, f)
      [] f.type = "approval" -> Consulted(v, f)
      [] f.type = "finished" -> Concluded(v, f)
      [] f.type = "started" -> [v EXCEPT !.line = "starting"]
      [] OTHER -> v

-----------------------------------------------------------------------------
Init ==
    /\ plan \in Plans
    /\ pc = "next" /\ at = 1 /\ outbox = <<Frame("started", 0, "", TRUE)>>
    /\ journal = <<>> /\ asked = 0 /\ answers = <<>>
    /\ cancelled = FALSE /\ expired = FALSE
    /\ ui = IF plan.front = "tui" THEN "frames" ELSE "off"
    /\ requests = <<>> /\ closed = FALSE
    /\ applied = 0 /\ view = Blank
    /\ prompt = 0 /\ screen = [prompt |-> 0, finished |-> FALSE]
    /\ readers = {}
    /\ input = <<>> /\ pressed = 0 /\ acts = {}

TaskIsFinished == pc \in {"ended", "erred"} /\ outbox = <<>>

(***************************************************************************)
(* The run's task.                                                         *)
(***************************************************************************)
Here == plan.steps[at]

Write ==
    /\ outbox # <<>>
    /\ journal' = Append(journal, Head(outbox))
    /\ outbox' = Tail(outbox)
    /\ UNCHANGED <<plan, pc, at, asked, answers, stop, loop, screen, readers, human>>

Proceed(from, to, frames) ==
    /\ pc = from /\ outbox = <<>>
    /\ pc' = to /\ outbox' = frames
    /\ UNCHANGED <<plan, journal, stop, human>>

Visit ==
    /\ at <= Len(plan.steps)
    /\ Proceed("next", "running", <<Transition(Here.node, "running")>>)
    /\ UNCHANGED <<at, asked, answers, loop, screen, readers>>

Records(b) == [i \in DOMAIN b |-> Frame(b[i][1], Here.node, "", b[i][2])]

\* The node's own work returns; cancellation and the deadline are looked at first.
Work(b) ==
    /\ pc = "running" /\ ~cancelled /\ ~expired
    /\ IF Here.asks
       THEN /\ Proceed("running", "ask",
                       Records(b) \o <<Transition(Here.node, "awaiting"),
                                       Frame("approval", Here.node, "pending", TRUE)>>)
            /\ at' = at
       ELSE /\ Proceed("running", "next",
                       Records(b) \o <<Transition(Here.node, "succeeded")>>)
            /\ at' = at + 1
    /\ UNCHANGED <<asked, answers, loop, screen, readers>>

Stopped ==
    /\ cancelled \/ expired
    /\ Proceed("running", IF cancelled THEN "cancelled" ELSE "exhausted",
               <<Transition(Here.node, "cancelled")>>)
    /\ UNCHANGED <<at, asked, answers, loop, screen, readers>>

Errs ==
    /\ ~cancelled /\ ~expired
    /\ Proceed("running", "erred",
               <<Transition(Here.node, "failed"), Frame("finished", 0, "failed", TRUE)>>)
    /\ UNCHANGED <<at, asked, answers, loop, screen, readers>>

\* Mutant: the reply channel is not kept.
AskTuiUnheard ==
    /\ plan.front = "tui"
    /\ Proceed("ask", "wait", <<>>)
    /\ asked' = asked + 1 /\ answers' = answers
    /\ UNCHANGED <<at, loop, screen, readers>>

\* TuiApprovalHandler: a closed channel answers at once.
AskTui ==
    /\ plan.front = "tui"
    /\ Proceed("ask", "wait", <<>>)
    /\ asked' = asked + 1
    /\ answers' = Append(answers, IF closed THEN "abandoned" ELSE "open")
    /\ requests' = IF closed THEN requests ELSE Append(requests, asked')
    /\ UNCHANGED <<at, ui, closed, applied, view, prompt, screen, readers>>

\* CliApprovalHandler: print the question and leave a thread reading a line.
AskCli(printed) ==
    /\ plan.front = "cli"
    /\ Proceed("ask", "wait", <<>>)
    /\ asked' = asked + 1
    /\ answers' = Append(answers, IF printed THEN "open" ELSE "abandoned")
    /\ readers' = IF printed THEN readers \cup {asked'} ELSE readers
    /\ screen' = IF printed THEN [screen EXCEPT !.prompt = asked'] ELSE screen
    /\ UNCHANGED <<at, loop>>

(***************************************************************************)
(* controlled(..): cancellation wins over the deadline, and both over an   *)
(* answer that is there too.  An answer that is not a human's yes or no    *)
(* leaves no human contribution, and nothing but a yes lets the run go on. *)
(***************************************************************************)
\* Mutant: the answer is awaited without cancellation and deadline.
ResolutionUncontrolled == answers[asked]

Resolution ==
    IF cancelled \/ expired THEN "abandoned" ELSE answers[asked]

\* Mutant: whatever resolved the question counts as a human's decision.
AcknowledgedAlways(answer) == answer # "open"

Acknowledged(answer) == answer \in {"yes", "no"}

Settled(n, answer) ==
    <<Frame("approval", n, IF answer = "yes" THEN "approved" ELSE "rejected", TRUE)>>
    \o (IF Acknowledged(answer) THEN <<Frame("boundary", n, answer, TRUE)>> ELSE <<>>)
    \o <<Transition(n, IF answer = "yes" THEN "succeeded" ELSE "cancelled")>>

\* Mutant: only a rejection stops the run.
GrantedUnlessNo(answer) == answer # "no"

Granted(answer) == answer = "yes"

Resolve ==
    /\ pc = "wait" /\ Resolution # "open"
    /\ LET go == Granted(Resolution)
       IN  /\ Proceed("wait",
                      IF go THEN "next"
                      ELSE IF expired /\ ~cancelled THEN "exhausted" ELSE "cancelled",
                      Settled(Here.node, Resolution))
           /\ at' = IF go THEN at + 1 ELSE at
    /\ UNCHANGED <<asked, answers, loop, screen, readers>>

Finish ==
    /\ \/ /\ at > Len(plan.steps)
          /\ \E status \in {"succeeded", "failed"} :
                Proceed("next", "ended", <<Frame("finished", 0, status, TRUE)>>)
       \/ Proceed("cancelled", "ended", <<Frame("finished", 0, "cancelled", TRUE)>>)
       \/ Proceed("exhausted", "ended", <<Frame("finished", 0, "exhausted", TRUE)>>)
    /\ UNCHANGED <<at, asked, answers, loop, screen, readers>>

Expire ==
    /\ plan.deadline /\ ~expired /\ ~TaskIsFinished
    /\ expired' = TRUE
    /\ UNCHANGED <<plan, run, answers, cancelled, loop, screen, readers, human>>

(***************************************************************************)
(* The TUI's loop: drain the tap, drain the questions, draw, read one key. *)
(***************************************************************************)
Ui(from, to) ==
    /\ ui = from /\ ui' = to
    /\ UNCHANGED <<plan, run, expired, readers, pressed>>

\* try_recv yields a frame while one is there.
DrainFrame ==
    /\ Ui("frames", "frames")
    /\ applied < Len(journal)
    /\ view' = ApplyFrame(view, journal[applied + 1])
    /\ applied' = applied + 1
    /\ UNCHANGED <<answers, cancelled, requests, closed, prompt, screen, input, acts>>

TapIsEmpty ==
    /\ Ui("frames", "asks")
    /\ applied = Len(journal)
    /\ UNCHANGED <<answers, cancelled, requests, closed, applied, view, prompt, screen, input, acts>>

\* Dropping a question's reply channel abandons it, unless it was answered.
Drop(qs) ==
    answers' = [q \in DOMAIN answers |->
                   IF q \in qs /\ answers[q] = "open" THEN "abandoned" ELSE answers[q]]

Ended(v) == TaskIsFinished /\ v.status # "none"

\* A later question takes the place of the one on screen.
DrainQuestions ==
    /\ Ui("asks", "keys")
    /\ prompt' = IF requests = <<>> THEN prompt ELSE requests[Len(requests)]
    /\ Drop((ToSet(requests) \cup {prompt}) \ {prompt'})
    /\ requests' = <<>>
    /\ screen' = [prompt |-> prompt', finished |-> Ended(view)]
    /\ UNCHANGED <<cancelled, closed, applied, view, input, acts>>

Reply(answer) ==
    /\ answers' = [answers EXCEPT ![prompt] = IF @ = "open" THEN answer ELSE @]
    /\ prompt' = 0

Verdict(key) ==
    CASE key = "a" -> "yes" [] key = "r" -> "no" [] key = "q" -> "abandoned"
      [] OTHER -> "none"

HandleKey ==
    /\ input # <<>>
    /\ input' = Tail(input)
    /\ LET key == Head(input)
           verdict == Verdict(key)
       IN  /\ Ui("keys", IF key = "q" THEN "close" ELSE "frames")
           /\ IF prompt # 0 /\ verdict # "none"
              THEN /\ Reply(verdict)
                   /\ acts' = acts \cup {<<screen.prompt, verdict>>}
              ELSE UNCHANGED <<answers, prompt, acts>>
    /\ UNCHANGED <<cancelled, requests, closed, applied, view, screen>>

NoKey ==
    /\ Ui("keys", "frames")
    /\ UNCHANGED <<answers, cancelled, requests, closed, applied, view, prompt, screen, input, acts>>

\* Drawing or reading fails: the loop returns the error.
TerminalFails ==
    /\ Ui("keys", "close")
    /\ UNCHANGED <<answers, cancelled, requests, closed, applied, view, prompt, screen, input, acts>>

(***************************************************************************)
(* Leaving: close the channel (what is buffered in it stays), drop the     *)
(* question on screen, cancel a run that has not ended, wait for its task. *)
(***************************************************************************)
CloseChannel ==
    /\ Ui("close", "take")
    /\ closed' = TRUE
    /\ UNCHANGED <<answers, cancelled, requests, applied, view, prompt, screen, input, acts>>

TakePrompt ==
    /\ Ui("take", "cancel")
    /\ Drop({prompt})
    /\ prompt' = 0
    /\ UNCHANGED <<cancelled, requests, closed, applied, view, screen, input, acts>>

\* Mutant: dropping the questions is taken to be enough.
CancelsNever == FALSE

Cancels == ~TaskIsFinished

CancelRun ==
    /\ Ui("cancel", "join")
    /\ cancelled' = (cancelled \/ Cancels)
    /\ UNCHANGED <<answers, requests, closed, applied, view, prompt, screen, input, acts>>

Join ==
    /\ TaskIsFinished
    /\ Ui("join", "done")
    /\ UNCHANGED <<answers, cancelled, requests, closed, applied, view, prompt, screen, input, acts>>

(***************************************************************************)
(* The plain terminal: Ctrl-C, and the thread that reads a line.  A reply  *)
(* to a question that is no longer waited for is ignored.  The end of the  *)
(* input stays where it is.                                                *)
(***************************************************************************)
Interrupt ==
    /\ plan.front = "cli" /\ ~cancelled /\ ~TaskIsFinished
    /\ cancelled' = TRUE
    /\ UNCHANGED <<plan, run, answers, expired, loop, screen, readers, human>>

Decision(line) ==
    CASE line = "y" -> "yes" [] line = "eof" -> "abandoned" [] OTHER -> "no"

ReadLine(q) ==
    /\ q \in readers /\ input # <<>>
    /\ LET line == Head(input)
           answer == Decision(line)
       IN  /\ input' = IF line = "eof" THEN input ELSE Tail(input)
           /\ answers' = [answers EXCEPT ![q] = IF @ = "open" THEN answer ELSE @]
           /\ acts' = acts \cup {<<screen.prompt, answer>>}
    /\ readers' = readers \ {q}
    /\ UNCHANGED <<plan, run, stop, loop, screen, pressed>>

\* The human presses a key or enters a line, whatever is on the screen.
Keys == IF plan.front = "tui" THEN {"a", "r", "q"} ELSE {"y", "n", "eof"}

Press(key) ==
    /\ pressed < MaxKeys
    /\ ui # "done"
    /\ plan.front = "cli" => ~TaskIsFinished
    /\ pressed' = pressed + 1
    /\ input' = Append(input, key)
    /\ UNCHANGED <<plan, run, answers, stop, loop, screen, readers, acts>>

-----------------------------------------------------------------------------
Task ==
    \/ Write \/ Visit \/ (\E b \in Batches : Work(b)) \/ Stopped \/ Errs
    \/ AskTui \/ (\E printed \in BOOLEAN : AskCli(printed)) \/ Resolve \/ Finish

Screen ==
    \/ DrainFrame \/ TapIsEmpty \/ DrainQuestions \/ HandleKey \/ NoKey \/ TerminalFails
    \/ CloseChannel \/ TakePrompt \/ CancelRun \/ Join

Reader == \E q \in readers : ReadLine(q)

Next ==
    \/ Task \/ Expire
    \/ Screen
    \/ Interrupt \/ Reader
    \/ \E key \in Keys : Press(key)

Spec == Init /\ [][Next]_vars

(***************************************************************************)
(* The runtime schedules the task, the loop and the reader, and time       *)
(* passes.  Nothing is assumed of the human.                               *)
(***************************************************************************)
FairSpec == Spec /\ WF_vars(Task) /\ WF_vars(Screen) /\ WF_vars(Reader) /\ WF_vars(Expire)

-----------------------------------------------------------------------------
Statuses == {"none", "succeeded", "failed", "cancelled", "exhausted"}

\* The shape of the state: one prompt at most, a reply channel per question.
TypeOK ==
    /\ Len(answers) = asked /\ prompt \in 0..asked
    /\ readers \subseteq 1..asked /\ ToSet(requests) \subseteq 1..asked
    /\ applied \in 0..Len(journal) /\ view.status \in Statuses
    /\ pc \in {"next", "running", "ask", "wait", "cancelled", "exhausted", "ended", "erred"}
    /\ ui \in {"off", "frames", "asks", "keys", "close", "take", "cancel", "join", "done"}

QuestionAt(i) == Cardinality({j \in 1..i : journal[j].what = "pending"})
Goes(f) == f.what = "running" \/ (f.type = "finished" /\ f.what = "succeeded")

\* Once a question is put, the run visits another node or succeeds only when
\* a yes was read while that very question was the one on the screen: not on
\* quitting, a closed screen, the end of the input, a deadline, or an answer
\* meant for another question (ui.rs, TuiApprovalHandler; CliApprovalHandler).
SilenceReleasesNothing ==
    \A i \in DOMAIN journal :
        journal[i].what = "pending" /\ (\E j \in DOMAIN journal : j > i /\ Goes(journal[j]))
            => <<QuestionAt(i), "yes">> \in acts

\* What the journal keeps as a human's words was read from that human for the
\* question it follows: leaving is not recorded as a decision (ui.rs header).
HumanWordsAreHuman ==
    \A i \in DOMAIN journal :
        journal[i].type = "boundary" =>
            /\ journal[i].what \in {"yes", "no"}
            /\ <<QuestionAt(i), journal[i].what>> \in acts

Shown == SubSeq(journal, 1, applied)
MovesOf(n) == {i \in DOMAIN Shown : Shown[i].type = "transition" /\ Shown[i].at = n}

\* Whatever was drained in whatever portions, each row shows the node's last
\* transition and how often it ran (state.rs apply).
RowsShowTheJournal ==
    \A n \in Nodes :
        /\ view.rows[n].visits = Cardinality({i \in MovesOf(n) : Shown[i].what = "running"})
        /\ view.rows[n].state =
              IF MovesOf(n) = {} THEN "pending" ELSE Shown[CHOOSE i \in MovesOf(n) :
                  \A j \in MovesOf(n) : j <= i].what

\* The inspector files each record under the node that was running when it
\* was made, also when the record names no node (state.rs attribution).
EntriesAreUnderTheirNode ==
    \A k \in DOMAIN view.entries :
        LET i == view.entries[k][1]
            runs == {j \in 1..i : Shown[j].what = "running"}
        IN  runs # {} /\ view.entries[k][2] = Shown[CHOOSE j \in runs : \A h \in runs : h <= j].at

\* The screen that says the run has ended shows all of it: no frame is left
\* on the tap and no node is shown at work (ui.rs live_loop, finished).
EndedScreenIsComplete ==
    screen.finished =>
        /\ applied = Len(journal)
        /\ \A n \in Nodes : view.rows[n].state \notin {"running", "awaiting"}

\* What the screen shows at any moment is what the journal says up to it.
ScreenShowsTheJournal ==
    RowsShowTheJournal /\ EntriesAreUnderTheirNode /\ EndedScreenIsComplete

\* Quitting ends the program, with a question on screen, on its way to the
\* screen or not yet put (ui.rs run_live after the loop).
QuitEndsTheProgram == (ui = "close") ~> (ui = "done")

\* A deadline or Ctrl-C ends the run though nobody answers (control.rs).
StopsEndTheRun == (expired \/ cancelled) ~> TaskIsFinished
=============================================================================
