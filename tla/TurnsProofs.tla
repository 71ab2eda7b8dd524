---------------------------- MODULE TurnsProofs ----------------------------
(***************************************************************************)
(* Turns of conversations, proved for any number of terminals, journals,   *)
(* attempts and questions.                                                 *)
(***************************************************************************)
EXTENDS Turns, IndexTheorems

Step(t) == Asks(t) \/ Works(t) \/ Fails(t)

Asking == {"listing", "lookup", "reading"}
Busy == {"running", "report", "receipt", "index", "decide"}
Labels == {"idle", "ready"} \cup Asking \cup Busy

FileType ==
    [session : Nat, group : Nat, attempt : Nat, retryOf : Nat, feedback : Nat,
     context : SUBSET Nat, found : SUBSET Nat, known : SUBSET Nat,
     frames : Seq(FrameNames), torn : BOOLEAN, spent : Nat, listed : BOOLEAN,
     indexed : BOOLEAN]

\* What is known of a run for good.
Same(f, g) ==
    /\ f.session = g.session /\ f.group = g.group /\ f.attempt = g.attempt
    /\ f.retryOf = g.retryOf /\ f.feedback = g.feedback /\ f.listed = g.listed
    /\ f.context = g.context /\ f.found = g.found /\ f.known = g.known

(***************************************************************************)
(* Inductive strengthening of the types: how a turn's locals and the       *)
(* journal of its run belong together.  A turn that has no run yet has no  *)
(* identity; one that has is at work on its run, or about to retry it.     *)
(***************************************************************************)
Fits(t) ==
    LET l == turn[t] IN
    /\ l.run = 0 =>
          /\ pc[t] \notin Busy
          /\ l.group = 0 /\ l.attempt = 0 /\ l.prior = 0 /\ l.feedback = 0
    /\ l.run # 0 =>
          /\ pc[t] \in Busy \cup {"ready"}
          /\ l.run \in Runs
          /\ l.session = files[l.run].session /\ l.group = files[l.run].group
          /\ l.attempt = files[l.run].attempt /\ l.attempt > 0
          /\ l.prior = l.run
          /\ l.feedback = IF pc[t] = "ready" THEN l.run ELSE 0
    /\ l.context \subseteq l.found
    /\ l.session <= Len(files)
    /\ pc[t] \in Asking => l.session # 0

RunFits(r) ==
    /\ files[r].session \in 1 .. r /\ files[r].group \in 1 .. r
    /\ files[r].retryOf \in 0 .. r - 1 /\ files[r].feedback \in 0 .. r - 1
    /\ files[r].context \subseteq files[r].found
    /\ files[r].found \subseteq 1 .. r - 1

Typed ==
    /\ files \in Seq(FileType)
    /\ shown \in Seq(Nat) /\ \A j \in DOMAIN shown : shown[j] \in Runs
    /\ pc \in [Terminals -> Labels]
    /\ turn \in [Terminals -> Locals]
    /\ \A r \in Runs : RunFits(r)
    /\ \A t \in Terminals : Fits(t)

LEMMA TypedIsTypeOK == Typed => TypeOK
<1> SUFFICES ASSUME Typed PROVE TypeOK
  OBVIOUS
<1>1. \A r \in Runs : files[r] \in FileType
  BY DEF Typed, Runs
<1>2. \A r \in Runs : files[r].frames \in Seq(FrameNames)
  BY <1>1 DEF FileType
<1>3. shown \in Seq(Runs)
  BY SeqOfRange, IsASeq DEF Typed
<1>4. \A t \in Terminals : pc[t] \in Busy => turn[t].run \in Runs
  BY DEF Typed, Fits
<1> QED BY <1>2, <1>3, <1>4 DEF Typed, TypeOK, RunFits, Labels, Asking, Busy

-----------------------------------------------------------------------------
(* What a step does to the journals. *)

\* The journal of run r gets another record of what is known.
Amends(r, f) ==
    /\ files' = [files EXCEPT ![r] = f]
    /\ Same(f, files[r])
    /\ \/ f.frames = files[r].frames
       \/ \E name \in FrameNames : f.frames = Append(files[r].frames, name)

\* All that a step leaves as it is.
FilesKeep ==
    /\ files' \in Seq(FileType) /\ Len(files) <= Len(files')
    /\ \A r \in Runs :
          /\ r \in Runs' /\ Same(files'[r], files[r])
          /\ Len(files[r].frames) <= Len(files'[r].frames)
          /\ \A i \in DOMAIN files[r].frames :
                i \in DOMAIN files'[r].frames /\ files'[r].frames[i] = files[r].frames[i]

\* The order of things on the screens stays.
OthersStay(t) ==
    /\ pc' \in [Terminals -> Labels] /\ turn' \in [Terminals -> Locals']
    /\ \A u \in Terminals \ {t} : pc'[u] = pc[u] /\ turn'[u] = turn[u]

LEMMA FileTypes ==
    ASSUME Typed
    PROVE  /\ \A r \in Runs : r \in Nat /\ r > 0 /\ r <= Len(files) /\ files[r] \in FileType
                              /\ files[r].frames \in Seq(FrameNames)
           /\ Runs = 1 .. Len(files) /\ Len(files) \in Nat
           /\ \A t \in Terminals : turn[t] \in Locals
<1>1. Runs = 1 .. Len(files) /\ Len(files) \in Nat
  BY DEF Typed, Runs
<1>2. \A r \in Runs : files[r] \in FileType
  BY DEF Typed, Runs
<1>3. \A r \in Runs : files[r].frames \in Seq(FrameNames)
  BY <1>2 DEF FileType
<1>4. \A t \in Terminals : turn[t] \in Locals
  BY DEF Typed
<1> QED BY <1>1, <1>2, <1>3, <1>4

LEMMA BusyRun ==
    ASSUME Typed, NEW t \in Terminals, pc[t] \in Busy
    PROVE  /\ turn[t].run \in Runs /\ turn[t].run # 0
           /\ MyRun(t) = files[turn[t].run] /\ Frames(t) = files[turn[t].run].frames
           /\ MyRun(t) \in FileType /\ Frames(t) \in Seq(FrameNames)
<1>1. turn[t].run \in Runs /\ turn[t].run # 0
  BY DEF Typed, Fits
<1> QED BY <1>1, FileTypes DEF MyRun, Frames

LEMMA AmendKeeps ==
    ASSUME Typed, NEW r \in Runs, NEW f \in FileType, Amends(r, f)
    PROVE  /\ FilesKeep
           /\ Runs' = Runs /\ files'[r] = f
           /\ \A s \in Runs \ {r} : files'[s] = files[s]
<1>1. /\ files' \in Seq(FileType) /\ Len(files') = Len(files) /\ Runs' = Runs
      /\ files'[r] = f /\ \A s \in Runs \ {r} : files'[s] = files[s]
  BY ExceptSeq DEF Typed, Amends, Runs
<1>2. \A s \in Runs : files[s] \in FileType /\ files[s].frames \in Seq(FrameNames)
  BY FileTypes
<1>3. ASSUME NEW s \in Runs
      PROVE  /\ Same(files'[s], files[s])
             /\ Len(files[s].frames) <= Len(files'[s].frames)
             /\ \A i \in DOMAIN files[s].frames :
                   i \in DOMAIN files'[s].frames /\ files'[s].frames[i] = files[s].frames[i]
  <2>1. CASE s # r
    BY <2>1, <1>1, <1>2 DEF Same
  <2>2. CASE s = r /\ f.frames = files[r].frames
    BY <2>2, <1>1, <1>2 DEF Amends
  <2>3. CASE s = r /\ \E name \in FrameNames : f.frames = Append(files[r].frames, name)
    <3>1. PICK name \in FrameNames : files'[s].frames = Append(files[s].frames, name)
      BY <2>3, <1>1
    <3>2. /\ Len(files'[s].frames) = Len(files[s].frames) + 1
          /\ \A i \in 1 .. Len(files[s].frames) : files'[s].frames[i] = files[s].frames[i]
          /\ files'[s].frames \in Seq(FrameNames)
      BY <3>1, <1>2, AppendProperties
    <3>3. Same(files'[s], files[s])
      BY <2>3, <1>1 DEF Amends
    <3>4. Len(files[s].frames) \in Nat /\ DOMAIN files[s].frames = 1 .. Len(files[s].frames)
      BY <1>2
    <3>5. DOMAIN files'[s].frames = 1 .. Len(files'[s].frames)
      BY <3>2
    <3> HIDE DEF Same
    <3> QED BY <3>2, <3>3, <3>4, <3>5
  <2> QED BY <2>1, <2>2, <2>3 DEF Amends
<1> QED BY <1>1, <1>3 DEF FilesKeep, Typed

\* The number of tokens a run may be said to have cost is a number.
LEMMA CostsAreNumbers ==
    ASSUME NEW t \in Terminals
    PROVE  (IF Cap = {} THEN {0} ELSE Costs(t)) \subseteq Nat
<1> DEFINE S == Cap \cup {0}
<1>1. S \subseteq Nat
  BY CapAssumption
<1>2. \E x \in S : \A y \in S : x >= y
  <2>1. CASE Cap = {}
    BY <2>1
  <2>2. ASSUME NEW c \in Cap PROVE \A y \in S : c >= y
    BY <1>1, CapAssumption
  <2> QED BY <2>1, <2>2
<1>7. Max(S) \in S
  BY <1>2 DEF Max
<1>8. Max(S) + MaxCall \in Nat
  BY <1>7, <1>1, MaxCallAssumption
<1> QED BY <1>8 DEF Costs

\* A frame is appended to the journal of the run.
LEMMA Logs ==
    ASSUME Typed, NEW t \in Terminals, pc[t] \in Busy, NEW name \in FrameNames, Log(t, name)
    PROVE  \E f \in FileType :
               Amends(turn[t].run, f) /\ f.frames = Append(files[turn[t].run].frames, name)
<1> DEFINE r == turn[t].run
           f == [files[r] EXCEPT !.frames = Append(@, name)]
<1>1. r \in Runs /\ files[r] \in FileType /\ files[r].frames \in Seq(FrameNames)
  BY BusyRun, FileTypes
<1>2. Append(files[r].frames, name) \in Seq(FrameNames)
  BY <1>1, AppendProperties
<1>3. f \in FileType /\ Same(f, files[r]) /\ f.frames = Append(files[r].frames, name)
  BY <1>1, <1>2 DEF FileType, Same
<1>4. files' = [files EXCEPT ![r] = f]
  BY DEF Log
<1> QED BY <1>3, <1>4 DEF Amends

StepAmends(t) ==
    \/ UNCHANGED files
    \/ Start(t)
    \/ pc[t] \in Busy /\ \E f \in FileType : Amends(turn[t].run, f)

LEMMA StepsAmend ==
    ASSUME Typed, NEW t \in Terminals, Step(t)
    PROVE  StepAmends(t)
<1>1. CASE Start(t)
  BY <1>1 DEF StepAmends
<1>2. ASSUME pc[t] \in Busy, NEW name \in FrameNames, Log(t, name) PROVE StepAmends(t)
  BY <1>2, Logs DEF StepAmends
<1> DEFINE r == turn[t].run
<1>3. ASSUME pc[t] \in Busy, NEW f \in FileType, files' = [files EXCEPT ![r] = f],
             Same(f, files[r]), f.frames = files[r].frames
      PROVE  StepAmends(t)
  BY <1>3 DEF StepAmends, Amends
<1>4. ASSUME pc[t] \in Busy PROVE files[r] \in FileType /\ files[r].frames \in Seq(FrameNames)
  BY <1>4, BusyRun, FileTypes
<1>5. ASSUME NEW name \in Progress, Journals(t, name) PROVE StepAmends(t)
  BY <1>5, <1>2 DEF Journals, Busy, FrameNames
<1>6. ASSUME NEW status \in Statuses, Ends(t, status) PROVE StepAmends(t)
  <2>1. pc[t] \in Busy
    BY <1>6 DEF Ends, Busy
  <2>2. PICK c \in IF Cap = {} THEN {0} ELSE Costs(t) :
            files' = [files EXCEPT ![r].frames = Append(@, status), ![r].spent = c]
    BY <1>6 DEF Ends
  <2>3. c \in Nat
    BY CostsAreNumbers
  <2> DEFINE f == [[files[r] EXCEPT !.frames = Append(@, status)] EXCEPT !.spent = c]
  <2>4. Append(files[r].frames, status) \in Seq(FrameNames)
    BY <2>1, <1>4, AppendProperties DEF FrameNames
  <2>5. f \in FileType /\ Same(f, files[r]) /\ f.frames = Append(files[r].frames, status)
    BY <2>1, <2>3, <2>4, <1>4 DEF FileType, Same
  <2>6. r \in Runs
    BY <2>1, BusyRun
  <2>7. files' = [files EXCEPT ![r] = f]
    <3>1. [files EXCEPT ![r].frames = Append(@, status)][r] = [files[r] EXCEPT !.frames = Append(@, status)]
      BY <2>6 DEF Runs
    <3> QED BY <2>2, <3>1
  <2> QED BY <2>1, <2>5, <2>7 DEF StepAmends, Amends, FrameNames
<1>7. CASE Errs(t)
  BY <1>7, <1>2 DEF Errs, Busy, FrameNames, Statuses, StepAmends
<1>8. CASE Receipt(t)
  BY <1>8, <1>2 DEF Receipt, Busy, FrameNames
<1>9. CASE ReceiptFails(t) \/ Dies(t)
  <2>1. UNCHANGED files \/ (pc[t] \in Busy /\ \E torn \in BOOLEAN : files' = [files EXCEPT ![r].torn = torn])
    BY <1>9 DEF ReceiptFails, Dies, Busy
  <2>2. ASSUME pc[t] \in Busy, NEW torn \in BOOLEAN, files' = [files EXCEPT ![r].torn = torn]
        PROVE  StepAmends(t)
    <3> DEFINE f == [files[r] EXCEPT !.torn = torn]
    <3>1. f \in FileType /\ Same(f, files[r]) /\ f.frames = files[r].frames
      BY <2>2, <1>4 DEF FileType, Same
    <3> QED BY <2>2, <3>1, <1>3
  <2> QED BY <2>1, <2>2 DEF StepAmends
<1>10. CASE Index(t)
  <2>1. pc[t] \in Busy
    BY <1>10 DEF Index, Busy
  <2>2. CASE files' = [files EXCEPT ![r].indexed = TRUE]
    <3> DEFINE f == [files[r] EXCEPT !.indexed = TRUE]
    <3>1. f \in FileType /\ Same(f, files[r]) /\ f.frames = files[r].frames
      BY <2>1, <1>4 DEF FileType, Same
    <3> QED BY <2>1, <2>2, <3>1, <1>3
  <2> QED BY <2>2, <1>10 DEF Index, StepAmends
<1>11. ASSUME ~Start(t), \A name \in Progress : ~Journals(t, name),
              \A status \in Statuses : ~Ends(t, status),
              ~Errs(t), ~Receipt(t), ~ReceiptFails(t), ~Dies(t), ~Index(t)
       PROVE  UNCHANGED files
  BY <1>11 DEF Step, Asks, Works, Fails, Ask, List, LookUp, Read, Resume, BudgetIsGone, Show,
               NothingToShow, Retry, Done, GiveUp, OutputFails
<1> QED BY <1>1, <1>5, <1>6, <1>7, <1>8, <1>9, <1>10, <1>11 DEF StepAmends

-----------------------------------------------------------------------------
(* Types. *)

\* The journal that an attempt creates.
NewRun(t, f) ==
    LET new == Len(files) + 1
        own(id) == IF id = 0 THEN new ELSE id
        l == turn[t]
    IN  /\ files' = Append(files, f)
        /\ f.session = own(l.session) /\ f.group = own(l.group)
        /\ f.attempt = l.attempt + 1
        /\ f.retryOf = l.prior /\ f.feedback = l.feedback
        /\ f.context = l.context /\ f.found = l.found /\ f.known = l.known
        /\ f.frames = <<>> /\ f.spent = 0 /\ f.listed = (~l.elsewhere \/ l.attempt > 0)
        /\ pc' = [pc EXCEPT ![t] = "running"]
        /\ turn' = [turn EXCEPT ![t] =
              [l EXCEPT !.session = f.session, !.group = f.group, !.attempt = f.attempt,
                        !.run = new, !.prior = new, !.feedback = 0]]

LEMMA StartCreates ==
    ASSUME Typed, NEW t \in Terminals, Start(t)
    PROVE  \E f \in FileType : NewRun(t, f)
<1> DEFINE new == Len(files) + 1
           own(id) == IF id = 0 THEN new ELSE id
           l == turn[t]
           f == [session |-> own(l.session), group |-> own(l.group),
                 attempt |-> l.attempt + 1, retryOf |-> l.prior,
                 feedback |-> l.feedback, context |-> l.context,
                 found |-> l.found, known |-> l.known,
                 frames |-> <<>>, torn |-> FALSE, spent |-> 0,
                 listed |-> ~l.elsewhere \/ l.attempt > 0, indexed |-> FALSE]
<1>1. files' = Append(files, f)
  BY DEF Start, RetryOf
<1>2. l \in Locals /\ Len(files) \in Nat /\ Runs \subseteq Nat
  BY FileTypes
<1>3. /\ l.session \in Nat /\ l.group \in Nat /\ l.attempt \in Nat /\ l.prior \in Nat
      /\ l.feedback \in Nat /\ l.context \in SUBSET Nat /\ l.found \in SUBSET Nat
      /\ l.known \in SUBSET Nat /\ l.elsewhere \in BOOLEAN
  BY <1>2 DEF Locals
<1>4. <<>> \in Seq(FrameNames)
  OBVIOUS
<1>5. own(l.session) \in Nat /\ own(l.group) \in Nat /\ l.attempt + 1 \in Nat
  BY <1>2, <1>3
<1>6. f \in FileType
  BY <1>3, <1>4, <1>5 DEF FileType
<1>7. turn' = [turn EXCEPT ![t] =
          [l EXCEPT !.session = f.session, !.group = f.group, !.attempt = f.attempt,
                    !.run = new, !.prior = new, !.feedback = 0]]
  BY DEF Start, Set
<1>8. pc' = [pc EXCEPT ![t] = "running"]
  BY DEF Start, Goto
<1>9. NewRun(t, f)
  BY <1>1, <1>3, <1>7, <1>8 DEF NewRun
<1> QED BY <1>6, <1>9

LEMMA NewRunKeeps ==
    ASSUME Typed, NEW t \in Terminals, NEW f \in FileType, NewRun(t, f)
    PROVE  /\ FilesKeep
           /\ Runs' = Runs \cup {Len(files) + 1} /\ Len(files') = Len(files) + 1
           /\ files'[Len(files) + 1] = f
           /\ \A r \in Runs : files'[r] = files[r]
<1>1. /\ files' \in Seq(FileType) /\ Len(files') = Len(files) + 1
      /\ files'[Len(files) + 1] = f
      /\ \A r \in 1 .. Len(files) : files'[r] = files[r]
  BY AppendProperties DEF NewRun, Typed
<1>2. Runs = 1 .. Len(files) /\ Len(files) \in Nat
  BY FileTypes
<1>3. Runs' = 1 .. Len(files) + 1
  BY <1>1 DEF Runs
<1>4. \A r \in Runs : files[r].frames \in Seq(FrameNames)
  BY FileTypes
<1>5. FilesKeep
  BY <1>1, <1>2, <1>3, <1>4 DEF FilesKeep, Same
<1> QED BY <1>1, <1>2, <1>3, <1>5

LEMMA StepsKeep ==
    ASSUME Typed, NEW t \in Terminals, Step(t)
    PROVE  FilesKeep /\ Runs \subseteq Runs'
<1>1. CASE UNCHANGED files
  <2>1. \A r \in Runs : files[r].frames \in Seq(FrameNames)
    BY FileTypes
  <2> QED BY <1>1, <2>1 DEF FilesKeep, Same, Runs, Typed
<1>2. CASE Start(t)
  BY <1>2, StartCreates, NewRunKeeps
<1>3. CASE pc[t] \in Busy /\ \E f \in FileType : Amends(turn[t].run, f)
  BY <1>3, AmendKeeps, BusyRun
<1> QED BY <1>1, <1>2, <1>3, StepsAmend DEF StepAmends

\* What fits goes on to fit while the turn stays where it is.
LEMMA FitsStays ==
    ASSUME Typed, FilesKeep, NEW t \in Terminals, pc'[t] = pc[t], turn'[t] = turn[t]
    PROVE  Fits(t)'
<1>1. turn[t].session \in Nat /\ Len(files) \in Nat /\ Len(files') \in Nat
  BY FileTypes DEF Locals, FilesKeep
<1>2. Fits(t)
  BY DEF Typed
<1> QED BY <1>1, <1>2 DEF Fits, FilesKeep, Same

LEMMA RunFitsStays ==
    ASSUME Typed, FilesKeep, NEW r \in Runs
    PROVE  RunFits(r)'
BY DEF Typed, FilesKeep, Same, RunFits

\* A turn that goes somewhere else, or changes its locals.
LEMMA Moving ==
    ASSUME Typed, Runs \subseteq Runs', NEW t \in Terminals, NEW to \in Labels,
           NEW l \in Locals, Goto(t, to), Set(t, l) \/ (l = turn[t] /\ UNCHANGED turn)
    PROVE  OthersStay(t) /\ pc'[t] = to /\ turn'[t] = l
<1>1. Locals \subseteq Locals'
  BY DEF Locals
<1>2. turn' = [turn EXCEPT ![t] = l]
  BY DEF Set, Typed
<1> QED BY <1>1, <1>2 DEF Typed, Goto, OthersStay

LEMMA Staying ==
    ASSUME Typed, Runs \subseteq Runs', NEW t \in Terminals, UNCHANGED pc,
           NEW l \in Locals, Set(t, l) \/ (l = turn[t] /\ UNCHANGED turn)
    PROVE  OthersStay(t) /\ pc'[t] = pc[t] /\ turn'[t] = l
<1>1. Locals \subseteq Locals'
  BY DEF Locals
<1>2. turn' = [turn EXCEPT ![t] = l]
  BY DEF Set, Typed
<1> QED BY <1>1, <1>2 DEF Typed, OthersStay

LEMMA Quitting ==
    ASSUME Typed, Runs \subseteq Runs', NEW t \in Terminals, Quit(t)
    PROVE  OthersStay(t) /\ pc'[t] = "idle" /\ turn'[t] = Idle
<1>1. Idle \in Locals
  BY DEF Idle, Locals
<1> QED BY <1>1, Moving DEF Quit, Labels

\* The steps of a turn, by what they do to its locals.
Leaves(t) == pc'[t] = "idle" /\ turn'[t] = Idle

Begins(t) ==
    /\ pc[t] = "idle" /\ UNCHANGED files
    /\ \E s \in {files[r].session : r \in Runs} \cup {0}, n \in Nat, e \in BOOLEAN :
          /\ turn'[t] = [Idle EXCEPT !.session = s, !.max = n, !.elsewhere = e,
                                     !.known = OfSession(s)]
          /\ e \in Elsewhere
          /\ pc'[t] = IF s = 0 THEN "ready" ELSE "listing"

Recalls(t) ==
    /\ pc[t] \in Asking /\ UNCHANGED files
    /\ pc'[t] \in Asking \cup {"ready"}
    /\ \E todo, found, context \in SUBSET Runs :
          /\ context \subseteq found
          /\ turn'[t] = [turn[t] EXCEPT !.todo = todo, !.found = found, !.context = context]

GoesOn(t) ==
    /\ pc[t] \in Busy /\ pc'[t] \in Busy
    /\ \E b \in BOOLEAN : turn'[t] = [turn[t] EXCEPT !.failed = b]

Repeats(t) ==
    /\ pc[t] = "decide" /\ UNCHANGED files
    /\ pc'[t] = "ready"
    /\ Has(Frames(t), "failed") /\ Has(Frames(t), "failure")
    /\ \E n \in Nat :
          /\ n = turn[t].spent + MyRun(t).spent
          /\ turn'[t] = [turn[t] EXCEPT !.feedback = turn[t].run, !.spent = n]

LEMMA LeastRun ==
    ASSUME Typed, NEW S \in SUBSET Runs, S # {}
    PROVE  Min(S) \in S
<1> DEFINE n == Len(files)
           T == {n + 1 - x : x \in S}
<1>1. S \subseteq 1 .. n /\ n \in Nat
  BY FileTypes
<1>2. T \in SUBSET (1 .. n) /\ T # {}
  <2>1. \A x \in S : n + 1 - x \in 1 .. n
    BY <1>1
  <2> QED BY <2>1
<1>3. PICK m \in T : \A j \in T : j <= m
  BY <1>1, <1>2, Maximum
<1>4. PICK x \in S : m = n + 1 - x
  BY <1>3
<1>5. \A y \in S : x =< y
  <2> TAKE y \in S
  <2>1. n + 1 - y <= n + 1 - x
    BY <1>3, <1>4
  <2> QED BY <2>1, <1>1
<1> QED BY <1>5 DEF Min

LEMMA AskBegins ==
    ASSUME Typed, NEW t \in Terminals, Asks(t)
    PROVE  OthersStay(t) /\ Begins(t) /\ UNCHANGED shown
<1>1. PICK s \in {files[r].session : r \in Runs} \cup {0}, n \in Attempts, e \in Elsewhere :
          Ask(t, s, n, e)
  BY DEF Asks
<1> DEFINE l == [Idle EXCEPT !.session = s, !.max = n, !.elsewhere = e, !.known = OfSession(s)]
<1>2. s \in Nat
  <2>1. ASSUME NEW r \in Runs PROVE files[r].session \in Nat
    BY FileTypes DEF FileType
  <2> QED BY <2>1
<1>3. n \in Nat /\ e \in BOOLEAN /\ OfSession(s) \in SUBSET Runs
  BY AttemptsAssumption, ElsewhereAssumption DEF OfSession
<1>4. l \in Locals
  BY <1>2, <1>3 DEF Idle, Locals
<1>5. Set(t, l) /\ Goto(t, IF s = 0 THEN "ready" ELSE "listing") /\ pc[t] = "idle"
      /\ UNCHANGED <<files, shown>>
  BY <1>1 DEF Ask
<1>6. OthersStay(t) /\ pc'[t] = (IF s = 0 THEN "ready" ELSE "listing") /\ turn'[t] = l
  BY <1>4, <1>5, Moving DEF Labels, Asking, Runs
<1> QED BY <1>3, <1>5, <1>6 DEF Begins

LEMMA HistorySteps ==
    ASSUME Typed, NEW t \in Terminals, List(t) \/ LookUp(t) \/ Read(t) \/ Resume(t)
    PROVE  OthersStay(t) /\ (Leaves(t) \/ Recalls(t)) /\ UNCHANGED shown
<1> DEFINE l == turn[t]
<1>1. l \in Locals /\ l.context \subseteq l.found
  BY FileTypes DEF Typed, Fits
<1>2. l.todo \in SUBSET Runs /\ l.found \in SUBSET Runs /\ l.context \in SUBSET Runs
  BY <1>1 DEF Locals
<1>3. UNCHANGED <<files, shown>> /\ pc[t] \in Asking /\ Runs \subseteq Runs'
  BY DEF List, LookUp, Read, Resume, Runs, Asking
<1>4. ASSUME NEW todo \in SUBSET Runs, NEW found \in SUBSET Runs, NEW context \in SUBSET Runs,
             context \subseteq found,
             NEW m \in Locals, m = [l EXCEPT !.todo = todo, !.found = found, !.context = context],
             Set(t, m) \/ (m = turn[t] /\ UNCHANGED turn),
             UNCHANGED pc \/ Goto(t, "lookup") \/ Goto(t, "reading") \/ Goto(t, "ready")
      PROVE  OthersStay(t) /\ Recalls(t)
  <2>1. OthersStay(t) /\ turn'[t] = m /\ pc'[t] \in Asking \cup {"ready"}
    BY <1>3, <1>4, Moving, Staying DEF Labels, Asking
  <2>2. turn'[t] = [turn[t] EXCEPT !.todo = todo, !.found = found, !.context = context]
    BY <2>1, <1>4
  <2>3. \E d, f, c \in SUBSET Runs :
            c \subseteq f /\ turn'[t] = [turn[t] EXCEPT !.todo = d, !.found = f, !.context = c]
    BY <2>2, <1>4, Zenon
  <2> QED BY <2>1, <2>3, <1>3, Zenon DEF Recalls
<1>5. ASSUME NEW todo \in SUBSET Runs, NEW found \in SUBSET Runs, NEW context \in SUBSET Runs
      PROVE  [l EXCEPT !.todo = todo, !.found = found, !.context = context] \in Locals
  BY <1>1 DEF Locals
<1>6. CASE List(t)
  <2> DEFINE todo == {r \in Runs : files[r].listed}
             m == [l EXCEPT !.todo = todo, !.found = l.found, !.context = l.context]
  <2>1. m = [l EXCEPT !.todo = todo]
    BY <1>1 DEF Locals
  <2>2. Set(t, m) /\ Goto(t, "lookup")
    BY <1>6, <2>1 DEF List
  <2>3. todo \in SUBSET Runs
    OBVIOUS
  <2> HIDE DEF todo
  <2> QED BY <2>2, <2>3, <1>1, <1>2, <1>3, <1>4, <1>5
<1>7. CASE LookUp(t)
  <2> DEFINE todo == l.todo \cup {r \in Runs : files[r].indexed /\ files[r].session = turn[t].session}
             m == [l EXCEPT !.todo = todo, !.found = l.found, !.context = l.context]
  <2>1. m = [l EXCEPT !.todo = todo]
    BY <1>1 DEF Locals
  <2>2. Set(t, m) /\ Goto(t, "reading")
    BY <1>7, <2>1 DEF LookUp
  <2>3. todo \in SUBSET Runs
    BY <1>2
  <2> HIDE DEF todo
  <2> QED BY <2>2, <2>3, <1>1, <1>2, <1>3, <1>4, <1>5
<1>8. CASE Read(t)
  <2> DEFINE r == Min(turn[t].todo)
             f == files[r]
             mine == f.session = turn[t].session /\ ~Unreadable(f)
             todo == l.todo \ {r}
             found == IF mine THEN l.found \cup {r} ELSE l.found
             context == IF mine /\ Confirmed(f) THEN l.context \cup {r} ELSE l.context
             m == [l EXCEPT !.todo = todo, !.found = found, !.context = context]
  <2>1. Quit(t) \/ (Set(t, m) /\ UNCHANGED pc)
    BY <1>8 DEF Read
  <2>2. r \in Runs
    BY <1>2, <1>8, LeastRun DEF Read
  <2>3. todo \in SUBSET Runs /\ found \in SUBSET Runs /\ context \in SUBSET Runs
        /\ context \subseteq found
    BY <2>2, <1>1, <1>2
  <2> HIDE DEF todo, found, context
  <2> QED BY <2>1, <2>3, <1>3, <1>4, <1>5, Quitting DEF Leaves
<1>9. CASE Resume(t)
  <2> DEFINE m == [l EXCEPT !.todo = l.todo, !.found = l.found, !.context = l.context]
  <2>1. m = l
    BY <1>1 DEF Locals
  <2>2. Quit(t) \/ (Goto(t, "ready") /\ UNCHANGED turn)
    BY <1>9 DEF Resume
  <2>3. CASE Goto(t, "ready") /\ UNCHANGED turn
    <3>1. m \in Locals /\ m = turn[t] /\ l.context \subseteq l.found
      BY <2>1, <1>1
    <3>2. OthersStay(t) /\ turn'[t] = turn[t] /\ pc'[t] = "ready"
      BY <2>3, <3>1, <1>3, Moving DEF Labels
    <3>3. turn'[t] = m
      BY <3>1, <3>2
    <3>4. \E d, f, c \in SUBSET Runs :
              c \subseteq f /\ turn'[t] = [turn[t] EXCEPT !.todo = d, !.found = f, !.context = c]
      <4> USE <1>2
      <4> WITNESS l.todo \in SUBSET Runs, l.found \in SUBSET Runs, l.context \in SUBSET Runs
      <4> QED BY <3>3, <3>1 DEF l
    <3> QED BY <3>2, <3>4, <1>3, Zenon DEF Recalls
  <2> QED BY <2>2, <2>3, <1>3, Quitting DEF Leaves
<1> QED BY <1>3, <1>6, <1>7, <1>8, <1>9

LEMMA AttemptSteps ==
    ASSUME Typed, Runs \subseteq Runs', NEW t \in Terminals,
           \/ \E name \in Progress : Journals(t, name)
           \/ \E status \in Statuses : Ends(t, status)
           \/ Show(t) \/ NothingToShow(t) \/ OutputFails(t) \/ Receipt(t) \/ ReceiptFails(t)
           \/ Index(t) /\ ~Quit(t)
    PROVE  OthersStay(t) /\ GoesOn(t)
<1> DEFINE l == turn[t]
<1>1. l \in Locals /\ l.failed \in BOOLEAN
  BY FileTypes DEF Locals
<1>2. l = [l EXCEPT !.failed = l.failed] /\ [l EXCEPT !.failed = TRUE] \in Locals
  BY <1>1 DEF Locals
<1>3. pc[t] \in Busy
  BY DEF Journals, Ends, Show, NothingToShow, OutputFails, Receipt, ReceiptFails, Index, Busy
<1>4. UNCHANGED pc \/ \E to \in Busy : Goto(t, to)
  BY DEF Journals, Ends, Show, NothingToShow, OutputFails, Receipt, ReceiptFails, Index, Busy
<1>5. UNCHANGED turn \/ Set(t, [l EXCEPT !.failed = TRUE])
  BY DEF Journals, Ends, Show, NothingToShow, OutputFails, Receipt, ReceiptFails, Index
<1>6. PICK b \in BOOLEAN :
          /\ [l EXCEPT !.failed = b] \in Locals
          /\ \/ Set(t, [l EXCEPT !.failed = b])
             \/ [l EXCEPT !.failed = b] = turn[t] /\ UNCHANGED turn
  BY <1>1, <1>2, <1>5
<1>7. OthersStay(t) /\ turn'[t] = [l EXCEPT !.failed = b] /\ pc'[t] \in Busy
  <2>1. CASE UNCHANGED pc
    BY <2>1, <1>3, <1>6, Staying
  <2>2. ASSUME NEW to \in Busy, Goto(t, to)
        PROVE  OthersStay(t) /\ turn'[t] = [l EXCEPT !.failed = b] /\ pc'[t] \in Busy
    <3>1. to \in Labels
      BY DEF Labels
    <3> QED BY <2>2, <3>1, <1>6, Moving
  <2> QED BY <2>1, <2>2, <1>4
<1> QED BY <1>3, <1>7 DEF GoesOn

LEMMA RetryRepeats ==
    ASSUME Typed, NEW t \in Terminals, Retry(t)
    PROVE  OthersStay(t) /\ Repeats(t) /\ UNCHANGED shown
<1> DEFINE l == turn[t]
           n == l.spent + MyRun(t).spent
           m == [l EXCEPT !.feedback = l.run, !.spent = n]
<1>1. pc[t] = "decide" /\ UNCHANGED <<files, shown>> /\ Goto(t, "ready")
      /\ Has(Frames(t), "failed") /\ Has(Frames(t), "failure")
  BY DEF Retry, Retries
<1>2. l \in Locals /\ MyRun(t) \in FileType
  BY <1>1, FileTypes, BusyRun DEF Busy
<1>3. l.spent \in Nat /\ l.run \in Nat /\ MyRun(t).spent \in Nat
  BY <1>2 DEF Locals, FileType
<1>4. n \in Nat
  BY <1>3
<1>5. m \in Locals
  BY <1>2, <1>3, <1>4 DEF Locals
<1>6. Set(t, m)
  BY DEF Retry
<1>7. OthersStay(t) /\ pc'[t] = "ready" /\ turn'[t] = m
  BY <1>1, <1>5, <1>6, Moving DEF Labels, Runs
<1>8. \E k \in Nat : /\ k = turn[t].spent + MyRun(t).spent
                     /\ turn'[t] = [turn[t] EXCEPT !.feedback = turn[t].run, !.spent = k]
  BY <1>4, <1>7
<1> QED BY <1>1, <1>7, <1>8 DEF Repeats

Moves(t) == Leaves(t) \/ Begins(t) \/ Recalls(t) \/ GoesOn(t) \/ Repeats(t) \/ Start(t)

LEMMA StepsMove ==
    ASSUME Typed, NEW t \in Terminals, Step(t)
    PROVE  OthersStay(t) /\ Moves(t)
<1>1. Runs \subseteq Runs'
  BY StepsKeep
<1>2. CASE Asks(t)
  BY <1>2, AskBegins DEF Moves
<1>3. CASE List(t) \/ LookUp(t) \/ Read(t) \/ Resume(t)
  BY <1>3, HistorySteps DEF Moves
<1>4. CASE Start(t)
  <2>1. PICK f \in FileType : NewRun(t, f)
    BY <1>4, StartCreates
  <2> DEFINE m == [turn[t] EXCEPT !.session = f.session, !.group = f.group,
                                  !.attempt = f.attempt, !.run = Len(files) + 1,
                                  !.prior = Len(files) + 1, !.feedback = 0]
  <2>2. f.session \in Nat /\ f.group \in Nat /\ f.attempt \in Nat /\ Len(files) + 1 \in Nat
    BY FileTypes DEF FileType
  <2>3. m \in Locals
    BY <2>2, FileTypes DEF Locals
  <2>4. Set(t, m) /\ Goto(t, "running")
    BY <2>1 DEF NewRun, Set, Goto
  <2> HIDE DEF m
  <2>5. OthersStay(t)
    BY <2>3, <2>4, <1>1, Moving DEF Labels, Busy
  <2> QED BY <2>5, <1>4 DEF Moves
<1>5. CASE Retry(t)
  BY <1>5, RetryRepeats DEF Moves
<1>6. CASE Quit(t)
  BY <1>1, <1>6, Quitting DEF Moves, Leaves
<1>7. CASE \/ \E name \in Progress : Journals(t, name)
           \/ \E status \in Statuses : Ends(t, status)
           \/ Show(t) \/ NothingToShow(t) \/ OutputFails(t) \/ Receipt(t) \/ ReceiptFails(t)
           \/ Index(t) /\ ~Quit(t)
  BY <1>1, <1>7, AttemptSteps DEF Moves
<1>8. BudgetIsGone(t) \/ Done(t) \/ GiveUp(t) \/ Errs(t) \/ Dies(t) => Quit(t)
  BY DEF BudgetIsGone, Done, GiveUp, Errs, Dies
<1> QED BY <1>2, <1>3, <1>4, <1>5, <1>6, <1>7, <1>8 DEF Step, Works, Fails

\* What is printed is the answer of the run that is reported.
Prints(t) ==
    /\ pc[t] = "report" /\ Deliverable(Frames(t))
    /\ shown' = Append(shown, turn[t].run)
    /\ pc'[t] \in {"receipt", "index"} /\ UNCHANGED files

LEMMA StepsPrint ==
    ASSUME Typed, NEW t \in Terminals, Step(t)
    PROVE  UNCHANGED shown \/ Prints(t)
<1>1. CASE Asks(t)
  BY <1>1, AskBegins
<1>2. CASE Show(t) \/ OutputFails(t)
  <2>1. pc[t] = "report" /\ pc \in [Terminals -> Labels] /\ UNCHANGED files
    BY <1>2 DEF Show, OutputFails, Typed
  <2>2. pc'[t] \in {"receipt", "index"}
    BY <1>2, <2>1 DEF Show, OutputFails, Goto
  <2>3. \/ UNCHANGED shown
        \/ Deliverable(Frames(t)) /\ shown' = Append(shown, turn[t].run)
    BY <1>2 DEF Show, OutputFails
  <2> QED BY <2>1, <2>2, <2>3 DEF Prints
<1>3. CASE UNCHANGED shown
  BY <1>3
<1>4. Works(t) \/ Fails(t) => Show(t) \/ OutputFails(t) \/ UNCHANGED shown
  BY DEF Works, Fails, List, LookUp, Read, Resume, Start, BudgetIsGone, Journals, Ends,
         NothingToShow, Receipt, Index, Retry, Done, GiveUp, Errs, ReceiptFails, Dies
<1> QED BY <1>1, <1>2, <1>3, <1>4 DEF Step

LEMMA StepFits ==
    ASSUME Typed, NEW t \in Terminals, Step(t)
    PROVE  Fits(t)'
<1> DEFINE l == turn[t]
<1>1. FilesKeep /\ Moves(t) /\ l \in Locals /\ Fits(t)
  BY StepsKeep, StepsMove, FileTypes DEF Typed
<1>2. Len(files) \in Nat /\ Len(files') \in Nat /\ Len(files) <= Len(files') /\ Runs = 1 .. Len(files)
  BY <1>1, FileTypes DEF FilesKeep
<1>3. CASE Leaves(t)
  BY <1>2, <1>3 DEF Leaves, Fits, Idle, Busy, Asking
<1>4. CASE Begins(t)
  <2>1. PICK s \in {files[r].session : r \in Runs} \cup {0}, n \in Nat, e \in BOOLEAN :
            /\ turn'[t] = [Idle EXCEPT !.session = s, !.max = n, !.elsewhere = e,
                                       !.known = OfSession(s)]
            /\ pc'[t] = IF s = 0 THEN "ready" ELSE "listing"
    BY <1>4 DEF Begins
  <2>2. /\ turn'[t].run = 0 /\ turn'[t].group = 0 /\ turn'[t].attempt = 0 /\ turn'[t].prior = 0
        /\ turn'[t].feedback = 0 /\ turn'[t].context = {} /\ turn'[t].session = s
    BY <2>1 DEF Idle
  <2>3. s <= Len(files)
    <3>1. ASSUME NEW r \in Runs PROVE files[r].session <= Len(files)
      BY <1>2, FileTypes DEF Typed, RunFits
    <3> QED BY <1>2, <3>1
  <2>4. s # 0 => pc'[t] = "listing"
    BY <2>1
  <2>5. pc'[t] \in {"ready", "listing"}
    BY <2>1
  <2>6. files' = files
    BY <1>4 DEF Begins
  <2>7. s = 0 => pc'[t] \notin Asking
    BY <2>1 DEF Asking
  <2> QED BY <2>2, <2>3, <2>5, <2>6, <2>7 DEF Fits, Busy
<1>5. CASE Recalls(t)
  <2>1. PICK todo, found, context \in SUBSET Runs :
            /\ context \subseteq found
            /\ turn'[t] = [turn[t] EXCEPT !.todo = todo, !.found = found, !.context = context]
    BY <1>5 DEF Recalls
  <2>2. /\ turn'[t].run = l.run /\ turn'[t].group = l.group /\ turn'[t].attempt = l.attempt
        /\ turn'[t].prior = l.prior /\ turn'[t].feedback = l.feedback
        /\ turn'[t].session = l.session
        /\ turn'[t].context = context /\ turn'[t].found = found
    BY <2>1, <1>1 DEF Locals
  <2>3. files' = files /\ pc[t] \in Asking /\ pc'[t] \in Asking \cup {"ready"}
    BY <1>5 DEF Recalls
  <2>4. l.run = 0
    BY <2>3, <1>1 DEF Fits, Asking, Busy
  <2> QED BY <2>1, <2>2, <2>3, <2>4, <1>1 DEF Fits, Asking, Busy
<1>6. CASE GoesOn(t)
  <2>1. PICK b \in BOOLEAN : turn'[t] = [turn[t] EXCEPT !.failed = b]
    BY <1>6 DEF GoesOn
  <2>2. /\ turn'[t].run = l.run /\ turn'[t].group = l.group /\ turn'[t].attempt = l.attempt
        /\ turn'[t].prior = l.prior /\ turn'[t].feedback = l.feedback
        /\ turn'[t].session = l.session
        /\ turn'[t].context = l.context /\ turn'[t].found = l.found
    BY <2>1, <1>1 DEF Locals
  <2>3. pc[t] \in Busy /\ pc'[t] \in Busy
    BY <1>6 DEF GoesOn
  <2>4. l.run \in Runs /\ l.run # 0
    BY <2>3, BusyRun
  <2>5. l.run \in Runs' /\ Same(files'[l.run], files[l.run])
    BY <1>1, <2>4 DEF FilesKeep
  <2>6. l.feedback = 0 /\ pc'[t] # "ready" /\ pc'[t] \notin Asking
    BY <1>1, <2>3, <2>4 DEF Fits, Busy, Asking
  <2>7. l.session <= Len(files')
    BY <1>1, <1>2 DEF Fits, Locals
  <2> QED BY <2>2, <2>3, <2>4, <2>5, <2>6, <2>7, <1>1 DEF Fits, Same
<1>7. CASE Repeats(t)
  <2>1. PICK n \in Nat : turn'[t] = [turn[t] EXCEPT !.feedback = turn[t].run, !.spent = n]
    BY <1>7 DEF Repeats
  <2>2. /\ turn'[t].run = l.run /\ turn'[t].group = l.group /\ turn'[t].attempt = l.attempt
        /\ turn'[t].prior = l.prior /\ turn'[t].feedback = l.run
        /\ turn'[t].session = l.session
        /\ turn'[t].context = l.context /\ turn'[t].found = l.found
    BY <2>1, <1>1 DEF Locals
  <2>3. pc[t] \in Busy /\ pc'[t] = "ready" /\ files' = files
    BY <1>7 DEF Repeats, Busy
  <2>4. l.run \in Runs /\ l.run # 0
    BY <2>3, BusyRun
  <2>5. Runs' = Runs /\ pc'[t] \notin Asking
    BY <2>3 DEF Runs, Asking
  <2> HIDE DEF l
  <2> QED BY <2>2, <2>3, <2>4, <2>5, <1>1 DEF Fits, l
<1>8. CASE Start(t)
  <2>1. PICK f \in FileType : NewRun(t, f)
    BY <1>8, StartCreates
  <2> DEFINE new == Len(files) + 1
  <2>2. Runs' = Runs \cup {new} /\ Len(files') = new /\ files'[new] = f
    BY <2>1, NewRunKeeps
  <2>3. /\ turn'[t].run = new /\ turn'[t].group = f.group /\ turn'[t].attempt = f.attempt
        /\ turn'[t].prior = new /\ turn'[t].feedback = 0 /\ turn'[t].session = f.session
        /\ turn'[t].context = l.context /\ turn'[t].found = l.found
        /\ pc'[t] = "running"
    BY <2>1, <1>1 DEF NewRun, Locals, Typed
  <2>4. f.attempt = l.attempt + 1 /\ l.attempt \in Nat /\ f.session \in {new, l.session}
    BY <2>1, <1>1 DEF NewRun, Locals
  <2>5. f.session <= new
    BY <2>4, <1>1, <1>2 DEF Fits, Locals
  <2>6. l.context \subseteq l.found
    BY <1>1 DEF Fits
  <2> HIDE DEF l
  <2> QED BY <2>2, <2>3, <2>4, <2>5, <2>6, <1>2 DEF Fits, Busy, Asking
<1> QED BY <1>1, <1>3, <1>4, <1>5, <1>6, <1>7, <1>8 DEF Moves

\* The run that an attempt creates.
LEMMA NewRunFits ==
    ASSUME Typed, NEW t \in Terminals, NEW f \in FileType, NewRun(t, f),
           NEW new \in Nat, new = Len(files) + 1
    PROVE  RunFits(new)'
<1> DEFINE l == turn[t]
<1>1. files'[new] = f
  BY NewRunKeeps
<1>2. l \in Locals /\ Fits(t) /\ Len(files) \in Nat /\ Runs = 1 .. Len(files)
  BY FileTypes DEF Typed
<1>3. l.session \in Nat /\ l.group \in Nat /\ l.run \in Nat /\ l.found \subseteq 1 .. Len(files)
  BY <1>2 DEF Locals
<1>4. l.group \in 0 .. Len(files) /\ l.prior \in 0 .. Len(files) /\ l.feedback \in 0 .. Len(files)
  <2>1. CASE l.run = 0
    BY <2>1, <1>2 DEF Fits
  <2>2. CASE l.run # 0
    <3>1. l.run \in 1 .. Len(files) /\ l.group = files[l.run].group /\ l.prior = l.run
          /\ l.feedback \in {0, l.run}
      BY <2>2, <1>2 DEF Fits
    <3>2. files[l.run].group \in 1 .. l.run
      BY <3>1, <1>2 DEF Typed, RunFits
    <3> QED BY <3>1, <3>2, <1>2
  <2> QED BY <2>1, <2>2
<1>5. /\ f.session = (IF l.session = 0 THEN new ELSE l.session)
      /\ f.group = (IF l.group = 0 THEN new ELSE l.group)
      /\ f.retryOf = l.prior /\ f.feedback = l.feedback /\ f.context = l.context
      /\ f.found = l.found
  BY DEF NewRun
<1>6. l.session <= Len(files) /\ l.context \subseteq l.found
  BY <1>2 DEF Fits
<1> HIDE DEF l
<1>7. f.session \in 1 .. new /\ f.group \in 1 .. new
  BY <1>2, <1>3, <1>4, <1>5, <1>6
<1>8. f.retryOf \in 0 .. new - 1 /\ f.feedback \in 0 .. new - 1
  BY <1>2, <1>4, <1>5
<1>9. f.context \subseteq f.found /\ f.found \subseteq 1 .. new - 1
  <2>1. new - 1 = Len(files)
    BY <1>2
  <2> QED BY <2>1, <1>3, <1>5, <1>6
<1> QED BY <1>1, <1>7, <1>8, <1>9 DEF RunFits

LEMMA NextTyped == Typed /\ [Next]_vars => Typed'
<1> SUFFICES ASSUME Typed, [Next]_vars PROVE Typed'
  OBVIOUS
<1>1. ASSUME NEW t \in Terminals, Step(t) PROVE Typed'
  <2>1. FilesKeep /\ OthersStay(t) /\ Moves(t) /\ Runs \subseteq Runs'
    BY <1>1, StepsKeep, StepsMove
  <2>2. shown' \in Seq(Nat) /\ \A j \in DOMAIN shown' : shown'[j] \in Runs'
    <3>1. CASE UNCHANGED shown
      BY <3>1, <2>1 DEF Typed
    <3>2. CASE Prints(t)
      <4>1. turn[t].run \in Runs /\ turn[t].run \in Nat
        BY <3>2, BusyRun, FileTypes DEF Prints, Busy
      <4>2. shown \in Seq(Nat) /\ \A j \in DOMAIN shown : shown[j] \in Runs
        BY DEF Typed
      <4>3. /\ shown' \in Seq(Nat) /\ Len(shown') = Len(shown) + 1
            /\ shown'[Len(shown) + 1] = turn[t].run
            /\ \A j \in 1 .. Len(shown) : shown'[j] = shown[j]
        BY <3>2, <4>1, <4>2, AppendProperties DEF Prints
      <4>4. /\ Len(shown) \in Nat /\ DOMAIN shown = 1 .. Len(shown)
            /\ DOMAIN shown' = 1 .. Len(shown) + 1
        BY <4>2, <4>3
      <4>5. ASSUME NEW j \in DOMAIN shown' PROVE shown'[j] \in Runs
        BY <4>1, <4>2, <4>3, <4>4
      <4> QED BY <4>3, <4>5, <2>1
    <3> QED BY <1>1, <3>1, <3>2, StepsPrint
  <2>3. ASSUME NEW u \in Terminals PROVE Fits(u)'
    <3>1. CASE u = t
      BY <3>1, <1>1, StepFits
    <3>2. CASE u # t
      BY <3>2, <2>1, FitsStays DEF OthersStay
    <3> QED BY <3>1, <3>2
  <2>4. ASSUME NEW r \in Runs' PROVE RunFits(r)'
    <3>1. CASE r \in Runs
      BY <3>1, <2>1, RunFitsStays
    <3>2. CASE r \notin Runs
      <4>1. Start(t)
        BY <1>1, <2>1, <3>2, StepsAmend, AmendKeeps, BusyRun DEF StepAmends, Runs
      <4>2. PICK f \in FileType : NewRun(t, f)
        BY <4>1, StartCreates
      <4>3. r = Len(files) + 1 /\ r \in Nat
        BY <4>2, <3>2, NewRunKeeps, FileTypes
      <4> QED BY <4>2, <4>3, NewRunFits
    <3> QED BY <3>1, <3>2
  <2> QED BY <2>1, <2>2, <2>3, <2>4 DEF Typed, FilesKeep, OthersStay
<1>2. CASE UNCHANGED vars
  BY <1>2 DEF vars, Typed, Fits, RunFits, Runs, Locals
<1> QED BY <1>1, <1>2 DEF Next, Step

LEMMA InitTyped == Init => Typed
<1> SUFFICES ASSUME Init PROVE Typed
  OBVIOUS
<1>1. files = <<>> /\ shown = <<>> /\ Runs = {} /\ Len(files) = 0
  BY DEF Init, Runs
<1>2. Idle \in Locals
  BY DEF Idle, Locals
<1>3. \A t \in Terminals : pc[t] = "idle" /\ turn[t] = Idle
  BY DEF Init
<1>4. \A t \in Terminals : Fits(t)
  BY <1>1, <1>3 DEF Fits, Idle, Busy, Asking
<1>5. pc \in [Terminals -> Labels] /\ turn \in [Terminals -> Locals]
  BY <1>2 DEF Init, Labels
<1> QED BY <1>1, <1>4, <1>5 DEF Typed

LEMMA AlwaysTyped == Spec => []Typed
BY InitTyped, NextTyped, PTL DEF Spec

\* Whatever is interleaved, run numbers in journals, on screens and in the
\* locals of a turn exist, and runs only know of earlier runs.
THEOREM TurnsAreTyped == Spec => []TypeOK
BY AlwaysTyped, TypedIsTypeOK, PTL

-----------------------------------------------------------------------------
(* Receipts. *)

\* What the run itself wrote, and what is printed.
RunWrote(fr) == Sound(fr) /\ ~Has(fr, "delivered")
WasShown(r) == \E j \in DOMAIN shown : shown[j] = r

(***************************************************************************)
(* Inductive strengthening: two turns are never at work on one attempt     *)
(* group; a journal is what a run wrote, to which a receipt is added only  *)
(* where the run succeeded and was printed; and what each turn knows of    *)
(* the journal of its run at each place.                                   *)
(***************************************************************************)
Apart ==
    \A t, u \in Terminals :
        t # u /\ turn[t].run # 0 /\ turn[u].run # 0 => turn[t].group # turn[u].group

Confirmation(r) ==
    /\ WasShown(r)
    /\ \E base \in Seq(FrameNames) :
          /\ RunWrote(base) /\ Has(base, "succeeded")
          /\ files[r].frames = Append(base, "delivered")

Kept(r) == RunWrote(files[r].frames) \/ Confirmation(r)

Place(t) ==
    LET r == turn[t].run
        fr == files[r].frames
    IN  /\ pc[t] = "running" => RunWrote(fr) /\ ~Ended(fr)
        /\ pc[t] = "report" => RunWrote(fr)
        /\ pc[t] = "receipt" => RunWrote(fr) /\ Has(fr, "succeeded") /\ WasShown(r)
        /\ pc[t] = "index" /\ ~turn[t].failed => (Has(fr, "succeeded") => Has(fr, "delivered"))
        /\ pc[t] = "decide" => (Has(fr, "succeeded") => Has(fr, "delivered"))

DeliveryInv ==
    /\ Apart
    /\ \A r \in Runs : Kept(r)
    /\ \A t \in Terminals : Place(t)

\* A turn that is at work keeps its group, or has a new one.
LEMMA GroupMoves ==
    ASSUME Typed, NEW t \in Terminals, Step(t), turn'[t].run # 0
    PROVE  \/ turn[t].run # 0 /\ turn'[t].group = turn[t].group
           \/ turn[t].run = 0 /\ turn'[t].group = Len(files) + 1
<1> DEFINE l == turn[t]
<1>1. Moves(t) /\ l \in Locals /\ Fits(t)
  BY StepsMove, FileTypes DEF Typed
<1>2. ~Leaves(t) /\ ~Begins(t)
  <2>1. \A s, n, e, k : [Idle EXCEPT !.session = s, !.max = n, !.elsewhere = e,
                                    !.known = k].run = 0
    BY DEF Idle
  <2> QED BY <2>1 DEF Leaves, Begins, Idle
<1>3. CASE Recalls(t)
  <2>1. turn'[t].run = l.run /\ turn'[t].group = l.group
    BY <1>1, <1>3 DEF Recalls, Locals
  <2> QED BY <2>1
<1>4. CASE GoesOn(t)
  <2>1. turn'[t].run = l.run /\ turn'[t].group = l.group
    BY <1>1, <1>4 DEF GoesOn, Locals
  <2> QED BY <2>1
<1>5. CASE Repeats(t)
  <2>1. turn'[t].run = l.run /\ turn'[t].group = l.group
    BY <1>1, <1>5 DEF Repeats, Locals
  <2> QED BY <2>1
<1>6. CASE Start(t)
  <2>1. PICK f \in FileType : NewRun(t, f)
    BY <1>6, StartCreates
  <2>2. turn'[t].group = f.group /\ f.group = IF l.group = 0 THEN Len(files) + 1 ELSE l.group
    BY <2>1, <1>1 DEF NewRun, Locals, Typed
  <2>3. l.run = 0 => l.group = 0
    BY <1>1 DEF Fits
  <2>4. l.run # 0 => l.group # 0
    <3>1. l.run # 0 => l.run \in Runs /\ l.group = files[l.run].group
      BY <1>1 DEF Fits
    <3>2. \A r \in Runs : files[r].group # 0
      BY FileTypes DEF Typed, RunFits
    <3> QED BY <3>1, <3>2
  <2> QED BY <2>2, <2>3, <2>4
<1> QED BY <1>1, <1>2, <1>3, <1>4, <1>5, <1>6 DEF Moves

\* The group of a turn at work is that of a journal.
LEMMA GroupIsOld ==
    ASSUME Typed, NEW t \in Terminals, turn[t].run # 0
    PROVE  turn[t].group \in 1 .. Len(files) /\ turn[t].group # Len(files) + 1
<1>1. turn[t].run \in Runs /\ turn[t].group = files[turn[t].run].group
  BY DEF Typed, Fits
<1>2. files[turn[t].run].group \in 1 .. turn[t].run
  BY <1>1 DEF Typed, RunFits
<1> QED BY <1>1, <1>2, FileTypes

LEMMA StepApart ==
    ASSUME Typed, Apart, NEW t \in Terminals, Step(t)
    PROVE  Apart'
<1>1. OthersStay(t)
  BY StepsMove
<1>2. ASSUME NEW u \in Terminals, u # t, turn'[t].run # 0, turn'[u].run # 0
      PROVE  turn'[t].group # turn'[u].group
  <2>1. turn'[u] = turn[u]
    BY <1>1, <1>2 DEF OthersStay
  <2> QED BY <2>1, <1>2, GroupMoves, GroupIsOld DEF Apart
<1>3. ASSUME NEW u \in Terminals, NEW w \in Terminals, u # w, u # t, w # t,
             turn'[u].run # 0, turn'[w].run # 0
      PROVE  turn'[u].group # turn'[w].group
  <2>1. turn'[u] = turn[u] /\ turn'[w] = turn[w]
    BY <1>1, <1>3 DEF OthersStay
  <2> QED BY <2>1, <1>3 DEF Apart
<1> QED BY <1>2, <1>3 DEF Apart

\* Only the turn at work on a run touches its journal.
LEMMA OtherFiles ==
    ASSUME Typed, NEW t \in Terminals, Step(t), NEW r \in Runs
    PROVE  \/ files'[r] = files[r]
           \/ pc[t] \in Busy /\ r = turn[t].run
<1>1. CASE UNCHANGED files
  BY <1>1
<1>2. CASE Start(t)
  BY <1>2, StartCreates, NewRunKeeps
<1>3. CASE pc[t] \in Busy /\ \E f \in FileType : Amends(turn[t].run, f)
  BY <1>3, AmendKeeps, BusyRun
<1> QED BY <1>1, <1>2, <1>3, StepsAmend DEF StepAmends

LEMMA ShownStays ==
    ASSUME Typed, NEW t \in Terminals, Step(t)
    PROVE  \A r : WasShown(r) => WasShown(r)'
<1>1. CASE UNCHANGED shown
  BY <1>1 DEF WasShown
<1>2. CASE Prints(t)
  <2>1. turn[t].run \in Nat /\ shown \in Seq(Nat)
    BY <1>2, BusyRun, FileTypes DEF Prints, Busy, Typed
  <2>2. /\ shown' \in Seq(Nat) /\ Len(shown') = Len(shown) + 1
        /\ \A j \in 1 .. Len(shown) : shown'[j] = shown[j]
    BY <1>2, <2>1, AppendProperties DEF Prints
  <2>3. Len(shown) \in Nat /\ DOMAIN shown = 1 .. Len(shown) /\ DOMAIN shown' = 1 .. Len(shown')
    BY <2>1, <2>2
  <2> QED BY <2>2, <2>3 DEF WasShown
<1> QED BY <1>1, <1>2, StepsPrint

\* Another turn's place is not disturbed.
LEMMA PlaceStays ==
    ASSUME Typed, Apart, NEW t \in Terminals, Step(t), NEW u \in Terminals, u # t, Place(u)
    PROVE  Place(u)'
<1>1. pc'[u] = pc[u] /\ turn'[u] = turn[u]
  BY StepsMove DEF OthersStay
<1>2. CASE pc[u] \notin Busy
  BY <1>1, <1>2 DEF Place, Busy
<1>3. CASE pc[u] \in Busy
  <2>1. turn[u].run \in Runs /\ turn[u].run # 0
    BY <1>3, BusyRun
  <2>2. pc[t] \in Busy => turn[t].run # turn[u].run
    <3>1. pc[t] \in Busy => turn[t].run # 0
      BY BusyRun
    <3> QED BY <2>1, <3>1 DEF Apart, Typed, Fits
  <2>3. files'[turn[u].run] = files[turn[u].run]
    BY <2>1, <2>2, OtherFiles
  <2>4. WasShown(turn[u].run) => WasShown(turn[u].run)'
    BY <1>1, ShownStays
  <2> QED BY <1>1, <2>3, <2>4 DEF Place
<1> QED BY <1>2, <1>3

-----------------------------------------------------------------------------
\* What the steps of a turn write to the journal of its run.
Silent(t) == \A r \in Runs : files'[r].frames = files[r].frames

Speaks(t) ==
    /\ pc[t] = "running"
    /\ \E name \in Progress \cup Statuses :
          /\ files'[turn[t].run].frames = Append(Frames(t), name)
          /\ RunWrote(Append(Frames(t), name))
          /\ \/ name \in Progress /\ pc'[t] = "running" /\ turn'[t] = turn[t]
             \/ name \in Statuses /\ pc'[t] \in {"report", "idle"} /\ turn'[t].run \in {0, turn[t].run}

Confirms(t) ==
    /\ pc[t] = "receipt" /\ pc'[t] = "index" /\ turn'[t] = turn[t]
    /\ files'[turn[t].run].frames = Append(Frames(t), "delivered")

LEMMA Appended ==
    ASSUME NEW fr \in Seq(FrameNames), NEW name \in FrameNames
    PROVE  /\ Append(fr, name) \in Seq(FrameNames) /\ Len(Append(fr, name)) = Len(fr) + 1
           /\ Len(fr) \in Nat /\ DOMAIN fr = 1 .. Len(fr)
           /\ DOMAIN Append(fr, name) = 1 .. Len(fr) + 1
           /\ Append(fr, name)[Len(fr) + 1] = name
           /\ \A i \in 1 .. Len(fr) : Append(fr, name)[i] = fr[i]
           /\ \A what : Has(Append(fr, name), what) <=> Has(fr, what) \/ what = name
<1>1. /\ Append(fr, name) \in Seq(FrameNames) /\ Len(Append(fr, name)) = Len(fr) + 1
      /\ Append(fr, name)[Len(fr) + 1] = name
      /\ \A i \in 1 .. Len(fr) : Append(fr, name)[i] = fr[i]
  BY AppendProperties
<1>2. Len(fr) \in Nat /\ DOMAIN fr = 1 .. Len(fr) /\ DOMAIN Append(fr, name) = 1 .. Len(fr) + 1
  BY <1>1
<1>3. \A what : Has(Append(fr, name), what) <=> Has(fr, what) \/ what = name
  <2> TAKE what
  <2>1. ASSUME Has(Append(fr, name), what) PROVE Has(fr, what) \/ what = name
    BY <1>1, <1>2, <2>1 DEF Has
  <2>2. ASSUME Has(fr, what) \/ what = name PROVE Has(Append(fr, name), what)
    <3>1. CASE what = name
      <4>1. Len(fr) + 1 \in 1 .. Len(fr) + 1
        BY <1>2
      <4> QED BY <1>1, <1>2, <3>1, <4>1 DEF Has
    <3>2. CASE Has(fr, what)
      BY <1>1, <1>2, <3>2 DEF Has
    <3> QED BY <2>2, <3>1, <3>2
  <2> QED BY <2>1, <2>2
<1> QED BY <1>1, <1>2, <1>3

\* A run that is cut short may still say that it failed.
LEMMA FailureIsSound ==
    ASSUME NEW fr \in Seq(FrameNames), RunWrote(fr), ~Ended(fr), fr # <<>>,
           ~Has(fr, "released")
    PROVE  Sound(Append(fr, "failed"))
<1> DEFINE g == Append(fr, "failed")
           n == Len(fr) + 1
<1>1. "failed" \in FrameNames
  BY DEF FrameNames, Statuses
<1>2. /\ DOMAIN g = 1 .. n /\ g[n] = "failed" /\ Len(g) = n /\ Len(fr) \in Nat
      /\ DOMAIN fr = 1 .. Len(fr)
      /\ \A i \in 1 .. Len(fr) : g[i] = fr[i]
  BY <1>1, Appended
<1>3. Len(fr) > 0
  BY <1>2, EmptySeq
<1>4. ASSUME NEW i \in 1 .. n
      PROVE  \/ i = n /\ g[i] = "failed"
             \/ i \in DOMAIN fr /\ g[i] = fr[i]
  BY <1>2
<1>5. Sound(fr)
  BY DEF RunWrote
<1>6. \A i \in DOMAIN fr : fr[i] \notin Statuses /\ fr[i] # "released"
  BY DEF Ended, Has
<1> HIDE DEF g, n
<1>7. \A i \in 1 .. n : (g[i] = "started") <=> (i = 1)
  BY <1>2, <1>3, <1>4, <1>5 DEF Sound, n
<1>8. \A i \in 1 .. n : g[i] \in Statuses => i = n
  BY <1>4, <1>6
<1>9. \A i \in 1 .. n : g[i] # "released" /\ g[i] # "succeeded"
  BY <1>4, <1>6 DEF Statuses
<1>10. Sound(g)
  BY <1>2, <1>7, <1>8, <1>9 DEF Sound
<1> QED BY <1>10 DEF g

LEMMA StepsWrite ==
    ASSUME Typed, NEW t \in Terminals, Place(t), Step(t)
    PROVE  Silent(t) \/ Speaks(t) \/ Confirms(t)
<1> DEFINE r == turn[t].run
<1>1. ASSUME pc[t] \in Busy, NEW name \in FrameNames, Log(t, name)
      PROVE  files'[r].frames = Append(Frames(t), name)
  <2>1. PICK f \in FileType : Amends(r, f) /\ f.frames = Append(files[r].frames, name)
    BY <1>1, Logs
  <2> QED BY <1>1, <2>1, AmendKeeps, BusyRun
<1>2. ASSUME pc[t] \in Busy, NEW f, files' = [files EXCEPT ![r] = f], f.frames = files[r].frames
      PROVE  Silent(t)
  BY <1>2 DEF Silent, Runs, Typed
<1>3. ASSUME NEW name \in Progress, Journals(t, name) PROVE Speaks(t)
  <2>1. pc[t] \in Busy /\ name \in FrameNames /\ pc[t] = "running" /\ Log(t, name)
    BY <1>3 DEF Journals, Busy, FrameNames
  <2>2. Sound(Append(Frames(t), name)) /\ ~Has(Append(Frames(t), name), "delivered")
    <3>1. name # "delivered"
      BY DEF Progress
    <3> QED BY <1>3, <2>1, <3>1, Appended, BusyRun DEF Journals, Place, RunWrote
  <2> QED BY <1>1, <1>3, <2>1, <2>2 DEF Journals, Speaks, RunWrote
<1>4. ASSUME NEW status \in Statuses, Ends(t, status) PROVE Speaks(t)
  <2>1. pc[t] \in Busy /\ status \in FrameNames /\ pc[t] = "running"
    BY <1>4 DEF Ends, Busy, FrameNames
  <2>2. Sound(Append(Frames(t), status)) /\ ~Has(Append(Frames(t), status), "delivered")
    <3>1. status # "delivered"
      BY DEF Statuses
    <3> QED BY <1>4, <2>1, <3>1, Appended, BusyRun DEF Ends, Place, RunWrote
  <2>3. files'[r].frames = Append(Frames(t), status)
    <3>1. PICK c : files' = [files EXCEPT ![r].frames = Append(@, status), ![r].spent = c]
      BY <1>4 DEF Ends
    <3>2. files[r] \in FileType /\ r \in Runs
      BY <2>1, BusyRun, FileTypes
    <3> QED BY <2>1, <3>1, <3>2, BusyRun DEF FileType, Runs
  <2>4. pc'[t] = "report" /\ turn'[t] = turn[t]
    BY <1>4 DEF Ends, Goto, Typed
  <2> QED BY <2>1, <2>2, <2>3, <2>4 DEF Speaks, RunWrote
<1>5. CASE Errs(t)
  <2>1. pc[t] \in Busy /\ "failed" \in FrameNames /\ pc[t] = "running"
    BY <1>5 DEF Errs, Busy, FrameNames, Statuses
  <2>2. UNCHANGED files => Silent(t)
    BY DEF Silent
  <2>3. ASSUME Log(t, "failed") PROVE Speaks(t)
    <3>1. Sound(Append(Frames(t), "failed"))
      BY <1>5, <2>1, FailureIsSound, BusyRun DEF Errs, Place
    <3>2. ~Has(Append(Frames(t), "failed"), "delivered")
      BY <2>1, Appended, BusyRun DEF Place, RunWrote
    <3>3. pc'[t] = "idle" /\ turn'[t].run = 0
      BY <1>5, Quitting, StepsKeep DEF Errs, Idle
    <3> QED BY <1>1, <2>1, <2>3, <3>1, <3>2, <3>3 DEF Speaks, RunWrote, Statuses
  <2> QED BY <1>5, <2>2, <2>3 DEF Errs
<1>6. CASE Receipt(t)
  <2>1. pc[t] \in Busy /\ "delivered" \in FrameNames /\ pc[t] = "receipt" /\ Log(t, "delivered")
    BY <1>6 DEF Receipt, Busy, FrameNames
  <2>2. pc'[t] = "index" /\ turn'[t] = turn[t]
    BY <1>6 DEF Receipt, Goto, Typed
  <2> QED BY <1>1, <2>1, <2>2 DEF Confirms
<1>7. CASE ReceiptFails(t) \/ Dies(t) \/ Index(t)
  <2>1. \/ UNCHANGED files
        \/ pc[t] \in Busy /\ \E torn \in BOOLEAN : files' = [files EXCEPT ![r].torn = torn]
        \/ pc[t] \in Busy /\ files' = [files EXCEPT ![r].indexed = TRUE]
    BY <1>7 DEF ReceiptFails, Dies, Index, Busy
  <2>2. ASSUME pc[t] \in Busy, NEW torn \in BOOLEAN, files' = [files EXCEPT ![r].torn = torn]
        PROVE  Silent(t)
    <3> DEFINE f == [files[r] EXCEPT !.torn = torn]
    <3>1. f.frames = files[r].frames
      BY <2>2, BusyRun, FileTypes DEF FileType
    <3> QED BY <2>2, <3>1, <1>2
  <2>3. ASSUME pc[t] \in Busy, files' = [files EXCEPT ![r].indexed = TRUE] PROVE Silent(t)
    <3> DEFINE f == [files[r] EXCEPT !.indexed = TRUE]
    <3>1. f.frames = files[r].frames
      BY <2>3, BusyRun, FileTypes DEF FileType
    <3> QED BY <2>3, <3>1, <1>2
  <2> QED BY <2>1, <2>2, <2>3 DEF Silent
<1>8. CASE Start(t)
  BY <1>8, StartCreates, NewRunKeeps DEF Silent
<1>9. ASSUME ~Start(t), \A name \in Progress : ~Journals(t, name),
             \A status \in Statuses : ~Ends(t, status),
             ~Errs(t), ~Receipt(t), ~ReceiptFails(t), ~Dies(t), ~Index(t)
      PROVE  UNCHANGED files
  BY <1>9 DEF Step, Asks, Works, Fails, Ask, List, LookUp, Read, Resume, BudgetIsGone, Show,
              NothingToShow, Retry, Done, GiveUp, OutputFails
<1> QED BY <1>3, <1>4, <1>5, <1>6, <1>7, <1>8, <1>9 DEF Silent

-----------------------------------------------------------------------------
LEMMA GoesUnended ==
    ASSUME NEW fr \in Seq(FrameNames), NEW name \in FrameNames, name \notin Statuses, ~Ended(fr)
    PROVE  ~Ended(Append(fr, name))
<1>1. \A i \in DOMAIN fr : fr[i] \notin Statuses
  BY DEF Ended
<1>2. ASSUME NEW i \in DOMAIN Append(fr, name) PROVE Append(fr, name)[i] \notin Statuses
  <2>1. i \in 1 .. Len(fr) + 1 /\ Len(fr) \in Nat
    BY Appended
  <2>2. CASE i = Len(fr) + 1
    BY <2>2, Appended
  <2>3. CASE i \in 1 .. Len(fr)
    BY <2>3, <1>1, Appended
  <2> QED BY <2>1, <2>2, <2>3
<1> QED BY <1>2 DEF Ended

\* While a turn waits for its run, the journal is what the run wrote.
LEMMA RunWrites ==
    ASSUME Typed, NEW t \in Terminals, Place(t), Step(t), pc[t] = "running"
    PROVE  RunWrote(files'[turn[t].run].frames)
<1>1. turn[t].run \in Runs /\ Frames(t) = files[turn[t].run].frames
  BY BusyRun DEF Busy
<1>2. CASE Silent(t)
  BY <1>1, <1>2 DEF Silent, Place
<1>3. CASE Speaks(t)
  BY <1>1, <1>3 DEF Speaks
<1> QED BY <1>2, <1>3, StepsWrite DEF Confirms

\* A turn that goes on with its run, from one place to the next.
LEMMA PlaceGoesOn ==
    ASSUME Typed, NEW t \in Terminals, Place(t), Step(t), pc[t] \in Busy,
           \/ \E name \in Progress : Journals(t, name)
           \/ \E status \in Statuses : Ends(t, status)
           \/ Show(t) \/ NothingToShow(t) \/ OutputFails(t) \/ Receipt(t) \/ ReceiptFails(t)
           \/ Index(t)
    PROVE  Place(t)'
<1> DEFINE r == turn[t].run
           fr == files[r].frames
<1>1. r \in Runs /\ Frames(t) = fr /\ fr \in Seq(FrameNames) /\ turn[t] \in Locals
  BY BusyRun, FileTypes
<1>2. pc \in [Terminals -> Labels] /\ turn \in [Terminals -> Locals]
  BY DEF Typed
<1>3. ASSUME NEW name \in Progress, Journals(t, name) PROVE Place(t)'
  <2>1. pc[t] = "running" /\ pc' = pc /\ turn' = turn /\ Log(t, name) /\ name \in FrameNames
    BY <1>3 DEF Journals, FrameNames
  <2>2. RunWrote(files'[r].frames)
    BY <2>1, RunWrites
  <2>3. files'[r].frames = Append(fr, name)
    <3>1. PICK f \in FileType : Amends(r, f) /\ f.frames = Append(fr, name)
      BY <2>1, Logs DEF Busy
    <3> QED BY <1>1, <3>1, AmendKeeps
  <2>4. ~Ended(files'[r].frames)
    <3>1. name \notin Statuses
      BY DEF Progress, Statuses
    <3>2. ~Ended(fr)
      BY <2>1 DEF Place
    <3> QED BY <1>1, <2>1, <2>3, <3>1, <3>2, GoesUnended
  <2> QED BY <2>1, <2>2, <2>4 DEF Place
<1>4. ASSUME NEW status \in Statuses, Ends(t, status) PROVE Place(t)'
  <2>1. pc[t] = "running" /\ pc'[t] = "report" /\ turn' = turn
    BY <1>2, <1>4 DEF Ends, Goto
  <2>2. RunWrote(files'[r].frames)
    BY <2>1, RunWrites
  <2> QED BY <2>1, <2>2 DEF Place
<1>5. CASE Show(t)
  <2>1. pc[t] = "report" /\ pc'[t] = "receipt" /\ UNCHANGED <<files, turn>> /\ Has(fr, "succeeded")
    BY <1>1, <1>2, <1>5 DEF Show, Goto, Succeeded
  <2>2. WasShown(r)'
    <3>1. shown' = Append(shown, r) /\ shown \in Seq(Nat) /\ r \in Nat
      BY <1>1, <1>5, FileTypes DEF Show, Typed
    <3>2. shown' \in Seq(Nat) /\ Len(shown') = Len(shown) + 1 /\ shown'[Len(shown) + 1] = r
      BY <3>1, AppendProperties
    <3>3. Len(shown) \in Nat /\ DOMAIN shown' = 1 .. Len(shown) + 1
      BY <3>1, <3>2
    <3>4. turn'[t].run = r
      BY <2>1
    <3>5. Len(shown) + 1 \in DOMAIN shown'
      BY <3>3
    <3> QED BY <3>2, <3>4, <3>5 DEF WasShown
  <2> QED BY <2>1, <2>2 DEF Place
<1>6. CASE NothingToShow(t)
  <2>1. pc'[t] = "index" /\ UNCHANGED <<files, turn>> /\ ~Has(fr, "succeeded")
    BY <1>1, <1>2, <1>6 DEF NothingToShow, Goto, Succeeded
  <2> QED BY <2>1 DEF Place
<1>7. CASE OutputFails(t) \/ ReceiptFails(t)
  <2>1. pc'[t] = "index" /\ turn'[t] = [turn[t] EXCEPT !.failed = TRUE]
    BY <1>2, <1>7 DEF OutputFails, ReceiptFails, Goto, Set
  <2>2. turn'[t].failed
    BY <1>1, <2>1 DEF Locals
  <2> QED BY <2>1, <2>2 DEF Place
<1>8. CASE Receipt(t)
  <2>1. pc'[t] = "index" /\ turn' = turn /\ Log(t, "delivered") /\ "delivered" \in FrameNames
    BY <1>2, <1>8 DEF Receipt, Goto, FrameNames
  <2>2. files'[r].frames = Append(fr, "delivered")
    <3>1. PICK f \in FileType : Amends(r, f) /\ f.frames = Append(fr, "delivered")
      BY <2>1, Logs
    <3> QED BY <1>1, <3>1, AmendKeeps
  <2>3. Has(files'[r].frames, "delivered")
    BY <1>1, <2>1, <2>2, Appended
  <2> QED BY <2>1, <2>3 DEF Place
<1>9. CASE Index(t)
  <2>1. pc[t] = "index" /\ pc'[t] \in {"decide", "idle"}
        /\ (pc'[t] = "decide" => turn' = turn /\ ~turn[t].failed)
    BY <1>2, <1>9 DEF Index, Goto, Quit
  <2>2. files'[r].frames = fr
    <3>1. CASE UNCHANGED files
      BY <3>1
    <3>2. CASE files' = [files EXCEPT ![r].indexed = TRUE]
      <4>1. files[r] \in FileType /\ r \in DOMAIN files
        BY <1>1, FileTypes DEF Runs
      <4> QED BY <3>2, <4>1 DEF FileType
    <3> QED BY <3>1, <3>2, <1>9 DEF Index
  <2> QED BY <2>1, <2>2 DEF Place
<1> QED BY <1>3, <1>4, <1>5, <1>6, <1>7, <1>8, <1>9

LEMMA NothingWritten ==
    RunWrote(<<>>) /\ ~Ended(<<>>)
<1>1. DOMAIN <<>> = {}
  OBVIOUS
<1> QED BY <1>1 DEF RunWrote, Sound, Ended, Has

LEMMA StepPlace ==
    ASSUME Typed, NEW t \in Terminals, Place(t), Step(t)
    PROVE  Place(t)'
<1>1. CASE pc'[t] \notin Busy
  BY <1>1 DEF Place, Busy
<1>2. CASE Start(t)
  <2>1. PICK f \in FileType : NewRun(t, f)
    BY <1>2, StartCreates
  <2>2. files'[Len(files) + 1] = f /\ f.frames = <<>>
    <3>1. files'[Len(files) + 1] = f
      BY <2>1, NewRunKeeps
    <3> QED BY <2>1, <3>1 DEF NewRun
  <2>3. turn'[t].run = Len(files) + 1 /\ pc'[t] = "running"
    BY <2>1, FileTypes DEF NewRun, Locals, Typed
  <2> QED BY <2>2, <2>3, NothingWritten DEF Place
<1>3. CASE /\ pc'[t] \in Busy /\ ~Start(t)
  <2>1. pc[t] \in Busy
    BY <1>3, StepsMove DEF Moves, Leaves, Begins, Recalls, Repeats, GoesOn, Busy, Asking
  <2>2. ~Asks(t) /\ ~List(t) /\ ~LookUp(t) /\ ~Read(t) /\ ~Resume(t) /\ ~BudgetIsGone(t) /\ ~GiveUp(t)
    BY <2>1 DEF Asks, Ask, List, LookUp, Read, Resume, BudgetIsGone, GiveUp, Busy
  <2>3. ~Retry(t) /\ ~Done(t) /\ ~Errs(t) /\ ~Dies(t)
    BY <1>3 DEF Retry, Done, Errs, Dies, Quit, Goto, Typed, Busy
  <2> QED BY <1>3, <2>1, <2>2, <2>3, PlaceGoesOn DEF Step, Works, Fails
<1> QED BY <1>1, <1>2, <1>3

\* The journals stay what the runs wrote, and a receipt where it is due.
LEMMA ConfirmationStays ==
    ASSUME Typed, NEW t \in Terminals, Step(t), NEW r \in Runs, Confirmation(r),
           files'[r].frames = files[r].frames
    PROVE  Confirmation(r)'
<1>1. WasShown(r)'
  BY ShownStays DEF Confirmation
<1> QED BY <1>1 DEF Confirmation

LEMMA StepKept ==
    ASSUME Typed, NEW t \in Terminals, Place(t), Step(t), \A r \in Runs : Kept(r),
           NEW r \in Runs'
    PROVE  Kept(r)'
<1>1. CASE r \notin Runs
  <2>1. Start(t)
    BY <1>1, StepsAmend, AmendKeeps, BusyRun DEF StepAmends, Runs
  <2>2. PICK f \in FileType : NewRun(t, f)
    BY <2>1, StartCreates
  <2>3. Runs' = Runs \cup {Len(files) + 1} /\ files'[Len(files) + 1] = f
    BY <2>2, NewRunKeeps
  <2>4. r = Len(files) + 1
    BY <1>1, <2>3
  <2>5. f.frames = <<>>
    BY <2>2 DEF NewRun
  <2> QED BY <2>3, <2>4, <2>5, NothingWritten DEF Kept
<1>2. CASE r \in Runs /\ files'[r].frames = files[r].frames
  BY <1>2, ConfirmationStays DEF Kept
<1>3. CASE r \in Runs /\ pc[t] \in Busy /\ r = turn[t].run /\ Speaks(t)
  BY <1>3 DEF Kept, Speaks
<1>4. CASE r \in Runs /\ pc[t] \in Busy /\ r = turn[t].run /\ Confirms(t)
  <2>1. RunWrote(files[r].frames) /\ Has(files[r].frames, "succeeded") /\ WasShown(r)
    BY <1>4 DEF Confirms, Place
  <2>2. files'[r].frames = Append(files[r].frames, "delivered")
    BY <1>4, BusyRun DEF Confirms
  <2>3. files[r].frames \in Seq(FrameNames)
    BY <1>4, FileTypes
  <2>4. WasShown(r)'
    BY <2>1, ShownStays
  <2> QED BY <2>1, <2>2, <2>3, <2>4 DEF Kept, Confirmation
<1> QED BY <1>1, <1>2, <1>3, <1>4, OtherFiles, StepsWrite DEF Silent

LEMMA NextDelivery == Typed /\ DeliveryInv /\ [Next]_vars => DeliveryInv'
<1> SUFFICES ASSUME Typed, DeliveryInv, [Next]_vars PROVE DeliveryInv'
  OBVIOUS
<1>1. ASSUME NEW t \in Terminals, Step(t) PROVE DeliveryInv'
  <2>1. Apart'
    BY <1>1, StepApart DEF DeliveryInv
  <2>2. \A r \in Runs' : Kept(r)'
    BY <1>1, StepKept DEF DeliveryInv
  <2>3. ASSUME NEW u \in Terminals PROVE Place(u)'
    BY <1>1, StepPlace, PlaceStays DEF DeliveryInv
  <2> QED BY <2>1, <2>2, <2>3 DEF DeliveryInv
<1>2. CASE UNCHANGED vars
  BY <1>2 DEF vars, DeliveryInv, Apart, Kept, Confirmation, Place, WasShown, Runs
<1> QED BY <1>1, <1>2 DEF Next, Step

LEMMA InitDelivery == Init => DeliveryInv
BY DEF Init, DeliveryInv, Apart, Place, Idle, Runs

LEMMA AlwaysDelivery == Spec => [](Typed /\ DeliveryInv)
<1>1. Init => Typed /\ DeliveryInv
  BY InitTyped, InitDelivery
<1>2. Typed /\ DeliveryInv /\ [Next]_vars => (Typed /\ DeliveryInv)'
  BY NextTyped, NextDelivery
<1> QED BY <1>1, <1>2, PTL DEF Spec

\* What a confirmed journal looks like.
LEMMA ConfirmedLooks ==
    ASSUME Typed, NEW r \in Runs, Confirmation(r)
    PROVE  /\ WasShown(r)
           /\ \A i \in DOMAIN files[r].frames :
                 files[r].frames[i] = "delivered" =>
                     i = Len(files[r].frames) /\ files[r].frames[i - 1] = "succeeded"
           /\ ~Has(files[r].frames, "failed")
<1>1. PICK base \in Seq(FrameNames) :
          /\ RunWrote(base) /\ Has(base, "succeeded")
          /\ files[r].frames = Append(base, "delivered")
  BY DEF Confirmation
<1> DEFINE fr == files[r].frames
           n == Len(base)
<1>2. "delivered" \in FrameNames
  BY DEF FrameNames
<1>3. /\ Len(fr) = n + 1 /\ n \in Nat /\ DOMAIN base = 1 .. n /\ DOMAIN fr = 1 .. n + 1
      /\ fr[n + 1] = "delivered" /\ \A i \in 1 .. n : fr[i] = base[i]
  BY <1>1, <1>2, Appended
<1>4. PICK k \in 1 .. n : base[k] = "succeeded"
  BY <1>1, <1>3 DEF Has
<1>5. k = n
  BY <1>1, <1>3, <1>4 DEF RunWrote, Sound, Statuses
<1>6. \A i \in 1 .. n : base[i] # "delivered"
  BY <1>1, <1>3 DEF RunWrote, Has
<1>7. \A i \in 1 .. n : base[i] # "failed"
  BY <1>1, <1>3, <1>4, <1>5 DEF RunWrote, Sound, Statuses
<1>8. n + 1 - 1 = n
  BY <1>3
<1> HIDE DEF fr, n
<1>9. ASSUME NEW i \in DOMAIN fr, fr[i] = "delivered"
      PROVE  i = Len(fr) /\ fr[i - 1] = "succeeded"
  <2>1. i = n + 1
    BY <1>3, <1>6, <1>9
  <2> QED BY <2>1, <1>3, <1>4, <1>5, <1>8
<1>10. ~Has(fr, "failed")
  <2> SUFFICES ASSUME NEW i \in DOMAIN fr, fr[i] = "failed" PROVE FALSE
    BY DEF Has
  <2>1. i \in 1 .. n \/ i = n + 1
    BY <1>3
  <2> QED BY <2>1, <1>3, <1>7
<1> QED BY <1>9, <1>10 DEF Confirmation, fr

LEMMA DeliveryFollows ==
    ASSUME Typed, DeliveryInv
    PROVE  DeliveryIsTrue
<1>1. ReceiptsAreTrue
  <2> SUFFICES ASSUME NEW r \in Runs, NEW i \in DOMAIN files[r].frames,
                      files[r].frames[i] = "delivered"
               PROVE  /\ i = Len(files[r].frames) /\ files[r].frames[i - 1] = "succeeded"
                      /\ \E j \in DOMAIN shown : shown[j] = r
    BY DEF ReceiptsAreTrue
  <2>1. ~RunWrote(files[r].frames)
    BY DEF RunWrote, Has
  <2>2. Confirmation(r)
    BY <2>1 DEF DeliveryInv, Kept
  <2> QED BY <2>2, ConfirmedLooks DEF WasShown
<1>2. SuccessIsConfirmed
  <2> SUFFICES ASSUME NEW t \in Terminals, pc[t] = "decide", Succeeded(t)
               PROVE  Delivered(Frames(t))
    BY DEF SuccessIsConfirmed
  <2>1. Place(t) /\ Frames(t) = files[turn[t].run].frames
    BY BusyRun DEF DeliveryInv, Busy
  <2> QED BY <2>1 DEF Place, Succeeded, Delivered
<1> QED BY <1>1, <1>2 DEF DeliveryIsTrue

\* Whatever dies between printing an answer, confirming it and indexing the
\* run, and however turns on other terminals interleave: a receipt stands at
\* the end of the journal of a run that succeeded and was printed, and a turn
\* that is about to exit with success has confirmed its answer.
THEOREM DeliveryHolds == Spec => []DeliveryIsTrue
BY AlwaysDelivery, DeliveryFollows, PTL

-----------------------------------------------------------------------------
(* Answers and retries. *)

(***************************************************************************)
(* Inductive strengthening: the attempts of a turn follow each other, and  *)
(* all but the newest failed; the one at work was not printed before; one  *)
(* that is to be retried left a failure signal; only runs that succeeded   *)
(* are printed, and once.                                                  *)
(***************************************************************************)
OnlyNewestMaySucceed ==
    \A r, s \in Runs :
        r < s /\ files[r].group = files[s].group => Has(files[r].frames, "failed")

NewestIsAtWork(t) ==
    turn[t].run # 0 =>
        \A r \in Runs : files[r].group = turn[t].group => r <= turn[t].run

NotShownYet(t) == pc[t] \in {"running", "report"} => ~WasShown(turn[t].run)

ToBeRetried(t) ==
    pc[t] = "ready" /\ turn[t].run # 0 =>
        LET fr == files[turn[t].run].frames IN Has(fr, "failed") /\ Has(fr, "failure")

ShownOnce ==
    /\ \A j \in DOMAIN shown : Has(files[shown[j]].frames, "succeeded")
    /\ \A i, j \in DOMAIN shown : shown[i] = shown[j] => i = j

AnswerInv ==
    /\ OnlyNewestMaySucceed /\ ShownOnce
    /\ \A t \in Terminals : NewestIsAtWork(t) /\ NotShownYet(t) /\ ToBeRetried(t)

LEMMA HasStays ==
    ASSUME Typed, NEW t \in Terminals, Step(t), NEW r \in Runs, NEW what,
           Has(files[r].frames, what)
    PROVE  Has(files'[r].frames, what)
BY StepsKeep DEF FilesKeep, Has

\* Where a turn at work comes from.
LEMMA ComesFrom ==
    ASSUME Typed, NEW t \in Terminals, Step(t)
    PROVE  /\ turn'[t].run # 0 =>
                 \/ Start(t)
                 \/ turn[t].run # 0 /\ turn'[t].run = turn[t].run
                    /\ turn'[t].group = turn[t].group
           /\ pc'[t] = "ready" /\ turn'[t].run # 0 => Repeats(t)
<1> DEFINE l == turn[t]
<1>1. Moves(t) /\ l \in Locals /\ Fits(t)
  BY StepsMove, FileTypes DEF Typed
<1>2. CASE Leaves(t) \/ Begins(t)
  <2>1. \A s, n, e, k : [Idle EXCEPT !.session = s, !.max = n, !.elsewhere = e,
                                    !.known = k].run = 0
    BY DEF Idle
  <2>2. turn'[t].run = 0
    BY <1>2, <2>1 DEF Leaves, Begins, Idle
  <2> QED BY <2>2
<1>3. CASE Recalls(t)
  <2>1. turn'[t].run = l.run
    BY <1>1, <1>3 DEF Recalls, Locals
  <2>2. l.run = 0
    BY <1>1, <1>3 DEF Recalls, Fits, Asking, Busy
  <2> QED BY <2>1, <2>2
<1>4. CASE GoesOn(t)
  <2>1. turn'[t].run = l.run /\ turn'[t].group = l.group /\ pc'[t] # "ready" /\ pc[t] \in Busy
    BY <1>1, <1>4 DEF GoesOn, Locals, Busy
  <2> QED BY <2>1, BusyRun
<1>5. CASE Repeats(t)
  <2>1. turn'[t].run = l.run /\ turn'[t].group = l.group /\ pc[t] \in Busy
    BY <1>1, <1>5 DEF Repeats, Locals, Busy
  <2> QED BY <2>1, <1>5, BusyRun
<1>6. CASE Start(t)
  <2>1. pc'[t] = "running"
    BY <1>6 DEF Start, Goto, Typed
  <2> QED BY <2>1, <1>6
<1> QED BY <1>1, <1>2, <1>3, <1>4, <1>5, <1>6 DEF Moves

\* A run that is at work, or reported, was at work before, or is new.
LEMMA RunningComesFrom ==
    ASSUME Typed, NEW t \in Terminals, Step(t), pc'[t] \in {"running", "report"}, ~Start(t)
    PROVE  pc[t] = "running" /\ turn' = turn /\ UNCHANGED shown
<1>1. \/ \E name \in Progress : Journals(t, name)
      \/ \E status \in Statuses : Ends(t, status)
  <2>1. ~Quit(t)
    BY DEF Quit, Goto, Typed
  <2>2. \A to \in {"listing", "lookup", "reading", "ready", "receipt", "index", "decide"} :
            ~Goto(t, to)
    BY DEF Goto, Typed
  <2>3. ~(UNCHANGED pc /\ pc[t] \notin {"running", "report"})
    OBVIOUS
  <2>4. ~Asks(t)
    BY AskBegins DEF Begins
  <2>5. ~List(t) /\ ~LookUp(t) /\ ~Read(t) /\ ~Resume(t)
    BY <2>1, <2>2, <2>3 DEF List, LookUp, Read, Resume
  <2>6. ~Show(t) /\ ~NothingToShow(t) /\ ~OutputFails(t) /\ ~Receipt(t) /\ ~ReceiptFails(t)
        /\ ~Retry(t)
    BY <2>2 DEF Show, NothingToShow, OutputFails, Receipt, ReceiptFails, Retry
  <2>7. ~Index(t)
    BY <2>1, <2>2 DEF Index
  <2>8. ~BudgetIsGone(t) /\ ~Done(t) /\ ~GiveUp(t) /\ ~Errs(t) /\ ~Dies(t)
    BY <2>1 DEF BudgetIsGone, Done, GiveUp, Errs, Dies
  <2> QED BY <2>4, <2>5, <2>6, <2>7, <2>8 DEF Step, Works, Fails
<1> QED BY <1>1 DEF Journals, Ends

\* A new run carries on the newest attempt of its turn, or begins a turn.
LEMMA NewRunOf ==
    ASSUME Typed, NEW t \in Terminals, NEW f \in FileType, NewRun(t, f)
    PROVE  \/ /\ turn[t].run # 0 /\ f.group = turn[t].group
              /\ files[turn[t].run].group = f.group
           \/ turn[t].run = 0 /\ f.group = Len(files) + 1
<1>1. Fits(t) /\ f.group = IF turn[t].group = 0 THEN Len(files) + 1 ELSE turn[t].group
  BY DEF NewRun, Typed
<1>2. CASE turn[t].run = 0
  BY <1>1, <1>2 DEF Fits
<1>3. CASE turn[t].run # 0
  <2>1. turn[t].group # 0
    BY <1>3, GroupIsOld
  <2> QED BY <1>1, <1>3, <2>1 DEF Fits
<1> QED BY <1>2, <1>3

LEMMA StepNewest ==
    ASSUME Typed, AnswerInv, NEW t \in Terminals, Step(t)
    PROVE  OnlyNewestMaySucceed'
<1> SUFFICES ASSUME NEW r \in Runs', NEW s \in Runs', r < s, files'[r].group = files'[s].group
             PROVE  Has(files'[r].frames, "failed")
  BY DEF OnlyNewestMaySucceed
<1>1. CASE s \in Runs
  <2>1. r \in Runs
    BY <1>1, StepsKeep, FileTypes DEF FilesKeep, Runs
  <2>2. files[r].group = files[s].group
    BY <1>1, <2>1, StepsKeep DEF FilesKeep, Same
  <2>3. Has(files[r].frames, "failed")
    BY <1>1, <2>1, <2>2 DEF AnswerInv, OnlyNewestMaySucceed
  <2> QED BY <2>1, <2>3, HasStays
<1>2. CASE s \notin Runs
  <2>1. Start(t)
    BY <1>2, StepsAmend, AmendKeeps, BusyRun DEF StepAmends, Runs
  <2>2. PICK f \in FileType : NewRun(t, f)
    BY <2>1, StartCreates
  <2>3. s = Len(files) + 1 /\ files'[s] = f /\ r \in Runs /\ files'[r] = files[r]
    BY <1>2, <2>2, NewRunKeeps, FileTypes
  <2>4. turn[t].run # 0 /\ files[r].group = turn[t].group
    <3>1. files[r].group # Len(files) + 1
      BY <2>3, FileTypes DEF Typed, RunFits
    <3> QED BY <2>2, <2>3, <3>1, NewRunOf
  <2>5. r <= turn[t].run /\ pc[t] = "ready" /\ turn[t].run \in Runs
    BY <2>1, <2>3, <2>4 DEF AnswerInv, NewestIsAtWork, Start, Typed, Fits
  <2>6. CASE r = turn[t].run
    BY <2>3, <2>5, <2>6, <2>4 DEF AnswerInv, ToBeRetried
  <2>7. CASE r < turn[t].run
    <3>1. files[r].group = files[turn[t].run].group
      BY <2>4 DEF Typed, Fits
    <3> QED BY <2>3, <2>5, <2>7, <3>1 DEF AnswerInv, OnlyNewestMaySucceed
  <2> QED BY <2>3, <2>5, <2>6, <2>7, FileTypes
<1> QED BY <1>1, <1>2

LEMMA StepAtWork ==
    ASSUME Typed, Apart, AnswerInv, NEW t \in Terminals, Step(t), NEW u \in Terminals
    PROVE  NewestIsAtWork(u)'
<1> SUFFICES ASSUME turn'[u].run # 0, NEW r \in Runs', files'[r].group = turn'[u].group
             PROVE  r <= turn'[u].run
  BY DEF NewestIsAtWork
<1>1. CASE u = t /\ Start(t)
  <2>1. PICK f \in FileType : NewRun(t, f)
    BY <1>1, StartCreates
  <2>2. turn'[t].run = Len(files) + 1
    BY <2>1, FileTypes DEF NewRun, Locals, Typed
  <2> QED BY <1>1, <2>1, <2>2, NewRunKeeps, FileTypes
<1>2. CASE ~(u = t /\ Start(t))
  <2>1. turn[u].run # 0 /\ turn'[u].run = turn[u].run /\ turn'[u].group = turn[u].group
    <3>1. CASE u = t
      BY <1>2, <3>1, ComesFrom
    <3>2. CASE u # t
      BY <3>2, StepsMove DEF OthersStay
    <3> QED BY <3>1, <3>2
  <2>2. CASE r \in Runs
    <3>1. files[r].group = turn[u].group
      BY <2>1, <2>2, StepsKeep DEF FilesKeep, Same
    <3> QED BY <2>1, <2>2, <3>1 DEF AnswerInv, NewestIsAtWork
  <2>3. CASE r \notin Runs
    <3>1. Start(t) /\ u # t
      BY <1>2, <2>3, StepsAmend, AmendKeeps, BusyRun DEF StepAmends, Runs
    <3>2. PICK f \in FileType : NewRun(t, f)
      BY <3>1, StartCreates
    <3>3. files'[r] = f
      BY <2>3, <3>2, NewRunKeeps
    <3>4. turn[t].run # 0 /\ turn[u].group = turn[t].group
      BY <2>1, <3>2, <3>3, NewRunOf, GroupIsOld
    <3> QED BY <3>1, <3>4, <2>1 DEF Apart
  <2> QED BY <2>2, <2>3
<1> QED BY <1>1, <1>2

\* Prints show a run that another turn is not at work on.
LEMMA WasShownBefore ==
    ASSUME Typed, NEW t \in Terminals, Step(t), NEW r, WasShown(r)'
    PROVE  WasShown(r) \/ (Prints(t) /\ r = turn[t].run)
<1>1. CASE UNCHANGED shown
  BY <1>1 DEF WasShown
<1>2. CASE Prints(t)
  <2>1. turn[t].run \in Nat /\ shown \in Seq(Nat) /\ shown' = Append(shown, turn[t].run)
    BY <1>2, BusyRun, FileTypes DEF Prints, Busy, Typed
  <2>2. /\ shown' \in Seq(Nat) /\ Len(shown') = Len(shown) + 1
        /\ shown'[Len(shown) + 1] = turn[t].run
        /\ \A j \in 1 .. Len(shown) : shown'[j] = shown[j]
    BY <2>1, AppendProperties
  <2>3. Len(shown) \in Nat /\ DOMAIN shown = 1 .. Len(shown) /\ DOMAIN shown' = 1 .. Len(shown) + 1
    BY <2>1, <2>2
  <2>4. PICK j \in DOMAIN shown' : shown'[j] = r
    BY DEF WasShown
  <2>5. CASE j \in 1 .. Len(shown)
    BY <2>2, <2>3, <2>4, <2>5 DEF WasShown
  <2>6. CASE j = Len(shown) + 1
    BY <1>2, <2>2, <2>4, <2>6
  <2> QED BY <2>3, <2>5, <2>6
<1> QED BY <1>1, <1>2, StepsPrint

LEMMA StepNotShown ==
    ASSUME Typed, Apart, AnswerInv, NEW t \in Terminals, Step(t), NEW u \in Terminals
    PROVE  NotShownYet(u)'
<1> SUFFICES ASSUME pc'[u] \in {"running", "report"},
                    \E j \in DOMAIN shown' : shown'[j] = turn'[u].run
             PROVE  FALSE
  BY DEF NotShownYet, WasShown
<1>1. CASE u = t /\ Start(t)
  <2>1. PICK f \in FileType : NewRun(t, f)
    BY <1>1, StartCreates
  <2>2. turn'[t].run = Len(files) + 1 /\ UNCHANGED shown
    BY <1>1, <2>1, FileTypes DEF NewRun, Locals, Typed, Start
  <2>3. PICK j \in DOMAIN shown : shown[j] = Len(files) + 1
    BY <1>1, <2>2
  <2> QED BY <2>3, FileTypes DEF Typed
<1>2. CASE u = t /\ ~Start(t)
  BY <1>2, RunningComesFrom DEF AnswerInv, NotShownYet, WasShown
<1>3. CASE u # t
  <2>1. pc'[u] = pc[u] /\ turn'[u] = turn[u]
    BY <1>3, StepsMove DEF OthersStay
  <2>2. ~WasShown(turn[u].run)
    BY <2>1 DEF AnswerInv, NotShownYet
  <2>3. Prints(t) /\ turn[u].run = turn[t].run
    <3> DEFINE r == turn[u].run
    <3>1. PICK x : x = r
      OBVIOUS
    <3>2. WasShown(x)'
      BY <2>1, <3>1 DEF WasShown
    <3>3. ~WasShown(x)
      BY <2>2, <3>1
    <3>4. Prints(t) /\ x = turn[t].run
      BY <3>2, <3>3, WasShownBefore
    <3> QED BY <3>1, <3>4
  <2>4. turn[u].run # 0 /\ turn[t].run # 0
    BY <2>1, <2>3, BusyRun DEF Prints, Busy
  <2> QED BY <1>3, <2>3, <2>4 DEF Apart, Typed, Fits
<1> QED BY <1>1, <1>2, <1>3

LEMMA StepToBeRetried ==
    ASSUME Typed, AnswerInv, NEW t \in Terminals, Step(t), NEW u \in Terminals
    PROVE  ToBeRetried(u)'
<1> SUFFICES ASSUME pc'[u] = "ready", turn'[u].run # 0
             PROVE  /\ Has(files'[turn'[u].run].frames, "failed")
                    /\ Has(files'[turn'[u].run].frames, "failure")
  BY DEF ToBeRetried
<1>1. CASE u = t
  <2>1. Repeats(t)
    BY <1>1, ComesFrom
  <2>2. turn'[t].run = turn[t].run /\ UNCHANGED files /\ pc[t] \in Busy
    BY <2>1, FileTypes DEF Repeats, Locals, Busy
  <2> QED BY <1>1, <2>1, <2>2, BusyRun DEF Repeats
<1>2. CASE u # t
  <2>1. pc'[u] = pc[u] /\ turn'[u] = turn[u]
    BY <1>2, StepsMove DEF OthersStay
  <2>2. turn[u].run \in Runs
    BY <2>1 DEF Typed, Fits
  <2>3. Has(files[turn[u].run].frames, "failed") /\ Has(files[turn[u].run].frames, "failure")
    BY <2>1 DEF AnswerInv, ToBeRetried
  <2> QED BY <2>1, <2>2, <2>3, HasStays
<1> QED BY <1>1, <1>2

LEMMA StepShownOnce ==
    ASSUME Typed, AnswerInv, NEW t \in Terminals, Step(t)
    PROVE  ShownOnce'
<1>1. \A j \in DOMAIN shown : shown[j] \in Runs
  BY DEF Typed
<1>2. \A j \in DOMAIN shown : Has(files'[shown[j]].frames, "succeeded")
  BY <1>1, HasStays DEF AnswerInv, ShownOnce
<1>3. CASE UNCHANGED shown
  BY <1>2, <1>3 DEF AnswerInv, ShownOnce
<1>4. CASE Prints(t)
  <2> DEFINE r == turn[t].run
             n == Len(shown) + 1
  <2>1. r \in Runs /\ r \in Nat /\ shown \in Seq(Nat) /\ shown' = Append(shown, r)
        /\ Has(files[r].frames, "succeeded")
    BY <1>4, BusyRun, FileTypes DEF Prints, Busy, Typed, Deliverable
  <2>2. /\ shown' \in Seq(Nat) /\ Len(shown') = n /\ shown'[n] = r
        /\ \A j \in 1 .. Len(shown) : shown'[j] = shown[j]
    BY <2>1, AppendProperties
  <2>3. n \in Nat /\ Len(shown) \in Nat /\ DOMAIN shown = 1 .. Len(shown) /\ DOMAIN shown' = 1 .. n
    BY <2>1, <2>2
  <2>4. ASSUME NEW j \in DOMAIN shown' PROVE j = n \/ j \in DOMAIN shown
    BY <2>3
  <2>5. \A j \in DOMAIN shown : shown[j] # r
    BY <1>4 DEF Prints, AnswerInv, NotShownYet, WasShown
  <2>6. Has(files'[r].frames, "succeeded")
    BY <2>1, HasStays
  <2> HIDE DEF n, r
  <2>7. \A j \in DOMAIN shown' : Has(files'[shown'[j]].frames, "succeeded")
    BY <1>2, <2>2, <2>3, <2>4, <2>6
  <2>8. \A i, j \in DOMAIN shown' : shown'[i] = shown'[j] => i = j
    BY <2>2, <2>3, <2>4, <2>5 DEF AnswerInv, ShownOnce
  <2> QED BY <2>7, <2>8 DEF ShownOnce
<1> QED BY <1>3, <1>4, StepsPrint

LEMMA NextAnswer == Typed /\ Apart /\ AnswerInv /\ [Next]_vars => AnswerInv'
<1> SUFFICES ASSUME Typed, Apart, AnswerInv, [Next]_vars PROVE AnswerInv'
  OBVIOUS
<1>1. ASSUME NEW t \in Terminals, Step(t) PROVE AnswerInv'
  BY <1>1, StepNewest, StepShownOnce, StepAtWork, StepNotShown, StepToBeRetried DEF AnswerInv
<1>2. CASE UNCHANGED vars
  BY <1>2 DEF vars, AnswerInv, OnlyNewestMaySucceed, ShownOnce, NewestIsAtWork, NotShownYet,
              ToBeRetried, WasShown, Runs
<1> QED BY <1>1, <1>2 DEF Next, Step

LEMMA InitAnswer == Init => AnswerInv
BY DEF Init, AnswerInv, OnlyNewestMaySucceed, ShownOnce, NewestIsAtWork, NotShownYet,
       ToBeRetried, Idle, Runs

LEMMA AlwaysAnswer == Spec => [](Typed /\ DeliveryInv /\ AnswerInv)
<1>1. Init => AnswerInv
  BY InitAnswer
<1>2. Typed /\ DeliveryInv /\ AnswerInv /\ [Next]_vars => AnswerInv'
  BY NextAnswer DEF DeliveryInv
<1> QED BY <1>1, <1>2, AlwaysDelivery, PTL DEF Spec

\* A run that was printed did not fail.
LEMMA NotBoth ==
    ASSUME Typed, DeliveryInv, NEW r \in Runs,
           Has(files[r].frames, "succeeded")
    PROVE  ~Has(files[r].frames, "failed")
<1>1. CASE RunWrote(files[r].frames)
  BY <1>1 DEF RunWrote, Sound, Has, Statuses
<1>2. CASE Confirmation(r)
  BY <1>2, ConfirmedLooks
<1> QED BY <1>1, <1>2 DEF DeliveryInv, Kept

LEMMA AnswerFollows ==
    ASSUME Typed, DeliveryInv, AnswerInv
    PROVE  OneAnswerPerTurn
<1> SUFFICES ASSUME NEW i \in DOMAIN shown, NEW j \in DOMAIN shown,
                    files[shown[i]].group = files[shown[j]].group
             PROVE  i = j
  BY DEF OneAnswerPerTurn
<1>1. shown[i] \in Runs /\ shown[j] \in Runs /\ shown[i] \in Nat /\ shown[j] \in Nat
  BY FileTypes DEF Typed
<1>2. ~Has(files[shown[i]].frames, "failed") /\ ~Has(files[shown[j]].frames, "failed")
  BY <1>1, NotBoth DEF AnswerInv, ShownOnce
<1>3. ~(shown[i] < shown[j]) /\ ~(shown[j] < shown[i])
  BY <1>1, <1>2 DEF AnswerInv, OnlyNewestMaySucceed
<1>4. shown[i] = shown[j]
  BY <1>1, <1>3
<1> QED BY <1>4 DEF AnswerInv, ShownOnce

\* However many attempts a turn takes, whenever its process dies and whatever
\* other terminals do, at most one answer of it is printed, once.
THEOREM OneAnswer == Spec => []OneAnswerPerTurn
BY AlwaysAnswer, AnswerFollows, PTL

\* What a retry is of is settled when its journal is created.
LEMMA NextLinked ==
    Typed /\ AnswerInv /\ RetriesAreLinked /\ [Next]_vars => RetriesAreLinked'
<1> SUFFICES ASSUME Typed, AnswerInv, RetriesAreLinked, [Next]_vars PROVE RetriesAreLinked'
  OBVIOUS
<1>1. ASSUME NEW t \in Terminals, Step(t) PROVE RetriesAreLinked'
  <2> SUFFICES ASSUME NEW r \in Runs', files'[r].attempt > 1
               PROVE  LET f == files'[r]
                          p == files'[f.retryOf]
                      IN  /\ f.retryOf \in Runs' /\ f.feedback = f.retryOf
                          /\ p.group = f.group /\ p.session = f.session
                          /\ p.attempt = f.attempt - 1
                          /\ Has(p.frames, "failure") /\ Has(p.frames, "failed")
    BY DEF RetriesAreLinked
  <2>1. FilesKeep /\ Runs \subseteq Runs'
    BY <1>1, StepsKeep
  <2>2. CASE r \in Runs
    <3>1. Same(files'[r], files[r])
      BY <2>1, <2>2 DEF FilesKeep
    <3> DEFINE q == files[r].retryOf
    <3>2. /\ q \in Runs /\ files[r].feedback = q
          /\ files[q].group = files[r].group /\ files[q].session = files[r].session
          /\ files[q].attempt = files[r].attempt - 1
          /\ Has(files[q].frames, "failure") /\ Has(files[q].frames, "failed")
      BY <2>2, <3>1 DEF RetriesAreLinked, Same
    <3>3. Same(files'[q], files[q]) /\ q \in Runs'
      BY <2>1, <3>2 DEF FilesKeep
    <3>4. Has(files'[q].frames, "failure") /\ Has(files'[q].frames, "failed")
      BY <1>1, <3>2, HasStays
    <3> QED BY <3>1, <3>2, <3>3, <3>4 DEF Same
  <2>3. CASE r \notin Runs
    <3>1. Start(t)
      BY <1>1, <2>3, StepsAmend, AmendKeeps, BusyRun DEF StepAmends, Runs
    <3>2. PICK f \in FileType : NewRun(t, f)
      BY <3>1, StartCreates
    <3> DEFINE l == turn[t]
               q == l.run
    <3>3. files'[r] = f /\ \A s \in Runs : files'[s] = files[s]
      BY <2>3, <3>2, NewRunKeeps
    <3>4. l \in Locals /\ Fits(t) /\ pc[t] = "ready"
      BY <3>1, FileTypes DEF Typed, Start
    <3>5. l.attempt \in Nat /\ f.attempt = l.attempt + 1 /\ f.retryOf = l.prior
          /\ f.feedback = l.feedback
      BY <3>2, <3>4 DEF NewRun, Locals
    <3>6. q # 0
      BY <2>3, <3>3, <3>4, <3>5 DEF Fits
    <3>7. /\ q \in Runs /\ l.session = files[q].session /\ l.group = files[q].group
          /\ l.attempt = files[q].attempt /\ l.prior = q /\ l.feedback = q
      BY <3>4, <3>6 DEF Fits
    <3>8. f.group = files[q].group
      BY <3>2, <3>6, NewRunOf
    <3>9. f.session = files[q].session
      <4>1. files[q].session # 0
        BY <3>7, FileTypes DEF Typed, RunFits
      <4> QED BY <3>2, <3>7, <4>1 DEF NewRun
    <3>10. Has(files[q].frames, "failure") /\ Has(files[q].frames, "failed")
      BY <3>4, <3>6 DEF AnswerInv, ToBeRetried
    <3> HIDE DEF q, l
    <3>11. f.attempt - 1 = files[q].attempt
      BY <3>5, <3>7
    <3> QED BY <2>1, <3>3, <3>5, <3>7, <3>8, <3>9, <3>10, <3>11
  <2> QED BY <2>2, <2>3
<1>2. CASE UNCHANGED vars
  BY <1>2 DEF vars, RetriesAreLinked, Runs
<1> QED BY <1>1, <1>2 DEF Next, Step

\* However turns interleave, a retry follows the attempt just before it, in the
\* same turn and session, which failed, and repairs that attempt's own failure
\* signal.
THEOREM Retrials == Spec => []RetriesAreLinked
<1>1. Init => RetriesAreLinked
  BY DEF Init, RetriesAreLinked, Runs
<1> QED BY <1>1, NextLinked, AlwaysAnswer, PTL DEF Spec

-----------------------------------------------------------------------------
(* Context. *)

(***************************************************************************)
(* Inductive strengthening: what a turn has collected as context belongs   *)
(* to its session and to other turns, and was printed.                     *)
(***************************************************************************)
ContextOf(t) ==
    \A c \in turn[t].context :
        /\ c \in Runs /\ turn[t].session # 0
        /\ files[c].session = turn[t].session /\ files[c].group # turn[t].group
        /\ WasShown(c)

ContextInv == ContextWasShown /\ \A t \in Terminals : ContextOf(t)

\* A turn recalls its session's history in these steps.
LEMMA RecallsBy ==
    ASSUME Typed, NEW t \in Terminals, Step(t), Recalls(t)
    PROVE  ~Quit(t) /\ (List(t) \/ LookUp(t) \/ Read(t) \/ Resume(t))
<1>1. ~Quit(t)
  BY DEF Quit, Goto, Recalls, Asking, Typed
<1>2. ~Asks(t) /\ ~Start(t) /\ ~Retry(t)
  BY DEF Asks, Ask, Start, Retry, Recalls, Asking
<1>3. pc[t] \notin Busy
  BY DEF Recalls, Asking, Busy
<1>4. /\ \A name \in Progress : ~Journals(t, name)
      /\ \A status \in Statuses : ~Ends(t, status)
      /\ ~Show(t) /\ ~NothingToShow(t) /\ ~Receipt(t) /\ ~Index(t)
      /\ ~OutputFails(t) /\ ~ReceiptFails(t)
  BY <1>3 DEF Journals, Ends, Show, NothingToShow, Receipt, Index, OutputFails,
              ReceiptFails, Busy
<1>5. ~BudgetIsGone(t) /\ ~Done(t) /\ ~GiveUp(t) /\ ~Errs(t) /\ ~Dies(t)
  BY <1>1 DEF BudgetIsGone, Done, GiveUp, Errs, Dies
<1> QED BY <1>1, <1>2, <1>4, <1>5 DEF Step, Works, Fails

\* How a turn's context comes about.
LEMMA ContextGrows ==
    ASSUME Typed, NEW t \in Terminals, Step(t), NEW c \in turn'[t].context
    PROVE  \/ c \in turn[t].context /\ Start(t)
           \/ /\ c \in turn[t].context
              /\ turn'[t].session = turn[t].session /\ turn'[t].group = turn[t].group
           \/ /\ c \in Runs /\ Confirmed(files[c]) /\ pc[t] \in Asking
              /\ files[c].session = turn[t].session
              /\ turn'[t].session = turn[t].session /\ turn'[t].group = turn[t].group
              /\ UNCHANGED files
<1> DEFINE l == turn[t]
<1>1. Moves(t) /\ l \in Locals /\ Fits(t)
  BY StepsMove, FileTypes DEF Typed
<1>2. CASE Leaves(t) \/ Begins(t)
  <2>1. \A s, n, e, k : [Idle EXCEPT !.session = s, !.max = n, !.elsewhere = e,
                                    !.known = k].context = {}
    BY DEF Idle
  <2>2. turn'[t].context = {}
    BY <1>2, <2>1 DEF Leaves, Begins, Idle
  <2> QED BY <2>2
<1>3. CASE GoesOn(t)
  <2>1. turn'[t].context = l.context /\ turn'[t].session = l.session /\ turn'[t].group = l.group
    BY <1>1, <1>3 DEF GoesOn, Locals
  <2> QED BY <2>1
<1>4. CASE Repeats(t)
  <2>1. turn'[t].context = l.context /\ turn'[t].session = l.session /\ turn'[t].group = l.group
    BY <1>1, <1>4 DEF Repeats, Locals
  <2> QED BY <2>1
<1>5. CASE Start(t)
  <2>1. PICK f \in FileType : NewRun(t, f)
    BY <1>5, StartCreates
  <2>2. turn'[t].context = l.context
    BY <1>1, <2>1 DEF NewRun, Locals, Typed
  <2> QED BY <2>2, <1>5
<1>6. CASE Recalls(t)
  <2>1. turn'[t].session = l.session /\ turn'[t].group = l.group /\ UNCHANGED files
        /\ pc[t] \in Asking
    BY <1>1, <1>6 DEF Recalls, Locals
  <2>2. CASE turn'[t].context = l.context
    BY <2>1, <2>2
  <2>3. CASE Read(t) /\ ~Quit(t)
    <3> DEFINE r == Min(turn[t].todo)
               f == files[r]
               mine == f.session = turn[t].session /\ ~Unreadable(f)
    <3>1. r \in Runs
      BY <1>1, <2>3, LeastRun DEF Read, Locals
    <3>2. Set(t, [l EXCEPT !.todo = @ \ {r},
                           !.found = IF mine THEN @ \cup {r} ELSE @,
                           !.context = IF mine /\ Confirmed(f) THEN @ \cup {r} ELSE @])
      BY <2>3 DEF Read
    <3>3. turn'[t].context = IF mine /\ Confirmed(f) THEN l.context \cup {r} ELSE l.context
      BY <1>1, <3>2 DEF Set, Locals, Typed
    <3> QED BY <2>1, <3>1, <3>3
  <2>4. CASE ~(Read(t) /\ ~Quit(t))
    <3>1. ~Quit(t)
      BY <1>6 DEF Quit, Goto, Recalls, Asking, Typed
    <3>6. List(t) \/ LookUp(t) \/ Resume(t)
      BY <1>6, <2>4, <3>1, RecallsBy
    <3>7. turn'[t].context = l.context
      BY <1>1, <3>1, <3>6 DEF List, LookUp, Resume, Set, Locals, Typed
    <3> QED BY <2>1, <3>7
  <2> QED BY <2>3, <2>4
<1> QED BY <1>1, <1>2, <1>3, <1>4, <1>5, <1>6 DEF Moves

\* Only answers that were printed are confirmed.
LEMMA ConfirmedWasShown ==
    ASSUME DeliveryInv, NEW r \in Runs, Confirmed(files[r])
    PROVE  WasShown(r)
BY DEF DeliveryInv, Kept, Confirmation, RunWrote, Confirmed, Delivered

LEMMA StepContextOf ==
    ASSUME Typed, DeliveryInv, ContextInv, NEW t \in Terminals, Step(t), NEW u \in Terminals
    PROVE  ContextOf(u)'
<1> SUFFICES ASSUME NEW c \in turn'[u].context
             PROVE  /\ c \in Runs' /\ turn'[u].session # 0
                    /\ files'[c].session = turn'[u].session
                    /\ files'[c].group # turn'[u].group
                    /\ WasShown(c)'
  BY DEF ContextOf
<1>1. \A r \in Runs : r \in Runs' /\ Same(files'[r], files[r])
  BY StepsKeep DEF FilesKeep
<1>2. ASSUME c \in turn[u].context, turn'[u].session = turn[u].session,
             turn'[u].group = turn[u].group
      PROVE  /\ c \in Runs' /\ turn'[u].session # 0
             /\ files'[c].session = turn'[u].session
             /\ files'[c].group # turn'[u].group
             /\ WasShown(c)'
  BY <1>1, <1>2, ShownStays DEF ContextInv, ContextOf, Same
<1>3. CASE u # t
  BY <1>2, <1>3, StepsMove DEF OthersStay
<1>4. CASE u = t /\ Start(t) /\ c \in turn[t].context
  <2>1. PICK f \in FileType : NewRun(t, f)
    BY <1>4, StartCreates
  <2>2. turn'[t].session = f.session /\ turn'[t].group = f.group
    BY <2>1, FileTypes DEF NewRun, Locals, Typed
  <2>3. /\ c \in Runs /\ turn[t].session # 0 /\ files[c].session = turn[t].session
        /\ files[c].group # turn[t].group /\ WasShown(c)
    BY <1>4 DEF ContextInv, ContextOf
  <2>4. f.session = turn[t].session
    BY <2>1, <2>3 DEF NewRun
  <2>5. files[c].group # Len(files) + 1
    BY <2>3, FileTypes DEF Typed, RunFits
  <2>6. files[c].group # f.group
    BY <2>1, <2>3, <2>5, NewRunOf
  <2> QED BY <1>1, <1>4, <2>2, <2>3, <2>4, <2>6, ShownStays DEF Same
<1>5. CASE /\ u = t /\ c \in Runs /\ Confirmed(files[c]) /\ pc[t] \in Asking
           /\ files[c].session = turn[t].session
           /\ turn'[t].session = turn[t].session /\ turn'[t].group = turn[t].group
           /\ UNCHANGED files
  <2>1. turn[t].session # 0 /\ turn[t].group = 0
    BY <1>5 DEF Typed, Fits, Asking, Busy
  <2>2. files[c].group # 0
    BY <1>5, FileTypes DEF Typed, RunFits
  <2>3. WasShown(c)
    BY <1>5, ConfirmedWasShown
  <2> QED BY <1>1, <1>5, <2>1, <2>2, <2>3, ShownStays DEF Same
<1> QED BY <1>2, <1>3, <1>4, <1>5, ContextGrows

LEMMA StepContext ==
    ASSUME Typed, DeliveryInv, ContextInv, NEW t \in Terminals, Step(t)
    PROVE  ContextWasShown'
<1> SUFFICES ASSUME NEW r \in Runs', NEW c \in files'[r].context
             PROVE  /\ files'[c].session = files'[r].session
                    /\ files'[c].group # files'[r].group
                    /\ WasShown(c)'
  BY DEF ContextWasShown, WasShown
<1>1. \A s \in Runs : s \in Runs' /\ Same(files'[s], files[s])
  BY StepsKeep DEF FilesKeep
<1>2. CASE r \in Runs
  <2>1. c \in files[r].context
    BY <1>1, <1>2 DEF Same
  <2>2. files[c].session = files[r].session /\ files[c].group # files[r].group /\ WasShown(c)
    BY <1>2, <2>1 DEF ContextInv, ContextWasShown, WasShown
  <2>3. c \in Runs
    BY <2>2 DEF WasShown, Typed
  <2> QED BY <1>1, <1>2, <2>2, <2>3, ShownStays DEF Same
<1>3. CASE r \notin Runs
  <2>1. Start(t)
    BY <1>3, StepsAmend, AmendKeeps, BusyRun DEF StepAmends, Runs
  <2>2. PICK f \in FileType : NewRun(t, f)
    BY <2>1, StartCreates
  <2>3. /\ f.context = turn[t].context
        /\ turn'[t].session = f.session /\ turn'[t].group = f.group
        /\ turn'[t].context = turn[t].context
    BY <2>2, FileTypes DEF NewRun, Locals, Typed
  <2>6. files'[r] = f
    BY <1>3, <2>2, NewRunKeeps
  <2>4. ContextOf(t)'
    BY StepContextOf
  <2>5. c \in turn'[t].context
    BY <2>3, <2>6
  <2> QED BY <2>3, <2>4, <2>5, <2>6 DEF ContextOf
<1> QED BY <1>2, <1>3

LEMMA NextContext == Typed /\ DeliveryInv /\ ContextInv /\ [Next]_vars => ContextInv'
<1> SUFFICES ASSUME Typed, DeliveryInv, ContextInv, [Next]_vars PROVE ContextInv'
  OBVIOUS
<1>1. ASSUME NEW t \in Terminals, Step(t) PROVE ContextInv'
  BY <1>1, StepContext, StepContextOf DEF ContextInv
<1>2. CASE UNCHANGED vars
  BY <1>2 DEF vars, ContextInv, ContextWasShown, ContextOf, WasShown, Runs
<1> QED BY <1>1, <1>2 DEF Next, Step

\* However turns of several sessions interleave, and whatever dies: what a run
\* is told of earlier turns was printed, as an answer of its own session.
THEOREM ContextIsDelivered == Spec => []ContextWasShown
<1>1. Init => ContextInv
  BY DEF Init, ContextInv, ContextWasShown, ContextOf, Idle, Runs
<1>2. ContextInv => ContextWasShown
  BY DEF ContextInv
<1> QED BY <1>1, <1>2, NextContext, AlwaysDelivery, PTL DEF Spec

-----------------------------------------------------------------------------
(* History. *)

(***************************************************************************)
(* Inductive strengthening, for journals that all lie in the runs          *)
(* directory: what the session had when the question was asked is in the   *)
(* listing, and goes from there to what was found, or ends the turn.       *)
(***************************************************************************)
AllListed == \A r \in Runs : files[r].listed

Recalled(t) ==
    LET l == turn[t] IN
    /\ ~l.elsewhere
    /\ pc[t] \in Asking =>
          \A r \in l.known :
              r \in Runs /\ files[r].session = l.session /\ files[r].frames # <<>>
    /\ pc[t] \in {"lookup", "reading"} => l.known \subseteq l.found \cup l.todo
    /\ pc[t] \notin Asking => l.known \subseteq l.found

HistoryInv ==
    AllListed /\ HistoryIsComplete /\ \A t \in Terminals : Recalled(t)

LEMMA StartedStays ==
    ASSUME Typed, FilesKeep, NEW r \in Runs, files[r].frames # <<>>
    PROVE  r \in Runs' /\ files'[r].frames # <<>> /\ files'[r].session = files[r].session
<1>1. files[r].frames \in Seq(FrameNames)
  BY FileTypes
<1>2. 1 \in DOMAIN files[r].frames
  <2>1. Len(files[r].frames) \in Nat /\ Len(files[r].frames) # 0
    BY <1>1, EmptySeq
  <2> QED BY <1>1, <2>1
<1>3. 1 \in DOMAIN files'[r].frames
  BY <1>2 DEF FilesKeep
<1>4. DOMAIN <<>> = {}
  OBVIOUS
<1> QED BY <1>3, <1>4 DEF FilesKeep, Same

\* Reading moves what the session had from the listing to what was found.
LEMMA RecallsAll ==
    ASSUME Typed, AllListed, NEW t \in Terminals, Recalled(t), Step(t), Recalls(t)
    PROVE  Recalled(t)'
<1> DEFINE l == turn[t]
<1>1. l \in Locals /\ UNCHANGED files /\ Runs' = Runs
  BY FileTypes DEF Recalls, Runs
<1>2. turn'[t].known = l.known /\ turn'[t].session = l.session /\ ~turn'[t].elsewhere
  BY <1>1 DEF Recalls, Locals, Recalled
<1>3. \A r \in l.known :
          r \in Runs /\ files[r].session = l.session /\ files[r].frames # <<>>
  BY DEF Recalled, Recalls
<1>4. ~Quit(t) /\ (List(t) \/ LookUp(t) \/ Read(t) \/ Resume(t))
  BY RecallsBy
<1>5. CASE List(t)
  <2>1. pc'[t] = "lookup" /\ turn'[t].todo = {r \in Runs : files[r].listed}
    BY <1>1, <1>5 DEF List, Goto, Set, Locals, Typed
  <2>2. l.known \subseteq turn'[t].todo
    BY <1>3, <2>1 DEF AllListed
  <2> QED BY <1>1, <1>2, <1>3, <2>1, <2>2 DEF Recalled, Asking
<1>6. CASE LookUp(t)
  <2>1. pc'[t] = "reading" /\ l.todo \subseteq turn'[t].todo /\ turn'[t].found = l.found
    BY <1>1, <1>6 DEF LookUp, Goto, Set, Locals, Typed
  <2>2. l.known \subseteq l.found \cup l.todo
    BY <1>6 DEF LookUp, Recalled
  <2> QED BY <1>1, <1>2, <1>3, <2>1, <2>2 DEF Recalled, Asking
<1>7. CASE Read(t)
  <2> DEFINE r == Min(turn[t].todo)
             f == files[r]
             mine == f.session = turn[t].session /\ ~Unreadable(f)
  <2>1. ~Refused(t, f) /\ UNCHANGED pc /\ pc[t] = "reading"
        /\ Set(t, [l EXCEPT !.todo = @ \ {r},
                            !.found = IF mine THEN @ \cup {r} ELSE @,
                            !.context = IF mine /\ Confirmed(f) THEN @ \cup {r} ELSE @])
    BY <1>4, <1>7 DEF Read
  <2>2. turn'[t].todo = l.todo \ {r} /\ turn'[t].found = IF mine THEN l.found \cup {r} ELSE l.found
    BY <1>1, <2>1 DEF Set, Locals, Typed
  <2>3. r \in l.known => mine
    BY <1>3, <2>1 DEF Refused
  <2>4. l.known \subseteq l.found \cup l.todo
    BY <1>7 DEF Read, Recalled
  <2> HIDE DEF r, mine
  <2>5. l.known \subseteq turn'[t].found \cup turn'[t].todo
    BY <2>2, <2>3, <2>4
  <2> QED BY <1>1, <1>2, <1>3, <2>1, <2>5 DEF Recalled, Asking
<1>8. CASE Resume(t)
  <2>1. pc'[t] = "ready" /\ turn'[t].found = l.found /\ l.todo = {} /\ pc[t] = "reading"
    BY <1>4, <1>8 DEF Resume, Goto, Typed
  <2>2. l.known \subseteq l.found \cup l.todo
    BY <2>1 DEF Recalled
  <2> QED BY <1>1, <1>2, <2>1, <2>2 DEF Recalled, Asking
<1> QED BY <1>4, <1>5, <1>6, <1>7, <1>8

LEMMA StepRecalled ==
    ASSUME TRUE \notin Elsewhere, Typed, AllListed, NEW t \in Terminals, Recalled(t), Step(t)
    PROVE  Recalled(t)'
<1> DEFINE l == turn[t]
<1>1. Moves(t) /\ l \in Locals
  BY StepsMove, FileTypes
<1>2. CASE Leaves(t)
  BY <1>2 DEF Leaves, Idle, Recalled, Asking
<1>3. CASE Begins(t)
  <2>1. PICK s \in {files[r].session : r \in Runs} \cup {0}, n \in Nat, e \in BOOLEAN :
            /\ turn'[t] = [Idle EXCEPT !.session = s, !.max = n, !.elsewhere = e,
                                       !.known = OfSession(s)]
            /\ e \in Elsewhere
            /\ pc'[t] = IF s = 0 THEN "ready" ELSE "listing"
    BY <1>3 DEF Begins
  <2>2. turn'[t].known = OfSession(s) /\ turn'[t].session = s /\ turn'[t].elsewhere = e
    BY <2>1 DEF Idle
  <2>3. ~e
    BY <2>1
  <2>4. UNCHANGED files /\ Runs' = Runs
    BY <1>3 DEF Begins, Runs
  <2>5. CASE s = 0
    <3>1. OfSession(s) = {}
      <4>1. \A r \in Runs : files[r].session # 0
        BY FileTypes DEF Typed, RunFits
      <4> QED BY <2>5, <4>1 DEF OfSession
    <3> QED BY <2>1, <2>2, <2>3, <2>5, <3>1 DEF Recalled, Asking
  <2>6. CASE s # 0
    <3>1. pc'[t] = "listing"
      BY <2>1, <2>6
    <3>2. \A r \in OfSession(s) : r \in Runs /\ files[r].session = s /\ files[r].frames # <<>>
      BY DEF OfSession
    <3> QED BY <2>2, <2>3, <2>4, <3>1, <3>2 DEF Recalled, Asking
  <2> QED BY <2>5, <2>6
<1>4. CASE Recalls(t)
  BY <1>4, RecallsAll
<1>5. ASSUME pc[t] \notin Asking, pc'[t] \notin Asking, turn'[t].known = l.known,
             turn'[t].found = l.found, turn'[t].elsewhere = l.elsewhere
      PROVE  Recalled(t)'
  BY <1>5 DEF Recalled, Asking
<1>6. CASE GoesOn(t)
  BY <1>1, <1>5, <1>6 DEF GoesOn, Locals, Busy, Asking
<1>7. CASE Repeats(t)
  BY <1>1, <1>5, <1>7 DEF Repeats, Locals, Asking
<1>8. CASE Start(t)
  <2>1. PICK f \in FileType : NewRun(t, f)
    BY <1>8, StartCreates
  <2>2. turn'[t].known = l.known /\ turn'[t].found = l.found
        /\ turn'[t].elsewhere = l.elsewhere /\ pc'[t] = "running"
    BY <1>1, <2>1 DEF NewRun, Locals, Typed
  <2>3. pc[t] = "ready"
    BY <1>8 DEF Start
  <2> QED BY <1>5, <2>2, <2>3 DEF Asking
<1> QED BY <1>1, <1>2, <1>3, <1>4, <1>6, <1>7, <1>8 DEF Moves

LEMMA StepHistory ==
    ASSUME TRUE \notin Elsewhere, Typed, HistoryInv, NEW t \in Terminals, Step(t)
    PROVE  HistoryInv'
<1>1. FilesKeep
  BY StepsKeep
<1>2. ASSUME NEW u \in Terminals PROVE Recalled(u)'
  <2>1. CASE u = t
    BY <2>1, StepRecalled DEF HistoryInv
  <2>2. CASE u # t
    <3>1. pc'[u] = pc[u] /\ turn'[u] = turn[u] /\ Recalled(u)
      BY <2>2, StepsMove DEF OthersStay, HistoryInv
    <3>2. ASSUME pc[u] \in Asking, NEW r \in turn[u].known
          PROVE  r \in Runs' /\ files'[r].session = turn[u].session /\ files'[r].frames # <<>>
      BY <1>1, <3>1, <3>2, StartedStays DEF Recalled
    <3> QED BY <3>1, <3>2 DEF Recalled
  <2> QED BY <2>1, <2>2
<1>3. ASSUME NEW r \in Runs' PROVE files'[r].listed /\ files'[r].known \subseteq files'[r].found
  <2>1. CASE r \in Runs
    BY <1>1, <2>1 DEF FilesKeep, Same, HistoryInv, AllListed, HistoryIsComplete
  <2>2. CASE r \notin Runs
    <3>1. Start(t)
      BY <2>2, StepsAmend, AmendKeeps, BusyRun DEF StepAmends, Runs
    <3>2. PICK f \in FileType : NewRun(t, f)
      BY <3>1, StartCreates
    <3>3. files'[r] = f
      BY <2>2, <3>2, NewRunKeeps
    <3>4. pc[t] = "ready" /\ Recalled(t)
      BY <3>1 DEF Start, HistoryInv
    <3>5. ~turn[t].elsewhere /\ turn[t].known \subseteq turn[t].found
      BY <3>4 DEF Recalled, Asking
    <3>6. f.known = turn[t].known /\ f.found = turn[t].found /\ f.listed
      BY <3>2, <3>5 DEF NewRun
    <3> QED BY <3>3, <3>5, <3>6
  <2> QED BY <2>1, <2>2
<1> QED BY <1>2, <1>3 DEF HistoryInv, AllListed, HistoryIsComplete

LEMMA NextHistory ==
    ASSUME TRUE \notin Elsewhere
    PROVE  Typed /\ HistoryInv /\ [Next]_vars => HistoryInv'
<1> SUFFICES ASSUME Typed, HistoryInv, [Next]_vars PROVE HistoryInv'
  OBVIOUS
<1>1. ASSUME NEW t \in Terminals, Step(t) PROVE HistoryInv'
  BY <1>1, StepHistory
<1>2. CASE UNCHANGED vars
  BY <1>2 DEF vars, HistoryInv, AllListed, HistoryIsComplete, Recalled, Runs
<1> QED BY <1>1, <1>2 DEF Next, Step

\* Where --journal does not point outside the runs directory, a run of a session
\* only starts with every run the session had when its question was asked: one
\* that cannot be read, or has no end yet, makes the turn fail instead.
THEOREM HistoryIsWhole ==
    ASSUME TRUE \notin Elsewhere
    PROVE  Spec => []HistoryIsComplete
<1>1. Init => HistoryInv
  BY DEF Init, HistoryInv, AllListed, HistoryIsComplete, Recalled, Idle, Runs, Asking
<1>2. HistoryInv => HistoryIsComplete
  BY DEF HistoryInv
<1>3. Typed /\ HistoryInv /\ [Next]_vars => HistoryInv'
  BY NextHistory
<1> QED BY <1>1, <1>2, <1>3, AlwaysDelivery, PTL DEF Spec

-----------------------------------------------------------------------------
(* Budgets. *)

LEMMA Prices ==
    ASSUME Typed, NEW g
    PROVE  /\ Price(g) \in [1 .. Len(files) -> Nat] /\ Len(files) \in Nat
           /\ Spent(g) \in Nat
<1>1. Runs = 1 .. Len(files) /\ Len(files) \in Nat /\ \A r \in Runs : files[r].spent \in Nat
  BY FileTypes DEF FileType
<1>2. \A r \in Runs : (IF files[r].group = g THEN files[r].spent ELSE 0) \in Nat
  BY <1>1
<1>3. Price(g) \in [1 .. Len(files) -> Nat]
  BY <1>1, <1>2 DEF Price
<1>4. PICK N \in Nat : N = Len(files)
  BY <1>1
<1>5. Total(Price(g), N) \in Nat
  <2>1. N \in 0 .. N
    OBVIOUS
  <2> QED BY <1>3, <1>4, <2>1, TotalStep
<1> QED BY <1>1, <1>3, <1>4, <1>5 DEF Spent

\* A turn that has no run has spent nothing.
LEMMA NoRunCosts ==
    ASSUME Typed, NEW g, \A r \in Runs : files[r].group # g
    PROVE  Spent(g) = 0
<1>1. PICK N \in Nat : N = Len(files)
  BY Prices
<1>2. Price(g) \in [1 .. N -> Nat] /\ N \in 0 .. N
  BY <1>1, Prices
<1>3. \A i \in 1 .. N : Price(g)[i] = 0
  BY <1>1, FileTypes DEF Price
<1>4. Total(Price(g), N) = 0
  BY <1>2, <1>3, TotalOfNothing
<1> QED BY <1>1, <1>4 DEF Spent

\* What the runs cost stays,
LEMMA SameCosts ==
    ASSUME Typed, Runs' = Runs, Len(files') = Len(files), NEW g,
           \A r \in Runs : files'[r].spent = files[r].spent /\ files'[r].group = files[r].group
    PROVE  Spent(g)' = Spent(g)
<1>1. Price(g)' = Price(g)
  BY DEF Price
<1> QED BY <1>1 DEF Spent

\* also with a new run,
LEMMA NewRunCosts ==
    ASSUME Typed, NEW t \in Terminals, NEW f \in FileType, NewRun(t, f), NEW g
    PROVE  Spent(g)' = Spent(g)
<1>1. PICK N \in Nat : N = Len(files)
  BY Prices
<1>2. /\ Runs = 1 .. N /\ Runs' = 1 .. N + 1 /\ Len(files') = N + 1
      /\ files'[N + 1] = f /\ f.spent = 0
      /\ \A r \in Runs : files'[r] = files[r]
  <2>1. /\ Runs' = Runs \cup {Len(files) + 1} /\ Len(files') = Len(files) + 1
        /\ files'[Len(files) + 1] = f /\ \A r \in Runs : files'[r] = files[r]
    BY NewRunKeeps
  <2>2. f.spent = 0
    BY DEF NewRun
  <2>3. Runs = 1 .. N
    BY <1>1, FileTypes
  <2>4. Runs' = 1 .. N + 1
    BY <1>1, <2>1 DEF Runs, Typed
  <2> QED BY <1>1, <2>1, <2>2, <2>3, <2>4
<1>3. PICK v, w : v = Price(g) /\ w = Price(g)'
  OBVIOUS
<1>4. v \in [1 .. N -> Nat]
  BY <1>1, <1>3, Prices
<1>5. \A r \in Runs' : files'[r].spent \in Nat
  <2>1. files' \in Seq(FileType)
    BY NewRunKeeps DEF FilesKeep
  <2>2. \A r \in Runs' : files'[r] \in FileType
    BY <2>1 DEF Runs
  <2> QED BY <2>2 DEF FileType
<1>6. w \in [1 .. N + 1 -> Nat]
  <2>1. \A r \in Runs' : (IF files'[r].group = g THEN files'[r].spent ELSE 0) \in Nat
    BY <1>5
  <2> QED BY <1>2, <1>3, <2>1 DEF Price
<1>7. w[N + 1] = 0 /\ \A r \in 1 .. N : v[r] = w[r]
  BY <1>2, <1>3 DEF Price
<1>8. N + 1 \in Nat /\ N \in 0 .. N + 1 /\ N + 1 \in 1 .. N + 1 /\ N <= N /\ (N + 1) - 1 = N
  OBVIOUS
<1>9. Total(v, N) = Total(w, N)
  BY <1>4, <1>6, <1>7, <1>8, TotalSame
<1>10. Total(w, N + 1) = Total(w, N) + w[N + 1] /\ Total(w, N) \in Nat
  BY <1>6, <1>8, TotalStep
<1> QED BY <1>1, <1>2, <1>3, <1>7, <1>9, <1>10 DEF Spent

\* and grows by what a run that ends has cost.
LEMMA EndCosts ==
    ASSUME Typed, NEW r \in Runs, NEW c \in Nat, files[r].spent = 0, NEW g,
           Runs' = Runs, Len(files') = Len(files),
           files'[r].spent = c, files'[r].group = files[r].group,
           \A s \in Runs \ {r} : files'[s] = files[s]
    PROVE  Spent(g)' = Spent(g) + (IF files[r].group = g THEN c ELSE 0)
<1>1. PICK N \in Nat : N = Len(files)
  BY Prices
<1>2. Runs = 1 .. N
  BY <1>1, FileTypes
<1>3. PICK v, w : v = Price(g) /\ w = Price(g)'
  OBVIOUS
<1>4. v \in [1 .. N -> Nat]
  BY <1>1, <1>3, Prices
<1>5. \A s \in Runs : files[s].spent \in Nat
  BY FileTypes DEF FileType
<1>6. w \in [1 .. N -> Nat]
  <2>1. \A s \in Runs : (IF files'[s].group = g THEN files'[s].spent ELSE 0) \in Nat
    BY <1>5
  <2> QED BY <1>2, <1>3, <2>1 DEF Price
<1>7. \A s \in 1 .. N : s # r => v[s] = w[s]
  BY <1>2, <1>3 DEF Price
<1>8. v[r] = 0 /\ w[r] = IF files[r].group = g THEN c ELSE 0
  BY <1>3 DEF Price
<1>9. r \in 1 .. N /\ N \in r .. N /\ N \in 0 .. N
  BY <1>2
<1>10. Total(w, N) - Total(v, N) = w[r] - v[r]
  <2>1. \A n \in r .. N : Total(w, n) - Total(v, n) = w[r] - v[r]
    BY <1>4, <1>6, <1>7, <1>9, TotalChanged
  <2> QED BY <1>9, <2>1
<1>11. Total(w, N) \in Nat /\ Total(v, N) \in Nat
  BY <1>4, <1>6, <1>9, TotalStep
<1>12. Total(w, N) = Total(v, N) + (IF files[r].group = g THEN c ELSE 0)
  BY <1>8, <1>10, <1>11
<1> QED BY <1>1, <1>3, <1>12 DEF Spent

(***************************************************************************)
(* Inductive strengthening: what a turn knows to have spent is what its    *)
(* attempts cost, save the one at work, which is only charged when it ends *)
(* and was only begun while something was left.                            *)
(***************************************************************************)
Owed(t) ==
    /\ turn[t].run = 0 => turn[t].spent = 0
    /\ turn[t].run # 0 =>
          Spent(turn[t].group) =
              turn[t].spent + (IF pc[t] \in Busy THEN MyRun(t).spent ELSE 0)
    /\ pc[t] = "running" => MyRun(t).spent = 0 /\ \A c \in Cap : turn[t].spent < c

BudgetInv == TurnWithinBudget /\ \A t \in Terminals : Owed(t)

\* What a step does to the costs.
LEMMA Spends ==
    ASSUME Typed, NEW t \in Terminals, Step(t)
    PROVE  \/ Start(t)
           \/ \E status \in Statuses : Ends(t, status)
           \/ /\ Runs' = Runs /\ Len(files') = Len(files)
              /\ \A r \in Runs : /\ files'[r].spent = files[r].spent
                                 /\ files'[r].group = files[r].group
<1> DEFINE Keeps == /\ Runs' = Runs /\ Len(files') = Len(files)
                    /\ \A r \in Runs : /\ files'[r].spent = files[r].spent
                                       /\ files'[r].group = files[r].group
           r == turn[t].run
<1> SUFFICES ASSUME ~Start(t), \A status \in Statuses : ~Ends(t, status) PROVE Keeps
  OBVIOUS
<1>0. files \in Seq(FileType) /\ \A s \in Runs : files[s] \in FileType
  BY FileTypes DEF Typed
<1>1. ASSUME NEW f, f.spent = files[r].spent, f.group = files[r].group,
             files' = [files EXCEPT ![r] = f]
      PROVE  Keeps
  <2>1. Runs' = Runs /\ Len(files') = Len(files)
    BY <1>0, <1>1 DEF Runs
  <2>2. \A s \in Runs : files'[s] = IF s = r THEN f ELSE files[s]
    BY <1>0, <1>1 DEF Runs
  <2> QED BY <2>1, <2>2, <1>1
<1>2. ASSUME NEW name, pc[t] \in Busy, Log(t, name) PROVE Keeps
  <2> DEFINE f == [files[r] EXCEPT !.frames = Append(@, name)]
  <2>1. f.spent = files[r].spent /\ f.group = files[r].group
    BY <1>2, <1>0, BusyRun DEF FileType
  <2>2. files' = [files EXCEPT ![r] = f]
    BY <1>2 DEF Log
  <2> HIDE DEF f
  <2> QED BY <2>1, <2>2, <1>1
<1>3. ASSUME NEW torn, pc[t] \in Busy, files' = [files EXCEPT ![r].torn = torn] PROVE Keeps
  <2> DEFINE f == [files[r] EXCEPT !.torn = torn]
  <2>1. f.spent = files[r].spent /\ f.group = files[r].group
    BY <1>3, <1>0, BusyRun DEF FileType
  <2>2. files' = [files EXCEPT ![r] = f]
    BY <1>3
  <2> HIDE DEF f
  <2> QED BY <2>1, <2>2, <1>1
<1>4. ASSUME pc[t] \in Busy, files' = [files EXCEPT ![r].indexed = TRUE] PROVE Keeps
  <2> DEFINE f == [files[r] EXCEPT !.indexed = TRUE]
  <2>1. f.spent = files[r].spent /\ f.group = files[r].group
    BY <1>4, <1>0, BusyRun DEF FileType
  <2>2. files' = [files EXCEPT ![r] = f]
    BY <1>4
  <2> HIDE DEF f
  <2> QED BY <2>1, <2>2, <1>1
<1>5. CASE UNCHANGED files
  BY <1>5 DEF Runs
<1> HIDE DEF Keeps
<1>6. CASE \E name \in Progress : Journals(t, name)
  BY <1>6, <1>2 DEF Journals, Busy
<1>7. CASE Errs(t) \/ Receipt(t)
  <2>1. UNCHANGED files \/ \E name : pc[t] \in Busy /\ Log(t, name)
    BY <1>7 DEF Errs, Receipt, Busy
  <2> QED BY <2>1, <1>2, <1>5
<1>8. CASE ReceiptFails(t) \/ Dies(t)
  <2>1. CASE ReceiptFails(t)
    <3>1. pc[t] \in Busy
      BY <2>1 DEF ReceiptFails, Busy
    <3>2. PICK torn \in BOOLEAN : files' = [files EXCEPT ![r].torn = torn]
      BY <2>1 DEF ReceiptFails
    <3> QED BY <3>1, <3>2, <1>3
  <2>2. CASE Dies(t)
    <3>1. UNCHANGED files \/ (pc[t] \in Busy /\ files' = [files EXCEPT ![r].torn = TRUE])
      BY <2>2 DEF Dies, Busy
    <3> QED BY <3>1, <1>3, <1>5
  <2> QED BY <1>8, <2>1, <2>2
<1>9. CASE Index(t)
  BY <1>9, <1>4, <1>5 DEF Index, Busy
<1>10. CASE \/ Asks(t) \/ List(t) \/ LookUp(t) \/ Read(t) \/ Resume(t) \/ BudgetIsGone(t)
            \/ Show(t) \/ NothingToShow(t) \/ Retry(t) \/ Done(t) \/ GiveUp(t) \/ OutputFails(t)
  <2>1. CASE Asks(t)
    BY <2>1, <1>5, AskBegins DEF Begins
  <2>2. List(t) \/ LookUp(t) \/ Read(t) \/ Resume(t) \/ BudgetIsGone(t) \/ Show(t)
            \/ NothingToShow(t) \/ Retry(t) \/ Done(t) \/ GiveUp(t) \/ OutputFails(t)
            => UNCHANGED files
    BY DEF List, LookUp, Read, Resume, BudgetIsGone, Show, NothingToShow,
           Retry, Done, GiveUp, OutputFails
  <2> QED BY <2>1, <2>2, <1>5, <1>10
<1> QED BY <1>6, <1>7, <1>8, <1>9, <1>10, Zenon DEF Step, Works, Fails

\* The attempt that ends is charged, and overshoots what was left by less than a
\* call.
LEMMA EndsCharge ==
    ASSUME Typed, NEW t \in Terminals, NEW status \in Statuses, Ends(t, status),
           MyRun(t).spent = 0
    PROVE  \E c \in Nat :
              /\ files'[turn[t].run].spent = c
              /\ \A g : Spent(g)' = Spent(g) + (IF files[turn[t].run].group = g THEN c ELSE 0)
              /\ \A l \in Cap : turn[t].spent < l =>
                                    c = 0 \/ turn[t].spent + c < l + MaxCall
<1> DEFINE r == turn[t].run
<1>1. pc[t] \in Busy
  BY DEF Ends, Busy
<1>2. PICK c \in IF Cap = {} THEN {0} ELSE Costs(t) :
          files' = [files EXCEPT ![r].frames = Append(@, status), ![r].spent = c]
  BY DEF Ends
<1>3. c \in Nat
  BY CostsAreNumbers
<1>4. /\ r \in Runs /\ files[r] \in FileType /\ files[r].spent = 0
      /\ files \in Seq(FileType) /\ turn[t].spent \in Nat
  BY <1>1, BusyRun, FileTypes DEF Typed, Locals
<1> DEFINE f == [[files[r] EXCEPT !.frames = Append(@, status)] EXCEPT !.spent = c]
<1>5. f.spent = c /\ f.group = files[r].group
  BY <1>4 DEF FileType
<1>6. files' = [files EXCEPT ![r] = f]
  <2>1. [files EXCEPT ![r].frames = Append(@, status)][r]
            = [files[r] EXCEPT !.frames = Append(@, status)]
    BY <1>4 DEF Runs
  <2> QED BY <1>2, <2>1
<1> HIDE DEF f
<1>7. /\ Runs' = Runs /\ Len(files') = Len(files) /\ files'[r] = f
      /\ \A s \in Runs \ {r} : files'[s] = files[s]
  BY <1>4, <1>6 DEF Runs
<1>8. \A g : Spent(g)' = Spent(g) + (IF files[r].group = g THEN c ELSE 0)
  <2> TAKE g
  <2> QED BY <1>3, <1>4, <1>5, <1>7, EndCosts
<1>9. ASSUME NEW l \in Cap, turn[t].spent < l
      PROVE  c = 0 \/ turn[t].spent + c < l + MaxCall
  <2>1. l \in Nat /\ MaxCall \in Nat
    BY CapAssumption, MaxCallAssumption
  <2>2. l - turn[t].spent \in Left(t)
    BY <1>9 DEF Left
  <2>3. OvershootsByOneCall(Left(t), c)
    BY <1>2, <1>9 DEF Costs
  <2>4. c = 0 \/ c < (l - turn[t].spent) + MaxCall
    BY <2>2, <2>3 DEF OvershootsByOneCall
  <2> QED BY <2>1, <2>4, <1>3, <1>4
<1> QED BY <1>3, <1>5, <1>7, <1>8, <1>9

\* Another turn's books are not touched.
LEMMA OwedStays ==
    ASSUME Typed, Apart, NEW t \in Terminals, Step(t), NEW u \in Terminals, u # t,
           Owed(t), Owed(u)
    PROVE  Owed(u)'
<1>1. pc'[u] = pc[u] /\ turn'[u] = turn[u]
  BY StepsMove DEF OthersStay
<1>2. CASE turn[u].run = 0
  <2>1. pc[u] \notin Busy
    BY <1>2, BusyRun
  <2> QED BY <1>1, <1>2, <2>1 DEF Owed, Busy
<1>3. CASE turn[u].run # 0
  <2>1. turn[u].run \in Runs /\ files[turn[u].run].group = turn[u].group
    BY <1>3 DEF Typed, Fits
  <2>2. PICK g, r : g = turn[u].group /\ r = turn[u].run
    OBVIOUS
  <2>3. r \in Runs /\ files[r].group = g
    BY <2>1, <2>2
  <2>4. files'[r].spent = files[r].spent
    <3>1. pc[t] \in Busy => turn[t].run # r
      <4>1. pc[t] \in Busy => turn[t].run # 0
        BY BusyRun
      <4> QED BY <2>1, <2>2, <4>1, <1>3 DEF Apart, Typed, Fits
    <3> QED BY <2>3, <3>1, OtherFiles
  <2>5. Spent(g)' = Spent(g)
    <3>1. CASE Start(t)
      BY <3>1, StartCreates, NewRunCosts
    <3>2. ASSUME NEW status \in Statuses, Ends(t, status) PROVE Spent(g)' = Spent(g)
      <4>1. pc[t] = "running" /\ pc[t] \in Busy
        BY <3>2 DEF Ends, Busy
      <4>2. turn[t].run # 0 /\ files[turn[t].run].group = turn[t].group
        BY <4>1, BusyRun DEF Typed, Fits
      <4>3. turn[t].group # g
        BY <4>2, <1>3, <2>2 DEF Apart
      <4>4. MyRun(t).spent = 0
        BY <4>1 DEF Owed
      <4>5. PICK c \in Nat :
                \A h : Spent(h)' = Spent(h) + (IF files[turn[t].run].group = h THEN c ELSE 0)
        BY <3>2, <4>4, EndsCharge
      <4>6. Spent(g)' = Spent(g) + 0
        BY <4>2, <4>3, <4>5
      <4> QED BY <4>6, Prices
    <3>3. ASSUME Runs' = Runs, Len(files') = Len(files),
                 \A s \in Runs : /\ files'[s].spent = files[s].spent
                                 /\ files'[s].group = files[s].group
          PROVE  Spent(g)' = Spent(g)
      BY <3>3, SameCosts
    <3> QED BY <3>1, <3>2, <3>3, Spends
  <2> HIDE DEF Busy
  <2>6. /\ Spent(g) = turn[u].spent + (IF pc[u] \in Busy THEN files[r].spent ELSE 0)
        /\ pc[u] = "running" => files[r].spent = 0 /\ \A c \in Cap : turn[u].spent < c
    BY <1>3, <2>2 DEF Owed, MyRun
  <2>7. Spent(turn[u].group)' = Spent(g)'
    BY <1>1, <2>2 DEF Spent, Price
  <2>8. Owed(u)'
    BY <1>1, <1>3, <2>2, <2>4, <2>5, <2>6, <2>7 DEF Owed, MyRun
  <2> QED BY <2>8
<1> QED BY <1>2, <1>3

\* A turn keeps its own,
LEMMA StepOwed ==
    ASSUME Typed, Typed', NEW t \in Terminals, Step(t), Owed(t)
    PROVE  Owed(t)'
<1> DEFINE l == turn[t]
<1>1. Moves(t) /\ l \in Locals /\ Fits(t) /\ l.spent \in Nat
  BY StepsMove, FileTypes DEF Typed, Locals
<1>2. CASE Leaves(t)
  <2>1. turn'[t].run = 0 /\ turn'[t].spent = 0 /\ pc'[t] # "running"
    BY <1>2 DEF Leaves, Idle
  <2> QED BY <2>1 DEF Owed
<1>3. CASE Begins(t)
  <2>1. \A s, n, e, k : [Idle EXCEPT !.session = s, !.max = n, !.elsewhere = e,
                                    !.known = k].run = 0
    BY DEF Idle
  <2>2. \A s, n, e, k : [Idle EXCEPT !.session = s, !.max = n, !.elsewhere = e,
                                    !.known = k].spent = 0
    BY DEF Idle
  <2>3. turn'[t].run = 0 /\ turn'[t].spent = 0 /\ pc'[t] # "running"
    BY <1>3, <2>1, <2>2 DEF Begins
  <2> QED BY <2>3 DEF Owed
<1>4. CASE Recalls(t)
  <2>1. l.run = 0 /\ pc'[t] # "running"
    BY <1>1, <1>4 DEF Recalls, Fits, Asking, Busy
  <2>2. turn'[t].run = l.run /\ turn'[t].spent = l.spent
    BY <1>1, <1>4 DEF Recalls, Locals
  <2> QED BY <2>1, <2>2 DEF Owed
<1>5. CASE Start(t)
  <2>1. PICK f \in FileType : NewRun(t, f)
    BY <1>5, StartCreates
  <2>2. PICK g : g = f.group
    OBVIOUS
  <2>3. Spent(g)' = Spent(g)
    BY <2>1, NewRunCosts
  <2>4. /\ turn'[t].run = Len(files) + 1 /\ turn'[t].group = g /\ turn'[t].spent = l.spent
        /\ pc'[t] = "running"
    BY <2>1, <2>2, <1>1 DEF NewRun, Locals, Typed
  <2>5. Spent(g) = l.spent
    <3>1. CASE l.run # 0
      <4>1. pc[t] \notin Busy
        BY <1>5 DEF Start, Busy
      <4>2. g = l.group
        BY <2>1, <2>2, <3>1, NewRunOf
      <4> QED BY <1>1, <3>1, <4>1, <4>2 DEF Owed
    <3>2. CASE l.run = 0
      <4>1. g = Len(files) + 1
        BY <2>1, <2>2, <3>2, NewRunOf
      <4>2. \A r \in Runs : files[r].group # g
        BY <4>1, FileTypes DEF Typed, RunFits
      <4> QED BY <3>2, <4>2, NoRunCosts DEF Owed
    <3> QED BY <3>1, <3>2
  <2>6. MyRun(t)'.spent = 0
    <3>1. files'[Len(files) + 1] = f
      BY <2>1, NewRunKeeps
    <3>2. f.spent = 0
      BY <2>1 DEF NewRun
    <3> QED BY <3>1, <3>2, <2>4 DEF MyRun
  <2>7. \A c \in Cap : l.spent < c
    <3>1. ASSUME NEW c \in Cap, ~(l.spent < c) PROVE FALSE
      <4>1. 0 \in Left(t)
        BY <3>1 DEF Left
      <4> QED BY <4>1, <1>5 DEF Start
    <3> QED BY <3>1
  <2>8. Spent(turn[t].group)' = Spent(g)'
    BY <2>4 DEF Spent, Price
  <2>9. turn'[t].run # 0 /\ pc'[t] \in Busy
    BY <2>4, FileTypes DEF Busy
  <2> QED BY <1>1, <2>3, <2>4, <2>5, <2>6, <2>7, <2>8, <2>9 DEF Owed
<1>6. CASE Repeats(t)
  <2>1. PICK n \in Nat : /\ n = l.spent + MyRun(t).spent
                         /\ turn'[t] = [l EXCEPT !.feedback = l.run, !.spent = n]
    BY <1>6 DEF Repeats
  <2>2. pc[t] \in Busy /\ pc'[t] = "ready" /\ UNCHANGED files
    BY <1>6 DEF Repeats, Busy
  <2>3. turn'[t].run = l.run /\ turn'[t].group = l.group /\ turn'[t].spent = n /\ l.run # 0
    BY <1>1, <2>1, <2>2, BusyRun DEF Locals
  <2>4. Spent(l.group) = n
    BY <2>1, <2>2, <2>3 DEF Owed
  <2>5. Spent(turn[t].group)' = Spent(l.group)
    BY <2>2, <2>3 DEF Spent, Price, Runs
  <2>6. pc'[t] \notin Busy /\ pc'[t] # "running"
    BY <2>2 DEF Busy
  <2> QED BY <2>3, <2>4, <2>5, <2>6 DEF Owed
<1>7. CASE GoesOn(t) /\ ~Start(t)
  <2>1. /\ turn'[t].run = l.run /\ turn'[t].group = l.group /\ turn'[t].spent = l.spent
        /\ pc[t] \in Busy /\ pc'[t] \in Busy /\ l.run # 0 /\ l.run \in Runs
    BY <1>1, <1>7, BusyRun DEF GoesOn, Locals
  <2>2. PICK g, r : g = l.group /\ r = l.run
    OBVIOUS
  <2>3. Spent(g) = l.spent + files[r].spent
    BY <2>1, <2>2 DEF Owed, MyRun
  <2>4. Spent(turn[t].group)' = Spent(g)' /\ MyRun(t)' = files'[r]
    BY <2>1, <2>2 DEF Spent, Price, MyRun
  <2>5. ASSUME NEW status \in Statuses, Ends(t, status)
        PROVE  Owed(t)'
    <3>1. pc[t] = "running" /\ pc'[t] = "report"
      BY <2>5 DEF Ends, Goto, Typed
    <3>2. MyRun(t).spent = 0
      BY <3>1 DEF Owed
    <3>3. PICK c \in Nat :
              /\ files'[turn[t].run].spent = c
              /\ \A h : Spent(h)' = Spent(h) + (IF files[turn[t].run].group = h THEN c ELSE 0)
      BY <2>5, <3>2, EndsCharge
    <3>4. files[r].group = g /\ files[r].spent = 0
      BY <2>1, <2>2, <3>2, <1>1 DEF Fits, MyRun
    <3>5. Spent(g)' = Spent(g) + c /\ files'[r].spent = c
      BY <2>2, <3>3, <3>4
    <3>6. Spent(g)' = l.spent + c
      BY <2>3, <3>4, <3>5, <1>1
    <3> QED BY <2>1, <2>4, <3>1, <3>5, <3>6 DEF Owed
  <2>6. ASSUME \A status \in Statuses : ~Ends(t, status)
        PROVE  Owed(t)'
    <3>1. Runs' = Runs /\ Len(files') = Len(files)
          /\ \A s \in Runs : files'[s].spent = files[s].spent /\ files'[s].group = files[s].group
      BY <2>6, <1>7, Spends
    <3>2. Spent(g)' = Spent(g) /\ files'[r].spent = files[r].spent
      BY <3>1, <2>1, <2>2, SameCosts
    <3>3. pc'[t] = "running" => pc[t] = "running"
      BY <1>7, RunningComesFrom
    <3>4. pc'[t] = "running" => files[r].spent = 0 /\ \A c \in Cap : l.spent < c
      BY <3>3, <2>2 DEF Owed, MyRun
    <3> QED BY <2>1, <2>3, <2>4, <3>2, <3>4 DEF Owed
  <2> QED BY <2>5, <2>6
<1> QED BY <1>1, <1>2, <1>3, <1>4, <1>5, <1>6, <1>7 DEF Moves

\* and no turn overshoots its budget by more than a call.
LEMMA StepBudget ==
    ASSUME Typed, BudgetInv, NEW t \in Terminals, Step(t)
    PROVE  TurnWithinBudget'
<1> SUFFICES ASSUME NEW r \in Runs', NEW l \in Cap
             PROVE  Spent(files[r].group)' = 0 \/ Spent(files[r].group)' < l + MaxCall
  BY DEF TurnWithinBudget, OvershootsByOneCall
<1>1. PICK g : g = files'[r].group
  OBVIOUS
<1>2. Spent(files[r].group)' = Spent(g)'
  BY <1>1 DEF Spent, Price
<1>3. l \in Nat /\ MaxCall \in Nat /\ turn[t].spent \in Nat /\ Spent(g) \in Nat
  BY CapAssumption, MaxCallAssumption, FileTypes, Prices DEF Locals
<1>4. ASSUME NEW s \in Runs, files[s].group = g
      PROVE  Spent(g) = 0 \/ Spent(g) < l + MaxCall
  <2>1. OvershootsByOneCall(Cap, Spent(files[s].group))
    BY <1>4 DEF BudgetInv, TurnWithinBudget
  <2> QED BY <1>4, <2>1 DEF OvershootsByOneCall
<1>5. CASE Start(t)
  <2>1. PICK f \in FileType : NewRun(t, f)
    BY <1>5, StartCreates
  <2>2. Spent(g)' = Spent(g)
    BY <2>1, NewRunCosts
  <2>3. CASE r \in Runs
    <3>1. files[r].group = g
      BY <1>1, <2>1, <2>3, NewRunKeeps
    <3> QED BY <1>2, <1>4, <2>2, <2>3, <3>1
  <2>4. CASE r \notin Runs
    <3>1. g = f.group
      BY <1>1, <2>1, <2>4, NewRunKeeps
    <3>2. CASE turn[t].run = 0
      <4>1. g = Len(files) + 1
        BY <2>1, <3>1, <3>2, NewRunOf
      <4>2. \A s \in Runs : files[s].group # g
        BY <4>1, FileTypes DEF Typed, RunFits
      <4>3. Spent(g) = 0
        BY <4>2, NoRunCosts
      <4> QED BY <1>2, <2>2, <4>3
    <3>3. CASE turn[t].run # 0
      <4>1. turn[t].run \in Runs
        BY <3>3 DEF Typed, Fits
      <4>2. files[turn[t].run].group = g
        BY <2>1, <3>1, <3>3, NewRunOf
      <4> QED BY <1>2, <1>4, <2>2, <4>1, <4>2
    <3> QED BY <3>2, <3>3
  <2> QED BY <2>3, <2>4
<1>6. ASSUME NEW status \in Statuses, Ends(t, status)
      PROVE  Spent(g)' = 0 \/ Spent(g)' < l + MaxCall
  <2>1. pc[t] = "running" /\ pc[t] \in Busy
    BY <1>6 DEF Ends, Busy
  <2>2. /\ MyRun(t).spent = 0 /\ turn[t].spent < l
        /\ turn[t].run # 0 /\ turn[t].run \in Runs
        /\ files[turn[t].run].group = turn[t].group
        /\ MyRun(t) = files[turn[t].run]
    BY <2>1, BusyRun DEF BudgetInv, Owed, Typed, Fits
  <2>3. PICK c \in Nat :
            /\ \A h : Spent(h)' = Spent(h) + (IF files[turn[t].run].group = h THEN c ELSE 0)
            /\ \A k \in Cap : turn[t].spent < k =>
                                  c = 0 \/ turn[t].spent + c < k + MaxCall
    BY <1>6, <2>2, EndsCharge
  <2>4. CASE g = turn[t].group
    <3>1. Spent(g) = turn[t].spent
      BY <2>1, <2>2, <2>4, <1>3 DEF BudgetInv, Owed
    <3>2. Spent(g)' = turn[t].spent + c
      BY <2>2, <2>3, <2>4, <3>1
    <3>3. c = 0 \/ turn[t].spent + c < l + MaxCall
      BY <2>2, <2>3
    <3> QED BY <3>2, <3>3, <2>2, <1>3
  <2>5. CASE g # turn[t].group
    <3>1. Spent(g)' = Spent(g)
      BY <2>2, <2>3, <2>5, <1>3
    <3>2. r \in Runs /\ files[r].group = g
      <4>1. Runs' = Runs /\ \A s \in Runs : files'[s].group = files[s].group
        <5>1. ~Start(t)
          BY <2>1 DEF Start
        <5>2. CASE UNCHANGED files
          BY <5>2 DEF Runs
        <5>3. CASE \E f \in FileType : Amends(turn[t].run, f)
          BY <5>3, <2>2, AmendKeeps DEF FilesKeep, Same
        <5> QED BY <5>1, <5>2, <5>3, StepsAmend DEF StepAmends
      <4> QED BY <4>1, <1>1
    <3> QED BY <3>1, <3>2, <1>4
  <2> QED BY <2>4, <2>5
<1>7. ASSUME Runs' = Runs, Len(files') = Len(files),
             \A s \in Runs : files'[s].spent = files[s].spent /\ files'[s].group = files[s].group
      PROVE  Spent(g)' = 0 \/ Spent(g)' < l + MaxCall
  <2>1. Spent(g)' = Spent(g)
    BY <1>7, SameCosts
  <2>2. r \in Runs /\ files[r].group = g
    BY <1>1, <1>7
  <2> QED BY <2>1, <2>2, <1>4
<1> QED BY <1>2, <1>5, <1>6, <1>7, Spends

LEMMA NextBudget == Typed /\ Typed' /\ Apart /\ BudgetInv /\ [Next]_vars => BudgetInv'
<1> SUFFICES ASSUME Typed, Typed', Apart, BudgetInv, [Next]_vars PROVE BudgetInv'
  OBVIOUS
<1>1. ASSUME NEW t \in Terminals, Step(t) PROVE BudgetInv'
  <2>1. TurnWithinBudget'
    BY <1>1, StepBudget
  <2>2. ASSUME NEW u \in Terminals PROVE Owed(u)'
    BY <1>1, StepOwed, OwedStays DEF BudgetInv
  <2> QED BY <2>1, <2>2 DEF BudgetInv
<1>2. CASE UNCHANGED vars
  BY <1>2 DEF vars, BudgetInv, TurnWithinBudget, Owed, Spent, Price, MyRun, Runs
<1> QED BY <1>1, <1>2 DEF Next, Step

\* However many attempts a turn takes, whatever fails between them and
\* whatever other terminals do, its attempts together overshoot the budget of
\* the graph by less than one call.
THEOREM Budgets == Spec => []TurnWithinBudget
<1>1. Init => BudgetInv
  BY DEF Init, BudgetInv, TurnWithinBudget, Owed, Idle, Runs
<1>2. BudgetInv => TurnWithinBudget
  BY DEF BudgetInv
<1> QED BY <1>1, <1>2, NextBudget, AlwaysDelivery, PTL DEF Spec, DeliveryInv
=============================================================================
