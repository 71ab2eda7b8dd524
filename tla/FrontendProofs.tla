--------------------------- MODULE FrontendProofs ---------------------------
(***************************************************************************)
(* What a person's silence, keys and lines do to a run, proved for all     *)
(* plans, records and keys, in both frontends.                             *)
(***************************************************************************)
EXTENDS Frontend, IndexTheorems

FrameSet ==
    [type : {"started", "transition", "call", "unit", "approval", "boundary", "finished"},
     at : Nodes \cup {0},
     what : {"", "running", "awaiting", "succeeded", "cancelled", "failed", "pending",
             "approved", "rejected", "yes", "no", "exhausted"},
     own : BOOLEAN]

Replies == {"open", "abandoned", "yes", "no"}
Stretches == {"next", "running", "ask"}
Places == Stretches \cup {"wait", "cancelled", "exhausted", "ended", "erred"}

(***************************************************************************)
(* Inductive strengthening of the types: what is put, is put at a step of  *)
(* the plan, and each frontend keeps to its own half of the state.         *)
(***************************************************************************)
Typed ==
    /\ plan \in Plans
    /\ journal \in Seq(FrameSet) /\ outbox \in Seq(FrameSet)
    /\ asked \in Nat /\ answers \in Seq(Replies) /\ Len(answers) = asked
    /\ pc \in Places /\ at \in Nat \ {0}
    /\ pc \in {"running", "ask", "wait"} => at <= Len(plan.steps)
    /\ pc = "wait" => asked > 0
    /\ requests \in Seq(1 .. asked) /\ prompt \in 0 .. asked
    /\ readers \subseteq 1 .. asked
    /\ screen \in [prompt : Nat, finished : BOOLEAN]
    /\ plan.front = "cli" => ui = "off" /\ prompt = 0
    /\ plan.front = "tui" => ui # "off" /\ readers = {}

\* How many questions a sequence of frames has put by place i.
Pendings(s, i) == Cardinality({j \in 1 .. i : s[j].what = "pending"})

WordsIn(s, A) ==
    \A i \in DOMAIN s :
        s[i].type = "boundary" =>
            s[i].what \in {"yes", "no"} /\ <<Pendings(s, i), s[i].what>> \in A
GoingIn(s, A) ==
    \A i \in DOMAIN s : Goes(s[i]) => \A q \in 1 .. Pendings(s, i) : <<q, "yes">> \in A

\* What the run has written and is about to write.
All == journal \o outbox

(***************************************************************************)
(* Inductive strengthening: an answer was read for its question; a line    *)
(* that is still waited for belongs to the last question; all questions    *)
(* but the one that is waited for were answered yes, and so it was         *)
(* wherever the run went on, in what is written and what will be.          *)
(***************************************************************************)
AnswersInv ==
    /\ \A q \in 1 .. asked : answers[q] \in {"yes", "no"} => <<q, answers[q]>> \in acts
    /\ prompt # 0 => screen.prompt = prompt
    /\ \A q \in readers : q = asked /\ screen.prompt = q /\ answers[q] = "open"
    /\ plan.front = "cli" /\ pc \in Stretches => readers = {}

FlowInv ==
    /\ WordsIn(All, acts) /\ GoingIn(All, acts)
    /\ Pendings(All, Len(All)) = IF pc = "ask" THEN asked + 1 ELSE asked
    /\ pc \in Stretches => \A q \in 1 .. asked : <<q, "yes">> \in acts
    /\ pc = "wait" => \A q \in 1 .. asked - 1 : <<q, "yes">> \in acts

-----------------------------------------------------------------------------
(* Frames and questions in sequences. *)

LEMMA PendingsAreFinite ==
    ASSUME NEW s, NEW i \in Nat
    PROVE  IsFiniteSet({j \in 1 .. i : s[j].what = "pending"}) /\ Pendings(s, i) \in Nat
<1>1. IsFiniteSet(1 .. i)
  BY FS_Interval
<1>2. IsFiniteSet({j \in 1 .. i : s[j].what = "pending"})
  BY <1>1, FS_Subset
<1> QED BY <1>2, FS_CardinalityType DEF Pendings

LEMMA PendingsAreKept ==
    ASSUME NEW s \in Seq(FrameSet), NEW t \in Seq(FrameSet), NEW i \in 0 .. Len(s)
    PROVE  Pendings(s \o t, i) = Pendings(s, i)
<1>1. \A j \in 1 .. i : (s \o t)[j] = s[j]
  BY ConcatProperties
<1>2. {j \in 1 .. i : (s \o t)[j].what = "pending"} = {j \in 1 .. i : s[j].what = "pending"}
  BY <1>1
<1> QED BY <1>2 DEF Pendings

LEMMA PendingsGrow ==
    ASSUME NEW s, NEW i \in Nat, NEW j \in Nat, i <= j
    PROVE  Pendings(s, i) <= Pendings(s, j)
<1>1. {k \in 1 .. i : s[k].what = "pending"} \in SUBSET {k \in 1 .. j : s[k].what = "pending"}
  OBVIOUS
<1>2. IsFiniteSet({k \in 1 .. j : s[k].what = "pending"})
  BY PendingsAreFinite
<1> QED BY <1>1, <1>2, FS_Subset DEF Pendings

LEMMA PendingCounts ==
    ASSUME NEW s, NEW i \in Nat \ {0}, s[i].what = "pending"
    PROVE  Pendings(s, i) = Pendings(s, i - 1) + 1
<1> DEFINE S == {k \in 1 .. i - 1 : s[k].what = "pending"}
           T == {k \in 1 .. i : s[k].what = "pending"}
<1>1. T = S \cup {i}
  <2>1. \A k \in 1 .. i : k \in 1 .. i - 1 \/ k = i
    OBVIOUS
  <2>2. \A k \in 1 .. i - 1 : k \in 1 .. i
    OBVIOUS
  <2>3. i \in 1 .. i
    OBVIOUS
  <2>4. T \subseteq S \cup {i}
    BY <2>1
  <2>5. S \cup {i} \subseteq T
    BY <2>2, <2>3
  <2> HIDE DEF S, T
  <2> QED BY <2>4, <2>5
<1>2. IsFiniteSet(S) /\ i \notin S
  <2>1. i - 1 \in Nat
    OBVIOUS
  <2>2. i \notin S
    OBVIOUS
  <2>3. S \in SUBSET (1 .. i - 1) /\ IsFiniteSet(1 .. i - 1)
    BY <2>1, FS_Interval
  <2> HIDE DEF S
  <2> QED BY <2>2, <2>3, FS_Subset
<1>3. Cardinality(S \cup {i}) = Cardinality(S) + 1
  BY <1>2, FS_AddElement
<1> QED BY <1>1, <1>3 DEF Pendings

LEMMA NothingPending ==
    ASSUME NEW s \in Seq(FrameSet), NEW t \in Seq(FrameSet),
           \A k \in DOMAIN t : t[k].what # "pending",
           NEW i \in Len(s) .. Len(s) + Len(t)
    PROVE  Pendings(s \o t, i) = Pendings(s, Len(s))
<1>1. Len(s) \in Nat /\ Len(t) \in Nat /\ DOMAIN t = 1 .. Len(t)
  OBVIOUS
<1>2. \A j \in 1 .. i : (s \o t)[j] = IF j <= Len(s) THEN s[j] ELSE t[j - Len(s)]
  BY ConcatProperties
<1>3. ASSUME NEW j \in 1 .. i, j > Len(s) PROVE (s \o t)[j].what # "pending"
  <2>1. j - Len(s) \in 1 .. Len(t)
    BY <1>1, <1>3
  <2> QED BY <1>1, <1>2, <1>3, <2>1
<1>4. {j \in 1 .. i : (s \o t)[j].what = "pending"} = {j \in 1 .. Len(s) : s[j].what = "pending"}
  <2>1. ASSUME NEW j \in 1 .. i, (s \o t)[j].what = "pending"
        PROVE  j \in 1 .. Len(s) /\ s[j].what = "pending"
    BY <1>1, <1>2, <1>3, <2>1
  <2>2. ASSUME NEW j \in 1 .. Len(s), s[j].what = "pending"
        PROVE  j \in 1 .. i /\ (s \o t)[j].what = "pending"
    BY <1>1, <1>2, <2>2
  <2> QED BY <2>1, <2>2
<1> QED BY <1>4 DEF Pendings

\* Frames that put no question, and say what n answered questions allow.
Follows(t, n, B) ==
    \A k \in DOMAIN t :
       /\ t[k].what # "pending"
       /\ t[k].type = "boundary" => t[k].what \in {"yes", "no"} /\ <<n, t[k].what>> \in B
       /\ Goes(t[k]) => \A q \in 1 .. n : <<q, "yes">> \in B

LEMMA Extending ==
    ASSUME NEW s \in Seq(FrameSet), NEW t \in Seq(FrameSet), NEW A,
           NEW n, n = Pendings(s, Len(s)), WordsIn(s, A), GoingIn(s, A), Follows(t, n, A)
    PROVE  /\ s \o t \in Seq(FrameSet)
           /\ WordsIn(s \o t, A) /\ GoingIn(s \o t, A)
           /\ Pendings(s \o t, Len(s \o t)) = n
<1> USE DEF Follows
<1>1. /\ s \o t \in Seq(FrameSet) /\ Len(s \o t) = Len(s) + Len(t)
      /\ Len(s) \in Nat /\ Len(t) \in Nat
      /\ DOMAIN s = 1 .. Len(s) /\ DOMAIN t = 1 .. Len(t)
      /\ DOMAIN (s \o t) = 1 .. Len(s) + Len(t)
  BY ConcatProperties
<1>2. \A i \in 1 .. Len(s) + Len(t) : (s \o t)[i] = IF i <= Len(s) THEN s[i] ELSE t[i - Len(s)]
  BY ConcatProperties
<1>3. ASSUME NEW i \in DOMAIN (s \o t)
      PROVE  \/ i \in DOMAIN s /\ (s \o t)[i] = s[i] /\ Pendings(s \o t, i) = Pendings(s, i)
             \/ /\ i - Len(s) \in DOMAIN t /\ (s \o t)[i] = t[i - Len(s)]
                /\ Pendings(s \o t, i) = n
  <2>1. CASE i <= Len(s)
    <3>1. i \in 0 .. Len(s) /\ i \in DOMAIN s
      BY <1>1, <2>1
    <3> QED BY <1>1, <1>2, <2>1, <3>1, PendingsAreKept
  <2>2. CASE ~(i <= Len(s))
    <3>1. i \in Len(s) .. Len(s) + Len(t) /\ i - Len(s) \in DOMAIN t
      BY <1>1, <2>2
    <3>2. Pendings(s \o t, i) = n
      BY <3>1, NothingPending
    <3> QED BY <1>1, <1>2, <2>2, <3>1, <3>2
  <2> QED BY <2>1, <2>2
<1>4. WordsIn(s \o t, A)
  BY <1>3 DEF WordsIn, Follows
<1>5. GoingIn(s \o t, A)
  <2> SUFFICES ASSUME NEW i \in DOMAIN (s \o t), Goes((s \o t)[i]),
                      NEW q \in 1 .. Pendings(s \o t, i)
               PROVE  <<q, "yes">> \in A
    BY DEF GoingIn
  <2>1. CASE i \in DOMAIN s /\ (s \o t)[i] = s[i] /\ Pendings(s \o t, i) = Pendings(s, i)
    BY <2>1 DEF GoingIn
  <2>2. CASE /\ i - Len(s) \in DOMAIN t /\ (s \o t)[i] = t[i - Len(s)]
             /\ Pendings(s \o t, i) = n
    BY <2>2
  <2> QED BY <1>3, <2>1, <2>2
<1>6. Len(s) + Len(t) \in Len(s) .. Len(s) + Len(t)
  BY <1>1
<1>7. Pendings(s \o t, Len(s \o t)) = n
  BY <1>1, <1>6, NothingPending
<1> QED BY <1>1, <1>4, <1>5, <1>7

\* A question is put.
LEMMA Putting ==
    ASSUME NEW s \in Seq(FrameSet), NEW f \in FrameSet, NEW A,
           NEW n, n = Pendings(s, Len(s)), WordsIn(s, A), GoingIn(s, A),
           f.what = "pending", f.type = "approval"
    PROVE  /\ Append(s, f) \in Seq(FrameSet)
           /\ WordsIn(Append(s, f), A) /\ GoingIn(Append(s, f), A)
           /\ Pendings(Append(s, f), Len(Append(s, f))) = n + 1
<1> DEFINE m == Len(s) + 1
<1>1. /\ Append(s, f) \in Seq(FrameSet) /\ Len(Append(s, f)) = m /\ Append(s, f)[m] = f
      /\ \A i \in 1 .. Len(s) : Append(s, f)[i] = s[i]
  BY AppendProperties
<1>2. /\ Len(s) \in Nat /\ m \in Nat \ {0} /\ m - 1 = Len(s) /\ DOMAIN s = 1 .. Len(s)
      /\ DOMAIN Append(s, f) = 1 .. m
  BY <1>1
<1>3. ASSUME NEW i \in 0 .. Len(s) PROVE Pendings(Append(s, f), i) = Pendings(s, i)
  <2>1. {j \in 1 .. i : Append(s, f)[j].what = "pending"} = {j \in 1 .. i : s[j].what = "pending"}
    BY <1>1, <1>2
  <2> QED BY <2>1 DEF Pendings
<1>4. Pendings(Append(s, f), m) = Pendings(Append(s, f), m - 1) + 1
  BY <1>1, <1>2, PendingCounts
<1>5. Pendings(Append(s, f), m) = n + 1
  <2>1. m - 1 \in 0 .. Len(s)
    BY <1>2
  <2> QED BY <1>2, <1>3, <1>4, <2>1
<1>6. f.type # "boundary" /\ ~Goes(f)
  BY DEF Goes
<1>7. ASSUME NEW i \in DOMAIN Append(s, f), i # m
      PROVE  /\ i \in DOMAIN s /\ Append(s, f)[i] = s[i]
             /\ Pendings(Append(s, f), i) = Pendings(s, i)
  <2>1. i \in 1 .. Len(s) /\ i \in 0 .. Len(s)
    BY <1>2, <1>7
  <2> QED BY <1>1, <1>2, <1>3, <2>1
<1> HIDE DEF m
<1>8. WordsIn(Append(s, f), A)
  BY <1>1, <1>6, <1>7 DEF WordsIn
<1>9. GoingIn(Append(s, f), A)
  <2> SUFFICES ASSUME NEW i \in DOMAIN Append(s, f), Goes(Append(s, f)[i]),
                      NEW q \in 1 .. Pendings(Append(s, f), i)
               PROVE  <<q, "yes">> \in A
    BY DEF GoingIn
  <2>1. i # m
    BY <1>1, <1>6
  <2> QED BY <1>7, <2>1 DEF GoingIn
<1> QED BY <1>1, <1>5, <1>8, <1>9

-----------------------------------------------------------------------------
(* Types. *)

LEMMA PlanTypes ==
    ASSUME Typed
    PROVE  /\ plan.steps \in Seq([node : Nodes, asks : BOOLEAN])
           /\ plan.front \in {"tui", "cli"}
           /\ pc \in {"running", "ask", "wait"} => Here.node \in Nodes
           /\ at <= Len(plan.steps) => Here.node \in Nodes
<1>1. plan.steps \in Seq([node : Nodes, asks : BOOLEAN]) /\ plan.front \in {"tui", "cli"}
  BY PlansAssumption DEF Typed
<1>2. ASSUME at <= Len(plan.steps) PROVE Here.node \in Nodes
  <2>1. at \in 1 .. Len(plan.steps)
    BY <1>1, <1>2 DEF Typed
  <2>2. plan.steps[at] \in [node : Nodes, asks : BOOLEAN]
    BY <1>1, <2>1, ElementOfSeq
  <2> QED BY <2>2 DEF Here
<1> QED BY <1>1, <1>2 DEF Typed

LEMMA FrameFields ==
    \A type, n, what, own :
        Frame(type, n, what, own).type = type /\ Frame(type, n, what, own).what = what
BY DEF Frame

LEMMA TransitionFields ==
    \A n, to : Transition(n, to).type = "transition" /\ Transition(n, to).what = to
BY DEF Transition, Frame

LEMMA QuestionFields ==
    \A n : /\ Frame("approval", n, "pending", TRUE).type = "approval"
           /\ Frame("approval", n, "pending", TRUE).what = "pending"
BY DEF Frame

LEMMA StartedFields ==
    /\ Frame("started", 0, "", TRUE).type = "started"
    /\ Frame("started", 0, "", TRUE).what = ""
BY DEF Frame

LEMMA FinishedFields ==
    \A status : /\ Frame("finished", 0, status, TRUE).type = "finished"
                /\ Frame("finished", 0, status, TRUE).what = status
BY DEF Frame

LEMMA FramesAreTyped ==
    ASSUME NEW n \in Nodes \cup {0}
    PROVE  /\ \A to \in {"running", "awaiting", "succeeded", "cancelled", "failed"} :
                 Transition(n, to) \in FrameSet
           /\ \A what \in {"pending", "approved", "rejected"} :
                 Frame("approval", n, what, TRUE) \in FrameSet
           /\ \A what \in {"yes", "no"} : Frame("boundary", n, what, TRUE) \in FrameSet
           /\ \A what \in {"succeeded", "failed", "cancelled", "exhausted"} :
                 Frame("finished", n, what, TRUE) \in FrameSet
BY DEF Transition, Frame, FrameSet

LEMMA RecordsAreTyped ==
    ASSUME Typed, pc = "running", NEW b \in Batches
    PROVE  /\ Records(b) \in Seq(FrameSet)
           /\ \A k \in DOMAIN Records(b) :
                 /\ Records(b)[k].what = "" /\ Records(b)[k].type \in {"call", "unit"}
                 /\ Records(b)[k].at = Here.node
<1>1. b \in Seq({"call", "unit"} \X BOOLEAN)
  BY BatchesAssumption
<1>2. Len(b) \in Nat /\ DOMAIN b = 1 .. Len(b)
  BY <1>1
<1>3. ASSUME NEW i \in 1 .. Len(b)
      PROVE  b[i][1] \in {"call", "unit"} /\ b[i][2] \in BOOLEAN
  <2>1. b[i] \in {"call", "unit"} \X BOOLEAN
    BY <1>1, <1>3, ElementOfSeq
  <2> QED BY <2>1
<1>4. Here.node \in Nodes
  BY PlanTypes
<1>5. \A i \in 1 .. Len(b) : Frame(b[i][1], Here.node, "", b[i][2]) \in FrameSet
  BY <1>3, <1>4 DEF Frame, FrameSet
<1>6. Records(b) = [i \in 1 .. Len(b) |-> Frame(b[i][1], Here.node, "", b[i][2])]
  BY <1>2 DEF Records
<1>7. Records(b) \in Seq(FrameSet)
  <2>1. Records(b) \in [1 .. Len(b) -> FrameSet]
    BY <1>5, <1>6
  <2> QED BY <1>2, <2>1, SeqDef
<1>8. DOMAIN Records(b) = 1 .. Len(b)
  BY <1>6
<1>9. \A i \in 1 .. Len(b) : Records(b)[i] = Frame(b[i][1], Here.node, "", b[i][2])
  BY <1>6
<1>10. \A i \in 1 .. Len(b) : /\ Records(b)[i].what = "" /\ Records(b)[i].type = b[i][1]
                              /\ Records(b)[i].at = Here.node
  <2> SUFFICES ASSUME NEW i \in 1 .. Len(b)
               PROVE  /\ Records(b)[i].what = "" /\ Records(b)[i].type = b[i][1]
                      /\ Records(b)[i].at = Here.node
    OBVIOUS
  <2>1. Records(b)[i] = Frame(b[i][1], Here.node, "", b[i][2])
    BY <1>9
  <2>2. PICK f : f = Records(b)[i]
    OBVIOUS
  <2>3. f = [type |-> b[i][1], at |-> Here.node, what |-> "", own |-> b[i][2]]
    BY <2>1, <2>2, Zenon DEF Frame
  <2>4. f.what = "" /\ f.type = b[i][1] /\ f.at = Here.node
    BY <2>3, Zenon
  <2> QED BY <2>2, <2>4
<1> QED BY <1>3, <1>7, <1>8, <1>10

\* The frames that the task is about to write are frames.
LEMMA SettledIsTyped ==
    ASSUME Typed, NEW n \in Nodes, NEW answer \in Replies
    PROVE  /\ Settled(n, answer) \in Seq(FrameSet)
           /\ \A k \in DOMAIN Settled(n, answer) :
                 LET f == Settled(n, answer)[k] IN
                 /\ f.what # "pending" /\ ~Goes(f)
                 /\ f.type = "boundary" => f.what = answer /\ answer \in {"yes", "no"}
<1> DEFINE a == Frame("approval", n, IF answer = "yes" THEN "approved" ELSE "rejected", TRUE)
           b == Frame("boundary", n, answer, TRUE)
           c == Transition(n, IF answer = "yes" THEN "succeeded" ELSE "cancelled")
           S == {f \in FrameSet :
                    /\ f.what # "pending" /\ ~Goes(f)
                    /\ f.type = "boundary" => f.what = answer /\ answer \in {"yes", "no"}}
           m == IF Acknowledged(answer) THEN <<b>> ELSE <<>>
<1>1. a \in S /\ c \in S
  BY DEF Frame, FrameSet, Transition, Goes
<1>2. answer \in {"yes", "no"} => b \in S
  BY DEF Frame, FrameSet, Goes
<1>3. Settled(n, answer) = (<<a>> \o m) \o <<c>>
  BY DEF Settled
<1>4. m = <<b>> \/ m = <<>>
  OBVIOUS
<1>5. m = <<b>> => b \in S \/ m = <<>>
  BY <1>2 DEF Acknowledged
<1> HIDE DEF a, b, c, S, m
<1>6. m \in Seq(S)
  <2>1. CASE m = <<>>
    BY <2>1, EmptySeq
  <2>2. CASE m = <<b>> /\ b \in S
    BY <2>2, Singleton
  <2> QED BY <1>4, <1>5, <2>1, <2>2
<1>7. <<a>> \in Seq(S) /\ <<c>> \in Seq(S)
  BY <1>1, Singleton
<1>8. <<a>> \o m \in Seq(S)
  BY <1>6, <1>7, ConcatProperties
<1>9. Settled(n, answer) \in Seq(S)
  BY <1>3, <1>7, <1>8, ConcatProperties
<1> HIDE DEF Settled
<1>10. \A k \in DOMAIN Settled(n, answer) : Settled(n, answer)[k] \in S
  BY <1>9, LenProperties, ElementOfSeq
<1>11. S \subseteq FrameSet
  BY DEF S
<1>12. Settled(n, answer) \in Seq(FrameSet)
  BY <1>9, <1>11, SeqMonotonic
<1> QED BY <1>10, <1>12 DEF S

LEMMA InitTyped ==
    ASSUME Init PROVE Typed
<1>1. Frame("started", 0, "", TRUE) \in FrameSet
  BY DEF Frame, FrameSet
<1>2. outbox \in Seq(FrameSet) /\ journal \in Seq(FrameSet) /\ requests \in Seq(1 .. asked)
      /\ answers \in Seq(Replies) /\ Len(answers) = 0
  <2>1. outbox = <<Frame("started", 0, "", TRUE)>> /\ journal = <<>> /\ requests = <<>> /\ answers = <<>>
    BY DEF Init
  <2> QED BY <1>1, <2>1, Singleton, EmptySeq
<1>3. plan.front \in {"tui", "cli"}
  BY PlansAssumption DEF Init
<1>4. /\ plan \in Plans /\ asked = 0 /\ at = 1 /\ pc = "next" /\ prompt = 0 /\ readers = {}
      /\ screen = [prompt |-> 0, finished |-> FALSE]
      /\ ui = IF plan.front = "tui" THEN "frames" ELSE "off"
  BY DEF Init
<1>5. screen \in [prompt : Nat, finished : BOOLEAN]
  BY <1>4
<1> QED BY <1>2, <1>3, <1>4, <1>5 DEF Typed, Places, Stretches

\* The steps of the run's task keep the types.
LEMMA WriteTyped ==
    ASSUME Typed, Write PROVE Typed'
<1>1. journal' \in Seq(FrameSet) /\ outbox' \in Seq(FrameSet)
  <2>1. outbox \in Seq(FrameSet) /\ outbox # <<>> /\ journal \in Seq(FrameSet)
    BY DEF Write, Typed
  <2>2. Head(outbox) \in FrameSet /\ Tail(outbox) \in Seq(FrameSet)
    BY <2>1, HeadTailProperties
  <2> QED BY <2>1, <2>2, AppendProperties DEF Write
<1> QED BY <1>1 DEF Typed, Write, loop

LEMMA VisitTyped ==
    ASSUME Typed, Visit PROVE Typed'
<1>1. outbox' \in Seq(FrameSet)
  <2>1. Transition(Here.node, "running") \in FrameSet
    BY PlanTypes, FramesAreTyped DEF Visit
  <2> QED BY <2>1, Singleton DEF Visit, Proceed
<1> QED BY <1>1 DEF Typed, Visit, Proceed, loop, Places, Stretches

\* What a node leaves behind before it asks or succeeds.
LEMMA WorkFrames ==
    ASSUME Typed, NEW b \in Batches, Work(b)
    PROVE  /\ Records(b) \o <<Transition(Here.node, "succeeded")>> \in Seq(FrameSet)
           /\ Records(b) \o <<Transition(Here.node, "awaiting")>> \in Seq(FrameSet)
           /\ Frame("approval", Here.node, "pending", TRUE) \in FrameSet
           /\ Records(b) \o <<Transition(Here.node, "awaiting"),
                              Frame("approval", Here.node, "pending", TRUE)>>
                = Append(Records(b) \o <<Transition(Here.node, "awaiting")>>,
                         Frame("approval", Here.node, "pending", TRUE))
<1>1. pc = "running" /\ Here.node \in Nodes
  BY PlanTypes DEF Work
<1>2. Records(b) \in Seq(FrameSet)
  BY <1>1, RecordsAreTyped
<1>3. /\ Transition(Here.node, "succeeded") \in FrameSet
      /\ Transition(Here.node, "awaiting") \in FrameSet
      /\ Frame("approval", Here.node, "pending", TRUE) \in FrameSet
  BY <1>1, FramesAreTyped
<1>4. ASSUME NEW r \in Seq(FrameSet), NEW x \in FrameSet, NEW y \in FrameSet
      PROVE  /\ r \o <<x>> \in Seq(FrameSet)
             /\ r \o <<x, y>> = Append(r \o <<x>>, y)
  OBVIOUS
<1> QED BY <1>2, <1>3, <1>4

LEMMA WorkTyped ==
    ASSUME Typed, NEW b \in Batches, Work(b) PROVE Typed'
<1>1. outbox' \in Seq(FrameSet)
  <2>1. CASE Here.asks
    <3>1. outbox' = Append(Records(b) \o <<Transition(Here.node, "awaiting")>>,
                         Frame("approval", Here.node, "pending", TRUE))
      BY <2>1, WorkFrames DEF Work, Proceed
    <3> QED BY <3>1, WorkFrames, AppendProperties
  <2>2. CASE ~Here.asks
    BY <2>2, WorkFrames DEF Work, Proceed
  <2> QED BY <2>1, <2>2
<1>2. /\ pc' \in {"next", "ask"} /\ at' \in Nat \ {0}
      /\ pc' = "ask" => at' = at
      /\ pc = "running"
  BY DEF Work, Proceed, Typed
<1>3. UNCHANGED <<plan, journal, asked, answers, loop, screen, readers>>
  BY DEF Work, Proceed
<1> QED BY <1>1, <1>2, <1>3 DEF Typed, loop, Places, Stretches

LEMMA StoppedTyped ==
    ASSUME Typed, Stopped PROVE Typed'
<1>1. outbox' \in Seq(FrameSet)
  <2>1. Transition(Here.node, "cancelled") \in FrameSet
    BY PlanTypes, FramesAreTyped DEF Stopped, Proceed
  <2> QED BY <2>1, Singleton DEF Stopped, Proceed
<1> QED BY <1>1 DEF Typed, Stopped, Proceed, loop, Places, Stretches

LEMMA ErrsTyped ==
    ASSUME Typed, Errs PROVE Typed'
<1>1. outbox' \in Seq(FrameSet)
  <2>1. Transition(Here.node, "failed") \in FrameSet
    BY PlanTypes, FramesAreTyped DEF Errs, Proceed
  <2>2. Frame("finished", 0, "failed", TRUE) \in FrameSet
    BY DEF Frame, FrameSet
  <2>3. ASSUME NEW x \in FrameSet, NEW y \in FrameSet PROVE <<x, y>> \in Seq(FrameSet)
    OBVIOUS
  <2> QED BY <2>1, <2>2, <2>3 DEF Errs, Proceed
<1> QED BY <1>1 DEF Typed, Errs, Proceed, loop, Places, Stretches

LEMMA QuestionsGrow ==
    ASSUME NEW n \in Nat, NEW m \in Nat, n <= m, NEW s \in Seq(1 .. n)
    PROVE  s \in Seq(1 .. m)
<1>1. 1 .. n \subseteq 1 .. m
  OBVIOUS
<1> QED BY <1>1, SeqMonotonic

LEMMA AskTuiTyped ==
    ASSUME Typed, AskTui PROVE Typed'
<1>1. outbox' \in Seq(FrameSet) /\ asked' = asked + 1 /\ asked' \in Nat \ {0}
  BY EmptySeq DEF AskTui, Proceed, Typed
<1>2. answers' \in Seq(Replies) /\ Len(answers') = asked'
  BY AppendProperties DEF AskTui, Typed, Replies
<1>3. requests' \in Seq(1 .. asked')
  <2>1. requests \in Seq(1 .. asked') /\ asked' \in 1 .. asked'
    BY <1>1, QuestionsGrow DEF Typed
  <2> QED BY <2>1, AppendProperties DEF AskTui
<1> QED BY <1>1, <1>2, <1>3 DEF Typed, AskTui, Proceed, Places, Stretches

LEMMA AskCliTyped ==
    ASSUME Typed, NEW printed \in BOOLEAN, AskCli(printed) PROVE Typed'
<1>1. outbox' \in Seq(FrameSet) /\ asked' = asked + 1 /\ asked' \in Nat \ {0}
  BY EmptySeq DEF AskCli, Proceed, Typed
<1>2. answers' \in Seq(Replies) /\ Len(answers') = asked'
  BY AppendProperties DEF AskCli, Typed, Replies
<1>3. requests' \in Seq(1 .. asked')
  BY <1>1, QuestionsGrow DEF Typed, AskCli, loop
<1>4. readers' \subseteq 1 .. asked'
  BY <1>1 DEF AskCli, Typed
<1>5. screen' \in [prompt : Nat, finished : BOOLEAN]
  BY <1>1 DEF AskCli, Typed
<1> QED BY <1>1, <1>2, <1>3, <1>4, <1>5 DEF Typed, AskCli, Proceed, loop, Places, Stretches

LEMMA ResolutionIsAReply ==
    ASSUME Typed, pc = "wait"
    PROVE  Resolution \in Replies
<1>1. asked \in DOMAIN answers
  BY DEF Typed
<1>2. answers[asked] \in Replies
  BY <1>1, ElementOfSeq DEF Typed
<1> QED BY <1>2 DEF Resolution, Replies

LEMMA ResolveTyped ==
    ASSUME Typed, Resolve PROVE Typed'
<1>1. outbox' \in Seq(FrameSet)
  <2>1. Here.node \in Nodes /\ Resolution \in Replies
    BY PlanTypes, ResolutionIsAReply DEF Resolve
  <2> QED BY <2>1, SettledIsTyped DEF Resolve, Proceed
<1>2. pc' \in {"next", "exhausted", "cancelled"} /\ at' \in Nat \ {0}
  BY DEF Resolve, Proceed, Typed
<1>3. UNCHANGED <<plan, journal, asked, answers, loop, screen, readers>>
  BY DEF Resolve, Proceed
<1> QED BY <1>1, <1>2, <1>3 DEF Typed, loop, Places, Stretches

LEMMA FinishTyped ==
    ASSUME Typed, Finish PROVE Typed'
<1>1. pc' = "ended" /\ UNCHANGED <<plan, journal, at, asked, answers, loop, screen, readers>>
      /\ \E status \in {"succeeded", "failed", "cancelled", "exhausted"} :
            outbox' = <<Frame("finished", 0, status, TRUE)>>
  BY DEF Finish, Proceed
<1>2. outbox' \in Seq(FrameSet)
  <2>1. PICK status \in {"succeeded", "failed", "cancelled", "exhausted"} :
            outbox' = <<Frame("finished", 0, status, TRUE)>>
    BY <1>1
  <2>2. Frame("finished", 0, status, TRUE) \in FrameSet
    BY DEF Frame, FrameSet
  <2> QED BY <2>1, <2>2, Singleton
<1> QED BY <1>1, <1>2 DEF Typed, loop, Places, Stretches

(***************************************************************************)
(* The loop, the readers and the person keep the types.                    *)
(***************************************************************************)
LEMMA OnScreen ==
    ASSUME Typed, ui # "off"
    PROVE  plan.front = "tui" /\ readers = {}
BY PlanTypes DEF Typed

LEMMA DropKeepsReplies ==
    ASSUME Typed, NEW qs, Drop(qs)
    PROVE  /\ answers' \in Seq(Replies) /\ Len(answers') = asked
           /\ \A q \in 1 .. asked : answers'[q] \in {"yes", "no"} => answers[q] = answers'[q]
<1>1. /\ answers \in Seq(Replies) /\ Len(answers) = asked /\ asked \in Nat
      /\ DOMAIN answers = 1 .. asked
  BY DEF Typed
<1>2. answers' = [q \in 1 .. asked |->
                   IF q \in qs /\ answers[q] = "open" THEN "abandoned" ELSE answers[q]]
  BY <1>1 DEF Drop
<1>3. \A q \in 1 .. asked : answers[q] \in Replies
  BY <1>1, ElementOfSeq
<1>4. \A q \in 1 .. asked : answers'[q] \in Replies
  BY <1>2, <1>3 DEF Replies
<1>5. answers' \in [1 .. asked -> Replies]
  BY <1>2, <1>4
<1> QED BY <1>1, <1>2, <1>5, SeqDef, LenProperties

LEMMA ReplyKeepsReplies ==
    ASSUME Typed, NEW p \in 1 .. asked, NEW answer \in Replies,
           answers' = [answers EXCEPT ![p] = IF @ = "open" THEN answer ELSE @]
    PROVE  /\ answers' \in Seq(Replies) /\ Len(answers') = asked
           /\ \A q \in 1 .. asked \ {p} : answers'[q] = answers[q]
           /\ answers'[p] = answers[p] \/ answers'[p] = answer
<1>1. /\ answers \in Seq(Replies) /\ Len(answers) = asked /\ asked \in Nat
      /\ DOMAIN answers = 1 .. asked
  BY DEF Typed
<1>2. (IF answers[p] = "open" THEN answer ELSE answers[p]) \in Replies
  BY <1>1, ElementOfSeq
<1> QED BY <1>1, <1>2, ExceptSeq

LEMMA DrainFrameTyped ==
    ASSUME Typed, DrainFrame PROVE Typed'
BY OnScreen DEF Typed, DrainFrame, Ui, run

LEMMA DrainQuestionsTyped ==
    ASSUME Typed, DrainQuestions PROVE Typed'
<1>1. plan.front = "tui" /\ readers = {}
  BY OnScreen DEF DrainQuestions, Ui
<1>2. answers' \in Seq(Replies) /\ Len(answers') = asked
  <2>1. PICK qs : qs = (ToSet(requests) \cup {prompt}) \ {prompt'}
    OBVIOUS
  <2>2. Drop(qs)
    BY <2>1 DEF DrainQuestions
  <2> QED BY <2>2, DropKeepsReplies
<1>3. prompt' \in 0 .. asked /\ asked \in Nat
  <2>1. requests \in Seq(1 .. asked) /\ prompt \in 0 .. asked /\ asked \in Nat
    BY DEF Typed
  <2>2. requests # <<>> => requests[Len(requests)] \in 1 .. asked
    <3>1. requests # <<>> => Len(requests) \in 1 .. Len(requests)
      BY <2>1, EmptySeq, LenProperties
    <3> QED BY <2>1, <3>1, ElementOfSeq
  <2> QED BY <2>1, <2>2 DEF DrainQuestions
<1>4. requests' \in Seq(1 .. asked)
  BY EmptySeq DEF DrainQuestions
<1>5. screen' \in [prompt : Nat, finished : BOOLEAN]
  <2>1. Ended(view) \in BOOLEAN
    BY DEF Ended
  <2>2. screen' = [prompt |-> prompt', finished |-> Ended(view)]
    BY DEF DrainQuestions
  <2> QED BY <1>3, <2>1, <2>2
<1>6. ui' # "off" /\ UNCHANGED <<plan, run, readers>>
  BY DEF DrainQuestions, Ui
<1> QED BY <1>1, <1>2, <1>3, <1>4, <1>5, <1>6 DEF Typed, run

LEMMA VerdictTypes ==
    \A key : Verdict(key) \in {"yes", "no", "abandoned", "none"}
BY DEF Verdict

LEMMA HandleKeyTyped ==
    ASSUME Typed, HandleKey PROVE Typed'
<1>1. plan.front = "tui" /\ readers = {}
  BY OnScreen DEF HandleKey, Ui
<1>2. PICK verdict : verdict = Verdict(Head(input))
  OBVIOUS
<1>3. answers' \in Seq(Replies) /\ Len(answers') = asked /\ prompt' \in 0 .. asked
  <2>1. CASE prompt # 0 /\ verdict # "none"
    <3>1. /\ answers' = [answers EXCEPT ![prompt] = IF @ = "open" THEN verdict ELSE @]
          /\ prompt' = 0
      BY <1>2, <2>1 DEF HandleKey, Reply
    <3>2. prompt \in 1 .. asked /\ verdict \in Replies
      BY <1>2, <2>1, VerdictTypes DEF Typed, Replies
    <3> QED BY <3>1, <3>2, ReplyKeepsReplies DEF Typed
  <2>2. CASE ~(prompt # 0 /\ verdict # "none")
    BY <1>2, <2>2 DEF HandleKey, Typed
  <2> QED BY <2>1, <2>2
<1>4. ui' # "off" /\ UNCHANGED <<plan, run, readers, requests, screen>>
  BY DEF HandleKey, Ui
<1> QED BY <1>1, <1>3, <1>4 DEF Typed, run

LEMMA TakePromptTyped ==
    ASSUME Typed, TakePrompt PROVE Typed'
<1>1. plan.front = "tui" /\ readers = {}
  BY OnScreen DEF TakePrompt, Ui
<1>2. answers' \in Seq(Replies) /\ Len(answers') = asked
  <2>1. PICK qs : qs = {prompt}
    OBVIOUS
  <2>2. Drop(qs)
    BY <2>1 DEF TakePrompt
  <2> QED BY <2>2, DropKeepsReplies
<1> QED BY <1>1, <1>2 DEF Typed, TakePrompt, Ui, run

LEMMA ReadLineTyped ==
    ASSUME Typed, NEW r \in readers, ReadLine(r) PROVE Typed'
<1>1. r \in 1 .. asked
  BY DEF Typed
<1>2. PICK answer : answer = Decision(Head(input))
  OBVIOUS
<1>3. answer \in Replies
  BY <1>2 DEF Decision, Replies
<1>4. answers' = [answers EXCEPT ![r] = IF @ = "open" THEN answer ELSE @]
  BY <1>2 DEF ReadLine
<1>5. answers' \in Seq(Replies) /\ Len(answers') = asked
  BY <1>1, <1>3, <1>4, ReplyKeepsReplies
<1>6. readers' = readers \ {r} /\ UNCHANGED <<plan, run, loop, screen>>
  BY DEF ReadLine
<1> QED BY <1>5, <1>6 DEF Typed, run, loop

LEMMA NextTyped ==
    ASSUME Typed, [Next]_vars PROVE Typed'
<1>1. CASE Task
  BY <1>1, WriteTyped, VisitTyped, WorkTyped, StoppedTyped, ErrsTyped, AskTuiTyped,
     AskCliTyped, ResolveTyped, FinishTyped DEF Task
<1>2. CASE Expire
  BY <1>2 DEF Typed, Expire, run, loop
<1>3. CASE Screen
  <2>1. ASSUME TapIsEmpty \/ NoKey \/ TerminalFails \/ CloseChannel
                \/ CancelRun \/ Join
         PROVE  Typed'
    <3>1. /\ ui # "off" /\ ui' # "off"
          /\ UNCHANGED <<plan, run, answers, requests, prompt, screen, readers>>
      BY <2>1 DEF TapIsEmpty, NoKey, TerminalFails, CloseChannel, CancelRun, Join, Ui
    <3> QED BY <3>1, OnScreen DEF Typed, run
  <2> QED BY <1>3, <2>1, DrainFrameTyped, DrainQuestionsTyped, HandleKeyTyped, TakePromptTyped
          DEF Screen
<1>4. CASE Interrupt
  BY <1>4 DEF Typed, Interrupt, run, loop
<1>5. CASE Reader
  BY <1>5, ReadLineTyped DEF Reader
<1>6. CASE \E key \in Keys : Press(key)
  BY <1>6 DEF Typed, Press, run, loop
<1>7. CASE UNCHANGED vars
  BY <1>7 DEF Typed, vars, run, loop
<1> QED BY <1>1, <1>2, <1>3, <1>4, <1>5, <1>6, <1>7 DEF Next

-----------------------------------------------------------------------------
(* Answers. *)

\* Steps that touch no question and no reader.
LEMMA AnswersAside ==
    ASSUME AnswersInv, UNCHANGED <<plan, asked, answers, prompt, screen, readers>>,
           acts \subseteq acts',
           plan.front = "cli" /\ pc' \in Stretches => readers = {}
    PROVE  AnswersInv'
BY DEF AnswersInv, Stretches

LEMMA TaskAnswers ==
    ASSUME Typed, AnswersInv, Task PROVE AnswersInv'
<1>1. CASE Write
  BY <1>1, AnswersAside DEF Write, loop, human, AnswersInv
<1>2. CASE Visit \/ (\E b \in Batches : Work(b)) \/ Stopped \/ Errs \/ Finish
  <2>1. /\ UNCHANGED <<plan, asked, answers, prompt, screen, readers, acts>>
        /\ pc \in Stretches \/ pc' \notin Stretches
    BY <1>2 DEF Visit, Work, Stopped, Errs, Finish, Proceed, loop, human, Stretches
  <2> QED BY <2>1, AnswersAside DEF AnswersInv
<1>3. CASE Resolve
  <2>1. /\ UNCHANGED <<plan, asked, answers, prompt, screen, readers, acts>>
        /\ pc' \in Stretches => Resolution = "yes"
    BY <1>3 DEF Resolve, Proceed, Granted, loop, human, Stretches
  <2>2. Resolution = "yes" => answers[asked] = "yes"
    BY DEF Resolution
  <2>3. answers[asked] = "yes" => readers = {}
    BY DEF AnswersInv
  <2> QED BY <2>1, <2>2, <2>3, AnswersAside
<1>4. CASE AskTui
  <2>1. /\ UNCHANGED <<plan, prompt, screen, readers, acts>> /\ asked' = asked + 1
        /\ plan.front = "tui" /\ readers = {}
    BY <1>4 DEF AskTui, Proceed, Typed, human
  <2>2. /\ \A q \in 1 .. asked : answers'[q] = answers[q]
        /\ answers'[asked'] \in {"open", "abandoned"}
    BY <1>4, <2>1, AppendProperties DEF AskTui, Typed, Replies
  <2>3. \A q \in 1 .. asked' : q \in 1 .. asked \/ q = asked'
    BY <2>1 DEF Typed
  <2> QED BY <2>1, <2>2, <2>3 DEF AnswersInv
<1>5. CASE \E printed \in BOOLEAN : AskCli(printed)
  <2>1. PICK printed \in BOOLEAN : AskCli(printed)
    BY <1>5
  <2>2. /\ UNCHANGED <<plan, prompt, acts>> /\ asked' = asked + 1
        /\ plan.front = "cli" /\ prompt = 0 /\ readers = {}
        /\ pc' = "wait"
    BY <2>1 DEF AskCli, Proceed, Typed, human, loop, AnswersInv, Stretches
  <2>3. /\ \A q \in 1 .. asked : answers'[q] = answers[q]
        /\ answers'[asked'] = IF printed THEN "open" ELSE "abandoned"
    BY <2>1, <2>2, AppendProperties DEF AskCli, Typed, Replies
  <2>4. readers' = IF printed THEN {asked'} ELSE {}
    BY <2>1, <2>2 DEF AskCli
  <2>5. printed => screen'.prompt = asked'
    BY <2>1 DEF AskCli, Typed
  <2>6. \A q \in 1 .. asked' : q \in 1 .. asked \/ q = asked'
    BY <2>2 DEF Typed
  <2>7. \A q \in readers' : q = asked' /\ screen'.prompt = q /\ answers'[q] = "open"
    BY <2>3, <2>4, <2>5
  <2>8. \A q \in 1 .. asked' : answers'[q] \in {"yes", "no"} => <<q, answers'[q]>> \in acts'
    BY <2>2, <2>3, <2>6 DEF AnswersInv
  <2> QED BY <2>2, <2>7, <2>8 DEF AnswersInv, Stretches
<1> QED BY <1>1, <1>2, <1>3, <1>4, <1>5 DEF Task

LEMMA ScreenAnswers ==
    ASSUME Typed, AnswersInv, Screen PROVE AnswersInv'
<1>1. plan.front = "tui" /\ readers = {}
  BY OnScreen DEF Screen, DrainFrame, TapIsEmpty, DrainQuestions, HandleKey, NoKey, TerminalFails,
     CloseChannel, TakePrompt, CancelRun, Join, Ui
<1>2. CASE DrainFrame \/ TapIsEmpty \/ NoKey \/ TerminalFails \/ CloseChannel \/ CancelRun \/ Join
  <2>1. UNCHANGED <<plan, asked, answers, prompt, screen, readers, acts>>
    BY <1>2 DEF DrainFrame, TapIsEmpty, NoKey, TerminalFails, CloseChannel, CancelRun, Join, Ui, run
  <2> QED BY <1>1, <2>1, AnswersAside
<1>3. CASE DrainQuestions
  <2>1. PICK qs : qs = (ToSet(requests) \cup {prompt}) \ {prompt'}
    OBVIOUS
  <2>2. Drop(qs)
    BY <1>3, <2>1 DEF DrainQuestions
  <2>3. /\ UNCHANGED <<plan, asked, readers, acts>>
        /\ screen' = [prompt |-> prompt', finished |-> Ended(view)]
    BY <1>3 DEF DrainQuestions, Ui, run
  <2>4. screen'.prompt = prompt'
    BY <2>3
  <2> QED BY <1>1, <2>2, <2>3, <2>4, DropKeepsReplies DEF AnswersInv
<1>4. CASE HandleKey
  <2>1. PICK verdict : verdict = Verdict(Head(input))
    OBVIOUS
  <2>2. UNCHANGED <<plan, asked, readers, screen>>
    BY <1>4 DEF HandleKey, Ui, run
  <2>3. CASE prompt # 0 /\ verdict # "none"
    <3>1. /\ answers' = [answers EXCEPT ![prompt] = IF @ = "open" THEN verdict ELSE @]
          /\ prompt' = 0 /\ acts' = acts \cup {<<screen.prompt, verdict>>}
      BY <1>4, <2>1, <2>3 DEF HandleKey, Reply
    <3>2. prompt \in 1 .. asked /\ verdict \in Replies
      BY <2>1, <2>3, VerdictTypes DEF Typed, Replies
    <3>3. /\ \A q \in 1 .. asked \ {prompt} : answers'[q] = answers[q]
          /\ answers'[prompt] = answers[prompt] \/ answers'[prompt] = verdict
      BY <3>1, <3>2, ReplyKeepsReplies
    <3>4. screen.prompt = prompt
      BY <2>3 DEF AnswersInv
    <3>5. \A q \in 1 .. asked : answers'[q] \in {"yes", "no"} => <<q, answers'[q]>> \in acts'
      BY <3>1, <3>2, <3>3, <3>4 DEF AnswersInv
    <3> QED BY <1>1, <2>2, <3>1, <3>5 DEF AnswersInv
  <2>4. CASE ~(prompt # 0 /\ verdict # "none")
    <3>1. UNCHANGED <<answers, prompt, acts>>
      BY <1>4, <2>1, <2>4 DEF HandleKey
    <3> QED BY <1>1, <2>2, <3>1, AnswersAside
  <2> QED BY <2>3, <2>4
<1>5. CASE TakePrompt
  <2>1. PICK qs : qs = {prompt}
    OBVIOUS
  <2>2. Drop(qs)
    BY <1>5, <2>1 DEF TakePrompt
  <2>3. UNCHANGED <<plan, asked, readers, screen, acts>> /\ prompt' = 0
    BY <1>5 DEF TakePrompt, Ui, run
  <2> QED BY <1>1, <2>2, <2>3, DropKeepsReplies DEF AnswersInv
<1> QED BY <1>2, <1>3, <1>4, <1>5 DEF Screen

LEMMA ReadLineAnswers ==
    ASSUME Typed, AnswersInv, NEW r \in readers, ReadLine(r) PROVE AnswersInv'
<1>1. r \in 1 .. asked /\ r = asked /\ screen.prompt = r /\ answers[r] = "open" /\ readers = {r}
  BY DEF Typed, AnswersInv
<1>2. PICK answer : answer = Decision(Head(input))
  OBVIOUS
<1>3. answer \in Replies
  BY <1>2 DEF Decision, Replies
<1>4. /\ answers' = [answers EXCEPT ![r] = IF @ = "open" THEN answer ELSE @]
      /\ acts' = acts \cup {<<r, answer>>} /\ readers' = {}
      /\ UNCHANGED <<plan, asked, prompt, screen>>
  BY <1>1, <1>2 DEF ReadLine, run, loop
<1>5. /\ \A q \in 1 .. asked \ {r} : answers'[q] = answers[q]
      /\ answers'[r] = answers[r] \/ answers'[r] = answer
  BY <1>1, <1>3, <1>4, ReplyKeepsReplies
<1>6. \A q \in 1 .. asked : answers'[q] \in {"yes", "no"} => <<q, answers'[q]>> \in acts'
  BY <1>1, <1>4, <1>5 DEF AnswersInv
<1> QED BY <1>4, <1>6 DEF AnswersInv

LEMMA NextAnswers ==
    ASSUME Typed, AnswersInv, [Next]_vars PROVE AnswersInv'
<1>1. CASE Expire \/ Interrupt \/ (\E key \in Keys : Press(key)) \/ UNCHANGED vars
  <2>1. UNCHANGED <<plan, pc, asked, answers, prompt, screen, readers, acts>>
    BY <1>1 DEF Expire, Interrupt, Press, vars, run, loop, human
  <2> QED BY <2>1, AnswersAside DEF AnswersInv
<1>2. CASE Reader
  BY <1>2, ReadLineAnswers DEF Reader
<1> QED BY <1>1, <1>2, TaskAnswers, ScreenAnswers DEF Next

-----------------------------------------------------------------------------
(* The run. *)

\* Steps that change nothing of what the run says.
LEMMA FlowAside ==
    ASSUME FlowInv, UNCHANGED <<pc, asked, All>>, acts \subseteq acts'
    PROVE  FlowInv'
<1>1. PICK s, A, B : s = All /\ s = All' /\ A = acts /\ B = acts' /\ A \subseteq B
  OBVIOUS
<1>2. WordsIn(s, B) /\ GoingIn(s, B)
  <2>1. WordsIn(s, A) /\ GoingIn(s, A)
    BY <1>1 DEF FlowInv
  <2> QED BY <1>1, <2>1 DEF WordsIn, GoingIn
<1> QED BY <1>1, <1>2 DEF FlowInv

\* A task's step that puts no question.
LEMMA FlowExtends ==
    ASSUME Typed, FlowInv, pc # "ask", outbox = <<>>, UNCHANGED <<journal, asked, acts>>,
           NEW t \in Seq(FrameSet), outbox' = t, pc' # "ask",
           Follows(t, asked, acts),
           pc' \in Stretches => \A q \in 1 .. asked : <<q, "yes">> \in acts,
           pc' # "wait"
    PROVE  FlowInv'
<1>1. PICK s, A, n, u : s = All /\ A = acts /\ n = asked /\ u = s \o t
  OBVIOUS
<1>2. s = journal /\ s \in Seq(FrameSet) /\ All' = u /\ acts' = A /\ asked' = n
  <2>1. journal \in Seq(FrameSet)
    BY DEF Typed
  <2>2. journal \o <<>> = journal
    BY <2>1
  <2>3. All = journal /\ All' = journal \o t
    BY <2>2 DEF All
  <2> QED BY <1>1, <2>1, <2>3
<1>3. n = Pendings(s, Len(s)) /\ WordsIn(s, A) /\ GoingIn(s, A)
  BY <1>1 DEF FlowInv
<1>4. WordsIn(u, A) /\ GoingIn(u, A) /\ Pendings(u, Len(u)) = n
  <2>1. s \in Seq(FrameSet) /\ u = s \o t /\ Follows(t, n, A)
    BY <1>1, <1>2
  <2> QED BY <1>3, <2>1, Extending
<1> QED BY <1>1, <1>2, <1>4 DEF FlowInv

LEMMA AppendingLast ==
    ASSUME NEW s \in Seq(FrameSet), NEW t \in Seq(FrameSet), NEW f \in FrameSet
    PROVE  s \o Append(t, f) = Append(s \o t, f)
<1>1. <<f>> \in Seq(FrameSet) /\ s \o t \in Seq(FrameSet)
  BY Singleton, ConcatProperties
<1>2. Append(t, f) = t \o <<f>> /\ Append(s \o t, f) = (s \o t) \o <<f>>
  BY <1>1, AppendIsConcat
<1> QED BY <1>1, <1>2, ConcatAssociative

LEMMA OneFrame ==
    ASSUME NEW f \in FrameSet
    PROVE  <<f>> \in Seq(FrameSet) /\ DOMAIN <<f>> = {1} /\ <<f>>[1] = f
BY Singleton

\* A position of a sequence that one frame was added to.
LEMMA OneMore ==
    ASSUME NEW r \in Seq(FrameSet), NEW e \in FrameSet, NEW k \in DOMAIN (r \o <<e>>)
    PROVE  (k \in DOMAIN r /\ (r \o <<e>>)[k] = r[k]) \/ (r \o <<e>>)[k] = e
<1>1. PICK w : w = <<e>>
  OBVIOUS
<1>2. w \in Seq(FrameSet) /\ DOMAIN w = {1} /\ w[1] = e /\ k \in DOMAIN (r \o w)
  BY <1>1, OneFrame
<1>3. \/ k \in DOMAIN r /\ (r \o w)[k] = r[k]
      \/ k - Len(r) \in DOMAIN w /\ (r \o w)[k] = w[k - Len(r)]
  BY <1>2, Positions
<1> QED BY <1>1, <1>2, <1>3

LEMMA TaskFlow ==
    ASSUME Typed, AnswersInv, FlowInv, Task PROVE FlowInv'
<1>1. CASE Write
  <2>1. PICK f, t : f = Head(outbox) /\ t = Tail(outbox)
    OBVIOUS
  <2>2. /\ journal \in Seq(FrameSet) /\ outbox \in Seq(FrameSet) /\ outbox # <<>>
        /\ journal' = Append(journal, f) /\ outbox' = t
        /\ UNCHANGED <<pc, asked, acts>>
    BY <1>1, <2>1 DEF Write, Typed, human
  <2>3. f \in FrameSet /\ t \in Seq(FrameSet) /\ outbox = <<f>> \o t
    BY <2>1, <2>2
  <2>4. Append(journal, f) \o t = journal \o (<<f>> \o t)
    BY <2>2, <2>3
  <2> QED BY <2>2, <2>3, <2>4, FlowAside DEF All
<1>2. CASE Visit
  <2>1. PICK f : f = Transition(Here.node, "running")
    OBVIOUS
  <2>2. /\ pc = "next" /\ pc' = "running" /\ outbox = <<>> /\ outbox' = <<f>>
        /\ UNCHANGED <<journal, asked, acts>>
    BY <1>2, <2>1 DEF Visit, Proceed, human
  <2>3. f \in FrameSet
    BY <1>2, <2>1, PlanTypes, FramesAreTyped DEF Visit
  <2>4. f.type = "transition" /\ f.what = "running"
    BY <2>1, TransitionFields, FrameFields
  <2>5. \A q \in 1 .. asked : <<q, "yes">> \in acts
    BY <2>2 DEF FlowInv, Stretches
  <2>6. PICK t : t = <<f>>
    OBVIOUS
  <2>7. t \in Seq(FrameSet) /\ DOMAIN t = {1} /\ t[1] = f
    BY <2>3, <2>6, OneFrame
  <2>8. Follows(t, asked, acts)
    BY <2>4, <2>5, <2>7 DEF Follows
  <2> QED BY <2>2, <2>5, <2>6, <2>7, <2>8, FlowExtends DEF Stretches
<1>3. ASSUME NEW b \in Batches, Work(b) PROVE FlowInv'
  <2>1. PICK r, x, y, z : /\ r = Records(b) /\ x = Transition(Here.node, "awaiting")
                         /\ y = Frame("approval", Here.node, "pending", TRUE)
                         /\ z = Transition(Here.node, "succeeded")
    OBVIOUS
  <2>2. /\ pc = "running" /\ outbox = <<>> /\ UNCHANGED <<journal, asked, acts>>
    BY <1>3 DEF Work, Proceed, human
  <2>3. \A q \in 1 .. asked : <<q, "yes">> \in acts
    BY <2>2 DEF FlowInv, Stretches
  <2>4. /\ x.what = "awaiting" /\ x.type = "transition"
        /\ z.what = "succeeded" /\ z.type = "transition"
        /\ y.what = "pending" /\ y.type = "approval"
    BY <2>1, TransitionFields, QuestionFields
  <2>5. x \in FrameSet /\ y \in FrameSet /\ z \in FrameSet /\ r \in Seq(FrameSet)
        /\ \A k \in DOMAIN r : r[k].what = "" /\ r[k].type \in {"call", "unit"}
    BY <2>1, <2>2, PlanTypes, FramesAreTyped, RecordsAreTyped
  <2>6. ASSUME NEW e \in FrameSet, e.what \in {"awaiting", "succeeded"}, e.type = "transition"
        PROVE  /\ r \o <<e>> \in Seq(FrameSet)
               /\ \A k \in DOMAIN (r \o <<e>>) :
                     /\ (r \o <<e>>)[k].what # "pending"
                     /\ (r \o <<e>>)[k].type # "boundary"
                     /\ ~Goes((r \o <<e>>)[k])
    <3>1. <<e>> \in Seq(FrameSet) /\ DOMAIN <<e>> = {1} /\ <<e>>[1] = e
      BY OneFrame
    <3>2. r \o <<e>> \in Seq(FrameSet)
      BY <2>5, <3>1, ConcatProperties
    <3>3. ASSUME NEW k \in DOMAIN (r \o <<e>>)
          PROVE  (k \in DOMAIN r /\ (r \o <<e>>)[k] = r[k]) \/ (r \o <<e>>)[k] = e
      <4>1. r \in Seq(FrameSet)
        BY <2>5
      <4> QED BY <4>1, OneMore
    <3>4. e.what # "pending" /\ e.type # "boundary" /\ ~Goes(e)
      BY <2>6 DEF Goes
    <3>5. \A k \in DOMAIN r : r[k].what # "pending" /\ r[k].type # "boundary" /\ ~Goes(r[k])
      BY <2>5 DEF Goes
    <3> QED BY <3>2, <3>3, <3>4, <3>5
  <2>7. CASE Here.asks
    <3>1. PICK t : t = r \o <<x>>
      OBVIOUS
    <3>2. pc' = "ask" /\ outbox' = Append(t, y)
      BY <1>3, <2>1, <2>7, <3>1, WorkFrames DEF Work, Proceed
    <3>3. /\ t \in Seq(FrameSet)
          /\ \A k \in DOMAIN t : t[k].what # "pending" /\ t[k].type # "boundary" /\ ~Goes(t[k])
      BY <2>4, <2>5, <2>6, <3>1
    <3>4. PICK s, A, n, u, v : /\ s = journal /\ A = acts /\ n = asked /\ u = s \o t
                              /\ v = Append(u, y)
      OBVIOUS
    <3>5. s \in Seq(FrameSet) /\ All = s
      BY <2>2, <3>4 DEF All, Typed
    <3>6. n = Pendings(s, Len(s)) /\ WordsIn(s, A) /\ GoingIn(s, A)
      BY <2>2, <3>4, <3>5 DEF FlowInv
    <3>7. u \in Seq(FrameSet) /\ WordsIn(u, A) /\ GoingIn(u, A) /\ Pendings(u, Len(u)) = n
      <4>1. Follows(t, n, A)
        BY <3>3 DEF Follows
      <4>2. t \in Seq(FrameSet) /\ u = s \o t
        BY <3>3, <3>4
      <4> QED BY <3>5, <3>6, <4>1, <4>2, Extending
    <3>8. WordsIn(v, A) /\ GoingIn(v, A) /\ Pendings(v, Len(v)) = n + 1
      <4>1. y \in FrameSet /\ y.what = "pending" /\ y.type = "approval" /\ v = Append(u, y)
        BY <2>4, <2>5, <3>4
      <4>2. n = Pendings(u, Len(u))
        BY <3>7
      <4> QED BY <3>7, <4>1, <4>2, Putting
    <3>9. All' = v /\ acts' = A /\ asked' = n
      <4>1. s \o Append(t, y) = Append(s \o t, y)
        BY <2>5, <3>3, <3>5, AppendingLast
      <4> QED BY <2>2, <3>2, <3>4, <4>1 DEF All
    <3> QED BY <2>3, <3>2, <3>4, <3>8, <3>9 DEF FlowInv, Stretches
  <2>8. CASE ~Here.asks
    <3>1. PICK t : t = r \o <<z>>
      OBVIOUS
    <3>2. pc' = "next" /\ outbox' = t
      BY <1>3, <2>1, <2>8, <3>1 DEF Work, Proceed
    <3>3. /\ t \in Seq(FrameSet)
          /\ \A k \in DOMAIN t : t[k].what # "pending" /\ t[k].type # "boundary" /\ ~Goes(t[k])
      BY <2>4, <2>5, <2>6, <3>1
    <3>4. Follows(t, asked, acts)
      BY <3>3 DEF Follows
    <3> QED BY <2>2, <2>3, <3>2, <3>3, <3>4, FlowExtends
  <2> QED BY <2>7, <2>8
<1>4. CASE Stopped
  <2>1. PICK f : f = Transition(Here.node, "cancelled")
    OBVIOUS
  <2>2. /\ pc = "running" /\ pc' \in {"cancelled", "exhausted"}
        /\ outbox = <<>> /\ outbox' = <<f>> /\ UNCHANGED <<journal, asked, acts>>
    BY <1>4, <2>1 DEF Stopped, Proceed, human
  <2>3. f \in FrameSet
    BY <2>1, <2>2, PlanTypes, FramesAreTyped
  <2>4. f.type = "transition" /\ f.what = "cancelled"
    BY <2>1, TransitionFields, FrameFields
  <2>5. f.what # "pending" /\ f.type # "boundary" /\ ~Goes(f)
    BY <2>4 DEF Goes
  <2>6. PICK t : t = <<f>>
    OBVIOUS
  <2>7. t \in Seq(FrameSet) /\ DOMAIN t = {1} /\ t[1] = f
    BY <2>3, <2>6, OneFrame
  <2>8. Follows(t, asked, acts)
    BY <2>5, <2>7 DEF Follows
  <2> QED BY <2>2, <2>6, <2>7, <2>8, FlowExtends DEF Stretches
<1>5. CASE Errs
  <2>1. PICK f, g : f = Transition(Here.node, "failed") /\ g = Frame("finished", 0, "failed", TRUE)
    OBVIOUS
  <2>2. PICK t : t = <<f, g>>
    OBVIOUS
  <2>3. /\ pc = "running" /\ pc' = "erred"
        /\ outbox = <<>> /\ outbox' = t /\ UNCHANGED <<journal, asked, acts>>
    BY <1>5, <2>1, <2>2 DEF Errs, Proceed, human
  <2>4. f \in FrameSet
    BY <2>1, <2>3, PlanTypes, FramesAreTyped
  <2>5. g \in FrameSet
    BY <2>1 DEF Frame, FrameSet
  <2>6. f.what = "failed" /\ f.type = "transition" /\ g.what = "failed" /\ g.type = "finished"
    BY <2>1, TransitionFields, FinishedFields
  <2>7. /\ f.what # "pending" /\ f.type # "boundary" /\ ~Goes(f)
        /\ g.what # "pending" /\ g.type # "boundary" /\ ~Goes(g)
    BY <2>6 DEF Goes
  <2>8. t \in Seq(FrameSet) /\ DOMAIN t = 1 .. 2 /\ t[1] = f /\ t[2] = g
    BY <2>2, <2>4, <2>5
  <2>9. \A k \in DOMAIN t : t[k] = f \/ t[k] = g
    BY <2>8
  <2>10. Follows(t, asked, acts)
    BY <2>7, <2>9 DEF Follows
  <2> QED BY <2>3, <2>8, <2>10, FlowExtends DEF Stretches
<1>6. CASE AskTui \/ (\E printed \in BOOLEAN : AskCli(printed))
  <2>1. /\ pc = "ask" /\ pc' = "wait" /\ outbox = <<>> /\ outbox' = <<>>
        /\ asked' = asked + 1 /\ UNCHANGED <<journal, acts>>
    BY <1>6 DEF AskTui, AskCli, Proceed, human
  <2>2. All' = All
    BY <2>1 DEF All
  <2>3. \A q \in 1 .. asked' - 1 : <<q, "yes">> \in acts
    <3>1. asked' - 1 = asked /\ \A q \in 1 .. asked : <<q, "yes">> \in acts
      BY <2>1 DEF FlowInv, Stretches, Typed
    <3> QED BY <3>1
  <2>4. PICK s, A, n : s = All /\ A = acts /\ n = asked
    OBVIOUS
  <2>5. WordsIn(s, A) /\ GoingIn(s, A) /\ Pendings(s, Len(s)) = n + 1
    BY <2>1, <2>4 DEF FlowInv
  <2> QED BY <2>1, <2>2, <2>3, <2>4, <2>5 DEF FlowInv, Stretches
<1>7. CASE Resolve
  <2>1. PICK answer, t : answer = Resolution /\ t = Settled(Here.node, answer)
    OBVIOUS
  <2>2. /\ pc = "wait" /\ outbox = <<>> /\ outbox' = t /\ UNCHANGED <<journal, asked, acts>>
        /\ pc' \in {"next", "exhausted", "cancelled"}
        /\ pc' = "next" => answer = "yes"
    BY <1>7, <2>1 DEF Resolve, Proceed, Granted, human
  <2>3. Here.node \in Nodes /\ answer \in Replies
    BY <2>1, <2>2, PlanTypes, ResolutionIsAReply
  <2>4. /\ t \in Seq(FrameSet)
        /\ \A k \in DOMAIN t :
              /\ t[k].what # "pending" /\ ~Goes(t[k])
              /\ t[k].type = "boundary" => t[k].what = answer /\ answer \in {"yes", "no"}
    BY <2>1, <2>3, SettledIsTyped
  <2>5. answer \in {"yes", "no"} => <<asked, answer>> \in acts
    <3>1. asked \in 1 .. asked
      BY <2>2 DEF Typed
    <3>2. answer \in {"yes", "no"} => answer = answers[asked]
      BY <2>1 DEF Resolution
    <3> QED BY <3>1, <3>2 DEF AnswersInv
  <2>6. Follows(t, asked, acts)
    BY <2>4, <2>5 DEF Follows
  <2>7. answer = "yes" => \A q \in 1 .. asked : <<q, "yes">> \in acts
    <3>1. \A q \in 1 .. asked : q \in 1 .. asked - 1 \/ q = asked
      BY DEF Typed
    <3>2. \A q \in 1 .. asked - 1 : <<q, "yes">> \in acts
      BY <2>2 DEF FlowInv
    <3> QED BY <2>5, <3>1, <3>2
  <2> QED BY <2>2, <2>4, <2>6, <2>7, FlowExtends DEF Stretches
<1>8. CASE Finish
  <2>1. PICK status \in {"succeeded", "failed", "cancelled", "exhausted"} :
           /\ outbox' = <<Frame("finished", 0, status, TRUE)>>
           /\ status = "succeeded" => pc = "next"
    BY <1>8 DEF Finish, Proceed
  <2>2. PICK f, t : f = Frame("finished", 0, status, TRUE) /\ t = <<f>>
    OBVIOUS
  <2>3. /\ pc' = "ended" /\ pc \in {"next", "cancelled", "exhausted"} /\ outbox = <<>>
        /\ UNCHANGED <<journal, asked, acts>>
    BY <1>8 DEF Finish, Proceed, human
  <2>4. f \in FrameSet
    BY <2>2 DEF Frame, FrameSet
  <2>5. f.type = "finished" /\ f.what = status
    BY <2>2, FinishedFields
  <2>6. t \in Seq(FrameSet) /\ DOMAIN t = {1} /\ t[1] = f
    BY <2>2, <2>4, OneFrame
  <2>7. pc = "next" => \A q \in 1 .. asked : <<q, "yes">> \in acts
    BY DEF FlowInv, Stretches
  <2>8. Follows(t, asked, acts)
    <3>1. f.what # "pending" /\ f.type # "boundary"
      BY <2>5
    <3>2. Goes(f) => status = "succeeded"
      BY <2>5 DEF Goes
    <3> QED BY <2>1, <2>6, <2>7, <3>1, <3>2 DEF Follows
  <2> QED BY <2>1, <2>2, <2>3, <2>6, <2>8, FlowExtends DEF Stretches
<1> QED BY <1>1, <1>2, <1>3, <1>4, <1>5, <1>6, <1>7, <1>8 DEF Task

LEMMA NextFlow ==
    ASSUME Typed, AnswersInv, FlowInv, [Next]_vars PROVE FlowInv'
<1>1. CASE Screen
  <2>1. UNCHANGED <<journal, outbox, pc, asked>> /\ acts \subseteq acts'
    <3>1. ASSUME HandleKey PROVE UNCHANGED <<journal, outbox, pc, asked>> /\ acts \subseteq acts'
      BY <3>1 DEF HandleKey, Ui, run
    <3> QED BY <1>1, <3>1 DEF Screen, DrainFrame, TapIsEmpty, DrainQuestions, NoKey, TerminalFails,
           CloseChannel, TakePrompt, CancelRun, Join, Ui, run
  <2> QED BY <2>1, FlowAside DEF All
<1>2. CASE Reader
  <2>1. UNCHANGED <<journal, outbox, pc, asked>> /\ acts \subseteq acts'
    BY <1>2 DEF Reader, ReadLine, run
  <2> QED BY <2>1, FlowAside DEF All
<1>3. CASE Expire \/ Interrupt \/ (\E key \in Keys : Press(key)) \/ UNCHANGED vars
  <2>1. UNCHANGED <<journal, outbox, pc, asked, acts>>
    BY <1>3 DEF Expire, Interrupt, Press, vars, run, human
  <2> QED BY <2>1, FlowAside DEF All
<1> QED BY <1>1, <1>2, <1>3, TaskFlow DEF Next

LEMMA InitInvariants ==
    ASSUME Init PROVE AnswersInv /\ FlowInv
<1>1. PICK f : f = Frame("started", 0, "", TRUE)
  OBVIOUS
<1>2. PICK t, A : t = <<f>> /\ A = acts
  OBVIOUS
<1>3. /\ journal = <<>> /\ outbox = t /\ asked = 0 /\ prompt = 0 /\ readers = {} /\ pc = "next"
  BY <1>1, <1>2 DEF Init
<1>4. f.type = "started" /\ f.what = ""
  BY <1>1, StartedFields
<1>5. f \in FrameSet
  BY <1>1 DEF Frame, FrameSet
<1>6. All = t /\ t \in Seq(FrameSet) /\ DOMAIN t = {1} /\ t[1] = f /\ Len(t) = 1
  <2>1. t \in Seq(FrameSet) /\ DOMAIN t = {1} /\ t[1] = f /\ Len(t) = 1
    BY <1>2, <1>5, Singleton
  <2>2. All = t
    BY <1>3, <2>1, ConcatEmptySeq DEF All
  <2> QED BY <2>1, <2>2
<1>7. {j \in 1 .. 1 : t[j].what = "pending"} = {}
  <2>1. f.what # "pending"
    BY <1>4, Zenon
  <2>2. \A j \in 1 .. 1 : t[j] = f
    BY <1>6
  <2> QED BY <2>1, <2>2
<1>8. Pendings(t, 1) = 0
  BY <1>7, FS_EmptySet DEF Pendings
<1>9. WordsIn(t, A) /\ GoingIn(t, A)
  BY <1>4, <1>6 DEF WordsIn, GoingIn, Goes
<1>10. FlowInv
  BY <1>2, <1>3, <1>6, <1>8, <1>9 DEF FlowInv
<1> QED BY <1>3, <1>10 DEF AnswersInv

\* What is written stands in All at the same place, after the same questions.
LEMMA Written ==
    ASSUME Typed, NEW i \in DOMAIN journal
    PROVE  /\ i \in DOMAIN All /\ All[i] = journal[i]
           /\ i \in Nat /\ QuestionAt(i) = Pendings(All, i)
<1>1. journal \in Seq(FrameSet) /\ outbox \in Seq(FrameSet)
  BY DEF Typed
<1>2. i \in DOMAIN All /\ All[i] = journal[i]
  BY <1>1, Appending DEF All
<1>3. i \in 0 .. Len(journal) /\ i \in Nat
  BY <1>1
<1>4. Pendings(All, i) = Pendings(journal, i)
  BY <1>1, <1>3, PendingsAreKept DEF All
<1> QED BY <1>2, <1>3, <1>4 DEF QuestionAt, Pendings

-----------------------------------------------------------------------------
(* The screen. *)

Busy == {"running", "ask", "wait"}
Over == {"ended", "erred"}
Filing == {"call", "unit", "approval"}
Working == {"running", "awaiting"}
Moves(f, n) == f.type = "transition" /\ f.at = n

Shaped(f) ==
    /\ f.type = "transition" => f.at \in Nodes
    /\ f.what = "running" => f.type = "transition"
    /\ f.type = "finished" => f.what \in Statuses \ {"none"}

\* The node that was entered last by place i.
Under(s, i, n) ==
    \E j \in 1 .. i :
        /\ s[j].what = "running" /\ s[j].at = n
        /\ \A h \in 1 .. i : s[h].what = "running" => h <= j

\* A node at work in s has left its work by the end of s.
AtRest(s, n) ==
    \A i \in DOMAIN s :
        Moves(s[i], n) /\ s[i].what \in Working =>
            \E j \in DOMAIN s : j > i /\ Moves(s[j], n)

FiledUnder(s) == \A i \in DOMAIN s : s[i].type \in Filing => Under(s, i, s[i].at)

(***************************************************************************)
(* What the run says of its nodes: a record is made at the node entered    *)
(* last, the frame of the end is the last, and no node but the one the run *)
(* is at is left at work.                                                  *)
(***************************************************************************)
StoryInv ==
    /\ \A i \in DOMAIN All : Shaped(All[i])
    /\ FiledUnder(All)
    /\ \A i \in DOMAIN All : All[i].type = "finished" => i = Len(All) /\ pc \in Over
    /\ pc \in Busy => Under(All, Len(All), Here.node)
    /\ \A n \in Nodes : (pc \in Busy => n # Here.node) => AtRest(All, n)

\* The places of a concatenation.
LEMMA TwoParts ==
    ASSUME NEW s \in Seq(FrameSet), NEW t \in Seq(FrameSet)
    PROVE  /\ s \o t \in Seq(FrameSet) /\ Len(s) \in Nat /\ Len(t) \in Nat
           /\ Len(s \o t) = Len(s) + Len(t)
           /\ DOMAIN s = 1 .. Len(s) /\ DOMAIN t = 1 .. Len(t)
           /\ DOMAIN (s \o t) = 1 .. Len(s) + Len(t)
           /\ \A i \in 1 .. Len(s) : (s \o t)[i] = s[i]
           /\ \A k \in 1 .. Len(t) : (s \o t)[Len(s) + k] = t[k]
           /\ \A i \in 1 .. Len(s) + Len(t) :
                 i \in 1 .. Len(s) \/ \E k \in 1 .. Len(t) : i = Len(s) + k
<1>1. /\ s \o t \in Seq(FrameSet) /\ Len(s) \in Nat /\ Len(t) \in Nat
      /\ Len(s \o t) = Len(s) + Len(t)
      /\ DOMAIN s = 1 .. Len(s) /\ DOMAIN t = 1 .. Len(t)
      /\ DOMAIN (s \o t) = 1 .. Len(s) + Len(t)
  BY ConcatProperties
<1>2. \A i \in 1 .. Len(s) + Len(t) : (s \o t)[i] = IF i <= Len(s) THEN s[i] ELSE t[i - Len(s)]
  BY ConcatProperties
<1>3. \A i \in 1 .. Len(s) : (s \o t)[i] = s[i]
  BY <1>1, <1>2
<1>4. ASSUME NEW k \in 1 .. Len(t) PROVE (s \o t)[Len(s) + k] = t[k]
  <2>1. /\ Len(s) + k \in 1 .. Len(s) + Len(t) /\ ~(Len(s) + k <= Len(s))
        /\ (Len(s) + k) - Len(s) = k
    BY <1>1
  <2> QED BY <1>2, <2>1
<1>5. ASSUME NEW i \in 1 .. Len(s) + Len(t), i \notin 1 .. Len(s)
      PROVE  \E k \in 1 .. Len(t) : i = Len(s) + k
  <2>1. i - Len(s) \in 1 .. Len(t) /\ i = Len(s) + (i - Len(s))
    BY <1>1, <1>5
  <2> QED BY <2>1
<1> QED BY <1>1, <1>3, <1>4, <1>5

\* The node entered last stays so where no node is entered.
LEMMA StaysUnder ==
    ASSUME NEW s \in Seq(FrameSet), NEW t \in Seq(FrameSet), NEW n,
           Under(s, Len(s), n), \A k \in DOMAIN t : t[k].what # "running",
           NEW i \in Len(s) .. Len(s) + Len(t)
    PROVE  Under(s \o t, i, n)
<1>1. PICK j \in 1 .. Len(s) : /\ s[j].what = "running" /\ s[j].at = n
                              /\ \A h \in 1 .. Len(s) : s[h].what = "running" => h <= j
  BY DEF Under
<1>2. j \in 1 .. i /\ (s \o t)[j] = s[j] /\ \A h \in 1 .. i : h \in 1 .. Len(s) + Len(t)
  BY TwoParts
<1>3. ASSUME NEW h \in 1 .. i, (s \o t)[h].what = "running" PROVE h <= j
  <2>1. CASE h \in 1 .. Len(s)
    BY <1>1, <1>3, <2>1, TwoParts
  <2>2. ASSUME NEW k \in 1 .. Len(t), h = Len(s) + k PROVE FALSE
    <3>1. (s \o t)[h] = t[k] /\ k \in DOMAIN t
      BY <2>2, TwoParts
    <3> QED BY <1>3, <3>1
  <2> QED BY <1>2, <2>1, <2>2, TwoParts
<1> QED BY <1>1, <1>2, <1>3 DEF Under

LEMMA KeptUnder ==
    ASSUME NEW s, NEW u, NEW a \in Nat, NEW i \in 1 .. a, NEW n,
           \A j \in 1 .. a : u[j] = s[j], Under(s, i, n)
    PROVE  Under(u, i, n)
<1>1. \A j \in 1 .. i : u[j] = s[j]
  OBVIOUS
<1> QED BY <1>1 DEF Under

\* A node is entered.
LEMMA Entering ==
    ASSUME NEW s \in Seq(FrameSet), NEW f \in FrameSet, f.what = "running", NEW t, t = <<f>>
    PROVE  Under(s \o t, Len(s \o t), f.at)
<1>1. t \in Seq(FrameSet) /\ DOMAIN t = {1} /\ t[1] = f /\ Len(t) = 1
  BY Singleton
<1>2. /\ (s \o t)[Len(s) + 1] = f /\ Len(s \o t) = Len(s) + 1
      /\ Len(s) + 1 \in 1 .. Len(s) + 1
      /\ \A h \in 1 .. Len(s) + 1 : h <= Len(s) + 1
  BY <1>1, TwoParts
<1> QED BY <1>2 DEF Under

LEMMA FilingGrows ==
    ASSUME NEW s \in Seq(FrameSet), NEW t \in Seq(FrameSet), FiledUnder(s),
           \A k \in DOMAIN t : t[k].type \in Filing =>
              Under(s, Len(s), t[k].at) /\ \A h \in DOMAIN t : t[h].what # "running"
    PROVE  FiledUnder(s \o t)
<1> SUFFICES ASSUME NEW i \in DOMAIN (s \o t), (s \o t)[i].type \in Filing
             PROVE  Under(s \o t, i, (s \o t)[i].at)
  BY DEF FiledUnder
<1>1. CASE i \in 1 .. Len(s)
  <2>1. (s \o t)[i] = s[i] /\ i \in DOMAIN s /\ Len(s) \in Nat
    BY <1>1, TwoParts
  <2>2. Under(s, i, s[i].at)
    BY <2>1 DEF FiledUnder
  <2>3. \A j \in 1 .. Len(s) : (s \o t)[j] = s[j]
    BY TwoParts
  <2> QED BY <1>1, <2>1, <2>2, <2>3, KeptUnder
<1>2. ASSUME NEW k \in 1 .. Len(t), i = Len(s) + k
      PROVE  Under(s \o t, i, (s \o t)[i].at)
  <2>1. (s \o t)[i] = t[k] /\ k \in DOMAIN t /\ i \in Len(s) .. Len(s) + Len(t)
    BY <1>2, TwoParts
  <2>2. Under(s, Len(s), t[k].at) /\ \A h \in DOMAIN t : t[h].what # "running"
    BY <2>1
  <2> QED BY <2>1, <2>2, StaysUnder
<1> QED BY <1>1, <1>2, TwoParts

\* A node that does not move stays at rest, and one that stops comes to rest.
LEMMA RestGrows ==
    ASSUME NEW s \in Seq(FrameSet), NEW t \in Seq(FrameSet), NEW n,
           AtRest(s, n), \A k \in DOMAIN t : ~Moves(t[k], n)
    PROVE  AtRest(s \o t, n)
<1> SUFFICES ASSUME NEW i \in DOMAIN (s \o t), Moves((s \o t)[i], n), (s \o t)[i].what \in Working
             PROVE  \E j \in DOMAIN (s \o t) : j > i /\ Moves((s \o t)[j], n)
  BY DEF AtRest
<1>1. i \in 1 .. Len(s)
  <2>1. ASSUME NEW k \in 1 .. Len(t), i = Len(s) + k PROVE FALSE
    BY <2>1, TwoParts
  <2> QED BY <2>1, TwoParts
<1>2. (s \o t)[i] = s[i] /\ i \in DOMAIN s
  BY <1>1, TwoParts
<1>3. PICK j \in DOMAIN s : j > i /\ Moves(s[j], n)
  BY <1>2 DEF AtRest
<1>4. j \in DOMAIN (s \o t) /\ (s \o t)[j] = s[j]
  BY TwoParts
<1> QED BY <1>3, <1>4

LEMMA ComingToRest ==
    ASSUME NEW s \in Seq(FrameSet), NEW t \in Seq(FrameSet), NEW n,
           \A k \in DOMAIN t : t[k].what \notin Working,
           NEW l \in DOMAIN t, Moves(t[l], n)
    PROVE  AtRest(s \o t, n)
<1> SUFFICES ASSUME NEW i \in DOMAIN (s \o t), Moves((s \o t)[i], n), (s \o t)[i].what \in Working
             PROVE  \E j \in DOMAIN (s \o t) : j > i /\ Moves((s \o t)[j], n)
  BY DEF AtRest
<1>1. i \in 1 .. Len(s)
  <2>1. ASSUME NEW k \in 1 .. Len(t), i = Len(s) + k PROVE FALSE
    BY <2>1, TwoParts
  <2> QED BY <2>1, TwoParts
<1>2. Len(s) + l \in DOMAIN (s \o t) /\ Len(s) + l > i /\ (s \o t)[Len(s) + l] = t[l]
  BY <1>1, TwoParts
<1> QED BY <1>2

(***************************************************************************)
(* The run's steps keep its story.                                         *)
(***************************************************************************)
Told(t, n) ==
    \A k \in DOMAIN t :
        /\ Shaped(t[k]) /\ t[k].what # "running"
        /\ t[k].type \in Filing \cup {"transition"} => t[k].at = n

\* What is said before and after a task's step.
LEMMA Saying ==
    ASSUME Typed, outbox = <<>>, UNCHANGED journal, NEW t \in Seq(FrameSet), outbox' = t
    PROVE  /\ All \in Seq(FrameSet) /\ All' = All \o t
           /\ All' \in Seq(FrameSet)
<1>1. journal \in Seq(FrameSet) /\ journal \o <<>> = journal
  BY DEF Typed
<1>2. All = journal /\ All' = journal \o t
  BY <1>1 DEF All
<1>3. journal \o t \in Seq(FrameSet)
  BY <1>1, TwoParts
<1> QED BY <1>1, <1>2, <1>3

LEMMA EndIsLast ==
    ASSUME NEW s \in Seq(FrameSet), NEW t \in Seq(FrameSet),
           \A i \in DOMAIN s : s[i].type # "finished",
           \A k \in DOMAIN t : t[k].type = "finished" => k = Len(t)
    PROVE  \A i \in DOMAIN (s \o t) : (s \o t)[i].type = "finished" =>
              i = Len(s \o t) /\ \E k \in DOMAIN t : t[k].type = "finished"
<1> SUFFICES ASSUME NEW i \in DOMAIN (s \o t), (s \o t)[i].type = "finished"
             PROVE  i = Len(s \o t) /\ \E k \in DOMAIN t : t[k].type = "finished"
  OBVIOUS
<1>1. i \notin 1 .. Len(s)
  BY TwoParts
<1>2. PICK k \in 1 .. Len(t) : i = Len(s) + k
  BY <1>1, TwoParts
<1>3. t[k].type = "finished" /\ k \in DOMAIN t
  BY <1>2, TwoParts
<1>4. k = Len(t)
  BY <1>3
<1>5. Len(s) + k = Len(s \o t)
  BY <1>4, TwoParts
<1> QED BY <1>2, <1>3, <1>5

LEMMA ShapesGrow ==
    ASSUME NEW s \in Seq(FrameSet), NEW t \in Seq(FrameSet),
           \A i \in DOMAIN s : Shaped(s[i]), \A k \in DOMAIN t : Shaped(t[k])
    PROVE  \A i \in DOMAIN (s \o t) : Shaped((s \o t)[i])
<1> SUFFICES ASSUME NEW i \in DOMAIN (s \o t) PROVE Shaped((s \o t)[i])
  OBVIOUS
<1>1. CASE i \in 1 .. Len(s)
  <2>1. i \in DOMAIN s /\ (s \o t)[i] = s[i]
    BY <1>1, TwoParts
  <2> QED BY <2>1
<1>2. ASSUME NEW k \in 1 .. Len(t), i = Len(s) + k PROVE Shaped((s \o t)[i])
  <2>1. k \in DOMAIN t /\ (s \o t)[i] = t[k]
    BY <1>2, TwoParts
  <2> QED BY <2>1
<1> QED BY <1>1, <1>2, TwoParts

\* A step of the node the run is at.
LEMMA StoryStep ==
    ASSUME Typed, StoryInv, pc \in Busy, outbox = <<>>, UNCHANGED <<journal, plan>>,
           NEW n, n = Here.node, NEW t \in Seq(FrameSet), outbox' = t, Told(t, n),
           \A k \in DOMAIN t : t[k].type = "finished" => k = Len(t) /\ pc' \in Over,
           \/ pc' \in Busy /\ at' = at
           \/ /\ pc' \notin Busy /\ \A k \in DOMAIN t : t[k].what \notin Working
              /\ \E l \in DOMAIN t : Moves(t[l], n)
    PROVE  StoryInv'
<1>1. PICK s, u : s = All /\ u = s \o t
  OBVIOUS
<1>2. s \in Seq(FrameSet) /\ All' = u /\ u \in Seq(FrameSet)
  BY <1>1, Saying
<1>3. pc \notin Over
  BY DEF Busy, Over
<1>4. /\ \A i \in DOMAIN s : Shaped(s[i])
      /\ FiledUnder(s)
      /\ \A i \in DOMAIN s : s[i].type # "finished"
      /\ Under(s, Len(s), n)
      /\ \A m \in Nodes : m # n => AtRest(s, m)
  BY <1>1, <1>3 DEF StoryInv
<1>5. \A i \in DOMAIN u : Shaped(u[i])
  BY <1>1, <1>2, <1>4, ShapesGrow DEF Told
<1>6. FiledUnder(u)
  <2>1. \A k \in DOMAIN t : t[k].type \in Filing =>
           Under(s, Len(s), t[k].at) /\ \A h \in DOMAIN t : t[h].what # "running"
    BY <1>4 DEF Told
  <2> QED BY <1>1, <1>2, <1>4, <2>1, FilingGrows
<1>7. \A i \in DOMAIN u : u[i].type = "finished" => i = Len(u) /\ pc' \in Over
  BY <1>1, <1>2, <1>4, EndIsLast
<1>8. Under(u, Len(u), n)
  <2>1. Len(s \o t) \in Len(s) .. Len(s) + Len(t)
    BY <1>2, TwoParts
  <2>2. \A k \in DOMAIN t : t[k].what # "running"
    BY DEF Told
  <2> QED BY <1>1, <1>2, <1>4, <2>1, <2>2, StaysUnder
<1>9. ASSUME NEW m \in Nodes, m # n PROVE AtRest(u, m)
  <2>1. \A k \in DOMAIN t : ~Moves(t[k], m)
    BY <1>9 DEF Told, Moves
  <2> QED BY <1>1, <1>2, <1>4, <1>9, <2>1, RestGrows
<1>10. CASE pc' \in Busy /\ at' = at
  <2>1. Here' = Here
    BY <1>10 DEF Here
  <2> QED BY <1>2, <1>5, <1>6, <1>7, <1>8, <1>9, <1>10, <2>1 DEF StoryInv
<1>11. CASE /\ pc' \notin Busy /\ \A k \in DOMAIN t : t[k].what \notin Working
            /\ \E l \in DOMAIN t : Moves(t[l], n)
  <2>1. AtRest(u, n)
    BY <1>1, <1>2, <1>11, ComingToRest
  <2> QED BY <1>2, <1>5, <1>6, <1>7, <1>9, <1>11, <2>1 DEF StoryInv
<1> QED BY <1>10, <1>11

\* A node is entered; the run ends.
LEMMA StoryVisits ==
    ASSUME Typed, StoryInv, Visit PROVE StoryInv'
<1>1. PICK n, f, t : n = Here.node /\ f = Transition(n, "running") /\ t = <<f>>
  OBVIOUS
<1>2. /\ pc = "next" /\ pc' = "running" /\ outbox = <<>> /\ outbox' = t
      /\ UNCHANGED <<journal, plan, at>>
  BY <1>1 DEF Visit, Proceed
<1>3. n \in Nodes /\ f \in FrameSet
  BY <1>1, PlanTypes, FramesAreTyped DEF Visit
<1>4. f.type = "transition" /\ f.at = n /\ f.what = "running"
  BY <1>1 DEF Transition, Frame
<1>5. t \in Seq(FrameSet) /\ DOMAIN t = {1} /\ t[1] = f
  BY <1>1, <1>3, OneFrame
<1>6. PICK s, u : s = All /\ u = s \o t
  OBVIOUS
<1>7. s \in Seq(FrameSet) /\ All' = u /\ u \in Seq(FrameSet)
  BY <1>2, <1>5, <1>6, Saying
<1>8. /\ \A i \in DOMAIN s : Shaped(s[i])
      /\ FiledUnder(s)
      /\ \A i \in DOMAIN s : s[i].type # "finished"
      /\ \A m \in Nodes : AtRest(s, m)
  BY <1>2, <1>6 DEF StoryInv, Busy, Over
<1>9. \A k \in DOMAIN t : Shaped(t[k]) /\ t[k].type \notin Filing /\ t[k].type # "finished"
  BY <1>3, <1>4, <1>5 DEF Shaped, Filing
<1>10. \A i \in DOMAIN u : Shaped(u[i])
  BY <1>5, <1>6, <1>7, <1>8, <1>9, ShapesGrow
<1>11. FiledUnder(u)
  BY <1>5, <1>6, <1>7, <1>8, <1>9, FilingGrows
<1>12. \A i \in DOMAIN u : u[i].type # "finished"
  <2>1. \A k \in DOMAIN t : t[k].type = "finished" => k = Len(t)
    BY <1>9
  <2>2. \A i \in DOMAIN u : u[i].type = "finished" =>
           i = Len(u) /\ \E k \in DOMAIN t : t[k].type = "finished"
    BY <1>5, <1>6, <1>7, <1>8, <2>1, EndIsLast
  <2> QED BY <1>9, <2>2
<1>13. Under(u, Len(u), n)
  BY <1>1, <1>3, <1>4, <1>6, <1>7, Entering
<1>14. ASSUME NEW m \in Nodes, m # n PROVE AtRest(u, m)
  <2>1. \A k \in DOMAIN t : ~Moves(t[k], m)
    BY <1>4, <1>5, <1>14 DEF Moves
  <2> QED BY <1>5, <1>6, <1>7, <1>8, <2>1, RestGrows
<1>15. Here'.node = n
  BY <1>1, <1>2 DEF Here
<1>16. All' = u /\ pc' = "running" /\ Here'.node = n
  BY <1>2, <1>7, <1>15
<1>17. Under(u, Len(u), n) /\ \A m \in Nodes : m # n => AtRest(u, m)
  BY <1>13, <1>14
<1>18. Under(All', Len(All'), Here'.node) /\ \A m \in Nodes : m # Here'.node => AtRest(All', m)
  BY <1>16, <1>17
<1>19. /\ \A i \in DOMAIN All' : Shaped(All'[i])
       /\ FiledUnder(All')
       /\ \A i \in DOMAIN All' : All'[i].type # "finished"
  BY <1>10, <1>11, <1>12, <1>16
<1>20. pc' \in Busy
  BY <1>16 DEF Busy
<1> QED BY <1>18, <1>19, <1>20 DEF StoryInv

LEMMA StoryEnds ==
    ASSUME Typed, StoryInv, Finish PROVE StoryInv'
<1>1. PICK status \in {"succeeded", "failed", "cancelled", "exhausted"} :
         outbox' = <<Frame("finished", 0, status, TRUE)>>
  BY DEF Finish, Proceed
<1>2. PICK f, t : f = Frame("finished", 0, status, TRUE) /\ t = <<f>>
  OBVIOUS
<1>3. /\ pc' = "ended" /\ pc \in {"next", "cancelled", "exhausted"} /\ outbox = <<>>
      /\ outbox' = t /\ UNCHANGED journal
  BY <1>1, <1>2 DEF Finish, Proceed
<1>4. f \in FrameSet
  BY <1>2 DEF Frame, FrameSet
<1>5. f.type = "finished" /\ f.what = status
  BY <1>2, FinishedFields
<1>6. t \in Seq(FrameSet) /\ DOMAIN t = {1} /\ t[1] = f /\ Len(t) = 1
  BY <1>2, <1>4, OneFrame, Singleton
<1>7. PICK s, u : s = All /\ u = s \o t
  OBVIOUS
<1>8. s \in Seq(FrameSet) /\ All' = u /\ u \in Seq(FrameSet)
  BY <1>3, <1>6, <1>7, Saying
<1>9. /\ \A i \in DOMAIN s : Shaped(s[i])
      /\ FiledUnder(s)
      /\ \A i \in DOMAIN s : s[i].type # "finished"
      /\ \A m \in Nodes : AtRest(s, m)
  BY <1>3, <1>7 DEF StoryInv, Busy, Over
<1>10. \A k \in DOMAIN t : Shaped(t[k]) /\ t[k].type \notin Filing
  <2>1. status \in Statuses \ {"none"} /\ status # "running"
    BY DEF Statuses
  <2> QED BY <1>5, <1>6, <2>1 DEF Shaped, Filing
<1>11. \A i \in DOMAIN u : Shaped(u[i])
  BY <1>6, <1>7, <1>8, <1>9, <1>10, ShapesGrow
<1>12. FiledUnder(u)
  BY <1>6, <1>7, <1>8, <1>9, <1>10, FilingGrows
<1>13. \A i \in DOMAIN u : u[i].type = "finished" => i = Len(u)
  <2>1. \A k \in DOMAIN t : t[k].type = "finished" => k = Len(t)
    BY <1>6
  <2> QED BY <1>6, <1>7, <1>8, <1>9, <2>1, EndIsLast
<1>14. ASSUME NEW m \in Nodes PROVE AtRest(u, m)
  <2>1. \A k \in DOMAIN t : ~Moves(t[k], m)
    BY <1>5, <1>6 DEF Moves
  <2> QED BY <1>6, <1>7, <1>8, <1>9, <2>1, RestGrows
<1> QED BY <1>3, <1>8, <1>11, <1>12, <1>13, <1>14 DEF StoryInv, Busy, Over

\* The frames a question is settled with end the node's work.
LEMMA SettledTells ==
    ASSUME Typed, NEW n \in Nodes, NEW answer \in Replies
    PROVE  /\ Told(Settled(n, answer), n)
           /\ \A k \in DOMAIN Settled(n, answer) :
                 Settled(n, answer)[k].what \notin Working /\ Settled(n, answer)[k].type # "finished"
           /\ \E l \in DOMAIN Settled(n, answer) : Moves(Settled(n, answer)[l], n)
<1> DEFINE a == Frame("approval", n, IF answer = "yes" THEN "approved" ELSE "rejected", TRUE)
           b == Frame("boundary", n, answer, TRUE)
           c == Transition(n, IF answer = "yes" THEN "succeeded" ELSE "cancelled")
           S == {f \in FrameSet : f.at = n /\ f.what \notin Working /\ f.type # "finished"}
           m == IF Acknowledged(answer) THEN <<b>> ELSE <<>>
<1>1. a \in S /\ c \in S
  BY DEF Frame, FrameSet, Transition, Working
<1>2. answer \in {"yes", "no"} => b \in S
  BY DEF Frame, FrameSet, Working
<1>3. Settled(n, answer) = (<<a>> \o m) \o <<c>>
  BY DEF Settled
<1>4. m = <<b>> \/ m = <<>>
  OBVIOUS
<1>5. m = <<b>> => b \in S \/ m = <<>>
  BY <1>2 DEF Acknowledged
<1>6. Moves(c, n)
  BY DEF Moves, Transition, Frame
<1> HIDE DEF a, b, c, S, m
<1>7. m \in Seq(S)
  <2>1. CASE m = <<>>
    BY <2>1, EmptySeq
  <2>2. CASE m = <<b>> /\ b \in S
    BY <2>2, Singleton
  <2> QED BY <1>4, <1>5, <2>1, <2>2
<1>8. <<a>> \in Seq(S) /\ <<c>> \in Seq(S)
  BY <1>1, Singleton
<1>9. PICK p, q : p = <<a>> \o m /\ q = <<c>>
  OBVIOUS
<1>10. p \in Seq(S) /\ q \in Seq(S)
  BY <1>7, <1>8, <1>9, ConcatProperties
<1>11. p \o q \in Seq(S) /\ Settled(n, answer) = p \o q
  BY <1>3, <1>9, <1>10, ConcatProperties
<1>12. \A k \in DOMAIN (p \o q) : (p \o q)[k] \in S
  BY <1>11, LenProperties, ElementOfSeq
<1>13. Len(p) + 1 \in DOMAIN (p \o q) /\ (p \o q)[Len(p) + 1] = c
  <2>1. Len(q) = 1 /\ q[1] = c
    BY <1>9
  <2> QED BY <1>10, <2>1, ConcatProperties
<1>14. \A f \in S : Shaped(f) /\ f.what # "running" /\ f.what \notin Working /\ f.type # "finished" /\ f.at = n
  BY DEF S, Shaped, Working
<1> QED BY <1>6, <1>11, <1>12, <1>13, <1>14 DEF Told

LEMMA TaskStory ==
    ASSUME Typed, StoryInv, Task PROVE StoryInv'
<1>1. CASE Write
  <2>1. PICK f, t : f = Head(outbox) /\ t = Tail(outbox)
    OBVIOUS
  <2>2. /\ journal \in Seq(FrameSet) /\ outbox \in Seq(FrameSet) /\ outbox # <<>>
        /\ journal' = Append(journal, f) /\ outbox' = t
        /\ UNCHANGED <<pc, at, plan>>
    BY <1>1, <2>1 DEF Write, Typed
  <2>3. f \in FrameSet /\ t \in Seq(FrameSet) /\ outbox = <<f>> \o t
    BY <2>1, <2>2
  <2>4. Append(journal, f) \o t = journal \o (<<f>> \o t)
    BY <2>2, <2>3
  <2>5. All' = All /\ Here' = Here
    BY <2>2, <2>3, <2>4 DEF All, Here
  <2> QED BY <2>2, <2>5 DEF StoryInv
<1>2. ASSUME NEW b \in Batches, Work(b) PROVE StoryInv'
  <2>1. PICK n, r, x, y, z : /\ n = Here.node /\ r = Records(b) /\ x = Transition(n, "awaiting")
                            /\ y = Frame("approval", n, "pending", TRUE)
                            /\ z = Transition(n, "succeeded")
    OBVIOUS
  <2>2. pc = "running" /\ pc \in Busy /\ outbox = <<>> /\ UNCHANGED <<journal, plan>>
    BY <1>2 DEF Work, Proceed, Busy
  <2>3. /\ x.what = "awaiting" /\ x.type = "transition" /\ x.at = n
        /\ z.what = "succeeded" /\ z.type = "transition" /\ z.at = n
        /\ y.what = "pending" /\ y.type = "approval" /\ y.at = n
    BY <2>1 DEF Transition, Frame
  <2>4. /\ n \in Nodes /\ x \in FrameSet /\ y \in FrameSet /\ z \in FrameSet /\ r \in Seq(FrameSet)
        /\ \A k \in DOMAIN r : r[k].what = "" /\ r[k].type \in {"call", "unit"} /\ r[k].at = n
    BY <2>1, <2>2, PlanTypes, FramesAreTyped, RecordsAreTyped
  <2>5. ASSUME NEW e \in FrameSet, e.what \in {"awaiting", "succeeded"}, e.type = "transition", e.at = n
        PROVE  /\ r \o <<e>> \in Seq(FrameSet) /\ Told(r \o <<e>>, n)
               /\ \A k \in DOMAIN (r \o <<e>>) : (r \o <<e>>)[k].type # "finished"
               /\ e.what = "succeeded" =>
                     /\ \A k \in DOMAIN (r \o <<e>>) : (r \o <<e>>)[k].what \notin Working
                     /\ \E l \in DOMAIN (r \o <<e>>) : Moves((r \o <<e>>)[l], n)
    <3>1. PICK w, t : w = <<e>> /\ t = r \o w
      OBVIOUS
    <3>2. w \in Seq(FrameSet) /\ DOMAIN w = {1} /\ w[1] = e /\ Len(w) = 1
      BY <3>1, OneFrame, Singleton
    <3>3. t \in Seq(FrameSet) /\ \A k \in DOMAIN t : (k \in DOMAIN r /\ t[k] = r[k]) \/ t[k] = e
      <4>1. r \in Seq(FrameSet)
        BY <2>4
      <4> QED BY <3>1, <3>2, <4>1, OneMore, TwoParts
    <3>4. Len(r) + 1 \in DOMAIN t /\ t[Len(r) + 1] = e
      <4>1. r \in Seq(FrameSet) /\ 1 \in 1 .. Len(w)
        <5>1. r \in Seq(FrameSet)
          BY <2>4
        <5>2. Len(w) = 1
          BY <3>2
        <5> QED BY <5>1, <5>2
      <4>2. t[Len(r) + 1] = w[1]
        BY <3>1, <3>2, <4>1, TwoParts
      <4>3. DOMAIN t = 1 .. Len(r) + Len(w) /\ Len(r) \in Nat
        BY <3>1, <3>2, <4>1, TwoParts
      <4> QED BY <3>2, <4>2, <4>3
    <3>5. /\ Shaped(e) /\ e.what # "running" /\ e.type # "finished" /\ Moves(e, n)
          /\ e.what = "succeeded" => e.what \notin Working
      BY <2>4, <2>5 DEF Shaped, Moves, Working
    <3>6. \A k \in DOMAIN r : /\ Shaped(r[k]) /\ r[k].what # "running" /\ r[k].at = n
                              /\ r[k].type # "finished" /\ r[k].what \notin Working
      BY <2>4 DEF Shaped, Working
    <3>7. Told(t, n) /\ \A k \in DOMAIN t : t[k].type # "finished"
      BY <2>5, <3>3, <3>5, <3>6 DEF Told
    <3> QED BY <3>1, <3>3, <3>4, <3>5, <3>6, <3>7
  <2>6. CASE Here.asks
    <3>1. PICK t, v : t = r \o <<x>> /\ v = Append(t, y)
      OBVIOUS
    <3>2. pc' = "ask" /\ at' = at /\ outbox' = v
      BY <1>2, <2>1, <2>6, <3>1, WorkFrames DEF Work, Proceed
    <3>3. t \in Seq(FrameSet) /\ Told(t, n) /\ \A k \in DOMAIN t : t[k].type # "finished"
      BY <2>3, <2>4, <2>5, <3>1
    <3>4. v \in Seq(FrameSet) /\ \A k \in DOMAIN v : (k \in DOMAIN t /\ v[k] = t[k]) \/ v[k] = y
      <4>1. y \in FrameSet
        BY <2>4
      <4>2. /\ v \in Seq(FrameSet) /\ Len(t) \in Nat /\ DOMAIN t = 1 .. Len(t)
            /\ Len(v) = Len(t) + 1 /\ DOMAIN v = 1 .. Len(v)
            /\ v[Len(t) + 1] = y /\ \A k \in 1 .. Len(t) : v[k] = t[k]
        BY <3>1, <3>3, <4>1, AppendProperties
      <4>3. \A k \in DOMAIN v : k \in DOMAIN t \/ k = Len(t) + 1
        BY <4>2
      <4> QED BY <4>2, <4>3
    <3>5. Shaped(y) /\ y.what # "running" /\ y.type # "finished" /\ y.at = n
      BY <2>3 DEF Shaped
    <3>6. Told(v, n) /\ \A k \in DOMAIN v : v[k].type # "finished"
      BY <3>3, <3>4, <3>5 DEF Told
    <3>7. pc' \in Busy
      BY <3>2 DEF Busy
    <3> QED BY <2>1, <2>2, <3>2, <3>4, <3>6, <3>7, StoryStep
  <2>7. CASE ~Here.asks
    <3>1. PICK t : t = r \o <<z>>
      OBVIOUS
    <3>2. pc' = "next" /\ pc' \notin Busy /\ outbox' = t
      BY <1>2, <2>1, <2>7, <3>1 DEF Work, Proceed, Busy
    <3>3. /\ t \in Seq(FrameSet) /\ Told(t, n)
          /\ \A k \in DOMAIN t : t[k].type # "finished"
          /\ \A k \in DOMAIN t : t[k].what \notin Working
          /\ \E l \in DOMAIN t : Moves(t[l], n)
      BY <2>3, <2>4, <2>5, <3>1
    <3> QED BY <2>1, <2>2, <3>2, <3>3, StoryStep
  <2> QED BY <2>6, <2>7
<1>3. CASE Stopped
  <2>1. PICK n, f, t : n = Here.node /\ f = Transition(n, "cancelled") /\ t = <<f>>
    OBVIOUS
  <2>2. /\ pc = "running" /\ pc' \in {"cancelled", "exhausted"} /\ outbox = <<>>
        /\ outbox' = t /\ UNCHANGED <<journal, plan>>
    BY <1>3, <2>1 DEF Stopped, Proceed
  <2>3. n \in Nodes /\ f \in FrameSet
    BY <2>1, <2>2, PlanTypes, FramesAreTyped
  <2>4. f.type = "transition" /\ f.what = "cancelled" /\ f.at = n
    BY <2>1 DEF Transition, Frame
  <2>5. t \in Seq(FrameSet) /\ DOMAIN t = {1} /\ t[1] = f
    BY <2>1, <2>3, OneFrame
  <2>6. /\ Told(t, n) /\ \A k \in DOMAIN t : t[k].type # "finished" /\ t[k].what \notin Working
        /\ \E l \in DOMAIN t : Moves(t[l], n)
    BY <2>3, <2>4, <2>5 DEF Told, Shaped, Working, Moves, Filing
  <2>7. pc \in Busy /\ pc' \notin Busy
    BY <2>2 DEF Busy
  <2> QED BY <2>1, <2>2, <2>5, <2>6, <2>7, StoryStep
<1>4. CASE Errs
  <2>1. PICK n, f, g : /\ n = Here.node /\ f = Transition(n, "failed")
                      /\ g = Frame("finished", 0, "failed", TRUE)
    OBVIOUS
  <2>2. PICK t : t = <<f, g>>
    OBVIOUS
  <2>3. /\ pc = "running" /\ pc' = "erred" /\ outbox = <<>>
        /\ outbox' = t /\ UNCHANGED <<journal, plan>>
    BY <1>4, <2>1, <2>2 DEF Errs, Proceed
  <2>4. n \in Nodes /\ f \in FrameSet
    BY <2>1, <2>3, PlanTypes, FramesAreTyped
  <2>5. g \in FrameSet
    BY <2>1 DEF Frame, FrameSet
  <2>6. /\ f.type = "transition" /\ f.what = "failed" /\ f.at = n
        /\ g.type = "finished" /\ g.what = "failed"
    BY <2>1 DEF Transition, Frame
  <2>7. t \in Seq(FrameSet) /\ Len(t) = 2 /\ DOMAIN t = 1 .. 2 /\ t[1] = f /\ t[2] = g
    BY <2>2, <2>4, <2>5, Pair
  <2>8. \A k \in DOMAIN t : (k = 1 /\ t[k] = f) \/ (k = 2 /\ t[k] = g)
    BY <2>7
  <2>9. /\ Shaped(f) /\ Shaped(g) /\ f.what # "running" /\ g.what # "running"
        /\ f.what \notin Working /\ g.what \notin Working /\ Moves(f, n)
        /\ g.type \notin Filing \cup {"transition"} /\ f.type # "finished"
    BY <2>4, <2>6 DEF Shaped, Statuses, Working, Moves, Filing
  <2>10. Told(t, n)
    BY <2>6, <2>8, <2>9 DEF Told
  <2>11. pc \in Busy /\ pc' \notin Busy /\ pc' \in Over
    BY <2>3 DEF Busy, Over
  <2>12. \A k \in DOMAIN t : t[k].type = "finished" => k = Len(t) /\ pc' \in Over
    BY <2>7, <2>8, <2>9, <2>11
  <2>13. /\ \A k \in DOMAIN t : t[k].what \notin Working
         /\ \E l \in DOMAIN t : Moves(t[l], n)
    <3>1. 1 \in DOMAIN t
      BY <2>7
    <3> QED BY <2>7, <2>8, <2>9, <3>1
  <2> QED BY <2>1, <2>3, <2>7, <2>10, <2>11, <2>12, <2>13, StoryStep
<1>5. CASE AskTui \/ (\E printed \in BOOLEAN : AskCli(printed))
  <2>1. /\ pc = "ask" /\ pc' = "wait" /\ outbox = <<>> /\ outbox' = <<>>
        /\ UNCHANGED <<journal, plan, at>>
    BY <1>5 DEF AskTui, AskCli, Proceed
  <2>2. All' = All /\ Here' = Here /\ pc \in Busy /\ pc' \in Busy /\ pc \notin Over
    BY <2>1 DEF All, Here, Busy, Over
  <2> QED BY <2>2 DEF StoryInv
<1>6. CASE Resolve
  <2>1. PICK n, answer, t : n = Here.node /\ answer = Resolution /\ t = Settled(n, answer)
    OBVIOUS
  <2>2. /\ pc = "wait" /\ outbox = <<>> /\ outbox' = t /\ UNCHANGED <<journal, plan>>
        /\ pc' \in {"next", "exhausted", "cancelled"}
    BY <1>6, <2>1 DEF Resolve, Proceed
  <2>3. n \in Nodes /\ answer \in Replies
    BY <2>1, <2>2, PlanTypes, ResolutionIsAReply
  <2>4. t \in Seq(FrameSet)
    BY <2>1, <2>3, SettledIsTyped
  <2>5. /\ Told(t, n)
        /\ \A k \in DOMAIN t : t[k].what \notin Working /\ t[k].type # "finished"
        /\ \E l \in DOMAIN t : Moves(t[l], n)
    BY <2>1, <2>3, SettledTells
  <2>6. pc \in Busy /\ pc' \notin Busy
    BY <2>2 DEF Busy
  <2> QED BY <2>1, <2>2, <2>4, <2>5, <2>6, StoryStep
<1> QED BY <1>1, <1>2, <1>3, <1>4, <1>5, <1>6, StoryVisits, StoryEnds DEF Task

LEMMA NextStory ==
    ASSUME Typed, StoryInv, [Next]_vars PROVE StoryInv'
<1>1. CASE Task
  BY <1>1, TaskStory
<1>2. CASE ~Task
  <2>1. UNCHANGED <<journal, outbox, pc, plan, at>>
    <3>1. ASSUME HandleKey PROVE UNCHANGED <<journal, outbox, pc, plan, at>>
      BY <3>1 DEF HandleKey, Ui, run
    <3> QED BY <1>2, <3>1 DEF Next, Screen, DrainFrame, TapIsEmpty, DrainQuestions, NoKey,
            TerminalFails, CloseChannel, TakePrompt, CancelRun, Join, Ui, run, Reader, ReadLine,
            Expire, Interrupt, Press, vars
  <2>2. All' = All /\ Here' = Here /\ pc' = pc
    BY <2>1 DEF All, Here
  <2> QED BY <2>2 DEF StoryInv
<1> QED BY <1>1, <1>2

LEMMA InitStory ==
    ASSUME Init PROVE StoryInv
<1>1. PICK f, t : f = Frame("started", 0, "", TRUE) /\ t = <<f>>
  OBVIOUS
<1>2. journal = <<>> /\ outbox = t /\ pc = "next"
  BY <1>1 DEF Init
<1>3. f.type = "started" /\ f.what = ""
  BY <1>1, StartedFields
<1>4. f \in FrameSet
  BY <1>1 DEF Frame, FrameSet
<1>5. All = t /\ DOMAIN t = {1} /\ t[1] = f
  <2>1. t \in Seq(FrameSet) /\ DOMAIN t = {1} /\ t[1] = f
    BY <1>1, <1>4, OneFrame
  <2>2. All = t
    BY <1>2, <2>1, ConcatEmptySeq DEF All
  <2> QED BY <2>1, <2>2
<1>6. Shaped(f) /\ f.type \notin Filing /\ f.type # "finished" /\ \A n : ~Moves(f, n)
  BY <1>3 DEF Shaped, Filing, Moves
<1>7. FiledUnder(t) /\ \A n \in Nodes : AtRest(t, n)
  BY <1>5, <1>6 DEF FiledUnder, AtRest
<1> QED BY <1>2, <1>5, <1>6, <1>7 DEF StoryInv, Busy

Words ==
    {"", "running", "awaiting", "succeeded", "cancelled", "failed", "pending",
     "approved", "rejected", "yes", "no", "exhausted"}
Lines ==
    {"", "at a node", "waiting for a human", "starting", "done", "could not verify",
     "cancelled by a human", "budget used up"}

Views ==
    [rows : [Nodes -> [state : Words, visits : Nat]],
     current : Nodes \cup {0}, status : Statuses, events : Nat, calls : Nat,
     units : Nat, level : Nat, line : Lines, entries : Seq(Nat \X (Nodes \cup {0}))]

\* The node whose work the place i of s is, and the last of its moves.
Runs(s, a, n) == {i \in 1 .. a : Moves(s[i], n) /\ s[i].what = "running"}
LastMove(s, a, n, what) ==
    \/ what = "pending" /\ \A i \in 1 .. a : ~Moves(s[i], n)
    \/ \E i \in 1 .. a : /\ Moves(s[i], n) /\ s[i].what = what
                         /\ \A j \in 1 .. a : Moves(s[j], n) => j <= i

\* The view v is what the first a frames of s tell.
Tells(v, s, a) ==
    /\ v.events = a
    /\ \A n \in Nodes :
          /\ v.rows[n].visits = Cardinality(Runs(s, a, n))
          /\ LastMove(s, a, n, v.rows[n].state)
    /\ (\E i \in 1 .. a : s[i].what = "running") => Under(s, a, v.current)
    /\ \A k \in DOMAIN v.entries :
          v.entries[k][1] \in 1 .. a /\ Under(s, v.entries[k][1], v.entries[k][2])
    /\ v.status # "none" => \E i \in 1 .. a : s[i].type = "finished"

(***************************************************************************)
(* Inductive strengthening: the view is the story as far as it was         *)
(* drained, and a screen that says the run has ended was drawn when the    *)
(* task had ended and the last frame had been applied.                     *)
(***************************************************************************)
ViewInv ==
    /\ view \in Views /\ applied \in 0 .. Len(journal) /\ Tells(view, All, applied)
    /\ screen.finished => TaskIsFinished /\ view.status # "none"
    /\ ui \in {"off", "frames", "asks", "keys", "close", "take", "cancel", "join", "done"}

\* The fold keeps the view's shape, and each part is moved by its own frames.
Entry == Nat \X (Nodes \cup {0})
RowSet == [Nodes -> [state : Words, visits : Nat]]

LEMMA WithRows ==
    ASSUME NEW v \in Views, NEW e \in RowSet, NEW w, w = [v EXCEPT !.rows = e]
    PROVE  /\ w \in Views /\ w.rows = e
           /\ w.current = v.current /\ w.status = v.status /\ w.events = v.events
           /\ w.calls = v.calls /\ w.units = v.units /\ w.line = v.line
           /\ w.entries = v.entries
BY DEF Views, Entry, RowSet

LEMMA WithCurrent ==
    ASSUME NEW v \in Views, NEW e \in Nodes \cup {0}, NEW w, w = [v EXCEPT !.current = e]
    PROVE  /\ w \in Views /\ w.current = e
           /\ w.rows = v.rows /\ w.status = v.status /\ w.events = v.events
           /\ w.calls = v.calls /\ w.units = v.units /\ w.line = v.line
           /\ w.entries = v.entries
BY DEF Views

LEMMA WithStatus ==
    ASSUME NEW v \in Views, NEW e \in Statuses, NEW w, w = [v EXCEPT !.status = e]
    PROVE  /\ w \in Views /\ w.status = e
           /\ w.rows = v.rows /\ w.current = v.current /\ w.events = v.events
           /\ w.calls = v.calls /\ w.units = v.units /\ w.line = v.line
           /\ w.entries = v.entries
BY DEF Views

LEMMA WithEvents ==
    ASSUME NEW v \in Views, NEW e \in Nat, NEW w, w = [v EXCEPT !.events = e]
    PROVE  /\ w \in Views /\ w.events = e
           /\ w.rows = v.rows /\ w.current = v.current /\ w.status = v.status
           /\ w.calls = v.calls /\ w.units = v.units /\ w.line = v.line
           /\ w.entries = v.entries
BY DEF Views

LEMMA WithCalls ==
    ASSUME NEW v \in Views, NEW e \in Nat, NEW w, w = [v EXCEPT !.calls = e]
    PROVE  /\ w \in Views /\ w.calls = e
           /\ w.rows = v.rows /\ w.current = v.current /\ w.status = v.status
           /\ w.events = v.events /\ w.units = v.units /\ w.line = v.line
           /\ w.entries = v.entries
BY DEF Views

LEMMA WithUnits ==
    ASSUME NEW v \in Views, NEW e \in Nat, NEW w, w = [v EXCEPT !.units = e]
    PROVE  /\ w \in Views /\ w.units = e
           /\ w.rows = v.rows /\ w.current = v.current /\ w.status = v.status
           /\ w.events = v.events /\ w.calls = v.calls /\ w.line = v.line
           /\ w.entries = v.entries
BY DEF Views

LEMMA WithLine ==
    ASSUME NEW v \in Views, NEW e \in Lines, NEW w, w = [v EXCEPT !.line = e]
    PROVE  /\ w \in Views /\ w.line = e
           /\ w.rows = v.rows /\ w.current = v.current /\ w.status = v.status
           /\ w.events = v.events /\ w.calls = v.calls /\ w.units = v.units
           /\ w.entries = v.entries
BY DEF Views

LEMMA WithEntries ==
    ASSUME NEW v \in Views, NEW e \in Seq(Entry), NEW w, w = [v EXCEPT !.entries = e]
    PROVE  /\ w \in Views /\ w.entries = e
           /\ w.rows = v.rows /\ w.current = v.current /\ w.status = v.status
           /\ w.events = v.events /\ w.calls = v.calls /\ w.units = v.units
           /\ w.line = v.line
BY DEF Views, Entry, RowSet

LEMMA RowParts ==
    ASSUME NEW g \in [state : Words, visits : Nat], NEW to \in Words, NEW d \in Nat,
           NEW q, q = [g EXCEPT !.state = to, !.visits = @ + d]
    PROVE  q \in [state : Words, visits : Nat] /\ q.state = to /\ q.visits = g.visits + d
<1>1. PICK x, e : x = [g EXCEPT !.state = to] /\ e = g.visits + d
  OBVIOUS
<1>2. x \in [state : Words, visits : Nat] /\ x.state = to /\ e \in Nat
  BY <1>1
<1>3. q = [x EXCEPT !.visits = e]
  BY <1>1
<1>4. q \in [state : Words, visits : Nat] /\ q.state = to /\ q.visits = e
  BY <1>2, <1>3
<1> QED BY <1>1, <1>4

LEMMA MovedParts ==
    ASSUME NEW v \in Views, NEW f \in FrameSet, f.at \in Nodes
    PROVE  /\ Moved(v, f) \in Views
           /\ Moved(v, f).events = v.events /\ Moved(v, f).entries = v.entries
           /\ Moved(v, f).status = v.status
           /\ Moved(v, f).current = IF f.what = "running" THEN f.at ELSE v.current
           /\ \A n \in Nodes \ {f.at} : Moved(v, f).rows[n] = v.rows[n]
           /\ Moved(v, f).rows[f.at].state = f.what
           /\ Moved(v, f).rows[f.at].visits =
                 v.rows[f.at].visits + IF f.what = "running" THEN 1 ELSE 0
<1>1. PICK n, r, q, c, l :
         /\ n = f.at
         /\ q = [v.rows[n] EXCEPT !.state = f.what,
                                  !.visits = @ + (IF f.what = "running" THEN 1 ELSE 0)]
         /\ r = [v.rows EXCEPT ![n] = q]
         /\ c = IF f.what = "running" THEN n ELSE v.current
         /\ l = IF f.what = "running" THEN "at a node" ELSE v.line
  OBVIOUS
<1>2. n \in Nodes /\ v.rows \in RowSet /\ v.current \in Nodes \cup {0} /\ v.line \in Lines
  BY <1>1 DEF Views, RowSet
<1>3. v.rows[n] \in [state : Words, visits : Nat] /\ f.what \in Words
  <2>1. v.rows[n] \in [state : Words, visits : Nat]
    BY <1>2 DEF RowSet
  <2>2. f.what \in Words
    BY DEF FrameSet, Words
  <2> QED BY <2>1, <2>2
<1>4. /\ q \in [state : Words, visits : Nat] /\ q.state = f.what
      /\ q.visits = v.rows[n].visits + IF f.what = "running" THEN 1 ELSE 0
  <2>1. PICK d : d = IF f.what = "running" THEN 1 ELSE 0
    OBVIOUS
  <2>2. d \in Nat /\ q = [v.rows[n] EXCEPT !.state = f.what, !.visits = @ + d]
    BY <1>1, <2>1
  <2>3. /\ q \in [state : Words, visits : Nat] /\ q.state = f.what
        /\ q.visits = v.rows[n].visits + d
    BY <1>3, <2>2, RowParts
  <2> QED BY <2>1, <2>3
<1>5. r \in RowSet /\ r[n] = q /\ \A m \in Nodes \ {n} : r[m] = v.rows[m]
  <2>1. PICK o : o = v.rows
    OBVIOUS
  <2>2. o \in [Nodes -> [state : Words, visits : Nat]] /\ r = [o EXCEPT ![n] = q]
    BY <1>1, <1>2, <2>1 DEF RowSet
  <2>3. r \in [Nodes -> [state : Words, visits : Nat]] /\ r[n] = q
        /\ \A m \in Nodes \ {n} : r[m] = o[m]
    BY <1>2, <1>4, <2>2
  <2> QED BY <2>1, <2>3 DEF RowSet
<1>6. c \in Nodes \cup {0} /\ l \in Lines
  BY <1>1, <1>2 DEF Lines
<1>7. PICK x, y, z : /\ x = [v EXCEPT !.rows = r] /\ y = [x EXCEPT !.current = c]
                     /\ z = [y EXCEPT !.line = l]
  OBVIOUS
<1>8. x \in Views /\ y \in Views /\ z \in Views
  BY <1>5, <1>6, <1>7, WithRows, WithCurrent, WithLine
<1>9. z = Moved(v, f)
  BY <1>1, <1>2, <1>7 DEF Moved, Views
<1>10. /\ z.events = v.events /\ z.entries = v.entries /\ z.status = v.status
       /\ z.rows = r /\ z.current = c
  BY <1>5, <1>6, <1>7, <1>8, WithRows, WithCurrent, WithLine
<1> QED BY <1>1, <1>4, <1>5, <1>8, <1>9, <1>10

LEMMA FiledParts ==
    ASSUME NEW v \in Views, NEW n \in Nodes \cup {0}
    PROVE  /\ Filed(v, n) \in Views
           /\ Filed(v, n).events = v.events /\ Filed(v, n).rows = v.rows
           /\ Filed(v, n).status = v.status /\ Filed(v, n).current = v.current
           /\ Filed(v, n).entries = Append(v.entries, <<v.events, n>>)
<1>1. PICK e : e = Append(v.entries, <<v.events, n>>)
  OBVIOUS
<1>2. v.entries \in Seq(Entry) /\ <<v.events, n>> \in Entry
  BY DEF Views, Entry
<1>3. e \in Seq(Entry)
  BY <1>1, <1>2, AppendProperties
<1>4. Filed(v, n) = [v EXCEPT !.entries = e]
  <2>1. [v EXCEPT !.entries = Append(@, <<v.events, n>>)] = [v EXCEPT !.entries = e]
    BY <1>1, Zenon
  <2> QED BY <2>1 DEF Filed
<1>5. PICK w : w = Filed(v, n)
  OBVIOUS
<1>6. /\ w \in Views /\ w.events = v.events /\ w.rows = v.rows /\ w.status = v.status
      /\ w.current = v.current /\ w.entries = e
  BY <1>3, <1>4, <1>5, WithEntries
<1> QED BY <1>1, <1>5, <1>6

\* A frame's effect on the view, part by part.
LEMMA Applying ==
    ASSUME NEW w \in Views, NEW f \in FrameSet, Shaped(f), NEW u, u = ApplyFrame(w, f)
    PROVE  /\ u \in Views /\ u.events = w.events + 1
           /\ f.type # "transition" => u.rows = w.rows /\ u.current = w.current
           /\ f.type = "transition" =>
                 /\ u.current = IF f.what = "running" THEN f.at ELSE w.current
                 /\ \A n \in Nodes \ {f.at} : u.rows[n] = w.rows[n]
                 /\ u.rows[f.at].state = f.what
                 /\ u.rows[f.at].visits =
                       w.rows[f.at].visits + IF f.what = "running" THEN 1 ELSE 0
           /\ u.status = IF f.type = "finished" THEN f.what ELSE w.status
           /\ u.entries =
                 IF f.type \in Filing
                 THEN Append(w.entries,
                             <<w.events + 1, IF f.type = "unit" /\ ~f.own THEN w.current ELSE f.at>>)
                 ELSE w.entries
<1>1. PICK v, e : e = w.events + 1 /\ v = [w EXCEPT !.events = e]
  OBVIOUS
<1>2. e \in Nat
  BY <1>1 DEF Views
<1>3. /\ v \in Views /\ v.events = e /\ v.rows = w.rows /\ v.current = w.current
      /\ v.status = w.status /\ v.entries = w.entries /\ v.calls = w.calls /\ v.units = w.units
  BY <1>1, <1>2, WithEvents
<1>4. v.current \in Nodes \cup {0} /\ v.calls + 1 \in Nat /\ v.units + 1 \in Nat
  BY <1>3 DEF Views
<1>5. f.at \in Nodes \cup {0} /\ f.type \in {"started", "transition", "call", "unit", "approval", "boundary", "finished"}
  BY DEF FrameSet
<1>6. u = CASE f.type = "transition" -> Moved(v, f)
            [] f.type = "call" -> Called(v, f)
            [] f.type = "unit" -> Recorded(v, f)
            [] f.type = "approval" -> Consulted(v, f)
            [] f.type = "finished" -> Concluded(v, f)
            [] f.type = "started" -> [v EXCEPT !.line = "starting"]
            [] OTHER -> v
  BY <1>1 DEF ApplyFrame
<1>7. CASE f.type = "transition"
  <2>1. u = Moved(v, f) /\ f.at \in Nodes
    BY <1>6, <1>7 DEF Shaped
  <2>2. /\ u \in Views /\ u.events = e /\ u.entries = w.entries /\ u.status = w.status
        /\ u.current = IF f.what = "running" THEN f.at ELSE w.current
        /\ \A n \in Nodes \ {f.at} : u.rows[n] = w.rows[n]
        /\ u.rows[f.at].state = f.what
        /\ u.rows[f.at].visits = w.rows[f.at].visits + IF f.what = "running" THEN 1 ELSE 0
    BY <1>3, <2>1, MovedParts
  <2>3. f.type \notin Filing /\ f.type # "finished"
    BY <1>7 DEF Filing
  <2> QED BY <1>1, <1>7, <2>2, <2>3
<1>8. CASE f.type = "call"
  <2>1. PICK x : x = [v EXCEPT !.calls = v.calls + 1]
    OBVIOUS
  <2>2. u = Filed(x, f.at)
    BY <1>6, <1>8, <2>1 DEF Called
  <2>3. /\ x \in Views /\ x.events = e /\ x.rows = w.rows /\ x.current = w.current
        /\ x.status = w.status /\ x.entries = w.entries
    BY <1>3, <1>4, <2>1, WithCalls
  <2> QED BY <1>1, <1>5, <1>8, <2>2, <2>3, FiledParts DEF Filing
<1>9. CASE f.type = "unit"
  <2>1. PICK x, n : /\ x = [v EXCEPT !.units = v.units + 1]
                    /\ n = IF ~f.own THEN w.current ELSE f.at
    OBVIOUS
  <2>2. u = Filed(x, n)
    BY <1>3, <1>6, <1>9, <2>1 DEF Recorded, Attribution
  <2>3. /\ x \in Views /\ x.events = e /\ x.rows = w.rows /\ x.current = w.current
        /\ x.status = w.status /\ x.entries = w.entries
    BY <1>3, <1>4, <2>1, WithUnits
  <2>4. n \in Nodes \cup {0}
    BY <1>3, <1>4, <1>5, <2>1
  <2>5. /\ u \in Views /\ u.events = e /\ u.rows = w.rows /\ u.current = w.current
        /\ u.status = w.status /\ u.entries = Append(w.entries, <<e, n>>)
    BY <2>2, <2>3, <2>4, FiledParts
  <2>6. f.type \in Filing /\ n = IF f.type = "unit" /\ ~f.own THEN w.current ELSE f.at
    BY <1>9, <2>1 DEF Filing
  <2> QED BY <1>1, <1>9, <2>5, <2>6
<1>10. CASE f.type = "approval"
  <2>1. PICK x : x = IF f.what = "pending" THEN [v EXCEPT !.line = "waiting for a human"] ELSE v
    OBVIOUS
  <2>2. u = Filed(x, f.at)
    BY <1>6, <1>10, <2>1 DEF Consulted
  <2>3. /\ x \in Views /\ x.events = e /\ x.rows = w.rows /\ x.current = w.current
        /\ x.status = w.status /\ x.entries = w.entries
    <3>1. "waiting for a human" \in Lines
      BY DEF Lines
    <3>2. x = [v EXCEPT !.line = "waiting for a human"] \/ x = v
      BY <2>1
    <3>3. CASE x = v
      BY <1>3, <3>3
    <3>4. CASE x = [v EXCEPT !.line = "waiting for a human"]
      <4>1. PICK l : l = "waiting for a human"
        OBVIOUS
      <4>2. l \in Lines /\ x = [v EXCEPT !.line = l]
        BY <3>1, <3>4, <4>1
      <4>3. /\ x \in Views /\ x.events = v.events /\ x.rows = v.rows
            /\ x.current = v.current /\ x.status = v.status /\ x.entries = v.entries
        BY <1>3, <4>2, WithLine
      <4> QED BY <1>3, <4>3
    <3> QED BY <3>2, <3>3, <3>4
  <2> QED BY <1>1, <1>5, <1>10, <2>2, <2>3, FiledParts DEF Filing
<1>11. CASE f.type = "finished"
  <2>1. PICK x, l : /\ x = [v EXCEPT !.status = f.what]
                    /\ l = CASE f.what = "succeeded" -> "done"
                             [] f.what = "failed" -> "could not verify"
                             [] f.what = "cancelled" -> "cancelled by a human"
                             [] OTHER -> "budget used up"
    OBVIOUS
  <2>2. f.what \in Statuses /\ l \in Lines
    BY <1>11, <2>1 DEF Shaped, Lines
  <2>3. u = [x EXCEPT !.line = l]
    BY <1>6, <1>11, <2>1 DEF Concluded
  <2>4. /\ x \in Views /\ x.events = e /\ x.rows = w.rows /\ x.current = w.current
        /\ x.status = f.what /\ x.entries = w.entries
    <3>1. PICK st : st = f.what
      OBVIOUS
    <3>2. st \in Statuses /\ x = [v EXCEPT !.status = st]
      BY <2>1, <2>2, <3>1
    <3> QED BY <1>3, <3>1, <3>2, WithStatus
  <2>5. /\ u \in Views /\ u.events = e /\ u.rows = w.rows /\ u.current = w.current
        /\ u.status = f.what /\ u.entries = w.entries
    BY <2>2, <2>3, <2>4, WithLine
  <2> QED BY <1>1, <1>11, <2>5 DEF Filing
<1>12. CASE f.type \in {"started", "boundary"}
  <2>1. u = [v EXCEPT !.line = "starting"] \/ u = v
    BY <1>6, <1>12
  <2>2. "starting" \in Lines
    BY DEF Lines
  <2>3. /\ u \in Views /\ u.events = e /\ u.rows = w.rows /\ u.current = w.current
        /\ u.status = w.status /\ u.entries = w.entries
    BY <1>3, <2>1, <2>2, WithLine
  <2> QED BY <1>1, <1>12, <2>3 DEF Filing
<1> QED BY <1>5, <1>7, <1>8, <1>9, <1>10, <1>11, <1>12

LEMMA TellsOn ==
    ASSUME NEW v, NEW s, NEW u, NEW a \in Nat, Tells(v, s, a), \A i \in 1 .. a : u[i] = s[i]
    PROVE  Tells(v, u, a)
<1>1. ASSUME NEW n \in Nodes
      PROVE  v.rows[n].visits = Cardinality(Runs(u, a, n)) /\ LastMove(u, a, n, v.rows[n].state)
  <2>1. Runs(u, a, n) = Runs(s, a, n)
    BY DEF Runs
  <2>2. v.rows[n].visits = Cardinality(Runs(s, a, n)) /\ LastMove(s, a, n, v.rows[n].state)
    BY DEF Tells
  <2> QED BY <2>1, <2>2 DEF LastMove
<1>2. (\E i \in 1 .. a : u[i].what = "running") => Under(u, a, v.current)
  BY DEF Tells, Under
<1>3. ASSUME NEW k \in DOMAIN v.entries
      PROVE  v.entries[k][1] \in 1 .. a /\ Under(u, v.entries[k][1], v.entries[k][2])
  <2>1. v.entries[k][1] \in 1 .. a /\ Under(s, v.entries[k][1], v.entries[k][2])
    BY DEF Tells
  <2> QED BY <2>1, KeptUnder
<1>4. v.status # "none" => \E i \in 1 .. a : u[i].type = "finished"
  BY DEF Tells
<1> QED BY <1>1, <1>2, <1>3, <1>4 DEF Tells

\* Rows over one frame more.
LEMMA RunsMore ==
    ASSUME NEW s, NEW a \in Nat, NEW n
    PROVE  /\ Cardinality(Runs(s, a, n)) \in Nat
           /\ Cardinality(Runs(s, a + 1, n)) =
                 Cardinality(Runs(s, a, n))
                    + IF Moves(s[a + 1], n) /\ s[a + 1].what = "running" THEN 1 ELSE 0
<1>1. \A i : i \in 1 .. a + 1 <=> i \in 1 .. a \/ i = a + 1
  OBVIOUS
<1>2. a + 1 \notin 1 .. a
  OBVIOUS
<1>3. IsFiniteSet(Runs(s, a, n)) /\ a + 1 \notin Runs(s, a, n)
  <2>1. Runs(s, a, n) \in SUBSET (1 .. a) /\ IsFiniteSet(1 .. a)
    BY FS_Interval DEF Runs
  <2> QED BY <1>2, <2>1, FS_Subset
<1>4. Cardinality(Runs(s, a, n)) \in Nat
  BY <1>3, FS_CardinalityType
<1>5. CASE Moves(s[a + 1], n) /\ s[a + 1].what = "running"
  <2>1. Runs(s, a + 1, n) = Runs(s, a, n) \cup {a + 1}
    BY <1>1, <1>5 DEF Runs
  <2>2. Cardinality(Runs(s, a + 1, n)) = Cardinality(Runs(s, a, n)) + 1
    BY <1>3, <2>1, FS_AddElement
  <2> QED BY <1>4, <1>5, <2>2
<1>6. CASE ~(Moves(s[a + 1], n) /\ s[a + 1].what = "running")
  <2>1. Runs(s, a + 1, n) = Runs(s, a, n)
    BY <1>1, <1>6 DEF Runs
  <2> QED BY <1>4, <1>6, <2>1
<1> QED BY <1>4, <1>5, <1>6

LEMMA LastMoveMore ==
    ASSUME NEW s, NEW a \in Nat, NEW n, NEW what, NEW to,
           LastMove(s, a, n, what),
           IF Moves(s[a + 1], n) THEN to = s[a + 1].what ELSE to = what
    PROVE  LastMove(s, a + 1, n, to)
<1>1. \A i : i \in 1 .. a + 1 <=> i \in 1 .. a \/ i = a + 1
  OBVIOUS
<1>2. a + 1 \in 1 .. a + 1 /\ \A j \in 1 .. a + 1 : j <= a + 1
  OBVIOUS
<1>3. CASE Moves(s[a + 1], n)
  BY <1>2, <1>3 DEF LastMove
<1>4. CASE ~Moves(s[a + 1], n)
  BY <1>1, <1>4 DEF LastMove
<1> QED BY <1>3, <1>4

LEMMA UnderMore ==
    ASSUME NEW s, NEW a \in Nat, NEW n
    PROVE  /\ s[a + 1].what = "running" => Under(s, a + 1, s[a + 1].at)
           /\ s[a + 1].what # "running" /\ Under(s, a, n) => Under(s, a + 1, n)
           /\ s[a + 1].what # "running" /\ (\E i \in 1 .. a + 1 : s[i].what = "running") =>
                 \E i \in 1 .. a : s[i].what = "running"
           /\ Under(s, a, n) => \E i \in 1 .. a : s[i].what = "running"
<1>1. \A i : i \in 1 .. a + 1 <=> i \in 1 .. a \/ i = a + 1
  OBVIOUS
<1>2. a + 1 \in 1 .. a + 1 /\ \A j \in 1 .. a + 1 : j <= a + 1
  OBVIOUS
<1>3. s[a + 1].what = "running" => Under(s, a + 1, s[a + 1].at)
  BY <1>2 DEF Under
<1>4. s[a + 1].what # "running" /\ Under(s, a, n) => Under(s, a + 1, n)
  BY <1>1 DEF Under
<1> QED BY <1>1, <1>3, <1>4 DEF Under

\* One frame more is applied.
LEMMA TellsMore ==
    ASSUME NEW s \in Seq(FrameSet), NEW v \in Views, NEW a \in Nat, a + 1 \in DOMAIN s,
           \A i \in DOMAIN s : Shaped(s[i]), FiledUnder(s), Tells(v, s, a),
           NEW u, u = ApplyFrame(v, s[a + 1])
    PROVE  u \in Views /\ Tells(u, s, a + 1)
<1>1. PICK f : f = s[a + 1]
  OBVIOUS
<1>2. f \in FrameSet /\ Shaped(f) /\ u = ApplyFrame(v, f)
  BY <1>1, ElementOfSeq
<1>3. f.type = "transition" => f.at \in Nodes
  BY <1>2 DEF Shaped
<1>4. f.what = "running" => f.type = "transition"
  BY <1>2 DEF Shaped
<1>5. u \in Views /\ u.events = a + 1 /\ v.events = a
  <2>1. u \in Views /\ u.events = v.events + 1
    BY <1>2, Applying
  <2>2. v.events = a
    BY DEF Tells
  <2> QED BY <2>1, <2>2
<1>6. ASSUME NEW n \in Nodes
      PROVE  /\ u.rows[n].visits = Cardinality(Runs(s, a + 1, n))
             /\ LastMove(s, a + 1, n, u.rows[n].state)
  <2>1. v.rows[n].visits = Cardinality(Runs(s, a, n)) /\ LastMove(s, a, n, v.rows[n].state)
    BY DEF Tells
  <2>2. CASE Moves(f, n)
    <3>1. f.type = "transition" /\ f.at = n
      BY <2>2 DEF Moves
    <3>2. /\ u.rows[n].state = f.what
          /\ u.rows[n].visits = v.rows[n].visits + IF f.what = "running" THEN 1 ELSE 0
      BY <1>2, <3>1, Applying
    <3>3. u.rows[n].visits = Cardinality(Runs(s, a + 1, n))
      BY <1>1, <2>1, <2>2, <3>2, RunsMore
    <3>4. LastMove(s, a + 1, n, u.rows[n].state)
      BY <1>1, <2>1, <2>2, <3>2, LastMoveMore
    <3> QED BY <3>3, <3>4
  <2>3. CASE ~Moves(f, n)
    <3>1. u.rows[n] = v.rows[n]
      <4>1. CASE f.type = "transition"
        <5>1. n \in Nodes \ {f.at}
          BY <2>3, <4>1 DEF Moves
        <5>2. f.type = "transition" =>
                 /\ u.current = IF f.what = "running" THEN f.at ELSE v.current
                 /\ \A m \in Nodes \ {f.at} : u.rows[m] = v.rows[m]
                 /\ u.rows[f.at].state = f.what
                 /\ u.rows[f.at].visits =
                       v.rows[f.at].visits + IF f.what = "running" THEN 1 ELSE 0
          BY <1>2, Applying
        <5> QED BY <4>1, <5>1, <5>2
      <4>2. CASE f.type # "transition"
        BY <1>2, <4>2, Applying
      <4> QED BY <4>1, <4>2
    <3>2. Cardinality(Runs(s, a + 1, n)) = Cardinality(Runs(s, a, n))
      BY <1>1, <2>3, RunsMore
    <3>3. LastMove(s, a + 1, n, u.rows[n].state)
      BY <1>1, <2>1, <2>3, <3>1, LastMoveMore
    <3> QED BY <2>1, <3>1, <3>2, <3>3
  <2> QED BY <2>2, <2>3
<1>7. ASSUME \E i \in 1 .. a + 1 : s[i].what = "running"
      PROVE  Under(s, a + 1, u.current)
  <2>1. CASE f.what = "running"
    <3>1. u.current = f.at
      BY <1>2, <1>4, <2>1, Applying
    <3> QED BY <1>1, <2>1, <3>1, UnderMore
  <2>2. CASE f.what # "running"
    <3>1. u.current = v.current
      BY <1>2, <2>2, Applying
    <3>2. \E i \in 1 .. a : s[i].what = "running"
      BY <1>1, <1>7, <2>2, UnderMore
    <3>3. Under(s, a, v.current)
      BY <3>2 DEF Tells
    <3> QED BY <1>1, <2>2, <3>1, <3>3, UnderMore
  <2> QED BY <2>1, <2>2
<1>8. ASSUME NEW k \in DOMAIN u.entries
      PROVE  u.entries[k][1] \in 1 .. a + 1 /\ Under(s, u.entries[k][1], u.entries[k][2])
  <2>1. ASSUME NEW h \in DOMAIN v.entries
        PROVE  v.entries[h][1] \in 1 .. a + 1 /\ Under(s, v.entries[h][1], v.entries[h][2])
    <3>1. v.entries[h][1] \in 1 .. a /\ Under(s, v.entries[h][1], v.entries[h][2])
      BY DEF Tells
    <3> QED BY <3>1
  <2>2. CASE f.type \notin Filing
    <3>1. u.entries = v.entries
      BY <1>2, <2>2, Applying
    <3> QED BY <2>1, <3>1
  <2>3. CASE f.type \in Filing
    <3>1. PICK n : n = IF f.type = "unit" /\ ~f.own THEN v.current ELSE f.at
      OBVIOUS
    <3>2. u.entries = Append(v.entries, <<a + 1, n>>)
      <4>1. u.entries = Append(v.entries,
                <<v.events + 1, IF f.type = "unit" /\ ~f.own THEN v.current ELSE f.at>>)
        BY <1>2, <2>3, Applying
      <4> QED BY <1>5, <3>1, <4>1
    <3>3. Under(s, a + 1, n)
      <4>1. Under(s, a + 1, f.at)
        BY <1>1, <2>3 DEF FiledUnder
      <4>2. f.what # "running"
        BY <1>4, <2>3 DEF Filing
      <4>3. \E i \in 1 .. a + 1 : s[i].what = "running"
        BY <4>1 DEF Under
      <4>4. u.current = v.current
        <5>1. f.type # "transition"
          BY <2>3 DEF Filing
        <5> QED BY <1>2, <5>1, Applying
      <4>5. Under(s, a + 1, u.current)
        BY <1>7, <4>3
      <4> QED BY <3>1, <4>1, <4>4, <4>5
    <3>4. PICK w, e : w = v.entries /\ e = <<a + 1, n>>
      OBVIOUS
    <3>5. w \in Seq(Nat \X (Nodes \cup {0}))
      BY <3>4 DEF Views
    <3>6. (k \in DOMAIN w /\ u.entries[k] = w[k]) \/ u.entries[k] = e
      <4>1. u.entries = Append(w, e) /\ k \in DOMAIN Append(w, e)
        BY <3>2, <3>4
      <4> QED BY <3>5, <4>1
    <3>7. a + 1 \in 1 .. a + 1
      OBVIOUS
    <3>8. CASE k \in DOMAIN w /\ u.entries[k] = w[k]
      BY <2>1, <3>4, <3>8
    <3>9. CASE u.entries[k] = e
      BY <3>3, <3>4, <3>7, <3>9
    <3> QED BY <3>6, <3>8, <3>9
  <2> QED BY <2>2, <2>3
<1>9. ASSUME u.status # "none" PROVE \E i \in 1 .. a + 1 : s[i].type = "finished"
  <2>1. CASE f.type = "finished"
    <3>1. a + 1 \in 1 .. a + 1
      OBVIOUS
    <3> QED BY <1>1, <2>1, <3>1
  <2>2. CASE f.type # "finished"
    <3>1. v.status # "none"
      BY <1>2, <1>9, <2>2, Applying
    <3>2. PICK i \in 1 .. a : s[i].type = "finished"
      BY <3>1 DEF Tells
    <3>3. i \in 1 .. a + 1
      OBVIOUS
    <3> QED BY <3>2, <3>3
  <2> QED BY <2>1, <2>2
<1> QED BY <1>5, <1>6, <1>7, <1>8, <1>9 DEF Tells

\* What was said stays as it was said.
LEMMA SaidStays ==
    ASSUME Typed, Task
    PROVE  /\ Len(journal) \in Nat /\ Len(journal') \in Nat /\ Len(journal) <= Len(journal')
           /\ \A i \in 1 .. Len(journal) : All'[i] = All[i]
<1>1. CASE Write
  <2>1. PICK f, t : f = Head(outbox) /\ t = Tail(outbox)
    OBVIOUS
  <2>2. /\ journal \in Seq(FrameSet) /\ outbox \in Seq(FrameSet) /\ outbox # <<>>
        /\ journal' = Append(journal, f) /\ outbox' = t
    BY <1>1, <2>1 DEF Write, Typed
  <2>3. f \in FrameSet /\ t \in Seq(FrameSet) /\ outbox = <<f>> \o t
    BY <2>1, <2>2
  <2>4. Append(journal, f) \o t = journal \o (<<f>> \o t)
    BY <2>2, <2>3
  <2>5. All' = All
    BY <2>2, <2>3, <2>4 DEF All
  <2>6. Len(journal) \in Nat /\ Len(journal') = Len(journal) + 1
    BY <2>2, <2>3, AppendProperties
  <2> QED BY <2>5, <2>6
<1>2. CASE ~Write
  <2>1. journal' = journal /\ outbox = <<>>
    BY <1>2 DEF Task, Visit, Work, Stopped, Errs, AskTui, AskCli, Resolve, Finish, Proceed
  <2>2. journal \in Seq(FrameSet) /\ outbox' \in Seq(FrameSet)
    <3>1. Typed'
      BY NextTyped DEF Next
    <3> QED BY <3>1 DEF Typed
  <2>3. All = journal /\ All' = journal \o outbox'
    <3>1. journal \o <<>> = journal
      BY <2>2
    <3> QED BY <2>1, <3>1 DEF All
  <2>4. PICK s, t : s = journal /\ t = outbox'
    OBVIOUS
  <2>5. s \in Seq(FrameSet) /\ t \in Seq(FrameSet) /\ All = s /\ All' = s \o t /\ journal' = s
    BY <2>1, <2>2, <2>3, <2>4
  <2>6. Len(s) \in Nat /\ \A i \in 1 .. Len(s) : (s \o t)[i] = s[i]
    BY <2>5, TwoParts
  <2> QED BY <2>1, <2>4, <2>5, <2>6
<1> QED BY <1>1, <1>2

LEMMA NoTaskAfterTheEnd ==
    ASSUME TaskIsFinished, Task
    PROVE  FALSE
BY DEF TaskIsFinished, Task, Write, Visit, Work, Stopped, Errs, AskTui, AskCli, Resolve,
       Finish, Proceed

\* Steps that leave the view alone.
LEMMA ViewAside ==
    ASSUME ViewInv, UNCHANGED <<journal, outbox, pc, view, applied>>,
           screen'.finished => screen.finished \/ (TaskIsFinished /\ view.status # "none"),
           ui' \in {"off", "frames", "asks", "keys", "close", "take", "cancel", "join", "done"}
    PROVE  ViewInv'
<1>1. All' = All /\ (TaskIsFinished <=> TaskIsFinished')
  BY DEF All, TaskIsFinished
<1>2. /\ view' \in Views /\ applied' \in 0 .. Len(journal')
      /\ screen'.finished => TaskIsFinished' /\ view'.status # "none"
  BY <1>1 DEF ViewInv
<1>3. Tells(view', All', applied')
  BY <1>1 DEF ViewInv
<1> QED BY <1>2, <1>3 DEF ViewInv

LEMMA TaskView ==
    ASSUME Typed, ViewInv, Task PROVE ViewInv'
<1>1. ~screen.finished
  BY NoTaskAfterTheEnd DEF ViewInv
<1>2. UNCHANGED <<ui, applied, view>> /\ screen'.finished = screen.finished
  <2>1. CASE \E printed \in BOOLEAN : AskCli(printed)
    BY <2>1 DEF AskCli, loop, Typed
  <2>2. CASE ~\E printed \in BOOLEAN : AskCli(printed)
    BY <2>2 DEF Task, Write, Visit, Work, Stopped, Errs, AskTui, Resolve, Finish, loop
  <2> QED BY <2>1, <2>2
<1>3. PICK s, u, a, v : s = All /\ u = All' /\ a = applied /\ v = view
  OBVIOUS
<1>4. a \in Nat /\ a <= Len(journal) /\ Tells(v, s, a)
  BY <1>3, SaidStays DEF ViewInv
<1>5. \A i \in 1 .. a : u[i] = s[i]
  BY <1>3, <1>4, SaidStays
<1>6. Tells(v, u, a)
  BY <1>4, <1>5, TellsOn
<1>7. applied' \in 0 .. Len(journal')
  BY <1>2, <1>3, <1>4, SaidStays
<1> QED BY <1>1, <1>2, <1>3, <1>6, <1>7 DEF ViewInv

LEMMA DrainFrameView ==
    ASSUME Typed, StoryInv, ViewInv, DrainFrame PROVE ViewInv'
<1>1. PICK s, a, v, f : s = All /\ a = applied /\ v = view /\ f = journal[applied + 1]
  OBVIOUS
<1>2. /\ UNCHANGED <<journal, outbox, pc, screen>> /\ ui' = "frames"
      /\ a < Len(journal) /\ view' = ApplyFrame(v, f) /\ applied' = a + 1
  BY <1>1 DEF DrainFrame, Ui, run
<1>3. journal \in Seq(FrameSet) /\ outbox \in Seq(FrameSet) /\ a \in 0 .. Len(journal) /\ v \in Views
  BY <1>1 DEF Typed, ViewInv
<1>4. a + 1 \in DOMAIN journal /\ a \in Nat
  BY <1>2, <1>3
<1>5. s \in Seq(FrameSet) /\ a + 1 \in DOMAIN s /\ s[a + 1] = f
  <2>1. s \in Seq(FrameSet)
    BY <1>1, <1>3, TwoParts DEF All
  <2> QED BY <1>1, <1>4, <2>1, Written
<1>6. Tells(v, s, a) /\ FiledUnder(s) /\ \A i \in DOMAIN s : Shaped(s[i])
  BY <1>1 DEF ViewInv, StoryInv
<1>7. view' \in Views /\ Tells(view', s, a + 1)
  BY <1>2, <1>3, <1>4, <1>5, <1>6, TellsMore
<1>8. All' = s /\ (TaskIsFinished <=> TaskIsFinished')
  BY <1>1, <1>2 DEF All, TaskIsFinished
<1>9. v.status # "none" => view'.status # "none"
  <2>1. f \in FrameSet /\ Shaped(f)
    BY <1>5, <1>6, ElementOfSeq
  <2>2. view'.status = IF f.type = "finished" THEN f.what ELSE v.status
    BY <1>2, <1>3, <2>1, Applying
  <2>3. f.type = "finished" => f.what # "none"
    BY <2>1 DEF Shaped
  <2> QED BY <2>2, <2>3
<1>10. applied' \in 0 .. Len(journal')
  BY <1>2, <1>3
<1>11. screen'.finished => TaskIsFinished' /\ view'.status # "none"
  BY <1>1, <1>2, <1>8, <1>9 DEF ViewInv
<1> QED BY <1>2, <1>7, <1>8, <1>10, <1>11 DEF ViewInv

LEMMA NextView ==
    ASSUME Typed, StoryInv, ViewInv, [Next]_vars PROVE ViewInv'
<1>1. CASE TapIsEmpty \/ NoKey \/ TerminalFails \/ CloseChannel \/ TakePrompt \/ CancelRun \/ Join
  <2>1. /\ UNCHANGED <<journal, outbox, pc, view, applied, screen>>
        /\ ui' \in {"frames", "asks", "close", "take", "cancel", "join", "done"}
    BY <1>1 DEF TapIsEmpty, NoKey, TerminalFails, CloseChannel, TakePrompt, CancelRun, Join, Ui, run
  <2> QED BY <2>1, ViewAside
<1>2. CASE HandleKey
  <2>1. /\ UNCHANGED <<journal, outbox, pc, view, applied, screen>>
        /\ ui' \in {"frames", "close"}
    BY <1>2 DEF HandleKey, Ui, run
  <2> QED BY <2>1, ViewAside
<1>3. CASE DrainQuestions
  <2>1. /\ UNCHANGED <<journal, outbox, pc, view, applied>> /\ ui' = "keys"
        /\ screen' = [prompt |-> prompt', finished |-> Ended(view)]
    BY <1>3 DEF DrainQuestions, Ui, run
  <2>2. screen'.finished => TaskIsFinished /\ view.status # "none"
    BY <2>1 DEF Ended
  <2> QED BY <2>1, <2>2, ViewAside
<1>4. CASE Reader \/ Expire \/ Interrupt \/ (\E key \in Keys : Press(key)) \/ UNCHANGED vars
  <2>1. UNCHANGED <<journal, outbox, pc, view, applied, screen, ui>>
    BY <1>4 DEF Reader, ReadLine, Expire, Interrupt, Press, vars, run, loop
  <2> QED BY <2>1, ViewAside DEF ViewInv
<1> QED BY <1>1, <1>2, <1>3, <1>4, TaskView, DrainFrameView DEF Next, Screen

LEMMA InitView ==
    ASSUME Init PROVE ViewInv
<1>1. /\ journal = <<>> /\ applied = 0 /\ view = Blank
      /\ screen = [prompt |-> 0, finished |-> FALSE]
      /\ ui = IF plan.front = "tui" THEN "frames" ELSE "off"
  BY DEF Init
<1>2. Blank \in Views
  <2>1. <<>> \in Seq(Nat \X (Nodes \cup {0})) /\ "none" \in Statuses /\ "" \in Lines /\ "pending" \in Words
    BY EmptySeq DEF Statuses, Lines, Words
  <2>2. [n \in Nodes |-> [state |-> "pending", visits |-> 0]] \in [Nodes -> [state : Words, visits : Nat]]
    BY <2>1
  <2> QED BY <2>1, <2>2 DEF Blank, Views
<1>3. /\ Blank.events = 0 /\ Blank.status = "none" /\ Blank.entries = <<>>
      /\ \A n \in Nodes : Blank.rows[n].state = "pending" /\ Blank.rows[n].visits = 0
  BY DEF Blank
<1>4. PICK s : s = All
  OBVIOUS
<1>5. 1 .. 0 = {}
  OBVIOUS
<1>6. \A n : Runs(s, 0, n) = {} /\ LastMove(s, 0, n, "pending")
  BY <1>5 DEF Runs, LastMove
<1>7. Tells(Blank, s, 0)
  <2>1. \A n \in Nodes : /\ Blank.rows[n].visits = Cardinality(Runs(s, 0, n))
                         /\ LastMove(s, 0, n, Blank.rows[n].state)
    BY <1>3, <1>6, FS_EmptySet
  <2>2. DOMAIN Blank.entries = {}
    BY <1>3
  <2> QED BY <1>3, <1>5, <2>1, <2>2 DEF Tells
<1>8. applied \in 0 .. Len(journal)
  BY <1>1
<1>9. ~screen.finished
  BY <1>1
<1> QED BY <1>1, <1>2, <1>4, <1>7, <1>8, <1>9 DEF ViewInv

-----------------------------------------------------------------------------
Inductive == Typed /\ AnswersInv /\ FlowInv /\ StoryInv /\ ViewInv

LEMMA Invariance == Spec => []Inductive
<1>1. Init => Inductive
  BY InitTyped, InitInvariants, InitStory, InitView DEF Inductive
<1>2. Inductive /\ [Next]_vars => Inductive'
  BY NextTyped, NextAnswers, NextFlow, NextStory, NextView DEF Inductive
<1> QED BY <1>1, <1>2, PTL DEF Spec

-----------------------------------------------------------------------------
(* Theorems. *)

\* For every plan and every order of keys, lines, deadlines and quitting: what
\* the journal keeps as a human's words was read while the question it
\* answers was the one on the screen (ui.rs header; CliApprovalHandler).
THEOREM HumanWords == Spec => []HumanWordsAreHuman
<1>1. Inductive => HumanWordsAreHuman
  <2> SUFFICES ASSUME Inductive, NEW i \in DOMAIN journal, journal[i].type = "boundary"
               PROVE  /\ journal[i].what \in {"yes", "no"}
                      /\ <<QuestionAt(i), journal[i].what>> \in acts
    BY DEF HumanWordsAreHuman
  <2>1. /\ i \in DOMAIN All /\ All[i] = journal[i]
        /\ QuestionAt(i) = Pendings(All, i)
    BY Written DEF Inductive
  <2>2. PICK s, A : s = All /\ A = acts
    OBVIOUS
  <2>3. WordsIn(s, A)
    BY <2>2 DEF Inductive, FlowInv
  <2> QED BY <2>1, <2>2, <2>3 DEF WordsIn
<1> QED BY <1>1, Invariance, PTL

\* For every plan and every order of keys, lines, deadlines and quitting: the
\* run visits no further node and does not succeed after a question unless a
\* yes was read while that question was the one on the screen (ui.rs,
\* TuiApprovalHandler; main.rs, CliApprovalHandler).
THEOREM Silence == Spec => []SilenceReleasesNothing
<1>1. Inductive => SilenceReleasesNothing
  <2> SUFFICES ASSUME Inductive, NEW i \in DOMAIN journal, journal[i].what = "pending",
                      NEW j \in DOMAIN journal, j > i, Goes(journal[j])
               PROVE  <<QuestionAt(i), "yes">> \in acts
    BY DEF SilenceReleasesNothing
  <2>1. PICK s, A : s = All /\ A = acts
    OBVIOUS
  <2>2. /\ s[i] = journal[i] /\ QuestionAt(i) = Pendings(s, i) /\ i \in Nat \ {0}
        /\ j \in DOMAIN s /\ s[j] = journal[j] /\ j \in Nat
    <3>1. journal \in Seq(FrameSet)
      BY DEF Inductive, Typed
    <3>2. i \in Nat \ {0}
      BY <3>1
    <3> QED BY <2>1, <3>2, Written DEF Inductive
  <2>3. GoingIn(s, A)
    BY <2>1 DEF Inductive, FlowInv
  <2>4. Pendings(s, i) = Pendings(s, i - 1) + 1 /\ Pendings(s, i) <= Pendings(s, j)
    BY <2>2, PendingCounts, PendingsGrow
  <2>5. Pendings(s, i - 1) \in Nat /\ Pendings(s, j) \in Nat
    <3>1. i - 1 \in Nat
      BY <2>2
    <3> QED BY <2>2, <3>1, PendingsAreFinite
  <2>6. Pendings(s, i) \in 1 .. Pendings(s, j)
    BY <2>4, <2>5
  <2> QED BY <2>1, <2>2, <2>3, <2>6 DEF GoingIn
<1> QED BY <1>1, Invariance, PTL

\* For every plan, in both frontends and in every order: each question has its
\* reply channel, and no prompt, buffered question or reader is of a question
\* that was not put (ui.rs, run_live; main.rs, CliApprovalHandler).
THEOREM Types == Spec => []TypeOK
<1>1. Inductive => TypeOK
  <2> SUFFICES ASSUME Inductive PROVE TypeOK
    OBVIOUS
  <2>1. requests \in Seq(1 .. asked)
    BY DEF Inductive, Typed
  <2>2. ToSet(requests) \subseteq 1 .. asked
    BY <2>1, ElementOfSeq, LenProperties DEF ToSet
  <2>3. view.status \in Statuses
    BY DEF Inductive, ViewInv, Views
  <2> QED BY <2>2, <2>3 DEF TypeOK, Inductive, Typed, ViewInv, Places, Stretches
<1> QED BY <1>1, Invariance, PTL

\* What is shown stands in All at the same place.
LEMMA ShownStands ==
    ASSUME Typed, applied \in 0 .. Len(journal)
    PROVE  /\ DOMAIN Shown = 1 .. applied /\ applied \in Nat
           /\ \A i \in 1 .. applied : Shown[i] = All[i]
<1>1. journal \in Seq(FrameSet) /\ outbox \in Seq(FrameSet)
  BY DEF Typed
<1>2. /\ DOMAIN Shown = 1 .. applied /\ applied \in Nat
      /\ \A i \in 1 .. applied : Shown[i] = journal[i]
  BY <1>1 DEF Shown
<1>3. \A i \in 1 .. applied : i \in DOMAIN journal
  BY <1>1
<1> QED BY <1>2, <1>3, Written

LEMMA RowsAreRight ==
    ASSUME Inductive PROVE RowsShowTheJournal
<1> SUFFICES ASSUME NEW n \in Nodes
             PROVE  /\ view.rows[n].visits = Cardinality({i \in MovesOf(n) : Shown[i].what = "running"})
                    /\ view.rows[n].state =
                          IF MovesOf(n) = {} THEN "pending" ELSE Shown[CHOOSE i \in MovesOf(n) :
                              \A j \in MovesOf(n) : j <= i].what
  BY DEF RowsShowTheJournal
<1>1. PICK s, a, c, x : s = All /\ a = applied /\ c = view.rows[n].visits /\ x = view.rows[n].state
  OBVIOUS
<1>2. DOMAIN Shown = 1 .. a /\ a \in Nat /\ \A i \in 1 .. a : Shown[i] = s[i]
  BY <1>1, ShownStands DEF Inductive, ViewInv
<1>3. \A i : i \in MovesOf(n) <=> i \in 1 .. a /\ Moves(s[i], n)
  BY <1>2 DEF MovesOf, Moves
<1>4. c = Cardinality(Runs(s, a, n)) /\ LastMove(s, a, n, x)
  BY <1>1 DEF Inductive, ViewInv, Tells
<1>5. {i \in MovesOf(n) : Shown[i].what = "running"} = Runs(s, a, n)
  BY <1>2, <1>3 DEF Runs
<1>6. CASE MovesOf(n) = {}
  <2>1. x = "pending"
    BY <1>3, <1>4, <1>6 DEF LastMove
  <2> QED BY <1>1, <1>4, <1>5, <1>6, <2>1
<1>7. CASE MovesOf(n) # {}
  <2>1. PICK i \in 1 .. a : /\ Moves(s[i], n) /\ s[i].what = x
                            /\ \A j \in 1 .. a : Moves(s[j], n) => j <= i
    BY <1>3, <1>4, <1>7 DEF LastMove
  <2>2. i \in MovesOf(n) /\ \A j \in MovesOf(n) : j <= i
    BY <1>3, <2>1
  <2>3. PICK l : l = CHOOSE h \in MovesOf(n) : \A j \in MovesOf(n) : j <= h
    OBVIOUS
  <2>4. l \in MovesOf(n) /\ \A j \in MovesOf(n) : j <= l
    BY <2>2, <2>3
  <2>5. l = i
    <3>1. l <= i /\ i <= l /\ l \in 1 .. a
      BY <1>3, <2>2, <2>4
    <3> QED BY <1>2, <3>1
  <2> QED BY <1>1, <1>2, <1>4, <1>5, <1>7, <2>1, <2>3, <2>5
<1> QED BY <1>6, <1>7

LEMMA EntriesAreRight ==
    ASSUME Inductive PROVE EntriesAreUnderTheirNode
<1> SUFFICES ASSUME NEW k \in DOMAIN view.entries
             PROVE  LET i == view.entries[k][1]
                        runs == {j \in 1..i : Shown[j].what = "running"}
                    IN  runs # {} /\ view.entries[k][2] =
                            Shown[CHOOSE j \in runs : \A h \in runs : h <= j].at
  BY DEF EntriesAreUnderTheirNode
<1>1. PICK s, a, i, n, R : /\ s = All /\ a = applied
                           /\ i = view.entries[k][1] /\ n = view.entries[k][2]
                           /\ R = {j \in 1..i : Shown[j].what = "running"}
  OBVIOUS
<1>2. a \in Nat /\ \A h \in 1 .. a : Shown[h] = s[h]
  BY <1>1, ShownStands DEF Inductive, ViewInv
<1>3. i \in 1 .. a /\ Under(s, i, n)
  BY <1>1 DEF Inductive, ViewInv, Tells
<1>4. \A h \in 1 .. i : Shown[h] = s[h]
  BY <1>2, <1>3
<1>5. PICK j \in 1 .. i : /\ s[j].what = "running" /\ s[j].at = n
                          /\ \A h \in 1 .. i : s[h].what = "running" => h <= j
  BY <1>3 DEF Under
<1>6. \A h : h \in R <=> h \in 1 .. i /\ s[h].what = "running"
  BY <1>1, <1>4
<1>7. j \in R /\ \A h \in R : h <= j
  BY <1>5, <1>6
<1>8. PICK l : l = CHOOSE m \in R : \A h \in R : h <= m
  OBVIOUS
<1>9. l \in R /\ \A h \in R : h <= l
  BY <1>7, <1>8
<1>10. l = j
  <2>1. l <= j /\ j <= l /\ l \in 1 .. i
    BY <1>6, <1>7, <1>9
  <2> QED BY <1>2, <1>3, <2>1
<1>11. R # {} /\ n = Shown[l].at
  BY <1>4, <1>5, <1>7, <1>10
<1> QED BY <1>1, <1>8, <1>11

LEMMA EndedIsRight ==
    ASSUME Inductive PROVE EndedScreenIsComplete
<1> SUFFICES ASSUME screen.finished
             PROVE  /\ applied = Len(journal)
                    /\ \A n \in Nodes : view.rows[n].state \notin {"running", "awaiting"}
  BY DEF EndedScreenIsComplete
<1>1. pc \in Over /\ outbox = <<>> /\ view.status # "none"
  BY DEF Inductive, ViewInv, TaskIsFinished, Over
<1>2. PICK s, a : s = All /\ a = applied
  OBVIOUS
<1>3. s = journal /\ s \in Seq(FrameSet)
  <2>1. journal \in Seq(FrameSet) /\ journal \o <<>> = journal
    BY DEF Inductive, Typed
  <2> QED BY <1>1, <1>2, <2>1 DEF All
<1>4. a \in 0 .. Len(s) /\ DOMAIN s = 1 .. Len(s) /\ Len(s) \in Nat
  BY <1>2, <1>3 DEF Inductive, ViewInv
<1>5. PICK i \in 1 .. a : s[i].type = "finished"
  BY <1>1, <1>2 DEF Inductive, ViewInv, Tells
<1>6. i = Len(s)
  <2>1. i \in DOMAIN s
    BY <1>4
  <2> QED BY <1>2, <1>5, <2>1 DEF Inductive, StoryInv
<1>7. a = Len(s)
  <2>1. a \in Nat /\ a <= Len(s) /\ i <= a
    BY <1>4, <1>5
  <2>2. Len(s) \in Nat
    BY <1>4
  <2> QED BY <1>6, <2>1, <2>2
<1>8. ASSUME NEW n \in Nodes, view.rows[n].state \in Working
      PROVE  FALSE
  <2>1. LastMove(s, a, n, view.rows[n].state)
    BY <1>2 DEF Inductive, ViewInv, Tells
  <2>2. view.rows[n].state # "pending"
    BY <1>8 DEF Working
  <2>3. PICK m \in 1 .. a : /\ Moves(s[m], n) /\ s[m].what = view.rows[n].state
                            /\ \A j \in 1 .. a : Moves(s[j], n) => j <= m
    BY <2>1, <2>2 DEF LastMove
  <2>4. AtRest(s, n)
    <3>1. pc \notin Busy
      BY <1>1 DEF Over, Busy
    <3> QED BY <1>2, <3>1 DEF Inductive, StoryInv
  <2>5. m \in DOMAIN s /\ s[m].what \in Working
    BY <1>4, <1>7, <1>8, <2>3
  <2>6. PICK j \in DOMAIN s : j > m /\ Moves(s[j], n)
    BY <2>3, <2>4, <2>5 DEF AtRest
  <2>7. j \in 1 .. a
    BY <1>4, <1>7
  <2>8. j <= m
    BY <2>3, <2>6, <2>7
  <2> QED BY <1>4, <2>6, <2>7, <2>8
<1> QED BY <1>2, <1>3, <1>7, <1>8 DEF Working

\* For every plan and every order in which frames are written and drained:
\* each row shows the node's last transition and how often it ran, each record
\* stands under the node it was made at, and a screen that says the run has
\* ended leaves no frame out and no node at work (state.rs, ui.rs live_loop).
THEOREM Screens == Spec => []ScreenShowsTheJournal
<1>1. Inductive => ScreenShowsTheJournal
  BY RowsAreRight, EntriesAreRight, EndedIsRight DEF ScreenShowsTheJournal
<1> QED BY <1>1, Invariance, PTL
=============================================================================
