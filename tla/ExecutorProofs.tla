--------------------------- MODULE ExecutorProofs ---------------------------
(***************************************************************************)
(* Invariants of Executor proved for every set of plans, every visit cap   *)
(* and every cost of a model call.                                         *)
(***************************************************************************)
EXTENDS Executor, IndexTheorems

-----------------------------------------------------------------------------
(* Lemmas. *)

\* The plan is one of Plans, and its nodes are finitely many.
LEMMA PlanTypes ==
    ASSUME TypeOK
    PROVE  /\ PlanTyped(plan)
           /\ NodesOf(plan) \subseteq Nat \ {0}
           /\ IsFiniteSet(NodesOf(plan))
           /\ \A n \in NodesOf(plan) : plan.kind[n] \in Kinds
<1>1. PlanTyped(plan)
  BY PlansAssumption DEF TypeOK
<1>2. plan.kind \in Seq(Kinds)
  BY <1>1 DEF PlanTyped
<1>3. NodesOf(plan) = 1 .. Len(plan.kind) /\ Len(plan.kind) \in Nat
  BY <1>2 DEF NodesOf
<1>4. IsFiniteSet(1 .. Len(plan.kind))
  BY <1>3, FS_Interval
<1> QED BY <1>1, <1>2, <1>3, <1>4

\* Outgoing edges lead to nodes of the graph.
LEMMA EdgeTypes ==
    ASSUME TypeOK, NEW n \in NodesOf(plan), NEW i \in DOMAIN plan.succ[n]
    PROVE  plan.succ[n][i].to \in NodesOf(plan)
<1>1. plan.succ[n] \in Seq(EdgesWithin(NodesOf(plan)))
  BY PlanTypes DEF PlanTyped
<1>2. plan.succ[n][i] \in EdgesWithin(NodesOf(plan))
  BY <1>1
<1> QED BY <1>2 DEF EdgesWithin

\* Listing a finite set in ascending order lists exactly its members, once.
LEMMA ListingIsExact ==
    ASSUME NEW S \in SUBSET Nat, IsFiniteSet(S), NEW q \in InIndexOrder(S)
    PROVE  /\ q \in Seq(S)
           /\ S = {q[i] : i \in DOMAIN q}
           /\ \A i, j \in DOMAIN q : q[i] = q[j] => i = j
<1> DEFINE n == Cardinality(S)
<1>1. n \in Nat
  BY FS_CardinalityType
<1>2. q \in [1 .. n -> S] /\ \A i, j \in DOMAIN q : i < j => q[i] < q[j]
  BY DEF InIndexOrder
<1> HIDE DEF n
<1>3. \A i, j \in 1 .. n : q[i] = q[j] => i = j
  <2> SUFFICES ASSUME NEW i \in 1 .. n, NEW j \in 1 .. n, q[i] = q[j]
               PROVE  i = j
    BY <1>2
  <2>1. q[i] \in Nat /\ i \in DOMAIN q /\ j \in DOMAIN q
    BY <1>2
  <2>2. ~(q[i] < q[j]) /\ ~(q[j] < q[i])
    BY <2>1
  <2>3. ~(i < j) /\ ~(j < i)
    BY <1>2, <2>1, <2>2
  <2> QED BY <1>1, <2>3
<1>4. q \in Injection(1 .. n, S)
  BY <1>2, <1>3 DEF Injection, IsInjective
<1>5. IsFiniteSet(1 .. n) /\ Cardinality(1 .. n) = n
  BY <1>1, FS_Interval
<1>6. q \in Surjection(1 .. n, S)
  BY <1>4, <1>5, FS_Injection DEF n
<1>7. S = {q[i] : i \in 1 .. n}
  BY <1>2, <1>6 DEF Surjection
<1> QED BY <1>1, <1>2, <1>3, <1>7

\* Latest finds the newest unit of the roles asked for, or says there is none.
LEMMA LatestIsUnit ==
    ASSUME TypeOK, NEW roles
    PROVE  /\ Latest(roles) \in Nat
           /\ Latest(roles) # 0 =>
                 Latest(roles) \in DOMAIN ledger /\ ledger[Latest(roles)].role \in roles
<1> DEFINE S == {i \in DOMAIN ledger : ledger[i].role \in roles}
<1>1. CASE S = {}
  BY <1>1 DEF Latest, Newest
<1>2. CASE S # {}
  <2>1. DOMAIN ledger = 1 .. Len(ledger) /\ Len(ledger) \in Nat
    BY DEF TypeOK
  <2>2. S \in SUBSET (1 .. Len(ledger))
    BY <2>1
  <2>3. \E i \in S : \A j \in S : j <= i
    <3> HIDE DEF S
    <3> QED BY <1>2, <2>1, <2>2, Maximum
  <2>4. Latest(roles) \in S
    BY <1>2, <2>3 DEF Latest, Newest
  <2> QED BY <2>1, <2>4
<1> QED BY <1>1, <1>2

\* Units that cite known receipts still do once there are more receipts.
LEMMA UnitsGrow ==
    ASSUME NEW R, NEW T, R \subseteq T, NEW s \in Seq(UnitsCiting(R))
    PROVE  s \in Seq(UnitsCiting(T))
<1>1. UnitsCiting(R) \subseteq UnitsCiting(T)
  BY DEF UnitsCiting
<1> QED BY <1>1, SeqMonotonic

\* Committing the output of a node keeps the types, and what the ledger and
\* the receipts already held.
LEMMA CommitTypes ==
    ASSUME TypeOK, NEW records, NEW levels \in Seq(Levels),
           NEW units \in Seq(UnitsCiting(DOMAIN (receipts \o levels))),
           NEW fs, NEW esc \in BOOLEAN, Commit(records, levels, units, fs, esc)
    PROVE  /\ receipts' \in Seq(Levels)
           /\ DOMAIN receipts \subseteq DOMAIN receipts'
           /\ \A c \in DOMAIN receipts : receipts'[c] = receipts[c]
           /\ ledger' \in Seq(UnitsCiting(DOMAIN receipts'))
           /\ DOMAIN ledger \subseteq DOMAIN ledger'
           /\ \A i \in DOMAIN ledger : ledger'[i] = ledger[i]
           /\ edge' = 1 /\ escalated' \in BOOLEAN
           /\ pc' \in {"closing", "routing"} /\ forced' \in Statuses
<1>1. receipts \in Seq(Levels) /\ ledger \in Seq(UnitsCiting(DOMAIN receipts))
      /\ forced \in Statuses
  BY DEF TypeOK
<1>2. receipts' = receipts \o levels /\ ledger' = ledger \o units
      /\ edge' = 1 /\ escalated' = esc
  BY DEF Commit, Kept
<1>3. pc' \in {"closing", "routing"} /\ forced' \in Statuses
  BY <1>1 DEF Commit, Stops, Statuses
<1>4. /\ receipts' \in Seq(Levels) /\ DOMAIN receipts \subseteq DOMAIN receipts'
      /\ \A c \in DOMAIN receipts : receipts'[c] = receipts[c]
  BY <1>1, <1>2, Appending
<1>5. ledger \in Seq(UnitsCiting(DOMAIN receipts'))
  BY <1>1, <1>4, UnitsGrow
<1>6. units \in Seq(UnitsCiting(DOMAIN receipts'))
  BY <1>2
<1> HIDE DEF Commit
<1>7. /\ ledger \o units \in Seq(UnitsCiting(DOMAIN receipts'))
      /\ DOMAIN ledger \subseteq DOMAIN (ledger \o units)
      /\ \A i \in DOMAIN ledger : (ledger \o units)[i] = ledger[i]
  BY <1>5, <1>6, Appending
<1> QED BY <1>2, <1>3, <1>4, <1>7

-----------------------------------------------------------------------------
(* Types. *)

(***************************************************************************)
(* TypeOK is not inductive: that a review that passes marks a unit of the  *)
(* ledger (verified is a set of its positions) rests on the check made     *)
(* before the judge was called, which has to be remembered during the call.*)
(***************************************************************************)
JudgedDraft ==
    pc = "calling" /\ plan.kind[node] = "verify" =>
        LatestDraft # 0 /\ Receipted(ledger[LatestDraft]) /\ MeetsFloor(ledger[LatestDraft])

NothingVerifiedYet == pc = "new" => verified = {}

TypeInv == TypeOK /\ JudgedDraft /\ NothingVerifiedYet

LEMMA InitTypes == Init => TypeInv
<1> SUFFICES ASSUME Init PROVE TypeInv
  OBVIOUS
<1>1. PlanTyped(plan)
  BY PlansAssumption DEF Init
<1>2. NodesOf(plan) = DOMAIN plan.kind
  BY DEF NodesOf
<1>3. receipts \in Seq(Levels) /\ ledger \in Seq(UnitsCiting(DOMAIN receipts))
      /\ queue \in Seq(NodesOf(plan))
  BY DEF Init
<1>4. spent \in [Resources -> Nat] /\ forced \in Statuses
  BY DEF Init, Statuses
<1>5. visits \in [NodesOf(plan) -> Nat] /\ escalations \in [NodesOf(plan) -> Nat]
  BY DEF Init
<1>6. /\ plan \in Plans /\ pc = "new" /\ node = 0 /\ edge = 1 /\ escalated = FALSE
      /\ queued = {} /\ verified = {} /\ finalText = 0 /\ outcome = "none"
      /\ cancelled = FALSE /\ late = FALSE
  BY DEF Init
<1>7. TypeOK
  <2>1. /\ pc \in {"new", "pop", "running", "calling", "awaiting", "routing", "closing",
                   "returned"}
        /\ pc \in {"running", "calling", "awaiting", "routing"} => node # 0
    BY <1>6
  <2>2. node \in NodesOf(plan) \cup {0} /\ edge \in Nat \ {0}
    BY <1>6
  <2>3. escalated \in BOOLEAN /\ cancelled \in BOOLEAN /\ late \in BOOLEAN
    BY <1>6
  <2>4. verified \subseteq DOMAIN ledger /\ queued \subseteq NodesOf(plan)
    BY <1>6
  <2>5. plan \in Plans /\ finalText \in Nat /\ outcome \in {"none", "ok", "error"}
    BY <1>6
  <2> QED BY <2>1, <2>2, <2>3, <2>4, <2>5, <1>3, <1>4, <1>5 DEF TypeOK
<1>8. JudgedDraft /\ NothingVerifiedYet
  BY <1>6 DEF JudgedDraft, NothingVerifiedYet
<1> QED BY <1>7, <1>8 DEF TypeInv

\* The steps that take a node off the queue keep the schedule's types.
LEMMA PopTypes ==
    ASSUME TypeOK, NEW n \in NodesOf(plan), Pop(n)
    PROVE  /\ queue' \in Seq(NodesOf(plan)) /\ queued' \subseteq NodesOf(plan)
           /\ node' \in NodesOf(plan) /\ node' # 0 /\ pc = "pop"
<1>1. queue \in Seq(NodesOf(plan)) /\ queue # <<>> /\ queued \subseteq NodesOf(plan)
  BY DEF TypeOK, Pop
<1>2. Tail(queue) \in Seq(NodesOf(plan))
  BY <1>1, HeadTailProperties
<1> QED BY <1>1, <1>2, PlanTypes DEF Pop

LEMMA VisitTypes ==
    ASSUME TypeOK, NEW n \in NodesOf(plan), Visit(n)
    PROVE  visits' \in [NodesOf(plan) -> Nat]
BY DEF TypeOK, Visit

\* A step that commits a node's output and leaves the schedule alone.
LEMMA CommitStepTypes ==
    ASSUME TypeOK, NEW records, NEW levels \in Seq(Levels),
           NEW units \in Seq(UnitsCiting(DOMAIN (receipts \o levels))),
           NEW fs, NEW esc \in BOOLEAN, Commit(records, levels, units, fs, esc),
           node # 0, UNCHANGED <<plan, node, schedule, outcome, world>>,
           spent' \in [Resources -> Nat], finalText' \in Nat,
           verified' \subseteq DOMAIN ledger
    PROVE  TypeInv'
<1>1. /\ receipts' \in Seq(Levels)
      /\ ledger' \in Seq(UnitsCiting(DOMAIN receipts'))
      /\ DOMAIN ledger \subseteq DOMAIN ledger'
      /\ edge' = 1 /\ escalated' \in BOOLEAN
      /\ pc' \in {"closing", "routing"} /\ forced' \in Statuses
  BY CommitTypes
<1> HIDE DEF Commit
<1>2. TypeOK'
  BY <1>1 DEF TypeOK, schedule, world
<1>3. JudgedDraft' /\ NothingVerifiedYet'
  BY <1>1 DEF JudgedDraft, NothingVerifiedYet
<1> QED BY <1>2, <1>3 DEF TypeInv

\* A call that returned costs what one of Costs says.
LEMMA SpendTypes ==
    ASSUME TypeOK, \E cost \in Costs : Spend(cost)
    PROVE  spent' \in [Resources -> Nat]
BY CostsAssumption DEF TypeOK, Spend

\* What the judge was called for does not change while the call is out.
LEMMA SameJudgement ==
    ASSUME JudgedDraft, UNCHANGED <<plan, pc, node, receipts, ledger>>
    PROVE  JudgedDraft'
<1>1. LatestDraft' = LatestDraft
  BY DEF LatestDraft, Latest, Newest
<1>2. ASSUME NEW d PROVE Receipted(d)' = Receipted(d) /\ MeetsFloor(d)' = MeetsFloor(d)
  BY DEF Receipted, MeetsFloor, Strongest
<1> QED BY <1>1, <1>2 DEF JudgedDraft

\* The judge is called on a draft that has receipts and meets the floor.
LEMMA NextTypes == TypeInv /\ [Next]_vars => TypeInv'
<1> SUFFICES ASSUME TypeInv, [Next]_vars PROVE TypeInv'
  OBVIOUS
<1>0. TypeOK /\ JudgedDraft /\ NothingVerifiedYet
  BY DEF TypeInv
<1> USE <1>0
<1> USE DEF progress, schedule, knowledge, answer, world
<1>1. CASE Open
  <2>1. PICK q \in InIndexOrder(EntryNodes(plan)) : queue' = q
    BY <1>1 DEF Open
  <2>2. EntryNodes(plan) \subseteq NodesOf(plan)
    BY DEF EntryNodes, StrictEntries
  <2>3. q \in Seq(EntryNodes(plan))
    BY <2>2, PlanTypes, FS_Subset, ListingIsExact
  <2>4. queue' \in Seq(NodesOf(plan))
    BY <2>1, <2>2, <2>3, SeqMonotonic
  <2>5. CarriedUnits \in Seq(UnitsCiting(DOMAIN receipts))
    <3>1. plan.feedback \in Nat /\ plan.history \in Nat
      BY PlanTypes DEF PlanTyped
    <3>2. CarriedUnits \in [1 .. plan.feedback + plan.history -> UnitsCiting(DOMAIN receipts)]
      BY <3>1 DEF CarriedUnits, Unit, UnitsCiting, Roles, RoleNames
    <3>3. plan.feedback + plan.history \in Nat
      BY <3>1
    <3> QED BY <3>2, <3>3
  <2>6. /\ queued' \subseteq NodesOf(plan) /\ pc' = "pop"
        /\ ledger' \in Seq(UnitsCiting(DOMAIN receipts)) /\ verified = {}
    BY <1>1, <2>2, <2>5 DEF Open, NothingVerifiedYet
  <2> QED BY <1>1, <2>4, <2>6 DEF Open, TypeInv, TypeOK, JudgedDraft, NothingVerifiedYet
<1>2. CASE RefuseToCompile
  BY <1>2 DEF RefuseToCompile, TypeInv, TypeOK, JudgedDraft, NothingVerifiedYet
<1>3. CASE StopAtCap
  <2>1. PICK n \in NodesOf(plan) : Pop(n)
    BY <1>3 DEF StopAtCap
  <2> QED BY <1>3, <2>1, PopTypes DEF StopAtCap, Stops, Statuses, TypeInv, TypeOK, JudgedDraft, NothingVerifiedYet
<1>4. CASE StopAtVisitCap
  <2>1. PICK n \in NodesOf(plan) : Visit(n)
    BY <1>4 DEF StopAtVisitCap
  <2>2. Pop(n)
    BY <2>1 DEF Visit
  <2> QED BY <1>4, <2>1, <2>2, PopTypes, VisitTypes
          DEF StopAtVisitCap, Stops, Statuses, TypeInv, TypeOK, JudgedDraft, NothingVerifiedYet
<1>5. CASE RunNode
  <2>1. PICK n \in NodesOf(plan) : Visit(n)
    BY <1>5 DEF RunNode
  <2>2. Pop(n)
    BY <2>1 DEF Visit
  <2> QED BY <1>5, <2>1, <2>2, PopTypes, VisitTypes DEF RunNode, TypeInv, TypeOK, JudgedDraft, NothingVerifiedYet
<1>6. CASE UnknownKind
  <2>1. PICK n \in NodesOf(plan) : Visit(n) /\ pc' = "returned" /\ outcome' = "error"
    BY <1>6 DEF UnknownKind, Fails
  <2>2. Pop(n)
    BY <2>1 DEF Visit
  <2> QED BY <1>6, <2>1, <2>2, PopTypes, VisitTypes
          DEF UnknownKind, TypeInv, TypeOK, JudgedDraft, NothingVerifiedYet
<1>7. CASE Stopped
  BY <1>7 DEF Stopped, Stops, StopStatus, Statuses, TypeInv, TypeOK, JudgedDraft, NothingVerifiedYet
<1>8. CASE Intake
  <2>1. NextReceipt \in DOMAIN (receipts \o <<2>>) /\ NextId \in Nat /\ node # 0
    BY <1>8 DEF NextReceipt, NextId, TypeOK, Intake, Running
  <2> DEFINE unit == Unit("none", TRUE, {NextReceipt}, NextId, FALSE)
  <2>2. <<unit>> \in Seq(UnitsCiting(DOMAIN (receipts \o <<2>>)))
    BY <2>1 DEF Unit, UnitsCiting, Roles, RoleNames
  <2>3. <<2>> \in Seq(Levels)
    BY DEF Levels
  <2>4. Commit(<<>>, <<2>>, <<unit>>, [intake |-> "true"], FALSE)
    BY <1>8 DEF Intake
  <2> HIDE DEF unit
  <2> QED BY <1>8, <2>1, <2>2, <2>3, <2>4, CommitStepTypes DEF Intake, TypeOK
<1>9. CASE Research
  <2>1. <<>> \in Seq(Levels) /\ <<>> \in Seq(UnitsCiting(DOMAIN (receipts \o <<>>))) /\ node # 0
    BY <1>9 DEF Research, Running, TypeOK
  <2> QED BY <1>9, <2>1, CommitStepTypes DEF Research, TypeOK
<1>10. CASE Respond
  <2>1. LatestDraft \in DOMAIN ledger
    BY <1>10, LatestIsUnit DEF Respond, LatestDraft
  <2>2. ledger[LatestDraft] \in UnitsCiting(DOMAIN receipts)
    BY <2>1 DEF TypeOK
  <2> DEFINE draft == ledger[LatestDraft]
             unit == Unit("response", FALSE, draft.cites, draft.text, Reviewed)
  <2>3. draft.cites \subseteq DOMAIN (receipts \o <<>>) /\ draft.text \in Nat
    BY <2>2 DEF UnitsCiting, TypeOK
  <2>4. <<unit>> \in Seq(UnitsCiting(DOMAIN (receipts \o <<>>)))
    BY <2>3 DEF Unit, UnitsCiting, Roles, RoleNames, Reviewed
  <2>5. Commit(<<>>, <<>>, <<unit>>, [done |-> "true"], FALSE) /\ finalText' = draft.text
    BY <1>10 DEF Respond
  <2>6. <<>> \in Seq(Levels) /\ node # 0
    BY <1>10 DEF Respond, Running, TypeOK
  <2> HIDE DEF unit
  <2> QED BY <1>10, <2>3, <2>4, <2>5, <2>6, CommitStepTypes DEF Respond, TypeOK
<1>11. CASE BelowFloor
  <2>1. /\ <<>> \in Seq(Levels) /\ <<>> \in Seq(UnitsCiting(DOMAIN (receipts \o <<>>)))
        /\ node # 0
    BY <1>11 DEF BelowFloor, Running, TypeOK
  <2> QED BY <1>11, <2>1, CommitStepTypes DEF BelowFloor, TypeOK
<1>12. CASE Call
  <2>1. node # 0 /\ pc' = "calling"
    BY <1>12 DEF Call, ReadyToCall, Running, TypeOK
  <2>2. TypeOK' /\ NothingVerifiedYet'
    BY <1>12, <2>1 DEF Call, TypeOK, NothingVerifiedYet
  <2>3. LatestDraft' = LatestDraft
    BY <1>12 DEF Call, LatestDraft, Latest, Newest
  <2>4. ASSUME NEW d PROVE Receipted(d)' = Receipted(d) /\ MeetsFloor(d)' = MeetsFloor(d)
    BY <1>12 DEF Call, Receipted, MeetsFloor, Strongest
  <2>5. plan.kind[node] = "verify" =>
           LatestDraft # 0 /\ Receipted(ledger[LatestDraft]) /\ MeetsFloor(ledger[LatestDraft])
    BY <1>12 DEF Call, ReadyToCall, Running
  <2>6. JudgedDraft'
    BY <1>12, <2>3, <2>4, <2>5 DEF JudgedDraft, Call
  <2> QED BY <2>2, <2>6 DEF TypeInv
<1>13. CASE NothingToWorkOn
  BY <1>13 DEF NothingToWorkOn, NodeError, Fails, TypeInv, TypeOK, JudgedDraft, NothingVerifiedYet
<1>14. CASE AskApproval
  <2>1. node # 0
    BY <1>14 DEF AskApproval, Running, TypeOK
  <2> QED BY <1>14, <2>1 DEF AskApproval, TypeInv, TypeOK, JudgedDraft, NothingVerifiedYet
<1>15. CASE Silence
  BY <1>15 DEF Silence, Refuse, Stops, StopStatus, Statuses, TypeInv, TypeOK, JudgedDraft, NothingVerifiedYet
<1>16. CASE FollowEdge
  <2>1. node \in NodesOf(plan)
    BY <1>16 DEF FollowEdge, TypeOK
  <2>2. Edge.to \in NodesOf(plan)
    BY <1>16, <2>1, EdgeTypes DEF FollowEdge, Edge
  <2>3. escalations' \in [NodesOf(plan) -> Nat]
    <3>1. escalations \in [NodesOf(plan) -> Nat]
      BY DEF TypeOK
    <3>2. escalations' = escalations \/ escalations' = [escalations EXCEPT ![Edge.to] = @ + 1]
      BY <1>16 DEF FollowEdge, Escalated
    <3> QED BY <2>2, <3>1, <3>2
  <2>4. queue' \in Seq(NodesOf(plan)) /\ queued' \subseteq NodesOf(plan)
    <3>1. queue \in Seq(NodesOf(plan)) /\ queued \subseteq NodesOf(plan)
      BY DEF TypeOK
    <3>2. Append(queue, Edge.to) \in Seq(NodesOf(plan))
      BY <2>2, <3>1
    <3>3. /\ queue' = IF Edge.to \in queued THEN queue ELSE Append(queue, Edge.to)
          /\ queued' = queued \cup {Edge.to}
      BY <1>16 DEF FollowEdge
    <3> QED BY <2>2, <3>1, <3>2, <3>3
  <2> QED BY <1>16, <2>3, <2>4 DEF FollowEdge, TypeInv, TypeOK, JudgedDraft, NothingVerifiedYet
<1>17. CASE PassOverEdge
  BY <1>17 DEF PassOverEdge, TypeInv, TypeOK, JudgedDraft, NothingVerifiedYet
<1>18. CASE BadGuard
  BY <1>18 DEF BadGuard, TypeInv, TypeOK, JudgedDraft, NothingVerifiedYet
<1>19. CASE Settle
  <2>1. late' \in BOOLEAN
    BY <1>19 DEF Settle, Overtimes, TypeOK
  <2> QED BY <1>19, <2>1 DEF Settle, Stops, Statuses, TypeInv, TypeOK, JudgedDraft, NothingVerifiedYet
<1>20. CASE Close
  <2>1. finalText' \in Nat /\ forced' \in Statuses
    BY <1>20 DEF Close, Answer, Status, Statuses, TypeOK
  <2> QED BY <1>20, <2>1 DEF Close, TypeInv, TypeOK, JudgedDraft, NothingVerifiedYet
<1>21. CASE NoRoomForPrompt
  BY <1>21 DEF NoRoomForPrompt, Stops, Statuses, TypeInv, TypeOK, JudgedDraft, NothingVerifiedYet
<1>22. CASE CallFails
  BY <1>22 DEF CallFails, NodeError, Fails, TypeInv, TypeOK, JudgedDraft, NothingVerifiedYet
<1>23. CASE ModelReturns
  <2> DEFINE cites == {NextReceipt} \cup UNION {ledger[i].cites : i \in Consumed}
             unit == Unit(plan.role[node], FALSE, cites, NextId, FALSE)
  <2>1. node \in NodesOf(plan) /\ node # 0 /\ NextId \in Nat
    BY <1>23 DEF ModelReturns, Calling, TypeOK, NextId
  <2>2. plan.role[node] \in Roles
    BY <2>1, PlanTypes DEF PlanTyped, Roles
  <2>3. cites \subseteq DOMAIN (receipts \o <<1>>)
    <3>1. \A i \in Consumed : ledger[i].cites \subseteq DOMAIN receipts
      <4> SUFFICES ASSUME NEW i \in Consumed
                   PROVE  ledger[i].cites \subseteq DOMAIN receipts
        OBVIOUS
      <4>1. i \in DOMAIN ledger
        BY DEF Consumed
      <4>2. ledger[i] \in UnitsCiting(DOMAIN receipts)
        BY <4>1 DEF TypeOK
      <4> QED BY <4>2 DEF UnitsCiting
    <3>2. receipts \in Seq(Levels) /\ <<1>> \in Seq(Levels)
      BY DEF TypeOK, Levels
    <3>3. /\ DOMAIN receipts \subseteq DOMAIN (receipts \o <<1>>)
          /\ NextReceipt \in DOMAIN (receipts \o <<1>>)
      BY <3>2 DEF NextReceipt
    <3> QED BY <3>1, <3>3
  <2>4. <<unit>> \in Seq(UnitsCiting(DOMAIN (receipts \o <<1>>)))
    <3> HIDE DEF cites
    <3> QED BY <2>1, <2>2, <2>3 DEF Unit, UnitsCiting
  <2>5. Commit(CallRecords, <<1>>, <<unit>>, [drafted |-> "true"], FALSE)
    BY <1>23 DEF ModelReturns
  <2>6. <<1>> \in Seq(Levels)
    BY DEF Levels
  <2> HIDE DEF unit
  <2> QED BY <1>23, <2>1, <2>4, <2>5, <2>6, SpendTypes, CommitStepTypes DEF ModelReturns, TypeOK
<1>24. CASE JudgePasses
  <2> DEFINE unit == Unit("review", FALSE, {NextReceipt}, NextId, FALSE)
  <2>1. NextReceipt \in DOMAIN (receipts \o <<1>>) /\ NextId \in Nat /\ node # 0
    BY <1>24 DEF NextReceipt, NextId, TypeOK, JudgePasses, Calling
  <2>2. <<unit>> \in Seq(UnitsCiting(DOMAIN (receipts \o <<1>>)))
    BY <2>1 DEF Unit, UnitsCiting, Roles, RoleNames
  <2>3. <<1>> \in Seq(Levels)
    BY DEF Levels
  <2>4. Commit(CallRecords, <<1>>, <<unit>>, [verdict |-> "pass"], FALSE)
    BY <1>24 DEF JudgePasses
  <2>5. verified' \subseteq DOMAIN ledger
    <3>1. plan.kind[node] = "verify" /\ pc = "calling"
      BY <1>24 DEF JudgePasses, Calling
    <3>2. LatestDraft \in DOMAIN ledger
      BY <3>1, LatestIsUnit DEF JudgedDraft, LatestDraft
    <3> QED BY <1>24, <3>2 DEF JudgePasses, TypeOK
  <2> HIDE DEF unit
  <2> QED BY <1>24, <2>1, <2>2, <2>3, <2>4, <2>5, SpendTypes, CommitStepTypes DEF JudgePasses, TypeOK
<1>25. CASE JudgeRevises
  <2> DEFINE unit == Unit("review-feedback", FALSE, {NextReceipt}, NextId, FALSE)
  <2>1. NextReceipt \in DOMAIN (receipts \o <<1>>) /\ NextId \in Nat /\ node # 0
    BY <1>25 DEF NextReceipt, NextId, TypeOK, JudgeRevises, Calling
  <2>2. <<unit>> \in Seq(UnitsCiting(DOMAIN (receipts \o <<1>>)))
    BY <2>1 DEF Unit, UnitsCiting, Roles, RoleNames
  <2>3. <<1>> \in Seq(Levels)
    BY DEF Levels
  <2>4. Commit(
              Append(CallRecords, Event("failure", node, "judged", LatestDraft)), <<1>>, <<unit>>, [verdict |-> "revise"], TRUE)
    BY <1>25 DEF JudgeRevises
  <2> HIDE DEF unit
  <2> QED BY <1>25, <2>1, <2>2, <2>3, <2>4, SpendTypes, CommitStepTypes DEF JudgeRevises, TypeOK
<1>26. ASSUME NEW ok \in BOOLEAN, ToolReturns(ok) PROVE TypeInv'
  <2> DEFINE unit == Unit("tool-result", FALSE, {NextReceipt}, NextId, FALSE)
  <2>1. NextReceipt \in DOMAIN (receipts \o <<plan.level[node]>>) /\ NextId \in Nat /\ node # 0
    BY <1>26 DEF NextReceipt, NextId, TypeOK, ToolReturns, Calling
  <2>2. <<unit>> \in Seq(UnitsCiting(DOMAIN (receipts \o <<plan.level[node]>>)))
    BY <2>1 DEF Unit, UnitsCiting, Roles, RoleNames
  <2>3. <<plan.level[node]>> \in Seq(Levels)
    BY <2>1, PlanTypes DEF PlanTyped, TypeOK
  <2>4. Commit(
              <<Event("tool-call", node, IF ok THEN "ok" ELSE "is_error", CallArgument)>>, <<plan.level[node]>>, <<unit>>, 
              [f \in {"invoked", "tool.ok"} |->
                  IF f = "tool.ok" /\ ~ok THEN "false" ELSE "true"], FALSE)
    BY <1>26 DEF ToolReturns
  <2> HIDE DEF unit
  <2> QED BY <1>26, <2>1, <2>2, <2>3, <2>4, CommitStepTypes DEF ToolReturns, TypeOK
<1>27. CASE Approve
  <2>1. /\ <<>> \in Seq(Levels) /\ <<>> \in Seq(UnitsCiting(DOMAIN (receipts \o <<>>)))
        /\ node # 0
    BY <1>27 DEF Approve, TypeOK
  <2> QED BY <1>27, <2>1, CommitStepTypes DEF Approve, TypeOK
<1>28. CASE Decline
  BY <1>28 DEF Decline, Refuse, Stops, Statuses, TypeInv, TypeOK, JudgedDraft, NothingVerifiedYet
<1>29. CASE Cancel
  <2>1. JudgedDraft'
    BY <1>29, SameJudgement DEF Cancel
  <2>2. TypeOK' /\ NothingVerifiedYet'
    BY <1>29 DEF Cancel, TypeOK, NothingVerifiedYet
  <2> QED BY <2>1, <2>2 DEF TypeInv
<1>30. CASE Expire
  <2>1. JudgedDraft'
    BY <1>30, SameJudgement DEF Expire
  <2>2. TypeOK' /\ NothingVerifiedYet'
    BY <1>30 DEF Expire, TypeOK, NothingVerifiedYet
  <2> QED BY <2>1, <2>2 DEF TypeInv
<1>31. CASE UNCHANGED vars
  <2>1. JudgedDraft'
    BY <1>31, SameJudgement DEF vars
  <2>2. TypeOK' /\ NothingVerifiedYet'
    BY <1>31 DEF vars, TypeOK, NothingVerifiedYet
  <2> QED BY <2>1, <2>2 DEF TypeInv
<1> QED
  BY <1>1, <1>2, <1>3, <1>4, <1>5, <1>6, <1>7, <1>8, <1>9, <1>10, <1>11, <1>12, <1>13,
     <1>14, <1>15, <1>16, <1>17, <1>18, <1>19, <1>20, <1>21, <1>22, <1>23, <1>24, <1>25,
     <1>26, <1>27, <1>28, <1>29, <1>30, <1>31
     DEF Next, Executes, Outside, Environment, Returned

\* Every state of every run is typed: in particular no identifier the loop
\* stores (queued nodes, cited receipts, verified units) is dangling.
THEOREM TypeCorrect == Spec => []TypeOK
<1>1. TypeInv => TypeOK
  BY DEF TypeInv
<1> QED BY <1>1, InitTypes, NextTypes, PTL DEF Spec

-----------------------------------------------------------------------------
(* The queue and the set of queued nodes. *)

\* Taking the head off a queue without repetitions takes that node off.
LEMMA PopKeepsQueue ==
    ASSUME TypeOK, QueuedIsQueue, NEW n, Pop(n)
    PROVE  QueuedIsQueue'
<1>1. queue \in Seq(NodesOf(plan)) /\ queue # <<>>
  BY DEF TypeOK, Pop
<1>2. /\ Len(queue') = Len(queue) - 1 /\ Len(queue) \in Nat \ {0}
      /\ DOMAIN queue = 1 .. Len(queue) /\ DOMAIN queue' = 1 .. Len(queue')
      /\ \A i \in 1 .. Len(queue') : queue'[i] = queue[i + 1]
      /\ n = queue[1]
  BY <1>1, HeadTailProperties DEF Pop
<1>3. \A i, j \in DOMAIN queue' : queue'[i] = queue'[j] => i = j
  <2> SUFFICES ASSUME NEW i \in DOMAIN queue', NEW j \in DOMAIN queue',
                      queue'[i] = queue'[j]
               PROVE  i = j
    OBVIOUS
  <2>1. i + 1 \in DOMAIN queue /\ j + 1 \in DOMAIN queue
    BY <1>2
  <2>2. i + 1 = j + 1
    BY <1>2, <2>1 DEF QueuedIsQueue
  <2> QED BY <1>2, <2>2
<1>4. ASSUME NEW m PROVE m \in queued' <=> \E i \in DOMAIN queue' : m = queue'[i]
  <2>1. m \in queued' <=> \E i \in DOMAIN queue : m = queue[i] /\ m # queue[1]
    BY <1>2 DEF Pop, QueuedIsQueue
  <2>2. \A i \in DOMAIN queue : queue[i] # queue[1] <=> i # 1
    BY <1>2 DEF QueuedIsQueue
  <2>3. ASSUME NEW i \in DOMAIN queue, i # 1
        PROVE  i - 1 \in DOMAIN queue' /\ queue[i] = queue'[i - 1]
    <3>1. i \in Nat /\ i - 1 \in 1 .. Len(queue') /\ (i - 1) + 1 = i
      BY <1>2, <2>3
    <3> QED BY <1>2, <3>1
  <2>4. \A i \in DOMAIN queue' : i + 1 \in DOMAIN queue /\ i + 1 # 1
    BY <1>2
  <2> QED BY <1>2, <2>1, <2>2, <2>3, <2>4
<1> QED BY <1>3, <1>4 DEF QueuedIsQueue

\* Following an edge queues its target unless it is queued already.
LEMMA FollowKeepsQueue ==
    ASSUME TypeOK, QueuedIsQueue, FollowEdge
    PROVE  QueuedIsQueue'
<1> DEFINE to == Edge.to
<1>1. /\ queue' = IF to \in queued THEN queue ELSE Append(queue, to)
      /\ queued' = queued \cup {to}
  BY DEF FollowEdge
<1> HIDE DEF to
<1>2. CASE to \in queued
  BY <1>1, <1>2 DEF QueuedIsQueue
<1>3. CASE to \notin queued
  <2>1. /\ Len(queue') = Len(queue) + 1 /\ Len(queue) \in Nat
        /\ DOMAIN queue = 1 .. Len(queue) /\ DOMAIN queue' = 1 .. Len(queue')
        /\ \A i \in 1 .. Len(queue) : queue'[i] = queue[i]
        /\ queue'[Len(queue')] = to
    BY <1>1, <1>3 DEF TypeOK
  <2>2. \A i \in DOMAIN queue : queue[i] # to
    BY <1>3 DEF QueuedIsQueue
  <2>3. \A i \in DOMAIN queue' : i \in DOMAIN queue \/ i = Len(queue')
    BY <2>1
  <2>4. DOMAIN queue \subseteq DOMAIN queue' /\ Len(queue') \in DOMAIN queue'
    BY <2>1
  <2>5. \A i, j \in DOMAIN queue' : queue'[i] = queue'[j] => i = j
    BY <2>1, <2>2, <2>3 DEF QueuedIsQueue
  <2>6. ASSUME NEW m PROVE m \in queued' <=> \E i \in DOMAIN queue' : m = queue'[i]
    BY <1>1, <2>1, <2>3, <2>4 DEF QueuedIsQueue
  <2> QED BY <2>5, <2>6 DEF QueuedIsQueue
<1> QED BY <1>2, <1>3

LEMMA NextQueue == TypeOK /\ QueuedIsQueue /\ [Next]_vars => QueuedIsQueue'
<1> SUFFICES ASSUME TypeOK, QueuedIsQueue, [Next]_vars PROVE QueuedIsQueue'
  OBVIOUS
<1>1. ASSUME UNCHANGED <<queue, queued>> PROVE QueuedIsQueue'
  BY <1>1 DEF QueuedIsQueue
<1>2. CASE Open
  <2>1. PICK q \in InIndexOrder(EntryNodes(plan)) : queue' = q
    BY <1>2 DEF Open
  <2>2. EntryNodes(plan) \subseteq NodesOf(plan)
    BY DEF EntryNodes, StrictEntries
  <2>3. EntryNodes(plan) \in SUBSET Nat /\ IsFiniteSet(EntryNodes(plan))
    BY <2>2, PlanTypes, FS_Subset
  <2>4. /\ EntryNodes(plan) = {q[i] : i \in DOMAIN q}
        /\ \A i, j \in DOMAIN q : q[i] = q[j] => i = j
    BY <2>3, ListingIsExact
  <2>5. queue' = q /\ queued' = EntryNodes(plan)
    BY <1>2, <2>1 DEF Open
  <2> QED BY <2>4, <2>5 DEF QueuedIsQueue
<1>3. CASE StopAtCap
  BY <1>3, PopKeepsQueue DEF StopAtCap
<1>4. CASE StopAtVisitCap \/ RunNode \/ UnknownKind
  BY <1>4, PopKeepsQueue DEF StopAtVisitCap, RunNode, UnknownKind, Visit
<1>5. CASE FollowEdge
  BY <1>5, FollowKeepsQueue
<1>6. CASE RefuseToCompile \/ Stopped \/ Intake \/ Research \/ Respond \/ BelowFloor
  BY <1>1, <1>6 DEF RefuseToCompile, Stopped, Intake, Research, Respond, BelowFloor, schedule
<1>7. CASE Call \/ NothingToWorkOn \/ AskApproval \/ Silence \/ Decline \/ NoRoomForPrompt
           \/ CallFails
  BY <1>1, <1>7 DEF Call, NothingToWorkOn, AskApproval, Silence, Decline, Refuse,
        NoRoomForPrompt, CallFails, NodeError, schedule
<1>8. CASE ModelReturns \/ JudgePasses \/ JudgeRevises \/ \E ok \in BOOLEAN : ToolReturns(ok)
  BY <1>1, <1>8 DEF ModelReturns, JudgePasses, JudgeRevises, ToolReturns, schedule
<1>9. CASE Approve \/ PassOverEdge \/ BadGuard \/ Settle \/ Close \/ Cancel \/ Expire
           \/ UNCHANGED vars
  BY <1>1, <1>9 DEF Approve, PassOverEdge, BadGuard, Settle, Close, Cancel, Expire, vars,
        schedule
<1> QED
  BY <1>2, <1>3, <1>4, <1>5, <1>6, <1>7, <1>8, <1>9
     DEF Next, Executes, Outside, Environment, Returned

\* No node ever waits twice in the queue, and none that the loop believes to
\* be waiting is missing from it.
THEOREM QueueIsExact == Spec => []QueuedIsQueue
<1>1. Init => QueuedIsQueue
  BY DEF Init, QueuedIsQueue
<1> QED BY <1>1, NextQueue, TypeCorrect, PTL DEF Spec

\* What the loop keeps exists and agrees, at every step of every run.
THEOREM LoopStaysSound == Spec => []LoopIsSound
<1> QED BY TypeCorrect, QueueIsExact, PTL DEF LoopIsSound

-----------------------------------------------------------------------------
(* A run overshoots a budget by less than one call, whatever a call costs. *)

\* Inductive strengthening: a node that may call only runs below every cap.
CallsBelowCap ==
    pc \in {"running", "calling"} /\ plan.kind[node] \in Paid => ~AtCap

BudgetInv == OvershootIsOneCall /\ CallsBelowCap

LEMMA CapTypes ==
    ASSUME TypeOK
    PROVE  /\ \A r \in Resources : plan.cap[r] \subseteq Nat /\ spent[r] \in Nat
           /\ \A cost \in Costs : \A r \in Resources : cost[r] \in Nat
<1>1. plan.cap \in [Resources -> SUBSET Nat]
  BY PlanTypes DEF PlanTyped
<1> QED BY <1>1, CostsAssumption DEF TypeOK

\* A call that starts below every cap overshoots none by as much as it costs.
LEMMA SpendsOneCall ==
    ASSUME TypeOK, CallsBelowCap, Calling({"model", "verify"}), UNCHANGED plan,
           \E cost \in Costs : Spend(cost)
    PROVE  OvershootIsOneCall'
<1>1. PICK cost \in Costs : Spend(cost)
  OBVIOUS
<1>2. ~AtCap
  BY DEF CallsBelowCap, Calling, Paid
<1>3. ASSUME NEW r \in Resources, NEW c \in plan.cap[r]
      PROVE  spent'[r] < c + cost[r]
  <2>1. spent'[r] = spent[r] + cost[r]
    BY <1>1 DEF Spend
  <2>2. ~(spent[r] >= c)
    BY <1>2 DEF AtCap
  <2>3. c \in Nat /\ spent[r] \in Nat /\ cost[r] \in Nat
    BY CapTypes
  <2> QED BY <2>1, <2>2, <2>3
<1> QED BY <1>3 DEF OvershootIsOneCall

LEMMA NextBudget == TypeOK /\ BudgetInv /\ [Next]_vars => BudgetInv'
<1> SUFFICES ASSUME TypeOK, BudgetInv, [Next]_vars PROVE BudgetInv'
  OBVIOUS
<1> USE DEF BudgetInv
<1>1. ASSUME UNCHANGED <<plan, spent>>, pc' \notin {"running", "calling"}
      PROVE  BudgetInv'
  BY <1>1 DEF OvershootIsOneCall, CallsBelowCap
<1>2. ASSUME UNCHANGED <<plan, spent, pc, node>> PROVE BudgetInv'
  BY <1>2 DEF OvershootIsOneCall, CallsBelowCap, AtCap
<1>3. CASE RunNode
  <2>1. PICK n \in NodesOf(plan) : Visit(n)
    BY <1>3 DEF RunNode
  <2>2. node' = n /\ ~(plan.kind[n] \in Paid /\ AtCap) /\ UNCHANGED <<plan, spent>>
    BY <1>3, <2>1 DEF RunNode, Visit, Pop
  <2> QED BY <2>2 DEF OvershootIsOneCall, CallsBelowCap, AtCap
<1>4. CASE Call
  <2>1. pc = "running" /\ UNCHANGED <<plan, spent, node>>
    BY <1>4 DEF Call, ReadyToCall, Running, progress
  <2> QED BY <2>1 DEF OvershootIsOneCall, CallsBelowCap, AtCap
<1>5. CASE ModelReturns
  <2>1. pc' \notin {"running", "calling"} /\ UNCHANGED plan
    BY <1>5 DEF ModelReturns, Commit, Stops
  <2>2. OvershootIsOneCall'
    BY <1>5, <2>1, SpendsOneCall DEF ModelReturns, Calling
  <2> QED BY <2>1, <2>2 DEF CallsBelowCap
<1>6. CASE JudgePasses \/ JudgeRevises
  <2>1. pc' \notin {"running", "calling"} /\ UNCHANGED plan
    BY <1>6 DEF JudgePasses, JudgeRevises, Commit, Stops
  <2>2. OvershootIsOneCall'
    BY <1>6, <2>1, SpendsOneCall DEF JudgePasses, JudgeRevises, Calling
  <2> QED BY <2>1, <2>2 DEF CallsBelowCap
<1>7. CASE Open \/ RefuseToCompile \/ StopAtCap \/ StopAtVisitCap \/ UnknownKind \/ Stopped
  BY <1>1, <1>7 DEF Open, RefuseToCompile, StopAtCap, StopAtVisitCap, UnknownKind, Fails,
        Stopped, Stops
<1>8. CASE Intake \/ Research \/ Respond \/ BelowFloor \/ Approve
           \/ \E ok \in BOOLEAN : ToolReturns(ok)
  BY <1>1, <1>8 DEF Intake, Research, Respond, BelowFloor, Approve, ToolReturns, Commit, Stops
<1>9. CASE NothingToWorkOn \/ CallFails \/ NoRoomForPrompt \/ AskApproval \/ Silence \/ Decline
  BY <1>1, <1>9 DEF NothingToWorkOn, CallFails, NodeError, Fails, NoRoomForPrompt, Stops,
        AskApproval, Silence, Decline, Refuse
<1>10. CASE FollowEdge \/ PassOverEdge \/ BadGuard \/ Settle \/ Close
  BY <1>1, <1>10 DEF FollowEdge, PassOverEdge, BadGuard, Settle, Close, Stops
<1>11. CASE Cancel \/ Expire \/ UNCHANGED vars
  BY <1>2, <1>11 DEF Cancel, Expire, vars, progress
<1> QED
  BY <1>3, <1>4, <1>5, <1>6, <1>7, <1>8, <1>9, <1>10, <1>11
     DEF Next, Executes, Outside, Environment, Returned

\* However cheap or dear its calls, a run has never spent a budget by as much
\* as one more call beyond its cap.
THEOREM OvershootIsBounded == Spec => []OvershootIsOneCall
<1>1. Init => BudgetInv
  BY DEF Init, BudgetInv, OvershootIsOneCall, CallsBelowCap
<1>2. BudgetInv => OvershootIsOneCall
  BY DEF BudgetInv
<1> QED BY <1>1, <1>2, NextBudget, TypeCorrect, PTL DEF Spec

-----------------------------------------------------------------------------
(***************************************************************************)
(* What the journal of a run says: it ends once and releases only at the   *)
(* end of a success, within the budget; a receipt is there before the      *)
(* units that cite it, and what a judge passed had support at or above the *)
(* floor.                                                                  *)
(***************************************************************************)

\* What an event's variant can be.
Whats == Roles \cup Statuses \cup
    {"", "running", "skipped", "awaiting", "exhaustion", "judged", "prompt", "pending",
     "approved", "rejected", "approval_question", "approval_decision", "ok", "is_error",
     "error", "verified_response", "successful", "unsuccessful"}

EventsOf(types) == [type : types, at : Nat, what : Whats, ref : Nat]

Quiets == {"started", "transition", "failure", "receipt", "visible", "unknown", "approval",
           "tool-call", "routing", "model-call", "budget", "repair"}
Quiet == EventsOf(Quiets)                        \* neither a unit nor an end
Ordinary == EventsOf(Quiets \cup {"unit"})       \* neither an end nor a release
Events == EventsOf(Quiets \cup {"unit", "finished", "released"})

JournalTyped ==
    /\ journal \in Seq(Events)
    /\ pending \in {<<>>} \cup (Nat \X {"verified_response", "response"})

-----------------------------------------------------------------------------
(* Lemmas about sequences of events. *)

LEMMA Kinship ==
    /\ Quiet \subseteq Ordinary /\ Ordinary \subseteq Events
    /\ Seq(Quiet) \subseteq Seq(Ordinary) /\ Seq(Ordinary) \subseteq Seq(Events)
<1>1. Quiet \subseteq Ordinary /\ Ordinary \subseteq Events
  BY DEF Quiet, Quiets, Ordinary, Events, EventsOf
<1> QED BY <1>1, SeqMonotonic

LEMMA EventTypes ==
    ASSUME NEW types, NEW type \in types, NEW at \in Nat, NEW what \in Whats, NEW ref \in Nat
    PROVE  Event(type, at, what, ref) \in EventsOf(types)
BY DEF Event, EventsOf

\* Nodes, the tools' arguments, what is shown and the tier of a call.
LEMMA EventParts ==
    ASSUME TypeOK
    PROVE  /\ node \in Nat /\ NextId \in Nat /\ NextReceipt \in Nat
           /\ CallArgument \in Nat /\ Shown \in Nat /\ LatestDraft \in Nat
<1>1. \A roles : Latest(roles) \in Nat
  BY LatestIsUnit
<1>2. node \in Nat
  BY PlanTypes DEF TypeOK
<1>3. Len(ledger) \in Nat /\ Len(receipts) \in Nat
  BY DEF TypeOK
<1> QED BY <1>1, <1>2, <1>3 DEF NextId, NextReceipt, CallArgument, Shown, LatestDraft

-----------------------------------------------------------------------------
(* What a step writes. *)

(***************************************************************************)
(* A step appends mid, then post: every receipt it adds to the run's state *)
(* is an event of mid, and every unit event is in post and shows a unit    *)
(* that the step adds to the ledger.                                       *)
(***************************************************************************)
Writes(mid, post) ==
    /\ journal' = (journal \o mid) \o post
    /\ \A c \in DOMAIN receipts' \ DOMAIN receipts :
          \E i \in DOMAIN mid : mid[i].type = "receipt" /\ mid[i].ref = c
    /\ \A i \in DOMAIN post : post[i].type = "unit" =>
          post[i].ref \in DOMAIN ledger' /\ post[i].ref \notin DOMAIN ledger
    /\ DOMAIN ledger \subseteq DOMAIN ledger'
    /\ \A i \in DOMAIN ledger : ledger'[i] = ledger[i]
    /\ DOMAIN receipts \subseteq DOMAIN receipts'
    /\ \A c \in DOMAIN receipts : receipts'[c] = receipts[c]

\* Committing what a node returned: at most one receipt and one unit.
LEMMA CommitWrites ==
    ASSUME TypeOK, JournalTyped, NEW records \in Seq(Quiet),
           NEW levels \in Seq(Levels), Len(levels) <= 1,
           NEW U, NEW units \in Seq(U), Len(units) <= 1,
           \A u \in U : u.role \in Roles /\ u.text \in Nat,
           NEW fs, NEW esc, Commit(records, levels, units, fs, esc)
    PROVE  /\ \E mid \in Seq(Quiet), post \in Seq(Ordinary) : Writes(mid, post)
           /\ pending' \in {<<>>} \cup (Nat \X {"verified_response", "response"})
<1> DEFINE shown == [i \in DOMAIN units |-> Event("unit", node, units[i].role, NextId)]
           said  == IF units # <<>> /\ units[1].human
                    THEN <<Event("visible", node, "prompt", units[1].text)>> ELSE <<>>
           done  == <<Transition(node, "succeeded")>>
           mid   == records \o ReceiptEvents(levels)
           post  == (shown \o said) \o done
<1>1. /\ journal' = (journal \o mid) \o post
      /\ receipts' = receipts \o levels
      /\ ledger' = ledger \o units
      /\ pending' = IF units # <<>> /\ units[1].role = "response"
                    THEN <<units[1].text, IF units[1].reviewed
                                          THEN "verified_response" ELSE "response">>
                    ELSE pending
  BY DEF Commit, Kept
<1>2. /\ \/ levels = <<>> /\ Len(levels) = 0 /\ DOMAIN levels = {}
         \/ Len(levels) = 1 /\ DOMAIN levels = {1}
      /\ \/ units = <<>> /\ Len(units) = 0 /\ DOMAIN units = {}
         \/ Len(units) = 1 /\ DOMAIN units = {1} /\ units[1] \in U
  BY AtMostOne
<1>3. node \in Nat /\ NextId \in Nat /\ NextReceipt \in Nat
  BY EventParts
<1>4. ReceiptEvents(levels) \in Seq(Quiet) /\ DOMAIN ReceiptEvents(levels) = DOMAIN levels
  <2>1. Event("receipt", node, "", NextReceipt) \in Quiet
    BY <1>3, EventTypes DEF Quiet, Quiets, Whats
  <2> QED BY <2>1, OneAgain DEF ReceiptEvents
<1>5. shown \in Seq(Ordinary) /\ DOMAIN shown = DOMAIN units
  <2>1. \A i \in DOMAIN units : Event("unit", node, units[i].role, NextId) \in Ordinary
    <3>1. \A i \in DOMAIN units : units[i].role \in Whats
      BY <1>2 DEF Whats
    <3> QED BY <1>3, <3>1, EventTypes DEF Ordinary
  <2> QED BY <1>2, <2>1
<1>6. said \in Seq(Quiet)
  <2>1. units # <<>> => Event("visible", node, "prompt", units[1].text) \in Quiet
    BY <1>2, <1>3, EventTypes DEF Quiet, Quiets, Whats
  <2> QED BY <2>1
<1>7. done \in Seq(Quiet)
  <2>1. Transition(node, "succeeded") \in Quiet
    BY <1>3, EventTypes DEF Transition, Quiet, Quiets, Whats, Statuses
  <2> QED BY <2>1
<1>8. said \in Seq(Ordinary) /\ done \in Seq(Ordinary)
  <2> HIDE DEF said, done
  <2> QED BY <1>6, <1>7, Kinship
<1>9. /\ mid \in Seq(Quiet) /\ shown \o said \in Seq(Ordinary) /\ post \in Seq(Ordinary)
  <2> HIDE DEF shown, said, done
  <2>1. mid \in Seq(Quiet) /\ shown \o said \in Seq(Ordinary)
    BY <1>4, <1>5, <1>8, ConcatProperties
  <2> QED BY <1>8, <2>1, ConcatProperties
<1>11. DOMAIN receipts = 1 .. Len(receipts) /\ Len(receipts) \in Nat
  BY DEF TypeOK
<1>12. DOMAIN ledger = 1 .. Len(ledger) /\ Len(ledger) \in Nat
  BY DEF TypeOK
<1>13. /\ Len(receipts') = Len(receipts) + Len(levels)
       /\ receipts' \in Seq(Levels)
       /\ \A c \in DOMAIN receipts : receipts'[c] = receipts[c]
       /\ DOMAIN receipts \subseteq DOMAIN receipts'
  BY <1>1, Appending DEF TypeOK
<1>14. /\ Len(ledger') = Len(ledger) + Len(units)
       /\ DOMAIN ledger' = 1 .. Len(ledger')
       /\ \A i \in DOMAIN ledger : ledger'[i] = ledger[i]
       /\ DOMAIN ledger \subseteq DOMAIN ledger'
  <2> DEFINE V == UnitsCiting(DOMAIN receipts) \cup U
  <2>1. ledger \in Seq(V) /\ units \in Seq(V)
    BY SeqMonotonic DEF TypeOK
  <2> HIDE DEF V
  <2> QED BY <1>1, <2>1, Appending, LenProperties
<1>15. ASSUME NEW c \in DOMAIN receipts' \ DOMAIN receipts
       PROVE  \E i \in DOMAIN mid : mid[i].type = "receipt" /\ mid[i].ref = c
  <2>1. Len(levels) = 1 /\ c = NextReceipt
    <3>1. DOMAIN receipts' = 1 .. Len(receipts')
      BY <1>13, LenProperties
    <3> QED BY <1>2, <1>11, <1>13, <3>1 DEF NextReceipt
  <2> DEFINE e == ReceiptEvents(levels)
  <2>2. e[1].type = "receipt" /\ e[1].ref = c
    BY <1>2, <2>1 DEF ReceiptEvents, Event
  <2>3. e \in Seq(Quiet) /\ DOMAIN e = {1}
    BY <1>2, <1>4, <2>1
  <2> HIDE DEF e
  <2>4. Len(e) = 1
    BY <2>3, LenProperties
  <2>5. Len(records) \in Nat
    BY LenProperties
  <2>6. /\ Len(records) + 1 \in 1 .. (Len(records) + Len(e))
        /\ (Len(records) + 1) - Len(records) = 1 /\ ~(Len(records) + 1 <= Len(records))
    BY <2>4, <2>5
  <2>7. (records \o e)[Len(records) + 1] = e[1]
    BY <2>3, <2>6, ConcatProperties
  <2>8. Len(records) + 1 \in DOMAIN (records \o e)
    BY <2>3, <2>6, ConcatProperties, LenProperties
  <2> QED BY <2>2, <2>7, <2>8 DEF e
<1>16. ASSUME NEW i \in DOMAIN post, post[i].type = "unit"
       PROVE  post[i].ref \in DOMAIN ledger' /\ post[i].ref \notin DOMAIN ledger
  <2>1. \A e \in Quiet : e.type # "unit"
    BY DEF Quiet, Quiets, EventsOf
  <2>2. i \in DOMAIN (shown \o said) /\ post[i] = (shown \o said)[i]
    <3> DEFINE a == shown \o said
    <3>1. \A j \in DOMAIN done : done[j].type # "unit"
      BY <1>7, <2>1, ElementOfSeq, LenProperties
    <3> HIDE DEF a, shown, said, done
    <3>2. a \in Seq(Ordinary) /\ i \in DOMAIN (a \o done)
      BY <1>9 DEF a
    <3> QED BY <1>8, <1>16, <3>1, <3>2, Positions DEF a
  <2>3. i \in DOMAIN shown /\ post[i] = shown[i]
    <3>1. \A j \in DOMAIN said : said[j].type # "unit"
      BY <1>6, <2>1, ElementOfSeq, LenProperties
    <3> HIDE DEF shown, said, done
    <3> QED BY <1>5, <1>8, <1>16, <2>2, <3>1, Positions
  <2>4. post[i].ref = NextId /\ Len(units) = 1
    BY <1>2, <1>5, <2>3 DEF Event
  <2> HIDE DEF post
  <2>5. post[i].ref = Len(ledger) + 1 /\ Len(ledger') = Len(ledger) + 1
    BY <2>4, <1>14 DEF NextId
  <2> QED BY <2>5, <1>12, <1>14
<1>17. pending' \in {<<>>} \cup (Nat \X {"verified_response", "response"})
  BY <1>1, <1>2 DEF JournalTyped
<1>18. Writes(mid, post)
  <2> HIDE DEF mid, post
  <2> QED BY <1>1, <1>13, <1>14, <1>15, <1>16 DEF Writes
<1> HIDE DEF mid, post
<1> QED BY <1>9, <1>17, <1>18

\* Appending quiet events, and no receipts or units.
LEMMA QuietWrites ==
    ASSUME JournalTyped, NEW mid \in Seq(Quiet), NEW post \in Seq(Quiet),
           journal' = (journal \o mid) \o post, UNCHANGED <<receipts, ledger>>
    PROVE  /\ Writes(mid, post)
           /\ \E m \in Seq(Quiet), p \in Seq(Ordinary) : Writes(m, p)
<1>1. ASSUME NEW i \in DOMAIN post PROVE post[i].type # "unit"
  <2>1. post[i] \in Quiet
    BY ElementOfSeq, LenProperties
  <2> QED BY <2>1 DEF Quiet, Quiets, EventsOf
<1>2. Writes(mid, post)
  BY <1>1 DEF Writes
<1> QED BY <1>2, Kinship

\* Writing nothing at all.
LEMMA NoWrites ==
    ASSUME JournalTyped, UNCHANGED <<journal, receipts, ledger>>
    PROVE  \E m \in Seq(Quiet), p \in Seq(Ordinary) : Writes(m, p)
<1>1. <<>> \in Seq(Quiet)
  OBVIOUS
<1>2. (journal \o <<>>) \o <<>> = journal
  BY ConcatEmptySeq DEF JournalTyped
<1> QED BY <1>1, <1>2, QuietWrites

\* Writing one or two quiet events.
LEMMA FewWrites ==
    ASSUME JournalTyped, NEW mid \in Seq(Quiet), journal' = journal \o mid,
           UNCHANGED <<receipts, ledger>>
    PROVE  \E m \in Seq(Quiet), p \in Seq(Ordinary) : Writes(m, p)
<1>1. <<>> \in Seq(Quiet) /\ mid \in Seq(Events)
  BY Kinship
<1>2. journal \o mid \in Seq(Events)
  BY <1>1, ConcatProperties DEF JournalTyped
<1>3. (journal \o mid) \o <<>> = journal \o mid
  BY <1>2, ConcatEmptySeq
<1> QED BY <1>1, <1>3, QuietWrites

LEMMA OneWrite ==
    ASSUME JournalTyped, NEW e \in Quiet, Append1(e), UNCHANGED <<receipts, ledger>>
    PROVE  \E m \in Seq(Quiet), p \in Seq(Ordinary) : Writes(m, p)
<1>1. e \in Events /\ <<e>> \in Seq(Quiet)
  BY Kinship
<1>2. journal' = journal \o <<e>>
  BY <1>1, AppendIsConcat DEF Append1, JournalTyped
<1> QED BY <1>1, <1>2, FewWrites

-----------------------------------------------------------------------------
(* What each step writes. *)

(***************************************************************************)
(* Inductive invariant: until it returns, a run has written neither an end *)
(* nor a release, and nothing at all before it opened its journal.         *)
(***************************************************************************)
Unended ==
    /\ pc # "returned" => journal \in Seq(Ordinary) /\ outcome = "none"
    /\ pc = "new" => journal = <<>> /\ ledger = <<>> /\ receipts = <<>>

JournalInv == JournalTyped /\ Unended

Goes ==
    /\ pc' \notin {"new", "returned"} /\ outcome' = outcome
    /\ pending' \in {<<>>} \cup (Nat \X {"verified_response", "response"})
    /\ \E mid \in Seq(Quiet), post \in Seq(Ordinary) : Writes(mid, post)

\* A step that writes nothing, or one event, and goes on.
LEMMA StepsThatWriteLittle ==
    ASSUME TypeOK, JournalInv,
           StopAtCap \/ StopAtVisitCap \/ RunNode \/ Stopped \/ NoRoomForPrompt \/ Call
              \/ FollowEdge \/ PassOverEdge \/ Settle
    PROVE  Goes
<1>0. JournalTyped /\ node \in Nat
  BY EventParts DEF JournalInv
<1> USE DEF knowledge, answer
<1>1. ASSUME NEW n \in Nat, NEW state \in Whats PROVE Transition(n, state) \in Quiet
  BY EventTypes DEF Transition, Quiet, Quiets
<1>2. {"running", "skipped", "cancelled", "exhaustion", ""} \subseteq Whats
  BY DEF Whats, Statuses
<1>3. ASSUME UNCHANGED <<journal, receipts, ledger, pending, outcome>>, pc' \notin {"new", "returned"}
      PROVE  Goes
  BY <1>0, <1>3, NoWrites DEF Goes, JournalTyped
<1>4. ASSUME NEW e \in Quiet, Append1(e), UNCHANGED <<receipts, ledger, pending, outcome>>,
             pc' \notin {"new", "returned"}
      PROVE  Goes
  BY <1>0, <1>4, OneWrite DEF Goes, JournalTyped
<1>5. CASE StopAtCap \/ Call \/ FollowEdge \/ PassOverEdge
  BY <1>3, <1>5 DEF StopAtCap, Stops, Call, FollowEdge, PassOverEdge
<1>6. CASE StopAtVisitCap
  <2>1. PICK n \in NodesOf(plan) :
               journal' = journal \o <<Transition(n, "skipped"),
                                       Event("failure", n, "exhaustion", 0)>>
    BY <1>6 DEF StopAtVisitCap
  <2>2. n \in Nat
    BY PlanTypes
  <2>3. Transition(n, "skipped") \in Quiet /\ Event("failure", n, "exhaustion", 0) \in Quiet
    BY <1>1, <1>2, <2>2, EventTypes DEF Quiet, Quiets
  <2> DEFINE two == <<Transition(n, "skipped"), Event("failure", n, "exhaustion", 0)>>
  <2>4. two \in Seq(Quiet)
    BY <2>3
  <2> HIDE DEF two
  <2>5. UNCHANGED <<receipts, ledger, pending, outcome>> /\ pc' \notin {"new", "returned"}
    BY <1>6 DEF StopAtVisitCap, Stops
  <2> QED BY <1>0, <2>1, <2>4, <2>5, FewWrites DEF Goes, JournalTyped, two
<1>7. CASE RunNode
  <2>1. PICK n \in NodesOf(plan) : Append1(Transition(n, "running"))
    BY <1>7 DEF RunNode
  <2>2. Transition(n, "running") \in Quiet
    BY <1>1, <1>2, PlanTypes
  <2> QED BY <1>4, <1>7, <2>1, <2>2 DEF RunNode
<1>8. CASE Stopped \/ NoRoomForPrompt
  <2>1. Transition(node, "cancelled") \in Quiet
    BY <1>0, <1>1, <1>2
  <2> QED BY <1>4, <1>8, <2>1 DEF Stopped, NoRoomForPrompt, Stops
<1>9. CASE Settle
  <2>1. Event("budget", node, "", 0) \in Quiet
    BY <1>0, <1>2, EventTypes DEF Quiet, Quiets
  <2> QED BY <1>3, <1>4, <1>9, <2>1 DEF Settle, Stops
<1> QED BY <1>5, <1>6, <1>7, <1>8, <1>9

\* Opening the journal.
LEMMA OpenWrites ==
    ASSUME TypeOK, JournalInv, Open
    PROVE  Goes
<1> DEFINE count == plan.feedback + plan.history
           mid   == <<Event("started", 0, "", 0)>>
           post  == [i \in 1 .. count |-> Event("unit", 0, CarriedUnits[i].role, i)]
<1>1. plan.feedback \in Nat /\ plan.history \in Nat /\ count \in Nat
  BY PlanTypes DEF PlanTyped
<1>2. pc = "new" /\ journal = <<>> /\ ledger = <<>> /\ receipts = <<>>
  BY DEF Open, JournalInv, Unended
<1>3. /\ ledger' = CarriedUnits /\ journal' = mid \o post /\ receipts' = <<>>
      /\ pc' = "pop" /\ UNCHANGED <<pending, outcome>>
  BY <1>2 DEF Open, answer
<1>4. mid \in Seq(Quiet)
  <2>1. Event("started", 0, "", 0) \in Quiet
    BY EventTypes DEF Quiet, Quiets, Whats
  <2> QED BY <2>1, Singleton
<1>5. post \in Seq(Ordinary) /\ DOMAIN post = 1 .. count
  <2>1. \A i \in 1 .. count : CarriedUnits[i].role \in Roles
    BY DEF CarriedUnits, Unit, Roles, RoleNames
  <2>2. \A i \in 1 .. count : Event("unit", 0, CarriedUnits[i].role, i) \in Ordinary
    <3> SUFFICES ASSUME NEW i \in 1 .. count
                 PROVE  Event("unit", 0, CarriedUnits[i].role, i) \in Ordinary
      OBVIOUS
    <3> HIDE DEF post, count
    <3>1. CarriedUnits[i].role \in Whats
      BY <2>1 DEF Whats
    <3>2. i \in Nat
      BY <1>1
    <3> QED BY <3>2, <3>1, EventTypes DEF Ordinary
  <2>3. post \in [1 .. count -> Ordinary]
    BY <2>2
  <2> HIDE DEF post, count
  <2> QED BY <1>1, <2>3
<1>6. \A i \in DOMAIN post : post[i].ref = i
  BY <1>5 DEF Event
<1>7. DOMAIN CarriedUnits = 1 .. count
  BY DEF CarriedUnits
<1>8. journal' = (journal \o mid) \o post
  <2> HIDE DEF mid, post
  <2> QED BY <1>2, <1>3, <1>4, ConcatEmptySeq
<1>9. Writes(mid, post)
  <2> HIDE DEF mid, post, count
  <2>1. DOMAIN ledger = {} /\ DOMAIN receipts = {} /\ DOMAIN receipts' = {}
    BY <1>2, <1>3
  <2> QED BY <1>3, <1>5, <1>6, <1>7, <1>8, <2>1 DEF Writes
<1> HIDE DEF mid, post
<1> QED BY <1>3, <1>4, <1>5, <1>9 DEF Goes, JournalInv, JournalTyped

\* What a decision leaves in the journal.
LEMMA DecisionsAreQuiet ==
    ASSUME node \in Nat, Shown \in Nat, NEW decision
    PROVE  DecisionEvents(decision) \in Seq(Quiet)
<1> DEFINE answered == plan.human /\ decision # "abandoned"
           question == IF plan.human
                       THEN <<Event(IF answered THEN "visible" ELSE "unknown",
                                    node, "approval_question", Shown)>> ELSE <<>>
           record   == <<Event("approval", node, IF decision = "approved"
                               THEN "approved" ELSE "rejected", Shown)>>
           reply    == IF answered
                       THEN <<Event("visible", node, "approval_decision", 0)>> ELSE <<>>
<1>1. /\ Event("visible", node, "approval_question", Shown) \in Quiet
      /\ Event("unknown", node, "approval_question", Shown) \in Quiet
  BY EventTypes DEF Quiet, Quiets, Whats
<1>2. /\ Event("approval", node, "approved", Shown) \in Quiet
      /\ Event("approval", node, "rejected", Shown) \in Quiet
      /\ Event("visible", node, "approval_decision", 0) \in Quiet
  BY EventTypes DEF Quiet, Quiets, Whats
<1>3. question \in Seq(Quiet) /\ record \in Seq(Quiet) /\ reply \in Seq(Quiet)
  BY <1>1, <1>2
<1>4. DecisionEvents(decision) = question \o record \o reply
  BY DEF DecisionEvents
<1> HIDE DEF question, record, reply
<1>5. question \o record \in Seq(Quiet)
  BY <1>3, ConcatProperties
<1> QED BY <1>3, <1>4, <1>5, ConcatProperties

\* Asking a person, and taking no for an answer.
LEMMA ApprovalWrites ==
    ASSUME TypeOK, JournalInv, AskApproval \/ Silence \/ Decline
    PROVE  Goes
<1>0. JournalTyped /\ node \in Nat /\ Shown \in Nat
  BY EventParts DEF JournalInv
<1> USE DEF knowledge, answer
<1>1. CASE AskApproval
  <2> DEFINE two == <<Transition(node, "awaiting"), Event("approval", node, "pending", Shown)>>
  <2>1. /\ Transition(node, "awaiting") \in Quiet
        /\ Event("approval", node, "pending", Shown) \in Quiet
    BY <1>0, EventTypes DEF Transition, Quiet, Quiets, Whats
  <2>2. two \in Seq(Quiet)
    BY <2>1
  <2>3. journal' = journal \o two
    BY <1>1 DEF AskApproval
  <2> HIDE DEF two
  <2>4. UNCHANGED <<receipts, ledger, pending, outcome>> /\ pc' \notin {"new", "returned"}
    BY <1>1 DEF AskApproval
  <2> QED BY <1>0, <2>2, <2>3, <2>4, FewWrites DEF Goes, JournalTyped
<1>2. ASSUME NEW decision, NEW status, Refuse(decision, status) PROVE Goes
  <2>1. DecisionEvents(decision) \in Seq(Quiet)
    BY <1>0, DecisionsAreQuiet
  <2>2. <<Transition(node, "cancelled")>> \in Seq(Quiet)
    <3>1. Transition(node, "cancelled") \in Quiet
      BY <1>0, EventTypes DEF Transition, Quiet, Quiets, Whats, Statuses
    <3> QED BY <3>1
  <2>3. /\ UNCHANGED <<receipts, ledger, pending, outcome>> /\ pc' \notin {"new", "returned"}
        /\ journal' = (journal \o DecisionEvents(decision)) \o <<Transition(node, "cancelled")>>
    BY <1>2 DEF Refuse, Stops
  <2> QED BY <1>0, <2>1, <2>2, <2>3, QuietWrites DEF Goes, JournalTyped
<1> QED BY <1>1, <1>2 DEF Silence, Decline

\* Committing at most one receipt, and at most one unit: u says which.
LEMMA CommitGoes ==
    ASSUME TypeOK, JournalInv, NEW records \in Seq(Quiet),
           NEW levels \in Seq(Levels), Len(levels) <= 1,
           NEW units, NEW u, units = <<>> \/ units = <<u>>,
           u.role \in Roles, u.text \in Nat,
           NEW fs, NEW esc, Commit(records, levels, units, fs, esc), UNCHANGED outcome
    PROVE  Goes
<1>1. units \in Seq({u}) /\ Len(units) <= 1
  <2>1. CASE units = <<>>
    BY <2>1, EmptySeq
  <2>2. CASE units = <<u>>
    <3>1. <<u>> \in Seq({u}) /\ Len(<<u>>) = 1
      BY Singleton, Zenon
    <3> QED BY <2>2, <3>1
  <2> QED BY <2>1, <2>2
<1>2. pc' \notin {"new", "returned"}
  BY DEF Commit, Stops
<1>3. \A w \in {u} : w.role \in Roles /\ w.text \in Nat
  OBVIOUS
<1> HIDE DEF Commit
<1> QED BY <1>1, <1>2, <1>3, CommitWrites DEF Goes, JournalInv

\* No unit, or one with at most one receipt.
LEMMA NoUnitGoes ==
    ASSUME TypeOK, JournalInv, NEW records \in Seq(Quiet), NEW fs, NEW esc,
           Commit(records, <<>>, <<>>, fs, esc), UNCHANGED outcome
    PROVE  Goes
<1> DEFINE u == Unit("none", FALSE, {}, 0, FALSE)
<1>1. u.role \in Roles /\ u.text \in Nat
  BY DEF Unit, Roles
<1>2. <<>> \in Seq(Levels) /\ Len(<<>>) <= 1
  OBVIOUS
<1> HIDE DEF u
<1> QED BY <1>1, <1>2, CommitGoes

LEMMA OneUnitGoes ==
    ASSUME TypeOK, JournalInv, NEW records \in Seq(Quiet), NEW level \in Levels,
           NEW role \in Roles, NEW human, NEW cites, NEW text \in Nat, NEW reviewed,
           NEW fs, NEW esc,
           \/ Commit(records, <<level>>, <<Unit(role, human, cites, text, reviewed)>>, fs, esc)
           \/ Commit(records, <<>>, <<Unit(role, human, cites, text, reviewed)>>, fs, esc),
           UNCHANGED outcome
    PROVE  Goes
<1> DEFINE u == Unit(role, human, cites, text, reviewed)
<1>1. u.role \in Roles /\ u.text \in Nat
  BY DEF Unit
<1>2. /\ <<>> \in Seq(Levels) /\ Len(<<>>) <= 1
      /\ <<level>> \in Seq(Levels) /\ Len(<<level>>) <= 1
  OBVIOUS
<1>3. Commit(records, <<level>>, <<u>>, fs, esc) \/ Commit(records, <<>>, <<u>>, fs, esc)
  OBVIOUS
<1> HIDE DEF u
<1> QED BY <1>1, <1>2, <1>3, CommitGoes

\* What calls leave in the journal.
LEMMA CallsAreQuiet ==
    ASSUME TypeOK, node # 0
    PROVE  /\ CallRecords \in Seq(Quiet)
           /\ Append(CallRecords, Event("failure", node, "judged", LatestDraft)) \in Seq(Quiet)
           /\ FailureRecords \in Seq(Quiet)
           /\ \A ok \in BOOLEAN :
                 <<Event("tool-call", node, IF ok THEN "ok" ELSE "is_error", CallArgument)>>
                     \in Seq(Quiet)
<1>1. node \in Nat /\ LatestDraft \in Nat /\ CallArgument \in Nat
  BY EventParts
<1>2. node \in NodesOf(plan) /\ escalations[node] \in Nat
  BY DEF TypeOK
<1>3. Tier(node) \in Nat
  <2>1. plan.base[node] \in Nat /\ plan.ladder \in Nat
    BY <1>2, PlanTypes DEF PlanTyped
  <2> QED BY <1>2, <2>1 DEF Tier, ResolveTier
<1>4. /\ Event("routing", node, "", escalations[node]) \in Quiet
      /\ Event("model-call", node, "", Tier(node)) \in Quiet
      /\ Event("failure", node, "judged", LatestDraft) \in Quiet
  BY <1>1, <1>2, <1>3, EventTypes DEF Quiet, Quiets, Whats
<1>5. /\ Event("tool-call", node, "ok", CallArgument) \in Quiet
      /\ Event("tool-call", node, "is_error", CallArgument) \in Quiet
      /\ Event("tool-call", node, "error", CallArgument) \in Quiet
  BY <1>1, EventTypes DEF Quiet, Quiets, Whats
<1>6. CallRecords \in Seq(Quiet)
  BY <1>4, Pair DEF CallRecords
<1>7. Append(CallRecords, Event("failure", node, "judged", LatestDraft)) \in Seq(Quiet)
  BY <1>4, <1>6, AppendProperties
<1>8. FailureRecords \in Seq(Quiet)
  BY <1>5 DEF FailureRecords
<1>9. ASSUME NEW ok \in BOOLEAN
      PROVE  <<Event("tool-call", node, IF ok THEN "ok" ELSE "is_error", CallArgument)>>
                 \in Seq(Quiet)
  BY <1>5, <1>9
<1> QED BY <1>6, <1>7, <1>8, <1>9

\* A node that returned.
LEMMA NodesWrite ==
    ASSUME TypeOK, JournalInv,
           Intake \/ Research \/ Respond \/ BelowFloor \/ ModelReturns \/ JudgePasses
              \/ JudgeRevises \/ (\E ok \in BOOLEAN : ToolReturns(ok)) \/ Approve
    PROVE  Goes
<1>0. <<>> \in Seq(Quiet) /\ NextId \in Nat /\ RoleNames \subseteq Roles /\ {1, 2} \subseteq Levels
  BY EventParts DEF Roles, Levels
<1>1. CASE Intake
  BY <1>0, <1>1, OneUnitGoes DEF Intake, Roles
<1>2. CASE Research
  BY <1>0, <1>2, NoUnitGoes DEF Research
<1>3. CASE BelowFloor
  BY <1>0, <1>3, NoUnitGoes DEF BelowFloor
<1>4. CASE Respond
  <2>1. LatestDraft \in DOMAIN ledger
    BY <1>4, LatestIsUnit DEF Respond, LatestDraft
  <2>2. ledger[LatestDraft].text \in Nat
    <3>1. ledger[LatestDraft] \in UnitsCiting(DOMAIN receipts)
      BY <2>1 DEF TypeOK
    <3> QED BY <3>1 DEF UnitsCiting
  <2>3. "response" \in Roles /\ 1 \in Levels
    BY <1>0 DEF Roles, RoleNames
  <2>4. /\ Commit(<<>>, <<>>, <<Unit("response", FALSE, ledger[LatestDraft].cites,
                                     ledger[LatestDraft].text, Reviewed)>>,
                  [done |-> "true"], FALSE)
        /\ UNCHANGED outcome
    BY <1>4 DEF Respond
  <2> QED BY <1>0, <2>2, <2>3, <2>4, OneUnitGoes
<1>5. CASE ModelReturns
  <2>1. node \in NodesOf(plan) /\ node # 0
    BY <1>5 DEF ModelReturns, Calling, TypeOK
  <2>2. plan.role[node] \in Roles
    BY <1>0, <2>1, PlanTypes DEF PlanTyped
  <2>3. CallRecords \in Seq(Quiet)
    BY <2>1, CallsAreQuiet
  <2>4. /\ Commit(CallRecords, <<1>>,
                  <<Unit(plan.role[node], FALSE,
                         {NextReceipt} \cup UNION {ledger[i].cites : i \in Consumed},
                         NextId, FALSE)>>,
                  [drafted |-> "true"], FALSE)
        /\ UNCHANGED outcome
    BY <1>5 DEF ModelReturns
  <2> QED BY <1>0, <2>2, <2>3, <2>4, OneUnitGoes
<1>6. CASE JudgePasses
  <2>1. node # 0
    BY <1>6 DEF JudgePasses, Calling, TypeOK
  <2>2. CallRecords \in Seq(Quiet) /\ "review" \in Roles
    BY <1>0, <2>1, CallsAreQuiet DEF RoleNames
  <2>3. /\ Commit(CallRecords, <<1>>,
                  <<Unit("review", FALSE, {NextReceipt}, NextId, FALSE)>>,
                  [verdict |-> "pass"], FALSE)
        /\ UNCHANGED outcome
    BY <1>6 DEF JudgePasses
  <2> QED BY <1>0, <2>2, <2>3, OneUnitGoes
<1>7. CASE JudgeRevises
  <2>1. node # 0
    BY <1>7 DEF JudgeRevises, Calling, TypeOK
  <2> DEFINE records == Append(CallRecords, Event("failure", node, "judged", LatestDraft))
  <2>2. records \in Seq(Quiet) /\ "review-feedback" \in Roles
    BY <1>0, <2>1, CallsAreQuiet DEF RoleNames
  <2>3. /\ Commit(records, <<1>>,
                  <<Unit("review-feedback", FALSE, {NextReceipt}, NextId, FALSE)>>,
                  [verdict |-> "revise"], TRUE)
        /\ UNCHANGED outcome
    BY <1>7 DEF JudgeRevises
  <2> HIDE DEF records
  <2> QED BY <1>0, <2>2, <2>3, OneUnitGoes
<1>8. ASSUME NEW ok \in BOOLEAN, ToolReturns(ok) PROVE Goes
  <2>1. node # 0 /\ node \in NodesOf(plan)
    BY <1>8 DEF ToolReturns, Calling, TypeOK
  <2> DEFINE records == <<Event("tool-call", node, IF ok THEN "ok" ELSE "is_error",
                                CallArgument)>>
             fs == [f \in {"invoked", "tool.ok"} |->
                       IF f = "tool.ok" /\ ~ok THEN "false" ELSE "true"]
  <2>2. records \in Seq(Quiet) /\ "tool-result" \in Roles /\ plan.level[node] \in Levels
    BY <1>0, <2>1, CallsAreQuiet, PlanTypes DEF RoleNames, PlanTyped
  <2>3. /\ Commit(records, <<plan.level[node]>>,
                  <<Unit("tool-result", FALSE, {NextReceipt}, NextId, FALSE)>>, fs, FALSE)
        /\ UNCHANGED outcome
    BY <1>8 DEF ToolReturns
  <2> HIDE DEF records, fs
  <2> QED BY <1>0, <2>2, <2>3, OneUnitGoes
<1>9. CASE Approve
  <2>1. node \in Nat /\ Shown \in Nat
    BY EventParts
  <2>2. DecisionEvents("approved") \in Seq(Quiet)
    BY <2>1, DecisionsAreQuiet
  <2> QED BY <1>9, <2>2, NoUnitGoes DEF Approve
<1> QED BY <1>1, <1>2, <1>3, <1>4, <1>5, <1>6, <1>7, <1>8, <1>9

-----------------------------------------------------------------------------
(* How a run ends. *)

Tails == EventsOf((Quiets \ {"receipt"}) \cup {"finished", "released"})

\* A step that returns: receipts and units are what they were.
Leaves ==
    /\ pc # "returned" /\ pc' = "returned"
    /\ UNCHANGED <<plan, receipts, ledger, verified, pending>>
    /\ JournalEndsOnce'
    /\ \E tail \in Seq(Tails) : journal' = journal \o tail

\* An unended journal followed by a tail that ends.
LEMMA TailEnds ==
    ASSUME journal \in Seq(Ordinary), NEW tail \in Seq(Tails), journal' = journal \o tail,
           tail # <<>>, tail[Len(tail)].type = "finished",
           \A k \in DOMAIN tail : tail[k].type = "finished" => k = Len(tail),
           \A k \in DOMAIN tail : tail[k].type = "released" =>
               /\ outcome' = "ok" /\ tail[Len(tail)] = Finished("succeeded")
               /\ \A j \in k + 1 .. Len(tail) - 1 : tail[j].type = "repair"
    PROVE  JournalEndsOnce'
<1>1. Seq(Ordinary) \subseteq Seq(Events) /\ Seq(Tails) \subseteq Seq(Events)
  <2>1. Tails \subseteq Events
    BY DEF Tails, Events, EventsOf
  <2> QED BY <2>1, Kinship, SeqMonotonic
<1>2. journal \in Seq(Events) /\ tail \in Seq(Events)
  BY <1>1
<1> DEFINE l == Len(journal)
           t == Len(tail)
<1>3. l \in Nat /\ t \in Nat \ {0}
  BY <1>2, LenProperties, EmptySeq
<1>4. /\ Len(journal') = l + t /\ DOMAIN journal' = 1 .. (l + t)
      /\ DOMAIN journal = 1 .. l /\ DOMAIN tail = 1 .. t
      /\ \A i \in 1 .. l : journal'[i] = journal[i]
      /\ \A i \in 1 .. (l + t) : l < i => journal'[i] = tail[i - l]
  <2>1. journal \o tail \in Seq(Events)
    BY <1>2, ConcatProperties
  <2> QED BY <1>2, <2>1, LenProperties, ConcatProperties
<1>5. \A i \in 1 .. l : journal[i].type \notin {"finished", "released"}
  <2>1. \A i \in 1 .. l : journal[i] \in Ordinary
    BY ElementOfSeq
  <2> QED BY <2>1 DEF Ordinary, Quiets, EventsOf
<1> HIDE DEF l, t
<1>6. ASSUME NEW i \in 1 .. (l + t), journal'[i].type \in {"finished", "released"}
      PROVE  l < i /\ i - l \in 1 .. t /\ journal'[i] = tail[i - l]
  <2>1. ~(i <= l)
    BY <1>3, <1>4, <1>5, <1>6
  <2>2. i \in Nat /\ l < i /\ i - l \in 1 .. t
    BY <1>3, <2>1
  <2> QED BY <1>4, <2>2
<1>7. l + t \in 1 .. (l + t) /\ journal'[l + t] = tail[t]
  <2>1. l < l + t /\ (l + t) - l = t /\ l + t \in 1 .. (l + t)
    BY <1>3
  <2> QED BY <1>4, <2>1
<1>8. EndIsUnique'
  <2>1. ASSUME NEW i \in 1 .. (l + t), journal'[i].type = "finished"
        PROVE  i = l + t
    <3>1. i - l = t
      BY <1>4, <1>6, <2>1 DEF t
    <3> QED BY <1>3, <3>1
  <2>2. journal'[l + t].type = "finished"
    BY <1>7 DEF t
  <2> QED BY <1>4, <1>7, <2>1, <2>2 DEF EndIsUnique, Logged
<1>9. ReleaseEndsTheRun'
  <2> SUFFICES ASSUME NEW i \in 1 .. (l + t), journal'[i].type = "released"
               PROVE  /\ outcome' = "ok" /\ journal'[l + t] = Finished("succeeded")
                      /\ \A j \in i + 1 .. (l + t) - 1 : journal'[j].type = "repair"
    BY <1>4 DEF ReleaseEndsTheRun, Logged, Finished, Event
  <2>1. l < i /\ i - l \in 1 .. t /\ tail[i - l].type = "released"
    BY <1>6
  <2>2. /\ outcome' = "ok" /\ tail[t] = Finished("succeeded")
        /\ \A j \in (i - l) + 1 .. t - 1 : tail[j].type = "repair"
    BY <1>4, <2>1 DEF t
  <2>3. ASSUME NEW j \in i + 1 .. (l + t) - 1
        PROVE  journal'[j].type = "repair"
    <3>1. /\ l < j /\ j \in 1 .. (l + t) /\ j - l \in (i - l) + 1 .. t - 1
      BY <1>3, <2>1
    <3> QED BY <1>4, <2>2, <3>1
  <2> QED BY <1>7, <2>2, <2>3
<1> QED BY <1>8, <1>9 DEF JournalEndsOnce

\* Leaving with an error.
LEMMA FailsLeaves ==
    ASSUME JournalInv, pc # "returned", NEW n \in Nat,
           NEW events \in Seq(EventsOf({"transition", "tool-call"})),
           Fails(n, events), UNCHANGED <<plan, receipts, ledger, verified, pending>>
    PROVE  Leaves
<1> DEFINE T == Transition(n, "failed")
           F == Finished("failed")
           most == Append(events, T)
           tail == Append(most, F)
<1>1. /\ journal' = journal \o tail /\ pc' = "returned"
      /\ journal \in Seq(Ordinary)
  BY DEF Fails, JournalInv, Unended
<1>2. T \in Tails /\ F \in Tails
  <2>1. "failed" \in Whats
    BY DEF Whats, Statuses
  <2> QED BY <2>1, EventTypes DEF Transition, Finished, Tails, Quiets
<1>3. T.type = "transition" /\ F.type = "finished"
  BY DEF Transition, Finished, Event
<1>4. EventsOf({"transition", "tool-call"}) \subseteq Tails
  BY DEF EventsOf, Tails, Quiets
<1>5. /\ events \in Seq(Tails)
      /\ \A k \in 1 .. Len(events) : events[k].type \in {"transition", "tool-call"}
  <2>1. events \in Seq(Tails)
    BY <1>4, SeqMonotonic
  <2>2. ASSUME NEW k \in 1 .. Len(events)
        PROVE  events[k].type \in {"transition", "tool-call"}
    <3>1. events[k] \in EventsOf({"transition", "tool-call"})
      BY ElementOfSeq
    <3> QED BY <3>1 DEF EventsOf
  <2> QED BY <2>1, <2>2
<1> HIDE DEF T, F, most
<1>6. /\ most \in Seq(Tails) /\ Len(most) = Len(events) + 1 /\ Len(events) \in Nat
      /\ \A k \in 1 .. Len(events) : most[k] = events[k]
      /\ most[Len(events) + 1] = T
  BY <1>2, <1>5, AppendProperties, LenProperties DEF most
<1>7. \A k \in 1 .. Len(most) : most[k].type \in {"transition", "tool-call"}
  <2>1. \A k \in 1 .. Len(most) : k \in 1 .. Len(events) \/ k = Len(events) + 1
    BY <1>6
  <2> QED BY <1>3, <1>5, <1>6, <2>1
<1>8. /\ tail \in Seq(Tails) /\ tail # <<>> /\ Len(tail) = Len(most) + 1
      /\ \A k \in 1 .. Len(most) : tail[k] = most[k]
      /\ tail[Len(most) + 1] = F
  BY <1>2, <1>6, AppendProperties
<1> HIDE DEF tail
<1>9. \A k \in DOMAIN tail : k = Len(tail) \/ k \in 1 .. Len(most)
  BY <1>6, <1>8, LenProperties
<1>10. /\ tail[Len(tail)].type = "finished"
       /\ \A k \in DOMAIN tail : tail[k].type \in {"finished", "released"} => k = Len(tail)
  BY <1>3, <1>7, <1>8, <1>9
<1>11. \A k \in DOMAIN tail : tail[k].type # "released"
  BY <1>10
<1>12. JournalEndsOnce'
  BY <1>1, <1>8, <1>10, <1>11, TailEnds
<1> QED BY <1>1, <1>8, <1>12 DEF Leaves

\* Leaving at the end of the queue, or once a limit was reached.
LEMMA CloseLeaves ==
    ASSUME TypeOK, JournalInv, Close
    PROVE  Leaves /\ journal'[Len(journal')] = Finished(Status)
<1> DEFINE F == Finished(Status)
           tail == (Release \o Repairs) \o <<F>>
<1>1. /\ journal' = journal \o tail /\ pc' = "returned" /\ outcome' = "ok"
      /\ UNCHANGED <<plan, receipts, ledger, verified, pending>>
      /\ journal \in Seq(Ordinary)
  BY DEF Close, JournalInv, Unended, knowledge
<1>2. Status \in Whats
  BY DEF TypeOK, Status, Statuses, Whats
<1>3. F \in Tails /\ F.type = "finished" /\ (Status = "succeeded" => F = Finished("succeeded"))
  BY <1>2, EventTypes DEF Finished, Tails, Event
<1>4. /\ Repairs \in Seq(Tails)
      /\ \A k \in DOMAIN Repairs : Repairs[k].type = "repair"
  <2>1. plan.feedback \in Nat /\ DOMAIN Repairs = 1 .. plan.feedback
    BY PlanTypes DEF PlanTyped, Repairs
  <2>2. ASSUME NEW i \in 1 .. plan.feedback
        PROVE  Repairs[i] \in Tails /\ Repairs[i].type = "repair"
    <3>1. i \in Nat
      BY <2>1
    <3>2. /\ Event("repair", 0, "successful", i) \in Tails
          /\ Event("repair", 0, "unsuccessful", i) \in Tails
      BY <3>1, EventTypes DEF Tails, Quiets, Whats
    <3> QED BY <3>2 DEF Repairs, Event
  <2>3. Repairs \in [1 .. plan.feedback -> Tails]
    BY <2>1, <2>2 DEF Repairs
  <2> QED BY <2>1, <2>2, <2>3
<1>5. \/ Release = <<>>
      \/ /\ Status = "succeeded"
         /\ \E e \in Tails : Release = <<e>> /\ e.type = "released"
  <2>1. CASE Status = "succeeded" /\ pending # <<>>
    <3>1. pending[1] \in Nat /\ pending[2] \in {"verified_response", "response"}
      BY <2>1 DEF JournalInv, JournalTyped
    <3>2. pending[2] \in Whats
      BY <3>1 DEF Whats, Roles, RoleNames
    <3>3. Event("released", 0, pending[2], pending[1]) \in Tails
      BY <3>1, <3>2, EventTypes DEF Tails
    <3>4. Event("released", 0, pending[2], pending[1]).type = "released"
      BY DEF Event
    <3> QED BY <2>1, <3>3, <3>4 DEF Release
  <2>2. CASE ~(Status = "succeeded" /\ pending # <<>>)
    BY <2>2 DEF Release
  <2> QED BY <2>1, <2>2
<1> HIDE DEF F
<1>6. Release \in Seq(Tails) /\ Len(Release) <= 1
  <2>1. CASE Release = <<>>
    BY <2>1, EmptySeq
  <2>2. ASSUME NEW e \in Tails, Release = <<e>>
        PROVE  Release \in Seq(Tails) /\ Len(Release) <= 1
    BY <2>2, Singleton
  <2> QED BY <1>5, <2>1, <2>2
<1> DEFINE a == Release \o Repairs
<1>7. a \in Seq(Tails) /\ tail \in Seq(Tails) /\ <<F>> \in Seq(Tails) /\ Len(<<F>>) = 1
  <2>1. a \in Seq(Tails) /\ <<F>> \in Seq(Tails) /\ Len(<<F>>) = 1
    BY <1>3, <1>4, <1>6, ConcatProperties, Singleton
  <2> QED BY <2>1, ConcatProperties
<1>8. ASSUME NEW k \in DOMAIN a
      PROVE  \/ a[k].type = "repair"
             \/ a[k].type = "released" /\ k = 1 /\ Status = "succeeded"
  <2>1. CASE k \in DOMAIN Release /\ a[k] = Release[k]
    <3>1. k = 1 /\ Release[1].type = "released" /\ Status = "succeeded"
      BY <1>5, <2>1
    <3> QED BY <2>1, <3>1
  <2>2. CASE k - Len(Release) \in DOMAIN Repairs /\ a[k] = Repairs[k - Len(Release)]
    BY <1>4, <2>2
  <2> QED BY <1>4, <1>6, <2>1, <2>2, Positions
<1> HIDE DEF a
<1>9. /\ tail = a \o <<F>> /\ Len(tail) = Len(a) + 1 /\ Len(a) \in Nat
      /\ tail[Len(tail)] = F /\ DOMAIN tail = 1 .. Len(tail) /\ DOMAIN a = 1 .. Len(a)
      /\ \A k \in DOMAIN a : tail[k] = a[k]
  <2>1. tail = Append(a, F)
    BY <1>3, <1>7, AppendIsConcat DEF a
  <2> HIDE DEF tail
  <2> QED BY <1>3, <1>7, <2>1, AppendProperties, LenProperties DEF a, tail
<1> HIDE DEF tail
<1>10. \A k \in DOMAIN tail : k = Len(tail) \/ (k \in DOMAIN a /\ k < Len(tail))
  BY <1>9
<1>11. /\ tail # <<>> /\ tail[Len(tail)].type = "finished"
       /\ \A k \in DOMAIN tail : tail[k].type = "finished" => k = Len(tail)
  <2>1. tail # <<>>
    BY <1>9
  <2> QED BY <2>1, <1>3, <1>8, <1>9, <1>10
<1>12. ASSUME NEW k \in DOMAIN tail, tail[k].type = "released"
       PROVE  /\ outcome' = "ok" /\ tail[Len(tail)] = Finished("succeeded")
              /\ \A j \in k + 1 .. Len(tail) - 1 : tail[j].type = "repair"
  <2>1. k # Len(tail) /\ k \in DOMAIN a
    BY <1>3, <1>9, <1>10, <1>12
  <2>2. k = 1 /\ Status = "succeeded"
    BY <1>8, <1>9, <1>12, <2>1
  <2>3. ASSUME NEW j \in 2 .. Len(tail) - 1 PROVE tail[j].type = "repair"
    <3>1. j \in DOMAIN a /\ j # 1
      BY <1>9
    <3> QED BY <1>8, <1>9, <3>1
  <2> QED BY <1>1, <1>3, <1>9, <2>2, <2>3
<1>13. JournalEndsOnce'
  BY <1>1, <1>7, <1>11, <1>12, TailEnds
<1>14. pc # "returned"
  BY DEF Close
<1>15. journal'[Len(journal')] = F
  <2>1. journal \in Seq(Events) /\ tail \in Seq(Events)
    <3>1. Tails \subseteq Events
      BY DEF Tails, Events, EventsOf
    <3> QED BY <1>7, <3>1, SeqMonotonic DEF JournalInv, JournalTyped
  <2>2. /\ Len(journal) \in Nat /\ Len(tail) \in Nat \ {0}
        /\ Len(journal') = Len(journal) + Len(tail)
    BY <1>1, <1>9, <2>1, ConcatProperties, LenProperties
  <2>3. /\ Len(journal') \in 1 .. Len(journal) + Len(tail)
        /\ ~(Len(journal') <= Len(journal)) /\ Len(journal') - Len(journal) = Len(tail)
    BY <2>2
  <2>4. journal'[Len(journal')] = tail[Len(tail)]
    BY <1>1, <2>1, <2>3, ConcatProperties
  <2> QED BY <1>9, <2>4
<1> QED BY <1>1, <1>7, <1>13, <1>14, <1>15 DEF Leaves, F

\* A step that only waits, or a step of another part of the run.
Waits ==
    UNCHANGED <<plan, pc, node, edge, facts, spent, knowledge, pending, forced, journal,
                outcome>>

\* The other three ways to return: with the error of a node, without ever
\* having compiled, and from the middle of a node's edges.
LEMMA ErrorsLeave ==
    ASSUME TypeOK, JournalInv,
           UnknownKind \/ NothingToWorkOn \/ CallFails \/ RefuseToCompile \/ BadGuard
    PROVE  Leaves
<1> USE DEF knowledge, answer
<1>1. CASE UnknownKind
  <2>1. PICK n \in NodesOf(plan) : Fails(n, <<Transition(n, "running")>>)
    BY <1>1 DEF UnknownKind
  <2>2. n \in Nat
    BY PlanTypes
  <2>3. Transition(n, "running") \in EventsOf({"transition", "tool-call"})
    BY <2>2, EventTypes DEF Transition, Whats
  <2>4. <<Transition(n, "running")>> \in Seq(EventsOf({"transition", "tool-call"}))
    BY <2>3, Singleton
  <2>5. pc # "returned" /\ UNCHANGED <<plan, receipts, ledger, verified, pending>>
    BY <1>1 DEF UnknownKind, Visit, Pop
  <2> QED BY <2>1, <2>2, <2>4, <2>5, FailsLeaves
<1>2. CASE NothingToWorkOn
  <2>1. Fails(node, <<>>)
    BY <1>2 DEF NothingToWorkOn, NodeError
  <2>2. node \in Nat
    BY EventParts
  <2>3. pc # "returned" /\ UNCHANGED <<plan, receipts, ledger, verified, pending>>
    BY <1>2 DEF NothingToWorkOn, NodeError, Running
  <2>4. <<>> \in Seq(EventsOf({"transition", "tool-call"}))
    BY EmptySeq
  <2> QED BY <2>1, <2>2, <2>3, <2>4, FailsLeaves
<1>3. CASE CallFails
  <2>1. Fails(node, FailureRecords)
    BY <1>3 DEF CallFails, NodeError
  <2>2. node \in Nat /\ CallArgument \in Nat
    BY EventParts
  <2>3. pc # "returned" /\ UNCHANGED <<plan, receipts, ledger, verified, pending>>
    BY <1>3 DEF CallFails, NodeError, Calling
  <2>4. Event("tool-call", node, "error", CallArgument)
            \in EventsOf({"transition", "tool-call"})
    BY <2>2, EventTypes DEF Whats
  <2>5. FailureRecords \in Seq(EventsOf({"transition", "tool-call"}))
    BY <2>4, Singleton, EmptySeq DEF FailureRecords
  <2> QED BY <2>1, <2>2, <2>3, <2>5, FailsLeaves
<1>4. ASSUME UNCHANGED <<plan, receipts, ledger, verified, pending, journal>>,
             pc' = "returned", journal \in Seq(Ordinary),
             journal = <<>> \/ (outcome' = "error" /\ GuardIsBad(Edge.when, facts)'),
             pc # "returned"
      PROVE  Leaves
  <2>1. journal' = journal \o <<>> /\ <<>> \in Seq(Tails)
    BY <1>4, ConcatEmptySeq, EmptySeq
  <2>2. \A i \in DOMAIN journal : journal[i].type \notin {"finished", "released"}
    <3>1. \A i \in DOMAIN journal : journal[i] \in Ordinary
      BY <1>4, ElementOfSeq, LenProperties
    <3> QED BY <3>1 DEF Ordinary, Quiets, EventsOf
  <2>3. JournalEndsOnce'
    BY <1>4, <2>2 DEF JournalEndsOnce, EndIsUnique, ReleaseEndsTheRun, Logged
  <2> QED BY <1>4, <2>1, <2>3 DEF Leaves
<1>5. CASE RefuseToCompile
  BY <1>4, <1>5 DEF RefuseToCompile, JournalInv, Unended
<1>6. CASE BadGuard
  <2>1. GuardIsBad(Edge.when, facts)' /\ outcome' = "error"
    BY <1>6 DEF BadGuard, Edge, progress
  <2> QED BY <1>4, <1>6, <2>1 DEF BadGuard, JournalInv, Unended
<1> QED BY <1>1, <1>2, <1>3, <1>5, <1>6

\* A run that has returned does nothing more.
LEMMA NothingAfterReturn ==
    ASSUME [Next]_vars, pc = "returned"
    PROVE  UNCHANGED vars
BY DEF Next, Executes, Outside, Environment, Returned, Open, RefuseToCompile,
   StopAtCap, StopAtVisitCap, RunNode, UnknownKind, Visit, Pop, Stopped, Intake,
   Research, Respond, BelowFloor, Call, ReadyToCall, NothingToWorkOn, AskApproval,
   Silence, Refuse, FollowEdge, PassOverEdge, BadGuard, Settle, Close,
   NoRoomForPrompt, CallFails, ModelReturns, JudgePasses, JudgeRevises, ToolReturns,
   Approve, Decline, Cancel, Expire, Running, Calling

LEMMA NextWrites ==
    ASSUME TypeOK, JournalInv, [Next]_vars
    PROVE  (Goes /\ pc # "returned") \/ Leaves \/ Waits
<1>0. ASSUME pc = "returned" PROVE UNCHANGED vars
  BY <1>0, NothingAfterReturn
<1>1. CASE Cancel \/ Expire \/ UNCHANGED vars
  BY <1>1 DEF Cancel, Expire, vars, Waits, progress, answer, world
<1> QED
  BY <1>0, <1>1, OpenWrites, StepsThatWriteLittle, ApprovalWrites, NodesWrite, CloseLeaves,
     ErrorsLeave
     DEF Next, Executes, Outside, Environment, Returned

\* Typing of the journal, and what is not in it yet, are preserved.
LEMMA NextJournal ==
    ASSUME TypeOK, JournalInv, JournalEndsOnce, [Next]_vars
    PROVE  JournalInv' /\ JournalEndsOnce'
<1>1. CASE Goes /\ pc # "returned"
  <2>1. PICK mid \in Seq(Quiet), post \in Seq(Ordinary) : Writes(mid, post)
    BY <1>1 DEF Goes
  <2>2. /\ journal' = (journal \o mid) \o post
        /\ pc' \notin {"new", "returned"} /\ outcome' = outcome
        /\ pending' \in {<<>>} \cup (Nat \X {"verified_response", "response"})
    BY <1>1, <2>1 DEF Goes, Writes
  <2>3. journal \in Seq(Ordinary) /\ outcome = "none"
    BY <1>1 DEF Goes, JournalInv, Unended
  <2>4. journal' \in Seq(Ordinary)
    <3>1. journal \o mid \in Seq(Ordinary)
      BY <2>3, Kinship, ConcatProperties
    <3> QED BY <2>2, <3>1, ConcatProperties
  <2>5. JournalInv'
    BY <2>2, <2>3, <2>4, Kinship DEF JournalInv, JournalTyped, Unended
  <2>6. \A i \in DOMAIN journal' : journal'[i].type \notin {"finished", "released"}
    <3>1. \A i \in DOMAIN journal' : journal'[i] \in Ordinary
      BY <2>4, ElementOfSeq, LenProperties
    <3> QED BY <3>1 DEF Ordinary, Quiets, EventsOf
  <2>7. JournalEndsOnce'
    BY <2>2, <2>6 DEF JournalEndsOnce, EndIsUnique, ReleaseEndsTheRun, Logged
  <2> QED BY <2>5, <2>7
<1>2. CASE Leaves
  <2>1. PICK tail \in Seq(Tails) : journal' = journal \o tail
    BY <1>2 DEF Leaves
  <2>2. Seq(Tails) \subseteq Seq(Events)
    <3>1. Tails \subseteq Events
      BY DEF Tails, Events, EventsOf
    <3> QED BY <3>1, SeqMonotonic
  <2>3. journal' \in Seq(Events)
    BY <2>1, <2>2, ConcatProperties DEF JournalInv, JournalTyped
  <2> QED BY <1>2, <2>3 DEF Leaves, JournalInv, JournalTyped, Unended
<1>3. CASE Waits
  BY <1>3 DEF Waits, JournalInv, JournalTyped, Unended, JournalEndsOnce, EndIsUnique,
        ReleaseEndsTheRun, Logged, Edge, knowledge
<1> QED BY <1>1, <1>2, <1>3, NextWrites

LEMMA InitJournal == Init => JournalInv /\ JournalEndsOnce
<1>1. Init => journal = <<>> /\ pending = <<>> /\ pc = "new" /\ outcome = "none"
              /\ ledger = <<>> /\ receipts = <<>>
  BY DEF Init
<1>2. <<>> \in Seq(Events) /\ <<>> \in Seq(Ordinary)
  BY EmptySeq
<1> QED BY <1>1, <1>2 DEF JournalInv, JournalTyped, Unended, JournalEndsOnce,
           EndIsUnique, ReleaseEndsTheRun, Logged

\* However a run ends (an answer, an error, a limit, a person's refusal), its
\* journal ends once, with its last event, and only the end of a success
\* releases.
THEOREM JournalsEndOnce == Spec => []JournalEndsOnce
<1>1. TypeOK /\ JournalInv /\ JournalEndsOnce /\ [Next]_vars
          => JournalInv' /\ JournalEndsOnce'
  BY NextJournal
<1> QED BY <1>1, InitJournal, TypeCorrect, PTL DEF Spec

-----------------------------------------------------------------------------
(* The budget and the answer. *)

WithinCaps == \A r \in Resources : \A c \in plan.cap[r] : spent[r] <= c

(***************************************************************************)
(* Inductive strengthening: the loop is at its top only after a budget     *)
(* check, and a run that closes early has a status that is no success.     *)
(***************************************************************************)
CapsInv ==
    /\ pc \in {"new", "pop"} => WithinCaps
    /\ pc = "closing" => forced \notin {"none", "succeeded"}
    /\ AnswerWithinBudget

LEMMA NextCaps ==
    ASSUME TypeOK, JournalInv, JournalEndsOnce, CapsInv, [Next]_vars
    PROVE  CapsInv'
<1>1. JournalInv' /\ JournalEndsOnce'
  BY NextJournal
<1>2. ASSUME outcome' # "ok" PROVE AnswerWithinBudget'
  BY <1>1, <1>2 DEF JournalEndsOnce, ReleaseEndsTheRun, AnswerWithinBudget
<1>3. ASSUME pc' # "returned" PROVE AnswerWithinBudget'
  BY <1>1, <1>2, <1>3 DEF JournalInv, Unended
<1>4. ASSUME pc' \notin {"new", "pop", "closing", "returned"} PROVE CapsInv'
  BY <1>3, <1>4 DEF CapsInv
<1>5. ASSUME pc' = "closing", forced' \in {"failed", "cancelled", "budget-exhausted"}
      PROVE  CapsInv'
  BY <1>3, <1>5 DEF CapsInv
<1>6. ASSUME pc' = "returned", outcome' = "error" PROVE CapsInv'
  BY <1>2, <1>6 DEF CapsInv
<1>7. ASSUME NEW records, NEW levels, NEW units, NEW fs, NEW esc,
             Commit(records, levels, units, fs, esc)
      PROVE  CapsInv'
  <2>1. pc' = "routing" \/ (pc' = "closing" /\ forced' = "failed")
    BY <1>7 DEF Commit, Stops
  <2> QED BY <1>4, <1>5, <2>1
<1>8. CASE Open
  BY <1>3, <1>8 DEF Open, CapsInv, WithinCaps
<1>9. CASE StopAtCap \/ StopAtVisitCap \/ Stopped \/ NoRoomForPrompt \/ Silence \/ Decline
  BY <1>5, <1>9 DEF StopAtCap, StopAtVisitCap, Stopped, NoRoomForPrompt, Silence, Decline,
        Refuse, Stops, StopStatus
<1>10. CASE RunNode \/ Call \/ AskApproval \/ FollowEdge \/ PassOverEdge
  BY <1>4, <1>10 DEF RunNode, Call, AskApproval, FollowEdge, PassOverEdge
<1>11. CASE RefuseToCompile \/ UnknownKind \/ NothingToWorkOn \/ CallFails \/ BadGuard
  BY <1>6, <1>11 DEF RefuseToCompile, UnknownKind, NothingToWorkOn, CallFails, NodeError,
        Fails, BadGuard
<1>12. CASE Intake \/ Research \/ Respond \/ BelowFloor \/ Approve
  BY <1>7, <1>12 DEF Intake, Research, Respond, BelowFloor, Approve
<1>13. CASE ModelReturns \/ JudgePasses \/ JudgeRevises \/ \E ok \in BOOLEAN : ToolReturns(ok)
  BY <1>7, <1>13 DEF ModelReturns, JudgePasses, JudgeRevises, ToolReturns
<1>14. CASE Settle
  <2>1. PICK overtime \in Overtimes :
           IF Exceeded(overtime)
           THEN Append1(Event("budget", node, "", 0)) /\ Stops("budget-exhausted")
           ELSE pc' = "pop" /\ UNCHANGED <<journal, forced>>
    BY <1>14 DEF Settle
  <2>2. CASE Exceeded(overtime)
    BY <1>5, <2>1, <2>2 DEF Stops
  <2>3. CASE ~Exceeded(overtime)
    <3>1. WithinCaps
      <4> SUFFICES ASSUME NEW r \in Resources, NEW c \in plan.cap[r]
                   PROVE  spent[r] <= c
        BY DEF WithinCaps
      <4>1. ~(spent[r] > c) /\ spent[r] \in Nat /\ c \in Nat
        BY <2>3, CapTypes DEF Exceeded
      <4> QED BY <4>1
    <3>2. pc' = "pop" /\ UNCHANGED <<plan, spent>>
      BY <1>14, <2>1, <2>3 DEF Settle
    <3> QED BY <1>3, <3>1, <3>2 DEF CapsInv, WithinCaps
  <2> QED BY <2>2, <2>3
<1>15. CASE Close
  <2>1. journal'[Len(journal')] = Finished(Status) /\ pc' = "returned"
    BY <1>15, CloseLeaves DEF Close
  <2>2. UNCHANGED <<plan, spent>>
    BY <1>15 DEF Close
  <2>3. ASSUME Logged("released")' # {} PROVE WithinCaps
    <3>1. Finished(Status) = Finished("succeeded")
      BY <1>1, <2>1, <2>3 DEF JournalEndsOnce, ReleaseEndsTheRun
    <3>2. Status = "succeeded"
      BY <3>1 DEF Finished, Event
    <3>3. pc = "pop"
      BY <1>15, <3>2 DEF Close, Status, CapsInv
    <3> QED BY <3>3 DEF CapsInv
  <2>4. AnswerWithinBudget'
    BY <2>2, <2>3 DEF AnswerWithinBudget, WithinCaps
  <2> QED BY <2>1, <2>4 DEF CapsInv
<1>16. CASE Cancel \/ Expire \/ UNCHANGED vars
  BY <1>16 DEF Cancel, Expire, vars, CapsInv, WithinCaps, AnswerWithinBudget, Logged
<1> QED
  BY <1>8, <1>9, <1>10, <1>11, <1>12, <1>13, <1>14, <1>15, <1>16
     DEF Next, Executes, Outside, Environment, Returned

LEMMA InitCaps == Init => CapsInv
<1> SUFFICES ASSUME Init PROVE CapsInv
  OBVIOUS
<1>1. pc = "new" /\ journal = <<>> /\ spent = [r \in Resources |-> 0]
  BY DEF Init
<1>2. TypeOK
  BY InitTypes DEF TypeInv
<1>3. WithinCaps
  <2> SUFFICES ASSUME NEW r \in Resources, NEW c \in plan.cap[r]
               PROVE  spent[r] <= c
    BY DEF WithinCaps
  <2>1. c \in Nat /\ spent[r] = 0
    BY <1>1, <1>2, CapTypes
  <2> QED BY <2>1
<1> QED BY <1>1, <1>3 DEF CapsInv, AnswerWithinBudget, Logged

\* A run that released an answer paid for it within every cap, and no run
\* spends a cap by as much as one call beyond it, whatever calls cost.
THEOREM SpendingStaysBounded == Spec => []SpendingIsBounded
<1>1. Init => CapsInv
  BY InitCaps
<1>2. Init => JournalInv /\ JournalEndsOnce
  BY InitJournal
<1>3. TypeOK /\ JournalInv /\ JournalEndsOnce /\ CapsInv /\ [Next]_vars
          => JournalInv' /\ JournalEndsOnce' /\ CapsInv'
  BY NextJournal, NextCaps
<1>4. CapsInv /\ OvershootIsOneCall => SpendingIsBounded
  BY DEF CapsInv, SpendingIsBounded
<1> QED BY <1>1, <1>2, <1>3, <1>4, TypeCorrect, OvershootIsBounded, PTL DEF Spec

-----------------------------------------------------------------------------
(* Receipts, the units that cite them, and what was reviewed. *)

ReceiptAt(i, c) == journal[i].type = "receipt" /\ journal[i].ref = c

(***************************************************************************)
(* Inductive strengthening: what is cited was cited from receipts that the *)
(* run holds, so each of those must be an event of the journal already,    *)
(* and stay what it was.                                                   *)
(***************************************************************************)
ReceiptsAreLogged == \A c \in DOMAIN receipts : \E i \in DOMAIN journal : ReceiptAt(i, c)

UnitsFollowReceipts ==
    \A i \in DOMAIN journal : journal[i].type = "unit" =>
        /\ journal[i].ref \in DOMAIN ledger
        /\ \A c \in ledger[journal[i].ref].cites :
              \E j \in DOMAIN journal : j < i /\ ReceiptAt(j, c)

Supported(d) ==
    \E c \in ledger[d].cites : c \in DOMAIN receipts /\ receipts[c] >= plan.floor

VerifiedIsSupported == \A d \in verified : Supported(d)

CiteInv == ReceiptsAreLogged /\ UnitsFollowReceipts

LEMMA WritesKeepCites ==
    ASSUME TypeOK, TypeOK', JournalInv, CiteInv,
           NEW mid \in Seq(Quiet), NEW post \in Seq(Ordinary), Writes(mid, post)
    PROVE  CiteInv'
<1> DEFINE front == journal \o mid
           f == Len(front)
<1>1. /\ journal \in Seq(Events) /\ mid \in Seq(Events) /\ post \in Seq(Events)
  BY Kinship DEF JournalInv, JournalTyped
<1>2. front \in Seq(Events) /\ f \in Nat /\ DOMAIN front = 1 .. f
  BY <1>1, ConcatProperties, LenProperties
<1>3. /\ DOMAIN journal \subseteq DOMAIN front
      /\ \A i \in DOMAIN journal : front[i] = journal[i]
  BY <1>1, Appending
<1>4. /\ journal' = front \o post
      /\ \A c \in DOMAIN receipts' \ DOMAIN receipts :
            \E i \in DOMAIN mid : mid[i].type = "receipt" /\ mid[i].ref = c
      /\ \A i \in DOMAIN post : post[i].type = "unit" =>
            post[i].ref \in DOMAIN ledger' /\ post[i].ref \notin DOMAIN ledger
      /\ DOMAIN ledger \subseteq DOMAIN ledger'
      /\ \A i \in DOMAIN ledger : ledger'[i] = ledger[i]
  BY DEF Writes
<1>5. ASSUME NEW c \in DOMAIN receipts'
      PROVE  \E i \in DOMAIN front : front[i].type = "receipt" /\ front[i].ref = c
  <2>1. CASE c \in DOMAIN receipts
    BY <1>3, <2>1 DEF CiteInv, ReceiptsAreLogged, ReceiptAt
  <2>2. CASE c \notin DOMAIN receipts
    <3>1. PICK i \in DOMAIN mid : mid[i].type = "receipt" /\ mid[i].ref = c
      BY <1>4, <2>2
    <3>2. Len(journal) + i \in DOMAIN front /\ front[Len(journal) + i] = mid[i]
      <4>1. /\ Len(journal) \in Nat /\ i \in 1 .. Len(mid) /\ Len(mid) \in Nat
            /\ f = Len(journal) + Len(mid)
        BY <1>1, ConcatProperties, LenProperties
      <4>2. /\ Len(journal) + i \in 1 .. Len(journal) + Len(mid)
            /\ ~(Len(journal) + i <= Len(journal)) /\ (Len(journal) + i) - Len(journal) = i
        BY <4>1
      <4>3. front[Len(journal) + i] = mid[i]
        BY <1>1, <4>2, ConcatProperties
      <4> HIDE DEF front, f
      <4> QED BY <1>2, <4>1, <4>2, <4>3
    <3> QED BY <3>1, <3>2
  <2> QED BY <2>1, <2>2
<1>6. \A i \in DOMAIN mid : mid[i].type # "unit"
  <2>1. \A i \in DOMAIN mid : mid[i] \in Quiet
    BY ElementOfSeq, LenProperties
  <2> QED BY <2>1 DEF Quiet, Quiets, EventsOf
<1>7. ASSUME NEW i \in DOMAIN front, front[i].type = "unit"
      PROVE  i \in DOMAIN journal /\ front[i] = journal[i]
  BY <1>1, <1>6, <1>7, Positions
<1> HIDE DEF front, f
<1>8. /\ DOMAIN front \subseteq DOMAIN journal'
      /\ \A i \in DOMAIN front : journal'[i] = front[i]
  BY <1>1, <1>2, <1>4, Appending
<1>9. ReceiptsAreLogged'
  BY <1>5, <1>8 DEF ReceiptsAreLogged, ReceiptAt
<1>10. ASSUME NEW i \in DOMAIN journal', journal'[i].type = "unit"
       PROVE  /\ journal'[i].ref \in DOMAIN ledger'
              /\ \A c \in ledger'[journal'[i].ref].cites :
                    \E j \in DOMAIN journal' : j < i /\ ReceiptAt(j, c)'
  <2>1. \/ i \in DOMAIN front /\ journal'[i] = front[i]
        \/ i \in Nat /\ f < i /\ i - f \in DOMAIN post /\ journal'[i] = post[i - f]
    BY <1>1, <1>2, <1>4, Positions DEF f
  <2>2. CASE i \in DOMAIN front /\ journal'[i] = front[i]
    <3>1. i \in DOMAIN journal /\ journal'[i] = journal[i] /\ journal[i].type = "unit"
      BY <1>7, <1>10, <2>2
    <3>2. /\ journal[i].ref \in DOMAIN ledger
          /\ \A c \in ledger[journal[i].ref].cites :
                \E j \in DOMAIN journal : j < i /\ ReceiptAt(j, c)
      BY <3>1 DEF CiteInv, UnitsFollowReceipts
    <3>3. /\ journal'[i].ref \in DOMAIN ledger'
          /\ ledger'[journal'[i].ref] = ledger[journal[i].ref]
      BY <1>4, <3>1, <3>2
    <3>4. \A j \in DOMAIN journal : j \in DOMAIN journal' /\ journal'[j] = journal[j]
      BY <1>3, <1>8
    <3> QED BY <3>2, <3>3, <3>4 DEF ReceiptAt
  <2>3. CASE i \in Nat /\ f < i /\ i - f \in DOMAIN post /\ journal'[i] = post[i - f]
    <3>1. journal'[i].ref \in DOMAIN ledger'
      BY <1>4, <1>10, <2>3
    <3>2. ledger'[journal'[i].ref].cites \subseteq DOMAIN receipts'
      <4>1. ledger'[journal'[i].ref] \in UnitsCiting(DOMAIN receipts')
        BY <3>1, ElementOfSeq, LenProperties DEF TypeOK
      <4> QED BY <4>1 DEF UnitsCiting
    <3>3. \A j \in DOMAIN front : j < i
      BY <1>2, <2>3
    <3> QED BY <1>5, <1>8, <3>1, <3>2, <3>3 DEF ReceiptAt
  <2> QED BY <2>1, <2>2, <2>3
<1> QED BY <1>9, <1>10 DEF CiteInv, UnitsFollowReceipts

LEMMA NextCites ==
    ASSUME TypeOK, TypeOK', JournalInv, CiteInv, [Next]_vars
    PROVE  CiteInv'
<1>1. CASE Goes
  BY <1>1, WritesKeepCites DEF Goes
<1>2. CASE Leaves
  <2>1. PICK tail \in Seq(Tails) : journal' = journal \o tail
    BY <1>2 DEF Leaves
  <2>2. \A i \in DOMAIN tail : tail[i].type \notin {"unit"}
    <3>1. \A i \in DOMAIN tail : tail[i] \in Tails
      BY ElementOfSeq, LenProperties
    <3> QED BY <3>1 DEF Tails, Quiets, EventsOf
  <2>3. journal \in Seq(Events) /\ tail \in Seq(Events)
    <3>1. Tails \subseteq Events
      BY DEF Tails, Events, EventsOf
    <3> QED BY <3>1, SeqMonotonic DEF JournalInv, JournalTyped
  <2>4. /\ DOMAIN journal \subseteq DOMAIN journal'
        /\ \A i \in DOMAIN journal : journal'[i] = journal[i]
    BY <2>1, <2>3, Appending
  <2>5. ASSUME NEW i \in DOMAIN journal', journal'[i].type = "unit"
        PROVE  i \in DOMAIN journal /\ journal'[i] = journal[i]
    BY <2>1, <2>2, <2>3, <2>5, Positions
  <2>6. UNCHANGED <<receipts, ledger>>
    BY <1>2 DEF Leaves
  <2> QED BY <2>4, <2>5, <2>6 DEF CiteInv, ReceiptsAreLogged, UnitsFollowReceipts, ReceiptAt
<1>3. CASE Waits
  BY <1>3 DEF Waits, knowledge, CiteInv, ReceiptsAreLogged, UnitsFollowReceipts, ReceiptAt
<1> QED BY <1>1, <1>2, <1>3, NextWrites

\* Every receipt a unit cites is in the journal before the unit, through any
\* number of inheritance steps.
THEOREM ReceiptsComeFirst == Spec => []ReceiptsPrecedeUnits
<1>1. Init => CiteInv
  <2>1. Init => journal = <<>> /\ receipts = <<>>
    BY DEF Init
  <2> QED BY <2>1 DEF CiteInv, ReceiptsAreLogged, UnitsFollowReceipts
<1>2. TypeInv /\ JournalInv /\ JournalEndsOnce /\ CiteInv /\ [Next]_vars
          => TypeInv' /\ JournalInv' /\ JournalEndsOnce' /\ CiteInv'
  BY NextTypes, NextJournal, NextCites DEF TypeInv
<1>3. CiteInv => ReceiptsPrecedeUnits
  BY DEF CiteInv, UnitsFollowReceipts, ReceiptsPrecedeUnits, Logged, ReceiptAt
<1> QED BY <1>1, <1>2, <1>3, InitTypes, InitJournal, PTL DEF Spec

\* A judge is only called for a draft with support at or above the floor.
LEMMA PassedIsSupported ==
    ASSUME TypeOK, JudgedDraft, JudgePasses
    PROVE  LatestDraft \in DOMAIN ledger /\ Supported(LatestDraft)
<1> DEFINE draft == ledger[LatestDraft]
<1>1. LatestDraft # 0 /\ Receipted(draft) /\ MeetsFloor(draft)
  BY DEF JudgePasses, Calling, JudgedDraft
<1>2. LatestDraft \in DOMAIN ledger
  BY <1>1, LatestIsUnit DEF LatestDraft
<1> HIDE DEF draft
<1>3. draft.cites # {} /\ draft.cites \subseteq DOMAIN receipts
  BY <1>1 DEF Receipted
<1>4. \A c \in draft.cites : receipts[c] \in 1 .. 4
  BY <1>3, ElementOfSeq, LenProperties DEF TypeOK, Levels
<1>5. \E l \in 0 .. 4 : /\ \A c \in draft.cites : receipts[c] <= l
                        /\ l # 0 => \E c \in draft.cites : receipts[c] = l
  <2>1. CASE \E c \in draft.cites : receipts[c] = 4
    BY <1>4, <2>1
  <2>2. CASE \A c \in draft.cites : receipts[c] # 4
    <3>1. CASE \E c \in draft.cites : receipts[c] = 3
      BY <1>4, <2>2, <3>1
    <3>2. CASE \A c \in draft.cites : receipts[c] # 3
      <4>1. CASE \E c \in draft.cites : receipts[c] = 2
        BY <1>4, <2>2, <3>2, <4>1
      <4>2. CASE \A c \in draft.cites : receipts[c] # 2
        BY <1>3, <1>4, <2>2, <3>2, <4>2
      <4> QED BY <4>1, <4>2
    <3> QED BY <3>1, <3>2
  <2> QED BY <2>1, <2>2
<1>6. /\ \A c \in draft.cites : receipts[c] <= Strongest(draft)
      /\ Strongest(draft) \in 0 .. 4
      /\ Strongest(draft) # 0 => \E c \in draft.cites : receipts[c] = Strongest(draft)
  BY <1>5 DEF Strongest
<1>7. PICK c \in draft.cites : receipts[c] = Strongest(draft)
  <2>1. Strongest(draft) # 0
    BY <1>3, <1>4, <1>6
  <2> QED BY <1>6, <2>1
<1>8. receipts[c] >= plan.floor
  BY <1>1, <1>7 DEF MeetsFloor
<1> QED BY <1>2, <1>3, <1>8 DEF Supported, draft

\* The plan stays, and only a judge that passes marks a draft.
LEMMA OnlyJudgesVerify ==
    ASSUME [Next]_vars
    PROVE  /\ UNCHANGED plan
           /\ UNCHANGED verified \/ JudgePasses
<1> USE DEF knowledge
<1>1. CASE Open \/ RefuseToCompile \/ StopAtCap \/ StopAtVisitCap \/ RunNode \/ UnknownKind
  BY <1>1 DEF Open, RefuseToCompile, StopAtCap, StopAtVisitCap, RunNode, UnknownKind
<1>2. CASE Stopped \/ Intake \/ Research \/ Respond \/ BelowFloor \/ Call \/ NothingToWorkOn
  BY <1>2 DEF Stopped, Intake, Research, Respond, BelowFloor, Call, NothingToWorkOn, NodeError
<1>3. CASE AskApproval \/ Silence \/ Decline \/ Approve
  BY <1>3 DEF AskApproval, Silence, Decline, Refuse, Approve
<1>4. CASE FollowEdge \/ PassOverEdge \/ BadGuard \/ Settle \/ Close
  BY <1>4 DEF FollowEdge, PassOverEdge, BadGuard, Settle, Close
<1>5. CASE NoRoomForPrompt \/ CallFails \/ ModelReturns \/ JudgeRevises
           \/ \E ok \in BOOLEAN : ToolReturns(ok)
  BY <1>5 DEF NoRoomForPrompt, CallFails, NodeError, ModelReturns, JudgeRevises, ToolReturns
<1>6. CASE JudgePasses
  BY <1>6 DEF JudgePasses
<1>7. CASE Cancel \/ Expire \/ UNCHANGED vars
  BY <1>7 DEF Cancel, Expire, vars
<1> QED
  BY <1>1, <1>2, <1>3, <1>4, <1>5, <1>6, <1>7
     DEF Next, Executes, Outside, Environment, Returned

\* Units and receipts stay as they are.
LEMMA LedgerStays ==
    ASSUME TypeOK, JournalInv, [Next]_vars
    PROVE  /\ DOMAIN ledger \subseteq DOMAIN ledger'
           /\ \A i \in DOMAIN ledger : ledger'[i] = ledger[i]
           /\ DOMAIN receipts \subseteq DOMAIN receipts'
           /\ \A c \in DOMAIN receipts : receipts'[c] = receipts[c]
<1>1. CASE Goes
  BY <1>1 DEF Goes, Writes
<1>2. CASE Leaves
  BY <1>2 DEF Leaves
<1>3. CASE Waits
  BY <1>3 DEF Waits, knowledge
<1> QED BY <1>1, <1>2, <1>3, NextWrites

LEMMA NextSupport ==
    ASSUME TypeInv, JournalInv, VerifiedIsSupported, [Next]_vars
    PROVE  VerifiedIsSupported'
<1>1. /\ \A i \in DOMAIN ledger : ledger'[i] = ledger[i]
      /\ DOMAIN receipts \subseteq DOMAIN receipts'
      /\ \A c \in DOMAIN receipts : receipts'[c] = receipts[c]
  BY LedgerStays DEF TypeInv
<1>2. ASSUME NEW d \in DOMAIN ledger, Supported(d) PROVE Supported(d)'
  <2>1. plan' = plan
    BY OnlyJudgesVerify
  <2> QED BY <1>1, <1>2, <2>1 DEF Supported
<1>3. verified \subseteq DOMAIN ledger
  BY DEF TypeInv, TypeOK
<1>4. CASE UNCHANGED verified
  BY <1>2, <1>3, <1>4 DEF VerifiedIsSupported
<1>5. CASE JudgePasses
  <2>1. LatestDraft \in DOMAIN ledger /\ Supported(LatestDraft)
    BY <1>5, PassedIsSupported DEF TypeInv
  <2>2. verified' = verified \cup {LatestDraft}
    BY <1>5 DEF JudgePasses
  <2> QED BY <1>2, <1>3, <2>1, <2>2 DEF VerifiedIsSupported
<1> QED BY <1>4, <1>5, OnlyJudgesVerify

\* What a judge passed, and so what a release labelled verified rests on,
\* cites a journaled receipt at or above the policy's support floor.
THEOREM ReviewsHadSupport == Spec => []ReviewedMeetsFloor
<1>1. Init => CiteInv /\ VerifiedIsSupported
  <2>1. Init => journal = <<>> /\ receipts = <<>> /\ verified = {}
    BY DEF Init
  <2> QED BY <2>1 DEF CiteInv, ReceiptsAreLogged, UnitsFollowReceipts, VerifiedIsSupported
<1>2. TypeInv /\ JournalInv /\ JournalEndsOnce /\ CiteInv /\ VerifiedIsSupported /\ [Next]_vars
          => TypeInv' /\ JournalInv' /\ JournalEndsOnce' /\ CiteInv' /\ VerifiedIsSupported'
  BY NextTypes, NextJournal, NextCites, NextSupport DEF TypeInv
<1>3. CiteInv /\ VerifiedIsSupported => ReviewedMeetsFloor
  <2> SUFFICES ASSUME CiteInv, VerifiedIsSupported, NEW d \in verified
               PROVE  \E i \in Logged("receipt") :
                         /\ journal[i].ref \in ledger[d].cites
                         /\ receipts[journal[i].ref] >= plan.floor
    BY DEF ReviewedMeetsFloor
  <2>1. PICK c \in ledger[d].cites : c \in DOMAIN receipts /\ receipts[c] >= plan.floor
    BY DEF VerifiedIsSupported, Supported
  <2>2. PICK i \in DOMAIN journal : ReceiptAt(i, c)
    BY <2>1 DEF CiteInv, ReceiptsAreLogged
  <2> QED BY <2>1, <2>2 DEF ReceiptAt, Logged
<1> QED BY <1>1, <1>2, <1>3, InitTypes, InitJournal, PTL DEF Spec

-----------------------------------------------------------------------------
(***************************************************************************)
(* How a run moves through its graph: what each step appends to the        *)
(* journal, that every run of a node is closed, and that every tool call   *)
(* is recorded, and sent once.                                             *)
(***************************************************************************)

(* What a step appends. *)

\* The step appends exactly t.
Adds(t) == journal' = journal \o t

\* Where things stand after a step that appends t.
LEMMA AddsAt ==
    ASSUME JournalTyped, NEW T, NEW t \in Seq(T), Adds(t)
    PROVE  /\ Len(journal) \in Nat /\ Len(t) \in Nat
           /\ Len(journal') = Len(journal) + Len(t)
           /\ DOMAIN journal = 1 .. Len(journal) /\ DOMAIN t = 1 .. Len(t)
           /\ DOMAIN journal' = 1 .. (Len(journal) + Len(t))
           /\ \A i \in DOMAIN journal : i \in DOMAIN journal' /\ journal'[i] = journal[i]
           /\ \A k \in DOMAIN t :
                 /\ Len(journal) + k \in DOMAIN journal'
                 /\ journal'[Len(journal) + k] = t[k]
           /\ \A i \in DOMAIN journal' :
                 \/ i \in DOMAIN journal
                 \/ Len(journal) < i /\ i - Len(journal) \in DOMAIN t
                    /\ journal'[i] = t[i - Len(journal)]
<1> DEFINE V == Events \cup T
<1>1. journal \in Seq(V) /\ t \in Seq(V)
  BY SeqMonotonic DEF JournalTyped
<1> HIDE DEF V
<1>2. journal' \in Seq(V) /\ Len(journal') = Len(journal) + Len(t)
  BY <1>1, Appending DEF Adds
<1>3. /\ Len(journal) \in Nat /\ Len(t) \in Nat
      /\ DOMAIN journal = 1 .. Len(journal) /\ DOMAIN t = 1 .. Len(t)
      /\ DOMAIN journal' = 1 .. (Len(journal) + Len(t))
  BY <1>1, <1>2, LenProperties
<1>4. \A i \in DOMAIN journal : i \in DOMAIN journal' /\ journal'[i] = journal[i]
  BY <1>1, Appending DEF Adds
<1>5. ASSUME NEW k \in DOMAIN t
      PROVE  Len(journal) + k \in DOMAIN journal' /\ journal'[Len(journal) + k] = t[k]
  <2>1. /\ Len(journal) + k \in 1 .. (Len(journal) + Len(t))
        /\ ~(Len(journal) + k <= Len(journal)) /\ (Len(journal) + k) - Len(journal) = k
    BY <1>3
  <2> QED BY <1>1, <1>3, <2>1, ConcatProperties DEF Adds
<1>6. ASSUME NEW i \in DOMAIN journal'
      PROVE  \/ i \in DOMAIN journal
             \/ Len(journal) < i /\ i - Len(journal) \in DOMAIN t
                /\ journal'[i] = t[i - Len(journal)]
  BY <1>1, Positions DEF Adds
<1> QED BY <1>2, <1>3, <1>4, <1>5, <1>6

\* Steps that append nothing, one, two or three events.
LEMMA AddsNothing ==
    ASSUME JournalTyped, UNCHANGED journal
    PROVE  Adds(<<>>) /\ <<>> \in Seq(Events)
BY ConcatEmptySeq, EmptySeq DEF Adds, JournalTyped

LEMMA AddsOne ==
    ASSUME JournalTyped, NEW e, Append1(e)
    PROVE  Adds(<<e>>) /\ <<e>> \in Seq({e}) /\ DOMAIN <<e>> = {1} /\ <<e>>[1] = e
<1>1. journal' = journal \o <<e>>
  <2> DEFINE V == Events \cup {e}
  <2>1. journal \in Seq(V) /\ e \in V
    BY SeqMonotonic DEF JournalTyped
  <2> HIDE DEF V
  <2> QED BY <2>1, AppendIsConcat DEF Append1
<1>2. <<e>> \in Seq({e}) /\ DOMAIN <<e>> = {1} /\ <<e>>[1] = e
  OBVIOUS
<1> QED BY <1>1, <1>2 DEF Adds

(***************************************************************************)
(* The events of a node that came back: its records, then, in some order,  *)
(* a receipt, its unit if it made one, a question to a person, and the     *)
(* transition that closes it.                                              *)
(***************************************************************************)
UnitEvent(role) == Event("unit", node, role, NextId)
Came == Transition(node, "succeeded")

Shape(t, records, roles) ==
    /\ t \in Seq(Events)
    /\ \A k \in DOMAIN records : k \in DOMAIN t /\ t[k] = records[k]
    /\ \A k \in DOMAIN t \ DOMAIN records :
          \/ t[k].type \in {"receipt", "visible"}
          \/ \E r \in roles : t[k] = UnitEvent(r)
          \/ t[k] = Came
    /\ Len(t) \in DOMAIN t \ DOMAIN records /\ t[Len(t)] = Came
    /\ \A r \in roles : \E k \in DOMAIN t \ DOMAIN records :
          /\ t[k] = UnitEvent(r)
          /\ \A l \in DOMAIN t \ DOMAIN records : t[l].type = "unit" => l = k

LEMMA CommitAdds ==
    ASSUME TypeOK, JournalTyped, NEW records \in Seq(Quiet),
           NEW levels \in Seq(Levels), Len(levels) <= 1,
           NEW u, NEW units, NEW roles,
           \/ units = <<>> /\ roles = {}
           \/ units = <<u>> /\ roles = {u.role},
           u.role \in Roles, u.text \in Nat,
           NEW fs, NEW esc, Commit(records, levels, units, fs, esc)
    PROVE  \E t : Adds(t) /\ Shape(t, records, roles)
<1> DEFINE shown == [i \in DOMAIN units |-> Event("unit", node, units[i].role, NextId)]
           said  == IF units # <<>> /\ units[1].human
                    THEN <<Event("visible", node, "prompt", units[1].text)>> ELSE <<>>
           done  == <<Transition(node, "succeeded")>>
           cited == ReceiptEvents(levels)
<1>1. journal' = journal \o (records \o cited) \o ((shown \o said) \o done)
  BY DEF Commit
<1>2. node \in Nat /\ NextId \in Nat /\ NextReceipt \in Nat
  BY EventParts
<1>3. /\ cited \in Seq(Events)
      /\ \A k \in DOMAIN cited : cited[k].type = "receipt"
  <2>1. Event("receipt", node, "", NextReceipt) \in Events
    BY <1>2, EventTypes DEF Events, Quiets, Whats
  <2> QED BY <2>1, OneAgain DEF ReceiptEvents, Event
<1>4. /\ units # <<>> => units = <<u>> /\ units[1] = u /\ DOMAIN units = {1} /\ roles = {u.role}
      /\ units = <<>> => DOMAIN units = {} /\ roles = {}
  OBVIOUS
<1>5. UnitEvent(u.role) \in Events /\ UnitEvent(u.role).type = "unit"
  <2>1. u.role \in Whats
    BY DEF Whats
  <2> QED BY <1>2, <2>1, EventTypes DEF Events, UnitEvent, Event
<1>6. /\ shown = <<>> \/ (units # <<>> /\ shown = <<UnitEvent(u.role)>>)
      /\ units = <<>> => shown = <<>>
      /\ shown \in Seq(Events) /\ Len(shown) <= 1
  <2>1. CASE units = <<>>
    <3>1. shown = <<>>
      BY <2>1
    <3> HIDE DEF shown
    <3> QED BY <2>1, <3>1
  <2>2. CASE units # <<>>
    <3>1. shown = <<UnitEvent(u.role)>>
      BY <1>4, <2>2 DEF UnitEvent
    <3> HIDE DEF shown
    <3> QED BY <1>5, <2>2, <3>1
  <2> QED BY <2>1, <2>2
<1>7. said \in Seq(Events) /\ \A k \in DOMAIN said : said[k].type = "visible"
  <2>1. units # <<>> => Event("visible", node, "prompt", units[1].text) \in Events
    BY <1>2, <1>4, EventTypes DEF Events, Quiets, Whats
  <2>2. Event("visible", node, "prompt", units[1].text).type = "visible"
    BY DEF Event
  <2> QED BY <2>1, <2>2
<1>8. done = <<Came>> /\ Came \in Events /\ Came.type = "transition"
  <2>1. Transition(node, "succeeded") \in Events
    BY <1>2, EventTypes DEF Transition, Events, Quiets, Whats, Statuses
  <2> QED BY <2>1 DEF Came, Transition, Event
<1>9. records \in Seq(Events)
  BY Kinship
<1> HIDE DEF shown, said, done, cited
<1>10. done \in Seq(Events) /\ Len(done) = 1 /\ DOMAIN done = {1} /\ done[1] = Came
  BY <1>8
<1> DEFINE a == records \o cited
           b == shown \o said
           c == b \o done
<1>11. a \in Seq(Events) /\ b \in Seq(Events) /\ c \in Seq(Events) /\ a \o c \in Seq(Events)
  <2>1. a \in Seq(Events) /\ b \in Seq(Events)
    BY <1>3, <1>6, <1>7, <1>9, ConcatProperties
  <2> HIDE DEF a, b
  <2>2. c \in Seq(Events)
    BY <1>10, <2>1, ConcatProperties
  <2> HIDE DEF c
  <2> QED BY <2>1, <2>2, ConcatProperties
<1>12. Adds(a \o c)
  <2>1. journal \in Seq(Events) /\ a \in Seq(Events) /\ c \in Seq(Events)
    BY <1>11 DEF JournalTyped
  <2> HIDE DEF a, b, c
  <2>2. \A x, y, z \in Seq(Events) : x \o (y \o z) = (x \o y) \o z
    BY Regrouping
  <2>3. (journal \o a) \o c = journal \o (a \o c)
    BY <2>1, <2>2
  <2> QED BY <1>1, <2>3 DEF Adds, a, b, c
<1>13. \A k \in DOMAIN records : k \in DOMAIN a /\ a[k] = records[k]
  BY <1>3, <1>9, Appending
<1>14. \A k \in DOMAIN a : k \in DOMAIN records \/ a[k].type = "receipt"
  BY <1>3, <1>9, Positions
<1>15. /\ \A k \in DOMAIN b : \/ k \in DOMAIN shown /\ b[k] = shown[k]
                              \/ b[k].type = "visible"
       /\ \A k \in DOMAIN shown : k \in DOMAIN b /\ b[k] = shown[k]
  BY <1>6, <1>7, Positions, Appending
<1> HIDE DEF a, b
<1>16. /\ \A k \in DOMAIN c : \/ k \in DOMAIN b /\ c[k] = b[k]
                              \/ c[k] = Came
       /\ \A k \in DOMAIN b : k \in DOMAIN c /\ c[k] = b[k]
       /\ Len(c) \in DOMAIN c /\ c[Len(c)] = Came /\ Len(c) \in Nat
  <2>1. ASSUME NEW k \in DOMAIN c PROVE (k \in DOMAIN b /\ c[k] = b[k]) \/ c[k] = Came
    BY <1>10, <1>11, Positions
  <2>2. \A k \in DOMAIN b : k \in DOMAIN c /\ c[k] = b[k]
    BY <1>10, <1>11, Appending
  <2>3. c = Append(b, Came)
    BY <1>8, <1>11, AppendIsConcat
  <2>4. Len(b) \in Nat /\ Len(c) = Len(b) + 1 /\ c[Len(b) + 1] = Came /\ DOMAIN c = 1 .. Len(c)
    BY <1>8, <1>11, <2>3, AppendProperties, LenProperties
  <2> QED BY <2>1, <2>2, <2>4
<1>17. shown # <<>> => DOMAIN shown = {1} /\ shown[1] = UnitEvent(u.role) /\ units # <<>>
  BY <1>6
<1> HIDE DEF c
<1> DEFINE w == a \o c
<1>18. /\ \A k \in DOMAIN a : k \in DOMAIN w /\ w[k] = a[k]
       /\ \A k \in DOMAIN w : \/ k \in DOMAIN a /\ w[k] = a[k]
                              \/ k - Len(a) \in DOMAIN c /\ w[k] = c[k - Len(a)] /\ k \notin DOMAIN a
       /\ \A k \in DOMAIN c : /\ Len(a) + k \in DOMAIN w /\ w[Len(a) + k] = c[k]
                              /\ Len(a) + k \notin DOMAIN a
       /\ Len(w) = Len(a) + Len(c) /\ Len(a) \in Nat
  <2>1. DOMAIN a = 1 .. Len(a) /\ DOMAIN c = 1 .. Len(c) /\ Len(a) \in Nat /\ Len(c) \in Nat
        /\ Len(w) = Len(a) + Len(c) /\ DOMAIN w = 1 .. Len(w)
    BY <1>11, ConcatProperties, LenProperties
  <2>2. \A k \in DOMAIN a : k \in DOMAIN w /\ w[k] = a[k]
    BY <1>11, Appending
  <2>3. ASSUME NEW k \in DOMAIN w
        PROVE  \/ k \in DOMAIN a /\ w[k] = a[k]
               \/ k - Len(a) \in DOMAIN c /\ w[k] = c[k - Len(a)] /\ k \notin DOMAIN a
    BY <1>11, <2>1, Positions
  <2>4. ASSUME NEW k \in DOMAIN c
        PROVE  /\ Len(a) + k \in DOMAIN w /\ w[Len(a) + k] = c[k]
               /\ Len(a) + k \notin DOMAIN a
    <3>1. /\ Len(a) + k \in 1 .. (Len(a) + Len(c))
          /\ ~(Len(a) + k <= Len(a)) /\ (Len(a) + k) - Len(a) = k
      BY <2>1
    <3> QED BY <1>11, <2>1, <3>1, ConcatProperties
  <2> QED BY <2>1, <2>2, <2>3, <2>4
<1> HIDE DEF w
<1>19. \A k \in DOMAIN c : c[k].type = "unit" => k = 1 /\ c[1] = UnitEvent(u.role) /\ units # <<>>
  BY <1>8, <1>15, <1>16, <1>17
<1>20. \A k \in DOMAIN w \ DOMAIN records :
          \/ w[k].type \in {"receipt", "visible"}
          \/ units # <<>> /\ w[k] = UnitEvent(u.role)
          \/ w[k] = Came
  <2>1. \A k \in DOMAIN c :
           \/ c[k].type = "visible"
           \/ units # <<>> /\ c[k] = UnitEvent(u.role)
           \/ c[k] = Came
    BY <1>15, <1>16, <1>17
  <2>2. \A k \in DOMAIN w :
           \/ k \in DOMAIN a /\ w[k] = a[k]
           \/ k - Len(a) \in DOMAIN c /\ w[k] = c[k - Len(a)]
    BY <1>18
  <2> QED BY <1>14, <2>1, <2>2
<1>21. \A k \in DOMAIN c : Len(a) + k \in DOMAIN w \ DOMAIN records
  BY <1>13, <1>18
<1>22. ASSUME units # <<>>
       PROVE  \E k \in DOMAIN w \ DOMAIN records :
          /\ w[k] = UnitEvent(u.role)
          /\ \A l \in DOMAIN w \ DOMAIN records : w[l].type = "unit" => l = k
  <2>1. 1 \in DOMAIN c /\ c[1] = UnitEvent(u.role)
    <3>1. shown = <<UnitEvent(u.role)>>
      BY <1>4, <1>22 DEF shown, UnitEvent
    <3> QED BY <3>1, <1>15, <1>16
  <2>2. \A l \in DOMAIN w \ DOMAIN records : w[l].type = "unit" => l - Len(a) = 1 /\ l \in DOMAIN w
    BY <1>14, <1>18, <1>19
  <2>3. DOMAIN w \subseteq Nat
    BY <1>11, LenProperties DEF w
  <2>4. \A l \in DOMAIN w \ DOMAIN records : w[l].type = "unit" => l = Len(a) + 1
    BY <1>18, <2>2, <2>3
  <2> QED BY <1>18, <1>21, <2>1, <2>4
<1>23. Shape(w, records, roles)
  <2>1. \A k \in DOMAIN records : k \in DOMAIN w /\ w[k] = records[k]
    BY <1>13, <1>18
  <2>2. Len(w) \in DOMAIN w \ DOMAIN records /\ w[Len(w)] = Came
    BY <1>16, <1>18, <1>21
  <2>3. w \in Seq(Events)
    BY <1>11 DEF w
  <2>4. units # <<>> => roles = {u.role}
    BY <1>4
  <2>5. units = <<>> => roles = {}
    BY <1>4
  <2> QED BY <1>20, <1>22, <2>1, <2>2, <2>3, <2>4, <2>5 DEF Shape
<1>24. journal' = journal \o w
  BY <1>12 DEF Adds, w
<1> QED BY <1>23, <1>24 DEF Adds

\* The same for a node that made no unit, and for one that made one.
LEMMA NoUnitAdds ==
    ASSUME TypeOK, JournalInv, NEW records \in Seq(Quiet), NEW fs, NEW esc,
           Commit(records, <<>>, <<>>, fs, esc)
    PROVE  \E t : Adds(t) /\ Shape(t, records, {})
<1> DEFINE u == Unit("none", FALSE, {}, 0, FALSE)
<1>1. u.role \in Roles /\ u.text \in Nat
  BY DEF Unit, Roles
<1>2. <<>> \in Seq(Levels) /\ Len(<<>>) <= 1 /\ JournalTyped
  BY DEF JournalInv
<1> HIDE DEF u
<1> QED BY <1>1, <1>2, CommitAdds

LEMMA OneUnitAdds ==
    ASSUME TypeOK, JournalInv, NEW records \in Seq(Quiet), NEW level \in Levels,
           NEW role \in Roles, NEW human, NEW cites, NEW text \in Nat, NEW reviewed,
           NEW fs, NEW esc,
           \/ Commit(records, <<level>>, <<Unit(role, human, cites, text, reviewed)>>, fs, esc)
           \/ Commit(records, <<>>, <<Unit(role, human, cites, text, reviewed)>>, fs, esc)
    PROVE  \E t : Adds(t) /\ Shape(t, records, {role})
<1> DEFINE u == Unit(role, human, cites, text, reviewed)
<1>1. u.role \in Roles /\ u.text \in Nat /\ u.role = role
  BY DEF Unit
<1>2. /\ <<>> \in Seq(Levels) /\ Len(<<>>) <= 1 /\ JournalTyped
      /\ <<level>> \in Seq(Levels) /\ Len(<<level>>) <= 1
  BY DEF JournalInv
<1>3. Commit(records, <<level>>, <<u>>, fs, esc) \/ Commit(records, <<>>, <<u>>, fs, esc)
  OBVIOUS
<1> HIDE DEF u
<1> QED BY <1>1, <1>2, <1>3, CommitAdds

\* What each node that came back appends: its records and its unit.
Leaving(records, roles) == \E t : Adds(t) /\ Shape(t, records, roles)

Rejection == Append(CallRecords, Event("failure", node, "judged", LatestDraft))
ToolRecord(ok) ==
    <<Event("tool-call", node, IF ok THEN "ok" ELSE "is_error", CallArgument)>>

LEMMA NodesAdd ==
    ASSUME TypeOK, JournalInv
    PROVE  /\ Intake => Leaving(<<>>, {"none"})
           /\ Research \/ BelowFloor => Leaving(<<>>, {})
           /\ Respond => Leaving(<<>>, {"response"})
           /\ ModelReturns => Leaving(CallRecords, {plan.role[node]})
           /\ JudgePasses => Leaving(CallRecords, {"review"})
           /\ JudgeRevises => Leaving(Rejection, {"review-feedback"})
           /\ \A ok \in BOOLEAN : ToolReturns(ok) => Leaving(ToolRecord(ok), {"tool-result"})
           /\ Approve => Leaving(DecisionEvents("approved"), {})
<1> USE DEF Leaving
<1>0. /\ <<>> \in Seq(Quiet) /\ NextId \in Nat /\ RoleNames \subseteq Roles
      /\ {1, 2} \subseteq Levels
  BY EventParts DEF Roles, Levels
<1>1. ASSUME Intake PROVE Leaving(<<>>, {"none"})
  BY <1>0, <1>1, OneUnitAdds DEF Intake, Roles
<1>2. ASSUME Research \/ BelowFloor PROVE Leaving(<<>>, {})
  BY <1>0, <1>2, NoUnitAdds DEF Research, BelowFloor
<1>3. ASSUME Respond PROVE Leaving(<<>>, {"response"})
  <2>1. LatestDraft \in DOMAIN ledger
    BY <1>3, LatestIsUnit DEF Respond, LatestDraft
  <2>2. ledger[LatestDraft].text \in Nat
    <3>1. ledger[LatestDraft] \in UnitsCiting(DOMAIN receipts)
      BY <2>1 DEF TypeOK
    <3> QED BY <3>1 DEF UnitsCiting
  <2>3. "response" \in Roles /\ 1 \in Levels
    BY <1>0 DEF Roles, RoleNames
  <2>4. Commit(<<>>, <<>>, <<Unit("response", FALSE, ledger[LatestDraft].cites,
                                  ledger[LatestDraft].text, Reviewed)>>,
               [done |-> "true"], FALSE)
    BY <1>3 DEF Respond
  <2> QED BY <1>0, <2>2, <2>3, <2>4, OneUnitAdds
<1>4. ASSUME ModelReturns PROVE Leaving(CallRecords, {plan.role[node]})
  <2>1. node \in NodesOf(plan) /\ node # 0
    BY <1>4 DEF ModelReturns, Calling, TypeOK
  <2>2. plan.role[node] \in Roles
    BY <1>0, <2>1, PlanTypes DEF PlanTyped
  <2>3. CallRecords \in Seq(Quiet)
    BY <2>1, CallsAreQuiet
  <2>4. Commit(CallRecords, <<1>>,
               <<Unit(plan.role[node], FALSE,
                      {NextReceipt} \cup UNION {ledger[i].cites : i \in Consumed},
                      NextId, FALSE)>>,
               [drafted |-> "true"], FALSE)
    BY <1>4 DEF ModelReturns
  <2> QED BY <1>0, <2>2, <2>3, <2>4, OneUnitAdds
<1>5. ASSUME JudgePasses PROVE Leaving(CallRecords, {"review"})
  <2>1. node # 0
    BY <1>5 DEF JudgePasses, Calling, TypeOK
  <2>2. CallRecords \in Seq(Quiet) /\ "review" \in Roles
    BY <1>0, <2>1, CallsAreQuiet DEF RoleNames
  <2>3. Commit(CallRecords, <<1>>, <<Unit("review", FALSE, {NextReceipt}, NextId, FALSE)>>,
               [verdict |-> "pass"], FALSE)
    BY <1>5 DEF JudgePasses
  <2> QED BY <1>0, <2>2, <2>3, OneUnitAdds
<1>6. ASSUME JudgeRevises PROVE Leaving(Rejection, {"review-feedback"})
  <2>1. node # 0
    BY <1>6 DEF JudgeRevises, Calling, TypeOK
  <2>2. Rejection \in Seq(Quiet) /\ "review-feedback" \in Roles
    BY <1>0, <2>1, CallsAreQuiet DEF RoleNames, Rejection
  <2>3. Commit(Rejection, <<1>>,
               <<Unit("review-feedback", FALSE, {NextReceipt}, NextId, FALSE)>>,
               [verdict |-> "revise"], TRUE)
    BY <1>6 DEF JudgeRevises, Rejection
  <2> QED BY <1>0, <2>2, <2>3, OneUnitAdds
<1>7. ASSUME NEW ok \in BOOLEAN, ToolReturns(ok)
      PROVE  Leaving(ToolRecord(ok), {"tool-result"})
  <2>1. node # 0 /\ node \in NodesOf(plan)
    BY <1>7 DEF ToolReturns, Calling, TypeOK
  <2> DEFINE fs == [f \in {"invoked", "tool.ok"} |->
                       IF f = "tool.ok" /\ ~ok THEN "false" ELSE "true"]
  <2>2. ToolRecord(ok) \in Seq(Quiet) /\ "tool-result" \in Roles /\ plan.level[node] \in Levels
    BY <1>0, <2>1, CallsAreQuiet, PlanTypes DEF RoleNames, PlanTyped, ToolRecord
  <2>3. Commit(ToolRecord(ok), <<plan.level[node]>>,
               <<Unit("tool-result", FALSE, {NextReceipt}, NextId, FALSE)>>, fs, FALSE)
    BY <1>7 DEF ToolReturns, ToolRecord
  <2> HIDE DEF fs
  <2> QED BY <1>0, <2>2, <2>3, OneUnitAdds
<1>8. ASSUME Approve PROVE Leaving(DecisionEvents("approved"), {})
  <2>1. node \in Nat /\ Shown \in Nat
    BY EventParts
  <2>2. DecisionEvents("approved") \in Seq(Quiet)
    BY <2>1, DecisionsAreQuiet
  <2> QED BY <1>8, <2>2, NoUnitAdds DEF Approve
<1> HIDE DEF Leaving
<1> QED BY <1>1, <1>2, <1>3, <1>4, <1>5, <1>6, <1>7, <1>8

\* The records, by position.
LEMMA RecordsAre ==
    /\ CallRecords[1].type = "routing" /\ CallRecords[2].type = "model-call"
    /\ Rejection[3].type = "failure"
    /\ DOMAIN CallRecords = {1, 2}
    /\ CallRecords[1] = Event("routing", node, "", escalations[node])
    /\ CallRecords[2] = Event("model-call", node, "", Tier(node))
    /\ DOMAIN Rejection = {1, 2, 3}
    /\ Rejection[1] = CallRecords[1] /\ Rejection[2] = CallRecords[2]
    /\ Rejection[3] = Event("failure", node, "judged", LatestDraft)
    /\ \A ok : DOMAIN ToolRecord(ok) = {1} /\ ToolRecord(ok)[1].type = "tool-call"
    /\ \/ plan.kind[node] = "tool.invoke" /\ DOMAIN FailureRecords = {1}
          /\ FailureRecords[1].type = "tool-call"
       \/ plan.kind[node] # "tool.invoke" /\ FailureRecords = <<>>
<1> DEFINE e1 == Event("routing", node, "", escalations[node])
           e2 == Event("model-call", node, "", Tier(node))
           e3 == Event("failure", node, "judged", LatestDraft)
<1>1. CallRecords = <<e1, e2>> /\ Rejection = Append(<<e1, e2>>, e3)
  BY DEF CallRecords, Rejection
<1>2. /\ \A ok : DOMAIN ToolRecord(ok) = {1} /\ ToolRecord(ok)[1].type = "tool-call"
      /\ \/ plan.kind[node] = "tool.invoke" /\ DOMAIN FailureRecords = {1}
            /\ FailureRecords[1].type = "tool-call"
         \/ plan.kind[node] # "tool.invoke" /\ FailureRecords = <<>>
  BY DEF ToolRecord, FailureRecords, Event
<1>0. e1.type = "routing" /\ e2.type = "model-call" /\ e3.type = "failure"
  BY DEF Event
<1> HIDE DEF e1, e2, e3
<1>3. /\ DOMAIN <<e1, e2>> = {1, 2} /\ <<e1, e2>>[1] = e1 /\ <<e1, e2>>[2] = e2
      /\ Append(<<e1, e2>>, e3) = <<e1, e2, e3>>
      /\ DOMAIN <<e1, e2, e3>> = {1, 2, 3} /\ <<e1, e2, e3>>[1] = e1
      /\ <<e1, e2, e3>>[2] = e2 /\ <<e1, e2, e3>>[3] = e3
  BY Triple
<1> QED BY <1>0, <1>1, <1>2, <1>3 DEF e1, e2, e3

\* What a decision leaves: questions, answers and one approval record.
Decisions == EventsOf({"visible", "unknown", "approval"})

LEMMA DecisionsAre ==
    ASSUME TypeOK, NEW decision
    PROVE  DecisionEvents(decision) \in Seq(Decisions)
<1> DEFINE answered == plan.human /\ decision # "abandoned"
           question == IF plan.human
                       THEN <<Event(IF answered THEN "visible" ELSE "unknown",
                                    node, "approval_question", Shown)>> ELSE <<>>
           record   == <<Event("approval", node, IF decision = "approved"
                               THEN "approved" ELSE "rejected", Shown)>>
           reply    == IF answered
                       THEN <<Event("visible", node, "approval_decision", 0)>> ELSE <<>>
<1>1. /\ Event("visible", node, "approval_question", Shown) \in Decisions
      /\ Event("unknown", node, "approval_question", Shown) \in Decisions
      /\ Event("approval", node, "approved", Shown) \in Decisions
      /\ Event("approval", node, "rejected", Shown) \in Decisions
      /\ Event("visible", node, "approval_decision", 0) \in Decisions
  BY EventParts, EventTypes DEF Decisions, Whats
<1>2. question \in Seq(Decisions) /\ record \in Seq(Decisions) /\ reply \in Seq(Decisions)
  BY <1>1
<1>3. DecisionEvents(decision) = question \o record \o reply
  BY DEF DecisionEvents
<1> HIDE DEF question, record, reply
<1>4. question \o record \in Seq(Decisions)
  BY <1>2, ConcatProperties
<1> QED BY <1>2, <1>3, <1>4, ConcatProperties

\* What a run that leaves with the error of node n appends: the records of the
\* failed call, then the failed transition and the end of the journal.
Failing(t, n, records) ==
    /\ t \in Seq(Events)
    /\ \A k \in DOMAIN records : k \in DOMAIN t /\ t[k] = records[k]
    /\ \A k \in DOMAIN t \ DOMAIN records :
          t[k] = Transition(n, "failed") \/ t[k] = Finished("failed")
    /\ \E k \in DOMAIN t \ DOMAIN records : t[k] = Transition(n, "failed")

LEMMA FailsAdds ==
    ASSUME JournalTyped, NEW n \in Nat, NEW records \in Seq(Quiet), Fails(n, records)
    PROVE  \E t : Adds(t) /\ Failing(t, n, records)
<1> DEFINE f == Transition(n, "failed")
           g == Finished("failed")
           s == Append(records, f)
           t == Append(s, g)
<1>1. Adds(t)
  BY DEF Adds, Fails
<1>2. f \in Events /\ g \in Events /\ records \in Seq(Events)
  <2>1. f \in Events /\ g \in Events
    BY EventTypes DEF Transition, Finished, Events, Quiets, Whats, Statuses
  <2> HIDE DEF f, g
  <2> QED BY <2>1, Kinship
<1> HIDE DEF f, g
<1>3. /\ s \in Seq(Events) /\ Len(s) = Len(records) + 1 /\ s[Len(records) + 1] = f
      /\ \A k \in 1 .. Len(records) : s[k] = records[k]
      /\ Len(records) \in Nat /\ DOMAIN records = 1 .. Len(records)
  BY <1>2, AppendProperties, LenProperties
<1> HIDE DEF s
<1>4. /\ t \in Seq(Events) /\ Len(t) = Len(s) + 1 /\ t[Len(s) + 1] = g
      /\ \A k \in 1 .. Len(s) : t[k] = s[k]
      /\ DOMAIN t = 1 .. Len(t)
  BY <1>2, <1>3, AppendProperties, LenProperties
<1> HIDE DEF t
<1>5. \A k \in DOMAIN records : k \in DOMAIN t /\ t[k] = records[k]
  BY <1>3, <1>4
<1>6. \A k \in DOMAIN t \ DOMAIN records : t[k] = f \/ t[k] = g
  <2>1. \A k \in DOMAIN t \ DOMAIN records : k = Len(records) + 1 \/ k = Len(records) + 2
    BY <1>3, <1>4
  <2>2. t[Len(records) + 1] = f /\ t[Len(records) + 2] = g
    BY <1>3, <1>4
  <2> QED BY <2>1, <2>2
<1>7. Len(records) + 1 \in DOMAIN t \ DOMAIN records /\ t[Len(records) + 1] = f
  BY <1>3, <1>4
<1>8. Failing(t, n, records)
  BY <1>4, <1>5, <1>6, <1>7 DEF Failing, f, g
<1> QED BY <1>1, <1>8

\* What a refusal appends: the decision, then the transition that closes the
\* node.
Refusing(t) ==
    /\ t \in Seq(Events)
    /\ Len(t) \in DOMAIN t /\ t[Len(t)] = Transition(node, "cancelled")
    /\ \A k \in DOMAIN t :
          t[k].type \in {"visible", "unknown", "approval"} \/ t[k] = Transition(node, "cancelled")

LEMMA RefuseAdds ==
    ASSUME TypeOK, JournalTyped, NEW decision, NEW status, Refuse(decision, status)
    PROVE  \E t : Adds(t) /\ Refusing(t)
<1> DEFINE d == DecisionEvents(decision)
           f == Transition(node, "cancelled")
           t == d \o <<f>>
<1>1. d \in Seq(Events) /\ \A k \in DOMAIN d : d[k].type \in {"visible", "unknown", "approval"}
  <2>1. d \in Seq(Decisions)
    BY DecisionsAre
  <2>2. Decisions \subseteq Events /\ \A e \in Decisions : e.type \in {"visible", "unknown", "approval"}
    BY DEF Decisions, Events, EventsOf, Quiets
  <2> HIDE DEF d
  <2> QED BY <2>1, <2>2, SeqMonotonic, ElementOfSeq, LenProperties
<1>2. f \in Events
  BY EventParts, EventTypes DEF Transition, Events, Quiets, Whats, Statuses
<1>3. journal' = (journal \o d) \o <<f>>
  BY DEF Refuse
<1> HIDE DEF d, f
<1>4. <<f>> \in Seq(Events) /\ t \in Seq(Events) /\ t = Append(d, f)
  BY <1>1, <1>2, ConcatProperties, AppendIsConcat
<1>5. journal' = journal \o t
  <2>1. journal \in Seq(Events)
    BY DEF JournalTyped
  <2>2. \A x, y, z \in Seq(Events) : x \o (y \o z) = (x \o y) \o z
    BY Regrouping
  <2> QED BY <1>1, <1>3, <1>4, <2>1, <2>2
<1> HIDE DEF t
<1>6. /\ Len(t) = Len(d) + 1 /\ t[Len(d) + 1] = f /\ \A k \in 1 .. Len(d) : t[k] = d[k]
      /\ Len(d) \in Nat /\ DOMAIN d = 1 .. Len(d) /\ DOMAIN t = 1 .. Len(t)
  BY <1>1, <1>2, <1>4, AppendProperties, LenProperties
<1>7. Len(t) \in DOMAIN t /\ t[Len(t)] = f
  BY <1>6
<1>8. \A k \in DOMAIN t : t[k].type \in {"visible", "unknown", "approval"} \/ t[k] = f
  <2>1. \A k \in DOMAIN t : (k \in DOMAIN d /\ t[k] = d[k]) \/ t[k] = f
    BY <1>6
  <2> QED BY <1>1, <2>1
<1> QED BY <1>4, <1>5, <1>7, <1>8 DEF Refusing, Adds, f

\* What the end of the run appends: at most one release, which is first, the
\* repairs and the end.
Closing(t) ==
    /\ t \in Seq(Events)
    /\ \A k \in DOMAIN t :
          \/ k = 1 /\ Status = "succeeded" /\ pending # <<>>
             /\ t[k] = Event("released", 0, pending[2], pending[1])
          \/ t[k].type \in {"repair", "finished"}
    /\ Status = "succeeded" /\ pending # <<>> =>
          1 \in DOMAIN t /\ t[1] = Event("released", 0, pending[2], pending[1])

LEMMA CloseAdds ==
    ASSUME TypeOK, JournalTyped, Close
    PROVE  \E t : Adds(t) /\ Closing(t)
<1> DEFINE g == Finished(Status)
           t == (Release \o Repairs) \o <<g>>
<1>1. journal' = journal \o t
  BY DEF Close
<1>2. g \in Events /\ g.type = "finished"
  <2>1. Status \in Whats
    BY DEF Status, Statuses, Whats, TypeOK
  <2>2. g = Event("finished", 0, Status, 0)
    BY DEF Finished
  <2>3. Event("finished", 0, Status, 0) \in EventsOf(Quiets \cup {"unit", "finished", "released"})
    BY <2>1, EventTypes
  <2> QED BY <2>2, <2>3 DEF Event, Events
<1>3. /\ Release \in Seq(Events)
      /\ Status = "succeeded" /\ pending # <<>> =>
            DOMAIN Release = {1} /\ Release[1] = Event("released", 0, pending[2], pending[1])
      /\ ~(Status = "succeeded" /\ pending # <<>>) => DOMAIN Release = {}
  <2>1. CASE Status = "succeeded" /\ pending # <<>>
    <3>1. Release = <<Event("released", 0, pending[2], pending[1])>>
      BY <2>1 DEF Release
    <3>2. pending[2] \in Whats /\ pending[1] \in Nat
      <4>1. pending \in Nat \X {"verified_response", "response"}
        BY <2>1 DEF JournalTyped
      <4>2. {"verified_response", "response"} \subseteq Whats
        BY DEF Whats, Roles, RoleNames
      <4> QED BY <4>1, <4>2
    <3>3. Event("released", 0, pending[2], pending[1]) \in Events
      BY <3>2, EventTypes DEF Events
    <3> QED BY <2>1, <3>1, <3>3
  <2>2. CASE ~(Status = "succeeded" /\ pending # <<>>)
    <3>1. Release = <<>>
      BY <2>2 DEF Release
    <3> QED BY <2>2, <3>1
  <2> QED BY <2>1, <2>2
<1>4. Repairs \in Seq(Events) /\ \A k \in DOMAIN Repairs : Repairs[k].type = "repair"
  <2>1. \A k \in 1 .. plan.feedback :
           LET e == Event("repair", 0, IF Status = "succeeded" THEN "successful" ELSE "unsuccessful", k)
           IN  e \in Events /\ e.type = "repair"
    <3>1. \A k \in 1 .. plan.feedback : k \in Nat
      BY PlanTypes DEF PlanTyped
    <3>2. \A k \in Nat : /\ Event("repair", 0, "successful", k) \in Events
                         /\ Event("repair", 0, "unsuccessful", k) \in Events
                         /\ Event("repair", 0, "successful", k).type = "repair"
                         /\ Event("repair", 0, "unsuccessful", k).type = "repair"
      <4>1. "successful" \in Whats /\ "unsuccessful" \in Whats /\ "repair" \in Quiets
        BY DEF Whats, Quiets
      <4> QED BY <4>1, EventTypes DEF Events, Event
    <3> QED BY <3>1, <3>2
  <2>2. plan.feedback \in Nat
    BY PlanTypes DEF PlanTyped
  <2> QED BY <2>1, <2>2 DEF Repairs
<1> HIDE DEF g
<1> DEFINE a == Release \o Repairs
<1>5. a \in Seq(Events) /\ <<g>> \in Seq(Events) /\ t \in Seq(Events)
  <2>1. a \in Seq(Events) /\ <<g>> \in Seq(Events)
    <3>1. a \in Seq(Events)
      <4> HIDE DEF t
      <4> QED BY <1>3, <1>4, ConcatProperties
    <3>2. <<g>> \in Seq(Events)
      BY <1>2
    <3> QED BY <3>1, <3>2
  <2>2. t = a \o <<g>>
    OBVIOUS
  <2> HIDE DEF a, t
  <2> QED BY <2>1, <2>2, ConcatProperties
<1>6. \A k \in DOMAIN a : \/ k \in DOMAIN Release /\ a[k] = Release[k]
                          \/ a[k].type = "repair"
  BY <1>3, <1>4, Positions
<1>7. \A k \in DOMAIN Release : k \in DOMAIN a /\ a[k] = Release[k]
  BY <1>3, <1>4, Appending
<1> HIDE DEF a
<1>8. \A k \in DOMAIN t : (k \in DOMAIN a /\ t[k] = a[k]) \/ t[k] = g
  <2>1. t = a \o <<g>>
    BY DEF a
  <2>2. DOMAIN <<g>> = {1} /\ <<g>>[1] = g
    OBVIOUS
  <2>3. t \in Seq(Events)
    BY <1>5
  <2> HIDE DEF t
  <2> QED BY <1>5, <2>1, <2>2, <2>3, Positions
<1>9. \A k \in DOMAIN a : k \in DOMAIN t /\ t[k] = a[k]
  <2>1. t = a \o <<g>>
    BY DEF a
  <2> HIDE DEF t
  <2> QED BY <1>5, <2>1, Appending
<1> HIDE DEF t
<1>10. Closing(t)
  <2>1. ASSUME NEW k \in DOMAIN t
        PROVE \/ k = 1 /\ Status = "succeeded" /\ pending # <<>>
                 /\ t[k] = Event("released", 0, pending[2], pending[1])
              \/ t[k].type \in {"repair", "finished"}
    <3>1. CASE t[k] = g
      BY <1>2, <3>1
    <3>2. CASE k \in DOMAIN a /\ t[k] = a[k]
      <4>1. CASE a[k].type = "repair"
        BY <3>2, <4>1
      <4>2. CASE k \in DOMAIN Release /\ a[k] = Release[k]
        BY <1>3, <3>2, <4>2
      <4> QED BY <1>6, <3>2, <4>1, <4>2
    <3> QED BY <1>8, <3>1, <3>2
  <2>2. ASSUME Status = "succeeded" /\ pending # <<>>
        PROVE  1 \in DOMAIN t /\ t[1] = Event("released", 0, pending[2], pending[1])
    BY <1>3, <1>7, <1>9, <2>2
  <2> QED BY <1>5, <2>1, <2>2 DEF Closing
<1> QED BY <1>1, <1>10 DEF Adds

\* What opening the journal appends: the start, then the carried units in
\* order.
Opening(t) ==
    /\ t \in Seq(Events) /\ DOMAIN t = 1 .. Len(CarriedUnits) + 1
    /\ t[1].type = "started"
    /\ \A k \in DOMAIN t \ {1} :
          /\ k - 1 \in DOMAIN CarriedUnits
          /\ t[k] = Event("unit", 0, CarriedUnits[k - 1].role, k - 1)

LEMMA OpenAdds ==
    ASSUME TypeOK, JournalInv, Open
    PROVE  \E t : Adds(t) /\ Opening(t)
<1> DEFINE n == plan.feedback + plan.history
           e == Event("started", 0, "", 0)
           b == [i \in 1 .. n |-> Event("unit", 0, CarriedUnits[i].role, i)]
<1>1. n \in Nat
  BY PlanTypes DEF PlanTyped
<1>2. journal = <<>> /\ journal' = <<e>> \o b
  BY DEF Open, JournalInv, Unended
<1>3. /\ Len(CarriedUnits) = n /\ DOMAIN CarriedUnits = 1 .. n
      /\ \A i \in 1 .. n : CarriedUnits[i].role \in Whats
  <2>1. CarriedUnits \in [1 .. n -> UnitsCiting({})]
    BY PlanTypes DEF CarriedUnits, Unit, UnitsCiting, Roles, RoleNames, PlanTyped
  <2>2. Roles \subseteq Whats
    BY DEF Whats
  <2> HIDE DEF n
  <2>3. \A i \in 1 .. n : CarriedUnits[i].role \in Roles
    BY <2>1 DEF UnitsCiting
  <2>4. CarriedUnits \in Seq(UnitsCiting({}))
    BY <1>1, <2>1
  <2>5. Len(CarriedUnits) = n
    BY <1>1, <2>1, <2>4, LenProperties
  <2> QED BY <2>1, <2>2, <2>3, <2>5
<1> HIDE DEF n
<1>4. e \in Events /\ e.type = "started"
  <2>1. "started" \in Quiets /\ "" \in Whats
    BY DEF Quiets, Whats
  <2> QED BY <2>1, EventTypes DEF Events, Event
<1> HIDE DEF e
<1>5. <<e>> \in Seq(Events) /\ DOMAIN <<e>> = {1} /\ <<e>>[1] = e /\ Len(<<e>>) = 1
  BY <1>4
<1>6. \A k \in 1 .. n : b[k] = Event("unit", 0, CarriedUnits[k].role, k)
  OBVIOUS
<1>7. b \in Seq(Events) /\ DOMAIN b = 1 .. n /\ Len(b) = n
  <2>1. ASSUME NEW i \in 1 .. n PROVE Event("unit", 0, CarriedUnits[i].role, i) \in Events
    <3>1. CarriedUnits[i].role \in Whats /\ i \in Nat
      BY <1>3
    <3> QED BY <3>1, EventTypes DEF Events
  <2> QED BY <1>1, <2>1
<1> HIDE DEF b
<1> DEFINE a == <<e>>
<1>8. a \in Seq(Events) /\ DOMAIN a = {1} /\ a[1] = e /\ Len(a) = 1 /\ journal' = a \o b
  BY <1>2, <1>5
<1> HIDE DEF a
<1> DEFINE t == a \o b
<1>9. t \in Seq(Events) /\ Len(t) = n + 1 /\ DOMAIN t = 1 .. n + 1
  <2>1. t \in Seq(Events) /\ Len(t) = Len(a) + Len(b)
    BY <1>7, <1>8, ConcatProperties
  <2> HIDE DEF t
  <2> QED BY <1>1, <1>7, <1>8, <2>1, LenProperties
<1>10. t[1] = e
  BY <1>7, <1>8, Appending
<1>11. ASSUME NEW k \in DOMAIN t \ {1}
       PROVE  k - 1 \in DOMAIN CarriedUnits
              /\ t[k] = Event("unit", 0, CarriedUnits[k - 1].role, k - 1)
  <2>1. k - 1 \in DOMAIN b /\ t[k] = b[k - 1]
    <3>1. k - Len(a) \in DOMAIN b /\ t[k] = b[k - Len(a)]
      BY <1>7, <1>8, Positions
    <3> QED BY <1>8, <3>1
  <2> QED BY <1>3, <1>6, <1>7, <2>1
<1>12. Adds(t)
  <2>1. journal' = t
    BY <1>8
  <2> HIDE DEF t
  <2> QED BY <1>2, <1>9, <2>1, ConcatEmptySeq DEF Adds
<1> HIDE DEF t
<1> QED BY <1>3, <1>4, <1>9, <1>10, <1>11, <1>12 DEF Opening

\* What every other step appends.
LEMMA StepsAdd ==
    ASSUME TypeOK, JournalInv
    PROVE  /\ RunNode => node' \in NodesOf(plan) /\ Adds(<<Transition(node', "running")>>)
           /\ UnknownKind => /\ node' \in NodesOf(plan)
                             /\ \E t : Adds(t) /\ Failing(t, node', <<Transition(node', "running")>>)
           /\ StopAtVisitCap =>
                 Adds(<<Transition(node', "skipped"), Event("failure", node', "exhaustion", 0)>>)
           /\ Stopped \/ NoRoomForPrompt => Adds(<<Transition(node, "cancelled")>>)
           /\ NothingToWorkOn => \E t : Adds(t) /\ Failing(t, node, <<>>)
           /\ CallFails => \E t : Adds(t) /\ Failing(t, node, FailureRecords)
           /\ AskApproval =>
                 Adds(<<Transition(node, "awaiting"), Event("approval", node, "pending", Shown)>>)
           /\ Silence \/ Decline => \E t : Adds(t) /\ Refusing(t)
           /\ Settle => Adds(<<>>) \/ Adds(<<Event("budget", node, "", 0)>>)
           /\ \/ RefuseToCompile \/ StopAtCap \/ Call \/ FollowEdge \/ PassOverEdge \/ BadGuard
              \/ Environment \/ UNCHANGED vars
              => Adds(<<>>)
<1>0. JournalTyped /\ node \in Nat /\ NodesOf(plan) \subseteq Nat
  BY EventParts, PlanTypes DEF JournalInv, TypeOK
<1>1. \A e : Append1(e) => Adds(<<e>>)
  BY <1>0, AddsOne
<1>2. UNCHANGED journal => Adds(<<>>)
  BY <1>0, AddsNothing
<1>3. ASSUME NEW n \in Nat, NEW records \in Seq(Quiet), Fails(n, records)
      PROVE  \E t : Adds(t) /\ Failing(t, n, records)
  BY <1>0, <1>3, FailsAdds
<1>4. ASSUME RunNode
      PROVE  node' \in NodesOf(plan) /\ Adds(<<Transition(node', "running")>>)
  <2>1. PICK n \in NodesOf(plan) : Visit(n) /\ Append1(Transition(n, "running"))
    BY <1>4 DEF RunNode
  <2>2. node' = n
    BY <2>1 DEF Visit, Pop
  <2> QED BY <1>1, <2>1, <2>2
<1>5. ASSUME UnknownKind
      PROVE  /\ node' \in NodesOf(plan)
             /\ \E t : Adds(t) /\ Failing(t, node', <<Transition(node', "running")>>)
  <2>1. PICK n \in NodesOf(plan) : Visit(n) /\ Fails(n, <<Transition(n, "running")>>)
    BY <1>5 DEF UnknownKind
  <2>2. node' = n /\ n \in Nat
    BY <1>0, <2>1 DEF Visit, Pop
  <2>3. <<Transition(n, "running")>> \in Seq(Quiet)
    <3>1. "running" \in Whats /\ "transition" \in Quiets
      BY DEF Whats, Quiets
    <3>2. Transition(n, "running") \in Quiet
      BY <2>2, <3>1, EventTypes DEF Quiet, Transition
    <3> QED BY <3>2
  <2>4. \E t : Adds(t) /\ Failing(t, n, <<Transition(n, "running")>>)
    BY <1>3, <2>1, <2>2, <2>3
  <2> QED BY <2>1, <2>2, <2>4
<1>6. ASSUME StopAtVisitCap
      PROVE  Adds(<<Transition(node', "skipped"), Event("failure", node', "exhaustion", 0)>>)
  <2>1. PICK n \in NodesOf(plan) :
               /\ Visit(n)
               /\ journal' = journal \o <<Transition(n, "skipped"),
                                          Event("failure", n, "exhaustion", 0)>>
    BY <1>6 DEF StopAtVisitCap
  <2>2. node' = n
    BY <2>1 DEF Visit, Pop
  <2> QED BY <2>1, <2>2 DEF Adds
<1>7. ASSUME Stopped \/ NoRoomForPrompt PROVE Adds(<<Transition(node, "cancelled")>>)
  BY <1>1, <1>7 DEF Stopped, NoRoomForPrompt
<1>8. ASSUME NothingToWorkOn PROVE \E t : Adds(t) /\ Failing(t, node, <<>>)
  <2>1. <<>> \in Seq(Quiet) /\ Fails(node, <<>>)
    BY <1>8 DEF NothingToWorkOn, NodeError
  <2> QED BY <1>0, <1>3, <2>1
<1>9. ASSUME CallFails PROVE \E t : Adds(t) /\ Failing(t, node, FailureRecords)
  <2>1. FailureRecords \in Seq(Quiet)
    BY <1>9, CallsAreQuiet DEF CallFails, Calling, TypeOK
  <2>2. Fails(node, FailureRecords)
    BY <1>9 DEF CallFails, NodeError
  <2> QED BY <1>0, <1>3, <2>1, <2>2
<1>10. ASSUME AskApproval
       PROVE  Adds(<<Transition(node, "awaiting"), Event("approval", node, "pending", Shown)>>)
  BY <1>10 DEF AskApproval, Adds
<1>11. ASSUME Silence \/ Decline PROVE \E t : Adds(t) /\ Refusing(t)
  <2>1. PICK decision, status : Refuse(decision, status)
    BY <1>11 DEF Silence, Decline
  <2> QED BY <1>0, <2>1, RefuseAdds
<1>12. ASSUME Settle PROVE Adds(<<>>) \/ Adds(<<Event("budget", node, "", 0)>>)
  <2>1. Append1(Event("budget", node, "", 0)) \/ UNCHANGED journal
    BY <1>12 DEF Settle
  <2> QED BY <1>1, <1>2, <2>1
<1>13. ASSUME \/ RefuseToCompile \/ StopAtCap \/ Call \/ FollowEdge \/ PassOverEdge \/ BadGuard
              \/ Environment \/ UNCHANGED vars
       PROVE  Adds(<<>>)
  <2>1. UNCHANGED journal
    BY <1>13 DEF RefuseToCompile, StopAtCap, Call, FollowEdge, PassOverEdge, BadGuard,
         Environment, Cancel, Expire, vars
  <2> QED BY <1>2, <2>1
<1> QED BY <1>4, <1>5, <1>6, <1>7, <1>8, <1>9, <1>10, <1>11, <1>12, <1>13

-----------------------------------------------------------------------------
(* Every run of a node is closed. *)

Started == LoggedAt("transition", "running")
Executing == pc \in {"running", "calling", "awaiting"}

(***************************************************************************)
(* Inductive invariant: each run of a node is closed before the next one   *)
(* starts; while a node executes the newest run in the journal is its own  *)
(* and still open, and otherwise that one is closed too.                   *)
(***************************************************************************)
OpenRun(r) ==
    /\ r \in Started /\ journal[r].at = node
    /\ \A i \in Started : i <= r
    /\ \A k \in DOMAIN journal : r < k => ~Closes(r, k)

BracketInv ==
    /\ \A i, j \in Started : i < j => \E k \in i + 1 .. j - 1 : Closes(i, k)
    /\ Executing => \E r \in Started : OpenRun(r)
    /\ ~Executing => \A i \in Started : \E k \in DOMAIN journal : i < k /\ Closes(i, k)

Starts(e) == e.type = "transition" /\ e.what = "running"
Ends(e) == e.type = "transition" /\ e.what \in {"succeeded", "failed", "cancelled"}

\* The four things a step can do about runs of nodes.
Idles(t) ==
    /\ \A k \in DOMAIN t : ~Starts(t[k]) /\ ~Ends(t[k])
    /\ Executing' <=> Executing
    /\ Executing => node' = node

Opens(t) ==
    /\ ~Executing /\ Executing'
    /\ DOMAIN t = {1} /\ Starts(t[1]) /\ t[1].at = node'

Shuts(t) ==
    /\ Executing /\ ~Executing'
    /\ \A k \in DOMAIN t : ~Starts(t[k])
    /\ \E k \in DOMAIN t : Ends(t[k]) /\ t[k].at = node

Flashes(t) ==
    /\ ~Executing /\ ~Executing'
    /\ 1 \in DOMAIN t /\ Starts(t[1])
    /\ \A k \in DOMAIN t \ {1} : ~Starts(t[k])
    /\ \E k \in DOMAIN t \ {1} : Ends(t[k]) /\ t[k].at = t[1].at

Brackets(t) == Idles(t) \/ Opens(t) \/ Shuts(t) \/ Flashes(t)

LEMMA Marks ==
    /\ \A n : /\ Starts(Transition(n, "running")) /\ ~Ends(Transition(n, "running"))
              /\ Transition(n, "running").at = n
    /\ \A n : \A state \in {"succeeded", "failed", "cancelled"} :
              /\ Ends(Transition(n, state)) /\ ~Starts(Transition(n, state))
              /\ Transition(n, state).at = n
    /\ \A n : \A state \in {"awaiting", "skipped"} :
              ~Ends(Transition(n, state)) /\ ~Starts(Transition(n, state))
    /\ \A e : e.type # "transition" => ~Starts(e) /\ ~Ends(e)
    /\ \A type, n, what, ref : type # "transition" =>
              ~Starts(Event(type, n, what, ref)) /\ ~Ends(Event(type, n, what, ref))
    /\ \A status : ~Starts(Finished(status)) /\ ~Ends(Finished(status))
BY DEF Starts, Ends, Transition, Event, Finished

\* No record of a call or a decision is a transition.
LEMMA RecordsMark ==
    ASSUME TypeOK
    PROVE  /\ \A k \in DOMAIN CallRecords : CallRecords[k].type # "transition"
           /\ \A k \in DOMAIN Rejection : Rejection[k].type # "transition"
           /\ \A ok : \A k \in DOMAIN ToolRecord(ok) : ToolRecord(ok)[k].type # "transition"
           /\ \A k \in DOMAIN DecisionEvents("approved") :
                 DecisionEvents("approved")[k].type # "transition"
           /\ \A k \in DOMAIN FailureRecords : FailureRecords[k].type # "transition"
<1>2. \A k \in DOMAIN DecisionEvents("approved") :
         DecisionEvents("approved")[k].type # "transition"
  <2> DEFINE d == DecisionEvents("approved")
  <2>1. d \in Seq(Decisions)
    BY DecisionsAre
  <2>2. \A e \in Decisions : e.type # "transition"
    BY DEF Decisions, EventsOf
  <2> HIDE DEF d
  <2>3. \A k \in DOMAIN d : d[k].type # "transition"
    BY <2>1, <2>2, ElementOfSeq, LenProperties
  <2> QED BY <2>3 DEF d
<1>3. /\ CallRecords[1].type # "transition" /\ CallRecords[2].type # "transition"
      /\ Rejection[1].type # "transition" /\ Rejection[2].type # "transition"
      /\ Rejection[3].type # "transition"
      /\ \A ok : ToolRecord(ok)[1].type # "transition"
  <2>1. /\ CallRecords[1].type # "transition" /\ CallRecords[2].type # "transition"
        /\ Rejection[1].type # "transition" /\ Rejection[2].type # "transition"
        /\ Rejection[3].type # "transition"
    BY RecordsAre
  <2>2. \A ok : ToolRecord(ok)[1].type # "transition"
    BY RecordsAre
  <2> QED BY <2>1, <2>2
<1>4. \A k \in DOMAIN FailureRecords : FailureRecords[k].type # "transition"
  <2>1. CASE DOMAIN FailureRecords = {1} /\ FailureRecords[1].type = "tool-call"
    BY <2>1
  <2>2. CASE FailureRecords = <<>>
    BY <2>2
  <2> QED BY <2>1, <2>2, RecordsAre
<1> QED BY <1>2, <1>3, <1>4, RecordsAre

LEMMA ShapeShuts ==
    ASSUME NEW t, NEW records, NEW roles, Shape(t, records, roles),
           \A k \in DOMAIN records : records[k].type # "transition",
           Executing, ~Executing'
    PROVE  Shuts(t)
<1>1. \A k \in DOMAIN t : ~Starts(t[k])
  <2>1. ASSUME NEW k \in DOMAIN t PROVE ~Starts(t[k])
    <3>1. CASE k \in DOMAIN records
      BY <3>1, Marks DEF Shape
    <3>2. CASE k \notin DOMAIN records
      <4>1. \/ t[k].type \in {"receipt", "visible"}
            \/ \E r \in roles : t[k] = UnitEvent(r)
            \/ t[k] = Came
        BY <3>2 DEF Shape
      <4>2. \A r : ~Starts(UnitEvent(r))
        BY Marks DEF UnitEvent
      <4>3. ~Starts(Came)
        BY Marks DEF Came
      <4> QED BY <4>1, <4>2, <4>3, Marks
    <3> QED BY <3>1, <3>2
  <2> QED BY <2>1
<1>2. Len(t) \in DOMAIN t /\ Ends(t[Len(t)]) /\ t[Len(t)].at = node
  BY Marks DEF Shape, Came
<1> QED BY <1>1, <1>2 DEF Shuts

\* Where the nine nodes that come back stand before and after.
LEMMA NodesComeBack ==
    ASSUME NEW ok \in BOOLEAN,
           \/ Intake \/ Research \/ BelowFloor \/ Respond \/ ModelReturns \/ JudgePasses
           \/ JudgeRevises \/ ToolReturns(ok) \/ Approve
    PROVE  Executing /\ pc' \in {"routing", "closing"} /\ ~Executing'
<1>1. Executing
  BY DEF Executing, Intake, Research, BelowFloor, Respond, ModelReturns, JudgePasses,
     JudgeRevises, ToolReturns, Approve, Running, Calling
<1>2. \A records, levels, units, fs, esc :
         Commit(records, levels, units, fs, esc) => pc' \in {"routing", "closing"}
  BY DEF Commit, Stops
<1>3. \E records, levels, units, fs, esc : Commit(records, levels, units, fs, esc)
  <2>1. CASE Intake \/ Research \/ BelowFloor \/ Respond
    BY <2>1 DEF Intake, Research, BelowFloor, Respond
  <2>2. CASE ModelReturns \/ JudgePasses \/ JudgeRevises
    BY <2>2 DEF ModelReturns, JudgePasses, JudgeRevises
  <2>3. CASE ToolReturns(ok) \/ Approve
    BY <2>3 DEF ToolReturns, Approve
  <2> QED BY <2>1, <2>2, <2>3
<1> QED BY <1>1, <1>2, <1>3 DEF Executing

LEMMA CommitBrackets ==
    ASSUME TypeOK, JournalInv, NEW ok \in BOOLEAN,
           \/ Intake \/ Research \/ BelowFloor \/ Respond \/ ModelReturns \/ JudgePasses
           \/ JudgeRevises \/ ToolReturns(ok) \/ Approve
    PROVE  \E T : \E t \in Seq(T) : Adds(t) /\ Brackets(t)
<1>1. Executing /\ ~Executing'
  BY NodesComeBack
<1>2. \A records : <<>> # records \/ \A k \in DOMAIN records : records[k].type # "transition"
  OBVIOUS
<1>3. ASSUME NEW records, NEW roles, Leaving(records, roles),
             \A k \in DOMAIN records : records[k].type # "transition"
      PROVE  \E T : \E t \in Seq(T) : Adds(t) /\ Brackets(t)
  <2>1. PICK t : Adds(t) /\ Shape(t, records, roles)
    BY <1>3 DEF Leaving
  <2>2. Shuts(t) /\ t \in Seq(Events)
    <3>1. Shuts(t)
      BY <1>1, <1>3, <2>1, ShapeShuts
    <3> QED BY <2>1, <3>1 DEF Shape
  <2> QED BY <2>1, <2>2 DEF Brackets
<1>4. \E records, roles : Leaving(records, roles)
         /\ \A k \in DOMAIN records : records[k].type # "transition"
  <2>1. CASE Intake \/ Research \/ BelowFloor \/ Respond
    BY <1>2, <2>1, NodesAdd
  <2>2. CASE ModelReturns \/ JudgePasses \/ JudgeRevises
    BY <2>2, NodesAdd, RecordsMark
  <2>3. CASE ToolReturns(ok) \/ Approve
    BY <2>3, NodesAdd, RecordsMark
  <2> QED BY <2>1, <2>2, <2>3
<1> QED BY <1>3, <1>4

\* Steps that leave the runs of nodes alone.
LEMMA IdleSteps ==
    ASSUME TypeOK, JournalInv,
           \/ Open \/ RefuseToCompile \/ StopAtCap \/ StopAtVisitCap \/ Call \/ AskApproval
           \/ FollowEdge \/ PassOverEdge \/ BadGuard \/ Settle \/ Close \/ Environment
           \/ UNCHANGED vars
    PROVE  \E T : \E t \in Seq(T) : Adds(t) /\ Idles(t)
<1>0. JournalTyped
  BY DEF JournalInv
<1>1. /\ Executing' <=> Executing
      /\ Executing => node' = node
  <2>1. CASE Open \/ RefuseToCompile \/ StopAtCap \/ StopAtVisitCap
    <3>1. pc \in {"new", "pop"} /\ pc' \in {"pop", "returned", "closing"}
      BY <2>1 DEF Open, RefuseToCompile, StopAtCap, StopAtVisitCap, Visit, Pop, Stops
    <3> QED BY <3>1 DEF Executing
  <2>2. CASE Call
    BY <2>2 DEF Executing, Call, ReadyToCall, Running, progress
  <2>3. CASE AskApproval \/ FollowEdge \/ PassOverEdge \/ BadGuard
    BY <2>3 DEF Executing, AskApproval, Running, FollowEdge, PassOverEdge, BadGuard, progress
  <2>4. CASE Settle \/ Close
    <3>1. pc \in {"routing", "closing", "pop"} /\ pc' \in {"pop", "returned", "closing"}
      BY <2>4 DEF Settle, Close, Stops
    <3> QED BY <3>1 DEF Executing
  <2>5. CASE Environment \/ UNCHANGED vars
    BY <2>5 DEF Executing, Environment, Cancel, Expire, vars, progress
  <2> QED BY <2>1, <2>2, <2>3, <2>4, <2>5
<1>2. ASSUME Adds(<<>>) PROVE \E T : \E t \in Seq(T) : Adds(t) /\ Idles(t)
  <2>1. <<>> \in Seq({}) /\ DOMAIN <<>> = {}
    OBVIOUS
  <2>2. Idles(<<>>)
    BY <1>1, <2>1 DEF Idles
  <2> QED BY <1>2, <2>1, <2>2
<1>3. ASSUME NEW T, NEW t \in Seq(T), Adds(t), \A k \in DOMAIN t : t[k].type # "transition"
      PROVE  \E U : \E u \in Seq(U) : Adds(u) /\ Idles(u)
  <2>1. Idles(t)
    BY <1>1, <1>3, Marks DEF Idles
  <2> QED BY <1>3, <2>1
<1>4. ASSUME NEW e, NEW f, Adds(<<e, f>>), ~Starts(e), ~Ends(e), ~Starts(f), ~Ends(f)
      PROVE  \E U : \E u \in Seq(U) : Adds(u) /\ Idles(u)
  <2> DEFINE t == <<e, f>>
  <2>1. DOMAIN t = {1, 2} /\ t[1] = e /\ t[2] = f
    BY Triple
  <2>2. t \in Seq({e, f})
    OBVIOUS
  <2> HIDE DEF t
  <2>3. Idles(t)
    BY <1>1, <1>4, <2>1 DEF Idles
  <2> QED BY <1>4, <2>2, <2>3 DEF t
<1>5. CASE Open
  <2>1. PICK t : Adds(t) /\ Opening(t)
    BY <1>5, OpenAdds
  <2>2. ASSUME NEW k \in DOMAIN t PROVE t[k].type # "transition"
    <3>1. t[1].type = "started"
      BY <2>1 DEF Opening
    <3>2. k # 1 => \E what, ref : t[k] = Event("unit", 0, what, ref)
      BY <2>1 DEF Opening
    <3> QED BY <3>1, <3>2 DEF Event
  <2> QED BY <1>3, <2>1, <2>2 DEF Opening
<1>6. CASE StopAtVisitCap
  <2>1. Adds(<<Transition(node', "skipped"), Event("failure", node', "exhaustion", 0)>>)
    BY <1>6, StepsAdd
  <2>2. /\ ~Starts(Transition(node', "skipped")) /\ ~Ends(Transition(node', "skipped"))
        /\ ~Starts(Event("failure", node', "exhaustion", 0))
        /\ ~Ends(Event("failure", node', "exhaustion", 0))
    BY Marks
  <2> QED BY <1>4, <2>1, <2>2
<1>7. CASE AskApproval
  <2>1. Adds(<<Transition(node, "awaiting"), Event("approval", node, "pending", Shown)>>)
    BY <1>7, StepsAdd
  <2>2. /\ ~Starts(Transition(node, "awaiting")) /\ ~Ends(Transition(node, "awaiting"))
        /\ ~Starts(Event("approval", node, "pending", Shown))
        /\ ~Ends(Event("approval", node, "pending", Shown))
    BY Marks
  <2> QED BY <1>4, <2>1, <2>2
<1>8. CASE Settle
  <2>1. Adds(<<>>) \/ Adds(<<Event("budget", node, "", 0)>>)
    BY <1>8, StepsAdd
  <2>2. CASE Adds(<<Event("budget", node, "", 0)>>)
    <3> DEFINE e == Event("budget", node, "", 0)
    <3>1. e.type # "transition"
      BY DEF Event
    <3> HIDE DEF e
    <3>2. <<e>> \in Seq({e}) /\ \A k \in DOMAIN <<e>> : <<e>>[k] = e
      OBVIOUS
    <3>3. Adds(<<e>>)
      BY <2>2 DEF e
    <3> QED BY <1>3, <3>1, <3>2, <3>3
  <2> QED BY <1>2, <2>1, <2>2
<1>9. CASE Close
  <2>1. PICK t : Adds(t) /\ Closing(t)
    BY <1>0, <1>9, CloseAdds
  <2>2. ASSUME NEW k \in DOMAIN t PROVE t[k].type # "transition"
    <3>1. t[k].type \in {"repair", "finished"} \/ \E what, ref : t[k] = Event("released", 0, what, ref)
      BY <2>1 DEF Closing
    <3> QED BY <3>1 DEF Event
  <2> QED BY <1>3, <2>1, <2>2 DEF Closing
<1>10. CASE \/ RefuseToCompile \/ StopAtCap \/ Call \/ FollowEdge \/ PassOverEdge \/ BadGuard
            \/ Environment \/ UNCHANGED vars
  <2>1. Adds(<<>>)
    BY <1>10, StepsAdd
  <2> QED BY <1>2, <2>1
<1> QED BY <1>5, <1>6, <1>7, <1>8, <1>9, <1>10

\* Every step opens a run, closes the open one, does both, or neither.
LEMMA NextBrackets ==
    ASSUME TypeOK, JournalInv, [Next]_vars
    PROVE  \E T : \E t \in Seq(T) : Adds(t) /\ Brackets(t)
<1>0. JournalTyped
  BY DEF JournalInv
<1>1. CASE \/ Open \/ RefuseToCompile \/ StopAtCap \/ StopAtVisitCap \/ Call \/ AskApproval
           \/ FollowEdge \/ PassOverEdge \/ BadGuard \/ Settle \/ Close \/ Environment
           \/ UNCHANGED vars
  BY <1>1, IdleSteps DEF Brackets
<1>2. CASE \/ Intake \/ Research \/ BelowFloor \/ Respond \/ ModelReturns \/ JudgePasses
           \/ JudgeRevises \/ Approve
  <2>1. TRUE \in BOOLEAN
    OBVIOUS
  <2> QED BY <1>2, <2>1, CommitBrackets
<1>3. ASSUME NEW ok \in BOOLEAN, ToolReturns(ok)
      PROVE  \E T : \E t \in Seq(T) : Adds(t) /\ Brackets(t)
  BY <1>3, CommitBrackets
<1>4. CASE RunNode
  <2> DEFINE e == Transition(node', "running")
             t == <<e>>
  <2>1. Adds(t)
    BY <1>4, StepsAdd
  <2>2. Starts(e) /\ e.at = node'
    BY Marks
  <2>3. ~Executing /\ Executing'
    BY <1>4 DEF RunNode, Visit, Pop, Executing
  <2> HIDE DEF e
  <2>4. t \in Seq({e}) /\ DOMAIN t = {1} /\ t[1] = e
    OBVIOUS
  <2> HIDE DEF t
  <2>5. Opens(t)
    BY <2>2, <2>3, <2>4 DEF Opens
  <2> QED BY <2>1, <2>4, <2>5 DEF Brackets
<1>5. CASE UnknownKind
  <2>1. PICK t : Adds(t) /\ Failing(t, node', <<Transition(node', "running")>>)
    BY <1>5, StepsAdd
  <2>2. ~Executing /\ ~Executing'
    <3>1. pc = "pop" /\ pc' = "returned"
      BY <1>5 DEF UnknownKind, Visit, Pop, Fails
    <3> QED BY <3>1 DEF Executing
  <2> DEFINE e == Transition(node', "running")
  <2>3. DOMAIN <<e>> = {1} /\ <<e>>[1] = e
    <3> HIDE DEF e
    <3> QED OBVIOUS
  <2>4. /\ 1 \in DOMAIN t /\ t[1] = e
        /\ \A k \in DOMAIN t \ {1} :
              t[k] = Transition(node', "failed") \/ t[k] = Finished("failed")
        /\ \E k \in DOMAIN t \ {1} : t[k] = Transition(node', "failed")
    BY <2>1, <2>3 DEF Failing
  <2>5. Starts(e) /\ e.at = node'
    BY Marks
  <2>6. /\ Ends(Transition(node', "failed")) /\ ~Starts(Transition(node', "failed"))
        /\ Transition(node', "failed").at = node' /\ ~Starts(Finished("failed"))
    BY Marks
  <2> HIDE DEF e
  <2>7. Flashes(t)
    BY <2>2, <2>4, <2>5, <2>6 DEF Flashes
  <2> QED BY <2>1, <2>7 DEF Failing, Brackets
<1>6. CASE Stopped \/ NoRoomForPrompt
  <2> DEFINE e == Transition(node, "cancelled")
             t == <<e>>
  <2>1. Adds(t)
    BY <1>6, StepsAdd
  <2>2. Ends(e) /\ ~Starts(e) /\ e.at = node
    BY Marks
  <2>3. Executing /\ ~Executing'
    <3>1. pc \in {"running", "calling"} /\ pc' = "closing"
      BY <1>6 DEF Stopped, NoRoomForPrompt, Running, Stops
    <3> QED BY <3>1 DEF Executing
  <2> HIDE DEF e
  <2>4. t \in Seq({e}) /\ DOMAIN t = {1} /\ t[1] = e
    OBVIOUS
  <2> HIDE DEF t
  <2>5. Shuts(t)
    BY <2>2, <2>3, <2>4 DEF Shuts
  <2> QED BY <2>1, <2>4, <2>5 DEF Brackets
<1>7. CASE NothingToWorkOn \/ CallFails
  <2>1. PICK records, t : /\ Adds(t) /\ Failing(t, node, records)
                          /\ \A k \in DOMAIN records : records[k].type # "transition"
    <3>1. DOMAIN <<>> = {}
      OBVIOUS
    <3>2. CASE NothingToWorkOn
      BY <3>1, <3>2, StepsAdd
    <3>3. CASE CallFails
      BY <3>3, StepsAdd, RecordsMark
    <3> QED BY <1>7, <3>2, <3>3
  <2>2. Executing /\ ~Executing'
    <3>1. pc \in {"running", "calling"} /\ pc' = "returned"
      BY <1>7 DEF NothingToWorkOn, CallFails, NodeError, Fails, Running, Calling
    <3> QED BY <3>1 DEF Executing
  <2>3. /\ Ends(Transition(node, "failed")) /\ ~Starts(Transition(node, "failed"))
        /\ Transition(node, "failed").at = node /\ ~Starts(Finished("failed"))
    BY Marks
  <2>4. \A k \in DOMAIN t : ~Starts(t[k])
    <3>1. \A k \in DOMAIN records : ~Starts(records[k])
      BY <2>1, Marks
    <3> QED BY <2>1, <2>3, <3>1 DEF Failing
  <2>5. \E k \in DOMAIN t : Ends(t[k]) /\ t[k].at = node
    BY <2>1, <2>3 DEF Failing
  <2>6. Shuts(t)
    BY <2>2, <2>4, <2>5 DEF Shuts
  <2> QED BY <2>1, <2>6 DEF Failing, Brackets
<1>8. CASE Silence \/ Decline
  <2>1. PICK t : Adds(t) /\ Refusing(t)
    BY <1>8, StepsAdd
  <2>2. Executing /\ ~Executing'
    <3>1. pc = "awaiting" /\ pc' = "closing"
      BY <1>8 DEF Silence, Decline, Refuse, Stops
    <3> QED BY <3>1 DEF Executing
  <2>3. /\ Ends(Transition(node, "cancelled")) /\ ~Starts(Transition(node, "cancelled"))
        /\ Transition(node, "cancelled").at = node
    BY Marks
  <2>4. \A k \in DOMAIN t : ~Starts(t[k])
    <3>1. \A k \in DOMAIN t : t[k].type # "transition" \/ t[k] = Transition(node, "cancelled")
      BY <2>1 DEF Refusing
    <3> QED BY <2>3, <3>1, Marks
  <2>5. Shuts(t)
    BY <2>1, <2>2, <2>3, <2>4 DEF Shuts, Refusing
  <2> QED BY <2>1, <2>5 DEF Refusing, Brackets
<1> QED BY <1>1, <1>2, <1>3, <1>4, <1>5, <1>6, <1>7, <1>8
        DEF Next, Executes, Outside, Returned

LEMMA BracketsKept ==
    ASSUME TypeOK, JournalInv, BracketInv, [Next]_vars
    PROVE  BracketInv'
<1>0. PICK T : \E t \in Seq(T) : Adds(t) /\ Brackets(t)
  BY NextBrackets
<1>1. PICK t \in Seq(T) : Adds(t) /\ Brackets(t)
  BY <1>0
<1>L. PICK L : L = Len(journal)
  OBVIOUS
<1>a. /\ Len(journal) \in Nat /\ DOMAIN journal = 1 .. Len(journal)
      /\ DOMAIN t = 1 .. Len(t) /\ Len(t) \in Nat
      /\ DOMAIN journal' = 1 .. (Len(journal) + Len(t))
      /\ \A i \in DOMAIN journal : i \in DOMAIN journal' /\ journal'[i] = journal[i]
      /\ \A k \in DOMAIN t :
            Len(journal) + k \in DOMAIN journal' /\ journal'[Len(journal) + k] = t[k]
      /\ \A i \in DOMAIN journal' :
            \/ i \in DOMAIN journal
            \/ /\ Len(journal) < i /\ i - Len(journal) \in DOMAIN t
               /\ journal'[i] = t[i - Len(journal)]
  BY <1>1, AddsAt DEF JournalInv
<1>2. /\ L \in Nat /\ DOMAIN journal = 1 .. L /\ DOMAIN t = 1 .. Len(t) /\ Len(t) \in Nat
      /\ DOMAIN journal' = 1 .. (L + Len(t))
      /\ \A i \in DOMAIN journal : i \in DOMAIN journal' /\ journal'[i] = journal[i]
      /\ \A k \in DOMAIN t : L + k \in DOMAIN journal' /\ journal'[L + k] = t[k]
      /\ \A i \in DOMAIN journal' :
            \/ i \in DOMAIN journal
            \/ /\ L < i /\ i - L \in DOMAIN t
               /\ journal'[i] = t[i - L]
  BY <1>a, <1>L
<1>3. /\ Started \subseteq DOMAIN journal
      /\ \A i \in DOMAIN journal : i \in Started' <=> i \in Started
      /\ \A i \in DOMAIN journal' \ DOMAIN journal : i \in Started' <=> Starts(t[i - L])
      /\ Started' \subseteq DOMAIN journal'
  BY <1>2 DEF Started, LoggedAt, Logged, Starts
<1>4. /\ \A i, k \in DOMAIN journal : Closes(i, k)' <=> Closes(i, k)
      /\ \A i \in DOMAIN journal, k \in DOMAIN t :
            Closes(i, L + k)' <=> Ends(t[k]) /\ t[k].at = journal[i].at
      /\ \A i, k \in DOMAIN t :
            Closes(L + i, L + k)' <=> Ends(t[k]) /\ t[k].at = t[i].at
  BY <1>2 DEF Closes, Ends
\* Closings and runs that were there stay there.
<1>5. ASSUME NEW i \in Started, NEW j \in Started, i < j
      PROVE  \E k \in i + 1 .. j - 1 : Closes(i, k)'
  <2>1. PICK k \in i + 1 .. j - 1 : Closes(i, k)
    BY <1>5 DEF BracketInv
  <2>2. k \in DOMAIN journal /\ i \in DOMAIN journal
    BY <1>2, <1>3
  <2> QED BY <1>4, <2>1, <2>2
<1>6. ASSUME ~Executing, NEW i \in Started
      PROVE  \E k \in DOMAIN journal : i < k /\ Closes(i, k)'
  <2>1. PICK k \in DOMAIN journal : i < k /\ Closes(i, k)
    BY <1>6 DEF BracketInv
  <2> QED BY <1>3, <1>4, <2>1
\* A run that starts does so after all others, and they are closed.
<1>7. ASSUME ~Executing, \A k \in DOMAIN t \ {1} : ~Starts(t[k])
      PROVE  /\ \A i \in Started' : i \in Started \/ i = L + 1
             /\ \A i, j \in Started' : i < j => \E k \in i + 1 .. j - 1 : Closes(i, k)'
  <2>1. ASSUME NEW i \in Started' PROVE i \in Started \/ i = L + 1
    <3>1. CASE i \in DOMAIN journal
      BY <1>3, <3>1
    <3>2. CASE i \notin DOMAIN journal
      <4>1. i \in DOMAIN journal' \ DOMAIN journal /\ i \in Nat
        BY <1>2, <1>3, <3>2
      <4>2. Starts(t[i - L]) /\ i - L \in DOMAIN t
        BY <1>2, <1>3, <4>1
      <4>3. i - L = 1
        BY <1>7, <4>2
      <4> QED BY <1>2, <4>1, <4>3
    <3> QED BY <3>1, <3>2
  <2>2. ASSUME NEW i \in Started', NEW j \in Started', i < j
        PROVE  \E k \in i + 1 .. j - 1 : Closes(i, k)'
    <3>1. \A x \in Started : x \in 1 .. L
      BY <1>2, <1>3
    <3>2. i \in Started
      BY <1>2, <2>1, <2>2, <3>1
    <3>3. CASE j \in Started
      BY <1>5, <2>2, <3>2, <3>3
    <3>4. CASE j = L + 1
      <4>1. PICK k \in DOMAIN journal : i < k /\ Closes(i, k)'
        BY <1>6, <1>7, <3>2
      <4>2. k \in i + 1 .. j - 1
        BY <1>2, <3>1, <3>2, <3>4, <4>1
      <4> QED BY <4>1, <4>2
    <3> QED BY <2>1, <3>3, <3>4
  <2> QED BY <2>1, <2>2
\* Where nothing starts, the runs are the same.
<1>8. ASSUME \A k \in DOMAIN t : ~Starts(t[k])
      PROVE  Started' = Started
  BY <1>2, <1>3, <1>8
<1>9. CASE Idles(t)
  <2>1. Started' = Started
    BY <1>8, <1>9 DEF Idles
  <2>2. \A i, j \in Started' : i < j => \E k \in i + 1 .. j - 1 : Closes(i, k)'
    BY <1>5, <2>1
  <2>3. ASSUME Executing' PROVE \E r \in Started' : OpenRun(r)'
    <3>1. PICK r \in Started : OpenRun(r)
      BY <1>9, <2>3 DEF Idles, BracketInv
    <3>2. node' = node
      BY <1>9, <2>3 DEF Idles
    <3>3. ASSUME NEW k \in DOMAIN journal', r < k PROVE ~Closes(r, k)'
      <4>1. CASE k \in DOMAIN journal
        BY <1>3, <1>4, <3>1, <3>3, <4>1 DEF OpenRun
      <4>2. CASE k \notin DOMAIN journal
        <5>1. k - L \in DOMAIN t /\ L + (k - L) = k
          BY <1>2, <4>2
        <5>2. ~Ends(t[k - L])
          BY <1>9, <5>1 DEF Idles
        <5> QED BY <1>3, <1>4, <5>1, <5>2
      <4> QED BY <4>1, <4>2
    <3>4. journal'[r].at = node' /\ \A i \in Started' : i <= r
      BY <1>2, <1>3, <2>1, <3>1, <3>2 DEF OpenRun
    <3> QED BY <2>1, <3>1, <3>3, <3>4 DEF OpenRun
  <2>4. ASSUME ~Executing', NEW i \in Started'
        PROVE  \E k \in DOMAIN journal' : i < k /\ Closes(i, k)'
    <3>1. ~Executing
      BY <1>9, <2>4 DEF Idles
    <3> QED BY <1>2, <1>6, <2>1, <3>1
  <2> QED BY <2>2, <2>3, <2>4 DEF BracketInv
<1>10. CASE Opens(t)
  <2>1. ~Executing /\ Executing' /\ DOMAIN t = {1} /\ Starts(t[1]) /\ t[1].at = node'
    BY <1>10 DEF Opens
  <2>2. /\ \A i \in Started' : i \in Started \/ i = L + 1
        /\ \A i, j \in Started' : i < j => \E k \in i + 1 .. j - 1 : Closes(i, k)'
    BY <1>7, <2>1
  <2>3. /\ L + 1 \in DOMAIN journal' /\ L + 1 \notin DOMAIN journal
        /\ (L + 1) - L = 1 /\ journal'[L + 1] = t[1]
    <3>1. L + 1 \in DOMAIN journal' /\ journal'[L + 1] = t[1]
      BY <1>2, <2>1
    <3> QED BY <1>2, <3>1
  <2>4. L + 1 \in Started'
    BY <1>3, <2>1, <2>3
  <2>5. \A i \in Started' : i <= L + 1
    BY <1>2, <1>3, <2>2
  <2>6. \A k \in DOMAIN journal' : k <= L + 1
    <3>1. Len(t) = 1
      <4>1. 1 \in 1 .. Len(t)
        BY <1>2, <2>1
      <4>2. Len(t) \in 1 .. Len(t)
        BY <1>2, <4>1
      <4> QED BY <1>2, <2>1, <4>2
    <3> QED BY <1>2, <3>1
  <2>7. OpenRun(L + 1)'
    BY <1>2, <2>1, <2>3, <2>4, <2>5, <2>6 DEF OpenRun
  <2> QED BY <2>1, <2>2, <2>4, <2>7 DEF BracketInv
<1>11. CASE Shuts(t)
  <2>1. /\ Executing /\ ~Executing'
        /\ Started' = Started
    BY <1>8, <1>11 DEF Shuts
  <2>2. PICK d \in DOMAIN t : Ends(t[d]) /\ t[d].at = node
    BY <1>11 DEF Shuts
  <2>3. PICK r \in Started : OpenRun(r)
    BY <2>1 DEF BracketInv
  <2>4. ASSUME NEW i \in Started
        PROVE  \E k \in DOMAIN journal' : i < k /\ Closes(i, k)'
    <3>1. CASE i = r
      <4>1. L + d \in DOMAIN journal' /\ r < L + d
        BY <1>2, <1>3, <2>3
      <4>2. Closes(r, L + d)'
        BY <1>3, <1>4, <2>2, <2>3 DEF OpenRun
      <4> QED BY <3>1, <4>1, <4>2
    <3>2. CASE i # r
      <4>1. i < r /\ i \in 1 .. L /\ r \in 1 .. L
        BY <1>2, <1>3, <2>3, <3>2 DEF OpenRun
      <4>2. PICK k \in i + 1 .. r - 1 : Closes(i, k)'
        BY <1>5, <2>3, <4>1
      <4>3. L \in Nat /\ 1 .. L \subseteq DOMAIN journal'
        BY <1>2
      <4>4. i < k /\ k \in 1 .. L
        BY <4>1, <4>2, <4>3
      <4> QED BY <4>2, <4>3, <4>4, Zenon
    <3> QED BY <3>1, <3>2
  <2> QED BY <1>5, <2>1, <2>4 DEF BracketInv
<1>12. CASE Flashes(t)
  <2>1. /\ ~Executing /\ ~Executing'
        /\ 1 \in DOMAIN t /\ Starts(t[1])
        /\ \A k \in DOMAIN t \ {1} : ~Starts(t[k])
    BY <1>12 DEF Flashes
  <2>2. PICK d \in DOMAIN t \ {1} : Ends(t[d]) /\ t[d].at = t[1].at
    BY <1>12 DEF Flashes
  <2>3. /\ \A i \in Started' : i \in Started \/ i = L + 1
        /\ \A i, j \in Started' : i < j => \E k \in i + 1 .. j - 1 : Closes(i, k)'
    BY <1>7, <2>1
  <2>4. ASSUME NEW i \in Started'
        PROVE  \E k \in DOMAIN journal' : i < k /\ Closes(i, k)'
    <3>1. CASE i \in Started
      BY <1>2, <1>6, <2>1, <3>1
    <3>2. CASE i = L + 1
      <4>1. L + d \in DOMAIN journal' /\ i < L + d /\ Closes(i, L + d)'
        BY <1>2, <1>4, <2>1, <2>2, <3>2
      <4> QED BY <4>1
    <3> QED BY <2>3, <3>1, <3>2
  <2> QED BY <2>1, <2>3, <2>4 DEF BracketInv
<1> QED BY <1>1, <1>9, <1>10, <1>11, <1>12 DEF Brackets

(***************************************************************************)
(* Run of every plan: nodes run one at a time and each run of a node is    *)
(* closed exactly while it should be; a cancelled, timed out or failed run *)
(* of the graph leaves none open.                                          *)
(***************************************************************************)
LEMMA BracketsSuffice ==
    ASSUME JournalTyped, BracketInv
    PROVE  NodesAreBracketed
<1>1. Unclosed = {i \in Started : ~\E j \in DOMAIN journal : i < j /\ Closes(i, j)}
  BY DEF Unclosed, Started
<1>2. DOMAIN journal \subseteq Nat /\ Started \subseteq DOMAIN journal
  BY LenProperties DEF JournalTyped, Started, LoggedAt, Logged
<1>3. CASE Executing
  <2>1. PICK r \in Started : OpenRun(r)
    BY <1>3 DEF BracketInv
  <2>2. r \in Unclosed
    BY <1>1, <2>1 DEF OpenRun
  <2>3. ASSUME NEW i \in Unclosed PROVE i = r
    <3>1. i \in Started /\ i <= r
      BY <1>1, <2>1 DEF OpenRun
    <3>2. CASE i < r
      <4>1. PICK k \in i + 1 .. r - 1 : Closes(i, k)
        BY <2>1, <3>1, <3>2 DEF BracketInv
      <4>2. i < k /\ k \in DOMAIN journal
        <5>1. DOMAIN journal = 1 .. Len(journal) /\ Len(journal) \in Nat
          BY LenProperties DEF JournalTyped
        <5> QED BY <1>2, <3>1, <4>1, <5>1
      <4> QED BY <1>1, <4>1, <4>2
    <3> QED BY <1>2, <3>1, <3>2
  <2>4. Unclosed = {r} /\ journal[r].at = node
    BY <2>1, <2>2, <2>3 DEF OpenRun
  <2>5. Cardinality(Unclosed) = 1
    BY <2>4, FS_Singleton
  <2> QED BY <1>3, <2>4, <2>5 DEF NodesAreBracketed, BracketInv, Executing, Started
<1>4. CASE ~Executing
  <2>1. Unclosed = {}
    BY <1>1, <1>4 DEF BracketInv
  <2>2. Cardinality(Unclosed) = 0
    BY <2>1, FS_EmptySet
  <2> QED BY <1>4, <2>1, <2>2 DEF NodesAreBracketed, BracketInv, Executing, Started
<1> QED BY <1>3, <1>4

THEOREM RunsAreBracketed == Spec => []NodesAreBracketed
<1>1. Init => BracketInv
  BY DEF Init, BracketInv, Started, LoggedAt, Logged, Executing
<1>2. TypeInv /\ JournalInv /\ JournalEndsOnce /\ BracketInv /\ [Next]_vars
          => TypeInv' /\ JournalInv' /\ JournalEndsOnce' /\ BracketInv'
  BY NextTypes, NextJournal, BracketsKept DEF TypeInv
<1>3. JournalInv /\ BracketInv => NodesAreBracketed
  BY BracketsSuffice DEF JournalInv
<1> QED BY <1>1, <1>2, <1>3, InitTypes, InitJournal, PTL DEF Spec

-----------------------------------------------------------------------------
(* Which steps report a start, a call, a judgement, a unit, a success, a   *)
(* release.                                                                *)

\* Events that report none of them.
Hushed(e) ==
    /\ e.type \notin {"tool-call", "model-call", "unit", "released", "started"}
    /\ ~(e.type = "failure" /\ e.what = "judged")
    /\ ~(e.type = "transition" /\ e.what = "succeeded")

LEMMA HushedEvents ==
    /\ \A n : \A state \in {"running", "failed", "cancelled", "awaiting", "skipped"} :
          Hushed(Transition(n, state))
    /\ \A n, ref : Hushed(Event("failure", n, "exhaustion", ref))
    /\ \A n, what, ref : Hushed(Event("approval", n, what, ref))
    /\ \A n, what, ref : Hushed(Event("budget", n, what, ref))
    /\ \A status : Hushed(Finished(status))
    /\ \A e : e.type \in {"visible", "unknown", "approval"} => Hushed(e)
BY DEF Hushed, Transition, Event, Finished

LEMMA HushedSteps ==
    ASSUME TypeOK, JournalInv,
           \/ RunNode \/ UnknownKind \/ StopAtVisitCap \/ Stopped \/ NoRoomForPrompt
           \/ NothingToWorkOn \/ AskApproval \/ Silence \/ Decline \/ Settle
           \/ RefuseToCompile \/ StopAtCap \/ Call \/ FollowEdge \/ PassOverEdge \/ BadGuard
           \/ Environment \/ UNCHANGED vars
    PROVE  \E T : \E t \in Seq(T) : Adds(t) /\ \A k \in DOMAIN t : Hushed(t[k])
<1>1. ASSUME NEW e, Adds(<<e>>), Hushed(e)
      PROVE  \E T : \E t \in Seq(T) : Adds(t) /\ \A k \in DOMAIN t : Hushed(t[k])
  <2>1. <<e>> \in Seq({e}) /\ \A k \in DOMAIN <<e>> : <<e>>[k] = e
    OBVIOUS
  <2> QED BY <1>1, <2>1
<1>2. ASSUME NEW e, NEW f, Adds(<<e, f>>), Hushed(e), Hushed(f)
      PROVE  \E T : \E t \in Seq(T) : Adds(t) /\ \A k \in DOMAIN t : Hushed(t[k])
  <2> DEFINE t == <<e, f>>
  <2>1. DOMAIN t = {1, 2} /\ t[1] = e /\ t[2] = f
    BY Triple
  <2>2. t \in Seq({e, f})
    OBVIOUS
  <2>3. Adds(t)
    BY <1>2
  <2> HIDE DEF t
  <2> QED BY <1>2, <2>1, <2>2, <2>3
<1>3. ASSUME Adds(<<>>)
      PROVE  \E T : \E t \in Seq(T) : Adds(t) /\ \A k \in DOMAIN t : Hushed(t[k])
  <2>1. <<>> \in Seq({}) /\ DOMAIN <<>> = {}
    OBVIOUS
  <2> QED BY <1>3, <2>1
<1>4. ASSUME NEW n, NEW t, NEW records, Adds(t), Failing(t, n, records),
             \A k \in DOMAIN records : Hushed(records[k])
      PROVE  \E T : \E u \in Seq(T) : Adds(u) /\ \A k \in DOMAIN u : Hushed(u[k])
  <2>1. \A k \in DOMAIN t : Hushed(t[k])
    <3>1. Hushed(Transition(n, "failed")) /\ Hushed(Finished("failed"))
      BY HushedEvents
    <3> QED BY <1>4, <3>1 DEF Failing
  <2> QED BY <1>4, <2>1 DEF Failing
<1>5. CASE RunNode
  <2>1. Adds(<<Transition(node', "running")>>) /\ Hushed(Transition(node', "running"))
    BY <1>5, StepsAdd, HushedEvents
  <2> QED BY <1>1, <2>1
<1>6. CASE UnknownKind
  <2> DEFINE e == Transition(node', "running")
  <2>1. PICK t : Adds(t) /\ Failing(t, node', <<e>>)
    BY <1>6, StepsAdd
  <2>2. Hushed(e)
    BY HushedEvents
  <2> HIDE DEF e
  <2>3. \A k \in DOMAIN <<e>> : <<e>>[k] = e
    OBVIOUS
  <2> QED BY <1>4, <2>1, <2>2, <2>3
<1>7. CASE StopAtVisitCap
  <2>1. Adds(<<Transition(node', "skipped"), Event("failure", node', "exhaustion", 0)>>)
    BY <1>7, StepsAdd
  <2>2. Hushed(Transition(node', "skipped")) /\ Hushed(Event("failure", node', "exhaustion", 0))
    BY HushedEvents
  <2> QED BY <1>2, <2>1, <2>2
<1>8. CASE Stopped \/ NoRoomForPrompt
  <2>1. Adds(<<Transition(node, "cancelled")>>) /\ Hushed(Transition(node, "cancelled"))
    BY <1>8, StepsAdd, HushedEvents
  <2> QED BY <1>1, <2>1
<1>9. CASE NothingToWorkOn
  <2>1. PICK t : Adds(t) /\ Failing(t, node, <<>>)
    BY <1>9, StepsAdd
  <2>2. DOMAIN <<>> = {}
    OBVIOUS
  <2> QED BY <1>4, <2>1, <2>2
<1>10. CASE AskApproval
  <2>1. Adds(<<Transition(node, "awaiting"), Event("approval", node, "pending", Shown)>>)
    BY <1>10, StepsAdd
  <2>2. Hushed(Transition(node, "awaiting")) /\ Hushed(Event("approval", node, "pending", Shown))
    BY HushedEvents
  <2> QED BY <1>2, <2>1, <2>2
<1>11. CASE Silence \/ Decline
  <2>1. PICK t : Adds(t) /\ Refusing(t)
    BY <1>11, StepsAdd
  <2>2. Hushed(Transition(node, "cancelled"))
    BY HushedEvents
  <2>3. \A k \in DOMAIN t : Hushed(t[k])
    BY <2>1, <2>2, HushedEvents DEF Refusing
  <2> QED BY <2>1, <2>3 DEF Refusing
<1>12. CASE Settle
  <2>1. Hushed(Event("budget", node, "", 0))
    BY HushedEvents
  <2> QED BY <1>1, <1>3, <1>12, <2>1, StepsAdd
<1>13. CASE \/ RefuseToCompile \/ StopAtCap \/ Call \/ FollowEdge \/ PassOverEdge \/ BadGuard
            \/ Environment \/ UNCHANGED vars
  <2>1. Adds(<<>>)
    BY <1>13, StepsAdd
  <2> QED BY <1>3, <2>1
<1> QED BY <1>5, <1>6, <1>7, <1>8, <1>9, <1>10, <1>11, <1>12, <1>13

\* What a step does not append stays as it was logged; what it appends once is
\* logged once more.
LEMMA LoggedStays ==
    ASSUME JournalTyped, NEW T, NEW t \in Seq(T), Adds(t), NEW type,
           \A k \in DOMAIN t : t[k].type # type
    PROVE  /\ Logged(type)' = Logged(type)
           /\ \A what : LoggedAt(type, what)' = LoggedAt(type, what)
<1>1. /\ \A i \in DOMAIN journal : i \in DOMAIN journal' /\ journal'[i] = journal[i]
      /\ \A i \in DOMAIN journal' \ DOMAIN journal :
            i - Len(journal) \in DOMAIN t /\ journal'[i] = t[i - Len(journal)]
  BY AddsAt
<1>2. Logged(type)' = Logged(type)
  BY <1>1 DEF Logged
<1>3. ASSUME NEW what PROVE LoggedAt(type, what)' = LoggedAt(type, what)
  BY <1>1, <1>2 DEF LoggedAt, Logged
<1> QED BY <1>2, <1>3

Once(t, type, d) == d \in DOMAIN t /\ \A k \in DOMAIN t : t[k].type = type <=> k = d

LEMMA LoggedOnceMore ==
    ASSUME JournalTyped, NEW T, NEW t \in Seq(T), Adds(t)
    PROVE  \A type, d : Once(t, type, d) =>
              \E j \in DOMAIN journal' \ DOMAIN journal :
                 Logged(type)' = Logged(type) \cup {j} /\ journal'[j] = t[d]
<1>1. ASSUME NEW type, NEW d, Once(t, type, d)
      PROVE  \E j \in DOMAIN journal' \ DOMAIN journal :
                 Logged(type)' = Logged(type) \cup {j} /\ journal'[j] = t[d]
  <2>1. d \in DOMAIN t /\ t[d].type = type
    BY <1>1 DEF Once
  <2>2. /\ \A i \in DOMAIN journal : i \in DOMAIN journal' /\ journal'[i] = journal[i]
        /\ \A i \in DOMAIN journal' \ DOMAIN journal :
              /\ i - Len(journal) \in DOMAIN t /\ journal'[i] = t[i - Len(journal)]
              /\ i = Len(journal) + (i - Len(journal))
        /\ Len(journal) + d \in DOMAIN journal' /\ journal'[Len(journal) + d] = t[d]
        /\ Len(journal) + d \notin DOMAIN journal
    BY <2>1, AddsAt
  <2>3. \A i \in DOMAIN journal' \ DOMAIN journal :
           journal'[i].type = type => i = Len(journal) + d
    BY <1>1, <2>2 DEF Once
  <2>4. Logged(type)' = Logged(type) \cup {Len(journal) + d}
    BY <2>1, <2>2, <2>3 DEF Logged
  <2> QED BY <2>2, <2>4
<1> QED BY <1>1

\* An event stays in the journal as it is.
LEMMA JournalStays ==
    ASSUME TypeOK, JournalInv, [Next]_vars
    PROVE  /\ \A i \in DOMAIN journal : i \in DOMAIN journal' /\ journal'[i] = journal[i]
           /\ \A i \in DOMAIN journal' \ DOMAIN journal : i \in Nat /\ Len(journal) < i
           /\ DOMAIN journal = 1 .. Len(journal) /\ Len(journal) \in Nat
           /\ DOMAIN journal' = 1 .. Len(journal') /\ Len(journal') \in Nat
<1>0. PICK T : \E t \in Seq(T) : Adds(t) /\ Brackets(t)
  BY NextBrackets
<1>1. PICK t \in Seq(T) : Adds(t)
  BY <1>0
<1> QED BY <1>1, AddsAt DEF JournalInv

Judgements == LoggedAt("failure", "judged")
Succeeded == LoggedAt("transition", "succeeded")

\* A hushed step changes none of these logs.
LEMMA HushedLogs ==
    ASSUME JournalTyped, NEW T, NEW t \in Seq(T), Adds(t), \A k \in DOMAIN t : Hushed(t[k])
    PROVE  /\ Logged("tool-call")' = Logged("tool-call")
           /\ Logged("model-call")' = Logged("model-call")
           /\ Logged("unit")' = Logged("unit")
           /\ Logged("released")' = Logged("released")
           /\ Logged("started")' = Logged("started")
           /\ Judgements' = Judgements /\ Succeeded' = Succeeded
<1>1. /\ \A k \in DOMAIN t : t[k].type # "tool-call"
      /\ \A k \in DOMAIN t : t[k].type # "model-call"
      /\ \A k \in DOMAIN t : t[k].type # "unit"
      /\ \A k \in DOMAIN t : t[k].type # "released"
      /\ \A k \in DOMAIN t : t[k].type # "started"
  BY DEF Hushed
<1>2. /\ Logged("tool-call")' = Logged("tool-call")
      /\ Logged("model-call")' = Logged("model-call")
      /\ Logged("unit")' = Logged("unit")
      /\ Logged("released")' = Logged("released")
      /\ Logged("started")' = Logged("started")
  BY <1>1, LoggedStays
<1>3. /\ \A i \in DOMAIN journal : i \in DOMAIN journal' /\ journal'[i] = journal[i]
      /\ \A i \in DOMAIN journal' \ DOMAIN journal : Hushed(journal'[i])
  BY AddsAt
<1>4. /\ \A i \in DOMAIN journal' \ DOMAIN journal :
            /\ ~(journal'[i].type = "failure" /\ journal'[i].what = "judged")
            /\ ~(journal'[i].type = "transition" /\ journal'[i].what = "succeeded")
  BY <1>3 DEF Hushed
<1>5. Judgements' = Judgements
  BY <1>3, <1>4 DEF Judgements, LoggedAt, Logged
<1>6. Succeeded' = Succeeded
  BY <1>3, <1>4 DEF Succeeded, LoggedAt, Logged
<1> QED BY <1>2, <1>5, <1>6

\* What a node that came back does not report.
LEMMA ShapeLogs ==
    ASSUME JournalTyped, NEW t, NEW records, NEW roles, Adds(t), Shape(t, records, roles)
    PROVE  /\ \A type : /\ type \notin {"receipt", "visible", "unit", "transition"}
                        /\ \A k \in DOMAIN records : records[k].type # type
                        => Logged(type)' = Logged(type)
           /\ roles = {} /\ (\A k \in DOMAIN records : records[k].type # "unit")
                        => Logged("unit")' = Logged("unit")
<1>1. \A k \in DOMAIN t :
         \/ k \in DOMAIN records /\ t[k] = records[k]
         \/ t[k].type \in {"receipt", "visible"}
         \/ t[k].type = "unit" /\ roles # {}
         \/ t[k].type = "transition"
  <2>1. \A r : UnitEvent(r).type = "unit"
    BY DEF UnitEvent, Event
  <2>2. Came.type = "transition"
    BY DEF Came, Transition, Event
  <2> QED BY <2>1, <2>2 DEF Shape
<1>2. t \in Seq(Events)
  BY DEF Shape
<1>3. ASSUME NEW type, type \notin {"receipt", "visible", "unit", "transition"},
             \A k \in DOMAIN records : records[k].type # type
      PROVE  Logged(type)' = Logged(type)
  <2>1. \A k \in DOMAIN t : t[k].type # type
    BY <1>1, <1>3
  <2> QED BY <1>2, <2>1, LoggedStays
<1>4. ASSUME roles = {}, \A k \in DOMAIN records : records[k].type # "unit"
      PROVE  Logged("unit")' = Logged("unit")
  <2>1. \A k \in DOMAIN t : t[k].type # "unit"
    BY <1>1, <1>4
  <2> QED BY <1>2, <2>1, LoggedStays
<1> QED BY <1>3, <1>4

\* The calls and the releases that each step reports.
LEMMA StepsLog ==
    ASSUME TypeOK, JournalInv, [Next]_vars
    PROVE  /\ \/ Logged("tool-call")' = Logged("tool-call")
              \/ \E ok \in BOOLEAN : ToolReturns(ok)
              \/ CallFails /\ plan.kind[node] = "tool.invoke"
           /\ \/ Logged("model-call")' = Logged("model-call")
              \/ ModelReturns \/ JudgePasses \/ JudgeRevises
           /\ Judgements' = Judgements \/ JudgeRevises
           /\ Logged("released")' = Logged("released") \/ Close
           /\ Logged("started")' = Logged("started") \/ Open
<1>0. JournalTyped
  BY DEF JournalInv
<1>1. CASE \/ RunNode \/ UnknownKind \/ StopAtVisitCap \/ Stopped \/ NoRoomForPrompt
           \/ NothingToWorkOn \/ AskApproval \/ Silence \/ Decline \/ Settle
           \/ RefuseToCompile \/ StopAtCap \/ Call \/ FollowEdge \/ PassOverEdge \/ BadGuard
           \/ Environment \/ UNCHANGED vars
  BY <1>0, <1>1, HushedSteps, HushedLogs
<1>2. CASE Open
  <2>1. PICK t : Adds(t) /\ Opening(t)
    BY <1>2, OpenAdds
  <2>2. \A k \in DOMAIN t : t[k].type \in {"started", "unit"}
    BY <2>1 DEF Opening, Event
  <2>3. t \in Seq(Events)
    BY <2>1 DEF Opening
  <2>4. /\ \A k \in DOMAIN t : t[k].type # "tool-call"
        /\ \A k \in DOMAIN t : t[k].type # "model-call"
        /\ \A k \in DOMAIN t : t[k].type # "failure"
        /\ \A k \in DOMAIN t : t[k].type # "released"
    BY <2>2
  <2> QED BY <1>0, <1>2, <2>1, <2>3, <2>4, LoggedStays DEF Judgements
<1>3. CASE Close
  <2>1. PICK t : Adds(t) /\ Closing(t)
    BY <1>0, <1>3, CloseAdds
  <2>2. \A k \in DOMAIN t : t[k].type \in {"released", "repair", "finished"}
    BY <2>1 DEF Closing, Event
  <2>3. t \in Seq(Events)
    BY <2>1 DEF Closing
  <2>4. /\ \A k \in DOMAIN t : t[k].type # "tool-call"
        /\ \A k \in DOMAIN t : t[k].type # "model-call"
        /\ \A k \in DOMAIN t : t[k].type # "failure"
        /\ \A k \in DOMAIN t : t[k].type # "started"
    BY <2>2
  <2> QED BY <1>0, <1>3, <2>1, <2>3, <2>4, LoggedStays DEF Judgements
<1>4. ASSUME NEW records, NEW roles, Leaving(records, roles)
      PROVE  /\ (\A k \in DOMAIN records : records[k].type # "tool-call") =>
                    Logged("tool-call")' = Logged("tool-call")
             /\ (\A k \in DOMAIN records : records[k].type # "model-call") =>
                    Logged("model-call")' = Logged("model-call")
             /\ (\A k \in DOMAIN records : records[k].type # "failure") =>
                    Judgements' = Judgements
             /\ (\A k \in DOMAIN records : records[k].type # "released") =>
                    Logged("released")' = Logged("released")
             /\ (\A k \in DOMAIN records : records[k].type # "started") =>
                    Logged("started")' = Logged("started")
  <2>1. PICK t : Adds(t) /\ Shape(t, records, roles)
    BY <1>4 DEF Leaving
  <2>2. /\ (\A k \in DOMAIN records : records[k].type # "tool-call") =>
               Logged("tool-call")' = Logged("tool-call")
        /\ (\A k \in DOMAIN records : records[k].type # "model-call") =>
               Logged("model-call")' = Logged("model-call")
        /\ (\A k \in DOMAIN records : records[k].type # "failure") =>
               Logged("failure")' = Logged("failure")
        /\ (\A k \in DOMAIN records : records[k].type # "released") =>
               Logged("released")' = Logged("released")
        /\ (\A k \in DOMAIN records : records[k].type # "started") =>
               Logged("started")' = Logged("started")
    BY <1>0, <2>1, ShapeLogs
  <2>3. ASSUME Logged("failure")' = Logged("failure") PROVE Judgements' = Judgements
    <3>1. \A i \in Logged("failure") : journal'[i] = journal[i]
      BY JournalStays DEF Logged
    <3> QED BY <2>3, <3>1 DEF Judgements, LoggedAt
  <2> QED BY <2>2, <2>3
<1>5. CASE Intake \/ Research \/ BelowFloor \/ Respond
  <2>1. DOMAIN <<>> = {}
    OBVIOUS
  <2>2. \E roles : Leaving(<<>>, roles)
    BY <1>5, NodesAdd
  <2> QED BY <1>4, <2>1, <2>2
<1>6. CASE ModelReturns \/ JudgePasses
  <2>1. /\ \A k \in DOMAIN CallRecords : CallRecords[k].type # "tool-call"
        /\ \A k \in DOMAIN CallRecords : CallRecords[k].type # "failure"
        /\ \A k \in DOMAIN CallRecords : CallRecords[k].type # "released"
        /\ \A k \in DOMAIN CallRecords : CallRecords[k].type # "started"
    BY RecordsAre
  <2>2. \E roles : Leaving(CallRecords, roles)
    BY <1>6, NodesAdd
  <2> QED BY <1>4, <1>6, <2>1, <2>2
<1>7. CASE JudgeRevises
  <2>1. /\ \A k \in DOMAIN Rejection : Rejection[k].type # "tool-call"
        /\ \A k \in DOMAIN Rejection : Rejection[k].type # "released"
        /\ \A k \in DOMAIN Rejection : Rejection[k].type # "started"
    BY RecordsAre
  <2>2. \E roles : Leaving(Rejection, roles)
    BY <1>7, NodesAdd
  <2> QED BY <1>4, <1>7, <2>1, <2>2
<1>8. ASSUME NEW ok \in BOOLEAN, ToolReturns(ok)
      PROVE  /\ Logged("model-call")' = Logged("model-call")
             /\ Judgements' = Judgements
             /\ Logged("released")' = Logged("released")
             /\ Logged("started")' = Logged("started")
  <2>1. \A k \in DOMAIN ToolRecord(ok) : ToolRecord(ok)[k].type = "tool-call"
    BY RecordsAre
  <2>2. \E roles : Leaving(ToolRecord(ok), roles)
    BY <1>8, NodesAdd
  <2> QED BY <1>4, <2>1, <2>2
<1>9. CASE Approve
  <2> DEFINE d == DecisionEvents("approved")
  <2>1. d \in Seq(Decisions)
    BY DecisionsAre
  <2>2. \A e \in Decisions : e.type \in {"visible", "unknown", "approval"}
    BY DEF Decisions, EventsOf
  <2>3. Leaving(d, {})
    BY <1>9, NodesAdd
  <2> HIDE DEF d
  <2>4. \A k \in DOMAIN d : d[k].type \in {"visible", "unknown", "approval"}
    BY <2>1, <2>2, ElementOfSeq, LenProperties
  <2> QED BY <1>4, <2>3, <2>4
<1>10. CASE CallFails
  <2>1. PICK t : Adds(t) /\ Failing(t, node, FailureRecords)
    BY <1>10, StepsAdd
  <2>2. \A k \in DOMAIN t \ DOMAIN FailureRecords : t[k].type \in {"transition", "finished"}
    BY <2>1 DEF Failing, Transition, Finished, Event
  <2>3. \A k \in DOMAIN t :
           \/ k \in DOMAIN FailureRecords /\ t[k] = FailureRecords[k]
           \/ t[k].type \in {"transition", "finished"}
    BY <2>1, <2>2 DEF Failing
  <2>4. \/ plan.kind[node] = "tool.invoke" /\ \A k \in DOMAIN FailureRecords : FailureRecords[k].type = "tool-call"
        \/ \A k \in DOMAIN FailureRecords : FALSE
    <3>1. CASE FailureRecords = <<>>
      BY <3>1
    <3>2. CASE /\ plan.kind[node] = "tool.invoke"
               /\ DOMAIN FailureRecords = {1} /\ FailureRecords[1].type = "tool-call"
      BY <3>2
    <3> QED BY <3>1, <3>2, RecordsAre
  <2>5. /\ \A k \in DOMAIN t : t[k].type # "model-call"
        /\ \A k \in DOMAIN t : t[k].type # "failure"
        /\ \A k \in DOMAIN t : t[k].type # "released"
        /\ \A k \in DOMAIN t : t[k].type # "started"
        /\ plan.kind[node] # "tool.invoke" => \A k \in DOMAIN t : t[k].type # "tool-call"
    BY <2>3, <2>4
  <2>6. t \in Seq(Events)
    BY <2>1 DEF Failing
  <2> QED BY <1>0, <1>10, <2>1, <2>5, <2>6, LoggedStays DEF Judgements
<1> QED BY <1>1, <1>2, <1>3, <1>5, <1>6, <1>7, <1>8, <1>9, <1>10
        DEF Next, Executes, Outside, Returned

-----------------------------------------------------------------------------
(* Every tool call has its record. *)

Sent == {i \in DOMAIN issued : plan.kind[issued[i].at] = "tool.invoke"}
InFlight == pc = "calling" /\ plan.kind[node] = "tool.invoke"
Over == pc \in {"closing", "returned"}
Interrupted == forced \in {"cancelled", "budget-exhausted"}

IssuedTyped == issued \in Seq([at : NodesOf(plan), arg : Nat, after : Nat])

(***************************************************************************)
(* Inductive invariant: while the run goes on, the tool calls sent and the *)
(* records are as many, but for the call in flight; once it is over a      *)
(* record may only lack if the run was interrupted.                        *)
(***************************************************************************)
ToolInv ==
    LET sent == Cardinality(Sent)
        told == Cardinality(Logged("tool-call"))
    IN  /\ IssuedTyped
        /\ ~Over => sent = told + IF InFlight THEN 1 ELSE 0
        /\ Over => told <= sent /\ sent <= told + IF Interrupted THEN 1 ELSE 0

LEMMA ToolCounts ==
    ASSUME JournalTyped, IssuedTyped
    PROVE  /\ IsFiniteSet(Sent) /\ Cardinality(Sent) \in Nat
           /\ IsFiniteSet(Logged("tool-call")) /\ Cardinality(Logged("tool-call")) \in Nat
<1>1. /\ DOMAIN issued = 1 .. Len(issued) /\ Len(issued) \in Nat
      /\ DOMAIN journal = 1 .. Len(journal) /\ Len(journal) \in Nat
  BY LenProperties DEF IssuedTyped, JournalTyped
<1>2. IsFiniteSet(DOMAIN issued) /\ IsFiniteSet(DOMAIN journal)
  BY <1>1, FS_Interval
<1>3. Sent \subseteq DOMAIN issued /\ Logged("tool-call") \subseteq DOMAIN journal
  BY DEF Sent, Logged
<1>4. IsFiniteSet(Sent) /\ IsFiniteSet(Logged("tool-call"))
  BY <1>2, <1>3, FS_Subset
<1> QED BY <1>4, FS_CardinalityType

\* Sending a call.
LEMMA CallSends ==
    ASSUME TypeOK, JournalTyped, IssuedTyped, Call
    PROVE  /\ IssuedTyped'
           /\ Cardinality(Sent') = Cardinality(Sent) + IF InFlight' THEN 1 ELSE 0
           /\ ~InFlight /\ ~Over /\ ~Over'
<1> DEFINE c == [at |-> node, arg |-> CallArgument, after |-> Len(journal)]
           n == Len(issued) + 1
           R == [at : NodesOf(plan), arg : Nat, after : Nat]
<1>1. pc = "running" /\ pc' = "calling" /\ UNCHANGED <<plan, node>> /\ issued' = Append(issued, c)
  BY DEF Call, ReadyToCall, Running, progress
<1>2. c \in R
  <2>1. node \in NodesOf(plan) /\ CallArgument \in Nat /\ Len(journal) \in Nat
    BY <1>1, EventParts, LenProperties DEF TypeOK, JournalTyped
  <2> QED BY <2>1
<1>3. c.at = node
  OBVIOUS
<1> HIDE DEF c, R
<1>4. /\ issued' \in Seq(R) /\ Len(issued') = n /\ issued'[n] = c
      /\ \A i \in DOMAIN issued : i \in DOMAIN issued' /\ issued'[i] = issued[i]
      /\ DOMAIN issued' = DOMAIN issued \cup {n} /\ n \notin DOMAIN issued
  <2>1. issued \in Seq(R)
    BY DEF IssuedTyped, R
  <2>2. /\ issued' \in Seq(R) /\ Len(issued') = n /\ issued'[n] = c
        /\ \A i \in 1 .. Len(issued) : issued'[i] = issued[i]
    BY <1>1, <1>2, <2>1, AppendProperties
  <2>3. /\ DOMAIN issued = 1 .. Len(issued) /\ Len(issued) \in Nat
        /\ DOMAIN issued' = 1 .. n
    BY <2>1, <2>2, LenProperties
  <2> QED BY <2>2, <2>3
<1>5. IssuedTyped'
  BY <1>1, <1>4 DEF IssuedTyped, R
<1>6. InFlight' <=> plan.kind[node] = "tool.invoke"
  BY <1>1 DEF InFlight
<1>7. Sent' = IF InFlight' THEN Sent \cup {n} ELSE Sent
  <2>1. \A i \in DOMAIN issued' :
           plan'.kind[issued'[i].at] = "tool.invoke" <=>
               IF i = n THEN InFlight' ELSE i \in Sent
    BY <1>1, <1>3, <1>4, <1>6 DEF Sent
  <2>2. Sent' = {i \in DOMAIN issued' : plan'.kind[issued'[i].at] = "tool.invoke"}
    BY DEF Sent
  <2>3. Sent \subseteq DOMAIN issued
    BY DEF Sent
  <2> HIDE DEF n
  <2> QED BY <1>4, <2>1, <2>2, <2>3
<1>8. n \notin Sent
  BY <1>4 DEF Sent
<1>9. Cardinality(Sent') = Cardinality(Sent) + IF InFlight' THEN 1 ELSE 0
  <2>1. CASE InFlight'
    <3>1. Sent' = Sent \cup {n}
      BY <1>7, <2>1
    <3> HIDE DEF n
    <3> QED BY <1>8, <2>1, <3>1, ToolCounts, FS_AddElement
  <2>2. CASE ~InFlight'
    <3>1. Sent' = Sent
      BY <1>7, <2>2
    <3> QED BY <2>2, <3>1, ToolCounts
  <2> QED BY <2>1, <2>2
<1> QED BY <1>1, <1>5, <1>9 DEF InFlight, Over

\* A tool that answers, or fails, leaves one record.
LEMMA ToolTells ==
    ASSUME TypeOK, JournalInv,
           \/ \E ok \in BOOLEAN : ToolReturns(ok)
           \/ CallFails /\ plan.kind[node] = "tool.invoke"
    PROVE  /\ Cardinality(Logged("tool-call")') = Cardinality(Logged("tool-call")) + 1
           /\ InFlight /\ ~InFlight' /\ ~Over /\ UNCHANGED <<issued, plan>>
<1>0. JournalTyped
  BY DEF JournalInv
<1>1. ASSUME NEW T, NEW t \in Seq(T), Adds(t), Once(t, "tool-call", 1)
      PROVE  Cardinality(Logged("tool-call")') = Cardinality(Logged("tool-call")) + 1
  <2>1. PICK j \in DOMAIN journal' \ DOMAIN journal :
               Logged("tool-call")' = Logged("tool-call") \cup {j}
    BY <1>0, <1>1, LoggedOnceMore
  <2>2. IsFiniteSet(Logged("tool-call")) /\ j \notin Logged("tool-call")
    <3>1. DOMAIN journal = 1 .. Len(journal) /\ Len(journal) \in Nat
      BY <1>0, LenProperties DEF JournalTyped
    <3>2. IsFiniteSet(DOMAIN journal)
      BY <3>1, FS_Interval
    <3> QED BY <2>1, <3>2, FS_Subset DEF Logged
  <2> QED BY <2>1, <2>2, FS_AddElement
<1>2. ASSUME NEW ok \in BOOLEAN, ToolReturns(ok)
      PROVE  /\ Cardinality(Logged("tool-call")') = Cardinality(Logged("tool-call")) + 1
             /\ InFlight /\ ~InFlight' /\ ~Over /\ UNCHANGED <<issued, plan>>
  <2>1. PICK t : Adds(t) /\ Shape(t, ToolRecord(ok), {"tool-result"})
    BY <1>2, NodesAdd DEF Leaving
  <2>2. DOMAIN ToolRecord(ok) = {1} /\ ToolRecord(ok)[1].type = "tool-call"
    BY RecordsAre
  <2>3. 1 \in DOMAIN t /\ t[1].type = "tool-call"
    BY <2>1, <2>2 DEF Shape
  <2>4. \A k \in DOMAIN t : t[k].type = "tool-call" => k = 1
    <3>1. \A r : UnitEvent(r).type = "unit"
      BY DEF UnitEvent, Event
    <3>2. Came.type = "transition"
      BY DEF Came, Transition, Event
    <3> QED BY <2>1, <2>2, <3>1, <3>2 DEF Shape
  <2>5. t \in Seq(Events)
    BY <2>1 DEF Shape
  <2>6. InFlight /\ ~InFlight' /\ ~Over /\ UNCHANGED <<issued, plan>>
    BY <1>2 DEF ToolReturns, Calling, Commit, Stops, InFlight, Over
  <2>7. Once(t, "tool-call", 1)
    BY <2>3, <2>4 DEF Once
  <2> QED BY <1>1, <2>1, <2>5, <2>6, <2>7
<1>3. ASSUME CallFails, plan.kind[node] = "tool.invoke"
      PROVE  /\ Cardinality(Logged("tool-call")') = Cardinality(Logged("tool-call")) + 1
             /\ InFlight /\ ~InFlight' /\ ~Over /\ UNCHANGED <<issued, plan>>
  <2>1. PICK t : Adds(t) /\ Failing(t, node, FailureRecords)
    BY <1>3, StepsAdd
  <2>2. DOMAIN FailureRecords = {1} /\ FailureRecords[1].type = "tool-call"
    BY <1>3, RecordsAre
  <2>3. 1 \in DOMAIN t /\ t[1].type = "tool-call"
    BY <2>1, <2>2 DEF Failing
  <2>4. \A k \in DOMAIN t : t[k].type = "tool-call" => k = 1
    <3>1. Transition(node, "failed").type = "transition" /\ Finished("failed").type = "finished"
      BY DEF Transition, Finished, Event
    <3> QED BY <2>1, <2>2, <3>1 DEF Failing
  <2>5. t \in Seq(Events)
    BY <2>1 DEF Failing
  <2>6. InFlight /\ ~InFlight' /\ ~Over /\ UNCHANGED <<issued, plan>>
    BY <1>3 DEF CallFails, Calling, NodeError, Fails, InFlight, Over
  <2>7. Once(t, "tool-call", 1)
    BY <2>3, <2>4 DEF Once
  <2> QED BY <1>1, <2>1, <2>5, <2>6, <2>7
<1> QED BY <1>2, <1>3

\* The other steps send nothing and, but for an interruption, lose no call in
\* flight.
LEMMA OthersSendNothing ==
    ASSUME TypeOK, [Next]_vars, ~Call, ~Stopped, \A ok \in BOOLEAN : ~ToolReturns(ok),
           ~(CallFails /\ plan.kind[node] = "tool.invoke")
    PROVE  /\ UNCHANGED <<issued, plan>>
           /\ Over => Over' /\ (Interrupted => Interrupted')
           /\ ~Over => IF Over' THEN ~InFlight ELSE InFlight' <=> InFlight
<1> USE DEF knowledge, progress, schedule, answer, world
<1>1. CASE Open \/ RefuseToCompile
  BY <1>1 DEF Open, RefuseToCompile, Over, InFlight
<1>2. CASE StopAtCap \/ StopAtVisitCap \/ RunNode \/ UnknownKind
  <2>1. pc = "pop" /\ pc' \in {"running", "closing", "returned"} /\ UNCHANGED <<issued, plan>>
    BY <1>2 DEF StopAtCap, StopAtVisitCap, RunNode, UnknownKind, Visit, Pop, Stops, Fails
  <2> QED BY <2>1 DEF Over, InFlight
<1>3. CASE Intake \/ Research \/ Respond \/ BelowFloor
  <2>1. pc = "running" /\ UNCHANGED <<issued, plan>>
    BY <1>3 DEF Intake, Research, Respond, BelowFloor, Running
  <2>2. pc' \in {"routing", "closing"}
    BY <1>3, NodesComeBack
  <2> QED BY <2>1, <2>2 DEF Over, InFlight
<1>4. CASE NothingToWorkOn \/ NoRoomForPrompt \/ AskApproval
  BY <1>4 DEF NothingToWorkOn, NodeError, Fails, NoRoomForPrompt, AskApproval, Running,
              Stops, Over, InFlight
<1>5. CASE Silence \/ Decline \/ Approve
  <2>1. pc = "awaiting" /\ UNCHANGED <<issued, plan>> /\ pc' \in {"routing", "closing"}
    BY <1>5, NodesComeBack DEF Silence, Decline, Refuse, Approve, Stops
  <2> QED BY <2>1 DEF Over, InFlight
<1>6. CASE FollowEdge \/ PassOverEdge \/ BadGuard \/ Settle
  BY <1>6 DEF FollowEdge, PassOverEdge, BadGuard, Settle, Stops, Over, InFlight
<1>7. CASE Close
  <2>1. UNCHANGED <<issued, plan>> /\ Over' /\ ~InFlight
    BY <1>7 DEF Close, Over, InFlight
  <2>2. Interrupted => Interrupted'
    BY <1>7 DEF Close, Status, Interrupted
  <2> QED BY <2>1, <2>2
<1>8. CASE ModelReturns \/ JudgePasses \/ JudgeRevises
  <2>1. pc = "calling" /\ UNCHANGED <<issued, plan>> /\ plan.kind[node] # "tool.invoke"
    BY <1>8 DEF ModelReturns, JudgePasses, JudgeRevises, Calling
  <2>2. pc' \in {"routing", "closing"}
    BY <1>8, NodesComeBack
  <2> QED BY <2>1, <2>2 DEF Over, InFlight
<1>9. CASE CallFails
  BY <1>9 DEF CallFails, NodeError, Fails, Calling, Over, InFlight
<1>10. CASE Environment \/ UNCHANGED vars
  BY <1>10 DEF Environment, Cancel, Expire, vars, Over, InFlight, Interrupted
<1> QED BY <1>1, <1>2, <1>3, <1>4, <1>5, <1>6, <1>7, <1>8, <1>9, <1>10
        DEF Next, Executes, Outside, Returned

LEMMA ToolsKept ==
    ASSUME TypeOK, JournalInv, ToolInv, [Next]_vars
    PROVE  ToolInv'
<1>0. JournalTyped /\ IssuedTyped
  BY DEF JournalInv, ToolInv
<1>1. PICK n \in Nat, m \in Nat : n = Cardinality(Sent) /\ m = Cardinality(Logged("tool-call"))
  BY <1>0, ToolCounts
<1>2. /\ ~Over => n = m + IF InFlight THEN 1 ELSE 0
      /\ Over => m <= n /\ n <= m + IF Interrupted THEN 1 ELSE 0
  BY <1>1 DEF ToolInv
<1>3. /\ ~Call /\ ~(\E ok \in BOOLEAN : ToolReturns(ok))
         /\ ~(CallFails /\ plan.kind[node] = "tool.invoke")
         => Cardinality(Logged("tool-call")') = m
      /\ Call => Cardinality(Logged("tool-call")') = m
  <2>1. Call => /\ ~(\E ok \in BOOLEAN : ToolReturns(ok))
                /\ ~(CallFails /\ plan.kind[node] = "tool.invoke")
    BY DEF Call, ReadyToCall, Running, ToolReturns, Calling, CallFails
  <2> QED BY <1>1, <2>1, StepsLog
<1>4. UNCHANGED <<issued, plan>> => IssuedTyped' /\ Cardinality(Sent') = n
  BY <1>0, <1>1 DEF IssuedTyped, Sent
<1>5. CASE Call
  <2>1. /\ IssuedTyped' /\ ~InFlight /\ ~Over /\ ~Over'
        /\ Cardinality(Sent') = n + IF InFlight' THEN 1 ELSE 0
    BY <1>0, <1>1, <1>5, CallSends
  <2> QED BY <1>2, <1>3, <1>5, <2>1 DEF ToolInv
<1>6. CASE \/ \E ok \in BOOLEAN : ToolReturns(ok)
           \/ CallFails /\ plan.kind[node] = "tool.invoke"
  <2>1. /\ Cardinality(Logged("tool-call")') = m + 1
        /\ InFlight /\ ~InFlight' /\ ~Over /\ UNCHANGED <<issued, plan>>
    BY <1>1, <1>6, ToolTells
  <2>2. n = m + 1 /\ IssuedTyped' /\ Cardinality(Sent') = n
    BY <1>2, <1>4, <2>1
  <2> QED BY <2>1, <2>2 DEF ToolInv
<1>7. CASE Stopped
  <2>1. /\ UNCHANGED <<issued, plan>> /\ ~Over /\ Over' /\ Interrupted'
    BY <1>7 DEF Stopped, Stops, StopStatus, Over, Interrupted
  <2>2. Cardinality(Logged("tool-call")') = m
    BY <1>3, <1>7 DEF Stopped, Call, ReadyToCall, Running, Live, ToolReturns, Calling, CallFails
  <2>3. m <= n /\ n <= m + 1
    BY <1>2, <2>1
  <2> QED BY <1>4, <2>1, <2>2, <2>3 DEF ToolInv
<1>8. CASE /\ ~Call /\ ~Stopped /\ ~(\E ok \in BOOLEAN : ToolReturns(ok))
           /\ ~(CallFails /\ plan.kind[node] = "tool.invoke")
  <2>1. /\ UNCHANGED <<issued, plan>>
        /\ Over => Over' /\ (Interrupted => Interrupted')
        /\ ~Over => IF Over' THEN ~InFlight ELSE InFlight' <=> InFlight
    BY <1>8, OthersSendNothing
  <2>2. Cardinality(Logged("tool-call")') = m /\ IssuedTyped' /\ Cardinality(Sent') = n
    BY <1>3, <1>4, <1>8, <2>1
  <2>3. ~Over' => n = m + IF InFlight' THEN 1 ELSE 0
    BY <1>2, <2>1
  <2>4. Over' => m <= n /\ n <= m + IF Interrupted' THEN 1 ELSE 0
    BY <1>2, <2>1
  <2> QED BY <2>2, <2>3, <2>4 DEF ToolInv
<1> QED BY <1>5, <1>6, <1>7, <1>8

LEMMA ToolsStart == Init => ToolInv
<1> SUFFICES ASSUME Init PROVE ToolInv
  OBVIOUS
<1>1. issued = <<>> /\ journal = <<>> /\ pc = "new"
  BY DEF Init
<1>2. Sent = {} /\ Logged("tool-call") = {}
  BY <1>1 DEF Sent, Logged
<1>3. Cardinality(Sent) = 0 /\ Cardinality(Logged("tool-call")) = 0
  BY <1>2, FS_EmptySet
<1>4. IssuedTyped
  BY <1>1 DEF IssuedTyped
<1> QED BY <1>1, <1>3, <1>4 DEF ToolInv, Over, InFlight

\* Every plan: every tool call that left the process has its record, except
\* one that an interruption abandoned in flight.
THEOREM ToolCallsHaveRecords == Spec => []ToolCallsAreRecorded
<1>1. Init => ToolInv
  BY ToolsStart
<1>2. TypeInv /\ JournalInv /\ JournalEndsOnce /\ ToolInv /\ [Next]_vars
          => TypeInv' /\ JournalInv' /\ JournalEndsOnce' /\ ToolInv'
  BY NextTypes, NextJournal, ToolsKept DEF TypeInv
<1>3. JournalInv /\ ToolInv => ToolCallsAreRecorded
  <2>1. ASSUME JournalInv, ToolInv PROVE ToolCallsAreRecorded
    <3>1. Cardinality(Sent) \in Nat /\ Cardinality(Logged("tool-call")) \in Nat
      BY <2>1, ToolCounts DEF JournalInv, ToolInv
    <3> DEFINE excused == pc = "calling" \/ forced \in {"cancelled", "budget-exhausted"}
    <3>2. /\ Cardinality(Logged("tool-call")) <= Cardinality(Sent)
          /\ Cardinality(Sent) <= Cardinality(Logged("tool-call")) + IF excused THEN 1 ELSE 0
      <4>1. CASE ~Over
        BY <2>1, <3>1, <4>1 DEF ToolInv, InFlight
      <4>2. CASE Over
        BY <2>1, <3>1, <4>2 DEF ToolInv, Interrupted
      <4> QED BY <4>1, <4>2
    <3> QED BY <3>2 DEF ToolCallsAreRecorded, Sent
  <2> QED BY <2>1
<1> QED BY <1>1, <1>2, <1>3, InitTypes, InitJournal, PTL DEF Spec

-----------------------------------------------------------------------------
(* A tool on a straight stretch is called once. *)

(***************************************************************************)
(* Inductive invariant.  On a straight stretch an edge has led on only     *)
(* once the node it leaves was visited and is done with it; so a node is   *)
(* queued before its only visit, and calls out at most once.               *)
(***************************************************************************)
Visited == pc \in {"running", "calling", "awaiting", "routing"} => visits[node] # 0

Fresh ==
    pc = "new" => queued = {} /\ issued = <<>> /\ \A n \in NodesOf(plan) : visits[n] = 0

Reached(n) == n \in queued \/ visits[n] # 0
Resting == pc \in {"pop", "closing", "returned"}
Past(m, i) ==
    /\ visits[m] = 1
    /\ node = m => Resting \/ (pc = "routing" /\ i < edge)

ComesOnce(S) == \A n \in S : visits[n] <= 1 /\ (n \in queued => visits[n] = 0)
LedOn(S) ==
    \A m, n \in S : \A i \in DOMAIN plan.succ[m] :
        plan.succ[m][i].to = n /\ Reached(n) => Past(m, i)
CallsOnce(S) ==
    /\ \A i \in DOMAIN issued :
          issued[i].at \in S => visits[issued[i].at] = 1 /\ (pc = "running" => issued[i].at # node)
    /\ \A i, j \in DOMAIN issued : issued[i].at \in S /\ issued[i].at = issued[j].at => i = j

OnceOver(S) == ComesOnce(S) /\ LedOn(S) /\ CallsOnce(S)

OnceInv ==
    /\ Visited /\ Fresh
    /\ \A S \in SUBSET NodesOf(plan) : Straight(plan, S) => OnceOver(S)

\* Steps that visit nothing, queue nothing, send nothing and move on.
Onward ==
    /\ UNCHANGED <<plan, node, visits, queued, issued>>
    /\ Resting => Resting'
    /\ pc = "routing" => Resting' \/ (pc' = "routing" /\ edge <= edge')
    /\ pc' = "running" => pc = "running"
    /\ pc' \in {"running", "calling", "awaiting", "routing"} =>
          pc \in {"running", "calling", "awaiting", "routing"}

LEMMA StepsOnward ==
    ASSUME TypeOK, [Next]_vars
    PROVE  \/ Onward
           \/ Open \/ StopAtCap \/ StopAtVisitCap \/ RunNode \/ UnknownKind \/ Call \/ FollowEdge
<1> USE DEF knowledge, progress, schedule, answer, world
<1>0. edge \in Nat
  BY DEF TypeOK
<1>1. CASE RefuseToCompile
  BY <1>1 DEF RefuseToCompile, Onward, Resting
<1>2. CASE \/ Intake \/ Research \/ BelowFloor \/ Respond \/ ModelReturns \/ JudgePasses
           \/ JudgeRevises \/ Approve \/ \E ok \in BOOLEAN : ToolReturns(ok)
  <2>1. Executing /\ pc' \in {"routing", "closing"}
    <3>1. TRUE \in BOOLEAN
      OBVIOUS
    <3> QED BY <1>2, <3>1, NodesComeBack
  <2>2. UNCHANGED <<plan, node, visits, queued, issued>>
    BY <1>2 DEF Intake, Research, BelowFloor, Respond, ModelReturns, JudgePasses,
       JudgeRevises, Approve, ToolReturns
  <2> QED BY <2>1, <2>2 DEF Onward, Resting, Executing
<1>3. CASE NothingToWorkOn \/ NoRoomForPrompt \/ AskApproval \/ Stopped \/ CallFails
  <2>1. pc \in {"running", "calling"} /\ pc' \in {"closing", "returned", "awaiting"}
    BY <1>3 DEF NothingToWorkOn, NodeError, Fails, NoRoomForPrompt, AskApproval, Stopped,
       CallFails, Running, Calling, Stops
  <2>2. UNCHANGED <<plan, node, visits, queued, issued>>
    BY <1>3 DEF NothingToWorkOn, NodeError, NoRoomForPrompt, AskApproval, Stopped, CallFails
  <2> QED BY <2>1, <2>2 DEF Onward, Resting
<1>4. CASE Silence \/ Decline
  BY <1>4 DEF Silence, Decline, Refuse, Stops, Onward, Resting
<1>5. CASE PassOverEdge \/ BadGuard
  BY <1>0, <1>5 DEF PassOverEdge, BadGuard, Onward, Resting
<1>6. CASE Settle
  <2>1. pc = "routing" /\ pc' \in {"pop", "closing"} /\ UNCHANGED <<plan, node, visits, queued, issued>>
    BY <1>6 DEF Settle, Stops
  <2> QED BY <2>1 DEF Onward, Resting
<1>7. CASE Close
  BY <1>7 DEF Close, Onward, Resting
<1>8. CASE Environment \/ UNCHANGED vars
  <2>1. UNCHANGED <<plan, node, visits, queued, issued, pc, edge>>
    BY <1>8 DEF Environment, Cancel, Expire, vars
  <2> QED BY <1>0, <2>1 DEF Onward, Resting
<1> QED BY <1>1, <1>2, <1>3, <1>4, <1>5, <1>6, <1>7, <1>8
        DEF Next, Executes, Outside, Returned

\* The node that runs was visited.
LEMMA VisitedKept ==
    ASSUME TypeOK, Visited, [Next]_vars
    PROVE  Visited'
<1>1. CASE Onward
  BY <1>1 DEF Onward, Visited
<1>2. CASE Open \/ StopAtCap \/ StopAtVisitCap \/ UnknownKind
  <2>1. pc' \in {"pop", "closing", "returned"}
    BY <1>2 DEF Open, StopAtCap, StopAtVisitCap, UnknownKind, Stops, Fails
  <2> QED BY <2>1 DEF Visited
<1>3. CASE RunNode
  <2>1. PICK n \in NodesOf(plan) : Visit(n)
    BY <1>3 DEF RunNode
  <2>2. node' = n /\ visits' = [visits EXCEPT ![n] = @ + 1]
    BY <2>1 DEF Visit, Pop
  <2>3. visits'[n] = visits[n] + 1 /\ visits[n] \in Nat
    BY <2>2 DEF TypeOK
  <2> QED BY <2>2, <2>3 DEF Visited
<1>4. CASE Call \/ FollowEdge
  BY <1>4 DEF Call, ReadyToCall, Running, FollowEdge, progress, schedule, Visited
<1> QED BY <1>1, <1>2, <1>3, <1>4, StepsOnward

LEMMA FreshKept ==
    ASSUME Fresh, [Next]_vars
    PROVE  Fresh'
<1>1. ASSUME pc' = "new" PROVE pc = "new" /\ UNCHANGED <<plan, visits, queued, issued>>
  <2>1. CASE Executes
    BY <1>1, <2>1 DEF Executes, Open, RefuseToCompile, StopAtCap, StopAtVisitCap, RunNode,
       UnknownKind, Fails, Stopped, Intake, Research, Respond, BelowFloor, Call,
       NothingToWorkOn, NodeError, AskApproval, Silence, Refuse, FollowEdge, PassOverEdge,
       BadGuard, Settle, Close, Stops, Commit
  <2>2. CASE Outside
    BY <1>1, <2>2 DEF Outside, NoRoomForPrompt, CallFails, NodeError, Fails, ModelReturns,
       JudgePasses, JudgeRevises, ToolReturns, Approve, Decline, Refuse, Stops, Commit
  <2>3. CASE Environment \/ UNCHANGED vars
    BY <1>1, <2>3 DEF Environment, Cancel, Expire, vars, schedule
  <2> QED BY <2>1, <2>2, <2>3 DEF Next, Returned
<1>2. PICK N : N = NodesOf(plan)
  OBVIOUS
<1>3. pc' = "new" => queued' = {} /\ issued' = <<>> /\ \A n \in N : visits'[n] = 0
  BY <1>1, <1>2 DEF Fresh
<1>4. pc' = "new" => N = NodesOf(plan)'
  BY <1>1, <1>2 DEF NodesOf
<1> QED BY <1>3, <1>4 DEF Fresh

LEMMA EdgePositions ==
    ASSUME TypeOK, NEW n \in NodesOf(plan), NEW i \in DOMAIN plan.succ[n]
    PROVE  i \in Nat
<1>1. plan.succ[n] \in Seq(EdgesWithin(NodesOf(plan)))
  BY PlanTypes DEF PlanTyped
<1>2. DOMAIN plan.succ[n] = 1 .. Len(plan.succ[n]) /\ Len(plan.succ[n]) \in Nat
  BY <1>1, LenProperties
<1> QED BY <1>2

LEMMA OnwardKeepsOnce ==
    ASSUME TypeOK, edge' \in Nat, NEW S \in SUBSET NodesOf(plan), OnceOver(S), Onward
    PROVE  OnceOver(S)'
<1>0. edge \in Nat /\ edge' \in Nat
  BY DEF TypeOK
<1>1. UNCHANGED <<plan, node, visits, queued, issued>>
  BY DEF Onward
<1>2. \A n : Reached(n)' <=> Reached(n)
  BY <1>1 DEF Reached
<1>3. ASSUME NEW m \in S, NEW i \in DOMAIN plan.succ[m], Past(m, i) PROVE Past(m, i)'
  <2>1. visits'[m] = 1
    BY <1>1, <1>3 DEF Past
  <2>2. ASSUME node' = m PROVE Resting' \/ (pc' = "routing" /\ i < edge')
    <3>1. node = m
      BY <1>1, <2>2
    <3>2. CASE Resting
      BY <3>2 DEF Onward
    <3>3. CASE pc = "routing" /\ i < edge
      <4>1. i \in Nat
        BY EdgePositions
      <4>2. edge \in Nat /\ edge' \in Nat
        BY <1>0
      <4>3. Resting' \/ (pc' = "routing" /\ edge <= edge')
        BY <3>3 DEF Onward
      <4>4. edge <= edge' => i < edge'
        BY <3>3, <4>1, <4>2
      <4> QED BY <4>3, <4>4
    <3> QED BY <1>3, <3>1, <3>2, <3>3 DEF Past
  <2> QED BY <2>1, <2>2 DEF Past
<1>4. ComesOnce(S)'
  BY <1>1 DEF OnceOver, ComesOnce
<1>5. LedOn(S)'
  BY <1>1, <1>2, <1>3 DEF OnceOver, LedOn
<1>6. CallsOnce(S)'
  BY <1>1 DEF OnceOver, CallsOnce, Onward
<1> QED BY <1>4, <1>5, <1>6 DEF OnceOver

\* The run begins at the entries, which no edge of a stretch leads to.
LEMMA OpenBeginsOnce ==
    ASSUME TypeOK, NEW S \in SUBSET NodesOf(plan), Straight(plan, S), Fresh, Open
    PROVE  OnceOver(S)'
<1>1. /\ pc = "new" /\ pc' = "pop" /\ UNCHANGED <<plan, visits, issued>>
      /\ queued' = EntryNodes(plan)
  BY DEF Open
<1>2. issued = <<>> /\ \A n \in S : visits[n] = 0
  BY <1>1 DEF Fresh
<1>3. ComesOnce(S)' /\ CallsOnce(S)'
  BY <1>1, <1>2 DEF ComesOnce, CallsOnce
<1>4. \A n \in S : Reached(n)' => n \in EntryNodes(plan)
  BY <1>1, <1>2 DEF Reached
<1>5. \A m, n \in S : \A i \in DOMAIN plan.succ[m] :
          plan.succ[m][i].to = n => n \notin EntryNodes(plan)
  <2> SUFFICES ASSUME NEW m \in S, NEW n \in S, NEW i \in DOMAIN plan.succ[m],
                      plan.succ[m][i].to = n
               PROVE  n \notin EntryNodes(plan)
    OBVIOUS
  <2>1. HasSource(plan) \/ \E e \in Into(plan, n) : e.when = Unguarded
    BY DEF Straight
  <2>2. n \notin StrictEntries(plan)
    <3> DEFINE e == [from |-> m, to |-> plan.succ[m][i].to, when |-> plan.succ[m][i].when]
    <3>1. e \in Into(plan, n)
      BY DEF Into, EdgesOf
    <3> HIDE DEF e
    <3> QED BY <3>1 DEF StrictEntries
  <2> QED BY <2>1, <2>2 DEF HasSource, EntryNodes
<1>6. LedOn(S)'
  BY <1>1, <1>4, <1>5 DEF LedOn
<1> QED BY <1>3, <1>6 DEF OnceOver

\* Taking a node off the queue, without visiting it and for its visit.
LEMMA PopKeepsOnce ==
    ASSUME TypeOK, NEW S \in SUBSET NodesOf(plan), OnceOver(S), StopAtCap
    PROVE  OnceOver(S)'
<1>1. PICK n \in NodesOf(plan) : Pop(n)
  BY DEF StopAtCap
<1>2. queued' = queued \ {n} /\ UNCHANGED <<plan, visits, issued>> /\ pc' = "closing"
  BY <1>1 DEF Pop, StopAtCap, Stops
<1>3. ComesOnce(S)' /\ CallsOnce(S)'
  BY <1>2 DEF OnceOver, ComesOnce, CallsOnce
<1>4. \A k \in S : Reached(k)' => Reached(k)
  BY <1>2 DEF Reached
<1>5. \A m \in S : \A i : Past(m, i) => Past(m, i)'
  BY <1>2 DEF Past, Resting
<1>6. LedOn(S)'
  BY <1>2, <1>4, <1>5 DEF OnceOver, LedOn
<1> QED BY <1>3, <1>6 DEF OnceOver

LEMMA VisitKeepsOnce ==
    ASSUME TypeOK, QueuedIsQueue, NEW S \in SUBSET NodesOf(plan), OnceOver(S),
           NEW n \in NodesOf(plan), Visit(n), UNCHANGED <<plan, issued>>
    PROVE  OnceOver(S)'
<1>1. /\ queue # <<>> /\ n = Head(queue) /\ queued' = queued \ {n} /\ node' = n
      /\ visits' = [visits EXCEPT ![n] = @ + 1]
  BY DEF Visit, Pop
<1>2. n \in queued
  <2>1. queue \in Seq(NodesOf(plan)) /\ 1 \in DOMAIN queue /\ Head(queue) = queue[1]
    BY <1>1 DEF TypeOK
  <2> QED BY <1>1, <2>1 DEF QueuedIsQueue
<1>3. /\ visits \in [NodesOf(plan) -> Nat]
      /\ \A k \in NodesOf(plan) : k # n => visits'[k] = visits[k]
      /\ visits'[n] = visits[n] + 1
  BY <1>1 DEF TypeOK
<1>4. n \in S => visits[n] = 0
  BY <1>2 DEF OnceOver, ComesOnce
<1>5. ASSUME NEW k \in S PROVE visits'[k] <= 1 /\ (k \in queued' => visits'[k] = 0)
  <2>1. CASE k = n
    BY <1>1, <1>3, <1>4, <2>1
  <2>2. CASE k # n
    BY <1>1, <1>3, <2>2 DEF OnceOver, ComesOnce
  <2> QED BY <2>1, <2>2
<1>6. \A k \in S : Reached(k)' => Reached(k)
  BY <1>1, <1>2, <1>3 DEF Reached
<1>7. ASSUME NEW m \in S, NEW i, Past(m, i) PROVE Past(m, i)'
  <2>1. visits[m] = 1 /\ m # n
    BY <1>4, <1>7 DEF Past
  <2> QED BY <1>1, <1>3, <2>1 DEF Past
<1>8. LedOn(S)'
  BY <1>6, <1>7 DEF OnceOver, LedOn
<1>9. ASSUME NEW i \in DOMAIN issued, issued[i].at \in S
      PROVE  visits'[issued[i].at] = 1 /\ issued[i].at # node'
  <2>1. visits[issued[i].at] = 1 /\ issued[i].at # n
    BY <1>4, <1>9 DEF OnceOver, CallsOnce
  <2> QED BY <1>1, <1>3, <2>1
<1>10. CallsOnce(S)'
  BY <1>9 DEF OnceOver, CallsOnce
<1>11. ComesOnce(S)'
  BY <1>5 DEF ComesOnce
<1> QED BY <1>8, <1>10, <1>11 DEF OnceOver

\* A node that was not called since its visit is called.
LEMMA CallKeepsOnce ==
    ASSUME TypeOK, IssuedTyped, Visited, NEW S \in SUBSET NodesOf(plan), OnceOver(S), Call
    PROVE  OnceOver(S)'
<1>1. /\ pc = "running" /\ pc' = "calling" /\ UNCHANGED <<plan, node, visits, queued>>
  BY DEF Call, ReadyToCall, Running, progress, schedule
<1>2. PICK c : issued' = Append(issued, c) /\ c.at = node
  BY DEF Call
<1>3. /\ DOMAIN issued' = DOMAIN issued \cup {Len(issued) + 1}
      /\ Len(issued) + 1 \notin DOMAIN issued
      /\ \A i \in DOMAIN issued : issued'[i] = issued[i]
      /\ issued'[Len(issued) + 1].at = node
  <2>1. issued \in Seq([at : NodesOf(plan), arg : Nat, after : Nat])
    BY DEF IssuedTyped
  <2>2. \A i \in DOMAIN issued : issued'[i] = issued[i]
    BY <1>2, <2>1
  <2>3. issued'[Len(issued) + 1] = c
    BY <1>2, <2>1
  <2>4. DOMAIN issued = 1 .. Len(issued) /\ DOMAIN issued' = 1 .. (Len(issued) + 1) /\ Len(issued) \in Nat
    BY <1>2, <2>1
  <2> QED BY <1>2, <2>2, <2>3, <2>4
<1>4. node \in S => visits[node] = 1
  <2>1. visits[node] # 0
    BY <1>1 DEF Visited
  <2>2. node \in S => visits[node] <= 1 /\ visits[node] \in Nat
    BY DEF OnceOver, ComesOnce, TypeOK
  <2> QED BY <2>1, <2>2
<1>5. \A i \in DOMAIN issued : issued[i].at \in S => visits[issued[i].at] = 1 /\ issued[i].at # node
  BY <1>1 DEF OnceOver, CallsOnce
<1>6. \A i \in DOMAIN issued' : issued'[i].at \in S => visits[issued'[i].at] = 1
  BY <1>3, <1>4, <1>5
<1>7. \A i, j \in DOMAIN issued' : issued'[i].at \in S /\ issued'[i].at = issued'[j].at => i = j
  BY <1>3, <1>5 DEF OnceOver, CallsOnce
<1>8. CallsOnce(S)'
  BY <1>1, <1>6, <1>7 DEF CallsOnce
<1>9. ComesOnce(S)'
  BY <1>1 DEF OnceOver, ComesOnce
<1>10. \A m \in S : \A i : Past(m, i) => Past(m, i)'
  BY <1>1 DEF Past, Resting
<1>11. LedOn(S)'
  BY <1>1, <1>10 DEF OnceOver, LedOn, Reached
<1> QED BY <1>8, <1>9, <1>11 DEF OnceOver

\* An edge into the stretch is followed once: its target was not reached yet.
LEMMA FollowKeepsOnce ==
    ASSUME TypeOK, Visited, NEW S \in SUBSET NodesOf(plan), Straight(plan, S), OnceOver(S),
           FollowEdge
    PROVE  OnceOver(S)'
<1>1. /\ pc = "routing" /\ pc' = "routing" /\ UNCHANGED <<plan, node, visits, issued>>
      /\ edge \in DOMAIN plan.succ[node] /\ edge' = edge + 1
      /\ queued' = queued \cup {plan.succ[node][edge].to}
  BY DEF FollowEdge, Edge
<1>2. node \in NodesOf(plan) /\ edge \in Nat
  BY <1>1 DEF TypeOK
<1>3. PICK n : n = plan.succ[node][edge].to
  OBVIOUS
<1>12. PICK M : M = node
  OBVIOUS
<1>13. PICK E : E = edge
  OBVIOUS
<1>4. n \in S => node \in S
  BY <1>1, <1>2, <1>3 DEF Straight
<1>5. n \in S => ~Reached(n)
  <2>1. ~Past(node, edge)
    BY <1>1, <1>2 DEF Past, Resting
  <2> QED BY <1>1, <1>3, <1>4, <2>1 DEF OnceOver, LedOn
<1>6. ComesOnce(S)'
  BY <1>1, <1>3, <1>5 DEF OnceOver, ComesOnce, Reached
<1>7. CallsOnce(S)'
  BY <1>1 DEF OnceOver, CallsOnce
<1>8. ASSUME NEW m \in S, NEW i \in DOMAIN plan.succ[m], Past(m, i) PROVE Past(m, i)'
  <2>1. i \in Nat
    BY EdgePositions
  <2>2. node = m => i < edge /\ i < edge + 1
    BY <1>1, <1>2, <1>8, <2>1 DEF Past, Resting
  <2> QED BY <1>1, <1>8, <2>2 DEF Past
<1>9. n \in S => Past(M, E)'
  <2>1. visits[node] # 0
    BY <1>1 DEF Visited
  <2>2. n \in S => visits[node] <= 1 /\ visits[node] \in Nat
    BY <1>4 DEF OnceOver, ComesOnce, TypeOK
  <2>3. n \in S => visits[node] = 1
    BY <2>1, <2>2
  <2>4. edge < edge + 1
    BY <1>2
  <2> QED BY <1>1, <1>12, <1>13, <2>3, <2>4 DEF Past
<1>10. ASSUME NEW m \in S, NEW k \in S, NEW i \in DOMAIN plan.succ[m],
              plan.succ[m][i].to = k, Reached(k)'
       PROVE  Past(m, i)'
  <2>1. CASE k = n
    <3>1. node \in S
      BY <1>4, <2>1
    <3>2. m = M /\ i = E
      BY <1>1, <1>3, <1>10, <1>12, <1>13, <2>1, <3>1 DEF Straight
    <3> QED BY <1>9, <2>1, <3>2
  <2>2. CASE k # n
    <3>1. Reached(k)
      BY <1>1, <1>3, <1>10, <2>2 DEF Reached
    <3>2. Past(m, i)
      BY <1>10, <3>1 DEF OnceOver, LedOn
    <3> QED BY <1>8, <3>2
  <2> QED BY <2>1, <2>2
<1>11. LedOn(S)'
  BY <1>1, <1>10 DEF LedOn
<1> QED BY <1>6, <1>7, <1>11 DEF OnceOver

LEMMA OnceKept ==
    ASSUME TypeOK, TypeOK', QueuedIsQueue, IssuedTyped, OnceInv, [Next]_vars
    PROVE  OnceInv'
<1>0. edge' \in Nat
  BY DEF TypeOK
<1>1. Visited /\ Fresh /\ Visited' /\ Fresh'
  BY VisitedKept, FreshKept DEF OnceInv
<1>2. UNCHANGED plan
  BY OnlyJudgesVerify
<1>3. ASSUME NEW S \in SUBSET NodesOf(plan), Straight(plan, S) PROVE OnceOver(S)'
  <2>1. OnceOver(S)
    BY <1>3 DEF OnceInv
  <2>2. CASE Onward
    BY <1>0, <2>1, <2>2, OnwardKeepsOnce
  <2>3. CASE Open
    BY <1>1, <1>3, <2>3, OpenBeginsOnce
  <2>4. CASE StopAtCap
    BY <2>1, <2>4, PopKeepsOnce
  <2>5. CASE StopAtVisitCap \/ RunNode \/ UnknownKind
    <3>1. PICK n \in NodesOf(plan) : Visit(n)
      BY <2>5 DEF StopAtVisitCap, RunNode, UnknownKind
    <3>2. UNCHANGED <<plan, issued>>
      BY <2>5 DEF StopAtVisitCap, RunNode, UnknownKind
    <3> QED BY <2>1, <3>1, <3>2, VisitKeepsOnce
  <2>6. CASE Call
    BY <1>1, <2>1, <2>6, CallKeepsOnce
  <2>7. CASE FollowEdge
    BY <1>1, <1>3, <2>1, <2>7, FollowKeepsOnce
  <2> QED BY <2>2, <2>3, <2>4, <2>5, <2>6, <2>7, StepsOnward
<1>4. PICK P : P = plan
  OBVIOUS
<1>5. ASSUME NEW S \in SUBSET NodesOf(P), Straight(P, S) PROVE OnceOver(S)'
  BY <1>3, <1>4, <1>5
<1>6. \A S \in SUBSET NodesOf(plan') : Straight(plan', S) => OnceOver(S)'
  BY <1>2, <1>4, <1>5
<1> QED BY <1>1, <1>6 DEF OnceInv

\* Whatever fails, is cut short or is sent back for revision, a tool with
\* effects is called once and the journal tells of it, in every graph that
\* puts its tools on a straight stretch.
THEOREM ToolsAreAccountedFor ==
    ASSUME \A p \in Plans : OneWayToTools(p)
    PROVE  Spec => []ToolCallsAreAccountedFor
<1>1. Init => OnceInv /\ QueuedIsQueue
  <2> SUFFICES ASSUME Init PROVE OnceInv /\ QueuedIsQueue
    OBVIOUS
  <2>1. /\ pc = "new" /\ queue = <<>> /\ queued = {} /\ issued = <<>>
        /\ \A n \in NodesOf(plan) : visits[n] = 0
    BY DEF Init
  <2>2. Visited /\ Fresh
    BY <2>1 DEF Visited, Fresh
  <2>3. ASSUME NEW S \in SUBSET NodesOf(plan) PROVE OnceOver(S)
    <3>1. \A n \in S : visits[n] = 0 /\ n \notin queued
      BY <2>1
    <3> QED BY <2>1, <3>1 DEF OnceOver, ComesOnce, LedOn, CallsOnce, Reached
  <2>4. QueuedIsQueue
    BY <2>1 DEF QueuedIsQueue
  <2> QED BY <2>2, <2>3, <2>4 DEF OnceInv
<1>2. /\ TypeInv /\ QueuedIsQueue /\ JournalInv /\ JournalEndsOnce /\ ToolInv /\ OnceInv
      /\ [Next]_vars
      => TypeInv' /\ QueuedIsQueue' /\ JournalInv' /\ JournalEndsOnce' /\ ToolInv' /\ OnceInv'
  <2> SUFFICES ASSUME TypeInv, QueuedIsQueue, JournalInv, JournalEndsOnce, ToolInv, OnceInv,
                      [Next]_vars
               PROVE  /\ TypeInv' /\ QueuedIsQueue' /\ JournalInv' /\ JournalEndsOnce'
                      /\ ToolInv' /\ OnceInv'
    OBVIOUS
  <2>1. TypeOK /\ TypeInv' /\ TypeOK'
    BY NextTypes DEF TypeInv
  <2>2. QueuedIsQueue' /\ JournalInv' /\ JournalEndsOnce' /\ ToolInv'
    BY <2>1, NextQueue, NextJournal, ToolsKept
  <2>3. OnceInv'
    BY <2>1, OnceKept DEF ToolInv
  <2> QED BY <2>1, <2>2, <2>3
<1>3. TypeInv /\ ToolInv /\ OnceInv => ToolRunsOnce
  <2> SUFFICES ASSUME TypeInv, ToolInv, OnceInv,
                      NEW i \in DOMAIN issued, NEW j \in DOMAIN issued,
                      issued[i].at = issued[j].at, plan.kind[issued[i].at] = "tool.invoke"
               PROVE  i = j
    BY DEF ToolRunsOnce
  <2>1. issued[i].at \in NodesOf(plan)
    <3> DEFINE Sends == [at : NodesOf(plan), arg : Nat, after : Nat]
    <3>1. issued \in Seq(Sends)
      BY DEF ToolInv, IssuedTyped
    <3>2. \A c \in Sends : c.at \in NodesOf(plan)
      OBVIOUS
    <3> HIDE DEF Sends
    <3>3. issued[i] \in Sends
      BY <3>1
    <3> QED BY <3>2, <3>3
  <2>2. OneWayToTools(plan)
    BY DEF TypeInv, TypeOK
  <2>3. PICK S \in SUBSET NodesOf(plan) : issued[i].at \in S /\ Straight(plan, S)
    BY <2>1, <2>2 DEF OneWayToTools
  <2> QED BY <2>3 DEF OnceInv, OnceOver, CallsOnce
<1>4. Spec => []ToolRunsOnce
  BY <1>1, <1>2, <1>3, InitTypes, InitJournal, ToolsStart, PTL DEF Spec
<1> QED BY <1>4, ToolCallsHaveRecords, PTL DEF ToolCallsAreAccountedFor

=============================================================================
