---------------------------- MODULE AnswerProofs ----------------------------
(***************************************************************************)
(* What a run works towards, proved for every plan, visit cap and cost:    *)
(* what is handed back is what was released, a release labelled verified   *)
(* was judged, a revision escalates, a node runs after something that      *)
(* feeds it, and what a person approved is what is done.                   *)
(***************************************************************************)
EXTENDS ExecutorProofs, ExecutorContract

-----------------------------------------------------------------------------
(* What a step makes: units, the candidate answer. *)

\* One unit more in the ledger, its event in the journal, and the candidate it
\* is if it is a response.
Made(u) ==
    /\ ledger' = ledger \o <<u>>
    /\ pending' = IF u.role = "response"
                  THEN <<u.text, IF u.reviewed THEN "verified_response" ELSE "response">>
                  ELSE pending
    /\ \E j \in DOMAIN journal' \ DOMAIN journal :
          Logged("unit")' = Logged("unit") \cup {j} /\ journal'[j] = UnitEvent(u.role)

LEMMA OneUnitMade ==
    ASSUME TypeOK, JournalInv, NEW records, NEW levels, NEW u, NEW fs, NEW esc,
           Commit(records, levels, <<u>>, fs, esc), Leaving(records, {u.role}),
           \A k \in DOMAIN records : records[k].type # "unit"
    PROVE  Made(u)
<1>1. /\ ledger' = ledger \o <<u>>
      /\ pending' = IF u.role = "response"
                    THEN <<u.text, IF u.reviewed THEN "verified_response" ELSE "response">>
                    ELSE pending
  BY DEF Commit
<1>2. PICK t : Adds(t) /\ Shape(t, records, {u.role})
  BY DEF Leaving
<1>3. PICK d \in DOMAIN t \ DOMAIN records :
            /\ t[d] = UnitEvent(u.role)
            /\ \A l \in DOMAIN t \ DOMAIN records : t[l].type = "unit" => l = d
  BY <1>2 DEF Shape
<1>4. \A k \in DOMAIN records : t[k] = records[k]
  BY <1>2 DEF Shape
<1>5. UnitEvent(u.role).type = "unit"
  BY DEF UnitEvent, Event
<1>6. Once(t, "unit", d)
  BY <1>3, <1>4, <1>5 DEF Once
<1>7. t \in Seq(Events) /\ JournalTyped
  BY <1>2 DEF Shape, JournalInv
<1>8. \E j \in DOMAIN journal' \ DOMAIN journal :
          Logged("unit")' = Logged("unit") \cup {j} /\ journal'[j] = t[d]
  BY <1>2, <1>6, <1>7, LoggedOnceMore
<1> QED BY <1>1, <1>3, <1>8 DEF Made

\* Nothing made, and the candidate text stays until the run closes.
MadeNothing ==
    /\ UNCHANGED <<ledger, pending>> /\ Logged("unit")' = Logged("unit")
    /\ UNCHANGED finalText \/ Close

LEMMA NoUnitMade ==
    ASSUME TypeOK, JournalInv, NEW records, NEW fs, NEW esc,
           Commit(records, <<>>, <<>>, fs, esc), Leaving(records, {}), UNCHANGED finalText,
           \A k \in DOMAIN records : records[k].type # "unit"
    PROVE  MadeNothing
<1>1. ledger' = ledger \o <<>> /\ pending' = pending
  BY DEF Commit
<1>2. ledger \o <<>> = ledger
  BY ConcatEmptySeq DEF TypeOK
<1>3. PICK t : Adds(t) /\ Shape(t, records, {})
  BY DEF Leaving
<1>4. Logged("unit")' = Logged("unit")
  BY <1>3, ShapeLogs DEF JournalInv
<1> QED BY <1>1, <1>2, <1>4 DEF MadeNothing

LEMMA RecordsMakeNothing ==
    /\ \A k \in DOMAIN <<>> : FALSE
    /\ \A k \in DOMAIN CallRecords : CallRecords[k].type # "unit"
    /\ \A k \in DOMAIN Rejection : Rejection[k].type # "unit"
    /\ \A ok : \A k \in DOMAIN ToolRecord(ok) : ToolRecord(ok)[k].type # "unit"
    /\ TypeOK => \A k \in DOMAIN DecisionEvents("approved") :
                    DecisionEvents("approved")[k].type # "unit"
<1>1. /\ \A k \in DOMAIN CallRecords : CallRecords[k].type # "unit"
      /\ \A k \in DOMAIN Rejection : Rejection[k].type # "unit"
      /\ \A ok : \A k \in DOMAIN ToolRecord(ok) : ToolRecord(ok)[k].type # "unit"
  BY RecordsAre
<1>2. ASSUME TypeOK, NEW k \in DOMAIN DecisionEvents("approved")
      PROVE  DecisionEvents("approved")[k].type # "unit"
  <2>1. DecisionEvents("approved") \in Seq(Decisions)
    BY <1>2, DecisionsAre
  <2>2. DecisionEvents("approved")[k] \in Decisions
    BY <1>2, <2>1, ElementOfSeq, LenProperties
  <2> QED BY <2>2 DEF Decisions, EventsOf
<1>3. DOMAIN <<>> = {}
  OBVIOUS
<1> QED BY <1>1, <1>2, <1>3

\* A unit that says something new, written by a node that does not answer.
MadeNew(role) ==
    /\ \E human, cites : Made(Unit(role, human, cites, NextId, FALSE))
    /\ UNCHANGED finalText

LEMMA NodesMake ==
    ASSUME TypeOK, JournalInv
    PROVE  /\ Intake => MadeNew("none")
           /\ Research \/ BelowFloor \/ Approve => MadeNothing
           /\ ModelReturns => MadeNew(plan.role[node])
           /\ JudgePasses => MadeNew("review")
           /\ JudgeRevises => MadeNew("review-feedback")
           /\ \A ok \in BOOLEAN : ToolReturns(ok) => MadeNew("tool-result")
           /\ Respond => /\ LatestDraft # 0 /\ finalText' = ledger[LatestDraft].text
                         /\ Made(Unit("response", FALSE, ledger[LatestDraft].cites,
                                      ledger[LatestDraft].text, Reviewed))
<1>1. ASSUME NEW records, NEW levels, NEW role, NEW human, NEW cites, NEW fs, NEW esc,
             Commit(records, levels, <<Unit(role, human, cites, NextId, FALSE)>>, fs, esc),
             Leaving(records, {role}), \A k \in DOMAIN records : records[k].type # "unit",
             UNCHANGED finalText
      PROVE  MadeNew(role)
  <2> DEFINE u == Unit(role, human, cites, NextId, FALSE)
  <2>0. u.role = role
    BY DEF Unit
  <2>1. Commit(records, levels, <<u>>, fs, esc)
    BY <1>1
  <2> HIDE DEF u
  <2>2. Made(u)
    BY <1>1, <2>0, <2>1, OneUnitMade
  <2> QED BY <1>1, <2>2 DEF MadeNew, u
<1>2. Intake => MadeNew("none")
  BY <1>1, NodesAdd, RecordsMakeNothing DEF Intake
<1>3. Research \/ BelowFloor => MadeNothing
  BY NoUnitMade, NodesAdd, RecordsMakeNothing DEF Research, BelowFloor
<1>4. Approve => MadeNothing
  BY NoUnitMade, NodesAdd, RecordsMakeNothing DEF Approve
<1>5. ModelReturns => MadeNew(plan.role[node])
  BY <1>1, NodesAdd, RecordsMakeNothing DEF ModelReturns
<1>6. JudgePasses => MadeNew("review")
  BY <1>1, NodesAdd, RecordsMakeNothing DEF JudgePasses
<1>7. JudgeRevises => MadeNew("review-feedback")
  BY <1>1, NodesAdd, RecordsMakeNothing DEF JudgeRevises, Rejection
<1>8. \A ok \in BOOLEAN : ToolReturns(ok) => MadeNew("tool-result")
  BY <1>1, NodesAdd, RecordsMakeNothing DEF ToolReturns, ToolRecord
<1>9. ASSUME Respond
      PROVE  /\ LatestDraft # 0 /\ finalText' = ledger[LatestDraft].text
             /\ Made(Unit("response", FALSE, ledger[LatestDraft].cites,
                          ledger[LatestDraft].text, Reviewed))
  <2> DEFINE u == Unit("response", FALSE, ledger[LatestDraft].cites,
                       ledger[LatestDraft].text, Reviewed)
  <2>1. /\ Commit(<<>>, <<>>, <<u>>, [done |-> "true"], FALSE)
        /\ LatestDraft # 0 /\ finalText' = ledger[LatestDraft].text
    BY <1>9 DEF Respond
  <2>0. u.role = "response"
    BY DEF Unit
  <2> HIDE DEF u
  <2>2. Leaving(<<>>, {u.role})
    BY <1>9, <2>0, NodesAdd
  <2>3. Made(u)
    BY <2>1, <2>2, OneUnitMade, RecordsMakeNothing
  <2> QED BY <2>1, <2>3 DEF u
<1> QED BY <1>2, <1>3, <1>4, <1>5, <1>6, <1>7, <1>8, <1>9

\* What every step makes.
LEMMA StepsMake ==
    ASSUME TypeOK, JournalInv, [Next]_vars
    PROVE  \/ MadeNothing
           \/ Open /\ UNCHANGED <<pending, finalText>>
           \/ \E role \in RoleNames \cup {"none"} :
                 /\ MadeNew(role)
                 /\ role \in {"response", "tool-args"} =>
                       ModelReturns /\ plan.role[node] = role
           \/ Respond
<1>1. CASE \/ RunNode \/ UnknownKind \/ StopAtVisitCap \/ Stopped \/ NoRoomForPrompt
           \/ NothingToWorkOn \/ AskApproval \/ Silence \/ Decline \/ Settle
           \/ RefuseToCompile \/ StopAtCap \/ Call \/ FollowEdge \/ PassOverEdge \/ BadGuard
           \/ Environment \/ UNCHANGED vars
  <2>1. Logged("unit")' = Logged("unit")
    BY <1>1, HushedSteps, HushedLogs DEF JournalInv
  <2>2. UNCHANGED <<ledger, pending, finalText>>
    <3>1. CASE RunNode \/ UnknownKind \/ StopAtVisitCap \/ Stopped \/ NoRoomForPrompt
      BY <3>1 DEF RunNode, UnknownKind, StopAtVisitCap, Stopped, NoRoomForPrompt, knowledge, answer
    <3>2. CASE NothingToWorkOn \/ AskApproval \/ Silence \/ Decline \/ Settle
      BY <3>2 DEF NothingToWorkOn, NodeError, AskApproval, Silence, Decline, Refuse, Settle,
         knowledge, answer
    <3>3. CASE \/ RefuseToCompile \/ StopAtCap \/ Call \/ FollowEdge \/ PassOverEdge \/ BadGuard
               \/ Environment \/ UNCHANGED vars
      BY <3>3 DEF RefuseToCompile, StopAtCap, Call, FollowEdge, PassOverEdge, BadGuard,
         Environment, Cancel, Expire, vars, knowledge, answer
    <3> QED BY <1>1, <3>1, <3>2, <3>3
  <2> QED BY <2>1, <2>2 DEF MadeNothing
<1>2. CASE Open
  BY <1>2 DEF Open, answer
<1>3. CASE Close
  <2>1. PICK t : Adds(t) /\ Closing(t)
    BY <1>3, CloseAdds DEF JournalInv
  <2>2. t \in Seq(Events) /\ \A k \in DOMAIN t : t[k].type # "unit"
    BY <2>1 DEF Closing, Event
  <2>3. Logged("unit")' = Logged("unit")
    BY <2>1, <2>2, LoggedStays DEF JournalInv
  <2> QED BY <1>3, <2>3 DEF MadeNothing, Close, knowledge
<1>4. CASE CallFails
  <2>1. PICK t : Adds(t) /\ Failing(t, node, FailureRecords)
    BY <1>4, StepsAdd
  <2>2. \A k \in DOMAIN FailureRecords : FailureRecords[k].type # "unit"
    <3>1. CASE FailureRecords = <<>>
      BY <3>1
    <3>2. CASE DOMAIN FailureRecords = {1} /\ FailureRecords[1].type = "tool-call"
      BY <3>2
    <3> QED BY <3>1, <3>2, RecordsAre
  <2>3. t \in Seq(Events) /\ \A k \in DOMAIN t : t[k].type # "unit"
    BY <2>1, <2>2 DEF Failing, Transition, Finished, Event
  <2>4. Logged("unit")' = Logged("unit")
    BY <2>1, <2>3, LoggedStays DEF JournalInv
  <2> QED BY <1>4, <2>4 DEF MadeNothing, CallFails, NodeError, knowledge, answer
<1>5. CASE Research \/ BelowFloor \/ Approve
  BY <1>5, NodesMake
<1>6. CASE ModelReturns
  <2>1. plan.role[node] \in RoleNames
    <3>1. node \in NodesOf(plan)
      BY <1>6 DEF ModelReturns, Calling, TypeOK
    <3> QED BY <3>1, PlanTypes DEF PlanTyped
  <2> QED BY <1>6, <2>1, NodesMake
<1>7. CASE Intake \/ JudgePasses \/ JudgeRevises \/ \E ok \in BOOLEAN : ToolReturns(ok)
  <2>1. {"review", "review-feedback", "tool-result"} \subseteq RoleNames
    BY DEF RoleNames
  <2> QED BY <1>7, <2>1, NodesMake
<1>8. CASE Respond
  BY <1>8
<1> QED BY <1>1, <1>2, <1>3, <1>4, <1>5, <1>6, <1>7, <1>8 DEF Next, Executes, Outside, Returned

-----------------------------------------------------------------------------
(* What is handed back is what was released. *)

\* A run returns by closing, or with an error.
LEMMA EndsHow ==
    ASSUME [Next]_vars, pc' = "returned", pc # "returned"
    PROVE  Close \/ outcome' = "error"
<1>1. CASE Open \/ RefuseToCompile \/ StopAtCap \/ StopAtVisitCap \/ RunNode \/ UnknownKind
  BY <1>1 DEF Open, RefuseToCompile, StopAtCap, StopAtVisitCap, RunNode, UnknownKind,
     Fails, Stops
<1>2. CASE \/ Intake \/ Research \/ BelowFloor \/ Respond \/ ModelReturns \/ JudgePasses
           \/ JudgeRevises \/ Approve \/ \E ok \in BOOLEAN : ToolReturns(ok)
  <2>1. TRUE \in BOOLEAN
    OBVIOUS
  <2> QED BY <1>2, <2>1, NodesComeBack
<1>3. CASE Stopped \/ Call \/ NothingToWorkOn \/ NoRoomForPrompt \/ CallFails
  BY <1>3 DEF Stopped, Call, NothingToWorkOn, NodeError, Fails, NoRoomForPrompt, CallFails, Stops
<1>4. CASE AskApproval \/ Silence \/ Decline
  BY <1>4 DEF AskApproval, Silence, Decline, Refuse, Stops
<1>5. CASE FollowEdge \/ PassOverEdge \/ BadGuard \/ Settle \/ Close
  BY <1>5 DEF FollowEdge, PassOverEdge, BadGuard, Settle, Stops
<1>6. CASE Environment \/ UNCHANGED vars
  BY <1>6 DEF Environment, Cancel, Expire, vars
<1> QED BY <1>1, <1>2, <1>3, <1>4, <1>5, <1>6 DEF Next, Executes, Outside, Returned

\* Closing releases the candidate of a success, and nothing else ever does.
LEMMA CloseReleases ==
    ASSUME TypeOK, JournalInv, Close
    PROVE  /\ pc # "returned"
           /\ Status = "succeeded" /\ pending # <<>> =>
                 \E j \in DOMAIN journal' :
                    /\ Logged("released")' = {j}
                    /\ journal'[j] = Event("released", 0, pending[2], pending[1])
           /\ ~(Status = "succeeded" /\ pending # <<>>) => Logged("released")' = {}
<1>1. JournalTyped /\ pc # "returned"
  BY DEF Close, JournalInv
<1>2. Logged("released") = {}
  <2>1. journal \in Seq(Ordinary)
    BY <1>1 DEF JournalInv, Unended
  <2>2. \A i \in DOMAIN journal : journal[i] \in Ordinary
    BY <2>1, ElementOfSeq, LenProperties
  <2> QED BY <2>2 DEF Logged, Ordinary, Quiets, EventsOf
<1>3. PICK t : Adds(t) /\ Closing(t)
  BY <1>1, CloseAdds
<1>4. t \in Seq(Events)
  BY <1>3 DEF Closing
<1>5. ASSUME Status = "succeeded", pending # <<>>
      PROVE  \E j \in DOMAIN journal' :
                 /\ Logged("released")' = {j}
                 /\ journal'[j] = Event("released", 0, pending[2], pending[1])
  <2>1. 1 \in DOMAIN t /\ t[1] = Event("released", 0, pending[2], pending[1])
    BY <1>3, <1>5 DEF Closing
  <2>2. t[1].type = "released"
    BY <2>1 DEF Event
  <2>3. Once(t, "released", 1)
    BY <1>3, <2>1, <2>2 DEF Once, Closing
  <2>4. PICK j \in DOMAIN journal' \ DOMAIN journal :
               Logged("released")' = Logged("released") \cup {j} /\ journal'[j] = t[1]
    BY <1>1, <1>3, <1>4, <2>3, LoggedOnceMore
  <2> QED BY <1>2, <2>1, <2>4
<1>6. ASSUME ~(Status = "succeeded" /\ pending # <<>>) PROVE Logged("released")' = {}
  <2>1. \A k \in DOMAIN t : t[k].type # "released"
    BY <1>3, <1>6 DEF Closing
  <2> QED BY <1>1, <1>2, <1>3, <1>4, <2>1, LoggedStays
<1> QED BY <1>1, <1>5, <1>6

(***************************************************************************)
(* Inductive invariant: every unit says something; until the run returns,  *)
(* the text to hand back is the candidate's.                               *)
(***************************************************************************)
Written == \A i \in DOMAIN ledger : ledger[i].text # 0
Agreed ==
    pc # "returned" =>
        /\ pending = <<>> <=> finalText = 0
        /\ pending # <<>> => pending[1] = finalText
AnswerInv == Written /\ Agreed /\ AnswerIsTheRelease

LEMMA MadeIsWritten ==
    ASSUME TypeOK, Written, NEW u, Made(u), u.text # 0
    PROVE  Written'
<1> DEFINE L == {ledger[i] : i \in DOMAIN ledger} \cup {u}
<1>1. ledger \in Seq(L) /\ <<u>> \in Seq(L) /\ DOMAIN <<u>> = {1} /\ <<u>>[1] = u
  BY DEF TypeOK
<1>2. ledger' = ledger \o <<u>>
  BY DEF Made
<1> HIDE DEF L
<1>3. ASSUME NEW i \in DOMAIN ledger' PROVE ledger'[i].text # 0
  <2>1. (i \in DOMAIN ledger /\ ledger'[i] = ledger[i]) \/ ledger'[i] = u
    BY <1>1, <1>2, <1>3, Positions
  <2> QED BY <2>1 DEF Written
<1> QED BY <1>3 DEF Written

LEMMA AnswerKept ==
    ASSUME TypeOK, JournalInv, JournalInv', NobodyElseAnswers(plan), AnswerInv, [Next]_vars
    PROVE  AnswerInv'
<1>1. ASSUME ~Close PROVE AnswerIsTheRelease'
  <2>1. CASE pc = "returned"
    BY <2>1, NothingAfterReturn DEF vars, answer, AnswerInv, AnswerIsTheRelease, Logged
  <2>2. CASE pc # "returned" /\ pc' = "returned"
    BY <1>1, <2>2, EndsHow DEF AnswerIsTheRelease
  <2>3. CASE pc' # "returned"
    BY <2>3 DEF JournalInv, Unended, AnswerIsTheRelease
  <2> QED BY <2>1, <2>2, <2>3
<1>2. NextId # 0
  BY DEF NextId, TypeOK
<1>3. pc' # "returned" => pc # "returned"
  BY NothingAfterReturn DEF vars
<1>4. CASE Close
  <2>1. ledger' = ledger /\ pc # "returned" /\ pc' = "returned" /\ finalText' = Answer
    BY <1>4, CloseReleases DEF Close, knowledge
  <2>2. CASE Status = "succeeded" /\ pending # <<>>
    <3>1. PICK j \in DOMAIN journal' :
                 /\ Logged("released")' = {j}
                 /\ journal'[j] = Event("released", 0, pending[2], pending[1])
      BY <1>4, <2>2, CloseReleases
    <3>2. finalText' = finalText /\ pending[1] = finalText /\ finalText # 0
      BY <2>1, <2>2 DEF Answer, AnswerInv, Agreed
    <3>3. journal'[j].ref = finalText'
      BY <3>1, <3>2 DEF Event
    <3> QED BY <2>1, <3>1, <3>2, <3>3 DEF AnswerInv, Written, Agreed, AnswerIsTheRelease
  <2>3. CASE ~(Status = "succeeded" /\ pending # <<>>)
    <3>1. Logged("released")' = {}
      BY <1>4, <2>3, CloseReleases
    <3>2. finalText' = 0
      BY <2>1, <2>3 DEF Answer, AnswerInv, Agreed
    <3> QED BY <2>1, <3>1, <3>2 DEF AnswerInv, Written, Agreed, AnswerIsTheRelease
  <2> QED BY <2>2, <2>3
<1>5. CASE MadeNothing /\ ~Close
  BY <1>1, <1>3, <1>5 DEF MadeNothing, AnswerInv, Written, Agreed
<1>6. CASE Open /\ UNCHANGED <<pending, finalText>>
  <2>1. ledger' = CarriedUnits /\ ~Close
    BY <1>6 DEF Open, Close
  <2>2. \A i \in DOMAIN CarriedUnits : CarriedUnits[i].text # 0
    BY DEF CarriedUnits, Unit
  <2> QED BY <1>1, <1>3, <1>6, <2>1, <2>2 DEF AnswerInv, Written, Agreed
<1>7. ASSUME NEW role, MadeNew(role),
             role = "response" => ModelReturns /\ plan.role[node] = role
      PROVE  AnswerInv'
  <2>1. role # "response"
    <3>1. ModelReturns => node \in NodesOf(plan) /\ plan.kind[node] = "model"
      BY DEF ModelReturns, Calling, TypeOK
    <3> QED BY <1>7, <3>1 DEF NobodyElseAnswers
  <2>2. PICK human, cites : Made(Unit(role, human, cites, NextId, FALSE))
    BY <1>7 DEF MadeNew
  <2> DEFINE u == Unit(role, human, cites, NextId, FALSE)
  <2>3. u.role = role /\ u.text = NextId /\ Made(u)
    BY <2>2 DEF Unit
  <2> HIDE DEF u
  <2>4. Written'
    BY <1>2, <2>3, MadeIsWritten DEF AnswerInv
  <2>5. UNCHANGED <<pending, finalText>>
    BY <1>7, <2>1, <2>3 DEF MadeNew, Made
  <2>6. ~Close \/ AnswerInv'
    BY <1>4
  <2> QED BY <1>1, <1>3, <2>4, <2>5, <2>6 DEF AnswerInv, Agreed
<1>8. CASE Respond
  <2> DEFINE u == Unit("response", FALSE, ledger[LatestDraft].cites,
                       ledger[LatestDraft].text, Reviewed)
  <2>1. LatestDraft \in DOMAIN ledger /\ finalText' = ledger[LatestDraft].text /\ Made(u)
    BY <1>8, NodesMake, LatestIsUnit DEF LatestDraft
  <2>2. u.role = "response" /\ u.text = ledger[LatestDraft].text
    BY DEF Unit
  <2> HIDE DEF u
  <2>3. u.text # 0
    BY <2>1, <2>2 DEF AnswerInv, Written
  <2>4. pending' # <<>> /\ pending'[1] = u.text
    BY <2>1, <2>2 DEF Made
  <2>5. ~Close
    BY <1>8 DEF Respond, Running, Close
  <2>6. Written'
    BY <2>1, <2>3, MadeIsWritten DEF AnswerInv
  <2> QED BY <1>1, <2>1, <2>2, <2>3, <2>4, <2>5, <2>6 DEF AnswerInv, Agreed
<1> QED BY <1>4, <1>5, <1>6, <1>7, <1>8, StepsMake

\* What run returns to the frontend is the text its journal released, in every
\* plan whose model nodes leave the role of a response to the respond node.
THEOREM AnswersAreReleased ==
    ASSUME \A p \in Plans : NobodyElseAnswers(p)
    PROVE  Spec => []AnswerIsTheRelease
<1>1. Init => AnswerInv
  BY DEF Init, AnswerInv, Written, Agreed, AnswerIsTheRelease
<1>2. TypeInv /\ JournalInv /\ JournalEndsOnce /\ AnswerInv /\ [Next]_vars
          => TypeInv' /\ JournalInv' /\ JournalEndsOnce' /\ AnswerInv'
  <2> SUFFICES ASSUME TypeInv, JournalInv, JournalEndsOnce, AnswerInv, [Next]_vars
               PROVE  TypeInv' /\ JournalInv' /\ JournalEndsOnce' /\ AnswerInv'
    OBVIOUS
  <2>1. TypeOK /\ TypeInv'
    BY NextTypes DEF TypeInv
  <2>2. JournalInv' /\ JournalEndsOnce'
    BY <2>1, NextJournal
  <2>3. NobodyElseAnswers(plan)
    BY <2>1 DEF TypeOK
  <2> QED BY <2>1, <2>2, <2>3, AnswerKept
<1>3. AnswerInv => AnswerIsTheRelease
  BY DEF AnswerInv
<1> QED BY <1>1, <1>2, <1>3, InitTypes, InitJournal, PTL DEF Spec

-----------------------------------------------------------------------------
(* A release labelled verified was judged. *)

LEMMA NewestIs ==
    ASSUME NEW n \in Nat, NEW S \in SUBSET (1 .. n), S # {}
    PROVE  Newest(S) \in S /\ \A i \in S : i <= Newest(S)
<1>1. \E i \in S : \A j \in S : j <= i
  BY Maximum
<1> QED BY <1>1 DEF Newest

(***************************************************************************)
(* Inductive invariant: the units are in the journal in the order of the   *)
(* ledger, with their roles.                                               *)
(***************************************************************************)
UnitInv ==
    /\ \A i \in Logged("unit") :
          journal[i].ref \in DOMAIN ledger /\ journal[i].what = ledger[journal[i].ref].role
    /\ \A u \in DOMAIN ledger : \E i \in Logged("unit") : journal[i].ref = u
    /\ \A i, j \in Logged("unit") : i < j => journal[i].ref < journal[j].ref

LEMMA MadeKeepsUnits ==
    ASSUME TypeOK, JournalInv, UnitInv, [Next]_vars, NEW u, Made(u)
    PROVE  UnitInv'
<1>1. PICK j \in DOMAIN journal' \ DOMAIN journal :
             Logged("unit")' = Logged("unit") \cup {j} /\ journal'[j] = UnitEvent(u.role)
  BY DEF Made
<1>2. journal'[j].ref = NextId /\ journal'[j].what = u.role
  BY <1>1 DEF UnitEvent, Event
<1>3. /\ DOMAIN ledger' = DOMAIN ledger \cup {NextId} /\ NextId \in Nat
      /\ \A i \in DOMAIN ledger : ledger'[i] = ledger[i] /\ i \in Nat /\ i < NextId
      /\ ledger'[NextId] = u
  <2> DEFINE L == {ledger[i] : i \in DOMAIN ledger} \cup {u}
  <2>1. ledger \in Seq(L) /\ u \in L
    BY DEF TypeOK
  <2>2. ledger' = ledger \o <<u>>
    BY DEF Made
  <2> HIDE DEF L
  <2>3. ledger' = Append(ledger, u)
    BY <2>1, <2>2, AppendIsConcat
  <2>4. DOMAIN ledger = 1 .. Len(ledger) /\ Len(ledger) \in Nat
    BY <2>1, LenProperties
  <2>5. /\ Len(ledger') = Len(ledger) + 1 /\ ledger' \in Seq(L)
        /\ \A i \in 1 .. Len(ledger) : ledger'[i] = ledger[i]
        /\ ledger'[Len(ledger) + 1] = u
    BY <2>1, <2>3, AppendProperties
  <2>6. DOMAIN ledger' = 1 .. (Len(ledger) + 1)
    BY <2>5, LenProperties
  <2> QED BY <2>4, <2>5, <2>6 DEF NextId
<1>4. /\ \A i \in Logged("unit") : i \in DOMAIN journal /\ journal'[i] = journal[i] /\ i \in Nat
      /\ j \in Nat /\ \A i \in Logged("unit") : i < j
  BY <1>1, JournalStays DEF Logged
<1>5. \A i \in Logged("unit")' :
          journal'[i].ref \in DOMAIN ledger' /\ journal'[i].what = ledger'[journal'[i].ref].role
  BY <1>1, <1>2, <1>3, <1>4 DEF UnitInv
<1>6. \A v \in DOMAIN ledger' : \E i \in Logged("unit")' : journal'[i].ref = v
  BY <1>1, <1>2, <1>3, <1>4 DEF UnitInv
<1>7. ASSUME NEW i \in Logged("unit")', NEW k \in Logged("unit")', i < k
      PROVE  journal'[i].ref < journal'[k].ref
  <2>1. CASE k \in Logged("unit") /\ i \in Logged("unit")
    BY <1>4, <1>7, <2>1 DEF UnitInv
  <2>2. CASE k = j /\ i \in Logged("unit")
    BY <1>2, <1>3, <1>4, <2>2 DEF UnitInv
  <2>3. CASE i = j
    <3>1. k \in Nat /\ k <= j
      BY <1>1, <1>4
    <3> QED BY <1>4, <1>7, <2>3, <3>1
  <2> QED BY <1>1, <2>1, <2>2, <2>3
<1> QED BY <1>5, <1>6, <1>7 DEF UnitInv

LEMMA OpenMakesUnits ==
    ASSUME TypeOK, JournalInv, Open
    PROVE  UnitInv'
<1>1. PICK t : Adds(t) /\ Opening(t)
  BY OpenAdds
<1>2. journal = <<>> /\ ledger' = CarriedUnits
  BY DEF Open, JournalInv, Unended
<1>3. t \in Seq(Events) /\ JournalTyped
  BY <1>1 DEF Opening, JournalInv
<1>4. DOMAIN journal = {} /\ Len(journal) = 0
  BY <1>2
<1>5. /\ DOMAIN journal' = DOMAIN t
      /\ \A i \in DOMAIN t : journal'[i] = t[i] /\ i \in Nat
  <2>1. /\ DOMAIN t = 1 .. Len(t) /\ Len(t) \in Nat /\ DOMAIN journal' = 1 .. (Len(journal) + Len(t))
        /\ \A k \in DOMAIN t : journal'[Len(journal) + k] = t[k]
    BY <1>1, <1>3, AddsAt
  <2> QED BY <1>4, <2>1
<1>6. PICK N \in Nat : N = Len(CarriedUnits) /\ DOMAIN CarriedUnits = 1 .. N
  <2>1. plan.feedback + plan.history \in Nat
    BY PlanTypes DEF PlanTyped
  <2>2. PICK n \in Nat : n = plan.feedback + plan.history
    BY <2>1
  <2> DEFINE U == {CarriedUnits[i] : i \in 1 .. n}
  <2>3. CarriedUnits \in [1 .. n -> U]
    BY <2>2 DEF CarriedUnits
  <2> HIDE DEF U
  <2>4. CarriedUnits \in Seq(U)
    BY <2>2, <2>3
  <2> QED BY <2>4, LenProperties
<1>7. /\ DOMAIN t = 1 .. N + 1 /\ t[1].type = "started"
      /\ \A k \in DOMAIN t \ {1} :
            k - 1 \in 1 .. N /\ t[k].type = "unit" /\ t[k].ref = k - 1
            /\ t[k].what = CarriedUnits[k - 1].role
  BY <1>1, <1>6 DEF Opening, Event
<1>8. Logged("unit")' = DOMAIN t \ {1}
  BY <1>5, <1>7 DEF Logged
<1>9. \A v \in 1 .. N : v + 1 \in DOMAIN t \ {1} /\ t[v + 1].ref = v
  BY <1>7
<1>10. \A i \in Logged("unit")' :
          journal'[i].ref \in DOMAIN ledger' /\ journal'[i].what = ledger'[journal'[i].ref].role
  BY <1>2, <1>5, <1>6, <1>7, <1>8
<1>11. \A v \in DOMAIN ledger' : \E i \in Logged("unit")' : journal'[i].ref = v
  BY <1>2, <1>5, <1>6, <1>8, <1>9
<1>12. \A i, k \in Logged("unit")' : i < k => journal'[i].ref < journal'[k].ref
  BY <1>5, <1>7, <1>8
<1> QED BY <1>10, <1>11, <1>12 DEF UnitInv

LEMMA UnitsKept ==
    ASSUME TypeOK, JournalInv, UnitInv, [Next]_vars
    PROVE  UnitInv'
<1>1. CASE MadeNothing
  <2>1. \A i \in Logged("unit") : journal'[i] = journal[i]
    BY JournalStays DEF Logged
  <2> QED BY <1>1, <2>1 DEF MadeNothing, UnitInv
<1>2. CASE Open
  BY <1>2, OpenMakesUnits
<1>3. ASSUME NEW role, MadeNew(role) PROVE UnitInv'
  BY <1>3, MadeKeepsUnits DEF MadeNew
<1>4. CASE Respond
  BY <1>4, NodesMake, MadeKeepsUnits
<1> QED BY <1>1, <1>2, <1>3, <1>4, StepsMake

\* The newest draft in the journal before position j is d.
DraftsBefore(j) == {k \in LoggedAt("unit", "draft") : k < j}
JudgedAt(j, d) == DraftsBefore(j) # {} /\ journal[Newest(DraftsBefore(j))].ref = d

(***************************************************************************)
(* Inductive invariant: what is marked verified was the newest draft when  *)
(* some review was written, and the candidate and the release labelled     *)
(* verified are texts of such drafts.                                      *)
(***************************************************************************)
MarksWereJudged == \A d \in verified : \E j \in LoggedAt("unit", "review") : JudgedAt(j, d)
Backed(text) == \E d \in verified : ledger[d].text = text
CandidateIsBacked ==
    pending # <<>> /\ pending[2] = "verified_response" => Backed(pending[1])
ReleaseIsBacked ==
    \A i \in LoggedAt("released", "verified_response") : Backed(journal[i].ref)
VerdictInv == MarksWereJudged /\ CandidateIsBacked /\ ReleaseIsBacked

\* What was judged stays judged.
LEMMA JudgedStays ==
    ASSUME TypeOK, JournalInv, [Next]_vars, NEW d, NEW j \in LoggedAt("unit", "review"),
           JudgedAt(j, d)
    PROVE  j \in LoggedAt("unit", "review")' /\ JudgedAt(j, d)'
<1>1. /\ \A i \in DOMAIN journal : i \in DOMAIN journal' /\ journal'[i] = journal[i] /\ i \in Nat
      /\ \A i \in DOMAIN journal' \ DOMAIN journal : i \in Nat /\ Len(journal) < i
      /\ DOMAIN journal = 1 .. Len(journal) /\ Len(journal) \in Nat
  BY JournalStays
<1>2. j \in DOMAIN journal /\ j \in LoggedAt("unit", "review")'
  BY <1>1 DEF LoggedAt, Logged
<1>3. \A k \in DOMAIN journal' : k < j => k \in DOMAIN journal
  BY <1>1, <1>2
<1>4. DraftsBefore(j)' = DraftsBefore(j)
  BY <1>1, <1>3 DEF DraftsBefore, LoggedAt, Logged
<1>5. DraftsBefore(j) \subseteq 1 .. Len(journal)
  BY <1>1 DEF DraftsBefore, LoggedAt, Logged
<1>6. PICK m : m = Newest(DraftsBefore(j))
  OBVIOUS
<1>7. m \in DOMAIN journal /\ journal'[m] = journal[m]
  BY <1>1, <1>5, <1>6, NewestIs DEF JudgedAt
<1> QED BY <1>2, <1>4, <1>6, <1>7 DEF JudgedAt

\* No unit of the role is newer than the latest.
LEMMA LatestIsNewest ==
    ASSUME TypeOK, NEW i \in DOMAIN ledger, ledger[i].role = "draft"
    PROVE  i <= LatestDraft
<1> DEFINE S == {k \in DOMAIN ledger : ledger[k].role \in {"draft"}}
<1>1. DOMAIN ledger = 1 .. Len(ledger) /\ Len(ledger) \in Nat
  BY DEF TypeOK
<1>2. S \in SUBSET (1 .. Len(ledger)) /\ i \in S
  BY <1>1
<1>3. LatestDraft = Newest(S)
  BY DEF LatestDraft, Latest
<1> HIDE DEF S
<1> QED BY <1>1, <1>2, <1>3, NewestIs

\* A judge that passes writes its review after the draft it read.
LEMMA PassIsJudged ==
    ASSUME TypeOK, JudgedDraft, JournalInv, UnitInv, [Next]_vars, JudgePasses,
           NEW d, d = LatestDraft
    PROVE  \E j \in LoggedAt("unit", "review")' : JudgedAt(j, d)'
<1>1. PICK human, cites : Made(Unit("review", human, cites, NextId, FALSE))
  BY NodesMake DEF MadeNew
<1>2. PICK j \in DOMAIN journal' \ DOMAIN journal :
             Logged("unit")' = Logged("unit") \cup {j} /\ journal'[j] = UnitEvent("review")
  BY <1>1 DEF Made, Unit
<1>3. journal'[j].what = "review"
  BY <1>2 DEF UnitEvent, Event
<1>4. j \in LoggedAt("unit", "review")'
  BY <1>2, <1>3 DEF LoggedAt
<1>5. /\ \A i \in DOMAIN journal : journal'[i] = journal[i] /\ i \in Nat /\ i < j
      /\ j \in Nat /\ DOMAIN journal = 1 .. Len(journal) /\ Len(journal) \in Nat
  BY <1>2, JournalStays
<1>6. DraftsBefore(j)' = LoggedAt("unit", "draft")
  BY <1>2, <1>3, <1>5 DEF DraftsBefore, LoggedAt, Logged
<1> DEFINE S == LoggedAt("unit", "draft")
<1>7. S \in SUBSET (1 .. Len(journal))
  BY <1>5 DEF LoggedAt, Logged
<1>8. d \in DOMAIN ledger /\ ledger[d].role = "draft"
  <2>1. d # 0
    BY PassedIsSupported, LatestIsUnit DEF JudgePasses, Calling, JudgedDraft
  <2> QED BY <2>1, LatestIsUnit DEF LatestDraft
<1>9. PICK i \in S : journal[i].ref = d
  BY <1>8 DEF UnitInv, LoggedAt
<1>10. PICK m \in S : m = Newest(S) /\ \A k \in S : k <= m
  BY <1>5, <1>7, <1>9, NewestIs
<1>11. /\ m \in Logged("unit") /\ i \in Logged("unit") /\ i <= m /\ m \in DOMAIN journal
       /\ journal[m].what = "draft"
  BY <1>10 DEF LoggedAt, Logged
<1>12. journal[m].ref \in DOMAIN ledger /\ ledger[journal[m].ref].role = "draft"
  BY <1>11 DEF UnitInv
<1>13. journal[m].ref <= d
  BY <1>12, LatestIsNewest
<1>14. journal[m].ref = d
  <2>1. i < m => journal[i].ref < journal[m].ref
    BY <1>11 DEF UnitInv
  <2>2. d \in Nat /\ journal[m].ref \in Nat
    BY <1>8, <1>12 DEF TypeOK
  <2>3. i = m \/ i < m
    BY <1>5, <1>11 DEF Logged
  <2> QED BY <1>9, <1>13, <2>1, <2>2, <2>3
<1>15. journal'[m].ref = d
  BY <1>5, <1>11, <1>14
<1>16. S # {} /\ m = Newest(S)
  BY <1>10
<1> HIDE DEF S
<1>17. DraftsBefore(j)' = S
  BY <1>6 DEF S
<1> QED BY <1>4, <1>15, <1>16, <1>17 DEF JudgedAt

LEMMA VerdictsKept ==
    ASSUME TypeInv, JournalInv, UnitInv, VerdictInv, [Next]_vars
    PROVE  VerdictInv'
<1>0. TypeOK /\ JudgedDraft
  BY DEF TypeInv
<1>1. verified \subseteq verified'
  BY OnlyJudgesVerify DEF JudgePasses
<1>2. \A d \in verified : d \in DOMAIN ledger /\ ledger'[d] = ledger[d]
  BY <1>0, LedgerStays DEF TypeOK
<1>3. ASSUME NEW text, Backed(text) PROVE Backed(text)'
  BY <1>1, <1>2, <1>3 DEF Backed
<1>4. MarksWereJudged'
  <2>1. \A d \in verified : \E j \in LoggedAt("unit", "review")' : JudgedAt(j, d)'
    BY <1>0, JudgedStays DEF VerdictInv, MarksWereJudged
  <2>2. CASE JudgePasses
    <3>1. PICK d : d = LatestDraft
      OBVIOUS
    <3>2. verified' = verified \cup {d}
      BY <2>2, <3>1 DEF JudgePasses
    <3>3. \E j \in LoggedAt("unit", "review")' : JudgedAt(j, d)'
      BY <1>0, <2>2, <3>1, PassIsJudged
    <3> QED BY <2>1, <3>2, <3>3 DEF MarksWereJudged
  <2> QED BY <2>1, <2>2, OnlyJudgesVerify DEF MarksWereJudged
<1>5. CandidateIsBacked'
  <2>1. CASE UNCHANGED pending
    <3>1. PICK p : p = pending
      OBVIOUS
    <3>2. p # <<>> /\ p[2] = "verified_response" => Backed(p[1])'
      BY <1>3, <3>1 DEF VerdictInv, CandidateIsBacked
    <3> QED BY <2>1, <3>1, <3>2 DEF CandidateIsBacked
  <2>2. ASSUME NEW role, MadeNew(role) PROVE CandidateIsBacked'
    <3>1. PICK human, cites : Made(Unit(role, human, cites, NextId, FALSE))
      BY <2>2 DEF MadeNew
    <3>2. pending' = pending \/ pending' = <<NextId, "response">>
      BY <3>1 DEF Made, Unit
    <3> QED BY <2>1, <3>2 DEF CandidateIsBacked
  <2>3. CASE Respond
    <3>1. PICK text : text = ledger[LatestDraft].text
      OBVIOUS
    <3>2. pending' = <<text, IF Reviewed THEN "verified_response" ELSE "response">>
      BY <2>3, <3>1, <1>0, NodesMake DEF Made, Unit
    <3>3. Reviewed => Backed(text)'
      BY <1>3, <3>1 DEF Reviewed, Backed
    <3> QED BY <3>2, <3>3 DEF CandidateIsBacked
  <2> QED BY <1>0, <2>1, <2>2, <2>3, StepsMake DEF MadeNothing
<1>6. ReleaseIsBacked'
  <2>1. CASE Logged("released")' = Logged("released")
    <3>1. \A i \in Logged("released") : i \in DOMAIN journal /\ journal'[i] = journal[i]
      BY <1>0, JournalStays DEF Logged
    <3>2. \A i \in LoggedAt("released", "verified_response")' :
             i \in LoggedAt("released", "verified_response") /\ journal'[i] = journal[i]
      BY <2>1, <3>1 DEF LoggedAt
    <3> QED BY <1>3, <3>2 DEF VerdictInv, ReleaseIsBacked
  <2>2. CASE Close
    <3>1. CASE Status = "succeeded" /\ pending # <<>>
      <4>1. PICK j \in DOMAIN journal' :
                   /\ Logged("released")' = {j}
                   /\ journal'[j] = Event("released", 0, pending[2], pending[1])
        BY <1>0, <2>2, <3>1, CloseReleases
      <4>2. journal'[j].what = pending[2] /\ journal'[j].ref = pending[1]
        BY <4>1 DEF Event
      <4>3. PICK p : p = pending
        OBVIOUS
      <4>4. p[2] = "verified_response" => Backed(p[1])'
        BY <1>3, <3>1, <4>3 DEF VerdictInv, CandidateIsBacked
      <4> QED BY <4>1, <4>2, <4>3, <4>4 DEF ReleaseIsBacked, LoggedAt
    <3>2. CASE ~(Status = "succeeded" /\ pending # <<>>)
      <4>1. Logged("released")' = {}
        BY <1>0, <2>2, <3>2, CloseReleases
      <4> QED BY <4>1 DEF ReleaseIsBacked, LoggedAt
    <3> QED BY <3>1, <3>2
  <2> QED BY <1>0, <2>1, <2>2, StepsLog
<1> QED BY <1>4, <1>5, <1>6 DEF VerdictInv

\* Whatever a graph does between the judge and the answer (revisions, other
\* drafts, an approval), a release labelled verified carries the text of a
\* draft that was the newest one when a review that passed it was written.
THEOREM VerifiedMeansReviewed == Spec => []VerifiedReleaseWasReviewed
<1>1. Init => UnitInv /\ VerdictInv
  <2> SUFFICES ASSUME Init PROVE UnitInv /\ VerdictInv
    OBVIOUS
  <2>1. journal = <<>> /\ ledger = <<>> /\ verified = {} /\ pending = <<>>
    BY DEF Init
  <2>2. \A type : Logged(type) = {} /\ \A what : LoggedAt(type, what) = {}
    BY <2>1 DEF Logged, LoggedAt
  <2> QED BY <2>1, <2>2 DEF UnitInv, VerdictInv, MarksWereJudged, CandidateIsBacked, ReleaseIsBacked
<1>2. TypeInv /\ JournalInv /\ JournalEndsOnce /\ UnitInv /\ VerdictInv /\ [Next]_vars
          => TypeInv' /\ JournalInv' /\ JournalEndsOnce' /\ UnitInv' /\ VerdictInv'
  BY NextTypes, NextJournal, UnitsKept, VerdictsKept DEF TypeInv
<1>3. VerdictInv => VerifiedReleaseWasReviewed
  <2> SUFFICES ASSUME VerdictInv, NEW i \in LoggedAt("released", "verified_response")
               PROVE  \E j \in LoggedAt("unit", "review") :
                          LET drafts == {k \in LoggedAt("unit", "draft") : k < j}
                          IN  /\ drafts # {}
                              /\ ledger[journal[Newest(drafts)].ref].text = journal[i].ref
    BY DEF VerifiedReleaseWasReviewed
  <2>1. PICK d \in verified : ledger[d].text = journal[i].ref
    BY DEF VerdictInv, ReleaseIsBacked, Backed
  <2>2. PICK j \in LoggedAt("unit", "review") : JudgedAt(j, d)
    BY DEF VerdictInv, MarksWereJudged
  <2> QED BY <2>1, <2>2 DEF JudgedAt, DraftsBefore
<1> QED BY <1>1, <1>2, <1>3, InitTypes, InitJournal, PTL DEF Spec

-----------------------------------------------------------------------------
(* A revision moves what it sends back up the ladder. *)

\* A higher escalation gives a higher tier, until the top of the ladder.
LEMMA TierRises ==
    ASSUME NEW ladder \in Nat, NEW base \in 0 .. ladder, NEW x \in Nat, NEW y \in Nat, x < y
    PROVE  \/ ResolveTier(ladder, base, y) > ResolveTier(ladder, base, x)
           \/ ResolveTier(ladder, base, x) \in {0, ladder} \/ ladder = 0
<1>1. CASE ladder = 0 \/ base = 0
  BY <1>1 DEF ResolveTier
<1>2. CASE ladder # 0 /\ base # 0
  <2>1. ResolveTier(ladder, base, y) = IF base + y <= ladder THEN base + y ELSE ladder
    BY <1>2 DEF ResolveTier
  <2>2. ResolveTier(ladder, base, x) = IF base + x <= ladder THEN base + x ELSE ladder
    BY <1>2 DEF ResolveTier
  <2> QED BY <2>1, <2>2
<1> QED BY <1>1, <1>2

\* The edge e of v leads to n when v's verdict is `revise'.
Revise == [verdict |-> "revise"]
Sends(v, e, n) ==
    /\ e \in DOMAIN plan.succ[v] /\ plan.succ[v][e].to = n
    /\ GuardPasses(plan.succ[v][e].when, Revise)

\* The judge v has still to follow the edge that moves n up, or never will: the
\* run is over.
Underway(v, n) ==
    \/ pc \in {"closing", "returned"}
    \/ /\ pc = "routing" /\ escalated /\ node = v /\ facts = Revise
       /\ \E e \in DOMAIN plan.succ[v] : edge <= e /\ Sends(v, e, n)

RevisedAfter(i) ==
    {k \in Judgements : i < k /\ \E e : Sends(journal[k].at, e, journal[i].at)}

\* The call i was made when its node had moved up x times, and has moved since
\* if it was sent back.
CalledAt(i, n, x) ==
    /\ x \in Nat /\ x <= escalations[n]
    /\ journal[i].ref = ResolveTier(plan.ladder, plan.base[n], x)
    /\ \A k \in RevisedAfter(i), v \in NodesOf(plan) :
          v = journal[k].at => x < escalations[n] \/ Underway(v, n)

(***************************************************************************)
(* Inductive invariant: judgements and calls are of nodes, and a call whose *)
(* work was sent back precedes an escalation of its node, made or underway. *)
(***************************************************************************)
EscInv ==
    /\ \A k \in Judgements : journal[k].at \in NodesOf(plan)
    /\ \A i \in Logged("model-call") :
          \E n \in NodesOf(plan) : n = journal[i].at /\ \E x : CalledAt(i, n, x)

\* Following an edge only adds; nothing else escalates.
LEMMA EscalationsGrow ==
    ASSUME TypeOK, [Next]_vars
    PROVE  \/ UNCHANGED escalations
           \/ /\ FollowEdge /\ escalated
              /\ escalations' = [escalations EXCEPT ![Edge.to] = @ + 1]
<1> USE DEF schedule
<1>1. CASE Open \/ RefuseToCompile \/ StopAtCap \/ StopAtVisitCap \/ RunNode \/ UnknownKind
  BY <1>1 DEF Open, RefuseToCompile, StopAtCap, StopAtVisitCap, RunNode, UnknownKind
<1>2. CASE \/ Intake \/ Research \/ BelowFloor \/ Respond \/ ModelReturns \/ JudgePasses
           \/ JudgeRevises \/ Approve \/ \E ok \in BOOLEAN : ToolReturns(ok)
  BY <1>2 DEF Intake, Research, BelowFloor, Respond, ModelReturns, JudgePasses, JudgeRevises,
     Approve, ToolReturns
<1>3. CASE Stopped \/ Call \/ NothingToWorkOn \/ NoRoomForPrompt \/ CallFails
  BY <1>3 DEF Stopped, Call, NothingToWorkOn, NodeError, NoRoomForPrompt, CallFails
<1>4. CASE AskApproval \/ Silence \/ Decline
  BY <1>4 DEF AskApproval, Silence, Decline, Refuse
<1>5. CASE PassOverEdge \/ BadGuard \/ Settle \/ Close
  BY <1>5 DEF PassOverEdge, BadGuard, Settle, Close
<1>6. CASE FollowEdge
  BY <1>6 DEF FollowEdge, Escalated
<1>7. CASE Environment \/ UNCHANGED vars
  BY <1>7 DEF Environment, Cancel, Expire, vars
<1> QED BY <1>1, <1>2, <1>3, <1>4, <1>5, <1>6, <1>7 DEF Next, Executes, Outside, Returned

\* A judge that is underway stays so until it has moved the node up.
LEMMA UnderwayStays ==
    ASSUME TypeOK, [Next]_vars, NEW v \in NodesOf(plan), NEW n \in NodesOf(plan), Underway(v, n)
    PROVE  Underway(v, n)' \/ escalations'[n] = escalations[n] + 1
<1>1. CASE pc = "returned"
  BY <1>1, NothingAfterReturn DEF vars, Underway
<1>2. CASE pc = "closing"
  <2>1. Close \/ pc' = pc
    BY <1>2 DEF Next, Executes, Outside, Environment, Returned, Open, RefuseToCompile,
       StopAtCap, StopAtVisitCap, RunNode, UnknownKind, Visit, Pop, Stopped, Intake,
       Research, Respond, BelowFloor, Call, ReadyToCall, NothingToWorkOn, AskApproval,
       Silence, Refuse, FollowEdge, PassOverEdge, BadGuard, Settle,
       NoRoomForPrompt, CallFails, ModelReturns, JudgePasses, JudgeRevises, ToolReturns,
       Approve, Decline, Cancel, Expire, Running, Calling, vars
  <2> QED BY <1>2, <2>1 DEF Close, Underway
<1>3. CASE /\ pc = "routing" /\ escalated /\ node = v /\ facts = Revise
           /\ \E e \in DOMAIN plan.succ[v] : edge <= e /\ Sends(v, e, n)
  <2>1. PICK e \in DOMAIN plan.succ[v] : edge <= e /\ Sends(v, e, n)
    BY <1>3
  <2>2. e \in Nat /\ edge \in Nat /\ edge # 0 /\ edge \in DOMAIN plan.succ[v]
    <3>1. plan.succ[v] \in Seq(EdgesWithin(NodesOf(plan)))
      BY PlanTypes DEF PlanTyped
    <3>2. DOMAIN plan.succ[v] = 1 .. Len(plan.succ[v]) /\ Len(plan.succ[v]) \in Nat
      BY <3>1, LenProperties
    <3>3. edge \in Nat \ {0}
      BY DEF TypeOK
    <3> QED BY <2>1, <3>2, <3>3
  <2>3. Edge = plan.succ[v][edge]
    BY <1>3 DEF Edge
  <2>4. UNCHANGED plan
    BY OnlyJudgesVerify
  <2>5. CASE FollowEdge
    <3>1. /\ UNCHANGED <<pc, node, escalated, facts>> /\ edge' = edge + 1
          /\ escalations' = [escalations EXCEPT ![Edge.to] = @ + 1]
      BY <1>3, <2>5 DEF FollowEdge, Escalated
    <3>2. CASE e = edge
      <4>1. Edge.to = n
        BY <2>1, <2>3, <3>2 DEF Sends
      <4> QED BY <3>1, <4>1 DEF TypeOK
    <3>3. CASE e # edge
      <4>1. edge' <= e
        BY <2>1, <2>2, <3>1, <3>3
      <4>2. Sends(v, e, n)'
        BY <2>1, <2>4 DEF Sends
      <4> QED BY <1>3, <2>1, <2>4, <3>1, <4>1, <4>2 DEF Underway
    <3> QED BY <3>2, <3>3
  <2>6. CASE PassOverEdge
    <3>1. UNCHANGED <<pc, node, escalated, facts>> /\ edge' = edge + 1
      BY <2>6 DEF PassOverEdge
    <3>2. e # edge
      BY <1>3, <2>1, <2>3, <2>6 DEF PassOverEdge, Sends
    <3>3. edge' <= e
      BY <2>1, <2>2, <3>1, <3>2
    <3>4. Sends(v, e, n)'
      BY <2>1, <2>4 DEF Sends
    <3> QED BY <1>3, <2>1, <2>4, <3>1, <3>3, <3>4 DEF Underway
  <2>7. CASE BadGuard \/ Close
    BY <2>7 DEF BadGuard, Close, Underway
  <2>8. CASE Settle
    BY <1>3, <2>2, <2>8 DEF Settle
  <2>9. CASE Environment \/ UNCHANGED vars
    <3>1. UNCHANGED <<pc, node, escalated, facts, edge>>
      BY <2>9 DEF Environment, Cancel, Expire, vars, progress
    <3>2. Sends(v, e, n)'
      BY <2>1, <2>4 DEF Sends
    <3> QED BY <1>3, <2>1, <2>4, <3>1, <3>2 DEF Underway
  <2>10. \/ FollowEdge \/ PassOverEdge \/ BadGuard \/ Close \/ Settle
         \/ Environment \/ UNCHANGED vars
    BY <1>3 DEF Next, Executes, Outside, Returned, Open, RefuseToCompile,
       StopAtCap, StopAtVisitCap, RunNode, UnknownKind, Visit, Pop, Stopped, Intake,
       Research, Respond, BelowFloor, Call, ReadyToCall, NothingToWorkOn, AskApproval,
       Silence, Refuse, NoRoomForPrompt, CallFails, ModelReturns, JudgePasses, JudgeRevises,
       ToolReturns, Approve, Decline, Running, Calling
  <2> QED BY <2>5, <2>6, <2>7, <2>8, <2>9, <2>10
<1> QED BY <1>1, <1>2, <1>3 DEF Underway

\* What a model call leaves: one call of the node on its tier, before any
\* judgement of the same step.
LEMMA CallsReported ==
    ASSUME TypeOK, JournalInv, [Next]_vars, ModelReturns \/ JudgePasses \/ JudgeRevises
    PROVE  \E j \in DOMAIN journal' \ DOMAIN journal :
              /\ Logged("model-call")' = Logged("model-call") \cup {j}
              /\ journal'[j].at = node /\ journal'[j].ref = Tier(node)
              /\ \A k \in Judgements' \ Judgements : j < k /\ journal'[k].at = node
<1>1. ASSUME NEW records, NEW roles, Leaving(records, roles),
             \/ DOMAIN records = {1, 2}
             \/ DOMAIN records = {1, 2, 3} /\ records[3] = Event("failure", node, "judged", LatestDraft),
             records[1].type = "routing",
             records[2] = Event("model-call", node, "", Tier(node))
      PROVE  \E j \in DOMAIN journal' \ DOMAIN journal :
                /\ Logged("model-call")' = Logged("model-call") \cup {j}
                /\ journal'[j].at = node /\ journal'[j].ref = Tier(node)
                /\ \A k \in Judgements' \ Judgements : j < k /\ journal'[k].at = node
  <2>1. PICK t : Adds(t) /\ Shape(t, records, roles)
    BY <1>1 DEF Leaving
  <2>2. t \in Seq(Events) /\ JournalTyped
    BY <2>1 DEF Shape, JournalInv
  <2>3. \A k \in DOMAIN records : k \in DOMAIN t /\ t[k] = records[k]
    BY <2>1 DEF Shape
  <2>4. \A k \in DOMAIN t \ DOMAIN records : t[k].type \in {"receipt", "visible", "unit", "transition"}
    <3>1. \A r : UnitEvent(r).type = "unit"
      BY DEF UnitEvent, Event
    <3>2. Came.type = "transition"
      BY DEF Came, Transition, Event
    <3> QED BY <2>1, <3>1, <3>2 DEF Shape
  <2>5. /\ 2 \in DOMAIN t /\ t[2].type = "model-call" /\ t[2].at = node /\ t[2].ref = Tier(node)
        /\ 1 \in DOMAIN t /\ t[1].type = "routing"
        /\ 3 \in DOMAIN records => t[3].type = "failure" /\ t[3].at = node
    <3>1. 1 \in DOMAIN records /\ 2 \in DOMAIN records
      BY <1>1
    <3>2. 3 \in DOMAIN records => records[3] = Event("failure", node, "judged", LatestDraft)
      <4>1. \/ DOMAIN records = {1, 2}
            \/ records[3] = Event("failure", node, "judged", LatestDraft)
        BY <1>1, Zenon
      <4>2. DOMAIN records = {1, 2} => 3 \notin DOMAIN records
        OBVIOUS
      <4> QED BY <4>1, <4>2, Zenon
    <3>3. 1 \in DOMAIN t /\ t[1] = records[1]
      BY <2>3, <3>1, Zenon
    <3>4. 2 \in DOMAIN t /\ t[2] = records[2]
      BY <2>3, <3>1, Zenon
    <3>5. 3 \in DOMAIN records => t[3] = Event("failure", node, "judged", LatestDraft)
      BY <2>3, <3>2, Zenon
    <3>6. /\ t[2].type = "model-call" /\ t[2].at = node /\ t[2].ref = Tier(node)
          /\ t[1].type = "routing"
      <4>1. t[1].type = "routing" /\ t[2] = Event("model-call", node, "", Tier(node))
        BY <1>1, <3>3, <3>4, Zenon
      <4>2. \A r : /\ Event("model-call", node, "", r).type = "model-call"
                   /\ Event("model-call", node, "", r).at = node
                   /\ Event("model-call", node, "", r).ref = r
        BY DEF Event
      <4> QED BY <4>1, <4>2, Zenon
    <3>7. 3 \in DOMAIN records => t[3].type = "failure" /\ t[3].at = node
      BY <3>5 DEF Event
    <3> QED BY <3>3, <3>4, <3>6, <3>7
  <2>6. \A k \in DOMAIN t : k = 1 \/ k = 2 \/ (k = 3 /\ 3 \in DOMAIN records) \/ k \in DOMAIN t \ DOMAIN records
    BY <1>1
  <2>7. Once(t, "model-call", 2)
    BY <2>4, <2>5, <2>6 DEF Once
  <2>8. \A k \in DOMAIN t : t[k].type = "failure" => k = 3 /\ t[k].at = node
    BY <2>4, <2>5, <2>6
  <2>9. PICK j \in DOMAIN journal' \ DOMAIN journal :
               Logged("model-call")' = Logged("model-call") \cup {j} /\ journal'[j] = t[2]
    BY <2>1, <2>2, <2>7, LoggedOnceMore
  <2>10. /\ \A i \in DOMAIN journal : i \in DOMAIN journal' /\ journal'[i] = journal[i]
         /\ \A i \in DOMAIN journal' \ DOMAIN journal :
               /\ i - Len(journal) \in DOMAIN t /\ journal'[i] = t[i - Len(journal)]
               /\ i \in Nat
         /\ Len(journal) \in Nat
    <3>1. \A i \in DOMAIN journal' \ DOMAIN journal : i \in Nat
      BY JournalStays
    <3> QED BY <2>1, <2>2, <3>1, AddsAt
  <2>11. j = Len(journal) + 2
    <3>1. journal'[j].type = "model-call" /\ j - Len(journal) \in DOMAIN t
          /\ journal'[j] = t[j - Len(journal)]
      BY <2>5, <2>9, <2>10
    <3>2. j - Len(journal) = 2
      BY <2>7, <3>1 DEF Once
    <3> QED BY <2>10, <3>2
  <2>12. ASSUME NEW k \in Judgements' \ Judgements PROVE j < k /\ journal'[k].at = node
    <3>1. k \in DOMAIN journal' /\ journal'[k].type = "failure" /\ k \notin DOMAIN journal
      BY <2>10, <2>12 DEF Judgements, LoggedAt, Logged
    <3>2. k - Len(journal) = 3 /\ journal'[k].at = node /\ k \in Nat
      BY <2>8, <2>10, <3>1
    <3> QED BY <2>10, <2>11, <3>2
  <2> QED BY <2>5, <2>9, <2>12
<1>2. /\ DOMAIN CallRecords = {1, 2} /\ CallRecords[1].type = "routing"
      /\ CallRecords[2] = Event("model-call", node, "", Tier(node))
  BY RecordsAre
<1>3. /\ DOMAIN Rejection = {1, 2, 3} /\ Rejection[1].type = "routing"
      /\ Rejection[2] = Event("model-call", node, "", Tier(node))
      /\ Rejection[3] = Event("failure", node, "judged", LatestDraft)
  BY RecordsAre
<1>4. CASE ModelReturns \/ JudgePasses
  <2>1. \E roles : Leaving(CallRecords, roles)
    BY <1>4, NodesAdd
  <2> QED BY <1>1, <1>2, <2>1
<1>5. CASE JudgeRevises
  <2>1. \E roles : Leaving(Rejection, roles)
    BY <1>5, NodesAdd
  <2> QED BY <1>1, <1>3, <2>1
<1> QED BY <1>4, <1>5

\* A judge that has just revised is underway to all it sends back.
LEMMA RevisionIsUnderway ==
    ASSUME TypeOK, JudgeRevises, NEW v, v = node, NEW n, NEW e, Sends(v, e, n)
    PROVE  Underway(v, n)'
<1>1. /\ pc' = "closing" \/ (pc' = "routing" /\ escalated' = TRUE /\ facts' = Revise /\ edge' = 1)
      /\ UNCHANGED <<plan, node>>
  BY DEF JudgeRevises, Commit, Stops, Revise
<1>2. v \in NodesOf(plan)
  BY DEF JudgeRevises, Calling, TypeOK
<1>3. e \in DOMAIN plan.succ[v] /\ Sends(v, e, n)'
  BY <1>1 DEF Sends
<1>4. 1 <= e
  <2>1. plan.succ[v] \in Seq(EdgesWithin(NodesOf(plan)))
    BY <1>2, PlanTypes DEF PlanTyped
  <2>2. DOMAIN plan.succ[v] = 1 .. Len(plan.succ[v]) /\ Len(plan.succ[v]) \in Nat
    BY <2>1, LenProperties
  <2> QED BY <1>3, <2>2
<1> QED BY <1>1, <1>3, <1>4 DEF Underway

\* Judgements are made by nodes, and only an old one precedes an old event.
LEMMA JudgementsKept ==
    ASSUME TypeOK, JournalInv, EscInv, [Next]_vars
    PROVE  /\ \A k \in Judgements' : journal'[k].at \in NodesOf(plan)
           /\ \A k \in Judgements : k \in DOMAIN journal /\ k \in Judgements' /\ journal'[k] = journal[k]
           /\ \A k \in Judgements' \ Judgements :
                 k \notin DOMAIN journal /\ JudgeRevises /\ journal'[k].at = node
<1>1. \A i \in DOMAIN journal : i \in DOMAIN journal' /\ journal'[i] = journal[i]
  BY JournalStays
<1>2. \A k \in Judgements : k \in DOMAIN journal /\ k \in Judgements' /\ journal'[k] = journal[k]
  BY <1>1 DEF Judgements, LoggedAt, Logged
<1>3. \A k \in Judgements' \ Judgements :
         k \notin DOMAIN journal /\ JudgeRevises /\ journal'[k].at = node
  <2>1. \A k \in Judgements' \ Judgements : k \notin DOMAIN journal
    BY <1>1 DEF Judgements, LoggedAt, Logged
  <2> QED BY <2>1, StepsLog, CallsReported
<1>4. JudgeRevises => node \in NodesOf(plan)
  BY DEF JudgeRevises, Calling, TypeOK
<1> QED BY <1>2, <1>3, <1>4 DEF EscInv

LEMMA CallsStayCalled ==
    ASSUME TypeOK, JournalInv, EscInv, [Next]_vars, NEW i \in Logged("model-call"),
           NEW n \in NodesOf(plan), n = journal[i].at, NEW x, CalledAt(i, n, x)
    PROVE  CalledAt(i, n, x)'
<1>1. UNCHANGED plan
  BY OnlyJudgesVerify
<1>2. i \in DOMAIN journal /\ journal'[i] = journal[i]
  BY JournalStays DEF Logged
<1>3. escalations[n] \in Nat /\ escalations'[n] \in Nat /\ escalations[n] <= escalations'[n]
  <2>1. escalations \in [NodesOf(plan) -> Nat]
    BY DEF TypeOK
  <2>2. CASE UNCHANGED escalations
    BY <2>1, <2>2
  <2>3. CASE escalations' = [escalations EXCEPT ![Edge.to] = @ + 1]
    BY <2>1, <2>3
  <2> QED BY <2>2, <2>3, EscalationsGrow
<1>4. ASSUME NEW k \in RevisedAfter(i)', NEW v \in NodesOf(plan), v = journal'[k].at
      PROVE  x < escalations'[n] \/ Underway(v, n)'
  <2>1. k \in Judgements' /\ i < k
    BY <1>4 DEF RevisedAfter
  <2>4. PICK e : Sends(v, e, n)
    BY <1>1, <1>2, <1>4 DEF RevisedAfter, Sends
  <2>5. CASE k \in Judgements
    <3>1. journal[k].at = v
      BY <1>4, <2>5, JudgementsKept
    <3>2. k \in RevisedAfter(i)
      BY <2>1, <2>4, <2>5, <3>1 DEF RevisedAfter
    <3>3. x < escalations[n] \/ Underway(v, n)
      BY <3>1, <3>2 DEF CalledAt
    <3>4. Underway(v, n) => Underway(v, n)' \/ escalations'[n] = escalations[n] + 1
      BY UnderwayStays
    <3>5. x \in Nat /\ x <= escalations[n]
      BY DEF CalledAt
    <3> QED BY <1>3, <3>3, <3>4, <3>5
  <2>6. CASE k \notin Judgements
    <3>1. JudgeRevises /\ v = node
      BY <1>4, <2>1, <2>6, JudgementsKept
    <3> QED BY <2>4, <3>1, RevisionIsUnderway
  <2> QED BY <2>5, <2>6
<1>5. x \in Nat /\ x <= escalations'[n]
  BY <1>3 DEF CalledAt
<1>6. journal'[i].ref = ResolveTier(plan'.ladder, plan'.base[n], x)
  BY <1>1, <1>2 DEF CalledAt
<1>7. NodesOf(plan)' = NodesOf(plan)
  BY <1>1 DEF NodesOf
<1> QED BY <1>4, <1>5, <1>6, <1>7 DEF CalledAt

LEMMA NewCallIsCalled ==
    ASSUME TypeOK, JournalInv, EscInv, [Next]_vars, ModelReturns \/ JudgePasses \/ JudgeRevises,
           NEW j \in DOMAIN journal' \ DOMAIN journal,
           journal'[j].at = node, journal'[j].ref = Tier(node),
           NEW n, n = node
    PROVE  n \in NodesOf(plan) /\ n = journal'[j].at /\ \E x : CalledAt(j, n, x)'
<1>1. n \in NodesOf(plan) /\ pc = "calling"
  BY DEF ModelReturns, JudgePasses, JudgeRevises, Calling, TypeOK
<1>2. UNCHANGED plan
  BY OnlyJudgesVerify
<1>3. UNCHANGED escalations
  BY <1>1, EscalationsGrow DEF FollowEdge
<1>4. PICK x \in Nat : x = escalations[n]
  BY <1>1 DEF TypeOK
<1>5. ASSUME NEW k \in RevisedAfter(j)', NEW v \in NodesOf(plan), v = journal'[k].at
      PROVE  Underway(v, n)'
  <2>1. k \in Judgements' /\ j < k
    BY <1>5 DEF RevisedAfter
  <2>2. k \notin Judgements
    <3>1. /\ \A i \in DOMAIN journal' \ DOMAIN journal : i \in Nat /\ Len(journal) < i
          /\ DOMAIN journal = 1 .. Len(journal) /\ Len(journal) \in Nat
      BY JournalStays
    <3>2. k \in Judgements => k \in DOMAIN journal
      BY DEF Judgements, LoggedAt, Logged
    <3> QED BY <2>1, <3>1, <3>2
  <2>3. JudgeRevises /\ v = node
    BY <1>5, <2>1, <2>2, JudgementsKept
  <2>4. PICK e : Sends(v, e, n)
    BY <1>2, <1>5 DEF RevisedAfter, Sends
  <2> QED BY <2>3, <2>4, RevisionIsUnderway
<1>6. x <= escalations'[n]
  BY <1>3, <1>4
<1>7. journal'[j].ref = ResolveTier(plan'.ladder, plan'.base[n], x)
  BY <1>2, <1>4 DEF Tier
<1>8. NodesOf(plan)' = NodesOf(plan)
  BY <1>2 DEF NodesOf
<1>9. CalledAt(j, n, x)'
  BY <1>4, <1>5, <1>6, <1>7, <1>8 DEF CalledAt
<1> QED BY <1>1, <1>9

LEMMA EscKept ==
    ASSUME TypeOK, JournalInv, EscInv, [Next]_vars
    PROVE  EscInv'
<1>1. UNCHANGED plan
  BY OnlyJudgesVerify
<1>2. \A k \in Judgements' : journal'[k].at \in NodesOf(plan)'
  BY <1>1, JudgementsKept DEF NodesOf
<1>3. ASSUME NEW i \in Logged("model-call")
      PROVE  \E n \in NodesOf(plan) : n = journal'[i].at /\ \E x : CalledAt(i, n, x)'
  <2>1. PICK n \in NodesOf(plan) : n = journal[i].at /\ \E x : CalledAt(i, n, x)
    BY DEF EscInv
  <2>2. PICK x : CalledAt(i, n, x)
    BY <2>1
  <2>3. CalledAt(i, n, x)'
    BY <2>1, <2>2, CallsStayCalled
  <2>4. journal'[i] = journal[i]
    BY JournalStays DEF Logged
  <2> QED BY <2>1, <2>3, <2>4
<1>4. ASSUME NEW i \in Logged("model-call")' \ Logged("model-call")
      PROVE  \E n \in NodesOf(plan) : n = journal'[i].at /\ \E x : CalledAt(i, n, x)'
  <2>1. ModelReturns \/ JudgePasses \/ JudgeRevises
    BY StepsLog
  <2>2. /\ i \in DOMAIN journal' \ DOMAIN journal
        /\ journal'[i].at = node /\ journal'[i].ref = Tier(node)
    BY <2>1, CallsReported
  <2>3. PICK n : n = node
    OBVIOUS
  <2> QED BY <2>1, <2>2, <2>3, NewCallIsCalled
<1>5. \A i \in Logged("model-call")' :
         \E n \in NodesOf(plan)' : n = journal'[i].at /\ \E x : CalledAt(i, n, x)'
  BY <1>1, <1>3, <1>4 DEF NodesOf
<1> QED BY <1>2, <1>5 DEF EscInv

\* A call that follows a revision of the same node is on a higher tier.
LEMMA RevisionsEscalate ==
    ASSUME TypeOK, JournalInv, EscInv, RevisionEscalates, [Next]_vars
    PROVE  RevisionEscalates'
<1>1. UNCHANGED plan
  BY OnlyJudgesVerify
<1>2. /\ \A i \in DOMAIN journal : i \in DOMAIN journal' /\ journal'[i] = journal[i] /\ i \in Nat
      /\ \A i \in DOMAIN journal' \ DOMAIN journal : i \in Nat /\ Len(journal) < i
      /\ DOMAIN journal = 1 .. Len(journal) /\ Len(journal) \in Nat
  BY JournalStays
<1>3. \A k \in Judgements' : k \in DOMAIN journal => k \in Judgements
  BY <1>2 DEF Judgements, LoggedAt, Logged
<1>4. SUFFICES ASSUME NEW i \in Logged("model-call")', NEW j \in Logged("model-call")',
                      SentBack(i, j)'
               PROVE  \/ journal'[j].ref > journal'[i].ref
                      \/ journal'[i].ref \in {0, plan.ladder} \/ plan.ladder = 0
  BY <1>1 DEF RevisionEscalates
<1>5. PICK k \in Judgements' :
             /\ i < k /\ k < j /\ i < j /\ journal'[i].at = journal'[j].at
             /\ \E e \in Into(plan, journal'[i].at) :
                   e.from = journal'[k].at /\ GuardPasses(e.when, Revise)
  BY <1>1, <1>4 DEF SentBack, Judgements, Revise
<1>6. i \in DOMAIN journal' /\ j \in DOMAIN journal' /\ k \in DOMAIN journal'
  BY <1>4, <1>5 DEF Judgements, LoggedAt, Logged
<1>7. CASE j \in Logged("model-call")
  <2>1. j \in DOMAIN journal
    BY <1>7 DEF Logged
  <2>2. i \in DOMAIN journal /\ k \in DOMAIN journal
    BY <1>2, <1>5, <1>6, <2>1
  <2>3. i \in Logged("model-call") /\ k \in Judgements
    BY <1>2, <1>3, <1>4, <1>5, <2>2 DEF Logged
  <2>4. SentBack(i, j)
    BY <1>2, <1>5, <2>1, <2>2, <2>3 DEF SentBack, Judgements, Revise
  <2> QED BY <1>2, <1>7, <2>1, <2>2, <2>3, <2>4 DEF RevisionEscalates
<1>8. CASE j \notin Logged("model-call")
  <2>1. ModelReturns \/ JudgePasses \/ JudgeRevises
    BY <1>4, <1>8, StepsLog
  <2>2. /\ j \in DOMAIN journal' \ DOMAIN journal
        /\ Logged("model-call")' = Logged("model-call") \cup {j}
        /\ journal'[j].at = node /\ journal'[j].ref = Tier(node)
        /\ \A l \in Judgements' \ Judgements : j < l
    BY <1>4, <1>8, <2>1, CallsReported
  <2>3. i \in Logged("model-call") /\ i \in DOMAIN journal /\ journal'[i] = journal[i]
    <3>1. i # j
      BY <1>2, <1>5, <2>2
    <3> QED BY <1>2, <1>4, <2>2, <3>1 DEF Logged
  <2>4. k \in Judgements /\ journal'[k] = journal[k]
    <3>1. k \in Judgements
      BY <1>2, <1>5, <1>6, <2>2
    <3> QED BY <3>1, JudgementsKept
  <2>5. PICK n \in NodesOf(plan) : n = journal[i].at /\ \E x : CalledAt(i, n, x)
    BY <2>3 DEF EscInv
  <2>6. PICK x : CalledAt(i, n, x)
    BY <2>5
  <2>7. n = node /\ pc = "calling"
    BY <1>5, <2>1, <2>2, <2>3, <2>5 DEF ModelReturns, JudgePasses, JudgeRevises, Calling
  <2>8. k \in RevisedAfter(i)
    <3>1. PICK e \in EdgesOf(plan) :
                 e.to = n /\ e.from = journal[k].at /\ GuardPasses(e.when, Revise)
      BY <1>5, <2>3, <2>4, <2>5 DEF Into
    <3>2. PICK m \in NodesOf(plan) : \E d \in DOMAIN plan.succ[m] :
                 e = [from |-> m, to |-> plan.succ[m][d].to, when |-> plan.succ[m][d].when]
      BY <3>1 DEF EdgesOf
    <3>3. PICK d \in DOMAIN plan.succ[m] :
                 e = [from |-> m, to |-> plan.succ[m][d].to, when |-> plan.succ[m][d].when]
      BY <3>2
    <3>4. Sends(journal[k].at, d, n)
      BY <3>1, <3>3 DEF Sends
    <3> QED BY <1>5, <2>4, <2>5, <3>4 DEF RevisedAfter
  <2>9. journal[k].at \in NodesOf(plan) /\ ~Underway(journal[k].at, n)
    BY <2>4, <2>7 DEF EscInv, Underway
  <2>10. x \in Nat /\ x < escalations[n] /\ escalations[n] \in Nat
    BY <2>6, <2>8, <2>9 DEF CalledAt, TypeOK
  <2>11. /\ journal[i].ref = ResolveTier(plan.ladder, plan.base[n], x)
         /\ journal'[j].ref = ResolveTier(plan.ladder, plan.base[n], escalations[n])
    BY <2>2, <2>6, <2>7 DEF CalledAt, Tier
  <2>12. plan.ladder \in Nat /\ plan.base[n] \in 0 .. plan.ladder
    BY PlanTypes DEF PlanTyped
  <2> QED BY <2>3, <2>10, <2>11, <2>12, TierRises
<1> QED BY <1>7, <1>8

\* A node whose work a judge sent back, however its edges are ordered and
\* whatever ran in between, is called again on a higher tier, as long as the
\* routing ladder has one.
THEOREM RevisionsClimb == Spec => []RevisionEscalates
<1>1. Init => EscInv /\ RevisionEscalates
  <2> SUFFICES ASSUME Init PROVE EscInv /\ RevisionEscalates
    OBVIOUS
  <2>1. journal = <<>>
    BY DEF Init
  <2>2. \A type : Logged(type) = {} /\ \A what : LoggedAt(type, what) = {}
    BY <2>1 DEF Logged, LoggedAt
  <2> QED BY <2>2 DEF EscInv, Judgements, RevisionEscalates
<1>2. TypeInv /\ JournalInv /\ JournalEndsOnce /\ EscInv /\ RevisionEscalates /\ [Next]_vars
          => TypeInv' /\ JournalInv' /\ JournalEndsOnce' /\ EscInv' /\ RevisionEscalates'
  BY NextTypes, NextJournal, EscKept, RevisionsEscalate DEF TypeInv
<1> QED BY <1>1, <1>2, InitTypes, InitJournal, PTL DEF Spec


-----------------------------------------------------------------------------
(* A node runs after something that feeds it. *)

Feeders(n) == {e.from : e \in Into(plan, n)}

\* Nothing feeds n, or something that feeds it has succeeded.
Fed(n) == Into(plan, n) = {} \/ \E j \in Succeeded : journal[j].at \in Feeders(n)

FedBefore(n, i) ==
    Into(plan, n) = {} \/ \E j \in Succeeded : j < i /\ journal[j].at \in Feeders(n)

(***************************************************************************)
(* Inductive invariant: what is queued has been fed, and so had been every *)
(* node that ran; the node whose edges are followed has succeeded.         *)
(***************************************************************************)
FedInv ==
    /\ \A n \in queued : Fed(n)
    /\ pc = "routing" => \E j \in Succeeded : journal[j].at = node
    /\ \A i \in Started : \A n : n = journal[i].at => FedBefore(n, i)

LEMMA SuccessStays ==
    ASSUME TypeOK, JournalInv, [Next]_vars
    PROVE  /\ \A j \in Succeeded :
                 j \in DOMAIN journal /\ j \in Succeeded' /\ journal'[j] = journal[j]
           /\ \A n : Feeders(n)' = Feeders(n) /\ (Into(plan, n) = {} <=> Into(plan, n)' = {})
<1>1. /\ \A j \in DOMAIN journal : j \in DOMAIN journal' /\ journal'[j] = journal[j]
      /\ UNCHANGED plan
  BY JournalStays, OnlyJudgesVerify
<1>2. \A j \in Succeeded : j \in DOMAIN journal /\ j \in Succeeded' /\ journal'[j] = journal[j]
  BY <1>1 DEF Succeeded, LoggedAt, Logged
<1>3. \A n : Into(plan', n) = Into(plan, n)
  BY <1>1
<1>4. \A n : Feeders(n)' = Feeders(n) /\ (Into(plan, n) = {} <=> Into(plan, n)' = {})
  BY <1>1 DEF Feeders
<1> QED BY <1>2, <1>4

LEMMA FedStays ==
    ASSUME TypeOK, JournalInv, [Next]_vars, NEW n
    PROVE  /\ Fed(n) => Fed(n)'
           /\ \A i : FedBefore(n, i) => FedBefore(n, i)'
           /\ \A i \in DOMAIN journal' \ DOMAIN journal : Fed(n) => FedBefore(n, i)'
<1>1. /\ \A j \in Succeeded :
            j \in DOMAIN journal /\ j \in Succeeded' /\ journal'[j] = journal[j]
      /\ Feeders(n)' = Feeders(n) /\ (Into(plan, n) = {} <=> Into(plan, n)' = {})
  BY SuccessStays
<1>2. \A i \in DOMAIN journal' \ DOMAIN journal, j \in DOMAIN journal : j < i
  BY JournalStays
<1>3. Fed(n) => Fed(n)'
  BY <1>1 DEF Fed
<1>4. \A i : FedBefore(n, i) => FedBefore(n, i)'
  BY <1>1 DEF FedBefore
<1>5. \A i \in DOMAIN journal' \ DOMAIN journal : Fed(n) => FedBefore(n, i)'
  BY <1>1, <1>2 DEF Fed, FedBefore
<1> QED BY <1>3, <1>4, <1>5

\* Only these two steps start a run of a node, and of the node they take.
LEMMA RunsStart ==
    ASSUME TypeOK, JournalInv, [Next]_vars
    PROVE  \A i \in Started' \ Started :
              /\ i \in DOMAIN journal' \ DOMAIN journal
              /\ RunNode \/ UnknownKind
              /\ journal'[i].at = node'
<1>0. JournalTyped
  BY DEF JournalInv
<1>1. ASSUME NEW T, NEW t \in Seq(T), Adds(t)
      PROVE  \A i \in Started' \ Started :
                /\ i \in DOMAIN journal' \ DOMAIN journal
                /\ \E k \in DOMAIN t : journal'[i] = t[k] /\ Starts(t[k])
  <2>1. /\ \A i \in DOMAIN journal : i \in DOMAIN journal' /\ journal'[i] = journal[i]
        /\ \A i \in DOMAIN journal' \ DOMAIN journal :
              i - Len(journal) \in DOMAIN t /\ journal'[i] = t[i - Len(journal)]
    BY <1>0, <1>1, AddsAt
  <2>2. \A i \in Started' : i \in DOMAIN journal' /\ Starts(journal'[i])
    BY DEF Started, LoggedAt, Logged, Starts
  <2>3. \A i \in Started' \ Started : i \notin DOMAIN journal
    BY <2>1 DEF Started, LoggedAt, Logged
  <2> QED BY <2>1, <2>2, <2>3
<1>2. ASSUME NEW T, NEW t \in Seq(T), Adds(t), Idles(t) \/ Shuts(t)
      PROVE  Started' \ Started = {}
  BY <1>1, <1>2 DEF Idles, Shuts
<1>3. CASE Executing
  <2>1. PICK T : \E t \in Seq(T) : Adds(t) /\ Brackets(t)
    BY NextBrackets
  <2>2. PICK t \in Seq(T) : Adds(t) /\ Brackets(t)
    BY <2>1
  <2>3. Idles(t) \/ Shuts(t)
    BY <1>3, <2>2 DEF Brackets, Opens, Flashes
  <2> QED BY <1>2, <2>2, <2>3
<1>4. CASE RunNode
  <2> DEFINE e == Transition(node', "running")
             t == <<e>>
  <2>1. Adds(t)
    BY <1>4, StepsAdd
  <2>2. e.at = node'
    BY Marks
  <2> HIDE DEF e
  <2>3. t \in Seq({e}) /\ \A k \in DOMAIN t : t[k] = e
    OBVIOUS
  <2> HIDE DEF t
  <2> QED BY <1>1, <1>4, <2>1, <2>2, <2>3
<1>5. CASE UnknownKind
  <2> DEFINE e == Transition(node', "running")
  <2>1. PICK t : Adds(t) /\ Failing(t, node', <<e>>)
    BY <1>5, StepsAdd
  <2>2. DOMAIN <<e>> = {1} /\ <<e>>[1] = e
    <3> HIDE DEF e
    <3> QED OBVIOUS
  <2>3. /\ t \in Seq(Events) /\ t[1] = e
        /\ \A k \in DOMAIN t \ {1} :
              t[k] = Transition(node', "failed") \/ t[k] = Finished("failed")
    BY <2>1, <2>2 DEF Failing
  <2>4. /\ e.at = node' /\ ~Starts(Transition(node', "failed")) /\ ~Starts(Finished("failed"))
    BY Marks
  <2> HIDE DEF e
  <2>5. \A k \in DOMAIN t : Starts(t[k]) => t[k].at = node'
    BY <2>3, <2>4
  <2>6. \A i \in Started' \ Started :
           /\ i \in DOMAIN journal' \ DOMAIN journal
           /\ \E k \in DOMAIN t : journal'[i] = t[k] /\ Starts(t[k])
    BY <1>1, <2>1, <2>3
  <2> QED BY <1>5, <2>5, <2>6
<1>6. CASE \/ Open \/ RefuseToCompile \/ StopAtCap \/ StopAtVisitCap \/ Call \/ AskApproval
           \/ FollowEdge \/ PassOverEdge \/ BadGuard \/ Settle \/ Close \/ Environment
           \/ UNCHANGED vars
  <2>1. PICK T : \E t \in Seq(T) : Adds(t) /\ Idles(t)
    BY <1>6, IdleSteps
  <2>2. PICK t \in Seq(T) : Adds(t) /\ Idles(t)
    BY <2>1
  <2> QED BY <1>2, <2>2
<1>7. CASE \/ Intake \/ Research \/ BelowFloor \/ Respond \/ ModelReturns \/ JudgePasses
           \/ JudgeRevises \/ Approve \/ \E ok \in BOOLEAN : ToolReturns(ok)
  <2>1. TRUE \in BOOLEAN
    OBVIOUS
  <2> QED BY <1>3, <1>7, <2>1, NodesComeBack
<1>8. CASE \/ Stopped \/ NoRoomForPrompt \/ NothingToWorkOn \/ CallFails \/ Silence \/ Decline
  <2>1. Executing
    BY <1>8 DEF Executing, Stopped, NoRoomForPrompt, NothingToWorkOn, CallFails, Silence,
       Decline, Refuse, Running, Calling
  <2> QED BY <1>3, <2>1
<1> QED BY <1>4, <1>5, <1>6, <1>7, <1>8 DEF Next, Executes, Outside, Returned

\* The node whose edges are followed came back, in this step or before.
LEMMA RoutingSucceeded ==
    ASSUME TypeOK, JournalInv, FedInv, [Next]_vars, pc' = "routing"
    PROVE  \E j \in Succeeded' : journal'[j].at = node'
<1>0. JournalTyped
  BY DEF JournalInv
<1>1. CASE pc = "routing"
  <2>1. node' = node
    BY <1>1 DEF Next, Executes, Outside, Returned, Environment, Cancel, Expire,
       Open, RefuseToCompile, StopAtCap, StopAtVisitCap, RunNode, UnknownKind, Visit, Pop,
       Stopped, Intake, Research, Respond, BelowFloor, Call, ReadyToCall, NothingToWorkOn,
       AskApproval, Silence, Decline, Refuse, FollowEdge, PassOverEdge, BadGuard, Settle,
       Close, NoRoomForPrompt, CallFails, ModelReturns, JudgePasses, JudgeRevises,
       ToolReturns, Approve, Running, Calling, vars, progress
  <2> QED BY <1>1, <2>1, SuccessStays DEF FedInv
<1>2. ASSUME NEW ok \in BOOLEAN,
             \/ Intake \/ Research \/ BelowFloor \/ Respond \/ ModelReturns \/ JudgePasses
             \/ JudgeRevises \/ ToolReturns(ok) \/ Approve
      PROVE  \E j \in Succeeded' : journal'[j].at = node'
  <2>1. \E records, roles : Leaving(records, roles)
    BY <1>2, NodesAdd
  <2>2. PICK t : t \in Seq(Events) /\ Adds(t) /\ Len(t) \in DOMAIN t /\ t[Len(t)] = Came
    BY <2>1 DEF Leaving, Shape
  <2>3. PICK j \in DOMAIN journal' : journal'[j] = Came
    BY <1>0, <2>2, AddsAt
  <2>4. Came.type = "transition" /\ Came.what = "succeeded" /\ Came.at = node
    BY DEF Came, Transition, Event
  <2>5. j \in Succeeded' /\ journal'[j].at = node
    BY <2>3, <2>4 DEF Succeeded, LoggedAt, Logged
  <2>6. node' = node
    BY <1>2 DEF Intake, Research, BelowFloor, Respond, ModelReturns, JudgePasses,
       JudgeRevises, ToolReturns, Approve, progress
  <2> QED BY <2>5, <2>6
<1>3. CASE pc # "routing" /\ ~\E ok \in BOOLEAN :
             \/ Intake \/ Research \/ BelowFloor \/ Respond \/ ModelReturns \/ JudgePasses
             \/ JudgeRevises \/ ToolReturns(ok) \/ Approve
  <2>1. TRUE \in BOOLEAN
    OBVIOUS
  <2>2. /\ ~Intake /\ ~Research /\ ~BelowFloor /\ ~Respond /\ ~ModelReturns /\ ~JudgePasses
        /\ ~JudgeRevises /\ ~Approve /\ ~\E ok \in BOOLEAN : ToolReturns(ok)
    BY <1>3, <2>1
  <2>3. CASE Open \/ RefuseToCompile \/ StopAtCap \/ StopAtVisitCap \/ RunNode \/ UnknownKind
    BY <2>3 DEF Open, RefuseToCompile, StopAtCap, StopAtVisitCap, RunNode, UnknownKind, Stops,
       Fails
  <2>4. CASE Stopped \/ NoRoomForPrompt \/ NothingToWorkOn \/ CallFails \/ Silence \/ Decline
    BY <2>4 DEF Stopped, NoRoomForPrompt, NothingToWorkOn, CallFails, NodeError, Fails,
       Silence, Decline, Refuse, Stops
  <2>5. CASE Call \/ AskApproval
    BY <2>5 DEF Call, AskApproval
  <2>6. CASE FollowEdge \/ PassOverEdge \/ BadGuard \/ Settle \/ Close
    BY <1>3, <2>6 DEF FollowEdge, PassOverEdge, BadGuard, Settle, Close
  <2>7. CASE Environment \/ UNCHANGED vars
    BY <1>3, <2>7 DEF Environment, Cancel, Expire, vars, progress
  <2> QED BY <2>2, <2>3, <2>4, <2>5, <2>6, <2>7 DEF Next, Executes, Outside, Returned
<1> QED BY <1>1, <1>2, <1>3

\* What is queued is an entry, was queued, or is fed by the node that routes.
LEMMA QueuedIsFed ==
    ASSUME TypeOK, JournalInv, FedInv, HasSource(plan), [Next]_vars
    PROVE  \A n \in queued' : Fed(n)'
<1>1. \A n \in queued : Fed(n)'
  BY FedStays DEF FedInv
<1>2. CASE UNCHANGED queued
  BY <1>1, <1>2
<1>3. CASE Open
  <2>1. queued' = StrictEntries(plan) /\ UNCHANGED plan
    BY <1>3 DEF Open, EntryNodes, HasSource
  <2> QED BY <2>1 DEF StrictEntries, Fed
<1>4. CASE StopAtCap \/ StopAtVisitCap \/ RunNode \/ UnknownKind
  <2>1. \E n : queued' = queued \ {n}
    BY <1>4 DEF StopAtCap, StopAtVisitCap, RunNode, UnknownKind, Visit, Pop
  <2> QED BY <1>1, <2>1
<1>5. CASE FollowEdge
  <2>1. /\ pc = "routing" /\ edge \in DOMAIN plan.succ[node]
        /\ queued' = queued \cup {Edge.to}
    BY <1>5 DEF FollowEdge
  <2>2. node \in NodesOf(plan)
    BY <2>1 DEF TypeOK
  <2> DEFINE e == [from |-> node, to |-> Edge.to, when |-> Edge.when]
  <2>3. e \in EdgesOf(plan)
    BY <2>1, <2>2 DEF EdgesOf, Edge
  <2>4. e.to = Edge.to /\ e.from = node
    OBVIOUS
  <2> HIDE DEF e
  <2>5. node \in Feeders(Edge.to)
    BY <2>3, <2>4 DEF Feeders, Into
  <2>6. PICK n : n = Edge.to
    OBVIOUS
  <2>7. Fed(n)
    BY <2>1, <2>5, <2>6 DEF FedInv, Fed
  <2>8. Fed(n)'
    BY <2>7, FedStays
  <2> QED BY <1>1, <2>1, <2>6, <2>8
<1>6. \/ UNCHANGED queued
      \/ Open \/ StopAtCap \/ StopAtVisitCap \/ RunNode \/ UnknownKind \/ FollowEdge
  BY StepsOnward DEF Onward, Call, schedule
<1> QED BY <1>2, <1>3, <1>4, <1>5, <1>6

LEMMA FedKept ==
    ASSUME TypeOK, QueuedIsQueue, JournalInv, FedInv, HasSource(plan), [Next]_vars
    PROVE  FedInv'
<1>1. ASSUME NEW i \in Started', NEW n, n = journal'[i].at
      PROVE  FedBefore(n, i)'
  <2>1. CASE i \in Started
    <3>1. i \in DOMAIN journal /\ journal'[i] = journal[i]
      BY <2>1, JournalStays DEF Started, LoggedAt, Logged
    <3>2. FedBefore(n, i)
      BY <1>1, <2>1, <3>1 DEF FedInv
    <3> QED BY <3>2, FedStays
  <2>2. CASE i \notin Started
    <3>1. /\ i \in DOMAIN journal' \ DOMAIN journal
          /\ RunNode \/ UnknownKind
          /\ n = node'
      BY <1>1, <2>2, RunsStart
    <3>2. \E m \in NodesOf(plan) : Pop(m)
      BY <3>1 DEF RunNode, UnknownKind, Visit
    <3>3. n \in queued
      <4>1. queue # <<>> /\ n = Head(queue)
        BY <3>1, <3>2 DEF Pop
      <4> QED BY <4>1 DEF QueuedIsQueue, TypeOK
    <3>4. Fed(n)
      BY <3>3 DEF FedInv
    <3> QED BY <3>1, <3>4, FedStays
  <2> QED BY <2>1, <2>2
<1>2. \A n \in queued' : Fed(n)'
  BY QueuedIsFed
<1>3. pc' = "routing" => \E j \in Succeeded' : journal'[j].at = node'
  BY RoutingSucceeded
<1> QED BY <1>1, <1>2, <1>3 DEF FedInv

\* In a plan that some node of no incoming edge starts, a node fed by forward
\* edges first runs once a node that feeds it has succeeded.
THEOREM NodesRunAfterInputs ==
    ASSUME \A p \in Plans : HasSource(p)
    PROVE  Spec => []RunsAfterInputs
<1>1. Init => FedInv
  BY DEF Init, FedInv, Started, LoggedAt, Logged
<1>2. TypeInv /\ QueuedIsQueue /\ JournalInv /\ JournalEndsOnce /\ FedInv /\ [Next]_vars
          => TypeInv' /\ JournalInv' /\ JournalEndsOnce' /\ FedInv'
  <2> SUFFICES ASSUME TypeInv, QueuedIsQueue, JournalInv, JournalEndsOnce, FedInv, [Next]_vars
               PROVE  TypeInv' /\ JournalInv' /\ JournalEndsOnce' /\ FedInv'
    OBVIOUS
  <2>1. TypeOK /\ TypeInv'
    BY NextTypes DEF TypeInv
  <2>2. JournalInv' /\ JournalEndsOnce'
    BY <2>1, NextJournal
  <2>3. HasSource(plan)
    BY <2>1 DEF TypeOK
  <2> QED BY <2>1, <2>2, <2>3, FedKept
<1>3. FedInv => RunsAfterInputs
  <2> SUFFICES ASSUME FedInv, NEW i \in Started,
                      {e.from : e \in {d \in Into(plan, journal[i].at) :
                                           CannotReach(d.to, d.from)}} # {}
               PROVE  \E j \in Succeeded :
                         j < i /\ journal[j].at \in {e.from : e \in Into(plan, journal[i].at)}
    BY DEF RunsAfterInputs, Started, Succeeded
  <2>1. PICK n : n = journal[i].at
    OBVIOUS
  <2>2. Into(plan, n) # {}
    BY <2>1
  <2>3. FedBefore(n, i)
    BY <2>1 DEF FedInv
  <2> QED BY <2>1, <2>2, <2>3 DEF FedBefore, Feeders
<1> QED BY <1>1, <1>2, <1>3, InitTypes, InitJournal, QueueIsExact, PTL DEF Spec

-----------------------------------------------------------------------------
(* What a person approved is what is done. *)

ComesBack ==
    \/ Intake \/ Research \/ BelowFloor \/ Respond \/ ModelReturns \/ JudgePasses \/ JudgeRevises
    \/ \E ok \in BOOLEAN : ToolReturns(ok)
    \/ Approve

\* A node that comes back leaves the queue alone, and its kind tells how.
LEMMA BackIs ==
    ASSUME ComesBack
    PROVE  /\ Executing /\ pc' \in {"routing", "closing"}
           /\ UNCHANGED <<plan, node, queued, issued>>
           /\ plan.kind[node] = "model" => ModelReturns \/ Approve
           /\ plan.kind[node] = "approval" => Approve
           /\ Approve => pc = "awaiting"
           /\ Respond => pc = "running" /\ plan.kind[node] = "respond"
<1>1. PICK ok \in BOOLEAN :
         \/ Intake \/ Research \/ BelowFloor \/ Respond \/ ModelReturns \/ JudgePasses
         \/ JudgeRevises \/ ToolReturns(ok) \/ Approve
  <2>1. TRUE \in BOOLEAN
    OBVIOUS
  <2> QED BY <2>1 DEF ComesBack
<1>2. Executing /\ pc' \in {"routing", "closing"}
  BY <1>1, NodesComeBack
<1>3. UNCHANGED <<plan, node, queued, issued>>
  BY <1>1 DEF Intake, Research, BelowFloor, Respond, ModelReturns, JudgePasses, JudgeRevises,
     ToolReturns, Approve, schedule
<1>4. /\ plan.kind[node] = "model" => ModelReturns \/ Approve
      /\ plan.kind[node] = "approval" => Approve
  BY <1>1 DEF Intake, Research, BelowFloor, Respond, JudgePasses, JudgeRevises, ModelReturns,
     ToolReturns, Running, Calling
<1>5. /\ Approve => pc = "awaiting"
      /\ Respond => pc = "running" /\ plan.kind[node] = "respond"
  BY DEF Approve, Respond, Running
<1> QED BY <1>2, <1>3, <1>4, <1>5

\* No other step but the opening writes a unit or starts following edges.
LEMMA OthersWriteNothing ==
    ASSUME TypeOK, [Next]_vars, ~ComesBack, ~Open
    PROVE  /\ UNCHANGED <<plan, ledger>>
           /\ pc' = "routing" => pc = "routing" /\ UNCHANGED <<node, facts>>
<1>1. CASE RefuseToCompile \/ StopAtCap \/ StopAtVisitCap \/ RunNode \/ UnknownKind
  BY <1>1 DEF RefuseToCompile, StopAtCap, StopAtVisitCap, RunNode, UnknownKind, Stops, Fails,
     knowledge
<1>2. CASE Stopped \/ NoRoomForPrompt \/ NothingToWorkOn \/ CallFails \/ Silence \/ Decline
  BY <1>2 DEF Stopped, NoRoomForPrompt, NothingToWorkOn, CallFails, NodeError, Fails, Silence,
     Decline, Refuse, Stops, knowledge
<1>3. CASE Call \/ AskApproval
  BY <1>3 DEF Call, AskApproval, knowledge
<1>4. CASE FollowEdge \/ PassOverEdge \/ BadGuard \/ Settle \/ Close
  BY <1>4 DEF FollowEdge, PassOverEdge, BadGuard, Settle, Close, Stops, knowledge, progress
<1>5. CASE Environment \/ UNCHANGED vars
  BY <1>5 DEF Environment, Cancel, Expire, vars, knowledge, progress
<1> QED BY <1>1, <1>2, <1>3, <1>4, <1>5 DEF Next, Executes, Outside, Returned, ComesBack

\* Two guards that exclude each other do not both pass.
LEMMA OnePasses ==
    ASSUME NEW g, NEW h, Excludes(g, h), NEW fs
    PROVE  ~(GuardPasses(g, fs) /\ GuardPasses(h, fs))
<1>1. PICK i \in DOMAIN g, j \in DOMAIN h :
         /\ g[i].op = "eq" /\ h[j].op = "eq"
         /\ g[i].fact = h[j].fact /\ g[i].lit # h[j].lit
  BY DEF Excludes
<1>2. SUFFICES ASSUME GuardPasses(g, fs), GuardPasses(h, fs) PROVE FALSE
  OBVIOUS
<1>3. ClauseHolds(g[i], fs) /\ ClauseHolds(h[j], fs)
  BY <1>2 DEF GuardPasses
<1>4. fs[g[i].fact] = g[i].lit /\ fs[h[j].fact] = h[j].lit
  BY <1>1, <1>3 DEF ClauseHolds, FactIs
<1> QED BY <1>1, <1>4

(***************************************************************************)
(* Inductive invariant of plans that go in single file: nothing waits      *)
(* while a node executes, and at most one node waits, led to by an edge    *)
(* already considered.                                                     *)
(***************************************************************************)
LedTo(n) ==
    \E i \in DOMAIN plan.succ[node] :
        /\ i < edge /\ plan.succ[node][i].to = n
        /\ GuardPasses(plan.succ[node][i].when, facts)
FileInv ==
    /\ Executing => queued = {}
    /\ \A m, n \in queued : m = n
    /\ pc = "routing" => \A n \in queued : LedTo(n)

LEMMA FileKept ==
    ASSUME TypeOK, TypeOK', QueuedIsQueue, FileInv, SingleFile(plan), [Next]_vars
    PROVE  FileInv'
<1>1. CASE Open
  BY <1>1 DEF Open, FileInv, Executing, SingleFile, HasSource, EntryNodes
<1>2. CASE StopAtCap \/ StopAtVisitCap \/ RunNode \/ UnknownKind
  <2>1. PICK n : Pop(n)
    BY <1>2 DEF StopAtCap, StopAtVisitCap, RunNode, UnknownKind, Visit
  <2>2. n \in queued /\ queued' = queued \ {n}
    <3>1. queue # <<>> /\ n = Head(queue) /\ queued' = queued \ {n}
      BY <2>1 DEF Pop
    <3> QED BY <3>1 DEF QueuedIsQueue, TypeOK
  <2>3. queued' = {}
    BY <2>2 DEF FileInv
  <2> QED BY <2>3 DEF FileInv
<1>3. CASE FollowEdge
  <2>1. /\ pc = "routing" /\ pc' = "routing" /\ edge \in DOMAIN plan.succ[node]
        /\ GuardPasses(Edge.when, facts) /\ queued' = queued \cup {Edge.to}
        /\ edge' = edge + 1 /\ UNCHANGED <<plan, node, facts>>
    BY <1>3 DEF FollowEdge
  <2>2. node \in NodesOf(plan) /\ edge \in Nat
    BY <2>1 DEF TypeOK
  <2>3. queued = {}
    <3>1. SUFFICES ASSUME NEW n \in queued PROVE FALSE
      OBVIOUS
    <3>2. PICK i \in DOMAIN plan.succ[node] :
             i < edge /\ GuardPasses(plan.succ[node][i].when, facts)
      BY <2>1 DEF FileInv, LedTo
    <3>3. i # edge
      BY <2>2, <3>2, EdgePositions
    <3>4. Excludes(plan.succ[node][i].when, Edge.when)
      BY <2>1, <2>2, <3>3 DEF SingleFile, Edge
    <3> QED BY <2>1, <3>2, <3>4, OnePasses
  <2>4. PICK n : n = Edge.to
    OBVIOUS
  <2>5. LedTo(n)'
    <3>1. edge < edge'
      BY <2>1, <2>2
    <3>2. edge \in DOMAIN plan.succ[node] /\ plan.succ[node][edge] = Edge
      BY <2>1 DEF Edge
    <3>3. PICK i : i = edge
      OBVIOUS
    <3>4. /\ i \in DOMAIN plan'.succ[node'] /\ i < edge' /\ plan'.succ[node'][i].to = n
          /\ GuardPasses(plan'.succ[node'][i].when, facts')
      BY <2>1, <2>4, <3>1, <3>2, <3>3
    <3> QED BY <3>4 DEF LedTo
  <2>6. queued' = {n}
    BY <2>1, <2>3, <2>4
  <2> QED BY <2>1, <2>5, <2>6 DEF FileInv, Executing
<1>4. CASE Call
  BY <1>4 DEF Call, ReadyToCall, Running, schedule, FileInv, Executing
<1>5. CASE Onward
  <2>1. UNCHANGED <<plan, node, queued>>
    BY <1>5 DEF Onward
  <2>2. Executing' => Executing
    BY <1>5 DEF Onward, Executing, Resting
  <2>3. CASE pc' = "routing" /\ pc = "routing"
    <3>1. ~Open /\ ~ComesBack
      BY <2>3, BackIs DEF Open, Executing
    <3>2. facts' = facts
      BY <2>3, <3>1, OthersWriteNothing
    <3>3. edge <= edge' /\ edge \in Nat /\ edge' \in Nat
      BY <1>5, <2>3 DEF Onward, Resting, TypeOK
    <3>4. ASSUME NEW n, LedTo(n) PROVE LedTo(n)'
      <4>1. PICK i \in DOMAIN plan.succ[node] :
               /\ i < edge /\ plan.succ[node][i].to = n
               /\ GuardPasses(plan.succ[node][i].when, facts)
        BY <3>4 DEF LedTo
      <4>2. i < edge'
        <5>1. i \in Nat
          BY <2>3, EdgePositions DEF TypeOK
        <5> QED BY <3>3, <4>1, <5>1
      <4> QED BY <2>1, <3>2, <4>1, <4>2 DEF LedTo
    <3> QED BY <2>1, <2>2, <2>3, <3>4 DEF FileInv
  <2>4. CASE pc' = "routing" /\ pc # "routing"
    <3>1. Executing
      BY <1>5, <2>4 DEF Onward, Executing
    <3> QED BY <2>1, <2>2, <3>1 DEF FileInv
  <2>5. CASE pc' # "routing"
    BY <2>1, <2>2, <2>5 DEF FileInv
  <2> QED BY <2>3, <2>4, <2>5
<1> QED BY <1>1, <1>2, <1>3, <1>4, <1>5, StepsOnward

LEMMA PlanStays ==
    ASSUME TypeOK, [Next]_vars
    PROVE  plan' = plan
<1>1. CASE Open \/ StopAtCap \/ StopAtVisitCap \/ RunNode \/ UnknownKind \/ Call \/ FollowEdge
  BY <1>1 DEF Open, StopAtCap, StopAtVisitCap, RunNode, UnknownKind, Call, FollowEdge
<1>2. CASE Onward
  BY <1>2 DEF Onward
<1> QED BY <1>1, <1>2, StepsOnward

\* A unit just written is the latest of its role.
LEMMA LatestIsNew ==
    ASSUME TypeOK, NEW u, Made(u), NEW roles, u.role \in roles
    PROVE  Latest(roles)' = NextId
<1>1. PICK n \in Nat \ {0} :
         n = NextId /\ DOMAIN ledger' = 1 .. n /\ ledger'[n] = u
  <2>1. ledger' = Append(ledger, u) /\ ledger \in Seq(UnitsCiting(DOMAIN receipts))
    BY DEF Made, TypeOK
  <2> QED BY <2>1 DEF NextId
<1> DEFINE S == {i \in DOMAIN ledger' : ledger'[i].role \in roles}
<1>2. Latest(roles)' = Newest(S)
  BY DEF Latest
<1>3. S \in SUBSET (1 .. n)
  BY <1>1
<1>4. n \in S
  BY <1>1
<1> HIDE DEF S
<1>5. Newest(S) \in S /\ n <= Newest(S)
  BY <1>3, <1>4, NewestIs
<1>6. PICK m : m = Newest(S)
  OBVIOUS
<1>7. m \in 1 .. n /\ n <= m
  BY <1>3, <1>5, <1>6
<1>8. m = n
  BY <1>7
<1> QED BY <1>1, <1>2, <1>6, <1>8

(***************************************************************************)
(* Inductive invariant: a draft says its own text, and arguments of a tool *)
(* are there only if some node prepares them.                              *)
(***************************************************************************)
Prepares(n) == plan.kind[n] = "model" /\ plan.role[n] = "tool-args"
PreparedInv ==
    /\ \A i \in DOMAIN ledger : ledger[i].role = "draft" => ledger[i].text = i
    /\ \A i \in DOMAIN ledger : ledger[i].role = "tool-args" => \E n \in NodesOf(plan) : Prepares(n)

LEMMA MadeIsPrepared ==
    ASSUME TypeOK, PreparedInv, plan' = plan, NEW u, Made(u),
           u.role = "draft" => u.text = NextId,
           u.role = "tool-args" => \E n \in NodesOf(plan) : Prepares(n)
    PROVE  PreparedInv'
<1>1. /\ DOMAIN ledger' = DOMAIN ledger \cup {NextId}
      /\ \A i \in DOMAIN ledger : ledger'[i] = ledger[i]
      /\ ledger'[NextId] = u
  <2>1. ledger' = Append(ledger, u) /\ ledger \in Seq(UnitsCiting(DOMAIN receipts))
    BY DEF Made, TypeOK
  <2> QED BY <2>1 DEF NextId
<1>2. PICK new : new = NextId
  OBVIOUS
<1>3. \A i \in DOMAIN ledger' : ledger'[i].role = "draft" => ledger'[i].text = i
  BY <1>1, <1>2 DEF PreparedInv
<1>4. \A i \in DOMAIN ledger' : ledger'[i].role = "tool-args" => \E n \in NodesOf(plan) : Prepares(n)
  BY <1>1, <1>2 DEF PreparedInv
<1>5. (\E n \in NodesOf(plan) : Prepares(n)) => (\E n \in NodesOf(plan') : Prepares(n)')
  BY DEF Prepares
<1> QED BY <1>3, <1>4, <1>5 DEF PreparedInv

LEMMA PreparedKept ==
    ASSUME TypeOK, JournalInv, PreparedInv, [Next]_vars
    PROVE  PreparedInv'
<1>1. plan' = plan
  BY PlanStays
<1>2. CASE MadeNothing
  BY <1>1, <1>2 DEF MadeNothing, PreparedInv, Prepares
<1>3. CASE Open
  <2>1. ledger' = CarriedUnits
    BY <1>3 DEF Open
  <2>2. \A i \in DOMAIN CarriedUnits :
           CarriedUnits[i].role \in {"review-feedback", "boundary-history"}
    BY DEF CarriedUnits, Unit
  <2>3. \A i \in DOMAIN ledger' : ledger'[i].role \in {"review-feedback", "boundary-history"}
    BY <2>1, <2>2
  <2> QED BY <2>3 DEF PreparedInv
<1>4. ASSUME NEW role, MadeNew(role),
             role = "tool-args" => ModelReturns /\ plan.role[node] = role
      PROVE  PreparedInv'
  <2>1. PICK human, cites : Made(Unit(role, human, cites, NextId, FALSE))
    BY <1>4 DEF MadeNew
  <2> DEFINE u == Unit(role, human, cites, NextId, FALSE)
  <2>2. u.role = role /\ u.text = NextId
    BY DEF Unit
  <2>3. role = "tool-args" => \E n \in NodesOf(plan) : Prepares(n)
    <3>1. ModelReturns => node \in NodesOf(plan) /\ plan.kind[node] = "model"
      BY DEF ModelReturns, Calling, TypeOK
    <3> QED BY <1>4, <3>1 DEF Prepares
  <2> HIDE DEF u
  <2> QED BY <1>1, <2>1, <2>2, <2>3, MadeIsPrepared DEF u
<1>5. CASE Respond
  <2>1. PICK u : Made(u) /\ u.role = "response"
    <3>1. Made(Unit("response", FALSE, ledger[LatestDraft].cites, ledger[LatestDraft].text, Reviewed))
      BY <1>5, NodesMake
    <3>2. \A human, cites, text, reviewed : Unit("response", human, cites, text, reviewed).role = "response"
      BY DEF Unit
    <3> QED BY <3>1, <3>2
  <2> QED BY <1>1, <2>1, MadeIsPrepared
<1> QED BY <1>2, <1>3, <1>4, <1>5, StepsMake

\* Where no node prepares arguments, a person is shown the latest draft.
LEMMA DraftsAreShown ==
    ASSUME PreparedInv, \A n \in NodesOf(plan) : ~Prepares(n)
    PROVE  Shown = LatestDraft
<1>1. {i \in DOMAIN ledger : ledger[i].role \in {"tool-args", "draft"}}
      = {i \in DOMAIN ledger : ledger[i].role \in {"draft"}}
  BY DEF PreparedInv
<1> QED BY <1>1 DEF Shown, LatestDraft, Latest

\* The node whose edges are followed feeds what they lead to.
LEMMA EdgeFeeds ==
    ASSUME TypeOK, FollowEdge, NEW n, n = Edge.to
    PROVE  node \in Feeders(n) /\ queued' = queued \cup {n} /\ pc = "routing"
<1>1. /\ pc = "routing" /\ edge \in DOMAIN plan.succ[node]
      /\ queued' = queued \cup {Edge.to}
  BY DEF FollowEdge
<1>2. node \in NodesOf(plan)
  BY <1>1 DEF TypeOK
<1> DEFINE e == [from |-> node, to |-> Edge.to, when |-> Edge.when]
<1>3. e \in EdgesOf(plan)
  BY <1>1, <1>2 DEF EdgesOf, Edge
<1>4. e.to = n /\ e.from = node
  OBVIOUS
<1> HIDE DEF e
<1> QED BY <1>1, <1>3, <1>4 DEF Feeders, Into

\* A node that is taken off the queue for a run was queued.
LEMMA TakenWasQueued ==
    ASSUME TypeOK, QueuedIsQueue, StopAtCap \/ StopAtVisitCap \/ RunNode \/ UnknownKind
    PROVE  node' \in queued /\ queued' \subseteq queued /\ (Executing' => RunNode)
<1>1. PICK n : Pop(n)
  BY DEF StopAtCap, StopAtVisitCap, RunNode, UnknownKind, Visit
<1>2. queue # <<>> /\ n = Head(queue) /\ queued' = queued \ {n} /\ node' = n
  BY <1>1 DEF Pop
<1>3. n \in queued
  BY <1>2 DEF QueuedIsQueue, TypeOK
<1>4. Executing' => RunNode
  BY DEF Executing, StopAtCap, StopAtVisitCap, UnknownKind, Stops, Fails
<1> QED BY <1>2, <1>3, <1>4

(***************************************************************************)
(* Inductive invariant of plans that show what they gate: while the        *)
(* approval that gates a tool is near (queued, about to be, or underway),  *)
(* what it shows, or will, are the latest arguments of a tool.             *)
(***************************************************************************)
GatesTool(a) ==
    \E n \in NodesOf(plan) :
        /\ plan.kind[n] = "tool.invoke" /\ BehindApproval(plan, n)
        /\ a \in Feeders(n)
Near(a) ==
    \/ a \in queued
    \/ pc = "routing" /\ node \in Feeders(a)
    \/ a = node /\ (Executing \/ pc = "routing")
ArgsAreShown == Latest({"tool-args"}) = Shown
ShownInv == \A a : GatesTool(a) /\ Near(a) => ArgsAreShown

\* A person is asked by an approval node.
Asking == pc = "awaiting" => plan.kind[node] = "approval"

LEMMA GateFollowsArgs ==
    ASSUME ShowsWhatItGates(plan), NEW a, GatesTool(a)
    PROVE  plan.kind[a] = "approval" /\ Into(plan, a) # {} /\ \A d \in Feeders(a) : Prepares(d)
<1>1. PICK n \in NodesOf(plan) :
         plan.kind[n] = "tool.invoke" /\ BehindApproval(plan, n) /\ a \in Feeders(n)
  BY DEF GatesTool
<1>2. PICK e \in Into(plan, n) : e.from = a
  BY <1>1 DEF Feeders
<1> QED BY <1>1, <1>2 DEF ShowsWhatItGates, BehindApproval, Feeders, Prepares

\* What comes near in a step that leaves the ledger alone was near.
LEMMA NearWasNear ==
    ASSUME TypeOK, QueuedIsQueue, [Next]_vars, ~ComesBack, ~Open, NEW a, Near(a)'
    PROVE  Near(a)
<1>1. plan' = plan /\ (pc' = "routing" => pc = "routing" /\ node' = node)
  BY OthersWriteNothing
<1>2. Feeders(a)' = Feeders(a)
  BY <1>1 DEF Feeders
<1>3. CASE pc' = "routing" /\ node' \in Feeders(a)'
  BY <1>1, <1>2, <1>3 DEF Near
<1>4. CASE a = node' /\ pc' = "routing"
  BY <1>1, <1>4 DEF Near
<1>5. CASE a = node' /\ Executing'
  <2>1. CASE StopAtCap \/ StopAtVisitCap \/ RunNode \/ UnknownKind
    BY <1>5, <2>1, TakenWasQueued DEF Near
  <2>2. CASE Call
    BY <1>5, <2>2 DEF Call, ReadyToCall, Running, progress, Near, Executing
  <2>3. CASE FollowEdge
    BY <1>5, <2>3 DEF FollowEdge, Executing
  <2>4. CASE Onward
    <3>1. node' = node /\ Executing
      BY <1>5, <2>4 DEF Onward, Executing, Resting
    <3> QED BY <1>5, <3>1 DEF Near
  <2> QED BY <2>1, <2>2, <2>3, <2>4, StepsOnward
<1>6. CASE a \in queued'
  <2>1. CASE StopAtCap \/ StopAtVisitCap \/ RunNode \/ UnknownKind
    BY <1>6, <2>1, TakenWasQueued DEF Near
  <2>2. CASE Call
    BY <1>6, <2>2 DEF Call, schedule, Near
  <2>3. CASE FollowEdge
    <3>1. PICK n : n = Edge.to
      OBVIOUS
    <3> QED BY <1>6, <2>3, <3>1, EdgeFeeds DEF Near
  <2>4. CASE Onward
    BY <1>6, <2>4 DEF Onward, Near
  <2> QED BY <2>1, <2>2, <2>3, <2>4, StepsOnward
<1> QED BY <1>3, <1>4, <1>5, <1>6 DEF Near

LEMMA ShownKept ==
    ASSUME TypeOK, QueuedIsQueue, JournalInv, FileInv, Asking, ShownInv, SingleFile(plan),
           ShowsWhatItGates(plan), [Next]_vars
    PROVE  ShownInv'
<1>1. plan' = plan
  BY PlanStays
<1>2. SUFFICES ASSUME NEW a, GatesTool(a), Near(a)' PROVE ArgsAreShown'
  BY <1>1 DEF ShownInv, GatesTool, Feeders
<1>3. plan.kind[a] = "approval" /\ Into(plan, a) # {} /\ \A d \in Feeders(a) : Prepares(d)
  BY <1>2, GateFollowsArgs
<1>4. ASSUME UNCHANGED ledger, Near(a) PROVE ArgsAreShown'
  BY <1>2, <1>4 DEF ShownInv, ArgsAreShown, Shown, Latest
<1>5. CASE Open
  <2>1. pc' = "pop" /\ queued' = StrictEntries(plan)
    BY <1>5 DEF Open, EntryNodes, SingleFile, HasSource
  <2>2. a \in StrictEntries(plan)
    BY <1>2, <2>1 DEF Near, Executing
  <2> QED BY <1>3, <2>2 DEF StrictEntries
<1>6. CASE ComesBack
  <2>1. Executing /\ pc' \in {"routing", "closing"} /\ node' = node /\ queued' = queued
    BY <1>6, BackIs
  <2>2. queued' = {}
    BY <2>1 DEF FileInv
  <2>3. Feeders(a)' = Feeders(a)
    BY <1>1 DEF Feeders
  <2>4. CASE node \in Feeders(a)
    <3>1. Prepares(node)
      BY <1>3, <2>4
    <3>2. ModelReturns
      BY <1>6, <3>1, BackIs DEF Prepares, Asking
    <3>3. MadeNew("tool-args")
      BY <3>1, <3>2, NodesMake DEF Prepares
    <3>4. PICK u : Made(u) /\ u.role = "tool-args"
      <4>1. \A human, cites, text, reviewed : Unit("tool-args", human, cites, text, reviewed).role = "tool-args"
        BY DEF Unit
      <4> QED BY <3>3, <4>1 DEF MadeNew
    <3>5. Latest({"tool-args"})' = NextId /\ Latest({"tool-args", "draft"})' = NextId
      BY <3>4, LatestIsNew
    <3> QED BY <3>5 DEF ArgsAreShown, Shown
  <2>5. CASE a = node
    <3>1. Approve
      BY <1>3, <1>6, <2>5, BackIs
    <3>2. UNCHANGED ledger
      BY <3>1, NodesMake DEF MadeNothing
    <3> QED BY <1>4, <2>1, <2>5, <3>2 DEF Near
  <2>6. node \in Feeders(a) \/ a = node
    BY <1>2, <2>1, <2>2, <2>3 DEF Near, Executing
  <2> QED BY <2>4, <2>5, <2>6
<1>7. CASE ~ComesBack /\ ~Open
  BY <1>2, <1>4, <1>7, NearWasNear, OthersWriteNothing
<1> QED BY <1>5, <1>6, <1>7

\* Only a question to a person and its decision are records of approval.
LEMMA FewStepsApprove ==
    ASSUME TypeOK, JournalInv, [Next]_vars
    PROVE  \/ Logged("approval")' = Logged("approval")
           \/ AskApproval \/ Silence \/ Decline \/ Approve
<1>0. JournalTyped
  BY DEF JournalInv
<1>1. ASSUME NEW e, Adds(<<e>>), e.type # "approval"
      PROVE  Logged("approval")' = Logged("approval")
  <2>1. <<e>> \in Seq({e}) /\ \A k \in DOMAIN <<e>> : <<e>>[k] = e
    OBVIOUS
  <2> QED BY <1>0, <1>1, <2>1, LoggedStays
<1>2. ASSUME Adds(<<>>) PROVE Logged("approval")' = Logged("approval")
  <2>1. <<>> \in Seq({}) /\ DOMAIN <<>> = {}
    OBVIOUS
  <2> QED BY <1>0, <1>2, <2>1, LoggedStays
<1>3. ASSUME NEW n, NEW t, NEW records, Adds(t), Failing(t, n, records),
             \A k \in DOMAIN records : records[k].type # "approval"
      PROVE  Logged("approval")' = Logged("approval")
  <2>1. \A k \in DOMAIN t : t[k].type # "approval"
    BY <1>3 DEF Failing, Transition, Finished, Event
  <2> QED BY <1>0, <1>3, <2>1, LoggedStays DEF Failing
<1>4. ASSUME NEW records, NEW roles, Leaving(records, roles),
             \A k \in DOMAIN records : records[k].type # "approval"
      PROVE  Logged("approval")' = Logged("approval")
  <2>1. PICK t : Adds(t) /\ Shape(t, records, roles)
    BY <1>4 DEF Leaving
  <2> QED BY <1>0, <1>4, <2>1, ShapeLogs
<1>5. CASE RunNode \/ Stopped \/ NoRoomForPrompt
  <2>1. PICK n, state : Adds(<<Transition(n, state)>>)
    BY <1>5, StepsAdd
  <2>2. Transition(n, state).type # "approval"
    BY DEF Transition, Event
  <2> QED BY <1>1, <2>1, <2>2
<1>6. CASE UnknownKind
  <2> DEFINE e == Transition(node', "running")
  <2>1. PICK t : Adds(t) /\ Failing(t, node', <<e>>)
    BY <1>6, StepsAdd
  <2>2. e.type # "approval"
    BY DEF Transition, Event
  <2> HIDE DEF e
  <2>3. \A k \in DOMAIN <<e>> : <<e>>[k] = e
    OBVIOUS
  <2> QED BY <1>3, <2>1, <2>2, <2>3
<1>7. CASE StopAtVisitCap
  <2>1. PICK e, f : Adds(<<e, f>>) /\ e.type # "approval" /\ f.type # "approval"
    <3>1. Adds(<<Transition(node', "skipped"), Event("failure", node', "exhaustion", 0)>>)
      BY <1>7, StepsAdd
    <3>2. /\ Transition(node', "skipped").type # "approval"
          /\ Event("failure", node', "exhaustion", 0).type # "approval"
      BY DEF Transition, Event
    <3> QED BY <3>1, <3>2
  <2>2. PICK t : t = <<e, f>>
    OBVIOUS
  <2>3. DOMAIN t = {1, 2} /\ t[1] = e /\ t[2] = f
    BY <2>2, Triple
  <2>4. t \in Seq({e, f}) /\ Adds(t)
    BY <2>1, <2>2
  <2>5. \A k \in DOMAIN t : t[k].type # "approval"
    BY <2>1, <2>3
  <2> QED BY <1>0, <2>4, <2>5, LoggedStays
<1>8. CASE NothingToWorkOn
  <2>1. PICK t : Adds(t) /\ Failing(t, node, <<>>)
    BY <1>8, StepsAdd
  <2>2. DOMAIN <<>> = {}
    OBVIOUS
  <2> QED BY <1>3, <2>1, <2>2
<1>9. CASE CallFails
  <2>1. PICK t : Adds(t) /\ Failing(t, node, FailureRecords)
    BY <1>9, StepsAdd
  <2>2. \A k \in DOMAIN FailureRecords : FailureRecords[k].type # "approval"
    <3>1. CASE FailureRecords = <<>>
      BY <3>1
    <3>2. CASE DOMAIN FailureRecords = {1} /\ FailureRecords[1].type = "tool-call"
      BY <3>2
    <3> QED BY <3>1, <3>2, RecordsAre
  <2> QED BY <1>3, <2>1, <2>2
<1>10. CASE Settle
  <2>1. Event("budget", node, "", 0).type # "approval"
    BY DEF Event
  <2> QED BY <1>1, <1>2, <1>10, <2>1, StepsAdd
<1>11. CASE \/ RefuseToCompile \/ StopAtCap \/ Call \/ FollowEdge \/ PassOverEdge \/ BadGuard
            \/ Environment \/ UNCHANGED vars
  <2>1. Adds(<<>>)
    BY <1>11, StepsAdd
  <2> QED BY <1>2, <2>1
<1>12. CASE Open
  <2>1. PICK t : Adds(t) /\ Opening(t)
    BY <1>12, OpenAdds
  <2>2. t \in Seq(Events) /\ \A k \in DOMAIN t : t[k].type # "approval"
    BY <2>1 DEF Opening, Event
  <2> QED BY <1>0, <2>1, <2>2, LoggedStays
<1>13. CASE Close
  <2>1. PICK t : Adds(t) /\ Closing(t)
    BY <1>0, <1>13, CloseAdds
  <2>2. t \in Seq(Events) /\ \A k \in DOMAIN t : t[k].type # "approval"
    BY <2>1 DEF Closing, Event
  <2> QED BY <1>0, <2>1, <2>2, LoggedStays
<1>14. CASE Intake \/ Research \/ BelowFloor \/ Respond
  <2>1. DOMAIN <<>> = {}
    OBVIOUS
  <2>2. \E roles : Leaving(<<>>, roles)
    BY <1>14, NodesAdd
  <2> QED BY <1>4, <2>1, <2>2
<1>15. CASE ModelReturns \/ JudgePasses
  <2>1. \A k \in DOMAIN CallRecords : CallRecords[k].type # "approval"
    BY RecordsAre
  <2>2. \E roles : Leaving(CallRecords, roles)
    BY <1>15, NodesAdd
  <2> QED BY <1>4, <2>1, <2>2
<1>16. CASE JudgeRevises
  <2>1. \A k \in DOMAIN Rejection : Rejection[k].type # "approval"
    BY RecordsAre
  <2>2. \E roles : Leaving(Rejection, roles)
    BY <1>16, NodesAdd
  <2> QED BY <1>4, <2>1, <2>2
<1>17. CASE \E ok \in BOOLEAN : ToolReturns(ok)
  <2>1. PICK ok \in BOOLEAN : ToolReturns(ok)
    BY <1>17
  <2>2. \A k \in DOMAIN ToolRecord(ok) : ToolRecord(ok)[k].type # "approval"
    BY RecordsAre
  <2>3. \E roles : Leaving(ToolRecord(ok), roles)
    BY <2>1, NodesAdd
  <2> QED BY <1>4, <2>2, <2>3
<1> QED BY <1>5, <1>6, <1>7, <1>8, <1>9, <1>10, <1>11, <1>12, <1>13, <1>14, <1>15, <1>16, <1>17
        DEF Next, Executes, Outside, Returned

\* Three events in a row.
LEMMA Sandwich ==
    ASSUME NEW e, NEW f, NEW g
    PROVE  /\ DOMAIN (<<e>> \o <<f>> \o <<g>>) = {1, 2, 3}
           /\ (<<e>> \o <<f>> \o <<g>>)[1] = e
           /\ (<<e>> \o <<f>> \o <<g>>)[2] = f
           /\ (<<e>> \o <<f>> \o <<g>>)[3] = g
<1> DEFINE V == {e, f, g}
<1>1. /\ <<e>> \in Seq(V) /\ Len(<<e>>) = 1 /\ <<e>>[1] = e
      /\ <<f>> \in Seq(V) /\ Len(<<f>>) = 1 /\ <<f>>[1] = f
      /\ <<g>> \in Seq(V) /\ Len(<<g>>) = 1 /\ <<g>>[1] = g
  OBVIOUS
<1> HIDE DEF V
<1> DEFINE s == <<e>> \o <<f>>
<1>2. s \in Seq(V) /\ Len(s) = 2 /\ s[1] = e /\ s[2] = f
  BY <1>1, ConcatProperties
<1> HIDE DEF s
<1> DEFINE last == <<g>>
<1>3. last \in Seq(V) /\ Len(last) = 1 /\ last[1] = g
  BY <1>1
<1> HIDE DEF last
<1> DEFINE t == s \o last
<1>4. /\ t \in Seq(V) /\ Len(t) = Len(s) + Len(last)
      /\ \A i \in 1 .. Len(s) + Len(last) :
            t[i] = IF i <= Len(s) THEN s[i] ELSE last[i - Len(s)]
  BY <1>2, <1>3, ConcatProperties
<1> HIDE DEF t
<1>5. t \in Seq(V) /\ Len(t) = 3
  BY <1>2, <1>3, <1>4
<1>6. t[1] = e /\ t[2] = f /\ t[3] = g
  <2>1. \A i \in {1, 2, 3} : t[i] = IF i <= 2 THEN s[i] ELSE last[i - 2]
    BY <1>2, <1>3, <1>4
  <2> QED BY <1>2, <1>3, <2>1
<1>7. DOMAIN t = {1, 2, 3}
  BY <1>5
<1> QED BY <1>6, <1>7 DEF s, t, last

\* An approval leaves one record of it, of what was shown.
LEMMA ApprovalIsOnce ==
    ASSUME TypeOK
    PROVE  \E d : /\ Once(DecisionEvents("approved"), "approval", d)
                  /\ DecisionEvents("approved")[d].what = "approved"
                  /\ DecisionEvents("approved")[d].ref = Shown
<1> DEFINE question == <<Event("visible", node, "approval_question", Shown)>>
           record   == <<Event("approval", node, "approved", Shown)>>
           reply    == <<Event("visible", node, "approval_decision", 0)>>
<1>1. CASE plan.human
  <2>1. DecisionEvents("approved") = question \o record \o reply
    BY <1>1 DEF DecisionEvents
  <2> DEFINE t == question \o record \o reply
  <2>2. DOMAIN t = {1, 2, 3}
        /\ t[1].type = "visible" /\ t[3].type = "visible"
        /\ t[2].type = "approval" /\ t[2].what = "approved" /\ t[2].ref = Shown
    BY Sandwich DEF Event
  <2> HIDE DEF t
  <2>3. Once(t, "approval", 2)
    BY <2>2 DEF Once
  <2> QED BY <2>1, <2>2, <2>3 DEF t
<1>2. CASE ~plan.human
  <2>1. DecisionEvents("approved") = <<>> \o record \o <<>>
    BY <1>2 DEF DecisionEvents
  <2>2. <<>> \o record \o <<>> = record
    OBVIOUS
  <2> QED BY <2>1, <2>2 DEF Once, Event
<1> QED BY <1>1, <1>2

(***************************************************************************)
(* Inductive invariant: the newest record of an approval approves what a   *)
(* gated node that waits or runs is about to use.                          *)
(***************************************************************************)
LastWord(v) ==
    \E j \in Logged("approval") :
        /\ \A k \in Logged("approval") : k <= j
        /\ journal[j].what = "approved" /\ journal[j].ref = v

Gated(n) == BehindApproval(plan, n) /\ plan.kind[n] \in {"tool.invoke", "respond"}
Payload(n) == IF plan.kind[n] = "tool.invoke" THEN Latest({"tool-args"}) ELSE LatestDraft
Due(n) == n \in queued \/ (n = node /\ pc \in {"running", "calling"})

GateInv ==
    /\ Asking
    /\ \A n \in NodesOf(plan) : Gated(n) /\ Due(n) => LastWord(Payload(n))
    /\ pc = "routing" /\ plan.kind[node] = "approval" => LastWord(Shown)

\* Past the approval, what the gated node will use is what was shown.
LEMMA PayloadIsShown ==
    ASSUME PreparedInv, ShownInv, ShowsWhatItGates(plan), pc = "routing",
           NEW n \in NodesOf(plan), Gated(n), node \in Feeders(n)
    PROVE  plan.kind[node] = "approval" /\ Payload(n) = Shown
<1>1. plan.kind[node] = "approval"
  BY DEF Gated, BehindApproval, Feeders
<1>2. CASE plan.kind[n] = "tool.invoke"
  <2>1. GatesTool(node) /\ Near(node)
    BY <1>2 DEF GatesTool, Gated, Near
  <2> QED BY <1>1, <1>2, <2>1 DEF ShownInv, ArgsAreShown, Payload
<1>3. CASE plan.kind[n] = "respond"
  <2>1. \A m \in NodesOf(plan) : ~Prepares(m)
    BY <1>3 DEF Gated, ShowsWhatItGates, Prepares
  <2> QED BY <1>1, <1>3, <2>1, DraftsAreShown DEF Payload
<1> QED BY <1>2, <1>3 DEF Gated

LEMMA WordStays ==
    ASSUME TypeOK, JournalInv, [Next]_vars, Logged("approval")' = Logged("approval"),
           NEW v, LastWord(v)
    PROVE  LastWord(v)'
<1>1. \A j \in Logged("approval") : journal'[j] = journal[j]
  BY JournalStays DEF Logged
<1> QED BY <1>1 DEF LastWord

LEMMA ApproveSays ==
    ASSUME TypeOK, JournalInv, [Next]_vars, Approve, NEW v, v = Shown
    PROVE  LastWord(v)'
<1> DEFINE records == DecisionEvents("approved")
<1>1. PICK t : Adds(t) /\ Shape(t, records, {})
  BY NodesAdd DEF Leaving
<1>2. PICK d : Once(records, "approval", d) /\ records[d].what = "approved" /\ records[d].ref = v
  BY ApprovalIsOnce
<1> HIDE DEF records
<1>3. t \in Seq(Events)
  BY <1>1 DEF Shape
<1>4. Once(t, "approval", d) /\ t[d] = records[d]
  <2>1. Came.type # "approval"
    BY DEF Came, Transition, Event
  <2>2. d \in DOMAIN t /\ t[d] = records[d]
    BY <1>1, <1>2 DEF Shape, Once
  <2>3. \A k \in DOMAIN t \ DOMAIN records : t[k].type # "approval"
    BY <1>1, <2>1 DEF Shape
  <2>4. \A k \in DOMAIN records : t[k] = records[k]
    BY <1>1 DEF Shape
  <2> QED BY <1>2, <2>2, <2>3, <2>4 DEF Once
<1>5. PICK j \in DOMAIN journal' \ DOMAIN journal :
         Logged("approval")' = Logged("approval") \cup {j} /\ journal'[j] = t[d]
  BY <1>1, <1>3, <1>4, LoggedOnceMore DEF JournalInv
<1>6. \A k \in Logged("approval") : k <= j
  <2>1. \A k \in Logged("approval") : k \in 1 .. Len(journal)
    BY JournalStays DEF Logged
  <2>2. j \in Nat /\ Len(journal) < j /\ Len(journal) \in Nat
    BY <1>5, JournalStays
  <2> QED BY <2>1, <2>2
<1>7. j \in Logged("approval")' /\ \A k \in Logged("approval")' : k <= j
  <2>1. j <= j
    BY <1>5, JournalStays
  <2> QED BY <1>5, <1>6, <2>1
<1>8. journal'[j].what = "approved" /\ journal'[j].ref = v
  BY <1>2, <1>4, <1>5
<1> QED BY <1>7, <1>8 DEF LastWord

\* A node runs because it was taken off the queue, and a person is asked
\* because an approval runs.
LEMMA RunsStay ==
    ASSUME TypeOK, [Next]_vars
    PROVE  /\ pc' \in {"running", "calling"} =>
                 RunNode \/ (pc \in {"running", "calling"} /\ node' = node)
           /\ pc' = "awaiting" => AskApproval \/ (pc = "awaiting" /\ node' = node)
<1>1. CASE ComesBack
  BY <1>1, BackIs
<1>2. CASE Open \/ RefuseToCompile \/ StopAtCap \/ StopAtVisitCap \/ UnknownKind
  BY <1>2 DEF Open, RefuseToCompile, StopAtCap, StopAtVisitCap, UnknownKind, Stops, Fails
<1>3. CASE RunNode
  BY <1>3 DEF RunNode
<1>4. CASE Stopped \/ NoRoomForPrompt \/ NothingToWorkOn \/ CallFails \/ Silence \/ Decline
  BY <1>4 DEF Stopped, NoRoomForPrompt, NothingToWorkOn, CallFails, NodeError, Fails, Silence,
     Decline, Refuse, Stops
<1>5. CASE Call
  BY <1>5 DEF Call, ReadyToCall, Running, progress
<1>6. CASE AskApproval
  BY <1>6 DEF AskApproval
<1>7. CASE FollowEdge \/ PassOverEdge \/ BadGuard \/ Settle \/ Close
  BY <1>7 DEF FollowEdge, PassOverEdge, BadGuard, Settle, Close, Stops
<1>8. CASE Environment \/ UNCHANGED vars
  BY <1>8 DEF Environment, Cancel, Expire, vars, progress
<1> QED BY <1>1, <1>2, <1>3, <1>4, <1>5, <1>6, <1>7, <1>8
        DEF Next, Executes, Outside, Returned, ComesBack

LEMMA GateKept ==
    ASSUME TypeOK, QueuedIsQueue, JournalInv, FileInv, PreparedInv, ShownInv, GateInv,
           SingleFile(plan), ShowsWhatItGates(plan), [Next]_vars
    PROVE  GateInv'
<1>1. plan' = plan
  BY PlanStays
<1>2. Asking'
  <2>1. AskApproval => plan.kind[node] = "approval" /\ node' = node
    BY DEF AskApproval, Running, progress
  <2> QED BY <1>1, <2>1, RunsStay DEF GateInv, Asking
\* Asking and refusing happen while a node executes, and leave the queue alone.
<1>3. AskApproval \/ Silence \/ Decline =>
         Executing /\ pc' \notin {"routing", "running", "calling"} /\ queued' = queued
  BY DEF AskApproval, Running, Silence, Decline, Refuse, Stops, schedule, Executing
<1>4. ASSUME NEW v, LastWord(v), ~Approve, ~AskApproval, ~Silence, ~Decline
      PROVE  LastWord(v)'
  BY <1>4, FewStepsApprove, WordStays
<1>5. ASSUME pc' = "routing", plan.kind[node'] = "approval" PROVE LastWord(Shown)'
  <2>1. PICK v : v = Shown
    OBVIOUS
  <2>2. CASE Open
    BY <1>5, <2>2 DEF Open
  <2>3. CASE ComesBack
    <3>1. Approve
      BY <1>5, <2>3, BackIs
    <3>2. UNCHANGED ledger
      BY <3>1, NodesMake DEF MadeNothing
    <3>3. LastWord(v)' /\ Shown' = v
      BY <2>1, <3>1, <3>2, ApproveSays DEF Shown, Latest
    <3> QED BY <3>3 DEF LastWord
  <2>4. CASE ~Open /\ ~ComesBack
    <3>1. pc = "routing" /\ node' = node /\ UNCHANGED ledger
      BY <1>5, <2>4, OthersWriteNothing
    <3>2. LastWord(v)
      BY <1>5, <2>1, <3>1 DEF GateInv
    <3>3. LastWord(v)'
      BY <1>3, <1>4, <1>5, <2>4, <3>2 DEF ComesBack
    <3>4. Shown' = v
      BY <2>1, <3>1 DEF Shown, Latest
    <3> QED BY <3>3, <3>4 DEF LastWord
  <2> QED BY <2>2, <2>3, <2>4
<1>6. ASSUME NEW n \in NodesOf(plan), Gated(n), Due(n)' PROVE LastWord(Payload(n))'
  <2>1. n \in queued' \/ (n = node' /\ pc' \in {"running", "calling"})
    BY <1>6 DEF Due
  <2>2. CASE Open
    <3>1. pc' = "pop" /\ queued' = StrictEntries(plan)
      BY <2>2 DEF Open, EntryNodes, SingleFile, HasSource
    <3> QED BY <1>6, <2>1, <3>1 DEF StrictEntries, Gated, BehindApproval
  <2>3. CASE ComesBack
    <3>1. queued' = {} /\ pc' \in {"routing", "closing"}
      BY <2>3, BackIs DEF FileInv
    <3> QED BY <2>1, <3>1
  <2>4. CASE AskApproval \/ Silence \/ Decline
    <3>1. queued' = {}
      BY <1>3, <2>4 DEF FileInv
    <3> QED BY <1>3, <2>1, <2>4, <3>1
  <2>5. CASE ~Open /\ ~ComesBack /\ ~(AskApproval \/ Silence \/ Decline)
    <3>1. UNCHANGED ledger
      BY <2>5, OthersWriteNothing
    <3>2. PICK v : v = Payload(n)
      OBVIOUS
    <3>3. Due(n) => LastWord(v)
      BY <1>6, <3>2 DEF GateInv
    <3>4. ASSUME n = node', pc' \in {"running", "calling"} PROVE LastWord(v)
      <4>1. Due(n)
        BY <3>4, RunsStay, TakenWasQueued DEF Due
      <4> QED BY <3>3, <4>1
    <3>5. ASSUME n \in queued' PROVE LastWord(v)
      <4>1. CASE StopAtCap \/ StopAtVisitCap \/ RunNode \/ UnknownKind
        BY <3>3, <3>5, <4>1, TakenWasQueued DEF Due
      <4>2. CASE FollowEdge
        <5>1. CASE n \in queued
          BY <3>3, <5>1 DEF Due
        <5>2. CASE n = Edge.to
          <6>1. node \in Feeders(n) /\ pc = "routing"
            BY <4>2, <5>2, EdgeFeeds
          <6>2. plan.kind[node] = "approval" /\ Payload(n) = Shown
            BY <1>6, <6>1, PayloadIsShown
          <6> QED BY <3>2, <6>1, <6>2 DEF GateInv
        <5> QED BY <3>5, <4>2, <5>1, <5>2 DEF FollowEdge
      <4>3. CASE Call \/ Onward
        BY <3>3, <3>5, <4>3 DEF Call, schedule, Onward, Due
      <4> QED BY <2>5, <4>1, <4>2, <4>3, StepsOnward
    <3>6. LastWord(v)
      BY <2>1, <3>4, <3>5
    <3>7. LastWord(v)'
      BY <1>4, <2>5, <3>6 DEF ComesBack
    <3>8. Payload(n)' = v
      BY <1>1, <3>1, <3>2 DEF Payload, LatestDraft, Latest
    <3> QED BY <3>7, <3>8 DEF LastWord
  <2> QED BY <2>2, <2>3, <2>4, <2>5
<1>7. \A n : Gated(n)' <=> Gated(n)
  BY <1>1 DEF Gated
<1> QED BY <1>1, <1>2, <1>5, <1>6, <1>7 DEF GateInv

(***************************************************************************)
(* Inductive invariant: every call was sent after the events the journal   *)
(* had then, and what it and every response used was approved.             *)
(***************************************************************************)
CallIsApproved(i) ==
    /\ issued[i].after <= Len(journal)
    /\ plan.kind[issued[i].at] = "tool.invoke" /\ BehindApproval(plan, issued[i].at) =>
          ApprovedBefore(issued[i].after + 1, issued[i].arg)
ResponseIsApproved(i) ==
    BehindApproval(plan, journal[i].at) => ApprovedBefore(i, ledger[journal[i].ref].text)
UsedInv ==
    /\ \A i \in DOMAIN issued : CallIsApproved(i)
    /\ \A i \in LoggedAt("unit", "response") : ResponseIsApproved(i)

Asked(i) == {j \in Logged("approval") : j < i}

\* With no new record of approval before it, what was approved stays so.
LEMMA ApprovedStays ==
    ASSUME TypeOK, JournalInv, [Next]_vars, NEW i, NEW v, ApprovedBefore(i, v),
           Asked(i)' = Asked(i)
    PROVE  ApprovedBefore(i, v)'
<1>1. PICK m : m = Newest(Asked(i))
  OBVIOUS
<1>2. Asked(i) # {} /\ journal[m].what = "approved" /\ journal[m].ref = v
  BY <1>1 DEF ApprovedBefore, Asked
<1>3. Asked(i) \in SUBSET (1 .. Len(journal)) /\ Len(journal) \in Nat
  BY JournalStays DEF Asked, Logged
<1>4. m \in DOMAIN journal
  BY <1>1, <1>2, <1>3, NewestIs, JournalStays
<1>5. journal'[m] = journal[m]
  BY <1>4, JournalStays
<1>6. Newest(Asked(i))' = m
  BY <1>1 DEF Newest
<1> QED BY <1>2, <1>5, <1>6 DEF ApprovedBefore, Asked

\* Before what the journal ends with, nothing new is asked.
LEMMA NothingNewIsAsked ==
    ASSUME TypeOK, JournalInv, [Next]_vars, NEW i \in Nat, i <= Len(journal) + 1
    PROVE  Asked(i)' = Asked(i)
<1>1. /\ \A j \in DOMAIN journal : j \in DOMAIN journal' /\ journal'[j] = journal[j]
      /\ DOMAIN journal = 1 .. Len(journal) /\ Len(journal) \in Nat
      /\ DOMAIN journal' = 1 .. Len(journal') /\ Len(journal') \in Nat
  BY JournalStays
<1>2. \A j \in DOMAIN journal' : j < i => j \in DOMAIN journal
  BY <1>1
<1> QED BY <1>1, <1>2 DEF Asked, Logged

\* The last word is the newest of what was asked.
LEMMA WordIsApproved ==
    ASSUME JournalTyped, NEW v, LastWord(v), NEW i, \A k \in Logged("approval") : k < i
    PROVE  ApprovedBefore(i, v)
<1>1. PICK j \in Logged("approval") :
         /\ \A k \in Logged("approval") : k <= j
         /\ journal[j].what = "approved" /\ journal[j].ref = v
  BY DEF LastWord
<1>2. Asked(i) = Logged("approval")
  BY DEF Asked
<1>3. Asked(i) \in SUBSET (1 .. Len(journal)) /\ Len(journal) \in Nat
  BY <1>2 DEF Logged, JournalTyped
<1>4. PICK m : m = Newest(Asked(i))
  OBVIOUS
<1>5. m \in Asked(i) /\ j <= m
  BY <1>1, <1>2, <1>3, <1>4, NewestIs
<1>6. m \in 1 .. Len(journal) /\ j \in 1 .. Len(journal) /\ m <= j
  BY <1>1, <1>2, <1>3, <1>5
<1>7. m = j
  BY <1>5, <1>6
<1> QED BY <1>1, <1>2, <1>4, <1>7 DEF ApprovedBefore, Asked

\* A call is sent with what was approved, and nothing sent changes.
LEMMA CallsStayApproved ==
    ASSUME TypeOK, JournalInv, IssuedTyped, GateInv, UsedInv, [Next]_vars,
           NEW i \in DOMAIN issued'
    PROVE  CallIsApproved(i)'
<1>1. plan' = plan
  BY PlanStays
<1>2. Len(journal) \in Nat /\ Len(journal') \in Nat /\ Len(journal) <= Len(journal')
  <2>1. Len(journal) # 0 => Len(journal) \in DOMAIN journal'
    BY JournalStays
  <2> QED BY <2>1, JournalStays
\* What is left to show is that the call k events in, with argument v, was
\* approved.
<1>3. ASSUME NEW k \in Nat, NEW v, NEW n, k <= Len(journal),
             issued'[i].at = n, issued'[i].after = k, issued'[i].arg = v,
             plan.kind[n] = "tool.invoke" /\ BehindApproval(plan, n) => ApprovedBefore(k + 1, v)
      PROVE  CallIsApproved(i)'
  <2>1. PICK next \in Nat : next = k + 1 /\ next <= Len(journal) + 1
    BY <1>2, <1>3
  <2>2. ApprovedBefore(next, v) => ApprovedBefore(next, v)'
    BY <2>1, ApprovedStays, NothingNewIsAsked
  <2>3. plan'.kind[n] = "tool.invoke" /\ BehindApproval(plan', n) => ApprovedBefore(next, v)'
    BY <1>1, <1>3, <2>1, <2>2
  <2>4. k <= Len(journal')
    BY <1>2, <1>3
  <2> QED BY <1>3, <2>1, <2>3, <2>4 DEF CallIsApproved
<1>4. ASSUME i \in DOMAIN issued, issued'[i] = issued[i] PROVE CallIsApproved(i)'
  <2>1. issued[i].after \in Nat
    <3> DEFINE R == [at : NodesOf(plan), arg : Nat, after : Nat]
    <3>1. issued \in Seq(R)
      BY DEF IssuedTyped
    <3>2. \A r \in R : r.after \in Nat
      OBVIOUS
    <3> HIDE DEF R
    <3> QED BY <1>4, <3>1, <3>2
  <2>2. CallIsApproved(i)
    BY <1>4 DEF UsedInv
  <2> QED BY <1>3, <1>4, <2>1, <2>2 DEF CallIsApproved
<1>5. CASE Call
  <2> DEFINE r == [at |-> node, arg |-> CallArgument, after |-> Len(journal)]
  <2>1. issued' = Append(issued, r) /\ journal' = journal /\ pc = "running"
    BY <1>5 DEF Call, ReadyToCall, Running
  <2>2. PICK v : v = CallArgument
    OBVIOUS
  <2>3. r.at = node /\ r.arg = v /\ r.after = Len(journal)
    BY <2>2
  <2> HIDE DEF r
  <2>4. \/ i \in DOMAIN issued /\ issued'[i] = issued[i]
        \/ issued'[i] = r
    BY <2>1 DEF IssuedTyped
  <2>5. ASSUME plan.kind[node] = "tool.invoke", BehindApproval(plan, node)
        PROVE  ApprovedBefore(Len(journal) + 1, v)
    <3>1. node \in NodesOf(plan) /\ Gated(node) /\ Due(node)
      BY <2>1, <2>5 DEF TypeOK, Gated, Due
    <3>2. v = Payload(node)
      BY <2>2, <2>5 DEF CallArgument, Payload
    <3>3. LastWord(v)
      BY <3>1, <3>2 DEF GateInv
    <3>4. \A j \in Logged("approval") : j < Len(journal) + 1
      BY JournalStays DEF Logged
    <3> QED BY <3>3, <3>4, WordIsApproved DEF JournalInv
  <2>6. Len(journal) <= Len(journal)
    BY <1>2
  <2> QED BY <1>2, <1>3, <1>4, <2>3, <2>4, <2>5, <2>6
<1>6. CASE ~Call
  <2>1. issued' = issued
    <3>1. CASE Open \/ StopAtCap \/ StopAtVisitCap \/ RunNode \/ UnknownKind \/ FollowEdge
      BY <3>1 DEF Open, StopAtCap, StopAtVisitCap, RunNode, UnknownKind, FollowEdge
    <3>2. CASE Onward
      BY <3>2 DEF Onward
    <3> QED BY <1>6, <3>1, <3>2, StepsOnward
  <2> QED BY <1>4, <2>1
<1> QED BY <1>5, <1>6

\* A response carries what was approved, and keeps it.
LEMMA ResponsesStayApproved ==
    ASSUME TypeOK, JournalInv, UnitInv, PreparedInv, GateInv, UsedInv, NobodyElseAnswers(plan),
           [Next]_vars, NEW i \in LoggedAt("unit", "response")'
    PROVE  ResponseIsApproved(i)'
<1>1. plan' = plan
  BY PlanStays
<1>2. /\ i \in DOMAIN journal' /\ i \in Logged("unit")'
      /\ journal'[i].type = "unit" /\ journal'[i].what = "response"
  BY DEF LoggedAt, Logged
<1>3. ASSUME NEW v, NEW n, journal'[i].at = n, ledger'[journal'[i].ref].text = v,
             BehindApproval(plan, n) => ApprovedBefore(i, v)'
      PROVE  ResponseIsApproved(i)'
  BY <1>1, <1>3 DEF ResponseIsApproved
<1>4. CASE Open
  <2>1. UnitInv' /\ ledger' = CarriedUnits
    BY <1>4, UnitsKept DEF Open
  <2>2. journal'[i].ref \in DOMAIN CarriedUnits /\ CarriedUnits[journal'[i].ref].role = "response"
    BY <1>2, <2>1 DEF UnitInv
  <2>3. \A k \in DOMAIN CarriedUnits : CarriedUnits[k].role # "response"
    BY DEF CarriedUnits, Unit
  <2> QED BY <2>2, <2>3
<1>5. CASE i \in Logged("unit") /\ ~Open
  <2>1. i \in DOMAIN journal /\ journal'[i] = journal[i] /\ i \in LoggedAt("unit", "response")
    BY <1>2, <1>5, JournalStays DEF LoggedAt, Logged
  <2>2. PICK u : u = journal[i].ref
    OBVIOUS
  <2>3. u \in DOMAIN ledger
    BY <1>5, <2>2 DEF UnitInv
  <2>4. ledger'[u] = ledger[u]
    <3>1. ledger \in Seq(UnitsCiting(DOMAIN receipts))
      BY DEF TypeOK
    <3>2. ASSUME NEW w, Made(w) PROVE ledger'[u] = ledger[u]
      BY <2>3, <3>1, <3>2 DEF Made
    <3>3. ASSUME NEW role, MadeNew(role) PROVE \E w : Made(w)
      BY <3>3, Zenon DEF MadeNew
    <3>4. Respond => \E w : Made(w)
      BY NodesMake, Zenon
    <3>5. MadeNothing => ledger' = ledger
      BY DEF MadeNothing
    <3>6. MadeNothing \/ (\E role : MadeNew(role)) \/ Respond
      BY <1>5, StepsMake, Zenon
    <3> QED BY <3>2, <3>3, <3>4, <3>5, <3>6, Zenon
  <2>5. i \in Nat /\ i <= Len(journal) + 1
    BY <2>1, JournalStays
  <2>6. PICK v, n : v = ledger[u].text /\ n = journal[i].at
    OBVIOUS
  <2>7. BehindApproval(plan, n) => ApprovedBefore(i, v)
    BY <2>1, <2>2, <2>6 DEF UsedInv, ResponseIsApproved
  <2>8. BehindApproval(plan, n) => ApprovedBefore(i, v)'
    BY <2>5, <2>7, ApprovedStays, NothingNewIsAsked
  <2> QED BY <1>3, <2>1, <2>2, <2>4, <2>6, <2>8
<1>6. ASSUME NEW w, Made(w), i \notin Logged("unit")
      PROVE  /\ w.role = "response" /\ i \notin DOMAIN journal
             /\ journal'[i].at = node /\ ledger'[journal'[i].ref] = w
  <2>1. i \notin DOMAIN journal /\ journal'[i] = UnitEvent(w.role)
    BY <1>2, <1>6 DEF Made
  <2>2. UnitEvent(w.role).what = w.role /\ UnitEvent(w.role).at = node /\ UnitEvent(w.role).ref = NextId
    BY DEF UnitEvent, Event
  <2>3. ledger' = Append(ledger, w) /\ ledger \in Seq(UnitsCiting(DOMAIN receipts))
    BY <1>6 DEF Made, TypeOK
  <2>4. ledger'[NextId] = w
    BY <2>3 DEF NextId
  <2> QED BY <1>2, <2>1, <2>2, <2>4
<1>7. ASSUME NEW role, MadeNew(role), role = "response" => ModelReturns /\ plan.role[node] = role,
             i \notin Logged("unit")
      PROVE  FALSE
  <2>1. PICK human, cites : Made(Unit(role, human, cites, NextId, FALSE))
    BY <1>7 DEF MadeNew
  <2>2. Unit(role, human, cites, NextId, FALSE).role = role
    BY DEF Unit
  <2>3. ModelReturns /\ plan.role[node] = "response"
    BY <1>6, <1>7, <2>1, <2>2
  <2>4. node \in NodesOf(plan) /\ plan.kind[node] = "model"
    BY <2>3 DEF ModelReturns, Calling, TypeOK
  <2> QED BY <2>3, <2>4 DEF NobodyElseAnswers
<1>8. CASE Respond /\ i \notin Logged("unit")
  <2>1. PICK w, v : Made(w) /\ w.text = v /\ v = LatestDraft /\ v # 0
    <3>1. /\ LatestDraft # 0
          /\ Made(Unit("response", FALSE, ledger[LatestDraft].cites, ledger[LatestDraft].text,
                       Reviewed))
      BY <1>8, NodesMake
    <3>2. ledger[LatestDraft].text = LatestDraft
      BY <3>1, LatestIsUnit DEF LatestDraft, PreparedInv
    <3> DEFINE w == Unit("response", FALSE, ledger[LatestDraft].cites,
                         ledger[LatestDraft].text, Reviewed)
    <3>3. w.text = LatestDraft
      BY <3>2 DEF Unit
    <3>4. Made(w) /\ LatestDraft # 0
      BY <3>1, Zenon
    <3> HIDE DEF w
    <3> QED BY <3>3, <3>4, Zenon
  <2>2. journal'[i].at = node /\ ledger'[journal'[i].ref].text = v /\ i \notin DOMAIN journal
    BY <1>6, <1>8, <2>1
  <2>3. pc = "running" /\ plan.kind[node] = "respond" /\ node \in NodesOf(plan)
    BY <1>8 DEF Respond, Running, TypeOK
  <2>4. ASSUME BehindApproval(plan, node) PROVE ApprovedBefore(i, v)'
    <3>1. LastWord(v)
      <4>1. Gated(node) /\ Due(node) /\ Payload(node) = v
        BY <2>1, <2>3, <2>4 DEF Gated, Due, Payload
      <4> QED BY <2>3, <4>1 DEF GateInv
    <3>2. \A k \in Logged("approval") : k < i
      BY <1>2, <2>2, JournalStays DEF Logged
    <3>3. ApprovedBefore(i, v)
      BY <3>1, <3>2, WordIsApproved DEF JournalInv
    <3>4. Logged("approval")' = Logged("approval")
      <4>1. ~AskApproval /\ ~Silence /\ ~Decline /\ ~Approve
        BY <2>3 DEF AskApproval, Running, Silence, Decline, Refuse, Approve
      <4> QED BY <4>1, FewStepsApprove
    <3>5. Asked(i)' = Asked(i)
      BY <3>4 DEF Asked
    <3> QED BY <3>3, <3>5, ApprovedStays
  <2> QED BY <1>3, <2>2, <2>4
<1>9. i \notin Logged("unit") => ~MadeNothing
  BY <1>2 DEF MadeNothing
<1> QED BY <1>4, <1>5, <1>7, <1>8, <1>9, StepsMake

LEMMA UsedKept ==
    ASSUME TypeOK, JournalInv, IssuedTyped, UnitInv, PreparedInv, GateInv, UsedInv,
           NobodyElseAnswers(plan), [Next]_vars
    PROVE  UsedInv'
<1>1. \A i \in DOMAIN issued' : CallIsApproved(i)'
  BY CallsStayApproved
<1>2. \A i \in LoggedAt("unit", "response")' : ResponseIsApproved(i)'
  BY ResponsesStayApproved
<1> QED BY <1>1, <1>2 DEF UsedInv

ApprovalInv ==
    /\ IssuedTyped /\ UnitInv /\ FileInv /\ PreparedInv /\ ShownInv /\ GateInv /\ UsedInv

\* In a plan that goes in single file and asks right before what it gates, a
\* tool runs with the very arguments, and a response carries the very draft,
\* that the newest record of an approval approves, whatever was revised, asked
\* before or refused.
THEOREM ApprovalsAreExact ==
    ASSUME \A p \in Plans : SingleFile(p) /\ ShowsWhatItGates(p) /\ NobodyElseAnswers(p)
    PROVE  Spec => []ApprovedPayloadIsUsed
<1>1. Init => ApprovalInv
  <2>1. ASSUME Init PROVE ApprovalInv
    <3>1. /\ journal = <<>> /\ ledger = <<>> /\ issued = <<>> /\ queued = {}
          /\ pc = "new" /\ node = 0
      BY <2>1 DEF Init
    <3>2. DOMAIN journal = {} /\ DOMAIN ledger = {} /\ DOMAIN issued = {}
      BY <3>1
    <3>3. \A type, what : Logged(type) = {} /\ LoggedAt(type, what) = {}
      BY <3>2 DEF Logged, LoggedAt
    <3>4. UnitInv /\ PreparedInv /\ UsedInv
      BY <3>2, <3>3 DEF UnitInv, PreparedInv, UsedInv
    <3>5. FileInv /\ ShownInv /\ GateInv
      BY <3>1 DEF FileInv, ShownInv, GateInv, Asking, Near, Due, Executing
    <3>6. IssuedTyped
      BY <3>1 DEF IssuedTyped
    <3> QED BY <3>4, <3>5, <3>6 DEF ApprovalInv
  <2> QED BY <2>1
<1>2. /\ TypeInv /\ QueuedIsQueue /\ JournalInv /\ JournalEndsOnce /\ ToolInv /\ ApprovalInv
      /\ [Next]_vars
      => TypeInv' /\ JournalInv' /\ JournalEndsOnce' /\ ToolInv' /\ ApprovalInv'
  <2> SUFFICES ASSUME TypeInv, QueuedIsQueue, JournalInv, JournalEndsOnce, ToolInv, ApprovalInv,
                      [Next]_vars
               PROVE  TypeInv' /\ JournalInv' /\ JournalEndsOnce' /\ ToolInv' /\ ApprovalInv'
    OBVIOUS
  <2>1. TypeOK /\ TypeInv' /\ TypeOK' /\ plan \in Plans
    BY NextTypes DEF TypeInv, TypeOK
  <2>2. JournalInv' /\ JournalEndsOnce' /\ ToolInv' /\ IssuedTyped'
    BY <2>1, NextJournal, ToolsKept DEF ToolInv
  <2>3. SingleFile(plan) /\ ShowsWhatItGates(plan) /\ NobodyElseAnswers(plan)
    BY <2>1
  <2>4. UnitInv' /\ FileInv' /\ PreparedInv'
    BY <2>1, <2>3, UnitsKept, FileKept, PreparedKept DEF ApprovalInv
  <2>5. ShownInv'
    BY <2>1, <2>3, ShownKept DEF ApprovalInv, GateInv
  <2>6. GateInv'
    BY <2>1, <2>3, GateKept DEF ApprovalInv
  <2>7. UsedInv'
    BY <2>1, <2>3, UsedKept DEF ApprovalInv
  <2> QED BY <2>1, <2>2, <2>4, <2>5, <2>6, <2>7 DEF ApprovalInv
<1>3. ApprovalInv => ApprovedPayloadIsUsed
  BY DEF ApprovalInv, UsedInv, CallIsApproved, ResponseIsApproved, ApprovedPayloadIsUsed
<1> QED BY <1>1, <1>2, <1>3, InitTypes, InitJournal, ToolsStart, QueueIsExact, PTL DEF Spec

-----------------------------------------------------------------------------
(* The executor keeps the contract. *)

\* What is in a journal, as its readers take it for granted: it starts with its
\* start, has the start once, and ends in success only with a release.
WhatEnds == {"succeeded", "failed", "cancelled", "budget-exhausted"}
Begun ==
    /\ journal = <<>> => pc \in {"new", "returned"}
    /\ Logged("started") = IF journal = <<>> THEN {} ELSE {1}
Candid == pc # "returned" => (finalText # 0 => pending # <<>>) /\ forced # "succeeded"
EndIsSaid == \A i \in Logged("finished") : journal[i].what \in WhatEnds
SuccessReleases ==
    \A i \in Logged("finished") : journal[i].what = "succeeded" => Logged("released") # {}
Handed ==
    /\ pc = "returned" => outcome # "none"
    /\ outcome = "ok" => Logged("finished") # {}

(***************************************************************************)
(* Inductive invariant: what readers and callers take for granted beyond   *)
(* JournalEndsOnce.                                                        *)
(***************************************************************************)
ReadersInv == Begun /\ Candid /\ EndIsSaid /\ SuccessReleases /\ Handed

LEMMA NewOpens ==
    ASSUME [Next]_vars, pc = "new"
    PROVE  Open \/ (UNCHANGED journal /\ pc' \in {"new", "returned"})
BY DEF Next, Executes, Outside, Environment, Returned, RefuseToCompile,
   StopAtCap, StopAtVisitCap, RunNode, UnknownKind, Visit, Pop, Stopped, Intake,
   Research, Respond, BelowFloor, Call, ReadyToCall, NothingToWorkOn, AskApproval,
   Silence, Refuse, FollowEdge, PassOverEdge, BadGuard, Settle, Close,
   NoRoomForPrompt, CallFails, ModelReturns, JudgePasses, JudgeRevises, ToolReturns,
   Approve, Decline, Cancel, Expire, Running, Calling, vars

LEMMA BegunKept ==
    ASSUME TypeOK, JournalInv, Begun, [Next]_vars
    PROVE  Begun'
<1>1. CASE Open
  <2>1. PICK t : Adds(t) /\ Opening(t)
    BY <1>1, OpenAdds
  <2>2. journal = <<>> /\ journal' = t
    <3>1. journal = <<>>
      BY <1>1 DEF Open, JournalInv, Unended
    <3>2. t \in Seq(Events)
      BY <2>1 DEF Opening
    <3> QED BY <2>1, <3>1, <3>2, ConcatEmptySeq DEF Adds
  <2>3. /\ t[1].type = "started" /\ 1 \in DOMAIN t
        /\ \A k \in DOMAIN t \ {1} : t[k].type = "unit"
    <3>1. Len(CarriedUnits) \in Nat
      BY PlanTypes DEF CarriedUnits, PlanTyped
    <3> QED BY <2>1, <3>1 DEF Opening, Event
  <2>4. Logged("started")' = {1}
    BY <2>2, <2>3 DEF Logged
  <2>5. journal' # <<>>
    BY <2>2, <2>3
  <2> QED BY <2>4, <2>5 DEF Begun
<1>2. CASE ~Open
  <2>1. Logged("started")' = Logged("started")
    BY <1>2, StepsLog
  <2>2. CASE journal # <<>>
    <3>1. journal' # <<>>
      <4>1. 1 \in DOMAIN journal
        BY <2>2 DEF JournalInv, JournalTyped
      <4> QED BY <4>1, JournalStays
    <3> QED BY <2>1, <2>2, <3>1 DEF Begun
  <2>3. CASE journal = <<>>
    <3>1. journal' = <<>> /\ pc' \in {"new", "returned"}
      <4>1. CASE pc = "new"
        BY <1>2, <2>3, <4>1, NewOpens
      <4>2. CASE pc = "returned"
        BY <2>3, <4>2, NothingAfterReturn DEF vars
      <4> QED BY <2>3, <4>1, <4>2 DEF Begun
    <3> QED BY <2>1, <2>3, <3>1 DEF Begun
  <2> QED BY <2>2, <2>3
<1> QED BY <1>1, <1>2

LEMMA CandidKept ==
    ASSUME TypeOK, JournalInv, Candid, [Next]_vars, pc' # "returned"
    PROVE  Candid'
<1>1. pc # "returned"
  BY NothingAfterReturn DEF vars
<1>2. finalText' # 0 => pending' # <<>>
  <2>1. ~Close
    BY DEF Close
  <2>2. CASE MadeNothing \/ (Open /\ UNCHANGED <<pending, finalText>>)
    BY <1>1, <2>1, <2>2 DEF MadeNothing, Candid
  <2>3. ASSUME NEW u, Made(u)
        PROVE  pending' = pending \/ pending' # <<>>
    BY <2>3 DEF Made
  <2>4. ASSUME NEW role, MadeNew(role) PROVE finalText' # 0 => pending' # <<>>
    BY <1>1, <2>3, <2>4 DEF MadeNew, Candid
  <2>5. ASSUME Respond PROVE pending' # <<>>
    <3>1. Made(Unit("response", FALSE, ledger[LatestDraft].cites, ledger[LatestDraft].text,
                    Reviewed))
      BY <2>5, NodesMake
    <3>2. \A cites, text, reviewed :
             Unit("response", FALSE, cites, text, reviewed).role = "response"
      BY DEF Unit
    <3> QED BY <3>1, <3>2 DEF Made
  <2> QED BY <2>2, <2>4, <2>5, StepsMake
<1>3. forced' = forced \/ forced' \in {"failed", "cancelled", "budget-exhausted"}
  <2>1. CASE Open \/ RefuseToCompile \/ StopAtCap \/ StopAtVisitCap \/ RunNode \/ UnknownKind
    BY <2>1 DEF Open, RefuseToCompile, StopAtCap, StopAtVisitCap, RunNode, UnknownKind, Stops
  <2>2. ASSUME NEW records, NEW levels, NEW units, NEW fs, NEW esc,
               Commit(records, levels, units, fs, esc)
        PROVE  forced' = forced \/ forced' \in {"failed", "cancelled", "budget-exhausted"}
    BY <2>2 DEF Commit, Stops
  <2>3. CASE Intake \/ Research \/ Respond \/ BelowFloor \/ Approve
    BY <2>2, <2>3 DEF Intake, Research, Respond, BelowFloor, Approve
  <2>4. CASE ModelReturns \/ JudgePasses \/ JudgeRevises \/ \E ok \in BOOLEAN : ToolReturns(ok)
    BY <2>2, <2>4 DEF ModelReturns, JudgePasses, JudgeRevises, ToolReturns
  <2>5. CASE Stopped \/ Call \/ NothingToWorkOn \/ NoRoomForPrompt \/ CallFails
    BY <2>5 DEF Stopped, Call, NothingToWorkOn, NodeError, Fails, NoRoomForPrompt, CallFails,
       Stops, StopStatus
  <2>6. CASE AskApproval \/ Silence \/ Decline
    BY <2>6 DEF AskApproval, Silence, Decline, Refuse, Stops, StopStatus
  <2>7. CASE FollowEdge \/ PassOverEdge \/ BadGuard \/ Settle \/ Close
    BY <2>7 DEF FollowEdge, PassOverEdge, BadGuard, Settle, Stops, Close
  <2>8. CASE Environment \/ UNCHANGED vars
    BY <2>8 DEF Environment, Cancel, Expire, vars
  <2> QED BY <2>1, <2>3, <2>4, <2>5, <2>6, <2>7, <2>8 DEF Next, Executes, Outside, Returned
<1> QED BY <1>1, <1>2, <1>3 DEF Candid

\* A run that returns otherwise than by closing says at most that it failed.
LEMMA ErrorsSay ==
    ASSUME TypeOK, JournalInv, [Next]_vars, pc # "returned", pc' = "returned", ~Close
    PROVE  outcome' = "error" /\ \A i \in Logged("finished")' : journal'[i].what = "failed"
<1>1. outcome' = "error"
  BY EndsHow
<1>2. Logged("finished") = {}
  <2>1. \A i \in DOMAIN journal : journal[i] \in Ordinary
    BY ElementOfSeq, LenProperties DEF JournalInv, Unended
  <2> QED BY <2>1 DEF Logged, Ordinary, Quiets, EventsOf
<1>3. ASSUME NEW T, NEW t \in Seq(T), Adds(t),
             \A k \in DOMAIN t : t[k].type = "finished" => t[k].what = "failed"
      PROVE  \A i \in Logged("finished")' : journal'[i].what = "failed"
  <2>1. /\ \A i \in DOMAIN journal : i \in DOMAIN journal' /\ journal'[i] = journal[i]
        /\ \A i \in DOMAIN journal' \ DOMAIN journal :
              i - Len(journal) \in DOMAIN t /\ journal'[i] = t[i - Len(journal)]
    BY <1>3, AddsAt DEF JournalInv
  <2> QED BY <1>2, <1>3, <2>1 DEF Logged
<1>4. ASSUME NEW n, NEW records, NEW t, Adds(t), Failing(t, n, records),
             \A k \in DOMAIN records : records[k].type # "finished"
      PROVE  \A i \in Logged("finished")' : journal'[i].what = "failed"
  <2>1. /\ Transition(n, "failed").type = "transition"
        /\ Finished("failed").what = "failed"
    BY DEF Transition, Finished, Event
  <2>2. t \in Seq(Events) /\ \A k \in DOMAIN t : t[k].type = "finished" => t[k].what = "failed"
    BY <1>4, <2>1 DEF Failing
  <2> QED BY <1>3, <1>4, <2>2
<1>5. CASE UnknownKind
  <2>1. PICK t : Adds(t) /\ Failing(t, node', <<Transition(node', "running")>>)
    BY <1>5, StepsAdd
  <2> DEFINE e == Transition(node', "running")
  <2>2. e.type # "finished"
    BY DEF Transition, Event
  <2> HIDE DEF e
  <2>3. \A k \in DOMAIN <<e>> : <<e>>[k].type # "finished"
    BY <2>2
  <2>4. Failing(t, node', <<e>>)
    BY <2>1 DEF e
  <2> QED BY <1>1, <1>4, <2>1, <2>3, <2>4
<1>6. CASE NothingToWorkOn
  <2>1. PICK t : Adds(t) /\ Failing(t, node, <<>>)
    BY <1>6, StepsAdd
  <2>2. DOMAIN <<>> = {}
    OBVIOUS
  <2> QED BY <1>1, <1>4, <2>1, <2>2
<1>7. CASE CallFails
  <2>1. PICK t : Adds(t) /\ Failing(t, node, FailureRecords)
    BY <1>7, StepsAdd
  <2>2. \A k \in DOMAIN FailureRecords : FailureRecords[k].type # "finished"
    <3>1. CASE FailureRecords = <<>>
      BY <3>1
    <3>2. CASE DOMAIN FailureRecords = {1} /\ FailureRecords[1].type = "tool-call"
      BY <3>2
    <3> QED BY <3>1, <3>2, RecordsAre
  <2> QED BY <1>1, <1>4, <2>1, <2>2
<1>8. CASE RefuseToCompile \/ BadGuard
  <2>1. journal' = journal
    BY <1>8 DEF RefuseToCompile, BadGuard
  <2> QED BY <1>1, <1>2, <2>1 DEF Logged
<1>9. UnknownKind \/ NothingToWorkOn \/ CallFails \/ RefuseToCompile \/ BadGuard
  <2>1. ~(\/ Intake \/ Research \/ BelowFloor \/ Respond \/ ModelReturns \/ JudgePasses
          \/ JudgeRevises \/ Approve \/ \E ok \in BOOLEAN : ToolReturns(ok))
    <3>1. TRUE \in BOOLEAN
      OBVIOUS
    <3> QED BY <3>1, NodesComeBack
  <2>2. ~(Open \/ StopAtCap \/ StopAtVisitCap \/ RunNode)
    BY DEF Open, StopAtCap, StopAtVisitCap, RunNode, Stops
  <2>3. ~(Stopped \/ Call \/ NoRoomForPrompt \/ AskApproval \/ Silence \/ Decline)
    BY DEF Stopped, Call, NoRoomForPrompt, AskApproval, Silence, Decline, Refuse, Stops
  <2>4. ~(FollowEdge \/ PassOverEdge \/ Settle \/ Environment \/ UNCHANGED vars)
    BY DEF FollowEdge, PassOverEdge, Settle, Stops, Environment, Cancel, Expire, vars
  <2> QED BY <2>1, <2>2, <2>3, <2>4 DEF Next, Executes, Outside, Returned
<1> QED BY <1>5, <1>6, <1>7, <1>8, <1>9

LEMMA ReadersKept ==
    ASSUME TypeOK, JournalInv, JournalEndsOnce, CapsInv, ReadersInv, [Next]_vars
    PROVE  ReadersInv'
<1>0. JournalInv' /\ JournalEndsOnce'
  BY NextJournal
<1>1. Begun'
  BY BegunKept DEF ReadersInv
<1>2. Candid'
  <2>1. CASE pc' = "returned"
    BY <2>1 DEF Candid
  <2>2. CASE pc' # "returned"
    BY <2>2, CandidKept DEF ReadersInv
  <2> QED BY <2>1, <2>2
<1>3. CASE pc = "returned"
  BY <1>1, <1>2, <1>3, NothingAfterReturn
     DEF vars, ReadersInv, EndIsSaid, SuccessReleases, Handed, Logged
<1>4. CASE pc' # "returned"
  <2>1. Logged("finished")' = {} /\ outcome' = "none"
    <3>1. journal' \in Seq(Ordinary) /\ outcome' = "none"
      BY <1>0, <1>4 DEF JournalInv, Unended
    <3>2. \A i \in DOMAIN journal' : journal'[i] \in Ordinary
      BY <3>1, ElementOfSeq, LenProperties
    <3> QED BY <3>1, <3>2 DEF Logged, Ordinary, Quiets, EventsOf
  <2> QED BY <1>1, <1>2, <1>4, <2>1 DEF ReadersInv, EndIsSaid, SuccessReleases, Handed
<1>5. CASE pc # "returned" /\ pc' = "returned" /\ ~Close
  <2>1. outcome' = "error" /\ \A i \in Logged("finished")' : journal'[i].what = "failed"
    BY <1>5, ErrorsSay
  <2> QED BY <1>1, <1>2, <2>1 DEF ReadersInv, EndIsSaid, SuccessReleases, Handed, WhatEnds
<1>6. CASE Close
  <2>1. journal'[Len(journal')] = Finished(Status) /\ pc' = "returned" /\ outcome' = "ok"
    BY <1>6, CloseLeaves DEF Close
  <2>2. \A i \in Logged("finished")' : i = Len(journal')
    BY <1>0 DEF JournalEndsOnce, EndIsUnique
  <2>3. Finished(Status).what = Status /\ Finished(Status).type = "finished"
    BY DEF Finished, Event
  <2>4. Status \in WhatEnds
    BY DEF Status, WhatEnds, Statuses, TypeOK
  <2>5. Status = "succeeded" => Logged("released")' # {}
    <3>1. Status = "succeeded" => pending # <<>>
      BY <1>6 DEF Status, ReadersInv, Candid, Close
    <3> QED BY <1>6, <3>1, CloseReleases
  <2>6. Len(journal') \in Logged("finished")'
    <3>1. Len(journal') # 0
      <4>1. PICK t : Adds(t) /\ t = (Release \o Repairs) \o <<Finished(Status)>>
        BY <1>6 DEF Close, Adds
      <4>2. journal' # <<>>
        <5>1. journal # <<>>
          BY <1>6 DEF Close, ReadersInv, Begun
        <5>2. 1 \in DOMAIN journal
          BY <5>1 DEF JournalInv, JournalTyped
        <5> QED BY <5>2, JournalStays
      <4>3. journal' \in Seq(Events)
        BY <1>0 DEF JournalInv, JournalTyped
      <4> QED BY <4>2, <4>3, EmptySeq
    <3>2. Len(journal') \in DOMAIN journal'
      BY <3>1, JournalStays
    <3> QED BY <2>1, <2>3, <3>2 DEF Logged
  <2> QED BY <1>1, <1>2, <2>1, <2>2, <2>3, <2>4, <2>5, <2>6
          DEF ReadersInv, EndIsSaid, SuccessReleases, Handed
<1> QED BY <1>3, <1>4, <1>5, <1>6

\* What readers see, by position.
SeenByPosition ==
    /\ Read \in SUBSET (1 .. Len(journal)) /\ Len(journal) \in Nat
    /\ Cardinality(Read) \in Nat
    /\ DOMAIN Seen = 1 .. Cardinality(Read) /\ Len(Seen) = Cardinality(Read)
    /\ \A k \in DOMAIN Seen :
          /\ Nth(Read, k) \in Read /\ Rank(Read, Nth(Read, k)) = k
          /\ Seen[k] = Named(journal[Nth(Read, k)])
    /\ \A i \in Read : Rank(Read, i) \in DOMAIN Seen /\ Nth(Read, Rank(Read, i)) = i

LEMMA ReadIs == JournalTyped => SeenByPosition
<1> SUFFICES ASSUME JournalTyped PROVE SeenByPosition
  OBVIOUS
<1>1. Read \in SUBSET (1 .. Len(journal)) /\ Len(journal) \in Nat
  BY DEF Read, JournalTyped
<1>2. PICK n, S : n = Len(journal) /\ S = Read
  OBVIOUS
<1>3. /\ Cardinality(S) \in Nat
      /\ \A i \in S : Rank(S, i) \in 1 .. Cardinality(S)
  BY <1>1, <1>2, Ranks
<1>4. /\ \A k \in 1 .. Cardinality(S) : Nth(S, k) \in S /\ Rank(S, Nth(S, k)) = k
      /\ \A i \in S : \A k : Rank(S, i) = k => Nth(S, k) = i
  BY <1>1, <1>2, Enumerated
<1>5. /\ Seen = [k \in 1 .. Cardinality(S) |-> Named(journal[Nth(S, k)])]
  BY <1>2 DEF Seen
<1> QED BY <1>1, <1>2, <1>3, <1>4, <1>5 DEF SeenByPosition

\* Two names that occur in a journal are of events that readers see, and the
\* kind of an event is in its name.
LEMMA NamesTell ==
    ASSUME EndIsSaid, NEW i \in Read
    PROVE  /\ Named(journal[i]) = "started" <=> i \in Logged("started")
           /\ Named(journal[i]) = "released" <=> i \in Logged("released")
           /\ Named(journal[i]) \in WhatEnds <=> i \in Logged("finished")
           /\ i \in Logged("finished") => Named(journal[i]) = journal[i].what
BY DEF Named, Read, Logged, EndIsSaid, WhatEnds

LEMMA LogsAreRead ==
    /\ Logged("started") \subseteq Read /\ Logged("released") \subseteq Read
    /\ Logged("finished") \subseteq Read
BY DEF Read, Logged

LEMMA SeenIsSound ==
    JournalTyped /\ JournalEndsOnce /\ ReadersInv => Contract!Sound(Seen)
<1> SUFFICES ASSUME JournalTyped, JournalEndsOnce, ReadersInv
             PROVE  Contract!Sound(Seen)
  OBVIOUS
<1> DEFINE R == Cardinality(Read)
<1>0. /\ Read \in SUBSET (1 .. Len(journal)) /\ Len(journal) \in Nat /\ R \in Nat
      /\ DOMAIN Seen = 1 .. R /\ Len(Seen) = R
      /\ \A k \in 1 .. R : /\ Nth(Read, k) \in Read /\ Rank(Read, Nth(Read, k)) = k
                           /\ Seen[k] = Named(journal[Nth(Read, k)])
      /\ \A i \in Read : Rank(Read, i) \in 1 .. R /\ Nth(Read, Rank(Read, i)) = i
  BY ReadIs DEF SeenByPosition
<1>1. \A i, j \in Read : i < j => Rank(Read, i) < Rank(Read, j)
  BY <1>0, Ranks
<1>2. \A i \in Read : i \in Nat /\ 1 <= i /\ i <= Len(journal)
  BY <1>0
<1> HIDE DEF R
<1>3. ASSUME NEW k \in 1 .. R PROVE Seen[k] = "started" <=> k = 1
  <2>1. PICK i \in Read : i = Nth(Read, k) /\ Rank(Read, i) = k /\ Seen[k] = Named(journal[i])
    BY <1>0
  <2>2. journal # <<>> /\ Logged("started") = {1}
    BY <2>1 DEF Read, ReadersInv, Begun
  <2>3. Seen[k] = "started" <=> i = 1
    BY <2>1, <2>2, NamesTell DEF ReadersInv
  <2>4. 1 \in Read
    BY <2>2, LogsAreRead
  <2>5. Rank(Read, 1) = 1
    <3>1. {j \in Read : j <= 1} = {1}
      BY <1>2, <2>4
    <3> QED BY <3>1, FS_Singleton DEF Rank
  <2>6. k = 1 => i = 1
    BY <1>0, <2>1, <2>4, <2>5
  <2> QED BY <2>1, <2>3, <2>5, <2>6
<1>4. ASSUME NEW k \in 1 .. R, Seen[k] \in WhatEnds
      PROVE  k = R /\ Nth(Read, k) = Len(journal) /\ Len(journal) \in Logged("finished")
  <2>1. PICK i \in Read : i = Nth(Read, k) /\ Rank(Read, i) = k /\ Seen[k] = Named(journal[i])
    BY <1>0
  <2>2. i \in Logged("finished")
    BY <1>4, <2>1, NamesTell DEF ReadersInv
  <2>3. i = Len(journal)
    BY <2>2 DEF JournalEndsOnce, EndIsUnique
  <2>4. {j \in Read : j <= i} = Read
    BY <1>2, <2>3
  <2>5. Rank(Read, i) = R
    BY <2>4 DEF Rank, R
  <2> QED BY <2>1, <2>2, <2>3, <2>5
<1>5. ASSUME NEW k \in 1 .. R, Seen[k] = "released", k < R
      PROVE  Seen[k + 1] = "succeeded"
  <2>1. PICK i \in Read : i = Nth(Read, k) /\ Rank(Read, i) = k /\ Seen[k] = Named(journal[i])
    BY <1>0
  <2>2. i \in Logged("released")
    BY <1>5, <2>1, NamesTell DEF ReadersInv
  <2>3. /\ journal[Len(journal)] = Finished("succeeded")
        /\ \A j \in i + 1 .. Len(journal) - 1 : journal[j].type = "repair"
    BY <2>2 DEF JournalEndsOnce, ReleaseEndsTheRun
  <2>4. k + 1 \in 1 .. R
    BY <1>0, <1>5
  <2>5. PICK l \in Read : /\ l = Nth(Read, k + 1) /\ Rank(Read, l) = k + 1
                          /\ Seen[k + 1] = Named(journal[l])
    BY <1>0, <2>4
  <2>6. i < l
    <3>1. l < i => k + 1 < k
      BY <1>1, <2>1, <2>5
    <3>2. l # i
      BY <2>1, <2>5
    <3> QED BY <1>2, <3>1, <3>2
  <2>7. l = Len(journal)
    <3>1. journal[l].type # "repair"
      BY DEF Read
    <3>2. l \notin i + 1 .. Len(journal) - 1
      BY <2>3, <3>1
    <3> QED BY <1>0, <1>2, <2>6, <3>2
  <2>8. Named(journal[l]) = "succeeded"
    BY <2>3, <2>7 DEF Named, Finished, Event
  <2> QED BY <2>5, <2>8
<1>6. ASSUME NEW k \in 1 .. R, Seen[k] = "succeeded"
      PROVE  Seen[k - 1] = "released"
  <2>1. /\ k = R /\ Nth(Read, k) = Len(journal) /\ Len(journal) \in Logged("finished")
        /\ Seen[k] = Named(journal[Nth(Read, k)])
    BY <1>0, <1>4, <1>6 DEF WhatEnds
  <2>2. journal[Len(journal)].what = "succeeded"
    BY <1>6, <2>1, LogsAreRead, NamesTell DEF ReadersInv
  <2>3. PICK i \in Logged("released") : TRUE
    BY <2>1, <2>2 DEF ReadersInv, SuccessReleases
  <2>4. i \in Read /\ Len(journal) \in Read
    BY <2>1, LogsAreRead
  <2>5. i # Len(journal)
    BY <2>1 DEF Logged
  <2>6. \A j \in Read : ~(j \in i + 1 .. Len(journal) - 1)
    <3>1. \A j \in i + 1 .. Len(journal) - 1 : journal[j].type = "repair"
      BY DEF JournalEndsOnce, ReleaseEndsTheRun
    <3> QED BY <3>1 DEF Read
  <2>7. {j \in Read : j <= i} = Read \ {Len(journal)}
    <3>1. ASSUME NEW j \in Read PROVE j <= i <=> j # Len(journal)
      BY <1>0, <1>2, <2>4, <2>5, <2>6
    <3> QED BY <3>1
  <2>8. Cardinality(Read \ {Len(journal)}) = R - 1
    <3>1. IsFiniteSet(Read)
      BY <1>0, Ranks
    <3> QED BY <2>4, <3>1, FS_RemoveElement DEF R
  <2>9. Rank(Read, i) = k - 1
    BY <2>1, <2>7, <2>8 DEF Rank
  <2>10. k - 1 \in 1 .. R /\ Nth(Read, k - 1) = i
    BY <1>0, <2>4, <2>9
  <2>11. Seen[k - 1] = Named(journal[i])
    BY <1>0, <2>10
  <2> QED BY <2>3, <2>4, <2>11, NamesTell DEF ReadersInv
<1>7. Contract!Statuses = WhatEnds
  BY DEF Contract!Statuses, WhatEnds
<1>8. \A k \in DOMAIN Seen : Seen[k] \in WhatEnds => k = Len(Seen)
  BY <1>0, <1>4
<1> QED BY <1>0, <1>3, <1>5, <1>6, <1>7, <1>8 DEF Contract!Sound

\* Readers keep what they have seen, in its place.
LEMMA SeenGrows ==
    ASSUME TypeOK, JournalInv, JournalInv', [Next]_vars
    PROVE  Contract!IsPrefix(Seen, Seen')
<1>1. /\ Read \in SUBSET (1 .. Len(journal)) /\ Len(journal) \in Nat
      /\ Cardinality(Read) \in Nat
      /\ DOMAIN Seen = 1 .. Cardinality(Read) /\ Len(Seen) = Cardinality(Read)
      /\ \A k \in DOMAIN Seen : /\ Nth(Read, k) \in Read
                                /\ Seen[k] = Named(journal[Nth(Read, k)])
  BY ReadIs DEF JournalInv, SeenByPosition
<1>2. /\ Read' \in SUBSET (1 .. Len(journal')) /\ Len(journal') \in Nat
      /\ Cardinality(Read') \in Nat
      /\ DOMAIN Seen' = 1 .. Cardinality(Read') /\ Len(Seen') = Cardinality(Read')
      /\ \A k \in DOMAIN Seen' : Seen'[k] = Named(journal'[Nth(Read', k)])
  <2>1. JournalTyped'
    BY DEF JournalInv
  <2>2. SeenByPosition'
    BY <2>1, ReadIs, PTL
  <2> QED BY <2>2 DEF SeenByPosition
<1>3. PICK n, S, m, T : n = Len(journal) /\ S = Read /\ m = Len(journal') /\ T = Read'
  OBVIOUS
<1>4. /\ \A i \in DOMAIN journal : i \in DOMAIN journal' /\ journal'[i] = journal[i]
      /\ \A i \in DOMAIN journal' \ DOMAIN journal : i \in Nat /\ Len(journal) < i
      /\ DOMAIN journal = 1 .. Len(journal) /\ DOMAIN journal' = 1 .. Len(journal')
  BY JournalStays
<1>5. S \subseteq T /\ \A i \in S : journal'[i] = journal[i]
  BY <1>3, <1>4 DEF Read
<1>6. \A t \in T \ S : \A s \in S : s < t
  <2>1. ASSUME NEW t \in T, t \notin S PROVE t \in DOMAIN journal' \ DOMAIN journal
    BY <1>3, <1>4, <2>1 DEF Read
  <2>2. \A s \in S : s \in Nat /\ s <= Len(journal)
    BY <1>1, <1>3
  <2>3. \A t \in T \ S : t \in Nat /\ Len(journal) < t
    BY <1>4, <2>1
  <2> QED BY <1>1, <2>2, <2>3
<1>7. /\ Cardinality(S) <= Cardinality(T)
      /\ \A k \in 1 .. Cardinality(S) : Nth(T, k) = Nth(S, k)
  <2>1. n \in Nat /\ m \in Nat /\ S \in SUBSET (1 .. n) /\ T \in SUBSET (1 .. m)
    BY <1>1, <1>2, <1>3
  <2> QED BY <1>5, <1>6, <2>1, EnumerationGrows
<1>8. Len(Seen) \in Nat /\ Len(Seen) <= Len(Seen')
  BY <1>1, <1>2, <1>3, <1>7
<1>9. \A k \in 1 .. Len(Seen) : Seen'[k] = Seen[k]
  <2> SUFFICES ASSUME NEW k \in 1 .. Len(Seen) PROVE Seen'[k] = Seen[k]
    OBVIOUS
  <2>1. k \in DOMAIN Seen /\ k \in DOMAIN Seen'
    BY <1>1, <1>2, <1>3, <1>7
  <2>2. PICK i \in S : i = Nth(S, k) /\ i = Nth(T, k)
    BY <1>1, <1>3, <1>7, <2>1
  <2>3. Seen[k] = Named(journal[i]) /\ Seen'[k] = Named(journal'[i])
    BY <1>1, <1>2, <1>3, <2>1, <2>2
  <2> QED BY <1>5, <2>3
<1>10. SubSeq(Seen, 1, Len(Seen)) = SubSeq(Seen', 1, Len(Seen))
  <2>1. PICK s, z, k : s = Seen /\ z = Seen' /\ k = Len(Seen)
    OBVIOUS
  <2>2. \A i \in 1 .. k : z[i] = s[i]
    BY <1>9, <2>1
  <2>3. k \in Nat
    BY <1>8, <2>1
  <2>4. SubSeq(s, 1, k) = SubSeq(z, 1, k)
    BY <2>2, <2>3
  <2> QED BY <2>1, <2>4
<1> QED BY <1>8, <1>10 DEF Contract!IsPrefix

\* A run is not given back what it spent, and the caller's cap holds it as the
\* contract says.
LEMMA SpendingKept ==
    ASSUME TypeOK, [Next]_vars
    PROVE  spent'["tokens"] >= spent["tokens"]
<1>1. "tokens" \in Resources
  BY DEF Resources
<1>2. spent["tokens"] \in Nat /\ \A cost \in Costs : cost["tokens"] \in Nat
  BY <1>1, CapTypes
<1>3. CASE \E cost \in Costs : Spend(cost)
  <2>1. PICK cost \in Costs : Spend(cost)
    BY <1>3
  <2>2. spent'["tokens"] = spent["tokens"] + cost["tokens"]
    BY <1>1, <2>1 DEF Spend
  <2> QED BY <1>2, <2>2
<1>4. CASE spent' = spent
  BY <1>2, <1>4
<1>5. CASE ModelReturns \/ JudgePasses \/ JudgeRevises
  BY <1>3, <1>5 DEF ModelReturns, JudgePasses, JudgeRevises
<1>6. CASE Open \/ RefuseToCompile \/ StopAtCap \/ StopAtVisitCap \/ RunNode \/ UnknownKind
  BY <1>4, <1>6 DEF Open, RefuseToCompile, StopAtCap, StopAtVisitCap, RunNode, UnknownKind
<1>7. CASE Stopped \/ Call \/ NothingToWorkOn \/ NoRoomForPrompt \/ CallFails
  BY <1>4, <1>7 DEF Stopped, Call, NothingToWorkOn, NodeError, Fails, NoRoomForPrompt, CallFails
<1>8. CASE Intake \/ Research \/ Respond \/ BelowFloor \/ Approve
           \/ \E ok \in BOOLEAN : ToolReturns(ok)
  BY <1>4, <1>8 DEF Intake, Research, Respond, BelowFloor, Approve, ToolReturns
<1>9. CASE AskApproval \/ Silence \/ Decline
  BY <1>4, <1>9 DEF AskApproval, Silence, Decline, Refuse
<1>10. CASE FollowEdge \/ PassOverEdge \/ BadGuard \/ Settle \/ Close
  BY <1>4, <1>10 DEF FollowEdge, PassOverEdge, BadGuard, Settle, Close
<1>11. CASE Environment \/ UNCHANGED vars
  BY <1>4, <1>11 DEF Environment, Cancel, Expire, vars
<1> QED
  BY <1>5, <1>6, <1>7, <1>8, <1>9, <1>10, <1>11 DEF Next, Executes, Outside, Returned

CapHolding == Contract!OvershootsByOneCall(plan.cap["tokens"], spent["tokens"])

LEMMA CapHolds == TypeOK /\ OvershootIsOneCall => CapHolding
<1> SUFFICES ASSUME TypeOK, OvershootIsOneCall PROVE CapHolding
  OBVIOUS
<1>1. "tokens" \in Resources
  BY DEF Resources
<1>2. /\ plan.cap["tokens"] \subseteq Nat /\ spent["tokens"] \in Nat
      /\ \A cost \in Costs : cost["tokens"] \in Nat
  BY <1>1, CapTypes
<1>3. DearestCall \in Nat /\ \A cost \in Costs : cost["tokens"] <= DearestCall
  <2>1. PICK d \in Costs : \A cost \in Costs : cost["tokens"] <= d["tokens"]
    BY DearestAssumption
  <2>2. d["tokens"] \in {c["tokens"] : c \in Costs}
    BY <2>1
  <2>3. /\ DearestCall \in {c["tokens"] : c \in Costs}
        /\ \A cost \in Costs : cost["tokens"] <= DearestCall
    BY <2>1, <2>2 DEF DearestCall
  <2> QED BY <1>2, <2>3
<1>4. ASSUME NEW c \in plan.cap["tokens"], spent["tokens"] # 0
      PROVE  spent["tokens"] < c + DearestCall
  <2>1. PICK cost \in Costs : spent["tokens"] < c + cost["tokens"]
    BY <1>1, <1>4 DEF OvershootIsOneCall
  <2> QED BY <1>2, <1>3, <2>1
<1> QED BY <1>4 DEF CapHolding, Contract!OvershootsByOneCall

\* Readers have seen the end of a run that handed over an outcome, and no
\* answer of one that handed over an error.
EndSeen ==
    /\ outcome = "ok" => Contract!Ended(Seen)
    /\ outcome = "error" => ~Contract!Has(Seen, "released")

LEMMA EndIsSeen == JournalInv /\ JournalEndsOnce /\ ReadersInv => EndSeen
<1> SUFFICES ASSUME JournalInv, JournalEndsOnce, ReadersInv PROVE EndSeen
  OBVIOUS
<1>1. /\ DOMAIN Seen = 1 .. Cardinality(Read)
      /\ \A k \in DOMAIN Seen : /\ Nth(Read, k) \in Read
                                /\ Seen[k] = Named(journal[Nth(Read, k)])
      /\ \A i \in Read : Rank(Read, i) \in DOMAIN Seen /\ Nth(Read, Rank(Read, i)) = i
  BY ReadIs DEF JournalInv, SeenByPosition
<1>2. ASSUME outcome = "ok" PROVE Contract!Ended(Seen)
  <2>1. PICK i \in Logged("finished") : TRUE
    BY <1>2 DEF ReadersInv, Handed
  <2>2. i \in Read /\ Named(journal[i]) \in WhatEnds
    BY <2>1, LogsAreRead, NamesTell DEF ReadersInv
  <2>3. Rank(Read, i) \in DOMAIN Seen /\ Seen[Rank(Read, i)] \in WhatEnds
    BY <1>1, <2>2
  <2> QED BY <2>3 DEF Contract!Ended, Contract!Statuses, WhatEnds
<1>3. ASSUME outcome = "error", Contract!Has(Seen, "released") PROVE FALSE
  <2>1. PICK k \in DOMAIN Seen : Seen[k] = "released"
    BY <1>3 DEF Contract!Has
  <2>2. Nth(Read, k) \in Logged("released")
    BY <1>1, <2>1, NamesTell DEF ReadersInv
  <2> QED BY <1>3, <2>2 DEF JournalEndsOnce, ReleaseEndsTheRun
<1> QED BY <1>2, <1>3 DEF EndSeen

LEMMA NextKeepsContract ==
    ASSUME TypeOK, JournalInv, JournalEndsOnce, CapsInv, ReadersInv, [Next]_vars,
           TypeOK', OvershootIsOneCall'
    PROVE  /\ ReadersInv'
           /\ [Contract!Step]_(Contract!contract)
<1>1. JournalInv' /\ JournalEndsOnce' /\ ReadersInv'
  BY NextJournal, ReadersKept
<1>2. CASE pc = "returned"
  <2>1. UNCHANGED <<journal, outcome, plan, spent>>
    BY <1>2, NothingAfterReturn DEF vars, answer
  <2>2. Read' = Read
    BY <2>1 DEF Read
  <2>3. Seen' = Seen
    BY <2>1, <2>2 DEF Seen
  <2> QED BY <1>1, <2>1, <2>3 DEF Contract!contract
<1>3. CASE pc # "returned"
  <2>1. outcome = "none"
    BY <1>3 DEF JournalInv, Unended
  <2>2. outcome' \in {"none", "ok", "error"}
    BY DEF TypeOK
  <2>3. Contract!IsPrefix(Seen, Seen')
    BY <1>1, SeenGrows
  <2>4. Contract!Sound(Seen)'
    <3>1. JournalTyped'
      BY <1>1 DEF JournalInv
    <3> QED BY <1>1, <3>1, SeenIsSound, PTL
  <2>5. EndSeen'
    BY <1>1, EndIsSeen, PTL
  <2>6. spent'["tokens"] >= spent["tokens"]
    BY SpendingKept
  <2>7. CapHolding'
    BY CapHolds, PTL
  <2>8. plan' = plan
    BY PlanStays
  <2>9. Contract!Step
    BY <2>1, <2>2, <2>3, <2>4, <2>5, <2>6, <2>7, <2>8 DEF Contract!Step, EndSeen, CapHolding
  <2> QED BY <1>1, <2>9
<1> QED BY <1>2, <1>3

\* Every run, of whatever graph, is one that its callers may take for granted:
\* it appends to a journal that is sound at every moment, hands over an outcome
\* once its end can be read, an error only if nothing was released, and
\* overshoots its allowance by less than the dearest call.
THEOREM ContractIsKept == Spec => KeepsContract
<1>1. Init => ReadersInv /\ Contract!Init
  <2> SUFFICES ASSUME Init PROVE ReadersInv /\ Contract!Init
    OBVIOUS
  <2>1. /\ journal = <<>> /\ pc = "new" /\ outcome = "none" /\ finalText = 0 /\ forced = "none"
        /\ spent = [r \in Resources |-> 0]
    BY DEF Init
  <2>2. Read = {} /\ \A type : Logged(type) = {}
    BY <2>1 DEF Read, Logged
  <2>3. Cardinality(Read) = 0
    BY <2>2, FS_EmptySet
  <2>4. Seen = <<>>
    BY <2>3 DEF Seen
  <2>5. spent["tokens"] = 0
    BY <2>1 DEF Resources
  <2>6. ReadersInv
    BY <2>1, <2>2 DEF ReadersInv, Begun, Candid, EndIsSaid, SuccessReleases, Handed
  <2> QED BY <2>1, <2>4, <2>5, <2>6 DEF Contract!Init
<1>2. Init => JournalInv /\ JournalEndsOnce
  BY InitJournal
<1>3. TypeOK /\ JournalInv /\ JournalEndsOnce /\ CapsInv /\ [Next]_vars
        => JournalInv' /\ JournalEndsOnce' /\ CapsInv'
  BY NextJournal, NextCaps
<1>5. Init => CapsInv
  BY InitCaps
<1>4. TypeOK /\ JournalInv /\ JournalEndsOnce /\ CapsInv /\ ReadersInv /\ [Next]_vars
        /\ TypeOK' /\ OvershootIsOneCall'
      => ReadersInv' /\ [Contract!Step]_(Contract!contract)
  BY NextKeepsContract
<1> QED
  BY <1>1, <1>2, <1>3, <1>4, <1>5, TypeCorrect, OvershootIsBounded, PTL
     DEF Spec, KeepsContract, Contract!Spec
=============================================================================
