------------------------------ MODULE Boundary ------------------------------
(***************************************************************************)
(* The external transcript of a session (graffy-core boundary.rs): what    *)
(* crossed the boundary between human and machine, derived from the        *)
(* journals of the session's runs, its exchanges, its windows of complete  *)
(* exchanges and its repair episodes.                                      *)
(*                                                                         *)
(* A run is a record of its manifest (id, attempt group, kind, time) and   *)
(* its frames; the n-th frame of run r is referred to as <<r, n>>.  Indices*)
(* start at 1, where the code's start at 0; 0 stands for None.             *)
(***************************************************************************)
EXTENDS Enumeration, Sequences, SequencesExt

CONSTANT WindowSize     \* exchanges in a window: five in the code

ASSUME WindowSizeAssumption == WindowSize \in Nat \ {0}

IsResponse(role) == role \in {"response", "verified_response"}
HumanInput == {"prompt", "correction"}

\* Mutant of OrderRuns: in the order of their paths.
OrderByPath(runs) == Sorted(runs, LAMBDA a, b : a.path < b.path)

OrderRuns(runs) ==
    Sorted(runs, LAMBDA a, b : a.at < b.at \/ (a.at = b.at /\ a.id < b.id))

-----------------------------------------------------------------------------
(* Turns. *)

Turn(run, actor, role, content, ref, visible) ==
    [actor |-> actor, group |-> run.group, role |-> role, content |-> content,
     refs |-> <<<<run.id, ref>>>>, visible |-> visible]

\* A response crossed when its delivery is confirmed, anything else when it
\* was visible.
Crossed(f) ==
    \/ f.visibility = "delivered"
    \/ f.visibility = "visible" /\ ~IsResponse(f.role)

\* The boundary events of a run are its transcript when it has any.
Explicit(run) == \E i \in DOMAIN run.frames : run.frames[i].is = "boundary"

EventTurn(run, i) ==
    LET f == run.frames[i]
    IN  Turn(run, f.actor, f.role, f.content, IF f.source = 0 THEN i ELSE f.source, Crossed(f))

IsHumanUnit(f) == f.is = "unit" /\ f.human /\ f.role \in HumanInput

\* In journals without boundary events what the human said is reconstructed.
SpokenTurn(run, i) ==
    LET f == run.frames[i]
    IN  IF f.is = "approval"
        THEN Turn(run, "human", "approval_decision", f.decision, i, FALSE)
        ELSE Turn(run, "human", f.role, f.content, i, TRUE)

Succeeded(run) ==
    \E i \in DOMAIN run.frames :
        run.frames[i].is = "finished" /\ run.frames[i].status = "succeeded"

\* The last response of a run that succeeded; whether it was seen is unknown.
LegacyResponse(run) ==
    LET at == {i \in DOMAIN run.frames :
                  run.frames[i].is = "unit" /\ run.frames[i].role = "response"}
    IN  IF Succeeded(run) /\ at # {}
        THEN <<Turn(run, "ai", "response", run.frames[Max(at)].content, Max(at), FALSE)>>
        ELSE <<>>

SameResponse(t, c) ==
    /\ c.actor = "ai" /\ IsResponse(c.role)
    /\ t.actor = c.actor /\ t.role = c.role /\ t.group = c.group
    /\ t.refs = c.refs /\ t.content = c.content

SameContribution(t, c) ==
    t.actor = "human" /\ t.role = c.role /\ t.content = c.content /\ t.group = c.group

\* Mutant of Merge: a receipt makes a turn of its own.
MergeHumanOnly(turns, c) ==
    LET input == IF c.actor = "human" /\ c.role \in HumanInput
                 THEN SelectInSeq(turns, LAMBDA t : SameContribution(t, c)) ELSE 0
    IN  IF input # 0 THEN [turns EXCEPT ![input].refs = @ \o c.refs]
        ELSE Append(turns, c)

\* A receipt upgrades the answer it confirms; an input that a retry journals
\* again gains a reference; anything else is a turn of its own.
Merge(turns, c) ==
    LET answer == SelectInSeq(turns, LAMBDA t : SameResponse(t, c))
        input == IF c.actor = "human" /\ c.role \in HumanInput
                 THEN SelectInSeq(turns, LAMBDA t : SameContribution(t, c)) ELSE 0
    IN  IF answer # 0 THEN [turns EXCEPT ![answer].visible = @ \/ c.visible]
        ELSE IF input # 0 THEN [turns EXCEPT ![input].refs = @ \o c.refs]
        ELSE Append(turns, c)

MergeLegacy(turns, c) ==
    LET same == SelectInSeq(turns, LAMBDA t : SameContribution(t, c))
    IN  IF same # 0 THEN [turns EXCEPT ![same].refs = @ \o c.refs] ELSE Append(turns, c)

\* What frame i of a run adds.
Tell(run, turns, i) ==
    IF Explicit(run)
    THEN IF run.frames[i].is = "boundary" THEN Merge(turns, EventTurn(run, i)) ELSE turns
    ELSE IF IsHumanUnit(run.frames[i]) \/ run.frames[i].is = "approval"
         THEN MergeLegacy(turns, SpokenTurn(run, i)) ELSE turns

Told(run, turns, n) == Through(LAMBDA ts, i : Tell(run, ts, i), turns, n)

AddRun(turns, run) ==
    Told(run, turns, Len(run.frames)) \o IF Explicit(run) THEN <<>> ELSE LegacyResponse(run)

\* The turns of the first n runs.
Transcript(runs, n) == Through(LAMBDA turns, r : AddRun(turns, runs[r]), <<>>, n)

-----------------------------------------------------------------------------
(* Exchanges, windows, episodes. *)

PairUp(turns, s, i) ==
    IF ~turns[i].visible THEN [s EXCEPT !.pending = 0]
    ELSE IF s.pending # 0 /\ turns[s.pending].actor # turns[i].actor
    THEN [pending |-> 0, pairs |-> Append(s.pairs, <<s.pending, i>>)]
    ELSE [s EXCEPT !.pending = i]

\* An exchange is the pair of its turns, who initiated it first.
Scan(turns, n) ==
    Through(LAMBDA s, i : PairUp(turns, s, i), [pending |-> 0, pairs |-> <<>>], n)

Exchanges(turns) == Scan(turns, Len(turns)).pairs

HumanTurn(turns, exchange) ==
    IF turns[exchange[1]].actor = "human" THEN exchange[1] ELSE exchange[2]

\* Complete windows only, as inclusive pairs of exchange indices.
Windows(n) ==
    [w \in 1 .. n \div WindowSize |-> <<(w - 1) * WindowSize + 1, w * WindowSize>>]

\* Mutant of Closure: the last such exchange.
LastClosure(turns, exchanges, correction) ==
    SelectLastInSeq(exchanges, LAMBDA ex :
        /\ HumanTurn(turns, ex) > correction
        /\ turns[HumanTurn(turns, ex)].role # "correction")

\* The first later exchange whose human turn does not correct again.
Closure(turns, exchanges, correction) ==
    SelectInSeq(exchanges, LAMBDA ex :
        /\ HumanTurn(turns, ex) > correction
        /\ turns[HumanTurn(turns, ex)].role # "correction")

IsCorrection(t) == t.visible /\ t.actor = "human" /\ t.role = "correction"

Episodes(turns, exchanges) ==
    LET at == InOrder({i \in DOMAIN turns : IsCorrection(turns[i])})
    IN  [k \in DOMAIN at |->
            [turn |-> at[k], closed |-> Closure(turns, exchanges, at[k])]]

-----------------------------------------------------------------------------
(* What the machine did to itself is counted apart. *)

Number(run, what) == Cardinality({i \in DOMAIN run.frames : run.frames[i].is = what})

CarriesFeedback(run) ==
    \/ run.kind = "retry"
    \/ \E i \in DOMAIN run.frames :
          LET f == run.frames[i] IN f.is = "unit" /\ ~f.human /\ f.role = "correction"

Reviewed(run) ==
    \E i \in DOMAIN run.frames :
        LET f == run.frames[i]
        IN  f.is = "boundary" /\ f.role = "verified_response" /\ f.visibility = "delivered"

Internal(runs) ==
    LET OverRuns(what) == Total([r \in DOMAIN runs |-> Number(runs[r], what)], Len(runs))
    IN  [runs |-> Len(runs),
         retries |-> Cardinality({r \in DOMAIN runs : CarriesFeedback(runs[r])}),
         failures |-> OverRuns("failure"), repairs |-> OverRuns("repair"),
         unreviewed |-> Cardinality({r \in DOMAIN runs : ~Reviewed(runs[r])})]

Project(runs) ==
    LET turns == Transcript(runs, Len(runs))
        exchanges == Exchanges(turns)
    IN  [turns |-> turns, exchanges |-> exchanges,
         windows |-> Windows(Len(exchanges)),
         trailing |-> Len(exchanges) % WindowSize,
         episodes |-> Episodes(turns, exchanges),
         internal |-> Internal(runs)]
=============================================================================
