----------------------------- MODULE MCExecutor -----------------------------
(***************************************************************************)
(* Plans and costs for model checking the Executor.                        *)
(***************************************************************************)
EXTENDS ExecutorContract, ShippedGraphs

Cheap == {[tokens |-> 1, usd |-> 0]}
Mixed == {[tokens |-> 1, usd |-> 0], [tokens |-> 3, usd |-> 1]}

Tokens(p, c) == [p EXCEPT !.cap["tokens"] = {c}]
Usd(p, c) == [p EXCEPT !.cap["usd"] = {c}]
Timed(p) == [p EXCEPT !.deadline = TRUE, !.seconds = TRUE]
LastAttempt(p) == [p EXCEPT !.deadline = TRUE]

(* The graphs as shipped, on a first attempt and on a retry that carries a *)
(* critique, a prior turn and what is left of a turn's time.               *)
Shipped ==
    {Timed(Conversation), Timed(GatedConversation),
     [LastAttempt(Conversation) EXCEPT !.feedback = 1, !.history = 1],
     EffectorFacade(2), ReaderFacade(3)}

(* The same on budgets they can meet, exactly or not.                      *)
Tight ==
    {Timed(Tokens(Conversation, c)) : c \in 1 .. 6}
        \cup {Usd(Conversation, 1), Tokens(EffectorFacade(1), 3),
              Usd(Tokens(ReaderFacade(2), 5), 1)}

(* Lawful graphs of a user's own: a second draft after the review, an      *)
(* answer prepared while its review is pending, no intake to ground the    *)
(* draft, a policy that halts, a handler that speaks for nobody, a guard   *)
(* that does not parse, a kind that does not exist, a tool nobody serves,  *)
(* a graph that is all cycle.                                              *)
TwoDrafts ==
    Sketch(<<"intake", "model", "verify", "model", "respond">>,
           <<Then(2), Then(3), If("verdict", "pass", 4) \o If("verdict", "revise", 2),
             Then(5), <<>>>>)
EarlyAnswer ==
    Sketch(<<"intake", "model", "verify", "respond">>,
           <<Then(2), Then(3) \o Then(4), If("verdict", "revise", 2), <<>>>>)
Ungrounded ==
    Sketch(<<"model", "verify", "respond">>,
           <<Then(2), If("verdict", "pass", 3) \o If("verdict", "revise", 1), <<>>>>)
Malformed ==
    [Conversation EXCEPT !.succ[4][2].when = <<[op |-> "malformed", fact |-> "", lit |-> ""]>>]
Loop ==
    Sketch(<<"model", "verify">>, <<Then(2), If("verdict", "revise", 1)>>)
Compound ==
    [Conversation EXCEPT !.succ[4][1].when =
        <<[op |-> "ne", fact |-> "verdict", lit |-> "revise"],
          [op |-> "bare", fact |-> "grounded", lit |-> ""]>>]
Custom ==
    {TwoDrafts, EarlyAnswer, Ungrounded, Malformed, Compound, Timed(Loop),
     [Conversation EXCEPT !.quality = "halt"],
     [LastAttempt(GatedConversation) EXCEPT !.human = FALSE],
     [Conversation EXCEPT !.kind[2] = "unknown"],
     [ReaderFacade(1) EXCEPT !.tools = FALSE],
     [Conversation EXCEPT !.succ[2] = Then(2)]}

(* Every graph made of an intake, two drafts, a judge and a respond node   *)
(* with any of five further edges between them.                            *)
Wired(f) ==
    LET opt(i, e) == IF f[i] THEN e ELSE <<>>
    IN  Sketch(<<"intake", "model", "verify", "model", "respond">>,
               <<Then(2),
                 Then(3) \o opt(1, Then(5)) \o opt(2, Then(4)),
                 If("verdict", "pass", 5) \o If("verdict", "revise", 2)
                     \o opt(3, If("verdict", "pass", 4)),
                 opt(4, Then(3)) \o opt(5, Then(5)), <<>>>>)
Wirings == {Wired(f) : f \in [1 .. 5 -> BOOLEAN]}

(* Graphs on which the code and what is said of it part: arguments         *)
(* prepared on another branch while an approved call waits its turn, a     *)
(* graph whose every node has a guarded way in, a model node that writes   *)
(* in the role of a response.                                              *)
Branching ==
    {[Sketch(<<"intake", "model", "approval", "tool.invoke", "research", "model", "respond">>,
             <<Then(2) \o Then(5), Then(3), If("approval", "approved", 4), Then(7),
               Then(6), <<>>, <<>>>>)
      EXCEPT !.role[2] = "tool-args", !.role[6] = "tool-args", !.tools = TRUE]}
AllGuarded ==
    {Sketch(<<"model", "verify", "respond">>,
            <<Then(2), If("verdict", "revise", 1) \o If("verdict", "pass", 3), <<>>>>)}
SecondVoice ==
    {[Sketch(<<"intake", "model", "respond", "model">>,
             <<Then(2), Then(3), Then(4), <<>>>>) EXCEPT !.role[4] = "response"]}
Unusual == Shipped \cup Tight \cup Custom \cup SecondVoice
Usual == Shipped \cup Wirings
JustConversation == {Conversation}

(* What the proofs assume of the shapes of plans holds of the graphs as    *)
(* shipped, and the first of every graph here.                             *)
ASSUME ShapesAssumption ==
    /\ \A p \in Usual \cup Unusual \cup Branching \cup AllGuarded : OneWayToTools(p)
    /\ \A p \in Shipped :
          HasSource(p) /\ NobodyElseAnswers(p) /\ SingleFile(p) /\ ShowsWhatItGates(p)
=============================================================================
