------------------------------ MODULE MCTurns ------------------------------
(***************************************************************************)
(* Terminals and budgets for model checking Turns.                         *)
(***************************************************************************)
EXTENDS Turns, TLC

CONSTANTS t1, t2

TwoTerminals == {t1, t2}
OneTerminal == {t1}
Symmetric == Permutations(TwoTerminals)

Once == {1}
Thrice == {3}
OnceOrTwice == {1, 2}
InRunsDir == {FALSE}
Anywhere == BOOLEAN
NoCap == {}
Three == {3}

(***************************************************************************)
(* To see two terminals continue one session at once within bounds, start  *)
(* where a first turn of that session has left its journal, in any of the  *)
(* states a turn leaves behind: confirmed, shown but unconfirmed, torn,    *)
(* cut off before its end, failed.                                         *)
(***************************************************************************)
FirstTurn(frames, torn, indexed) ==
    <<[session |-> 1, group |-> 1, attempt |-> 1, retryOf |-> 0, feedback |-> 0,
       context |-> {}, found |-> {}, known |-> {}, frames |-> frames, torn |-> torn,
       spent |-> 0, listed |-> TRUE, indexed |-> indexed]>>

Answered == <<"started", "released", "succeeded">>
LeftBehind ==
    {FirstTurn(Append(Answered, "delivered"), FALSE, indexed) : indexed \in BOOLEAN}
        \cup {FirstTurn(Answered, torn, FALSE) : torn \in BOOLEAN}
        \cup {FirstTurn(<<"started", "released">>, FALSE, FALSE),
              FirstTurn(<<"started", "failure", "failed">>, FALSE, TRUE)}

LaterInit ==
    /\ files \in LeftBehind
    /\ shown = IF Has(files[1].frames, "succeeded") THEN <<1>> ELSE <<>>
    /\ pc = [t \in Terminals |-> "idle"] /\ turn = [t \in Terminals |-> Idle]
LaterSpec == LaterInit /\ [][Next]_vars
=============================================================================
