---------------------------- MODULE RunContract ----------------------------
(***************************************************************************)
(* What one run promises to those who read its journal and pay for it: the *)
(* abstract specification that the Executor implements and that the runs   *)
(* of the Turns module behave by.                                          *)
(***************************************************************************)
EXTENDS RunLog

VARIABLES
    frames,      \* the journal, as its readers see it
    result,      \* what the caller was handed: nothing yet, an outcome, an error
    allowance,   \* the token cap the run was given (a set, empty for none)
    spent        \* tokens spent so far

contract == <<frames, result, allowance, spent>>

Init ==
    /\ frames = <<>> /\ result = "none"
    /\ spent = 0

\* A run only appends to its journal.  It hands over an outcome once the
\* journal has its end, and an error only if nothing was released.
Step ==
    /\ result = "none" /\ result' \in {"none", "ok", "error"}
    /\ IsPrefix(frames, frames') /\ Sound(frames')
    /\ result' = "ok" => Ended(frames')
    /\ result' = "error" => ~Has(frames', "released")
    /\ spent' >= spent /\ OvershootsByOneCall(allowance, spent')
    /\ UNCHANGED allowance

Spec == Init /\ [][Step]_contract
=============================================================================
