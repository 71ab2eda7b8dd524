---------------------------- MODULE TokenReserve ----------------------------
(***************************************************************************)
(* The token budget of one turn, from the adapter that talks to providers  *)
(* (graffy-providers lib.rs) to the retry loop (main.rs): bindings and     *)
(* output limits come from the environment; before each call the adapter   *)
(* sets aside what the prompt may cost and bounds the answer by what is    *)
(* left; the executor adds up what each call reports, and the retry loop   *)
(* what each run reports.  Providers may charge and report anything: the   *)
(* estimate is no bound on a prompt's tokens, and usage can be missing.    *)
(* billed, unreported and beyond only measure what they do.                *)
(***************************************************************************)
EXTENDS Naturals

CONSTANTS
    Tiers,
    DefaultLimit,    \* DEFAULT_MAX_OUTPUT_TOKENS
    Framing,         \* what is set aside for a message besides its bytes
    Sizes,           \* the sizes of a prompt, in bytes
    Caps,            \* the turn's max_tokens: sets of at most one number
    Settings,        \* what GRAFFY_MAX_OUTPUT_TOKENS_<TIER> can hold
    Amounts,         \* tokens, input and output, a provider can charge or report
    MaxAttempts,     \* runs of a turn
    MaxCalls         \* bound on the calls of a run

ASSUME SizesAssumption == Sizes \subseteq Nat /\ Framing \in Nat
ASSUME DefaultAssumption == DefaultLimit \in Nat \ {0}
ASSUME CapsAssumption == \A c \in Caps : c \subseteq Nat /\ \A a, b \in c : a = b
ASSUME SettingsAssumption == \A s \in Settings : s \in [set : BOOLEAN, value : Nat]
ASSUME AmountsAssumption == Amounts \subseteq Nat
ASSUME BoundsAssumption == MaxAttempts \in Nat /\ MaxCalls \in Nat

VARIABLES
    pc,              \* "env", "between", "running", "calling", "ended"
    limits,          \* the output limit of each bound tier
    cap,             \* the turn's token budget, empty for none
    attempts, calls,
    turnSpent,       \* tokens_spent of run_graph
    runSpent,        \* input_tokens + output_tokens of the executor
    request,         \* the call in flight: its tier, reserve and max_tokens
    billed,          \* what the calls of the turn were charged
    unreported,      \* of that, what calls that returned did not report
    beyond           \* what the last call was charged beyond reserve and max_tokens

measures == <<billed, unreported, beyond>>
vars == <<pc, limits, cap, attempts, calls, turnSpent, runSpent, request, measures>>

Init ==
    /\ pc = "env" /\ limits = [t \in {} |-> 0] /\ cap \in Caps
    /\ attempts = 0 /\ calls = 0 /\ turnSpent = 0 /\ runSpent = 0
    /\ request = [tier |-> "none", reserve |-> 0, max |-> 0]
    /\ billed = 0 /\ unreported = 0 /\ beyond = 0

-----------------------------------------------------------------------------
(* The environment.  A binding that is malformed or names an unknown       *)
(* provider binds nothing; an output limit must be a positive number, and  *)
(* the provider of each binding needs its credentials.                     *)

ParseOutputLimit(setting) == IF setting.set THEN setting.value ELSE DefaultLimit

BindingsFromEnv(bindings) == {t \in Tiers : bindings[t] = "provider:model"}

FromEnv ==
    \E bindings \in [Tiers -> {"absent", "malformed", "unknown", "provider:model"}],
       settings \in [Tiers -> Settings], credentials \in SUBSET Tiers :
        LET bound == BindingsFromEnv(bindings)
            limit == [t \in bound |-> ParseOutputLimit(settings[t])]
            usable == bound # {} /\ \A t \in bound : limit[t] > 0 /\ t \in credentials
        IN  /\ pc = "env"
            /\ pc' = IF usable THEN "between" ELSE "ended"
            /\ limits' = IF usable THEN limit ELSE limits
            /\ UNCHANGED <<cap, attempts, calls, turnSpent, runSpent, request, measures>>

(***************************************************************************)
(* What an allowance leaves.                                               *)
(***************************************************************************)
Minus(a, b) == IF a > b THEN a - b ELSE 0
Lesser(a, b) == IF a <= b THEN a ELSE b

RunCap == {Minus(c, turnSpent) : c \in cap}
Remaining == {Minus(c, runSpent) : c \in RunCap}

InputReserve(size) == size + Framing

NoRoom(size) == \E r \in Remaining : r <= InputReserve(size)

\* Mutant: what the prompt may cost is not taken off.
WholeAllowance(limit, size) ==
    CHOOSE m \in {limit} \cup Remaining : \A r \in {limit} \cup Remaining : m <= r

OutputTokenLimit(limit, size) ==
    IF Remaining = {} THEN limit
    ELSE Lesser(limit, (CHOOSE r \in Remaining : TRUE) - InputReserve(size))

-----------------------------------------------------------------------------
(* run_graph and the executor. *)

BudgetIsGone == \E c \in RunCap : c = 0

StartRun ==
    /\ pc = "between" /\ attempts < MaxAttempts
    /\ pc' = IF BudgetIsGone THEN "ended" ELSE "running"
    /\ attempts' = attempts + 1 /\ calls' = 0 /\ runSpent' = 0
    /\ UNCHANGED <<limits, cap, turnSpent, request, measures>>

\* A node calls: an unbound tier is an error of the run, a prompt the
\* allowance has no room for ends it as exhausted.
Call(tier, size) ==
    /\ pc = "running" /\ calls < MaxCalls
    /\ calls' = calls + 1
    /\ IF tier \in DOMAIN limits /\ ~NoRoom(size)
       THEN /\ pc' = "calling"
            /\ request' = [tier |-> tier, reserve |-> InputReserve(size),
                           max |-> OutputTokenLimit(limits[tier], size)]
       ELSE pc' = "ended" /\ UNCHANGED request
    /\ UNCHANGED <<limits, cap, attempts, turnSpent, runSpent, measures>>

\* A provider charges for the call what it likes.
Charge(amount) ==
    /\ billed' = billed + amount
    /\ beyond' = Minus(amount, request.reserve + request.max)

AddCall(usage) == runSpent' = runSpent + usage

\* Mutant of Exceeded: only calling is refused, a run that overshot may still fail and be
\* retried, or go on without calls.
NeverExceeded(spent) == FALSE

\* After a node the executor ends a run that reported more than it was given.
Exceeded(spent) == \E c \in RunCap : spent > c

\* An answer: it reports its usage, which may be less than the charge, zero
\* where a provider returns none, or more.
Returns(amount, usage) ==
    /\ pc = "calling"
    /\ pc' = IF Exceeded(runSpent + usage) THEN "ended" ELSE "running"
    /\ Charge(amount)
    /\ AddCall(usage)
    /\ unreported' = unreported + Minus(amount, usage)
    /\ UNCHANGED <<limits, cap, attempts, calls, turnSpent, request>>

\* The answer has no text, the provider reports an error, or the call is
\* dropped by cancellation or the deadline: charged, but not even counted as
\* unreported.  The turn ends.
Loses(amount) ==
    /\ pc = "calling" /\ pc' = "ended"
    /\ Charge(amount)
    /\ UNCHANGED <<limits, cap, attempts, calls, turnSpent, runSpent, request, unreported>>

AddRun == turnSpent' = turnSpent + runSpent

EndRun ==
    /\ pc = "running" /\ pc' \in {"between", "ended"}
    /\ AddRun
    /\ runSpent' = 0
    /\ UNCHANGED <<limits, cap, attempts, calls, request, measures>>

Next ==
    \/ FromEnv \/ StartRun \/ EndRun
    \/ \E tier \in Tiers, size \in Sizes : Call(tier, size)
    \/ \E amount, usage \in Amounts : Returns(amount, usage)
    \/ \E amount \in Amounts : Loses(amount)

Spec == Init /\ [][Next]_vars

-----------------------------------------------------------------------------
\* Whatever providers charge and report, a turn is charged beyond its budget by
\* no more than what its answers did not report and what one call, the last,
\* cost beyond what was set aside for it; a lost call's cost is within that too
\* (output_token_limit, the executor's accounting and run_graph's together).
BilledWithinCap == \A c \in cap : billed <= c + unreported + beyond

\* A call is made only where its reserve and its max_tokens still fit into the
\* turn's budget, next to what all calls of all runs have reported.
CallFits ==
    pc = "calling" =>
        \A c \in cap : turnSpent + runSpent + request.reserve + request.max <= c

\* A turn whose calls reported more than its budget is over: no further call,
\* no retry.
OverspentIsOver ==
    pc # "ended" => \A c \in cap : turnSpent + runSpent <= c

\* A call asks for at least one token and at most what its tier is limited to.
LimitIsUsable ==
    pc = "calling" =>
        /\ request.tier \in DOMAIN limits
        /\ request.max \in 1 .. limits[request.tier]

\* While the turn can still call, what was charged is in its sums or was not
\* reported: nothing gets lost between calls and runs.
NothingIsForgotten ==
    pc # "ended" => billed <= turnSpent + runSpent + unreported

\* A turn's budget bounds what it asks for, ends it once overspent, and is
\* overrun only by what providers hide and by one call's excess.
BudgetHolds ==
    BilledWithinCap /\ CallFits /\ OverspentIsOver /\ LimitIsUsable /\ NothingIsForgotten
=============================================================================
