---------------------------- MODULE ReserveProofs ----------------------------
(***************************************************************************)
(* What a turn's token budget is worth: proved for every budget, every     *)
(* output limit, every reserve for framing, any number of runs, calls and  *)
(* sizes of prompts, and whatever providers charge and report.             *)
(***************************************************************************)
EXTENDS TokenReserve, TLAPS

Typed ==
    /\ pc \in {"env", "between", "running", "calling", "ended"}
    /\ DOMAIN limits \subseteq Tiers
    /\ \A t \in DOMAIN limits : limits[t] \in Nat \ {0}
    /\ cap \in Caps
    /\ turnSpent \in Nat /\ runSpent \in Nat
    /\ billed \in Nat /\ unreported \in Nat /\ beyond \in Nat
    /\ request.reserve \in Nat /\ request.max \in Nat

\* Between runs the executor's sum starts afresh; before the first call
\* nothing is charged.
Fresh ==
    /\ pc = "env" => turnSpent = 0
    /\ pc \in {"env", "between"} => runSpent = 0

ReserveInv ==
    /\ Typed /\ Fresh /\ BilledWithinCap /\ CallFits /\ OverspentIsOver
    /\ LimitIsUsable /\ NothingIsForgotten

-----------------------------------------------------------------------------
\* What remains of a budget is that much less than the budget.
LEMMA MinusTwice ==
    ASSUME NEW k \in Nat, NEW a \in Nat, NEW b \in Nat
    PROVE  /\ Minus(Minus(k, a), b) \in Nat
           /\ Minus(Minus(k, a), b) > 0 => a + b + Minus(Minus(k, a), b) = k
BY DEF Minus

\* The limit of a call: positive, within the tier's, and with the reserve
\* within what the budget has left.
LEMMA LimitFits ==
    ASSUME cap \in Caps, turnSpent \in Nat, runSpent \in Nat,
           NEW limit \in Nat \ {0}, NEW size \in Sizes, ~NoRoom(size)
    PROVE  /\ InputReserve(size) \in Nat
           /\ OutputTokenLimit(limit, size) \in 1 .. limit
           /\ \A c \in cap : turnSpent + runSpent + InputReserve(size)
                               + OutputTokenLimit(limit, size) <= c
<1>1. InputReserve(size) \in Nat
  BY SizesAssumption DEF InputReserve
<1>2. CASE cap = {}
  <2>1. Remaining = {}
    BY <1>2 DEF Remaining, RunCap
  <2>2. OutputTokenLimit(limit, size) = limit
    BY <2>1 DEF OutputTokenLimit
  <2> QED BY <1>1, <1>2, <2>2
<1>3. CASE cap # {}
  <2>1. PICK k \in Nat : cap = {k}
    BY <1>3, CapsAssumption
  <2> DEFINE r == Minus(Minus(k, turnSpent), runSpent)
  <2>2. Remaining = {r}
    BY <2>1 DEF Remaining, RunCap
  <2>3. r \in Nat /\ (r > 0 => turnSpent + runSpent + r = k)
    BY MinusTwice
  <2> HIDE DEF r
  <2>4. r > InputReserve(size)
    BY <1>1, <2>2, <2>3 DEF NoRoom
  <2>5. OutputTokenLimit(limit, size) = Lesser(limit, r - InputReserve(size))
    BY <2>2 DEF OutputTokenLimit
  <2>6. /\ OutputTokenLimit(limit, size) \in 1 .. limit
        /\ OutputTokenLimit(limit, size) <= r - InputReserve(size)
    BY <1>1, <2>3, <2>4, <2>5 DEF Lesser
  <2> QED BY <1>1, <2>1, <2>3, <2>4, <2>6
<1> QED BY <1>2, <1>3

\* Usable settings give each bound tier a positive limit.
LEMMA LimitsArePositive ==
    ASSUME Typed, FromEnv
    PROVE  /\ DOMAIN limits' \subseteq Tiers
           /\ \A t \in DOMAIN limits' : limits'[t] \in Nat \ {0}
<1>1. PICK bindings \in [Tiers -> {"absent", "malformed", "unknown", "provider:model"}],
           settings \in [Tiers -> Settings], credentials \in SUBSET Tiers :
        LET bound == BindingsFromEnv(bindings)
            limit == [t \in bound |-> ParseOutputLimit(settings[t])]
            usable == bound # {} /\ \A t \in bound : limit[t] > 0 /\ t \in credentials
        IN  limits' = IF usable THEN limit ELSE limits
  BY DEF FromEnv
<1> DEFINE bound == BindingsFromEnv(bindings)
           limit == [t \in bound |-> ParseOutputLimit(settings[t])]
           usable == bound # {} /\ \A t \in bound : limit[t] > 0 /\ t \in credentials
<1>2. bound \subseteq Tiers
  BY DEF BindingsFromEnv
<1>3. \A t \in bound : ParseOutputLimit(settings[t]) \in Nat
  BY <1>2, SettingsAssumption, DefaultAssumption DEF ParseOutputLimit
<1>4. CASE usable
  <2>1. limits' = limit
    BY <1>1, <1>4
  <2>2. \A t \in bound : limit[t] \in Nat \ {0}
    BY <1>3, <1>4
  <2> QED BY <1>2, <2>1, <2>2
<1>5. CASE ~usable
  BY <1>1, <1>5 DEF Typed
<1> QED BY <1>4, <1>5

\* A charge is at most what was set aside and what it went beyond that.
LEMMA ChargeFits ==
    ASSUME Typed, NEW amount \in Nat, Charge(amount)
    PROVE  /\ billed' = billed + amount
           /\ beyond' \in Nat
           /\ amount <= request.reserve + request.max + beyond'
BY DEF Typed, Charge, Minus

LEMMA InitReserve == Init => ReserveInv
<1> SUFFICES ASSUME Init PROVE ReserveInv
  OBVIOUS
<1>1. \A c \in cap : c \in Nat
  BY CapsAssumption DEF Init
<1> QED
  BY <1>1 DEF Init, ReserveInv, Typed, Fresh, BilledWithinCap, CallFits, OverspentIsOver,
              LimitIsUsable, NothingIsForgotten

LEMMA NextReserve == ReserveInv /\ [Next]_vars => ReserveInv'
<1> SUFFICES ASSUME ReserveInv, [Next]_vars PROVE ReserveInv'
  OBVIOUS
<1> USE DEF ReserveInv, Fresh, BilledWithinCap, CallFits, OverspentIsOver,
            LimitIsUsable, NothingIsForgotten, measures
<1>0. \A c \in cap : c \in Nat
  BY CapsAssumption DEF Typed
<1>1. CASE FromEnv
  <2>1. /\ pc = "env" /\ pc' \in {"between", "ended"}
        /\ UNCHANGED <<cap, turnSpent, runSpent, request, measures>>
    BY <1>1 DEF FromEnv
  <2>2. Typed'
    BY <1>1, <2>1, LimitsArePositive DEF Typed
  <2> QED BY <2>1, <2>2 DEF Typed
<1>2. CASE StartRun
  BY <1>2 DEF StartRun, Typed
<1>3. CASE EndRun
  BY <1>3 DEF EndRun, AddRun, Typed
<1>4. ASSUME NEW tier \in Tiers, NEW size \in Sizes, Call(tier, size) PROVE ReserveInv'
  <2>1. CASE tier \in DOMAIN limits /\ ~NoRoom(size)
    <3>1. limits[tier] \in Nat \ {0}
      BY <2>1 DEF Typed
    <3>2. /\ InputReserve(size) \in Nat
          /\ OutputTokenLimit(limits[tier], size) \in 1 .. limits[tier]
          /\ \A c \in cap : turnSpent + runSpent + InputReserve(size)
                              + OutputTokenLimit(limits[tier], size) <= c
      BY <2>1, <3>1, LimitFits DEF Typed
    <3>3. /\ pc = "running" /\ pc' = "calling"
          /\ request'.tier = tier /\ request'.reserve = InputReserve(size)
          /\ request'.max = OutputTokenLimit(limits[tier], size)
          /\ UNCHANGED <<limits, cap, turnSpent, runSpent, measures>>
      BY <1>4, <2>1 DEF Call
    <3> QED BY <2>1, <3>1, <3>2, <3>3 DEF Typed
  <2>2. CASE ~(tier \in DOMAIN limits /\ ~NoRoom(size))
    BY <1>4, <2>2 DEF Call, Typed
  <2> QED BY <2>1, <2>2
<1>5. ASSUME NEW amount \in Amounts, NEW usage \in Amounts, Returns(amount, usage)
      PROVE  ReserveInv'
  <2>1. /\ pc = "calling"
        /\ amount \in Nat /\ usage \in Nat
        /\ runSpent' = runSpent + usage
        /\ unreported' = unreported + Minus(amount, usage)
        /\ UNCHANGED <<limits, cap, turnSpent, request>>
    BY <1>5, AmountsAssumption DEF Returns, AddCall
  <2>2. /\ amount <= usage + Minus(amount, usage)
        /\ Minus(amount, usage) \in Nat
    BY <2>1 DEF Minus
  <2>3. /\ billed' = billed + amount
        /\ beyond' \in Nat
        /\ amount <= request.reserve + request.max + beyond'
    BY <1>5, <2>1, ChargeFits DEF Returns
  <2>4. CASE Exceeded(runSpent + usage)
    <3>1. pc' = "ended"
      BY <1>5, <2>4 DEF Returns
    <3> QED BY <1>0, <2>1, <2>2, <2>3, <3>1 DEF Typed
  <2>5. CASE ~Exceeded(runSpent + usage)
    <3>1. pc' = "running"
      BY <1>5, <2>5 DEF Returns
    <3>2. \A c \in cap : runSpent + usage <= Minus(c, turnSpent)
      BY <2>5, <1>0, <2>1 DEF Exceeded, RunCap, Typed, Minus
    <3>3. \A c \in cap : turnSpent <= c
      BY <1>0, <2>1 DEF Typed
    <3>4. \A c \in cap : turnSpent + (runSpent + usage) <= c
      BY <1>0, <2>1, <3>2, <3>3 DEF Minus, Typed
    <3> QED BY <1>0, <2>1, <2>2, <2>3, <3>1, <3>4 DEF Typed
  <2> QED BY <2>4, <2>5
<1>6. ASSUME NEW amount \in Amounts, Loses(amount) PROVE ReserveInv'
  <2>1. /\ pc = "calling" /\ pc' = "ended"
        /\ amount \in Nat
        /\ UNCHANGED <<limits, cap, turnSpent, runSpent, request, unreported>>
    BY <1>6, AmountsAssumption DEF Loses
  <2>2. /\ billed' = billed + amount
        /\ beyond' \in Nat
        /\ amount <= request.reserve + request.max + beyond'
    BY <1>6, <2>1, ChargeFits DEF Loses
  <2> QED BY <1>0, <2>1, <2>2 DEF Typed
<1>7. CASE UNCHANGED vars
  BY <1>7 DEF vars, Typed
<1> QED BY <1>1, <1>2, <1>3, <1>4, <1>5, <1>6, <1>7 DEF Next

\* Whatever providers charge and report, a turn overruns its budget at most by
\* what they do not report and by one call's excess over what was set aside.
THEOREM TurnIsWithinCap == Spec => []BilledWithinCap
<1>1. ReserveInv => BilledWithinCap
  BY DEF ReserveInv
<1> QED BY <1>1, InitReserve, NextReserve, PTL DEF Spec

\* No call asks for more than the turn's budget has left after every report.
THEOREM CallsFit == Spec => []CallFits
<1>1. ReserveInv => CallFits
  BY DEF ReserveInv
<1> QED BY <1>1, InitReserve, NextReserve, PTL DEF Spec

\* A turn that reported more than its budget makes no further call or run.
THEOREM OverspentTurnsEnd == Spec => []OverspentIsOver
<1>1. ReserveInv => OverspentIsOver
  BY DEF ReserveInv
<1> QED BY <1>1, InitReserve, NextReserve, PTL DEF Spec

\* Every call asks for a positive number of tokens within its tier's limit.
THEOREM CallsAreUsable == Spec => []LimitIsUsable
<1>1. ReserveInv => LimitIsUsable
  BY DEF ReserveInv
<1> QED BY <1>1, InitReserve, NextReserve, PTL DEF Spec

\* As long as another call can follow, what run_graph and the executor added
\* up covers every charge that was reported.
THEOREM AccountIsWhole == Spec => []NothingIsForgotten
<1>1. ReserveInv => NothingIsForgotten
  BY DEF ReserveInv
<1> QED BY <1>1, InitReserve, NextReserve, PTL DEF Spec

\* All of it, for providers that charge and report anything: what a call may
\* ask for, when a turn is over, and by how much its charges can exceed its budget.
THEOREM BudgetIsKept == Spec => []BudgetHolds
<1> QED BY TurnIsWithinCap, CallsFit, OverspentTurnsEnd, CallsAreUsable, AccountIsWhole, PTL
    DEF BudgetHolds
=============================================================================
