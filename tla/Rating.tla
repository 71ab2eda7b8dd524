------------------------------- MODULE Rating -------------------------------
(***************************************************************************)
(* The rules of a rating session (src/rating.rs): which correction of the  *)
(* proposed segmentation is accepted, and which turns may be cited as      *)
(* evidence for a score.  A correction, called a sheet here, is a file the *)
(* rater writes for one snapshot of the projection; the snapshot stands    *)
(* for its hash.                                                           *)
(***************************************************************************)
EXTENDS Boundary

CONSTANT DriftSpan      \* exchanges from introduction to discovery: three

ASSUME DriftSpanAssumption == DriftSpan \in Nat

Snapshot(p) ==
    [turns |-> p.turns, exchanges |-> p.exchanges, windows |-> p.windows,
     trailing |-> p.trailing, episodes |-> p.episodes]

\* Consecutive elements are ordered by `before'.
Chained(s, before(_, _)) == \A i \in 1 .. Len(s) - 1 : before(s[i], s[i + 1])

\* Mutant of ExchangesHold: pairs may share a turn.
ExchangesOverlap(p, sheet) ==
    /\ \A i \in DOMAIN sheet.exchanges :
          LET a == sheet.exchanges[i][1]
              b == sheet.exchanges[i][2]
          IN  /\ b = a + 1 /\ b <= Len(p.turns)
              /\ p.turns[a].actor # p.turns[b].actor
              /\ p.turns[a].visible /\ p.turns[b].visible
    /\ Chained(sheet.exchanges, LAMBDA x, y : y[1] > x[1])

ExchangesHold(p, sheet) ==
    /\ \A i \in DOMAIN sheet.exchanges :
          LET a == sheet.exchanges[i][1]
              b == sheet.exchanges[i][2]
          IN  /\ b = a + 1 /\ b <= Len(p.turns)
              /\ p.turns[a].actor # p.turns[b].actor
              /\ p.turns[a].visible /\ p.turns[b].visible
    /\ Chained(sheet.exchanges, LAMBDA x, y : y[1] > x[2])

WindowsHold(sheet) ==
    /\ \A i \in DOMAIN sheet.windows :
          LET w == sheet.windows[i]
          IN  w[2] = w[1] + WindowSize - 1 /\ w[2] <= Len(sheet.exchanges)
    /\ Chained(sheet.windows, LAMBDA v, w : w[1] > v[2])

EpisodesHold(p, sheet) ==
    /\ \A i \in DOMAIN sheet.episodes :
          LET e == sheet.episodes[i]
          IN  /\ e.turn \in DOMAIN p.turns
              /\ p.turns[e.turn].actor = "human" /\ p.turns[e.turn].visible
              /\ e.closed # 0 =>
                    /\ e.closed <= Len(sheet.exchanges)
                    /\ sheet.exchanges[e.closed][1] > e.turn
    /\ Chained(sheet.episodes, LAMBDA d, e : e.turn > d.turn)

\* Mutant of Accepts: the hash of the proposal is not compared.
AcceptsAnySnapshot(p, sheet) ==
    ExchangesHold(p, sheet) /\ WindowsHold(sheet) /\ EpisodesHold(p, sheet)

Accepts(p, sheet) ==
    /\ sheet.of = Snapshot(p)
    /\ ExchangesHold(p, sheet) /\ WindowsHold(sheet) /\ EpisodesHold(p, sheet)

Corrected(p, sheet) ==
    [p EXCEPT !.exchanges = sheet.exchanges, !.windows = sheet.windows,
              !.trailing = Len(sheet.exchanges) - Len(sheet.windows) * WindowSize,
              !.episodes = sheet.episodes]

-----------------------------------------------------------------------------
(* Evidence. *)

ExchangeOf(p, turn) == SelectInSeq(p.exchanges, LAMBDA ex : turn \in {ex[1], ex[2]})

Inside(p, turn, window) == ExchangeOf(p, turn) \in window[1] .. window[2]

\* Mutant of DriftIsCited: the discovery may lie anywhere after it.
DriftIsAnywhere(p, cited, window) ==
    /\ Len(cited) = 2 /\ cited[1] < cited[2]
    /\ ExchangeOf(p, cited[1]) # 0 /\ ExchangeOf(p, cited[2]) # 0
    /\ ExchangeOf(p, cited[2]) - ExchangeOf(p, cited[1]) >= DriftSpan

\* Drift: where it was introduced, perhaps before the window, and where it
\* was discovered, in it.
DriftIsCited(p, cited, window) ==
    /\ Len(cited) = 2 /\ cited[1] < cited[2]
    /\ Inside(p, cited[2], window)
    /\ ExchangeOf(p, cited[1]) # 0
    /\ ExchangeOf(p, cited[2]) - ExchangeOf(p, cited[1]) >= DriftSpan

\* Mutant of MayCite: blame may be cited in the words of either party.
MayCiteAnybody(p, cited, window, proxy) ==
    /\ cited # <<>>
    /\ IF proxy = "D" THEN DriftIsCited(p, cited, window)
       ELSE \A i \in DOMAIN cited : Inside(p, cited[i], window)
    /\ \A i \in DOMAIN cited : cited[i] \in DOMAIN p.turns /\ p.turns[cited[i]].visible

MayCite(p, cited, window, proxy) ==
    /\ cited # <<>>
    /\ IF proxy = "D" THEN DriftIsCited(p, cited, window)
       ELSE \A i \in DOMAIN cited : Inside(p, cited[i], window)
    /\ \A i \in DOMAIN cited :
          /\ cited[i] \in DOMAIN p.turns
          /\ p.turns[cited[i]].visible
          /\ proxy = "M" => p.turns[cited[i]].actor = "human"
=============================================================================
