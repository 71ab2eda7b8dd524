--------------------------- MODULE SessionsProofs ---------------------------
(***************************************************************************)
(* Proofs about Sessions.                                                  *)
(***************************************************************************)
EXTENDS Sessions, IndexTheorems

\* The exchanges are found turn by turn.
LEMMA ScanStep ==
    ASSUME NEW N \in Nat, NEW turns, NEW S, [pending |-> 0, pairs |-> <<>>] \in S,
           \A s \in S, i \in 1 .. N : PairUp(turns, s, i) \in S
    PROVE  /\ Scan(turns, 0) = [pending |-> 0, pairs |-> <<>>]
           /\ \A n \in 0 .. N : Scan(turns, n) \in S
           /\ \A n \in 1 .. N : Scan(turns, n) = PairUp(turns, Scan(turns, n - 1), n)
<1>0. PICK e \in S : e = [pending |-> 0, pairs |-> <<>>]
  OBVIOUS
<1> DEFINE step == [p \in S \X (1 .. N) |-> PairUp(turns, p[1], p[2])]
<1>1. IsStep(step, S, N)
  BY DEF IsStep
<1>2. \A s \in S, i \in 1 .. N : step[<<s, i>>] = PairUp(turns, s, i)
  OBVIOUS
<1> HIDE DEF step
<1>3. PICK f : Folded(f, N, S, e, step)
  BY <1>1, FoldExists
<1>4. f[0] = e /\ \A n \in 0 .. N : f[n] \in S
  BY <1>3 DEF Folded
<1>5. \A n \in 1 .. N : f[n] = PairUp(turns, f[n - 1], n) /\ n - 1 \in 0 .. N
  <2>1. \A n \in 1 .. N : n - 1 \in 0 .. N
    OBVIOUS
  <2>2. \A n \in 1 .. N : f[n] = step[<<f[n - 1], n>>]
    BY <1>3 DEF Folded
  <2> QED BY <1>2, <1>4, <2>1, <2>2
<1>6. ASSUME NEW n \in 0 .. N PROVE Scan(turns, n) = f[n]
  <2> DEFINE Eq(s) == s = [i \in 0 .. n |-> IF i = 0 THEN [pending |-> 0, pairs |-> <<>>] ELSE PairUp(turns, s[i - 1], i)]
             g == [i \in 0 .. n |-> f[i]]
  <2>1. Eq(g)
    <3>1. f[0] = [pending |-> 0, pairs |-> <<>>] /\ \A i \in 1 .. n : f[i] = PairUp(turns, f[i - 1], i)
      BY <1>0, <1>4, <1>5
    <3>2. \A i \in 0 .. n : f[i] = IF i = 0 THEN [pending |-> 0, pairs |-> <<>>] ELSE PairUp(turns, g[i - 1], i)
      BY <3>1
    <3> QED BY <3>2
  <2> DEFINE h == CHOOSE s : Eq(s)
  <2>2. Eq(h)
    BY <2>1
  <2>3. Scan(turns, n) = h[n]
    BY DEF Scan, Through
  <2> HIDE DEF h
  <2>4. h[0] = e /\ \A i \in 1 .. n : h[i] = PairUp(turns, h[i - 1], i) /\ i \in 1 .. N
    BY <2>2, <1>0
  <2>5. h[n] = f[n]
    <3>1. \A i \in 1 .. n : h[i - 1] \in S => h[i] = step[<<h[i - 1], i>>]
      BY <2>4, <1>2
    <3>2. Computes(h, n, S, e, step)
      BY <2>4, <3>1 DEF Computes
    <3>3. \A i \in 0 .. n : h[i] = f[i]
      BY <1>1, <1>3, <3>2, FoldUnique
    <3> QED BY <3>3
  <2> HIDE DEF Eq, g
  <2> QED BY <2>3, <2>5
<1>7. Scan(turns, 0) = [pending |-> 0, pairs |-> <<>>]
  <2>1. 0 \in 0 .. N
    OBVIOUS
  <2> QED BY <2>1, <1>6, <1>4, <1>0
<1>8. ASSUME NEW n \in 1 .. N PROVE Scan(turns, n) = PairUp(turns, Scan(turns, n - 1), n)
  <2>1. n - 1 \in 0 .. N /\ n \in 0 .. N
    OBVIOUS
  <2>2. Scan(turns, n) = f[n] /\ Scan(turns, n - 1) = f[n - 1]
    BY <2>1, <1>6
  <2> QED BY <2>2, <1>5
<1> QED BY <1>4, <1>6, <1>7, <1>8

\* A run is told frame by frame,
LEMMA ToldStep ==
    ASSUME NEW N \in Nat, NEW run, NEW turns, NEW S, turns \in S,
           \A s \in S, i \in 1 .. N : Tell(run, s, i) \in S
    PROVE  /\ Told(run, turns, 0) = turns
           /\ \A n \in 0 .. N : Told(run, turns, n) \in S
           /\ \A n \in 1 .. N : Told(run, turns, n) = Tell(run, Told(run, turns, n - 1), n)
<1>0. PICK e \in S : e = turns
  OBVIOUS
<1> DEFINE step == [p \in S \X (1 .. N) |-> Tell(run, p[1], p[2])]
<1>1. IsStep(step, S, N)
  BY DEF IsStep
<1>2. \A s \in S, i \in 1 .. N : step[<<s, i>>] = Tell(run, s, i)
  OBVIOUS
<1> HIDE DEF step
<1>3. PICK f : Folded(f, N, S, e, step)
  BY <1>1, FoldExists
<1>4. f[0] = e /\ \A n \in 0 .. N : f[n] \in S
  BY <1>3 DEF Folded
<1>5. \A n \in 1 .. N : f[n] = Tell(run, f[n - 1], n) /\ n - 1 \in 0 .. N
  <2>1. \A n \in 1 .. N : n - 1 \in 0 .. N
    OBVIOUS
  <2>2. \A n \in 1 .. N : f[n] = step[<<f[n - 1], n>>]
    BY <1>3 DEF Folded
  <2> QED BY <1>2, <1>4, <2>1, <2>2
<1>6. ASSUME NEW n \in 0 .. N PROVE Told(run, turns, n) = f[n]
  <2> DEFINE Eq(s) == s = [i \in 0 .. n |-> IF i = 0 THEN turns ELSE Tell(run, s[i - 1], i)]
             g == [i \in 0 .. n |-> f[i]]
  <2>1. Eq(g)
    <3>1. f[0] = turns /\ \A i \in 1 .. n : f[i] = Tell(run, f[i - 1], i)
      BY <1>0, <1>4, <1>5
    <3>2. \A i \in 0 .. n : f[i] = IF i = 0 THEN turns ELSE Tell(run, g[i - 1], i)
      BY <3>1
    <3> QED BY <3>2
  <2> DEFINE h == CHOOSE s : Eq(s)
  <2>2. Eq(h)
    BY <2>1
  <2>3. Told(run, turns, n) = h[n]
    BY DEF Told, Through
  <2> HIDE DEF h
  <2>4. h[0] = e /\ \A i \in 1 .. n : h[i] = Tell(run, h[i - 1], i) /\ i \in 1 .. N
    BY <2>2, <1>0
  <2>5. h[n] = f[n]
    <3>1. \A i \in 1 .. n : h[i - 1] \in S => h[i] = step[<<h[i - 1], i>>]
      BY <2>4, <1>2
    <3>2. Computes(h, n, S, e, step)
      BY <2>4, <3>1 DEF Computes
    <3>3. \A i \in 0 .. n : h[i] = f[i]
      BY <1>1, <1>3, <3>2, FoldUnique
    <3> QED BY <3>3
  <2> HIDE DEF Eq, g
  <2> QED BY <2>3, <2>5
<1>7. Told(run, turns, 0) = turns
  <2>1. 0 \in 0 .. N
    OBVIOUS
  <2> QED BY <2>1, <1>6, <1>4, <1>0
<1>8. ASSUME NEW n \in 1 .. N PROVE Told(run, turns, n) = Tell(run, Told(run, turns, n - 1), n)
  <2>1. n - 1 \in 0 .. N /\ n \in 0 .. N
    OBVIOUS
  <2>2. Told(run, turns, n) = f[n] /\ Told(run, turns, n - 1) = f[n - 1]
    BY <2>1, <1>6
  <2> QED BY <2>2, <1>5
<1> QED BY <1>4, <1>6, <1>7, <1>8

\* and a session run by run.
LEMMA TranscriptStep ==
    ASSUME NEW N \in Nat, NEW runs, NEW S, <<>> \in S,
           \A s \in S, i \in 1 .. N : AddRun(s, runs[i]) \in S
    PROVE  /\ Transcript(runs, 0) = <<>>
           /\ \A n \in 0 .. N : Transcript(runs, n) \in S
           /\ \A n \in 1 .. N : Transcript(runs, n) = AddRun(Transcript(runs, n - 1), runs[n])
<1>0. PICK e \in S : e = <<>>
  OBVIOUS
<1> DEFINE step == [p \in S \X (1 .. N) |-> AddRun(p[1], runs[p[2]])]
<1>1. IsStep(step, S, N)
  BY DEF IsStep
<1>2. \A s \in S, i \in 1 .. N : step[<<s, i>>] = AddRun(s, runs[i])
  OBVIOUS
<1> HIDE DEF step
<1>3. PICK f : Folded(f, N, S, e, step)
  BY <1>1, FoldExists
<1>4. f[0] = e /\ \A n \in 0 .. N : f[n] \in S
  BY <1>3 DEF Folded
<1>5. \A n \in 1 .. N : f[n] = AddRun(f[n - 1], runs[n]) /\ n - 1 \in 0 .. N
  <2>1. \A n \in 1 .. N : n - 1 \in 0 .. N
    OBVIOUS
  <2>2. \A n \in 1 .. N : f[n] = step[<<f[n - 1], n>>]
    BY <1>3 DEF Folded
  <2> QED BY <1>2, <1>4, <2>1, <2>2
<1>6. ASSUME NEW n \in 0 .. N PROVE Transcript(runs, n) = f[n]
  <2> DEFINE Eq(s) == s = [i \in 0 .. n |-> IF i = 0 THEN <<>> ELSE AddRun(s[i - 1], runs[i])]
             g == [i \in 0 .. n |-> f[i]]
  <2>1. Eq(g)
    <3>1. f[0] = <<>> /\ \A i \in 1 .. n : f[i] = AddRun(f[i - 1], runs[i])
      BY <1>0, <1>4, <1>5
    <3>2. \A i \in 0 .. n : f[i] = IF i = 0 THEN <<>> ELSE AddRun(g[i - 1], runs[i])
      BY <3>1
    <3> QED BY <3>2
  <2> DEFINE h == CHOOSE s : Eq(s)
  <2>2. Eq(h)
    BY <2>1
  <2>3. Transcript(runs, n) = h[n]
    BY DEF Transcript, Through
  <2> HIDE DEF h
  <2>4. h[0] = e /\ \A i \in 1 .. n : h[i] = AddRun(h[i - 1], runs[i]) /\ i \in 1 .. N
    BY <2>2, <1>0
  <2>5. h[n] = f[n]
    <3>1. \A i \in 1 .. n : h[i - 1] \in S => h[i] = step[<<h[i - 1], i>>]
      BY <2>4, <1>2
    <3>2. Computes(h, n, S, e, step)
      BY <2>4, <3>1 DEF Computes
    <3>3. \A i \in 0 .. n : h[i] = f[i]
      BY <1>1, <1>3, <3>2, FoldUnique
    <3> QED BY <3>3
  <2> HIDE DEF Eq, g
  <2> QED BY <2>3, <2>5
<1>7. Transcript(runs, 0) = <<>>
  <2>1. 0 \in 0 .. N
    OBVIOUS
  <2> QED BY <2>1, <1>6, <1>4, <1>0
<1>8. ASSUME NEW n \in 1 .. N PROVE Transcript(runs, n) = AddRun(Transcript(runs, n - 1), runs[n])
  <2>1. n - 1 \in 0 .. N /\ n \in 0 .. N
    OBVIOUS
  <2>2. Transcript(runs, n) = f[n] /\ Transcript(runs, n - 1) = f[n - 1]
    BY <2>1, <1>6
  <2> QED BY <2>2, <1>5
<1> QED BY <1>4, <1>6, <1>7, <1>8

-----------------------------------------------------------------------------
(* Exchanges. *)

\* Pairs of neighbours of both parties that were seen, in order and apart.
Exchanged(turns, pairs, n) ==
    /\ pairs \in Seq((1 .. n) \X (1 .. n))
    /\ \A x \in 1 .. Len(pairs) :
          /\ pairs[x][2] = pairs[x][1] + 1
          /\ turns[pairs[x][1]].visible /\ turns[pairs[x][2]].visible
          /\ turns[pairs[x][1]].actor # turns[pairs[x][2]].actor
    /\ \A x, y \in 1 .. Len(pairs) : x < y => pairs[x][2] < pairs[y][1]

\* Of two such neighbours one is in a pair.
Covered(turns, pairs, n) ==
    \A k \in 1 .. n - 1 :
        turns[k].visible /\ turns[k + 1].visible /\ turns[k].actor # turns[k + 1].actor =>
            \E x \in 1 .. Len(pairs) :
                pairs[x][1] \in {k, k + 1} \/ pairs[x][2] \in {k, k + 1}

\* After n turns: a turn that waits for its other half is the last one, and a
\* last turn that was seen and does not wait is in a pair.
Scanned(turns, s, n) ==
    /\ Exchanged(turns, s.pairs, n)
    /\ Covered(turns, s.pairs, n)
    /\ s.pending \in {0, n}
    /\ s.pending # 0 =>
          turns[n].visible /\ \A x \in 1 .. Len(s.pairs) : s.pairs[x][2] < n
    /\ n # 0 /\ turns[n].visible /\ s.pending = 0 =>
          \E x \in 1 .. Len(s.pairs) : s.pairs[x][2] = n

ScanStates(N) == [pending : 0 .. N, pairs : Seq((1 .. N) \X (1 .. N))]

LEMMA PairUpType ==
    ASSUME NEW N \in Nat, NEW turns
    PROVE  \A s \in ScanStates(N), i \in 1 .. N : PairUp(turns, s, i) \in ScanStates(N)
<1> SUFFICES ASSUME NEW s \in ScanStates(N), NEW i \in 1 .. N
             PROVE  PairUp(turns, s, i) \in ScanStates(N)
  OBVIOUS
<1>1. s.pending \in 0 .. N /\ s.pairs \in Seq((1 .. N) \X (1 .. N))
  BY DEF ScanStates
<1>2. [s EXCEPT !.pending = 0] \in ScanStates(N) /\ [s EXCEPT !.pending = i] \in ScanStates(N)
  BY DEF ScanStates
<1>3. ASSUME s.pending # 0
      PROVE  [pending |-> 0, pairs |-> Append(s.pairs, <<s.pending, i>>)] \in ScanStates(N)
  <2>1. <<s.pending, i>> \in (1 .. N) \X (1 .. N)
    BY <1>1, <1>3
  <2>2. Append(s.pairs, <<s.pending, i>>) \in Seq((1 .. N) \X (1 .. N))
    BY <1>1, <2>1, AppendProperties
  <2> QED BY <2>2 DEF ScanStates
<1> QED BY <1>2, <1>3 DEF PairUp

\* A pair more.
LEMMA ExchangedMore ==
    ASSUME NEW n \in Nat, NEW turns, NEW pairs, Exchanged(turns, pairs, n), n # 0,
           \A x \in 1 .. Len(pairs) : pairs[x][2] < n,
           turns[n].visible, turns[n + 1].visible, turns[n].actor # turns[n + 1].actor
    PROVE  Exchanged(turns, Append(pairs, <<n, n + 1>>), n + 1)
<1> DEFINE m == n + 1
           P == (1 .. m) \X (1 .. m)
           more == Append(pairs, <<n, m>>)
<1>1. pairs \in Seq(P) /\ <<n, m>> \in P
  <2>1. (1 .. n) \X (1 .. n) \subseteq P
    OBVIOUS
  <2>2. pairs \in Seq((1 .. n) \X (1 .. n))
    BY DEF Exchanged
  <2>3. pairs \in Seq(P)
    BY <2>1, <2>2, SeqMonotonic
  <2> QED BY <2>3
<1>2. /\ more \in Seq(P) /\ Len(more) = Len(pairs) + 1 /\ Len(pairs) \in Nat
      /\ \A x \in 1 .. Len(pairs) : more[x] = pairs[x]
      /\ more[Len(pairs) + 1] = <<n, m>>
  BY <1>1
<1> HIDE DEF P, more
<1>3. PICK L \in Nat : L = Len(pairs) /\ Len(more) = L + 1
  BY <1>2
<1>4. /\ \A x \in 1 .. L : pairs[x][2] = pairs[x][1] + 1
            /\ turns[pairs[x][1]].visible /\ turns[pairs[x][2]].visible
            /\ turns[pairs[x][1]].actor # turns[pairs[x][2]].actor
      /\ \A x, y \in 1 .. L : x < y => pairs[x][2] < pairs[y][1]
  BY <1>3 DEF Exchanged
<1>5. \A x \in 1 .. L + 1 : x \in 1 .. L \/ x = L + 1
  OBVIOUS
<1>6. ASSUME NEW x \in 1 .. L + 1
      PROVE  /\ more[x][2] = more[x][1] + 1
             /\ turns[more[x][1]].visible /\ turns[more[x][2]].visible
             /\ turns[more[x][1]].actor # turns[more[x][2]].actor
  <2>1. CASE x \in 1 .. L
    BY <2>1, <1>2, <1>3, <1>4
  <2>2. CASE x = L + 1
    <3>1. more[x] = <<n, m>>
      BY <2>2, <1>2, <1>3
    <3> QED BY <3>1
  <2> QED BY <2>1, <2>2, <1>5
<1>7. ASSUME NEW x \in 1 .. L + 1, NEW y \in 1 .. L + 1, x < y
      PROVE  more[x][2] < more[y][1]
  <2>1. x \in 1 .. L
    BY <1>7
  <2>2. more[x] = pairs[x]
    BY <2>1, <1>2, <1>3
  <2>3. CASE y \in 1 .. L
    BY <2>1, <2>2, <2>3, <1>2, <1>3, <1>4, <1>7
  <2>4. CASE y = L + 1
    <3>1. more[y][1] = n
      BY <2>4, <1>2, <1>3
    <3> QED BY <3>1, <2>1, <2>2, <1>3
  <2> QED BY <2>3, <2>4, <1>5
<1> QED BY <1>2, <1>3, <1>6, <1>7 DEF Exchanged, P, more

\* What was covered stays so when a pair is added.
LEMMA ScanOne ==
    ASSUME NEW n \in Nat, NEW turns, NEW N \in Nat, NEW s \in ScanStates(N), n + 1 \in 1 .. N,
           Scanned(turns, s, n)
    PROVE  Scanned(turns, PairUp(turns, s, n + 1), n + 1)
<1> DEFINE m == n + 1
           t == PairUp(turns, s, m)
<1> SUFFICES Scanned(turns, t, m)
  OBVIOUS
<1>0. s.pending \in 0 .. N /\ s.pairs \in Seq((1 .. n) \X (1 .. n)) /\ Len(s.pairs) \in Nat
  BY DEF ScanStates, Scanned, Exchanged
<1>1. PICK L \in Nat : L = Len(s.pairs)
  BY <1>0
<1>2. /\ s.pending \in {0, n}
      /\ s.pending # 0 => turns[n].visible /\ \A x \in 1 .. L : s.pairs[x][2] < n
      /\ n # 0 /\ turns[n].visible /\ s.pending = 0 => \E x \in 1 .. L : s.pairs[x][2] = n
      /\ \A k \in 1 .. n - 1 :
            turns[k].visible /\ turns[k + 1].visible /\ turns[k].actor # turns[k + 1].actor =>
                \E x \in 1 .. L : s.pairs[x][1] \in {k, k + 1} \/ s.pairs[x][2] \in {k, k + 1}
  BY <1>1 DEF Scanned, Covered
<1>3. \A x \in 1 .. L : s.pairs[x][1] \in 1 .. n /\ s.pairs[x][2] \in 1 .. n
  <2>1. PICK r, Q : r = s.pairs /\ Q = (1 .. n) \X (1 .. n)
    OBVIOUS
  <2>2. \A x \in 1 .. L : r[x] \in Q
    <3>1. r \in Seq(Q) /\ L = Len(r)
      BY <2>1, <1>0, <1>1
    <3> QED BY <3>1
  <2> QED BY <2>1, <2>2
<1>4. Exchanged(turns, s.pairs, m)
  <2>1. (1 .. n) \X (1 .. n) \subseteq (1 .. m) \X (1 .. m)
    OBVIOUS
  <2>2. s.pairs \in Seq((1 .. m) \X (1 .. m))
    BY <2>1, <1>0, SeqMonotonic
  <2> QED BY <2>2 DEF Exchanged, Scanned
<1>5. \A k \in 1 .. m - 1 : k \in 1 .. n - 1 \/ k = n
  OBVIOUS
<1>6. CASE ~turns[m].visible \/ s.pending = 0 \/ turns[s.pending].actor = turns[m].actor
  <2>1. /\ t.pairs = s.pairs /\ t.pending \in {0, m}
        /\ t.pending # 0 => turns[m].visible
        /\ turns[m].visible => t.pending = m
    BY <1>0, <1>6 DEF PairUp, ScanStates
  <2>2. Covered(turns, s.pairs, m)
    <3>1. ASSUME NEW k \in 1 .. m - 1, turns[k].visible, turns[k + 1].visible,
                 turns[k].actor # turns[k + 1].actor
          PROVE  \E x \in 1 .. L : s.pairs[x][1] \in {k, k + 1} \/ s.pairs[x][2] \in {k, k + 1}
      <4>1. CASE k \in 1 .. n - 1
        BY <3>1, <4>1, <1>2
      <4>2. CASE k = n
        <5>1. n # 0 /\ turns[n].visible /\ turns[m].visible /\ turns[n].actor # turns[m].actor
          BY <3>1, <4>2
        <5>2. s.pending = 0
          BY <5>1, <1>2, <1>6
        <5> QED BY <5>1, <5>2, <4>2, <1>2
      <4> QED BY <4>1, <4>2, <1>5
    <3> QED BY <3>1, <1>1 DEF Covered
  <2>3. \A x \in 1 .. L : s.pairs[x][2] < m
    BY <1>3
  <2>4. m # 0
    OBVIOUS
  <2> HIDE DEF t, m
  <2> QED BY <2>1, <2>2, <2>3, <2>4, <1>1, <1>4 DEF Scanned
<1>7. CASE turns[m].visible /\ s.pending # 0 /\ turns[s.pending].actor # turns[m].actor
  <2>1. s.pending = n /\ n # 0
    BY <1>2, <1>7
  <2>2. t = [pending |-> 0, pairs |-> Append(s.pairs, <<n, m>>)]
    BY <2>1, <1>7 DEF PairUp
  <2>3. Exchanged(turns, Append(s.pairs, <<n, m>>), m)
    BY <1>2, <1>7, <2>1, <1>1, ExchangedMore DEF Scanned
  <2>4. PICK more : more = Append(s.pairs, <<n, m>>)
    OBVIOUS
  <2>5. /\ Len(more) = L + 1 /\ L + 1 \in 1 .. L + 1
        /\ \A x \in 1 .. L : more[x] = s.pairs[x] /\ x \in 1 .. L + 1
        /\ more[L + 1] = <<n, m>>
    BY <2>4, <1>0, <1>1
  <2>6. Covered(turns, more, m)
    <3>1. ASSUME NEW k \in 1 .. m - 1, turns[k].visible, turns[k + 1].visible,
                 turns[k].actor # turns[k + 1].actor
          PROVE  \E x \in 1 .. L + 1 : more[x][1] \in {k, k + 1} \/ more[x][2] \in {k, k + 1}
      <4>1. CASE k \in 1 .. n - 1
        <5>1. PICK x \in 1 .. L : s.pairs[x][1] \in {k, k + 1} \/ s.pairs[x][2] \in {k, k + 1}
          BY <3>1, <4>1, <1>2
        <5> QED BY <5>1, <2>5
      <4>2. CASE k = n
        <5>1. more[L + 1][1] = k
          BY <4>2, <2>5
        <5> QED BY <5>1, <2>5
      <4> QED BY <4>1, <4>2, <1>5
    <3> QED BY <3>1, <2>5 DEF Covered
  <2>7. t.pairs = more /\ t.pending = 0
    BY <2>2, <2>4
  <2>8. more[L + 1][2] = m
    BY <2>5
  <2> HIDE DEF t, m
  <2> QED BY <2>3, <2>4, <2>5, <2>6, <2>7, <2>8 DEF Scanned
<1> QED BY <1>6, <1>7

\* So it goes on to the last turn.
LEMMA ScanGood ==
    ASSUME NEW N \in Nat, NEW turns
    PROVE  \A n \in 0 .. N : Scan(turns, n) \in ScanStates(N) /\ Scanned(turns, Scan(turns, n), n)
<1>1. PICK S : S = ScanStates(N)
  OBVIOUS
<1>2. [pending |-> 0, pairs |-> <<>>] \in S
  BY <1>1 DEF ScanStates
<1>3. \A s \in S, i \in 1 .. N : PairUp(turns, s, i) \in S
  BY <1>1, PairUpType
<1>4. /\ Scan(turns, 0) = [pending |-> 0, pairs |-> <<>>]
      /\ \A n \in 0 .. N : Scan(turns, n) \in S
      /\ \A n \in 1 .. N : Scan(turns, n) = PairUp(turns, Scan(turns, n - 1), n)
  BY <1>2, <1>3, ScanStep
<1> DEFINE Bad == {n \in 0 .. N : ~Scanned(turns, Scan(turns, n), n)}
<1>5. Bad = {}
  <2> SUFFICES ASSUME Bad # {} PROVE FALSE
    OBVIOUS
  <2>1. PICK m \in Bad : \A j \in Bad : m <= j
    <3>1. Bad \in SUBSET Nat
      OBVIOUS
    <3> HIDE DEF Bad
    <3> QED BY <3>1, Least
  <2>2. m # 0
    <3>1. Scan(turns, 0).pairs = <<>> /\ Scan(turns, 0).pending = 0
      BY <1>4
    <3>2. Scanned(turns, Scan(turns, 0), 0)
      <4>1. PICK ps, s : ps = <<>> /\ s = Scan(turns, 0)
        OBVIOUS
      <4>2. ps \in Seq((1 .. 0) \X (1 .. 0)) /\ Len(ps) = 0
        BY <4>1
      <4>3. Exchanged(turns, ps, 0) /\ Covered(turns, ps, 0)
        BY <4>2 DEF Exchanged, Covered
      <4>4. Scanned(turns, s, 0)
        BY <3>1, <4>1, <4>3 DEF Scanned
      <4> QED BY <4>1, <4>4
    <3> QED BY <3>2
  <2>3. m \in 1 .. N /\ m - 1 \in 0 .. N /\ m - 1 \notin Bad /\ m - 1 \in Nat /\ (m - 1) + 1 = m
    BY <2>1, <2>2
  <2>4. Scanned(turns, Scan(turns, m - 1), m - 1) /\ Scan(turns, m - 1) \in ScanStates(N)
    BY <2>3, <1>4, <1>1
  <2>5. PICK k, s : k = m - 1 /\ s = Scan(turns, m - 1)
    OBVIOUS
  <2>6. Scanned(turns, PairUp(turns, s, k + 1), k + 1)
    BY <2>3, <2>4, <2>5, ScanOne
  <2>7. Scan(turns, m) = PairUp(turns, s, m) /\ k + 1 = m
    BY <2>3, <2>5, <1>4
  <2>8. Scanned(turns, Scan(turns, m), m)
    BY <2>6, <2>7
  <2> QED BY <2>1, <2>8
<1> QED BY <1>1, <1>4, <1>5

-----------------------------------------------------------------------------
(* Windows and episodes. *)

LEMMA MinOf ==
    ASSUME NEW S \in SUBSET Nat, S # {}
    PROVE  Min(S) \in S /\ \A j \in S : Min(S) <= j
<1>1. \E m \in S : \A j \in S : m <= j
  BY Least
<1> QED BY <1>1 DEF Min

\* Windows of a positive size in n exchanges.
LEMMA Division ==
    ASSUME NEW n \in Nat, NEW W \in Nat \ {0}
    PROVE  n \div W \in Nat /\ n % W \in 0 .. W - 1 /\ n = W * (n \div W) + (n % W)
<1>1. n % W \in 0 .. W - 1
  OBVIOUS
<1>2. n = W * (n \div W) + (n % W)
  OBVIOUS
<1>3. n \div W \in Int
  OBVIOUS
<1>4. n \div W >= 0
  BY <1>1, <1>2, <1>3, SMTT(60)
<1> QED BY <1>1, <1>2, <1>3, <1>4

LEMMA Multiples ==
    ASSUME NEW a \in Nat, NEW b \in Nat, NEW W \in Nat \ {0}, a < b
    PROVE  a * W <= (b - 1) * W /\ a * W \in Nat /\ (b - 1) * W + W = b * W
OBVIOUS

LEMMA WindowInside ==
    ASSUME NEW n \in Nat, NEW W \in Nat \ {0}, NEW w \in 1 .. n \div W
    PROVE  (w - 1) * W + 1 \in 1 .. n /\ w * W \in 1 .. n /\ (w - 1) * W + W = w * W
<1>1. n \div W \in Nat /\ W * (n \div W) <= n
  BY Division
<1>2. PICK q \in Nat : q = n \div W
  BY <1>1
<1>3. w * W <= q * W
  BY <1>2, Multiples
<1> QED BY <1>1, <1>2, <1>3, Multiples

\* The windows of n exchanges lie in them, are whole and apart.
WindowsRight(ws, n) ==
    /\ ws \in Seq((1 .. n) \X (1 .. n)) /\ Len(ws) = n \div WindowSize
    /\ \A v \in 1 .. Len(ws) : ws[v][2] - ws[v][1] = WindowSize - 1
    /\ \A v, w \in 1 .. Len(ws) : v < w => ws[v][2] < ws[w][1]
    /\ \A v \in 1 .. Len(ws) - 1 : ws[v + 1][1] > ws[v][2]

LEMMA WindowsGood ==
    ASSUME NEW n \in Nat
    PROVE  WindowsRight(Windows(n), n)
<1>1. PICK W \in Nat \ {0} : W = WindowSize
  BY WindowSizeAssumption
<1>2. PICK q \in Nat : q = n \div W
  BY Division
<1> DEFINE ws == [w \in 1 .. q |-> <<(w - 1) * W + 1, w * W>>]
<1>3. Windows(n) = ws
  BY <1>1, <1>2 DEF Windows
<1>4. \A w \in 1 .. q : (w - 1) * W + 1 \in 1 .. n /\ w * W \in 1 .. n /\ (w - 1) * W + W = w * W
  BY <1>2, WindowInside
<1>5. ws \in [1 .. q -> (1 .. n) \X (1 .. n)]
  BY <1>4
<1>6. \A w \in 1 .. q : ws[w][1] = (w - 1) * W + 1 /\ ws[w][2] = w * W
  OBVIOUS
<1> HIDE DEF ws
<1>7. ws \in Seq((1 .. n) \X (1 .. n)) /\ Len(ws) = q
  <2>1. PICK P : P = (1 .. n) \X (1 .. n)
    OBVIOUS
  <2>2. ws \in [1 .. q -> P]
    BY <2>1, <1>5
  <2>3. ws \in Seq(P) /\ Len(ws) = q
    BY <2>2
  <2> QED BY <2>1, <2>3
<1>8. ASSUME NEW v \in 1 .. q PROVE ws[v][2] - ws[v][1] = W - 1
  <2>1. PICK a \in Nat, b \in Nat : a = (v - 1) * W /\ b = v * W /\ a + W = b
    <3>1. (v - 1) * W + W = v * W /\ v * W \in Nat /\ (v - 1) * W \in Int
      BY <1>4
    <3>2. (v - 1) * W + 1 \in 1 .. n
      BY <1>4
    <3> QED BY <3>1, <3>2
  <2> QED BY <2>1, <1>6
<1>9. ASSUME NEW v \in 1 .. q, NEW w \in 1 .. q, v < w PROVE ws[v][2] < ws[w][1]
  <2>1. v * W <= (w - 1) * W /\ v * W \in Nat
    BY <1>9, Multiples
  <2>2. (w - 1) * W \in Int
    OBVIOUS
  <2> QED BY <2>1, <2>2, <1>6
<1>10. ASSUME NEW v \in 1 .. q - 1 PROVE ws[v + 1][1] > ws[v][2]
  <2>1. v \in 1 .. q /\ v + 1 \in 1 .. q /\ v < v + 1
    OBVIOUS
  <2>2. ws[v][2] < ws[v + 1][1] /\ ws[v][2] \in Int /\ ws[v + 1][1] \in Int
    BY <2>1, <1>9, <1>5
  <2> QED BY <2>2
<1>11. WindowsRight(ws, n)
  BY <1>1, <1>2, <1>7, <1>8, <1>9, <1>10 DEF WindowsRight
<1> QED BY <1>3, <1>11

Closes(turns, ex, c) ==
    HumanTurn(turns, ex) > c /\ turns[HumanTurn(turns, ex)].role # "correction"

\* The first exchange that closes it, if any.
LEMMA ClosureGood ==
    ASSUME NEW turns, NEW exs, Len(exs) \in Nat, NEW c
    PROVE  LET k == Closure(turns, exs, c) IN
           /\ k \in 0 .. Len(exs)
           /\ k # 0 => Closes(turns, exs[k], c)
           /\ \A j \in 1 .. Len(exs) : Closes(turns, exs[j], c) => k # 0 /\ k <= j
<1> DEFINE I == {i \in 1 .. Len(exs) : Closes(turns, exs[i], c)}
<1>1. Closure(turns, exs, c) = IF I # {} THEN Min(I) ELSE 0
  BY DEF Closure, SelectInSeq, Closes
<1>2. I \in SUBSET Nat
  OBVIOUS
<1>3. ASSUME I # {} PROVE Min(I) \in I /\ \A j \in I : Min(I) <= j
  <2> HIDE DEF I
  <2> QED BY <1>2, <1>3, MinOf
<1>4. PICK k : k = Closure(turns, exs, c)
  OBVIOUS
<1>5. k \in 0 .. Len(exs) /\ (k # 0 => k \in I) /\ \A j \in I : k # 0 /\ k <= j
  <2>1. CASE I = {}
    BY <1>1, <1>4, <2>1
  <2>2. CASE I # {}
    <3>1. k \in I /\ \A j \in I : k <= j
      BY <1>1, <1>3, <1>4, <2>2
    <3>2. k \in 1 .. Len(exs)
      BY <3>1
    <3> HIDE DEF I
    <3> QED BY <3>1, <3>2
  <2> QED BY <2>1, <2>2
<1> QED BY <1>4, <1>5

\* Positions in order: all of them, each once.
LEMMA Ordered ==
    ASSUME NEW n \in Nat, NEW S \in SUBSET (1 .. n)
    PROVE  /\ Cardinality(S) \in Nat
           /\ \A k \in 1 .. Cardinality(S) : Nth(S, k) \in S
           /\ \A k, l \in 1 .. Cardinality(S) : k < l => Nth(S, k) < Nth(S, l)
           /\ \A i \in S : \E k \in 1 .. Cardinality(S) : Nth(S, k) = i
<1>1. /\ Cardinality(S) \in Nat
      /\ \A i \in S : Rank(S, i) \in 1 .. Cardinality(S)
      /\ \A i, j \in S : i < j => Rank(S, i) < Rank(S, j)
  BY Ranks
<1>2. /\ \A k \in 1 .. Cardinality(S) : Nth(S, k) \in S /\ Rank(S, Nth(S, k)) = k
      /\ \A i \in S : \A k : Rank(S, i) = k => Nth(S, k) = i
  BY Enumerated
<1>3. PICK c \in Nat : c = Cardinality(S)
  BY <1>1
<1>4. ASSUME NEW k \in 1 .. c, NEW l \in 1 .. c, k < l PROVE Nth(S, k) < Nth(S, l)
  <2>1. PICK i \in S, j \in S : i = Nth(S, k) /\ j = Nth(S, l) /\ Rank(S, i) = k /\ Rank(S, j) = l
    BY <1>2, <1>3
  <2>2. i \in Nat /\ j \in Nat
    OBVIOUS
  <2>3. ~(j < i) /\ i # j
    BY <2>1, <1>1, <1>4
  <2> QED BY <2>1, <2>2, <2>3
<1> QED BY <1>1, <1>2, <1>3, <1>4

-----------------------------------------------------------------------------
(* What is rated. *)

Actors == {"human", "ai"}
TurnRoles == HumanInput \cup {"approval_question", "approval_decision", "response",
                             "verified_response"}
Contents == {"words", "answer", "question", "critique", "approved", "rejected", "none"}

TurnSet ==
    [actor : Actors, group : Nat, role : TurnRoles, content : Contents,
     refs : Seq(Nat \X Nat), visible : BOOLEAN]

EpisodeSet(n, m) == [turn : 1 .. n, closed : 0 .. m]

Typed(p) ==
    /\ p.turns \in Seq(TurnSet)
    /\ p.exchanges \in Seq((1 .. Len(p.turns)) \X (1 .. Len(p.turns)))
    /\ p.windows \in Seq((1 .. Len(p.exchanges)) \X (1 .. Len(p.exchanges)))
    /\ p.episodes \in Seq(EpisodeSet(Len(p.turns), Len(p.exchanges)))

\* Consecutive elements in order make all elements be in order.
LEMMA ChainHolds ==
    ASSUME NEW n \in Nat, NEW lo \in [1 .. n -> Nat], NEW hi \in [1 .. n -> Nat],
           \A i \in 1 .. n : lo[i] <= hi[i],
           \A i \in 1 .. n - 1 : hi[i] < lo[i + 1]
    PROVE  \A x, y \in 1 .. n : x < y => hi[x] < lo[y]
<1> SUFFICES ASSUME NEW x \in 1 .. n PROVE \A y \in 1 .. n : x < y => hi[x] < lo[y]
  OBVIOUS
<1> DEFINE Bad == {y \in 1 .. n : x < y /\ ~(hi[x] < lo[y])}
<1> SUFFICES ASSUME Bad # {} PROVE FALSE
  OBVIOUS
<1>1. PICK m \in Bad : \A j \in Bad : m <= j
  <2>1. Bad \in SUBSET Nat
    OBVIOUS
  <2> HIDE DEF Bad
  <2> QED BY <2>1, Least
<1>2. m \in 1 .. n /\ x < m /\ m - 1 \in 1 .. n - 1 /\ m - 1 \in 1 .. n /\ (m - 1) + 1 = m
  OBVIOUS
<1>3. hi[m - 1] < lo[m]
  BY <1>2
<1>4. CASE m - 1 = x
  BY <1>2, <1>3, <1>4
<1>5. CASE m - 1 # x
  <2>1. m - 1 \notin Bad
    BY <1>1, <1>2
  <2>2. hi[x] < lo[m - 1]
    BY <2>1, <1>2, <1>5
  <2>3. lo[m - 1] <= hi[m - 1] /\ hi[x] \in Nat /\ lo[m - 1] \in Nat /\ hi[m - 1] \in Nat /\ lo[m] \in Nat
    BY <1>2
  <2> QED BY <1>2, <1>3, <2>2, <2>3
<1> QED BY <1>4, <1>5

EpisodesRight(turns, exs, es) ==
    /\ es \in Seq(EpisodeSet(Len(turns), Len(exs)))
    /\ \A k \in 1 .. Len(es) :
          /\ IsCorrection(turns[es[k].turn])
          /\ es[k].closed = Closure(turns, exs, es[k].turn)
    /\ \A k, l \in 1 .. Len(es) : k < l => es[k].turn < es[l].turn
    /\ \A i \in 1 .. Len(turns) : IsCorrection(turns[i]) =>
          \E k \in 1 .. Len(es) : es[k].turn = i

LEMMA EpisodesGood ==
    ASSUME NEW turns \in Seq(TurnSet), NEW exs, Len(exs) \in Nat
    PROVE  EpisodesRight(turns, exs, Episodes(turns, exs))
<1>0. PICK M \in Nat : M = Len(exs)
  OBVIOUS
<1>1. PICK N \in Nat : N = Len(turns) /\ DOMAIN turns = 1 .. N
  OBVIOUS
<1> DEFINE S == {i \in DOMAIN turns : IsCorrection(turns[i])}
<1>2. S \in SUBSET (1 .. N) /\ \A i \in S : IsCorrection(turns[i])
  BY <1>1
<1>3. \A i \in 1 .. N : IsCorrection(turns[i]) => i \in S
  BY <1>1
<1>4. PICK T : T = S
  OBVIOUS
<1> HIDE DEF S
<1>5. PICK c : c = Cardinality(T)
  OBVIOUS
<1>6. /\ c \in Nat
      /\ \A k \in 1 .. c : Nth(T, k) \in T
      /\ \A k, l \in 1 .. c : k < l => Nth(T, k) < Nth(T, l)
      /\ \A i \in T : \E k \in 1 .. c : Nth(T, k) = i
  <2>1. T \in SUBSET (1 .. N)
    BY <1>2, <1>4
  <2>2. /\ Cardinality(T) \in Nat
        /\ \A k \in 1 .. Cardinality(T) : Nth(T, k) \in T
        /\ \A k, l \in 1 .. Cardinality(T) : k < l => Nth(T, k) < Nth(T, l)
        /\ \A i \in T : \E k \in 1 .. Cardinality(T) : Nth(T, k) = i
    BY <1>1, <2>1, Ordered
  <2> QED BY <2>2, <1>5
<1> DEFINE es == [k \in 1 .. c |-> [turn |-> Nth(T, k), closed |-> Closure(turns, exs, Nth(T, k))]]
<1>7. Episodes(turns, exs) = es
  <2> DEFINE at == InOrder(T)
  <2>1. at = [k \in 1 .. c |-> Nth(T, k)]
    BY <1>5 DEF InOrder
  <2>2. DOMAIN at = 1 .. c /\ \A k \in 1 .. c : at[k] = Nth(T, k)
    BY <2>1
  <2>3. Episodes(turns, exs) =
           [k \in DOMAIN at |-> [turn |-> at[k], closed |-> Closure(turns, exs, at[k])]]
    BY <1>4 DEF Episodes, S
  <2> HIDE DEF at
  <2> QED BY <2>2, <2>3
<1>8. \A k \in 1 .. c : Nth(T, k) \in 1 .. N /\ IsCorrection(turns[Nth(T, k)])
  BY <1>2, <1>4, <1>6
<1>9. \A k \in 1 .. c : Closure(turns, exs, Nth(T, k)) \in 0 .. M
  BY <1>0, ClosureGood
<1>10. /\ es \in [1 .. c -> EpisodeSet(N, M)]
       /\ \A k \in 1 .. c : es[k].turn = Nth(T, k)
                            /\ es[k].closed = Closure(turns, exs, Nth(T, k))
  BY <1>8, <1>9 DEF EpisodeSet
<1> HIDE DEF es
<1>11. es \in Seq(EpisodeSet(N, M)) /\ Len(es) = c
  <2>1. PICK P : P = EpisodeSet(N, M)
    OBVIOUS
  <2>2. es \in Seq(P) /\ Len(es) = c
    BY <2>1, <1>10, <1>6
  <2> QED BY <2>1, <2>2
<1>12. \A i \in 1 .. N : IsCorrection(turns[i]) => \E k \in 1 .. c : es[k].turn = i
  BY <1>3, <1>4, <1>6, <1>10
<1>13. EpisodesRight(turns, exs, es)
  BY <1>0, <1>1, <1>6, <1>8, <1>10, <1>11, <1>12 DEF EpisodesRight
<1> QED BY <1>7, <1>13

LossFree(p) ==
    /\ \A i \in 1 .. Len(p.turns) - 1 :
          /\ p.turns[i].visible /\ p.turns[i + 1].visible
          /\ p.turns[i].actor # p.turns[i + 1].actor
          => \E ex \in ToSet(p.exchanges) : i \in ToSet(ex) \/ i + 1 \in ToSet(ex)
    /\ p.trailing < WindowSize
    /\ {e.turn : e \in ToSet(p.episodes)} = {i \in DOMAIN p.turns : IsCorrection(p.turns[i])}

Own(p) ==
    [of |-> Snapshot(p), exchanges |-> p.exchanges, windows |-> p.windows,
     episodes |-> p.episodes]

\* Its parts.
LEMMA ProposalParts ==
    ASSUME NEW p, p.turns \in Seq(TurnSet),
           p.exchanges = Exchanges(p.turns),
           p.windows = Windows(Len(p.exchanges)),
           p.episodes = Episodes(p.turns, p.exchanges)
    PROVE  /\ Exchanged(p.turns, p.exchanges, Len(p.turns))
           /\ Covered(p.turns, p.exchanges, Len(p.turns))
           /\ Typed(p)
           /\ \A k \in 1 .. Len(p.episodes) :
                 LET e == p.episodes[k] IN
                 /\ IsCorrection(p.turns[e.turn])
                 /\ e.closed # 0 => p.exchanges[e.closed][1] > e.turn
           /\ \A k, l \in 1 .. Len(p.episodes) : k < l => p.episodes[k].turn < p.episodes[l].turn
           /\ \A i \in 1 .. Len(p.turns) : IsCorrection(p.turns[i]) =>
                 \E k \in 1 .. Len(p.episodes) : p.episodes[k].turn = i
<1>1. PICK turns, N : turns = p.turns /\ N = Len(turns) /\ N \in Nat
  OBVIOUS
<1>2. PICK exs : exs = p.exchanges /\ exs = Scan(turns, N).pairs
  BY <1>1 DEF Exchanges
<1>3. Exchanged(turns, exs, N) /\ Covered(turns, exs, N)
  <2>1. N \in 0 .. N
    BY <1>1
  <2>2. Scanned(turns, Scan(turns, N), N)
    BY <1>1, <2>1, ScanGood
  <2> QED BY <1>2, <2>2 DEF Scanned
<1>4. exs \in Seq((1 .. N) \X (1 .. N))
  BY <1>3 DEF Exchanged
<1>5. PICK M \in Nat : M = Len(exs)
  BY <1>4
<1>6. p.windows \in Seq((1 .. M) \X (1 .. M))
  <2>1. p.windows = Windows(M)
    BY <1>2, <1>5
  <2> QED BY <2>1, WindowsGood DEF WindowsRight
<1>7. PICK es : es = p.episodes /\ es = Episodes(turns, exs)
  BY <1>1, <1>2
<1>8. turns \in Seq(TurnSet)
  BY <1>1
<1>9. /\ es \in Seq(EpisodeSet(N, M))
      /\ \A k \in 1 .. Len(es) :
            /\ IsCorrection(turns[es[k].turn])
            /\ es[k].closed = Closure(turns, exs, es[k].turn)
      /\ \A k, l \in 1 .. Len(es) : k < l => es[k].turn < es[l].turn
      /\ \A i \in 1 .. N : IsCorrection(turns[i]) =>
            \E k \in 1 .. Len(es) : es[k].turn = i
  <2>1. EpisodesRight(turns, exs, es)
    BY <1>5, <1>7, <1>8, EpisodesGood
  <2> QED BY <2>1, <1>1, <1>5 DEF EpisodesRight
<1>10. ASSUME NEW k \in 1 .. Len(es), es[k].closed # 0
       PROVE  exs[es[k].closed][1] > es[k].turn
  <2>1. PICK c, x : c = es[k].turn /\ x = es[k].closed
    OBVIOUS
  <2>2. x = Closure(turns, exs, c) /\ x # 0 /\ IsCorrection(turns[c])
    BY <1>9, <1>10, <2>1
  <2>3. c \in 1 .. N
    <3>1. es[k] \in EpisodeSet(N, M)
      BY <1>9, <1>10
    <3> QED BY <3>1, <2>1 DEF EpisodeSet
  <2>4. x \in 1 .. M /\ Closes(turns, exs[x], c)
    <3>1. Len(exs) \in Nat
      BY <1>5
    <3>2. x \in 0 .. Len(exs) /\ Closes(turns, exs[x], c)
      BY <3>1, <2>2, ClosureGood
    <3> QED BY <3>2, <2>2, <1>5
  <2>5. PICK a \in 1 .. N, b \in 1 .. N : a = exs[x][1] /\ b = exs[x][2]
    BY <2>4, <1>4, <1>5
  <2>6. b = a + 1 /\ turns[a].actor # turns[b].actor
    BY <2>4, <2>5, <1>3, <1>5 DEF Exchanged
  <2>7. HumanTurn(turns, exs[x]) = IF turns[a].actor = "human" THEN a ELSE b
    BY <2>5 DEF HumanTurn
  <2>8. HumanTurn(turns, exs[x]) > c /\ turns[c].actor = "human"
    BY <2>2, <2>4 DEF Closes, IsCorrection
  <2>9. a > c
    <3>1. CASE turns[a].actor = "human"
      BY <3>1, <2>7, <2>8
    <3>2. CASE turns[a].actor # "human"
      <4>1. a # c /\ b > c
        BY <3>2, <2>7, <2>8
      <4> QED BY <4>1, <2>6, <2>3
    <3> QED BY <3>1, <3>2
  <2> QED BY <2>9, <2>5, <2>1
<1>11. Typed(p)
  BY <1>1, <1>2, <1>4, <1>5, <1>6, <1>7, <1>8, <1>9 DEF Typed
<1> QED BY <1>1, <1>2, <1>3, <1>5, <1>7, <1>9, <1>10, <1>11

IsProposal(p) ==
    /\ p.turns \in Seq(TurnSet)
    /\ p.exchanges = Exchanges(p.turns)
    /\ p.windows = Windows(Len(p.exchanges))
    /\ p.trailing = Len(p.exchanges) % WindowSize
    /\ p.episodes = Episodes(p.turns, p.exchanges)

\* A segmentation of exchanges and episodes in order is sound.
LEMMA SegmentedWhen ==
    ASSUME NEW p, Typed(p), Exchanged(p.turns, p.exchanges, Len(p.turns)),
           \A v \in 1 .. Len(p.windows) : p.windows[v][2] - p.windows[v][1] = WindowSize - 1,
           \A v, w \in 1 .. Len(p.windows) : v < w => p.windows[v][2] < p.windows[w][1],
           p.trailing = Len(p.exchanges) - WindowSize * Len(p.windows),
           \A k \in 1 .. Len(p.episodes) :
              LET e == p.episodes[k] IN
              /\ p.turns[e.turn].actor = "human" /\ p.turns[e.turn].visible
              /\ e.closed # 0 => p.exchanges[e.closed][1] > e.turn
    PROVE  Segmented(p)
<1>1. /\ DOMAIN p.exchanges = 1 .. Len(p.exchanges)
      /\ DOMAIN p.windows = 1 .. Len(p.windows)
      /\ DOMAIN p.episodes = 1 .. Len(p.episodes)
  BY DEF Typed
<1>2. \A e \in ToSet(p.episodes) :
          /\ p.turns[e.turn].actor = "human" /\ p.turns[e.turn].visible
          /\ e.closed # 0 => p.exchanges[e.closed][1] > e.turn
  BY <1>1 DEF ToSet
<1>3. ASSUME NEW x \in DOMAIN p.exchanges
      PROVE  LET ex == p.exchanges[x]
             IN  /\ ex[2] = ex[1] + 1 /\ p.turns[ex[1]].visible /\ p.turns[ex[2]].visible
                 /\ p.turns[ex[1]].actor # p.turns[ex[2]].actor
                 /\ \A y \in DOMAIN p.exchanges : x < y => ex[2] < p.exchanges[y][1]
  BY <1>1 DEF Exchanged
<1>4. \A v \in DOMAIN p.windows :
          /\ p.windows[v][2] - p.windows[v][1] = WindowSize - 1
          /\ \A w \in DOMAIN p.windows : v < w => p.windows[v][2] < p.windows[w][1]
  BY <1>1
<1> QED BY <1>2, <1>3, <1>4 DEF Segmented

\* The proposal is sound, leaves nothing out and is accepted unchanged.
LEMMA ProposalSound ==
    ASSUME NEW p, IsProposal(p)
    PROVE  Typed(p) /\ Segmented(p)
<1>1. /\ Exchanged(p.turns, p.exchanges, Len(p.turns)) /\ Typed(p)
      /\ \A k \in 1 .. Len(p.episodes) :
            LET e == p.episodes[k] IN
            /\ IsCorrection(p.turns[e.turn])
            /\ e.closed # 0 => p.exchanges[e.closed][1] > e.turn
  BY ProposalParts DEF IsProposal
<1>2. PICK M \in Nat : M = Len(p.exchanges)
  BY <1>1 DEF Typed
<1>3. /\ Len(p.windows) = M \div WindowSize
      /\ \A v \in 1 .. Len(p.windows) : p.windows[v][2] - p.windows[v][1] = WindowSize - 1
      /\ \A v, w \in 1 .. Len(p.windows) : v < w => p.windows[v][2] < p.windows[w][1]
  <2>1. p.windows = Windows(M)
    BY <1>2 DEF IsProposal
  <2>2. WindowsRight(p.windows, M)
    BY <2>1, WindowsGood
  <2> QED BY <2>2 DEF WindowsRight
<1>4. p.trailing = M - WindowSize * Len(p.windows)
  <2>1. /\ M \div WindowSize \in Nat /\ M % WindowSize \in Int
        /\ M = WindowSize * (M \div WindowSize) + (M % WindowSize)
    BY WindowSizeAssumption, Division
  <2>2. PICK a, b \in Int : a = WindowSize * (M \div WindowSize) /\ b = M % WindowSize /\ a \in Int
    BY <2>1, WindowSizeAssumption
  <2>3. b = M - a
    BY <2>1, <2>2
  <2> QED BY <2>2, <2>3, <1>2, <1>3 DEF IsProposal
<1>5. \A k \in 1 .. Len(p.episodes) :
          LET e == p.episodes[k] IN
          /\ p.turns[e.turn].actor = "human" /\ p.turns[e.turn].visible
          /\ e.closed # 0 => p.exchanges[e.closed][1] > e.turn
  BY <1>1 DEF IsCorrection
<1> QED BY <1>1, <1>2, <1>3, <1>4, <1>5, SegmentedWhen

LEMMA ProposalComplete ==
    ASSUME NEW p, IsProposal(p)
    PROVE  LossFree(p)
<1>1. /\ Covered(p.turns, p.exchanges, Len(p.turns)) /\ Typed(p)
      /\ \A k \in 1 .. Len(p.episodes) : IsCorrection(p.turns[p.episodes[k].turn])
      /\ \A i \in 1 .. Len(p.turns) : IsCorrection(p.turns[i]) =>
            \E k \in 1 .. Len(p.episodes) : p.episodes[k].turn = i
  BY ProposalParts DEF IsProposal
<1>2. PICK N \in Nat, M \in Nat : /\ N = Len(p.turns) /\ DOMAIN p.turns = 1 .. N
                                  /\ M = Len(p.exchanges) /\ DOMAIN p.exchanges = 1 .. M
  BY <1>1 DEF Typed
<1>3. ASSUME NEW i \in 1 .. N - 1, p.turns[i].visible, p.turns[i + 1].visible,
             p.turns[i].actor # p.turns[i + 1].actor
      PROVE  \E ex \in ToSet(p.exchanges) : i \in ToSet(ex) \/ i + 1 \in ToSet(ex)
  <2>1. PICK x \in 1 .. M :
           p.exchanges[x][1] \in {i, i + 1} \/ p.exchanges[x][2] \in {i, i + 1}
    BY <1>1, <1>2, <1>3 DEF Covered
  <2>2. PICK ex : ex = p.exchanges[x]
    OBVIOUS
  <2>3. ex \in (1 .. N) \X (1 .. N)
    BY <1>1, <1>2, <2>2 DEF Typed
  <2>4. ex[1] \in ToSet(ex) /\ ex[2] \in ToSet(ex)
    <3>1. 1 \in DOMAIN ex /\ 2 \in DOMAIN ex
      BY <2>3
    <3> QED BY <3>1 DEF ToSet
  <2>5. ex \in ToSet(p.exchanges)
    BY <1>2, <2>2 DEF ToSet
  <2>6. ex[1] \in {i, i + 1} \/ ex[2] \in {i, i + 1}
    BY <2>1, <2>2
  <2>7. i \in ToSet(ex) \/ i + 1 \in ToSet(ex)
    BY <2>4, <2>6
  <2> QED BY <2>5, <2>7
<1>4. p.trailing < WindowSize
  <2>1. M % WindowSize \in 0 .. WindowSize - 1 /\ WindowSize \in Nat
    BY WindowSizeAssumption, Division
  <2>2. p.trailing = M % WindowSize
    BY <1>2 DEF IsProposal
  <2> QED BY <2>1, <2>2
<1>5. {e.turn : e \in ToSet(p.episodes)} = {i \in DOMAIN p.turns : IsCorrection(p.turns[i])}
  <2>1. PICK L \in Nat : L = Len(p.episodes) /\ DOMAIN p.episodes = 1 .. L
    BY <1>1 DEF Typed
  <2>2. \A k \in 1 .. L : p.episodes[k].turn \in 1 .. N
    <3>1. p.episodes \in Seq(EpisodeSet(N, M))
      BY <1>1, <1>2 DEF Typed
    <3>2. \A k \in 1 .. L : p.episodes[k] \in EpisodeSet(N, M)
      BY <3>1, <2>1
    <3> QED BY <3>2 DEF EpisodeSet
  <2>3. \A k \in 1 .. L : p.episodes[k].turn \in {i \in 1 .. N : IsCorrection(p.turns[i])}
    BY <1>1, <2>1, <2>2
  <2>4. \A i \in {j \in 1 .. N : IsCorrection(p.turns[j])} : \E k \in 1 .. L : p.episodes[k].turn = i
    BY <1>1, <1>2, <2>1
  <2>5. ToSet(p.episodes) = {p.episodes[k] : k \in 1 .. L}
    BY <2>1 DEF ToSet
  <2>6. PICK E : E = ToSet(p.episodes)
    OBVIOUS
  <2>7. \A e \in E : e.turn \in {i \in 1 .. N : IsCorrection(p.turns[i])}
    BY <2>3, <2>5, <2>6
  <2>8. \A i \in {j \in 1 .. N : IsCorrection(p.turns[j])} : \E e \in E : e.turn = i
    BY <2>4, <2>5, <2>6
  <2> QED BY <2>6, <2>7, <2>8, <1>2
<1> QED BY <1>2, <1>3, <1>4, <1>5 DEF LossFree

LEMMA ProposalAccepted ==
    ASSUME NEW p, IsProposal(p)
    PROVE  Accepts(p, Own(p))
<1>1. /\ Exchanged(p.turns, p.exchanges, Len(p.turns)) /\ Typed(p)
      /\ \A k \in 1 .. Len(p.episodes) :
            LET e == p.episodes[k] IN
            /\ IsCorrection(p.turns[e.turn])
            /\ e.closed # 0 => p.exchanges[e.closed][1] > e.turn
      /\ \A k, l \in 1 .. Len(p.episodes) : k < l => p.episodes[k].turn < p.episodes[l].turn
  BY ProposalParts DEF IsProposal
<1>2. PICK N \in Nat, M \in Nat, V \in Nat, L \in Nat :
         /\ N = Len(p.turns) /\ DOMAIN p.turns = 1 .. N
         /\ M = Len(p.exchanges) /\ DOMAIN p.exchanges = 1 .. M
         /\ V = Len(p.windows) /\ DOMAIN p.windows = 1 .. V
         /\ L = Len(p.episodes) /\ DOMAIN p.episodes = 1 .. L
  BY <1>1 DEF Typed
<1>3. PICK sheet : sheet = Own(p)
  OBVIOUS
<1>4. /\ sheet.of = Snapshot(p) /\ sheet.exchanges = p.exchanges
      /\ sheet.windows = p.windows /\ sheet.episodes = p.episodes
  BY <1>3 DEF Own
<1>5. ExchangesHold(p, sheet)
  <2>0. PICK E : E = (1 .. N) \X (1 .. N) /\ p.exchanges \in Seq(E)
    BY <1>1, <1>2 DEF Typed
  <2>0a. \A i \in 1 .. M : p.exchanges[i] \in E
    BY <2>0, <1>2
  <2>1. \A i \in 1 .. M : p.exchanges[i][1] \in 1 .. N /\ p.exchanges[i][2] \in 1 .. N
    <3> SUFFICES ASSUME NEW i \in 1 .. M
                 PROVE  p.exchanges[i][1] \in 1 .. N /\ p.exchanges[i][2] \in 1 .. N
      OBVIOUS
    <3>1. PICK e \in (1 .. N) \X (1 .. N) : e = p.exchanges[i]
      BY <2>0, <2>0a
    <3> QED BY <3>1
  <2>2. \A i \in 1 .. M :
           LET a == p.exchanges[i][1]
               b == p.exchanges[i][2]
           IN  /\ b = a + 1 /\ b <= N
               /\ p.turns[a].actor # p.turns[b].actor
               /\ p.turns[a].visible /\ p.turns[b].visible
    BY <2>1, <1>1, <1>2 DEF Exchanged
  <2>3. \A i \in 1 .. M - 1 : p.exchanges[i + 1][1] > p.exchanges[i][2]
    <3>1. \A i \in 1 .. M - 1 : i \in 1 .. M /\ i + 1 \in 1 .. M /\ i < i + 1
      OBVIOUS
    <3>2. \A x, y \in 1 .. M : x < y => p.exchanges[x][2] < p.exchanges[y][1]
      BY <1>1, <1>2 DEF Exchanged
    <3> QED BY <3>1, <3>2, <2>1
  <2>4. Chained(p.exchanges, LAMBDA x, y : y[1] > x[2])
    BY <2>3, <1>2 DEF Chained
  <2> QED BY <1>2, <1>4, <2>2, <2>4 DEF ExchangesHold
<1>6. WindowsHold(sheet)
  <2>1. p.windows = Windows(M)
    BY <1>2 DEF IsProposal
  <2>2. /\ \A v \in 1 .. V : p.windows[v][2] - p.windows[v][1] = WindowSize - 1
        /\ \A v \in 1 .. V - 1 : p.windows[v + 1][1] > p.windows[v][2]
    <3>1. WindowsRight(p.windows, M)
      BY <2>1, WindowsGood
    <3>2. PICK ws : ws = p.windows
      OBVIOUS
    <3>3. WindowsRight(ws, M) /\ Len(ws) = V
      BY <3>1, <3>2, <1>2
    <3> QED BY <3>2, <3>3 DEF WindowsRight
  <2>3. \A v \in 1 .. V : p.windows[v][1] \in 1 .. M /\ p.windows[v][2] \in 1 .. M
    <3>1. p.windows \in Seq((1 .. M) \X (1 .. M))
      BY <1>1, <1>2 DEF Typed
    <3>2. \A v \in 1 .. V : p.windows[v] \in (1 .. M) \X (1 .. M)
      BY <3>1, <1>2
    <3> QED BY <3>2
  <2>4. \A v \in 1 .. V : p.windows[v][2] = p.windows[v][1] + WindowSize - 1 /\ p.windows[v][2] <= M
    BY <2>2, <2>3, WindowSizeAssumption
  <2>5. PICK ws, exs : ws = sheet.windows /\ exs = sheet.exchanges
    OBVIOUS
  <2>6. /\ DOMAIN ws = 1 .. V /\ Len(ws) = V /\ Len(exs) = M
        /\ \A v \in 1 .. V : ws[v][2] = ws[v][1] + WindowSize - 1 /\ ws[v][2] <= M
        /\ \A v \in 1 .. V - 1 : ws[v + 1][1] > ws[v][2]
    BY <1>2, <1>4, <2>2, <2>4, <2>5
  <2> QED BY <2>5, <2>6 DEF WindowsHold, Chained
<1>7. EpisodesHold(p, sheet)
  <2>1. \A k \in 1 .. L : p.episodes[k].turn \in 1 .. N /\ p.episodes[k].closed \in 0 .. M
    <3>1. p.episodes \in Seq(EpisodeSet(N, M))
      BY <1>1, <1>2 DEF Typed
    <3>2. \A k \in 1 .. L : p.episodes[k] \in EpisodeSet(N, M)
      BY <3>1, <1>2
    <3> QED BY <3>2 DEF EpisodeSet
  <2>2. \A k \in 1 .. L :
           LET e == p.episodes[k]
           IN  /\ e.turn \in 1 .. N
               /\ p.turns[e.turn].actor = "human" /\ p.turns[e.turn].visible
               /\ e.closed # 0 => e.closed <= M /\ p.exchanges[e.closed][1] > e.turn
    BY <2>1, <1>1, <1>2 DEF IsCorrection
  <2>3. \A k \in 1 .. L - 1 : p.episodes[k + 1].turn > p.episodes[k].turn
    <3>1. \A k \in 1 .. L - 1 : k \in 1 .. L /\ k + 1 \in 1 .. L /\ k < k + 1
      OBVIOUS
    <3>2. \A k, l \in 1 .. L : k < l => p.episodes[k].turn < p.episodes[l].turn
      BY <1>1, <1>2
    <3> QED BY <3>1, <3>2, <2>1
  <2>4. Chained(p.episodes, LAMBDA d, e : e.turn > d.turn)
    BY <2>3, <1>2 DEF Chained
  <2> QED BY <1>2, <1>4, <2>2, <2>4 DEF EpisodesHold
<1> QED BY <1>3, <1>4, <1>5, <1>6, <1>7 DEF Accepts

LEMMA ProposalKept ==
    ASSUME NEW p, IsProposal(p),
           p = [turns |-> p.turns, exchanges |-> p.exchanges, windows |-> p.windows,
                trailing |-> p.trailing, episodes |-> p.episodes, internal |-> p.internal]
    PROVE  Corrected(p, Own(p)) = p
<1>1. p.trailing = Len(p.exchanges) - Len(p.windows) * WindowSize
  <2>1. p.trailing = Len(p.exchanges) - WindowSize * Len(p.windows) /\ Len(p.windows) \in Nat
    <3>1. Typed(p) /\ Segmented(p)
      BY ProposalSound
    <3>2. p.windows \in Seq((1 .. Len(p.exchanges)) \X (1 .. Len(p.exchanges)))
      BY <3>1 DEF Typed
    <3>3. p.trailing = Len(p.exchanges) - WindowSize * Len(p.windows)
      BY <3>1 DEF Segmented
    <3> QED BY <3>2, <3>3
  <2> QED BY <2>1, WindowSizeAssumption
<1>2. PICK sheet : sheet = Own(p)
  OBVIOUS
<1>3. /\ sheet.exchanges = p.exchanges
      /\ sheet.windows = p.windows /\ sheet.episodes = p.episodes
  BY <1>2 DEF Own
<1>4. Corrected(p, sheet) = [p EXCEPT !.exchanges = p.exchanges, !.windows = p.windows,
                                      !.trailing = p.trailing, !.episodes = p.episodes]
  BY <1>1, <1>3 DEF Corrected
<1> QED BY <1>2, <1>4

-----------------------------------------------------------------------------
(* A corrected segmentation. *)

LEMMA Members ==
    ASSUME NEW S, NEW s \in Seq(S)
    PROVE  \A i \in 1 .. Len(s) : s[i] \in S
OBVIOUS

LEMMA Narrowed ==
    ASSUME NEW S, NEW T, NEW s \in Seq(S), \A i \in 1 .. Len(s) : s[i] \in T
    PROVE  s \in Seq(T)
OBVIOUS

IsProjection(p) ==
    p = [turns |-> p.turns, exchanges |-> p.exchanges, windows |-> p.windows,
         trailing |-> p.trailing, episodes |-> p.episodes, internal |-> p.internal]

Positive == Nat \ {0}

SheetTyped(sheet) ==
    /\ sheet.exchanges \in Seq(Positive \X Positive)
    /\ sheet.windows \in Seq(Positive \X Positive)
    /\ sheet.episodes \in Seq([turn : Positive, closed : Nat])

\* Neighbouring pairs that are chained come in order and share nothing.
LEMMA Apart ==
    ASSUME NEW n \in Nat, NEW s, \A i \in 1 .. n : s[i] \in Positive \X Positive,
           \A i \in 1 .. n : s[i][1] <= s[i][2],
           \A i \in 1 .. n - 1 : s[i + 1][1] > s[i][2]
    PROVE  \A x, y \in 1 .. n : x < y => s[x][2] < s[y][1]
<1> DEFINE lo == [i \in 1 .. n |-> s[i][1]]
           hi == [i \in 1 .. n |-> s[i][2]]
<1>1. \A i \in 1 .. n : s[i][1] \in Nat /\ s[i][2] \in Nat
  BY DEF Positive
<1>2. lo \in [1 .. n -> Nat] /\ hi \in [1 .. n -> Nat]
  BY <1>1
<1>3. \A i \in 1 .. n : lo[i] = s[i][1] /\ hi[i] = s[i][2]
  OBVIOUS
<1> HIDE DEF lo, hi
<1>4. \A i \in 1 .. n : lo[i] <= hi[i]
  BY <1>3
<1>5. ASSUME NEW i \in 1 .. n - 1 PROVE hi[i] < lo[i + 1]
  <2>1. i \in 1 .. n /\ i + 1 \in 1 .. n
    OBVIOUS
  <2>2. s[i + 1][1] > s[i][2] /\ s[i][2] \in Nat /\ s[i + 1][1] \in Nat
    BY <2>1, <1>1
  <2> QED BY <2>1, <2>2, <1>3
<1>6. \A x, y \in 1 .. n : x < y => hi[x] < lo[y]
  BY <1>2, <1>4, <1>5, ChainHolds
<1> QED BY <1>3, <1>6

LEMMA CorrectedSound ==
    ASSUME NEW p, IsProjection(p), p.turns \in Seq(TurnSet),
           NEW sheet, SheetTyped(sheet), Accepts(p, sheet)
    PROVE  LET q == Corrected(p, sheet) IN IsProjection(q) /\ Typed(q) /\ Segmented(q)
<1>1. PICK q : q = Corrected(p, sheet)
  OBVIOUS
<1>2. /\ q.turns = p.turns /\ q.exchanges = sheet.exchanges /\ q.windows = sheet.windows
      /\ q.episodes = sheet.episodes
      /\ q.trailing = Len(sheet.exchanges) - Len(sheet.windows) * WindowSize
      /\ IsProjection(q)
  <2>1. PICK t, e, w, s, k, i :
           /\ p = [turns |-> t, exchanges |-> e, windows |-> w,
                   trailing |-> s, episodes |-> k, internal |-> i]
           /\ t = p.turns
    BY DEF IsProjection
  <2>2. q = [turns |-> t, exchanges |-> sheet.exchanges, windows |-> sheet.windows,
             trailing |-> Len(sheet.exchanges) - Len(sheet.windows) * WindowSize,
             episodes |-> sheet.episodes, internal |-> i]
    BY <1>1, <2>1 DEF Corrected
  <2>3. PICK f, v, z, d : /\ f = sheet.exchanges /\ v = sheet.windows /\ d = sheet.episodes
                          /\ z = Len(sheet.exchanges) - Len(sheet.windows) * WindowSize
    OBVIOUS
  <2>4. q = [turns |-> t, exchanges |-> f, windows |-> v,
             trailing |-> z, episodes |-> d, internal |-> i]
    BY <2>2, <2>3
  <2>5. /\ q.turns = t /\ q.exchanges = f /\ q.windows = v /\ q.trailing = z
        /\ q.episodes = d /\ q.internal = i
    BY <2>4
  <2>6. IsProjection(q)
    BY <2>4, <2>5 DEF IsProjection
  <2> QED BY <2>1, <2>3, <2>5, <2>6
<1>3. PICK turns, exs, ws, es : /\ turns = p.turns /\ exs = sheet.exchanges
                                /\ ws = sheet.windows /\ es = sheet.episodes
  OBVIOUS
<1>4. /\ turns \in Seq(TurnSet) /\ exs \in Seq(Positive \X Positive)
      /\ ws \in Seq(Positive \X Positive) /\ es \in Seq([turn : Positive, closed : Nat])
  BY <1>3 DEF SheetTyped
<1>5. PICK N \in Nat, M \in Nat, V \in Nat, L \in Nat :
         /\ N = Len(turns) /\ DOMAIN turns = 1 .. N
         /\ M = Len(exs) /\ DOMAIN exs = 1 .. M
         /\ V = Len(ws) /\ DOMAIN ws = 1 .. V
         /\ L = Len(es) /\ DOMAIN es = 1 .. L
  BY <1>4
<1>6. /\ \A i \in 1 .. M :
            /\ exs[i][2] = exs[i][1] + 1 /\ exs[i][2] <= N
            /\ turns[exs[i][1]].actor # turns[exs[i][2]].actor
            /\ turns[exs[i][1]].visible /\ turns[exs[i][2]].visible
      /\ \A i \in 1 .. M - 1 : exs[i + 1][1] > exs[i][2]
  <2>1. ExchangesHold(p, sheet)
    BY DEF Accepts
  <2> QED BY <2>1, <1>3, <1>5 DEF ExchangesHold, Chained
<1>7. /\ \A i \in 1 .. V : ws[i][2] = ws[i][1] + WindowSize - 1 /\ ws[i][2] <= M
      /\ \A i \in 1 .. V - 1 : ws[i + 1][1] > ws[i][2]
  <2>1. WindowsHold(sheet)
    BY DEF Accepts
  <2> QED BY <2>1, <1>3, <1>5 DEF WindowsHold, Chained
<1>8. \A i \in 1 .. L :
         /\ es[i].turn \in 1 .. N
         /\ turns[es[i].turn].actor = "human" /\ turns[es[i].turn].visible
         /\ es[i].closed # 0 => es[i].closed <= M /\ exs[es[i].closed][1] > es[i].turn
  <2>1. EpisodesHold(p, sheet)
    BY DEF Accepts
  <2> QED BY <2>1, <1>3, <1>5 DEF EpisodesHold
<1>9. /\ \A i \in 1 .. M : exs[i] \in Positive \X Positive
      /\ \A i \in 1 .. V : ws[i] \in Positive \X Positive
      /\ \A i \in 1 .. L : es[i] \in [turn : Positive, closed : Nat]
  <2>1. PICK P, E : P = Positive \X Positive /\ E = [turn : Positive, closed : Nat]
    OBVIOUS
  <2>2. exs \in Seq(P) /\ ws \in Seq(P) /\ es \in Seq(E)
    BY <1>4, <2>1
  <2>3. /\ \A i \in 1 .. Len(exs) : exs[i] \in P
        /\ \A i \in 1 .. Len(ws) : ws[i] \in P
        /\ \A i \in 1 .. Len(es) : es[i] \in E
    BY <2>2, Members
  <2> QED BY <2>1, <2>3, <1>5
<1>10. \A i \in 1 .. M : /\ exs[i] \in (1 .. N) \X (1 .. N)
                         /\ exs[i][1] <= exs[i][2]
  <2>1. ASSUME NEW i \in 1 .. M
        PROVE  exs[i] \in (1 .. N) \X (1 .. N) /\ exs[i][1] <= exs[i][2]
    <3>1. PICK a \in Positive, b \in Positive : exs[i] = <<a, b>>
      BY <1>9
    <3>2. b = a + 1 /\ b <= N
      BY <3>1, <1>6
    <3>3. a \in 1 .. N /\ b \in 1 .. N /\ a <= b
      BY <3>2 DEF Positive
    <3> QED BY <3>1, <3>3
  <2> QED BY <2>1
<1>11. \A i \in 1 .. V : /\ ws[i] \in (1 .. M) \X (1 .. M)
                         /\ ws[i][1] <= ws[i][2]
                         /\ ws[i][2] - ws[i][1] = WindowSize - 1
  <2>1. ASSUME NEW i \in 1 .. V
        PROVE  /\ ws[i] \in (1 .. M) \X (1 .. M)
               /\ ws[i][1] <= ws[i][2]
               /\ ws[i][2] - ws[i][1] = WindowSize - 1
    <3>1. PICK a \in Positive, b \in Positive : ws[i] = <<a, b>>
      BY <1>9
    <3>2. b = a + WindowSize - 1 /\ b <= M
      BY <3>1, <1>7
    <3>3. a \in 1 .. M /\ b \in 1 .. M /\ a <= b /\ b - a = WindowSize - 1
      BY <3>2, WindowSizeAssumption DEF Positive
    <3> QED BY <3>1, <3>3
  <2> QED BY <2>1
<1>12. \A i \in 1 .. L : es[i] \in EpisodeSet(N, M)
  BY <1>8, <1>9 DEF EpisodeSet
<1>13. /\ exs \in Seq((1 .. N) \X (1 .. N)) /\ ws \in Seq((1 .. M) \X (1 .. M))
       /\ es \in Seq(EpisodeSet(N, M))
  <2>1. PICK A, B, C : A = (1 .. N) \X (1 .. N) /\ B = (1 .. M) \X (1 .. M) /\ C = EpisodeSet(N, M)
    OBVIOUS
  <2>2. /\ \A i \in 1 .. Len(exs) : exs[i] \in A
        /\ \A i \in 1 .. Len(ws) : ws[i] \in B
        /\ \A i \in 1 .. Len(es) : es[i] \in C
    <3>1. /\ \A i \in 1 .. M : exs[i] \in A
          /\ \A i \in 1 .. V : ws[i] \in B
          /\ \A i \in 1 .. L : es[i] \in C
      BY <2>1, <1>10, <1>11, <1>12
    <3> QED BY <3>1, <1>5
  <2>3. exs \in Seq(A)
    BY <2>2, <1>4, Narrowed
  <2>4. ws \in Seq(B)
    BY <2>2, <1>4, Narrowed
  <2>5. es \in Seq(C)
    BY <2>2, <1>4, Narrowed
  <2> QED BY <2>1, <2>3, <2>4, <2>5
<1>14. /\ \A x, y \in 1 .. M : x < y => exs[x][2] < exs[y][1]
       /\ \A x, y \in 1 .. V : x < y => ws[x][2] < ws[y][1]
  BY <1>6, <1>7, <1>9, <1>10, <1>11, Apart
<1>15. Exchanged(turns, exs, N)
  BY <1>5, <1>6, <1>13, <1>14 DEF Exchanged
<1>16. /\ q.turns = turns /\ q.exchanges = exs /\ q.windows = ws /\ q.episodes = es
  BY <1>2, <1>3
<1>17. Typed(q)
  <2>1. /\ Len(q.turns) = N /\ Len(q.exchanges) = M
    BY <1>5, <1>16
  <2>2. /\ q.turns \in Seq(TurnSet) /\ q.exchanges \in Seq((1 .. N) \X (1 .. N))
        /\ q.windows \in Seq((1 .. M) \X (1 .. M)) /\ q.episodes \in Seq(EpisodeSet(N, M))
    BY <1>4, <1>13, <1>16
  <2>3. /\ q.exchanges \in Seq((1 .. Len(q.turns)) \X (1 .. Len(q.turns)))
        /\ q.windows \in Seq((1 .. Len(q.exchanges)) \X (1 .. Len(q.exchanges)))
        /\ q.episodes \in Seq(EpisodeSet(Len(q.turns), Len(q.exchanges)))
    BY <2>1, <2>2, Zenon
  <2> QED BY <2>2, <2>3, Zenon DEF Typed
<1>18. q.trailing = Len(q.exchanges) - WindowSize * Len(q.windows)
  <2>1. q.trailing = M - V * WindowSize
    BY <1>2, <1>3, <1>5
  <2>2. V * WindowSize = WindowSize * V
    BY <1>5, WindowSizeAssumption
  <2>3. Len(q.exchanges) = M /\ Len(q.windows) = V
    BY <1>5, <1>16
  <2> QED BY <2>1, <2>2, <2>3
<1>19. Segmented(q)
  BY <1>5, <1>8, <1>11, <1>14, <1>15, <1>16, <1>17, <1>18, SegmentedWhen
<1> QED BY <1>1, <1>2, <1>17, <1>19

LEMMA SheetTypedWhen ==
    ASSUME NEW A, NEW B, NEW C, NEW D,
           B \subseteq Seq(Positive \X Positive), C \subseteq Seq(Positive \X Positive),
           D \subseteq Seq([turn : Positive, closed : Nat])
    PROVE  \A sheet \in [of : A, exchanges : B, windows : C, episodes : D] : SheetTyped(sheet)
<1>1. PICK S, T : S = Seq(Positive \X Positive) /\ T = Seq([turn : Positive, closed : Nat])
  OBVIOUS
<1>2. \A sheet \in [of : A, exchanges : B, windows : C, episodes : D] :
         sheet.exchanges \in S /\ sheet.windows \in S /\ sheet.episodes \in T
  BY <1>1
<1> QED BY <1>1, <1>2 DEF SheetTyped

LEMMA SheetsTyped ==
    ASSUME NEW p, Len(p.turns) \in Nat, NEW sheet \in Sheets(p)
    PROVE  SheetTyped(sheet)
<1> DEFINE n == Min({SheetTurns, Len(p.turns)})
           turns == 1 .. n
           pairs == {<<i, i + 1>> : i \in turns}
           A == {Snapshot(Project(OrderRuns(SubSeq(Runs, 1, k)))) : k \in DOMAIN Runs}
           B1 == {<<x>> : x \in pairs}
           B2 == pairs \X pairs
           C == {<<>>, <<<<1, WindowSize>>>>}
           open == [turn : turns, closed : 0 .. 1]
           D1 == {<<e>> : e \in open}
<1>1. sheet \in [of : A, exchanges : {<<>>} \cup B1 \cup B2, windows : C,
                 episodes : {<<>>} \cup D1]
  <2>1. Sheets(p) = [of : A, exchanges : {<<>>} \cup B1 \cup B2, windows : C,
                     episodes : {<<>>} \cup D1]
    BY DEF Sheets
  <2> HIDE DEF A, B1, B2, C, D1
  <2> QED BY <2>1
<1>3. n \in Nat
  <2>1. {SheetTurns, Len(p.turns)} \in SUBSET Nat /\ {SheetTurns, Len(p.turns)} # {}
    BY BoundsAssumption
  <2> QED BY <2>1, MinOf
<1>4. PICK P, E : P = Positive \X Positive /\ E = [turn : Positive, closed : Nat]
  OBVIOUS
<1>5. pairs \subseteq P
  BY <1>3, <1>4 DEF Positive
<1>6. PICK w \in P : w = <<1, WindowSize>>
  <2>1. PICK a \in Positive, b \in Positive : a = 1 /\ b = WindowSize
    BY WindowSizeAssumption DEF Positive
  <2>2. <<a, b>> \in P
    BY <1>4
  <2> QED BY <2>1, <2>2
<1>7. open \subseteq E
  BY <1>3, <1>4 DEF Positive
<1> HIDE DEF n
<1>8. B1 \subseteq Seq(P)
  <2>1. \A x \in pairs : <<x>> \in Seq(P)
    BY <1>5, Singleton
  <2> HIDE DEF pairs
  <2> QED BY <2>1, Zenon
<1>9. B2 \subseteq Seq(P)
  <2> HIDE DEF pairs
  <2>1. ASSUME NEW x \in pairs, NEW y \in pairs PROVE <<x, y>> \in Seq(P)
    BY <1>5, Pair
  <2>2. \A z \in pairs \X pairs : \E x \in pairs, y \in pairs : z = <<x, y>>
    OBVIOUS
  <2> QED BY <2>1, <2>2, ZenonT(60)
<1>10. <<<<1, WindowSize>>>> \in Seq(P)
  <2>1. <<w>> \in Seq(P)
    BY Singleton
  <2> QED BY <2>1, <1>6
<1>11. D1 \subseteq Seq(E)
  <2>1. \A e \in open : <<e>> \in Seq(E)
    BY <1>7, Singleton
  <2> HIDE DEF open
  <2> QED BY <2>1, Zenon
<1>12. <<>> \in Seq(P) /\ <<>> \in Seq(E)
  OBVIOUS
<1> HIDE DEF A, B1, B2, D1
<1>13. C \subseteq Seq(P)
  BY <1>10, <1>12
<1> HIDE DEF C
<1>14. {<<>>} \cup B1 \cup B2 \subseteq Seq(P) /\ {<<>>} \cup D1 \subseteq Seq(E)
  BY <1>8, <1>9, <1>11, <1>12
<1>15. PICK b, d : b = {<<>>} \cup B1 \cup B2 /\ d = {<<>>} \cup D1
  OBVIOUS
<1>16. b \subseteq Seq(Positive \X Positive) /\ C \subseteq Seq(Positive \X Positive)
       /\ d \subseteq Seq([turn : Positive, closed : Nat])
  BY <1>4, <1>13, <1>14, <1>15
<1>17. sheet \in [of : A, exchanges : b, windows : C, episodes : d]
  BY <1>1, <1>15
<1> QED BY <1>16, <1>17, SheetTypedWhen

-----------------------------------------------------------------------------
(* What the journal of a run says, frame by frame.                         *)

Units == [is : {"unit"}, role : HumanInput \cup {"response"}, human : BOOLEAN, content : Contents]
Events ==
    [is : {"boundary"}, actor : Actors, role : TurnRoles, content : Contents,
     visibility : {"visible", "unknown", "released", "delivered"}, source : Nat]
Approvals == [is : {"approval"}, decision : {"approved", "rejected"}]
Marks == [is : {"failure", "repair"}]
Ends == [is : {"finished"}, status : {"succeeded", "failed", "cancelled"}]

FrameSet == Units \cup Events \cup Approvals \cup Marks \cup Ends

\* Where a run stands between two of its frames: it starts, a question waits
\* for its decision before or after the human was heard, the human's words or
\* the answer are said but not yet journaled as having crossed, the question
\* was abandoned, the run failed, answered, succeeded, had its answer shown.
Labels ==
    {"start", "asking", "told", "heard", "asked", "dead", "failed", "said", "answered",
     "closed", "shown"}

Final == {"start", "heard", "dead", "failed", "closed", "shown"}

Question(seen) == Said("ai", "approval_question", "question", seen, 0)
Receipt(f) == [f EXCEPT !.visibility = "delivered"]

\* Frame f, the i-th of fs, takes the run from a to b.
Quietly(f, a, b, retry) ==
    /\ a = b
    /\ \/ f.is = "repair" /\ a \in {"start", "heard", "dead", "failed", "answered"}
       \/ f.is = "finished" /\ f.status # "succeeded" /\ a \in {"start", "heard", "dead", "failed"}
       \/ f = Unit("correction", FALSE, "critique") /\ retry /\ a = "start"
       \/ f.is = "approval" /\ a \in {"asking", "asked", "dead"}

Asks(f, a, b) ==
    \/ f = Question("visible") /\ <<a, b>> \in {<<"start", "asking">>, <<"heard", "asked">>}
    \/ f = Question("unknown") /\ <<a, b>> = <<"heard", "dead">>

Decides(f, a, b) ==
    /\ \E d \in {"approved", "rejected"} : f = Said("human", "approval_decision", d, "visible", 0)
    /\ <<a, b>> \in {<<"asking", "start">>, <<"asked", "heard">>}

Listens(f, i, a, b, role) ==
    \/ f = Unit(role, TRUE, "words") /\ <<a, b>> = <<"start", "told">>
    \/ f = Said("human", role, "words", "visible", i - 1) /\ <<a, b>> = <<"told", "heard">>

Answers(f, i, a, b) ==
    \/ f = Unit("response", FALSE, "answer") /\ <<a, b>> = <<"heard", "said">>
    \/ /\ \E r \in {"response", "verified_response"} : f = Said("ai", r, "answer", "released", i - 1)
       /\ <<a, b>> = <<"said", "answered">>
    \/ f = Finished("succeeded") /\ <<a, b>> = <<"answered", "closed">>

Shows(fs, i, a, b) ==
    /\ <<a, b>> = <<"closed", "shown">>
    /\ \E k \in 1 .. i - 1 : /\ fs[k].is = "boundary" /\ fs[k].visibility = "released"
                             /\ fs[i] = Receipt(fs[k])

Follows(fs, i, a, b, role, retry) ==
    \/ Quietly(fs[i], a, b, retry)
    \/ Asks(fs[i], a, b)
    \/ Decides(fs[i], a, b)
    \/ Listens(fs[i], i, a, b, role)
    \/ Answers(fs[i], i, a, b)
    \/ fs[i].is = "failure" /\ <<a, b>> = <<"heard", "failed">>
    \/ Shows(fs, i, a, b)

\* L has the labels before and after each frame.
Labelled(fs, L, role, retry) ==
    /\ L \in Seq(Labels) /\ Len(L) = Len(fs) + 1
    /\ L[1] = "start"
    /\ \A i \in 1 .. Len(fs) : Follows(fs, i, L[i], L[i + 1], role, retry)

Reaches(fs, b, role, retry) ==
    /\ fs \in Seq(FrameSet)
    /\ \E L : Labelled(fs, L, role, retry) /\ L[Len(fs) + 1] = b

\* Earlier frames are not affected by later ones.
LEMMA FollowsStill ==
    ASSUME NEW n \in Nat, NEW fs, NEW gs, \A k \in 1 .. n : fs[k] = gs[k],
           NEW i \in 1 .. n, NEW a, NEW b, NEW role, NEW retry,
           Follows(fs, i, a, b, role, retry)
    PROVE  Follows(gs, i, a, b, role, retry)
<1>1. fs[i] = gs[i] /\ \A k \in 1 .. i - 1 : fs[k] = gs[k]
  OBVIOUS
<1>2. CASE Shows(fs, i, a, b)
  BY <1>1, <1>2 DEF Follows, Shows
<1>3. CASE ~Shows(fs, i, a, b)
  BY <1>1, <1>3, Zenon DEF Follows
<1> QED BY <1>2, <1>3

LEMMA ReachesMore ==
    ASSUME NEW fs, NEW a, NEW b \in Labels, NEW role, NEW retry, NEW f \in FrameSet,
           Reaches(fs, a, role, retry),
           Follows(Append(fs, f), Len(fs) + 1, a, b, role, retry)
    PROVE  Reaches(Append(fs, f), b, role, retry)
<1>1. PICK L : Labelled(fs, L, role, retry) /\ L[Len(fs) + 1] = a
  BY DEF Reaches
<1>2. PICK n \in Nat : n = Len(fs) /\ fs \in Seq(FrameSet)
  BY DEF Reaches
<1>3. PICK gs : gs = Append(fs, f)
  OBVIOUS
<1>4. gs \in Seq(FrameSet) /\ Len(gs) = n + 1 /\ \A k \in 1 .. n : gs[k] = fs[k]
  BY <1>2, <1>3
<1>5. L \in Seq(Labels) /\ Len(L) = n + 1 /\ L[1] = "start" /\ L[n + 1] = a
  BY <1>1, <1>2 DEF Labelled
<1>6. PICK M : M = Append(L, b)
  OBVIOUS
<1>7. /\ M \in Seq(Labels) /\ Len(M) = n + 2 /\ M[n + 2] = b
      /\ \A k \in 1 .. n + 1 : M[k] = L[k]
  BY <1>5, <1>6
<1>8. ASSUME NEW i \in 1 .. n + 1 PROVE Follows(gs, i, M[i], M[i + 1], role, retry)
  <2>1. CASE i \in 1 .. n
    <3>1. i \in 1 .. n + 1 /\ i + 1 \in 1 .. n + 1
      BY <2>1, <1>2
    <3>2. M[i] = L[i] /\ M[i + 1] = L[i + 1]
      BY <3>1, <1>7
    <3>3. Follows(fs, i, L[i], L[i + 1], role, retry)
      BY <2>1, <1>1, <1>2 DEF Labelled
    <3>4. Follows(gs, i, L[i], L[i + 1], role, retry)
      BY <3>3, <2>1, <1>2, <1>4, FollowsStill
    <3> QED BY <3>2, <3>4
  <2>2. CASE i = n + 1
    <3>1. M[i] = a /\ M[i + 1] = b
      BY <2>2, <1>2, <1>5, <1>7
    <3> QED BY <3>1, <2>2, <1>2, <1>3
  <2> QED BY <2>1, <2>2, <1>2
<1>9. M[1] = "start"
  BY <1>2, <1>5, <1>7
<1>10. Labelled(gs, M, role, retry)
  BY <1>2, <1>4, <1>7, <1>8, <1>9 DEF Labelled
<1> QED BY <1>2, <1>3, <1>4, <1>7, <1>10 DEF Reaches

LEMMA OneMore ==
    ASSUME NEW S, NEW s \in Seq(S), NEW x \in S
    PROVE  s \o <<x>> = Append(s, x)
OBVIOUS

LEMMA TwoMore ==
    ASSUME NEW S, NEW s \in Seq(S), NEW x \in S, NEW y \in S
    PROVE  s \o <<x, y>> = Append(Append(s, x), y)
OBVIOUS

LEMMA NothingMore ==
    ASSUME NEW S, NEW s \in Seq(S)
    PROVE  s \o <<>> = s
OBVIOUS

LEMMA Grown ==
    ASSUME NEW S, NEW s \in Seq(S), NEW x \in S
    PROVE  /\ Append(s, x) \in Seq(S) /\ Len(Append(s, x)) = Len(s) + 1
           /\ Append(s, x)[Len(s) + 1] = x
           /\ \A i \in 1 .. Len(s) : Append(s, x)[i] = s[i]
OBVIOUS

\* Frames of which only the frame itself decides what follows.
Moves(f, i, a, b, role, retry) ==
    \/ Quietly(f, a, b, retry) \/ Asks(f, a, b) \/ Decides(f, a, b)
    \/ Listens(f, i, a, b, role) \/ Answers(f, i, a, b)
    \/ f.is = "failure" /\ <<a, b>> = <<"heard", "failed">>

LEMMA ReachesNext ==
    ASSUME NEW fs, NEW a, NEW b \in Labels, NEW role, NEW retry, NEW f \in FrameSet,
           Reaches(fs, a, role, retry), Moves(f, Len(fs) + 1, a, b, role, retry)
    PROVE  Reaches(Append(fs, f), b, role, retry)
<1>1. fs \in Seq(FrameSet)
  BY DEF Reaches
<1>2. Append(fs, f)[Len(fs) + 1] = f
  BY <1>1, Grown
<1>3. Follows(Append(fs, f), Len(fs) + 1, a, b, role, retry)
  BY <1>2, Zenon DEF Follows, Moves
<1> QED BY <1>3, ReachesMore

LEMMA FramesTyped ==
    /\ \A role \in HumanInput \cup {"response"}, human \in BOOLEAN, content \in Contents :
          Unit(role, human, content) \in FrameSet
    /\ \A actor \in Actors, role \in TurnRoles, content \in Contents, source \in Nat,
          v \in {"visible", "unknown", "released", "delivered"} :
          Said(actor, role, content, v, source) \in FrameSet
    /\ \A s \in {"succeeded", "failed", "cancelled"} : Finished(s) \in FrameSet
    /\ \A d \in {"approved", "rejected"} : [is |-> "approval", decision |-> d] \in FrameSet
    /\ [is |-> "failure"] \in FrameSet /\ [is |-> "repair"] \in FrameSet
<1>1. \A role \in HumanInput \cup {"response"}, human \in BOOLEAN, content \in Contents :
         Unit(role, human, content) \in Units
  BY DEF Unit, Units
<1>2. \A actor \in Actors, role \in TurnRoles, content \in Contents, source \in Nat,
         v \in {"visible", "unknown", "released", "delivered"} :
         Said(actor, role, content, v, source) \in Events
  BY DEF Said, Events
<1>3. \A s \in {"succeeded", "failed", "cancelled"} : Finished(s) \in Ends
  BY DEF Finished, Ends
<1>4. \A d \in {"approved", "rejected"} : [is |-> "approval", decision |-> d] \in Approvals
  BY DEF Approvals
<1>5. [is |-> "failure"] \in Marks /\ [is |-> "repair"] \in Marks
  BY DEF Marks
<1> QED BY <1>1, <1>2, <1>3, <1>4, <1>5 DEF FrameSet

LEMMA IntakeReaches ==
    ASSUME NEW role \in HumanInput, NEW retry, NEW fs, Reaches(fs, "start", role, retry)
    PROVE  Reaches(Intake(fs, role), "heard", role, retry)
<1>1. fs \in Seq(FrameSet) /\ Len(fs) \in Nat
  BY DEF Reaches
<1>2. PICK f \in FrameSet : f = Unit(role, TRUE, "words")
  <2>1. role \in HumanInput \cup {"response"} /\ TRUE \in BOOLEAN /\ "words" \in Contents
    BY DEF Contents
  <2> QED BY <2>1, FramesTyped
<1>3. PICK g \in FrameSet : g = Said("human", role, "words", "visible", Len(fs) + 1)
  <2>1. /\ "human" \in Actors /\ role \in TurnRoles /\ "words" \in Contents
        /\ "visible" \in {"visible", "unknown", "released", "delivered"} /\ Len(fs) + 1 \in Nat
    BY <1>1 DEF Actors, TurnRoles, Contents
  <2> QED BY <2>1, FramesTyped
<1>4. Intake(fs, role) = Append(Append(fs, f), g)
  <2>1. Intake(fs, role) = fs \o <<f, g>>
    BY <1>2, <1>3 DEF Intake
  <2> QED BY <2>1, <1>1, TwoMore
<1>5. PICK gs : gs = Append(fs, f)
  OBVIOUS
<1>6. Reaches(gs, "told", role, retry)
  <2>1. Moves(f, Len(fs) + 1, "start", "told", role, retry)
    BY <1>2 DEF Moves, Listens
  <2>2. "told" \in Labels
    BY DEF Labels
  <2> QED BY <2>1, <2>2, <1>5, ReachesNext
<1>7. Reaches(Append(gs, g), "heard", role, retry)
  <2>1. Len(gs) = Len(fs) + 1
    BY <1>1, <1>5, Grown
  <2>2. Moves(g, Len(gs) + 1, "told", "heard", role, retry)
    <3>1. (Len(gs) + 1) - 1 = Len(fs) + 1
      BY <2>1, <1>1
    <3> QED BY <3>1, <1>3 DEF Moves, Listens
  <2>3. "heard" \in Labels
    BY DEF Labels
  <2> QED BY <2>2, <2>3, <1>6, ReachesNext
<1> QED BY <1>4, <1>5, <1>7

\* The state a gate leads to from a.
AfterGate(a, decision) == IF decision = "abandoned" THEN "dead" ELSE a

LEMMA GateReaches ==
    ASSUME NEW role, NEW retry, NEW fs, NEW a \in {"start", "heard"}, Reaches(fs, a, role, retry),
           NEW decision \in {"approved", "rejected", "abandoned"},
           decision = "abandoned" => a = "heard"
    PROVE  Reaches(Gate(fs, decision), AfterGate(a, decision), role, retry)
<1>1. fs \in Seq(FrameSet) /\ Len(fs) \in Nat
  BY DEF Reaches
<1>2. PICK seen, record : /\ seen = IF decision = "abandoned" THEN "unknown" ELSE "visible"
                          /\ record = IF decision = "approved" THEN "approved" ELSE "rejected"
  OBVIOUS
<1>3. PICK f \in FrameSet : f = Question(seen)
  <2>1. /\ "ai" \in Actors /\ "approval_question" \in TurnRoles /\ "question" \in Contents
        /\ seen \in {"visible", "unknown", "released", "delivered"} /\ 0 \in Nat
    BY <1>2 DEF Actors, TurnRoles, Contents
  <2> QED BY <2>1, FramesTyped DEF Question
<1>4. PICK g \in FrameSet : g = [is |-> "approval", decision |-> record]
  <2>1. record \in {"approved", "rejected"}
    BY <1>2
  <2> QED BY <2>1, FramesTyped
<1>5. PICK m : m = IF decision = "abandoned" THEN "dead" ELSE IF a = "start" THEN "asking" ELSE "asked"
  OBVIOUS
<1>6. PICK gs : gs = Append(fs, f)
  OBVIOUS
<1>7. Reaches(gs, m, role, retry)
  <2>1. Asks(f, a, m)
    BY <1>2, <1>3, <1>5 DEF Asks
  <2>2. m \in Labels
    BY <1>5 DEF Labels
  <2> QED BY <2>1, <2>2, <1>6, ReachesNext DEF Moves
<1>8. PICK hs : hs = Append(gs, g)
  OBVIOUS
<1>9. Reaches(hs, m, role, retry)
  <2>1. Quietly(g, m, m, retry)
    BY <1>4, <1>5 DEF Quietly
  <2>2. m \in Labels
    BY <1>5 DEF Labels
  <2> QED BY <2>1, <2>2, <1>7, <1>8, ReachesNext DEF Moves
<1>10. fs \o <<f, g>> = hs /\ hs \in Seq(FrameSet)
  BY <1>1, <1>6, <1>8, TwoMore, Grown
<1>11. CASE decision = "abandoned"
  <2>1. Gate(fs, decision) = hs \o <<>>
    <3>1. Gate(fs, decision) = fs \o <<f, g>> \o <<>>
      BY <1>2, <1>3, <1>4, <1>11 DEF Gate, Question
    <3> QED BY <3>1, <1>10
  <2>2. Gate(fs, decision) = hs
    BY <2>1, <1>10, NothingMore
  <2> QED BY <2>2, <1>5, <1>9, <1>11 DEF AfterGate
<1>12. CASE decision # "abandoned"
  <2>1. PICK h \in FrameSet : h = Said("human", "approval_decision", decision, "visible", 0)
    <3>1. /\ "human" \in Actors /\ "approval_decision" \in TurnRoles /\ decision \in Contents
          /\ "visible" \in {"visible", "unknown", "released", "delivered"} /\ 0 \in Nat
      BY <1>12 DEF Actors, TurnRoles, Contents
    <3> QED BY <3>1, FramesTyped
  <2>2. Gate(fs, decision) = hs \o <<h>>
    <3>1. Gate(fs, decision) = fs \o <<f, g>> \o <<h>>
      BY <1>2, <1>3, <1>4, <1>12, <2>1 DEF Gate, Question
    <3> QED BY <3>1, <1>10
  <2>3. Gate(fs, decision) = Append(hs, h)
    BY <2>2, <1>10, OneMore
  <2>4. Decides(h, m, a)
    BY <1>5, <1>12, <2>1 DEF Decides
  <2>5. a \in Labels
    BY DEF Labels
  <2> QED BY <2>3, <2>4, <2>5, <1>9, <1>12, ReachesNext DEF Moves, AfterGate
<1> QED BY <1>11, <1>12

LEMMA AnswerReaches ==
    ASSUME NEW role, NEW retry, NEW fs, Reaches(fs, "heard", role, retry),
           NEW r \in {"response", "verified_response"}
    PROVE  Reaches(Answer(fs, r), "answered", role, retry)
<1>1. fs \in Seq(FrameSet) /\ Len(fs) \in Nat
  BY DEF Reaches
<1>2. PICK f \in FrameSet : f = Unit("response", FALSE, "answer")
  <2>1. "response" \in HumanInput \cup {"response"} /\ FALSE \in BOOLEAN /\ "answer" \in Contents
    BY DEF Contents
  <2> QED BY <2>1, FramesTyped
<1>3. PICK g \in FrameSet : g = Said("ai", r, "answer", "released", Len(fs) + 1)
  <2>1. /\ "ai" \in Actors /\ r \in TurnRoles /\ "answer" \in Contents
        /\ "released" \in {"visible", "unknown", "released", "delivered"} /\ Len(fs) + 1 \in Nat
    BY <1>1 DEF Actors, TurnRoles, Contents
  <2> QED BY <2>1, FramesTyped
<1>4. Answer(fs, r) = Append(Append(fs, f), g)
  <2>1. Answer(fs, r) = fs \o <<f, g>>
    BY <1>2, <1>3 DEF Answer
  <2> QED BY <2>1, <1>1, TwoMore
<1>5. PICK gs : gs = Append(fs, f)
  OBVIOUS
<1>6. Reaches(gs, "said", role, retry)
  <2>1. Moves(f, Len(fs) + 1, "heard", "said", role, retry)
    BY <1>2 DEF Moves, Answers
  <2>2. "said" \in Labels
    BY DEF Labels
  <2> QED BY <2>1, <2>2, <1>5, ReachesNext
<1>7. Reaches(Append(gs, g), "answered", role, retry)
  <2>1. Len(gs) = Len(fs) + 1
    BY <1>1, <1>5, Grown
  <2>2. Moves(g, Len(gs) + 1, "said", "answered", role, retry)
    <3>1. (Len(gs) + 1) - 1 = Len(fs) + 1
      BY <2>1, <1>1
    <3> QED BY <3>1, <1>3 DEF Moves, Answers
  <2>3. "answered" \in Labels
    BY DEF Labels
  <2> QED BY <2>2, <2>3, <1>6, ReachesNext
<1> QED BY <1>4, <1>5, <1>7

Repair(feedback) == IF feedback THEN <<[is |-> "repair"]>> ELSE <<>>

LEMMA RepairReaches ==
    ASSUME NEW role, NEW feedback \in BOOLEAN, NEW retry, NEW fs,
           NEW a \in {"start", "heard", "dead", "failed", "answered"}, Reaches(fs, a, role, retry)
    PROVE  Reaches(fs \o Repair(feedback), a, role, retry)
<1>1. fs \in Seq(FrameSet)
  BY DEF Reaches
<1>2. PICK f \in FrameSet : f = [is |-> "repair"]
  BY FramesTyped
<1>3. CASE feedback
  <2>1. fs \o Repair(feedback) = Append(fs, f)
    <3>1. Repair(feedback) = <<f>>
      BY <1>2, <1>3 DEF Repair
    <3> QED BY <3>1, <1>1, OneMore
  <2>2. Quietly(f, a, a, retry) /\ a \in Labels
    BY <1>2 DEF Quietly, Labels
  <2> QED BY <2>1, <2>2, ReachesNext DEF Moves
<1>4. CASE ~feedback
  <2>1. Repair(feedback) = <<>>
    BY <1>4 DEF Repair
  <2> QED BY <2>1, <1>1, NothingMore
<1> QED BY <1>3, <1>4

LEMMA FinishedReaches ==
    ASSUME NEW role, NEW retry, NEW fs, NEW a, Reaches(fs, a, role, retry), NEW status, NEW b,
           \/ a \in {"start", "heard", "dead", "failed"} /\ b = a /\ status \in {"failed", "cancelled"}
           \/ a = "answered" /\ b = "closed" /\ status = "succeeded"
    PROVE  Reaches(fs \o <<Finished(status)>>, b, role, retry)
<1>1. fs \in Seq(FrameSet)
  BY DEF Reaches
<1>2. PICK f \in FrameSet : f = Finished(status)
  BY FramesTyped
<1>3. fs \o <<Finished(status)>> = Append(fs, f)
  BY <1>1, <1>2, OneMore
<1>4. b \in Labels
  BY DEF Labels
<1>5. f.is = "finished" /\ f.status = status
  BY <1>2 DEF Finished
<1>6. Moves(f, Len(fs) + 1, a, b, role, retry)
  BY <1>2, <1>5 DEF Moves, Quietly, Answers
<1> QED BY <1>3, <1>4, <1>6, ReachesNext

\* An attempt runs from the start to an end.
LEMMA AttemptReaches ==
    ASSUME NEW shape \in Shapes, NEW role \in HumanInput, NEW feedback \in BOOLEAN
    PROVE  \E b \in Final : Reaches(Attempt(shape, role, feedback), b, role, feedback)
<1>1. PICK asks, decision, result :
         /\ asks = shape.asks /\ decision = shape.decision /\ result = shape.result
         /\ \/ asks = "never" /\ decision = "none" /\ result \in {"response", "failed", "error"}
            \/ asks \in {"first", "later"} /\ decision = "approved" /\ result = "verified_response"
            \/ asks \in {"first", "later"} /\ decision = "rejected" /\ result = "stopped"
            \/ asks = "later" /\ decision = "approved" /\ result = "failed"
            \/ asks = "later" /\ decision = "abandoned" /\ result = "stopped"
  BY DEF Shapes
<1> DEFINE carried == IF feedback THEN <<Unit("correction", FALSE, "critique")>> ELSE <<>>
           before == IF asks = "first" THEN Gate(carried, decision) ELSE carried
           heard == IF asks = "first" /\ result = "stopped" THEN before ELSE Intake(before, role)
           decided == IF asks = "later" THEN Gate(heard, decision) ELSE heard
           repair == Repair(feedback)
<1>2. Attempt(shape, role, feedback) =
        CASE IsResponse(result) -> Answer(decided, result) \o repair \o <<Finished("succeeded")>>
          [] result = "failed" ->
                decided \o <<[is |-> "failure"]>> \o repair \o <<Finished("failed")>>
          [] result = "stopped" -> decided \o repair \o <<Finished("cancelled")>>
          [] result = "error" -> carried \o <<Finished("failed")>>
  BY <1>1 DEF Attempt, Repair
<1> DEFINE R(fs, b) == Reaches(fs, b, role, feedback)
<1>3. R(carried, "start")
  <2>1. PICK es : es = <<>>
    OBVIOUS
  <2>2. Reaches(es, "start", role, feedback)
    <3>1. es \in Seq(FrameSet) /\ Len(es) = 0
      BY <2>1
    <3>2. PICK a \in Labels : a = "start"
      BY DEF Labels
    <3>3. PICK L : L = <<a>>
      OBVIOUS
    <3>4. L \in Seq(Labels) /\ Len(L) = 1 /\ L[1] = a
      BY <3>3
    <3>5. Labelled(es, L, role, feedback)
      BY <3>1, <3>2, <3>4 DEF Labelled
    <3> QED BY <3>1, <3>2, <3>4, <3>5 DEF Reaches
  <2>3. PICK f \in FrameSet : f = Unit("correction", FALSE, "critique")
    <3>1. "correction" \in HumanInput \cup {"response"} /\ FALSE \in BOOLEAN /\ "critique" \in Contents
      BY DEF HumanInput, Contents
    <3> QED BY <3>1, FramesTyped
  <2>4. CASE feedback
    <3>1. Append(es, f) = <<f>>
      BY <2>1
    <3>2. Quietly(f, "start", "start", feedback) /\ "start" \in Labels
      BY <2>3, <2>4 DEF Quietly, Labels
    <3>3. Reaches(Append(es, f), "start", role, feedback)
      BY <3>2, <2>2, ReachesNext DEF Moves
    <3> QED BY <3>1, <3>3, <2>3, <2>4
  <2>5. CASE ~feedback
    BY <2>1, <2>2, <2>5
  <2> QED BY <2>4, <2>5
<1> HIDE DEF carried
<1>4. R(before, "start")
  <2>1. CASE asks = "first"
    <3>1. decision \in {"approved", "rejected"}
      BY <1>1, <2>1
    <3>2. Reaches(Gate(carried, decision), AfterGate("start", decision), role, feedback)
      BY <3>1, <1>3, GateReaches
    <3>3. AfterGate("start", decision) = "start"
      BY <3>1 DEF AfterGate
    <3> QED BY <3>2, <3>3, <2>1
  <2>2. CASE asks # "first"
    BY <2>2, <1>3
  <2> QED BY <2>1, <2>2
<1> HIDE DEF before
<1>5. CASE asks = "first" /\ result = "stopped"
  <2>1. decided = before
    BY <1>5
  <2>2. R(decided \o repair, "start")
    BY <2>1, <1>4, RepairReaches
  <2>3. R((decided \o repair) \o <<Finished("cancelled")>>, "start")
    <3> HIDE DEF decided, repair
    <3> QED BY <2>2, FinishedReaches
  <2>4. Attempt(shape, role, feedback) = (decided \o repair) \o <<Finished("cancelled")>>
    <3> HIDE DEF decided, repair
    <3> QED BY <1>2, <1>5 DEF IsResponse
  <2> QED BY <2>3, <2>4 DEF Final
<1>6. CASE ~(asks = "first" /\ result = "stopped")
  <2>1. R(heard, "heard")
    <3>1. heard = Intake(before, role)
      BY <1>6
    <3> QED BY <3>1, <1>4, IntakeReaches
  <2> HIDE DEF heard
  <2>2. R(decided, IF asks = "later" THEN AfterGate("heard", decision) ELSE "heard")
    <3>1. CASE asks = "later"
      <4>1. decision \in {"approved", "rejected", "abandoned"}
        BY <1>1, <3>1
      <4>2. Reaches(Gate(heard, decision), AfterGate("heard", decision), role, feedback)
        BY <4>1, <2>1, GateReaches
      <4> QED BY <4>2, <3>1
    <3>2. CASE asks # "later"
      BY <3>2, <2>1
    <3> QED BY <3>1, <3>2
  <2> HIDE DEF decided
  <2>3. CASE IsResponse(result)
    <3>1. result \in {"response", "verified_response"}
      BY <2>3 DEF IsResponse
    <3>2. R(decided, "heard")
      BY <3>1, <1>1, <2>2 DEF AfterGate
    <3>3. R(Answer(decided, result), "answered")
      BY <3>1, <3>2, AnswerReaches
    <3>4. R(Answer(decided, result) \o repair, "answered")
      BY <3>3, RepairReaches
    <3> HIDE DEF repair
    <3>5. R((Answer(decided, result) \o repair) \o <<Finished("succeeded")>>, "closed")
      BY <3>4, FinishedReaches
    <3>6. Attempt(shape, role, feedback)
            = (Answer(decided, result) \o repair) \o <<Finished("succeeded")>>
      BY <1>2, <2>3, <3>1
    <3> QED BY <3>5, <3>6 DEF Final
  <2>4. CASE result = "failed"
    <3>1. R(decided, "heard")
      BY <2>4, <1>1, <2>2 DEF AfterGate
    <3>2. PICK f \in FrameSet : f = [is |-> "failure"]
      BY FramesTyped
    <3>3. decided \in Seq(FrameSet)
      BY <3>1 DEF Reaches
    <3>4. decided \o <<f>> = Append(decided, f)
      BY <3>3, OneMore
    <3>5. R(Append(decided, f), "failed")
      <4>1. Moves(f, Len(decided) + 1, "heard", "failed", role, feedback) /\ "failed" \in Labels
        BY <3>2 DEF Moves, Labels
      <4> QED BY <4>1, <3>1, ReachesNext
    <3>6. PICK gs : gs = decided \o <<f>>
      OBVIOUS
    <3>7. R(gs \o repair, "failed")
      BY <3>4, <3>5, <3>6, RepairReaches
    <3> HIDE DEF repair
    <3>8. R((gs \o repair) \o <<Finished("failed")>>, "failed")
      BY <3>7, FinishedReaches
    <3>9. Attempt(shape, role, feedback) = (gs \o repair) \o <<Finished("failed")>>
      BY <1>2, <2>4, <3>2, <3>6 DEF IsResponse
    <3> QED BY <3>8, <3>9 DEF Final
  <2>5. CASE result = "stopped"
    <3>1. PICK b \in {"heard", "dead"} : R(decided, b)
      <4>1. CASE decision = "abandoned"
        BY <4>1, <1>1, <2>2 DEF AfterGate
      <4>2. CASE decision # "abandoned"
        BY <4>2, <1>1, <2>2 DEF AfterGate
      <4> QED BY <4>1, <4>2
    <3>2. R(decided \o repair, b)
      BY <3>1, RepairReaches
    <3> HIDE DEF repair
    <3>3. R((decided \o repair) \o <<Finished("cancelled")>>, b)
      BY <3>2, FinishedReaches
    <3>4. Attempt(shape, role, feedback) = (decided \o repair) \o <<Finished("cancelled")>>
      BY <1>2, <2>5 DEF IsResponse
    <3> QED BY <3>3, <3>4 DEF Final
  <2>6. CASE result = "error"
    <3>1. R(carried \o <<Finished("failed")>>, "start")
      BY <1>3, FinishedReaches
    <3>2. Attempt(shape, role, feedback) = carried \o <<Finished("failed")>>
      BY <1>2, <2>6 DEF IsResponse
    <3> QED BY <3>1, <3>2 DEF Final
  <2> QED BY <1>1, <2>3, <2>4, <2>5, <2>6 DEF IsResponse
<1> QED BY <1>5, <1>6

-----------------------------------------------------------------------------
(* What the label says of the frames so far.                               *)

Boundary(f) == f.is = "boundary"
Finishes(f) == f.is = "finished"
Succeeds(f) == f.is = "finished" /\ f.status = "succeeded"
Releases(f) == f.is = "boundary" /\ f.visibility = "released"
Delivers(f) == f.is = "boundary" /\ f.visibility = "delivered"

FailureSo(fs, i, a) == (\E m \in 1 .. i : fs[m].is = "failure") => a = "failed"

SuccessSo(fs, i, a) ==
    /\ a \notin {"closed", "shown"} => \A m \in 1 .. i : ~Succeeds(fs[m])
    /\ a \in {"closed", "shown"} =>
          \E e \in 1 .. i : Succeeds(fs[e]) /\ \A m \in e + 1 .. i : ~Finishes(fs[m])

ReleaseSo(fs, i, a) ==
    /\ a \notin {"answered", "closed", "shown"} => \A m \in 1 .. i : ~Releases(fs[m])
    /\ a \in {"answered", "closed", "shown"} =>
          \E k \in 2 .. i, r \in {"response", "verified_response"} :
             /\ fs[k] = Said("ai", r, "answer", "released", k - 1)
             /\ \A m \in 1 .. i : Releases(fs[m]) => m = k
             /\ a = "shown" => k < i /\ fs[i] = Receipt(fs[k])

DeliverySo(fs, i, a) ==
    /\ a # "shown" => \A m \in 1 .. i : ~Delivers(fs[m])
    /\ a = "shown" => i # 0 /\ Delivers(fs[i]) /\ \A m \in 1 .. i - 1 : ~Delivers(fs[m])

HeardSo(fs, i, a, role) ==
    /\ a \in {"start", "asking"} => \A m \in 1 .. i : ~IsHumanUnit(fs[m])
    /\ a \notin {"start", "asking"} =>
          \E h \in 1 .. i : /\ fs[h] = Unit(role, TRUE, "words")
                            /\ \A m \in 1 .. i : IsHumanUnit(fs[m]) => m = h
                            /\ a = "told" => h = i

CrossingSo(fs, i, a) ==
    /\ a \notin {"start", "told"} => \E m \in 1 .. i : Boundary(fs[m])
    /\ (\E m \in 1 .. i : fs[m].is = "approval") => \E m \in 1 .. i : Boundary(fs[m])

History(fs, i, a, role) ==
    /\ FailureSo(fs, i, a) /\ SuccessSo(fs, i, a) /\ ReleaseSo(fs, i, a)
    /\ DeliverySo(fs, i, a) /\ HeardSo(fs, i, a, role) /\ CrossingSo(fs, i, a)

\* What the frame of a step is, by the labels around it.
LEMMA StepFeatures ==
    ASSUME NEW fs, NEW i \in Nat \ {0}, NEW a, NEW b, NEW role \in HumanInput, NEW retry,
           Follows(fs, i, a, b, role, retry)
    PROVE  /\ fs[i].is = "failure" => b = "failed"
           /\ a = "failed" => b = "failed"
           /\ a \in {"closed", "shown"} => a = "closed" /\ b = "shown"
           /\ a \in {"closed", "shown"} => ~Finishes(fs[i])
           /\ Succeeds(fs[i]) <=> a = "answered" /\ b = "closed"
           /\ b = "closed" => a = "answered"
           /\ a = "answered" => b \in {"answered", "closed"}
           /\ b = "answered" /\ a # "answered" => a = "said" /\ Releases(fs[i])
           /\ Releases(fs[i]) => a = "said" /\ b = "answered"
           /\ Delivers(fs[i]) <=> b = "shown"
           /\ b = "shown" => a = "closed"
           /\ IsHumanUnit(fs[i]) <=> a = "start" /\ b = "told"
           /\ b \in {"start", "asking"} => a \in {"start", "asking"}
           /\ a \in {"start", "asking"} /\ b \notin {"start", "asking"} =>
                 b = "told" /\ fs[i] = Unit(role, TRUE, "words")
           /\ b = "told" => a = "start"
           /\ b \notin {"start", "told"} => Boundary(fs[i]) \/ a \notin {"start", "told"}
           /\ fs[i].is = "approval" => a \notin {"start", "told"}
           /\ a = "said" => b = "answered" /\ \E r \in {"response", "verified_response"} :
                                 fs[i] = Said("ai", r, "answer", "released", i - 1)
           /\ b = "said" => a = "heard"
<1> DEFINE Goal ==
           /\ fs[i].is = "failure" => b = "failed"
           /\ a = "failed" => b = "failed"
           /\ a \in {"closed", "shown"} => a = "closed" /\ b = "shown"
           /\ a \in {"closed", "shown"} => ~Finishes(fs[i])
           /\ Succeeds(fs[i]) <=> a = "answered" /\ b = "closed"
           /\ b = "closed" => a = "answered"
           /\ a = "answered" => b \in {"answered", "closed"}
           /\ b = "answered" /\ a # "answered" => a = "said" /\ Releases(fs[i])
           /\ Releases(fs[i]) => a = "said" /\ b = "answered"
           /\ Delivers(fs[i]) <=> b = "shown"
           /\ b = "shown" => a = "closed"
           /\ IsHumanUnit(fs[i]) <=> a = "start" /\ b = "told"
           /\ b \in {"start", "asking"} => a \in {"start", "asking"}
           /\ a \in {"start", "asking"} /\ b \notin {"start", "asking"} =>
                 b = "told" /\ fs[i] = Unit(role, TRUE, "words")
           /\ b = "told" => a = "start"
           /\ b \notin {"start", "told"} => Boundary(fs[i]) \/ a \notin {"start", "told"}
           /\ fs[i].is = "approval" => a \notin {"start", "told"}
           /\ a = "said" => b = "answered" /\ \E r \in {"response", "verified_response"} :
                                 fs[i] = Said("ai", r, "answer", "released", i - 1)
           /\ b = "said" => a = "heard"
<1>1. PICK f : f = fs[i]
  OBVIOUS
<1>2. CASE Quietly(fs[i], a, b, retry)
  <2>1. a = b /\ ~Releases(fs[i]) /\ ~Delivers(fs[i]) /\ ~Succeeds(fs[i]) /\ ~IsHumanUnit(fs[i])
    BY <1>2 DEF Quietly, Unit, Succeeds, Releases, Delivers, IsHumanUnit
  <2>2. a \in {"start", "heard", "dead", "failed", "answered", "asking", "asked"}
    BY <1>2 DEF Quietly
  <2>3. fs[i].is # "failure" /\ (fs[i].is = "approval" => a \notin {"start", "told"})
    BY <1>2 DEF Quietly, Unit
  <2> QED BY <2>1, <2>2, <2>3
<1>3. CASE Asks(fs[i], a, b)
  <2>1. /\ fs[i].is = "boundary" /\ fs[i].visibility \in {"visible", "unknown"}
        /\ \/ a = "start" /\ b = "asking"
           \/ a = "heard" /\ b \in {"asked", "dead"}
    BY <1>3 DEF Asks, Question, Said
  <2>2. ~Releases(fs[i]) /\ ~Delivers(fs[i]) /\ ~Succeeds(fs[i]) /\ ~IsHumanUnit(fs[i]) /\ Boundary(fs[i])
    BY <2>1 DEF Succeeds, Releases, Delivers, IsHumanUnit, Boundary
  <2>3. CASE a = "start" /\ b = "asking"
    BY <2>3, <2>1, <2>2 DEF Boundary
  <2>4. CASE a = "heard" /\ b \in {"asked", "dead"}
    <3>1. b = "asked" \/ b = "dead"
      BY <2>4
    <3> QED BY <3>1, <2>4, <2>1, <2>2 DEF Boundary
  <2> QED BY <2>1, <2>3, <2>4
<1>4. CASE Decides(fs[i], a, b)
  <2>1. fs[i].is = "boundary" /\ fs[i].visibility = "visible"
    BY <1>4 DEF Decides, Said
  <2>2. ~Releases(fs[i]) /\ ~Delivers(fs[i]) /\ ~Succeeds(fs[i]) /\ ~IsHumanUnit(fs[i]) /\ Boundary(fs[i])
    BY <2>1 DEF Succeeds, Releases, Delivers, IsHumanUnit, Boundary
  <2>3. CASE a = "asking" /\ b = "start"
    BY <2>3, <2>1, <2>2
  <2>4. CASE a = "asked" /\ b = "heard"
    BY <2>4, <2>1, <2>2
  <2> QED BY <1>4, <2>3, <2>4 DEF Decides
<1>5. CASE Listens(fs[i], i, a, b, role)
  BY <1>5 DEF Listens, Unit, Said, Finishes, Succeeds, Releases, Delivers, IsHumanUnit, Boundary, HumanInput
<1>6. CASE Answers(fs[i], i, a, b)
  BY <1>6 DEF Answers, Unit, Said, Finished, Finishes, Succeeds, Releases, Delivers, IsHumanUnit, Boundary
<1>7. CASE fs[i].is = "failure" /\ <<a, b>> = <<"heard", "failed">>
  BY <1>7 DEF Finishes, Succeeds, Releases, Delivers, IsHumanUnit, Boundary
<1>8. CASE Shows(fs, i, a, b)
  BY <1>8 DEF Shows, Receipt, Finishes, Succeeds, Releases, Delivers, IsHumanUnit, Boundary
<1> QED BY <1>2, <1>3, <1>4, <1>5, <1>6, <1>7, <1>8 DEF Follows

LEMMA HistoryGrows ==
    ASSUME NEW fs, NEW i \in Nat \ {0}, NEW a, NEW b, NEW role \in HumanInput, NEW retry,
           Follows(fs, i, a, b, role, retry), History(fs, i - 1, a, role)
    PROVE  History(fs, i, b, role)
<1>0. \A m \in 1 .. i : m = i \/ m \in 1 .. i - 1
  OBVIOUS
<1>1. FailureSo(fs, i, b)
  <2>1. FailureSo(fs, i - 1, a)
    BY DEF History
  <2>2. (fs[i].is = "failure" => b = "failed") /\ (a = "failed" => b = "failed")
    BY StepFeatures
  <2> QED BY <1>0, <2>1, <2>2 DEF FailureSo
<1>2. SuccessSo(fs, i, b)
  <2>1. SuccessSo(fs, i - 1, a)
    BY DEF History
  <2>2. CASE b \notin {"closed", "shown"}
    BY <1>0, <2>1, <2>2, StepFeatures, ZenonT(60) DEF SuccessSo
  <2>3. CASE b = "closed"
    <3>1. a = "answered"
      BY <2>3, StepFeatures
    <3>2. Succeeds(fs[i])
      BY <2>3, <3>1, StepFeatures
    <3>3. i \in 1 .. i /\ \A m \in i + 1 .. i : FALSE
      OBVIOUS
    <3> QED BY <3>2, <3>3, <2>3 DEF SuccessSo
  <2>4. CASE b = "shown"
    <3>1. a = "closed" /\ ~Finishes(fs[i])
      BY <2>4, StepFeatures
    <3>2. PICK e \in 1 .. i - 1 : Succeeds(fs[e]) /\ \A m \in e + 1 .. i - 1 : ~Finishes(fs[m])
      BY <3>1, <2>1 DEF SuccessSo
    <3>3. e \in 1 .. i /\ \A m \in e + 1 .. i : m = i \/ m \in e + 1 .. i - 1
      OBVIOUS
    <3> QED BY <3>1, <3>2, <3>3, <2>4 DEF SuccessSo
  <2> QED BY <2>2, <2>3, <2>4
<1>3. ReleaseSo(fs, i, b)
  <2>1. ReleaseSo(fs, i - 1, a)
    BY DEF History
  <2>2. CASE b \notin {"answered", "closed", "shown"}
    <3>1. a \notin {"answered", "closed", "shown"} /\ ~Releases(fs[i])
      <4>1. a = "answered" => b \in {"answered", "closed"}
        BY StepFeatures
      <4>2. a \in {"closed", "shown"} => b = "shown"
        BY StepFeatures
      <4>3. Releases(fs[i]) => b = "answered"
        BY StepFeatures
      <4> QED BY <2>2, <4>1, <4>2, <4>3
    <3> QED BY <1>0, <2>1, <2>2, <3>1 DEF ReleaseSo
  <2>3. CASE b = "answered" /\ a # "answered"
    <3>1. a = "said" /\ \E r \in {"response", "verified_response"} :
                           fs[i] = Said("ai", r, "answer", "released", i - 1)
      BY <2>3, StepFeatures
    <3>2. \A m \in 1 .. i - 1 : ~Releases(fs[m])
      BY <3>1, <2>1 DEF ReleaseSo
    <3>3. i # 1
      <4>1. History(fs, i - 1, "said", role)
        BY <3>1
      <4>2. \E h \in 1 .. i - 1 : TRUE
        BY <4>1 DEF History, HeardSo
      <4> QED BY <4>2
    <3>4. i \in 2 .. i
      BY <3>3
    <3> QED BY <1>0, <2>3, <3>1, <3>2, <3>4 DEF ReleaseSo
  <2>4. CASE b \in {"answered", "closed", "shown"} /\ a \in {"answered", "closed"}
    <3>1. ~Releases(fs[i]) /\ (b = "shown" => a = "closed")
      BY <2>4, StepFeatures
    <3>2. PICK k \in 2 .. i - 1, r \in {"response", "verified_response"} :
             /\ fs[k] = Said("ai", r, "answer", "released", k - 1)
             /\ \A m \in 1 .. i - 1 : Releases(fs[m]) => m = k
      BY <2>1, <2>4 DEF ReleaseSo
    <3>3. k \in 2 .. i /\ k < i /\ k \in 1 .. i
      OBVIOUS
    <3>4. b = "shown" => fs[i] = Receipt(fs[k])
      <4> SUFFICES ASSUME b = "shown" PROVE fs[i] = Receipt(fs[k])
        OBVIOUS
      <4>1. Delivers(fs[i]) /\ a = "closed"
        BY StepFeatures
      <4>2. CASE Shows(fs, i, a, b)
        <5>1. PICK j \in 1 .. i - 1 : Releases(fs[j]) /\ fs[i] = Receipt(fs[j])
          BY <4>2 DEF Shows, Releases
        <5> QED BY <5>1, <3>2
      <4>3. CASE ~Shows(fs, i, a, b)
        <5>1. ~Quietly(fs[i], a, b, retry)
          BY <4>1 DEF Quietly
        <5>2. ~Asks(fs[i], a, b) /\ ~Decides(fs[i], a, b) /\ ~Listens(fs[i], i, a, b, role)
              /\ ~Answers(fs[i], i, a, b)
          BY <4>1 DEF Asks, Decides, Listens, Answers
        <5> QED BY <4>1, <4>3, <5>1, <5>2 DEF Follows
      <4> QED BY <4>2, <4>3
    <3>5. \A m \in 1 .. i : Releases(fs[m]) => m = k
      BY <1>0, <3>1, <3>2
    <3> QED BY <2>4, <3>2, <3>3, <3>4, <3>5 DEF ReleaseSo
  <2>5. b \in {"answered", "closed", "shown"} =>
          a \in {"answered", "closed"} \/ (b = "answered" /\ a # "answered")
    BY StepFeatures
  <2> QED BY <2>2, <2>3, <2>4, <2>5
<1>4. DeliverySo(fs, i, b)
  <2>1. DeliverySo(fs, i - 1, a)
    BY DEF History
  <2>2. CASE b # "shown"
    <3>1. a # "shown" /\ ~Delivers(fs[i])
      BY <2>2, StepFeatures
    <3> QED BY <1>0, <2>1, <2>2, <3>1 DEF DeliverySo
  <2>3. CASE b = "shown"
    <3>1. a = "closed" /\ Delivers(fs[i])
      BY <2>3, StepFeatures
    <3> QED BY <2>1, <2>3, <3>1 DEF DeliverySo
  <2> QED BY <2>2, <2>3
<1>5. HeardSo(fs, i, b, role)
  <2>1. HeardSo(fs, i - 1, a, role)
    BY DEF History
  <2>2. CASE b \in {"start", "asking"}
    <3>1. a \in {"start", "asking"} /\ ~IsHumanUnit(fs[i])
      BY <2>2, StepFeatures
    <3> QED BY <1>0, <2>1, <2>2, <3>1 DEF HeardSo
  <2>3. CASE b \notin {"start", "asking"} /\ a \in {"start", "asking"}
    <3>0. b = "told" /\ fs[i] = Unit(role, TRUE, "words")
      BY <2>3, StepFeatures
    <3>1. b = "told" /\ fs[i] = Unit(role, TRUE, "words") /\ i \in 1 .. i
      BY <3>0
    <3>2. \A m \in 1 .. i : IsHumanUnit(fs[m]) => m = i
      BY <1>0, <2>1, <2>3 DEF HeardSo
    <3> QED BY <2>3, <3>1, <3>2 DEF HeardSo
  <2>4. CASE b \notin {"start", "asking"} /\ a \notin {"start", "asking"}
    <3>1. b # "told" /\ ~IsHumanUnit(fs[i])
      BY <2>4, StepFeatures
    <3>2. PICK h \in 1 .. i - 1 : /\ fs[h] = Unit(role, TRUE, "words")
                                  /\ \A m \in 1 .. i - 1 : IsHumanUnit(fs[m]) => m = h
      BY <2>1, <2>4 DEF HeardSo
    <3>3. h \in 1 .. i
      OBVIOUS
    <3> QED BY <1>0, <2>4, <3>1, <3>2, <3>3 DEF HeardSo
  <2> QED BY <2>2, <2>3, <2>4
<1>6. CrossingSo(fs, i, b)
  <2>1. CrossingSo(fs, i - 1, a)
    BY DEF History
  <2>2. (\E m \in 1 .. i - 1 : Boundary(fs[m])) => \E m \in 1 .. i : Boundary(fs[m])
    BY DEF Boundary
  <2>3. /\ b \notin {"start", "told"} => Boundary(fs[i]) \/ a \notin {"start", "told"}
        /\ fs[i].is = "approval" => a \notin {"start", "told"}
    BY StepFeatures
  <2>4. i \in 1 .. i
    OBVIOUS
  <2>5. b \notin {"start", "told"} => \E m \in 1 .. i : Boundary(fs[m])
    BY <2>1, <2>2, <2>3, <2>4 DEF CrossingSo
  <2>6. (\E m \in 1 .. i : fs[m].is = "approval") => \E m \in 1 .. i : Boundary(fs[m])
    BY <1>0, <2>1, <2>2, <2>3 DEF CrossingSo
  <2> QED BY <2>5, <2>6 DEF CrossingSo
<1> QED BY <1>1, <1>2, <1>3, <1>4, <1>5, <1>6 DEF History

LEMMA HistoryHolds ==
    ASSUME NEW fs, NEW n \in Nat, n = Len(fs), NEW L, NEW role \in HumanInput, NEW retry,
           Labelled(fs, L, role, retry)
    PROVE  \A i \in 0 .. n : History(fs, i, L[i + 1], role)
<1> DEFINE Bad == {i \in 0 .. n : ~History(fs, i, L[i + 1], role)}
<1> SUFFICES ASSUME Bad # {} PROVE FALSE
  OBVIOUS
<1>1. PICK i \in Bad : \A j \in Bad : i <= j
  <2>1. Bad \in SUBSET Nat
    OBVIOUS
  <2> HIDE DEF Bad
  <2> QED BY <2>1, Least
<1>2. i # 0
  <2>1. History(fs, 0, "start", role)
    BY DEF History, FailureSo, SuccessSo, ReleaseSo, DeliverySo, HeardSo, CrossingSo
  <2>2. L[0 + 1] = "start"
    BY DEF Labelled
  <2> QED BY <2>1, <2>2, <1>1
<1>3. i \in 1 .. n /\ i - 1 \in 0 .. n /\ (i - 1) + 1 = i /\ i \in Nat \ {0}
  BY <1>1, <1>2
<1>4. History(fs, i - 1, L[i], role)
  <2>1. i - 1 \notin Bad
    BY <1>1, <1>3
  <2>2. History(fs, i - 1, L[(i - 1) + 1], role)
    BY <2>1, <1>3
  <2> QED BY <2>2, <1>3
<1>5. Follows(fs, i, L[i], L[i + 1], role, retry)
  BY <1>3 DEF Labelled
<1>6. History(fs, i, L[i + 1], role)
  BY <1>3, <1>4, <1>5, HistoryGrows
<1> QED BY <1>1, <1>6

\* Where a run stands, the history of its frames.
LEMMA ReachesHistory ==
    ASSUME NEW fs, NEW b, NEW role \in HumanInput, NEW retry, Reaches(fs, b, role, retry)
    PROVE  History(fs, Len(fs), b, role)
<1>1. PICK n \in Nat : n = Len(fs)
  BY DEF Reaches
<1>2. PICK L : Labelled(fs, L, role, retry) /\ L[Len(fs) + 1] = b
  BY DEF Reaches
<1>3. History(fs, n, L[n + 1], role)
  <2>1. n \in 0 .. n
    OBVIOUS
  <2> QED BY <2>1, <1>1, <1>2, HistoryHolds
<1> QED BY <1>1, <1>2, <1>3

LEMMA ReceiptTyped ==
    ASSUME NEW f \in FrameSet, Releases(f)
    PROVE  Receipt(f) \in FrameSet /\ Delivers(Receipt(f))
<1>1. f.is = "boundary"
  BY DEF Releases
<1>2. f \in Events
  BY <1>1 DEF FrameSet, Units, Approvals, Marks, Ends
<1>3. Receipt(f) \in Events /\ Delivers(Receipt(f))
  BY <1>1, <1>2 DEF Receipt, Events, Delivers
<1> QED BY <1>3 DEF FrameSet

\* A receipt is written once, for the answer of a run that succeeded.
LEMMA ReceiptReaches ==
    ASSUME NEW fs, NEW b \in Final, NEW role \in HumanInput, NEW retry,
           Reaches(fs, b, role, retry), NEW i \in DOMAIN fs, Releases(fs[i]),
           ~Contains(fs, Receipt(fs[i]))
    PROVE  Reaches(Append(fs, Receipt(fs[i])), "shown", role, retry)
<1>1. PICK n \in Nat : n = Len(fs) /\ fs \in Seq(FrameSet) /\ DOMAIN fs = 1 .. n
  BY DEF Reaches
<1>2. ReleaseSo(fs, n, b)
  BY <1>1, ReachesHistory DEF History
<1>3. b = "closed"
  <2>1. b \in {"closed", "shown"}
    BY <1>1, <1>2 DEF ReleaseSo, Final
  <2>2. ASSUME b = "shown" PROVE FALSE
    <3>1. PICK k \in 2 .. n : /\ \A m \in 1 .. n : Releases(fs[m]) => m = k
                              /\ fs[n] = Receipt(fs[k])
      BY <2>2, <1>2 DEF ReleaseSo
    <3>2. i = k /\ n \in DOMAIN fs
      BY <3>1, <1>1
    <3>3. Contains(fs, Receipt(fs[i]))
      BY <3>1, <3>2 DEF Contains
    <3> QED BY <3>3
  <2> QED BY <2>1, <2>2
<1>4. Receipt(fs[i]) \in FrameSet
  BY <1>1, ReceiptTyped
<1>5. PICK g \in FrameSet : g = Receipt(fs[i])
  BY <1>4
<1>6. /\ Append(fs, g)[n + 1] = g /\ i \in 1 .. n
      /\ \A m \in 1 .. n : Append(fs, g)[m] = fs[m]
  BY <1>1, Grown
<1>7. PICK gs : gs = Append(fs, g)
  OBVIOUS
<1>8. Shows(gs, n + 1, "closed", "shown")
  <2>0. gs[n + 1] = g /\ gs[i] = fs[i]
    BY <1>6, <1>7, Zenon
  <2>1. i \in 1 .. (n + 1) - 1 /\ gs[i] = fs[i] /\ gs[n + 1] = Receipt(gs[i])
    BY <1>5, <1>6, <2>0
  <2> QED BY <2>1 DEF Shows, Releases
<1>9. Follows(Append(fs, g), Len(fs) + 1, "closed", "shown", role, retry) /\ "shown" \in Labels
  BY <1>1, <1>7, <1>8 DEF Follows, Labels
<1>10. Reaches(Append(fs, g), "shown", role, retry)
  BY <1>3, <1>9, ReachesMore
<1> QED BY <1>5, <1>10

-----------------------------------------------------------------------------
(* The runs of a session.                                                  *)

RunSet ==
    [id : Nat, group : Nat, kind : {"legacy", "initial", "followup", "retry"}, role : HumanInput,
     attempt : Nat, at : Nat, path : Int, frames : Seq(FrameSet)]

RatingFrames == [is : {"segmentation", "sample"}] \cup Ends

RatingSet ==
    [id : Nat, group : Nat, kind : {"rating"}, role : {""}, attempt : Nat, at : Nat, path : Int,
     frames : Seq(RatingFrames)]

LegacyFrames(fs) ==
    \/ fs = <<Unit("prompt", TRUE, "words"), Unit("response", FALSE, "answer"), Finished("succeeded")>>
    \/ fs = <<Unit("prompt", TRUE, "words"), Finished("failed")>>

FramesOK(r) ==
    IF r.kind = "legacy" THEN r.role = "prompt" /\ LegacyFrames(r.frames)
    ELSE \E b \in Final : Reaches(r.frames, b, r.role, r.kind = "retry")

Fails(r) == \E i \in DOMAIN r.frames : r.frames[i].is = "failure"

\* A retry follows the attempt that failed; any other run is its own group.
LinkOK(R, k) ==
    IF R[k].kind = "retry"
    THEN /\ k > 1 /\ Fails(R[k - 1])
         /\ R[k].group = R[k - 1].group /\ R[k].role = R[k - 1].role
    ELSE R[k].group = R[k].id

RunOK(R, k) ==
    /\ R[k].at = R[k].id /\ \A l \in 1 .. k - 1 : R[l].id < R[k].id
    /\ FramesOK(R[k]) /\ LinkOK(R, k)

RunsOK(R) == R \in Seq(RunSet) /\ \A k \in 1 .. Len(R) : RunOK(R, k)

Executed(js) == {i \in DOMAIN js : js[i].kind # "rating"}
RunsIn(js) == Those(js, Executed(js))

\* What is so of the journals at all times.
JournalsOK(js) ==
    /\ js \in Seq(RunSet \cup RatingSet)
    /\ \A i \in 1 .. Len(js) : js[i].id = i
    /\ RunsOK(RunsIn(js))

LEMMA RunFields ==
    ASSUME NEW r \in RunSet
    PROVE  /\ r.id \in Nat /\ r.group \in Nat /\ r.role \in HumanInput /\ r.at \in Nat
           /\ r.attempt \in Nat /\ r.path \in Int
           /\ r.kind \in {"legacy", "initial", "followup", "retry"} /\ r.kind # "rating"
           /\ r.frames \in Seq(FrameSet)
<1>1. PICK F : F = Seq(FrameSet)
  OBVIOUS
<1> QED BY <1>1 DEF RunSet

LEMMA RatingFields ==
    ASSUME NEW r \in RatingSet
    PROVE  r.kind = "rating" /\ r.frames \in Seq(RatingFrames) /\ r.path \in Int
<1>1. PICK F : F = Seq(RatingFrames)
  OBVIOUS
<1> QED BY <1>1 DEF RatingSet

LEMMA RunChanged ==
    ASSUME NEW r \in RunSet, NEW fs \in Seq(FrameSet)
    PROVE  LET q == [r EXCEPT !.frames = fs]
           IN  /\ q \in RunSet /\ q.frames = fs /\ q.id = r.id /\ q.group = r.group
               /\ q.kind = r.kind /\ q.role = r.role /\ q.at = r.at
<1>1. PICK F : F = Seq(FrameSet)
  OBVIOUS
<1>2. fs \in F /\ r \in [id : Nat, group : Nat, kind : {"legacy", "initial", "followup", "retry"},
                         role : HumanInput, attempt : Nat, at : Nat, path : Int, frames : F]
  BY <1>1 DEF RunSet
<1> QED BY <1>1, <1>2 DEF RunSet

LEMMA RunMade ==
    ASSUME NEW group \in Nat, NEW kind \in {"legacy", "initial", "followup", "retry"},
           NEW role \in HumanInput, NEW attempt \in Nat, NEW path \in Int, NEW fs \in Seq(FrameSet),
           Id \in Nat
    PROVE  LET r == Journal(group, kind, role, attempt, path, fs)
           IN  /\ r \in RunSet /\ r.frames = fs /\ r.id = Id /\ r.group = group
               /\ r.kind = kind /\ r.role = role /\ r.at = Id
<1>1. PICK F : F = Seq(FrameSet)
  OBVIOUS
<1> QED BY <1>1 DEF Journal, RunSet

\* A run is judged by itself and those before it.
LEMMA RunStill ==
    ASSUME NEW Q, NEW R, NEW k \in Nat \ {0}, \A l \in 1 .. k : Q[l] = R[l], RunOK(R, k)
    PROVE  RunOK(Q, k)
<1>1. Q[k] = R[k] /\ \A l \in 1 .. k - 1 : Q[l] = R[l]
  OBVIOUS
<1>2. k > 1 => Q[k - 1] = R[k - 1]
  OBVIOUS
<1>3. LinkOK(Q, k)
  BY <1>1, <1>2 DEF RunOK, LinkOK
<1> QED BY <1>1, <1>3 DEF RunOK

LEMMA RunsGrow ==
    ASSUME NEW R, RunsOK(R), NEW r \in RunSet, RunOK(Append(R, r), Len(R) + 1)
    PROVE  RunsOK(Append(R, r))
<1>1. PICK n \in Nat : n = Len(R) /\ R \in Seq(RunSet)
  BY DEF RunsOK
<1>2. PICK Q : Q = Append(R, r)
  OBVIOUS
<1>3. Q \in Seq(RunSet) /\ Len(Q) = n + 1 /\ \A k \in 1 .. n : Q[k] = R[k]
  BY <1>1, <1>2
<1>4. ASSUME NEW k \in 1 .. n + 1 PROVE RunOK(Q, k)
  <2>1. CASE k \in 1 .. n
    <3>1. RunOK(R, k)
      BY <2>1, <1>1 DEF RunsOK
    <3>2. k \in Nat \ {0} /\ \A l \in 1 .. k : l \in 1 .. n
      BY <2>1
    <3>3. \A l \in 1 .. k : Q[l] = R[l]
      BY <3>2, <1>3
    <3> QED BY <3>1, <3>2, <3>3, RunStill
  <2>2. CASE k = n + 1
    BY <2>2, <1>1, <1>2
  <2> QED BY <2>1, <2>2
<1> QED BY <1>2, <1>3, <1>4 DEF RunsOK

\* The last run changes.
LEMMA RunsChange ==
    ASSUME NEW R, RunsOK(R), NEW n \in Nat \ {0}, n = Len(R), NEW r \in RunSet,
           r.id = R[n].id, r.at = R[n].at, r.kind = R[n].kind, r.group = R[n].group,
           r.role = R[n].role, FramesOK(r)
    PROVE  RunsOK([R EXCEPT ![n] = r])
<1>1. R \in Seq(RunSet) /\ \A k \in 1 .. n : RunOK(R, k)
  BY DEF RunsOK
<1>2. PICK Q : Q = [R EXCEPT ![n] = r]
  OBVIOUS
<1>3. Q \in Seq(RunSet) /\ Len(Q) = n /\ Q[n] = r /\ \A k \in 1 .. n - 1 : Q[k] = R[k]
  BY <1>1, <1>2
<1>4. ASSUME NEW k \in 1 .. n PROVE RunOK(Q, k)
  <2>1. CASE k # n
    <3>1. \A l \in 1 .. k : l \in 1 .. n - 1
      BY <2>1
    <3>2. k \in Nat \ {0} /\ \A l \in 1 .. k : Q[l] = R[l]
      BY <3>1, <1>3
    <3> QED BY <3>2, <1>1, RunStill
  <2>2. CASE k = n
    <3>1. RunOK(R, n)
      BY <1>1
    <3>2. Q[n].at = Q[n].id /\ \A l \in 1 .. n - 1 : Q[l].id < Q[n].id
      BY <3>1, <1>3 DEF RunOK
    <3>3. n > 1 => Q[n - 1] = R[n - 1]
      BY <1>3
    <3>4. LinkOK(Q, n)
      BY <3>1, <3>3, <1>3 DEF RunOK, LinkOK
    <3> QED BY <2>2, <3>2, <3>4, <1>3 DEF RunOK
  <2> QED BY <2>1, <2>2
<1> QED BY <1>2, <1>3, <1>4 DEF RunsOK

LEMMA RunsAre ==
    ASSUME NEW js \in Seq(RunSet \cup RatingSet)
    PROVE  /\ Selects(RunsIn(js), RunSet, js, Executed(js))
           /\ Executed(js) \in SUBSET (1 .. Len(js))
<1>1. PICK n \in Nat : n = Len(js) /\ DOMAIN js = 1 .. n
  OBVIOUS
<1>2. \A i \in 1 .. n : js[i] \in RunSet \cup RatingSet
  BY <1>1
<1>3. PICK S : S = Executed(js)
  OBVIOUS
<1>4. S \in SUBSET (1 .. n)
  BY <1>1, <1>3 DEF Executed
<1>5. \A i \in S : js[i] \in RunSet
  BY <1>1, <1>2, <1>3, RatingFields DEF Executed
<1>6. Selects(Those(js, S), RunSet, js, S)
  BY <1>4, <1>5, Selected
<1> QED BY <1>1, <1>3, <1>4, <1>6 DEF RunsIn

LEMMA IdsBelow ==
    ASSUME NEW js, JournalsOK(js), NEW R, R = RunsIn(js)
    PROVE  \A k \in 1 .. Len(R) : R[k].id \in 1 .. Len(js) /\ js[R[k].id] = R[k]
<1>1. PICK n \in Nat : n = Len(js) /\ DOMAIN js = 1 .. n /\ js \in Seq(RunSet \cup RatingSet)
  BY DEF JournalsOK
<1>2. PICK S : S = Executed(js)
  OBVIOUS
<1>3. Selects(R, RunSet, js, S) /\ S \in SUBSET (1 .. n)
  BY <1>1, <1>2, RunsAre
<1>4. \A i \in 1 .. n : js[i].id = i
  BY <1>1 DEF JournalsOK
<1> SUFFICES ASSUME NEW k \in 1 .. Len(R) PROVE R[k].id \in 1 .. n /\ js[R[k].id] = R[k]
  BY <1>1
<1>5. Nth(S, k) \in S /\ R[k] = js[Nth(S, k)]
  BY <1>3 DEF Selects
<1> QED BY <1>3, <1>4, <1>5

LEMMA RunAdded ==
    ASSUME NEW js, JournalsOK(js), NEW r \in RunSet, NEW R, R = RunsIn(js),
           r.id = Len(js) + 1, r.at = r.id, FramesOK(r), LinkOK(Append(R, r), Len(R) + 1)
    PROVE  JournalsOK(Append(js, r)) /\ RunsIn(Append(js, r)) = Append(R, r)
<1>1. PICK n \in Nat : n = Len(js) /\ DOMAIN js = 1 .. n /\ js \in Seq(RunSet \cup RatingSet)
  BY DEF JournalsOK
<1>2. PICK S : S = Executed(js)
  OBVIOUS
<1>3. Selects(R, RunSet, js, S) /\ S \in SUBSET (1 .. n)
  BY <1>1, <1>2, RunsAre
<1>4. PICK q : q = Append(js, r)
  OBVIOUS
<1>5. /\ q \in Seq(RunSet \cup RatingSet) /\ Len(q) = n + 1 /\ DOMAIN q = 1 .. n + 1
      /\ q[n + 1] = r /\ \A i \in 1 .. n : q[i] = js[i]
  BY <1>1, <1>4
<1>6. Executed(q) = S \cup {n + 1}
  <2>1. r.kind # "rating"
    BY RunFields
  <2>2. \A i \in 1 .. n + 1 : i \in 1 .. n \/ i = n + 1
    OBVIOUS
  <2>3. \A i \in 1 .. n : i \in 1 .. n + 1
    OBVIOUS
  <2>4. \A i \in 1 .. n : i \in S <=> js[i].kind # "rating"
    BY <1>1, <1>2 DEF Executed
  <2>5. Executed(q) = {i \in 1 .. n + 1 : q[i].kind # "rating"}
    BY <1>5 DEF Executed
  <2>6. \A i \in 1 .. n + 1 : q[i].kind # "rating" <=> i \in S \cup {n + 1}
    BY <2>1, <2>2, <2>4, <1>3, <1>5
  <2>7. S \cup {n + 1} \in SUBSET (1 .. n + 1)
    BY <2>3, <1>3
  <2> QED BY <2>5, <2>6, <2>7
<1>7. RunsIn(q) = Append(R, r)
  <2>1. PICK A : A = RunSet \cup RatingSet
    OBVIOUS
  <2>2. r \in A /\ js \in Seq(A) /\ S \in SUBSET (1 .. Len(js))
    BY <2>1, <1>1, <1>3
  <2>3. Those(Append(js, r), S \cup {Len(js) + 1}) = Append(Those(js, S), r)
    BY <2>2, SelectedOnward, ZenonT(40)
  <2> QED BY <2>3, <1>1, <1>2, <1>4, <1>6 DEF RunsIn
<1>8. PICK m \in Nat : m = Len(R) /\ R \in Seq(RunSet)
  BY <1>3 DEF Selects
<1>9. RunsOK(R)
  BY DEF JournalsOK
<1>10. RunOK(Append(R, r), Len(R) + 1)
  <2>1. PICK Q : Q = Append(R, r)
    OBVIOUS
  <2>2. Q[m + 1] = r /\ \A k \in 1 .. m : Q[k] = R[k]
    BY <2>1, <1>8
  <2>3. \A l \in 1 .. m : R[l].id \in 1 .. n
    BY <1>1, <1>8, IdsBelow
  <2>4. \A l \in 1 .. m : Q[l].id < Q[m + 1].id
    BY <2>2, <2>3, <1>1
  <2>5. (m + 1) - 1 = m
    OBVIOUS
  <2> QED BY <2>1, <2>2, <2>4, <2>5, <1>8 DEF RunOK
<1>11. RunsOK(Append(R, r))
  BY <1>9, <1>10, RunsGrow
<1>12. \A i \in 1 .. n + 1 : q[i].id = i
  <2>1. \A i \in 1 .. n + 1 : i \in 1 .. n \/ i = n + 1
    OBVIOUS
  <2> QED BY <2>1, <1>1, <1>5 DEF JournalsOK
<1> QED BY <1>4, <1>5, <1>7, <1>11, <1>12 DEF JournalsOK

LEMMA RatingAdded ==
    ASSUME NEW js, JournalsOK(js), NEW r \in RatingSet, r.id = Len(js) + 1
    PROVE  JournalsOK(Append(js, r)) /\ RunsIn(Append(js, r)) = RunsIn(js)
<1>1. PICK n \in Nat : n = Len(js) /\ DOMAIN js = 1 .. n /\ js \in Seq(RunSet \cup RatingSet)
  BY DEF JournalsOK
<1>2. PICK S : S = Executed(js)
  OBVIOUS
<1>3. S \in SUBSET (1 .. n)
  BY <1>1, <1>2, RunsAre
<1>4. PICK q : q = Append(js, r)
  OBVIOUS
<1>5. /\ q \in Seq(RunSet \cup RatingSet) /\ Len(q) = n + 1 /\ DOMAIN q = 1 .. n + 1
      /\ q[n + 1] = r /\ \A i \in 1 .. n : q[i] = js[i]
  BY <1>1, <1>4
<1>6. Executed(q) = S
  <2>1. r.kind = "rating"
    BY RatingFields
  <2>2. \A i \in 1 .. n + 1 : i \in 1 .. n \/ i = n + 1
    OBVIOUS
  <2>3. \A i \in 1 .. n : i \in 1 .. n + 1
    OBVIOUS
  <2> QED BY <2>1, <2>2, <2>3, <1>1, <1>2, <1>5 DEF Executed
<1>7. RunsIn(q) = RunsIn(js)
  <2>1. PICK A : A = RunSet \cup RatingSet
    OBVIOUS
  <2>2. r \in A /\ js \in Seq(A) /\ S \in SUBSET (1 .. Len(js))
    BY <2>1, <1>1, <1>3
  <2>3. Those(Append(js, r), S) = Those(js, S)
    BY <2>2, SelectedOnward, ZenonT(40)
  <2> QED BY <2>3, <1>2, <1>4, <1>6 DEF RunsIn
<1>8. \A i \in 1 .. n + 1 : q[i].id = i
  <2>1. \A i \in 1 .. n + 1 : i \in 1 .. n \/ i = n + 1
    OBVIOUS
  <2> QED BY <2>1, <1>1, <1>5 DEF JournalsOK
<1> QED BY <1>4, <1>5, <1>7, <1>8 DEF JournalsOK

\* A step adds a run, or a receipt to the last one.
Asked(R, Q) == \E r \in RunSet : Q = Append(R, r)

Confirmed(R, Q) ==
    \E n \in Nat \ {0}, last \in RunSet, r \in RunSet, f \in FrameSet :
        /\ n = Len(R) /\ last = R[n] /\ Q = Changed(R, n, r)
        /\ r = [last EXCEPT !.frames = Append(last.frames, f)] /\ Delivers(f)

SameButFrames(r, q) ==
    /\ r.id = q.id /\ r.at = q.at /\ r.kind = q.kind /\ r.group = q.group /\ r.role = q.role

LEMMA RunShown ==
    ASSUME NEW js, JournalsOK(js), NEW R, R = RunsIn(js), NEW n \in Nat \ {0}, n = Len(R),
           NEW r \in RunSet, SameButFrames(r, R[n]), FramesOK(r)
    PROVE  LET q == Changed(js, r.id, r)
           IN  JournalsOK(q) /\ RunsIn(q) = Changed(R, n, r)
<1>0. /\ r.id = R[n].id /\ r.at = R[n].at /\ r.kind = R[n].kind /\ r.group = R[n].group
      /\ r.role = R[n].role
  BY DEF SameButFrames
<1>1. PICK m \in Nat : m = Len(js) /\ DOMAIN js = 1 .. m /\ js \in Seq(RunSet \cup RatingSet)
  BY DEF JournalsOK
<1>2. PICK S : S = Executed(js)
  OBVIOUS
<1>3. Selects(R, RunSet, js, S) /\ S \in SUBSET (1 .. m)
  BY <1>1, <1>2, RunsAre
<1>4. PICK i \in S : i = Nth(S, n) /\ R[n] = js[i]
  <2>1. n = Cardinality(S) /\ n \in 1 .. n
    BY <1>3 DEF Selects
  <2> QED BY <2>1, <1>3 DEF Selects
<1>5. r.id = i /\ i \in 1 .. m
  BY <1>0, <1>1, <1>3, <1>4 DEF JournalsOK
<1>6. PICK q : q = [js EXCEPT ![i] = r]
  OBVIOUS
<1>7. /\ q \in Seq(RunSet \cup RatingSet) /\ Len(q) = m /\ DOMAIN q = 1 .. m
      /\ q[i] = r /\ \A j \in 1 .. m : j # i => q[j] = js[j]
  BY <1>1, <1>5, <1>6
<1>8. Executed(q) = S
  <2>0. r.kind # "rating"
    BY RunFields
  <2>1. r.kind # "rating" /\ js[i].kind # "rating"
    BY <2>0, <1>0, <1>4
  <2> QED BY <2>1, <1>1, <1>2, <1>7 DEF Executed
<1>9. RunsIn(q) = [R EXCEPT ![n] = r]
  <2>1. PICK A : A = RunSet \cup RatingSet
    OBVIOUS
  <2>2. n \in 1 .. Cardinality(S)
    BY <1>3 DEF Selects
  <2>3. r \in A /\ js \in Seq(A) /\ S \in SUBSET (1 .. Len(js))
    BY <2>1, <1>1, <1>3
  <2>4. Those([js EXCEPT ![Nth(S, n)] = r], S) = [Those(js, S) EXCEPT ![n] = r]
    <3>1. Those(Changed(js, Nth(S, n), r), S) = Changed(Those(js, S), n, r)
      BY <2>2, <2>3, SelectedChanged, Zenon
    <3> QED BY <3>1, Zenon DEF Changed
  <2> QED BY <2>4, <1>2, <1>4, <1>6, <1>8 DEF RunsIn
<1>10. RunsOK([R EXCEPT ![n] = r])
  BY <1>0, RunsChange DEF JournalsOK
<1>11. \A j \in 1 .. m : q[j].id = j
  BY <1>1, <1>5, <1>7 DEF JournalsOK
<1>12. JournalsOK(q)
  BY <1>7, <1>9, <1>10, <1>11 DEF JournalsOK
<1> QED BY <1>5, <1>6, <1>9, <1>12 DEF Changed

LEMMA NoJournals == JournalsOK(<<>>)
<1>1. PICK js : js = <<>>
  OBVIOUS
<1>2. js \in Seq(RunSet \cup RatingSet) /\ Len(js) = 0
  BY <1>1
<1>3. Selects(RunsIn(js), RunSet, js, Executed(js)) /\ Executed(js) \in SUBSET (1 .. 0)
  BY <1>2, RunsAre
<1>4. Executed(js) = {}
  BY <1>3
<1>5. Len(RunsIn(js)) = 0 /\ RunsIn(js) \in Seq(RunSet)
  BY <1>3, <1>4, FS_EmptySet DEF Selects
<1>6. RunsOK(RunsIn(js))
  BY <1>5 DEF RunsOK
<1> QED BY <1>1, <1>2, <1>6 DEF JournalsOK

LEMMA LastOne ==
    ASSUME NEW S, NEW R \in Seq(S), NEW n \in Nat, n = Len(R), NEW r \in S
    PROVE  /\ Append(R, r)[n + 1] = r /\ \A k \in 1 .. n : Append(R, r)[k] = R[k]
           /\ R # <<>> => n # 0 /\ Last(R) = R[n] /\ n \in 1 .. n /\ R[n] \in S
BY DEF Last

\* The journals of a session that is asked, retried, delivered, rated.
LEMMA AskKeeps ==
    ASSUME JournalsOK(journals), NEW role \in HumanInput, NEW shape \in Shapes, NEW custom \in BOOLEAN,
           Ask(role, shape, custom)
    PROVE  JournalsOK(journals') /\ Asked(RunsIn(journals), RunsIn(journals'))
<1>1. PICK R : R = Runs
  OBVIOUS
<1>2. R = RunsIn(journals)
  BY <1>1 DEF Runs, RunsIn, Executed
<1>3. PICK m \in Nat : m = Len(journals)
  BY DEF JournalsOK
<1>4. PICK kind \in {"initial", "followup"} : kind = IF Runs = <<>> THEN "initial" ELSE "followup"
  OBVIOUS
<1>5. PICK path \in Int : path = IF custom THEN -Id ELSE Id
  BY <1>3 DEF Id
<1>6. PICK fs : fs = Attempt(shape, role, FALSE)
  OBVIOUS
<1>7. PICK b \in Final : Reaches(fs, b, role, FALSE)
  BY <1>6, AttemptReaches
<1>8. fs \in Seq(FrameSet)
  BY <1>7 DEF Reaches
<1>9. PICK r : r = Journal(Id, kind, role, 1, path, fs)
  OBVIOUS
<1>10. /\ r \in RunSet /\ r.frames = fs /\ r.id = Id /\ r.group = Id /\ r.kind = kind
       /\ r.role = role /\ r.at = Id
  <2>1. Id \in Nat /\ 1 \in Nat /\ kind \in {"legacy", "initial", "followup", "retry"}
    BY <1>3 DEF Id
  <2> QED BY <2>1, <1>8, <1>9, RunMade
<1>11. journals' = Append(journals, r)
  BY <1>4, <1>5, <1>6, <1>9 DEF Ask
<1>12. FramesOK(r)
  BY <1>7, <1>10 DEF FramesOK
<1>13. LinkOK(Append(R, r), Len(R) + 1)
  <2>1. R \in Seq(RunSet) /\ Len(R) \in Nat
    BY <1>2 DEF JournalsOK, RunsOK
  <2>2. Append(R, r)[Len(R) + 1] = r
    BY <2>1, <1>10, LastOne
  <2> QED BY <2>2, <1>10 DEF LinkOK
<1>14. r.id = Len(journals) + 1 /\ r.at = r.id
  BY <1>10 DEF Id
<1>15. JournalsOK(Append(journals, r)) /\ RunsIn(Append(journals, r)) = Append(R, r)
  BY <1>2, <1>10, <1>12, <1>13, <1>14, RunAdded
<1> QED BY <1>2, <1>10, <1>11, <1>15 DEF Asked

LEMMA RetryKeeps ==
    ASSUME JournalsOK(journals), NEW shape \in Shapes, Retry(shape)
    PROVE  JournalsOK(journals') /\ Asked(RunsIn(journals), RunsIn(journals'))
<1>1. PICK R : R = Runs
  OBVIOUS
<1>2. R = RunsIn(journals)
  BY <1>1 DEF Runs, RunsIn, Executed
<1>3. PICK m \in Nat : m = Len(journals)
  BY DEF JournalsOK
<1>4. PICK n \in Nat : n = Len(R) /\ R \in Seq(RunSet)
  BY <1>2 DEF JournalsOK, RunsOK
<1>5. PICK last \in RunSet : last = R[n] /\ last = LastRun /\ n # 0 /\ n \in 1 .. n
  <2>1. R # <<>>
    BY <1>1 DEF Retry
  <2> QED BY <2>1, <1>1, <1>4, LastOne DEF LastRun
<1>6. PICK fs : fs = Attempt(shape, last.role, TRUE)
  OBVIOUS
<1>7. PICK b \in Final : Reaches(fs, b, last.role, TRUE)
  BY <1>6, RunFields, AttemptReaches
<1>8. fs \in Seq(FrameSet)
  BY <1>7 DEF Reaches
<1>9. PICK r : r = Journal(last.group, "retry", last.role, last.attempt + 1, Id, fs)
  OBVIOUS
<1>10. /\ r \in RunSet /\ r.frames = fs /\ r.id = Id /\ r.group = last.group /\ r.kind = "retry"
       /\ r.role = last.role /\ r.at = Id
  <2>1. /\ Id \in Nat /\ Id \in Int /\ last.attempt + 1 \in Nat /\ last.group \in Nat
        /\ last.role \in HumanInput
    BY <1>3, RunFields DEF Id
  <2>2. "retry" \in {"legacy", "initial", "followup", "retry"}
    OBVIOUS
  <2> QED BY <2>1, <2>2, <1>8, <1>9, RunMade
<1>11. journals' = Append(journals, r)
  BY <1>5, <1>6, <1>9 DEF Retry
<1>12. FramesOK(r)
  BY <1>7, <1>10 DEF FramesOK
<1>13. LinkOK(Append(R, r), n + 1)
  <2>0. Append(R, r)[n + 1] = r /\ \A k \in 1 .. n : Append(R, r)[k] = R[k]
    BY <1>4, <1>10, LastOne
  <2>1. Append(R, r)[n + 1] = r /\ Append(R, r)[n] = last
    BY <1>5, <2>0, Zenon
  <2>2. Fails(last)
    BY <1>5 DEF Retry, Fails
  <2>3. (n + 1) - 1 = n /\ n + 1 > 1
    BY <1>5
  <2> QED BY <2>1, <2>2, <2>3, <1>10 DEF LinkOK
<1>14. r.id = Len(journals) + 1 /\ r.at = r.id
  BY <1>10 DEF Id
<1>15. JournalsOK(Append(journals, r)) /\ RunsIn(Append(journals, r)) = Append(R, r)
  BY <1>2, <1>4, <1>10, <1>12, <1>13, <1>14, RunAdded
<1> QED BY <1>2, <1>10, <1>11, <1>15 DEF Asked

LEMMA LegacySilent ==
    ASSUME NEW fs, LegacyFrames(fs)
    PROVE  \A i \in DOMAIN fs : fs[i].is # "boundary" /\ fs[i].is # "failure"
<1>1. PICK f, g, h, e : /\ f = Unit("prompt", TRUE, "words") /\ g = Unit("response", FALSE, "answer")
                        /\ h = Finished("succeeded") /\ e = Finished("failed")
  OBVIOUS
<1>2. fs = <<f, g, h>> \/ fs = <<f, e>>
  BY <1>1 DEF LegacyFrames
<1>3. \A i \in DOMAIN fs : fs[i] \in {f, g, h, e}
  BY <1>2
<1>4. \A x \in {f, g, h, e} : x.is # "boundary" /\ x.is # "failure"
  BY <1>1 DEF Unit, Finished
<1> QED BY <1>3, <1>4

LEMMA DeliverKeeps ==
    ASSUME JournalsOK(journals), Deliver
    PROVE  JournalsOK(journals') /\ Confirmed(RunsIn(journals), RunsIn(journals'))
<1>1. PICK R : R = Runs
  OBVIOUS
<1>2. R = RunsIn(journals)
  BY <1>1 DEF Runs, RunsIn, Executed
<1>4. PICK n \in Nat : n = Len(R) /\ R \in Seq(RunSet)
  BY <1>2 DEF JournalsOK, RunsOK
<1>5. PICK last \in RunSet : last = R[n] /\ last = LastRun /\ n # 0 /\ n \in 1 .. n
  <2>1. R # <<>>
    BY <1>1 DEF Deliver
  <2> QED BY <2>1, <1>1, <1>4, LastOne DEF LastRun
<1>6. PICK i \in DOMAIN last.frames :
         /\ Releases(last.frames[i]) /\ ~Contains(last.frames, Receipt(last.frames[i]))
         /\ journals' = [journals EXCEPT ![last.id].frames = Append(@, Receipt(last.frames[i]))]
  BY <1>5 DEF Deliver, Releases, Receipt
<1>7. RunOK(R, n)
  BY <1>2, <1>4, <1>5 DEF JournalsOK, RunsOK
<1>8. last.kind # "legacy" /\ \E b \in Final : Reaches(last.frames, b, last.role, last.kind = "retry")
  <2>1. FramesOK(last)
    BY <1>5, <1>7 DEF RunOK
  <2>2. ASSUME LegacyFrames(last.frames) PROVE FALSE
    BY <2>2, <1>6, LegacySilent DEF Releases
  <2> QED BY <2>1, <2>2 DEF FramesOK
<1>9. PICK fs : fs = Append(last.frames, Receipt(last.frames[i]))
  OBVIOUS
<1>10. Reaches(fs, "shown", last.role, last.kind = "retry")
  BY <1>6, <1>8, <1>9, RunFields, ReceiptReaches
<1>11. fs \in Seq(FrameSet)
  BY <1>10 DEF Reaches
<1>12. PICK r \in RunSet : /\ r = [last EXCEPT !.frames = fs] /\ r.frames = fs /\ r.id = last.id
                           /\ r.group = last.group /\ r.kind = last.kind /\ r.role = last.role
                           /\ r.at = last.at
  BY <1>11, RunChanged
<1>13. FramesOK(r)
  BY <1>8, <1>10, <1>12 DEF FramesOK, Final
<1>14. journals[last.id] = last
  <2>1. \A k \in 1 .. Len(R) : journals[R[k].id] = R[k]
    BY <1>2, IdsBelow
  <2> QED BY <2>1, <1>4, <1>5
<1>15. journals' = Changed(journals, r.id, r)
  <2>1. journals' = [journals EXCEPT ![last.id] =
                       [journals[last.id] EXCEPT !.frames =
                           Append(journals[last.id].frames, Receipt(last.frames[i]))]]
    BY <1>6
  <2> QED BY <2>1, <1>9, <1>12, <1>14 DEF Changed
<1>16. /\ JournalsOK(Changed(journals, r.id, r)) /\ n \in Nat \ {0}
       /\ RunsIn(Changed(journals, r.id, r)) = Changed(R, n, r)
  <2>1. n \in Nat \ {0}
    BY <1>5
  <2>2. SameButFrames(r, R[n])
    BY <1>5, <1>12 DEF SameButFrames
  <2> QED BY <2>1, <2>2, <1>2, <1>4, <1>13, RunShown
<1>17. PICK f \in FrameSet : f = Receipt(last.frames[i]) /\ Delivers(f)
  <2>1. last.frames[i] \in FrameSet
    BY RunFields
  <2> QED BY <2>1, <1>6, ReceiptTyped
<1>18. r = [last EXCEPT !.frames = Append(last.frames, f)]
  BY <1>9, <1>12, <1>17
<1> QED BY <1>2, <1>4, <1>5, <1>15, <1>16, <1>17, <1>18 DEF Confirmed

LEMMA LegacyKeeps ==
    ASSUME JournalsOK(journals), NEW answered \in BOOLEAN, Legacy(answered)
    PROVE  JournalsOK(journals') /\ Asked(RunsIn(journals), RunsIn(journals'))
<1>1. PICK R : R = Runs
  OBVIOUS
<1>2. R = RunsIn(journals)
  BY <1>1 DEF Runs, RunsIn, Executed
<1>3. PICK m \in Nat : m = Len(journals)
  BY DEF JournalsOK
<1>4. PICK f, g, h, e : /\ f = Unit("prompt", TRUE, "words") /\ g = Unit("response", FALSE, "answer")
                        /\ h = Finished("succeeded") /\ e = Finished("failed")
  OBVIOUS
<1>5. f \in FrameSet /\ g \in FrameSet /\ h \in FrameSet /\ e \in FrameSet
  <2>1. /\ "prompt" \in HumanInput \cup {"response"} /\ "response" \in HumanInput \cup {"response"}
        /\ TRUE \in BOOLEAN /\ FALSE \in BOOLEAN /\ "words" \in Contents /\ "answer" \in Contents
        /\ "succeeded" \in {"succeeded", "failed", "cancelled"}
        /\ "failed" \in {"succeeded", "failed", "cancelled"}
    BY DEF HumanInput, Contents
  <2> QED BY <2>1, <1>4, FramesTyped
<1>6. PICK fs : fs = <<f>> \o IF answered THEN <<g, h>> ELSE <<e>>
  OBVIOUS
<1>7. fs = IF answered THEN <<f, g, h>> ELSE <<f, e>>
  BY <1>6
<1>8. fs \in Seq(FrameSet) /\ LegacyFrames(fs)
  <2>1. fs \in Seq(FrameSet)
    BY <1>5, <1>7
  <2> QED BY <2>1, <1>4, <1>7 DEF LegacyFrames
<1>9. PICK r : r = Journal(Id, "legacy", "prompt", 1, Id, fs)
  OBVIOUS
<1>10. /\ r \in RunSet /\ r.frames = fs /\ r.id = Id /\ r.group = Id /\ r.kind = "legacy"
       /\ r.role = "prompt" /\ r.at = Id
  <2>1. /\ Id \in Nat /\ Id \in Int /\ 1 \in Nat /\ "prompt" \in HumanInput
        /\ "legacy" \in {"legacy", "initial", "followup", "retry"}
    BY <1>3 DEF Id, HumanInput
  <2> QED BY <2>1, <1>8, <1>9, RunMade
<1>11. journals' = Append(journals, r)
  BY <1>4, <1>6, <1>9 DEF Legacy
<1>12. FramesOK(r)
  BY <1>8, <1>10 DEF FramesOK
<1>13. LinkOK(Append(R, r), Len(R) + 1)
  <2>1. R \in Seq(RunSet) /\ Len(R) \in Nat
    BY <1>2 DEF JournalsOK, RunsOK
  <2>2. Append(R, r)[Len(R) + 1] = r
    BY <2>1, <1>10, LastOne
  <2> QED BY <2>2, <1>10 DEF LinkOK
<1>14. r.id = Len(journals) + 1 /\ r.at = r.id
  BY <1>10 DEF Id
<1>15. JournalsOK(Append(journals, r)) /\ RunsIn(Append(journals, r)) = Append(R, r)
  BY <1>2, <1>10, <1>12, <1>13, <1>14, RunAdded
<1> QED BY <1>2, <1>10, <1>11, <1>15 DEF Asked

LEMMA RecordKeeps ==
    ASSUME JournalsOK(journals), Record
    PROVE  JournalsOK(journals') /\ RunsIn(journals') = RunsIn(journals)
<1>1. CASE ~rater.decided
  BY <1>1 DEF Record
<1>2. CASE rater.decided
  <2>1. PICK f, g, h : /\ f = [is |-> "segmentation"] /\ g = [is |-> "sample"]
                       /\ h = Finished("succeeded")
    OBVIOUS
  <2>2. f \in RatingFrames /\ g \in RatingFrames /\ h \in RatingFrames
    <3>1. f \in [is : {"segmentation", "sample"}] /\ g \in [is : {"segmentation", "sample"}]
      BY <2>1
    <3>2. h \in Ends
      BY <2>1 DEF Finished, Ends
    <3> QED BY <3>1, <3>2 DEF RatingFrames
  <2>3. PICK fs : fs = <<f>> \o (IF rater.scored THEN <<g>> ELSE <<>>) \o <<h>>
    OBVIOUS
  <2>4. fs \in Seq(RatingFrames)
    <3>1. CASE rater.scored
      <4>1. fs = <<f>> \o <<g>> \o <<h>>
        BY <2>3, <3>1
      <4> QED BY <4>1, <2>2
    <3>2. CASE ~rater.scored
      <4>1. fs = <<f>> \o <<>> \o <<h>>
        BY <2>3, <3>2
      <4> QED BY <4>1, <2>2
    <3> QED BY <3>1, <3>2
  <2>5. PICK r : r = Journal(Id, "rating", "", 1, Id, fs)
    OBVIOUS
  <2>6. journals' = Append(journals, r)
    BY <1>2, <2>1, <2>3, <2>5 DEF Record
  <2>7. Id \in Nat /\ Id \in Int
    <3>1. Len(journals) \in Nat
      BY DEF JournalsOK
    <3> QED BY <3>1 DEF Id
  <2>8. r \in RatingSet /\ r.id = Id
    <3>1. PICK F : F = Seq(RatingFrames)
      OBVIOUS
    <3>2. fs \in F
      BY <3>1, <2>4
    <3> QED BY <3>1, <3>2, <2>5, <2>7 DEF Journal, RatingSet
  <2> QED BY <2>6, <2>8, RatingAdded DEF Id
<1> QED BY <1>1, <1>2

-----------------------------------------------------------------------------
(* What a turn does to the turns before it.                                *)

LEMMA FirstOf ==
    ASSUME NEW n \in Nat, NEW I \in SUBSET (1 .. n), NEW k, k = IF I # {} THEN Min(I) ELSE 0
    PROVE  k \in 0 .. n /\ (k # 0 => k \in I) /\ (k = 0 => I = {})
<1>1. CASE I = {}
  BY <1>1
<1>2. CASE I # {}
  <2>1. I \in SUBSET Nat
    OBVIOUS
  <2>2. k \in I
    BY <2>1, <1>2, MinOf
  <2> QED BY <2>2
<1> QED BY <1>1, <1>2

AnswerOf(turns, c) == SelectInSeq(turns, LAMBDA t : SameResponse(t, c))
InputOf(turns, c) == SelectInSeq(turns, LAMBDA t : SameContribution(t, c))

LEMMA AnswerAt ==
    ASSUME NEW turns, NEW n \in Nat, n = Len(turns), NEW c
    PROVE  LET k == AnswerOf(turns, c) IN
           /\ k \in 0 .. n /\ (k # 0 => SameResponse(turns[k], c))
           /\ k = 0 => \A j \in 1 .. n : ~SameResponse(turns[j], c)
<1> DEFINE I == {i \in 1 .. n : SameResponse(turns[i], c)}
<1>1. PICK k : k = AnswerOf(turns, c)
  OBVIOUS
<1>2. k = IF I # {} THEN Min(I) ELSE 0
  BY <1>1 DEF AnswerOf, SelectInSeq
<1>3. I \in SUBSET (1 .. n)
  OBVIOUS
<1>4. k \in 0 .. n /\ (k # 0 => k \in I) /\ (k = 0 => I = {})
  <2> HIDE DEF I
  <2> QED BY <1>2, <1>3, FirstOf
<1> QED BY <1>1, <1>4

LEMMA InputAt ==
    ASSUME NEW turns, NEW n \in Nat, n = Len(turns), NEW c
    PROVE  LET k == InputOf(turns, c) IN
           /\ k \in 0 .. n /\ (k # 0 => SameContribution(turns[k], c))
           /\ k = 0 => \A j \in 1 .. n : ~SameContribution(turns[j], c)
<1> DEFINE I == {i \in 1 .. n : SameContribution(turns[i], c)}
<1>1. PICK k : k = InputOf(turns, c)
  OBVIOUS
<1>2. k = IF I # {} THEN Min(I) ELSE 0
  BY <1>1 DEF InputOf, SelectInSeq
<1>3. I \in SUBSET (1 .. n)
  OBVIOUS
<1>4. k \in 0 .. n /\ (k # 0 => k \in I) /\ (k = 0 => I = {})
  <2> HIDE DEF I
  <2> QED BY <1>2, <1>3, FirstOf
<1> QED BY <1>1, <1>4

SameTurn(t, u) ==
    t.actor = u.actor /\ t.group = u.group /\ t.role = u.role /\ t.content = u.content

LEMMA TurnFields ==
    ASSUME NEW t \in TurnSet
    PROVE  /\ t.actor \in Actors /\ t.group \in Nat /\ t.role \in TurnRoles
           /\ t.content \in Contents /\ t.visible \in BOOLEAN /\ t.refs \in Seq(Nat \X Nat)
<1>1. PICK F : F = Seq(Nat \X Nat)
  OBVIOUS
<1> QED BY <1>1 DEF TurnSet

LEMMA RefsCounted ==
    \A t \in TurnSet : Len(t.refs) \in Nat
BY TurnFields

LEMMA TurnExtended ==
    ASSUME NEW t \in TurnSet, NEW refs \in Seq(Nat \X Nat)
    PROVE  LET u == [t EXCEPT !.refs = refs]
           IN  u \in TurnSet /\ SameTurn(u, t) /\ u.refs = refs /\ u.visible = t.visible
<1>1. PICK F : F = Seq(Nat \X Nat)
  OBVIOUS
<1>2. refs \in F /\ t \in [actor : Actors, group : Nat, role : TurnRoles, content : Contents,
                          refs : F, visible : BOOLEAN]
  BY <1>1 DEF TurnSet
<1> QED BY <1>1, <1>2 DEF TurnSet, SameTurn

LEMMA TurnSeen ==
    ASSUME NEW t \in TurnSet, NEW v \in BOOLEAN
    PROVE  LET u == [t EXCEPT !.visible = v]
           IN  u \in TurnSet /\ SameTurn(u, t) /\ u.refs = t.refs /\ u.visible = v
<1>1. PICK F : F = Seq(Nat \X Nat)
  OBVIOUS
<1>2. t \in [actor : Actors, group : Nat, role : TurnRoles, content : Contents,
            refs : F, visible : BOOLEAN]
  BY <1>1 DEF TurnSet
<1> QED BY <1>1, <1>2 DEF TurnSet, SameTurn

\* Turn k of T gains references or becomes visible in U.
Revised(T, U, k, refs, visible) ==
    /\ U \in Seq(TurnSet) /\ Len(U) = Len(T) /\ k \in 1 .. Len(T)
    /\ \A j \in 1 .. Len(T) : j # k => U[j] = T[j]
    /\ SameTurn(U[k], T[k]) /\ U[k].refs = refs /\ U[k].visible = visible

LEMMA Revising ==
    ASSUME NEW T \in Seq(TurnSet), NEW k \in 1 .. Len(T), NEW u \in TurnSet, SameTurn(u, T[k])
    PROVE  Revised(T, [T EXCEPT ![k] = u], k, u.refs, u.visible)
<1>1. PICK n \in Nat : n = Len(T)
  OBVIOUS
<1>2. PICK U : U = [T EXCEPT ![k] = u]
  OBVIOUS
<1>3. U \in Seq(TurnSet) /\ Len(U) = n /\ U[k] = u /\ \A j \in 1 .. n : j # k => U[j] = T[j]
  BY <1>1, <1>2
<1> QED BY <1>1, <1>2, <1>3 DEF Revised

LEMMA MergeLegacyCases ==
    ASSUME NEW T \in Seq(TurnSet), NEW c \in TurnSet
    PROVE  \/ \E k \in 1 .. Len(T) :
                 /\ SameContribution(T[k], c)
                 /\ Revised(T, MergeLegacy(T, c), k, T[k].refs \o c.refs, T[k].visible)
           \/ /\ \A j \in 1 .. Len(T) : ~SameContribution(T[j], c)
              /\ MergeLegacy(T, c) = Append(T, c)
<1>1. PICK n \in Nat : n = Len(T)
  OBVIOUS
<1>2. PICK k : k = InputOf(T, c)
  OBVIOUS
<1>3. /\ k \in 0 .. n /\ (k # 0 => SameContribution(T[k], c))
      /\ k = 0 => \A j \in 1 .. n : ~SameContribution(T[j], c)
  BY <1>1, <1>2, InputAt
<1>4. CASE k = 0
  <2>1. MergeLegacy(T, c) = Append(T, c)
    BY <1>2, <1>4 DEF MergeLegacy, InputOf, SelectInSeq
  <2> QED BY <2>1, <1>1, <1>3, <1>4
<1>5. CASE k # 0
  <2>1. k \in 1 .. n
    BY <1>3, <1>5
  <2>2. PICK t \in TurnSet : t = T[k]
    BY <2>1, <1>1
  <2>3. PICK refs \in Seq(Nat \X Nat) : refs = t.refs \o c.refs
    <3>1. t.refs \in Seq(Nat \X Nat) /\ c.refs \in Seq(Nat \X Nat)
      BY TurnFields
    <3> QED BY <3>1, Appending
  <2>4. PICK u \in TurnSet : /\ u = [t EXCEPT !.refs = refs] /\ SameTurn(u, t)
                             /\ u.refs = refs /\ u.visible = t.visible
    <3>1. LET u == [t EXCEPT !.refs = refs]
          IN  u \in TurnSet /\ SameTurn(u, t) /\ u.refs = refs /\ u.visible = t.visible
      BY TurnExtended, Zenon
    <3> QED BY <3>1
  <2>5. MergeLegacy(T, c) = [T EXCEPT ![k] = u]
    <3>1. MergeLegacy(T, c) = [T EXCEPT ![k].refs = T[k].refs \o c.refs]
      BY <1>2, <1>5 DEF MergeLegacy, InputOf, SelectInSeq
    <3> QED BY <3>1, <2>2, <2>3, <2>4
  <2>6. Revised(T, [T EXCEPT ![k] = u], k, u.refs, u.visible)
    BY <2>1, <2>2, <2>4, <1>1, Revising
  <2>7. Revised(T, MergeLegacy(T, c), k, T[k].refs \o c.refs, T[k].visible)
    BY <2>2, <2>3, <2>4, <2>5, <2>6
  <2>8. k \in 1 .. Len(T) /\ SameContribution(T[k], c)
    BY <2>1, <1>1, <1>3, <1>5
  <2> QED BY <2>7, <2>8
<1> QED BY <1>4, <1>5

LEMMA MergeCases ==
    ASSUME NEW T \in Seq(TurnSet), NEW c \in TurnSet
    PROVE  \/ \E k \in 1 .. Len(T) :
                 /\ SameResponse(T[k], c)
                 /\ Revised(T, Merge(T, c), k, T[k].refs, T[k].visible \/ c.visible)
           \/ \E k \in 1 .. Len(T) :
                 /\ c.actor = "human" /\ c.role \in HumanInput /\ SameContribution(T[k], c)
                 /\ Revised(T, Merge(T, c), k, T[k].refs \o c.refs, T[k].visible)
           \/ /\ \A j \in 1 .. Len(T) : ~SameResponse(T[j], c)
              /\ c.actor = "human" /\ c.role \in HumanInput =>
                    \A j \in 1 .. Len(T) : ~SameContribution(T[j], c)
              /\ Merge(T, c) = Append(T, c)
<1>1. PICK n \in Nat : n = Len(T)
  OBVIOUS
<1>2. PICK a : a = AnswerOf(T, c)
  OBVIOUS
<1>3. /\ a \in 0 .. n /\ (a # 0 => SameResponse(T[a], c))
      /\ a = 0 => \A j \in 1 .. n : ~SameResponse(T[j], c)
  BY <1>1, <1>2, AnswerAt
<1>4. PICK s : s = InputOf(T, c)
  OBVIOUS
<1>5. /\ s \in 0 .. n /\ (s # 0 => SameContribution(T[s], c))
      /\ s = 0 => \A j \in 1 .. n : ~SameContribution(T[j], c)
  BY <1>1, <1>4, InputAt
<1>6. PICK k : k = IF c.actor = "human" /\ c.role \in HumanInput THEN s ELSE 0
  OBVIOUS
<1>7. Merge(T, c) = IF a # 0 THEN [T EXCEPT ![a].visible = T[a].visible \/ c.visible]
                    ELSE IF k # 0 THEN [T EXCEPT ![k].refs = T[k].refs \o c.refs]
                    ELSE Append(T, c)
  BY <1>2, <1>4, <1>6 DEF Merge, AnswerOf, InputOf, SelectInSeq
<1>8. CASE a # 0
  <2>1. a \in 1 .. n
    BY <1>3, <1>8
  <2>2. PICK t \in TurnSet : t = T[a]
    BY <2>1, <1>1
  <2>3. PICK v \in BOOLEAN : v = (t.visible \/ c.visible)
    OBVIOUS
  <2>4. PICK u \in TurnSet : /\ u = [t EXCEPT !.visible = v] /\ SameTurn(u, t)
                             /\ u.refs = t.refs /\ u.visible = v
    BY TurnSeen
  <2>5. Merge(T, c) = [T EXCEPT ![a] = u]
    <3>1. Merge(T, c) = [T EXCEPT ![a].visible = T[a].visible \/ c.visible]
      BY <1>7, <1>8
    <3> QED BY <3>1, <2>2, <2>3, <2>4
  <2>6. Revised(T, [T EXCEPT ![a] = u], a, u.refs, u.visible)
    BY <2>1, <2>2, <2>4, <1>1, Revising
  <2>7. Revised(T, Merge(T, c), a, T[a].refs, T[a].visible \/ c.visible)
    BY <2>2, <2>3, <2>4, <2>5, <2>6
  <2>8. a \in 1 .. Len(T) /\ SameResponse(T[a], c)
    BY <2>1, <1>1, <1>3, <1>8
  <2> QED BY <2>7, <2>8
<1>9. CASE a = 0 /\ k # 0
  <2>1. k \in 1 .. n /\ c.actor = "human" /\ c.role \in HumanInput /\ SameContribution(T[k], c)
    BY <1>5, <1>6, <1>9
  <2>2. PICK t \in TurnSet : t = T[k]
    BY <2>1, <1>1
  <2>3. PICK refs \in Seq(Nat \X Nat) : refs = t.refs \o c.refs
    <3>1. t.refs \in Seq(Nat \X Nat) /\ c.refs \in Seq(Nat \X Nat)
      BY TurnFields
    <3> QED BY <3>1, Appending
  <2>4. PICK u \in TurnSet : /\ u = [t EXCEPT !.refs = refs] /\ SameTurn(u, t)
                             /\ u.refs = refs /\ u.visible = t.visible
    <3>1. LET u == [t EXCEPT !.refs = refs]
          IN  u \in TurnSet /\ SameTurn(u, t) /\ u.refs = refs /\ u.visible = t.visible
      BY TurnExtended, Zenon
    <3> QED BY <3>1
  <2>5. Merge(T, c) = [T EXCEPT ![k] = u]
    <3>1. Merge(T, c) = [T EXCEPT ![k].refs = T[k].refs \o c.refs]
      BY <1>7, <1>9
    <3> QED BY <3>1, <2>2, <2>3, <2>4
  <2>6. Revised(T, [T EXCEPT ![k] = u], k, u.refs, u.visible)
    BY <2>1, <2>2, <2>4, <1>1, Revising
  <2>7. Revised(T, Merge(T, c), k, T[k].refs \o c.refs, T[k].visible)
    BY <2>2, <2>3, <2>4, <2>5, <2>6
  <2>8. k \in 1 .. Len(T)
    BY <2>1, <1>1
  <2> QED BY <2>1, <2>7, <2>8
<1>10. CASE a = 0 /\ k = 0
  <2>1. Merge(T, c) = Append(T, c)
    BY <1>7, <1>10
  <2> QED BY <2>1, <1>1, <1>3, <1>5, <1>6, <1>10
<1> QED BY <1>8, <1>9, <1>10

LEMMA TurnMade ==
    ASSUME NEW run, run.id \in Nat, run.group \in Nat, NEW actor \in Actors, NEW role \in TurnRoles,
           NEW content \in Contents, NEW ref \in Nat, NEW visible \in BOOLEAN
    PROVE  LET t == Turn(run, actor, role, content, ref, visible)
           IN  /\ t \in TurnSet /\ t.actor = actor /\ t.group = run.group /\ t.role = role
               /\ t.content = content /\ t.visible = visible /\ t.refs = <<<<run.id, ref>>>>
               /\ Len(t.refs) = 1 /\ t.refs[1] = <<run.id, ref>>
<1>1. PICK F : F = Seq(Nat \X Nat)
  OBVIOUS
<1>2. PICK refs : refs = <<<<run.id, ref>>>>
  OBVIOUS
<1>3. refs \in F /\ Len(refs) = 1 /\ refs[1] = <<run.id, ref>>
  BY <1>1, <1>2
<1>4. Turn(run, actor, role, content, ref, visible)
        = [actor |-> actor, group |-> run.group, role |-> role, content |-> content,
           refs |-> refs, visible |-> visible]
  BY <1>2 DEF Turn
<1> QED BY <1>1, <1>2, <1>3, <1>4 DEF TurnSet

LEMMA FrameKinds ==
    ASSUME NEW f \in FrameSet
    PROVE  /\ f.is = "boundary" => f \in Events
           /\ f.is = "unit" => f \in Units
           /\ f.is = "approval" => f \in Approvals
           /\ f.is \in {"boundary", "unit", "approval", "failure", "repair", "finished"}
<1>1. f \in Units => f.is = "unit"
  BY DEF Units
<1>2. f \in Events => f.is = "boundary"
  BY DEF Events
<1>3. f \in Approvals => f.is = "approval"
  BY DEF Approvals
<1>4. f \in Marks => f.is \in {"failure", "repair"}
  BY DEF Marks
<1>5. f \in Ends => f.is = "finished"
  BY DEF Ends
<1> QED BY <1>1, <1>2, <1>3, <1>4, <1>5 DEF FrameSet

LEMMA EventFields ==
    ASSUME NEW f \in Events
    PROVE  /\ f.actor \in Actors /\ f.role \in TurnRoles /\ f.content \in Contents
           /\ f.visibility \in {"visible", "unknown", "released", "delivered"} /\ f.source \in Nat
BY DEF Events

LEMMA TellTyped ==
    ASSUME NEW run \in RunSet, NEW T \in Seq(TurnSet), NEW i \in 1 .. Len(run.frames)
    PROVE  Tell(run, T, i) \in Seq(TurnSet)
<1>1. run.id \in Nat /\ run.group \in Nat /\ run.frames \in Seq(FrameSet)
  BY RunFields
<1>2. PICK f \in FrameSet : f = run.frames[i]
  BY <1>1
<1>3. i \in Nat
  BY <1>1
<1>4. CASE Explicit(run)
  <2>1. CASE f.is = "boundary"
    <3>1. f \in Events
      BY <2>1, FrameKinds
    <3>2. PICK ref \in Nat : ref = IF f.source = 0 THEN i ELSE f.source
      BY <3>1, <1>3, EventFields
    <3>3. PICK v \in BOOLEAN : v = Crossed(f)
      BY DEF Crossed
    <3>4. PICK c \in TurnSet : c = Turn(run, f.actor, f.role, f.content, ref, v)
      BY <3>1, <1>1, EventFields, TurnMade
    <3>5. Tell(run, T, i) = Merge(T, c)
      BY <1>2, <1>4, <2>1, <3>2, <3>3, <3>4 DEF Tell, EventTurn
    <3>6. Merge(T, c) \in Seq(TurnSet)
      <4>1. Append(T, c) \in Seq(TurnSet)
        OBVIOUS
      <4> QED BY <4>1, MergeCases DEF Revised
    <3> QED BY <3>5, <3>6
  <2>2. CASE f.is # "boundary"
    BY <1>2, <1>4, <2>2 DEF Tell
  <2> QED BY <2>1, <2>2
<1>5. CASE ~Explicit(run)
  <2>1. CASE IsHumanUnit(f) \/ f.is = "approval"
    <3>1. PICK c \in TurnSet : c = SpokenTurn(run, i)
      <4>1. CASE f.is = "approval"
        <5>1. f.decision \in Contents
          <6>1. f \in Approvals
            BY <4>1, FrameKinds
          <6> QED BY <6>1 DEF Approvals, Contents
        <5>2. SpokenTurn(run, i) = Turn(run, "human", "approval_decision", f.decision, i, FALSE)
          BY <1>2, <4>1 DEF SpokenTurn
        <5>3. "human" \in Actors /\ "approval_decision" \in TurnRoles /\ FALSE \in BOOLEAN
          BY DEF Actors, TurnRoles
        <5> QED BY <5>1, <5>2, <5>3, <1>1, <1>3, TurnMade
      <4>2. CASE f.is # "approval"
        <5>1. f \in Units /\ f.role \in HumanInput
          BY <2>1, <4>2, FrameKinds DEF IsHumanUnit
        <5>2. f.role \in TurnRoles /\ f.content \in Contents
          BY <5>1 DEF Units, TurnRoles
        <5>3. SpokenTurn(run, i) = Turn(run, "human", f.role, f.content, i, TRUE)
          BY <1>2, <4>2 DEF SpokenTurn
        <5>4. "human" \in Actors /\ TRUE \in BOOLEAN
          BY DEF Actors
        <5> QED BY <5>2, <5>3, <5>4, <1>1, <1>3, TurnMade
      <4> QED BY <4>1, <4>2
    <3>2. Tell(run, T, i) = MergeLegacy(T, c)
      BY <1>2, <1>5, <2>1, <3>1 DEF Tell
    <3>3. MergeLegacy(T, c) \in Seq(TurnSet)
      <4>1. Append(T, c) \in Seq(TurnSet)
        OBVIOUS
      <4> QED BY <4>1, MergeLegacyCases DEF Revised
    <3> QED BY <3>2, <3>3
  <2>2. CASE ~(IsHumanUnit(f) \/ f.is = "approval")
    BY <1>2, <1>5, <2>2 DEF Tell
  <2> QED BY <2>1, <2>2
<1> QED BY <1>4, <1>5

LEMMA LegacyTyped ==
    ASSUME NEW run \in RunSet
    PROVE  LegacyResponse(run) \in Seq(TurnSet)
<1>1. run.id \in Nat /\ run.group \in Nat /\ run.frames \in Seq(FrameSet)
  BY RunFields
<1>2. PICK n \in Nat : n = Len(run.frames) /\ DOMAIN run.frames = 1 .. n
  BY <1>1
<1> DEFINE at == {i \in 1 .. n : run.frames[i].is = "unit" /\ run.frames[i].role = "response"}
<1>3. LegacyResponse(run) = IF Succeeded(run) /\ at # {}
        THEN <<Turn(run, "ai", "response", run.frames[Max(at)].content, Max(at), FALSE)>>
        ELSE <<>>
  BY <1>2 DEF LegacyResponse
<1>4. CASE Succeeded(run) /\ at # {}
  <2>1. PICK m \in at : m = Max(at)
    <3>1. at \in SUBSET (1 .. n)
      OBVIOUS
    <3> HIDE DEF at
    <3>2. \E m \in at : \A j \in at : j <= m
      BY <1>4, <3>1, Maximum
    <3>3. Max(at) \in at
      BY <3>2 DEF Max
    <3> QED BY <3>3
  <2>2. PICK f \in FrameSet : f = run.frames[m] /\ f.is = "unit"
    <3>1. m \in 1 .. n /\ run.frames[m].is = "unit"
      BY <2>1
    <3> HIDE DEF at
    <3>2. run.frames[m] \in FrameSet
      BY <3>1, <1>1, <1>2
    <3> QED BY <3>1, <3>2
  <2>3. f.content \in Contents
    <3>1. f \in Units
      BY <2>2, FrameKinds
    <3> QED BY <3>1 DEF Units
  <2>4. PICK c \in TurnSet : c = Turn(run, "ai", "response", f.content, m, FALSE)
    <3>1. "ai" \in Actors /\ "response" \in TurnRoles /\ FALSE \in BOOLEAN /\ m \in Nat
      BY <2>1 DEF Actors, TurnRoles
    <3> QED BY <3>1, <2>3, <1>1, TurnMade
  <2>5. PICK s : s = <<c>>
    OBVIOUS
  <2>6. LegacyResponse(run) = s
    BY <1>3, <1>4, <2>1, <2>2, <2>4, <2>5
  <2> HIDE DEF at
  <2>7. s \in Seq(TurnSet)
    BY <2>5
  <2> QED BY <2>6, <2>7, Zenon
<1>5. CASE ~(Succeeded(run) /\ at # {})
  <2>1. <<>> \in Seq(TurnSet)
    OBVIOUS
  <2>2. LegacyResponse(run) = <<>>
    BY <1>3, <1>5, Zenon
  <2> HIDE DEF at
  <2> QED BY <2>1, <2>2, Zenon
<1> QED BY <1>4, <1>5

LEMMA AddRunTyped ==
    ASSUME NEW run \in RunSet, NEW T \in Seq(TurnSet)
    PROVE  /\ AddRun(T, run) \in Seq(TurnSet)
           /\ Told(run, T, 0) = T
           /\ \A n \in 0 .. Len(run.frames) : Told(run, T, n) \in Seq(TurnSet)
           /\ \A n \in 1 .. Len(run.frames) : Told(run, T, n) = Tell(run, Told(run, T, n - 1), n)
<1>1. PICK N \in Nat : N = Len(run.frames)
  BY RunFields
<1>2. PICK S : S = Seq(TurnSet)
  OBVIOUS
<1>3. T \in S /\ \A s \in S, i \in 1 .. N : Tell(run, s, i) \in S
  BY <1>1, <1>2, TellTyped
<1>4. /\ Told(run, T, 0) = T
      /\ \A n \in 0 .. N : Told(run, T, n) \in S
      /\ \A n \in 1 .. N : Told(run, T, n) = Tell(run, Told(run, T, n - 1), n)
  BY <1>3, ToldStep
<1>5. AddRun(T, run) \in S
  <2>1. PICK U \in S : U = Told(run, T, N)
    BY <1>1, <1>4
  <2>2. PICK V \in S : V = IF Explicit(run) THEN <<>> ELSE LegacyResponse(run)
    <3>1. LegacyResponse(run) \in S /\ <<>> \in S
      BY <1>2, LegacyTyped
    <3> QED BY <3>1, Zenon
  <2>3. AddRun(T, run) = U \o V
    BY <1>1, <2>1, <2>2 DEF AddRun
  <2> QED BY <2>1, <2>2, <2>3, <1>2, Appending
<1> QED BY <1>1, <1>2, <1>4, <1>5

LEMMA TranscriptTyped ==
    ASSUME NEW R \in Seq(RunSet), NEW n \in Nat, n = Len(R)
    PROVE  /\ Transcript(R, 0) = <<>>
           /\ \A k \in 0 .. n : Transcript(R, k) \in Seq(TurnSet)
           /\ \A k \in 1 .. n : Transcript(R, k) = AddRun(Transcript(R, k - 1), R[k])
<1>1. PICK S : S = Seq(TurnSet)
  OBVIOUS
<1>2. <<>> \in S
  BY <1>1
<1>3. \A s \in S, i \in 1 .. n : AddRun(s, R[i]) \in S
  BY <1>1, AddRunTyped
<1> QED BY <1>1, <1>2, <1>3, TranscriptStep

-----------------------------------------------------------------------------
(* The runs are in their order of execution already.                       *)

LEMMA RunsInOrder ==
    ASSUME NEW R, RunsOK(R)
    PROVE  OrderRuns(R) = R
<1>1. PICK n \in Nat : n = Len(R) /\ DOMAIN R = 1 .. n /\ R \in Seq(RunSet)
  BY DEF RunsOK
<1>2. \A i \in 1 .. n : R[i] \in RunSet
  BY <1>1
<1>3. \A i \in 1 .. n : R[i].at \in Nat /\ R[i].id \in Nat /\ R[i].at = R[i].id
  BY <1>1, <1>2, RunFields DEF RunsOK, RunOK
<1>4. \A i, j \in 1 .. n : i < j => R[i].id < R[j].id
  BY <1>1 DEF RunsOK, RunOK
<1> DEFINE Before(a, b) == a.at < b.at \/ (a.at = b.at /\ a.id < b.id)
           First(i, j) == Before(R[i], R[j]) \/ (i < j /\ ~Before(R[j], R[i]))
           Firsts(i) == {j \in DOMAIN R : First(j, i)}
           Place(k) == CHOOSE i \in DOMAIN R : Cardinality(Firsts(i)) = k - 1
<1>5. OrderRuns(R) = [k \in DOMAIN R |-> R[Place(k)]]
  BY DEF OrderRuns, Sorted
<1>6. ASSUME NEW i \in 1 .. n PROVE Cardinality(Firsts(i)) = i - 1
  <2>1. \A j \in 1 .. n : First(j, i) <=> j < i
    <3> SUFFICES ASSUME NEW j \in 1 .. n PROVE First(j, i) <=> j < i
      OBVIOUS
    <3>1. j < i \/ j = i \/ i < j
      OBVIOUS
    <3> QED BY <3>1, <1>3, <1>4
  <2>2. Firsts(i) = {j \in 1 .. n : j < i}
    BY <2>1, <1>1
  <2>3. {j \in 1 .. n : j < i} = 1 .. i - 1
    OBVIOUS
  <2> HIDE DEF Firsts
  <2>4. Cardinality(1 .. i - 1) = i - 1
    <3>1. i - 1 \in Nat
      OBVIOUS
    <3> QED BY <3>1, Interval
  <2> QED BY <2>2, <2>3, <2>4
<1>7. ASSUME NEW k \in 1 .. n PROVE Place(k) = k
  <2> HIDE DEF Firsts
  <2>1. \A i \in 1 .. n : Cardinality(Firsts(i)) = k - 1 <=> i = k
    BY <1>6
  <2>2. k \in DOMAIN R /\ Cardinality(Firsts(k)) = k - 1
    BY <2>1, <1>1
  <2>3. Place(k) \in DOMAIN R /\ Cardinality(Firsts(Place(k))) = k - 1
    BY <2>2
  <2> HIDE DEF Place
  <2> QED BY <2>1, <2>3, <1>1
<1>8. [k \in DOMAIN R |-> R[Place(k)]] = [k \in DOMAIN R |-> R[k]]
  <2> HIDE DEF Place
  <2> QED BY <1>1, <1>7
<1>9. [k \in DOMAIN R |-> R[k]] = R
  BY <1>1
<1> HIDE DEF Place
<1> QED BY <1>5, <1>8, <1>9

-----------------------------------------------------------------------------
(* What is put before a rater.                                             *)

LEMMA Projects ==
    ASSUME NEW R, RunsOK(R)
    PROVE  /\ IsProposal(Project(R)) /\ IsProjection(Project(R))
           /\ Project(R).turns = Transcript(R, Len(R))
<1>1. PICK turns : turns = Transcript(R, Len(R))
  OBVIOUS
<1>2. turns \in Seq(TurnSet)
  <2>1. PICK n \in Nat : n = Len(R) /\ R \in Seq(RunSet)
    BY DEF RunsOK
  <2> QED BY <2>1, <1>1, TranscriptTyped
<1>3. PICK exs, ws, left, eps, own :
         /\ exs = Exchanges(turns) /\ ws = Windows(Len(exs)) /\ left = Len(exs) % WindowSize
         /\ eps = Episodes(turns, exs) /\ own = Internal(R)
  OBVIOUS
<1>4. PICK p : p = Project(R)
  OBVIOUS
<1>5. p = [turns |-> turns, exchanges |-> exs, windows |-> ws, trailing |-> left,
           episodes |-> eps, internal |-> own]
  BY <1>1, <1>3, <1>4 DEF Project
<1>6. /\ p.turns = turns /\ p.exchanges = exs /\ p.windows = ws /\ p.trailing = left
      /\ p.episodes = eps /\ p.internal = own
  BY <1>5
<1>7. IsProjection(p)
  BY <1>5, <1>6 DEF IsProjection
<1>8. IsProposal(p)
  BY <1>2, <1>3, <1>6 DEF IsProposal
<1> QED BY <1>1, <1>4, <1>6, <1>7, <1>8

\* A rater stands at a unit that exists.
Stands(p, at) ==
    \/ at.unit = "window" /\ at.k \in 1 .. Len(p.windows)
    \/ at.unit = "episode" /\ at.k \in 1 .. Len(p.episodes)
    \/ at.unit = "end"

RaterOK ==
    /\ rater.pc \in {"idle", "unit"}
    /\ rater.pc # "idle" =>
          /\ IsProjection(rater.p) /\ Typed(rater.p) /\ Segmented(rater.p)
          /\ Stands(rater.p, rater.at) /\ rater.of.turns = rater.p.turns

\* What is so in every state of a session.
SessionOK == JournalsOK(journals) /\ RaterOK

LEMMA ProjectionProposes ==
    ASSUME JournalsOK(journals)
    PROVE  /\ RunsOK(Runs) /\ IsProposal(Projection) /\ IsProjection(Projection)
           /\ Projection.turns = Transcript(Runs, Len(Runs))
<1>1. Runs = RunsIn(journals)
  BY DEF Runs, RunsIn, Executed
<1>2. RunsOK(Runs)
  BY <1>1 DEF JournalsOK
<1>3. Projection = Project(Runs)
  BY <1>2, RunsInOrder DEF Projection
<1> QED BY <1>2, <1>3, Projects

LEMMA AtStands ==
    ASSUME NEW p, Typed(p), NEW k \in Nat \ {0}, NEW episode \in BOOLEAN
    PROVE  Stands(p, At(p, k, episode))
<1>1. PICK n \in Nat, m \in Nat : n = Len(p.windows) /\ m = Len(p.episodes)
  BY DEF Typed
<1>2. p.episodes # <<>> => 1 \in 1 .. m
  BY <1>1 DEF Typed
<1>3. CASE ~episode /\ k <= n
  BY <1>1, <1>3 DEF At, Stands
<1>4. CASE episode /\ k <= m
  BY <1>1, <1>4 DEF At, Stands
<1>5. CASE ~(~episode /\ k <= n) /\ ~(episode /\ k <= m)
  BY <1>1, <1>2, <1>5 DEF At, Stands
<1> QED BY <1>3, <1>4, <1>5

LEMMA BeginKeeps ==
    ASSUME NEW p, IsProjection(p), Typed(p), Segmented(p),
           NEW of, of.turns = p.turns, Begin(p, of)
    PROVE  RaterOK' /\ rater'.pc = "unit" /\ rater'.p = p
<1>1. PICK at : at = At(p, 1, FALSE)
  OBVIOUS
<1>2. rater' = [pc |-> "unit", p |-> p, of |-> of, at |-> at, decided |-> FALSE, scored |-> FALSE]
  BY <1>1 DEF Begin
<1>3. rater'.pc = "unit" /\ rater'.p = p /\ rater'.of = of /\ rater'.at = at
  BY <1>2
<1>4. Stands(p, at)
  <2>1. 1 \in Nat \ {0} /\ FALSE \in BOOLEAN
    OBVIOUS
  <2>2. Stands(p, At(p, 1, FALSE))
    BY <2>1, AtStands
  <2> QED BY <2>2, <1>1, Zenon
<1>5. Stands(rater'.p, rater'.at)
  BY <1>3, <1>4
<1> QED BY <1>3, <1>5 DEF RaterOK

LEMMA AdvanceKeeps ==
    ASSUME RaterOK, rater.pc = "unit", rater.at.unit # "end",
           rater'.pc = rater.pc, rater'.p = rater.p, rater'.of = rater.of, rater'.at = Advance
    PROVE  RaterOK'
<1>1. PICK p, k, e : p = rater.p /\ k = rater.at.k /\ e = (rater.at.unit = "episode")
  OBVIOUS
<1>2. Typed(p) /\ Segmented(p) /\ IsProjection(p) /\ Stands(p, rater.at)
  BY <1>1 DEF RaterOK
<1>3. Len(p.windows) \in Nat /\ Len(p.episodes) \in Nat
  BY <1>2 DEF Typed
<1>4. k + 1 \in Nat \ {0} /\ e \in BOOLEAN
  BY <1>1, <1>2, <1>3 DEF Stands
<1>5. Stands(p, At(p, k + 1, e))
  BY <1>2, <1>4, AtStands
<1>6. Stands(p, rater'.at)
  BY <1>1, <1>5 DEF Advance
<1>7. rater'.p = p /\ rater'.pc = "unit" /\ rater'.of.turns = rater'.p.turns
  BY <1>1 DEF RaterOK
<1>8. Stands(rater'.p, rater'.at)
  BY <1>6, <1>7
<1> QED BY <1>2, <1>7, <1>8 DEF RaterOK

\* A sheet that is accepted changes no turn, nor was it written for others.
LEMMA CorrectedTurns ==
    ASSUME NEW p, IsProjection(p), NEW sheet, Accepts(p, sheet)
    PROVE  Corrected(p, sheet).turns = p.turns /\ sheet.of.turns = p.turns
<1>1. sheet.of.turns = p.turns
  BY DEF Accepts, Snapshot
<1>2. Corrected(p, sheet).turns = p.turns
  BY DEF IsProjection, Corrected
<1> QED BY <1>1, <1>2

LEMMA SessionBegins == Init => SessionOK
<1> SUFFICES ASSUME Init PROVE SessionOK
  OBVIOUS
<1>1. RaterOK
  BY DEF Init, RaterOK
<1>2. JournalsOK(journals)
  BY NoJournals DEF Init
<1> QED BY <1>1, <1>2 DEF SessionOK

LEMMA SessionGoesOn == SessionOK /\ [Next]_vars => SessionOK'
<1> SUFFICES ASSUME SessionOK, [Next]_vars PROVE SessionOK'
  OBVIOUS
<1>1. JournalsOK(journals) /\ RaterOK
  BY DEF SessionOK
<1>2. ASSUME UNCHANGED rater PROVE RaterOK'
  BY <1>1, <1>2 DEF RaterOK
<1>3. ASSUME UNCHANGED journals PROVE JournalsOK(journals')
  BY <1>1, <1>3
<1>4. ASSUME NEW role \in HumanInput, NEW shape \in Shapes, NEW custom \in BOOLEAN,
             Ask(role, shape, custom)
      PROVE  SessionOK'
  <2>1. UNCHANGED rater
    BY <1>4 DEF Ask
  <2> QED BY <2>1, <1>1, <1>2, <1>4, AskKeeps DEF SessionOK
<1>5. ASSUME NEW shape \in Shapes, Retry(shape) PROVE SessionOK'
  <2>1. UNCHANGED rater
    BY <1>5 DEF Retry
  <2> QED BY <2>1, <1>1, <1>2, <1>5, RetryKeeps DEF SessionOK
<1>6. CASE Deliver
  <2>1. UNCHANGED rater
    BY <1>6 DEF Deliver
  <2> QED BY <2>1, <1>1, <1>2, <1>6, DeliverKeeps DEF SessionOK
<1>7. ASSUME NEW answered \in BOOLEAN, Legacy(answered) PROVE SessionOK'
  <2>1. UNCHANGED rater
    BY <1>7 DEF Legacy
  <2> QED BY <2>1, <1>1, <1>2, <1>7, LegacyKeeps DEF SessionOK
<1>8. CASE StartRating
  <2>1. PICK p : p = Projection
    OBVIOUS
  <2>2. Begin(p, Snapshot(p)) /\ UNCHANGED journals /\ Snapshot(p).turns = p.turns
    BY <1>8, <2>1 DEF StartRating, Snapshot
  <2>3. IsProjection(p) /\ Typed(p) /\ Segmented(p)
    BY <1>1, <2>1, ProjectionProposes, ProposalSound
  <2> QED BY <2>2, <2>3, <1>3, BeginKeeps DEF SessionOK
<1>9. CASE StartCorrected
  <2>1. PICK p : p = Projection
    OBVIOUS
  <2>2. PICK sheet \in Sheets(p) : Accepts(p, sheet) /\ Begin(Corrected(p, sheet), sheet.of)
    BY <1>9, <2>1 DEF StartCorrected
  <2>3. UNCHANGED journals
    BY <1>9 DEF StartCorrected
  <2>4. IsProjection(p) /\ p.turns \in Seq(TurnSet) /\ Len(p.turns) \in Nat
    BY <1>1, <2>1, ProjectionProposes DEF IsProposal
  <2>5. SheetTyped(sheet)
    BY <2>2, <2>4, SheetsTyped
  <2>6. PICK q : q = Corrected(p, sheet)
    OBVIOUS
  <2>7. IsProjection(q) /\ Typed(q) /\ Segmented(q)
    BY <2>2, <2>4, <2>5, <2>6, CorrectedSound
  <2>8. sheet.of.turns = q.turns
    BY <2>2, <2>4, <2>6, CorrectedTurns
  <2> QED BY <2>2, <2>3, <2>6, <2>7, <2>8, <1>3, BeginKeeps DEF SessionOK
<1>10. CASE Abort
  <2>1. rater'.pc = "idle" /\ UNCHANGED journals
    BY <1>10 DEF Abort
  <2> QED BY <2>1, <1>3 DEF SessionOK, RaterOK
<1>11. CASE Exclude
  <2>1. /\ rater.pc = "unit" /\ rater.at.unit # "end" /\ UNCHANGED journals
        /\ rater' = [rater EXCEPT !.at = Advance, !.decided = TRUE]
    BY <1>11 DEF Exclude
  <2>2. rater'.pc = rater.pc /\ rater'.p = rater.p /\ rater'.of = rater.of /\ rater'.at = Advance
    BY <2>1
  <2> QED BY <2>1, <2>2, <1>1, <1>3, AdvanceKeeps DEF SessionOK
<1>12. CASE AcceptWindow
  <2>1. /\ rater.pc = "unit" /\ rater.at.unit # "end" /\ UNCHANGED journals
        /\ rater' = [rater EXCEPT !.at = Advance, !.decided = TRUE, !.scored = TRUE]
    BY <1>12 DEF AcceptWindow
  <2>2. rater'.pc = rater.pc /\ rater'.p = rater.p /\ rater'.of = rater.of /\ rater'.at = Advance
    BY <2>1
  <2> QED BY <2>1, <2>2, <1>1, <1>3, AdvanceKeeps DEF SessionOK
<1>13. CASE ConfirmEpisode
  <2>1. /\ rater.pc = "unit" /\ rater.at.unit # "end" /\ UNCHANGED journals
        /\ rater' = [rater EXCEPT !.at = Advance, !.decided = TRUE, !.scored = TRUE]
    BY <1>13 DEF ConfirmEpisode
  <2>2. rater'.pc = rater.pc /\ rater'.p = rater.p /\ rater'.of = rater.of /\ rater'.at = Advance
    BY <2>1
  <2> QED BY <2>1, <2>2, <1>1, <1>3, AdvanceKeeps DEF SessionOK
<1>14. CASE Record
  <2>1. rater'.pc = "idle"
    BY <1>14 DEF Record
  <2> QED BY <2>1, <1>1, <1>14, RecordKeeps DEF SessionOK, RaterOK
<1>15. CASE UNCHANGED vars
  BY <1>2, <1>3, <1>15 DEF vars, SessionOK
<1> QED
  BY <1>4, <1>5, <1>6, <1>7, <1>8, <1>9, <1>10, <1>11, <1>12, <1>13, <1>14, <1>15
  DEF Next, Continues, Rates

\* However a session goes, its journals have the shapes the executor and the
\* delivery give them and belong together as attempts of its questions, and what
\* lies before a rater is sound (exec.rs, journal.rs, main.rs cmd_rate).
THEOREM SessionHolds == Spec => []SessionOK
BY SessionBegins, SessionGoesOn, PTL DEF Spec

-----------------------------------------------------------------------------
(* Segmentation and citations.                                             *)

LEMMA ExactThen == SessionOK => SegmentationIsExact
<1> SUFFICES ASSUME SessionOK PROVE SegmentationIsExact
  OBVIOUS
<1>1. PICK p : p = Projection
  OBVIOUS
<1>2. IsProposal(p) /\ IsProjection(p)
  BY <1>1, ProjectionProposes DEF SessionOK
<1>3. p.turns \in Seq(TurnSet) /\ Len(p.turns) \in Nat
  BY <1>2 DEF IsProposal
<1>4. SegmentationIsSound
  <2>1. Segmented(p)
    BY <1>2, ProposalSound
  <2>2. ASSUME NEW sheet \in Sheets(p), Accepts(p, sheet) PROVE Segmented(Corrected(p, sheet))
    <3>1. SheetTyped(sheet)
      BY <1>3, SheetsTyped
    <3> QED BY <2>2, <3>1, <1>2, <1>3, CorrectedSound
  <2>3. rater.pc # "idle" => Segmented(rater.p)
    BY DEF SessionOK, RaterOK
  <2> QED BY <2>1, <2>2, <2>3, <1>1 DEF SegmentationIsSound
<1>5. NothingRatableIsLost
  <2>1. LossFree(p)
    BY <1>2, ProposalComplete
  <2> QED BY <2>1, <1>1 DEF LossFree, NothingRatableIsLost
<1>6. OwnProposalIsAccepted
  <2>1. Accepts(p, Own(p)) /\ Corrected(p, Own(p)) = p
    BY <1>2, ProposalAccepted, ProposalKept DEF IsProjection
  <2> QED BY <2>1, <1>1 DEF OwnProposalIsAccepted, Own
<1> QED BY <1>4, <1>5, <1>6 DEF SegmentationIsExact

\* However a session of whatever length went, what `graffy rate' proposes is
\* sound and complete and is accepted as it is, and so is every correction of
\* it that is accepted (boundary.rs, rating.rs).
THEOREM Exactness == Spec => []SegmentationIsExact
BY SessionHolds, ExactThen, PTL

\* A turn is in the exchange that is found for it.
LEMMA ExchangeFound ==
    ASSUME NEW p, NEW N \in Nat, NEW M \in Nat, M = Len(p.exchanges),
           p.exchanges \in Seq((1 .. N) \X (1 .. N)), NEW turn, ExchangeOf(p, turn) # 0
    PROVE  /\ ExchangeOf(p, turn) \in 1 .. M
           /\ turn \in ToSet(p.exchanges[ExchangeOf(p, turn)])
<1> DEFINE I == {i \in 1 .. M : turn \in {p.exchanges[i][1], p.exchanges[i][2]}}
<1>1. ExchangeOf(p, turn) = IF I # {} THEN Min(I) ELSE 0
  BY DEF ExchangeOf, SelectInSeq
<1>2. I \in SUBSET Nat
  OBVIOUS
<1>3. PICK k : k = ExchangeOf(p, turn)
  OBVIOUS
<1>4. k \in I
  <2>1. I # {} => Min(I) \in I
    <3> HIDE DEF I
    <3> QED BY <1>2, MinOf
  <2> HIDE DEF I
  <2> QED BY <2>1, <1>1, <1>3
<1>5. k \in 1 .. M /\ turn \in {p.exchanges[k][1], p.exchanges[k][2]}
  BY <1>4
<1>6. PICK ex \in (1 .. N) \X (1 .. N) : ex = p.exchanges[k]
  BY <1>5
<1>7. DOMAIN ex = 1 .. 2
  OBVIOUS
<1>8. turn \in ToSet(ex)
  BY <1>5, <1>6, <1>7 DEF ToSet
<1> QED BY <1>3, <1>5, <1>6, <1>8

\* Exchanges are pairs of neighbours, in order and apart.
LEMMA ExchangesApart ==
    ASSUME NEW p, Typed(p), Segmented(p), NEW M, M = Len(p.exchanges)
    PROVE  /\ M \in Nat /\ DOMAIN p.exchanges = 1 .. M
           /\ \A x \in 1 .. M :
                 /\ p.exchanges[x][1] \in Nat /\ p.exchanges[x][2] = p.exchanges[x][1] + 1
                 /\ ToSet(p.exchanges[x]) = {p.exchanges[x][1], p.exchanges[x][2]}
           /\ \A x, y \in 1 .. M : x < y => p.exchanges[x][2] < p.exchanges[y][1]
<1>1. PICK N \in Nat : N = Len(p.turns)
  BY DEF Typed
<1>2. p.exchanges \in Seq((1 .. N) \X (1 .. N))
  BY <1>1 DEF Typed
<1>3. M \in Nat /\ DOMAIN p.exchanges = 1 .. M
  BY <1>2
<1>4. \A x \in 1 .. M : p.exchanges[x] \in (1 .. N) \X (1 .. N)
  BY <1>2
<1>5. ASSUME NEW x \in 1 .. M
      PROVE  /\ p.exchanges[x][1] \in Nat /\ p.exchanges[x][2] = p.exchanges[x][1] + 1
             /\ ToSet(p.exchanges[x]) = {p.exchanges[x][1], p.exchanges[x][2]}
  <2>1. PICK ex \in (1 .. N) \X (1 .. N) : ex = p.exchanges[x]
    BY <1>4
  <2>2. DOMAIN ex = 1 .. 2 /\ ex[1] \in Nat
    OBVIOUS
  <2>3. ToSet(ex) = {ex[1], ex[2]}
    BY <2>2 DEF ToSet
  <2> QED BY <2>1, <2>2, <2>3, <1>3 DEF Segmented
<1>6. \A x, y \in 1 .. M : x < y => p.exchanges[x][2] < p.exchanges[y][1]
  BY <1>3 DEF Segmented
<1> QED BY <1>3, <1>5, <1>6

\* So a turn that is found in an exchange is in no other.
LEMMA InsideIsWithin ==
    ASSUME NEW p, Typed(p), Segmented(p), NEW w, w[1] \in Nat \ {0}, w[2] \in Nat,
           NEW turn, Inside(p, turn, w)
    PROVE  Within(p, turn, w)
<1>1. PICK N, M : N = Len(p.turns) /\ M = Len(p.exchanges)
  OBVIOUS
<1>2. N \in Nat /\ p.exchanges \in Seq((1 .. N) \X (1 .. N))
  BY <1>1 DEF Typed
<1>3. /\ M \in Nat /\ DOMAIN p.exchanges = 1 .. M
      /\ \A x \in 1 .. M :
            /\ p.exchanges[x][1] \in Nat /\ p.exchanges[x][2] = p.exchanges[x][1] + 1
            /\ ToSet(p.exchanges[x]) = {p.exchanges[x][1], p.exchanges[x][2]}
      /\ \A x, y \in 1 .. M : x < y => p.exchanges[x][2] < p.exchanges[y][1]
  BY <1>1, ExchangesApart
<1>4. PICK x : x = ExchangeOf(p, turn)
  OBVIOUS
<1>5. x \in w[1] .. w[2] /\ x # 0
  BY <1>4 DEF Inside
<1>6. x \in 1 .. M /\ turn \in ToSet(p.exchanges[x])
  BY <1>1, <1>2, <1>3, <1>4, <1>5, ExchangeFound
<1>7. ASSUME NEW y \in 1 .. M, turn \in ToSet(p.exchanges[y]) PROVE y = x
  <2>1. PICK lo, lo2, hi, hi2 : /\ lo = p.exchanges[x][1] /\ hi = p.exchanges[x][2]
                                /\ lo2 = p.exchanges[y][1] /\ hi2 = p.exchanges[y][2]
    OBVIOUS
  <2>2. lo \in Nat /\ hi = lo + 1 /\ (turn = lo \/ turn = hi)
    BY <2>1, <1>3, <1>6
  <2>3. lo2 \in Nat /\ hi2 = lo2 + 1 /\ (turn = lo2 \/ turn = hi2)
    BY <2>1, <1>3, <1>7
  <2>4. (x < y => hi < lo2) /\ (y < x => hi2 < lo)
    BY <2>1, <1>3, <1>6
  <2> QED BY <2>2, <2>3, <2>4, <1>6
<1> QED BY <1>3, <1>5, <1>6, <1>7 DEF Within

\* And where drift is introduced and discovered so many exchanges apart, so
\* many begin between the two.
LEMMA DriftLiesBetween ==
    ASSUME NEW p, Typed(p), Segmented(p), NEW from, NEW to,
           ExchangeOf(p, from) # 0, ExchangeOf(p, to) # 0,
           ExchangeOf(p, to) - ExchangeOf(p, from) >= DriftSpan
    PROVE  Cardinality(Between(p, from, to)) >= DriftSpan
<1>1. PICK N, M : N = Len(p.turns) /\ M = Len(p.exchanges)
  OBVIOUS
<1>2. N \in Nat /\ p.exchanges \in Seq((1 .. N) \X (1 .. N))
  BY <1>1 DEF Typed
<1>3. /\ M \in Nat /\ DOMAIN p.exchanges = 1 .. M
      /\ \A x \in 1 .. M :
            /\ p.exchanges[x][1] \in Nat /\ p.exchanges[x][2] = p.exchanges[x][1] + 1
            /\ ToSet(p.exchanges[x]) = {p.exchanges[x][1], p.exchanges[x][2]}
      /\ \A x, y \in 1 .. M : x < y => p.exchanges[x][2] < p.exchanges[y][1]
  BY <1>1, ExchangesApart
<1>4. PICK a, b : a = ExchangeOf(p, from) /\ b = ExchangeOf(p, to)
  OBVIOUS
<1>5. a \in 1 .. M /\ from \in ToSet(p.exchanges[a])
  BY <1>1, <1>2, <1>3, <1>4, ExchangeFound
<1>6. b \in 1 .. M /\ to \in ToSet(p.exchanges[b])
  BY <1>1, <1>2, <1>3, <1>4, ExchangeFound
<1> DEFINE Lo(x) == p.exchanges[x][1]
           Hi(x) == p.exchanges[x][2]
<1>7. /\ \A x \in 1 .. M : Lo(x) \in Nat /\ Hi(x) = Lo(x) + 1
      /\ \A x, y \in 1 .. M : x < y => Hi(x) < Lo(y)
  BY <1>3
<1>8. from = Lo(a) \/ from = Hi(a)
  <2>1. ToSet(p.exchanges[a]) = {Lo(a), Hi(a)}
    BY <1>3, <1>5
  <2> QED BY <2>1, <1>5
<1>9. to = Lo(b) \/ to = Hi(b)
  <2>1. ToSet(p.exchanges[b]) = {Lo(b), Hi(b)}
    BY <1>3, <1>6
  <2> QED BY <2>1, <1>6
<1> HIDE DEF Lo, Hi
<1>10. ASSUME NEW x \in a + 1 .. b PROVE x \in Between(p, from, to)
  <2>1. x \in 1 .. M /\ a < x /\ a \in 1 .. M /\ b \in 1 .. M /\ (x = b \/ x < b)
    BY <1>3, <1>5, <1>6, <1>10
  <2>2. from < Lo(x)
    BY <2>1, <1>7, <1>8
  <2>3. Lo(x) <= to
    BY <2>1, <1>7, <1>9
  <2> QED BY <2>1, <2>2, <2>3, <1>3 DEF Between, Lo
<1>11. PICK B : B = Between(p, from, to)
  OBVIOUS
<1>12. IsFiniteSet(B)
  <2>1. B \subseteq 1 .. M
    BY <1>3, <1>11 DEF Between
  <2>2. IsFiniteSet(1 .. M)
    BY <1>3, FS_Interval
  <2> QED BY <2>1, <2>2, FS_Subset
<1>13. Cardinality(a + 1 .. b) <= Cardinality(B)
  <2>1. a + 1 .. b \subseteq B
    BY <1>10, <1>11
  <2> QED BY <2>1, <1>12, FS_Subset
<1>14. Cardinality(a + 1 .. b) = IF a + 1 > b THEN 0 ELSE b - (a + 1) + 1
  <2>1. a + 1 \in Int /\ b \in Int
    BY <1>5, <1>6
  <2> QED BY <2>1, FS_Interval
<1>15. Cardinality(B) \in Nat
  BY <1>12, FS_CardinalityType
<1>16. Cardinality(B) >= DriftSpan
  BY <1>4, <1>5, <1>6, <1>13, <1>14, <1>15, DriftSpanAssumption
<1> QED BY <1>11, <1>16

\* What a rater may cite for a window is in its scope.
LEMMA CitedInScope ==
    ASSUME NEW p, Typed(p), Segmented(p), NEW k \in 1 .. Len(p.windows), NEW w, w = p.windows[k],
           NEW cited, NEW proxy, MayCite(p, cited, w, proxy)
    PROVE  InScope(p, cited, w, proxy)
<1>1. w[1] \in Nat \ {0} /\ w[2] \in Nat
  <2>1. PICK M \in Nat : M = Len(p.exchanges)
    BY DEF Typed
  <2>2. p.windows \in Seq((1 .. M) \X (1 .. M))
    BY <2>1 DEF Typed
  <2>3. w \in (1 .. M) \X (1 .. M)
    BY <2>2
  <2> QED BY <2>3
<1>2. CASE proxy = "D"
  <2>1. /\ Inside(p, cited[2], w) /\ ExchangeOf(p, cited[1]) # 0
        /\ ExchangeOf(p, cited[2]) - ExchangeOf(p, cited[1]) >= DriftSpan
    BY <1>2 DEF MayCite, DriftIsCited
  <2>2. ExchangeOf(p, cited[2]) # 0
    BY <2>1, <1>1 DEF Inside
  <2>3. Within(p, cited[2], w)
    BY <2>1, <1>1, InsideIsWithin
  <2>4. Cardinality(Between(p, cited[1], cited[2])) >= DriftSpan
    BY <2>1, <2>2, DriftLiesBetween
  <2> QED BY <2>3, <2>4, <1>2 DEF InScope
<1>3. CASE proxy # "D"
  <2>1. \A i \in DOMAIN cited : Inside(p, cited[i], w)
    BY <1>3 DEF MayCite
  <2>2. \A i \in DOMAIN cited : Within(p, cited[i], w)
    BY <2>1, <1>1, InsideIsWithin
  <2> QED BY <2>2, <1>3 DEF InScope
<1> QED BY <1>2, <1>3

-----------------------------------------------------------------------------
(* The scan of a transcript that grows.                                    *)

Looks(T, U, n) == \A j \in 1 .. n : T[j].visible = U[j].visible /\ T[j].actor = U[j].actor

\* Whether a turn waits for its other half after n turns: that turn, or 0.
Pend(T, n) == Scan(T, n).pending

LEMMA ScanNext ==
    ASSUME NEW n \in Nat \ {0}, NEW T
    PROVE  LET s == Scan(T, n - 1)
               q == Scan(T, n)
           IN  /\ ~T[n].visible => q.pending = 0 /\ q.pairs = s.pairs
               /\ T[n].visible /\ s.pending # 0 /\ T[s.pending].actor # T[n].actor =>
                     q.pending = 0 /\ q.pairs = Append(s.pairs, <<s.pending, n>>)
               /\ T[n].visible /\ ~(s.pending # 0 /\ T[s.pending].actor # T[n].actor) =>
                     q.pending = n /\ q.pairs = s.pairs
<1>1. PICK S : S = ScanStates(n)
  OBVIOUS
<1>2. [pending |-> 0, pairs |-> <<>>] \in S
  BY <1>1 DEF ScanStates
<1>3. \A s \in S, i \in 1 .. n : PairUp(T, s, i) \in S
  BY <1>1, PairUpType
<1>4. /\ \A m \in 0 .. n : Scan(T, m) \in S
      /\ \A m \in 1 .. n : Scan(T, m) = PairUp(T, Scan(T, m - 1), m)
  BY <1>2, <1>3, ScanStep
<1>5. PICK s \in S : s = Scan(T, n - 1)
  BY <1>4
<1>6. Scan(T, n) = PairUp(T, s, n)
  BY <1>4, <1>5
<1>7. PICK P : P = Seq((1 .. n) \X (1 .. n))
  OBVIOUS
<1>8. s \in [pending : 0 .. n, pairs : P]
  BY <1>1, <1>5, <1>7 DEF ScanStates
<1>9. PICK more : more = Append(s.pairs, <<s.pending, n>>)
  OBVIOUS
<1>10. PICK q : q = PairUp(T, s, n)
  OBVIOUS
<1>11. q = IF ~T[n].visible THEN [s EXCEPT !.pending = 0]
           ELSE IF s.pending # 0 /\ T[s.pending].actor # T[n].actor
           THEN [pending |-> 0, pairs |-> more]
           ELSE [s EXCEPT !.pending = n]
  BY <1>9, <1>10 DEF PairUp
<1>12. /\ ~T[n].visible => q.pending = 0 /\ q.pairs = s.pairs
       /\ T[n].visible /\ s.pending # 0 /\ T[s.pending].actor # T[n].actor =>
             q.pending = 0 /\ q.pairs = more
       /\ T[n].visible /\ ~(s.pending # 0 /\ T[s.pending].actor # T[n].actor) =>
             q.pending = n /\ q.pairs = s.pairs
  BY <1>8, <1>11
<1> QED BY <1>5, <1>6, <1>9, <1>10, <1>12

LEMMA PendIn ==
    ASSUME NEW n \in Nat, NEW T
    PROVE  Pend(T, n) \in {0, n} /\ (Pend(T, n) # 0 => T[n].visible)
<1>1. n \in 0 .. n
  OBVIOUS
<1>2. Scanned(T, Scan(T, n), n)
  BY <1>1, ScanGood
<1> QED BY <1>2 DEF Scanned, Pend

\* Only who said a turn and whether it was seen matters, up to the turn.
LEMMA ScanSame ==
    ASSUME NEW n \in Nat, NEW T, NEW U, Looks(T, U, n)
    PROVE  \A m \in 0 .. n : Scan(T, m) = Scan(U, m)
<1>1. PICK S : S = ScanStates(n)
  OBVIOUS
<1>2. [pending |-> 0, pairs |-> <<>>] \in S
  BY <1>1 DEF ScanStates
<1>3. \A X : \A s \in S, i \in 1 .. n : PairUp(X, s, i) \in S
  BY <1>1, PairUpType
<1>4. \A X : /\ Scan(X, 0) = [pending |-> 0, pairs |-> <<>>]
             /\ \A m \in 0 .. n : Scan(X, m) \in S
             /\ \A m \in 1 .. n : Scan(X, m) = PairUp(X, Scan(X, m - 1), m)
  BY <1>2, <1>3, ScanStep
<1> DEFINE Bad == {m \in 0 .. n : Scan(T, m) # Scan(U, m)}
<1> SUFFICES ASSUME Bad # {} PROVE FALSE
  OBVIOUS
<1>5. PICK m \in Bad : \A j \in Bad : m <= j
  <2>1. Bad \in SUBSET Nat
    OBVIOUS
  <2> HIDE DEF Bad
  <2> QED BY <2>1, Least
<1>6. m # 0
  BY <1>4
<1>7. m \in 1 .. n /\ m - 1 \in 0 .. n /\ m - 1 \notin Bad
  BY <1>5, <1>6
<1>8. PICK s \in S : s = Scan(T, m - 1) /\ s = Scan(U, m - 1)
  BY <1>7, <1>4
<1>9. Scan(T, m) = PairUp(T, s, m) /\ Scan(U, m) = PairUp(U, s, m)
  BY <1>7, <1>8, <1>4
<1>10. s.pending \in 0 .. m - 1
  <2>1. PICK k \in Nat : k = m - 1
    BY <1>7
  <2>2. Pend(T, k) \in {0, k}
    BY <2>1, PendIn
  <2> QED BY <2>1, <2>2, <1>8 DEF Pend
<1>11. T[m].visible = U[m].visible /\ T[m].actor = U[m].actor
  BY <1>7 DEF Looks
<1>12. s.pending # 0 => T[s.pending].actor = U[s.pending].actor
  <2>1. s.pending # 0 => s.pending \in 1 .. n
    BY <1>7, <1>10
  <2> QED BY <2>1 DEF Looks
<1>13. PairUp(T, s, m) = PairUp(U, s, m)
  BY <1>11, <1>12 DEF PairUp
<1> QED BY <1>5, <1>9, <1>13

\* What was found stays found.
LEMMA PairsGrow ==
    ASSUME NEW n \in Nat, NEW T
    PROVE  \A m \in 0 .. n : \A x \in 1 .. Len(Scan(T, m).pairs) :
              /\ x \in 1 .. Len(Scan(T, n).pairs)
              /\ Scan(T, n).pairs[x] = Scan(T, m).pairs[x]
<1> SUFFICES ASSUME NEW m \in 0 .. n
             PROVE  \A x \in 1 .. Len(Scan(T, m).pairs) :
                       /\ x \in 1 .. Len(Scan(T, n).pairs)
                       /\ Scan(T, n).pairs[x] = Scan(T, m).pairs[x]
  OBVIOUS
<1> DEFINE Kept(k) == \A x \in 1 .. Len(Scan(T, m).pairs) :
                         /\ x \in 1 .. Len(Scan(T, k).pairs)
                         /\ Scan(T, k).pairs[x] = Scan(T, m).pairs[x]
           Bad == {k \in m .. n : ~Kept(k)}
<1>1. Bad = {}
  <2> SUFFICES ASSUME Bad # {} PROVE FALSE
    OBVIOUS
  <2>1. PICK k \in Bad : \A j \in Bad : k <= j
    <3>1. Bad \in SUBSET Nat
      OBVIOUS
    <3> HIDE DEF Bad
    <3> QED BY <3>1, Least
  <2>2. k # m
    <3>1. Kept(m)
      OBVIOUS
    <3> QED BY <3>1, <2>1
  <2>3. k \in Nat \ {0} /\ k - 1 \in m .. n /\ k - 1 \notin Bad /\ k - 1 \in 0 .. k
    BY <2>1, <2>2
  <2>4. Kept(k - 1)
    BY <2>3
  <2>5. PICK ps : ps = Scan(T, k - 1).pairs
    OBVIOUS
  <2>6. ps \in Seq((1 .. k) \X (1 .. k))
    <3>1. k \in Nat /\ k - 1 \in 0 .. k
      BY <2>3
    <3>2. Scan(T, k - 1) \in ScanStates(k)
      BY <3>1, ScanGood
    <3> QED BY <3>2, <2>5 DEF ScanStates
  <2>7. PICK qs : qs = Scan(T, k).pairs
    OBVIOUS
  <2>8. qs = ps \/ \E e : qs = Append(ps, e)
    <3>1. PICK more : more = Append(ps, <<Scan(T, k - 1).pending, k>>)
      OBVIOUS
    <3>2. qs = ps \/ qs = more
      BY <2>3, <2>5, <2>7, <3>1, ScanNext
    <3> QED BY <3>1, <3>2, Zenon
  <2>9. \A x \in 1 .. Len(ps) : x \in 1 .. Len(qs) /\ qs[x] = ps[x]
    <3>1. ASSUME NEW e, qs = Append(ps, e) PROVE \A x \in 1 .. Len(ps) : x \in 1 .. Len(qs) /\ qs[x] = ps[x]
      <4>1. Len(qs) = Len(ps) + 1 /\ \A x \in 1 .. Len(ps) : qs[x] = ps[x]
        BY <2>6, <3>1, LastOne
      <4>2. Len(ps) \in Nat
        BY <2>6
      <4> QED BY <4>1, <4>2
    <3> QED BY <2>8, <3>1
  <2>10. Kept(k)
    BY <2>4, <2>5, <2>7, <2>9
  <2> QED BY <2>1, <2>10
<1>2. Kept(n)
  BY <1>1
<1> QED BY <1>2

-----------------------------------------------------------------------------
(* What a turn more does to the exchanges: whether a human waits for an    *)
(* answer at the end of the transcript, and whether an answer met one.     *)

Calm(T) == Pend(T, Len(T)) # 0 => T[Len(T)].actor = "human"
Paired(T) == Pend(T, Len(T)) = 0

WaitsAt(T, n, group) ==
    n # 0 /\ Pend(T, n) = n /\ T[n].actor = "human" /\ T[n].group = group

Waits(T, group) == WaitsAt(T, Len(T), group)

Meets(T, j) == T[j].actor = "ai" /\ j > 1 /\ WaitsAt(T, j - 1, T[j].group)

LEMMA PendKept ==
    ASSUME NEW n \in Nat, NEW T, NEW U, Looks(T, U, n)
    PROVE  \A m \in 0 .. n : Pend(T, m) = Pend(U, m)
BY ScanSame DEF Pend

LEMMA PendAppend ==
    ASSUME NEW T \in Seq(TurnSet), NEW c \in TurnSet, NEW n \in Nat, n = Len(T)
    PROVE  LET U == Append(T, c) IN
           /\ U \in Seq(TurnSet) /\ Len(U) = n + 1 /\ U[n + 1] = c /\ \A j \in 1 .. n : U[j] = T[j]
           /\ \A m \in 0 .. n : Pend(U, m) = Pend(T, m)
           /\ ~c.visible => Pend(U, n + 1) = 0
           /\ c.visible /\ Pend(T, n) # 0 /\ T[n].actor # c.actor => Pend(U, n + 1) = 0
           /\ c.visible /\ ~(Pend(T, n) # 0 /\ T[n].actor # c.actor) => Pend(U, n + 1) = n + 1
<1>1. PICK U : U = Append(T, c)
  OBVIOUS
<1>2. U \in Seq(TurnSet) /\ Len(U) = n + 1 /\ U[n + 1] = c /\ \A j \in 1 .. n : U[j] = T[j]
  BY <1>1, Grown
<1>3. Looks(U, T, n)
  BY <1>2 DEF Looks
<1>4. \A m \in 0 .. n : Pend(U, m) = Pend(T, m)
  BY <1>3, PendKept
<1>5. Pend(T, n) \in {0, n}
  BY PendIn
<1>6. PICK k : k = n + 1 /\ k \in Nat \ {0} /\ k - 1 = n
  OBVIOUS
<1>7. Pend(U, n) = Pend(T, n)
  BY <1>4
<1>8. /\ ~c.visible => Pend(U, k) = 0
      /\ c.visible /\ Pend(U, n) # 0 /\ U[Pend(U, n)].actor # c.actor => Pend(U, k) = 0
      /\ c.visible /\ ~(Pend(U, n) # 0 /\ U[Pend(U, n)].actor # c.actor) => Pend(U, k) = k
  BY <1>2, <1>6, ScanNext DEF Pend
<1>9. Pend(U, n) # 0 => U[Pend(U, n)].actor = T[n].actor
  BY <1>2, <1>5, <1>7
<1>10. /\ ~c.visible => Pend(U, k) = 0
       /\ c.visible /\ Pend(T, n) # 0 /\ T[n].actor # c.actor => Pend(U, k) = 0
       /\ c.visible /\ ~(Pend(T, n) # 0 /\ T[n].actor # c.actor) => Pend(U, k) = k
  BY <1>7, <1>8, <1>9
<1> QED BY <1>1, <1>2, <1>4, <1>6, <1>10

LEMMA CalmWaits ==
    ASSUME NEW T, NEW group, Waits(T, group)
    PROVE  Calm(T)
BY DEF Waits, WaitsAt, Calm

\* Something a human said.
LEMMA HumanSpeaks ==
    ASSUME NEW T \in Seq(TurnSet), NEW c \in TurnSet, c.actor = "human", c.visible
    PROVE  /\ Calm(Append(T, c))
           /\ Calm(T) => Waits(Append(T, c), c.group)
<1>1. PICK n \in Nat : n = Len(T)
  OBVIOUS
<1>2. PICK U : U = Append(T, c)
  OBVIOUS
<1>3. /\ Len(U) = n + 1 /\ U[n + 1] = c
      /\ Pend(T, n) # 0 /\ T[n].actor # c.actor => Pend(U, n + 1) = 0
      /\ ~(Pend(T, n) # 0 /\ T[n].actor # c.actor) => Pend(U, n + 1) = n + 1
  BY <1>1, <1>2, PendAppend
<1>4. Calm(U)
  BY <1>3 DEF Calm
<1>5. ASSUME Calm(T) PROVE Waits(U, c.group)
  <2>1. Pend(U, n + 1) = n + 1
    BY <1>1, <1>3, <1>5 DEF Calm
  <2> QED BY <1>1, <1>3, <2>1 DEF Waits, WaitsAt
<1> QED BY <1>2, <1>4, <1>5

\* Something the machine said.
LEMMA MachineSpeaks ==
    ASSUME NEW T \in Seq(TurnSet), NEW c \in TurnSet, c.actor = "ai", NEW group
    PROVE  /\ ~c.visible => Paired(Append(T, c))
           /\ Waits(T, group) => Paired(Append(T, c))
           /\ Waits(T, c.group) => Meets(Append(T, c), Len(T) + 1)
<1>1. PICK n \in Nat : n = Len(T)
  OBVIOUS
<1>2. PICK U : U = Append(T, c)
  OBVIOUS
<1>3. /\ Len(U) = n + 1 /\ U[n + 1] = c /\ \A j \in 1 .. n : U[j] = T[j]
      /\ Pend(U, n) = Pend(T, n)
      /\ ~c.visible => Pend(U, n + 1) = 0
      /\ c.visible /\ Pend(T, n) # 0 /\ T[n].actor # c.actor => Pend(U, n + 1) = 0
  <2>1. n \in 0 .. n
    OBVIOUS
  <2> QED BY <2>1, <1>1, <1>2, PendAppend
<1>4. ~c.visible => Paired(U)
  BY <1>3 DEF Paired
<1>5. ASSUME Waits(T, group) PROVE Paired(U)
  <2>1. Pend(T, n) # 0 /\ T[n].actor # c.actor
    BY <1>1, <1>5 DEF Waits, WaitsAt
  <2> QED BY <2>1, <1>3 DEF Paired
<1>6. ASSUME Waits(T, c.group) PROVE Meets(U, n + 1)
  <2>1. n # 0 /\ Pend(T, n) = n /\ T[n].actor = "human" /\ T[n].group = c.group
    BY <1>1, <1>6 DEF Waits, WaitsAt
  <2>2. n \in 1 .. n /\ n + 1 > 1 /\ (n + 1) - 1 = n
    BY <2>1
  <2>3. U[n] = T[n]
    BY <1>3, <2>2
  <2> QED BY <1>3, <2>1, <2>2, <2>3 DEF Meets, WaitsAt
<1> QED BY <1>1, <1>2, <1>4, <1>5, <1>6

\* A turn gains a reference.
LEMMA ReferenceAdded ==
    ASSUME NEW T \in Seq(TurnSet), NEW U, NEW k, NEW refs, Revised(T, U, k, refs, T[k].visible),
           NEW group
    PROVE  /\ Looks(U, T, Len(T))
           /\ Waits(T, group) => Waits(U, group)
<1>1. PICK n \in Nat : n = Len(T)
  OBVIOUS
<1>2. /\ Len(U) = n /\ k \in 1 .. n /\ \A j \in 1 .. n : j # k => U[j] = T[j]
      /\ U[k].actor = T[k].actor /\ U[k].group = T[k].group /\ U[k].visible = T[k].visible
  BY <1>1 DEF Revised, SameTurn
<1>3. \A j \in 1 .. n : U[j].actor = T[j].actor /\ U[j].group = T[j].group /\ U[j].visible = T[j].visible
  BY <1>2
<1>4. Looks(U, T, n)
  BY <1>3 DEF Looks
<1>5. Pend(U, n) = Pend(T, n)
  <2>1. n \in 0 .. n
    OBVIOUS
  <2> QED BY <2>1, <1>4, PendKept
<1>6. ASSUME Waits(T, group) PROVE Waits(U, group)
  <2>1. n # 0 /\ Pend(T, n) = n /\ T[n].actor = "human" /\ T[n].group = group
    BY <1>1, <1>6 DEF Waits, WaitsAt
  <2>2. n \in 1 .. n
    BY <2>1
  <2> QED BY <2>1, <2>2, <1>2, <1>3, <1>5 DEF Waits, WaitsAt
<1> QED BY <1>1, <1>4, <1>6

\* The last answer was seen.
LEMMA AnswerSeen ==
    ASSUME NEW T \in Seq(TurnSet), NEW U, NEW refs, Revised(T, U, Len(T), refs, TRUE),
           Meets(T, Len(T))
    PROVE  Meets(U, Len(U)) /\ Paired(U)
<1>1. PICK n \in Nat : n = Len(T)
  OBVIOUS
<1>2. /\ Len(U) = n /\ \A j \in 1 .. n : j # n => U[j] = T[j]
      /\ U[n].actor = T[n].actor /\ U[n].group = T[n].group /\ U[n].visible
  BY <1>1 DEF Revised, SameTurn
<1>3. PICK m \in Nat : m = n - 1 /\ n > 1
  BY <1>1 DEF Meets
<1>4. /\ T[n].actor = "ai" /\ m # 0 /\ Pend(T, m) = m
      /\ T[m].actor = "human" /\ T[m].group = T[n].group
  BY <1>1, <1>3 DEF Meets, WaitsAt
<1>5. \A j \in 1 .. m : U[j] = T[j]
  BY <1>2, <1>3
<1>6. Looks(U, T, m)
  BY <1>5 DEF Looks
<1>7. Pend(U, m) = Pend(T, m)
  <2>1. m \in 0 .. m
    OBVIOUS
  <2> QED BY <2>1, <1>6, PendKept
<1>8. U[m] = T[m]
  BY <1>3, <1>4, <1>5
<1>9. Meets(U, n)
  BY <1>2, <1>3, <1>4, <1>7, <1>8 DEF Meets, WaitsAt
<1>10. Pend(U, n) = 0
  <2>1. n \in Nat \ {0} /\ n - 1 = m
    BY <1>3
  <2>2. U[n].visible /\ Scan(U, n - 1).pending # 0 /\ U[Scan(U, n - 1).pending].actor # U[n].actor
    BY <2>1, <1>2, <1>4, <1>7, <1>8 DEF Pend
  <2> QED BY <2>1, <2>2, ScanNext DEF Pend
<1> QED BY <1>2, <1>9, <1>10 DEF Paired

-----------------------------------------------------------------------------
(* What the label of a run says of who waits for whom.                     *)

Situation(T, group, retry, a) ==
    /\ a \in {"start", "told"} => IF retry THEN Waits(T, group) ELSE Calm(T)
    /\ a = "asking" /\ retry => Paired(T)
    /\ a \in {"heard", "failed", "said"} => Waits(T, group)
    /\ a \in {"asked", "dead"} => Paired(T)
    /\ a \in {"answered", "closed", "shown"} => Meets(T, Len(T)) /\ Paired(T)

LEMMA SituationSame ==
    ASSUME NEW T, NEW group, NEW retry, NEW a, NEW b, Situation(T, group, retry, a),
           \/ a = b \/ (a = "start" /\ b = "told") \/ (a = "heard" /\ b \in {"said", "failed"})
           \/ a = "answered" /\ b = "closed"
    PROVE  Situation(T, group, retry, b)
BY DEF Situation

LEMMA SituationHuman ==
    ASSUME NEW T \in Seq(TurnSet), NEW group, NEW retry, NEW a, NEW b,
           Situation(T, group, retry, a),
           (a = "asking" /\ b = "start") \/ (a \in {"asked", "told"} /\ b = "heard"),
           NEW c \in TurnSet, c.actor = "human", c.visible, c.group = group
    PROVE  Situation(Append(T, c), group, retry, b)
<1>1. PICK U : U = Append(T, c)
  OBVIOUS
<1>2. Calm(U) /\ (Calm(T) => Waits(U, group))
  BY <1>1, HumanSpeaks
<1>3. Paired(T) => Calm(T)
  BY DEF Paired, Calm
<1>4. Waits(T, group) => Calm(T)
  BY CalmWaits
<1>5. CASE a = "asking" /\ b = "start"
  BY <1>1, <1>2, <1>3, <1>5 DEF Situation
<1>6. CASE a \in {"asked", "told"} /\ b = "heard"
  BY <1>1, <1>2, <1>3, <1>4, <1>6 DEF Situation
<1> QED BY <1>5, <1>6

LEMMA SituationMachine ==
    ASSUME NEW T \in Seq(TurnSet), NEW group, NEW retry, NEW a, NEW b,
           Situation(T, group, retry, a), NEW c \in TurnSet, c.actor = "ai", c.group = group,
           \/ a = "start" /\ b = "asking"
           \/ a = "heard" /\ b = "asked"
           \/ ~c.visible /\ a = "heard" /\ b = "dead"
           \/ ~c.visible /\ a = "said" /\ b = "answered"
    PROVE  Situation(Append(T, c), group, retry, b)
<1>1. PICK U : U = Append(T, c)
  OBVIOUS
<1>2. /\ ~c.visible => Paired(U)
      /\ Waits(T, group) => Paired(U)
      /\ Waits(T, group) => Meets(U, Len(T) + 1)
  BY <1>1, MachineSpeaks
<1>3. Len(U) = Len(T) + 1
  BY <1>1, Grown
<1>4. CASE a = "start" /\ b = "asking"
  BY <1>1, <1>2, <1>4 DEF Situation
<1>5. CASE a = "heard" /\ b = "asked"
  BY <1>1, <1>2, <1>5 DEF Situation
<1>6. CASE ~c.visible /\ a = "heard" /\ b = "dead"
  BY <1>1, <1>2, <1>6 DEF Situation
<1>7. CASE ~c.visible /\ a = "said" /\ b = "answered"
  BY <1>1, <1>2, <1>3, <1>7 DEF Situation
<1> QED BY <1>4, <1>5, <1>6, <1>7

LEMMA SituationHeard ==
    ASSUME NEW T \in Seq(TurnSet), NEW group, Situation(T, group, TRUE, "told"),
           NEW U, NEW k, NEW refs, Revised(T, U, k, refs, T[k].visible)
    PROVE  Situation(U, group, TRUE, "heard")
<1>1. Waits(U, group)
  BY ReferenceAdded DEF Situation
<1> QED BY <1>1 DEF Situation

LEMMA SituationSeen ==
    ASSUME NEW T \in Seq(TurnSet), NEW group, NEW retry, Situation(T, group, retry, "closed"),
           NEW U, NEW refs, Revised(T, U, Len(T), refs, TRUE)
    PROVE  Situation(U, group, retry, "shown")
<1>1. Meets(U, Len(U)) /\ Paired(U)
  BY AnswerSeen DEF Situation
<1> QED BY <1>1 DEF Situation

-----------------------------------------------------------------------------
(* What a run has added to the transcript.                                 *)

RefsGrow(r, q) == Len(r) <= Len(q) /\ \A m \in 1 .. Len(r) : q[m] = r[m]

LEMMA RefsAdded ==
    ASSUME NEW S, NEW r \in Seq(S), NEW s \in Seq(S)
    PROVE  RefsGrow(r, r \o s)
<1>1. PICK q : q = r \o s
  OBVIOUS
<1>2. Len(q) = Len(r) + Len(s) /\ \A x \in 1 .. Len(r) : q[x] = r[x]
  BY <1>1
<1>3. Len(r) \in Nat /\ Len(s) \in Nat
  OBVIOUS
<1> QED BY <1>1, <1>2, <1>3 DEF RefsGrow

\* The turns of T0 are the first of T; some have more references.
Prolongs(T0, T) ==
    /\ Len(T0) <= Len(T)
    /\ \A j \in 1 .. Len(T0) : /\ SameTurn(T[j], T0[j]) /\ T[j].visible = T0[j].visible
                               /\ RefsGrow(T0[j].refs, T[j].refs)

\* A frame holds what a human said or decided.
ByHuman(f) == IsHumanUnit(f) \/ (f.is = "boundary" /\ f.actor = "human")

\* A turn is the one that frame f of the run tells.
Kind(t, f, role) ==
    \/ t.role = role /\ t.actor = "human" /\ t.content = "words" /\ t.visible /\ IsHumanUnit(f)
    \/ t.role \in {"approval_question", "approval_decision"} /\ (t.actor = "human" => ByHuman(f))
    \/ IsResponse(t.role) /\ t.actor = "ai"

\* A turn that the first m frames of the run tell.
TurnOf(run, t, m) ==
    /\ t.group = run.group /\ Len(t.refs) = 1 /\ t.refs[1][1] = run.id
    /\ t.refs[1][2] \in 1 .. m /\ Kind(t, run.frames[t.refs[1][2]], run.role)

Lines(run, T0, T, m) ==
    /\ Prolongs(T0, T)
    /\ \A j \in Len(T0) + 1 .. Len(T) : TurnOf(run, T[j], m)
    /\ \A j, l \in Len(T0) + 1 .. Len(T) : j < l => T[j].refs[1][2] < T[l].refs[1][2]

\* What the human said is where it was, or new, or has a reference more.
SaysNothing(T0, T) ==
    /\ \A j \in 1 .. Len(T0) : T[j].refs = T0[j].refs
    /\ \A j \in Len(T0) + 1 .. Len(T) : T[j].role \notin HumanInput

SaysAt(run, T0, T, h, m) ==
    /\ T[h].role \in HumanInput /\ T[h].group = run.group /\ IsHumanUnit(run.frames[m])
    /\ h > Len(T0) =>
          /\ T[h].refs[1] = <<run.id, m>>
          /\ \A j \in 1 .. Len(T0) : ~(T0[j].role \in HumanInput /\ T0[j].group = run.group)
    /\ h <= Len(T0) => T[h].refs = T0[h].refs \o <<<<run.id, m>>>>
    /\ \A j \in 1 .. Len(T0) : j # h => T[j].refs = T0[j].refs
    /\ \A j \in Len(T0) + 1 .. Len(T) : j # h => T[j].role \notin HumanInput

Says(run, T0, T, a) ==
    IF a \in {"start", "asking", "told"} THEN SaysNothing(T0, T)
    ELSE \E h \in 1 .. Len(T), m \in 1 .. Len(run.frames) : SaysAt(run, T0, T, h, m)

\* The answer is the last turn, if there is one.
IsAnswer(run, t, i) ==
    \E k \in 2 .. i, r \in {"response", "verified_response"} :
        /\ run.frames[k] = Said("ai", r, "answer", "released", k - 1)
        /\ t.actor = "ai" /\ t.role = r /\ t.content = "answer" /\ t.group = run.group
        /\ t.refs = <<<<run.id, k - 1>>>>

Concludes(run, T0, T, i, a) ==
    IF a \in {"answered", "closed", "shown"}
    THEN /\ Len(T) > Len(T0) /\ IsAnswer(run, T[Len(T)], i)
         /\ T[Len(T)].visible <=> a = "shown"
         /\ \A j \in Len(T0) + 1 .. Len(T) - 1 : ~IsResponse(T[j].role)
    ELSE \A j \in Len(T0) + 1 .. Len(T) : ~IsResponse(T[j].role)

UpTo(a, i) == IF a \in {"told", "said"} THEN i - 1 ELSE i

\* All of it, after frame i, where the run stands at a.
Ledger(run, T0, T, i, a) ==
    /\ T \in Seq(TurnSet)
    /\ Lines(run, T0, T, UpTo(a, i))
    /\ Says(run, T0, T, a)
    /\ Concludes(run, T0, T, i, a)
    /\ Situation(T, run.group, run.kind = "retry", a)

\* The transcript that a run of this group goes on.
Enters(run, T0) ==
    /\ T0 \in Seq(TurnSet)
    /\ \A j \in 1 .. Len(T0) : Len(T0[j].refs) # 0 /\ \A m \in 1 .. Len(T0[j].refs) : T0[j].refs[m][1] < run.id
    /\ \A j \in 1 .. Len(T0) :
          T0[j].group = run.group => run.kind = "retry" /\
             (T0[j].role \in HumanInput =>
                 T0[j].actor = "human" /\ T0[j].content = "words" /\ T0[j].role = run.role)
    /\ IF run.kind = "retry" THEN Waits(T0, run.group) ELSE Calm(T0)

LEMMA LinesStill ==
    ASSUME NEW run, NEW T0, NEW T, NEW m \in Int, NEW k \in Int, m <= k, Lines(run, T0, T, m)
    PROVE  Lines(run, T0, T, k)
<1>1. ASSUME NEW t, TurnOf(run, t, m) PROVE TurnOf(run, t, k)
  BY <1>1 DEF TurnOf
<1> QED BY <1>1 DEF Lines

LEMMA LinesAppend ==
    ASSUME NEW run, NEW T0 \in Seq(TurnSet), NEW T \in Seq(TurnSet), NEW m \in Int, NEW k \in Int,
           m <= k, Lines(run, T0, T, m),
           NEW c \in TurnSet, TurnOf(run, c, k), c.refs[1][2] > m
    PROVE  Lines(run, T0, Append(T, c), k)
<1>1. PICK n \in Nat, n0 \in Nat : n = Len(T) /\ n0 = Len(T0)
  OBVIOUS
<1>2. PICK U : U = Append(T, c)
  OBVIOUS
<1>3. Len(U) = n + 1 /\ U[n + 1] = c /\ \A j \in 1 .. n : U[j] = T[j]
  BY <1>1, <1>2, Grown
<1>4. /\ n0 <= n
      /\ \A j \in 1 .. n0 : /\ SameTurn(T[j], T0[j]) /\ T[j].visible = T0[j].visible
                            /\ RefsGrow(T0[j].refs, T[j].refs)
  BY <1>1 DEF Lines, Prolongs
<1>5. Prolongs(T0, U)
  BY <1>1, <1>3, <1>4 DEF Prolongs
<1>6. /\ \A j \in n0 + 1 .. n : TurnOf(run, T[j], m)
      /\ \A j, l \in n0 + 1 .. n : j < l => T[j].refs[1][2] < T[l].refs[1][2]
  BY <1>1 DEF Lines
<1>7. ASSUME NEW t, TurnOf(run, t, m) PROVE TurnOf(run, t, k) /\ t.refs[1][2] \in 1 .. m
  BY <1>7 DEF TurnOf
<1>8. \A j \in n0 + 1 .. n + 1 : TurnOf(run, U[j], k)
  <2> SUFFICES ASSUME NEW j \in n0 + 1 .. n + 1 PROVE TurnOf(run, U[j], k)
    OBVIOUS
  <2>1. CASE j = n + 1
    BY <2>1, <1>3
  <2>2. CASE j # n + 1
    <3>1. j \in n0 + 1 .. n /\ j \in 1 .. n
      BY <2>2
    <3>2. TurnOf(run, T[j], k)
      BY <3>1, <1>6, <1>7
    <3> QED BY <3>1, <3>2, <1>3
  <2> QED BY <2>1, <2>2
<1>9. \A j, l \in n0 + 1 .. n + 1 : j < l => U[j].refs[1][2] < U[l].refs[1][2]
  <2> SUFFICES ASSUME NEW j \in n0 + 1 .. n + 1, NEW l \in n0 + 1 .. n + 1, j < l
               PROVE  U[j].refs[1][2] < U[l].refs[1][2]
    OBVIOUS
  <2>1. j \in n0 + 1 .. n /\ j \in 1 .. n /\ U[j] = T[j]
    BY <1>3
  <2>2. T[j].refs[1][2] \in 1 .. m
    BY <2>1, <1>6, <1>7
  <2>3. CASE l = n + 1
    <3>1. c.refs[1][2] \in 1 .. k
      BY DEF TurnOf
    <3> QED BY <3>1, <2>1, <2>2, <2>3, <1>3
  <2>4. CASE l # n + 1
    <3>1. l \in n0 + 1 .. n /\ l \in 1 .. n /\ U[l] = T[l]
      BY <2>4, <1>3
    <3> QED BY <3>1, <2>1, <1>6
  <2> QED BY <2>3, <2>4
<1>10. Lines(run, T0, U, k)
  BY <1>1, <1>3, <1>5, <1>8, <1>9 DEF Lines
<1> QED BY <1>2, <1>10

\* The prefix gains references, the rest gains visibility.
LEMMA ProlongsRevised ==
    ASSUME NEW T0 \in Seq(TurnSet), NEW T \in Seq(TurnSet), Prolongs(T0, T),
           NEW U, NEW h, NEW refs, NEW v, Revised(T, U, h, refs, v),
           h <= Len(T0) => v = T[h].visible /\ RefsGrow(T[h].refs, refs)
    PROVE  Prolongs(T0, U)
<1>1. PICK n \in Nat, n0 \in Nat : n = Len(T) /\ n0 = Len(T0)
  OBVIOUS
<1>2. /\ Len(U) = n /\ h \in 1 .. n /\ \A j \in 1 .. n : j # h => U[j] = T[j]
      /\ SameTurn(U[h], T[h]) /\ U[h].refs = refs /\ U[h].visible = v
  BY <1>1 DEF Revised
<1>3. /\ n0 <= n
      /\ \A j \in 1 .. n0 : /\ SameTurn(T[j], T0[j]) /\ T[j].visible = T0[j].visible
                            /\ RefsGrow(T0[j].refs, T[j].refs)
  BY <1>1 DEF Prolongs
<1>4. ASSUME NEW j \in 1 .. n0
      PROVE  /\ SameTurn(U[j], T0[j]) /\ U[j].visible = T0[j].visible
             /\ RefsGrow(T0[j].refs, U[j].refs)
  <2>1. CASE j # h
    BY <2>1, <1>2, <1>3
  <2>2. CASE j = h
    <3>1. SameTurn(U[h], T0[h])
      BY <2>2, <1>2, <1>3 DEF SameTurn
    <3>2. U[h].visible = T0[h].visible
      BY <2>2, <1>1, <1>2, <1>3
    <3>3. PICK r, s, q : r = T0[h].refs /\ s = T[h].refs /\ q = refs
      OBVIOUS
    <3>4. r \in Seq(Nat \X Nat) /\ s \in Seq(Nat \X Nat)
      <4>1. T0[h] \in TurnSet /\ T[h] \in TurnSet
        BY <2>2, <1>1, <1>2
      <4> QED BY <4>1, <3>3, TurnFields
    <3>5. RefsGrow(r, s) /\ RefsGrow(s, q)
      BY <2>2, <1>1, <1>3, <3>3
    <3>6. PICK x \in Nat, y \in Nat : x = Len(r) /\ y = Len(s)
      BY <3>4
    <3>7. x <= y /\ y <= Len(q) /\ (\A m \in 1 .. x : s[m] = r[m]) /\ (\A m \in 1 .. y : q[m] = s[m])
      BY <3>5, <3>6 DEF RefsGrow
    <3>8. PICK z \in Nat : z = Len(q)
      <4>1. U[h] \in TurnSet /\ U[h].refs = q
        BY <1>1, <1>2, <3>3 DEF Revised
      <4>2. q \in Seq(Nat \X Nat)
        BY <4>1, TurnFields
      <4> QED BY <4>2
    <3>9. x <= z
      <4>1. y <= z
        BY <3>7, <3>8
      <4> QED BY <4>1, <3>7
    <3>10. \A m \in 1 .. x : q[m] = r[m]
      BY <3>7
    <3>11. RefsGrow(r, q)
      BY <3>6, <3>8, <3>9, <3>10 DEF RefsGrow
    <3> QED BY <2>2, <3>1, <3>2, <3>3, <3>11, <1>2
  <2> QED BY <2>1, <2>2
<1> QED BY <1>1, <1>2, <1>3, <1>4 DEF Prolongs

LEMMA LinesRevised ==
    ASSUME NEW run, NEW T0 \in Seq(TurnSet), NEW T \in Seq(TurnSet), NEW m \in Int, Lines(run, T0, T, m),
           NEW U, NEW h, NEW refs, NEW v, Revised(T, U, h, refs, v),
           h <= Len(T0) => v = T[h].visible /\ RefsGrow(T[h].refs, refs),
           h > Len(T0) => v = TRUE /\ refs = T[h].refs
    PROVE  Lines(run, T0, U, m)
<1>1. PICK n \in Nat, n0 \in Nat : n = Len(T) /\ n0 = Len(T0)
  OBVIOUS
<1>2. /\ Len(U) = n /\ h \in 1 .. n /\ \A j \in 1 .. n : j # h => U[j] = T[j]
      /\ SameTurn(U[h], T[h]) /\ U[h].refs = refs /\ U[h].visible = v
  BY <1>1 DEF Revised
<1>3. Prolongs(T0, U)
  BY ProlongsRevised DEF Lines
<1>4. /\ \A j \in n0 + 1 .. n : TurnOf(run, T[j], m)
      /\ \A j, l \in n0 + 1 .. n : j < l => T[j].refs[1][2] < T[l].refs[1][2]
  BY <1>1 DEF Lines
<1>5. ASSUME NEW j \in n0 + 1 .. n PROVE TurnOf(run, U[j], m) /\ U[j].refs = T[j].refs
  <2>1. TurnOf(run, T[j], m) /\ j \in 1 .. n
    BY <1>4
  <2>2. CASE j # h
    BY <2>1, <2>2, <1>2
  <2>3. CASE j = h
    <3>1. U[j].refs = T[j].refs /\ U[j].visible = TRUE /\ SameTurn(U[j], T[j])
      BY <2>3, <1>1, <1>2
    <3>2. TurnOf(run, U[j], m)
      BY <2>1, <3>1 DEF TurnOf, Kind, SameTurn
    <3> QED BY <3>1, <3>2
  <2> QED BY <2>2, <2>3
<1>6. \A j, l \in n0 + 1 .. n : j < l => U[j].refs[1][2] < U[l].refs[1][2]
  BY <1>4, <1>5
<1> QED BY <1>1, <1>2, <1>3, <1>5, <1>6 DEF Lines

LEMMA LastOrBefore ==
    ASSUME NEW n \in Nat, NEW k \in Nat, NEW j \in k + 1 .. n + 1
    PROVE  j = n + 1 \/ (j \in k + 1 .. n /\ j \in 1 .. n)
OBVIOUS

LEMMA SaysAppend ==
    ASSUME NEW run, NEW T0 \in Seq(TurnSet), NEW T \in Seq(TurnSet), Len(T0) <= Len(T), NEW a,
           Says(run, T0, T, a), NEW c \in TurnSet, c.role \notin HumanInput
    PROVE  Says(run, T0, Append(T, c), a)
<1>1. PICK n \in Nat, n0 \in Nat : n = Len(T) /\ n0 = Len(T0)
  OBVIOUS
<1>2. PICK U : U = Append(T, c)
  OBVIOUS
<1>3. Len(U) = n + 1 /\ U[n + 1] = c /\ \A j \in 1 .. n : U[j] = T[j]
  BY <1>1, <1>2, Grown
<1>4. \A j \in 1 .. n0 : U[j] = T[j]
  BY <1>1, <1>3
<1>5. ASSUME NEW j \in n0 + 1 .. n + 1 PROVE (j = n + 1 /\ U[j] = c) \/ (j \in n0 + 1 .. n /\ U[j] = T[j])
  <2>1. j = n + 1 \/ (j \in n0 + 1 .. n /\ j \in 1 .. n)
    BY LastOrBefore
  <2> QED BY <2>1, <1>3
<1>6. CASE a \in {"start", "asking", "told"}
  <2>1. SaysNothing(T0, T)
    BY <1>6 DEF Says
  <2>2. \A j \in 1 .. n0 : U[j].refs = T0[j].refs
    BY <2>1, <1>1, <1>4 DEF SaysNothing
  <2>3. \A j \in n0 + 1 .. n + 1 : U[j].role \notin HumanInput
    BY <2>1, <1>1, <1>5 DEF SaysNothing
  <2>4. SaysNothing(T0, U)
    BY <2>2, <2>3, <1>1, <1>3 DEF SaysNothing
  <2> QED BY <2>4, <1>2, <1>6 DEF Says
<1>7. CASE a \notin {"start", "asking", "told"}
  <2>1. PICK h \in 1 .. n, m \in 1 .. Len(run.frames) : SaysAt(run, T0, T, h, m)
    BY <1>1, <1>7 DEF Says
  <2>2. h \in 1 .. n + 1 /\ U[h] = T[h]
    BY <1>3
  <2>3. \A j \in 1 .. n0 : j # h => U[j].refs = T0[j].refs
    BY <2>1, <1>1, <1>4 DEF SaysAt
  <2>4. \A j \in n0 + 1 .. n + 1 : j # h => U[j].role \notin HumanInput
    BY <2>1, <1>1, <1>5 DEF SaysAt
  <2>5. SaysAt(run, T0, U, h, m)
    BY <2>1, <2>2, <2>3, <2>4, <1>1, <1>3 DEF SaysAt
  <2>6. \E x \in 1 .. Len(U), y \in 1 .. Len(run.frames) : SaysAt(run, T0, U, x, y)
    BY <2>2, <2>5, <1>3
  <2> QED BY <2>6, <1>2, <1>7 DEF Says
<1> QED BY <1>6, <1>7

LEMMA SaysNew ==
    ASSUME NEW run, NEW T0 \in Seq(TurnSet), NEW T \in Seq(TurnSet), Len(T0) <= Len(T),
           Says(run, T0, T, "told"),
           NEW c \in TurnSet, c.role \in HumanInput, c.group = run.group,
           NEW m \in 1 .. Len(run.frames), IsHumanUnit(run.frames[m]), c.refs[1] = <<run.id, m>>,
           \A j \in 1 .. Len(T0) : ~(T0[j].role \in HumanInput /\ T0[j].group = run.group)
    PROVE  Says(run, T0, Append(T, c), "heard")
<1>1. PICK n \in Nat, n0 \in Nat : n = Len(T) /\ n0 = Len(T0)
  OBVIOUS
<1>0. PICK h \in Nat : h = n + 1
  OBVIOUS
<1>2. PICK U : U = Append(T, c)
  OBVIOUS
<1>3. Len(U) = h /\ U[h] = c /\ \A j \in 1 .. n : U[j] = T[j]
  BY <1>0, <1>1, <1>2, Grown
<1>4. \A j \in 1 .. n0 : U[j] = T[j]
  BY <1>1, <1>3
<1>5. SaysNothing(T0, T)
  BY DEF Says
<1>6. \A j \in 1 .. n0 : U[j].refs = T0[j].refs
  BY <1>1, <1>4, <1>5 DEF SaysNothing
<1>7. \A j \in n0 + 1 .. h : j # h => U[j].role \notin HumanInput
  <2> SUFFICES ASSUME NEW j \in n0 + 1 .. h, j # h PROVE U[j].role \notin HumanInput
    OBVIOUS
  <2>1. j \in n0 + 1 .. n /\ U[j] = T[j]
    BY <1>0, <1>3
  <2> QED BY <2>1, <1>1, <1>5 DEF SaysNothing
<1>8. h > n0 /\ ~(h <= n0) /\ h \in 1 .. h
  BY <1>0, <1>1
<1>9. SaysAt(run, T0, U, h, m)
  BY <1>1, <1>3, <1>6, <1>7, <1>8 DEF SaysAt
<1>10. \E x \in 1 .. Len(U), y \in 1 .. Len(run.frames) : SaysAt(run, T0, U, x, y)
  BY <1>3, <1>8, <1>9
<1> QED BY <1>2, <1>10 DEF Says

LEMMA SaysAgain ==
    ASSUME NEW run, NEW T0 \in Seq(TurnSet), NEW T \in Seq(TurnSet), Len(T0) <= Len(T),
           Says(run, T0, T, "told"), NEW h \in 1 .. Len(T),
           T[h].role \in HumanInput, T[h].group = run.group,
           NEW m \in 1 .. Len(run.frames), IsHumanUnit(run.frames[m]),
           NEW U, Revised(T, U, h, T[h].refs \o <<<<run.id, m>>>>, T[h].visible)
    PROVE  h <= Len(T0) /\ Says(run, T0, U, "heard")
<1>1. PICK n \in Nat, n0 \in Nat : n = Len(T) /\ n0 = Len(T0)
  OBVIOUS
<1>2. /\ Len(U) = n /\ \A j \in 1 .. n : j # h => U[j] = T[j]
      /\ SameTurn(U[h], T[h]) /\ U[h].refs = T[h].refs \o <<<<run.id, m>>>>
  BY <1>1 DEF Revised
<1>3. SaysNothing(T0, T)
  BY DEF Says
<1>4. h \in 1 .. n0
  <2>1. h \notin n0 + 1 .. n
    BY <1>1, <1>3 DEF SaysNothing
  <2> QED BY <2>1, <1>1
<1>5. T[h].refs = T0[h].refs
  BY <1>1, <1>3, <1>4 DEF SaysNothing
<1>6. \A j \in 1 .. n0 : j # h => U[j].refs = T0[j].refs
  BY <1>1, <1>2, <1>3 DEF SaysNothing
<1>7. \A j \in n0 + 1 .. n : j # h => U[j].role \notin HumanInput
  BY <1>1, <1>2, <1>3 DEF SaysNothing
<1>8. U[h].role \in HumanInput /\ U[h].group = run.group /\ ~(h > n0) /\ h <= n0
  BY <1>1, <1>2, <1>4 DEF SameTurn
<1>9. SaysAt(run, T0, U, h, m)
  BY <1>1, <1>2, <1>5, <1>6, <1>7, <1>8 DEF SaysAt
<1>10. \E x \in 1 .. Len(U), y \in 1 .. Len(run.frames) : SaysAt(run, T0, U, x, y)
  BY <1>1, <1>2, <1>9
<1> QED BY <1>1, <1>8, <1>10 DEF Says

LEMMA SaysSeen ==
    ASSUME NEW run, NEW T0 \in Seq(TurnSet), NEW T \in Seq(TurnSet), Len(T0) <= Len(T), NEW a,
           Says(run, T0, T, a), NEW U, NEW k, NEW v, Revised(T, U, k, T[k].refs, v)
    PROVE  Says(run, T0, U, a)
<1>1. PICK n \in Nat, n0 \in Nat : n = Len(T) /\ n0 = Len(T0)
  OBVIOUS
<1>2. /\ Len(U) = n /\ k \in 1 .. n /\ \A j \in 1 .. n : j # k => U[j] = T[j]
      /\ SameTurn(U[k], T[k]) /\ U[k].refs = T[k].refs
  BY <1>1 DEF Revised
<1>3. \A j \in 1 .. n : U[j].refs = T[j].refs /\ U[j].role = T[j].role /\ U[j].group = T[j].group
  BY <1>2 DEF SameTurn
<1>4. \A j \in 1 .. n0 : U[j].refs = T[j].refs
  BY <1>1, <1>3
<1>5. \A j \in n0 + 1 .. n : U[j].role = T[j].role
  BY <1>1, <1>3
<1>6. CASE a \in {"start", "asking", "told"}
  BY <1>1, <1>2, <1>4, <1>5, <1>6 DEF Says, SaysNothing
<1>7. CASE a \notin {"start", "asking", "told"}
  <2>1. PICK h \in 1 .. n, m \in 1 .. Len(run.frames) : SaysAt(run, T0, T, h, m)
    BY <1>1, <1>7 DEF Says
  <2>2. U[h].refs = T[h].refs /\ U[h].role = T[h].role /\ U[h].group = T[h].group
    BY <1>3
  <2>3. \A j \in 1 .. n0 : j # h => U[j].refs = T0[j].refs
    BY <2>1, <1>1, <1>4 DEF SaysAt
  <2>4. \A j \in n0 + 1 .. n : j # h => U[j].role \notin HumanInput
    BY <2>1, <1>1, <1>5 DEF SaysAt
  <2>5. SaysAt(run, T0, U, h, m)
    BY <2>1, <2>2, <2>3, <2>4, <1>1, <1>2 DEF SaysAt
  <2>6. \E x \in 1 .. Len(U), y \in 1 .. Len(run.frames) : SaysAt(run, T0, U, x, y)
    BY <2>5, <1>2
  <2> QED BY <2>6, <1>7 DEF Says
<1> QED BY <1>6, <1>7

Answered == {"answered", "closed", "shown"}

LEMMA ConcludesAppend ==
    ASSUME NEW run, NEW T0 \in Seq(TurnSet), NEW T \in Seq(TurnSet), Len(T0) <= Len(T),
           NEW i, NEW k, NEW a, NEW b, a \notin Answered, Concludes(run, T0, T, i, a),
           NEW c \in TurnSet,
           \/ b \notin Answered /\ ~IsResponse(c.role)
           \/ b \in Answered /\ b # "shown" /\ IsAnswer(run, c, k) /\ ~c.visible
    PROVE  Concludes(run, T0, Append(T, c), k, b)
<1>1. PICK n \in Nat, n0 \in Nat : n = Len(T) /\ n0 = Len(T0)
  OBVIOUS
<1>2. PICK U : U = Append(T, c)
  OBVIOUS
<1>3. Len(U) = n + 1 /\ U[n + 1] = c /\ \A j \in 1 .. n : U[j] = T[j]
  BY <1>1, <1>2, Grown
<1>4. \A j \in n0 + 1 .. n : ~IsResponse(U[j].role)
  BY <1>1, <1>3 DEF Concludes, Answered
<1>5. CASE b \notin Answered
  <2>1. \A j \in n0 + 1 .. n + 1 : ~IsResponse(U[j].role)
    <3> SUFFICES ASSUME NEW j \in n0 + 1 .. n + 1 PROVE ~IsResponse(U[j].role)
      OBVIOUS
    <3>1. j = n + 1 \/ j \in n0 + 1 .. n
      OBVIOUS
    <3> QED BY <3>1, <1>3, <1>4, <1>5
  <2> QED BY <2>1, <1>1, <1>2, <1>3, <1>5 DEF Concludes, Answered
<1>6. CASE b \in Answered
  <2>1. n + 1 > n0 /\ (n + 1) - 1 = n
    BY <1>1
  <2>2. IsAnswer(run, U[n + 1], k) /\ (U[n + 1].visible <=> b = "shown")
    BY <1>3, <1>6
  <2> QED BY <2>1, <2>2, <1>1, <1>2, <1>3, <1>4, <1>6 DEF Concludes, Answered
<1> QED BY <1>5, <1>6

LEMMA ConcludesRevised ==
    ASSUME NEW run, NEW T0 \in Seq(TurnSet), NEW T \in Seq(TurnSet), Len(T0) <= Len(T),
           NEW i, NEW k, NEW a, NEW b, a \notin Answered, b \notin Answered,
           Concludes(run, T0, T, i, a), NEW U, NEW h, NEW refs, NEW v, Revised(T, U, h, refs, v)
    PROVE  Concludes(run, T0, U, k, b)
<1>1. PICK n \in Nat, n0 \in Nat : n = Len(T) /\ n0 = Len(T0)
  OBVIOUS
<1>2. Len(U) = n /\ \A j \in 1 .. n : U[j].role = T[j].role
  BY <1>1 DEF Revised, SameTurn
<1>3. \A j \in n0 + 1 .. n : ~IsResponse(U[j].role)
  BY <1>1, <1>2 DEF Concludes, Answered
<1> QED BY <1>1, <1>2, <1>3 DEF Concludes, Answered

LEMMA AnswerLater ==
    ASSUME NEW run, NEW t, NEW u, NEW i \in Int, NEW k \in Int, i <= k, IsAnswer(run, t, i),
           SameTurn(u, t), u.refs = t.refs
    PROVE  IsAnswer(run, u, k)
<1>1. PICK l \in 2 .. i, r \in {"response", "verified_response"} :
        /\ run.frames[l] = Said("ai", r, "answer", "released", l - 1)
        /\ t.actor = "ai" /\ t.role = r /\ t.content = "answer" /\ t.group = run.group
        /\ t.refs = <<<<run.id, l - 1>>>>
  BY DEF IsAnswer
<1>2. l \in 2 .. k
  OBVIOUS
<1>3. u.actor = "ai" /\ u.role = r /\ u.content = "answer" /\ u.group = run.group
  BY <1>1 DEF SameTurn
<1>4. u.refs = <<<<run.id, l - 1>>>>
  BY <1>1, Zenon
<1> QED BY <1>1, <1>2, <1>3, <1>4, Zenon DEF IsAnswer

LEMMA ConcludesSeen ==
    ASSUME NEW run, NEW T0 \in Seq(TurnSet), NEW T \in Seq(TurnSet), Len(T0) <= Len(T),
           NEW i \in Int, NEW k \in Int, i <= k, Concludes(run, T0, T, i, "closed"),
           NEW U, Revised(T, U, Len(T), T[Len(T)].refs, TRUE)
    PROVE  Concludes(run, T0, U, k, "shown")
<1>1. PICK n \in Nat, n0 \in Nat : n = Len(T) /\ n0 = Len(T0)
  OBVIOUS
<1>2. /\ Len(U) = n /\ n \in 1 .. n /\ \A j \in 1 .. n : j # n => U[j] = T[j]
      /\ SameTurn(U[n], T[n]) /\ U[n].refs = T[n].refs /\ U[n].visible
  BY <1>1 DEF Revised
<1>3. n > n0 /\ IsAnswer(run, T[n], i) /\ \A j \in n0 + 1 .. n - 1 : ~IsResponse(T[j].role)
  BY <1>1 DEF Concludes
<1>4. IsAnswer(run, U[n], k)
  BY <1>2, <1>3, AnswerLater
<1>5. \A j \in n0 + 1 .. n - 1 : ~IsResponse(U[j].role)
  <2>1. \A j \in n0 + 1 .. n - 1 : U[j] = T[j]
    BY <1>1, <1>2
  <2> QED BY <2>1, <1>3
<1> QED BY <1>1, <1>2, <1>3, <1>4, <1>5 DEF Concludes

LEMMA ConcludesStill ==
    ASSUME NEW run, NEW T0, NEW T, NEW i \in Int, NEW k \in Int, i <= k, NEW a, NEW b,
           Concludes(run, T0, T, i, a),
           a = b \/ (a \notin Answered /\ b \notin Answered) \/ (a = "answered" /\ b = "closed")
    PROVE  Concludes(run, T0, T, k, b)
<1>1. CASE a \notin Answered
  BY <1>1 DEF Concludes, Answered
<1>2. CASE a \in Answered
  <2>1. PICK t : t = T[Len(T)]
    OBVIOUS
  <2>2. IsAnswer(run, t, i)
    BY <1>2, <2>1 DEF Concludes, Answered
  <2>3. IsAnswer(run, t, k)
    BY <2>2, AnswerLater DEF SameTurn
  <2> QED BY <1>2, <2>1, <2>3 DEF Concludes, Answered
<1> QED BY <1>1, <1>2

-----------------------------------------------------------------------------
(* A run with boundary events, frame by frame.                             *)

\* What the event of frame i says and where, merged into the transcript.
TellsTurn(run, T, i, actor, role, content, visibility, ref) ==
    \E c \in TurnSet :
        /\ Tell(run, T, i) = Merge(T, c)
        /\ c.actor = actor /\ c.role = role /\ c.content = content /\ c.group = run.group
        /\ c.visible <=> (visibility = "delivered" \/ (visibility = "visible" /\ ~IsResponse(role)))
        /\ Len(c.refs) = 1 /\ c.refs[1] = <<run.id, ref>> /\ c.refs = <<<<run.id, ref>>>>

LEMMA Telling ==
    ASSUME NEW run \in RunSet, Explicit(run), NEW T, NEW i \in 1 .. Len(run.frames),
           NEW actor, NEW role, NEW content, NEW visibility, NEW source \in Nat,
           run.frames[i] = Said(actor, role, content, visibility, source),
           NEW ref, ref = IF source = 0 THEN i ELSE source
    PROVE  TellsTurn(run, T, i, actor, role, content, visibility, ref)
<1>1. run.id \in Nat /\ run.group \in Nat /\ run.frames \in Seq(FrameSet)
  BY RunFields
<1>2. PICK f \in FrameSet : f = run.frames[i]
  BY <1>1
<1>3. /\ f.is = "boundary" /\ f.actor = actor /\ f.role = role /\ f.content = content
      /\ f.visibility = visibility /\ f.source = source
  BY <1>2 DEF Said
<1>4. actor \in Actors /\ role \in TurnRoles /\ content \in Contents
  <2>1. f \in Events
    BY <1>3, FrameKinds
  <2> QED BY <2>1, <1>3, EventFields
<1>5. ref \in Nat
  BY <1>1
<1>6. PICK v \in BOOLEAN : v = Crossed(f)
  BY DEF Crossed
<1>7. PICK c \in TurnSet :
        /\ c = Turn(run, actor, role, content, ref, v)
        /\ c.actor = actor /\ c.group = run.group /\ c.role = role
        /\ c.content = content /\ c.visible = v /\ c.refs = <<<<run.id, ref>>>>
        /\ Len(c.refs) = 1 /\ c.refs[1] = <<run.id, ref>>
  BY <1>1, <1>4, <1>5, TurnMade
<1>8. Tell(run, T, i) = Merge(T, c)
  BY <1>2, <1>3, <1>6, <1>7 DEF Tell, EventTurn
<1>9. v <=> (visibility = "delivered" \/ (visibility = "visible" /\ ~IsResponse(role)))
  BY <1>3, <1>6 DEF Crossed
<1>10. c.visible <=> (visibility = "delivered" \/ (visibility = "visible" /\ ~IsResponse(role)))
  BY <1>7, <1>9
<1> QED BY <1>7, <1>8, <1>10, Zenon DEF TellsTurn

\* A frame that is no boundary event.
LEMMA LedgerStill ==
    ASSUME NEW run \in RunSet, Explicit(run), NEW T0, NEW T, NEW i \in 1 .. Len(run.frames),
           run.frames[i].is # "boundary", NEW a, NEW b,
           \/ a = b /\ a \notin {"told", "said"}
           \/ a = "start" /\ b = "told"
           \/ a = "heard" /\ b \in {"said", "failed"}
           \/ a = "answered" /\ b = "closed",
           Ledger(run, T0, T, i - 1, a)
    PROVE  Ledger(run, T0, Tell(run, T, i), i, b)
<1>1. Tell(run, T, i) = T
  BY DEF Tell
<1>2. UpTo(a, i - 1) \in Int /\ UpTo(b, i) \in Int /\ UpTo(a, i - 1) <= UpTo(b, i)
  BY DEF UpTo
<1>3. Lines(run, T0, T, UpTo(b, i))
  <2>1. Lines(run, T0, T, UpTo(a, i - 1))
    BY DEF Ledger
  <2> QED BY <2>1, <1>2, LinesStill
<1>4. Says(run, T0, T, b)
  BY DEF Ledger, Says
<1>5. Concludes(run, T0, T, i, b)
  <2>1. Concludes(run, T0, T, i - 1, a)
    BY DEF Ledger
  <2>2. a = b \/ (a \notin Answered /\ b \notin Answered) \/ (a = "answered" /\ b = "closed")
    BY DEF Answered
  <2>3. i - 1 \in Int /\ i \in Int /\ i - 1 <= i
    OBVIOUS
  <2> QED BY <2>1, <2>2, <2>3, ConcludesStill
<1>6. Situation(T, run.group, run.kind = "retry", b)
  BY SituationSame DEF Ledger
<1>7. T \in Seq(TurnSet)
  BY DEF Ledger
<1> QED BY <1>1, <1>3, <1>4, <1>5, <1>6, <1>7 DEF Ledger

\* A question, a decision.
LEMMA LedgerAsks ==
    ASSUME NEW run \in RunSet, Explicit(run), NEW T0 \in Seq(TurnSet), NEW T,
           NEW i \in 1 .. Len(run.frames), NEW a, NEW b,
           Asks(run.frames[i], a, b) \/ Decides(run.frames[i], a, b),
           Ledger(run, T0, T, i - 1, a)
    PROVE  Ledger(run, T0, Tell(run, T, i), i, b)
<1>1. PICK actor, role, content, visibility :
        /\ run.frames[i] = Said(actor, role, content, visibility, 0)
        /\ \/ actor = "human" /\ role = "approval_decision" /\ visibility = "visible"
           \/ actor = "ai" /\ role = "approval_question" /\ visibility \in {"visible", "unknown"}
        /\ actor = "human" => (a = "asking" /\ b = "start") \/ (a = "asked" /\ b = "heard")
        /\ actor = "ai" => \/ a = "start" /\ b = "asking"
                           \/ a = "heard" /\ b = "asked"
                           \/ visibility = "unknown" /\ a = "heard" /\ b = "dead"
  <2>1. CASE Asks(run.frames[i], a, b)
    <3>1. PICK seen : /\ run.frames[i] = Said("ai", "approval_question", "question", seen, 0)
                      /\ \/ seen = "visible" /\ a = "start" /\ b = "asking"
                         \/ seen = "visible" /\ a = "heard" /\ b = "asked"
                         \/ seen = "unknown" /\ a = "heard" /\ b = "dead"
      BY <2>1 DEF Asks, Question
    <3>2. PICK x, y, z : x = "ai" /\ y = "approval_question" /\ z = "question"
      OBVIOUS
    <3>3. run.frames[i] = Said(x, y, z, seen, 0)
      BY <3>1, <3>2
    <3> QED BY <3>1, <3>2, <3>3
  <2>2. CASE Decides(run.frames[i], a, b)
    <3>1. PICK d : run.frames[i] = Said("human", "approval_decision", d, "visible", 0)
      BY <2>2 DEF Decides
    <3>2. (a = "asking" /\ b = "start") \/ (a = "asked" /\ b = "heard")
      BY <2>2 DEF Decides
    <3>3. PICK x, y, z : x = "human" /\ y = "approval_decision" /\ z = "visible"
      OBVIOUS
    <3>4. run.frames[i] = Said(x, y, d, z, 0)
      BY <3>1, <3>3
    <3> QED BY <3>2, <3>3, <3>4
  <2> QED BY <2>1, <2>2
<1>2. PICK c \in TurnSet :
        /\ Tell(run, T, i) = Merge(T, c) /\ c.actor = actor /\ c.role = role /\ c.group = run.group
        /\ c.visible <=> (visibility = "delivered" \/ (visibility = "visible" /\ ~IsResponse(role)))
        /\ Len(c.refs) = 1 /\ c.refs[1] = <<run.id, i>>
  <2>1. PICK source \in Nat, ref \in Nat : source = 0 /\ ref = i
    OBVIOUS
  <2>2. ref = IF source = 0 THEN i ELSE source
    BY <2>1
  <2>3. run.frames[i] = Said(actor, role, content, visibility, source)
    BY <1>1, <2>1
  <2>4. TellsTurn(run, T, i, actor, role, content, visibility, ref)
    BY <2>2, <2>3, Telling
  <2> QED BY <2>1, <2>4 DEF TellsTurn
<1>3. T \in Seq(TurnSet) /\ ~IsResponse(role) /\ role \notin HumanInput
  BY <1>1 DEF Ledger, IsResponse, HumanInput
<1>4. Tell(run, T, i) = Append(T, c)
  <2>1. \A t : ~SameResponse(t, c)
    BY <1>2, <1>3 DEF SameResponse
  <2> QED BY <2>1, <1>2, <1>3, MergeCases
<1>5. PICK m : m = UpTo(a, i - 1)
  OBVIOUS
<1>6. m = i - 1 /\ UpTo(b, i) = i
  BY <1>1, <1>5 DEF UpTo
<1>7. Lines(run, T0, T, m) /\ Len(T0) <= Len(T)
  BY <1>5 DEF Ledger, Lines, Prolongs
<1>8. Lines(run, T0, Append(T, c), i)
  <2>1. TurnOf(run, c, i)
    <3>1. i \in 1 .. i
      OBVIOUS
    <3>2. c.refs[1][1] = run.id /\ c.refs[1][2] = i
      BY <1>2
    <3>3. run.frames[i].is = "boundary" /\ run.frames[i].actor = actor
      BY <1>1 DEF Said
    <3>4. Kind(c, run.frames[i], run.role)
      BY <3>3, <1>1, <1>2 DEF Kind, ByHuman
    <3> QED BY <3>1, <3>2, <3>4, <1>2 DEF TurnOf
  <2>2. m \in Int /\ i \in Int /\ m <= i /\ c.refs[1][2] > m
    BY <1>2, <1>6
  <2> QED BY <2>1, <2>2, <1>3, <1>7, LinesAppend
<1>9. Says(run, T0, Append(T, c), b)
  <2>1. Says(run, T0, Append(T, c), a)
    BY <1>2, <1>3, <1>7, SaysAppend DEF Ledger
  <2> QED BY <2>1, <1>1 DEF Says
<1>10. Concludes(run, T0, Append(T, c), i, b)
  <2>1. a \notin Answered /\ b \notin Answered /\ ~IsResponse(c.role)
    BY <1>1, <1>2, <1>3 DEF Answered
  <2> QED BY <2>1, <1>3, <1>7, ConcludesAppend DEF Ledger
<1>11. Situation(Append(T, c), run.group, run.kind = "retry", b)
  <2>1. Situation(T, run.group, run.kind = "retry", a)
    BY DEF Ledger
  <2>2. CASE actor = "human"
    <3>1. c.visible /\ c.actor = "human" /\ ((a = "asking" /\ b = "start") \/ (a \in {"asked", "told"} /\ b = "heard"))
      BY <2>2, <1>1, <1>2, <1>3
    <3> QED BY <3>1, <2>1, <1>2, <1>3, SituationHuman
  <2>3. CASE actor = "ai"
    <3>1. visibility = "unknown" => ~c.visible
      BY <1>2
    <3>2. \/ a = "start" /\ b = "asking"
          \/ a = "heard" /\ b = "asked"
          \/ ~c.visible /\ a = "heard" /\ b = "dead"
          \/ ~c.visible /\ a = "said" /\ b = "answered"
      BY <2>3, <3>1, <1>1
    <3> QED BY <3>2, <2>1, <2>3, <1>2, <1>3, SituationMachine
  <2> QED BY <2>2, <2>3, <1>1
<1>12. Append(T, c) \in Seq(TurnSet)
  BY <1>3
<1> QED BY <1>4, <1>6, <1>8, <1>9, <1>10, <1>11, <1>12 DEF Ledger

\* What the human said: a turn of its own, or a reference more where a retry
\* says it again.
LEMMA LedgerWords ==
    ASSUME NEW run \in RunSet, Explicit(run), NEW T0, Enters(run, T0), NEW T,
           NEW i \in 1 .. Len(run.frames),
           run.frames[i] = Said("human", run.role, "words", "visible", i - 1),
           HeardSo(run.frames, i - 1, "told", run.role),
           Ledger(run, T0, T, i - 1, "told")
    PROVE  Ledger(run, T0, Tell(run, T, i), i, "heard")
<1>1. PICK m \in 1 .. Len(run.frames) : m = i - 1 /\ m \in Nat /\ m # 0 /\ IsHumanUnit(run.frames[m])
  <2>1. PICK h \in 1 .. i - 1 : run.frames[h] = Unit(run.role, TRUE, "words") /\ h = i - 1
    BY DEF HeardSo
  <2>2. run.role \in HumanInput /\ Len(run.frames) \in Nat
    BY RunFields
  <2>3. IsHumanUnit(run.frames[h])
    BY <2>1, <2>2 DEF IsHumanUnit, Unit
  <2>4. h \in 1 .. Len(run.frames) /\ h \in Nat /\ h # 0
    BY <2>1, <2>2
  <2> QED BY <2>1, <2>3, <2>4
<1>2. PICK actor, content, visibility :
        actor = "human" /\ content = "words" /\ visibility = "visible"
  OBVIOUS
<1>3. TellsTurn(run, T, i, actor, run.role, content, visibility, m)
  <2>1. run.frames[i] = Said(actor, run.role, content, visibility, m)
    BY <1>1, <1>2
  <2>2. m \in Nat /\ m = IF m = 0 THEN i ELSE m
    BY <1>1
  <2> QED BY <2>1, <2>2, Telling
<1>4. run.role \in HumanInput /\ ~IsResponse(run.role)
  <2>1. run.role \in HumanInput
    BY RunFields
  <2> QED BY <2>1 DEF IsResponse, HumanInput
<1>5. PICK c \in TurnSet :
        /\ Tell(run, T, i) = Merge(T, c) /\ c.actor = "human" /\ c.role = run.role
        /\ c.content = "words" /\ c.group = run.group /\ c.visible
        /\ Len(c.refs) = 1 /\ c.refs[1] = <<run.id, m>> /\ c.refs = <<<<run.id, m>>>>
  BY <1>2, <1>3, <1>4 DEF TellsTurn
<1>6. T \in Seq(TurnSet) /\ T0 \in Seq(TurnSet)
  BY DEF Ledger, Enters
<1>7. PICK n \in Nat, n0 \in Nat : n = Len(T) /\ n0 = Len(T0)
  BY <1>6
<1>8. PICK k, l : k = UpTo("told", i - 1) /\ l = UpTo("heard", i)
  OBVIOUS
<1>9. k = m - 1 /\ l = i /\ k \in Int /\ l \in Int /\ k <= l /\ m > k
  BY <1>1, <1>8 DEF UpTo
<1>10. Lines(run, T0, T, k) /\ n0 <= n
  BY <1>7, <1>8 DEF Ledger, Lines, Prolongs
<1>11. Says(run, T0, T, "told") /\ Situation(T, run.group, run.kind = "retry", "told")
       /\ Concludes(run, T0, T, i - 1, "told")
  BY DEF Ledger
<1>12. "told" \notin Answered /\ "heard" \notin Answered
  BY DEF Answered
<1>13. ASSUME NEW h \in 1 .. n, SameContribution(T[h], c),
              NEW U, Revised(T, U, h, T[h].refs \o c.refs, T[h].visible)
       PROVE  Ledger(run, T0, U, i, "heard")
  <2>1. T[h].role \in HumanInput /\ T[h].group = run.group
    BY <1>4, <1>5, <1>13 DEF SameContribution
  <2>2. h <= n0 /\ Says(run, T0, U, "heard")
    <3>1. Revised(T, U, h, T[h].refs \o <<<<run.id, m>>>>, T[h].visible)
      BY <1>5, <1>13
    <3> QED BY <3>1, <2>1, <1>1, <1>6, <1>7, <1>10, <1>11, SaysAgain
  <2>3. run.kind = "retry"
    <3>1. h \in 1 .. n0
      BY <2>2
    <3>2. T0[h].group = run.group
      BY <3>1, <2>1, <1>7, <1>10 DEF Lines, Prolongs, SameTurn
    <3> QED BY <3>1, <3>2, <1>7 DEF Enters
  <2>4. Situation(U, run.group, TRUE, "heard")
    <3>1. Situation(T, run.group, TRUE, "told")
      BY <2>3, <1>11
    <3> QED BY <3>1, <1>6, <1>13, SituationHeard
  <2>5. Concludes(run, T0, U, i, "heard")
    BY <1>6, <1>7, <1>10, <1>11, <1>12, <1>13, ConcludesRevised
  <2>6. Lines(run, T0, U, k)
    <3>1. PICK r, s, q : r = T[h].refs /\ s = c.refs /\ q = r \o s
      OBVIOUS
    <3>2. r \in Seq(Nat \X Nat) /\ s \in Seq(Nat \X Nat)
      <4>1. T[h] \in TurnSet
        BY <1>6, <1>7, <1>13
      <4> QED BY <4>1, <3>1, TurnFields
    <3>3. RefsGrow(r, q)
      <4>1. RefsGrow(r, r \o s)
        BY <3>2, RefsAdded
      <4> QED BY <4>1, <3>1, Zenon
    <3>4. Revised(T, U, h, q, T[h].visible) /\ ~(h > n0)
      BY <3>1, <2>2, <1>7, <1>13
    <3>5. RefsGrow(T[h].refs, q)
      BY <3>1, <3>3
    <3>6. h <= Len(T0) => T[h].visible = T[h].visible /\ RefsGrow(T[h].refs, q)
      BY <3>5
    <3>7. h > Len(T0) => T[h].visible = TRUE /\ q = T[h].refs
      BY <3>4, <1>7
    <3> QED BY <3>4, <3>6, <3>7, <1>6, <1>9, <1>10, LinesRevised
  <2>7. Lines(run, T0, U, l)
    BY <2>6, <1>9, LinesStill
  <2>8. U \in Seq(TurnSet)
    BY <1>13 DEF Revised
  <2> QED BY <2>2, <2>3, <2>4, <2>5, <2>7, <2>8, <1>8 DEF Ledger
<1>14. ASSUME \A j \in 1 .. n : ~SameContribution(T[j], c)
       PROVE  Ledger(run, T0, Append(T, c), i, "heard")
  <2>1. \A j \in 1 .. n0 : ~(T0[j].role \in HumanInput /\ T0[j].group = run.group)
    <3> SUFFICES ASSUME NEW j \in 1 .. n0, T0[j].role \in HumanInput, T0[j].group = run.group
                 PROVE  FALSE
      OBVIOUS
    <3>1. T0[j].actor = "human" /\ T0[j].content = "words" /\ T0[j].role = run.role
      BY <1>7 DEF Enters
    <3>2. SameTurn(T[j], T0[j]) /\ j \in 1 .. n
      BY <1>7, <1>10 DEF Lines, Prolongs
    <3>3. SameContribution(T[j], c)
      BY <3>1, <3>2, <1>5 DEF SameTurn, SameContribution
    <3> QED BY <3>2, <3>3, <1>14
  <2>2. Says(run, T0, Append(T, c), "heard")
    BY <2>1, <1>1, <1>4, <1>5, <1>6, <1>7, <1>10, <1>11, SaysNew
  <2>3. Situation(Append(T, c), run.group, run.kind = "retry", "heard")
    BY <1>5, <1>6, <1>11, SituationHuman
  <2>4. Concludes(run, T0, Append(T, c), i, "heard")
    BY <1>4, <1>5, <1>6, <1>7, <1>10, <1>11, <1>12, ConcludesAppend
  <2>5. Lines(run, T0, Append(T, c), l)
    <3>1. TurnOf(run, c, l)
      <4>1. c.refs[1][1] = run.id /\ c.refs[1][2] = m /\ m \in 1 .. l
        BY <1>1, <1>5, <1>9
      <4> QED BY <4>1, <1>1, <1>5 DEF TurnOf, Kind
    <3>2. c.refs[1][2] > k
      BY <1>5, <1>9
    <3> QED BY <3>1, <3>2, <1>6, <1>9, <1>10, LinesAppend
  <2>6. Append(T, c) \in Seq(TurnSet)
    BY <1>6
  <2> QED BY <2>2, <2>3, <2>4, <2>5, <2>6, <1>8 DEF Ledger
<1>15. \/ \E h \in 1 .. n : /\ SameContribution(T[h], c)
                            /\ Revised(T, Merge(T, c), h, T[h].refs \o c.refs, T[h].visible)
       \/ (\A j \in 1 .. n : ~SameContribution(T[j], c)) /\ Merge(T, c) = Append(T, c)
  <2>1. \A t : ~SameResponse(t, c)
    BY <1>5 DEF SameResponse
  <2> QED BY <2>1, <1>4, <1>5, <1>6, <1>7, MergeCases
<1> QED BY <1>5, <1>13, <1>14, <1>15


\* The answer, released and not yet seen.
LEMMA LedgerAnswer ==
    ASSUME NEW run \in RunSet, Explicit(run), NEW T0, Enters(run, T0), NEW T,
           NEW i \in 1 .. Len(run.frames), i # 1, NEW r \in {"response", "verified_response"},
           run.frames[i] = Said("ai", r, "answer", "released", i - 1),
           Ledger(run, T0, T, i - 1, "said")
    PROVE  Ledger(run, T0, Tell(run, T, i), i, "answered")
<1>1. PICK m \in Nat : m = i - 1 /\ m # 0 /\ i = m + 1
  BY RunFields
<1>2. PICK actor, content, visibility : actor = "ai" /\ content = "answer" /\ visibility = "released"
  OBVIOUS
<1>3. TellsTurn(run, T, i, actor, r, content, visibility, m)
  <2>1. run.frames[i] = Said(actor, r, content, visibility, m)
    BY <1>1, <1>2
  <2>2. m \in Nat /\ m = IF m = 0 THEN i ELSE m
    BY <1>1
  <2> QED BY <2>1, <2>2, Telling
<1>4. PICK c \in TurnSet :
        /\ Tell(run, T, i) = Merge(T, c) /\ c.actor = "ai" /\ c.role = r
        /\ c.content = "answer" /\ c.group = run.group /\ ~c.visible
        /\ Len(c.refs) = 1 /\ c.refs[1] = <<run.id, m>> /\ c.refs = <<<<run.id, m>>>>
  BY <1>2, <1>3 DEF TellsTurn
<1>5. T \in Seq(TurnSet) /\ T0 \in Seq(TurnSet)
  BY DEF Ledger, Enters
<1>6. PICK n \in Nat, n0 \in Nat : n = Len(T) /\ n0 = Len(T0)
  BY <1>5
<1>7. PICK k \in Int : k = m - 1 /\ k = UpTo("said", i - 1)
  BY <1>1 DEF UpTo
<1>8. Lines(run, T0, T, k) /\ n0 <= n
  BY <1>6, <1>7 DEF Ledger, Lines, Prolongs
<1>9. IsResponse(r) /\ r \notin HumanInput
  BY DEF IsResponse, HumanInput
<1>10. \A j \in 1 .. n : ~SameResponse(T[j], c)
  <2> SUFFICES ASSUME NEW j \in 1 .. n PROVE T[j].refs # c.refs
    BY DEF SameResponse
  <2>1. CASE j <= n0
    <3>1. j \in 1 .. n0
      BY <2>1
    <3>2. PICK u, v : u = T0[j].refs /\ v = T[j].refs
      OBVIOUS
    <3>3. RefsGrow(u, v)
      BY <3>1, <3>2, <1>6, <1>8 DEF Lines, Prolongs
    <3>4. Len(u) # 0 /\ \A x \in 1 .. Len(u) : u[x][1] < run.id
      BY <3>1, <3>2, <1>6 DEF Enters
    <3>5. Len(u) \in Nat
      <4>1. T0[j] \in TurnSet
        BY <3>1, <1>5, <1>6
      <4>2. u \in Seq(Nat \X Nat)
        BY <4>1, <3>2, TurnFields
      <4> QED BY <4>2
    <3>6. 1 \in 1 .. Len(u)
      BY <3>4, <3>5
    <3>7. v[1] = u[1] /\ u[1][1] < run.id
      BY <3>3, <3>4, <3>6 DEF RefsGrow
    <3>8. c.refs[1][1] = run.id /\ run.id \in Nat
      BY <1>4, RunFields
    <3> QED BY <3>2, <3>7, <3>8
  <2>2. CASE ~(j <= n0)
    <3>1. j \in n0 + 1 .. n
      BY <2>2
    <3>2. T[j].refs[1][2] \in 1 .. k
      BY <3>1, <1>6, <1>8 DEF Lines, TurnOf
    <3>3. c.refs[1][2] = m
      BY <1>4
    <3>4. T[j].refs[1][2] # c.refs[1][2]
      BY <3>2, <3>3, <1>1, <1>7
    <3> QED BY <3>4
  <2> QED BY <2>1, <2>2
<1>11. Tell(run, T, i) = Append(T, c)
  <2>1. c.actor # "human"
    BY <1>4
  <2> QED BY <2>1, <1>4, <1>5, <1>6, <1>10, MergeCases
<1>12. Lines(run, T0, Append(T, c), i)
  <2>1. TurnOf(run, c, i)
    <3>1. c.refs[1][1] = run.id /\ c.refs[1][2] \in 1 .. i
      BY <1>1, <1>4
    <3> QED BY <3>1, <1>4, <1>9 DEF TurnOf, Kind
  <2>2. k \in Int /\ i \in Int /\ k <= i /\ c.refs[1][2] > k
    BY <1>1, <1>4, <1>7
  <2> QED BY <2>1, <2>2, <1>5, <1>8, LinesAppend
<1>13. Says(run, T0, Append(T, c), "answered")
  <2>1. Says(run, T0, Append(T, c), "said")
    BY <1>4, <1>5, <1>6, <1>8, <1>9, SaysAppend DEF Ledger
  <2> QED BY <2>1 DEF Says
<1>14. Concludes(run, T0, Append(T, c), i, "answered")
  <2>1. IsAnswer(run, c, i)
    <3>1. i \in 2 .. i /\ m = i - 1
      BY <1>1
    <3>2. c.refs = <<<<run.id, i - 1>>>>
      BY <1>4, <3>1, Zenon
    <3> QED BY <3>1, <3>2, <1>4, Zenon DEF IsAnswer
  <2>2. "said" \notin Answered /\ "answered" \in Answered
    BY DEF Answered
  <2>3. Concludes(run, T0, T, i - 1, "said")
    BY DEF Ledger
  <2> QED BY <2>1, <2>2, <2>3, <1>4, <1>5, <1>6, <1>8, ConcludesAppend
<1>15. Situation(Append(T, c), run.group, run.kind = "retry", "answered")
  BY <1>4, <1>5, SituationMachine DEF Ledger
<1>16. Append(T, c) \in Seq(TurnSet) /\ UpTo("answered", i) = i
  BY <1>5 DEF UpTo
<1> QED BY <1>11, <1>12, <1>13, <1>14, <1>15, <1>16 DEF Ledger

\* Its delivery.
\* A receipt makes the answer, which is the last turn, visible.
LEMMA ReceiptShows ==
    ASSUME NEW run \in RunSet, Explicit(run), NEW T0, Enters(run, T0), NEW T,
           NEW i \in 1 .. Len(run.frames), Shows(run.frames, i, "closed", "shown"),
           ReleaseSo(run.frames, i - 1, "closed"),
           Ledger(run, T0, T, i - 1, "closed")
    PROVE  /\ Revised(T, Tell(run, T, i), Len(T), T[Len(T)].refs, TRUE)
           /\ Len(T) > Len(T0) /\ ~T[Len(T)].visible
<1>1. T \in Seq(TurnSet) /\ T0 \in Seq(TurnSet) /\ i \in Nat /\ i - 1 \in Int
  BY RunFields DEF Ledger, Enters
<1>2. PICK n \in Nat, n0 \in Nat : n = Len(T) /\ n0 = Len(T0)
  BY <1>1
<1>3. Concludes(run, T0, T, i - 1, "closed")
  BY DEF Ledger
<1>4. n > n0 /\ IsAnswer(run, T[n], i - 1)
  BY <1>2, <1>3 DEF Concludes
<1>5. PICK k \in 2 .. i - 1, r \in {"response", "verified_response"} :
        /\ run.frames[k] = Said("ai", r, "answer", "released", k - 1)
        /\ T[n].actor = "ai" /\ T[n].role = r /\ T[n].content = "answer" /\ T[n].group = run.group
        /\ T[n].refs = <<<<run.id, k - 1>>>>
  BY <1>4 DEF IsAnswer
<1>6. Releases(run.frames[k]) /\ k \in 1 .. i - 1
  BY <1>5 DEF Releases, Said
<1>7. run.frames[i] = Receipt(run.frames[k])
  <2>1. PICK l \in 1 .. i - 1 : Releases(run.frames[l]) /\ run.frames[i] = Receipt(run.frames[l])
    BY DEF Shows, Releases
  <2>2. l = k
    BY <2>1, <1>6 DEF ReleaseSo
  <2> QED BY <2>1, <2>2
<1>8. PICK m \in Nat : m = k - 1 /\ m # 0
  BY <1>1
<1>9. PICK actor, content, visibility : actor = "ai" /\ content = "answer" /\ visibility = "delivered"
  OBVIOUS
<1>10. run.frames[i] = Said(actor, r, content, visibility, m)
  <2>1. PICK f : f = run.frames[k]
    OBVIOUS
  <2>2. f = Said("ai", r, "answer", "released", m)
    BY <2>1, <1>5, <1>8
  <2>3. Receipt(f) = Said("ai", r, "answer", "delivered", m)
    BY <2>2 DEF Receipt, Said
  <2> QED BY <2>1, <2>3, <1>7, <1>9
<1>11. TellsTurn(run, T, i, actor, r, content, visibility, m)
  <2>1. m \in Nat /\ m = IF m = 0 THEN i ELSE m
    BY <1>8
  <2> QED BY <2>1, <1>10, Telling
<1>12. PICK c \in TurnSet :
        /\ Tell(run, T, i) = Merge(T, c) /\ c.actor = "ai" /\ c.role = r
        /\ c.content = "answer" /\ c.group = run.group /\ c.visible
        /\ Len(c.refs) = 1 /\ c.refs[1] = <<run.id, m>> /\ c.refs = <<<<run.id, m>>>>
  BY <1>9, <1>11 DEF TellsTurn
<1>13. IsResponse(r)
  BY DEF IsResponse
<1>14. SameResponse(T[n], c) /\ n \in 1 .. n
  <2>1. T[n].refs = c.refs
    BY <1>5, <1>8, <1>12
  <2>2. n # 0
    BY <1>4
  <2> QED BY <2>1, <2>2, <1>5, <1>12, <1>13 DEF SameResponse
<1>15. Lines(run, T0, T, i - 1) /\ n0 <= n
  <2>1. UpTo("closed", i - 1) = i - 1
    BY DEF UpTo
  <2> QED BY <2>1, <1>2 DEF Ledger, Lines, Prolongs
<1>16. \A j \in 1 .. n : SameResponse(T[j], c) => j = n
  <2> SUFFICES ASSUME NEW j \in 1 .. n, SameResponse(T[j], c) PROVE j = n
    OBVIOUS
  <2>1. T[j].refs = c.refs /\ T[j].role = r
    BY <1>12 DEF SameResponse
  <2>2. CASE j <= n0
    <3>1. j \in 1 .. n0
      BY <2>2
    <3>2. PICK u, v : u = T0[j].refs /\ v = T[j].refs
      OBVIOUS
    <3>3. RefsGrow(u, v)
      BY <3>1, <3>2, <1>2, <1>15 DEF Lines, Prolongs
    <3>4. Len(u) # 0 /\ \A x \in 1 .. Len(u) : u[x][1] < run.id
      BY <3>1, <3>2, <1>2 DEF Enters
    <3>5. Len(u) \in Nat
      <4>1. T0[j] \in TurnSet
        BY <3>1, <1>1, <1>2
      <4>2. u \in Seq(Nat \X Nat)
        BY <4>1, <3>2, TurnFields
      <4> QED BY <4>2
    <3>6. 1 \in 1 .. Len(u)
      BY <3>4, <3>5
    <3>7. v[1] = u[1] /\ u[1][1] < run.id
      BY <3>3, <3>4, <3>6 DEF RefsGrow
    <3>8. c.refs[1][1] = run.id /\ run.id \in Nat
      BY <1>12, RunFields
    <3> QED BY <2>1, <3>2, <3>7, <3>8
  <2>3. CASE ~(j <= n0) /\ j # n
    <3>1. j \in n0 + 1 .. n - 1
      BY <2>3
    <3>2. ~IsResponse(T[j].role)
      BY <3>1, <1>2, <1>3 DEF Concludes
    <3> QED BY <3>2, <2>1, <1>13
  <2> QED BY <2>2, <2>3
<1>17. PICK U : U = Tell(run, T, i)
  OBVIOUS
<1>18. Revised(T, U, n, T[n].refs, TRUE)
  <2>1. ASSUME NEW h \in 1 .. Len(T), SameResponse(T[h], c),
               Revised(T, Merge(T, c), h, T[h].refs, T[h].visible \/ c.visible)
        PROVE  Revised(T, U, n, T[n].refs, TRUE)
    <3>1. h = n
      BY <2>1, <1>2, <1>16
    <3>2. (T[h].visible \/ c.visible) = TRUE
      BY <1>12
    <3> QED BY <3>1, <3>2, <2>1, <1>12, <1>17
  <2>2. c.actor # "human"
    BY <1>12
  <2>3. ~\A j \in 1 .. Len(T) : ~SameResponse(T[j], c)
    BY <1>2, <1>14
  <2> QED BY <2>1, <2>2, <2>3, <1>1, MergeCases
<1>19. ~T[n].visible
  BY <1>2, <1>3 DEF Concludes
<1> QED BY <1>2, <1>4, <1>17, <1>18, <1>19

LEMMA LedgerShown ==
    ASSUME NEW run \in RunSet, Explicit(run), NEW T0, Enters(run, T0), NEW T,
           NEW i \in 1 .. Len(run.frames), Shows(run.frames, i, "closed", "shown"),
           ReleaseSo(run.frames, i - 1, "closed"),
           Ledger(run, T0, T, i - 1, "closed")
    PROVE  Ledger(run, T0, Tell(run, T, i), i, "shown")
<1>1. T \in Seq(TurnSet) /\ T0 \in Seq(TurnSet) /\ i \in Nat /\ i - 1 \in Int
  BY RunFields DEF Ledger, Enters
<1>2. PICK n \in Nat, n0 \in Nat : n = Len(T) /\ n0 = Len(T0)
  BY <1>1
<1>3. Concludes(run, T0, T, i - 1, "closed")
  BY DEF Ledger
<1>17. PICK U : U = Tell(run, T, i)
  OBVIOUS
<1>18. Revised(T, U, n, T[n].refs, TRUE) /\ n > n0
  BY <1>2, <1>17, ReceiptShows
<1>4. n > n0
  BY <1>18
<1>15. Lines(run, T0, T, i - 1) /\ n0 <= n
  <2>1. UpTo("closed", i - 1) = i - 1
    BY DEF UpTo
  <2> QED BY <2>1, <1>2 DEF Ledger, Lines, Prolongs
<1>19. Lines(run, T0, U, i)
  <2>1. PICK l, q, v : l = i - 1 /\ l \in Int /\ q = T[n].refs /\ v = TRUE
    BY <1>1
  <2>2. Revised(T, U, n, q, v) /\ Lines(run, T0, T, l)
    BY <2>1, <1>15, <1>18
  <2>3. n <= Len(T0) => v = T[n].visible /\ RefsGrow(T[n].refs, q)
    BY <1>2, <1>4
  <2>4. n > Len(T0) => v = TRUE /\ q = T[n].refs
    BY <2>1
  <2>5. l \in Int
    BY <2>1
  <2>6. Lines(run, T0, U, l)
    BY <2>2, <2>3, <2>4, <2>5, <1>1, LinesRevised
  <2> QED BY <2>1, <2>6, <1>1, LinesStill
<1>20. Says(run, T0, U, "shown")
  <2>1. Says(run, T0, T, "closed")
    BY DEF Ledger
  <2>2. Says(run, T0, U, "closed")
    BY <2>1, <1>1, <1>2, <1>15, <1>18, SaysSeen
  <2> QED BY <2>2 DEF Says
<1>21. Concludes(run, T0, U, i, "shown")
  <2>1. Revised(T, U, Len(T), T[Len(T)].refs, TRUE)
    BY <1>2, <1>18
  <2>2. i - 1 \in Int /\ i \in Int /\ i - 1 <= i /\ Len(T0) <= Len(T)
    BY <1>1, <1>2, <1>15
  <2> QED BY <2>1, <2>2, <1>1, <1>3, ConcludesSeen
<1>22. Situation(U, run.group, run.kind = "retry", "shown")
  BY <1>1, <1>2, <1>18, SituationSeen DEF Ledger
<1>23. U \in Seq(TurnSet) /\ UpTo("shown", i) = i
  BY <1>18 DEF Revised, UpTo
<1> QED BY <1>17, <1>19, <1>20, <1>21, <1>22, <1>23 DEF Ledger


\* One frame.
LEMMA LedgerStep ==
    ASSUME NEW run \in RunSet, Explicit(run), NEW T0, Enters(run, T0), NEW T,
           NEW i \in 1 .. Len(run.frames), NEW a, NEW b,
           Follows(run.frames, i, a, b, run.role, run.kind = "retry"),
           History(run.frames, i - 1, a, run.role), Ledger(run, T0, T, i - 1, a)
    PROVE  Ledger(run, T0, Tell(run, T, i), i, b)
<1>1. T0 \in Seq(TurnSet) /\ run.role \in HumanInput
  BY RunFields DEF Enters
<1>2. PICK f : f = run.frames[i]
  OBVIOUS
<1>3. CASE Quietly(f, a, b, run.kind = "retry")
  <2>1. f.is # "boundary"
    BY <1>3 DEF Quietly, Unit
  <2>2. a = b /\ a \notin {"told", "said"}
    BY <1>3 DEF Quietly
  <2> QED BY <2>1, <2>2, <1>2, LedgerStill
<1>4. CASE Asks(f, a, b) \/ Decides(f, a, b)
  BY <1>1, <1>2, <1>4, LedgerAsks
<1>5. CASE f = Unit(run.role, TRUE, "words") /\ a = "start" /\ b = "told"
  <2>1. f.is # "boundary"
    BY <1>5 DEF Unit
  <2> QED BY <2>1, <1>2, <1>5, LedgerStill
<1>6. CASE f = Said("human", run.role, "words", "visible", i - 1) /\ a = "told" /\ b = "heard"
  <2>1. HeardSo(run.frames, i - 1, "told", run.role)
    BY <1>6 DEF History
  <2> QED BY <2>1, <1>2, <1>6, LedgerWords
<1>7. CASE f = Unit("response", FALSE, "answer") /\ a = "heard" /\ b = "said"
  <2>1. f.is # "boundary"
    BY <1>7 DEF Unit
  <2> QED BY <2>1, <1>2, <1>7, LedgerStill
<1>8. CASE /\ \E r \in {"response", "verified_response"} : f = Said("ai", r, "answer", "released", i - 1)
           /\ a = "said" /\ b = "answered"
  <2>1. PICK r \in {"response", "verified_response"} : f = Said("ai", r, "answer", "released", i - 1)
    BY <1>8
  <2>2. i # 1
    <3>1. \E h \in 1 .. i - 1 : TRUE
      BY <1>8 DEF History, HeardSo
    <3> QED BY <3>1
  <2> QED BY <2>1, <2>2, <1>2, <1>8, LedgerAnswer
<1>9. CASE f = Finished("succeeded") /\ a = "answered" /\ b = "closed"
  <2>1. f.is # "boundary"
    BY <1>9 DEF Finished
  <2> QED BY <2>1, <1>2, <1>9, LedgerStill
<1>10. CASE f.is = "failure" /\ a = "heard" /\ b = "failed"
  BY <1>2, <1>10, LedgerStill
<1>11. CASE Shows(run.frames, i, a, b)
  <2>1. a = "closed" /\ b = "shown"
    BY <1>11 DEF Shows
  <2>2. ReleaseSo(run.frames, i - 1, "closed")
    BY <2>1 DEF History
  <2> QED BY <2>1, <2>2, <1>11, LedgerShown
<1>12. Listens(f, i, a, b, run.role) =>
         \/ f = Unit(run.role, TRUE, "words") /\ a = "start" /\ b = "told"
         \/ f = Said("human", run.role, "words", "visible", i - 1) /\ a = "told" /\ b = "heard"
  BY DEF Listens
<1>13. Answers(f, i, a, b) =>
         \/ f = Unit("response", FALSE, "answer") /\ a = "heard" /\ b = "said"
         \/ /\ \E r \in {"response", "verified_response"} : f = Said("ai", r, "answer", "released", i - 1)
            /\ a = "said" /\ b = "answered"
         \/ f = Finished("succeeded") /\ a = "answered" /\ b = "closed"
  BY DEF Answers
<1>14. f.is = "failure" /\ <<a, b>> = <<"heard", "failed">> => a = "heard" /\ b = "failed"
  OBVIOUS
<1>15. \/ Quietly(f, a, b, run.kind = "retry") \/ Asks(f, a, b) \/ Decides(f, a, b)
       \/ Listens(f, i, a, b, run.role) \/ Answers(f, i, a, b)
       \/ (f.is = "failure" /\ <<a, b>> = <<"heard", "failed">>)
       \/ Shows(run.frames, i, a, b)
  BY <1>2, Zenon DEF Follows
<1> QED BY <1>3, <1>4, <1>5, <1>6, <1>7, <1>8, <1>9, <1>10, <1>11, <1>12, <1>13, <1>14, <1>15

LEMMA LedgerStart ==
    ASSUME NEW run, NEW T0, Enters(run, T0), NEW i \in Nat
    PROVE  Ledger(run, T0, T0, i, "start")
<1>1. T0 \in Seq(TurnSet)
  BY DEF Enters
<1>2. PICK n \in Nat : n = Len(T0)
  BY <1>1
<1>3. Prolongs(T0, T0)
  <2>1. \A r : RefsGrow(r, r) <=> Len(r) <= Len(r)
    BY DEF RefsGrow
  <2>2. \A j \in 1 .. n : RefsGrow(T0[j].refs, T0[j].refs)
    <3> SUFFICES ASSUME NEW j \in 1 .. n PROVE RefsGrow(T0[j].refs, T0[j].refs)
      OBVIOUS
    <3>1. PICK r \in Seq(Nat \X Nat) : r = T0[j].refs
      BY <1>1, <1>2, TurnFields
    <3>2. Len(r) \in Nat
      BY <3>1
    <3> QED BY <2>1, <3>1, <3>2
  <2> QED BY <2>2, <1>2 DEF Prolongs, SameTurn
<1>4. \A j : j \notin n + 1 .. n
  BY <1>2
<1>5. Lines(run, T0, T0, i) /\ UpTo("start", i) = i
  BY <1>2, <1>3, <1>4 DEF Lines, UpTo
<1>6. Says(run, T0, T0, "start")
  BY <1>2, <1>4 DEF Says, SaysNothing
<1>7. Concludes(run, T0, T0, i, "start")
  BY <1>2, <1>4 DEF Concludes
<1>8. Situation(T0, run.group, run.kind = "retry", "start")
  BY DEF Situation, Enters
<1> QED BY <1>1, <1>5, <1>6, <1>7, <1>8 DEF Ledger

\* A run whose journal has boundary events.
LEMMA LedgerAlong ==
    ASSUME NEW run \in RunSet, Explicit(run), NEW T0, Enters(run, T0), NEW n \in Nat,
           n = Len(run.frames), NEW L, Labelled(run.frames, L, run.role, run.kind = "retry")
    PROVE  \A i \in 0 .. n : Ledger(run, T0, Told(run, T0, i), i, L[i + 1])
<1>1. T0 \in Seq(TurnSet) /\ run.role \in HumanInput
  BY RunFields DEF Enters
<1>2. /\ Told(run, T0, 0) = T0
      /\ \A i \in 1 .. n : Told(run, T0, i) = Tell(run, Told(run, T0, i - 1), i)
  BY <1>1, AddRunTyped
<1>3. \A i \in 0 .. n : History(run.frames, i, L[i + 1], run.role)
  BY <1>1, HistoryHolds
<1> DEFINE Bad == {i \in 0 .. n : ~Ledger(run, T0, Told(run, T0, i), i, L[i + 1])}
<1> SUFFICES ASSUME Bad # {} PROVE FALSE
  OBVIOUS
<1>4. PICK i \in Bad : \A j \in Bad : i <= j
  <2>1. Bad \in SUBSET Nat
    OBVIOUS
  <2> HIDE DEF Bad
  <2> QED BY <2>1, Least
<1>5. i # 0
  <2>1. Ledger(run, T0, T0, 0, "start")
    BY LedgerStart
  <2>2. L[0 + 1] = "start"
    BY DEF Labelled
  <2> QED BY <2>1, <2>2, <1>2, <1>4
<1>6. i \in 1 .. n /\ i - 1 \in 0 .. n /\ (i - 1) + 1 = i
  BY <1>4, <1>5
<1>7. Ledger(run, T0, Told(run, T0, i - 1), i - 1, L[i])
  <2>1. i - 1 \notin Bad
    BY <1>4, <1>6
  <2>2. Ledger(run, T0, Told(run, T0, i - 1), i - 1, L[(i - 1) + 1])
    BY <2>1, <1>6
  <2> QED BY <2>2, <1>6
<1>8. History(run.frames, i - 1, L[i], run.role)
  <2>1. History(run.frames, i - 1, L[(i - 1) + 1], run.role)
    BY <1>3, <1>6
  <2> QED BY <2>1, <1>6
<1>9. Follows(run.frames, i, L[i], L[i + 1], run.role, run.kind = "retry")
  BY <1>6 DEF Labelled
<1>10. Ledger(run, T0, Tell(run, Told(run, T0, i - 1), i), i, L[i + 1])
  BY <1>6, <1>7, <1>8, <1>9, LedgerStep
<1>11. Ledger(run, T0, Told(run, T0, i), i, L[i + 1])
  BY <1>2, <1>6, <1>10
<1> QED BY <1>4, <1>11

\* One whose journal has none adds nothing.
LEMMA SilentRun ==
    ASSUME NEW run \in RunSet, NEW b \in Final, NEW retry, Reaches(run.frames, b, run.role, retry),
           ~Explicit(run), NEW T \in Seq(TurnSet)
    PROVE  b = "start" /\ AddRun(T, run) = T
<1>1. PICK n \in Nat : n = Len(run.frames) /\ DOMAIN run.frames = 1 .. n
  BY RunFields
<1>2. History(run.frames, n, b, run.role)
  BY <1>1, RunFields, ReachesHistory
<1>3. \A m \in 1 .. n : ~Boundary(run.frames[m])
  BY <1>1 DEF Explicit, Boundary
<1>4. b = "start"
  BY <1>2, <1>3 DEF History, CrossingSo, Final
<1>5. \A m \in 1 .. n : /\ run.frames[m].is # "approval" /\ ~IsHumanUnit(run.frames[m])
                        /\ ~Succeeds(run.frames[m])
  BY <1>2, <1>3, <1>4 DEF History, CrossingSo, HeardSo, SuccessSo
<1>6. /\ Told(run, T, 0) = T
      /\ \A m \in 1 .. n : Told(run, T, m) = Tell(run, Told(run, T, m - 1), m)
  BY <1>1, AddRunTyped
<1>7. \A m \in 1 .. n : \A U : Tell(run, U, m) = U
  BY <1>5 DEF Tell
<1> DEFINE Bad == {m \in 0 .. n : Told(run, T, m) # T}
<1>8. Bad = {}
  <2> SUFFICES ASSUME Bad # {} PROVE FALSE
    OBVIOUS
  <2>1. PICK i \in Bad : \A j \in Bad : i <= j
    <3>1. Bad \in SUBSET Nat
      OBVIOUS
    <3> HIDE DEF Bad
    <3> QED BY <3>1, Least
  <2>2. i \in 1 .. n /\ i - 1 \in 0 .. n
    BY <2>1, <1>6
  <2>3. i - 1 \notin Bad
    BY <2>1, <2>2
  <2>4. Told(run, T, i - 1) = T
    BY <2>2, <2>3
  <2> QED BY <2>1, <2>2, <2>4, <1>6, <1>7
<1>9. Told(run, T, n) = T
  <2>1. n \in 0 .. n
    OBVIOUS
  <2> QED BY <2>1, <1>8
<1>10. LegacyResponse(run) = <<>>
  <2>1. ~Succeeded(run)
    BY <1>1, <1>5 DEF Succeeded, Succeeds
  <2> QED BY <2>1 DEF LegacyResponse
<1>11. AddRun(T, run) = T \o <<>>
  BY <1>1, <1>9, <1>10 DEF AddRun
<1> QED BY <1>4, <1>11, NothingMore

\* What any run of today adds to the transcript.
LEMMA LedgerHolds ==
    ASSUME NEW run \in RunSet, NEW T0, Enters(run, T0), NEW b \in Final,
           Reaches(run.frames, b, run.role, run.kind = "retry")
    PROVE  Ledger(run, T0, AddRun(T0, run), Len(run.frames), b)
<1>1. PICK n \in Nat : n = Len(run.frames)
  BY RunFields
<1>2. T0 \in Seq(TurnSet)
  BY DEF Enters
<1>3. CASE ~Explicit(run)
  <2>1. b = "start" /\ AddRun(T0, run) = T0
    BY <1>2, <1>3, SilentRun
  <2> QED BY <2>1, <1>1, LedgerStart
<1>4. CASE Explicit(run)
  <2>1. PICK L : Labelled(run.frames, L, run.role, run.kind = "retry") /\ L[n + 1] = b
    BY <1>1 DEF Reaches
  <2>2. Ledger(run, T0, Told(run, T0, n), n, L[n + 1])
    <3>1. n \in 0 .. n
      OBVIOUS
    <3> QED BY <3>1, <2>1, <1>1, <1>4, LedgerAlong
  <2>3. AddRun(T0, run) = Told(run, T0, n)
    <3>1. Told(run, T0, n) \in Seq(TurnSet)
      <4>1. n \in 0 .. n
        OBVIOUS
      <4> QED BY <4>1, <1>1, <1>2, AddRunTyped
    <3>2. AddRun(T0, run) = Told(run, T0, n) \o <<>>
      BY <1>1, <1>4 DEF AddRun
    <3> QED BY <3>1, <3>2, NothingMore
  <2> QED BY <2>1, <2>2, <2>3, <1>1
<1> QED BY <1>3, <1>4


-----------------------------------------------------------------------------
(* What a run, of today or of old, has added when it is over.              *)

DeliveredIn(run) == \E i \in DOMAIN run.frames : Delivers(run.frames[i])

HearsSo(run, T0, T) ==
    \/ SaysNothing(T0, T) /\ \A m \in 1 .. Len(run.frames) : ~IsHumanUnit(run.frames[m])
    \/ \E h \in 1 .. Len(T), m \in 1 .. Len(run.frames) :
          /\ SaysAt(run, T0, T, h, m)
          /\ \A l \in 1 .. Len(run.frames) : IsHumanUnit(run.frames[l]) => l = m

AnswersSo(run, T0, T) ==
    \A j \in Len(T0) + 1 .. Len(T) : IsResponse(T[j].role) =>
        /\ T[j].visible <=> (Succeeded(run) /\ DeliveredIn(run))
        /\ T[j].visible => Meets(T, j)

Responds(run, T0, T) ==
    Succeeded(run) <=> \E j \in Len(T0) + 1 .. Len(T) : IsResponse(T[j].role)

Adds(run, T0, T) ==
    /\ T \in Seq(TurnSet) /\ Lines(run, T0, T, Len(run.frames))
    /\ HearsSo(run, T0, T) /\ AnswersSo(run, T0, T) /\ Responds(run, T0, T)
    /\ Calm(T) /\ (Fails(run) => Waits(T, run.group))

LEMMA RunAdds ==
    ASSUME NEW run \in RunSet, NEW T0, Enters(run, T0), NEW b \in Final,
           Reaches(run.frames, b, run.role, run.kind = "retry")
    PROVE  Adds(run, T0, AddRun(T0, run))
<1>1. PICK n \in Nat : n = Len(run.frames) /\ DOMAIN run.frames = 1 .. n
  BY RunFields
<1>2. PICK T : T = AddRun(T0, run)
  OBVIOUS
<1>3. Ledger(run, T0, T, n, b)
  BY <1>1, <1>2, LedgerHolds
<1>4. History(run.frames, n, b, run.role)
  BY <1>1, RunFields, ReachesHistory
<1>5. T \in Seq(TurnSet) /\ T0 \in Seq(TurnSet)
  BY <1>3 DEF Ledger, Enters
<1>6. PICK t \in Nat, t0 \in Nat : t = Len(T) /\ t0 = Len(T0)
  BY <1>5
<1>7. Lines(run, T0, T, n)
  <2>1. UpTo(b, n) = n
    BY DEF UpTo, Final
  <2> QED BY <2>1, <1>3 DEF Ledger
<1>8. HearsSo(run, T0, T)
  <2>1. Says(run, T0, T, b)
    BY <1>3 DEF Ledger
  <2>2. CASE b = "start"
    <3>1. SaysNothing(T0, T)
      BY <2>1, <2>2 DEF Says
    <3>2. \A m \in 1 .. n : ~IsHumanUnit(run.frames[m])
      BY <2>2, <1>4 DEF History, HeardSo
    <3> QED BY <3>1, <3>2, <1>1 DEF HearsSo
  <2>3. CASE b # "start"
    <3>1. b \notin {"start", "asking", "told"}
      BY <2>3 DEF Final
    <3>2. PICK h \in 1 .. Len(T), m \in 1 .. Len(run.frames) : SaysAt(run, T0, T, h, m)
      BY <2>1, <3>1 DEF Says
    <3>3. IsHumanUnit(run.frames[m]) /\ m \in 1 .. n
      BY <3>2, <1>1 DEF SaysAt
    <3>4. PICK u \in 1 .. n : \A l \in 1 .. n : IsHumanUnit(run.frames[l]) => l = u
      BY <3>1, <1>4 DEF History, HeardSo
    <3>5. \A l \in 1 .. n : IsHumanUnit(run.frames[l]) => l = m
      BY <3>3, <3>4
    <3> QED BY <3>2, <3>5, <1>1 DEF HearsSo
  <2> QED BY <2>2, <2>3
<1>9. AnswersSo(run, T0, T)
  <2>1. Concludes(run, T0, T, n, b)
    BY <1>3 DEF Ledger
  <2>2. CASE b \in {"closed", "shown"}
    <3>1. /\ T[t].visible <=> b = "shown"
          /\ \A j \in t0 + 1 .. t - 1 : ~IsResponse(T[j].role)
      BY <2>1, <2>2, <1>6 DEF Concludes
    <3>2. Meets(T, t)
      BY <2>2, <1>3, <1>6 DEF Ledger, Situation
    <3>3. Succeeded(run)
      <4>1. PICK e \in 1 .. n : Succeeds(run.frames[e])
        BY <2>2, <1>4 DEF History, SuccessSo
      <4> QED BY <4>1, <1>1 DEF Succeeded, Succeeds
    <3>4. DeliveredIn(run) <=> b = "shown"
      <4>1. CASE b = "shown"
        <5>1. n # 0 /\ Delivers(run.frames[n])
          BY <4>1, <1>4 DEF History, DeliverySo
        <5>2. n \in 1 .. n
          BY <5>1
        <5> QED BY <4>1, <5>1, <5>2, <1>1 DEF DeliveredIn
      <4>2. CASE b # "shown"
        <5>1. \A m \in 1 .. n : ~Delivers(run.frames[m])
          BY <4>2, <1>4 DEF History, DeliverySo
        <5> QED BY <4>2, <5>1, <1>1 DEF DeliveredIn
      <4> QED BY <4>1, <4>2
    <3>5. ASSUME NEW j \in t0 + 1 .. t, IsResponse(T[j].role) PROVE j = t
      <4>1. j \notin t0 + 1 .. t - 1
        BY <3>1, <3>5
      <4> QED BY <4>1
    <3>6. ASSUME NEW j \in t0 + 1 .. t, IsResponse(T[j].role)
          PROVE  /\ T[j].visible <=> (Succeeded(run) /\ DeliveredIn(run))
                 /\ T[j].visible => Meets(T, j)
      <4>1. j = t
        BY <3>5, <3>6
      <4> QED BY <4>1, <3>1, <3>2, <3>3, <3>4
    <3> QED BY <3>6, <1>6 DEF AnswersSo
  <2>3. CASE b \notin {"closed", "shown"}
    <3>1. b \notin {"answered", "closed", "shown"}
      BY <2>3 DEF Final
    <3>2. \A j \in t0 + 1 .. t : ~IsResponse(T[j].role)
      BY <3>1, <2>1, <1>6 DEF Concludes
    <3> QED BY <3>2, <1>6 DEF AnswersSo
  <2> QED BY <2>2, <2>3
<1>10. Situation(T, run.group, run.kind = "retry", b)
  BY <1>3 DEF Ledger
<1>11. Calm(T)
  <2>1. Paired(T) => Calm(T)
    BY DEF Paired, Calm
  <2>2. Waits(T, run.group) => Calm(T)
    BY CalmWaits
  <2>3. CASE b = "start"
    BY <2>2, <2>3, <1>10 DEF Situation
  <2>4. CASE b \in {"heard", "failed"}
    BY <2>2, <2>4, <1>10 DEF Situation
  <2>5. CASE b \in {"dead", "closed", "shown"}
    BY <2>1, <2>5, <1>10 DEF Situation
  <2> QED BY <2>3, <2>4, <2>5 DEF Final
<1>12. Fails(run) => Waits(T, run.group)
  <2>1. Fails(run) => b = "failed"
    BY <1>1, <1>4 DEF Fails, History, FailureSo
  <2> QED BY <2>1, <1>10 DEF Situation
<1>13. Succeeded(run) <=> b \in {"closed", "shown"}
  <2>1. SuccessSo(run.frames, n, b)
    BY <1>4 DEF History
  <2>2. Succeeded(run) <=> \E e \in 1 .. n : Succeeds(run.frames[e])
    BY <1>1 DEF Succeeded, Succeeds
  <2> QED BY <2>1, <2>2 DEF SuccessSo
<1>14. Responds(run, T0, T)
  <2>1. Concludes(run, T0, T, n, b)
    BY <1>3 DEF Ledger
  <2>2. CASE b \in {"closed", "shown"}
    <3>1. t > t0 /\ IsAnswer(run, T[t], n)
      BY <2>1, <2>2, <1>6 DEF Concludes
    <3>2. IsResponse(T[t].role)
      BY <3>1 DEF IsAnswer, IsResponse
    <3>3. t \in t0 + 1 .. t
      BY <3>1
    <3> QED BY <2>2, <3>2, <3>3, <1>6, <1>13 DEF Responds
  <2>3. CASE b \notin {"closed", "shown"}
    <3>1. b \notin {"answered", "closed", "shown"}
      BY <2>3 DEF Final
    <3>2. \A j \in t0 + 1 .. t : ~IsResponse(T[j].role)
      BY <3>1, <2>1, <1>6 DEF Concludes
    <3> QED BY <2>3, <3>2, <1>6, <1>13 DEF Responds
  <2> QED BY <2>2, <2>3
<1> QED BY <1>1, <1>2, <1>5, <1>7, <1>8, <1>9, <1>11, <1>12, <1>14 DEF Adds

\* A run of old that says what the human said, and perhaps an answer of which
\* nobody knows whether it was seen.
LEMMA LegacyTells ==
    ASSUME NEW run \in RunSet, LegacyFrames(run.frames), NEW T0 \in Seq(TurnSet),
           \A j \in 1 .. Len(T0) : T0[j].group # run.group
    PROVE  \E c \in TurnSet, d \in TurnSet :
              /\ ~Succeeded(run) => AddRun(T0, run) = Append(T0, c)
              /\ Succeeded(run) => AddRun(T0, run) = Append(Append(T0, c), d)
              /\ c.actor = "human" /\ c.role = "prompt" /\ c.content = "words" /\ c.visible
              /\ d.actor = "ai" /\ d.role = "response" /\ ~d.visible
              /\ c.group = run.group /\ d.group = run.group
              /\ Len(c.refs) = 1 /\ c.refs[1] = <<run.id, 1>>
              /\ Len(d.refs) = 1 /\ d.refs[1] = <<run.id, 2>>
<1>1. PICK f, g, h, e : /\ f = Unit("prompt", TRUE, "words") /\ g = Unit("response", FALSE, "answer")
                        /\ h = Finished("succeeded") /\ e = Finished("failed")
  OBVIOUS
<1>2. PICK fs : fs = run.frames
  OBVIOUS
<1>3. fs = <<f, g, h>> \/ fs = <<f, e>>
  BY <1>1, <1>2 DEF LegacyFrames
<1>4. PICK n \in {2, 3} :
        /\ n = Len(fs) /\ DOMAIN fs = 1 .. n /\ fs[1] = f
        /\ n = 2 => fs[2] = e
        /\ n = 3 => fs[2] = g /\ fs[3] = h
  BY <1>3
<1>5. /\ IsHumanUnit(f) /\ f.content = "words" /\ f.role = "prompt" /\ f.is = "unit"
      /\ ~IsHumanUnit(g) /\ ~IsHumanUnit(h) /\ ~IsHumanUnit(e)
      /\ g.is = "unit" /\ g.role = "response" /\ g.content = "answer"
      /\ h.is = "finished" /\ h.status = "succeeded" /\ e.is = "finished" /\ e.status = "failed"
  BY <1>1 DEF IsHumanUnit, Unit, Finished, HumanInput
<1>6. run.id \in Nat /\ run.group \in Nat
  BY RunFields
<1>7. ~Explicit(run)
  BY <1>2, LegacySilent DEF Explicit
<1>8. PICK ref \in Nat, v \in BOOLEAN : ref = 1 /\ v = TRUE
  OBVIOUS
<1>9. PICK c \in TurnSet :
        /\ c = Turn(run, "human", "prompt", "words", ref, v)
        /\ c.actor = "human" /\ c.group = run.group /\ c.role = "prompt"
        /\ c.content = "words" /\ c.visible = v
        /\ Len(c.refs) = 1 /\ c.refs[1] = <<run.id, ref>>
  <2>1. PICK x \in Actors, y \in TurnRoles, z \in Contents : x = "human" /\ y = "prompt" /\ z = "words"
    BY DEF Actors, TurnRoles, HumanInput, Contents
  <2>2. PICK c \in TurnSet :
          /\ c = Turn(run, x, y, z, ref, v)
          /\ c.actor = x /\ c.group = run.group /\ c.role = y /\ c.content = z /\ c.visible = v
          /\ Len(c.refs) = 1 /\ c.refs[1] = <<run.id, ref>>
    BY <1>6, TurnMade
  <2> QED BY <2>1, <2>2
<1>10. PICK ref2 \in Nat, w \in BOOLEAN : ref2 = 2 /\ w = FALSE
  OBVIOUS
<1>11. PICK d \in TurnSet :
        /\ d = Turn(run, "ai", "response", "answer", ref2, w)
        /\ d.actor = "ai" /\ d.group = run.group /\ d.role = "response"
        /\ d.content = "answer" /\ d.visible = w
        /\ Len(d.refs) = 1 /\ d.refs[1] = <<run.id, ref2>>
  <2>1. PICK x \in Actors, y \in TurnRoles, z \in Contents : x = "ai" /\ y = "response" /\ z = "answer"
    BY DEF Actors, TurnRoles, HumanInput, Contents
  <2>2. PICK d \in TurnSet :
          /\ d = Turn(run, x, y, z, ref2, w)
          /\ d.actor = x /\ d.group = run.group /\ d.role = y /\ d.content = z /\ d.visible = w
          /\ Len(d.refs) = 1 /\ d.refs[1] = <<run.id, ref2>>
    BY <1>6, TurnMade
  <2> QED BY <2>1, <2>2
<1>12. Tell(run, T0, 1) = Append(T0, c)
  <2>1. SpokenTurn(run, 1) = c
    BY <1>2, <1>4, <1>5, <1>8, <1>9 DEF SpokenTurn
  <2>2. Tell(run, T0, 1) = MergeLegacy(T0, c)
    BY <2>1, <1>2, <1>4, <1>5, <1>7 DEF Tell
  <2>3. \A j \in 1 .. Len(T0) : ~SameContribution(T0[j], c)
    BY <1>9 DEF SameContribution
  <2>4. c \in TurnSet
    BY <1>9
  <2>5. (\E j \in 1 .. Len(T0) : SameContribution(T0[j], c)) \/ MergeLegacy(T0, c) = Append(T0, c)
    BY <2>4, MergeLegacyCases, Zenon
  <2> QED BY <2>2, <2>3, <2>5
<1>13. PICK U \in Seq(TurnSet) : U = Append(T0, c)
  <2>1. Append(T0, c) \in Seq(TurnSet)
    OBVIOUS
  <2> QED BY <2>1
<1>14. Told(run, T0, n) = U
  <2>1. /\ Told(run, T0, 0) = T0
        /\ \A m \in 1 .. n : Told(run, T0, m) = Tell(run, Told(run, T0, m - 1), m)
    BY <1>2, <1>4, AddRunTyped
  <2>2. Told(run, T0, 1) = U
    <3>1. 1 \in 1 .. n /\ 1 - 1 = 0
      BY <1>4
    <3> QED BY <3>1, <2>1, <1>12, <1>13
  <2>3. \A m \in 2 .. n : Tell(run, U, m) = U
    <3>1. \A m \in 2 .. n : fs[m] \in {g, h, e}
      BY <1>4
    <3>2. \A x \in {g, h, e} : ~(IsHumanUnit(x) \/ x.is = "approval")
      BY <1>5
    <3> QED BY <3>1, <3>2, <1>2, <1>7, Zenon DEF Tell
  <2>4. Told(run, T0, 2) = U
    <3>1. 2 \in 1 .. n /\ 2 \in 2 .. n /\ 2 - 1 = 1
      BY <1>4
    <3> QED BY <3>1, <2>1, <2>2, <2>3
  <2>5. n = 3 => Told(run, T0, 3) = U
    <3>1. n = 3 => 3 \in 1 .. n /\ 3 \in 2 .. n
      OBVIOUS
    <3>2. 3 - 1 = 2
      OBVIOUS
    <3> QED BY <3>1, <3>2, <2>1, <2>3, <2>4
  <2> QED BY <2>4, <2>5
<1>15. CASE n = 2
  <2>1. ~Succeeded(run)
    BY <1>2, <1>4, <1>5, <1>15 DEF Succeeded
  <2>2. LegacyResponse(run) = <<>>
    BY <2>1 DEF LegacyResponse
  <2>3. AddRun(T0, run) = U \o <<>>
    BY <2>2, <1>2, <1>4, <1>7, <1>14 DEF AddRun
  <2>4. AddRun(T0, run) = Append(T0, c)
    BY <2>3, <1>13, NothingMore
  <2> QED BY <2>1, <2>4, <1>8, <1>9, <1>10, <1>11
<1>16. CASE n = 3
  <2>1. Succeeded(run)
    <3>1. 3 \in 1 .. n
      BY <1>16
    <3> QED BY <3>1, <1>2, <1>4, <1>5, <1>16 DEF Succeeded
  <2>2. LegacyResponse(run) = <<d>>
    <3> DEFINE at == {i \in DOMAIN run.frames :
                         run.frames[i].is = "unit" /\ run.frames[i].role = "response"}
    <3>1. at = {2}
      <4>1. \A i \in 1 .. n : i \in at <=> i = 2
        BY <1>2, <1>4, <1>5, <1>16
      <4>2. 2 \in 1 .. n /\ DOMAIN run.frames = 1 .. n
        BY <1>2, <1>4, <1>16
      <4> QED BY <4>1, <4>2
    <3>2. Max(at) = 2 /\ at # {}
      <4>1. 2 \in at /\ \A i \in at : i <= 2
        BY <3>1
      <4>2. \A m \in at : m = 2
        BY <3>1
      <4> HIDE DEF at
      <4>3. Max(at) \in at
        BY <4>1 DEF Max
      <4> QED BY <4>1, <4>2, <4>3
    <3>3. LegacyResponse(run)
            = <<Turn(run, "ai", "response", run.frames[Max(at)].content, Max(at), FALSE)>>
      BY <2>1, <3>2 DEF LegacyResponse
    <3> HIDE DEF at
    <3>4. run.frames[2].content = "answer"
      BY <1>2, <1>4, <1>5, <1>16
    <3> QED BY <3>2, <3>3, <3>4, <1>10, <1>11
  <2>3. AddRun(T0, run) = U \o <<d>>
    BY <2>2, <1>2, <1>4, <1>7, <1>14 DEF AddRun
  <2>4. AddRun(T0, run) = Append(Append(T0, c), d)
    <3>1. U \o <<d>> = Append(U, d)
      BY <1>13, OneMore
    <3> QED BY <3>1, <2>3, <1>13
  <2> QED BY <2>1, <2>4, <1>8, <1>9, <1>10, <1>11
<1> QED BY <1>15, <1>16


LEMMA LegacyAdds ==
    ASSUME NEW run \in RunSet, run.kind = "legacy", run.role = "prompt", LegacyFrames(run.frames),
           NEW T0, Enters(run, T0)
    PROVE  Adds(run, T0, AddRun(T0, run))
<1>1. /\ T0 \in Seq(TurnSet) /\ Calm(T0)
      /\ \A j \in 1 .. Len(T0) : T0[j].group # run.group
  BY DEF Enters
<1>2. PICK n \in Nat, n0 \in Nat :
        n = Len(run.frames) /\ DOMAIN run.frames = 1 .. n /\ n0 = Len(T0)
  BY <1>1, RunFields
<1>3. n >= 2 /\ IsHumanUnit(run.frames[1]) /\ \A m \in 2 .. n : ~IsHumanUnit(run.frames[m])
  <2>1. PICK f, g, h, e : /\ f = Unit("prompt", TRUE, "words") /\ g = Unit("response", FALSE, "answer")
                          /\ h = Finished("succeeded") /\ e = Finished("failed")
    OBVIOUS
  <2>2. PICK fs : fs = run.frames
    OBVIOUS
  <2>3. fs = <<f, g, h>> \/ fs = <<f, e>>
    BY <2>1, <2>2 DEF LegacyFrames
  <2>4. PICK l \in {2, 3} : /\ l = Len(fs) /\ fs[1] = f
                            /\ l = 2 => fs[2] = e
                            /\ l = 3 => fs[2] = g /\ fs[3] = h
    BY <2>3
  <2>5. IsHumanUnit(f) /\ ~IsHumanUnit(g) /\ ~IsHumanUnit(h) /\ ~IsHumanUnit(e)
    <3>1. /\ f.is = "unit" /\ f.human = TRUE /\ f.role = "prompt"
          /\ g.human = FALSE /\ h.is = "finished" /\ e.is = "finished"
      BY <2>1 DEF Unit, Finished
    <3>2. IsHumanUnit(f) /\ ~IsHumanUnit(h) /\ ~IsHumanUnit(e)
      BY <3>1 DEF IsHumanUnit, HumanInput
    <3>3. ~IsHumanUnit(g)
      BY <3>1 DEF IsHumanUnit
    <3> QED BY <3>2, <3>3
  <2>6. n = l
    BY <2>2, <2>4, <1>2, Zenon
  <2>7. \A m \in 2 .. n : m = 2 \/ (m = 3 /\ n = 3)
    <3>1. n = 2 \/ n = 3
      BY <2>4, <2>6, Zenon
    <3> QED BY <3>1
  <2>8. (fs[2] = g \/ fs[2] = e) /\ (n = 3 => fs[3] = h)
    BY <2>4, <2>6, Zenon
  <2>9. \A m \in 2 .. n : ~IsHumanUnit(fs[m])
    BY <2>5, <2>7, <2>8, Zenon
  <2>10. n >= 2
    BY <2>4, <2>6
  <2> QED BY <2>2, <2>4, <2>5, <2>9, <2>10, Zenon
<1>4. \A l, m \in 1 .. n : IsHumanUnit(run.frames[l]) /\ IsHumanUnit(run.frames[m]) => l = m
  <2>1. \A l \in 1 .. n : l = 1 \/ l \in 2 .. n
    OBVIOUS
  <2> QED BY <2>1, <1>3
<1>5. /\ ~DeliveredIn(run) /\ ~Fails(run)
  BY LegacySilent DEF DeliveredIn, Delivers, Fails
<1>6. PICK c \in TurnSet, d \in TurnSet :
              /\ ~Succeeded(run) => AddRun(T0, run) = Append(T0, c)
              /\ Succeeded(run) => AddRun(T0, run) = Append(Append(T0, c), d)
              /\ c.actor = "human" /\ c.role = "prompt" /\ c.content = "words" /\ c.visible
              /\ d.actor = "ai" /\ d.role = "response" /\ ~d.visible
              /\ c.group = run.group /\ d.group = run.group
              /\ Len(c.refs) = 1 /\ c.refs[1] = <<run.id, 1>>
              /\ Len(d.refs) = 1 /\ d.refs[1] = <<run.id, 2>>
  BY <1>1, LegacyTells
<1>7. PICK U \in Seq(TurnSet) : U = Append(T0, c)
  <2>1. Append(T0, c) \in Seq(TurnSet)
    BY <1>1, <1>6
  <2> QED BY <2>1
<1>8. PICK V \in Seq(TurnSet) : V = Append(U, d)
  <2>1. Append(U, d) \in Seq(TurnSet)
    BY <1>6, <1>7
  <2> QED BY <2>1
<1>9. /\ Len(U) = n0 + 1 /\ U[n0 + 1] = c
      /\ Len(V) = n0 + 2 /\ V[n0 + 2] = d /\ V[n0 + 1] = c
  <2>1. Len(U) = n0 + 1 /\ U[n0 + 1] = c
    BY <1>1, <1>2, <1>6, <1>7, Grown
  <2>2. Len(V) = Len(U) + 1 /\ V[Len(U) + 1] = d /\ \A i \in 1 .. Len(U) : V[i] = U[i]
    BY <1>6, <1>7, <1>8, Grown
  <2>3. n0 + 1 \in 1 .. n0 + 1 /\ (n0 + 1) + 1 = n0 + 2
    OBVIOUS
  <2> QED BY <2>1, <2>2, <2>3
<1>10. c.role \in HumanInput /\ ~IsResponse(c.role) /\ IsResponse(d.role) /\ d.role \notin HumanInput
  BY <1>6 DEF HumanInput, IsResponse
<1>11. Lines(run, T0, T0, 0) /\ Says(run, T0, T0, "told")
  <2>1. Ledger(run, T0, T0, 0, "start")
    BY LedgerStart
  <2>2. UpTo("start", 0) = 0
    BY DEF UpTo
  <2> QED BY <2>1, <2>2 DEF Ledger, Says
<1>12. Lines(run, T0, U, 1)
  <2>1. TurnOf(run, c, 1)
    <3>1. c.refs[1][1] = run.id /\ c.refs[1][2] = 1 /\ 1 \in 1 .. 1
      BY <1>6
    <3> QED BY <3>1, <1>3, <1>6, <1>10 DEF TurnOf, Kind
  <2>2. PICK x, y : x = 0 /\ y = 1 /\ x \in Int /\ y \in Int /\ x <= y /\ c.refs[1][2] > x
    BY <1>6
  <2>3. Lines(run, T0, Append(T0, c), y)
    BY <2>1, <2>2, <1>1, <1>6, <1>11, LinesAppend
  <2> QED BY <2>2, <2>3, <1>7
<1>13. Says(run, T0, U, "heard")
  <2>1. PICK m \in 1 .. Len(run.frames) : m = 1
    BY <1>2, <1>3
  <2>2. Says(run, T0, Append(T0, c), "heard")
    <3>1. \A j \in 1 .. Len(T0) : ~(T0[j].role \in HumanInput /\ T0[j].group = run.group)
      BY <1>1
    <3>2. Len(T0) <= Len(T0) /\ IsHumanUnit(run.frames[m]) /\ c.refs[1] = <<run.id, m>>
      BY <2>1, <1>2, <1>3, <1>6
    <3> QED BY <3>1, <3>2, <1>1, <1>6, <1>10, <1>11, SaysNew
  <2> QED BY <2>2, <1>7
<1>14. HearsSo(run, T0, U)
  <2>1. PICK h \in 1 .. Len(U), m \in 1 .. Len(run.frames) : SaysAt(run, T0, U, h, m)
    BY <1>13 DEF Says
  <2>2. IsHumanUnit(run.frames[m]) /\ m \in 1 .. n
    BY <2>1, <1>2 DEF SaysAt
  <2>3. \A l \in 1 .. n : IsHumanUnit(run.frames[l]) => l = m
    BY <2>2, <1>4
  <2> QED BY <2>1, <2>3, <1>2 DEF HearsSo
<1>15. HearsSo(run, T0, V)
  <2>1. Says(run, T0, V, "heard")
    <3>1. Len(T0) <= Len(U)
      BY <1>2, <1>9
    <3> QED BY <3>1, <1>1, <1>6, <1>8, <1>10, <1>13, SaysAppend
  <2>2. PICK h \in 1 .. Len(V), m \in 1 .. Len(run.frames) : SaysAt(run, T0, V, h, m)
    BY <2>1 DEF Says
  <2>3. IsHumanUnit(run.frames[m]) /\ m \in 1 .. n
    BY <2>2, <1>2 DEF SaysAt
  <2>4. \A l \in 1 .. n : IsHumanUnit(run.frames[l]) => l = m
    BY <2>3, <1>4
  <2> QED BY <2>2, <2>4, <1>2 DEF HearsSo
<1>16. Calm(U) /\ Calm(V)
  <2>1. Calm(U)
    BY <1>1, <1>6, <1>7, HumanSpeaks
  <2>2. Paired(V)
    BY <1>6, <1>8, MachineSpeaks
  <2> QED BY <2>1, <2>2 DEF Paired, Calm
<1>17. CASE ~Succeeded(run)
  <2>0. AddRun(T0, run) = U
    BY <1>6, <1>7, <1>17
  <2>1. Lines(run, T0, U, n)
    <3>1. PICK x, y : x = 1 /\ y = n /\ x \in Int /\ y \in Int /\ x <= y
      BY <1>3
    <3> QED BY <3>1, <1>12, LinesStill
  <2>2. AnswersSo(run, T0, U)
    <3>1. \A j \in n0 + 1 .. n0 + 1 : j = n0 + 1
      OBVIOUS
    <3>2. \A j \in n0 + 1 .. n0 + 1 : ~IsResponse(U[j].role)
      BY <3>1, <1>9, <1>10
    <3> QED BY <3>2, <1>2, <1>9 DEF AnswersSo
  <2>3. Responds(run, T0, U)
    <3>1. \A j \in n0 + 1 .. n0 + 1 : j = n0 + 1
      OBVIOUS
    <3>2. \A j \in n0 + 1 .. n0 + 1 : ~IsResponse(U[j].role)
      BY <3>1, <1>9, <1>10
    <3> QED BY <3>2, <1>2, <1>9, <1>17 DEF Responds
  <2> QED BY <2>0, <2>1, <2>2, <2>3, <1>2, <1>5, <1>7, <1>14, <1>16 DEF Adds
<1>18. CASE Succeeded(run)
  <2>1. AddRun(T0, run) = V
    BY <1>6, <1>7, <1>8, <1>18
  <2>2. Lines(run, T0, V, n)
    <3>1. TurnOf(run, d, n)
      <4>1. d.refs[1][1] = run.id /\ d.refs[1][2] = 2 /\ 2 \in 1 .. n
        BY <1>2, <1>3, <1>6
      <4> QED BY <4>1, <1>6, <1>10 DEF TurnOf, Kind
    <3>2. PICK x, y : x = 1 /\ y = n /\ x \in Int /\ y \in Int /\ x <= y /\ d.refs[1][2] > x
      BY <1>3, <1>6
    <3> QED BY <3>1, <3>2, <1>1, <1>6, <1>8, <1>12, LinesAppend
  <2>3. AnswersSo(run, T0, V)
    <3>1. \A j \in n0 + 1 .. n0 + 2 : j = n0 + 1 \/ j = n0 + 2
      OBVIOUS
    <3>2. \A j \in n0 + 1 .. n0 + 2 : IsResponse(V[j].role) => ~V[j].visible
      BY <3>1, <1>6, <1>9, <1>10
    <3> QED BY <3>2, <1>2, <1>5, <1>9 DEF AnswersSo
  <2>4. Responds(run, T0, V)
    <3>1. n0 + 2 \in n0 + 1 .. n0 + 2
      OBVIOUS
    <3> QED BY <3>1, <1>2, <1>9, <1>10, <1>18 DEF Responds
  <2> QED BY <2>1, <2>2, <2>3, <2>4, <1>2, <1>5, <1>8, <1>15, <1>16 DEF Adds
<1> QED BY <1>17, <1>18

\* Every run.
LEMMA EveryRunAdds ==
    ASSUME NEW run \in RunSet, FramesOK(run), NEW T0, Enters(run, T0)
    PROVE  Adds(run, T0, AddRun(T0, run))
<1>1. CASE run.kind = "legacy"
  BY <1>1, LegacyAdds DEF FramesOK
<1>2. CASE run.kind # "legacy"
  BY <1>2, RunAdds DEF FramesOK
<1> QED BY <1>1, <1>2

-----------------------------------------------------------------------------
(* What is so of the transcript of the first k runs.                       *)

\* Each reference of a turn is to a frame of a run of its group: where the
\* turn is a prompt or a correction to one in which the human was heard, and
\* where it is the human's at all to something the human said or decided.
RefersTo(R, k, t, ref) ==
    \E r \in 1 .. k :
        /\ ref[1] = R[r].id /\ ref[2] \in 1 .. Len(R[r].frames) /\ R[r].group = t.group
        /\ t.role \in HumanInput => IsHumanUnit(R[r].frames[ref[2]])
        /\ t.actor = "human" => ByHuman(R[r].frames[ref[2]])

Refers(R, k, T) ==
    \A j \in 1 .. Len(T) :
        /\ Len(T[j].refs) # 0
        /\ \A x \in 1 .. Len(T[j].refs) : RefersTo(R, k, T[j], T[j].refs[x])

FirstRefsDiffer(T) ==
    \A i, j \in 1 .. Len(T) : T[i].refs[1] = T[j].refs[1] => i = j

OneInput(T) ==
    \A i, j \in 1 .. Len(T) :
        /\ T[i].role \in HumanInput /\ T[j].role \in HumanInput
        /\ T[i].group = T[j].group
        => i = j

InputsSo(R, k, T) ==
    \A j \in 1 .. Len(T) : T[j].role \in HumanInput =>
        /\ T[j].actor = "human" /\ T[j].content = "words"
        /\ k > 0 /\ T[j].group = R[k].group => T[j].role = R[k].role

\* What was heard in frame m of a run is in the transcript.
InTranscript(run, T, m) ==
    \E j \in 1 .. Len(T) : \E x \in 1 .. Len(T[j].refs) :
        /\ T[j].role \in HumanInput /\ T[j].group = run.group
        /\ T[j].refs[x][1] = run.id /\ T[j].refs[x][2] = m

NothingUnheard(R, k, T) ==
    \A r \in 1 .. k : \A m \in 1 .. Len(R[r].frames) :
        IsHumanUnit(R[r].frames[m]) => InTranscript(R[r], T, m)

\* An answer belongs to a run and is seen when that run shows it.
AnswerStands(R, k, T, j) ==
    \E r \in 1 .. k :
        /\ T[j].refs[1][1] = R[r].id
        /\ T[j].visible <=> (Succeeded(R[r]) /\ DeliveredIn(R[r]))
        /\ T[j].visible => Meets(T, j)

AnswersStand(R, k, T) ==
    \A j \in 1 .. Len(T) : IsResponse(T[j].role) => AnswerStands(R, k, T, j)

Standing(R, k, T) ==
    /\ T \in Seq(TurnSet) /\ Calm(T) /\ (k > 0 /\ Fails(R[k]) => Waits(T, R[k].group))
    /\ Refers(R, k, T) /\ FirstRefsDiffer(T) /\ OneInput(T) /\ InputsSo(R, k, T)
    /\ NothingUnheard(R, k, T) /\ AnswersStand(R, k, T)

\* A group is as old as its first run.
LEMMA GroupsBelow ==
    ASSUME NEW R, RunsOK(R)
    PROVE  \A k \in 1 .. Len(R) : R[k].group <= R[k].id
<1>1. PICK n \in Nat : n = Len(R) /\ R \in Seq(RunSet)
  BY DEF RunsOK
<1>2. \A k \in 1 .. n : R[k].group \in Nat /\ R[k].id \in Nat
  BY <1>1, RunFields
<1> DEFINE Bad == {k \in 1 .. n : ~(R[k].group <= R[k].id)}
<1> SUFFICES ASSUME Bad # {} PROVE FALSE
  BY <1>1
<1>3. PICK k \in Bad : \A j \in Bad : k <= j
  <2>1. Bad \in SUBSET Nat
    OBVIOUS
  <2> HIDE DEF Bad
  <2> QED BY <2>1, Least
<1>4. k \in 1 .. n /\ RunOK(R, k) /\ LinkOK(R, k)
  BY <1>1, <1>3 DEF RunsOK, RunOK
<1>5. R[k].group # R[k].id
  BY <1>2, <1>3
<1>6. k > 1 /\ R[k].group = R[k - 1].group
  BY <1>4, <1>5 DEF LinkOK
<1>7. k - 1 \in 1 .. n /\ k - 1 \in 1 .. k - 1 /\ k - 1 \notin Bad
  BY <1>3, <1>4, <1>6
<1>8. R[k - 1].group <= R[k - 1].id /\ R[k - 1].id < R[k].id
  BY <1>4, <1>7 DEF RunOK
<1> QED BY <1>2, <1>3, <1>4, <1>6, <1>7, <1>8

LEMMA EntersNext ==
    ASSUME NEW R, RunsOK(R), NEW k \in Nat, k + 1 \in 1 .. Len(R), NEW T0, Standing(R, k, T0)
    PROVE  Enters(R[k + 1], T0)
<1>1. PICK n \in Nat : n = Len(R) /\ R \in Seq(RunSet)
  BY DEF RunsOK
<1>2. PICK run \in RunSet : run = R[k + 1]
  BY <1>1
<1>3. RunOK(R, k + 1) /\ LinkOK(R, k + 1)
  BY DEF RunsOK, RunOK
<1>4. (k + 1) - 1 = k /\ \A r \in 1 .. k : r \in 1 .. n
  BY <1>1
<1>5. \A r \in 1 .. k : R[r].id < run.id
  BY <1>2, <1>3, <1>4 DEF RunOK
<1>6. \A r \in 1 .. k : R[r].group \in Nat /\ R[r].id \in Nat /\ R[r].group <= R[r].id
  BY <1>1, <1>4, GroupsBelow, RunFields
<1>7. run.id \in Nat /\ run.group \in Nat
  BY RunFields
<1>8. IF run.kind = "retry"
      THEN k > 0 /\ Fails(R[k]) /\ run.group = R[k].group /\ run.role = R[k].role
      ELSE run.group = run.id
  BY <1>2, <1>3, <1>4 DEF LinkOK
<1>9. Refers(R, k, T0) /\ InputsSo(R, k, T0) /\ T0 \in Seq(TurnSet) /\ Calm(T0)
  BY DEF Standing
<1>10. \A j \in 1 .. Len(T0) :
          /\ Len(T0[j].refs) # 0
          /\ \A m \in 1 .. Len(T0[j].refs) : T0[j].refs[m][1] < run.id
  BY <1>5, <1>9 DEF Refers, RefersTo
<1>11. ASSUME NEW j \in 1 .. Len(T0), T0[j].group = run.group PROVE run.kind = "retry"
  <2>1. Len(T0[j].refs) # 0 /\ Len(T0[j].refs) \in Nat
    <3>1. T0[j] \in TurnSet
      BY <1>9
    <3> QED BY <3>1, <1>9, TurnFields DEF Refers
  <2>2. 1 \in 1 .. Len(T0[j].refs)
    BY <2>1
  <2>3. PICK r \in 1 .. k : R[r].group = T0[j].group
    BY <2>2, <1>9 DEF Refers, RefersTo
  <2>4. run.group < run.id
    <3>1. R[r].group \in Nat /\ R[r].id \in Nat /\ R[r].group <= R[r].id /\ R[r].id < run.id
      BY <1>5, <1>6
    <3> QED BY <2>3, <3>1, <1>7, <1>11
  <2> QED BY <2>4, <1>7, <1>8
<1>12. \A j \in 1 .. Len(T0) : T0[j].group = run.group /\ T0[j].role \in HumanInput =>
          T0[j].actor = "human" /\ T0[j].content = "words" /\ T0[j].role = run.role
  BY <1>8, <1>9, <1>11 DEF InputsSo
<1>13. IF run.kind = "retry" THEN Waits(T0, run.group) ELSE Calm(T0)
  BY <1>8, <1>9 DEF Standing
<1> QED BY <1>2, <1>9, <1>10, <1>11, <1>12, <1>13 DEF Enters

\* A reference of the longer transcript was there, or is to the new run.
IsOld(T0, j, x, ref) ==
    j \in 1 .. Len(T0) /\ x \in 1 .. Len(T0[j].refs) /\ ref = T0[j].refs[x]

IsNew(run, t, ref) ==
    /\ ref[1] = run.id /\ ref[2] \in 1 .. Len(run.frames) /\ t.group = run.group
    /\ t.role \in HumanInput => IsHumanUnit(run.frames[ref[2]])
    /\ t.actor = "human" => ByHuman(run.frames[ref[2]])

LEMMA RefsAfter ==
    ASSUME NEW run \in RunSet, NEW T0 \in Seq(TurnSet), NEW T, Adds(run, T0, T)
    PROVE  \A j \in 1 .. Len(T) : \A x \in 1 .. Len(T[j].refs) :
              IsOld(T0, j, x, T[j].refs[x]) \/ IsNew(run, T[j], T[j].refs[x])
<1>1. PICK n \in Nat, n0 \in Nat, N \in Nat : n = Len(T) /\ n0 = Len(T0) /\ N = Len(run.frames)
  BY RunFields DEF Adds
<1>2. Lines(run, T0, T, N) /\ Prolongs(T0, T) /\ HearsSo(run, T0, T) /\ T \in Seq(TurnSet)
  BY <1>1 DEF Adds, Lines
<1> SUFFICES ASSUME NEW j \in 1 .. n, NEW x \in 1 .. Len(T[j].refs)
             PROVE  IsOld(T0, j, x, T[j].refs[x]) \/ IsNew(run, T[j], T[j].refs[x])
  BY <1>1
<1>3. T[j] \in TurnSet /\ Len(T[j].refs) \in Nat
  BY <1>1, <1>2, TurnFields
<1>4. CASE j > n0
  <2>1. j \in n0 + 1 .. n
    BY <1>1, <1>4
  <2>2. TurnOf(run, T[j], N)
    BY <2>1, <1>1, <1>2 DEF Lines
  <2>3. /\ T[j].group = run.group /\ Len(T[j].refs) = 1 /\ T[j].refs[1][1] = run.id
        /\ T[j].refs[1][2] \in 1 .. N /\ Kind(T[j], run.frames[T[j].refs[1][2]], run.role)
    BY <2>2 DEF TurnOf
  <2>4. x = 1
    BY <2>3
  <2>5. T[j].role \in HumanInput => IsHumanUnit(run.frames[T[j].refs[1][2]])
    BY <2>3 DEF Kind, HumanInput, IsResponse
  <2>6. T[j].actor = "human" => ByHuman(run.frames[T[j].refs[1][2]])
    BY <2>3 DEF Kind, ByHuman
  <2>7. IsNew(run, T[j], T[j].refs[1])
    BY <2>3, <2>5, <2>6, <1>1 DEF IsNew
  <2> QED BY <2>4, <2>7
<1>5. CASE j <= n0
  <2>1. j \in 1 .. n0 /\ T0[j] \in TurnSet
    BY <1>1, <1>5
  <2>2. PICK r \in Seq(Nat \X Nat) : r = T0[j].refs
    BY <2>1, TurnFields
  <2>3. SameTurn(T[j], T0[j])
    BY <2>1, <1>1, <1>2 DEF Prolongs
  <2>4. CASE T[j].refs = T0[j].refs
    BY <2>1, <2>4, <1>1 DEF IsOld
  <2>5. CASE T[j].refs # T0[j].refs
    <3>1. ~SaysNothing(T0, T)
      BY <2>1, <2>5, <1>1 DEF SaysNothing
    <3>2. PICK h \in 1 .. Len(T), m \in 1 .. Len(run.frames) : SaysAt(run, T0, T, h, m)
      BY <3>1, <1>2 DEF HearsSo
    <3>3. h = j
      BY <2>1, <2>5, <3>2, <1>1 DEF SaysAt
    <3>4. /\ T[j].role \in HumanInput /\ T[j].group = run.group /\ IsHumanUnit(run.frames[m])
          /\ T[j].refs = T0[j].refs \o <<<<run.id, m>>>>
      <4>1. h <= Len(T0)
        BY <3>3, <1>1, <1>5
      <4> QED BY <4>1, <3>2, <3>3 DEF SaysAt
    <3>5. PICK ref, s : ref = <<run.id, m>> /\ s = r \o <<ref>>
      OBVIOUS
    <3>6. ref[1] = run.id /\ ref[2] = m
      BY <3>5
    <3>7. T[j].refs = s
      BY <3>4, <3>5, <2>2
    <3>8. PICK l \in Nat : l = Len(r)
      BY <2>2
    <3>9. s = Append(r, ref)
      BY <3>5, <2>2, OneMore
    <3>10. Len(s) = l + 1 /\ s[l + 1] = ref /\ \A y \in 1 .. l : s[y] = r[y]
      BY <3>8, <3>9, <2>2, Grown
    <3>11. CASE x = l + 1
      <4>1. T[j].refs[x] = ref
        BY <3>7, <3>10, <3>11
      <4> QED BY <4>1, <3>4, <3>6 DEF IsNew, ByHuman
    <3>12. CASE x # l + 1
      <4>1. x \in 1 .. l
        <5>1. x \in 1 .. l + 1
          BY <3>7, <3>10
        <5> QED BY <5>1, <3>8, <3>12
      <4>2. T[j].refs[x] = r[x]
        BY <4>1, <3>7, <3>10
      <4> QED BY <4>1, <4>2, <3>8, <2>1, <2>2, <1>1 DEF IsOld
    <3> QED BY <3>11, <3>12
  <2> QED BY <2>4, <2>5
<1> QED BY <1>1, <1>4, <1>5

LEMMA RefersNext ==
    ASSUME NEW R, NEW k \in Nat, NEW run \in RunSet, run = R[k + 1], NEW T0 \in Seq(TurnSet),
           Refers(R, k, T0), NEW T, Adds(run, T0, T)
    PROVE  Refers(R, k + 1, T)
<1>1. PICK n \in Nat, n0 \in Nat : n = Len(T) /\ n0 = Len(T0)
  BY DEF Adds
<1>2. Lines(run, T0, T, Len(run.frames)) /\ Prolongs(T0, T) /\ T \in Seq(TurnSet)
  BY DEF Adds, Lines
<1>3. k + 1 \in 1 .. k + 1 /\ \A r \in 1 .. k : r \in 1 .. k + 1
  OBVIOUS
<1>4. ASSUME NEW j \in 1 .. n PROVE Len(T[j].refs) # 0
  <2>1. CASE j \in 1 .. n0
    <3>1. T0[j] \in TurnSet /\ Len(T0[j].refs) # 0 /\ RefsGrow(T0[j].refs, T[j].refs)
      BY <2>1, <1>1, <1>2 DEF Refers, Prolongs
    <3>2. Len(T0[j].refs) \in Nat /\ Len(T[j].refs) \in Nat
      <4>1. T[j] \in TurnSet
        BY <1>1, <1>2
      <4> QED BY <3>1, <4>1, RefsCounted, Zenon
    <3> QED BY <3>1, <3>2 DEF RefsGrow
  <2>2. CASE j \notin 1 .. n0
    <3>1. j \in n0 + 1 .. n
      BY <2>2, <1>1
    <3> QED BY <3>1, <1>1, <1>2 DEF Lines, TurnOf
  <2> QED BY <2>1, <2>2
<1>5. ASSUME NEW j \in 1 .. n, NEW x \in 1 .. Len(T[j].refs)
      PROVE  RefersTo(R, k + 1, T[j], T[j].refs[x])
  <2>1. PICK ref : ref = T[j].refs[x]
    OBVIOUS
  <2>2. IsOld(T0, j, x, ref) \/ IsNew(run, T[j], ref)
    BY <2>1, <1>1, RefsAfter
  <2>3. CASE IsOld(T0, j, x, ref)
    <3>1. RefersTo(R, k, T0[j], ref)
      BY <2>3 DEF IsOld, Refers
    <3>2. SameTurn(T[j], T0[j])
      BY <2>3, <1>2 DEF IsOld, Prolongs
    <3>3. RefersTo(R, k + 1, T[j], ref)
      BY <3>1, <3>2, <1>3 DEF RefersTo, SameTurn
    <3> QED BY <3>3, <2>1
  <2>4. CASE IsNew(run, T[j], ref)
    <3>1. RefersTo(R, k + 1, T[j], ref)
      BY <2>4, <1>3 DEF RefersTo, IsNew
    <3> QED BY <3>1, <2>1
  <2> QED BY <2>2, <2>3, <2>4
<1> QED BY <1>1, <1>4, <1>5 DEF Refers

LEMMA FirstRefsNext ==
    ASSUME NEW run \in RunSet, NEW T0, Enters(run, T0), FirstRefsDiffer(T0),
           NEW T, Adds(run, T0, T)
    PROVE  FirstRefsDiffer(T)
<1>1. PICK n \in Nat, n0 \in Nat : n = Len(T) /\ n0 = Len(T0)
  BY DEF Adds, Enters
<1>2. Lines(run, T0, T, Len(run.frames)) /\ Prolongs(T0, T) /\ T0 \in Seq(TurnSet)
  BY DEF Adds, Lines, Enters
<1>3. \A j \in 1 .. n0 : T[j].refs[1] = T0[j].refs[1] /\ T0[j].refs[1][1] < run.id
  <2> SUFFICES ASSUME NEW j \in 1 .. n0
               PROVE  T[j].refs[1] = T0[j].refs[1] /\ T0[j].refs[1][1] < run.id
    OBVIOUS
  <2>1. Len(T0[j].refs) # 0 /\ Len(T0[j].refs) \in Nat
    BY <1>1, <1>2, TurnFields DEF Enters
  <2>2. 1 \in 1 .. Len(T0[j].refs)
    BY <2>1
  <2>3. RefsGrow(T0[j].refs, T[j].refs)
    BY <1>1, <1>2 DEF Prolongs
  <2> QED BY <2>2, <2>3, <1>1 DEF RefsGrow, Enters
<1>4. \A j \in n0 + 1 .. n : T[j].refs[1][1] = run.id /\ T[j].refs[1][2] \in Int
  BY <1>1, <1>2 DEF Lines, TurnOf
<1>5. \A j, l \in n0 + 1 .. n : j < l => T[j].refs[1][2] < T[l].refs[1][2]
  BY <1>1, <1>2 DEF Lines
<1>6. run.id \in Nat
  BY RunFields
<1>7. ASSUME NEW i \in 1 .. n, NEW j \in 1 .. n, T[i].refs[1] = T[j].refs[1], i < j
      PROVE  FALSE
  <2>1. CASE j \in 1 .. n0
    <3>1. i \in 1 .. n0
      BY <2>1, <1>7
    <3> QED BY <2>1, <3>1, <1>1, <1>3, <1>7 DEF FirstRefsDiffer
  <2>2. CASE i \in 1 .. n0 /\ j \notin 1 .. n0
    <3>1. j \in n0 + 1 .. n
      BY <2>2
    <3>2. T[i].refs[1][1] = T[j].refs[1][1]
      BY <1>7
    <3>3. T[i].refs[1][1] < run.id /\ T[j].refs[1][1] = run.id
      BY <2>2, <3>1, <1>3, <1>4
    <3> QED BY <3>2, <3>3, <1>6
  <2>3. CASE i \notin 1 .. n0
    <3>1. i \in n0 + 1 .. n /\ j \in n0 + 1 .. n
      BY <2>3, <1>7
    <3>2. T[i].refs[1][2] < T[j].refs[1][2] /\ T[i].refs[1][2] \in Int
      BY <3>1, <1>4, <1>5, <1>7
    <3>3. T[i].refs[1][2] = T[j].refs[1][2]
      BY <1>7
    <3> QED BY <3>2, <3>3
  <2> QED BY <2>1, <2>2, <2>3
<1>8. \A i, j \in 1 .. n : i = j \/ i < j \/ j < i
  OBVIOUS
<1> QED BY <1>1, <1>7, <1>8 DEF FirstRefsDiffer

LEMMA OneInputNext ==
    ASSUME NEW run \in RunSet, NEW T0 \in Seq(TurnSet), OneInput(T0), NEW T, Adds(run, T0, T)
    PROVE  OneInput(T)
<1>1. PICK n \in Nat, n0 \in Nat : n = Len(T) /\ n0 = Len(T0)
  BY DEF Adds
<1>2. Prolongs(T0, T) /\ HearsSo(run, T0, T)
  BY DEF Adds, Lines
<1>3. \A j \in 1 .. n0 : T[j].role = T0[j].role /\ T[j].group = T0[j].group
  BY <1>1, <1>2 DEF Prolongs, SameTurn
<1>4. \A j \in 1 .. n : j \in 1 .. n0 \/ j \in n0 + 1 .. n
  OBVIOUS
<1>5. CASE SaysNothing(T0, T)
  <2>1. \A j \in n0 + 1 .. n : T[j].role \notin HumanInput
    BY <1>1, <1>5 DEF SaysNothing
  <2>2. \A j \in 1 .. n : T[j].role \in HumanInput => j \in 1 .. n0
    BY <1>4, <2>1
  <2> QED BY <2>2, <1>1, <1>3 DEF OneInput
<1>6. CASE ~SaysNothing(T0, T)
  <2>1. PICK h \in 1 .. Len(T), m \in 1 .. Len(run.frames) : SaysAt(run, T0, T, h, m)
    BY <1>2, <1>6 DEF HearsSo
  <2>2. \A j \in n0 + 1 .. n : T[j].role \in HumanInput => j = h
    BY <2>1, <1>1 DEF SaysAt
  <2>3. CASE h \in 1 .. n0
    <3>1. \A j \in 1 .. n : T[j].role \in HumanInput => j \in 1 .. n0
      BY <1>4, <2>2, <2>3
    <3> QED BY <3>1, <1>1, <1>3 DEF OneInput
  <2>4. CASE h \notin 1 .. n0
    <3>1. T[h].group = run.group
          /\ \A j \in 1 .. n0 : ~(T[j].role \in HumanInput /\ T[j].group = run.group)
      <4>1. h > Len(T0)
        BY <2>4, <1>1
      <4> QED BY <4>1, <2>1, <1>1, <1>3 DEF SaysAt
    <3>2. \A i, j \in 1 .. n0 :
             T[i].role \in HumanInput /\ T[j].role \in HumanInput /\ T[i].group = T[j].group => i = j
      BY <1>1, <1>3 DEF OneInput
    <3>3. \A j \in 1 .. n : T[j].role \in HumanInput => j \in 1 .. n0 \/ j = h
      BY <1>4, <2>2
    <3> QED BY <3>1, <3>2, <3>3, <1>1 DEF OneInput
  <2> QED BY <2>3, <2>4
<1> QED BY <1>5, <1>6

LEMMA InputsNext ==
    ASSUME NEW R, NEW k \in Nat, NEW run \in RunSet, run = R[k + 1], NEW T0, Enters(run, T0),
           InputsSo(R, k, T0), NEW T, Adds(run, T0, T)
    PROVE  InputsSo(R, k + 1, T)
<1>1. PICK n \in Nat, n0 \in Nat : n = Len(T) /\ n0 = Len(T0)
  BY DEF Adds, Enters
<1>2. Lines(run, T0, T, Len(run.frames)) /\ Prolongs(T0, T)
  BY DEF Adds, Lines
<1>3. ASSUME NEW j \in 1 .. n, T[j].role \in HumanInput
      PROVE  /\ T[j].actor = "human" /\ T[j].content = "words"
             /\ T[j].group = run.group => T[j].role = run.role
  <2>1. CASE j \in 1 .. n0
    <3>1. SameTurn(T[j], T0[j])
      BY <2>1, <1>1, <1>2 DEF Prolongs
    <3>2. T0[j].actor = "human" /\ T0[j].content = "words"
      BY <2>1, <3>1, <1>1, <1>3 DEF InputsSo, SameTurn
    <3>3. T0[j].group = run.group => T0[j].role = run.role
      BY <2>1, <3>1, <1>1, <1>3 DEF Enters, SameTurn
    <3> QED BY <3>1, <3>2, <3>3 DEF SameTurn
  <2>2. CASE j \notin 1 .. n0
    <3>1. j \in n0 + 1 .. n
      BY <2>2
    <3>2. Kind(T[j], run.frames[T[j].refs[1][2]], run.role)
      BY <3>1, <1>1, <1>2 DEF Lines, TurnOf
    <3> QED BY <3>2, <1>3 DEF Kind, HumanInput, IsResponse
  <2> QED BY <2>1, <2>2
<1> QED BY <1>1, <1>3 DEF InputsSo

LEMMA UnheardNext ==
    ASSUME NEW R, NEW k \in Nat, NEW run \in RunSet, run = R[k + 1], NEW T0 \in Seq(TurnSet),
           NothingUnheard(R, k, T0), NEW T, Adds(run, T0, T)
    PROVE  NothingUnheard(R, k + 1, T)
<1>1. PICK n \in Nat, n0 \in Nat : n = Len(T) /\ n0 = Len(T0)
  BY DEF Adds
<1>2. /\ Lines(run, T0, T, Len(run.frames)) /\ Prolongs(T0, T) /\ HearsSo(run, T0, T)
      /\ T \in Seq(TurnSet)
  BY DEF Adds, Lines
<1>3. ASSUME NEW r \in 1 .. k, NEW m \in 1 .. Len(R[r].frames), IsHumanUnit(R[r].frames[m])
      PROVE  InTranscript(R[r], T, m)
  <2>0. PICK j \in 1 .. n0 : \E x \in 1 .. Len(T0[j].refs) :
           /\ T0[j].role \in HumanInput /\ T0[j].group = R[r].group
           /\ T0[j].refs[x][1] = R[r].id /\ T0[j].refs[x][2] = m
    BY <1>1, <1>3 DEF NothingUnheard, InTranscript
  <2>1. PICK x \in 1 .. Len(T0[j].refs) :
           /\ T0[j].role \in HumanInput /\ T0[j].group = R[r].group
           /\ T0[j].refs[x][1] = R[r].id /\ T0[j].refs[x][2] = m
    BY <2>0
  <2>2. SameTurn(T[j], T0[j]) /\ RefsGrow(T0[j].refs, T[j].refs) /\ n0 <= n
    BY <1>1, <1>2 DEF Prolongs
  <2>3. j \in 1 .. n /\ T[j] \in TurnSet /\ T0[j] \in TurnSet
    BY <1>1, <1>2, <2>2
  <2>4. Len(T[j].refs) \in Nat /\ Len(T0[j].refs) \in Nat
    BY <2>3, RefsCounted, Zenon
  <2>5. x \in 1 .. Len(T[j].refs) /\ T[j].refs[x] = T0[j].refs[x]
    BY <2>2, <2>4 DEF RefsGrow
  <2> QED BY <2>1, <2>2, <2>3, <2>5, <1>1 DEF SameTurn, InTranscript
<1>4. ASSUME NEW m \in 1 .. Len(run.frames), IsHumanUnit(run.frames[m])
      PROVE  InTranscript(run, T, m)
  <2>1. PICK h \in 1 .. Len(T), y \in 1 .. Len(run.frames) :
           /\ SaysAt(run, T0, T, h, y)
           /\ \A l \in 1 .. Len(run.frames) : IsHumanUnit(run.frames[l]) => l = y
    BY <1>2, <1>4 DEF HearsSo
  <2>2. SaysAt(run, T0, T, h, m)
    BY <2>1, <1>4
  <2>3. T[h].role \in HumanInput /\ T[h].group = run.group
    BY <2>2 DEF SaysAt
  <2>4. \E x \in 1 .. Len(T[h].refs) : T[h].refs[x] = <<run.id, m>>
    <3>1. CASE h > Len(T0)
      <4>1. T[h].refs[1] = <<run.id, m>>
        BY <2>2, <3>1 DEF SaysAt
      <4>2. h \in n0 + 1 .. n
        BY <3>1, <1>1
      <4>3. Len(T[h].refs) = 1 /\ 1 \in 1 .. 1
        BY <4>2, <1>1, <1>2 DEF Lines, TurnOf
      <4> QED BY <4>1, <4>3
    <3>2. CASE ~(h > Len(T0))
      <4>1. h \in 1 .. n0 /\ T0[h] \in TurnSet
        BY <3>2, <1>1
      <4>2. PICK q \in Seq(Nat \X Nat) : q = T0[h].refs
        BY <4>1, TurnFields
      <4>3. PICK ref, s : ref = <<run.id, m>> /\ s = q \o <<ref>>
        OBVIOUS
      <4>4. T[h].refs = s
        <5>1. h <= Len(T0)
          BY <4>1, <1>1
        <5>2. T[h].refs = T0[h].refs \o <<<<run.id, m>>>>
          BY <5>1, <2>2 DEF SaysAt
        <5> QED BY <5>2, <4>2, <4>3
      <4>5. PICK l \in Nat : l = Len(q)
        BY <4>2
      <4>6. s = Append(q, ref)
        BY <4>2, <4>3, OneMore
      <4>7. Len(s) = l + 1 /\ s[l + 1] = ref
        BY <4>2, <4>5, <4>6, Grown
      <4>8. l + 1 \in 1 .. Len(T[h].refs) /\ T[h].refs[l + 1] = ref
        BY <4>4, <4>7
      <4> QED BY <4>3, <4>8
    <3> QED BY <3>1, <3>2
  <2>5. PICK x \in 1 .. Len(T[h].refs) : T[h].refs[x][1] = run.id /\ T[h].refs[x][2] = m
    BY <2>4
  <2> QED BY <2>3, <2>5 DEF InTranscript
<1>5. \A r \in 1 .. k + 1 : r \in 1 .. k \/ r = k + 1
  OBVIOUS
<1> QED BY <1>3, <1>4, <1>5 DEF NothingUnheard

LEMMA AnswersNext ==
    ASSUME NEW R, NEW k \in Nat, NEW run \in RunSet, run = R[k + 1], NEW T0 \in Seq(TurnSet),
           Refers(R, k, T0), AnswersStand(R, k, T0), NEW T, Adds(run, T0, T)
    PROVE  AnswersStand(R, k + 1, T)
<1>1. PICK n \in Nat, n0 \in Nat : n = Len(T) /\ n0 = Len(T0)
  BY DEF Adds
<1>2. /\ Lines(run, T0, T, Len(run.frames)) /\ Prolongs(T0, T) /\ AnswersSo(run, T0, T)
  BY DEF Adds, Lines
<1>3. k + 1 \in 1 .. k + 1 /\ \A r \in 1 .. k : r \in 1 .. k + 1
  OBVIOUS
<1>4. ASSUME NEW j \in 1 .. n, IsResponse(T[j].role), j \in 1 .. n0
      PROVE  AnswerStands(R, k + 1, T, j)
  <2>1. /\ SameTurn(T[j], T0[j]) /\ T[j].visible = T0[j].visible
        /\ RefsGrow(T0[j].refs, T[j].refs)
    BY <1>1, <1>2, <1>4 DEF Prolongs
  <2>2. PICK r \in 1 .. k :
           /\ T0[j].refs[1][1] = R[r].id
           /\ T0[j].visible <=> (Succeeded(R[r]) /\ DeliveredIn(R[r]))
           /\ T0[j].visible => Meets(T0, j)
    BY <2>1, <1>1, <1>4 DEF AnswersStand, AnswerStands, SameTurn
  <2>3. T[j].refs[1] = T0[j].refs[1]
    <3>1. Len(T0[j].refs) # 0 /\ Len(T0[j].refs) \in Nat
      BY <1>1, <1>4, TurnFields DEF Refers
    <3>2. 1 \in 1 .. Len(T0[j].refs)
      BY <3>1
    <3> QED BY <3>2, <2>1 DEF RefsGrow
  <2>4. Meets(T0, j) => Meets(T, j)
    <3> SUFFICES ASSUME Meets(T0, j) PROVE Meets(T, j)
      OBVIOUS
    <3>1. Looks(T, T0, n0)
      BY <1>1, <1>2 DEF Looks, Prolongs, SameTurn
    <3>2. j > 1 /\ WaitsAt(T0, j - 1, T0[j].group) /\ T0[j].actor = "ai"
      BY DEF Meets
    <3>3. PICK i \in 1 .. n0 : i = j - 1
      BY <3>2, <1>4
    <3>4. Pend(T, i) = Pend(T0, i)
      <4>1. i \in 0 .. n0
        OBVIOUS
      <4> QED BY <4>1, <3>1, PendKept
    <3>5. T[i].actor = T0[i].actor /\ T[i].group = T0[i].group
      BY <1>1, <1>2 DEF Prolongs, SameTurn
    <3>6. WaitsAt(T, i, T0[j].group)
      BY <3>2, <3>3, <3>4, <3>5 DEF WaitsAt
    <3> QED BY <3>2, <3>3, <3>6, <2>1 DEF Meets, SameTurn
  <2>5. r \in 1 .. k + 1
    BY <1>3
  <2> QED BY <2>1, <2>2, <2>3, <2>4, <2>5 DEF AnswerStands
<1>5. ASSUME NEW j \in 1 .. n, IsResponse(T[j].role), j \notin 1 .. n0
      PROVE  AnswerStands(R, k + 1, T, j)
  <2>1. j \in n0 + 1 .. n
    BY <1>5
  <2>2. T[j].refs[1][1] = run.id
    BY <2>1, <1>1, <1>2 DEF Lines, TurnOf
  <2>3. /\ T[j].visible <=> (Succeeded(run) /\ DeliveredIn(run))
        /\ T[j].visible => Meets(T, j)
    BY <2>1, <1>1, <1>2, <1>5 DEF AnswersSo
  <2> QED BY <2>2, <2>3, <1>3 DEF AnswerStands
<1> QED BY <1>1, <1>4, <1>5 DEF AnswersStand

LEMMA StandingNext ==
    ASSUME NEW R, RunsOK(R), NEW k \in Nat, k + 1 \in 1 .. Len(R), NEW T0, Standing(R, k, T0)
    PROVE  /\ Enters(R[k + 1], T0) /\ Adds(R[k + 1], T0, AddRun(T0, R[k + 1]))
           /\ Standing(R, k + 1, AddRun(T0, R[k + 1]))
<1>1. PICK run \in RunSet : run = R[k + 1]
  BY DEF RunsOK
<1>2. PICK T : T = AddRun(T0, run)
  OBVIOUS
<1>3. Enters(run, T0) /\ T0 \in Seq(TurnSet)
  BY <1>1, EntersNext DEF Standing
<1>4. FramesOK(run)
  BY <1>1 DEF RunsOK, RunOK
<1>5. Adds(run, T0, T)
  BY <1>2, <1>3, <1>4, EveryRunAdds
<1>6. T \in Seq(TurnSet) /\ Calm(T) /\ (Fails(run) => Waits(T, run.group))
  BY <1>5 DEF Adds
<1>7. Refers(R, k, T0) /\ FirstRefsDiffer(T0) /\ OneInput(T0) /\ InputsSo(R, k, T0)
      /\ NothingUnheard(R, k, T0) /\ AnswersStand(R, k, T0)
  BY DEF Standing
<1>8. Refers(R, k + 1, T)
  BY <1>1, <1>3, <1>5, <1>7, RefersNext
<1>9. FirstRefsDiffer(T)
  BY <1>3, <1>5, <1>7, FirstRefsNext
<1>10. OneInput(T)
  BY <1>3, <1>5, <1>7, OneInputNext
<1>11. InputsSo(R, k + 1, T)
  BY <1>1, <1>3, <1>5, <1>7, InputsNext
<1>12. NothingUnheard(R, k + 1, T)
  BY <1>1, <1>3, <1>5, <1>7, UnheardNext
<1>13. AnswersStand(R, k + 1, T)
  BY <1>1, <1>3, <1>5, <1>7, AnswersNext
<1>14. Standing(R, k + 1, T)
  BY <1>1, <1>6, <1>8, <1>9, <1>10, <1>11, <1>12, <1>13 DEF Standing
<1> QED BY <1>1, <1>2, <1>3, <1>5, <1>14

LEMMA StandingHolds ==
    ASSUME NEW R, RunsOK(R)
    PROVE  \A k \in 0 .. Len(R) : Standing(R, k, Transcript(R, k))
<1>1. PICK n \in Nat : n = Len(R) /\ R \in Seq(RunSet)
  BY DEF RunsOK
<1>2. /\ Transcript(R, 0) = <<>>
      /\ \A k \in 1 .. n : Transcript(R, k) = AddRun(Transcript(R, k - 1), R[k])
  BY <1>1, TranscriptTyped
<1> DEFINE Bad == {k \in 0 .. n : ~Standing(R, k, Transcript(R, k))}
<1> SUFFICES ASSUME Bad # {} PROVE FALSE
  BY <1>1
<1>3. PICK k \in Bad : \A j \in Bad : k <= j
  <2>1. Bad \in SUBSET Nat
    OBVIOUS
  <2> HIDE DEF Bad
  <2> QED BY <2>1, Least
<1>4. k # 0
  <2>0. PICK S : S = TurnSet
    OBVIOUS
  <2>1. PICK T, z : T = <<>> /\ z = 0 /\ T \in Seq(TurnSet) /\ Len(T) = z /\ z \in Int
    <3>1. <<>> \in Seq(S) /\ Len(<<>>) = 0
      OBVIOUS
    <3>2. <<>> \in Seq(TurnSet)
      BY <3>1, <2>0
    <3>3. \E z : z = 0 /\ z \in Int
      OBVIOUS
    <3> QED BY <3>1, <3>2, <3>3
  <2>2. Calm(T)
    <3>1. z \in Nat
      BY <2>1
    <3>2. Pend(T, z) \in {0, z}
      BY <3>1, PendIn
    <3> QED BY <3>2, <2>1 DEF Calm
  <2>3. \A j \in 1 .. Len(T) : FALSE
    BY <2>1
  <2>4. \A r \in 1 .. z : FALSE
    BY <2>1
  <2>5. Standing(R, z, T)
    <3>1. Refers(R, z, T) /\ FirstRefsDiffer(T) /\ OneInput(T) /\ InputsSo(R, z, T)
          /\ AnswersStand(R, z, T)
      BY <2>3 DEF Refers, FirstRefsDiffer, OneInput, InputsSo, AnswersStand
    <3>2. NothingUnheard(R, z, T)
      BY <2>4 DEF NothingUnheard
    <3>3. ~(z > 0)
      BY <2>1
    <3> QED BY <2>1, <2>2, <3>1, <3>2, <3>3 DEF Standing
  <2> QED BY <2>1, <2>5, <1>2, <1>3
<1>5. PICK l \in Nat : l = k - 1 /\ l + 1 = k /\ l + 1 \in 1 .. Len(R) /\ l \notin Bad /\ l \in 0 .. n
  BY <1>1, <1>3, <1>4
<1>6. PICK T0 : T0 = Transcript(R, l)
  OBVIOUS
<1>7. Standing(R, l, T0)
  BY <1>5, <1>6
<1>8. Standing(R, l + 1, AddRun(T0, R[l + 1]))
  BY <1>5, <1>7, StandingNext
<1>9. Transcript(R, k) = AddRun(T0, R[k])
  <2>1. k \in 1 .. n
    BY <1>3, <1>4
  <2> QED BY <2>1, <1>2, <1>5, <1>6
<1>10. Standing(R, k, Transcript(R, k))
  BY <1>5, <1>8, <1>9
<1> QED BY <1>3, <1>10

-----------------------------------------------------------------------------
(* Types, turns and answers of a session.                                  *)

\* What is so of a session's runs and its transcript.
LEMMA SessionStands ==
    ASSUME SessionOK
    PROVE  /\ RunsOK(Runs) /\ Standing(Runs, Len(Runs), Projection.turns)
           /\ \A k \in 1 .. Len(Runs) : /\ Runs[k].id \in DOMAIN journals
                                        /\ journals[Runs[k].id] = Runs[k]
<1>1. JournalsOK(journals) /\ Runs = RunsIn(journals)
  BY DEF SessionOK, Runs, RunsIn, Executed
<1>2. RunsOK(Runs) /\ Projection.turns = Transcript(Runs, Len(Runs))
  BY <1>1, ProjectionProposes
<1>3. Len(Runs) \in 0 .. Len(Runs)
  BY <1>2 DEF RunsOK
<1>4. Standing(Runs, Len(Runs), Projection.turns)
  BY <1>2, <1>3, StandingHolds
<1>5. DOMAIN journals = 1 .. Len(journals)
  BY <1>1 DEF JournalsOK
<1> QED BY <1>1, <1>2, <1>4, <1>5, IdsBelow

LEMMA TypesThen == SessionOK => TypeOK
<1> SUFFICES ASSUME SessionOK PROVE TypeOK
  OBVIOUS
<1>1. PICK p, R : p = Projection /\ R = Runs
  OBVIOUS
<1>2. PICK n \in Nat : n = Len(R) /\ R \in Seq(RunSet)
  BY <1>1, SessionStands DEF RunsOK
<1>3. /\ Refers(R, n, p.turns)
      /\ \A k \in 1 .. n : R[k].id \in DOMAIN journals /\ journals[R[k].id] = R[k]
  BY <1>1, <1>2, SessionStands DEF Standing
<1>4. IsProposal(p)
  BY <1>1, ProjectionProposes DEF SessionOK
<1>5. Typed(p)
  BY <1>4, ProposalSound
<1>6. PICK N \in Nat, M \in Nat :
         /\ N = Len(p.turns) /\ DOMAIN p.turns = 1 .. N
         /\ M = Len(p.exchanges) /\ DOMAIN p.exchanges = 1 .. M
  BY <1>5 DEF Typed
<1>7. ASSUME NEW t \in ToSet(p.turns), NEW ref \in ToSet(t.refs)
      PROVE  /\ ref[1] \in DOMAIN journals /\ ref[2] \in DOMAIN RunOf(ref).frames
             /\ RunOf(ref).group = t.group
  <2>1. PICK j \in 1 .. N : t = p.turns[j]
    BY <1>6 DEF ToSet
  <2>2. t \in TurnSet
    BY <2>1, <1>5, <1>6 DEF Typed
  <2>3. DOMAIN t.refs = 1 .. Len(t.refs)
    BY <2>2, TurnFields
  <2>4. PICK x \in 1 .. Len(t.refs) : ref = t.refs[x]
    BY <2>3 DEF ToSet
  <2>5. RefersTo(R, n, t, ref)
    BY <2>1, <2>4, <1>3, <1>6 DEF Refers
  <2>6. PICK r \in 1 .. n :
           ref[1] = R[r].id /\ ref[2] \in 1 .. Len(R[r].frames) /\ R[r].group = t.group
    BY <2>5 DEF RefersTo
  <2>7. ref[1] \in DOMAIN journals /\ RunOf(ref) = R[r]
    BY <2>6, <1>3 DEF RunOf
  <2>8. DOMAIN R[r].frames = 1 .. Len(R[r].frames)
    <3>1. R[r] \in RunSet
      BY <1>2
    <3> QED BY <3>1, RunFields
  <2> QED BY <2>6, <2>7, <2>8
<1>8. p.exchanges \in Seq((DOMAIN p.turns) \X (DOMAIN p.turns))
  BY <1>5, <1>6 DEF Typed
<1>9. p.windows \in Seq((DOMAIN p.exchanges) \X (DOMAIN p.exchanges))
  BY <1>5, <1>6 DEF Typed
<1>10. \A e \in ToSet(p.episodes) :
          e.turn \in DOMAIN p.turns /\ e.closed \in {0} \cup DOMAIN p.exchanges
  <2>1. p.episodes \in Seq(EpisodeSet(N, M))
    BY <1>5, <1>6 DEF Typed
  <2>2. ASSUME NEW e \in ToSet(p.episodes) PROVE e.turn \in 1 .. N /\ e.closed \in 0 .. M
    <3>1. e \in EpisodeSet(N, M)
      BY <2>1, <2>2 DEF ToSet
    <3> QED BY <3>1 DEF EpisodeSet
  <2> QED BY <2>2, <1>6
<1>11. rater.pc \in {"idle", "unit"}
  BY DEF SessionOK, RaterOK
<1>12. rater.pc # "idle" =>
          \/ rater.at.unit = "window" /\ rater.at.k \in DOMAIN rater.p.windows
          \/ rater.at.unit = "episode" /\ rater.at.k \in DOMAIN rater.p.episodes
          \/ rater.at.unit = "end"
  <2> SUFFICES ASSUME rater.pc # "idle"
               PROVE  \/ rater.at.unit = "window" /\ rater.at.k \in DOMAIN rater.p.windows
                      \/ rater.at.unit = "episode" /\ rater.at.k \in DOMAIN rater.p.episodes
                      \/ rater.at.unit = "end"
    OBVIOUS
  <2>1. Typed(rater.p) /\ Stands(rater.p, rater.at)
    BY DEF SessionOK, RaterOK
  <2>2. /\ DOMAIN rater.p.windows = 1 .. Len(rater.p.windows)
        /\ DOMAIN rater.p.episodes = 1 .. Len(rater.p.episodes)
    BY <2>1 DEF Typed
  <2> QED BY <2>1, <2>2 DEF Stands
<1> QED BY <1>1, <1>7, <1>8, <1>9, <1>10, <1>11, <1>12 DEF TypeOK

\* Every turn of a transcript refers to frames that the session's journals
\* have, of a run of its own group (boundary.rs project, journal.rs); the
\* rater stands at a unit of what was put before them (main.rs cmd_rate).
THEOREM SessionTypes == Spec => []TypeOK
BY SessionHolds, TypesThen, PTL

\* What was heard in the runs of a group.
HeardIn(S, g) == UNION {{<<j.id, i>> : i \in Heard(j)} : j \in {r \in S : r.group = g}}

LEMMA HeardMembers ==
    ASSUME NEW R \in Seq(RunSet), NEW n \in Nat, n = Len(R), NEW g, NEW y
    PROVE  y \in HeardIn(ToSet(R), g) <=>
              \E r \in 1 .. n : /\ R[r].group = g
                                /\ \E m \in 1 .. Len(R[r].frames) :
                                      IsHumanUnit(R[r].frames[m]) /\ y = <<R[r].id, m>>
<1>1. ToSet(R) = {R[r] : r \in 1 .. n}
  BY DEF ToSet
<1>2. \A r \in 1 .. n : DOMAIN R[r].frames = 1 .. Len(R[r].frames)
  BY RunFields
<1>3. ASSUME NEW r \in 1 .. n, R[r].group = g, NEW m \in 1 .. Len(R[r].frames),
             IsHumanUnit(R[r].frames[m]), y = <<R[r].id, m>>
      PROVE  y \in HeardIn(ToSet(R), g)
  <2>1. PICK j : j = R[r]
    OBVIOUS
  <2>2. m \in Heard(j)
    BY <2>1, <1>2, <1>3 DEF Heard
  <2>3. y \in {<<j.id, i>> : i \in Heard(j)}
    BY <2>1, <2>2, <1>3
  <2>4. j \in {q \in ToSet(R) : q.group = g}
    BY <2>1, <1>1, <1>3
  <2> QED BY <2>3, <2>4 DEF HeardIn
<1>4. ASSUME y \in HeardIn(ToSet(R), g)
      PROVE  \E r \in 1 .. n : /\ R[r].group = g
                               /\ \E m \in 1 .. Len(R[r].frames) :
                                     IsHumanUnit(R[r].frames[m]) /\ y = <<R[r].id, m>>
  <2>1. PICK j \in ToSet(R) : j.group = g /\ y \in {<<j.id, i>> : i \in Heard(j)}
    BY <1>4 DEF HeardIn
  <2>2. PICK m \in Heard(j) : y = <<j.id, m>>
    BY <2>1
  <2>3. PICK r \in 1 .. n : j = R[r]
    BY <1>1
  <2>4. m \in 1 .. Len(R[r].frames) /\ IsHumanUnit(R[r].frames[m])
    BY <2>2, <2>3, <1>2 DEF Heard
  <2> QED BY <2>1, <2>2, <2>3, <2>4
<1> QED BY <1>3, <1>4

LEMMA OneTurnThen == SessionOK => OneTurnPerContribution
<1> SUFFICES ASSUME SessionOK PROVE OneTurnPerContribution
  OBVIOUS
<1>1. PICK p, R : p = Projection /\ R = Runs
  OBVIOUS
<1>2. PICK n \in Nat : n = Len(R) /\ R \in Seq(RunSet)
  BY <1>1, SessionStands DEF RunsOK
<1>3. PICK T \in Seq(TurnSet) : T = p.turns
  BY <1>1, SessionStands DEF Standing
<1>4. Refers(R, n, T) /\ FirstRefsDiffer(T) /\ OneInput(T) /\ NothingUnheard(R, n, T)
  BY <1>1, <1>2, <1>3, SessionStands DEF Standing
<1>5. PICK N \in Nat : N = Len(T) /\ DOMAIN T = 1 .. N
  BY <1>3
<1>6. ASSUME NEW g \in {r.group : r \in ToSet(R)}
      PROVE  LET heard == HeardIn(ToSet(R), g)
                 turns == {i \in DOMAIN T : T[i].group = g /\ T[i].role \in HumanInput}
             IN  /\ heard # {} => Cardinality(turns) = 1
                 /\ \A i \in turns : ToSet(T[i].refs) = heard
  <2>1. PICK heard, turns :
           /\ heard = HeardIn(ToSet(R), g)
           /\ turns = {i \in DOMAIN T : T[i].group = g /\ T[i].role \in HumanInput}
    OBVIOUS
  <2>2. \A i \in turns : i \in 1 .. N /\ T[i].group = g /\ T[i].role \in HumanInput
    BY <2>1, <1>5
  <2>3. \A y : y \in heard <=>
              \E r \in 1 .. n : /\ R[r].group = g
                                /\ \E m \in 1 .. Len(R[r].frames) :
                                      IsHumanUnit(R[r].frames[m]) /\ y = <<R[r].id, m>>
    BY <2>1, <1>2, HeardMembers
  <2>4. ASSUME NEW y \in heard
        PROVE  \E j \in turns : \E x \in 1 .. Len(T[j].refs) : T[j].refs[x] = y
    <3>1. PICK r \in 1 .. n : /\ R[r].group = g
                              /\ \E m \in 1 .. Len(R[r].frames) :
                                    IsHumanUnit(R[r].frames[m]) /\ y = <<R[r].id, m>>
      BY <2>3, <2>4
    <3>2. PICK m \in 1 .. Len(R[r].frames) :
             IsHumanUnit(R[r].frames[m]) /\ y = <<R[r].id, m>>
      BY <3>1
    <3>3. InTranscript(R[r], T, m)
      BY <3>2, <1>4 DEF NothingUnheard
    <3>4. PICK j \in 1 .. N : \E x \in 1 .. Len(T[j].refs) :
             /\ T[j].role \in HumanInput /\ T[j].group = g
             /\ T[j].refs[x][1] = R[r].id /\ T[j].refs[x][2] = m
      BY <3>1, <3>3, <1>5 DEF InTranscript
    <3>5. PICK x \in 1 .. Len(T[j].refs) :
             /\ T[j].role \in HumanInput /\ T[j].group = g
             /\ T[j].refs[x][1] = R[r].id /\ T[j].refs[x][2] = m
      BY <3>4
    <3>6. j \in turns
      BY <3>5, <2>1, <1>5
    <3>7. T[j].refs[x] \in Nat \X Nat
      <4>1. T[j] \in TurnSet
        BY <1>5
      <4> QED BY <4>1, TurnFields
    <3>8. T[j].refs[x] = y
      BY <3>2, <3>5, <3>7
    <3> QED BY <3>6, <3>8
  <2>5. \A i, j \in turns : i = j
    BY <2>2, <1>4, <1>5 DEF OneInput
  <2>6. ASSUME heard # {} PROVE Cardinality(turns) = 1
    <3>1. PICK j \in turns : TRUE
      BY <2>4, <2>6
    <3>2. turns = {j}
      BY <3>1, <2>5
    <3> QED BY <3>2, FS_Singleton
  <2>7. ASSUME NEW i \in turns PROVE ToSet(T[i].refs) = heard
    <3>1. T[i] \in TurnSet
      BY <2>2, <1>5
    <3>2. DOMAIN T[i].refs = 1 .. Len(T[i].refs) /\ T[i].refs \in Seq(Nat \X Nat)
      BY <3>1, TurnFields
    <3>3. ASSUME NEW x \in 1 .. Len(T[i].refs) PROVE T[i].refs[x] \in heard
      <4>1. PICK ref \in Nat \X Nat : ref = T[i].refs[x]
        BY <3>2, SMTT(30)
      <4>2. RefersTo(R, n, T[i], ref)
        BY <4>1, <2>2, <1>4, <1>5 DEF Refers
      <4>3. PICK r \in 1 .. n :
               /\ ref[1] = R[r].id /\ ref[2] \in 1 .. Len(R[r].frames) /\ R[r].group = g
               /\ IsHumanUnit(R[r].frames[ref[2]])
        BY <4>2, <2>2 DEF RefersTo
      <4>4. ref = <<R[r].id, ref[2]>>
        BY <4>3
      <4> QED BY <4>1, <4>3, <4>4, <2>3
    <3>4. ToSet(T[i].refs) \subseteq heard
      BY <3>2, <3>3 DEF ToSet
    <3>5. heard \subseteq ToSet(T[i].refs)
      <4> SUFFICES ASSUME NEW y \in heard PROVE y \in ToSet(T[i].refs)
        OBVIOUS
      <4>1. PICK j \in turns : \E x \in 1 .. Len(T[j].refs) : T[j].refs[x] = y
        BY <2>4
      <4>2. PICK x \in 1 .. Len(T[i].refs) : T[i].refs[x] = y
        BY <4>1, <2>5
      <4> QED BY <4>2, <3>2 DEF ToSet
    <3> QED BY <3>4, <3>5
  <2> QED BY <2>1, <2>6, <2>7
<1>7. ASSUME NEW i \in DOMAIN T, NEW k \in DOMAIN T, T[i].refs = T[k].refs PROVE i = k
  BY <1>4, <1>5, <1>7 DEF FirstRefsDiffer
<1> DEFINE turnsOf(g) ==
              {i \in DOMAIN p.turns : p.turns[i].group = g /\ p.turns[i].role \in HumanInput}
<1>8. \A g \in {r.group : r \in ToSet(Runs)} :
         /\ HeardIn(ToSet(Runs), g) # {} => Cardinality(turnsOf(g)) = 1
         /\ \A i \in turnsOf(g) : ToSet(p.turns[i].refs) = HeardIn(ToSet(Runs), g)
  <2> SUFFICES ASSUME NEW g \in {r.group : r \in ToSet(Runs)}
               PROVE  /\ HeardIn(ToSet(Runs), g) # {} => Cardinality(turnsOf(g)) = 1
                      /\ \A i \in turnsOf(g) : ToSet(p.turns[i].refs) = HeardIn(ToSet(Runs), g)
    OBVIOUS
  <2>1. g \in {r.group : r \in ToSet(R)}
    BY <1>1
  <2>2. PICK heard, turns :
           /\ heard = HeardIn(ToSet(R), g)
           /\ turns = {i \in DOMAIN T : T[i].group = g /\ T[i].role \in HumanInput}
    OBVIOUS
  <2>3. (heard # {} => Cardinality(turns) = 1) /\ \A i \in turns : ToSet(T[i].refs) = heard
    BY <2>1, <2>2, <1>6
  <2>4. turnsOf(g) = turns
    BY <2>2, <1>3
  <2>5. HeardIn(ToSet(Runs), g) = heard
    BY <2>2, <1>1
  <2> HIDE DEF turnsOf
  <2> QED BY <2>3, <2>4, <2>5, <1>3
<1>9. \A i, k \in DOMAIN p.turns :
         p.turns[i].role \notin HumanInput /\ p.turns[i].refs = p.turns[k].refs => i = k
  BY <1>3, <1>7
<1> QED BY <1>1, <1>8, <1>9, Zenon DEF OneTurnPerContribution, HeardIn

\* However often a question is retried, its words are one turn, which refers
\* to every frame in which they were heard and to nothing else; no two turns
\* of anyone else refer to the same frames (boundary.rs merge).
THEOREM OneTurn == Spec => []OneTurnPerContribution
BY SessionHolds, OneTurnThen, PTL

LEMMA VisibleThen == SessionOK => VisibleMeansDelivered
<1> SUFFICES ASSUME SessionOK PROVE VisibleMeansDelivered
  OBVIOUS
<1>1. PICK p, R : p = Projection /\ R = Runs
  OBVIOUS
<1>2. PICK n \in Nat : n = Len(R) /\ R \in Seq(RunSet)
  BY <1>1, SessionStands DEF RunsOK
<1>3. PICK T \in Seq(TurnSet) : T = p.turns
  BY <1>1, SessionStands DEF Standing
<1>4. /\ AnswersStand(R, n, T)
      /\ \A k \in 1 .. n : journals[R[k].id] = R[k]
  BY <1>1, <1>2, <1>3, SessionStands DEF Standing
<1>5. ASSUME NEW t \in ToSet(T), IsResponse(t.role)
      PROVE  t.visible <=>
                /\ Succeeded(RunOf(t.refs[1]))
                /\ \E f \in ToSet(RunOf(t.refs[1]).frames) :
                      f.is = "boundary" /\ f.visibility = "delivered"
  <2>1. PICK j \in 1 .. Len(T) : t = T[j]
    BY <1>3 DEF ToSet
  <2>2. PICK r \in 1 .. n : /\ T[j].refs[1][1] = R[r].id
                            /\ T[j].visible <=> (Succeeded(R[r]) /\ DeliveredIn(R[r]))
    BY <2>1, <1>4, <1>5 DEF AnswersStand, AnswerStands
  <2>3. RunOf(t.refs[1]) = R[r]
    BY <2>1, <2>2, <1>4 DEF RunOf
  <2>4. (\E f \in ToSet(R[r].frames) : f.is = "boundary" /\ f.visibility = "delivered")
           <=> DeliveredIn(R[r])
    BY DEF ToSet, DeliveredIn, Delivers
  <2> QED BY <2>1, <2>2, <2>3, <2>4
<1> QED BY <1>1, <1>3, <1>5 DEF VisibleMeansDelivered

LEMMA MeetsThen == SessionOK => AnswersMeetTheirQuestion
<1> SUFFICES ASSUME SessionOK PROVE AnswersMeetTheirQuestion
  OBVIOUS
<1>1. PICK p, R : p = Projection /\ R = Runs
  OBVIOUS
<1>2. PICK n \in Nat : n = Len(R) /\ R \in Seq(RunSet)
  BY <1>1, SessionStands DEF RunsOK
<1>3. PICK T \in Seq(TurnSet) : T = p.turns
  BY <1>1, SessionStands DEF Standing
<1>4. AnswersStand(R, n, T)
  BY <1>1, <1>2, <1>3, SessionStands DEF Standing
<1>5. PICK N \in Nat : N = Len(T) /\ DOMAIN T = 1 .. N
  BY <1>3
<1>6. p.exchanges = Scan(T, N).pairs /\ p.exchanges \in Seq((1 .. N) \X (1 .. N))
  <2>1. IsProposal(p)
    BY <1>1, ProjectionProposes DEF SessionOK
  <2>2. Typed(p)
    BY <2>1, ProposalSound
  <2> QED BY <2>1, <2>2, <1>3, <1>5 DEF IsProposal, Exchanges, Typed
<1>7. ASSUME NEW i \in 1 .. N, IsResponse(T[i].role), T[i].visible
      PROVE  \E ex \in ToSet(p.exchanges) : ex[2] = i /\ T[ex[1]].group = T[i].group
  <2>1. Meets(T, i)
    BY <1>4, <1>5, <1>7 DEF AnswersStand, AnswerStands
  <2>2. /\ T[i].actor = "ai" /\ i > 1 /\ Pend(T, i - 1) = i - 1 /\ T[i - 1].actor = "human"
        /\ T[i - 1].group = T[i].group
    BY <2>1 DEF Meets, WaitsAt
  <2>3. PICK a \in Nat \ {0} : a = i - 1
    BY <2>2
  <2>4. i \in Nat \ {0} /\ i \in 0 .. N
    OBVIOUS
  <2>5. PICK s : s = Scan(T, a)
    OBVIOUS
  <2>6. s.pending = a /\ T[s.pending].actor # T[i].actor /\ s.pending # 0
    <3>1. "ai" # "human"
      OBVIOUS
    <3> QED BY <3>1, <2>2, <2>3, <2>5 DEF Pend
  <2>7. Scan(T, i).pairs = Append(s.pairs, <<s.pending, i>>)
    BY <2>3, <2>4, <2>5, <2>6, <1>7, ScanNext
  <2>8. PICK ps, e : ps = s.pairs /\ e = <<a, i>>
    OBVIOUS
  <2>9. ps \in Seq((1 .. N) \X (1 .. N))
    <3>1. a \in 0 .. N
      BY <2>3
    <3>2. Scan(T, a) \in ScanStates(N)
      BY <3>1, ScanGood
    <3> QED BY <3>2, <2>5, <2>8 DEF ScanStates
  <2>10. PICK l \in Nat : l = Len(ps)
    BY <2>9
  <2>11. PICK qs : qs = Scan(T, i).pairs /\ qs = Append(ps, e)
    BY <2>6, <2>7, <2>8
  <2>12. Len(qs) = l + 1 /\ qs[l + 1] = e
    BY <2>9, <2>10, <2>11, Grown
  <2>13. l + 1 \in 1 .. Len(Scan(T, i).pairs) /\ Scan(T, i).pairs[l + 1] = e
    BY <2>11, <2>12
  <2>14. l + 1 \in 1 .. Len(Scan(T, N).pairs) /\ Scan(T, N).pairs[l + 1] = e
    BY <2>4, <2>13, PairsGrow
  <2>15. e \in ToSet(p.exchanges)
    BY <2>14, <1>6 DEF ToSet
  <2>16. e[1] = a /\ e[2] = i
    BY <2>8
  <2> QED BY <2>2, <2>3, <2>15, <2>16
<1> QED BY <1>1, <1>3, <1>5, <1>7 DEF AnswersMeetTheirQuestion

\* An answer is visible when its delivery is on record and not otherwise, and
\* a visible one closes an exchange with what the human said in its group:
\* for sessions of any length, with retries, gates, journals named by hand and
\* runs from before there were events (boundary.rs, journal.rs confirm).
THEOREM AnswersTrue == Spec => []AnswersAreTrue
<1>1. SessionOK => AnswersAreTrue
  BY VisibleThen, MeetsThen DEF AnswersAreTrue
<1> QED BY <1>1, SessionHolds, PTL

-----------------------------------------------------------------------------
(* A transcript that grows.                                                *)

LEMMA PrefixWhen ==
    ASSUME NEW S, NEW s \in Seq(S), NEW t \in Seq(S), Len(s) <= Len(t),
           \A i \in 1 .. Len(s) : t[i] = s[i]
    PROVE  IsPrefix(s, t)
<1>1. PICK n \in Nat : n = Len(s) /\ n <= Len(t)
  OBVIOUS
<1>2. SubSeq(t, 1, n) \in Seq(S) /\ Len(SubSeq(t, 1, n)) = n
  BY <1>1
<1>3. \A i \in 1 .. n : SubSeq(t, 1, n)[i] = t[i]
  BY <1>1
<1>4. SubSeq(s, 1, n) \in Seq(S) /\ Len(SubSeq(s, 1, n)) = n
  BY <1>1
<1>5. \A i \in 1 .. n : SubSeq(s, 1, n)[i] = s[i]
  BY <1>1
<1>6. PICK u \in Seq(S), v \in Seq(S) : u = SubSeq(s, 1, n) /\ v = SubSeq(t, 1, n)
  BY <1>2, <1>4
<1>7. Len(u) = n /\ Len(v) = n /\ \A i \in 1 .. n : u[i] = v[i]
  BY <1>1, <1>2, <1>3, <1>4, <1>5, <1>6
<1>8. u = v
  BY <1>7, SeqEqual
<1> QED BY <1>1, <1>6, <1>8 DEF IsPrefix

LEMMA TurnKept ==
    ASSUME NEW t \in TurnSet, NEW u \in TurnSet, SameTurn(u, t)
    PROVE  [u EXCEPT !.refs = t.refs, !.visible = t.visible] = t
<1>1. PICK F : F = Seq(Nat \X Nat)
  OBVIOUS
<1>2. /\ t \in [actor : Actors, group : Nat, role : TurnRoles, content : Contents, refs : F,
                visible : BOOLEAN]
      /\ u \in [actor : Actors, group : Nat, role : TurnRoles, content : Contents, refs : F,
                visible : BOOLEAN]
  BY <1>1 DEF TurnSet
<1> QED BY <1>2 DEF SameTurn

\* More exchanges have as many windows or more, and the same ones first.
LEMMA WindowsGrow ==
    ASSUME NEW m \in Nat, NEW n \in Nat, m <= n
    PROVE  IsPrefix(Windows(m), Windows(n))
<1>1. PICK W \in Nat \ {0} : W = WindowSize
  BY WindowSizeAssumption
<1>2. PICK a \in Nat, b \in Nat : a = m \div W /\ b = n \div W
  BY Division
<1>3. a <= b
  <2> SUFFICES ASSUME b < a PROVE FALSE
    OBVIOUS
  <2>1. W * a <= m /\ n = W * b + (n % W) /\ n % W \in 0 .. W - 1
    BY <1>2, Division
  <2>2. b * W <= (a - 1) * W /\ (a - 1) * W + W = a * W
    BY Multiples
  <2>3. PICK x \in Int, y \in Int, z \in Int, r \in Int :
           x = a * W /\ y = b * W /\ z = (a - 1) * W /\ r = n % W
    BY <2>1
  <2>4. W * a = x /\ W * b = y
    BY <2>3
  <2>5. x <= m /\ n = y + r /\ r <= W - 1 /\ y <= z /\ z + W = x
    BY <2>1, <2>2, <2>3, <2>4
  <2> QED BY <2>5
<1>4. PICK v, w : v = Windows(m) /\ w = Windows(n)
  OBVIOUS
<1>5. v = [i \in 1 .. a |-> <<(i - 1) * W + 1, i * W>>]
      /\ w = [i \in 1 .. b |-> <<(i - 1) * W + 1, i * W>>]
  BY <1>1, <1>2, <1>4 DEF Windows
<1>6. \A i \in 1 .. a : i \in 1 .. b /\ w[i] = v[i]
  BY <1>3, <1>5
<1>7. PICK S : S = (1 .. n) \X (1 .. n)
  OBVIOUS
<1>8. v \in Seq((1 .. m) \X (1 .. m)) /\ Len(v) = a /\ w \in Seq(S) /\ Len(w) = b
  BY <1>1, <1>2, <1>4, <1>7, WindowsGood DEF WindowsRight
<1>9. v \in Seq(S)
  <2>1. \A i \in 1 .. Len(v) : v[i] \in (1 .. m) \X (1 .. m)
    BY <1>8
  <2>2. \A i \in 1 .. Len(v) : v[i] \in S
    BY <2>1, <1>7
  <2> QED BY <2>2, <1>8, Narrowed
<1> QED BY <1>3, <1>4, <1>6, <1>8, <1>9, PrefixWhen

\* Up to turn a nothing changed that the scan sees, and the last turn before,
\* if that is another one, had not been seen.
Extends(T0, T) ==
    /\ Len(T0) <= Len(T)
    /\ \A j \in 1 .. Len(T0) : /\ SameTurn(T[j], T0[j]) /\ RefsGrow(T0[j].refs, T[j].refs)
                               /\ T0[j].visible => T[j].visible
    /\ \/ Looks(T, T0, Len(T0))
       \/ Len(T0) # 0 /\ Looks(T, T0, Len(T0) - 1) /\ ~T0[Len(T0)].visible

LEMMA ExchangesGrow ==
    ASSUME NEW T0 \in Seq(TurnSet), NEW T \in Seq(TurnSet), Extends(T0, T)
    PROVE  /\ Len(Exchanges(T0)) <= Len(Exchanges(T))
           /\ \A x \in 1 .. Len(Exchanges(T0)) : Exchanges(T)[x] = Exchanges(T0)[x]
<1>1. PICK n0 \in Nat, n \in Nat : n0 = Len(T0) /\ n = Len(T) /\ n0 <= n
  BY DEF Extends
<1>2. PICK a \in 0 .. n0 : Scan(T, a).pairs = Scan(T0, n0).pairs
  <2>1. CASE Looks(T, T0, n0)
    <3>1. n0 \in 0 .. n0
      OBVIOUS
    <3>2. Scan(T, n0) = Scan(T0, n0)
      BY <2>1, <3>1, ScanSame
    <3> QED BY <3>1, <3>2
  <2>2. CASE n0 # 0 /\ Looks(T, T0, n0 - 1) /\ ~T0[n0].visible
    <3>1. PICK l \in Nat : l = n0 - 1 /\ l \in 0 .. n0 /\ n0 \in Nat \ {0}
      BY <2>2
    <3>2. Scan(T, l) = Scan(T0, l)
      <4>1. l \in 0 .. l
        OBVIOUS
      <4> QED BY <4>1, <2>2, <3>1, ScanSame
    <3>3. Scan(T0, n0).pairs = Scan(T0, n0 - 1).pairs
      BY <2>2, <3>1, ScanNext
    <3> QED BY <3>1, <3>2, <3>3
  <2> QED BY <2>1, <2>2, <1>1 DEF Extends
<1>3. a \in 0 .. n
  BY <1>1
<1>4. \A x \in 1 .. Len(Scan(T, a).pairs) :
         /\ x \in 1 .. Len(Scan(T, n).pairs)
         /\ Scan(T, n).pairs[x] = Scan(T, a).pairs[x]
  BY <1>3, PairsGrow
<1>5. PICK ps, qs : ps = Exchanges(T0) /\ qs = Exchanges(T)
  OBVIOUS
<1>6. ps = Scan(T, a).pairs /\ qs = Scan(T, n).pairs
  BY <1>1, <1>2, <1>5 DEF Exchanges
<1>7. PICK m \in Nat, k \in Nat : m = Len(ps) /\ k = Len(qs)
  <2>1. n \in 0 .. n
    OBVIOUS
  <2>2. Scanned(T, Scan(T, n), n) /\ Scanned(T, Scan(T, a), a)
    <3>1. a \in 0 .. a /\ a \in Nat
      OBVIOUS
    <3> QED BY <2>1, <3>1, ScanGood
  <2> QED BY <2>2, <1>6 DEF Scanned, Exchanged
<1>8. m <= k
  <2>1. m # 0 => m \in 1 .. m
    OBVIOUS
  <2>2. m # 0 => m \in 1 .. k
    BY <2>1, <1>4, <1>6, <1>7
  <2> QED BY <2>2
<1> QED BY <1>4, <1>5, <1>6, <1>7, <1>8

\* An episode that closed is there, closed by the same exchange.
LEMMA EpisodesGrow ==
    ASSUME NEW p, IsProposal(p), NEW q, IsProposal(q), Extends(p.turns, q.turns)
    PROVE  \A e \in ToSet(p.episodes) : e.closed # 0 => e \in ToSet(q.episodes)
<1>1. PICK T0 \in Seq(TurnSet), T \in Seq(TurnSet) : T0 = p.turns /\ T = q.turns
  BY DEF IsProposal
<1>2. PICK ps, qs : ps = p.exchanges /\ qs = q.exchanges
  OBVIOUS
<1>3. PICK n0 \in Nat, n \in Nat : n0 = Len(T0) /\ n = Len(T) /\ n0 <= n
  BY <1>1 DEF Extends
<1>4. PICK m \in Nat, k \in Nat :
         /\ m = Len(ps) /\ k = Len(qs) /\ ps \in Seq((1 .. n0) \X (1 .. n0))
         /\ Exchanged(T0, ps, n0)
  <2>1. Typed(p) /\ Typed(q) /\ Exchanged(T0, ps, n0)
    BY <1>1, <1>2, <1>3, ProposalParts DEF IsProposal
  <2> QED BY <2>1, <1>1, <1>2, <1>3 DEF Typed
<1>5. m <= k /\ \A x \in 1 .. m : qs[x] = ps[x]
  <2>1. ps = Exchanges(T0) /\ qs = Exchanges(T) /\ Extends(T0, T)
    BY <1>1, <1>2 DEF IsProposal
  <2> QED BY <2>1, <1>1, <1>4, ExchangesGrow, Zenon
<1>6. PICK es, fs : es = p.episodes /\ fs = q.episodes
  OBVIOUS
<1>7. EpisodesRight(T0, ps, es) /\ EpisodesRight(T, qs, fs)
  BY <1>1, <1>2, <1>4, <1>6, EpisodesGood DEF IsProposal
<1>8. \A j \in 1 .. n0 : /\ T[j].actor = T0[j].actor /\ T[j].role = T0[j].role
                         /\ T0[j].visible => T[j].visible
  BY <1>1, <1>3 DEF Extends, SameTurn
<1> SUFFICES ASSUME NEW e \in ToSet(es), e.closed # 0 PROVE e \in ToSet(fs)
  BY <1>6
<1>9. es \in Seq(EpisodeSet(n0, m)) /\ fs \in Seq(EpisodeSet(n, k))
  BY <1>3, <1>4, <1>7 DEF EpisodesRight
<1>10. PICK i \in 1 .. Len(es) : e = es[i]
  BY <1>9 DEF ToSet
<1>11. PICK c, x : c = e.turn /\ x = e.closed
  OBVIOUS
<1>12. c \in 1 .. n0 /\ x \in 1 .. m /\ e = [turn |-> c, closed |-> x]
  <2>1. e \in EpisodeSet(n0, m)
    BY <1>9, <1>10
  <2> QED BY <2>1, <1>11 DEF EpisodeSet
<1>13. IsCorrection(T0[c]) /\ x = Closure(T0, ps, c)
  BY <1>7, <1>10, <1>11 DEF EpisodesRight
<1>14. IsCorrection(T[c]) /\ c \in 1 .. n
  BY <1>3, <1>8, <1>12, <1>13 DEF IsCorrection
<1>15. PICK j \in 1 .. Len(fs) : fs[j].turn = c
  BY <1>3, <1>7, <1>14 DEF EpisodesRight
<1>16. fs[j].closed = Closure(T, qs, c)
  BY <1>7, <1>15 DEF EpisodesRight
<1>17. \A y \in 1 .. m : Closes(T, qs[y], c) <=> Closes(T0, ps[y], c)
  <2> SUFFICES ASSUME NEW y \in 1 .. m
               PROVE  Closes(T, qs[y], c) <=> Closes(T0, ps[y], c)
    OBVIOUS
  <2>1. PICK ex \in (1 .. n0) \X (1 .. n0) : ex = ps[y] /\ ex = qs[y]
    BY <1>4, <1>5
  <2>2. ex[1] \in 1 .. n0 /\ ex[2] \in 1 .. n0
    OBVIOUS
  <2>3. HumanTurn(T, ex) = HumanTurn(T0, ex) /\ HumanTurn(T0, ex) \in 1 .. n0
    BY <2>2, <1>8 DEF HumanTurn
  <2> QED BY <2>1, <2>3, <1>8 DEF Closes
<1>18. Closure(T, qs, c) = x
  <2>1. PICK z : z = Closure(T, qs, c)
    OBVIOUS
  <2>2. /\ z \in 0 .. k /\ (z # 0 => Closes(T, qs[z], c))
        /\ \A y \in 1 .. k : Closes(T, qs[y], c) => z # 0 /\ z <= y
    BY <2>1, <1>4, ClosureGood
  <2>3. /\ Closes(T0, ps[x], c)
        /\ \A y \in 1 .. m : Closes(T0, ps[y], c) => x <= y
    <3>1. Len(ps) \in Nat
      BY <1>4
    <3>2. /\ x # 0 => Closes(T0, ps[x], c)
          /\ \A y \in 1 .. Len(ps) : Closes(T0, ps[y], c) => x # 0 /\ x <= y
      BY <3>1, <1>13, ClosureGood
    <3> QED BY <3>2, <1>4, <1>12
  <2>4. z # 0 /\ z <= x
    <3>1. x \in 1 .. k /\ Closes(T, qs[x], c)
      BY <2>3, <1>5, <1>12, <1>17
    <3> QED BY <3>1, <2>2
  <2>5. z \in 1 .. m /\ Closes(T0, ps[z], c)
    BY <2>2, <2>4, <1>12, <1>17
  <2> QED BY <2>1, <2>3, <2>4, <2>5, <1>12
<1>19. fs[j] = [turn |-> c, closed |-> x]
  <2>1. fs[j] \in EpisodeSet(n, k)
    BY <1>9
  <2> QED BY <2>1, <1>15, <1>16, <1>18 DEF EpisodeSet
<1> QED BY <1>9, <1>12, <1>19 DEF ToSet

LEMMA GrowsWhen ==
    ASSUME NEW p, IsProposal(p), NEW q, IsProposal(q), Extends(p.turns, q.turns)
    PROVE  Grows(p, q)
<1>1. PICK T0 \in Seq(TurnSet), T \in Seq(TurnSet) : T0 = p.turns /\ T = q.turns
  BY DEF IsProposal
<1>2. PICK n0 \in Nat, n \in Nat :
         n0 = Len(T0) /\ n = Len(T) /\ n0 <= n /\ DOMAIN T0 = 1 .. n0
  BY <1>1 DEF Extends
<1>3. ASSUME NEW i \in 1 .. n0
      PROVE  LET t == T0[i]
                 u == T[i]
             IN  /\ [u EXCEPT !.refs = t.refs, !.visible = t.visible] = t
                 /\ IsPrefix(t.refs, u.refs) /\ (t.visible => u.visible)
  <2>1. PICK t \in TurnSet, u \in TurnSet : t = T0[i] /\ u = T[i]
    BY <1>2
  <2>2. SameTurn(u, t) /\ RefsGrow(t.refs, u.refs) /\ (t.visible => u.visible)
    BY <2>1, <1>1, <1>2 DEF Extends
  <2>3. [u EXCEPT !.refs = t.refs, !.visible = t.visible] = t
    BY <2>2, TurnKept
  <2>4. IsPrefix(t.refs, u.refs)
    <3>1. PICK F : F = Nat \X Nat
      OBVIOUS
    <3>2. t.refs \in Seq(F) /\ u.refs \in Seq(F)
      BY <3>1, TurnFields
    <3>3. Len(t.refs) <= Len(u.refs) /\ \A x \in 1 .. Len(t.refs) : u.refs[x] = t.refs[x]
      BY <2>2 DEF RefsGrow
    <3> QED BY <3>2, <3>3, PrefixWhen
  <2> QED BY <2>1, <2>2, <2>3, <2>4
<1>4. PICK ps, qs : ps = p.exchanges /\ qs = q.exchanges
  OBVIOUS
<1>5. ps \in Seq((1 .. n0) \X (1 .. n0)) /\ qs \in Seq((1 .. n) \X (1 .. n))
  <2>1. Typed(p) /\ Typed(q)
    BY ProposalSound
  <2> QED BY <2>1, <1>1, <1>2, <1>4 DEF Typed
<1>6. Len(ps) <= Len(qs) /\ \A x \in 1 .. Len(ps) : qs[x] = ps[x]
  BY <1>1, <1>4, ExchangesGrow DEF IsProposal
<1>7. IsPrefix(ps, qs)
  <2>1. PICK S, S0 : S = (1 .. n) \X (1 .. n) /\ S0 = (1 .. n0) \X (1 .. n0)
    OBVIOUS
  <2>2. S0 \subseteq S
    BY <2>1, <1>2
  <2>3. ps \in Seq(S0) /\ qs \in Seq(S)
    BY <2>1, <1>5
  <2>4. \A x \in 1 .. Len(ps) : ps[x] \in S
    BY <2>2, <2>3
  <2>5. ps \in Seq(S)
    BY <2>3, <2>4, Narrowed
  <2> QED BY <2>3, <2>5, <1>6, PrefixWhen
<1>8. IsPrefix(p.windows, q.windows)
  <2>1. Len(ps) \in Nat /\ Len(qs) \in Nat
    BY <1>5
  <2>2. IsPrefix(Windows(Len(ps)), Windows(Len(qs)))
    BY <2>1, <1>6, WindowsGrow
  <2> QED BY <2>2, <1>4 DEF IsProposal
<1>9. \A e \in ToSet(p.episodes) : e.closed # 0 => e \in ToSet(q.episodes)
  BY EpisodesGrow
<1>10. \A i \in DOMAIN p.turns :
          LET t == p.turns[i]
              u == q.turns[i]
          IN  /\ [u EXCEPT !.refs = t.refs, !.visible = t.visible] = t
              /\ IsPrefix(t.refs, u.refs) /\ (t.visible => u.visible)
  BY <1>1, <1>2, <1>3
<1>11. Len(p.turns) <= Len(q.turns) /\ IsPrefix(p.exchanges, q.exchanges)
  BY <1>1, <1>2, <1>4, <1>7
<1> QED BY <1>8, <1>9, <1>10, <1>11, Zenon DEF Grows

-----------------------------------------------------------------------------
(* A session one run or one receipt earlier.                               *)

\* Only the runs that are told matter.
LEMMA TranscriptSame ==
    ASSUME NEW R \in Seq(RunSet), NEW Q \in Seq(RunSet), NEW m \in Nat, m <= Len(R), m <= Len(Q),
           \A k \in 1 .. m : Q[k] = R[k]
    PROVE  Transcript(Q, m) = Transcript(R, m)
<1>1. PICK n \in Nat, l \in Nat : n = Len(R) /\ l = Len(Q) /\ m <= n /\ m <= l
  OBVIOUS
<1>2. /\ Transcript(R, 0) = <<>>
      /\ \A k \in 1 .. n : Transcript(R, k) = AddRun(Transcript(R, k - 1), R[k])
  BY <1>1, TranscriptTyped
<1>3. /\ Transcript(Q, 0) = <<>>
      /\ \A k \in 1 .. l : Transcript(Q, k) = AddRun(Transcript(Q, k - 1), Q[k])
  BY <1>1, TranscriptTyped
<1> DEFINE Bad == {k \in 0 .. m : Transcript(Q, k) # Transcript(R, k)}
<1>4. Bad = {}
  <2> SUFFICES ASSUME Bad # {} PROVE FALSE
    OBVIOUS
  <2>1. PICK k \in Bad : \A j \in Bad : k <= j
    <3>1. Bad \in SUBSET Nat
      OBVIOUS
    <3> HIDE DEF Bad
    <3> QED BY <3>1, Least
  <2>2. k # 0
    BY <2>1, <1>2, <1>3
  <2>3. k \in 1 .. m /\ k \in 1 .. n /\ k \in 1 .. l /\ k - 1 \in 0 .. m /\ k - 1 \notin Bad
    BY <2>1, <2>2, <1>1
  <2>4. Transcript(Q, k - 1) = Transcript(R, k - 1) /\ Q[k] = R[k]
    BY <2>3
  <2> QED BY <2>1, <2>3, <2>4, <1>2, <1>3
<1>5. m \in 0 .. m
  OBVIOUS
<1> QED BY <1>4, <1>5

\* Only the frames that are told matter.
LEMMA ToldSame ==
    ASSUME NEW run \in RunSet, NEW q \in RunSet, Explicit(run), Explicit(q),
           q.id = run.id, q.group = run.group, NEW T \in Seq(TurnSet),
           NEW m \in Nat, m <= Len(run.frames), m <= Len(q.frames),
           \A k \in 1 .. m : q.frames[k] = run.frames[k]
    PROVE  Told(q, T, m) = Told(run, T, m)
<1>1. PICK n \in Nat, l \in Nat :
         n = Len(run.frames) /\ l = Len(q.frames) /\ m <= n /\ m <= l
  BY RunFields
<1>2. /\ Told(run, T, 0) = T
      /\ \A k \in 1 .. n : Told(run, T, k) = Tell(run, Told(run, T, k - 1), k)
  BY <1>1, AddRunTyped
<1>3. /\ Told(q, T, 0) = T
      /\ \A k \in 1 .. l : Told(q, T, k) = Tell(q, Told(q, T, k - 1), k)
  BY <1>1, AddRunTyped
<1>4. ASSUME NEW k \in 1 .. m PROVE \A U : Tell(q, U, k) = Tell(run, U, k)
  <2>1. q.frames[k] = run.frames[k]
    OBVIOUS
  <2>2. EventTurn(q, k) = EventTurn(run, k)
    BY <2>1, Zenon DEF EventTurn, Turn
  <2> QED BY <2>1, <2>2, Zenon DEF Tell
<1> DEFINE Bad == {k \in 0 .. m : Told(q, T, k) # Told(run, T, k)}
<1>5. Bad = {}
  <2> SUFFICES ASSUME Bad # {} PROVE FALSE
    OBVIOUS
  <2>1. PICK k \in Bad : \A j \in Bad : k <= j
    <3>1. Bad \in SUBSET Nat
      OBVIOUS
    <3> HIDE DEF Bad
    <3> QED BY <3>1, Least
  <2>2. k # 0
    BY <2>1, <1>2, <1>3
  <2>3. k \in 1 .. m /\ k \in 1 .. n /\ k \in 1 .. l /\ k - 1 \in 0 .. m /\ k - 1 \notin Bad
    BY <2>1, <2>2, <1>1
  <2>4. Told(q, T, k - 1) = Told(run, T, k - 1)
    BY <2>3
  <2> QED BY <2>1, <2>3, <2>4, <1>2, <1>3, <1>4
<1>6. m \in 0 .. m
  OBVIOUS
<1> QED BY <1>5, <1>6

\* All but the last.
LEMMA ThoseFirst ==
    ASSUME NEW A, NEW s \in Seq(A), NEW m \in Nat, m + 1 = Len(s)
    PROVE  /\ Those(s, 1 .. m) \in Seq(A) /\ Len(Those(s, 1 .. m)) = m
           /\ \A i \in 1 .. m : Those(s, 1 .. m)[i] = s[i]
<1>1. PICK r, x : r = SubSeq(s, 1, m) /\ x = s[m + 1]
  OBVIOUS
<1>2. r \in Seq(A) /\ Len(r) = m /\ x \in A /\ \A i \in 1 .. m : r[i] = s[i]
  BY <1>1
<1>3. s = Append(r, x)
  <2>1. PICK t \in Seq(A) : t = Append(r, x)
    <3>1. Append(r, x) \in Seq(A)
      BY <1>2
    <3> QED BY <3>1
  <2>2. Len(t) = m + 1 /\ t[m + 1] = x /\ \A i \in 1 .. m : t[i] = r[i]
    BY <2>1, <1>2, Grown
  <2>3. \A i \in 1 .. m + 1 : i \in 1 .. m \/ i = m + 1
    OBVIOUS
  <2>4. \A i \in 1 .. m + 1 : t[i] = s[i]
    BY <2>2, <2>3, <1>1, <1>2
  <2>5. s = t
    BY <2>2, <2>4, SeqEqual
  <2> QED BY <2>1, <2>5
<1>4. Those(s, 1 .. m) = r
  <2>1. PICK S : S = 1 .. m
    OBVIOUS
  <2>2. r \in Seq(A) /\ x \in A /\ S \in SUBSET (1 .. Len(r))
    BY <2>1, <1>2
  <2>3. Those(Append(r, x), S) = Those(r, S)
    BY <2>2, SelectedOnward, ZenonT(40)
  <2>4. Those(r, 1 .. m) = r
    BY <1>2, SelectedAll
  <2> QED BY <2>1, <2>3, <2>4, <1>3
<1> QED BY <1>2, <1>4


LEMMA ProlongsExtends ==
    ASSUME NEW T0, NEW T, Prolongs(T0, T)
    PROVE  Extends(T0, T)
<1>1. Looks(T, T0, Len(T0))
  BY DEF Prolongs, SameTurn, Looks
<1> QED BY <1>1 DEF Prolongs, Extends

LEMMA FrontOfAppend ==
    ASSUME NEW S, NEW R \in Seq(S), NEW r \in S
    PROVE  Front(Append(R, r)) = R /\ Len(Append(R, r)) # 0
<1>1. PICK n \in Nat : n = Len(R)
  OBVIOUS
<1>2. PICK Q : Q = Append(R, r)
  OBVIOUS
<1>3. Q \in Seq(S) /\ Len(Q) = n + 1 /\ \A k \in 1 .. n : Q[k] = R[k]
  BY <1>1, <1>2
<1>4. (n + 1) - 1 = n
  OBVIOUS
<1>5. Front(Q) = SubSeq(Q, 1, n)
  BY <1>3, <1>4 DEF Front
<1>6. SubSeq(Q, 1, n) = R
  BY <1>1, <1>3
<1> QED BY <1>2, <1>3, <1>5, <1>6

\* Without its last run the session told what it tells now of the others.
LEMMA EarlierRun ==
    ASSUME NEW R, RunsOK(R), Len(R) # 0
    PROVE  /\ Grows(Project(OrderRuns(Front(R))), Project(OrderRuns(R)))
           /\ Extends(Project(OrderRuns(Front(R))).turns, Project(OrderRuns(R)).turns)
<1>1. PICK n \in Nat \ {0} : n = Len(R) /\ R \in Seq(RunSet)
  BY DEF RunsOK
<1>2. PICK k \in Nat : k = n - 1 /\ k + 1 = n /\ k \in 0 .. n /\ k <= n
  <2>1. n - 1 \in Nat /\ (n - 1) + 1 = n /\ n - 1 \in 0 .. n
    BY <1>1
  <2> QED BY <2>1
<1>3. PICK Q : Q = Front(R)
  OBVIOUS
<1>4. Q = SubSeq(R, 1, k)
  BY <1>1, <1>2, <1>3 DEF Front
<1>5. Q \in Seq(RunSet) /\ Len(Q) = k /\ \A i \in 1 .. k : Q[i] = R[i]
  BY <1>1, <1>2, <1>4
<1>6. RunsOK(Q)
  <2>1. ASSUME NEW i \in 1 .. k PROVE RunOK(Q, i)
    <3>1. i \in Nat \ {0} /\ i \in 1 .. n /\ \A l \in 1 .. i : l \in 1 .. k
      BY <1>2
    <3>2. RunOK(R, i)
      BY <3>1, <1>1 DEF RunsOK
    <3>3. \A l \in 1 .. i : Q[l] = R[l]
      BY <3>1, <1>5
    <3> QED BY <3>1, <3>2, <3>3, RunStill
  <2> QED BY <2>1, <1>5 DEF RunsOK
<1>7. PICK T0, T : T0 = Transcript(R, k) /\ T = Transcript(R, n)
  OBVIOUS
<1>8. T = AddRun(T0, R[n])
  <2>1. \A i \in 1 .. n : Transcript(R, i) = AddRun(Transcript(R, i - 1), R[i])
    BY <1>1, TranscriptTyped
  <2>2. n \in 1 .. n /\ n - 1 = k
    BY <1>2
  <2> QED BY <2>1, <2>2, <1>7
<1>9. Adds(R[n], T0, T)
  <2>1. Standing(R, k, T0)
    BY <1>1, <1>2, <1>7, StandingHolds
  <2>2. k + 1 \in 1 .. Len(R)
    BY <1>1, <1>2
  <2>3. Adds(R[k + 1], T0, AddRun(T0, R[k + 1]))
    BY <2>1, <2>2, StandingNext
  <2> QED BY <2>3, <1>2, <1>8
<1>10. Extends(T0, T)
  BY <1>9, ProlongsExtends DEF Adds, Lines
<1>11. PICK p, q : p = Project(Q) /\ q = Project(R)
  OBVIOUS
<1>12. IsProposal(p) /\ IsProposal(q) /\ p.turns = Transcript(Q, k) /\ q.turns = T
  BY <1>1, <1>5, <1>6, <1>7, <1>11, Projects
<1>13. Transcript(Q, k) = T0
  BY <1>1, <1>2, <1>5, <1>7, TranscriptSame
<1>14. Grows(p, q) /\ Extends(p.turns, q.turns)
  BY <1>10, <1>12, <1>13, GrowsWhen
<1>15. OrderRuns(Q) = Q /\ OrderRuns(R) = R
  BY <1>6, RunsInOrder
<1> QED BY <1>3, <1>11, <1>14, <1>15


\* So it is when its last turn becomes visible.
LEMMA SeenExtends ==
    ASSUME NEW T \in Seq(TurnSet), NEW U, NEW n \in Nat, n = Len(T),
           Revised(T, U, n, T[n].refs, TRUE), ~T[n].visible
    PROVE  Extends(T, U)
<1>1. /\ U \in Seq(TurnSet) /\ Len(U) = n /\ n \in 1 .. n /\ \A j \in 1 .. n : j # n => U[j] = T[j]
      /\ SameTurn(U[n], T[n]) /\ U[n].refs = T[n].refs /\ U[n].visible
  BY DEF Revised
<1>2. \A r : Len(r) <= Len(r) => RefsGrow(r, r)
  BY DEF RefsGrow
<1>3. ASSUME NEW j \in 1 .. n
      PROVE  /\ SameTurn(U[j], T[j]) /\ RefsGrow(T[j].refs, U[j].refs)
             /\ T[j].visible => U[j].visible
  <2>1. SameTurn(U[j], T[j]) /\ U[j].refs = T[j].refs /\ (T[j].visible => U[j].visible)
    <3>1. CASE j = n
      BY <3>1, <1>1
    <3>2. CASE j # n
      BY <3>2, <1>1 DEF SameTurn
    <3> QED BY <3>1, <3>2
  <2>2. RefsGrow(T[j].refs, T[j].refs)
    <3>1. PICK r \in Seq(Nat \X Nat) : r = T[j].refs
      BY TurnFields
    <3>2. Len(r) \in Nat
      BY <3>1
    <3> QED BY <3>1, <3>2, <1>2
  <2> QED BY <2>1, <2>2
<1>4. Looks(U, T, n - 1)
  <2>1. \A j \in 1 .. n - 1 : j \in 1 .. n /\ j # n
    BY <1>1
  <2> QED BY <2>1, <1>1 DEF Looks
<1> QED BY <1>1, <1>3, <1>4 DEF Extends

\* A run before its answer was confirmed.
Unconfirmed(run) == [run EXCEPT !.frames = Those(@, {i \in DOMAIN @ : ~Delivers(@[i])})]

LEMMA NoReceipt ==
    ASSUME NEW run \in RunSet, ~DeliveredIn(run)
    PROVE  Unconfirmed(run) = run
<1>1. PICK n \in Nat, fs \in Seq(FrameSet) :
         fs = run.frames /\ n = Len(fs) /\ DOMAIN fs = 1 .. n
  BY RunFields
<1>2. PICK S : S = {i \in DOMAIN fs : ~Delivers(fs[i])}
  OBVIOUS
<1>3. S = 1 .. n
  BY <1>1, <1>2 DEF DeliveredIn
<1>4. Those(fs, S) = fs
  BY <1>1, <1>3, SelectedAll
<1>5. Unconfirmed(run) = [run EXCEPT !.frames = fs]
  BY <1>1, <1>2, <1>4 DEF Unconfirmed
<1>6. PICK F : F = Seq(FrameSet)
  OBVIOUS
<1> QED BY <1>1, <1>5, <1>6 DEF RunSet

\* The receipt is the last frame of a run that was over without it.
LEMMA ReceiptLast ==
    ASSUME NEW run \in RunSet, FramesOK(run), DeliveredIn(run)
    PROVE  \E m \in Nat : \E L :
              /\ m + 1 = Len(run.frames)
              /\ Labelled(run.frames, L, run.role, run.kind = "retry") /\ L[m + 1] = "closed"
              /\ Shows(run.frames, m + 1, "closed", "shown")
              /\ \A k \in 1 .. m : ~Delivers(run.frames[k])
              /\ Delivers(run.frames[m + 1])
<1>1. PICK n \in Nat : n = Len(run.frames) /\ DOMAIN run.frames = 1 .. n /\ run.role \in HumanInput
  BY RunFields
<1>2. PICK d \in 1 .. n : Delivers(run.frames[d])
  BY <1>1 DEF DeliveredIn
<1>3. run.kind # "legacy"
  <2>1. ASSUME LegacyFrames(run.frames) PROVE FALSE
    BY <2>1, <1>1, <1>2, LegacySilent DEF Delivers
  <2> QED BY <2>1 DEF FramesOK
<1>4. PICK b \in Final : Reaches(run.frames, b, run.role, run.kind = "retry")
  BY <1>3 DEF FramesOK
<1>5. PICK L : Labelled(run.frames, L, run.role, run.kind = "retry") /\ L[n + 1] = b
  BY <1>1, <1>4 DEF Reaches
<1>6. DeliverySo(run.frames, n, b)
  BY <1>1, <1>4, ReachesHistory DEF History
<1>7. b = "shown" /\ Delivers(run.frames[n]) /\ \A k \in 1 .. n - 1 : ~Delivers(run.frames[k])
  BY <1>2, <1>6 DEF DeliverySo
<1>8. PICK m \in Nat : m + 1 = n /\ m = n - 1
  <2>1. n - 1 \in Nat /\ (n - 1) + 1 = n
    BY <1>2
  <2> QED BY <2>1
<1>9. n \in 1 .. n /\ n \in Nat \ {0}
  BY <1>2
<1>10. Follows(run.frames, n, L[n], "shown", run.role, run.kind = "retry")
  BY <1>1, <1>5, <1>7, <1>9 DEF Labelled
<1>11. L[n] = "closed"
  <2>1. PICK fs, a, role :
           fs = run.frames /\ a = L[n] /\ role = run.role /\ role \in HumanInput
    BY <1>1
  <2>2. Follows(fs, n, a, "shown", role, run.kind = "retry")
    BY <1>10, <2>1
  <2>3. a = "closed"
    BY <2>1, <2>2, <1>9, StepFeatures, ZenonT(60)
  <2> QED BY <2>1, <2>3
<1>12. Shows(run.frames, n, "closed", "shown")
  <2>1. ~Quietly(run.frames[n], "closed", "shown", run.kind = "retry")
    BY DEF Quietly
  <2>2. ~Asks(run.frames[n], "closed", "shown") /\ ~Decides(run.frames[n], "closed", "shown")
    BY DEF Asks, Decides
  <2>3. ~Listens(run.frames[n], n, "closed", "shown", run.role)
    BY DEF Listens
  <2>4. ~Answers(run.frames[n], n, "closed", "shown")
    BY DEF Answers
  <2> QED BY <2>1, <2>2, <2>3, <2>4, <1>10, <1>11 DEF Follows
<1> QED BY <1>1, <1>5, <1>7, <1>8, <1>11, <1>12


LEMMA UnconfirmedIs ==
    ASSUME NEW run \in RunSet, NEW m \in Nat, m + 1 = Len(run.frames),
           \A k \in 1 .. m : ~Delivers(run.frames[k]), Delivers(run.frames[m + 1])
    PROVE  /\ Unconfirmed(run) \in RunSet /\ SameButFrames(Unconfirmed(run), run)
           /\ Len(Unconfirmed(run).frames) = m
           /\ \A k \in 1 .. m : Unconfirmed(run).frames[k] = run.frames[k]
<1>1. PICK fs \in Seq(FrameSet) : fs = run.frames /\ Len(fs) = m + 1 /\ DOMAIN fs = 1 .. m + 1
  BY RunFields
<1>2. PICK S : S = {i \in DOMAIN fs : ~Delivers(fs[i])}
  OBVIOUS
<1>3. S = 1 .. m
  BY <1>1, <1>2
<1>4. PICK gs \in Seq(FrameSet) : /\ gs = Those(fs, S) /\ Len(gs) = m
                                  /\ \A k \in 1 .. m : gs[k] = fs[k]
  <2>1. /\ Those(fs, 1 .. m) \in Seq(FrameSet) /\ Len(Those(fs, 1 .. m)) = m
        /\ \A k \in 1 .. m : Those(fs, 1 .. m)[k] = fs[k]
    BY <1>1, ThoseFirst
  <2> QED BY <2>1, <1>3
<1>5. PICK q : q = [run EXCEPT !.frames = gs]
  OBVIOUS
<1>6. /\ q \in RunSet /\ q.frames = gs /\ q.id = run.id /\ q.group = run.group
      /\ q.kind = run.kind /\ q.role = run.role /\ q.at = run.at
  BY <1>5, RunChanged
<1>7. Unconfirmed(run) = q
  BY <1>1, <1>2, <1>4, <1>5 DEF Unconfirmed
<1> QED BY <1>1, <1>4, <1>6, <1>7 DEF SameButFrames

\* It was a run that was over.
LEMMA UnconfirmedReaches ==
    ASSUME NEW run \in RunSet, NEW q \in RunSet, NEW m \in Nat, m + 1 = Len(run.frames),
           m = Len(q.frames), \A k \in 1 .. m : q.frames[k] = run.frames[k],
           NEW role, NEW retry, NEW L, Labelled(run.frames, L, role, retry), L[m + 1] = "closed"
    PROVE  Reaches(q.frames, "closed", role, retry)
<1>1. PICK fs \in Seq(FrameSet), gs \in Seq(FrameSet) :
         fs = run.frames /\ gs = q.frames /\ Len(fs) = m + 1 /\ Len(gs) = m
  BY RunFields
<1>2. \A k \in 1 .. m : fs[k] = gs[k]
  BY <1>1
<1>3. /\ L \in Seq(Labels) /\ Len(L) = m + 2 /\ L[1] = "start"
      /\ \A i \in 1 .. m + 1 : Follows(fs, i, L[i], L[i + 1], role, retry)
  BY <1>1 DEF Labelled
<1>4. PICK M : M = SubSeq(L, 1, m + 1)
  OBVIOUS
<1>5. M \in Seq(Labels) /\ Len(M) = m + 1 /\ \A i \in 1 .. m + 1 : M[i] = L[i]
  BY <1>3, <1>4
<1>6. ASSUME NEW i \in 1 .. m PROVE Follows(gs, i, M[i], M[i + 1], role, retry)
  <2>1. i \in 1 .. m + 1 /\ i + 1 \in 1 .. m + 1
    OBVIOUS
  <2>2. M[i] = L[i] /\ M[i + 1] = L[i + 1]
    BY <2>1, <1>5
  <2>3. Follows(fs, i, L[i], L[i + 1], role, retry)
    BY <2>1, <1>3
  <2>4. Follows(gs, i, L[i], L[i + 1], role, retry)
    BY <2>3, <1>2, FollowsStill
  <2> QED BY <2>2, <2>4
<1>7. M[1] = "start" /\ M[m + 1] = "closed"
  <2>1. 1 \in 1 .. m + 1 /\ m + 1 \in 1 .. m + 1
    OBVIOUS
  <2> QED BY <2>1, <1>3, <1>5
<1>8. Labelled(gs, M, role, retry)
  BY <1>1, <1>5, <1>6, <1>7 DEF Labelled
<1> QED BY <1>1, <1>7, <1>8 DEF Reaches

\* A receipt adds no turn: it shows the answer, which nobody had seen.
LEMMA ReceiptExtends ==
    ASSUME NEW run \in RunSet, FramesOK(run), DeliveredIn(run), NEW T0, Enters(run, T0)
    PROVE  /\ FramesOK(Unconfirmed(run))
           /\ Extends(AddRun(T0, Unconfirmed(run)), AddRun(T0, run))
<1>0. PICK m \in Nat : \E L :
              /\ m + 1 = Len(run.frames)
              /\ Labelled(run.frames, L, run.role, run.kind = "retry") /\ L[m + 1] = "closed"
              /\ Shows(run.frames, m + 1, "closed", "shown")
              /\ \A k \in 1 .. m : ~Delivers(run.frames[k])
              /\ Delivers(run.frames[m + 1])
  BY ReceiptLast
<1>1. PICK L :
              /\ m + 1 = Len(run.frames)
              /\ Labelled(run.frames, L, run.role, run.kind = "retry") /\ L[m + 1] = "closed"
              /\ Shows(run.frames, m + 1, "closed", "shown")
              /\ \A k \in 1 .. m : ~Delivers(run.frames[k])
              /\ Delivers(run.frames[m + 1])
  BY <1>0
<1>2. PICK q \in RunSet :
         /\ q = Unconfirmed(run) /\ SameButFrames(q, run) /\ Len(q.frames) = m
         /\ \A k \in 1 .. m : q.frames[k] = run.frames[k]
  BY <1>1, UnconfirmedIs
<1>3. PICK n \in Nat \ {0} : /\ n = m + 1 /\ n = Len(run.frames) /\ n \in 1 .. n /\ n - 1 = m
                             /\ DOMAIN run.frames = 1 .. n /\ DOMAIN q.frames = 1 .. m
                             /\ m \in 0 .. n /\ m \in 0 .. m /\ run.role \in HumanInput
  <2>1. /\ m + 1 \in Nat \ {0} /\ m + 1 \in 1 .. m + 1 /\ (m + 1) - 1 = m
        /\ m \in 0 .. m + 1 /\ m \in 0 .. m
    OBVIOUS
  <2> QED BY <2>1, <1>1, <1>2, RunFields
<1>4. Reaches(q.frames, "closed", run.role, run.kind = "retry")
  BY <1>1, <1>2, UnconfirmedReaches
<1>5. run.kind # "legacy"
  <2>1. ASSUME LegacyFrames(run.frames) PROVE FALSE
    BY <2>1, <1>1, <1>3, LegacySilent DEF Delivers
  <2> QED BY <2>1 DEF FramesOK
<1>6. FramesOK(q)
  BY <1>2, <1>4, <1>5 DEF FramesOK, SameButFrames, Final
<1>7. History(run.frames, m, "closed", run.role)
  <2>1. \A i \in 0 .. n : History(run.frames, i, L[i + 1], run.role)
    BY <1>1, <1>3, HistoryHolds
  <2> QED BY <2>1, <1>1, <1>3
<1>8. Explicit(run) /\ Explicit(q)
  <2>1. PICK c \in 1 .. m : Boundary(run.frames[c])
    BY <1>7 DEF History, CrossingSo
  <2>2. c \in 1 .. n /\ q.frames[c] = run.frames[c]
    BY <2>1, <1>2, <1>3
  <2> QED BY <2>1, <2>2, <1>3 DEF Explicit, Boundary
<1>9. T0 \in Seq(TurnSet)
  BY DEF Enters
<1>10. PICK U \in Seq(TurnSet) : U = Told(run, T0, m)
  BY <1>3, <1>9, AddRunTyped
<1>11. Told(q, T0, m) = U
  <2>1. m <= Len(run.frames) /\ m <= Len(q.frames)
    BY <1>2, <1>3
  <2> QED BY <2>1, <1>2, <1>8, <1>9, <1>10, ToldSame DEF SameButFrames
<1>12. AddRun(T0, q) = U
  <2>1. AddRun(T0, q) = Told(q, T0, m) \o <<>>
    BY <1>2, <1>8 DEF AddRun
  <2> QED BY <2>1, <1>10, <1>11, NothingMore
<1>13. PICK V \in Seq(TurnSet) : V = Told(run, T0, n) /\ V = Tell(run, U, n)
  <2>1. n \in 0 .. n
    BY <1>3
  <2>2. Told(run, T0, n) \in Seq(TurnSet)
    BY <2>1, <1>3, <1>9, AddRunTyped
  <2>3. Told(run, T0, n) = Tell(run, Told(run, T0, n - 1), n)
    <3>1. \A k \in 1 .. Len(run.frames) : Told(run, T0, k) = Tell(run, Told(run, T0, k - 1), k)
      BY <1>9, AddRunTyped, Zenon
    <3>2. n \in 1 .. Len(run.frames)
      BY <1>3
    <3> QED BY <3>1, <3>2, Zenon
  <2> QED BY <2>2, <2>3, <1>3, <1>10
<1>14. AddRun(T0, run) = V
  <2>1. AddRun(T0, run) = Told(run, T0, n) \o <<>>
    BY <1>3, <1>8 DEF AddRun
  <2> QED BY <2>1, <1>13, NothingMore
<1>15. Ledger(run, T0, U, m, "closed")
  <2>1. \A i \in 0 .. n : Ledger(run, T0, Told(run, T0, i), i, L[i + 1])
    BY <1>1, <1>3, <1>8, LedgerAlong
  <2> QED BY <2>1, <1>1, <1>3, <1>10
<1>16. /\ Revised(U, V, Len(U), U[Len(U)].refs, TRUE) /\ ~U[Len(U)].visible
  <2>1. ReleaseSo(run.frames, n - 1, "closed") /\ Ledger(run, T0, U, n - 1, "closed")
    BY <1>3, <1>7, <1>15 DEF History
  <2>2. n \in 1 .. Len(run.frames) /\ Shows(run.frames, n, "closed", "shown")
    BY <1>1, <1>3
  <2> QED BY <2>1, <2>2, <1>8, <1>13, ReceiptShows
<1>17. Extends(U, V)
  <2>1. Len(U) \in Nat
    BY <1>10
  <2> QED BY <2>1, <1>10, <1>16, SeenExtends
<1> QED BY <1>2, <1>6, <1>12, <1>14, <1>17


\* Without its last receipt.
LEMMA EarlierReceipt ==
    ASSUME NEW R, RunsOK(R), NEW n \in Nat \ {0}, n = Len(R)
    PROVE  LET Q == [R EXCEPT ![n] = Unconfirmed(R[n])]
           IN  /\ Grows(Project(OrderRuns(Q)), Project(OrderRuns(R)))
               /\ Extends(Project(OrderRuns(Q)).turns, Project(OrderRuns(R)).turns)
<1>1. R \in Seq(RunSet) /\ DOMAIN R = 1 .. n /\ n \in 1 .. n
  BY DEF RunsOK
<1>2. PICK run \in RunSet : run = R[n] /\ FramesOK(run)
  BY <1>1 DEF RunsOK, RunOK
<1>3. PICK k \in Nat : k = n - 1 /\ k + 1 = n /\ k \in 0 .. n /\ k <= n
  <2>1. n - 1 \in Nat /\ (n - 1) + 1 = n /\ n - 1 \in 0 .. n
    OBVIOUS
  <2> QED BY <2>1
<1>4. PICK T0 \in Seq(TurnSet) : T0 = Transcript(R, k)
  BY <1>1, <1>3, TranscriptTyped
<1>5. Enters(run, T0)
  <2>1. Standing(R, k, T0)
    BY <1>3, <1>4, StandingHolds
  <2>2. k + 1 \in 1 .. Len(R)
    BY <1>1, <1>3
  <2>3. Enters(R[k + 1], T0)
    BY <2>1, <2>2, StandingNext
  <2> QED BY <2>3, <1>2, <1>3
<1>6. PICK q : q = Unconfirmed(run)
  OBVIOUS
<1>7. /\ q \in RunSet /\ SameButFrames(q, run) /\ FramesOK(q)
      /\ Extends(AddRun(T0, q), AddRun(T0, run))
  <2>1. CASE DeliveredIn(run)
    <3>1. FramesOK(q) /\ Extends(AddRun(T0, q), AddRun(T0, run))
      BY <2>1, <1>2, <1>5, <1>6, ReceiptExtends
    <3>2. PICK m \in Nat : /\ m + 1 = Len(run.frames)
                           /\ \A l \in 1 .. m : ~Delivers(run.frames[l])
                           /\ Delivers(run.frames[m + 1])
      BY <2>1, <1>2, ReceiptLast
    <3>3. q \in RunSet /\ SameButFrames(q, run)
      BY <3>2, <1>6, UnconfirmedIs
    <3> QED BY <3>1, <3>3
  <2>2. CASE ~DeliveredIn(run)
    <3>1. q = run
      BY <2>2, <1>6, NoReceipt
    <3>2. Adds(run, T0, AddRun(T0, run))
      BY <1>2, <1>5, EveryRunAdds
    <3>3. Prolongs(AddRun(T0, run), AddRun(T0, run))
      <4>1. PICK T \in Seq(TurnSet) : T = AddRun(T0, run)
        BY <1>4, AddRunTyped
      <4>2. PICK l \in Nat : l = Len(T)
        BY <4>1
      <4>3. \A r : Len(r) <= Len(r) => RefsGrow(r, r)
        BY DEF RefsGrow
      <4>4. ASSUME NEW j \in 1 .. l PROVE RefsGrow(T[j].refs, T[j].refs)
        <5>1. PICK r \in Seq(Nat \X Nat) : r = T[j].refs
          BY <4>1, <4>2, TurnFields
        <5>2. Len(r) \in Nat
          BY <5>1
        <5> QED BY <5>1, <5>2, <4>3
      <4> QED BY <4>1, <4>2, <4>4 DEF Prolongs, SameTurn
    <3>4. Extends(AddRun(T0, run), AddRun(T0, run))
      BY <3>3, ProlongsExtends
    <3> QED BY <3>1, <3>4, <1>2 DEF SameButFrames
  <2> QED BY <2>1, <2>2
<1>8. PICK Q : Q = [R EXCEPT ![n] = q]
  OBVIOUS
<1>9. RunsOK(Q)
  BY <1>2, <1>7, <1>8, RunsChange DEF SameButFrames
<1>10. Q \in Seq(RunSet) /\ Len(Q) = n /\ Q[n] = q /\ \A l \in 1 .. k : Q[l] = R[l]
  <2>1. \A l \in 1 .. k : l \in 1 .. n /\ l # n
    BY <1>3
  <2> QED BY <2>1, <1>1, <1>7, <1>8
<1>11. Transcript(Q, k) = T0
  BY <1>1, <1>3, <1>4, <1>10, TranscriptSame
<1>12. Transcript(Q, n) = AddRun(T0, q) /\ Transcript(R, n) = AddRun(T0, run)
  <2>1. \A i \in 1 .. n : /\ Transcript(R, i) = AddRun(Transcript(R, i - 1), R[i])
                          /\ Transcript(Q, i) = AddRun(Transcript(Q, i - 1), Q[i])
    BY <1>1, <1>10, TranscriptTyped
  <2>2. n - 1 = k
    BY <1>3
  <2> QED BY <2>1, <2>2, <1>1, <1>2, <1>4, <1>10, <1>11
<1>13. PICK p, r : p = Project(Q) /\ r = Project(R)
  OBVIOUS
<1>14. IsProposal(p) /\ IsProposal(r) /\ p.turns = AddRun(T0, q) /\ r.turns = AddRun(T0, run)
  BY <1>9, <1>10, <1>12, <1>13, Projects
<1>15. Grows(p, r) /\ Extends(p.turns, r.turns)
  BY <1>7, <1>14, GrowsWhen
<1>16. OrderRuns(Q) = Q /\ OrderRuns(R) = R
  BY <1>9, RunsInOrder
<1> QED BY <1>2, <1>6, <1>8, <1>13, <1>15, <1>16

LEMMA OnlyGrowsThen == SessionOK => TranscriptOnlyGrows
<1> SUFFICES ASSUME SessionOK, rater.pc = "idle", NEW runs \in Earlier
             PROVE  Grows(Project(OrderRuns(runs)), Projection)
  BY DEF TranscriptOnlyGrows
<1>1. PICK R : R = Runs
  OBVIOUS
<1>2. RunsOK(R) /\ Projection = Project(OrderRuns(R))
  BY <1>1, SessionStands DEF Projection
<1>3. PICK n \in Nat : n = Len(R) /\ R \in Seq(RunSet)
  BY <1>2 DEF RunsOK
<1>4. /\ n # 0
      /\ \/ runs = Front(R)
         \/ runs = [R EXCEPT ![n].frames = Those(@, {i \in DOMAIN @ : ~Delivers(@[i])})]
  BY <1>1, <1>3 DEF Earlier, Delivers
<1>5. CASE runs = Front(R)
  BY <1>2, <1>3, <1>4, <1>5, EarlierRun
<1>6. CASE runs = [R EXCEPT ![n].frames = Those(@, {i \in DOMAIN @ : ~Delivers(@[i])})]
  <2>1. runs = [R EXCEPT ![n] = Unconfirmed(R[n])]
    BY <1>6 DEF Unconfirmed
  <2> QED BY <2>1, <1>2, <1>3, <1>4, EarlierReceipt
<1> QED BY <1>4, <1>5, <1>6

\* Nothing that a session's transcript shows is taken back: neither a run more
\* nor a receipt moves a turn, takes a reference or an exchange away or opens
\* an episode that was closed (boundary.rs project, merge_turn).
THEOREM OnlyGrows == Spec => []TranscriptOnlyGrows
BY SessionHolds, OnlyGrowsThen, PTL

-----------------------------------------------------------------------------
(* What a rater has in hand while the session goes on.                     *)

\* The turns of T0 are the first of T, as they were or told by more frames.
Kept(T0, T) ==
    /\ Len(T0) <= Len(T)
    /\ \A j \in 1 .. Len(T0) : /\ SameTurn(T[j], T0[j]) /\ RefsGrow(T0[j].refs, T[j].refs)
                               /\ T0[j].visible => T[j].visible

LEMMA KeptAsIs ==
    ASSUME NEW T \in Seq(TurnSet)
    PROVE  Kept(T, T)
<1>1. PICK n \in Nat : n = Len(T)
  OBVIOUS
<1>2. ASSUME NEW j \in 1 .. n PROVE RefsGrow(T[j].refs, T[j].refs)
  <2>1. PICK r : r = T[j].refs
    OBVIOUS
  <2>2. Len(r) \in Nat
    <3>1. T[j] \in TurnSet
      BY <1>1
    <3> QED BY <2>1, <3>1, RefsCounted
  <2>3. RefsGrow(r, r)
    BY <2>2 DEF RefsGrow
  <2> QED BY <2>1, <2>3
<1> QED BY <1>1, <1>2 DEF Kept, SameTurn

LEMMA KeptOn ==
    ASSUME NEW T0 \in Seq(TurnSet), NEW T1 \in Seq(TurnSet), NEW T2 \in Seq(TurnSet),
           Kept(T0, T1), Kept(T1, T2)
    PROVE  Kept(T0, T2)
<1>1. PICK n0 \in Nat, n1 \in Nat, n2 \in Nat : n0 = Len(T0) /\ n1 = Len(T1) /\ n2 = Len(T2)
  OBVIOUS
<1>2. n0 <= n1 /\ n1 <= n2
  BY <1>1 DEF Kept
<1>3. ASSUME NEW j \in 1 .. n0
      PROVE  /\ SameTurn(T2[j], T0[j]) /\ RefsGrow(T0[j].refs, T2[j].refs)
             /\ T0[j].visible => T2[j].visible
  <2>1. j \in 1 .. n1 /\ j \in 1 .. n2
    BY <1>2
  <2>2. /\ SameTurn(T1[j], T0[j]) /\ RefsGrow(T0[j].refs, T1[j].refs)
        /\ T0[j].visible => T1[j].visible
    BY <1>1 DEF Kept
  <2>3. /\ SameTurn(T2[j], T1[j]) /\ RefsGrow(T1[j].refs, T2[j].refs)
        /\ T1[j].visible => T2[j].visible
    BY <1>1, <2>1 DEF Kept
  <2>4. PICK r0, r1, r2 : r0 = T0[j].refs /\ r1 = T1[j].refs /\ r2 = T2[j].refs
    OBVIOUS
  <2>5. Len(r0) \in Nat /\ Len(r1) \in Nat /\ Len(r2) \in Nat
    <3>1. T0[j] \in TurnSet /\ T1[j] \in TurnSet /\ T2[j] \in TurnSet
      BY <1>1, <2>1
    <3> QED BY <2>4, <3>1, RefsCounted
  <2>6. RefsGrow(r0, r2)
    <3>1. RefsGrow(r0, r1) /\ RefsGrow(r1, r2)
      BY <2>2, <2>3, <2>4
    <3>2. PICK l0 \in Nat, l1 \in Nat, l2 \in Nat : l0 = Len(r0) /\ l1 = Len(r1) /\ l2 = Len(r2)
      BY <2>5
    <3>3. l0 <= l1 /\ l1 <= l2
      BY <3>1, <3>2 DEF RefsGrow
    <3>4. ASSUME NEW m \in 1 .. l0 PROVE r2[m] = r0[m]
      <4>1. m \in 1 .. l1
        BY <3>3
      <4> QED BY <4>1, <3>1, <3>2 DEF RefsGrow
    <3> QED BY <3>2, <3>3, <3>4 DEF RefsGrow
  <2>7. SameTurn(T2[j], T0[j])
    BY <2>2, <2>3 DEF SameTurn
  <2> QED BY <2>2, <2>3, <2>4, <2>6, <2>7
<1> QED BY <1>1, <1>2, <1>3 DEF Kept

\* What the last receipt was written to is the session without it.
LEMMA ConfirmedEarlier ==
    ASSUME NEW R, NEW Q, RunsOK(R), RunsOK(Q), Confirmed(R, Q)
    PROVE  \E n \in Nat \ {0} : n = Len(Q) /\ R = [Q EXCEPT ![n] = Unconfirmed(Q[n])]
<1>1. PICK n \in Nat \ {0}, last \in RunSet, r \in RunSet, f \in FrameSet :
        /\ n = Len(R) /\ last = R[n] /\ Q = Changed(R, n, r)
        /\ r = [last EXCEPT !.frames = Append(last.frames, f)] /\ Delivers(f)
  BY DEF Confirmed
<1>2. R \in Seq(RunSet) /\ DOMAIN R = 1 .. n /\ n \in 1 .. n
  BY <1>1 DEF RunsOK
<1>3. Q = [R EXCEPT ![n] = r] /\ Len(Q) = n /\ Q[n] = r
  <2>1. Q = [R EXCEPT ![n] = r]
    BY <1>1 DEF Changed
  <2>2. PICK x \in RunSet : x = r
    OBVIOUS
  <2>3. Len([R EXCEPT ![n] = x]) = n /\ [R EXCEPT ![n] = x][n] = x
    BY <1>1, <1>2
  <2> QED BY <2>1, <2>2, <2>3
<1>4. FramesOK(r)
  BY <1>2, <1>3 DEF RunsOK, RunOK
<1>5. PICK gs \in Seq(FrameSet), m \in Nat : gs = last.frames /\ m = Len(gs)
  BY RunFields
<1>6. PICK fs : fs = Append(gs, f)
  OBVIOUS
<1>7. /\ r.frames = fs /\ fs \in Seq(FrameSet) /\ Len(fs) = m + 1
      /\ DOMAIN fs = 1 .. m + 1 /\ fs[m + 1] = f
  <2>1. r.frames = Append(last.frames, f)
    <3>1. last.frames \in Seq(FrameSet) /\ Append(last.frames, f) \in Seq(FrameSet)
      BY <1>5
    <3> QED BY <3>1, <1>1, RunChanged
  <2> QED BY <2>1, <1>5, <1>6
<1>8. DeliveredIn(r)
  <2>1. Delivers(fs[m + 1]) /\ m + 1 \in DOMAIN fs
    BY <1>1, <1>7
  <2> QED BY <2>1, <1>7 DEF DeliveredIn
<1>9. \A k \in 1 .. m : ~Delivers(fs[k])
  <2>1. PICK l \in Nat : l + 1 = Len(r.frames) /\ \A k \in 1 .. l : ~Delivers(r.frames[k])
    BY <1>4, <1>8, ReceiptLast
  <2>2. l = m
    BY <2>1, <1>7
  <2> QED BY <2>1, <2>2, <1>7
<1>10. {i \in DOMAIN fs : ~Delivers(fs[i])} = 1 .. m
  <2>1. Delivers(fs[m + 1])
    BY <1>1, <1>7
  <2> QED BY <2>1, <1>7, <1>9
<1>11. Those(fs, 1 .. m) = gs
  <2>1. Those(gs, 1 .. m) = gs
    BY <1>5, SelectedAll
  <2>2. 1 .. m \in SUBSET (1 .. Len(gs))
    BY <1>5
  <2>3. Those(Append(gs, f), 1 .. m) = Those(gs, 1 .. m)
    <3>1. PICK A, S : A = FrameSet /\ S = 1 .. m
      OBVIOUS
    <3>2. f \in A /\ gs \in Seq(A) /\ S \in SUBSET (1 .. Len(gs))
      BY <3>1, <2>2, <1>5
    <3>3. Those(Append(gs, f), S) = Those(gs, S)
      BY <3>2, SelectedOnward, ZenonT(40)
    <3> QED BY <3>1, <3>3
  <2> QED BY <2>1, <2>3, <1>6
<1>12. Unconfirmed(r) = [r EXCEPT !.frames = gs]
  BY <1>7, <1>10, <1>11 DEF Unconfirmed
<1>13. [r EXCEPT !.frames = gs] = last
  <2>1. PICK F : F = Seq(FrameSet)
    OBVIOUS
  <2>2. last \in [id : Nat, group : Nat, kind : {"legacy", "initial", "followup", "retry"},
                  role : HumanInput, attempt : Nat, at : Nat, path : Int, frames : F]
    BY <2>1 DEF RunSet
  <2>3. PICK hs : hs = Append(last.frames, f)
    OBVIOUS
  <2>4. r = [last EXCEPT !.frames = hs]
    BY <2>3, <1>1
  <2> QED BY <2>2, <2>4, <1>5
<1>14. R = [Q EXCEPT ![n] = last]
  <2>1. PICK x, y \in RunSet : x = r /\ y = last
    OBVIOUS
  <2>2. Q = [R EXCEPT ![n] = x] /\ R[n] = y
    BY <2>1, <1>1, <1>3
  <2>3. R \in [1 .. n -> RunSet]
    BY <1>1, <1>2
  <2>4. R = [[R EXCEPT ![n] = x] EXCEPT ![n] = y]
    BY <2>2, <2>3, <1>2
  <2> QED BY <2>1, <2>2, <2>4
<1> QED BY <1>1, <1>3, <1>12, <1>13, <1>14

\* A step of the session keeps what its transcript told.
LEMMA SessionKeeps ==
    ASSUME NEW js, NEW ks, JournalsOK(js), JournalsOK(ks), NEW R, NEW Q,
           R = RunsIn(js), Q = RunsIn(ks), Asked(R, Q) \/ Confirmed(R, Q) \/ Q = R
    PROVE  Kept(Project(OrderRuns(R)).turns, Project(OrderRuns(Q)).turns)
<1>1. RunsOK(R) /\ RunsOK(Q)
  BY DEF JournalsOK
<1>2. CASE Asked(R, Q)
  <2>1. PICK r \in RunSet : Q = Append(R, r)
    BY <1>2 DEF Asked
  <2>2. R \in Seq(RunSet)
    BY <1>1 DEF RunsOK
  <2>3. Front(Q) = R /\ Len(Q) # 0
    BY <2>1, <2>2, FrontOfAppend
  <2>4. Extends(Project(OrderRuns(R)).turns, Project(OrderRuns(Q)).turns)
    BY <2>3, <1>1, EarlierRun
  <2> QED BY <2>4 DEF Extends, Kept
<1>3. CASE Confirmed(R, Q)
  <2>1. PICK n \in Nat \ {0} : n = Len(Q) /\ R = [Q EXCEPT ![n] = Unconfirmed(Q[n])]
    BY <1>1, <1>3, ConfirmedEarlier
  <2>2. Extends(Project(OrderRuns(R)).turns, Project(OrderRuns(Q)).turns)
    BY <2>1, <1>1, EarlierReceipt
  <2> QED BY <2>2 DEF Extends, Kept
<1>4. CASE Q = R
  <2>1. PICK T : T = Project(OrderRuns(R)).turns
    OBVIOUS
  <2>2. T \in Seq(TurnSet)
    <3>1. OrderRuns(R) = R
      BY <1>1, RunsInOrder
    <3>2. IsProposal(Project(R))
      BY <1>1, Projects
    <3> QED BY <3>1, <3>2, <2>1 DEF IsProposal
  <2> QED BY <2>1, <2>2, <1>4, KeptAsIs
<1> QED BY <1>2, <1>3, <1>4

LEMMA ProjectionTyped ==
    ASSUME JournalsOK(journals)
    PROVE  Projection.turns \in Seq(TurnSet)
BY ProjectionProposes DEF IsProposal

\* Whatever happens, the transcript after a step keeps that before it.
LEMMA StepKeeps ==
    ASSUME SessionOK, SessionOK', [Next]_vars
    PROVE  Kept(Projection.turns, Projection'.turns)
<1>1. JournalsOK(journals) /\ JournalsOK(journals')
  BY DEF SessionOK
<1>2. Runs = RunsIn(journals) /\ Runs' = RunsIn(journals')
  BY DEF Runs, RunsIn, Executed
<1>3. PICK R, Q : R = RunsIn(journals) /\ Q = RunsIn(journals')
  OBVIOUS
<1>4. ASSUME Asked(R, Q) \/ Confirmed(R, Q) \/ Q = R PROVE Kept(Projection.turns, Projection'.turns)
  <2>1. Kept(Project(OrderRuns(R)).turns, Project(OrderRuns(Q)).turns)
    BY <1>1, <1>3, <1>4, SessionKeeps
  <2> QED BY <2>1, <1>2, <1>3 DEF Projection
<1>5. CASE Continues
  <2>1. ASSUME NEW role \in HumanInput, NEW shape \in Shapes, NEW custom \in BOOLEAN,
               Ask(role, shape, custom)
        PROVE  Asked(R, Q)
    BY <2>1, <1>1, <1>3, AskKeeps
  <2>2. ASSUME NEW shape \in Shapes, Retry(shape) PROVE Asked(R, Q)
    BY <2>2, <1>1, <1>3, RetryKeeps
  <2>3. ASSUME Deliver PROVE Confirmed(R, Q)
    BY <2>3, <1>1, <1>3, DeliverKeeps
  <2>4. ASSUME NEW answered \in BOOLEAN, Legacy(answered) PROVE Asked(R, Q)
    BY <2>4, <1>1, <1>3, LegacyKeeps
  <2> QED BY <2>1, <2>2, <2>3, <2>4, <1>4, <1>5 DEF Continues
<1>6. CASE Rates
  <2>1. ASSUME Record PROVE Q = R
    BY <2>1, <1>1, <1>3, RecordKeeps
  <2>2. ASSUME UNCHANGED journals PROVE Q = R
    BY <2>2, <1>3
  <2>3. Record \/ UNCHANGED journals
    BY <1>6 DEF Rates, StartRating, StartCorrected, Abort, Exclude, AcceptWindow, ConfirmEpisode
  <2> QED BY <2>1, <2>2, <2>3, <1>4
<1>7. CASE UNCHANGED vars
  <2>1. Q = R
    BY <1>3, <1>7 DEF vars
  <2> QED BY <2>1, <1>4
<1> QED BY <1>5, <1>6, <1>7 DEF Next

\* The turns that a rater has in hand are the session's first, whatever it
\* has become since.
RaterStays == rater.pc # "idle" => Kept(rater.p.turns, Projection.turns)

LEMMA StaysFirst == Init => RaterStays
BY DEF Init, RaterStays

\* A rating begins with the turns that are there, and goes on with its own.
LEMMA RaterSteps ==
    ASSUME SessionOK, [Next]_vars
    PROVE  \/ rater'.pc = "idle"
           \/ rater'.p.turns = Projection.turns /\ UNCHANGED journals
           \/ rater'.pc = rater.pc /\ rater'.p = rater.p
<1>1. CASE Continues
  BY <1>1 DEF Continues, Ask, Retry, Deliver, Legacy
<1>2. CASE StartRating
  <2>1. PICK p : p = Projection
    OBVIOUS
  <2>2. Begin(p, Snapshot(p)) /\ UNCHANGED journals
    BY <1>2, <2>1 DEF StartRating
  <2>3. PICK of, at : of = Snapshot(p) /\ at = At(p, 1, FALSE)
    OBVIOUS
  <2>4. rater' = [pc |-> "unit", p |-> p, of |-> of, at |-> at, decided |-> FALSE, scored |-> FALSE]
    BY <2>2, <2>3 DEF Begin
  <2> QED BY <2>1, <2>2, <2>4
<1>3. CASE StartCorrected
  <2>1. PICK p : p = Projection
    OBVIOUS
  <2>2. PICK sheet \in Sheets(p) : Accepts(p, sheet) /\ Begin(Corrected(p, sheet), sheet.of)
    BY <1>3, <2>1 DEF StartCorrected
  <2>3. UNCHANGED journals
    BY <1>3 DEF StartCorrected
  <2>4. IsProjection(p)
    BY <2>1, ProjectionProposes DEF SessionOK
  <2>5. PICK q, of, at : q = Corrected(p, sheet) /\ of = sheet.of /\ at = At(q, 1, FALSE)
    OBVIOUS
  <2>6. rater' = [pc |-> "unit", p |-> q, of |-> of, at |-> at, decided |-> FALSE, scored |-> FALSE]
    BY <2>2, <2>5 DEF Begin
  <2>7. q.turns = p.turns
    BY <2>2, <2>4, <2>5, CorrectedTurns
  <2> QED BY <2>1, <2>3, <2>6, <2>7
<1>4. CASE Abort \/ Record
  <2>1. rater' = [pc |-> "idle"]
    BY <1>4, Zenon DEF Abort, Record
  <2> QED BY <2>1
<1>5. CASE Exclude
  <2>1. PICK at : rater' = [rater EXCEPT !.at = at, !.decided = TRUE]
    BY <1>5 DEF Exclude
  <2> QED BY <2>1
<1>6. CASE AcceptWindow \/ ConfirmEpisode
  <2>1. PICK at : rater' = [rater EXCEPT !.at = at, !.decided = TRUE, !.scored = TRUE]
    BY <1>6 DEF AcceptWindow, ConfirmEpisode
  <2> QED BY <2>1
<1>7. CASE UNCHANGED vars
  BY <1>7 DEF vars
<1> QED BY <1>1, <1>2, <1>3, <1>4, <1>5, <1>6, <1>7 DEF Next, Rates

LEMMA StaysNext == SessionOK /\ SessionOK' /\ RaterStays /\ [Next]_vars => RaterStays'
<1> SUFFICES ASSUME SessionOK, SessionOK', RaterStays, [Next]_vars, rater'.pc # "idle"
             PROVE  Kept(rater'.p.turns, Projection'.turns)
  BY DEF RaterStays
<1>1. Kept(Projection.turns, Projection'.turns)
  BY StepKeeps
<1>2. Projection.turns \in Seq(TurnSet)
  BY ProjectionTyped DEF SessionOK
<1>3. Projection'.turns \in Seq(TurnSet)
  <2>1. PICK Q : Q = Runs' /\ RunsOK(Q)
    BY DEF SessionOK, JournalsOK, Runs, RunsIn, Executed
  <2>2. OrderRuns(Q) = Q /\ IsProposal(Project(Q))
    BY <2>1, RunsInOrder, Projects
  <2>3. Projection' = Project(Q)
    BY <2>1, <2>2 DEF Projection
  <2> QED BY <2>2, <2>3 DEF IsProposal
<1>4. CASE rater'.p.turns = Projection.turns
  BY <1>1, <1>4
<1>5. CASE rater'.pc = rater.pc /\ rater'.p = rater.p
  <2>1. rater.pc # "idle"
    BY <1>5
  <2>2. rater.p.turns \in Seq(TurnSet) /\ Kept(rater.p.turns, Projection.turns)
    BY <2>1 DEF SessionOK, RaterOK, Typed, RaterStays
  <2>3. Kept(rater.p.turns, Projection'.turns)
    BY <2>2, <1>1, <1>2, <1>3, KeptOn
  <2> QED BY <2>3, <1>5
<1> QED BY <1>4, <1>5, RaterSteps

\* So a turn that the rater saw is still there, and leads where it led.
LEMMA TurnStands ==
    ASSUME SessionOK, RaterStays, rater.pc # "idle",
           NEW i \in DOMAIN rater.p.turns, rater.p.turns[i].visible
    PROVE  StillStands(i) /\ (rater.p.turns[i].actor = "human" => OfTheHuman(i))
<1>1. PICK T0 \in Seq(TurnSet), T \in Seq(TurnSet) : T0 = rater.p.turns /\ T = Projection.turns
  BY ProjectionTyped DEF SessionOK, RaterOK, Typed
<1>2. PICK R : R = Runs
  OBVIOUS
<1>3. PICK n \in Nat : n = Len(R) /\ R \in Seq(RunSet)
  BY <1>2, SessionStands DEF RunsOK
<1>4. /\ Refers(R, n, T)
      /\ \A k \in 1 .. n : R[k].id \in DOMAIN journals /\ journals[R[k].id] = R[k]
  BY <1>1, <1>2, <1>3, SessionStands DEF Standing
<1>5. Kept(T0, T)
  BY <1>1 DEF RaterStays
<1>6. i \in 1 .. Len(T0) /\ i \in 1 .. Len(T)
  <2>1. PICK n0 \in Nat, m \in Nat : n0 = Len(T0) /\ m = Len(T) /\ DOMAIN T0 = 1 .. n0
    BY <1>1
  <2>2. n0 <= m /\ i \in 1 .. n0
    BY <2>1, <1>1, <1>5 DEF Kept
  <2> QED BY <2>1, <2>2
<1>7. PICK t \in TurnSet, u \in TurnSet : t = T0[i] /\ u = T[i]
  BY <1>6
<1>8. SameTurn(u, t) /\ RefsGrow(t.refs, u.refs) /\ t.visible /\ u.visible
  BY <1>1, <1>5, <1>6, <1>7 DEF Kept
<1>9. [u EXCEPT !.refs = t.refs] = t
  <2>1. PICK F : F = Seq(Nat \X Nat)
    OBVIOUS
  <2>2. /\ t \in [actor : Actors, group : Nat, role : TurnRoles, content : Contents, refs : F,
                  visible : BOOLEAN]
        /\ u \in [actor : Actors, group : Nat, role : TurnRoles, content : Contents, refs : F,
                  visible : BOOLEAN]
    BY <2>1 DEF TurnSet
  <2> QED BY <2>2, <1>8 DEF SameTurn
<1>10. PICK a \in Nat, b \in Nat : /\ a = Len(t.refs) /\ DOMAIN t.refs = 1 .. a
                                  /\ b = Len(u.refs) /\ DOMAIN u.refs = 1 .. b
  BY TurnFields
<1>11. ASSUME NEW ref \in ToSet(t.refs)
       PROVE  /\ ref \in ToSet(u.refs) /\ ref[1] \in DOMAIN journals
              /\ ref[2] \in DOMAIN RunOf(ref).frames /\ RunOf(ref).group = t.group
              /\ t.actor = "human" => ByHuman(RunOf(ref).frames[ref[2]])
  <2>1. PICK x \in 1 .. a : ref = t.refs[x]
    BY <1>10 DEF ToSet
  <2>2. x \in 1 .. b /\ ref = u.refs[x]
    BY <2>1, <1>8, <1>10 DEF RefsGrow
  <2>3. ref \in ToSet(u.refs)
    BY <2>2, <1>10 DEF ToSet
  <2>4. RefersTo(R, n, u, ref)
    BY <2>2, <1>4, <1>6, <1>7, <1>10 DEF Refers
  <2>5. PICK r \in 1 .. n :
           /\ ref[1] = R[r].id /\ ref[2] \in 1 .. Len(R[r].frames) /\ R[r].group = u.group
           /\ u.actor = "human" => ByHuman(R[r].frames[ref[2]])
    BY <2>4 DEF RefersTo
  <2>6. ref[1] \in DOMAIN journals /\ RunOf(ref) = R[r]
    BY <2>5, <1>4 DEF RunOf
  <2>7. DOMAIN R[r].frames = 1 .. Len(R[r].frames)
    <3>1. R[r] \in RunSet
      BY <1>3
    <3> QED BY <3>1, RunFields
  <2> QED BY <2>3, <2>5, <2>6, <2>7, <1>8 DEF SameTurn
<1>12. i \in DOMAIN rater.of.turns /\ rater.of.turns[i] = t
  <2>1. rater.of.turns = T0
    BY <1>1 DEF SessionOK, RaterOK
  <2> QED BY <2>1, <1>1, <1>7
<1>13. i \in DOMAIN T
  BY <1>6
<1>14. StillStands(i)
  BY <1>1, <1>7, <1>8, <1>9, <1>11, <1>12, <1>13, Zenon DEF StillStands
<1>15. ASSUME rater.p.turns[i].actor = "human" PROVE OfTheHuman(i)
  BY <1>1, <1>7, <1>11, <1>15 DEF OfTheHuman, ByHuman
<1> QED BY <1>14, <1>15

LEMMA EvidenceThen == SessionOK /\ RaterStays => CitationsAreEvidence
<1> SUFFICES ASSUME SessionOK, RaterStays, rater.pc = "unit", rater.at.unit = "window"
             PROVE  CitationsAreEvidence
  BY DEF CitationsAreEvidence
<1>1. PICK p, k : p = rater.p /\ k = rater.at.k
  OBVIOUS
<1>2. PICK w : w = p.windows[k]
  OBVIOUS
<1>3. Typed(p) /\ Segmented(p) /\ k \in 1 .. Len(p.windows)
  BY <1>1 DEF SessionOK, RaterOK, Stands
<1>4. ASSUME NEW cited, NEW proxy, MayCite(p, cited, w, proxy)
      PROVE  /\ InScope(p, cited, w, proxy)
             /\ \A i \in DOMAIN cited :
                   StillStands(cited[i]) /\ (proxy = "M" => OfTheHuman(cited[i]))
  <2>1. InScope(p, cited, w, proxy)
    BY <1>2, <1>3, <1>4, CitedInScope
  <2>2. ASSUME NEW i \in DOMAIN cited
        PROVE  StillStands(cited[i]) /\ (proxy = "M" => OfTheHuman(cited[i]))
    <3>1. PICK c : c = cited[i]
      OBVIOUS
    <3>2. c \in DOMAIN p.turns /\ p.turns[c].visible /\ (proxy = "M" => p.turns[c].actor = "human")
      BY <3>1, <1>4 DEF MayCite
    <3>3. StillStands(c) /\ (p.turns[c].actor = "human" => OfTheHuman(c))
      BY <3>2, <1>1, TurnStands
    <3> QED BY <3>1, <3>2, <3>3
  <2> QED BY <2>1, <2>2
<1> QED BY <1>1, <1>2, <1>4 DEF CitationsAreEvidence

\* Whatever turns a rater types and however the session goes on meanwhile,
\* what is accepted as evidence obeys the rule of its proxy and is what the
\* rater saw: the turn has not changed, its references lead to frames that are
\* there, and where a human is blamed to something a human said or decided
\* (rating.rs citation_refs, main.rs cmd_rate, boundary.rs project).
THEOREM Evidence == Spec => []CitationsAreEvidence
<1>1. Init => SessionOK /\ RaterStays
  BY SessionBegins, StaysFirst
<1>2. SessionOK /\ RaterStays /\ [Next]_vars => (SessionOK /\ RaterStays)'
  BY SessionGoesOn, StaysNext
<1>3. SessionOK /\ RaterStays => CitationsAreEvidence
  BY EvidenceThen
<1> QED BY <1>1, <1>2, <1>3, PTL DEF Spec



-----------------------------------------------------------------------------
(* What the metrics count is what the projection counts.                   *)

\* A turn refers to one run after the other.
Ascending(T) ==
    \A j \in 1 .. Len(T) : \A x, y \in 1 .. Len(T[j].refs) :
        x < y => T[j].refs[x][1] < T[j].refs[y][1]

\* The groups with an answer are those of the runs that succeeded.
AnsweredIn(R, k, T) ==
    /\ \A j \in 1 .. Len(T) : IsResponse(T[j].role) =>
          \E r \in 1 .. k : R[r].group = T[j].group /\ Succeeded(R[r])
    /\ \A r \in 1 .. k : Succeeded(R[r]) =>
          \E j \in 1 .. Len(T) : IsResponse(T[j].role) /\ T[j].group = R[r].group

LEMMA AscendingNext ==
    ASSUME NEW run \in RunSet, NEW T0, Enters(run, T0), Ascending(T0), NEW T, Adds(run, T0, T)
    PROVE  Ascending(T)
<1>1. PICK n \in Nat, n0 \in Nat : n = Len(T) /\ n0 = Len(T0)
  BY DEF Adds, Enters
<1>2. /\ Lines(run, T0, T, Len(run.frames)) /\ Prolongs(T0, T) /\ HearsSo(run, T0, T)
      /\ T0 \in Seq(TurnSet)
  BY DEF Adds, Lines, Enters
<1> SUFFICES ASSUME NEW j \in 1 .. n, NEW x \in 1 .. Len(T[j].refs), NEW y \in 1 .. Len(T[j].refs),
                    x < y
             PROVE  T[j].refs[x][1] < T[j].refs[y][1]
  BY <1>1 DEF Ascending
<1>3. CASE j > n0
  <2>1. j \in n0 + 1 .. n
    BY <1>1, <1>3
  <2>2. Len(T[j].refs) = 1
    BY <2>1, <1>1, <1>2 DEF Lines, TurnOf
  <2> QED BY <2>2
<1>4. CASE j <= n0
  <2>1. j \in 1 .. n0 /\ T0[j] \in TurnSet
    BY <1>1, <1>2, <1>4
  <2>2. PICK r \in Seq(Nat \X Nat) : r = T0[j].refs
    BY <2>1, TurnFields
  <2>3. \A a, b \in 1 .. Len(r) : a < b => r[a][1] < r[b][1]
    BY <2>1, <2>2, <1>1 DEF Ascending
  <2>4. CASE T[j].refs = T0[j].refs
    BY <2>2, <2>3, <2>4
  <2>5. CASE T[j].refs # T0[j].refs
    <3>1. ~SaysNothing(T0, T)
      BY <2>1, <2>5, <1>1 DEF SaysNothing
    <3>2. PICK h \in 1 .. Len(T), m \in 1 .. Len(run.frames) : SaysAt(run, T0, T, h, m)
      BY <3>1, <1>2 DEF HearsSo
    <3>3. h = j
      BY <2>1, <2>5, <3>2, <1>1 DEF SaysAt
    <3>4. T[j].refs = T0[j].refs \o <<<<run.id, m>>>>
      <4>1. h <= Len(T0)
        BY <3>3, <1>1, <1>4
      <4> QED BY <4>1, <3>2, <3>3 DEF SaysAt
    <3>5. PICK ref, s : ref = <<run.id, m>> /\ s = r \o <<ref>>
      OBVIOUS
    <3>6. ref[1] = run.id
      BY <3>5
    <3>7. T[j].refs = s
      BY <3>4, <3>5, <2>2
    <3>8. PICK l \in Nat : l = Len(r)
      BY <2>2
    <3>9. s = Append(r, ref)
      BY <3>5, <2>2, OneMore
    <3>10. Len(s) = l + 1 /\ s[l + 1] = ref /\ \A a \in 1 .. l : s[a] = r[a]
      BY <3>8, <3>9, <2>2, Grown
    <3>11. x \in 1 .. l + 1 /\ y \in 1 .. l + 1
      BY <3>7, <3>10
    <3>12. x \in 1 .. l /\ s[x] = r[x]
      BY <3>8, <3>10, <3>11, SMTT(30)
    <3>13. CASE y = l + 1
      <4>1. r[x][1] < run.id
        BY <2>1, <2>2, <3>8, <3>12, <1>1 DEF Enters
      <4> QED BY <4>1, <3>6, <3>7, <3>10, <3>12, <3>13
    <3>14. CASE y # l + 1
      <4>1. y \in 1 .. l
        <5>1. \A a \in 1 .. l + 1 : a = l + 1 \/ a \in 1 .. l
          OBVIOUS
        <5> QED BY <5>1, <3>11, <3>14, Zenon
      <4>2. r[x][1] < r[y][1]
        BY <4>1, <2>3, <3>8, <3>12
      <4> QED BY <4>1, <4>2, <3>7, <3>10, <3>12
    <3> QED BY <3>13, <3>14
  <2> QED BY <2>4, <2>5
<1> QED BY <1>3, <1>4

LEMMA AnsweredNext ==
    ASSUME NEW R, NEW k \in Nat, NEW run \in RunSet, run = R[k + 1], NEW T0 \in Seq(TurnSet),
           AnsweredIn(R, k, T0), NEW T, Adds(run, T0, T)
    PROVE  AnsweredIn(R, k + 1, T)
<1>1. PICK n \in Nat, n0 \in Nat : n = Len(T) /\ n0 = Len(T0)
  BY DEF Adds
<1>2. /\ Lines(run, T0, T, Len(run.frames)) /\ Prolongs(T0, T) /\ Responds(run, T0, T)
      /\ n0 <= n
  BY <1>1 DEF Adds, Lines, Prolongs
<1>3. /\ k + 1 \in 1 .. k + 1 /\ \A r \in 1 .. k : r \in 1 .. k + 1
      /\ \A r \in 1 .. k + 1 : r \in 1 .. k \/ r = k + 1
  OBVIOUS
<1>4. /\ \A j \in 1 .. n0 : j \in 1 .. n /\ T[j].role = T0[j].role /\ T[j].group = T0[j].group
      /\ \A j \in n0 + 1 .. n : j \in 1 .. n /\ T[j].group = run.group
  BY <1>1, <1>2 DEF Prolongs, SameTurn, Lines, TurnOf
<1>5. ASSUME NEW j \in 1 .. n, IsResponse(T[j].role)
      PROVE  \E r \in 1 .. k + 1 : R[r].group = T[j].group /\ Succeeded(R[r])
  <2>1. CASE j \in 1 .. n0
    <3>1. PICK r \in 1 .. k : R[r].group = T0[j].group /\ Succeeded(R[r])
      BY <2>1, <1>1, <1>4, <1>5 DEF AnsweredIn
    <3> QED BY <3>1, <2>1, <1>3, <1>4
  <2>2. CASE j \notin 1 .. n0
    <3>1. j \in n0 + 1 .. n
      BY <2>2
    <3>2. Succeeded(run) /\ T[j].group = run.group
      BY <3>1, <1>1, <1>2, <1>4, <1>5 DEF Responds
    <3> QED BY <3>2, <1>3
  <2> QED BY <2>1, <2>2
<1>6. ASSUME NEW r \in 1 .. k + 1, Succeeded(R[r])
      PROVE  \E j \in 1 .. n : IsResponse(T[j].role) /\ T[j].group = R[r].group
  <2>1. CASE r \in 1 .. k
    <3>1. PICK j \in 1 .. n0 : IsResponse(T0[j].role) /\ T0[j].group = R[r].group
      BY <2>1, <1>1, <1>6 DEF AnsweredIn
    <3> QED BY <3>1, <1>4
  <2>2. CASE r = k + 1
    <3>1. PICK j \in n0 + 1 .. n : IsResponse(T[j].role)
      BY <2>2, <1>1, <1>2, <1>6 DEF Responds
    <3> QED BY <3>1, <2>2, <1>4
  <2> QED BY <2>1, <2>2, <1>3
<1> QED BY <1>1, <1>5, <1>6 DEF AnsweredIn

LEMMA TalliesHold ==
    ASSUME NEW R, RunsOK(R), NEW n, n = Len(R), NEW T, T = Transcript(R, n)
    PROVE  Ascending(T) /\ AnsweredIn(R, n, T)
<1>1. n \in Nat /\ R \in Seq(RunSet)
  BY DEF RunsOK
<1>2. /\ Transcript(R, 0) = <<>>
      /\ \A k \in 1 .. n : Transcript(R, k) = AddRun(Transcript(R, k - 1), R[k])
  BY <1>1, TranscriptTyped
<1> DEFINE Good(k) == Ascending(Transcript(R, k)) /\ AnsweredIn(R, k, Transcript(R, k))
           Bad == {k \in 0 .. n : ~Good(k)}
<1> SUFFICES ASSUME Bad # {} PROVE FALSE
  <2>1. n \in 0 .. n
    BY <1>1
  <2> QED BY <2>1
<1>3. PICK k \in Bad : \A j \in Bad : k <= j
  <2>1. Bad \in SUBSET Nat
    OBVIOUS
  <2> HIDE DEF Bad
  <2> QED BY <2>1, Least
<1>4. k # 0
  <2>1. PICK U, z : U = <<>> /\ z = 0 /\ Len(U) = z /\ z \in Int
    OBVIOUS
  <2>2. (\A j \in 1 .. Len(U) : FALSE) /\ (\A r \in 1 .. z : FALSE)
    BY <2>1
  <2>3. Ascending(U) /\ AnsweredIn(R, z, U)
    BY <2>2 DEF Ascending, AnsweredIn
  <2> QED BY <2>1, <2>3, <1>2, <1>3
<1>5. PICK l \in Nat : l = k - 1 /\ l + 1 = k /\ l + 1 \in 1 .. Len(R) /\ l \notin Bad /\ l \in 0 .. n
  BY <1>1, <1>3, <1>4
<1>6. PICK T0 : T0 = Transcript(R, l)
  OBVIOUS
<1>7. Ascending(T0) /\ AnsweredIn(R, l, T0)
  BY <1>5, <1>6
<1> HIDE DEF Good, Bad
<1>8. Standing(R, l, T0)
  BY <1>1, <1>5, <1>6, StandingHolds
<1>9. PICK run \in RunSet : run = R[l + 1]
  BY <1>1, <1>5
<1>10. Enters(run, T0) /\ Adds(run, T0, AddRun(T0, run))
  BY <1>5, <1>8, <1>9, StandingNext
<1>11. PICK U : U = AddRun(T0, run)
  OBVIOUS
<1>12. T0 \in Seq(TurnSet)
  BY <1>8 DEF Standing
<1>13. Ascending(U)
  BY <1>7, <1>10, <1>11, AscendingNext
<1>14. AnsweredIn(R, l + 1, U)
  BY <1>7, <1>9, <1>10, <1>11, <1>12, AnsweredNext
<1>15. Transcript(R, k) = U
  <2>1. k \in 1 .. n
    BY <1>1, <1>5
  <2> QED BY <2>1, <1>2, <1>5, <1>6, <1>9, <1>11
<1>16. Good(k)
  BY <1>5, <1>13, <1>14, <1>15 DEF Good
<1> QED BY <1>3, <1>16 DEF Bad

LEMMA MaxOf ==
    ASSUME NEW n \in Nat, NEW S \in SUBSET (1 .. n), S # {}
    PROVE  Max(S) \in S /\ \A j \in S : j <= Max(S)
<1>1. PICK m \in S : \A j \in S : m >= j
  BY Maximum
<1> QED BY <1>1 DEF Max

\* What the metrics keep of a run.
LEMMA RowFields ==
    ASSUME NEW run
    PROVE  /\ Row(run).group = run.group /\ Row(run).kind = run.kind
           /\ Row(run).failures = Number(run, "failure")
           /\ Row(run).repairs = Number(run, "repair")
BY DEF Row, Count, Number

LEMMA NumberIs ==
    ASSUME NEW run \in RunSet, NEW what
    PROVE  Number(run, what) \in Nat
<1>1. PICK n \in Nat : n = Len(run.frames) /\ DOMAIN run.frames = 1 .. n
  BY RunFields
<1>2. PICK S : S = {i \in DOMAIN run.frames : run.frames[i].is = what}
  OBVIOUS
<1>3. S \in SUBSET (1 .. n)
  BY <1>1, <1>2
<1>4. Cardinality(S) \in Nat
  BY <1>3, Ranks
<1> QED BY <1>2, <1>4 DEF Number

\* A run's last end is the one that counts, and after a success there is none.
LEMMA StatusTells ==
    ASSUME NEW run \in RunSet, FramesOK(run)
    PROVE  Row(run).status = "succeeded" <=> Succeeded(run)
<1>1. PICK n \in Nat : n = Len(run.frames) /\ DOMAIN run.frames = 1 .. n /\ run.role \in HumanInput
  BY RunFields
<1>2. PICK ends : ends = {i \in 1 .. n : Finishes(run.frames[i])}
  OBVIOUS
<1>3. ends \in SUBSET (1 .. n) /\ \A i \in 1 .. n : i \in ends <=> Finishes(run.frames[i])
  BY <1>2
<1>4. Row(run).status = IF ends = {} THEN "unfinished" ELSE run.frames[Max(ends)].status
  <2>1. ends = {i \in DOMAIN run.frames : run.frames[i].is = "finished"}
    BY <1>1, <1>2 DEF Finishes
  <2> QED BY <2>1, Zenon DEF Row
<1>5. ends # {} => Max(ends) \in ends /\ \A j \in ends : j <= Max(ends)
  BY <1>3, MaxOf
<1>6. ASSUME Succeeded(run)
      PROVE  \E e \in 1 .. n : Succeeds(run.frames[e]) /\ \A m \in e + 1 .. n : ~Finishes(run.frames[m])
  <2>1. CASE run.kind = "legacy"
    <3>1. PICK f, g, h, e : /\ f = Unit("prompt", TRUE, "words") /\ g = Unit("response", FALSE, "answer")
                            /\ h = Finished("succeeded") /\ e = Finished("failed")
      OBVIOUS
    <3>2. PICK fs : fs = run.frames
      OBVIOUS
    <3>3. fs = <<f, g, h>> \/ fs = <<f, e>>
      BY <2>1, <3>1, <3>2 DEF FramesOK, LegacyFrames
    <3>4. PICK l \in {2, 3} : /\ l = Len(fs) /\ fs[1] = f
                              /\ l = 2 => fs[2] = e
                              /\ l = 3 => fs[2] = g /\ fs[3] = h
      BY <3>3
    <3>5. Succeeds(h) /\ ~Succeeds(f) /\ ~Succeeds(e)
      BY <3>1 DEF Unit, Finished, Succeeds
    <3>6. n = l
      BY <3>2, <3>4, <1>1, Zenon
    <3>7. n # 2
      <4>1. PICK s \in 1 .. n : Succeeds(fs[s])
        BY <3>2, <1>1, <1>6 DEF Succeeded, Succeeds
      <4>2. n = 2 => s = 1 \/ s = 2
        OBVIOUS
      <4> QED BY <4>1, <4>2, <3>4, <3>5, <3>6, Zenon
    <3>8. n = 3 /\ Succeeds(fs[3])
      BY <3>4, <3>5, <3>6, <3>7, Zenon
    <3>9. 3 \in 1 .. n /\ \A m \in 3 + 1 .. n : FALSE
      BY <3>8
    <3> QED BY <3>2, <3>8, <3>9, Zenon
  <2>2. CASE run.kind # "legacy"
    <3>1. PICK b \in Final : Reaches(run.frames, b, run.role, run.kind = "retry")
      BY <2>2 DEF FramesOK
    <3>2. SuccessSo(run.frames, n, b)
      BY <1>1, <3>1, ReachesHistory DEF History
    <3>3. PICK s \in 1 .. n : Succeeds(run.frames[s])
      BY <1>1, <1>6 DEF Succeeded, Succeeds
    <3> QED BY <3>2, <3>3 DEF SuccessSo
  <2> QED BY <2>1, <2>2
<1>7. ASSUME Succeeded(run) PROVE Row(run).status = "succeeded"
  <2>1. PICK e \in 1 .. n : Succeeds(run.frames[e]) /\ \A m \in e + 1 .. n : ~Finishes(run.frames[m])
    BY <1>6, <1>7
  <2>2. e \in ends
    BY <2>1, <1>3 DEF Succeeds, Finishes
  <2>3. PICK m \in 1 .. n : m = Max(ends) /\ m \in ends /\ e <= m
    BY <2>2, <1>3, <1>5
  <2>4. m = e
    BY <2>1, <2>3, <1>3
  <2> QED BY <2>1, <2>2, <2>3, <2>4, <1>4 DEF Succeeds
<1>8. ASSUME Row(run).status = "succeeded" PROVE Succeeded(run)
  <2>1. ends # {} /\ run.frames[Max(ends)].status = "succeeded"
    BY <1>4, <1>8
  <2>2. Max(ends) \in 1 .. n /\ run.frames[Max(ends)].is = "finished"
    BY <2>1, <1>3, <1>5 DEF Finishes
  <2> QED BY <2>1, <2>2, <1>1 DEF Succeeded
<1> QED BY <1>7, <1>8

\* Only a retry is told what was wrong before.
LEMMA OnlyRetriesAreTold ==
    ASSUME NEW run \in RunSet, FramesOK(run)
    PROVE  CarriesFeedback(run) <=> run.kind = "retry"
<1>1. PICK n \in Nat : n = Len(run.frames) /\ DOMAIN run.frames = 1 .. n
  BY RunFields
<1> DEFINE Feedback(f) == f.is = "unit" /\ ~f.human /\ f.role = "correction"
<1> SUFFICES ASSUME run.kind # "retry", NEW i \in 1 .. n PROVE ~Feedback(run.frames[i])
  BY <1>1 DEF CarriesFeedback
<1>2. CASE run.kind = "legacy"
  <2>1. PICK f, g, h, e : /\ f = Unit("prompt", TRUE, "words") /\ g = Unit("response", FALSE, "answer")
                          /\ h = Finished("succeeded") /\ e = Finished("failed")
    OBVIOUS
  <2>2. PICK fs : fs = run.frames
    OBVIOUS
  <2>3. fs = <<f, g, h>> \/ fs = <<f, e>>
    BY <1>2, <2>1, <2>2 DEF FramesOK, LegacyFrames
  <2>4. fs[i] \in {f, g, h, e}
    BY <2>2, <2>3, <1>1
  <2>5. ~Feedback(f) /\ ~Feedback(g) /\ ~Feedback(h) /\ ~Feedback(e)
    BY <2>1 DEF Unit, Finished
  <2> QED BY <2>2, <2>4, <2>5
<1>3. CASE run.kind # "legacy"
  <2>1. PICK b \in Final : Reaches(run.frames, b, run.role, run.kind = "retry")
    BY <1>3 DEF FramesOK
  <2>2. PICK L : Labelled(run.frames, L, run.role, run.kind = "retry")
    BY <2>1 DEF Reaches
  <2>3. PICK fs, f, a, b2, role : fs = run.frames /\ f = fs[i] /\ a = L[i] /\ b2 = L[i + 1] /\ role = run.role
    OBVIOUS
  <2>4. Follows(fs, i, a, b2, role, FALSE)
    BY <2>2, <2>3, <1>1 DEF Labelled
  <2>5. CASE Quietly(f, a, b2, FALSE)
    BY <2>3, <2>5 DEF Quietly
  <2>6. CASE Asks(f, a, b2) \/ Decides(f, a, b2) \/ Shows(fs, i, a, b2) \/ f.is = "failure"
    <3>1. Asks(f, a, b2) => f.is = "boundary"
      BY DEF Asks, Question, Said
    <3>2. Decides(f, a, b2) => f.is = "boundary"
      BY DEF Decides, Said
    <3>3. Shows(fs, i, a, b2) => f.is = "boundary"
      BY <2>3 DEF Shows, Receipt
    <3> QED BY <3>1, <3>2, <3>3, <2>3, <2>6
  <2>7. CASE Listens(f, i, a, b2, role)
    BY <2>3, <2>7 DEF Listens, Unit, Said
  <2>8. CASE Answers(f, i, a, b2)
    BY <2>3, <2>8 DEF Answers, Unit, Said, Finished
  <2> QED BY <2>3, <2>4, <2>5, <2>6, <2>7, <2>8 DEF Follows
<1> QED BY <1>2, <1>3

\* There are as many groups as runs that are not retries.
GroupsOf(R, n) == {R[k].group : k \in 1 .. n}

LEMMA GroupsBegin ==
    ASSUME NEW R, RunsOK(R), NEW n, n = Len(R)
    PROVE  n - Cardinality(GroupsOf(R, n)) = Cardinality({k \in 1 .. n : R[k].kind = "retry"})
<1>1. n \in Nat /\ R \in Seq(RunSet)
  BY DEF RunsOK
<1>2. \A k \in 1 .. n : R[k].id \in Nat /\ RunOK(R, k) /\ LinkOK(R, k)
  BY <1>1, RunFields DEF RunsOK, RunOK
<1>3. PICK K, S, G : /\ K = {k \in 1 .. n : R[k].kind = "retry"} /\ S = (1 .. n) \ K
                     /\ G = GroupsOf(R, n)
  OBVIOUS
<1>4. IsFiniteSet(S) /\ Cardinality(S) = n - Cardinality(K)
  <2>1. IsFiniteSet(1 .. n) /\ Cardinality(1 .. n) = n
    BY <1>1, Interval
  <2>2. PICK I : I = 1 .. n
    OBVIOUS
  <2>3. I \cap K = K /\ S = I \ K
    BY <1>3, <2>2
  <2>4. IsFiniteSet(I \ K) /\ Cardinality(I \ K) = Cardinality(I) - Cardinality(I \cap K)
    BY <2>1, <2>2, FS_Difference
  <2>5. Cardinality(I) = n
    BY <2>1, <2>2
  <2> QED BY <2>3, <2>4, <2>5
<1>5. PICK f : f = [k \in S |-> R[k].group]
  OBVIOUS
<1>6. \A k \in S : k \in 1 .. n /\ R[k].kind # "retry" /\ R[k].group = R[k].id
  BY <1>2, <1>3 DEF LinkOK
<1>7. OneToOne(f, S, G)
  <2>1. f \in [S -> G]
    BY <1>3, <1>5, <1>6 DEF GroupsOf
  <2>2. \A a, b \in 1 .. n : a < b => R[a].id < R[b].id
    BY <1>2 DEF RunOK
  <2>3. ASSUME NEW a \in S, NEW b \in S, f[a] = f[b] PROVE a = b
    <3>1. R[a].id = R[b].id /\ a \in 1 .. n /\ b \in 1 .. n
      BY <2>3, <1>5, <1>6
    <3>2. a < b \/ a = b \/ b < a
      BY <3>1
    <3>3. R[a].id \in Nat /\ R[b].id \in Nat
      BY <3>1, <1>2
    <3> QED BY <3>1, <3>2, <3>3, <2>2
  <2> QED BY <2>1, <2>3 DEF OneToOne
<1>8. Onto(f, S, G)
  <2> SUFFICES ASSUME NEW t \in G PROVE \E k \in S : f[k] = t
    BY DEF Onto
  <2>1. PICK B : B = {k \in 1 .. n : R[k].group = t}
    OBVIOUS
  <2>2. B \in SUBSET Nat /\ B # {}
    BY <2>1, <1>3 DEF GroupsOf
  <2>3. PICK k \in B : \A j \in B : k <= j
    BY <2>2, Least
  <2>4. k \in 1 .. n /\ R[k].group = t
    BY <2>1
  <2>5. R[k].kind # "retry"
    <3> SUFFICES ASSUME R[k].kind = "retry" PROVE FALSE
      OBVIOUS
    <3>1. k > 1 /\ R[k - 1].group = t
      BY <2>4, <1>2 DEF LinkOK
    <3>2. k - 1 \in B /\ ~(k <= k - 1)
      BY <2>1, <2>4, <3>1
    <3> QED BY <2>3, <3>2
  <2>6. k \in S
    BY <2>4, <2>5, <1>3
  <2> QED BY <2>4, <2>6, <1>5
<1>9. Cardinality(G) = Cardinality(S)
  BY <1>4, <1>7, <1>8, AsMany
<1>10. Cardinality(K) \in Nat
  <2>1. K \in SUBSET (1 .. n)
    BY <1>3
  <2> QED BY <2>1, <1>1, Ranks
<1> QED BY <1>1, <1>3, <1>4, <1>9, <1>10

\* The rows are those of the runs R, in another order.
Tabulates(mine, R, n, h) ==
    /\ n \in Nat /\ n = Len(R) /\ Len(mine) = n /\ DOMAIN mine = 1 .. n
    /\ OneToOne(h, 1 .. n, 1 .. n) /\ Onto(h, 1 .. n, 1 .. n)
    /\ \A k \in 1 .. n : mine[k] = Row(R[h[k]])

LEMMA RowsTabulate ==
    ASSUME JournalsOK(journals)
    PROVE  \E n, h : Tabulates(Executions(Rows), Runs, n, h)
<1>1. PICK N \in Nat : /\ N = Len(journals) /\ DOMAIN journals = 1 .. N
                       /\ journals \in Seq(RunSet \cup RatingSet)
  BY DEF JournalsOK
<1>2. \A i \in 1 .. N : journals[i].path \in Int
  <2>1. \A i \in 1 .. N : journals[i] \in RunSet \cup RatingSet
    BY <1>1
  <2> QED BY <2>1, RunFields, RatingFields
<1> DEFINE First(i, j) == \/ journals[i].path < journals[j].path
                          \/ i < j /\ ~(journals[j].path < journals[i].path)
<1>3. PICK O : O = {z \in (1 .. N) \X (1 .. N) : First(z[1], z[2])}
  OBVIOUS
<1>4. \A i, j \in 1 .. N : <<i, j>> \in O <=> First(i, j)
  <2> HIDE DEF First
  <2> QED BY <1>3
<1>5. StrictOrder(O, N)
  <2>1. \A i \in 1 .. N : ~First(i, i)
    BY <1>2
  <2>2. \A i, j, k \in 1 .. N : First(i, j) /\ First(j, k) => First(i, k)
    BY <1>2
  <2>3. \A i, j \in 1 .. N : i = j \/ First(i, j) \/ First(j, i)
    BY <1>2
  <2> HIDE DEF First
  <2> QED BY <2>1, <2>2, <2>3, <1>4 DEF StrictOrder
<1>6. PICK f : /\ OneToOne(f, 1 .. N, 1 .. N) /\ Onto(f, 1 .. N, 1 .. N)
               /\ \A k \in 1 .. N : f[k] = PlaceOf(O, N, k)
  BY <1>1, <1>5, Placed
<1>7. \A k \in 1 .. N : f[k] \in 1 .. N
  BY <1>6 DEF OneToOne
<1> DEFINE Place(k) == CHOOSE i \in DOMAIN journals :
                          Cardinality({j \in DOMAIN journals : First(j, i)}) = k - 1
<1>8. Sorted(journals, LAMBDA a, b : a.path < b.path) = [k \in DOMAIN journals |-> journals[Place(k)]]
  BY DEF Sorted
<1>9. ASSUME NEW k \in 1 .. N PROVE Place(k) = f[k]
  <2>1. \A i \in 1 .. N : {j \in DOMAIN journals : First(j, i)} = Ahead(O, N, i)
    <3> HIDE DEF First
    <3> QED BY <1>1, <1>4 DEF Ahead
  <2> HIDE DEF First
  <2>2. \A i \in 1 .. N : Cardinality({j \in DOMAIN journals : First(j, i)}) = k - 1
                             <=> Cardinality(Ahead(O, N, i)) = k - 1
    BY <2>1
  <2>3. Place(k) = PlaceOf(O, N, k)
    BY <2>2, <1>1, Zenon DEF PlaceOf
  <2> HIDE DEF Place
  <2> QED BY <2>3, <1>6
<1> HIDE DEF Place
<1>10. PICK rows : rows = Rows
  OBVIOUS
<1>11. DOMAIN rows = 1 .. N /\ \A k \in 1 .. N : rows[k] = Row(journals[f[k]])
  <2>1. PICK sorted : sorted = [k \in DOMAIN journals |-> journals[Place(k)]]
    OBVIOUS
  <2>2. DOMAIN sorted = 1 .. N /\ \A k \in 1 .. N : sorted[k] = journals[f[k]]
    BY <2>1, <1>1, <1>9
  <2>3. rows = [i \in DOMAIN sorted |-> Row(sorted[i])]
    BY <2>1, <1>8, <1>10, Zenon DEF Rows
  <2> QED BY <2>2, <2>3
<1>12. PICK S, E : S = Executed(journals) /\ E = {i \in 1 .. N : f[i] \in S}
  OBVIOUS
<1>13. Selects(Runs, RunSet, journals, S) /\ S \in SUBSET (1 .. N)
  BY <1>1, <1>12, RunsAre DEF Runs, RunsIn, Executed
<1>14. Executions(rows) = Those(rows, E)
  <2>1. \A i \in 1 .. N : IsRating(rows[i]) <=> journals[f[i]].kind = "rating"
    BY <1>11, RowFields DEF IsRating
  <2>2. \A i \in 1 .. N : ~IsRating(rows[i]) <=> i \in E
    BY <2>1, <1>1, <1>7, <1>12 DEF Executed
  <2>3. {i \in DOMAIN rows : ~IsRating(rows[i])} = E
    BY <2>2, <1>11, <1>12
  <2> QED BY <2>3 DEF Executions
<1>15. PICK n, h : Reordered(h, n, f, E, S)
  BY <1>1, <1>6, <1>12, <1>13, SelectedReordered
<1>16. PICK mine : mine = Executions(rows)
  OBVIOUS
<1>17. PICK A : A = {rows[i] : i \in 1 .. N}
  OBVIOUS
<1>18. Selects(mine, A, rows, E) /\ E \in SUBSET (1 .. N)
  <2>1. E \in SUBSET (1 .. N) /\ \A i \in E : rows[i] \in A
    BY <1>12, <1>17
  <2> QED BY <2>1, <1>1, <1>14, <1>16, Selected
<1>19. n \in Nat /\ n = Len(Runs) /\ Len(mine) = n /\ DOMAIN mine = 1 .. n
  <2>1. n \in Nat /\ n = Cardinality(S) /\ n = Cardinality(E)
    BY <1>15 DEF Reordered
  <2>2. Len(Runs) = n /\ Len(mine) = n /\ mine \in Seq(A)
    BY <2>1, <1>13, <1>18 DEF Selects
  <2> QED BY <2>1, <2>2
<1>20. ASSUME NEW k \in 1 .. n PROVE mine[k] = Row(Runs[h[k]])
  <2>1. k \in 1 .. Cardinality(E) /\ h[k] \in 1 .. Cardinality(S)
    BY <1>15 DEF Reordered, OneToOne
  <2>2. Nth(E, k) \in E /\ Nth(S, h[k]) = f[Nth(E, k)]
    BY <1>15 DEF Reordered
  <2>3. mine[k] = rows[Nth(E, k)]
    BY <2>1, <1>18 DEF Selects
  <2>4. Runs[h[k]] = journals[Nth(S, h[k])]
    BY <2>1, <1>13 DEF Selects
  <2>5. Nth(E, k) \in 1 .. N
    BY <2>2, <1>18
  <2> QED BY <2>2, <2>3, <2>4, <2>5, <1>11
<1>21. Tabulates(mine, Runs, n, h)
  BY <1>15, <1>19, <1>20 DEF Tabulates, Reordered
<1> QED BY <1>10, <1>16, <1>21

\* Whatever is added up over the runs is the same added up over the rows.
LEMMA SumsAgree ==
    ASSUME NEW R, RunsOK(R), NEW n, NEW h, NEW mine, Tabulates(mine, R, n, h)
    PROVE  /\ Failures(mine) = Total([r \in DOMAIN R |-> Number(R[r], "failure")], Len(R))
           /\ Repairs(mine) = Total([r \in DOMAIN R |-> Number(R[r], "repair")], Len(R))
<1>1. n \in Nat /\ R \in Seq(RunSet) /\ n = Len(R) /\ DOMAIN R = 1 .. n
  BY DEF RunsOK, Tabulates
<1>2. Len(mine) = n /\ DOMAIN mine = 1 .. n /\ \A k \in 1 .. n : mine[k] = Row(R[h[k]])
  BY DEF Tabulates
<1>3. OneToOne(h, 1 .. n, 1 .. n) /\ Onto(h, 1 .. n, 1 .. n) /\ \A k \in 1 .. n : h[k] \in 1 .. n
  BY DEF Tabulates, OneToOne
<1>4. \A r \in 1 .. n : Number(R[r], "failure") \in Nat /\ Number(R[r], "repair") \in Nat
  <2>1. \A r \in 1 .. n : R[r] \in RunSet
    BY <1>1
  <2> QED BY <2>1, NumberIs
<1>5. PICK w, x : /\ w = [r \in 1 .. n |-> Number(R[r], "failure")]
                  /\ x = [r \in 1 .. n |-> Number(R[r], "repair")]
  OBVIOUS
<1>6. PICK v, y : /\ v = [i \in 1 .. n |-> mine[i].failures]
                  /\ y = [i \in 1 .. n |-> mine[i].repairs]
  OBVIOUS
<1>7. w \in [1 .. n -> Nat] /\ x \in [1 .. n -> Nat]
  BY <1>4, <1>5
<1>8. \A k \in 1 .. n : v[k] = w[h[k]] /\ y[k] = x[h[k]]
  <2>1. \A k \in 1 .. n : /\ mine[k].failures = Number(R[h[k]], "failure")
                          /\ mine[k].repairs = Number(R[h[k]], "repair")
    BY <1>2, RowFields
  <2> QED BY <2>1, <1>3, <1>5, <1>6
<1>9. v \in [1 .. n -> Nat] /\ y \in [1 .. n -> Nat]
  <2>1. \A k \in 1 .. n : v[k] \in Nat /\ y[k] \in Nat
    BY <1>3, <1>7, <1>8
  <2> QED BY <2>1, <1>6
<1>10. \A a, b \in [1 .. n -> Nat] :
          (\A k \in 1 .. n : a[k] = b[h[k]]) => Total(a, n) = Total(b, n)
  <2>1. n \in Nat
    BY <1>1
  <2>2. OneToOne(h, 1 .. n, 1 .. n)
    BY <1>3
  <2>3. Onto(h, 1 .. n, 1 .. n)
    BY <1>3
  <2> QED BY <2>1, <2>2, <2>3, TotalReordered, ZenonT(40)
<1>11. Total(v, n) = Total(w, n) /\ Total(y, n) = Total(x, n)
  BY <1>7, <1>8, <1>9, <1>10
<1>12. Failures(mine) = Total(v, n)
  BY <1>2, <1>6, Zenon DEF Failures, Sum
<1>13. Repairs(mine) = Total(y, n)
  BY <1>2, <1>6, Zenon DEF Repairs, Sum
<1> QED BY <1>1, <1>5, <1>11, <1>12, <1>13, Zenon

LEMMA PassIs ==
    ASSUME NEW q, NEW c \in Nat, Len(q) = c
    PROVE  FirstPass(q) # 0 <=> \E i \in 1 .. c : q[i].status = "succeeded"
<1>1. PICK I : I = {i \in 1 .. c : q[i].status = "succeeded"}
  OBVIOUS
<1>2. PICK k : k = FirstPass(q)
  OBVIOUS
<1>3. k = IF I # {} THEN Min(I) ELSE 0
  BY <1>1, <1>2 DEF FirstPass, SelectInSeq
<1>4. I \in SUBSET (1 .. c)
  BY <1>1
<1>5. (k # 0 => k \in I) /\ (k = 0 => I = {})
  BY <1>3, <1>4, FirstOf
<1> QED BY <1>1, <1>2, <1>5

\* The rows of a group are as many as its runs, and one passes if a run does.
Among(R, n, g) == {r \in 1 .. n : R[r].group = g}

LEMMA GroupRows ==
    ASSUME NEW R, RunsOK(R), NEW n, NEW h, NEW mine, Tabulates(mine, R, n, h), NEW g,
           NEW q, q = Those(mine, {i \in DOMAIN mine : mine[i].group = g})
    PROVE  /\ Len(q) = Cardinality(Among(R, n, g))
           /\ FirstPass(q) # 0 <=> \E r \in 1 .. n : R[r].group = g /\ Succeeded(R[r])
<1>1. n \in Nat /\ R \in Seq(RunSet) /\ n = Len(R)
  BY DEF RunsOK, Tabulates
<1>2. DOMAIN mine = 1 .. n /\ \A k \in 1 .. n : mine[k] = Row(R[h[k]])
  BY DEF Tabulates
<1>3. OneToOne(h, 1 .. n, 1 .. n) /\ Onto(h, 1 .. n, 1 .. n) /\ \A k \in 1 .. n : h[k] \in 1 .. n
  BY DEF Tabulates, OneToOne
<1>4. \A r \in 1 .. n : Row(R[r]).group = R[r].group /\ (Row(R[r]).status = "succeeded" <=> Succeeded(R[r]))
  <2>1. \A r \in 1 .. n : R[r] \in RunSet /\ FramesOK(R[r])
    BY <1>1 DEF RunsOK, RunOK
  <2> QED BY <2>1, RowFields, StatusTells
<1>5. PICK S, E : S = Among(R, n, g) /\ E = {i \in 1 .. n : h[i] \in S}
  OBVIOUS
<1>6. S \in SUBSET (1 .. n) /\ \A r \in 1 .. n : r \in S <=> R[r].group = g
  BY <1>5 DEF Among
<1>7. {i \in DOMAIN mine : mine[i].group = g} = E
  <2>1. \A i \in 1 .. n : mine[i].group = g <=> h[i] \in S
    BY <1>2, <1>3, <1>4, <1>6
  <2> QED BY <2>1, <1>2, <1>5
<1>8. PICK c, k : Reordered(k, c, h, E, S)
  BY <1>1, <1>3, <1>5, <1>6, SelectedReordered
<1>9. PICK A : A = {mine[i] : i \in 1 .. n}
  OBVIOUS
<1>10. Selects(q, A, mine, E) /\ E \in SUBSET (1 .. n)
  <2>1. E \in SUBSET (1 .. n) /\ \A i \in E : mine[i] \in A
    BY <1>5, <1>9
  <2> QED BY <2>1, <1>1, <1>7, Selected
<1>11. c \in Nat /\ Len(q) = c /\ c = Cardinality(S) /\ c = Cardinality(E)
  BY <1>8, <1>10 DEF Reordered, Selects
<1>12. \A i \in 1 .. c : Nth(E, i) \in E /\ q[i] = mine[Nth(E, i)]
  BY <1>10, <1>11 DEF Selects
<1>13. \A e \in E : \E i \in 1 .. c : Nth(E, i) = e
  BY <1>10, <1>11 DEF Selects
<1>14. \A e \in E : /\ e \in 1 .. n /\ h[e] \in 1 .. n /\ R[h[e]].group = g
                    /\ mine[e].status = "succeeded" <=> Succeeded(R[h[e]])
  BY <1>2, <1>3, <1>4, <1>5, <1>6
<1>15. ASSUME NEW i \in 1 .. c, q[i].status = "succeeded"
       PROVE  \E r \in 1 .. n : R[r].group = g /\ Succeeded(R[r])
  <2>1. PICK e \in E : e = Nth(E, i) /\ mine[e].status = "succeeded"
    BY <1>12, <1>15
  <2> QED BY <2>1, <1>14
<1>16. ASSUME NEW r \in 1 .. n, R[r].group = g, Succeeded(R[r])
       PROVE  \E i \in 1 .. c : q[i].status = "succeeded"
  <2>1. PICK e \in 1 .. n : h[e] = r
    BY <1>3 DEF Onto
  <2>2. e \in E
    BY <2>1, <1>5, <1>6, <1>16
  <2>3. PICK i \in 1 .. c : Nth(E, i) = e
    BY <2>2, <1>13
  <2> QED BY <2>1, <2>2, <2>3, <1>12, <1>14, <1>16
<1>17. FirstPass(q) # 0 <=> \E i \in 1 .. c : q[i].status = "succeeded"
  BY <1>11, PassIs
<1> QED BY <1>5, <1>11, <1>15, <1>16, <1>17

\* A turn has no more references than its group has runs.
LEMMA RefsFit ==
    ASSUME NEW R, RunsOK(R), NEW n, n = Len(R), NEW T \in Seq(TurnSet), Refers(R, n, T),
           Ascending(T), NEW j \in 1 .. Len(T)
    PROVE  /\ T[j].group \in GroupsOf(R, n)
           /\ Len(T[j].refs) <= Cardinality(Among(R, n, T[j].group))
<1>1. n \in Nat /\ R \in Seq(RunSet)
  BY DEF RunsOK
<1>2. PICK g, refs, m : g = T[j].group /\ refs = T[j].refs /\ m = Len(refs) /\ m \in Nat
  <2>1. T[j] \in TurnSet
    OBVIOUS
  <2> QED BY <2>1, RefsCounted
<1>3. \A x \in 1 .. m : \E r \in 1 .. n : refs[x][1] = R[r].id /\ R[r].group = g
  BY <1>2 DEF Refers, RefersTo
<1>4. m # 0
  BY <1>2 DEF Refers
<1>5. \A x, y \in 1 .. m : x < y => refs[x][1] < refs[y][1]
  BY <1>2 DEF Ascending
<1>6. PICK S : S = Among(R, n, g)
  OBVIOUS
<1>7. S \in SUBSET (1 .. n) /\ \A r \in 1 .. n : r \in S <=> R[r].group = g
  BY <1>6 DEF Among
<1>8. \A r \in 1 .. n : R[r].id \in Nat
  BY <1>1, RunFields
<1> DEFINE Of(x) == CHOOSE r \in S : refs[x][1] = R[r].id
<1>9. \A x \in 1 .. m : Of(x) \in S /\ refs[x][1] = R[Of(x)].id
  BY <1>3, <1>7
<1> HIDE DEF Of
<1>10. PICK f : f = [x \in 1 .. m |-> Of(x)]
  OBVIOUS
<1>11. OneToOne(f, 1 .. m, S)
  <2>1. f \in [1 .. m -> S]
    BY <1>9, <1>10
  <2>2. ASSUME NEW x \in 1 .. m, NEW y \in 1 .. m, f[x] = f[y] PROVE x = y
    <3>1. Of(x) = Of(y)
      BY <2>2, <1>10
    <3>2. refs[x][1] = R[Of(x)].id /\ refs[y][1] = R[Of(y)].id /\ Of(x) \in 1 .. n
      BY <1>7, <1>9
    <3>3. refs[x][1] = refs[y][1] /\ refs[x][1] \in Nat /\ refs[y][1] \in Nat
      BY <3>1, <3>2, <1>8
    <3>4. x < y \/ x = y \/ y < x
      BY <1>2
    <3> QED BY <3>3, <3>4, <1>5
  <2> QED BY <2>1, <2>2 DEF OneToOne
<1>12. m <= Cardinality(S)
  <2>1. IsFiniteSet(S)
    BY <1>1, <1>7, Ranks
  <2>2. Cardinality(1 .. m) <= Cardinality(S)
    BY <2>1, <1>11, NoMore
  <2> QED BY <2>2, <1>2, Interval
<1>13. g \in GroupsOf(R, n)
  <2>1. 1 \in 1 .. m
    BY <1>2, <1>4
  <2> QED BY <2>1, <1>3 DEF GroupsOf
<1> QED BY <1>2, <1>6, <1>12, <1>13

\* The metrics' groups are those of the runs.
LEMMA GroupsAre ==
    ASSUME NEW R, RunsOK(R), NEW rows, NEW n, NEW h, Tabulates(Executions(rows), R, n, h)
    PROVE  /\ DOMAIN AttemptGroups(rows) = GroupsOf(R, n)
           /\ \A g \in GroupsOf(R, n) :
                 /\ AttemptGroups(rows)[g].attempts = Cardinality(Among(R, n, g))
                 /\ AttemptGroups(rows)[g].pass # 0 <=>
                       \E r \in 1 .. n : R[r].group = g /\ Succeeded(R[r])
<1>1. PICK mine : mine = Executions(rows)
  OBVIOUS
<1>2. Tabulates(mine, R, n, h)
  BY <1>1
<1>3. DOMAIN mine = 1 .. n /\ \A k \in 1 .. n : mine[k].group = R[h[k]].group
  BY <1>2, RowFields DEF Tabulates
<1>4. (\A k \in 1 .. n : h[k] \in 1 .. n) /\ \A r \in 1 .. n : \E k \in 1 .. n : h[k] = r
  BY <1>2 DEF Tabulates, OneToOne, Onto
<1>5. PICK D : D = {r.group : r \in ToSet(mine)}
  OBVIOUS
<1>6. D = GroupsOf(R, n)
  <2>1. D = {mine[k].group : k \in 1 .. n}
    BY <1>3, <1>5 DEF ToSet
  <2>2. ASSUME NEW k \in 1 .. n PROVE mine[k].group \in GroupsOf(R, n)
    BY <1>3, <1>4 DEF GroupsOf
  <2>3. ASSUME NEW r \in 1 .. n PROVE R[r].group \in D
    <3>1. PICK k \in 1 .. n : h[k] = r
      BY <1>4
    <3> QED BY <3>1, <2>1, <1>3
  <2> QED BY <2>1, <2>2, <2>3 DEF GroupsOf
<1>7. PICK groups : groups = AttemptGroups(rows)
  OBVIOUS
<1>8. groups = [g \in D |-> [attempts |-> Len(GroupOf(rows, g)), pass |-> FirstPass(GroupOf(rows, g)),
                             repairs |-> Repairs(GroupOf(rows, g))]]
  BY <1>1, <1>5, <1>7, Zenon DEF AttemptGroups
<1>9. DOMAIN groups = D
  BY <1>8
<1>10. ASSUME NEW g \in D
       PROVE  /\ groups[g].attempts = Cardinality(Among(R, n, g))
              /\ groups[g].pass # 0 <=> \E r \in 1 .. n : R[r].group = g /\ Succeeded(R[r])
  <2>1. PICK q : q = GroupOf(rows, g)
    OBVIOUS
  <2>2. q = Those(mine, {i \in DOMAIN mine : mine[i].group = g})
    BY <2>1, <1>1, Zenon DEF GroupOf
  <2>3. groups[g].attempts = Len(q) /\ groups[g].pass = FirstPass(q)
    BY <2>1, <1>8
  <2>4. /\ Len(q) = Cardinality(Among(R, n, g))
        /\ FirstPass(q) # 0 <=> \E r \in 1 .. n : R[r].group = g /\ Succeeded(R[r])
    BY <2>2, <1>2, GroupRows
  <2> QED BY <2>3, <2>4
<1> QED BY <1>6, <1>7, <1>9, <1>10

LEMMA FoldsThen == SessionOK => FoldsAgree
<1> SUFFICES ASSUME SessionOK PROVE FoldsAgree
  OBVIOUS
<1>1. PICK R : R = Runs
  OBVIOUS
<1>2. JournalsOK(journals) /\ RunsOK(R) /\ Standing(R, Len(R), Projection.turns)
  BY <1>1, SessionStands DEF SessionOK
<1>3. Projection = Project(R) /\ Projection.turns = Transcript(R, Len(R))
  BY <1>1, <1>2, RunsInOrder, ProjectionProposes DEF Projection
<1>4. PICK rows : rows = Rows
  OBVIOUS
<1>5. PICK n, h : Tabulates(Executions(rows), R, n, h)
  BY <1>1, <1>2, <1>4, RowsTabulate
<1>6. n \in Nat /\ n = Len(R) /\ R \in Seq(RunSet) /\ DOMAIN R = 1 .. n
  BY <1>2, <1>5 DEF Tabulates, RunsOK
<1>7. PICK T : T = Projection.turns
  OBVIOUS
<1>8. T \in Seq(TurnSet) /\ Refers(R, n, T) /\ Ascending(T) /\ AnsweredIn(R, n, T)
  <2>1. Standing(R, n, T) /\ T = Transcript(R, n)
    BY <1>2, <1>3, <1>6, <1>7
  <2>2. T \in Seq(TurnSet) /\ Refers(R, n, T)
    BY <2>1 DEF Standing
  <2> QED BY <2>1, <2>2, <1>2, <1>6, TalliesHold
<1>9. PICK groups : groups = AttemptGroups(rows)
  OBVIOUS
<1>10. DOMAIN groups = GroupsOf(R, n)
  BY <1>2, <1>5, <1>9, GroupsAre
<1>11. \A g \in GroupsOf(R, n) :
          /\ groups[g].attempts = Cardinality(Among(R, n, g))
          /\ groups[g].pass # 0 <=> \E r \in 1 .. n : R[r].group = g /\ Succeeded(R[r])
  BY <1>2, <1>5, <1>9, GroupsAre
<1>12. PICK L \in Nat : L = Len(T) /\ DOMAIN T = 1 .. L
  BY <1>8
<1>13. ASSUME NEW j \in 1 .. L
       PROVE  T[j].group \in DOMAIN groups /\ groups[T[j].group].attempts >= Len(T[j].refs)
  <2>1. T[j].group \in GroupsOf(R, n) /\ Len(T[j].refs) <= Cardinality(Among(R, n, T[j].group))
    BY <1>2, <1>6, <1>8, <1>12, RefsFit
  <2>2. Len(T[j].refs) \in Nat
    <3>1. T[j] \in TurnSet
      BY <1>8, <1>12
    <3> QED BY <3>1, RefsCounted
  <2>3. Cardinality(Among(R, n, T[j].group)) \in Nat
    <3>1. Among(R, n, T[j].group) \in SUBSET (1 .. n)
      BY DEF Among
    <3> QED BY <3>1, <1>6, Ranks
  <2> QED BY <2>1, <2>2, <2>3, <1>10, <1>11
<1>14. ToSet(T) = {T[j] : j \in 1 .. L}
  BY <1>12 DEF ToSet
<1>15. {g \in DOMAIN groups : groups[g].pass # 0} = {t.group : t \in {u \in ToSet(T) : IsResponse(u.role)}}
  <2>1. ASSUME NEW g \in DOMAIN groups, groups[g].pass # 0
        PROVE  \E t \in ToSet(T) : IsResponse(t.role) /\ t.group = g
    <3>1. PICK r \in 1 .. n : R[r].group = g /\ Succeeded(R[r])
      BY <2>1, <1>10, <1>11
    <3>2. PICK j \in 1 .. L : IsResponse(T[j].role) /\ T[j].group = R[r].group
      BY <3>1, <1>8, <1>12 DEF AnsweredIn
    <3> QED BY <3>1, <3>2, <1>14
  <2>2. ASSUME NEW t \in ToSet(T), IsResponse(t.role)
        PROVE  t.group \in DOMAIN groups /\ groups[t.group].pass # 0
    <3>1. PICK j \in 1 .. L : t = T[j]
      BY <1>14
    <3>2. \E r \in 1 .. n : R[r].group = T[j].group /\ Succeeded(R[r])
      BY <2>2, <3>1, <1>8, <1>12 DEF AnsweredIn
    <3> QED BY <3>1, <3>2, <1>10, <1>11, <1>13
  <2> QED BY <2>1, <2>2
<1>16. PICK p, own : p = Projection /\ own = p.internal
  OBVIOUS
<1>17. PICK fails, mends : /\ fails = Total([r \in DOMAIN R |-> Number(R[r], "failure")], Len(R))
                           /\ mends = Total([r \in DOMAIN R |-> Number(R[r], "repair")], Len(R))
  OBVIOUS
<1>18. /\ own.runs = Len(R) /\ own.failures = fails /\ own.repairs = mends
       /\ own.retries = Cardinality({r \in DOMAIN R : CarriesFeedback(R[r])})
  <2>1. own = Internal(R)
    BY <1>3, <1>16 DEF Project
  <2>2. PICK unreviewed, retries :
           /\ unreviewed = Cardinality({r \in DOMAIN R : ~Reviewed(R[r])})
           /\ retries = Cardinality({r \in DOMAIN R : CarriesFeedback(R[r])})
    OBVIOUS
  <2>3. own = [runs |-> Len(R), retries |-> retries, failures |-> fails, repairs |-> mends,
               unreviewed |-> unreviewed]
    BY <2>1, <2>2, <1>17, Zenon DEF Internal
  <2> QED BY <2>2, <2>3
<1>19. {r \in DOMAIN R : CarriesFeedback(R[r])} = {k \in 1 .. n : R[k].kind = "retry"}
  <2>1. \A r \in 1 .. n : CarriesFeedback(R[r]) <=> R[r].kind = "retry"
    <3>1. \A r \in 1 .. n : R[r] \in RunSet /\ FramesOK(R[r])
      BY <1>2, <1>6 DEF RunsOK, RunOK
    <3> QED BY <3>1, OnlyRetriesAreTold
  <2> QED BY <2>1, <1>6
<1>20. n - Cardinality(DOMAIN groups) = own.retries
  BY <1>2, <1>6, <1>10, <1>18, <1>19, GroupsBegin
<1>21. PICK mine : mine = Executions(rows) /\ Len(mine) = n
  BY <1>5 DEF Tabulates
<1>22. Failures(mine) = fails /\ Repairs(mine) = mends
  BY <1>2, <1>5, <1>17, <1>21, SumsAgree, Zenon
<1>23. PICK all : all = Aggregate(rows)
  OBVIOUS
<1>24. /\ all.runs = n /\ all.failures = fails /\ all.repairs = mends
       /\ all.groups = Cardinality(DOMAIN groups)
  <2>1. PICK succeeded, ratings, samples, retried, converged :
           all = [runs |-> Len(mine), succeeded |-> succeeded, failures |-> Failures(mine),
                  repairs |-> Repairs(mine), ratings |-> ratings, samples |-> samples,
                  groups |-> Cardinality(DOMAIN groups), retried |-> retried,
                  converged |-> converged]
    BY <1>9, <1>21, <1>23, Zenon DEF Aggregate
  <2> QED BY <2>1, <1>21, <1>22
<1>25. SessionMetrics(rows).failures = fails
  <2>1. PICK pass : pass = FirstPass(mine)
    OBVIOUS
  <2>2. SessionMetrics(rows) = [runs |-> Len(mine), pass |-> pass, repairs |-> Repairs(mine),
                                failures |-> Failures(mine)]
    BY <2>1, <1>21, Zenon DEF SessionMetrics
  <2> QED BY <2>2, <1>22
<1>26. \A t \in ToSet(T) : t.role \in HumanInput =>
           t.group \in DOMAIN groups /\ groups[t.group].attempts >= Len(t.refs)
  BY <1>13, <1>14
<1>27. all.runs - all.groups = own.retries /\ own.runs = n
  BY <1>6, <1>18, <1>20, <1>24
<1> QED BY <1>4, <1>7, <1>9, <1>15, <1>16, <1>18, <1>23, <1>24, <1>25, <1>26, <1>27, Zenon
           DEF FoldsAgree

\* Rated or not, whatever its interleaving of failed attempts, repairs and
\* retries, a session has the same books twice: the exchanges that a rater is
\* shown count what `graffy metrics' counts from the rows, which come in
\* another order (boundary.rs project, metrics.rs attempt_groups, aggregate).
THEOREM BooksAgree == Spec => []FoldsAgree
BY SessionHolds, FoldsThen, PTL
=============================================================================
