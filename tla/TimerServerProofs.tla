------------------------- MODULE TimerServerProofs -------------------------
(***************************************************************************)
(* What the timer server keeps, for any set of timers, any periods and any *)
(* interleaving of the thread with the alarm interrupt.                    *)
(***************************************************************************)
EXTENDS TimerServer, FiniteSetTheorems, WellFoundedInduction, TLAPS

(* A non-empty set of naturals has a least element: what the proofs below  *)
(* use for induction over the list.                                        *)
LEMMA LeastOf ==
  ASSUME NEW S \in SUBSET Nat, S # {}
  PROVE  \E m \in S : \A n \in S : m <= n
<1> DEFINE R == OpToRel(<, Nat)
<1>1. \A x, y \in Nat : x < y => <<x, y>> \in R
  BY Zenon DEF OpToRel
<1>2. IsWellFoundedOn(R, Nat)
  BY NatLessThanWellFounded
<1> HIDE DEF R
<1>3. PICK m \in S : \A n \in S : ~(<<n, m>> \in R)
  BY <1>2, WFMin
<1>4. \A n \in S : ~(n < m)
  BY <1>1, <1>3
<1> QED BY <1>4

(* N, the number of the timers, is a natural number.                       *)
LEMMA NumberOfTimers == N \in Nat
BY TimerAssumption, FS_CardinalityType DEF N

-----------------------------------------------------------------------------
(* The list, spelled out: its k nodes in order, each once, linked from the *)
(* head to NoTimer, and exactly the running timers.                        *)
Path(k, p) ==
  /\ p \in [1 .. k -> Timers]
  /\ \A i, j \in 1 .. k : p[i] = p[j] => i = j
  /\ head = IF k = 0 THEN NoTimer ELSE p[1]
  /\ \A i \in 1 .. k : next[p[i]] = IF i = k THEN NoTimer ELSE p[i + 1]
  /\ \A t \in Timers : IsRunning[t] <=> \E i \in 1 .. k : p[i] = t

IsList == \E k \in Nat : \E p \in [1 .. k -> Timers] : Path(k, p)

(* A list without repetition is no longer than the number of the timers.   *)
LEMMA NodesAreFew ==
  ASSUME NEW k \in Nat, NEW p \in [1 .. k -> Timers],
         \A i, j \in 1 .. k : p[i] = p[j] => i = j
  PROVE  k <= N
<1>1. p \in Injection(1 .. k, Timers)
  BY DEF Injection, IsInjective
<1>2. Cardinality(1 .. k) <= Cardinality(Timers)
  BY <1>1, TimerAssumption, FS_Injection
<1>3. Cardinality(1 .. k) = k
  BY FS_Interval
<1> QED BY <1>2, <1>3 DEF N

LEMMA PathIsShort ==
  ASSUME NEW k \in Nat, NEW p, Path(k, p)
  PROVE  k <= N
BY NodesAreFew DEF Path

(* Chain, defined by recursion along the pointers, is that list.           *)
LEMMA ChainIsPath ==
  ASSUME NEW k \in Nat, NEW p, Path(k, p)
  PROVE  \A n \in 0 .. N : Chain[n] = IF n < k THEN p[n + 1] ELSE NoTimer
<1> DEFINE f == [n \in 0 .. N |-> IF n < k THEN p[n + 1] ELSE NoTimer]
<1>1. f = [n \in 0 .. N |-> IF n = 0 THEN head
                            ELSE IF f[n - 1] = NoTimer THEN NoTimer ELSE next[f[n - 1]]]
  <2>1. ASSUME NEW n \in 0 .. N
        PROVE  f[n] = IF n = 0 THEN head
                      ELSE IF f[n - 1] = NoTimer THEN NoTimer ELSE next[f[n - 1]]
    <3>1. CASE n = 0
      BY <3>1, NumberOfTimers DEF Path
    <3>2. CASE n # 0 /\ n - 1 < k
      <4>1. f[n - 1] = p[n] /\ n \in 1 .. k /\ p[n] \in Timers
        BY <3>2, NumberOfTimers DEF Path
      <4> QED BY <3>2, <4>1, TimerAssumption DEF Path
    <3>3. CASE n # 0 /\ ~(n - 1 < k)
      BY <3>3, NumberOfTimers
    <3> QED BY <3>1, <3>2, <3>3
  <2> HIDE DEF f
  <2>2. f = [n \in 0 .. N |-> f[n]]
    BY DEF f
  <2> QED BY <2>1, <2>2
<1>2. Chain = [n \in 0 .. N |-> IF n = 0 THEN head
                 ELSE IF Chain[n - 1] = NoTimer THEN NoTimer ELSE next[Chain[n - 1]]]
  <2> HIDE DEF f
  <2> QED BY <1>1, Zenon DEF Chain
<1>3. \A n \in 0 .. N : Chain[n] = IF n = 0 THEN head
                 ELSE IF Chain[n - 1] = NoTimer THEN NoTimer ELSE next[Chain[n - 1]]
  <2> DEFINE g == Chain
  <2>1. g = [n \in 0 .. N |-> IF n = 0 THEN head
                 ELSE IF g[n - 1] = NoTimer THEN NoTimer ELSE next[g[n - 1]]]
    BY <1>2
  <2> HIDE DEF g
  <2>2. \A n \in 0 .. N : g[n] = IF n = 0 THEN head
                 ELSE IF g[n - 1] = NoTimer THEN NoTimer ELSE next[g[n - 1]]
    BY <2>1
  <2> QED BY <2>2 DEF g
<1>4. \A n \in 0 .. N : f[n] = IF n = 0 THEN head
                 ELSE IF f[n - 1] = NoTimer THEN NoTimer ELSE next[f[n - 1]]
  <2> HIDE DEF f
  <2> QED BY <1>1
<1> DEFINE Wrong == {n \in 0 .. N : Chain[n] # f[n]}
<1>5. Wrong = {}
  <2> SUFFICES ASSUME Wrong # {} PROVE FALSE
    OBVIOUS
  <2> HIDE DEF f
  <2>1. Wrong \in SUBSET Nat
    OBVIOUS
  <2> HIDE DEF Wrong
  <2>2. PICK m \in Wrong : \A n \in Wrong : m <= n
    BY <2>1, LeastOf
  <2>3. m \in 0 .. N /\ Chain[m] # f[m]
    BY DEF Wrong
  <2>4. m # 0
    BY <2>3, <1>3, <1>4
  <2>5. m - 1 \in 0 .. N
    BY <2>3, <2>4, NumberOfTimers
  <2>6. Chain[m - 1] = f[m - 1]
    <3>1. m - 1 \notin Wrong
      BY <2>2, <2>3, NumberOfTimers
    <3> QED BY <2>5, <3>1 DEF Wrong
  <2> QED BY <2>3, <2>4, <2>6, <1>3, <1>4
<1>6. \A n \in 0 .. N : Chain[n] = f[n]
  BY <1>5
<1> QED BY <1>6

(* So the list ends, and holds exactly the running timers.                 *)
LEMMA PathIsListed ==
  ASSUME NEW k \in Nat, NEW p, Path(k, p)
  PROVE  /\ Chain[N] = NoTimer
         /\ Listed = {t \in Timers : IsRunning[t]}
         /\ Listed = {p[i] : i \in 1 .. k}
<1>1. k <= N
  BY PathIsShort
<1>2. \A n \in 0 .. N : Chain[n] = IF n < k THEN p[n + 1] ELSE NoTimer
  BY ChainIsPath
<1>3. Chain[N] = NoTimer
  BY <1>1, <1>2, NumberOfTimers
<1>4. {p[i] : i \in 1 .. k} \subseteq Listed
  <2> SUFFICES ASSUME NEW i \in 1 .. k PROVE p[i] \in Listed
    OBVIOUS
  <2>1. i - 1 \in 0 .. N /\ i - 1 < k /\ (i - 1) + 1 = i
    BY <1>1, NumberOfTimers
  <2>2. Chain[i - 1] = p[i]
    BY <2>1, <1>2
  <2>3. p[i] \in Timers
    BY DEF Path
  <2> QED BY <2>1, <2>2, <2>3, TimerAssumption DEF Listed
<1>5. Listed \subseteq {p[i] : i \in 1 .. k}
  <2> SUFFICES ASSUME NEW t \in Listed PROVE \E i \in 1 .. k : t = p[i]
    OBVIOUS
  <2>1. PICK n \in 0 .. N : t = Chain[n] /\ t # NoTimer
    BY DEF Listed
  <2>2. n < k /\ t = p[n + 1]
    BY <2>1, <1>2
  <2> QED BY <2>2, NumberOfTimers
<1>6. {t \in Timers : IsRunning[t]} = {p[i] : i \in 1 .. k}
  BY DEF Path
<1> QED BY <1>3, <1>4, <1>5, <1>6

-----------------------------------------------------------------------------
(* The list with t put behind its i-th node, and without its i-th node.    *)
With(k, p, i, t) ==
  [j \in 1 .. k + 1 |-> IF j <= i THEN p[j] ELSE IF j = i + 1 THEN t ELSE p[j - 1]]

Without(k, p, i) == [j \in 1 .. k - 1 |-> IF j < i THEN p[j] ELSE p[j + 1]]

(* A timer that is not running, linked in behind the i-th node or in front *)
(* of the first one, leaves a list.                                        *)
LEMMA InsertKeepsPath ==
  ASSUME NEW k \in Nat, NEW p, Path(k, p),
         NEW i \in 0 .. k, NEW t \in Timers, ~IsRunning[t],
         head' = IF i = 0 THEN t ELSE head,
         next'[t] = IF i = 0 THEN head ELSE next[p[i]],
         \A j \in 1 .. k : next'[p[j]] = IF j = i THEN t ELSE next[p[j]],
         \A u \in Timers : IsRunning'[u] <=> (u = t \/ IsRunning[u])
  PROVE  Path(k + 1, With(k, p, i, t))' /\ IsList'
<1> DEFINE q == With(k, p, i, t)
<1>1. \A j \in 1 .. k : p[j] \in Timers /\ p[j] # t
  BY DEF Path
<1>2. q \in [1 .. k + 1 -> Timers]
  <2>1. \A j \in 1 .. k + 1 :
          (IF j <= i THEN p[j] ELSE IF j = i + 1 THEN t ELSE p[j - 1]) \in Timers
    BY <1>1
  <2> QED BY <2>1 DEF With
<1>3. /\ \A j \in 1 .. i : j \in 1 .. k + 1 /\ q[j] = p[j]
      /\ i + 1 \in 1 .. k + 1 /\ q[i + 1] = t
      /\ \A j \in i + 1 .. k : j + 1 \in 1 .. k + 1 /\ q[j + 1] = p[j]
  BY DEF With
<1>4. ASSUME NEW j \in 1 .. k + 1
      PROVE  \/ j \in 1 .. i /\ q[j] = p[j]
             \/ j = i + 1 /\ q[j] = t
             \/ j - 1 \in i + 1 .. k /\ q[j] = p[j - 1]
  BY DEF With
<1> HIDE DEF q
<1>5. \A j, m \in 1 .. k + 1 : q[j] = q[m] => j = m
  <2> SUFFICES ASSUME NEW j \in 1 .. k + 1, NEW m \in 1 .. k + 1, q[j] = q[m]
               PROVE  j = m
    OBVIOUS
  <2>1. \A a, b \in 1 .. k : p[a] = p[b] => a = b
    BY DEF Path
  <2> QED BY <2>1, <1>1, <1>4
<1>6. head' = q[1]
  <2>1. CASE i = 0
    BY <2>1, <1>3
  <2>2. CASE i # 0
    BY <2>2, <1>3 DEF Path
  <2> QED BY <2>1, <2>2
<1>7. ASSUME NEW j \in 1 .. k + 1
      PROVE  next'[q[j]] = IF j = k + 1 THEN NoTimer ELSE q[j + 1]
  <2>1. CASE j \in 1 .. i /\ j # i
    <3>1. q[j] = p[j] /\ q[j + 1] = p[j + 1] /\ j \in 1 .. k /\ j # k
      BY <2>1, <1>3
    <3> QED BY <2>1, <3>1 DEF Path
  <2>2. CASE j = i
    BY <2>2, <1>3
  <2>3. CASE j = i + 1
    <3>1. CASE i = 0
      <4>1. next'[q[j]] = head
        BY <2>3, <3>1, <1>3
      <4>2. CASE k = 0
        BY <4>1, <4>2, <2>3, <3>1 DEF Path
      <4>3. CASE k # 0
        <5>1. q[j + 1] = p[1]
          BY <1>3, <2>3, <3>1, <4>3
        <5> QED BY <4>1, <4>3, <5>1, <2>3, <3>1 DEF Path
      <4> QED BY <4>2, <4>3
    <3>2. CASE i # 0
      <4>1. next'[q[j]] = next[p[i]]
        BY <2>3, <3>2, <1>3
      <4>2. CASE i = k
        BY <4>1, <4>2, <2>3, <3>2 DEF Path
      <4>3. CASE i # k
        <5>1. q[j + 1] = p[i + 1]
          BY <1>3, <2>3, <3>2, <4>3
        <5> QED BY <4>1, <4>3, <5>1, <2>3, <3>2 DEF Path
      <4> QED BY <4>2, <4>3
    <3> QED BY <3>1, <3>2
  <2>4. CASE j - 1 \in i + 1 .. k
    <3>1. q[j] = p[j - 1] /\ j - 1 \in 1 .. k /\ j - 1 # i
      BY <2>4, <1>4
    <3>2. next'[q[j]] = next[p[j - 1]]
      BY <3>1
    <3>3. CASE j = k + 1
      BY <3>1, <3>2, <3>3 DEF Path
    <3>4. CASE j # k + 1
      <4>1. q[j + 1] = p[j]
        BY <2>4, <3>4, <1>3
      <4> QED BY <3>1, <3>2, <3>4, <4>1 DEF Path
    <3> QED BY <3>3, <3>4
  <2> QED BY <2>1, <2>2, <2>3, <2>4
<1>8. ASSUME NEW u \in Timers
      PROVE  IsRunning'[u] <=> \E j \in 1 .. k + 1 : q[j] = u
  <2>1. ASSUME IsRunning'[u] PROVE \E j \in 1 .. k + 1 : q[j] = u
    <3>1. CASE u = t
      BY <3>1, <1>3
    <3>2. CASE IsRunning[u]
      <4>1. PICK j \in 1 .. k : p[j] = u
        BY <3>2 DEF Path
      <4>2. CASE j <= i
        BY <4>1, <4>2, <1>3
      <4>3. CASE ~(j <= i)
        BY <4>1, <4>3, <1>3
      <4> QED BY <4>2, <4>3
    <3> QED BY <2>1, <3>1, <3>2
  <2>2. ASSUME NEW j \in 1 .. k + 1, q[j] = u PROVE IsRunning'[u]
    <3>1. u = t \/ \E m \in 1 .. k : p[m] = u
      BY <2>2, <1>4
    <3> QED BY <3>1 DEF Path
  <2> QED BY <2>1, <2>2
<1>9. Path(k + 1, q)'
  BY <1>2, <1>5, <1>6, <1>7, <1>8 DEF Path
<1>10. IsList'
  BY <1>2, <1>9 DEF IsList
<1> QED BY <1>9, <1>10 DEF q

(* The i-th node, taken out by its predecessor or by the head, leaves one. *)
LEMMA RemoveKeepsPath ==
  ASSUME NEW k \in Nat, NEW p, Path(k, p), NEW i \in 1 .. k,
         head' = IF i = 1 THEN next[p[1]] ELSE head,
         \A j \in 1 .. k : j # i =>
            next'[p[j]] = IF j = i - 1 THEN next[p[i]] ELSE next[p[j]],
         \A u \in Timers : IsRunning'[u] <=> (u # p[i] /\ IsRunning[u])
  PROVE  Path(k - 1, Without(k, p, i))' /\ IsList'
<1> DEFINE q == Without(k, p, i)
<1>1. \A j \in 1 .. k : p[j] \in Timers
  BY DEF Path
<1>2. q \in [1 .. k - 1 -> Timers]
  <2>1. \A j \in 1 .. k - 1 : (IF j < i THEN p[j] ELSE p[j + 1]) \in Timers
    BY <1>1
  <2> QED BY <2>1 DEF Without
<1>3. \A j \in 1 .. k - 1 : q[j] = IF j < i THEN p[j] ELSE p[j + 1]
  BY DEF Without
<1> HIDE DEF q
<1>4. \A a, b \in 1 .. k : p[a] = p[b] => a = b
  BY DEF Path
<1>5. \A j, m \in 1 .. k - 1 : q[j] = q[m] => j = m
  BY <1>3, <1>4
<1>6. \A j \in 1 .. k : next[p[j]] = IF j = k THEN NoTimer ELSE p[j + 1]
  BY DEF Path
<1>7. head' = IF k - 1 = 0 THEN NoTimer ELSE q[1]
  <2>1. CASE i = 1
    BY <2>1, <1>3, <1>6
  <2>2. CASE i # 1
    BY <2>2, <1>3 DEF Path
  <2> QED BY <2>1, <2>2
<1>8. ASSUME NEW j \in 1 .. k - 1
      PROVE  next'[q[j]] = IF j = k - 1 THEN NoTimer ELSE q[j + 1]
  <2>1. CASE j < i - 1
    BY <2>1, <1>3, <1>6
  <2>2. CASE j = i - 1
    <3>1. next'[q[j]] = next[p[i]]
      BY <2>2, <1>3
    <3> QED BY <2>2, <3>1, <1>3, <1>6
  <2>3. CASE j >= i
    <3>1. q[j] = p[j + 1] /\ j + 1 \in 1 .. k /\ j + 1 # i /\ j + 1 # i - 1
      BY <2>3, <1>3
    <3>2. next'[q[j]] = next[p[j + 1]]
      BY <3>1
    <3> QED BY <2>3, <3>1, <3>2, <1>3, <1>6
  <2> QED BY <2>1, <2>2, <2>3
<1>9. ASSUME NEW u \in Timers
      PROVE  IsRunning'[u] <=> \E j \in 1 .. k - 1 : q[j] = u
  <2>1. ASSUME IsRunning'[u] PROVE \E j \in 1 .. k - 1 : q[j] = u
    <3>1. PICK j \in 1 .. k : p[j] = u /\ j # i
      BY <2>1 DEF Path
    <3>2. CASE j < i
      BY <3>1, <3>2, <1>3
    <3>3. CASE j > i
      <4>1. j - 1 \in 1 .. k - 1 /\ q[j - 1] = p[j]
        BY <3>1, <3>3, <1>3
      <4> QED BY <3>1, <4>1
    <3> QED BY <3>1, <3>2, <3>3
  <2>2. ASSUME NEW j \in 1 .. k - 1, q[j] = u PROVE IsRunning'[u]
    <3>1. PICK m \in 1 .. k : p[m] = u /\ m # i
      BY <2>2, <1>3
    <3>2. u # p[i] /\ IsRunning[u]
      BY <3>1, <1>4 DEF Path
    <3> QED BY <3>2
  <2> QED BY <2>1, <2>2
<1>10. k - 1 \in Nat
  OBVIOUS
<1>11. Path(k - 1, q)'
  BY <1>2, <1>5, <1>7, <1>8, <1>9 DEF Path
<1>12. IsList'
  BY <1>2, <1>10, <1>11 DEF IsList
<1> QED BY <1>11, <1>12 DEF q

(* What leaves the pointers of its nodes alone leaves the list alone.      *)
LEMMA SamePath ==
  ASSUME NEW k \in Nat, NEW p, Path(k, p), head' = head,
         \A j \in 1 .. k : next'[p[j]] = next[p[j]],
         \A u \in Timers : IsRunning'[u] <=> IsRunning[u]
  PROVE  Path(k, p)' /\ IsList'
<1>1. Path(k, p)'
  BY DEF Path
<1>2. p \in [1 .. k -> Timers]
  BY DEF Path
<1> QED BY <1>1, <1>2 DEF IsList

-----------------------------------------------------------------------------
(* TimerInsertTimer() finds a node to insert behind: its loop ends.  It is *)
(* the first whose successor, if any, is not earlier than the new node.    *)
LEMMA PredecessorIsListed ==
  ASSUME NEW k \in Nat, NEW p, Path(k, p), head # NoTimer, NEW stamp
  PROVE  \E i \in 1 .. k :
           /\ Predecessor(stamp) = p[i]
           /\ i = k \/ stamp <= Timestamp[p[i + 1]]
           /\ \A j \in 2 .. i : ~(stamp <= Timestamp[p[j]])
<1> DEFINE fits(n) == /\ Chain[n] # NoTimer
                      /\ \/ next[Chain[n]] = NoTimer
                         \/ stamp <= Timestamp[next[Chain[n]]]
           Fit == {n \in 0 .. N - 1 : fits(n)}
<1>1. k # 0 /\ k <= N
  BY PathIsShort DEF Path
<1>2. \A n \in 0 .. N : Chain[n] = IF n < k THEN p[n + 1] ELSE NoTimer
  BY ChainIsPath
<1>3. \A n \in 1 .. k : p[n] # NoTimer
  BY TimerAssumption DEF Path
<1>4. k - 1 \in Fit
  <2>1. k - 1 \in 0 .. N - 1
    BY <1>1, NumberOfTimers
  <2>2. Chain[k - 1] = p[k]
    <3>1. k - 1 \in 0 .. N /\ k - 1 < k /\ (k - 1) + 1 = k
      BY <1>1, NumberOfTimers
    <3> QED BY <3>1, <1>2
  <2>3. next[p[k]] = NoTimer
    BY <1>1 DEF Path
  <2>4. fits(k - 1)
    BY <2>2, <2>3, <1>1, <1>3
  <2> QED BY <2>1, <2>4
<1>5. Fit \in SUBSET Nat
  BY NumberOfTimers
<1>6. PICK n \in Fit : \A m \in Fit : n <= m
  <2> HIDE DEF Fit
  <2> QED BY <1>4, <1>5, LeastOf
<1>7. n \in 0 .. N - 1 /\ fits(n) /\ \A m \in 0 .. n - 1 : ~fits(m)
  <2>1. n \in 0 .. N - 1 /\ fits(n)
    OBVIOUS
  <2>2. ASSUME NEW m \in 0 .. n - 1, fits(m) PROVE FALSE
    <3>1. m \in 0 .. N - 1 /\ m < n
      BY <2>1, NumberOfTimers
    <3>2. m \in Fit
      BY <3>1, <2>2
    <3> HIDE DEF fits, Fit
    <3> QED BY <3>1, <3>2, <1>6, <2>1, NumberOfTimers
  <2> QED BY <2>1, <2>2
<1> DEFINE c == CHOOSE m \in 0 .. N - 1 : fits(m) /\ \A l \in 0 .. m - 1 : ~fits(l)
<1>8. c \in 0 .. N - 1 /\ fits(c) /\ \A m \in 0 .. c - 1 : ~fits(m)
  <2> HIDE DEF fits
  <2> QED BY <1>7
<1>9. Predecessor(stamp) = Chain[c]
  BY Zenon DEF Predecessor
<1> HIDE DEF c
<1>10. c \in 0 .. N /\ Chain[c] # NoTimer
  BY <1>8, NumberOfTimers
<1>11. c \in Nat /\ c + 1 \in 1 .. k /\ Chain[c] = p[c + 1]
  BY <1>2, <1>10, NumberOfTimers
<1>12. c + 1 = k \/ stamp <= Timestamp[p[c + 2]]
  <2>1. next[p[c + 1]] = IF c + 1 = k THEN NoTimer ELSE p[(c + 1) + 1]
    BY <1>11 DEF Path
  <2>2. (c + 1) + 1 = c + 2
    BY <1>11
  <2>3. c + 1 # k => p[c + 2] # NoTimer
    BY <1>3, <1>11
  <2> QED BY <2>1, <2>2, <2>3, <1>8, <1>11
<1>13. ASSUME NEW j \in 2 .. c + 1
       PROVE  ~(stamp <= Timestamp[p[j]])
  <2>0. j \in Nat /\ 2 <= j /\ j <= c + 1 /\ c + 1 <= k /\ c <= N - 1 /\ N \in Nat
    BY <1>8, <1>11, NumberOfTimers
  <2>1. j - 2 \in 0 .. c - 1 /\ j - 2 \in 0 .. N /\ j - 2 < k /\ (j - 2) + 1 = j - 1
        /\ j - 1 \in 1 .. k /\ j - 1 # k /\ (j - 1) + 1 = j
    BY <2>0, <1>11
  <2>2. Chain[j - 2] = p[j - 1]
    BY <1>2, <2>1
  <2>3. next[p[j - 1]] = p[j]
    BY <2>1 DEF Path
  <2>4. ~fits(j - 2)
    BY <1>8, <2>1
  <2> QED BY <1>3, <2>1, <2>2, <2>3, <2>4
<1>14. (c + 1) + 1 = c + 2
  BY <1>11
<1> QED BY <1>9, <1>11, <1>12, <1>13, <1>14

(* UTIL_TIMER_Start() of a timer that is not running, at any Timestamp.    *)
LEMMA StartPath ==
  ASSUME TypeOK, NEW k \in Nat, NEW p, Path(k, p), NEW t \in Timers, ~IsRunning[t],
         IsRunning' = [IsRunning EXCEPT ![t] = TRUE], NEW stamp
  PROVE  /\ InsertFirst(t, stamp) => k = 0 /\ Path(k + 1, With(k, p, 0, t))'
         /\ InsertNewHead(t, stamp) => Path(k + 1, With(k, p, 0, t))'
         /\ InsertBehind(t, stamp) =>
              \E i \in 1 .. k : /\ Path(k + 1, With(k, p, i, t))'
                                /\ i = k \/ stamp <= Timestamp[p[i + 1]]
                                /\ \A j \in 2 .. i : ~(stamp <= Timestamp[p[j]])
<1>2. next \in [Timers -> Timers \cup {NoTimer}] /\ IsRunning \in [Timers -> BOOLEAN]
  BY DEF TypeOK
<1>3. \A u \in Timers : IsRunning'[u] <=> (u = t \/ IsRunning[u])
  BY <1>2
<1>4. \A j \in 1 .. k : p[j] \in Timers /\ p[j] # t
  BY DEF Path
<1>5. ASSUME InsertFirst(t, stamp) PROVE k = 0 /\ Path(k + 1, With(k, p, 0, t))'
  <2>1. head = NoTimer /\ head' = t /\ next' = [next EXCEPT ![t] = NoTimer]
    BY <1>5 DEF InsertFirst
  <2>2. k = 0
    BY <2>1, TimerAssumption DEF Path
  <2> QED BY <1>2, <1>3, <2>1, <2>2, InsertKeepsPath
<1>6. ASSUME InsertNewHead(t, stamp) PROVE Path(k + 1, With(k, p, 0, t))'
  <2>1. head' = t /\ next' = [next EXCEPT ![t] = head]
    BY <1>6 DEF InsertNewHead
  <2>2. next'[t] = head /\ \A j \in 1 .. k : next'[p[j]] = next[p[j]]
    BY <1>2, <1>4, <2>1
  <2>3. 0 \in 0 .. k /\ \A j \in 1 .. k : j # 0
    OBVIOUS
  <2> QED BY <1>3, <2>1, <2>2, <2>3, InsertKeepsPath
<1>7. ASSUME InsertBehind(t, stamp)
      PROVE  \E i \in 1 .. k : /\ Path(k + 1, With(k, p, i, t))'
                               /\ i = k \/ stamp <= Timestamp[p[i + 1]]
                               /\ \A j \in 2 .. i : ~(stamp <= Timestamp[p[j]])
  <2>1. head # NoTimer /\ head' = head
        /\ next' = [next EXCEPT ![Predecessor(stamp)] = t,
                                ![t] = next[Predecessor(stamp)]]
    BY <1>7 DEF InsertBehind
  <2>2. PICK i \in 1 .. k : /\ Predecessor(stamp) = p[i]
                            /\ i = k \/ stamp <= Timestamp[p[i + 1]]
                            /\ \A j \in 2 .. i : ~(stamp <= Timestamp[p[j]])
    BY <2>1, PredecessorIsListed
  <2>3. next'[t] = next[p[i]]
    BY <1>2, <1>4, <2>1, <2>2
  <2>4. \A j \in 1 .. k : next'[p[j]] = IF j = i THEN t ELSE next[p[j]]
    <3>1. \A j \in 1 .. k : p[j] = p[i] => j = i
      BY DEF Path
    <3> QED BY <1>2, <1>4, <2>1, <2>2, <3>1
  <2>5. i \in 0 .. k /\ i # 0
    OBVIOUS
  <2>6. /\ head' = IF i = 0 THEN t ELSE head
        /\ next'[t] = IF i = 0 THEN head ELSE next[p[i]]
    BY <2>1, <2>3, <2>5
  <2>7. Path(k + 1, With(k, p, i, t))'
    BY <1>3, <2>4, <2>5, <2>6, InsertKeepsPath
  <2> QED BY <2>2, <2>7
<1> QED BY <1>5, <1>6, <1>7

LEMMA StartKeepsList ==
  ASSUME TypeOK, IsList, NEW t \in Timers, ~IsRunning[t], StartNow(t)
  PROVE  IsList'
<1>0. PICK k \in Nat : \E p \in [1 .. k -> Timers] : Path(k, p)
  BY DEF IsList
<1>1. PICK p \in [1 .. k -> Timers] : Path(k, p)
  BY <1>0
<1>2. IsRunning' = [IsRunning EXCEPT ![t] = TRUE]
  BY DEF StartNow
<1>3. \E ticks, stamp : \/ InsertFirst(t, ticks)
                        \/ InsertNewHead(t, stamp) \/ InsertBehind(t, stamp)
  BY Zenon DEF StartNow
<1>4. \E i \in 0 .. k : Path(k + 1, With(k, p, i, t))'
  <2>1. ASSUME NEW ticks, InsertFirst(t, ticks) \/ InsertNewHead(t, ticks)
        PROVE  Path(k + 1, With(k, p, 0, t))'
    BY <1>1, <1>2, <2>1, StartPath
  <2>2. ASSUME NEW stamp, InsertBehind(t, stamp)
        PROVE  \E i \in 1 .. k : Path(k + 1, With(k, p, i, t))'
    BY <1>1, <1>2, <2>2, StartPath
  <2> QED BY <1>3, <2>1, <2>2
<1>5. PICK i \in 0 .. k : Path(k + 1, With(k, p, i, t))'
  BY <1>4
<1>6. With(k, p, i, t) \in [1 .. k + 1 -> Timers] /\ k + 1 \in Nat
  BY <1>5 DEF Path
<1> QED BY <1>5, <1>6 DEF IsList

(* UTIL_TIMER_Stop() of any timer, listed or not.                          *)
LEMMA StopPath ==
  ASSUME TypeOK, NEW k \in Nat, NEW p, Path(k, p), NEW t \in Timers, Stop(t)
  PROVE  \/ ~IsRunning[t] /\ Path(k, p)'
         \/ \E i \in 1 .. k : p[i] = t /\ Path(k - 1, Without(k, p, i))'
<1>1. Path(k, p)
  OBVIOUS
<1>2. next \in [Timers -> Timers \cup {NoTimer}] /\ IsRunning \in [Timers -> BOOLEAN]
  BY DEF TypeOK
<1>3. \A j \in 1 .. k : p[j] \in Timers
  BY DEF Path
<1>4. \A a, b \in 1 .. k : p[a] = p[b] => a = b
  BY <1>1 DEF Path
<1>5. CASE head = NoTimer
  <2>1. head' = head /\ next' = next /\ IsRunning' = IsRunning
    BY <1>5 DEF Stop
  <2>2. k = 0
    BY <1>5, TimerAssumption DEF Path
  <2>3. ~IsRunning[t]
    BY <2>2 DEF Path
  <2> QED BY <1>1, <2>1, <2>3, SamePath
<1>6. CASE head # NoTimer
  <2>1. IsRunning' = [IsRunning EXCEPT ![t] = FALSE] /\ (RemoveHead(t) \/ RemoveInside(t))
    BY <1>6 DEF Stop
  <2>2. \A u \in Timers : IsRunning'[u] <=> (u # t /\ IsRunning[u])
    BY <1>2, <2>1
  <2>3. k # 0 /\ head = p[1]
    BY <1>1, <1>6 DEF Path
  <2>4. CASE RemoveHead(t)
    <3>1. t = p[1] /\ head' = next[p[1]] /\ next' = next /\ 1 \in 1 .. k
      BY <2>3, <2>4 DEF RemoveHead
    <3>2. \A j \in 1 .. k : j # 1 => next'[p[j]] = IF j = 1 - 1 THEN next[p[1]] ELSE next[p[j]]
      BY <3>1
    <3> QED BY <1>1, <2>2, <3>1, <3>2, RemoveKeepsPath
  <2>5. CASE RemoveInside(t)
    <3>1. head # t /\ head' = head
          /\ next' = [q \in Timers |-> IF q \in Listed /\ next[q] = t THEN next[t] ELSE next[q]]
      BY <2>5 DEF RemoveInside
    <3>2. \A j \in 1 .. k : p[j] \in Listed
      BY <1>1, PathIsListed
    <3>3. \A j \in 1 .. k : next'[p[j]] = IF next[p[j]] = t THEN next[t] ELSE next[p[j]]
      BY <1>3, <3>1, <3>2
    <3>4. \A j \in 1 .. k : next[p[j]] = IF j = k THEN NoTimer ELSE p[j + 1]
      BY <1>1 DEF Path
    <3>5. CASE IsRunning[t]
      <4>1. PICK i \in 1 .. k : p[i] = t
        BY <1>1, <3>5 DEF Path
      <4>2. i # 1
        BY <2>3, <3>1, <4>1
      <4>3. \A j \in 1 .. k : next[p[j]] = t <=> j = i - 1
        BY <1>4, <3>4, <4>1, <4>2, TimerAssumption
      <4>4. \A j \in 1 .. k : j # i =>
              next'[p[j]] = IF j = i - 1 THEN next[p[i]] ELSE next[p[j]]
        BY <3>3, <4>1, <4>3
      <4>5. head' = IF i = 1 THEN next[p[1]] ELSE head
        BY <3>1, <4>2
      <4>6. \A u \in Timers : IsRunning'[u] <=> (u # p[i] /\ IsRunning[u])
        BY <2>2, <4>1
      <4>7. Path(k - 1, Without(k, p, i))'
        BY <1>1, <4>4, <4>5, <4>6, RemoveKeepsPath
      <4> QED BY <4>1, <4>7
    <3>6. CASE ~IsRunning[t]
      <4>1. \A j \in 1 .. k : p[j] # t
        BY <1>1, <3>6 DEF Path
      <4>2. \A j \in 1 .. k : next[p[j]] # t
        <5>1. \A j \in 1 .. k : j # k => j + 1 \in 1 .. k
          OBVIOUS
        <5>2. t # NoTimer
          BY TimerAssumption
        <5> QED BY <3>4, <4>1, <5>1, <5>2
      <4>3. \A j \in 1 .. k : next'[p[j]] = next[p[j]]
        BY <3>3, <4>2
      <4> QED BY <1>1, <2>2, <3>1, <3>6, <4>3, SamePath
    <3> QED BY <3>5, <3>6
  <2> QED BY <2>1, <2>4, <2>5
<1> QED BY <1>5, <1>6

LEMMA StopKeepsList ==
  ASSUME TypeOK, IsList, NEW t \in Timers, Stop(t)
  PROVE  IsList'
<1>0. PICK k \in Nat : \E p \in [1 .. k -> Timers] : Path(k, p)
  BY DEF IsList
<1>1. PICK p \in [1 .. k -> Timers] : Path(k, p)
  BY <1>0
<1>2. CASE Path(k, p)'
  BY <1>2 DEF IsList
<1>3. ASSUME NEW i \in 1 .. k, Path(k - 1, Without(k, p, i))' PROVE IsList'
  <2>1. Without(k, p, i) \in [1 .. k - 1 -> Timers] /\ k - 1 \in Nat
    BY <1>3 DEF Path
  <2> QED BY <1>3, <2>1 DEF IsList
<1> QED BY <1>1, <1>2, <1>3, StopPath

(* The removal of an expired head by the interrupt handler.                *)
LEMMA ExpiryPath ==
  ASSUME TypeOK, NEW k \in Nat, NEW p, Path(k, p), HandlerExpires
  PROVE  k # 0 /\ Path(k - 1, Without(k, p, 1))'
<1>2. head # NoTimer /\ head' = next[head] /\ next' = next
      /\ IsRunning' = [IsRunning EXCEPT ![head] = FALSE]
  BY DEF HandlerExpires, HeadExpired
<1>3. k # 0 /\ head = p[1] /\ 1 \in 1 .. k
  BY <1>2 DEF Path
<1>4. \A u \in Timers : IsRunning'[u] <=> (u # p[1] /\ IsRunning[u])
  BY <1>2, <1>3 DEF TypeOK
<1>5. \A j \in 1 .. k : j # 1 => next'[p[j]] = IF j = 1 - 1 THEN next[p[1]] ELSE next[p[j]]
  BY <1>2
<1> QED BY <1>2, <1>3, <1>4, <1>5, RemoveKeepsPath

LEMMA ExpiryKeepsList ==
  ASSUME TypeOK, IsList, HandlerExpires
  PROVE  IsList'
<1>0. PICK k \in Nat : \E p \in [1 .. k -> Timers] : Path(k, p)
  BY DEF IsList
<1>1. PICK p \in [1 .. k -> Timers] : Path(k, p)
  BY <1>0
<1>2. k # 0 /\ Path(k - 1, Without(k, p, 1))'
  BY <1>1, ExpiryPath
<1>3. Without(k, p, 1) \in [1 .. k - 1 -> Timers] /\ k - 1 \in Nat
  BY <1>2 DEF Path
<1> QED BY <1>2, <1>3 DEF IsList

-----------------------------------------------------------------------------
(* The inductive invariant.  ServerOK is what every operation on the list  *)
(* keeps: the list; no alarm but the head's; and for each running timer a  *)
(* Timestamp that is not before its deadline.                              *)
ServerTypes ==
  /\ head \in Timers \cup {NoTimer}
  /\ next \in [Timers -> Timers \cup {NoTimer}]
  /\ Timestamp \in [Timers -> Nat] /\ ReloadValue \in [Timers -> Periods]
  /\ IsPending \in [Timers -> BOOLEAN] /\ IsRunning \in [Timers -> BOOLEAN]
  /\ IsReloadStopped \in [Timers -> BOOLEAN]
  /\ elapsed \in Nat /\ alarm \in Nat \cup {NoAlarm} /\ irq \in BOOLEAN
  /\ left \in [Timers -> Int]

OnlyHeadPends == \A t \in Timers : IsPending[t] => t = head

DeadlineOK ==
  \A t \in Timers : IF IsRunning[t] THEN left[t] <= Timestamp[t] - elapsed ELSE left[t] = 0

ServerOK ==
  ServerTypes /\ IsList /\ (irq => alarm = NoAlarm) /\ OnlyHeadPends /\ DeadlineOK

(* A head that says it has an alarm has one: pending since its Timestamp,  *)
(* or set to it in the future.                                             *)
AlarmAnswers ==
  head # NoTimer /\ IsPending[head] =>
    \/ irq /\ Timestamp[head] <= elapsed
    \/ ~irq /\ alarm = Timestamp[head] /\ elapsed < alarm

HeadPends == head # NoTimer => IsPending[head]

(* While the handler runs the head may have no alarm, or the one that was  *)
(* just served.                                                            *)
AlarmOK ==
  /\ hpc = "none" => HeadPends
  /\ AlarmAnswers \/ (hpc = "loop" /\ head # NoTimer /\ Timestamp[head] = 0)

(* The locals of the two actors.  A timer that the thread has decided to   *)
(* insert is not running, and not the one whose callback is executing.     *)
ActorsOK ==
  /\ periodic \subseteq Timers /\ busy \in 0 .. MaxBusy
  /\ mpc \in {"idle", "read", "find", "stop", "insert"}
  /\ mop \in {"none", "start", "setPeriod", "startWithPeriod"}
  /\ mtimer \in Timers \cup {NoTimer} /\ mcur \in Timers \cup {NoTimer}
  /\ mpc # "idle" => mtimer \in Timers
  /\ hpc \in {"none", "loop", "callback", "reload"}
  /\ hcur \in Timers \cup {NoTimer}
  /\ hpc \in {"callback", "reload"} <=> hcur # NoTimer

InsertOK == mpc = "insert" => ~IsRunning[mtimer] /\ hcur # mtimer

TimerInv == ServerOK /\ AlarmOK /\ ActorsOK /\ InsertOK

(* UTIL_TIMER_Create() is not called on a timer that is in the list, and   *)
(* no callback starts a timer between the tests and the critical section   *)
(* of the thread's own UTIL_TIMER_Start() of it.                           *)
WellUsed ==
  /\ CreatesListed = FALSE \/ Recreated = {}
  /\ StartsTested = FALSE \/ Starts = [t \in Timers |-> {}]

(* The typing of the server's part is what the lemmas on the list need.    *)
LEMMA TypesFit == ServerTypes /\ ActorsOK => TypeOK
BY DEF ServerTypes, ActorsOK, TypeOK

-----------------------------------------------------------------------------
(* The head is running, and its Next is another timer, running too.        *)
LEMMA HeadAndNext ==
  ASSUME IsList, head # NoTimer
  PROVE  /\ head \in Timers /\ IsRunning[head] /\ next[head] # head
         /\ next[head] # NoTimer => next[head] \in Timers /\ IsRunning[next[head]]
<1>0. PICK k \in Nat : \E p \in [1 .. k -> Timers] : Path(k, p)
  BY DEF IsList
<1>1. PICK p \in [1 .. k -> Timers] : Path(k, p)
  BY <1>0
<1>2. k # 0 /\ head = p[1] /\ 1 \in 1 .. k
  BY <1>1 DEF Path
<1>3. \A i \in 1 .. k : p[i] \in Timers /\ IsRunning[p[i]]
  BY <1>1 DEF Path
<1>4. next[head] = IF k = 1 THEN NoTimer ELSE p[2]
  BY <1>1, <1>2 DEF Path
<1>5. k # 1 => 2 \in 1 .. k /\ p[2] # p[1]
  BY <1>1, <1>2 DEF Path
<1> QED BY <1>2, <1>3, <1>4, <1>5, TimerAssumption

(* No timer runs while the list is empty.                                  *)
LEMMA EmptyList ==
  ASSUME IsList, head = NoTimer
  PROVE  \A t \in Timers : ~IsRunning[t]
<1>0. PICK k \in Nat : \E p \in [1 .. k -> Timers] : Path(k, p)
  BY DEF IsList
<1>1. PICK p \in [1 .. k -> Timers] : Path(k, p)
  BY <1>0
<1>2. k = 0
  BY <1>1, TimerAssumption DEF Path
<1> QED BY <1>1, <1>2 DEF Path

(* TimerSetTimeout() only postpones.                                       *)
LEMMA TimeoutPostpones ==
  ASSUME NEW s \in Nat, elapsed \in Nat
  PROVE  Timeout(s) \in Nat /\ s <= Timeout(s) /\ elapsed < Timeout(s)
BY TimerAssumption DEF Timeout, Larger

(* The critical section of UTIL_TIMER_Start(), whoever enters it.          *)
LEMMA StartKeepsServer ==
  ASSUME TypeOK, ServerOK, AlarmAnswers, NEW t \in Timers, ~IsRunning[t], StartNow(t)
  PROVE  ServerOK' /\ AlarmAnswers' /\ (HeadPends => HeadPends')
<1> DEFINE ticks == Larger(ReloadValue[t], MinTimeout)
<1>1. IsList'
  BY StartKeepsList DEF ServerOK
<1>2. ServerTypes
  BY DEF ServerOK
<1>3. ticks \in Nat /\ ticks >= MinTimeout /\ MinTimeout \in Nat \ {0}
  <2>1. ReloadValue[t] \in Nat /\ MinTimeout \in Nat \ {0}
    BY <1>2, TimerAssumption DEF ServerTypes
  <2> QED BY <2>1 DEF Larger
<1> HIDE DEF ticks
<1>4. /\ \/ InsertFirst(t, ticks)
         \/ InsertNewHead(t, ticks + elapsed)
         \/ InsertBehind(t, ticks + elapsed)
      /\ IsRunning' = [IsRunning EXCEPT ![t] = TRUE]
      /\ IsReloadStopped' = [IsReloadStopped EXCEPT ![t] = FALSE]
      /\ left' = [left EXCEPT ![t] = ticks]
      /\ ReloadValue' = ReloadValue
  BY DEF StartNow, ticks
<1>5. /\ IsRunning' \in [Timers -> BOOLEAN] /\ IsReloadStopped' \in [Timers -> BOOLEAN]
      /\ left' \in [Timers -> Int] /\ ReloadValue' \in [Timers -> Periods]
  BY <1>2, <1>3, <1>4 DEF ServerTypes
<1>6. CASE InsertFirst(t, ticks)
  <2> USE <1>6 DEF InsertFirst, StartTimerEvt
  <2>1. Larger(ticks, MinTimeout) = ticks
    BY <1>3 DEF Larger
  <2>2. ServerTypes'
    BY <1>2, <1>3, <1>5, <2>1 DEF ServerTypes
  <2>3. OnlyHeadPends'
    BY <1>2, TimerAssumption DEF ServerTypes, ServerOK, OnlyHeadPends
  <2>4. DeadlineOK'
    <3>1. \A u \in Timers : IsRunning'[u] => u = t
      BY <1>2, <1>4, EmptyList DEF ServerOK, ServerTypes
    <3>2. left'[t] = ticks /\ Timestamp'[t] = ticks /\ elapsed' = 0
      BY <1>2, <1>4, <2>1 DEF ServerTypes
    <3>3. \A u \in Timers : u # t => left'[u] = 0 /\ ~IsRunning'[u]
      <4>1. \A u \in Timers : ~IsRunning[u]
        BY EmptyList DEF ServerOK
      <4>2. \A u \in Timers : left[u] = 0
        BY <4>1 DEF ServerOK, DeadlineOK
      <4>3. \A u \in Timers : u # t => left'[u] = left[u]
        BY <1>2, <1>4 DEF ServerTypes
      <4> QED BY <3>1, <4>2, <4>3
    <3>4. left'[t] <= Timestamp'[t] - elapsed' /\ IsRunning'[t]
      BY <1>2, <1>3, <1>4, <3>2 DEF ServerTypes
    <3> HIDE <1>6
    <3> QED BY <3>3, <3>4 DEF DeadlineOK
  <2>5. AlarmAnswers' /\ HeadPends'
    BY <1>2, <1>3, <2>1 DEF ServerTypes, AlarmAnswers, HeadPends
  <2> QED BY <1>1, <2>2, <2>3, <2>4, <2>5 DEF ServerOK
<1>7. CASE InsertNewHead(t, ticks + elapsed)
  <2> USE <1>7 DEF InsertNewHead, StartTimerEvt
  <2> DEFINE s == Timeout(ticks + elapsed)
  <2>1. s \in Nat /\ ticks + elapsed <= s /\ elapsed < s
    BY <1>2, <1>3, TimeoutPostpones DEF ServerTypes
  <2>2. /\ Timestamp' = [Timestamp EXCEPT ![t] = s]
        /\ alarm' = s /\ irq' = FALSE /\ elapsed' = elapsed /\ head' = t
        /\ next' = [next EXCEPT ![t] = head]
        /\ IsPending' = [IsPending EXCEPT ![head] = FALSE, ![t] = TRUE]
    OBVIOUS
  <2> HIDE <1>7 DEF s, InsertNewHead, StartTimerEvt
  <2>3. ServerTypes'
    BY <1>2, <1>5, <2>1, <2>2 DEF ServerTypes
  <2>4. OnlyHeadPends'
    BY <1>2, <2>2 DEF ServerTypes, ServerOK, OnlyHeadPends
  <2>5. DeadlineOK'
    BY <1>2, <1>3, <1>4, <2>1, <2>2 DEF ServerTypes, ServerOK, DeadlineOK
  <2>6. AlarmAnswers' /\ HeadPends'
    BY <1>2, <2>1, <2>2 DEF ServerTypes, AlarmAnswers, HeadPends
  <2> QED BY <1>1, <2>2, <2>3, <2>4, <2>5, <2>6 DEF ServerOK
<1>8. CASE InsertBehind(t, ticks + elapsed)
  <2> DEFINE q == Predecessor(ticks + elapsed)
  <2>1. /\ head # NoTimer /\ head' = head
        /\ next' = [next EXCEPT ![q] = t, ![t] = next[q]]
        /\ Timestamp' = [Timestamp EXCEPT ![t] = ticks + elapsed]
        /\ IsPending' = [IsPending EXCEPT ![t] = FALSE]
        /\ elapsed' = elapsed /\ alarm' = alarm /\ irq' = irq
    BY <1>8 DEF InsertBehind, rtc
  <2>2. q \in Timers
    <3>0. PICK k \in Nat : \E p \in [1 .. k -> Timers] : Path(k, p)
      BY DEF ServerOK, IsList
    <3>1. PICK p \in [1 .. k -> Timers] : Path(k, p)
      BY <3>0
    <3> QED BY <2>1, <3>1, PredecessorIsListed
  <2> HIDE DEF q
  <2>3. ServerTypes'
    BY <1>2, <1>3, <1>5, <2>1, <2>2 DEF ServerTypes
  <2>4. OnlyHeadPends'
    BY <1>2, <2>1 DEF ServerTypes, ServerOK, OnlyHeadPends
  <2>5. DeadlineOK'
    BY <1>2, <1>3, <1>4, <2>1 DEF ServerTypes, ServerOK, DeadlineOK
  <2>6. head \in Timers /\ head # t
    BY <2>1, HeadAndNext DEF ServerOK
  <2>7. AlarmAnswers' /\ (HeadPends => HeadPends')
    BY <1>2, <2>1, <2>6 DEF ServerTypes, AlarmAnswers, HeadPends
  <2> QED BY <1>1, <2>1, <2>3, <2>4, <2>5, <2>7 DEF ServerOK
<1> QED BY <1>4, <1>6, <1>7, <1>8

(* The critical section of UTIL_TIMER_Stop(), whoever enters it.           *)
LEMMA StopKeepsServer ==
  ASSUME TypeOK, ServerOK, AlarmAnswers, NEW t \in Timers, Stop(t)
  PROVE  ServerOK' /\ AlarmAnswers' /\ (HeadPends => HeadPends')
<1>1. IsList'
  BY StopKeepsList DEF ServerOK
<1>2. ServerTypes
  BY DEF ServerOK
<1>3. /\ IsReloadStopped' = [IsReloadStopped EXCEPT ![t] = TRUE]
      /\ ReloadValue' = ReloadValue /\ elapsed' = elapsed
  BY DEF Stop
<1>4. CASE head = NoTimer
  <2>1. /\ head' = head /\ next' = next /\ Timestamp' = Timestamp /\ IsPending' = IsPending
        /\ IsRunning' = IsRunning /\ alarm' = alarm /\ irq' = irq /\ left' = left
    BY <1>4 DEF Stop
  <2>2. ServerTypes'
    BY <1>2, <1>3, <2>1 DEF ServerTypes
  <2> QED BY <1>1, <1>3, <1>4, <2>1, <2>2
          DEF ServerOK, OnlyHeadPends, DeadlineOK, AlarmAnswers, HeadPends
<1>5. CASE head # NoTimer
  <2>1. /\ IsRunning' = [IsRunning EXCEPT ![t] = FALSE]
        /\ left' = [left EXCEPT ![t] = 0]
        /\ RemoveHead(t) \/ RemoveInside(t)
    BY <1>5 DEF Stop
  <2>2. /\ IsRunning' \in [Timers -> BOOLEAN] /\ IsReloadStopped' \in [Timers -> BOOLEAN]
        /\ left' \in [Timers -> Int] /\ ReloadValue' \in [Timers -> Periods]
    BY <1>2, <1>3, <2>1 DEF ServerTypes
  <2>3. CASE RemoveHead(t) /\ next[t] # NoTimer
    <3> DEFINE n == next[t]
               s == Timeout(Timestamp[n])
    <3>1. /\ head = t /\ head' = n /\ next' = next
          /\ Timestamp' = [Timestamp EXCEPT ![n] = s]
          /\ IsPending' = [IsPending EXCEPT ![t] = FALSE, ![n] = TRUE]
          /\ alarm' = s /\ irq' = FALSE
      BY <2>3 DEF RemoveHead, StartTimerEvt
    <3>2. n \in Timers /\ n # t
      BY <1>5, <2>3, <3>1, HeadAndNext DEF ServerOK
    <3>3. s \in Nat /\ Timestamp[n] <= s /\ elapsed < s /\ Timestamp[n] \in Nat
      BY <1>2, <3>2, TimeoutPostpones DEF ServerTypes
    <3> HIDE DEF s, n
    <3>4. ServerTypes'
      BY <1>2, <1>3, <2>2, <3>1, <3>2, <3>3 DEF ServerTypes
    <3>5. OnlyHeadPends'
      BY <1>2, <3>1, <3>2 DEF ServerTypes, ServerOK, OnlyHeadPends
    <3>6. DeadlineOK'
      BY <1>2, <1>3, <2>1, <3>1, <3>2, <3>3 DEF ServerTypes, ServerOK, DeadlineOK
    <3>7. AlarmAnswers' /\ HeadPends'
      BY <1>2, <1>3, <3>1, <3>2, <3>3 DEF ServerTypes, AlarmAnswers, HeadPends
    <3> QED BY <1>1, <3>1, <3>4, <3>5, <3>6, <3>7 DEF ServerOK
  <2>4. CASE RemoveHead(t) /\ next[t] = NoTimer
    <3>1. /\ head = t /\ head' = NoTimer /\ next' = next /\ Timestamp' = Timestamp
          /\ IsPending' = [IsPending EXCEPT ![t] = FALSE]
          /\ alarm' = NoAlarm /\ irq' = FALSE
      BY <2>4 DEF RemoveHead, StopTimerEvt
    <3>2. ServerTypes'
      BY <1>2, <1>3, <2>2, <3>1 DEF ServerTypes
    <3>3. OnlyHeadPends'
      BY <1>2, <3>1 DEF ServerTypes, ServerOK, OnlyHeadPends
    <3>4. DeadlineOK'
      BY <1>2, <1>3, <2>1, <3>1 DEF ServerTypes, ServerOK, DeadlineOK
    <3>5. AlarmAnswers' /\ HeadPends'
      BY <3>1 DEF AlarmAnswers, HeadPends
    <3> QED BY <1>1, <3>1, <3>2, <3>3, <3>4, <3>5 DEF ServerOK
  <2>5. CASE RemoveInside(t)
    <3>1. /\ head # t /\ head' = head /\ Timestamp' = Timestamp /\ IsPending' = IsPending
          /\ alarm' = alarm /\ irq' = irq
          /\ next' = [q \in Timers |-> IF q \in Listed /\ next[q] = t THEN next[t] ELSE next[q]]
      BY <2>5 DEF RemoveInside
    <3>2. next' \in [Timers -> Timers \cup {NoTimer}]
      BY <1>2, <3>1 DEF ServerTypes
    <3>3. ServerTypes'
      BY <1>2, <1>3, <2>2, <3>1, <3>2 DEF ServerTypes
    <3>4. OnlyHeadPends'
      BY <3>1 DEF ServerOK, OnlyHeadPends
    <3>5. DeadlineOK'
      BY <1>2, <1>3, <2>1, <3>1 DEF ServerTypes, ServerOK, DeadlineOK
    <3>6. AlarmAnswers' /\ (HeadPends => HeadPends')
      BY <1>3, <3>1 DEF AlarmAnswers, HeadPends
    <3> QED BY <1>1, <3>1, <3>3, <3>4, <3>5, <3>6 DEF ServerOK
  <2> QED BY <2>1, <2>3, <2>4, <2>5
<1> QED BY <1>4, <1>5

-----------------------------------------------------------------------------
(* What touches neither the list nor the alarm leaves them in order.       *)
LEMMA ServerUnchanged ==
  ASSUME ServerOK, ReloadValue' \in [Timers -> Periods],
         IsReloadStopped' = IsReloadStopped,
         UNCHANGED <<head, next, Timestamp, IsPending, IsRunning, rtc, left>>
  PROVE  ServerOK' /\ (AlarmAnswers => AlarmAnswers') /\ (HeadPends => HeadPends')
<1>1. /\ head' = head /\ next' = next /\ Timestamp' = Timestamp
      /\ IsPending' = IsPending /\ IsRunning' = IsRunning /\ left' = left
      /\ elapsed' = elapsed /\ alarm' = alarm /\ irq' = irq
  BY DEF rtc
<1>2. IsList'
  <2>1. PICK k \in Nat : \E p \in [1 .. k -> Timers] : Path(k, p)
    BY DEF ServerOK, IsList
  <2>2. PICK p \in [1 .. k -> Timers] : Path(k, p)
    BY <2>1
  <2> QED BY <1>1, <2>2, SamePath
<1>3. ServerTypes'
  BY <1>1 DEF ServerOK, ServerTypes
<1>4. OnlyHeadPends' /\ DeadlineOK'
  BY <1>1 DEF ServerOK, OnlyHeadPends, DeadlineOK
<1>5. (AlarmAnswers => AlarmAnswers') /\ (HeadPends => HeadPends')
  BY <1>1 DEF AlarmAnswers, HeadPends
<1> QED BY <1>1, <1>2, <1>3, <1>4, <1>5 DEF ServerOK

(* The thread inserts, after tests that no critical section protects.      *)
LEMMA MainInsertsStep ==
  ASSUME TimerInv, MainInserts
  PROVE  TimerInv'
<1>1. TypeOK /\ ServerOK /\ AlarmAnswers /\ HeadPends /\ mtimer \in Timers /\ ~IsRunning[mtimer]
  BY TypesFit DEF TimerInv, ServerOK, AlarmOK, ActorsOK, InsertOK, MainInserts, ThreadAt
<1>2. ServerOK' /\ AlarmAnswers' /\ HeadPends'
  BY <1>1, StartKeepsServer DEF MainInserts
<1>3. /\ hpc' = hpc /\ hcur' = hcur /\ periodic' = periodic /\ busy' = busy
      /\ mpc' = "idle" /\ mop' = "none" /\ mtimer' = NoTimer /\ mcur' = NoTimer
  BY DEF MainInserts, MainReturns, isr
<1>4. AlarmOK'
  BY <1>2 DEF AlarmOK
<1>5. ActorsOK' /\ InsertOK'
  BY <1>3 DEF TimerInv, ActorsOK, InsertOK
<1> QED BY <1>2, <1>4, <1>5 DEF TimerInv

(* A callback starts its own timer again, or another one, but not the one  *)
(* that the thread is about to insert.                                     *)
LEMMA CallbackStartsStep ==
  ASSUME TimerInv, WellUsed, NEW t \in Timers, CallbackStarts(t)
  PROVE  TimerInv'
<1>1. TypeOK /\ ServerOK /\ AlarmAnswers /\ hcur \in Timers /\ ~IsRunning[t] /\ hpc = "callback"
  BY TypesFit, TimerAssumption DEF TimerInv, ServerOK, AlarmOK, ActorsOK, CallbackStarts
<1>2. ServerOK' /\ AlarmAnswers'
  BY <1>1, StartKeepsServer DEF CallbackStarts
<1>3. /\ hpc' = hpc /\ hcur' = hcur /\ periodic' = periodic /\ busy' = busy
      /\ mpc' = mpc /\ mop' = mop /\ mtimer' = mtimer /\ mcur' = mcur
  BY DEF CallbackStarts, isr, thread
<1>4. AlarmOK'
  BY <1>1, <1>2, <1>3 DEF AlarmOK
<1>5. ActorsOK'
  BY <1>3 DEF TimerInv, ActorsOK
<1>6. InsertOK'
  <2>1. IsRunning' = [IsRunning EXCEPT ![t] = TRUE]
    BY DEF CallbackStarts, StartNow
  <2>2. ~(mpc = "insert" /\ t = mtimer)
    BY <1>1 DEF WellUsed, CallbackStarts
  <2>3. mpc = "insert" => ~IsRunning[mtimer] /\ hcur # mtimer /\ mtimer \in Timers
    BY DEF TimerInv, ActorsOK, InsertOK
  <2> QED BY <1>1, <1>3, <2>1, <2>2, <2>3 DEF InsertOK, ServerOK, ServerTypes
<1> QED BY <1>2, <1>4, <1>5, <1>6 DEF TimerInv

(* The handler starts a periodic timer again.                              *)
LEMMA HandlerReloadsStep ==
  ASSUME TimerInv, HandlerReloads
  PROVE  TimerInv'
<1>1. TypeOK /\ ServerOK /\ AlarmAnswers /\ hpc = "reload" /\ hcur \in Timers
  BY TypesFit, TimerAssumption DEF TimerInv, ServerOK, AlarmOK, ActorsOK, HandlerReloads
<1>2. /\ hpc' = "loop" /\ hcur' = NoTimer /\ periodic' = periodic /\ busy' = busy
      /\ mpc' = mpc /\ mop' = mop /\ mtimer' = mtimer /\ mcur' = mcur
  BY DEF HandlerReloads, thread
<1>3. ActorsOK'
  BY <1>2 DEF TimerInv, ActorsOK
<1>4. mpc = "insert" => mtimer \in Timers /\ mtimer # NoTimer
  BY TimerAssumption DEF TimerInv, ActorsOK
<1>5. CASE StartNow(hcur) /\ ~IsRunning[hcur]
  <2>1. ServerOK' /\ AlarmAnswers'
    BY <1>1, <1>5, StartKeepsServer
  <2>2. IsRunning' = [IsRunning EXCEPT ![hcur] = TRUE]
    BY <1>5 DEF StartNow
  <2>3. InsertOK'
    BY <1>1, <1>2, <1>4, <2>2 DEF TimerInv, ActorsOK, InsertOK, ServerOK, ServerTypes
  <2>4. AlarmOK'
    BY <1>2, <2>1 DEF AlarmOK
  <2> QED BY <1>3, <2>1, <2>3, <2>4 DEF TimerInv
<1>6. CASE UNCHANGED <<head, nodes, rtc, left>>
  <2> USE <1>6 DEF nodes, rtc
  <2>1. ServerOK'
    BY <1>1, ServerUnchanged DEF ServerOK, ServerTypes
  <2>2. AlarmAnswers'
    BY <1>1 DEF AlarmAnswers
  <2>3. InsertOK'
    BY <1>2, <1>4 DEF TimerInv, InsertOK
  <2>4. AlarmOK'
    BY <1>2, <2>2 DEF AlarmOK
  <2> QED BY <1>3, <2>1, <2>3, <2>4 DEF TimerInv
<1> QED BY <1>5, <1>6 DEF HandlerReloads

(* The thread or a callback stops a timer.                                 *)
LEMMA StopStep ==
  ASSUME TimerInv, NEW t \in Timers,
         MainStops(t) \/ CallbackStops(t) \/ (MainStopsToRestart /\ t = mtimer)
  PROVE  TimerInv'
<1>1. TypeOK /\ ServerOK /\ AlarmAnswers /\ (hpc = "none" => HeadPends)
  BY TypesFit DEF TimerInv, ServerOK, AlarmOK, MainStops, CallbackStops, MainStopsToRestart, ThreadAt
<1>2. Stop(t)
  BY DEF MainStops, CallbackStops, MainStopsToRestart
<1>3. ServerOK' /\ AlarmAnswers' /\ (HeadPends => HeadPends')
  BY <1>1, <1>2, StopKeepsServer
<1>4. hpc' = hpc /\ hcur' = hcur /\ periodic' = periodic /\ busy' = busy
  BY DEF MainStops, CallbackStops, MainStopsToRestart, isr
<1>5. AlarmOK'
  BY <1>1, <1>3, <1>4 DEF AlarmOK
<1>6. \A u \in Timers : IsRunning'[u] => IsRunning[u]
  <2>1. IsRunning' = IsRunning \/ IsRunning' = [IsRunning EXCEPT ![t] = FALSE]
    BY <1>2 DEF Stop
  <2> QED BY <1>1, <2>1 DEF ServerOK, ServerTypes
<1>7. ActorsOK' /\ InsertOK'
  <2>1. CASE mpc' = mpc /\ mop' = mop /\ mtimer' = mtimer /\ mcur' = mcur
    BY <1>4, <1>6, <2>1 DEF TimerInv, ActorsOK, InsertOK
  <2>2. CASE mpc = "stop" /\ mpc' = "read" /\ mop' = "start" /\ mcur' = NoTimer /\ mtimer' = mtimer
    BY <1>4, <2>2 DEF TimerInv, ActorsOK, InsertOK
  <2> QED BY <2>1, <2>2 DEF MainStops, CallbackStops, MainStopsToRestart, ThreadAt, thread
<1> QED BY <1>3, <1>5, <1>7 DEF TimerInv

(* A step of the thread that only moves its own locals.                    *)
LEMMA ThreadStep ==
  ASSUME TimerInv, ReloadValue' \in [Timers -> Periods],
         UNCHANGED <<head, next, Timestamp, IsPending, IsRunning, IsReloadStopped, rtc, left>>,
         busy' = busy, UNCHANGED isr, periodic' \subseteq Timers,
         mpc' \in {"idle", "read", "find", "stop", "insert"},
         mop' \in {"none", "start", "setPeriod", "startWithPeriod"},
         mtimer' \in Timers \cup {NoTimer}, mcur' \in Timers \cup {NoTimer},
         mpc' # "idle" => mtimer' \in Timers,
         mpc' = "insert" => hpc = "none" /\ ~IsRunning[mtimer']
  PROVE  TimerInv'
<1>1. ServerOK' /\ (AlarmAnswers => AlarmAnswers') /\ (HeadPends => HeadPends')
  BY ServerUnchanged DEF TimerInv
<1>2. hpc' = hpc /\ hcur' = hcur
  BY DEF isr
<1>3. AlarmOK'
  BY <1>1, <1>2 DEF TimerInv, AlarmOK
<1>4. ActorsOK'
  BY <1>2 DEF TimerInv, ActorsOK
<1>5. InsertOK'
  BY <1>2, TimerAssumption DEF TimerInv, ActorsOK, InsertOK
<1> QED BY <1>1, <1>3, <1>4, <1>5 DEF TimerInv

(* The API calls up to their critical sections.                            *)
LEMMA CallStep ==
  ASSUME TimerInv, NEW t \in Timers,
         \/ MainCallsStart(t) \/ MainSetsReloadMode(t)
         \/ \E p \in Periods, op \in Ops : MainSetsPeriod(op, t, p)
         \/ MainReadsHead \/ MainFollowsNext \/ MainFound \/ MainNotFound
  PROVE  TimerInv'
<1> DEFINE server == <<head, next, Timestamp, IsPending, IsRunning, IsReloadStopped, rtc, left>>
<1>1. ServerTypes /\ ActorsOK
  BY DEF TimerInv, ServerOK
<1>2. CASE MainCallsStart(t)
  <2>1. /\ UNCHANGED server /\ ReloadValue' = ReloadValue /\ busy' = busy /\ UNCHANGED isr
        /\ periodic' = periodic /\ mpc' = "read" /\ mop' = "start" /\ mtimer' = t /\ mcur' = mcur
    BY <1>2 DEF MainCallsStart, nodes
  <2> QED BY <1>1, <2>1, ThreadStep DEF ServerTypes, ActorsOK
<1>3. CASE MainSetsReloadMode(t)
  <2>1. /\ UNCHANGED server /\ ReloadValue' = ReloadValue /\ busy' = busy /\ UNCHANGED isr
        /\ periodic' \subseteq Timers /\ mpc = "idle"
        /\ mpc' = mpc /\ mop' = mop /\ mtimer' = mtimer /\ mcur' = mcur
    BY <1>1, <1>3 DEF MainSetsReloadMode, nodes, thread, ActorsOK, ThreadAt
  <2> QED BY <1>1, <2>1, ThreadStep DEF ServerTypes, ActorsOK
<1>4. ASSUME NEW p \in Periods, NEW op \in Ops, MainSetsPeriod(op, t, p) PROVE TimerInv'
  <2>1. /\ UNCHANGED server /\ ReloadValue' = [ReloadValue EXCEPT ![t] = p]
        /\ busy' = busy /\ UNCHANGED isr /\ periodic' = periodic
        /\ mpc' = "read" /\ mop' = op /\ mtimer' = t /\ mcur' = mcur
        /\ op \in {"setPeriod", "startWithPeriod"}
    BY <1>4 DEF MainSetsPeriod
  <2> QED BY <1>1, <2>1, ThreadStep DEF ServerTypes, ActorsOK
<1>5. CASE MainReadsHead \/ MainFollowsNext \/ MainFound \/ MainNotFound
  <2>1. /\ UNCHANGED server /\ ReloadValue' = ReloadValue /\ busy' = busy /\ UNCHANGED isr
        /\ periodic' = periodic
    BY <1>5 DEF MainReadsHead, MainFollowsNext, MainFound, MainNotFound, nodes
  <2>2. hpc = "none" /\ mtimer \in Timers
    BY <1>1, <1>5
    DEF MainReadsHead, MainFollowsNext, MainFound, MainNotFound, ThreadAt, ActorsOK
  <2>3. /\ mpc' \in {"idle", "read", "find", "stop", "insert"}
        /\ mop' \in {"none", "start", "setPeriod", "startWithPeriod"}
        /\ mtimer' \in Timers \cup {NoTimer} /\ mcur' \in Timers \cup {NoTimer}
        /\ mpc' # "idle" => mtimer' = mtimer
        /\ mpc' = "insert" => ~IsRunning[mtimer']
    <3>1. CASE MainReadsHead
      BY <1>1, <3>1 DEF MainReadsHead, ServerTypes, ActorsOK
    <3>2. CASE MainFollowsNext
      <4>1. mcur \in Timers
        BY <1>1, <3>2 DEF MainFollowsNext, ActorsOK
      <4> QED BY <1>1, <3>2, <4>1 DEF MainFollowsNext, ThreadAt, ServerTypes, ActorsOK
    <3>3. CASE MainFound
      BY <1>1, <3>3 DEF MainFound, MainReturns, ActorsOK
    <3>4. CASE MainNotFound
      BY <1>1, <3>4 DEF MainNotFound, MainReturns, ActorsOK
    <3> QED BY <1>5, <3>1, <3>2, <3>3, <3>4
  <2> QED BY <1>1, <2>1, <2>2, <2>3, ThreadStep DEF ServerTypes, ActorsOK
<1> QED BY <1>2, <1>3, <1>4, <1>5

(* The callback returns.                                                   *)
LEMMA CallbackReturnsStep ==
  ASSUME TimerInv, CallbackReturns
  PROVE  TimerInv'
<1>1. ServerTypes
  BY DEF TimerInv, ServerOK
<1>2. ServerOK' /\ (AlarmAnswers => AlarmAnswers')
  BY <1>1, ServerUnchanged DEF CallbackReturns, nodes, TimerInv, ServerTypes
<1> QED BY <1>2 DEF CallbackReturns, nodes, thread, TimerInv, AlarmOK, ActorsOK, InsertOK

(* UTIL_TIMER_Create() of a timer outside the list.                        *)
LEMMA MainCreatesStep ==
  ASSUME TimerInv, WellUsed, NEW t \in Timers, MainCreates(t)
  PROVE  TimerInv'
<1>0. PICK k \in Nat : \E p \in [1 .. k -> Timers] : Path(k, p)
  BY DEF TimerInv, ServerOK, IsList
<1>1. PICK p \in [1 .. k -> Timers] : Path(k, p)
  BY <1>0
<1>2. ServerTypes
  BY DEF TimerInv, ServerOK
<1>3. t \notin Listed
  BY DEF WellUsed, MainCreates
<1>4. ~IsRunning[t] /\ t # head
  <2>1. ~IsRunning[t]
    BY <1>1, <1>3, PathIsListed
  <2>2. head # NoTimer => IsRunning[head]
    BY HeadAndNext DEF TimerInv, ServerOK
  <2> QED BY <2>1, <2>2, TimerAssumption
<1>5. /\ next' = [next EXCEPT ![t] = NoTimer] /\ Timestamp' = [Timestamp EXCEPT ![t] = 0]
      /\ IsPending' = [IsPending EXCEPT ![t] = FALSE]
      /\ IsRunning' = [IsRunning EXCEPT ![t] = FALSE]
      /\ IsReloadStopped' = [IsReloadStopped EXCEPT ![t] = FALSE]
      /\ left' = [left EXCEPT ![t] = 0]
      /\ head' = head /\ \E d \in Periods : ReloadValue' = [ReloadValue EXCEPT ![t] = d]
      /\ elapsed' = elapsed /\ alarm' = alarm /\ irq' = irq
      /\ periodic' \in {periodic \cup {t}, periodic \ {t}}
      /\ busy' = busy /\ UNCHANGED <<thread, isr>>
  BY DEF MainCreates, rtc
<1>6. IsList'
  <2>1. \A j \in 1 .. k : p[j] # t
    BY <1>1, <1>4 DEF Path
  <2>2. \A j \in 1 .. k : next'[p[j]] = next[p[j]]
    BY <1>2, <1>5, <2>1 DEF ServerTypes
  <2>3. \A u \in Timers : IsRunning'[u] <=> IsRunning[u]
    BY <1>2, <1>4, <1>5 DEF ServerTypes
  <2> QED BY <1>1, <1>5, <2>2, <2>3, SamePath
<1>7. ServerTypes'
  BY <1>2, <1>5 DEF ServerTypes
<1>8. OnlyHeadPends' /\ DeadlineOK'
  BY <1>2, <1>4, <1>5 DEF TimerInv, ServerOK, ServerTypes, OnlyHeadPends, DeadlineOK
<1>9. (AlarmAnswers => AlarmAnswers') /\ (HeadPends => HeadPends')
  BY <1>2, <1>4, <1>5 DEF ServerTypes, AlarmAnswers, HeadPends
<1>10. AlarmOK'
  BY <1>2, <1>4, <1>5, <1>9 DEF TimerInv, AlarmOK, ServerTypes, isr
<1>11. ActorsOK' /\ InsertOK'
  BY <1>2, <1>5 DEF TimerInv, ActorsOK, InsertOK, ServerTypes, thread, isr, MainCreates, ThreadAt
<1> QED BY <1>5, <1>6, <1>7, <1>8, <1>10, <1>11 DEF TimerInv, ServerOK

-----------------------------------------------------------------------------
(* UTIL_TIMER_IRQ_Handler() moves the context to the present.              *)
LEMMA HandlerEntersStep ==
  ASSUME TimerInv, HandlerEnters
  PROVE  TimerInv'
<1>0. PICK k \in Nat : \E p \in [1 .. k -> Timers] : Path(k, p)
  BY DEF TimerInv, ServerOK, IsList
<1>1. PICK p \in [1 .. k -> Timers] : Path(k, p)
  BY <1>0
<1>2. ServerTypes /\ irq /\ hpc = "none" /\ alarm = NoAlarm
  BY DEF TimerInv, ServerOK, HandlerEnters
<1>3. /\ irq' = FALSE /\ elapsed' = 0 /\ alarm' = NoAlarm /\ hpc' = "loop" /\ hcur' = hcur
      /\ head' = head /\ next' = next /\ ReloadValue' = ReloadValue
      /\ IsPending' = IsPending /\ IsRunning' = IsRunning /\ IsReloadStopped' = IsReloadStopped
      /\ periodic' = periodic /\ busy' = busy /\ UNCHANGED thread /\ left' = left
  BY <1>2 DEF HandlerEnters
<1>4. Timestamp' = [t \in Timers |-> IF IsRunning[t] THEN Larger(Timestamp[t] - elapsed, 0)
                                     ELSE Timestamp[t]]
  <2>1. Timestamp' = [t \in Timers |-> IF t \in Listed THEN Larger(Timestamp[t] - elapsed, 0)
                                       ELSE Timestamp[t]]
    BY DEF HandlerEnters
  <2>2. Listed = {t \in Timers : IsRunning[t]}
    BY <1>1, PathIsListed
  <2> QED BY <2>1, <2>2
<1>5. ASSUME NEW t \in Timers
      PROVE  /\ Larger(Timestamp[t] - elapsed, 0) \in Nat
             /\ Timestamp[t] - elapsed <= Larger(Timestamp[t] - elapsed, 0)
             /\ Timestamp[t] <= elapsed => Larger(Timestamp[t] - elapsed, 0) = 0
  BY <1>2 DEF ServerTypes, Larger
<1>6. ServerTypes'
  BY <1>2, <1>3, <1>4, <1>5 DEF ServerTypes
<1>7. IsList'
  BY <1>1, <1>3, SamePath
<1>8. OnlyHeadPends'
  BY <1>3 DEF TimerInv, ServerOK, OnlyHeadPends
<1>9. DeadlineOK'
  BY <1>2, <1>3, <1>4, <1>5 DEF TimerInv, ServerOK, ServerTypes, DeadlineOK
<1>10. AlarmOK'
  <2>1. ASSUME head # NoTimer PROVE Timestamp'[head] = 0
    <3>1. head \in Timers /\ IsRunning[head]
      BY <2>1, HeadAndNext DEF TimerInv, ServerOK
    <3>2. Timestamp[head] <= elapsed
      BY <1>2, <2>1 DEF TimerInv, AlarmOK, AlarmAnswers, HeadPends
    <3> QED BY <1>4, <1>5, <3>1, <3>2
  <2> QED BY <1>3, <2>1 DEF AlarmOK, AlarmAnswers
<1>11. ActorsOK' /\ InsertOK'
  BY <1>2, <1>3 DEF TimerInv, ActorsOK, InsertOK, thread
<1> QED BY <1>3, <1>6, <1>7, <1>8, <1>9, <1>10, <1>11 DEF TimerInv, ServerOK

(* An expired head is taken out and its callback called.                   *)
LEMMA HandlerExpiresStep ==
  ASSUME TimerInv, HandlerExpires
  PROVE  TimerInv' /\ left[head] <= 0 /\ IsRunning[head] /\ head \in Timers
<1>1. TypeOK /\ ServerTypes /\ IsList
  BY TypesFit DEF TimerInv, ServerOK
<1>2. IsList'
  BY <1>1, ExpiryKeepsList
<1>3. /\ hpc = "loop" /\ head # NoTimer /\ (Timestamp[head] = 0 \/ Timestamp[head] < elapsed)
      /\ hcur' = head /\ head' = next[head] /\ hpc' = "callback"
      /\ IsPending' = [IsPending EXCEPT ![head] = FALSE]
      /\ IsRunning' = [IsRunning EXCEPT ![head] = FALSE]
      /\ left' = [left EXCEPT ![head] = 0]
      /\ next' = next /\ Timestamp' = Timestamp /\ ReloadValue' = ReloadValue
      /\ IsReloadStopped' = IsReloadStopped /\ periodic' = periodic
      /\ elapsed' = elapsed /\ alarm' = alarm /\ irq' = irq /\ busy' = busy /\ UNCHANGED thread
  BY DEF HandlerExpires, HeadExpired, rtc
<1>4. head \in Timers /\ IsRunning[head] /\ next[head] # head
  BY <1>1, <1>3, HeadAndNext
<1>5. left[head] <= 0
  BY <1>1, <1>3, <1>4 DEF TimerInv, ServerOK, ServerTypes, DeadlineOK
<1>6. ServerTypes'
  BY <1>1, <1>3, <1>4 DEF ServerTypes
<1>7. OnlyHeadPends' /\ (head' # NoTimer => ~IsPending'[head'])
  BY <1>1, <1>3, <1>4 DEF TimerInv, ServerOK, ServerTypes, OnlyHeadPends
<1>8. DeadlineOK'
  BY <1>1, <1>3, <1>4 DEF TimerInv, ServerOK, ServerTypes, DeadlineOK
<1>9. AlarmOK'
  BY <1>3, <1>7 DEF AlarmOK, AlarmAnswers
<1>10. ActorsOK'
  BY <1>3, <1>4, TimerAssumption DEF TimerInv, ActorsOK, thread
<1>11. InsertOK'
  <2>1. mpc = "insert" => mtimer # head /\ ~IsRunning[mtimer] /\ mtimer \in Timers
    BY <1>4 DEF TimerInv, InsertOK, ActorsOK
  <2> QED BY <1>1, <1>3, <1>4, <2>1 DEF InsertOK, ServerTypes, thread
<1> QED BY <1>2, <1>3, <1>4, <1>5, <1>6, <1>7, <1>8, <1>9, <1>10, <1>11 DEF TimerInv, ServerOK

(* The handler leaves, and sets the alarm of a head that has none.         *)
LEMMA HandlerLeavesStep ==
  ASSUME TimerInv, HandlerLeaves
  PROVE  TimerInv'
<1>0. PICK k \in Nat : \E p \in [1 .. k -> Timers] : Path(k, p)
  BY DEF TimerInv, ServerOK, IsList
<1>1. PICK p \in [1 .. k -> Timers] : Path(k, p)
  BY <1>0
<1>2. ServerTypes /\ hpc = "loop" /\ ~HeadExpired
  BY DEF TimerInv, ServerOK, HandlerLeaves
<1>3. /\ hpc' = "none" /\ busy' = 0 /\ head' = head /\ next' = next
      /\ ReloadValue' = ReloadValue /\ IsRunning' = IsRunning
      /\ IsReloadStopped' = IsReloadStopped /\ periodic' = periodic /\ elapsed' = elapsed
      /\ UNCHANGED thread /\ hcur' = hcur /\ left' = left
  BY DEF HandlerLeaves
<1>4. IsList'
  BY <1>1, <1>3, SamePath
<1>5. ActorsOK' /\ InsertOK'
  BY <1>2, <1>3, TimerAssumption DEF TimerInv, ActorsOK, InsertOK, thread
<1>6. CASE head # NoTimer /\ ~IsPending[head]
  <2> DEFINE s == Timeout(Timestamp[head])
  <2>1. /\ Timestamp' = [Timestamp EXCEPT ![head] = s]
        /\ IsPending' = [IsPending EXCEPT ![head] = TRUE]
        /\ alarm' = s /\ irq' = FALSE
    BY <1>6 DEF HandlerLeaves, StartTimerEvt
  <2>2. head \in Timers
    BY <1>6, HeadAndNext DEF TimerInv, ServerOK
  <2>3. s \in Nat /\ Timestamp[head] <= s /\ elapsed < s /\ Timestamp[head] \in Nat
    BY <1>2, <2>2, TimeoutPostpones DEF ServerTypes
  <2> HIDE DEF s
  <2>4. ServerTypes'
    BY <1>2, <1>3, <2>1, <2>2, <2>3 DEF ServerTypes
  <2>5. OnlyHeadPends'
    BY <1>2, <1>3, <2>1, <2>2 DEF TimerInv, ServerOK, ServerTypes, OnlyHeadPends
  <2>6. DeadlineOK'
    BY <1>2, <1>3, <2>1, <2>2, <2>3 DEF TimerInv, ServerOK, ServerTypes, DeadlineOK
  <2>7. AlarmOK'
    BY <1>2, <1>3, <2>1, <2>2, <2>3 DEF ServerTypes, AlarmOK, AlarmAnswers, HeadPends
  <2> QED BY <1>4, <1>5, <2>1, <2>4, <2>5, <2>6, <2>7 DEF TimerInv, ServerOK
<1>7. CASE ~(head # NoTimer /\ ~IsPending[head])
  <2>1. Timestamp' = Timestamp /\ IsPending' = IsPending /\ alarm' = alarm /\ irq' = irq
    BY <1>7 DEF HandlerLeaves
  <2>2. ServerOK' /\ (AlarmAnswers => AlarmAnswers')
    BY <1>2, <1>3, <2>1, ServerUnchanged DEF TimerInv, ServerTypes, rtc
  <2>3. AlarmAnswers
    BY <1>2 DEF HeadExpired, TimerInv, AlarmOK
  <2>4. AlarmOK'
    BY <1>3, <1>7, <2>1, <2>2, <2>3 DEF AlarmOK, HeadPends
  <2> QED BY <1>5, <2>2, <2>4 DEF TimerInv
<1> QED BY <1>6, <1>7

(* Time passes.                                                            *)
LEMMA TickStep ==
  ASSUME TimerInv, Tick
  PROVE  TimerInv'
<1>0. PICK k \in Nat : \E p \in [1 .. k -> Timers] : Path(k, p)
  BY DEF TimerInv, ServerOK, IsList
<1>1. PICK p \in [1 .. k -> Timers] : Path(k, p)
  BY <1>0
<1>2. ServerTypes
  BY DEF TimerInv, ServerOK
<1>3. /\ elapsed' = elapsed + 1
      /\ IF elapsed + 1 = alarm THEN irq' = TRUE /\ alarm' = NoAlarm
                                ELSE irq' = irq /\ alarm' = alarm
      /\ left' = [t \in Timers |-> IF IsRunning[t] THEN left[t] - 1 ELSE 0]
      /\ IF irq \/ hpc # "none" THEN busy < MaxBusy /\ busy' = busy + 1 ELSE busy' = 0
  BY DEF Tick
<1>4. /\ head' = head /\ next' = next /\ Timestamp' = Timestamp /\ ReloadValue' = ReloadValue
      /\ IsPending' = IsPending /\ IsRunning' = IsRunning
      /\ IsReloadStopped' = IsReloadStopped /\ periodic' = periodic
      /\ UNCHANGED thread /\ hpc' = hpc /\ hcur' = hcur
  BY DEF Tick, nodes, isr
<1>5. IsList'
  BY <1>1, <1>4, SamePath
<1>6. ServerTypes'
  <2>1. left' \in [Timers -> Int]
    BY <1>2, <1>3 DEF ServerTypes
  <2>2. irq' \in BOOLEAN /\ alarm' \in Nat \cup {NoAlarm}
    BY <1>2, <1>3, Zenon DEF ServerTypes
  <2>3. elapsed' \in Nat
    BY <1>2, <1>3 DEF ServerTypes
  <2> QED BY <1>2, <1>4, <2>1, <2>2, <2>3 DEF ServerTypes
<1>7. OnlyHeadPends'
  BY <1>4 DEF TimerInv, ServerOK, OnlyHeadPends
<1>8. DeadlineOK'
  BY <1>2, <1>3, <1>4 DEF TimerInv, ServerOK, ServerTypes, DeadlineOK
<1>9. irq' => alarm' = NoAlarm
  BY <1>2, <1>3 DEF TimerInv, ServerOK, ServerTypes, NoAlarm
<1>10. AlarmOK'
  <2>1. AlarmAnswers => AlarmAnswers'
    <3>1. head \in Timers \cup {NoTimer} /\ (head # NoTimer => Timestamp[head] \in Nat)
      BY <1>2 DEF ServerTypes
    <3> QED BY <1>2, <1>3, <1>4, <3>1 DEF AlarmAnswers, ServerTypes, TimerInv, ServerOK, NoAlarm
  <2> QED BY <1>4, <2>1 DEF TimerInv, AlarmOK, HeadPends
<1>11. ActorsOK' /\ InsertOK'
  BY <1>3, <1>4, TimerAssumption DEF TimerInv, ActorsOK, InsertOK, thread
<1> QED BY <1>5, <1>6, <1>7, <1>8, <1>9, <1>10, <1>11 DEF TimerInv, ServerOK

-----------------------------------------------------------------------------
(* The invariant holds of the empty list the server starts with.           *)
LEMMA TimerInit == Init => TimerInv
<1> SUFFICES ASSUME Init PROVE TimerInv
  OBVIOUS
<1> USE DEF Init
<1>1. ServerTypes
  <2>1. ReloadValue \in [Timers -> Periods] /\ alarm \in Nat \cup {NoAlarm} /\ irq \in BOOLEAN
    BY TimerAssumption, Zenon
  <2>2. /\ head \in Timers \cup {NoTimer} /\ next \in [Timers -> Timers \cup {NoTimer}]
        /\ Timestamp \in [Timers -> Nat] /\ elapsed \in Nat /\ left \in [Timers -> Int]
    OBVIOUS
  <2>3. /\ IsPending \in [Timers -> BOOLEAN] /\ IsRunning \in [Timers -> BOOLEAN]
        /\ IsReloadStopped \in [Timers -> BOOLEAN]
    OBVIOUS
  <2> QED BY <2>1, <2>2, <2>3 DEF ServerTypes
<1>2. ActorsOK
  BY TimerAssumption DEF ActorsOK
<1>3. IsList
  <2> DEFINE p == [i \in 1 .. 0 |-> NoTimer]
  <2>1. p \in [1 .. 0 -> Timers]
    OBVIOUS
  <2>2. Path(0, p)
    BY DEF Path
  <2> QED BY <2>1, <2>2 DEF IsList
<1>4. OnlyHeadPends /\ DeadlineOK /\ AlarmOK /\ InsertOK
  BY DEF OnlyHeadPends, DeadlineOK, AlarmOK, AlarmAnswers, HeadPends, InsertOK
<1> QED BY <1>1, <1>2, <1>3, <1>4 DEF TimerInv, ServerOK

(* Every step of the thread, of the handler and of the clock keeps it.     *)
LEMMA TimerNext ==
  ASSUME TimerInv, WellUsed, [Next]_vars
  PROVE  TimerInv'
<1>1. CASE MainOp
  BY <1>1, CallStep, StopStep, MainCreatesStep DEF MainOp
<1>2. CASE MainStep
  <2>1. mpc = "stop" => mtimer \in Timers
    BY DEF TimerInv, ActorsOK
  <2>2. CASE MainReadsHead \/ MainFollowsNext \/ MainFound \/ MainNotFound
    <3>1. mtimer \in Timers
      BY <2>2 DEF MainReadsHead, MainFollowsNext, MainFound, MainNotFound, ThreadAt, TimerInv, ActorsOK
    <3> QED BY <2>2, <3>1, CallStep
  <2>3. CASE MainStopsToRestart
    BY <2>1, <2>3, StopStep DEF MainStopsToRestart, ThreadAt
  <2>4. CASE MainInserts
    BY <2>4, MainInsertsStep
  <2> QED BY <1>2, <2>2, <2>3, <2>4 DEF MainStep
<1>3. CASE Handler
  BY <1>3, HandlerEntersStep, HandlerExpiresStep, CallbackStartsStep, StopStep,
     CallbackReturnsStep, HandlerReloadsStep, HandlerLeavesStep DEF Handler
<1>4. CASE Tick
  BY <1>4, TickStep
<1>5. CASE UNCHANGED vars
  <2>1. ServerTypes
    BY DEF TimerInv, ServerOK
  <2>2. ServerOK' /\ (AlarmAnswers => AlarmAnswers') /\ (HeadPends => HeadPends')
    BY <1>5, <2>1, ServerUnchanged DEF vars, nodes, TimerInv, ServerTypes
  <2> QED BY <1>5, <2>2 DEF vars, nodes, rtc, thread, isr, TimerInv, AlarmOK, ActorsOK, InsertOK
<1> QED BY <1>1, <1>2, <1>3, <1>4, <1>5 DEF Next

(* The invariant holds of every state, whatever the thread calls and       *)
(* wherever the interrupt comes, as long as no listed timer is created     *)
(* again and no callback starts the timer the thread is about to insert.   *)
THEOREM TimerInvariant ==
  ASSUME WellUsed
  PROVE  Spec => []TimerInv
<1>1. TimerInv /\ [Next]_vars => TimerInv'
  BY TimerNext
<1> QED BY TimerInit, <1>1, PTL DEF Spec

(* So every variable keeps its type.                                       *)
THEOREM TypeCorrect ==
  ASSUME WellUsed
  PROVE  Spec => []TypeOK
<1>1. TimerInv => TypeOK
  BY TypesFit DEF TimerInv, ServerOK
<1> QED BY <1>1, TimerInvariant, PTL

(* UTIL_TIMER_Start(), UTIL_TIMER_Stop() and the handler leave a list that *)
(* ends and holds exactly the running timers, although the tests that come *)
(* before the critical sections are not in one.                            *)
THEOREM ListStaysIntact ==
  ASSUME WellUsed
  PROVE  Spec => []ListIntact
<1>1. ASSUME TimerInv PROVE ListIntact
  <2>0. PICK k \in Nat : \E p \in [1 .. k -> Timers] : Path(k, p)
    BY <1>1 DEF TimerInv, ServerOK, IsList
  <2>1. PICK p \in [1 .. k -> Timers] : Path(k, p)
    BY <2>0
  <2> QED BY <2>1, PathIsListed DEF ListIntact
<1> QED BY <1>1, TimerInvariant, PTL

(* The RTC alarm is set for the head of the list, or pending, whenever the *)
(* handler does not run; and for no other timer.                           *)
THEOREM AlarmIsSet ==
  ASSUME WellUsed
  PROVE  Spec => []HeadHasAlarm
<1>1. TimerInv => HeadHasAlarm
  BY DEF TimerInv, ServerOK, AlarmOK, AlarmAnswers, HeadPends, OnlyHeadPends, HeadHasAlarm
<1> QED BY <1>1, TimerInvariant, PTL

-----------------------------------------------------------------------------
(* A start, whoever makes it, is a start of the promise.                   *)
LEMMA StartIsPromised ==
  ASSUME TimerInv, NEW t \in Timers, ~IsRunning[t], StartNow(t)
  PROVE  /\ IsRunning' = [IsRunning EXCEPT ![t] = TRUE]
         /\ \E d \in {Larger(p, MinTimeout) : p \in Periods} : left' = [left EXCEPT ![t] = d]
<1>1. ReloadValue[t] \in Periods
  BY DEF TimerInv, ServerOK, ServerTypes
<1> QED BY <1>1 DEF StartNow

(* A stop is a stop of the promise, or, of a timer that does not run,      *)
(* nothing.                                                                *)
LEMMA StopIsPromised ==
  ASSUME TimerInv, NEW t \in Timers, Stop(t)
  PROVE  \/ IsRunning[t] /\ IsRunning' = [IsRunning EXCEPT ![t] = FALSE]
                         /\ left' = [left EXCEPT ![t] = 0]
         \/ IsRunning' = IsRunning /\ left' = left
<1>1. IsRunning \in [Timers -> BOOLEAN] /\ left \in [Timers -> Int]
  BY DEF TimerInv, ServerOK, ServerTypes
<1>2. ~IsRunning[t] => left[t] = 0
  BY DEF TimerInv, ServerOK, DeadlineOK
<1>3. CASE head = NoTimer
  BY <1>3 DEF Stop
<1>4. CASE head # NoTimer
  <2>1. IsRunning' = [IsRunning EXCEPT ![t] = FALSE] /\ left' = [left EXCEPT ![t] = 0]
    BY <1>4 DEF Stop
  <2>2. CASE IsRunning[t]
    BY <2>1, <2>2
  <2>3. CASE ~IsRunning[t]
    <3>1. IsRunning[t] = FALSE
      BY <1>1, <2>3
    <3>2. IsRunning' = IsRunning
      BY <1>1, <2>1, <3>1
    <3>3. left' = left
      BY <1>1, <1>2, <2>1, <2>3
    <3> QED BY <3>2, <3>3
  <2> QED BY <2>2, <2>3
<1> QED BY <1>3, <1>4

(* The timer whose callback is executing, as in the refinement mapping.    *)
Firing == IF hpc = "callback" THEN hcur ELSE NoTimer

(* A step of the server is one of the promise, or of the clock, or none.   *)
LEMMA StepIsPromised ==
  ASSUME TimerInv, WellUsed, [Next]_vars
  PROVE  \/ Promise!PCall \/ (Tick /\ Promise!PPasses)
         \/ UNCHANGED <<IsRunning, left, Firing>>
<1> USE DEF Firing
<1>1. ASSUME UNCHANGED <<IsRunning, left, isr>>
      PROVE  UNCHANGED <<IsRunning, left, Firing>>
  BY <1>1 DEF isr
<1>2. ASSUME NEW t \in Timers, ~IsRunning[t], StartNow(t), UNCHANGED Firing
      PROVE  Promise!PCall
  BY <1>2, StartIsPromised DEF Promise!PCall, Promise!PStart
<1>3. ASSUME NEW t \in Timers, Stop(t), UNCHANGED Firing
      PROVE  Promise!PCall \/ UNCHANGED <<IsRunning, left, Firing>>
  BY <1>3, StopIsPromised DEF Promise!PCall, Promise!PStop, Promise!PEnd
<1>4. CASE MainOp
  <2>1. ASSUME NEW t \in Timers, MainCreates(t)
        PROVE  UNCHANGED <<IsRunning, left, Firing>>
    <3>1. ~IsRunning[t] /\ left[t] = 0
      <4>0. PICK k \in Nat : \E p \in [1 .. k -> Timers] : Path(k, p)
        BY DEF TimerInv, ServerOK, IsList
      <4>1. PICK p \in [1 .. k -> Timers] : Path(k, p)
        BY <4>0
      <4>2. t \notin Listed
        BY <2>1 DEF WellUsed, MainCreates
      <4>3. ~IsRunning[t]
        BY <4>1, <4>2, PathIsListed
      <4> QED BY <4>3 DEF TimerInv, ServerOK, DeadlineOK
    <3>2. IsRunning \in [Timers -> BOOLEAN] /\ left \in [Timers -> Int]
      BY DEF TimerInv, ServerOK, ServerTypes
    <3>3. /\ IsRunning' = [IsRunning EXCEPT ![t] = FALSE]
          /\ left' = [left EXCEPT ![t] = 0] /\ UNCHANGED isr
      BY <2>1 DEF MainCreates
    <3>4. IsRunning[t] = FALSE
      BY <3>1, <3>2
    <3>5. IsRunning' = IsRunning
      BY <3>2, <3>3, <3>4
    <3>6. left' = left
      BY <3>1, <3>2, <3>3
    <3> QED BY <3>3, <3>5, <3>6, <1>1
  <2>2. ASSUME NEW t \in Timers, MainStops(t)
        PROVE  Promise!PCall \/ UNCHANGED <<IsRunning, left, Firing>>
    BY <2>2, <1>3 DEF MainStops, isr
  <2>3. ASSUME NEW t \in Timers,
               \/ MainCallsStart(t) \/ MainSetsReloadMode(t)
               \/ \E p \in Periods, op \in Ops : MainSetsPeriod(op, t, p)
        PROVE  UNCHANGED <<IsRunning, left, Firing>>
    BY <2>3, <1>1 DEF MainCallsStart, MainSetsReloadMode, MainSetsPeriod, nodes
  <2> QED BY <1>4, <2>1, <2>2, <2>3 DEF MainOp
<1>5. CASE MainStep
  <2>1. mpc \in {"stop", "insert"} => mtimer \in Timers
    BY DEF TimerInv, ActorsOK
  <2>2. CASE MainReadsHead \/ MainFollowsNext \/ MainFound \/ MainNotFound
    BY <2>2, <1>1 DEF MainReadsHead, MainFollowsNext, MainFound, MainNotFound, nodes
  <2>3. CASE MainStopsToRestart
    BY <2>1, <2>3, <1>3 DEF MainStopsToRestart, ThreadAt, isr
  <2>4. CASE MainInserts
    BY <2>1, <2>4, <1>2 DEF MainInserts, ThreadAt, isr, TimerInv, InsertOK
  <2> QED BY <1>5, <2>2, <2>3, <2>4 DEF MainStep
<1>6. CASE Handler
  <2>1. CASE HandlerEnters \/ HandlerLeaves
    BY <2>1 DEF HandlerEnters, HandlerLeaves
  <2>2. CASE HandlerExpires
    <3>1. left[head] <= 0 /\ IsRunning[head] /\ head \in Timers
      BY <2>2, HandlerExpiresStep
    <3>2. /\ hpc = "loop" /\ hpc' = "callback" /\ hcur' = head
          /\ IsRunning' = [IsRunning EXCEPT ![head] = FALSE]
          /\ left' = [left EXCEPT ![head] = 0]
      BY <2>2 DEF HandlerExpires
    <3>3. Promise!PExpire(head)
      BY <3>1, <3>2 DEF Promise!PExpire, Promise!PEnd
    <3> QED BY <3>1, <3>3 DEF Promise!PCall
  <2>3. ASSUME NEW t \in Timers, CallbackStarts(t) PROVE Promise!PCall
    BY <2>3, <1>2 DEF CallbackStarts, isr
  <2>4. ASSUME NEW t \in Timers, CallbackStops(t)
        PROVE  Promise!PCall \/ UNCHANGED <<IsRunning, left, Firing>>
    BY <2>4, <1>3 DEF CallbackStops, isr
  <2>5. CASE CallbackReturns
    <3>1. /\ hpc = "callback" /\ hpc' = "reload" /\ hcur # NoTimer
          /\ IsRunning' = IsRunning /\ left' = left
      BY <2>5 DEF CallbackReturns, nodes, TimerInv, ActorsOK
    <3> QED BY <3>1 DEF Promise!PCall, Promise!PReturn
  <2>6. CASE HandlerReloads
    <3>1. UNCHANGED Firing
      BY <2>6 DEF HandlerReloads
    <3>2. CASE StartNow(hcur) /\ ~IsRunning[hcur] /\ hcur \in periodic
      BY <3>1, <3>2, <1>2 DEF TimerInv, ActorsOK
    <3>3. CASE UNCHANGED <<head, nodes, rtc, left>>
      BY <3>1, <3>3 DEF nodes
    <3> QED BY <2>6, <3>2, <3>3 DEF HandlerReloads
  <2> QED BY <1>6, <2>1, <2>2, <2>3, <2>4, <2>5, <2>6 DEF Handler
<1>7. CASE Tick
  BY <1>7 DEF Tick, nodes, isr, Promise!PPasses
<1>8. CASE UNCHANGED vars
  BY <1>8, <1>1 DEF vars, nodes
<1> HIDE DEF Firing
<1> QED BY <1>4, <1>5, <1>6, <1>7, <1>8 DEF Next

(* Whatever the delays, a callback is never called before the period of    *)
(* its timer is over, once per start, and not after a stop.                *)
THEOREM NeverEarly ==
  ASSUME WellUsed
  PROVE  Spec => Promise!PNeverEarly
<1>1. Init => Promise!PInit
  BY DEF Init, Promise!PInit
<1>2. ASSUME TimerInv, [Next]_vars
      PROVE  [Promise!PCall \/ Promise!PPasses]_<<IsRunning, left, Firing>>
  BY <1>2, StepIsPromised
<1> QED BY <1>1, <1>2, TimerInvariant, PTL DEF Spec, Promise!PNeverEarly, Firing

-----------------------------------------------------------------------------
(* Lateness.  A node has to wait for each node in front of it, at most     *)
(* MinTimeout ticks until its alarm and MaxBusy ticks until it is served,  *)
(* and then for the present head (Wait): for its alarm and the handler, or *)
(* for the handler at work, which, unless the head expires in it, may set  *)
(* one alarm more.                                                         *)
Gap == MinTimeout + MaxBusy

Steps(i) == i * Gap

Wait ==
  IF hpc = "none"
    THEN IF irq THEN MaxBusy - busy ELSE Timestamp[head] - elapsed + MaxBusy
    ELSE IF HeadExpired THEN MaxBusy - busy ELSE MaxBusy - busy + Gap

(* Behind the head the list is sorted, and a Timestamp that is not due is  *)
(* the deadline; so for the head, unless it was postponed by MinTimeout.   *)
InOrder(k, p) ==
  /\ \A i, j \in 2 .. k : i <= j => Timestamp[p[i]] <= Timestamp[p[j]]
  /\ \A i \in 2 .. k : Timestamp[p[i]] > elapsed => Timestamp[p[i]] = elapsed + left[p[i]]
  /\ \A i \in 1 .. k : Timestamp[p[1]] > elapsed + MinTimeout =>
       Timestamp[p[1]] = elapsed + left[p[1]] /\ Timestamp[p[1]] <= Timestamp[p[i]]

(* What is left to wait, and what was waited, is within the promise.       *)
InTime(k, p) == \A i \in 1 .. k : Steps(i - 1) + Wait - left[p[i]] <= MaxLate

Punctual == \E k \in Nat : \E p \in [1 .. k -> Timers] : Path(k, p) /\ InOrder(k, p) /\ InTime(k, p)

LEMMA StepsAdd ==
  /\ Gap \in Nat /\ MinTimeout \in Nat \ {0} /\ MaxBusy \in Nat /\ MaxLate \in Int
  /\ Steps(0) = 0
  /\ \A i \in Nat : Steps(i) \in Nat /\ Steps(i + 1) = Steps(i) + Gap
  /\ \A i, j \in Nat : i <= j => Steps(i) <= Steps(j)
  /\ MaxLate = Steps(N - 1) + 2 * MaxBusy
<1>1. MinTimeout \in Nat \ {0} /\ MaxBusy \in Nat /\ Gap \in Nat
  BY TimerAssumption DEF Gap
<1>2. \A i \in Nat : i * Gap \in Nat /\ (i + 1) * Gap = i * Gap + Gap
  BY <1>1
<1>3. ASSUME NEW i \in Nat, NEW j \in Nat, i <= j
      PROVE  i * Gap <= j * Gap
  <2>1. j = i + (j - i) /\ j - i \in Nat
    BY <1>3
  <2>2. j * Gap = i * Gap + (j - i) * Gap
    BY <1>1, <2>1
  <2>3. (j - i) * Gap \in Nat
    BY <1>2, <2>1
  <2> QED BY <1>2, <2>2, <2>3
<1>4. (N - 1) * Gap \in Int
  BY <1>1, NumberOfTimers
<1>5. MaxLate = (N - 1) * Gap + 2 * MaxBusy
  BY DEF MaxLate, Gap
<1>6. 0 * Gap = 0
  BY <1>1
<1> QED BY <1>1, <1>2, <1>3, <1>4, <1>5, <1>6 DEF Steps

(* A node whose deadline is as far as the head's alarm, but for two waits  *)
(* for the handler, is in time wherever in the list it is.                 *)
LEMMA FarIsInTime ==
  ASSUME NEW i \in 1 .. N, NEW w \in Int, NEW l \in Int, w - l <= 2 * MaxBusy
  PROVE  Steps(i - 1) + w - l <= MaxLate
<1>1. i - 1 \in Nat /\ N - 1 \in Nat /\ i - 1 <= N - 1
  BY NumberOfTimers
<1>2. Steps(i - 1) <= Steps(N - 1) /\ Steps(i - 1) \in Nat /\ Steps(N - 1) \in Nat
  BY <1>1, StepsAdd
<1> QED BY <1>2, StepsAdd

(* What all cases use of the invariant. *)
LEMMA PathTypes ==
  ASSUME TimerInv, NEW k \in Nat, NEW p, Path(k, p)
  PROVE  /\ \A i \in 1 .. k : /\ p[i] \in Timers /\ Timestamp[p[i]] \in Nat
                              /\ left[p[i]] \in Int /\ IsRunning[p[i]]
         /\ \A i, j \in 1 .. k : p[i] = p[j] => i = j
         /\ k <= N /\ (head = NoTimer <=> k = 0) /\ (k # 0 => head = p[1])
         /\ elapsed \in Nat /\ busy \in 0 .. MaxBusy
         /\ k # 0 => Wait \in Int
         /\ k # 0 /\ hpc = "none" =>
              \/ irq /\ Timestamp[head] <= elapsed
              \/ ~irq /\ alarm = Timestamp[head] /\ elapsed < alarm
<1>1. ServerTypes /\ ActorsOK
  BY DEF TimerInv, ServerOK
<1>2. \A i \in 1 .. k : /\ p[i] \in Timers /\ Timestamp[p[i]] \in Nat
                        /\ left[p[i]] \in Int /\ IsRunning[p[i]]
  BY <1>1 DEF Path, ServerTypes
<1>3. k <= N
  BY PathIsShort
<1>4. (head = NoTimer <=> k = 0) /\ (k # 0 => head = p[1])
  <2>1. k # 0 => 1 \in 1 .. k
    OBVIOUS
  <2> QED BY <2>1, <1>2, TimerAssumption DEF Path
<1>5. k # 0 => Wait \in Int
  <2>1. k # 0 => Timestamp[head] \in Nat
    BY <1>2, <1>4
  <2>2. MaxBusy \in Nat /\ busy \in Int /\ Gap \in Nat /\ elapsed \in Nat
    BY <1>1, StepsAdd DEF ActorsOK, ServerTypes
  <2> QED BY <2>1, <2>2 DEF Wait
<1>6. elapsed \in Nat /\ busy \in 0 .. MaxBusy
  BY <1>1 DEF ServerTypes, ActorsOK
<1>7. k # 0 /\ hpc = "none" =>
        \/ irq /\ Timestamp[head] <= elapsed
        \/ ~irq /\ alarm = Timestamp[head] /\ elapsed < alarm
  BY <1>4 DEF TimerInv, AlarmOK, HeadPends, AlarmAnswers
<1>8. \A i, j \in 1 .. k : p[i] = p[j] => i = j
  BY DEF Path
<1> QED BY <1>2, <1>3, <1>4, <1>5, <1>6, <1>7, <1>8

(* What neither moves a node nor changes what it waits for. *)
LEMMA PunctualSame ==
  ASSUME NEW k \in Nat, NEW p \in [1 .. k -> Timers], Path(k, p), InOrder(k, p), InTime(k, p),
         Path(k, p)', elapsed' = elapsed, k # 0 => Wait' = Wait,
         \A i \in 1 .. k : Timestamp'[p[i]] = Timestamp[p[i]] /\ left'[p[i]] = left[p[i]]
  PROVE  Punctual'
<1>1. InOrder(k, p)'
  BY DEF InOrder
<1>2. InTime(k, p)'
  BY DEF InTime
<1> QED BY <1>1, <1>2 DEF Punctual

(* A node inserted behind the i-th, in the order of Timestamps: those that *)
(* it goes in front of have as long to go as itself.                       *)
Inserts(k, p, i, t, stamp) ==
  /\ Path(k + 1, With(k, p, i, t))'
  /\ \A j \in 1 .. k : Timestamp'[p[j]] = Timestamp[p[j]] /\ left'[p[j]] = left[p[j]]
  /\ stamp \in Nat /\ stamp >= elapsed' + MinTimeout
  /\ Timestamp'[t] = stamp /\ left'[t] = stamp - elapsed'
  /\ \A j \in 1 .. i : Timestamp[p[j]] <= stamp
  /\ i < k => stamp <= Timestamp[p[i + 1]]
  /\ i = 0 /\ k # 0 => stamp < Timestamp[p[1]]
  /\ elapsed' \in Nat /\ (k # 0 => elapsed' = elapsed)
  /\ Wait' \in Int /\ Wait' <= stamp - elapsed' + 2 * MaxBusy
  /\ i # 0 => Wait' = Wait

LEMMA InsertedInTime ==
  ASSUME TimerInv, NEW k \in Nat, NEW p, Path(k, p), InOrder(k, p), InTime(k, p),
         NEW i \in 0 .. k, NEW t \in Timers, NEW stamp, Inserts(k, p, i, t, stamp)
  PROVE  Punctual'
<1> USE DEF Inserts
<1> DEFINE q == With(k, p, i, t)
<1>1. /\ \A j \in 1 .. k : /\ p[j] \in Timers /\ Timestamp[p[j]] \in Nat /\ left[p[j]] \in Int
      /\ elapsed \in Nat /\ MinTimeout \in Nat \ {0} /\ MaxBusy \in Nat
  BY PathTypes, StepsAdd
<1>2. ASSUME NEW j \in 1 .. k + 1
      PROVE  \/ j \in 1 .. i /\ q[j] = p[j]
             \/ j = i + 1 /\ q[j] = t
             \/ j - 1 \in i + 1 .. k /\ q[j] = p[j - 1]
  BY DEF With
<1>3. q \in [1 .. k + 1 -> Timers] /\ k + 1 <= N
  <2>1. /\ q \in [1 .. k + 1 -> Timers] /\ k + 1 \in Nat
        /\ \A j, m \in 1 .. k + 1 : q[j] = q[m] => j = m
    BY DEF Path
  <2> HIDE DEF q
  <2> QED BY <2>1, NodesAreFew
<1> HIDE DEF q
<1>4. ASSUME NEW j \in i + 1 .. k
      PROVE  /\ j \in 1 .. k /\ elapsed' = elapsed
             /\ stamp <= Timestamp[p[j]] /\ (j = 1 => stamp < Timestamp[p[1]])
             /\ left[p[j]] = Timestamp[p[j]] - elapsed
  <2>1. j \in 1 .. k /\ k # 0 /\ i < k /\ i + 1 \in 1 .. k
    OBVIOUS
  <2>2. stamp <= Timestamp[p[j]]
    <3>1. CASE i = 0
      <4>1. Timestamp[p[1]] > elapsed + MinTimeout
        BY <2>1, <3>1, <1>1
      <4>2. Timestamp[p[1]] <= Timestamp[p[j]]
        BY <2>1, <4>1 DEF InOrder
      <4> QED BY <2>1, <3>1, <4>2, <1>1
    <3>2. CASE i # 0
      <4>1. i + 1 \in 2 .. k /\ j \in 2 .. k /\ i + 1 <= j
        BY <2>1, <3>2
      <4>2. Timestamp[p[i + 1]] <= Timestamp[p[j]]
        BY <4>1 DEF InOrder
      <4> QED BY <2>1, <4>2, <1>1
    <3> QED BY <3>1, <3>2
  <2>3. j = 1 => stamp < Timestamp[p[1]]
    BY <2>1
  <2>4. Timestamp[p[j]] > elapsed /\ (j = 1 => Timestamp[p[1]] > elapsed + MinTimeout)
    BY <2>1, <2>2, <2>3, <1>1
  <2>5. Timestamp[p[j]] = elapsed + left[p[j]]
    <3>1. CASE j = 1
      BY <2>1, <2>4, <3>1 DEF InOrder
    <3>2. CASE j # 1
      BY <2>1, <2>4, <3>2 DEF InOrder
    <3> QED BY <3>1, <3>2
  <2> QED BY <2>1, <2>2, <2>3, <2>5, <1>1
<1>5. ASSUME NEW j \in 1 .. k + 1
      PROVE  /\ Timestamp'[q[j]] \in Nat /\ left'[q[j]] \in Int
             /\ j > i => /\ stamp <= Timestamp'[q[j]]
                         /\ left'[q[j]] = Timestamp'[q[j]] - elapsed'
             /\ j <= i => /\ Timestamp'[q[j]] <= stamp /\ q[j] = p[j] /\ j \in 1 .. k
                          /\ Timestamp'[q[j]] = Timestamp[p[j]] /\ left'[q[j]] = left[p[j]]
  <2>1. CASE j \in 1 .. i /\ q[j] = p[j]
    BY <2>1, <1>1
  <2>2. CASE j = i + 1 /\ q[j] = t
    BY <2>2
  <2>3. CASE j - 1 \in i + 1 .. k /\ q[j] = p[j - 1]
    BY <2>3, <1>1, <1>4
  <2> QED BY <1>2, <2>1, <2>2, <2>3
<1>6. ASSUME NEW j \in i + 2 .. k + 1
      PROVE  q[j] = p[j - 1] /\ j - 1 \in i + 1 .. k /\ Timestamp'[q[j]] = Timestamp[p[j - 1]]
  BY <1>2
<1>7. \A j, m \in 2 .. k + 1 : j <= m => Timestamp'[q[j]] <= Timestamp'[q[m]]
  <2> SUFFICES ASSUME NEW j \in 2 .. k + 1, NEW m \in 2 .. k + 1, j <= m
               PROVE  Timestamp'[q[j]] <= Timestamp'[q[m]]
    OBVIOUS
  <2>1. CASE j <= i /\ m <= i
    <3>1. Timestamp[p[j]] <= Timestamp[p[m]]
      BY <2>1 DEF InOrder
    <3> QED BY <2>1, <3>1, <1>5
  <2>2. CASE j <= i /\ m > i
    <3>1. Timestamp'[q[j]] <= stamp /\ stamp <= Timestamp'[q[m]]
      BY <2>2, <1>5
    <3> QED BY <3>1, <1>5
  <2>3. CASE j = i + 1
    <3>1. Timestamp'[q[j]] = stamp
      BY <2>3, <1>2
    <3> QED BY <2>3, <3>1, <1>5
  <2>4. CASE j > i + 1
    <3>1. j \in i + 2 .. k + 1 /\ m \in i + 2 .. k + 1
      BY <2>4
    <3>2. Timestamp'[q[j]] = Timestamp[p[j - 1]] /\ Timestamp'[q[m]] = Timestamp[p[m - 1]]
          /\ j - 1 \in 1 .. k /\ m - 1 \in 1 .. k /\ j - 1 <= m - 1
      BY <3>1, <1>6
    <3>3. CASE j - 1 = 1
      <4>1. i = 0 /\ stamp < Timestamp[p[1]] /\ k # 0 /\ elapsed' = elapsed
        BY <3>3, <2>4, <3>2
      <4>2. Timestamp[p[1]] > elapsed + MinTimeout
        BY <4>1, <1>1, <3>2, <3>3
      <4> QED BY <3>2, <3>3, <4>2 DEF InOrder
    <3>4. CASE j - 1 # 1
      <4>1. j - 1 \in 2 .. k /\ m - 1 \in 2 .. k
        BY <3>2, <3>4
      <4> QED BY <3>2, <4>1 DEF InOrder
    <3> QED BY <3>3, <3>4
  <2> QED BY <2>1, <2>2, <2>3, <2>4
<1>8. \A j \in 2 .. k + 1 : Timestamp'[q[j]] > elapsed' => Timestamp'[q[j]] = elapsed' + left'[q[j]]
  <2> SUFFICES ASSUME NEW j \in 2 .. k + 1, Timestamp'[q[j]] > elapsed'
               PROVE  Timestamp'[q[j]] = elapsed' + left'[q[j]]
    OBVIOUS
  <2>1. CASE j <= i
    <3>1. elapsed' = elapsed /\ j \in 2 .. k /\ Timestamp[p[j]] > elapsed
      BY <2>1, <1>5
    <3> QED BY <2>1, <3>1, <1>5 DEF InOrder
  <2>2. CASE j > i
    BY <2>2, <1>5
  <2> QED BY <2>1, <2>2
<1>9. ASSUME NEW j \in 1 .. k + 1, Timestamp'[q[1]] > elapsed' + MinTimeout
      PROVE  Timestamp'[q[1]] = elapsed' + left'[q[1]] /\ Timestamp'[q[1]] <= Timestamp'[q[j]]
  <2>0. 1 \in 1 .. k + 1
    OBVIOUS
  <2>1. CASE i = 0
    <3>1. Timestamp'[q[1]] = stamp /\ left'[q[1]] = stamp - elapsed'
      BY <2>0, <2>1, <1>2
    <3>0. \A x, y \in Nat : x = y + (x - y)
      OBVIOUS
    <3>2. Timestamp'[q[1]] = elapsed' + left'[q[1]]
      BY <3>0, <3>1
    <3>3. j > i
      BY <2>1
    <3>4. stamp <= Timestamp'[q[j]]
      BY <3>3, <1>5
    <3> QED BY <3>1, <3>2, <3>4
  <2>2. CASE i # 0
    <3>1. /\ k # 0 /\ elapsed' = elapsed /\ 1 \in 1 .. k
          /\ Timestamp'[q[1]] = Timestamp[p[1]] /\ left'[q[1]] = left[p[1]]
          /\ Timestamp[p[1]] <= stamp
      BY <2>0, <2>2, <1>5
    <3>2. Timestamp[p[1]] = elapsed + left[p[1]]
      BY <3>1, <1>9 DEF InOrder
    <3>3. CASE j <= i
      <4>1. Timestamp[p[1]] <= Timestamp[p[j]]
        BY <3>1, <3>3, <1>9, <1>5 DEF InOrder
      <4> QED BY <3>1, <3>2, <3>3, <4>1, <1>5
    <3>4. CASE j > i
      BY <3>1, <3>2, <3>4, <1>1, <1>5
    <3> QED BY <3>3, <3>4
  <2> QED BY <2>1, <2>2
<1>10. ASSUME NEW j \in 1 .. k + 1
       PROVE  Steps(j - 1) + Wait' - left'[q[j]] <= MaxLate
  <2>1. CASE j <= i
    <3>1. Steps(j - 1) + Wait - left[p[j]] <= MaxLate /\ Wait' = Wait
      BY <2>1, <1>5 DEF InTime
    <3> QED BY <2>1, <3>1, <1>5
  <2>2. CASE j > i
    <3>1. stamp - elapsed' <= left'[q[j]] /\ left'[q[j]] \in Int
      BY <2>2, <1>5
    <3> DEFINE l == left'[q[j]]
               w == Wait'
               z == stamp - elapsed'
    <3>2. w \in Int /\ l \in Int /\ z \in Int /\ z <= l /\ w <= z + 2 * MaxBusy
      BY <3>1
    <3> HIDE DEF l, w, z
    <3>3. w - l <= 2 * MaxBusy
      BY <3>2, <1>1
    <3>4. j \in 1 .. N
      BY <1>3, NumberOfTimers
    <3>5. Steps(j - 1) + w - l <= MaxLate
      BY <3>2, <3>3, <3>4, FarIsInTime
    <3> QED BY <3>5 DEF l, w
  <2> QED BY <2>1, <2>2
<1>11. InOrder(k + 1, q)'
  BY <1>7, <1>8, <1>9 DEF InOrder
<1>12. InTime(k + 1, q)'
  BY <1>10 DEF InTime
<1>13. Path(k + 1, q)'
  BY DEF q
<1> QED BY <1>3, <1>11, <1>12, <1>13 DEF Punctual

(* A start, whoever makes it, leaves the list in time.                     *)
LEMMA StartIsPunctual ==
  ASSUME TimerInv, Punctual, NEW t \in Timers, ~IsRunning[t], StartNow(t),
         busy' = busy, hpc' = "none" <=> hpc = "none"
  PROVE  Punctual'
<1> DEFINE ticks == Larger(ReloadValue[t], MinTimeout)
<1>0. PICK k \in Nat : \E p \in [1 .. k -> Timers] : Path(k, p) /\ InOrder(k, p) /\ InTime(k, p)
  BY DEF Punctual
<1>1. PICK p \in [1 .. k -> Timers] : Path(k, p) /\ InOrder(k, p) /\ InTime(k, p)
  BY <1>0
<1>2. ServerTypes /\ ActorsOK /\ TypeOK
  BY TypesFit DEF TimerInv, ServerOK
<1>3. ticks \in Nat /\ ticks >= MinTimeout /\ MinTimeout \in Nat \ {0} /\ MaxBusy \in Nat
  <2>1. ReloadValue[t] \in Nat /\ MinTimeout \in Nat \ {0}
    BY <1>2, TimerAssumption DEF ServerTypes
  <2>2. MaxBusy \in Nat
    BY StepsAdd
  <2> QED BY <2>1, <2>2 DEF Larger
<1> HIDE DEF ticks
<1>4. /\ \/ InsertFirst(t, ticks)
         \/ InsertNewHead(t, ticks + elapsed)
         \/ InsertBehind(t, ticks + elapsed)
      /\ IsRunning' = [IsRunning EXCEPT ![t] = TRUE]
      /\ left' = [left EXCEPT ![t] = ticks]
  BY DEF StartNow, ticks
<1>5. /\ \A j \in 1 .. k : /\ p[j] \in Timers /\ Timestamp[p[j]] \in Nat /\ left[p[j]] \in Int
                           /\ p[j] # t
      /\ elapsed \in Nat /\ busy \in 0 .. MaxBusy /\ t # NoTimer
      /\ head = NoTimer <=> k = 0
      /\ k # 0 => head = p[1] /\ Wait \in Int
  BY <1>1, PathTypes, TimerAssumption
<1>6. left'[t] = ticks /\ \A j \in 1 .. k : left'[p[j]] = left[p[j]]
  BY <1>2, <1>4, <1>5 DEF ServerTypes
<1>7. CASE InsertFirst(t, ticks)
  <2>1. Larger(ticks, MinTimeout) = ticks
    BY <1>3 DEF Larger
  <2>2. /\ elapsed' = 0 /\ irq' = FALSE /\ head' = t
        /\ Timestamp' = [Timestamp EXCEPT ![t] = ticks]
    BY <1>7, <2>1 DEF InsertFirst, StartTimerEvt
  <2>3. Timestamp'[t] = ticks
    BY <1>2, <2>2 DEF ServerTypes
  <2>4. k = 0 /\ Path(k + 1, With(k, p, 0, t))'
    BY <1>1, <1>2, <1>4, <1>7, StartPath
  <2>5. Wait' \in Int /\ Wait' <= ticks + 2 * MaxBusy
    <3>1. Gap \in Nat /\ Gap = MinTimeout + MaxBusy
      BY StepsAdd DEF Gap
    <3>2. CASE hpc' = "none"
      <4>1. Wait' = ticks + MaxBusy
        BY <1>3, <2>2, <2>3, <3>2 DEF Wait
      <4> QED BY <4>1, <1>3
    <3>3. CASE hpc' # "none"
      <4>1. Wait' = MaxBusy - busy \/ Wait' = MaxBusy - busy + Gap
        BY <3>3 DEF Wait
      <4> QED BY <4>1, <3>1, <1>3, <1>5
    <3> QED BY <3>2, <3>3
  <2>6. ticks - elapsed' = ticks /\ ticks >= elapsed' + MinTimeout /\ elapsed' \in Nat
    BY <1>3, <2>2
  <2>7. \A j \in 1 .. k : FALSE
    BY <2>4
  <2>8. 0 \in 0 .. k /\ (0 < k => FALSE)
    BY <2>4
  <2>9. Inserts(k, p, 0, t, ticks)
    BY <1>3, <1>6, <2>3, <2>4, <2>5, <2>6, <2>7, <2>8 DEF Inserts
  <2> QED BY <1>1, <2>8, <2>9, InsertedInTime
<1>8. CASE InsertNewHead(t, ticks + elapsed)
  <2> DEFINE stamp == ticks + elapsed
  <2>1. stamp \in Nat /\ stamp >= elapsed + MinTimeout /\ Timeout(stamp) = stamp
        /\ stamp - elapsed = ticks
    BY <1>3, <1>5 DEF Timeout, Larger
  <2>2. /\ elapsed' = elapsed /\ irq' = FALSE /\ head' = t
        /\ head # NoTimer /\ stamp < Timestamp[head]
        /\ Timestamp' = [Timestamp EXCEPT ![t] = stamp]
    BY <1>8, <2>1 DEF InsertNewHead, StartTimerEvt
  <2> HIDE DEF stamp
  <2>3. Timestamp'[t] = stamp /\ \A j \in 1 .. k : Timestamp'[p[j]] = Timestamp[p[j]]
    BY <1>2, <1>5, <2>2 DEF ServerTypes
  <2>4. Path(k + 1, With(k, p, 0, t))'
    BY <1>1, <1>2, <1>4, <1>8, StartPath
  <2>5. Wait' \in Int /\ Wait' <= ticks + 2 * MaxBusy
    <3>1. Gap \in Nat /\ Gap = MinTimeout + MaxBusy
      BY StepsAdd DEF Gap
    <3>2. CASE hpc' = "none"
      <4>1. Wait' = stamp - elapsed + MaxBusy
        BY <2>2, <2>3, <3>2 DEF Wait
      <4> QED BY <4>1, <2>1, <1>3
    <3>3. CASE hpc' # "none"
      <4>1. Wait' = MaxBusy - busy \/ Wait' = MaxBusy - busy + Gap
        BY <3>3 DEF Wait
      <4> QED BY <4>1, <3>1, <1>3, <1>5
    <3> QED BY <3>2, <3>3
  <2>6. k # 0 /\ 0 \in 0 .. k /\ stamp < Timestamp[p[1]] /\ 1 \in 1 .. k
    BY <1>5, <2>2
  <2>7. stamp <= Timestamp[p[0 + 1]]
    BY <2>1, <2>6, <1>5
  <2>8. \A j \in 1 .. 0 : Timestamp[p[j]] <= stamp
    OBVIOUS
  <2>9. Inserts(k, p, 0, t, stamp)
    BY <1>5, <1>6, <2>1, <2>2, <2>3, <2>4, <2>5, <2>6, <2>7, <2>8 DEF Inserts
  <2> QED BY <1>1, <2>6, <2>9, InsertedInTime
<1>9. CASE InsertBehind(t, ticks + elapsed)
  <2> DEFINE stamp == ticks + elapsed
  <2>1. stamp \in Nat /\ stamp >= elapsed + MinTimeout /\ stamp - elapsed = ticks
    BY <1>3, <1>5
  <2>2. /\ elapsed' = elapsed /\ irq' = irq /\ head' = head
        /\ head # NoTimer /\ stamp >= Timestamp[head]
        /\ Timestamp' = [Timestamp EXCEPT ![t] = stamp]
    BY <1>9 DEF InsertBehind, rtc
  <2>3. PICK i \in 1 .. k : /\ Path(k + 1, With(k, p, i, t))'
                            /\ i = k \/ stamp <= Timestamp[p[i + 1]]
                            /\ \A j \in 2 .. i : ~(stamp <= Timestamp[p[j]])
    BY <1>1, <1>2, <1>4, <1>9, StartPath
  <2> HIDE DEF stamp
  <2>4. Timestamp'[t] = stamp /\ \A j \in 1 .. k : Timestamp'[p[j]] = Timestamp[p[j]]
    BY <1>2, <1>5, <2>2 DEF ServerTypes
  <2>5. k # 0 /\ head = p[1] /\ 1 \in 1 .. k /\ Timestamp[head] \in Nat /\ Timestamp'[head] = Timestamp[head]
    BY <1>5, <2>2, <2>4
  <2>6. Wait' = Wait
    <3>1. HeadExpired' <=> HeadExpired
      BY <2>2, <2>5 DEF HeadExpired
    <3> QED BY <2>2, <2>5, <3>1 DEF Wait
  <2>7. Wait <= ticks + 2 * MaxBusy
    <3>1. Gap \in Nat /\ Gap = MinTimeout + MaxBusy
      BY StepsAdd DEF Gap
    <3>2. CASE hpc = "none" /\ ~irq
      <4>1. Wait = Timestamp[head] - elapsed + MaxBusy
        BY <3>2 DEF Wait
      <4> QED BY <4>1, <2>1, <2>2, <2>5, <1>3, <1>5
    <3>3. CASE ~(hpc = "none" /\ ~irq)
      <4>1. Wait = MaxBusy - busy \/ Wait = MaxBusy - busy + Gap
        BY <3>3 DEF Wait
      <4> QED BY <4>1, <3>1, <1>3, <1>5
    <3> QED BY <3>2, <3>3
  <2>8. \A j \in 1 .. i : Timestamp[p[j]] <= stamp
    <3> SUFFICES ASSUME NEW j \in 1 .. i PROVE Timestamp[p[j]] <= stamp
      OBVIOUS
    <3>1. CASE j = 1
      BY <3>1, <2>1, <2>2, <2>5
    <3>2. CASE j # 1
      <4>1. j \in 2 .. i /\ j \in 1 .. k
        BY <3>2
      <4> QED BY <4>1, <2>1, <2>3, <1>5
    <3> QED BY <3>1, <3>2
  <2>9. i \in 0 .. k /\ i # 0 /\ (i < k => stamp <= Timestamp[p[i + 1]])
    BY <2>3
  <2>10. Wait' \in Int /\ Wait' <= stamp - elapsed' + 2 * MaxBusy
    BY <1>5, <2>1, <2>2, <2>5, <2>6, <2>7
  <2>11. Inserts(k, p, i, t, stamp)
    BY <1>5, <1>6, <2>1, <2>2, <2>3, <2>4, <2>5, <2>6, <2>8, <2>9, <2>10 DEF Inserts
  <2> QED BY <1>1, <2>9, <2>11, InsertedInTime
<1> QED BY <1>4, <1>7, <1>8, <1>9

(* The i-th node taken out.  The next head may be postponed, and then its  *)
(* wait is no longer than what there was to wait for both.                 *)
Removes(k, p, i) ==
  /\ Path(k - 1, Without(k, p, i))'
  /\ elapsed' = elapsed
  /\ \A j \in 1 .. k : j # i => left'[p[j]] = left[p[j]]
  /\ \A j \in 1 .. k : j # i =>
       \/ Timestamp'[p[j]] = Timestamp[p[j]]
       \/ i = 1 /\ j = 2 /\ Timestamp'[p[j]] = Timeout(Timestamp[p[j]])
  /\ i # 1 => Wait' = Wait
  /\ i = 1 => \A j \in 2 .. k : Steps(j - 2) + Wait' - left[p[j]] <= MaxLate

LEMMA RemovedInTime ==
  ASSUME TimerInv, NEW k \in Nat, NEW p, Path(k, p), InOrder(k, p), InTime(k, p),
         NEW i \in 1 .. k, Removes(k, p, i)
  PROVE  Punctual'
<1> DEFINE q == Without(k, p, i)
<1>1. /\ \A j \in 1 .. k : /\ p[j] \in Timers /\ Timestamp[p[j]] \in Nat /\ left[p[j]] \in Int
      /\ elapsed \in Nat /\ MinTimeout \in Nat \ {0} /\ k - 1 \in Nat /\ k # 0 /\ Wait \in Int
  <2>1. k - 1 \in Nat /\ k # 0
    OBVIOUS
  <2>2. MinTimeout \in Nat \ {0}
    BY StepsAdd
  <2> QED BY <2>1, <2>2, PathTypes
<1>2. \A j \in 1 .. k - 1 : q[j] = IF j < i THEN p[j] ELSE p[j + 1]
  BY DEF Without
<1>3. Path(k - 1, q)'
  BY DEF Removes
<1>4. q \in [1 .. k - 1 -> Timers]
  BY <1>3 DEF Path
<1> HIDE DEF q
<1>5. CASE i # 1
  <2> DEFINE o(j) == IF j < i THEN j ELSE j + 1
  <2>1. ASSUME NEW j \in 1 .. k - 1
        PROVE  /\ o(j) \in 1 .. k /\ j <= o(j) /\ (j = 1 => o(j) = 1) /\ (j # 1 => o(j) \in 2 .. k)
               /\ Timestamp'[q[j]] = Timestamp[p[o(j)]] /\ left'[q[j]] = left[p[o(j)]]
    <3>1. o(j) \in 1 .. k /\ o(j) # i /\ q[j] = p[o(j)] /\ j <= o(j)
          /\ (j = 1 => o(j) = 1) /\ (j # 1 => o(j) \in 2 .. k)
      BY <1>2, <1>5
    <3> HIDE DEF o
    <3> QED BY <3>1, <1>5 DEF Removes
  <2>2. \A j, m \in 1 .. k - 1 : j <= m => o(j) <= o(m)
    OBVIOUS
  <2> HIDE DEF o
  <2>3. InOrder(k - 1, q)'
    <3>1. \A j, m \in 2 .. k - 1 : j <= m => Timestamp'[q[j]] <= Timestamp'[q[m]]
      <4> SUFFICES ASSUME NEW j \in 2 .. k - 1, NEW m \in 2 .. k - 1, j <= m
                   PROVE  Timestamp'[q[j]] <= Timestamp'[q[m]]
        OBVIOUS
      <4>1. j \in 1 .. k - 1 /\ m \in 1 .. k - 1 /\ j # 1 /\ m # 1
        OBVIOUS
      <4>2. o(j) \in 2 .. k /\ o(m) \in 2 .. k /\ o(j) <= o(m)
        BY <4>1, <2>1, <2>2
      <4> QED BY <4>1, <4>2, <2>1 DEF InOrder
    <3>2. \A j \in 2 .. k - 1 : Timestamp'[q[j]] > elapsed' =>
            Timestamp'[q[j]] = elapsed' + left'[q[j]]
      <4> SUFFICES ASSUME NEW j \in 2 .. k - 1, Timestamp'[q[j]] > elapsed'
                   PROVE  Timestamp'[q[j]] = elapsed' + left'[q[j]]
        OBVIOUS
      <4>1. j \in 1 .. k - 1 /\ j # 1
        OBVIOUS
      <4> QED BY <4>1, <2>1 DEF InOrder, Removes
    <3>3. \A j \in 1 .. k - 1 : Timestamp'[q[1]] > elapsed' + MinTimeout =>
            Timestamp'[q[1]] = elapsed' + left'[q[1]] /\ Timestamp'[q[1]] <= Timestamp'[q[j]]
      <4> SUFFICES ASSUME NEW j \in 1 .. k - 1, Timestamp'[q[1]] > elapsed' + MinTimeout
                   PROVE  /\ Timestamp'[q[1]] = elapsed' + left'[q[1]]
                          /\ Timestamp'[q[1]] <= Timestamp'[q[j]]
        OBVIOUS
      <4>1. 1 \in 1 .. k - 1
        OBVIOUS
      <4>2. Timestamp'[q[1]] = Timestamp[p[1]] /\ left'[q[1]] = left[p[1]]
        BY <4>1, <2>1
      <4>3. o(j) \in 1 .. k /\ Timestamp'[q[j]] = Timestamp[p[o(j)]]
        BY <2>1
      <4> QED BY <4>2, <4>3 DEF InOrder, Removes
    <3> QED BY <3>1, <3>2, <3>3 DEF InOrder
  <2>4. ASSUME NEW j \in 1 .. k - 1
        PROVE  Steps(j - 1) + Wait' - left'[q[j]] <= MaxLate
    <3>1. o(j) \in 1 .. k /\ left'[q[j]] = left[p[o(j)]] /\ left[p[o(j)]] \in Int /\ j <= o(j)
      BY <2>1, <1>1
    <3>2. Steps(o(j) - 1) + Wait - left[p[o(j)]] <= MaxLate
      BY <3>1 DEF InTime
    <3>3. /\ Steps(j - 1) <= Steps(o(j) - 1) /\ Steps(j - 1) \in Nat /\ Steps(o(j) - 1) \in Nat
          /\ MaxLate \in Int
      <4>1. j - 1 \in Nat /\ o(j) - 1 \in Nat /\ j - 1 <= o(j) - 1
        BY <3>1
      <4> QED BY <4>1, StepsAdd
    <3>4. Wait' = Wait
      BY <1>5 DEF Removes
    <3> DEFINE l == left[p[o(j)]]
               a1 == Steps(j - 1)
               a2 == Steps(o(j) - 1)
    <3>5. /\ l \in Int /\ a1 \in Nat /\ a2 \in Nat /\ a1 <= a2 /\ a2 + Wait - l <= MaxLate
          /\ left'[q[j]] = l
      BY <3>1, <3>2, <3>3
    <3> HIDE DEF l, a2
    <3>6. a1 + Wait - l <= MaxLate
      <4> HIDE DEF a1
      <4> QED BY <3>3, <3>5, <1>1
    <3> QED BY <3>4, <3>5, <3>6
  <2>5. InTime(k - 1, q)'
    BY <2>4 DEF InTime
  <2> QED BY <1>1, <1>3, <1>4, <2>3, <2>5 DEF Punctual
<1>6. CASE i = 1
  <2>1. ASSUME NEW j \in 1 .. k - 1
        PROVE  /\ j + 1 \in 2 .. k /\ q[j] = p[j + 1] /\ left'[q[j]] = left[p[j + 1]]
               /\ \/ Timestamp'[q[j]] = Timestamp[p[j + 1]]
                  \/ j = 1 /\ Timestamp'[q[j]] = Timeout(Timestamp[p[j + 1]])
    <3>1. j + 1 \in 2 .. k /\ j + 1 \in 1 .. k /\ j + 1 # i /\ q[j] = p[j + 1] /\ (j + 1 = 2 => j = 1)
      BY <1>2, <1>6
    <3> QED BY <3>1, <1>6 DEF Removes
  <2>2. InOrder(k - 1, q)'
    <3>1. \A j, m \in 2 .. k - 1 : j <= m => Timestamp'[q[j]] <= Timestamp'[q[m]]
      <4> SUFFICES ASSUME NEW j \in 2 .. k - 1, NEW m \in 2 .. k - 1, j <= m
                   PROVE  Timestamp'[q[j]] <= Timestamp'[q[m]]
        OBVIOUS
      <4>1. j \in 1 .. k - 1 /\ m \in 1 .. k - 1 /\ j # 1 /\ m # 1 /\ j + 1 <= m + 1
        OBVIOUS
      <4>2. j + 1 \in 2 .. k /\ m + 1 \in 2 .. k
            /\ Timestamp'[q[j]] = Timestamp[p[j + 1]] /\ Timestamp'[q[m]] = Timestamp[p[m + 1]]
        BY <4>1, <2>1
      <4> QED BY <4>1, <4>2 DEF InOrder
    <3>2. \A j \in 2 .. k - 1 : Timestamp'[q[j]] > elapsed' =>
            Timestamp'[q[j]] = elapsed' + left'[q[j]]
      <4> SUFFICES ASSUME NEW j \in 2 .. k - 1, Timestamp'[q[j]] > elapsed'
                   PROVE  Timestamp'[q[j]] = elapsed' + left'[q[j]]
        OBVIOUS
      <4>1. j \in 1 .. k - 1 /\ j # 1
        OBVIOUS
      <4>2. j + 1 \in 2 .. k /\ left'[q[j]] = left[p[j + 1]]
            /\ Timestamp'[q[j]] = Timestamp[p[j + 1]]
        BY <4>1, <2>1
      <4> QED BY <4>2 DEF InOrder, Removes
    <3>3. \A j \in 1 .. k - 1 : Timestamp'[q[1]] > elapsed' + MinTimeout =>
            Timestamp'[q[1]] = elapsed' + left'[q[1]] /\ Timestamp'[q[1]] <= Timestamp'[q[j]]
      <4> SUFFICES ASSUME NEW j \in 1 .. k - 1, Timestamp'[q[1]] > elapsed' + MinTimeout
                   PROVE  /\ Timestamp'[q[1]] = elapsed' + left'[q[1]]
                          /\ Timestamp'[q[1]] <= Timestamp'[q[j]]
        OBVIOUS
      <4>1. 1 \in 1 .. k - 1 /\ 1 + 1 = 2 /\ 2 \in 1 .. k /\ elapsed' = elapsed
        BY DEF Removes
      <4>2. 2 \in 2 .. k /\ left'[q[1]] = left[p[2]]
            /\ (Timestamp'[q[1]] = Timestamp[p[2]] \/ Timestamp'[q[1]] = Timeout(Timestamp[p[2]]))
        BY <4>1, <2>1
      <4>3. Timestamp'[q[1]] = Timestamp[p[2]]
        BY <4>1, <4>2, <1>1 DEF Timeout, Larger
      <4>4. Timestamp[p[2]] > elapsed
        BY <4>1, <4>3, <1>1
      <4>5. Timestamp'[q[1]] = elapsed' + left'[q[1]]
        BY <4>1, <4>2, <4>3, <4>4 DEF InOrder
      <4>6. j + 1 \in 2 .. k /\ 2 <= j + 1
        BY <2>1
      <4>7. Timestamp[p[2]] <= Timestamp[p[j + 1]]
        BY <4>2, <4>6 DEF InOrder
      <4>8. CASE j = 1
        <5>1. Timestamp'[q[1]] <= Timestamp'[q[1]]
          BY <4>1, <4>3, <1>1
        <5> QED BY <4>5, <4>8, <5>1
      <4>9. CASE j # 1
        BY <4>3, <4>5, <4>7, <4>9, <2>1
      <4> QED BY <4>8, <4>9
    <3> QED BY <3>1, <3>2, <3>3 DEF InOrder
  <2>3. ASSUME NEW j \in 1 .. k - 1
        PROVE  Steps(j - 1) + Wait' - left'[q[j]] <= MaxLate
    <3>1. j + 1 \in 2 .. k /\ left'[q[j]] = left[p[j + 1]] /\ (j + 1) - 2 = j - 1
      BY <2>1
    <3>2. Steps((j + 1) - 2) + Wait' - left[p[j + 1]] <= MaxLate
      BY <3>1, <1>6 DEF Removes
    <3> QED BY <3>1, <3>2
  <2>4. InTime(k - 1, q)'
    BY <2>3 DEF InTime
  <2> QED BY <1>1, <1>3, <1>4, <2>2, <2>4 DEF Punctual
<1> QED BY <1>5, <1>6

(* A stop, whoever makes it, leaves the list in time.                      *)
LEMMA StopIsPunctual ==
  ASSUME TimerInv, Punctual, NEW t \in Timers, Stop(t), busy' = busy, hpc' = hpc
  PROVE  Punctual'
<1>0. PICK k \in Nat : \E p \in [1 .. k -> Timers] : Path(k, p) /\ InOrder(k, p) /\ InTime(k, p)
  BY DEF Punctual
<1>1. PICK p \in [1 .. k -> Timers] : Path(k, p) /\ InOrder(k, p) /\ InTime(k, p)
  BY <1>0
<1>2. ServerTypes /\ ActorsOK /\ TypeOK
  BY TypesFit DEF TimerInv, ServerOK
<1>3. MinTimeout \in Nat \ {0} /\ MaxBusy \in Nat /\ Gap \in Nat /\ Gap = MinTimeout + MaxBusy
      /\ MaxLate \in Int
  BY StepsAdd DEF Gap
<1>4. \A j \in 1 .. k : /\ p[j] \in Timers /\ Timestamp[p[j]] \in Nat /\ left[p[j]] \in Int
                        /\ IsRunning[p[j]]
  BY <1>1, PathTypes
<1>5. /\ elapsed \in Nat /\ busy \in 0 .. MaxBusy /\ k <= N /\ (head = NoTimer <=> k = 0)
      /\ k # 0 => head = p[1] /\ Wait \in Int
      /\ \A i, j \in 1 .. k : p[i] = p[j] => i = j
  BY <1>1, PathTypes
<1>6. k # 0 => /\ left' = [left EXCEPT ![t] = 0] /\ elapsed' = elapsed
               /\ RemoveHead(t) \/ RemoveInside(t)
  BY <1>5 DEF Stop
<1>7. CASE ~IsRunning[t] /\ Path(k, p)'
  <2>1. k # 0 => ~RemoveHead(t)
    <3>1. k # 0 => 1 \in 1 .. k
      OBVIOUS
    <3> QED BY <3>1, <1>4, <1>5, <1>7 DEF RemoveHead
  <2>2. k # 0 => Timestamp' = Timestamp /\ irq' = irq /\ head' = head
    BY <1>6, <2>1 DEF RemoveInside
  <2>3. k # 0 => Wait' = Wait
    BY <1>6, <2>2 DEF Wait, HeadExpired
  <2>4. \A j \in 1 .. k : Timestamp'[p[j]] = Timestamp[p[j]] /\ left'[p[j]] = left[p[j]]
    <3> SUFFICES ASSUME NEW j \in 1 .. k
                 PROVE  Timestamp'[p[j]] = Timestamp[p[j]] /\ left'[p[j]] = left[p[j]]
      OBVIOUS
    <3>1. k # 0 /\ p[j] # t
      BY <1>4, <1>7
    <3> QED BY <3>1, <2>2, <1>2, <1>4, <1>6 DEF ServerTypes
  <2>5. elapsed' = elapsed
    BY DEF Stop
  <2> QED BY <1>1, <1>7, <2>3, <2>4, <2>5, PunctualSame
<1>8. ASSUME NEW i \in 1 .. k, p[i] = t, Path(k - 1, Without(k, p, i))'
      PROVE  Punctual'
  <2>1. /\ k # 0 /\ 1 \in 1 .. k /\ head = p[1] /\ elapsed' = elapsed
        /\ left' = [left EXCEPT ![t] = 0]
    BY <1>5, <1>6
  <2>2. \A j \in 1 .. k : j # i => p[j] # t
    BY <1>5, <1>8
  <2>3. \A j \in 1 .. k : j # i => left'[p[j]] = left[p[j]]
    BY <1>2, <1>4, <2>1, <2>2 DEF ServerTypes
  <2>4. CASE RemoveInside(t)
    <3>1. i # 1 /\ Timestamp' = Timestamp /\ irq' = irq /\ head' = head
      BY <2>1, <2>4, <1>8 DEF RemoveInside
    <3>2. Wait' = Wait
      BY <2>1, <3>1 DEF Wait, HeadExpired
    <3>3. Removes(k, p, i)
      BY <1>8, <2>1, <2>3, <3>1, <3>2 DEF Removes
    <3> QED BY <1>1, <3>3, RemovedInTime
  <2>5. CASE RemoveHead(t)
    <3>1. i = 1 /\ next[t] = next[p[1]]
      BY <2>1, <2>5, <1>5, <1>8 DEF RemoveHead
    <3>2. next[p[1]] = IF 1 = k THEN NoTimer ELSE p[2]
      BY <1>1, <2>1 DEF Path
    <3>3. CASE k = 1
      <4>1. Removes(k, p, i)
        BY <1>8, <2>1, <2>3, <3>1, <3>3 DEF Removes
      <4> QED BY <1>1, <4>1, RemovedInTime
    <3>4. CASE k # 1
      <4> DEFINE s == Timeout(Timestamp[p[2]])
      <4>1. 2 \in 1 .. k /\ next[t] = p[2] /\ p[2] # NoTimer
        BY <2>1, <3>1, <3>2, <3>4, <1>4, TimerAssumption
      <4>2. /\ Timestamp' = [Timestamp EXCEPT ![p[2]] = s] /\ irq' = FALSE /\ head' = p[2]
        BY <2>5, <4>1 DEF RemoveHead, StartTimerEvt
      <4>3. /\ s \in Nat /\ Timestamp[p[2]] \in Nat
            /\ s = Timestamp[p[2]] \/ s = elapsed + MinTimeout
            /\ Timestamp[p[2]] > elapsed + MinTimeout => s = Timestamp[p[2]]
            /\ s >= elapsed + MinTimeout
        BY <1>3, <1>4, <1>5, <4>1 DEF Timeout, Larger
      <4> HIDE DEF s
      <4>4. \A j \in 1 .. k : j # 2 => Timestamp'[p[j]] = Timestamp[p[j]]
        <5>1. \A j \in 1 .. k : j # 2 => p[j] # p[2]
          BY <1>5, <4>1
        <5> QED BY <1>2, <1>4, <4>2, <5>1 DEF ServerTypes
      <4>5. Timestamp'[p[2]] = s
        BY <1>2, <1>4, <4>1, <4>2 DEF ServerTypes
      <4>6. ASSUME NEW j \in 2 .. k
            PROVE  Steps(j - 2) + Wait' - left[p[j]] <= MaxLate
        <5> DEFINE l == left[p[j]]
                   a1 == Steps(j - 2)
                   a2 == Steps(j - 1)
        <5>1. j \in 1 .. k /\ j \in 1 .. N /\ j - 1 \in 1 .. N /\ (j - 1) - 1 = j - 2 /\ j - 2 \in Nat
              /\ (j - 2) + 1 = j - 1
          BY <1>5, NumberOfTimers
        <5>2. l \in Int /\ a1 \in Nat /\ a2 \in Nat /\ a2 = a1 + Gap
          <6>1. Steps((j - 2) + 1) = Steps(j - 2) + Gap /\ Steps(j - 2) \in Nat
            BY <5>1, StepsAdd
          <6> QED BY <5>1, <6>1, <1>3, <1>4
        <5>3. a2 + Wait - l <= MaxLate
          BY <1>1, <5>1 DEF InTime
        <5> HIDE DEF l, a2
        <5>4. CASE hpc = "none"
          <6>1. Wait' = s - elapsed + MaxBusy
            BY <2>1, <4>2, <4>5, <5>4 DEF Wait
          <6>2. CASE s = elapsed + MinTimeout
            <7>1. Wait >= 0
              <8>1. \/ irq /\ Timestamp[head] <= elapsed
                    \/ ~irq /\ alarm = Timestamp[head] /\ elapsed < alarm
                BY <1>1, <2>1, <5>4, PathTypes
              <8>2. Timestamp[head] \in Nat
                BY <1>4, <2>1
              <8> QED BY <8>1, <8>2, <1>3, <1>5, <5>4 DEF Wait
            <7>2. Wait' = Gap
              BY <6>1, <6>2, <1>3, <1>5
            <7> HIDE DEF a1
            <7>3. a1 + Wait' - l <= MaxLate
              BY <5>2, <5>3, <7>1, <7>2, <1>3, <1>5, <2>1
            <7> QED BY <7>3 DEF a1, l
          <6>3. CASE s # elapsed + MinTimeout
            <7>1. s = Timestamp[p[2]] /\ s >= elapsed + MinTimeout
              BY <4>3, <6>3
            <7>2. Timestamp[p[2]] <= Timestamp[p[j]] /\ 2 \in 2 .. k
              BY <1>1, <5>1 DEF InOrder
            <7>3. Timestamp[p[j]] > elapsed
              BY <7>1, <7>2, <1>3, <1>4, <1>5, <4>3, <5>1
            <7>4. Timestamp[p[j]] = elapsed + l
              BY <1>1, <7>3 DEF InOrder, l
            <7>5. Wait' \in Int /\ Wait' - l <= 2 * MaxBusy
              <8>1. Wait' = (Timestamp[p[2]] - elapsed) + MaxBusy /\ l = Timestamp[p[j]] - elapsed
                BY <6>1, <7>1, <7>4, <1>4, <1>5, <5>1, <5>2
              <8> DEFINE x == Timestamp[p[2]]
                         y == Timestamp[p[j]]
                         w == Wait'
              <8>2. /\ x \in Nat /\ y \in Nat /\ x <= y /\ w = (x - elapsed) + MaxBusy
                    /\ l = y - elapsed
                BY <8>1, <7>2, <1>4, <4>1, <5>1
              <8> HIDE DEF x, y, w
              <8>3. w \in Int /\ w - l <= 2 * MaxBusy
                BY <8>2, <1>3, <1>5
              <8> QED BY <8>3 DEF w
            <7>6. Steps((j - 1) - 1) + Wait' - l <= MaxLate
              BY <5>1, <5>2, <7>5, FarIsInTime
            <7> QED BY <5>1, <7>6 DEF l
          <6> QED BY <6>2, <6>3
        <5>5. CASE hpc # "none"
          <6>1. Wait' = MaxBusy - busy \/ Wait' = MaxBusy - busy + Gap
            BY <5>5 DEF Wait
          <6>2. Wait = MaxBusy - busy \/ Wait = MaxBusy - busy + Gap
            BY <5>5 DEF Wait
          <6> HIDE DEF a1
          <6>3. a1 + Wait' - l <= MaxLate
            BY <5>2, <5>3, <6>1, <6>2, <1>3, <1>5
          <6> QED BY <6>3 DEF a1, l
        <5> QED BY <5>4, <5>5
      <4>7. Removes(k, p, i)
        BY <1>8, <2>1, <2>3, <3>1, <4>4, <4>5, <4>6 DEF Removes, s
      <4> QED BY <1>1, <4>7, RemovedInTime
    <3> QED BY <3>3, <3>4
  <2> QED BY <1>6, <2>1, <2>4, <2>5
<1> QED BY <1>1, <1>2, <1>7, <1>8, StopPath

(* The expiry of the head lets the next node wait for the same handler, or *)
(* for one alarm more.                                                     *)
LEMMA ExpiryIsPunctual ==
  ASSUME TimerInv, Punctual, HandlerExpires
  PROVE  Punctual'
<1>0. PICK k \in Nat : \E p \in [1 .. k -> Timers] : Path(k, p) /\ InOrder(k, p) /\ InTime(k, p)
  BY DEF Punctual
<1>1. PICK p \in [1 .. k -> Timers] : Path(k, p) /\ InOrder(k, p) /\ InTime(k, p)
  BY <1>0
<1>2. ServerTypes /\ TypeOK
  BY TypesFit DEF TimerInv, ServerOK
<1>3. MaxBusy \in Nat /\ Gap \in Nat /\ MaxLate \in Int
  BY StepsAdd
<1>4. /\ \A j \in 1 .. k : p[j] \in Timers /\ left[p[j]] \in Int
      /\ busy \in 0 .. MaxBusy /\ k <= N
      /\ k # 0 => head = p[1]
      /\ \A i, j \in 1 .. k : p[i] = p[j] => i = j
  BY <1>1, PathTypes
<1>5. /\ hpc = "loop" /\ HeadExpired /\ hpc' = "callback" /\ busy' = busy
      /\ left' = [left EXCEPT ![head] = 0] /\ Timestamp' = Timestamp /\ elapsed' = elapsed
  BY DEF HandlerExpires, rtc
<1>6. k # 0 /\ 1 \in 1 .. k /\ Path(k - 1, Without(k, p, 1))'
  <2>1. k # 0 /\ Path(k - 1, Without(k, p, 1))'
    BY <1>1, <1>2, ExpiryPath
  <2> QED BY <2>1
<1>7. \A j \in 1 .. k : j # 1 => left'[p[j]] = left[p[j]]
  BY <1>2, <1>4, <1>5, <1>6 DEF ServerTypes
<1>8. ASSUME NEW j \in 2 .. k
      PROVE  Steps(j - 2) + Wait' - left[p[j]] <= MaxLate
  <2> DEFINE l == left[p[j]]
             a1 == Steps(j - 2)
             a2 == Steps(j - 1)
  <2>1. j \in 1 .. k /\ j - 2 \in Nat /\ (j - 2) + 1 = j - 1
    OBVIOUS
  <2>2. l \in Int /\ a1 \in Nat /\ a2 \in Nat /\ a2 = a1 + Gap
    <3>1. Steps((j - 2) + 1) = Steps(j - 2) + Gap /\ Steps(j - 2) \in Nat
      BY <2>1, StepsAdd
    <3> QED BY <2>1, <3>1, <1>3, <1>4
  <2>3. a2 + Wait - l <= MaxLate
    BY <1>1, <2>1 DEF InTime
  <2>4. Wait = MaxBusy - busy
    BY <1>5 DEF Wait
  <2>5. Wait' = MaxBusy - busy \/ Wait' = MaxBusy - busy + Gap
    BY <1>5 DEF Wait
  <2> HIDE DEF l, a1, a2
  <2>6. a1 + Wait' - l <= MaxLate
    BY <2>2, <2>3, <2>4, <2>5, <1>3, <1>4
  <2> QED BY <2>6 DEF a1, l
<1>9. Removes(k, p, 1)
  BY <1>5, <1>6, <1>7, <1>8 DEF Removes
<1> QED BY <1>1, <1>6, <1>9, RemovedInTime

(* UTIL_TIMER_IRQ_Handler() moves the context: the head is due, what is    *)
(* not due is as far from the new context as it was from now.              *)
LEMMA EnteringIsPunctual ==
  ASSUME TimerInv, Punctual, HandlerEnters
  PROVE  Punctual'
<1>0. PICK k \in Nat : \E p \in [1 .. k -> Timers] : Path(k, p) /\ InOrder(k, p) /\ InTime(k, p)
  BY DEF Punctual
<1>1. PICK p \in [1 .. k -> Timers] : Path(k, p) /\ InOrder(k, p) /\ InTime(k, p)
  BY <1>0
<1>2. /\ hpc = "none" /\ irq /\ hpc' = "loop" /\ elapsed' = 0 /\ busy' = busy
      /\ head' = head /\ next' = next /\ IsRunning' = IsRunning /\ left' = left
      /\ Timestamp' = [t \in Timers |-> IF t \in Listed THEN Larger(Timestamp[t] - elapsed, 0)
                                        ELSE Timestamp[t]]
  BY DEF HandlerEnters
<1>3. Path(k, p)'
  BY <1>1, <1>2, SamePath
<1>4. /\ \A j \in 1 .. k : /\ p[j] \in Timers /\ Timestamp[p[j]] \in Nat
                           /\ left[p[j]] \in Int /\ IsRunning[p[j]]
      /\ elapsed \in Nat /\ (k # 0 => head = p[1]) /\ (head = NoTimer <=> k = 0)
      /\ k # 0 => irq /\ Timestamp[head] <= elapsed
  BY <1>1, <1>2, PathTypes
<1>5. Listed = {t \in Timers : IsRunning[t]}
  BY <1>1, PathIsListed
<1>6. ASSUME NEW j \in 1 .. k
      PROVE  /\ Timestamp[p[j]] <= elapsed => Timestamp'[p[j]] = 0
             /\ Timestamp[p[j]] > elapsed => Timestamp'[p[j]] = Timestamp[p[j]] - elapsed
  <2>1. Timestamp'[p[j]] = Larger(Timestamp[p[j]] - elapsed, 0)
    BY <1>2, <1>4, <1>5
  <2> QED BY <2>1, <1>4 DEF Larger
<1>7. ASSUME NEW i \in 2 .. k, NEW j \in 2 .. k, i <= j
      PROVE  Timestamp'[p[i]] <= Timestamp'[p[j]]
  <2>1. Timestamp[p[i]] <= Timestamp[p[j]]
    BY <1>1, <1>7 DEF InOrder
  <2>2. i \in 1 .. k /\ j \in 1 .. k
    OBVIOUS
  <2> DEFINE x == Timestamp[p[i]]
             y == Timestamp[p[j]]
             u == Timestamp'[p[i]]
             v == Timestamp'[p[j]]
  <2>3. /\ x \in Nat /\ y \in Nat /\ x <= y
        /\ x <= elapsed => u = 0
        /\ x > elapsed => u = x - elapsed
        /\ y <= elapsed => v = 0
        /\ y > elapsed => v = y - elapsed
    BY <2>1, <2>2, <1>4, <1>6
  <2> HIDE DEF x, y, u, v
  <2>4. u <= v
    BY <2>3, <1>4
  <2> QED BY <2>4 DEF u, v
<1>8. ASSUME NEW i \in 2 .. k, Timestamp'[p[i]] > elapsed'
      PROVE  Timestamp'[p[i]] = elapsed' + left'[p[i]]
  <2>1. i \in 1 .. k
    OBVIOUS
  <2>2. Timestamp[p[i]] > elapsed /\ Timestamp'[p[i]] = Timestamp[p[i]] - elapsed
    <3>1. Timestamp[p[i]] \in Nat
      BY <2>1, <1>4
    <3>2. ~(Timestamp[p[i]] <= elapsed)
      <4>1. ~(0 > elapsed')
        BY <1>2
      <4>2. Timestamp'[p[i]] # 0
        BY <4>1, <1>8
      <4> QED BY <2>1, <4>2, <1>6
    <3>3. Timestamp[p[i]] > elapsed
      BY <3>1, <3>2, <1>4
    <3> QED BY <2>1, <3>3, <1>6
  <2>3. Timestamp[p[i]] = elapsed + left[p[i]]
    BY <2>2, <1>1 DEF InOrder
  <2> DEFINE x == Timestamp[p[i]]
             l == left[p[i]]
             u == Timestamp'[p[i]]
  <2>4. l \in Int /\ x = elapsed + l /\ u = x - elapsed
    BY <2>1, <2>2, <2>3, <1>4
  <2> HIDE DEF x, l, u
  <2>5. u = 0 + l
    BY <2>4, <1>4
  <2> QED BY <2>5, <1>2 DEF l, u
<1>9. ASSUME k # 0
      PROVE  Timestamp'[p[1]] = 0 /\ 1 \in 1 .. k
  <2>1. 1 \in 1 .. k
    BY <1>9
  <2> QED BY <2>1, <1>4, <1>6, <1>9
<1>10. InOrder(k, p)'
  <2>1. ASSUME NEW i \in 1 .. k PROVE ~(Timestamp'[p[1]] > elapsed' + MinTimeout)
    <3>1. Timestamp'[p[1]] = 0 /\ MinTimeout \in Nat
      BY <1>9, StepsAdd
    <3> QED BY <3>1, <1>2
  <2> QED BY <1>7, <1>8, <2>1 DEF InOrder
<1>11. k # 0 => Wait' = Wait
  <2>1. k # 0 => HeadExpired'
    BY <1>2, <1>4, <1>9 DEF HeadExpired
  <2> QED BY <1>2, <2>1 DEF Wait
<1>12. InTime(k, p)'
  BY <1>1, <1>2, <1>11 DEF InTime
<1> QED BY <1>3, <1>10, <1>12 DEF Punctual

(* The handler leaves: the alarm of the head is at most MinTimeout ticks   *)
(* away, or at its deadline, which is then the nearest.                    *)
LEMMA LeavingIsPunctual ==
  ASSUME TimerInv, Punctual, HandlerLeaves
  PROVE  Punctual'
<1>0. PICK k \in Nat : \E p \in [1 .. k -> Timers] : Path(k, p) /\ InOrder(k, p) /\ InTime(k, p)
  BY DEF Punctual
<1>1. PICK p \in [1 .. k -> Timers] : Path(k, p) /\ InOrder(k, p) /\ InTime(k, p)
  BY <1>0
<1>2. /\ hpc = "loop" /\ ~HeadExpired /\ hpc' = "none" /\ busy' = 0 /\ elapsed' = elapsed
      /\ head' = head /\ next' = next /\ IsRunning' = IsRunning /\ left' = left
  BY DEF HandlerLeaves
<1>3. Path(k, p)'
  BY <1>1, <1>2, SamePath
<1>4. /\ \A j \in 1 .. k : /\ p[j] \in Timers /\ Timestamp[p[j]] \in Nat /\ left[p[j]] \in Int
      /\ \A i, j \in 1 .. k : p[i] = p[j] => i = j
      /\ elapsed \in Nat /\ busy \in 0 .. MaxBusy /\ k <= N
      /\ (k # 0 => head = p[1]) /\ (head = NoTimer <=> k = 0)
  BY <1>1, PathTypes
<1>5. MinTimeout \in Nat \ {0} /\ MaxBusy \in Nat /\ Gap \in Nat /\ Gap = MinTimeout + MaxBusy
      /\ MaxLate \in Int
  BY StepsAdd DEF Gap
<1>6. CASE k = 0
  <2>1. InOrder(k, p)'
    BY <1>6 DEF InOrder
  <2>2. InTime(k, p)'
    BY <1>6 DEF InTime
  <2> QED BY <1>3, <2>1, <2>2 DEF Punctual
<1>7. CASE k # 0
  <2> DEFINE s == Timestamp'[p[1]]
             x == Timestamp[p[1]]
             w == Wait'
  <2>1. 1 \in 1 .. k /\ head = p[1] /\ x \in Nat /\ head # NoTimer
    BY <1>4, <1>7
  <2>2. \A j \in 1 .. k : j # 1 => Timestamp'[p[j]] = Timestamp[p[j]]
    <3>1. \A j \in 1 .. k : j # 1 => p[j] # p[1]
      BY <1>4, <2>1
    <3>2. Timestamp' = Timestamp \/ Timestamp' = [Timestamp EXCEPT ![head] = Timeout(@)]
      BY DEF HandlerLeaves
    <3>3. Timestamp \in [Timers -> Nat]
      BY DEF TimerInv, ServerOK, ServerTypes
    <3> QED BY <1>4, <2>1, <3>1, <3>2, <3>3
  <2>3. /\ s \in Nat /\ (s > elapsed + MinTimeout => s = x)
        /\ w \in Int /\ w <= (IF s > elapsed + MinTimeout THEN s - elapsed + MaxBusy ELSE Gap)
    <3>1. CASE IsPending[head]
      <4>1. Timestamp' = Timestamp /\ irq' = irq
        BY <3>1 DEF HandlerLeaves
      <4>2. x # 0
        BY <1>2, <2>1 DEF HeadExpired
      <4>3. irq \/ elapsed < x
        BY <1>2, <2>1, <3>1, <4>2 DEF TimerInv, AlarmOK, AlarmAnswers
      <4>4. s = x
        BY <4>1
      <4>5. w = IF irq THEN MaxBusy ELSE s - elapsed + MaxBusy
        <5>1. MaxBusy - 0 = MaxBusy
          BY <1>5
        <5> QED BY <1>2, <2>1, <4>1, <5>1 DEF Wait
      <4>6. irq => x <= elapsed
        BY <1>2, <2>1, <3>1, <4>2 DEF TimerInv, AlarmOK, AlarmAnswers
      <4> HIDE DEF s, x, w
      <4> QED BY <2>1, <4>3, <4>4, <4>5, <4>6, <1>4, <1>5
    <3>2. CASE ~IsPending[head]
      <4>1. Timestamp' = [Timestamp EXCEPT ![head] = Timeout(@)] /\ irq' = FALSE
        BY <2>1, <3>2 DEF HandlerLeaves, StartTimerEvt
      <4>2. s = Timeout(x)
        BY <2>1, <4>1, <1>4 DEF TimerInv, ServerOK, ServerTypes
      <4>3. w = s - elapsed + MaxBusy
        BY <1>2, <2>1, <4>1 DEF Wait
      <4> HIDE DEF s, x, w
      <4> QED BY <2>1, <4>2, <4>3, <1>4, <1>5 DEF Timeout, Larger
    <3> QED BY <3>1, <3>2
  <2>4. ASSUME s > elapsed + MinTimeout, NEW j \in 1 .. k
        PROVE  Timestamp[p[j]] = elapsed + left[p[j]] /\ s <= Timestamp[p[j]]
    <3>1. x > elapsed + MinTimeout /\ s = x
      BY <2>3, <2>4
    <3>2. x = elapsed + left[p[1]] /\ x <= Timestamp[p[j]]
      BY <1>1, <3>1 DEF InOrder
    <3>3. CASE j = 1
      BY <3>1, <3>2, <3>3
    <3>4. CASE j # 1
      <4>1. j \in 2 .. k
        BY <3>4
      <4> DEFINE y == Timestamp[p[j]]
      <4>2. y \in Nat /\ x <= y
        BY <1>4, <3>2
      <4> HIDE DEF x, y
      <4>3. y > elapsed
        BY <4>2, <3>1, <2>1, <1>4, <1>5
      <4>4. Timestamp[p[j]] = elapsed + left[p[j]]
        BY <1>1, <4>1, <4>3 DEF InOrder, y
      <4> QED BY <3>1, <3>2, <4>4
    <3> QED BY <3>3, <3>4
  <2>5. InOrder(k, p)'
    <3>1. \A i, j \in 2 .. k : i <= j => Timestamp'[p[i]] <= Timestamp'[p[j]]
      BY <1>1, <2>2 DEF InOrder
    <3>2. \A i \in 2 .. k : Timestamp'[p[i]] > elapsed' => Timestamp'[p[i]] = elapsed' + left'[p[i]]
      BY <1>1, <1>2, <2>2 DEF InOrder
    <3>3. ASSUME NEW i \in 1 .. k, s > elapsed' + MinTimeout
          PROVE  s = elapsed' + left'[p[1]] /\ s <= Timestamp'[p[i]]
      <4>1. s > elapsed + MinTimeout
        BY <3>3, <1>2
      <4>2. s = x /\ x = elapsed + left[p[1]] /\ s <= Timestamp[p[i]]
        BY <2>1, <2>3, <2>4, <4>1
      <4>3. s = elapsed' + left'[p[1]]
        BY <4>2, <1>2
      <4>4. i = 1 \/ Timestamp'[p[i]] = Timestamp[p[i]]
        BY <2>2
      <4>5. i = 1 => s <= Timestamp'[p[i]]
        BY <2>3
      <4> HIDE DEF s
      <4> QED BY <4>2, <4>3, <4>4, <4>5
    <3> QED BY <3>1, <3>2, <3>3 DEF InOrder
  <2>6. ASSUME NEW j \in 1 .. k
        PROVE  Steps(j - 1) + Wait' - left[p[j]] <= MaxLate
    <3> DEFINE l == left[p[j]]
               a1 == Steps(j - 1)
               y == Timestamp[p[j]]
    <3>1. l \in Int /\ j \in 1 .. N /\ y \in Nat
      BY <1>4, NumberOfTimers
    <3>2. CASE s > elapsed + MinTimeout
      <4>1. y = elapsed + l /\ s <= y
        BY <2>4, <3>2
      <4> HIDE DEF l, y, w, s
      <4>2. w <= s - elapsed + MaxBusy
        BY <2>3, <3>2
      <4>3. w - l <= 2 * MaxBusy
        BY <3>1, <4>1, <4>2, <2>3, <1>4, <1>5
      <4>4. Steps(j - 1) + w - l <= MaxLate
        BY <2>3, <3>1, <4>3, FarIsInTime
      <4> QED BY <4>4 DEF w, l
    <3>3. CASE ~(s > elapsed + MinTimeout)
      <4>1. w <= Gap
        BY <2>3, <3>3
      <4>2. Wait = MaxBusy - busy + Gap
        BY <1>2 DEF Wait
      <4>3. a1 + Wait - l <= MaxLate /\ a1 \in Nat
        <5>1. j - 1 \in Nat
          OBVIOUS
        <5> QED BY <1>1, <5>1, StepsAdd DEF InTime
      <4> HIDE DEF a1, l, w
      <4>4. w \in Int /\ Wait \in Int /\ w <= Wait
        <5>1. w \in Int
          BY <2>3
        <5>2. Wait \in Int /\ Gap <= Wait
          BY <4>2, <1>4, <1>5
        <5> QED BY <5>1, <5>2, <4>1, <1>5
      <4>5. a1 + w - l <= MaxLate
        BY <4>3, <4>4, <3>1, <1>5
      <4> QED BY <4>5 DEF a1, l, w
    <3> QED BY <3>2, <3>3
  <2>7. InTime(k, p)'
    BY <1>2, <2>6 DEF InTime
  <2> QED BY <1>3, <2>5, <2>7 DEF Punctual
<1> QED BY <1>6, <1>7

(* A tick shortens every wait by one, for it only comes while the alarm is *)
(* not due or the handler is within MaxBusy; so it comes for no timer that *)
(* is as late as may be.                                                   *)
LEMMA TickIsPunctual ==
  ASSUME TimerInv, Punctual, Tick
  PROVE  Punctual' /\ \A t \in Timers : IsRunning[t] => left[t] > -MaxLate
<1>0. PICK k \in Nat : \E p \in [1 .. k -> Timers] : Path(k, p) /\ InOrder(k, p) /\ InTime(k, p)
  BY DEF Punctual
<1>1. PICK p \in [1 .. k -> Timers] : Path(k, p) /\ InOrder(k, p) /\ InTime(k, p)
  BY <1>0
<1>2. /\ elapsed' = elapsed + 1
      /\ IF elapsed + 1 = alarm THEN irq' = TRUE ELSE irq' = irq
      /\ left' = [t \in Timers |-> IF IsRunning[t] THEN left[t] - 1 ELSE 0]
      /\ IF irq \/ hpc # "none" THEN busy < MaxBusy /\ busy' = busy + 1 ELSE busy' = 0
      /\ head' = head /\ next' = next /\ Timestamp' = Timestamp /\ IsRunning' = IsRunning
      /\ hpc' = hpc
  BY DEF Tick, nodes, isr
<1>3. Path(k, p)'
  BY <1>1, <1>2, SamePath
<1>4. /\ \A j \in 1 .. k : /\ p[j] \in Timers /\ Timestamp[p[j]] \in Nat /\ left[p[j]] \in Int
                           /\ IsRunning[p[j]]
      /\ elapsed \in Nat /\ busy \in 0 .. MaxBusy
      /\ (k # 0 => head = p[1] /\ Wait \in Int) /\ (head = NoTimer <=> k = 0)
      /\ k # 0 /\ hpc = "none" =>
              \/ irq /\ Timestamp[head] <= elapsed
              \/ ~irq /\ alarm = Timestamp[head] /\ elapsed < alarm
  BY <1>1, PathTypes
<1>5. MinTimeout \in Nat \ {0} /\ MaxBusy \in Nat /\ Gap \in Nat /\ MaxLate \in Int
  BY StepsAdd
<1>6. \A j \in 1 .. k : left'[p[j]] = left[p[j]] - 1
  BY <1>2, <1>4
<1>7. ASSUME k # 0
      PROVE  Wait >= 1 /\ Wait' \in Int /\ Wait' <= Wait - 1
  <2> DEFINE x == Timestamp[head]
             w == Wait'
  <2>1. x \in Nat /\ Wait \in Int /\ 1 \in 1 .. k
    BY <1>4, <1>7
  <2>2. CASE hpc = "none" /\ ~irq
    <3>1. alarm = x /\ elapsed < x
      BY <1>4, <1>7, <2>2
    <3>2. Wait = x - elapsed + MaxBusy
      BY <2>2 DEF Wait
    <3>3. CASE elapsed + 1 = x
      <4>1. w = MaxBusy - 0
        BY <1>2, <2>2, <3>1, <3>3 DEF Wait
      <4> HIDE DEF x, w
      <4>2. Wait >= 1 /\ w \in Int /\ w <= Wait - 1
        BY <2>1, <3>2, <3>3, <4>1, <1>4, <1>5
      <4> QED BY <4>2 DEF w
    <3>4. CASE elapsed + 1 # x
      <4>1. w = x - (elapsed + 1) + MaxBusy
        BY <1>2, <2>2, <3>1, <3>4 DEF Wait
      <4> HIDE DEF x, w
      <4>2. Wait >= 1 /\ w \in Int /\ w <= Wait - 1
        BY <2>1, <3>1, <3>2, <4>1, <1>4, <1>5
      <4> QED BY <4>2 DEF w
    <3> QED BY <3>3, <3>4
  <2>3. CASE hpc = "none" /\ irq
    <3>1. Wait = MaxBusy - busy /\ busy < MaxBusy /\ busy' = busy + 1 /\ irq'
      BY <1>2, <2>3 DEF Wait
    <3>2. w = MaxBusy - (busy + 1)
      BY <1>2, <2>3, <3>1 DEF Wait
    <3> HIDE DEF w
    <3>3. Wait >= 1 /\ w \in Int /\ w <= Wait - 1
      BY <3>1, <3>2, <1>4, <1>5
    <3> QED BY <3>3 DEF w
  <2>4. CASE hpc # "none"
    <3>1. busy < MaxBusy /\ busy' = busy + 1
      BY <1>2, <2>4
    <3>2. /\ HeadExpired => Wait = MaxBusy - busy
          /\ ~HeadExpired => Wait = MaxBusy - busy + Gap
          /\ HeadExpired' => w = MaxBusy - (busy + 1)
          /\ ~HeadExpired' => w = MaxBusy - (busy + 1) + Gap
      BY <1>2, <2>4, <3>1 DEF Wait
    <3>3. HeadExpired => HeadExpired'
      <4>1. head # NoTimer /\ (x = 0 \/ x < elapsed) => x = 0 \/ x < elapsed + 1
        <5> HIDE DEF x
        <5> QED BY <2>1, <1>4
      <4> QED BY <1>2, <4>1 DEF HeadExpired
    <3> HIDE DEF w
    <3>4. Wait >= 1 /\ w \in Int /\ w <= Wait - 1
      BY <3>1, <3>2, <3>3, <1>4, <1>5
    <3> QED BY <3>4 DEF w
  <2> QED BY <2>2, <2>3, <2>4
<1>8. InOrder(k, p)'
  <2>1. \A i, j \in 2 .. k : i <= j => Timestamp'[p[i]] <= Timestamp'[p[j]]
    BY <1>1, <1>2 DEF InOrder
  <2>2. ASSUME NEW i \in 2 .. k, Timestamp[p[i]] > elapsed + 1
        PROVE  Timestamp[p[i]] = (elapsed + 1) + left'[p[i]]
    <3> DEFINE x == Timestamp[p[i]]
               l == left[p[i]]
               m == left'[p[i]]
    <3>1. i \in 1 .. k
      OBVIOUS
    <3>2. x \in Nat /\ l \in Int /\ m = l - 1
      BY <3>1, <1>4, <1>6
    <3>3. x > elapsed
      <4> HIDE DEF m, l
      <4> QED BY <2>2, <3>2, <1>4
    <3>4. x = elapsed + l
      BY <3>3, <1>1 DEF InOrder
    <3> HIDE DEF x, l, m
    <3>5. x = (elapsed + 1) + m
      BY <3>2, <3>4, <1>4
    <3> QED BY <3>5 DEF x, m
  <2>3. ASSUME NEW i \in 1 .. k, Timestamp[p[1]] > (elapsed + 1) + MinTimeout
        PROVE  Timestamp[p[1]] = (elapsed + 1) + left'[p[1]] /\ Timestamp[p[1]] <= Timestamp[p[i]]
    <3> DEFINE x == Timestamp[p[1]]
               l == left[p[1]]
               m == left'[p[1]]
    <3>1. 1 \in 1 .. k
      OBVIOUS
    <3>2. x \in Nat /\ l \in Int /\ m = l - 1
      BY <3>1, <1>4, <1>6
    <3>3. x > elapsed + MinTimeout
      <4> HIDE DEF m, l
      <4> QED BY <2>3, <3>2, <1>4, <1>5
    <3>4. x = elapsed + l /\ x <= Timestamp[p[i]]
      BY <3>3, <1>1 DEF InOrder
    <3>6. Timestamp[p[1]] <= Timestamp[p[i]]
      BY <3>4
    <3> HIDE DEF x, l, m
    <3>5. x = (elapsed + 1) + m
      BY <3>2, <3>4, <1>4
    <3> QED BY <3>5, <3>6 DEF x, m
  <2> QED BY <1>2, <2>1, <2>2, <2>3 DEF InOrder
<1>9. ASSUME NEW j \in 1 .. k
      PROVE  Steps(j - 1) + Wait' - left'[p[j]] <= MaxLate /\ left[p[j]] > -MaxLate
  <2> DEFINE l == left[p[j]]
             m == left'[p[j]]
             a1 == Steps(j - 1)
             w == Wait'
  <2>1. k # 0 /\ j - 1 \in Nat
    OBVIOUS
  <2>2. a1 + Wait - l <= MaxLate /\ a1 \in Nat /\ l \in Int /\ m = l - 1
    BY <2>1, <1>1, <1>4, <1>6, StepsAdd DEF InTime
  <2>3. Wait \in Int /\ Wait >= 1 /\ w \in Int /\ w <= Wait - 1
    BY <2>1, <1>4, <1>7
  <2> HIDE DEF l, m, a1, w
  <2>4. a1 + w - m <= MaxLate /\ l > -MaxLate
    BY <2>2, <2>3, <1>5
  <2> QED BY <2>4 DEF l, m, a1, w
<1>10. InTime(k, p)'
  BY <1>9 DEF InTime
<1>11. ASSUME NEW t \in Timers, IsRunning[t]
       PROVE  left[t] > -MaxLate
  <2>1. PICK j \in 1 .. k : p[j] = t
    BY <1>1, <1>11 DEF Path
  <2> QED BY <2>1, <1>9
<1> QED BY <1>3, <1>8, <1>10, <1>11 DEF Punctual

(* What touches neither the list nor the clock. *)
LEMMA OtherIsPunctual ==
  ASSUME TimerInv, Punctual, busy' = busy, hpc' = "none" <=> hpc = "none",
         UNCHANGED <<head, next, Timestamp, IsRunning, elapsed, irq, left>>
  PROVE  Punctual'
<1>0. PICK k \in Nat : \E p \in [1 .. k -> Timers] : Path(k, p) /\ InOrder(k, p) /\ InTime(k, p)
  BY DEF Punctual
<1>1. PICK p \in [1 .. k -> Timers] : Path(k, p) /\ InOrder(k, p) /\ InTime(k, p)
  BY <1>0
<1>2. Path(k, p)'
  BY <1>1, SamePath
<1>3. Wait' = Wait
  BY DEF Wait, HeadExpired
<1> QED BY <1>1, <1>2, <1>3, PunctualSame

LEMMA CreateIsPunctual ==
  ASSUME TimerInv, Punctual, WellUsed, NEW t \in Timers, MainCreates(t)
  PROVE  Punctual'
<1>0. PICK k \in Nat : \E p \in [1 .. k -> Timers] : Path(k, p) /\ InOrder(k, p) /\ InTime(k, p)
  BY DEF Punctual
<1>1. PICK p \in [1 .. k -> Timers] : Path(k, p) /\ InOrder(k, p) /\ InTime(k, p)
  BY <1>0
<1>2. ServerTypes
  BY DEF TimerInv, ServerOK
<1>3. ~IsRunning[t]
  BY <1>1, PathIsListed DEF WellUsed, MainCreates
<1>4. /\ \A j \in 1 .. k : p[j] \in Timers /\ p[j] # t
      /\ k # 0 => head = p[1] /\ 1 \in 1 .. k
  <2>1. k # 0 => 1 \in 1 .. k
    OBVIOUS
  <2> QED BY <1>1, <1>3, <2>1, PathTypes
<1>5. /\ next' = [next EXCEPT ![t] = NoTimer] /\ Timestamp' = [Timestamp EXCEPT ![t] = 0]
      /\ IsRunning' = [IsRunning EXCEPT ![t] = FALSE] /\ left' = [left EXCEPT ![t] = 0]
      /\ head' = head /\ elapsed' = elapsed /\ irq' = irq /\ busy' = busy /\ hpc' = hpc
  BY DEF MainCreates, rtc, isr
<1>6. \A j \in 1 .. k : /\ next'[p[j]] = next[p[j]] /\ Timestamp'[p[j]] = Timestamp[p[j]]
                        /\ left'[p[j]] = left[p[j]]
  BY <1>2, <1>4, <1>5 DEF ServerTypes
<1>7. \A u \in Timers : IsRunning'[u] <=> IsRunning[u]
  BY <1>2, <1>3, <1>5 DEF ServerTypes
<1>8. Path(k, p)'
  BY <1>1, <1>5, <1>6, <1>7, SamePath
<1>9. k # 0 => Wait' = Wait
  <2>1. ASSUME k # 0 PROVE Timestamp'[head] = Timestamp[head]
    BY <1>4, <1>6, <2>1
  <2>2. k # 0 => (HeadExpired' <=> HeadExpired)
    BY <1>5, <2>1 DEF HeadExpired
  <2> QED BY <1>5, <2>1, <2>2 DEF Wait
<1> QED BY <1>1, <1>5, <1>6, <1>8, <1>9, PunctualSame

-----------------------------------------------------------------------------
LEMMA PunctualInit == Init => Punctual
<1> SUFFICES ASSUME Init PROVE Punctual
  OBVIOUS
<1> DEFINE p == [i \in 1 .. 0 |-> NoTimer]
<1>1. p \in [1 .. 0 -> Timers]
  OBVIOUS
<1>2. Path(0, p)
  BY DEF Path, Init
<1>3. InOrder(0, p) /\ InTime(0, p)
  BY DEF InOrder, InTime
<1> QED BY <1>1, <1>2, <1>3 DEF Punctual

LEMMA PunctualNext ==
  ASSUME TimerInv, Punctual, WellUsed, [Next]_vars
  PROVE  Punctual'
<1>1. CASE MainOp
  <2>1. ASSUME NEW t \in Timers,
               \/ MainCallsStart(t) \/ MainSetsReloadMode(t)
               \/ \E p \in Periods, op \in Ops : MainSetsPeriod(op, t, p)
        PROVE  Punctual'
    <3>1. /\ busy' = busy /\ hpc' = hpc
          /\ UNCHANGED <<head, next, Timestamp, IsRunning, elapsed, irq, left>>
      BY <2>1 DEF MainCallsStart, MainSetsReloadMode, MainSetsPeriod, nodes, rtc, isr
    <3> QED BY <3>1, OtherIsPunctual
  <2>2. ASSUME NEW t \in Timers, MainStops(t) PROVE Punctual'
    BY <2>2, StopIsPunctual DEF MainStops, isr
  <2> QED BY <1>1, <2>1, <2>2, CreateIsPunctual DEF MainOp
<1>2. CASE MainStep
  <2>1. mpc \in {"stop", "insert"} => mtimer \in Timers
    BY DEF TimerInv, ActorsOK
  <2>2. CASE MainReadsHead \/ MainFollowsNext \/ MainFound \/ MainNotFound
    <3>1. /\ busy' = busy /\ hpc' = hpc
          /\ UNCHANGED <<head, next, Timestamp, IsRunning, elapsed, irq, left>>
      BY <2>2 DEF MainReadsHead, MainFollowsNext, MainFound, MainNotFound, nodes, rtc, isr
    <3> QED BY <3>1, OtherIsPunctual
  <2>3. CASE MainStopsToRestart
    BY <2>1, <2>3, StopIsPunctual DEF MainStopsToRestart, ThreadAt, isr
  <2>4. CASE MainInserts
    <3>1. mtimer \in Timers /\ ~IsRunning[mtimer] /\ StartNow(mtimer) /\ busy' = busy /\ hpc' = hpc
      BY <2>1, <2>4 DEF MainInserts, ThreadAt, isr, TimerInv, InsertOK
    <3> QED BY <3>1, StartIsPunctual
  <2> QED BY <1>2, <2>2, <2>3, <2>4 DEF MainStep
<1>3. CASE Handler
  <2>1. ASSUME NEW t \in Timers, CallbackStarts(t) PROVE Punctual'
    BY <2>1, StartIsPunctual DEF CallbackStarts, isr
  <2>2. ASSUME NEW t \in Timers, CallbackStops(t) PROVE Punctual'
    BY <2>2, StopIsPunctual DEF CallbackStops, isr
  <2>3. CASE CallbackReturns
    <3>1. /\ busy' = busy /\ hpc = "callback" /\ hpc' = "reload"
          /\ UNCHANGED <<head, next, Timestamp, IsRunning, elapsed, irq, left>>
      BY <2>3 DEF CallbackReturns, nodes, rtc
    <3> QED BY <3>1, OtherIsPunctual
  <2>4. CASE HandlerReloads
    <3>1. busy' = busy /\ hpc = "reload" /\ hpc' = "loop"
      BY <2>4 DEF HandlerReloads
    <3>2. CASE StartNow(hcur) /\ ~IsRunning[hcur] /\ hcur \in periodic
      <4>1. hcur \in Timers
        BY <3>2 DEF TimerInv, ActorsOK
      <4> QED BY <3>1, <3>2, <4>1, StartIsPunctual
    <3>3. CASE UNCHANGED <<head, nodes, rtc, left>>
      <4>1. UNCHANGED <<head, next, Timestamp, IsRunning, elapsed, irq, left>>
        BY <3>3 DEF nodes, rtc
      <4> QED BY <3>1, <4>1, OtherIsPunctual
    <3> QED BY <2>4, <3>2, <3>3 DEF HandlerReloads
  <2> QED BY <1>3, <2>1, <2>2, <2>3, <2>4, EnteringIsPunctual, ExpiryIsPunctual,
             LeavingIsPunctual DEF Handler
<1>4. CASE Tick
  BY <1>4, TickIsPunctual
<1>5. CASE UNCHANGED vars
  <2>1. /\ busy' = busy /\ hpc' = hpc
        /\ UNCHANGED <<head, next, Timestamp, IsRunning, elapsed, irq, left>>
    BY <1>5 DEF vars, nodes, rtc, isr
  <2> QED BY <2>1, OtherIsPunctual
<1> QED BY <1>1, <1>2, <1>3, <1>4, <1>5 DEF Next

(* The server keeps its promise: a callback is called neither before the   *)
(* period of its timer is over nor more than MaxLate ticks after it, once  *)
(* per start, and not after a stop.                                        *)
THEOREM KeepsItsPromise ==
  ASSUME WellUsed
  PROVE  Spec => KeepsPromise
<1>1. Init => Promise!PInit
  BY DEF Init, Promise!PInit
<1>2. TimerInv /\ Punctual /\ [Next]_vars => Punctual'
  BY PunctualNext
<1>3. ASSUME TimerInv, Punctual, [Next]_vars
      PROVE  [Promise!PNext]_<<IsRunning, left, Firing>>
  <2>1. CASE Promise!PCall
    BY <2>1 DEF Promise!PNext
  <2>2. CASE Tick /\ Promise!PPasses
    <3>1. \A t \in Timers : IsRunning[t] => left[t] > -MaxLate
      BY <1>3, <2>2, TickIsPunctual
    <3> QED BY <2>2, <3>1 DEF Promise!PNext, Promise!PTick
  <2>3. CASE UNCHANGED <<IsRunning, left, Firing>>
    BY <2>3
  <2> QED BY <1>3, <2>1, <2>2, <2>3, StepIsPromised
<1> QED BY <1>1, <1>2, <1>3, PunctualInit, TimerInvariant, PTL
    DEF Spec, KeepsPromise, Promise!PSpec, Firing
=============================================================================
