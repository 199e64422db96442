------------------------ MODULE FragmentationProofs ------------------------
(***************************************************************************)
(* The fragment decoder rebuilds the file, for every number of rows and of *)
(* coded fragments, whatever is lost, repeated or out of order; and the    *)
(* package neither forgets an answer nor reports a session twice.          *)
(*                                                                         *)
(* Where a loop of FragDecoder.c runs over rows or lines, the model has a  *)
(* recursive function on an interval; the lemmas take induction on it as a *)
(* set of numbers (Induct).                                                *)
(***************************************************************************)
EXTENDS Fragmentation, FiniteSetTheorems, WellFoundedInduction, TLAPS

-----------------------------------------------------------------------------
(* Induction, and functions defined by it.                                 *)

LEMMA LeastNumber ==
  ASSUME NEW A \in SUBSET Nat, A # {}
  PROVE  \E m \in A : \A n \in A : m <= n
<1> DEFINE R == OpToRel(<, Nat)
<1>1. \A x, y \in Nat : x < y => <<x, y>> \in R
  BY Zenon DEF OpToRel
<1>2. IsWellFoundedOn(R, Nat)
  BY NatLessThanWellFounded
<1> HIDE DEF R
<1>3. PICK m \in A : \A n \in A : ~(<<n, m>> \in R)
  BY <1>2, WFMin
<1>4. \A n \in A : ~(n < m)
  BY <1>1, <1>3
<1> QED BY <1>4

(* Induction from 0 to n, for a set of numbers instead of a predicate.     *)
LEMMA Induct ==
  ASSUME NEW n \in Nat, NEW P,
         0 \in P, \A i \in 1 .. n : i - 1 \in P => i \in P
  PROVE  \A i \in 0 .. n : i \in P
<1> DEFINE Wrong == {i \in 0 .. n : i \notin P}
<1> SUFFICES ASSUME Wrong # {} PROVE FALSE
  OBVIOUS
<1>1. Wrong \in SUBSET Nat
  OBVIOUS
<1> HIDE DEF Wrong
<1>2. PICK m \in Wrong : \A i \in Wrong : m <= i
  BY <1>1, LeastNumber
<1>3. m \in 1 .. n /\ m \notin P
  BY DEF Wrong
<1>4. m - 1 \in 0 .. n /\ m - 1 \notin Wrong
  BY <1>2, <1>3
<1> QED BY <1>3, <1>4 DEF Wrong

(* A loop of n rounds from x, the k-th of which maps the states X by G[k]. *)
IsRun(n, X, x, G, u) ==
  u \in [0 .. n -> X] /\ u[0] = x /\ \A k \in 1 .. n : u[k] = G[k][u[k - 1]]

LEMMA LoopExists ==
  ASSUME NEW n \in Nat, NEW X, NEW x \in X, NEW G \in [1 .. n -> [X -> X]]
  PROVE  \E u : IsRun(n, X, x, G, u)
<1> DEFINE P == {m \in 0 .. n : \E u \in [0 .. n -> X] :
                   u[0] = x /\ \A k \in 1 .. m : u[k] = G[k][u[k - 1]]}
<1>1. 0 \in P
  <2> DEFINE u == [k \in 0 .. n |-> x]
  <2>1. u \in [0 .. n -> X] /\ u[0] = x
    OBVIOUS
  <2> HIDE DEF u
  <2> QED BY <2>1
<1>2. ASSUME NEW m \in 1 .. n, m - 1 \in P
      PROVE  m \in P
  <2>1. PICK u \in [0 .. n -> X] :
          u[0] = x /\ \A k \in 1 .. m - 1 : u[k] = G[k][u[k - 1]]
    BY <1>2
  <2> DEFINE w == [u EXCEPT ![m] = G[m][u[m - 1]]]
  <2>2. m - 1 \in 0 .. n /\ m \in 0 .. n /\ G[m][u[m - 1]] \in X
    OBVIOUS
  <2>3. w \in [0 .. n -> X] /\ w[m] = G[m][u[m - 1]]
        /\ \A k \in 0 .. m - 1 : w[k] = u[k]
    BY <2>2
  <2> HIDE DEF w
  <2>4. w[0] = x /\ \A k \in 1 .. m : w[k] = G[k][w[k - 1]]
    <3>1. ASSUME NEW k \in 1 .. m
          PROVE  w[k] = G[k][w[k - 1]]
      <4>1. CASE k = m
        BY <2>3, <4>1
      <4>2. CASE k # m
        BY <2>1, <2>3, <4>2
      <4> QED BY <4>1, <4>2
    <3> QED BY <2>1, <2>3, <3>1
  <2> QED BY <2>2, <2>3, <2>4
<1> HIDE DEF P
<1>3. n \in P
  <2>1. \A m \in 1 .. n : m - 1 \in P => m \in P
    BY <1>2
  <2>2. \A m \in 0 .. n : m \in P
    BY <1>1, <2>1, Induct
  <2> QED BY <2>2
<1>4. PICK u \in [0 .. n -> X] : u[0] = x /\ \A k \in 1 .. n : u[k] = G[k][u[k - 1]]
  BY <1>3 DEF P
<1>5. IsRun(n, X, x, G, u)
  BY <1>4 DEF IsRun
<1> QED BY <1>5

-----------------------------------------------------------------------------
(* Parity.                                                                 *)

Odd(A) == Cardinality(A) % 2 = 1

LEMMA RowsAreFinite ==
  /\ FragNb \in Nat /\ FragNb > 0 /\ NbCoded \in Nat
  /\ \A A \in SUBSET Rows : IsFiniteSet(A) /\ Cardinality(A) \in Nat
<1>1. FragNb \in Nat /\ FragNb > 0 /\ NbCoded \in Nat
  BY FragAssumption
<1>2. IsFiniteSet(Rows)
  BY <1>1, FS_Interval DEF Rows
<1>3. ASSUME NEW A \in SUBSET Rows
      PROVE  IsFiniteSet(A) /\ Cardinality(A) \in Nat
  BY <1>2, FS_Subset, FS_CardinalityType
<1> QED BY <1>1, <1>3

LEMMA XorIn == \A A, B, U : A \subseteq U /\ B \subseteq U => Xor(A, B) \subseteq U
BY DEF Xor

(* Sets add up modulo 2 under XOR. *)
LEMMA OddXor ==
  ASSUME NEW A \in SUBSET Rows, NEW B \in SUBSET Rows
  PROVE  Odd(Xor(A, B)) <=> ~(Odd(A) <=> Odd(B))
<1> DEFINE a == A \ B
           b == B \ A
           c == A \cap B
<1>1. /\ a \in SUBSET Rows /\ b \in SUBSET Rows /\ c \in SUBSET Rows
      /\ A = a \cup c /\ B = b \cup c /\ Xor(A, B) = a \cup b
      /\ a \cap c = {} /\ b \cap c = {} /\ a \cap b = {}
  BY DEF Xor
<1> HIDE DEF a, b, c
<1>2. Cardinality({}) = 0
  BY FS_EmptySet
<1>3. \A x, y \in SUBSET Rows :
        x \cap y = {} => Cardinality(x \cup y) = Cardinality(x) + Cardinality(y)
  <2>1. ASSUME NEW x \in SUBSET Rows, NEW y \in SUBSET Rows, x \cap y = {}
        PROVE  Cardinality(x \cup y) = Cardinality(x) + Cardinality(y)
    <3>1. /\ IsFiniteSet(x) /\ IsFiniteSet(y)
          /\ Cardinality(x) \in Nat /\ Cardinality(y) \in Nat
      BY RowsAreFinite
    <3>2. Cardinality(x \cup y) = Cardinality(x) + Cardinality(y) - Cardinality(x \cap y)
      BY <3>1, FS_Union
    <3>3. Cardinality(x \cap y) = 0
      BY <2>1, <1>2
    <3> QED BY <3>1, <3>2, <3>3
  <2> QED BY <2>1
<1>4. /\ Cardinality(A) = Cardinality(a) + Cardinality(c)
      /\ Cardinality(B) = Cardinality(b) + Cardinality(c)
      /\ Cardinality(Xor(A, B)) = Cardinality(a) + Cardinality(b)
  BY <1>1, <1>3
<1>5. Cardinality(a) \in Nat /\ Cardinality(b) \in Nat /\ Cardinality(c) \in Nat
  BY <1>1, RowsAreFinite
<1>6. \A k, l, m \in Nat :
        (k + l) % 2 = 1 <=> ~((k + m) % 2 = 1 <=> (l + m) % 2 = 1)
  OBVIOUS
<1> QED BY <1>4, <1>5, <1>6 DEF Odd

LEMMA EmptyIsEven == ~Odd({})
BY FS_EmptySet DEF Odd

LEMMA OneIsOdd == \A x : Odd({x})
<1>1. \A x : Cardinality({x}) = 1
  BY FS_Singleton
<1> QED BY <1>1 DEF Odd

LEMMA OddXorOn ==
  ASSUME NEW A \in SUBSET Rows, NEW B \in SUBSET Rows, NEW C
  PROVE  Odd(Xor(A, B) \cap C) <=> ~(Odd(A \cap C) <=> Odd(B \cap C))
<1>1. Xor(A, B) \cap C = Xor(A \cap C, B \cap C)
  BY DEF Xor
<1>2. A \cap C \in SUBSET Rows /\ B \cap C \in SUBSET Rows
  OBVIOUS
<1>3. Odd(Xor(A \cap C, B \cap C)) <=> ~(Odd(A \cap C) <=> Odd(B \cap C))
  BY <1>2, OddXor
<1> QED BY <1>1, <1>3

(* Rows that are recovered are XORed one after the other.                  *)
LEMMA XorRowsRecovered ==
  ASSUME NEW file, NEW rows \in SUBSET Rows, NEW x, \A r \in rows : file[r] = {r}
  PROVE  XorRows(file, rows, x) = Xor(x, rows)
<1> DEFINE f == [n \in 0 .. FragNb |-> Xor(x, rows \cap 1 .. n)]
           IsLoop(g) == g = [n \in 0 .. FragNb |->
                               IF n = 0 THEN x
                               ELSE IF n \in rows THEN Xor(g[n - 1], file[n]) ELSE g[n - 1]]
<1>1. FragNb \in Nat
  BY RowsAreFinite
<1>2. \A n \in 0 .. FragNb : f[n] = Xor(x, rows \cap 1 .. n)
  OBVIOUS
<1>3. f = [n \in 0 .. FragNb |-> f[n]]
  OBVIOUS
<1> HIDE DEF f
<1>4. ASSUME NEW n \in 0 .. FragNb
      PROVE  f[n] = IF n = 0 THEN x
                    ELSE IF n \in rows THEN Xor(f[n - 1], file[n]) ELSE f[n - 1]
  <2>1. CASE n = 0
    <3>1. rows \cap 1 .. n = {}
      BY <2>1
    <3> QED BY <2>1, <3>1, <1>2 DEF Xor
  <2>2. CASE n # 0
    <3>1. n - 1 \in 0 .. FragNb /\ f[n - 1] = Xor(x, rows \cap 1 .. n - 1)
      BY <1>1, <1>2, <2>2
    <3>2. CASE n \in rows
      <4>1. rows \cap 1 .. n = (rows \cap 1 .. n - 1) \cup {n} /\ n \notin 1 .. n - 1
        BY <3>2, <2>2, <1>1
      <4>2. Xor(Xor(x, rows \cap 1 .. n - 1), {n}) = Xor(x, (rows \cap 1 .. n - 1) \cup {n})
        BY <4>1 DEF Xor
      <4> QED BY <3>1, <3>2, <4>1, <4>2, <1>2, <2>2
    <3>3. CASE n \notin rows
      <4>1. rows \cap 1 .. n = rows \cap 1 .. n - 1
        BY <3>3, <2>2, <1>1
      <4> QED BY <3>1, <3>3, <4>1, <1>2, <2>2
    <3> QED BY <3>2, <3>3
  <2> QED BY <2>1, <2>2
<1>5. IsLoop(f)
  BY <1>3, <1>4
<1> DEFINE g == CHOOSE h : IsLoop(h)
<1>6. XorRows(file, rows, x) = g[FragNb]
  BY DEF XorRows
<1>7. IsLoop(g)
  <2> HIDE DEF IsLoop
  <2> QED BY <1>5
<1>8. \A n \in 0 .. FragNb :
        g[n] = IF n = 0 THEN x
               ELSE IF n \in rows THEN Xor(g[n - 1], file[n]) ELSE g[n - 1]
  <2> HIDE DEF g
  <2> QED BY <1>7
<1> HIDE DEF g, IsLoop
<1> DEFINE P == {n \in 0 .. FragNb : g[n] = f[n]}
<1>9. 0 \in P
  BY <1>1, <1>4, <1>8
<1>10. ASSUME NEW n \in 1 .. FragNb, n - 1 \in P
       PROVE  n \in P
  BY <1>1, <1>4, <1>8, <1>10
<1>11. g[FragNb] = f[FragNb]
  <2> HIDE DEF P
  <2>1. \A n \in 0 .. FragNb : n \in P
    BY <1>1, <1>9, <1>10, Induct
  <2> QED BY <1>1, <2>1 DEF P
<1>12. rows \cap 1 .. FragNb = rows
  BY DEF Rows
<1> QED BY <1>1, <1>2, <1>6, <1>11, <1>12

-----------------------------------------------------------------------------
(* What the decoder keeps while it collects fragments: "taken" are those   *)
(* it took.                                                                *)

Seen(d) == {r \in Rows : r <= d.last}

Missed(d, taken) == Seen(d) \ taken

(* The rows it has are in the file, those it missed have numbers from 1 to *)
(* FragNbLost in their order, those to come have the number of             *)
(* FragDecoderInit().                                                      *)
Numbered(d, taken) ==
  /\ d.lost <= d.last
  /\ d.last \in Rows => d.last \in taken
  /\ \A c \in taken : c <= d.last \/ d.last = FragNb + 1
  /\ \A r \in Seen(d) \cap taken : d.missing[r] = 0 /\ d.file[r] = {r}
  /\ \A r \in Missed(d, taken) : d.missing[r] \in 1 .. d.lost
  /\ \A r, s \in Missed(d, taken) : r < s => d.missing[r] < d.missing[s]
  /\ \A i \in 1 .. d.lost : \E r \in Missed(d, taken) : d.missing[r] = i
  /\ \A r \in Rows \ Seen(d) : d.missing[r] = 1

Row(d, i) == FragFindMissingIndex(d, i)

LEMMA DecoderFields ==
  ASSUME NEW d \in DecoderType
  PROVE  /\ d.last \in 0 .. FragNb + 1 /\ d.lost \in 0 .. FragNb
         /\ d.missing \in [Rows -> 0 .. FragNb] /\ d.lines \in [Rows -> SUBSET Rows]
         /\ d.matrixError \in BOOLEAN /\ d.file \in [Rows -> SUBSET Rows]
         /\ \A r \in Rows : r \in Nat /\ r >= 1 /\ r <= FragNb
BY RowsAreFinite DEF DecoderType, Rows

LEMMA ContentIsRows ==
  ASSUME NEW c \in Counters
  PROVE  /\ c \in Rows => Content(c) = {c}
         /\ c \notin Rows => c > FragNb
         /\ Content(c) \in SUBSET Rows
<1>1. c \in Nat /\ c >= 1 /\ c <= FragNb + NbCoded
  BY RowsAreFinite DEF Counters
<1>2. CASE c \in Rows
  BY <1>2, RowsAreFinite DEF Content, Rows
<1>3. CASE c \notin Rows
  <2>1. c > FragNb /\ c - FragNb \in 1 .. NbCoded
    BY <1>1, <1>3, RowsAreFinite DEF Rows
  <2>2. Content(c) = FragGetParityMatrixRow(c - FragNb)
    BY <2>1, <1>1, RowsAreFinite DEF Content, ParityRow
  <2>3. FragGetParityMatrixRow(c - FragNb) \subseteq Rows
    BY Zenon DEF FragGetParityMatrixRow
  <2> QED BY <1>3, <2>1, <2>2, <2>3
<1> QED BY <1>2, <1>3

(* Once all rows are seen, Row and FragNbMissingIndex are inverse.         *)
LEMMA RowIsInverse ==
  ASSUME NEW d \in DecoderType, NEW taken, Numbered(d, taken), d.last = FragNb + 1
  PROVE  /\ \A i \in 1 .. d.lost : Row(d, i) \in Rows \ taken /\ d.missing[Row(d, i)] = i
         /\ \A r \in Rows \ taken : d.missing[r] \in 1 .. d.lost /\ Row(d, d.missing[r]) = r
         /\ \A r \in Rows \cap taken : d.missing[r] = 0 /\ d.file[r] = {r}
<1>1. Missed(d, taken) = Rows \ taken /\ Seen(d) = Rows
  BY DecoderFields, RowsAreFinite DEF Missed, Seen
<1>2. \A r \in Rows \cap taken : d.missing[r] = 0 /\ d.file[r] = {r}
  BY <1>1 DEF Numbered
<1>3. ASSUME NEW r \in Rows \ taken
      PROVE  d.missing[r] \in 1 .. d.lost /\ Row(d, d.missing[r]) = r
  <2>1. d.missing[r] \in 1 .. d.lost /\ d.lost \in Nat
    BY <1>1, DecoderFields DEF Numbered
  <2>2. ASSUME NEW s \in Rows, d.missing[s] = d.missing[r]
        PROVE  s = r
    <3>1. s \in Rows \ taken
      BY <1>2, <2>1, <2>2
    <3>2. /\ r < s => d.missing[r] < d.missing[s]
          /\ s < r => d.missing[s] < d.missing[r]
      BY <1>1, <3>1 DEF Numbered
    <3> QED BY <2>1, <2>2, <3>2, DecoderFields
  <2>3. {s \in Rows : d.missing[s] = d.missing[r]} = {r}
    BY <2>2
  <2>4. r <= r
    BY DecoderFields
  <2>5. Min({r}) = r
    BY <2>4 DEF Min
  <2> QED BY <2>1, <2>3, <2>5 DEF Row, FragFindMissingIndex
<1>4. ASSUME NEW i \in 1 .. d.lost
      PROVE  Row(d, i) \in Rows \ taken /\ d.missing[Row(d, i)] = i
  <2>1. PICK r \in Rows \ taken : d.missing[r] = i
    BY <1>1 DEF Numbered
  <2> QED BY <2>1, <1>3
<1> QED BY <1>2, <1>3, <1>4

LEMMA MinMax ==
  \A x, y \in Int : /\ Min({x, y}) = IF x <= y THEN x ELSE y
                    /\ Max({x, y}) = IF x >= y THEN x ELSE y
BY DEF Min, Max

(* The gap before a fragment, and what is left of the decoder.             *)
LEMMA GapFields ==
  ASSUME NEW d \in DecoderType, NEW counter \in Counters, counter >= d.last
  PROVE  LET f == FragFindMissingFrags(d, counter)
             m == IF counter <= FragNb THEN counter - 1 ELSE FragNb
         IN  /\ f = [last |-> f.last, lost |-> f.lost, missing |-> f.missing,
                     lines |-> d.lines, matrixError |-> d.matrixError, file |-> d.file]
             /\ f.lost = d.lost + (IF d.last < m THEN m - d.last ELSE 0)
             /\ f.missing = [r \in Rows |-> IF r \in d.last + 1 .. m THEN d.lost + r - d.last
                                            ELSE d.missing[r]]
             /\ f.last = IF counter <= FragNb /\ d.last < FragNb THEN counter ELSE FragNb + 1
<1> DEFINE f == FragFindMissingFrags(d, counter)
           m == IF counter <= FragNb THEN counter - 1 ELSE FragNb
<1>1. /\ counter \in Int /\ counter >= 1 /\ d.last \in Int /\ FragNb \in Int /\ d.lost \in Int
      /\ d.last >= 0 /\ FragNb >= 1
  BY DecoderFields, RowsAreFinite DEF Counters
<1>2. Min({counter - 1, FragNb}) = m /\ m \in Int
  BY <1>1, MinMax
<1>3. Max({d.last, counter - 1}) < FragNb <=> counter <= FragNb /\ d.last < FragNb
  <2>1. counter - 1 \in Int
    BY <1>1
  <2>2. Max({d.last, counter - 1}) = IF d.last >= counter - 1 THEN d.last ELSE counter - 1
    BY <1>1, <2>1, MinMax
  <2> QED BY <1>1, <2>2
<1>4. Cardinality(d.last + 1 .. m) = IF d.last < m THEN m - d.last ELSE 0
  <2> HIDE DEF m
  <2>1. d.last + 1 \in Int
    BY <1>1
  <2>2. Cardinality(d.last + 1 .. m) = IF d.last + 1 > m THEN 0 ELSE m - (d.last + 1) + 1
    BY <1>2, <2>1, FS_Interval
  <2> QED BY <1>1, <1>2, <2>2
<1> DEFINE x == IF Max({d.last, counter - 1}) < FragNb THEN counter ELSE FragNb + 1
           y == d.lost + Cardinality(d.last + 1 .. m)
           z == [r \in Rows |-> IF r \in d.last + 1 .. m THEN d.lost + r - d.last
                                ELSE d.missing[r]]
<1>5. f = [d EXCEPT !.lost = y, !.missing = z, !.last = x]
  BY <1>2 DEF FragFindMissingFrags
<1> HIDE DEF f, x, y, z
<1>6. /\ f = [last |-> x, lost |-> y, missing |-> z, lines |-> d.lines,
              matrixError |-> d.matrixError, file |-> d.file]
      /\ f.last = x /\ f.lost = y /\ f.missing = z
  BY <1>5 DEF DecoderType
<1> QED BY <1>3, <1>4, <1>6 DEF f, x, y, z

(* The numbering after a fragment was taken.                               *)
Before(counter) == IF counter <= FragNb THEN counter - 1 ELSE FragNb

TakesUp(d, e, counter) ==
  /\ e.last = IF counter <= FragNb /\ d.last < FragNb THEN counter ELSE FragNb + 1
  /\ e.lost = d.lost + (IF d.last < Before(counter) THEN Before(counter) - d.last ELSE 0)
  /\ \A r \in Rows :
       /\ e.missing[r] = IF r \in d.last + 1 .. Before(counter) THEN d.lost + r - d.last
                         ELSE IF r = counter THEN 0 ELSE d.missing[r]
       /\ e.file[r] = IF r = counter THEN {r} ELSE d.file[r]

LEMMA NumbersGoOn ==
  ASSUME NEW d \in DecoderType, NEW taken \in SUBSET Counters, Numbered(d, taken),
         NEW counter \in Counters, counter >= d.last, NEW e, TakesUp(d, e, counter)
  PROVE  Numbered(e, taken \cup {counter}) /\ e.lost <= FragNb
<1> DEFINE m == Before(counter)
<1>0. /\ e.last = IF counter <= FragNb /\ d.last < FragNb THEN counter ELSE FragNb + 1
      /\ e.lost = d.lost + (IF d.last < m THEN m - d.last ELSE 0)
      /\ \A r \in Rows : e.missing[r] = IF r \in d.last + 1 .. m THEN d.lost + r - d.last
                                        ELSE IF r = counter THEN 0 ELSE d.missing[r]
      /\ \A r \in Rows : e.file[r] = IF r = counter THEN {r} ELSE d.file[r]
      /\ m = IF counter <= FragNb THEN counter - 1 ELSE FragNb
  BY DEF TakesUp, Before
<1> HIDE DEF m
<1> DEFINE gap == d.last + 1 .. m
<1>1. /\ counter \in Nat /\ counter >= 1 /\ d.last \in Nat /\ FragNb \in Nat /\ d.lost \in Nat
      /\ d.lost <= FragNb /\ d.last <= FragNb + 1 /\ FragNb >= 1 /\ m \in Nat /\ m <= FragNb
      /\ m < counter
      /\ \A r \in Rows : d.missing[r] \in Nat /\ r \in Nat
  BY <1>0, DecoderFields, RowsAreFinite DEF Counters
<1>2. \A r : r \in Rows <=> r \in Nat /\ 1 <= r /\ r <= FragNb
  BY <1>1 DEF Rows
<1>3. \A r \in gap : r \in Rows /\ r \notin taken /\ r # counter /\ d.last < m
  BY <1>1, <1>2 DEF Numbered
<1>4. /\ d.last = FragNb + 1 => counter > FragNb
      /\ e.last = IF counter > FragNb THEN FragNb + 1
                  ELSE IF d.last < FragNb THEN counter ELSE FragNb + 1
  BY <1>0, <1>1
<1>5. Seen(e) = {r \in Rows : r <= counter}
  BY <1>1, <1>2, <1>4 DEF Seen
<1>6. Seen(d) \subseteq Seen(e) /\ gap \subseteq Seen(e)
  BY <1>1, <1>2, <1>3, <1>5 DEF Seen
<1>7. Missed(e, taken \cup {counter}) = (Missed(d, taken) \ {counter}) \cup gap
  <2>1. ASSUME NEW r \in Rows, r <= counter, r # counter, r \notin Seen(d)
        PROVE  r \in gap
    BY <2>1, <1>0, <1>1, <1>2 DEF Seen
  <2> QED BY <2>1, <1>3, <1>5, <1>6 DEF Missed, Seen
<1>8. counter \notin Missed(d, taken)
  BY <1>1, <1>2 DEF Missed, Seen, Numbered
<1>9. \A r \in Missed(d, taken) : /\ r \in Rows /\ r <= d.last /\ r \notin gap /\ r # counter
                                  /\ e.missing[r] = d.missing[r] /\ d.missing[r] \in 1 .. d.lost
  BY <1>0, <1>1, <1>8 DEF Missed, Seen, Numbered
<1>10. \A r \in gap : /\ e.missing[r] = d.lost + r - d.last /\ r > d.last
                      /\ e.lost = d.lost + m - d.last /\ r <= m
  BY <1>0, <1>1, <1>3
<1>11. e.lost >= d.lost /\ e.lost <= FragNb /\ e.lost <= e.last
  <2>1. d.lost <= d.last
    BY DEF Numbered
  <2> QED BY <2>1, <1>0, <1>1, <1>4
<1> DEFINE new == Missed(e, taken \cup {counter})
<1>12. \A r \in new : e.missing[r] \in 1 .. e.lost
  <2>1. ASSUME NEW r \in new
        PROVE  e.missing[r] \in 1 .. e.lost
    <3>1. CASE r \in gap
      <4>1. e.lost \in Int
        BY <3>1, <1>1, <1>10
      <4> QED BY <3>1, <4>1, <1>1, <1>10
    <3>2. CASE r \in Missed(d, taken)
      <4>1. e.missing[r] \in 1 .. d.lost
        BY <3>2, <1>9
      <4>2. e.lost \in Int /\ e.lost >= d.lost
        BY <1>0, <1>1, <1>11
      <4> QED BY <4>1, <4>2, <1>1
    <3> QED BY <3>1, <3>2, <1>7
  <2> QED BY <2>1
<1>13. \A r, s \in new : r < s => e.missing[r] < e.missing[s]
  <2>1. ASSUME NEW r \in new, NEW s \in new, r < s
        PROVE  e.missing[r] < e.missing[s]
    <3>1. CASE r \in gap /\ s \in gap
      BY <2>1, <3>1, <1>1, <1>10
    <3>2. CASE r \in Missed(d, taken) /\ s \in gap
      <4>1. e.missing[r] \in 1 .. d.lost
        BY <3>2, <1>9
      <4>2. s \in Nat /\ s > d.last /\ e.missing[s] = d.lost + s - d.last
        BY <3>2, <1>1, <1>10
      <4> HIDE DEF gap
      <4> QED BY <4>1, <4>2, <1>1
    <3>3. CASE r \in gap /\ s \in Missed(d, taken)
      BY <2>1, <3>3, <1>1, <1>9, <1>10
    <3>4. CASE r \in Missed(d, taken) /\ s \in Missed(d, taken)
      <4>1. d.missing[r] < d.missing[s]
        BY <2>1, <3>4 DEF Numbered
      <4> QED BY <3>4, <4>1, <1>9
    <3> QED BY <3>1, <3>2, <3>3, <3>4, <1>7
  <2> QED BY <2>1
<1>14. ASSUME NEW i \in 1 .. e.lost
       PROVE  \E r \in new : e.missing[r] = i
  <2>1. CASE i <= d.lost
    <3>1. PICK r \in Missed(d, taken) : d.missing[r] = i
      BY <2>1, <1>1 DEF Numbered
    <3> QED BY <3>1, <1>7, <1>9
  <2>2. CASE i > d.lost
    <3>1. d.last < m /\ i <= d.lost + m - d.last /\ i \in Nat
      BY <2>2, <1>0, <1>1
    <3>2. i - d.lost + d.last \in gap
      BY <2>2, <3>1, <1>1
    <3>3. e.missing[i - d.lost + d.last] = i
      BY <3>1, <3>2, <1>1, <1>10
    <3> QED BY <3>2, <3>3, <1>7
  <2>3. i <= d.lost \/ i > d.lost
    BY <1>1
  <2> HIDE DEF new
  <2> QED BY <2>1, <2>2, <2>3
<1>15. e.last \in Rows => e.last \in taken \cup {counter}
  BY <1>1, <1>2, <1>4
<1>16. \A c \in taken \cup {counter} : c <= e.last \/ e.last = FragNb + 1
  <2>1. ASSUME NEW c \in taken, e.last # FragNb + 1
        PROVE  c <= e.last
    <3>1. c <= d.last \/ d.last = FragNb + 1
      BY DEF Numbered
    <3>2. d.last <= counter /\ e.last = counter /\ d.last # FragNb + 1
      BY <2>1, <1>1, <1>4
    <3>3. c \in Nat /\ c <= d.last
      BY <3>1, <3>2 DEF Counters
    <3> QED BY <3>2, <3>3, <1>1
  <2>2. counter <= e.last \/ e.last = FragNb + 1
    BY <1>1, <1>4
  <2> QED BY <2>1, <2>2
<1>17. \A r \in Seen(e) \cap (taken \cup {counter}) : e.missing[r] = 0 /\ e.file[r] = {r}
  <2>1. ASSUME NEW r \in Seen(e), r = counter
        PROVE  e.missing[r] = 0 /\ e.file[r] = {r}
    BY <2>1, <1>0, <1>3, <1>5
  <2>2. ASSUME NEW r \in Seen(e), r \in taken, r # counter
        PROVE  e.missing[r] = 0 /\ e.file[r] = {r}
    <3>1. r \notin gap /\ r \in Rows /\ r < counter
      BY <2>2, <1>1, <1>3, <1>5
    <3>2. r \in Seen(d)
      BY <3>1, <1>0, <1>1, <1>2 DEF Seen
    <3> QED BY <2>2, <3>1, <3>2, <1>0 DEF Numbered
  <2> QED BY <2>1, <2>2
<1>18. \A r \in Rows \ Seen(e) : e.missing[r] = 1
  <2>1. ASSUME NEW r \in Rows, r \notin Seen(e)
        PROVE  e.missing[r] = 1
    <3>1. r \notin gap /\ r # counter /\ r \notin Seen(d)
      BY <2>1, <1>1, <1>5, <1>6
    <3> QED BY <3>1, <1>0 DEF Numbered
  <2> QED BY <2>1
<1> HIDE DEF new
<1> QED BY <1>11, <1>12, <1>13, <1>14, <1>15, <1>16, <1>17, <1>18 DEF Numbered, new

(* The result of FragFindMissingFrags() is a decoder. *)
LEMMA GapType ==
  ASSUME NEW d \in DecoderType, NEW counter \in Counters, counter >= d.last, d.lost <= d.last
  PROVE  FragFindMissingFrags(d, counter) \in DecoderType
<1> DEFINE f == FragFindMissingFrags(d, counter)
           m == IF counter <= FragNb THEN counter - 1 ELSE FragNb
<1>1. /\ counter \in Nat /\ counter >= 1 /\ d.last \in Nat /\ FragNb \in Nat /\ d.lost \in Nat
      /\ d.lost <= FragNb /\ d.last <= FragNb + 1 /\ FragNb >= 1 /\ m \in Nat /\ m <= FragNb
  BY DecoderFields, RowsAreFinite DEF Counters
<1>2. /\ f = [last |-> f.last, lost |-> f.lost, missing |-> f.missing,
              lines |-> d.lines, matrixError |-> d.matrixError, file |-> d.file]
      /\ f.lost = d.lost + (IF d.last < m THEN m - d.last ELSE 0)
      /\ f.missing = [r \in Rows |-> IF r \in d.last + 1 .. m THEN d.lost + r - d.last
                                     ELSE d.missing[r]]
      /\ f.last = IF counter <= FragNb /\ d.last < FragNb THEN counter ELSE FragNb + 1
  BY GapFields
<1> HIDE DEF f, m
<1>3. f.last \in 0 .. FragNb + 1
  BY <1>1, <1>2
<1>4. f.lost \in 0 .. FragNb
  BY <1>1, <1>2
<1>5. ASSUME NEW r \in Rows
      PROVE  (IF r \in d.last + 1 .. m THEN d.lost + r - d.last ELSE d.missing[r]) \in 0 .. FragNb
  <2>1. r \in Nat /\ d.missing[r] \in 0 .. FragNb
    BY DecoderFields
  <2> QED BY <2>1, <1>1
<1>6. f.missing \in [Rows -> 0 .. FragNb]
  BY <1>2, <1>5
<1>7. f \in DecoderType
  BY <1>2, <1>3, <1>4, <1>6, DecoderFields DEF DecoderType
<1> QED BY <1>7 DEF f

LEMMA UncodedIsTaken ==
  ASSUME NEW d \in DecoderType, NEW taken \in SUBSET Counters, Numbered(d, taken),
         NEW counter \in Rows, counter >= d.last
  PROVE  LET e == Uncoded(d, counter)
         IN  /\ e \in DecoderType /\ Numbered(e, taken \cup {counter})
             /\ e.lines = d.lines /\ d.last # FragNb + 1
<1> DEFINE b == [d EXCEPT !.file[counter] = {counter}, !.missing[counter] = 0]
           m == counter - 1
<1>1. counter \in Counters /\ counter <= FragNb /\ counter \in Nat /\ FragNb \in Nat
  BY RowsAreFinite DEF Rows, Counters
<1>2. /\ b.last = d.last /\ b.lost = d.lost /\ b.lines = d.lines
      /\ b.missing = [d.missing EXCEPT ![counter] = 0]
      /\ b.file = [d.file EXCEPT ![counter] = {counter}]
      /\ b \in DecoderType
  <2>1. [d.missing EXCEPT ![counter] = 0] \in [Rows -> 0 .. FragNb]
    BY DecoderFields, <1>1
  <2>2. [d.file EXCEPT ![counter] = {counter}] \in [Rows -> SUBSET Rows]
    BY DecoderFields
  <2> QED BY <2>1, <2>2 DEF DecoderType
<1> DEFINE e == FragFindMissingFrags(b, counter)
<1>3. Uncoded(d, counter) = e
  BY DEF Uncoded
<1> HIDE DEF b
<1>4. /\ e = [last |-> e.last, lost |-> e.lost, missing |-> e.missing,
              lines |-> b.lines, matrixError |-> b.matrixError, file |-> b.file]
      /\ e.lost = b.lost + (IF b.last < m THEN m - b.last ELSE 0)
      /\ e.missing = [r \in Rows |-> IF r \in b.last + 1 .. m THEN b.lost + r - b.last
                                     ELSE b.missing[r]]
      /\ e.last = IF counter <= FragNb /\ b.last < FragNb THEN counter ELSE FragNb + 1
  <2>1. b \in DecoderType /\ counter >= b.last
    BY <1>2
  <2> HIDE DEF m
  <2>2. (IF counter <= FragNb THEN counter - 1 ELSE FragNb) = m
    BY <1>1 DEF m
  <2> QED BY <1>1, <2>1, <2>2, GapFields
<1>5. e \in DecoderType
  BY <1>1, <1>2, GapType DEF Numbered
<1> HIDE DEF e
<1>5a. e.file = b.file /\ e.lines = b.lines
  BY <1>4
<1>6. \A r \in Rows : e.file[r] = IF r = counter THEN {r} ELSE d.file[r]
  BY <1>2, <1>5a, DecoderFields
<1>7. \A r \in Rows : e.missing[r] = IF r \in d.last + 1 .. m THEN d.lost + r - d.last
                                     ELSE IF r = counter THEN 0 ELSE d.missing[r]
  BY <1>2, <1>4, DecoderFields
<1>8. TakesUp(d, e, counter)
  <2>1. Before(counter) = m
    BY <1>1 DEF Before
  <2> QED BY <2>1, <1>2, <1>4, <1>6, <1>7 DEF TakesUp
<1>9. Numbered(e, taken \cup {counter})
  BY <1>1, <1>8, NumbersGoOn
<1>10. e.lines = d.lines /\ d.last # FragNb + 1
  BY <1>1, <1>2, <1>5a
<1> QED BY <1>3, <1>5, <1>9, <1>10 DEF e

LEMMA CodedIsNumbered ==
  ASSUME NEW d \in DecoderType, NEW taken \in SUBSET Counters, Numbered(d, taken),
         NEW counter \in Counters, counter \notin Rows, counter >= d.last
  PROVE  LET f == FragFindMissingFrags(d, counter)
         IN  /\ f \in DecoderType /\ Numbered(f, taken \cup {counter}) /\ f.last = FragNb + 1
             /\ f.lines = d.lines /\ f.file = d.file /\ f.lost >= d.lost
             /\ d.last = FragNb + 1 => f = d
<1> DEFINE e == FragFindMissingFrags(d, counter)
           m == FragNb
<1>1. counter > FragNb /\ counter \in Nat /\ FragNb \in Nat /\ d.lost \in Nat
  BY RowsAreFinite, DecoderFields DEF Rows, Counters
<1>2. /\ e = [last |-> e.last, lost |-> e.lost, missing |-> e.missing,
              lines |-> d.lines, matrixError |-> d.matrixError, file |-> d.file]
      /\ e.lost = d.lost + (IF d.last < m THEN m - d.last ELSE 0)
      /\ e.missing = [r \in Rows |-> IF r \in d.last + 1 .. m THEN d.lost + r - d.last
                                     ELSE d.missing[r]]
      /\ e.last = FragNb + 1
  <2>1. ~(counter <= FragNb)
    BY <1>1
  <2> QED BY <2>1, GapFields
<1>3. e \in DecoderType
  BY GapType DEF Numbered
<1> HIDE DEF e
<1>4. \A r \in Rows : r # counter
  BY <1>1, RowsAreFinite DEF Rows
<1>4a. e.file = d.file /\ e.lines = d.lines
  BY <1>2
<1>5. \A r \in Rows :
        /\ e.file[r] = IF r = counter THEN {r} ELSE d.file[r]
        /\ e.missing[r] = IF r \in d.last + 1 .. m THEN d.lost + r - d.last
                          ELSE IF r = counter THEN 0 ELSE d.missing[r]
  BY <1>2, <1>4, <1>4a
<1>6. TakesUp(d, e, counter)
  <2>1. Before(counter) = m /\ ~(counter <= FragNb)
    BY <1>1 DEF Before
  <2> HIDE DEF m
  <2> QED BY <2>1, <1>2, <1>5 DEF TakesUp
<1>7. Numbered(e, taken \cup {counter})
  BY <1>6, NumbersGoOn
<1>8. ASSUME d.last = FragNb + 1
      PROVE  e = d
  <2>1. e.lost = d.lost /\ e.last = d.last
    BY <1>1, <1>2, <1>8
  <2>2. e.missing = d.missing
    <3>1. \A r \in Rows : r \notin d.last + 1 .. m
      BY <1>1, <1>8
    <3>2. e.missing = [r \in Rows |-> d.missing[r]]
      BY <1>2, <3>1
    <3> QED BY <3>2, DecoderFields
  <2> QED BY <2>1, <2>2, <1>2 DEF DecoderType
<1>9. e.lost >= d.lost
  BY <1>1, <1>2, DecoderFields
<1> QED BY <1>2, <1>3, <1>4a, <1>7, <1>8, <1>9 DEF e

-----------------------------------------------------------------------------
(* Elimination.                                                            *)

(* All rows are seen: the decoder works on the matrix. *)
Settled(d, taken) == d \in DecoderType /\ Numbered(d, taken) /\ d.last = FragNb + 1

RowsOf(d, A) == {Row(d, j) : j \in A}

(* A set of missing rows and the data that is the XOR of them. *)
Vectors(d) == [line : SUBSET (1 .. d.lost), data : SUBSET Rows]

IsVector(d, v) == v \in Vectors(d) /\ v.data = RowsOf(d, v.line)

(* Each line has its own row first, and its data is in the file there.     *)
Triangular(d) ==
  \A i \in S(d) : /\ i \in d.lines[i] /\ d.lines[i] \subseteq i .. d.lost
                  /\ d.file[Row(d, i)] = RowsOf(d, d.lines[i])

(* No line notices this change of the missing rows. *)
Hidden(d, change) == \A i \in S(d) : ~Odd(d.file[Row(d, i)] \cap change)

LEMMA RowsOfXor ==
  ASSUME NEW d, NEW taken, Settled(d, taken),
         NEW A \in SUBSET (1 .. d.lost), NEW B \in SUBSET (1 .. d.lost)
  PROVE  /\ RowsOf(d, Xor(A, B)) = Xor(RowsOf(d, A), RowsOf(d, B))
         /\ RowsOf(d, A) \in SUBSET (Rows \ taken)
         /\ Xor(A, B) \in SUBSET (1 .. d.lost)
<1>1. \A i \in 1 .. d.lost : Row(d, i) \in Rows \ taken /\ d.missing[Row(d, i)] = i
  BY RowIsInverse DEF Settled
<1>2. \A i, j \in 1 .. d.lost : Row(d, i) = Row(d, j) => i = j
  BY <1>1
<1>3. \A r : r \in RowsOf(d, A) <=> \E j \in A : r = Row(d, j)
  BY DEF RowsOf
<1>4. \A r : r \in RowsOf(d, B) <=> \E j \in B : r = Row(d, j)
  BY DEF RowsOf
<1>5. \A r : r \in RowsOf(d, Xor(A, B)) <=> \E j \in Xor(A, B) : r = Row(d, j)
  BY DEF RowsOf
<1>6. \A j \in 1 .. d.lost : /\ Row(d, j) \in RowsOf(d, A) <=> j \in A
                             /\ Row(d, j) \in RowsOf(d, B) <=> j \in B
  BY <1>2, <1>3, <1>4
<1>7. RowsOf(d, Xor(A, B)) = Xor(RowsOf(d, A), RowsOf(d, B))
  <2>1. ASSUME NEW r
        PROVE  r \in RowsOf(d, Xor(A, B)) <=> r \in Xor(RowsOf(d, A), RowsOf(d, B))
    <3>1. CASE \E j \in 1 .. d.lost : r = Row(d, j)
      <4>1. PICK j \in 1 .. d.lost : r = Row(d, j)
        BY <3>1
      <4>2. r \in RowsOf(d, Xor(A, B)) <=> j \in Xor(A, B)
        BY <4>1, <1>2, <1>5 DEF Xor
      <4> QED BY <4>1, <4>2, <1>6 DEF Xor
    <3>2. CASE ~\E j \in 1 .. d.lost : r = Row(d, j)
      BY <3>2, <1>3, <1>4, <1>5 DEF Xor
    <3> QED BY <3>1, <3>2
  <2> QED BY <2>1
<1>8. RowsOf(d, A) \in SUBSET (Rows \ taken)
  BY <1>1, <1>3
<1>9. Xor(A, B) \in SUBSET (1 .. d.lost)
  BY DEF Xor
<1> QED BY <1>7, <1>8, <1>9

(* Stripped() leaves what the fragment says of the missing rows. *)
LEMMA StrippedIsVector ==
  ASSUME NEW d, NEW taken, Settled(d, taken), NEW counter \in Counters
  PROVE  /\ IsVector(d, Stripped(d, counter))
         /\ Stripped(d, counter).data = Content(counter) \ taken
<1> DEFINE row == Content(counter)
           had == {r \in row : d.missing[r] = 0}
           v == Stripped(d, counter)
<1>1. row \in SUBSET Rows
  BY ContentIsRows
<1> HIDE DEF row
<1>2. /\ \A r \in Rows \ taken : d.missing[r] \in 1 .. d.lost /\ Row(d, d.missing[r]) = r
      /\ \A r \in Rows \cap taken : d.missing[r] = 0 /\ d.file[r] = {r}
  BY RowIsInverse DEF Settled
<1>3. had = row \cap taken
  <2>1. \A r \in Rows \ taken : d.missing[r] # 0
    BY <1>2, DecoderFields DEF Settled
  <2> QED BY <1>1, <1>2, <2>1
<1>4. v.line = {d.missing[r] : r \in row \ had} /\ v.data = XorRows(d.file, had, row)
      /\ v = [line |-> v.line, data |-> v.data]
  BY DEF Stripped, row
<1> HIDE DEF v, had
<1>5. v.data = row \ taken
  <2>1. XorRows(d.file, had, row) = Xor(row, had)
    BY <1>1, <1>2, <1>3, XorRowsRecovered
  <2> QED BY <1>3, <1>4, <2>1 DEF Xor
<1>6. v.line \in SUBSET (1 .. d.lost)
  BY <1>1, <1>2, <1>3, <1>4
<1>7. RowsOf(d, v.line) = row \ taken
  <2>1. \A r \in row \ taken : d.missing[r] \in v.line /\ Row(d, d.missing[r]) = r
    BY <1>1, <1>2, <1>3, <1>4
  <2>2. \A i \in v.line : \E r \in row \ taken : i = d.missing[r] /\ Row(d, i) = r
    BY <1>1, <1>2, <1>3, <1>4
  <2> QED BY <2>1, <2>2 DEF RowsOf
<1>8. v \in Vectors(d)
  BY <1>1, <1>4, <1>5, <1>6 DEF Vectors
<1> QED BY <1>5, <1>7, <1>8 DEF IsVector, v, row

LEMMA MinIsLeast ==
  ASSUME NEW A \in SUBSET Nat, A # {}
  PROVE  Min(A) \in A /\ \A x \in A : Min(A) <= x
<1>1. \E m \in A : \A n \in A : m <= n
  BY LeastNumber
<1> QED BY <1>1 DEF Min

(* One round of elimination.                                               *)
LEMMA EliminatedIsVector ==
  ASSUME NEW d, NEW taken, Settled(d, taken), Triangular(d),
         NEW x, IsVector(d, x), NEW i \in 1 .. d.lost
  PROVE  LET w == Eliminated(d, x, i)
         IN  /\ IsVector(d, w)
             /\ \A change \in SUBSET Rows :
                  Hidden(d, change) => (Odd(w.data \cap change) <=> Odd(x.data \cap change))
             /\ (x.line # {} /\ Min(x.line) < i => Min(x.line) \notin S(d))
                  => (w.line # {} /\ Min(w.line) < i + 1 => Min(w.line) \notin S(d))
<1> DEFINE w == Eliminated(d, x, i)
           y == d.file[Row(d, i)]
<1>1. /\ d.lost \in Nat /\ d.file \in [Rows -> SUBSET Rows] /\ d.lines \in [Rows -> SUBSET Rows]
      /\ x.line \in SUBSET (1 .. d.lost) /\ x.data \in SUBSET Rows
      /\ Row(d, i) \in Rows
  BY DecoderFields, RowIsInverse DEF Settled, IsVector, Vectors
<1>2. CASE i \in S(d) /\ x.line # {} /\ Min(x.line) = i
  <2>1. w = [line |-> Xor(x.line, d.lines[i]), data |-> Xor(x.data, y)]
    BY <1>2 DEF Eliminated, Row
  <2>2. /\ i \in d.lines[i] /\ d.lines[i] \subseteq i .. d.lost /\ y = RowsOf(d, d.lines[i])
        /\ y \in SUBSET Rows
    BY <1>1, <1>2 DEF Triangular
  <2> HIDE DEF w, y
  <2>3. d.lines[i] \in SUBSET (1 .. d.lost)
    BY <2>2, <1>1
  <2>4. Xor(x.line, d.lines[i]) \in SUBSET (1 .. d.lost)
        /\ RowsOf(d, Xor(x.line, d.lines[i])) = Xor(x.data, y)
    BY <1>1, <2>2, <2>3, RowsOfXor DEF IsVector
  <2>5. Xor(x.data, y) \in SUBSET Rows
    BY <1>1, <2>2 DEF Xor
  <2>6. IsVector(d, w)
    BY <2>1, <2>4, <2>5 DEF IsVector, Vectors
  <2>7. ASSUME NEW change \in SUBSET Rows, Hidden(d, change)
        PROVE  Odd(w.data \cap change) <=> Odd(x.data \cap change)
    <3>1. ~Odd(y \cap change)
      BY <1>2, <2>7 DEF Hidden, y
    <3>2. Odd(Xor(x.data, y) \cap change) <=> ~(Odd(x.data \cap change) <=> Odd(y \cap change))
      <4>1. x.data \in SUBSET Rows /\ y \in SUBSET Rows
        BY <1>1, <2>2
      <4> QED BY <4>1, OddXorOn
    <3> QED BY <2>1, <3>1, <3>2
  <2>8. w.line # {} => Min(w.line) >= i + 1
    <3>1. i \in x.line /\ \A k \in x.line : i <= k
      BY <1>1, <1>2, MinIsLeast
    <3>2. w.line \in SUBSET Nat /\ \A k \in w.line : k >= i + 1
      BY <2>1, <2>2, <3>1, <1>1, <2>4 DEF Xor
    <3> QED BY <3>2, MinIsLeast
  <2> QED BY <2>6, <2>7, <2>8, <1>1, <2>1, <2>4, MinIsLeast DEF w
<1>3. CASE ~(i \in S(d) /\ x.line # {} /\ Min(x.line) = i)
  <2>1. w = x
    BY <1>3 DEF Eliminated
  <2>2. x.line # {} => Min(x.line) \in Nat
    BY <1>1, MinIsLeast
  <2> HIDE DEF w
  <2>3. (x.line # {} /\ Min(x.line) < i => Min(x.line) \notin S(d))
          => (x.line # {} /\ Min(x.line) < i + 1 => Min(x.line) \notin S(d))
    BY <1>3, <2>2
  <2> QED BY <2>1, <2>3 DEF w
<1> QED BY <1>2, <1>3

(* The rounds of Reduced(). *)
LEMMA ReducedIsLoop ==
  ASSUME NEW d, NEW taken, Settled(d, taken), Triangular(d), NEW v, IsVector(d, v)
  PROVE  \E u : /\ \A k \in 0 .. d.lost : IsVector(d, u[k])
                /\ u[0] = v
                /\ \A k \in 1 .. d.lost : u[k] = Eliminated(d, u[k - 1], k)
                /\ Reduced(d, v) = u[d.lost]
<1> DEFINE X == {x \in Vectors(d) : IsVector(d, x)}
           G == [k \in 1 .. d.lost |-> [x \in X |-> Eliminated(d, x, k)]]
<1>1. d.lost \in Nat
  BY DecoderFields DEF Settled
<1>2. v \in X /\ \A x : x \in X <=> IsVector(d, x)
  BY DEF IsVector
<1>3. \A k \in 1 .. d.lost, x \in X : Eliminated(d, x, k) \in X
  BY <1>2, EliminatedIsVector
<1> HIDE DEF X
<1>4. G \in [1 .. d.lost -> [X -> X]]
  BY <1>3
<1>5. \A k \in 1 .. d.lost, x \in X : G[k][x] = Eliminated(d, x, k)
  OBVIOUS
<1> HIDE DEF G
<1>6. PICK f \in [0 .. d.lost -> X] : f[0] = v /\ \A k \in 1 .. d.lost : f[k] = G[k][f[k - 1]]
  <2>1. \E f : IsRun(d.lost, X, v, G, f)
    BY <1>1, <1>2, <1>4, LoopExists
  <2> QED BY <2>1 DEF IsRun
<1>7. \A k \in 0 .. d.lost : f[k] = IF k = 0 THEN v ELSE Eliminated(d, f[k - 1], k)
  <2>1. ASSUME NEW k \in 0 .. d.lost, k # 0
        PROVE  f[k] = Eliminated(d, f[k - 1], k)
    <3>1. k \in 1 .. d.lost /\ k - 1 \in 0 .. d.lost
      BY <2>1, <1>1
    <3> QED BY <3>1, <1>5, <1>6
  <2> QED BY <2>1, <1>6
<1> DEFINE IsLoop(h) == h = [k \in 0 .. d.lost |->
                               IF k = 0 THEN v ELSE Eliminated(d, h[k - 1], k)]
           g == CHOOSE h : IsLoop(h)
<1>8. IsLoop(f)
  <2>1. f = [k \in 0 .. d.lost |-> f[k]]
    OBVIOUS
  <2> QED BY <2>1, <1>7
<1>9. Reduced(d, v) = g[d.lost]
  BY DEF Reduced
<1>10. IsLoop(g)
  <2> HIDE DEF IsLoop
  <2> QED BY <1>8
<1>11. \A k \in 0 .. d.lost : g[k] = IF k = 0 THEN v ELSE Eliminated(d, g[k - 1], k)
  <2> HIDE DEF g
  <2> QED BY <1>10
<1> HIDE DEF g, IsLoop
<1> DEFINE P == {k \in 0 .. d.lost : IsVector(d, g[k])}
<1>12. \A k \in 0 .. d.lost : k \in P
  <2>1. 0 \in P
    BY <1>1, <1>11
  <2>2. ASSUME NEW k \in 1 .. d.lost, k - 1 \in P
        PROVE  k \in P
    <3>1. g[k] = Eliminated(d, g[k - 1], k) /\ IsVector(d, g[k - 1])
      BY <1>1, <1>11, <2>2
    <3>2. IsVector(d, g[k])
      BY <3>1, EliminatedIsVector
    <3> QED BY <3>2
  <2> HIDE DEF P
  <2> QED BY <1>1, <2>1, <2>2, Induct
<1>13. \A k \in 1 .. d.lost : g[k] = Eliminated(d, g[k - 1], k)
  BY <1>11
<1> QED BY <1>1, <1>9, <1>11, <1>12, <1>13

(* A reduced fragment says no less and no more to the lines, and no line   *)
(* has its first row first.                                                *)
LEMMA ReducedIsNew ==
  ASSUME NEW d, NEW taken, Settled(d, taken), Triangular(d), NEW v, IsVector(d, v)
  PROVE  LET w == Reduced(d, v)
         IN  /\ IsVector(d, w)
             /\ w.line # {} => Min(w.line) \in w.line \ S(d) /\ w.line \subseteq Min(w.line) .. d.lost
             /\ \A change \in SUBSET Rows :
                  Hidden(d, change) => (Odd(w.data \cap change) <=> Odd(v.data \cap change))
<1>1. PICK u : /\ \A k \in 0 .. d.lost : IsVector(d, u[k])
               /\ u[0] = v
               /\ \A k \in 1 .. d.lost : u[k] = Eliminated(d, u[k - 1], k)
               /\ Reduced(d, v) = u[d.lost]
  BY ReducedIsLoop
<1>2. d.lost \in Nat
  BY DecoderFields DEF Settled
<1> DEFINE Passed(x, i) == x.line # {} /\ Min(x.line) < i => Min(x.line) \notin S(d)
           Same(x) == \A change \in SUBSET Rows :
                        Hidden(d, change) => (Odd(x.data \cap change) <=> Odd(v.data \cap change))
           P == {k \in 0 .. d.lost : Passed(u[k], k + 1) /\ Same(u[k])}
<1>3. 0 \in P
  <2>1. v.line # {} => Min(v.line) >= 1
    <3>1. v.line \in SUBSET (1 .. d.lost) /\ v.line \in SUBSET Nat
      BY <1>2 DEF IsVector, Vectors
    <3> QED BY <3>1, MinIsLeast
  <2>2. v.line # {} => Min(v.line) \in Int
    <3>1. v.line \in SUBSET (1 .. d.lost) /\ v.line \in SUBSET Nat
      BY <1>2 DEF IsVector, Vectors
    <3> QED BY <3>1, MinIsLeast
  <2>3. Passed(u[0], 1)
    BY <1>1, <2>1, <2>2
  <2>4. Same(u[0])
    BY <1>1
  <2> HIDE DEF Passed, Same
  <2> QED BY <1>2, <2>3, <2>4
<1>4. ASSUME NEW k \in 1 .. d.lost, k - 1 \in P
      PROVE  k \in P
  <2>1. k - 1 \in 0 .. d.lost /\ IsVector(d, u[k - 1]) /\ u[k] = Eliminated(d, u[k - 1], k)
    BY <1>1, <1>2
  <2>2. Passed(u[k - 1], k) /\ Same(u[k - 1])
    BY <1>4, <1>2
  <2>3. /\ \A change \in SUBSET Rows :
             Hidden(d, change) => (Odd(u[k].data \cap change) <=> Odd(u[k - 1].data \cap change))
        /\ Passed(u[k - 1], k) => Passed(u[k], k + 1)
    BY <2>1, EliminatedIsVector
  <2>4. Same(u[k])
    BY <2>2, <2>3
  <2> QED BY <2>2, <2>3, <2>4
<1>5. d.lost \in P
  <2> HIDE DEF P
  <2>1. \A k \in 0 .. d.lost : k \in P
    BY <1>2, <1>3, <1>4, Induct
  <2> QED BY <1>2, <2>1
<1> DEFINE w == Reduced(d, v)
<1>6. IsVector(d, w) /\ Passed(w, d.lost + 1) /\ Same(w)
  BY <1>1, <1>2, <1>5
<1>7. ASSUME w.line # {}
      PROVE  Min(w.line) \in w.line \ S(d) /\ w.line \subseteq Min(w.line) .. d.lost
  <2>1. w.line \in SUBSET (1 .. d.lost) /\ w.line \in SUBSET Nat
    BY <1>2, <1>6 DEF IsVector, Vectors
  <2>2. Min(w.line) \in w.line /\ \A x \in w.line : Min(w.line) <= x
    BY <2>1, <1>7, MinIsLeast
  <2> QED BY <1>2, <1>6, <1>7, <2>1, <2>2
<1> QED BY <1>6, <1>7

(* What concerns the rows it does not have leaves the numbering alone.     *)
LEMMA NumbersStay ==
  ASSUME NEW d, NEW taken, Numbered(d, taken), NEW p,
         p.last = d.last, p.lost = d.lost, p.missing = d.missing,
         \A r \in Rows \cap taken : p.file[r] = d.file[r]
  PROVE  Numbered(p, taken) /\ \A i : Row(p, i) = Row(d, i)
<1>1. Seen(p) = Seen(d) /\ Missed(p, taken) = Missed(d, taken)
  BY DEF Seen, Missed
<1>2. \A r \in Seen(d) \cap taken : p.file[r] = d.file[r]
  BY DEF Seen
<1>3. \A i : Row(p, i) = Row(d, i)
  BY DEF Row, FragFindMissingIndex
<1> QED BY <1>1, <1>2, <1>3 DEF Numbered

LEMMA LinesAreNumbered ==
  ASSUME NEW d, NEW taken, Settled(d, taken), Triangular(d)
  PROVE  S(d) \subseteq 1 .. d.lost /\ \A i \in S(d) : i \in d.lines[i] /\ i \in Rows
<1>1. d.lost \in Nat
  BY DecoderFields DEF Settled
<1>2. ASSUME NEW i \in S(d)
      PROVE  i \in 1 .. d.lost /\ i \in d.lines[i]
  BY <1>1 DEF Triangular, S, Rows
<1> QED BY <1>2 DEF S

(* A new line joins the others, and is one more to notice a change.        *)
LEMMA PushedKeeps ==
  ASSUME NEW d, NEW taken, Settled(d, taken), Triangular(d), NEW w, IsVector(d, w),
         w.line # {} => /\ Min(w.line) \in w.line \ S(d)
                        /\ w.line \subseteq Min(w.line) .. d.lost
  PROVE  LET p == Pushed(d, w)
         IN  /\ Settled(p, taken) /\ Triangular(p)
             /\ p.lost = d.lost /\ p.missing = d.missing
             /\ w.line = {} => p = d
             /\ w.line # {} => S(p) = S(d) \cup {Min(w.line)}
             /\ \A change \in SUBSET Rows :
                  Hidden(p, change) <=> Hidden(d, change) /\ ~Odd(w.data \cap change)
<1>1. /\ d.lost \in Nat /\ d.file \in [Rows -> SUBSET Rows] /\ d.lines \in [Rows -> SUBSET Rows]
      /\ w.line \in SUBSET (1 .. d.lost) /\ w.data \in SUBSET Rows
      /\ w.data = RowsOf(d, w.line) /\ 1 .. d.lost \subseteq Rows
  <2>1. d.lost \in 0 .. FragNb /\ FragNb \in Nat
        /\ d.file \in [Rows -> SUBSET Rows] /\ d.lines \in [Rows -> SUBSET Rows]
    BY DecoderFields, RowsAreFinite DEF Settled
  <2>2. w.line \in SUBSET (1 .. d.lost) /\ w.data \in SUBSET Rows /\ w.data = RowsOf(d, w.line)
    BY DEF IsVector, Vectors
  <2>3. 1 .. d.lost \subseteq Rows
    BY <2>1 DEF Rows
  <2> QED BY <2>1, <2>2, <2>3
<1>2. \A i \in 1 .. d.lost : Row(d, i) \in Rows \ taken /\ d.missing[Row(d, i)] = i
  BY RowIsInverse DEF Settled
<1>3. S(d) \subseteq 1 .. d.lost /\ \A i \in S(d) : i \in d.lines[i] /\ i \in Rows
  BY LinesAreNumbered
<1>4. CASE w.line = {}
  <2>1. Pushed(d, w) = d
    BY <1>4 DEF Pushed
  <2>2. w.data = {}
    BY <1>1, <1>4 DEF RowsOf
  <2>3. \A change : w.data \cap change = {}
    BY <2>2
  <2>4. \A change : ~Odd(w.data \cap change)
    BY <2>3, EmptyIsEven
  <2> QED BY <1>4, <2>1, <2>4
<1>5. CASE w.line # {}
  <2> DEFINE m == Min(w.line)
             p == Pushed(d, w)
  <2>1. m \in w.line /\ m \notin S(d) /\ w.line \subseteq m .. d.lost /\ m \in 1 .. d.lost
        /\ m \in Rows /\ Row(d, m) \in Rows \ taken
    BY <1>1, <1>2, <1>5
  <2> HIDE DEF m
  <2>2. p = [d EXCEPT !.lines[m] = w.line, !.file[Row(d, m)] = w.data]
    BY <1>5 DEF Pushed, Row, m
  <2>3. /\ p.last = d.last /\ p.lost = d.lost /\ p.missing = d.missing
        /\ p.lines = [d.lines EXCEPT ![m] = w.line]
        /\ p.file = [d.file EXCEPT ![Row(d, m)] = w.data]
        /\ p \in DecoderType
    <3>1. [d.lines EXCEPT ![m] = w.line] \in [Rows -> SUBSET Rows]
      BY <1>1
    <3>2. [d.file EXCEPT ![Row(d, m)] = w.data] \in [Rows -> SUBSET Rows]
      BY <1>1
    <3> QED BY <2>2, <3>1, <3>2 DEF Settled, DecoderType
  <2> HIDE DEF p
  <2>4. Numbered(p, taken) /\ \A i : Row(p, i) = Row(d, i)
    <3>1. \A r \in Rows \cap taken : p.file[r] = d.file[r]
      BY <2>1, <2>3, <1>1
    <3>2. Numbered(d, taken)
      BY DEF Settled
    <3>3. p.last = d.last /\ p.lost = d.lost /\ p.missing = d.missing
      BY <2>3
    <3> QED BY <3>1, <3>2, <3>3, NumbersStay
  <2>5. Settled(p, taken)
    BY <2>3, <2>4 DEF Settled
  <2>6. /\ p.lines[m] = w.line
        /\ \A i \in Rows : i # m => p.lines[i] = d.lines[i]
    BY <2>1, <2>3, <1>1
  <2>7. S(p) = S(d) \cup {m}
    BY <2>1, <2>6, <1>5 DEF S
  <2>8. p.file[Row(p, m)] = w.data
    BY <2>1, <2>3, <2>4, <1>1
  <2>9. \A i \in S(d) : p.file[Row(p, i)] = d.file[Row(d, i)]
    <3>1. \A i \in S(d) : i # m /\ Row(d, i) # Row(d, m) /\ Row(d, i) \in Rows
      BY <2>1, <1>2, <1>3
    <3> QED BY <3>1, <2>3, <2>4, <1>1
  <2>10. \A A : RowsOf(p, A) = RowsOf(d, A)
    BY <2>4 DEF RowsOf
  <2>11. Triangular(p)
    <3>1. ASSUME NEW i \in S(p)
          PROVE  /\ i \in p.lines[i] /\ p.lines[i] \subseteq i .. p.lost
                 /\ p.file[Row(p, i)] = RowsOf(p, p.lines[i])
      <4>1. CASE i = m
        BY <4>1, <2>1, <2>3, <2>6, <2>8, <2>10, <1>1
      <4>2. CASE i # m
        <5>1. i \in S(d) /\ p.lines[i] = d.lines[i]
          BY <4>2, <2>6, <2>7, <1>3
        <5> QED BY <5>1, <2>3, <2>9, <2>10 DEF Triangular
      <4> QED BY <4>1, <4>2
    <3> QED BY <3>1 DEF Triangular
  <2>12. ASSUME NEW change \in SUBSET Rows
         PROVE  Hidden(p, change) <=> Hidden(d, change) /\ ~Odd(w.data \cap change)
    BY <2>7, <2>8, <2>9 DEF Hidden
  <2> QED BY <1>5, <2>3, <2>5, <2>7, <2>11, <2>12 DEF m, p
<1> QED BY <1>4, <1>5

-----------------------------------------------------------------------------
(* The lines and the fragments they came from notice the same changes.     *)

SameKernel(d, taken) ==
  \A change \in SUBSET (Rows \ taken) :
    Hidden(d, change) <=> \A c \in taken \ Rows : ~Odd(Content(c) \cap change)

LEMMA KernelDecides ==
  ASSUME NEW d, NEW taken \in SUBSET Counters, SameKernel(d, taken)
  PROVE  Determine(taken) <=> \A change \in SUBSET (Rows \ taken) :
                                Hidden(d, change) => change = {}
<1>1. ASSUME NEW change \in SUBSET (Rows \ taken)
      PROVE  (\E c \in taken : Odd(Content(c) \cap change)) <=> ~Hidden(d, change)
  <2>1. ASSUME NEW c \in taken \cap Rows
        PROVE  ~Odd(Content(c) \cap change)
    <3>1. Content(c) \cap change = {}
      BY ContentIsRows
    <3> QED BY <3>1, EmptyIsEven
  <2> QED BY <2>1 DEF SameKernel
<1>2. Determine(taken) <=> \A change \in (SUBSET (Rows \ taken)) \ {{}} :
                             \E c \in taken : Odd(Content(c) \cap change)
  BY DEF Determine, Odd
<1>3. Determine(taken) <=> \A change \in (SUBSET (Rows \ taken)) \ {{}} : ~Hidden(d, change)
  BY <1>1, <1>2
<1>4. \A change : change \in (SUBSET (Rows \ taken)) \ {{}} <=>
                  change \in SUBSET (Rows \ taken) /\ change # {}
  OBVIOUS
<1> QED BY <1>3, <1>4

(* The rows a line names: its own, and none before it.                     *)
LEMMA LineNames ==
  ASSUME NEW d, NEW taken, Settled(d, taken), Triangular(d), NEW i \in S(d)
  PROVE  /\ i \in 1 .. d.lost /\ Row(d, i) \in d.file[Row(d, i)]
         /\ \A j \in 1 .. d.lost : Row(d, j) \in d.file[Row(d, i)] => j >= i
         /\ d.file[Row(d, i)] \in SUBSET (Rows \ taken)
<1>1. /\ i \in 1 .. d.lost /\ i \in d.lines[i] /\ d.lines[i] \subseteq i .. d.lost
      /\ d.file[Row(d, i)] = RowsOf(d, d.lines[i]) /\ d.lost \in Nat
  BY LinesAreNumbered, DecoderFields DEF Triangular, Settled
<1>2. \A j \in 1 .. d.lost : Row(d, j) \in Rows \ taken /\ d.missing[Row(d, j)] = j
  BY RowIsInverse DEF Settled
<1>3. d.lines[i] \in SUBSET (1 .. d.lost)
  BY <1>1
<1> QED BY <1>1, <1>2, <1>3 DEF RowsOf

(* A full matrix notices every change. *)
LEMMA FullDetermines ==
  ASSUME NEW d, NEW taken, Settled(d, taken), Triangular(d), S(d) = 1 .. d.lost,
         NEW change \in SUBSET (Rows \ taken), Hidden(d, change)
  PROVE  change = {}
<1> SUFFICES ASSUME change # {} PROVE FALSE
  OBVIOUS
<1>1. /\ \A r \in Rows \ taken : d.missing[r] \in 1 .. d.lost /\ Row(d, d.missing[r]) = r
      /\ \A i \in 1 .. d.lost : d.missing[Row(d, i)] = i
      /\ d.lost \in Nat
  BY RowIsInverse, DecoderFields DEF Settled
<1> DEFINE below == {n \in 0 .. d.lost : \E r \in change : d.missing[r] = d.lost - n}
<1>2. below \in SUBSET Nat /\ below # {}
  <2>1. PICK r \in change : r \in Rows \ taken
    OBVIOUS
  <2>2. d.lost - d.missing[r] \in below
    BY <1>1, <2>1
  <2> QED BY <2>2
<1>3. PICK n \in below : \A l \in below : n <= l
  <2> HIDE DEF below
  <2> QED BY <1>2, LeastNumber
<1>4. PICK r \in change : d.missing[r] = d.lost - n
  OBVIOUS
<1> DEFINE m == d.missing[r]
<1>5. m \in S(d) /\ Row(d, m) = r /\ m \in Nat
  BY <1>1
<1>5a. r \in d.file[r] /\ \A j \in 1 .. d.lost : Row(d, j) \in d.file[r] => j >= m
  <2> HIDE DEF m
  <2> QED BY <1>5, LineNames
<1>6. d.file[Row(d, m)] \cap change = {r}
  <2>1. ASSUME NEW s \in d.file[Row(d, m)], s \in change
        PROVE  s = r
    <3>1. d.missing[s] \in 1 .. d.lost /\ Row(d, d.missing[s]) = s
      BY <1>1, <2>1
    <3>2. d.missing[s] >= m
      BY <1>5, <1>5a, <2>1, <3>1
    <3>3. d.lost - d.missing[s] \in below
      BY <1>1, <2>1, <3>1
    <3>4. n <= d.lost - d.missing[s] /\ n \in Nat
      BY <1>3, <3>3
    <3>5. d.missing[s] = m
      BY <1>1, <1>4, <3>1, <3>2, <3>4
    <3> QED BY <1>5, <3>1, <3>5
  <2>2. r \in d.file[Row(d, m)]
    BY <1>5, <1>5a
  <2> QED BY <2>1, <2>2
<1> QED BY <1>5, <1>6, OneIsOdd DEF Hidden

(* One that is not full leaves a change unnoticed. *)
LEMMA NotFullIsBlind ==
  ASSUME NEW d, NEW taken, Settled(d, taken), Triangular(d),
         NEW k \in 1 .. d.lost, k \notin S(d)
  PROVE  \E change \in SUBSET (Rows \ taken) : change # {} /\ Hidden(d, change)
<1>1. /\ \A i \in 1 .. d.lost : Row(d, i) \in Rows \ taken /\ d.missing[Row(d, i)] = i
      /\ d.lost \in Nat /\ k \in Nat
  BY RowIsInverse, DecoderFields DEF Settled
<1>2. \A i \in S(d) : /\ i \in 1 .. d.lost /\ Row(d, i) \in d.file[Row(d, i)]
                      /\ \A j \in 1 .. d.lost : Row(d, j) \in d.file[Row(d, i)] => j >= i
                      /\ d.file[Row(d, i)] \in SUBSET (Rows \ taken)
  BY LineNames
<1> DEFINE Unseen(change, i) == ~Odd(d.file[Row(d, i)] \cap change)
           IsBlind(change, n) ==
             /\ change \in SUBSET (Rows \ taken) /\ Row(d, k) \in change
             /\ \A r \in change : d.missing[r] >= k - n
             /\ \A i \in S(d) : i >= k - n => Unseen(change, i)
           P == {n \in 0 .. k : \E change : IsBlind(change, n)}
<1>3. 0 \in P
  <2>1. ASSUME NEW i \in S(d), i >= k
        PROVE  Unseen({Row(d, k)}, i)
    <3>1. i > k
      BY <1>1, <1>2, <2>1
    <3>2. d.file[Row(d, i)] \cap {Row(d, k)} = {}
      BY <1>1, <1>2, <3>1
    <3> QED BY <3>2, EmptyIsEven
  <2> HIDE DEF Unseen
  <2>2. k - 0 = k /\ 0 \in 0 .. k
    BY <1>1
  <2>3. IsBlind({Row(d, k)}, 0)
    BY <1>1, <2>1, <2>2
  <2> QED BY <2>2, <2>3
<1>4. ASSUME NEW n \in 1 .. k, n - 1 \in P
      PROVE  n \in P
  <2> DEFINE i0 == k - n
  <2>1. PICK change : IsBlind(change, n - 1)
    BY <1>4
  <2>2. n \in Nat /\ n \in 0 .. k /\ i0 \in 0 .. k /\ k - (n - 1) = i0 + 1
    BY <1>1
  <2>3. /\ change \in SUBSET (Rows \ taken) /\ Row(d, k) \in change
        /\ \A r \in change : d.missing[r] \in Nat /\ d.missing[r] >= i0 + 1
        /\ \A i \in S(d) : i >= i0 + 1 => Unseen(change, i)
    <3>1. \A r \in Rows : d.missing[r] \in Nat
      BY DecoderFields DEF Settled
    <3> HIDE DEF Unseen
    <3> QED BY <2>1, <2>2, <3>1
  <2> HIDE DEF i0
  <2>4. CASE i0 \in S(d) => Unseen(change, i0)
    <3> HIDE DEF Unseen
    <3>1. \A i \in S(d) : i >= i0 => Unseen(change, i)
      <4>1. \A i \in S(d) : i \in Nat
        BY <1>2
      <4> QED BY <4>1, <2>2, <2>3, <2>4
    <3>2. \A r \in change : d.missing[r] >= i0
      BY <2>2, <2>3
    <3>3. IsBlind(change, n)
      BY <2>3, <3>1, <3>2 DEF i0
    <3> QED BY <2>2, <3>3
  <2>5. CASE i0 \in S(d) /\ ~Unseen(change, i0)
    <3> DEFINE r0 == Row(d, i0)
               new == change \cup {r0}
    <3>1. i0 \in 1 .. d.lost /\ r0 \in Rows \ taken /\ d.missing[r0] = i0 /\ r0 \notin change
      BY <1>1, <1>2, <2>2, <2>3, <2>5
    <3>2. ASSUME NEW i \in S(d), i >= i0
          PROVE  Unseen(new, i)
      <4>1. CASE i = i0
        <5> DEFINE A == d.file[r0] \cap change
        <5>1. r0 \in d.file[r0] /\ d.file[r0] \in SUBSET Rows
          BY <1>2, <2>5
        <5>2. d.file[r0] \cap new = Xor(A, {r0})
          BY <3>1, <5>1 DEF Xor
        <5>3. Odd(A) /\ Odd({r0})
          BY <2>5, OneIsOdd
        <5>4. A \in SUBSET Rows /\ {r0} \in SUBSET Rows
          BY <3>1, <5>1
        <5> HIDE DEF A, r0, new
        <5>5. ~Odd(Xor(A, {r0}))
          BY <5>3, <5>4, OddXor
        <5> QED BY <4>1, <5>2, <5>5 DEF r0
      <4>2. CASE i # i0
        <5>1. i >= i0 + 1 /\ i \in Nat
          BY <1>2, <2>2, <3>2, <4>2
        <5>2. r0 \notin d.file[Row(d, i)]
          BY <1>2, <2>2, <3>1, <5>1
        <5>3. d.file[Row(d, i)] \cap new = d.file[Row(d, i)] \cap change
          BY <5>2
        <5> QED BY <2>3, <5>1, <5>3
      <4> QED BY <4>1, <4>2
    <3>3. new \in SUBSET (Rows \ taken) /\ Row(d, k) \in new
      BY <2>3, <3>1
    <3>4. \A r \in new : d.missing[r] >= i0
      BY <2>2, <2>3, <3>1
    <3> HIDE DEF new, Unseen
    <3>5. IsBlind(new, n)
      BY <3>2, <3>3, <3>4 DEF i0
    <3> QED BY <2>2, <3>5
  <2> QED BY <2>4, <2>5
<1>5. k \in P
  <2> HIDE DEF P
  <2>1. \A n \in 0 .. k : n \in P
    BY <1>1, <1>3, <1>4, Induct
  <2> QED BY <1>1, <2>1
<1>6. PICK change : IsBlind(change, k)
  BY <1>5
<1>7. \A i \in S(d) : i >= k - k
  BY <1>1, <1>2
<1>8. Hidden(d, change)
  BY <1>6, <1>7 DEF Hidden
<1> QED BY <1>6, <1>8

-----------------------------------------------------------------------------
(* Back substitution: after k rounds the last k + 1 of the missing rows    *)
(* are recovered.                                                          *)

Rebuilt(d, taken, k) ==
  [r \in Rows |-> IF r \in taken \/ d.missing[r] >= d.lost - k THEN {r} ELSE d.file[r]]

LEMMA SubstitutedRebuilds ==
  ASSUME NEW d, NEW taken, Settled(d, taken), Triangular(d), S(d) = 1 .. d.lost,
         NEW k \in 1 .. d.lost - 1
  PROVE  Substituted(d, Rebuilt(d, taken, k - 1), d.lost - k) = Rebuilt(d, taken, k)
<1> DEFINE old == Rebuilt(d, taken, k - 1)
           i == d.lost - k
           rows == RowsOf(d, d.lines[i] \ {i})
<1>1. /\ \A j \in 1 .. d.lost : Row(d, j) \in Rows \ taken /\ d.missing[Row(d, j)] = j
      /\ \A r \in Rows \ taken : d.missing[r] \in 1 .. d.lost /\ Row(d, d.missing[r]) = r
      /\ d.lost \in Nat /\ k \in Nat
  BY RowIsInverse, DecoderFields DEF Settled
<1>2. i \in 1 .. d.lost /\ i \in S(d) /\ d.lost - (k - 1) = i + 1 /\ i \in Nat
  BY <1>1
<1>3. \A r \in Rows : old[r] = IF r \in taken \/ d.missing[r] >= i + 1 THEN {r} ELSE d.file[r]
  BY <1>2 DEF Rebuilt
<1>4. Substituted(d, old, i) = [old EXCEPT ![Row(d, i)] = XorRows(old, rows, old[Row(d, i)])]
  BY DEF Substituted, RowsOf, Row
<1>5. Rebuilt(d, taken, k) =
        [r \in Rows |-> IF r \in taken \/ d.missing[r] >= i THEN {r} ELSE d.file[r]]
  BY DEF Rebuilt
<1>6. DOMAIN old = Rows /\ old = [r \in Rows |-> old[r]]
  BY DEF Rebuilt
<1> HIDE DEF old, i
<1>7. /\ i \in d.lines[i] /\ d.lines[i] \subseteq i .. d.lost
      /\ d.file[Row(d, i)] = RowsOf(d, d.lines[i])
  BY <1>2 DEF Triangular
<1>8. \A j \in d.lines[i] \ {i} : j \in 1 .. d.lost /\ j >= i + 1
  BY <1>1, <1>2, <1>7
<1>9. rows \in SUBSET Rows /\ \A r \in rows : old[r] = {r}
  <2>1. ASSUME NEW j \in d.lines[i] \ {i}
        PROVE  Row(d, j) \in Rows /\ old[Row(d, j)] = {Row(d, j)}
    <3>1. Row(d, j) \in Rows /\ d.missing[Row(d, j)] >= i + 1
      BY <1>1, <1>8
    <3> QED BY <3>1, <1>3
  <2> QED BY <2>1 DEF RowsOf
<1>10. old[Row(d, i)] = rows \cup {Row(d, i)} /\ Row(d, i) \notin rows
  <2>1. Row(d, i) \in Rows \ taken /\ ~(d.missing[Row(d, i)] >= i + 1)
    BY <1>1, <1>2
  <2>2. old[Row(d, i)] = RowsOf(d, d.lines[i])
    BY <2>1, <1>3, <1>7
  <2>3. Row(d, i) \notin rows
    BY <1>1, <1>2, <1>8 DEF RowsOf
  <2>4. RowsOf(d, d.lines[i]) = rows \cup {Row(d, i)}
    BY <1>7 DEF RowsOf
  <2> QED BY <2>2, <2>3, <2>4
<1> HIDE DEF rows
<1>11. XorRows(old, rows, old[Row(d, i)]) = {Row(d, i)}
  <2>1. XorRows(old, rows, old[Row(d, i)]) = Xor(old[Row(d, i)], rows)
    BY <1>9, XorRowsRecovered
  <2> QED BY <2>1, <1>10 DEF Xor
<1>12. Row(d, i) \in Rows \ taken /\ d.missing[Row(d, i)] = i
  BY <1>1, <1>2
<1>13. ASSUME NEW r \in Rows
       PROVE  [old EXCEPT ![Row(d, i)] = {Row(d, i)}][r]
                = IF r \in taken \/ d.missing[r] >= i THEN {r} ELSE d.file[r]
  <2>1. CASE r = Row(d, i)
    BY <2>1, <1>2, <1>6, <1>12
  <2>2. CASE r # Row(d, i)
    <3>1. r \in taken \/ (d.missing[r] >= i <=> d.missing[r] >= i + 1)
      <4>1. r \notin taken => d.missing[r] # i /\ d.missing[r] \in Nat
        BY <2>2, <1>1
      <4> QED BY <4>1, <1>2
    <3>2. [old EXCEPT ![Row(d, i)] = {Row(d, i)}][r] = old[r]
      BY <2>2, <1>6
    <3> QED BY <3>1, <3>2, <1>3
  <2> QED BY <2>1, <2>2
<1>14. [old EXCEPT ![Row(d, i)] = {Row(d, i)}]
         = [r \in Rows |-> IF r \in taken \/ d.missing[r] >= i THEN {r} ELSE d.file[r]]
  <2>1. [old EXCEPT ![Row(d, i)] = {Row(d, i)}]
          = [r \in Rows |-> [old EXCEPT ![Row(d, i)] = {Row(d, i)}][r]]
    BY <1>6
  <2> QED BY <2>1, <1>13
<1>15. Substituted(d, old, i) = Rebuilt(d, taken, k)
  BY <1>4, <1>5, <1>11, <1>14
<1> QED BY <1>15 DEF old, i

LEMMA SolvedIsWhole ==
  ASSUME NEW d, NEW taken, Settled(d, taken), Triangular(d), S(d) = 1 .. d.lost, d.lost >= 1
  PROVE  Solved(d) \in DecoderType /\ IsWhole(Solved(d)) /\ Solved(d).lost = d.lost
<1>1. /\ \A r \in Rows \ taken : d.missing[r] \in 1 .. d.lost /\ Row(d, d.missing[r]) = r
      /\ \A r \in Rows \cap taken : d.file[r] = {r}
      /\ d.lost \in Nat /\ d.file \in [Rows -> SUBSET Rows]
  BY RowIsInverse, DecoderFields DEF Settled
<1> DEFINE n == d.lost - 1
           f == [k \in 0 .. n |-> Rebuilt(d, taken, k)]
           IsLoop(h) == h = [k \in 0 .. n |->
                               IF k = 0 THEN d.file ELSE Substituted(d, h[k - 1], d.lost - k)]
           g == CHOOSE h : IsLoop(h)
<1>2. n \in Nat
  BY <1>1
<1>3. Rebuilt(d, taken, 0) = d.file
  <2>1. ASSUME NEW r \in Rows
        PROVE  (IF r \in taken \/ d.missing[r] >= d.lost - 0 THEN {r} ELSE d.file[r]) = d.file[r]
    <3>1. CASE r \notin taken /\ d.missing[r] = d.lost
      <4>1. /\ d.lost \in d.lines[d.lost] /\ d.lines[d.lost] \subseteq d.lost .. d.lost
            /\ d.file[Row(d, d.lost)] = RowsOf(d, d.lines[d.lost])
        BY <1>1, <3>1 DEF Triangular
      <4>2. d.lines[d.lost] = {d.lost} /\ Row(d, d.lost) = r
        BY <4>1, <1>1, <3>1
      <4>3. RowsOf(d, {d.lost}) = {r}
        BY <4>2 DEF RowsOf
      <4>4. d.file[r] = {r}
        BY <4>1, <4>2, <4>3
      <4> QED BY <4>4
    <3>2. CASE r \notin taken /\ d.missing[r] # d.lost
      BY <3>2, <1>1
    <3>3. CASE r \in taken
      BY <3>3, <1>1
    <3> QED BY <3>1, <3>2, <3>3
  <2> QED BY <2>1, <1>1 DEF Rebuilt
<1>4. \A k \in 0 .. n : f[k] = Rebuilt(d, taken, k)
  OBVIOUS
<1>5. f = [k \in 0 .. n |-> f[k]]
  OBVIOUS
<1> HIDE DEF f
<1>6. \A k \in 0 .. n : f[k] = IF k = 0 THEN d.file ELSE Substituted(d, f[k - 1], d.lost - k)
  <2>1. ASSUME NEW k \in 0 .. n, k # 0
        PROVE  f[k] = Substituted(d, f[k - 1], d.lost - k)
    <3>1. k \in 1 .. d.lost - 1 /\ k - 1 \in 0 .. n
      BY <2>1, <1>2
    <3>2. f[k] = Rebuilt(d, taken, k) /\ f[k - 1] = Rebuilt(d, taken, k - 1)
      BY <3>1, <1>4
    <3>3. Substituted(d, Rebuilt(d, taken, k - 1), d.lost - k) = Rebuilt(d, taken, k)
      BY <3>1, SubstitutedRebuilds
    <3> QED BY <3>2, <3>3
  <2>2. f[0] = d.file
    BY <1>2, <1>3, <1>4
  <2> QED BY <2>1, <2>2
<1>7. IsLoop(f)
  BY <1>5, <1>6
<1>8. Solved(d) = [d EXCEPT !.file = g[n]]
  BY DEF Solved
<1>9. IsLoop(g)
  <2> HIDE DEF IsLoop
  <2> QED BY <1>7
<1>10. \A k \in 0 .. n : g[k] = IF k = 0 THEN d.file ELSE Substituted(d, g[k - 1], d.lost - k)
  <2> HIDE DEF g
  <2> QED BY <1>9
<1> HIDE DEF g, IsLoop
<1> DEFINE P == {k \in 0 .. n : g[k] = f[k]}
<1>11. n \in P
  <2> HIDE DEF n
  <2>1. 0 \in P
    BY <1>2, <1>6, <1>10
  <2>2. ASSUME NEW k \in 1 .. n, k - 1 \in P
        PROVE  k \in P
    BY <1>2, <1>6, <1>10, <2>2
  <2> HIDE DEF P
  <2>3. \A k \in 0 .. n : k \in P
    BY <1>2, <2>1, <2>2, Induct
  <2> QED BY <1>2, <2>3
<1>12. g[n] = Rebuilt(d, taken, n)
  BY <1>4, <1>11
<1>13. \A r \in Rows : g[n][r] = {r}
  <2>1. ASSUME NEW r \in Rows
        PROVE  r \in taken \/ d.missing[r] >= d.lost - n
    BY <1>1
  <2> QED BY <2>1, <1>12 DEF Rebuilt
<1>14. g[n] \in [Rows -> SUBSET Rows]
  <2>1. g[n] = [r \in Rows |-> {r}]
    <3>1. g[n] = [r \in Rows |-> g[n][r]]
      BY <1>12 DEF Rebuilt
    <3> HIDE DEF n
    <3> QED BY <3>1, <1>13
  <2> HIDE DEF n
  <2> QED BY <2>1
<1> HIDE DEF n
<1>15. Solved(d) \in DecoderType /\ Solved(d).file = g[n] /\ Solved(d).lost = d.lost
  BY <1>8, <1>14 DEF Settled, DecoderType
<1> QED BY <1>13, <1>15 DEF IsWhole

-----------------------------------------------------------------------------
(* A fragment.                                                             *)

(* A session that collects: no coded fragment yet and no line, or too few  *)
(* lines for the rows that are missing.                                    *)
Ongoing(d, taken) ==
  /\ Numbered(d, taken) /\ Triangular(d)
  /\ taken \ Rows # {} => d.last = FragNb + 1 /\ Cardinality(S(d)) < d.lost
  /\ taken \ Rows = {} => S(d) = {}
  /\ d.last = FragNb + 1 => SameKernel(d, taken)

(* A session that came to an end, with the file or without. *)
Ended(d, taken) == d.lost > FRAG_MAX_REDUNDANCY \/ (IsWhole(d) /\ Determine(taken))

LEMMA UncodedGoesOn ==
  ASSUME NEW d \in DecoderType, NEW taken \in SUBSET Counters, Ongoing(d, taken),
         NEW counter \in Rows, counter >= d.last
  PROVE  LET e == Uncoded(d, counter)
         IN  e \in DecoderType /\ Ongoing(e, taken \cup {counter})
<1> DEFINE e == Uncoded(d, counter)
           t == taken \cup {counter}
<1>1. /\ e \in DecoderType /\ Numbered(e, t) /\ e.lines = d.lines
      /\ d.last # FragNb + 1
  BY UncodedIsTaken DEF Ongoing
<1> HIDE DEF e
<1>2. taken \ Rows = {} /\ t \ Rows = {}
  BY <1>1 DEF Ongoing
<1>3. S(e) = {}
  BY <1>1, <1>2 DEF Ongoing, S
<1>4. Triangular(e)
  BY <1>3 DEF Triangular
<1>5. SameKernel(e, t)
  BY <1>2, <1>3 DEF SameKernel, Hidden
<1> QED BY <1>1, <1>2, <1>3, <1>4, <1>5 DEF Ongoing, e

(* A matrix with a line for every missing row, and one without. *)
LEMMA FullOrNot ==
  ASSUME NEW d, NEW taken, Settled(d, taken), Triangular(d)
  PROVE  /\ Cardinality(S(d)) = d.lost => S(d) = 1 .. d.lost
         /\ Cardinality(S(d)) # d.lost => Cardinality(S(d)) < d.lost
         /\ Cardinality(S(d)) < d.lost => \E k \in 1 .. d.lost : k \notin S(d)
<1>1. S(d) \in SUBSET (1 .. d.lost) /\ d.lost \in Nat
  BY LinesAreNumbered, DecoderFields DEF Settled
<1>2. IsFiniteSet(1 .. d.lost) /\ Cardinality(1 .. d.lost) = d.lost
  <2> DEFINE n == d.lost
  <2>1. n \in Nat
    BY <1>1
  <2> HIDE DEF n
  <2>2. /\ IsFiniteSet(1 .. n)
        /\ Cardinality(1 .. n) = IF 1 > n THEN 0 ELSE n - 1 + 1
    BY <2>1, FS_Interval
  <2>3. IsFiniteSet(1 .. n) /\ Cardinality(1 .. n) = n
    BY <2>1, <2>2
  <2> QED BY <2>3 DEF n
<1>3. /\ Cardinality(S(d)) <= d.lost /\ Cardinality(S(d)) \in Nat
      /\ Cardinality(S(d)) = d.lost => S(d) = 1 .. d.lost
  BY <1>1, <1>2, FS_Subset, FS_CardinalityType
<1>4. S(d) = 1 .. d.lost \/ \E k \in 1 .. d.lost : k \notin S(d)
  BY <1>1
<1> QED BY <1>1, <1>2, <1>3, <1>4

LEMMA CollectsUndetermined ==
  ASSUME NEW d \in DecoderType, NEW taken \in SUBSET Counters, Ongoing(d, taken),
         taken \ Rows # {}
  PROVE  ~Determine(taken)
<1>1. /\ Settled(d, taken) /\ Triangular(d) /\ SameKernel(d, taken)
      /\ Cardinality(S(d)) < d.lost
  BY DEF Ongoing, Settled
<1>2. PICK k \in 1 .. d.lost : k \notin S(d)
  BY <1>1, FullOrNot
<1>3. \E change \in SUBSET (Rows \ taken) : change # {} /\ Hidden(d, change)
  BY <1>1, <1>2, NotFullIsBlind
<1> QED BY <1>1, <1>3, KernelDecides

LEMMA CodedGoesOnOrEnds ==
  ASSUME NEW d \in DecoderType, NEW taken \in SUBSET Counters, Ongoing(d, taken),
         NEW counter \in Counters \ Rows, counter >= d.last
  PROVE  LET q == Coded(d, counter)
         IN  /\ q.dec \in DecoderType
             /\ \/ q.status = FRAG_SESSION_ONGOING /\ Ongoing(q.dec, taken \cup {counter})
                \/ q.status \in 0 .. FragNb /\ Ended(q.dec, taken \cup {counter})
<1> DEFINE q == Coded(d, counter)
           t == taken \cup {counter}
           f == FragFindMissingFrags(d, counter)
           v == Stripped(f, counter)
           w == Reduced(f, v)
           p == Pushed(f, w)
           Good(x) == /\ x.dec \in DecoderType
                      /\ \/ x.status = FRAG_SESSION_ONGOING /\ Ongoing(x.dec, t)
                         \/ x.status \in 0 .. FragNb /\ Ended(x.dec, t)
<1> SUFFICES Good(q)
  OBVIOUS
<1>1. CASE d.lost > FRAG_MAX_REDUNDANCY
  <2> DEFINE e == [d EXCEPT !.matrixError = TRUE]
  <2>1. q = [dec |-> e, status |-> FRAG_SESSION_FINISHED]
    BY <1>1 DEF Coded
  <2>2. e \in DecoderType /\ e.lost = d.lost
    BY DEF DecoderType
  <2>3. 0 \in 0 .. FragNb
    BY RowsAreFinite
  <2> HIDE DEF e
  <2> QED BY <1>1, <2>1, <2>2, <2>3 DEF Ended, FRAG_SESSION_FINISHED
<1>2. CASE ~(d.lost > FRAG_MAX_REDUNDANCY)
  <2>1. q = IF f.lost = 0 THEN [dec |-> f, status |-> f.lost]
            ELSE IF v.line = {} THEN [dec |-> f, status |-> FRAG_SESSION_ONGOING]
            ELSE IF ~IsFull(p) THEN [dec |-> p, status |-> FRAG_SESSION_ONGOING]
            ELSE [dec |-> Solved(p), status |-> p.lost]
    BY <1>2 DEF Coded
  <2>2. t \in SUBSET Counters /\ t \ Rows # {} /\ Rows \ t = Rows \ taken
        /\ t \ Rows = (taken \ Rows) \cup {counter}
    OBVIOUS
  <2>3. /\ f \in DecoderType /\ Numbered(f, t) /\ f.last = FragNb + 1 /\ f.lines = d.lines
        /\ d.last = FragNb + 1 => f = d
    BY CodedIsNumbered DEF Ongoing
  <2> HIDE DEF q, f
  <2>4. Settled(f, t) /\ f.lost \in 0 .. FragNb /\ FragNb \in Nat
    BY <2>3, DecoderFields, RowsAreFinite DEF Settled
  <2>5. Triangular(f) /\ SameKernel(f, taken) /\ (S(f) = {} \/ Cardinality(S(f)) < f.lost)
    <3>1. CASE d.last = FragNb + 1
      BY <2>3, <3>1 DEF Ongoing
    <3>2. CASE d.last # FragNb + 1
      <4>1. taken \ Rows = {} /\ S(f) = {}
        BY <2>3, <3>2 DEF Ongoing, S
      <4> QED BY <4>1 DEF Triangular, SameKernel, Hidden
    <3> QED BY <3>1, <3>2
  <2>6. f.lost # 0 => Cardinality(S(f)) < f.lost
    <3>1. Cardinality({}) = 0
      BY FS_EmptySet
    <3> QED BY <3>1, <2>4, <2>5
  <2>7. IsVector(f, v) /\ v.data = Content(counter) \ t
    BY <2>4, StrippedIsVector
  <2> HIDE DEF v
  <2>8. ASSUME NEW change \in SUBSET (Rows \ t)
        PROVE  v.data \cap change = Content(counter) \cap change
    BY <2>7
  <2>9. CASE f.lost = 0
    <3>1. \A r \in Rows \ t : f.missing[r] \in 1 .. f.lost
      BY <2>4, RowIsInverse DEF Settled
    <3>2. Rows \subseteq t
      BY <2>9, <3>1
    <3>3. IsWhole(f)
      BY <2>4, <3>2, RowIsInverse DEF Settled, IsWhole
    <3>4. Determine(t)
      BY <3>2 DEF Determine
    <3>5. q = [dec |-> f, status |-> f.lost]
      BY <2>1, <2>9
    <3> QED BY <2>3, <2>4, <3>3, <3>4, <3>5 DEF Ended
  <2>10. CASE f.lost # 0 /\ v.line = {}
    <3>1. v.data = {}
      BY <2>7, <2>10 DEF IsVector, RowsOf
    <3>2. ASSUME NEW change \in SUBSET (Rows \ t)
          PROVE  ~Odd(Content(counter) \cap change)
      <4>1. Content(counter) \cap change = {}
        BY <2>8, <3>1
      <4> QED BY <4>1, EmptyIsEven
    <3>3. SameKernel(f, t)
      BY <2>2, <2>5, <3>2 DEF SameKernel
    <3>4. Ongoing(f, t)
      BY <2>2, <2>3, <2>5, <2>6, <2>10, <3>3 DEF Ongoing
    <3>5. q = [dec |-> f, status |-> FRAG_SESSION_ONGOING]
      BY <2>1, <2>10
    <3> QED BY <2>3, <3>4, <3>5
  <2>11. CASE f.lost # 0 /\ v.line # {}
    <3>1. /\ IsVector(f, w)
          /\ w.line # {} => Min(w.line) \in w.line \ S(f) /\ w.line \subseteq Min(w.line) .. f.lost
          /\ \A change \in SUBSET Rows :
               Hidden(f, change) => (Odd(w.data \cap change) <=> Odd(v.data \cap change))
      BY <2>4, <2>5, <2>7, ReducedIsNew
    <3> HIDE DEF w
    <3>2. /\ Settled(p, t) /\ Triangular(p) /\ p.lost = f.lost
          /\ \A change \in SUBSET Rows :
               Hidden(p, change) <=> Hidden(f, change) /\ ~Odd(w.data \cap change)
      BY <2>4, <2>5, <3>1, PushedKeeps
    <3> HIDE DEF p
    <3>3. ASSUME NEW change \in SUBSET (Rows \ t)
          PROVE  Hidden(p, change) <=> Hidden(f, change) /\ ~Odd(Content(counter) \cap change)
      <4>1. change \in SUBSET Rows
        OBVIOUS
      <4>2. v.data \cap change = Content(counter) \cap change
        BY <2>8
      <4> QED BY <3>1, <3>2, <4>1, <4>2
    <3>4. SameKernel(p, t)
      BY <2>2, <2>5, <3>3 DEF SameKernel
    <3>5. /\ Cardinality(S(p)) = p.lost => S(p) = 1 .. p.lost
          /\ Cardinality(S(p)) # p.lost => Cardinality(S(p)) < p.lost
      BY <3>2, FullOrNot
    <3>6. CASE ~IsFull(p)
      <4>1. Ongoing(p, t)
        BY <2>2, <3>2, <3>4, <3>5, <3>6 DEF Ongoing, Settled, IsFull
      <4>2. q = [dec |-> p, status |-> FRAG_SESSION_ONGOING]
        BY <2>1, <2>11, <3>6
      <4> QED BY <3>2, <4>1, <4>2 DEF Settled
    <3>7. CASE IsFull(p)
      <4>1. S(p) = 1 .. p.lost /\ p.lost >= 1
        BY <2>4, <2>11, <3>2, <3>5, <3>7 DEF IsFull
      <4>2. Solved(p) \in DecoderType /\ IsWhole(Solved(p))
        BY <3>2, <4>1, SolvedIsWhole
      <4>3. \A change \in SUBSET (Rows \ t) : Hidden(p, change) => change = {}
        BY <3>2, <4>1, FullDetermines
      <4>4. Determine(t)
        BY <2>2, <3>4, <4>3, KernelDecides
      <4>5. q = [dec |-> Solved(p), status |-> p.lost]
        BY <2>1, <2>11, <3>7
      <4> QED BY <2>4, <3>2, <4>2, <4>4, <4>5 DEF Ended
    <3> QED BY <3>6, <3>7
  <2> QED BY <2>9, <2>10, <2>11
<1> QED BY <1>1, <1>2

-----------------------------------------------------------------------------
(* The commands of a downlink.                                             *)

(* What the session, the decoder and the reports have to do with one       *)
(* another, of a state st of the package.                                  *)
SessionHolds(st) ==
  /\ st.told \in 0 .. 1
  /\ st.told > 0 => st.session.status = FRAG_SESSION_NOT_STARTED
  /\ st.session.active =>
       st.session.status = FRAG_SESSION_ONGOING \/ st.session.status >= 0 \/ st.told > 0
  /\ st.session.active /\ st.session.status = FRAG_SESSION_ONGOING =>
       st.told = 0 /\ Ongoing(st.dec, st.used)
  /\ (st.session.active /\ st.session.status >= 0) \/ st.told > 0 => Ended(st.dec, st.used)

States ==
  [session : [active : BOOLEAN, status : -2 .. FragNb], dec : DecoderType,
   used : SUBSET Counters, told : 0 .. 2,
   answers : Nat, delayed : BOOLEAN, skip : BOOLEAN]

Sound(st) == st \in States /\ SessionHolds(st)

(* One command keeps the rest of a state. *)
LEMMA StateFields ==
  ASSUME NEW st \in States
  PROVE  /\ st.session \in [active : BOOLEAN, status : -2 .. FragNb]
         /\ st.session.active \in BOOLEAN /\ st.session.status \in -2 .. FragNb
         /\ st.dec \in DecoderType /\ st.used \in SUBSET Counters /\ st.told \in 0 .. 2
         /\ st.answers \in Nat /\ st.delayed \in BOOLEAN /\ st.skip \in BOOLEAN
BY DEF States

(* What a command changes that no invariant is about. *)
LEMMA AnswersAreFree ==
  ASSUME NEW st, Sound(st), NEW e \in States,
         e.session = st.session, e.dec = st.dec, e.used = st.used, e.told = st.told
  PROVE  Sound(e)
BY DEF Sound, SessionHolds

LEMMA SetupIsSound ==
  ASSUME NEW st, Sound(st)
  PROVE  Sound(SessionSetup(st))
<1> DEFINE d == [FragDecoderInit EXCEPT !.matrixError = st.dec.matrixError]
           s == [active |-> TRUE, status |-> FRAG_SESSION_ONGOING]
           e == SessionSetup(st)
<1>1. FragNb \in Nat /\ FragNb >= 1
  BY RowsAreFinite
<1>2. st.dec.matrixError \in BOOLEAN /\ st.answers \in Nat
  BY StateFields, DecoderFields DEF Sound
<1>3. /\ d.last = 0 /\ d.lost = 0 /\ d.missing = [r \in Rows |-> 1]
      /\ d.lines = [i \in Rows |-> {}] /\ d \in DecoderType
  <2>1. 1 \in 0 .. FragNb /\ 0 \in 0 .. FragNb /\ 0 \in 0 .. FragNb + 1
    BY <1>1
  <2> QED BY <1>2, <2>1 DEF FragDecoderInit, DecoderType
<1> HIDE DEF d
<1>4. Seen(d) = {} /\ S(d) = {} /\ 0 \notin Rows /\ 1 .. d.lost = {}
  BY <1>1, <1>3 DEF Seen, S, Rows
<1>5. Numbered(d, {})
  BY <1>3, <1>4 DEF Numbered, Missed
<1>6. d.last # FragNb + 1
  BY <1>1, <1>3
<1>7. Ongoing(d, {})
  BY <1>4, <1>5, <1>6 DEF Ongoing, Triangular
<1>8. s \in [active : BOOLEAN, status : -2 .. FragNb] /\ s.active /\ s.status = -1
  BY <1>1 DEF FRAG_SESSION_ONGOING
<1> HIDE DEF s
<1>9. /\ e.session = s /\ e.dec = d /\ e.used = {} /\ e.told = 0 /\ e \in States
  <2> DEFINE n == st.answers + 1
  <2>1. n \in Nat
    BY <1>2
  <2>2. e = [st EXCEPT !.session = s, !.dec = d, !.used = {}, !.told = 0,
                       !.answers = n, !.delayed = FALSE]
    BY Zenon DEF SessionSetup, s, d
  <2> HIDE DEF n, e
  <2>3. e = [session |-> s, dec |-> d, used |-> {}, told |-> 0,
             answers |-> n, delayed |-> FALSE, skip |-> st.skip]
    BY <2>2 DEF Sound, States
  <2>4. st.skip \in BOOLEAN
    BY StateFields DEF Sound
  <2>5. e \in States
    BY <1>3, <1>8, <2>1, <2>3, <2>4 DEF States
  <2> QED BY <2>3, <2>5
<1> HIDE DEF e
<1> QED BY <1>7, <1>8, <1>9 DEF Sound, SessionHolds, FRAG_SESSION_ONGOING, e

LEMMA FragmentIsSound ==
  ASSUME NEW st, Sound(st), NEW counter \in Counters
  PROVE  Sound(DataFragment(st, counter))
<1>1. /\ st \in States /\ SessionHolds(st)
      /\ st.session.active \in BOOLEAN /\ st.session.status \in -2 .. FragNb
      /\ st.dec \in DecoderType /\ st.used \in SUBSET Counters /\ FragNb \in Nat
  BY StateFields, RowsAreFinite DEF Sound
<1>2. CASE ~st.session.active
  <2>1. DataFragment(st, counter) = [st EXCEPT !.skip = TRUE]
    BY <1>2 DEF DataFragment
  <2>2. [st EXCEPT !.skip = TRUE] \in States
    BY <1>1 DEF States
  <2> QED BY <1>1, <2>1, <2>2, AnswersAreFree DEF States
<1>3. CASE st.session.active /\ st.session.status = FRAG_SESSION_ONGOING
  <2> DEFINE q == FragDecoderProcess(st.dec, counter)
             taken == IF IsOutOfOrder(st.dec, counter) THEN st.used
                      ELSE st.used \cup {counter}
             e == [st EXCEPT !.dec = q.dec, !.session.status = q.status, !.used = taken]
  <2>1. DataFragment(st, counter) = e
    BY <1>3 DEF DataFragment, Decodes
  <2>2. st.told = 0 /\ Ongoing(st.dec, st.used)
    BY <1>1, <1>3 DEF SessionHolds
  <2>3. /\ q.dec \in DecoderType /\ taken \in SUBSET Counters
        /\ \/ q.status = FRAG_SESSION_ONGOING /\ Ongoing(q.dec, taken)
           \/ q.status \in 0 .. FragNb /\ Ended(q.dec, taken)
    <3>1. CASE IsOutOfOrder(st.dec, counter)
      BY <1>1, <2>2, <3>1 DEF FragDecoderProcess
    <3>2. CASE ~IsOutOfOrder(st.dec, counter)
      <4>1. counter >= st.dec.last /\ counter \in Nat /\ counter >= 1
            /\ taken = st.used \cup {counter} /\ taken \in SUBSET Counters
        BY <1>1, <3>2, DecoderFields, RowsAreFinite DEF IsOutOfOrder, Counters
      <4>2. CASE counter <= FragNb
        <5>1. counter \in Rows
          BY <1>1, <4>1, <4>2 DEF Rows
        <5>2. q = [dec |-> Uncoded(st.dec, counter), status |-> FRAG_SESSION_ONGOING]
          BY <3>2, <4>2 DEF FragDecoderProcess
        <5>3. Uncoded(st.dec, counter) \in DecoderType
              /\ Ongoing(Uncoded(st.dec, counter), st.used \cup {counter})
          BY <1>1, <2>2, <4>1, <5>1, UncodedGoesOn
        <5> QED BY <4>1, <5>2, <5>3
      <4>3. CASE ~(counter <= FragNb)
        <5>1. counter \notin Rows
          BY <1>1, <4>1, <4>3 DEF Rows
        <5>2. q = Coded(st.dec, counter)
          BY <3>2, <4>3 DEF FragDecoderProcess
        <5> HIDE DEF q
        <5> QED BY <1>1, <2>2, <4>1, <5>1, <5>2, CodedGoesOnOrEnds
      <4> QED BY <4>2, <4>3
    <3> QED BY <3>1, <3>2
  <2>4. q.status \in -2 .. FragNb
    BY <1>1, <2>3 DEF FRAG_SESSION_ONGOING
  <2> HIDE DEF q, taken
  <2>5. /\ e \in States /\ e.session.active /\ e.session.status = q.status /\ e.dec = q.dec
        /\ e.used = taken /\ e.told = 0
    BY <1>1, <1>3, <2>2, <2>3, <2>4 DEF States
  <2> HIDE DEF e
  <2>6. SessionHolds(e)
    BY <1>1, <2>3, <2>5 DEF SessionHolds, FRAG_SESSION_ONGOING
  <2> QED BY <2>1, <2>5, <2>6 DEF Sound
<1>4. CASE st.session.active /\ st.session.status # FRAG_SESSION_ONGOING
           /\ st.session.status >= 0
  <2> DEFINE e == TellsDone(st)
  <2>1. DataFragment(st, counter) = e
    BY <1>4 DEF DataFragment
  <2>2. st.told = 0 /\ Ended(st.dec, st.used)
    BY <1>1, <1>4 DEF SessionHolds, FRAG_SESSION_NOT_STARTED
  <2>3. Min({st.told + 1, 2}) = 1
    BY <2>2, MinMax
  <2>4. /\ e \in States /\ e.session.status = -2 /\ e.dec = st.dec /\ e.used = st.used
        /\ e.told = 1
    <3> DEFINE s == [st.session EXCEPT !.status = FRAG_SESSION_NOT_STARTED]
    <3>1. s \in [active : BOOLEAN, status : -2 .. FragNb] /\ s.status = -2
      BY <1>1 DEF States, FRAG_SESSION_NOT_STARTED
    <3>2. e = [st EXCEPT !.told = 1, !.session = s]
      BY <2>3 DEF TellsDone
    <3> HIDE DEF s, e
    <3>3. e = [session |-> s, dec |-> st.dec, used |-> st.used, told |-> 1,
               answers |-> st.answers, delayed |-> st.delayed, skip |-> st.skip]
      BY <1>1, <3>2 DEF States
    <3>4. e \in States
      BY <1>1, <3>1, <3>3, StateFields DEF States
    <3> QED BY <3>1, <3>3, <3>4
  <2> HIDE DEF e
  <2>5. SessionHolds(e)
    BY <2>2, <2>4 DEF SessionHolds, FRAG_SESSION_ONGOING, FRAG_SESSION_NOT_STARTED
  <2> QED BY <2>1, <2>4, <2>5 DEF Sound
<1>5. CASE st.session.active /\ st.session.status # FRAG_SESSION_ONGOING
           /\ ~(st.session.status >= 0)
  <2>1. DataFragment(st, counter) = st
    BY <1>5 DEF DataFragment
  <2> QED BY <2>1
<1> QED BY <1>2, <1>3, <1>4, <1>5

LEMMA CommandIsSound ==
  ASSUME NEW st, Sound(st), NEW cmd \in Commands
  PROVE  Sound(Command(st, cmd))
<1>1. /\ st \in States /\ SessionHolds(st)
      /\ st.session.active \in BOOLEAN /\ st.session.status \in -2 .. FragNb
      /\ st.answers \in Nat
  BY StateFields DEF Sound
<1>2. CASE st.skip
  BY <1>2 DEF Command
<1>3. CASE ~st.skip /\ cmd.name = "version"
  <2>1. Command(st, cmd) = [st EXCEPT !.answers = @ + 1]
    BY <1>3 DEF Command, PkgVersion
  <2>2. [st EXCEPT !.answers = @ + 1] \in States
    BY <1>1 DEF States
  <2> QED BY <1>1, <2>1, <2>2, AnswersAreFree DEF States
<1>4. CASE ~st.skip /\ cmd.name = "status"
  <2> DEFINE e == [st EXCEPT !.answers = @ + 1, !.delayed = TRUE]
  <2>1. Command(st, cmd) = e \/ Command(st, cmd) = st
    BY <1>4 DEF Command, FragStatus
  <2>2. e \in States
    <3>1. st.answers + 1 \in Nat /\ TRUE \in BOOLEAN
      BY <1>1
    <3> QED BY <1>1, <3>1, Zenon DEF States
  <2>3. Sound(e)
    BY <1>1, <2>2, AnswersAreFree DEF States
  <2> HIDE DEF e
  <2> QED BY <2>1, <2>3
<1>5. CASE ~st.skip /\ cmd.name = "setup"
  <2>1. Command(st, cmd) = SessionSetup(st)
    BY <1>5 DEF Command
  <2> QED BY <2>1, SetupIsSound
<1>6. CASE ~st.skip /\ cmd.name = "delete"
  <2> DEFINE e == SessionDelete(st)
  <2>1. Command(st, cmd) = e
    BY <1>6 DEF Command
  <2>2. /\ e \in States /\ e.session.active = FALSE /\ e.session.status = st.session.status
        /\ e.dec = st.dec /\ e.used = st.used /\ e.told = st.told
    <3> DEFINE s == [st.session EXCEPT !.active = FALSE]
               n == st.answers + 1
    <3>1. /\ s \in [active : BOOLEAN, status : -2 .. FragNb]
          /\ s.active = FALSE /\ s.status = st.session.status
      BY <1>1 DEF States
    <3>2. n \in Nat
      BY <1>1
    <3>3. e = [st EXCEPT !.session = s, !.answers = n, !.delayed = FALSE]
      BY DEF SessionDelete
    <3> HIDE DEF s, n, e
    <3> QED BY <1>1, <3>1, <3>2, <3>3 DEF States
  <2> HIDE DEF e
  <2>3. SessionHolds(e)
    BY <1>1, <2>2 DEF SessionHolds
  <2> QED BY <2>1, <2>2, <2>3 DEF Sound
<1>7. CASE ~st.skip /\ cmd.name = "data"
  <2>1. Command(st, cmd) = DataFragment(st, cmd.counter)
    BY <1>7 DEF Command
  <2>2. cmd.counter \in Counters
    BY <1>7 DEF Commands
  <2> QED BY <2>1, <2>2, FragmentIsSound
<1>8. cmd.name \in {"version", "status", "setup", "delete", "data"}
  BY DEF Commands
<1> QED BY <1>2, <1>3, <1>4, <1>5, <1>6, <1>7, <1>8

(* A downlink keeps what its commands keep. *)
LEMMA ObeyedIsSound ==
  ASSUME NEW st, Sound(st), NEW frame \in Seq(Commands)
  PROVE  Sound(Obeyed(st, frame))
<1> DEFINE n == Len(frame)
           X == {x \in States : Sound(x)}
           G == [k \in 1 .. n |-> [x \in X |-> Command(x, frame[k])]]
           IsLoop(h) == h = [k \in 0 .. n |-> IF k = 0 THEN st ELSE Command(h[k - 1], frame[k])]
           g == CHOOSE h : IsLoop(h)
<1>1. n \in Nat /\ \A k \in 1 .. n : frame[k] \in Commands
  OBVIOUS
<1>2. Obeyed(st, frame) = g[n]
  BY DEF Obeyed
<1>3. st \in X /\ \A x : x \in X <=> Sound(x)
  BY DEF Sound
<1> HIDE DEF n, X
<1>4. \A k \in 1 .. n, x \in X : Command(x, frame[k]) \in X
  BY <1>1, <1>3, CommandIsSound
<1>5. G \in [1 .. n -> [X -> X]]
  BY <1>4
<1>6. \A k \in 1 .. n, x \in X : G[k][x] = Command(x, frame[k])
  OBVIOUS
<1> HIDE DEF G
<1>7. PICK f \in [0 .. n -> X] : f[0] = st /\ \A k \in 1 .. n : f[k] = G[k][f[k - 1]]
  <2>1. \E f : IsRun(n, X, st, G, f)
    BY <1>1, <1>3, <1>5, LoopExists
  <2> QED BY <2>1 DEF IsRun
<1>8. \A k \in 0 .. n : f[k] = IF k = 0 THEN st ELSE Command(f[k - 1], frame[k])
  <2>1. ASSUME NEW k \in 0 .. n, k # 0
        PROVE  f[k] = Command(f[k - 1], frame[k])
    <3>1. k \in 1 .. n /\ k - 1 \in 0 .. n
      BY <2>1, <1>1
    <3> QED BY <3>1, <1>6, <1>7
  <2> QED BY <2>1, <1>7
<1>9. IsLoop(f)
  <2>1. f = [k \in 0 .. n |-> f[k]]
    OBVIOUS
  <2> QED BY <2>1, <1>8
<1>10. IsLoop(g)
  <2> HIDE DEF IsLoop
  <2> QED BY <1>9
<1>11. \A k \in 0 .. n : g[k] = IF k = 0 THEN st ELSE Command(g[k - 1], frame[k])
  <2> HIDE DEF g
  <2> QED BY <1>10
<1> HIDE DEF g, IsLoop
<1> DEFINE P == {k \in 0 .. n : Sound(g[k])}
<1>12. 0 \in P
  BY <1>1, <1>11
<1>13. ASSUME NEW k \in 1 .. n, k - 1 \in P
       PROVE  k \in P
  <2>1. g[k] = Command(g[k - 1], frame[k]) /\ Sound(g[k - 1]) /\ frame[k] \in Commands
    BY <1>1, <1>11, <1>13
  <2>2. Sound(g[k])
    BY <2>1, CommandIsSound
  <2> QED BY <2>2
<1>14. n \in P
  <2> HIDE DEF P
  <2>1. \A k \in 0 .. n : k \in P
    BY <1>1, <1>12, <1>13, Induct
  <2> QED BY <1>1, <2>1
<1> QED BY <1>2, <1>14

-----------------------------------------------------------------------------
(* The package.                                                            *)

(* The package between two downlinks. *)
Rest == [session |-> session, dec |-> dec, used |-> used, told |-> told,
         answers |-> 0, delayed |-> FALSE, skip |-> FALSE]

(* A delay that was asked for is seen by the Process() that follows, which *)
(* starts its timer.                                                       *)
DelayHolds ==
  /\ owed => txDelay # "idle"
  /\ txDelay = "start" /\ pc = "idle" => timer > 0
  /\ txDelay = "start" /\ pc = "act" => seen = "start"

Invariant == TypeOK /\ SessionHolds(Rest) /\ DelayHolds

LEMMA RestIsState ==
  ASSUME TypeOK
  PROVE  /\ Rest \in States /\ Rest.session = session /\ Rest.dec = dec /\ Rest.used = used
         /\ Rest.told = told
BY DEF TypeOK, Rest, States

(* The invariant is about the package as it rests. *)
LEMMA PackageHolds ==
  ASSUME TypeOK
  PROVE  SessionHolds(Rest) <=>
           /\ told \in 0 .. 1
           /\ told > 0 => session.status = FRAG_SESSION_NOT_STARTED
           /\ session.active =>
                session.status = FRAG_SESSION_ONGOING \/ session.status >= 0 \/ told > 0
           /\ session.active /\ session.status = FRAG_SESSION_ONGOING =>
                told = 0 /\ Ongoing(dec, used)
           /\ (session.active /\ session.status >= 0) \/ told > 0 => Ended(dec, used)
BY RestIsState DEF SessionHolds

LEMMA InvariantInit == Init => Invariant
<1> SUFFICES ASSUME Init PROVE Invariant
  OBVIOUS
<1> DEFINE z == [r \in Rows |-> 0]
<1>1. FragNb \in Nat /\ FragNb >= 1
  BY RowsAreFinite
<1>2. dec \in DecoderType
  <2>1. z \in [Rows -> 0 .. FragNb] /\ [i \in Rows |-> {}] \in [Rows -> SUBSET Rows]
        /\ 0 \in 0 .. FragNb /\ 0 \in 0 .. FragNb + 1 /\ FALSE \in BOOLEAN
    BY <1>1
  <2>2. dec = [last |-> 0, lost |-> 0, missing |-> z, lines |-> [i \in Rows |-> {}],
               matrixError |-> FALSE, file |-> [r \in Rows |-> {}]]
    BY DEF Init, FragDecoderInit
  <2> HIDE DEF z
  <2> QED BY <2>1, <2>2 DEF DecoderType
<1>3. TypeOK
  <2>1. session \in [active : BOOLEAN, status : -2 .. FragNb]
    BY <1>1 DEF Init
  <2>2. {txDelay, seen} \subseteq {"idle", "start", "pending"} /\ timer = 0
        /\ owed \in BOOLEAN /\ pc \in {"idle", "read", "act"} /\ used \subseteq Counters
    BY Zenon DEF Init
  <2>3. told \in 0 .. 2
    BY DEF Init
  <2>4. 0 \in 0 .. TxDelayTime
    BY DelayAssumption
  <2> QED BY <1>2, <2>1, <2>2, <2>3, <2>4 DEF TypeOK
<1>4. SessionHolds(Rest)
  BY <1>3, PackageHolds DEF Init, FRAG_SESSION_ONGOING
<1> QED BY <1>3, <1>4 DEF Init, Invariant, DelayHolds

LEMMA InvariantStep == Invariant /\ [Next]_vars => Invariant'
<1> SUFFICES ASSUME Invariant, [Next]_vars PROVE Invariant'
  OBVIOUS
<1> USE DEF Invariant
<1>1. ASSUME UNCHANGED package
      PROVE  SessionHolds(Rest)'
  BY <1>1 DEF package, Rest, SessionHolds
<1>2. ASSUME NEW frame \in Frames, OnMcpsIndication(frame)
      PROVE  Invariant'
  <2> DEFINE st == Obeyed(Rest, frame)
  <2>1. Sound(Rest)
    BY RestIsState DEF Sound
  <2>2. Sound(st)
    BY <2>1, ObeyedIsSound, FramesAssumption
  <2>3. /\ pc = "idle" /\ pc' = "read" /\ timer' = timer /\ seen' = seen
        /\ session' = st.session /\ dec' = st.dec /\ used' = st.used /\ told' = st.told
        /\ IF st.answers > 0 /\ st.delayed
           THEN txDelay' = "start" /\ owed' = TRUE
           ELSE UNCHANGED <<txDelay, owed>>
    BY <1>2 DEF OnMcpsIndication, Rest
  <2> HIDE DEF st
  <2>4. TypeOK'
    BY <2>2, <2>3, StateFields DEF Sound, TypeOK
  <2>5. SessionHolds(Rest)'
    <3>1. /\ Rest'.session = st.session /\ Rest'.dec = st.dec /\ Rest'.used = st.used
          /\ Rest'.told = st.told
      BY <2>3 DEF Rest
    <3> QED BY <2>2, <3>1 DEF Sound, SessionHolds
  <2>6. DelayHolds'
    BY <2>3 DEF DelayHolds
  <2> QED BY <2>4, <2>5, <2>6
<1>3. ASSUME MacEvent
      PROVE  Invariant'
  BY <1>1, <1>3 DEF MacEvent, TypeOK, DelayHolds, package
<1>4. ASSUME ProcessReads
      PROVE  Invariant'
  BY <1>1, <1>4 DEF ProcessReads, TypeOK, DelayHolds, package
<1>5. ASSUME NEW sent \in BOOLEAN, ProcessSends(sent)
      PROVE  Invariant'
  <2>1. TypeOK'
    BY <1>5 DEF ProcessSends, TypeOK, package
  <2>2. DelayHolds'
    BY <1>5 DEF ProcessSends, DelayHolds, TypeOK
  <2> QED BY <2>1, <2>2, <1>1, <1>5 DEF ProcessSends
<1>6. ASSUME ProcessStartsTimer
      PROVE  Invariant'
  BY <1>1, <1>6, DelayAssumption DEF ProcessStartsTimer, TypeOK, DelayHolds, package
<1>7. ASSUME ProcessIdles
      PROVE  Invariant'
  BY <1>1, <1>7 DEF ProcessIdles, TypeOK, DelayHolds, package
<1>8. ASSUME OnFragmentTxDelay
      PROVE  Invariant'
  BY <1>1, <1>8, DelayAssumption DEF OnFragmentTxDelay, TypeOK, DelayHolds, package
<1>9. ASSUME TimePasses
      PROVE  Invariant'
  BY <1>1, <1>9, DelayAssumption DEF TimePasses, TypeOK, DelayHolds, package
<1>10. ASSUME UNCHANGED vars
      PROVE  Invariant'
  BY <1>1, <1>10 DEF vars, TypeOK, DelayHolds, package
<1> QED BY <1>2, <1>3, <1>4, <1>5, <1>6, <1>7, <1>8, <1>9, <1>10 DEF Next

THEOREM InvariantAlways == Spec => []Invariant
BY InvariantInit, InvariantStep, PTL DEF Spec

(* Every variable stays in its type. *)
THEOREM TypeCorrect == Spec => []TypeOK
<1>1. Invariant => TypeOK
  BY DEF Invariant
<1> QED BY <1>1, InvariantAlways, PTL

(* FragDecoderProcess() reports no file that it has not rebuilt row for    *)
(* row, for every number of rows and of coded fragments.                   *)
THEOREM FinishedIsWhole == Spec => []DoneIsWhole
<1>1. Invariant => DoneIsWhole
  BY PackageHolds DEF Invariant, DoneIsWhole, IsDone, Ended
<1> QED BY <1>1, InvariantAlways, PTL

(* It reports the file with the first coded fragment that determines it:   *)
(* the elimination drops nothing it needs.                                 *)
THEOREM FinishedWhenDetermined == Spec => []DoneWhenDetermined
<1>1. ASSUME Invariant
      PROVE  DoneWhenDetermined
  <2> SUFFICES ASSUME session.active, dec.last = FragNb + 1, used \ Rows # {}
               PROVE  dec.lost > FRAG_MAX_REDUNDANCY \/ (IsDone <=> Determine(used))
    BY DEF DoneWhenDetermined
  <2>1. dec \in DecoderType /\ used \in SUBSET Counters
    BY <1>1 DEF Invariant, TypeOK
  <2>2. CASE session.status = FRAG_SESSION_ONGOING
    <3>1. told = 0 /\ Ongoing(dec, used) /\ ~(session.status >= 0)
      BY <1>1, <2>2, PackageHolds DEF Invariant, FRAG_SESSION_ONGOING
    <3>2. ~Determine(used)
      BY <2>1, <3>1, CollectsUndetermined
    <3> QED BY <3>1, <3>2 DEF IsDone
  <2>3. CASE session.status # FRAG_SESSION_ONGOING
    BY <1>1, <2>3, PackageHolds DEF Invariant, IsDone, Ended
  <2> QED BY <2>2, <2>3
<1> QED BY <1>1, InvariantAlways, PTL

(* While it collects, the missing rows have the numbers 1..FragNbLost and  *)
(* the matrix says of the stored data what that data is.                   *)
THEOREM MatrixIsTrue == Spec => []MatrixMatchesFile
<1>1. ASSUME Invariant, ~IsDone, session.active
      PROVE  LET row(i) == FragFindMissingIndex(dec, i)
                 seenRows == {r \in Rows : r < dec.last}
             IN /\ {dec.missing[r] : r \in {x \in seenRows : x \notin used}} = 1 .. dec.lost
                /\ \A i \in S(dec) : dec.file[row(i)] = {row(j) : j \in dec.lines[i]}
  <2>1. dec \in DecoderType /\ Ongoing(dec, used)
    BY <1>1, PackageHolds DEF Invariant, IsDone, TypeOK
  <2>2. \A r \in Rows : r < dec.last /\ r \notin used <=> r \in Missed(dec, used)
    <3>1. dec.last \in Nat /\ \A r \in Rows : r \in Nat
      BY <2>1, DecoderFields
    <3> QED BY <3>1, <2>1 DEF Ongoing, Numbered, Missed, Seen
  <2>3. {x \in {r \in Rows : r < dec.last} : x \notin used} = Missed(dec, used)
    BY <2>2 DEF Missed, Seen
  <2>4. {dec.missing[r] : r \in Missed(dec, used)} = 1 .. dec.lost
    BY <2>1 DEF Ongoing, Numbered
  <2>5. \A i \in S(dec) : dec.file[Row(dec, i)] = RowsOf(dec, dec.lines[i])
    BY <2>1 DEF Ongoing, Triangular
  <2> QED BY <2>3, <2>4, <2>5 DEF Row, RowsOf
<1>2. Invariant => MatrixMatchesFile
  BY <1>1 DEF MatrixMatchesFile
<1> QED BY <1>2, InvariantAlways, PTL

(* OnDone() is called at most once between two setups. *)
THEOREM ToldOnce == Spec => []DoneIsToldOnce
<1>1. Invariant => DoneIsToldOnce
  BY PackageHolds DEF Invariant, DoneIsToldOnce
<1> QED BY <1>1, InvariantAlways, PTL

(* A delayed answer is never left without a timer or a Process() to send   *)
(* it, although the timer fires between two steps of Process().            *)
THEOREM AnswersAreKept == Spec => []AnswerIsOnItsWay
<1>1. Invariant => AnswerIsOnItsWay
  BY DEF Invariant, DelayHolds, AnswerIsOnItsWay
<1> QED BY <1>1, InvariantAlways, PTL
=============================================================================
