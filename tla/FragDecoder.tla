---------------------------- MODULE FragDecoder ----------------------------
(***************************************************************************)
(* The decoder of the fragmentation package, packages/FragDecoder.c: it    *)
(* rebuilds a file of FragNb rows from the fragments 1..FragNb, which are  *)
(* the rows themselves, and from coded fragments, each the XOR of the rows *)
(* a pseudo random parity row names.                                       *)
(*                                                                         *)
(* What a row of the file holds is the set of source rows it is the XOR    *)
(* of, so XOR is symmetric difference, row r is recovered when it is {r},  *)
(* and an erased row is {}.  Rows count from 1, missing rows from 1 in the *)
(* order they were missed.                                                 *)
(***************************************************************************)
EXTENDS Integers, FiniteSets, FiniteSetsExt

CONSTANTS
  FragNb,                \* rows of the file, at most FRAG_MAX_NB, 21
  NbCoded,               \* coded fragments the server may send
  FRAG_MAX_REDUNDANCY    \* 5

ASSUME FragAssumption ==
  /\ FragNb \in Nat \ {0} /\ NbCoded \in Nat
  /\ FRAG_MAX_REDUNDANCY \in Nat

FRAG_SESSION_FINISHED    == 0
FRAG_SESSION_ONGOING     == -1
FRAG_SESSION_NOT_STARTED == -2

Rows     == 1 .. FragNb
Counters == 1 .. FragNb + NbCoded

Xor(a, b) == (a \ b) \cup (b \ a)

-----------------------------------------------------------------------------
(* The parity matrix: FragGetParityMatrixRow *)

FragPrbs23(x) ==
  (x \div 2) + (IF x % 2 = (x \div 32) % 2 THEN 0 ELSE 2^22)

IsPowerOfTwo(m) == \E k \in 0 .. 15 : m = 2^k

(* The next number that names a row, and the generator's state with it. *)
Draw[x \in Nat] ==
  LET y == FragPrbs23(x)
      r == y % (FragNb + (IF IsPowerOfTwo(FragNb) THEN 1 ELSE 0))
  IN IF r < FragNb THEN <<y, r + 1>> ELSE Draw[y]

(* A row drawn twice stays in the parity row. *)
FragGetParityMatrixRow(n) ==
  LET draws[k \in Nat] == IF k = 0 THEN <<1 + 1001 * n, 0>> ELSE Draw[draws[k - 1][1]]
  IN {r \in Rows : \E k \in 1 .. FragNb \div 2 : draws[k][2] = r}

ParityRow == [n \in 1 .. NbCoded |-> FragGetParityMatrixRow(n)]

(* The rows the fragment with this counter is the XOR of. *)
Content(counter) ==
  IF counter <= FragNb THEN {counter} ELSE ParityRow[counter - FragNb]

-----------------------------------------------------------------------------
(* The decoder: lines[i], the line of MatrixM2B for missing row i, is the  *)
(* set of missing rows it names, {} while S does not have it.              *)

FragDecoderInit ==
  [last  |-> 0,                           \* Status.FragNbLastRx
   lost  |-> 0,                           \* Status.FragNbLost
   missing |-> [r \in Rows |-> 1],        \* FragNbMissingIndex
   lines |-> [i \in Rows |-> {}],
   matrixError |-> FALSE,
   file  |-> [r \in Rows |-> {}]]

DecoderType ==
  [last : 0 .. FragNb + 1, lost : 0 .. FragNb, missing : [Rows -> 0 .. FragNb],
   lines : [Rows -> SUBSET Rows], matrixError : BOOLEAN,
   file : [Rows -> SUBSET Rows]]

S(d) == {i \in Rows : d.lines[i] # {}}

FragFindMissingIndex(d, i) == Min({r \in Rows : d.missing[r] = i})

(* The rows between the last fragment and this one are missing. *)
FragFindMissingFrags(d, counter) ==
  LET gap == (d.last + 1) .. Min({counter - 1, FragNb})
  IN [d EXCEPT
        !.lost = @ + Cardinality(gap),
        !.missing = [r \in Rows |-> IF r \in gap THEN d.lost + r - d.last ELSE @[r]],
        !.last = IF Max({@, counter - 1}) < FragNb THEN counter ELSE FragNb + 1]

Uncoded(d, counter) ==
  FragFindMissingFrags([d EXCEPT !.file[counter] = {counter},
                                 !.missing[counter] = 0], counter)

(* x, with the data of these rows of the file XORed to it one by one.      *)
XorRows(file, rows, x) ==
  LET upto[n \in 0 .. FragNb] ==
        IF n = 0 THEN x
        ELSE IF n \in rows THEN Xor(upto[n - 1], file[n]) ELSE upto[n - 1]
  IN upto[FragNb]

(* The fragment without the rows the file has: the missing rows it names   *)
(* and what is left of its data.                                           *)
Stripped(d, counter) ==
  LET row == Content(counter)
      had == {r \in row : d.missing[r] = 0}
  IN [line |-> {d.missing[r] : r \in row \ had},
      data |-> XorRows(d.file, had, row)]

(* Missing row i is eliminated if it is the first and a line has it first. *)
Eliminated(d, x, i) ==
  IF i \in S(d) /\ x.line # {} /\ Min(x.line) = i
  THEN [line |-> Xor(x.line, d.lines[i]),
        data |-> Xor(x.data, d.file[FragFindMissingIndex(d, i)])]
  ELSE x

Reduced(d, v) ==
  LET upto[i \in 0 .. d.lost] == IF i = 0 THEN v ELSE Eliminated(d, upto[i - 1], i)
  IN upto[d.lost]

(* FragPushLineToBinaryMatrix and SetRow: a new line, unless v says nothing *)
(* the lines do not.                                                       *)
Pushed(d, v) ==
  IF v.line = {} THEN d
  ELSE LET i == Min(v.line)
       IN [d EXCEPT !.lines[i] = v.line,
                    !.file[FragFindMissingIndex(d, i)] = v.data]

(* Back substitution of missing row i: what the file is after it. *)
Substituted(d, file, i) ==
  LET row(j) == FragFindMissingIndex(d, j)
  IN [file EXCEPT ![row(i)] = XorRows(file, {row(j) : j \in d.lines[i] \ {i}}, @)]

(* Mutant: from the first missing row to the last. *)
SolvedUpwards(d) ==
  LET after[k \in 0 .. d.lost - 1] ==
        IF k = 0 THEN d.file ELSE Substituted(d, after[k - 1], k)
  IN [d EXCEPT !.file = after[d.lost - 1]]

(* From the last missing row to the first. *)
Solved(d) ==
  LET after[k \in 0 .. d.lost - 1] ==
        IF k = 0 THEN d.file ELSE Substituted(d, after[k - 1], d.lost - k)
  IN [d EXCEPT !.file = after[d.lost - 1]]

(* Mutant: the matrix is taken to be full one line too early. *)
IsFullEarly(d) == Cardinality(S(d)) >= d.lost - 1

(* M2BLine == FragNbLost *)
IsFull(d) == Cardinality(S(d)) = d.lost

Coded(d, counter) ==
  IF d.lost > FRAG_MAX_REDUNDANCY
  THEN [dec |-> [d EXCEPT !.matrixError = TRUE], status |-> FRAG_SESSION_FINISHED]
  ELSE LET f == FragFindMissingFrags(d, counter)
           v == Stripped(f, counter)
           p == Pushed(f, Reduced(f, v))
       IN IF f.lost = 0 THEN [dec |-> f, status |-> f.lost]
          ELSE IF v.line = {} THEN [dec |-> f, status |-> FRAG_SESSION_ONGOING]
          ELSE IF ~IsFull(p) THEN [dec |-> p, status |-> FRAG_SESSION_ONGOING]
          ELSE [dec |-> Solved(p), status |-> p.lost]

IsOutOfOrder(d, counter) == counter < d.last

(* FragDecoderProcess(): the decoder it leaves and what it returns. *)
FragDecoderProcess(d, counter) ==
  IF IsOutOfOrder(d, counter) THEN [dec |-> d, status |-> FRAG_SESSION_ONGOING]
  ELSE IF counter <= FragNb
  THEN [dec |-> Uncoded(d, counter), status |-> FRAG_SESSION_ONGOING]
  ELSE Coded(d, counter)

IsWhole(d) == \A r \in Rows : d.file[r] = {r}

(* Reference: do these fragments determine the rows they do not hold?  They *)
(* do when no change of those rows leaves every one of them the same.      *)
Determine(counters) ==
  \A change \in (SUBSET (Rows \ counters)) \ {{}} :
    \E c \in counters : Cardinality(Content(c) \cap change) % 2 = 1
=============================================================================
