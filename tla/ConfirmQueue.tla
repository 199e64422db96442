---------------------------- MODULE ConfirmQueue ----------------------------
(***************************************************************************)
(* LoRaMacConfirmQueue.c: the MLME requests the MAC has accepted and not   *)
(* yet confirmed, as a sequence (the ring buffer read from BufferStart).   *)
(* An element holds the request, whether its status is OK, and whether its *)
(* confirm may be delivered (ReadyToHandle).                               *)
(***************************************************************************)
EXTENDS Naturals, Sequences, FiniteSets

CONSTANTS Requests, QueueLen

ASSUME QueueLenAssumption == QueueLen \in Nat \ {0}

Element == [request: Requests, ok: BOOLEAN, ready: BOOLEAN]

QueueOK(q) == q \in Seq(Element) /\ Len(q) <= QueueLen

IsFull(q) == Len(q) >= QueueLen

Add(q, request) ==
  IF IsFull(q) THEN q
  ELSE Append(q, [request |-> request, ok |-> FALSE, ready |-> FALSE])

Positions(q, request) == {i \in DOMAIN q : q[i].request = request}

IsCmdActive(q, request) == Positions(q, request) # {}

(* GetElement: the oldest element of the request. *)
Oldest(q, request) ==
  CHOOSE i \in Positions(q, request) : \A j \in Positions(q, request) : i <= j

GetStatus(q, request) == IsCmdActive(q, request) /\ q[Oldest(q, request)].ok

SetStatus(q, request, ok) ==
  IF IsCmdActive(q, request)
  THEN [q EXCEPT ![Oldest(q, request)].ok = ok, ![Oldest(q, request)].ready = TRUE]
  ELSE q

SetStatusCmn(q, ok) == [i \in DOMAIN q |-> [q[i] EXCEPT !.ok = ok, !.ready = TRUE]]

(* HandleCb: the ready elements are confirmed and leave the queue, the     *)
(* others are put back in their order.                                     *)
Kept(q) == {i \in DOMAIN q : ~q[i].ready}
Waiting(q) ==
  [k \in 1 .. Cardinality(Kept(q)) |->
     q[CHOOSE i \in Kept(q) : Cardinality({j \in Kept(q) : j <= i}) = k]]
=============================================================================
