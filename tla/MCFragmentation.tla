-------------------------- MODULE MCFragmentation --------------------------
(* Fragmentation for TLC: every fragment in any order, alone in its frame, *)
(* the other commands, and frames that mix delayed and immediate answers.  *)
EXTENDS Fragmentation

Data(c)     == [name |-> "data", counter |-> c]
Status(all) == [name |-> "status", all |-> all]
Cmd(name)   == [name |-> name]

MCFrames ==
  {<<Data(c)>> : c \in Counters} \cup
  {<<Status(TRUE)>>, <<Status(FALSE)>>, <<Cmd("version")>>, <<Cmd("setup")>>,
   <<Cmd("delete")>>, <<Cmd("version"), Status(TRUE)>>,
   <<Cmd("setup"), Status(TRUE)>>, <<Status(TRUE), Cmd("setup")>>,
   <<Cmd("delete"), Data(1), Status(TRUE)>>}
=============================================================================
