--------------------------- MODULE MCTimerServer ---------------------------
(***************************************************************************)
(* Instances of TimerServer for TLC.                                       *)
(***************************************************************************)
EXTENDS TimerServer, TLC

CONSTANTS a, b, c

ThreeTimers == {a, b, c}
TwoTimers == {a, b}

PeriodsOfThree == a :> 1 @@ b :> 3 @@ c :> 4
PeriodsOfTwo   == a :> 1 @@ b :> 3

StartsOfThree == a :> {a, b} @@ b :> {} @@ c :> {}
StartsOfTwo   == a :> {a, b} @@ b :> {}
=============================================================================
