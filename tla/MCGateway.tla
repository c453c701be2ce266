------------------------------ MODULE MCGateway ------------------------------
(***************************************************************************)
(* An instance of Gateway for TLC.                                         *)
(***************************************************************************)
EXTENDS Gateway, Integers, TLC

CONSTANTS c1, c2, p1, p2, j1, j2, k1, k2, b1, r1, w1, w2

\* An old and a new binary.
MCProcesses == {"old", "new"}
MCKnown     == ("old" :> 1) @@ ("new" :> 2)

\* A second is two units, the hour six, a word sixteen.
MCCodes == {200, 302, 404, 408, 429, 503}
MCAsked == {-1, 0, 1, 2, 4, 9, 17}
MCDates == {-2, 3, 40}

=============================================================================
