----------------------------- MODULE LockstepAsset -----------------------------
(***************************************************************************)
(* What athrill promises the co-simulation as an asset, whatever its loop  *)
(* does inside: its clock moves only up to the world time, and the world   *)
(* time moves only while the asset keeps up with it.                       *)
(***************************************************************************)
EXTENDS Integers

CONSTANTS Mhz,      \* clocks in a microsecond
          MaxDelay  \* how far the world time may be ahead of an asset, in usec

VARIABLES clock, world

Init == clock = 0 /\ world = 0

\* The asset executes or skips clocks, never past the world time.
Run ==
    /\ clock' > clock
    /\ clock' <= world * Mhz
    /\ UNCHANGED world

\* The world time moves one step, at most MaxDelay ahead of the asset's real time.
Advance ==
    /\ world' = world + 1
    /\ world' <= clock \div Mhz + MaxDelay
    /\ UNCHANGED clock

\* A reset takes both back; the asset first.
ResetAsset == clock' = 0 /\ UNCHANGED world
ResetWorld == clock = 0 /\ world' = 0 /\ UNCHANGED clock

Next == Run \/ Advance \/ ResetAsset \/ ResetWorld
Spec == Init /\ [][Next]_<<clock, world>>
=============================================================================
