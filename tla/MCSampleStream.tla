--------------------------- MODULE MCSampleStream ---------------------------
(***************************************************************************)
(* Values for SampleStream: packets of 4 bytes, four samples in a packet   *)
(* (three where the code divides by three), all six formats.               *)
(***************************************************************************)
EXTENDS SampleStream

MCPoints == [k \in Kinds |-> CASE k \in {"normal", "hq"} -> 1 [] k = "ultra" -> 3 [] OTHER -> 4]
MCCabins == [k \in Kinds |-> CASE k = "ultradense" -> 2 [] k = "ultra" -> 1
                               [] k = "capsule" -> 2 [] k = "dense" -> 4 [] OTHER -> 1]
\* so that the second packet starts at 0, and the second one after 0
MCStarts == {360 * 64 - 2 * 1025, 340 * 64}
\* a sixty-fourth of a degree more than 16 degrees, and 40 degrees: too wide for the
\* dense formats
MCSteps == {16 * 64 + 1, 40 * 64}

\* a packet that starts one step after 0, and the lidar getting faster by the least
\* that the packets can express
MCAlignedStarts == {332 * 64}
MCSpeedUp == {16 * 64, 16 * 64 + 1}

MCGarbage == {[len |-> PacketSize + 1, loop |-> FALSE], [len |-> PacketSize, loop |-> TRUE]}
=============================================================================
