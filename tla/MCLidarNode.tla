----------------------------- MODULE MCLidarNode -----------------------------
(* The lidars and the parameters LidarNode is checked with. *)
EXTENDS LidarNode

\* An A1 with old firmware, an A2 and a lidar of the S series, whose motor
\* is controlled in three ways; an A2 that streams standard samples and does
\* not offer the mode asked for.
SomeDevices == {[ctrl |-> "none", conf |-> FALSE, std |-> FALSE, named |-> FALSE],
                [ctrl |-> "pwm", conf |-> TRUE, std |-> FALSE, named |-> TRUE],
                [ctrl |-> "pwm", conf |-> TRUE, std |-> TRUE, named |-> FALSE],
                [ctrl |-> "rpm", conf |-> TRUE, std |-> FALSE, named |-> TRUE]}

AllConfigs == Config
=============================================================================
