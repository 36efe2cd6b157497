------------------------------- MODULE MCIcp -------------------------------
(* An instance of Icp for model checking: scans of nine rays over 80 degrees. *)
EXTENDS Icp

MCMinTheta == -40
MCTurns == {-10, 0}

\* Scans of a corner: the readings rise and fall along them, so that the jumps
\* leave out nearer ones, and some are missing.
MCScans == {s \in [1 .. 9 -> {0, 2, 3, 5, 7, 8}] :
              /\ s[1] = 5 /\ s[2] \in {3, 8} /\ s[3] = 7 /\ s[4] \in {0, 8} /\ s[5] \in {0, 2}
              /\ s[6] = 0 /\ s[7] = 0 /\ s[8] = 0 /\ s[9] \in {0, 8}}

Plain == [use_corr_tricks |-> FALSE, do_alpha_test |-> FALSE, do_visibility_test |-> FALSE,
          outliers_remove_doubles |-> TRUE, use_point_to_line_distance |-> TRUE, restart |-> FALSE]
\* What laser_scan_matcher sets by default, with the tests that are off there.
MCParamSets ==
    {[Plain EXCEPT !.use_corr_tricks = TRUE, !.do_alpha_test = TRUE],
     [Plain EXCEPT !.do_alpha_test = TRUE],
     [Plain EXCEPT !.use_corr_tricks = TRUE, !.do_visibility_test = TRUE, !.restart = TRUE]}
=============================================================================
