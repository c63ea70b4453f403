----------------------------- MODULE MCIOSched -----------------------------
(* Model values and bounds for the runs of IOSched. *)
EXTENDS IOSched, TLC

CONSTANTS t1, t2, t3

ThreeThreads == {t1, t2, t3}
TwoThreads == {t1, t2}
OneThread == {t1}

ThreadSymmetry == Permutations(ThreeThreads)
=============================================================================
