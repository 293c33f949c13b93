---------------------------- MODULE MCEventReplay ----------------------------
(* Small instances of EventReplay for TLC.                                    *)
EXTENDS EventReplay, TLC

ResumeSymmetry == Permutations(Resumes)
==============================================================================
