------------------------------ MODULE MCLearning ------------------------------
\* Instances of LearningLoop for TLC: every run is asked for the same session.
EXTENDS LearningLoop, TLC

MCSession(r) == "s1"
MCSymmetry == Permutations(Runs) \cup Permutations(Requests)
=============================================================================
