---------------------------- MODULE MCModeration ----------------------------
EXTENDS Moderation, TLC
CONSTANTS m1, m2, eve, dan
PageSymmetry == Permutations(Moderators) \cup Permutations(Targets)
=============================================================================
