---------------------------- MODULE MCMatchImages ----------------------------
EXTENDS MatchImagesProperties, TLC

Symmetry == UNION {Permutations(s) : s \in {Entry, Dota, Object, ImageWorker, Caller}}
=============================================================================
