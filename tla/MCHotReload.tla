----------------------------- MODULE MCHotReload ----------------------------
EXTENDS HotReload, TLC

Symmetry ==
    Permutations(Hosts) \cup Permutations(Plans) \cup Permutations(Scopes) \cup Permutations(Frames)
=============================================================================
