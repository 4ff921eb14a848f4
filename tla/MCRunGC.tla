---- MODULE MCRunGC ----
EXTENDS RunGC, TLC
NoPrerequisite == <<>>
Symmetry == Permutations(Names) \cup Permutations(Replicas)
====
