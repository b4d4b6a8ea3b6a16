------------------------ MODULE ArtifactLifecycleMC ------------------------
\* Small instances of ArtifactLifecycle for TLC.
EXTENDS ArtifactLifecycle, TLC

Symmetry == Permutations(Procs) \union Permutations(Keys)
=============================================================================
