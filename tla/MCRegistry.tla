----------------------------- MODULE MCRegistry -----------------------------
EXTENDS RegistryProperties, TLC

CONSTANTS k1, k2, p, q

MCSymmetry == Permutations({k1, k2}) \cup Permutations({p, q})
=============================================================================
