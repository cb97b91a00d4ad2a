------------------------------- MODULE MCXattrs -------------------------------
EXTENDS Xattrs, TLC

Symmetry == Permutations(Workers) \cup Permutations(Values)
===============================================================================
