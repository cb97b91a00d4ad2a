----------------------------- MODULE MCNamespace ------------------------------
EXTENDS Rename, TLC
CONSTANTS
  Folders,  \* names of folders that requests are made in
  Inner     \* names of entries in these folders
MCPaths == {<<>>} \cup {<<n>> : n \in Names} \cup {<<d, n>> : d \in Folders, n \in Inner}
Symmetry == Permutations(Ids)
===============================================================================
