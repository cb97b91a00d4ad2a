----------------------------- MODULE MCMetaCache -----------------------------
(* One file, its attributes in Redis and in the database.                    *)
EXTENDS MetaCache, TLC

\* Permissions and users are interchangeable.
Symmetry == Permutations(Perms) \cup Permutations(Uids)
===============================================================================
