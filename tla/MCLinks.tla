------------------------------ MODULE MCLinks -------------------------------
\* Blocks of 2 bytes, targets of 1 to 5 bytes, words of 64 values, 4 ticks in a
\* second and 2 nanoseconds in a tick; times before, at and after the epoch.
EXTENDS Links, TLC

MCBytes == {"a", "b"} \X (1 .. 5)
Target(tag, n) == [k \in 1 .. n |-> <<tag, k>>]
MCTargets == {Target("a", n) : n \in 1 .. 5} \cup {Target("b", 2)}
MCTimes == {[sec |-> 0, nsec |-> 3], [sec |-> 3, nsec |-> 0], [sec |-> 5, nsec |-> 7]}

Symmetry == Permutations(Ids)
=============================================================================
