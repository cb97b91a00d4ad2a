-------------------------------- MODULE MCPool --------------------------------
(* The pool with the parts of its inductive invariant; the cfg files give    *)
(* the constants their values.                                               *)
EXTENDS PoolProofs
===============================================================================
