------------------------------ MODULE MCSession ------------------------------
(* Handlers over the pool; the cfg files give the constants their values.    *)
EXTENDS Session
===============================================================================
