------------------------------ MODULE MCThredis ------------------------------
(* The multiplexed Redis connection with three threads.                      *)
EXTENDS Thredis
===============================================================================
