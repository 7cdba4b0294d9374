------------------------------ MODULE MCServer ------------------------------
(* Instances of Server for TLC: two executors with one thread each, and the  *)
(* listeners in the order of VariableServiceImpl::StartListening.            *)
EXTENDS Server

CONSTANTS t0, t1

MCExecutorOf == [t \in Threads |-> IF t = t1 THEN 1 ELSE 0]
MCServices   == <<"Write", "Read", "Del">>
=============================================================================
