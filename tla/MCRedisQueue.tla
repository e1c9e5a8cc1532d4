---------------------------- MODULE MCRedisQueue ----------------------------
(* RedisQueue with jobs of two attempts.                                   *)
EXTENDS RedisQueue

MCSubmissions == {[wf |-> QueueName, max |-> 2]}
=============================================================================
