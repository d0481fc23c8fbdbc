-------------------------- MODULE MCServerLifecycle --------------------------
(* ServerLifecycle for TLC: two variables of one device, one read and written
   through the pool, the other one read by the caller. *)
EXTENDS ServerLifecycle

CONSTANTS t1, t2, w1, w2

MCMode == [v \in {"a", "b"} |-> [op \in Ops |->
  IF v = "a" THEN "async" ELSE IF op = "read" THEN "sync" ELSE "forbidden"]]
MCMutexOf == [v \in {"a", "b"} |-> [op \in Ops |-> "object"]]
MCAsks == [tx \in {"R", "W"} |->
  CASE tx = "R" -> <<[var |-> "a", op |-> "read"], [var |-> "b", op |-> "read"], [var |-> "a", op |-> "read"]>>
    [] tx = "W" -> <<[var |-> "b", op |-> "write"], [var |-> "a", op |-> "write"]>>]

=============================================================================
