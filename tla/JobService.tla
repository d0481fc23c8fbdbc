----------------------------- MODULE JobService -----------------------------
(***************************************************************************)
(* What Quasar::ThreadPool promises to its callers, without threads, lock  *)
(* or condition variable: a bounded first-in first-out service.  A job is  *)
(* accepted at most once, starts in the order of acceptance, runs at most  *)
(* once, and is discarded without having run only after the service was    *)
(* closed.  ThreadPool.tla is shown to implement this specification.       *)
(***************************************************************************)
EXTENDS Naturals, Sequences

CONSTANTS
  Jobs,     (* the job objects that callers may submit                     *)
  MaxJobs   (* how many accepted jobs may be pending at a time             *)

VARIABLES
  pending,  (* the accepted jobs that did not start, oldest first          *)
  status,   (* what became of every job                                    *)
  closed    (* the service was told to stop                                *)

svars == <<pending, status, closed>>

Statuses == {"absent", "pending", "running", "done", "discarded"}

Init ==
  /\ pending = <<>>
  /\ status = [j \in Jobs |-> "absent"]
  /\ closed = FALSE

(* A job joins the end of the queue if there is room for it. *)
Accept(j) ==
  /\ status[j] = "absent"
  /\ Len(pending) < MaxJobs
  /\ pending' = Append(pending, j)
  /\ status' = [status EXCEPT ![j] = "pending"]
  /\ UNCHANGED closed

(* The oldest pending job starts. *)
Start ==
  /\ pending # <<>>
  /\ pending' = Tail(pending)
  /\ status' = [status EXCEPT ![Head(pending)] = "running"]
  /\ UNCHANGED closed

(* A running job comes to its end, by returning or by throwing. *)
Finish(j) ==
  /\ status[j] = "running"
  /\ status' = [status EXCEPT ![j] = "done"]
  /\ UNCHANGED <<pending, closed>>

Close ==
  /\ closed' = TRUE
  /\ UNCHANGED <<pending, status>>

(* A closed service may drop what is still pending. *)
Discard ==
  /\ closed
  /\ pending # <<>>
  /\ pending' = Tail(pending)
  /\ status' = [status EXCEPT ![Head(pending)] = "discarded"]
  /\ UNCHANGED closed

Next ==
  \/ \E j \in Jobs : Accept(j) \/ Finish(j)
  \/ Start
  \/ Close
  \/ Discard

Spec == Init /\ [][Next]_svars

=============================================================================
