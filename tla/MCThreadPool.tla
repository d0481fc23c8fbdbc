---------------------------- MODULE MCThreadPool ----------------------------
(* ThreadPool for TLC.  The threads and jobs are model values, without
   symmetry, which would be unsound for the liveness properties. *)
EXTENDS ThreadPool

=============================================================================
