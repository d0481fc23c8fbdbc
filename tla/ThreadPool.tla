----------------------------- MODULE ThreadPool -----------------------------
(***************************************************************************)
(* Quasar::ThreadPool (Common/src/QuasarThreadPool.cpp): worker threads    *)
(* that take jobs from a bounded queue guarded by m_accessLock and wait on *)
(* m_conditionVariable while it is empty, callers of addJob, and the owner *)
(* that destroys the pool.  The constructor is Init.                       *)
(*                                                                         *)
(* Every thread has a program counter; a step is what a thread does        *)
(* between two points where another thread can interfere.  A thread waits  *)
(* on m_conditionVariable exactly while its counter is "waiting".  m_quit  *)
(* is read and written without the lock in the code: a racing read sees    *)
(* the old or the new value, which are the two orders of the two steps.    *)
(***************************************************************************)
EXTENDS Naturals, Sequences

CONSTANTS
  Workers,  (* the threads of m_workers                                    *)
  Clients,  (* the threads that call addJob                                *)
  Jobs,     (* the ThreadPoolJob objects the callers create                *)
  MaxJobs,  (* m_maxJobs                                                   *)
  NoJob,    (* a null ThreadPoolJob pointer                                *)
  Free      (* m_accessLock is not held                                    *)

ASSUME ThreadsAssumption == Workers \cap Clients = {}
ASSUME LockAssumption    == Free \notin Workers \cup Clients
ASSUME JobsAssumption    == NoJob \notin Jobs
ASSUME MaxJobsAssumption == MaxJobs \in Nat

VARIABLES
  lock,           (* the holder of m_accessLock                            *)
  m_quit,
  m_pendingJobs,
  wpc,            (* where each worker is in work()                        *)
  hand,           (* the local variable job of each worker                 *)
  cpc,            (* where each client is in addJob()                      *)
  arg,            (* the job each client is submitting                     *)
  dpc,            (* where the owner is in ~ThreadPool()                   *)
  unborn,         (* the jobs no caller has created yet                    *)
  executions,     (* how often execute() of each job has been called       *)
  deletions       (* how often each job has been deleted                   *)

pool == <<lock, m_quit, m_pendingJobs>>
jobs == <<unborn, executions, deletions>>
vars == <<pool, wpc, hand, cpc, arg, dpc, jobs>>

WorkerPcs == {"check", "lock", "locked", "run", "delete", "waiting", "wake", "stopped"}
ClientPcs == {"idle", "lock", "locked", "notify"}
OwnerPcs  == {"alive", "quit", "join", "flush", "gone"}

QueuedJobs == {m_pendingJobs[i] : i \in DOMAIN m_pendingJobs}

Init ==
  /\ lock = Free
  /\ m_quit = FALSE
  /\ m_pendingJobs = <<>>
  /\ wpc = [w \in Workers |-> "check"]
  /\ hand = [w \in Workers |-> NoJob]
  /\ cpc = [c \in Clients |-> "idle"]
  /\ arg = [c \in Clients |-> NoJob]
  /\ dpc = "alive"
  /\ unborn = Jobs
  /\ executions = [j \in Jobs |-> 0]
  /\ deletions = [j \in Jobs |-> 0]

-----------------------------------------------------------------------------
(* work(), run by every worker *)

WorkerGoes(w, from, to) == wpc[w] = from /\ wpc' = [wpc EXCEPT ![w] = to]

(* The loop condition, read without the lock: leave work() or go on. *)
CheckQuit(w) ==
  /\ WorkerGoes(w, "check", IF m_quit THEN "stopped" ELSE "lock")
  /\ UNCHANGED <<pool, hand, cpc, arg, dpc, jobs>>

WorkerLocks(w) ==
  /\ WorkerGoes(w, "lock", "locked")
  /\ lock = Free
  /\ lock' = w
  /\ UNCHANGED <<m_quit, m_pendingJobs, hand, cpc, arg, dpc, jobs>>

(* Mutant: front() without pop(). *)
TakeJob_NoPop(w) ==
  /\ WorkerGoes(w, "locked", "run")
  /\ m_pendingJobs # <<>>
  /\ hand' = [hand EXCEPT ![w] = Head(m_pendingJobs)]
  /\ lock' = Free
  /\ UNCHANGED <<m_quit, m_pendingJobs, cpc, arg, dpc, jobs>>

(* Mutant: the youngest job first. *)
TakeJob_FromBack(w) ==
  /\ WorkerGoes(w, "locked", "run")
  /\ m_pendingJobs # <<>>
  /\ hand' = [hand EXCEPT ![w] = m_pendingJobs[Len(m_pendingJobs)]]
  /\ m_pendingJobs' = SubSeq(m_pendingJobs, 1, Len(m_pendingJobs) - 1)
  /\ lock' = Free
  /\ UNCHANGED <<m_quit, cpc, arg, dpc, jobs>>

(* Under the lock: pop the oldest job and unlock ... *)
TakeJob(w) ==
  /\ WorkerGoes(w, "locked", "run")
  /\ m_pendingJobs # <<>>
  /\ hand' = [hand EXCEPT ![w] = Head(m_pendingJobs)]
  /\ m_pendingJobs' = Tail(m_pendingJobs)
  /\ lock' = Free
  /\ UNCHANGED <<m_quit, cpc, arg, dpc, jobs>>

(* ... or, if there is none, unlock and start to wait in one step. *)
StartWaiting(w) ==
  /\ WorkerGoes(w, "locked", "waiting")
  /\ m_pendingJobs = <<>>
  /\ lock' = Free
  /\ UNCHANGED <<m_quit, m_pendingJobs, hand, cpc, arg, dpc, jobs>>

(* Mutant: what execute() throws ends the worker. *)
Execute_Uncaught(w) ==
  /\ wpc[w] = "run"
  /\ \E to \in {"delete", "stopped"} : wpc' = [wpc EXCEPT ![w] = to]
  /\ executions' = [executions EXCEPT ![hand[w]] = @ + 1]
  /\ UNCHANGED <<pool, hand, cpc, arg, dpc, unborn, deletions>>

(* job->execute() is called and comes back; what it throws is caught. *)
Execute(w) ==
  /\ WorkerGoes(w, "run", "delete")
  /\ executions' = [executions EXCEPT ![hand[w]] = @ + 1]
  /\ UNCHANGED <<pool, hand, cpc, arg, dpc, unborn, deletions>>

DeleteJob(w) ==
  /\ WorkerGoes(w, "delete", "check")
  /\ deletions' = [deletions EXCEPT ![hand[w]] = @ + 1]
  /\ hand' = [hand EXCEPT ![w] = NoJob]
  /\ UNCHANGED <<pool, cpc, arg, dpc, unborn, executions>>

(* wait() may return without a notification. *)
SpuriousWakeup(w) ==
  /\ WorkerGoes(w, "waiting", "wake")
  /\ UNCHANGED <<pool, hand, cpc, arg, dpc, jobs>>

(* A woken worker gets the lock back inside wait() and gives it up at the
   end of the loop body, where nothing is left to do under it. *)
Relock(w) ==
  /\ WorkerGoes(w, "wake", "check")
  /\ lock = Free
  /\ UNCHANGED <<pool, hand, cpc, arg, dpc, jobs>>

-----------------------------------------------------------------------------
(* addJob(), run by every client *)

ClientGoes(c, from, to) == cpc[c] = from /\ cpc' = [cpc EXCEPT ![c] = to]

(* A caller creates a job and calls addJob.  Assumed of the owner: no call
   is made, and none is in flight, once the workers have been joined. *)
CallAddJob(c, j) ==
  /\ ClientGoes(c, "idle", "lock")
  /\ dpc \in {"alive", "quit", "join"}
  /\ j \in unborn
  /\ unborn' = unborn \ {j}
  /\ arg' = [arg EXCEPT ![c] = j]
  /\ UNCHANGED <<pool, wpc, hand, dpc, executions, deletions>>

ClientLocks(c) ==
  /\ ClientGoes(c, "lock", "locked")
  /\ lock = Free
  /\ lock' = c
  /\ UNCHANGED <<m_quit, m_pendingJobs, wpc, hand, arg, dpc, jobs>>

(* The pool is full: the job is neither kept nor deleted. *)
RejectJob(c) ==
  /\ ClientGoes(c, "locked", "idle")
  /\ Len(m_pendingJobs) >= MaxJobs
  /\ lock' = Free
  /\ arg' = [arg EXCEPT ![c] = NoJob]
  /\ UNCHANGED <<m_quit, m_pendingJobs, wpc, hand, dpc, jobs>>

PushJob(c) ==
  /\ ClientGoes(c, "locked", "notify")
  /\ Len(m_pendingJobs) < MaxJobs
  /\ m_pendingJobs' = Append(m_pendingJobs, arg[c])
  /\ lock' = Free
  /\ arg' = [arg EXCEPT ![c] = NoJob]
  /\ UNCHANGED <<m_quit, wpc, hand, dpc, jobs>>

(* Mutant: addJob returns without notify_one(). *)
NotifyOne_Silent(c) ==
  /\ ClientGoes(c, "notify", "idle")
  /\ UNCHANGED <<wpc, pool, hand, arg, dpc, jobs>>

(* notify_one() wakes one of the waiting workers, if any, and addJob
   returns Good. *)
NotifyOne(c) ==
  /\ ClientGoes(c, "notify", "idle")
  /\ IF \E w \in Workers : wpc[w] = "waiting"
     THEN \E w \in Workers : WorkerGoes(w, "waiting", "wake")
     ELSE UNCHANGED wpc
  /\ UNCHANGED <<pool, hand, arg, dpc, jobs>>

-----------------------------------------------------------------------------
(* ~ThreadPool(), run by the owner *)

OwnerGoes(from, to) == dpc = from /\ dpc' = to

(* m_quit is set without taking the lock. *)
SetQuit ==
  /\ OwnerGoes("alive", "quit")
  /\ m_quit' = TRUE
  /\ UNCHANGED <<lock, m_pendingJobs, wpc, hand, cpc, arg, jobs>>

NotifyAll ==
  /\ OwnerGoes("quit", "join")
  /\ wpc' = [w \in Workers |-> IF wpc[w] = "waiting" THEN "wake" ELSE wpc[w]]
  /\ UNCHANGED <<pool, hand, cpc, arg, jobs>>

(* Mutant: only one of the workers is joined. *)
Joined_OneWorker ==
  /\ OwnerGoes("join", "flush")
  /\ \E w \in Workers : wpc[w] = "stopped"
  /\ \A c \in Clients : cpc[c] = "idle"
  /\ UNCHANGED <<pool, wpc, hand, cpc, arg, jobs>>

(* join() of every worker returns.  That no call of addJob() is in flight any
   more is up to the owner: the destructor does not look. *)
Joined ==
  /\ OwnerGoes("join", "flush")
  /\ \A w \in Workers : wpc[w] = "stopped"
  /\ \A c \in Clients : cpc[c] = "idle"
  /\ UNCHANGED <<pool, wpc, hand, cpc, arg, jobs>>

(* A job nobody took is deleted without having been executed. *)
FlushJob ==
  /\ OwnerGoes("flush", "flush")
  /\ m_pendingJobs # <<>>
  /\ m_pendingJobs' = Tail(m_pendingJobs)
  /\ deletions' = [deletions EXCEPT ![Head(m_pendingJobs)] = @ + 1]
  /\ UNCHANGED <<lock, m_quit, wpc, hand, cpc, arg, unborn, executions>>

Flushed ==
  /\ OwnerGoes("flush", "gone")
  /\ m_pendingJobs = <<>>
  /\ UNCHANGED <<pool, wpc, hand, cpc, arg, jobs>>

-----------------------------------------------------------------------------
WorkerStep(w) ==
  \/ CheckQuit(w)
  \/ WorkerLocks(w)
  \/ TakeJob(w)
  \/ StartWaiting(w)
  \/ Execute(w)
  \/ DeleteJob(w)
  \/ Relock(w)

(* What a client does once it has called addJob. *)
ClientStep(c) ==
  \/ ClientLocks(c)
  \/ RejectJob(c)
  \/ PushJob(c)
  \/ NotifyOne(c)

(* What the destructor does once it has begun. *)
OwnerStep ==
  \/ NotifyAll
  \/ Joined
  \/ FlushJob
  \/ Flushed

Next ==
  \/ \E w \in Workers : WorkerStep(w) \/ SpuriousWakeup(w)
  \/ \E c \in Clients : ClientStep(c) \/ \E j \in Jobs : CallAddJob(c, j)
  \/ SetQuit
  \/ OwnerStep

Spec == Init /\ [][Next]_vars

(* Threads are scheduled, execute() returns and the mutex is handed on: each
   worker, each call of addJob and the destructor keep making steps.  Nothing
   makes a caller call, the owner destroy, or a wait() return on its own. *)
Fairness ==
  /\ \A w \in Workers : WF_vars(WorkerStep(w)) /\ SF_vars(WorkerLocks(w) \/ Relock(w))
  /\ \A c \in Clients : WF_vars(ClientStep(c)) /\ SF_vars(ClientLocks(c))
  /\ WF_vars(OwnerStep)

FairSpec == Spec /\ Fairness

-----------------------------------------------------------------------------
TypeOK ==
  /\ lock \in Workers \cup Clients \cup {Free}
  /\ m_quit \in BOOLEAN
  /\ m_pendingJobs \in Seq(Jobs)
  /\ wpc \in [Workers -> WorkerPcs]
  /\ hand \in [Workers -> Jobs \cup {NoJob}]
  /\ cpc \in [Clients -> ClientPcs]
  /\ arg \in [Clients -> Jobs \cup {NoJob}]
  /\ dpc \in OwnerPcs
  /\ unborn \in SUBSET Jobs
  /\ executions \in [Jobs -> Nat]
  /\ deletions \in [Jobs -> Nat]

(* No job is executed twice or deleted twice, and a job some thread can still
   reach, in the queue or in a worker's hand, has not been deleted: work()
   (QuasarThreadPool.cpp:64-78) and the flush of the destructor (48-54)
   between them dispose of every job object exactly once. *)
JobsHandledOnce ==
  /\ \A j \in Jobs : executions[j] <= 1 /\ deletions[j] <= 1
  /\ \A j \in QueuedJobs : executions[j] = 0 /\ deletions[j] = 0
  /\ \A w \in Workers :
       /\ wpc[w] = "run" => executions[hand[w]] = 0 /\ deletions[hand[w]] = 0
       /\ wpc[w] = "delete" => deletions[hand[w]] = 0

(* The queue never grows beyond m_maxJobs (QuasarThreadPool.cpp:91), however
   the calls of addJob interleave. *)
QueueBounded == Len(m_pendingJobs) <= MaxJobs

(* No lost wakeup while the pool works: when a job is pending and no caller
   still has to notify, some worker is on its way to look at the queue or busy
   with a job after which it looks (QuasarThreadPool.cpp:61-98). *)
NoLostWakeup ==
  ( /\ m_pendingJobs # <<>>
    /\ ~m_quit
    /\ \A c \in Clients : cpc[c] # "notify"
    /\ Workers # {} )
      => \E w \in Workers : wpc[w] \notin {"waiting", "stopped"}

(* Once the destructor is through, every job that was executed was deleted
   too, also when it was running while the destructor began, and no job is
   queued: nothing is left behind (QuasarThreadPool.cpp:44-54,78). *)
NothingLeftBehind ==
  dpc = "gone" => /\ m_pendingJobs = <<>>
                  /\ \A j \in Jobs : executions[j] <= deletions[j]

(* A job accepted by a pool that is not being destroyed is executed in the
   end, whatever the other jobs do (QuasarThreadPool.cpp:59-84). *)
AcceptedJobsRun ==
  \A j \in Jobs : (j \in QueuedJobs) ~> (executions[j] = 1 \/ m_quit)

(* The destructor comes back: "Stopping threadpool - this might take some
   time", "all threads are stopped now" (QuasarThreadPool.cpp:41-47). *)
DestructorReturns == (dpc = "join") ~> (dpc = "gone")

-----------------------------------------------------------------------------
(* The inductive invariant from which JobsHandledOnce, NoLostWakeup and
   NothingLeftBehind are proved (ThreadPoolProofs). *)

(* Exactly the threads inside a critical section hold the lock. *)
LockInv ==
  /\ \A w \in Workers : wpc[w] = "locked" <=> lock = w
  /\ \A c \in Clients : cpc[c] = "locked" <=> lock = c

(* A local job pointer is set exactly while its thread owns a job. *)
PointerInv ==
  /\ \A w \in Workers : hand[w] \in Jobs <=> wpc[w] \in {"run", "delete"}
  /\ \A c \in Clients : arg[c] \in Jobs <=> cpc[c] \in {"lock", "locked"}

(* A job is in one place at a time. *)
PlaceInv ==
  /\ \A i, k \in DOMAIN m_pendingJobs : m_pendingJobs[i] = m_pendingJobs[k] => i = k
  /\ \A i \in DOMAIN m_pendingJobs :
       /\ m_pendingJobs[i] \notin unborn
       /\ \A w \in Workers : m_pendingJobs[i] # hand[w]
       /\ \A c \in Clients : m_pendingJobs[i] # arg[c]
  /\ \A w \in Workers : hand[w] \notin unborn
  /\ \A c \in Clients : arg[c] \notin unborn
  /\ \A w, x \in Workers : hand[w] \in Jobs /\ hand[w] = hand[x] => w = x
  /\ \A c, d \in Clients : arg[c] \in Jobs /\ arg[c] = arg[d] => c = d
  /\ \A w \in Workers, c \in Clients : hand[w] \in Jobs => hand[w] # arg[c]

(* What the place of a job says about its past. *)
Untouched(j) == executions[j] = 0 /\ deletions[j] = 0

CountInv ==
  /\ \A j \in Jobs : executions[j] <= 1 /\ deletions[j] <= 1
  /\ \A j \in unborn : Untouched(j)
  /\ \A i \in DOMAIN m_pendingJobs : Untouched(m_pendingJobs[i])
  /\ \A c \in Clients : cpc[c] \in {"lock", "locked"} => Untouched(arg[c])
  /\ \A w \in Workers : wpc[w] = "run" => Untouched(hand[w])
  /\ \A w \in Workers : wpc[w] = "delete" => executions[hand[w]] = 1 /\ deletions[hand[w]] = 0
  /\ \A j \in Jobs : executions[j] > deletions[j]
                       => \E w \in Workers : wpc[w] = "delete" /\ hand[w] = j

(* How far the destructor is, and what has stopped by then. *)
OwnerInv ==
  /\ m_quit <=> dpc # "alive"
  /\ \A w \in Workers : wpc[w] = "stopped" => m_quit
  /\ dpc \in {"flush", "gone"} => /\ \A w \in Workers : wpc[w] = "stopped"
                                  /\ \A c \in Clients : cpc[c] = "idle"
  /\ dpc = "gone" => m_pendingJobs = <<>>

IInv ==
  /\ TypeOK
  /\ LockInv
  /\ PointerInv
  /\ PlaceInv
  /\ CountInv
  /\ OwnerInv
  /\ QueueBounded
  /\ NoLostWakeup

-----------------------------------------------------------------------------
(* The pool as its callers see it. *)
StatusOf(j) ==
  IF j \in QueuedJobs THEN "pending"
  ELSE IF \E w \in Workers : wpc[w] = "run" /\ hand[w] = j THEN "running"
  ELSE IF executions[j] > 0 THEN "done"
  ELSE IF deletions[j] > 0 THEN "discarded"
  ELSE "absent"

Service == INSTANCE JobService WITH
  pending <- m_pendingJobs,
  status  <- [j \in Jobs |-> StatusOf(j)],
  closed  <- m_quit

(* The pool implements the bounded first-in first-out service of JobService:
   jobs start in the order in which addJob accepted them, run at most once,
   and none is discarded before the destructor has set m_quit. *)
ImplementsService == Service!Spec

=============================================================================
