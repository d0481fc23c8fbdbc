-------------------------- MODULE ThreadPoolProofs --------------------------
(***************************************************************************)
(* Theorems about ThreadPool for any number of workers, clients and jobs   *)
(* and any m_maxJobs: IInv is inductive, and the safety properties of the  *)
(* pool follow from it.                                                    *)
(***************************************************************************)
EXTENDS ThreadPool, TLAPS

USE DEF pool, jobs, WorkerPcs, ClientPcs, OwnerPcs

(* What popping and pushing do to the elements of a queue. *)
LEMMA TailElements ==
  ASSUME NEW S, NEW s \in Seq(S), s # <<>>
  PROVE  /\ 1 \in DOMAIN s /\ Head(s) = s[1] /\ s[1] \in S
         /\ Tail(s) \in Seq(S)
         /\ \A i \in DOMAIN Tail(s) : i + 1 \in DOMAIN s /\ i + 1 # 1 /\ Tail(s)[i] = s[i + 1]
         /\ DOMAIN Tail(s) \subseteq Nat
  OBVIOUS

LEMMA AppendElements ==
  ASSUME NEW S, NEW s \in Seq(S), NEW e \in S
  PROVE  /\ Append(s, e) \in Seq(S)
         /\ \A i \in DOMAIN Append(s, e) :
              \/ i = Len(s) + 1 /\ Append(s, e)[i] = e
              \/ i \in DOMAIN s /\ Append(s, e)[i] = s[i]
  OBVIOUS

LEMMA InitIInv == Init => IInv
<1> USE ThreadsAssumption, LockAssumption, JobsAssumption, MaxJobsAssumption
<1> SUFFICES ASSUME Init PROVE IInv
  OBVIOUS
<1>1. TypeOK
  <2>1. m_pendingJobs \in Seq(Jobs)
    BY DEF Init
  <2>2. executions \in [Jobs -> Nat] /\ deletions \in [Jobs -> Nat]
    BY DEF Init
  <2>3. wpc \in [Workers -> WorkerPcs] /\ cpc \in [Clients -> ClientPcs]
    BY DEF Init
  <2>4. hand \in [Workers -> Jobs \cup {NoJob}] /\ arg \in [Clients -> Jobs \cup {NoJob}]
    BY DEF Init
  <2> QED
    BY <2>1, <2>2, <2>3, <2>4 DEF Init, TypeOK
<1>2. LockInv /\ PointerInv /\ PlaceInv
  BY DEF Init, LockInv, PointerInv, PlaceInv
<1>3. CountInv /\ OwnerInv
  BY DEF Init, CountInv, OwnerInv, Untouched
<1>4. QueueBounded /\ NoLostWakeup
  BY DEF Init, QueueBounded, NoLostWakeup
<1> QED
  BY <1>1, <1>2, <1>3, <1>4 DEF IInv

-----------------------------------------------------------------------------
(* Type correctness is inductive once the pointers are known to be set where
   the code follows them. *)
LEMMA NextTypeOK == TypeOK /\ PointerInv /\ [Next]_vars => TypeOK'
<1> SUFFICES ASSUME TypeOK, PointerInv, [Next]_vars PROVE TypeOK'
  OBVIOUS
<1> USE DEF TypeOK
<1>1. ASSUME NEW w \in Workers, WorkerStep(w) PROVE TypeOK'
  <2>1. CASE CheckQuit(w)
    BY <2>1 DEF CheckQuit, WorkerGoes
  <2>2. CASE WorkerLocks(w)
    BY <2>2 DEF WorkerLocks, WorkerGoes
  <2>3. CASE TakeJob(w)
    BY <2>3 DEF TakeJob, WorkerGoes
  <2>4. CASE StartWaiting(w)
    BY <2>4 DEF StartWaiting, WorkerGoes
  <2>5. CASE Execute(w)
    BY <2>5 DEF Execute, WorkerGoes, PointerInv
  <2>6. CASE DeleteJob(w)
    BY <2>6 DEF DeleteJob, WorkerGoes, PointerInv
  <2>7. CASE Relock(w)
    BY <2>7 DEF Relock, WorkerGoes
  <2> QED
    BY <1>1, <2>1, <2>2, <2>3, <2>4, <2>5, <2>6, <2>7 DEF WorkerStep
<1>2. ASSUME NEW w \in Workers, SpuriousWakeup(w) PROVE TypeOK'
  BY <1>2 DEF SpuriousWakeup, WorkerGoes
<1>3. ASSUME NEW c \in Clients, ClientStep(c) PROVE TypeOK'
  <2>1. CASE ClientLocks(c)
    BY <2>1 DEF ClientLocks, ClientGoes
  <2>2. CASE RejectJob(c)
    BY <2>2 DEF RejectJob, ClientGoes
  <2>3. CASE PushJob(c)
    BY <2>3 DEF PushJob, ClientGoes, PointerInv
  <2>4. CASE NotifyOne(c)
    BY <2>4 DEF NotifyOne, ClientGoes, WorkerGoes
  <2> QED
    BY <1>3, <2>1, <2>2, <2>3, <2>4 DEF ClientStep
<1>4. ASSUME NEW c \in Clients, NEW j \in Jobs, CallAddJob(c, j) PROVE TypeOK'
  BY <1>4 DEF CallAddJob, ClientGoes
<1>5. CASE SetQuit
  BY <1>5 DEF SetQuit, OwnerGoes
<1>6. CASE OwnerStep
  <2>1. CASE NotifyAll
    BY <2>1 DEF NotifyAll, OwnerGoes
  <2>2. CASE Joined
    BY <2>2 DEF Joined, OwnerGoes
  <2>3. CASE FlushJob
    BY <2>3 DEF FlushJob, OwnerGoes
  <2>4. CASE Flushed
    BY <2>4 DEF Flushed, OwnerGoes
  <2> QED
    BY <1>6, <2>1, <2>2, <2>3, <2>4 DEF OwnerStep
<1>7. CASE UNCHANGED vars
  BY <1>7 DEF vars
<1> QED
  BY <1>1, <1>2, <1>3, <1>4, <1>5, <1>6, <1>7 DEF Next

(* Mutual exclusion: the lock has one holder, and the holder knows it. *)
LEMMA NextLockInv == IInv /\ [Next]_vars => LockInv'
<1> SUFFICES ASSUME IInv, [Next]_vars PROVE LockInv'
  OBVIOUS
<1> USE ThreadsAssumption, LockAssumption, JobsAssumption, MaxJobsAssumption
        DEF IInv, TypeOK, LockInv
<1>1. ASSUME NEW w \in Workers, WorkerStep(w) PROVE LockInv'
  <2>1. CASE CheckQuit(w)
    BY <2>1 DEF CheckQuit, WorkerGoes
  <2>2. CASE WorkerLocks(w)
    BY <2>2 DEF WorkerLocks, WorkerGoes
  <2>3. CASE TakeJob(w)
    BY <2>3 DEF TakeJob, WorkerGoes
  <2>4. CASE StartWaiting(w)
    BY <2>4 DEF StartWaiting, WorkerGoes
  <2>5. CASE Execute(w)
    BY <2>5 DEF Execute, WorkerGoes
  <2>6. CASE DeleteJob(w)
    BY <2>6 DEF DeleteJob, WorkerGoes
  <2>7. CASE Relock(w)
    BY <2>7 DEF Relock, WorkerGoes
  <2> QED
    BY <1>1, <2>1, <2>2, <2>3, <2>4, <2>5, <2>6, <2>7 DEF WorkerStep
<1>2. ASSUME NEW w \in Workers, SpuriousWakeup(w) PROVE LockInv'
  BY <1>2 DEF SpuriousWakeup, WorkerGoes
<1>3. ASSUME NEW c \in Clients, ClientStep(c) PROVE LockInv'
  <2>1. CASE ClientLocks(c)
    BY <2>1 DEF ClientLocks, ClientGoes
  <2>2. CASE RejectJob(c)
    BY <2>2 DEF RejectJob, ClientGoes
  <2>3. CASE PushJob(c)
    BY <2>3 DEF PushJob, ClientGoes
  <2>4. CASE NotifyOne(c)
    BY <2>4 DEF NotifyOne, ClientGoes, WorkerGoes
  <2> QED
    BY <1>3, <2>1, <2>2, <2>3, <2>4 DEF ClientStep
<1>4. ASSUME NEW c \in Clients, NEW j \in Jobs, CallAddJob(c, j) PROVE LockInv'
  BY <1>4 DEF CallAddJob, ClientGoes
<1>5. CASE SetQuit
  BY <1>5 DEF SetQuit, OwnerGoes
<1>6. CASE OwnerStep
  <2>1. CASE NotifyAll
    BY <2>1 DEF NotifyAll, OwnerGoes
  <2>2. CASE Joined
    BY <2>2 DEF Joined, OwnerGoes
  <2>3. CASE FlushJob
    BY <2>3 DEF FlushJob, OwnerGoes
  <2>4. CASE Flushed
    BY <2>4 DEF Flushed, OwnerGoes
  <2> QED
    BY <1>6, <2>1, <2>2, <2>3, <2>4 DEF OwnerStep
<1>7. CASE UNCHANGED vars
  BY <1>7 DEF vars
<1> QED
  BY <1>1, <1>2, <1>3, <1>4, <1>5, <1>6, <1>7 DEF Next

(* A job pointer is set on taking or creating a job and reset on giving it up. *)
LEMMA NextPointerInv == IInv /\ [Next]_vars => PointerInv'
<1> SUFFICES ASSUME IInv, [Next]_vars PROVE PointerInv'
  OBVIOUS
<1> USE ThreadsAssumption, LockAssumption, JobsAssumption, MaxJobsAssumption
        DEF IInv, TypeOK, PointerInv, LockInv
<1>1. ASSUME NEW w \in Workers, WorkerStep(w) PROVE PointerInv'
  <2>1. CASE CheckQuit(w)
    BY <2>1 DEF CheckQuit, WorkerGoes
  <2>2. CASE WorkerLocks(w)
    BY <2>2 DEF WorkerLocks, WorkerGoes
  <2>3. CASE TakeJob(w)
    BY <2>3 DEF TakeJob, WorkerGoes
  <2>4. CASE StartWaiting(w)
    BY <2>4 DEF StartWaiting, WorkerGoes
  <2>5. CASE Execute(w)
    BY <2>5 DEF Execute, WorkerGoes
  <2>6. CASE DeleteJob(w)
    BY <2>6 DEF DeleteJob, WorkerGoes
  <2>7. CASE Relock(w)
    BY <2>7 DEF Relock, WorkerGoes
  <2> QED
    BY <1>1, <2>1, <2>2, <2>3, <2>4, <2>5, <2>6, <2>7 DEF WorkerStep
<1>2. ASSUME NEW w \in Workers, SpuriousWakeup(w) PROVE PointerInv'
  BY <1>2 DEF SpuriousWakeup, WorkerGoes
<1>3. ASSUME NEW c \in Clients, ClientStep(c) PROVE PointerInv'
  <2>1. CASE ClientLocks(c)
    BY <2>1 DEF ClientLocks, ClientGoes
  <2>2. CASE RejectJob(c)
    BY <2>2 DEF RejectJob, ClientGoes
  <2>3. CASE PushJob(c)
    BY <2>3 DEF PushJob, ClientGoes
  <2>4. CASE NotifyOne(c)
    BY <2>4 DEF NotifyOne, ClientGoes, WorkerGoes
  <2> QED
    BY <1>3, <2>1, <2>2, <2>3, <2>4 DEF ClientStep
<1>4. ASSUME NEW c \in Clients, NEW j \in Jobs, CallAddJob(c, j) PROVE PointerInv'
  BY <1>4 DEF CallAddJob, ClientGoes
<1>5. CASE SetQuit
  BY <1>5 DEF SetQuit, OwnerGoes
<1>6. CASE OwnerStep
  <2>1. CASE NotifyAll
    BY <2>1 DEF NotifyAll, OwnerGoes
  <2>2. CASE Joined
    BY <2>2 DEF Joined, OwnerGoes
  <2>3. CASE FlushJob
    BY <2>3 DEF FlushJob, OwnerGoes
  <2>4. CASE Flushed
    BY <2>4 DEF Flushed, OwnerGoes
  <2> QED
    BY <1>6, <2>1, <2>2, <2>3, <2>4 DEF OwnerStep
<1>7. CASE UNCHANGED vars
  BY <1>7 DEF vars
<1> QED
  BY <1>1, <1>2, <1>3, <1>4, <1>5, <1>6, <1>7 DEF Next

(* A job moves from unborn to a client, to the queue, to a worker. *)
LEMMA NextPlaceInv == IInv /\ [Next]_vars => PlaceInv'
<1> SUFFICES ASSUME IInv, [Next]_vars PROVE PlaceInv'
  OBVIOUS
<1> USE ThreadsAssumption, LockAssumption, JobsAssumption, MaxJobsAssumption
        DEF IInv, TypeOK, PlaceInv, PointerInv, LockInv
<1>1. ASSUME NEW w \in Workers, WorkerStep(w) PROVE PlaceInv'
  <2>1. CASE CheckQuit(w)
    BY <2>1 DEF CheckQuit, WorkerGoes
  <2>2. CASE WorkerLocks(w)
    BY <2>2 DEF WorkerLocks, WorkerGoes
  <2>3. CASE TakeJob(w)
    <3>1. /\ hand[w] \notin Jobs
          /\ m_pendingJobs # <<>>
          /\ m_pendingJobs' = Tail(m_pendingJobs)
          /\ hand' = [hand EXCEPT ![w] = m_pendingJobs[1]]
          /\ UNCHANGED <<arg, unborn>>
      BY <2>3, TailElements DEF TakeJob, WorkerGoes
    <3>2. \A i \in DOMAIN m_pendingJobs' :
            i + 1 \in DOMAIN m_pendingJobs /\ i + 1 # 1 /\ m_pendingJobs'[i] = m_pendingJobs[i + 1]
      BY <3>1, TailElements
    <3>3. 1 \in DOMAIN m_pendingJobs /\ m_pendingJobs[1] \in Jobs
      BY <3>1, TailElements
    <3>4. \A i, k \in DOMAIN m_pendingJobs' : m_pendingJobs'[i] = m_pendingJobs'[k] => i = k
      <4>1. DOMAIN m_pendingJobs' \subseteq Nat
        BY <3>1, TailElements
      <4> QED
        BY <3>2, <4>1
    <3>5. \A i \in DOMAIN m_pendingJobs' :
            /\ m_pendingJobs'[i] \notin unborn'
            /\ \A x \in Workers : m_pendingJobs'[i] # hand'[x]
            /\ \A c \in Clients : m_pendingJobs'[i] # arg'[c]
      BY <3>1, <3>2, <3>3
    <3>6. \A x \in Workers : hand'[x] \notin unborn'
      BY <3>1, <3>3
    <3>7. \A x, y \in Workers : hand'[x] \in Jobs /\ hand'[x] = hand'[y] => x = y
      BY <3>1, <3>3
    <3>8. \A x \in Workers, c \in Clients : hand'[x] \in Jobs => hand'[x] # arg'[c]
      BY <3>1, <3>3
    <3> QED
      BY <3>1, <3>4, <3>5, <3>6, <3>7, <3>8
  <2>4. CASE StartWaiting(w)
    BY <2>4 DEF StartWaiting, WorkerGoes
  <2>5. CASE Execute(w)
    BY <2>5 DEF Execute, WorkerGoes
  <2>6. CASE DeleteJob(w)
    BY <2>6 DEF DeleteJob, WorkerGoes
  <2>7. CASE Relock(w)
    BY <2>7 DEF Relock, WorkerGoes
  <2> QED
    BY <1>1, <2>1, <2>2, <2>3, <2>4, <2>5, <2>6, <2>7 DEF WorkerStep
<1>2. ASSUME NEW w \in Workers, SpuriousWakeup(w) PROVE PlaceInv'
  BY <1>2 DEF SpuriousWakeup, WorkerGoes
<1>3. ASSUME NEW c \in Clients, ClientStep(c) PROVE PlaceInv'
  <2>1. CASE ClientLocks(c)
    BY <2>1 DEF ClientLocks, ClientGoes
  <2>2. CASE RejectJob(c)
    BY <2>2 DEF RejectJob, ClientGoes
  <2>3. CASE PushJob(c)
    <3>1. /\ arg[c] \in Jobs
          /\ m_pendingJobs' = Append(m_pendingJobs, arg[c])
          /\ arg' = [arg EXCEPT ![c] = NoJob]
          /\ UNCHANGED <<hand, unborn>>
      BY <2>3 DEF PushJob, ClientGoes
    <3>2. \A i \in DOMAIN m_pendingJobs' :
            \/ i = Len(m_pendingJobs) + 1 /\ m_pendingJobs'[i] = arg[c]
            \/ i \in DOMAIN m_pendingJobs /\ m_pendingJobs'[i] = m_pendingJobs[i]
      BY <3>1, AppendElements
    <3>3. \A i, k \in DOMAIN m_pendingJobs' : m_pendingJobs'[i] = m_pendingJobs'[k] => i = k
      BY <3>1, <3>2
    <3>4. \A i \in DOMAIN m_pendingJobs' :
            /\ m_pendingJobs'[i] \notin unborn'
            /\ \A x \in Workers : m_pendingJobs'[i] # hand'[x]
            /\ \A d \in Clients : m_pendingJobs'[i] # arg'[d]
      <4> SUFFICES ASSUME NEW i \in DOMAIN m_pendingJobs'
                   PROVE  /\ m_pendingJobs'[i] \notin unborn'
                          /\ \A x \in Workers : m_pendingJobs'[i] # hand'[x]
                          /\ \A d \in Clients : m_pendingJobs'[i] # arg'[d]
        OBVIOUS
      <4>1. CASE m_pendingJobs'[i] = arg[c]
        BY <3>1, <4>1
      <4>2. CASE i \in DOMAIN m_pendingJobs /\ m_pendingJobs'[i] = m_pendingJobs[i]
        <5>1. m_pendingJobs[i] \in Jobs
          BY <4>2
        <5> QED
          BY <3>1, <4>2, <5>1
      <4> QED
        BY <3>2, <4>1, <4>2
    <3> QED
      BY <3>1, <3>3, <3>4
  <2>4. CASE NotifyOne(c)
    BY <2>4 DEF NotifyOne, ClientGoes, WorkerGoes
  <2> QED
    BY <1>3, <2>1, <2>2, <2>3, <2>4 DEF ClientStep
<1>4. ASSUME NEW c \in Clients, NEW j \in Jobs, CallAddJob(c, j) PROVE PlaceInv'
  BY <1>4 DEF CallAddJob, ClientGoes
<1>5. CASE SetQuit
  BY <1>5 DEF SetQuit, OwnerGoes
<1>6. CASE OwnerStep
  <2>1. CASE NotifyAll
    BY <2>1 DEF NotifyAll, OwnerGoes
  <2>2. CASE Joined
    BY <2>2 DEF Joined, OwnerGoes
  <2>3. CASE FlushJob
    <3>1. /\ m_pendingJobs # <<>>
          /\ m_pendingJobs' = Tail(m_pendingJobs)
          /\ UNCHANGED <<hand, arg, unborn>>
      BY <2>3 DEF FlushJob, OwnerGoes
    <3>2. /\ DOMAIN m_pendingJobs' \subseteq Nat
          /\ \A i \in DOMAIN m_pendingJobs' :
               i + 1 \in DOMAIN m_pendingJobs /\ m_pendingJobs'[i] = m_pendingJobs[i + 1]
      BY <3>1, TailElements
    <3>3. \A i, k \in DOMAIN m_pendingJobs' : m_pendingJobs'[i] = m_pendingJobs'[k] => i = k
      BY <3>2
    <3> QED
      BY <3>1, <3>2, <3>3
  <2>4. CASE Flushed
    BY <2>4 DEF Flushed, OwnerGoes
  <2> QED
    BY <1>6, <2>1, <2>2, <2>3, <2>4 DEF OwnerStep
<1>7. CASE UNCHANGED vars
  BY <1>7 DEF vars
<1> QED
  BY <1>1, <1>2, <1>3, <1>4, <1>5, <1>6, <1>7 DEF Next

(* The counters of a job follow its place. *)
LEMMA NextCountInv == IInv /\ [Next]_vars => CountInv'
<1> SUFFICES ASSUME IInv, [Next]_vars PROVE CountInv'
  OBVIOUS
<1> USE ThreadsAssumption, LockAssumption, JobsAssumption, MaxJobsAssumption
        DEF IInv, TypeOK, CountInv, PlaceInv, PointerInv, Untouched
<1>1. ASSUME NEW w \in Workers, WorkerStep(w) PROVE CountInv'
  <2>1. CASE CheckQuit(w)
    BY <2>1 DEF CheckQuit, WorkerGoes
  <2>2. CASE WorkerLocks(w)
    BY <2>2 DEF WorkerLocks, WorkerGoes
  <2>3. CASE TakeJob(w)
    BY <2>3 DEF TakeJob, WorkerGoes
  <2>4. CASE StartWaiting(w)
    BY <2>4 DEF StartWaiting, WorkerGoes
  <2>5. CASE Execute(w)
    BY <2>5 DEF Execute, WorkerGoes
  <2>6. CASE DeleteJob(w)
    BY <2>6 DEF DeleteJob, WorkerGoes
  <2>7. CASE Relock(w)
    BY <2>7 DEF Relock, WorkerGoes
  <2> QED
    BY <1>1, <2>1, <2>2, <2>3, <2>4, <2>5, <2>6, <2>7 DEF WorkerStep
<1>2. ASSUME NEW w \in Workers, SpuriousWakeup(w) PROVE CountInv'
  BY <1>2 DEF SpuriousWakeup, WorkerGoes
<1>3. ASSUME NEW c \in Clients, ClientStep(c) PROVE CountInv'
  <2>1. CASE ClientLocks(c)
    BY <2>1 DEF ClientLocks, ClientGoes
  <2>2. CASE RejectJob(c)
    BY <2>2 DEF RejectJob, ClientGoes
  <2>3. CASE PushJob(c)
    BY <2>3 DEF PushJob, ClientGoes
  <2>4. CASE NotifyOne(c)
    BY <2>4 DEF NotifyOne, ClientGoes, WorkerGoes
  <2> QED
    BY <1>3, <2>1, <2>2, <2>3, <2>4 DEF ClientStep
<1>4. ASSUME NEW c \in Clients, NEW j \in Jobs, CallAddJob(c, j) PROVE CountInv'
  BY <1>4 DEF CallAddJob, ClientGoes
<1>5. CASE SetQuit
  BY <1>5 DEF SetQuit, OwnerGoes
<1>6. CASE OwnerStep
  <2>1. CASE NotifyAll
    BY <2>1 DEF NotifyAll, OwnerGoes
  <2>2. CASE Joined
    BY <2>2 DEF Joined, OwnerGoes
  <2>3. CASE FlushJob
    BY <2>3 DEF FlushJob, OwnerGoes
  <2>4. CASE Flushed
    BY <2>4 DEF Flushed, OwnerGoes
  <2> QED
    BY <1>6, <2>1, <2>2, <2>3, <2>4 DEF OwnerStep
<1>7. CASE UNCHANGED vars
  BY <1>7 DEF vars
<1> QED
  BY <1>1, <1>2, <1>3, <1>4, <1>5, <1>6, <1>7 DEF Next

(* The destructor flushes when nobody else is left. *)
LEMMA NextOwnerInv == IInv /\ [Next]_vars => OwnerInv'
<1> SUFFICES ASSUME IInv, [Next]_vars PROVE OwnerInv'
  OBVIOUS
<1> USE ThreadsAssumption, LockAssumption, JobsAssumption, MaxJobsAssumption
        DEF IInv, TypeOK, OwnerInv, LockInv
<1>1. ASSUME NEW w \in Workers, WorkerStep(w) PROVE OwnerInv'
  <2>1. CASE CheckQuit(w)
    BY <2>1 DEF CheckQuit, WorkerGoes
  <2>2. CASE WorkerLocks(w)
    BY <2>2 DEF WorkerLocks, WorkerGoes
  <2>3. CASE TakeJob(w)
    BY <2>3 DEF TakeJob, WorkerGoes
  <2>4. CASE StartWaiting(w)
    BY <2>4 DEF StartWaiting, WorkerGoes
  <2>5. CASE Execute(w)
    BY <2>5 DEF Execute, WorkerGoes
  <2>6. CASE DeleteJob(w)
    BY <2>6 DEF DeleteJob, WorkerGoes
  <2>7. CASE Relock(w)
    BY <2>7 DEF Relock, WorkerGoes
  <2> QED
    BY <1>1, <2>1, <2>2, <2>3, <2>4, <2>5, <2>6, <2>7 DEF WorkerStep
<1>2. ASSUME NEW w \in Workers, SpuriousWakeup(w) PROVE OwnerInv'
  BY <1>2 DEF SpuriousWakeup, WorkerGoes
<1>3. ASSUME NEW c \in Clients, ClientStep(c) PROVE OwnerInv'
  <2>1. CASE ClientLocks(c)
    BY <2>1 DEF ClientLocks, ClientGoes
  <2>2. CASE RejectJob(c)
    BY <2>2 DEF RejectJob, ClientGoes
  <2>3. CASE PushJob(c)
    BY <2>3 DEF PushJob, ClientGoes
  <2>4. CASE NotifyOne(c)
    BY <2>4 DEF NotifyOne, ClientGoes, WorkerGoes
  <2> QED
    BY <1>3, <2>1, <2>2, <2>3, <2>4 DEF ClientStep
<1>4. ASSUME NEW c \in Clients, NEW j \in Jobs, CallAddJob(c, j) PROVE OwnerInv'
  BY <1>4 DEF CallAddJob, ClientGoes
<1>5. CASE SetQuit
  BY <1>5 DEF SetQuit, OwnerGoes
<1>6. CASE OwnerStep
  <2>1. CASE NotifyAll
    BY <2>1 DEF NotifyAll, OwnerGoes
  <2>2. CASE Joined
    BY <2>2 DEF Joined, OwnerGoes
  <2>3. CASE FlushJob
    BY <2>3 DEF FlushJob, OwnerGoes
  <2>4. CASE Flushed
    BY <2>4 DEF Flushed, OwnerGoes
  <2> QED
    BY <1>6, <2>1, <2>2, <2>3, <2>4 DEF OwnerStep
<1>7. CASE UNCHANGED vars
  BY <1>7 DEF vars
<1> QED
  BY <1>1, <1>2, <1>3, <1>4, <1>5, <1>6, <1>7 DEF Next

(* PushJob is the only step that makes the queue longer. *)
LEMMA NextQueueBounded == IInv /\ [Next]_vars => QueueBounded'
<1> SUFFICES ASSUME IInv, [Next]_vars PROVE QueueBounded'
  OBVIOUS
<1> USE ThreadsAssumption, LockAssumption, JobsAssumption, MaxJobsAssumption
        DEF IInv, TypeOK, QueueBounded
<1>1. ASSUME NEW w \in Workers, WorkerStep(w) PROVE QueueBounded'
  <2>1. CASE CheckQuit(w)
    BY <2>1 DEF CheckQuit, WorkerGoes
  <2>2. CASE WorkerLocks(w)
    BY <2>2 DEF WorkerLocks, WorkerGoes
  <2>3. CASE TakeJob(w)
    BY <2>3 DEF TakeJob, WorkerGoes
  <2>4. CASE StartWaiting(w)
    BY <2>4 DEF StartWaiting, WorkerGoes
  <2>5. CASE Execute(w)
    BY <2>5 DEF Execute, WorkerGoes
  <2>6. CASE DeleteJob(w)
    BY <2>6 DEF DeleteJob, WorkerGoes
  <2>7. CASE Relock(w)
    BY <2>7 DEF Relock, WorkerGoes
  <2> QED
    BY <1>1, <2>1, <2>2, <2>3, <2>4, <2>5, <2>6, <2>7 DEF WorkerStep
<1>2. ASSUME NEW w \in Workers, SpuriousWakeup(w) PROVE QueueBounded'
  BY <1>2 DEF SpuriousWakeup, WorkerGoes
<1>3. ASSUME NEW c \in Clients, ClientStep(c) PROVE QueueBounded'
  <2>1. CASE ClientLocks(c)
    BY <2>1 DEF ClientLocks, ClientGoes
  <2>2. CASE RejectJob(c)
    BY <2>2 DEF RejectJob, ClientGoes
  <2>3. CASE PushJob(c)
    BY <2>3 DEF PushJob, ClientGoes
  <2>4. CASE NotifyOne(c)
    BY <2>4 DEF NotifyOne, ClientGoes, WorkerGoes
  <2> QED
    BY <1>3, <2>1, <2>2, <2>3, <2>4 DEF ClientStep
<1>4. ASSUME NEW c \in Clients, NEW j \in Jobs, CallAddJob(c, j) PROVE QueueBounded'
  BY <1>4 DEF CallAddJob, ClientGoes
<1>5. CASE SetQuit
  BY <1>5 DEF SetQuit, OwnerGoes
<1>6. CASE OwnerStep
  <2>1. CASE NotifyAll
    BY <2>1 DEF NotifyAll, OwnerGoes
  <2>2. CASE Joined
    BY <2>2 DEF Joined, OwnerGoes
  <2>3. CASE FlushJob
    BY <2>3 DEF FlushJob, OwnerGoes
  <2>4. CASE Flushed
    BY <2>4 DEF Flushed, OwnerGoes
  <2> QED
    BY <1>6, <2>1, <2>2, <2>3, <2>4 DEF OwnerStep
<1>7. CASE UNCHANGED vars
  BY <1>7 DEF vars
<1> QED
  BY <1>1, <1>2, <1>3, <1>4, <1>5, <1>6, <1>7 DEF Next

(* Whoever pushes notifies, and whoever waits has seen the queue empty. *)
LEMMA NextNoLostWakeup == IInv /\ [Next]_vars => NoLostWakeup'
<1> SUFFICES ASSUME IInv, [Next]_vars PROVE NoLostWakeup'
  OBVIOUS
<1> USE ThreadsAssumption, LockAssumption, JobsAssumption, MaxJobsAssumption
        DEF IInv, TypeOK, NoLostWakeup, OwnerInv
<1>1. ASSUME NEW w \in Workers, WorkerStep(w) PROVE NoLostWakeup'
  <2>1. CASE CheckQuit(w)
    BY <2>1 DEF CheckQuit, WorkerGoes
  <2>2. CASE WorkerLocks(w)
    BY <2>2 DEF WorkerLocks, WorkerGoes
  <2>3. CASE TakeJob(w)
    BY <2>3 DEF TakeJob, WorkerGoes
  <2>4. CASE StartWaiting(w)
    BY <2>4 DEF StartWaiting, WorkerGoes
  <2>5. CASE Execute(w)
    BY <2>5 DEF Execute, WorkerGoes
  <2>6. CASE DeleteJob(w)
    BY <2>6 DEF DeleteJob, WorkerGoes
  <2>7. CASE Relock(w)
    BY <2>7 DEF Relock, WorkerGoes
  <2> QED
    BY <1>1, <2>1, <2>2, <2>3, <2>4, <2>5, <2>6, <2>7 DEF WorkerStep
<1>2. ASSUME NEW w \in Workers, SpuriousWakeup(w) PROVE NoLostWakeup'
  BY <1>2 DEF SpuriousWakeup, WorkerGoes
<1>3. ASSUME NEW c \in Clients, ClientStep(c) PROVE NoLostWakeup'
  <2>1. CASE ClientLocks(c)
    BY <2>1 DEF ClientLocks, ClientGoes
  <2>2. CASE RejectJob(c)
    BY <2>2 DEF RejectJob, ClientGoes
  <2>3. CASE PushJob(c)
    BY <2>3 DEF PushJob, ClientGoes
  <2>4. CASE NotifyOne(c)
    BY <2>4 DEF NotifyOne, ClientGoes, WorkerGoes
  <2> QED
    BY <1>3, <2>1, <2>2, <2>3, <2>4 DEF ClientStep
<1>4. ASSUME NEW c \in Clients, NEW j \in Jobs, CallAddJob(c, j) PROVE NoLostWakeup'
  BY <1>4 DEF CallAddJob, ClientGoes
<1>5. CASE SetQuit
  BY <1>5 DEF SetQuit, OwnerGoes
<1>6. CASE OwnerStep
  <2>1. CASE NotifyAll
    BY <2>1 DEF NotifyAll, OwnerGoes
  <2>2. CASE Joined
    BY <2>2 DEF Joined, OwnerGoes
  <2>3. CASE FlushJob
    BY <2>3 DEF FlushJob, OwnerGoes
  <2>4. CASE Flushed
    BY <2>4 DEF Flushed, OwnerGoes
  <2> QED
    BY <1>6, <2>1, <2>2, <2>3, <2>4 DEF OwnerStep
<1>7. CASE UNCHANGED vars
  BY <1>7 DEF vars
<1> QED
  BY <1>1, <1>2, <1>3, <1>4, <1>5, <1>6, <1>7 DEF Next

-----------------------------------------------------------------------------
(* IInv holds in every reachable state of a pool of any size. *)
THEOREM PoolInvariant == Spec => []IInv
<1>1. IInv /\ [Next]_vars => IInv'
  <2>1. IInv => TypeOK /\ PointerInv
    BY DEF IInv
  <2> QED
    BY <2>1, NextTypeOK, NextLockInv, NextPointerInv, NextPlaceInv, NextCountInv,
       NextOwnerInv, NextQueueBounded, NextNoLostWakeup DEF IInv
<1> QED
  BY InitIInv, <1>1, PTL DEF Spec

(* Every variable of the pool keeps its type. *)
THEOREM PoolTypeCorrect == Spec => []TypeOK
<1>1. IInv => TypeOK
  BY DEF IInv
<1> QED
  BY PoolInvariant, <1>1, PTL

(* A job object is executed at most once and deleted at most once, and is not
   deleted while the queue or a worker that will use it still points to it. *)
THEOREM PoolHandlesJobsOnce == Spec => []JobsHandledOnce
<1>1. IInv => JobsHandledOnce
  BY DEF IInv, CountInv, Untouched, JobsHandledOnce, QueuedJobs
<1> QED
  BY PoolInvariant, <1>1, PTL

(* The queue never holds more than m_maxJobs jobs. *)
THEOREM PoolQueueBounded == Spec => []QueueBounded
<1>1. IInv => QueueBounded
  BY DEF IInv
<1> QED
  BY PoolInvariant, <1>1, PTL

(* A pending job of a living pool is never left to workers that all sleep. *)
THEOREM PoolLosesNoWakeup == Spec => []NoLostWakeup
<1>1. IInv => NoLostWakeup
  BY DEF IInv
<1> QED
  BY PoolInvariant, <1>1, PTL

(* A destroyed pool leaves no queued job and no executed job undeleted. *)
THEOREM PoolLeavesNothingBehind == Spec => []NothingLeftBehind
<1>1. ASSUME IInv PROVE NothingLeftBehind
  <2> SUFFICES ASSUME dpc = "gone"
               PROVE  m_pendingJobs = <<>> /\ \A j \in Jobs : executions[j] <= deletions[j]
    BY DEF NothingLeftBehind
  <2>1. m_pendingJobs = <<>> /\ \A w \in Workers : wpc[w] = "stopped"
    BY <1>1 DEF IInv, OwnerInv
  <2>2. \A j \in Jobs : ~(executions[j] > deletions[j])
    BY <1>1, <2>1 DEF IInv, CountInv
  <2> QED
    BY <1>1, <2>1, <2>2 DEF IInv, TypeOK
<1> QED
  BY PoolInvariant, <1>1, PTL

-----------------------------------------------------------------------------
(* ThreadPool implements JobService: every step of a thread is a step of the
   abstract service or invisible to it. *)

(* The jobs inside execute(). *)
Running == {hand[w] : w \in {x \in Workers : wpc[x] = "run"}}

LEMMA StatusByPlace ==
  ASSUME NEW j \in Jobs
  PROVE  StatusOf(j) = IF j \in QueuedJobs THEN "pending"
                       ELSE IF j \in Running THEN "running"
                       ELSE IF executions[j] > 0 THEN "done"
                       ELSE IF deletions[j] > 0 THEN "discarded" ELSE "absent"
  BY DEF StatusOf, Running

LEMMA StatusByPlaceNext ==
  ASSUME NEW j \in Jobs
  PROVE  StatusOf(j)' = IF j \in QueuedJobs' THEN "pending"
                        ELSE IF j \in Running' THEN "running"
                        ELSE IF executions'[j] > 0 THEN "done"
                        ELSE IF deletions'[j] > 0 THEN "discarded" ELSE "absent"
  BY DEF StatusOf, Running

(* A step that moves no job is invisible. *)
LEMMA Invisible ==
  ASSUME UNCHANGED <<m_pendingJobs, m_quit, executions, deletions>>, Running' = Running
  PROVE  UNCHANGED Service!svars
<1>1. QueuedJobs' = QueuedJobs
  BY DEF QueuedJobs
<1>2. \A j \in Jobs : StatusOf(j)' = StatusOf(j)
  BY <1>1, StatusByPlace, StatusByPlaceNext
<1> QED
  BY <1>2 DEF Service!svars

(* How the elements of the queue change. *)
LEMMA QueueSets ==
  ASSUME TypeOK, PlaceInv
  PROVE  /\ m_pendingJobs # <<>> /\ m_pendingJobs' = Tail(m_pendingJobs)
              => Head(m_pendingJobs) \in QueuedJobs /\ QueuedJobs' = QueuedJobs \ {Head(m_pendingJobs)}
         /\ \A e \in Jobs : m_pendingJobs' = Append(m_pendingJobs, e)
              => QueuedJobs' = QueuedJobs \cup {e}
<1>1. ASSUME m_pendingJobs # <<>>, m_pendingJobs' = Tail(m_pendingJobs)
      PROVE  Head(m_pendingJobs) \in QueuedJobs /\ QueuedJobs' = QueuedJobs \ {Head(m_pendingJobs)}
  <2>1. /\ 1 \in DOMAIN m_pendingJobs /\ Head(m_pendingJobs) = m_pendingJobs[1]
        /\ \A i \in DOMAIN m_pendingJobs' :
             i + 1 \in DOMAIN m_pendingJobs /\ i + 1 # 1 /\ m_pendingJobs'[i] = m_pendingJobs[i + 1]
    BY <1>1, TailElements DEF TypeOK
  <2>2. \A i \in DOMAIN m_pendingJobs :
          i = 1 \/ (i - 1 \in DOMAIN m_pendingJobs' /\ m_pendingJobs'[i - 1] = m_pendingJobs[i])
    BY <1>1 DEF TypeOK
  <2>3. QueuedJobs' \subseteq QueuedJobs \ {Head(m_pendingJobs)}
    BY <2>1 DEF QueuedJobs, PlaceInv
  <2>4. QueuedJobs \ {Head(m_pendingJobs)} \subseteq QueuedJobs'
    BY <2>1, <2>2 DEF QueuedJobs
  <2> QED
    BY <2>1, <2>3, <2>4 DEF QueuedJobs
<1>2. ASSUME NEW e \in Jobs, m_pendingJobs' = Append(m_pendingJobs, e)
      PROVE  QueuedJobs' = QueuedJobs \cup {e}
  <2>1. \A i \in DOMAIN m_pendingJobs' :
          \/ m_pendingJobs'[i] = e
          \/ i \in DOMAIN m_pendingJobs /\ m_pendingJobs'[i] = m_pendingJobs[i]
    BY <1>2, AppendElements DEF TypeOK
  <2>2. \A i \in DOMAIN m_pendingJobs :
          i \in DOMAIN m_pendingJobs' /\ m_pendingJobs'[i] = m_pendingJobs[i]
    BY <1>2 DEF TypeOK
  <2>3. Len(m_pendingJobs) + 1 \in DOMAIN m_pendingJobs' /\ m_pendingJobs'[Len(m_pendingJobs) + 1] = e
    BY <1>2 DEF TypeOK
  <2> QED
    BY <2>1, <2>2, <2>3 DEF QueuedJobs
<1> QED
  BY <1>1, <1>2

-----------------------------------------------------------------------------
LEMMA WorkerRefines ==
  ASSUME IInv, NEW w \in Workers, WorkerStep(w)
  PROVE  Service!Next \/ UNCHANGED Service!svars
<1> USE DEF IInv, TypeOK
<1>1. CASE CheckQuit(w) \/ WorkerLocks(w) \/ StartWaiting(w) \/ Relock(w)
  <2>1. Running' = Running
    BY <1>1 DEF CheckQuit, WorkerLocks, StartWaiting, Relock, WorkerGoes, Running
  <2>2. UNCHANGED <<m_pendingJobs, m_quit, executions, deletions>>
    BY <1>1 DEF CheckQuit, WorkerLocks, StartWaiting, Relock
  <2> QED
    BY <2>1, <2>2, Invisible
<1>2. CASE TakeJob(w)
  <2> DEFINE h == Head(m_pendingJobs)
  <2>1. /\ m_pendingJobs # <<>> /\ m_pendingJobs' = Tail(m_pendingJobs)
        /\ UNCHANGED <<m_quit, executions, deletions>>
    BY <1>2 DEF TakeJob
  <2>2. h \in QueuedJobs /\ QueuedJobs' = QueuedJobs \ {h} /\ h \in Jobs
    BY <2>1, QueueSets, TailElements
  <2>3. Running' = Running \cup {h}
    BY <1>2 DEF TakeJob, WorkerGoes, Running
  <2>4. \A j \in Jobs : StatusOf(j)' = IF j = h THEN "running" ELSE StatusOf(j)
    BY <2>1, <2>2, <2>3, StatusByPlace, StatusByPlaceNext
  <2>5. Service!Start
    BY <2>1, <2>2, <2>4 DEF Service!Start
  <2> QED
    BY <2>5 DEF Service!Next
<1>3. CASE Execute(w)
  <2> DEFINE h == hand[w]
  <2>1. /\ wpc[w] = "run" /\ h \in Jobs /\ executions' = [executions EXCEPT ![h] = @ + 1]
        /\ UNCHANGED <<m_pendingJobs, m_quit, deletions>>
    BY <1>3 DEF Execute, WorkerGoes, PointerInv
  <2>2. h \notin QueuedJobs /\ QueuedJobs' = QueuedJobs
    BY <2>1 DEF QueuedJobs, PlaceInv
  <2>3. h \in Running /\ Running' = Running \ {h}
    BY <1>3, <2>1 DEF Execute, WorkerGoes, Running, PlaceInv
  <2>c. executions'[h] > 0 /\ \A j \in Jobs \ {h} : executions'[j] = executions[j]
    BY <2>1
  <2>4. \A j \in Jobs : StatusOf(j)' = IF j = h THEN "done" ELSE StatusOf(j)
    <3> SUFFICES ASSUME NEW j \in Jobs PROVE StatusOf(j)' = IF j = h THEN "done" ELSE StatusOf(j)
      OBVIOUS
    <3>1. CASE j = h
      BY <2>2, <2>3, <2>c, <3>1, StatusByPlaceNext
    <3>2. CASE j # h
      BY <2>1, <2>2, <2>3, <2>c, <3>2, StatusByPlace, StatusByPlaceNext
    <3> QED
      BY <3>1, <3>2
  <2>5. StatusOf(h) = "running"
    BY <2>1, <2>2, <2>3, StatusByPlace
  <2>6. Service!Finish(h)
    BY <2>1, <2>4, <2>5 DEF Service!Finish
  <2> QED
    BY <2>1, <2>6 DEF Service!Next
<1>4. CASE DeleteJob(w)
  <2> DEFINE h == hand[w]
  <2>1. /\ wpc[w] = "delete" /\ h \in Jobs /\ deletions' = [deletions EXCEPT ![h] = @ + 1]
        /\ UNCHANGED <<m_pendingJobs, m_quit, executions>>
    BY <1>4 DEF DeleteJob, WorkerGoes, PointerInv
  <2>2. executions[h] = 1 /\ QueuedJobs' = QueuedJobs
    BY <2>1 DEF CountInv, QueuedJobs
  <2>3. Running' = Running
    BY <1>4 DEF DeleteJob, WorkerGoes, Running
  <2>c. executions[h] > 0 /\ h \notin Running /\ \A j \in Jobs \ {h} : deletions'[j] = deletions[j]
    BY <2>1, <2>2 DEF PlaceInv, Running
  <2>4. \A j \in Jobs : StatusOf(j)' = StatusOf(j)
    <3> SUFFICES ASSUME NEW j \in Jobs PROVE StatusOf(j)' = StatusOf(j)
      OBVIOUS
    <3>1. CASE j = h
      BY <2>1, <2>2, <2>3, <2>c, <3>1, StatusByPlace, StatusByPlaceNext
    <3>2. CASE j # h
      BY <2>1, <2>2, <2>3, <2>c, <3>2, StatusByPlace, StatusByPlaceNext
    <3> QED
      BY <3>1, <3>2
  <2> QED
    BY <2>1, <2>4 DEF Service!svars
<1> QED
  BY <1>1, <1>2, <1>3, <1>4 DEF WorkerStep

LEMMA ClientRefines ==
  ASSUME IInv, NEW c \in Clients, ClientStep(c)
  PROVE  Service!Next \/ UNCHANGED Service!svars
<1> USE DEF IInv, TypeOK
<1>1. CASE ClientLocks(c) \/ RejectJob(c) \/ NotifyOne(c)
  <2>1. Running' = Running
    BY <1>1 DEF ClientLocks, RejectJob, NotifyOne, WorkerGoes, Running
  <2>2. UNCHANGED <<m_pendingJobs, m_quit, executions, deletions>>
    BY <1>1 DEF ClientLocks, RejectJob, NotifyOne
  <2> QED
    BY <2>1, <2>2, Invisible
<1>2. CASE PushJob(c)
  <2> DEFINE a == arg[c]
  <2>1. /\ a \in Jobs /\ Untouched(a)
        /\ Len(m_pendingJobs) < MaxJobs /\ m_pendingJobs' = Append(m_pendingJobs, a)
        /\ UNCHANGED <<m_quit, executions, deletions, wpc, hand>>
    BY <1>2 DEF PushJob, ClientGoes, PointerInv, CountInv
  <2>q. a \notin QueuedJobs
    BY <2>1, <1>2 DEF PushJob, ClientGoes, QueuedJobs, PlaceInv
  <2>2. a \notin QueuedJobs /\ QueuedJobs' = QueuedJobs \cup {a}
    BY <2>1, <2>q, QueueSets
  <2>3. a \notin Running /\ Running' = Running
    BY <2>1 DEF Running, PlaceInv
  <2>4. \A j \in Jobs : StatusOf(j)' = IF j = a THEN "pending" ELSE StatusOf(j)
    BY <2>1, <2>2, <2>3, StatusByPlace, StatusByPlaceNext
  <2>5. StatusOf(a) = "absent"
    BY <2>1, <2>2, <2>3, StatusByPlace DEF Untouched
  <2>6. Service!Accept(a)
    BY <2>1, <2>4, <2>5 DEF Service!Accept
  <2> QED
    BY <2>1, <2>6 DEF Service!Next
<1> QED
  BY <1>1, <1>2 DEF ClientStep

LEMMA OwnerRefines ==
  ASSUME IInv, OwnerStep
  PROVE  Service!Next \/ UNCHANGED Service!svars
<1> USE DEF IInv, TypeOK
<1>1. CASE NotifyAll \/ Joined \/ Flushed
  <2>1. Running' = Running
    BY <1>1 DEF NotifyAll, Joined, Flushed, Running
  <2>2. UNCHANGED <<m_pendingJobs, m_quit, executions, deletions>>
    BY <1>1 DEF NotifyAll, Joined, Flushed
  <2> QED
    BY <2>1, <2>2, Invisible
<1>2. CASE FlushJob
  <2> DEFINE h == Head(m_pendingJobs)
  <2>1. /\ dpc = "flush" /\ m_pendingJobs # <<>> /\ m_pendingJobs' = Tail(m_pendingJobs)
        /\ deletions' = [deletions EXCEPT ![h] = @ + 1]
        /\ UNCHANGED <<m_quit, executions, wpc, hand>>
    BY <1>2 DEF FlushJob, OwnerGoes
  <2>2. h \in QueuedJobs /\ QueuedJobs' = QueuedJobs \ {h} /\ h \in Jobs
    BY <2>1, QueueSets, TailElements
  <2>3. executions[h] = 0 /\ deletions[h] = 0
    BY <2>2 DEF QueuedJobs, CountInv, Untouched
  <2>4. m_quit /\ Running = {} /\ Running' = {}
    BY <2>1 DEF OwnerInv, Running
  <2>c. deletions'[h] > 0 /\ \A j \in Jobs \ {h} : deletions'[j] = deletions[j]
    BY <2>1, <2>2
  <2>5. \A j \in Jobs : StatusOf(j)' = IF j = h THEN "discarded" ELSE StatusOf(j)
    <3> SUFFICES ASSUME NEW j \in Jobs PROVE StatusOf(j)' = IF j = h THEN "discarded" ELSE StatusOf(j)
      OBVIOUS
    <3>1. CASE j = h
      BY <2>1, <2>2, <2>3, <2>4, <2>c, <3>1, StatusByPlaceNext
    <3>2. CASE j # h
      BY <2>1, <2>2, <2>4, <2>c, <3>2, StatusByPlace, StatusByPlaceNext
    <3> QED
      BY <3>1, <3>2
  <2>6. Service!Discard
    BY <2>1, <2>2, <2>4, <2>5 DEF Service!Discard
  <2> QED
    BY <2>6 DEF Service!Next
<1> QED
  BY <1>1, <1>2 DEF OwnerStep

LEMMA StepRefines == IInv /\ [Next]_vars => [Service!Next]_(Service!svars)
<1> SUFFICES ASSUME IInv, [Next]_vars PROVE Service!Next \/ UNCHANGED Service!svars
  OBVIOUS
<1>1. ASSUME NEW w \in Workers, SpuriousWakeup(w) PROVE UNCHANGED Service!svars
  <2>1. Running' = Running
    BY <1>1 DEF SpuriousWakeup, WorkerGoes, Running, IInv, TypeOK
  <2> QED
    BY <1>1, <2>1, Invisible DEF SpuriousWakeup
<1>2. ASSUME NEW c \in Clients, NEW j \in Jobs, CallAddJob(c, j) PROVE UNCHANGED Service!svars
  <2>1. Running' = Running
    BY <1>2 DEF CallAddJob, Running
  <2> QED
    BY <1>2, <2>1, Invisible DEF CallAddJob
<1>3. ASSUME SetQuit PROVE Service!Close
  <2>1. \A j \in Jobs : StatusOf(j)' = StatusOf(j)
    BY <1>3 DEF SetQuit, StatusOf, QueuedJobs
  <2> QED
    BY <1>3, <2>1 DEF SetQuit, Service!Close
<1>4. ASSUME UNCHANGED vars PROVE UNCHANGED Service!svars
  <2>1. Running' = Running
    BY <1>4 DEF vars, Running
  <2> QED
    BY <1>4, <2>1, Invisible DEF vars
<1> QED
  BY <1>1, <1>2, <1>3, <1>4, WorkerRefines, ClientRefines, OwnerRefines DEF Next, Service!Next

LEMMA InitRefines == Init => Service!Init
<1> SUFFICES ASSUME Init PROVE Service!Init
  OBVIOUS
<1>1. QueuedJobs = {} /\ Running = {}
  BY DEF Init, QueuedJobs, Running
<1>2. \A j \in Jobs : StatusOf(j) = "absent"
  BY <1>1, StatusByPlace DEF Init
<1> QED
  BY <1>2 DEF Init, Service!Init

(* Whatever the threads do, callers of the pool see the bounded first-in
   first-out service that JobService describes. *)
THEOREM PoolImplementsService == Spec => ImplementsService
<1>1. Spec => Service!Init
  BY InitRefines DEF Spec
<1>2. Spec => [][Service!Next]_(Service!svars)
  BY PoolInvariant, StepRefines, PTL DEF Spec
<1> QED
  BY <1>1, <1>2 DEF ImplementsService, Service!Spec

=============================================================================
