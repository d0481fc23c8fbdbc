--------------------------- MODULE SourceVariables ---------------------------
(***************************************************************************)
(* Reads and writes of source variables.  A variable has a manager         *)
(* (ASSourceVariableIoManager) that remembers the transaction it is called *)
(* for and makes a job of each item: an asynchronous one goes to the       *)
(* thread pool, of which JobService says what it promises, a synchronous   *)
(* one is executed by the thread of the stack that called.  The job calls  *)
(* the device under the mutex the design names and answers through the     *)
(* stack's callback (designToSourceVariablesBody.jinja).                   *)
(*                                                                         *)
(* The stack is modelled by how it calls the managers: a transaction names *)
(* itself to every manager it needs and then begins its items in order.    *)
(***************************************************************************)
EXTENDS Naturals, Sequences, FiniteSets

CONSTANTS
  Variables,     (* the source variables                                   *)
  Mode,          (* of reads and writes of each: "async", "sync", "forbidden" *)
  MutexOf,       (* the mutex of reads and writes of each, or None         *)
  Transactions,
  Asks,          (* the items of each transaction, as [var, op]            *)
  Overlap,       (* may two transactions call one manager at a time?       *)
  Threads,       (* of the stack                                           *)
  Workers,       (* of the pool                                            *)
  MaxJobs,       (* maxJobs                                                *)
  None

Ops == {"read", "write"}
Items == UNION {{tx} \X DOMAIN Asks[tx] : tx \in Transactions}
Mutexes == {MutexOf[v][op] : v \in Variables, op \in Ops} \ {None}
Performers == Threads \cup Workers

ASSUME SourceAssumption ==
  /\ Mode \in [Variables -> [Ops -> {"async", "sync", "forbidden"}]]
  /\ DOMAIN MutexOf = Variables
  /\ \A tx \in Transactions : Asks[tx] \in Seq([var : Variables, op : Ops]) /\ Asks[tx] # <<>>
  /\ Overlap \in BOOLEAN /\ MaxJobs \in Nat
  /\ Threads \cap Workers = {}
  /\ None \notin Variables \cup Transactions \cup Performers \cup Items

VARIABLES
  serving,      (* the endpoints are open                                  *)
  pool,         (* sourceVariableThreads: "none", "up" or "gone" (again null) *)
  linked,       (* the address space's pointers to the devices             *)
  crashed,      (* the process used a pool that is no more                 *)
  transaction,  (* m_transaction of each manager                           *)
  handle,       (* m_callbackHandle of each manager                        *)
  call,         (* the item each thread of the stack is at                 *)
  at,           (* ... and where                                           *)
  doing,        (* the job each thread or worker executes                  *)
  phase,        (* ... and where                                           *)
  holder,       (* of each mutex                                           *)
  address,      (* m_hTransaction and m_callbackHandle of each job         *)
  returned,     (* what beginRead() or beginWrite() returned for each item *)
  answers,      (* the calls of finishRead() and finishWrite()             *)
  pending, status, closed   (* of JobService                               *)

lvars == <<serving, pool, linked, crashed>>
managers == <<transaction, handle>>
stack == <<call, at, returned>>
jobs == <<doing, phase, holder, answers>>
service == <<pending, status, closed>>
svars == <<lvars, managers, stack, jobs, address, service>>

Pool == INSTANCE JobService WITH Jobs <- Items

SInit ==
  /\ serving = FALSE /\ pool = "none" /\ linked = FALSE /\ crashed = FALSE
  /\ transaction = [v \in Variables |-> None] /\ handle = [v \in Variables |-> 0]
  /\ call = [t \in Threads |-> None] /\ at = [t \in Threads |-> "idle"]
  /\ doing = [p \in Performers |-> None] /\ phase = [p \in Performers |-> "idle"]
  /\ holder = [m \in Mutexes |-> None]
  /\ address = [item \in Items |-> None]
  /\ returned = [item \in Items |-> "not yet"]
  /\ answers = {}
  /\ Pool!Init

Ask(item) == Asks[item[1]][item[2]]
ModeOf(item) == Mode[Ask(item).var][Ask(item).op]
Lock(item) == MutexOf[Ask(item).var][Ask(item).op]
VarsOf(tx) == {Asks[tx][i].var : i \in DOMAIN Asks[tx]}
Begun(tx) == returned[<<tx, 1>>] # "not yet" \/ \E t \in Threads : call[t] # None /\ call[t][1] = tx

-----------------------------------------------------------------------------
(* beginTransaction() of the managers of all items. *)
BeginTransaction(t, tx) ==
  /\ serving /\ at[t] = "idle" /\ ~Begun(tx)
  /\ ~Overlap => \A u \in Threads : call[u] # None => VarsOf(call[u][1]) \cap VarsOf(tx) = {}
  /\ transaction' = [v \in Variables |-> IF v \in VarsOf(tx) THEN tx ELSE transaction[v]]
  /\ call' = [call EXCEPT ![t] = <<tx, 1>>]
  /\ at' = [at EXCEPT ![t] = "item"]
  /\ UNCHANGED <<lvars, handle, returned, jobs, address, service>>

(* beginRead() or beginWrite() returns; then comes the next item, or
   finishTransaction(), which does nothing. *)
Return(t, what) ==
  LET item == call[t]  last == item[2] = Len(Asks[item[1]]) \/ what = "exception" IN
  /\ returned' = [returned EXCEPT ![item] = what]
  /\ call' = [call EXCEPT ![t] = IF last THEN None ELSE <<item[1], item[2] + 1>>]
  /\ at' = [at EXCEPT ![t] = IF last THEN "idle" ELSE "item"]

(* beginRead() or beginWrite(): first m_callbackHandle is stored ... *)
BeginItem(t) ==
  /\ at[t] = "item"
  /\ handle' = [handle EXCEPT ![Ask(call[t]).var] = call[t][2]]
  /\ IF ModeOf(call[t]) = "forbidden" THEN Return(t, "bad")
     ELSE at' = [at EXCEPT ![t] = "spawn"] /\ UNCHANGED <<call, returned>>
  /\ UNCHANGED <<lvars, transaction, jobs, address, service>>

(* ... then a job is made from what stands in the manager, if there is a pool. *)
Spawn(t) ==
  LET item == call[t]  v == Ask(item).var IN
  /\ at[t] = "spawn"
  /\ IF pool # "up" THEN Return(t, "exception") /\ UNCHANGED <<address, doing, phase>>
     ELSE /\ address' = [address EXCEPT ![item] = <<transaction[v], handle[v]>>]
          /\ at' = [at EXCEPT ![t] = IF ModeOf(item) = "async" THEN "add" ELSE "execute"]
          /\ doing' = IF ModeOf(item) = "async" THEN doing ELSE [doing EXCEPT ![t] = item]
          /\ phase' = IF ModeOf(item) = "async" THEN phase ELSE [phase EXCEPT ![t] = "reach"]
          /\ UNCHANGED <<call, returned>>
  /\ UNCHANGED <<lvars, managers, holder, answers, service>>

(* addJob(): on the pool the pointer points to now. *)
AddJob(t) ==
  /\ at[t] = "add"
  /\ \/ /\ pool = "up"
        /\ \/ Pool!Accept(call[t]) /\ Return(t, "good")
           \/ Len(pending) >= MaxJobs /\ Return(t, "bad") /\ UNCHANGED service
        /\ UNCHANGED crashed
     \/ /\ pool = "gone"
        /\ crashed' = TRUE
        /\ UNCHANGED <<stack, service>>
  /\ UNCHANGED <<serving, pool, linked, managers, jobs, address>>

-----------------------------------------------------------------------------
(* A worker takes the next job; one that looked at m_quit before it was set
   does so even while the pool closes. *)
TakeJob(w) ==
  /\ doing[w] = None /\ pool = "up"
  /\ Pool!Start
  /\ doing' = [doing EXCEPT ![w] = Head(pending)]
  /\ phase' = [phase EXCEPT ![w] = "reach"]
  /\ UNCHANGED <<lvars, managers, stack, holder, answers, address>>

(* execute(): a written value must have the variable's type, and the node a
   device. *)
ReachDevice(p) ==
  /\ phase[p] = "reach"
  /\ \/ linked /\ phase' = [phase EXCEPT ![p] = "lock"]
     \/ (~linked \/ Ask(doing[p]).op = "write") /\ phase' = [phase EXCEPT ![p] = "answer"]
  /\ UNCHANGED <<lvars, managers, stack, doing, holder, answers, address, service>>

LockDevice(p) ==
  /\ phase[p] = "lock"
  /\ IF Lock(doing[p]) = None THEN UNCHANGED holder
     ELSE holder[Lock(doing[p])] = None /\ holder' = [holder EXCEPT ![Lock(doing[p])] = p]
  /\ phase' = [phase EXCEPT ![p] = "call"]
  /\ UNCHANGED <<lvars, managers, stack, doing, answers, address, service>>

(* Mutant: an exception leaves the function before the mutex is released. *)
CallDevice_NoCatch(p, out) ==
  /\ phase[p] = "call"
  /\ holder' = IF out = "throws" THEN holder
               ELSE [m \in Mutexes |-> IF m = Lock(doing[p]) THEN None ELSE holder[m]]
  /\ phase' = [phase EXCEPT ![p] = "answer"]
  /\ UNCHANGED <<lvars, managers, stack, doing, answers, address, service>>

(* The device's read or write function returns or throws; both end with the
   mutex released. *)
CallDevice(p, out) ==
  /\ phase[p] = "call"
  /\ holder' = [m \in Mutexes |-> IF m = Lock(doing[p]) THEN None ELSE holder[m]]
  /\ phase' = [phase EXCEPT ![p] = "answer"]
  /\ UNCHANGED <<lvars, managers, stack, doing, answers, address, service>>

(* Mutant: the job asks the manager whom to answer. *)
Address_OfManager(job) == <<transaction[Ask(job).var], handle[Ask(job).var]>>

(* What the job was given when it was made. *)
Address(job) == address[job]

(* finishRead() or finishWrite(); then a worker is done with the job, and a
   synchronous call returns. *)
Answer(p) ==
  /\ phase[p] = "answer"
  /\ answers' = answers \cup {[job |-> doing[p], to |-> Address(doing[p])]}
  /\ doing' = [doing EXCEPT ![p] = None]
  /\ phase' = [phase EXCEPT ![p] = "idle"]
  /\ IF p \in Workers THEN Pool!Finish(doing[p]) /\ UNCHANGED stack
     ELSE Return(p, "good") /\ UNCHANGED service
  /\ UNCHANGED <<lvars, managers, holder, address>>

StackStep(t) ==
  \/ \E tx \in Transactions : BeginTransaction(t, tx)
  \/ BeginItem(t) \/ Spawn(t) \/ AddJob(t)

JobStep(p) ==
  ReachDevice(p) \/ LockDevice(p) \/ (\E out \in {"returns", "throws"} : CallDevice(p, out)) \/ Answer(p)

-----------------------------------------------------------------------------
STypeOK ==
  /\ {serving, linked, crashed, closed} \subseteq BOOLEAN /\ pool \in {"none", "up", "gone"}
  /\ transaction \in [Variables -> Transactions \cup {None}]
  /\ handle \in [Variables -> Nat]
  /\ call \in [Threads -> Items \cup {None}]
  /\ at \in [Threads -> {"idle", "item", "spawn", "add", "execute"}]
  /\ \A t \in Threads : (at[t] = "idle") = (call[t] = None)
  /\ doing \in [Performers -> Items \cup {None}]
  /\ phase \in [Performers -> {"idle", "reach", "lock", "call", "answer"}]
  /\ \A p \in Performers : (phase[p] = "idle") = (doing[p] = None)
  /\ holder \in [Mutexes -> Performers \cup {None}]
  /\ returned \in [Items -> {"not yet", "good", "bad", "exception"}]
  /\ answers \subseteq [job : Items, to : Items]
  /\ \A item \in Items : address[item] \in Items \cup {None} /\ status[item] \in Pool!Statuses

(* The stack hears of every item once: it is told that the item is refused and
   gets no answer, or gets one answer, made for that very item.  It never gets
   one for an item of another transaction that used the same manager meanwhile
   (ASSourceVariableIoManager.cpp:33-91, designToSourceVariablesBody.jinja:96-180). *)
AnsweredOnce ==
  \A item \in Items : LET mine == {a \in answers : a.to = item} IN
    /\ \A a \in mine : a.job = item
    /\ returned[item] \in {"bad", "exception"} => mine = {}

=============================================================================
