----------------------------- MODULE ServerProofs -----------------------------
(***************************************************************************)
(* Proofs about ServerLifecycle, for every set of variables, transactions, *)
(* threads and workers: requests meet a server that is complete, and leave *)
(* nothing behind (Life); and, if no two transactions call one manager at  *)
(* a time, every answer goes to the item it was made for (Addressed).      *)
(***************************************************************************)
EXTENDS ServerLifecycle, SequenceTheorems, TLAPS

Calls ==
  /\ call \in [Threads -> Items \cup {None}]
  /\ at \in [Threads -> {"idle", "item", "spawn", "add", "execute"}]
  /\ doing \in [Performers -> Items \cup {None}]
  /\ phase \in [Performers -> {"idle", "reach", "lock", "call", "answer"}]
  /\ pending \in Seq(Items)
  /\ status \in [Items -> Pool!Statuses]
  /\ \A t \in Threads : at[t] = "idle" <=> call[t] = None
  /\ \A p \in Performers : phase[p] = "idle" <=> doing[p] = None
  /\ \A t \in Threads : doing[t] # None => at[t] = "execute"

(* The server is open and its devices are linked between ConfigureDevices and the
   shutdown. *)
Open == {"prepare", "endpoints", "loop", "destroyPool", "join", "flush", "unlinkDevices", "stop"}
WithPool == {"devices", "prepare", "endpoints", "loop", "destroyPool", "join", "flush"}
Served ==
  /\ linked = (serving /\ main # "stop")
  /\ serving => main \in Open
  /\ \A t \in Threads : call[t] # None => serving
  /\ pending # <<>> => serving
  /\ \A w \in Workers : doing[w] # None => serving

(* Jobs are with the pool or a worker, and both only while there is a pool. *)
Pooled ==
  /\ pool = "up" => main \in WithPool
  /\ pool # "up" => pending = <<>>
  /\ pool # "up" \/ main = "flush" => \A w \in Workers : doing[w] = None
  /\ \A item \in Items : status[item] = "pending" => \E k \in DOMAIN pending : pending[k] = item
  /\ \A item \in Items : status[item] = "running" => \E w \in Workers : doing[w] = item

Life == Calls /\ Served /\ Pooled

(* The managers know the transactions that are under way, and no two of those
   need the same manager. *)
Managed ==
  /\ transaction \in [Variables -> Transactions \cup {None}]
  /\ handle \in [Variables -> Nat]
  /\ \A t \in Threads : call[t] # None => \A v \in VarsOf(call[t][1]) : transaction[v] = call[t][1]
  /\ \A t, u \in Threads : t # u /\ call[t] # None /\ call[u] # None =>
       VarsOf(call[t][1]) \cap VarsOf(call[u][1]) = {}
  /\ \A t \in Threads : at[t] = "spawn" => handle[Ask(call[t]).var] = call[t][2]

(* The items of a transaction return in order. *)
Reached(item) ==
  /\ \A i \in DOMAIN Asks[item[1]] : i >= item[2] => returned[<<item[1], i>>] = "not yet"
  /\ item[2] > 1 => returned[<<item[1], 1>>] # "not yet"
InOrder ==
  /\ returned \in [Items -> {"not yet", "good", "bad", "exception"}]
  /\ \A t \in Threads, item \in Items : call[t] = item => Reached(item)
  /\ \A item \in Items : returned[item] # "not yet" => returned[<<item[1], 1>>] # "not yet"

(* A job that was made answers its own item. *)
Addresses ==
  /\ DOMAIN address = Items
  /\ \A t \in Threads : at[t] \in {"add", "execute"} => address[call[t]] = call[t]
  /\ \A t \in Threads : doing[t] # None => doing[t] = call[t]
  /\ \A k \in DOMAIN pending : status[pending[k]] # "absent"
  /\ \A w \in Workers : doing[w] # None => status[doing[w]] # "absent"
  /\ \A item \in Items : status[item] # "absent" => returned[item] = "good" /\ address[item] = item
  /\ \A a \in answers : a.job \in Items /\ a.to = a.job /\ returned[a.job] = "good"

Addressed == Managed /\ InOrder /\ Addresses

-----------------------------------------------------------------------------
LEMMA OneOrMore ==
  ASSUME NEW n \in Nat, n >= 1
  PROVE  n = 1 \/ n > 1
OBVIOUS

LEMMA Successor ==
  ASSUME NEW n \in Nat, NEW i \in 1 .. n, i # n
  PROVE  i + 1 \in 1 .. n
OBVIOUS

LEMMA ItemFacts ==
  ASSUME NEW item \in Items
  PROVE  /\ item = <<item[1], item[2]>> /\ item[1] \in Transactions /\ item[2] \in DOMAIN Asks[item[1]]
         /\ DOMAIN Asks[item[1]] = 1 .. Len(Asks[item[1]]) /\ Len(Asks[item[1]]) \in Nat
         /\ item[2] \in Nat /\ item[2] >= 1 /\ item[2] <= Len(Asks[item[1]])
         /\ \A i \in DOMAIN Asks[item[1]] : <<item[1], i>> \in Items
         /\ <<item[1], 1>> \in Items /\ item # None
         /\ Ask(item).var \in Variables /\ Ask(item).var \in VarsOf(item[1])
<1>1. PICK tx \in Transactions : item \in {tx} \X DOMAIN Asks[tx]
  BY DEF Items
<1>2. item = <<item[1], item[2]>> /\ item[1] = tx /\ item[2] \in DOMAIN Asks[tx]
  BY <1>1
<1>3. Asks[tx] \in Seq([var : Variables, op : Ops]) /\ DOMAIN Asks[tx] = 1 .. Len(Asks[tx]) /\ Len(Asks[tx]) \in Nat
      /\ None \notin Items
  <2>1. Asks[tx] \in Seq([var : Variables, op : Ops])
    BY SourceAssumption
  <2>2. None \notin Items
    BY SourceAssumption
  <2>3. QED
    BY <2>1, <2>2
<1>4. item[2] \in Nat /\ item[2] >= 1 /\ item[2] <= Len(Asks[tx]) /\ 1 \in DOMAIN Asks[tx]
  BY <1>2, <1>3
<1>5. \A i \in DOMAIN Asks[tx] : <<tx, i>> \in Items
  BY DEF Items
<1>6. Asks[tx][item[2]] \in [var : Variables, op : Ops]
  BY <1>2, <1>3, ElementOfSeq
<1>7. Ask(item) = Asks[tx][item[2]] /\ Ask(item).var \in Variables /\ Ask(item).var \in VarsOf(tx)
  BY <1>2, <1>6 DEF Ask, VarsOf
<1>8. QED
  BY <1>2, <1>3, <1>4, <1>5, <1>7

LEMMA FirstItem ==
  ASSUME NEW tx \in Transactions
  PROVE  <<tx, 1>> \in Items /\ <<tx, 1>> # None
<1>1. Asks[tx] \in Seq([var : Variables, op : Ops]) /\ Asks[tx] # <<>> /\ None \notin Items
  BY SourceAssumption
<1>2. 1 \in DOMAIN Asks[tx]
  <2>1. Len(Asks[tx]) \in Nat \ {0} /\ DOMAIN Asks[tx] = 1 .. Len(Asks[tx])
    BY <1>1, EmptySeq
  <2>2. QED
    BY <2>1
<1>3. QED
  BY <1>1, <1>2 DEF Items

LEMMA Actors ==
  Threads \subseteq Performers /\ Workers \subseteq Performers /\ \A t \in Threads : t \notin Workers
BY SourceAssumption DEF Performers

(* A call returns: the next item of the transaction is at hand, or the thread is
   idle. *)
LEMMA Returns ==
  ASSUME Calls, NEW t \in Threads, at[t] # "idle", NEW what, Return(t, what)
  PROVE  /\ call' \in [Threads -> Items \cup {None}]
         /\ at' \in [Threads -> {"idle", "item", "spawn", "add", "execute"}]
         /\ call[t] \in Items /\ call[t] # None
         /\ at'[t] = "idle" <=> call'[t] = None
         /\ at'[t] \in {"idle", "item"}
         /\ call'[t] # None => call'[t] = <<call[t][1], call[t][2] + 1>>
         /\ \A u \in Threads : u # t => call'[u] = call[u] /\ at'[u] = at[u]
         /\ returned' = [returned EXCEPT ![call[t]] = what]
<1>1. call[t] \in Items /\ call[t] # None
  BY DEF Calls
<1> DEFINE last == call[t][2] = Len(Asks[call[t][1]]) \/ what = "exception"
           next == <<call[t][1], call[t][2] + 1>>
<1>2. /\ call' = [call EXCEPT ![t] = IF last THEN None ELSE next]
      /\ at' = [at EXCEPT ![t] = IF last THEN "idle" ELSE "item"]
      /\ returned' = [returned EXCEPT ![call[t]] = what]
  BY DEF Return
<1>3. ~ last => next \in Items /\ next # None
  <2>1. ~ last => call[t][2] + 1 \in DOMAIN Asks[call[t][1]]
    <3>1. PICK item \in Items : item = call[t]
      BY <1>1
    <3>2. ~ last => item[2] # Len(Asks[item[1]])
      BY <3>1
    <3>3. item[2] # Len(Asks[item[1]]) => item[2] + 1 \in DOMAIN Asks[item[1]]
      BY ItemFacts, Successor
    <3>4. QED
      BY <3>1, <3>2, <3>3
  <2>2. ~ last => next \in Items
    BY <1>1, <2>1, ItemFacts
  <2>3. QED
    BY <2>2, ItemFacts
<1> HIDE DEF last, next
<1>4. QED
  BY <1>1, <1>2, <1>3 DEF Calls, next

-----------------------------------------------------------------------------
LEMMA LifeInit == Init => Life
<1> SUFFICES ASSUME Init PROVE Life
  OBVIOUS
<1>1. Calls
  <2>1. /\ call = [t \in Threads |-> None] /\ at = [t \in Threads |-> "idle"]
        /\ doing = [p \in Performers |-> None] /\ phase = [p \in Performers |-> "idle"]
        /\ pending = <<>> /\ status = [item \in Items |-> "absent"]
    BY DEF Init, SInit, Pool!Init
  <2>2. status \in [Items -> Pool!Statuses]
    BY <2>1 DEF Pool!Statuses
  <2>3. QED
    BY <2>1, <2>2, Actors DEF Calls
<1>2. Served /\ Pooled
  BY Actors DEF Init, SInit, Served, Pooled, Pool!Init, Open, WithPool
<1>3. QED
  BY <1>1, <1>2 DEF Life

(* The steps of a thread of the stack. *)
LEMMA LifeStack ==
  ASSUME Life, NEW t \in Threads, StackStep(t), UNCHANGED main
  PROVE  Life'
<1> USE DEF Life
<1>1. ASSUME NEW tx \in Transactions, BeginTransaction(t, tx)
      PROVE  Life'
  <2>1. <<tx, 1>> \in Items /\ <<tx, 1>> # None
    BY FirstItem
  <2>2. Calls'
    BY <1>1, <2>1, Actors DEF BeginTransaction, Calls, jobs, service
  <2>3. Served' /\ Pooled'
    BY <1>1 DEF BeginTransaction, Served, Pooled, lvars, jobs, service
  <2>4. QED
    BY <2>2, <2>3
<1>2. ASSUME BeginItem(t)
      PROVE  Life'
  <2>1. UNCHANGED <<serving, pool, linked, doing, phase, pending, status>>
    BY <1>2 DEF BeginItem, lvars, jobs, service
  <2>2. /\ call' \in [Threads -> Items \cup {None}]
        /\ at' \in [Threads -> {"idle", "item", "spawn", "add", "execute"}]
        /\ at'[t] = "idle" <=> call'[t] = None
        /\ \A u \in Threads : u # t => call'[u] = call[u] /\ at'[u] = at[u]
        /\ call[t] # None /\ doing[t] = None
    <3>1. at[t] = "item"
      BY <1>2 DEF BeginItem
    <3>2. CASE Return(t, "bad")
      BY <3>1, <3>2, Returns DEF Calls
    <3>3. CASE at' = [at EXCEPT ![t] = "spawn"] /\ UNCHANGED <<call, returned>>
      BY <3>1, <3>3 DEF Calls
    <3>4. QED
      BY <1>2, <3>2, <3>3 DEF BeginItem
  <2>3. Calls'
    BY <2>1, <2>2 DEF Calls
  <2>4. Served' /\ Pooled'
    BY <2>1, <2>2 DEF Served, Pooled
  <2>5. QED
    BY <2>3, <2>4
<1>3. ASSUME Spawn(t)
      PROVE  Life'
  <2>1. UNCHANGED <<serving, pool, linked, pending, status>> /\ at[t] = "spawn"
    BY <1>3 DEF Spawn, lvars, service
  <2>2. call[t] \in Items /\ call[t] # None /\ doing[t] = None
    BY <2>1 DEF Calls
  <2>3. /\ call' \in [Threads -> Items \cup {None}]
        /\ at' \in [Threads -> {"idle", "item", "spawn", "add", "execute"}]
        /\ at'[t] = "idle" <=> call'[t] = None
        /\ \A u \in Threads : u # t => call'[u] = call[u] /\ at'[u] = at[u]
        /\ doing' \in [Performers -> Items \cup {None}] /\ phase' \in [Performers -> {"idle", "reach", "lock", "call", "answer"}]
        /\ phase'[t] = "idle" <=> doing'[t] = None
        /\ \A p \in Performers : p # t => doing'[p] = doing[p] /\ phase'[p] = phase[p]
        /\ doing'[t] # None => at'[t] = "execute"
    <3>1. CASE pool # "up"
      <4>1. Return(t, "exception") /\ UNCHANGED <<doing, phase>>
        BY <1>3, <3>1 DEF Spawn
      <4>2. QED
        BY <2>1, <2>2, <4>1, Returns, Actors DEF Calls
    <3>2. CASE pool = "up" /\ ModeOf(call[t]) = "async"
      BY <1>3, <2>1, <2>2, <3>2, Actors DEF Spawn, Calls
    <3>3. CASE pool = "up" /\ ModeOf(call[t]) # "async"
      BY <1>3, <2>1, <2>2, <3>3, Actors DEF Spawn, Calls
    <3>4. QED
      BY <3>1, <3>2, <3>3
  <2>4. Calls'
    BY <2>1, <2>3, Actors DEF Calls
  <2>5. \A w \in Workers : doing'[w] = doing[w]
    BY <2>3, Actors
  <2>6. Served' /\ Pooled'
    BY <2>1, <2>2, <2>3, <2>5 DEF Served, Pooled
  <2>7. QED
    BY <2>4, <2>6
<1>4. ASSUME AddJob(t)
      PROVE  Life'
  <2>1. UNCHANGED <<serving, pool, linked, doing, phase>> /\ at[t] = "add"
    BY <1>4 DEF AddJob, jobs
  <2>2. call[t] \in Items /\ call[t] # None /\ doing[t] = None
    BY <2>1 DEF Calls
  <2>3. CASE pool = "gone" /\ UNCHANGED <<stack, service>>
    BY <2>1, <2>3 DEF Calls, Served, Pooled, stack, service
  <2>4. CASE pool = "up" /\ Return(t, "bad") /\ UNCHANGED service
    <3>1. Calls'
      BY <2>1, <2>2, <2>4, Returns DEF Calls, service
    <3>2. Served' /\ Pooled'
      BY <2>1, <2>2, <2>4, Returns DEF Served, Pooled, service
    <3>3. QED
      BY <3>1, <3>2
  <2>5. CASE pool = "up" /\ Return(t, "good") /\ Pool!Accept(call[t])
    <3>1. /\ pending' = Append(pending, call[t]) /\ status' = [status EXCEPT ![call[t]] = "pending"]
      BY <2>5 DEF Pool!Accept
    <3>2. pending' \in Seq(Items) /\ status' \in [Items -> Pool!Statuses]
      BY <2>2, <3>1 DEF Calls, Pool!Statuses
    <3>3. /\ Len(pending') = Len(pending) + 1 /\ pending'[Len(pending) + 1] = call[t] /\ Len(pending) \in Nat
          /\ DOMAIN pending' = 1 .. Len(pending) + 1 /\ DOMAIN pending = 1 .. Len(pending)
          /\ \A k \in DOMAIN pending : pending'[k] = pending[k] /\ k \in DOMAIN pending'
      BY <3>1, <2>2 DEF Calls
    <3>4. Calls'
      BY <2>1, <2>2, <2>5, <3>2, Returns DEF Calls
    <3>5. Served'
      BY <2>1, <2>2, <2>5, Returns DEF Served
    <3>6. Pooled'
      <4>1. ASSUME NEW item \in Items, status'[item] = "pending"
            PROVE  \E k \in DOMAIN pending' : pending'[k] = item
        <5>1. CASE item = call[t]
          BY <3>3, <5>1
        <5>2. CASE item # call[t]
          BY <4>1, <3>1, <3>3, <5>2 DEF Pooled, Calls
        <5>3. QED
          BY <5>1, <5>2
      <4>2. \A item \in Items : status'[item] = "running" => status[item] = "running"
        BY <2>2, <3>1 DEF Calls
      <4>3. QED
        BY <2>1, <2>5, <4>1, <4>2 DEF Pooled
    <3>7. QED
      BY <3>4, <3>5, <3>6
  <2>6. QED
    BY <1>4, <2>3, <2>4, <2>5 DEF AddJob
<1>5. QED
  BY <1>1, <1>2, <1>3, <1>4 DEF StackStep

(* The steps of a job. *)
LEMMA LifeJob ==
  ASSUME Life, NEW p \in Performers, JobStep(p), UNCHANGED main
  PROVE  Life'
<1> USE DEF Life
<1>1. ASSUME UNCHANGED <<serving, pool, linked, call, at, doing, pending, status>>,
             phase[p] # "idle", phase' \in [Performers -> {"idle", "reach", "lock", "call", "answer"}],
             phase'[p] # "idle", \A q \in Performers : q # p => phase'[q] = phase[q]
      PROVE  Life'
  <2>1. Calls'
    BY <1>1 DEF Calls
  <2>2. Served' /\ Pooled'
    BY <1>1 DEF Served, Pooled
  <2>3. QED
    BY <2>1, <2>2
<1>2. CASE ReachDevice(p)
  BY <1>1, <1>2 DEF ReachDevice, Calls, lvars, stack, service
<1>3. CASE LockDevice(p)
  BY <1>1, <1>3 DEF LockDevice, Calls, lvars, stack, service
<1>4. ASSUME NEW out \in {"returns", "throws"}, CallDevice(p, out)
      PROVE  Life'
  BY <1>1, <1>4 DEF CallDevice, Calls, lvars, stack, service
<1>5. CASE Answer(p)
  <2>1. /\ UNCHANGED <<serving, pool, linked>> /\ phase[p] = "answer"
        /\ doing' = [doing EXCEPT ![p] = None] /\ phase' = [phase EXCEPT ![p] = "idle"]
    BY <1>5 DEF Answer, lvars
  <2>2. doing[p] \in Items /\ doing[p] # None
    BY <2>1 DEF Calls
  <2>3. CASE p \in Workers
    <3>1. Pool!Finish(doing[p]) /\ UNCHANGED stack
      BY <1>5, <2>3 DEF Answer
    <3>2. status' = [status EXCEPT ![doing[p]] = "done"] /\ UNCHANGED <<pending, call, at>>
      BY <3>1 DEF Pool!Finish, stack
    <3>3. Calls'
      BY <2>1, <2>2, <3>2 DEF Calls, Pool!Statuses
    <3>4. \A w \in Workers : doing'[w] # None => doing[w] # None
      BY <2>1, Actors DEF Calls
    <3>5. Served'
      BY <2>1, <3>2, <3>4 DEF Served
    <3>6. Pooled'
      <4>1. \A item \in Items : status'[item] = "pending" => status[item] = "pending"
        BY <3>2 DEF Calls
      <4>2. ASSUME NEW item \in Items, status'[item] = "running"
            PROVE  \E w \in Workers : doing'[w] = item
        <5>1. item # doing[p] /\ status[item] = "running"
          BY <4>2, <2>2, <3>2 DEF Calls
        <5>2. PICK w \in Workers : doing[w] = item
          BY <5>1 DEF Pooled
        <5>3. doing'[w] = item
          BY <2>1, <5>1, <5>2, Actors DEF Calls
        <5>4. QED
          BY <5>3
      <4>3. QED
        BY <2>1, <3>2, <3>4, <4>1, <4>2 DEF Pooled
    <3>7. QED
      BY <3>3, <3>5, <3>6
  <2>4. CASE p \notin Workers
    <3>1. p \in Threads /\ Return(p, "good") /\ UNCHANGED <<pending, status>>
      BY <1>5, <2>4 DEF Answer, Performers, service
    <3>2. at[p] # "idle"
      BY <2>2, <3>1 DEF Calls
    <3>3. Calls'
      BY <2>1, <3>1, <3>2, Returns DEF Calls
    <3>4. \A w \in Workers : doing'[w] = doing[w]
      BY <2>1, <2>4, Actors DEF Calls
    <3>5. \A u \in Threads : call'[u] # None => call[u] # None
      BY <3>1, <3>2, Returns
    <3>6. Served' /\ Pooled'
      BY <2>1, <3>1, <3>4, <3>5 DEF Served, Pooled
    <3>7. QED
      BY <3>3, <3>6
  <2>5. QED
    BY <2>3, <2>4
<1>6. QED
  BY <1>2, <1>3, <1>4, <1>5 DEF JobStep

(* A worker takes a job. *)
LEMMA LifeTake ==
  ASSUME Life, NEW w \in Workers, TakeJob(w), main # "flush", UNCHANGED main
  PROVE  Life'
<1> USE DEF Life
<1>1. /\ UNCHANGED <<serving, pool, linked, call, at>> /\ pool = "up" /\ doing[w] = None /\ pending # <<>>
      /\ doing' = [doing EXCEPT ![w] = Head(pending)] /\ phase' = [phase EXCEPT ![w] = "reach"]
      /\ pending' = Tail(pending) /\ status' = [status EXCEPT ![Head(pending)] = "running"]
  BY DEF TakeJob, Pool!Start, lvars, stack
<1>2. /\ pending \in Seq(Items) /\ Head(pending) = pending[1] /\ Head(pending) \in Items
      /\ Tail(pending) \in Seq(Items) /\ Head(pending) # None
  <2>1. pending \in Seq(Items) /\ pending # <<>>
    BY <1>1 DEF Calls
  <2>2. Head(pending) = pending[1] /\ Head(pending) \in Items /\ Tail(pending) \in Seq(Items)
    BY <2>1
  <2>3. QED
    BY <2>1, <2>2, ItemFacts
<1>3. Calls'
  BY <1>1, <1>2, Actors DEF Calls, Pool!Statuses
<1>4. Served'
  BY <1>1 DEF Served
<1>5. Pooled'
  <2>1. ASSUME NEW item \in Items, status'[item] = "pending"
        PROVE  \E k \in DOMAIN pending' : pending'[k] = item
    <3>1. item # Head(pending) /\ status[item] = "pending"
      BY <2>1, <1>1, <1>2 DEF Calls
    <3>2. PICK k \in DOMAIN pending : pending[k] = item
      BY <3>1 DEF Pooled
    <3>3. k # 1
      BY <3>1, <3>2, <1>2
    <3>4. k - 1 \in DOMAIN pending' /\ pending'[k - 1] = pending[k]
      BY <3>2, <3>3, <1>1, <1>2
    <3>5. QED
      BY <3>2, <3>4
  <2>2. ASSUME NEW item \in Items, status'[item] = "running"
        PROVE  \E v \in Workers : doing'[v] = item
    <3>1. CASE item = Head(pending)
      BY <3>1, <1>1, Actors DEF Calls
    <3>2. CASE item # Head(pending)
      <4>1. status[item] = "running"
        BY <2>2, <3>2, <1>1 DEF Calls
      <4>2. PICK v \in Workers : doing[v] = item
        BY <4>1 DEF Pooled
      <4>3. v # w
        BY <4>2, <1>1, ItemFacts
      <4>4. doing'[v] = item
        BY <4>2, <4>3, <1>1, Actors DEF Calls
      <4>5. QED
        BY <4>4
    <3>3. QED
      BY <3>1, <3>2
  <2>3. QED
    BY <2>1, <2>2, <1>1 DEF Pooled
<1>6. QED
  BY <1>3, <1>4, <1>5

(* The steps of the main thread. *)
LEMMA LifeMain ==
  ASSUME Life, Main \/ Throw \/ Signal
  PROVE  Life'
<1> USE DEF Life
<1> DEFINE moves == <<main, serving, pool, linked>>
           rest == <<call, at, doing, phase, pending, status>>
<1>1. ASSUME UNCHANGED rest, Served', Pooled'
      PROVE  Life'
  BY <1>1 DEF Calls
<1>2. ASSUME UNCHANGED <<serving, pool, linked, rest>>,
             main' \notin {"flush", "stop"}, main # "stop" \/ main' = "stop",
             main \in Open => main' \in Open, main \in WithPool => main' \in WithPool \/ pool # "up"
      PROVE  Life'
  BY <1>1, <1>2 DEF Served, Pooled, Open
<1>3. CASE RegisterSignalHandler
  BY <1>2, <1>3 DEF RegisterSignalHandler, GoTo, svars, lvars, stack, jobs, service, Open, WithPool
<1>4. CASE Signal
  BY <1>4 DEF Signal, svars, lvars, stack, jobs, service, Calls, Served, Pooled
<1>5. ASSUME NEW readable \in BOOLEAN, NEW options \in SUBSET {"help", "version", "create_certificate"},
             ParseCommandLine(readable, options)
      PROVE  Life'
  BY <1>2, <1>5 DEF ParseCommandLine, GoTo, Exit, svars, lvars, stack, jobs, service, Open, WithPool
<1>6. CASE InitializeEnvironment
  BY <1>2, <1>6 DEF InitializeEnvironment, GoTo, Exit, svars, lvars, stack, jobs, service, Open, WithPool
<1>7. CASE SetServerConfig
  BY <1>2, <1>7 DEF SetServerConfig, GoTo, Exit, svars, lvars, stack, jobs, service, Open, WithPool
<1>8. CASE CreateCertificate
  BY <1>2, <1>8 DEF CreateCertificate, Exit, svars, lvars, stack, jobs, service, Open, WithPool
<1>9. CASE CreateTypeNodes
  BY <1>2, <1>9 DEF CreateTypeNodes, GoTo, svars, lvars, stack, jobs, service, Open, WithPool
<1>10. CASE ConfigureMeta
  BY <1>1, <1>10 DEF ConfigureMeta, GoTo, Requests, stack, jobs, service, Open, WithPool, Served, Pooled
<1>11. CASE ConfigureDevices
  BY <1>1, <1>11 DEF ConfigureDevices, GoTo, Requests, stack, jobs, service, Open, WithPool, Served, Pooled
<1>12. CASE PrepareEngine
  BY <1>2, <1>12 DEF PrepareEngine, GoTo, svars, lvars, stack, jobs, service, Open, WithPool
<1>13. CASE ReportEndpoints
  BY <1>2, <1>13 DEF ReportEndpoints, GoTo, svars, lvars, stack, jobs, service, Open, WithPool
<1>14. CASE TestFlag
  BY <1>2, <1>14 DEF TestFlag, GoTo, svars, lvars, stack, jobs, service, Open, WithPool
<1>15. CASE Throw
  BY <1>2, <1>15 DEF Throw, Starting, svars, lvars, stack, jobs, service, Open, WithPool
<1>16. CASE DestroyPool
  BY <1>2, <1>16 DEF DestroyPool, Pool!Close, Requests, lvars, stack, jobs, service, Open, WithPool
<1>17. CASE JoinWorkers
  BY <1>1, <1>17 DEF JoinWorkers, GoTo, svars, lvars, stack, jobs, service, Open, WithPool, Served, Pooled
<1>18. CASE FlushJob
  <2>1. /\ UNCHANGED <<main, serving, pool, linked, call, at, doing, phase>> /\ main = "flush" /\ pending # <<>>
        /\ pending' = Tail(pending) /\ status' = [status EXCEPT ![Head(pending)] = "discarded"]
    BY <1>18 DEF FlushJob, Pool!Discard, lvars, Requests, mvars, stack, jobs
  <2>2. /\ pending \in Seq(Items) /\ Head(pending) = pending[1] /\ Head(pending) \in Items
        /\ Tail(pending) \in Seq(Items)
    BY <2>1 DEF Calls
  <2>3. Calls'
    BY <2>1, <2>2 DEF Calls, Pool!Statuses
  <2>4. Served'
    BY <2>1 DEF Served
  <2>5. Pooled'
    <3>1. ASSUME NEW item \in Items, status'[item] = "pending"
          PROVE  \E k \in DOMAIN pending' : pending'[k] = item
      <4>1. item # Head(pending) /\ status[item] = "pending"
        BY <3>1, <2>1, <2>2 DEF Calls
      <4>2. PICK k \in DOMAIN pending : pending[k] = item
        BY <4>1 DEF Pooled
      <4>3. k # 1
        BY <4>1, <4>2, <2>2
      <4>4. k - 1 \in DOMAIN pending' /\ pending'[k - 1] = pending[k]
        BY <4>2, <4>3, <2>1, <2>2
      <4>5. QED
        BY <4>2, <4>4
    <3>2. \A item \in Items : status'[item] = "running" => status[item] = "running"
      BY <2>1, <2>2 DEF Calls
    <3>3. pool # "up" => pending' = <<>>
      BY <2>1 DEF Pooled
    <3>4. QED
      BY <2>1, <3>1, <3>2, <3>3 DEF Pooled
  <2>6. QED
    BY <2>3, <2>4, <2>5
<1>19. CASE FreePool
  BY <1>1, <1>19 DEF FreePool, GoTo, Requests, stack, jobs, service, Open, WithPool, Served, Pooled
<1>20. CASE UnlinkDevices
  BY <1>1, <1>20 DEF UnlinkDevices, GoTo, Requests, stack, jobs, service, Open, WithPool, Served, Pooled
<1>21. CASE StopServer
  <2>1. \A t \in Threads : call[t] = None
    BY <1>21 DEF StopServer, Calls
  <2>2. pool # "up"
    BY <1>21 DEF StopServer, Pooled, WithPool
  <2>3. QED
    BY <1>1, <1>21, <2>1, <2>2 DEF StopServer, Exit, Requests, stack, jobs, service, Open, Served, Pooled
<1>22. QED
  BY <1>3, <1>4, <1>5, <1>6, <1>7, <1>8, <1>9, <1>10, <1>11, <1>12, <1>13, <1>14, <1>15, <1>16, <1>17, <1>18,
     <1>19, <1>20, <1>21 DEF Main

LEMMA LifeStep == Life /\ [Next]_vars => Life'
<1>1. ASSUME Life, UNCHANGED vars
      PROVE  Life'
  BY <1>1 DEF vars, svars, lvars, mvars, managers, stack, jobs, service, Life, Calls, Served, Pooled
<1>2. ASSUME Life, Next
      PROVE  Life'
  <2>1. CASE Main \/ Throw \/ Signal
    BY <1>2, <2>1, LifeMain
  <2>2. CASE (\E t \in Threads : StackStep(t)) /\ UNCHANGED mvars
    BY <1>2, <2>2, LifeStack DEF mvars
  <2>3. CASE (\E p \in Performers : JobStep(p)) /\ UNCHANGED mvars
    BY <1>2, <2>3, LifeJob DEF mvars
  <2>4. CASE (\E w \in Workers : TakeJob(w)) /\ main # "flush" /\ UNCHANGED mvars
    BY <1>2, <2>4, LifeTake DEF mvars
  <2>5. QED
    BY <1>2, <2>1, <2>2, <2>3, <2>4 DEF Next
<1>3. QED
  BY <1>1, <1>2

(* The calls, the jobs and the stage of the server fit together in every reachable
   state (BaseQuasarServer.cpp:82-197, designToSourceVariablesBody.jinja). *)
THEOREM ServerLife == Spec => []Life
<1>1. QED
  BY LifeInit, LifeStep, PTL DEF Spec

(* However many threads, workers and jobs there are, an asynchronous job never
   runs into devices that have been unlinked (BaseQuasarServer.cpp:166-171). *)
THEOREM ServerJobsFindTheirDevices == Spec => []JobsFindTheirDevices
<1>1. Life => JobsFindTheirDevices
  <2>1. ASSUME Life, NEW w \in Workers, phase[w] # "idle"
        PROVE  linked
    <3>1. doing[w] # None
      BY <2>1, Actors DEF Life, Calls
    <3>2. serving /\ main # "stop"
      BY <2>1, <3>1 DEF Life, Served, Pooled, WithPool
    <3>3. QED
      BY <2>1, <3>2 DEF Life, Served
  <2>2. QED
    BY <2>1 DEF JobsFindTheirDevices
<1>2. QED
  BY <1>1, ServerLife, PTL

(* Whichever way the server comes to its end, it leaves no thread at work, no job,
   no pool and no link behind (BaseQuasarServer.cpp:82-197). *)
THEOREM ServerCleanExit == Spec => []CleanExit
<1>1. Life => CleanExit
  <2>1. ASSUME Life, main = "returned"
        PROVE  /\ pool # "up" /\ ~linked /\ ~serving
               /\ \A p \in Performers : doing[p] = None
               /\ \A item \in Items : status[item] \notin {"pending", "running"}
    <3>1. pool # "up" /\ ~serving /\ ~linked
      BY <2>1 DEF Life, Served, Pooled, Open, WithPool
    <3>2. pending = <<>> /\ \A w \in Workers : doing[w] = None
      BY <2>1, <3>1 DEF Life, Pooled
    <3>3. \A t \in Threads : doing[t] = None
      BY <2>1, <3>1 DEF Life, Calls, Served
    <3>4. \A item \in Items : status[item] # "running"
      BY <2>1, <3>2, ItemFacts DEF Life, Pooled
    <3>5. \A item \in Items : status[item] # "pending"
      <4>1. DOMAIN <<>> = {}
        OBVIOUS
      <4>2. QED
        BY <2>1, <3>2, <4>1 DEF Life, Pooled
    <3>6. QED
      BY <3>1, <3>2, <3>3, <3>4, <3>5 DEF Performers
  <2>2. QED
    BY <2>1 DEF CleanExit
<1>2. QED
  BY <1>1, ServerLife, PTL

-----------------------------------------------------------------------------
(* From here on: no two transactions call one manager at a time. *)
LEMMA AddressedInit == Init => Addressed
<1> SUFFICES ASSUME Init PROVE Addressed
  OBVIOUS
<1>1. /\ \A t \in Threads : call[t] = None /\ at[t] = "idle" /\ doing[t] = None
      /\ \A w \in Workers : doing[w] = None
      /\ pending = <<>> /\ answers = {} /\ DOMAIN address = Items
      /\ \A item \in Items : status[item] = "absent" /\ returned[item] = "not yet"
  BY Actors DEF Init, SInit, Pool!Init
<1>2. Managed
  BY <1>1 DEF Init, SInit, Managed
<1>3. InOrder
  BY <1>1, ItemFacts DEF Init, SInit, InOrder
<1>4. Addresses
  <2>1. DOMAIN pending = {}
    <3>1. DOMAIN <<>> = {}
      OBVIOUS
    <3>2. QED
      BY <3>1, <1>1
  <2>2. QED
    BY <1>1, <2>1 DEF Addresses
<1>5. QED
  BY <1>2, <1>3, <1>4 DEF Addressed

(* The transaction of a call, and what distinguishes it from that of others. *)
LEMMA CallFacts ==
  ASSUME Life, Addressed, NEW t \in Threads, call[t] # None
  PROVE  /\ call[t] \in Items /\ returned[call[t]] = "not yet" /\ status[call[t]] = "absent"
         /\ \A a \in answers : a.job # call[t]
         /\ Ask(call[t]).var \in VarsOf(call[t][1]) /\ Ask(call[t]).var \in Variables
         /\ transaction[Ask(call[t]).var] = call[t][1]
         /\ \A u \in Threads : u # t /\ call[u] # None =>
              call[u][1] # call[t][1] /\ call[u] # call[t] /\ Ask(call[u]).var # Ask(call[t]).var
<1>1. PICK item \in Items : item = call[t]
  BY DEF Life, Calls
<1>2. /\ item[2] \in DOMAIN Asks[item[1]] /\ item[2] >= item[2] /\ item = <<item[1], item[2]>>
      /\ Ask(item).var \in VarsOf(item[1]) /\ Ask(item).var \in Variables
  <2>1. item[2] \in Nat
    BY ItemFacts
  <2>2. item[2] >= item[2]
    BY <2>1
  <2>3. QED
    BY <2>2, ItemFacts
<1>3. returned[item] = "not yet"
  BY <1>1, <1>2 DEF Addressed, InOrder, Reached
<1>4. status[item] = "absent" /\ \A a \in answers : a.job # item
  BY <1>3 DEF Addressed, Addresses
<1>5. transaction[Ask(item).var] = item[1]
  BY <1>1, <1>2 DEF Addressed, Managed
<1>6. ASSUME NEW u \in Threads, u # t, call[u] # None
      PROVE  call[u][1] # item[1] /\ Ask(call[u]).var # Ask(item).var
  <2>1. Ask(call[u]).var \in VarsOf(call[u][1])
    BY <1>6, ItemFacts DEF Life, Calls
  <2>2. VarsOf(call[u][1]) \cap VarsOf(item[1]) = {}
    BY <1>1, <1>6 DEF Addressed, Managed
  <2>3. QED
    BY <1>2, <2>1, <2>2
<1>7. QED
  BY <1>1, <1>2, <1>3, <1>4, <1>5, <1>6

(* An item returns, and the call goes on to the next one or to its end. *)
LEMMA ItemReturns ==
  ASSUME Life, Addressed, NEW t \in Threads, call[t] # None,
         NEW what \in {"good", "bad", "exception"}, Return(t, what),
         UNCHANGED <<transaction, address>>,
         handle' \in [Variables -> Nat],
         \A v \in Variables : v # Ask(call[t]).var => handle'[v] = handle[v],
         doing[t] # None => doing'[t] = None,
         doing[t] = None => doing'[t] = None,
         \A u \in Threads : u # t => doing'[u] = doing[u]
  PROVE  /\ Managed' /\ InOrder'
         /\ \A u \in Threads : at'[u] \in {"add", "execute"} => address'[call'[u]] = call'[u]
         /\ \A u \in Threads : doing'[u] # None => doing'[u] = call'[u]
         /\ returned'[call[t]] = what /\ \A item \in Items : item # call[t] => returned'[item] = returned[item]
<1>1. PICK item \in Items : item = call[t]
  BY DEF Life, Calls
<1>2. at[t] # "idle"
  BY DEF Life, Calls
<1>3. /\ call' \in [Threads -> Items \cup {None}]
      /\ at'[t] \in {"idle", "item"}
      /\ call'[t] # None => call'[t] = <<item[1], item[2] + 1>>
      /\ \A u \in Threads : u # t => call'[u] = call[u] /\ at'[u] = at[u]
      /\ returned' = [returned EXCEPT ![item] = what]
  BY <1>1, <1>2, Returns DEF Life
<1>4. /\ item[1] \in Transactions /\ item[2] \in Nat /\ item[2] >= 1 /\ item = <<item[1], item[2]>>
      /\ <<item[1], 1>> \in Items /\ Ask(item).var \in VarsOf(item[1])
  BY ItemFacts
<1>5. returned'[item] = what /\ \A other \in Items : other # item => returned'[other] = returned[other]
  BY <1>3 DEF Addressed, InOrder
<1>6. call'[t] # None => call'[t][1] = item[1] /\ call'[t][2] = item[2] + 1
  BY <1>3
<1>7. \A u \in Threads : call'[u] # None => call[u] # None /\ call'[u][1] = call[u][1]
  BY <1>1, <1>3, <1>6
<1>8. Managed'
  <2>1. ASSUME NEW u \in Threads, at'[u] = "spawn"
        PROVE  handle'[Ask(call'[u]).var] = call'[u][2]
    <3>1. u # t /\ call'[u] = call[u] /\ at[u] = "spawn"
      BY <2>1, <1>3
    <3>2. call[u] # None
      BY <3>1 DEF Life, Calls
    <3>3. Ask(call[u]).var # Ask(call[t]).var /\ Ask(call[u]).var \in Variables
      BY <3>1, <3>2, CallFacts
    <3>4. QED
      BY <3>1, <3>3 DEF Addressed, Managed
  <2>2. \A u \in Threads : call'[u] # None => \A v \in VarsOf(call'[u][1]) : transaction'[v] = call'[u][1]
    BY <1>7 DEF Addressed, Managed
  <2>3. \A u, v \in Threads : u # v /\ call'[u] # None /\ call'[v] # None =>
          VarsOf(call'[u][1]) \cap VarsOf(call'[v][1]) = {}
    BY <1>7 DEF Addressed, Managed
  <2>4. QED
    BY <2>1, <2>2, <2>3 DEF Addressed, Managed
<1>9. InOrder'
  <2>1. returned' \in [Items -> {"not yet", "good", "bad", "exception"}]
    BY <1>3 DEF Addressed, InOrder
  <2>2. ASSUME NEW u \in Threads, NEW next \in Items, call'[u] = next
        PROVE  Reached(next)'
    <3>1. CASE u = t
      <4>1. next[1] = item[1] /\ next[2] = item[2] + 1
        BY <2>2, <3>1, <1>6, ItemFacts
      <4>2. Reached(item)
        BY <1>1 DEF Addressed, InOrder
      <4>3. ASSUME NEW i \in DOMAIN Asks[item[1]], i >= item[2] + 1
            PROVE  returned'[<<item[1], i>>] = "not yet"
        <5>1. i \in Nat /\ i >= item[2] /\ i # item[2]
          BY <4>3, <1>4, ItemFacts
        <5>2. returned[<<item[1], i>>] = "not yet"
          BY <4>2, <5>1 DEF Reached
        <5>3. <<item[1], i>> \in Items /\ <<item[1], i>> # item
          BY <5>1, <1>4, ItemFacts
        <5>4. QED
          BY <5>2, <5>3, <1>5
      <4>4. returned'[<<item[1], 1>>] # "not yet"
        <5>1. CASE item[2] = 1
          BY <5>1, <1>4, <1>5
        <5>2. CASE item[2] > 1
          <6>1. returned[<<item[1], 1>>] # "not yet"
            BY <4>2, <5>2 DEF Reached
          <6>2. QED
            BY <6>1, <1>4, <1>5
        <5>3. item[2] = 1 \/ item[2] > 1
          BY <1>4, OneOrMore
        <5>4. QED
          BY <5>1, <5>2, <5>3
      <4>5. QED
        BY <4>1, <4>3, <4>4 DEF Reached
    <3>2. CASE u # t
      <4>1. call[u] = next /\ next # None
        BY <2>2, <3>2, <1>3, ItemFacts
      <4>2. next[1] # item[1]
        BY <3>2, <4>1, <1>1, CallFacts
      <4>3. \A i : <<next[1], i>> # item
        BY <4>2, <1>4
      <4>4. <<next[1], 1>> \in Items /\ \A i \in DOMAIN Asks[next[1]] : <<next[1], i>> \in Items
        BY ItemFacts
      <4>5. Reached(next)
        BY <4>1 DEF Addressed, InOrder
      <4>6. QED
        BY <4>3, <4>4, <4>5, <1>5 DEF Reached
    <3>3. QED
      BY <3>1, <3>2
  <2>3. ASSUME NEW other \in Items, returned'[other] # "not yet"
        PROVE  returned'[<<other[1], 1>>] # "not yet"
    <3>1. <<other[1], 1>> \in Items
      BY ItemFacts
    <3>2. CASE <<other[1], 1>> = item
      BY <3>2, <1>5
    <3>3. CASE <<other[1], 1>> # item
      <4>1. returned'[<<other[1], 1>>] = returned[<<other[1], 1>>]
        BY <3>1, <3>3, <1>5
      <4>2. CASE other = item
        <5>1. item[2] > 1
          BY <3>3, <4>2, <1>4
        <5>2. QED
          BY <4>1, <4>2, <5>1, <1>1 DEF Addressed, InOrder, Reached
      <4>3. CASE other # item
        BY <2>3, <4>1, <4>3, <1>5 DEF Addressed, InOrder
      <4>4. QED
        BY <4>2, <4>3
    <3>4. QED
      BY <3>2, <3>3
  <2>4. QED
    BY <2>1, <2>2, <2>3 DEF InOrder
<1>10. \A u \in Threads : at'[u] \in {"add", "execute"} => address'[call'[u]] = call'[u]
  BY <1>3 DEF Addressed, Addresses
<1>11. \A u \in Threads : doing'[u] # None => doing'[u] = call'[u]
  BY <1>3 DEF Addressed, Addresses
<1>12. QED
  BY <1>1, <1>5, <1>8, <1>9, <1>10, <1>11

LEMMA VarsAreVariables ==
  ASSUME NEW tx \in Transactions
  PROVE  VarsOf(tx) \subseteq Variables
<1>1. Asks[tx] \in Seq([var : Variables, op : Ops])
  BY SourceAssumption
<1>2. ASSUME NEW i \in DOMAIN Asks[tx]
      PROVE  Asks[tx][i].var \in Variables
  <2>1. DOMAIN Asks[tx] = 1 .. Len(Asks[tx])
    BY <1>1
  <2>2. Asks[tx][i] \in [var : Variables, op : Ops]
    BY <1>1, <2>1, ElementOfSeq
  <2>3. QED
    BY <2>2
<1>3. QED
  BY <1>2 DEF VarsOf

(* What Addressed is about has not changed. *)
LEMMA AddressedStays ==
  ASSUME Addressed,
         UNCHANGED <<transaction, handle, call, at, returned, doing, answers, address, pending, status>>
  PROVE  Addressed'
<1>1. Managed'
  BY DEF Addressed, Managed
<1>2. \A item \in Items : Reached(item)' <=> Reached(item)
  BY DEF Reached
<1>3. InOrder'
  BY <1>2 DEF Addressed, InOrder
<1>4. Addresses'
  BY DEF Addressed, Addresses
<1>5. QED
  BY <1>1, <1>3, <1>4 DEF Addressed

(* The steps of a thread of the stack. *)
LEMMA AddressedStack ==
  ASSUME ~ Overlap, Life, Addressed, NEW t \in Threads, StackStep(t)
  PROVE  Addressed'
<1> USE DEF Addressed
<1>1. ASSUME NEW tx \in Transactions, BeginTransaction(t, tx)
      PROVE  Addressed'
  <2>1. /\ at[t] = "idle" /\ ~ Begun(tx) /\ UNCHANGED <<handle, returned, doing, answers, address, pending, status>>
        /\ \A u \in Threads : call[u] # None => VarsOf(call[u][1]) \cap VarsOf(tx) = {}
        /\ transaction' = [v \in Variables |-> IF v \in VarsOf(tx) THEN tx ELSE transaction[v]]
        /\ call' = [call EXCEPT ![t] = <<tx, 1>>] /\ at' = [at EXCEPT ![t] = "item"]
    BY <1>1 DEF BeginTransaction, jobs, service
  <2>2. <<tx, 1>> \in Items /\ <<tx, 1>> # None
    BY FirstItem
  <2>3. call[t] = None /\ doing[t] = None
    BY <2>1 DEF Life, Calls
  <2>4. /\ call'[t] = <<tx, 1>> /\ call'[t][1] = tx /\ at'[t] = "item"
        /\ \A u \in Threads : u # t => call'[u] = call[u] /\ at'[u] = at[u]
    BY <2>1 DEF Life, Calls
  <2>5. VarsOf(tx) \subseteq Variables
    BY VarsAreVariables
  <2>6. Managed'
    <3>1. transaction' \in [Variables -> Transactions \cup {None}]
      BY <2>1 DEF Managed
    <3>2. ASSUME NEW u \in Threads, call'[u] # None, NEW v \in VarsOf(call'[u][1])
          PROVE  transaction'[v] = call'[u][1]
      <4>1. CASE u = t
        BY <3>2, <4>1, <2>1, <2>4, <2>5
      <4>2. CASE u # t
        <5>1. call'[u] = call[u] /\ v \notin VarsOf(tx) /\ transaction[v] = call[u][1]
          BY <3>2, <4>2, <2>1, <2>4 DEF Managed
        <5>2. v \in Variables
          <6>1. PICK item \in Items : item = call[u]
            BY <3>2, <4>2, <2>4 DEF Life, Calls
          <6>2. VarsOf(item[1]) \subseteq Variables
            BY ItemFacts, VarsAreVariables
          <6>3. QED
            BY <3>2, <5>1, <6>1, <6>2
        <5>3. QED
          BY <5>1, <5>2, <2>1
      <4>3. QED
        BY <4>1, <4>2
    <3>3. ASSUME NEW u \in Threads, NEW v \in Threads, u # v, call'[u] # None, call'[v] # None
          PROVE  VarsOf(call'[u][1]) \cap VarsOf(call'[v][1]) = {}
      <4>1. CASE u = t
        BY <3>3, <4>1, <2>1, <2>4
      <4>2. CASE v = t
        BY <3>3, <4>2, <2>1, <2>4
      <4>3. CASE u # t /\ v # t
        BY <3>3, <4>3, <2>4 DEF Managed
      <4>4. QED
        BY <4>1, <4>2, <4>3
    <3>4. \A u \in Threads : at'[u] = "spawn" => handle'[Ask(call'[u]).var] = call'[u][2]
      BY <2>1, <2>4 DEF Managed
    <3>5. QED
      BY <3>1, <3>2, <3>3, <3>4, <2>1 DEF Managed
  <2>7. InOrder'
    <3>1. PICK first \in Items : first = <<tx, 1>>
      BY <2>2
    <3>2. first[1] = tx /\ first[2] = 1 /\ returned[first] = "not yet"
      BY <3>1, <2>1 DEF Begun
    <3>3. Reached(first)
      <4>1. ASSUME NEW i \in DOMAIN Asks[tx]
            PROVE  returned[<<tx, i>>] = "not yet"
        <5>1. PICK item \in Items : item = <<tx, i>> /\ item[1] = tx
          BY <4>1, <3>2, ItemFacts
        <5>2. QED
          BY <5>1, <3>1, <3>2 DEF InOrder
      <4>2. \A i \in DOMAIN Asks[first[1]] : returned[<<first[1], i>>] = "not yet"
        BY <4>1, <3>2
      <4>3. ~ (first[2] > 1)
        <5>1. ~ (1 > 1)
          OBVIOUS
        <5>2. first[2] = 1
          BY <3>2
        <5>3. QED
          BY ONLY <5>1, <5>2
      <4>4. QED
        BY <4>2, <4>3 DEF Reached
    <3>4. \A item \in Items : Reached(item)' <=> Reached(item)
      BY <2>1 DEF Reached
    <3>5. ASSUME NEW u \in Threads, NEW item \in Items, call'[u] = item
          PROVE  Reached(item)'
      BY <3>5, <3>1, <3>3, <3>4, <2>4 DEF InOrder
    <3>6. QED
      BY <3>5, <2>1 DEF InOrder
  <2>8. Addresses'
    BY <2>1, <2>3, <2>4 DEF Addresses
  <2>9. QED
    BY <2>6, <2>7, <2>8
<1>2. ASSUME BeginItem(t)
      PROVE  Addressed'
  <2>1. /\ UNCHANGED <<transaction, doing, answers, address, pending, status>> /\ at[t] = "item"
        /\ handle' = [handle EXCEPT ![Ask(call[t]).var] = call[t][2]]
    BY <1>2 DEF BeginItem, jobs, service
  <2>2. call[t] # None /\ doing[t] = None
    BY <2>1 DEF Life, Calls
  <2>3. PICK item \in Items : item = call[t] /\ item[2] \in Nat /\ Ask(item).var \in Variables
    BY <2>2, CallFacts, ItemFacts
  <2>4. /\ handle' \in [Variables -> Nat] /\ handle'[Ask(item).var] = item[2]
        /\ \A v \in Variables : v # Ask(item).var => handle'[v] = handle[v]
    BY <2>1, <2>3 DEF Managed
  <2>5. CASE Return(t, "bad")
    <3>1. /\ Managed' /\ InOrder'
          /\ \A u \in Threads : at'[u] \in {"add", "execute"} => address'[call'[u]] = call'[u]
          /\ \A u \in Threads : doing'[u] # None => doing'[u] = call'[u]
          /\ \A other \in Items : other # call[t] => returned'[other] = returned[other]
      BY <2>1, <2>2, <2>3, <2>4, <2>5, ItemReturns
    <3>2. status[call[t]] = "absent" /\ \A a \in answers : a.job # call[t]
      BY <2>2, CallFacts
    <3>3. Addresses'
      BY <2>1, <3>1, <3>2 DEF Addresses
    <3>4. QED
      BY <3>1, <3>3
  <2>6. CASE at' = [at EXCEPT ![t] = "spawn"] /\ UNCHANGED <<call, returned>>
    <3>1. at'[t] = "spawn" /\ \A u \in Threads : u # t => at'[u] = at[u]
      BY <2>6 DEF Life, Calls
    <3>2. ASSUME NEW u \in Threads, at'[u] = "spawn"
          PROVE  handle'[Ask(call'[u]).var] = call'[u][2]
      <4>1. CASE u = t
        BY <4>1, <2>3, <2>4, <2>6
      <4>2. CASE u # t
        <5>1. at[u] = "spawn" /\ call[u] # None
          BY <3>1, <3>2, <4>2 DEF Life, Calls
        <5>2. Ask(call[u]).var # Ask(item).var /\ Ask(call[u]).var \in Variables
          BY <4>2, <5>1, <2>2, <2>3, CallFacts
        <5>3. QED
          BY <5>1, <5>2, <2>4, <2>6 DEF Managed
      <4>3. QED
        BY <4>1, <4>2
    <3>3. Managed'
      BY <3>2, <2>1, <2>4, <2>6 DEF Managed
    <3>4. InOrder'
      BY <2>6 DEF InOrder, Reached
    <3>5. Addresses'
      BY <3>1, <2>1, <2>6 DEF Addresses
    <3>6. QED
      BY <3>3, <3>4, <3>5
  <2>7. QED
    BY <1>2, <2>5, <2>6 DEF BeginItem
<1>3. ASSUME Spawn(t)
      PROVE  Addressed'
  <2>1. UNCHANGED <<transaction, handle, answers, pending, status>> /\ at[t] = "spawn"
    BY <1>3 DEF Spawn, managers, service
  <2>2. call[t] # None /\ doing[t] = None
    BY <2>1 DEF Life, Calls
  <2>3. CASE pool # "up"
    <3>1. Return(t, "exception") /\ UNCHANGED <<address, doing>>
      BY <1>3, <2>3 DEF Spawn
    <3>2. /\ Managed' /\ InOrder'
          /\ \A u \in Threads : at'[u] \in {"add", "execute"} => address'[call'[u]] = call'[u]
          /\ \A u \in Threads : doing'[u] # None => doing'[u] = call'[u]
          /\ \A other \in Items : other # call[t] => returned'[other] = returned[other]
      BY <2>1, <2>2, <3>1, ItemReturns DEF Managed
    <3>3. status[call[t]] = "absent" /\ \A a \in answers : a.job # call[t]
      BY <2>2, CallFacts
    <3>4. Addresses'
      BY <2>1, <3>1, <3>2, <3>3 DEF Addresses
    <3>5. QED
      BY <3>2, <3>4
  <2>4. CASE pool = "up"
    <3>1. PICK item \in Items : /\ item = call[t] /\ item = <<item[1], item[2]>> /\ status[item] = "absent"
                                /\ transaction[Ask(item).var] = item[1]
      BY <2>2, CallFacts, ItemFacts
    <3>2. handle[Ask(item).var] = item[2]
      BY <2>1, <3>1 DEF Managed
    <3>3. /\ address' = [address EXCEPT ![item] = <<transaction[Ask(item).var], handle[Ask(item).var]>>]
          /\ at' = [at EXCEPT ![t] = IF ModeOf(item) = "async" THEN "add" ELSE "execute"]
          /\ doing' = IF ModeOf(item) = "async" THEN doing ELSE [doing EXCEPT ![t] = item]
          /\ UNCHANGED <<call, returned>>
      BY <1>3, <2>4, <3>1 DEF Spawn
    <3>4. /\ DOMAIN address' = Items /\ address'[item] = item
          /\ \A other \in Items : other # item => address'[other] = address[other]
      BY <3>1, <3>2, <3>3 DEF Addresses
    <3>5. /\ at'[t] # "spawn" /\ \A u \in Threads : u # t => at'[u] = at[u]
          /\ \A u \in Threads : u # t => doing'[u] = doing[u]
          /\ doing'[t] # None => doing'[t] = item
          /\ \A w \in Workers : doing'[w] = doing[w]
      <4>1. CASE ModeOf(item) = "async"
        BY <2>2, <3>3, <4>1 DEF Life, Calls
      <4>2. CASE ModeOf(item) # "async"
        BY <2>2, <3>3, <4>2, Actors DEF Life, Calls
      <4>3. QED
        BY <4>1, <4>2
    <3>6. Managed'
      BY <2>1, <3>3, <3>5 DEF Managed
    <3>7. InOrder'
      BY <3>3 DEF InOrder, Reached
    <3>8. ASSUME NEW u \in Threads, at'[u] \in {"add", "execute"}
          PROVE  address'[call'[u]] = call'[u]
      <4>1. CASE u = t
        BY <4>1, <3>1, <3>3, <3>4
      <4>2. CASE u # t
        <5>1. at[u] \in {"add", "execute"} /\ call[u] # None
          BY <3>5, <3>8, <4>2 DEF Life, Calls
        <5>2. call[u] # item /\ call[u] \in Items
          BY <4>2, <5>1, <2>2, <3>1, CallFacts
        <5>3. QED
          BY <5>1, <5>2, <3>3, <3>4 DEF Addresses
      <4>3. QED
        BY <4>1, <4>2
    <3>9. Addresses'
      BY <2>1, <3>1, <3>3, <3>4, <3>5, <3>8 DEF Addresses
    <3>10. QED
      BY <3>6, <3>7, <3>9
  <2>5. QED
    BY <2>3, <2>4
<1>4. ASSUME AddJob(t)
      PROVE  Addressed'
  <2>1. UNCHANGED <<transaction, handle, answers, address, doing>> /\ at[t] = "add"
    BY <1>4 DEF AddJob, managers, jobs
  <2>2. call[t] # None /\ doing[t] = None
    BY <2>1 DEF Life, Calls
  <2>3. CASE UNCHANGED <<stack, service>>
    BY <2>1, <2>3, AddressedStays DEF stack, service
  <2>4. ASSUME NEW what \in {"good", "bad"}, Return(t, what)
        PROVE  /\ Managed' /\ InOrder'
               /\ \A u \in Threads : at'[u] \in {"add", "execute"} => address'[call'[u]] = call'[u]
               /\ \A u \in Threads : doing'[u] # None => doing'[u] = call'[u]
               /\ returned'[call[t]] = what
               /\ \A other \in Items : other # call[t] => returned'[other] = returned[other]
               /\ status[call[t]] = "absent" /\ \A a \in answers : a.job # call[t]
    <3>1. /\ UNCHANGED <<transaction, address>> /\ handle' \in [Variables -> Nat] /\ handle' = handle
          /\ doing' = doing /\ what \in {"good", "bad", "exception"}
      BY <2>1 DEF Managed
    <3>2. status[call[t]] = "absent" /\ \A a \in answers : a.job # call[t]
      BY <2>2, CallFacts
    <3>3. QED
      BY <2>2, <2>4, <3>1, <3>2, ItemReturns
  <2>5. CASE Return(t, "bad") /\ UNCHANGED service
    <3>1. Addresses'
      BY <2>1, <2>4, <2>5 DEF Addresses, service
    <3>2. QED
      BY <2>4, <2>5, <3>1
  <2>6. CASE Return(t, "good") /\ Pool!Accept(call[t])
    <3>1. PICK item \in Items : item = call[t] /\ address[item] = item
      <4>1. call[t] \in Items /\ address[call[t]] = call[t]
        BY <2>1, <2>2, CallFacts DEF Addresses
      <4>2. QED
        BY <4>1
    <3>2. pending' = Append(pending, item) /\ status' = [status EXCEPT ![item] = "pending"]
      BY <2>6, <3>1 DEF Pool!Accept
    <3>3. /\ status'[item] = "pending" /\ \A other \in Items : other # item => status'[other] = status[other]
          /\ pending \in Seq(Items)
      BY <3>2 DEF Life, Calls
    <3>4. \A k \in DOMAIN pending' : pending'[k] = item \/ (k \in DOMAIN pending /\ pending'[k] = pending[k])
      BY <3>2, <3>3
    <3>5. \A k \in DOMAIN pending : pending[k] \in Items
      BY <3>3
    <3>6. \A k \in DOMAIN pending' : status'[pending'[k]] # "absent"
      BY <3>3, <3>4, <3>5 DEF Addresses
    <3>7. ASSUME NEW w \in Workers, doing'[w] # None
          PROVE  status'[doing'[w]] # "absent"
      <4>1. doing[w] \in Items /\ doing'[w] = doing[w]
        BY <3>7, <2>1, Actors DEF Life, Calls
      <4>2. QED
        BY <3>3, <3>7, <4>1 DEF Addresses
    <3>8. \A other \in Items : status'[other] # "absent" => returned'[other] = "good" /\ address'[other] = other
      BY <2>1, <2>4, <2>6, <3>1, <3>3 DEF Addresses
    <3>9. Addresses'
      BY <2>1, <2>4, <2>6, <3>6, <3>7, <3>8 DEF Addresses
    <3>10. QED
      BY <2>4, <2>6, <3>9
  <2>7. QED
    BY <1>4, <2>3, <2>5, <2>6 DEF AddJob
<1>5. QED
  BY <1>1, <1>2, <1>3, <1>4 DEF StackStep

(* The steps of a job. *)
LEMMA AddressedJob ==
  ASSUME Life, Addressed, NEW p \in Performers, JobStep(p)
  PROVE  Addressed'
<1> USE DEF Addressed
<1>1. CASE UNCHANGED <<managers, stack, doing, answers, address, service>>
  BY <1>1, AddressedStays DEF managers, stack, service
<1>2. CASE Answer(p)
  <2>1. /\ UNCHANGED <<transaction, handle, address>> /\ phase[p] = "answer"
        /\ answers' = answers \cup {[job |-> doing[p], to |-> address[doing[p]]]}
        /\ doing' = [doing EXCEPT ![p] = None]
    BY <1>2 DEF Answer, Address, managers
  <2>2. PICK item \in Items : item = doing[p] /\ item # None
    BY <2>1 DEF Life, Calls
  <2>3. \A a \in answers' : a \in answers \/ (a.job = item /\ a.to = address[item])
    BY <2>1, <2>2
  <2>4. doing'[p] = None /\ \A q \in Performers : q # p => doing'[q] = doing[q]
    BY <2>1 DEF Life, Calls
  <2>5. CASE p \in Workers
    <3>1. /\ UNCHANGED <<call, at, returned, pending>> /\ status[item] = "running"
          /\ status' = [status EXCEPT ![item] = "done"]
      BY <1>2, <2>2, <2>5 DEF Answer, Pool!Finish, stack
    <3>2. status'[item] = "done" /\ \A other \in Items : other # item => status'[other] = status[other]
      BY <3>1 DEF Life, Calls
    <3>3. returned[item] = "good" /\ address[item] = item
      BY <3>1 DEF Addresses
    <3>4. \A other \in Items : status'[other] # "absent" <=> status[other] # "absent"
      BY <3>1, <3>2
    <3>5. Managed' /\ InOrder'
      BY <2>1, <3>1 DEF Managed, InOrder, Reached
    <3>6. \A k \in DOMAIN pending : pending[k] \in Items
      BY DEF Life, Calls
    <3>7. \A w \in Workers : doing'[w] # None => doing'[w] = doing[w] /\ doing[w] \in Items
      BY <2>4, Actors DEF Life, Calls
    <3>8. \A u \in Threads : doing'[u] = doing[u]
      BY <2>4, <2>5, Actors
    <3>9. Addresses'
      BY <2>1, <2>3, <3>1, <3>3, <3>4, <3>6, <3>7, <3>8 DEF Addresses
    <3>10. QED
      BY <3>5, <3>9
  <2>6. CASE p \notin Workers
    <3>1. p \in Threads /\ Return(p, "good") /\ UNCHANGED <<pending, status>>
      BY <1>2, <2>6 DEF Answer, Performers, service
    <3>2. at[p] = "execute" /\ call[p] = item /\ call[p] # None /\ address[item] = item
      BY <2>2, <3>1 DEF Life, Calls, Addresses
    <3>3. \A u \in Threads : u # p => doing'[u] = doing[u]
      BY <2>4, Actors
    <3>4. /\ Managed' /\ InOrder'
          /\ \A u \in Threads : at'[u] \in {"add", "execute"} => address'[call'[u]] = call'[u]
          /\ \A u \in Threads : doing'[u] # None => doing'[u] = call'[u]
          /\ returned'[item] = "good" /\ \A other \in Items : other # item => returned'[other] = returned[other]
      BY <2>1, <2>4, <3>1, <3>2, <3>3, ItemReturns DEF Managed
    <3>5. \A w \in Workers : doing'[w] = doing[w]
      BY <2>4, <2>6, Actors
    <3>6. Addresses'
      BY <2>1, <2>3, <3>1, <3>2, <3>4, <3>5 DEF Addresses
    <3>7. QED
      BY <3>4, <3>6
  <2>7. QED
    BY <2>5, <2>6
<1>3. QED
  BY <1>1, <1>2 DEF JobStep, ReachDevice, LockDevice, CallDevice

(* A worker takes a job. *)
LEMMA AddressedTake ==
  ASSUME Life, Addressed, NEW w \in Workers, TakeJob(w)
  PROVE  Addressed'
<1> USE DEF Addressed
<1>1. /\ UNCHANGED <<transaction, handle, call, at, returned, answers, address>> /\ pending # <<>>
      /\ doing' = [doing EXCEPT ![w] = Head(pending)]
      /\ pending' = Tail(pending) /\ status' = [status EXCEPT ![Head(pending)] = "running"]
  BY DEF TakeJob, Pool!Start, managers, stack
<1>2. pending \in Seq(Items) /\ Head(pending) = pending[1] /\ Head(pending) \in Items /\ 1 \in DOMAIN pending
  <2>1. pending \in Seq(Items)
    BY DEF Life, Calls
  <2>2. QED
    BY <1>1, <2>1
<1>3. PICK item \in Items : item = Head(pending) /\ status[item] # "absent"
  BY <1>2 DEF Addresses
<1>4. status'[item] = "running" /\ \A other \in Items : other # item => status'[other] = status[other]
  BY <1>1, <1>3 DEF Life, Calls
<1>5. \A k \in DOMAIN pending' : k + 1 \in DOMAIN pending /\ pending'[k] = pending[k + 1] /\ pending[k + 1] \in Items
  BY <1>1, <1>2
<1>6. \A k \in DOMAIN pending' : status'[pending'[k]] # "absent"
  BY <1>4, <1>5 DEF Addresses
<1>7. doing'[w] = item /\ \A p \in Performers : p # w => doing'[p] = doing[p]
  BY <1>1, <1>3, Actors DEF Life, Calls
<1>8. ASSUME NEW v \in Workers, doing'[v] # None
      PROVE  status'[doing'[v]] # "absent"
  <2>1. CASE v = w
    BY <2>1, <1>4, <1>7
  <2>2. CASE v # w
    BY <1>8, <2>2, <1>4, <1>7, Actors DEF Life, Calls, Addresses
  <2>3. QED
    BY <2>1, <2>2
<1>9. \A other \in Items : status'[other] # "absent" => status[other] # "absent"
  BY <1>3, <1>4
<1>10. \A u \in Threads : doing'[u] = doing[u]
  BY <1>7, Actors
<1>11. Addresses'
  BY <1>1, <1>6, <1>8, <1>9, <1>10 DEF Addresses
<1>12. Managed' /\ InOrder'
  BY <1>1 DEF Managed, InOrder, Reached
<1>13. QED
  BY <1>11, <1>12

(* The main thread leaves the requests alone; it discards jobs at the end. *)
LEMMA AddressedMain ==
  ASSUME Life, Addressed, Main \/ Throw \/ Signal
  PROVE  Addressed'
<1> USE DEF Addressed
<1>1. CASE UNCHANGED <<Requests, pending, status>>
  BY <1>1, AddressedStays DEF Requests, managers, stack, jobs
<1>2. CASE FlushJob
  <2>1. /\ UNCHANGED Requests /\ pending # <<>>
        /\ pending' = Tail(pending) /\ status' = [status EXCEPT ![Head(pending)] = "discarded"]
    BY <1>2 DEF FlushJob, Pool!Discard
  <2>2. pending \in Seq(Items) /\ Head(pending) = pending[1] /\ Head(pending) \in Items /\ 1 \in DOMAIN pending
    <3>1. pending \in Seq(Items)
      BY DEF Life, Calls
    <3>2. QED
      BY <2>1, <3>1
  <2>3. PICK item \in Items : item = Head(pending) /\ status[item] # "absent"
    BY <2>2 DEF Addresses
  <2>4. status'[item] = "discarded" /\ \A other \in Items : other # item => status'[other] = status[other]
    BY <2>1, <2>3 DEF Life, Calls
  <2>5. \A k \in DOMAIN pending' : k + 1 \in DOMAIN pending /\ pending'[k] = pending[k + 1] /\ pending[k + 1] \in Items
    BY <2>1, <2>2
  <2>6. \A k \in DOMAIN pending' : status'[pending'[k]] # "absent"
    BY <2>4, <2>5 DEF Addresses
  <2>7. \A w \in Workers : doing[w] # None => status'[doing[w]] # "absent"
    BY <2>4, Actors DEF Life, Calls, Addresses
  <2>8. \A other \in Items : status'[other] # "absent" => status[other] # "absent"
    BY <2>3, <2>4
  <2>9. Addresses'
    BY <2>1, <2>6, <2>7, <2>8 DEF Addresses, Requests, managers, stack, jobs
  <2>10. Managed' /\ InOrder'
    BY <2>1 DEF Managed, InOrder, Reached, Requests, managers, stack
  <2>11. QED
    BY <2>9, <2>10
<1>3. Main \/ Throw \/ Signal => FlushJob \/ UNCHANGED <<Requests, pending, status>>
  BY DEF Main, Throw, Signal, RegisterSignalHandler, InitializeEnvironment, SetServerConfig, CreateCertificate,
         ParseCommandLine, CreateTypeNodes, ConfigureMeta, ConfigureDevices, PrepareEngine, ReportEndpoints, TestFlag,
         DestroyPool, JoinWorkers, FreePool, UnlinkDevices, StopServer, Pool!Close, svars, Requests, service
<1>4. QED
  BY <1>1, <1>2, <1>3

LEMMA AddressedStep == ~ Overlap /\ Life /\ Addressed /\ [Next]_vars => Addressed'
<1>1. ASSUME Addressed, UNCHANGED vars
      PROVE  Addressed'
  BY <1>1, AddressedStays DEF vars, svars, managers, stack, jobs, service
<1>2. QED
  BY <1>1, AddressedStack, AddressedJob, AddressedTake, AddressedMain DEF Next

(* If no two transactions call one manager at a time, every answer reaches the item
   its job was made for, and an item that was refused gets none, although the
   managers keep but one transaction and one handle
   (ASSourceVariableIoManager.cpp:33-91, designToSourceVariablesBody.jinja:96-180). *)
THEOREM ServerAnsweredOnce == ~ Overlap => (Spec => []AnsweredOnce)
<1>1. ASSUME ~ Overlap
      PROVE  Spec => []AnsweredOnce
  <2>1. Life /\ Addressed /\ [Next]_vars => Addressed'
    BY <1>1, AddressedStep
  <2>2. Addressed => AnsweredOnce
    BY DEF Addressed, Addresses, AnsweredOnce
  <2>3. QED
    BY <2>1, <2>2, AddressedInit, ServerLife, PTL DEF Spec
<1>2. QED
  BY <1>1

=============================================================================
