-------------------------- MODULE CalcEngineProofs --------------------------
(***************************************************************************)
(* Proofs about CalcEngine, for every configuration: no pointer to an      *)
(* erased variable stays, and the depth-first search, which sees one       *)
(* variable at a time and a list that optimize() has thinned out, cuts the *)
(* graph into its connected parts.  Then about ParserDefinitions, for      *)
(* any identifiers and any number of definitions: what the tables of the   *)
(* parsers hold, and why byte code that is kept is what the formula would  *)
(* be compiled to now.                                                     *)
(***************************************************************************)
EXTENDS CalcEngine, ParserDefinitions, SequenceTheorems, TLAPS

Registration == [calc : BOOLEAN, value : SUBSET Nat, status : SUBSET Nat]

(* Formulas read what is registered. *)
Configuration ==
  /\ registered \in Seq(Registration) /\ Len(registered) <= MaxVariables
  /\ \A v \in Ids : Inputs(v) \subseteq Ids /\ (~ registered[v].calc => Inputs(v) = {})

(* optimize() erases what notifies nothing, and the pointers to it. *)
Early == {"configure", "failed"}
ListsInv ==
  /\ listed = IF phase \in Early THEN Ids ELSE {v \in Ids : Notified(v) # {}}
  /\ notifies = [v \in Ids |-> IF registered[v].calc /\ v \in listed THEN v ELSE Null]

Steps ==
  /\ phase \in {"configure", "failed", "synchronize", "ready"}
  /\ created \in Nat /\ cursor \in Nat /\ created + cursor <= Len(registered)
  /\ sync \in [Ids -> 0 .. created]
  /\ search \in Seq([var : Ids, todo : SUBSET Ids])
  /\ phase \in Early => created = 0 /\ cursor = Null
  /\ phase = "ready" => cursor = Null
  /\ phase # "synchronize" => search = <<>>

(* The calls under way are all of the newest domain. *)
Calls ==
  \A i \in DOMAIN search :
    /\ created # 0
    /\ search[i].var \in Live /\ sync[search[i].var] = created
    /\ search[i].todo \subseteq Adjacent(search[i].var)

(* A domain has whatever is linked to it, but for what a call has still to look
   at. *)
Open(v, u) == \E i \in DOMAIN search : search[i].var = v /\ u \in search[i].todo
WholeInv ==
  \A v \in Live : sync[v] # Null => \A u \in Live : Linked(v, u) => sync[u] = sync[v] \/ Open(v, u)

(* And nothing else. *)
Joined == \A u, v \in Live : sync[u] # Null /\ sync[u] = sync[v] => Connected(u, v)
Marked == \A v \in Ids : sync[v] # Null => v \in Live

(* The loop has left nothing behind it. *)
Covered == phase \notin Early => \A v \in Live : v > cursor => sync[v] # Null

Domains == Calls /\ WholeInv /\ Joined /\ Marked /\ Covered
IInv == Configuration /\ ListsInv /\ Steps /\ Domains

-----------------------------------------------------------------------------
(* The graph. *)
LEMMA LinkedIsSymmetric ==
  ASSUME NEW u, NEW v, Linked(u, v)
  PROVE  Linked(v, u)
BY DEF Linked

LEMMA ConnectedReflexive ==
  ASSUME NEW u \in Live
  PROVE  Connected(u, u)
BY DEF Connected

LEMMA ConnectedTransitive ==
  ASSUME NEW u \in Live, NEW v \in Live, NEW w \in Live, Connected(u, v), Connected(v, w)
  PROVE  Connected(u, w)
BY DEF Connected

LEMMA LinkedIsConnected ==
  ASSUME NEW u \in Live, NEW v \in Live, Linked(u, v)
  PROVE  Connected(u, v)
BY DEF Connected, Closed

(* What a closed set leaves is closed. *)
LEMMA ConnectedSymmetric ==
  ASSUME NEW u \in Live, NEW v \in Live, Connected(u, v)
  PROVE  Connected(v, u)
<1>1. SUFFICES ASSUME NEW S \in SUBSET Live, v \in S, Closed(S), u \notin S
               PROVE  FALSE
  BY DEF Connected
<1>2. Closed(Live \ S)
  BY <1>1, LinkedIsSymmetric DEF Closed
<1>3. Live \ S \in SUBSET Live /\ u \in Live \ S
  BY <1>1
<1>4. v \in Live \ S
  BY <1>2, <1>3 DEF Connected
<1>5. QED
  BY <1>1, <1>4

LEMMA LiveIsRegistered ==
  ASSUME Configuration, ListsInv
  PROVE  Live \subseteq Ids /\ Ids = 1 .. Len(registered) /\ Len(registered) \in Nat
BY DEF Configuration, ListsInv, Live, Ids, Early

(* The pointers lead to listed variables. *)
LEMMA PointersAreListed ==
  ASSUME Configuration, ListsInv
  PROVE  NoDanglingVariable
<1>1. SUFFICES ASSUME NEW v \in Ids
               PROVE  Inputs(v) \subseteq listed /\ notifies[v] \in listed \cup {Null}
  BY DEF NoDanglingVariable
<1>2. notifies[v] \in listed \cup {Null}
  BY DEF ListsInv
<1>3. ASSUME NEW u \in Inputs(v)
      PROVE  u \in listed
  <2>1. u \in Ids /\ registered[v].calc
    BY <1>3 DEF Configuration
  <2>2. v \in Notified(u)
    BY <1>3, <2>1 DEF Notified
  <2>3. QED
    BY <2>1, <2>2 DEF ListsInv
<1>4. QED
  BY <1>2, <1>3

(* The neighbours the search may visit are what the graph links. *)
LEMMA NeighboursAreLinked ==
  ASSUME Configuration, ListsInv, phase \notin Early, NEW v \in Live, NEW u \in Ids, ~ IsConstant(u)
  PROVE  u \in Adjacent(v) <=> u \in Live /\ Linked(v, u)
<1>1. v \in Ids /\ v \in listed
  BY LiveIsRegistered DEF Live
<1>2. ASSUME u \in Inputs(v)
      PROVE  u \in Live /\ Linked(v, u) /\ u \in Adjacent(v)
  <2>1. u \in listed
    BY <1>1, <1>2, PointersAreListed DEF NoDanglingVariable
  <2>2. QED
    BY <1>2, <2>1 DEF Live, Linked, Adjacent
<1>3. ASSUME v \in Inputs(u), u \in listed
      PROVE  u \in Live /\ Linked(v, u) /\ u \in Adjacent(v)
  <2>1. registered[u].calc /\ u # Null
    BY <1>3, LiveIsRegistered DEF Configuration, Null
  <2>2. u \in Notified(v) /\ notifies[u] = u
    BY <1>3, <2>1 DEF Notified, ListsInv
  <2>3. QED
    BY <1>3, <2>1, <2>2 DEF Live, Linked, Adjacent
<1>4. ASSUME u \in Adjacent(v), u \notin Inputs(v)
      PROVE  v \in Inputs(u) /\ u \in listed
  <2>1. PICK c \in Notified(v) : u = notifies[c] /\ u # Null
    BY <1>4 DEF Adjacent
  <2>2. c \in Ids /\ v \in Inputs(c)
    BY <2>1 DEF Notified
  <2>3. u = c /\ c \in listed
    BY <2>1, <2>2 DEF ListsInv
  <2>4. QED
    BY <2>2, <2>3
<1>5. ASSUME u \in Live, Linked(v, u)
      PROVE  u \in Adjacent(v)
  BY <1>2, <1>3, <1>5 DEF Linked, Live
<1>6. QED
  BY <1>2, <1>3, <1>4, <1>5

-----------------------------------------------------------------------------
(* While variables are registered. *)
LEMMA InitInv ==
  ASSUME Init
  PROVE  IInv
<1>1. Ids = {} /\ Live = {}
  BY DEF Init, Ids, Live
<1>2. Configuration
  BY <1>1, MaxVariablesAssumption DEF Init, Configuration
<1>3. ListsInv
  BY <1>1 DEF Init, ListsInv, Early
<1>4. Steps
  BY <1>1 DEF Init, Steps, Null
<1>5. Domains
  BY <1>1 DEF Init, Domains, Calls, WholeInv, Joined, Marked, Covered
<1>6. QED
  BY <1>2, <1>3, <1>4, <1>5 DEF IInv

LEMMA EnlistInv ==
  ASSUME IInv, phase = "configure", NEW r \in [calc : BOOLEAN, value : SUBSET Ids, status : SUBSET Ids],
         r.calc \/ (r.value = {} /\ r.status = {}), Enlist(r)
  PROVE  IInv'
<1>0. PICK n : n = Len(registered)
  OBVIOUS
<1>1. /\ registered \in Seq(Registration) /\ n \in Nat /\ Ids = 1 .. n
      /\ n < MaxVariables /\ registered' = Append(registered, r)
      /\ phase' = "configure" /\ search' = <<>> /\ created' = 0 /\ cursor' = 0
  BY <1>0 DEF IInv, Configuration, Steps, Enlist, Ids, Early, Null
<1>2. r \in Registration
  BY <1>1 DEF Registration
<1>3. /\ registered' \in Seq(Registration) /\ Len(registered') = n + 1
      /\ \A v \in 1 .. n : registered'[v] = registered[v]
      /\ registered'[n + 1] = r
  BY <1>0, <1>1, <1>2, AppendProperties
<1>4. Ids' = 1 .. (n + 1) /\ Ids' = Ids \cup {n + 1} /\ n + 1 \notin Ids
  BY <1>1, <1>3 DEF Ids
<1>5. /\ \A v \in Ids : Inputs(v)' = Inputs(v)
      /\ Inputs(n + 1)' = r.value \cup r.status
  BY <1>1, <1>3 DEF Inputs
<1>6. Configuration'
  <2>1. ASSUME NEW v \in Ids
        PROVE  Inputs(v)' \subseteq Ids' /\ (~ registered'[v].calc => Inputs(v)' = {})
    BY <1>1, <1>3, <1>4, <1>5 DEF IInv, Configuration
  <2>2. Inputs(n + 1)' \subseteq Ids' /\ (~ registered'[n + 1].calc => Inputs(n + 1)' = {})
    BY <1>3, <1>4, <1>5
  <2>3. Len(registered') <= MaxVariables
    BY <1>1, <1>3, MaxVariablesAssumption
  <2>4. QED
    BY <2>1, <2>2, <2>3, <1>3, <1>4 DEF Configuration
<1>7. ListsInv'
  <2>1. listed = Ids /\ notifies = [v \in Ids |-> IF registered[v].calc THEN v ELSE Null]
    BY DEF IInv, ListsInv, Early
  <2>2. listed' = Ids'
    BY <2>1, <1>0, <1>4 DEF Enlist
  <2>3. notifies \in Seq(Nat) /\ Len(notifies) = n
    BY <2>1, <1>1 DEF Null
  <2>4. notifies' = Append(notifies, IF r.calc THEN n + 1 ELSE Null)
    BY <1>0 DEF Enlist
  <2>5. (IF r.calc THEN n + 1 ELSE Null) \in Nat
    BY <1>1 DEF Null
  <2>6. /\ notifies' \in Seq(Nat) /\ Len(notifies') = n + 1
        /\ \A v \in 1 .. n : notifies'[v] = notifies[v]
        /\ notifies'[n + 1] = IF r.calc THEN n + 1 ELSE Null
    BY <2>3, <2>4, <2>5, AppendProperties
  <2>7. \A v \in Ids' : notifies'[v] = IF registered'[v].calc /\ v \in listed' THEN v ELSE Null
    BY <2>1, <2>2, <2>6, <1>1, <1>3, <1>4
  <2>8. notifies' = [v \in 1 .. (n + 1) |-> notifies'[v]]
    BY <2>6
  <2>9. notifies' = [v \in Ids' |-> IF registered'[v].calc /\ v \in listed' THEN v ELSE Null]
    BY <2>7, <2>8, <1>4
  <2>10. QED
    BY <2>2, <2>9, <1>1 DEF ListsInv, Early
<1>8. sync' \in [Ids' -> {0}]
  <2>1. sync \in [1 .. n -> {0}]
    BY <1>1 DEF IInv, Steps, Early
  <2>2. sync \in Seq({0}) /\ Len(sync) = n
    BY <2>1, <1>1
  <2>3. sync' = Append(sync, 0) /\ 0 \in {0}
    BY DEF Enlist, Null
  <2>4. sync' \in Seq({0}) /\ Len(sync') = n + 1
    BY <2>2, <2>3, AppendProperties
  <2>5. QED
    BY <2>4, <1>4
<1>9. Steps'
  <2>1. sync' \in [Ids' -> 0 .. created']
    BY <1>8, <1>1
  <2>2. created' + cursor' <= Len(registered')
    BY <1>1, <1>3
  <2>3. search' \in Seq([var : Ids', todo : SUBSET Ids'])
    BY <1>1
  <2>4. QED
    BY <2>1, <2>2, <2>3, <1>1 DEF Steps, Early, Null
<1>10. Domains'
  <2>1. \A v \in Ids' : sync'[v] = Null
    BY <1>8 DEF Null
  <2>2. Live' \subseteq Ids'
    BY <1>7, <1>1 DEF ListsInv, Live, Early
  <2>3. WholeInv' /\ Joined' /\ Marked'
    BY <2>1, <2>2 DEF WholeInv, Joined, Marked
  <2>4. Calls' /\ Covered'
    BY <1>1 DEF Calls, Covered, Early
  <2>5. QED
    BY <2>3, <2>4 DEF Domains
<1>11. QED
  BY <1>6, <1>7, <1>9, <1>10 DEF IInv

LEMMA RegisterInv ==
  ASSUME IInv, RegisterVariable
  PROVE  IInv'
BY EnlistInv DEF RegisterVariable

LEMMA InstantiateInv ==
  ASSUME IInv, NEW value \in SUBSET Ids, NEW status \in SUBSET Ids, InstantiateCalculatedVariable(value, status)
  PROVE  IInv'
BY EnlistInv DEF InstantiateCalculatedVariable

LEMMA NotFoundInv ==
  ASSUME IInv, FormulaNotFound
  PROVE  IInv'
<1> USE DEF FormulaNotFound
<1>1. Configuration'
  BY DEF IInv, Configuration, Ids, Inputs
<1>2. ListsInv'
  BY DEF IInv, ListsInv, Early, Ids, Notified, Inputs
<1>3. Steps'
  BY DEF IInv, Steps, Early, Ids
<1>4. Domains'
  BY DEF IInv, Domains, Calls, WholeInv, Joined, Marked, Covered, Early, Live, Linked, Connected, Closed, IsConstant,
         Inputs, Ids, Open, Adjacent, Notified
<1>5. QED
  BY <1>1, <1>2, <1>3, <1>4 DEF IInv

LEMMA OptimizeInv ==
  ASSUME IInv, Optimize
  PROVE  IInv'
<1>1. /\ phase = "configure" /\ phase' = "synchronize" /\ registered' = registered
      /\ Ids' = Ids /\ Ids = 1 .. Len(registered) /\ Len(registered) \in Nat
      /\ \A v : Inputs(v)' = Inputs(v) /\ Notified(v)' = Notified(v)
      /\ search' = <<>> /\ created' = 0 /\ cursor' = Len(registered) /\ sync' = sync
  BY DEF IInv, Configuration, Steps, Early, Optimize, Ids, Inputs, Notified
<1>2. Configuration'
  BY <1>1 DEF IInv, Configuration
<1>3. ListsInv'
  <2>1. listed = Ids /\ notifies = [v \in Ids |-> IF registered[v].calc THEN v ELSE Null]
    BY <1>1 DEF IInv, ListsInv, Early
  <2>2. listed' = {v \in Ids : Notified(v) # {}}
    BY <2>1 DEF Optimize
  <2>3. notifies' = [v \in Ids |-> IF Notified(v) = {} THEN Null ELSE notifies[v]]
    BY DEF Optimize
  <2>4. notifies' = [v \in Ids |-> IF registered[v].calc /\ v \in listed' THEN v ELSE Null]
    BY <2>1, <2>2, <2>3
  <2>5. QED
    BY <1>1, <2>2, <2>4 DEF ListsInv, Early
<1>4. sync' \in [Ids' -> {0}]
  BY <1>1 DEF IInv, Steps, Early
<1>5. Steps'
  BY <1>1, <1>4 DEF Steps, Early
<1>6. Live' \subseteq Ids'
  BY <1>1, <1>3 DEF ListsInv, Live, Early
<1>7. Domains'
  <2>1. \A v \in Ids' : sync'[v] = Null
    BY <1>4 DEF Null
  <2>2. WholeInv' /\ Joined' /\ Marked' /\ Calls'
    BY <2>1, <1>6, <1>1 DEF WholeInv, Joined, Marked, Calls
  <2>3. Covered'
    BY <1>1, <1>6 DEF Covered
  <2>4. QED
    BY <2>2, <2>3 DEF Domains
<1>8. QED
  BY <1>2, <1>3, <1>5, <1>7 DEF IInv

-----------------------------------------------------------------------------
(* The search leaves the graph alone. *)
Graph == <<registered, listed, notifies>>

LEMMA GraphStays ==
  ASSUME UNCHANGED Graph
  PROVE  /\ Ids' = Ids /\ Live' = Live
         /\ \A v : Inputs(v)' = Inputs(v) /\ Notified(v)' = Notified(v) /\ Adjacent(v)' = Adjacent(v)
         /\ \A u, v : Linked(u, v)' = Linked(u, v)
BY DEF Graph, Ids, Live, Inputs, Notified, Adjacent, Linked, IsConstant

LEMMA ConnectedStays ==
  ASSUME UNCHANGED Graph, NEW u, NEW v
  PROVE  Connected(u, v)' <=> Connected(u, v)
BY GraphStays DEF Connected, Closed

LEMMA ListsStay ==
  ASSUME IInv, UNCHANGED Graph, phase' \in Early <=> phase \in Early
  PROVE  Configuration' /\ ListsInv'
<1>1. Configuration'
  BY GraphStays DEF Graph, IInv, Configuration
<1>2. ListsInv'
  BY GraphStays DEF Graph, IInv, ListsInv
<1>3. QED
  BY <1>1, <1>2

LEMMA SearchFacts ==
  ASSUME IInv, Searching
  PROVE  /\ phase = "synchronize" /\ phase \notin Early
         /\ Len(search) \in Nat \ {0} /\ search \in Seq([var : Ids, todo : SUBSET Ids])
         /\ Top \in [var : Ids, todo : SUBSET Ids]
         /\ Below \in Seq([var : Ids, todo : SUBSET Ids]) /\ Len(Below) = Len(search) - 1
         /\ \A i \in 1 .. (Len(search) - 1) : Below[i] = search[i]
         /\ created # 0 /\ created \in Nat
         /\ Top.var \in Live /\ sync[Top.var] = created /\ Top.todo \subseteq Adjacent(Top.var)
<1>1. /\ phase = "synchronize" /\ search # <<>> /\ search \in Seq([var : Ids, todo : SUBSET Ids])
      /\ created \in Nat
  BY DEF IInv, Steps, Searching
<1>2. Len(search) \in Nat \ {0} /\ Len(search) \in DOMAIN search
  BY <1>1
<1>3. Top \in [var : Ids, todo : SUBSET Ids]
  <2>1. \A X, seq : seq \in Seq(X) => \A i \in 1 .. Len(seq) : seq[i] \in X
    BY ElementOfSeq
  <2>2. Len(search) \in 1 .. Len(search)
    BY <1>2
  <2>3. QED
    BY <1>1, <2>1, <2>2 DEF Top
<1>4. /\ Below \in Seq([var : Ids, todo : SUBSET Ids]) /\ Len(Below) = Len(search) - 1
      /\ \A i \in 1 .. (Len(search) - 1) : Below[i] = search[i]
  <2>1. PICK X, n : X = [var : Ids, todo : SUBSET Ids] /\ n = Len(search) - 1
    OBVIOUS
  <2>2. search \in Seq(X) /\ n \in Nat /\ n = Len(search) - 1 /\ Len(search) \in Nat /\ Below = SubSeq(search, 1, n)
    BY <2>1, <1>1, <1>2 DEF Below
  <2>3. Below \in Seq(X) /\ Len(Below) = n /\ \A i \in 1 .. n : Below[i] = search[i]
    BY <2>2
  <2>4. QED
    BY <2>1, <2>3
<1>5. created # 0 /\ Top.var \in Live /\ sync[Top.var] = created /\ Top.todo \subseteq Adjacent(Top.var)
  BY <1>2 DEF IInv, Domains, Calls, Top
<1>6. QED
  BY <1>1, <1>2, <1>3, <1>4, <1>5 DEF Early

(* What a call has looked at has a synchronizer or needs none: while a call
   has still to look at a neighbour, that neighbour is of the call's domain or
   of none yet. *)
LEMMA NeighbourIsOurs ==
  ASSUME IInv, Searching, NEW u \in Top.todo, u \in Live, sync[u] # Null
  PROVE  sync[u] = created
<1>1. Linked(u, Top.var)
  <2>1. u \in Ids /\ ~ IsConstant(u)
    BY LiveIsRegistered DEF IInv, Live
  <2>2. QED
    BY <2>1, SearchFacts, NeighboursAreLinked, LinkedIsSymmetric DEF IInv
<1>2. sync[Top.var] = sync[u] \/ Open(u, Top.var)
  BY <1>1, SearchFacts DEF IInv, Domains, WholeInv
<1>3. Open(u, Top.var) => sync[u] = created
  BY DEF Open, IInv, Domains, Calls
<1>4. QED
  BY <1>2, <1>3, SearchFacts

LEMMA SynchronizeInv ==
  ASSUME IInv, SynchronizeNext
  PROVE  IInv'
<1>0. PICK c, k : c = cursor /\ k = created + 1
  OBVIOUS
<1>1. /\ phase = "synchronize" /\ phase' = phase /\ search = <<>> /\ UNCHANGED Graph
      /\ c \in Nat /\ c # 0 /\ cursor' = c - 1 /\ created \in Nat /\ k = created + 1
      /\ created + c <= Len(registered) /\ sync \in [Ids -> 0 .. created]
      /\ Len(registered) \in Nat /\ Ids = 1 .. Len(registered) /\ Live \subseteq Ids
  BY <1>0, LiveIsRegistered DEF IInv, Steps, SynchronizeNext, Graph, Null
<1>2. Configuration' /\ ListsInv'
  <2>1. UNCHANGED Graph /\ (phase' \in Early <=> phase \in Early)
    BY <1>1
  <2>2. QED
    BY <2>1, ListsStay
<1>3. /\ Ids' = Ids /\ Live' = Live /\ \A v : Adjacent(v)' = Adjacent(v)
      /\ \A u, v : Linked(u, v)' = Linked(u, v) /\ (Connected(u, v)' <=> Connected(u, v))
  BY <1>1, GraphStays, ConnectedStays
<1>4. CASE ~ (c \in listed /\ Notified(c) # {} /\ Visitable(c))
  <2>1. UNCHANGED <<sync, created, search>>
    BY <1>0, <1>4 DEF SynchronizeNext
  <2>2. Steps'
    <3>1. sync' \in [Ids' -> 0 .. created'] /\ created' \in Nat /\ cursor' \in Nat
      BY <1>1, <1>3, <2>1
    <3>2. created' + cursor' <= Len(registered')
      BY <1>1, <2>1 DEF Graph
    <3>3. QED
      BY <1>1, <1>3, <2>1, <3>1, <3>2 DEF Steps, Early
  <2>3. Calls' /\ WholeInv' /\ Joined' /\ Marked'
    BY <1>1, <1>3, <2>1 DEF IInv, Domains, Calls, WholeInv, Joined, Marked, Open
  <2>4. c \in Live => sync[c] # Null
    <3>1. c \in Live => c \in listed /\ ~ IsConstant(c) /\ Notified(c) # {}
      BY <1>1 DEF IInv, ListsInv, Live, Early
    <3>2. QED
      BY <3>1, <1>4 DEF Visitable
  <2>5. Covered'
    BY <1>0, <1>1, <1>3, <2>1, <2>4 DEF IInv, Domains, Covered
  <2>6. QED
    BY <1>2, <2>2, <2>3, <2>5 DEF IInv, Domains
<1>5. CASE c \in listed /\ Notified(c) # {} /\ Visitable(c)
  <2>1. c \in Live /\ c \in Ids /\ sync[c] = Null
    BY <1>1, <1>5 DEF Visitable, Live
  <2>2. /\ created' = k /\ sync' = [sync EXCEPT ![c] = k] /\ search' = <<[var |-> c, todo |-> Adjacent(c)]>>
    BY <1>0, <1>5 DEF SynchronizeNext, Call
  <2>3. /\ k \in Nat /\ k # 0 /\ sync' \in [Ids -> 0 .. k] /\ sync'[c] = k
        /\ \A v \in Ids : v # c => sync'[v] = sync[v] /\ sync[v] # k
    BY <1>1, <2>1, <2>2
  <2>4. Adjacent(c) \subseteq Ids
    BY <2>1, <1>1 DEF IInv, Configuration, ListsInv, Adjacent, Notified, Early
  <2>5. Steps'
    <3>1. search' \in Seq([var : Ids, todo : SUBSET Ids])
      BY <2>1, <2>2, <2>4
    <3>2. created' + cursor' <= Len(registered')
      BY <1>1, <2>2 DEF Graph
    <3>3. QED
      BY <1>1, <1>3, <2>2, <2>3, <3>1, <3>2 DEF Steps, Early
  <2>6. DOMAIN search' = {1} /\ search'[1] = [var |-> c, todo |-> Adjacent(c)]
    BY <2>2
  <2>7. Calls'
    BY <1>3, <2>1, <2>2, <2>3, <2>6 DEF Calls
  <2>8. Marked'
    BY <1>3, <2>1, <2>3 DEF IInv, Domains, Marked
  <2>9. Joined'
    <3>1. ASSUME NEW u \in Live, NEW v \in Live, sync'[u] # Null, sync'[u] = sync'[v]
          PROVE  Connected(u, v)
      <4>1. CASE u = c \/ v = c
        <5>1. u = v
          BY <4>1, <3>1, <2>3, <1>1
        <5>2. QED
          BY <5>1, ConnectedReflexive
      <4>2. CASE u # c /\ v # c
        BY <4>2, <3>1, <2>3, <1>1 DEF IInv, Domains, Joined
      <4>3. QED
        BY <4>1, <4>2
    <3>2. QED
      BY <3>1, <1>3 DEF Joined
  <2>10. WholeInv'
    <3>1. ASSUME NEW v \in Live, NEW u \in Live, sync'[v] # Null, Linked(v, u)
          PROVE  sync'[u] = sync'[v] \/ Open(v, u)'
      <4>1. CASE v = c
        <5>1. u \in Adjacent(c)
          BY <4>1, <3>1, <1>1, <2>1, NeighboursAreLinked DEF IInv, Live, Early
        <5>2. QED
          BY <4>1, <5>1, <2>6 DEF Open
      <4>2. CASE v # c
        <5>1. sync[v] # Null /\ sync'[v] = sync[v]
          BY <4>2, <3>1, <2>3, <1>1
        <5>2. sync[u] = sync[v]
          BY <5>1, <3>1, <1>1 DEF IInv, Domains, WholeInv, Open
        <5>3. u # c
          BY <5>1, <5>2, <2>1
        <5>4. QED
          BY <5>1, <5>2, <5>3, <2>3, <1>1
      <4>3. QED
        BY <4>1, <4>2
    <3>2. QED
      BY <3>1, <1>3 DEF WholeInv
  <2>11. Covered'
    <3>1. ASSUME NEW v \in Live, v > c - 1
          PROVE  sync'[v] # Null
      <4>1. v = c \/ v > c
        BY <3>1, <1>1
      <4>2. v > c => sync[v] # Null
        BY <1>0, <1>1 DEF IInv, Domains, Covered, Early
      <4>3. QED
        BY <4>1, <4>2, <1>1, <2>3 DEF Null
    <3>2. QED
      BY <3>1, <1>1, <1>3 DEF Covered
  <2>12. QED
    BY <1>2, <2>5, <2>7, <2>8, <2>9, <2>10, <2>11 DEF IInv, Domains
<1>6. QED
  BY <1>4, <1>5

(* A neighbour that has been looked at is not open any more; all others are. *)
Looked(u, var) == \A v, x : Open(v, x) => Open(v, x)' \/ (v = var /\ x = u)

LEMMA LookedAt ==
  ASSUME IInv, NEW u \in Ids, LookAt(u), NEW t, t = Top, NEW n, n = Len(search)
  PROVE  /\ Looked(u, t.var)
         /\ search' \in Seq([var : Ids, todo : SUBSET Ids])
         /\ \A i \in DOMAIN search' :
              \/ i \in DOMAIN search /\ search'[i].var = search[i].var /\ search'[i].todo \subseteq search[i].todo
              \/ Visitable(u) /\ search'[i] = Call(u)
         /\ Visitable(u) => \A x \in Adjacent(u) : Open(u, x)'
<1>1. PICK F : F = [var : Ids, todo : SUBSET Ids]
  OBVIOUS
<1>2. PICK b : b = Below
  OBVIOUS
<1>3. /\ search \in Seq(F) /\ n \in Nat \ {0} /\ t \in F /\ t = search[n] /\ Len(search) = n
      /\ b \in Seq(F) /\ Len(b) = n - 1 /\ \A i \in 1 .. (n - 1) : b[i] = search[i]
      /\ u \in t.todo
  BY <1>1, <1>2, SearchFacts DEF LookAt, Top
<1>4. PICK c : c = [t EXCEPT !.todo = t.todo \ {u}]
  OBVIOUS
<1>5. c \in F /\ c.var = t.var /\ c.todo = t.todo \ {u}
  BY <1>1, <1>3, <1>4
<1>6. Visitable(u) => Call(u) \in F
  <2>1. Adjacent(u) \subseteq Ids
    BY LiveIsRegistered DEF IInv, Configuration, ListsInv, Adjacent, Notified, Early
  <2>2. QED
    BY <1>1, <2>1 DEF Call
<1>7. PICK e : e = IF Visitable(u) THEN <<c, Call(u)>> ELSE <<c>>
  OBVIOUS
<1>8. search' = b \o e
  BY <1>2, <1>4, <1>7 DEF LookAt
<1>9. e \in Seq(F) /\ e[1] = c /\ Len(e) = IF Visitable(u) THEN 2 ELSE 1
  BY <1>5, <1>6, <1>7
<1>10. Visitable(u) => e[2] = Call(u)
  BY <1>7
<1>11. PICK k, s : k = Len(e) /\ s = search'
  OBVIOUS
<1>12. /\ k = IF Visitable(u) THEN 2 ELSE 1
       /\ s \in Seq(F) /\ Len(s) = (n - 1) + k
       /\ \A i \in 1 .. ((n - 1) + k) : s[i] = IF i <= n - 1 THEN b[i] ELSE e[i - (n - 1)]
  <2>1. b \in Seq(F) /\ e \in Seq(F) /\ s = b \o e /\ Len(b) = n - 1 /\ Len(e) = k
    BY <1>3, <1>8, <1>9, <1>11
  <2>2. /\ s \in Seq(F) /\ Len(s) = Len(b) + Len(e)
        /\ \A i \in 1 .. Len(b) + Len(e) : s[i] = IF i <= Len(b) THEN b[i] ELSE e[i - Len(b)]
    BY <2>1, ConcatProperties
  <2>3. QED
    BY <2>1, <2>2, <1>9, <1>11
<1>13. /\ \A i \in 1 .. (n - 1) : search'[i] = search[i]
       /\ search'[n] = c
       /\ DOMAIN search' = IF Visitable(u) THEN 1 .. (n + 1) ELSE 1 .. n
       /\ Visitable(u) => search'[n + 1] = Call(u)
  <2>1. n \in Nat \ {0} /\ k \in {1, 2}
    BY <1>3, <1>12
  <2>2. ASSUME NEW i \in 1 .. (n - 1)
        PROVE  s[i] = search[i]
    <3>1. i \in 1 .. ((n - 1) + k) /\ i <= n - 1
      BY <2>1
    <3>2. QED
      BY <3>1, <1>3, <1>12
  <2>3. s[n] = e[1]
    <3>1. n \in 1 .. ((n - 1) + k) /\ ~ (n <= n - 1) /\ n - (n - 1) = 1
      BY <2>1
    <3>2. QED
      BY <3>1, <1>12
  <2>4. k = 2 => s[n + 1] = e[2]
    <3>1. k = 2 => n + 1 \in 1 .. ((n - 1) + k) /\ ~ (n + 1 <= n - 1) /\ (n + 1) - (n - 1) = 2
      BY <2>1
    <3>2. QED
      BY <3>1, <1>12
  <2>5. DOMAIN s = 1 .. ((n - 1) + k)
    BY <1>12, <2>1
  <2>6. DOMAIN s = IF Visitable(u) THEN 1 .. (n + 1) ELSE 1 .. n
    BY <2>1, <2>5, <1>12
  <2>7. Visitable(u) => s[n + 1] = Call(u)
    BY <2>4, <1>10, <1>12
  <2>8. QED
    BY <2>2, <2>3, <2>6, <2>7, <1>9, <1>11
<1>14. Looked(u, t.var)
  <2>1. SUFFICES ASSUME NEW v, NEW x, Open(v, x), v # t.var \/ x # u
                 PROVE  Open(v, x)'
    BY DEF Looked
  <2>2. PICK i \in DOMAIN search : search[i].var = v /\ x \in search[i].todo
    BY <2>1 DEF Open
  <2>3. i \in 1 .. n /\ i \in DOMAIN search'
    BY <1>3, <1>13, <2>2
  <2>4. CASE i = n
    BY <2>1, <2>2, <2>3, <2>4, <1>3, <1>5, <1>13 DEF Open
  <2>5. CASE i # n
    BY <2>2, <2>3, <2>5, <1>3, <1>13 DEF Open
  <2>6. QED
    BY <2>4, <2>5
<1>15. ASSUME NEW i \in DOMAIN search'
       PROVE  \/ i \in DOMAIN search /\ search'[i].var = search[i].var /\ search'[i].todo \subseteq search[i].todo
              \/ Visitable(u) /\ search'[i] = Call(u)
  <2>1. i \in 1 .. (n - 1) \/ i = n \/ (Visitable(u) /\ i = n + 1)
    BY <1>3, <1>13
  <2>2. CASE i \in 1 .. (n - 1)
    BY <2>2, <1>3, <1>13
  <2>3. CASE i = n
    BY <2>3, <1>3, <1>5, <1>13
  <2>4. CASE Visitable(u) /\ i = n + 1
    BY <2>4, <1>13
  <2>5. QED
    BY <2>1, <2>2, <2>3, <2>4
<1>16. ASSUME Visitable(u), NEW x \in Adjacent(u)
       PROVE  Open(u, x)'
  <2>1. n + 1 \in DOMAIN search' /\ search'[n + 1].var = u /\ x \in search'[n + 1].todo
    BY <1>3, <1>13, <1>16 DEF Call
  <2>2. QED
    BY <2>1 DEF Open
<1>17. QED
  BY <1>1, <1>11, <1>12, <1>14, <1>15, <1>16

LEMMA LookAtInv ==
  ASSUME IInv, NEW u \in Ids, LookAt(u)
  PROVE  IInv'
<1>0. PICK t, n, d : t = Top /\ n = Len(search) /\ d = created
  OBVIOUS
<1>1. /\ phase = "synchronize" /\ phase' = phase /\ phase \notin Early /\ Searching
      /\ UNCHANGED <<created, cursor>> /\ UNCHANGED Graph
      /\ d \in Nat /\ d # 0 /\ created = d /\ sync \in [Ids -> 0 .. d]
      /\ t.var \in Live /\ sync[t.var] = d /\ u \in t.todo /\ u \in Adjacent(t.var)
      /\ Live \subseteq Ids
  BY <1>0, SearchFacts, LiveIsRegistered DEF IInv, Steps, LookAt, Searching, Graph
<1>2. Configuration' /\ ListsInv'
  <2>1. UNCHANGED Graph /\ (phase' \in Early <=> phase \in Early)
    BY <1>1
  <2>2. QED
    BY <2>1, ListsStay
<1>3. /\ Ids' = Ids /\ Live' = Live /\ \A v : Adjacent(v)' = Adjacent(v)
      /\ \A v, w : Linked(v, w)' = Linked(v, w) /\ (Connected(v, w)' <=> Connected(v, w))
  BY <1>1, GraphStays, ConnectedStays
<1>4. /\ Looked(u, t.var)
      /\ search' \in Seq([var : Ids, todo : SUBSET Ids])
      /\ \A i \in DOMAIN search' :
           \/ i \in DOMAIN search /\ search'[i].var = search[i].var /\ search'[i].todo \subseteq search[i].todo
           \/ Visitable(u) /\ search'[i] = Call(u)
      /\ Visitable(u) => \A x \in Adjacent(u) : Open(u, x)'
  BY <1>0, LookedAt
<1>5. ~ IsConstant(u) => u \in Live /\ Linked(t.var, u)
  BY <1>1, NeighboursAreLinked DEF IInv
<1>6. Steps' /\ Covered' /\ Marked'
      <=> sync' \in [Ids -> 0 .. d] /\ (\A v \in Live : v > cursor => sync'[v] # Null)
          /\ (\A v \in Ids : sync'[v] # Null => v \in Live)
  BY <1>1, <1>3, <1>4 DEF IInv, Steps, Covered, Marked, Early, Graph
<1>7. CASE Visitable(u)
  <2>1. u \in Live /\ sync[u] = Null /\ Linked(t.var, u)
    BY <1>5, <1>7 DEF Visitable
  <2>2. sync' = [sync EXCEPT ![u] = d]
    BY <1>1, <1>7 DEF LookAt
  <2>3. /\ sync' \in [Ids -> 0 .. d] /\ sync'[u] = d
        /\ \A v \in Ids : v # u => sync'[v] = sync[v]
    BY <1>1, <2>1, <2>2
  <2>4. u # t.var /\ sync'[t.var] = d
    BY <1>1, <2>1, <2>3 DEF Null
  <2>5. Steps' /\ Covered' /\ Marked'
    BY <1>1, <1>6, <2>1, <2>3 DEF IInv, Domains, Covered, Marked, Null
  <2>6. Calls'
    <3>1. ASSUME NEW i \in DOMAIN search'
          PROVE  search'[i].var \in Live /\ sync'[search'[i].var] = d /\ search'[i].todo \subseteq Adjacent(search'[i].var)
      <4>1. CASE i \in DOMAIN search /\ search'[i].var = search[i].var /\ search'[i].todo \subseteq search[i].todo
        <5>1. search[i].var \in Live /\ sync[search[i].var] = d /\ search[i].todo \subseteq Adjacent(search[i].var)
          BY <4>1, <1>1 DEF IInv, Domains, Calls
        <5>2. search[i].var # u
          BY <5>1, <2>1, <1>1 DEF Null
        <5>3. QED
          BY <4>1, <5>1, <5>2, <2>3, <1>1
      <4>2. CASE search'[i] = Call(u)
        BY <4>2, <2>1, <2>3 DEF Call
      <4>3. QED
        BY <4>1, <4>2, <1>4
    <3>2. QED
      BY <3>1, <1>1, <1>3 DEF Calls
  <2>7. Joined'
    <3>1. ASSUME NEW v \in Live, sync[v] = d
          PROVE  Connected(t.var, v)
      BY <3>1, <1>1 DEF IInv, Domains, Joined, Null
    <3>2. Connected(u, t.var)
      BY <2>1, <1>1, LinkedIsConnected, LinkedIsSymmetric
    <3>3. ASSUME NEW v \in Live, sync'[v] = d
          PROVE  Connected(u, v) /\ Connected(v, u)
      <4>1. CASE v = u
        BY <4>1, ConnectedReflexive
      <4>2. CASE v # u
        <5>1. Connected(t.var, v)
          BY <4>2, <3>1, <3>3, <2>3, <1>1
        <5>2. Connected(u, v)
          BY <5>1, <3>2, <1>1, <2>1, ConnectedTransitive
        <5>3. QED
          BY <5>2, <2>1, ConnectedSymmetric
      <4>3. QED
        BY <4>1, <4>2
    <3>4. ASSUME NEW v \in Live, NEW w \in Live, sync'[v] # Null, sync'[v] = sync'[w]
          PROVE  Connected(v, w)
      <4>1. CASE v = u \/ w = u
        BY <4>1, <3>3, <3>4, <2>3
      <4>2. CASE v # u /\ w # u
        BY <4>2, <3>4, <2>3, <1>1 DEF IInv, Domains, Joined
      <4>3. QED
        BY <4>1, <4>2
    <3>5. QED
      BY <3>4, <1>3 DEF Joined
  <2>8. WholeInv'
    <3>1. ASSUME NEW v \in Live, NEW x \in Live, sync'[v] # Null, Linked(v, x)
          PROVE  sync'[x] = sync'[v] \/ Open(v, x)'
      <4>1. CASE v = u
        <5>1. x \in Adjacent(u)
          BY <4>1, <3>1, <1>1, <2>1, NeighboursAreLinked DEF IInv, Live
        <5>2. QED
          BY <4>1, <5>1, <1>4, <1>7
      <4>2. CASE v # u
        <5>1. sync[v] # Null /\ sync'[v] = sync[v]
          BY <4>2, <3>1, <2>3, <1>1
        <5>2. sync[x] = sync[v] \/ Open(v, x)
          BY <5>1, <3>1 DEF IInv, Domains, WholeInv
        <5>3. CASE Open(v, x)
          <6>1. Open(v, x)' \/ (v = t.var /\ x = u)
            BY <5>3, <1>4 DEF Looked
          <6>2. QED
            BY <6>1, <2>3, <2>4
        <5>4. CASE sync[x] = sync[v]
          BY <5>1, <5>4, <2>1, <2>3, <1>1
        <5>5. QED
          BY <5>2, <5>3, <5>4
      <4>3. QED
        BY <4>1, <4>2
    <3>2. QED
      BY <3>1, <1>3 DEF WholeInv
  <2>9. QED
    BY <1>2, <2>5, <2>6, <2>7, <2>8 DEF IInv, Domains
<1>8. CASE ~ Visitable(u)
  <2>1. sync' = sync
    BY <1>8 DEF LookAt
  <2>2. Steps' /\ Covered' /\ Marked'
    BY <1>1, <1>6, <2>1 DEF IInv, Domains, Covered, Marked
  <2>3. Calls'
    BY <1>1, <1>3, <1>4, <1>8, <2>1 DEF IInv, Domains, Calls
  <2>4. Joined'
    BY <1>3, <2>1 DEF IInv, Domains, Joined
  <2>5. u \in Live => sync[u] = d
    <3>1. u \in Live => sync[u] # Null
      BY <1>8 DEF Visitable, Live
    <3>2. QED
      BY <3>1, <1>0, <1>1, NeighbourIsOurs
  <2>6. WholeInv'
    <3>1. ASSUME NEW v \in Live, NEW x \in Live, sync[v] # Null, Linked(v, x)
          PROVE  sync[x] = sync[v] \/ Open(v, x)'
      <4>1. sync[x] = sync[v] \/ Open(v, x)
        BY <3>1 DEF IInv, Domains, WholeInv
      <4>2. Open(v, x) => Open(v, x)' \/ (v = t.var /\ x = u)
        BY <1>4 DEF Looked
      <4>3. QED
        BY <4>1, <4>2, <2>5, <1>1
    <3>2. QED
      BY <3>1, <1>3, <2>1 DEF WholeInv
  <2>7. QED
    BY <1>2, <2>2, <2>3, <2>4, <2>6 DEF IInv, Domains
<1>9. QED
  BY <1>7, <1>8

LEMMA ReturnInv ==
  ASSUME IInv, Return
  PROVE  IInv'
<1>1. /\ phase = "synchronize" /\ phase' = phase /\ Searching /\ Top.todo = {} /\ search' = Below
      /\ UNCHANGED <<sync, created, cursor>> /\ UNCHANGED Graph
  BY DEF Return, Searching, Graph
<1>2. Configuration' /\ ListsInv'
  <2>1. UNCHANGED Graph /\ (phase' \in Early <=> phase \in Early)
    BY <1>1
  <2>2. QED
    BY <2>1, ListsStay
<1>3. /\ Ids' = Ids /\ Live' = Live /\ \A v : Adjacent(v)' = Adjacent(v)
      /\ \A v, w : Linked(v, w)' = Linked(v, w) /\ (Connected(v, w)' <=> Connected(v, w))
  BY <1>1, GraphStays, ConnectedStays
<1>4. PICK n : n = Len(search)
  OBVIOUS
<1>5. /\ n \in Nat \ {0} /\ search \in Seq([var : Ids, todo : SUBSET Ids]) /\ search[n].todo = {}
      /\ search' \in Seq([var : Ids, todo : SUBSET Ids]) /\ Len(search') = n - 1
      /\ \A i \in 1 .. (n - 1) : search'[i] = search[i]
  BY <1>1, <1>4, SearchFacts DEF Top
<1>6. DOMAIN search = 1 .. n /\ DOMAIN search' = 1 .. (n - 1)
  BY <1>4, <1>5
<1>7. \A i \in DOMAIN search' : i \in DOMAIN search /\ search'[i] = search[i]
  BY <1>5, <1>6
<1>8. \A v, x : Open(v, x) => Open(v, x)'
  <2>1. SUFFICES ASSUME NEW v, NEW x, Open(v, x)
                 PROVE  Open(v, x)'
    OBVIOUS
  <2>2. PICK i \in DOMAIN search : search[i].var = v /\ x \in search[i].todo
    BY <2>1 DEF Open
  <2>3. i # n
    BY <2>2, <1>5
  <2>4. i \in DOMAIN search' /\ search'[i] = search[i]
    BY <2>2, <2>3, <1>5, <1>6
  <2>5. QED
    BY <2>2, <2>4 DEF Open
<1>9. Steps'
  <2>1. created' + cursor' <= Len(registered')
    BY <1>1 DEF IInv, Steps, Graph
  <2>2. QED
    BY <1>1, <1>3, <1>5, <2>1 DEF IInv, Steps, Early
<1>10. Calls'
  BY <1>1, <1>3, <1>7 DEF IInv, Domains, Calls
<1>11. WholeInv' /\ Joined'
  BY <1>1, <1>3, <1>8 DEF IInv, Domains, WholeInv, Joined
<1>12. Marked' /\ Covered'
  BY <1>1, <1>3 DEF IInv, Domains, Marked, Covered
<1>13. QED
  BY <1>2, <1>9, <1>10, <1>11, <1>12 DEF IInv, Domains

LEMMA SynchronizedInv ==
  ASSUME IInv, Synchronized
  PROVE  IInv'
<1>1. /\ phase = "synchronize" /\ phase' = "ready" /\ cursor = Null
      /\ UNCHANGED <<sync, created, cursor, search>> /\ UNCHANGED Graph /\ search = <<>>
  BY DEF Synchronized, Graph
<1>2. Configuration' /\ ListsInv'
  <2>1. UNCHANGED Graph /\ (phase' \in Early <=> phase \in Early)
    BY <1>1 DEF Early
  <2>2. QED
    BY <2>1, ListsStay
<1>3. /\ Ids' = Ids /\ Live' = Live /\ \A v : Adjacent(v)' = Adjacent(v)
      /\ \A v, w : Linked(v, w)' = Linked(v, w) /\ (Connected(v, w)' <=> Connected(v, w))
  BY <1>1, GraphStays, ConnectedStays
<1>4. Steps'
  <2>1. created' + cursor' <= Len(registered')
    BY <1>1 DEF IInv, Steps, Graph
  <2>2. QED
    BY <1>1, <1>3, <2>1 DEF IInv, Steps, Early
<1>5. Calls' /\ WholeInv' /\ Joined' /\ Marked' /\ Covered'
  BY <1>1, <1>3 DEF IInv, Domains, Calls, WholeInv, Joined, Marked, Covered, Open, Early
<1>6. QED
  BY <1>2, <1>4, <1>5 DEF IInv, Domains

LEMMA StutterInv ==
  ASSUME IInv, UNCHANGED vars
  PROVE  IInv'
<1>1. UNCHANGED Graph /\ (phase' \in Early <=> phase \in Early) /\ UNCHANGED <<sync, created, cursor, search, phase>>
  BY DEF vars, Graph
<1>2. Configuration' /\ ListsInv'
  <2>1. UNCHANGED Graph /\ (phase' \in Early <=> phase \in Early)
    BY <1>1
  <2>2. QED
    BY <2>1, ListsStay
<1>3. /\ Ids' = Ids /\ Live' = Live /\ \A v : Adjacent(v)' = Adjacent(v)
      /\ \A v, w : Linked(v, w)' = Linked(v, w) /\ (Connected(v, w)' <=> Connected(v, w))
  BY <1>1, GraphStays, ConnectedStays
<1>4. Steps'
  <2>1. created' + cursor' <= Len(registered')
    BY <1>1 DEF IInv, Steps, Graph
  <2>2. QED
    BY <1>1, <1>3, <2>1 DEF IInv, Steps, Early
<1>5. Calls' /\ WholeInv' /\ Joined' /\ Marked' /\ Covered'
  BY <1>1, <1>3 DEF IInv, Domains, Calls, WholeInv, Joined, Marked, Covered, Open, Early
<1>6. QED
  BY <1>2, <1>4, <1>5 DEF IInv, Domains

-----------------------------------------------------------------------------
(* What the code relies on throughout. *)
THEOREM EngineInvariant == Spec => []IInv
<1>1. Init => IInv
  BY InitInv
<1>2. IInv /\ [Next]_vars => IInv'
  <2>1. SUFFICES ASSUME IInv, [Next]_vars
                 PROVE  IInv'
    OBVIOUS
  <2>2. CASE RegisterVariable
    BY <2>1, <2>2, RegisterInv
  <2>3. CASE \E value, status \in SUBSET Ids : InstantiateCalculatedVariable(value, status)
    BY <2>1, <2>3, InstantiateInv
  <2>4. CASE FormulaNotFound
    BY <2>1, <2>4, NotFoundInv
  <2>5. CASE Optimize
    BY <2>1, <2>5, OptimizeInv
  <2>6. CASE SynchronizeNext
    BY <2>1, <2>6, SynchronizeInv
  <2>7. CASE \E u \in Ids : LookAt(u)
    BY <2>1, <2>7, LookAtInv
  <2>8. CASE Return
    BY <2>1, <2>8, ReturnInv
  <2>9. CASE Synchronized
    BY <2>1, <2>9, SynchronizedInv
  <2>10. CASE UNCHANGED vars
    BY <2>1, <2>10, StutterInv
  <2>11. QED
    BY <2>1, <2>2, <2>3, <2>4, <2>5, <2>6, <2>7, <2>8, <2>9, <2>10 DEF Next
<1>3. QED
  BY <1>1, <1>2, PTL DEF Spec

(* In every configuration no formula and no calculated variable is left with a
   pointer to a variable that optimize() erased. *)
THEOREM EngineLeavesNoDanglingVariable == Spec => []NoDanglingVariable
<1>1. IInv => NoDanglingVariable
  BY PointersAreListed DEF IInv
<1>2. QED
  BY <1>1, EngineInvariant, PTL

(* The variables of one synchronizer are closed under links when the search is
   done, and none is without. *)
LEMMA ReadyDomains ==
  ASSUME IInv, phase = "ready"
  PROVE  /\ \A v \in Live : sync[v] # Null
         /\ \A u, v \in Live : Linked(u, v) => sync[v] = sync[u]
<1>1. \A v \in Live : sync[v] # Null
  <2>1. \A v \in Live : v \in Nat /\ v # 0
    BY LiveIsRegistered DEF IInv
  <2>2. cursor = 0
    BY DEF IInv, Steps, Null
  <2>3. \A v \in Live : v > cursor
    BY <2>1, <2>2
  <2>4. QED
    BY <2>3 DEF IInv, Domains, Covered, Early
<1>2. ASSUME NEW u \in Live, NEW v \in Live, Linked(u, v)
      PROVE  sync[v] = sync[u]
  <2>1. sync[v] = sync[u] \/ Open(u, v)
    BY <1>1, <1>2 DEF IInv, Domains, WholeInv
  <2>2. search = <<>>
    BY DEF IInv, Steps
  <2>3. QED
    BY <2>1, <2>2 DEF Open
<1>3. QED
  BY <1>1, <1>2

(* Two variables that can change and that formulas read have one synchronizer
   exactly if the graph connects them, and nothing else has any: the search
   misses none and joins none, in whatever order variables are registered and
   neighbours are looked at. *)
THEOREM EngineDomainsAreComponents == Spec => []DomainsAreComponents
<1>1. IInv => DomainsAreComponents
  <2>1. SUFFICES ASSUME IInv, phase = "ready"
                 PROVE  /\ \A u, v \in Live : sync[u] # Null /\ (sync[u] = sync[v] <=> Connected(u, v))
                        /\ \A v \in Ids \ Live : sync[v] = Null
    BY DEF DomainsAreComponents
  <2>2. ASSUME NEW u \in Live, NEW v \in Live, Connected(u, v)
        PROVE  sync[u] = sync[v]
    <3>1. Closed({w \in Live : sync[w] = sync[u]})
      BY <2>1, ReadyDomains DEF Closed
    <3>2. QED
      BY <3>1, <2>2 DEF Connected
  <2>3. ASSUME NEW u \in Live, NEW v \in Live, sync[u] = sync[v]
        PROVE  Connected(u, v)
    BY <2>1, <2>3, ReadyDomains DEF IInv, Domains, Joined
  <2>4. \A v \in Ids \ Live : sync[v] = Null
    BY <2>1 DEF IInv, Domains, Marked
  <2>5. QED
    BY <2>1, <2>2, <2>3, <2>4, ReadyDomains
<1>2. QED
  BY <1>1, EngineInvariant, PTL

(* What the calculated variables need at run time (SynchronizerAssumption of
   CalcVariables): an input that can change has the synchronizer of every listed
   calculated variable it notifies. *)
InputsShareSynchronizer ==
  phase = "ready" =>
    \A c \in listed : \A v \in Ids : c \in Notified(v) /\ ~ IsConstant(v) => sync[v] = sync[c] /\ sync[c] # Null

THEOREM EngineInputsShareSynchronizer == Spec => []InputsShareSynchronizer
<1>1. IInv => InputsShareSynchronizer
  <2>1. SUFFICES ASSUME IInv, phase = "ready", NEW c \in listed, NEW v \in Ids, c \in Notified(v), ~ IsConstant(v)
                 PROVE  sync[v] = sync[c] /\ sync[c] # Null
    BY DEF InputsShareSynchronizer
  <2>2. c \in Ids /\ v \in Inputs(c)
    BY <2>1 DEF Notified
  <2>3. v \in listed
    BY <2>1, <2>2, PointersAreListed DEF IInv, NoDanglingVariable
  <2>4. v \in Live /\ c \in Live /\ Linked(v, c)
    BY <2>1, <2>2, <2>3 DEF Live, IsConstant, Linked
  <2>5. QED
    BY <2>1, <2>4, ReadyDomains
<1>2. QED
  BY <1>1, EngineInvariant, PTL

-----------------------------------------------------------------------------
(* What may be in a table. *)
Charset(table) ==
  CASE table \in {"PostOprtDef", "OprtDef"} -> OperatorLike
    [] table = "InfixOprtDef" -> InfixLike
    [] OTHER -> NameTokens
Callbacks(table) ==
  CASE table = "FunDef" ->
         {NumericCallback(1), NumericCallback(2), MultiArgCallback, BulkCallback(1), StringCallback(0), StringCallback(1)}
    [] table = "PostOprtDef" -> {UnaryCallback("OPRT_POSTFIX", PrPostfix)}
    [] table = "InfixOprtDef" -> {UnaryCallback("OPRT_INFIX", PrInfix)}
    [] table = "OprtDef" -> {BinaryCallback(0, "left")}
    [] table = "ConstDef" -> {SetVal}
    [] table = "VarDef" -> {SetVar}
    [] table = "StrVarDef" -> {SetString}
CallbackTables == {"FunDef", "PostOprtDef", "InfixOprtDef", "OprtDef"}
Tables == CallbackTables \cup {"ConstDef", "VarDef", "StrVarDef"}

Entry(d) == d.table \in Tables /\ d.name \in Charset(d.table) /\ d.as \in Callbacks(d.table)
Entries == \A d \in defs : Entry(d)

(* A table has one definition of a name, and a name means one callback, but
   for the operators that are both unary and binary. *)
Unique == \A d, e \in defs : d.table = e.table /\ d.name = e.name => d = e
Apart ==
  \A d, e \in defs : d.name = e.name /\ d.table \in CallbackTables => e.table \notin Conflicting(d.table)

CodeInv == mode = "code" => code # NoRpn /\ code = Compiled(expr, factory)

ParserInv ==
  /\ Entries /\ Unique /\ Apart
  /\ expr \in Uses \cup {NoFormula} /\ factory \in BOOLEAN
  /\ CodeInv

-----------------------------------------------------------------------------
(* What a table says of a name does not depend on how it is looked up. *)
LEMMA TheDefinition ==
  ASSUME NEW D, NEW d \in D, \A e \in D : e.table = d.table /\ e.name = d.name => e = d
  PROVE  (CHOOSE e \in D : e.table = d.table /\ e.name = d.name) = d
  OBVIOUS

LEMMA DefinitionIs ==
  ASSUME Unique, NEW d \in defs
  PROVE  Defined(d.table, d.name) /\ Definition(d.table, d.name) = d
  BY TheDefinition DEF Unique, Defined, Definition

LEMMA DefinitionIn ==
  ASSUME NEW t, NEW n, Defined(t, n)
  PROVE  Definition(t, n) \in defs /\ Definition(t, n).table = t /\ Definition(t, n).name = n
  BY DEF Defined, Definition

(* Tables that grow keep what they say. *)
Keeps(t, n) ==
  /\ Defined(t, n) => Defined(t, n)' /\ Definition(t, n)' = Definition(t, n)

LEMMA GrowingKeeps ==
  ASSUME defs \subseteq defs', Unique', NEW t, NEW n
  PROVE  Keeps(t, n)
<1> SUFFICES ASSUME Defined(t, n) PROVE Defined(t, n)' /\ Definition(t, n)' = Definition(t, n)
  BY DEF Keeps
<1> DEFINE d == Definition(t, n)
<1>1. d \in defs' /\ d.table = t /\ d.name = n
  BY DefinitionIn
<1> HIDE DEF d
<1>2. \A e \in defs' : e.table = d.table /\ e.name = d.name => e = d
  BY <1>1 DEF Unique
<1>3. Defined(t, n)'
  BY <1>1 DEF Defined
<1>4. Definition(t, n)' = d
  BY <1>1, <1>2, TheDefinition DEF Definition
<1> QED
  BY <1>3, <1>4 DEF d

-----------------------------------------------------------------------------
(* The variables that are new were made by the factory, in the place of names
   that nothing else was read as. *)
Variables(D) == \A d \in D \ defs : d = Variable(d.name) /\ \E b \in BOOLEAN : FirstToken(d.name, b, TRUE) = d

(* What a name was read as, it goes on being read as. *)
Widened ==
  /\ defs \subseteq defs' /\ Variables(defs')
  /\ NameTokens \subseteq NameTokens' /\ builtin' = builtin

LEMMA OnlyVariables ==
  ASSUME Widened, NEW t, t # "VarDef", NEW n
  PROVE  Defined(t, n)' <=> Defined(t, n)
<1>1. ASSUME NEW d \in defs', d.table = t PROVE d \in defs
  <2>1. d \notin defs => d = Variable(d.name)
    BY DEF Widened, Variables
  <2>2. Variable(d.name).table = "VarDef"
    BY DEF Variable
  <2> QED
    BY <1>1, <2>1, <2>2
<1> QED
  BY <1>1 DEF Widened, Defined

LEMMA NewVariable ==
  ASSUME Entries, Widened, NEW n, Defined("VarDef", n)', ~Defined("VarDef", n), Unique'
  PROVE  /\ ~(UserOperator(n) /\ Defined("InfixOprtDef", n)) /\ ~BuiltInOperator(n)
         /\ ~Defined("ConstDef", n) /\ ~IsStrVarTok(n)
         /\ ~(n \in InfixLike /\ Defined("InfixOprtDef", n))
         /\ n \in NameTokens /\ Definition("VarDef", n)' = Variable(n)
<1>1. PICK d \in defs' : d.table = "VarDef" /\ d.name = n
  BY DEF Defined
<1>2. d \notin defs /\ d = Variable(n)
  BY <1>1 DEF Defined, Widened, Variables
<1>3. PICK b \in BOOLEAN : FirstToken(n, b, TRUE) = d
  BY <1>1, <1>2 DEF Widened, Variables
<1>4. \A t : Defined(t, n) => Definition(t, n) # d
  BY <1>2, DefinitionIn
<1>5. d # Refused
  BY <1>1 DEF Refused
<1>6. \A e \in defs' : e.table = d.table /\ e.name = d.name => e = d
  BY <1>1 DEF Unique
<1>7. Definition("VarDef", n)' = d
  BY <1>1, <1>6, TheDefinition DEF Definition
<1> QED
  BY <1>2, <1>3, <1>4, <1>5, <1>7 DEF FirstToken, Infix, IsFunTok, IsStrVarTok

LEMMA SameFirstToken ==
  ASSUME Entries, Unique', Widened, NEW n, NEW b \in BOOLEAN, NEW l, NEW m, l => m,
         l \/ defs' = defs, FirstToken(n, b, l) # Refused
  PROVE  FirstToken(n, b, m)' = FirstToken(n, b, l)
<1>1. \A t : Keeps(t, n)
  BY GrowingKeeps DEF Widened
<1>2. /\ Defined("OprtDef", n)' <=> Defined("OprtDef", n)
      /\ Defined("InfixOprtDef", n)' <=> Defined("InfixOprtDef", n)
      /\ Defined("FunDef", n)' <=> Defined("FunDef", n)
      /\ Defined("ConstDef", n)' <=> Defined("ConstDef", n)
      /\ Defined("StrVarDef", n)' <=> Defined("StrVarDef", n)
  BY OnlyVariables
<1>3. /\ UserOperator(n)' <=> UserOperator(n)
      /\ BuiltInOperator(n)' <=> BuiltInOperator(n)
      /\ IsStrVarTok(n)' <=> IsStrVarTok(n)
      /\ Infix(n)' = Infix(n)
  BY <1>1, <1>2 DEF UserOperator, BuiltInOperator, IsStrVarTok, Infix, Keeps, Widened
<1>4. Defined("FunDef", n) => n \in NameTokens
  BY DEF Defined, Entries, Entry, Charset
<1>5. IsFunTok(n, b)' <=> IsFunTok(n, b)
  BY <1>2, <1>4 DEF IsFunTok, Widened
<1>6. n \in NameTokens => n \in NameTokens'
  BY DEF Widened
<1>7. CASE Defined("VarDef", n)' <=> Defined("VarDef", n)
  <2>1. /\ IsFunTok(n, b) => Definition("FunDef", n)' = Definition("FunDef", n)
        /\ Defined("ConstDef", n) => Definition("ConstDef", n)' = Definition("ConstDef", n)
        /\ Defined("VarDef", n) => Definition("VarDef", n)' = Definition("VarDef", n)
        /\ IsStrVarTok(n) => Definition("StrVarDef", n)' = Definition("StrVarDef", n)
    BY <1>1 DEF Keeps, IsFunTok, IsStrVarTok
  <2> QED
    BY <1>2, <1>3, <1>5, <1>6, <1>7, <2>1 DEF FirstToken
<1>8. CASE Defined("VarDef", n)' /\ ~Defined("VarDef", n)
  <2>1. /\ ~(UserOperator(n) /\ Defined("InfixOprtDef", n)) /\ ~BuiltInOperator(n)
        /\ ~Defined("ConstDef", n) /\ ~IsStrVarTok(n)
        /\ ~(n \in InfixLike /\ Defined("InfixOprtDef", n))
        /\ n \in NameTokens /\ Definition("VarDef", n)' = Variable(n)
    BY <1>8, NewVariable
  <2>2. l
    BY <1>8 DEF Defined
  <2>3. CASE IsFunTok(n, b)
    BY <1>1, <1>2, <1>3, <1>5, <2>1, <2>3 DEF FirstToken, Keeps, IsFunTok
  <2>4. CASE ~IsFunTok(n, b)
    <3>1. FirstToken(n, b, l) = Variable(n)
      BY <1>8, <2>1, <2>2, <2>4 DEF FirstToken
    <3>2. FirstToken(n, b, m)' = Definition("VarDef", n)'
      BY <1>8, <1>2, <1>3, <1>5, <2>1, <2>4 DEF FirstToken
    <3> QED
      BY <2>1, <3>1, <3>2
  <2> QED
    BY <2>3, <2>4
<1> QED
  BY <1>1, <1>7, <1>8 DEF Keeps

LEMMA SameSecondToken ==
  ASSUME defs' = defs, builtin' = builtin, NEW n
  PROVE  SecondToken(n)' = SecondToken(n)
  BY DEF SecondToken, UserOperator, BuiltInOperator, IsStrVarTok, Defined, Definition

-----------------------------------------------------------------------------
LEMMA UseParts ==
  ASSUME NEW use \in Uses
  PROVE  /\ use.place \in {"alone", "prefix", "suffix", "between", "call"}
         /\ use.place # "call" => use.args = <<>>
         /\ use.place = "call" => use.args \in Lists
         /\ use # NoFormula
  BY DEF Uses, NoFormula

LEMMA SameArgument ==
  ASSUME Entries, Unique', Widened, NEW x, NEW l \in BOOLEAN, NEW m \in BOOLEAN, l => m,
         l \/ defs' = defs, Argument(x, l).table \in Operands
  PROVE  Argument(x, m)' = Argument(x, l)
<1>1. CASE x \in {Number, Quoted}
  BY <1>1 DEF Argument, Number, Quoted
<1>2. CASE x \notin {Number, Quoted}
  <2>1. FirstToken(x, FALSE, l) # Refused
    <3>1. FirstToken(x, FALSE, l).table \in Operands
      BY <1>2 DEF Argument
    <3>2. Refused.table \notin Operands
      BY DEF Refused, Operands
    <3> QED
      BY <3>1, <3>2
  <2>2. FirstToken(x, FALSE, m)' = FirstToken(x, FALSE, l)
    BY <2>1, SameFirstToken
  <2> QED
    BY <1>2, <2>2 DEF Argument
<1> QED
  BY <1>1, <1>2

LEMMA SameCompiled ==
  ASSUME Entries, Unique', Widened, NEW use \in Uses \cup {NoFormula},
         NEW l \in BOOLEAN, NEW m \in BOOLEAN, l => m, l \/ defs' = defs,
         use.place \in {"suffix", "between"} => defs' = defs,
         Compiled(use, l) # NoRpn
  PROVE  Compiled(use, m)' = Compiled(use, l)
<1> DEFINE d == Token(use, l)
           g == Given(use, l)
<1>1. use \in Uses /\ use # NoFormula /\ Fits(use, d, g) /\ Compiled(use, l) = <<d>> \o g
  BY UseParts DEF Compiled
<1>2. d # Refused
  <2>1. d.table \in {"ConstDef", "VarDef", "FunDef", "InfixOprtDef", "PostOprtDef", "OprtDef", "built in"}
    <3> HIDE DEF d, g
    <3> QED
      BY <1>1, UseParts DEF Fits, Opens
  <2> HIDE DEF d, g
  <2>2. Refused.table = "refused"
    BY DEF Refused
  <2> QED
    BY <2>1, <2>2
<1>3. Token(use, m)' = d
  <2>1. CASE use.place \in {"suffix", "between"}
    BY <2>1, SameSecondToken DEF Token, Widened
  <2>2. CASE use.place \notin {"suffix", "between"}
    <3>1. FirstToken(use.name, use.place = "call", l) # Refused
      BY <1>2, <2>2 DEF Token
    <3>2. (use.place = "call") \in BOOLEAN
      OBVIOUS
    <3> DEFINE b == use.place = "call"
    <3>3. FirstToken(use.name, b, l) # Refused /\ b \in BOOLEAN
      BY <3>1, <3>2
    <3>4. FirstToken(use.name, b, m)' = FirstToken(use.name, b, l)
      <4> HIDE DEF b
      <4> QED
        BY <3>3, SameFirstToken
    <3> QED
      BY <2>2, <3>4 DEF Token
  <2> QED
    BY <2>1, <2>2
<1>4. Given(use, m)' = g
  <2>1. ASSUME NEW i \in DOMAIN use.args PROVE Argument(use.args[i], m)' = Argument(use.args[i], l)
    <3>1. use.place = "call"
      BY <1>1, <2>1, UseParts
    <3>2. g[i].table \in Operands /\ g[i] = Argument(use.args[i], l)
      BY <1>1, <3>1 DEF Fits, Given
    <3> HIDE DEF g
    <3> DEFINE x == use.args[i]
    <3>3. Argument(x, l).table \in Operands
      BY <3>2
    <3> HIDE DEF x
    <3>4. Argument(x, m)' = Argument(x, l)
      BY <3>3, SameArgument
    <3> QED
      BY <3>4 DEF x
  <2> QED
    BY <2>1 DEF Given
<1> QED
  BY <1>1, <1>3, <1>4 DEF Compiled

-----------------------------------------------------------------------------
(* The tables stay what they are, however they change. *)
TablesInv == Entries /\ Unique /\ Apart

LEMMA FewerDefinitions ==
  ASSUME TablesInv, defs' \subseteq defs, NameTokens \subseteq NameTokens'
  PROVE  TablesInv'
<1>1. \A t : Charset(t) \subseteq Charset(t)'
  BY DEF Charset
<1>2. Entries'
  BY <1>1 DEF TablesInv, Entries, Entry
<1> QED
  BY <1>2 DEF TablesInv, Unique, Apart

LEMMA ConflictingIsMutual ==
  ASSUME NEW s \in CallbackTables, NEW t \in Tables, t \in Conflicting(s)
  PROVE  t \in CallbackTables /\ s \in Conflicting(t)
  BY DEF CallbackTables, Tables, Conflicting

LEMMA MoreDefinitions ==
  ASSUME TablesInv, NEW t \in Tables, NEW n \in Charset(t), NEW as \in Callbacks(t), Define(t, n, as),
         t \in CallbackTables => \A other \in Conflicting(t) : ~Defined(other, n)
  PROVE  TablesInv'
<1> DEFINE new == [table |-> t, name |-> n, as |-> as, by |-> made + 1]
<1>1. /\ defs' = {d \in defs : ~(d.table = t /\ d.name = n)} \cup {new}
      /\ dots' = dots
  BY DEF Define
<1>2. new.table = t /\ new.name = n /\ new.as = as
  OBVIOUS
<1> HIDE DEF new
<1>3. \A s : Charset(s)' = Charset(s)
  BY <1>1 DEF Charset, NameTokens
<1>4. Entries'
  BY <1>1, <1>2, <1>3 DEF TablesInv, Entries, Entry
<1>5. Unique'
  BY <1>1, <1>2 DEF TablesInv, Unique
<1>6. Apart'
  <2> SUFFICES ASSUME NEW d \in defs', NEW e \in defs', d.name = e.name, d.table \in CallbackTables
               PROVE  e.table \notin Conflicting(d.table)
    BY DEF Apart
  <2>1. d.table \in Tables /\ e.table \in Tables
    BY <1>4 DEF Entries, Entry
  <2>2. CASE d \in defs /\ e \in defs
    BY <2>2 DEF TablesInv, Apart
  <2>3. CASE d = new /\ e \in defs
    BY <1>2, <2>3 DEF Defined
  <2>4. CASE d \in defs /\ e = new
    BY <1>2, <2>1, <2>4, ConflictingIsMutual DEF Defined
  <2>5. CASE d = new /\ e = new
    BY <1>2, <2>5 DEF CallbackTables, Conflicting
  <2> QED
    BY <1>1, <2>2, <2>3, <2>4, <2>5
<1> QED
  BY <1>4, <1>5, <1>6 DEF TablesInv

-----------------------------------------------------------------------------
(* What follows the first of the tokens that are read. *)
LEMMA ElementOf ==
  ASSUME NEW S, NEW g \in Seq(S), NEW d, NEW i \in DOMAIN (<<d>> \o g)
  PROVE  (<<d>> \o g)[i] = d \/ \E k \in DOMAIN g : (<<d>> \o g)[i] = g[k]
<1> DEFINE T == S \cup {d}
<1>1. g \in Seq(T) /\ <<d>> \in Seq(T) /\ Len(<<d>>) = 1 /\ Len(g) \in Nat /\ DOMAIN g = 1 .. Len(g)
  OBVIOUS
<1>2. /\ Len(<<d>> \o g) = 1 + Len(g) /\ DOMAIN (<<d>> \o g) = 1 .. 1 + Len(g)
      /\ \A k \in 1 .. 1 + Len(g) : (<<d>> \o g)[k] = IF k <= 1 THEN <<d>>[k] ELSE g[k - 1]
  BY <1>1
<1>3. CASE i = 1
  BY <1>2, <1>3
<1>4. CASE i # 1
  <2>1. i - 1 \in DOMAIN g /\ (<<d>> \o g)[i] = g[i - 1]
    BY <1>1, <1>2, <1>4
  <2> QED
    BY <2>1
<1> QED
  BY <1>3, <1>4

LEMMA MappedSequence ==
  ASSUME NEW S, NEW s \in Seq(S), NEW g, DOMAIN g = DOMAIN s, g = [i \in DOMAIN s |-> g[i]]
  PROVE  g \in Seq({g[i] : i \in DOMAIN s})
<1>1. Len(s) \in Nat /\ DOMAIN s = 1 .. Len(s)
  OBVIOUS
<1> QED
  BY <1>1

LEMMA ArgsAreSequences ==
  ASSUME NEW use \in Uses
  PROVE  use.args \in Seq({Number, Quoted} \cup NameLike)
<1>1. CASE use.args = <<>>
  BY <1>1
<1>2. CASE use.args \in Lists
  <2>1. CASE use.args = <<Quoted, Number>>
    BY <2>1
  <2>2. CASE \E x \in {Number, Quoted} \cup NameLike : use.args = <<x>>
    BY <2>2
  <2> QED
    BY <1>2, <2>1, <2>2 DEF Lists
<1> QED
  BY <1>1, <1>2, UseParts

(* A name that is read as the variable of that name may be one. *)
LEMMA ReadVariable ==
  ASSUME Entries, NEW x, NEW b, NEW l, NEW n, FirstToken(x, b, l) = Variable(n)
  PROVE  x = n /\ n \in NameTokens
<1>1. Variable(n).table = "VarDef" /\ Variable(n).name = n /\ Variable(x).name = x
  BY DEF Variable
<1>2. Refused.table # "VarDef"
  BY DEF Refused
<1>3. FirstToken(x, b, l) \notin {Infix(x), Refused}
  BY <1>1, <1>2, DefinitionIn DEF Infix
<1>4. /\ Defined("FunDef", x) => FirstToken(x, b, l) # Definition("FunDef", x)
      /\ Defined("ConstDef", x) => FirstToken(x, b, l) # Definition("ConstDef", x)
      /\ Defined("StrVarDef", x) => FirstToken(x, b, l) # Definition("StrVarDef", x)
  BY <1>1, DefinitionIn
<1>5. \/ Defined("VarDef", x) /\ FirstToken(x, b, l) = Definition("VarDef", x)
      \/ x \in NameTokens /\ FirstToken(x, b, l) = Variable(x)
  BY <1>3, <1>4 DEF FirstToken, IsFunTok, IsStrVarTok
<1>6. CASE Defined("VarDef", x) /\ FirstToken(x, b, l) = Definition("VarDef", x)
  <2>1. Variable(n) \in defs /\ x = n
    BY <1>1, <1>6, DefinitionIn
  <2>2. Entry(Variable(n))
    BY <2>1 DEF Entries
  <2> QED
    BY <1>1, <2>1, <2>2 DEF Entry, Charset
<1>7. CASE x \in NameTokens /\ FirstToken(x, b, l) = Variable(x)
  BY <1>1, <1>7
<1> QED
  BY <1>5, <1>6, <1>7

LEMMA SecondTokenTable ==
  ASSUME NEW n
  PROVE  SecondToken(n).table \in {"OprtDef", "PostOprtDef", "built in", "refused"}
<1>1. Defined("OprtDef", n) => Definition("OprtDef", n).table = "OprtDef"
  BY DefinitionIn
<1>2. Defined("PostOprtDef", n) => Definition("PostOprtDef", n).table = "PostOprtDef"
  BY DefinitionIn
<1>3. Refused.table = "refused"
  BY DEF Refused
<1>4. [table |-> "built in", name |-> n].table = "built in"
  OBVIOUS
<1> QED
  BY <1>1, <1>2, <1>3, <1>4 DEF SecondToken, UserOperator

LEMMA CreatedAreRead ==
  ASSUME Entries, expr \in Uses \cup {NoFormula}, NEW v \in CreatedVariables
  PROVE  /\ factory /\ expr.place \notin {"suffix", "between"}
         /\ \E n : n \in NameTokens /\ v = Variable(n) /\ \E b \in BOOLEAN : FirstToken(n, b, TRUE) = v
<1>0. PICK use : use = expr
  OBVIOUS
<1> DEFINE d == Token(use, TRUE)
           g == Given(use, TRUE)
           rest == IF Opens(d) THEN g ELSE <<>>
<1>1. /\ use \in Uses /\ factory
      /\ \E n : v = Variable(n) /\ \E i \in DOMAIN (<<d>> \o rest) : (<<d>> \o rest)[i] = v
  BY <1>0 DEF CreatedVariables, TokensRead
<1>2. PICK n : v = Variable(n)
  BY <1>1
<1>3. v.table = "VarDef"
  BY <1>2 DEF Variable
<1>4. g \in Seq({g[k] : k \in DOMAIN use.args}) /\ DOMAIN g = DOMAIN use.args
  <2>1. DOMAIN g = DOMAIN use.args /\ g = [i \in DOMAIN use.args |-> g[i]]
    BY DEF Given
  <2> HIDE DEF g
  <2> QED
    BY <1>1, <2>1, ArgsAreSequences, MappedSequence
<1>5. rest \in Seq({g[k] : k \in DOMAIN use.args})
  <2> HIDE DEF g, d
  <2> QED
    BY <1>4
<1>6. v = d \/ \E k \in DOMAIN rest : v = rest[k]
  <2> HIDE DEF rest, d, g
  <2> QED
    BY <1>1, <1>5, ElementOf
<1>7. CASE v = d
  <2>1. use.place \notin {"suffix", "between"}
    <3> SUFFICES ASSUME use.place \in {"suffix", "between"} PROVE FALSE
      OBVIOUS
    <3>1. d = SecondToken(use.name)
      BY DEF Token
    <3>2. PICK x : x = use.name
      OBVIOUS
    <3>3. d = SecondToken(x)
      BY <3>1, <3>2
    <3>4. d.table # "VarDef"
      BY <3>3, SecondTokenTable
    <3> QED
      BY <1>3, <1>7, <3>4
  <2>2. FirstToken(use.name, use.place = "call", TRUE) = v
    BY <1>7, <2>1 DEF Token
  <2>3. use.name = n /\ n \in NameTokens
    <3>1. PICK x, b : x = use.name /\ b = (use.place = "call")
      OBVIOUS
    <3>2. FirstToken(x, b, TRUE) = Variable(n)
      BY <1>2, <2>2, <3>1
    <3>3. x = n /\ n \in NameTokens
      BY <3>2, ReadVariable
    <3> QED
      BY <3>1, <3>3
  <2>4. (use.place = "call") \in BOOLEAN
    OBVIOUS
  <2>5. \E b \in BOOLEAN : FirstToken(n, b, TRUE) = v
    BY <2>2, <2>3, <2>4
  <2> QED
    BY <1>1, <1>2, <2>1, <2>3, <2>5, <1>0
<1>8. CASE \E k \in DOMAIN rest : v = rest[k]
  <2>1. Opens(d) /\ \E k \in DOMAIN g : v = g[k]
    <3> HIDE DEF d, g
    <3> QED
      BY <1>8
  <2>2. PICK k \in DOMAIN use.args : v = Argument(use.args[k], TRUE)
    BY <1>4, <2>1 DEF Given
  <2>3. use.place \notin {"suffix", "between"}
    BY <1>1, <2>2, UseParts
  <2>4. v = FirstToken(use.args[k], FALSE, TRUE)
    BY <1>3, <2>2 DEF Argument
  <2>5. use.args[k] = n /\ n \in NameTokens
    <3>1. PICK x : x = use.args[k]
      OBVIOUS
    <3>2. FirstToken(x, FALSE, TRUE) = Variable(n)
      BY <1>2, <2>4, <3>1
    <3>3. x = n /\ n \in NameTokens
      BY <3>2, ReadVariable
    <3> QED
      BY <3>1, <3>3
  <2>6. \E b \in BOOLEAN : FirstToken(n, b, TRUE) = v
    BY <2>4, <2>5
  <2> QED
    BY <1>1, <1>2, <2>3, <2>5, <2>6, <1>0
<1> QED
  BY <1>6, <1>7, <1>8

(* Compiling adds nothing but such variables. *)
LEMMA CompileWidens ==
  ASSUME TablesInv, expr \in Uses \cup {NoFormula}, NEW keep, NEW l, Compile(keep, l)
  PROVE  /\ Widened /\ TablesInv'
         /\ ~factory => defs' = defs
         /\ expr.place \in {"suffix", "between"} => defs' = defs
<1>1. /\ defs' = defs \cup CreatedVariables /\ UNCHANGED <<dots, builtin>>
  BY DEF Compile
<1>2. \A t : Charset(t)' = Charset(t)
  BY <1>1 DEF Charset, NameTokens
<1>3. ASSUME NEW v \in CreatedVariables
      PROVE  /\ factory /\ expr.place \notin {"suffix", "between"}
             /\ \E n : n \in NameTokens /\ v = Variable(n) /\ \E b \in BOOLEAN : FirstToken(n, b, TRUE) = v
  BY <1>3, CreatedAreRead DEF TablesInv
<1>4. \A n : Variable(n).table = "VarDef" /\ Variable(n).name = n /\ Variable(n).as = SetVar
  BY DEF Variable
<1>5. ASSUME NEW v \in CreatedVariables
      PROVE  /\ v = Variable(v.name) /\ v.table = "VarDef" /\ v.as = SetVar /\ v.name \in NameTokens
             /\ \E b \in BOOLEAN : FirstToken(v.name, b, TRUE) = v
  <2>1. PICK n : n \in NameTokens /\ v = Variable(n) /\ \E b \in BOOLEAN : FirstToken(n, b, TRUE) = v
    BY <1>3
  <2>2. v.table = "VarDef" /\ v.name = n /\ v.as = SetVar
    BY <1>4, <2>1
  <2> QED
    BY <2>1, <2>2
<1>6. Widened
  BY <1>1, <1>5 DEF Widened, Variables, NameTokens
<1>7. Entries'
  <2> SUFFICES ASSUME NEW d \in defs' PROVE d.table \in Tables /\ d.name \in Charset(d.table)' /\ d.as \in Callbacks(d.table)
    BY DEF Entries, Entry
  <2>1. CASE d \in defs
    BY <1>2, <2>1 DEF TablesInv, Entries, Entry
  <2>2. CASE d \in CreatedVariables
    <3>1. d.table = "VarDef" /\ d.as = SetVar /\ d.name \in NameTokens
      BY <1>5, <2>2
    <3>2. d.name \in Charset("VarDef") /\ d.as \in Callbacks("VarDef") /\ "VarDef" \in Tables
      BY <3>1 DEF Charset, Callbacks, Tables
    <3> QED
      BY <1>2, <3>1, <3>2
  <2> QED
    BY <1>1, <2>1, <2>2
<1>8. ASSUME NEW d \in defs, NEW v \in CreatedVariables, d.table = "VarDef", d.name = v.name PROVE d = v
  <2>1. PICK b \in BOOLEAN : FirstToken(v.name, b, TRUE) = v
    BY <1>5
  <2>2. PICK n : n = v.name
    OBVIOUS
  <2>3. Defined("VarDef", n) /\ Definition("VarDef", n) = d
    BY <1>8, <2>2, DefinitionIs DEF TablesInv
  <2>4. v.table = "VarDef" /\ Refused.table = "refused"
    BY <1>5 DEF Refused
  <2>5. /\ Defined("FunDef", n) => Definition("FunDef", n) # v
        /\ Defined("InfixOprtDef", n) => Definition("InfixOprtDef", n) # v
        /\ Defined("ConstDef", n) => Definition("ConstDef", n) # v
    BY <2>4, DefinitionIn
  <2>6. Refused # v
    BY <2>4
  <2> QED
    BY <2>1, <2>2, <2>3, <2>5, <2>6 DEF FirstToken, Infix, IsFunTok
<1>9. Unique'
  <2> SUFFICES ASSUME NEW d \in defs', NEW e \in defs', d.table = e.table, d.name = e.name PROVE d = e
    BY DEF Unique
  <2>1. CASE d \in defs /\ e \in defs
    BY <2>1 DEF TablesInv, Unique
  <2>2. CASE d \in CreatedVariables /\ e \in CreatedVariables
    BY <1>5, <2>2
  <2>3. CASE d \in defs /\ e \in CreatedVariables
    BY <1>5, <1>8, <2>3
  <2>4. CASE e \in defs /\ d \in CreatedVariables
    BY <1>5, <1>8, <2>4
  <2> QED
    BY <1>1, <2>1, <2>2, <2>3, <2>4
<1>10. Apart'
  <2> SUFFICES ASSUME NEW d \in defs', NEW e \in defs', d.name = e.name, d.table \in CallbackTables
               PROVE  e.table \notin Conflicting(d.table)
    BY DEF Apart
  <2>1. d \in defs
    BY <1>1, <1>5 DEF CallbackTables
  <2>2. CASE e \in defs
    BY <2>1, <2>2 DEF TablesInv, Apart
  <2>3. CASE e \in CreatedVariables
    BY <1>5, <2>3 DEF CallbackTables, Conflicting
  <2> QED
    BY <1>1, <2>2, <2>3
<1> QED
  BY <1>1, <1>3, <1>6, <1>7, <1>9, <1>10 DEF TablesInv

-----------------------------------------------------------------------------
(* The constructor's definitions. *)
LEMMA InitTables ==
  ASSUME InitParser
  PROVE  TablesInv
<1>1. ASSUME NEW d \in defs
      PROVE  \/ /\ d.table = "FunDef" /\ d.name \in DOMAIN DefaultFunctions \cap Identifiers
                /\ d.as = DefaultFunctions[d.name] /\ d.by = 0
                /\ d = [table |-> d.table, name |-> d.name, as |-> d.as, by |-> 0]
             \/ /\ d.table = "ConstDef" /\ d.name \in DefaultConstants \cap Identifiers /\ d.as = SetVal /\ d.by = 0
                /\ d = [table |-> d.table, name |-> d.name, as |-> d.as, by |-> 0]
             \/ /\ d.table = "InfixOprtDef" /\ d.name \in DefaultInfix \cap Identifiers /\ d.by = 0
                /\ d.as = UnaryCallback("OPRT_INFIX", PrInfix)
                /\ d = [table |-> d.table, name |-> d.name, as |-> d.as, by |-> 0]
  BY DEF InitParser, Default
<1>2. \A f \in DOMAIN DefaultFunctions : DefaultFunctions[f] \in Callbacks("FunDef")
  BY DEF DefaultFunctions, Callbacks
<1>3. Entries
  <2> SUFFICES ASSUME NEW d \in defs PROVE Entry(d)
    BY DEF Entries
  <2>1. CASE d.table = "FunDef"
    <3>1. d.name \in NameLike /\ d.as \in Callbacks("FunDef")
      BY <1>1, <1>2, <2>1, IdentifiersAssumption
    <3> QED
      BY <2>1, <3>1 DEF Entry, Tables, CallbackTables, Charset, NameTokens
  <2>2. CASE d.table = "ConstDef"
    <3>1. d.name \in NameLike /\ d.as = SetVal
      BY <1>1, <2>2, IdentifiersAssumption
    <3> QED
      BY <2>2, <3>1 DEF Entry, Tables, CallbackTables, Charset, NameTokens, Callbacks
  <2>3. CASE d.table = "InfixOprtDef"
    <3>1. d.name \in InfixLike /\ d.as = UnaryCallback("OPRT_INFIX", PrInfix)
      BY <1>1, <2>3, IdentifiersAssumption
    <3> QED
      BY <2>3, <3>1 DEF Entry, Tables, CallbackTables, Charset, Callbacks
  <2> QED
    BY <1>1, <2>1, <2>2, <2>3
<1>4. Unique
  BY <1>1 DEF Unique
<1>5. Apart
  <2>1. DOMAIN DefaultFunctions \cap DefaultInfix = {}
    BY DEF DefaultFunctions, DefaultInfix
  <2> QED
    BY <1>1, <2>1 DEF Apart, CallbackTables, Conflicting
<1> QED
  BY <1>3, <1>4, <1>5 DEF TablesInv

LEMMA DefiningKeeps ==
  ASSUME ParserInv, NEW n \in Identifiers, DefineSomething(n)
  PROVE  ParserInv'
<1>1. /\ mode' = "string" /\ UNCHANGED <<dots, factory, expr>>
  BY DEF DefineSomething, DefineFun, DefinePostfixOprt, DefineInfixOprt, DefineOprt, DefineVar, DefineConst,
         DefineStrConst, AddCallback, Define, ReInit
<1>2. \E t \in Tables : \E as \in Callbacks(t) :
        /\ n \in Charset(t) /\ Define(t, n, as)
        /\ t \in CallbackTables => \A other \in Conflicting(t) : ~Defined(other, n)
  <2>1. CASE \E callback \in {NumericCallback(1), BulkCallback(1), StringCallback(0), StringCallback(1)} :
               DefineFun(n, callback)
    <3>0. PICK callback \in {NumericCallback(1), BulkCallback(1), StringCallback(0), StringCallback(1)} :
                 DefineFun(n, callback)
      BY <2>1
    <3>1. callback \in Callbacks("FunDef") /\ "FunDef" \in Tables
      BY DEF Callbacks, Tables, CallbackTables
    <3>2. n \in Charset("FunDef")
      BY <3>0 DEF Charset, DefineFun, AddCallback, CheckName
    <3>3. Define("FunDef", n, callback) /\ \A other \in Conflicting("FunDef") : ~Defined(other, n)
      BY <3>0 DEF DefineFun, AddCallback
    <3> QED
      BY <3>1, <3>2, <3>3
  <2>2. CASE DefinePostfixOprt(n)
    <3> DEFINE as == UnaryCallback("OPRT_POSTFIX", PrPostfix)
    <3>1. as \in Callbacks("PostOprtDef") /\ "PostOprtDef" \in Tables
      BY DEF Callbacks, Tables, CallbackTables
    <3>2. n \in Charset("PostOprtDef")
      BY <2>2 DEF Charset, DefinePostfixOprt, AddCallback, CheckName
    <3>3. Define("PostOprtDef", n, as) /\ \A other \in Conflicting("PostOprtDef") : ~Defined(other, n)
      BY <2>2 DEF DefinePostfixOprt, AddCallback
    <3> QED
      BY <3>1, <3>2, <3>3
  <2>3. CASE DefineInfixOprt(n)
    <3> DEFINE as == UnaryCallback("OPRT_INFIX", PrInfix)
    <3>1. as \in Callbacks("InfixOprtDef") /\ "InfixOprtDef" \in Tables
      BY DEF Callbacks, Tables, CallbackTables
    <3>2. n \in Charset("InfixOprtDef")
      BY <2>3 DEF Charset, DefineInfixOprt, AddCallback, CheckName
    <3>3. Define("InfixOprtDef", n, as) /\ \A other \in Conflicting("InfixOprtDef") : ~Defined(other, n)
      BY <2>3 DEF DefineInfixOprt, AddCallback
    <3> QED
      BY <3>1, <3>2, <3>3
  <2>4. CASE DefineOprt(n)
    <3> DEFINE as == BinaryCallback(0, "left")
    <3>1. as \in Callbacks("OprtDef") /\ "OprtDef" \in Tables
      BY DEF Callbacks, Tables, CallbackTables
    <3>2. n \in Charset("OprtDef")
      BY <2>4 DEF Charset, DefineOprt, AddCallback, CheckName
    <3>3. Define("OprtDef", n, as) /\ \A other \in Conflicting("OprtDef") : ~Defined(other, n)
      BY <2>4 DEF DefineOprt, AddCallback
    <3> QED
      BY <3>1, <3>2, <3>3
  <2>5. CASE DefineVar(n)
    BY <2>5 DEF DefineVar, CheckName, Callbacks, Tables, CallbackTables, Charset
  <2>6. CASE DefineConst(n)
    BY <2>6 DEF DefineConst, CheckName, Callbacks, Tables, CallbackTables, Charset
  <2>7. CASE DefineStrConst(n)
    BY <2>7 DEF DefineStrConst, CheckName, Callbacks, Tables, CallbackTables, Charset
  <2> QED
    BY <2>1, <2>2, <2>3, <2>4, <2>5, <2>6, <2>7 DEF DefineSomething
<1>3. TablesInv'
  BY <1>2, MoreDefinitions DEF ParserInv, TablesInv
<1> QED
  BY <1>1, <1>3 DEF ParserInv, TablesInv, CodeInv

LEMMA CompileKeeps ==
  ASSUME ParserInv, NEW keep \in BOOLEAN, NEW l \in BOOLEAN, Compile(keep, l), keep => l = factory
  PROVE  ParserInv'
<1>1. PICK use : use = expr
  OBVIOUS
<1>2. /\ Widened /\ TablesInv' /\ (~factory => defs' = defs)
      /\ expr.place \in {"suffix", "between"} => defs' = defs
  BY CompileWidens DEF ParserInv, TablesInv
<1>3. /\ code' = Compiled(use, l) /\ UNCHANGED <<expr, factory>>
      /\ mode' = "code" => keep /\ code' # NoRpn
  BY <1>1 DEF Compile
<1>4. ASSUME keep, code' # NoRpn PROVE Compiled(use, l)' = Compiled(use, l)
  <2>1. use \in Uses \cup {NoFormula} /\ (l \/ defs' = defs) /\ Compiled(use, l) # NoRpn
    BY <1>1, <1>2, <1>3, <1>4 DEF ParserInv
  <2> QED
    BY <1>1, <1>2, <2>1, SameCompiled DEF ParserInv, TablesInv
<1>5. CodeInv'
  BY <1>1, <1>3, <1>4 DEF CodeInv
<1> QED
  BY <1>2, <1>3, <1>5 DEF ParserInv, TablesInv

THEOREM ParserInitInv == ASSUME InitParser PROVE ParserInv
<1>1. TablesInv
  BY InitTables
<1>2. expr = NoFormula /\ factory = FALSE /\ mode = "string"
  BY DEF InitParser, ParserBase
<1> QED
  BY <1>1, <1>2 DEF ParserInv, TablesInv, CodeInv

THEOREM NextInv == ASSUME ParserInv, [ParserNext]_parser PROVE ParserInv'
<1>1. CASE \E n \in Identifiers : DefineSomething(n)
  BY <1>1, DefiningKeeps
<1>2. CASE \/ \E n \in Identifiers : RemoveVar(n)
           \/ ClearVar \/ ClearFun \/ ClearConst \/ ClearPostfixOprt \/ ClearOprt \/ ClearInfixOprt
  <2>1. /\ defs' \subseteq defs /\ mode' = "string" /\ UNCHANGED <<dots, factory, expr>>
    BY <1>2 DEF RemoveVar, ClearVar, ClearFun, ClearConst, ClearPostfixOprt, ClearOprt, ClearInfixOprt, Clear, ReInit
  <2>2. TablesInv'
    BY <2>1, FewerDefinitions DEF ParserInv, TablesInv, NameTokens
  <2> QED
    BY <2>1, <2>2 DEF ParserInv, TablesInv, CodeInv
<1>3. CASE \/ \E use \in Uses : SetExpr(use)
           \/ \E on \in BOOLEAN : EnableBuiltInOprt(on)
           \/ EnableOptimizer \/ Copy
  <2>1. /\ defs' = defs /\ mode' = "string" /\ UNCHANGED <<dots, factory>> /\ expr' \in Uses \cup {expr}
    BY <1>3 DEF SetExpr, EnableBuiltInOprt, EnableOptimizer, Copy, ReInit
  <2>2. TablesInv'
    BY <2>1, FewerDefinitions DEF ParserInv, TablesInv, NameTokens
  <2> QED
    BY <2>1, <2>2 DEF ParserInv, TablesInv, CodeInv
<1>4. CASE DefineNameChars \/ SetVarFactory \/ UNCHANGED parser
  <2>1. /\ UNCHANGED <<defs, builtin, expr, mode, code>> /\ NameTokens \subseteq NameTokens'
        /\ factory' \in BOOLEAN /\ (factory => factory')
    <3>1. CASE DefineNameChars
      BY <3>1 DEF DefineNameChars, NameTokens, ParserInv
    <3>2. CASE SetVarFactory
      BY <3>2 DEF SetVarFactory, NameTokens
    <3>3. CASE UNCHANGED parser
      BY <3>3 DEF parser, NameTokens, ParserInv
    <3> QED
      BY <1>4, <3>1, <3>2, <3>3
  <2>2. TablesInv'
    BY <2>1, FewerDefinitions DEF ParserInv, TablesInv
  <2>3. Widened
    BY <2>1 DEF Widened, Variables
  <2>4. ASSUME mode = "code" PROVE Compiled(expr, factory)' = Compiled(expr, factory)
    <3>1. PICK use, l, m : use = expr /\ l = factory /\ m = factory'
      OBVIOUS
    <3>2. Compiled(use, l) # NoRpn /\ use \in Uses \cup {NoFormula} /\ l \in BOOLEAN /\ m \in BOOLEAN /\ (l => m)
      BY <2>1, <2>4, <3>1 DEF ParserInv, CodeInv
    <3>3. Compiled(use, m)' = Compiled(use, l)
      BY <2>1, <2>2, <2>3, <3>2, SameCompiled DEF ParserInv, TablesInv
    <3> QED
      BY <2>1, <3>1, <3>3
  <2>5. CodeInv'
    BY <2>1, <2>4 DEF ParserInv, CodeInv
  <2> QED
    BY <2>1, <2>2, <2>5 DEF ParserInv, TablesInv
<1>5. CASE Eval
  <2>1. PICK l : l = factory
    OBVIOUS
  <2>2. Compile(TRUE, l) /\ l \in BOOLEAN
    BY <1>5, <2>1 DEF Eval, ParserInv
  <2> QED
    BY <2>1, <2>2, CompileKeeps
<1>6. CASE EvalBulk \/ GetUsedVar
  <2>1. PICK l : l \in BOOLEAN /\ Compile(FALSE, l)
    <3>1. CASE EvalBulk
      BY <3>1 DEF EvalBulk, ParserInv
    <3>2. CASE GetUsedVar
      BY <3>2 DEF GetUsedVar
    <3> QED
      BY <1>6, <3>1, <3>2
  <2> QED
    BY <2>1, CompileKeeps
<1> QED
  BY <1>1, <1>2, <1>3, <1>4, <1>5, <1>6 DEF ParserNext

(* The tables hold one definition of a name each, a name that is allowed, and
   byte code that is kept is current. *)
THEOREM ParserInvariant == ParserSpec => []ParserInv
<1> QED
  BY ParserInitInv, NextInv, PTL DEF ParserSpec

(* CodeIsCurrent, whatever is defined, removed or switched, and however often:
   Eval() runs no byte code that is not what the formula would be compiled to
   with the definitions of the moment (ParserBase::ReInit and who calls it). *)
THEOREM ParserCodeIsCurrent == ParserSpec => []CodeIsCurrent
<1>1. ParserInv => CodeIsCurrent
  BY DEF ParserInv, CodeInv, CodeIsCurrent
<1> QED
  BY <1>1, ParserInvariant, PTL

-----------------------------------------------------------------------------
(* What callbacks take, for each kind of callback and few arguments. *)
LEMMA TakesOne ==
  ASSUME NEW f, NEW a
  PROVE  Takes(f, <<a>>) <=>
           LET strings == IF GetType(f) = "STR" THEN 1 ELSE 0 IN
           /\ f.argc >= 0 => 1 = f.argc + strings
           /\ strings = 1 => GetType(a) = "STR"
           /\ strings = 0 => GetType(a) = "DBL"
<1> DEFINE s == <<a>>
<1>1. Len(s) = 1 /\ s # <<>> /\ s[1] = a /\ 1 .. Len(s) = {1} /\ 2 .. Len(s) = {}
  OBVIOUS
<1> HIDE DEF s
<1>2. CASE GetType(f) = "STR"
  BY <1>1, <1>2 DEF Takes, TakesString
<1>3. CASE GetType(f) # "STR"
  BY <1>1, <1>3 DEF Takes, TakesString
<1> QED
  BY <1>2, <1>3 DEF s

LEMMA TakesTwo ==
  ASSUME NEW f, NEW a, NEW b, GetType(f) = "STR", f.argc = 1, GetType(a) = "STR", GetType(b) = "DBL"
  PROVE  Takes(f, <<a, b>>)
<1> DEFINE s == <<a, b>>
<1>1. Len(s) = 2 /\ s # <<>> /\ s[1] = a /\ s[2] = b /\ 2 .. Len(s) = {2}
  OBVIOUS
<1> HIDE DEF s
<1>2. Takes(f, s)
  BY <1>1 DEF Takes, TakesString
<1> QED
  BY <1>2 DEF s

LEMMA TypesOfTokens ==
  /\ GetType(SetVal) = "DBL" /\ GetType(SetString) = "STR"
  /\ \A n : GetType(NumericCallback(n)) = "DBL" /\ NumericCallback(n).argc = n
  /\ \A n : GetType(BulkCallback(n)) = "DBL" /\ BulkCallback(n).argc = n
  /\ GetType(MultiArgCallback) = "DBL" /\ MultiArgCallback.argc = -1
  /\ \A n : GetType(StringCallback(n)) = "STR" /\ StringCallback(n).argc = n /\ StringCallback(n).code = "FUNC_STR"
  /\ GetType(UnaryCallback("OPRT_INFIX", PrInfix)) = "DBL" /\ UnaryCallback("OPRT_INFIX", PrInfix).argc = 1
  BY DEF GetType, SetVal, SetString, NumericCallback, BulkCallback, MultiArgCallback, StringCallback, UnaryCallback, Callback

(* The tokens between brackets, as far as they are needed. *)
LEMMA GivenNothing ==
  ASSUME NEW use, use.args = <<>>, NEW l
  PROVE  Given(use, l) = <<>>
  BY DEF Given

LEMMA GivenOne ==
  ASSUME NEW x, NEW use, use.args = <<x>>, NEW l
  PROVE  Given(use, l) = <<Argument(x, l)>>
<1>1. DOMAIN <<x>> = {1} /\ <<x>>[1] = x
  OBVIOUS
<1>2. Given(use, l) = [i \in {1} |-> Argument(x, l)]
  BY <1>1 DEF Given
<1> HIDE DEF Argument
<1>3. \A y : [i \in {1} |-> y] = <<y>>
  OBVIOUS
<1> QED
  BY <1>2, <1>3

LEMMA GivenTwo ==
  ASSUME NEW x, NEW y, NEW use, use.args = <<x, y>>, NEW l
  PROVE  Given(use, l) = <<Argument(x, l), Argument(y, l)>>
<1>1. DOMAIN <<x, y>> = {1, 2} /\ <<x, y>>[1] = x /\ <<x, y>>[2] = y
  OBVIOUS
<1>2. Given(use, l) = [i \in {1, 2} |-> IF i = 1 THEN Argument(x, l) ELSE Argument(y, l)]
  BY <1>1 DEF Given
<1>3. \A a, b : [i \in {1, 2} |-> IF i = 1 THEN a ELSE b] = <<a, b>>
  OBVIOUS
<1> QED
  BY <1>2, <1>3

-----------------------------------------------------------------------------
(* What uses of one name are compiled to. *)
InPlace(place, n, args) == [place |-> place, name |-> n, args |-> args]

LEMMA InPlaceParts ==
  ASSUME NEW place, place # "none", NEW n, NEW args
  PROVE  /\ InPlace(place, n, args).place = place /\ InPlace(place, n, args).name = n
         /\ InPlace(place, n, args).args = args /\ InPlace(place, n, args) # NoFormula
<1>1. NoFormula.place = "none"
  BY DEF NoFormula
<1> QED
  BY <1>1 DEF InPlace

TokenIn(place, n, l) == IF place \in {"suffix", "between"} THEN SecondToken(n) ELSE FirstToken(n, FALSE, l)
Stands(place, d) ==
  \/ place = "alone" /\ d.table \in {"ConstDef", "VarDef"}
  \/ place = "prefix" /\ d.table = "InfixOprtDef"
  \/ place = "suffix" /\ d.table = "PostOprtDef"
  \/ place = "between" /\ d.table = "OprtDef"

LEMMA CompiledWithout ==
  ASSUME NEW place, NEW n, NEW l, NEW d, TokenIn(place, n, l) = d, Stands(place, d)
  PROVE  Compiled(InPlace(place, n, <<>>), l) = <<d>>
<1> DEFINE use == InPlace(place, n, <<>>)
<1>0. place \in {"alone", "prefix", "suffix", "between"}
  BY DEF Stands
<1>1. use.place = place /\ use.name = n /\ use.args = <<>> /\ use # NoFormula
  BY <1>0, InPlaceParts
<1> HIDE DEF use
<1>2. Given(use, l) = <<>>
  BY <1>1, GivenNothing
<1>3. (place = "call") = FALSE
  BY <1>0
<1>4. Token(use, l) = d
  BY <1>0, <1>1, <1>3 DEF Token, TokenIn
<1>5. Fits(use, d, <<>>)
  BY <1>1 DEF Fits, Stands
<1>6. <<d>> \o <<>> = <<d>>
  OBVIOUS
<1>7. Compiled(use, l) = <<d>>
  BY <1>1, <1>2, <1>4, <1>5, <1>6 DEF Compiled
<1> QED
  BY <1>7 DEF use

LEMMA Concatenations ==
  ASSUME NEW d, NEW a, NEW b
  PROVE  <<d>> \o <<a>> = <<d, a>> /\ <<d>> \o <<a, b>> = <<d, a, b>>
<1> DEFINE S == {d, a, b}
<1>1. <<d>> \in Seq(S) /\ <<a>> \in Seq(S) /\ <<a, b>> \in Seq(S) /\ <<d, a>> \in Seq(S) /\ <<d, a, b>> \in Seq(S)
  OBVIOUS
<1>2. /\ Len(<<d>>) = 1 /\ Len(<<a>>) = 1 /\ Len(<<a, b>>) = 2 /\ Len(<<d, a>>) = 2 /\ Len(<<d, a, b>>) = 3
      /\ <<d>>[1] = d /\ <<a>>[1] = a /\ <<a, b>>[1] = a /\ <<a, b>>[2] = b
      /\ <<d, a>>[1] = d /\ <<d, a>>[2] = a /\ <<d, a, b>>[1] = d /\ <<d, a, b>>[2] = a /\ <<d, a, b>>[3] = b
  OBVIOUS
<1>3. <<d>> \o <<a>> = <<d, a>>
  <2> DEFINE s == <<d>>  t == <<a>>  r == <<d, a>>
  <2>1. s \in Seq(S) /\ t \in Seq(S) /\ r \in Seq(S) /\ Len(s) = 1 /\ Len(t) = 1 /\ Len(r) = 2
        /\ s[1] = d /\ t[1] = a /\ r[1] = d /\ r[2] = a
    BY <1>1, <1>2
  <2> HIDE DEF s, t, r, S
  <2>c. s \o t \in Seq(S) /\ Len(s \o t) = 2 /\ \A i \in 1 .. 2 : (s \o t)[i] = IF i <= 1 THEN s[i] ELSE t[i - 1]
    <3>1. s \o t \in Seq(S) /\ Len(s \o t) = Len(s) + Len(t)
          /\ \A i \in 1 .. Len(s) + Len(t) : (s \o t)[i] = IF i <= Len(s) THEN s[i] ELSE t[i - Len(s)]
      BY <2>1, ConcatProperties
    <3> QED
      BY <2>1, <3>1
  <2>2. s \o t \in Seq(S) /\ Len(s \o t) = 2 /\ (s \o t)[1] = d /\ (s \o t)[2] = a
    BY <2>1, <2>c
  <2>3. s \o t = r
    BY <2>1, <2>2, SeqEqual
  <2> QED
    BY <2>3 DEF s, t, r
<1>4. <<d>> \o <<a, b>> = <<d, a, b>>
  <2> DEFINE s == <<d>>  t == <<a, b>>  r == <<d, a, b>>
  <2>1. s \in Seq(S) /\ t \in Seq(S) /\ r \in Seq(S) /\ Len(s) = 1 /\ Len(t) = 2 /\ Len(r) = 3
        /\ s[1] = d /\ t[1] = a /\ t[2] = b /\ r[1] = d /\ r[2] = a /\ r[3] = b
    BY <1>1, <1>2
  <2> HIDE DEF s, t, r, S
  <2>c. s \o t \in Seq(S) /\ Len(s \o t) = 3 /\ \A i \in 1 .. 3 : (s \o t)[i] = IF i <= 1 THEN s[i] ELSE t[i - 1]
    <3>1. s \o t \in Seq(S) /\ Len(s \o t) = Len(s) + Len(t)
          /\ \A i \in 1 .. Len(s) + Len(t) : (s \o t)[i] = IF i <= Len(s) THEN s[i] ELSE t[i - Len(s)]
      BY <2>1, ConcatProperties
    <3> QED
      BY <2>1, <3>1
  <2>2. s \o t \in Seq(S) /\ Len(s \o t) = 3 /\ (s \o t)[1] = d /\ (s \o t)[2] = a /\ (s \o t)[3] = b
    BY <2>1, <2>c
  <2>3. s \o t = r
    BY <2>1, <2>2, SeqEqual
  <2> QED
    BY <2>3 DEF s, t, r
<1> QED
  BY <1>3, <1>4

LEMMA CompiledCall ==
  ASSUME NEW n, NEW l, NEW x, NEW d, NEW a, FirstToken(n, TRUE, l) = d, Opens(d),
         Argument(x, l) = a, a.table \in Operands
  PROVE  Compiled(InPlace("call", n, <<x>>), l) = IF Takes(d.as, <<a.as>>) THEN <<d, a>> ELSE NoRpn
<1> DEFINE use == InPlace("call", n, <<x>>)
<1>1. use.place = "call" /\ use.name = n /\ use.args = <<x>> /\ use # NoFormula
  BY InPlaceParts
<1> HIDE DEF use
<1>2. Given(use, l) = <<a>>
  BY <1>1, GivenOne
<1>3. Token(use, l) = d
  BY <1>1 DEF Token
<1> DEFINE g == <<a>>
<1>4. DOMAIN g = {1} /\ g[1] = a
  OBVIOUS
<1>5. [i \in DOMAIN g |-> g[i].as] = <<a.as>>
  BY <1>4
<1>6. <<d>> \o g = <<d, a>>
  BY Concatenations
<1> HIDE DEF g
<1>7. Fits(use, d, g) <=> Takes(d.as, <<a.as>>)
  BY <1>1, <1>4, <1>5 DEF Fits
<1>8. Given(use, l) = g
  BY <1>2 DEF g
<1>9. Compiled(use, l) = IF Takes(d.as, <<a.as>>) THEN <<d, a>> ELSE NoRpn
  BY <1>1, <1>3, <1>6, <1>7, <1>8 DEF Compiled
<1> QED
  BY <1>9 DEF use

LEMMA LiteralArguments ==
  ASSUME NEW l
  PROVE  /\ Argument(Number, l) = [table |-> "number", as |-> SetVal]
         /\ Argument(Quoted, l) = [table |-> "quoted", as |-> SetString]
         /\ Argument(Number, l).table \in Operands /\ Argument(Quoted, l).table \in Operands
         /\ Argument(Number, l).as = SetVal /\ Argument(Quoted, l).as = SetString
<1>1. Number # Quoted
  BY DEF Number, Quoted
<1>2. /\ Argument(Number, l) = [table |-> "number", as |-> SetVal]
      /\ Argument(Quoted, l) = [table |-> "quoted", as |-> SetString]
  BY <1>1 DEF Argument
<1> QED
  BY <1>2 DEF Operands

BothTaken(n, l, d) == \E a, b : Compiled(InPlace("call", n, <<Quoted, Number>>), l) = <<d, a, b>>

LEMMA CompiledCallOfTwo ==
  ASSUME NEW n, NEW l, NEW d, FirstToken(n, TRUE, l) = d, Opens(d), Takes(d.as, <<SetString, SetVal>>)
  PROVE  BothTaken(n, l, d)
<1>0. PICK x, y, a, b : x = Quoted /\ y = Number /\ a = Argument(x, l) /\ b = Argument(y, l)
  OBVIOUS
<1> DEFINE use == InPlace("call", n, <<x, y>>)
<1>1. use.place = "call" /\ use.name = n /\ use.args = <<x, y>> /\ use # NoFormula
  BY InPlaceParts
<1> HIDE DEF use
<1>2. Given(use, l) = <<a, b>>
  BY <1>0, <1>1, GivenTwo
<1>3. Token(use, l) = d
  BY <1>1 DEF Token
<1> DEFINE g == <<a, b>>
<1>4. DOMAIN g = {1, 2} /\ g[1] = a /\ g[2] = b
  OBVIOUS
<1>5. a.table \in Operands /\ b.table \in Operands /\ a.as = SetString /\ b.as = SetVal
  BY <1>0, LiteralArguments
<1>6. <<d>> \o g = <<d, a, b>> /\ [i \in DOMAIN g |-> g[i].as] = <<SetString, SetVal>>
  <2>1. [i \in DOMAIN g |-> g[i].as] = <<a.as, b.as>>
    BY <1>4
  <2> QED
    BY <1>5, <2>1, Concatenations
<1> HIDE DEF g
<1>7. Fits(use, d, g)
  BY <1>1, <1>4, <1>5, <1>6 DEF Fits
<1>8. Given(use, l) = g
  BY <1>2 DEF g
<1>9. Compiled(use, l) = <<d, a, b>>
  BY <1>1, <1>3, <1>6, <1>7, <1>8 DEF Compiled
<1> QED
  BY <1>0, <1>9 DEF use, BothTaken

-----------------------------------------------------------------------------
(* What is defined is what its name is read as. *)
LEMMA NoOtherCallback ==
  ASSUME TablesInv, NEW d \in defs, d.table \in CallbackTables, NEW t \in Conflicting(d.table)
  PROVE  ~Defined(t, d.name)
  BY DEF TablesInv, Apart, Defined

LEMMA NameIsNoOperator ==
  ASSUME TablesInv, NEW d \in defs, d.table \in {"FunDef", "ConstDef", "VarDef", "StrVarDef"}
  PROVE  d.name \in NameTokens /\ ~BuiltInOperator(d.name) /\ d.name \notin {Number, Quoted}
<1>1. d.name \in NameTokens
  BY DEF TablesInv, Entries, Entry, Charset
<1> QED
  BY <1>1, IdentifiersAssumption DEF NameTokens, BuiltInOperator

LEMMA ReadFunction ==
  ASSUME TablesInv, NEW d \in defs, d.table = "FunDef", NEW l
  PROVE  FirstToken(d.name, TRUE, l) = d
<1>1. ~Defined("InfixOprtDef", d.name)
  BY NoOtherCallback DEF CallbackTables, Conflicting
<1>2. Defined("FunDef", d.name) /\ Definition("FunDef", d.name) = d
  BY DefinitionIs DEF TablesInv
<1>3. IsFunTok(d.name, TRUE)
  BY <1>2, NameIsNoOperator DEF IsFunTok
<1> QED
  BY <1>1, <1>2, <1>3 DEF FirstToken

LEMMA ReadBetween ==
  ASSUME TablesInv, NEW d \in defs, d.table = "OprtDef", ~BuiltInOperator(d.name)
  PROVE  SecondToken(d.name) = d
<1>1. Defined("OprtDef", d.name) /\ Definition("OprtDef", d.name) = d
  BY DefinitionIs DEF TablesInv
<1>2. d.name \in OperatorLike
  BY DEF TablesInv, Entries, Entry, Charset
<1> QED
  BY <1>1, <1>2 DEF SecondToken, UserOperator, BuiltInOperator

LEMMA ReadSuffix ==
  ASSUME TablesInv, NEW d \in defs, d.table = "PostOprtDef", ~BuiltInOperator(d.name),
         ~Defined("ConstDef", d.name), ~Defined("VarDef", d.name), ~Defined("StrVarDef", d.name)
  PROVE  SecondToken(d.name) = d
<1>1. Defined("PostOprtDef", d.name) /\ Definition("PostOprtDef", d.name) = d
  BY DefinitionIs DEF TablesInv
<1>2. ~Defined("OprtDef", d.name) /\ ~Defined("InfixOprtDef", d.name)
  BY NoOtherCallback DEF CallbackTables, Conflicting
<1> QED
  BY <1>1, <1>2 DEF SecondToken, UserOperator, IsStrVarTok

LEMMA ReadPrefix ==
  ASSUME TablesInv, NEW d \in defs, d.table = "InfixOprtDef", NEW b, NEW l,
         ~Defined("ConstDef", d.name), ~Defined("VarDef", d.name), ~Defined("StrVarDef", d.name)
  PROVE  FirstToken(d.name, b, l) = d
<1>1. Defined("InfixOprtDef", d.name) /\ Definition("InfixOprtDef", d.name) = d
  BY DefinitionIs DEF TablesInv
<1>2. ~Defined("FunDef", d.name)
  BY NoOtherCallback DEF CallbackTables, Conflicting
<1>3. d.name \in InfixLike
  BY DEF TablesInv, Entries, Entry, Charset
<1> QED
  BY <1>1, <1>2, <1>3 DEF FirstToken, IsFunTok, IsStrVarTok, Infix

LEMMA ReadOperand ==
  ASSUME TablesInv, NEW d \in defs, NEW l,
         ~(Defined("InfixOprtDef", d.name) /\ Defined("OprtDef", d.name)),
         \/ d.table = "ConstDef"
         \/ d.table = "VarDef" /\ ~Defined("ConstDef", d.name)
         \/ d.table = "StrVarDef" /\ ~Defined("ConstDef", d.name) /\ ~Defined("VarDef", d.name)
  PROVE  FirstToken(d.name, FALSE, l) = d
<1>1. Defined(d.table, d.name) /\ Definition(d.table, d.name) = d
  BY DefinitionIs DEF TablesInv
<1>2. ~BuiltInOperator(d.name)
  BY NameIsNoOperator
<1>3. ~(UserOperator(d.name) /\ Defined("InfixOprtDef", d.name)) /\ ~IsFunTok(d.name, FALSE)
  BY DEF UserOperator, IsFunTok
<1> QED
  BY <1>1, <1>2, <1>3 DEF FirstToken, IsStrVarTok

THEOREM ReadsWhatIsDefined == ParserInv => CallbacksAreRead
<1> SUFFICES ASSUME ParserInv PROVE CallbacksAreRead
  OBVIOUS
<1>0. TablesInv
  BY DEF ParserInv, TablesInv
<1>1. PICK l : l = factory
  OBVIOUS
<1>2. \A d \in defs : d.as \in Callbacks(d.table) /\ d.table \in Tables
  BY DEF ParserInv, Entries, Entry
<1>3. ASSUME NEW d \in defs, d.table = "FunDef", NEW x \in {Number, Quoted}
      PROVE  Compiled(InPlace("call", d.name, <<x>>), l) =
               IF Takes(d.as, <<Argument(x, l).as>>) THEN <<d, Argument(x, l)>> ELSE NoRpn
  <2>1. FirstToken(d.name, TRUE, l) = d /\ Opens(d) /\ Argument(x, l).table \in Operands
    BY <1>0, <1>3, ReadFunction, LiteralArguments DEF Opens
  <2> QED
    BY <2>1, CompiledCall
<1>4. ASSUME NEW d \in defs, d.table = "FunDef"
      PROVE  /\ d.as.code = "FUNC_STR" =>
                  /\ ~Takes(d.as, <<SetVal>>)
                  /\ d.as.argc = 0 => Takes(d.as, <<SetString>>)
                  /\ d.as.argc # 0 => Takes(d.as, <<SetString, SetVal>>)
             /\ d.as.code # "FUNC_STR" /\ d.as.argc \in {1, -1} => Takes(d.as, <<SetVal>>) /\ ~Takes(d.as, <<SetString>>)
             /\ d.as.code # "FUNC_STR" /\ d.as.argc \notin {1, -1} => ~Takes(d.as, <<SetVal>>)
  <2>1. d.as \in {NumericCallback(1), NumericCallback(2), MultiArgCallback, BulkCallback(1), StringCallback(0), StringCallback(1)}
    BY <1>2, <1>4 DEF Callbacks
  <2>2. /\ NumericCallback(1).code # "FUNC_STR" /\ NumericCallback(2).code # "FUNC_STR"
        /\ MultiArgCallback.code # "FUNC_STR" /\ BulkCallback(1).code # "FUNC_STR"
    BY DEF NumericCallback, MultiArgCallback, BulkCallback, Callback
  <2>3. CASE d.as \in {NumericCallback(1), BulkCallback(1), MultiArgCallback}
    <3>1. GetType(d.as) = "DBL" /\ d.as.argc \in {1, -1} /\ d.as.code # "FUNC_STR"
      BY <2>2, <2>3, TypesOfTokens
    <3> QED
      BY <3>1, TakesOne, TypesOfTokens
  <2>4. CASE d.as = NumericCallback(2)
    <3>1. GetType(d.as) = "DBL" /\ d.as.argc = 2 /\ d.as.code # "FUNC_STR"
      BY <2>2, <2>4, TypesOfTokens
    <3> QED
      BY <3>1, TakesOne, TypesOfTokens
  <2>5. CASE d.as = StringCallback(0)
    <3>1. GetType(d.as) = "STR" /\ d.as.argc = 0 /\ d.as.code = "FUNC_STR"
      BY <2>5, TypesOfTokens
    <3> QED
      BY <3>1, TakesOne, TypesOfTokens
  <2>6. CASE d.as = StringCallback(1)
    <3>1. GetType(d.as) = "STR" /\ d.as.argc = 1 /\ d.as.code = "FUNC_STR"
      BY <2>6, TypesOfTokens
    <3> QED
      BY <3>1, TakesOne, TakesTwo, TypesOfTokens
  <2> QED
    BY <2>1, <2>3, <2>4, <2>5, <2>6

<1>5. ASSUME NEW d \in defs, d.table = "FunDef" PROVE IsCalledAsDefined(d)
  <2>1. ASSUME NEW x \in {Number, Quoted} PROVE IsCalledWith(d, <<x>>) <=> Takes(d.as, <<Argument(x, l).as>>)
    <3>1. CompiledUse("call", d.name, <<x>>) = IF Takes(d.as, <<Argument(x, l).as>>) THEN <<d, Argument(x, l)>> ELSE NoRpn
      BY <1>1, <1>3, <1>5 DEF CompiledUse, InPlace
    <3>2. \A a : <<d, a>>[1] = d /\ <<d, a>> # NoRpn
      BY DEF NoRpn
    <3> QED
      BY <3>1, <3>2 DEF IsCalledWith
  <2>2. /\ IsCalledWith(d, <<Number>>) <=> Takes(d.as, <<SetVal>>)
        /\ IsCalledWith(d, <<Quoted>>) <=> Takes(d.as, <<SetString>>)
    BY <2>1, LiteralArguments
  <2>3. ASSUME Takes(d.as, <<SetString, SetVal>>) PROVE IsCalledWith(d, <<Quoted, Number>>)
    <3>1. FirstToken(d.name, TRUE, l) = d /\ Opens(d)
      BY <1>0, <1>5, ReadFunction DEF Opens
    <3>2. PICK a, b : Compiled(InPlace("call", d.name, <<Quoted, Number>>), l) = <<d, a, b>>
      <4>1. BothTaken(d.name, l, d)
        BY <2>3, <3>1, CompiledCallOfTwo
      <4> QED
        BY <4>1 DEF BothTaken
    <3>5. CompiledUse("call", d.name, <<Quoted, Number>>) = <<d, a, b>>
      BY <1>1, <3>2 DEF CompiledUse, InPlace
    <3>6. <<d, a, b>>[1] = d /\ <<d, a, b>> # NoRpn
      BY DEF NoRpn
    <3> QED
      BY <3>5, <3>6 DEF IsCalledWith
  <2> QED
    BY <1>4, <1>5, <2>2, <2>3 DEF IsCalledAsDefined
<1>6. ASSUME NEW d \in defs, NEW place, TokenIn(place, d.name, l) = d, Stands(place, d)
      PROVE  IsReadIn(d, place)
  <2>1. Compiled(InPlace(place, d.name, <<>>), l) = <<d>>
    BY <1>6, CompiledWithout
  <2> QED
    BY <1>1, <2>1 DEF IsReadIn, CompiledUse, InPlace
<1>7. ASSUME NEW d \in defs, d.table = "OprtDef", ~BuiltInOperator(d.name) PROVE IsReadIn(d, "between")
  BY <1>0, <1>6, <1>7, ReadBetween DEF TokenIn, Stands
<1>8. ASSUME NEW d \in defs, d.table = "PostOprtDef", ~BuiltInOperator(d.name),
             ~Defined("ConstDef", d.name), ~Defined("VarDef", d.name), ~Defined("StrVarDef", d.name)
      PROVE  IsReadIn(d, "suffix")
  BY <1>0, <1>6, <1>8, ReadSuffix DEF TokenIn, Stands
<1>9. ASSUME NEW d \in defs, d.table = "InfixOprtDef",
             ~Defined("ConstDef", d.name), ~Defined("VarDef", d.name), ~Defined("StrVarDef", d.name)
      PROVE  IsReadIn(d, "prefix") /\ IsCalledWith(d, <<Number>>)
  <2>1. FirstToken(d.name, FALSE, l) = d /\ FirstToken(d.name, TRUE, l) = d
    BY <1>0, <1>9, ReadPrefix
  <2>2. IsReadIn(d, "prefix")
    <3>1. TokenIn("prefix", d.name, l) = d
      BY <2>1 DEF TokenIn
    <3>2. Stands("prefix", d)
      BY <1>9 DEF Stands
    <3> QED
      BY <1>6, <3>1, <3>2
  <2>3. d.as = UnaryCallback("OPRT_INFIX", PrInfix)
    BY <1>2, <1>9 DEF Callbacks
  <2>4. GetType(d.as) = "DBL" /\ d.as.argc = 1
    BY <2>3, TypesOfTokens
  <2>5. Takes(d.as, <<SetVal>>)
    BY <2>4, TakesOne, TypesOfTokens
  <2>6. Argument(Number, l).table \in Operands /\ Argument(Number, l).as = SetVal /\ Opens(d)
    BY <1>9, LiteralArguments DEF Opens
  <2>7. Compiled(InPlace("call", d.name, <<Number>>), l) = <<d, Argument(Number, l)>>
    BY <2>1, <2>5, <2>6, CompiledCall
  <2>8. CompiledUse("call", d.name, <<Number>>) = <<d, Argument(Number, l)>>
    BY <1>1, <2>7 DEF CompiledUse, InPlace
  <2>9. \A a : <<d, a>>[1] = d /\ <<d, a>> # NoRpn
    BY DEF NoRpn
  <2> QED
    BY <2>2, <2>8, <2>9 DEF IsCalledWith
<1>10. ASSUME NEW d \in defs, d.table \in {"ConstDef", "VarDef"}, d.table = "VarDef" => ~Defined("ConstDef", d.name),
              ~(Defined("InfixOprtDef", d.name) /\ Defined("OprtDef", d.name))
       PROVE  IsReadIn(d, "alone")
  <2>1. FirstToken(d.name, FALSE, l) = d
    BY <1>0, <1>10, ReadOperand
  <2> QED
    <3>1. TokenIn("alone", d.name, l) = d
      BY <2>1 DEF TokenIn
    <3>2. Stands("alone", d)
      BY <1>10 DEF Stands
    <3> QED
      BY <1>6, <3>1, <3>2
<1>11. ASSUME NEW d \in defs, d.table = "StrVarDef", ~Defined("ConstDef", d.name), ~Defined("VarDef", d.name),
              ~(Defined("InfixOprtDef", d.name) /\ Defined("OprtDef", d.name)),
              NEW f \in defs, f.as = StringCallback(0)
       PROVE  CompiledUse("call", f.name, <<d.name>>) = <<f, d>>
  <2>1. FirstToken(d.name, FALSE, l) = d /\ d.name \notin {Number, Quoted}
    BY <1>0, <1>11, ReadOperand, NameIsNoOperator
  <2>2. Argument(d.name, l) = d /\ d.table \in Operands
    BY <1>11, <2>1 DEF Argument, Operands
  <2>3. d.as = SetString
    BY <1>2, <1>11 DEF Callbacks
  <2>4. f.table = "FunDef"
    <3>1. f.as.code = "FUNC_STR"
      BY <1>11, TypesOfTokens
    <3>c. /\ UnaryCallback("OPRT_POSTFIX", PrPostfix).code # "FUNC_STR" /\ UnaryCallback("OPRT_INFIX", PrInfix).code # "FUNC_STR"
          /\ BinaryCallback(0, "left").code # "FUNC_STR"
          /\ SetVal.code # "FUNC_STR" /\ SetVar.code # "FUNC_STR" /\ SetString.code # "FUNC_STR"
      BY DEF SetVal, SetVar, SetString, UnaryCallback, BinaryCallback, Callback
    <3>2. \A t \in Tables \ {"FunDef"} : \A as \in Callbacks(t) : as.code # "FUNC_STR"
      BY <3>c DEF Tables, CallbackTables, Callbacks
    <3> QED
      BY <1>2, <3>1, <3>2
  <2>5. FirstToken(f.name, TRUE, l) = f /\ Opens(f)
    BY <1>0, <2>4, ReadFunction DEF Opens
  <2>6. GetType(f.as) = "STR" /\ f.as.argc = 0
    BY <1>11, TypesOfTokens
  <2>7. Takes(f.as, <<d.as>>)
    BY <2>3, <2>6, TakesOne, TypesOfTokens
  <2>8. Compiled(InPlace("call", f.name, <<d.name>>), l) = <<f, d>>
    BY <2>2, <2>5, <2>7, CompiledCall
  <2> QED
    BY <1>1, <2>8 DEF CompiledUse, InPlace
<1> SUFFICES ASSUME NEW d \in defs
             PROVE  LET n == d.name
                        operand == \E table \in {"ConstDef", "VarDef", "StrVarDef"} : Defined(table, n)
                        operator == Defined("InfixOprtDef", n) /\ Defined("OprtDef", n)
                    IN  CASE d.table = "FunDef" -> IsCalledAsDefined(d)
                          [] d.table = "OprtDef" -> BuiltInOperator(n) \/ IsReadIn(d, "between")
                          [] d.table = "PostOprtDef" -> operand \/ BuiltInOperator(n) \/ IsReadIn(d, "suffix")
                          [] d.table = "InfixOprtDef" -> operand \/ (IsReadIn(d, "prefix") /\ IsCalledWith(d, <<Number>>))
                          [] d.table = "ConstDef" -> operator \/ IsReadIn(d, "alone")
                          [] d.table = "VarDef" -> operator \/ Defined("ConstDef", n) \/ IsReadIn(d, "alone")
                          [] d.table = "StrVarDef" ->
                               \/ operator \/ Defined("ConstDef", n) \/ Defined("VarDef", n)
                               \/ \A f \in defs : f.as = StringCallback(0) => CompiledUse("call", f.name, <<n>>) = <<f, d>>
  BY DEF CallbacksAreRead
<1>12. d.table \in {"FunDef", "OprtDef", "PostOprtDef", "InfixOprtDef", "ConstDef", "VarDef", "StrVarDef"}
  BY <1>2 DEF Tables, CallbackTables
<1>13. CASE d.table = "FunDef"
  BY <1>5, <1>13
<1>14. CASE d.table = "OprtDef"
  BY <1>7, <1>14
<1>15. CASE d.table = "PostOprtDef"
  BY <1>8, <1>15
<1>16. CASE d.table = "InfixOprtDef"
  BY <1>9, <1>16
<1>17. CASE d.table = "ConstDef"
  BY <1>10, <1>17
<1>18. CASE d.table = "VarDef"
  BY <1>10, <1>18
<1>19. CASE d.table = "StrVarDef"
  BY <1>11, <1>19
<1> QED
  BY <1>12, <1>13, <1>14, <1>15, <1>16, <1>17, <1>18, <1>19

(* CallbacksAreRead, for any sequence of definitions, removals and switches: a
   name that was accepted is read as what it was defined to be. *)
THEOREM ParserCallbacksAreRead == ParserSpec => []CallbacksAreRead
<1> QED
  BY ParserInvariant, ReadsWhatIsDefined, PTL

=============================================================================
