---------------------------- MODULE Configurator ----------------------------
(***************************************************************************)
(* What configure() makes of a configuration file: generic formulas,       *)
(* objects with their cache variables, free and calculated variables, in   *)
(* the order of the file (Configuration/templates/designToConfigurator,    *)
(* AddressSpace/templates/designToClassBody, FreeVariablesEngine.cpp,      *)
(* ASNodeManager.cpp and the elaboration of formulas in                    *)
(* CalculatedVariablesEngine.cpp).  Any failure throws and ends it.        *)
(*                                                                         *)
(* Names, addresses and formulas are sequences of tokens, "." and "+"      *)
(* among them; an item of a formula is a token or a dollar expression.     *)
(***************************************************************************)
EXTENDS FreeVariables, SequencesExt

CONSTANTS
  Names,           (* the names of objects and variables                   *)
  CacheVariables,  (* the numeric cache variables of the class, in order   *)
  Formulas,        (* of calculated variables: <<formula, status formula>>; *)
                   (* <<>> is none                                         *)
  GenericIds,      (* the names of generic formulas ...                    *)
  GenericFormulas, (* ... and what they may be                             *)
  Digits,          (* the tokens that are numbers                          *)
  RootAddress,     (* how the objects folder prints its node id: a number  *)
  MaxDepth,        (* bound: objects inside objects                        *)
  MaxObjects,      (* bound: objects                                       *)
  MaxVariables,    (* bound: free and calculated variables                 *)
  MaxLength        (* bound: items of a formula while it is elaborated     *)

(* A formula: only a parent's address says how many levels up it is. *)
IsSeq(s) == s \in Seq(Range(s))
Dollars == {"thisObjectAddress", "parentObjectAddress", "applyGenericFormula"}
IsFormula(text) ==
  /\ IsSeq(text)
  /\ \A item \in Range(text) :
       item.op \in Dollars \cup {"char"} /\ item.levels \in Nat /\ (item.op = "thisObjectAddress" => item.levels = 0)

ASSUME ConfiguratorAssumption ==
  /\ <<>> \notin Names /\ \A name \in Names : IsSeq(name)
  /\ RootAddress \in {<<d>> : d \in Digits} \ Names /\ "." \notin Digits
  /\ CacheVariables # <<>> /\ IsSeq(CacheVariables) /\ IsInjective(CacheVariables)
  /\ \A name \in Range(CacheVariables) : IsSeq(name)
  /\ \A both \in Formulas : IsFormula(both[1]) /\ IsFormula(both[2])
  /\ \A text \in GenericFormulas : IsFormula(text)
  /\ IsFiniteSet(GenericIds)
  /\ {MaxDepth, MaxObjects, MaxVariables, MaxLength} \subseteq Nat

VARIABLES
  stage,    (* where configure() is                                        *)
  generic,  (* s_genericFormulas                                           *)
  place,    (* the addresses of the objects being configured, outermost first *)
  nodes,    (* the addresses in the address space                          *)
  listed,   (* s_parserVariables: what stands behind each of them          *)
  work,     (* formulaInWork                                               *)
  wanted    (* the calculated variable it is for                           *)

vars == <<stage, generic, place, nodes, listed, work, wanted>>

Nothing == [name |-> <<>>, status |-> <<>>, initial |-> FALSE, text |-> <<>>]

Init ==
  /\ stage = "generic"
  /\ generic = <<>>
  /\ place = <<>> /\ nodes = {} /\ listed = <<>>
  /\ work = <<>> /\ wanted = Nothing

(* An exception leaves configure(). *)
Refuse ==
  /\ stage' = "refused"
  /\ place' = <<>> /\ work' = <<>> /\ wanted' = Nothing
  /\ UNCHANGED <<generic, nodes, listed>>

-----------------------------------------------------------------------------
(* Addresses. *)
Here == IF place = <<>> THEN RootAddress ELSE Last(place)

(* makeChildNodeId(). *)
Child(parent, name) == IF parent = RootAddress THEN name ELSE parent \o <<".">> \o name

(* addNodeAndReference() refuses an address that is taken. *)
Addable(address) == address \notin nodes

(* elaborateParent(): cut at the dot, once for every level. *)
Dots(address) == {i \in DOMAIN address : address[i] = "."}
HasParent(address, levels) == levels <= Cardinality(Dots(address))

(* Mutant: a level too few is cut off. *)
Parent_OneLess(address, levels) ==
  SubSeq(address, 1, (CHOOSE i \in Dots(address) \cup {Len(address) + 1} :
                        Cardinality({j \in Dots(address) : j >= i}) = levels - 1) - 1)

Parent(address, levels) ==
  IF levels = 0 THEN address
  ELSE SubSeq(address, 1, (CHOOSE i \in Dots(address) :
                             Cardinality({j \in Dots(address) : j >= i}) = levels) - 1)

-----------------------------------------------------------------------------
(* Formulas. *)
Char(token) == [op |-> "char", id |-> token, levels |-> 0]
Chars(tokens) == [i \in DOMAIN tokens |-> Char(tokens[i])]
Tokens(text) == [i \in DOMAIN text |-> text[i].id]
Plain(text) == \A i \in DOMAIN text : text[i].op = "char"

(* The operands of a text without dollar expressions: what stands between "+"
   and "+". *)
IsOperand(tokens, i, j) ==
  /\ i <= j + 1 /\ \A k \in i .. j : tokens[k] # "+"
  /\ i > 1 => tokens[i - 1] = "+"
  /\ j < Len(tokens) => tokens[j + 1] = "+"
Operands(tokens) ==
  {SubSeq(tokens, p[1], p[2]) : p \in
     {q \in (1 .. Len(tokens) + 1) \X (0 .. Len(tokens)) : IsOperand(tokens, q[1], q[2])}}
Numbers == {<<d>> : d \in Digits}
VariableNames(tokens) == Operands(tokens) \ Numbers

(* What the parser takes: no operand is missing or begins like a number. *)
Parses(tokens) ==
  \A word \in VariableNames(tokens) : word # <<>> /\ word[1] \notin Digits

(* parserVariableRequestHandler(): the variable found by its name. *)
Listed(name) == {v \in DOMAIN listed : listed[v].name = name}
Resolves(tokens) == Parses(tokens) /\ \A name \in VariableNames(tokens) : Listed(name) # {}
Reads(tokens) == {Min(Listed(name)) : name \in VariableNames(tokens)}

-----------------------------------------------------------------------------
(* loadGenericFormulas(). *)
LoadGenericFormula(id, text) ==
  /\ stage = "generic"
  /\ IF id \in DOMAIN generic THEN Refuse
     ELSE /\ generic' = [g \in DOMAIN generic \cup {id} |-> IF g = id THEN text ELSE generic[g]]
          /\ UNCHANGED <<stage, place, nodes, listed, work, wanted>>

BeginElements ==
  /\ stage = "generic"
  /\ stage' = "element"
  /\ UNCHANGED <<generic, place, nodes, listed, work, wanted>>

Cached == Cardinality({v \in DOMAIN listed : listed[v].source = "cache"})
Objects == Cached \div Len(CacheVariables)
Variables == Cardinality(nodes) - Objects - Cached

(* A ParserVariable, the value shown in the address space, and where the
   formula behind it came from. *)
Entry(name, source, shown, seen) ==
  [name |-> name, source |-> source, shown |-> shown, seen |-> seen,
   reads |-> {}, text |-> <<>>, place |-> <<>>]

(* Mutant: what the node manager answers is not looked at. *)
OpenObject_Unchecked(name) ==
  LET address == Child(Here, name)
      cache == [i \in DOMAIN CacheVariables |-> Child(address, CacheVariables[i])] IN
  /\ stage = "element"
  /\ Len(place) < MaxDepth /\ Objects < MaxObjects
  /\ place' = Append(place, address)
  /\ nodes' = nodes \cup {address} \cup Range(cache)
  /\ listed' = listed \o [i \in DOMAIN cache |-> Entry(cache[i], "cache", "Good", "Waiting")]
  /\ UNCHANGED <<stage, generic, work, wanted>>

(* An object of a class with device logic: its node, then each cache variable
   with its initial value, its node and its place in the engine.  A node that
   cannot be added ends the configuration, whichever it is. *)
OpenObject(name) ==
  LET address == Child(Here, name)
      cache == [i \in DOMAIN CacheVariables |-> Child(address, CacheVariables[i])] IN
  /\ stage = "element"
  /\ Len(place) < MaxDepth /\ Objects < MaxObjects
  /\ IF Addable(address) /\ \A i \in DOMAIN cache : Addable(cache[i])
     THEN /\ place' = Append(place, address)
          /\ nodes' = nodes \cup {address} \cup Range(cache)
          /\ listed' = listed \o [i \in DOMAIN cache |-> Entry(cache[i], "cache", "Good", "Waiting")]
          /\ UNCHANGED <<stage, generic, work, wanted>>
     ELSE Refuse

(* All of its children are configured: it is added to its parent. *)
CloseObject ==
  /\ stage = "element"
  /\ place # <<>>
  /\ place' = Front(place)
  /\ UNCHANGED <<stage, generic, nodes, listed, work, wanted>>

(* Mutant: the value is set before the variable is registered. *)
FreeVariable_SetFirst(name, numeric, literal) ==
  LET address == Child(Here, name) IN
  /\ stage = "element" /\ Variables < MaxVariables
  /\ IF literal /\ Addable(address)
     THEN /\ nodes' = nodes \cup {address}
          /\ listed' = IF numeric THEN Append(listed, Entry(address, "free", "Good", "Waiting")) ELSE listed
          /\ UNCHANGED <<stage, generic, place, work, wanted>>
     ELSE Refuse

(* All that matters here of the type and the initial value. *)
Conversions ==
  {[numeric |-> Numeric(type), literal |-> InitialValue(type, text) # <<>>] :
     type \in SupportedTypes \cup {"Decimal"}, text \in Texts}

(* instantiateFreeVariable(): convert the initial value, register a numeric
   one, set the value, which the listener sees, and add the node. *)
FreeVariable(name, numeric, literal) ==
  LET address == Child(Here, name) IN
  /\ stage = "element" /\ Variables < MaxVariables
  /\ IF literal /\ Addable(address)
     THEN /\ nodes' = nodes \cup {address}
          /\ listed' = IF numeric THEN Append(listed, Entry(address, "free", "Good", "Good")) ELSE listed
          /\ UNCHANGED <<stage, generic, place, work, wanted>>
     ELSE Refuse

(* instantiateCalculatedVariable(). *)
CalculatedVariable(name, text, status, initial) ==
  /\ stage = "element" /\ Variables < MaxVariables
  /\ stage' = "elaborate"
  /\ work' = text
  /\ wanted' = [name |-> name, status |-> status, initial |-> initial, text |-> text]
  /\ UNCHANGED <<generic, place, nodes, listed>>

(* Mutant: the expression is kept in front of what it stands for. *)
Substitute_Keep(i, text) ==
  /\ stage' = stage
  /\ work' = IF Len(work) + Len(text) > MaxLength THEN work
             ELSE SubSeq(work, 1, i) \o text \o SubSeq(work, i + 1, Len(work))
  /\ UNCHANGED <<generic, place, nodes, listed, wanted>>

(* A dollar expression gives way to what it stands for.  (At the bound the text
   grows no more, but the loop goes on.) *)
Substitute(i, text) ==
  /\ stage' = stage
  /\ work' = IF Len(work) + Len(text) > MaxLength THEN work
             ELSE SubSeq(work, 1, i - 1) \o text \o SubSeq(work, i + 1, Len(work))
  /\ UNCHANGED <<generic, place, nodes, listed, wanted>>

(* One round of the loop of elaborateFormula(): the first dollar expression. *)
Elaborate ==
  /\ stage = "elaborate"
  /\ \E i \in DOMAIN work :
       LET d == work[i] IN
       /\ d.op # "char" /\ Plain(SubSeq(work, 1, i - 1))
       /\ \/ d.op = "thisObjectAddress" /\ Substitute(i, Chars(Here))
          \/ /\ d.op = "applyGenericFormula"
             /\ IF d.id \in DOMAIN generic THEN Substitute(i, generic[d.id]) ELSE Refuse
          \/ /\ d.op = "parentObjectAddress"
             /\ IF HasParent(Here, d.levels) THEN Substitute(i, Chars(Parent(Here, d.levels))) ELSE Refuse

(* The text is elaborated: the parsers look for the variables they name, the
   status formula as it was written, the node is added and the variable is put
   on the list; its first value is the one of the file or that of update(). *)
Instantiate ==
  LET address == Child(Here, wanted.name)
      reads == Reads(Tokens(work))
      first == IF wanted.initial \/ \A v \in reads : listed[v].seen = "Good" THEN "Good" ELSE "Waiting" IN
  /\ stage = "elaborate" /\ Plain(work)
  /\ IF /\ Resolves(Tokens(work)) /\ Addable(address)
        /\ wanted.status # <<>> => Plain(wanted.status) /\ Resolves(Tokens(wanted.status))
     THEN /\ listed' = Append(listed, [Entry(address, "calculated", first, first) EXCEPT
               !.reads = reads, !.text = wanted.text, !.place = place])
          /\ nodes' = nodes \cup {address}
          /\ stage' = "element" /\ work' = <<>> /\ wanted' = Nothing
          /\ UNCHANGED <<generic, place>>
     ELSE Refuse

EndElements ==
  /\ stage = "element" /\ place = <<>>
  /\ stage' = "ready"
  /\ UNCHANGED <<generic, place, nodes, listed, work, wanted>>

Next ==
  \/ \E id \in GenericIds, text \in GenericFormulas : LoadGenericFormula(id, text)
  \/ BeginElements
  \/ \E name \in Names :
       \/ OpenObject(name)
       \/ \E c \in Conversions : FreeVariable(name, c.numeric, c.literal)
       \/ \E both \in Formulas, initial \in BOOLEAN : CalculatedVariable(name, both[1], both[2], initial)
  \/ CloseObject \/ Elaborate \/ Instantiate \/ EndElements

(* The loop of elaborateFormula() runs on. *)
Spec == Init /\ [][Next]_vars /\ WF_vars(Elaborate)

-----------------------------------------------------------------------------
(* What a formula means where it stands: $_ is the innermost of the objects
   around it, numLevelsUp counts from there, a generic formula stands for what
   it means at that place. *)
Around(where, levels) ==
  IF where = <<>> THEN RootAddress
  ELSE IF levels < Len(where) THEN where[Len(where) - levels] ELSE <<>>

Piece(item, where, applied) ==
  CASE item.op = "char" -> <<item.id>>
    [] item.op = "applyGenericFormula" -> IF item.id \in DOMAIN applied THEN applied[item.id] ELSE <<>>
    [] item.op \in {"thisObjectAddress", "parentObjectAddress"} -> Around(where, item.levels)
Expand(items, where, applied) == FlattenSeq([i \in DOMAIN items |-> Piece(items[i], where, applied)])

(* Generic formulas that apply one another to a depth of n. *)
AppliedAt(where) ==
  LET applied[n \in 0 .. Cardinality(GenericIds)] ==
        [id \in DOMAIN generic |-> IF n = 0 THEN <<>> ELSE Expand(generic[id], where, applied[n - 1])]
  IN  applied
Meaning(text, where) == Expand(text, where, AppliedAt(where)[Cardinality(GenericIds)])

(* elaborateParent() takes every dot for a level, so an object whose own name
   has a dot counts as two. *)
OneDotALevel(where) == \A n \in DOMAIN where : Cardinality(Dots(where[n])) = n - 1

(* A calculated variable reads the variables its formula names at the place
   where it stands in the file, whatever was substituted into what, and only
   variables that were there before it: no formula reads its own result
   (elaborateFormula(), elaborateParent(), parserVariableRequestHandler()). *)
FormulasReadWhatTheyName ==
  \A v \in DOMAIN listed :
    listed[v].source = "calculated" /\ OneDotALevel(listed[v].place) =>
      /\ {listed[r].name : r \in listed[v].reads} = VariableNames(Meaning(listed[v].text, listed[v].place))
      /\ \A r \in listed[v].reads : r < v

(* As long as the configuration is accepted, the address a formula gives finds
   one variable, and that one is a node: what the node manager refuses ends the
   configuration, though the names of objects and variables may hold dots
   (addNodeAndReference() and its callers). *)
VariablesHaveOneAddress ==
  stage # "refused" =>
    /\ \A v, w \in DOMAIN listed : listed[v].name = listed[w].name => v = w
    /\ \A v \in DOMAIN listed : listed[v].name \in nodes

(* The formulas see the initial value of every free and calculated variable
   ("not to lose the initial update", FreeVariablesEngine.cpp); that of a cache
   variable is set before it has a listener.  It is the one the file writes. *)
InitialValuesArrive ==
  /\ NumbersAreTaken
  /\ \A v \in DOMAIN listed : listed[v].source # "cache" => listed[v].seen = listed[v].shown

(* No generic formula applies itself, through others or directly. *)
NoCircle ==
  \E rank \in [DOMAIN generic -> 1 .. Cardinality(GenericIds)] :
    \A id \in DOMAIN generic : \A i \in DOMAIN generic[id] :
      LET d == generic[id][i] IN
      d.op = "applyGenericFormula" /\ d.id \in DOMAIN generic => rank[d.id] < rank[id]

(* The loop of elaborateFormula() ends, unless generic formulas apply one
   another in a circle: every substitution takes a dollar expression away. *)
ElaborationEnds == (stage = "elaborate" /\ NoCircle) ~> (stage # "elaborate" \/ Plain(work))

=============================================================================
