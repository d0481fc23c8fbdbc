--------------------------- MODULE MCConfigurator ---------------------------
(***************************************************************************)
(* Files with three names, one of them with a dot, one cache variable *)
(* that objects of the class have, and generic formulas that may be        *)
(* missing, declared twice, nested or circular; and documents of           *)
(* ServerConfig.xml that have every element or none, with one exception.   *)
(***************************************************************************)
EXTENDS Startup

MCNames == {<<"a">>, <<"b">>, <<"a", ".", "b">>}
MCCacheVariables == <<<<"b">>>>
MCHalf == [size \in {8, 16, 32, 64} |-> CASE size = 8 -> 2 [] size = 16 -> 4 [] size = 32 -> 8 [] size = 64 -> 16]
MCNumbers == -33 .. 33
MCRootAddress == <<"85">>
MCDigits == {"1", "85"}

This == [op |-> "thisObjectAddress", id |-> "", levels |-> 0]
Up(n) == [op |-> "parentObjectAddress", id |-> "", levels |-> n]
Apply(g) == [op |-> "applyGenericFormula", id |-> g, levels |-> 0]

Plainly(name) == Chars(<<name, "+", "1">>)
Below(dollar) == <<dollar>> \o Chars(<<".", "b">>)

MCFormulas ==
  {<<Plainly("b"), <<>>>>,                                          (* b+1            *)
   <<Below(This), <<>>>>, <<Below(This), Chars(<<"b">>)>>,          (* $_.b           *)
   <<Plainly("b"), Below(This)>>,
   <<Below(Up(1)), <<>>>>,                                          (* $parent(1).b   *)
   <<Chars(<<"a", ".", "b", "+">>) \o <<Apply("g")>>, <<>>>>}       (* a.b+$apply(g)  *)

MCGenericFormulas == {Below(This), <<Apply("h"), Char("+")>> \o Below(Up(1))}

-----------------------------------------------------------------------------
(* ServerConfig.xml. *)
Own(path, text) == [text |-> text, of |-> path]
TheSections == {Enclosing[i] : i \in Kept} \ {<<>>}
ThePaths == {Path[i] : i \in Kept}
Types == [p \in ThePaths |-> Instructions[CHOOSE i \in Kept : Path[i] = p].type]

Usual(path) ==
  CASE Types[path] \in {"number", "timeout"} -> "number"
    [] Types[path] = "bool" -> "true"
    [] OTHER -> "known"
Whole == [p \in TheSections \cup ThePaths |-> IF p \in ThePaths THEN <<Own(p, Usual(p))>> ELSE <<>>]
Without(elements, p) == [q \in {q \in DOMAIN elements : q # p} |-> elements[q]]
With(elements, p, contents) == [q \in DOMAIN elements \cup {p} |-> IF q = p THEN contents ELSE elements[q]]

(* What else an element, or a list of them, may hold. *)
Others(p) ==
  LET isList == \E i \in Kept : Path[i] = p /\ Instructions[i].do = "list" IN
  {<<Own(p, t)>> : t \in {"empty", "word", "zero"}}
    \cup IF ~isList THEN {}
         ELSE {<<Own(p, "empty"), Own(p, Usual(p))>>, <<Own(p, Usual(p)), Own(p, "number"), Own(p, "empty")>>}

Endpoint == [url |-> "full", stackUrl |-> "absent", flags |-> <<>>, store |-> "complete", certificate |-> "c", generate |-> "false", opens |-> TRUE,
             serializer |-> "absent", security |-> <<>>]
Signed == [policy |-> TRUE, modes |-> <<"Sign", "SignAndEncrypt">>]
Maker == [Endpoint EXCEPT !.generate = "true", !.url = "port", !.security = <<Signed>>]
Flagged(content) ==
  [Endpoint EXCEPT !.stackUrl = "other", !.flags = [name \in {"Redundancy", "IsVisible", "IsDiscoveryUrl"} |-> content]]
OtherEndpoints ==
  {Maker, Flagged("true"), Flagged("false"), Flagged("word"), [Endpoint EXCEPT !.url = "absent"], [Endpoint EXCEPT !.url = "empty"], [Endpoint EXCEPT !.store = "incomplete"],
   [Endpoint EXCEPT !.store = "absent"],
   [Endpoint EXCEPT !.certificate = "d"], [Endpoint EXCEPT !.generate = "no"], [Endpoint EXCEPT !.serializer = "Xml"],
   [Maker EXCEPT !.opens = FALSE], [Endpoint EXCEPT !.serializer = "Json"],
   [Maker EXCEPT !.security = <<Signed, [Signed EXCEPT !.policy = FALSE]>>],
   [Endpoint EXCEPT !.security = <<[Signed EXCEPT !.modes = <<>>]>>],
   [Endpoint EXCEPT !.security = <<[Signed EXCEPT !.modes = <<"Sign", "Secret">>]>>]}
TwoEndpoints == {<<e, f>> : e, f \in OtherEndpoints \cup {Endpoint}}

Document(elements, endpoints, there) ==
  [root |-> TRUE, elements |-> elements, endpoints |-> endpoints, files |-> there]

MCStarted == {Document(<<>>, <<Endpoint>>, {"c"})}
MCDocuments ==
  MCStarted
    \cup {[Document(Whole, <<Endpoint>>, {"c"}) EXCEPT !.root = FALSE]}
    \cup {Document(Whole, <<Endpoint>>, {"c"})}
    \cup {Document(Without(Whole, p), <<Endpoint>>, {"c"}) : p \in DOMAIN Whole}
    \cup {Document(With(Whole, p, o), <<Endpoint>>, {"c"}) : <<p, o>> \in
            UNION {{p} \X Others(p) : p \in ThePaths}}
    \cup {Document(With(<<>>, p, Whole[p]), <<Endpoint>>, {"c"}) : p \in TheSections \cup {q \in ThePaths : Len(q) = 1}}
    \cup {Document(<<>>, endpoints, there) : endpoints \in TwoEndpoints \cup {<<>>}, there \in {{}, {"c"}}}

MCSpec == StartupInit(MCDocuments) /\ [][StartupNext]_StartupVars /\ StartupFairness

=============================================================================
