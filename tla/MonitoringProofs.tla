--------------------------- MODULE MonitoringProofs ---------------------------
(***************************************************************************)
(* Proofs about Monitoring, for every table of sensors and channels: a     *)
(* record that has been read is fresh (Round), a value without an error is *)
(* of this cycle and converted (Zynq), the document is the one of these    *)
(* records (Documented), so that the extract functions find each group by  *)
(* its name and publish what was read (Extracted).  Apart from these: what *)
(* the print functions count is enough for all they write (PrintFits).     *)
(***************************************************************************)
EXTENDS Monitoring, SequenceTheorems, WellFoundedInduction, TLAPS

-----------------------------------------------------------------------------
(* Sequences by their length. *)
HasLength(seq, n) == n \in Nat /\ seq = [i \in 1..n |-> seq[i]]

LEMMA SeqOfFunction ==
  ASSUME NEW X, NEW n \in Nat, NEW seq \in [1..n -> X]
  PROVE  seq \in Seq(X) /\ Len(seq) = n
OBVIOUS

LEMMA LengthFacts ==
  ASSUME NEW n, NEW seq, HasLength(seq, n)
  PROVE  n \in Nat /\ DOMAIN seq = 1..n /\ Len(seq) = n
<1>1. n \in Nat /\ DOMAIN seq = 1..n
  BY DEF HasLength
<1>2. seq \in [1..n -> {seq[i] : i \in 1..n}]
  BY DEF HasLength
<1>3. QED
  BY <1>1, <1>2, SeqOfFunction

Joins(u, s, m, t, n) ==
  /\ HasLength(u, m + n)
  /\ \A i \in 1..m : u[i] = s[i]
  /\ \A i \in 1..n : u[m + i] = t[i]

LEMMA ConcatFacts ==
  ASSUME NEW s, NEW m, NEW t, NEW n, HasLength(s, m), HasLength(t, n), NEW u, u = s \o t
  PROVE  Joins(u, s, m, t, n)
<1>1. PICK X : X = {s[i] : i \in 1..m} \cup {t[i] : i \in 1..n}
  OBVIOUS
<1>2. m \in Nat /\ n \in Nat /\ s \in [1..m -> X] /\ t \in [1..n -> X]
  BY <1>1 DEF HasLength
<1>3. s \in Seq(X) /\ t \in Seq(X) /\ Len(s) = m /\ Len(t) = n
  BY <1>2, SeqOfFunction
<1>4. /\ u \in Seq(X) /\ Len(u) = m + n
      /\ \A i \in 1..(m + n) : u[i] = IF i <= m THEN s[i] ELSE t[i - m]
  BY <1>3, ConcatProperties
<1>5. u = [i \in 1..(m + n) |-> u[i]]
  <2>1. u \in Seq(X) /\ Len(u) = m + n
    BY <1>4
  <2>2. u \in [1..(m + n) -> X]
    BY <2>1, LenProperties
  <2>3. QED
    BY <2>2
<1>6. ASSUME NEW i \in 1..m
      PROVE  u[i] = s[i]
  BY <1>2, <1>4
<1>7. ASSUME NEW i \in 1..n
      PROVE  u[m + i] = t[i]
  <2>1. m + i \in 1..(m + n) /\ ~ (m + i <= m) /\ (m + i) - m = i
    BY <1>2
  <2>2. QED
    BY <1>4, <2>1
<1>8. QED
  BY <1>2, <1>5, <1>6, <1>7 DEF HasLength, Joins

LEMMA TupleOfEmpty ==
  HasLength(<<>>, 0)
BY DEF HasLength

LEMMA TupleOfOne ==
  ASSUME NEW a, NEW tuple, tuple = <<a>>
  PROVE  HasLength(tuple, 1) /\ tuple[1] = a
BY DEF HasLength

LEMMA TupleOfTwo ==
  ASSUME NEW a, NEW b, NEW tuple, tuple = <<a, b>>
  PROVE  HasLength(tuple, 2) /\ tuple[1] = a /\ tuple[2] = b
BY DEF HasLength

LEMMA TupleOfFive ==
  ASSUME NEW a, NEW b, NEW c, NEW d, NEW e, NEW tuple, tuple = <<a, b, c, d, e>>
  PROVE  HasLength(tuple, 5) /\ tuple[1] = a /\ tuple[2] = b /\ tuple[3] = c /\ tuple[4] = d /\ tuple[5] = e
BY DEF HasLength

LEMMA TupleOfSix ==
  ASSUME NEW a, NEW b, NEW c, NEW d, NEW e, NEW f, NEW tuple, tuple = <<a, b, c, d, e, f>>
  PROVE  HasLength(tuple, 6) /\ tuple[1] = a /\ tuple[2] = b /\ tuple[3] = c /\ tuple[4] = d /\ tuple[5] = e /\ tuple[6] = f
BY DEF HasLength

-----------------------------------------------------------------------------
(* Items, and objects that hold one item after the other. *)
IsItem(x) ==
  /\ x = [type |-> x.type, string |-> x.string, value |-> x.value, child |-> x.child]
  /\ x.type # "none"

Holds(object, pairs, n) ==
  /\ IsItem(object) /\ HasLength(pairs, n)
  /\ object.child = [i \in 1..n |-> Named(pairs[i][1], pairs[i][2])]
  /\ \A i \in 1..n : IsItem(pairs[i][2])

LEMMA ItemFields ==
  ASSUME NEW type, NEW string, NEW value0, NEW child, NEW x, type # "none",
         x = [type |-> type, string |-> string, value |-> value0, child |-> child]
  PROVE  IsItem(x) /\ x.type = type /\ x.string = string /\ x.value = value0 /\ x.child = child
BY DEF IsItem

LEMMA ItemIsThere ==
  ASSUME NEW x, IsItem(x)
  PROVE  x # Null
<1>1. Null.type = "none"
  BY DEF Null
<1>2. QED
  BY <1>1 DEF IsItem

LEMMA NewItems ==
  ASSUME NEW origin
  PROVE  /\ IsItem(CreateNumber(origin)) /\ CreateNumber(origin).value = origin
         /\ IsItem(CreateString(origin)) /\ CreateString(origin).value = origin
<1>1. CreateNumber(origin) = [type |-> "Number", string |-> NoName, value |-> origin, child |-> <<>>]
  BY DEF CreateNumber, New_Item
<1>2. CreateString(origin) = [type |-> "String", string |-> NoName, value |-> origin, child |-> <<>>]
  BY DEF CreateString, New_Item
<1>3. "Number" # "none" /\ "String" # "none"
  OBVIOUS
<1>4. QED
  BY <1>1, <1>2, <1>3, ItemFields

LEMMA NewObject == IsItem(CreateObject) /\ CreateObject.child = <<>>
<1>1. CreateObject = [type |-> "Object", string |-> NoName, value |-> NoName, child |-> <<>>]
  BY DEF CreateObject, New_Item
<1>2. "Object" # "none"
  OBVIOUS
<1>3. QED
  BY <1>1, <1>2, ItemFields

LEMMA WithChild ==
  ASSUME NEW x, IsItem(x), NEW child, NEW y, y = [x EXCEPT !.child = child]
  PROVE  IsItem(y) /\ y.child = child
<1>1. PICK t, s, v, c : x = [type |-> t, string |-> s, value |-> v, child |-> c] /\ t # "none"
  BY DEF IsItem
<1>2. y = [type |-> t, string |-> s, value |-> v, child |-> child]
  BY <1>1
<1>3. QED
  BY <1>1, <1>2, ItemFields

LEMMA WithName ==
  ASSUME NEW x, IsItem(x), NEW name, NEW y, y = Named(name, x)
  PROVE  IsItem(y) /\ y.string = name /\ y.value = x.value /\ y.child = x.child
<1>1. PICK t, s, v, c : x = [type |-> t, string |-> s, value |-> v, child |-> c] /\ t # "none"
  BY DEF IsItem
<1>2. y = [type |-> t, string |-> name, value |-> v, child |-> c]
  BY <1>1 DEF Named
<1>3. QED
  BY <1>1, <1>2, ItemFields

LEMMA NewArray ==
  ASSUME NEW items
  PROVE  IsItem(ArrayOf(items)) /\ ArrayOf(items).child = items
<1>1. CreateArray = [type |-> "Array", string |-> NoName, value |-> NoName, child |-> <<>>]
  BY DEF CreateArray, New_Item
<1>2. "Array" # "none"
  OBVIOUS
<1>3. IsItem(CreateArray)
  BY <1>1, <1>2, ItemFields
<1>4. QED
  BY <1>3, WithChild DEF ArrayOf

LEMMA HoldsNothing == Holds(CreateObject, <<>>, 0)
<1>1. 1..0 = {}
  OBVIOUS
<1>2. CreateObject.child = [i \in 1..0 |-> Named(<<>>[i][1], <<>>[i][2])]
  BY <1>1, NewObject
<1>3. QED
  BY <1>1, <1>2, NewObject, TupleOfEmpty DEF Holds

LEMMA HoldsMore ==
  ASSUME NEW object, NEW pairs, NEW m, Holds(object, pairs, m), NEW more, NEW n, HasLength(more, n),
         \A i \in 1..n : IsItem(more[i][2]),
         NEW result, result = AddItems(object, more), NEW all, all = pairs \o more
  PROVE  Holds(result, all, m + n)
<1>1. m \in Nat /\ n \in Nat /\ HasLength(pairs, m) /\ IsItem(object) /\ DOMAIN more = 1..n
  BY LengthFacts DEF Holds
<1>2. /\ HasLength(all, m + n)
      /\ \A i \in 1..m : all[i] = pairs[i]
      /\ \A i \in 1..n : all[m + i] = more[i]
  <2>1. HasLength(pairs, m) /\ HasLength(more, n) /\ all = pairs \o more
    BY <1>1
  <2>2. Joins(all, pairs, m, more, n)
    BY <2>1, ConcatFacts, Zenon
  <2>3. QED
    BY <2>2 DEF Joins
<1>3. PICK new : new = [i \in 1..n |-> Named(more[i][1], more[i][2])]
  OBVIOUS
<1>4. PICK children : children = object.child \o new
  OBVIOUS
<1>5. HasLength(object.child, m) /\ HasLength(new, n)
  BY <1>1, <1>3 DEF HasLength, Holds
<1>6. /\ HasLength(children, m + n)
      /\ \A i \in 1..m : children[i] = object.child[i]
      /\ \A i \in 1..n : children[m + i] = new[i]
  <2>1. Joins(children, object.child, m, new, n)
    BY <1>4, <1>5, ConcatFacts, Zenon
  <2>2. QED
    BY <2>1 DEF Joins
<1>7. IsItem(result) /\ result.child = children
  <2>1. result = [object EXCEPT !.child = children]
    BY <1>1, <1>3, <1>4 DEF AddItems
  <2>2. QED
    BY <1>1, <2>1, WithChild
<1>8. ASSUME NEW i \in 1..(m + n)
      PROVE  children[i] = Named(all[i][1], all[i][2]) /\ IsItem(all[i][2])
  <2>1. CASE i <= m
    <3>1. i \in 1..m
      BY <1>1, <2>1
    <3>2. object.child[i] = Named(pairs[i][1], pairs[i][2]) /\ IsItem(pairs[i][2])
      BY <3>1 DEF Holds
    <3>3. QED
      BY <1>2, <1>6, <3>1, <3>2
  <2>2. CASE ~ (i <= m)
    <3>1. PICK j \in 1..n : i = m + j
      BY <1>1, <2>2
    <3>2. new[j] = Named(more[j][1], more[j][2])
      BY <1>3
    <3>3. QED
      BY <1>2, <1>6, <3>1, <3>2
  <2>3. QED
    BY <2>1, <2>2
<1>9. children = [i \in 1..(m + n) |-> Named(all[i][1], all[i][2])]
  BY <1>6, <1>8 DEF HasLength
<1>10. QED
  BY <1>2, <1>7, <1>8, <1>9 DEF Holds

LEMMA HoldsAll ==
  ASSUME NEW pairs, NEW n, HasLength(pairs, n), \A i \in 1..n : IsItem(pairs[i][2]),
         NEW result, result = AddItems(CreateObject, pairs)
  PROVE  Holds(result, pairs, n)
<1>1. PICK all : all = <<>> \o pairs
  OBVIOUS
<1>2. Holds(result, all, 0 + n)
  BY <1>1, HoldsNothing, HoldsMore
<1>3. Joins(all, <<>>, 0, pairs, n)
  BY <1>1, TupleOfEmpty, ConcatFacts, Zenon
<1>4. n \in Nat /\ 0 + n = n /\ \A i \in 1..n : 0 + i = i
  BY DEF HasLength
<1>5. HasLength(all, n) /\ \A i \in 1..n : all[i] = pairs[i]
  BY <1>3, <1>4 DEF Joins
<1>6. all = pairs
  BY <1>5 DEF HasLength
<1>7. QED
  BY <1>2, <1>4, <1>6

LEMMA HoldsOne ==
  ASSUME NEW object, NEW pairs, NEW m, Holds(object, pairs, m), NEW name, NEW item, IsItem(item),
         NEW pair, pair = <<name, item>>,
         NEW result, result = AddItemToObject(object, name, item), NEW all, all = pairs \o <<pair>>
  PROVE  Holds(result, all, m + 1)
<1>1. PICK more : more = <<pair>> /\ HasLength(more, 1) /\ more[1] = pair
  BY TupleOfOne
<1>2. pair[1] = name /\ pair[2] = item
  OBVIOUS
<1>3. \A i \in 1..1 : IsItem(more[i][2])
  BY <1>1, <1>2
<1>4. result = AddItems(object, more)
  <2>1. result = [object EXCEPT !.child = Append(@, Named(name, item))]
    BY ItemIsThere, WithName DEF AddItemToObject, AddItemToArray
  <2>2. PICK new : new = Named(name, item)
    OBVIOUS
  <2>3. [i \in DOMAIN more |-> Named(more[i][1], more[i][2])] = <<new>>
    BY <1>1, <1>2, <2>2 DEF HasLength
  <2>4. Append(object.child, new) = object.child \o <<new>>
    <3>1. HasLength(object.child, m)
      BY DEF Holds, HasLength
    <3>2. PICK X : X = {object.child[i] : i \in 1..m} \cup {new}
      OBVIOUS
    <3>3. m \in Nat /\ object.child \in [1..m -> X] /\ new \in X
      BY <3>1, <3>2 DEF HasLength
    <3>4. object.child \in Seq(X)
      BY <3>3, SeqOfFunction
    <3>5. QED
      BY <3>3, <3>4, AppendIsConcat
  <2>5. QED
    BY <2>1, <2>2, <2>3, <2>4 DEF AddItems
<1>5. QED
  BY <1>1, <1>3, <1>4, HoldsMore

LEMMA MinIsLeast ==
  ASSUME NEW X, NEW k \in X, X \subseteq Nat, \A i \in X : k <= i
  PROVE  Min(X) = k
<1>1. \E x \in X : \A y \in X : x <= y
  OBVIOUS
<1>2. PICK least : least = Min(X)
  OBVIOUS
<1>3. least \in X /\ \A y \in X : least <= y
  BY <1>1, <1>2 DEF Min
<1>4. least \in Nat /\ k \in Nat /\ least <= k /\ k <= least
  BY <1>3
<1>5. least = k
  BY <1>4
<1>6. QED
  BY <1>2, <1>5

(* The first item of that name is found. *)
LEMMA Lookup ==
  ASSUME NEW object, NEW pairs, NEW n, Holds(object, pairs, n), NEW name, NEW k \in 1..n,
         SameName(pairs[k][1], name), \A i \in 1..n : SameName(pairs[i][1], name) => k <= i,
         NEW x, x = GetObjectItem(object, name)
  PROVE  IsItem(x) /\ x.value = pairs[k][2].value /\ x.child = pairs[k][2].child
<1>1. n \in Nat /\ DOMAIN object.child = 1..n
  BY DEF Holds, HasLength
<1>2. ASSUME NEW i \in 1..n
      PROVE  object.child[i] = Named(pairs[i][1], pairs[i][2]) /\ object.child[i].string = pairs[i][1]
  BY WithName DEF Holds
<1>3. PICK named : named = {i \in DOMAIN object.child : SameName(object.child[i].string, name)}
  OBVIOUS
<1>4. k \in named /\ named \subseteq Nat /\ \A i \in named : k <= i
  BY <1>1, <1>2, <1>3
<1>5. Min(named) = k
  BY <1>4, MinIsLeast
<1>6. x = object.child[k]
  BY <1>3, <1>4, <1>5, ItemIsThere DEF GetObjectItem, Holds
<1>7. x = Named(pairs[k][1], pairs[k][2]) /\ IsItem(pairs[k][2])
  BY <1>2, <1>6 DEF Holds
<1>8. QED
  BY <1>7, WithName

LEMMA SameChildren ==
  ASSUME NEW x, NEW y, IsItem(x), IsItem(y), x.child = y.child, NEW name
  PROVE  GetObjectItem(x, name) = GetObjectItem(y, name)
BY ItemIsThere DEF GetObjectItem

LEMMA NoLookup ==
  ASSUME NEW object, NEW pairs, NEW n, Holds(object, pairs, n), NEW name,
         \A i \in 1..n : ~ SameName(pairs[i][1], name)
  PROVE  GetObjectItem(object, name) = Null
<1>1. DOMAIN object.child = 1..n
  BY DEF Holds, HasLength
<1>2. ASSUME NEW i \in 1..n
      PROVE  object.child[i].string = pairs[i][1]
  BY WithName DEF Holds
<1>3. {i \in DOMAIN object.child : SameName(object.child[i].string, name)} = {}
  BY <1>1, <1>2
<1>4. QED
  BY <1>3 DEF GetObjectItem

LEMMA Element ==
  ASSUME NEW array, IsItem(array), NEW n, HasLength(array.child, n), NEW place \in Nat, place < n
  PROVE  GetArrayItem(array, place) = array.child[place + 1]
BY LengthFacts, ItemIsThere DEF GetArrayItem

-----------------------------------------------------------------------------
(* The names that the code gives itself, and those of the tables. *)
LEMMA OwnName ==
  ASSUME NEW name \in Fixed, NEW other
  PROVE  SameName(other, name) <=> SmallLetters(other) = name
BY MonitoringAssumption DEF SameName, SmallLetters

LEMMA OwnNames ==
  ASSUME NEW name \in Fixed, NEW other \in Fixed
  PROVE  SameName(other, name) <=> other = name
<1>1. SmallLetters(other) = other
  BY MonitoringAssumption DEF SmallLetters
<1>2. QED
  BY <1>1, OwnName

LEMMA KeyIsNoOwnName ==
  ASSUME NEW s \in S, NEW name \in Fixed
  PROVE  ~ SameName(KeyOf[s], name) /\ ~ SameName(name, KeyOf[s])
BY OwnName, MonitoringAssumption DEF SameName

LEMMA SensorCount ==
  Len(Sensors) \in Nat /\ DOMAIN Sensors = 1..Len(Sensors) /\ \A i \in 1..Len(Sensors) : Sensors[i] \in S
BY MonitoringAssumption, LenProperties DEF S

LEMMA ChannelCount ==
  Len(Channels) \in Nat /\ DOMAIN Channels = 1..Len(Channels) /\ \A i \in 1..Len(Channels) : Channels[i] \in C
BY ZynqAssumption, LenProperties DEF C

LEMMA KindOf ==
  /\ \A s \in Ltc : s \in S /\ Kind[s] = "ltc2945"
  /\ \A s \in Firefly : s \in S /\ Kind[s] = "firefly4"
BY DEF Ltc, Firefly

-----------------------------------------------------------------------------
(* Of one name there is one item: what the code finds under it. *)
LEMMA TheItem ==
  ASSUME NEW object, NEW pairs, NEW n, Holds(object, pairs, n), NEW name, NEW k \in 1..n,
         SameName(pairs[k][1], name), \A i \in 1..n : SameName(pairs[i][1], name) => i = k,
         NEW x, x = GetObjectItem(object, name)
  PROVE  IsItem(x) /\ x.value = pairs[k][2].value /\ x.child = pairs[k][2].child
<1>1. n \in Nat
  BY DEF Holds, HasLength
<1>2. \A i \in 1..n : SameName(pairs[i][1], name) => k <= i
  BY <1>1
<1>3. QED
  BY <1>2, Lookup

(* The entry of an ltc2945 is an array, with the voltage and the current at its
   places 2 and 3. *)
LEMMA LtcEntry ==
  ASSUME NEW s \in Ltc, NEW pair, pair = BusItem(s)
  PROVE  /\ pair[1] = KeyOf[s] /\ IsItem(pair[2]) /\ HasLength(pair[2].child, 5)
         /\ \A i \in {3, 4} : IsItem(pair[2].child[i]) /\ pair[2].child[i].value = record[s].low
<1>1. PICK values : values = <<CreateString(s), CreateNumber(~record[s].present), CreateNumber(record[s].low),
                               CreateNumber(record[s].low), CreateNumber(record[s].high)>>
  OBVIOUS
<1>2. HasLength(values, 5) /\ values[3] = CreateNumber(record[s].low) /\ values[4] = CreateNumber(record[s].low)
  BY <1>1, TupleOfFive
<1>3. pair = <<KeyOf[s], ArrayOf(values)>>
  BY <1>1, KindOf DEF BusItem, Ltc2945Format, SensorArray
<1>4. pair[1] = KeyOf[s] /\ pair[2] = ArrayOf(values)
  BY <1>3
<1>5. IsItem(pair[2]) /\ pair[2].child = values
  BY <1>4, NewArray
<1>6. QED
  BY <1>2, <1>4, <1>5, NewItems

(* That of a Firefly is an object. *)
ModuleNames == <<"name", "present", "status", "rxpower", "id", "model", "serial", "fwversion">>

FireflyPairs(s) == <<<<"name", CreateString(s)>>, <<"present", CreateNumber(record[s].present)>>>> \o ModuleData(s)

LEMMA TwoPairs ==
  ASSUME NEW s, NEW two, two = <<<<"name", CreateString(s)>>, <<"present", CreateNumber(record[s].present)>>>>
  PROVE  /\ HasLength(two, 2)
         /\ two[1][1] = "name" /\ IsItem(two[1][2])
         /\ two[2][1] = "present" /\ IsItem(two[2][2]) /\ two[2][2].value = record[s].present
<1>1. PICK first : first = <<"name", CreateString(s)>>
  OBVIOUS
<1>2. PICK second : second = <<"present", CreateNumber(record[s].present)>>
  OBVIOUS
<1>3. HasLength(two, 2) /\ two[1] = first /\ two[2] = second
  BY <1>1, <1>2, TupleOfTwo
<1>4. first[1] = "name" /\ first[2] = CreateString(s)
  BY <1>1
<1>5. second[1] = "present" /\ second[2] = CreateNumber(record[s].present)
  BY <1>2
<1>6. QED
  BY <1>3, <1>4, <1>5, NewItems

LEMMA SixPairs ==
  ASSUME NEW s, record[s].present, NEW six, six = ModuleData(s)
  PROVE  /\ HasLength(six, 6)
         /\ six[1][1] = "status" /\ six[2][1] = "rxpower" /\ six[3][1] = "id"
         /\ six[4][1] = "model" /\ six[5][1] = "serial" /\ six[6][1] = "fwversion"
         /\ \A i \in 1..6 : IsItem(six[i][2])
         /\ \A i \in {1, 3, 6} : six[i][2].value = record[s].low
         /\ \A i \in {4, 5} : six[i][2].value = record[s].high
         /\ HasLength(six[2][2].child, 4) /\ IsItem(six[2][2].child[1]) /\ six[2][2].child[1].value = record[s].low
<1>1. PICK low, high : low = record[s].low /\ high = record[s].high
  OBVIOUS
<1>2. PICK powers : powers = [i \in 1..4 |-> CreateNumber(low)]
  OBVIOUS
<1>3. PICK a, b, c, d, e, f :
        /\ a = <<"status", CreateNumber(low)>> /\ b = <<"rxpower", ArrayOf(powers)>> /\ c = <<"id", CreateNumber(low)>>
        /\ d = <<"model", CreateString(high)>> /\ e = <<"serial", CreateString(high)>> /\ f = <<"fwversion", CreateString(low)>>
  OBVIOUS
<1>4. six = <<a, b, c, d, e, f>>
  BY <1>1, <1>2, <1>3 DEF ModuleData
<1>5. HasLength(six, 6) /\ six[1] = a /\ six[2] = b /\ six[3] = c /\ six[4] = d /\ six[5] = e /\ six[6] = f
  BY <1>4, TupleOfSix
<1>6. /\ a[1] = "status" /\ b[1] = "rxpower" /\ c[1] = "id" /\ d[1] = "model" /\ e[1] = "serial" /\ f[1] = "fwversion"
      /\ a[2] = CreateNumber(low) /\ b[2] = ArrayOf(powers) /\ c[2] = CreateNumber(low)
      /\ d[2] = CreateString(high) /\ e[2] = CreateString(high) /\ f[2] = CreateString(low)
  BY <1>3
<1>7. /\ IsItem(a[2]) /\ a[2].value = low /\ IsItem(c[2]) /\ c[2].value = low
      /\ IsItem(d[2]) /\ d[2].value = high /\ IsItem(e[2]) /\ e[2].value = high
      /\ IsItem(f[2]) /\ f[2].value = low
  BY <1>6, NewItems
<1>8. IsItem(b[2]) /\ b[2].child = powers
  BY <1>6, NewArray
<1>9. HasLength(powers, 4) /\ IsItem(powers[1]) /\ powers[1].value = low
  <2>1. HasLength(powers, 4)
    BY <1>2 DEF HasLength
  <2>2. powers[1] = CreateNumber(low)
    BY <1>2
  <2>3. QED
    BY <2>1, <2>2, NewItems
<1>10. \A i \in 1..6 : IsItem(six[i][2])
  <2>1. 1..6 = {1, 2, 3, 4, 5, 6}
    OBVIOUS
  <2>2. QED
    BY <1>5, <1>7, <1>8, <2>1
<1>11. QED
  BY <1>1, <1>5, <1>6, <1>7, <1>8, <1>9, <1>10

LEMMA FireflyEntry ==
  ASSUME NEW s \in Firefly, NEW pair, pair = BusItem(s)
  PROVE  /\ pair[1] = KeyOf[s] /\ IsItem(pair[2])
         /\ record[s].present => Holds(pair[2], FireflyPairs(s), 8)
         /\ ~ record[s].present => Holds(pair[2], FireflyPairs(s), 2)
<1>1. PICK pairs : pairs = FireflyPairs(s)
  OBVIOUS
<1>2. pair = <<KeyOf[s], AddItems(CreateObject, pairs)>>
  BY <1>1, KindOf DEF BusItem, FireflyFormat4, FireflyPairs
<1>3. pair[1] = KeyOf[s] /\ pair[2] = AddItems(CreateObject, pairs)
  BY <1>2
<1>4. PICK two : two = <<<<"name", CreateString(s)>>, <<"present", CreateNumber(record[s].present)>>>>
  OBVIOUS
<1>5. HasLength(two, 2) /\ IsItem(two[1][2]) /\ IsItem(two[2][2])
  BY <1>4, TwoPairs
<1>6. \A i \in 1..2 : IsItem(two[i][2])
  <2>1. 1..2 = {1, 2}
    OBVIOUS
  <2>2. QED
    BY <1>5, <2>1
<1>7. Holds(AddItems(CreateObject, two), two, 2)
  BY <1>5, <1>6, HoldsAll
<1>8. CASE record[s].present
  <2>1. PICK six : six = ModuleData(s)
    OBVIOUS
  <2>2. HasLength(six, 6) /\ \A i \in 1..6 : IsItem(six[i][2])
    BY <1>8, <2>1, SixPairs
  <2>3. pairs = two \o six
    BY <1>1, <1>4, <2>1 DEF FireflyPairs
  <2>4. Joins(pairs, two, 2, six, 6)
    BY <1>5, <2>2, <2>3, ConcatFacts, Zenon
  <2>5. HasLength(pairs, 8) /\ \A i \in 1..8 : IsItem(pairs[i][2])
    <3>1. HasLength(pairs, 2 + 6) /\ (\A i \in 1..2 : pairs[i] = two[i]) /\ (\A i \in 1..6 : pairs[2 + i] = six[i])
      BY <2>4 DEF Joins
    <3>2. 2 + 6 = 8
      OBVIOUS
    <3>3. ASSUME NEW i \in 1..8
          PROVE  IsItem(pairs[i][2])
      <4>1. CASE i \in 1..2
        BY <1>6, <3>1, <4>1
      <4>2. CASE ~ (i \in 1..2)
        <5>1. PICK j \in 1..6 : i = 2 + j
          <6>1. i - 2 \in 1..6 /\ i = 2 + (i - 2)
            BY <4>2
          <6>2. QED
            BY <6>1
        <5>2. QED
          BY <2>2, <3>1, <5>1
      <4>3. QED
        BY <4>1, <4>2
    <3>4. QED
      BY <3>1, <3>2, <3>3
  <2>6. Holds(pair[2], pairs, 8)
    BY <1>3, <2>5, HoldsAll
  <2>7. QED
    BY <1>1, <1>3, <1>8, <2>6 DEF Holds
<1>9. CASE ~ record[s].present
  <2>1. ModuleData(s) = <<>>
    BY <1>9 DEF ModuleData
  <2>2. pairs = two \o <<>>
    BY <1>1, <1>4, <2>1 DEF FireflyPairs
  <2>3. Joins(pairs, two, 2, <<>>, 0)
    BY <1>5, <2>2, TupleOfEmpty, ConcatFacts, Zenon
  <2>4. HasLength(pairs, 2) /\ \A i \in 1..2 : IsItem(pairs[i][2])
    <3>1. HasLength(pairs, 2 + 0) /\ \A i \in 1..2 : pairs[i] = two[i]
      BY <2>3 DEF Joins
    <3>2. 2 + 0 = 2
      OBVIOUS
    <3>3. QED
      BY <1>6, <3>1, <3>2
  <2>5. Holds(pair[2], pairs, 2)
    BY <1>3, <2>4, HoldsAll
  <2>6. QED
    BY <1>1, <1>3, <1>9, <2>5 DEF Holds
<1>10. QED
  BY <1>8, <1>9

LEMMA PairsOfModule ==
  ASSUME NEW s, NEW pairs, pairs = FireflyPairs(s)
  PROVE  /\ pairs[1][1] = "name" /\ pairs[2][1] = "present" /\ pairs[2][2].value = record[s].present
         /\ record[s].present =>
              \A i \in 1..6 : pairs[2 + i][1] = ModuleData(s)[i][1] /\ pairs[2 + i][2] = ModuleData(s)[i][2]
<1>1. PICK two : two = <<<<"name", CreateString(s)>>, <<"present", CreateNumber(record[s].present)>>>>
  OBVIOUS
<1>2. HasLength(two, 2) /\ two[1][1] = "name" /\ two[2][1] = "present" /\ two[2][2].value = record[s].present
  BY <1>1, TwoPairs
<1>3. PICK six : six = ModuleData(s)
  OBVIOUS
<1>4. PICK n : HasLength(six, n) /\ (record[s].present => n = 6)
  <2>1. CASE record[s].present
    BY <1>3, <2>1, SixPairs
  <2>2. CASE ~ record[s].present
    <3>1. six = <<>>
      BY <1>3, <2>2 DEF ModuleData
    <3>2. QED
      BY <2>2, <3>1, TupleOfEmpty
  <2>3. QED
    BY <2>1, <2>2
<1>5. pairs = two \o six
  BY <1>1, <1>3 DEF FireflyPairs
<1>6. Joins(pairs, two, 2, six, n)
  BY <1>2, <1>4, <1>5, ConcatFacts, Zenon
<1>7. pairs[1] = two[1] /\ pairs[2] = two[2] /\ \A i \in 1..n : pairs[2 + i] = six[i]
  BY <1>6 DEF Joins
<1>8. QED
  BY <1>2, <1>3, <1>4, <1>7

(* Of a module that is not there one finds that, and no numbers ... *)
LEMMA ItemOfAbsent ==
  ASSUME NEW s, ~ record[s].present, NEW entry, Holds(entry, FireflyPairs(s), 2)
  PROVE  /\ Value(GetObjectItem(entry, "present"), Missing) = record[s].present
         /\ Value(GetObjectItem(entry, "status"), Missing) = Missing
<1>1. PICK pairs : pairs = FireflyPairs(s)
  OBVIOUS
<1>2. pairs[1][1] = "name" /\ pairs[2][1] = "present" /\ pairs[2][2].value = record[s].present
  BY <1>1, PairsOfModule
<1>3. \A i \in 1..2 : i = 1 \/ i = 2
  OBVIOUS
<1>4. "name" \in Fixed /\ "present" \in Fixed /\ "status" \in Fixed
  BY DEF Fixed
<1>5. "name" # "present" /\ "name" # "status" /\ "present" # "status"
  OBVIOUS
<1>6. PICK x : x = GetObjectItem(entry, "present")
  OBVIOUS
<1>7. IsItem(x) /\ x.value = record[s].present
  <2>1. 2 \in 1..2 /\ SameName(pairs[2][1], "present")
    BY <1>2 DEF SameName
  <2>2. \A i \in 1..2 : SameName(pairs[i][1], "present") => i = 2
    BY <1>2, <1>3, <1>4, <1>5, OwnNames
  <2>3. Holds(entry, pairs, 2)
    BY <1>1
  <2>4. x.value = pairs[2][2].value /\ IsItem(x)
    BY <1>6, <2>1, <2>2, <2>3, TheItem
  <2>5. QED
    BY <1>2, <2>4
<1>8. GetObjectItem(entry, "status") = Null
  <2>1. \A i \in 1..2 : ~ SameName(pairs[i][1], "status")
    BY <1>2, <1>3, <1>4, <1>5, OwnNames
  <2>2. QED
    BY <1>1, <2>1, NoLookup
<1>9. QED
  BY <1>6, <1>7, <1>8, ItemIsThere DEF Value

LEMMA NamesDiffer ==
  ASSUME NEW i \in 1..8, NEW k \in 1..8, SameName(ModuleNames[i], ModuleNames[k])
  PROVE  i = k
<1>1. ModuleNames[i] \in Fixed /\ ModuleNames[k] \in Fixed
  BY DEF ModuleNames, Fixed
<1>2. ModuleNames[i] = ModuleNames[k]
  BY <1>1, OwnNames
<1>3. QED
  BY <1>2 DEF ModuleNames

(* ... and of one that is there each of its items. *)
LEMMA ItemOfPresent ==
  ASSUME NEW s, record[s].present, NEW entry, Holds(entry, FireflyPairs(s), 8), NEW k \in 1..8,
         NEW x, x = GetObjectItem(entry, ModuleNames[k])
  PROVE  IsItem(x) /\ x.value = FireflyPairs(s)[k][2].value /\ x.child = FireflyPairs(s)[k][2].child
<1>1. PICK pairs : pairs = FireflyPairs(s)
  OBVIOUS
<1>2. \A i \in 1..8 : pairs[i][1] = ModuleNames[i]
  <2>1. PICK six : six = ModuleData(s)
    OBVIOUS
  <2>2. /\ six[1][1] = "status" /\ six[2][1] = "rxpower" /\ six[3][1] = "id"
        /\ six[4][1] = "model" /\ six[5][1] = "serial" /\ six[6][1] = "fwversion"
    BY <2>1, SixPairs
  <2>3. pairs[1][1] = "name" /\ pairs[2][1] = "present" /\ \A i \in 1..6 : pairs[2 + i][1] = six[i][1]
    BY <1>1, <2>1, PairsOfModule
  <2>4. /\ pairs[3][1] = six[1][1] /\ pairs[4][1] = six[2][1] /\ pairs[5][1] = six[3][1]
        /\ pairs[6][1] = six[4][1] /\ pairs[7][1] = six[5][1] /\ pairs[8][1] = six[6][1]
    BY <2>3
  <2>5. \A i \in 1..8 : i \in {1, 2, 3, 4, 5, 6, 7, 8}
    OBVIOUS
  <2>6. QED
    BY <2>2, <2>3, <2>4, <2>5 DEF ModuleNames
<1>3. SameName(pairs[k][1], ModuleNames[k])
  BY <1>2 DEF SameName
<1>4. \A i \in 1..8 : SameName(pairs[i][1], ModuleNames[k]) => i = k
  BY <1>2, NamesDiffer
<1>5. Holds(entry, pairs, 8)
  BY <1>1
<1>6. QED
  BY <1>1, <1>3, <1>4, <1>5, TheItem

-----------------------------------------------------------------------------
(* The item "sensor": the sensors on the bus, the two of the Zynq and, perhaps,
   that of the block. *)
N == Len(Sensors)
M == Len(Channels)
BusPairs == [i \in DOMAIN Sensors |-> BusItem(Sensors[i])]
ZynqPairs == [i \in DOMAIN Channels |-> FileChannel(Channels[i])]

IsSensor(pairs, n) ==
  /\ n = N + 2 \/ (n = N + 3 /\ pairs[N + 3][1] = "ipmc")
  /\ \A i \in 1..N : pairs[i] = BusItem(Sensors[i])
  /\ pairs[N + 1][1] = "zynqps" /\ pairs[N + 1][2] = AddItems(CreateObject, ZynqPairs)
  /\ pairs[N + 2][1] = "fpga"

LEMMA BusItems ==
  ASSUME NEW s \in S, NEW pair, pair = BusItem(s)
  PROVE  pair[1] = KeyOf[s] /\ IsItem(pair[2])
<1>1. Kind[s] \in {"firefly4", "sfp", "ltc2945"}
  BY MonitoringAssumption
<1>2. CASE Kind[s] = "ltc2945"
  BY <1>2, LtcEntry DEF Ltc
<1>3. CASE Kind[s] = "firefly4"
  BY <1>3, FireflyEntry DEF Firefly
<1>4. CASE Kind[s] = "sfp"
  <2>1. PICK values : pair = <<KeyOf[s], ArrayOf(values)>>
    BY <1>4 DEF BusItem, SfpFormat, SensorArray
  <2>2. pair[1] = KeyOf[s] /\ pair[2] = ArrayOf(values)
    BY <2>1
  <2>3. QED
    BY <2>2, NewArray
<1>5. QED
  BY <1>1, <1>2, <1>3, <1>4

LEMMA HoldsBus ==
  ASSUME NEW bus, bus = AddItems(CreateObject, BusPairs)
  PROVE  Holds(bus, BusPairs, N)
<1>1. HasLength(BusPairs, N)
  BY SensorCount DEF BusPairs, N, HasLength
<1>2. ASSUME NEW i \in 1..N
      PROVE  IsItem(BusPairs[i][2])
  <2>1. BusPairs[i] = BusItem(Sensors[i]) /\ Sensors[i] \in S
    BY SensorCount DEF BusPairs, N
  <2>2. QED
    BY <2>1, BusItems
<1>3. QED
  BY <1>1, <1>2, HoldsAll

(* Any object that is made of items is one. *)
LEMMA MadeObject ==
  ASSUME NEW pairs
  PROVE  IsItem(AddItems(CreateObject, pairs))
BY NewObject, WithChild DEF AddItems

LEMMA SensorObject ==
  ASSUME NEW sensor, sensor = IpmcSensorBlockFormat(ZynqOnBoardFormat(AddItems(CreateObject, BusPairs)))
  PROVE  \E n \in Nat : \E pairs : Holds(sensor, pairs, n) /\ IsSensor(pairs, n)
<1>1. PICK bus : bus = AddItems(CreateObject, BusPairs) /\ Holds(bus, BusPairs, N)
  BY HoldsBus
<1>2. PICK fpga : /\ IsItem(fpga)
                  /\ ZynqOnBoardFormat(bus) = AddItems(bus, <<<<"zynqps", AddItems(CreateObject, ZynqPairs)>>, <<"fpga", fpga>>>>)
  BY MadeObject DEF ZynqOnBoardFormat, ZynqPairs
<1>3. PICK z : z = <<"zynqps", AddItems(CreateObject, ZynqPairs)>>
  OBVIOUS
<1>4. PICK f : f = <<"fpga", fpga>>
  OBVIOUS
<1>5. PICK both : both = <<z, f>>
  OBVIOUS
<1>6. HasLength(both, 2) /\ both[1] = z /\ both[2] = f
  BY <1>5, TupleOfTwo
<1>7. z[1] = "zynqps" /\ z[2] = AddItems(CreateObject, ZynqPairs) /\ f[1] = "fpga" /\ f[2] = fpga
  BY <1>3, <1>4
<1>8. \A i \in 1..2 : IsItem(both[i][2])
  <2>1. IsItem(z[2]) /\ IsItem(f[2])
    BY <1>2, <1>7, MadeObject
  <2>2. 1..2 = {1, 2}
    OBVIOUS
  <2>3. QED
    BY <1>6, <2>1, <2>2
<1>9. PICK parent, pairs : parent = ZynqOnBoardFormat(bus) /\ pairs = BusPairs \o both
  OBVIOUS
<1>10. N \in Nat /\ HasLength(BusPairs, N)
  BY <1>1, SensorCount DEF Holds, N
<1>11. Joins(pairs, BusPairs, N, both, 2)
  BY <1>6, <1>9, <1>10, ConcatFacts, Zenon
<1>12. /\ \A i \in 1..N : pairs[i] = BusPairs[i]
       /\ pairs[N + 1] = z /\ pairs[N + 2] = f
  BY <1>6, <1>11 DEF Joins
<1>13. \A i \in 1..N : BusPairs[i] = BusItem(Sensors[i])
  BY SensorCount DEF BusPairs, N
<1>14. parent = AddItems(bus, both)
  BY <1>2, <1>3, <1>4, <1>5, <1>9
<1>15. Holds(parent, pairs, N + 2)
  BY <1>1, <1>6, <1>8, <1>9, <1>14, HoldsMore
<1>16. CASE ~ SetupDecoder
  <2>1. sensor = parent
    BY <1>1, <1>9, <1>16 DEF IpmcSensorBlockFormat
  <2>2. IsSensor(pairs, N + 2)
    BY <1>7, <1>12, <1>13 DEF IsSensor
  <2>3. QED
    BY <1>10, <1>15, <2>1, <2>2
<1>17. CASE SetupDecoder
  <2>1. PICK ipmc : ipmc = AddItems(CreateObject, HeaderData \o DecodedData)
    OBVIOUS
  <2>2. sensor = AddItemToObject(parent, "ipmc", ipmc) /\ IsItem(ipmc)
    BY <1>1, <1>9, <1>17, <2>1, MadeObject DEF IpmcSensorBlockFormat
  <2>3. PICK pair, all : pair = <<"ipmc", ipmc>> /\ all = pairs \o <<pair>>
    OBVIOUS
  <2>4. Holds(sensor, all, (N + 2) + 1)
    BY <1>15, <2>2, <2>3, HoldsOne
  <2>5. Joins(all, pairs, N + 2, <<pair>>, 1)
    <3>1. HasLength(pairs, N + 2) /\ HasLength(<<pair>>, 1)
      BY <1>15, TupleOfOne DEF Holds
    <3>2. QED
      BY <2>3, <3>1, ConcatFacts, Zenon
  <2>6. all[(N + 2) + 1] = pair /\ \A i \in 1..(N + 2) : all[i] = pairs[i]
    BY <2>5 DEF Joins
  <2>7. (N + 2) + 1 = N + 3 /\ N + 1 \in 1..(N + 2) /\ N + 2 \in 1..(N + 2) /\ 1..N \subseteq 1..(N + 2)
    BY <1>10
  <2>8. pair[1] = "ipmc"
    BY <2>3
  <2>9. IsSensor(all, N + 3)
    BY <1>7, <1>12, <1>13, <2>6, <2>7, <2>8 DEF IsSensor
  <2>10. QED
    BY <1>10, <2>4, <2>7, <2>9
<1>18. QED
  BY <1>16, <1>17

LEMMA SensorNames ==
  ASSUME NEW n \in Nat, NEW pairs, IsSensor(pairs, n), NEW i \in 1..n
  PROVE  \/ i \in 1..N /\ pairs[i][1] = KeyOf[Sensors[i]]
         \/ i = N + 1 /\ pairs[i][1] = "zynqps"
         \/ i = N + 2 /\ pairs[i][1] = "fpga"
         \/ i = N + 3 /\ pairs[i][1] = "ipmc"
<1>1. N \in Nat
  BY SensorCount DEF N
<1>2. i \in 1..N \/ i = N + 1 \/ i = N + 2 \/ (i = N + 3 /\ n = N + 3)
  BY <1>1 DEF IsSensor
<1>3. ASSUME i \in 1..N
      PROVE  pairs[i][1] = KeyOf[Sensors[i]]
  <2>1. pairs[i] = BusItem(Sensors[i]) /\ Sensors[i] \in S
    BY <1>3, SensorCount DEF IsSensor, N
  <2>2. QED
    BY <2>1, BusItems
<1>4. n = N + 3 => pairs[N + 3][1] = "ipmc"
  BY <1>1 DEF IsSensor
<1>5. QED
  BY <1>2, <1>3, <1>4 DEF IsSensor

(* Under the key of a sensor one finds the entry of this sensor. *)
LEMMA FindSensor ==
  ASSUME NEW sensor, sensor = IpmcSensorBlockFormat(ZynqOnBoardFormat(AddItems(CreateObject, BusPairs))),
         NEW s \in S, NEW x, x = GetObjectItem(sensor, KeyOf[s])
  PROVE  IsItem(x) /\ x.child = BusItem(s)[2].child
<1>1. PICK n \in Nat : \E pairs : Holds(sensor, pairs, n) /\ IsSensor(pairs, n)
  BY SensorObject
<1>2. PICK pairs : Holds(sensor, pairs, n) /\ IsSensor(pairs, n)
  BY <1>1
<1>3. PICK k \in 1..N : Sensors[k] = s
  BY SensorCount DEF S, N
<1>4. k \in 1..n
  BY <1>2, SensorCount DEF IsSensor, N
<1>5. pairs[k] = BusItem(s) /\ pairs[k][1] = KeyOf[s]
  BY <1>2, <1>3, BusItems DEF IsSensor
<1>6. ASSUME NEW i \in 1..n, SameName(pairs[i][1], KeyOf[s])
      PROVE  i = k
  <2>1. "zynqps" \in Fixed /\ "fpga" \in Fixed /\ "ipmc" \in Fixed
    BY DEF Fixed
  <2>2. i \in 1..N /\ pairs[i][1] = KeyOf[Sensors[i]]
    BY <1>2, <1>6, <2>1, SensorNames, KeyIsNoOwnName
  <2>3. Sensors[i] \in S
    BY <2>2, SensorCount DEF N
  <2>4. Sensors[i] = s
    BY <1>6, <2>2, <2>3, MonitoringAssumption
  <2>5. QED
    BY <1>3, <2>2, <2>4, SensorCount, MonitoringAssumption DEF N
<1>7. SameName(pairs[k][1], KeyOf[s])
  BY <1>5 DEF SameName
<1>8. IsItem(x) /\ x.child = pairs[k][2].child
  BY <1>2, <1>4, <1>6, <1>7, TheItem
<1>9. QED
  BY <1>5, <1>8

(* Under "zynqps" those of the channels, ... *)
LEMMA FindZynq ==
  ASSUME NEW sensor, sensor = IpmcSensorBlockFormat(ZynqOnBoardFormat(AddItems(CreateObject, BusPairs))),
         NEW x, x = GetObjectItem(sensor, "zynqps")
  PROVE  Holds(x, ZynqPairs, M)
<1>1. PICK n \in Nat : \E pairs : Holds(sensor, pairs, n) /\ IsSensor(pairs, n)
  BY SensorObject
<1>2. PICK pairs : Holds(sensor, pairs, n) /\ IsSensor(pairs, n)
  BY <1>1
<1>3. N \in Nat /\ N + 1 \in 1..n
  BY <1>2, SensorCount DEF IsSensor, N
<1>4. ASSUME NEW i \in 1..n, SameName(pairs[i][1], "zynqps")
      PROVE  i = N + 1
  <2>1. "zynqps" \in Fixed /\ "fpga" \in Fixed /\ "ipmc" \in Fixed
    BY DEF Fixed
  <2>2. "fpga" # "zynqps" /\ "ipmc" # "zynqps"
    OBVIOUS
  <2>3. ~ SameName("fpga", "zynqps") /\ ~ SameName("ipmc", "zynqps")
    BY <2>1, <2>2, OwnNames
  <2>4. i \in 1..N => Sensors[i] \in S
    BY SensorCount DEF N
  <2>5. i \in 1..N => ~ SameName(KeyOf[Sensors[i]], "zynqps")
    BY <2>1, <2>4, KeyIsNoOwnName
  <2>6. QED
    BY <1>2, <1>4, <2>3, <2>5, SensorNames
<1>5. SameName(pairs[N + 1][1], "zynqps")
  BY <1>2 DEF IsSensor, SameName
<1>6. PICK k : k = N + 1 /\ k \in 1..n
  BY <1>3
<1>7. IsItem(x) /\ x.child = pairs[k][2].child
  BY <1>2, <1>4, <1>5, <1>6, TheItem
<1>8. x.child = AddItems(CreateObject, ZynqPairs).child
  BY <1>2, <1>6, <1>7 DEF IsSensor
<1>9. Holds(AddItems(CreateObject, ZynqPairs), ZynqPairs, M)
  <2>1. HasLength(ZynqPairs, M)
    BY ChannelCount DEF ZynqPairs, M, HasLength
  <2>2. ASSUME NEW i \in 1..M
        PROVE  IsItem(ZynqPairs[i][2])
    <3>1. ZynqPairs[i] = FileChannel(Channels[i])
      BY ChannelCount DEF ZynqPairs, M
    <3>2. QED
      BY <3>1, NewItems DEF FileChannel
  <2>3. QED
    BY <2>1, <2>2, HoldsAll
<1>10. QED
  BY <1>7, <1>8, <1>9 DEF Holds

(* ... each under its name if there is no error, and else nothing. *)
LEMMA FindChannel ==
  ASSUME NEW object, Holds(object, ZynqPairs, M), NEW c \in C
  PROVE  Value(GetObjectItem(object, c), Missing) = IF err[c] = "none" THEN value[c] ELSE Missing
<1>1. PICK k \in 1..M : Channels[k] = c
  BY ChannelCount DEF C, M
<1>2. ASSUME NEW i \in 1..M
      PROVE  /\ err[Channels[i]] = "none" =>
                  ZynqPairs[i][1] = Channels[i] /\ ZynqPairs[i][2] = CreateNumber(value[Channels[i]])
             /\ err[Channels[i]] # "none" => ZynqPairs[i][1] = BaseName[Channels[i]]
  <2>1. ZynqPairs[i] = FileChannel(Channels[i])
    BY ChannelCount DEF ZynqPairs, M
  <2>2. QED
    BY <2>1 DEF FileChannel
<1>3. ASSUME NEW i \in 1..M, SameName(ZynqPairs[i][1], c)
      PROVE  i = k /\ err[c] = "none"
  <2>1. Channels[i] \in C
    BY ChannelCount DEF M
  <2>2. ~ SameName(BaseName[Channels[i]], c)
    BY <2>1, MonitoringAssumption DEF SameName
  <2>3. ZynqPairs[i][1] = Channels[i] /\ err[Channels[i]] = "none"
    BY <1>2, <1>3, <2>2
  <2>4. Channels[i] = c
    BY <1>3, <2>1, <2>3, MonitoringAssumption
  <2>5. i = k
    BY <1>1, <2>4, ChannelCount, ZynqAssumption DEF M
  <2>6. QED
    BY <2>3, <2>4, <2>5
<1>4. PICK x : x = GetObjectItem(object, c)
  OBVIOUS
<1>5. CASE err[c] = "none"
  <2>1. ZynqPairs[k][1] = c /\ ZynqPairs[k][2] = CreateNumber(value[c])
    BY <1>1, <1>2, <1>5
  <2>2. SameName(ZynqPairs[k][1], c)
    BY <2>1 DEF SameName
  <2>3. IsItem(x) /\ x.value = ZynqPairs[k][2].value
    BY <1>3, <1>4, <2>2, TheItem
  <2>4. QED
    BY <1>4, <1>5, <2>1, <2>3, ItemIsThere, NewItems DEF Value
<1>6. CASE err[c] # "none"
  <2>1. x = Null
    BY <1>3, <1>4, <1>6, NoLookup
  <2>2. QED
    BY <1>4, <1>6, <2>1 DEF Value
<1>7. QED
  BY <1>5, <1>6

(* The document has the group "sensor" behind what is known of the board. *)
LEMMA FindGroup ==
  ASSUME NEW top, top = SensorFormat(SysinfoFormat(CreateObject)), NEW x, x = GetObjectItem(top, "sensor")
  PROVE  /\ IsItem(x)
         /\ x.child = IpmcSensorBlockFormat(ZynqOnBoardFormat(AddItems(CreateObject, BusPairs))).child
<1>1. PICK sensor : sensor = IpmcSensorBlockFormat(ZynqOnBoardFormat(AddItems(CreateObject, BusPairs)))
  OBVIOUS
<1>2. IsItem(sensor)
  BY <1>1, SensorObject DEF Holds
<1>3. PICK data : data = SysinfoData
  OBVIOUS
<1>4. PICK ureg, versions : /\ IsItem(ureg) /\ IsItem(versions)
                            /\ data = <<<<"hwid", CreateNumber("hwid")>>, <<"fdna", CreateString("fdna")>>, <<"ureg", ureg>>,
                                        <<"versions", versions>>, <<"type", CreateString("type")>>, <<"title", CreateString("title")>>>>
  BY <1>3, NewArray, MadeObject DEF SysinfoData
<1>5. PICK a, b, c, d, e, f :
        /\ a = <<"hwid", CreateNumber("hwid")>> /\ b = <<"fdna", CreateString("fdna")>> /\ c = <<"ureg", ureg>>
        /\ d = <<"versions", versions>> /\ e = <<"type", CreateString("type")>> /\ f = <<"title", CreateString("title")>>
  OBVIOUS
<1>6. data = <<a, b, c, d, e, f>>
  BY <1>4, <1>5
<1>7. HasLength(data, 6) /\ data[1] = a /\ data[2] = b /\ data[3] = c /\ data[4] = d /\ data[5] = e /\ data[6] = f
  BY <1>6, TupleOfSix
<1>8. /\ a[1] = "hwid" /\ b[1] = "fdna" /\ c[1] = "ureg" /\ d[1] = "versions" /\ e[1] = "type" /\ f[1] = "title"
      /\ a[2] = CreateNumber("hwid") /\ b[2] = CreateString("fdna") /\ c[2] = ureg
      /\ d[2] = versions /\ e[2] = CreateString("type") /\ f[2] = CreateString("title")
  BY <1>5
<1>9. ASSUME NEW i \in 1..6
      PROVE  IsItem(data[i][2]) /\ data[i][1] \in Fixed \ {"sensor"}
  <2>1. i \in {1, 2, 3, 4, 5, 6}
    OBVIOUS
  <2>2. \A y \in {a, b, c, d, e, f} : IsItem(y[2])
    BY <1>4, <1>8, NewItems
  <2>3. \A y \in {a, b, c, d, e, f} : y[1] \in Fixed \ {"sensor"}
    BY <1>8 DEF Fixed
  <2>4. QED
    BY <1>7, <2>1, <2>2, <2>3
<1>10. PICK parent, pair, all : /\ parent = SysinfoFormat(CreateObject)
                                /\ pair = <<"sensor", sensor>> /\ all = data \o <<pair>>
  OBVIOUS
<1>11. Holds(parent, data, 6)
  BY <1>3, <1>7, <1>9, <1>10, HoldsAll DEF SysinfoFormat
<1>12. top = AddItemToObject(parent, "sensor", sensor)
  BY <1>1, <1>10 DEF SensorFormat, BusPairs
<1>13. Holds(top, all, 6 + 1)
  BY <1>2, <1>10, <1>11, <1>12, HoldsOne
<1>14. Joins(all, data, 6, <<pair>>, 1)
  <2>1. HasLength(<<pair>>, 1)
    BY TupleOfOne
  <2>2. QED
    BY <1>7, <1>10, <2>1, ConcatFacts, Zenon
<1>15. 6 + 1 = 7 /\ 7 \in 1..7
  OBVIOUS
<1>16. all[7] = pair /\ \A i \in 1..6 : all[i] = data[i]
  <2>1. <<pair>>[1] = pair
    OBVIOUS
  <2>2. QED
    BY <1>14, <1>15, <2>1 DEF Joins
<1>17. all[7][1] = "sensor" /\ all[7][2] = sensor
  <2>1. pair = <<"sensor", sensor>>
    BY <1>10
  <2>2. pair[1] = "sensor" /\ pair[2] = sensor
    BY <2>1
  <2>3. QED
    BY <1>16, <2>2
<1>18. ASSUME NEW i \in 1..7, SameName(all[i][1], "sensor")
       PROVE  i = 7
  <2>1. "sensor" \in Fixed
    BY DEF Fixed
  <2>2. i \in 1..6 => all[i][1] \in Fixed \ {"sensor"}
    BY <1>9, <1>16
  <2>3. i \in 1..6 => ~ SameName(all[i][1], "sensor")
    BY <2>1, <2>2, OwnNames
  <2>4. QED
    BY <1>18, <2>3
<1>19. SameName(all[7][1], "sensor")
  BY <1>17 DEF SameName
<1>20. Holds(top, all, 7)
  BY <1>13, <1>15
<1>21. IsItem(x) /\ x.child = all[7][2].child
  BY <1>15, <1>18, <1>19, <1>20, TheItem
<1>22. QED
  BY <1>1, <1>17, <1>21

-----------------------------------------------------------------------------
(* What the extract functions find in a document: the records it was made of. *)
Group(doc) == GetObjectItem(doc, "sensor")
Entry(doc, s) == GetObjectItem(Group(doc), KeyOf[s])
Channel(doc, c) == GetObjectItem(GetObjectItem(Group(doc), "zynqps"), c)

ShowsLtc(doc) ==
  \A s \in Ltc, place \in 2..3 : Value(GetArrayItem(Entry(doc, s), place), Garbage) = record[s].low

ShowsFirefly(doc) ==
  \A s \in Firefly :
    /\ Value(GetObjectItem(Entry(doc, s), "present"), Missing) = record[s].present
    /\ ~ record[s].present => Value(GetObjectItem(Entry(doc, s), "status"), Missing) = Missing
    /\ record[s].present =>
         /\ Value(GetObjectItem(Entry(doc, s), "status"), Missing) = record[s].low
         /\ Value(GetArrayItem(GetObjectItem(Entry(doc, s), "rxpower"), 0), Garbage) = record[s].low
         /\ \A item \in {"id", "fwversion"} : Value(GetObjectItem(Entry(doc, s), item), Garbage) = record[s].low
         /\ \A item \in {"model", "serial"} : Value(GetObjectItem(Entry(doc, s), item), Garbage) = record[s].high

ShowsZynq(doc) ==
  \A c \in C : Value(Channel(doc, c), Missing) = IF err[c] = "none" THEN value[c] ELSE Missing

Shows(doc) == ShowsLtc(doc) /\ ShowsFirefly(doc) /\ ShowsZynq(doc)

LEMMA FindEntry ==
  ASSUME NEW top, top = SensorFormat(SysinfoFormat(CreateObject)), NEW s \in S, NEW x, x = Entry(top, s)
  PROVE  IsItem(x) /\ x.child = BusItem(s)[2].child
<1>1. PICK sensor : sensor = IpmcSensorBlockFormat(ZynqOnBoardFormat(AddItems(CreateObject, BusPairs)))
  OBVIOUS
<1>2. IsItem(Group(top)) /\ Group(top).child = sensor.child
  BY <1>1, FindGroup DEF Group
<1>3. IsItem(sensor)
  BY <1>1, SensorObject DEF Holds
<1>4. GetObjectItem(Group(top), KeyOf[s]) = GetObjectItem(sensor, KeyOf[s])
  BY <1>2, <1>3, SameChildren
<1>5. QED
  BY <1>1, <1>4, FindSensor DEF Entry

LEMMA LtcShows ==
  ASSUME NEW top, top = SensorFormat(SysinfoFormat(CreateObject))
  PROVE  ShowsLtc(top)
<1> SUFFICES ASSUME NEW s \in Ltc, NEW place \in 2..3
             PROVE  Value(GetArrayItem(Entry(top, s), place), Garbage) = record[s].low
  BY DEF ShowsLtc
<1>1. s \in S
  BY KindOf
<1>2. PICK pair, x : pair = BusItem(s) /\ x = Entry(top, s)
  OBVIOUS
<1>3. IsItem(x) /\ x.child = pair[2].child
  BY <1>1, <1>2, FindEntry
<1>4. /\ HasLength(pair[2].child, 5)
      /\ \A i \in {3, 4} : IsItem(pair[2].child[i]) /\ pair[2].child[i].value = record[s].low
  BY <1>2, LtcEntry
<1>5. GetArrayItem(x, place) = x.child[place + 1]
  <2>1. HasLength(x.child, 5) /\ place \in Nat /\ place < 5
    BY <1>3, <1>4
  <2>2. QED
    BY <1>3, <2>1, Element
<1>6. place + 1 \in {3, 4}
  OBVIOUS
<1>7. PICK y : y = GetArrayItem(x, place)
  OBVIOUS
<1>8. IsItem(y) /\ y.value = record[s].low
  BY <1>3, <1>4, <1>5, <1>6, <1>7
<1>9. QED
  BY <1>2, <1>7, <1>8, ItemIsThere DEF Value

LEMMA ZynqShows ==
  ASSUME NEW top, top = SensorFormat(SysinfoFormat(CreateObject))
  PROVE  ShowsZynq(top)
<1>1. PICK sensor : sensor = IpmcSensorBlockFormat(ZynqOnBoardFormat(AddItems(CreateObject, BusPairs)))
  OBVIOUS
<1>2. IsItem(Group(top)) /\ Group(top).child = sensor.child
  BY <1>1, FindGroup DEF Group
<1>3. IsItem(sensor)
  BY <1>1, SensorObject DEF Holds
<1>4. GetObjectItem(Group(top), "zynqps") = GetObjectItem(sensor, "zynqps")
  BY <1>2, <1>3, SameChildren
<1>5. Holds(GetObjectItem(Group(top), "zynqps"), ZynqPairs, M)
  BY <1>1, <1>4, FindZynq
<1>6. QED
  BY <1>5, FindChannel DEF ShowsZynq, Channel

LEMMA FireflyShows ==
  ASSUME NEW top, top = SensorFormat(SysinfoFormat(CreateObject))
  PROVE  ShowsFirefly(top)
<1> SUFFICES ASSUME NEW s \in Firefly, NEW x, x = Entry(top, s)
             PROVE
    /\ Value(GetObjectItem(x, "present"), Missing) = record[s].present
    /\ ~ record[s].present => Value(GetObjectItem(x, "status"), Missing) = Missing
    /\ record[s].present =>
         /\ Value(GetObjectItem(x, "status"), Missing) = record[s].low
         /\ Value(GetArrayItem(GetObjectItem(x, "rxpower"), 0), Garbage) = record[s].low
         /\ \A item \in {"id", "fwversion"} : Value(GetObjectItem(x, item), Garbage) = record[s].low
         /\ \A item \in {"model", "serial"} : Value(GetObjectItem(x, item), Garbage) = record[s].high
  BY DEF ShowsFirefly
<1>1. s \in S
  BY KindOf
<1>2. PICK pair : pair = BusItem(s)
  OBVIOUS
<1>3. IsItem(x) /\ x.child = pair[2].child
  BY <1>1, <1>2, FindEntry
<1>4. CASE ~ record[s].present
  <2>1. Holds(x, FireflyPairs(s), 2)
    BY <1>2, <1>3, <1>4, FireflyEntry DEF Holds
  <2>2. QED
    BY <1>4, <2>1, ItemOfAbsent
<1>5. CASE record[s].present
  <2>1. Holds(x, FireflyPairs(s), 8)
    BY <1>2, <1>3, <1>5, FireflyEntry DEF Holds
  <2>2. PICK pairs, six : pairs = FireflyPairs(s) /\ six = ModuleData(s)
    OBVIOUS
  <2>3. /\ \A i \in {1, 3, 6} : six[i][2].value = record[s].low
        /\ \A i \in {4, 5} : six[i][2].value = record[s].high
        /\ HasLength(six[2][2].child, 4) /\ IsItem(six[2][2].child[1]) /\ six[2][2].child[1].value = record[s].low
    BY <1>5, <2>2, SixPairs
  <2>4. /\ pairs[2][2].value = record[s].present
        /\ \A i \in 1..6 : pairs[2 + i][2] = six[i][2]
    <3>1. pairs[2][2].value = record[s].present
      BY <2>2, PairsOfModule, Zenon
    <3>2. \A i \in 1..6 : pairs[2 + i][2] = six[i][2]
      BY <1>5, <2>2, PairsOfModule
    <3>3. QED
      BY <3>1, <3>2, Zenon
  <2>5. /\ pairs[3][2] = six[1][2] /\ pairs[4][2] = six[2][2] /\ pairs[5][2] = six[3][2]
        /\ pairs[6][2] = six[4][2] /\ pairs[7][2] = six[5][2] /\ pairs[8][2] = six[6][2]
    BY <2>4
  <2>6. /\ pairs[3][2].value = record[s].low /\ pairs[5][2].value = record[s].low /\ pairs[8][2].value = record[s].low
        /\ pairs[6][2].value = record[s].high /\ pairs[7][2].value = record[s].high
        /\ pairs[4][2].child = six[2][2].child
    BY <2>3, <2>5
  <2>7. ASSUME NEW k \in 1..8, NEW without
        PROVE  Value(GetObjectItem(x, ModuleNames[k]), without) = pairs[k][2].value
    <3>1. PICK y : y = GetObjectItem(x, ModuleNames[k])
      OBVIOUS
    <3>2. IsItem(y) /\ y.value = pairs[k][2].value
      BY <1>5, <2>1, <2>2, <3>1, ItemOfPresent
    <3>3. QED
      BY <3>1, <3>2, ItemIsThere DEF Value
  <2>8. /\ ModuleNames[2] = "present" /\ ModuleNames[3] = "status" /\ ModuleNames[4] = "rxpower" /\ ModuleNames[5] = "id"
        /\ ModuleNames[6] = "model" /\ ModuleNames[7] = "serial" /\ ModuleNames[8] = "fwversion"
    BY DEF ModuleNames
  <2>9. \A k \in 2..8 : k \in 1..8
    OBVIOUS
  <2>10. Value(GetObjectItem(x, "present"), Missing) = record[s].present
    BY <2>4, <2>7, <2>8
  <2>11. Value(GetObjectItem(x, "status"), Missing) = record[s].low
    BY <2>6, <2>7, <2>8
  <2>12. \A item \in {"id", "fwversion"} : Value(GetObjectItem(x, item), Garbage) = record[s].low
    BY <2>6, <2>7, <2>8
  <2>13. \A item \in {"model", "serial"} : Value(GetObjectItem(x, item), Garbage) = record[s].high
    BY <2>6, <2>7, <2>8
  <2>14. Value(GetArrayItem(GetObjectItem(x, "rxpower"), 0), Garbage) = record[s].low
    <3>1. PICK y : y = GetObjectItem(x, "rxpower")
      OBVIOUS
    <3>2. 4 \in 1..8
      OBVIOUS
    <3>3. IsItem(y) /\ y.child = pairs[4][2].child
      BY <1>5, <2>1, <2>2, <2>8, <3>1, <3>2, ItemOfPresent
    <3>4. HasLength(y.child, 4) /\ IsItem(y.child[1]) /\ y.child[1].value = record[s].low
      BY <2>3, <2>6, <3>3
    <3>5. 0 \in Nat /\ 0 < 4 /\ 0 + 1 = 1
      OBVIOUS
    <3>6. GetArrayItem(y, 0) = y.child[1]
      BY <3>3, <3>4, <3>5, Element
    <3>7. QED
      BY <3>1, <3>4, <3>6, ItemIsThere DEF Value
  <2>15. QED
    BY <1>5, <2>10, <2>11, <2>12, <2>13, <2>14
<1>6. QED
  BY <1>4, <1>5

(* The document of a cycle shows all of its records. *)
LEMMA DocumentShows == Shows(SensorFormat(SysinfoFormat(CreateObject)))
BY LtcShows, FireflyShows, ZynqShows DEF Shows

-----------------------------------------------------------------------------
(* Sums, and the texts that are printed. *)
Adds(numbers, n, f) == f = [i \in 0..n |-> IF i = 0 THEN 0 ELSE f[i - 1] + numbers[i]]

LEMMA LeastOf ==
  ASSUME NEW X, X \subseteq Nat, X # {}
  PROVE  \E i \in X : \A j \in X : i <= j
<1>1. \E i \in X : \A j \in X : ~ (<<j, i>> \in OpToRel(<, Nat))
  BY NatLessThanWellFounded, WFMin
<1>2. PICK i \in X : \A j \in X : ~ (<<j, i>> \in OpToRel(<, Nat))
  BY <1>1
<1>3. ASSUME NEW j \in X
      PROVE  i <= j
  <2>1. i \in Nat /\ j \in Nat
    OBVIOUS
  <2>2. ~ (j < i)
    BY <1>2, <2>1 DEF OpToRel
  <2>3. QED
    BY <2>1, <2>2
<1>4. QED
  BY <1>3

LEMMA AddsExist ==
  ASSUME NEW numbers, NEW m \in Nat
  PROVE  \E f : Adds(numbers, m, f)
<1> DEFINE Bad == {n \in Nat : ~ \E f : Adds(numbers, n, f)}
<1>1. SUFFICES ASSUME Bad # {}
               PROVE  FALSE
  OBVIOUS
<1>2. PICK n \in Bad : \A k \in Bad : n <= k
  BY <1>1, LeastOf
<1>3. CASE n = 0
  <2>1. PICK f : f = [i \in 0..0 |-> 0]
    OBVIOUS
  <2>2. \A i \in 0..0 : i = 0
    OBVIOUS
  <2>3. f = [i \in 0..0 |-> IF i = 0 THEN 0 ELSE f[i - 1] + numbers[i]]
    BY <2>1, <2>2
  <2>4. QED
    BY <1>3, <2>3 DEF Adds
<1>4. CASE n # 0
  <2>1. n \in Nat /\ n - 1 \in Nat /\ n - 1 < n
    BY <1>4
  <2>2. PICK f : Adds(numbers, n - 1, f)
    BY <1>2, <2>1
  <2>3. PICK g : g = [i \in 0..n |-> IF i = n THEN f[n - 1] + numbers[n] ELSE f[i]]
    OBVIOUS
  <2>4. \A i \in 0..(n - 1) : g[i] = f[i]
    BY <2>1, <2>3
  <2>5. \A i \in 0..(n - 1) : f[i] = IF i = 0 THEN 0 ELSE f[i - 1] + numbers[i]
    BY <2>2 DEF Adds
  <2>6. \A i \in 0..n : g[i] = IF i = 0 THEN 0 ELSE g[i - 1] + numbers[i]
    <3>1. SUFFICES ASSUME NEW i \in 0..n
                   PROVE  g[i] = IF i = 0 THEN 0 ELSE g[i - 1] + numbers[i]
      OBVIOUS
    <3>2. CASE i = n
      <4>1. n \in 0..n /\ n - 1 \in 0..(n - 1)
        BY <2>1
      <4>2. g[n] = f[n - 1] + numbers[n] /\ g[n - 1] = f[n - 1]
        BY <2>3, <2>4, <4>1
      <4>3. QED
        BY <1>4, <3>2, <4>2
    <3>3. CASE i # n
      <4>1. i \in 0..(n - 1) /\ (i # 0 => i - 1 \in 0..(n - 1))
        BY <2>1, <3>3
      <4>2. QED
        BY <2>4, <2>5, <4>1
    <3>4. QED
      BY <3>2, <3>3
  <2>7. g = [i \in 0..n |-> IF i = 0 THEN 0 ELSE g[i - 1] + numbers[i]]
    BY <2>3, <2>6
  <2>8. QED
    BY <2>7 DEF Adds
<1>5. QED
  BY <1>3, <1>4

LEMMA SumIs ==
  ASSUME NEW numbers, NEW n, HasLength(numbers, n)
  PROVE  \E f : Sum(numbers) = f[n] /\ f[0] = 0 /\ \A i \in 1..n : f[i] = f[i - 1] + numbers[i]
<1>1. n \in Nat /\ Len(numbers) = n
  BY LengthFacts
<1>2. PICK f : f = CHOOSE g : g = [i \in 0..n |-> IF i = 0 THEN 0 ELSE g[i - 1] + numbers[i]]
  OBVIOUS
<1>3. \E g : g = [i \in 0..n |-> IF i = 0 THEN 0 ELSE g[i - 1] + numbers[i]]
  <2>1. \E g : Adds(numbers, n, g)
    BY <1>1, AddsExist
  <2>2. QED
    BY <2>1 DEF Adds
<1>4. f = [i \in 0..n |-> IF i = 0 THEN 0 ELSE f[i - 1] + numbers[i]]
  BY <1>2, <1>3
<1>5. Sum(numbers) = f[n]
  BY <1>1, <1>2 DEF Sum
<1>6. 0 \in 0..n /\ \A i \in 1..n : i \in 0..n /\ i # 0
  BY <1>1
<1>7. f[0] = 0 /\ \A i \in 1..n : f[i] = f[i - 1] + numbers[i]
  BY <1>4, <1>6
<1>8. QED
  BY <1>5, <1>7

LEMMA OneTimesMore ==
  ASSUME NEW n \in Nat, NEW e \in Nat, n > 0
  PROVE  n * e = (n - 1) * e + e /\ n * e \in Nat
OBVIOUS

(* The same numbers, each of them larger by extra. *)
LEMMA SumOfMore ==
  ASSUME NEW a, NEW b, NEW n, HasLength(a, n), HasLength(b, n), NEW extra \in Nat,
         \A i \in 1..n : a[i] \in Nat /\ b[i] = a[i] + extra
  PROVE  Sum(a) \in Nat /\ Sum(b) = Sum(a) + n * extra
<1>1. n \in Nat
  BY DEF HasLength
<1>2. PICK f : Sum(a) = f[n] /\ f[0] = 0 /\ \A i \in 1..n : f[i] = f[i - 1] + a[i]
  BY SumIs
<1>3. PICK g : Sum(b) = g[n] /\ g[0] = 0 /\ \A i \in 1..n : g[i] = g[i - 1] + b[i]
  BY SumIs
<1> DEFINE Fine(i) == f[i] \in Nat /\ g[i] = f[i] + i * extra
           Bad == {i \in 0..n : ~ Fine(i)}
<1>4. Bad = {}
  <2>1. SUFFICES ASSUME Bad # {}
                 PROVE  FALSE
    OBVIOUS
  <2>2. Bad \subseteq Nat /\ \A i \in 0..n : i \notin Bad => Fine(i)
    BY <1>1
  <2>3. PICK i \in Bad : \A j \in Bad : i <= j
    BY <2>1, <2>2, LeastOf
  <2>4. i \in 0..n /\ ~ Fine(i)
    OBVIOUS
  <2>5. Fine(0)
    <3>1. 0 * extra = 0
      OBVIOUS
    <3>2. QED
      BY <1>2, <1>3, <3>1
  <2>6. i \in 1..n /\ i \in Nat /\ i > 0 /\ i - 1 \in 0..n /\ i - 1 < i
    BY <1>1, <2>4, <2>5
  <2>7. i - 1 \notin Bad
    BY <2>2, <2>3, <2>6
  <2> HIDE DEF Bad
  <2>8. f[i - 1] \in Nat /\ g[i - 1] = f[i - 1] + (i - 1) * extra
    BY <2>2, <2>6, <2>7
  <2>9. PICK k, j : k = i * extra /\ j = (i - 1) * extra
    OBVIOUS
  <2>10. k = j + extra /\ j \in Nat
    <3>1. i - 1 \in Nat
      BY <2>6
    <3>2. (i - 1) * extra \in Nat
      BY <3>1
    <3>3. QED
      BY <2>6, <2>9, <3>2, OneTimesMore
  <2>11. f[i] = f[i - 1] + a[i] /\ g[i] = g[i - 1] + (a[i] + extra) /\ a[i] \in Nat
    BY <1>2, <1>3, <2>6
  <2>12. f[i] \in Nat /\ g[i] = f[i] + k
    BY <2>8, <2>9, <2>10, <2>11
  <2>13. QED
    BY <2>4, <2>9, <2>12
<1>5. n \in 0..n
  BY <1>1
<1>6. Fine(n)
  BY <1>4, <1>5
<1>7. QED
  BY <1>2, <1>3, <1>6

(* A text of a known length that has room for its end. *)
IsGood(text) == text.length \in Nat /\ text.fits
AreGood(texts, n) == HasLength(texts, n) /\ \A i \in 1..n : IsGood(texts[i])

LEMMA GoodText ==
  ASSUME NEW length \in Nat, NEW allocated \in Nat, length + 1 <= allocated, NEW within, NEW n, AreGood(within, n),
         NEW text, text = Text(length, allocated, within)
  PROVE  IsGood(text)
<1>1. DOMAIN within = 1..n
  BY LengthFacts DEF AreGood
<1>2. \A i \in DOMAIN within : within[i].fits
  BY <1>1 DEF AreGood, IsGood
<1>3. text.length = length /\ text.fits = (length + 1 <= allocated /\ \A i \in DOMAIN within : within[i].fits)
  BY DEF Text
<1>4. QED
  BY <1>2, <1>3 DEF IsGood

LEMMA NothingWithin == AreGood(<<>>, 0)
BY TupleOfEmpty DEF AreGood

LEMMA Totals ==
  ASSUME NEW texts, NEW n, AreGood(texts, n), NEW extra \in Nat
  PROVE  Total(texts, 0) \in Nat /\ Total(texts, extra) = Total(texts, 0) + n * extra
<1>1. n \in Nat /\ DOMAIN texts = 1..n /\ \A i \in 1..n : texts[i].length \in Nat
  BY LengthFacts DEF AreGood, IsGood
<1>2. PICK a, b : a = [i \in 1..n |-> texts[i].length + 0] /\ b = [i \in 1..n |-> texts[i].length + extra]
  OBVIOUS
<1>3. HasLength(a, n) /\ HasLength(b, n)
  BY <1>1, <1>2 DEF HasLength
<1>4. \A i \in 1..n : a[i] \in Nat /\ b[i] = a[i] + extra
  BY <1>1, <1>2
<1>5. Total(texts, 0) = Sum(a) /\ Total(texts, extra) = Sum(b)
  BY <1>1, <1>2 DEF Total
<1>6. QED
  BY <1>3, <1>4, <1>5, SumOfMore

(* Every branch of print_number() has room for the longest of its texts. *)
LEMMA NumberIsGood ==
  ASSUME NEW class \in NumberClasses
  PROVE  IsGood(PrintNumber(class))
<1>1. PICK allocated : allocated = CASE class = "zero" -> 2 [] class = "int" -> 21 [] OTHER -> 64
  OBVIOUS
<1>2. class \in {"zero", "int", "nan", "whole", "exponent", "decimal"}
  BY DEF NumberClasses, Longest
<1>3. Longest[class] \in Nat /\ allocated \in Nat /\ Longest[class] + 1 <= allocated
  BY <1>1, <1>2 DEF Longest
<1>4. PrintNumber(class) = Text(Longest[class], allocated, <<>>)
  BY <1>1 DEF PrintNumber
<1>5. QED
  BY <1>3, <1>4, GoodText, NothingWithin

IsChars(chars) == \E n : HasLength(chars, n) /\ \A i \in 1..n : chars[i] \in CharClasses

(* What is counted for a string is what is written of it. *)
LEMMA StringIsGood ==
  ASSUME NEW chars, IsChars(chars)
  PROVE  IsGood(PrintString(chars))
<1>1. PICK n : HasLength(chars, n) /\ \A i \in 1..n : chars[i] \in CharClasses
  BY DEF IsChars
<1>2. n \in Nat /\ DOMAIN chars = 1..n /\ Len(chars) = n
  BY <1>1, LengthFacts
<1> DEFINE Extra(c) == CASE c = "short" -> 1 [] c = "control" -> 5 [] OTHER -> 0
<1>3. PICK counted : counted = [i \in DOMAIN chars |-> 1 + Extra(chars[i])]
  OBVIOUS
<1>4. PICK written : written = [i \in DOMAIN chars |-> Escaped[chars[i]]]
  OBVIOUS
<1>5. ASSUME NEW i \in 1..n
      PROVE  counted[i] = written[i] /\ written[i] \in Nat
  <2>1. PICK c : c = chars[i] /\ c \in {"plain", "short", "control"}
    BY <1>1 DEF CharClasses, Escaped
  <2>2. 1 + Extra(c) = Escaped[c] /\ Escaped[c] \in Nat
    BY <2>1 DEF Escaped
  <2>3. counted[i] = 1 + Extra(c) /\ written[i] = Escaped[c]
    BY <1>2, <1>3, <1>4, <2>1
  <2>4. QED
    BY <2>2, <2>3
<1>6. HasLength(counted, n) /\ HasLength(written, n)
  BY <1>2, <1>3, <1>4 DEF HasLength
<1>7. \A i \in 1..n : counted[i] \in Nat /\ written[i] = counted[i] + 0
  BY <1>5
<1>8. Sum(counted) \in Nat /\ Sum(written) = Sum(counted) + n * 0
  BY <1>6, <1>7, SumOfMore
<1>9. Sum(written) = Sum(counted)
  BY <1>2, <1>8
<1>10. CASE \E i \in DOMAIN chars : chars[i] # "plain"
  <2>1. PrintString(chars) = Text(Sum(written) + 2, Sum(counted) + 3, <<>>)
    BY <1>3, <1>4, <1>10 DEF PrintString
  <2>2. QED
    BY <1>8, <1>9, <2>1, GoodText, NothingWithin
<1>11. CASE ~ \E i \in DOMAIN chars : chars[i] # "plain"
  <2>1. PrintString(chars) = Text(Len(chars) + 2, Len(chars) + 3, <<>>)
    BY <1>11 DEF PrintString
  <2>2. QED
    BY <1>2, <2>1, GoodText, NothingWithin
<1>12. QED
  BY <1>10, <1>11

LEMMA EmptyOrNot ==
  ASSUME NEW texts, NEW n, HasLength(texts, n)
  PROVE  /\ n \in Nat /\ Len(texts) = n /\ DOMAIN texts = 1..n
         /\ (texts = <<>> <=> n = 0)
<1>1. n \in Nat /\ Len(texts) = n /\ DOMAIN texts = 1..n
  BY LengthFacts
<1>2. n = 0 => texts = <<>>
  BY DEF HasLength
<1>3. texts = <<>> => n = 0
  BY <1>1
<1>4. QED
  BY <1>1, <1>2, <1>3

(* Two characters between two entries, of the three that were counted. *)
LEMMA ArrayIsGood ==
  ASSUME NEW entries, NEW n, AreGood(entries, n)
  PROVE  IsGood(PrintArray(entries))
<1>1. n \in Nat /\ Len(entries) = n /\ (entries = <<>> <=> n = 0)
  BY EmptyOrNot DEF AreGood
<1>2. CASE n = 0
  <2>1. PrintArray(entries) = Text(2, 3, <<>>)
    BY <1>1, <1>2 DEF PrintArray
  <2>2. QED
    BY <2>1, GoodText, NothingWithin
<1>3. CASE n # 0
  <2>1. PICK a, b : a = Total(entries, 0) /\ b = Total(entries, 3)
    OBVIOUS
  <2>2. a \in Nat /\ b = a + n * 3
    BY <2>1, Totals
  <2>3. PrintArray(entries) = Text(1 + a + 2 * (n - 1) + 1, 5 + b, entries)
    BY <1>1, <1>3, <2>1 DEF PrintArray
  <2>4. 1 + a + 2 * (n - 1) + 1 \in Nat /\ 5 + b \in Nat /\ (1 + a + 2 * (n - 1) + 1) + 1 <= 5 + b
    BY <1>1, <1>3, <2>2
  <2>5. QED
    BY <2>3, <2>4, GoodText
<1>4. QED
  BY <1>2, <1>3

(* A line has depth + 1 tabs in front of its name, and four characters more. *)
LEMMA ObjectIsGood ==
  ASSUME NEW names, NEW entries, NEW n, AreGood(names, n), AreGood(entries, n), NEW depth \in Nat
  PROVE  IsGood(PrintObject(names, entries, depth))
<1>1. n \in Nat /\ Len(entries) = n /\ (entries = <<>> <=> n = 0)
  BY EmptyOrNot DEF AreGood
<1>2. CASE n = 0
  <2>1. PrintObject(names, entries, depth) = Text(depth + 3, depth + 4, <<>>)
    BY <1>1, <1>2 DEF PrintObject
  <2>2. QED
    BY <2>1, GoodText, NothingWithin
<1>3. CASE n # 0
  <2>1. PICK a, b, c : a = Total(entries, 0) /\ b = Total(entries, depth + 5) /\ c = Total(names, 0)
    OBVIOUS
  <2>2. a \in Nat /\ c \in Nat /\ b = a + n * (depth + 5)
    BY <2>1, Totals
  <2>3. PICK k : k = n * (depth + 5)
    OBVIOUS
  <2>4. k \in Nat /\ k >= 5
    <3>1. depth + 5 \in Nat
      OBVIOUS
    <3>2. n * (depth + 5) = (n - 1) * (depth + 5) + (depth + 5) /\ n * (depth + 5) \in Nat
      BY <1>1, <1>3, <3>1, OneTimesMore
    <3>3. (n - 1) * (depth + 5) \in Nat
      <4>1. n - 1 \in Nat
        BY <1>1, <1>3
      <4>2. QED
        BY <3>1, <4>1
    <3>4. PICK j : j = (n - 1) * (depth + 5)
      OBVIOUS
    <3>5. QED
      BY <2>3, <3>2, <3>3, <3>4
  <2>5. PICK within : within = names \o entries
    OBVIOUS
  <2>6. AreGood(within, n + n)
    <3>1. HasLength(names, n) /\ HasLength(entries, n) /\ \A i \in 1..n : IsGood(names[i]) /\ IsGood(entries[i])
      BY DEF AreGood
    <3>2. Joins(within, names, n, entries, n)
      BY <2>5, <3>1, ConcatFacts, Zenon
    <3>3. ASSUME NEW i \in 1..(n + n)
          PROVE  IsGood(within[i])
      <4>1. CASE i \in 1..n
        BY <3>1, <3>2, <4>1 DEF Joins
      <4>2. CASE i \notin 1..n
        <5>1. PICK j \in 1..n : i = n + j
          BY <1>1, <4>2
        <5>2. within[n + j] = entries[j]
          BY <3>2 DEF Joins
        <5>3. QED
          BY <3>1, <5>1, <5>2
      <4>3. QED
        BY <4>1, <4>2
    <3>4. QED
      BY <3>2, <3>3 DEF AreGood, Joins
  <2>7. PrintObject(names, entries, depth) = Text(2 + c + a + k - 1 + depth + 1, 7 + depth + 1 + c + b, within)
    BY <1>1, <1>3, <2>1, <2>3, <2>5 DEF PrintObject
  <2>8. PICK length, allocated : length = 2 + c + a + k - 1 + depth + 1 /\ allocated = 7 + depth + 1 + c + b
    OBVIOUS
  <2>9. length \in Nat /\ allocated \in Nat /\ length + 1 <= allocated
    BY <2>2, <2>3, <2>4, <2>8
  <2>10. QED
    BY <2>6, <2>7, <2>8, <2>9, GoodText
<1>4. QED
  BY <1>2, <1>3

-----------------------------------------------------------------------------
(* Items by what is below them, and what is printed of them.  A leaf has nothing
   below it; the entry of a module is deep, "sensor" deeper. *)
ItemTypes == {"Number", "String", "Array", "Object"}

Over(x, Q) ==
  /\ IsItem(x) /\ x.type \in ItemTypes
  /\ \E n : HasLength(x.child, n) /\ \A i \in 1..n : x.child[i] \in Q

Leaf(x) == Over(x, {})
Flat(x) == \E Q : Over(x, Q) /\ \A y \in Q : Leaf(y)
Deep(x) == \E Q : Over(x, Q) /\ \A y \in Q : Flat(y)
Deeper(x) == \E Q : Over(x, Q) /\ \A y \in Q : Deep(y)
Whole(x) == \E Q : Over(x, Q) /\ \A y \in Q : Deeper(y)

IsLook(look) == look.number \in NumberClasses /\ IsChars(look.name) /\ IsChars(look.text)

LEMMA ItemIsGood ==
  ASSUME NEW item, item.type \in ItemTypes, NEW entries, NEW n, AreGood(entries, n), NEW depth \in Nat,
         NEW look, IsLook(look)
  PROVE  IsGood(PrintItem(item, entries, depth, look))
<1>1. CASE item.type = "Number"
  BY <1>1, NumberIsGood DEF PrintItem, IsLook
<1>2. CASE item.type = "String"
  BY <1>2, StringIsGood DEF PrintItem, IsLook
<1>3. CASE item.type = "Array"
  BY <1>3, ArrayIsGood DEF PrintItem
<1>4. CASE item.type = "Object"
  <2>1. PICK names : names = [i \in DOMAIN entries |-> PrintString(look.name)]
    OBVIOUS
  <2>2. n \in Nat /\ DOMAIN entries = 1..n
    BY LengthFacts DEF AreGood
  <2>3. AreGood(names, n)
    BY <2>1, <2>2, StringIsGood DEF AreGood, HasLength, IsLook
  <2>4. PrintItem(item, entries, depth, look) = PrintObject(names, entries, depth)
    BY <1>4, <2>1 DEF PrintItem
  <2>5. QED
    BY <2>3, <2>4, ObjectIsGood
<1>5. QED
  BY <1>1, <1>2, <1>3, <1>4 DEF ItemTypes

(* An item is printed well if all that is below it is. *)
LEMMA EntriesAreGood ==
  ASSUME NEW item, NEW Q, Over(item, Q), NEW entries, entries = [i \in DOMAIN item.child |-> entries[i]],
         \A i \in DOMAIN item.child : item.child[i] \in Q => IsGood(entries[i])
  PROVE  item.type \in ItemTypes /\ \E n : AreGood(entries, n)
<1>1. PICK n : HasLength(item.child, n) /\ \A i \in 1..n : item.child[i] \in Q
  BY DEF Over
<1>2. n \in Nat /\ DOMAIN item.child = 1..n
  BY <1>1, LengthFacts
<1>3. HasLength(entries, n) /\ \A i \in 1..n : IsGood(entries[i])
  BY <1>1, <1>2 DEF HasLength
<1>4. QED
  BY <1>3 DEF AreGood, Over

LEMMA LeafIsGood ==
  ASSUME NEW item, Leaf(item), NEW look, IsLook(look)
  PROVE  IsGood(PrintLeaf(item, look))
BY ItemIsGood, NothingWithin DEF PrintLeaf, Leaf, Over

LEMMA EntryIsGood ==
  ASSUME NEW item, Flat(item), NEW look, IsLook(look)
  PROVE  IsGood(PrintEntry(item, look))
<1>1. PICK Q : Over(item, Q) /\ \A y \in Q : Leaf(y)
  BY DEF Flat
<1>2. PICK entries : entries = [i \in DOMAIN item.child |-> PrintLeaf(item.child[i], look)]
  OBVIOUS
<1>3. \A i \in DOMAIN item.child : item.child[i] \in Q => IsGood(entries[i])
  BY <1>1, <1>2, LeafIsGood
<1>4. item.type \in ItemTypes /\ \E n : AreGood(entries, n)
  BY <1>1, <1>2, <1>3, EntriesAreGood
<1>5. QED
  BY <1>2, <1>4, ItemIsGood DEF PrintEntry

LEMMA ModuleIsGood ==
  ASSUME NEW item, Deep(item), NEW look, IsLook(look)
  PROVE  IsGood(PrintSensor(item, look))
<1>1. PICK Q : Over(item, Q) /\ \A y \in Q : Flat(y)
  BY DEF Deep
<1>2. PICK entries : entries = [i \in DOMAIN item.child |-> PrintEntry(item.child[i], look)]
  OBVIOUS
<1>3. \A i \in DOMAIN item.child : item.child[i] \in Q => IsGood(entries[i])
  BY <1>1, <1>2, EntryIsGood
<1>4. item.type \in ItemTypes /\ \E n : AreGood(entries, n)
  BY <1>1, <1>2, <1>3, EntriesAreGood
<1>5. QED
  BY <1>2, <1>4, ItemIsGood DEF PrintSensor

LEMMA GroupIsGood ==
  ASSUME NEW item, Deeper(item), NEW look, IsLook(look)
  PROVE  IsGood(PrintGroup(item, look))
<1>1. PICK Q : Over(item, Q) /\ \A y \in Q : Deep(y)
  BY DEF Deeper
<1>2. PICK entries : entries = [i \in DOMAIN item.child |-> PrintSensor(item.child[i], look)]
  OBVIOUS
<1>3. \A i \in DOMAIN item.child : item.child[i] \in Q => IsGood(entries[i])
  BY <1>1, <1>2, ModuleIsGood
<1>4. item.type \in ItemTypes /\ \E n : AreGood(entries, n)
  BY <1>1, <1>2, <1>3, EntriesAreGood
<1>5. QED
  BY <1>2, <1>4, ItemIsGood DEF PrintGroup

LEMMA WholeIsGood ==
  ASSUME NEW item, Whole(item), NEW look, IsLook(look)
  PROVE  PrintDocument(item, look).fits
<1>1. PICK Q : Over(item, Q) /\ \A y \in Q : Deeper(y)
  BY DEF Whole
<1>2. PICK entries : entries = [i \in DOMAIN item.child |-> PrintGroup(item.child[i], look)]
  OBVIOUS
<1>3. \A i \in DOMAIN item.child : item.child[i] \in Q => IsGood(entries[i])
  BY <1>1, <1>2, GroupIsGood
<1>4. item.type \in ItemTypes /\ \E n : AreGood(entries, n)
  BY <1>1, <1>2, <1>3, EntriesAreGood
<1>5. QED
  BY <1>2, <1>4, ItemIsGood DEF PrintDocument, IsGood

(* The looks of which a document is printed. *)
LEMMA LooksAreLooks ==
  ASSUME NEW look \in Looks
  PROVE  IsLook(look)
<1>1. {"plain", "short", "control"} \subseteq CharClasses
  BY DEF CharClasses, Escaped
<1>2. IsChars(<<"plain", "plain">>) /\ IsChars(<<"short", "control">>)
  <2>1. PICK two : two = <<"plain", "plain">>
    OBVIOUS
  <2>2. HasLength(two, 2) /\ two[1] = "plain" /\ two[2] = "plain"
    BY <2>1, TupleOfTwo
  <2>3. PICK both : both = <<"short", "control">>
    OBVIOUS
  <2>4. HasLength(both, 2) /\ both[1] = "short" /\ both[2] = "control"
    BY <2>3, TupleOfTwo
  <2>5. 1..2 = {1, 2}
    OBVIOUS
  <2>6. IsChars(two) /\ IsChars(both)
    BY <1>1, <2>2, <2>4, <2>5 DEF IsChars
  <2>7. QED
    BY <2>1, <2>3, <2>6
<1>3. IsChars(<<"plain">>)
  <2>1. PICK one : one = <<"plain">>
    OBVIOUS
  <2>2. HasLength(one, 1) /\ one[1] = "plain"
    BY <2>1, TupleOfOne
  <2>3. 1..1 = {1}
    OBVIOUS
  <2>4. IsChars(one)
    BY <1>1, <2>2, <2>3 DEF IsChars
  <2>5. QED
    BY <2>1, <2>4
<1>4. IsChars(<<>>)
  <2>1. 1..0 = {}
    OBVIOUS
  <2>2. QED
    BY <2>1, TupleOfEmpty DEF IsChars
<1>5. "int" \in NumberClasses
  BY DEF NumberClasses, Longest
<1>6. PICK number, text : look = Look(number, text) /\ number \in NumberClasses /\ IsChars(text)
  <2>1. CASE look \in {Look(number, <<>>) : number \in NumberClasses}
    BY <1>4, <2>1
  <2>2. CASE look \in {Look("int", text) : text \in Texts}
    BY <1>2, <1>3, <1>4, <1>5, <2>2 DEF Texts
  <2>3. QED
    BY <2>1, <2>2 DEF Looks
<1>7. look.number = number /\ look.name = <<"plain", "plain">> /\ look.text = text
  BY <1>6 DEF Look
<1>8. QED
  BY <1>2, <1>6, <1>7 DEF IsLook

-----------------------------------------------------------------------------
(* How items are put together. *)
LEMMA SameType ==
  ASSUME NEW x, IsItem(x), NEW child, NEW name
  PROVE  [x EXCEPT !.child = child].type = x.type /\ Named(name, x).type = x.type
<1>1. PICK t, s, v, c : x = [type |-> t, string |-> s, value |-> v, child |-> c]
  BY DEF IsItem
<1>2. QED
  BY <1>1 DEF Named

LEMMA NameKeeps ==
  ASSUME NEW x, NEW name
  PROVE  /\ \A Q : Over(x, Q) => Over(Named(name, x), Q)
         /\ Leaf(x) => Leaf(Named(name, x))
         /\ Flat(x) => Flat(Named(name, x))
         /\ Deep(x) => Deep(Named(name, x))
<1>1. ASSUME NEW Q, Over(x, Q)
      PROVE  Over(Named(name, x), Q)
  BY <1>1, WithName, SameType DEF Over
<1>2. QED
  BY <1>1 DEF Leaf, Flat, Deep

(* What has less below it is also what may have more. *)
LEMMA ShapesAreNested ==
  ASSUME NEW x
  PROVE  (Leaf(x) => Flat(x)) /\ (Flat(x) => Deep(x)) /\ (Deep(x) => Deeper(x))
<1>1. ASSUME NEW y, Leaf(y)
      PROVE  Flat(y)
  BY <1>1 DEF Leaf, Flat
<1>2. ASSUME NEW y, Flat(y)
      PROVE  Deep(y)
  BY <1>1, <1>2 DEF Flat, Deep
<1>3. ASSUME NEW y, Deep(y)
      PROVE  Deeper(y)
  BY <1>2, <1>3 DEF Deep, Deeper
<1>4. QED
  BY <1>1, <1>2, <1>3

LEMMA NewLeaf ==
  ASSUME NEW origin
  PROVE  Leaf(CreateNumber(origin)) /\ Leaf(CreateString(origin))
<1>1. CreateNumber(origin) = [type |-> "Number", string |-> NoName, value |-> origin, child |-> <<>>]
  BY DEF CreateNumber, New_Item
<1>2. CreateString(origin) = [type |-> "String", string |-> NoName, value |-> origin, child |-> <<>>]
  BY DEF CreateString, New_Item
<1>3. "Number" # "none" /\ "String" # "none" /\ "Number" \in ItemTypes /\ "String" \in ItemTypes
  BY DEF ItemTypes
<1>4. CreateNumber(origin).type = "Number" /\ CreateNumber(origin).child = <<>>
  BY <1>1
<1>5. CreateString(origin).type = "String" /\ CreateString(origin).child = <<>>
  BY <1>2
<1>6. HasLength(<<>>, 0) /\ \A i \in 1..0 : <<>>[i] \in {}
  BY TupleOfEmpty
<1>7. QED
  BY <1>3, <1>4, <1>5, <1>6, NewItems DEF Leaf, Over

LEMMA ObjectIsEmpty == Leaf(CreateObject)
<1>1. CreateObject.type = "Object" /\ "Object" \in ItemTypes
  BY DEF CreateObject, New_Item, ItemTypes
<1>2. HasLength(<<>>, 0) /\ \A i \in 1..0 : <<>>[i] \in {}
  BY TupleOfEmpty
<1>3. QED
  BY <1>1, <1>2, NewObject DEF Leaf, Over

LEMMA ArrayIsFlat ==
  ASSUME NEW items, NEW n, HasLength(items, n), \A i \in 1..n : Leaf(items[i])
  PROVE  Flat(ArrayOf(items))
<1>1. ArrayOf(items).type = "Array" /\ "Array" \in ItemTypes
  BY DEF ArrayOf, CreateArray, New_Item, ItemTypes
<1>2. PICK Q : Q = {items[i] : i \in 1..n}
  OBVIOUS
<1>3. Over(ArrayOf(items), Q)
  BY <1>1, <1>2, NewArray DEF Over
<1>4. QED
  BY <1>2, <1>3 DEF Flat

LEMMA OverMore ==
  ASSUME NEW x, NEW Q, Over(x, Q), NEW more, NEW n, HasLength(more, n), NEW P,
         \A i \in 1..n : Named(more[i][1], more[i][2]) \in P, NEW result, result = AddItems(x, more)
  PROVE  Over(result, Q \cup P)
<1>1. PICK m : HasLength(x.child, m) /\ \A i \in 1..m : x.child[i] \in Q
  BY DEF Over
<1>2. m \in Nat /\ n \in Nat /\ DOMAIN more = 1..n
  BY <1>1, LengthFacts
<1>3. PICK new : new = [i \in DOMAIN more |-> Named(more[i][1], more[i][2])]
  OBVIOUS
<1>4. PICK child : child = x.child \o new
  OBVIOUS
<1>5. HasLength(new, n) /\ \A i \in 1..n : new[i] \in P
  BY <1>2, <1>3 DEF HasLength
<1>6. Joins(child, x.child, m, new, n)
  BY <1>1, <1>4, <1>5, ConcatFacts, Zenon
<1>7. ASSUME NEW i \in 1..(m + n)
      PROVE  child[i] \in Q \cup P
  <2>1. CASE i \in 1..m
    BY <1>1, <1>6, <2>1 DEF Joins
  <2>2. CASE i \notin 1..m
    <3>1. PICK j \in 1..n : i = m + j
      BY <1>2, <2>2
    <3>2. child[m + j] = new[j]
      BY <1>6 DEF Joins
    <3>3. QED
      BY <1>5, <3>1, <3>2
  <2>3. QED
    BY <2>1, <2>2
<1>8. result = [x EXCEPT !.child = child] /\ IsItem(x)
  BY <1>3, <1>4 DEF AddItems, Over
<1>9. IsItem(result) /\ result.child = child /\ result.type = x.type
  BY <1>8, WithChild, SameType
<1>10. HasLength(child, m + n)
  BY <1>6 DEF Joins
<1>11. QED
  BY <1>7, <1>9, <1>10 DEF Over

LEMMA OverOne ==
  ASSUME NEW x, NEW Q, Over(x, Q), NEW name, NEW item, IsItem(item), NEW P, Named(name, item) \in P,
         NEW result, result = AddItemToObject(x, name, item)
  PROVE  Over(result, Q \cup P)
<1>1. PICK pair, more : pair = <<name, item>> /\ more = <<pair>>
  OBVIOUS
<1>2. HasLength(more, 1) /\ more[1] = pair /\ pair[1] = name /\ pair[2] = item
  BY <1>1, TupleOfOne
<1>3. \A i \in 1..1 : Named(more[i][1], more[i][2]) \in P
  BY <1>2
<1>4. result = AddItems(x, more)
  <2>1. PICK m : HasLength(x.child, m)
    BY DEF Over
  <2>2. [i \in DOMAIN more |-> Named(more[i][1], more[i][2])] = <<Named(name, item)>>
    BY <1>1
  <2>3. x.child \o <<Named(name, item)>> = Append(x.child, Named(name, item))
    <3>1. PICK X : X = {x.child[i] : i \in 1..m} \cup {Named(name, item)}
      OBVIOUS
    <3>2. x.child \in Seq(X) /\ Named(name, item) \in X
      <4>1. m \in Nat /\ x.child \in [1..m -> X]
        BY <2>1, <3>1 DEF HasLength
      <4>2. QED
        BY <3>1, <4>1, SeqOfFunction
    <3>3. QED
      BY <3>2, AppendIsConcat
  <2>4. IsItem(Named(name, item))
    BY WithName
  <2>5. Named(name, item) # Null /\ item # Null
    BY <2>4, ItemIsThere
  <2>6. result = [x EXCEPT !.child = Append(x.child, Named(name, item))]
    BY <2>5 DEF AddItemToObject, AddItemToArray
  <2>7. QED
    BY <2>2, <2>3, <2>6 DEF AddItems
<1>5. QED
  BY <1>2, <1>3, <1>4, OverMore

(* An object gets items that have less below them than it may have. *)
LEMMA FlatMore ==
  ASSUME NEW x, Flat(x), NEW more, NEW n, HasLength(more, n), \A i \in 1..n : Leaf(more[i][2])
  PROVE  Flat(AddItems(x, more))
<1>1. PICK Q : Over(x, Q) /\ \A y \in Q : Leaf(y)
  BY DEF Flat
<1>2. PICK P : P = {Named(more[i][1], more[i][2]) : i \in 1..n}
  OBVIOUS
<1>3. \A y \in P : Leaf(y)
  BY <1>2, NameKeeps
<1>4. Over(AddItems(x, more), Q \cup P)
  BY <1>1, <1>2, OverMore
<1>5. QED
  BY <1>1, <1>3, <1>4 DEF Flat

LEMMA DeepMore ==
  ASSUME NEW x, Deep(x), NEW more, NEW n, HasLength(more, n), \A i \in 1..n : Flat(more[i][2])
  PROVE  Deep(AddItems(x, more))
<1>1. PICK Q : Over(x, Q) /\ \A y \in Q : Flat(y)
  BY DEF Deep
<1>2. PICK P : P = {Named(more[i][1], more[i][2]) : i \in 1..n}
  OBVIOUS
<1>3. \A y \in P : Flat(y)
  BY <1>2, NameKeeps
<1>4. Over(AddItems(x, more), Q \cup P)
  BY <1>1, <1>2, OverMore
<1>5. QED
  BY <1>1, <1>3, <1>4 DEF Deep

LEMMA DeeperMore ==
  ASSUME NEW x, Deeper(x), NEW more, NEW n, HasLength(more, n), \A i \in 1..n : Deep(more[i][2])
  PROVE  Deeper(AddItems(x, more))
<1>1. PICK Q : Over(x, Q) /\ \A y \in Q : Deep(y)
  BY DEF Deeper
<1>2. PICK P : P = {Named(more[i][1], more[i][2]) : i \in 1..n}
  OBVIOUS
<1>3. \A y \in P : Deep(y)
  BY <1>2, NameKeeps
<1>4. Over(AddItems(x, more), Q \cup P)
  BY <1>1, <1>2, OverMore
<1>5. QED
  BY <1>1, <1>3, <1>4 DEF Deeper

LEMMA DeeperOne ==
  ASSUME NEW x, Deeper(x), NEW name, NEW item, Deep(item)
  PROVE  Deeper(AddItemToObject(x, name, item))
<1>1. PICK Q : Over(x, Q) /\ \A y \in Q : Deep(y)
  BY DEF Deeper
<1>2. IsItem(item) /\ Deep(Named(name, item))
  BY NameKeeps DEF Deep, Over
<1>3. Over(AddItemToObject(x, name, item), Q \cup {Named(name, item)})
  BY <1>1, <1>2, OverOne
<1>4. QED
  BY <1>1, <1>2, <1>3 DEF Deeper

-----------------------------------------------------------------------------
(* The document of a cycle: six items of the board and "sensor". *)
AllFlat(pairs) == \E n : HasLength(pairs, n) /\ \A i \in 1..n : Flat(pairs[i][2])

LEMMA FlatLeaf ==
  ASSUME NEW origin, NEW name
  PROVE  Flat(<<name, CreateNumber(origin)>>[2]) /\ Flat(<<name, CreateString(origin)>>[2])
<1>1. <<name, CreateNumber(origin)>>[2] = CreateNumber(origin) /\ <<name, CreateString(origin)>>[2] = CreateString(origin)
  OBVIOUS
<1>2. QED
  BY <1>1, NewLeaf, ShapesAreNested

LEMMA FlatPairs ==
  ASSUME NEW s, AllFlat(s), NEW t, AllFlat(t)
  PROVE  AllFlat(s \o t)
<1>1. PICK m, n, u : /\ HasLength(s, m) /\ \A i \in 1..m : Flat(s[i][2])
                     /\ HasLength(t, n) /\ \A i \in 1..n : Flat(t[i][2])
                     /\ u = s \o t
  BY DEF AllFlat
<1>2. Joins(u, s, m, t, n)
  BY <1>1, ConcatFacts, Zenon
<1>3. m \in Nat /\ n \in Nat
  BY <1>1, LengthFacts
<1>4. ASSUME NEW i \in 1..(m + n)
      PROVE  Flat(u[i][2])
  <2>1. CASE i \in 1..m
    BY <1>1, <1>2, <2>1 DEF Joins
  <2>2. CASE i \notin 1..m
    <3>1. PICK j \in 1..n : i = m + j
      BY <1>3, <2>2
    <3>2. u[m + j] = t[j]
      BY <1>2 DEF Joins
    <3>3. QED
      BY <1>1, <3>1, <3>2
  <2>3. QED
    BY <2>1, <2>2
<1>5. QED
  BY <1>1, <1>2, <1>4 DEF AllFlat, Joins

LEMMA NoPairs == AllFlat(<<>>)
<1>1. 1..0 = {}
  OBVIOUS
<1>2. QED
  BY <1>1, TupleOfEmpty DEF AllFlat

LEMMA OneFlatPair ==
  ASSUME NEW a, Flat(a[2])
  PROVE  AllFlat(<<a>>)
<1>1. PICK one : one = <<a>>
  OBVIOUS
<1>2. HasLength(one, 1) /\ one[1] = a /\ 1..1 = {1}
  BY <1>1, TupleOfOne
<1>3. AllFlat(one)
  BY <1>2 DEF AllFlat
<1>4. QED
  BY <1>1, <1>3

LEMMA TwoFlatPairs ==
  ASSUME NEW a, Flat(a[2]), NEW b, Flat(b[2])
  PROVE  AllFlat(<<a, b>>)
<1>1. PICK two : two = <<a, b>>
  OBVIOUS
<1>2. HasLength(two, 2) /\ two[1] = a /\ two[2] = b /\ 1..2 = {1, 2}
  BY <1>1, TupleOfTwo
<1>3. AllFlat(two)
  BY <1>2 DEF AllFlat
<1>4. QED
  BY <1>1, <1>3

LEMMA ThreeFlatPairs ==
  ASSUME NEW a, Flat(a[2]), NEW b, Flat(b[2]), NEW c, Flat(c[2])
  PROVE  AllFlat(<<a, b, c>>)
<1>1. PICK three : three = <<a, b, c>>
  OBVIOUS
<1>2. HasLength(three, 3) /\ three[1] = a /\ three[2] = b /\ three[3] = c /\ 1..3 = {1, 2, 3}
  BY <1>1 DEF HasLength
<1>3. AllFlat(three)
  BY <1>2 DEF AllFlat
<1>4. QED
  BY <1>1, <1>3

LEMMA SixFlatPairs ==
  ASSUME NEW a, Flat(a[2]), NEW b, Flat(b[2]), NEW c, Flat(c[2]), NEW d, Flat(d[2]), NEW e, Flat(e[2]), NEW f, Flat(f[2])
  PROVE  AllFlat(<<a, b, c, d, e, f>>)
<1>1. PICK six : six = <<a, b, c, d, e, f>>
  OBVIOUS
<1>2. /\ HasLength(six, 6) /\ six[1] = a /\ six[2] = b /\ six[3] = c /\ six[4] = d /\ six[5] = e /\ six[6] = f
      /\ 1..6 = {1, 2, 3, 4, 5, 6}
  BY <1>1, TupleOfSix
<1>3. AllFlat(six)
  BY <1>2 DEF AllFlat
<1>4. QED
  BY <1>1, <1>3

LEMMA FlatArray ==
  ASSUME NEW name, NEW items, NEW n, HasLength(items, n), \A i \in 1..n : Leaf(items[i])
  PROVE  Flat(<<name, ArrayOf(items)>>[2])
<1>1. <<name, ArrayOf(items)>>[2] = ArrayOf(items)
  OBVIOUS
<1>2. QED
  BY <1>1, ArrayIsFlat

(* An object of such pairs. *)
LEMMA DeepObject ==
  ASSUME NEW pairs, AllFlat(pairs)
  PROVE  Deep(AddItems(CreateObject, pairs))
<1>1. PICK n : HasLength(pairs, n) /\ \A i \in 1..n : Flat(pairs[i][2])
  BY DEF AllFlat
<1>2. Deep(CreateObject)
  BY ObjectIsEmpty, ShapesAreNested
<1>3. QED
  BY <1>1, <1>2, DeepMore

(* The entry of a sensor. *)
LEMMA ModuleIsFlat ==
  ASSUME NEW s
  PROVE  AllFlat(ModuleData(s))
<1>1. CASE ~record[s].present
  BY <1>1, NoPairs DEF ModuleData
<1>2. CASE record[s].present
  <2>1. PICK low, high : low = record[s].low /\ high = record[s].high
    OBVIOUS
  <2>2. PICK powers : powers = [i \in 1..4 |-> CreateNumber(low)]
    OBVIOUS
  <2>3. HasLength(powers, 4) /\ \A i \in 1..4 : Leaf(powers[i])
    BY <2>2, NewLeaf DEF HasLength
  <2>4. PICK a, b, c, d, e, f :
          /\ a = <<"status", CreateNumber(low)>> /\ b = <<"rxpower", ArrayOf(powers)>> /\ c = <<"id", CreateNumber(low)>>
          /\ d = <<"model", CreateString(high)>> /\ e = <<"serial", CreateString(high)>> /\ f = <<"fwversion", CreateString(low)>>
    OBVIOUS
  <2>5. Flat(a[2]) /\ Flat(c[2]) /\ Flat(d[2]) /\ Flat(e[2]) /\ Flat(f[2])
    BY <2>4, FlatLeaf
  <2>6. Flat(b[2])
    BY <2>3, <2>4, FlatArray
  <2>7. ModuleData(s) = <<a, b, c, d, e, f>>
    BY <1>2, <2>1, <2>2, <2>4 DEF ModuleData
  <2>8. QED
    BY <2>5, <2>6, <2>7, SixFlatPairs
<1>3. QED
  BY <1>1, <1>2

LEMMA FiveLeaves ==
  ASSUME NEW a, NEW b, NEW c, NEW d, NEW e, Leaf(a), Leaf(b), Leaf(c), Leaf(d), Leaf(e), NEW name
  PROVE  Deep(SensorArray(name, <<a, b, c, d, e>>)[2])
<1>1. PICK values : values = <<a, b, c, d, e>>
  OBVIOUS
<1>2. /\ HasLength(values, 5) /\ values[1] = a /\ values[2] = b /\ values[3] = c /\ values[4] = d /\ values[5] = e
      /\ 1..5 = {1, 2, 3, 4, 5}
  BY <1>1, TupleOfFive
<1>3. \A i \in 1..5 : Leaf(values[i])
  BY <1>2
<1>4. Flat(ArrayOf(values))
  BY <1>2, <1>3, ArrayIsFlat
<1>5. SensorArray(name, values)[2] = ArrayOf(values)
  BY DEF SensorArray
<1>6. QED
  BY <1>1, <1>4, <1>5, ShapesAreNested

LEMMA BusIsDeep ==
  ASSUME NEW s
  PROVE  Deep(BusItem(s)[2])
<1>1. Deep(Ltc2945Format(s)[2])
  BY FiveLeaves, NewLeaf DEF Ltc2945Format
<1>2. Deep(SfpFormat(s)[2])
  BY FiveLeaves, NewLeaf DEF SfpFormat
<1>3. Deep(FireflyFormat4(s)[2])
  <2>1. PICK a, b : a = <<"name", CreateString(s)>> /\ b = <<"present", CreateNumber(record[s].present)>>
    OBVIOUS
  <2>2. Flat(a[2]) /\ Flat(b[2])
    BY <2>1, FlatLeaf
  <2>3. PICK two, all : two = <<a, b>> /\ all = two \o ModuleData(s)
    OBVIOUS
  <2>4. AllFlat(two)
    BY <2>2, <2>3, TwoFlatPairs
  <2>5. AllFlat(all)
    BY <2>3, <2>4, FlatPairs, ModuleIsFlat
  <2>6. FireflyFormat4(s) = <<KeyOf[s], AddItems(CreateObject, all)>>
    BY <2>1, <2>3 DEF FireflyFormat4
  <2>7. FireflyFormat4(s)[2] = AddItems(CreateObject, all)
    BY <2>6
  <2>8. QED
    BY <2>5, <2>7, DeepObject
<1>4. QED
  BY <1>1, <1>2, <1>3 DEF BusItem

LEMMA ChannelsAreDeep == Deep(AddItems(CreateObject, ZynqPairs))
<1>1. ASSUME NEW c
      PROVE  Flat(FileChannel(c)[2])
  BY FlatLeaf DEF FileChannel
<1>2. HasLength(ZynqPairs, M) /\ \A i \in 1..M : ZynqPairs[i] = FileChannel(Channels[i])
  BY ChannelCount DEF ZynqPairs, M, HasLength
<1>3. AllFlat(ZynqPairs)
  BY <1>1, <1>2 DEF AllFlat
<1>4. QED
  BY <1>3, DeepObject

LEMMA ZynqIsDeeper ==
  ASSUME NEW parent, Deeper(parent)
  PROVE  Deeper(ZynqOnBoardFormat(parent))
<1>1. PICK shown : shown = [i \in DOMAIN FpgaRows |-> <<FpgaRows[i][1], CreateString(value[Channels[FpgaRows[i][2]]])>>]
  OBVIOUS
<1>2. PICK n : n \in Nat /\ DOMAIN FpgaRows = 1..n
  BY MonitoringAssumption, LenProperties
<1>3. AllFlat(shown)
  <2>1. \A i \in 1..n : Flat(shown[i][2])
    BY <1>1, <1>2, FlatLeaf
  <2>2. HasLength(shown, n)
    BY <1>1, <1>2 DEF HasLength
  <2>3. QED
    BY <2>1, <2>2 DEF AllFlat
<1>4. PICK up : up = <<"up", CreateNumber("up")>>
  OBVIOUS
<1>5. AllFlat(<<up>> \o shown)
  BY <1>3, <1>4, FlatLeaf, FlatPairs, OneFlatPair
<1>6. PICK z, f : /\ z = <<"zynqps", AddItems(CreateObject, ZynqPairs)>>
                  /\ f = <<"fpga", AddItems(CreateObject, <<up>> \o shown)>>
  OBVIOUS
<1>7. Deep(z[2]) /\ Deep(f[2])
  <2>1. z[2] = AddItems(CreateObject, ZynqPairs) /\ f[2] = AddItems(CreateObject, <<up>> \o shown)
    BY <1>6
  <2>2. QED
    BY <1>5, <2>1, ChannelsAreDeep, DeepObject
<1>8. PICK both : both = <<z, f>>
  OBVIOUS
<1>9. HasLength(both, 2) /\ both[1] = z /\ both[2] = f /\ 1..2 = {1, 2}
  BY <1>8, TupleOfTwo
<1>10. \A i \in 1..2 : Deep(both[i][2])
  BY <1>7, <1>9
<1>11. ZynqOnBoardFormat(parent) = AddItems(parent, both)
  BY <1>1, <1>4, <1>6, <1>8 DEF ZynqOnBoardFormat, ZynqPairs
<1>12. QED
  BY <1>9, <1>10, <1>11, DeeperMore

LEMMA IpmcIsDeeper ==
  ASSUME NEW parent, Deeper(parent)
  PROVE  Deeper(IpmcSensorBlockFormat(parent))
<1>1. AllFlat(HeaderData) /\ AllFlat(DecodedData)
  BY OneFlatPair, ThreeFlatPairs, FlatLeaf DEF HeaderData, DecodedData
<1>2. Deep(AddItems(CreateObject, HeaderData \o DecodedData))
  BY <1>1, FlatPairs, DeepObject
<1>3. QED
  BY <1>2, DeeperOne DEF IpmcSensorBlockFormat

LEMMA BoardIsFlat == AllFlat(SysinfoData)
<1>1. PICK u : u = [i \in 1..8 |-> CreateNumber("ureg")]
  OBVIOUS
<1>2. HasLength(u, 8) /\ \A i \in 1..8 : Leaf(u[i])
  BY <1>1, NewLeaf DEF HasLength
<1>3. PICK g, h, v : /\ g = <<"fwvers", CreateNumber("fwvers")>> /\ h = <<"swvers", CreateNumber("swvers")>>
                     /\ v = AddItems(CreateObject, <<g, h>>)
  OBVIOUS
<1>4. Flat(v)
  <2>1. PICK two : two = <<g, h>>
    OBVIOUS
  <2>2. HasLength(two, 2) /\ two[1] = g /\ two[2] = h /\ 1..2 = {1, 2}
    BY <2>1, TupleOfTwo
  <2>3. g[2] = CreateNumber("fwvers") /\ h[2] = CreateNumber("swvers")
    BY <1>3
  <2>4. \A i \in 1..2 : Leaf(two[i][2])
    BY <2>2, <2>3, NewLeaf
  <2>5. Flat(CreateObject)
    BY ObjectIsEmpty, ShapesAreNested
  <2>6. QED
    BY <1>3, <2>1, <2>2, <2>4, <2>5, FlatMore
<1>5. PICK a, b, c, d, e, f :
        /\ a = <<"hwid", CreateNumber("hwid")>> /\ b = <<"fdna", CreateString("fdna")>> /\ c = <<"ureg", ArrayOf(u)>>
        /\ d = <<"versions", v>> /\ e = <<"type", CreateString("type")>> /\ f = <<"title", CreateString("title")>>
  OBVIOUS
<1>6. Flat(a[2]) /\ Flat(b[2]) /\ Flat(e[2]) /\ Flat(f[2])
  BY <1>5, FlatLeaf
<1>7. Flat(c[2]) /\ Flat(d[2])
  <2>1. d[2] = v
    BY <1>5
  <2>2. QED
    BY <1>2, <1>4, <1>5, <2>1, FlatArray
<1>8. SysinfoData = <<a, b, c, d, e, f>>
  BY <1>1, <1>3, <1>5 DEF SysinfoData
<1>9. QED
  BY <1>6, <1>7, <1>8, SixFlatPairs

LEMMA DocumentIsWhole == Whole(SensorFormat(SysinfoFormat(CreateObject)))
<1>1. PICK bus : bus = AddItems(CreateObject, BusPairs)
  OBVIOUS
<1>2. Deeper(bus)
  <2>1. HasLength(BusPairs, N) /\ \A i \in 1..N : BusPairs[i] = BusItem(Sensors[i])
    BY SensorCount DEF BusPairs, N, HasLength
  <2>2. \A i \in 1..N : Deep(BusPairs[i][2])
    BY <2>1, BusIsDeep
  <2>3. Deeper(CreateObject)
    BY ObjectIsEmpty, ShapesAreNested
  <2>4. QED
    BY <1>1, <2>1, <2>2, <2>3, DeeperMore
<1>3. PICK sensor : sensor = IpmcSensorBlockFormat(ZynqOnBoardFormat(bus))
  OBVIOUS
<1>4. Deeper(sensor)
  BY <1>2, <1>3, ZynqIsDeeper, IpmcIsDeeper
<1>5. IsItem(sensor) /\ Deeper(Named("sensor", sensor))
  <2>1. PICK Q : Over(sensor, Q) /\ \A y \in Q : Deep(y)
    BY <1>4 DEF Deeper
  <2>2. Over(Named("sensor", sensor), Q)
    BY <2>1, NameKeeps
  <2>3. QED
    BY <2>1, <2>2 DEF Over, Deeper
<1>6. PICK n : HasLength(SysinfoData, n) /\ \A i \in 1..n : Flat(SysinfoData[i][2])
  BY BoardIsFlat DEF AllFlat
<1>7. PICK P : P = {Named(SysinfoData[i][1], SysinfoData[i][2]) : i \in 1..n}
  OBVIOUS
<1>8. \A y \in P : Deeper(y)
  BY <1>6, <1>7, NameKeeps, ShapesAreNested
<1>9. PICK top : top = SysinfoFormat(CreateObject)
  OBVIOUS
<1>10. Over(top, {} \cup P)
  <2>1. Over(CreateObject, {})
    BY ObjectIsEmpty DEF Leaf
  <2>2. \A i \in 1..n : Named(SysinfoData[i][1], SysinfoData[i][2]) \in P
    BY <1>7
  <2>3. QED
    BY <1>6, <1>9, <2>1, <2>2, OverMore DEF SysinfoFormat
<1>11. PICK all : all = AddItemToObject(top, "sensor", sensor)
  OBVIOUS
<1>12. Over(all, ({} \cup P) \cup {Named("sensor", sensor)})
  BY <1>5, <1>10, <1>11, OverOne
<1>13. Whole(all)
  BY <1>5, <1>8, <1>12 DEF Whole
<1>14. SensorFormat(top) = all
  BY <1>1, <1>3, <1>11 DEF SensorFormat, BusPairs
<1>15. QED
  BY <1>9, <1>13, <1>14

(* So it can be printed in every way it can look. *)
LEMMA DocumentFits ==
  \A look \in Looks : PrintDocument(SensorFormat(SysinfoFormat(CreateObject)), look).fits
BY DocumentIsWhole, WholeIsGood, LooksAreLooks

-----------------------------------------------------------------------------
(* The inductive invariant.  A record whose turn is over is of the round: what
   is read of an ltc2945 or nothing, of a Firefly all of it or that there is
   none. *)
IsFresh(s, rec, r) ==
  /\ Kind[s] = "ltc2945" => rec.low \in {Nothing, Read(s, "low", r)}
  /\ Kind[s] = "firefly4" =>
       /\ rec.present \in BOOLEAN
       /\ rec.present => rec.low = Read(s, "low", r) /\ rec.high = Read(s, "high", r)

Monitored == {"zynq", "ipmc", "format", "extract"}

Round ==
  /\ turn \in 1..N /\ round \in {0, 1} /\ record = [s \in S |-> record[s]]
  /\ pc # "sensors" => turn = 1
  /\ pc = "sensors" => \A i \in 1..N : i < turn => IsFresh(Sensors[i], record[Sensors[i]], round)
  /\ pc \in Monitored => \A s \in S : IsFresh(s, record[s], 1 - round)

(* When the initialisation is done, all constants are those of the files; and a
   channel without an error has been converted with the constants there are. *)
Converted(v, c) == v.scale # "table" /\ (c \in Temperatures => v.offset # "table")

Zynq ==
  /\ initDone => \A c \in C : scale[c] = "file" /\ (c \in Temperatures => offset[c] = "file")
  /\ pc \in Monitored \ {"zynq"} =>
       \A c \in C : err[c] = "none" => value[c].age = "now" /\ (initDone => Converted(value[c], c))

Documented == pc = "extract" => Shows(document)

Extracted == PresentModuleIsWhole /\ PowerIsOfThisCycle /\ ZynqIsOfThisCycle /\ PublishedIsConverted

Invariant == Round /\ Zynq /\ Documented /\ Extracted

LEMMA InitInvariant ==
  ASSUME Init
  PROVE  Invariant
<1>1. pc = "loop" /\ ~ (pc \in Monitored) /\ printed = "never" /\ initDone = FALSE
  BY DEF Init, ZInit, Monitored
<1>2. Round
  <2>1. N \in Nat /\ 1 \in 1..N
    <3>1. N # 0
      BY MonitoringAssumption, EmptySeq DEF N
    <3>2. QED
      BY <3>1, SensorCount DEF N
  <2>2. record = [s \in S |-> record[s]]
    BY DEF Init, RoundInit, S
  <2>3. turn = 1 /\ round = 0
    BY DEF Init, RoundInit
  <2>4. QED
    BY <1>1, <2>1, <2>2, <2>3 DEF Round
<1>3. Zynq
  BY <1>1 DEF Zynq
<1>4. Documented
  BY <1>1 DEF Documented
<1>5. Extracted
  <2>1. PICK m : m = Missing
    OBVIOUS
  <2>2. published.firefly = [s \in Firefly |-> [item \in FireflyItems |-> m]] /\ published.zynq = [c \in C |-> m]
    BY <2>1 DEF Init
  <2>3. PresentModuleIsWhole
    <3>1. "present" \in FireflyItems /\ "status" \in FireflyItems
      BY DEF FireflyItems
    <3>2. \A s \in Firefly : published.firefly[s].present = m /\ published.firefly[s].status = m
      BY <2>2, <3>1
    <3>3. m # TRUE
      BY <2>1, MonitoringAssumption
    <3>4. QED
      BY <2>1, <3>2, <3>3 DEF PresentModuleIsWhole
  <2>4. PowerIsOfThisCycle
    BY <1>1 DEF PowerIsOfThisCycle
  <2>5. ZynqIsOfThisCycle
    BY <2>1, <2>2 DEF ZynqIsOfThisCycle
  <2>6. PublishedIsConverted
    BY <2>1, <2>2 DEF PublishedIsConverted
  <2>7. QED
    BY <2>3, <2>4, <2>5, <2>6 DEF Extracted
<1>6. QED
  BY <1>2, <1>3, <1>4, <1>5 DEF Invariant

-----------------------------------------------------------------------------
(* The round. *)
LEMMA AnswersAreFresh ==
  ASSUME NEW answer \in Answers
  PROVE  IsFresh(This, answer, round)
<1>1. Own("low") = Read(This, "low", round) /\ Own("high") = Read(This, "high", round)
  BY DEF Own, Read
<1>2. CASE answer = Empty
  BY <1>2 DEF IsFresh, Empty
<1>3. ASSUME NEW h \in Highs, answer = [present |-> TRUE, low |-> Own("low"), high |-> h]
      PROVE  IsFresh(This, answer, round)
  <2>1. answer.present = TRUE /\ answer.low = Own("low") /\ answer.high = h
    BY <1>3
  <2>2. Kind[This] = "firefly4" => h = Own("high")
    BY DEF Highs
  <2>3. QED
    BY <1>1, <2>1, <2>2 DEF IsFresh
<1>4. CASE Kind[This] = "sfp"
  BY <1>4 DEF IsFresh
<1>5. QED
  BY <1>2, <1>3, <1>4 DEF Answers

LEMMA RoundStep ==
  ASSUME Round, MonitorBus
  PROVE  Round'
<1>1. pc = "sensors" /\ N \in Nat /\ turn \in 1..N /\ This \in S
  BY SensorCount DEF MonitorBus, Round, This, N
<1>2. \A i \in 1..N : Sensors[i] \in S /\ (i # turn => Sensors[i] # This)
  BY <1>1, SensorCount, MonitoringAssumption DEF N, This
<1>3. CASE BeginRead
  <2>1. turn' = turn /\ round' = round /\ pc' = "sensors"
    BY <1>3 DEF BeginRead, MonitorBus
  <2>2. record' = [s \in S |-> record'[s]] /\ \A s \in S : s # This => record'[s] = record[s]
    BY <1>1, <1>3 DEF BeginRead, Round
  <2>3. \A i \in 1..N : i < turn => IsFresh(Sensors[i], record'[Sensors[i]], round)
    BY <1>1, <1>2, <2>2 DEF Round
  <2>4. pc' \notin Monitored
    BY <2>1 DEF Monitored
  <2>5. QED
    BY <1>1, <2>1, <2>2, <2>3, <2>4 DEF Round
<1>4. CASE EndRead
  <2>1. PICK answer \in Answers : record' = [record EXCEPT ![This] = answer]
    BY <1>4 DEF EndRead
  <2>2. /\ record' = [s \in S |-> record'[s]] /\ record'[This] = answer
        /\ \A s \in S : s # This => record'[s] = record[s]
    BY <1>1, <2>1 DEF Round
  <2>3. IsFresh(This, record'[This], round)
    BY <2>1, <2>2, AnswersAreFresh
  <2>4. \A i \in 1..N : i <= turn => IsFresh(Sensors[i], record'[Sensors[i]], round)
    <3>1. SUFFICES ASSUME NEW i \in 1..N, i <= turn
                   PROVE  IsFresh(Sensors[i], record'[Sensors[i]], round)
      OBVIOUS
    <3>2. CASE i = turn
      BY <2>3, <3>2 DEF This
    <3>3. CASE i # turn
      <4>1. i < turn /\ record'[Sensors[i]] = record[Sensors[i]]
        BY <1>1, <1>2, <2>2, <3>1, <3>3
      <4>2. QED
        BY <1>1, <4>1 DEF Round
    <3>4. QED
      BY <3>2, <3>3
  <2>5. round \in {0, 1}
    BY DEF Round
  <2>6. CASE turn = N
    <3>1. turn' = 1 /\ round' = 1 - round
      BY <1>4, <2>6 DEF EndRead, N
    <3>2. round' \in {0, 1} /\ round' # round /\ 1 - round' = round
      BY <2>5, <3>1
    <3>3. pc' = "zynq"
      BY <3>2 DEF MonitorBus
    <3>4. \A s \in S : IsFresh(s, record'[s], 1 - round')
      <4>1. SUFFICES ASSUME NEW s \in S
                     PROVE  IsFresh(s, record'[s], round)
        BY <3>2
      <4>2. PICK i \in 1..N : s = Sensors[i]
        BY SensorCount DEF S, N
      <4>3. i <= turn
        BY <1>1, <2>6
      <4>4. QED
        BY <2>4, <4>2, <4>3
    <3>5. pc' # "sensors" /\ turn' \in 1..N
      BY <1>1, <3>1, <3>3
    <3>6. QED
      BY <2>2, <3>1, <3>2, <3>4, <3>5 DEF Round
  <2>7. CASE turn # N
    <3>1. turn' = turn + 1 /\ round' = round
      BY <1>4, <2>7 DEF EndRead, N
    <3>2. pc' = "sensors"
      BY <3>1 DEF MonitorBus
    <3>3. \A i \in 1..N : i < turn' => IsFresh(Sensors[i], record'[Sensors[i]], round')
      BY <1>1, <2>4, <3>1
    <3>4. turn' \in 1..N /\ pc' \notin Monitored
      BY <1>1, <2>7, <3>1, <3>2 DEF Monitored
    <3>5. QED
      BY <2>2, <2>5, <3>1, <3>2, <3>3, <3>4 DEF Round
  <2>8. QED
    BY <2>6, <2>7
<1>5. QED
  BY <1>3, <1>4 DEF MonitorBus, RoundNext

LEMMA RoundElsewhere ==
  ASSUME Round, UNCHANGED rvars, pc' \in Monitored => pc \in Monitored,
         pc' = "sensors" => pc \in {"loop", "sensors"}, pc # "sensors" \/ pc' = "sensors"
  PROVE  Round'
<1>1. turn' = turn /\ round' = round /\ record' = record
  BY DEF rvars
<1>2. N \in Nat /\ \A i \in 1..N : ~ (i < 1)
  BY SensorCount DEF N
<1>3. QED
  BY <1>1, <1>2 DEF Round

-----------------------------------------------------------------------------
(* There is a first row among those at which the loop can stop. *)
LEMMA StopIsFirst ==
  ASSUME NEW out
  PROVE  /\ Stop(out) \in Nat
         /\ \A i \in 1..M : Lacks(out, Channels[i]) # "none" => Stop(out) <= i
<1>1. PICK Y : Y = {j \in DOMAIN Channels : Lacks(out, Channels[j]) # "none"} \cup {M + 1}
  OBVIOUS
<1>2. M \in Nat /\ Y \subseteq Nat /\ M + 1 \in Y
  BY <1>1, ChannelCount DEF M
<1>3. PICK least \in Y : \A j \in Y : ~ (<<j, least>> \in OpToRel(<, Nat))
  BY <1>2, NatLessThanWellFounded, WFMin
<1>4. ASSUME NEW j \in Y
      PROVE  least <= j
  <2>1. least \in Nat /\ j \in Nat /\ ~ (j < least)
    BY <1>2, <1>3 DEF OpToRel
  <2>2. QED
    BY <2>1
<1>5. Min(Y) = least
  BY <1>2, <1>4, MinIsLeast
<1>6. Stop(out) = least
  BY <1>1, <1>5 DEF Stop, M
<1>7. \A i \in 1..M : Lacks(out, Channels[i]) # "none" => i \in Y
  BY <1>1, ChannelCount DEF M
<1>8. QED
  BY <1>2, <1>4, <1>6, <1>7

(* The channels: behind the last row the loop stops only if nothing is missing. *)
LEMMA NothingLacks ==
  ASSUME NEW out, Stop(out) > M, NEW i \in 1..M
  PROVE  Lacks(out, Channels[i]) = "none"
<1>1. M \in Nat /\ Stop(out) \in Nat
  BY ChannelCount, StopIsFirst DEF M
<1>2. ~ (Stop(out) <= i)
  BY <1>1
<1>3. QED
  BY <1>2, StopIsFirst

LEMMA ZynqStep ==
  ASSUME Zynq, MonitorZynq
  PROVE  Zynq'
<1>1. PICK out \in Possible : ReadZynq(out)
  BY DEF MonitorZynq
<1>2. DoInit(out)
  BY <1>1 DEF ReadZynq
<1>3. pc' = "ipmc"
  BY DEF MonitorZynq, GoTo
<1>4. ASSUME initDone', NEW c \in C
      PROVE  scale'[c] = "file" /\ (c \in Temperatures => offset'[c] = "file")
  <2>1. CASE initDone
    <3>1. scale'[c] = scale[c] /\ offset'[c] = offset[c]
      BY <1>2, <2>1 DEF DoInit
    <3>2. QED
      BY <2>1, <3>1 DEF Zynq
  <2>2. CASE ~ initDone
    <3>1. Stop(out) > M
      BY <1>2, <1>4, <2>2 DEF DoInit, M
    <3>2. PICK i \in 1..M : c = Channels[i]
      BY ChannelCount DEF C, M
    <3>3. Lacks(out, c) = "none"
      BY <3>1, <3>2, NothingLacks
    <3>4. Row(c) = i
      BY <3>2, ChannelCount, ZynqAssumption DEF Row, M
    <3>5. Row(c) <= Stop(out)
      <4>1. PICK stop : stop = Stop(out)
        OBVIOUS
      <4>2. stop \in Nat
        BY <4>1, StopIsFirst
      <4>3. M \in Nat /\ i <= M /\ stop > M
        BY <3>1, <4>1, ChannelCount DEF M
      <4>4. i <= stop
        BY <4>2, <4>3
      <4>5. QED
        BY <3>4, <4>1, <4>4
    <3>6. <<c, "scale">> \in Files /\ <<c, "offset">> \in Files
      BY DEF Files
    <3>7. out[<<c, "scale">>] = "file" /\ (c \in Temperatures => out[<<c, "offset">>] = "file")
      <4>1. \A f \in Files : out[f] \in {"file", "none"}
        BY DEF Possible, Outcomes
      <4>2. out[<<c, "scale">>] # "none" /\ (c \in Temperatures => out[<<c, "offset">>] # "none")
        BY <3>3 DEF Lacks
      <4>3. QED
        BY <3>6, <4>1, <4>2
    <3>8. scale'[c] = out[<<c, "scale">>] /\ (c \in Temperatures => offset'[c] = out[<<c, "offset">>])
      BY <1>2, <2>2, <3>3, <3>5 DEF DoInit
    <3>9. QED
      BY <3>7, <3>8
  <2>3. QED
    BY <2>1, <2>2
<1>5. ASSUME NEW c \in C, err'[c] = "none"
      PROVE  value'[c].age = "now" /\ (initDone' => Converted(value'[c], c))
  <2>1. ReadError(out, c, InitError(out)[c]) = "none"
    BY <1>1, <1>5 DEF ReadZynq
  <2>2. ~ Skipped(InitError(out)[c]) /\ out[<<c, "raw">>] # "none"
    BY <2>1 DEF ReadError, Skipped
  <2>3. value'[c] = [age |-> "now", scale |-> scale'[c], offset |-> offset'[c]]
    BY <1>1, <2>2 DEF ReadZynq
  <2>4. value'[c].age = "now" /\ value'[c].scale = scale'[c] /\ value'[c].offset = offset'[c]
    BY <2>3
  <2>5. initDone' => Converted(value'[c], c)
    BY <1>4, <2>4 DEF Converted
  <2>6. QED
    BY <2>4, <2>5
<1>6. QED
  BY <1>3, <1>4, <1>5 DEF Zynq, Monitored

LEMMA ZynqElsewhere ==
  ASSUME Zynq, UNCHANGED zvars, pc' \in Monitored \ {"zynq"} => pc \in Monitored \ {"zynq"}
  PROVE  Zynq'
<1>1. initDone' = initDone /\ err' = err /\ scale' = scale /\ offset' = offset /\ value' = value
  BY DEF zvars
<1>2. QED
  BY <1>1 DEF Zynq, Converted

-----------------------------------------------------------------------------
(* The document and what is published of it. *)
LEMMA FormatStep ==
  ASSUME NEW opened, Format(opened)
  PROVE  Documented'
<1>1. document' = SensorFormat(SysinfoFormat(CreateObject)) /\ record' = record /\ err' = err /\ value' = value
  BY DEF Format, rvars, zvars
<1>2. Shows(document')
  BY <1>1, DocumentShows
<1>3. Shows(document)'
  BY <1>1, <1>2 DEF Shows, ShowsLtc, ShowsFirefly, ShowsZynq, Entry, Channel, Group
<1>4. QED
  BY <1>3 DEF Documented

LEMMA ExtractStep ==
  ASSUME Round, Zynq, Documented, Extract
  PROVE  Extracted'
<1>1. pc = "extract" /\ Shows(document) /\ round' = round /\ initDone' = initDone
  BY DEF Extract, GoTo, Documented, rvars, zvars
<1>2. \A s \in S : IsFresh(s, record[s], 1 - round)
  BY <1>1 DEF Round, Monitored
<1>3. \A c \in C : err[c] = "none" => value[c].age = "now" /\ (initDone => Converted(value[c], c))
  BY <1>1 DEF Zynq, Monitored
<1>4. published'.ltc = ExtractLtc /\ published'.firefly = ExtractFirefly /\ published'.zynq = ExtractZynq
  BY DEF Extract
<1>5. PowerIsOfThisCycle'
  <2>1. ASSUME NEW s \in Ltc, NEW place \in 2..3
        PROVE  published'.ltc[s][place] \in {Nothing, Read(s, "low", 1 - round)}
    <3>1. place \in 2..4
      OBVIOUS
    <3>2. published'.ltc[s][place] = Value(GetArrayItem(Entry(document, s), place), Garbage)
      BY <1>4, <3>1 DEF ExtractLtc, Entry, Group, Sensor
    <3>3. published'.ltc[s][place] = record[s].low
      BY <1>1, <3>2 DEF Shows, ShowsLtc
    <3>4. QED
      BY <1>2, <3>3, KindOf DEF IsFresh
  <2>2. QED
    BY <1>1, <2>1 DEF PowerIsOfThisCycle, Read
<1>6. ASSUME NEW c \in C
      PROVE  published'.zynq[c] = IF err[c] = "none" THEN value[c] ELSE Missing
  <2>1. published'.zynq[c] = Value(Channel(document, c), Missing)
    BY <1>4 DEF ExtractZynq, Channel, Group, Sensor
  <2>2. QED
    BY <1>1, <2>1 DEF Shows, ShowsZynq
<1>7. ZynqIsOfThisCycle'
  BY <1>3, <1>6 DEF ZynqIsOfThisCycle
<1>8. PublishedIsConverted'
  BY <1>1, <1>3, <1>6 DEF PublishedIsConverted, Converted
<1>9. PresentModuleIsWhole'
  <2>1. ASSUME NEW s \in Firefly, NEW ff, ff = published'.firefly[s]
        PROVE  IF ff.present = TRUE
               THEN /\ \A item \in {"status", "rxpower", "id", "fwversion"} : ff[item] = Read(s, "low", 1 - round)
                    /\ \A item \in {"model", "serial"} : ff[item] = Read(s, "high", 1 - round)
               ELSE ff.status = Missing
    <3>1. ff = [item \in FireflyItems |->
                  CASE item \in {"present", "status"} -> Value(GetObjectItem(Entry(document, s), item), Missing)
                    [] item = "rxpower" -> Value(GetArrayItem(GetObjectItem(Entry(document, s), item), 0), Garbage)
                    [] OTHER -> Value(GetObjectItem(Entry(document, s), item), Garbage)]
      BY <1>4, <2>1 DEF ExtractFirefly, Module, Entry, Group, Sensor
    <3>2. /\ ff["present"] = Value(GetObjectItem(Entry(document, s), "present"), Missing)
          /\ ff["status"] = Value(GetObjectItem(Entry(document, s), "status"), Missing)
          /\ ff["rxpower"] = Value(GetArrayItem(GetObjectItem(Entry(document, s), "rxpower"), 0), Garbage)
      BY <3>1 DEF FireflyItems
    <3>3. \A item \in {"id", "fwversion", "model", "serial"} :
            ff[item] = Value(GetObjectItem(Entry(document, s), item), Garbage)
      BY <3>1 DEF FireflyItems
    <3>4. ShowsFirefly(document) /\ IsFresh(s, record[s], 1 - round) /\ Kind[s] = "firefly4"
      BY <1>1, <1>2, KindOf DEF Shows
    <3>5. ff["present"] = record[s].present
      BY <3>2, <3>4 DEF ShowsFirefly
    <3>6. CASE record[s].present
      <4>1. record[s].low = Read(s, "low", 1 - round) /\ record[s].high = Read(s, "high", 1 - round)
        BY <3>4, <3>6 DEF IsFresh
      <4>2. ff["status"] = record[s].low /\ ff["rxpower"] = record[s].low
        BY <3>2, <3>4, <3>6 DEF ShowsFirefly
      <4>3. \A item \in {"id", "fwversion"} : ff[item] = record[s].low
        BY <3>3, <3>4, <3>6 DEF ShowsFirefly
      <4>4. \A item \in {"model", "serial"} : ff[item] = record[s].high
        BY <3>3, <3>4, <3>6 DEF ShowsFirefly
      <4>5. record[s].present = TRUE
        BY <3>4, <3>6 DEF IsFresh
      <4>6. ff.present = TRUE
        BY <3>5, <4>5
      <4>7. QED
        BY <4>1, <4>2, <4>3, <4>4, <4>6
    <3>7. CASE ~ record[s].present
      <4>1. ff["status"] = Missing
        BY <3>2, <3>4, <3>7 DEF ShowsFirefly
      <4>2. record[s].present # TRUE
        BY <3>7
      <4>3. ff.present # TRUE
        BY <3>5, <4>2
      <4>4. QED
        BY <4>1, <4>3
    <3>8. QED
      BY <3>6, <3>7
  <2>2. QED
    BY <1>1, <2>1 DEF PresentModuleIsWhole, Read
<1>10. QED
  BY <1>5, <1>7, <1>8, <1>9 DEF Extracted

LEMMA ExtractedElsewhere ==
  ASSUME Extracted, pc' # "loop" \/ (pc' = pc /\ UNCHANGED <<published, round, initDone, printed>>)
  PROVE  Extracted'
BY DEF Extracted, PresentModuleIsWhole, PowerIsOfThisCycle, ZynqIsOfThisCycle, PublishedIsConverted, Read

-----------------------------------------------------------------------------
LEMMA NextInvariant ==
  ASSUME Invariant, [Next]_vars
  PROVE  Invariant'
<1> USE DEF Invariant
<1>1. CASE TestFlag
  <2>1. pc = "loop" /\ pc' \in {"sensors", "ended"} /\ UNCHANGED rvars /\ UNCHANGED zvars
    BY <1>1 DEF TestFlag, GoTo
  <2>2. pc' \notin Monitored /\ pc' # "loop" /\ pc' # "extract"
    BY <2>1 DEF Monitored
  <2>3. QED
    BY <2>1, <2>2, RoundElsewhere, ZynqElsewhere, ExtractedElsewhere DEF Documented
<1>2. CASE MonitorBus
  <2>1. pc' \in {"sensors", "zynq"} /\ UNCHANGED zvars
    BY <1>2 DEF MonitorBus
  <2>2. pc' \notin Monitored \ {"zynq"} /\ pc' # "loop" /\ pc' # "extract"
    BY <2>1 DEF Monitored
  <2>3. QED
    BY <1>2, <2>1, <2>2, RoundStep, ZynqElsewhere, ExtractedElsewhere DEF Documented
<1>3. CASE MonitorZynq
  <2>1. pc = "zynq" /\ pc' = "ipmc" /\ UNCHANGED rvars
    BY <1>3 DEF MonitorZynq, GoTo
  <2>2. QED
    BY <1>3, <2>1, RoundElsewhere, ZynqStep, ExtractedElsewhere DEF Documented, Monitored
<1>4. CASE MonitorIpmc
  <2>1. pc = "ipmc" /\ pc' = "format" /\ UNCHANGED rvars /\ UNCHANGED zvars
    BY <1>4 DEF MonitorIpmc, GoTo
  <2>2. QED
    BY <2>1, RoundElsewhere, ZynqElsewhere, ExtractedElsewhere DEF Documented, Monitored
<1>5. ASSUME NEW opened \in BOOLEAN, Format(opened)
      PROVE  Invariant'
  <2>1. pc = "format" /\ pc' \in {"crashed", "extract"} /\ UNCHANGED rvars /\ UNCHANGED zvars
    BY <1>5 DEF Format
  <2>2. QED
    BY <1>5, <2>1, FormatStep, RoundElsewhere, ZynqElsewhere, ExtractedElsewhere DEF Monitored
<1>6. CASE Extract
  <2>1. pc = "extract" /\ pc' = "loop" /\ UNCHANGED rvars /\ UNCHANGED zvars
    BY <1>6 DEF Extract, GoTo
  <2>2. QED
    BY <1>6, <2>1, ExtractStep, RoundElsewhere, ZynqElsewhere DEF Documented, Monitored
<1>7. CASE Crash
  <2>1. pc = "extract" /\ pc' = "crashed" /\ UNCHANGED rvars /\ UNCHANGED zvars
    BY <1>7 DEF Crash, GoTo
  <2>2. QED
    BY <2>1, RoundElsewhere, ZynqElsewhere, ExtractedElsewhere DEF Documented, Monitored
<1>8. CASE UNCHANGED vars
  <2>1. /\ UNCHANGED rvars /\ UNCHANGED zvars /\ pc' = pc /\ document' = document
        /\ published' = published /\ printed' = printed
    BY <1>8 DEF vars, mvars
  <2>2. round' = round /\ initDone' = initDone /\ record' = record /\ err' = err /\ value' = value
    BY <2>1 DEF rvars, zvars
  <2>3. Documented'
    BY <2>1, <2>2 DEF Documented, Shows, ShowsLtc, ShowsFirefly, ShowsZynq, Entry, Channel, Group
  <2>4. QED
    BY <2>1, <2>2, <2>3, RoundElsewhere, ZynqElsewhere, ExtractedElsewhere
<1>9. QED
  BY <1>1, <1>2, <1>3, <1>4, <1>5, <1>6, <1>7, <1>8 DEF Next

(* The invariant holds always. *)
THEOREM MonitoringInvariant == Spec => []Invariant
<1>1. Init => Invariant
  BY InitInvariant
<1>2. Invariant /\ [Next]_vars => Invariant'
  BY NextInvariant
<1>3. QED
  BY <1>1, <1>2, PTL DEF Spec

(* What is published of a Firefly that is said to be present is all of it of this
   module and of the cycle that has just ended, however many modules there are
   and whatever fails (DRegs.cpp:285-450, firefly.c:209-252). *)
THEOREM FireflyIsWhole == Spec => []PresentModuleIsWhole
BY MonitoringInvariant, PTL DEF Invariant, Extracted

(* A published voltage or current of an ltc2945 is of this cycle or the zero of a
   reading that failed (DRegs.cpp:196-281, ltc2945.c:36-68). *)
THEOREM LtcIsOfThisCycle == Spec => []PowerIsOfThisCycle
BY MonitoringInvariant, PTL DEF Invariant, Extracted

(* A published temperature or voltage of the Zynq was read in this cycle or is
   -99 (zynqOnBoard.c:219-266, DRegs.cpp:651-766) ... *)
THEOREM ChannelIsOfThisCycle == Spec => []ZynqIsOfThisCycle
BY MonitoringInvariant, PTL DEF Invariant, Extracted

(* ... and it was converted with the constants of its files as soon as they have
   been read (zynqOnBoard.c:177-213). *)
THEOREM ChannelIsConverted == Spec => []PublishedIsConverted
BY MonitoringInvariant, PTL DEF Invariant, Extracted

(* Whatever sensors there are and however their numbers and texts look, printing
   the document of a cycle does not write behind what was allocated for it: the
   document is no deeper than it is printed (DocumentIsWhole), and each print
   function counts at least what it writes (cJSON.c:149-180, 264-320, 438-516,
   555-665). *)
THEOREM PrintingFits == Spec => []PrintFits
<1>1. Init => PrintFits
  BY DEF Init, PrintFits
<1>2. ASSUME PrintFits, [Next]_vars
      PROVE  PrintFits'
  <2>1. ASSUME NEW opened \in BOOLEAN, Format(opened)
        PROVE  PrintFits'
    <3>1. /\ printed' = IF ~(maxprint < 2) THEN printed
                        ELSE IF \A look \in Looks : PrintDocument(SensorFormat(SysinfoFormat(CreateObject)), look).fits
                             THEN "fits" ELSE "overrun"
      BY <2>1 DEF Format
    <3>2. QED
      BY <1>2, <3>1, DocumentFits DEF PrintFits
  <2>2. CASE UNCHANGED printed
    BY <1>2, <2>2 DEF PrintFits
  <2>3. (TestFlag \/ MonitorBus \/ MonitorZynq \/ MonitorIpmc \/ Extract \/ Crash \/ UNCHANGED vars) => UNCHANGED printed
    BY DEF TestFlag, MonitorBus, MonitorZynq, MonitorIpmc, Extract, Crash, vars, mvars
  <2>4. QED
    BY <1>2, <2>1, <2>2, <2>3 DEF Next
<1>3. QED
  BY <1>1, <1>2, PTL DEF Spec

===============================================================================
