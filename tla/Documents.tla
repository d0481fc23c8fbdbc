------------------------------ MODULE Documents ------------------------------
(***************************************************************************)
(* The JSON documents of the sensors (Json/src/cJSON.c), as far as this    *)
(* server uses them: items are made, added to arrays and objects, looked   *)
(* up and printed.                                                         *)
(*                                                                         *)
(* An item is a record and its children are a sequence: the links between  *)
(* siblings are the order of that sequence.  Memory is not short.  The     *)
(* server does not parse, copy, detach or replace anything.                *)
(***************************************************************************)
EXTENDS Integers, SequencesExt

CONSTANT
  Lower      (* the names that have capital letters -> the same in small ones *)

Null == [type |-> "none"]      (* the null pointer *)
NoName == "(no name)"

New_Item(type, value) == [type |-> type, string |-> NoName, value |-> value, child |-> <<>>]
CreateNumber(value) == New_Item("Number", value)
CreateString(value) == New_Item("String", value)
CreateArray == New_Item("Array", NoName)
CreateObject == New_Item("Object", NoName)

AddItemToArray(array, item) == IF item = Null THEN array ELSE [array EXCEPT !.child = Append(@, item)]

(* A name that is there already is added once more. *)
Named(name, item) == [item EXCEPT !.string = name]
AddItemToObject(object, name, item) == IF item = Null THEN object ELSE AddItemToArray(object, Named(name, item))

(* Rows of calls of these two: for <<name, item>> pairs, and for items. *)
AddItems(object, pairs) ==
  [object EXCEPT !.child = @ \o [i \in DOMAIN pairs |-> Named(pairs[i][1], pairs[i][2])]]
ArrayOf(items) == [CreateArray EXCEPT !.child = items]

-----------------------------------------------------------------------------
SmallLetters(name) == IF name \in DOMAIN Lower THEN Lower[name] ELSE name

(* cJSON_strcasecmp() *)
SameName(a, b) == SmallLetters(a) = SmallLetters(b)

(* The item at a place that is counted from 0. *)
GetArrayItem(array, place) ==
  IF array # Null /\ place < Len(array.child) THEN array.child[place + 1] ELSE Null

(* The first one of that name. *)
GetObjectItem(object, name) ==
  IF object = Null THEN Null
  ELSE LET named == {i \in DOMAIN object.child : SameName(object.child[i].string, name)} IN
       IF named = {} THEN Null ELSE object.child[Min(named)]

-----------------------------------------------------------------------------
(* cJSON_Print(), with line breaks and without a print buffer (p is null all the
   way down, fmt is 1).  Each function counts what its text will
   need, allocates that and writes.  What is printed is known by its length and
   by whether it, and all that is printed within it, has room for its end. *)
Text(length, allocated, within) ==
  [length |-> length, fits |-> length + 1 <= allocated /\ \A i \in DOMAIN within : within[i].fits]

Sum(numbers) ==
  LET upTo[n \in 0 .. Len(numbers)] == IF n = 0 THEN 0 ELSE upTo[n - 1] + numbers[n] IN
  upTo[Len(numbers)]
Total(texts, extra) == Sum([i \in DOMAIN texts |-> texts[i].length + extra])

(* The branches of print_number() with the longest text of each: "-2147483648",
   sixty digits and a sign, "-1.000000e-308", "-1000000000.000000". *)
Longest == [zero |-> 1, int |-> 11, nan |-> 4, whole |-> 61, exponent |-> 14, decimal |-> 18]
NumberClasses == DOMAIN Longest

PrintNumber(class) ==
  Text(Longest[class], CASE class = "zero" -> 2 [] class = "int" -> 21 [] OTHER -> 64, <<>>)

(* Characters that are printed as they are, as two or as \u and four digits. *)
Escaped == [plain |-> 1, short |-> 2, control |-> 6]
CharClasses == DOMAIN Escaped

(* The escapes are counted before they are written, unless there is none. *)
PrintString(chars) ==
  LET flag == \E i \in DOMAIN chars : chars[i] # "plain"
      extra(c) == CASE c = "short" -> 1 [] c = "control" -> 5 [] OTHER -> 0
      counted == Sum([i \in DOMAIN chars |-> 1 + extra(chars[i])])
      written == Sum([i \in DOMAIN chars |-> Escaped[chars[i]]])
  IN  IF flag THEN Text(written + 2, counted + 3, <<>>) ELSE Text(Len(chars) + 2, Len(chars) + 3, <<>>)

(* Entries with ", " between them. *)
PrintArray(entries) ==
  IF entries = <<>> THEN Text(2, 3, <<>>)
  ELSE Text(1 + Total(entries, 0) + 2 * (Len(entries) - 1) + 1, 5 + Total(entries, 3), entries)

(* Mutant: the tabs in front of an entry are not counted. *)
PrintObject_NoTabs(names, entries, depth) ==
  IF entries = <<>> THEN Text(depth + 3, depth + 4, <<>>)
  ELSE Text(2 + Total(names, 0) + Total(entries, 0) + Len(entries) * (depth + 5) - 1 + depth + 1,
            7 + depth + 1 + Total(names, 0) + Total(entries, 4), names \o entries)

(* A line for each entry, behind depth + 1 tabs. *)
PrintObject(names, entries, depth) ==
  IF entries = <<>> THEN Text(depth + 3, depth + 4, <<>>)
  ELSE Text(2 + Total(names, 0) + Total(entries, 0) + Len(entries) * (depth + 5) - 1 + depth + 1,
            7 + depth + 1 + Total(names, 0) + Total(entries, depth + 5), names \o entries)

(* print_value(), for an item whose entries have been printed one level deeper.
   All numbers look the same here, and all strings; so do the names. *)
PrintItem(item, entries, depth, look) ==
  CASE item.type = "Number" -> PrintNumber(look.number)
    [] item.type = "String" -> PrintString(look.text)
    [] item.type = "Array" -> PrintArray(entries)
    [] item.type = "Object" -> PrintObject([i \in DOMAIN entries |-> PrintString(look.name)], entries, depth)

(* The documents are four levels deep: top, "sensor", a sensor, its array. *)
PrintLeaf(item, look) == PrintItem(item, <<>>, 4, look)
PrintEntry(item, look) == PrintItem(item, [i \in DOMAIN item.child |-> PrintLeaf(item.child[i], look)], 3, look)
PrintSensor(item, look) == PrintItem(item, [i \in DOMAIN item.child |-> PrintEntry(item.child[i], look)], 2, look)
PrintGroup(item, look) == PrintItem(item, [i \in DOMAIN item.child |-> PrintSensor(item.child[i], look)], 1, look)
PrintDocument(item, look) == PrintItem(item, [i \in DOMAIN item.child |-> PrintGroup(item.child[i], look)], 0, look)

=============================================================================
