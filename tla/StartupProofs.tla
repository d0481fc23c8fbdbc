--------------------------- MODULE StartupProofs ---------------------------
(***************************************************************************)
(* Proofs about the two files of a start, whatever they say.               *)
(*                                                                         *)
(* ServerConfig.xml: the instructions that read it are well nested, so the *)
(* cursor stands where the code takes it to be (XmlInv).  The addresses: a *)
(* name stands for one variable (ListedInv).  The formulas: what has       *)
(* become of a text so far stands for all of it (ElaborationInv).          *)
(***************************************************************************)
EXTENDS Startup, SequenceTheorems, FiniteSetTheorems, WellFoundedInduction, TLAPS

(* How loadConfiguration() is laid out: a section is entered, its settings are
   read, and it is left; sections are not nested. *)
Flat(s) == IsSeq(s) /\ \A k \in DOMAIN s : s[k].do \in {"read", "list"}
NoRates(s) == \A k \in DOMAIN s : k > 1 => s[k].name # "SamplingRate"

Opens(s, j, k) == j \in DOMAIN s /\ s[j].do = "enter" /\ k = j + s[j].size + 1
Nested(s) ==
  /\ IsSeq(s)
  /\ \A j \in DOMAIN s : s[j].do = "enter" =>
       /\ s[j].size \in Nat \ {0}
       /\ j + s[j].size + 1 \in DOMAIN s /\ s[j + s[j].size + 1].do = "leave"
       /\ \A i \in j + 1 .. j + s[j].size :
            s[i].do \in {"read", "list"} /\ (i > j + 1 => s[i].name # "SamplingRate")
  /\ \A k \in DOMAIN s : s[k].do = "leave" => \E j \in DOMAIN s : Opens(s, j, k)

LEMMA IsASequence ==
  ASSUME NEW R, NEW s \in Seq(R)
  PROVE  IsSeq(s)
<1>1. s = [i \in 1 .. Len(s) |-> s[i]] /\ DOMAIN s = 1 .. Len(s) /\ Len(s) \in Nat
  OBVIOUS
<1>2. \A i \in 1 .. Len(s) : s[i] \in Range(s)
  BY <1>1 DEF Range
<1>3. QED
  BY <1>1, <1>2, SeqDef DEF IsSeq

LEMMA TwoSequences ==
  ASSUME NEW a, NEW b, IsSeq(a), IsSeq(b)
  PROVE  \E R : a \in Seq(R) /\ b \in Seq(R)
<1>1. a \in Seq(Range(a) \cup Range(b)) /\ b \in Seq(Range(a) \cup Range(b))
  BY DEF IsSeq
<1>2. QED
  BY <1>1

LEMMA FlatIsNested ==
  ASSUME NEW s, Flat(s)
  PROVE  Nested(s)
BY DEF Flat, Nested

(* One behind the other. *)
LEMMA Behind ==
  ASSUME NEW a, NEW b, Nested(a), Nested(b)
  PROVE  Nested(a \o b)
<1> DEFINE s == a \o b
           n == Len(a)
<1>0. PICK R : a \in Seq(R) /\ b \in Seq(R)
  BY TwoSequences DEF Nested
<1>1. a \in Seq(R) /\ b \in Seq(R) /\ s \in Seq(R) /\ n \in Nat /\ Len(b) \in Nat
  BY <1>0
<1>2. DOMAIN a = 1 .. n /\ DOMAIN b = 1 .. Len(b) /\ DOMAIN s = 1 .. n + Len(b)
  BY <1>1
<1>3. \A i \in 1 .. n : s[i] = a[i]
  BY <1>1
<1>4. \A i \in 1 .. Len(b) : s[n + i] = b[i]
  BY <1>1
<1>a. n \in Nat /\ Len(b) \in Nat
  BY <1>1
<1>5. \A i \in DOMAIN s : i \in 1 .. n \/ (i - n \in 1 .. Len(b) /\ s[i] = b[i - n])
  BY <1>1, <1>2, <1>4
<1> HIDE DEF s, n
<1>6. ASSUME NEW j \in DOMAIN s, s[j].do = "enter"
      PROVE  /\ s[j].size \in Nat \ {0}
             /\ j + s[j].size + 1 \in DOMAIN s /\ s[j + s[j].size + 1].do = "leave"
             /\ \A i \in j + 1 .. j + s[j].size :
                  s[i].do \in {"read", "list"} /\ (i > j + 1 => s[i].name # "SamplingRate")
  <2>1. CASE j \in 1 .. n
    <3>1. s[j] = a[j] /\ a[j].do = "enter"
      BY <1>1, <1>2, <1>3, <1>6, <2>1
    <3>2. /\ a[j].size \in Nat \ {0}
          /\ j + a[j].size + 1 \in DOMAIN a /\ a[j + a[j].size + 1].do = "leave"
          /\ \A i \in j + 1 .. j + a[j].size :
               a[i].do \in {"read", "list"} /\ (i > j + 1 => a[i].name # "SamplingRate")
      BY <1>2, <2>1, <3>1 DEF Nested
    <3>3. \A i \in j + 1 .. j + a[j].size : i \in 1 .. n
      BY <1>1, <1>2, <2>1, <3>1, <3>2
    <3>4. j + a[j].size + 1 \in 1 .. n
      BY <1>2, <3>2
    <3>5. QED
      BY <1>1, <1>2, <1>3, <3>1, <3>2, <3>3, <3>4
  <2>2. CASE j - n \in 1 .. Len(b)
    <3>1. PICK m \in 1 .. Len(b) : m = j - n
      BY <2>2
    <3>2. j = n + m /\ s[j] = b[m] /\ b[m].do = "enter" /\ b[m].size \in Nat
      BY <1>1, <1>2, <1>4, <1>6, <3>1 DEF Nested
    <3>a. PICK z \in Nat : z = b[m].size /\ z = s[j].size
      BY <3>2
    <3>3. /\ b[m].size \in Nat \ {0}
          /\ m + b[m].size + 1 \in DOMAIN b /\ b[m + b[m].size + 1].do = "leave"
          /\ \A i \in m + 1 .. m + b[m].size :
               b[i].do \in {"read", "list"} /\ (i > m + 1 => b[i].name # "SamplingRate")
      BY <1>2, <3>1, <3>2 DEF Nested
    <3>4. ASSUME NEW i \in j + 1 .. j + s[j].size
          PROVE  s[i].do \in {"read", "list"} /\ (i > j + 1 => s[i].name # "SamplingRate")
      <4>1. i - n \in m + 1 .. m + b[m].size /\ i - n \in 1 .. Len(b) /\ i \in DOMAIN s /\ i \notin 1 .. n
        <5>1. i \in j + 1 .. j + z /\ m + z + 1 \in 1 .. Len(b) /\ z = b[m].size
          BY <1>2, <3>a, <3>3, <3>4
        <5>2. i \in Int /\ m \in Int /\ j + 1 <= i /\ i <= j + z /\ m >= 1 /\ m + z + 1 <= Len(b) /\ j = n + m
          BY <1>a, <3>1, <3>2, <5>1
        <5>3. i - n \in m + 1 .. m + z
          BY <1>a, <5>2
        <5>4. i - n \in 1 .. Len(b) /\ i \in 1 .. n + Len(b) /\ i \notin 1 .. n
          BY <1>a, <5>2
        <5>5. QED
          BY <1>2, <5>1, <5>3, <5>4
      <4>2. s[i] = b[i - n]
        BY <1>5, <4>1
      <4>3. b[i - n].do \in {"read", "list"} /\ (i - n > m + 1 => b[i - n].name # "SamplingRate")
        BY <3>3, <4>1
      <4>4. i > j + 1 => i - n > m + 1
        BY <1>1, <3>1, <3>2
      <4>5. QED
        BY <4>2, <4>3, <4>4
    <3>5. j + s[j].size + 1 \in DOMAIN s /\ s[j + s[j].size + 1] = b[m + b[m].size + 1]
      <4>1. j + s[j].size + 1 = n + (m + b[m].size + 1)
        <5>1. j = n + m /\ m \in Int
          BY <3>1, <3>2
        <5>2. j + z + 1 = n + (m + z + 1)
          BY <1>a, <5>1
        <5>3. QED
          BY <3>a, <5>2
      <4>2. m + b[m].size + 1 \in 1 .. Len(b)
        BY <1>2, <3>3
      <4>3. QED
        <5>1. n + (m + b[m].size + 1) \in 1 .. n + Len(b)
          BY <1>a, <4>2
        <5>2. s[n + (m + b[m].size + 1)] = b[m + b[m].size + 1]
          BY <1>4, <4>2
        <5>3. QED
          BY <1>2, <4>1, <5>1, <5>2
    <3>6. QED
      BY <3>2, <3>3, <3>4, <3>5
  <2>3. QED
    BY <1>5, <2>1, <2>2
<1>7. ASSUME NEW k \in DOMAIN s, s[k].do = "leave"
      PROVE  \E j \in DOMAIN s : Opens(s, j, k)
  <2>1. CASE k \in 1 .. n
    <3>1. a[k].do = "leave"
      BY <1>3, <1>7, <2>1
    <3>2. PICK j \in DOMAIN a : Opens(a, j, k)
      BY <1>2, <2>1, <3>1 DEF Nested
    <3>3. j \in DOMAIN s /\ s[j] = a[j]
      BY <1>1, <1>2, <1>3
    <3>4. QED
      BY <3>2, <3>3 DEF Opens
  <2>2. CASE k \notin 1 .. n
    <3>1. PICK m \in 1 .. Len(b) : m = k - n /\ b[m].do = "leave"
      BY <1>5, <1>7, <2>2
    <3>2. PICK j \in DOMAIN b : Opens(b, j, m)
      BY <1>2, <3>1 DEF Nested
    <3>3. PICK z \in Nat : z = b[j].size
      BY <3>2 DEF Opens, Nested
    <3>4. n + j \in DOMAIN s /\ s[n + j] = b[j] /\ j \in Nat
      BY <1>1, <1>2, <1>4
    <3>5. k = n + m
      BY <1>1, <1>2, <3>1
    <3>6. m = j + b[j].size + 1 /\ b[j].do = "enter"
      BY <3>2 DEF Opens
    <3>7. k = (n + j) + s[n + j].size + 1
      BY <1>a, <3>3, <3>4, <3>5, <3>6
    <3>8. QED
      BY <3>4, <3>6, <3>7 DEF Opens
  <2>3. QED
    BY <2>1, <2>2
<1>8. IsSeq(s)
  BY <1>1, IsASequence
<1>9. Nested(s)
  BY <1>6, <1>7, <1>8 DEF Nested
<1>10. QED
  BY <1>9 DEF s

LEMMA SectionIsNested ==
  ASSUME NEW name, NEW body, Flat(body), body # <<>>, NoRates(body)
  PROVE  Nested(Section(name, body))
<1> DEFINE s == Section(name, body)
           n == Len(body)
           first == [do |-> "enter", name |-> name, size |-> n]
           last == [do |-> "leave"]
           R == Range(body) \cup {first, last}
<1>1. body \in Seq(Range(body)) /\ n \in Nat /\ n # 0 /\ DOMAIN body = 1 .. n
  BY EmptySeq DEF Flat, IsSeq
<1>2. first \in R /\ last \in R /\ body \in Seq(R)
  BY <1>1
<1>3. /\ s \in Seq(R) /\ Len(s) = n + 2
      /\ s[1] = first /\ s[n + 2] = last
      /\ \A i \in 2 .. n + 1 : s[i] = body[i - 1]
  <2>1. s = (<<first>> \o body) \o <<last>>
    BY DEF Section
  <2>2. <<first>> \in Seq(R) /\ <<last>> \in Seq(R) /\ Len(<<first>>) = 1 /\ Len(<<last>>) = 1
        /\ <<first>>[1] = first /\ <<last>>[1] = last
    BY <1>2
  <2> HIDE DEF first, last, s, n, R
  <2>3. PICK h : h = <<first>> \o body
    OBVIOUS
  <2>4. h \in Seq(R) /\ Len(h) = n + 1 /\ h[1] = first /\ \A i \in 2 .. n + 1 : h[i] = body[i - 1]
    BY <1>1, <1>2, <2>2, <2>3 DEF n
  <2>5. s = h \o <<last>>
    BY <2>1, <2>3
  <2>6. s = Append(h, last)
    BY <2>2, <2>4, <2>5, <1>2, AppendIsConcat
  <2>7. QED
    BY <1>1, <1>2, <2>4, <2>6
<1>4. DOMAIN s = 1 .. n + 2
  BY <1>1, <1>3
<1> HIDE DEF s, n
<1>5. \A i \in 2 .. n + 1 : s[i].do \in {"read", "list"} /\ (i > 2 => s[i].name # "SamplingRate")
  <2>1. SUFFICES ASSUME NEW i \in 2 .. n + 1
                 PROVE  s[i].do \in {"read", "list"} /\ (i > 2 => s[i].name # "SamplingRate")
    OBVIOUS
  <2>2. i - 1 \in 1 .. n /\ s[i] = body[i - 1] /\ (i > 2 => i - 1 > 1)
    BY <1>1, <1>3
  <2>3. body[i - 1].do \in {"read", "list"}
    BY <1>1, <2>2 DEF Flat
  <2>4. QED
    BY <1>1, <2>2, <2>3 DEF NoRates
<1>6. s[1].do = "enter" /\ s[1].size = n /\ s[n + 2].do = "leave"
  BY <1>3
<1>7. ASSUME NEW j \in DOMAIN s, s[j].do = "enter"
      PROVE  j = 1
  BY <1>1, <1>4, <1>5, <1>6, <1>7
<1>8. ASSUME NEW k \in DOMAIN s, s[k].do = "leave"
      PROVE  Opens(s, 1, k) /\ 1 \in DOMAIN s
  <2>1. k = n + 2
    BY <1>1, <1>4, <1>5, <1>6, <1>8
  <2>2. QED
    BY <1>1, <1>4, <1>6, <2>1 DEF Opens
<1>9. IsSeq(s)
  BY <1>3, IsASequence
<1>10. Nested(s)
  BY <1>1, <1>9, <1>4, <1>5, <1>6, <1>7, <1>8 DEF Nested
<1>11. QED
  BY <1>10 DEF s

(* Rows of settings. *)
LEMMA SettingsAreFlat ==
  ASSUME NEW names, IsSeq(names), NEW type
  PROVE  /\ Flat(Settings(names, type)) /\ Len(Settings(names, type)) = Len(names)
         /\ \A i \in DOMAIN names : Settings(names, type)[i].name = names[i]
<1>1. DOMAIN names = 1 .. Len(names) /\ Len(names) \in Nat
  BY DEF IsSeq
<1>2. Settings(names, type) = [i \in 1 .. Len(names) |-> Setting(names[i], type)]
  BY <1>1 DEF Settings
<1>3. PICK R : R = {Setting(names[i], type) : i \in 1 .. Len(names)}
  OBVIOUS
<1>4. Settings(names, type) \in Seq(R) /\ Len(Settings(names, type)) = Len(names)
  BY <1>1, <1>2, <1>3, SeqDef
<1>5. \A i \in DOMAIN names : Settings(names, type)[i].name = names[i] /\ Settings(names, type)[i].do = "read"
  BY <1>1, <1>2 DEF Setting
<1>6. QED
  BY <1>1, <1>2, <1>4, <1>5, IsASequence DEF Flat

(* In a section: no rate but at its start. *)
Plainly(s) == Flat(s) /\ s # <<>> /\ \A k \in DOMAIN s : s[k].name # "SamplingRate"

LEMMA PlainSettings ==
  ASSUME NEW names, IsSeq(names), NEW type, names # <<>>, \A i \in DOMAIN names : names[i] # "SamplingRate"
  PROVE  Plainly(Settings(names, type))
<1>1. Flat(Settings(names, type)) /\ Len(Settings(names, type)) = Len(names)
  BY SettingsAreFlat
<1>2. DOMAIN Settings(names, type) = DOMAIN names
  BY DEF Settings
<1>3. Settings(names, type) # <<>>
  BY <1>1, EmptySeq DEF IsSeq
<1>4. QED
  BY <1>1, <1>2, <1>3, SettingsAreFlat DEF Plainly

LEMMA PlainSection ==
  ASSUME NEW name, NEW body, Plainly(body)
  PROVE  Nested(Section(name, body))
BY SectionIsNested DEF Plainly, NoRates

LEMMA OneIsFlat ==
  ASSUME NEW do \in {"read", "list"}, NEW name, NEW type
  PROVE  LET s == <<[do |-> do, name |-> name, type |-> type]>> IN
         Flat(s) /\ s # <<>> /\ NoRates(s) /\ (name # "SamplingRate" => Plainly(s))
<1> DEFINE x == [do |-> do, name |-> name, type |-> type]
<1>1. <<x>> \in Seq({x}) /\ Len(<<x>>) = 1 /\ <<x>>[1] = x /\ DOMAIN <<x>> = {1}
  OBVIOUS
<1>2. x.do = do /\ x.name = name
  OBVIOUS
<1>3. IsSeq(<<x>>)
  BY <1>1, IsASequence
<1> HIDE DEF x
<1>4. Flat(<<x>>) /\ <<x>> # <<>> /\ NoRates(<<x>>) /\ (name # "SamplingRate" => Plainly(<<x>>))
  BY <1>1, <1>2, <1>3 DEF Flat, NoRates, Plainly
<1>5. QED
  BY <1>4 DEF x

(* What is written out item by item. *)
PlainItem(x) == x.do \in {"read", "list"} /\ x.name # "SamplingRate"
LEMMA PlainRow ==
  ASSUME NEW s, IsSeq(s), s # <<>>, \A x \in Range(s) : PlainItem(x)
  PROVE  Plainly(s)
BY DEF Plainly, Flat, PlainItem, Range

(* A flat row behind another, where the second names no rate either. *)
LEMMA FlatBehind ==
  ASSUME NEW a, NEW b, Plainly(a), Plainly(b)
  PROVE  Plainly(a \o b)
<1> DEFINE s == a \o b
           n == Len(a)
<1>0. PICK R : a \in Seq(R) /\ b \in Seq(R)
  BY TwoSequences DEF Flat, Plainly
<1>1. a \in Seq(R) /\ b \in Seq(R) /\ s \in Seq(R) /\ n \in Nat /\ Len(b) \in Nat
  BY <1>0
<1>2. DOMAIN a = 1 .. n /\ DOMAIN b = 1 .. Len(b) /\ DOMAIN s = 1 .. n + Len(b)
  BY <1>1
<1>3. \A i \in 1 .. n : s[i] = a[i]
  BY <1>1
<1>4. \A i \in 1 .. Len(b) : s[n + i] = b[i]
  BY <1>1
<1> HIDE DEF s, n
<1>5. ASSUME NEW k \in DOMAIN s
      PROVE  s[k].name # "SamplingRate"
  <2>1. CASE k \in 1 .. n
    BY <1>1, <1>2, <1>3, <1>5, <2>1 DEF Plainly
  <2>2. CASE k \notin 1 .. n
    <3>1. PICK m \in 1 .. Len(b) : k = n + m
      <4>0. n \in Nat /\ Len(b) \in Nat /\ k \in 1 .. n + Len(b)
        BY <1>1, <1>2
      <4>1. k - n \in 1 .. Len(b) /\ k = n + (k - n)
        BY <4>0, <2>2
      <4>2. QED
        BY <4>1
    <3>2. s[k] = b[m] /\ b # <<>>
      BY <1>1, <1>2, <1>4, <3>1
    <3>3. QED
      BY <1>1, <1>2, <3>1, <3>2 DEF Plainly
  <2>3. QED
    BY <2>1, <2>2
<1>6. \A k \in DOMAIN s : s[k].do \in {"read", "list"}
  <2>1. ASSUME NEW k \in DOMAIN s, k \notin 1 .. n
        PROVE  s[k].do \in {"read", "list"}
    <3>0. n \in Nat /\ Len(b) \in Nat /\ k \in 1 .. n + Len(b)
      BY <1>1, <1>2
    <3>1. k - n \in 1 .. Len(b) /\ k = n + (k - n)
      BY <3>0, <2>1
    <3>2. s[k] = b[k - n]
      BY <1>4, <3>1
    <3>3. QED
      BY <1>2, <3>1, <3>2 DEF Plainly, Flat
  <2>2. QED
    BY <1>2, <1>3, <2>1 DEF Plainly, Flat
<1>7. IsSeq(s)
  BY <1>1, IsASequence
<1>8. Plainly(s)
  <2>1. a # <<>> /\ 1 \in DOMAIN s
    BY <1>0, <1>1, <1>2, EmptySeq DEF Plainly
  <2>2. QED
    BY <1>1, <1>5, <1>6, <1>7, <2>1 DEF Flat, Plainly
<1>9. QED
  BY <1>8 DEF s

(* The parts of the program. *)
LEMMA SessionLimitsAreFlat == Flat(SessionLimits)
<1> DEFINE names ==
      <<"MaxRequestAge", "MaxSessionCount", "MinSessionTimeout", "MaxSessionTimeout",
        "MaxBrowseContinuationPoints", "MaxHistoryContinuationPoints", "MinPublishingInterval",
        "MaxPublishingInterval", "MinKeepAliveInterval">>
<1>1. IsSeq(names)
  BY DEF IsSeq, Range
<1> HIDE DEF names
<1>2. SessionLimits = Settings(names, "number")
  BY DEF SessionLimits, names
<1>3. QED
  BY <1>1, <1>2, SettingsAreFlat

LEMMA SubscriptionLimitsAreFlat == Flat(SubscriptionLimits)
<1> DEFINE names ==
      <<"MinSubscriptionLifetime", "MaxSubscriptionLifetime", "MaxRetransmitionQueueSize",
        "MaxNotificationsPerPublish", "MaxDataQueueSize", "MaxEventQueueSize", "MaxSubscriptionCount",
        "MaxMonitoredItemCount", "MaxMonitoredItemPerSubscriptionCount", "MinSupportedSampleRate">>
<1>1. IsSeq(names)
  BY DEF IsSeq, Range
<1> HIDE DEF names
<1>2. SubscriptionLimits = Settings(names, "number")
  BY DEF SubscriptionLimits, names
<1>3. QED
  BY <1>1, <1>2, SettingsAreFlat

LEMMA UserIdentityTokensAreNested == Nested(UserIdentityTokens)
<1> DEFINE names1 ==
      <<"EnableAnonymous", "EnableUserPw">>
           part1 == Settings(names1, "bool")
<1>1. Plainly(part1)
  <2>1. IsSeq(names1) /\ names1 # <<>>
    BY DEF IsSeq, Range
  <2>2. \A i \in DOMAIN names1 : names1[i] # "SamplingRate"
    OBVIOUS
  <2> HIDE DEF names1
  <2>3. QED
    BY <2>1, <2>2, PlainSettings
<1>2. UserIdentityTokens = Section("UserIdentityTokens", part1)
  BY DEF UserIdentityTokens, Setting, List
<1> HIDE DEF part1
<1>3. QED
  BY <1>2, <1>1, PlainSection

LEMMA SerializerIsNested == Nested(Serializer)
<1> DEFINE names1 ==
      <<"MaxAlloc", "MaxStringLength", "MaxByteStringLength", "MaxArrayLength", "MaxMessageSize">>
           part1 == Settings(names1, "number")
<1>1. Plainly(part1)
  <2>1. IsSeq(names1) /\ names1 # <<>>
    BY DEF IsSeq, Range
  <2>2. \A i \in DOMAIN names1 : names1[i] # "SamplingRate"
    OBVIOUS
  <2> HIDE DEF names1
  <2>3. QED
    BY <2>1, <2>2, PlainSettings
<1>2. Serializer = Section("Serializer", part1)
  BY DEF Serializer, Setting, List
<1> HIDE DEF part1
<1>3. QED
  BY <1>2, <1>1, PlainSection

LEMMA ThreadPoolSettingsAreNested == Nested(ThreadPoolSettings)
<1> DEFINE names1 ==
      <<"MinSizeTransactionManager", "MaxSizeTransactionManager", "MinSizeSubscriptionManager",
        "MaxSizeSubscriptionManager">>
           part1 == Settings(names1, "number")
<1>1. Plainly(part1)
  <2>1. IsSeq(names1) /\ names1 # <<>>
    BY DEF IsSeq, Range
  <2>2. \A i \in DOMAIN names1 : names1[i] # "SamplingRate"
    OBVIOUS
  <2> HIDE DEF names1
  <2>3. QED
    BY <2>1, <2>2, PlainSettings
<1>2. ThreadPoolSettings = Section("ThreadPoolSettings", part1)
  BY DEF ThreadPoolSettings, Setting, List
<1> HIDE DEF part1
<1>3. QED
  BY <1>2, <1>1, PlainSection

LEMMA AdditionalServerEntriesAreNested == Nested(AdditionalServerEntries)
<1> DEFINE part1 == <<[do |-> "list", name |-> "ApplicationDescription", type |-> "any"]>>
<1>1. Plainly(part1)
  BY OneIsFlat
<1>2. AdditionalServerEntries = Section("AdditionalServerEntries", part1)
  BY DEF AdditionalServerEntries, Setting, List
<1> HIDE DEF part1
<1>3. QED
  BY <1>2, <1>1, PlainSection

LEMMA StackThreadPoolSettingsAreNested == Nested(StackThreadPoolSettings)
<1> DEFINE part1 == <<[do |-> "read", name |-> "Enabled", type |-> "bool"]>>
           names2 ==
      <<"MinThreads", "MaxThreads", "MaxJobs">>
           part2 == Settings(names2, "number")
           item1 == Setting("BlockOnAdd", "bool")
           item2 == Setting("Timeout", "timeout")
           part3 == <<item1, item2>>
<1>1. Plainly(part1)
  BY OneIsFlat
<1>2. Plainly(part2)
  <2>1. IsSeq(names2) /\ names2 # <<>>
    BY DEF IsSeq, Range
  <2>2. \A i \in DOMAIN names2 : names2[i] # "SamplingRate"
    OBVIOUS
  <2> HIDE DEF names2
  <2>3. QED
    BY <2>1, <2>2, PlainSettings
<1>3. Plainly(part3)
  <2>1. PlainItem(item1) /\ PlainItem(item2)
    BY DEF PlainItem, Setting, List
  <2> HIDE DEF item1, item2
  <2>2. IsSeq(part3) /\ part3 # <<>> /\ \A x \in Range(part3) : PlainItem(x)
    BY <2>1 DEF IsSeq, Range
  <2>3. QED
    BY <2>2, PlainRow
<1>4. StackThreadPoolSettings = Section("StackThreadPoolSettings", part1 \o part2 \o part3)
  BY DEF StackThreadPoolSettings, Setting, List
<1> HIDE DEF part1, part2, part3
<1>5. Plainly(part1 \o part2)
  BY <1>1, <1>2, FlatBehind
<1>6. Plainly(part1 \o part2 \o part3)
  BY <1>5, <1>3, FlatBehind
<1>7. QED
  BY <1>4, <1>6, PlainSection

LEMMA TraceIsNested == Nested(Trace)
<1> DEFINE item1 == Setting("UaStackTraceEnabled", "bool")
           item2 == Setting("UaStackTraceLevel", "choice")
           item3 == Setting("UaAppTraceEnabled", "bool")
           item4 == Setting("UaAppTraceLevel", "choice")
           item5 == Setting("UaAppTraceMaxEntries", "number")
           item6 == Setting("UaAppTraceMaxBackup", "number")
           item7 == Setting("UaAppTraceFile", "place holder")
           part1 == <<item1, item2, item3, item4, item5, item6, item7>>
<1>1. Plainly(part1)
  <2>1. PlainItem(item1) /\ PlainItem(item2) /\ PlainItem(item3) /\ PlainItem(item4) /\ PlainItem(item5) /\ PlainItem(item6) /\ PlainItem(item7)
    BY DEF PlainItem, Setting, List
  <2> HIDE DEF item1, item2, item3, item4, item5, item6, item7
  <2>2. IsSeq(part1) /\ part1 # <<>> /\ \A x \in Range(part1) : PlainItem(x)
    BY <2>1 DEF IsSeq, Range
  <2>3. QED
    BY <2>2, PlainRow
<1>2. Trace = Section("Trace", part1)
  BY DEF Trace, Setting, List
<1> HIDE DEF part1
<1>3. QED
  BY <1>2, <1>1, PlainSection

LEMMA RedundancySettingsAreNested == Nested(RedundancySettings)
<1> DEFINE item1 == Setting("RedundancySupport", "choice")
           item2 == List("ServerUri", "text")
           part1 == <<item1, item2>>
<1>1. Plainly(part1)
  <2>1. PlainItem(item1) /\ PlainItem(item2)
    BY DEF PlainItem, Setting, List
  <2> HIDE DEF item1, item2
  <2>2. IsSeq(part1) /\ part1 # <<>> /\ \A x \in Range(part1) : PlainItem(x)
    BY <2>1 DEF IsSeq, Range
  <2>3. QED
    BY <2>2, PlainRow
<1>2. RedundancySettings = Section("RedundancySettings", part1)
  BY DEF RedundancySettings, Setting, List
<1> HIDE DEF part1
<1>3. QED
  BY <1>2, <1>1, PlainSection

LEMMA DiscoveryRegistrationIsNested == Nested(DiscoveryRegistration)
<1> DEFINE part1 == <<[do |-> "read", name |-> "AutomaticCertificateExchange", type |-> "bool"]>>
           names2 ==
      <<"DiscoveryServerCertificateFile", "DiscoveryServerStoreName", "DiscoveryServerCertificateName">>
           part2 == Settings(names2, "text")
           item1 == Setting("RegistrationInterval", "number")
           item2 == List("Url", "first")
           part3 == <<item1, item2>>
<1>1. Plainly(part1)
  BY OneIsFlat
<1>2. Plainly(part2)
  <2>1. IsSeq(names2) /\ names2 # <<>>
    BY DEF IsSeq, Range
  <2>2. \A i \in DOMAIN names2 : names2[i] # "SamplingRate"
    OBVIOUS
  <2> HIDE DEF names2
  <2>3. QED
    BY <2>1, <2>2, PlainSettings
<1>3. Plainly(part3)
  <2>1. PlainItem(item1) /\ PlainItem(item2)
    BY DEF PlainItem, Setting, List
  <2> HIDE DEF item1, item2
  <2>2. IsSeq(part3) /\ part3 # <<>> /\ \A x \in Range(part3) : PlainItem(x)
    BY <2>1 DEF IsSeq, Range
  <2>3. QED
    BY <2>2, PlainRow
<1>4. DiscoveryRegistration = Section("DiscoveryRegistration", part1 \o part2 \o part3)
  BY DEF DiscoveryRegistration, Setting, List
<1> HIDE DEF part1, part2, part3
<1>5. Plainly(part1 \o part2)
  BY <1>1, <1>2, FlatBehind
<1>6. Plainly(part1 \o part2 \o part3)
  BY <1>5, <1>3, FlatBehind
<1>7. QED
  BY <1>4, <1>6, PlainSection

LEMMA AvailableSamplingRatesAreNested == Nested(AvailableSamplingRates)
<1> DEFINE body == <<[do |-> "list", name |-> "SamplingRate", type |-> "number"]>>
<1>1. Flat(body) /\ body # <<>> /\ NoRates(body)
  BY OneIsFlat
<1>2. AvailableSamplingRates = Section("AvailableSamplingRates", body)
  BY DEF AvailableSamplingRates, List
<1> HIDE DEF body
<1>3. QED
  BY <1>1, <1>2, SectionIsNested

LEMMA ProfilesAreNested == Nested(Profiles)
<1> DEFINE locales == <<[do |-> "list", name |-> "LocaleId", type |-> "text"]>>
           uris == <<[do |-> "list", name |-> "ServerProfileUri", type |-> "text"]>>
           audit == <<[do |-> "read", name |-> "IsAuditActivated", type |-> "bool"]>>
           first == Section("AvailableLocaleIds", locales)
           second == Section("AvailableServerProfiles", uris)
<1>1. Plainly(locales) /\ Plainly(uris) /\ Flat(audit)
  BY OneIsFlat
<1>2. Profiles = first \o second \o audit
  BY DEF Profiles, Setting, List
<1> HIDE DEF locales, uris, audit
<1>3. Nested(first) /\ Nested(second) /\ Nested(audit)
  BY <1>1, PlainSection, FlatIsNested
<1> HIDE DEF first, second
<1>4. Nested(first \o second)
  BY <1>3, Behind
<1>5. QED
  BY <1>2, <1>3, <1>4, Behind

LEMMA ServerNamesAreFlat == Nested(ServerNames)
<1> DEFINE names == <<"ApplicationUri", "ManufacturerName", "ApplicationName", "SoftwareVersion", "BuildNumber">>
           places == <<"ServerUri", "ServerName">>
<1>1. IsSeq(names) /\ IsSeq(places)
  BY DEF IsSeq, Range
<1>2. ServerNames = Settings(names, "text") \o Settings(places, "place holder")
  BY DEF ServerNames
<1> HIDE DEF names, places
<1>3. Nested(Settings(names, "text")) /\ Nested(Settings(places, "place holder"))
  BY <1>1, SettingsAreFlat, FlatIsNested
<1>4. QED
  BY <1>2, <1>3, Behind

LEMMA RejectedCertificatesAreFlat == Nested(RejectedCertificates)
<1>1. RejectedCertificates = <<[do |-> "read", name |-> "RejectedCertificatesDirectory", type |-> "text"]>>
  BY DEF RejectedCertificates, Setting
<1>2. QED
  BY <1>1, OneIsFlat, FlatIsNested

(* The whole program. *)
LEMMA ProgramIsNested == Nested(Instructions)
<1>1. Nested(SessionLimits) /\ Nested(SubscriptionLimits)
  BY SessionLimitsAreFlat, SubscriptionLimitsAreFlat, FlatIsNested
<1>2. Nested(SessionLimits \o SubscriptionLimits)
  BY <1>1, Behind
<1> DEFINE first3 == SessionLimits \o SubscriptionLimits \o Profiles
<1>3. Nested(first3)
  BY <1>2, ProfilesAreNested, Behind
<1> HIDE DEF first3
<1> DEFINE first4 == first3 \o RedundancySettings
<1>4. Nested(first4)
  BY <1>3, RedundancySettingsAreNested, Behind
<1> HIDE DEF first4
<1> DEFINE first5 == first4 \o AdditionalServerEntries
<1>5. Nested(first5)
  BY <1>4, AdditionalServerEntriesAreNested, Behind
<1> HIDE DEF first5
<1> DEFINE first6 == first5 \o AvailableSamplingRates
<1>6. Nested(first6)
  BY <1>5, AvailableSamplingRatesAreNested, Behind
<1> HIDE DEF first6
<1> DEFINE first7 == first6 \o UserIdentityTokens
<1>7. Nested(first7)
  BY <1>6, UserIdentityTokensAreNested, Behind
<1> HIDE DEF first7
<1> DEFINE first8 == first7 \o ServerNames
<1>8. Nested(first8)
  BY <1>7, ServerNamesAreFlat, Behind
<1> HIDE DEF first8
<1> DEFINE first9 == first8 \o Serializer
<1>9. Nested(first9)
  BY <1>8, SerializerIsNested, Behind
<1> HIDE DEF first9
<1> DEFINE first10 == first9 \o StackThreadPoolSettings
<1>10. Nested(first10)
  BY <1>9, StackThreadPoolSettingsAreNested, Behind
<1> HIDE DEF first10
<1> DEFINE first11 == first10 \o Trace
<1>11. Nested(first11)
  BY <1>10, TraceIsNested, Behind
<1> HIDE DEF first11
<1> DEFINE first12 == first11 \o ThreadPoolSettings
<1>12. Nested(first12)
  BY <1>11, ThreadPoolSettingsAreNested, Behind
<1> HIDE DEF first12
<1> DEFINE first13 == first12 \o DiscoveryRegistration
<1>13. Nested(first13)
  BY <1>12, DiscoveryRegistrationIsNested, Behind
<1> HIDE DEF first13
<1> DEFINE first14 == first13 \o RejectedCertificates
<1>14. Nested(first14)
  BY <1>13, RejectedCertificatesAreFlat, Behind
<1> HIDE DEF first14
<1>15. Instructions = first14
  BY DEF Instructions, first3, first4, first5, first6, first7, first8, first9, first10, first11, first12, first13, first14
<1>16. QED
  BY <1>14, <1>15

-----------------------------------------------------------------------------
(* Where the cursor stands: in the section whose instructions are being
   carried out. *)
Sections == {j \in DOMAIN Instructions : Instructions[j].do = "enter"}
End(j) == j + Instructions[j].size + 1
Inside(j, i) == j < i /\ i <= End(j)

LEMMA ProgramIsASequence ==
  /\ Len(Instructions) \in Nat /\ DOMAIN Instructions = 1 .. Len(Instructions)
  /\ AfterSettings = Len(Instructions) + 1
  /\ Sections \subseteq DOMAIN Instructions /\ Kept \subseteq DOMAIN Instructions
<1>1. Instructions \in Seq(Range(Instructions))
  BY ProgramIsNested DEF Nested, IsSeq
<1>2. QED
  BY <1>1 DEF AfterSettings, Sections, Kept

LEMMA SectionIs ==
  ASSUME NEW j \in Sections
  PROVE  /\ Instructions[j].size \in Nat \ {0} /\ End(j) \in Nat
         /\ End(j) \in DOMAIN Instructions /\ Instructions[End(j)].do = "leave"
         /\ \A i \in Nat : j < i /\ i < End(j) =>
              i \in Kept /\ (i > j + 1 => Instructions[i].name # "SamplingRate")
<1>1. /\ Instructions[j].size \in Nat \ {0}
      /\ End(j) \in DOMAIN Instructions /\ Instructions[End(j)].do = "leave"
      /\ \A i \in j + 1 .. j + Instructions[j].size :
           Instructions[i].do \in {"read", "list"} /\ (i > j + 1 => Instructions[i].name # "SamplingRate")
  BY ProgramIsNested DEF Nested, Sections, End
<1>2. j \in Nat /\ j > 0 /\ Len(Instructions) \in Nat
  BY ProgramIsASequence
<1>3. PICK z \in Nat : z = Instructions[j].size
  BY <1>1
<1>4. End(j) = j + z + 1 /\ End(j) \in 1 .. Len(Instructions)
  BY <1>1, <1>3, ProgramIsASequence DEF End
<1>5. ASSUME NEW i \in Nat, j < i, i < End(j)
      PROVE  i \in Kept /\ (i > j + 1 => Instructions[i].name # "SamplingRate")
  <2>1. i \in j + 1 .. j + Instructions[j].size /\ i \in DOMAIN Instructions
    BY <1>2, <1>3, <1>4, <1>5, ProgramIsASequence
  <2>2. QED
    BY <1>1, <2>1 DEF Kept
<1>6. End(j) \in Nat
  <2>1. \A k \in 1 .. Len(Instructions) : k \in Nat
    BY <1>2
  <2>2. QED
    BY <1>4, <2>1
<1>7. QED
  BY <1>1, <1>5, <1>6

LEMMA LeaveIsTheEnd ==
  ASSUME NEW k \in DOMAIN Instructions, Instructions[k].do = "leave"
  PROVE  \E j \in Sections : k = End(j) /\ Inside(j, k)
<1>1. PICK j \in DOMAIN Instructions : Opens(Instructions, j, k)
  BY ProgramIsNested DEF Nested
<1>2. j \in Sections /\ k = End(j)
  BY <1>1 DEF Opens, Sections, End
<1>3. Instructions[j].size \in Nat /\ j \in Nat
  BY <1>2, SectionIs, ProgramIsASequence
<1>4. QED
  BY <1>2, <1>3 DEF Inside, End

(* Sections do not overlap. *)
LEMMA SectionsAreApart ==
  ASSUME NEW j \in Sections, NEW k \in Sections, NEW i \in Nat, Inside(j, i), Inside(k, i)
  PROVE  j = k
<1>1. ASSUME NEW a \in Sections, NEW b \in Sections, Inside(a, i), Inside(b, i), a < b
      PROVE  FALSE
  <2>1. a \in Nat /\ b \in Nat /\ End(a) \in Nat /\ (b < End(a) \/ b = End(a))
    BY <1>1, ProgramIsASequence, SectionIs DEF Inside
  <2>2. Instructions[b].do = "enter"
    BY DEF Sections
  <2>3. a \in Nat /\ b \in Nat /\ End(a) \in Nat
    BY ProgramIsASequence, SectionIs
  <2>4. b # End(a)
    BY <2>2, SectionIs
  <2>5. b \in Kept
    BY <1>1, <2>1, <2>3, <2>4, SectionIs
  <2>6. QED
    BY <2>2, <2>5 DEF Kept
<1>2. j \in Nat /\ k \in Nat
  BY ProgramIsASequence
<1>3. QED
  BY <1>1, <1>2

(* Nothing but the instructions of a section stands inside it. *)
LEMMA NotInside ==
  ASSUME NEW j \in Sections, NEW k \in Sections
  PROVE  ~ Inside(j, k)
<1>1. SUFFICES ASSUME Inside(j, k)
               PROVE  FALSE
  OBVIOUS
<1>2. k \in Nat /\ End(j) \in Nat /\ Instructions[k].do = "enter"
  BY ProgramIsASequence, SectionIs DEF Sections
<1>3. k # End(j)
  BY <1>2, SectionIs
<1>4. k \in Kept
  BY <1>1, <1>2, <1>3, SectionIs DEF Inside
<1>5. QED
  BY <1>2, <1>4 DEF Kept

LEMMA EnclosingIs ==
  ASSUME NEW i \in Kept
  PROVE  /\ \A j \in Sections : Inside(j, i) => Enclosing[i] = <<Instructions[j].name>>
         /\ (\A j \in Sections : ~ Inside(j, i)) => Enclosing[i] = <<>>
<1> DEFINE opened == {j \in 1 .. i - 1 : Instructions[j].do = "enter" /\ i <= j + Instructions[j].size}
<1>1. Enclosing[i] = IF opened = {} THEN <<>> ELSE <<Instructions[CHOOSE j \in opened : TRUE].name>>
  BY DEF Enclosing
<1>2. i \in Nat /\ i \in DOMAIN Instructions /\ Instructions[i].do # "leave"
  BY ProgramIsASequence DEF Kept
<1>3. \A j \in opened : j \in Sections /\ Inside(j, i)
  <2>1. SUFFICES ASSUME NEW j \in opened
                 PROVE  j \in Sections /\ Inside(j, i)
    OBVIOUS
  <2>2. j \in Sections /\ j \in Nat /\ j < i /\ i <= j + Instructions[j].size
    BY <1>2, ProgramIsASequence DEF Sections
  <2>3. PICK z \in Nat : z = Instructions[j].size
    BY <2>2, SectionIs
  <2>4. QED
    BY <1>2, <2>2, <2>3 DEF Inside, End
<1>4. \A j \in Sections : Inside(j, i) => j \in opened
  <2>1. SUFFICES ASSUME NEW j \in Sections, Inside(j, i)
                 PROVE  j \in opened
    OBVIOUS
  <2>2. i # End(j)
    BY <1>2, SectionIs
  <2>3. PICK z \in Nat : z = Instructions[j].size
    BY SectionIs
  <2>4. j \in Nat /\ j > 0 /\ j < i /\ i <= j + z + 1 /\ i # j + z + 1
    BY <2>1, <2>2, <2>3, ProgramIsASequence DEF Inside, End
  <2>5. QED
    BY <1>2, <2>3, <2>4 DEF Sections
<1> HIDE DEF opened
<1>5. ASSUME NEW j \in Sections, Inside(j, i)
      PROVE  Enclosing[i] = <<Instructions[j].name>>
  <2>1. opened # {} /\ (CHOOSE k \in opened : TRUE) \in opened
    BY <1>4, <1>5
  <2>2. (CHOOSE k \in opened : TRUE) = j
    BY <1>2, <1>3, <1>5, <2>1, SectionsAreApart
  <2>3. QED
    BY <1>1, <2>1, <2>2
<1>6. QED
  BY <1>1, <1>3, <1>5

-----------------------------------------------------------------------------
Before(p) == {i \in Kept : i < p}

CursorInv ==
  /\ \A j \in Sections : Inside(j, position) => cursor = <<Instructions[j].name>> /\ Present(cursor)
  /\ (\A j \in Sections : ~ Inside(j, position)) => cursor = <<>>
MembersInv == members = UNION {Written(i) : i \in Before(position)}

(* What the array of the endpoints has before it is cut. *)
Serves(u) == u.certificate \in files /\ ~ SecurityIsBad(u.security)
Done(k) ==
  uaEndpoints[k] # NoEndpoint => uaEndpoints[k] = Configured(document.endpoints[k]) /\ Serves(uaEndpoints[k])
Filling ==
  /\ IsSeq(uaEndpoints) /\ Len(uaEndpoints) <= Len(document.endpoints)
  /\ \A k \in DOMAIN uaEndpoints : Done(k)
  /\ successCount \in 0 .. Len(uaEndpoints)
  /\ successCount = Len(uaEndpoints) => \A k \in DOMAIN uaEndpoints : uaEndpoints[k] # NoEndpoint

EndpointsAreWritten ==
  ret = "Good" =>
    /\ uaEndpoints # <<>>
    /\ \A k \in DOMAIN uaEndpoints : uaEndpoints[k] # NoEndpoint => Serves(uaEndpoints[k])
    /\ Len(uaEndpoints) = Len(document.endpoints) =>
         uaEndpoints = [k \in DOMAIN document.endpoints |-> Configured(document.endpoints[k])]

XmlInv ==
  /\ position \in 0 .. AfterSettings + 1
  /\ IsSeq(document.endpoints)
  /\ document.root => CursorInv /\ MembersInv
  /\ position <= AfterSettings => Filling
  /\ Loaded /\ document.root => EndpointsAreWritten

LEMMA SettingsEnd ==
  ASSUME XmlInv, document.root, position >= AfterSettings
  PROVE  cursor = <<>> /\ members = UNION {Written(i) : i \in Kept}
<1>1. position \in Nat /\ Len(Instructions) \in Nat /\ AfterSettings = Len(Instructions) + 1
  BY ProgramIsASequence DEF XmlInv
<1>2. \A j \in Sections : ~ Inside(j, position)
  BY <1>1, SectionIs, ProgramIsASequence DEF Inside
<1>3. Before(position) = Kept
  BY <1>1, ProgramIsASequence DEF Before
<1>4. QED
  BY <1>2, <1>3 DEF XmlInv, CursorInv, MembersInv

(* What the cursor finds is what is written. *)
LEMMA WrittenHere ==
  ASSUME CursorInv, position \in Kept
  PROVE  Written(position) =
           IF Instructions[position].do = "list"
           THEN IF Present(Element) THEN {<<position, Filled(Contents(Element), Instruction.type)>>} ELSE {}
           ELSE IF Present(Element) THEN Member(position, Contents(Element)[1], Instruction.type)
                ELSE IfMissing(position)
<1>1. Enclosing[position] = cursor /\ (cursor # <<>> => Present(cursor))
  BY EnclosingIs DEF CursorInv
<1>2. Path[position] = Element
  BY <1>1 DEF Path, Element, Instruction
<1>3. ~ (Enclosing[position] # <<>> /\ ~ Present(Enclosing[position]))
  BY <1>1
<1>4. CASE Instructions[position].do = "list"
  <2>1. PICK path : path = Path[position] /\ path = Element
    BY <1>2
  <2>2. Written(position) = IF Present(path) THEN {<<position, Filled(Contents(path), Instruction.type)>>} ELSE {}
    BY <1>3, <1>4, <2>1 DEF Written, Instruction
  <2>3. QED
    BY <1>4, <2>1, <2>2
<1>5. CASE Instructions[position].do # "list" /\ ~ Present(Element)
  BY <1>2, <1>3, <1>5 DEF Written, Instruction
<1>6. CASE Instructions[position].do # "list" /\ Present(Element)
  BY <1>2, <1>3, <1>6 DEF Written, Instruction
<1>7. QED
  BY <1>4, <1>5, <1>6

(* The instruction behind one that is kept is in the same section. *)
LEMMA NextIsInside ==
  ASSUME NEW p \in Kept, NEW j \in Sections
  PROVE  Inside(j, p + 1) <=> Inside(j, p)
<1>1. p \in Nat /\ j \in Nat /\ End(j) \in Nat
  BY ProgramIsASequence, SectionIs
<1>2. p # j /\ p # End(j)
  BY SectionIs DEF Kept, Sections
<1>3. QED
  BY <1>1, <1>2 DEF Inside

LEMMA BeforeNext ==
  ASSUME NEW p \in Nat
  PROVE  Before(p + 1) = IF p \in Kept THEN Before(p) \cup {p} ELSE Before(p)
<1>1. \A i \in Kept : i \in Nat
  BY ProgramIsASequence
<1>2. \A i \in Kept : i < p + 1 <=> i < p \/ i = p
  BY <1>1
<1>3. QED
  BY <1>2 DEF Before

(* One more instruction carried out. *)
LEMMA OneMore ==
  ASSUME MembersInv, position \in Kept, position \in Nat, UNCHANGED document,
         position' = position + 1, members' = members \cup Written(position)
  PROVE  MembersInv'
<1>1. Before(position + 1) = Before(position) \cup {position}
  BY BeforeNext
<1>2. \A i \in Kept : Written(i)' = Written(i)
  BY DEF Written, Present, Contents
<1>3. UNION {Written(i) : i \in Before(position + 1)} = members \cup Written(position)
  BY <1>1 DEF MembersInv
<1>4. {Written(i)' : i \in Before(position')} = {Written(i) : i \in Before(position + 1)}
  BY <1>2 DEF Before
<1>5. QED
  BY <1>3, <1>4 DEF MembersInv

LEMMA ReadStep ==
  ASSUME XmlInv, document.root, ReadSetting \/ ReadList
  PROVE  (CursorInv /\ MembersInv)'
<1>1. position \in Kept /\ position \in Nat /\ position' = position + 1 /\ UNCHANGED <<document, cursor>>
  BY ProgramIsASequence DEF ReadSetting, ReadList, At, Kept, XmlInv
<1>2. CursorInv /\ MembersInv
  BY DEF XmlInv
<1>3. members' = members \cup Written(position)
  <2>1. CASE ReadSetting
    <3>1. Instructions[position].do = "read"
      BY <2>1 DEF ReadSetting, At
    <3>2. QED
      BY <1>1, <1>2, <2>1, <3>1, WrittenHere DEF ReadSetting
  <2>2. CASE ReadList
    <3>1. Instructions[position].do = "list"
      BY <2>2 DEF ReadList, At
    <3>2. QED
      BY <1>1, <1>2, <2>2, <3>1, WrittenHere DEF ReadList
  <2>3. QED
    BY <2>1, <2>2
<1>4. MembersInv'
  BY <1>1, <1>2, <1>3, OneMore
<1>5. \A j \in Sections : Inside(j, position') <=> Inside(j, position)
  BY <1>1, NextIsInside
<1>6. CursorInv'
  BY <1>1, <1>2, <1>5 DEF CursorInv, Present
<1>7. QED
  BY <1>4, <1>6

LEMMA LeaveStep ==
  ASSUME XmlInv, document.root, LeaveSection
  PROVE  (CursorInv /\ MembersInv)'
<1>1. /\ position \in DOMAIN Instructions /\ Instructions[position].do = "leave" /\ position \notin Kept
      /\ position \in Nat /\ position' = position + 1 /\ UNCHANGED <<document, members>>
      /\ CursorInv /\ MembersInv
  BY ProgramIsASequence DEF LeaveSection, At, Kept, XmlInv
<1>2. PICK j \in Sections : position = End(j) /\ Inside(j, position)
  BY <1>1, LeaveIsTheEnd
<1>3. cursor = <<Instructions[j].name>>
  BY <1>1, <1>2 DEF CursorInv
<1>4. cursor' = <<>>
  BY <1>3 DEF LeaveSection, Front
<1>5. \A k \in Sections : ~ Inside(k, position + 1)
  <2>1. SUFFICES ASSUME NEW k \in Sections, Inside(k, position + 1)
                 PROVE  FALSE
    OBVIOUS
  <2>2. k \in Nat /\ End(k) \in Nat /\ k # position
    BY <1>1, ProgramIsASequence, SectionIs DEF Sections
  <2>3. Inside(k, position)
    BY <1>1, <2>1, <2>2 DEF Inside
  <2>4. k = j
    BY <1>1, <1>2, <2>3, SectionsAreApart
  <2>5. QED
    BY <1>2, <2>1, <2>2, <2>4 DEF Inside
<1>6. CursorInv'
  BY <1>1, <1>4, <1>5 DEF CursorInv
<1>7. MembersInv'
  <2>1. Before(position') = Before(position)
    BY <1>1, BeforeNext
  <2>2. \A i \in Kept : Written(i)' = Written(i)
    BY <1>1 DEF Written, Present, Contents
  <2>3. {Written(i)' : i \in Before(position')} = {Written(i) : i \in Before(position)}
    BY <2>1, <2>2 DEF Before
  <2>4. QED
    BY <1>1, <2>3 DEF MembersInv
<1>8. QED
  BY <1>6, <1>7

(* Where a section is entered, or passed over. *)
LEMMA EnterStep ==
  ASSUME XmlInv, document.root, EnterSection
  PROVE  (CursorInv /\ MembersInv)'
<1>1. /\ position \in Sections /\ position \in DOMAIN Instructions /\ position \notin Kept
      /\ position \in Nat /\ UNCHANGED document
      /\ CursorInv /\ MembersInv
  BY ProgramIsASequence DEF EnterSection, At, Kept, XmlInv, Sections
<1>2. cursor = <<>>
  BY <1>1, NotInside DEF CursorInv
<1>3. Element = <<Instructions[position].name>>
  BY <1>2 DEF Element, Instruction
<1>4. \A i \in Kept : Written(i)' = Written(i)
  BY <1>1 DEF Written, Present, Contents
<1>5. PICK z \in Nat : z = Instructions[position].size /\ z # 0 /\ End(position) = position + z + 1
  BY <1>1, SectionIs DEF End
<1>6. CASE Present(Element)
  <2>1. cursor' = Element /\ position' = position + 1 /\ members' = members
    BY <1>6 DEF EnterSection
  <2>2. Before(position') = Before(position)
    BY <1>1, <2>1, BeforeNext
  <2>3. MembersInv'
    <3>1. {Written(i)' : i \in Before(position')} = {Written(i) : i \in Before(position)}
      BY <1>4, <2>2 DEF Before
    <3>2. QED
      BY <1>1, <2>1, <3>1 DEF MembersInv
  <2>4. Inside(position, position')
    BY <1>1, <1>5, <2>1 DEF Inside
  <2>5. \A k \in Sections : Inside(k, position') => k = position
    BY <1>1, <2>1, <2>4, SectionsAreApart
  <2>6. Present(cursor)'
    BY <1>1, <1>6, <2>1 DEF Present
  <2>7. CursorInv'
    BY <1>1, <1>3, <2>1, <2>4, <2>5, <2>6 DEF CursorInv
  <2>8. QED
    BY <2>3, <2>7
<1>7. CASE ~ Present(Element)
  <2>1. /\ cursor' = cursor /\ position' = position + z + 2 /\ position' = End(position) + 1
        /\ members' = members \cup IfSectionMissing(position + 1)
    BY <1>1, <1>5, <1>7 DEF EnterSection, Instruction
  <2>2. \A k \in Sections : ~ Inside(k, position')
    <3>1. SUFFICES ASSUME NEW k \in Sections, Inside(k, position')
                   PROVE  FALSE
      OBVIOUS
    <3>2. k \in Nat /\ End(k) \in Nat /\ End(position) \in Nat /\ End(position) \in DOMAIN Instructions
          /\ Instructions[End(position)].do = "leave"
      BY <1>1, SectionIs, ProgramIsASequence
    <3>3. k # End(position)
      BY <3>2 DEF Sections
    <3>4. Inside(k, End(position)) /\ Inside(position, End(position))
      BY <1>1, <1>5, <2>1, <3>1, <3>2, <3>3 DEF Inside
    <3>5. k = position
      BY <1>1, <3>2, <3>4, SectionsAreApart
    <3>6. QED
      BY <2>1, <3>1, <3>2, <3>5 DEF Inside
  <2>3. CursorInv'
    BY <1>2, <2>1, <2>2 DEF CursorInv
  <2>4. \A i \in Nat : position < i /\ i < End(position) =>
          /\ i \in Kept /\ Written(i) = IfSectionMissing(i)
          /\ i > position + 1 => Written(i) = {}
    <3>1. SUFFICES ASSUME NEW i \in Nat, position < i, i < End(position)
                   PROVE  /\ i \in Kept /\ Written(i) = IfSectionMissing(i)
                          /\ i > position + 1 => Written(i) = {}
      OBVIOUS
    <3>2. i \in Kept /\ (i > position + 1 => Instructions[i].name # "SamplingRate")
      BY <1>1, <3>1, SectionIs
    <3>3. Inside(position, i)
      BY <1>1, <1>5, <3>1 DEF Inside
    <3>4. Enclosing[i] = Element
      BY <1>1, <1>3, <3>2, <3>3, EnclosingIs
    <3>5. Element # <<>>
      BY <1>3
    <3>6. Written(i) = IfSectionMissing(i)
      BY <1>7, <3>4, <3>5 DEF Written
    <3>7. QED
      BY <3>2, <3>6 DEF IfSectionMissing
  <2>5. UNION {Written(i) : i \in Before(position')} = members \cup IfSectionMissing(position + 1)
    <3>1. \A i \in Kept : i \in Nat /\ i # position /\ i # End(position)
      BY <1>1, SectionIs, ProgramIsASequence DEF Kept
    <3>2. \A i \in Kept : i < position' <=> i < position \/ (position < i /\ i < End(position))
      BY <1>1, <1>5, <2>1, <3>1
    <3>3. position + 1 \in Kept /\ position + 1 < position' /\ Written(position + 1) = IfSectionMissing(position + 1)
      BY <1>1, <1>5, <2>1, <2>4
    <3>4. \A i \in Before(position') : i \in Before(position) \/ i = position + 1 \/ Written(i) = {}
      <4>1. SUFFICES ASSUME NEW i \in Before(position'), i \notin Before(position), i # position + 1
                     PROVE  Written(i) = {}
        OBVIOUS
      <4>2. i \in Nat /\ position < i /\ i < End(position)
        BY <3>1, <3>2, <4>1 DEF Before
      <4>3. i > position + 1
        BY <1>1, <4>1, <4>2
      <4>4. QED
        BY <2>4, <4>2, <4>3
    <3>5. Before(position) \subseteq Before(position') /\ position + 1 \in Before(position')
      BY <3>2, <3>3 DEF Before
    <3>6. members = UNION {Written(i) : i \in Before(position)}
      BY <1>1 DEF MembersInv
    <3>7. QED
      BY <3>3, <3>4, <3>5, <3>6
  <2>6. MembersInv'
    <3>1. {Written(i)' : i \in Before(position')} = {Written(i) : i \in Before(position')}
      BY <1>4 DEF Before
    <3>2. QED
      BY <2>1, <2>5, <3>1 DEF MembersInv
  <2>7. QED
    BY <2>3, <2>6
<1>8. QED
  BY <1>6, <1>7

(* Before the first instruction. *)
LEMMA NothingIsRead ==
  ASSUME NEW p \in {0, 1}
  PROVE  Before(p) = {} /\ \A j \in Sections : ~ Inside(j, p)
<1>1. \A i \in DOMAIN Instructions : i \in Nat /\ i >= 1
  BY ProgramIsASequence
<1>2. Sections \subseteq DOMAIN Instructions /\ Kept \subseteq DOMAIN Instructions
  BY ProgramIsASequence
<1>3. \A i \in DOMAIN Instructions : ~ (i < p)
  BY <1>1
<1>4. QED
  BY <1>2, <1>3 DEF Before, Inside

LEMMA OpenStep ==
  ASSUME XmlInv, document.root, OpenDocument
  PROVE  (CursorInv /\ MembersInv)'
<1>1. /\ position = 0 /\ position' = 1 /\ UNCHANGED <<document, cursor, members>>
      /\ CursorInv /\ MembersInv
  BY DEF OpenDocument, XmlInv
<1>2. /\ Before(0) = {} /\ Before(1) = {}
      /\ \A j \in Sections : ~ Inside(j, 0) /\ ~ Inside(j, 1)
  BY NothingIsRead
<1>3. cursor = <<>> /\ members = {}
  BY <1>1, <1>2 DEF CursorInv, MembersInv
<1>4. CursorInv'
  BY <1>1, <1>2, <1>3 DEF CursorInv
<1>5. Before(position') = {}
  BY <1>1, <1>2
<1>6. MembersInv'
  BY <1>1, <1>3, <1>5 DEF MembersInv, Before
<1>7. QED
  BY <1>4, <1>6

(* What does not move the cursor leaves what was read. *)
LEMMA SettingsStay ==
  ASSUME CursorInv, MembersInv, UNCHANGED <<document, cursor, position, members>>
  PROVE  (CursorInv /\ MembersInv)'
<1>1. \A i \in Kept : Written(i)' = Written(i)
  BY DEF Written, Present, Contents
<1>2. {Written(i)' : i \in Before(position')} = {Written(i) : i \in Before(position)}
  BY <1>1 DEF Before
<1>3. CursorInv'
  BY DEF CursorInv, Present
<1>4. QED
  BY <1>2, <1>3 DEF MembersInv

-----------------------------------------------------------------------------
(* The endpoints. *)

(* setXmlConfig() gives a good status only to an endpoint that can serve. *)
LEMMA GoodServes ==
  ASSUME NEW e, SetXmlConfig(e) = "Good",
         files' = IF Makes(e) THEN files \cup {e.certificate} ELSE files
  PROVE  e.certificate \in files' /\ ~ SecurityIsBad(Configured(e).security) /\ Configured(e) # NoEndpoint
<1>1. ~ UrlIsBad(e) /\ ~ StoreIsBad(e) /\ ~ SecurityIsBad(e.security) /\ (Available(e) \/ MayBeMade(e))
  BY DEF SetXmlConfig
<1>2. e.certificate \in files'
  BY <1>1 DEF Makes, Available
<1>3. ~ SecurityIsBad(DefaultSecurity)
  BY DEF SecurityIsBad, DefaultSecurity, Modes, ToSet
<1>4. Configured(e).security = IF e.security = <<>> THEN DefaultSecurity ELSE e.security
  BY DEF Configured
<1>5. UrlOf(e.url) # "null"
  BY DEF UrlOf
<1>6. Configured(e) # NoEndpoint
  BY <1>5 DEF Configured, NoEndpoint
<1>7. QED
  BY <1>1, <1>2, <1>3, <1>4, <1>6

LEMMA EndpointStep ==
  ASSUME Filling, IsSeq(document.endpoints), ReadEndpoint
  PROVE  Filling'
<1>n. PICK n : n = Len(uaEndpoints)
  OBVIOUS
<1>e. PICK e : e = document.endpoints[n + 1]
  OBVIOUS
<1>u. PICK u : u = IF SetXmlConfig(e) = "Good" THEN Configured(e) ELSE NoEndpoint
  OBVIOUS
<1>1. /\ n \in Nat /\ Len(document.endpoints) \in Nat /\ n < Len(document.endpoints)
      /\ UNCHANGED document
      /\ uaEndpoints \in Seq(Range(uaEndpoints))
  BY <1>n DEF ReadEndpoint, AtEndpoints, Filling, IsSeq
<1>2. uaEndpoints' = Append(uaEndpoints, u)
  BY <1>n, <1>e, <1>u DEF ReadEndpoint
<1>3. /\ uaEndpoints' \in Seq(Range(uaEndpoints) \cup {u}) /\ Len(uaEndpoints') = n + 1
      /\ uaEndpoints'[n + 1] = u /\ \A k \in 1 .. n : uaEndpoints'[k] = uaEndpoints[k]
      /\ DOMAIN uaEndpoints' = 1 .. n + 1 /\ DOMAIN uaEndpoints = 1 .. n
  <2>1. uaEndpoints \in Seq(Range(uaEndpoints) \cup {u})
    BY <1>1
  <2>2. QED
    BY <1>n, <1>1, <1>2, <2>1
<1>4. IsSeq(uaEndpoints')
  BY <1>3, IsASequence
<1>5. files' = IF Makes(e) THEN files \cup {e.certificate} ELSE files
  BY <1>n, <1>e DEF ReadEndpoint
<1>6. files \subseteq files'
  BY <1>5
<1>7. \A k \in 1 .. n + 1 : k \in 1 .. n \/ k = n + 1
  BY <1>1
<1>8. ASSUME NEW k \in 1 .. n
      PROVE  Done(k)'
  <2>1. Done(k)
    BY <1>3, <1>8 DEF Filling
  <2>2. uaEndpoints'[k] = uaEndpoints[k]
    BY <1>3, <1>8
  <2>3. QED
    BY <1>1, <1>6, <2>1, <2>2 DEF Done, Serves
<1>9. Done(n + 1)'
  <2>1. CASE SetXmlConfig(e) = "Good"
    <3>1. uaEndpoints'[n + 1] = Configured(e)
      BY <1>3, <1>u, <2>1
    <3>2. e.certificate \in files' /\ ~ SecurityIsBad(Configured(e).security)
      BY <1>5, <2>1, GoodServes
    <3>3. Configured(e).certificate = e.certificate
      BY DEF Configured
    <3>4. uaEndpoints'[n + 1] = Configured(document'.endpoints[n + 1])
      BY <1>1, <1>e, <3>1
    <3>5. QED
      BY <3>1, <3>2, <3>3, <3>4 DEF Done, Serves
  <2>2. CASE SetXmlConfig(e) # "Good"
    <3>1. uaEndpoints'[n + 1] = NoEndpoint
      BY <1>3, <1>u, <2>2
    <3>2. QED
      BY <3>1 DEF Done
  <2>3. QED
    BY <2>1, <2>2
<1>10. \A k \in DOMAIN uaEndpoints' : Done(k)'
  BY <1>3, <1>7, <1>8, <1>9
<1>11. /\ successCount' \in 0 .. n + 1
       /\ successCount' = n + 1 => successCount = n /\ SetXmlConfig(e) = "Good"
  <2>1. successCount \in 0 .. n
    BY <1>n DEF Filling
  <2>2. successCount' = IF SetXmlConfig(e) = "Good" THEN successCount + 1 ELSE successCount
    BY <1>n, <1>e DEF ReadEndpoint
  <2>3. QED
    BY <1>1, <2>1, <2>2
<1>12. ASSUME successCount' = n + 1
       PROVE  \A k \in DOMAIN uaEndpoints' : uaEndpoints'[k] # NoEndpoint
  <2>1. \A k \in 1 .. n : uaEndpoints[k] # NoEndpoint
    BY <1>n, <1>3, <1>11, <1>12 DEF Filling
  <2>2. u # NoEndpoint
    BY <1>u, <1>5, <1>11, <1>12, GoodServes
  <2>3. QED
    BY <1>3, <1>7, <2>1, <2>2
<1>13. QED
  BY <1>1, <1>3, <1>4, <1>10, <1>11, <1>12 DEF Filling

LEMMA FinishStep ==
  ASSUME Filling, IsSeq(document.endpoints), FinishLoading
  PROVE  EndpointsAreWritten'
<1>m. PICK m : m = successCount
  OBVIOUS
<1>1. /\ m \in Nat /\ Len(uaEndpoints) \in Nat /\ Len(document.endpoints) \in Nat
      /\ m <= Len(uaEndpoints) /\ Len(uaEndpoints) <= Len(document.endpoints)
      /\ UNCHANGED <<document, files>>
      /\ uaEndpoints' = SubSeq(uaEndpoints, 1, m)
      /\ uaEndpoints \in Seq(Range(uaEndpoints))
      /\ document.endpoints \in Seq(Range(document.endpoints))
  BY <1>m DEF FinishLoading, Filling, IsSeq
<1>2. /\ DOMAIN uaEndpoints' = 1 .. m /\ Len(uaEndpoints') = m
      /\ \A k \in 1 .. m : uaEndpoints'[k] = uaEndpoints[k] /\ k \in DOMAIN uaEndpoints
      /\ uaEndpoints' = [k \in 1 .. m |-> uaEndpoints[k]]
  BY <1>1
<1>3. ret' = "Good" => m # 0
  BY <1>m DEF FinishLoading
<1>4. \A k \in 1 .. m : uaEndpoints'[k] # NoEndpoint =>
        uaEndpoints'[k].certificate \in files' /\ ~ SecurityIsBad(uaEndpoints'[k].security)
  BY <1>1, <1>2 DEF Filling, Done, Serves
<1>5. ASSUME Len(uaEndpoints') = Len(document'.endpoints)
      PROVE  uaEndpoints' = [k \in DOMAIN document'.endpoints |-> Configured(document'.endpoints[k])]
  <2>1. m = Len(document.endpoints) /\ m = Len(uaEndpoints) /\ DOMAIN document.endpoints = 1 .. m
    BY <1>1, <1>2, <1>5
  <2>2. \A k \in 1 .. m : uaEndpoints[k] = Configured(document.endpoints[k])
    BY <1>m, <1>2, <2>1 DEF Filling, Done
  <2>3. QED
    BY <1>1, <1>2, <2>1, <2>2
<1>6. ret' = "Good" => uaEndpoints' # <<>>
  BY <1>2, <1>3
<1>7. QED
  BY <1>1, <1>2, <1>4, <1>5, <1>6 DEF EndpointsAreWritten, Serves

-----------------------------------------------------------------------------
LEMMA XmlInit_Inv ==
  ASSUME NEW documents, \A d \in documents : IsSeq(d.endpoints), XmlInit(documents)
  PROVE  XmlInv
<1>1. /\ document \in documents /\ cursor = <<>> /\ position = 0 /\ members = {}
      /\ uaEndpoints = <<>> /\ successCount = 0
  BY DEF XmlInit
<1>2. Before(0) = {} /\ \A j \in Sections : ~ Inside(j, 0)
  BY NothingIsRead
<1>3. CursorInv /\ MembersInv
  BY <1>1, <1>2 DEF CursorInv, MembersInv
<1>4. Len(Instructions) \in Nat /\ AfterSettings = Len(Instructions) + 1
  BY ProgramIsASequence
<1>5. IsSeq(document.endpoints) /\ Len(document.endpoints) \in Nat
  BY <1>1 DEF IsSeq
<1>6. IsSeq(<<>>)
  BY DEF IsSeq
<1>7. Filling
  BY <1>1, <1>5, <1>6 DEF Filling
<1>8. ~ Loaded /\ position \in 0 .. AfterSettings + 1
  BY <1>1, <1>4 DEF Loaded
<1>9. QED
  BY <1>3, <1>5, <1>7, <1>8 DEF XmlInv

(* The instructions leave the endpoints alone, and end before them. *)
LEMMA WhereNext ==
  ASSUME XmlInv, ReadSetting \/ ReadList \/ EnterSection \/ LeaveSection
  PROVE  /\ position' \in 0 .. AfterSettings /\ position <= AfterSettings
         /\ UNCHANGED <<document, uaEndpoints, successCount, files>>
<1>1. Len(Instructions) \in Nat /\ AfterSettings = Len(Instructions) + 1 /\ DOMAIN Instructions = 1 .. Len(Instructions)
  BY ProgramIsASequence
<1>2. position \in 1 .. Len(Instructions) /\ UNCHANGED <<document, uaEndpoints, successCount, files>>
  BY <1>1 DEF ReadSetting, ReadList, EnterSection, LeaveSection, At
<1>3. CASE position' = position + 1
  BY <1>1, <1>2, <1>3
<1>4. CASE position' # position + 1
  <2>1. Instructions[position].do = "enter" /\ position' = position + Instructions[position].size + 2
    BY <1>4 DEF ReadSetting, ReadList, EnterSection, LeaveSection, At, Instruction
  <2>2. position \in Sections
    BY <1>1, <1>2, <2>1 DEF Sections
  <2>3. PICK z \in Nat : z = Instructions[position].size /\ End(position) = position + z + 1
    BY <2>2, SectionIs DEF End
  <2>4. End(position) \in 1 .. Len(Instructions)
    BY <1>1, <2>2, SectionIs
  <2>5. QED
    BY <1>1, <1>2, <2>1, <2>3, <2>4
<1>5. QED
  BY <1>3, <1>4

LEMMA XmlNext_Inv ==
  ASSUME XmlInv, XmlNext
  PROVE  XmlInv'
<1>0. /\ Len(Instructions) \in Nat /\ AfterSettings \in Nat /\ AfterSettings > 0
      /\ DOMAIN Instructions = 1 .. Len(Instructions)
  BY ProgramIsASequence
<1>1. CASE ReadSetting \/ ReadList \/ EnterSection \/ LeaveSection
  <2>1. /\ position' \in 0 .. AfterSettings /\ position <= AfterSettings
        /\ UNCHANGED <<document, uaEndpoints, successCount, files>>
    BY <1>1, WhereNext
  <2>2. document.root => (CursorInv /\ MembersInv)'
    BY <1>1, ReadStep, EnterStep, LeaveStep
  <2>3. Filling'
    BY <2>1 DEF XmlInv, Filling, Done, Serves
  <2>4. ~ Loaded' /\ position' \in 0 .. AfterSettings + 1
    BY <1>0, <2>1 DEF Loaded
  <2>5. QED
    BY <2>1, <2>2, <2>3, <2>4 DEF XmlInv
<1>2. CASE OpenDocument
  <2>1. /\ position = 0 /\ UNCHANGED <<document, uaEndpoints, successCount, files>>
        /\ position' = IF document.root THEN 1 ELSE AfterSettings + 1
    BY <1>2 DEF OpenDocument
  <2>2. document.root => (CursorInv /\ MembersInv)'
    BY <1>2, OpenStep
  <2>3. Filling'
    BY <1>0, <2>1 DEF XmlInv, Filling, Done, Serves
  <2>4. document.root => ~ Loaded'
    BY <1>0, <2>1 DEF Loaded
  <2>5. position' \in 0 .. AfterSettings + 1
    BY <1>0, <2>1
  <2>6. QED
    BY <2>1, <2>2, <2>3, <2>4, <2>5 DEF XmlInv
<1>3. CASE ReadEndpoint
  <2>1. position = AfterSettings /\ UNCHANGED <<document, cursor, position, members>>
    BY <1>3 DEF ReadEndpoint, AtEndpoints
  <2>2. Filling'
    BY <1>0, <1>3, <2>1, EndpointStep DEF XmlInv
  <2>3. document.root => (CursorInv /\ MembersInv)'
    BY <2>1, SettingsStay DEF XmlInv
  <2>4. ~ Loaded'
    BY <1>0, <2>1 DEF Loaded
  <2>5. QED
    BY <2>1, <2>2, <2>3, <2>4 DEF XmlInv
<1>4. CASE FinishLoading
  <2>1. position = AfterSettings /\ position' = position + 1 /\ UNCHANGED <<document, cursor, members>>
    BY <1>4 DEF FinishLoading
  <2>2. EndpointsAreWritten'
    BY <1>0, <1>4, <2>1, FinishStep DEF XmlInv
  <2>3. ASSUME document.root
        PROVE  (CursorInv /\ MembersInv)'
    <3>1. cursor = <<>> /\ members = UNION {Written(i) : i \in Kept}
      BY <1>0, <2>1, <2>3, SettingsEnd
    <3>2. \A j \in Sections : ~ Inside(j, position')
      BY <1>0, <2>1, SectionIs, ProgramIsASequence DEF Inside
    <3>3. \A i \in Kept : i \in Nat /\ i < position'
      BY <1>0, <2>1, ProgramIsASequence
    <3>4. Before(position') = Kept
      BY <3>3 DEF Before
    <3>5. \A i \in Kept : Written(i)' = Written(i)
      BY <2>1 DEF Written, Present, Contents
    <3>6. {Written(i)' : i \in Before(position')} = {Written(i) : i \in Kept}
      BY <3>4, <3>5
    <3>7. QED
      BY <2>1, <3>1, <3>2, <3>6 DEF CursorInv, MembersInv
  <2>4. position' \in 0 .. AfterSettings + 1 /\ ~ (position' <= AfterSettings)
    BY <1>0, <2>1
  <2>5. QED
    BY <2>1, <2>2, <2>3, <2>4 DEF XmlInv
<1>5. QED
  BY <1>1, <1>2, <1>3, <1>4 DEF XmlNext

LEMMA XmlStays ==
  ASSUME XmlInv, UNCHANGED xmlVars
  PROVE  XmlInv'
<1>1. UNCHANGED <<document, cursor, position, members, uaEndpoints, successCount, files, ret>>
  BY DEF xmlVars
<1>2. document.root => (CursorInv /\ MembersInv)'
  BY <1>1, SettingsStay DEF XmlInv
<1>3. Filling' = Filling /\ EndpointsAreWritten' = EndpointsAreWritten /\ Loaded' = Loaded
  BY <1>1 DEF Filling, Done, Serves, EndpointsAreWritten, Loaded
<1>4. QED
  BY <1>1, <1>2, <1>3 DEF XmlInv

LEMMA XmlInvIsWritten ==
  ASSUME XmlInv
  PROVE  LoadedIsWritten
<1>1. SUFFICES ASSUME Loaded, document.root
               PROVE  /\ cursor = <<>> /\ members = UNION {Written(i) : i \in Kept}
                      /\ EndpointsAreWritten
  BY DEF LoadedIsWritten, EndpointsAreWritten, Serves
<1>2. position >= AfterSettings
  BY <1>1, ProgramIsASequence DEF Loaded
<1>3. QED
  BY <1>1, <1>2, SettingsEnd DEF XmlInv

(* Whatever ServerConfig.xml says: wherever the cursor is, it stands in the
   section whose instructions are being carried out, and what has been read is
   what is written (ServerConfigXml::loadConfiguration()). *)
THEOREM CursorIsInItsSection ==
  ASSUME NEW documents, \A d \in documents : IsSeq(d.endpoints)
  PROVE  StartupSpec(documents) => []XmlInv
<1>1. StartupInit(documents) => XmlInv
  BY XmlInit_Inv DEF StartupInit
<1>2. XmlInv /\ [StartupNext]_StartupVars => XmlInv'
  <2>1. SUFFICES ASSUME XmlInv, XmlNext \/ UNCHANGED xmlVars
                 PROVE  XmlInv'
    BY DEF StartupNext, Configure, StartupVars
  <2>2. QED
    BY <2>1, XmlNext_Inv, XmlStays
<1>3. QED
  BY <1>1, <1>2, PTL DEF StartupSpec

(* When ServerConfig.xml has been loaded, each setting is the one its own
   element gives, and the endpoints kept are able to serve, for every document
   (serverconfigxml.cpp:107-1246). *)
THEOREM XmlLoadedIsWritten ==
  ASSUME NEW documents, \A d \in documents : IsSeq(d.endpoints)
  PROVE  StartupSpec(documents) => []LoadedIsWritten
BY CursorIsInItsSection, XmlInvIsWritten, PTL

-----------------------------------------------------------------------------
(* The address space, whatever the configuration says: a name stands for one
   variable, which is a node, and what the formulas saw of a variable is what
   the address space shows. *)
ListedInv ==
  /\ IsSeq(listed)
  /\ IsSeq(place) /\ \A address \in Range(place) : IsSeq(address)
  /\ \A v, w \in DOMAIN listed : listed[v].name = listed[w].name => v = w
  /\ \A v \in DOMAIN listed : listed[v].name \in nodes
  /\ \A v \in DOMAIN listed : listed[v].source # "cache" => listed[v].seen = listed[v].shown

LEMMA Joined ==
  ASSUME NEW a, NEW b, IsSeq(a), IsSeq(b)
  PROVE  /\ IsSeq(a \o b) /\ Len(a) \in Nat /\ Len(b) \in Nat /\ Len(a \o b) = Len(a) + Len(b)
         /\ DOMAIN a = 1 .. Len(a) /\ DOMAIN b = 1 .. Len(b) /\ DOMAIN (a \o b) = 1 .. Len(a) + Len(b)
         /\ \A i \in 1 .. Len(a) : (a \o b)[i] = a[i]
         /\ \A i \in 1 .. Len(b) : (a \o b)[Len(a) + i] = b[i]
         /\ \A i \in 1 .. Len(a) + Len(b) : i \in 1 .. Len(a) \/ i - Len(a) \in 1 .. Len(b)
         /\ Range(a \o b) = Range(a) \cup Range(b)
<1>1. PICK R : a \in Seq(R) /\ b \in Seq(R)
  BY TwoSequences
<1>2. a \o b \in Seq(R) /\ Len(a) \in Nat /\ Len(b) \in Nat /\ Len(a \o b) = Len(a) + Len(b)
      /\ DOMAIN a = 1 .. Len(a) /\ DOMAIN b = 1 .. Len(b) /\ DOMAIN (a \o b) = 1 .. Len(a) + Len(b)
  BY <1>1
<1>3. IsSeq(a \o b)
  BY <1>2, IsASequence
<1>4. /\ \A i \in 1 .. Len(a) : (a \o b)[i] = a[i]
      /\ \A i \in 1 .. Len(b) : (a \o b)[Len(a) + i] = b[i]
  BY <1>1
<1>5. \A n, m \in Nat : \A i \in 1 .. n + m : i \in 1 .. n \/ (i - n \in 1 .. m /\ i = n + (i - n))
  OBVIOUS
<1>6. \A i \in 1 .. Len(a) + Len(b) : i \in 1 .. Len(a) \/ (i - Len(a) \in 1 .. Len(b) /\ i = Len(a) + (i - Len(a)))
  BY <1>2, <1>5
<1>7. Range(a \o b) \subseteq Range(a) \cup Range(b)
  <2>1. SUFFICES ASSUME NEW i \in 1 .. Len(a) + Len(b)
                 PROVE  (a \o b)[i] \in Range(a) \cup Range(b)
    BY <1>2 DEF Range
  <2>2. CASE i \in 1 .. Len(a)
    BY <1>2, <1>4, <2>2 DEF Range
  <2>3. CASE i - Len(a) \in 1 .. Len(b) /\ i = Len(a) + (i - Len(a))
    <3>1. PICK k \in 1 .. Len(b) : i = Len(a) + k
      BY <2>3
    <3>2. QED
      BY <1>2, <1>4, <3>1 DEF Range
  <2>4. QED
    BY <1>6, <2>2, <2>3
<1>8. Range(a) \subseteq Range(a \o b) /\ Range(b) \subseteq Range(a \o b)
  <2>1. \A n, m \in Nat : (\A i \in 1 .. n : i \in 1 .. n + m) /\ (\A i \in 1 .. m : n + i \in 1 .. n + m)
    OBVIOUS
  <2>2. (\A i \in 1 .. Len(a) : i \in DOMAIN (a \o b)) /\ (\A i \in 1 .. Len(b) : Len(a) + i \in DOMAIN (a \o b))
    BY <1>2, <2>1
  <2>3. \A i \in 1 .. Len(a) : a[i] = (a \o b)[i]
    BY <1>4
  <2>4. \A i \in 1 .. Len(b) : b[i] = (a \o b)[Len(a) + i]
    BY <1>4
  <2>5. Range(a) \subseteq Range(a \o b)
    BY <1>2, <2>2, <2>3 DEF Range
  <2>6. Range(b) \subseteq Range(a \o b)
    BY <1>2, <2>2, <2>4 DEF Range
  <2>7. QED
    BY <2>5, <2>6
<1>9. QED
  BY <1>2, <1>3, <1>4, <1>6, <1>7, <1>8

(* Sequences are equal that have the same beginning and the same whole. *)
LEMMA JoinedTells ==
  ASSUME NEW a, NEW b, NEW c, IsSeq(a), IsSeq(b), IsSeq(c), a \o b = a \o c
  PROVE  b = c
<1>1. /\ Len(b) = Len(c) /\ DOMAIN b = 1 .. Len(b) /\ DOMAIN c = 1 .. Len(c)
      /\ \A i \in 1 .. Len(b) : b[i] = c[i]
  BY Joined
<1>2. b = [i \in 1 .. Len(b) |-> b[i]] /\ c = [i \in 1 .. Len(c) |-> c[i]]
  BY DEF IsSeq
<1>3. QED
  BY <1>1, <1>2

LEMMA ChildIs ==
  ASSUME NEW address, IsSeq(address), NEW name, IsSeq(name)
  PROVE  IsSeq(Child(address, name))
<1>1. IsSeq(<<".">>)
  BY DEF IsSeq, Range
<1>2. IsSeq(address \o <<".">>)
  BY <1>1, Joined
<1>3. IsSeq(address \o <<".">> \o name)
  BY <1>2, Joined
<1>4. QED
  BY <1>3 DEF Child

LEMMA ChildTells ==
  ASSUME NEW address, IsSeq(address), NEW b, IsSeq(b), NEW c, IsSeq(c), Child(address, b) = Child(address, c)
  PROVE  b = c
<1>1. IsSeq(<<".">>)
  BY DEF IsSeq, Range
<1>2. IsSeq(address \o <<".">>)
  BY <1>1, Joined
<1>3. QED
  BY <1>2, JoinedTells DEF Child

LEMMA HereIs ==
  ASSUME ListedInv
  PROVE  IsSeq(Here)
<1>1. IsSeq(RootAddress)
  <2>1. PICK d : RootAddress = <<d>>
    BY ConfiguratorAssumption
  <2>2. QED
    BY <2>1 DEF IsSeq, Range
<1>2. CASE place = <<>>
  BY <1>1, <1>2 DEF Here
<1>3. CASE place # <<>>
  <2>1. Len(place) \in DOMAIN place
    BY <1>3 DEF ListedInv, IsSeq
  <2>2. Last(place) \in Range(place)
    BY <2>1 DEF Last, Range
  <2>3. QED
    BY <1>3, <2>2 DEF Here, ListedInv
<1>4. QED
  BY <1>2, <1>3

(* One more variable behind the others. *)
LEMMA OneIsAppended ==
  ASSUME ListedInv, NEW entry, Addable(entry.name), nodes' = nodes \cup {entry.name},
         entry.source # "cache" => entry.seen = entry.shown,
         listed' = Append(listed, entry) \/ listed' = listed, UNCHANGED place
  PROVE  ListedInv'
<1>1. CASE listed' = listed
  BY <1>1 DEF ListedInv
<1>2. CASE listed' = Append(listed, entry)
  <2>1. PICK n : n = Len(listed)
    OBVIOUS
  <2>2. /\ n \in Nat /\ DOMAIN listed = 1 .. n /\ listed \in Seq(Range(listed) \cup {entry})
    BY <2>1 DEF ListedInv, IsSeq
  <2>3. /\ listed' \in Seq(Range(listed) \cup {entry}) /\ DOMAIN listed' = 1 .. n + 1
        /\ listed'[n + 1] = entry /\ \A v \in 1 .. n : listed'[v] = listed[v]
    BY <1>2, <2>1, <2>2
  <2>4. IsSeq(listed')
    BY <2>3, IsASequence
  <2>5. \A v \in 1 .. n + 1 : v \in 1 .. n \/ v = n + 1
    BY <2>2
  <2>6. \A v \in 1 .. n : listed'[v].name \in nodes /\ listed'[v].name # entry.name
    BY <2>2, <2>3 DEF ListedInv, Addable
  <2>7. \A v, w \in DOMAIN listed' : listed'[v].name = listed'[w].name => v = w
    BY <2>2, <2>3, <2>5, <2>6 DEF ListedInv
  <2>8. \A v \in DOMAIN listed' : listed'[v].name \in nodes'
    BY <2>3, <2>5, <2>6
  <2>9. \A v \in DOMAIN listed' : listed'[v].source # "cache" => listed'[v].seen = listed'[v].shown
    BY <2>2, <2>3, <2>5 DEF ListedInv
  <2>10. QED
    BY <2>4, <2>7, <2>8, <2>9 DEF ListedInv
<1>3. QED
  BY <1>1, <1>2

(* The cache variables of one object. *)
LEMMA ObjectIsOpened ==
  ASSUME ListedInv, NEW name \in Names, OpenObject(name)
  PROVE  ListedInv'
<1>1. CASE Refuse
  BY <1>1, EmptySeq DEF Refuse, ListedInv, IsSeq, Range
<1>2. CASE ~ Refuse
  <2>1. PICK address : address = Child(Here, name)
    OBVIOUS
  <2>2. PICK cache : cache = [i \in DOMAIN CacheVariables |-> Child(address, CacheVariables[i])]
    OBVIOUS
  <2>3. /\ \A i \in DOMAIN cache : Addable(cache[i])
        /\ place' = Append(place, address)
        /\ nodes' = nodes \cup {address} \cup Range(cache)
        /\ listed' = listed \o [i \in DOMAIN cache |-> Entry(cache[i], "cache", "Good", "Waiting")]
    BY <1>2, <2>1, <2>2 DEF OpenObject
  <2>4. PICK added : added = [i \in DOMAIN cache |-> Entry(cache[i], "cache", "Good", "Waiting")]
    OBVIOUS
  <2>5. IsSeq(address)
    BY <2>1, HereIs, ChildIs, ConfiguratorAssumption
  <2>6. \A i \in DOMAIN CacheVariables : CacheVariables[i] \in Range(CacheVariables)
    BY DEF Range
  <2>7. \A i, k \in DOMAIN cache : cache[i] = cache[k] => i = k
    <3>1. SUFFICES ASSUME NEW i \in DOMAIN CacheVariables, NEW k \in DOMAIN CacheVariables,
                          Child(address, CacheVariables[i]) = Child(address, CacheVariables[k])
                   PROVE  i = k
      BY <2>2
    <3>2. IsSeq(CacheVariables[i]) /\ IsSeq(CacheVariables[k])
      BY <2>6, ConfiguratorAssumption
    <3>3. CacheVariables[i] = CacheVariables[k]
      BY <2>5, <3>1, <3>2, ChildTells
    <3>4. QED
      BY <3>3, ConfiguratorAssumption DEF IsInjective
  <2>8. IsSeq(added) /\ DOMAIN added = DOMAIN cache
    <3>1. DOMAIN added = 1 .. Len(CacheVariables) /\ Len(CacheVariables) \in Nat /\ DOMAIN cache = DOMAIN added
      BY <2>2, <2>4, ConfiguratorAssumption DEF IsSeq
    <3>2. \A i \in 1 .. Len(CacheVariables) : added[i] \in Range(added)
      BY <3>1 DEF Range
    <3>3. added = [i \in 1 .. Len(CacheVariables) |-> added[i]]
      BY <2>4, <3>1
    <3>4. QED
      BY <3>1, <3>2, <3>3, SeqDef DEF IsSeq
  <2>9. \A i \in DOMAIN added : added[i].name = cache[i] /\ added[i].source = "cache"
                                /\ cache[i] \notin nodes /\ cache[i] \in nodes'
    BY <2>3, <2>4, <2>8 DEF Entry, Addable, Range
  <2>10. PICK n : n = Len(listed)
    OBVIOUS
  <2>11. PICK m : m = Len(added)
    OBVIOUS
  <2>12. /\ n \in Nat /\ m \in Nat /\ DOMAIN listed = 1 .. n /\ DOMAIN added = 1 .. m /\ DOMAIN listed' = 1 .. n + m
         /\ IsSeq(listed') /\ \A v \in 1 .. n : listed'[v] = listed[v]
         /\ \A v \in 1 .. m : listed'[n + v] = added[v]
    BY <2>3, <2>4, <2>8, <2>10, <2>11, Joined DEF ListedInv
  <2>13. \A v \in 1 .. n + m : v \in 1 .. n \/ \E k \in 1 .. m : v = n + k
    <3>1. \A v \in 1 .. n + m : v \in 1 .. n \/ (v - n \in 1 .. m /\ v = n + (v - n))
      BY <2>12
    <3>2. QED
      BY <3>1
  <2>14. \A v \in 1 .. n : listed'[v].name \in nodes
    BY <2>12 DEF ListedInv
  <2>15. \A k \in 1 .. m : listed'[n + k].name = cache[k] /\ cache[k] \notin nodes
    BY <2>9, <2>12
  <2>16. \A v, w \in DOMAIN listed' : listed'[v].name = listed'[w].name => v = w
    <3>1. SUFFICES ASSUME NEW v \in 1 .. n + m, NEW w \in 1 .. n + m, listed'[v].name = listed'[w].name
                   PROVE  v = w
      BY <2>12
    <3>2. CASE v \in 1 .. n /\ w \in 1 .. n
      BY <2>12, <3>1, <3>2 DEF ListedInv
    <3>3. CASE v \in 1 .. n /\ w \notin 1 .. n
      BY <2>13, <2>14, <2>15, <3>1, <3>3
    <3>4. CASE v \notin 1 .. n /\ w \in 1 .. n
      BY <2>13, <2>14, <2>15, <3>1, <3>4
    <3>5. CASE v \notin 1 .. n /\ w \notin 1 .. n
      <4>1. PICK i \in 1 .. m : v = n + i
        BY <2>13, <3>5
      <4>2. PICK k \in 1 .. m : w = n + k
        BY <2>13, <3>5
      <4>3. cache[i] = cache[k] /\ i \in DOMAIN cache /\ k \in DOMAIN cache
        BY <2>8, <2>12, <2>15, <3>1, <4>1, <4>2
      <4>4. QED
        BY <2>7, <4>1, <4>2, <4>3
    <3>6. QED
      BY <3>2, <3>3, <3>4, <3>5
  <2>17. \A v \in DOMAIN listed' : listed'[v].name \in nodes'
    <3>1. \A v \in 1 .. n : listed'[v].name \in nodes'
      BY <2>3, <2>14
    <3>2. \A k \in 1 .. m : listed'[n + k].name \in nodes'
      BY <2>9, <2>12
    <3>3. QED
      BY <2>12, <2>13, <3>1, <3>2
  <2>18. \A v \in DOMAIN listed' : listed'[v].source # "cache" => listed'[v].seen = listed'[v].shown
    <3>1. \A k \in 1 .. m : listed'[n + k].source = "cache"
      BY <2>9, <2>12
    <3>2. \A v \in 1 .. n : listed'[v].source # "cache" => listed'[v].seen = listed'[v].shown
      BY <2>12 DEF ListedInv
    <3>3. SUFFICES ASSUME NEW v \in 1 .. n + m, v \notin 1 .. n
                   PROVE  listed'[v].source = "cache"
      BY <2>12, <3>2
    <3>4. PICK k \in 1 .. m : v = n + k
      BY <2>13, <3>3
    <3>5. QED
      BY <3>1, <3>4
  <2>19. IsSeq(place') /\ \A a \in Range(place') : IsSeq(a)
    <3>1. place \in Seq(Range(place) \cup {address}) /\ place' \in Seq(Range(place) \cup {address})
      BY <2>3 DEF ListedInv, IsSeq
    <3>2. Range(place') \subseteq Range(place) \cup {address}
      <4>1. \A i \in DOMAIN place' : place'[i] \in Range(place) \cup {address}
        BY <3>1
      <4>2. QED
        BY <4>1 DEF Range
    <3>3. QED
      BY <2>5, <3>1, <3>2, IsASequence DEF ListedInv
  <2>20. QED
    BY <2>12, <2>16, <2>17, <2>18, <2>19 DEF ListedInv
<1>3. QED
  BY <1>1, <1>2

LEMMA ConfiguratorNext_Inv ==
  ASSUME ListedInv, Next
  PROVE  ListedInv'
<1>1. CASE UNCHANGED <<place, nodes, listed>>
  BY <1>1 DEF ListedInv
<1>2. CASE Refuse
  BY <1>2 DEF Refuse, ListedInv, IsSeq, Range
<1>3. CASE \E id \in GenericIds, text \in GenericFormulas : LoadGenericFormula(id, text)
  BY <1>1, <1>2, <1>3 DEF LoadGenericFormula
<1>4. CASE BeginElements \/ EndElements
  BY <1>1, <1>4 DEF BeginElements, EndElements
<1>5. CASE \E name \in Names : OpenObject(name)
  BY <1>5, ObjectIsOpened
<1>6. CASE \E name \in Names, c \in Conversions : FreeVariable(name, c.numeric, c.literal)
  <2>1. PICK name \in Names, c \in Conversions : FreeVariable(name, c.numeric, c.literal)
    BY <1>6
  <2>2. PICK entry : entry = Entry(Child(Here, name), "free", "Good", "Good")
    OBVIOUS
  <2>3. entry.name = Child(Here, name) /\ entry.seen = entry.shown
    BY <2>2 DEF Entry
  <2>4. ASSUME ~ Refuse
        PROVE  /\ Addable(entry.name) /\ nodes' = nodes \cup {entry.name} /\ UNCHANGED place
               /\ listed' = Append(listed, entry) \/ listed' = listed
    BY <2>1, <2>2, <2>3, <2>4 DEF FreeVariable
  <2>5. QED
    BY <1>2, <2>3, <2>4, OneIsAppended
<1>7. CASE \E name \in Names, both \in Formulas, initial \in BOOLEAN : CalculatedVariable(name, both[1], both[2], initial)
  BY <1>1, <1>7 DEF CalculatedVariable
<1>8. CASE CloseObject
  <2>1. place # <<>> /\ place' = Front(place) /\ UNCHANGED <<nodes, listed>>
    BY <1>8 DEF CloseObject
  <2>2. PICK n : n = Len(place)
    OBVIOUS
  <2>3. n \in Nat /\ n > 0 /\ DOMAIN place = 1 .. n /\ place \in Seq(Range(place))
    BY <2>1, <2>2 DEF ListedInv, IsSeq
  <2>4. place' = SubSeq(place, 1, n - 1)
    BY <2>1, <2>2 DEF Front
  <2>5. place' \in Seq(Range(place))
    BY <2>3, <2>4
  <2>6. Range(place') \subseteq Range(place)
    <3>1. \A i \in DOMAIN place' : place'[i] \in Range(place)
      BY <2>5
    <3>2. QED
      BY <3>1 DEF Range
  <2>7. QED
    BY <2>1, <2>5, <2>6, IsASequence DEF ListedInv
<1>9. CASE Elaborate
  BY <1>1, <1>2, <1>9 DEF Elaborate, Substitute
<1>10. CASE Instantiate
  <2>1. PICK first, entry :
          /\ entry = [Entry(Child(Here, wanted.name), "calculated", first, first) EXCEPT
                        !.reads = Reads(Tokens(work)), !.text = wanted.text, !.place = place]
          /\ ~ Refuse => listed' = Append(listed, entry)
    BY <1>10 DEF Instantiate
  <2>2. entry.name = Child(Here, wanted.name) /\ entry.seen = entry.shown
    BY <2>1 DEF Entry
  <2>3. ASSUME ~ Refuse
        PROVE  /\ Addable(entry.name) /\ nodes' = nodes \cup {entry.name} /\ UNCHANGED place
               /\ listed' = Append(listed, entry)
    BY <1>10, <2>1, <2>2, <2>3 DEF Instantiate
  <2>4. QED
    BY <1>2, <2>2, <2>3, OneIsAppended
<1>11. QED
  BY <1>3, <1>4, <1>5, <1>6, <1>7, <1>8, <1>9, <1>10 DEF Next

(* What a word makes of a negative number. *)
LEMMA ModuloOfAWord ==
  ASSUME NEW w \in Nat, w > 0, NEW n \in Int, -w < n, n < w
  PROVE  n % w = IF n >= 0 THEN n ELSE n + w
<1>1. CASE n >= 0
  BY <1>1
<1>2. CASE n < 0
  BY <1>2
<1>3. QED
  BY <1>1, <1>2

LEMMA UnsignedAreTaken ==
  ASSUME NEW type \in DOMAIN UnsignedTypes, NEW n \in Int
  PROVE  LET value == WithRangeCheck(type, [kind |-> "number", value |-> n]) IN
         IF n \in Least(type) .. Greatest(type) THEN value = <<n>>
         ELSE value = <<>> \/ (n < 0 /\ value = <<n + Word>>)
<1>1. PICK half, w : half = Half[UnsignedTypes[type]] /\ w = Word
  OBVIOUS
<1>2. half \in Nat /\ half > 0 /\ w \in Nat /\ w >= 2 * half
  <2>1. UnsignedTypes[type] \in Sizes
    BY DEF UnsignedTypes, Sizes
  <2>2. 64 \in Sizes
    BY DEF Sizes
  <2>3. Half[UnsignedTypes[type]] \in Nat \ {0} /\ Half[64] \in Nat \ {0} /\ Half[UnsignedTypes[type]] <= Half[64]
    BY <2>1, <2>2, FreeVariablesAssumption
  <2>4. PICK h : h = Half[64]
    OBVIOUS
  <2>5. w = 2 * h
    BY <1>1, <2>4 DEF Word
  <2>6. QED
    BY <1>1, <2>3, <2>4, <2>5
<1>3. Least(type) = 0 /\ Greatest(type) = 2 * half - 1
  BY <1>1 DEF Least, Greatest
<1>4. PICK value : value = WithRangeCheck(type, [kind |-> "number", value |-> n])
  OBVIOUS
<1>5. value = IF Stoul(n) # <<>> /\ 0 <= Stoul(n)[1] /\ Stoul(n)[1] <= 2 * half - 1 THEN Stoul(n) ELSE <<>>
  BY <1>3, <1>4 DEF WithRangeCheck
<1>6. Stoul(n) = IF -w < n /\ n < w THEN <<n % w>> ELSE <<>>
  BY <1>1 DEF Stoul
<1>7. -w < n /\ n < w => n % w = IF n >= 0 THEN n ELSE n + w
  BY <1>2, ModuloOfAWord
<1>8. PICK m : m = n % w
  OBVIOUS
<1>9. value = IF -w < n /\ n < w /\ 0 <= m /\ m <= 2 * half - 1 THEN <<m>> ELSE <<>>
  <2>1. <<m>> # <<>> /\ <<m>>[1] = m
    OBVIOUS
  <2>2. QED
    BY <1>5, <1>6, <1>8, <2>1
<1>10. IF n \in 0 .. 2 * half - 1 THEN value = <<n>> ELSE value = <<>> \/ (n < 0 /\ value = <<n + w>>)
  <2>1. -w < n /\ n < w => m = IF n >= 0 THEN n ELSE n + w
    BY <1>7, <1>8
  <2>2. CASE n \in 0 .. 2 * half - 1
    <3>1. -w < n /\ n < w /\ m = n /\ 0 <= m /\ m <= 2 * half - 1
      BY <1>2, <2>1, <2>2
    <3>2. QED
      BY <1>9, <2>2, <3>1
  <2>3. CASE n \notin 0 .. 2 * half - 1
    <3>1. -w < n /\ n < w /\ 0 <= m /\ m <= 2 * half - 1 => n < 0 /\ m = n + w
      BY <1>2, <2>1, <2>3
    <3>2. QED
      BY <1>9, <2>3, <3>1
  <2>4. QED
    BY <2>2, <2>3
<1>11. QED
  BY <1>1, <1>3, <1>4, <1>10

LEMMA SignedAreTaken ==
  ASSUME NEW type \in DOMAIN SignedTypes, NEW n \in Int
  PROVE  LET value == WithRangeCheck(type, [kind |-> "number", value |-> n]) IN
         IF n \in Least(type) .. Greatest(type) THEN value = <<n>> ELSE value = <<>>
<1>0. type \notin DOMAIN UnsignedTypes
  BY DEF SignedTypes, UnsignedTypes
<1>1. PICK half, w : half = Half[SignedTypes[type]] /\ w = Word
  OBVIOUS
<1>2. half \in Nat /\ half > 0 /\ w \in Nat /\ w >= 2 * half
  <2>1. SignedTypes[type] \in Sizes
    BY DEF SignedTypes, Sizes
  <2>2. 64 \in Sizes
    BY DEF Sizes
  <2>3. Half[SignedTypes[type]] \in Nat \ {0} /\ Half[64] \in Nat \ {0} /\ Half[SignedTypes[type]] <= Half[64]
    BY <2>1, <2>2, FreeVariablesAssumption
  <2>4. PICK h : h = Half[64]
    OBVIOUS
  <2>5. w = 2 * h
    BY <1>1, <2>4 DEF Word
  <2>6. QED
    BY <1>1, <2>3, <2>4, <2>5
<1>3. Least(type) = -half /\ Greatest(type) = half - 1
  BY <1>0, <1>1 DEF Least, Greatest
<1>4. PICK value : value = WithRangeCheck(type, [kind |-> "number", value |-> n])
  OBVIOUS
<1>5. Stol(n) = IF -w <= 2 * n /\ 2 * n < w THEN <<n>> ELSE <<>>
  BY <1>1 DEF Stol
<1>6. value = IF Stol(n) # <<>> /\ -half <= Stol(n)[1] /\ Stol(n)[1] <= half - 1 THEN Stol(n) ELSE <<>>
  BY <1>0, <1>3, <1>4 DEF WithRangeCheck
<1>7. value = IF -w <= 2 * n /\ 2 * n < w /\ -half <= n /\ n <= half - 1 THEN <<n>> ELSE <<>>
  <2>1. <<n>> # <<>> /\ <<n>>[1] = n
    OBVIOUS
  <2>2. QED
    BY <1>5, <1>6, <2>1
<1>8. n \in -half .. half - 1 <=> -w <= 2 * n /\ 2 * n < w /\ -half <= n /\ n <= half - 1
  BY <1>2
<1>9. QED
  BY <1>3, <1>4, <1>7, <1>8

LEMMA AllNumbersAreTaken == NumbersAreTaken
<1>1. SUFFICES ASSUME NEW type \in IntegerTypes, NEW n \in WrittenNumbers
               PROVE  LET value == InitialValue(type, [kind |-> "number", value |-> n]) IN
                      IF n \in Least(type) .. Greatest(type) THEN value = <<n>>
                      ELSE value = <<>> \/ (type \in DOMAIN UnsignedTypes /\ n < 0 /\ value = <<n + Word>>)
  BY DEF NumbersAreTaken
<1>2. n \in Int
  BY FreeVariablesAssumption
<1>3. PICK text : text = [kind |-> "number", value |-> n]
  OBVIOUS
<1>4. text # Absent
  <2>1. text.kind = "number" /\ Absent.kind = "absent"
    BY <1>3 DEF Absent, Text
  <2>2. QED
    BY <2>1
<1>5. type \in DOMAIN UnsignedTypes \/ type \in DOMAIN SignedTypes
  BY DEF IntegerTypes
<1>6. type # "Boolean" /\ type # "String" /\ type \notin FloatTypes /\ type \in SupportedTypes
  BY <1>5 DEF UnsignedTypes, SignedTypes, FloatTypes, SupportedTypes, IntegerTypes
<1>7. InitialValue(type, text) = WithRangeCheck(type, text)
  BY <1>4, <1>6 DEF InitialValue, InitializeIntegerNumeric
<1>8. QED
  BY <1>2, <1>3, <1>5, <1>7, UnsignedAreTaken, SignedAreTaken

LEMMA ConfiguratorInit_Inv ==
  ASSUME Init
  PROVE  ListedInv
<1>1. IsSeq(<<>>) /\ Range(<<>>) = {} /\ DOMAIN <<>> = {}
  BY DEF IsSeq, Range
<1>2. listed = <<>> /\ place = <<>>
  BY DEF Init
<1>3. QED
  BY <1>1, <1>2 DEF ListedInv

LEMMA ListedInvInvariant ==
  ASSUME NEW documents
  PROVE  StartupSpec(documents) => []ListedInv
<1>1. StartupInit(documents) => ListedInv
  BY ConfiguratorInit_Inv DEF StartupInit
<1>2. ListedInv /\ [StartupNext]_StartupVars => ListedInv'
  <2>1. ASSUME ListedInv, UNCHANGED vars
        PROVE  ListedInv'
    BY <2>1 DEF ListedInv, vars
  <2>2. QED
    BY <2>1, ConfiguratorNext_Inv DEF StartupNext, Configure, StartupVars
<1>3. QED
  BY <1>1, <1>2, PTL DEF StartupSpec

(* As long as the configuration is accepted, an address finds one variable, and
   that one is a node, for every configuration (addNodeAndReference() and its
   callers). *)
THEOREM AddressesAreUnique ==
  ASSUME NEW documents
  PROVE  StartupSpec(documents) => []VariablesHaveOneAddress
<1>1. ListedInv => VariablesHaveOneAddress
  BY DEF ListedInv, VariablesHaveOneAddress
<1>2. QED
  BY <1>1, ListedInvInvariant, PTL

(* The formulas have seen the initial value of every free and calculated
   variable, and it is the number the file writes, whatever the widths of the
   types are (FreeVariablesEngine::instantiateFreeVariable(),
   Engine::instantiateCalculatedVariable()). *)
THEOREM InitialValuesAreSeen ==
  ASSUME NEW documents
  PROVE  StartupSpec(documents) => []InitialValuesArrive
<1>1. ListedInv => InitialValuesArrive
  BY AllNumbersAreTaken DEF ListedInv, InitialValuesArrive
<1>2. QED
  BY <1>1, ListedInvInvariant, PTL

-----------------------------------------------------------------------------
(* Formulas: what FlattenSeq() makes of the pieces they are expanded to. *)

(* A set of positions that is not empty has a first one. *)
LEMMA First ==
  ASSUME NEW T, T \subseteq Nat, T # {}
  PROVE  \E i \in T : \A j \in T : i <= j
<1>1. \E i \in T : \A j \in T : ~ (<<j, i>> \in OpToRel(<, Nat))
  BY NatLessThanWellFounded, WFMin
<1>2. PICK i \in T : \A j \in T : ~ (<<j, i>> \in OpToRel(<, Nat))
  BY <1>1
<1>3. ASSUME NEW j \in T
      PROVE  i <= j
  <2>1. i \in Nat /\ j \in Nat
    OBVIOUS
  <2>2. ~ (j < i)
    BY <1>2, <2>1 DEF OpToRel
  <2>3. QED
    BY <2>1, <2>2
<1>4. QED
  BY <1>3

LEMMA FirstIn ==
  ASSUME NEW n \in Nat, NEW B, B \subseteq 1 .. n, B # {}
  PROVE  \E i \in B : i \in 1 .. n /\ i \in Nat /\ \A k \in 1 .. n : k < i => k \notin B
<1>1. B \subseteq Nat
  OBVIOUS
<1>2. PICK i \in B : \A j \in B : i <= j
  BY <1>1, First
<1>3. \A k \in 1 .. n : k < i => k \notin B
  BY <1>1, <1>2
<1>4. QED
  BY <1>1, <1>3

(* f tells what each beginning of s is joined to. *)
Joins(s, n, f) == f = [i \in 1 .. n |-> IF i = 1 THEN s[i] ELSE f[i - 1] \o s[i]]
Deep(s) == IsSeq(s) /\ \A i \in DOMAIN s : IsSeq(s[i])

LEMMA JoinsExist ==
  ASSUME NEW s, NEW m \in Nat, m > 0
  PROVE  \E f : Joins(s, m, f)
<1> DEFINE Bad == {n \in Nat : n > 0 /\ ~ \E f : Joins(s, n, f)}
<1>1. SUFFICES ASSUME Bad # {}
               PROVE  FALSE
  OBVIOUS
<1>2. PICK n \in Bad : \A k \in Bad : n <= k
  BY <1>1, First
<1>3. CASE n = 1
  <2>1. PICK f : f = [i \in 1 .. 1 |-> s[1]]
    OBVIOUS
  <2>2. f = [i \in 1 .. 1 |-> IF i = 1 THEN s[i] ELSE f[i - 1] \o s[i]]
    BY <2>1
  <2>3. QED
    BY <1>3, <2>2 DEF Joins
<1>4. CASE n # 1
  <2>1. n \in Nat /\ n - 1 \in Nat /\ n - 1 > 0 /\ n - 1 < n
    BY <1>4
  <2>2. PICK f : Joins(s, n - 1, f)
    BY <1>2, <2>1
  <2>3. PICK g : g = [i \in 1 .. n |-> IF i = n THEN f[n - 1] \o s[n] ELSE f[i]]
    OBVIOUS
  <2>4. \A i \in 1 .. n - 1 : g[i] = f[i] /\ f[i] = IF i = 1 THEN s[i] ELSE f[i - 1] \o s[i]
    <3>1. \A i \in 1 .. n - 1 : g[i] = f[i]
      BY <2>1, <2>3
    <3>2. \A i \in 1 .. n - 1 : f[i] = IF i = 1 THEN s[i] ELSE f[i - 1] \o s[i]
      BY <2>2 DEF Joins
    <3>3. QED
      BY <3>1, <3>2
  <2>5. \A i \in 1 .. n : g[i] = IF i = 1 THEN s[i] ELSE g[i - 1] \o s[i]
    <3>1. SUFFICES ASSUME NEW i \in 1 .. n
                   PROVE  g[i] = IF i = 1 THEN s[i] ELSE g[i - 1] \o s[i]
      OBVIOUS
    <3>2. CASE i = n
      <4>0. n \in 1 .. n /\ n - 1 \in 1 .. n - 1 /\ n # 1
        BY <1>4, <2>1
      <4>1. g[n] = f[n - 1] \o s[n] /\ n - 1 \in 1 .. n - 1 /\ n # 1
        BY <2>3, <4>0
      <4>2. g[n - 1] = f[n - 1]
        BY <2>4, <4>1
      <4>3. QED
        BY <3>2, <4>1, <4>2
    <3>3. CASE i # n
      <4>1. i \in 1 .. n - 1 /\ (i # 1 => i - 1 \in 1 .. n - 1)
        BY <2>1, <3>3
      <4>2. QED
        BY <2>4, <4>1
    <3>4. QED
      BY <3>2, <3>3
  <2>6. g = [i \in 1 .. n |-> IF i = 1 THEN s[i] ELSE g[i - 1] \o s[i]]
    BY <2>3, <2>5
  <2>7. QED
    BY <2>6 DEF Joins
<1>5. QED
  BY <1>3, <1>4

LEMMA FlattenIs ==
  ASSUME NEW s, IsSeq(s), s # <<>>
  PROVE  \E f : Joins(s, Len(s), f) /\ FlattenSeq(s) = f[Len(s)]
<1>1. Len(s) \in Nat /\ Len(s) > 0
  BY EmptySeq DEF IsSeq
<1>2. PICK f : f = CHOOSE g : g = [i \in 1 .. Len(s) |-> IF i = 1 THEN s[i] ELSE g[i - 1] \o s[i]]
  OBVIOUS
<1>3. \E g : g = [i \in 1 .. Len(s) |-> IF i = 1 THEN s[i] ELSE g[i - 1] \o s[i]]
  BY <1>1, JoinsExist DEF Joins
<1>4. f = [i \in 1 .. Len(s) |-> IF i = 1 THEN s[i] ELSE f[i - 1] \o s[i]]
  BY <1>2, <1>3
<1>5. FlattenSeq(s) = f[Len(s)]
  BY <1>1, <1>2 DEF FlattenSeq
<1>6. QED
  BY <1>4, <1>5 DEF Joins

LEMMA JoinsAreSequences ==
  ASSUME NEW s, Deep(s), NEW f, Joins(s, Len(s), f)
  PROVE  \A i \in 1 .. Len(s) : IsSeq(f[i])
<1> DEFINE Bad == {n \in 1 .. Len(s) : ~ IsSeq(f[n])}
<1>0. Len(s) \in Nat /\ DOMAIN s = 1 .. Len(s)
  BY DEF Deep, IsSeq
<1>1. SUFFICES ASSUME Bad # {}
               PROVE  FALSE
  OBVIOUS
<1>a. Bad \subseteq 1 .. Len(s)
  OBVIOUS
<1>b. \A n \in Bad : ~ IsSeq(f[n])
  OBVIOUS
<1>c. \A n \in 1 .. Len(s) : n \notin Bad => IsSeq(f[n])
  OBVIOUS
<1> HIDE DEF Bad
<1>2. PICK n \in Bad : n \in 1 .. Len(s) /\ n \in Nat /\ \A k \in 1 .. Len(s) : k < n => k \notin Bad
  BY <1>0, <1>1, <1>a, FirstIn
<1>3. IsSeq(s[n]) /\ n \in Nat
  BY <1>0, <1>2 DEF Deep
<1>4. f[n] = IF n = 1 THEN s[n] ELSE f[n - 1] \o s[n]
  BY <1>2 DEF Joins
<1>5. n # 1
  BY <1>2, <1>b, <1>3, <1>4
<1>6. n - 1 \in 1 .. Len(s) /\ n - 1 < n
  BY <1>0, <1>2, <1>5
<1>7. IsSeq(f[n - 1])
  BY <1>2, <1>c, <1>6
<1>8. IsSeq(f[n - 1] \o s[n])
  BY <1>3, <1>7, Joined
<1>9. QED
  BY <1>2, <1>b, <1>4, <1>5, <1>8

LEMMA FlattenEmpty == FlattenSeq(<<>>) = <<>>
<1>1. Len(<<>>) = 0
  OBVIOUS
<1>2. QED
  BY <1>1 DEF FlattenSeq

LEMMA FlattenIsSequence ==
  ASSUME NEW s, Deep(s)
  PROVE  IsSeq(FlattenSeq(s))
<1>1. CASE s = <<>>
  BY <1>1, FlattenEmpty DEF Deep
<1>2. CASE s # <<>>
  <2>1. Len(s) \in 1 .. Len(s)
    BY <1>2, EmptySeq DEF Deep, IsSeq
  <2>2. QED
    BY <1>2, <2>1, FlattenIs, JoinsAreSequences DEF Deep
<1>3. QED
  BY <1>1, <1>2

LEMMA JoinedAssociates ==
  ASSUME NEW a, NEW b, NEW c, IsSeq(a), IsSeq(b), IsSeq(c)
  PROVE  (a \o b) \o c = a \o (b \o c)
<1>1. PICK R : R = Range(a) \cup Range(b) \cup Range(c)
  OBVIOUS
<1>2. a \in Seq(R) /\ b \in Seq(R) /\ c \in Seq(R)
  BY <1>1, SeqMonotonic DEF IsSeq
<1>3. QED
  BY <1>2, ConcatAssociative

LEMMA FlattenOfJoined ==
  ASSUME NEW s, NEW t, Deep(s), Deep(t)
  PROVE  FlattenSeq(s \o t) = FlattenSeq(s) \o FlattenSeq(t) /\ Deep(s \o t)
<1>0. IsSeq(s) /\ IsSeq(t)
  BY DEF Deep
<1>1. PICK n, m, u : n = Len(s) /\ m = Len(t) /\ u = s \o t
  OBVIOUS
<1>2. /\ n \in Nat /\ m \in Nat /\ DOMAIN s = 1 .. n /\ DOMAIN t = 1 .. m
      /\ IsSeq(u) /\ Len(u) = n + m /\ DOMAIN u = 1 .. n + m
      /\ \A i \in 1 .. n : u[i] = s[i]
      /\ \A i \in 1 .. m : u[n + i] = t[i]
      /\ \A i \in 1 .. n + m : i \in 1 .. n \/ i - n \in 1 .. m
  BY <1>0, <1>1, Joined
<1>3. Deep(u)
  <2>1. \A i \in 1 .. n : IsSeq(u[i])
    BY <1>2 DEF Deep
  <2>2. \A i \in 1 .. m : IsSeq(u[n + i])
    BY <1>2 DEF Deep
  <2>3. \A i \in 1 .. n + m : i \in 1 .. n \/ \E k \in 1 .. m : i = n + k
    <3>1. \A i \in 1 .. n + m : i = n + (i - n)
      BY <1>2
    <3>2. QED
      BY <1>2, <3>1
  <2>4. SUFFICES ASSUME NEW i \in 1 .. n + m
                 PROVE  IsSeq(u[i])
    BY <1>2 DEF Deep
  <2>5. QED
    BY <2>1, <2>2, <2>3
<1>4. IsSeq(FlattenSeq(s)) /\ IsSeq(FlattenSeq(t))
  BY FlattenIsSequence
<1>5. CASE s = <<>>
  <2>1. u = t
    BY <1>0, <1>1, <1>5, ConcatEmptySeq DEF IsSeq
  <2>2. <<>> \o FlattenSeq(t) = FlattenSeq(t)
    BY <1>4, ConcatEmptySeq DEF IsSeq
  <2>3. QED
    BY <1>1, <1>3, <1>5, <2>1, <2>2, FlattenEmpty
<1>6. CASE t = <<>>
  <2>1. u = s
    BY <1>0, <1>1, <1>6, ConcatEmptySeq DEF IsSeq
  <2>2. FlattenSeq(s) \o <<>> = FlattenSeq(s)
    BY <1>4, ConcatEmptySeq DEF IsSeq
  <2>3. QED
    BY <1>1, <1>3, <1>6, <2>1, <2>2, FlattenEmpty
<1>7. CASE s # <<>> /\ t # <<>>
  <2>1. n > 0 /\ m > 0 /\ u # <<>>
    BY <1>0, <1>1, <1>2, <1>7, EmptySeq DEF IsSeq
  <2>2. PICK f : Joins(s, n, f) /\ FlattenSeq(s) = f[n]
    BY <1>0, <1>1, <1>7, FlattenIs
  <2>3. PICK g : Joins(t, m, g) /\ FlattenSeq(t) = g[m]
    BY <1>0, <1>1, <1>7, FlattenIs
  <2>4. PICK h : Joins(u, n + m, h) /\ FlattenSeq(u) = h[n + m]
    BY <1>2, <2>1, FlattenIs
  <2>5. \A i \in 1 .. n + m : h[i] = IF i = 1 THEN u[i] ELSE h[i - 1] \o u[i]
    BY <2>4 DEF Joins
  <2>6. \A i \in 1 .. n : h[i] = f[i]
    <3> DEFINE Bad == {i \in 1 .. n : h[i] # f[i]}
    <3>1. SUFFICES ASSUME Bad # {}
                   PROVE  FALSE
      OBVIOUS
    <3>a. Bad \subseteq 1 .. n /\ \A i \in 1 .. n : i \in Bad <=> h[i] # f[i]
      OBVIOUS
    <3> HIDE DEF Bad
    <3>2. PICK i \in Bad : i \in 1 .. n /\ i \in Nat /\ \A k \in 1 .. n : k < i => k \notin Bad
      BY <1>2, <3>1, <3>a, FirstIn
    <3>3. i \in 1 .. n + m /\ u[i] = s[i]
      BY <1>2, <3>2
    <3>4. f[i] = IF i = 1 THEN s[i] ELSE f[i - 1] \o s[i]
      BY <2>2, <3>2 DEF Joins
    <3>b. h[i] = IF i = 1 THEN s[i] ELSE h[i - 1] \o s[i]
      BY <2>5, <3>3
    <3>5. i # 1
      BY <3>2, <3>a, <3>b, <3>4
    <3>6. i - 1 \in 1 .. n /\ i - 1 < i
      BY <1>2, <3>2, <3>5
    <3>7. h[i - 1] = f[i - 1]
      BY <3>a, <3>2, <3>6
    <3>8. QED
      BY <3>2, <3>a, <3>b, <3>4, <3>5, <3>7
  <2>7. \A i \in 1 .. m : h[n + i] = f[n] \o g[i]
    <3> DEFINE Bad == {i \in 1 .. m : h[n + i] # f[n] \o g[i]}
    <3>1. SUFFICES ASSUME Bad # {}
                   PROVE  FALSE
      OBVIOUS
    <3>a. Bad \subseteq 1 .. m /\ \A i \in 1 .. m : i \in Bad <=> h[n + i] # f[n] \o g[i]
      OBVIOUS
    <3> HIDE DEF Bad
    <3>2. PICK i \in Bad : i \in 1 .. m /\ i \in Nat /\ \A k \in 1 .. m : k < i => k \notin Bad
      BY <1>2, <3>1, <3>a, FirstIn
    <3>3. i > 0 /\ n + i \in 1 .. n + m /\ n + i # 1 /\ (n + i) - 1 = n + (i - 1)
      BY <1>2, <2>1, <3>2
    <3>4. h[n + i] = h[n + (i - 1)] \o t[i]
      <4>1. u[n + i] = t[i]
        BY <1>2, <3>2
      <4>2. h[n + i] = h[(n + i) - 1] \o u[n + i]
        BY <2>5, <3>3
      <4>3. QED
        BY <3>3, <4>1, <4>2
    <3>5. g[i] = IF i = 1 THEN t[i] ELSE g[i - 1] \o t[i]
      BY <2>3, <3>2 DEF Joins
    <3>6. CASE i = 1
      <4>1. n + (i - 1) = n /\ n \in 1 .. n
        BY <1>2, <2>1, <3>6
      <4>2. h[n + i] = f[n] \o g[i]
        BY <2>6, <3>4, <3>5, <3>6, <4>1
      <4>3. QED
        BY <3>2, <3>a, <4>2
    <3>7. CASE i # 1
      <4>1. i - 1 \in 1 .. m /\ i - 1 < i /\ i - 1 \in Nat
        BY <1>2, <3>2, <3>3, <3>7
      <4>2. h[n + (i - 1)] = f[n] \o g[i - 1]
        BY <3>2, <3>a, <4>1
      <4>3. IsSeq(f[n]) /\ IsSeq(g[i - 1]) /\ IsSeq(t[i])
        <5>1. n \in 1 .. n
          BY <1>2, <2>1
        <5>2. QED
          BY <1>1, <1>2, <2>2, <2>3, <3>2, <4>1, <5>1, JoinsAreSequences DEF Deep
      <4>4. (f[n] \o g[i - 1]) \o t[i] = f[n] \o (g[i - 1] \o t[i])
        <5>1. PICK x, y, z : x = f[n] /\ y = g[i - 1] /\ z = t[i]
          OBVIOUS
        <5>2. IsSeq(x) /\ IsSeq(y) /\ IsSeq(z)
          BY <4>3, <5>1
        <5>3. (x \o y) \o z = x \o (y \o z)
          BY <5>2, JoinedAssociates
        <5>4. QED
          BY <5>1, <5>3
      <4>5. h[n + i] = f[n] \o g[i]
        BY <3>4, <3>5, <3>7, <4>2, <4>4
      <4>6. QED
        BY <3>2, <3>a, <4>5
    <3>8. QED
      BY <3>6, <3>7
  <2>8. m \in 1 .. m
    BY <1>2, <2>1
  <2>9. QED
    BY <1>1, <1>3, <2>2, <2>3, <2>4, <2>7, <2>8
<1>8. QED
  BY <1>5, <1>6, <1>7

(* Pieces of one token each give the tokens. *)
LEMMA FlattenOfOnes ==
  ASSUME NEW s, IsSeq(s), NEW r, r = [i \in DOMAIN s |-> <<s[i]>>]
  PROVE  FlattenSeq(r) = s /\ Deep(r)
<1>1. PICK n : n = Len(s)
  OBVIOUS
<1>2. n \in Nat /\ DOMAIN s = 1 .. n /\ DOMAIN r = 1 .. n /\ \A i \in 1 .. n : r[i] = <<s[i]>>
  BY <1>1 DEF IsSeq
<1>3. \A i \in 1 .. n : IsSeq(r[i])
  BY <1>2 DEF IsSeq, Range
<1>4. Deep(r) /\ Len(r) = n
  <2>1. r \in Seq(Range(r))
    <3>1. r = [i \in 1 .. n |-> r[i]] /\ \A i \in 1 .. n : r[i] \in Range(r)
      BY <1>2 DEF Range
    <3>2. QED
      BY <1>2, <3>1, SeqDef
  <2>2. Len(r) = n
    BY <1>2, <2>1
  <2>3. QED
    BY <1>2, <1>3, <2>1, <2>2 DEF Deep, IsSeq
<1>5. CASE n = 0
  <2>1. s = <<>> /\ r = <<>>
    BY <1>1, <1>4, <1>5, EmptySeq DEF Deep, IsSeq
  <2>2. QED
    BY <1>4, <2>1, FlattenEmpty
<1>6. CASE n > 0
  <2>1. r # <<>> /\ n \in 1 .. n
    BY <1>2, <1>4, <1>6
  <2>2. PICK f : Joins(r, n, f) /\ FlattenSeq(r) = f[n]
    BY <1>4, <2>1, FlattenIs DEF Deep
  <2>3. \A i \in 1 .. n : f[i] = SubSeq(s, 1, i)
    <3> DEFINE Bad == {i \in 1 .. n : f[i] # SubSeq(s, 1, i)}
    <3>1. SUFFICES ASSUME Bad # {}
                   PROVE  FALSE
      OBVIOUS
    <3>a. Bad \subseteq 1 .. n /\ \A i \in 1 .. n : i \in Bad <=> f[i] # SubSeq(s, 1, i)
      OBVIOUS
    <3> HIDE DEF Bad
    <3>2. PICK i \in Bad : i \in 1 .. n /\ i \in Nat /\ \A k \in 1 .. n : k < i => k \notin Bad
      BY <1>2, <3>1, <3>a, FirstIn
    <3>3. f[i] = (IF i = 1 THEN <<s[i]>> ELSE f[i - 1] \o <<s[i]>>) /\ i > 0
      <4>1. f[i] = IF i = 1 THEN r[i] ELSE f[i - 1] \o r[i]
        BY <2>2, <3>2 DEF Joins
      <4>2. r[i] = <<s[i]>> /\ i > 0
        BY <1>2, <3>2
      <4>3. QED
        BY <4>1, <4>2
    <3>4. SubSeq(s, 1, i) = SubSeq(s, 1, i - 1) \o <<s[i]>>
      <4>1. s \in Seq(Range(s)) /\ 1 \in 1 .. Len(s) /\ i \in 1 .. Len(s)
        BY <1>1, <1>2, <3>2 DEF IsSeq
      <4>2. QED
        BY <4>1, SubSeqRecursiveSecond
    <3>5. CASE i = 1
      <4>1. SubSeq(s, 1, i - 1) = <<>>
        BY <3>5, SubSeqEmpty
      <4>2. <<>> \o <<s[i]>> = <<s[i]>>
        OBVIOUS
      <4>3. QED
        BY <3>2, <3>a, <3>3, <3>4, <3>5, <4>1, <4>2
    <3>6. CASE i # 1
      <4>1. i - 1 \in 1 .. n /\ i - 1 < i
        BY <1>2, <3>2, <3>3, <3>6
      <4>2. f[i - 1] = SubSeq(s, 1, i - 1)
        BY <3>2, <3>a, <4>1
      <4>3. QED
        BY <3>2, <3>a, <3>3, <3>4, <3>6, <4>2
    <3>7. QED
      BY <3>5, <3>6
  <2>4. SubSeq(s, 1, n) = s
    BY <1>1, SubSeqFull DEF IsSeq
  <2>5. QED
    BY <1>4, <2>1, <2>2, <2>3, <2>4
<1>7. QED
  BY <1>2, <1>5, <1>6

-----------------------------------------------------------------------------
(* What formulas are expanded to. *)
Place(where) == IsSeq(where) /\ \A address \in Range(where) : IsSeq(address)
Table(applied) == \A id \in DOMAIN applied : IsSeq(applied[id])
Pieces(items, where, applied) == [i \in DOMAIN items |-> Piece(items[i], where, applied)]

LEMMA RootIsSequence == IsSeq(RootAddress)
<1>1. PICK d : RootAddress = <<d>>
  BY ConfiguratorAssumption
<1>2. QED
  BY <1>1 DEF IsSeq, Range

LEMMA AroundIsSequence ==
  ASSUME NEW where, Place(where), NEW levels \in Nat
  PROVE  IsSeq(Around(where, levels))
<1>1. IsSeq(<<>>)
  BY DEF IsSeq
<1>2. CASE where # <<>> /\ levels < Len(where)
  <2>1. Len(where) \in Nat /\ DOMAIN where = 1 .. Len(where)
    BY DEF Place, IsSeq
  <2>2. Len(where) - levels \in DOMAIN where
    BY <1>2, <2>1
  <2>3. where[Len(where) - levels] \in Range(where)
    BY <2>2 DEF Range
  <2>4. QED
    BY <1>2, <2>3 DEF Around, Place
<1>3. QED
  BY <1>1, <1>2, RootIsSequence DEF Around

LEMMA PieceIsSequence ==
  ASSUME NEW where, Place(where), NEW applied, Table(applied),
         NEW item, item.op \in Dollars \cup {"char"}, item.levels \in Nat
  PROVE  IsSeq(Piece(item, where, applied))
<1>1. IsSeq(<<>>) /\ IsSeq(<<item.id>>)
  BY DEF IsSeq, Range
<1>2. CASE item.op = "char"
  BY <1>1, <1>2 DEF Piece
<1>3. CASE item.op = "applyGenericFormula"
  BY <1>1, <1>3 DEF Piece, Table
<1>4. CASE item.op \in {"thisObjectAddress", "parentObjectAddress"}
  <2>1. Piece(item, where, applied) = Around(where, item.levels)
    BY <1>4 DEF Piece
  <2>2. QED
    BY <2>1, AroundIsSequence
<1>5. QED
  BY <1>2, <1>3, <1>4 DEF Dollars

LEMMA ItemsOfAFormula ==
  ASSUME NEW text, IsFormula(text)
  PROVE  \A i \in DOMAIN text : text[i].op \in Dollars \cup {"char"} /\ text[i].levels \in Nat
                                /\ (text[i].op = "thisObjectAddress" => text[i].levels = 0)
<1>1. \A i \in DOMAIN text : text[i] \in Range(text)
  BY DEF Range
<1>2. QED
  BY <1>1 DEF IsFormula

LEMMA PiecesAreDeep ==
  ASSUME NEW where, Place(where), NEW applied, Table(applied), NEW text, IsFormula(text)
  PROVE  /\ Deep(Pieces(text, where, applied)) /\ IsSeq(Expand(text, where, applied))
         /\ Expand(text, where, applied) = FlattenSeq(Pieces(text, where, applied))
<1>1. PICK n, r : n = Len(text) /\ r = Pieces(text, where, applied)
  OBVIOUS
<1>2. n \in Nat /\ DOMAIN text = 1 .. n
  BY <1>1 DEF IsFormula, IsSeq
<1>3. \A i \in 1 .. n : IsSeq(Piece(text[i], where, applied))
  BY <1>2, ItemsOfAFormula, PieceIsSequence
<1>4. DOMAIN r = 1 .. n /\ \A i \in 1 .. n : r[i] = Piece(text[i], where, applied)
  BY <1>1, <1>2 DEF Pieces
<1>5. IsSeq(r)
  <2>1. r = [i \in 1 .. n |-> r[i]]
    BY <1>1, <1>2, <1>4 DEF Pieces
  <2>2. \A i \in 1 .. n : r[i] \in Range(r)
    BY <1>4 DEF Range
  <2>3. QED
    BY <1>2, <2>1, <2>2, SeqDef DEF IsSeq
<1>6. Deep(r)
  BY <1>3, <1>4, <1>5 DEF Deep
<1>7. Expand(text, where, applied) = FlattenSeq(r)
  BY <1>1 DEF Expand, Pieces
<1>8. QED
  BY <1>1, <1>6, <1>7, FlattenIsSequence

LEMMA FormulasJoined ==
  ASSUME NEW a, NEW b, IsFormula(a), IsFormula(b)
  PROVE  IsFormula(a \o b)
<1>1. IsSeq(a) /\ IsSeq(b)
  BY DEF IsFormula
<1>2. IsSeq(a \o b) /\ Range(a \o b) = Range(a) \cup Range(b)
  BY <1>1, Joined
<1>3. QED
  BY <1>2 DEF IsFormula

LEMMA ExpandJoined ==
  ASSUME NEW where, Place(where), NEW applied, Table(applied), NEW a, NEW b, IsFormula(a), IsFormula(b)
  PROVE  Expand(a \o b, where, applied) = Expand(a, where, applied) \o Expand(b, where, applied)
<1>1. PICK n, m, u : n = Len(a) /\ m = Len(b) /\ u = a \o b
  OBVIOUS
<1>2. IsSeq(a) /\ IsSeq(b) /\ IsFormula(u)
  BY <1>1, FormulasJoined DEF IsFormula
<1>3. /\ n \in Nat /\ m \in Nat /\ DOMAIN a = 1 .. n /\ DOMAIN b = 1 .. m /\ DOMAIN u = 1 .. n + m
      /\ \A i \in 1 .. n : u[i] = a[i]
      /\ \A i \in 1 .. m : u[n + i] = b[i]
  BY <1>1, <1>2, Joined
<1>4. PICK r, s, t : /\ r = Pieces(u, where, applied) /\ s = Pieces(a, where, applied)
                     /\ t = Pieces(b, where, applied)
  OBVIOUS
<1>5. Deep(r) /\ Deep(s) /\ Deep(t)
  BY <1>2, <1>4, PiecesAreDeep
<1>6. DOMAIN r = 1 .. n + m /\ DOMAIN s = 1 .. n /\ DOMAIN t = 1 .. m
  BY <1>3, <1>4 DEF Pieces
<1>7. Len(s) = n /\ Len(t) = m /\ Len(r) = n + m /\ IsSeq(s) /\ IsSeq(t) /\ IsSeq(r)
  <2>1. \A k, l \in Nat : 1 .. k = 1 .. l => k = l
    <3>1. SUFFICES ASSUME NEW k \in Nat, NEW l \in Nat, 1 .. k = 1 .. l
                   PROVE  k = l
      OBVIOUS
    <3>2. k < l => l \in 1 .. l /\ l \notin 1 .. k
      OBVIOUS
    <3>3. l < k => k \in 1 .. k /\ k \notin 1 .. l
      OBVIOUS
    <3>4. QED
      BY <3>1, <3>2, <3>3
  <2>2. IsSeq(s) /\ IsSeq(t) /\ IsSeq(r)
    BY <1>5 DEF Deep
  <2>3. /\ Len(s) \in Nat /\ DOMAIN s = 1 .. Len(s) /\ Len(t) \in Nat /\ DOMAIN t = 1 .. Len(t)
        /\ Len(r) \in Nat /\ DOMAIN r = 1 .. Len(r)
    BY <2>2 DEF IsSeq
  <2>4. QED
    BY <1>3, <1>6, <2>1, <2>2, <2>3
<1>8. r = s \o t
  <2>1. PICK q : q = s \o t
    OBVIOUS
  <2>2. /\ IsSeq(q) /\ Len(q) = n + m /\ DOMAIN q = 1 .. n + m
        /\ \A i \in 1 .. n : q[i] = s[i]
        /\ \A i \in 1 .. m : q[n + i] = t[i]
        /\ \A i \in 1 .. n + m : i \in 1 .. n \/ i - n \in 1 .. m
    BY <1>7, <2>1, Joined
  <2>3. \A i \in 1 .. n : q[i] = r[i]
    <3>1. \A i \in 1 .. n : i \in 1 .. n + m
      BY <1>3
    <3>2. QED
      BY <1>3, <1>4, <2>2, <3>1 DEF Pieces
  <2>4. \A i \in 1 .. m : q[n + i] = r[n + i]
    <3>1. \A i \in 1 .. m : n + i \in 1 .. n + m
      BY <1>3
    <3>2. QED
      BY <1>3, <1>4, <2>2, <3>1 DEF Pieces
  <2>5. \A i \in 1 .. n + m : q[i] = r[i]
    <3>1. SUFFICES ASSUME NEW i \in 1 .. n + m, i \notin 1 .. n
                   PROVE  q[i] = r[i]
      BY <2>3
    <3>2. i - n \in 1 .. m /\ i = n + (i - n)
      BY <1>3, <2>2, <3>1
    <3>3. QED
      BY <2>4, <3>2
  <2>6. q = [i \in 1 .. n + m |-> q[i]] /\ r = [i \in 1 .. n + m |-> r[i]]
    BY <1>6, <1>7, <2>2 DEF IsSeq
  <2>7. QED
    BY <2>1, <2>5, <2>6
<1>9. FlattenSeq(r) = FlattenSeq(s) \o FlattenSeq(t)
  BY <1>5, <1>8, FlattenOfJoined
<1>10. QED
  BY <1>1, <1>2, <1>4, <1>9, PiecesAreDeep

LEMMA ExpandOne ==
  ASSUME NEW where, Place(where), NEW applied, Table(applied), NEW item, IsFormula(<<item>>)
  PROVE  Expand(<<item>>, where, applied) = Piece(item, where, applied)
<1>1. PICK r : r = Pieces(<<item>>, where, applied)
  OBVIOUS
<1>2. Deep(r) /\ Expand(<<item>>, where, applied) = FlattenSeq(r)
  BY <1>1, PiecesAreDeep
<1>3. DOMAIN r = {1} /\ r[1] = Piece(item, where, applied)
  BY <1>1 DEF Pieces
<1>4. Len(r) = 1 /\ r # <<>>
  <2>1. PICK n : n = Len(r)
    OBVIOUS
  <2>a. IsSeq(r)
    BY <1>2 DEF Deep
  <2>b. n \in Nat /\ DOMAIN r = 1 .. n
    BY <2>1, <2>a DEF IsSeq
  <2>c. 1 \in 1 .. n
    BY <1>3, <2>b
  <2>2. n > 0 /\ n \in 1 .. n
    BY <2>b, <2>c
  <2>3. Len(r) = 1
    BY <1>3, <2>1, <2>b, <2>2
  <2>4. QED
    BY <2>3
<1>5. PICK f : Joins(r, 1, f) /\ FlattenSeq(r) = f[1]
  BY <1>2, <1>4, FlattenIs DEF Deep
<1>6. f[1] = r[1]
  BY <1>5 DEF Joins
<1>7. QED
  BY <1>2, <1>3, <1>5, <1>6

LEMMA ExpandPlain ==
  ASSUME NEW where, Place(where), NEW applied, Table(applied), NEW text, IsFormula(text), Plain(text)
  PROVE  Expand(text, where, applied) = Tokens(text)
<1>1. PICK n, r, s : n = Len(text) /\ r = Pieces(text, where, applied) /\ s = Tokens(text)
  OBVIOUS
<1>2. n \in Nat /\ DOMAIN text = 1 .. n
  BY <1>1 DEF IsFormula, IsSeq
<1>3. DOMAIN s = 1 .. n /\ DOMAIN r = 1 .. n /\ \A i \in 1 .. n : s[i] = text[i].id /\ r[i] = <<s[i]>>
  BY <1>1, <1>2 DEF Tokens, Pieces, Piece, Plain
<1>4. IsSeq(s)
  <2>1. s = [i \in 1 .. n |-> s[i]]
    BY <1>1, <1>2, <1>3 DEF Tokens
  <2>2. \A i \in 1 .. n : s[i] \in Range(s)
    BY <1>3 DEF Range
  <2>3. QED
    BY <1>2, <2>1, <2>2, SeqDef DEF IsSeq
<1>5. r = [i \in DOMAIN s |-> <<s[i]>>]
  BY <1>1, <1>2, <1>3 DEF Pieces
<1>6. FlattenSeq(r) = s
  BY <1>4, <1>5, FlattenOfOnes
<1>7. QED
  BY <1>1, <1>6, PiecesAreDeep

LEMMA CharsAreAFormula ==
  ASSUME NEW tokens, IsSeq(tokens)
  PROVE  IsFormula(Chars(tokens)) /\ Plain(Chars(tokens)) /\ Tokens(Chars(tokens)) = tokens
<1>1. PICK n, s : n = Len(tokens) /\ s = Chars(tokens)
  OBVIOUS
<1>2. n \in Nat /\ DOMAIN tokens = 1 .. n /\ tokens = [i \in 1 .. n |-> tokens[i]]
  BY <1>1 DEF IsSeq
<1>3. DOMAIN s = 1 .. n /\ \A i \in 1 .. n : s[i].op = "char" /\ s[i].levels = 0 /\ s[i].id = tokens[i]
  BY <1>1, <1>2 DEF Chars, Char
<1>4. IsSeq(s)
  <2>1. s = [i \in 1 .. n |-> s[i]]
    BY <1>1, <1>2, <1>3 DEF Chars
  <2>2. \A i \in 1 .. n : s[i] \in Range(s)
    BY <1>3 DEF Range
  <2>3. QED
    BY <1>2, <2>1, <2>2, SeqDef DEF IsSeq
<1>5. IsFormula(s)
  BY <1>3, <1>4 DEF IsFormula, Range
<1>6. Plain(s) /\ Tokens(s) = tokens
  BY <1>2, <1>3 DEF Plain, Tokens
<1>7. QED
  BY <1>1, <1>5, <1>6

-----------------------------------------------------------------------------
(* Generic formulas that do not apply one another in a circle have a rank, and
   expanding them one level deeper changes nothing. *)
GenericInv == DOMAIN generic \subseteq GenericIds /\ \A id \in DOMAIN generic : IsFormula(generic[id])
Depth == Cardinality(GenericIds)

Expands(where, m, f) ==
  f = [n \in 0 .. m |-> [id \in DOMAIN generic |-> IF n = 0 THEN <<>> ELSE Expand(generic[id], where, f[n - 1])]]

LEMMA ExpandsExist ==
  ASSUME NEW where, NEW m \in Nat
  PROVE  \E f : Expands(where, m, f)
<1> DEFINE Bad == {n \in Nat : ~ \E f : Expands(where, n, f)}
<1>1. SUFFICES ASSUME Bad # {}
               PROVE  FALSE
  OBVIOUS
<1>2. PICK n \in Bad : \A k \in Bad : n <= k
  BY <1>1, First
<1>3. CASE n = 0
  <2>1. PICK f : f = [k \in 0 .. 0 |-> [id \in DOMAIN generic |-> <<>>]]
    OBVIOUS
  <2>2. \A k \in 0 .. 0 : k = 0
    OBVIOUS
  <2>3. f = [k \in 0 .. 0 |-> [id \in DOMAIN generic |-> IF k = 0 THEN <<>> ELSE Expand(generic[id], where, f[k - 1])]]
    BY <2>1, <2>2
  <2>4. QED
    BY <1>3, <2>3 DEF Expands
<1>4. CASE n # 0
  <2>1. n \in Nat /\ n - 1 \in Nat /\ n - 1 < n
    BY <1>4
  <2>2. PICK f : Expands(where, n - 1, f)
    BY <1>2, <2>1
  <2>3. PICK g : g = [k \in 0 .. n |-> IF k = n THEN [id \in DOMAIN generic |-> Expand(generic[id], where, f[n - 1])]
                                      ELSE f[k]]
    OBVIOUS
  <2>4. \A k \in 0 .. n - 1 : g[k] = f[k]
    BY <2>1, <2>3
  <2>5. \A k \in 0 .. n - 1 :
          f[k] = [id \in DOMAIN generic |-> IF k = 0 THEN <<>> ELSE Expand(generic[id], where, f[k - 1])]
    BY <2>2 DEF Expands
  <2>6. \A k \in 0 .. n :
          g[k] = [id \in DOMAIN generic |-> IF k = 0 THEN <<>> ELSE Expand(generic[id], where, g[k - 1])]
    <3>1. SUFFICES ASSUME NEW k \in 0 .. n
                   PROVE  g[k] = [id \in DOMAIN generic |-> IF k = 0 THEN <<>> ELSE Expand(generic[id], where, g[k - 1])]
      OBVIOUS
    <3>2. CASE k = n
      <4>1. n \in 0 .. n /\ n - 1 \in 0 .. n - 1
        BY <2>1
      <4>2. g[n] = [id \in DOMAIN generic |-> Expand(generic[id], where, f[n - 1])] /\ g[n - 1] = f[n - 1]
        BY <2>3, <2>4, <4>1
      <4>3. QED
        BY <1>4, <3>2, <4>2
    <3>3. CASE k = 0
      <4>1. k \in 0 .. n - 1
        BY <2>1, <3>3
      <4>2. QED
        BY <2>4, <2>5, <3>3, <4>1
    <3>4. CASE k # n /\ k # 0
      <4>1. k \in 0 .. n - 1 /\ k - 1 \in 0 .. n - 1
        BY <2>1, <3>4
      <4>2. g[k] = f[k] /\ g[k - 1] = f[k - 1]
        BY <2>4, <4>1
      <4>3. QED
        BY <2>5, <4>1, <4>2
    <3>5. QED
      BY <3>2, <3>3, <3>4
  <2>7. g = [k \in 0 .. n |-> [id \in DOMAIN generic |-> IF k = 0 THEN <<>> ELSE Expand(generic[id], where, g[k - 1])]]
    BY <2>3, <2>6
  <2>8. QED
    BY <2>7 DEF Expands
<1>5. QED
  BY <1>3, <1>4

LEMMA DepthIsNatural == Depth \in Nat
BY FS_CardinalityType, ConfiguratorAssumption DEF Depth

LEMMA AppliedAtIs ==
  ASSUME NEW where, NEW n \in 0 .. Depth
  PROVE  AppliedAt(where)[n] =
           [id \in DOMAIN generic |-> IF n = 0 THEN <<>> ELSE Expand(generic[id], where, AppliedAt(where)[n - 1])]
<1>1. PICK f : f = AppliedAt(where)
  OBVIOUS
<1>2. f = CHOOSE g : g = [k \in 0 .. Depth |->
             [id \in DOMAIN generic |-> IF k = 0 THEN <<>> ELSE Expand(generic[id], where, g[k - 1])]]
  BY <1>1 DEF AppliedAt, Depth
<1>3. \E g : g = [k \in 0 .. Depth |->
             [id \in DOMAIN generic |-> IF k = 0 THEN <<>> ELSE Expand(generic[id], where, g[k - 1])]]
  <2>1. \E g : Expands(where, Depth, g)
    BY ExpandsExist, DepthIsNatural
  <2>2. QED
    BY <2>1 DEF Expands
<1>4. f = [k \in 0 .. Depth |-> [id \in DOMAIN generic |-> IF k = 0 THEN <<>> ELSE Expand(generic[id], where, f[k - 1])]]
  BY <1>2, <1>3
<1>5. QED
  BY <1>1, <1>4

LEMMA AppliedAtIsATable ==
  ASSUME NEW where, Place(where), GenericInv
  PROVE  \A n \in 0 .. Depth : Table(AppliedAt(where)[n]) /\ DOMAIN AppliedAt(where)[n] = DOMAIN generic
<1> DEFINE Bad == {n \in 0 .. Depth : ~ Table(AppliedAt(where)[n])}
<1>1. \A n \in 0 .. Depth : DOMAIN AppliedAt(where)[n] = DOMAIN generic
  <2>1. SUFFICES ASSUME NEW n \in 0 .. Depth
                 PROVE  DOMAIN AppliedAt(where)[n] = DOMAIN generic
    OBVIOUS
  <2>2. AppliedAt(where)[n] =
          [id \in DOMAIN generic |-> IF n = 0 THEN <<>> ELSE Expand(generic[id], where, AppliedAt(where)[n - 1])]
    BY AppliedAtIs
  <2>3. QED
    BY <2>2
<1>2. SUFFICES ASSUME Bad # {}
               PROVE  FALSE
  BY <1>1
<1>3. Bad \subseteq Nat
  BY DepthIsNatural
<1>4. PICK n \in Bad : \A k \in Bad : n <= k
  BY <1>2, <1>3, First
<1>5. n \in 0 .. Depth /\ n \in Nat /\ ~ Table(AppliedAt(where)[n])
  BY <1>3
<1>6. AppliedAt(where)[n] =
        [id \in DOMAIN generic |-> IF n = 0 THEN <<>> ELSE Expand(generic[id], where, AppliedAt(where)[n - 1])]
  BY <1>5, AppliedAtIs
<1>7. CASE n = 0
  <2>1. IsSeq(<<>>)
    BY DEF IsSeq
  <2>2. QED
    BY <1>5, <1>6, <1>7, <2>1 DEF Table
<1>8. CASE n # 0
  <2>1. n - 1 \in 0 .. Depth /\ n - 1 < n
    BY <1>5, <1>8, DepthIsNatural
  <2>2. Table(AppliedAt(where)[n - 1])
    BY <1>3, <1>4, <1>5, <2>1
  <2>3. \A id \in DOMAIN generic : IsSeq(Expand(generic[id], where, AppliedAt(where)[n - 1]))
    BY <2>2, PiecesAreDeep DEF GenericInv
  <2>4. QED
    BY <1>5, <1>6, <1>8, <2>3 DEF Table
<1>9. QED
  BY <1>7, <1>8

Applies(text) == {text[i].id : i \in {k \in DOMAIN text : text[k].op = "applyGenericFormula"}}
Settles(S, rank) ==
  /\ S \subseteq DOMAIN generic /\ rank \in [S -> Nat]
  /\ \A id \in S : \A other \in Applies(generic[id]) : other \in S /\ rank[other] < rank[id]
Ends(text) == \E S, rank : Settles(S, rank) /\ Applies(text) \subseteq S

(* Ranks are at most the number of generic formulas. *)
LEMMA RanksAreSmall ==
  ASSUME GenericInv, NEW S, NEW rank, Settles(S, rank)
  PROVE  \E r : Settles(S, r) /\ \A id \in S : r[id] \in 1 .. Depth /\ IsFiniteSet(S) /\ Cardinality(S) <= Depth
<1> DEFINE Below(id) == {x \in S : rank[x] < rank[id]}
<1>1. IsFiniteSet(S) /\ Cardinality(S) \in Nat /\ Cardinality(S) <= Depth
  <2>1. S \in SUBSET GenericIds
    BY DEF Settles, GenericInv
  <2>2. QED
    BY <2>1, FS_Subset, FS_CardinalityType, ConfiguratorAssumption DEF Depth
<1>2. \A id \in S : /\ IsFiniteSet(Below(id)) /\ Cardinality(Below(id)) \in Nat
                    /\ Cardinality(Below(id)) < Cardinality(S)
  <2>1. SUFFICES ASSUME NEW id \in S
                 PROVE  /\ IsFiniteSet(Below(id)) /\ Cardinality(Below(id)) \in Nat
                        /\ Cardinality(Below(id)) < Cardinality(S)
    OBVIOUS
  <2>2. Below(id) \in SUBSET S /\ id \notin Below(id)
    BY DEF Settles
  <2>3. /\ IsFiniteSet(Below(id)) /\ Cardinality(Below(id)) <= Cardinality(S)
        /\ (Cardinality(S) = Cardinality(Below(id)) => S = Below(id))
    BY <1>1, <2>2, FS_Subset
  <2>4. Cardinality(Below(id)) \in Nat
    BY <2>3, FS_CardinalityType
  <2>5. QED
    BY <1>1, <2>2, <2>3, <2>4
<1>3. PICK r : r = [id \in S |-> Cardinality(Below(id)) + 1]
  OBVIOUS
<1>4. \A id \in S : r[id] \in 1 .. Depth
  <2>1. SUFFICES ASSUME NEW id \in S
                 PROVE  r[id] \in 1 .. Depth
    OBVIOUS
  <2>2. PICK c, d : c = Cardinality(Below(id)) /\ d = Cardinality(S)
    OBVIOUS
  <2>3. c \in Nat /\ d \in Nat /\ c < d /\ d <= Depth /\ r[id] = c + 1
    BY <1>1, <1>2, <1>3, <2>2
  <2>4. QED
    BY <2>3, DepthIsNatural
<1>5. \A id \in S : \A other \in Applies(generic[id]) : other \in S /\ r[other] < r[id]
  <2>1. SUFFICES ASSUME NEW id \in S, NEW other \in Applies(generic[id])
                 PROVE  other \in S /\ r[other] < r[id]
    OBVIOUS
  <2>2. other \in S /\ rank[other] < rank[id] /\ rank[other] \in Nat /\ rank[id] \in Nat
    BY DEF Settles
  <2>3. Below(other) \in SUBSET Below(id) /\ other \in Below(id) /\ other \notin Below(other)
    <3>1. \A x \in S : rank[x] \in Nat
      BY DEF Settles
    <3>2. QED
      BY <2>2, <3>1
  <2>4. IsFiniteSet(Below(id))
    BY <1>2
  <2>5. /\ Cardinality(Below(other)) <= Cardinality(Below(id))
        /\ (Cardinality(Below(id)) = Cardinality(Below(other)) => Below(id) = Below(other))
    BY <2>3, <2>4, FS_Subset
  <2>6. PICK c, d : c = Cardinality(Below(other)) /\ d = Cardinality(Below(id))
    OBVIOUS
  <2>7. c \in Nat /\ d \in Nat /\ c < d
    BY <1>2, <2>2, <2>3, <2>5, <2>6
  <2>8. r[other] = c + 1 /\ r[id] = d + 1
    BY <1>3, <2>2, <2>6
  <2>9. QED
    BY <2>2, <2>7, <2>8
<1>6. r \in [S -> Nat]
  BY <1>2, <1>3
<1>7. Settles(S, r)
  BY <1>5, <1>6 DEF Settles
<1>8. QED
  BY <1>1, <1>4, <1>7

(* A formula is expanded to the same if the tables give the same for what it
   applies. *)
LEMMA ExpandTheSame ==
  ASSUME NEW where, NEW f, NEW g, NEW text, DOMAIN f = DOMAIN g,
         IsFormula(text), \A id \in Applies(text) : f[id] = g[id]
  PROVE  Expand(text, where, f) = Expand(text, where, g)
<1>1. \A i \in DOMAIN text : Piece(text[i], where, f) = Piece(text[i], where, g)
  <2>1. SUFFICES ASSUME NEW i \in DOMAIN text
                 PROVE  Piece(text[i], where, f) = Piece(text[i], where, g)
    OBVIOUS
  <2>2. CASE text[i].op = "char"
    BY <2>2 DEF Piece
  <2>3. CASE text[i].op = "applyGenericFormula"
    <3>1. text[i].id \in Applies(text)
      BY <2>3 DEF Applies
    <3>2. f[text[i].id] = g[text[i].id]
      BY <3>1
    <3>3. QED
      BY <2>3, <3>2 DEF Piece
  <2>4. CASE text[i].op \in {"thisObjectAddress", "parentObjectAddress"}
    BY <2>4 DEF Piece
  <2>5. text[i].op \in Dollars \cup {"char"}
    BY ItemsOfAFormula
  <2>6. QED
    BY <2>2, <2>3, <2>4, <2>5 DEF Dollars
<1>2. [i \in DOMAIN text |-> Piece(text[i], where, f)] = [i \in DOMAIN text |-> Piece(text[i], where, g)]
  BY <1>1
<1>3. QED
  BY <1>2 DEF Expand

LEMMA RankIsDeepEnough ==
  ASSUME NEW where, Place(where), GenericInv, NEW S, NEW rank, Settles(S, rank), \A id \in S : rank[id] \in 1 .. Depth
  PROVE  \A id \in S : \A m, k \in 0 .. Depth :
           rank[id] <= m /\ rank[id] <= k => AppliedAt(where)[m][id] = AppliedAt(where)[k][id]
<1> DEFINE Same(id) == \A m, k \in 0 .. Depth :
             rank[id] <= m /\ rank[id] <= k => AppliedAt(where)[m][id] = AppliedAt(where)[k][id]
           Bad == {n \in Nat : \E id \in S : rank[id] = n /\ ~ Same(id)}
<1>1. \A id \in S : rank[id] \in Nat /\ (~ Same(id) => rank[id] \in Bad)
  BY DEF Settles
<1>2. SUFFICES ASSUME Bad # {}
               PROVE  FALSE
  BY <1>1
<1>3. PICK n \in Bad : \A k \in Bad : n <= k
  BY <1>2, First
<1>4. PICK id \in S : rank[id] = n /\ ~ Same(id)
  OBVIOUS
<1>a. n \in Nat /\ \A x \in S : rank[x] < n => Same(x)
  BY <1>1, <1>3
<1>b. \A x \in S, m \in 0 .. Depth, k \in 0 .. Depth :
        Same(x) /\ rank[x] <= m /\ rank[x] <= k => AppliedAt(where)[m][x] = AppliedAt(where)[k][x]
  OBVIOUS
<1>5. PICK m \in 0 .. Depth, k \in 0 .. Depth :
        n <= m /\ n <= k /\ AppliedAt(where)[m][id] # AppliedAt(where)[k][id]
  BY <1>4
<1> HIDE DEF Same, Bad
<1>6. /\ m \in 1 .. Depth /\ k \in 1 .. Depth /\ m - 1 \in 0 .. Depth /\ k - 1 \in 0 .. Depth
      /\ n \in Nat /\ n >= 1
  BY <1>a, <1>4, <1>5, DepthIsNatural
<1>7. id \in DOMAIN generic /\ IsFormula(generic[id])
  BY DEF Settles, GenericInv
<1>8. /\ AppliedAt(where)[m][id] = Expand(generic[id], where, AppliedAt(where)[m - 1])
      /\ AppliedAt(where)[k][id] = Expand(generic[id], where, AppliedAt(where)[k - 1])
  <2>1. \A j \in 1 .. Depth : AppliedAt(where)[j][id] = Expand(generic[id], where, AppliedAt(where)[j - 1])
    <3>1. SUFFICES ASSUME NEW j \in 1 .. Depth
                   PROVE  AppliedAt(where)[j][id] = Expand(generic[id], where, AppliedAt(where)[j - 1])
      OBVIOUS
    <3>2. j \in 0 .. Depth /\ j # 0
      BY DepthIsNatural
    <3>3. AppliedAt(where)[j] =
            [x \in DOMAIN generic |-> IF j = 0 THEN <<>> ELSE Expand(generic[x], where, AppliedAt(where)[j - 1])]
      BY <3>2, AppliedAtIs
    <3>4. QED
      BY <1>7, <3>2, <3>3
  <2>2. QED
    BY <1>6, <2>1
<1>9. \A other \in Applies(generic[id]) : AppliedAt(where)[m - 1][other] = AppliedAt(where)[k - 1][other]
  <2>1. SUFFICES ASSUME NEW other \in Applies(generic[id])
                 PROVE  AppliedAt(where)[m - 1][other] = AppliedAt(where)[k - 1][other]
    OBVIOUS
  <2>2. other \in S /\ rank[other] < n /\ rank[other] \in Nat
    BY <1>4 DEF Settles
  <2>3. Same(other)
    BY <1>a, <2>2
  <2>4. rank[other] <= m - 1 /\ rank[other] <= k - 1
    BY <1>5, <1>6, <2>2
  <2>5. QED
    BY <1>6, <1>b, <2>2, <2>3, <2>4
<1>10. DOMAIN AppliedAt(where)[m - 1] = DOMAIN AppliedAt(where)[k - 1]
  BY <1>6, AppliedAtIsATable
<1>11. Expand(generic[id], where, AppliedAt(where)[m - 1]) = Expand(generic[id], where, AppliedAt(where)[k - 1])
  <2>1. PICK f, g : f = AppliedAt(where)[m - 1] /\ g = AppliedAt(where)[k - 1]
    OBVIOUS
  <2>2. DOMAIN f = DOMAIN g /\ \A other \in Applies(generic[id]) : f[other] = g[other]
    BY <1>9, <1>10, <2>1
  <2>3. Expand(generic[id], where, f) = Expand(generic[id], where, g)
    BY <1>7, <2>2, ExpandTheSame
  <2>4. QED
    BY <2>1, <2>3
<1>12. QED
  BY <1>5, <1>8, <1>11

(* What a generic formula means is what its text means. *)
LEMMA GenericMeansItsText ==
  ASSUME NEW where, Place(where), GenericInv, NEW S, NEW rank, Settles(S, rank), NEW id \in S
  PROVE  AppliedAt(where)[Depth][id] = Meaning(generic[id], where)
<1>1. PICK r : Settles(S, r) /\ \A x \in S : r[x] \in 1 .. Depth
  BY RanksAreSmall
<1>2. r[id] \in Nat /\ r[id] \in 1 .. Depth /\ Depth \in 1 .. Depth /\ Depth - 1 \in 0 .. Depth /\ Depth \in 0 .. Depth
  BY <1>1, DepthIsNatural DEF Settles
<1>3. id \in DOMAIN generic /\ IsFormula(generic[id])
  BY <1>1 DEF Settles, GenericInv
<1>4. AppliedAt(where)[Depth][id] = Expand(generic[id], where, AppliedAt(where)[Depth - 1])
  <2>1. AppliedAt(where)[Depth] =
          [x \in DOMAIN generic |-> IF Depth = 0 THEN <<>> ELSE Expand(generic[x], where, AppliedAt(where)[Depth - 1])]
    BY <1>2, AppliedAtIs
  <2>2. Depth # 0
    BY <1>2, DepthIsNatural
  <2>3. QED
    BY <1>3, <2>1, <2>2
<1>5. \A other \in Applies(generic[id]) : AppliedAt(where)[Depth - 1][other] = AppliedAt(where)[Depth][other]
  <2>1. SUFFICES ASSUME NEW other \in Applies(generic[id])
                 PROVE  AppliedAt(where)[Depth - 1][other] = AppliedAt(where)[Depth][other]
    OBVIOUS
  <2>2. other \in S /\ r[other] < r[id] /\ r[other] \in Nat
    BY <1>1 DEF Settles
  <2>3. r[other] <= Depth - 1 /\ r[other] <= Depth
    BY <1>2, <2>2, DepthIsNatural
  <2>4. QED
    BY <1>1, <1>2, <2>2, <2>3, RankIsDeepEnough
<1>6. PICK f, g : f = AppliedAt(where)[Depth - 1] /\ g = AppliedAt(where)[Depth]
  OBVIOUS
<1>7. DOMAIN f = DOMAIN g
  BY <1>2, <1>6, AppliedAtIsATable
<1>8. Expand(generic[id], where, f) = Expand(generic[id], where, g)
  <2>1. \A other \in Applies(generic[id]) : f[other] = g[other]
    BY <1>5, <1>6
  <2>2. QED
    BY <1>3, <1>7, <2>1, ExpandTheSame
<1>9. Meaning(generic[id], where) = Expand(generic[id], where, g)
  BY <1>6 DEF Meaning, Depth
<1>10. QED
  BY <1>4, <1>6, <1>8, <1>9

-----------------------------------------------------------------------------
(* One round of elaborateFormula(): a piece gives way to what it means. *)

LEMMA Split ==
  ASSUME NEW s, IsSeq(s), NEW i \in DOMAIN s
  PROVE  /\ IsSeq(SubSeq(s, 1, i - 1)) /\ Range(SubSeq(s, 1, i - 1)) \subseteq Range(s)
         /\ IsSeq(SubSeq(s, i + 1, Len(s))) /\ Range(SubSeq(s, i + 1, Len(s))) \subseteq Range(s)
         /\ s = SubSeq(s, 1, i - 1) \o <<s[i]>> \o SubSeq(s, i + 1, Len(s))
<1>1. PICK n, R : n = Len(s) /\ R = Range(s)
  OBVIOUS
<1>2. n \in Nat /\ DOMAIN s = 1 .. n /\ s \in Seq(R) /\ i \in 1 .. n /\ i \in Nat
  BY <1>1 DEF IsSeq
<1>3. PICK a, b : a = SubSeq(s, 1, i - 1) /\ b = SubSeq(s, i + 1, n)
  OBVIOUS
<1>4. a \in Seq(R) /\ b \in Seq(R)
  <2>1. (\A k \in 1 .. i - 1 : s[k] \in R) /\ (\A k \in i + 1 .. n : s[k] \in R)
    BY <1>2
  <2>2. QED
    BY <1>2, <1>3, <2>1, SubSeqProperties
<1>5. \A t \in Seq(R) : IsSeq(t) /\ Range(t) \subseteq R
  BY IsASequence DEF Range
<1>6. SubSeq(s, 1, i) = a \o <<s[i]>>
  <2>1. 1 \in 1 .. Len(s) /\ i \in 1 .. Len(s)
    BY <1>1, <1>2
  <2>2. QED
    BY <1>2, <1>3, <2>1, SubSeqRecursiveSecond
<1>7. SubSeq(s, 1, i) \o b = s
  <2>1. 1 \in 1 .. Len(s) + 1 /\ i \in 1 - 1 .. Len(s) /\ Len(s) \in i .. Len(s)
    BY <1>1, <1>2
  <2>2. SubSeq(s, 1, i) \o SubSeq(s, i + 1, Len(s)) = SubSeq(s, 1, Len(s))
    BY <1>2, <2>1, ConcatAdjacentSubSeq
  <2>3. SubSeq(s, 1, Len(s)) = s
    BY <1>2, SubSeqFull
  <2>4. QED
    BY <1>1, <1>3, <2>2, <2>3
<1>8. QED
  BY <1>1, <1>3, <1>4, <1>5, <1>6, <1>7

LEMMA PartsOfAFormula ==
  ASSUME NEW text, IsFormula(text), NEW i \in DOMAIN text
  PROVE  IsFormula(SubSeq(text, 1, i - 1)) /\ IsFormula(<<text[i]>>) /\ IsFormula(SubSeq(text, i + 1, Len(text)))
<1>1. IsSeq(text) /\ text[i] \in Range(text)
  BY DEF IsFormula, Range
<1>2. IsSeq(<<text[i]>>) /\ Range(<<text[i]>>) \subseteq Range(text)
  BY <1>1 DEF IsSeq, Range
<1>3. \A part : IsSeq(part) /\ Range(part) \subseteq Range(text) => IsFormula(part)
  BY DEF IsFormula
<1>4. QED
  BY <1>1, <1>2, <1>3, Split

LEMMA AppliesJoined ==
  ASSUME NEW a, NEW b, IsSeq(a), IsSeq(b)
  PROVE  Applies(a \o b) = Applies(a) \cup Applies(b)
<1>1. \A text, x : x \in Applies(text) <=> \E item \in Range(text) : item.op = "applyGenericFormula" /\ x = item.id
  BY DEF Applies, Range
<1>2. Range(a \o b) = Range(a) \cup Range(b)
  BY Joined
<1>3. QED
  BY <1>1, <1>2

LEMMA AppliesOne ==
  ASSUME NEW item
  PROVE  Applies(<<item>>) = IF item.op = "applyGenericFormula" THEN {item.id} ELSE {}
<1>1. DOMAIN <<item>> = {1} /\ <<item>>[1] = item
  OBVIOUS
<1>2. QED
  BY <1>1 DEF Applies

LEMMA PlainAppliesNothing ==
  ASSUME NEW text, Plain(text)
  PROVE  Applies(text) = {}
BY DEF Plain, Applies

(* With the piece replaced by a text of the same meaning, a formula means what
   it meant. *)
LEMMA MeaningReplaced ==
  ASSUME NEW where, Place(where), GenericInv, NEW text, IsFormula(text), NEW new, IsFormula(new), NEW i \in DOMAIN text,
         Meaning(new, where) = Piece(text[i], where, AppliedAt(where)[Depth])
  PROVE  Meaning(SubSeq(text, 1, i - 1) \o new \o SubSeq(text, i + 1, Len(text)), where) = Meaning(text, where)
<1>1. PICK a, d, b, f : /\ a = SubSeq(text, 1, i - 1) /\ d = <<text[i]>> /\ b = SubSeq(text, i + 1, Len(text))
                        /\ f = AppliedAt(where)[Depth]
  OBVIOUS
<1>2. Table(f)
  BY <1>1, AppliedAtIsATable, DepthIsNatural
<1>3. IsFormula(a) /\ IsFormula(d) /\ IsFormula(b) /\ IsFormula(a \o new) /\ IsFormula(a \o d)
  BY <1>1, PartsOfAFormula, FormulasJoined
<1>4. text = a \o d \o b
  BY <1>1, Split DEF IsFormula
<1>5. Expand(a \o new \o b, where, f) = Expand(a, where, f) \o Expand(new, where, f) \o Expand(b, where, f)
  <2>1. PICK e : e = a \o new
    OBVIOUS
  <2>2. Expand(e \o b, where, f) = Expand(e, where, f) \o Expand(b, where, f)
    BY <1>2, <1>3, <2>1, ExpandJoined
  <2>3. Expand(a \o new, where, f) = Expand(a, where, f) \o Expand(new, where, f)
    BY <1>2, <1>3, ExpandJoined
  <2>4. QED
    BY <2>1, <2>2, <2>3
<1>6. Expand(a \o d \o b, where, f) = Expand(a, where, f) \o Expand(d, where, f) \o Expand(b, where, f)
  <2>1. PICK e : e = a \o d
    OBVIOUS
  <2>2. Expand(e \o b, where, f) = Expand(e, where, f) \o Expand(b, where, f)
    BY <1>2, <1>3, <2>1, ExpandJoined
  <2>3. Expand(a \o d, where, f) = Expand(a, where, f) \o Expand(d, where, f)
    BY <1>2, <1>3, ExpandJoined
  <2>4. QED
    BY <2>1, <2>2, <2>3
<1>7. Expand(d, where, f) = Piece(text[i], where, f)
  BY <1>1, <1>2, <1>3, ExpandOne
<1>8. Expand(new, where, f) = Piece(text[i], where, f)
  BY <1>1 DEF Meaning, Depth
<1>9. Expand(a \o new \o b, where, f) = Expand(text, where, f)
  BY <1>4, <1>5, <1>6, <1>7, <1>8
<1>10. QED
  BY <1>1, <1>9 DEF Meaning, Depth

LEMMA PlainMeansItself ==
  ASSUME NEW where, Place(where), GenericInv, NEW text, IsFormula(text), Plain(text)
  PROVE  Meaning(text, where) = Tokens(text)
<1>1. Table(AppliedAt(where)[Depth])
  BY AppliedAtIsATable, DepthIsNatural
<1>2. QED
  BY <1>1, ExpandPlain DEF Meaning, Depth

-----------------------------------------------------------------------------
(* The objects being configured stand in one another, and so do their
   addresses: elaborateParent() finds the one numLevelsUp above. *)

Within(a, b) == Len(a) < Len(b) /\ b[Len(a) + 1] = "." /\ \A i \in 1 .. Len(a) : b[i] = a[i]
Nests(where) ==
  /\ \A n \in DOMAIN where : where[n] # RootAddress
  /\ \A n, m \in DOMAIN where : n < m => Within(where[n], where[m])

LEMMA DotsAreFinite ==
  ASSUME NEW address, IsSeq(address)
  PROVE  IsFiniteSet(Dots(address)) /\ Dots(address) \subseteq 1 .. Len(address) /\ Len(address) \in Nat
<1>1. Len(address) \in Nat /\ DOMAIN address = 1 .. Len(address)
  BY DEF IsSeq
<1>2. Dots(address) \in SUBSET (1 .. Len(address))
  BY <1>1 DEF Dots
<1>3. IsFiniteSet(1 .. Len(address))
  BY <1>1, FS_Interval
<1>4. QED
  BY <1>1, <1>2, <1>3, FS_Subset

(* The dot that elaborateParent() cuts at is the one behind the parent. *)
LEMMA ParentIsWithin ==
  ASSUME NEW a, NEW b, IsSeq(a), IsSeq(b), Within(a, b), NEW levels \in Nat \ {0},
         Cardinality(Dots(b)) = Cardinality(Dots(a)) + levels
  PROVE  Parent(b, levels) = a
<1>1. PICK n : n = Len(a)
  OBVIOUS
<1>2. /\ n \in Nat /\ Len(b) \in Nat /\ n < Len(b) /\ DOMAIN a = 1 .. n /\ DOMAIN b = 1 .. Len(b)
      /\ b[n + 1] = "." /\ \A i \in 1 .. n : b[i] = a[i]
  BY <1>1 DEF Within, IsSeq
<1> DEFINE From(i) == {j \in Dots(b) : j >= i}
<1>3. IsFiniteSet(Dots(b)) /\ IsFiniteSet(Dots(a)) /\ Dots(b) \subseteq 1 .. Len(b) /\ Dots(a) \subseteq 1 .. n
  BY <1>1, DotsAreFinite
<1>4. Dots(a) \subseteq Dots(b) /\ From(n + 1) = Dots(b) \ Dots(a) /\ n + 1 \in Dots(b)
  <2>1. \A i \in 1 .. n : i \in Dots(a) <=> i \in Dots(b)
    BY <1>2 DEF Dots
  <2>2. n + 1 \in Dots(b)
    BY <1>2 DEF Dots
  <2>3. \A i \in 1 .. Len(b) : i \in 1 .. n <=> ~ (i >= n + 1)
    BY <1>2
  <2>4. QED
    BY <1>2, <1>3, <2>1, <2>2, <2>3
<1>5. Cardinality(From(n + 1)) = levels
  <2>1. Cardinality(Dots(b) \ Dots(a)) = Cardinality(Dots(b)) - Cardinality(Dots(b) \cap Dots(a))
    BY <1>3, FS_Difference
  <2>2. Dots(b) \cap Dots(a) = Dots(a)
    BY <1>4
  <2>3. PICK c, d : c = Cardinality(Dots(a)) /\ d = Cardinality(Dots(b))
    OBVIOUS
  <2>4. c \in Nat /\ d = c + levels
    BY <1>3, <2>3, FS_CardinalityType
  <2>5. QED
    BY <1>4, <2>1, <2>2, <2>3, <2>4
<1>6. \A i, k \in Dots(b) : i < k => Cardinality(From(i)) # Cardinality(From(k))
  <2>1. SUFFICES ASSUME NEW i \in Dots(b), NEW k \in Dots(b), i < k, Cardinality(From(i)) = Cardinality(From(k))
                 PROVE  FALSE
    OBVIOUS
  <2>2. From(i) \in SUBSET Dots(b) /\ From(k) \in SUBSET From(i) /\ i \in From(i) /\ i \notin From(k)
    BY <1>2, <1>3, <2>1
  <2>3. IsFiniteSet(From(i))
    BY <1>3, <2>2, FS_Subset
  <2>4. From(i) = From(k)
    BY <2>1, <2>2, <2>3, FS_Subset
  <2>5. QED
    BY <2>2, <2>4
<1>7. PICK p : p = CHOOSE i \in Dots(b) : Cardinality(From(i)) = levels
  OBVIOUS
<1>8. p \in Dots(b) /\ Cardinality(From(p)) = levels
  BY <1>4, <1>5, <1>7
<1>9. p = n + 1
  <2>1. p \in Nat /\ n + 1 \in Nat
    BY <1>2, <1>3, <1>8
  <2>2. p < n + 1 \/ n + 1 < p \/ p = n + 1
    BY <2>1
  <2>3. QED
    BY <1>4, <1>5, <1>6, <1>8, <2>2
<1>10. Parent(b, levels) = SubSeq(b, 1, p - 1)
  BY <1>7 DEF Parent
<1>11. SubSeq(b, 1, n) = a
  <2>1. \A i \in 1 .. n : b[i] \in Range(a)
    BY <1>2 DEF Range
  <2>2. PICK c : c = SubSeq(b, 1, n)
    OBVIOUS
  <2>3. c \in Seq(Range(a)) /\ Len(c) = n /\ \A i \in 1 .. n : c[i] = b[i]
    <3>1. /\ c \in Seq(Range(a)) /\ Len(c) = IF 1 <= n THEN n - 1 + 1 ELSE 0
          /\ \A i \in 1 .. n - 1 + 1 : c[i] = b[1 + i - 1]
      BY <1>2, <2>1, <2>2, SubSeqProperties
    <3>2. n - 1 + 1 = n /\ (~ 1 <= n => n = 0) /\ \A i \in 1 .. n : 1 + i - 1 = i
      BY <1>2
    <3>3. QED
      BY <3>1, <3>2
  <2>4. c = [i \in 1 .. n |-> c[i]] /\ a = [i \in 1 .. n |-> a[i]]
    BY <1>1, <2>3 DEF IsSeq
  <2>5. QED
    BY <1>2, <2>2, <2>3, <2>4
<1>12. QED
  BY <1>2, <1>9, <1>10, <1>11

LEMMA ParentIs ==
  ASSUME Place(place), Nests(place), OneDotALevel(place), NEW levels \in Nat, HasParent(Here, levels)
  PROVE  Parent(Here, levels) = Around(place, levels)
<1>1. PICK n : n = Len(place)
  OBVIOUS
<1>2. n \in Nat /\ DOMAIN place = 1 .. n /\ \A i \in 1 .. n : IsSeq(place[i])
  BY <1>1 DEF Place, IsSeq, Range
<1>3. CASE place = <<>>
  <2>1. Here = RootAddress
    BY <1>3 DEF Here
  <2>2. PICK d \in Digits : RootAddress = <<d>>
    BY ConfiguratorAssumption
  <2>3. d # "."
    BY ConfiguratorAssumption
  <2>4. Dots(RootAddress) = {}
    BY <2>2, <2>3 DEF Dots
  <2>5. levels = 0
    BY <2>1, <2>4, FS_EmptySet DEF HasParent
  <2>6. QED
    BY <1>3, <2>1, <2>5 DEF Parent, Around
<1>4. CASE place # <<>>
  <2>1. n \in 1 .. n /\ Here = place[n]
    BY <1>1, <1>2, <1>4, EmptySeq DEF Here, Last, Place, IsSeq
  <2>2. Cardinality(Dots(place[n])) = n - 1
    BY <1>2, <2>1 DEF OneDotALevel
  <2>3. levels <= n - 1 /\ n - levels \in 1 .. n
    BY <1>2, <2>1, <2>2 DEF HasParent
  <2>4. Around(place, levels) = place[n - levels]
    BY <1>1, <1>2, <1>4, <2>3 DEF Around
  <2>5. CASE levels = 0
    BY <1>2, <2>1, <2>4, <2>5 DEF Parent
  <2>6. CASE levels # 0
    <3>1. PICK m : m = n - levels
      OBVIOUS
    <3>2. m \in 1 .. n /\ m < n /\ Cardinality(Dots(place[m])) = m - 1
      BY <1>2, <2>3, <2>6, <3>1 DEF OneDotALevel
    <3>3. Within(place[m], place[n])
      BY <1>2, <2>1, <3>2 DEF Nests
    <3>4. Cardinality(Dots(place[n])) = Cardinality(Dots(place[m])) + levels
      <4>1. n - 1 = m - 1 + levels
        BY <1>2, <3>1, <3>2
      <4>2. QED
        BY <2>2, <3>2, <4>1
    <3>5. Parent(place[n], levels) = place[m]
      BY <1>2, <2>1, <2>6, <3>2, <3>3, <3>4, ParentIsWithin
    <3>6. QED
      BY <2>1, <2>4, <3>1, <3>5
  <2>7. QED
    BY <2>5, <2>6
<1>5. QED
  BY <1>3, <1>4

LEMMA ChildIsWithin ==
  ASSUME NEW parent, IsSeq(parent), parent # RootAddress, NEW name \in Names
  PROVE  Within(parent, Child(parent, name)) /\ Child(parent, name) # RootAddress
<1>1. IsSeq(<<".">>) /\ IsSeq(name)
  BY ConfiguratorAssumption DEF IsSeq, Range
<1>2. PICK n, a, b : n = Len(parent) /\ a = parent \o <<".">> /\ b = a \o name
  OBVIOUS
<1>3. Child(parent, name) = b
  BY <1>2 DEF Child
<1>4. n \in Nat /\ IsSeq(a) /\ Len(a) = n + 1 /\ a[n + 1] = "." /\ \A i \in 1 .. n : a[i] = parent[i]
  <2>1. Len(<<".">>) = 1 /\ <<".">>[1] = "."
    OBVIOUS
  <2>2. QED
    BY <1>1, <1>2, <2>1, Joined
<1>5. Len(name) \in Nat /\ Len(b) = n + 1 + Len(name) /\ DOMAIN b = 1 .. Len(b) /\ \A i \in 1 .. n + 1 : b[i] = a[i]
  BY <1>1, <1>2, <1>4, Joined
<1>6. n + 1 \in 1 .. n + 1 /\ n < Len(b) /\ \A i \in 1 .. n : i \in 1 .. n + 1
  BY <1>4, <1>5
<1>7. b[n + 1] = "." /\ \A i \in 1 .. n : b[i] = parent[i]
  BY <1>4, <1>5, <1>6
<1>8. b # RootAddress
  <2>1. PICK d \in Digits : RootAddress = <<d>>
    BY ConfiguratorAssumption
  <2>2. d # "."
    BY ConfiguratorAssumption
  <2>3. SUFFICES ASSUME b = <<d>>
                 PROVE  FALSE
    BY <2>1
  <2>4. Len(b) = 1
    BY <2>3
  <2>5. n = 0
    <3>1. PICK m, l : m = Len(name) /\ l = Len(b)
      OBVIOUS
    <3>2. m \in Nat /\ l = n + 1 + m /\ l = 1 /\ n \in Nat
      BY <1>4, <1>5, <2>4, <3>1
    <3>3. QED
      BY <3>2
  <2>6. b[1] = "." /\ b[1] = d
    BY <1>7, <2>3, <2>5
  <2>7. QED
    BY <2>2, <2>6
<1>9. QED
  BY <1>2, <1>3, <1>6, <1>7, <1>8 DEF Within

LEMMA NestsOpened ==
  ASSUME Place(place), Nests(place), NEW name \in Names, NEW there, there = Append(place, Child(Here, name))
  PROVE  Nests(there)
<1>1. PICK n, address : n = Len(place) /\ address = Child(Here, name)
  OBVIOUS
<1>2. n \in Nat /\ DOMAIN place = 1 .. n /\ \A i \in 1 .. n : IsSeq(place[i])
  BY <1>1 DEF Place, IsSeq, Range
<1>3. DOMAIN there = 1 .. n + 1 /\ there[n + 1] = address /\ \A i \in 1 .. n : there[i] = place[i]
  <2>1. place \in Seq(Range(place) \cup {address})
    BY DEF Place, IsSeq
  <2>2. there \in Seq(Range(place) \cup {address}) /\ Len(there) = n + 1
        /\ \A i \in 1 .. n : there[i] = place[i] /\ there[n + 1] = address
    BY <1>1, <2>1
  <2>3. DOMAIN there = 1 .. n + 1
    BY <2>2
  <2>4. there[n + 1] = address
    BY <1>1, <1>2, <2>1
  <2>5. QED
    BY <2>2, <2>3, <2>4
<1>4. CASE place = <<>>
  <2>1. n = 0 /\ address = name
    BY <1>1, <1>4 DEF Here, Child
  <2>2. address # RootAddress
    BY <2>1, ConfiguratorAssumption
  <2>3. \A i \in 1 .. n + 1 : i = n + 1
    BY <2>1
  <2>4. \A i \in DOMAIN there : i = n + 1 /\ there[i] # RootAddress
    BY <1>3, <2>2, <2>3
  <2>5. QED
    BY <1>2, <2>4 DEF Nests
<1>5. CASE place # <<>>
  <2>1. n \in 1 .. n /\ Here = place[n] /\ n > 0
    BY <1>1, <1>2, <1>5, EmptySeq DEF Here, Last, Place, IsSeq
  <2>2. Within(place[n], address) /\ address # RootAddress
    BY <1>1, <1>2, <2>1, ChildIsWithin DEF Nests
  <2>3. \A i \in 1 .. n + 1 : i \in 1 .. n \/ i = n + 1
    BY <1>2
  <2>4. \A i \in 1 .. n : Within(place[i], address)
    <3>1. SUFFICES ASSUME NEW i \in 1 .. n, i # n
                   PROVE  Within(place[i], address)
      BY <2>2
    <3>2. Within(place[i], place[n])
      BY <1>2, <2>1, <3>1 DEF Nests
    <3>3. PICK a, b : a = place[i] /\ b = place[n]
      OBVIOUS
    <3>4. IsSeq(a) /\ IsSeq(b) /\ Within(a, b) /\ Within(b, address)
      BY <1>2, <2>1, <2>2, <3>2, <3>3
    <3>5. IsSeq(address)
      BY <1>1, <1>2, <2>1, ChildIs, ConfiguratorAssumption
    <3>6. /\ Len(a) \in Nat /\ Len(b) \in Nat /\ Len(address) \in Nat /\ Len(a) < Len(b) /\ Len(b) < Len(address)
          /\ Len(a) + 1 \in 1 .. Len(b) /\ \A k \in 1 .. Len(a) : k \in 1 .. Len(b)
      BY <3>4, <3>5 DEF Within, IsSeq
    <3>7. address[Len(a) + 1] = "." /\ \A k \in 1 .. Len(a) : address[k] = a[k]
      BY <3>4, <3>6 DEF Within
    <3>8. QED
      BY <3>3, <3>6, <3>7 DEF Within
  <2>5. \A i \in DOMAIN there : there[i] # RootAddress
    BY <1>2, <1>3, <2>2, <2>3 DEF Nests
  <2>6. ASSUME NEW i \in DOMAIN there, NEW k \in DOMAIN there, i < k
        PROVE  Within(there[i], there[k])
    <3>1. i \in 1 .. n
      BY <1>2, <1>3, <2>6
    <3>2. CASE k \in 1 .. n
      BY <1>2, <1>3, <2>6, <3>1, <3>2 DEF Nests
    <3>3. CASE k = n + 1
      BY <1>3, <2>4, <3>1, <3>3
    <3>4. QED
      BY <1>3, <2>3, <3>2, <3>3
  <2>7. QED
    BY <2>5, <2>6 DEF Nests
<1>6. QED
  BY <1>4, <1>5

LEMMA NestsClosed ==
  ASSUME Place(place), Nests(place), place # <<>>
  PROVE  Nests(Front(place))
<1>1. PICK n, there : n = Len(place) /\ there = SubSeq(place, 1, n - 1)
  OBVIOUS
<1>2. n \in Nat /\ n > 0 /\ DOMAIN place = 1 .. n /\ place \in Seq(Range(place))
  BY <1>1, EmptySeq DEF Place, IsSeq
<1>3. Front(place) = there
  BY <1>1 DEF Front
<1>4. DOMAIN there = 1 .. n - 1 /\ \A i \in 1 .. n - 1 : there[i] = place[i]
  BY <1>1, <1>2
<1>5. \A i \in 1 .. n - 1 : i \in 1 .. n
  BY <1>2
<1>6. QED
  BY <1>2, <1>3, <1>4, <1>5 DEF Nests

-----------------------------------------------------------------------------
(* While the elements are configured, generic formulas stay, and so does what
   formulas mean. *)
Stands(text, whole, where) ==
  Ends(text) => Ends(whole) /\ (OneDotALevel(where) => Meaning(text, where) = Meaning(whole, where))

LEMMA MeaningStays ==
  ASSUME UNCHANGED generic, NEW text, NEW where
  PROVE  Meaning(text, where)' = Meaning(text, where)
<1>1. AppliedAt(where)' = AppliedAt(where)
  BY DEF AppliedAt, Expand, Piece, Around
<1>2. QED
  BY <1>1 DEF Meaning, Expand, Piece, Around

LEMMA EndsStays ==
  ASSUME UNCHANGED generic, NEW text
  PROVE  Ends(text)' = Ends(text)
BY DEF Ends, Settles, Applies

LEMMA StandsStays ==
  ASSUME UNCHANGED generic, NEW text, NEW whole, NEW where
  PROVE  Stands(text, whole, where)' = Stands(text, whole, where)
<1>1. /\ Meaning(text, where)' = Meaning(text, where) /\ Meaning(whole, where)' = Meaning(whole, where)
      /\ Ends(text)' = Ends(text) /\ Ends(whole)' = Ends(whole)
  BY MeaningStays, EndsStays
<1>2. OneDotALevel(where)' = OneDotALevel(where)
  BY DEF OneDotALevel, Dots
<1>3. QED
  BY <1>1, <1>2 DEF Stands

(* What Substitute() makes of a formula. *)
Substituted(text, i, new) == SubSeq(text, 1, i - 1) \o new \o SubSeq(text, i + 1, Len(text))

LEMMA AppliesSubstituted ==
  ASSUME NEW text, IsFormula(text), NEW i \in DOMAIN text, NEW new, IsFormula(new)
  PROVE  \E rest : /\ Applies(text) = rest \cup Applies(<<text[i]>>)
                   /\ Applies(Substituted(text, i, new)) = rest \cup Applies(new)
                   /\ IsFormula(Substituted(text, i, new))
<1>1. PICK a, d, b : a = SubSeq(text, 1, i - 1) /\ d = <<text[i]>> /\ b = SubSeq(text, i + 1, Len(text))
  OBVIOUS
<1>2. IsFormula(a) /\ IsFormula(d) /\ IsFormula(b)
  BY <1>1, PartsOfAFormula
<1>3. IsFormula(a \o d) /\ IsFormula(a \o new)
  BY <1>2, FormulasJoined
<1>4. text = a \o d \o b
  BY <1>1, Split DEF IsFormula
<1>5. PICK e, f : e = a \o d /\ f = a \o new
  OBVIOUS
<1>6. Applies(text) = Applies(e) \cup Applies(b) /\ Applies(e) = Applies(a) \cup Applies(d)
  BY <1>2, <1>3, <1>4, <1>5, AppliesJoined DEF IsFormula
<1>7. Applies(f \o b) = Applies(f) \cup Applies(b) /\ Applies(f) = Applies(a) \cup Applies(new)
  BY <1>2, <1>3, <1>5, AppliesJoined DEF IsFormula
<1>8. Substituted(text, i, new) = f \o b /\ IsFormula(f \o b)
  BY <1>1, <1>2, <1>3, <1>5, FormulasJoined DEF Substituted
<1>9. PICK rest : rest = Applies(a) \cup Applies(b)
  OBVIOUS
<1>10. Applies(text) = rest \cup Applies(<<text[i]>>)
  BY <1>1, <1>6, <1>9
<1>11. Applies(Substituted(text, i, new)) = rest \cup Applies(new)
  BY <1>7, <1>8, <1>9
<1>12. QED
  BY <1>8, <1>10, <1>11

(* The address of an object instead of the dollar expression for it. *)
LEMMA AddressStands ==
  ASSUME GenericInv, NEW where, Place(where), NEW text, IsFormula(text), NEW whole, Stands(text, whole, where),
         NEW i \in DOMAIN text, text[i].op \in {"thisObjectAddress", "parentObjectAddress"},
         NEW address, IsSeq(address), OneDotALevel(where) => address = Around(where, text[i].levels)
  PROVE  /\ IsFormula(Substituted(text, i, Chars(address)))
         /\ Stands(Substituted(text, i, Chars(address)), whole, where)
<1>1. PICK new, done : new = Chars(address) /\ done = Substituted(text, i, new)
  OBVIOUS
<1>2. IsFormula(new) /\ Plain(new) /\ Tokens(new) = address
  BY <1>1, CharsAreAFormula
<1>3. PICK rest : /\ Applies(text) = rest \cup Applies(<<text[i]>>) /\ Applies(done) = rest \cup Applies(new)
                  /\ IsFormula(done)
  BY <1>1, <1>2, AppliesSubstituted
<1>4. Applies(done) = Applies(text)
  <2>1. Applies(new) = {}
    BY <1>2, PlainAppliesNothing
  <2>2. Applies(<<text[i]>>) = {}
    BY AppliesOne
  <2>3. QED
    BY <1>3, <2>1, <2>2
<1>5. Ends(done) => Ends(text)
  BY <1>4 DEF Ends
<1>6. ASSUME OneDotALevel(where)
      PROVE  Meaning(done, where) = Meaning(text, where)
  <2>1. Meaning(new, where) = address
    BY <1>2, PlainMeansItself
  <2>2. Piece(text[i], where, AppliedAt(where)[Depth]) = Around(where, text[i].levels)
    BY DEF Piece
  <2>3. Meaning(new, where) = Piece(text[i], where, AppliedAt(where)[Depth])
    BY <1>6, <2>1, <2>2
  <2>4. QED
    BY <1>1, <1>2, <2>3, MeaningReplaced DEF Substituted
<1>7. Stands(done, whole, where)
  BY <1>5, <1>6 DEF Stands
<1>8. QED
  BY <1>1, <1>3, <1>7

(* If what is left once a generic formula is applied comes to an end, so did
   the formula that applies it. *)
LEMMA ApplyingEnds ==
  ASSUME GenericInv, NEW S, NEW rank, Settles(S, rank), NEW id \in DOMAIN generic, Applies(generic[id]) \subseteq S
  PROVE  \E r : Settles(S \cup {id}, r)
<1>1. CASE id \in S
  <2>1. S \cup {id} = S
    BY <1>1
  <2>2. QED
    BY <2>1
<1>2. CASE id \notin S
  <2>1. PICK r : Settles(S, r) /\ \A x \in S : r[x] \in 1 .. Depth
    BY RanksAreSmall
  <2>2. PICK top : top = Depth + 1
    OBVIOUS
  <2>3. top \in Nat /\ \A x \in S : r[x] \in Nat /\ r[x] < top
    BY <2>1, <2>2, DepthIsNatural
  <2>4. PICK q : q = [x \in S \cup {id} |-> IF x \in S THEN r[x] ELSE top]
    OBVIOUS
  <2>5. q[id] = top /\ \A x \in S : q[x] = r[x]
    BY <1>2, <2>4
  <2>6. q \in [S \cup {id} -> Nat]
    BY <2>3, <2>4
  <2>7. S \cup {id} \subseteq DOMAIN generic
    BY DEF Settles
  <2>8. \A x \in S \cup {id} : \A other \in Applies(generic[x]) : other \in S \cup {id} /\ q[other] < q[x]
    <3>1. ASSUME NEW x \in S, NEW other \in Applies(generic[x])
          PROVE  other \in S /\ q[other] < q[x]
      BY <2>1, <2>5, <3>1 DEF Settles
    <3>2. ASSUME NEW other \in Applies(generic[id])
          PROVE  other \in S /\ q[other] < q[id]
      BY <2>3, <2>5, <3>2
    <3>3. QED
      BY <3>1, <3>2
  <2>9. QED
    BY <2>6, <2>7, <2>8 DEF Settles
<1>3. QED
  BY <1>1, <1>2

(* A generic formula instead of the dollar expression that applies it. *)
LEMMA GenericStands ==
  ASSUME GenericInv, NEW where, Place(where), NEW text, IsFormula(text), NEW whole, Stands(text, whole, where),
         NEW i \in DOMAIN text, text[i].op = "applyGenericFormula", text[i].id \in DOMAIN generic
  PROVE  /\ IsFormula(Substituted(text, i, generic[text[i].id]))
         /\ Stands(Substituted(text, i, generic[text[i].id]), whole, where)
<1>1. PICK id, new, done : id = text[i].id /\ new = generic[id] /\ done = Substituted(text, i, new)
  OBVIOUS
<1>2. IsFormula(new)
  BY <1>1 DEF GenericInv
<1>3. PICK rest : /\ Applies(text) = rest \cup Applies(<<text[i]>>) /\ Applies(done) = rest \cup Applies(new)
                  /\ IsFormula(done)
  BY <1>1, <1>2, AppliesSubstituted
<1>4. Applies(<<text[i]>>) = {id}
  BY <1>1, AppliesOne
<1>5. ASSUME Ends(done)
      PROVE  Ends(text) /\ Meaning(done, where) = Meaning(text, where)
  <2>1. PICK S, rank : Settles(S, rank) /\ Applies(done) \subseteq S
    BY <1>5 DEF Ends
  <2>2. PICK r : Settles(S \cup {id}, r)
    BY <1>1, <1>3, <2>1, ApplyingEnds
  <2>3. Ends(text)
    BY <1>3, <1>4, <2>1, <2>2 DEF Ends
  <2>4. AppliedAt(where)[Depth][id] = Meaning(new, where)
    BY <1>1, <2>2, GenericMeansItsText
  <2>5. Piece(text[i], where, AppliedAt(where)[Depth]) = AppliedAt(where)[Depth][id]
    <3>1. DOMAIN AppliedAt(where)[Depth] = DOMAIN generic
      BY AppliedAtIsATable, DepthIsNatural
    <3>2. QED
      BY <1>1, <3>1 DEF Piece
  <2>6. Meaning(done, where) = Meaning(text, where)
    BY <1>1, <1>2, <2>4, <2>5, MeaningReplaced DEF Substituted
  <2>7. QED
    BY <2>3, <2>6
<1>6. Stands(done, whole, where)
  BY <1>5 DEF Stands
<1>7. QED
  BY <1>1, <1>3, <1>6

(* elaborateParent() finds a dot to cut at. *)
LEMMA ParentIsSequence ==
  ASSUME NEW address, IsSeq(address), NEW levels \in Nat, HasParent(address, levels)
  PROVE  IsSeq(Parent(address, levels))
<1> DEFINE From(i) == {j \in Dots(address) : j >= i}
           Counts == {Cardinality(From(i)) : i \in {k \in Dots(address) : Cardinality(From(k)) >= levels}}
<1>1. CASE levels = 0
  BY <1>1 DEF Parent
<1>2. CASE levels # 0
  <2>1. IsFiniteSet(Dots(address)) /\ Dots(address) \subseteq Nat
    BY DotsAreFinite
  <2>2. \A i \in Dots(address) : IsFiniteSet(From(i)) /\ Cardinality(From(i)) \in Nat
    <3>1. SUFFICES ASSUME NEW i \in Dots(address)
                   PROVE  IsFiniteSet(From(i)) /\ Cardinality(From(i)) \in Nat
      OBVIOUS
    <3>2. From(i) \in SUBSET Dots(address)
      OBVIOUS
    <3>3. QED
      BY <2>1, <3>2, FS_Subset, FS_CardinalityType
  <2>3. Dots(address) # {}
    <3>1. Dots(address) = {} => Cardinality(Dots(address)) = 0
      BY FS_EmptySet
    <3>2. QED
      BY <1>2, <3>1 DEF HasParent
  <2>4. Counts # {}
    <3>1. PICK i \in Dots(address) : \A j \in Dots(address) : i <= j
      BY <2>1, <2>3, First
    <3>2. From(i) = Dots(address)
      BY <2>1, <3>1
    <3>3. Cardinality(From(i)) >= levels
      <4>1. Cardinality(Dots(address)) \in Nat
        BY <2>1, FS_CardinalityType
      <4>2. QED
        BY <3>2, <4>1 DEF HasParent
    <3>4. QED
      BY <3>3
  <2>5. PICK c \in Counts : \A d \in Counts : c <= d
    <3>1. Counts \subseteq Nat
      BY <2>2
    <3>2. QED
      BY <2>4, <3>1, First
  <2>6. PICK i \in Dots(address) : c = Cardinality(From(i)) /\ c >= levels
    OBVIOUS
  <2>7. c \in Nat
    BY <2>2, <2>6
  <2>8. ASSUME c > levels
        PROVE  FALSE
    <3>1. PICK R : R = From(i) \ {i}
      OBVIOUS
    <3>2. IsFiniteSet(R) /\ Cardinality(R) = c - 1
      <4>1. i \in From(i)
        BY <2>1
      <4>2. QED
        BY <2>2, <2>6, <3>1, <4>1, FS_RemoveElement
    <3>3. R # {} /\ R \subseteq Nat
      <4>1. R = {} => Cardinality(R) = 0
        BY FS_EmptySet
      <4>2. c - 1 # 0
        BY <1>2, <2>7, <2>8
      <4>3. QED
        BY <2>1, <3>1, <3>2, <4>1, <4>2
    <3>4. PICK k \in R : \A j \in R : k <= j
      BY <3>3, First
    <3>5. k \in Dots(address) /\ i < k /\ i \in Nat /\ k \in Nat
      BY <2>1, <3>1
    <3>6. From(k) = R
      <4>1. \A j \in Dots(address) : j >= k => j \in R
        BY <2>1, <3>1, <3>5
      <4>2. \A j \in R : j \in Dots(address) /\ j >= k
        BY <3>1, <3>3, <3>4
      <4>3. QED
        BY <4>1, <4>2
    <3>7. Cardinality(From(k)) = c - 1 /\ c - 1 >= levels
      BY <2>7, <2>8, <3>2, <3>6
    <3>8. c - 1 \in Counts
      BY <3>5, <3>7
    <3>9. c <= c - 1
      BY <2>5, <3>8
    <3>10. QED
      BY <2>7, <3>9
  <2>9. Cardinality(From(i)) = levels
    BY <2>6, <2>7, <2>8
  <2>10. PICK p : p = CHOOSE k \in Dots(address) : Cardinality(From(k)) = levels
    OBVIOUS
  <2>11. p \in Dots(address)
    BY <2>9, <2>10
  <2>12. Parent(address, levels) = SubSeq(address, 1, p - 1)
    BY <1>2, <2>10 DEF Parent
  <2>13. p \in DOMAIN address
    BY <2>11 DEF Dots
  <2>14. QED
    BY <2>12, <2>13, Split
<1>3. QED
  BY <1>1, <1>2

LEMMA HereIsAround ==
  ASSUME Place(place)
  PROVE  Here = Around(place, 0) /\ IsSeq(Here)
<1>1. Len(place) \in Nat /\ (place # <<>> => Len(place) > 0)
  BY EmptySeq DEF Place, IsSeq
<1>2. Here = Around(place, 0)
  BY <1>1 DEF Here, Last, Around
<1>3. QED
  BY <1>2, AroundIsSequence

-----------------------------------------------------------------------------
(* What was read is what is named, by everything on a list. *)
Right(list, v) ==
  /\ list[v].reads \subseteq 1 .. v - 1
  /\ list[v].source = "calculated" /\ OneDotALevel(list[v].place) =>
       {list[r].name : r \in list[v].reads} = VariableNames(Meaning(list[v].text, list[v].place))

(* While a formula is elaborated, what has become of it stands for the whole. *)
ElaborationInv ==
  /\ GenericInv /\ Nests(place)
  /\ stage = "generic" => listed = <<>>
  /\ stage = "elaborate" => IsFormula(work) /\ IsFormula(wanted.text) /\ Stands(work, wanted.text, place)
  /\ \A v \in DOMAIN listed : Right(listed, v)

LEMMA RightStays ==
  ASSUME UNCHANGED generic, NEW list, NEW v
  PROVE  Right(list, v)' = Right(list, v)
<1>1. PICK text, where : text = list[v].text /\ where = list[v].place
  OBVIOUS
<1>2. Meaning(text, where)' = Meaning(text, where)
  BY MeaningStays
<1>3. QED
  BY <1>1, <1>2 DEF Right, OneDotALevel, Dots, VariableNames, Operands, IsOperand, Numbers

(* What stands behind it on the list changes nothing for a variable. *)
LEMMA RightLonger ==
  ASSUME NEW list, IsSeq(list), NEW longer, \A v \in DOMAIN list : longer[v] = list[v],
         NEW v \in DOMAIN list, Right(list, v)
  PROVE  Right(longer, v)
<1>1. DOMAIN list = 1 .. Len(list) /\ Len(list) \in Nat
  BY DEF IsSeq
<1>2. longer[v] = list[v] /\ \A r \in list[v].reads : longer[r] = list[r]
  <2>1. list[v].reads \subseteq 1 .. v - 1 /\ \A r \in 1 .. v - 1 : r \in DOMAIN list
    BY <1>1 DEF Right
  <2>2. QED
    BY <2>1
<1>3. {longer[r].name : r \in longer[v].reads} = {list[r].name : r \in list[v].reads}
  BY <1>2
<1>4. QED
  BY <1>2, <1>3 DEF Right

(* The rest of the invariant while generic formulas and places stay. *)
LEMMA ListGrows ==
  ASSUME ListedInv, ElaborationInv, UNCHANGED generic, stage # "generic", stage' # "generic", IsSeq(listed'),
         Nests(place)', stage' = "elaborate" =>
           (IsFormula(work) /\ IsFormula(wanted.text) /\ Stands(work, wanted.text, place))',
         \A v \in DOMAIN listed : listed'[v] = listed[v],
         \A v \in DOMAIN listed' : v \notin DOMAIN listed => Right(listed', v)
  PROVE  ElaborationInv'
<1>1. PICK longer : longer = listed'
  OBVIOUS
<1>2. IsSeq(listed)
  BY DEF ListedInv
<1>3. \A v \in DOMAIN listed' : Right(longer, v)
  <2>1. SUFFICES ASSUME NEW v \in DOMAIN listed'
                 PROVE  Right(longer, v)
    OBVIOUS
  <2>2. CASE v \in DOMAIN listed
    <3>1. Right(listed, v)
      BY <2>2 DEF ElaborationInv
    <3>2. QED
      BY <1>1, <1>2, <2>2, <3>1, RightLonger
  <2>3. CASE v \notin DOMAIN listed
    BY <1>1, <2>3
  <2>4. QED
    BY <2>2, <2>3
<1>4. \A v \in DOMAIN listed' : Right(longer, v)'
  BY <1>3, RightStays
<1>5. \A v \in DOMAIN listed' : Right(listed, v)'
  BY <1>1, <1>4 DEF Right
<1>6. GenericInv'
  BY DEF ElaborationInv, GenericInv
<1>7. QED
  BY <1>5, <1>6 DEF ElaborationInv

LEMMA NothingNests == Nests(<<>>)
BY DEF Nests

LEMMA RefuseElaboration_Inv ==
  ASSUME ListedInv, ElaborationInv, Refuse
  PROVE  ElaborationInv'
<1>1. PICK list : list = listed
  OBVIOUS
<1>2. listed' = list /\ UNCHANGED generic
  BY <1>1 DEF Refuse
<1>3. \A v \in DOMAIN list : Right(list, v)'
  BY <1>1, <1>2, RightStays DEF ElaborationInv
<1>4. (\A v \in DOMAIN listed : Right(listed, v))'
  BY <1>2, <1>3 DEF Right
<1>5. stage' = "refused" /\ Nests(place)'
  BY NothingNests DEF Refuse, Nests
<1>6. GenericInv'
  BY <1>2 DEF ElaborationInv, GenericInv
<1>7. QED
  BY <1>4, <1>5, <1>6 DEF ElaborationInv

LEMMA LoadGeneric_Inv ==
  ASSUME ListedInv, ElaborationInv, NEW id \in GenericIds, NEW text \in GenericFormulas, LoadGenericFormula(id, text)
  PROVE  ElaborationInv'
<1>1. CASE Refuse
  BY <1>1, RefuseElaboration_Inv
<1>2. CASE ~ Refuse
  <2>1. /\ generic' = [g \in DOMAIN generic \cup {id} |-> IF g = id THEN text ELSE generic[g]]
        /\ stage = "generic" /\ stage' = "generic" /\ UNCHANGED <<place, listed>>
    BY <1>2 DEF LoadGenericFormula
  <2>2. IsFormula(text)
    BY ConfiguratorAssumption
  <2>3. GenericInv'
    BY <2>1, <2>2 DEF ElaborationInv, GenericInv
  <2>4. listed' = <<>>
    BY <2>1 DEF ElaborationInv
  <2>5. Nests(place)'
    BY <2>1 DEF ElaborationInv, Nests
  <2>6. QED
    BY <2>1, <2>3, <2>4, <2>5 DEF ElaborationInv
<1>3. QED
  BY <1>1, <1>2

LEMMA NothingReadIsRight ==
  ASSUME NEW list, NEW v, list[v].reads = {}, list[v].source # "calculated"
  PROVE  Right(list, v)
BY DEF Right

LEMMA OpenObjectElaboration_Inv ==
  ASSUME ListedInv, ListedInv', ElaborationInv, NEW name \in Names, OpenObject(name)
  PROVE  ElaborationInv'
<1>1. CASE Refuse
  BY <1>1, RefuseElaboration_Inv
<1>2. CASE ~ Refuse
  <2>1. PICK address : address = Child(Here, name)
    OBVIOUS
  <2>2. PICK cache : cache = [i \in DOMAIN CacheVariables |-> Child(address, CacheVariables[i])]
    OBVIOUS
  <2>3. PICK added : added = [i \in DOMAIN cache |-> Entry(cache[i], "cache", "Good", "Waiting")]
    OBVIOUS
  <2>4. /\ place' = Append(place, address) /\ listed' = listed \o added
        /\ stage = "element" /\ stage' = "element" /\ UNCHANGED generic
    BY <1>2, <2>1, <2>2, <2>3 DEF OpenObject
  <2>5. PICK there : there = Append(place, address)
    OBVIOUS
  <2>6. Nests(there)
    BY <2>1, <2>5, NestsOpened DEF ListedInv, ElaborationInv, Place
  <2>7. Nests(place)'
    BY <2>4, <2>5, <2>6 DEF Nests
  <2>8. IsSeq(added)
    <3>1. DOMAIN added = 1 .. Len(CacheVariables) /\ Len(CacheVariables) \in Nat
      BY <2>2, <2>3, ConfiguratorAssumption DEF IsSeq
    <3>2. \A i \in 1 .. Len(CacheVariables) : added[i] \in Range(added)
      BY <3>1 DEF Range
    <3>3. added = [i \in 1 .. Len(CacheVariables) |-> added[i]]
      BY <2>3, <3>1
    <3>4. QED
      BY <3>1, <3>2, <3>3, SeqDef DEF IsSeq
  <2>9. PICK n, m : n = Len(listed) /\ m = Len(added)
    OBVIOUS
  <2>10. /\ n \in Nat /\ m \in Nat /\ DOMAIN listed = 1 .. n /\ DOMAIN added = 1 .. m /\ DOMAIN listed' = 1 .. n + m
         /\ \A v \in 1 .. n : listed'[v] = listed[v]
         /\ \A v \in 1 .. m : listed'[n + v] = added[v]
         /\ \A v \in 1 .. n + m : v \in 1 .. n \/ v - n \in 1 .. m
    BY <2>4, <2>8, <2>9, Joined DEF ListedInv
  <2>11. ASSUME NEW v \in DOMAIN listed', v \notin DOMAIN listed
         PROVE  Right(listed', v)
    <3>1. v - n \in 1 .. m /\ v = n + (v - n)
      BY <2>10, <2>11
    <3>2. PICK k \in 1 .. m : v = n + k
      BY <3>1
    <3>3. listed'[v] = added[k] /\ k \in DOMAIN cache
      BY <2>3, <2>10, <3>2
    <3>4. listed'[v].reads = {} /\ listed'[v].source = "cache"
      BY <2>3, <3>3 DEF Entry
    <3>5. PICK longer : longer = listed'
      OBVIOUS
    <3>6. Right(longer, v)
      BY <3>4, <3>5, NothingReadIsRight
    <3>7. QED
      BY <3>5, <3>6
  <2>12. stage # "generic" /\ stage' # "generic" /\ stage' # "elaborate" /\ IsSeq(listed')
    BY <2>4 DEF ListedInv
  <2>13. QED
    BY <2>4, <2>7, <2>10, <2>11, <2>12, ListGrows
<1>3. QED
  BY <1>1, <1>2

(* One variable behind the others. *)
LEMMA OneIsRight ==
  ASSUME ListedInv, ListedInv', ElaborationInv, UNCHANGED <<generic, place>>, stage # "generic", stage' = "element",
         NEW entry, listed' = Append(listed, entry),
         Right(Append(listed, entry), Len(listed) + 1)
  PROVE  ElaborationInv'
<1>1. PICK n, longer : n = Len(listed) /\ longer = Append(listed, entry)
  OBVIOUS
<1>2. n \in Nat /\ DOMAIN listed = 1 .. n /\ listed \in Seq(Range(listed) \cup {entry})
  BY <1>1 DEF ListedInv, IsSeq
<1>3. DOMAIN longer = 1 .. n + 1 /\ \A v \in 1 .. n : longer[v] = listed[v]
  BY <1>1, <1>2
<1>4. \A v \in DOMAIN longer : v \notin DOMAIN listed => v = n + 1
  BY <1>2, <1>3
<1>5. \A v \in DOMAIN longer : v \notin DOMAIN listed => Right(longer, v)
  BY <1>1, <1>4
<1>6. longer = listed'
  BY <1>1
<1>7. Nests(place)'
  BY DEF ElaborationInv, Nests
<1>8. IsSeq(listed') /\ stage' # "generic" /\ stage' # "elaborate"
  BY DEF ListedInv
<1>9. \A v \in DOMAIN listed : listed'[v] = listed[v]
  BY <1>2, <1>3, <1>6
<1>10. \A v \in DOMAIN listed' : v \notin DOMAIN listed => Right(listed', v)
  BY <1>5, <1>6
<1>11. QED
  BY <1>7, <1>8, <1>9, <1>10, ListGrows

LEMMA ListStays ==
  ASSUME ListedInv, ListedInv', ElaborationInv, UNCHANGED <<generic, listed>>, stage # "generic", stage' # "generic",
         Nests(place)', stage' = "elaborate" =>
           (IsFormula(work) /\ IsFormula(wanted.text) /\ Stands(work, wanted.text, place))'
  PROVE  ElaborationInv'
<1>1. IsSeq(listed') /\ \A v \in DOMAIN listed : listed'[v] = listed[v]
  BY DEF ListedInv
<1>2. \A v \in DOMAIN listed' : v \notin DOMAIN listed => Right(listed', v)
  OBVIOUS
<1>3. QED
  BY <1>1, <1>2, ListGrows

LEMMA FreeVariableElaboration_Inv ==
  ASSUME ListedInv, ListedInv', ElaborationInv, NEW name \in Names, NEW c \in Conversions,
         FreeVariable(name, c.numeric, c.literal)
  PROVE  ElaborationInv'
<1>1. CASE Refuse
  BY <1>1, RefuseElaboration_Inv
<1>2. CASE ~ Refuse
  <2>1. PICK entry : entry = Entry(Child(Here, name), "free", "Good", "Good")
    OBVIOUS
  <2>2. /\ stage = "element" /\ stage' = "element" /\ UNCHANGED <<generic, place>>
        /\ listed' = Append(listed, entry) \/ listed' = listed
    BY <1>2, <2>1 DEF FreeVariable
  <2>3. entry.reads = {} /\ entry.source = "free"
    BY <2>1 DEF Entry
  <2>4. CASE listed' = Append(listed, entry)
    <3>1. PICK n, longer : n = Len(listed) /\ longer = Append(listed, entry)
      OBVIOUS
    <3>2. n \in Nat /\ listed \in Seq(Range(listed) \cup {entry})
      BY <3>1 DEF ListedInv, IsSeq
    <3>3. longer[n + 1] = entry
      BY <3>1, <3>2
    <3>4. Right(longer, n + 1)
      BY <2>3, <3>3, NothingReadIsRight
    <3>5. QED
      BY <2>2, <2>4, <3>1, <3>4, OneIsRight
  <2>5. CASE listed' = listed
    <3>1. Nests(place)'
      BY <2>2 DEF ElaborationInv, Nests
    <3>2. QED
      BY <2>2, <2>5, <3>1, ListStays
  <2>6. QED
    BY <2>2, <2>4, <2>5
<1>3. QED
  BY <1>1, <1>2

LEMMA CalculatedVariableElaboration_Inv ==
  ASSUME ListedInv, ListedInv', ElaborationInv, NEW name \in Names, NEW both \in Formulas, NEW initial \in BOOLEAN,
         CalculatedVariable(name, both[1], both[2], initial)
  PROVE  ElaborationInv'
<1>1. PICK text, where : text = both[1] /\ where = place
  OBVIOUS
<1>2. /\ stage = "element" /\ stage' = "elaborate" /\ UNCHANGED <<generic, place, listed>>
      /\ work' = text /\ wanted'.text = text
  BY <1>1 DEF CalculatedVariable
<1>3. IsFormula(text)
  BY <1>1, ConfiguratorAssumption
<1>4. Stands(text, text, where)
  BY DEF Stands
<1>5. Stands(text, text, where)'
  BY <1>2, <1>4, StandsStays
<1>6. Stands(work, wanted.text, place)'
  BY <1>1, <1>2, <1>5 DEF Stands
<1>7. (IsFormula(work) /\ IsFormula(wanted.text))'
  BY <1>2, <1>3 DEF IsFormula
<1>8. Nests(place)'
  BY <1>2 DEF ElaborationInv, Nests
<1>9. QED
  BY <1>2, <1>6, <1>7, <1>8, ListStays

LEMMA CloseObjectElaboration_Inv ==
  ASSUME ListedInv, ListedInv', ElaborationInv, CloseObject
  PROVE  ElaborationInv'
<1>1. PICK there : there = Front(place)
  OBVIOUS
<1>2. /\ stage = "element" /\ stage' = "element" /\ UNCHANGED <<generic, listed>>
      /\ place # <<>> /\ place' = there
  BY <1>1 DEF CloseObject
<1>3. Nests(there)
  BY <1>1, <1>2, NestsClosed DEF ListedInv, ElaborationInv, Place
<1>4. Nests(place)'
  BY <1>2, <1>3 DEF Nests
<1>5. QED
  BY <1>2, <1>4, ListStays

LEMMA StageElaboration_Inv ==
  ASSUME ListedInv, ListedInv', ElaborationInv, BeginElements \/ EndElements
  PROVE  ElaborationInv'
<1>1. /\ UNCHANGED <<generic, place, listed>> /\ stage' \in {"element", "ready"}
      /\ stage = "generic" \/ stage = "element"
  BY DEF BeginElements, EndElements
<1>2. Nests(place)'
  BY <1>1 DEF ElaborationInv, Nests
<1>3. GenericInv'
  BY <1>1 DEF ElaborationInv, GenericInv
<1>4. PICK list : list = listed
  OBVIOUS
<1>5. \A v \in DOMAIN list : Right(list, v)'
  BY <1>1, <1>4, RightStays DEF ElaborationInv
<1>6. (\A v \in DOMAIN listed : Right(listed, v))'
  BY <1>1, <1>4, <1>5 DEF Right
<1>7. stage' # "generic" /\ stage' # "elaborate"
  BY <1>1
<1>8. QED
  BY <1>2, <1>3, <1>6, <1>7 DEF ElaborationInv

LEMMA Elaborate_Inv ==
  ASSUME ListedInv, ListedInv', ElaborationInv, Elaborate
  PROVE  ElaborationInv'
<1>1. CASE Refuse
  BY <1>1, RefuseElaboration_Inv
<1>2. CASE ~ Refuse
  <2>1. PICK i \in DOMAIN work :
          \/ work[i].op = "thisObjectAddress" /\ Substitute(i, Chars(Here))
          \/ /\ work[i].op = "applyGenericFormula" /\ work[i].id \in DOMAIN generic
             /\ Substitute(i, generic[work[i].id])
          \/ /\ work[i].op = "parentObjectAddress" /\ HasParent(Here, work[i].levels)
             /\ Substitute(i, Chars(Parent(Here, work[i].levels)))
    BY <1>2 DEF Elaborate
  <2>2. stage = "elaborate"
    BY DEF Elaborate
  <2>3. PICK text, whole, where : text = work /\ whole = wanted.text /\ where = place
    OBVIOUS
  <2>4. /\ IsFormula(text) /\ IsFormula(whole) /\ Stands(text, whole, where) /\ GenericInv
        /\ Place(where) /\ Nests(where)
    BY <2>2, <2>3 DEF ElaborationInv, ListedInv, Place
  <2>5. text[i].levels \in Nat /\ (text[i].op = "thisObjectAddress" => text[i].levels = 0)
    BY <2>3, <2>4, ItemsOfAFormula
  <2>6. PICK done : done = work'
    OBVIOUS
  <2>7. /\ stage' = stage /\ UNCHANGED <<generic, place, nodes, listed, wanted>>
        /\ done = text \/ (IsFormula(done) /\ Stands(done, whole, where))
    <3>1. CASE text[i].op = "thisObjectAddress" /\ Substitute(i, Chars(Here))
      <4>1. Here = Around(where, text[i].levels) /\ IsSeq(Here)
        BY <2>3, <2>4, <2>5, <3>1, HereIsAround
      <4>2. IsFormula(Substituted(text, i, Chars(Here))) /\ Stands(Substituted(text, i, Chars(Here)), whole, where)
        BY <2>3, <2>4, <3>1, <4>1, AddressStands
      <4>3. QED
        BY <2>3, <2>6, <3>1, <4>2 DEF Substitute, Substituted
    <3>2. CASE text[i].op = "applyGenericFormula" /\ text[i].id \in DOMAIN generic /\ Substitute(i, generic[text[i].id])
      <4>1. PICK new : new = generic[text[i].id]
        OBVIOUS
      <4>2. IsFormula(Substituted(text, i, new)) /\ Stands(Substituted(text, i, new), whole, where)
        BY <2>3, <2>4, <3>2, <4>1, GenericStands
      <4>3. QED
        BY <2>3, <2>6, <3>2, <4>1, <4>2 DEF Substitute, Substituted
    <3>3. CASE /\ text[i].op = "parentObjectAddress" /\ HasParent(Here, text[i].levels)
               /\ Substitute(i, Chars(Parent(Here, text[i].levels)))
      <4>1. PICK address : address = Parent(Here, text[i].levels)
        OBVIOUS
      <4>2. IsSeq(address)
        BY <2>3, <2>4, <2>5, <3>3, <4>1, HereIsAround, ParentIsSequence
      <4>3. OneDotALevel(where) => address = Around(where, text[i].levels)
        BY <2>3, <2>4, <2>5, <3>3, <4>1, ParentIs
      <4>4. IsFormula(Substituted(text, i, Chars(address))) /\ Stands(Substituted(text, i, Chars(address)), whole, where)
        BY <2>3, <2>4, <3>3, <4>2, <4>3, AddressStands
      <4>5. QED
        BY <2>3, <2>6, <3>3, <4>1, <4>4 DEF Substitute, Substituted
    <3>4. QED
      BY <2>1, <2>3, <3>1, <3>2, <3>3
  <2>8. IsFormula(done) /\ Stands(done, whole, where)
    BY <2>4, <2>7
  <2>9. Stands(done, whole, where)'
    BY <2>7, <2>8, StandsStays
  <2>10. Stands(work, wanted.text, place)'
    BY <2>3, <2>6, <2>7, <2>9 DEF Stands
  <2>11. (IsFormula(work) /\ IsFormula(wanted.text))'
    BY <2>3, <2>4, <2>6, <2>7, <2>8 DEF IsFormula
  <2>12. Nests(place)'
    BY <2>7 DEF ElaborationInv, Nests
  <2>13. stage # "generic" /\ stage' # "generic"
    BY <2>2, <2>7
  <2>14. QED
    BY <2>7, <2>10, <2>11, <2>12, <2>13, ListStays
<1>3. QED
  BY <1>1, <1>2

(* parserVariableRequestHandler() finds what is named, and nothing else. *)
LEMMA ReadsAreNamed ==
  ASSUME IsSeq(listed), NEW tokens, Resolves(tokens)
  PROVE  /\ Reads(tokens) \subseteq DOMAIN listed
         /\ {listed[r].name : r \in Reads(tokens)} = VariableNames(tokens)
<1>1. DOMAIN listed \subseteq Nat
  BY DEF IsSeq
<1>2. \A name \in VariableNames(tokens) : Min(Listed(name)) \in DOMAIN listed /\ listed[Min(Listed(name))].name = name
  <2>1. SUFFICES ASSUME NEW name \in VariableNames(tokens)
                 PROVE  Min(Listed(name)) \in DOMAIN listed /\ listed[Min(Listed(name))].name = name
    OBVIOUS
  <2>2. PICK T : T = Listed(name)
    OBVIOUS
  <2>3. T # {} /\ T \subseteq Nat
    BY <1>1, <2>2 DEF Resolves, Listed
  <2>4. \E i \in T : \A j \in T : i <= j
    BY <2>3, First
  <2>5. Min(T) \in T
    BY <2>4 DEF Min
  <2>6. QED
    BY <2>2, <2>5 DEF Listed
<1>3. QED
  BY <1>2 DEF Reads

LEMMA InstantiateElaboration_Inv ==
  ASSUME ListedInv, ListedInv', ElaborationInv, Instantiate
  PROVE  ElaborationInv'
<1>1. CASE Refuse
  BY <1>1, RefuseElaboration_Inv
<1>2. CASE ~ Refuse
  <2>1. PICK first, entry :
          /\ entry = [Entry(Child(Here, wanted.name), "calculated", first, first) EXCEPT
                        !.reads = Reads(Tokens(work)), !.text = wanted.text, !.place = place]
          /\ listed' = Append(listed, entry) /\ Resolves(Tokens(work))
          /\ stage = "elaborate" /\ stage' = "element" /\ Plain(work) /\ UNCHANGED <<generic, place>>
    BY <1>2 DEF Instantiate
  <2>2. PICK text, whole, where : text = work /\ whole = wanted.text /\ where = place
    OBVIOUS
  <2>3. entry.reads = Reads(Tokens(text)) /\ entry.text = whole /\ entry.place = where
    BY <2>1, <2>2 DEF Entry
  <2>4. /\ IsFormula(text) /\ IsFormula(whole) /\ Stands(text, whole, where) /\ GenericInv
        /\ Place(where) /\ Plain(text)
    BY <2>1, <2>2 DEF ElaborationInv, ListedInv, Place
  <2>5. Ends(text)
    <3>1. Applies(text) = {}
      BY <2>4, PlainAppliesNothing
    <3>2. PICK rank : rank = [id \in {} |-> 0]
      OBVIOUS
    <3>3. rank \in [{} -> Nat]
      BY <3>2
    <3>4. Settles({}, rank)
      BY <3>3 DEF Settles
    <3>5. QED
      BY <3>1, <3>4 DEF Ends
  <2>6. OneDotALevel(where) => Tokens(text) = Meaning(whole, where)
    <3>1. Meaning(text, where) = Tokens(text)
      BY <2>4, PlainMeansItself
    <3>2. QED
      BY <2>4, <2>5, <3>1 DEF Stands
  <2>7. PICK n, longer : n = Len(listed) /\ longer = Append(listed, entry)
    OBVIOUS
  <2>8. n \in Nat /\ DOMAIN listed = 1 .. n /\ listed \in Seq(Range(listed) \cup {entry})
    BY <2>7 DEF ListedInv, IsSeq
  <2>9. longer[n + 1] = entry /\ \A v \in 1 .. n : longer[v] = listed[v]
    BY <2>7, <2>8
  <2>10. /\ Reads(Tokens(text)) \subseteq 1 .. n
         /\ {listed[r].name : r \in Reads(Tokens(text))} = VariableNames(Tokens(text))
    BY <2>1, <2>2, <2>8, ReadsAreNamed DEF ListedInv
  <2>11. {longer[r].name : r \in Reads(Tokens(text))} = VariableNames(Tokens(text))
    <3>1. \A r \in Reads(Tokens(text)) : longer[r] = listed[r]
      BY <2>9, <2>10
    <3>2. QED
      BY <2>10, <3>1
  <2>12. Right(longer, n + 1)
    <3>1. longer[n + 1].reads \subseteq 1 .. (n + 1) - 1
      <4>1. (n + 1) - 1 = n
        BY <2>8
      <4>2. QED
        BY <2>3, <2>9, <2>10, <4>1
    <3>2. PICK names, named : /\ names = {longer[r].name : r \in longer[n + 1].reads}
                              /\ named = VariableNames(Meaning(longer[n + 1].text, longer[n + 1].place))
      OBVIOUS
    <3>3. OneDotALevel(longer[n + 1].place) => names = named
      <4>1. SUFFICES ASSUME OneDotALevel(longer[n + 1].place)
                     PROVE  names = named
        OBVIOUS
      <4>2. Tokens(text) = Meaning(whole, where)
        BY <2>3, <2>6, <2>9, <4>1
      <4>3. names = VariableNames(Tokens(text))
        BY <2>3, <2>9, <2>11, <3>2
      <4>4. longer[n + 1].text = whole /\ longer[n + 1].place = where
        BY <2>3, <2>9
      <4>5. QED
        BY <3>2, <4>2, <4>3, <4>4
    <3>4. QED
      BY <3>1, <3>2, <3>3 DEF Right
  <2>13. stage # "generic"
    BY <2>1
  <2>14. QED
    BY <2>1, <2>7, <2>12, <2>13, OneIsRight
<1>3. QED
  BY <1>1, <1>2

LEMMA ElaborationNext_Inv ==
  ASSUME ListedInv, ListedInv', ElaborationInv, Next
  PROVE  ElaborationInv'
<1>1. CASE \E id \in GenericIds, text \in GenericFormulas : LoadGenericFormula(id, text)
  BY <1>1, LoadGeneric_Inv
<1>2. CASE BeginElements \/ EndElements
  BY <1>2, StageElaboration_Inv
<1>3. CASE \E name \in Names : OpenObject(name)
  BY <1>3, OpenObjectElaboration_Inv
<1>4. CASE \E name \in Names, c \in Conversions : FreeVariable(name, c.numeric, c.literal)
  BY <1>4, FreeVariableElaboration_Inv
<1>5. CASE \E name \in Names, both \in Formulas, initial \in BOOLEAN : CalculatedVariable(name, both[1], both[2], initial)
  BY <1>5, CalculatedVariableElaboration_Inv
<1>6. CASE CloseObject
  BY <1>6, CloseObjectElaboration_Inv
<1>7. CASE Elaborate
  BY <1>7, Elaborate_Inv
<1>8. CASE Instantiate
  BY <1>8, InstantiateElaboration_Inv
<1>9. QED
  BY <1>1, <1>2, <1>3, <1>4, <1>5, <1>6, <1>7, <1>8 DEF Next

LEMMA ElaborationStays ==
  ASSUME ElaborationInv, UNCHANGED vars
  PROVE  ElaborationInv'
<1>1. UNCHANGED <<stage, generic, place, listed, work, wanted>>
  BY DEF vars
<1>2. PICK text, whole, where, list : text = work /\ whole = wanted.text /\ where = place /\ list = listed
  OBVIOUS
<1>3. \A v \in DOMAIN list : Right(list, v)'
  BY <1>1, <1>2, RightStays DEF ElaborationInv
<1>4. (\A v \in DOMAIN listed : Right(listed, v))'
  BY <1>1, <1>2, <1>3 DEF Right
<1>5. (stage = "elaborate" => IsFormula(work) /\ IsFormula(wanted.text) /\ Stands(work, wanted.text, place))'
  <2>1. SUFFICES ASSUME stage = "elaborate"
                 PROVE  (IsFormula(work) /\ IsFormula(wanted.text) /\ Stands(work, wanted.text, place))'
    BY <1>1
  <2>2. IsFormula(text) /\ IsFormula(whole) /\ Stands(text, whole, where)
    BY <1>2, <2>1 DEF ElaborationInv
  <2>3. Stands(text, whole, where)'
    BY <1>1, <2>2, StandsStays
  <2>4. Stands(work, wanted.text, place)'
    BY <1>1, <1>2, <2>3 DEF Stands
  <2>5. (IsFormula(work) /\ IsFormula(wanted.text))'
    BY <1>1, <1>2, <2>2 DEF IsFormula
  <2>6. QED
    BY <2>4, <2>5
<1>6. GenericInv' /\ Nests(place)' /\ (stage = "generic" => listed = <<>>)'
  BY <1>1 DEF ElaborationInv, GenericInv, Nests
<1>7. QED
  BY <1>4, <1>5, <1>6 DEF ElaborationInv

LEMMA ElaborationInit_Inv ==
  ASSUME Init
  PROVE  ElaborationInv
<1>1. stage = "generic" /\ generic = <<>> /\ place = <<>> /\ listed = <<>> /\ DOMAIN <<>> = {}
  BY DEF Init
<1>2. QED
  BY <1>1 DEF ElaborationInv, GenericInv, Nests

LEMMA ElaborationInvImplies ==
  ASSUME ListedInv, ElaborationInv
  PROVE  FormulasReadWhatTheyName
<1>1. DOMAIN listed = 1 .. Len(listed) /\ Len(listed) \in Nat
  BY DEF ListedInv, IsSeq
<1>2. \A v \in DOMAIN listed : Right(listed, v)
  BY DEF ElaborationInv
<1>3. \A v \in DOMAIN listed : \A r \in listed[v].reads : r < v
  BY <1>1, <1>2 DEF Right
<1>4. QED
  BY <1>2, <1>3 DEF Right, FormulasReadWhatTheyName

(* A calculated variable reads what its formula names at the place where it
   stands, and nothing that came after it, however the dollar expressions and
   the generic formulas were put into one another, and whatever the file holds
   (elaborateFormula(), elaborateParent(), parserVariableRequestHandler()). *)
THEOREM FormulasReadTheNamed ==
  ASSUME NEW documents
  PROVE  StartupSpec(documents) => []FormulasReadWhatTheyName
<1>1. StartupInit(documents) => ListedInv /\ ElaborationInv
  BY ConfiguratorInit_Inv, ElaborationInit_Inv DEF StartupInit
<1>2. ListedInv /\ ElaborationInv /\ [StartupNext]_StartupVars => ListedInv' /\ ElaborationInv'
  <2>1. ASSUME ListedInv, ElaborationInv, UNCHANGED vars
        PROVE  ListedInv' /\ ElaborationInv'
    <3>1. ListedInv'
      BY <2>1 DEF ListedInv, vars
    <3>2. QED
      BY <2>1, <3>1, ElaborationStays
  <2>2. ASSUME ListedInv, ElaborationInv, Next
        PROVE  ListedInv' /\ ElaborationInv'
    BY <2>2, ConfiguratorNext_Inv, ElaborationNext_Inv
  <2>3. QED
    BY <2>1, <2>2 DEF StartupNext, Configure, StartupVars
<1>3. ListedInv /\ ElaborationInv => FormulasReadWhatTheyName
  BY ElaborationInvImplies
<1>4. QED
  BY <1>1, <1>2, <1>3, PTL DEF StartupSpec

=============================================================================
