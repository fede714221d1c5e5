--------------------------- MODULE DiscoveryProofs ---------------------------
(***************************************************************************)
(* Discover keeps its promise, Gather, for every number of sources and     *)
(* whatever each may return, in whatever order they do.                    *)
(***************************************************************************)
EXTENDS Discovery, TLAPS

Step == BeginDiscover \/ DiscoverNext \/ TakeResult

Ok(i) == Slot(i).ok
NamesOf(i) == {Slot(i).names[k] : k \in DOMAIN Slot(i).names}

\* A merge at item n of slot s has come past item k of slot i.
Past(i, k, s, n) ==
  /\ Ok(i) /\ k \in DOMAIN Slot(i).names
  /\ i < s \/ (i = s /\ k < n)

\* Outside a call and until the merge begins, the locals are new; the merge
\* begins when no goroutine runs and no slot is empty.
PhaseInv ==
  /\ dpc \in {"idle", "gather"} =>
       source = 1 /\ next = 1 /\ result = <<>> /\ successes = 0 /\ ~failed
  /\ dpc = "idle" => running = {} /\ \A i \in 1..N : slots[i] = <<>>
  /\ dpc = "gather" => \A i \in 1..N : i \in running <=> slots[i] = <<>>
  /\ dpc \in {"merge", "returned"} => running = {} /\ \A i \in 1..N : slots[i] # <<>>
  /\ dpc = "returned" => source = N + 1 /\ (failed <=> successes = 0 /\ N > 0)

\* At item n of slot s, the list r is what the merge has come past, each name
\* once and under the first source that has it; c slots were not failures.
MergedTo(s, n, r, c) ==
  /\ n = 1 \/ (s <= N /\ Ok(s) /\ n <= Len(Slot(s).names) + 1)
  /\ c < s /\ (c = 0 <=> \A i \in 1..s-1 : ~Ok(i))
  /\ \A i \in 1..N : \A k \in Nat :
       Past(i, k, s, n) => \E j \in DOMAIN r : r[j].name = Slot(i).names[k]
  /\ \A j, l \in DOMAIN r : r[j].name = r[l].name => j = l
  /\ \A j \in DOMAIN r : \E k \in Nat :
       Past(r[j].source, k, s, n) /\ r[j].name = Slot(r[j].source).names[k]
  /\ \A j \in DOMAIN r : \A i \in 1..r[j].source-1 : Ok(i) => r[j].name \notin NamesOf(i)
  /\ \A j, l \in DOMAIN r : j <= l => r[j].source <= r[l].source

MergeInv == dpc \in {"merge", "returned"} => MergedTo(source, next, result, successes)

IInv == DiscoveryTypeOK /\ PhaseInv /\ MergeInv

----------------------------------------------------------------------------
(* Slots.                                                                  *)

\* A slot is an outcome, whether written or not.
LEMMA SlotType ==
  ASSUME DiscoveryTypeOK, NEW i \in 1..N
  PROVE  /\ Ok(i) \in BOOLEAN /\ Slot(i).names \in Seq(Host)
         /\ DOMAIN Slot(i).names = 1..Len(Slot(i).names) /\ Len(Slot(i).names) \in Nat
         /\ NamesOf(i) \subseteq Host
<1>1. slots[i] \in Seq(Outcome) /\ Len(slots[i]) <= 1
  BY DEF DiscoveryTypeOK
<1>2. CASE slots[i] = <<>>
  BY <1>2 DEF Slot, Ok, NamesOf
<1>3. CASE slots[i] # <<>>
  <2>1. slots[i][1] \in Outcome
    BY <1>1, <1>3
  <2> QED
    BY <1>3, <2>1 DEF Slot, Ok, NamesOf, Outcome
<1> QED
  BY <1>2, <1>3

\* Append adds one item.
LEMMA AppendItem ==
  ASSUME NEW S, NEW s \in Seq(S), NEW e \in S
  PROVE  /\ Append(s, e) \in Seq(S)
         /\ DOMAIN s = 1..Len(s) /\ Len(s) \in Nat
         /\ DOMAIN Append(s, e) = 1..Len(s) + 1
         /\ \A k \in 1..Len(s) : Append(s, e)[k] = s[k]
         /\ Append(s, e)[Len(s) + 1] = e
  OBVIOUS

----------------------------------------------------------------------------
(* The invariant.                                                          *)

LEMMA InitInv == DiscoveryInit => IInv
<1> SUFFICES ASSUME DiscoveryInit PROVE IInv
  OBVIOUS
<1>1. /\ dpc = "idle" /\ running = {} /\ slots = [i \in 1..N |-> <<>>] /\ source = 1 /\ next = 1
      /\ result = <<>> /\ successes = 0 /\ failed = FALSE
  BY DEF DiscoveryInit, Locals
<1>2. DiscoveryTypeOK
  <2>1. <<>> \in Seq(Outcome) /\ Len(<<>>) = 0 /\ <<>> \in Seq([name : Host, source : 1..N])
    OBVIOUS
  <2>2. slots \in [1..N -> Seq(Outcome)] /\ \A i \in 1..N : Len(slots[i]) <= 1
    BY <1>1, <2>1
  <2>3. source \in 1..N+1 /\ successes \in 0..N /\ next \in Nat \ {0}
    BY <1>1, NAssumption
  <2>4. running \in SUBSET (1..N) /\ failed \in BOOLEAN /\ dpc \in {"idle", "gather", "merge", "returned"}
    BY <1>1
  <2>5. result \in Seq([name : Host, source : 1..N])
    BY <1>1, <2>1
  <2> QED
    BY <2>2, <2>3, <2>4, <2>5 DEF DiscoveryTypeOK
<1>3. PhaseInv /\ MergeInv
  BY <1>1 DEF PhaseInv, MergeInv
<1> QED
  BY <1>2, <1>3 DEF IInv

\* Every step keeps the types.
LEMMA TypeStep ==
  ASSUME DiscoveryTypeOK, PhaseInv, MergeInv, [Step]_discoveryVars
  PROVE  DiscoveryTypeOK'
<1>1. CASE BeginDiscover
  BY <1>1 DEF BeginDiscover, DiscoveryTypeOK
<1>2. ASSUME NEW i \in 1..N, Answer(i)
      PROVE  DiscoveryTypeOK'
  <2>1. PICK o \in Outcomes[i] : slots' = [slots EXCEPT ![i] = <<o>>]
    BY <1>2 DEF Answer
  <2>2. o \in Outcome
    BY OutcomesAssumption
  <2>3. <<o>> \in Seq(Outcome) /\ Len(<<o>>) = 1
    BY <2>2
  <2>4. slots' \in [1..N -> Seq(Outcome)] /\ \A k \in 1..N : Len(slots'[k]) <= 1
    BY <2>1, <2>3 DEF DiscoveryTypeOK
  <2> QED
    BY <1>2, <2>4 DEF Answer, DiscoveryTypeOK
<1>3. CASE Wait
  BY <1>3 DEF Wait, DiscoveryTypeOK
<1>4. CASE MergeName
  <2> DEFINE item == [name |-> Slot(source).names[next], source |-> source]
  <2>1. source \in 1..N /\ next \in DOMAIN Slot(source).names
    BY <1>4, NAssumption, SlotType DEF MergeName, DiscoveryTypeOK
  <2>2. item \in [name : Host, source : 1..N]
    BY <2>1, SlotType
  <2>3. result' \in Seq([name : Host, source : 1..N])
    BY <1>4, <2>2, AppendItem DEF MergeName, DiscoveryTypeOK
  <2> QED
    BY <1>4, <2>3 DEF MergeName, DiscoveryTypeOK
<1>5. CASE NextSource
  <2>1. source' \in 1..N+1 /\ next' = 1
    BY <1>5, NAssumption DEF NextSource, DiscoveryTypeOK
  <2>2. successes' \in 0..N
    <3>1. successes <= source - 1
      BY <1>5 DEF NextSource, MergeInv, MergedTo, DiscoveryTypeOK
    <3> QED
      BY <1>5, <3>1, NAssumption DEF NextSource, DiscoveryTypeOK
  <2> QED
    BY <1>5, <2>1, <2>2 DEF NextSource, DiscoveryTypeOK
<1>6. CASE Return
  BY <1>6 DEF Return, DiscoveryTypeOK
<1>7. CASE TakeResult
  BY <1>7, NAssumption DEF TakeResult, Locals, DiscoveryTypeOK
<1>8. CASE UNCHANGED discoveryVars
  BY <1>8 DEF discoveryVars, DiscoveryTypeOK
<1> QED
  BY <1>1, <1>2, <1>3, <1>4, <1>5, <1>6, <1>7, <1>8 DEF Step, DiscoverNext, DiscoverStep

LEMMA PhaseStep ==
  ASSUME DiscoveryTypeOK, PhaseInv, [Step]_discoveryVars
  PROVE  PhaseInv'
<1>1. CASE BeginDiscover
  BY <1>1 DEF BeginDiscover, PhaseInv
<1>2. ASSUME NEW i \in 1..N, Answer(i)
      PROVE  PhaseInv'
  <2>1. PICK o \in Outcomes[i] : slots' = [slots EXCEPT ![i] = <<o>>]
    BY <1>2 DEF Answer
  <2>2. slots'[i] # <<>> /\ \A k \in 1..N : k # i => slots'[k] = slots[k]
    BY <2>1 DEF DiscoveryTypeOK
  <2>3. dpc = "gather"
    BY <1>2 DEF Answer, PhaseInv, DiscoveryTypeOK
  <2> QED
    BY <1>2, <2>2, <2>3 DEF Answer, PhaseInv
<1>3. CASE Wait
  BY <1>3 DEF Wait, PhaseInv
<1>4. CASE MergeName \/ NextSource
  BY <1>4 DEF MergeName, NextSource, PhaseInv
<1>5. CASE Return
  <2>1. /\ dpc = "merge" /\ dpc' = "returned" /\ UNCHANGED <<running, slots, source, successes>>
        /\ source = N + 1
    BY <1>5 DEF Return
  <2>2. failed' <=> successes = 0 /\ N > 0
    BY <1>5 DEF Return
  <2> QED
    BY <2>1, <2>2 DEF PhaseInv
<1>6. CASE TakeResult
  BY <1>6 DEF TakeResult, Locals, PhaseInv
<1>7. CASE UNCHANGED discoveryVars
  BY <1>7 DEF discoveryVars, PhaseInv
<1> QED
  BY <1>1, <1>2, <1>3, <1>4, <1>5, <1>6, <1>7 DEF Step, DiscoverNext, DiscoverStep

\* The items of a sequence.
LEMMA Items ==
  ASSUME NEW S, NEW s \in Seq(S)
  PROVE  \A j \in DOMAIN s : s[j] \in S
  OBVIOUS

\* The items of a list of results.
LEMMA ItemType ==
  ASSUME NEW r \in Seq([name : Host, source : 1..N])
  PROVE  /\ DOMAIN r = 1..Len(r) /\ Len(r) \in Nat
         /\ \A j \in DOMAIN r : r[j] \in [name : Host, source : 1..N]
         /\ \A j \in DOMAIN r : r[j].source \in 1..N /\ r[j].source \in Nat
<1>1. DOMAIN r = 1..Len(r) /\ Len(r) \in Nat
  OBVIOUS
<1>2. \A j \in DOMAIN r : r[j] \in [name : Host, source : 1..N]
  BY Items
<1>3. \A x \in [name : Host, source : 1..N] : x.source \in 1..N /\ x.source \in Nat
  BY NAssumption
<1> QED
  BY <1>1, <1>2, <1>3

\* One more item changes what the merge has come past by that item.
LEMMA PastItem ==
  ASSUME DiscoveryTypeOK, NEW s \in 1..N, NEW n \in Nat \ {0}, Ok(s), n <= Len(Slot(s).names),
         NEW i \in 1..N, NEW k \in Nat
  PROVE  Past(i, k, s, n + 1) <=> Past(i, k, s, n) \/ (i = s /\ k = n)
<1>1. DOMAIN Slot(s).names = 1..Len(Slot(s).names) /\ Len(Slot(s).names) \in Nat
  BY SlotType
<1>2. n \in DOMAIN Slot(s).names /\ i \in Nat /\ s \in Nat
  BY <1>1, NAssumption
<1> QED
  BY <1>2 DEF Past

\* At the end of a slot nothing more is to be come past.
LEMMA PastSlot ==
  ASSUME DiscoveryTypeOK, NEW s \in 1..N, NEW n \in Nat \ {0}, Ok(s) => n > Len(Slot(s).names),
         NEW i \in 1..N, NEW k \in Nat
  PROVE  Past(i, k, s + 1, 1) <=> Past(i, k, s, n)
<1>1. \A j \in 1..N : DOMAIN Slot(j).names = 1..Len(Slot(j).names) /\ Len(Slot(j).names) \in Nat
  BY SlotType
<1>2. i \in Nat /\ s \in Nat
  BY NAssumption
<1> QED
  BY <1>1, <1>2 DEF Past

\* The merge of one name.
LEMMA MergeNameInv ==
  ASSUME DiscoveryTypeOK, MergeInv, MergeName
  PROVE  MergeInv'
<1> DEFINE s == source
           n == next
           r == result
           name == Slot(s).names[n]
           item == [name |-> name, source |-> s]
<1>0. /\ dpc = "merge" /\ UNCHANGED <<dpc, slots, source, successes>> /\ next' = next + 1
      /\ s \in 1..N /\ n \in Nat \ {0} /\ n \in Nat /\ N \in Nat /\ s \in Nat
      /\ Ok(s) /\ n <= Len(Slot(s).names) /\ n \in DOMAIN Slot(s).names
      /\ Len(Slot(s).names) \in Nat
  BY NAssumption, SlotType DEF MergeName, DiscoveryTypeOK, Ok
<1>1. MergedTo(s, n, r, successes)
  BY <1>0 DEF MergeInv
<1>2. \A i \in 1..N : \A k \in Nat : Past(i, k, s, n + 1) <=> Past(i, k, s, n) \/ (i = s /\ k = n)
  BY <1>0, PastItem
<1>3. /\ DOMAIN r = 1..Len(r) /\ Len(r) \in Nat
      /\ \A j \in DOMAIN r : r[j].source \in 1..N /\ r[j].source \in Nat
  BY ItemType DEF DiscoveryTypeOK
<1>4. ASSUME MergedTo(s, n + 1, result', successes)
      PROVE  MergeInv'
  BY <1>0, <1>4 DEF MergeInv, MergedTo, Past, Ok, NamesOf, Slot
<1>5. n + 1 <= Len(Slot(s).names) + 1
  BY <1>0
<1>6. CASE Merged(name)
  <2>1. result' = r
    BY <1>6 DEF MergeName
  <2>2. \A i \in 1..N : \A k \in Nat :
          Past(i, k, s, n + 1) => \E j \in DOMAIN r : r[j].name = Slot(i).names[k]
    BY <1>1, <1>2, <1>6 DEF MergedTo, Merged
  <2>3. \A j \in DOMAIN r : \E k \in Nat :
          Past(r[j].source, k, s, n + 1) /\ r[j].name = Slot(r[j].source).names[k]
    BY <1>1, <1>2, <1>3 DEF MergedTo
  <2>4. MergedTo(s, n + 1, r, successes)
    <3>1. s <= N
      BY <1>0
    <3> HIDE DEF s, n, r
    <3> QED
      BY <1>0, <1>1, <1>5, <2>2, <2>3, <3>1 DEF MergedTo
  <2> QED
    BY <1>4, <2>1, <2>4
<1>7. CASE ~Merged(name)
  <2> DEFINE q == Append(r, item)
             m == Len(r) + 1
  <2>1. result' = q
    BY <1>7 DEF MergeName
  <2>2. /\ DOMAIN q = 1..m /\ q[m] = item /\ m \in Nat /\ m \in DOMAIN q
        /\ \A j \in 1..Len(r) : q[j] = r[j]
    <3>1. item \in [name : Host, source : 1..N] /\ r \in Seq([name : Host, source : 1..N])
      BY <1>0, SlotType DEF DiscoveryTypeOK
    <3>2. /\ Len(r) \in Nat /\ DOMAIN Append(r, item) = 1..Len(r) + 1
          /\ \A k \in 1..Len(r) : Append(r, item)[k] = r[k]
          /\ Append(r, item)[Len(r) + 1] = item
      BY <3>1, AppendItem
    <3> QED
      BY <3>2
  <2>3. \A j \in DOMAIN q : j = m \/ (j \in DOMAIN r /\ j < m /\ q[j] = r[j])
    BY <1>3, <2>2
  <2>4. \A j \in DOMAIN r : j \in DOMAIN q /\ j < m /\ q[j] = r[j]
    BY <1>3, <2>2
  <2>5. q[m].name = name /\ q[m].source = s
    BY <2>2
  <2>6. \A i \in 1..N : \A k \in Nat :
          Past(i, k, s, n + 1) => \E j \in DOMAIN q : q[j].name = Slot(i).names[k]
    BY <1>1, <1>2, <2>2, <2>4, <2>5 DEF MergedTo
  <2>7. \A j, l \in DOMAIN q : q[j].name = q[l].name => j = l
    <3>1. \A j \in DOMAIN r : r[j].name # name
      BY <1>7 DEF Merged
    <3> QED
      BY <1>1, <2>3, <2>5, <3>1 DEF MergedTo
  <2>8. \A j \in DOMAIN q : \E k \in Nat :
          Past(q[j].source, k, s, n + 1) /\ q[j].name = Slot(q[j].source).names[k]
    <3>1. \A j \in DOMAIN r : \E k \in Nat :
            Past(r[j].source, k, s, n) /\ r[j].name = Slot(r[j].source).names[k]
      BY <1>1 DEF MergedTo
    <3>2. ASSUME NEW j \in DOMAIN r, q[j] = r[j]
          PROVE  \E k \in Nat : Past(q[j].source, k, s, n + 1) /\ q[j].name = Slot(q[j].source).names[k]
      BY <1>2, <1>3, <3>1, <3>2
    <3>3. Past(s, n, s, n + 1) /\ q[m].name = Slot(q[m].source).names[n]
      BY <1>0, <1>2, <2>5
    <3> QED
      BY <1>0, <2>3, <2>5, <3>2, <3>3
  <2>9. \A j \in DOMAIN q : \A i \in 1..q[j].source-1 : Ok(i) => q[j].name \notin NamesOf(i)
    <3>1. ASSUME NEW i \in 1..s-1, Ok(i), name \in NamesOf(i)
          PROVE  FALSE
      <4>1. i \in 1..N /\ i < s
        BY <1>0
      <4>2. PICK k \in DOMAIN Slot(i).names : name = Slot(i).names[k]
        BY <3>1 DEF NamesOf
      <4>3. k \in Nat /\ Past(i, k, s, n)
        BY <3>1, <4>1, <4>2, SlotType DEF Past
      <4> QED
        BY <1>1, <1>7, <4>1, <4>2, <4>3 DEF MergedTo, Merged
    <3> QED
      BY <1>1, <2>3, <2>5, <3>1 DEF MergedTo
  <2>10. \A j, l \in DOMAIN q : j <= l => q[j].source <= q[l].source
    <3>1. \A j \in DOMAIN r : r[j].source <= s
      BY <1>0, <1>1, <1>3 DEF MergedTo, Past
    <3>2. ASSUME NEW j \in DOMAIN q, NEW l \in DOMAIN q, j <= l
          PROVE  q[j].source <= q[l].source
      <4>1. CASE l = m
        BY <1>0, <2>3, <2>5, <3>1, <4>1
      <4>2. CASE l # m
        <5>1. j # m /\ l \in DOMAIN r /\ q[l] = r[l]
          BY <2>2, <2>3, <3>2, <4>2
        <5>2. j \in DOMAIN r /\ q[j] = r[j]
          BY <2>3, <5>1
        <5> QED
          BY <1>1, <3>2, <5>1, <5>2 DEF MergedTo
      <4> QED
        BY <4>1, <4>2
    <3> QED
      BY <3>2
  <2>11. MergedTo(s, n + 1, q, successes)
    <3> HIDE DEF q
    <3> QED
      BY <1>0, <1>1, <1>5, <2>6, <2>7, <2>8, <2>9, <2>10 DEF MergedTo
  <2> QED
    BY <1>4, <2>1, <2>11
<1> QED
  BY <1>6, <1>7

\* The end of a slot.
LEMMA NextSourceInv ==
  ASSUME DiscoveryTypeOK, MergeInv, NextSource
  PROVE  MergeInv'
<1> DEFINE s == source
           r == result
           c == IF Ok(s) THEN successes + 1 ELSE successes
<1>0. /\ dpc = "merge" /\ UNCHANGED <<dpc, slots, result>> /\ next' = 1 /\ source' = s + 1
      /\ s \in 1..N /\ s \in Nat /\ N \in Nat /\ successes \in Nat /\ next \in Nat \ {0}
      /\ Ok(s) => next > Len(Slot(s).names)
      /\ successes' = c
  BY NAssumption DEF NextSource, DiscoveryTypeOK, Ok
<1>1. MergedTo(s, next, r, successes)
  BY <1>0 DEF MergeInv
<1>2. \A i \in 1..N : \A k \in Nat : Past(i, k, s + 1, 1) <=> Past(i, k, s, next)
  BY <1>0, PastSlot
<1>3. \A j \in DOMAIN r : r[j].source \in 1..N
  BY ItemType DEF DiscoveryTypeOK
<1>4. c < s + 1 /\ (c = 0 <=> \A i \in 1..(s+1)-1 : ~Ok(i))
  <2>1. successes < s /\ (successes = 0 <=> \A i \in 1..s-1 : ~Ok(i))
    BY <1>1 DEF MergedTo
  <2>2. \A i : i \in 1..(s+1)-1 <=> i \in 1..s-1 \/ i = s
    BY <1>0
  <2> QED
    BY <1>0, <2>1, <2>2
<1>5. MergedTo(s + 1, 1, r, c)
  <2>1. \A i \in 1..N : \A k \in Nat :
          Past(i, k, s + 1, 1) => \E j \in DOMAIN r : r[j].name = Slot(i).names[k]
    BY <1>1, <1>2 DEF MergedTo
  <2>2. \A j \in DOMAIN r : \E k \in Nat :
          Past(r[j].source, k, s + 1, 1) /\ r[j].name = Slot(r[j].source).names[k]
    BY <1>1, <1>2, <1>3 DEF MergedTo
  <2>3. /\ \A j, l \in DOMAIN r : r[j].name = r[l].name => j = l
        /\ \A j \in DOMAIN r : \A i \in 1..r[j].source-1 : Ok(i) => r[j].name \notin NamesOf(i)
        /\ \A j, l \in DOMAIN r : j <= l => r[j].source <= r[l].source
    BY <1>1 DEF MergedTo
  <2> DEFINE t == s + 1
  <2>4. c < t /\ (c = 0 <=> \A i \in 1..t-1 : ~Ok(i))
    <3> HIDE DEF c
    <3> QED
      BY <1>4
  <2>5. /\ \A i \in 1..N : \A k \in Nat :
             Past(i, k, t, 1) => \E j \in DOMAIN r : r[j].name = Slot(i).names[k]
        /\ \A j \in DOMAIN r : \E k \in Nat :
             Past(r[j].source, k, t, 1) /\ r[j].name = Slot(r[j].source).names[k]
    BY <2>1, <2>2
  <2> HIDE DEF s, r, c, t
  <2>6. MergedTo(t, 1, r, c)
    BY <2>3, <2>4, <2>5 DEF MergedTo
  <2> QED
    BY <2>6 DEF t
<1> QED
  BY <1>0, <1>5 DEF MergeInv, MergedTo, Past, Ok, NamesOf, Slot

LEMMA InvStep == IInv /\ [Step]_discoveryVars => IInv'
<1> SUFFICES ASSUME IInv, [Step]_discoveryVars
             PROVE  MergeInv'
  BY TypeStep, PhaseStep DEF IInv
<1> USE DEF IInv
<1>1. CASE BeginDiscover \/ TakeResult
  BY <1>1 DEF BeginDiscover, TakeResult, MergeInv
<1>2. ASSUME NEW i \in 1..N, Answer(i)
      PROVE  MergeInv'
  BY <1>2 DEF Answer, PhaseInv, DiscoveryTypeOK, MergeInv
<1>3. CASE Wait
  <2>1. source' = 1 /\ next' = 1 /\ result' = <<>> /\ successes' = 0
    BY <1>3 DEF Wait, PhaseInv
  <2>2. DOMAIN result' = {} /\ \A i : i \notin 1..1-1
    BY <2>1
  <2>3. \A i \in 1..N : \A k \in Nat : ~Past(i, k, 1, 1)'
    <3>1. \A i \in 1..N : DOMAIN Slot(i).names = 1..Len(Slot(i).names) /\ Len(Slot(i).names) \in Nat
      BY SlotType
    <3> QED
      BY <1>3, <3>1 DEF Wait, Past, Slot, Ok
  <2> QED
    BY <2>1, <2>2, <2>3 DEF MergeInv, MergedTo
<1>4. CASE MergeName
  BY <1>4, MergeNameInv
<1>5. CASE NextSource
  BY <1>5, NextSourceInv
<1>6. CASE Return
  BY <1>6 DEF Return, MergeInv, MergedTo, Past, Ok, NamesOf, Slot
<1>7. CASE UNCHANGED discoveryVars
  BY <1>7 DEF discoveryVars, MergeInv, MergedTo, Past, Ok, NamesOf, Slot
<1> QED
  BY <1>1, <1>2, <1>3, <1>4, <1>5, <1>6, <1>7 DEF Step, DiscoverNext, DiscoverStep

\* The goroutines, the slots and the merge keep to their types.
THEOREM TypeCorrect == DiscoverySpec => []DiscoveryTypeOK
<1>1. IInv => DiscoveryTypeOK
  BY DEF IInv
<1> QED
  BY <1>1, InitInv, InvStep, PTL DEF DiscoverySpec, Step

----------------------------------------------------------------------------
(* The refinement.                                                         *)

\* What Return replies is what Gather says of the answers.
LEMMA ReturnIsReply ==
  ASSUME IInv, Return
  PROVE  Promise!IsReply([failed |-> successes = 0 /\ N > 0, result |-> result])
<1> DEFINE r == [failed |-> successes = 0 /\ N > 0, result |-> result]
<1>1. dpc = "merge" /\ source = N + 1 /\ N \in Nat /\ successes \in Nat
  BY NAssumption DEF Return, IInv, DiscoveryTypeOK
<1>2. MergedTo(N + 1, next, result, successes)
  BY <1>1 DEF IInv, MergeInv
<1>3. /\ r.failed <=> successes = 0 /\ N > 0
      /\ r.result = result
  OBVIOUS
<1>4. \A i \in 1..N : /\ Promise!Succeeded(i) <=> Ok(i)
                      /\ Promise!Names(i) = NamesOf(i)
  <2>1. \A i \in 1..N : slots[i] # <<>>
    BY <1>1 DEF IInv, PhaseInv
  <2> QED
    BY <2>1 DEF Promise!Succeeded, Promise!Answered, Promise!Names, Ok, NamesOf, Slot
<1>5. \A j \in DOMAIN result : result[j].source \in 1..N
  BY ItemType DEF IInv, DiscoveryTypeOK
<1>6. \A j \in DOMAIN result : Ok(result[j].source) /\ result[j].name \in NamesOf(result[j].source)
  BY <1>2 DEF MergedTo, Past, NamesOf
<1>7. Promise!IsFailure(r)
  <2>1. successes = 0 <=> \A i \in 1..N : ~Ok(i)
    BY <1>1, <1>2 DEF MergedTo
  <2> HIDE DEF r
  <2> QED
    BY <1>3, <1>4, <2>1 DEF Promise!IsFailure
<1>8. Promise!IsUnion(r)
  <2>1. ASSUME NEW i \in 1..N, Ok(i), NEW name \in NamesOf(i)
        PROVE  \E j \in DOMAIN result : result[j].name = name
    <3>1. PICK k \in DOMAIN Slot(i).names : name = Slot(i).names[k]
      BY DEF NamesOf
    <3>2. k \in Nat /\ i < N + 1
      BY <1>1, SlotType DEF IInv
    <3>3. Past(i, k, N + 1, next)
      BY <2>1, <3>2 DEF Past
    <3> QED
      BY <1>2, <3>1, <3>2, <3>3 DEF MergedTo
  <2>2. {result[k].name : k \in DOMAIN result} =
          UNION {Promise!Names(i) : i \in {j \in 1..N : Promise!Succeeded(j)}}
    BY <1>4, <1>5, <1>6, <2>1
  <2>3. \A k, l \in DOMAIN result : result[k].name = result[l].name => k = l
    BY <1>2 DEF MergedTo
  <2> HIDE DEF r
  <2> QED
    BY <1>3, <2>2, <2>3 DEF Promise!IsUnion
<1>9. Promise!IsAttributed(r)
  <2>1. ASSUME NEW k \in DOMAIN result, NEW i \in 1..result[k].source-1
        PROVE  i \in 1..N /\ (Ok(i) => result[k].name \notin NamesOf(i))
    BY <1>1, <1>2, <1>5 DEF MergedTo
  <2>2. \A k, l \in DOMAIN result : k <= l => result[k].source <= result[l].source
    BY <1>2 DEF MergedTo
  <2> HIDE DEF r
  <2> QED
    BY <1>3, <1>4, <1>5, <1>6, <2>1, <2>2 DEF Promise!IsAttributed
<1> QED
  BY <1>7, <1>8, <1>9 DEF Promise!IsReply

\* Every step of the call is a step of Gather or changes nothing there.
LEMMA StepRefines == IInv /\ [Step]_discoveryVars => [Promise!Next]_Promise!gatherVars
<1> SUFFICES ASSUME IInv, [Step]_discoveryVars PROVE [Promise!Next]_Promise!gatherVars
  OBVIOUS
<1> USE DEF Promise!gatherVars
<1>1. CASE BeginDiscover
  BY <1>1 DEF BeginDiscover, Promise!Next, Promise!Call
<1>2. ASSUME NEW i \in 1..N, Answer(i) PROVE [Promise!Next]_Promise!gatherVars
  <2>1. dpc = "gather" /\ slots[i] = <<>>
    BY <1>2 DEF Answer, IInv, PhaseInv, DiscoveryTypeOK
  <2>2. Promise!Answer(i)
    BY <1>2, <2>1 DEF Answer, Promise!Answer, Promise!Answered
  <2> QED
    BY <2>2 DEF Promise!Next
<1>3. CASE Wait \/ MergeName \/ NextSource
  BY <1>3 DEF Wait, MergeName, NextSource
<1>4. CASE Return
  <2>1. dpc = "merge" /\ dpc' = "returned" /\ UNCHANGED <<slots, result>>
    BY <1>4 DEF Return
  <2>2. failed' = (successes = 0 /\ N > 0)
    BY <1>4 DEF Return
  <2>3. \A i \in 1..N : Promise!Answered(i)
    BY <2>1 DEF IInv, PhaseInv, Promise!Answered
  <2>4. Promise!IsReply([failed |-> failed', result |-> result'])
    BY <1>4, <2>1, <2>2, ReturnIsReply
  <2>5. Promise!Reply
    BY <2>1, <2>3, <2>4 DEF Promise!Reply
  <2> QED
    BY <2>5 DEF Promise!Next
<1>5. CASE TakeResult
  BY <1>5 DEF TakeResult, Locals, Promise!Next, Promise!Take
<1>6. CASE UNCHANGED discoveryVars
  BY <1>6 DEF discoveryVars
<1> QED
  BY <1>1, <1>2, <1>3, <1>4, <1>5, <1>6 DEF Step, DiscoverNext, DiscoverStep

\* Whatever the order of the answers, Discover returns when all are in, with
\* every name of the sources that succeeded once, under the first of them, and
\* with an error exactly when all failed.
THEOREM PromiseKept == DiscoverySpec => KeepsPromise
<1>1. DiscoveryInit => Promise!Init
  BY DEF DiscoveryInit, Locals, Promise!Init
<1> QED
  BY <1>1, InitInv, InvStep, StepRefines, PTL DEF DiscoverySpec, Step, KeepsPromise, Promise!Spec
=============================================================================
