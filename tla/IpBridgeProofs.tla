--------------------------- MODULE IpBridgeProofs ---------------------------
(* What IpBridge promises for every pool, set of nodes and number of        *)
(* packets, refusals and failures: its types; that the table owns the slots *)
(* of the pool, because what is still to be freed has been unlinked; and,   *)
(* while no packet has left work behind, that one thing at a time is under  *)
(* way, due to the last packet taken, from which it follows that answers go *)
(* where they belong and that only what was asked for is removed.           *)
EXTENDS IpBridge, FiniteSetTheorems, WellFoundedInduction, TLAPS

-----------------------------------------------------------------------------
(* Calls still to be made: the next one, and the rest.                      *)
RestOf(q) == {q[i] : i \in 2..Len(q)}

LEMMA Popped ==
  ASSUME NEW S, NEW q \in Seq(S), q # <<>>, NEW r, r = <<>> \o Tail(q)
  PROVE  /\ r \in Seq(S) /\ RestOf(r) \subseteq RestOf(q)
         /\ r # <<>> => Head(r) \in RestOf(q)
<1>1. r = Tail(q)
  OBVIOUS
<1>2. Len(q) \in Nat \ {0} /\ Len(r) = Len(q) - 1 /\ \A i \in 1..Len(r) : r[i] = q[i + 1]
  BY <1>1
<1>3. RestOf(r) \subseteq RestOf(q)
  BY <1>2 DEF RestOf
<1>4. ASSUME r # <<>> PROVE Head(r) \in RestOf(q)
  <2>1. 1 \in 1..Len(r) /\ Head(r) = r[1]
    BY <1>1, <1>4
  <2> QED
    BY <2>1, <1>2 DEF RestOf
<1> QED
  BY <1>1, <1>3, <1>4

WithOne(x, q) == <<x>> \o Tail(q)
WithTwo(x, y, q) == <<x, y>> \o Tail(q)

LEMMA Replaced ==
  ASSUME NEW S, NEW q \in Seq(S), q # <<>>, NEW x \in S, NEW r, r = WithOne(x, q)
  PROVE  r \in Seq(S) /\ r # <<>> /\ Head(r) = x /\ RestOf(r) = RestOf(q)
<1>1. /\ r \in Seq(S) /\ Len(q) \in Nat \ {0} /\ Len(r) = Len(q) /\ r[1] = x
      /\ \A i \in 2..Len(q) : r[i] = q[i]
  BY DEF WithOne
<1> QED
  BY <1>1 DEF RestOf

LEMMA ReplacedByTwo ==
  ASSUME NEW q \in Seq(Calls), q # <<>>, NEW x \in Calls, NEW y \in Calls,
         NEW r, r = WithTwo(x, y, q)
  PROVE  /\ r \in Seq(Calls) /\ r # <<>> /\ Head(r) = x
         /\ RestOf(r) = {y} \cup RestOf(q)
<1>1. /\ r \in Seq(Calls) /\ Len(q) \in Nat \ {0} /\ Len(r) = Len(q) + 1 /\ r[1] = x
      /\ r[2] = y /\ \A i \in 3..Len(r) : r[i] = q[i - 1]
  BY DEF WithTwo
<1>2. \A i \in 2..Len(q) : i + 1 \in 3..Len(r) /\ r[i + 1] = q[i]
  BY <1>1
<1>3. Head(r) = x /\ r # <<>>
  BY <1>1
<1>4. RestOf(r) \subseteq {y} \cup RestOf(q)
  BY <1>1 DEF RestOf
<1>5. y \in RestOf(r)
  BY <1>1 DEF RestOf
<1>6. RestOf(q) \subseteq RestOf(r)
  <2>1. \A i \in 2..Len(q) : i + 1 \in 2..Len(r) /\ r[i + 1] = q[i]
    BY <1>1, <1>2
  <2> QED
    BY <2>1 DEF RestOf
<1> QED
  BY <1>1, <1>3, <1>4, <1>5, <1>6

LEMMA OneCall ==
  ASSUME NEW S, NEW x \in S, NEW r, r = <<x>>
  PROVE  r \in Seq(S) /\ r # <<>> /\ Head(r) = x /\ RestOf(r) = {}
  BY DEF RestOf

LEMMA TwoCalls ==
  ASSUME NEW S, NEW x \in S, NEW y \in S, NEW r, r = <<x, y>>
  PROVE  r \in Seq(S) /\ r # <<>> /\ Head(r) = x /\ RestOf(r) = {y}
<1>1. r \in Seq(S) /\ Len(r) = 2 /\ r[1] = x /\ r[2] = y
  OBVIOUS
<1> QED
  BY <1>1 DEF RestOf

-----------------------------------------------------------------------------
(* The first element that satisfies a test is one that does.                *)
LEMMA LeastExists ==
  ASSUME NEW T \in SUBSET Nat, T # {}
  PROVE  \E m \in T : \A n \in T : m <= n
<1>1. \E x \in T : \A y \in T : ~ (<<y, x>> \in OpToRel(<, Nat))
  BY NatLessThanWellFounded, WFMin
<1>2. PICK x \in T : \A y \in T : ~ (<<y, x>> \in OpToRel(<, Nat))
  BY <1>1
<1>3. \A y \in T : ~ (y < x)
  BY <1>2 DEF OpToRel
<1> QED
  BY <1>3

LEMMA MinIsIn ==
  ASSUME NEW T \in SUBSET Nat, T # {}
  PROVE  Min(T) \in T /\ \A n \in T : Min(T) <= n
<1>1. PICK m \in T : \A n \in T : m <= n
  BY LeastExists
<1> QED
  BY <1>1 DEF Min

LEMMA FreeIsFirst ==
  ASSUME IpBridgeAssumption, FreeSlots # {}
  PROVE  FirstFree \in Slots /\ FirstFree \notin used
<1>1. FreeSlots \in SUBSET Nat
  BY DEF FreeSlots, Slots, IpBridgeAssumption
<1>2. PICK m \in FreeSlots : \A n \in FreeSlots : m <= n
  BY <1>1, LeastExists
<1>3. FirstFree \in FreeSlots
  BY <1>2 DEF FirstFree
<1> QED
  BY <1>3 DEF FreeSlots

(* The index of the first marked association.                               *)
LEMMA FirstMarked ==
  ASSUME NEW first, first = SelectInSeq(table, IsMarked), table \in Seq(Slots)
  PROVE  /\ first # 0 => first \in 1..Len(table) /\ pool[table[first]].mark
         /\ first = 0 => \A i \in 1..Len(table) : ~pool[table[i]].mark
<1> DEFINE I == {i \in 1..Len(table) : IsMarked(table[i])}
<1>1. Len(table) \in Nat /\ I \in SUBSET Nat /\ 0 \notin I
  OBVIOUS
<1>2. first = IF I # {} THEN Min(I) ELSE 0
  BY DEF SelectInSeq
<1>3. I # {} => Min(I) \in I
  BY <1>1, MinIsIn
<1>4. CASE I = {}
  BY <1>2, <1>4 DEF IsMarked
<1>5. CASE I # {}
  BY <1>1, <1>2, <1>3, <1>5 DEF IsMarked
<1> QED
  BY <1>4, <1>5

(* What a list without repetitions is after one element was unlinked, or    *)
(* added.                                                                   *)
Distinct(s) == \A i, j \in 1..Len(s) : s[i] = s[j] => i = j

LEMMA Unlinked ==
  ASSUME NEW S, NEW s \in Seq(S), NEW e, Distinct(s), NEW r, r = RemoveFirst(s, e)
  PROVE  r \in Seq(S) /\ ToSet(r) = ToSet(s) \ {e} /\ Distinct(r)
<1>1. CASE ~ \E i \in 1..Len(s) : s[i] = e
  <2>1. r = s
    BY <1>1 DEF RemoveFirst
  <2> QED
    BY <2>1, <1>1 DEF ToSet
<1>2. CASE \E i \in 1..Len(s) : s[i] = e
  <2>1. PICK k \in 1..Len(s) : s[k] = e
    BY <1>2
  <2>2. {i \in 1..Len(s) : s[i] = e} = {k}
    BY <2>1 DEF Distinct
  <2>3. Min({k}) = k
    BY <2>1 DEF Min
  <2>4. SelectInSeq(s, LAMBDA v : v = e) = k
    BY <2>2, <2>3 DEF SelectInSeq
  <2>5. r = SubSeq(s, 1, k - 1) \o SubSeq(s, k + 1, Len(s))
    BY <1>2, <2>4 DEF RemoveFirst, RemoveAt
  <2>6. /\ r \in Seq(S) /\ Len(s) \in Nat /\ Len(r) = Len(s) - 1
        /\ \A i \in 1..(k - 1) : r[i] = s[i]
        /\ \A i \in k..Len(r) : r[i] = s[i + 1]
    <3> DEFINE u == SubSeq(s, 1, k - 1)
               v == SubSeq(s, k + 1, Len(s))
    <3>1. k \in 1..Len(s) /\ Len(s) \in Nat
      BY <2>1
    <3>2. u \in Seq(S) /\ Len(u) = k - 1 /\ \A i \in 1..(k - 1) : u[i] = s[i]
      BY <3>1
    <3>3. v \in Seq(S) /\ Len(v) = Len(s) - k /\ \A i \in 1..(Len(s) - k) : v[i] = s[i + k]
      BY <3>1
    <3>4. r = u \o v
      BY <2>5
    <3> HIDE DEF u, v
    <3>5. r \in Seq(S) /\ Len(r) = Len(s) - 1
      <4>1. u \in Seq(S) /\ v \in Seq(S)
        BY <3>2, <3>3
      <4>2. r \in Seq(S) /\ Len(r) = Len(u) + Len(v)
        BY <4>1, <3>4
      <4> QED
        BY <4>2, <3>1, <3>2, <3>3
    <3>6. \A i \in 1..(k - 1) : r[i] = s[i]
      BY <3>1, <3>2, <3>3, <3>4
    <3>7. \A i \in k..Len(r) : r[i] = s[i + 1]
      <4> SUFFICES ASSUME NEW i \in k..Len(r) PROVE r[i] = s[i + 1]
        OBVIOUS
      <4>1. i - (k - 1) \in 1..(Len(s) - k) /\ i - (k - 1) + k = i + 1
        BY <3>1, <3>5
      <4>2. r[i] = v[i - (k - 1)]
        BY <3>1, <3>2, <3>3, <3>4, <3>5
      <4> QED
        BY <4>1, <4>2, <3>3
    <3> QED
      BY <3>1, <3>5, <3>6, <3>7
  <2>7. Distinct(r)
    <3> SUFFICES ASSUME NEW i \in 1..Len(r), NEW j \in 1..Len(r), r[i] = r[j]
                 PROVE  i = j
      BY DEF Distinct
    <3> DEFINE at(n) == IF n < k THEN n ELSE n + 1
    <3>1. /\ at(i) \in 1..Len(s) /\ s[at(i)] = r[i]
          /\ at(j) \in 1..Len(s) /\ s[at(j)] = r[j]
      BY <2>1, <2>6
    <3>2. at(i) = at(j)
      BY <3>1 DEF Distinct
    <3> QED
      BY <3>2, <2>1, <2>6
  <2>8. ASSUME NEW i \in 1..Len(r) PROVE r[i] \in ToSet(s) \ {e}
    <3> DEFINE at == IF i < k THEN i ELSE i + 1
    <3>1. at \in 1..Len(s) /\ s[at] = r[i] /\ at # k
      BY <2>1, <2>6
    <3>2. s[at] # s[k]
      BY <3>1, <2>1 DEF Distinct
    <3> QED
      BY <3>1, <3>2, <2>1 DEF ToSet
  <2>9. ASSUME NEW i \in 1..Len(s), s[i] # e PROVE s[i] \in ToSet(r)
    <3> DEFINE at == IF i < k THEN i ELSE i - 1
    <3>1. at \in 1..Len(r) /\ s[i] = r[at]
      BY <2>1, <2>6, <2>9
    <3> QED
      BY <3>1 DEF ToSet
  <2>10. ToSet(r) = ToSet(s) \ {e}
    <3>1. ToSet(r) = {r[i] : i \in 1..Len(r)} /\ ToSet(s) = {s[i] : i \in 1..Len(s)}
      BY <2>6 DEF ToSet
    <3> QED
      BY <3>1, <2>8, <2>9
  <2> QED
    BY <2>6, <2>7, <2>10
<1> QED
  BY <1>1, <1>2

LEMMA Removing ==
  ASSUME NEW S, NEW s \in Seq(S), NEW e, NEW r, r = RemoveFirst(s, e)
  PROVE  r \in Seq(S) /\ ToSet(r) \subseteq ToSet(s)
<1>1. CASE ~ \E i \in 1..Len(s) : s[i] = e
  BY <1>1 DEF RemoveFirst
<1>2. CASE \E i \in 1..Len(s) : s[i] = e
  <2> DEFINE I == {i \in 1..Len(s) : s[i] = e}
             k == SelectInSeq(s, LAMBDA v : v = e)
             u == SubSeq(s, 1, k - 1)
             v == SubSeq(s, k + 1, Len(s))
  <2>1. I \in SUBSET Nat /\ I # {}
    BY <1>2
  <2>2. k = Min(I)
    BY <2>1 DEF SelectInSeq
  <2>3. k \in I
    BY <2>1, <2>2, MinIsIn
  <2>4. k \in 1..Len(s) /\ Len(s) \in Nat
    BY <2>3
  <2>5. r = u \o v
    BY <1>2 DEF RemoveFirst, RemoveAt
  <2> HIDE DEF k
  <2>6. u \in Seq(S) /\ Len(u) = k - 1 /\ \A i \in 1..(k - 1) : u[i] = s[i]
    BY <2>4
  <2>7. v \in Seq(S) /\ Len(v) = Len(s) - k /\ \A i \in 1..(Len(s) - k) : v[i] = s[i + k]
    BY <2>4
  <2> HIDE DEF u, v
  <2>8. u \in Seq(S) /\ v \in Seq(S)
    BY <2>6, <2>7
  <2>9. r \in Seq(S) /\ Len(r) = Len(u) + Len(v)
    BY <2>5, <2>8
  <2>10. ASSUME NEW i \in 1..Len(r) PROVE r[i] \in ToSet(s)
    <3>1. CASE i \in 1..(k - 1)
      <4>1. r[i] = s[i] /\ i \in 1..Len(s)
        BY <2>4, <2>5, <2>6, <2>8, <3>1
      <4> QED
        BY <4>1 DEF ToSet
    <3>2. CASE i \notin 1..(k - 1)
      <4>1. i - (k - 1) \in 1..(Len(s) - k) /\ i - (k - 1) + k \in 1..Len(s)
        BY <2>4, <2>6, <2>7, <2>9, <3>2
      <4>2. r[i] = v[i - (k - 1)]
        BY <2>4, <2>5, <2>6, <2>8, <2>9, <3>2
      <4>3. r[i] = s[i - (k - 1) + k]
        BY <4>1, <4>2, <2>7
      <4> QED
        BY <4>1, <4>3 DEF ToSet
    <3> QED
      BY <3>1, <3>2
  <2> QED
    BY <2>9, <2>10 DEF ToSet
<1> QED
  BY <1>1, <1>2

LEMMA Added ==
  ASSUME NEW s \in Seq(Slots), NEW e \in Slots, Distinct(s), e \notin ToSet(s),
         NEW r, r = Append(s, e)
  PROVE  r \in Seq(Slots) /\ ToSet(r) = ToSet(s) \cup {e} /\ Distinct(r)
<1>1. /\ r \in Seq(Slots) /\ Len(s) \in Nat /\ Len(r) = Len(s) + 1 /\ r[Len(r)] = e
      /\ \A i \in 1..Len(s) : r[i] = s[i]
  OBVIOUS
<1>2. ToSet(r) = {r[i] : i \in 1..Len(r)} /\ ToSet(s) = {s[i] : i \in 1..Len(s)}
  BY <1>1 DEF ToSet
<1>3. ToSet(r) = ToSet(s) \cup {e}
  BY <1>1, <1>2
<1>4. \A i \in 1..Len(s) : r[i] # e
  BY <1>1, <1>2
<1>5. Distinct(r)
  BY <1>1, <1>4 DEF Distinct
<1> QED
  BY <1>1, <1>3, <1>5

LEMMA ListSet == ASSUME NEW S, NEW s \in Seq(S)
                 PROVE  ToSet(s) = {s[i] : i \in 1..Len(s)} /\ Len(s) \in Nat
  BY DEF ToSet

(* In a list without repetitions as many places as elements.                *)
LEMMA AsMany ==
  ASSUME NEW S, NEW s \in Seq(S), Distinct(s), NEW T \in SUBSET ToSet(s)
  PROVE  LET I == {i \in 1..Len(s) : s[i] \in T} IN
         IsFiniteSet(T) /\ Cardinality(T) = Cardinality(I) /\ Cardinality(I) \in Nat
<1> DEFINE I == {i \in 1..Len(s) : s[i] \in T}
           f == [i \in I |-> s[i]]
<1>1. Len(s) \in Nat /\ T \subseteq {s[i] : i \in 1..Len(s)}
  BY ListSet
<1>2. IsFiniteSet(1..Len(s)) /\ I \subseteq 1..Len(s)
  BY <1>1, FS_Interval
<1>3. IsFiniteSet(I)
  BY <1>2, FS_Subset
<1>4. f \in Bijection(I, T)
  <2>1. f \in [I -> T]
    OBVIOUS
  <2>2. f \in Injection(I, T)
    BY <2>1 DEF Injection, IsInjective, Distinct
  <2>3. f \in Surjection(I, T)
    BY <2>1, <1>1 DEF Surjection
  <2> QED
    BY <2>2, <2>3 DEF Bijection
<1>5. IsFiniteSet(T) /\ Cardinality(I) = Cardinality(T)
  BY <1>3, <1>4, FS_Bijection DEF ExistsBijection
<1> QED
  BY <1>3, <1>5, FS_CardinalityType

LEMMA WholeList ==
  ASSUME NEW S, NEW s \in Seq(S), Distinct(s)
  PROVE  Cardinality(ToSet(s)) = Len(s)
<1>1. ToSet(s) = {s[i] : i \in 1..Len(s)} /\ Len(s) \in Nat
  BY ListSet
<1>2. {i \in 1..Len(s) : s[i] \in ToSet(s)} = 1..Len(s)
  BY <1>1
<1>3. Cardinality(1..Len(s)) = Len(s)
  BY <1>1, FS_Interval
<1> QED
  BY <1>2, <1>3, AsMany

-----------------------------------------------------------------------------
(* The calls and the callbacks, and what they name.                         *)
LEMMA CallsByKind ==
  ASSUME NEW x
  PROVE  /\ x \in Calls <=> \/ \E p \in Packets : x \in CallsOf(p)
                            \/ \E a \in Slots : x = Free(a)
         /\ \A p : x \in CallsOf(p) <=>
              \/ x \in {Report(p), Complete(p), SendRemove(p), Continue(p)}
              \/ \E a \in Slots : x = SendSet(a, p)
              \/ \E a \in Slots, w \in {"undo", "asked"} : x = RemoveAssoc(a, p, w)
<1>1. x \in UNION {CallsOf(p) : p \in Packets} <=> \E p \in Packets : x \in CallsOf(p)
  BY Zenon
<1>2. x \in Calls <=> \/ \E p \in Packets : x \in CallsOf(p)
                      \/ \E a \in Slots : x = Free(a)
  BY <1>1 DEF Calls
<1> QED
  BY <1>2 DEF CallsOf

LEMMA CallsIn ==
  ASSUME NEW p \in Packets
  PROVE  /\ Report(p) \in Calls /\ Complete(p) \in Calls /\ SendRemove(p) \in Calls
         /\ Continue(p) \in Calls
         /\ \A a \in Slots : Free(a) \in Calls /\ SendSet(a, p) \in Calls
         /\ \A a \in Slots, w \in {"undo", "asked"} : RemoveAssoc(a, p, w) \in Calls
  BY CallsByKind

LEMMA CallsAre ==
  ASSUME NEW x \in Calls
  PROVE  /\ x.do \in {"report", "complete", "sendSet", "sendRemove", "remove", "continue", "free"}
         /\ x.do # "free" => x.of \in Packets
         /\ x.do \in {"sendSet", "remove", "free"} => x.a \in Slots
         /\ x.do = "remove" => x.why \in {"undo", "asked"}
<1>1. ASSUME NEW p \in Packets, x \in CallsOf(p)
      PROVE  /\ x.do \in {"report", "complete", "sendSet", "sendRemove", "remove", "continue"}
             /\ x.of = p /\ (x.do \in {"sendSet", "remove"} => x.a \in Slots)
             /\ x.do = "remove" => x.why \in {"undo", "asked"}
  <2>1. CASE x \in {Report(p), Complete(p), SendRemove(p), Continue(p)}
    BY <2>1 DEF Report, Complete, SendRemove, Continue
  <2>2. CASE \E a \in Slots : x = SendSet(a, p)
    BY <2>2 DEF SendSet
  <2>3. CASE \E a \in Slots, w \in {"undo", "asked"} : x = RemoveAssoc(a, p, w)
    BY <2>3 DEF RemoveAssoc
  <2> QED
    BY <1>1, <2>1, <2>2, <2>3, CallsByKind
<1>2. CASE \E a \in Slots : x = Free(a)
  BY <1>2 DEF Free
<1>3. CASE \E p \in Packets : x \in CallsOf(p)
  <2>1. PICK p \in Packets : x \in CallsOf(p)
    BY <1>3
  <2> QED
    BY <2>1, <1>1
<1> QED
  BY <1>2, <1>3, CallsByKind

(* A copy differs from the callback in nothing but its number.              *)
LEMMA Copies ==
  ASSUME NEW n
  PROVE  /\ \A cb, a, p : LET c == Copy(Frame(cb, a, p), n) IN
              c.kind = "frame" /\ c.cb = cb /\ c.a = a /\ c.of = p
         /\ \A m, v, p : LET c == Copy(Learn(m, v, p), n) IN
              c.kind = "learn" /\ c.mode = m /\ c.of = p
         /\ \A p : LET c == Copy(Route(p), n) IN c.kind = "route" /\ c.of = p
  BY DEF Copy, Frame, Learn, Route

LEMMA FirstCopies ==
  /\ \A cb, a, p : Copy(Frame(cb, a, p), 0) = Frame(cb, a, p)
  /\ \A m, v, p : Copy(Learn(m, v, p), 0) = Learn(m, v, p)
  /\ \A p : Copy(Route(p), 0) = Route(p)
  BY DEF Copy, Frame, Learn, Route

LEMMA CopiesWithin ==
  ASSUME NEW p \in Packets, NEW n \in 0..MaxFaults
  PROVE  /\ Copy(Frame("temp", None, p), n) \in Callbacks /\ Copy(Route(p), n) \in Callbacks
         /\ \A cb \in {"set", "remove"}, a \in Slots : Copy(Frame(cb, a, p), n) \in Callbacks
         /\ \A m \in {"add", "remove"}, v \in VirtualIds \cup {0} :
              Copy(Learn(m, v, p), n) \in Callbacks
<1>1. /\ Frame("temp", None, p) \in Single /\ Route(p) \in Single
      /\ \A cb \in {"set", "remove"}, a \in Slots : Frame(cb, a, p) \in Single
      /\ \A m \in {"add", "remove"}, v \in VirtualIds \cup {0} : Learn(m, v, p) \in Single
  BY DEF Single
<1> QED
  BY <1>1 DEF Callbacks

LEMMA CallbacksIn ==
  ASSUME IpBridgeAssumption, NEW p \in Packets
  PROVE  /\ Frame("temp", None, p) \in Callbacks /\ Route(p) \in Callbacks
         /\ \A cb \in {"set", "remove"}, a \in Slots : Frame(cb, a, p) \in Callbacks
         /\ \A m \in {"add", "remove"}, v \in VirtualIds \cup {0} : Learn(m, v, p) \in Callbacks
<1>1. 0 \in 0..MaxFaults
  BY DEF IpBridgeAssumption
<1> QED
  BY <1>1, CopiesWithin, FirstCopies

LEMMA CallbacksAre ==
  ASSUME NEW w \in Callbacks
  PROVE  /\ w.kind \in {"frame", "learn", "route"} /\ w.of \in Packets
         /\ w.kind = "frame" => w.cb \in {"temp", "set", "remove"} /\ w.a \in Slots \cup {None}
         /\ w.kind = "learn" => w.mode \in {"add", "remove"}
<1>1. PICK x \in Single, n \in 0..MaxFaults : w = Copy(x, n)
  BY DEF Callbacks
<1>2. CASE \E cb \in {"temp", "set", "remove"}, a \in Slots \cup {None}, p \in Packets : x = Frame(cb, a, p)
  BY <1>1, <1>2, Copies
<1>3. CASE \E m \in {"add", "remove"}, v \in VirtualIds \cup {0}, p \in Packets : x = Learn(m, v, p)
  BY <1>1, <1>3, Copies
<1>4. CASE \E p \in Packets : x = Route(p)
  BY <1>1, <1>4, Copies
<1> QED
  BY <1>1, <1>2, <1>3, <1>4 DEF Single

(* What is awaited comes on top; it is the first copy when nothing else is. *)
LEMMA IsAwaited ==
  ASSUME IpBridgeAssumption, NEW w, Awaited(w)
  PROVE  \E n \in 0..MaxFaults : /\ pending' = pending \cup {Copy(w, n)}
                                 /\ pending = {} => n = 0
<1>1. PICK n \in 0..MaxFaults :
        /\ \A m \in 0..n - 1 : Copy(w, m) \in pending
        /\ pending' = pending \cup {Copy(w, n)}
  BY DEF Awaited
<1>2. ASSUME pending = {} PROVE n = 0
  <2>1. 0 \notin 0..n - 1
    BY <1>1, <1>2
  <2> QED
    BY <2>1
<1> QED
  BY <1>1, <1>2

LEMMA AbortIn ==
  ASSUME NEW p \in Packets, NEW a \in Slots \cup {None}
  PROVE  Abort(a, p) \in Seq(Calls)
<1>1. CASE a = None
  BY <1>1, CallsIn DEF Abort
<1>2. CASE a # None
  BY <1>2, CallsIn DEF Abort
<1> QED
  BY <1>1, <1>2

-----------------------------------------------------------------------------
(* Types: which associations the calls and the callbacks name.              *)
PacketType ==
  /\ taken \in 0..MaxPackets /\ owner \in 0..taken /\ nakTimer \in 0..taken
  /\ bufNode \in Nodes \cup {"none"}
  /\ zwSending = (owner # None)
  /\ conn \in [no : 0..taken, ack : BOOLEAN]
AssocType ==
  /\ pool \in [Slots -> Associations]
  /\ used \subseteq Slots
  /\ table \in Seq(Slots)
  /\ marked \in Nat
  /\ creating \in {"none", "PERMANENT", "PROXY"}
  /\ addCmd \in [no : 0..taken, type : {"none", "PERMANENT", "PROXY"}]
  /\ addCmd.no # None => addCmd.type # "none"
  /\ routeFor \in Slots \cup {None}
  /\ learnCb \in {"none", "add", "continue"}
  /\ \A a \in ToSet(table) : pool[a].type \in Types
FlowType ==
  /\ pending \subseteq Callbacks
  /\ \A w \in pending : w.kind = "frame" /\ w.cb # "temp" => w.a \in Slots
  /\ virtuals \subseteq VirtualIds
  /\ todo \in Seq(Calls)
  /\ bufNode \in Nodes \/ (pending = {} /\ todo = <<>>)
  /\ faults \in 0..MaxFaults
  /\ sent \in [answered : BOOLEAN, wrong : SUBSET {"crossed", "twice"}]
TypeInv == PacketType /\ AssocType /\ FlowType

LEMMA TypesAre == TypeInv => TypeOK
  BY DEF TypeInv, PacketType, AssocType, FlowType, TypeOK

LEMMA TypeInit == ASSUME IpBridgeAssumption, Init PROVE TypeInv
<1>0. zwSending = (owner # None)
  BY Zenon DEF Init, None
<1>1. PacketType
  BY <1>0 DEF Init, PacketType, IpBridgeAssumption, None
<1>2. Blank \in Associations /\ <<>> \in Seq(Slots) /\ ToSet(<<>>) = {}
  BY DEF Associations, ToSet
<1>3. AssocType
  BY <1>2 DEF Init, AssocType, None
<1>4. FlowType
  BY DEF Init, FlowType, IpBridgeAssumption
<1> QED
  BY <1>1, <1>3, <1>4 DEF TypeInv

LEMMA Taking ==
  ASSUME IpBridgeAssumption, TypeInv, NEW n \in Nodes, Take(n)
  PROVE  /\ taken + 1 \in Packets /\ taken + 1 \in 0..MaxPackets /\ taken' = taken + 1
         /\ todo = <<>> /\ owner = None /\ zwSending = FALSE /\ bufNode' = n
         /\ \A m \in 0..taken : m \in 0..taken'
         /\ taken + 1 \in 0..taken' /\ 0 \in 0..taken'
<1>1. /\ MaxPackets \in Nat /\ MaxLoose \in Nat /\ MaxLoose <= MaxPackets
      /\ taken \in 0..MaxPackets
  BY DEF TypeInv, PacketType, IpBridgeAssumption
<1>2. taken < MaxPackets
  <2>1. CASE Clean
    BY <1>1, <2>1 DEF Take
  <2>2. CASE ~Clean
    BY <1>1, <2>2 DEF Take
  <2> QED
    BY <2>1, <2>2
<1>3. taken' = taken + 1 /\ todo = <<>> /\ zwSending = FALSE /\ bufNode' = n
  BY DEF Take, Idle, TypeInv, PacketType
<1>4. owner = None
  BY <1>3 DEF TypeInv, PacketType
<1> QED
  BY <1>1, <1>2, <1>3, <1>4 DEF Packets

LEMMA TypeUndeliverable ==
  ASSUME IpBridgeAssumption, TypeInv, TakeUndeliverable PROVE TypeInv'
<1>1. PICK n \in Nodes : Take(n)
  BY DEF TakeUndeliverable
<1> USE <1>1, Taking
<1>2. PacketType'
  BY DEF TakeUndeliverable, AtOnce, TypeInv, PacketType
<1>3. AssocType'
  BY DEF TakeUndeliverable, assoc, TypeInv, AssocType
<1>4. FlowType'
  BY DEF TakeUndeliverable, AtOnce, TypeInv, FlowType
<1> QED
  BY <1>2, <1>3, <1>4 DEF TypeInv

LEMMA Entering ==
  ASSUME IpBridgeAssumption, TypeInv, NEW n \in Nodes, Take(n), NEW ack \in BOOLEAN, Enters(ack),
         nakTimer' \in {None, nakTimer, taken + 1},
         UNCHANGED <<zwSending, owner>> \/ Waits
  PROVE  PacketType'
<1> USE Taking
<1>1. conn' \in [no : 0..taken', ack : BOOLEAN]
  BY DEF Enters
<1>2. nakTimer' \in 0..taken' /\ taken' \in 0..MaxPackets /\ bufNode' \in Nodes
  BY DEF TypeInv, PacketType, None
<1>3. owner' \in 0..taken' /\ zwSending' = (owner' # None)
  <2>1. CASE Waits
    <3>1. owner' = taken + 1 /\ zwSending' = TRUE /\ taken + 1 # None
      BY <2>1 DEF Waits, TypeInv, PacketType, None
    <3> QED
      BY <3>1
  <2>2. CASE UNCHANGED <<zwSending, owner>>
    BY <2>2 DEF TypeInv, PacketType
  <2> QED
    BY <2>1, <2>2
<1> QED
  BY <1>1, <1>2, <1>3 DEF PacketType

LEMMA TypeAtOnce ==
  ASSUME IpBridgeAssumption, TypeInv, TakeDropped \/ TakeVersion \/ TakeGet
  PROVE  TypeInv'
<1>1. PICK n \in Nodes : Take(n)
  BY DEF TakeDropped, TakeVersion, TakeGet
<1>2. PICK ack \in BOOLEAN : Enters(ack)
  BY DEF TakeDropped, TakeVersion, TakeGet
<1>3. AtOnce /\ nakTimer' \in {None, nakTimer} /\ UNCHANGED <<assoc, virtuals, faults>>
  BY DEF TakeDropped, TakeVersion, TakeGet
<1>4. \E final \in BOOLEAN : FirstAnswer(final)
  BY DEF TakeDropped, TakeVersion, TakeGet
<1>5. PacketType'
  BY <1>1, <1>2, <1>3, Entering DEF AtOnce
<1>6. AssocType'
  BY <1>1, <1>3, Taking DEF assoc, TypeInv, AssocType
<1>7. FlowType'
  BY <1>1, <1>3, <1>4, Taking DEF AtOnce, FirstAnswer, TypeInv, FlowType
<1> QED
  BY <1>5, <1>6, <1>7 DEF TypeInv

LEMMA Failing ==
  ASSUME IpBridgeAssumption, TypeInv, UNCHANGED faults \/ Fails(1)
  PROVE  faults' \in 0..MaxFaults
  BY DEF Fails, TypeInv, FlowType, IpBridgeAssumption

LEMMA TypeSend ==
  ASSUME IpBridgeAssumption, TypeInv, TakeSend PROVE TypeInv'
<1>1. PICK n \in Nodes : Take(n)
  BY DEF TakeSend
<1>2. PICK ack \in BOOLEAN :
        /\ Enters(ack)
        /\ \/ /\ Waits
              /\ pending' = pending \cup {Frame("temp", None, taken + 1)}
              /\ FirstAnswer(FALSE) /\ UNCHANGED <<nakTimer, todo, faults>>
           \/ /\ Fails(1) /\ FirstAnswer(ack) /\ nakTimer' = None /\ AtOnce
           \/ /\ Fails(1) /\ nakTimer' = None /\ AtOnce /\ FirstAnswer(FALSE)
  BY DEF TakeSend
<1>3. PacketType'
  BY <1>1, <1>2, Entering DEF AtOnce
<1>4. AssocType'
  BY <1>1, Taking DEF TakeSend, assoc, TypeInv, AssocType
<1>5. UNCHANGED <<todo, virtuals>> /\ faults' \in 0..MaxFaults
  BY <1>2, Failing DEF AtOnce, TakeSend
<1>6. \E final \in BOOLEAN : FirstAnswer(final)
  BY <1>2
<1>7. /\ pending' \subseteq pending \cup {Frame("temp", None, taken + 1)}
      /\ Frame("temp", None, taken + 1) \in Callbacks
      /\ Frame("temp", None, taken + 1).cb = "temp"
  BY <1>1, <1>2, Taking, CallbacksIn DEF AtOnce, Frame
<1>8. FlowType'
  BY <1>1, <1>5, <1>6, <1>7, Taking DEF FirstAnswer, TypeInv, FlowType
<1> QED
  BY <1>3, <1>4, <1>8 DEF TypeInv

LEMMA Handled ==
  ASSUME NEW sup \in BOOLEAN, NEW calls \in Seq(Calls), taken + 1 \in Packets, Handle(calls, sup)
  PROVE  todo' \in Seq(Calls) /\ Waits /\ FirstAnswer(FALSE) /\ UNCHANGED virtuals
<1>1. <<Complete(taken + 1)>> \in Seq(Calls) /\ <<>> \in Seq(Calls)
  BY CallsIn
<1>2. todo' = calls \o (IF sup THEN <<Complete(taken + 1)>> ELSE <<>>)
  BY DEF Handle
<1>3. todo' \in Seq(Calls)
  BY <1>1, <1>2
<1> QED
  BY <1>3 DEF Handle

LEMMA Recorded ==
  ASSUME NEW a \in Associations
  PROVE  a.mark \in BOOLEAN /\ a.virt \in VirtualIds \cup {0}
<1>1. CASE a = Blank
  BY <1>1 DEF Blank
<1>2. CASE a # Blank
  BY <1>2 DEF Associations
<1> QED
  BY <1>1, <1>2

LEMMA Slotted ==
  ASSUME AssocType, NEW a \in Slots, NEW y \in Associations, y.type \in Types, Put(a, y), Enlist(a, y)
  PROVE  /\ pool' \in [Slots -> Associations] /\ used' \subseteq Slots /\ table' \in Seq(Slots)
         /\ \A b \in ToSet(table') : pool'[b].type \in Types
<1>1. pool' = [pool EXCEPT ![a] = y] /\ pool' \in [Slots -> Associations]
  BY DEF Put, AssocType
<1>2. table' \in Seq(Slots) /\ ToSet(table') \subseteq ToSet(table) \cup {a}
  <2>1. CASE table' = table
    BY <2>1 DEF AssocType
  <2>2. CASE table' = Append(table, a)
    <3>1. table \in Seq(Slots)
      BY DEF AssocType
    <3>2. table' \in Seq(Slots) /\ Len(table') = Len(table) + 1 /\ table'[Len(table) + 1] = a
          /\ \A i \in 1..Len(table) : table'[i] = table[i]
      BY <2>2, <3>1
    <3>3. ToSet(table') = {table'[i] : i \in 1..Len(table')} /\ ToSet(table) = {table[i] : i \in 1..Len(table)}
      BY <3>1, <3>2, ListSet
    <3> QED
      BY <3>1, <3>2, <3>3
  <2> QED
    BY <2>1, <2>2 DEF Enlist
<1>3. used' \subseteq Slots
  BY DEF Enlist, AssocType
<1>4. ASSUME NEW b \in ToSet(table') PROVE pool'[b].type \in Types
  <2>0. b \in Slots
    BY <1>2, <1>4, ListSet
  <2>1. CASE b = a
    BY <1>1, <2>1 DEF AssocType
  <2>2. CASE b # a
    <3>1. b \in ToSet(table) /\ pool'[b] = pool[b]
      BY <1>1, <1>2, <2>0, <2>2 DEF AssocType
    <3> QED
      BY <3>1 DEF AssocType
  <2> QED
    BY <2>1, <2>2
<1> QED
  BY <1>1, <1>2, <1>3, <1>4

LEMMA TypeSet ==
  ASSUME IpBridgeAssumption, TypeInv, TakeSet PROVE TypeInv'
<1>1. PICK n \in Nodes, ack \in BOOLEAN, sup \in BOOLEAN :
        /\ Take(n) /\ Enters(ack) /\ StartNakTimer(ack)
        /\ \/ CreateLocal(n, sup)
           \/ \E type \in {"PERMANENT", "PROXY"} : CreateVirtual(type, sup)
           \/ RefuseSet(sup)
  BY DEF TakeSet
<1> DEFINE t == taken + 1
<1>2. /\ t \in Packets /\ t \in 0..taken' /\ 0 \in 0..taken' /\ bufNode' \in Nodes
      /\ \A m \in 0..taken : m \in 0..taken'
  BY <1>1, Taking
<1>3. \E calls \in Seq(Calls) : Handle(calls, sup)
  <2>1. CASE CreateLocal(n, sup)
    <3>1. FirstFree \in Slots /\ Handle(<<SendSet(FirstFree, t)>>, sup)
      BY <2>1, FreeIsFirst DEF CreateLocal
    <3>2. <<SendSet(FirstFree, t)>> \in Seq(Calls)
      BY <1>2, <3>1, CallsIn
    <3> QED
      BY <3>1, <3>2
  <2>2. CASE \E type \in {"PERMANENT", "PROXY"} : CreateVirtual(type, sup)
    <3>1. Append(Abort(None, t), Report(t)) \in Seq(Calls) /\ <<>> \in Seq(Calls)
      BY <1>2, AbortIn, CallsIn
    <3> QED
      BY <2>2, <3>1 DEF CreateVirtual
  <2>3. CASE RefuseSet(sup)
    <3>1. <<Report(t)>> \in Seq(Calls) /\ Handle(<<Report(t)>>, sup)
      BY <1>2, <2>3, CallsIn DEF RefuseSet
    <3> QED
      BY <3>1
  <2> QED
    BY <1>1, <2>1, <2>2, <2>3
<1>4. todo' \in Seq(Calls) /\ Waits /\ FirstAnswer(FALSE) /\ UNCHANGED virtuals
  BY <1>2, <1>3, Handled
<1>5. PacketType'
  BY <1>1, <1>4, Entering DEF StartNakTimer
<1>6. AssocType' /\ pending' \subseteq pending \cup {Learn("add", 0, t)} /\ faults' \in 0..MaxFaults
  <2>1. CASE CreateLocal(n, sup)
    <3> DEFINE a == FirstFree
               x == [type |-> "LOCAL", node |-> n, res |-> "none",
                     mark |-> pool[a].mark, virt |-> pool[a].virt]
    <3>1. PICK r \in Resources :
            /\ FreeSlots # {} /\ Put(a, [x EXCEPT !.res = r]) /\ Enlist(a, [x EXCEPT !.res = r])
            /\ UNCHANGED <<marked, creating, addCmd, routeFor, learnCb, pending, faults, asked>>
      BY <2>1 DEF CreateLocal
    <3>2. a \in Slots
      BY <3>1, FreeIsFirst
    <3>3. pool[a] \in Associations
      BY <3>2 DEF TypeInv, AssocType
    <3>4. [x EXCEPT !.res = r] = [type |-> "LOCAL", node |-> n, res |-> r,
                                  mark |-> pool[a].mark, virt |-> pool[a].virt]
      OBVIOUS
    <3>5. [x EXCEPT !.res = r] \in Associations /\ [x EXCEPT !.res = r].type \in Types
      BY <3>3, <3>4, Recorded DEF Associations, Types
    <3>6. /\ pool' \in [Slots -> Associations] /\ used' \subseteq Slots /\ table' \in Seq(Slots)
          /\ \A b \in ToSet(table') : pool'[b].type \in Types
      BY <3>1, <3>2, <3>5, Slotted DEF TypeInv
    <3> QED
      BY <1>2, <3>1, <3>6 DEF TypeInv, AssocType, FlowType
  <2>2. ASSUME NEW type \in {"PERMANENT", "PROXY"}, CreateVirtual(type, sup)
        PROVE  AssocType' /\ pending' \subseteq pending \cup {Learn("add", 0, t)} /\ faults' \in 0..MaxFaults
    <3>1. /\ learnCb' = "add" /\ UNCHANGED <<pool, used, table, marked, routeFor>>
          /\ addCmd' = [no |-> t, type |-> type] \/ addCmd' = [no |-> None, type |-> type]
          /\ creating' \in {creating, type}
          /\ pending' \subseteq pending \cup {Learn("add", 0, t)}
          /\ UNCHANGED faults \/ Fails(1)
      BY <2>2 DEF CreateVirtual, Missed
    <3>2. addCmd' \in [no : 0..taken', type : {"none", "PERMANENT", "PROXY"}] /\ addCmd'.type # "none"
      BY <1>2, <3>1 DEF None
    <3> QED
      BY <3>1, <3>2, Failing DEF TypeInv, AssocType
  <2>3. CASE RefuseSet(sup)
    BY <1>2, <2>3 DEF RefuseSet, assoc, TypeInv, AssocType, FlowType
  <2> QED
    BY <1>1, <2>1, <2>2, <2>3
<1>7. Learn("add", 0, t) \in Callbacks /\ Learn("add", 0, t).kind = "learn"
  BY <1>2, CallbacksIn DEF Learn
<1>8. FlowType'
  BY <1>2, <1>4, <1>6, <1>7 DEF FirstAnswer, TypeInv, FlowType
<1> QED
  BY <1>5, <1>6, <1>8 DEF TypeInv

LEMMA MarksType ==
  ASSUME TypeInv, NEW n \in Nodes, NEW r, NEW as, as = Matching(n, r), Marks(as)
  PROVE  /\ pool' \in [Slots -> Associations] /\ marked' \in Nat
         /\ \A a \in Slots : pool'[a].type = pool[a].type
<1>1. pool' = [a \in Slots |-> IF a \in as THEN [pool[a] EXCEPT !.mark = TRUE] ELSE pool[a]]
  BY DEF Marks
<1>2. ASSUME NEW a \in Slots PROVE pool'[a] \in Associations /\ pool'[a].type = pool[a].type
  <2>0. pool[a] \in Associations
    BY DEF TypeInv, AssocType
  <2>1. CASE a \in as
    <3>1. pool'[a] = [pool[a] EXCEPT !.mark = TRUE] /\ a \in ToSet(table)
      BY <1>1, <2>1 DEF Matching
    <3>2. pool[a].type \in Types
      BY <3>1 DEF TypeInv, AssocType
    <3>3. pool[a] \in [type : Types, node : Nodes, res : Resources \cup {"none"},
                       mark : BOOLEAN, virt : VirtualIds \cup {0}]
      BY <2>0, <3>2 DEF Associations, Blank, Types
    <3> QED
      BY <3>1, <3>3 DEF Associations
  <2>2. CASE a \notin as
    BY <1>1, <2>0, <2>2
  <2> QED
    BY <2>1, <2>2
<1>3. marked' \in Nat
  <2>1. Len(table) \in Nat /\ DOMAIN table = 1..Len(table)
    BY DEF TypeInv, AssocType
  <2>2. IsFiniteSet({i \in DOMAIN table : table[i] \in as})
    <3>1. IsFiniteSet(1..Len(table))
      BY <2>1, FS_Interval
    <3> QED
      BY <2>1, <3>1, FS_Subset
  <2> QED
    BY <2>2, FS_CardinalityType DEF Marks
<1> QED
  BY <1>1, <1>2, <1>3

LEMMA TypeRemove ==
  ASSUME IpBridgeAssumption, TypeInv, TakeRemove PROVE TypeInv'
<1>1. PICK n \in Nodes, r \in Resources \cup {"any"}, ack \in BOOLEAN, sup \in BOOLEAN :
        /\ Take(n) /\ Enters(ack)
        /\ \/ /\ nakTimer' = None /\ AtOnce
              /\ FirstAnswer(FALSE) \/ FirstAnswer(TRUE)
              /\ pool' = pool /\ marked' \in {marked, 0} /\ UNCHANGED virtuals
           \/ /\ Marks(Matching(n, r)) /\ StartNakTimer(ack)
              /\ Handle(<<SendRemove(taken + 1)>>, sup) /\ UNCHANGED pending
        /\ UNCHANGED <<used, table, creating, addCmd, routeFor, learnCb, faults>>
  BY DEF TakeRemove
<1>2. /\ taken + 1 \in Packets /\ bufNode' \in Nodes /\ 0 \in 0..taken'
      /\ \A m \in 0..taken : m \in 0..taken'
  BY <1>1, Taking
<1>3. CASE /\ nakTimer' = None /\ AtOnce
           /\ FirstAnswer(FALSE) \/ FirstAnswer(TRUE)
           /\ pool' = pool /\ marked' \in {marked, 0} /\ UNCHANGED virtuals
  <2>1. PacketType'
    BY <1>1, <1>3, Entering DEF AtOnce
  <2>2. AssocType'
    BY <1>1, <1>2, <1>3 DEF TypeInv, AssocType
  <2>3. FlowType'
    BY <1>1, <1>2, <1>3 DEF AtOnce, FirstAnswer, TypeInv, FlowType
  <2> QED
    BY <2>1, <2>2, <2>3 DEF TypeInv
<1>4. CASE /\ Marks(Matching(n, r)) /\ StartNakTimer(ack)
           /\ Handle(<<SendRemove(taken + 1)>>, sup) /\ UNCHANGED pending
  <2>0. <<SendRemove(taken + 1)>> \in Seq(Calls)
    BY <1>2, CallsIn
  <2>1. todo' \in Seq(Calls) /\ Waits /\ FirstAnswer(FALSE) /\ UNCHANGED virtuals
    BY <1>2, <1>4, <2>0, Handled
  <2>2. PacketType'
    BY <1>1, <1>4, <2>1, Entering DEF StartNakTimer
  <2>3. /\ pool' \in [Slots -> Associations] /\ marked' \in Nat
        /\ \A a \in Slots : pool'[a].type = pool[a].type
    BY <1>4, MarksType
  <2>4. ToSet(table) \subseteq Slots
    BY ListSet DEF TypeInv, AssocType
  <2>5. AssocType'
    BY <1>1, <1>2, <2>3, <2>4 DEF TypeInv, AssocType
  <2>6. FlowType'
    BY <1>1, <1>2, <1>4, <2>1 DEF FirstAnswer, TypeInv, FlowType
  <2> QED
    BY <2>2, <2>5, <2>6 DEF TypeInv
<1> QED
  BY <1>1, <1>3, <1>4

(* While a call or a callback is handled.                                   *)
Busy == ~Idle \/ pending # {}
LEMMA BusyHasNode ==
  ASSUME TypeInv, Busy
  PROVE  bufNode \in Nodes
  BY DEF Busy, Idle, TypeInv, FlowType

LEMMA NowIs ==
  ASSUME TypeInv, ~Idle
  PROVE  Now \in Calls /\ todo \in Seq(Calls) /\ todo # <<>>
  BY DEF Idle, Now, TypeInv, FlowType

LEMMA ThenIn ==
  ASSUME TypeInv, ~Idle, NEW calls \in Seq(Calls), Then(calls)
  PROVE  todo' \in Seq(Calls)
<1>1. Tail(todo) \in Seq(Calls)
  BY NowIs
<1> QED
  BY <1>1 DEF Then

Named(w) == w \in Callbacks /\ (w.kind = "frame" /\ w.cb # "temp" => w.a \in Slots)

LEMMA Flowing ==
  ASSUME IpBridgeAssumption, TypeInv, Busy, UNCHANGED bufNode, todo' \in Seq(Calls),
         \A w \in pending' : w \in pending \/ Named(w),
         virtuals' \subseteq VirtualIds, UNCHANGED faults \/ Fails(1),
         sent' \in [answered : BOOLEAN, wrong : SUBSET {"crossed", "twice"}]
  PROVE  FlowType'
<1>1. bufNode' \in Nodes
  BY BusyHasNode
<1>2. faults' \in 0..MaxFaults
  BY Failing
<1> QED
  BY <1>1, <1>2 DEF Named, TypeInv, FlowType

LEMMA FirstAwaited ==
  ASSUME IpBridgeAssumption, pending = {}, NEW w, Copy(w, 0) = w, Awaited(w)
  PROVE  pending' = {w}
  BY IsAwaited

LEMMA NamedCopies ==
  ASSUME IpBridgeAssumption, NEW p \in Packets, NEW a \in Slots, NEW v \in VirtualIds \cup {0},
         NEW w \in {Frame("remove", a, p), Learn("remove", v, p)}, Awaited(w)
  PROVE  \A c \in pending' : c \in pending \/ Named(c)
<1>1. PICK n \in 0..MaxFaults : pending' = pending \cup {Copy(w, n)}
  BY IsAwaited
<1>2. CASE w = Frame("remove", a, p)
  <2>1. Copy(w, n) \in Callbacks /\ Copy(w, n).a = a
    BY <1>2, CopiesWithin, Copies
  <2> QED
    BY <1>1, <2>1 DEF Named
<1>3. CASE w = Learn("remove", v, p)
  <2>1. Copy(w, n) \in Callbacks /\ Copy(w, n).kind = "learn"
    BY <1>3, CopiesWithin, Copies
  <2> QED
    BY <1>1, <2>1 DEF Named
<1> QED
  BY <1>2, <1>3

LEMMA AnswerType ==
  ASSUME TypeInv, UNCHANGED sent \/ \E p, final : final \in BOOLEAN /\ Answered(p, final)
  PROVE  sent' \in [answered : BOOLEAN, wrong : SUBSET {"crossed", "twice"}]
<1>1. sent \in [answered : BOOLEAN, wrong : SUBSET {"crossed", "twice"}]
  BY DEF TypeInv, FlowType
<1>2. ASSUME NEW p, NEW final \in BOOLEAN, Answered(p, final)
      PROVE  sent' \in [answered : BOOLEAN, wrong : SUBSET {"crossed", "twice"}]
  BY <1>1, <1>2 DEF Answered
<1> QED
  BY <1>1, <1>2

LEMMA PacketKept ==
  ASSUME TypeInv, UNCHANGED packet \/ (Completed /\ nakTimer' \in {None, nakTimer} /\ UNCHANGED <<taken, bufNode, conn>>)
  PROVE  PacketType'
<1>1. CASE UNCHANGED packet
  BY <1>1 DEF packet, TypeInv, PacketType
<1>2. CASE Completed /\ nakTimer' \in {None, nakTimer} /\ UNCHANGED <<taken, bufNode, conn>>
  <2>1. zwSending' = (owner' # None)
    BY <1>2, Zenon DEF Completed
  <2>2. owner' = 0 /\ taken' \in 0..MaxPackets /\ nakTimer' \in 0..taken' /\ 0 \in 0..taken'
    BY <1>2 DEF Completed, None, TypeInv, PacketType
  <2> QED
    BY <1>2, <2>1, <2>2 DEF TypeInv, PacketType
<1> QED
  BY <1>1, <1>2

LEMMA AssocKept ==
  ASSUME TypeInv, UNCHANGED <<pool, table, creating, addCmd, taken>>,
         used' \subseteq used, marked' \in Nat, routeFor' \in Slots \cup {None},
         learnCb' \in {learnCb, "continue"}
  PROVE  AssocType'
  BY DEF TypeInv, AssocType

LEMMA TypeCompletes ==
  ASSUME IpBridgeAssumption, TypeInv, DoReport \/ DoComplete PROVE TypeInv'
<1>1. /\ ~Idle /\ Completed /\ nakTimer' \in {None, nakTimer} /\ Then(<<>>)
      /\ UNCHANGED <<taken, bufNode, conn, assoc, pending, virtuals, faults, sent>>
  BY DEF DoReport, DoComplete, Doing
<1>2. todo' \in Seq(Calls)
  <2>1. <<>> \in Seq(Calls)
    OBVIOUS
  <2> QED
    BY <1>1, <2>1, ThenIn
<1>3. PacketType'
  BY <1>1, PacketKept
<1>4. AssocType'
  BY <1>1 DEF assoc, TypeInv, AssocType
<1>5. FlowType'
  BY <1>1, <1>2, Flowing, AnswerType DEF Busy, TypeInv, FlowType
<1> QED
  BY <1>3, <1>4, <1>5 DEF TypeInv

LEMMA TypeSendSet ==
  ASSUME IpBridgeAssumption, TypeInv, DoSendSet PROVE TypeInv'
<1>1. ~Idle /\ Now.do = "sendSet" /\ UNCHANGED <<packet, assoc, virtuals, sent>>
  BY DEF DoSendSet, Doing
<1>2. Now.a \in Slots /\ Now.of \in Packets
  BY <1>1, NowIs, CallsAre
<1>3. /\ UNCHANGED faults \/ Fails(1)
      /\ pending' \subseteq pending \cup {Frame("set", Now.a, Now.of)}
      /\ Then(<<>>) \/ Then(Abort(Now.a, Now.of))
  BY DEF DoSendSet
<1>4. todo' \in Seq(Calls)
  <2>1. <<>> \in Seq(Calls) /\ Abort(Now.a, Now.of) \in Seq(Calls)
    BY <1>2, AbortIn
  <2> QED
    BY <1>1, <1>3, <2>1, ThenIn
<1>5. Named(Frame("set", Now.a, Now.of))
  BY <1>2, CallbacksIn DEF Named, Frame
<1>6. FlowType'
  BY <1>1, <1>3, <1>4, <1>5, Flowing, AnswerType DEF Busy, packet, TypeInv, FlowType
<1>7. AssocType'
  BY <1>1 DEF assoc, packet, TypeInv, AssocType
<1> QED
  BY <1>1, <1>6, <1>7, PacketKept DEF TypeInv

LEMMA TypeSendRemove ==
  ASSUME IpBridgeAssumption, TypeInv, DoSendRemove PROVE TypeInv'
<1> DEFINE first == SelectInSeq(table, IsMarked)
           a == table[first]
<1>1. /\ ~Idle /\ Now.do = "sendRemove" /\ UNCHANGED <<packet, assoc, virtuals>>
      /\ IF first = 0
         THEN Answered(Now.of, TRUE) /\ Then(Abort(None, Now.of)) /\ UNCHANGED <<pending, faults>>
         ELSE /\ UNCHANGED faults \/ Fails(1)
              /\ UNCHANGED pending \/ Awaited(Frame("remove", a, Now.of))
              /\ \/ Then(<<>>) \/ Then(<<RemoveAssoc(a, Now.of, "asked")>>)
                 \/ Then(<<RemoveAssoc(a, Now.of, "asked"), Report(Now.of)>>)
              /\ UNCHANGED sent
  BY DEF DoSendRemove, Doing
<1>2. Now.of \in Packets
  BY <1>1, NowIs, CallsAre
<1>3. first # 0 => a \in Slots
  <2>1. table \in Seq(Slots)
    BY DEF TypeInv, AssocType
  <2> HIDE DEF first
  <2>2. first # 0 => first \in 1..Len(table)
    BY <2>1, FirstMarked DEF first
  <2> QED
    BY <2>1, <2>2
<1> HIDE DEF first, a
<1>4. todo' \in Seq(Calls)
  <2>1. CASE first = 0
    BY <1>1, <1>2, <2>1, ThenIn, AbortIn
  <2>2. CASE first # 0
    <3>1. /\ <<>> \in Seq(Calls) /\ <<RemoveAssoc(a, Now.of, "asked")>> \in Seq(Calls)
          /\ <<RemoveAssoc(a, Now.of, "asked"), Report(Now.of)>> \in Seq(Calls)
      BY <1>2, <1>3, <2>2, CallsIn
    <3> QED
      BY <1>1, <2>2, <3>1, ThenIn
  <2> QED
    BY <2>1, <2>2
<1>5. \A w \in pending' : w \in pending \/ Named(w)
  BY <1>1, <1>2, <1>3, NamedCopies
<1>6. sent' \in [answered : BOOLEAN, wrong : SUBSET {"crossed", "twice"}]
  BY <1>1, AnswerType
<1>7. FlowType'
  BY <1>1, <1>4, <1>5, <1>6, Flowing DEF Busy, packet, TypeInv, FlowType
<1>8. AssocType'
  BY <1>1 DEF assoc, packet, TypeInv, AssocType
<1> QED
  BY <1>1, <1>7, <1>8, PacketKept DEF TypeInv

LEMMA TypeDoRemove ==
  ASSUME IpBridgeAssumption, TypeInv, DoRemove PROVE TypeInv'
<1> DEFINE a == Now.a
           w == Learn("remove", pool[a].virt, Now.of)
<1>1. /\ ~Idle /\ Now.do = "remove" /\ table' = RemoveFirst(table, a)
      /\ learnCb' \in {learnCb, "continue"} /\ (UNCHANGED pending \/ Awaited(w))
      /\ Then(<<Free(a)>>) \/ Then(<<Continue(Now.of), Free(a)>>)
      /\ UNCHANGED faults \/ Fails(1)
      /\ UNCHANGED <<packet, pool, used, marked, creating, addCmd, routeFor, virtuals, sent>>
  BY DEF DoRemove, Doing
<1>2. a \in Slots /\ Now.of \in Packets
  BY <1>1, NowIs, CallsAre
<1>3. todo' \in Seq(Calls)
  <2>1. <<Free(a)>> \in Seq(Calls) /\ <<Continue(Now.of), Free(a)>> \in Seq(Calls)
    BY <1>2, CallsIn
  <2> QED
    BY <1>1, <2>1, ThenIn
<1>4. \A c \in pending' : c \in pending \/ Named(c)
  <2>1. pool[a].virt \in VirtualIds \cup {0}
    BY <1>2, Recorded DEF TypeInv, AssocType
  <2> QED
    BY <1>1, <1>2, <2>1, NamedCopies
<1>5. FlowType'
  BY <1>1, <1>3, <1>4, Flowing, AnswerType DEF Busy, packet, TypeInv, FlowType
<1>6. table' \in Seq(Slots) /\ ToSet(table') \subseteq ToSet(table)
  BY <1>1, Removing DEF TypeInv, AssocType
<1>7. AssocType'
  BY <1>1, <1>6 DEF packet, TypeInv, AssocType
<1> QED
  BY <1>1, <1>5, <1>7, PacketKept DEF TypeInv

LEMMA TypeContinue ==
  ASSUME IpBridgeAssumption, TypeInv, DoContinue PROVE TypeInv'
<1>1. /\ ~Idle /\ Now.do = "continue" /\ marked' = (IF marked > 0 THEN marked - 1 ELSE 0)
      /\ \/ Then(<<SendRemove(Now.of)>>) /\ UNCHANGED sent
         \/ Then(<<Report(Now.of)>>) /\ Answered(Now.of, TRUE)
      /\ UNCHANGED <<packet, pool, used, table, creating, addCmd, routeFor,
                     learnCb, pending, virtuals, faults>>
  BY DEF DoContinue, Doing
<1>2. Now.of \in Packets
  BY <1>1, NowIs, CallsAre
<1>3. todo' \in Seq(Calls)
  <2>1. <<SendRemove(Now.of)>> \in Seq(Calls) /\ <<Report(Now.of)>> \in Seq(Calls)
    BY <1>2, CallsIn
  <2> QED
    BY <1>1, <2>1, ThenIn
<1>4. sent' \in [answered : BOOLEAN, wrong : SUBSET {"crossed", "twice"}]
  BY <1>1, AnswerType
<1>5. FlowType'
  BY <1>1, <1>3, <1>4, Flowing DEF Busy, packet, TypeInv, FlowType
<1>6. marked' \in Nat
  BY <1>1 DEF TypeInv, AssocType
<1>7. AssocType'
  BY <1>1, <1>6, AssocKept DEF packet, TypeInv, AssocType
<1> QED
  BY <1>1, <1>5, <1>7, PacketKept DEF TypeInv

LEMMA TypeFree ==
  ASSUME IpBridgeAssumption, TypeInv, DoFree PROVE TypeInv'
<1>1. /\ ~Idle /\ used' = used \ {Now.a} /\ Then(<<>>)
      /\ UNCHANGED <<packet, pool, table, marked, creating, addCmd, routeFor,
                     learnCb, pending, virtuals, faults, sent>>
  BY DEF DoFree, Doing
<1>2. todo' \in Seq(Calls)
  <2>1. <<>> \in Seq(Calls)
    OBVIOUS
  <2> QED
    BY <1>1, <2>1, ThenIn
<1>3. FlowType'
  BY <1>1, <1>2, Flowing, AnswerType DEF Busy, packet, TypeInv, FlowType
<1>4. AssocType'
  BY <1>1, AssocKept DEF packet, TypeInv, AssocType
<1> QED
  BY <1>1, <1>3, <1>4, PacketKept DEF TypeInv

LEMMA TypeTempFrame ==
  ASSUME IpBridgeAssumption, TypeInv, NEW w \in pending, TempFrameDone(w) PROVE TypeInv'
<1>1. /\ pending' = pending \ {w} /\ Completed /\ nakTimer' = None
      /\ UNCHANGED sent \/ Answered(w.of, TRUE)
      /\ UNCHANGED <<taken, bufNode, conn, assoc, virtuals, todo, faults>>
  BY DEF TempFrameDone
<1>2. sent' \in [answered : BOOLEAN, wrong : SUBSET {"crossed", "twice"}]
  BY <1>1, AnswerType
<1>3. FlowType'
  BY <1>1, <1>2, Flowing DEF Busy, TypeInv, FlowType
<1>4. AssocType'
  BY <1>1 DEF assoc, TypeInv, AssocType
<1> QED
  BY <1>1, <1>3, <1>4, PacketKept DEF TypeInv

LEMMA TypeSetFrame ==
  ASSUME IpBridgeAssumption, TypeInv, NEW w \in pending, SetFrameDone(w) PROVE TypeInv'
<1>1. /\ w.kind = "frame" /\ w.cb = "set" /\ pending' \subseteq pending \cup {Route(w.of)}
      /\ routeFor' \in {w.a, None, routeFor}
      /\ UNCHANGED todo \/ todo' = Abort(w.a, w.of)
      /\ UNCHANGED faults \/ Fails(1)
      /\ UNCHANGED <<packet, pool, used, table, marked, creating, addCmd, learnCb, virtuals, sent>>
  BY DEF SetFrameDone, IsFrame
<1>2. w.a \in Slots /\ w.of \in Packets
  BY <1>1, CallbacksAre DEF TypeInv, FlowType
<1>3. todo' \in Seq(Calls)
  BY <1>1, <1>2, AbortIn DEF TypeInv, FlowType
<1>4. Named(Route(w.of))
  BY <1>2, CallbacksIn DEF Named, Route
<1>5. FlowType'
  BY <1>1, <1>3, <1>4, Flowing, AnswerType DEF Busy, packet, TypeInv, FlowType
<1>6. AssocType'
  BY <1>1, <1>2, AssocKept DEF packet, TypeInv, AssocType
<1> QED
  BY <1>1, <1>5, <1>6, PacketKept DEF TypeInv

LEMMA TypeRoute ==
  ASSUME IpBridgeAssumption, TypeInv, NEW w \in pending, RouteDone(w) PROVE TypeInv'
<1>1. /\ pending' = pending \ {w} /\ routeFor' = None
      /\ \/ Answered(w.of, TRUE) /\ todo' = <<Report(w.of)>> /\ UNCHANGED faults
         \/ Fails(1) /\ todo' = Abort(routeFor, w.of) /\ UNCHANGED sent
      /\ UNCHANGED <<packet, pool, used, table, marked, creating, addCmd, learnCb, virtuals>>
  BY DEF RouteDone
<1>2. w.of \in Packets
  BY CallbacksAre DEF TypeInv, FlowType
<1>3. todo' \in Seq(Calls)
  <2>1. <<Report(w.of)>> \in Seq(Calls) /\ Abort(routeFor, w.of) \in Seq(Calls)
    BY <1>2, CallsIn, AbortIn DEF TypeInv, AssocType
  <2> QED
    BY <1>1, <2>1
<1>4. sent' \in [answered : BOOLEAN, wrong : SUBSET {"crossed", "twice"}]
  BY <1>1, AnswerType
<1>5. FlowType'
  BY <1>1, <1>3, <1>4, Flowing DEF Busy, packet, TypeInv, FlowType
<1>6. AssocType'
  BY <1>1, <1>2, AssocKept DEF packet, TypeInv, AssocType
<1> QED
  BY <1>1, <1>5, <1>6, PacketKept DEF TypeInv

LEMMA TypeRemoveFrame ==
  ASSUME IpBridgeAssumption, TypeInv, NEW w \in pending, RemoveFrameDone(w) PROVE TypeInv'
<1>1. /\ w.kind = "frame" /\ w.cb = "remove" /\ pending' = pending \ {w}
      /\ todo' = <<RemoveAssoc(w.a, w.of, "asked")>> \/ todo' = <<Report(w.of)>>
      /\ UNCHANGED faults \/ Fails(1)
      /\ UNCHANGED <<packet, assoc, virtuals, sent>>
  BY DEF RemoveFrameDone, IsFrame
<1>2. w.a \in Slots /\ w.of \in Packets
  BY <1>1, CallbacksAre DEF TypeInv, FlowType
<1>3. todo' \in Seq(Calls)
  <2>1. <<RemoveAssoc(w.a, w.of, "asked")>> \in Seq(Calls) /\ <<Report(w.of)>> \in Seq(Calls)
    BY <1>2, CallsIn
  <2> QED
    BY <1>1, <2>1
<1>4. FlowType'
  BY <1>1, <1>3, Flowing, AnswerType DEF Busy, packet, TypeInv, FlowType
<1>5. AssocType'
  BY <1>1 DEF packet, assoc, TypeInv, AssocType
<1> QED
  BY <1>1, <1>4, <1>5, PacketKept DEF TypeInv

LEMMA TypeNak ==
  ASSUME IpBridgeAssumption, TypeInv, NakFires PROVE TypeInv'
<1>1. /\ nakTimer' = 0 /\ Answered(nakTimer, FALSE)
      /\ UNCHANGED <<taken, bufNode, zwSending, owner, conn, assoc, pending, virtuals, todo, faults>>
  BY DEF NakFires, None
<1>2. sent' \in [answered : BOOLEAN, wrong : SUBSET {"crossed", "twice"}]
  BY <1>1, AnswerType
<1>3. PacketType'
  BY <1>1 DEF TypeInv, PacketType
<1>4. AssocType'
  BY <1>1 DEF assoc, TypeInv, AssocType
<1>5. FlowType'
  BY <1>1, <1>2 DEF TypeInv, FlowType
<1> QED
  BY <1>3, <1>4, <1>5 DEF TypeInv

LEMMA TypeLearn ==
  ASSUME IpBridgeAssumption, TypeInv, NEW w \in pending, LearnDone(w) PROVE TypeInv'
<1>1. PICK done \in BOOLEAN, id \in VirtualIds \cup {0} :
        /\ ChipLearns(w, done, id)
        /\ IF learnCb = "add" THEN VirtualAdded(w, done, id)
           ELSE /\ todo' = <<Continue(w.of)>>
                /\ UNCHANGED <<pool, used, table, creating, addCmd>>
  BY DEF LearnDone
<1>2. /\ pending' = pending \ {w}
      /\ UNCHANGED <<packet, marked, routeFor, learnCb, sent>>
  BY DEF LearnDone
<1>3. w.of \in Packets
  BY CallbacksAre DEF TypeInv, FlowType
<1>4. virtuals' \subseteq VirtualIds /\ (UNCHANGED faults \/ Fails(1))
  BY <1>1 DEF ChipLearns, Outcome, TypeInv, FlowType
<1>5. /\ todo' \in Seq(Calls) /\ pool' \in [Slots -> Associations] /\ used' \subseteq Slots
      /\ table' \in Seq(Slots) /\ \A b \in ToSet(table') : pool'[b].type \in Types
      /\ creating' \in {creating, "none"} /\ addCmd' \in {addCmd, [addCmd EXCEPT !.no = None]}
  <2>1. CASE learnCb # "add"
    <3>1. <<Continue(w.of)>> \in Seq(Calls)
      BY <1>3, CallsIn
    <3> QED
      BY <1>1, <2>1, <3>1 DEF TypeInv, AssocType
  <2>2. CASE learnCb = "add"
    <3> DEFINE p == IF addCmd.no = None THEN w.of ELSE addCmd.no
               hasRoom == done /\ addCmd.no # None /\ FreeSlots # {}
               x(r) == [type |-> addCmd.type, node |-> bufNode, res |-> r,
                        mark |-> FALSE, virt |-> id]
               calls == IF creating = "none" THEN <<>> ELSE Abort(None, p)
    <3>1. /\ addCmd' = [addCmd EXCEPT !.no = None]
          /\ \/ /\ hasRoom
                /\ \E r \in Resources : Put(FirstFree, x(r)) /\ Enlist(FirstFree, x(r))
                /\ creating' = "none"
                /\ todo' = IF creating = "none" THEN <<>> ELSE <<SendSet(FirstFree, p)>>
             \/ /\ hasRoom /\ Put(FirstFree, x("none")) /\ CreateFailed(p)
                /\ UNCHANGED <<used, table>>
             \/ /\ CreateFailed(p) /\ UNCHANGED <<pool, used, table>>
             \/ /\ todo' = <<>> /\ UNCHANGED <<creating, pool, used, table>>
      BY <1>1, <2>2 DEF VirtualAdded
    <3>2. p \in Packets
      <4>1. addCmd.no \in 0..taken /\ taken \in 0..MaxPackets /\ MaxPackets \in Nat
        BY DEF TypeInv, AssocType, PacketType, IpBridgeAssumption
      <4> QED
        BY <1>3, <4>1 DEF Packets, None
    <3>3. hasRoom => FirstFree \in Slots /\ addCmd.type \in Types
      BY FreeIsFirst DEF TypeInv, AssocType, Types
    <3>4. bufNode \in Nodes
      BY BusyHasNode DEF Busy
    <3>5. hasRoom => \A r \in Resources \cup {"none"} : x(r) \in Associations /\ x(r).type \in Types
      BY <3>3, <3>4 DEF Associations
    <3>6. <<>> \in Seq(Calls) /\ Abort(None, p) \in Seq(Calls)
          /\ (hasRoom => <<SendSet(FirstFree, p)>> \in Seq(Calls))
      BY <3>2, <3>3, AbortIn, CallsIn
    <3> HIDE DEF x, hasRoom, p
    <3>7. CASE /\ hasRoom
               /\ \E r \in Resources : Put(FirstFree, x(r)) /\ Enlist(FirstFree, x(r))
               /\ creating' = "none"
               /\ todo' = IF creating = "none" THEN <<>> ELSE <<SendSet(FirstFree, p)>>
      <4>1. PICK r \in Resources : Put(FirstFree, x(r)) /\ Enlist(FirstFree, x(r))
        BY <3>7
      <4>2. /\ pool' \in [Slots -> Associations] /\ used' \subseteq Slots /\ table' \in Seq(Slots)
            /\ \A b \in ToSet(table') : pool'[b].type \in Types
        BY <3>3, <3>5, <3>7, <4>1, Slotted DEF TypeInv
      <4> QED
        BY <3>1, <3>6, <3>7, <4>2
    <3>8. CASE /\ hasRoom /\ Put(FirstFree, x("none")) /\ CreateFailed(p)
               /\ UNCHANGED <<used, table>>
      <4>1. pool' = [pool EXCEPT ![FirstFree] = x("none")]
        BY <3>8 DEF Put
      <4>2. pool' \in [Slots -> Associations]
        BY <3>3, <3>5, <3>8, <4>1 DEF TypeInv, AssocType
      <4>3. \A b \in Slots : pool[b].type \in Types => pool'[b].type \in Types
        BY <3>5, <3>8, <4>1 DEF TypeInv, AssocType
      <4>4. ToSet(table) \subseteq Slots
        BY ListSet DEF TypeInv, AssocType
      <4> QED
        BY <3>1, <3>6, <3>8, <4>2, <4>3, <4>4 DEF CreateFailed, TypeInv, AssocType
    <3>9. CASE CreateFailed(p) /\ UNCHANGED <<pool, used, table>>
      BY <3>1, <3>6, <3>9 DEF CreateFailed, TypeInv, AssocType
    <3>10. CASE todo' = <<>> /\ UNCHANGED <<creating, pool, used, table>>
      BY <3>1, <3>6, <3>10 DEF TypeInv, AssocType
    <3> QED
      BY <3>1, <3>7, <3>8, <3>9, <3>10
  <2> QED
    BY <2>1, <2>2
<1>6. FlowType'
  BY <1>2, <1>4, <1>5, Flowing, AnswerType DEF Busy, packet, TypeInv, FlowType
<1>7. AssocType'
  <2>1. /\ addCmd' \in [no : 0..taken', type : {"none", "PERMANENT", "PROXY"}]
        /\ addCmd'.no # None => addCmd'.type # "none"
    BY <1>2, <1>5 DEF packet, None, TypeInv, PacketType, AssocType
  <2> QED
    BY <1>2, <1>5, <2>1 DEF TypeInv, AssocType
<1> QED
  BY <1>2, <1>6, <1>7, PacketKept DEF TypeInv

LEMMA TypeUpdate ==
  ASSUME IpBridgeAssumption, TypeInv, NEW w \in pending, LearnUpdate(w) PROVE TypeInv'
<1>1. /\ UNCHANGED todo \/ todo' = <<Continue(w.of)>>
      /\ addCmd' \in {addCmd, [addCmd EXCEPT !.no = None]} /\ Fails(1)
      /\ UNCHANGED <<packet, pool, used, table, marked, creating, routeFor, learnCb,
                     pending, virtuals, sent>>
  BY DEF LearnUpdate
<1>2. w.of \in Packets
  BY CallbacksAre DEF TypeInv, FlowType
<1>3. todo' \in Seq(Calls)
  <2>1. <<Continue(w.of)>> \in Seq(Calls) /\ todo \in Seq(Calls)
    BY <1>2, CallsIn DEF TypeInv, FlowType
  <2> QED
    BY <1>1, <2>1
<1>4. FlowType'
  BY <1>1, <1>3, Flowing, AnswerType DEF Busy, packet, TypeInv, FlowType
<1>5. AssocType'
  BY <1>1 DEF packet, None, TypeInv, PacketType, AssocType
<1> QED
  BY <1>1, <1>4, <1>5, PacketKept DEF TypeInv

LEMMA TypeSilent ==
  ASSUME IpBridgeAssumption, TypeInv, NEW w \in pending, ChipSilent(w) PROVE TypeInv'
<1>1. pending' = pending \ {w} /\ Fails(1) /\ UNCHANGED <<packet, assoc, virtuals, todo, sent>>
  BY DEF ChipSilent
<1>2. FlowType'
  BY <1>1, Flowing, AnswerType DEF Busy, packet, TypeInv, FlowType
<1>3. AssocType'
  BY <1>1 DEF assoc, packet, TypeInv, AssocType
<1> QED
  BY <1>1, <1>2, <1>3, PacketKept DEF TypeInv

LEMMA TypeUnchanged ==
  ASSUME TypeInv, UNCHANGED vars PROVE TypeInv'
  BY DEF vars, packet, assoc, TypeInv, PacketType, AssocType, FlowType

LEMMA TypeStep ==
  ASSUME IpBridgeAssumption, TypeInv, [Next]_vars PROVE TypeInv'
<1>1. CASE TakePacket
  BY <1>1, TypeUndeliverable, TypeAtOnce, TypeSend, TypeSet, TypeRemove DEF TakePacket
<1>2. CASE Calling
  BY <1>2, TypeCompletes, TypeSendSet, TypeSendRemove, TypeDoRemove, TypeContinue, TypeFree DEF Calling
<1>3. CASE Callback
  BY <1>3, TypeTempFrame, TypeSetFrame, TypeRoute, TypeRemoveFrame, TypeLearn, TypeUpdate DEF Callback
<1> QED
  BY <1>1, <1>2, <1>3, TypeNak, TypeSilent, TypeUnchanged DEF Next

(* Types, and that each call and each callback names a slot of the pool.   *)
THEOREM TypeInvariance == Spec => []TypeInv
<1>1. Init => TypeInv
  BY IpBridgeAssumption, TypeInit
<1>2. TypeInv /\ [Next]_vars => TypeInv'
  BY IpBridgeAssumption, TypeStep
<1> QED
  BY <1>1, <1>2, PTL DEF Spec

(* Every variable keeps its type.                                          *)
THEOREM TypeCorrect == Spec => []TypeOK
  BY TypeInvariance, TypesAre, PTL

-----------------------------------------------------------------------------
(* The calls that a packet starts, and those that follow a call.            *)
LEMMA HandleOne ==
  ASSUME NEW sup \in BOOLEAN, taken + 1 \in Packets, NEW x \in Calls, Handle(<<x>>, sup)
  PROVE  /\ todo' # <<>> /\ Head(todo') = x
         /\ RestOf(todo') = IF sup THEN {Complete(taken + 1)} ELSE {}
<1> DEFINE c == Complete(taken + 1)
<1>1. c \in Calls
  BY CallsIn
<1>2. todo' = <<x>> \o (IF sup THEN <<c>> ELSE <<>>)
  BY DEF Handle
<1> HIDE DEF c
<1>3. CASE sup
  <2>1. todo' = <<x>> \o <<c>>
    BY <1>2, <1>3
  <2>2. Len(todo') = 2 /\ todo'[1] = x /\ todo'[2] = c
    BY <2>1
  <2>3. RestOf(todo') = {c}
    BY <2>2 DEF RestOf
  <2>4. todo' # <<>> /\ Head(todo') = x
    BY <2>1
  <2> QED
    BY <1>3, <2>3, <2>4 DEF c
<1>4. CASE ~sup
  <2>1. todo' = <<x>>
    BY <1>2, <1>4
  <2> QED
    BY <1>4, <2>1, OneCall
<1> QED
  BY <1>3, <1>4

LEMMA HandleNone ==
  ASSUME NEW sup \in BOOLEAN, taken + 1 \in Packets, Handle(<<>>, sup)
  PROVE  /\ ~sup => todo' = <<>>
         /\ sup => todo' # <<>> /\ Head(todo') = Complete(taken + 1) /\ RestOf(todo') = {}
<1> DEFINE c == Complete(taken + 1)
<1>1. c \in Calls
  BY CallsIn
<1>2. todo' = <<>> \o (IF sup THEN <<c>> ELSE <<>>)
  BY DEF Handle
<1> HIDE DEF c
<1>3. CASE sup
  <2>1. todo' = <<c>>
    BY <1>2, <1>3
  <2> QED
    BY <1>1, <1>3, <2>1, OneCall DEF c
<1>4. CASE ~sup
  BY <1>2, <1>4
<1> QED
  BY <1>3, <1>4

LEMMA HandleTwo ==
  ASSUME NEW sup \in BOOLEAN, taken + 1 \in Packets,
         Handle(Append(Abort(None, taken + 1), Report(taken + 1)), sup)
  PROVE  /\ todo' # <<>> /\ Head(todo') = Report(taken + 1)
         /\ RestOf(todo') \subseteq {Report(taken + 1), Complete(taken + 1)}
<1> DEFINE c == Complete(taken + 1)
           x == Report(taken + 1)
<1>1. c \in Calls /\ x \in Calls
  BY CallsIn
<1>2. todo' = <<x, x>> \o (IF sup THEN <<c>> ELSE <<>>)
  BY DEF Handle, Abort
<1> HIDE DEF c, x
<1>3. /\ Len(todo') \in 2..3 /\ todo'[1] = x /\ todo'[2] = x
      /\ Len(todo') = 3 => todo'[3] = c
  BY <1>2
<1>4. RestOf(todo') \subseteq {x, c}
  BY <1>3 DEF RestOf
<1>5. todo' # <<>> /\ Head(todo') = x
  BY <1>2
<1> QED
  BY <1>4, <1>5 DEF c, x

LEMMA ThenPops ==
  ASSUME TypeInv, ~Idle, Then(<<>>)
  PROVE  /\ RestOf(todo') \subseteq RestOf(todo)
         /\ todo' # <<>> => Head(todo') \in RestOf(todo)
  BY NowIs, Popped DEF Then

LEMMA ThenOne ==
  ASSUME TypeInv, ~Idle, NEW x \in Calls, Then(<<x>>)
  PROVE  todo' # <<>> /\ Head(todo') = x /\ RestOf(todo') = RestOf(todo)
<1>1. todo' = WithOne(x, todo)
  BY DEF Then, WithOne
<1> QED
  BY <1>1, NowIs, Replaced

LEMMA ThenTwo ==
  ASSUME TypeInv, ~Idle, NEW x \in Calls, NEW y \in Calls, Then(<<x, y>>)
  PROVE  todo' # <<>> /\ Head(todo') = x /\ RestOf(todo') = {y} \cup RestOf(todo)
<1>1. todo' = WithTwo(x, y, todo)
  BY DEF Then, WithTwo
<1>2. todo \in Seq(Calls) /\ todo # <<>>
  BY NowIs
<1> QED
  BY <1>1, <1>2, ReplacedByTwo

LEMMA ThenAbort ==
  ASSUME TypeInv, ~Idle, NEW p \in Packets, NEW a \in Slots \cup {None}, Then(Abort(a, p))
  PROVE  /\ todo' # <<>>
         /\ a = None => Head(todo') = Report(p) /\ RestOf(todo') = RestOf(todo)
         /\ a # None => /\ Head(todo') = RemoveAssoc(a, p, "undo")
                       /\ RestOf(todo') = {Report(p)} \cup RestOf(todo)
<1>1. Report(p) \in Calls /\ (a # None => RemoveAssoc(a, p, "undo") \in Calls)
  BY CallsIn
<1>2. CASE a = None
  <2>1. Then(<<Report(p)>>)
    BY <1>2 DEF Abort
  <2> QED
    BY <1>1, <1>2, <2>1, ThenOne
<1>3. CASE a # None
  <2>1. Then(<<RemoveAssoc(a, p, "undo"), Report(p)>>)
    BY <1>3 DEF Abort
  <2> QED
    BY <1>1, <1>3, <2>1, ThenTwo
<1> QED
  BY <1>2, <1>3

LEMMA Aborting ==
  ASSUME NEW p \in Packets, NEW a \in Slots \cup {None}, todo' = Abort(a, p)
  PROVE  /\ todo' # <<>>
         /\ a = None => Head(todo') = Report(p) /\ RestOf(todo') = {}
         /\ a # None => Head(todo') = RemoveAssoc(a, p, "undo") /\ RestOf(todo') = {Report(p)}
<1>1. Report(p) \in Calls /\ (a # None => RemoveAssoc(a, p, "undo") \in Calls)
  BY CallsIn
<1>2. CASE a = None
  <2>1. todo' = <<Report(p)>>
    BY <1>2 DEF Abort
  <2> QED
    BY <1>1, <1>2, <2>1, OneCall
<1>3. CASE a # None
  <2>1. todo' = <<RemoveAssoc(a, p, "undo"), Report(p)>>
    BY <1>3 DEF Abort
  <2> QED
    BY <1>1, <1>3, <2>1, TwoCalls
<1> QED
  BY <1>2, <1>3

-----------------------------------------------------------------------------
(* The table: what is still to be freed has been unlinked, and nothing is   *)
(* added to the table before it is free.                                    *)
Keeps(x) == x.do = "free" => x.a \notin ToSet(table)
TableInv ==
  /\ ToSet(table) \subseteq used /\ Distinct(table)
  /\ ~Idle => Keeps(Now) /\ \A x \in RestOf(todo) : Keeps(x)

LEMMA TableMeans == ASSUME TypeInv, TableInv PROVE TableOwnsSlots
  BY WholeList DEF TableOwnsSlots, TableInv, TypeInv, AssocType

LEMMA TableInit == ASSUME Init PROVE TableInv
  BY DEF Init, TableInv, Distinct, ToSet, Idle

(* Packets and callbacks start nothing that frees.                          *)
LEMMA TableStart ==
  ASSUME ToSet(table') \subseteq used', Distinct(table)',
         todo' # <<>> => /\ Head(todo').do # "free"
                         /\ \A x \in RestOf(todo') : x.do # "free"
  PROVE  TableInv'
  BY DEF TableInv, Keeps, Idle, Now

(* A call is followed by what was behind it and by calls that do not free.  *)
LEMMA TableThen ==
  ASSUME TableInv, ~Idle, ToSet(table') \subseteq ToSet(table), ToSet(table') \subseteq used',
         Distinct(table'),
         todo' # <<>> => \A x \in {Head(todo')} \cup RestOf(todo') :
           x \in RestOf(todo) \/ (x.do = "free" => x.a \notin ToSet(table'))
  PROVE  TableInv'
<1>1. \A x \in RestOf(todo) : x.do = "free" => x.a \notin ToSet(table')
  BY DEF TableInv, Keeps
<1> QED
  BY <1>1 DEF TableInv, Keeps, Idle, Now, Distinct

LEMMA TableEnlist ==
  ASSUME IpBridgeAssumption, TypeInv, TableInv, FreeSlots # {}, NEW x, Enlist(FirstFree, x)
  PROVE  ToSet(table') \subseteq used' /\ Distinct(table')
<1>1. FirstFree \in Slots /\ FirstFree \notin used
  BY FreeIsFirst
<1>2. CASE used' = used \ {FirstFree} /\ table' = table
  BY <1>1, <1>2 DEF TableInv
<1>3. CASE used' = used \cup {FirstFree} /\ table' = Append(table, FirstFree)
  <2>1. table \in Seq(Slots) /\ Distinct(table) /\ FirstFree \notin ToSet(table)
    BY <1>1 DEF TypeInv, AssocType, TableInv
  <2>2. ToSet(table') = ToSet(table) \cup {FirstFree} /\ Distinct(table')
    BY <1>1, <1>3, <2>1, Added
  <2> QED
    BY <1>3, <2>2 DEF TableInv
<1> QED
  BY <1>2, <1>3 DEF Enlist

LEMMA TableTakes ==
  ASSUME IpBridgeAssumption, TypeInv, TableInv,
         TakeUndeliverable \/ TakeDropped \/ TakeVersion \/ TakeGet \/ TakeSend
  PROVE  TableInv'
<1>1. todo = <<>> /\ UNCHANGED <<todo, used, table>>
  BY DEF TakeUndeliverable, TakeDropped, TakeVersion, TakeGet, TakeSend, Take, Idle, AtOnce, assoc
<1> QED
  BY <1>1 DEF TableInv, Idle, Distinct

LEMMA TableSet ==
  ASSUME IpBridgeAssumption, TypeInv, TableInv, TakeSet PROVE TableInv'
<1>1. PICK n \in Nodes, ack \in BOOLEAN, sup \in BOOLEAN :
        /\ Take(n)
        /\ \/ CreateLocal(n, sup)
           \/ \E type \in {"PERMANENT", "PROXY"} : CreateVirtual(type, sup)
           \/ RefuseSet(sup)
  BY DEF TakeSet
<1> DEFINE t == taken + 1
<1>2. t \in Packets
  BY <1>1, Taking
<1>3. Report(t).do = "report" /\ Complete(t).do = "complete" /\ \A a : SendSet(a, t).do = "sendSet"
  BY DEF Report, Complete, SendSet
<1>4. CASE CreateLocal(n, sup)
  <2>1. PICK x : FreeSlots # {} /\ Enlist(FirstFree, x)
    BY <1>4 DEF CreateLocal
  <2>2. Handle(<<SendSet(FirstFree, t)>>, sup) /\ SendSet(FirstFree, t) \in Calls
    BY <1>2, <1>4, <2>1, FreeIsFirst, CallsIn DEF CreateLocal
  <2> QED
    BY <1>2, <1>3, <2>1, <2>2, TableEnlist, HandleOne, TableStart
<1>5. ASSUME NEW type \in {"PERMANENT", "PROXY"}, CreateVirtual(type, sup) PROVE TableInv'
  <2>1. UNCHANGED <<used, table>>
    BY <1>5 DEF CreateVirtual
  <2>2. Handle(<<>>, sup) \/ Handle(Append(Abort(None, t), Report(t)), sup)
    BY <1>5 DEF CreateVirtual
  <2> QED
    BY <1>2, <1>3, <2>1, <2>2, HandleNone, HandleTwo, TableStart DEF TableInv, Distinct
<1>6. CASE RefuseSet(sup)
  <2>1. UNCHANGED <<used, table>> /\ Handle(<<Report(t)>>, sup) /\ Report(t) \in Calls
    BY <1>2, <1>6, CallsIn DEF RefuseSet, assoc
  <2> QED
    BY <1>2, <1>3, <2>1, HandleOne, TableStart DEF TableInv, Distinct
<1> QED
  BY <1>1, <1>4, <1>5, <1>6

LEMMA TableRemove ==
  ASSUME IpBridgeAssumption, TypeInv, TableInv, TakeRemove PROVE TableInv'
<1>1. PICK n \in Nodes, sup \in BOOLEAN :
        /\ Take(n) /\ UNCHANGED <<used, table>>
        /\ UNCHANGED todo \/ Handle(<<SendRemove(taken + 1)>>, sup)
  BY DEF TakeRemove, AtOnce
<1>2. taken + 1 \in Packets /\ todo = <<>>
  BY <1>1, Taking
<1>3. SendRemove(taken + 1) \in Calls /\ SendRemove(taken + 1).do = "sendRemove"
  BY <1>2, CallsIn DEF SendRemove
<1>4. Complete(taken + 1).do = "complete"
  BY DEF Complete
<1> QED
  BY <1>1, <1>2, <1>3, <1>4, HandleOne, TableStart DEF TableInv, Distinct

LEMMA TableCompletes ==
  ASSUME TypeInv, TableInv, DoReport \/ DoComplete PROVE TableInv'
<1>1. ~Idle /\ Then(<<>>) /\ UNCHANGED <<used, table>>
  BY DEF DoReport, DoComplete, Doing, assoc
<1>2. todo' # <<>> => {Head(todo')} \cup RestOf(todo') \subseteq RestOf(todo)
  BY <1>1, ThenPops
<1>3. ToSet(table) \subseteq used /\ Distinct(table')
  BY <1>1 DEF TableInv
<1> QED
  BY <1>1, <1>2, <1>3, TableThen

LEMMA TableSendSet ==
  ASSUME TypeInv, TableInv, DoSendSet PROVE TableInv'
<1>1. ~Idle /\ Now.do = "sendSet" /\ UNCHANGED <<used, table>>
  BY DEF DoSendSet, Doing, assoc
<1>2. Now.a \in Slots /\ Now.of \in Packets /\ Now.a # None
  BY <1>1, NowIs, CallsAre DEF Slots, None
<1>3. ToSet(table) \subseteq used /\ Distinct(table')
  BY <1>1 DEF TableInv
<1>4. CASE Then(<<>>)
  <2>1. todo' # <<>> => {Head(todo')} \cup RestOf(todo') \subseteq RestOf(todo)
    BY <1>1, <1>4, ThenPops
  <2> QED
    BY <1>1, <1>3, <2>1, TableThen
<1>5. CASE Then(Abort(Now.a, Now.of))
  <2>1. /\ Head(todo') = RemoveAssoc(Now.a, Now.of, "undo")
        /\ RestOf(todo') = {Report(Now.of)} \cup RestOf(todo)
    BY <1>1, <1>2, <1>5, ThenAbort
  <2>2. RemoveAssoc(Now.a, Now.of, "undo").do = "remove" /\ Report(Now.of).do = "report"
    BY DEF RemoveAssoc, Report
  <2> QED
    BY <1>1, <1>3, <2>1, <2>2, TableThen
<1> QED
  BY <1>4, <1>5 DEF DoSendSet

LEMMA TableSendRemove ==
  ASSUME TypeInv, TableInv, DoSendRemove PROVE TableInv'
<1> DEFINE first == SelectInSeq(table, IsMarked)
           a == table[first]
           r == RemoveAssoc(a, Now.of, "asked")
<1>1. /\ ~Idle /\ Now.do = "sendRemove" /\ UNCHANGED <<used, table>>
      /\ IF first = 0 THEN Then(Abort(None, Now.of))
         ELSE Then(<<>>) \/ Then(<<r>>) \/ Then(<<r, Report(Now.of)>>)
  BY DEF DoSendRemove, Doing, assoc
<1>2. Now.of \in Packets
  BY <1>1, NowIs, CallsAre
<1>3. ToSet(table) \subseteq used /\ Distinct(table')
  BY <1>1 DEF TableInv
<1>4. first # 0 => a \in Slots
  <2>1. table \in Seq(Slots)
    BY DEF TypeInv, AssocType
  <2> HIDE DEF first
  <2>2. first # 0 => first \in 1..Len(table)
    BY <2>1, FirstMarked DEF first
  <2> QED
    BY <2>1, <2>2
<1>5. r.do = "remove" /\ Report(Now.of).do = "report"
  BY DEF RemoveAssoc, Report
<1>6. first # 0 => r \in Calls /\ Report(Now.of) \in Calls
  BY <1>2, <1>4, CallsIn
<1> HIDE DEF first, a, r
<1>7. CASE first = 0
  BY <1>1, <1>2, <1>3, <1>5, <1>7, ThenAbort, TableThen
<1>8. CASE Then(<<>>)
  <2>1. todo' # <<>> => {Head(todo')} \cup RestOf(todo') \subseteq RestOf(todo)
    BY <1>1, <1>8, ThenPops
  <2> QED
    BY <1>1, <1>3, <2>1, TableThen
<1>9. CASE first # 0 /\ Then(<<r>>)
  BY <1>1, <1>3, <1>5, <1>6, <1>9, ThenOne, TableThen
<1>10. CASE first # 0 /\ Then(<<r, Report(Now.of)>>)
  BY <1>1, <1>3, <1>5, <1>6, <1>10, ThenTwo, TableThen
<1> QED
  BY <1>1, <1>7, <1>8, <1>9, <1>10

LEMMA TableDoRemove ==
  ASSUME TypeInv, TableInv, DoRemove PROVE TableInv'
<1> DEFINE a == Now.a
<1>1. /\ ~Idle /\ Now.do = "remove" /\ table' = RemoveFirst(table, a) /\ used' = used
      /\ Then(<<Free(a)>>) \/ Then(<<Continue(Now.of), Free(a)>>)
  BY DEF DoRemove, Doing
<1>2. a \in Slots /\ Now.of \in Packets
  BY <1>1, NowIs, CallsAre
<1>3. ToSet(table') = ToSet(table) \ {a} /\ Distinct(table')
  <2>1. table \in Seq(Slots) /\ Distinct(table)
    BY DEF TypeInv, AssocType, TableInv
  <2> QED
    BY <1>1, <2>1, Unlinked
<1>4. ToSet(table') \subseteq ToSet(table) /\ ToSet(table') \subseteq used' /\ a \notin ToSet(table')
  BY <1>1, <1>3 DEF TableInv
<1>5. Free(a) \in Calls /\ Free(a).a = a /\ Continue(Now.of) \in Calls /\ Continue(Now.of).do = "continue"
  BY <1>2, CallsIn DEF Free, Continue
<1> HIDE DEF a
<1>6. CASE Then(<<Free(a)>>)
  BY <1>1, <1>3, <1>4, <1>5, <1>6, ThenOne, TableThen
<1>7. CASE Then(<<Continue(Now.of), Free(a)>>)
  BY <1>1, <1>3, <1>4, <1>5, <1>7, ThenTwo, TableThen
<1> QED
  BY <1>1, <1>6, <1>7

LEMMA TableContinue ==
  ASSUME TypeInv, TableInv, DoContinue PROVE TableInv'
<1>1. /\ ~Idle /\ Now.do = "continue" /\ UNCHANGED <<used, table>>
      /\ Then(<<SendRemove(Now.of)>>) \/ Then(<<Report(Now.of)>>)
  BY DEF DoContinue, Doing
<1>2. Now.of \in Packets
  BY <1>1, NowIs, CallsAre
<1>3. ToSet(table) \subseteq used /\ Distinct(table')
  BY <1>1 DEF TableInv
<1>4. /\ SendRemove(Now.of) \in Calls /\ SendRemove(Now.of).do = "sendRemove"
      /\ Report(Now.of) \in Calls /\ Report(Now.of).do = "report"
  BY <1>2, CallsIn DEF SendRemove, Report
<1> QED
  BY <1>1, <1>3, <1>4, ThenOne, TableThen

LEMMA TableFree ==
  ASSUME TypeInv, TableInv, DoFree PROVE TableInv'
<1>1. ~Idle /\ Now.do = "free" /\ used' = used \ {Now.a} /\ Then(<<>>) /\ UNCHANGED table
  BY DEF DoFree, Doing
<1>2. ToSet(table') \subseteq used' /\ Distinct(table')
  BY <1>1 DEF TableInv, Keeps
<1>3. todo' # <<>> => {Head(todo')} \cup RestOf(todo') \subseteq RestOf(todo)
  BY <1>1, ThenPops
<1> QED
  BY <1>1, <1>2, <1>3, TableThen

(* A frame or a return route is done.                                       *)
LEMMA TableCallbacks ==
  ASSUME TypeInv, TableInv, NEW w \in pending,
         TempFrameDone(w) \/ SetFrameDone(w) \/ RouteDone(w) \/ RemoveFrameDone(w)
  PROVE  TableInv'
<1>1. Idle /\ todo = <<>> /\ UNCHANGED <<used, table>>
  BY DEF TempFrameDone, SetFrameDone, RouteDone, RemoveFrameDone, Fires, Idle, assoc
<1>2. w.of \in Packets
  BY CallbacksAre DEF TypeInv, FlowType
<1>3. Report(w.of) \in Calls /\ Report(w.of).do = "report" /\ \A a, y : RemoveAssoc(a, w.of, y).do = "remove"
  BY <1>2, CallsIn DEF Report, RemoveAssoc
<1>4. ToSet(table') \subseteq used' /\ Distinct(table')
  BY <1>1 DEF TableInv
<1>5. CASE UNCHANGED todo
  BY <1>1, <1>4, <1>5, TableStart
<1>6. ASSUME NEW a \in Slots \cup {None}, todo' = Abort(a, w.of) PROVE TableInv'
  BY <1>2, <1>3, <1>4, <1>6, Aborting, TableStart
<1>7. CASE todo' = <<Report(w.of)>>
  BY <1>3, <1>4, <1>7, OneCall, TableStart
<1>8. CASE TempFrameDone(w)
  BY <1>5, <1>8 DEF TempFrameDone
<1>9. CASE SetFrameDone(w)
  <2>1. w.a \in Slots
    BY <1>9 DEF SetFrameDone, IsFrame, TypeInv, FlowType
  <2> QED
    BY <1>5, <1>6, <1>9, <2>1 DEF SetFrameDone
<1>10. CASE RouteDone(w)
  <2>1. routeFor \in Slots \cup {None}
    BY DEF TypeInv, AssocType
  <2> QED
    BY <1>6, <1>7, <1>10, <2>1 DEF RouteDone
<1>11. CASE RemoveFrameDone(w)
  <2> DEFINE r == RemoveAssoc(w.a, w.of, "asked")
  <2>1. r \in Calls /\ r.do = "remove"
    BY <1>2, <1>3, <1>11, CallsIn DEF RemoveFrameDone, IsFrame, TypeInv, FlowType
  <2>2. todo' = <<r>> \/ todo' = <<Report(w.of)>>
    BY <1>11 DEF RemoveFrameDone
  <2> HIDE DEF r
  <2>3. CASE todo' = <<r>>
    BY <1>4, <2>1, <2>3, OneCall, TableStart
  <2> QED
    BY <1>7, <2>2, <2>3
<1> QED
  BY <1>8, <1>9, <1>10, <1>11

(* What the answer of the chip starts, and what it does with the table.     *)
LEMMA LearnCases ==
  ASSUME IpBridgeAssumption, TypeInv, NEW w \in pending, LearnDone(w)
  PROVE  \E p \in {w.of, addCmd.no} : p \in Packets /\
         \/ learnCb # "add" /\ p = w.of /\ todo' = <<Continue(p)>> /\ UNCHANGED <<pool, used, table>>
         \/ /\ learnCb = "add" /\ FreeSlots # {}
            /\ \E x : /\ Put(FirstFree, x) /\ Enlist(FirstFree, x) /\ ~x.mark
            /\ todo' = <<>> \/ todo' = <<SendSet(FirstFree, p)>>
         \/ /\ learnCb = "add" /\ UNCHANGED <<used, table>>
            /\ todo' = <<>> \/ todo' = <<Report(p)>>
            /\ UNCHANGED pool \/ \E x : FreeSlots # {} /\ Put(FirstFree, x)
<1>1. PICK done \in BOOLEAN, id \in VirtualIds \cup {0} :
        IF learnCb = "add" THEN VirtualAdded(w, done, id)
        ELSE /\ todo' = <<Continue(w.of)>>
             /\ UNCHANGED <<pool, used, table, creating, addCmd>>
  BY DEF LearnDone
<1> DEFINE p == IF addCmd.no = None THEN w.of ELSE addCmd.no
<1>2. w.of \in Packets /\ p \in Packets /\ p \in {w.of, addCmd.no}
  <2>1. w.of \in Packets
    BY CallbacksAre DEF TypeInv, FlowType
  <2>2. addCmd.no \in 0..taken /\ taken \in 0..MaxPackets /\ MaxPackets \in Nat
    BY DEF TypeInv, AssocType, PacketType, IpBridgeAssumption
  <2> QED
    BY <2>1, <2>2 DEF Packets, None
<1>3. CASE learnCb # "add"
  BY <1>1, <1>2, <1>3
<1>4. CASE learnCb = "add"
  <2> DEFINE x(r) == [type |-> addCmd.type, node |-> bufNode, res |-> r, mark |-> FALSE, virt |-> id]
  <2>1. \/ /\ FreeSlots # {}
           /\ \E r \in Resources : Put(FirstFree, x(r)) /\ Enlist(FirstFree, x(r))
           /\ todo' = IF creating = "none" THEN <<>> ELSE <<SendSet(FirstFree, p)>>
        \/ /\ FreeSlots # {} /\ Put(FirstFree, x("none")) /\ CreateFailed(p)
           /\ UNCHANGED <<used, table>>
        \/ CreateFailed(p) /\ UNCHANGED <<pool, used, table>>
        \/ todo' = <<>> /\ UNCHANGED <<creating, pool, used, table>>
    BY <1>1, <1>4 DEF VirtualAdded
  <2>2. \A r : x(r).mark = FALSE
    OBVIOUS
  <2> HIDE DEF x, p
  <2>3. CreateFailed(p) => todo' = <<>> \/ todo' = <<Report(p)>>
    BY DEF CreateFailed, Abort
  <2> QED
    BY <1>2, <1>4, <2>1, <2>2, <2>3
<1> QED
  BY <1>3, <1>4

LEMMA TableLearn ==
  ASSUME IpBridgeAssumption, TypeInv, TableInv, NEW w \in pending, LearnDone(w)
  PROVE  TableInv'
<1>1. PICK p \in Packets :
         \/ todo' = <<Continue(p)>> /\ UNCHANGED <<used, table>>
         \/ /\ FreeSlots # {} /\ \E x : Enlist(FirstFree, x)
            /\ todo' = <<>> \/ todo' = <<SendSet(FirstFree, p)>>
         \/ /\ UNCHANGED <<used, table>>
            /\ todo' = <<>> \/ todo' = <<Report(p)>>
  <2>1. PICK p \in {w.of, addCmd.no} : p \in Packets /\
         \/ learnCb # "add" /\ p = w.of /\ todo' = <<Continue(p)>> /\ UNCHANGED <<pool, used, table>>
         \/ /\ learnCb = "add" /\ FreeSlots # {}
            /\ \E x : /\ Put(FirstFree, x) /\ Enlist(FirstFree, x) /\ ~x.mark
            /\ todo' = <<>> \/ todo' = <<SendSet(FirstFree, p)>>
         \/ /\ learnCb = "add" /\ UNCHANGED <<used, table>>
            /\ todo' = <<>> \/ todo' = <<Report(p)>>
            /\ UNCHANGED pool \/ \E x : FreeSlots # {} /\ Put(FirstFree, x)
    BY LearnCases
  <2> QED
    BY <2>1
<1>2. /\ Continue(p) \in Calls /\ Continue(p).do = "continue"
      /\ Report(p) \in Calls /\ Report(p).do = "report"
      /\ FreeSlots # {} => SendSet(FirstFree, p) \in Calls /\ SendSet(FirstFree, p).do = "sendSet"
  BY CallsIn, FreeIsFirst DEF Continue, Report, SendSet
<1>3. ToSet(table') \subseteq used' /\ Distinct(table')
  BY <1>1, TableEnlist DEF TableInv
<1>4. CASE todo' = <<>>
  BY <1>3, <1>4, TableStart
<1>5. ASSUME NEW x \in Calls, x.do # "free", todo' = <<x>> PROVE TableInv'
  BY <1>3, <1>5, OneCall, TableStart
<1> QED
  BY <1>1, <1>2, <1>4, <1>5

LEMMA TableUpdate ==
  ASSUME TypeInv, TableInv, NEW w \in pending, LearnUpdate(w) PROVE TableInv'
<1>1. /\ todo = <<>> /\ UNCHANGED <<used, table>>
      /\ UNCHANGED todo \/ todo' = <<Continue(w.of)>>
  BY DEF LearnUpdate, Fires, Idle
<1>2. Continue(w.of) \in Calls /\ Continue(w.of).do = "continue"
  BY CallbacksAre, CallsIn DEF Continue, TypeInv, FlowType
<1>3. ToSet(table') \subseteq used' /\ Distinct(table')
  BY <1>1 DEF TableInv
<1>4. CASE todo' = <<>>
  BY <1>3, <1>4, TableStart
<1>5. CASE todo' = <<Continue(w.of)>>
  BY <1>2, <1>3, <1>5, OneCall, TableStart
<1> QED
  BY <1>1, <1>4, <1>5

LEMMA TableStep ==
  ASSUME IpBridgeAssumption, TypeInv, TableInv, [Next]_vars PROVE TableInv'
<1>1. CASE TakePacket
  BY <1>1, TableTakes, TableSet, TableRemove DEF TakePacket
<1>2. CASE Calling
  BY <1>2, TableCompletes, TableSendSet, TableSendRemove, TableDoRemove, TableContinue, TableFree DEF Calling
<1>3. CASE Callback
  BY <1>3, TableCallbacks, TableLearn, TableUpdate DEF Callback
<1>4. CASE NakFires \/ (\E w \in pending : ChipSilent(w)) \/ UNCHANGED vars
  <2>1. UNCHANGED <<todo, used, table>>
    BY <1>4 DEF NakFires, ChipSilent, vars, assoc
  <2> QED
    BY <2>1 DEF TableInv, Distinct, Keeps, Idle, Now
<1> QED
  BY <1>1, <1>2, <1>3, <1>4 DEF Next

(* What is still to be freed has been unlinked.                             *)
THEOREM TableInvariance == Spec => []TableInv
<1>1. Init => TableInv
  BY TableInit
<1>2. TypeInv /\ TableInv /\ [Next]_vars => TableInv'
  BY IpBridgeAssumption, TableStep
<1> QED
  BY <1>1, <1>2, TypeInvariance, PTL DEF Spec

(* An association in the table holds its slot of the pool, and no slot is  *)
(* in the table twice, whatever packets have left behind.                  *)
THEOREM TableOwnsSlotsHolds == Spec => []TableOwnsSlots
<1>1. TypeInv /\ TableInv => TableOwnsSlots
  BY TableMeans
<1> QED
  BY <1>1, TypeInvariance, TableInvariance, PTL

-----------------------------------------------------------------------------
(* One packet at a time: while none has left work behind, whatever is still *)
(* to be made or to come back is due to the last packet taken.              *)
Driving == {"sendSet", "sendRemove", "remove", "continue"}
Ending == {"report", "complete", "free"}
Papers ==
  /\ owner # None => owner = taken /\ conn.no = taken
  /\ nakTimer \in {None, owner}
  /\ sent.wrong = {}
Working == owner = taken /\ ~sent.answered
Alone == \A x \in RestOf(todo) : x.do = "free"

(* A callback is to come.                                                   *)
Awaits ==
  \E w \in pending :
    /\ pending = {w} /\ w.of = taken /\ Working
    /\ ~Idle => Now.do = "free" /\ Alone
    /\ w.kind = "learn" /\ learnCb = "add" => addCmd.no \in {None, taken}

(* A call that goes on is next; that it has reported already, or will when  *)
(* this call returns, makes no difference only if nothing will be left.     *)
MayTrail ==
  \/ Now.do = "remove" /\ Now.why = "undo"
  \/ Now.do = "remove" /\ marked <= 1 /\ pool[Now.a].type # "PERMANENT"
  \/ Now.do = "continue" /\ marked <= 1
Drives ==
  /\ pending = {} /\ ~Idle /\ Now.do \in Driving /\ Now.of = taken /\ Working
  /\ \A x \in RestOf(todo) : x.do \in {"report", "free"}
  /\ Alone \/ MayTrail

(* Nothing is left but to complete the packet.                              *)
Ends ==
  /\ pending = {}
  /\ ~Idle => /\ Now.do \in Ending /\ \A x \in RestOf(todo) : x.do \in Ending
             /\ \/ nakTimer = None \/ Now.do = "report"
                \/ Now.do # "complete" /\ \A x \in RestOf(todo) : x.do # "complete"
OneActivity == Papers /\ (Awaits \/ Drives \/ Ends)
ActivityInv == Clean => OneActivity

LEMMA ToAwait ==
  ASSUME NEW w, pending' = {w}, w.of = taken', Working', Papers',
         todo' # <<>> => Head(todo').do = "free" /\ \A x \in RestOf(todo') : x.do = "free",
         w.kind = "learn" /\ learnCb' = "add" => addCmd'.no \in {None, taken'}
  PROVE  OneActivity'
<1>1. Awaits'
  BY DEF Awaits, Idle, Now, Alone
<1> QED
  BY <1>1 DEF OneActivity

LEMMA ToDrive ==
  ASSUME pending' = {}, todo' # <<>>, NEW c, Head(todo') = c, c.do \in Driving, c.of = taken',
         Working', Papers', \A x \in RestOf(todo') : x.do \in {"report", "free"},
         \/ \A x \in RestOf(todo') : x.do = "free"
         \/ c.do = "remove" /\ c.why = "undo"
         \/ c.do = "remove" /\ marked' <= 1 /\ pool'[c.a].type # "PERMANENT"
         \/ c.do = "continue" /\ marked' <= 1
  PROVE  OneActivity'
<1>1. Drives'
  BY DEF Drives, Idle, Now, Alone, MayTrail
<1> QED
  BY <1>1 DEF OneActivity

LEMMA ToEnd ==
  ASSUME pending' = {}, Papers',
         todo' # <<>> =>
           /\ Head(todo').do \in Ending /\ \A x \in RestOf(todo') : x.do \in Ending
           /\ \/ nakTimer' = None \/ Head(todo').do = "report"
              \/ Head(todo').do # "complete" /\ \A x \in RestOf(todo') : x.do # "complete"
  PROVE  OneActivity'
<1>1. Ends'
  BY DEF Ends, Idle, Now
<1> QED
  BY <1>1 DEF OneActivity

(* The next packet is taken when nothing is left of the last one.           *)
LEMMA Restful ==
  ASSUME TypeInv, OneActivity, NEW n, Take(n)
  PROVE  pending = {} /\ todo = <<>> /\ owner = None /\ nakTimer = None /\ sent.wrong = {}
<1>1. todo = <<>> /\ owner = None
  BY DEF Take, Idle, TypeInv, PacketType
<1>2. ~Drives
  BY <1>1 DEF Drives, Idle
<1>3. ~Awaits
  <2> SUFFICES ASSUME Awaits PROVE FALSE
    OBVIOUS
  <2>1. PICK w \in pending : w.of = taken /\ owner = taken
    BY DEF Awaits, Working
  <2>2. w.of \in Packets
    BY CallbacksAre DEF TypeInv, FlowType
  <2> QED
    BY <1>1, <2>1, <2>2 DEF Packets, None
<1> QED
  BY <1>1, <1>2, <1>3 DEF OneActivity, Ends, Papers

LEMMA ActivityUndeliverable ==
  ASSUME TypeInv, OneActivity, TakeUndeliverable PROVE OneActivity'
<1>1. PICK n \in Nodes : Take(n)
  BY DEF TakeUndeliverable
<1>2. UNCHANGED <<owner, nakTimer, pending, todo, sent>>
  BY DEF TakeUndeliverable, AtOnce
<1>3. Papers'
  BY <1>1, <1>2, Restful DEF Papers
<1> QED
  BY <1>1, <1>2, <1>3, Restful, ToEnd

(* A packet that is answered and completed at once.                         *)
LEMMA ActivityAtOnce ==
  ASSUME TypeInv, OneActivity, NEW n, Take(n), NEW final \in BOOLEAN, FirstAnswer(final), AtOnce,
         nakTimer' \in {None, nakTimer}
  PROVE  OneActivity'
<1>1. sent'.wrong = sent.wrong
  BY DEF FirstAnswer, TypeInv, FlowType
<1>2. UNCHANGED <<owner, pending, todo>>
  BY DEF AtOnce
<1>3. Papers'
  BY <1>1, <1>2, Restful DEF Papers
<1> QED
  BY <1>2, <1>3, Restful, ToEnd

LEMMA ActivityAnswers ==
  ASSUME TypeInv, OneActivity, TakeDropped \/ TakeVersion \/ TakeGet PROVE OneActivity'
<1>1. PICK n \in Nodes : Take(n)
  BY DEF TakeDropped, TakeVersion, TakeGet
<1>2. PICK final \in BOOLEAN : FirstAnswer(final)
  BY DEF TakeDropped, TakeVersion, TakeGet
<1>3. AtOnce /\ nakTimer' \in {None, nakTimer}
  BY DEF TakeDropped, TakeVersion, TakeGet
<1> QED
  BY <1>1, <1>2, <1>3, ActivityAtOnce

(* A packet that the gateway goes on with.                                  *)
LEMMA Started ==
  ASSUME TypeInv, OneActivity, NEW n, Take(n), NEW ack, Enters(ack), Waits, FirstAnswer(FALSE),
         nakTimer' \in {nakTimer, taken + 1}
  PROVE  Papers' /\ Working' /\ taken' = taken + 1 /\ owner' = taken'
<1>1. taken' = taken + 1 /\ owner' = taken + 1 /\ conn'.no = taken + 1
  BY DEF Take, Waits, Enters
<1>2. sent'.wrong = {} /\ sent'.answered = FALSE
  BY Restful DEF FirstAnswer, TypeInv, FlowType
<1>3. nakTimer' \in {None, owner'}
  BY <1>1, Restful
<1> QED
  BY <1>1, <1>2, <1>3 DEF Papers, Working

LEMMA ActivitySend ==
  ASSUME IpBridgeAssumption, TypeInv, OneActivity, TakeSend PROVE OneActivity'
<1>1. PICK n \in Nodes : Take(n)
  BY DEF TakeSend
<1> DEFINE w == Frame("temp", None, taken + 1)
<1>2. PICK ack \in BOOLEAN :
        /\ Enters(ack)
        /\ \/ /\ Waits /\ pending' = pending \cup {w}
              /\ FirstAnswer(FALSE) /\ UNCHANGED <<nakTimer, todo>>
           \/ FirstAnswer(ack) /\ nakTimer' = None /\ AtOnce
           \/ FirstAnswer(FALSE) /\ nakTimer' = None /\ AtOnce
  BY DEF TakeSend
<1>3. CASE /\ Waits /\ pending' = pending \cup {w}
           /\ FirstAnswer(FALSE) /\ UNCHANGED <<nakTimer, todo>>
  <2>1. w.of = taken + 1 /\ w.kind = "frame"
    BY DEF Frame
  <2>2. pending' = {w} /\ todo' = <<>>
    BY <1>1, <1>3, Restful
  <2>3. Papers' /\ Working' /\ taken' = taken + 1
    BY <1>1, <1>2, <1>3, Started
  <2> HIDE DEF w
  <2> QED
    BY <2>1, <2>2, <2>3, ToAwait
<1>4. CASE AtOnce /\ nakTimer' = None /\ \E final \in BOOLEAN : FirstAnswer(final)
  BY <1>1, <1>4, ActivityAtOnce
<1> QED
  BY <1>2, <1>3, <1>4

LEMMA ActivitySet ==
  ASSUME IpBridgeAssumption, TypeInv, OneActivity, TakeSet, Clean' PROVE OneActivity'
<1>1. PICK n \in Nodes, ack \in BOOLEAN, sup \in BOOLEAN :
        /\ Take(n) /\ Enters(ack) /\ StartNakTimer(ack)
        /\ \/ CreateLocal(n, sup)
           \/ \E type \in {"PERMANENT", "PROXY"} : CreateVirtual(type, sup)
           \/ RefuseSet(sup)
  BY DEF TakeSet
<1> DEFINE t == taken + 1
<1>2. t \in Packets /\ pending = {} /\ taken' = t
  BY <1>1, Taking, Restful
<1>3. /\ Report(t).do = "report" /\ Complete(t).do = "complete"
      /\ \A a : SendSet(a, t).do = "sendSet" /\ SendSet(a, t).of = t
  BY DEF Report, Complete, SendSet
<1>4. nakTimer' \in {nakTimer, t}
  BY <1>1 DEF StartNakTimer
<1>5. ASSUME NEW calls, Handle(calls, sup) PROVE Papers' /\ Working'
  BY <1>1, <1>4, <1>5, Started DEF Handle
<1>6. CASE CreateLocal(n, sup)
  <2>1. ~sup
    BY <1>6 DEF CreateLocal, Clean
  <2>2. FreeSlots # {} /\ Handle(<<SendSet(FirstFree, t)>>, sup) /\ pending' = {}
    BY <1>2, <1>6 DEF CreateLocal
  <2>3. SendSet(FirstFree, t) \in Calls
    BY <1>2, <2>2, FreeIsFirst, CallsIn
  <2>4. todo' # <<>> /\ Head(todo') = SendSet(FirstFree, t) /\ RestOf(todo') = {}
    BY <1>2, <2>1, <2>2, <2>3, HandleOne
  <2>5. Papers' /\ Working'
    BY <1>5, <2>2
  <2> QED
    BY <1>2, <1>3, <2>2, <2>4, <2>5, ToDrive DEF Driving
<1>7. ASSUME NEW type \in {"PERMANENT", "PROXY"}, CreateVirtual(type, sup) PROVE OneActivity'
  <2>1. ~sup
    BY <1>7 DEF CreateVirtual, Clean
  <2>2. CASE /\ addCmd' = [no |-> t, type |-> type] /\ pending' = pending \cup {Learn("add", 0, t)}
             /\ Handle(<<>>, sup)
    <3> DEFINE w == Learn("add", 0, t)
    <3>1. w.of = t /\ addCmd'.no = t
      BY <2>2 DEF Learn
    <3>2. pending' = {w} /\ todo' = <<>>
      BY <1>2, <2>1, <2>2, HandleNone
    <3>3. Papers' /\ Working'
      BY <1>5, <2>2
    <3> HIDE DEF w
    <3> QED
      BY <1>2, <3>1, <3>2, <3>3, ToAwait
  <2>3. CASE Handle(Append(Abort(None, t), Report(t)), sup) /\ UNCHANGED pending
    <3>1. /\ todo' # <<>> /\ Head(todo') = Report(t)
          /\ RestOf(todo') \subseteq {Report(t), Complete(t)}
      BY <1>2, <2>3, HandleTwo
    <3>2. Papers' /\ pending' = {}
      BY <1>2, <1>5, <2>3
    <3> QED
      BY <1>3, <3>1, <3>2, ToEnd DEF Ending
  <2>4. CASE Missed(Learn("add", 0, t)) /\ UNCHANGED creating
    <3>1. pending' # pending
      BY <1>2, <2>4 DEF Missed
    <3>2. "missed" \in hist'
      BY <1>7, <2>4, <3>1 DEF CreateVirtual
    <3> QED
      BY <3>2 DEF Clean
  <2>5. \/ /\ addCmd' = [no |-> t, type |-> type] /\ pending' = pending \cup {Learn("add", 0, t)}
           /\ Handle(<<>>, sup)
        \/ /\ Handle(Append(Abort(None, t), Report(t)), sup) /\ UNCHANGED creating
           /\ UNCHANGED pending \/ Missed(Learn("add", 0, t))
    BY <1>7 DEF CreateVirtual
  <2> QED
    BY <2>2, <2>3, <2>4, <2>5
<1>8. CASE RefuseSet(sup)
  <2>1. Handle(<<Report(t)>>, sup) /\ pending' = {} /\ Report(t) \in Calls
    BY <1>2, <1>8, CallsIn DEF RefuseSet
  <2>2. todo' # <<>> /\ Head(todo') = Report(t) /\ RestOf(todo') \subseteq {Complete(t)}
    BY <1>2, <2>1, HandleOne
  <2>3. Papers'
    BY <1>5, <2>1
  <2> QED
    BY <1>3, <2>1, <2>2, <2>3, ToEnd DEF Ending
<1> QED
  BY <1>1, <1>6, <1>7, <1>8

LEMMA ActivityRemove ==
  ASSUME IpBridgeAssumption, TypeInv, OneActivity, TakeRemove, Clean' PROVE OneActivity'
<1> DEFINE t == taken + 1
<1>1. PICK n \in Nodes, ack \in BOOLEAN, sup \in BOOLEAN :
        /\ Take(n) /\ Enters(ack)
        /\ \/ nakTimer' = None /\ AtOnce /\ (FirstAnswer(FALSE) \/ FirstAnswer(TRUE))
           \/ /\ StartNakTimer(ack) /\ Handle(<<SendRemove(t)>>, sup) /\ UNCHANGED pending
              /\ hist' = hist \cup (IF sup THEN {"supervised"} ELSE {})
  BY DEF TakeRemove
<1>2. t \in Packets /\ pending = {} /\ taken' = t
  BY <1>1, Taking, Restful
<1>3. CASE nakTimer' = None /\ AtOnce /\ (FirstAnswer(FALSE) \/ FirstAnswer(TRUE))
  BY <1>1, <1>3, ActivityAtOnce
<1>4. CASE /\ StartNakTimer(ack) /\ Handle(<<SendRemove(t)>>, sup) /\ UNCHANGED pending
           /\ hist' = hist \cup (IF sup THEN {"supervised"} ELSE {})
  <2>1. ~sup
    BY <1>4 DEF Clean
  <2>2. SendRemove(t) \in Calls /\ SendRemove(t).do = "sendRemove" /\ SendRemove(t).of = t
    BY <1>2, CallsIn DEF SendRemove
  <2>3. todo' # <<>> /\ Head(todo') = SendRemove(t) /\ RestOf(todo') = {}
    BY <1>2, <1>4, <2>1, <2>2, HandleOne
  <2>4. Papers' /\ Working'
    BY <1>1, <1>4, Started DEF Handle, StartNakTimer
  <2> QED
    BY <1>2, <1>4, <2>2, <2>3, <2>4, ToDrive DEF Driving
<1> QED
  BY <1>1, <1>3, <1>4

(* The calls: a call that goes on is due to the last packet taken.          *)
LEMMA DrivesNow ==
  ASSUME TypeInv, OneActivity, ~Idle, Now.do \in Driving
  PROVE  /\ pending = {} /\ Now.of = taken /\ Working /\ Now.of \in Packets
         /\ \A x \in RestOf(todo) : x.do \in {"report", "free"}
         /\ Alone \/ MayTrail
<1>1. Drives
  BY DEF OneActivity, Awaits, Ends, Driving, Ending
<1>2. Now.of \in Packets
  BY NowIs, CallsAre DEF Driving
<1> QED
  BY <1>1, <1>2 DEF Drives

(* An answer because of that packet goes to it, and is the first one.       *)
LEMMA FirstAnswered ==
  ASSUME TypeInv, Papers, Working, taken \in Packets, NEW final \in BOOLEAN,
         Answered(taken, final)
  PROVE  sent'.wrong = {}
<1>1. owner # None /\ owner = taken
  BY DEF Working, Packets, None
<1>2. conn.no = taken /\ sent.wrong = {} /\ ~sent.answered
  BY <1>1 DEF Papers, Working
<1> QED
  BY <1>2 DEF Answered

LEMMA PapersStay ==
  ASSUME Papers, UNCHANGED packet, sent'.wrong = {}
  PROVE  Papers'
  BY DEF packet, Papers

LEMMA ActivityCompletes ==
  ASSUME TypeInv, OneActivity, DoReport \/ DoComplete PROVE OneActivity'
<1>1. /\ ~Idle /\ Now.do \in {"report", "complete"} /\ Completed /\ Then(<<>>)
      /\ UNCHANGED <<pending, sent>>
      /\ nakTimer' = None \/ (Now.do = "complete" /\ nakTimer' = nakTimer)
  BY DEF DoReport, DoComplete, Doing
<1>2. Ends /\ Papers
  BY <1>1 DEF OneActivity, Awaits, Drives, Driving
<1>3. nakTimer' = None
  BY <1>1, <1>2 DEF Ends
<1>4. Papers'
  BY <1>1, <1>2, <1>3 DEF Papers, Completed
<1>5. todo' # <<>> => {Head(todo')} \cup RestOf(todo') \subseteq RestOf(todo)
  BY <1>1, ThenPops
<1>6. pending' = {} /\ \A x \in RestOf(todo) : x.do \in Ending
  BY <1>1, <1>2 DEF Ends
<1> QED
  BY <1>3, <1>4, <1>5, <1>6, ToEnd

LEMMA ActivityFree ==
  ASSUME TypeInv, OneActivity, DoFree PROVE OneActivity'
<1>1. /\ ~Idle /\ Now.do = "free" /\ Then(<<>>)
      /\ UNCHANGED <<packet, learnCb, addCmd, pending, sent>>
  BY DEF DoFree, Doing
<1>2. todo' # <<>> => {Head(todo')} \cup RestOf(todo') \subseteq RestOf(todo)
  BY <1>1, ThenPops
<1>3. Papers' /\ Working' = Working /\ UNCHANGED <<taken, nakTimer>>
  BY <1>1 DEF OneActivity, Papers, Working, packet
<1>4. CASE Awaits
  <2>1. PICK w \in pending :
          /\ pending = {w} /\ w.of = taken /\ Working /\ Alone
          /\ w.kind = "learn" /\ learnCb = "add" => addCmd.no \in {None, taken}
    BY <1>1, <1>4 DEF Awaits
  <2>2. todo' # <<>> => Head(todo').do = "free" /\ \A x \in RestOf(todo') : x.do = "free"
    BY <1>2, <2>1 DEF Alone
  <2> QED
    BY <1>1, <1>3, <2>1, <2>2, ToAwait
<1>5. CASE Ends
  <2>1. /\ pending' = {} /\ \A x \in RestOf(todo) : x.do \in Ending
        /\ nakTimer' = None \/ \A x \in RestOf(todo) : x.do # "complete"
    BY <1>1, <1>3, <1>5 DEF Ends
  <2> QED
    BY <1>2, <1>3, <2>1, ToEnd
<1> QED
  BY <1>1, <1>4, <1>5 DEF OneActivity, Drives, Driving

LEMMA ActivitySendSet ==
  ASSUME TypeInv, OneActivity, DoSendSet PROVE OneActivity'
<1>1. ~Idle /\ Now.do = "sendSet" /\ UNCHANGED <<packet, assoc, sent>>
  BY DEF DoSendSet, Doing
<1>2. /\ pending = {} /\ Now.of = taken /\ Working /\ Now.of \in Packets
      /\ \A x \in RestOf(todo) : x.do = "free"
  BY <1>1, DrivesNow DEF Driving, Alone, MayTrail
<1>3. Now.a \in Slots /\ Now.a # None
  BY <1>1, NowIs, CallsAre DEF Slots, None
<1>4. Papers' /\ Working' /\ taken' = taken
  BY <1>1, <1>2 DEF OneActivity, Papers, Working, packet
<1>5. CASE pending' = pending \cup {Frame("set", Now.a, Now.of)} /\ Then(<<>>)
  <2> DEFINE w == Frame("set", Now.a, Now.of)
  <2>1. w.of = taken' /\ w.kind = "frame"
    BY <1>2, <1>4 DEF Frame
  <2>2. pending' = {w}
    BY <1>2, <1>5
  <2>3. todo' # <<>> => {Head(todo')} \cup RestOf(todo') \subseteq RestOf(todo)
    BY <1>1, <1>5, ThenPops
  <2> HIDE DEF w
  <2> QED
    BY <1>2, <1>4, <2>1, <2>2, <2>3, ToAwait
<1>6. CASE Then(Abort(Now.a, Now.of)) /\ UNCHANGED pending
  <2> DEFINE c == RemoveAssoc(Now.a, Now.of, "undo")
  <2>1. todo' # <<>> /\ Head(todo') = c /\ RestOf(todo') = {Report(Now.of)} \cup RestOf(todo)
    BY <1>1, <1>2, <1>3, <1>6, ThenAbort
  <2>2. c.do = "remove" /\ c.why = "undo" /\ c.of = taken' /\ Report(Now.of).do = "report"
    BY <1>2, <1>4 DEF RemoveAssoc, Report
  <2>3. pending' = {}
    BY <1>2, <1>6
  <2> HIDE DEF c
  <2> QED
    BY <1>2, <1>4, <2>1, <2>2, <2>3, ToDrive DEF Driving
<1> QED
  BY <1>5, <1>6 DEF DoSendSet

LEMMA ActivitySendRemove ==
  ASSUME IpBridgeAssumption, TypeInv, OneActivity, DoSendRemove, Clean' PROVE OneActivity'
<1> DEFINE first == SelectInSeq(table, IsMarked)
           a == table[first]
           r == RemoveAssoc(a, Now.of, "asked")
           w == Frame("remove", a, Now.of)
<1>1. ~Idle /\ Now.do = "sendRemove" /\ UNCHANGED <<packet, assoc>>
  BY DEF DoSendRemove, Doing
<1>2. /\ pending = {} /\ Now.of = taken /\ Working /\ Now.of \in Packets
      /\ \A x \in RestOf(todo) : x.do = "free"
  BY <1>1, DrivesNow DEF Driving, Alone, MayTrail
<1>3. /\ UNCHANGED <<taken, owner, marked, pool>>
      /\ UNCHANGED sent => Papers' /\ Working'
  BY <1>1, <1>2 DEF OneActivity, Papers, Working, packet, assoc
<1>4. first # 0 => a \in Slots
  <2>1. table \in Seq(Slots)
    BY DEF TypeInv, AssocType
  <2> HIDE DEF first
  <2>2. first # 0 => first \in 1..Len(table)
    BY <2>1, FirstMarked DEF first
  <2> QED
    BY <2>1, <2>2
<1>5. /\ r.do = "remove" /\ r.of = taken' /\ r.a = a /\ Report(Now.of).do = "report"
      /\ w.of = taken' /\ w.kind = "frame" /\ Copy(w, 0) = w
  BY <1>2, <1>3, FirstCopies DEF RemoveAssoc, Report, Frame
<1>6. first # 0 => r \in Calls /\ Report(Now.of) \in Calls
  BY <1>2, <1>4, CallsIn
<1>7. \/ first = 0 /\ Answered(Now.of, TRUE) /\ Then(Abort(None, Now.of)) /\ UNCHANGED pending
      \/ first # 0 /\ UNCHANGED sent /\ Awaited(w) /\ Then(<<>>)
      \/ first # 0 /\ UNCHANGED <<sent, pending>> /\ Then(<<r>>)
      \/ /\ first # 0 /\ UNCHANGED <<sent, pending>> /\ Then(<<r, Report(Now.of)>>)
         /\ hist' = IF marked > 1 \/ pool[a].type = "PERMANENT" THEN hist \cup {"refused"} ELSE hist
  BY DEF DoSendRemove
<1> HIDE DEF first, a, r, w
<1>8. CASE first = 0 /\ Answered(Now.of, TRUE) /\ Then(Abort(None, Now.of)) /\ UNCHANGED pending
  <2>1. todo' # <<>> /\ Head(todo') = Report(Now.of) /\ RestOf(todo') = RestOf(todo)
    BY <1>1, <1>2, <1>8, ThenAbort
  <2>2. Papers'
    BY <1>1, <1>2, <1>8, FirstAnswered, PapersStay DEF OneActivity
  <2> QED
    BY <1>2, <1>5, <1>8, <2>1, <2>2, ToEnd DEF Ending
<1>9. CASE UNCHANGED sent /\ Awaited(w) /\ Then(<<>>)
  <2>1. todo' # <<>> => {Head(todo')} \cup RestOf(todo') \subseteq RestOf(todo)
    BY <1>1, <1>9, ThenPops
  <2>2. pending' = {w}
    BY <1>2, <1>5, <1>9, FirstAwaited
  <2> QED
    BY <1>2, <1>3, <1>5, <1>9, <2>1, <2>2, ToAwait
<1>10. CASE first # 0 /\ UNCHANGED <<sent, pending>> /\ Then(<<r>>)
  <2>1. todo' # <<>> /\ Head(todo') = r /\ RestOf(todo') = RestOf(todo)
    BY <1>1, <1>6, <1>10, ThenOne
  <2> QED
    BY <1>2, <1>3, <1>5, <1>10, <2>1, ToDrive DEF Driving
<1>11. CASE /\ first # 0 /\ UNCHANGED <<sent, pending>> /\ Then(<<r, Report(Now.of)>>)
            /\ hist' = IF marked > 1 \/ pool[a].type = "PERMANENT" THEN hist \cup {"refused"} ELSE hist
  <2>1. todo' # <<>> /\ Head(todo') = r /\ RestOf(todo') = {Report(Now.of)} \cup RestOf(todo)
    BY <1>1, <1>6, <1>11, ThenTwo
  <2>2. marked \in Nat
    BY DEF TypeInv, AssocType
  <2>3. marked' <= 1 /\ pool'[r.a].type # "PERMANENT"
    BY <1>3, <1>5, <1>11, <2>2 DEF Clean
  <2> QED
    BY <1>2, <1>3, <1>5, <1>11, <2>1, <2>3, ToDrive DEF Driving
<1> QED
  BY <1>7, <1>8, <1>9, <1>10, <1>11

LEMMA ActivityDoRemove ==
  ASSUME IpBridgeAssumption, TypeInv, OneActivity, DoRemove, Clean' PROVE OneActivity'
<1> DEFINE a == Now.a
           c == Continue(Now.of)
           w == Learn("remove", pool[a].virt, Now.of)
<1>1. ~Idle /\ Now.do = "remove" /\ UNCHANGED <<packet, pool, marked, sent>>
  BY DEF DoRemove, Doing
<1>2. /\ pending = {} /\ Now.of = taken /\ Working /\ Now.of \in Packets
      /\ \A x \in RestOf(todo) : x.do \in {"report", "free"}
      /\ \/ \A x \in RestOf(todo) : x.do = "free"
         \/ Now.why = "undo"
         \/ marked <= 1 /\ pool[a].type # "PERMANENT"
  BY <1>1, DrivesNow DEF Driving, Alone, MayTrail
<1>3. Papers' /\ Working' /\ taken' = taken
  BY <1>1, <1>2 DEF OneActivity, Papers, Working, packet
<1>4. a \in Slots /\ marked \in Nat
  BY <1>1, NowIs, CallsAre DEF TypeInv, AssocType
<1>5. /\ c \in Calls /\ Free(a) \in Calls
  BY <1>2, <1>4, CallsIn
<1>6. /\ c.do = "continue" /\ c.of = taken' /\ Free(a).do = "free"
      /\ w.of = taken' /\ w.kind = "learn" /\ Copy(w, 0) = w
  BY <1>2, <1>3, FirstCopies DEF Continue, Free, Learn
<1>7. \/ /\ pool[a].type = "PERMANENT" /\ learnCb' = "continue" /\ Awaited(w)
         /\ Then(<<Free(a)>>) /\ Undone(TRUE)
      \/ Then(<<c, Free(a)>>) /\ Undone(marked > 1) /\ UNCHANGED pending
  BY DEF DoRemove, Clean
<1> HIDE DEF a, c, w
<1>8. CASE /\ pool[a].type = "PERMANENT" /\ learnCb' = "continue" /\ Awaited(w)
           /\ Then(<<Free(a)>>) /\ Undone(TRUE)
  <2>1. todo' # <<>> /\ Head(todo') = Free(a) /\ RestOf(todo') = RestOf(todo)
    BY <1>1, <1>5, <1>8, ThenOne
  <2>2. Now.why # "undo"
    BY <1>8 DEF Undone, Clean
  <2>3. \A x \in RestOf(todo) : x.do = "free"
    BY <1>2, <1>8, <2>2
  <2>4. pending' = {w}
    BY <1>2, <1>6, <1>8, FirstAwaited
  <2> QED
    BY <1>3, <1>6, <1>8, <2>1, <2>3, <2>4, ToAwait
<1>9. CASE Then(<<c, Free(a)>>) /\ Undone(marked > 1) /\ UNCHANGED pending
  <2>1. todo' # <<>> /\ Head(todo') = c /\ RestOf(todo') = {Free(a)} \cup RestOf(todo)
    BY <1>1, <1>5, <1>9, ThenTwo
  <2>2. Now.why = "undo" => marked <= 1
    BY <1>4, <1>9 DEF Undone, Clean
  <2>3. (\A x \in RestOf(todo) : x.do = "free") \/ marked' <= 1
    BY <1>1, <1>2, <2>2
  <2> QED
    BY <1>2, <1>3, <1>6, <1>9, <2>1, <2>3, ToDrive DEF Driving
<1> QED
  BY <1>7, <1>8, <1>9

LEMMA ActivityContinue ==
  ASSUME TypeInv, OneActivity, DoContinue PROVE OneActivity'
<1> DEFINE c == SendRemove(Now.of)
           r == Report(Now.of)
<1>1. /\ ~Idle /\ Now.do = "continue" /\ UNCHANGED <<packet, pending>>
      /\ marked' = IF marked > 0 THEN marked - 1 ELSE 0
  BY DEF DoContinue, Doing
<1>2. /\ pending' = {} /\ Now.of = taken /\ Working /\ Now.of \in Packets
      /\ \A x \in RestOf(todo) : x.do \in {"report", "free"}
      /\ (\A x \in RestOf(todo) : x.do = "free") \/ marked <= 1
  BY <1>1, DrivesNow DEF Driving, Alone, MayTrail
<1>3. taken' = taken /\ (UNCHANGED sent => Papers' /\ Working')
  BY <1>1, <1>2 DEF OneActivity, Papers, Working, packet
<1>4. /\ c \in Calls /\ r \in Calls /\ c.do = "sendRemove" /\ c.of = taken' /\ r.do = "report"
  BY <1>2, <1>3, CallsIn DEF SendRemove, Report
<1>5. \/ marked' > 0 /\ Then(<<c>>) /\ UNCHANGED sent
      \/ Then(<<r>>) /\ Answered(Now.of, TRUE)
  BY DEF DoContinue
<1> HIDE DEF c, r
<1>6. CASE marked' > 0 /\ Then(<<c>>) /\ UNCHANGED sent
  <2>1. todo' # <<>> /\ Head(todo') = c /\ RestOf(todo') = RestOf(todo)
    BY <1>1, <1>4, <1>6, ThenOne
  <2>2. \A x \in RestOf(todo) : x.do = "free"
    BY <1>1, <1>2, <1>6 DEF TypeInv, AssocType
  <2> QED
    BY <1>2, <1>3, <1>4, <1>6, <2>1, <2>2, ToDrive DEF Driving
<1>7. CASE Then(<<r>>) /\ Answered(Now.of, TRUE)
  <2>1. todo' # <<>> /\ Head(todo') = r /\ RestOf(todo') = RestOf(todo)
    BY <1>1, <1>4, <1>7, ThenOne
  <2>2. Papers'
    BY <1>1, <1>2, <1>7, FirstAnswered, PapersStay DEF OneActivity
  <2> QED
    BY <1>2, <1>4, <2>1, <2>2, ToEnd DEF Ending
<1> QED
  BY <1>5, <1>6, <1>7

(* The callbacks: the one that comes is the only one, and due to the last   *)
(* packet taken.                                                            *)
LEMMA AwaitsNow ==
  ASSUME TypeInv, OneActivity, NEW w \in pending, Idle
  PROVE  /\ pending = {w} /\ w.of = taken /\ Working /\ w.of \in Packets /\ todo = <<>>
         /\ w.kind = "learn" /\ learnCb = "add" => addCmd.no \in {None, taken}
<1>1. Awaits
  BY DEF OneActivity, Drives, Ends
<1>2. w.of \in Packets
  BY CallbacksAre DEF TypeInv, FlowType
<1> QED
  BY <1>1, <1>2 DEF Awaits, Idle

LEMMA ActivityTempFrame ==
  ASSUME TypeInv, OneActivity, NEW w \in pending, TempFrameDone(w) PROVE OneActivity'
<1>1. /\ Idle /\ pending' = pending \ {w} /\ Completed /\ nakTimer' = None /\ UNCHANGED todo
      /\ Answered(w.of, TRUE) \/ UNCHANGED sent
  BY DEF TempFrameDone, Fires
<1>2. pending = {w} /\ w.of = taken /\ Working /\ w.of \in Packets /\ todo = <<>>
  BY <1>1, AwaitsNow
<1>3. sent'.wrong = {}
  BY <1>1, <1>2, FirstAnswered DEF OneActivity, Papers
<1>4. Papers' /\ pending' = {}
  BY <1>1, <1>2, <1>3 DEF Papers, Completed
<1> QED
  BY <1>1, <1>2, <1>4, ToEnd

(* An abort is due to the packet that is at work.                           *)
LEMMA ActivityAborts ==
  ASSUME TypeInv, Papers', Working', pending' = {}, taken' \in Packets,
         NEW a \in Slots \cup {None}, todo' = Abort(a, taken')
  PROVE  OneActivity'
<1> DEFINE p == taken'
           c == RemoveAssoc(a, p, "undo")
<1>1. /\ todo' # <<>>
      /\ a = None => Head(todo') = Report(p) /\ RestOf(todo') = {}
      /\ a # None => Head(todo') = c /\ RestOf(todo') = {Report(p)}
  BY Aborting
<1>2. c.do = "remove" /\ c.why = "undo" /\ c.of = taken' /\ Report(p).do = "report"
  BY DEF RemoveAssoc, Report
<1> HIDE DEF c
<1>3. CASE a = None
  BY <1>1, <1>2, <1>3, ToEnd DEF Ending
<1>4. CASE a # None
  BY <1>1, <1>2, <1>4, ToDrive DEF Driving
<1> QED
  BY <1>3, <1>4

LEMMA ActivitySetFrame ==
  ASSUME TypeInv, OneActivity, NEW w \in pending, SetFrameDone(w), Clean' PROVE OneActivity'
<1>1. Idle /\ UNCHANGED <<packet, sent>> /\ w.a \in Slots
  BY DEF SetFrameDone, Fires, IsFrame, TypeInv, FlowType
<1>2. pending = {w} /\ w.of = taken /\ Working /\ w.of \in Packets /\ todo = <<>>
  BY <1>1, AwaitsNow
<1>3. Papers' /\ Working' /\ taken' = taken
  BY <1>1, <1>2 DEF OneActivity, Papers, Working, packet
<1>4. \/ pending' = (pending \ {w}) \cup {Route(w.of)} /\ UNCHANGED todo
      \/ pending' = pending \ {w} /\ todo' = Abort(w.a, w.of)
  BY DEF SetFrameDone, Clean
<1>5. CASE pending' = (pending \ {w}) \cup {Route(w.of)} /\ UNCHANGED todo
  <2> DEFINE v == Route(w.of)
  <2>1. pending' = {v} /\ v.of = taken' /\ v.kind = "route"
    BY <1>2, <1>3, <1>5 DEF Route
  <2> HIDE DEF v
  <2> QED
    BY <1>2, <1>3, <1>5, <2>1, ToAwait
<1>6. CASE pending' = pending \ {w} /\ todo' = Abort(w.a, w.of)
  BY <1>1, <1>2, <1>3, <1>6, ActivityAborts
<1> QED
  BY <1>4, <1>5, <1>6

LEMMA ActivityRoute ==
  ASSUME TypeInv, OneActivity, NEW w \in pending, RouteDone(w) PROVE OneActivity'
<1>1. /\ Idle /\ UNCHANGED packet /\ pending' = pending \ {w}
      /\ \/ Answered(w.of, TRUE) /\ todo' = <<Report(w.of)>>
         \/ todo' = Abort(routeFor, w.of) /\ UNCHANGED sent
  BY DEF RouteDone, Fires
<1>2. pending' = {} /\ w.of = taken /\ Working /\ w.of \in Packets /\ routeFor \in Slots \cup {None}
  BY <1>1, AwaitsNow DEF TypeInv, AssocType
<1>3. CASE Answered(w.of, TRUE) /\ todo' = <<Report(w.of)>>
  <2>1. Report(w.of) \in Calls /\ Report(w.of).do = "report"
    BY <1>2, CallsIn DEF Report
  <2>2. todo' # <<>> /\ Head(todo') = Report(w.of) /\ RestOf(todo') = {}
    BY <1>3, <2>1, OneCall
  <2>3. Papers'
    BY <1>1, <1>2, <1>3, FirstAnswered, PapersStay DEF OneActivity
  <2> QED
    BY <1>2, <2>1, <2>2, <2>3, ToEnd DEF Ending
<1>4. CASE todo' = Abort(routeFor, w.of) /\ UNCHANGED sent
  <2>1. Papers' /\ Working' /\ taken' = taken
    BY <1>1, <1>2, <1>4 DEF OneActivity, Papers, Working, packet
  <2> QED
    BY <1>2, <1>4, <2>1, ActivityAborts
<1> QED
  BY <1>1, <1>3, <1>4

LEMMA ActivityRemoveFrame ==
  ASSUME TypeInv, OneActivity, NEW w \in pending, RemoveFrameDone(w) PROVE OneActivity'
<1> DEFINE r == RemoveAssoc(w.a, w.of, "asked")
<1>1. /\ Idle /\ UNCHANGED <<packet, sent>> /\ pending' = pending \ {w} /\ w.a \in Slots
      /\ todo' = <<r>> \/ todo' = <<Report(w.of)>>
  BY DEF RemoveFrameDone, Fires, IsFrame, TypeInv, FlowType
<1>2. pending' = {} /\ w.of = taken /\ Working /\ w.of \in Packets
  BY <1>1, AwaitsNow
<1>3. Papers' /\ Working' /\ taken' = taken
  BY <1>1, <1>2 DEF OneActivity, Papers, Working, packet
<1>4. /\ r \in Calls /\ r.do = "remove" /\ r.of = taken'
      /\ Report(w.of) \in Calls /\ Report(w.of).do = "report"
  BY <1>1, <1>2, <1>3, CallsIn DEF RemoveAssoc, Report
<1> HIDE DEF r
<1>5. CASE todo' = <<r>>
  <2>1. todo' # <<>> /\ Head(todo') = r /\ RestOf(todo') = {}
    BY <1>4, <1>5, OneCall
  <2> QED
    BY <1>2, <1>3, <1>4, <2>1, ToDrive DEF Driving
<1>6. CASE todo' = <<Report(w.of)>>
  <2>1. todo' # <<>> /\ Head(todo') = Report(w.of) /\ RestOf(todo') = {}
    BY <1>4, <1>6, OneCall
  <2> QED
    BY <1>2, <1>3, <1>4, <2>1, ToEnd DEF Ending
<1> QED
  BY <1>1, <1>5, <1>6

LEMMA ActivityLearn ==
  ASSUME IpBridgeAssumption, TypeInv, OneActivity, NEW w \in pending, LearnDone(w)
  PROVE  OneActivity'
<1>1. Idle /\ w.kind = "learn" /\ UNCHANGED <<packet, sent>> /\ pending' = pending \ {w}
  BY DEF LearnDone, Fires
<1>2. /\ pending' = {} /\ w.of = taken /\ Working /\ w.of \in Packets
      /\ learnCb = "add" => addCmd.no \in {None, taken}
  BY <1>1, AwaitsNow
<1>3. Papers' /\ Working' /\ taken' = taken
  BY <1>1, <1>2 DEF OneActivity, Papers, Working, packet
<1>4. PICK p \in {w.of, addCmd.no} : p \in Packets /\
         \/ learnCb # "add" /\ p = w.of /\ todo' = <<Continue(p)>> /\ UNCHANGED <<pool, used, table>>
         \/ /\ learnCb = "add" /\ FreeSlots # {}
            /\ \E x : /\ Put(FirstFree, x) /\ Enlist(FirstFree, x) /\ ~x.mark
            /\ todo' = <<>> \/ todo' = <<SendSet(FirstFree, p)>>
         \/ /\ learnCb = "add" /\ UNCHANGED <<used, table>>
            /\ todo' = <<>> \/ todo' = <<Report(p)>>
            /\ UNCHANGED pool \/ \E x : FreeSlots # {} /\ Put(FirstFree, x)
  BY LearnCases
<1>5. p = taken'
  BY <1>2, <1>3, <1>4 DEF Packets, None
<1>6. /\ Continue(p) \in Calls /\ Continue(p).do = "continue" /\ Continue(p).of = p
      /\ Report(p) \in Calls /\ Report(p).do = "report"
      /\ FreeSlots # {} => SendSet(FirstFree, p) \in Calls
      /\ SendSet(FirstFree, p).do = "sendSet" /\ SendSet(FirstFree, p).of = p
  BY <1>4, CallsIn, FreeIsFirst DEF Continue, Report, SendSet
<1>7. CASE todo' = <<>>
  BY <1>2, <1>3, <1>7, ToEnd
<1>8. ASSUME NEW x \in Calls, x.do \in Driving, x.of = p, todo' = <<x>> PROVE OneActivity'
  <2>1. todo' # <<>> /\ Head(todo') = x /\ RestOf(todo') = {}
    BY <1>8, OneCall
  <2> QED
    BY <1>2, <1>3, <1>5, <1>8, <2>1, ToDrive
<1>9. CASE todo' = <<Report(p)>>
  <2>1. todo' # <<>> /\ Head(todo') = Report(p) /\ RestOf(todo') = {}
    BY <1>6, <1>9, OneCall
  <2> QED
    BY <1>2, <1>3, <1>6, <2>1, ToEnd DEF Ending
<1> QED
  BY <1>4, <1>6, <1>7, <1>8, <1>9 DEF Driving

LEMMA ActivityNak ==
  ASSUME TypeInv, OneActivity, NakFires PROVE OneActivity'
<1>1. /\ Idle /\ nakTimer # None /\ nakTimer' = None /\ Answered(nakTimer, FALSE)
      /\ UNCHANGED <<taken, owner, conn, learnCb, addCmd, pending, todo>>
  BY DEF NakFires, assoc
<1>2. nakTimer = conn.no /\ sent.wrong = {}
  BY <1>1 DEF OneActivity, Papers
<1>3. sent'.wrong = {} /\ sent'.answered = sent.answered
  BY <1>1, <1>2 DEF Answered, TypeInv, FlowType
<1>4. Papers'
  BY <1>1, <1>3 DEF OneActivity, Papers
<1>5. CASE pending = {}
  BY <1>1, <1>4, <1>5, ToEnd DEF Idle
<1>6. CASE pending # {}
  <2>1. PICK w \in pending :
          /\ pending = {w} /\ w.of = taken /\ Working /\ todo = <<>>
          /\ w.kind = "learn" /\ learnCb = "add" => addCmd.no \in {None, taken}
    BY <1>1, <1>6, AwaitsNow
  <2>2. Working'
    BY <1>1, <1>3, <2>1 DEF Working
  <2> QED
    BY <1>1, <1>4, <2>1, <2>2, ToAwait
<1> QED
  BY <1>5, <1>6

(* What the properties allow for, once it has happened, has happened.       *)
LEMMA HistoryGrows ==
  ASSUME [Next]_vars PROVE hist \subseteq hist'
<1>1. CASE TakePacket
  BY <1>1 DEF TakePacket, TakeUndeliverable, TakeDropped, TakeVersion, TakeGet, TakeSend, TakeSet,
              TakeRemove, CreateLocal, CreateVirtual, RefuseSet
<1>2. CASE Calling
  BY <1>2 DEF Calling, DoReport, DoComplete, DoSendSet, DoSendRemove, DoRemove, Undone, DoContinue,
              DoFree
<1>3. CASE Callback
  BY <1>3 DEF Callback, TempFrameDone, SetFrameDone, RouteDone, RemoveFrameDone, LearnDone, LearnUpdate
<1>4. CASE NakFires \/ (\E w \in pending : ChipSilent(w)) \/ UNCHANGED vars
  BY <1>4 DEF NakFires, ChipSilent, vars
<1> QED
  BY <1>1, <1>2, <1>3, <1>4 DEF Next

LEMMA CleanBefore == ASSUME [Next]_vars, Clean' PROVE Clean
  BY HistoryGrows DEF Clean

(* The chip was not done, or stayed silent: what follows may belong to no   *)
(* packet.                                                                  *)
LEMMA ChipStrays ==
  ASSUME NEW w \in pending, LearnUpdate(w) \/ ChipSilent(w)
  PROVE  ~Clean'
  BY DEF LearnUpdate, ChipSilent, Clean

LEMMA ActivityStep ==
  ASSUME IpBridgeAssumption, TypeInv, ActivityInv, [Next]_vars PROVE ActivityInv'
<1> SUFFICES ASSUME Clean' PROVE OneActivity'
  BY DEF ActivityInv
<1>0. OneActivity
  BY CleanBefore DEF ActivityInv
<1>1. CASE TakePacket
  BY <1>0, <1>1, ActivityUndeliverable, ActivityAnswers, ActivitySend, ActivitySet, ActivityRemove
     DEF TakePacket
<1>2. CASE Calling
  BY <1>0, <1>2, ActivityCompletes, ActivitySendSet, ActivitySendRemove, ActivityDoRemove,
     ActivityContinue, ActivityFree DEF Calling
<1>3. CASE Callback
  BY <1>0, <1>3, ActivityTempFrame, ActivitySetFrame, ActivityRoute, ActivityRemoveFrame,
     ActivityLearn, ChipStrays DEF Callback
<1>4. CASE NakFires \/ \E w \in pending : ChipSilent(w)
  BY <1>0, <1>4, ActivityNak, ChipStrays
<1>5. CASE UNCHANGED vars
  <2>1. /\ Papers' = Papers /\ Awaits' = Awaits /\ Drives' = Drives /\ Ends' = Ends
    BY <1>5 DEF vars, packet, assoc, Papers, Awaits, Drives, Ends, Working, Alone, MayTrail, Idle, Now
  <2> QED
    BY <1>0, <2>1 DEF OneActivity
<1> QED
  BY <1>1, <1>2, <1>3, <1>4, <1>5 DEF Next

LEMMA ActivityInit == ASSUME Init PROVE ActivityInv
  BY DEF Init, ActivityInv, OneActivity, Papers, Ends, Idle, None

(* While no packet has left work behind, one thing at a time is under way,  *)
(* and it is due to the last packet taken.                                  *)
THEOREM ActivityInvariance == Spec => []ActivityInv
<1>1. Init => ActivityInv
  BY ActivityInit
<1>2. TypeInv /\ ActivityInv /\ [Next]_vars => ActivityInv'
  BY IpBridgeAssumption, ActivityStep
<1> QED
  BY <1>1, <1>2, TypeInvariance, PTL DEF Spec

(* While no packet has left work behind, an answer goes to the packet it is *)
(* about, and no packet gets a second one.                                  *)
THEOREM AnswersOwnHolds == Spec => []AnswersOwn
<1>1. ActivityInv => AnswersOwn
  BY DEF ActivityInv, OneActivity, Papers, AnswersOwn
<1> QED
  BY <1>1, ActivityInvariance, PTL

-----------------------------------------------------------------------------
(* The marks: while no packet has left work behind, no removal has failed   *)
(* and no association was born marked, they are those of the Remove under   *)
(* way, and their number is that of the associations still to be removed.   *)
Marked == {a \in ToSet(table) : pool[a].mark}
Exact == Clean /\ hist \cap {"stale", "failed"} = {}
Counted == marked = Cardinality(Marked)
Owing == marked = Cardinality(Marked) + 1 \/ (marked = 0 /\ Marked = {})
Quiet == marked = 0 /\ Marked = {}

OfRemoval(w) == w.kind = "frame" /\ w.cb = "remove"
OfChip(w) == w.kind = "learn" /\ learnCb # "add"
Removal ==
  /\ Marked \subseteq asked
  /\ \A w \in pending : IF OfRemoval(w) THEN w.a \in Marked /\ Counted
                        ELSE IF OfChip(w) THEN Owing ELSE Quiet
  /\ pending = {} =>
       IF Doing("sendRemove") THEN Counted /\ Marked # {}
       ELSE IF Doing("remove") /\ Now.why = "asked" THEN Now.a \in Marked /\ Counted
       ELSE IF Doing("continue") THEN Owing
       ELSE Quiet
RemovalInv == Exact => Removal

LEMMA MarkedCount ==
  ASSUME TypeInv, TableInv
  PROVE  /\ IsFiniteSet(Marked) /\ Cardinality(Marked) \in Nat
         /\ Cardinality(Marked) = 0 <=> Marked = {}
<1>1. table \in Seq(Slots) /\ Distinct(table) /\ Marked \subseteq ToSet(table)
  BY DEF TypeInv, AssocType, TableInv, Marked
<1>2. IsFiniteSet(Marked)
  BY <1>1, AsMany
<1> QED
  BY <1>2, FS_CardinalityType, FS_EmptySet

(* Nothing is marked, and what comes next removes nothing.                  *)
Harmless(c) == /\ c.do \notin {"sendRemove", "continue"}
               /\ ~(c.do = "remove" /\ c.why = "asked")
LEMMA ToQuiet ==
  ASSUME Marked' = {}, marked' = 0,
         \A w \in pending' : ~OfRemoval(w) /\ ~(w.kind = "learn" /\ learnCb' # "add"),
         pending' = {} /\ todo' # <<>> => Harmless(Head(todo'))
  PROVE  Removal'
<1>1. Quiet'
  BY DEF Quiet
<1>2. pending' = {} => /\ ~Doing("sendRemove")' /\ ~Doing("continue")'
                       /\ ~(Doing("remove") /\ Now.why = "asked")'
  BY DEF Doing, Now, Idle, Harmless
<1> QED
  BY <1>1, <1>2 DEF Removal, OfRemoval, OfChip

(* The number of marks is one too high while one is being removed.          *)
LEMMA ToOwe ==
  ASSUME Owing', Marked' \subseteq asked',
         \A w \in pending' : w.kind = "learn" /\ learnCb' # "add",
         pending' = {} => todo' # <<>> /\ Head(todo').do = "continue"
  PROVE  Removal'
<1>1. pending' = {} => Doing("continue")' /\ ~Doing("sendRemove")' /\ ~Doing("remove")'
  BY DEF Doing, Now, Idle
<1> QED
  BY <1>1 DEF Removal, OfRemoval, OfChip

(* The next one is about to be removed.                                     *)
LEMMA ToTake ==
  ASSUME Counted', Marked' \subseteq asked', NEW a \in Marked',
         \A w \in pending' : OfRemoval(w) /\ w.a = a,
         pending' = {} => /\ todo' # <<>>
                          /\ \/ Head(todo').do = "sendRemove"
                             \/ /\ Head(todo').do = "remove" /\ Head(todo').why = "asked"
                                /\ Head(todo').a = a
  PROVE  Removal'
<1>1. pending' = {} => \/ Doing("sendRemove")'
                       \/ ~Doing("sendRemove")' /\ (Doing("remove") /\ Now.why = "asked" /\ Now.a = a)'
  BY DEF Doing, Now, Idle
<1> QED
  BY <1>1 DEF Removal, OfRemoval

(* An unmarked association in the memory that was free.                     *)
LEMMA UnmarkedStays ==
  ASSUME IpBridgeAssumption, TypeInv, TableInv, FreeSlots # {}, NEW x, Put(FirstFree, x),
         UNCHANGED table \/ (Enlist(FirstFree, x) /\ ~x.mark)
  PROVE  Marked' = Marked
<1>1. FirstFree \in Slots /\ FirstFree \notin used
  BY FreeIsFirst
<1>2. table \in Seq(Slots) /\ Distinct(table) /\ FirstFree \notin ToSet(table)
  BY <1>1 DEF TypeInv, AssocType, TableInv
<1>3. /\ pool' = [pool EXCEPT ![FirstFree] = x] /\ FirstFree \in DOMAIN pool
      /\ ToSet(table) \subseteq DOMAIN pool
  BY <1>1, <1>2, ListSet DEF Put, TypeInv, AssocType
<1>4. /\ pool'[FirstFree] = x
      /\ \A a \in ToSet(table) : pool'[a] = pool[a]
  BY <1>2, <1>3
<1>5. \/ ToSet(table') = ToSet(table)
      \/ ToSet(table') = ToSet(table) \cup {FirstFree} /\ ~x.mark
  BY <1>1, <1>2, Added DEF Enlist
<1> QED
  BY <1>4, <1>5 DEF Marked

LEMMA MarkedKept == ASSUME UNCHANGED <<pool, table>> PROVE Marked' = Marked
  BY DEF Marked

(* When the next packet is taken no association is marked.                  *)
LEMMA QuietRest ==
  ASSUME TypeInv, OneActivity, Removal, NEW n, Take(n)
  PROVE  marked = 0 /\ Marked = {} /\ pending = {} /\ todo = <<>>
<1>1. pending = {} /\ todo = <<>>
  BY Restful
<1> QED
  BY <1>1 DEF Removal, Doing, Idle, Quiet

LEMMA RemovalTakes ==
  ASSUME TypeInv, OneActivity, Removal,
         TakeUndeliverable \/ TakeDropped \/ TakeVersion \/ TakeGet \/ TakeSend
  PROVE  Removal'
<1>1. PICK n \in Nodes : Take(n)
  BY DEF TakeUndeliverable, TakeDropped, TakeVersion, TakeGet, TakeSend
<1> DEFINE w == Frame("temp", None, taken + 1)
<1>2. /\ UNCHANGED <<pool, table, marked, todo>>
      /\ pending' \subseteq pending \cup {w}
  BY DEF TakeUndeliverable, TakeDropped, TakeVersion, TakeGet, TakeSend, AtOnce, assoc
<1>3. ~OfRemoval(w) /\ w.kind = "frame"
  BY DEF Frame, OfRemoval
<1> HIDE DEF w
<1> QED
  BY <1>1, <1>2, <1>3, QuietRest, MarkedKept, ToQuiet

LEMMA RemovalSet ==
  ASSUME IpBridgeAssumption, TypeInv, TableInv, OneActivity, Removal, TakeSet, Exact'
  PROVE  Removal'
<1>1. PICK n \in Nodes, sup \in BOOLEAN :
        /\ Take(n)
        /\ \/ CreateLocal(n, sup)
           \/ \E type \in {"PERMANENT", "PROXY"} : CreateVirtual(type, sup)
           \/ RefuseSet(sup)
  BY DEF TakeSet
<1> DEFINE t == taken + 1
<1>2. t \in Packets /\ marked = 0 /\ Marked = {} /\ pending = {}
  BY <1>1, Taking, QuietRest
<1>3. Report(t).do = "report" /\ Complete(t).do = "complete" /\ \A a : SendSet(a, t).do = "sendSet"
  BY DEF Report, Complete, SendSet
<1>4. CASE CreateLocal(n, sup)
  <2>1. PICK x : /\ FreeSlots # {} /\ Put(FirstFree, x) /\ Enlist(FirstFree, x)
                 /\ hist' = hist \cup (IF x.mark THEN {"stale"} ELSE {})
                             \cup (IF sup THEN {"supervised"} ELSE {})
    <3> DEFINE y(r) == [type |-> "LOCAL", node |-> n, res |-> r,
                        mark |-> pool[FirstFree].mark, virt |-> pool[FirstFree].virt]
    <3>1. PICK r \in Resources :
            /\ FreeSlots # {} /\ Put(FirstFree, y(r)) /\ Enlist(FirstFree, y(r))
            /\ hist' = hist \cup (IF pool[FirstFree].mark THEN {"stale"} ELSE {})
                        \cup (IF sup THEN {"supervised"} ELSE {})
      BY <1>4 DEF CreateLocal
    <3>2. y(r).mark = pool[FirstFree].mark
      OBVIOUS
    <3> HIDE DEF y
    <3> QED
      BY <3>1, <3>2
  <2>2. ~x.mark
    BY <2>1 DEF Exact
  <2>3. Marked' = {}
    BY <1>2, <2>1, <2>2, UnmarkedStays
  <2>4. Handle(<<SendSet(FirstFree, t)>>, sup) /\ UNCHANGED <<marked, pending>>
    BY <1>4 DEF CreateLocal
  <2>5. SendSet(FirstFree, t) \in Calls
    BY <1>2, <2>1, FreeIsFirst, CallsIn
  <2>6. Head(todo').do = "sendSet"
    BY <1>2, <1>3, <2>4, <2>5, HandleOne
  <2> QED
    BY <1>2, <2>3, <2>4, <2>6, ToQuiet DEF Harmless
<1>5. ASSUME NEW type \in {"PERMANENT", "PROXY"}, CreateVirtual(type, sup) PROVE Removal'
  <2> DEFINE w == Learn("add", 0, t)
  <2>1. /\ UNCHANGED <<pool, table, marked>> /\ learnCb' = "add"
        /\ pending' \subseteq pending \cup {w}
        /\ Handle(<<>>, sup) \/ Handle(Append(Abort(None, t), Report(t)), sup)
    BY <1>5 DEF CreateVirtual, Missed
  <2>2. ~OfRemoval(w)
    BY DEF Learn, OfRemoval
  <2> HIDE DEF w
  <2>3. todo' # <<>> => Head(todo').do \in {"complete", "report"}
    BY <1>2, <1>3, <2>1, HandleNone, HandleTwo
  <2> QED
    BY <1>2, <2>1, <2>2, <2>3, MarkedKept, ToQuiet DEF Harmless
<1>6. CASE RefuseSet(sup)
  <2>1. /\ UNCHANGED <<pool, table, marked, pending>>
        /\ Handle(<<Report(t)>>, sup) /\ Report(t) \in Calls
    BY <1>2, <1>6, CallsIn DEF RefuseSet, assoc
  <2>2. Head(todo').do = "report"
    BY <1>2, <1>3, <2>1, HandleOne
  <2> QED
    BY <1>2, <2>1, <2>2, MarkedKept, ToQuiet DEF Harmless
<1> QED
  BY <1>1, <1>4, <1>5, <1>6

(* A Remove marks what it names and counts it.                              *)
LEMMA MarksCount ==
  ASSUME TypeInv, TableInv, Marked = {}, NEW as \in SUBSET ToSet(table), Marks(as), UNCHANGED table
  PROVE  Marked' = as /\ marked' = Cardinality(as)
<1>1. table \in Seq(Slots) /\ Distinct(table) /\ pool \in [Slots -> Associations]
  BY DEF TypeInv, AssocType, TableInv
<1>2. ToSet(table) \subseteq Slots /\ DOMAIN table = 1..Len(table)
  BY <1>1, ListSet
<1>3. \A a \in ToSet(table) : pool'[a].mark <=> a \in as
  <2>1. \A a \in as : pool'[a].mark
    <3> SUFFICES ASSUME NEW a \in as PROVE pool'[a].mark
      OBVIOUS
    <3>1. pool'[a] = [pool[a] EXCEPT !.mark = TRUE] /\ pool[a] \in Associations
      BY <1>1, <1>2 DEF Marks
    <3> QED
      BY <3>1 DEF Associations, Blank
  <2>2. \A a \in ToSet(table) \ as : ~pool'[a].mark
    BY <1>2 DEF Marks, Marked
  <2> QED
    BY <2>1, <2>2
<1>4. marked' = Cardinality({i \in 1..Len(table) : table[i] \in as})
  BY <1>2 DEF Marks
<1>5. Cardinality(as) = Cardinality({i \in 1..Len(table) : table[i] \in as})
  BY <1>1, AsMany
<1> QED
  BY <1>3, <1>4, <1>5 DEF Marked

LEMMA RemovalRemove ==
  ASSUME IpBridgeAssumption, TypeInv, TableInv, OneActivity, Removal, TakeRemove
  PROVE  Removal'
<1> DEFINE t == taken + 1
           c == SendRemove(t)
<1>1. PICK n \in Nodes, r \in Resources \cup {"any"}, sup \in BOOLEAN :
        /\ Take(n) /\ UNCHANGED table
        /\ \/ AtOnce /\ UNCHANGED pool /\ (UNCHANGED marked \/ marked' = 0)
           \/ /\ Matching(n, r) # {} /\ Marks(Matching(n, r)) /\ asked' = Matching(n, r)
              /\ Handle(<<c>>, sup) /\ UNCHANGED pending
  BY DEF TakeRemove
<1>2. t \in Packets /\ marked = 0 /\ Marked = {} /\ pending = {} /\ todo = <<>>
  BY <1>1, Taking, QuietRest
<1>3. CASE AtOnce /\ UNCHANGED pool /\ (UNCHANGED marked \/ marked' = 0)
  BY <1>1, <1>2, <1>3, MarkedKept, ToQuiet DEF AtOnce
<1>4. CASE /\ Matching(n, r) # {} /\ Marks(Matching(n, r)) /\ asked' = Matching(n, r)
           /\ Handle(<<c>>, sup) /\ UNCHANGED pending
  <2>1. Matching(n, r) \subseteq ToSet(table)
    BY DEF Matching
  <2>2. Marked' = Matching(n, r) /\ Counted'
    BY <1>1, <1>2, <1>4, <2>1, MarksCount DEF Counted
  <2>3. PICK a : a \in Marked'
    BY <1>4, <2>2
  <2>4. c \in Calls /\ c.do = "sendRemove"
    BY <1>2, CallsIn DEF SendRemove
  <2> HIDE DEF c
  <2>5. todo' # <<>> /\ Head(todo').do = "sendRemove"
    BY <1>2, <1>4, <2>4, HandleOne
  <2> QED
    BY <1>2, <1>4, <2>2, <2>3, <2>5, ToTake
<1> QED
  BY <1>1, <1>3, <1>4

(* The calls.                                                               *)
LEMMA RemovalStays ==
  ASSUME UNCHANGED <<pool, table, marked, asked, pending, learnCb>>, Removal, pending # {}
  PROVE  Removal'
  BY DEF Removal, OfRemoval, OfChip, Owing, Quiet, Counted, Marked

LEMMA RemovalCompletes ==
  ASSUME TypeInv, OneActivity, Removal, DoReport \/ DoComplete \/ DoFree
  PROVE  Removal'
<1>1. /\ ~Idle /\ Now.do \in Ending /\ Then(<<>>)
      /\ UNCHANGED <<pool, table, marked, asked, pending, learnCb>>
  BY DEF DoReport, DoComplete, DoFree, Doing, assoc, Ending
<1>2. CASE pending # {}
  BY <1>1, <1>2, RemovalStays
<1>3. CASE pending = {}
  <2>1. Ends
    BY <1>1, <1>3 DEF OneActivity, Awaits, Drives, Ending, Driving
  <2>2. Quiet
    BY <1>1, <1>3 DEF Removal, Doing, Ending
  <2>3. todo' # <<>> => Head(todo').do \in Ending
    BY <1>1, <2>1, ThenPops DEF Ends
  <2> QED
    BY <1>1, <1>3, <2>2, <2>3, MarkedKept, ToQuiet DEF Quiet, Harmless, Ending
<1> QED
  BY <1>2, <1>3

LEMMA RemovalSendSet ==
  ASSUME TypeInv, OneActivity, Removal, DoSendSet PROVE Removal'
<1> DEFINE w == Frame("set", Now.a, Now.of)
           c == RemoveAssoc(Now.a, Now.of, "undo")
<1>1. /\ ~Idle /\ Now.do = "sendSet" /\ UNCHANGED <<pool, table, marked>>
      /\ \/ pending' = pending \cup {w}
         \/ Then(Abort(Now.a, Now.of)) /\ UNCHANGED pending
  BY DEF DoSendSet, Doing, assoc
<1>2. pending = {} /\ Now.of \in Packets /\ Now.a \in Slots /\ Now.a # None
  BY <1>1, DrivesNow, NowIs, CallsAre DEF Driving, Slots, None
<1>3. marked = 0 /\ Marked = {}
  BY <1>1, <1>2 DEF Removal, Doing, Quiet
<1>4. ~OfRemoval(w) /\ w.kind = "frame"
  BY DEF Frame, OfRemoval
<1>5. Harmless(c)
  BY DEF RemoveAssoc, Harmless
<1> HIDE DEF w
<1>6. CASE pending' = pending \cup {w}
  BY <1>1, <1>2, <1>3, <1>4, <1>6, MarkedKept, ToQuiet
<1>7. CASE Then(Abort(Now.a, Now.of)) /\ UNCHANGED pending
  <2>1. Head(todo') = c
    BY <1>1, <1>2, <1>7, ThenAbort
  <2> HIDE DEF c
  <2> QED
    BY <1>1, <1>2, <1>3, <1>5, <1>7, <2>1, MarkedKept, ToQuiet
<1> QED
  BY <1>1, <1>6, <1>7

LEMMA RemovalSendRemove ==
  ASSUME IpBridgeAssumption, TypeInv, OneActivity, Removal, DoSendRemove PROVE Removal'
<1> DEFINE first == SelectInSeq(table, IsMarked)
           a == table[first]
           r == RemoveAssoc(a, Now.of, "asked")
           w == Frame("remove", a, Now.of)
<1>1. ~Idle /\ Now.do = "sendRemove" /\ UNCHANGED <<pool, table, marked, asked>>
  BY DEF DoSendRemove, Doing, assoc
<1>2. pending = {} /\ Now.of \in Packets
  BY <1>1, DrivesNow DEF Driving
<1>3. Counted /\ Marked # {} /\ Marked \subseteq asked
  BY <1>1, <1>2 DEF Removal, Doing
<1>4. first # 0 /\ a \in Slots /\ a \in Marked
  <2>1. table \in Seq(Slots) /\ ToSet(table) = {table[i] : i \in 1..Len(table)}
    BY ListSet DEF TypeInv, AssocType
  <2> HIDE DEF first
  <2>2. /\ first # 0 => first \in 1..Len(table) /\ pool[table[first]].mark
        /\ first = 0 => \A i \in 1..Len(table) : ~pool[table[i]].mark
    BY <2>1, FirstMarked DEF first
  <2>3. first # 0
    BY <1>3, <2>1, <2>2 DEF Marked
  <2> QED
    BY <2>1, <2>2, <2>3 DEF Marked
<1>5. /\ r.do = "remove" /\ r.why = "asked" /\ r.a = a
      /\ OfRemoval(w) /\ w.a = a /\ Copy(w, 0) = w
  BY FirstCopies DEF RemoveAssoc, Frame, OfRemoval
<1>6. r \in Calls /\ Report(Now.of) \in Calls
  BY <1>2, <1>4, CallsIn
<1>7. \/ Awaited(w)
      \/ UNCHANGED pending /\ (Then(<<r>>) \/ Then(<<r, Report(Now.of)>>))
  BY <1>4 DEF DoSendRemove
<1>8. Counted' /\ Marked' = Marked /\ Marked' \subseteq asked'
  BY <1>1, <1>3, MarkedKept DEF Counted
<1> HIDE DEF first, a, r, w
<1>9. CASE Awaited(w)
  <2>1. pending' = {w}
    BY <1>2, <1>5, <1>9, FirstAwaited
  <2> QED
    BY <1>2, <1>4, <1>5, <1>8, <2>1, ToTake
<1>10. CASE UNCHANGED pending /\ (Then(<<r>>) \/ Then(<<r, Report(Now.of)>>))
  <2>1. todo' # <<>> /\ Head(todo') = r
    BY <1>1, <1>6, <1>10, ThenOne, ThenTwo
  <2> QED
    BY <1>2, <1>4, <1>5, <1>8, <1>10, <2>1, ToTake
<1> QED
  BY <1>7, <1>9, <1>10

(* What a Remove takes away is marked, and was asked for.                   *)
LEMMA RemovesMarked ==
  ASSUME TypeInv, OneActivity, Removal, DoRemove
  PROVE  /\ pending = {}
         /\ Now.why = "asked" => Now.a \in Marked /\ Counted
         /\ Now.why # "asked" => Quiet
<1>1. ~Idle /\ Now.do = "remove"
  BY DEF DoRemove, Doing
<1>2. pending = {}
  BY <1>1, DrivesNow DEF Driving
<1> QED
  BY <1>1, <1>2 DEF Removal, Doing

LEMMA RemovalDoRemove ==
  ASSUME IpBridgeAssumption, TypeInv, TableInv, OneActivity, Removal, DoRemove, Clean' PROVE Removal'
<1> DEFINE a == Now.a
           c == Continue(Now.of)
           w == Learn("remove", pool[a].virt, Now.of)
<1>1. /\ ~Idle /\ Now.do = "remove" /\ UNCHANGED <<pool, marked>>
      /\ table' = RemoveFirst(table, a) /\ asked' = asked \ {a}
      /\ \/ learnCb' = "continue" /\ Awaited(w)
         \/ Then(<<c, Free(a)>>) /\ UNCHANGED pending
  BY DEF DoRemove, Doing, Clean
<1>2. a \in Slots /\ Now.of \in Packets /\ pending = {} /\ Marked \subseteq asked
  BY <1>1, NowIs, CallsAre, DrivesNow DEF Driving, Removal
<1>3. ToSet(table') = ToSet(table) \ {a}
  <2>1. table \in Seq(Slots) /\ Distinct(table)
    BY DEF TypeInv, AssocType, TableInv
  <2> QED
    BY <1>1, <2>1, Unlinked
<1>4. Marked' = Marked \ {a}
  BY <1>1, <1>3 DEF Marked
<1>5. Owing'
  <2>1. IsFiniteSet(Marked) /\ Cardinality(Marked) \in Nat
    BY MarkedCount
  <2>2. CASE Now.why = "asked"
    <3>1. a \in Marked /\ marked = Cardinality(Marked)
      BY <2>2, RemovesMarked DEF Counted
    <3>2. Cardinality(Marked \ {a}) = Cardinality(Marked) - 1
      BY <2>1, <3>1, FS_RemoveElement
    <3> QED
      BY <1>1, <1>4, <2>1, <3>1, <3>2 DEF Owing
  <2>3. CASE Now.why # "asked"
    BY <1>1, <1>4, <2>3, RemovesMarked DEF Quiet, Owing
  <2> QED
    BY <2>2, <2>3
<1>6. Marked' \subseteq asked'
  BY <1>1, <1>2, <1>4
<1>7. /\ c \in Calls /\ Free(a) \in Calls /\ c.do = "continue" /\ w.kind = "learn"
      /\ Copy(w, 0) = w
  BY <1>2, CallsIn, FirstCopies DEF Continue, Learn
<1> HIDE DEF a, c, w
<1>8. CASE learnCb' = "continue" /\ Awaited(w)
  <2>1. pending' = {w}
    BY <1>2, <1>7, <1>8, FirstAwaited
  <2> QED
    BY <1>2, <1>5, <1>6, <1>7, <1>8, <2>1, ToOwe
<1>9. CASE Then(<<c, Free(a)>>) /\ UNCHANGED pending
  <2>1. todo' # <<>> /\ Head(todo') = c
    BY <1>1, <1>7, <1>9, ThenTwo
  <2> QED
    BY <1>2, <1>5, <1>6, <1>7, <1>9, <2>1, ToOwe
<1> QED
  BY <1>1, <1>8, <1>9

LEMMA RemovalContinue ==
  ASSUME TypeInv, TableInv, OneActivity, Removal, DoContinue PROVE Removal'
<1> DEFINE c == SendRemove(Now.of)
           r == Report(Now.of)
<1>1. /\ ~Idle /\ Now.do = "continue" /\ UNCHANGED <<pool, table, asked, pending>>
      /\ marked' = IF marked > 0 THEN marked - 1 ELSE 0
      /\ IF marked' > 0 THEN Then(<<c>>) ELSE Then(<<r>>)
  BY DEF DoContinue, Doing
<1>2. pending = {} /\ Now.of \in Packets
  BY <1>1, DrivesNow DEF Driving
<1>3. Owing /\ Marked \subseteq asked
  BY <1>1, <1>2 DEF Removal, Doing
<1>4. Cardinality(Marked) \in Nat /\ (Cardinality(Marked) = 0 <=> Marked = {})
  BY MarkedCount
<1>5. marked' = Cardinality(Marked) /\ Marked' = Marked
  <2>1. Cardinality({}) = 0
    BY FS_EmptySet
  <2> QED
    BY <1>1, <1>3, <1>4, <2>1, MarkedKept DEF Owing
<1>6. c \in Calls /\ r \in Calls /\ c.do = "sendRemove" /\ r.do = "report"
  BY <1>2, CallsIn DEF SendRemove, Report
<1> HIDE DEF c, r
<1>7. CASE marked' > 0
  <2>1. todo' # <<>> /\ Head(todo') = c
    BY <1>1, <1>6, <1>7, ThenOne
  <2>2. Counted' /\ Marked' \subseteq asked' /\ \E a : a \in Marked'
    BY <1>1, <1>3, <1>4, <1>5, <1>7 DEF Counted
  <2> QED
    BY <1>1, <1>2, <1>6, <2>1, <2>2, ToTake
<1>8. CASE ~(marked' > 0)
  <2>1. todo' # <<>> /\ Head(todo') = r
    BY <1>1, <1>6, <1>8, ThenOne
  <2>2. marked' = 0 /\ Marked' = {}
    BY <1>4, <1>5, <1>8
  <2> QED
    BY <1>1, <1>2, <1>6, <2>1, <2>2, ToQuiet DEF Harmless
<1> QED
  BY <1>7, <1>8

(* The callbacks.                                                           *)
LEMMA RemovalQuietCallbacks ==
  ASSUME TypeInv, OneActivity, Removal, NEW w \in pending,
         TempFrameDone(w) \/ SetFrameDone(w) \/ RouteDone(w)
  PROVE  Removal'
<1> DEFINE v == Route(w.of)
<1>1. /\ Idle /\ UNCHANGED <<pool, table, marked>>
      /\ w.kind \in {"frame", "route"} /\ ~OfRemoval(w)
      /\ pending' \subseteq (pending \ {w}) \cup {v}
  BY DEF TempFrameDone, SetFrameDone, RouteDone, Fires, IsFrame, assoc, OfRemoval
<1>2. pending = {w} /\ w.of \in Packets /\ todo = <<>>
  BY <1>1, AwaitsNow
<1>3. marked = 0 /\ Marked = {}
  BY <1>1, <1>2 DEF Removal, OfChip, Quiet
<1>4. v.kind = "route" /\ ~OfRemoval(v)
  BY DEF Route, OfRemoval
<1>5. \A a : Harmless(RemoveAssoc(a, w.of, "undo")) /\ Harmless(Report(w.of))
  BY DEF RemoveAssoc, Report, Harmless
<1>6. todo' # <<>> => Harmless(Head(todo'))
  <2>1. ASSUME NEW a \in Slots \cup {None}, todo' = Abort(a, w.of) PROVE Harmless(Head(todo'))
    <3>1. Head(todo') = Report(w.of) \/ Head(todo') = RemoveAssoc(a, w.of, "undo")
      BY <1>2, <2>1, Aborting
    <3> QED
      BY <1>5, <3>1
  <2>2. ASSUME todo' = <<Report(w.of)>> PROVE Harmless(Head(todo'))
    <3>1. Head(todo') = Report(w.of)
      BY <2>2
    <3> QED
      BY <1>5, <3>1
  <2>3. CASE TempFrameDone(w)
    BY <1>2, <2>3 DEF TempFrameDone
  <2>4. CASE SetFrameDone(w)
    <3>1. w.a \in Slots
      BY <2>4 DEF SetFrameDone, IsFrame, TypeInv, FlowType
    <3> QED
      BY <1>2, <2>1, <2>4, <3>1 DEF SetFrameDone
  <2>5. CASE RouteDone(w)
    <3>1. routeFor \in Slots \cup {None}
      BY DEF TypeInv, AssocType
    <3> QED
      BY <2>1, <2>2, <2>5, <3>1 DEF RouteDone
  <2> QED
    BY <2>3, <2>4, <2>5
<1> HIDE DEF v
<1> QED
  BY <1>1, <1>2, <1>3, <1>4, <1>6, MarkedKept, ToQuiet

LEMMA RemovalRemoveFrame ==
  ASSUME TypeInv, OneActivity, Removal, NEW w \in pending, RemoveFrameDone(w), Exact'
  PROVE  Removal'
<1> DEFINE r == RemoveAssoc(w.a, w.of, "asked")
<1>1. /\ Idle /\ UNCHANGED <<pool, table, marked, asked>> /\ OfRemoval(w) /\ w.a \in Slots
      /\ pending' = pending \ {w} /\ todo' = <<r>>
  BY DEF RemoveFrameDone, Fires, IsFrame, assoc, OfRemoval, Exact, TypeInv, FlowType
<1>2. pending = {w} /\ w.of \in Packets
  BY <1>1, AwaitsNow
<1>3. w.a \in Marked /\ Counted /\ Marked \subseteq asked
  BY <1>1 DEF Removal
<1>4. Marked' = Marked /\ Counted' /\ Marked' \subseteq asked'
  BY <1>1, <1>3, MarkedKept DEF Counted
<1>5. r.do = "remove" /\ r.why = "asked" /\ r.a = w.a
  BY DEF RemoveAssoc
<1>6. todo' # <<>> /\ Head(todo') = r
  BY <1>1
<1> HIDE DEF r
<1> QED
  BY <1>1, <1>2, <1>3, <1>4, <1>5, <1>6, ToTake

LEMMA RemovalLearn ==
  ASSUME IpBridgeAssumption, TypeInv, TableInv, OneActivity, Removal, NEW w \in pending, LearnDone(w)
  PROVE  Removal'
<1>1. Idle /\ w.kind = "learn" /\ UNCHANGED <<marked, asked, learnCb>> /\ pending' = pending \ {w}
  BY DEF LearnDone, Fires
<1>2. pending' = {} /\ Marked \subseteq asked
  BY <1>1, AwaitsNow DEF Removal
<1>3. PICK p \in {w.of, addCmd.no} : p \in Packets /\
         \/ learnCb # "add" /\ p = w.of /\ todo' = <<Continue(p)>> /\ UNCHANGED <<pool, used, table>>
         \/ /\ learnCb = "add" /\ FreeSlots # {}
            /\ \E x : /\ Put(FirstFree, x) /\ Enlist(FirstFree, x) /\ ~x.mark
            /\ todo' = <<>> \/ todo' = <<SendSet(FirstFree, p)>>
         \/ /\ learnCb = "add" /\ UNCHANGED <<used, table>>
            /\ todo' = <<>> \/ todo' = <<Report(p)>>
            /\ UNCHANGED pool \/ \E x : FreeSlots # {} /\ Put(FirstFree, x)
  BY LearnCases
<1>4. Continue(p).do = "continue" /\ Report(p).do = "report" /\ SendSet(FirstFree, p).do = "sendSet"
  BY DEF Continue, Report, SendSet
<1>5. Marked' = Marked
  BY <1>3, UnmarkedStays, MarkedKept
<1>6. CASE learnCb # "add"
  <2>1. Owing
    BY <1>1, <1>6 DEF Removal, OfRemoval, OfChip
  <2>2. Owing'
    BY <1>1, <1>5, <2>1 DEF Owing
  <2>3. todo' # <<>> /\ Head(todo') = Continue(p)
    BY <1>3, <1>6
  <2> QED
    BY <1>1, <1>2, <1>4, <1>5, <2>2, <2>3, ToOwe
<1>7. CASE learnCb = "add"
  <2>1. marked = 0 /\ Marked = {}
    BY <1>1, <1>7 DEF Removal, OfRemoval, OfChip, Quiet
  <2>2. todo' # <<>> => Head(todo').do \in {"sendSet", "report"}
    <3>1. ASSUME NEW x, todo' = <<x>> PROVE Head(todo') = x
      BY <3>1
    <3> QED
      BY <1>3, <1>4, <1>7, <3>1
  <2> QED
    BY <1>1, <1>2, <1>5, <2>1, <2>2, ToQuiet DEF Harmless
<1> QED
  BY <1>6, <1>7

LEMMA RemovalStep ==
  ASSUME IpBridgeAssumption, TypeInv, TableInv, ActivityInv, RemovalInv, [Next]_vars
  PROVE  RemovalInv'
<1> SUFFICES ASSUME Exact' PROVE Removal'
  BY DEF RemovalInv
<1>0. OneActivity /\ Removal
  BY HistoryGrows, CleanBefore DEF ActivityInv, RemovalInv, Exact
<1>1. CASE TakePacket
  BY <1>0, <1>1, RemovalTakes, RemovalSet, RemovalRemove DEF TakePacket
<1>2. CASE Calling
  BY <1>0, <1>2, RemovalCompletes, RemovalSendSet, RemovalSendRemove, RemovalDoRemove,
     RemovalContinue DEF Calling, Exact
<1>3. CASE Callback
  BY <1>0, <1>3, RemovalQuietCallbacks, RemovalRemoveFrame, RemovalLearn, ChipStrays DEF Callback, Exact
<1>4. CASE NakFires \/ UNCHANGED vars
  <2>1. UNCHANGED <<pool, table, marked, asked, pending, learnCb, todo>>
    BY <1>4 DEF NakFires, vars, assoc
  <2>2. /\ Marked' = Marked /\ Counted' = Counted /\ Owing' = Owing /\ Quiet' = Quiet
        /\ Now' = Now /\ \A c : Doing(c)' = Doing(c)
        /\ \A w : OfChip(w)' = OfChip(w)
    BY <2>1 DEF Marked, Counted, Owing, Quiet, Doing, Now, Idle, OfChip
  <2> QED
    BY <1>0, <2>1, <2>2 DEF Removal, OfRemoval
<1>5. CASE \E w \in pending : ChipSilent(w)
  BY <1>5, ChipStrays DEF Exact
<1> QED
  BY <1>1, <1>2, <1>3, <1>4, <1>5 DEF Next

LEMMA RemovalInit == ASSUME Init PROVE RemovalInv
  BY DEF Init, RemovalInv, Removal, Marked, ToSet, Quiet, Doing, Idle

(* While nothing is left of earlier packets, the marks in the table are     *)
(* those of the Remove under way, and their number is right.                *)
THEOREM RemovalInvariance == Spec => []RemovalInv
<1>1. Init => RemovalInv
  BY RemovalInit
<1>2. TypeInv /\ TableInv /\ ActivityInv /\ RemovalInv /\ [Next]_vars => RemovalInv'
  BY IpBridgeAssumption, RemovalStep
<1> QED
  BY <1>1, <1>2, TypeInvariance, TableInvariance, ActivityInvariance, PTL DEF Spec

LEMMA EnlistKeeps ==
  ASSUME IpBridgeAssumption, TypeInv, TableInv, FreeSlots # {}, NEW x, Enlist(FirstFree, x)
  PROVE  ToSet(table) \subseteq ToSet(table')
<1>1. FirstFree \in Slots /\ FirstFree \notin ToSet(table)
  BY FreeIsFirst DEF TableInv
<1>2. table \in Seq(Slots) /\ Distinct(table)
  BY DEF TypeInv, AssocType, TableInv
<1> QED
  BY <1>1, <1>2, Added DEF Enlist

(* Only ip_assoc_remove takes something out of the table.                   *)
LEMMA OnlyRemoveUnlinks ==
  ASSUME IpBridgeAssumption, TypeInv, TableInv, [Next]_vars, NEW a \in ToSet(table),
         a \notin ToSet(table')
  PROVE  DoRemove /\ a = Now.a
<1>1. CASE TakePacket
  <2>1. UNCHANGED table \/ \E x : FreeSlots # {} /\ Enlist(FirstFree, x)
    BY <1>1 DEF TakePacket, TakeUndeliverable, TakeDropped, TakeVersion, TakeGet, TakeSend, TakeSet,
                TakeRemove, CreateLocal, CreateVirtual, RefuseSet, assoc
  <2> QED
    BY <2>1, EnlistKeeps
<1>2. CASE Calling
  <2>1. UNCHANGED table \/ DoRemove
    BY <1>2 DEF Calling, DoReport, DoComplete, DoSendSet, DoSendRemove, DoContinue, DoFree, assoc
  <2>2. CASE DoRemove
    <3>1. table \in Seq(Slots) /\ Distinct(table) /\ table' = RemoveFirst(table, Now.a)
      BY <2>2 DEF TypeInv, AssocType, TableInv, DoRemove
    <3>2. ToSet(table') = ToSet(table) \ {Now.a}
      BY <3>1, Unlinked
    <3> QED
      BY <2>2, <3>2
  <2> QED
    BY <2>1, <2>2
<1>3. CASE Callback
  <2>1. PICK w \in pending : \/ TempFrameDone(w) \/ SetFrameDone(w) \/ RouteDone(w)
                             \/ RemoveFrameDone(w) \/ LearnDone(w) \/ LearnUpdate(w)
    BY <1>3 DEF Callback
  <2>2. UNCHANGED table \/ \E x : FreeSlots # {} /\ Enlist(FirstFree, x)
    <3>1. LearnDone(w) => UNCHANGED table \/ \E x : FreeSlots # {} /\ Enlist(FirstFree, x)
      BY LearnCases
    <3> QED
      BY <2>1, <3>1 DEF TempFrameDone, SetFrameDone, RouteDone, RemoveFrameDone, LearnUpdate, assoc
  <2> QED
    BY <2>2, EnlistKeeps
<1>4. CASE NakFires \/ (\E w \in pending : ChipSilent(w)) \/ UNCHANGED vars
  BY <1>4 DEF NakFires, ChipSilent, vars, assoc
<1> QED
  BY <1>1, <1>2, <1>3, <1>4 DEF Next

(* A Remove takes away only associations that it named.                     *)
THEOREM RemovesWhatWasAskedHolds == Spec => RemovesWhatWasAsked
<1> DEFINE Only == \A a \in ToSet(table) :
                     /\ Clean /\ hist \cap {"stale", "failed"} = {}
                     /\ a \notin ToSet(table') /\ Now.why = "asked"
                     => a \in asked
<1>1. TypeInv /\ TableInv /\ ActivityInv /\ RemovalInv /\ [Next]_vars => [Only]_vars
  <2> SUFFICES ASSUME TypeInv, TableInv, ActivityInv, RemovalInv, [Next]_vars,
                      NEW a \in ToSet(table), Exact, a \notin ToSet(table'), Now.why = "asked"
               PROVE  a \in asked
    BY DEF Exact
  <2>1. DoRemove /\ a = Now.a
    BY IpBridgeAssumption, OnlyRemoveUnlinks
  <2>2. OneActivity /\ Removal
    BY DEF ActivityInv, RemovalInv, Exact
  <2>3. Now.a \in Marked
    BY <2>1, <2>2, RemovesMarked
  <2> QED
    BY <2>1, <2>2, <2>3 DEF Removal
<1>2. RemovesWhatWasAsked <=> [][Only]_vars
  BY DEF RemovesWhatWasAsked
<1> QED
  BY <1>1, <1>2, TypeInvariance, TableInvariance, ActivityInvariance, RemovalInvariance, PTL DEF Spec
=============================================================================
