--------------------------- MODULE SendLayerProofs ---------------------------
(* What SendLayer promises follows from its steps, so every implementation  *)
(* of it keeps the promise.                                                 *)
EXTENDS SendLayer, TLAPS

(* Until the callbacks may be confused, a frame is in the queue once, and   *)
(* only while it is accepted and not called back.                          *)
Owing ==
  /\ phase \in [Requests -> {"idle", "accepted", "refused"}]
  /\ calls \in [Requests -> {0, 1}]
  /\ queue \in Seq(Requests)
  /\ \A i \in 1..Len(queue) : phase[queue[i]] = "accepted" /\ calls[queue[i]] = 0
  /\ \A i, j \in 1..Len(queue) : queue[i] = queue[j] => i = j
  /\ \A r \in Requests : calls[r] = 1 => phase[r] = "accepted"

OwingInv == ~confused => Owing

-----------------------------------------------------------------------------
(* A queue that only lost elements holds each of the others once.           *)
LEMMA Shorter ==
  ASSUME Owing, UNCHANGED <<phase, calls>>, queue' \in Seq(Requests),
         NEW at, \A j \in 1..Len(queue') :
           at[j] \in 1..Len(queue) /\ queue'[j] = queue[at[j]],
         \A j, k \in 1..Len(queue') : at[j] = at[k] => j = k
  PROVE  Owing'
<1>1. \A j \in 1..Len(queue') : phase[queue'[j]] = "accepted" /\ calls[queue'[j]] = 0
  BY DEF Owing
<1>2. ASSUME NEW j \in 1..Len(queue'), NEW k \in 1..Len(queue'), queue'[j] = queue'[k]
      PROVE  j = k
  <2>1. queue[at[j]] = queue[at[k]] /\ at[j] \in 1..Len(queue) /\ at[k] \in 1..Len(queue)
    BY <1>2
  <2>2. at[j] = at[k]
    BY <2>1 DEF Owing
  <2> QED
    BY <2>2
<1> QED
  BY <1>1, <1>2 DEF Owing

LEMMA OwingTake == ASSUME Owing, Take PROVE Owing'
<1>1. /\ queue' \in Seq(Requests) /\ Len(queue) \in Nat \ {0}
      /\ Len(queue') = Len(queue) - 1
      /\ \A j \in 1..Len(queue) - 1 : queue'[j] = queue[j + 1]
      /\ UNCHANGED <<phase, calls>>
  BY DEF Take, Owing
<1> DEFINE at == [j \in 1..Len(queue') |-> j + 1]
<1>2. \A j \in 1..Len(queue') : at[j] \in 1..Len(queue) /\ queue'[j] = queue[at[j]]
  BY <1>1
<1>3. \A j, k \in 1..Len(queue') : at[j] = at[k] => j = k
  BY <1>1
<1> HIDE DEF at
<1> QED
  BY <1>1, <1>2, <1>3, Shorter

LEMMA OwingWithdraw == ASSUME Owing, NEW i \in 1..Len(queue), Withdraw(i) PROVE Owing'
<1> DEFINE n == Len(queue)
           a == SubSeq(queue, 1, i - 1)
           b == SubSeq(queue, i + 1, n)
<1>1. queue \in Seq(Requests) /\ n \in Nat /\ 1 <= i /\ i <= n /\ i \in Nat
  BY DEF Owing
<1>2. /\ a \in Seq(Requests) /\ Len(a) = i - 1
      /\ \A j \in 1..i - 1 : a[j] = queue[j]
  BY <1>1
<1>3. /\ b \in Seq(Requests) /\ Len(b) = n - i
      /\ \A j \in 1..n - i : b[j] = queue[i + j]
  BY <1>1
<1>4. queue' = a \o b /\ UNCHANGED <<phase, calls>>
  BY DEF Withdraw
<1> HIDE DEF a, b, n
<1>5. /\ queue' \in Seq(Requests) /\ Len(queue') = n - 1
      /\ \A j \in 1..n - 1 : queue'[j] = IF j <= i - 1 THEN a[j] ELSE b[j - (i - 1)]
  BY <1>1, <1>2, <1>3, <1>4
<1> DEFINE at == [j \in 1..n - 1 |-> IF j < i THEN j ELSE j + 1]
<1>6. ASSUME NEW j \in 1..n - 1
      PROVE  at[j] \in 1..n /\ queue'[j] = queue[at[j]]
  <2>1. CASE j < i
    BY <1>1, <1>2, <1>5, <2>1
  <2>2. CASE ~(j < i)
    <3>1. j - (i - 1) \in 1..n - i /\ i + (j - (i - 1)) = j + 1 /\ j + 1 \in 1..n
      BY <1>1, <2>2
    <3>2. b[j - (i - 1)] = queue[j + 1]
      BY <1>3, <3>1
    <3> QED
      BY <1>1, <1>5, <2>2, <3>1, <3>2
  <2> QED
    BY <2>1, <2>2
<1>7. \A j, k \in 1..n - 1 : at[j] = at[k] => j = k
  BY <1>1
<1> HIDE DEF at
<1>8. \A j \in 1..Len(queue') : at[j] \in 1..Len(queue) /\ queue'[j] = queue[at[j]]
  BY <1>5, <1>6 DEF n
<1>9. \A j, k \in 1..Len(queue') : at[j] = at[k] => j = k
  BY <1>5, <1>7
<1> QED
  BY <1>4, <1>5, <1>8, <1>9, Shorter

LEMMA OwingAccept == ASSUME Owing, NEW r \in Requests, Accept(r) PROVE Owing'
<1>1. /\ queue' \in Seq(Requests) /\ Len(queue) \in Nat
      /\ Len(queue') = Len(queue) + 1 /\ queue'[Len(queue) + 1] = r
      /\ \A i \in 1..Len(queue) : queue'[i] = queue[i] /\ queue[i] \in Requests
      /\ calls' = calls /\ phase[r] = "idle"
      /\ phase' = [phase EXCEPT ![r] = "accepted"]
  BY DEF Owing, Accept
<1>2. calls[r] = 0 /\ \A i \in 1..Len(queue) : queue[i] # r
  BY <1>1 DEF Owing
<1>3. \A i \in 1..Len(queue') : i \in 1..Len(queue) \/ i = Len(queue) + 1
  BY <1>1
<1>4. \A i \in 1..Len(queue') : phase'[queue'[i]] = "accepted" /\ calls'[queue'[i]] = 0
  BY <1>1, <1>2, <1>3 DEF Owing
<1>5. \A i, j \in 1..Len(queue') : queue'[i] = queue'[j] => i = j
  BY <1>1, <1>2, <1>3 DEF Owing
<1>6. /\ phase' \in [Requests -> {"idle", "accepted", "refused"}]
      /\ \A q \in Requests : calls'[q] = 1 => phase'[q] = "accepted"
  BY <1>1 DEF Owing
<1> QED
  BY <1>1, <1>4, <1>5, <1>6 DEF Owing

LEMMA OwingAnswer ==
  ASSUME Owing, NEW r \in Requests, Refuse(r) \/ Answer(r)
  PROVE  Owing'
<1>1. CASE Refuse(r)
  <2>1. \A i \in 1..Len(queue) : queue[i] # r /\ queue[i] \in Requests
    BY <1>1 DEF Owing, Refuse
  <2> QED
    BY <1>1, <2>1 DEF Owing, Refuse
<1>2. CASE Answer(r)
  <2>1. \A i \in 1..Len(queue) : queue[i] # r /\ queue[i] \in Requests
    BY <1>2 DEF Owing, Answer, Queued
  <2> QED
    BY <1>2, <2>1 DEF Owing, Answer
<1> QED
  BY <1>1, <1>2

(* Nobody is called back twice, for a refused frame, or while the frame     *)
(* may still be withdrawn, in every implementation of SendLayer.            *)
THEOREM PromiseKept == Spec => []Promise
<1>1. Init => OwingInv
  BY DEF Init, OwingInv, Owing
<1>2. OwingInv /\ [Next]_vars => OwingInv'
  <2>1. SUFFICES ASSUME Owing, ~confused', [Next]_vars PROVE Owing'
    BY DEF OwingInv, Next, vars
  <2>2. CASE UNCHANGED vars
    BY <2>1, <2>2 DEF vars, Owing
  <2> QED
    BY <2>1, <2>2, OwingAccept, OwingAnswer, OwingTake, OwingWithdraw DEF Next
<1>3. OwingInv => Promise
  <2>1. SUFFICES ASSUME Owing, NEW r \in Requests
                 PROVE  /\ calls[r] <= 1
                        /\ calls[r] = 1 => phase[r] = "accepted" /\ ~Queued(r)
    BY DEF OwingInv, Promise
  <2>2. calls[r] \in {0, 1} /\ \A i \in 1..Len(queue) : calls[queue[i]] = 0
    BY <2>1 DEF Owing
  <2> QED
    BY <2>1, <2>2 DEF Owing, Queued
<1> QED
  BY <1>1, <1>2, <1>3, PTL DEF Spec
=============================================================================
