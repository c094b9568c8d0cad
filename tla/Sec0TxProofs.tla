----------------------------- MODULE Sec0TxProofs -----------------------------
(* Theorems about Sec0Tx, for every number of requests, peers and sessions. *)
EXTENDS Sec0Tx, SequenceTheorems, FiniteSetTheorems, TLAPS

-----------------------------------------------------------------------------
(* A session that asks for a nonce still has a part to send with it.        *)
HasLeft(s) ==
  s.node # NoNode /\ s.state \in {"NONCE_GET", "NONCE_GET_SENT", "ENC_MSG_SENT"} => s.left >= 1
TypeInv == TypeOK /\ \A i \in Slots : HasLeft(sess[i])

(* What follows holds while no frame is stray.                              *)
Clean == \A k \in 1..Len(ll) : ~Stray(ll[k])

(* How far the message of a session is: p parts in all, of which the chip   *)
(* has confirmed a.                                                         *)
Progress(s, p, a) ==
  /\ s.state \in {"NONCE_GET", "NONCE_GET_SENT"} => s.left = p /\ a = 0
  /\ s.state = "ENC_MSG" => s.left = p - 1 /\ a = 0
  /\ s.state = "ENC_MSG_SENT" => s.left = 1 /\ p = 2 /\ a = 1
  /\ s.state = "ENC_MSG2" => s.left = 0 /\ p = 2 /\ a = 1
  /\ s.state \notin {"TX_DONE", "TX_FAIL"}

(* The frame a session in ENC_MSG waits for is on its way.                  *)
OnItsWay(i) == \E k \in 1..Len(ll) : ll[k].slot = i

(* A session is that of the frame that holds the lock, which has not been   *)
(* called back.                                                             *)
Owner ==
  /\ lock
  /\ current \in Requests
  /\ phase[current] \notin {"idle", "queued"}
  /\ calls[current] = 0
Sessioned ==
  /\ \A i \in Slots : Active(i) =>
       /\ Owner /\ phase[current] = "started" /\ sess[i].req = current
       /\ Progress(sess[i], Parts[current], acked[current])
       /\ sess[i].state = "ENC_MSG" => OnItsWay(i)
  /\ \A i \in Slots : sess[i].timer => Active(i)
  /\ \A i, j \in Slots : Active(i) /\ Active(j) => i = j
Locked ==
  lock => /\ Owner
          /\ phase[current] = "started" => \E i \in Slots : Active(i)
Queued ==
  \A r \in Requests :
    /\ phase[r] = "taken" => lock /\ current = r
    /\ phase[r] # "started" => calls[r] = 0 /\ acked[r] = 0
Told ==
  \A r \in Requests :
    /\ calls[r] <= 1
    /\ calls[r] > 0 /\ answer[r] = "OK" => acked[r] = Parts[r]

Orderly == Clean /\ Sessioned /\ Locked /\ Queued /\ Told
IInv == TypeInv /\ ("stray" \notin spoiled => Orderly)

-----------------------------------------------------------------------------
(* Types.                                                                  *)
(* The variables that sending a frame or ending a session changes.         *)
Served ==
  /\ sess \in [Slots -> Sessions] /\ \A j \in Slots : HasLeft(sess[j])
  /\ lock \in BOOLEAN /\ calls \in [Requests -> 0..2] /\ answer \in [Requests -> Codes]
  /\ wakes \in Nat /\ lost \in BOOLEAN
Answered ==
  /\ lock \in BOOLEAN /\ calls \in [Requests -> 0..2] /\ answer \in [Requests -> Codes]
  /\ wakes \in Nat /\ lost \in BOOLEAN

LEMMA PostTyped ==
  ASSUME TypeOK, NEW irq \in BOOLEAN, PostNext(irq)
  PROVE  wakes' \in Nat /\ lost' \in BOOLEAN
BY DEF PostNext, TypeOK

LEMMA CompleteTyped ==
  ASSUME TypeOK, NEW r, NEW code \in Codes, NEW irq \in BOOLEAN, Complete(r, code, irq),
         r \in Requests \cup {NoReq}
  PROVE  Answered'
<1>1. CASE r = NoReq \/ ~lock
  BY <1>1 DEF Complete, TypeOK, applVars, Answered
<1>2. CASE ~(r = NoReq \/ ~lock)
  <2>1. /\ lock' = FALSE
        /\ PostNext(irq)
        /\ \E q \in {r, current} :
             /\ calls' = [calls EXCEPT ![q] = IF @ < 2 THEN @ + 1 ELSE @]
             /\ answer' = [answer EXCEPT ![q] = code]
    BY <1>2 DEF Complete
  <2>2. PICK q : /\ calls' = [calls EXCEPT ![q] = IF @ < 2 THEN @ + 1 ELSE @]
                 /\ answer' = [answer EXCEPT ![q] = code]
    BY <2>1
  <2>3. \A c \in 0..2 : (IF c < 2 THEN c + 1 ELSE c) \in 0..2
    OBVIOUS
  <2>4. calls' \in [Requests -> 0..2]
    BY <2>2, <2>3 DEF TypeOK
  <2>5. answer' \in [Requests -> Codes]
    BY <2>2 DEF TypeOK
  <2> QED
    BY <2>1, <2>4, <2>5, PostTyped DEF Answered
<1> QED
  BY <1>1, <1>2

LEMMA EnterTyped ==
  ASSUME TypeInv, NEW i \in Slots, NEW s \in Sessions, HasLeft(s), Enter(i, s)
  PROVE  sess' \in [Slots -> Sessions] /\ \A j \in Slots : HasLeft(sess'[j])
BY DEF TypeInv, TypeOK, Enter

LEMMA FinishTyped ==
  ASSUME TypeInv, NEW i \in Slots, NEW s \in Sessions, NEW state \in {"TX_DONE", "TX_FAIL"},
         NEW code \in Codes, NEW irq \in BOOLEAN, Finish(i, s, state, code, irq)
  PROVE  Served'
<1> DEFINE z == [s EXCEPT !.node = NoNode, !.state = state, !.timer = FALSE]
<1>1. z \in Sessions /\ HasLeft(z)
  BY DEF Sessions, States, HasLeft
<1>2. Enter(i, z) /\ Complete(s.req, code, irq)
  BY DEF Finish
<1>3. s.req \in Requests \cup {NoReq}
  BY DEF Sessions
<1> HIDE DEF z
<1> QED
  BY <1>1, <1>2, <1>3, EnterTyped, CompleteTyped DEF TypeInv, Served, Answered

(* A session goes on in state s with a frame sent, or is given up.          *)
LEMMA SendTyped ==
  ASSUME TypeInv, NEW i \in Slots, NEW s \in Sessions, NEW z \in Sessions, HasLeft(z),
         NEW cb \in {"nonce_get", "msg1", "msg2"}, NEW asks \in BOOLEAN,
         SendData(i, z, cb, asks) \/ (TxError(i, s, FALSE) /\ UNCHANGED llVars)
  PROVE  Served' /\ ll' \in Seq(Frames) /\ lostLL' \in BOOLEAN
<1>1. CASE SendData(i, z, cb, asks)
  <2> DEFINE f == [cb |-> cb, slot |-> i, req |-> z.req, asks |-> asks, heard |-> FALSE]
  <2>1. f \in Frames
    BY DEF Frames, Sessions
  <2>2. ll' = Append(ll, f) /\ Enter(i, z) /\ lostLL' = FALSE /\ UNCHANGED applVars
    BY <1>1 DEF SendData
  <2> HIDE DEF f
  <2>3. sess' \in [Slots -> Sessions] /\ \A j \in Slots : HasLeft(sess'[j])
    BY <2>2, EnterTyped
  <2>4. ll' \in Seq(Frames)
    BY <2>1, <2>2 DEF TypeInv, TypeOK
  <2> QED
    BY <2>2, <2>3, <2>4 DEF TypeInv, TypeOK, applVars, Served
<1>2. CASE TxError(i, s, FALSE) /\ UNCHANGED llVars
  <2> DEFINE e == [s EXCEPT !.code = "FAIL"]
  <2>1. e \in Sessions
    BY DEF Sessions, Codes
  <2>2. Finish(i, e, "TX_FAIL", "FAIL", FALSE)
    BY <1>2 DEF TxError
  <2> HIDE DEF e
  <2>3. Served'
    BY <2>1, <2>2, FinishTyped DEF Codes
  <2> QED
    BY <1>2, <2>3 DEF TypeInv, TypeOK, llVars
<1> QED
  BY <1>1, <1>2

LEMMA SessionTyped ==
  ASSUME TypeInv, NEW i \in Slots
  PROVE  /\ sess[i] \in Sessions /\ HasLeft(sess[i])
         /\ Active(i) => sess[i].node \in Peers
BY DEF TypeInv, TypeOK, Sessions, Active

LEMMA SpoilTyped == ASSUME TypeOK, Spoil PROVE spoiled' \subseteq {"stray", "untimed"}
BY DEF Spoil, TypeOK

LEMMA TypeTcpip == ASSUME TypeInv, Tcpip, Spoil PROVE TypeInv'
<1> USE DEF applVars, airVars
<1>0. spoiled' \subseteq {"stray", "untimed"}
  BY SpoilTyped DEF TypeInv
<1>1. ASSUME NEW r \in Requests, Take(r) PROVE TypeInv'
  <2>1. wakes' \in Nat
    BY <1>1 DEF Take, TypeInv, TypeOK
  <2> QED
    BY <1>0, <1>1, <2>1 DEF Take, TypeInv, TypeOK, llVars, Phases
<1>2. ASSUME NEW r \in Requests, Start(r) PROVE TypeInv'
  <2>1. /\ phase' \in [Requests -> Phases]
        /\ UNCHANGED <<current, asked, acked, learn>>
    BY <1>2 DEF Start, TypeInv, TypeOK, Phases
  <2>2. Served' /\ ll' \in Seq(Frames) /\ lostLL' \in BOOLEAN
    <3>1. CASE Complete(r, "FAIL", FALSE) /\ UNCHANGED <<sess, llVars>>
      <4>1. Answered'
        BY <3>1, CompleteTyped DEF TypeInv, Codes
      <4> QED
        BY <3>1, <4>1 DEF TypeInv, TypeOK, Served, Answered, llVars
    <3>2. ASSUME NEW i \in Slots,
                 NonceGet(i, [sess[i] EXCEPT !.node = Dest[r], !.req = r, !.left = Parts[r]])
          PROVE  Served' /\ ll' \in Seq(Frames) /\ lostLL' \in BOOLEAN
      <4> DEFINE s == [sess[i] EXCEPT !.node = Dest[r], !.req = r, !.left = Parts[r]]
                 z == [s EXCEPT !.state = "NONCE_GET", !.timer = learn]
      <4>1. s \in Sessions /\ s.left >= 1
        <5>1. Dest[r] \in Peers /\ Parts[r] \in 1..2
          BY Sec0TxAssumption
        <5>2. sess[i] \in Sessions
          BY SessionTyped
        <5>3. Parts[r] \in 0..2 /\ Parts[r] >= 1
          BY <5>1
        <5>4. s \in Sessions
          BY <5>1, <5>2, <5>3 DEF Sessions
        <5>5. s.left = Parts[r]
          BY <5>2 DEF Sessions
        <5> HIDE DEF s
        <5> QED
          BY <5>3, <5>4, <5>5
      <4>2. z \in Sessions /\ HasLeft(z)
        BY <4>1 DEF Sessions, States, HasLeft, TypeInv, TypeOK
      <4>3. SendData(i, z, "nonce_get", TRUE) \/ (TxError(i, s, FALSE) /\ UNCHANGED llVars)
        BY <3>2 DEF NonceGet
      <4> HIDE DEF s, z
      <4> QED
        BY <4>1, <4>2, <4>3, SendTyped
    <3> QED
      BY <1>2, <3>1, <3>2 DEF Start
  <2> QED
    BY <1>0, <2>1, <2>2 DEF TypeInv, TypeOK, Served
<1>3. CASE StartNothing
  <2>1. wakes' \in Nat /\ current' \in Requests \cup {NoReq}
    BY <1>3 DEF StartNothing, TypeInv, TypeOK
  <2> QED
    BY <1>0, <1>3, <2>1 DEF StartNothing, TypeInv, TypeOK, llVars
<1> QED
  BY <1>1, <1>2, <1>3 DEF Tcpip

LEMMA TypeSubmit == ASSUME TypeInv, NEW r \in Requests, Submit(r), Spoil PROVE TypeInv'
<1>1. spoiled' \subseteq {"stray", "untimed"}
  BY SpoilTyped DEF TypeInv
<1>2. wakes' \in Nat /\ lost' \in BOOLEAN
  BY PostTyped DEF Submit, TypeInv
<1>3. phase' \in [Requests -> Phases]
  BY DEF Submit, TypeInv, TypeOK, Phases
<1> QED
  BY <1>1, <1>2, <1>3 DEF Submit, TypeInv, TypeOK, llVars, airVars

(* What a completion makes of the session it is given.                      *)
LEMMA CallbackTyped ==
  ASSUME TypeInv, NEW i \in Slots, NEW s \in Sessions, HasLeft(s), NEW irq \in BOOLEAN,
         \/ s.state = "NONCE_GET" /\ NonceGetSent(i, s)
         \/ TxFail(i, s, irq) \/ TxDone(i, s) \/ EncMsgSent(i, s)
  PROVE  Served'
<1>0. s.code \in Codes /\ "OK" \in Codes
  BY DEF Sessions, Codes
<1>1. CASE s.state = "NONCE_GET" /\ NonceGetSent(i, s)
  <2> DEFINE z == [s EXCEPT !.state = "NONCE_GET_SENT", !.timer = ~learn]
  <2>1. z \in Sessions /\ HasLeft(z)
    BY <1>1 DEF Sessions, States, HasLeft, TypeInv, TypeOK
  <2>2. Enter(i, z) /\ UNCHANGED applVars
    BY <1>1 DEF NonceGetSent
  <2> HIDE DEF z
  <2> QED
    BY <2>1, <2>2, EnterTyped DEF TypeInv, TypeOK, Served, applVars
<1>2. CASE TxFail(i, s, irq)
  BY <1>0, <1>2, FinishTyped DEF TxFail
<1>3. CASE TxDone(i, s)
  BY <1>0, <1>3, FinishTyped DEF TxDone
<1>4. CASE EncMsgSent(i, s)
  <2>1. CASE s.left = 0
    BY <1>0, <1>4, <2>1, FinishTyped DEF EncMsgSent, TxDone
  <2>2. CASE s.left # 0
    <3> DEFINE z == [s EXCEPT !.state = "ENC_MSG_SENT", !.timer = TRUE]
    <3>1. z \in Sessions /\ HasLeft(z)
      <4>1. s.left >= 1
        BY <2>2 DEF Sessions
      <4> QED
        BY <4>1 DEF Sessions, States, HasLeft
    <3>2. Enter(i, z) /\ UNCHANGED applVars
      BY <1>4, <2>2 DEF EncMsgSent
    <3> HIDE DEF z
    <3> QED
      BY <3>1, <3>2, EnterTyped DEF TypeInv, TypeOK, Served, applVars
  <2> QED
    BY <2>1, <2>2
<1> QED
  BY <1>1, <1>2, <1>3, <1>4

LEMMA HeadIsFrame ==
  ASSUME NEW S, NEW q \in Seq(S), q # <<>>
  PROVE  Head(q) \in S /\ Tail(q) \in Seq(S)
OBVIOUS

LEMMA AskedTyped ==
  ASSUME TypeOK, NEW f \in Frames
  PROVE  AskedBy(f) \in [Peers -> 0..MaxAsked]
<1>1. CASE f.asks /\ f.req \in Requests /\ asked[Dest[f.req]] < MaxAsked
  <2>1. Dest[f.req] \in Peers /\ MaxAsked \in Nat
    BY <1>1, Sec0TxAssumption
  <2>2. asked[Dest[f.req]] + 1 \in 0..MaxAsked
    BY <1>1, <2>1 DEF TypeOK
  <2> QED
    BY <1>1, <2>1, <2>2 DEF AskedBy, TypeOK
<1>2. CASE ~(f.asks /\ f.req \in Requests /\ asked[Dest[f.req]] < MaxAsked)
  BY <1>2 DEF AskedBy, TypeOK
<1> QED
  BY <1>1, <1>2

LEMMA TypeDone == ASSUME TypeInv, Done, Spoil PROVE TypeInv'
<1>0. spoiled' \subseteq {"stray", "untimed"}
  BY SpoilTyped DEF TypeInv
<1>1. PICK ok \in BOOLEAN, irq \in BOOLEAN : SendDone(ok, irq)
  BY DEF Done
<1> DEFINE f == Head(ll)
           i == f.slot
           s == [sess[i] EXCEPT !.code = Status(ok)]
<1>2. /\ f \in Frames /\ ll' \in Seq(Frames) /\ lostLL' \in BOOLEAN
      /\ UNCHANGED <<phase, current, learn>>
  BY <1>1, HeadIsFrame DEF SendDone, TypeInv, TypeOK
<1>3. i \in Slots /\ f.cb \in {"nonce_get", "msg1", "msg2"}
  BY <1>2 DEF Frames
<1>4. asked' \in [Peers -> 0..MaxAsked]
  <2>1. asked' = AskedBy(f) \/ asked' = asked
    BY <1>1 DEF SendDone
  <2> QED
    BY <1>2, <2>1, AskedTyped DEF TypeInv, TypeOK
<1>5. acked' \in [Requests -> Nat]
  <2>1. acked' = [acked EXCEPT ![f.req] = @ + 1] \/ acked' = acked
    BY <1>1 DEF SendDone
  <2>2. acked \in [Requests -> Nat]
    BY DEF TypeInv, TypeOK
  <2> QED
    BY <2>1, <2>2
<1> HIDE DEF f
<1>6. /\ sess[i] \in Sessions /\ HasLeft(sess[i])
      /\ s \in Sessions /\ HasLeft(s) /\ s.state = sess[i].state
  <2>1. sess[i] \in Sessions /\ HasLeft(sess[i])
    BY <1>3, SessionTyped
  <2>2. Status(ok) \in Codes
    BY DEF Status, Codes
  <2> QED
    BY <2>1, <2>2 DEF Sessions, HasLeft
<1>7. /\ f.cb = "nonce_get" => noce_get_callback(i, ok, irq)
      /\ f.cb = "msg1" => msg1_callback(i, ok, irq)
      /\ f.cb = "msg2" => msg2_callback(i, ok, irq)
  BY <1>1, <1>3 DEF SendDone, f
<1>8. \/ s.state = "NONCE_GET" /\ NonceGetSent(i, s)
      \/ TxFail(i, s, irq) \/ TxFail(i, sess[i], irq) \/ TxDone(i, s) \/ EncMsgSent(i, s)
  <2>1. CASE f.cb = "nonce_get"
    BY <1>7, <2>1 DEF noce_get_callback
  <2>2. CASE f.cb = "msg1"
    BY <1>7, <2>2 DEF msg1_callback
  <2>3. CASE f.cb = "msg2"
    BY <1>7, <2>3 DEF msg2_callback
  <2> QED
    BY <1>3, <2>1, <2>2, <2>3
<1> HIDE DEF s, i
<1>9. Served'
  BY <1>3, <1>6, <1>8, CallbackTyped
<1> QED
  BY <1>0, <1>2, <1>4, <1>5, <1>9 DEF TypeInv, TypeOK, Served

(* A session that a report lets go on has a part to send.                  *)
LEMMA ReportTo ==
  ASSUME TypeInv, NEW n \in Peers, NonceReport(n), ~UNCHANGED <<sess, llVars, applVars>>
  PROVE  \E i \in Slots :
           /\ Active(i) /\ sess[i].left >= 1
           /\ \/ /\ sess[i].state \in {"NONCE_GET", "NONCE_GET_SENT"}
                 /\ EncMsg(i, sess[i], "ENC_MSG", "msg1")
              \/ /\ sess[i].state \in {"ENC_MSG_SENT", "ENC_MSG"}
                 /\ EncMsg(i, sess[i], "ENC_MSG2", "msg2")
<1>1. PICK i \in ToNode(n) :
        LET s == sess[i]
        IN  CASE s.state \in {"NONCE_GET", "NONCE_GET_SENT"} ->
                   EncMsg(i, s, "ENC_MSG", "msg1")
              [] s.state = "ENC_MSG_SENT" \/ (s.state = "ENC_MSG" /\ s.left > 0) ->
                   EncMsg(i, s, "ENC_MSG2", "msg2")
              [] OTHER -> UNCHANGED <<sess, llVars, applVars>>
  BY DEF NonceReport
<1>2. i \in Slots /\ Active(i)
  BY Sec0TxAssumption DEF ToNode, Active
<1>3. sess[i] \in Sessions /\ HasLeft(sess[i])
  BY <1>2, SessionTyped
<1>4. sess[i].state \in {"NONCE_GET", "NONCE_GET_SENT", "ENC_MSG_SENT"} => sess[i].left >= 1
  BY <1>2, <1>3 DEF HasLeft, Active
<1>5. sess[i].left > 0 => sess[i].left >= 1
  BY <1>3 DEF Sessions
<1>6. CASE sess[i].state \in {"NONCE_GET", "NONCE_GET_SENT"}
  BY <1>1, <1>2, <1>4, <1>6
<1>7. CASE sess[i].state = "ENC_MSG_SENT" \/ (sess[i].state = "ENC_MSG" /\ sess[i].left > 0)
  BY <1>1, <1>2, <1>4, <1>5, <1>7
<1> QED
  BY <1>1, <1>6, <1>7

(* What encrypt_msg leaves of a session that has a part to send.           *)
LEMMA EncTyped ==
  ASSUME TypeInv, NEW i \in Slots, NEW state \in {"ENC_MSG", "ENC_MSG2"},
         NEW cb \in {"msg1", "msg2"}, EncMsg(i, sess[i], state, cb), sess[i].left >= 1
  PROVE  Served' /\ ll' \in Seq(Frames) /\ lostLL' \in BOOLEAN
<1> DEFINE s == sess[i]
           z == [s EXCEPT !.state = state, !.timer = FALSE, !.left = @ - 1]
<1>1. s \in Sessions
  BY SessionTyped
<1>2. z \in Sessions /\ HasLeft(z)
  <2>1. s.left - 1 \in 0..2
    BY <1>1 DEF Sessions
  <2> HIDE DEF s
  <2> QED
    BY <1>1, <2>1 DEF Sessions, States, HasLeft
<1>3. PICK more \in BOOLEAN :
        SendData(i, z, cb, more) \/ (TxError(i, s, FALSE) /\ UNCHANGED llVars)
  <2> DEFINE m == s.left > 1
  <2>1. m \in BOOLEAN
    OBVIOUS
  <2>2. SendData(i, z, cb, m) \/ (TxError(i, s, FALSE) /\ UNCHANGED llVars)
    BY DEF EncMsg
  <2> HIDE DEF m, s, z
  <2> QED
    BY <2>1, <2>2
<1> HIDE DEF s, z
<1> QED
  BY <1>1, <1>2, <1>3, SendTyped

LEMMA TypeReport == ASSUME TypeInv, NEW n \in Peers, NonceReport(n), Spoil PROVE TypeInv'
<1> USE DEF applVars
<1>1. spoiled' \subseteq {"stray", "untimed"}
  BY SpoilTyped DEF TypeInv
<1>2. UNCHANGED <<phase, current, learn, acked>> /\ asked' \in [Peers -> 0..MaxAsked]
  <2>1. asked' = [asked EXCEPT ![n] = @ - 1] /\ asked[n] > 0
    BY DEF NonceReport
  <2>2. asked[n] - 1 \in 0..MaxAsked
    BY <2>1, Sec0TxAssumption DEF TypeInv, TypeOK
  <2> QED
    BY <2>1, <2>2 DEF NonceReport, TypeInv, TypeOK
<1>3. Served' /\ ll' \in Seq(Frames) /\ lostLL' \in BOOLEAN
  <2>1. CASE UNCHANGED <<sess, llVars, applVars>>
    BY <2>1 DEF TypeInv, TypeOK, Served, llVars
  <2>2. CASE ~UNCHANGED <<sess, llVars, applVars>>
    BY <2>2, ReportTo, EncTyped
  <2> QED
    BY <2>1, <2>2
<1> QED
  BY <1>1, <1>2, <1>3 DEF TypeInv, TypeOK, Served

LEMMA TypeTimeout == ASSUME TypeInv, Timeout, Spoil PROVE TypeInv'
<1> USE DEF applVars, airVars
<1>1. spoiled' \subseteq {"stray", "untimed"}
  BY SpoilTyped DEF TypeInv
<1>2. PICK i \in Slots : tx_timeout(i)
  BY DEF Timeout
<1> DEFINE e == [sess[i] EXCEPT !.code = "FAIL"]
<1>3. e \in Sessions /\ "FAIL" \in Codes
  BY SessionTyped DEF Sessions, Codes
<1>4. /\ Finish(i, e, "TX_FAIL", "FAIL", TRUE)
      /\ UNCHANGED <<phase, current, ll, lostLL, asked, acked, learn>>
  BY <1>2 DEF tx_timeout, TxError, llVars
<1> HIDE DEF e
<1>5. Served'
  BY <1>3, <1>4, FinishTyped
<1> QED
  BY <1>1, <1>4, <1>5 DEF TypeInv, TypeOK, Served

(* A frame the peer has heard is the same otherwise.                       *)
LEMMA HeardHead ==
  ASSUME TypeOK, Heard
  PROVE  /\ ll' \in Seq(Frames) /\ Len(ll') = Len(ll)
         /\ \A k \in 1..Len(ll) : ll'[k].slot = ll[k].slot
<1>1. ll # <<>> /\ ll' = [ll EXCEPT ![1].heard = TRUE] /\ ll \in Seq(Frames)
  BY DEF Heard, TypeOK
<1> DEFINE f == [ll[1] EXCEPT !.heard = TRUE]
<1>2. ll' = [ll EXCEPT ![1] = f]
  BY <1>1
<1>3. 1 \in 1..Len(ll) /\ ll[1] \in Frames
  BY <1>1
<1>4. f \in Frames /\ f.slot = ll[1].slot
  BY <1>3 DEF Frames
<1> HIDE DEF f
<1>5. /\ [ll EXCEPT ![1] = f] \in Seq(Frames) /\ Len([ll EXCEPT ![1] = f]) = Len(ll)
      /\ \A k \in 1..Len(ll) : [ll EXCEPT ![1] = f][k] = IF k = 1 THEN f ELSE ll[k]
  BY <1>1, <1>3, <1>4, ExceptSeq
<1> QED
  BY <1>2, <1>4, <1>5

LEMMA TypeHeard == ASSUME TypeInv, Heard, Spoil PROVE TypeInv'
<1> USE DEF applVars
<1>1. spoiled' \subseteq {"stray", "untimed"}
  BY SpoilTyped DEF TypeInv
<1>2. ll' \in Seq(Frames)
  BY HeardHead DEF TypeInv
<1>3. asked' \in [Peers -> 0..MaxAsked]
  <2>1. Head(ll) \in Frames
    BY HeadIsFrame DEF Heard, TypeInv, TypeOK
  <2> QED
    BY <2>1, AskedTyped DEF Heard, TypeInv
<1> QED
  BY <1>1, <1>2, <1>3 DEF Heard, TypeInv, TypeOK

LEMMA TypeStep == ASSUME TypeInv, [Next]_vars PROVE TypeInv'
<1>1. CASE UNCHANGED vars
  BY <1>1 DEF vars, applVars, llVars, airVars, TypeInv, TypeOK
<1>2. CASE LearnMode /\ Spoil
  <2>1. spoiled' \subseteq {"stray", "untimed"}
    BY <1>2, SpoilTyped DEF TypeInv
  <2> QED
    BY <1>2, <2>1 DEF LearnMode, TypeInv, TypeOK, applVars, airVars, llVars
<1> QED
  BY <1>1, <1>2, TypeSubmit, TypeTcpip, TypeDone, TypeTimeout, TypeHeard, TypeReport DEF Next, Step

LEMMA TypeInit == ASSUME Init PROVE TypeInv
<1>1. Zeroed \in Sessions /\ HasLeft(Zeroed)
  BY DEF Zeroed, Sessions, States, Codes, HasLeft
<1>2. sess \in [Slots -> Sessions] /\ \A i \in Slots : HasLeft(sess[i])
  BY <1>1 DEF Init
<1>3. 0 \in 0..MaxAsked
  BY Sec0TxAssumption
<1>4. /\ phase \in [Requests -> Phases] /\ lock \in BOOLEAN
      /\ current \in Requests \cup {NoReq} /\ learn \in BOOLEAN
      /\ answer \in [Requests -> Codes] /\ spoiled \subseteq {"stray", "untimed"}
      /\ wakes \in Nat /\ lost \in BOOLEAN /\ lostLL \in BOOLEAN
  BY DEF Init, Codes, Phases
<1>6. ll \in Seq(Frames)
  BY DEF Init
<1>7. calls \in [Requests -> 0..2] /\ acked \in [Requests -> Nat]
  BY DEF Init
<1>5. asked \in [Peers -> 0..MaxAsked]
  BY <1>3 DEF Init
<1> QED
  BY <1>2, <1>4, <1>5, <1>6, <1>7 DEF TypeInv, TypeOK

(* Every state is typed, a session never takes a part of a message it has  *)
(* not got, stray frame or not.                                            *)
THEOREM TypeInvariance == Spec => []TypeInv
<1>1. Init => TypeInv
  BY TypeInit
<1>2. TypeInv /\ [Next]_vars => TypeInv'
  BY TypeStep
<1> QED
  BY <1>1, <1>2, PTL DEF Spec

THEOREM TypeCorrect == Spec => []TypeOK
<1>1. TypeInv => TypeOK
  BY DEF TypeInv
<1> QED
  BY <1>1, TypeInvariance, PTL

-----------------------------------------------------------------------------
(* Order, while no frame is stray.                                         *)
LEMMA StillClean ==
  ASSUME Spoil, "stray" \notin spoiled'
  PROVE  Clean' /\ "stray" \notin spoiled
BY DEF Spoil, Clean

(* The session of the frame that holds the lock ends, and its sender is     *)
(* called back.                                                             *)
LEMMA Ends ==
  ASSUME TypeInv, Sessioned, Queued, Told, Owner,
         NEW i \in Slots, \A j \in Slots : Active(j) => j = i,
         NEW s \in Sessions, s.req = current,
         NEW state, NEW code, NEW irq, Finish(i, s, state, code, irq),
         current' = current,
         \A r \in Requests : phase'[r] = IF r = current THEN "started" ELSE phase[r],
         \A r \in Requests : r # current => acked'[r] = acked[r],
         code = "OK" => acked'[current] = Parts[current]
  PROVE  Sessioned' /\ Locked' /\ Queued' /\ Told'
<1> DEFINE z == [s EXCEPT !.node = NoNode, !.state = state, !.timer = FALSE]
<1>1. sess' = [sess EXCEPT ![i] = z] /\ Complete(current, code, irq) /\ sess \in [Slots -> Sessions]
  BY DEF Finish, Enter, TypeInv, TypeOK
<1>2. z.node = NoNode /\ z.timer = FALSE
  BY DEF Sessions
<1> HIDE DEF z
<1>3. ASSUME NEW j \in Slots PROVE ~Active(j)' /\ ~sess'[j].timer
  <2>1. CASE j = i
    BY <1>1, <1>2, <2>1 DEF Active
  <2>2. CASE j # i
    BY <1>1, <2>2 DEF Active, Sessioned
  <2> QED
    BY <2>1, <2>2
<1>4. current \in Requests /\ calls[current] = 0 /\ lock /\ current # NoReq
  BY DEF Owner, Requests, NoReq
<1>5. /\ lock' = FALSE
      /\ calls' = [calls EXCEPT ![current] = 1]
      /\ answer' = [answer EXCEPT ![current] = code]
  BY <1>1, <1>4 DEF Complete
<1>6. Sessioned'
  BY <1>3 DEF Sessioned
<1>7. Locked'
  BY <1>5 DEF Locked
<1>8. ASSUME NEW r \in Requests
      PROVE  /\ phase'[r] # "taken"
             /\ phase'[r] # "started" => calls'[r] = 0 /\ acked'[r] = 0
             /\ calls'[r] <= 1
             /\ calls'[r] > 0 /\ answer'[r] = "OK" => acked'[r] = Parts[r]
  <2>1. CASE r = current
    BY <1>4, <1>5, <2>1 DEF TypeInv, TypeOK
  <2>2. CASE r # current
    <3>1. phase'[r] = phase[r] /\ acked'[r] = acked[r] /\ calls'[r] = calls[r] /\ answer'[r] = answer[r]
      BY <1>4, <1>5, <2>2 DEF TypeInv, TypeOK
    <3> QED
      BY <2>2, <3>1 DEF Queued, Told
  <2> QED
    BY <2>1, <2>2
<1> QED
  BY <1>6, <1>7, <1>8 DEF Queued, Told

(* The session of the frame that holds the lock goes on.                   *)
LEMMA Goes ==
  ASSUME TypeInv, Sessioned, Queued, Told, Owner,
         NEW i \in Slots, \A j \in Slots : Active(j) => j = i,
         NEW z \in Sessions, z.node # NoNode, z.req = current, Enter(i, z),
         UNCHANGED applVars, current' = current,
         \A r \in Requests : phase'[r] = IF r = current THEN "started" ELSE phase[r],
         \A r \in Requests : r # current => acked'[r] = acked[r],
         Progress(z, Parts[current], acked'[current]),
         z.state = "ENC_MSG" => OnItsWay(i)'
  PROVE  Sessioned' /\ Locked' /\ Queued' /\ Told'
<1> USE DEF applVars
<1>1. sess' = [sess EXCEPT ![i] = z] /\ sess \in [Slots -> Sessions]
  BY DEF Enter, TypeInv, TypeOK
<1>2. /\ sess'[i] = z
      /\ \A j \in Slots : j # i => ~Active(j)' /\ ~sess'[j].timer
  BY <1>1 DEF Active, Sessioned
<1>3. Owner' /\ phase'[current] = "started" /\ Active(i)'
  BY <1>2 DEF Owner, Active
<1>4. Sessioned'
  BY <1>2, <1>3 DEF Sessioned
<1>5. Locked'
  BY <1>3 DEF Locked
<1>6. ASSUME NEW r \in Requests
      PROVE  /\ phase'[r] # "taken"
             /\ phase'[r] # "started" => calls'[r] = 0 /\ acked'[r] = 0
             /\ calls'[r] <= 1
             /\ calls'[r] > 0 /\ answer'[r] = "OK" => acked'[r] = Parts[r]
  <2>1. CASE r = current
    BY <2>1 DEF Owner
  <2>2. CASE r # current
    BY <2>2 DEF Queued, Told
  <2> QED
    BY <2>1, <2>2
<1> QED
  BY <1>4, <1>5, <1>6 DEF Queued, Told

(* Nothing happens to the sessions and their frames.                       *)
LEMMA Stays ==
  ASSUME Orderly, UNCHANGED <<sess, lock, calls, answer, current, phase, acked>>,
         \A i \in Slots : OnItsWay(i) => OnItsWay(i)'
  PROVE  Sessioned' /\ Locked' /\ Queued' /\ Told'
BY DEF Orderly, Sessioned, Locked, Queued, Told, Owner, Active

LEMMA OrderTcpip ==
  ASSUME TypeInv, Orderly, Tcpip
  PROVE  Sessioned' /\ Locked' /\ Queued' /\ Told'
<1> USE DEF applVars, airVars
<1>1. ASSUME NEW r \in Requests, Take(r) PROVE Sessioned' /\ Locked' /\ Queued' /\ Told'
  <2>1. /\ ~lock /\ phase[r] = "queued" /\ phase' = [phase EXCEPT ![r] = "taken"]
        /\ lock' /\ current' = r /\ UNCHANGED <<sess, acked, calls, answer>>
    BY <1>1 DEF Take
  <2>2. calls[r] = 0 /\ acked[r] = 0
    BY <2>1 DEF Orderly, Queued
  <2>3. \A i \in Slots : ~Active(i) /\ ~sess[i].timer
    BY <2>1 DEF Orderly, Sessioned, Owner
  <2>4. phase'[r] = "taken" /\ \A q \in Requests : q # r => phase'[q] = phase[q]
    BY <2>1 DEF TypeInv, TypeOK
  <2>5. Sessioned'
    BY <2>1, <2>3 DEF Sessioned, Active
  <2>6. Locked'
    BY <2>1, <2>2, <2>4 DEF Locked, Owner
  <2>7. Queued' /\ Told'
    BY <2>1, <2>2, <2>4 DEF Orderly, Queued, Told
  <2> QED
    BY <2>5, <2>6, <2>7
<1>3. CASE StartNothing
  <2>1. CASE lock
    BY <1>3, <2>1, Stays DEF StartNothing, OnItsWay, llVars
  <2>2. CASE ~lock
    <3>1. /\ \A i \in Slots : ~Active(i) /\ ~sess[i].timer
      BY <2>2 DEF Orderly, Sessioned, Owner
    <3>2. Sessioned'
      BY <1>3, <3>1 DEF StartNothing, Sessioned, Active
    <3>3. Locked' /\ Queued' /\ Told'
      BY <1>3, <2>2 DEF StartNothing, Orderly, Locked, Queued, Told
    <3> QED
      BY <3>2, <3>3
  <2> QED
    BY <2>1, <2>2
<1>2. ASSUME NEW r \in Requests, Start(r) PROVE Sessioned' /\ Locked' /\ Queued' /\ Told'
  <2>1. /\ phase[r] = "taken" /\ phase' = [phase EXCEPT ![r] = "started"]
        /\ UNCHANGED <<current, acked>>
    BY <1>2 DEF Start
  <2>2. lock /\ current = r /\ Owner /\ calls[r] = 0 /\ acked[r] = 0
    BY <2>1 DEF Orderly, Queued, Locked
  <2>3. \A i \in Slots : ~Active(i)
    BY <2>1, <2>2 DEF Orderly, Sessioned
  <2>4. \A q \in Requests : phase'[q] = IF q = current THEN "started" ELSE phase[q]
    BY <2>1, <2>2 DEF TypeInv, TypeOK
  <2>5. ToNode(Dest[r]) = {} /\ \E i \in Slots : ~Active(i)
    <3>1. Dest[r] # NoNode /\ 1 \in Slots
      BY Sec0TxAssumption DEF Slots
    <3> QED
      BY <2>3, <3>1 DEF ToNode, Active
  <2> DEFINE s(i) == [sess[i] EXCEPT !.node = Dest[r], !.req = r, !.left = Parts[r]]
  <2>6. PICK i \in Slots : NonceGet(i, s(i))
    BY <1>2, <2>5 DEF Start
  <2>7. /\ s(i) \in Sessions /\ s(i).req = r /\ s(i).node # NoNode /\ s(i).left = Parts[r]
    <3>1. Dest[r] \in Peers /\ Parts[r] \in 1..2 /\ Dest[r] # NoNode
      BY Sec0TxAssumption
    <3>2. Parts[r] \in 0..2 /\ sess[i] \in Sessions
      BY <3>1, SessionTyped
    <3> QED
      BY <3>1, <3>2 DEF Sessions
  <2>8. CASE TxError(i, s(i), FALSE)
    <3> DEFINE e == [s(i) EXCEPT !.code = "FAIL"]
    <3>1. e \in Sessions /\ e.req = current
      BY <2>2, <2>7 DEF Sessions, Codes
    <3>2. Finish(i, e, "TX_FAIL", "FAIL", FALSE)
      BY <2>8 DEF TxError
    <3> HIDE DEF e, s
    <3> QED
      BY <2>1, <2>2, <2>3, <2>4, <3>1, <3>2, Ends DEF Orderly
  <2>9. CASE SendData(i, [s(i) EXCEPT !.state = "NONCE_GET", !.timer = learn], "nonce_get", TRUE)
    <3> DEFINE z == [s(i) EXCEPT !.state = "NONCE_GET", !.timer = learn]
    <3>1. /\ z \in Sessions /\ z.node # NoNode /\ z.req = current /\ z.state = "NONCE_GET"
          /\ z.left = Parts[r]
      BY <2>2, <2>7 DEF Sessions, States, TypeInv, TypeOK
    <3>2. Enter(i, z) /\ UNCHANGED applVars
      BY <2>9 DEF SendData
    <3> HIDE DEF z, s
    <3>3. Progress(z, Parts[current], acked'[current])
      BY <2>1, <2>2, <3>1 DEF Progress
    <3> QED
      BY <2>1, <2>2, <2>3, <2>4, <3>1, <3>2, <3>3, Goes DEF Orderly
  <2> QED
    BY <2>6, <2>8, <2>9 DEF NonceGet
<1> QED
  BY <1>1, <1>2, <1>3 DEF Tcpip

LEMMA OrderSubmit ==
  ASSUME TypeInv, Orderly, NEW r \in Requests, Submit(r)
  PROVE  Sessioned' /\ Locked' /\ Queued' /\ Told'
<1> USE DEF airVars, llVars
<1>1. /\ phase[r] = "idle" /\ phase' = [phase EXCEPT ![r] = "queued"]
      /\ UNCHANGED <<sess, lock, calls, answer, current, acked, ll>>
  BY DEF Submit
<1>2. phase'[r] = "queued" /\ \A q \in Requests : q # r => phase'[q] = phase[q]
  BY <1>1 DEF TypeInv, TypeOK
<1>3. Owner => current # r
  BY <1>1 DEF Owner
<1>4. Owner => Owner' /\ phase'[current] = phase[current]
  BY <1>1, <1>2, <1>3 DEF Owner
<1>5. Sessioned'
  BY <1>1, <1>4 DEF Orderly, Sessioned, Active, OnItsWay
<1>6. Locked'
  BY <1>1, <1>4 DEF Orderly, Locked, Active
<1>7. Queued' /\ Told'
  BY <1>1, <1>2 DEF Orderly, Queued, Told
<1> QED
  BY <1>5, <1>6, <1>7

(* While a session is active, it is the only one, and that of the frame     *)
(* that holds the lock.                                                     *)
LEMMA TheOne ==
  ASSUME TypeInv, Orderly, NEW i \in Slots, Active(i)
  PROVE  /\ Owner /\ current \in Requests /\ phase[current] = "started"
         /\ sess[i] \in Sessions /\ sess[i].req = current /\ sess[i].node # NoNode
         /\ Progress(sess[i], Parts[current], acked[current])
         /\ sess[i].state = "ENC_MSG" => OnItsWay(i)
         /\ \A j \in Slots : Active(j) => j = i
         /\ \A r \in Requests : phase[r] = IF r = current THEN "started" ELSE phase[r]
         /\ Parts[current] \in {1, 2}
<1>1. Owner /\ current \in Requests /\ phase[current] = "started"
  BY DEF Orderly, Sessioned, Owner
<1>2. Parts[current] \in {1, 2}
  <2>1. Parts[current] \in 1..2
    BY <1>1, Sec0TxAssumption
  <2> QED
    BY <2>1
<1> QED
  BY <1>1, <1>2, SessionTyped DEF Orderly, Sessioned, Active

(* The callback of a frame that is not stray finds the session it was sent  *)
(* for, in the state it was sent in.                                        *)
LEMMA OrderDone ==
  ASSUME TypeInv, Orderly, Done
  PROVE  Sessioned' /\ Locked' /\ Queued' /\ Told'
<1>1. PICK ok \in BOOLEAN, irq \in BOOLEAN : SendDone(ok, irq)
  BY DEF Done
<1> DEFINE f == Head(ll)
           i == f.slot
           s == [sess[i] EXCEPT !.code = Status(ok)]
<1>2. /\ f \in Frames /\ ~Stray(f) /\ UNCHANGED <<phase, current>>
      /\ acked' = IF ok /\ f.cb # "nonce_get" /\ f.req \in Requests
                  THEN [acked EXCEPT ![f.req] = @ + 1] ELSE acked
  <2>1. ll # <<>> /\ ll \in Seq(Frames)
    BY <1>1 DEF SendDone, TypeInv, TypeOK
  <2>2. 1 \in 1..Len(ll) /\ f = ll[1] /\ f \in Frames
    BY <2>1
  <2> QED
    BY <1>1, <2>2 DEF SendDone, Orderly, Clean
<1>3. /\ f.cb = "nonce_get" => noce_get_callback(i, ok, irq)
      /\ f.cb = "msg1" => msg1_callback(i, ok, irq)
      /\ f.cb = "msg2" => msg2_callback(i, ok, irq)
  BY <1>1 DEF SendDone
<1> HIDE DEF f
<1>4. /\ i \in Slots /\ Active(i) /\ sess[i].req = f.req /\ f.cb \in {"nonce_get", "msg1", "msg2"}
      /\ f.cb = "nonce_get" => sess[i].state = "NONCE_GET"
      /\ f.cb = "msg1" => sess[i].state = "ENC_MSG"
      /\ f.cb = "msg2" => sess[i].state = "ENC_MSG2"
  BY <1>2 DEF Stray, Frames, Active, StateOf
<1>5. /\ Owner /\ current \in Requests
      /\ sess[i] \in Sessions /\ sess[i].req = current /\ sess[i].node # NoNode
      /\ Progress(sess[i], Parts[current], acked[current])
      /\ \A j \in Slots : Active(j) => j = i
      /\ \A r \in Requests : phase'[r] = IF r = current THEN "started" ELSE phase[r]
      /\ Parts[current] \in {1, 2}
  BY <1>2, <1>4, TheOne
<1>6. /\ s \in Sessions /\ s.req = current /\ s.node # NoNode
      /\ s.state = sess[i].state /\ s.left = sess[i].left /\ s.code = Status(ok)
  <2>1. Status(ok) \in Codes
    BY DEF Status, Codes
  <2> QED
    BY <1>5, <2>1 DEF Sessions
<1>7. /\ \A r \in Requests : r # current => acked'[r] = acked[r]
      /\ acked'[current] = IF ok /\ f.cb # "nonce_get" THEN acked[current] + 1 ELSE acked[current]
  BY <1>2, <1>4, <1>5 DEF TypeInv, TypeOK
<1> HIDE DEF s, i
<1>8. CASE ~ok
  <2>1. TxFail(i, s, irq) /\ s.code = "FAIL"
    BY <1>3, <1>4, <1>6, <1>8 DEF noce_get_callback, msg1_callback, msg2_callback, s, Status
  <2>2. Finish(i, s, "TX_FAIL", "FAIL", irq)
    BY <2>1 DEF TxFail
  <2> QED
    BY <1>2, <1>4, <1>5, <1>6, <1>7, <2>2, Ends DEF Orderly
<1>9. CASE ok /\ f.cb = "nonce_get"
  <2> DEFINE z == [s EXCEPT !.state = "NONCE_GET_SENT", !.timer = ~learn]
  <2>1. Enter(i, z) /\ UNCHANGED applVars
    BY <1>3, <1>4, <1>6, <1>9 DEF noce_get_callback, s, NonceGetSent
  <2>2. /\ z \in Sessions /\ z.node # NoNode /\ z.req = current
        /\ z.state = "NONCE_GET_SENT" /\ z.left = sess[i].left
    BY <1>6 DEF Sessions, States, TypeInv, TypeOK
  <2> HIDE DEF z
  <2>3. Progress(z, Parts[current], acked'[current])
    BY <1>4, <1>5, <1>7, <1>9, <2>2 DEF Progress
  <2> QED
    BY <1>2, <1>4, <1>5, <1>7, <2>1, <2>2, <2>3, Goes DEF Orderly
<1>10. CASE ok /\ f.cb = "msg1"
  <2>1. EncMsgSent(i, s)
    BY <1>3, <1>4, <1>6, <1>10 DEF msg1_callback, s
  <2>2. acked[current] = 0 /\ sess[i].left = Parts[current] - 1 /\ acked'[current] = 1
    BY <1>4, <1>5, <1>7, <1>10 DEF Progress
  <2>3. CASE s.left = 0
    <3>1. Finish(i, s, "TX_DONE", "OK", FALSE)
      BY <2>1, <2>3 DEF EncMsgSent, TxDone
    <3>2. acked'[current] = Parts[current]
      BY <1>5, <1>6, <2>2, <2>3
    <3> QED
      BY <1>2, <1>4, <1>5, <1>6, <1>7, <3>1, <3>2, Ends DEF Orderly
  <2>4. CASE s.left # 0
    <3> DEFINE z == [s EXCEPT !.state = "ENC_MSG_SENT", !.timer = TRUE]
    <3>1. Enter(i, z) /\ UNCHANGED applVars
      BY <2>1, <2>4 DEF EncMsgSent
    <3>2. /\ z \in Sessions /\ z.node # NoNode /\ z.req = current
          /\ z.state = "ENC_MSG_SENT" /\ z.left = sess[i].left
      BY <1>6 DEF Sessions, States
    <3> HIDE DEF z
    <3>3. Progress(z, Parts[current], acked'[current])
      BY <1>5, <1>6, <2>2, <2>4, <3>2 DEF Progress
    <3> QED
      BY <1>2, <1>4, <1>5, <1>7, <3>1, <3>2, <3>3, Goes DEF Orderly
  <2> QED
    BY <2>3, <2>4
<1>11. CASE ok /\ f.cb = "msg2"
  <2>1. Finish(i, s, "TX_DONE", "OK", FALSE)
    BY <1>3, <1>4, <1>6, <1>11 DEF msg2_callback, s, TxDone
  <2>2. acked'[current] = Parts[current]
    BY <1>4, <1>5, <1>7, <1>11 DEF Progress
  <2> QED
    BY <1>2, <1>4, <1>5, <1>6, <1>7, <2>1, <2>2, Ends DEF Orderly
<1> QED
  BY <1>4, <1>8, <1>9, <1>10, <1>11

LEMMA AppendedFrame ==
  ASSUME NEW q \in Seq(Frames), NEW f \in Frames
  PROVE  /\ Len(Append(q, f)) = Len(q) + 1 /\ Append(q, f)[Len(q) + 1] = f
         /\ Len(q) + 1 \in 1..Len(Append(q, f))
         /\ \A k \in 1..Len(q) : k \in 1..Len(Append(q, f)) /\ Append(q, f)[k] = q[k]
OBVIOUS

(* A report that comes while the frame before it has not been called back   *)
(* makes that frame stray.                                                  *)
LEMMA OrderReport ==
  ASSUME TypeInv, Orderly, NEW n \in Peers, NonceReport(n), Clean'
  PROVE  Sessioned' /\ Locked' /\ Queued' /\ Told'
<1> USE DEF applVars
<1>0. UNCHANGED <<phase, current, acked>>
  BY DEF NonceReport
<1>1. CASE UNCHANGED <<sess, llVars, applVars>>
  BY <1>0, <1>1, Stays DEF OnItsWay, llVars
<1>2. CASE ~UNCHANGED <<sess, llVars, applVars>>
  <2>1. PICK i \in Slots :
          /\ Active(i) /\ sess[i].left >= 1
          /\ \/ /\ sess[i].state \in {"NONCE_GET", "NONCE_GET_SENT"}
                /\ EncMsg(i, sess[i], "ENC_MSG", "msg1")
             \/ /\ sess[i].state \in {"ENC_MSG_SENT", "ENC_MSG"}
                /\ EncMsg(i, sess[i], "ENC_MSG2", "msg2")
    BY <1>2, ReportTo
  <2> DEFINE s == sess[i]
  <2>2. /\ Owner /\ current \in Requests
        /\ s \in Sessions /\ s.req = current /\ s.node # NoNode
        /\ Progress(s, Parts[current], acked[current])
        /\ s.state = "ENC_MSG" => OnItsWay(i)
        /\ \A j \in Slots : Active(j) => j = i
        /\ \A r \in Requests : phase'[r] = IF r = current THEN "started" ELSE phase[r]
        /\ Parts[current] \in {1, 2}
    BY <1>0, <2>1, TheOne
  <2>3. CASE TxError(i, s, FALSE)
    <3> DEFINE e == [s EXCEPT !.code = "FAIL"]
    <3>1. e \in Sessions /\ e.req = current
      BY <2>2 DEF Sessions, Codes
    <3>2. Finish(i, e, "TX_FAIL", "FAIL", FALSE)
      BY <2>3 DEF TxError
    <3> HIDE DEF e, s
    <3> QED
      BY <1>0, <2>2, <3>1, <3>2, Ends DEF Orderly
  <2>4. CASE ~TxError(i, s, FALSE)
    <3>1. PICK state \in {"ENC_MSG", "ENC_MSG2"}, cb \in {"msg1", "msg2"} :
            /\ \/ s.state \in {"NONCE_GET", "NONCE_GET_SENT"} /\ state = "ENC_MSG"
               \/ s.state \in {"ENC_MSG_SENT", "ENC_MSG"} /\ state = "ENC_MSG2"
            /\ SendData(i, [s EXCEPT !.state = state, !.timer = FALSE, !.left = @ - 1],
                        cb, s.left > 1)
      BY <2>1, <2>4 DEF EncMsg
    <3> DEFINE z == [s EXCEPT !.state = state, !.timer = FALSE, !.left = @ - 1]
               f == [cb |-> cb, slot |-> i, req |-> z.req, asks |-> s.left > 1, heard |-> FALSE]
    <3>2. /\ z \in Sessions /\ z.node # NoNode /\ z.req = current
          /\ z.state = state /\ z.left = s.left - 1
      <4>1. s.left - 1 \in 0..2
        BY <2>1, <2>2 DEF Sessions
      <4> HIDE DEF s
      <4> QED
        BY <2>2, <4>1 DEF Sessions, States
    <3>3. Enter(i, z) /\ UNCHANGED applVars /\ ll' = Append(ll, f)
      BY <3>1 DEF SendData
    <3>4. f \in Frames /\ f.slot = i /\ ll \in Seq(Frames)
      <4>1. z.req \in Requests \cup {NoReq}
        BY <2>2, <3>2
      <4> HIDE DEF z, s
      <4> QED
        BY <4>1 DEF Frames, TypeInv, TypeOK
    <3> HIDE DEF f
    <3>5. OnItsWay(i)'
      BY <3>3, <3>4, AppendedFrame DEF OnItsWay
    <3>6. s.state # "ENC_MSG"
      <4> SUFFICES ASSUME s.state = "ENC_MSG" PROVE FALSE
        OBVIOUS
      <4>1. PICK k \in 1..Len(ll) : ll[k].slot = i
        BY <2>2 DEF OnItsWay
      <4>2. ll'[k] = ll[k] /\ k \in 1..Len(ll')
        BY <3>3, <3>4, AppendedFrame
      <4>3. s.state = StateOf[ll[k].cb]
        BY <4>1 DEF Orderly, Clean, Stray
      <4>4. sess'[i].state = StateOf[ll[k].cb]
        BY <4>1, <4>2 DEF Clean, Stray
      <4>5. sess'[i] = z
        BY <3>3 DEF Enter, TypeInv, TypeOK
      <4> QED
        BY <3>1, <3>2, <4>3, <4>4, <4>5
    <3> HIDE DEF z, s
    <3>7. Progress(z, Parts[current], acked'[current])
      BY <1>0, <2>2, <3>1, <3>2, <3>6 DEF Progress
    <3> QED
      BY <1>0, <2>2, <3>2, <3>3, <3>5, <3>7, Goes DEF Orderly
  <2> QED
    BY <2>3, <2>4
<1> QED
  BY <1>1, <1>2

LEMMA OrderTimeout ==
  ASSUME TypeInv, Orderly, Timeout
  PROVE  Sessioned' /\ Locked' /\ Queued' /\ Told'
<1> USE DEF airVars
<1>1. PICK i \in Slots : tx_timeout(i)
  BY DEF Timeout
<1>2. Active(i) /\ UNCHANGED <<phase, current, acked>>
  BY <1>1 DEF tx_timeout, Orderly, Sessioned
<1>3. /\ Owner /\ current \in Requests /\ sess[i] \in Sessions /\ sess[i].req = current
      /\ \A j \in Slots : Active(j) => j = i
      /\ \A r \in Requests : phase'[r] = IF r = current THEN "started" ELSE phase[r]
  BY <1>2, TheOne
<1> DEFINE e == [sess[i] EXCEPT !.code = "FAIL"]
<1>4. e \in Sessions /\ e.req = current
  BY <1>3 DEF Sessions, Codes
<1>5. Finish(i, e, "TX_FAIL", "FAIL", TRUE)
  BY <1>1 DEF tx_timeout, TxError
<1> HIDE DEF e
<1> QED
  BY <1>2, <1>3, <1>4, <1>5, Ends DEF Orderly

LEMMA OrderAside ==
  ASSUME TypeInv, Orderly, Heard \/ LearnMode \/ UNCHANGED vars
  PROVE  Sessioned' /\ Locked' /\ Queued' /\ Told'
<1> USE DEF applVars, airVars, llVars, vars
<1>1. UNCHANGED <<sess, lock, calls, answer, current, phase, acked>>
  BY DEF Heard, LearnMode
<1>2. ASSUME NEW i \in Slots, OnItsWay(i) PROVE OnItsWay(i)'
  <2>1. CASE Heard
    BY <1>2, <2>1, HeardHead DEF OnItsWay, TypeInv
  <2>2. CASE UNCHANGED ll
    BY <1>2, <2>2 DEF OnItsWay
  <2> QED
    BY <2>1, <2>2 DEF LearnMode
<1> QED
  BY <1>1, <1>2, Stays

LEMMA OrderStep ==
  ASSUME TypeInv, Orderly, [Next]_vars, "stray" \notin spoiled'
  PROVE  Orderly'
<1>1. CASE Next
  <2>1. Clean'
    BY <1>1, StillClean DEF Next
  <2>2. Sessioned' /\ Locked' /\ Queued' /\ Told'
    BY <1>1, <2>1, OrderSubmit, OrderTcpip, OrderDone, OrderReport, OrderTimeout, OrderAside DEF Next, Step
  <2> QED
    BY <2>1, <2>2 DEF Orderly
<1>2. CASE UNCHANGED vars
  <2>1. Clean'
    BY <1>2 DEF vars, llVars, Orderly, Clean, Stray
  <2> QED
    BY <1>2, <2>1, OrderAside DEF Orderly
<1> QED
  BY <1>1, <1>2

LEMMA OrderInit == ASSUME Init PROVE Orderly
<1>1. \A i \in Slots : sess[i].node = NoNode /\ sess[i].timer = FALSE
  BY DEF Init, Zeroed
<1>2. Sessioned
  BY <1>1 DEF Sessioned, Active
<1>3. Clean
  BY DEF Init, Clean
<1> QED
  BY <1>2, <1>3 DEF Init, Orderly, Locked, Queued, Told

(* While no frame is stray, the sessions, the frames on their way, the lock *)
(* and what the senders have been told agree.                               *)
THEOREM Invariance == Spec => []IInv
<1>1. Init => IInv
  BY TypeInit, OrderInit DEF IInv
<1>2. ASSUME IInv, [Next]_vars PROVE IInv'
  <2>1. TypeInv'
    BY <1>2, TypeStep DEF IInv
  <2>2. "stray" \notin spoiled' => "stray" \notin spoiled
    BY <1>2 DEF Next, Spoil, vars
  <2> QED
    BY <1>2, <2>1, <2>2, OrderStep DEF IInv
<1> QED
  BY <1>1, <1>2, PTL DEF Spec

(* The lock of the application level and the sessions agree.               *)
THEOREM LockOwned == Spec => []LockOwnsSession
<1>1. ASSUME IInv PROVE LockOwnsSession
  <2> SUFFICES ASSUME "stray" \notin spoiled PROVE LockOwnsSession
    BY DEF LockOwnsSession
  <2>1. Orderly
    BY <1>1 DEF IInv
  <2>2. \A i \in Slots : Active(i) => lock /\ sess[i].req = current
    BY <2>1 DEF Orderly, Sessioned, Owner
  <2>3. ASSUME lock /\ phase[current] = "started"
        PROVE  Cardinality({i \in Slots : Active(i)}) = 1
    <3>1. PICK i \in Slots : Active(i)
      BY <2>1, <2>3 DEF Orderly, Locked
    <3>2. {j \in Slots : Active(j)} = {i}
      BY <2>1, <3>1 DEF Orderly, Sessioned
    <3> QED
      BY <3>2, FS_Singleton
  <2> QED
    BY <2>2, <2>3 DEF LockOwnsSession
<1> QED
  BY <1>1, Invariance, PTL

(* No sender is called back twice.                                         *)
THEOREM AnsweredOnceHolds == Spec => []AnsweredOnce
<1>1. IInv => AnsweredOnce
  BY DEF IInv, Orderly, Told, AnsweredOnce
<1> QED
  BY <1>1, Invariance, PTL

(* A sender that is told OK has had every part confirmed.                  *)
THEOREM OkMeansSentHolds == Spec => []OkMeansSent
<1>1. IInv => OkMeansSent
  BY DEF IInv, Orderly, Told, OkMeansSent
<1> QED
  BY <1>1, Invariance, PTL
=============================================================================
