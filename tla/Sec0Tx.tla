------------------------------- MODULE Sec0Tx -------------------------------
(***************************************************************************)
(* The transmit sessions of Security 0, apps/transport/                    *)
(* sl_security_scheme0.c, between the application level of the send layer  *)
(* (send_first, sli_zw_appl_send_data_cb_ex) and its low level (send_data, *)
(* send_data_callback_func), which SendData models in full.  Here the low  *)
(* level is a queue of frames that are completed in order.                 *)
(*                                                                         *)
(* A session asks the peer for a nonce, encrypts with it, and does the     *)
(* same again if the message needs a second frame.  Completions and nonce  *)
(* reports come from sapi_t, timeouts from the interrupt of the sleep      *)
(* timer; both outrank tcpip_t, which starts sessions, so each handler is  *)
(* one step.  An event posted in the interrupt is refused and lost.  The   *)
(* event queue has room and no frame is a Get: SendData has both.          *)
(***************************************************************************)
EXTENDS Naturals, Sequences, FiniteSets

CONSTANTS
  NumRequests,  \* frames of the application that go out with Security 0
  Peers,
  Dest,         \* [Requests -> Peers]
  Parts,        \* [Requests -> 1..2], the frames a message takes
  NumSessions,  \* NUM_TX_SESSIONS
  MaxAsked,     \* bound: nonce gets a peer has still to answer
  MayRefuse,    \* send_data or encrypt_msg may fail
  MayOvertake,  \* a nonce report may overtake the callback of the nonce get
  MayLearn      \* learn mode may begin and end

Requests == 1..NumRequests   \* in the order of session_list
NoNode == "none"

ASSUME Sec0TxAssumption ==
  /\ NumRequests \in Nat /\ NoNode \notin Peers
  /\ Dest \in [Requests -> Peers]
  /\ Parts \in [Requests -> 1..2]
  /\ NumSessions \in Nat \ {0} /\ MaxAsked \in Nat
  /\ {MayRefuse, MayOvertake, MayLearn} \subseteq BOOLEAN

VARIABLES
  phase,    \* [Requests -> Phases], how far a frame has come
  lock,     \* lock of sl_zw_send_data.c
  current,  \* sl_appl_cur_session
  wakes,    \* SEND_NEXT events in sli_zw_event_queue
  sess,     \* tx_sessions
  ll,       \* send_data_list: the frames of the sessions, in order
  asked,    \* [Peers -> 0..MaxAsked], nonce gets without a report
  learn,    \* secure_learn_active()
  calls,    \* [Requests -> 0..2], how often the sender was called back
  answer,   \* [Requests -> Codes], the status it was called with
  acked,    \* [Requests -> Nat], its encrypted frames the chip confirmed
  lost,     \* history: the last post of SEND_NEXT was refused
  lostLL,   \* the post for the frame at the head of ll was refused
  spoiled   \* history: what has happened that voids the promises

applVars == <<lock, calls, answer, wakes, lost>>
llVars == <<ll, lostLL>>
airVars == <<asked, acked>>
vars == <<phase, applVars, current, sess, llVars, airVars, learn, spoiled>>

-----------------------------------------------------------------------------
Slots == 1..NumSessions
NoReq == 0
Phases == {"idle", "queued", "taken", "started"}
Codes == {"OK", "FAIL"}
States == {"NONCE_GET", "NONCE_GET_SENT", "ENC_MSG", "ENC_MSG_SENT", "ENC_MSG2",
           "TX_DONE", "TX_FAIL"}
Sessions == [node : Peers \cup {NoNode}, req : Requests \cup {NoReq}, state : States,
             left : 0..2, code : Codes, timer : BOOLEAN]

(* A zeroed session: TRANSMIT_COMPLETE_OK and NONCE_GET are zero.          *)
Zeroed == [node |-> NoNode, req |-> NoReq, state |-> "NONCE_GET", left |-> 0,
           code |-> "OK", timer |-> FALSE]

(* A frame of the low level: its callback and user, and, for the model,    *)
(* whom it was sent for, whether it asks for a nonce and was received.     *)
Frames == [cb : {"nonce_get", "msg1", "msg2"}, slot : Slots,
           req : Requests \cup {NoReq}, asks : BOOLEAN, heard : BOOLEAN]
StateOf == [nonce_get |-> "NONCE_GET", msg1 |-> "ENC_MSG", msg2 |-> "ENC_MSG2"]

Active(i) == sess[i].node # NoNode
ToNode(n) == {i \in Slots : sess[i].node = n}
FirstFree(i) == ~Active(i) /\ \A j \in 1..(i - 1) : Active(j)

(* A frame whose callback will not find the session that sent it, in the   *)
(* state it was sent in.                                                   *)
Stray(f) ==
  \/ sess[f.slot].node = NoNode
  \/ sess[f.slot].req # f.req
  \/ sess[f.slot].state # StateOf[f.cb]

Status(ok) == IF ok THEN "OK" ELSE "FAIL"

-----------------------------------------------------------------------------
Init ==
  /\ phase = [r \in Requests |-> "idle"]
  /\ lock = FALSE
  /\ current = NoReq
  /\ wakes = 0
  /\ sess = [i \in Slots |-> Zeroed]
  /\ ll = <<>>
  /\ lost = FALSE
  /\ lostLL = FALSE
  /\ asked = [n \in Peers |-> 0]
  /\ learn = FALSE
  /\ calls = [r \in Requests |-> 0]
  /\ answer = [r \in Requests |-> "FAIL"]
  /\ acked = [r \in Requests |-> 0]
  /\ spoiled = {}

-----------------------------------------------------------------------------
(* zw_send_data_post_event(SEND_EVENT_SEND_NEXT) by a thread, or, with irq, *)
(* in an interrupt.                                                        *)
PostNext(irq) ==
  /\ wakes' = IF irq THEN wakes ELSE wakes + 1
  /\ lost' = irq

(* sli_zw_appl_send_data_cb_ex for request r.  A second callback finds the *)
(* lock clear and is dropped, or clears the lock of the next frame; the    *)
(* block it was given is free by then, and may hold that frame.            *)
Complete(r, code, irq) ==
  IF r = NoReq \/ ~lock
  THEN UNCHANGED applVars
  ELSE /\ lock' = FALSE
       /\ PostNext(irq)
       /\ \E q \in {r, current} :
            /\ calls' = [calls EXCEPT ![q] = IF @ < 2 THEN @ + 1 ELSE @]
            /\ answer' = [answer EXCEPT ![q] = code]

(* tx_session_state_set, one operator for each state it enters; s is the   *)
(* session as its caller leaves it.                                        *)
Enter(i, s) == sess' = [sess EXCEPT ![i] = s]

(* Mutations: the session is not freed; its timer is not stopped.          *)
FinishKept(i, s, state, code, irq) ==
  /\ Enter(i, [s EXCEPT !.state = state, !.timer = FALSE])
  /\ Complete(s.req, code, irq)
FinishTimed(i, s, state, code, irq) ==
  /\ Enter(i, [s EXCEPT !.node = NoNode, !.state = state])
  /\ Complete(s.req, code, irq)

Finish(i, s, state, code, irq) ==
  /\ Enter(i, [s EXCEPT !.node = NoNode, !.state = state, !.timer = FALSE])
  /\ Complete(s.req, code, irq)

TxDone(i, s) == Finish(i, s, "TX_DONE", "OK", FALSE)
TxFail(i, s, irq) == Finish(i, s, "TX_FAIL", s.code, irq)
TxError(i, s, irq) == Finish(i, [s EXCEPT !.code = "FAIL"], "TX_FAIL", "FAIL", irq)

(* send_data with the session as user, in its new state s: always called   *)
(* by a thread, whose post of SEND_NEXT_LL also wakes what waits before.   *)
SendData(i, s, cb, asks) ==
  /\ Enter(i, s)
  /\ ll' = Append(ll, [cb |-> cb, slot |-> i, req |-> s.req, asks |-> asks,
                       heard |-> FALSE])
  /\ lostLL' = FALSE
  /\ UNCHANGED applVars

NonceGet(i, s) ==
  \/ SendData(i, [s EXCEPT !.state = "NONCE_GET", !.timer = learn], "nonce_get", TRUE)
  \/ MayRefuse /\ TxError(i, s, FALSE) /\ UNCHANGED llVars

(* A session in learn mode loses its timer here: only 2 s outside of it.   *)
NonceGetSent(i, s) ==
  /\ Enter(i, [s EXCEPT !.state = "NONCE_GET_SENT", !.timer = ~learn])
  /\ UNCHANGED applVars

(* encrypt_msg takes one part of the message; more asks for a nonce.       *)
EncMsg(i, s, state, cb) ==
  \/ SendData(i, [s EXCEPT !.state = state, !.timer = FALSE, !.left = @ - 1],
              cb, s.left > 1)
  \/ MayRefuse /\ TxError(i, s, FALSE) /\ UNCHANGED llVars

(* Mutations: a message of two frames is done after the first; the second  *)
(* nonce is awaited without a timer.                                       *)
EncMsgSentOnce(i, s) == TxDone(i, s)
EncMsgSentUntimed(i, s) ==
  IF s.left = 0 THEN TxDone(i, s)
  ELSE /\ Enter(i, [s EXCEPT !.state = "ENC_MSG_SENT", !.timer = FALSE])
       /\ UNCHANGED applVars

EncMsgSent(i, s) ==
  IF s.left = 0 THEN TxDone(i, s)
  ELSE /\ Enter(i, [s EXCEPT !.state = "ENC_MSG_SENT", !.timer = TRUE])
       /\ UNCHANGED applVars

-----------------------------------------------------------------------------
(* Senders and tcpip_t.                                                    *)

(* sl_zw_send_data_appl: the frame goes to session_list.                   *)
Submit(r) ==
  /\ phase[r] = "idle" /\ \A q \in 1..(r - 1) : phase[q] # "idle"
  /\ phase' = [phase EXCEPT ![r] = "queued"]
  /\ PostNext(FALSE)
  /\ UNCHANGED <<lock, current, sess, llVars, airVars, learn, calls, answer>>

(* tcpip_t is not inside send_first.                                       *)
Resting == \A r \in Requests : phase[r] # "taken"

(* SEND_NEXT with a frame under way, or, send_first with none, nothing.    *)
StartNothing ==
  /\ Resting /\ wakes > 0
  /\ lock \/ \A r \in Requests : phase[r] # "queued"
  /\ wakes' = wakes - 1
  /\ current' = IF lock THEN current ELSE NoReq
  /\ UNCHANGED <<phase, lock, sess, llVars, airVars, learn, calls, answer, lost>>

(* SEND_NEXT with the lock free: send_first takes the next frame of        *)
(* session_list.                                                           *)
Take(r) ==
  /\ Resting /\ wakes > 0 /\ ~lock
  /\ phase[r] = "queued" /\ \A q \in 1..(r - 1) : phase[q] # "queued"
  /\ wakes' = wakes - 1
  /\ phase' = [phase EXCEPT ![r] = "taken"]
  /\ lock' = TRUE
  /\ current' = r
  /\ UNCHANGED <<sess, llVars, airVars, learn, calls, answer, lost>>

(* sec0_send_data.  A session with the node, or none free: FALSE, and      *)
(* send_first completes the frame itself.                                  *)
Start(r) ==
  /\ phase[r] = "taken"
  /\ phase' = [phase EXCEPT ![r] = "started"]
  /\ IF ToNode(Dest[r]) # {} \/ \A i \in Slots : Active(i)
     THEN Complete(r, "FAIL", FALSE) /\ UNCHANGED <<sess, llVars>>
     ELSE \E i \in Slots :
            /\ FirstFree(i)
            /\ NonceGet(i, [sess[i] EXCEPT !.node = Dest[r], !.req = r, !.left = Parts[r]])
  /\ UNCHANGED <<current, airVars, learn>>

-----------------------------------------------------------------------------
(* sapi_t and the peers.                                                   *)

AskedBy(f) == IF f.asks /\ f.req \in Requests /\ asked[Dest[f.req]] < MaxAsked
              THEN [asked EXCEPT ![Dest[f.req]] = @ + 1] ELSE asked

(* The peer has the frame, and the chip has not called back yet.           *)
Heard ==
  /\ MayOvertake
  /\ ll # <<>> /\ ~lostLL /\ Head(ll).asks /\ ~Head(ll).heard
  /\ ll' = [ll EXCEPT ![1].heard = TRUE]
  /\ asked' = AskedBy(Head(ll))
  /\ UNCHANGED <<phase, applVars, current, sess, lostLL, learn, acked>>

(* The callback of the frame at the head: noce_get_callback, msg1_callback *)
(* and msg2_callback.  The first stores the status before it looks at the  *)
(* state; the other two keep the old one when the state is not theirs.     *)
noce_get_callback(i, ok, irq) ==
  LET s == [sess[i] EXCEPT !.code = Status(ok)]
  IN  IF s.state = "NONCE_GET" /\ ok THEN NonceGetSent(i, s) ELSE TxFail(i, s, irq)

msg1_callback(i, ok, irq) ==
  LET s == [sess[i] EXCEPT !.code = Status(ok)]
  IN  IF s.state # "ENC_MSG" THEN TxFail(i, sess[i], irq)
      ELSE IF ok THEN EncMsgSent(i, s) ELSE TxFail(i, s, irq)

msg2_callback(i, ok, irq) ==
  LET s == [sess[i] EXCEPT !.code = Status(ok)]
  IN  IF s.state # "ENC_MSG2" THEN TxFail(i, sess[i], irq)
      ELSE IF ok THEN TxDone(i, s) ELSE TxFail(i, s, irq)

(* send_data_callback_func, by the chip's callback or, with irq, by the    *)
(* emergency timer, which reports a failure.  Its post for the frame that  *)
(* is left then reaches nobody; an event that is still in the queue may.   *)
SendDone(ok, irq) ==
  /\ irq => ~ok
  /\ ll # <<>> /\ ~lostLL
  /\ ll' = Tail(ll)
  /\ lostLL' \in (IF irq /\ Len(ll) > 1 THEN BOOLEAN ELSE {FALSE})
  /\ LET f == Head(ll)
     IN  /\ asked' = IF ok /\ ~f.heard THEN AskedBy(f) ELSE asked
         /\ acked' = IF ok /\ f.cb # "nonce_get" /\ f.req \in Requests
                     THEN [acked EXCEPT ![f.req] = @ + 1] ELSE acked
         /\ CASE f.cb = "nonce_get" -> noce_get_callback(f.slot, ok, irq)
              [] f.cb = "msg1" -> msg1_callback(f.slot, ok, irq)
              [] f.cb = "msg2" -> msg2_callback(f.slot, ok, irq)
  /\ UNCHANGED <<phase, current, learn>>

(* Mutation: a session in ENC_MSG encrypts again although nothing is left. *)
NonceReportAgain(n) ==
  /\ asked[n] > 0
  /\ asked' = [asked EXCEPT ![n] = @ - 1]
  /\ IF ToNode(n) = {} THEN UNCHANGED <<sess, llVars, applVars>>
     ELSE \E i \in ToNode(n) :
            CASE sess[i].state \in {"NONCE_GET", "NONCE_GET_SENT"} ->
                   EncMsg(i, sess[i], "ENC_MSG", "msg1")
              [] sess[i].state \in {"ENC_MSG_SENT", "ENC_MSG"} ->
                   EncMsg(i, sess[i], "ENC_MSG2", "msg2")
              [] OTHER -> UNCHANGED <<sess, llVars, applVars>>
  /\ UNCHANGED <<phase, current, learn, acked>>

(* sec0_register_nonce for a report the blacklist does not know.           *)
NonceReport(n) ==
  /\ asked[n] > 0
  /\ asked' = [asked EXCEPT ![n] = @ - 1]
  /\ IF ToNode(n) = {} THEN UNCHANGED <<sess, llVars, applVars>>
     ELSE \E i \in ToNode(n) :
            LET s == sess[i]
            IN  CASE s.state \in {"NONCE_GET", "NONCE_GET_SENT"} ->
                       EncMsg(i, s, "ENC_MSG", "msg1")
                  [] s.state = "ENC_MSG_SENT" \/ (s.state = "ENC_MSG" /\ s.left > 0) ->
                       EncMsg(i, s, "ENC_MSG2", "msg2")
                  [] OTHER -> UNCHANGED <<sess, llVars, applVars>>
  /\ UNCHANGED <<phase, current, learn, acked>>

-----------------------------------------------------------------------------
(* Timers and learn mode.                                                  *)

tx_timeout(i) ==
  /\ sess[i].timer
  /\ TxError(i, sess[i], TRUE)
  /\ UNCHANGED <<phase, current, llVars, airVars, learn>>

LearnMode ==
  /\ MayLearn
  /\ learn' = ~learn
  /\ UNCHANGED <<phase, applVars, current, sess, llVars, airVars>>

-----------------------------------------------------------------------------
(* What voids the promises: a frame without its session; a session that    *)
(* waits for a report without a timer.                                     *)
Untimed(i) == Active(i) /\ sess[i].state = "NONCE_GET_SENT" /\ ~sess[i].timer

Spoil ==
  spoiled' = spoiled
    \cup (IF \E k \in 1..Len(ll') : Stray(ll[k])' THEN {"stray"} ELSE {})
    \cup (IF \E i \in Slots : Untimed(i)' THEN {"untimed"} ELSE {})

Tcpip == StartNothing \/ \E r \in Requests : Take(r) \/ Start(r)
Done == \E ok, irq \in BOOLEAN : SendDone(ok, irq)
Timeout == \E i \in Slots : tx_timeout(i)

Step ==
  \/ \E r \in Requests : Submit(r)
  \/ Tcpip \/ Done \/ Timeout
  \/ Heard
  \/ \E n \in Peers : NonceReport(n)
  \/ LearnMode

Next == Step /\ Spoil

Spec == Init /\ [][Next]_vars

(* tcpip_t runs, the chip or the emergency timer completes the frame that  *)
(* is being sent, and a running timer expires.                             *)
FairSpec ==
  /\ Spec
  /\ WF_vars(Tcpip /\ Spoil)
  /\ WF_vars(Done /\ Spoil)
  /\ \A i \in Slots : WF_vars(tx_timeout(i) /\ Spoil)

-----------------------------------------------------------------------------
TypeOK ==
  /\ phase \in [Requests -> Phases]
  /\ lock \in BOOLEAN
  /\ current \in Requests \cup {NoReq}
  /\ wakes \in Nat /\ lost \in BOOLEAN /\ lostLL \in BOOLEAN
  /\ sess \in [Slots -> Sessions]
  /\ ll \in Seq(Frames)
  /\ asked \in [Peers -> 0..MaxAsked]
  /\ learn \in BOOLEAN
  /\ calls \in [Requests -> 0..2]
  /\ answer \in [Requests -> Codes]
  /\ acked \in [Requests -> Nat]
  /\ spoiled \subseteq {"stray", "untimed"}

(* The lock of the application level and the sessions agree: while no      *)
(* frame is stray, a session belongs to the frame that holds the lock, and *)
(* that frame has a session from its start to its callback, although       *)
(* sl_zw_send_data.c and sl_security_scheme0.c only meet in a callback     *)
(* that a completion, a timeout or a failed send_data may make.            *)
LockOwnsSession ==
  "stray" \notin spoiled =>
    /\ \A i \in Slots : Active(i) => lock /\ sess[i].req = current
    /\ lock /\ phase[current] = "started"
       => Cardinality({i \in Slots : Active(i)}) = 1

(* No sender is called back twice, while no frame is stray.                *)
AnsweredOnce == "stray" \notin spoiled => \A r \in Requests : calls[r] <= 1

(* A sender that is told OK has had every part of its message confirmed by *)
(* the chip, in a message of one frame or of two with a second nonce.      *)
OkMeansSent ==
  "stray" \notin spoiled =>
    \A r \in Requests : calls[r] > 0 /\ answer[r] = "OK" => acked[r] = Parts[r]

(* A frame waits on session_list, nothing will take it, and the last post  *)
(* for it was refused to a timer.                                          *)
Stalled ==
  lost /\ ~lock /\ wakes = 0 /\ \E r \in Requests : phase[r] = "queued"

(* Every frame on session_list is called back in the end, unless its       *)
(* session was left without a timer in learn mode, some frame was stray,   *)
(* or a timer ended the session before it and nobody sent anything more.   *)
EveryFrameAnswered ==
  \A r \in Requests :
    phase[r] = "queued" ~> calls[r] > 0 \/ spoiled # {} \/ []Stalled

(* noce_get_callback: ASSERT(s->state == NONCE_GET).                       *)
NonceGetAssert ==
  [][ll # <<>> /\ Head(ll).cb = "nonce_get" /\ ll' = Tail(ll)
     => sess[Head(ll).slot].state = "NONCE_GET"]_vars
=============================================================================
