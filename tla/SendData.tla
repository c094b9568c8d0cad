------------------------------ MODULE SendData ------------------------------
(***************************************************************************)
(* The Z-Wave send layer, apps/transport/sl_zw_send_data.c.                *)
(*                                                                         *)
(* An application frame waits in session_list, is handed down one at a     *)
(* time (lock) to send_data, waits in send_data_list, and is given to the  *)
(* Z-Wave chip one at a time (lock_ll).  Both levels take their sessions   *)
(* from one pool of memb blocks.  The two lists are advanced by events in  *)
(* a small message queue that only tcpip_t reads, while callbacks run in   *)
(* whatever context met the completion: sapi_t for the chip's callback, a  *)
(* timer for a missed one, tcpip_t for a refused frame.                    *)
(*                                                                         *)
(* A context is a sequence of the steps it has still to make, the next     *)
(* one first, so a callback nested in a callback is pushed on top of it.   *)
(* A context runs only while every context of higher priority is idle or   *)
(* blocked; equal priorities are time-sliced.  "timer" is the interrupt of *)
(* the sleep timer: nothing there can wait, and a post that would is       *)
(* refused.                                                                *)
(***************************************************************************)
EXTENDS Naturals, Sequences, FiniteSets

CONSTANTS
  Requests,   \* frames of the application (sl_zw_send_data_appl)
  Reports,    \* S0 nonce reports: send_data with a NULL callback
  Caller,     \* [Requests -> Contexts], the context a request is sent from
  Gets,       \* requests that are a Get and get a status report with the OK
  Aborted,    \* requests whose sender may abort them
  MayRefuse,  \* what may fail: subset of {"heap", "chip", "response"}
  PoolSize,   \* blocks of session_memb
  QueueSize   \* capacity of sli_zw_event_queue

Contexts == {"timer", "sapi", "tcpip", "app"}

ASSUME SendDataAssumption ==
  /\ Requests \cap Reports = {}
  /\ Caller \in [Requests -> Contexts]
  /\ Gets \subseteq Requests
  /\ Aborted \subseteq Requests
  /\ MayRefuse \subseteq {"heap", "chip", "response"}
  /\ PoolSize \in Nat \ {0}
  /\ QueueSize \in Nat \ {0}

VARIABLES
  phase,      \* [Requests \cup Reports -> Phases], what the sender knows
  calls,      \* [Requests -> 0..2], how often the sender was called back
  handle,     \* [Requests -> Slots \cup {0}], the handle kept for an abort
  used,       \* session_memb: the blocks whose count is not zero
  frame,      \* [Slots -> Frames \cup {NoFrame}], the fb of a session
  done,       \* [Slots -> Callbacks], the callback and user of a session
  applQ,      \* session_list
  llQ,        \* send_data_list
  lock,       \* an application frame is being sent
  lockLL,     \* a low-level frame is being sent
  current,    \* sl_appl_cur_session, 0 for NULL
  events,     \* sli_zw_event_queue
  emergency,  \* emergency_timer runs
  backoff,    \* backoff_timer runs
  chipCb,     \* cbFuncZWSendData is set
  air,        \* sessions whose frames the chip holds, oldest first
  todo,       \* [Contexts -> Seq(Steps)]
  hijacked,   \* a freed block was taken before its callback was read
  late,       \* the host has given up a frame that the chip may still have
  lost        \* events whose last post was made in an interrupt, in vain

poolVars == <<used, frame, done>>
chipVars == <<chipCb, air>>
timerVars == <<emergency, backoff>>
ghostVars == <<hijacked, late, lost>>
vars == <<phase, calls, handle, used, frame, done, applQ, llQ, lock, lockLL,
          current, events, emergency, backoff, chipCb, air, todo,
          hijacked, late, lost>>

-----------------------------------------------------------------------------
Slots == 1..PoolSize
Frames == Requests \cup Reports
NoFrame == "none"
Phases == {"idle", "accepted", "refused"}
Events == {"SEND_NEXT", "SEND_NEXT_LL"}

(* The callback and user pointer stored in a session.                      *)
NoCb == [to |-> "none"]
ApplCb(u) == [to |-> "appl", slot |-> u]   \* sli_zw_appl_send_data_cb_ex
UserCb(r) == [to |-> "user", req |-> r]
Callbacks == {NoCb} \cup {ApplCb(u) : u \in Slots} \cup {UserCb(r) : r \in Requests}

(* The steps a context can have in front of it.                            *)
Post(e) == [op |-> "post", ev |-> e]
LLDone(ok) == [op |-> "lldone", ok |-> ok]   \* enter send_data_callback_func
Call(s, ok) == [op |-> "call", slot |-> s, ok |-> ok]
Complete(u, ok) == [op |-> "complete", slot |-> u, ok |-> ok]
Release(u, ok) == [op |-> "release", slot |-> u, ok |-> ok]
InUser == [op |-> "user"]
More == [op |-> "more"]
Unlock == [op |-> "unlock"]
Hand(s) == [op |-> "hand", slot |-> s]        \* inside ZW_SendData
GiveUp == [op |-> "giveup"]                   \* in ZW_SendData, no response
Arm == [op |-> "arm"]
Steps ==
  {Post(e) : e \in Events} \cup {InUser, More, Unlock, GiveUp, Arm}
    \cup {Hand(s) : s \in Slots}
    \cup {LLDone(ok) : ok \in BOOLEAN}
    \cup {Call(s, ok) : s \in Slots, ok \in BOOLEAN}
    \cup {Complete(s, ok) : s \in Slots, ok \in BOOLEAN}
    \cup {Release(s, ok) : s \in Slots, ok \in BOOLEAN}

-----------------------------------------------------------------------------
(* Scheduling: one core, preemptive priorities.                            *)

Above(c) ==
  CASE c = "timer" -> {}
    [] c = "sapi"  -> {"timer"}
    [] OTHER       -> {"timer", "sapi"}

Idle(c) == todo[c] = <<>>

(* osMessageQueuePut with osWaitForever on a full queue.  In an interrupt  *)
(* it does not wait but fails.                                             *)
Blocked(c) ==
  /\ c # "timer"
  /\ ~Idle(c)
  /\ Head(todo[c]).op = "post"
  /\ Len(events) = QueueSize

Runs(c) == \A d \in Above(c) : Idle(d) \/ Blocked(d)

(* c may start something new: it is idle or inside a user callback.        *)
Free(c) == Runs(c) /\ (~Idle(c) => Head(todo[c]) = InUser)

AtStep(c, op) == Runs(c) /\ ~Idle(c) /\ Head(todo[c]).op = op

(* Replace the current step of c by the steps of next, or push them.       *)
Then(c, next) == todo' = [todo EXCEPT ![c] = next \o Tail(@)]
Push(c, next) == todo' = [todo EXCEPT ![c] = next \o @]

-----------------------------------------------------------------------------
(* The pool.                                                               *)

(* Mutation: memb_alloc does not look at the count of the block it returns. *)
FirstFreeUnchecked(s) == s \in Slots /\ \A t \in 1..(s - 1) : t \in used

FirstFree(s) == s \in Slots \ used /\ \A t \in 1..(s - 1) : t \in used
PoolFull == Slots \subseteq used

Pending(s) == \E c \in Contexts : \E i \in 1..Len(todo[c]) :
                 todo[c][i] \in {Call(s, TRUE), Call(s, FALSE)}

(* memb_alloc, zw_frame_buffer_create and the fields of the new session.   *)
Allocate(s, f, cb) ==
  /\ FirstFree(s)
  /\ used' = used \cup {s}
  /\ frame' = [frame EXCEPT ![s] = f]
  /\ done' = [done EXCEPT ![s] = cb]
  /\ hijacked' = (hijacked \/ Pending(s))

(* Mutation: list_remove leaves the element on the list.                   *)
WithoutNothing(q, i) == SubSeq(q, 1, i) \o SubSeq(q, i + 1, Len(q))

(* list_remove of the i-th element.                                        *)
Without(q, i) == SubSeq(q, 1, i - 1) \o SubSeq(q, i + 1, Len(q))

MayNotAllocate == PoolFull \/ "heap" \in MayRefuse

-----------------------------------------------------------------------------
Init ==
  /\ phase = [f \in Frames |-> "idle"]
  /\ calls = [r \in Requests |-> 0]
  /\ handle = [r \in Requests |-> 0]
  /\ used = {}
  /\ frame = [s \in Slots |-> NoFrame]
  /\ done = [s \in Slots |-> NoCb]
  /\ applQ = <<>>
  /\ llQ = <<>>
  /\ lock = FALSE
  /\ lockLL = FALSE
  /\ current = 0
  /\ events = <<>>
  /\ emergency = FALSE
  /\ backoff = FALSE
  /\ chipCb = FALSE
  /\ air = <<>>
  /\ todo = [c \in Contexts |-> <<>>]
  /\ hijacked = FALSE
  /\ late = FALSE
  /\ lost = {}

-----------------------------------------------------------------------------
(* Senders.                                                                *)

(* Mutation: the session is put in front of those that wait (list_push).   *)
SendDataApplPush(c, r) ==
  /\ Free(c) /\ Caller[r] = c /\ phase[r] = "idle"
  /\ \E s \in Slots :
       /\ Allocate(s, r, UserCb(r))
       /\ applQ' = <<s>> \o applQ
       /\ handle' = [handle EXCEPT ![r] = IF r \in Aborted THEN s ELSE 0]
  /\ phase' = [phase EXCEPT ![r] = "accepted"]
  /\ Push(c, <<Post("SEND_NEXT")>>)
  /\ UNCHANGED <<calls, llQ, lock, lockLL, current, events, timerVars,
                 chipVars, late, lost>>

(* sl_zw_send_data_appl up to the post of SEND_NEXT, which may block.      *)
SendDataAppl(c, r) ==
  /\ Free(c)
  /\ Caller[r] = c
  /\ phase[r] = "idle"
  /\ \E s \in Slots :
       /\ Allocate(s, r, UserCb(r))
       /\ applQ' = Append(applQ, s)
       /\ handle' = [handle EXCEPT ![r] = IF r \in Aborted THEN s ELSE 0]
  /\ phase' = [phase EXCEPT ![r] = "accepted"]
  /\ Push(c, <<Post("SEND_NEXT")>>)
  /\ UNCHANGED <<calls, llQ, lock, lockLL, current, events, timerVars,
                 chipVars, late, lost>>

(* sl_zw_send_data_appl returning 0: no block, or no frame buffer.         *)
SendDataApplRefused(c, r) ==
  /\ Free(c)
  /\ Caller[r] = c
  /\ phase[r] = "idle"
  /\ MayNotAllocate
  /\ phase' = [phase EXCEPT ![r] = "refused"]
  /\ UNCHANGED <<calls, handle, poolVars, applQ, llQ, lock, lockLL, current,
                 events, timerVars, chipVars, todo, ghostVars>>

(* send_data for a nonce report, from sapi_t, with a NULL callback.        *)
SendReport(n) ==
  /\ Idle("sapi") /\ Runs("sapi")
  /\ phase[n] = "idle"
  /\ \E s \in Slots :
       /\ Allocate(s, n, NoCb)
       /\ llQ' = Append(llQ, s)
  /\ phase' = [phase EXCEPT ![n] = "accepted"]
  /\ Push("sapi", <<Post("SEND_NEXT_LL")>>)
  /\ UNCHANGED <<calls, handle, applQ, lock, lockLL, current, events,
                 timerVars, chipVars, late, lost>>

(* ZW_SendDataApplAbort.  A session in progress is left to the chip, whose *)
(* answer is already nondeterministic; a queued one is called back.        *)
Abort(c, r) ==
  /\ Free(c)
  /\ Caller[r] = c
  /\ r \in Aborted
  /\ phase[r] = "accepted"
  /\ calls[r] = 0
  /\ handle[r] # current
  /\ \E i \in 1..Len(applQ) :
       /\ applQ[i] = handle[r]
       /\ applQ' = Without(applQ, i)
  /\ used' = used \ {handle[r]}
  /\ Push(c, <<Call(handle[r], FALSE)>>)
  /\ UNCHANGED <<phase, calls, handle, frame, done, llQ, lock, lockLL,
                 current, events, timerVars, chipVars, ghostVars>>

-----------------------------------------------------------------------------
(* tcpip_t: sl_zw_layer_data_process takes one event per turn.             *)

(* SEND_NEXT while an application frame is being sent, or with nothing to  *)
(* send: send_first has set sl_appl_cur_session to NULL.                   *)
StartNothing ==
  /\ Idle("tcpip") /\ Runs("tcpip")
  /\ events # <<>> /\ Head(events) = "SEND_NEXT"
  /\ lock \/ applQ = <<>>
  /\ events' = Tail(events)
  /\ current' = IF lock THEN current ELSE 0
  /\ UNCHANGED <<phase, calls, handle, poolVars, applQ, llQ, lock, lockLL,
                 timerVars, chipVars, todo, ghostVars>>

(* send_first: the head of session_list goes down to send_data.            *)
SendFirst ==
  /\ Idle("tcpip") /\ Runs("tcpip")
  /\ events # <<>> /\ Head(events) = "SEND_NEXT"
  /\ ~lock /\ applQ # <<>>
  /\ events' = Tail(events)
  /\ applQ' = Tail(applQ)
  /\ current' = Head(applQ)
  /\ lock' = TRUE
  /\ \/ /\ \E s \in Slots :
             /\ Allocate(s, frame[Head(applQ)], ApplCb(Head(applQ)))
             /\ llQ' = Append(llQ, s)
        /\ Push("tcpip", <<Post("SEND_NEXT_LL")>>)
     \/ /\ MayNotAllocate
        /\ Push("tcpip", <<Complete(Head(applQ), FALSE)>>)
        /\ UNCHANGED <<poolVars, llQ, hijacked>>
  /\ UNCHANGED <<phase, calls, handle, lockLL, timerVars, chipVars, late, lost>>

(* SEND_NEXT_LL with nothing queued, or while a frame is being sent.       *)
NextNothing ==
  /\ Idle("tcpip") /\ Runs("tcpip")
  /\ events # <<>> /\ Head(events) = "SEND_NEXT_LL"
  /\ lockLL \/ llQ = <<>>
  /\ events' = Tail(events)
  /\ UNCHANGED <<phase, calls, handle, poolVars, applQ, llQ, lock, lockLL,
                 current, timerVars, chipVars, todo, ghostVars>>

(* Mutation: zw_send_data_next_handler does not look at lock_ll.           *)
SendNextUnlocked ==
  /\ Idle("tcpip") /\ Runs("tcpip")
  /\ events # <<>> /\ Head(events) = "SEND_NEXT_LL" /\ llQ # <<>>
  /\ events' = Tail(events)
  /\ lockLL' = TRUE /\ chipCb' = TRUE
  /\ Push("tcpip", <<Hand(Head(llQ))>>)
  /\ UNCHANGED <<phase, calls, handle, poolVars, applQ, llQ, lock, current,
                 timerVars, air, ghostVars>>

(* zw_send_data_next_handler takes lock_ll and enters ZW_SendData, which    *)
(* stores the callback before it talks to the chip.                        *)
SendNext ==
  /\ Idle("tcpip") /\ Runs("tcpip")
  /\ events # <<>> /\ Head(events) = "SEND_NEXT_LL"
  /\ ~lockLL /\ llQ # <<>>
  /\ events' = Tail(events)
  /\ lockLL' = TRUE
  /\ chipCb' = TRUE
  /\ Push("tcpip", <<Hand(Head(llQ))>>)
  /\ UNCHANGED <<phase, calls, handle, poolVars, applQ, llQ, lock, current,
                 timerVars, air, ghostVars>>

(* The chip answers ZW_SendData that it has taken the frame or refuses it, *)
(* or takes it and its response is lost: SendFrameWithResponse waits three *)
(* times, and the callback of the frame may come meanwhile.                *)
HandOver ==
  /\ AtStep("tcpip", "hand")
  /\ \/ /\ air' = Append(air, Head(todo["tcpip"]).slot)
        /\ Then("tcpip", <<Arm>>)
        /\ UNCHANGED <<chipCb, late>>
     \/ /\ "chip" \in MayRefuse
        /\ chipCb' = FALSE
        /\ Then("tcpip", <<LLDone(FALSE)>>)
        /\ UNCHANGED <<air, late>>
     \/ /\ "response" \in MayRefuse
        /\ air' = Append(air, Head(todo["tcpip"]).slot)
        /\ late' = TRUE
        /\ Then("tcpip", <<GiveUp>>)
        /\ UNCHANGED chipCb
  /\ UNCHANGED <<phase, calls, handle, poolVars, applQ, llQ, lock, lockLL,
                 current, events, timerVars, hijacked, lost>>

(* ZW_SendData returns FALSE although the chip has the frame.              *)
NoResponse ==
  /\ AtStep("tcpip", "giveup")
  /\ chipCb' = FALSE
  /\ Then("tcpip", <<LLDone(FALSE)>>)
  /\ UNCHANGED <<phase, calls, handle, poolVars, applQ, llQ, lock, lockLL,
                 current, events, timerVars, air, ghostVars>>

(* Mutation: emergency_timer is started only before ZW_SendData can fail,  *)
(* so not for a frame the chip has taken.                                  *)
ArmNothing ==
  /\ AtStep("tcpip", "arm")
  /\ Then("tcpip", <<>>)
  /\ UNCHANGED <<phase, calls, handle, poolVars, applQ, llQ, lock, lockLL,
                 current, events, timerVars, chipVars, ghostVars>>

(* zw_send_data_next_handler starts emergency_timer after ZW_SendData.     *)
ArmEmergency ==
  /\ AtStep("tcpip", "arm")
  /\ emergency' = TRUE
  /\ Then("tcpip", <<>>)
  /\ UNCHANGED <<phase, calls, handle, poolVars, applQ, llQ, lock, lockLL,
                 current, events, backoff, chipVars, ghostVars>>

-----------------------------------------------------------------------------
(* The chip and the timers.                                                *)

(* sli_zw_send_data_handler: the callback of the oldest frame, delivered   *)
(* to whatever function the host has stored, the function id unchecked.    *)
ChipCallback(ok) ==
  /\ Idle("sapi") /\ Runs("sapi")
  /\ air # <<>>
  /\ air' = Tail(air)
  /\ chipCb' = FALSE
  /\ IF chipCb THEN Push("sapi", <<LLDone(ok)>>) ELSE UNCHANGED todo
  /\ UNCHANGED <<phase, calls, handle, poolVars, applQ, llQ, lock, lockLL,
                 current, events, timerVars, ghostVars>>

(* The chip never reports the frame.                                       *)
ChipLost ==
  /\ air # <<>>
  /\ air' = Tail(air)
  /\ UNCHANGED <<phase, calls, handle, poolVars, applQ, llQ, lock, lockLL,
                 current, events, timerVars, chipCb, todo, ghostVars>>

EmergencyTimeout ==
  /\ Idle("timer")
  /\ emergency
  /\ emergency' = FALSE
  /\ late' = TRUE
  /\ Push("timer", <<LLDone(FALSE)>>)
  /\ UNCHANGED <<phase, calls, handle, poolVars, applQ, llQ, lock, lockLL,
                 current, events, backoff, chipVars, hijacked, lost>>

BackoffTimeout ==
  /\ Idle("timer")
  /\ backoff
  /\ backoff' = FALSE
  /\ Push("timer", <<Post("SEND_NEXT")>>)
  /\ UNCHANGED <<phase, calls, handle, poolVars, applQ, llQ, lock, lockLL,
                 current, events, emergency, chipVars, ghostVars>>

(* sl_zw_send_data_appl_rx_notify: a frame from backoff_node arrives.      *)
RxNotify ==
  /\ Idle("sapi") /\ Runs("sapi")
  /\ backoff
  /\ backoff' = FALSE
  /\ Push("sapi", <<Post("SEND_NEXT")>>)
  /\ UNCHANGED <<phase, calls, handle, poolVars, applQ, llQ, lock, lockLL,
                 current, events, emergency, chipVars, ghostVars>>

-----------------------------------------------------------------------------
(* Completion, in any context.                                             *)

(* Mutation: the post does not wait for room.                              *)
PostAlways(c) ==
  /\ AtStep(c, "post")
  /\ events' = Append(events, Head(todo[c]).ev)
  /\ Then(c, <<>>)
  /\ UNCHANGED <<phase, calls, handle, poolVars, applQ, llQ, lock, lockLL,
                 current, timerVars, chipVars, ghostVars>>

(* zw_send_data_post_event: a thread waits for room, an interrupt is       *)
(* refused whether there is room or not, and nobody looks at the result.   *)
PostEvent(c) ==
  /\ AtStep(c, "post")
  /\ LET e == Head(todo[c]).ev
     IN  \/ /\ c = "timer"
            /\ lost' = lost \cup {e}
            /\ UNCHANGED events
         \/ /\ c # "timer"
            /\ Len(events) < QueueSize
            /\ events' = Append(events, e)
            /\ lost' = lost \ {e}
  /\ Then(c, <<>>)
  /\ UNCHANGED <<phase, calls, handle, poolVars, applQ, llQ, lock, lockLL,
                 current, timerVars, chipVars, hijacked, late>>

(* send_data_callback_func up to memb_free of the session it pops.  With   *)
(* an empty list it returns with lock_ll still set.                        *)
LowLevelDone(c) ==
  /\ AtStep(c, "lldone")
  /\ emergency' = (emergency /\ ~lockLL)
  /\ IF lockLL /\ llQ # <<>>
     THEN /\ llQ' = Tail(llQ)
          /\ used' = used \ {Head(llQ)}
          /\ Then(c, <<Call(Head(llQ), Head(todo[c]).ok), More, Unlock>>)
     ELSE /\ Then(c, <<>>)
          /\ UNCHANGED <<llQ, used>>
  /\ UNCHANGED <<phase, calls, handle, frame, done, applQ, lock, lockLL,
                 current, events, backoff, chipVars, ghostVars>>

(* s->callback(status, s->user, ts) on a block that is already freed: what *)
(* the block holds now is what is called.                                  *)
CallBack(c) ==
  /\ AtStep(c, "call")
  /\ LET ok == Head(todo[c]).ok
         cb == done[Head(todo[c]).slot]
     IN  /\ Then(c, CASE cb.to = "none" -> <<>>
                      [] cb.to = "appl" -> <<Complete(cb.slot, ok)>>
                      [] cb.to = "user" -> <<InUser>>)
         /\ calls' = IF cb.to = "user" /\ calls[cb.req] < 2
                     THEN [calls EXCEPT ![cb.req] = @ + 1] ELSE calls
  /\ UNCHANGED <<phase, handle, poolVars, applQ, llQ, lock, lockLL, current,
                 events, timerVars, chipVars, ghostVars>>

(* Mutation: the backoff timer is awaited after every frame that was sent, *)
(* started or not.                                                         *)
ApplDoneSilent(c) ==
  /\ AtStep(c, "complete")
  /\ LET u == Head(todo[c]).slot
         ok == Head(todo[c]).ok
     IN  /\ lock' = FALSE
         /\ backoff' = (backoff \/ (lock /\ ok /\ frame[u] \in Gets))
         /\ Then(c, IF ~lock THEN <<>>
                    ELSE IF ok THEN <<Release(u, ok)>>
                    ELSE <<Post("SEND_NEXT"), Release(u, ok)>>)
  /\ UNCHANGED <<phase, calls, handle, poolVars, applQ, llQ, lockLL, current,
                 events, emergency, chipVars, ghostVars>>

(* sli_zw_appl_send_data_cb_ex up to the post of SEND_NEXT or the start of *)
(* the backoff timer, which a timer already running ignores.               *)
ApplDone(c) ==
  /\ AtStep(c, "complete")
  /\ LET u == Head(todo[c]).slot
         ok == Head(todo[c]).ok
     IN  IF ~lock
         THEN Then(c, <<>>) /\ UNCHANGED <<lock, backoff>>
         ELSE /\ lock' = FALSE
              /\ IF ok /\ frame[u] \in Gets
                 THEN /\ backoff' = TRUE
                      /\ Then(c, <<Release(u, ok)>>)
                 ELSE /\ Then(c, <<Post("SEND_NEXT"), Release(u, ok)>>)
                      /\ UNCHANGED backoff
  /\ UNCHANGED <<phase, calls, handle, poolVars, applQ, llQ, lockLL, current,
                 events, emergency, chipVars, ghostVars>>

(* The rest of sli_zw_appl_send_data_cb_ex: memb_free, then the callback.  *)
ReleaseAppl(c) ==
  /\ AtStep(c, "release")
  /\ used' = used \ {Head(todo[c]).slot}
  /\ Then(c, <<Call(Head(todo[c]).slot, Head(todo[c]).ok)>>)
  /\ UNCHANGED <<phase, calls, handle, frame, done, applQ, llQ, lock, lockLL,
                 current, events, timerVars, chipVars, ghostVars>>

ReturnUser(c) ==
  /\ AtStep(c, "user")
  /\ Then(c, <<>>)
  /\ UNCHANGED <<phase, calls, handle, poolVars, applQ, llQ, lock, lockLL,
                 current, events, timerVars, chipVars, ghostVars>>

(* Mutation: no event for what is still queued.                            *)
SendNoMore(c) ==
  /\ AtStep(c, "more")
  /\ Then(c, <<>>)
  /\ UNCHANGED <<phase, calls, handle, poolVars, applQ, llQ, lock, lockLL,
                 current, events, timerVars, chipVars, ghostVars>>

(* The end of send_data_callback_func: an event if more is queued, then    *)
(* lock_ll is released, in this order.                                     *)
SendMore(c) ==
  /\ AtStep(c, "more")
  /\ Then(c, IF llQ # <<>> THEN <<Post("SEND_NEXT_LL")>> ELSE <<>>)
  /\ UNCHANGED <<phase, calls, handle, poolVars, applQ, llQ, lock, lockLL,
                 current, events, timerVars, chipVars, ghostVars>>

UnlockLL(c) ==
  /\ AtStep(c, "unlock")
  /\ lockLL' = FALSE
  /\ Then(c, <<>>)
  /\ UNCHANGED <<phase, calls, handle, poolVars, applQ, llQ, lock, current,
                 events, timerVars, chipVars, ghostVars>>

-----------------------------------------------------------------------------
Send ==
  \/ \E c \in Contexts, r \in Requests :
       SendDataAppl(c, r) \/ SendDataApplRefused(c, r) \/ Abort(c, r)
  \/ \E n \in Reports : SendReport(n)

Tcpip ==
  \/ StartNothing \/ SendFirst \/ NextNothing
  \/ SendNext \/ HandOver \/ NoResponse \/ ArmEmergency

Environment ==
  \/ \E ok \in BOOLEAN : ChipCallback(ok)
  \/ ChipLost \/ EmergencyTimeout \/ BackoffTimeout \/ RxNotify

Continue(c) ==
  \/ PostEvent(c) \/ LowLevelDone(c) \/ CallBack(c) \/ ApplDone(c)
  \/ ReleaseAppl(c) \/ ReturnUser(c) \/ SendMore(c) \/ UnlockLL(c)

Next == Send \/ Tcpip \/ Environment \/ \E c \in Contexts : Continue(c)

Spec == Init /\ [][Next]_vars

(* The scheduler runs whoever may run, and a running timer expires.        *)
Fairness ==
  /\ WF_vars(Tcpip)
  /\ \A c \in Contexts : WF_vars(Continue(c))
  /\ WF_vars(EmergencyTimeout)
  /\ WF_vars(BackoffTimeout)

FairSpec == Spec /\ Fairness

-----------------------------------------------------------------------------
TypeOK ==
  /\ phase \in [Frames -> Phases]
  /\ calls \in [Requests -> 0..2]
  /\ handle \in [Requests -> Slots \cup {0}]
  /\ used \subseteq Slots
  /\ frame \in [Slots -> Frames \cup {NoFrame}]
  /\ done \in [Slots -> Callbacks]
  /\ applQ \in Seq(Slots)
  /\ llQ \in Seq(Slots)
  /\ lock \in BOOLEAN /\ lockLL \in BOOLEAN
  /\ current \in Slots \cup {0}
  /\ events \in Seq(Events) /\ Len(events) <= QueueSize
  /\ emergency \in BOOLEAN /\ backoff \in BOOLEAN
  /\ chipCb \in BOOLEAN
  /\ air \in Seq(Slots)
  /\ todo \in [Contexts -> Seq(Steps)]
  /\ hijacked \in BOOLEAN /\ late \in BOOLEAN
  /\ lost \subseteq Events

Holds(c, S) == \E i \in 1..Len(todo[c]) : todo[c][i] \in S
Coming(e) ==
  \/ \E i \in 1..Len(events) : events[i] = e
  \/ \E c \in Contexts : Holds(c, {Post(e)})
Due(e) == Coming(e) \/ e \in lost
Owning == {Unlock, Arm, GiveUp, LLDone(TRUE), LLDone(FALSE)} \cup {Hand(s) : s \in Slots}
SlotsOf(q) == {q[i] : i \in 1..Len(q)}

(* A frame waiting for the chip is forgotten in one way only: while        *)
(* send_data_list is not empty, a frame is being sent (lock_ll), or a      *)
(* SEND_NEXT_LL event is queued or about to be posted, or the last post of *)
(* that event was refused to a timer.  send_data_callback_func posts the   *)
(* event before it clears lock_ll, and an event met with lock_ll set is    *)
(* thrown away: only the priorities keep the reader out of that window.    *)
NoLostWakeupLL == llQ # <<>> => lockLL \/ Due("SEND_NEXT_LL")

(* A set lock_ll always has an owner that will clear it: tcpip_t is on its *)
(* way through ZW_SendData, a context is inside send_data_callback_func,   *)
(* or the emergency timer runs for the frame at the head of the list.      *)
LockLLOwned ==
  lockLL => \/ \E c \in Contexts : Holds(c, Owning)
            \/ emergency /\ llQ # <<>>

(* Nor an application frame: while session_list is not empty and nothing   *)
(* is being sent, the backoff timer runs or SEND_NEXT is coming, unless    *)
(* the last post of SEND_NEXT was refused to a timer.                      *)
NoLostWakeup == applQ # <<>> => lock \/ backoff \/ Due("SEND_NEXT")

(* The next queued frame is sent after each that was completed, whatever   *)
(* completed it: "send next" (sl_zw_send_data.c:229) and "the next element *)
(* will only be send when contiki has scheduled the event" (:133).  The    *)
(* code breaks it when a timer completes the frame or ends the backoff.    *)
NextIsSent ==
  /\ llQ # <<>> => lockLL \/ Coming("SEND_NEXT_LL")
  /\ applQ # <<>> => lock \/ backoff \/ Coming("SEND_NEXT")

(* No sender is called back twice, and none whose frame is still queued    *)
(* has been called back, unless a freed block was taken over before its    *)
(* callback was read.                                                      *)
CallbackAtMostOnce ==
  ~hijacked => /\ \A r \in Requests : calls[r] <= 1
               /\ \A s \in SlotsOf(applQ) : calls[frame[s]] = 0

(* The two lists hold allocated blocks only, each block once and on one    *)
(* list, and a block on its way to a callback is on neither.               *)
ListsDisjoint ==
  ~hijacked =>
    /\ SlotsOf(applQ) \cup SlotsOf(llQ) \subseteq used
    /\ SlotsOf(applQ) \cap SlotsOf(llQ) = {}
    /\ Cardinality(SlotsOf(applQ)) = Len(applQ)
    /\ Cardinality(SlotsOf(llQ)) = Len(llQ)

(* Until the host gives up a frame the chip may still have, the chip holds *)
(* one frame at most and its callback completes the frame it was sent for. *)
OwnStatus ==
  ~late /\ air # <<>> =>
    /\ Len(air) = 1 /\ lockLL /\ chipCb
    /\ llQ # <<>> /\ Head(llQ) = Head(air)

(* A post by tcpip_t returns: it is the only reader of the event queue, so *)
(* if it ever waits for room there, nobody makes room and the whole send   *)
(* layer stops.  sl_zw_send_data.c calls the post of SEND_NEXT "async".    *)
ReaderNeverBlocks == ~Blocked("tcpip")

(* Frames wait on a list, and the event for them was refused to a timer.   *)
Stalled ==
  \/ /\ llQ # <<>> /\ ~lockLL
     /\ "SEND_NEXT_LL" \in lost /\ ~Coming("SEND_NEXT_LL")
  \/ /\ applQ # <<>> /\ ~lock /\ ~backoff
     /\ "SEND_NEXT" \in lost /\ ~Coming("SEND_NEXT")

(* Every accepted frame is called back in the end, whatever the chip does, *)
(* unless tcpip_t waits for room in the queue that only it reads, or the   *)
(* layer stands still for ever after a post that was refused to a timer.   *)
EveryFrameAnswered ==
  \A r \in Requests :
    phase[r] = "accepted" ~>
      calls[r] > 0 \/ hijacked \/ Blocked("tcpip") \/ []Stalled

-----------------------------------------------------------------------------
(* The two lists, locks, timers and contexts keep the promise made to the  *)
(* senders.  A frame is queued for SendLayer while its session is on       *)
(* session_list; the rest of its way is hidden.                            *)
Layer == INSTANCE SendLayer WITH
  phase <- [r \in Requests |-> phase[r]],
  queue <- [i \in 1..Len(applQ) |-> frame[applQ[i]]],
  confused <- hijacked

ImplementsSendLayer == Layer!Spec
=============================================================================
