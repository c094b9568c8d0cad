-------------------------- MODULE NetworkManagement --------------------------
(***************************************************************************)
(* The network management state machine (NMS) of CC_NetworkManagement.c,   *)
(* and what it shares with CC_InclusionController.c.                       *)
(*                                                                         *)
(* Commands of the IP clients run in the UDP thread and callbacks of the   *)
(* chip in sapi_t.  Most of them only post an event to manager_t, the one  *)
(* reader of a bounded queue; others assign nms.state themselves.  Three   *)
(* commands and three events assign it after a serial call that waits for  *)
(* the chip, and meanwhile the other thread may do the same: these are two *)
(* steps, and every other handler is one.                                  *)
(*                                                                         *)
(* The pointers in the events lead to stacks and statics that are used     *)
(* again before the event is handled: what is read through them is any     *)
(* value.  manager_t frees those pointers; the model takes the outcome in  *)
(* which that is harmless.                                                 *)
(* The sleep timers call back in an interrupt, where osMessageQueuePut with*)
(* osWaitForever is refused: no TIMEOUT ever reaches manager_t.  What only *)
(* a TIMEOUT leads to is left out, the handover to the SUC with it, and so *)
(* are the states of smart start, DHCP, mDNS, the probe of a node and the  *)
(* node information of a proxy inclusion, whose events nothing raises.     *)
(***************************************************************************)
EXTENDS Naturals, Sequences, FiniteSets

CONSTANTS
  Clients,       \* Z/IP clients
  QueueLen,      \* SL_CC_MANAGER_QUEUE_SIZE
  MaxCommands,   \* bound: commands of the clients
  MaxInitiates   \* bound: INCLUSION_CONTROLLER_INITIATE of other controllers

ASSUME NetworkManagementAssumption ==
  /\ QueueLen \in Nat \ {0}
  /\ MaxCommands \in Nat /\ MaxInitiates \in Nat

VARIABLES
  nms,    \* the state, operation, flags, timers and client of NMS
  queue,  \* sli_manager_queue
  mgr,    \* what manager_t has still to do: post to its own queue, or assign
  gw,     \* probe_lock, delay_neighbor_update, MyNodeID; hung in an interrupt
  chip,   \* what the chip is doing and owes a callback for
  ic,     \* handler_state of the inclusion controller
  sec,    \* whom secure inclusion runs for
  udp,    \* the command whose second half the UDP thread has still to do
  hist    \* history and the bounded counters

vars == <<nms, queue, mgr, gw, chip, ic, sec, udp, hist>>

-----------------------------------------------------------------------------
NoEvent == "none"
NoClient == "nobody"
Free == [post |-> NoEvent, next |-> NoEvent]
NoCommand == [seen |-> "IDLE", next |-> "none"]

States == {"IDLE", "WAITING_FOR_ADD", "NODE_FOUND", "WAIT_FOR_PROTOCOL",
           "WAIT_FOR_SECURE_ADD", "PREPARE_SUC_INCLUSION",
           "WAIT_FOR_NEIGHBOR_UPDATE", "WAIT_FOR_PROBE_AFTER_ADD",
           "REPLACE_FAILED_REQ", "LEARN_MODE", "LEARN_MODE_STARTED",
           "WAIT_FOR_SECURE_LEARN", "SET_DEFAULT", "PROXY_INCLUSION_WAIT_NIF",
           "SENDING_NODE_INFO", "NETWORK_UPDATE", "WAITING_FOR_PROBE",
           "WAITING_FOR_NODE_REMOVAL", "REMOVING_ASSOCIATIONS",
           "WAITING_FOR_FAIL_NODE_REMOVAL", "WAITING_FOR_NODE_NEIGH_UPDATE",
           "WAITING_FOR_RETURN_ROUTE", "WAIT_FOR_NODE_INFO_PROBE"}

(* The events a client posts, those that report on adding a node, and the  *)
(* others.                                                                 *)
CommandEvents == {"LEARN_SET", "NODE_ADD", "NODE_ADD_STOP", "REPLACE_START", "REPLACE_STOP"}
AddEvents == {"NODE_FOUND", "ADD_NODE", "PROTOCOL_DONE", "SFLND_DONE", "DONE",
              "FAILED", "NOT_PRIMARY"}
Events == CommandEvents \cup AddEvents \cup
  {"SECURITY_DONE", "NEIGHBOR_DONE", "REPLACE_DONE", "REPLACE_FAIL", "START_PROXY"}

(* The events a state does something for.                                  *)
Heeds(s) ==
  CASE s = "IDLE" -> CommandEvents \cup {"START_PROXY"}
    [] s = "WAITING_FOR_ADD" -> {"NODE_ADD_STOP", "NODE_FOUND"}
    [] s = "NODE_FOUND" -> {"ADD_NODE", "FAILED"}
    [] s = "WAIT_FOR_PROTOCOL" ->
         {"PROTOCOL_DONE", "SFLND_DONE", "DONE", "FAILED", "NOT_PRIMARY"}
    [] s = "WAIT_FOR_SECURE_ADD" -> {"SECURITY_DONE", "NODE_ADD_STOP"}
    [] s = "WAIT_FOR_NEIGHBOR_UPDATE" -> {"NEIGHBOR_DONE"}
    [] s = "REPLACE_FAILED_REQ" -> {"REPLACE_STOP", "REPLACE_FAIL", "REPLACE_DONE"}
    [] s = "LEARN_MODE" -> {"LEARN_SET"}
    [] OTHER -> {}

Init ==
  /\ nms = [state |-> "IDLE", cmd |-> "none", timer |-> FALSE, long |-> FALSE,
            client |-> NoClient]
  /\ queue = <<>> /\ mgr = Free
  /\ gw = [locked |-> FALSE, delayed |-> FALSE, idValid |-> TRUE, hung |-> FALSE]
  /\ chip = [add |-> "off", remove |-> "off", learn |-> "off", owes |-> {}]
  /\ ic = "IDLE"
  /\ sec = "idle" /\ udp = NoCommand
  /\ hist = [overtaken |-> FALSE, commands |-> 0, initiates |-> 0]

(* Mutation: posting does not wait for room.                               *)
UnboundedPost(e) == queue' = Append(queue, e)

(* nm_net_post_event from another thread than manager_t: it waits for room.*)
Post(e) == Len(queue) < QueueLen /\ queue' = Append(queue, e)

(* Starting a sleep timer that runs fails and leaves it as it is.          *)
Timed(s) == [nms EXCEPT !.state = s, !.timer = TRUE]
To(s) == [nms EXCEPT !.state = s]

(* ZW_AddNodeToNetwork with a stop mode: without a callback nothing more is*)
(* heard of the inclusion, with one the chip still reports it done.        *)
AddStopped == [chip EXCEPT !.add = "off"]
AddStopping == [chip EXCEPT !.add = "stopping"]
Learn(on) == [chip EXCEPT !.learn = IF on THEN "on" ELSE "off"]

-----------------------------------------------------------------------------
(* The commands of the clients, in the UDP thread.  A command is accepted  *)
(* from any client while NMS is idle, and then only from the client that   *)
(* was accepted last.                                                      *)
Accept(c) ==
  /\ udp = NoCommand
  /\ hist.commands < MaxCommands
  /\ nms.state = "IDLE" \/ nms.client = c

Counted == [hist EXCEPT !.commands = @ + 1]
SessionOf(c, n) == [n EXCEPT !.client = c]

(* LEARN_MODE_SET, NODE_ADD, FAILED_NODE_REPLACE                           *)
CommandPost(c, e) ==
  /\ Accept(c) /\ Post(e)
  /\ nms' = SessionOf(c, nms) /\ hist' = Counted
  /\ UNCHANGED <<mgr, gw, chip, ic, sec, udp>>

(* Commands that only leave the idle state: their callbacks reply to the   *)
(* client and assign nothing NMS is steered by.                            *)
StartedStates == {"SET_DEFAULT", "WAITING_FOR_FAIL_NODE_REMOVAL",
  "WAITING_FOR_NODE_NEIGH_UPDATE", "WAITING_FOR_RETURN_ROUTE", "WAIT_FOR_NODE_INFO_PROBE"}
Start(c, s) ==
  /\ Accept(c) /\ nms.state = "IDLE"
  /\ nms' = SessionOf(c, IF s \in {"SET_DEFAULT", "WAITING_FOR_NODE_NEIGH_UPDATE"}
                         THEN Timed(s) ELSE To(s))
  /\ gw' = [gw EXCEPT !.locked = @ /\ s # "WAIT_FOR_NODE_INFO_PROBE"]
  /\ hist' = Counted
  /\ UNCHANGED <<queue, mgr, chip, ic, sec, udp>>

(* NODE_INFORMATION_SEND                                                   *)
NodeInformationSend(c) ==
  /\ Accept(c) /\ nms.state = "IDLE"
  /\ nms' = SessionOf(c, nms)
  /\ chip' = [chip EXCEPT !.owes = @ \cup {"nodeinfo"}]
  /\ udp' = [seen |-> nms.state, next |-> "SENDING_NODE_INFO"]
  /\ hist' = Counted
  /\ UNCHANGED <<queue, mgr, gw, ic, sec>>

(* NetworkUpdateCallback: with nodes to probe, nm_send_reply_net_updated.  *)
NetworkUpdated(n, g, probe) ==
  /\ nms' = IF probe THEN [n EXCEPT !.state = "WAITING_FOR_PROBE"] ELSE n
  /\ gw' = IF probe THEN [g EXCEPT !.locked = FALSE] ELSE g

(* NETWORK_UPDATE_REQUEST, which the chip accepts, or refuses because the  *)
(* gateway is the SUC or there is none.                                    *)
NetworkUpdate(c) ==
  /\ Accept(c) /\ nms.state = "IDLE"
  /\ hist' = Counted
  /\ \/ /\ chip' = [chip EXCEPT !.owes = @ \cup {"netupdate"}]
        /\ udp' = [seen |-> nms.state, next |-> "NETWORK_UPDATE"]
        /\ nms' = SessionOf(c, nms)
        /\ UNCHANGED gw
     \/ /\ \E probe \in BOOLEAN : NetworkUpdated(SessionOf(c, nms), gw, probe)
        /\ UNCHANGED <<chip, udp>>
  /\ UNCHANGED <<queue, mgr, ic, sec>>

(* NODE_REMOVE                                                             *)
NodeRemove(c) ==
  /\ Accept(c) /\ nms.state \in {"IDLE", "WAITING_FOR_NODE_REMOVAL"}
  /\ nms' = SessionOf(c, nms)
  /\ chip' = [chip EXCEPT !.remove = "asked"]
  /\ udp' = [seen |-> nms.state, next |-> "WAITING_FOR_NODE_REMOVAL"]
  /\ hist' = Counted
  /\ UNCHANGED <<queue, mgr, gw, ic, sec>>

(* RemoveTimerExpired in a thread: the chip is told to stop, without a     *)
(* callback, and nm_remove_node_status_update is called with               *)
(* REMOVE_NODE_STATUS_FAILED.                                              *)
RemoveEnded(n) ==
  /\ chip' = [chip EXCEPT !.remove = "off"]
  /\ nms' = [n EXCEPT !.long = FALSE]

NodeRemoveStop(c) ==
  /\ Accept(c) /\ nms.state \in {"IDLE", "WAITING_FOR_NODE_REMOVAL"}
  /\ RemoveEnded(SessionOf(c, nms))
  /\ hist' = Counted
  /\ UNCHANGED <<queue, mgr, gw, ic, sec, udp>>

(* Mutation: the state is not assigned.                                    *)
NoAssignState ==
  /\ udp # NoCommand /\ udp' = NoCommand
  /\ UNCHANGED <<nms, queue, mgr, gw, chip, ic, sec, hist>>

(* The assignment to nms.state after the serial call.  It is overtaken when*)
(* the state it was to replace is gone or the chip has already answered.   *)
StillOwed(s) ==
  CASE s = "SENDING_NODE_INFO" -> "nodeinfo" \in chip.owes
    [] s = "NETWORK_UPDATE" -> "netupdate" \in chip.owes
    [] s = "WAITING_FOR_NODE_REMOVAL" -> chip.remove # "off"
Overtaken(b) == [hist EXCEPT !.overtaken = @ \/ b]

AssignState ==
  /\ udp # NoCommand
  /\ nms' = To(udp.next)
  /\ hist' = Overtaken(nms.state # udp.seen \/ ~StillOwed(udp.next))
  /\ udp' = NoCommand
  /\ UNCHANGED <<queue, mgr, gw, chip, ic, sec>>

-----------------------------------------------------------------------------
(* Callbacks of the chip, in sapi_t.                                       *)

(* What ZW_AddNodeToNetwork may report next, and where that leaves it.     *)
AddSteps ==
  {<<"ready", "NODE_FOUND", "found">>, <<"found", "ADD_NODE", "adding">>,
   <<"adding", "SFLND_DONE", "skipped">>, <<"adding", "PROTOCOL_DONE", "protocol">>,
   <<"skipped", "PROTOCOL_DONE", "protocol">>, <<"stopping", "DONE", "off">>,
   <<"ready", "NOT_PRIMARY", "off">>} \cup
  {<<s, "FAILED", "off">> : s \in {"ready", "found", "adding", "skipped", "protocol", "stopping"}}

(* nm_add_node_status_update, with the event that has the status' number.  *)
AddReport(e) ==
  /\ \E t \in AddSteps :
       chip.add = t[1] /\ e = t[2] /\ chip' = [chip EXCEPT !.add = t[3]]
  /\ Post(e)
  /\ UNCHANGED <<nms, mgr, gw, ic, sec, udp, hist>>

(* nm_remove_node_status_update.  REMOVE_NODE_STATUS_DONE assigns the state*)
(* without looking at it.                                                  *)
RemoveReport ==
  /\ \/ /\ chip.remove = "asked"
        /\ chip' = [chip EXCEPT !.remove = "ready"]
        /\ nms' = [nms EXCEPT !.long = TRUE]
        /\ UNCHANGED hist
     \/ /\ chip.remove = "ready"
        /\ chip' = [chip EXCEPT !.remove = "removing"]
        /\ UNCHANGED <<nms, hist>>
     \/ /\ chip.remove = "removing"
        /\ RemoveEnded(To("REMOVING_ASSOCIATIONS"))
        /\ hist' = Overtaken(nms.state \notin {"WAITING_FOR_NODE_REMOVAL", "IDLE"})
     \/ /\ chip.remove \in {"ready", "removing"}
        /\ RemoveEnded(nms)
        /\ UNCHANGED hist
  /\ UNCHANGED <<queue, mgr, gw, ic, sec, udp>>

(* The NIF is out: nm_net_reset_state, whatever the state is.              *)
NodeInformationSent ==
  /\ "nodeinfo" \in chip.owes
  /\ chip' = [chip EXCEPT !.owes = @ \ {"nodeinfo"}]
  /\ nms' = [nms EXCEPT !.state = "IDLE", !.cmd = "none"]
  /\ hist' = Overtaken(nms.state \notin {"SENDING_NODE_INFO", "IDLE"})
  /\ UNCHANGED <<queue, mgr, gw, ic, sec, udp>>

NetworkUpdateDone ==
  /\ "netupdate" \in chip.owes
  /\ chip' = [chip EXCEPT !.owes = @ \ {"netupdate"}]
  /\ \E probe \in BOOLEAN :
       /\ NetworkUpdated(nms, gw, probe)
       /\ hist' = Overtaken(probe /\ nms.state \notin {"NETWORK_UPDATE", "IDLE"})
  /\ UNCHANGED <<queue, mgr, ic, sec, udp>>

(* nm_replace_failed_node_status_update                                    *)
ReplaceReport(e) ==
  /\ e \in {"REPLACE_DONE", "REPLACE_FAIL"} /\ "replace" \in chip.owes
  /\ chip' = [chip EXCEPT !.owes = @ \ {"replace"}]
  /\ Post(e)
  /\ UNCHANGED <<nms, mgr, gw, ic, sec, udp, hist>>

(* RequestNodeNeighborUpdat_callback_after_s2_inclusion                    *)
NeighborReport ==
  /\ "neighbor" \in chip.owes
  /\ chip' = [chip EXCEPT !.owes = @ \ {"neighbor"}]
  /\ IF nms.state = "WAIT_FOR_NEIGHBOR_UPDATE" THEN Post("NEIGHBOR_DONE") ELSE UNCHANGED queue
  /\ UNCHANGED <<nms, mgr, gw, ic, sec, udp, hist>>

(* nm_learn_mode_status_update.  LEARN_MODE_STARTED takes the gateway its  *)
(* identifier; DONE gives it one again.  FAILED leaves the state alone.    *)
Learning == nms.state \in {"LEARN_MODE", "LEARN_MODE_STARTED"}

LearnStarted ==
  /\ chip.learn = "on"
  /\ chip' = [chip EXCEPT !.learn = "started"]
  /\ nms' = IF Learning THEN To("LEARN_MODE_STARTED") ELSE nms
  /\ gw' = [gw EXCEPT !.idValid = @ /\ ~Learning]
  /\ UNCHANGED <<queue, mgr, ic, sec, udp, hist>>

(* Mutation: the identifier is not read back.                              *)
ForgetfulLearnDone ==
  /\ chip.learn = "started" /\ chip' = Learn(FALSE)
  /\ nms' = IF Learning THEN To("WAIT_FOR_SECURE_LEARN") ELSE nms
  /\ UNCHANGED <<queue, mgr, gw, ic, sec, udp, hist>>

(* The gateway was excluded: security is simulated done, and then the state*)
(* is assigned again.                                                      *)
LearnDone ==
  /\ chip.learn = "started"
  /\ chip' = Learn(FALSE)
  /\ gw' = [gw EXCEPT !.idValid = @ \/ Learning]
  /\ \E excluded \in BOOLEAN :
       /\ nms' = IF Learning
                 THEN To(IF excluded THEN "SET_DEFAULT" ELSE "WAIT_FOR_SECURE_LEARN")
                 ELSE nms
       /\ IF Learning /\ excluded THEN Post("SECURITY_DONE") ELSE UNCHANGED queue
  /\ UNCHANGED <<mgr, ic, sec, udp, hist>>

LearnFailed ==
  /\ chip.learn = "started"
  /\ chip' = Learn(FALSE)
  /\ gw' = [gw EXCEPT !.locked = @ /\ ~Learning]
  /\ UNCHANGED <<nms, queue, mgr, ic, sec, udp, hist>>

-----------------------------------------------------------------------------
(* The sleep timers of NMS, in their interrupt.                            *)

(* nm_timer_timeout_cb: the post of TIMEOUT is refused.                    *)
Timer ==
  /\ nms.timer /\ nms' = [nms EXCEPT !.timer = FALSE]
  /\ UNCHANGED <<queue, mgr, gw, chip, ic, sec, udp, hist>>

(* RemoveTimerExpired: ZW_RemoveNodeFromNetwork is refused the mutex and   *)
(* talks to the chip without it.  It is not delayed between its attempts,  *)
(* and it waits for bytes by a tick count that may stand still.            *)
LongTimer ==
  /\ nms.long /\ nms' = [nms EXCEPT !.long = FALSE]
  /\ \/ chip' = [chip EXCEPT !.remove = "off"] /\ UNCHANGED gw
     \/ UNCHANGED <<chip, gw>>      \* twenty attempts failed
     \/ gw' = [gw EXCEPT !.hung = TRUE] /\ UNCHANGED chip
  /\ UNCHANGED <<queue, mgr, ic, sec, udp, hist>>

-----------------------------------------------------------------------------
(* The inclusion controller and secure inclusion.                          *)
IcStates == {"IDLE", "WAIT_FOR_ADD"}

(* security_add_begin, whose result nobody looks at: it does nothing while *)
(* secure inclusion is busy or if the node is secure already.              *)
AddBegin == \/ sec = "idle" /\ sec' = "nm"
            \/ UNCHANGED sec

(* INCLUSION_CONTROLLER_INITIATE from another controller.  Nothing ends the*)
(* proxy inclusion that begins.                                            *)
IcInitiate ==
  /\ hist.initiates < MaxInitiates
  /\ hist' = [hist EXCEPT !.initiates = @ + 1]
  /\ ic = "IDLE" /\ ic' = "WAIT_FOR_ADD"
  /\ Post("START_PROXY")
  /\ UNCHANGED <<nms, mgr, gw, chip, sec, udp>>

(* The secure inclusion of the node has ended: nm_secure_inclusion_done,   *)
(* which sapi_t calls.                                                     *)
SecureDone ==
  /\ sec = "nm" /\ sec' = "idle"
  /\ Post("SECURITY_DONE")
  /\ UNCHANGED <<nms, mgr, gw, chip, ic, udp, hist>>

-----------------------------------------------------------------------------
(* sl_manager_thread takes an event and hands it to the state it meets.  A *)
(* handler that posts to the queue waits for room like any other thread.   *)
Take(s, e) ==
  /\ mgr = Free /\ queue # <<>>
  /\ nms.state = s /\ Head(queue) = e
  /\ queue' = Tail(queue)
  /\ UNCHANGED udp

Posts(e) == mgr' = [mgr EXCEPT !.post = e]
PostsNothing == UNCHANGED mgr
AssignsLater(s) == mgr' = [mgr EXCEPT !.next = s]

SelfPost ==
  /\ mgr.post # NoEvent /\ Post(mgr.post)
  /\ mgr' = Free
  /\ UNCHANGED <<nms, gw, chip, ic, sec, udp, hist>>

(* Mutation: the event is looked at and stays in the queue.                *)
PeekIgnore ==
  /\ mgr = Free /\ queue # <<>>
  /\ Head(queue) \notin Heeds(nms.state)
  /\ UNCHANGED vars

Ignore ==
  /\ mgr = Free /\ queue # <<>>
  /\ Head(queue) \notin Heeds(nms.state)
  /\ queue' = Tail(queue)
  /\ UNCHANGED <<nms, mgr, gw, chip, ic, sec, udp, hist>>

(* nm_net_idle_state_handler: these three talk to the chip and then assign *)
(* the state.                                                              *)
NodeAdd ==
  /\ Take("IDLE", "NODE_ADD")
  /\ chip' = [chip EXCEPT !.add = "ready"]
  /\ AssignsLater("WAITING_FOR_ADD")
  /\ UNCHANGED <<nms, gw, ic, sec, hist>>

StartProxy ==
  /\ Take("IDLE", "START_PROXY")
  /\ \E cmd \in {"add", "replace"} : nms' = [nms EXCEPT !.cmd = cmd]
  /\ AssignsLater("PROXY_INCLUSION_WAIT_NIF")
  /\ UNCHANGED <<gw, chip, ic, sec, hist>>

(* nm_net_learn_set; disable and unknown modes do nothing.                 *)
LearnSet ==
  /\ Take("IDLE", "LEARN_SET")
  /\ \/ chip' = AddStopped /\ AssignsLater("LEARN_MODE")
     \/ PostsNothing /\ UNCHANGED chip
  /\ UNCHANGED <<nms, gw, ic, sec, hist>>

(* The rest of these three.                                                *)
ManagerAssigns ==
  /\ mgr.next # NoEvent
  /\ CASE mgr.next = "WAITING_FOR_ADD" ->
            nms' = [Timed(mgr.next) EXCEPT !.cmd = "add"] /\ UNCHANGED chip
       [] mgr.next = "LEARN_MODE" ->
            nms' = Timed(mgr.next) /\ chip' = Learn(TRUE)
       [] OTHER -> nms' = Timed(mgr.next) /\ UNCHANGED chip
  /\ hist' = Overtaken(nms.state # "IDLE")
  /\ mgr' = Free
  /\ UNCHANGED <<queue, gw, ic, sec, udp>>

IdleAddStop ==
  /\ Take("IDLE", "NODE_ADD_STOP")
  /\ PostsNothing /\ UNCHANGED <<nms, gw, chip, ic, sec, hist>>

(* nm_learn_timer_expired, which only a cancel calls: learn mode is        *)
(* disabled, and the status callback is called with LEARN_MODE_FAILED.     *)
LearnTimerExpired ==
  /\ chip' = Learn(FALSE)
  /\ gw' = [gw EXCEPT !.locked = FALSE]

LearnCancel ==
  /\ Take("LEARN_MODE", "LEARN_SET")
  /\ \/ LearnTimerExpired
     \/ UNCHANGED <<chip, gw>>     \* another mode
  /\ PostsNothing /\ UNCHANGED <<nms, ic, sec, hist>>

(* nm_net_node_replace_fail                                                *)
ReplaceStart ==
  /\ Take("IDLE", "REPLACE_START")
  /\ \/ /\ chip' = [AddStopped EXCEPT !.owes = @ \cup {"replace"}]
        /\ nms' = [Timed("REPLACE_FAILED_REQ") EXCEPT !.cmd = "replace"]
     \/ /\ chip' = AddStopped    \* not started
        /\ nms' = [To("REPLACE_FAILED_REQ") EXCEPT !.cmd = "replace"]
  /\ PostsNothing /\ UNCHANGED <<gw, ic, sec, hist>>

IdleReplaceStop ==
  /\ Take("IDLE", "REPLACE_STOP")
  /\ nms' = [To("REPLACE_FAILED_REQ") EXCEPT !.cmd = "replace"]
  /\ PostsNothing /\ UNCHANGED <<gw, chip, ic, sec, hist>>

(* nm_net_replace_failed_req_handler                                       *)
ReplaceEnds ==
  /\ \E e \in {"REPLACE_STOP", "REPLACE_FAIL"} : Take("REPLACE_FAILED_REQ", e)
  /\ chip' = AddStopped
  /\ PostsNothing /\ UNCHANGED <<nms, gw, ic, sec, hist>>

(* The node is in the network.  The probe lock is taken, and the node goes *)
(* to the inclusion controller of the network, to S0 inclusion, or needs   *)
(* neither.                                                                *)
Included(n) ==
  \/ nms' = [n EXCEPT !.state = "PREPARE_SUC_INCLUSION", !.timer = TRUE]
     /\ PostsNothing /\ UNCHANGED sec
  \/ /\ nms' = [n EXCEPT !.state = "WAIT_FOR_SECURE_ADD"]
     /\ \/ PostsNothing /\ AddBegin
        \/ Posts("SECURITY_DONE") /\ UNCHANGED sec

ReplaceDone ==
  /\ Take("REPLACE_FAILED_REQ", "REPLACE_DONE")
  /\ gw' = [gw EXCEPT !.locked = TRUE]
  /\ Included(nms)
  /\ UNCHANGED <<chip, ic, hist>>

(* nm_net_waiting_add_handler                                              *)
WaitingAddStop ==
  /\ Take("WAITING_FOR_ADD", "NODE_ADD_STOP")
  /\ chip' = AddStopping
  /\ PostsNothing /\ UNCHANGED <<nms, gw, ic, sec, hist>>

NodeFound ==
  /\ Take("WAITING_FOR_ADD", "NODE_FOUND")
  /\ nms' = Timed("NODE_FOUND")
  /\ PostsNothing /\ UNCHANGED <<gw, chip, ic, sec, hist>>

(* nm_net_node_found_handler reads the length and the source in            *)
(* learnNodeInfo, which later reports of the chip have overwritten.        *)
NodeKnown ==
  /\ Take("NODE_FOUND", "ADD_NODE")
  /\ \/ nms' = Timed("WAIT_FOR_PROTOCOL") /\ PostsNothing
     \/ Posts("FAILED") /\ UNCHANGED nms
  /\ UNCHANGED <<gw, chip, ic, sec, hist>>

(* Adding failed, in NODE_FOUND and WAIT_FOR_PROTOCOL.                     *)
AddFails ==
  /\ \/ Take("NODE_FOUND", "FAILED")
     \/ \E e \in {"FAILED", "NOT_PRIMARY"} : Take("WAIT_FOR_PROTOCOL", e)
  /\ chip' = AddStopped
  /\ gw' = [gw EXCEPT !.locked = FALSE]
  /\ PostsNothing /\ UNCHANGED <<nms, ic, sec, hist>>

(* nm_net_wait_protocol_handler                                            *)
ProtocolDone ==
  /\ Take("WAIT_FOR_PROTOCOL", "PROTOCOL_DONE")
  /\ chip' = AddStopping
  /\ PostsNothing /\ UNCHANGED <<nms, gw, ic, sec, hist>>

SkippedNeighbors ==
  /\ Take("WAIT_FOR_PROTOCOL", "SFLND_DONE")
  /\ gw' = [gw EXCEPT !.delayed = TRUE]
  /\ PostsNothing /\ UNCHANGED <<nms, chip, ic, sec, hist>>

(* sli_nm_net_wait_add_node_done_handler.  A node that was included before *)
(* needs nothing more; for any other the timer runs while it is included.  *)
AddNodeDone ==
  /\ Take("WAIT_FOR_PROTOCOL", "DONE")
  /\ chip' = AddStopped
  /\ \/ /\ nms' = Timed("WAIT_FOR_SECURE_ADD")
        /\ Posts("SECURITY_DONE") /\ UNCHANGED <<gw, sec>>
     \/ /\ gw' = [gw EXCEPT !.locked = TRUE]
        /\ Included([nms EXCEPT !.timer = TRUE])
  /\ UNCHANGED <<ic, hist>>

(* Mutation: the lock stays taken.                                         *)
KeepingSecureAddDone ==
  /\ \E e \in {"SECURITY_DONE", "NODE_ADD_STOP"} : Take("WAIT_FOR_SECURE_ADD", e)
  /\ IF gw.delayed
     THEN /\ nms' = Timed("WAIT_FOR_NEIGHBOR_UPDATE")
          /\ chip' = [chip EXCEPT !.owes = @ \cup {"neighbor"}]
          /\ gw' = [gw EXCEPT !.delayed = FALSE]
     ELSE /\ nms' = [To("WAIT_FOR_PROBE_AFTER_ADD") EXCEPT !.timer = FALSE]
          /\ UNCHANGED <<gw, chip>>
  /\ PostsNothing /\ UNCHANGED <<ic, sec, hist>>

(* sli_nm_net_wait_secure_done_handler                                     *)
SecureAddDone ==
  /\ \E e \in {"SECURITY_DONE", "NODE_ADD_STOP"} : Take("WAIT_FOR_SECURE_ADD", e)
  /\ IF gw.delayed
     THEN /\ nms' = Timed("WAIT_FOR_NEIGHBOR_UPDATE")
          /\ chip' = [chip EXCEPT !.owes = @ \cup {"neighbor"}]
          /\ gw' = [gw EXCEPT !.delayed = FALSE]
     ELSE /\ nms' = [To("WAIT_FOR_PROBE_AFTER_ADD") EXCEPT !.timer = FALSE]
          /\ gw' = [gw EXCEPT !.locked = FALSE]
          /\ UNCHANGED chip
  /\ PostsNothing /\ UNCHANGED <<ic, sec, hist>>

(* nm_net_neighbor_update_handler                                          *)
NeighborUpdateDone ==
  /\ Take("WAIT_FOR_NEIGHBOR_UPDATE", "NEIGHBOR_DONE")
  /\ nms' = To("WAIT_FOR_PROBE_AFTER_ADD")
  /\ gw' = [gw EXCEPT !.locked = FALSE]
  /\ PostsNothing /\ UNCHANGED <<chip, ic, sec, hist>>

-----------------------------------------------------------------------------
Manager ==
  \/ SelfPost \/ ManagerAssigns \/ Ignore
  \/ NodeAdd \/ IdleAddStop \/ StartProxy \/ LearnSet \/ LearnCancel
  \/ ReplaceStart \/ IdleReplaceStop \/ ReplaceEnds \/ ReplaceDone
  \/ WaitingAddStop \/ NodeFound \/ NodeKnown \/ AddFails
  \/ ProtocolDone \/ SkippedNeighbors \/ AddNodeDone
  \/ SecureAddDone \/ NeighborUpdateDone

ClientStep ==
  \/ \E c \in Clients :
       \/ \E e \in CommandEvents : CommandPost(c, e)
       \/ \E s \in StartedStates : Start(c, s)
       \/ NodeInformationSend(c) \/ NetworkUpdate(c) \/ NodeRemove(c) \/ NodeRemoveStop(c)
  \/ AssignState

ChipStep ==
  \/ \E e \in AddEvents : AddReport(e)
  \/ RemoveReport \/ NodeInformationSent \/ NetworkUpdateDone
  \/ \E e \in {"REPLACE_DONE", "REPLACE_FAIL"} : ReplaceReport(e)
  \/ NeighborReport \/ LearnStarted \/ LearnDone \/ LearnFailed

(* An interrupt that does not return stops everything.                     *)
Runs(A) == ~gw.hung /\ A

Next == Runs(Manager \/ ClientStep \/ ChipStep \/ IcInitiate \/ SecureDone
             \/ Timer \/ LongTimer)

(* manager_t runs whenever it has an event, timers expire, and the serial  *)
(* calls of the UDP thread return.  The chip, the clients, other           *)
(* controllers and secure inclusion owe nothing.                           *)
Fairness ==
  /\ WF_vars(Runs(Manager)) /\ WF_vars(Runs(AssignState))
  /\ WF_vars(Runs(Timer)) /\ WF_vars(Runs(LongTimer))

Spec == Init /\ [][Next]_vars /\ Fairness

-----------------------------------------------------------------------------
Ongoing == ~hist.overtaken

(* Each variable has its type.                                             *)
Nms == [state : States, cmd : {"none", "add", "replace"}, timer : BOOLEAN,
        long : BOOLEAN, client : Clients \cup {NoClient}]
Gateways == [locked : BOOLEAN, delayed : BOOLEAN, idValid : BOOLEAN, hung : BOOLEAN]
Chips == [add : {"off", "ready", "found", "adding", "skipped", "protocol", "stopping"},
          remove : {"off", "asked", "ready", "removing"},
          learn : {"off", "on", "started"},
          owes : SUBSET {"nodeinfo", "netupdate", "replace", "neighbor"}]
Histories == [overtaken : BOOLEAN, commands : 0..MaxCommands,
              initiates : 0..MaxInitiates]
TypeOK ==
  /\ nms \in Nms
  /\ queue \in Seq(Events) /\ Len(queue) <= QueueLen
  /\ mgr \in [post : Events \cup {NoEvent}, next : States \cup {NoEvent}]
  /\ gw \in Gateways
  /\ chip \in Chips
  /\ ic \in IcStates
  /\ sec \in {"idle", "nm"}
  /\ udp \in [seen : States, next : States \cup {NoEvent}]
  /\ hist \in Histories

(* The probe lock is held only while a node that was added or replaced is  *)
(* made secure: three threads assign nms.state, and none leaves the lock   *)
(* behind in a state that does not give it back.                           *)
LockOnlyWhileAdding ==
  Ongoing /\ gw.locked =>
    nms.state \in {"WAIT_FOR_SECURE_ADD", "PREPARE_SUC_INCLUSION", "WAIT_FOR_NEIGHBOR_UPDATE"}

(* The gateway is without an identifier only while it is learning one: no  *)
(* command that needs MyNodeID is accepted then.                           *)
InvalidIdOnlyLearning == Ongoing /\ ~gw.idValid => nms.state = "LEARN_MODE_STARTED"

(* Adding, removing and learning exclude each other on the chip.           *)
OneChipMode ==
  Ongoing /\ udp = NoCommand /\ mgr.next = NoEvent =>
    Cardinality({m \in {"add", "remove", "learn"} : chip[m] # "off"}) <= 1

(* manager_t waits for room in the queue that only it empties.             *)
ManagerStuck == mgr.post # NoEvent /\ Len(queue) = QueueLen

(* Every event is taken from the queue: unless manager_t waits for room in *)
(* it, or an interrupt does not return, nobody waits for ever.             *)
QueueServed == []<>(queue = <<>> \/ ManagerStuck \/ gw.hung)
=============================================================================
