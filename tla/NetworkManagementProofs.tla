----------------------- MODULE NetworkManagementProofs -----------------------
(* Theorems about NetworkManagement, for every number of clients and all    *)
(* bounds.                                                                  *)
EXTENDS NetworkManagement, SequenceTheorems, FiniteSetTheorems, TLAPS

-----------------------------------------------------------------------------
(* The second halves of the commands and of the events, which end an idle   *)
(* state if nothing has overtaken them.                                     *)
CommandHalves ==
  udp = NoCommand \/
    /\ udp.seen \in {"IDLE", "WAITING_FOR_NODE_REMOVAL"}
    /\ udp.next \in {"SENDING_NODE_INFO", "NETWORK_UPDATE", "WAITING_FOR_NODE_REMOVAL"}
    /\ udp.seen = "IDLE" \/ udp.next = "WAITING_FOR_NODE_REMOVAL"
EventHalves ==
  /\ mgr.post = NoEvent \/ mgr.next = NoEvent
  /\ mgr.next \in {NoEvent, "WAITING_FOR_ADD", "LEARN_MODE", "PROXY_INCLUSION_WAIT_NIF"}
TypeInv == TypeOK /\ CommandHalves /\ EventHalves

(* What the chip does is known from the state, or is about to be.           *)
ModeOfState ==
  /\ chip.add # "off" => \/ nms.state \in {"WAITING_FOR_ADD", "NODE_FOUND", "WAIT_FOR_PROTOCOL"}
                         \/ mgr.next = "WAITING_FOR_ADD"
  /\ chip.remove # "off" => \/ nms.state = "WAITING_FOR_NODE_REMOVAL"
                            \/ udp.next = "WAITING_FOR_NODE_REMOVAL"
  /\ chip.learn # "off" => Learning
IdOfState == gw.idValid \/ nms.state = "LEARN_MODE_STARTED"

(* The probe lock is held in three states.                                  *)
Locking ==
  {"WAIT_FOR_SECURE_ADD", "PREPARE_SUC_INCLUSION", "WAIT_FOR_NEIGHBOR_UPDATE"}
LockOfState == gw.locked => nms.state \in Locking

Steered == ModeOfState /\ IdOfState /\ LockOfState
IInv == TypeInv /\ (Ongoing => Steered)

-----------------------------------------------------------------------------
(* Types.                                                                  *)
LEMMA Posting ==
  ASSUME TypeOK, NEW e \in Events, Post(e)
  PROVE  queue' \in Seq(Events) /\ Len(queue') <= QueueLen
<1>1. queue' = Append(queue, e) /\ Len(queue) < QueueLen /\ queue \in Seq(Events)
  BY DEF Post, TypeOK
<1>2. Len(queue') = Len(queue) + 1 /\ queue' \in Seq(Events) /\ Len(queue) \in Nat
  BY <1>1
<1> QED
  BY <1>1, <1>2, NetworkManagementAssumption

LEMMA Taking ==
  ASSUME TypeOK, queue # <<>>, queue' = Tail(queue)
  PROVE  queue' \in Seq(Events) /\ Len(queue') <= QueueLen
<1>1. queue \in Seq(Events) /\ Len(queue) <= QueueLen /\ Len(queue) \in Nat /\ Len(queue) > 0
  BY DEF TypeOK
<1>2. queue' \in Seq(Events) /\ Len(queue') = Len(queue) - 1
  BY <1>1
<1> QED
  BY <1>1, <1>2, NetworkManagementAssumption

(* The records are typed after each assignment to a field.                  *)
LEMMA NmsTyped ==
  ASSUME NEW n \in Nms
  PROVE  /\ \A s \in States : [n EXCEPT !.state = s] \in Nms
         /\ \A s \in States : [n EXCEPT !.state = s, !.timer = TRUE] \in Nms
         /\ \A b \in BOOLEAN : [n EXCEPT !.timer = b] \in Nms
         /\ \A b \in BOOLEAN : [n EXCEPT !.long = b] \in Nms
         /\ \A c \in Clients : [n EXCEPT !.client = c] \in Nms
         /\ \A m \in {"none", "add", "replace"} : [n EXCEPT !.cmd = m] \in Nms
         /\ n.state \in States /\ n.timer \in BOOLEAN
BY DEF Nms

LEMMA StateTyped ==
  ASSUME TypeOK, NEW s \in States
  PROVE  Timed(s) \in Nms /\ To(s) \in Nms
BY NmsTyped DEF TypeOK, Timed, To

LEMMA ChipTyped ==
  ASSUME TypeOK
  PROVE  /\ AddStopped \in Chips /\ AddStopping \in Chips
         /\ \A b \in BOOLEAN : Learn(b) \in Chips
         /\ \A s \in {"off", "ready", "found", "adding", "skipped", "protocol", "stopping"} :
              [chip EXCEPT !.add = s] \in Chips
         /\ \A s \in {"off", "asked", "ready", "removing"} : [chip EXCEPT !.remove = s] \in Chips
         /\ \A s \in {"off", "on", "started"} : [chip EXCEPT !.learn = s] \in Chips
         /\ \A d \in {"nodeinfo", "netupdate", "replace", "neighbor"} :
              /\ [chip EXCEPT !.owes = @ \cup {d}] \in Chips
              /\ [chip EXCEPT !.owes = @ \ {d}] \in Chips
              /\ [AddStopped EXCEPT !.owes = @ \cup {d}] \in Chips
BY DEF TypeOK, Chips, AddStopped, AddStopping, Learn

LEMMA GatewayTyped ==
  ASSUME TypeOK
  PROVE  /\ \A b \in BOOLEAN : /\ [gw EXCEPT !.locked = b] \in Gateways
                               /\ [gw EXCEPT !.delayed = b] \in Gateways
                               /\ [gw EXCEPT !.idValid = b] \in Gateways
                               /\ [gw EXCEPT !.hung = b] \in Gateways
         /\ \A b \in BOOLEAN : /\ [gw EXCEPT !.locked = @ /\ b] \in Gateways
                               /\ [gw EXCEPT !.idValid = @ /\ b] \in Gateways
                               /\ [gw EXCEPT !.idValid = @ \/ b] \in Gateways
         /\ gw.locked \in BOOLEAN /\ gw.delayed \in BOOLEAN /\ gw.idValid \in BOOLEAN
BY DEF TypeOK, Gateways

LEMMA HistoryTyped ==
  ASSUME TypeOK
  PROVE  /\ hist.commands < MaxCommands => Counted \in Histories
         /\ hist.initiates < MaxInitiates => [hist EXCEPT !.initiates = @ + 1] \in Histories
         /\ \A b \in BOOLEAN : Overtaken(b) \in Histories
<1>1. hist \in Histories /\ hist.commands \in 0..MaxCommands /\ hist.initiates \in 0..MaxInitiates
  BY DEF TypeOK, Histories
<1>2. hist.commands < MaxCommands => hist.commands + 1 \in 0..MaxCommands
  BY <1>1, NetworkManagementAssumption
<1>3. hist.initiates < MaxInitiates => hist.initiates + 1 \in 0..MaxInitiates
  BY <1>1, NetworkManagementAssumption
<1> QED
  BY <1>1, <1>2, <1>3 DEF Histories, Counted, Overtaken

(* The queue after an event is posted or taken.                             *)
QueueTyped == queue' \in Seq(Events) /\ Len(queue') <= QueueLen

LEMMA PostTyped == ASSUME TypeOK, NEW e \in Events, Post(e) PROVE QueueTyped
BY Posting DEF QueueTyped

LEMMA TakeTyped ==
  ASSUME TypeInv, NEW s, NEW e, Take(s, e)
  PROVE  QueueTyped /\ UNCHANGED udp /\ mgr = Free
BY Taking DEF QueueTyped, Take, TypeInv

LEMMA SessionTyped ==
  ASSUME NEW n \in Nms, NEW c \in Clients
  PROVE  SessionOf(c, n) \in Nms /\ SessionOf(c, n).state = n.state
BY DEF SessionOf, Nms

LEMMA RemoveEndedTyped ==
  ASSUME TypeOK, NEW n \in Nms, RemoveEnded(n)
  PROVE  chip' \in Chips /\ nms' \in Nms
BY ChipTyped, NmsTyped DEF RemoveEnded

LEMMA NetworkUpdatedTyped ==
  ASSUME TypeOK, NEW n \in Nms, NEW probe \in BOOLEAN, NetworkUpdated(n, gw, probe)
  PROVE  gw' \in Gateways /\ nms' \in Nms
<1>1. "WAITING_FOR_PROBE" \in States
  BY DEF States
<1> QED
  BY <1>1, NmsTyped, GatewayTyped DEF NetworkUpdated, TypeOK

LEMMA TypeCommands ==
  ASSUME TypeInv, NEW c \in Clients
  PROVE  /\ \A e \in CommandEvents : CommandPost(c, e) => TypeInv'
         /\ \A s \in StartedStates : Start(c, s) => TypeInv'
         /\ NodeInformationSend(c) => TypeInv'
         /\ NetworkUpdate(c) => TypeInv'
         /\ NodeRemove(c) => TypeInv'
         /\ NodeRemoveStop(c) => TypeInv'
<1> USE DEF TypeInv, TypeOK, CommandHalves, EventHalves, QueueTyped
<1>1. SessionOf(c, nms) \in Nms
  BY SessionTyped
<1>2. Accept(c) => Counted \in Histories
  BY HistoryTyped DEF Accept
<1>3. ASSUME NEW e \in CommandEvents, CommandPost(c, e) PROVE TypeInv'
  <2>1. QueueTyped
    BY <1>3, PostTyped DEF CommandPost, Events
  <2> QED
    BY <1>1, <1>2, <1>3, <2>1 DEF CommandPost
<1>4. ASSUME NEW s \in StartedStates, Start(c, s) PROVE TypeInv'
  <2>1. s \in States
    BY DEF StartedStates, States
  <2>2. nms' \in Nms
    BY <1>4, <2>1, StateTyped, SessionTyped DEF Start
  <2>3. gw' \in Gateways
    BY <1>4, GatewayTyped DEF Start
  <2> QED
    BY <1>2, <1>4, <2>2, <2>3 DEF Start
<1>5. ASSUME NodeInformationSend(c) PROVE TypeInv'
  <2>1. chip' \in Chips
    BY <1>5, ChipTyped DEF NodeInformationSend
  <2>2. udp' \in [seen : States, next : States \cup {NoEvent}] /\ CommandHalves'
    BY <1>5 DEF NodeInformationSend, States
  <2> QED
    BY <1>1, <1>2, <1>5, <2>1, <2>2 DEF NodeInformationSend
<1>6. ASSUME NetworkUpdate(c) PROVE TypeInv'
  <2>1. chip' \in Chips
    BY <1>6, ChipTyped DEF NetworkUpdate
  <2>2. udp' \in [seen : States, next : States \cup {NoEvent}] /\ CommandHalves'
    BY <1>6 DEF NetworkUpdate, States
  <2>3. gw' \in Gateways /\ nms' \in Nms
    BY <1>1, <1>6, NetworkUpdatedTyped DEF NetworkUpdate
  <2> QED
    BY <1>2, <1>6, <2>1, <2>2, <2>3 DEF NetworkUpdate
<1>7. ASSUME NodeRemove(c) PROVE TypeInv'
  <2>1. chip' \in Chips
    BY <1>7, ChipTyped DEF NodeRemove
  <2>2. udp' \in [seen : States, next : States \cup {NoEvent}] /\ CommandHalves'
    BY <1>7 DEF NodeRemove, States
  <2> QED
    BY <1>1, <1>2, <1>7, <2>1, <2>2 DEF NodeRemove
<1>8. ASSUME NodeRemoveStop(c) PROVE TypeInv'
  <2>1. chip' \in Chips /\ nms' \in Nms
    BY <1>1, <1>8, RemoveEndedTyped DEF NodeRemoveStop
  <2> QED
    BY <1>2, <1>8, <2>1 DEF NodeRemoveStop
<1> QED
  BY <1>3, <1>4, <1>5, <1>6, <1>7, <1>8

LEMMA TypeAssignState == ASSUME TypeInv, AssignState PROVE TypeInv'
<1>1. udp.next \in States
  BY DEF AssignState, TypeInv, CommandHalves, States
<1>2. nms' \in Nms
  BY <1>1, StateTyped DEF AssignState, TypeInv
<1>3. PICK b \in BOOLEAN : hist' = Overtaken(b)
  BY DEF AssignState
<1>4. hist' \in Histories
  BY <1>3, HistoryTyped DEF TypeInv
<1>5. udp' \in [seen : States, next : States \cup {NoEvent}] /\ CommandHalves'
  BY DEF AssignState, NoCommand, NoEvent, States, CommandHalves
<1> QED
  BY <1>2, <1>4, <1>5 DEF AssignState, TypeInv, TypeOK, EventHalves

LEMMA AddStepsTyped ==
  ASSUME NEW t \in AddSteps
  PROVE  /\ t[1] \in {"ready", "found", "adding", "skipped", "protocol", "stopping"}
         /\ t[3] \in {"off", "found", "adding", "skipped", "protocol"}
<1>1. CASE \E s \in {"ready", "found", "adding", "skipped", "protocol", "stopping"} :
             t = <<s, "FAILED", "off">>
  BY <1>1
<1>2. CASE t \in {<<"ready", "NODE_FOUND", "found">>, <<"found", "ADD_NODE", "adding">>,
   <<"adding", "SFLND_DONE", "skipped">>, <<"adding", "PROTOCOL_DONE", "protocol">>,
   <<"skipped", "PROTOCOL_DONE", "protocol">>, <<"stopping", "DONE", "off">>,
   <<"ready", "NOT_PRIMARY", "off">>}
  BY <1>2
<1> QED
  BY <1>1, <1>2 DEF AddSteps

LEMMA TypeChip == ASSUME TypeInv, ChipStep PROVE TypeInv'
<1> USE DEF TypeInv, TypeOK, CommandHalves, EventHalves, QueueTyped
<1>0. "WAITING_FOR_PROBE" \in States /\ "REMOVING_ASSOCIATIONS" \in States
      /\ "LEARN_MODE_STARTED" \in States /\ "SET_DEFAULT" \in States
      /\ "WAIT_FOR_SECURE_LEARN" \in States /\ "IDLE" \in States
  BY DEF States
<1>1. ASSUME NEW e \in AddEvents, AddReport(e) PROVE TypeInv'
  <2>1. QueueTyped
    BY <1>1, PostTyped DEF AddReport, Events
  <2>2. chip' \in Chips
    BY <1>1, ChipTyped, AddStepsTyped DEF AddReport
  <2> QED
    BY <1>1, <2>1, <2>2 DEF AddReport
<1>2. ASSUME RemoveReport PROVE TypeInv'
  <2>1. To("REMOVING_ASSOCIATIONS") \in Nms
    BY <1>0, StateTyped
  <2>2. chip' \in Chips /\ nms' \in Nms
    BY <1>2, <2>1, RemoveEndedTyped, ChipTyped, NmsTyped DEF RemoveReport
  <2>3. hist' \in Histories
    BY <1>2, HistoryTyped DEF RemoveReport
  <2> QED
    BY <1>2, <2>2, <2>3 DEF RemoveReport
<1>3. ASSUME NodeInformationSent PROVE TypeInv'
  <2>1. chip' \in Chips
    BY <1>3, ChipTyped DEF NodeInformationSent
  <2>2. nms' \in Nms
    BY <1>0, <1>3 DEF NodeInformationSent, Nms
  <2>3. hist' \in Histories
    BY <1>3, HistoryTyped DEF NodeInformationSent
  <2> QED
    BY <1>3, <2>1, <2>2, <2>3 DEF NodeInformationSent
<1>4. ASSUME NetworkUpdateDone PROVE TypeInv'
  <2>1. chip' \in Chips
    BY <1>4, ChipTyped DEF NetworkUpdateDone
  <2>2. gw' \in Gateways /\ nms' \in Nms
    BY <1>4, NetworkUpdatedTyped DEF NetworkUpdateDone
  <2>3. hist' \in Histories
    BY <1>4, HistoryTyped DEF NetworkUpdateDone
  <2> QED
    BY <1>4, <2>1, <2>2, <2>3 DEF NetworkUpdateDone
<1>5. ASSUME NEW e \in {"REPLACE_DONE", "REPLACE_FAIL"}, ReplaceReport(e) PROVE TypeInv'
  <2>1. QueueTyped
    BY <1>5, PostTyped DEF ReplaceReport, Events
  <2>2. chip' \in Chips
    BY <1>5, ChipTyped DEF ReplaceReport
  <2> QED
    BY <1>5, <2>1, <2>2 DEF ReplaceReport
<1>6. ASSUME NeighborReport PROVE TypeInv'
  <2>1. QueueTyped
    BY <1>6, PostTyped DEF NeighborReport, Events
  <2>2. chip' \in Chips
    BY <1>6, ChipTyped DEF NeighborReport
  <2> QED
    BY <1>6, <2>1, <2>2 DEF NeighborReport
<1>7. ASSUME LearnStarted PROVE TypeInv'
  <2>1. chip' \in Chips /\ nms' \in Nms
    BY <1>0, <1>7, ChipTyped, StateTyped DEF LearnStarted
  <2>2. gw' \in Gateways
    BY <1>7, GatewayTyped DEF LearnStarted, Learning
  <2> QED
    BY <1>7, <2>1, <2>2 DEF LearnStarted
<1>8. ASSUME LearnDone PROVE TypeInv'
  <2>1. chip' \in Chips /\ nms' \in Nms
    BY <1>0, <1>8, ChipTyped, StateTyped DEF LearnDone
  <2>2. gw' \in Gateways
    BY <1>8, GatewayTyped DEF LearnDone, Learning
  <2>3. QueueTyped
    BY <1>8, PostTyped DEF LearnDone, Events
  <2> QED
    BY <1>8, <2>1, <2>2, <2>3 DEF LearnDone
<1>9. ASSUME LearnFailed PROVE TypeInv'
  <2>1. chip' \in Chips
    BY <1>9, ChipTyped DEF LearnFailed
  <2>2. gw' \in Gateways
    BY <1>9, GatewayTyped DEF LearnFailed, Learning
  <2> QED
    BY <1>9, <2>1, <2>2 DEF LearnFailed
<1> QED
  BY <1>1, <1>2, <1>3, <1>4, <1>5, <1>6, <1>7, <1>8, <1>9 DEF ChipStep

LEMMA TypeTimers == ASSUME TypeInv, Timer \/ LongTimer PROVE TypeInv'
<1> USE DEF TypeInv, TypeOK, CommandHalves, EventHalves
<1>1. CASE Timer
  BY <1>1, NmsTyped DEF Timer
<1>2. CASE LongTimer
  <2>1. nms' \in Nms
    BY <1>2, NmsTyped DEF LongTimer
  <2>2. chip' \in Chips /\ gw' \in Gateways
    BY <1>2, ChipTyped, GatewayTyped DEF LongTimer
  <2> QED
    BY <1>2, <2>1, <2>2 DEF LongTimer
<1> QED
  BY <1>1, <1>2

LEMMA TypeController == ASSUME TypeInv, IcInitiate \/ SecureDone PROVE TypeInv'
<1> USE DEF TypeInv, TypeOK, CommandHalves, EventHalves, QueueTyped
<1>1. CASE IcInitiate
  <2>1. QueueTyped
    BY <1>1, PostTyped DEF IcInitiate, Events
  <2>2. hist' \in Histories /\ ic' \in IcStates
    BY <1>1, HistoryTyped DEF IcInitiate, IcStates
  <2> QED
    BY <1>1, <2>1, <2>2 DEF IcInitiate
<1>2. CASE SecureDone
  <2>1. QueueTyped
    BY <1>2, PostTyped DEF SecureDone, Events
  <2> QED
    BY <1>2, <2>1 DEF SecureDone
<1> QED
  BY <1>1, <1>2

(* What manager_t has still to do once it took an event.                    *)
ManagerTyped ==
  mgr' \in [post : Events \cup {NoEvent}, next : States \cup {NoEvent}] /\ EventHalves'

LEMMA PostsTyped ==
  ASSUME mgr = Free
  PROVE  /\ \A e \in Events : Posts(e) => ManagerTyped
         /\ PostsNothing => ManagerTyped
         /\ \A s \in {"WAITING_FOR_ADD", "LEARN_MODE", "PROXY_INCLUSION_WAIT_NIF"} :
              AssignsLater(s) => ManagerTyped
<1>1. ASSUME NEW e \in Events, Posts(e) PROVE ManagerTyped
  BY <1>1 DEF Posts, ManagerTyped, EventHalves, Free
<1>2. ASSUME PostsNothing PROVE ManagerTyped
  BY <1>2 DEF PostsNothing, ManagerTyped, EventHalves, Free
<1>3. ASSUME NEW s \in {"WAITING_FOR_ADD", "LEARN_MODE", "PROXY_INCLUSION_WAIT_NIF"}, AssignsLater(s)
      PROVE  ManagerTyped
  BY <1>3 DEF AssignsLater, ManagerTyped, EventHalves, Free, States
<1> QED
  BY <1>1, <1>2, <1>3

LEMMA TypeSelfPost == ASSUME TypeInv, SelfPost PROVE TypeInv'
<1>1. mgr.post \in Events
  BY DEF SelfPost, TypeInv, TypeOK
<1>2. QueueTyped
  BY <1>1, PostTyped DEF SelfPost, TypeInv
<1>3. ManagerTyped
  BY DEF SelfPost, ManagerTyped, EventHalves, Free
<1> QED
  BY <1>2, <1>3 DEF SelfPost, TypeInv, TypeOK, CommandHalves, QueueTyped, ManagerTyped

LEMMA TypeIgnore == ASSUME TypeInv, Ignore PROVE TypeInv'
<1>1. QueueTyped
  BY Taking DEF Ignore, TypeInv, QueueTyped
<1> QED
  BY <1>1 DEF Ignore, TypeInv, TypeOK, CommandHalves, EventHalves, QueueTyped

LEMMA TypeManagerAssigns == ASSUME TypeInv, ManagerAssigns PROVE TypeInv'
<1>1. mgr.next \in {"WAITING_FOR_ADD", "LEARN_MODE", "PROXY_INCLUSION_WAIT_NIF"}
  BY DEF ManagerAssigns, TypeInv, EventHalves
<1>2. mgr.next \in States
  BY <1>1 DEF States
<1>3. Timed(mgr.next) \in Nms
  BY <1>2, StateTyped DEF TypeInv
<1>4. [Timed(mgr.next) EXCEPT !.cmd = "add"] \in Nms
  <2> DEFINE n == Timed(mgr.next)
  <2> HIDE DEF n
  <2>1. n \in Nms
    BY <1>3 DEF n
  <2>2. [n EXCEPT !.cmd = "add"] \in Nms
    BY <2>1, NmsTyped
  <2> QED
    BY <2>2 DEF n
<1>5. nms' \in Nms /\ chip' \in Chips
  BY <1>1, <1>3, <1>4, ChipTyped DEF ManagerAssigns, TypeInv, TypeOK
<1>6. hist' \in Histories
  BY HistoryTyped DEF ManagerAssigns, TypeInv
<1>7. ManagerTyped
  BY DEF ManagerAssigns, ManagerTyped, EventHalves, Free
<1> QED
  BY <1>5, <1>6, <1>7 DEF ManagerAssigns, TypeInv, TypeOK, CommandHalves, ManagerTyped

(* An event was taken, and each variable is typed.                          *)
LEMMA TypeTaken ==
  ASSUME TypeInv, NEW s, NEW e, Take(s, e), ManagerTyped,
         nms' \in Nms, chip' \in Chips, gw' \in Gateways, ic' \in IcStates,
         sec' \in {"idle", "nm"}, hist' \in Histories
  PROVE  TypeInv'
BY TakeTyped DEF TypeInv, TypeOK, CommandHalves, ManagerTyped, QueueTyped

LEMMA IncludedTyped ==
  ASSUME TypeOK, mgr = Free, NEW n \in Nms, Included(n)
  PROVE  nms' \in Nms /\ ManagerTyped /\ sec' \in {"idle", "nm"}
<1>1. "SECURITY_DONE" \in Events
  BY DEF Events
<1>2. "PREPARE_SUC_INCLUSION" \in States /\ "WAIT_FOR_SECURE_ADD" \in States
  BY DEF States
<1>3. nms' \in Nms
  BY <1>2, NmsTyped DEF Included
<1>4. ManagerTyped
  BY <1>1, PostsTyped DEF Included
<1>5. sec' \in {"idle", "nm"}
  BY DEF AddBegin, Included, TypeOK
<1> QED
  BY <1>3, <1>4, <1>5

LEMMA TypeTakes ==
  ASSUME TypeInv,
         \/ NodeAdd \/ IdleAddStop \/ StartProxy \/ LearnSet \/ LearnCancel
         \/ ReplaceStart \/ IdleReplaceStop \/ ReplaceEnds \/ ReplaceDone
         \/ WaitingAddStop \/ NodeFound \/ NodeKnown \/ AddFails
         \/ ProtocolDone \/ SkippedNeighbors \/ AddNodeDone
         \/ SecureAddDone \/ NeighborUpdateDone
  PROVE  TypeInv'
<1> USE TypeTaken, TakeTyped, PostsTyped, ChipTyped, GatewayTyped, HistoryTyped
<1>0. /\ nms \in Nms /\ chip \in Chips /\ gw \in Gateways /\ ic \in IcStates
      /\ sec \in {"idle", "nm"} /\ hist \in Histories /\ TypeOK
  BY DEF TypeInv, TypeOK
<1>s. /\ "IDLE" \in States /\ "REPLACE_FAILED_REQ" \in States /\ "NODE_FOUND" \in States
      /\ "WAIT_FOR_PROTOCOL" \in States /\ "WAIT_FOR_SECURE_ADD" \in States
      /\ "WAIT_FOR_NEIGHBOR_UPDATE" \in States
      /\ "WAIT_FOR_PROBE_AFTER_ADD" \in States /\ "LEARN_MODE" \in States
  BY DEF States
<1>e. /\ "FAILED" \in Events /\ "SECURITY_DONE" \in Events
  BY DEF Events, AddEvents, CommandEvents
<1>n. \A s \in States : To(s) \in Nms /\ Timed(s) \in Nms
  BY <1>0, StateTyped
<1>1. CASE NodeAdd
  BY <1>0, <1>1 DEF NodeAdd
<1>2. CASE IdleAddStop
  BY <1>0, <1>2 DEF IdleAddStop
<1>3. CASE StartProxy
  BY <1>0, <1>3, NmsTyped DEF StartProxy
<1>5. CASE LearnSet
  <2>1. chip' \in Chips /\ (mgr = Free => ManagerTyped)
    BY <1>0, <1>5 DEF LearnSet
  <2> QED
    BY <1>0, <1>5, <2>1 DEF LearnSet
<1>6. CASE LearnCancel
  <2>1. chip' \in Chips /\ gw' \in Gateways /\ hist' \in Histories
    BY <1>0, <1>6 DEF LearnCancel, LearnTimerExpired
  <2> QED
    BY <1>0, <1>6, <2>1 DEF LearnCancel
<1>8. CASE ReplaceStart
  <2>1. nms' \in Nms
    BY <1>0, <1>s, <1>8 DEF ReplaceStart, Nms, Timed, To
  <2>2. chip' \in Chips
    BY <1>0, <1>8 DEF ReplaceStart
  <2> QED
    BY <1>0, <1>8, <2>1, <2>2 DEF ReplaceStart
<1>9. CASE IdleReplaceStop
  <2>1. nms' \in Nms
    BY <1>0, <1>s, <1>9 DEF IdleReplaceStop, Nms, To
  <2> QED
    BY <1>0, <1>9, <2>1 DEF IdleReplaceStop
<1>10. CASE ReplaceEnds
  BY <1>0, <1>10 DEF ReplaceEnds
<1>11. CASE ReplaceDone
  <2>1. nms' \in Nms /\ ManagerTyped /\ sec' \in {"idle", "nm"}
    BY <1>0, <1>11, IncludedTyped DEF ReplaceDone
  <2> QED
    BY <1>0, <1>11, <2>1 DEF ReplaceDone
<1>12. CASE WaitingAddStop
  BY <1>0, <1>12 DEF WaitingAddStop
<1>13. CASE NodeFound
  BY <1>0, <1>s, <1>n, <1>13 DEF NodeFound
<1>14. CASE NodeKnown
  <2>1. nms' \in Nms /\ (mgr = Free => ManagerTyped)
    BY <1>0, <1>s, <1>e, <1>n, <1>14 DEF NodeKnown
  <2> QED
    BY <1>0, <1>14, <2>1 DEF NodeKnown
<1>15. CASE AddFails
  BY <1>0, <1>15 DEF AddFails
<1>16. CASE ProtocolDone
  BY <1>0, <1>16 DEF ProtocolDone
<1>17. CASE SkippedNeighbors
  BY <1>0, <1>17 DEF SkippedNeighbors
<1>18. CASE AddNodeDone
  <2>1. [nms EXCEPT !.timer = TRUE] \in Nms
    BY <1>0, NmsTyped
  <2>2. nms' \in Nms /\ ManagerTyped /\ sec' \in {"idle", "nm"}
    BY <1>0, <1>s, <1>e, <1>n, <1>18, <2>1, IncludedTyped DEF AddNodeDone
  <2>3. chip' \in Chips /\ gw' \in Gateways
    BY <1>0, <1>18 DEF AddNodeDone
  <2> QED
    BY <1>0, <1>18, <2>2, <2>3 DEF AddNodeDone
<1>22. CASE SecureAddDone
  <2>1. [To("WAIT_FOR_PROBE_AFTER_ADD") EXCEPT !.timer = FALSE] \in Nms
    <3> DEFINE n == To("WAIT_FOR_PROBE_AFTER_ADD")
    <3>1. n \in Nms
      BY <1>s, <1>n
    <3> HIDE DEF n
    <3>2. [n EXCEPT !.timer = FALSE] \in Nms
      BY <3>1, NmsTyped
    <3> QED
      BY <3>2 DEF n
  <2>2. nms' \in Nms /\ gw' \in Gateways /\ chip' \in Chips
    BY <1>0, <1>s, <1>n, <1>22, <2>1 DEF SecureAddDone
  <2> QED
    BY <1>0, <1>22, <2>2 DEF SecureAddDone
<1>23. CASE NeighborUpdateDone
  BY <1>0, <1>s, <1>n, <1>23 DEF NeighborUpdateDone
<1> QED
  BY <1>1, <1>2, <1>3, <1>5, <1>6, <1>8, <1>9, <1>10, <1>11, <1>12, <1>13, <1>14,
     <1>15, <1>16, <1>17, <1>18, <1>22, <1>23

LEMMA TypeNext == ASSUME TypeInv, [Next]_vars PROVE TypeInv'
<1>1. CASE UNCHANGED vars
  BY <1>1 DEF vars, TypeInv, TypeOK, CommandHalves, EventHalves
<1>2. CASE Manager
  BY <1>2, TypeSelfPost, TypeIgnore, TypeManagerAssigns, TypeTakes DEF Manager
<1>3. CASE ClientStep
  BY <1>3, TypeCommands, TypeAssignState DEF ClientStep
<1> QED
  BY <1>1, <1>2, <1>3, TypeChip, TypeTimers, TypeController DEF Next, Runs

LEMMA TypeInit == ASSUME Init PROVE TypeInv
<1> USE NetworkManagementAssumption DEF Init
<1>1. nms \in Nms /\ gw \in Gateways /\ chip \in Chips /\ ic \in IcStates
  BY DEF Nms, Gateways, Chips, States, IcStates
<1>2. queue \in Seq(Events) /\ Len(queue) <= QueueLen
  OBVIOUS
<1>3. hist \in Histories
  BY DEF Histories
<1>4. udp \in [seen : States, next : States \cup {NoEvent}]
  BY DEF NoCommand, NoEvent, States
<1> QED
  BY <1>1, <1>2, <1>3, <1>4 DEF TypeInv, TypeOK, CommandHalves, EventHalves, Free

THEOREM TypeInvariance == Spec => []TypeInv
<1>1. Init => TypeInv
  BY TypeInit
<1>2. TypeInv /\ [Next]_vars => TypeInv'
  BY TypeNext
<1> QED
  BY <1>1, <1>2, PTL DEF Spec

(* The state of NMS, its timers and counters, the queue of manager_t, which *)
(* never outgrows its length, and the inclusion controller keep their types.*)
THEOREM TypeCorrect == Spec => []TypeOK
BY TypeInvariance, PTL DEF TypeInv

-----------------------------------------------------------------------------
(* The state and what it says of the chip, the identifier and the lock.     *)
LEMMA Overtaking ==
  ASSUME TypeOK, NEW b \in BOOLEAN, hist' = Overtaken(b), Ongoing'
  PROVE  Ongoing /\ ~b
BY DEF TypeOK, Histories, Overtaken, Ongoing

LEMMA Counting ==
  ASSUME TypeOK, Ongoing',
         \/ hist' = Counted
         \/ hist' = [hist EXCEPT !.initiates = @ + 1]
         \/ UNCHANGED hist
  PROVE  Ongoing
BY DEF TypeOK, Histories, Counted, Ongoing

(* The steps that leave the state as it is and begin nothing.               *)
LEMMA SteeredKept ==
  ASSUME Steered, nms'.state = nms.state,
         mgr'.next = mgr.next, udp'.next = udp.next,
         chip'.add # "off" => chip.add # "off",
         chip'.remove # "off" => chip.remove # "off",
         chip'.learn # "off" => chip.learn # "off",
         gw'.idValid = gw.idValid, gw'.locked => gw.locked
  PROVE  Steered'
BY DEF Steered, ModeOfState, IdOfState, LockOfState, Learning

(* From the idle state the machine goes to a state of its own.              *)
LEMMA IdleFields ==
  ASSUME Steered, nms.state = "IDLE"
  PROVE  /\ ~gw.locked /\ gw.idValid /\ chip.learn = "off"
         /\ chip.add # "off" => mgr.next = "WAITING_FOR_ADD"
         /\ chip.remove # "off" => udp.next = "WAITING_FOR_NODE_REMOVAL"
BY DEF Steered, ModeOfState, IdOfState, LockOfState, Learning, Locking

(* What an exclusion or a session of a client leaves of the records.        *)
LEMMA SessionFields ==
  ASSUME NEW n \in Nms, NEW c
  PROVE  SessionOf(c, n).state = n.state /\ SessionOf(c, n).cmd = n.cmd
         /\ SessionOf(c, n).timer = n.timer
BY DEF SessionOf, Nms

LEMMA RemoveEndedFields ==
  ASSUME TypeOK, NEW n \in Nms, RemoveEnded(n)
  PROVE  /\ nms'.state = n.state /\ nms'.cmd = n.cmd /\ nms'.timer = n.timer
         /\ chip'.remove = "off" /\ chip'.add = chip.add /\ chip'.learn = chip.learn
BY DEF TypeOK, RemoveEnded, Nms, Chips

LEMMA NetworkUpdatedFields ==
  ASSUME TypeOK, NEW n \in Nms, NEW probe \in BOOLEAN, NetworkUpdated(n, gw, probe)
  PROVE  /\ nms'.state = IF probe THEN "WAITING_FOR_PROBE" ELSE n.state
         /\ nms'.cmd = n.cmd /\ nms'.timer = n.timer
         /\ gw'.idValid = gw.idValid
         /\ gw'.locked = IF probe THEN FALSE ELSE gw.locked
BY DEF TypeOK, NetworkUpdated, Nms, Gateways

LEMMA SteeredCommands ==
  ASSUME TypeInv, Ongoing => Steered, Ongoing', NEW c \in Clients,
         \/ \E e \in CommandEvents : CommandPost(c, e)
         \/ \E s \in StartedStates : Start(c, s)
         \/ NodeInformationSend(c) \/ NetworkUpdate(c) \/ NodeRemove(c) \/ NodeRemoveStop(c)
  PROVE  Steered'
<1>1. hist' = Counted /\ Ongoing /\ Steered
  BY Counting
  DEF TypeInv, CommandPost, Start, NodeInformationSend, NetworkUpdate, NodeRemove, NodeRemoveStop
<1>2. nms \in Nms /\ chip \in Chips /\ gw \in Gateways /\ TypeOK
  BY DEF TypeInv, TypeOK
<1>3. SessionOf(c, nms).state = nms.state /\ SessionOf(c, nms).cmd = nms.cmd /\ SessionOf(c, nms) \in Nms
  BY <1>2, SessionFields, SessionTyped
<1>4. ASSUME NEW e \in CommandEvents, CommandPost(c, e) PROVE Steered'
  BY <1>1, <1>3, <1>4, SteeredKept DEF CommandPost
<1>5. ASSUME NEW s \in StartedStates, Start(c, s) PROVE Steered'
  <2>1. nms.state = "IDLE" /\ nms'.state = s /\ UNCHANGED <<chip, mgr, udp>>
    BY <1>3, <1>5 DEF Start, Timed, To, SessionOf, Nms
  <2>2. gw'.idValid = gw.idValid /\ (gw'.locked => gw.locked)
    BY <1>2, <1>5 DEF Start, Gateways
  <2>3. s \notin {"REPLACE_FAILED_REQ"}
    BY DEF StartedStates
  <2> QED
    BY <1>1, <2>1, <2>2, <2>3, IdleFields DEF Steered, ModeOfState, IdOfState, LockOfState
<1>6. ASSUME NodeInformationSend(c) PROVE Steered'
  <2>1. nms.state = "IDLE" /\ nms'.state = "IDLE" /\ UNCHANGED <<gw, mgr>>
    BY <1>3, <1>6 DEF NodeInformationSend
  <2>2. chip'.add = chip.add /\ chip'.remove = chip.remove /\ chip'.learn = chip.learn
    BY <1>2, <1>6 DEF NodeInformationSend, Chips
  <2>3. udp = NoCommand
    BY <1>6 DEF NodeInformationSend, Accept
  <2> QED
    BY <1>1, <2>1, <2>2, <2>3, IdleFields
    DEF Steered, ModeOfState, IdOfState, LockOfState, NoCommand
<1>7. ASSUME NetworkUpdate(c) PROVE Steered'
  <2>1. nms.state = "IDLE" /\ udp = NoCommand /\ UNCHANGED mgr
    BY <1>7 DEF NetworkUpdate, Accept
  <2>2. chip'.add = chip.add /\ chip'.remove = chip.remove /\ chip'.learn = chip.learn
    BY <1>2, <1>7 DEF NetworkUpdate, Chips
  <2>3. nms'.state \in {"IDLE", "WAITING_FOR_PROBE"} /\ gw'.idValid = gw.idValid
        /\ (gw'.locked => gw.locked)
    BY <1>2, <1>3, <1>7, <2>1, NetworkUpdatedFields DEF NetworkUpdate
  <2> QED
    BY <1>1, <2>1, <2>2, <2>3, IdleFields
    DEF Steered, ModeOfState, IdOfState, LockOfState, NoCommand
<1>8. ASSUME NodeRemove(c) PROVE Steered'
  <2>1. nms'.state = nms.state /\ nms'.cmd = nms.cmd /\ UNCHANGED <<gw, mgr>>
    BY <1>3, <1>8 DEF NodeRemove
  <2>2. chip'.add = chip.add /\ chip'.learn = chip.learn
    BY <1>2, <1>8 DEF NodeRemove, Chips
  <2>3. udp'.next = "WAITING_FOR_NODE_REMOVAL"
    BY <1>8 DEF NodeRemove
  <2> QED
    BY <1>1, <2>1, <2>2, <2>3 DEF Steered, ModeOfState, IdOfState, LockOfState, Learning
<1>9. ASSUME NodeRemoveStop(c) PROVE Steered'
  BY <1>1, <1>2, <1>3, <1>9, RemoveEndedFields, SteeredKept DEF NodeRemoveStop
<1> QED
  BY <1>4, <1>5, <1>6, <1>7, <1>8, <1>9

LEMMA SteeredAssignState ==
  ASSUME TypeInv, Ongoing => Steered, Ongoing', AssignState
  PROVE  Steered'
<1>1. PICK b \in BOOLEAN : hist' = Overtaken(b) /\ b = (nms.state # udp.seen \/ ~StillOwed(udp.next))
  BY DEF AssignState
<1>2. Ongoing /\ ~b
  BY <1>1, Overtaking DEF TypeInv
<1>3. Steered /\ nms.state = udp.seen
  BY <1>1, <1>2
<1>4. /\ udp.seen \in {"IDLE", "WAITING_FOR_NODE_REMOVAL"}
      /\ udp.next \in {"SENDING_NODE_INFO", "NETWORK_UPDATE", "WAITING_FOR_NODE_REMOVAL"}
      /\ udp.seen = "IDLE" \/ udp.next = "WAITING_FOR_NODE_REMOVAL"
  BY DEF AssignState, TypeInv, CommandHalves
<1>5. nms'.state = udp.next /\ UNCHANGED <<chip, mgr, gw>>
  BY DEF AssignState, TypeInv, TypeOK, To, Nms
<1>6. ~gw.locked /\ gw.idValid /\ chip.learn = "off"
      /\ (chip.add # "off" => mgr.next = "WAITING_FOR_ADD")
      /\ (chip.remove # "off" => udp.next = "WAITING_FOR_NODE_REMOVAL")
  BY <1>3, <1>4 DEF Steered, ModeOfState, IdOfState, LockOfState, Learning, Locking
<1> QED
  BY <1>4, <1>5, <1>6 DEF Steered, ModeOfState, IdOfState, LockOfState, Learning

LEMMA SteeredChip ==
  ASSUME TypeInv, Ongoing => Steered, Ongoing', ChipStep
  PROVE  Steered'
<1>0. nms \in Nms /\ chip \in Chips /\ gw \in Gateways /\ TypeOK
  BY DEF TypeInv, TypeOK
<1>1. ASSUME NEW e \in AddEvents, AddReport(e) PROVE Steered'
  <2>1. PICK t \in AddSteps : chip.add = t[1] /\ chip' = [chip EXCEPT !.add = t[3]]
    BY <1>1 DEF AddReport
  <2>2. chip.add # "off" /\ chip'.remove = chip.remove /\ chip'.learn = chip.learn
    BY <1>0, <2>1, AddStepsTyped DEF Chips
  <2>3. Steered /\ UNCHANGED <<nms, mgr, gw, udp>>
    BY <1>1, <1>0, Counting DEF AddReport
  <2> QED
    BY <2>2, <2>3, SteeredKept
<1>2. ASSUME RemoveReport PROVE Steered'
  <2>0. UNCHANGED <<mgr, gw, udp>>
    BY <1>2 DEF RemoveReport
  <2>1. CASE /\ chip.remove # "off" /\ UNCHANGED hist
             /\ \E s \in {"ready", "removing"} : chip' = [chip EXCEPT !.remove = s]
             /\ nms' = [nms EXCEPT !.long = TRUE] \/ UNCHANGED nms
    <3>1. nms'.state = nms.state /\ nms'.cmd = nms.cmd
      BY <1>0, <2>1 DEF Nms
    <3>2. chip'.add = chip.add /\ chip'.learn = chip.learn
      BY <1>0, <2>1 DEF Chips
    <3> QED
      BY <1>0, <2>0, <2>1, <3>1, <3>2, SteeredKept, Counting
  <2>2. CASE RemoveEnded(nms) /\ UNCHANGED hist
    BY <1>0, <2>0, <2>2, RemoveEndedFields, SteeredKept, Counting
  <2>3. CASE /\ chip.remove = "removing" /\ RemoveEnded(To("REMOVING_ASSOCIATIONS"))
             /\ hist' = Overtaken(nms.state \notin {"WAITING_FOR_NODE_REMOVAL", "IDLE"})
    <3>1. Ongoing /\ nms.state \in {"WAITING_FOR_NODE_REMOVAL", "IDLE"}
      BY <1>0, <2>3, Overtaking
    <3>2. To("REMOVING_ASSOCIATIONS") \in Nms /\ To("REMOVING_ASSOCIATIONS").state = "REMOVING_ASSOCIATIONS"
      BY <1>0 DEF To, Nms, States
    <3>3. /\ nms'.state = "REMOVING_ASSOCIATIONS" /\ chip'.remove = "off"
          /\ chip'.add = chip.add /\ chip'.learn = chip.learn
      BY <1>0, <2>3, <3>2, RemoveEndedFields
    <3> QED
      BY <2>0, <3>1, <3>3 DEF Steered, ModeOfState, IdOfState, LockOfState, Learning, Locking
  <2> QED
    BY <1>2, <2>1, <2>2, <2>3 DEF RemoveReport
<1>3. ASSUME NodeInformationSent PROVE Steered'
  <2>1. Ongoing /\ nms.state \in {"SENDING_NODE_INFO", "IDLE"}
    BY <1>0, <1>3, Overtaking DEF NodeInformationSent
  <2>2. /\ nms'.state = "IDLE" /\ UNCHANGED <<mgr, gw, udp>>
        /\ chip'.add = chip.add /\ chip'.remove = chip.remove /\ chip'.learn = chip.learn
    BY <1>0, <1>3 DEF NodeInformationSent, Nms, Chips
  <2> QED
    BY <2>1, <2>2 DEF Steered, ModeOfState, IdOfState, LockOfState, Learning, Locking
<1>4. ASSUME NetworkUpdateDone PROVE Steered'
  <2>1. PICK probe \in BOOLEAN :
          /\ NetworkUpdated(nms, gw, probe)
          /\ hist' = Overtaken(probe /\ nms.state \notin {"NETWORK_UPDATE", "IDLE"})
    BY <1>4 DEF NetworkUpdateDone
  <2>2. Ongoing /\ (probe => nms.state \in {"NETWORK_UPDATE", "IDLE"})
    BY <1>0, <2>1, Overtaking
  <2>3. /\ chip'.add = chip.add /\ chip'.remove = chip.remove /\ chip'.learn = chip.learn
        /\ UNCHANGED <<mgr, udp>>
    BY <1>0, <1>4 DEF NetworkUpdateDone, Chips
  <2>4. /\ nms'.state = IF probe THEN "WAITING_FOR_PROBE" ELSE nms.state
        /\ nms'.cmd = nms.cmd /\ gw'.idValid = gw.idValid /\ (gw'.locked => gw.locked)
    BY <1>0, <2>1, NetworkUpdatedFields
  <2> QED
    BY <2>2, <2>3, <2>4 DEF Steered, ModeOfState, IdOfState, LockOfState, Learning, Locking
<1>5. ASSUME NEW e \in {"REPLACE_DONE", "REPLACE_FAIL"}, ReplaceReport(e) PROVE Steered'
  BY <1>0, <1>5, Counting, SteeredKept DEF ReplaceReport, Chips
<1>6. ASSUME NeighborReport PROVE Steered'
  BY <1>0, <1>6, Counting, SteeredKept DEF NeighborReport, Chips
<1>7. ASSUME LearnStarted PROVE Steered'
  <2>1. Steered /\ Learning /\ UNCHANGED <<mgr, udp>>
    BY <1>0, <1>7, Counting DEF LearnStarted, Steered, ModeOfState
  <2>2. nms'.state = "LEARN_MODE_STARTED" /\ chip'.add = chip.add /\ chip'.remove = chip.remove
        /\ gw'.locked = gw.locked
    BY <1>0, <1>7, <2>1 DEF LearnStarted, Nms, Chips, Gateways, To
  <2> QED
    BY <2>1, <2>2 DEF Steered, ModeOfState, IdOfState, LockOfState, Learning, Locking
<1>8. ASSUME LearnDone PROVE Steered'
  <2>1. Steered /\ Learning /\ UNCHANGED <<mgr, udp>>
    BY <1>0, <1>8, Counting DEF LearnDone, Steered, ModeOfState
  <2>2. nms'.state \in {"SET_DEFAULT", "WAIT_FOR_SECURE_LEARN"} /\ gw'.locked = gw.locked /\ gw'.idValid
    BY <1>0, <1>8, <2>1 DEF LearnDone, Nms, Gateways, To
  <2>3. chip'.add = chip.add /\ chip'.remove = chip.remove /\ chip'.learn = "off"
    BY <1>0, <1>8 DEF LearnDone, Chips, Learn
  <2> QED
    BY <2>1, <2>2, <2>3 DEF Steered, ModeOfState, IdOfState, LockOfState, Learning, Locking
<1>9. ASSUME LearnFailed PROVE Steered'
  <2>1. chip'.add = chip.add /\ chip'.remove = chip.remove /\ chip'.learn = "off"
    BY <1>0, <1>9 DEF LearnFailed, Chips, Learn
  <2>2. gw'.idValid = gw.idValid /\ (gw'.locked => gw.locked)
    BY <1>0, <1>9 DEF LearnFailed, Gateways
  <2> QED
    BY <1>0, <1>9, <2>1, <2>2, Counting, SteeredKept DEF LearnFailed
<1> QED
  BY <1>1, <1>2, <1>3, <1>4, <1>5, <1>6, <1>7, <1>8, <1>9 DEF ChipStep

LEMMA SteeredTimers ==
  ASSUME TypeInv, Ongoing => Steered, Ongoing', Timer \/ LongTimer
  PROVE  Steered'
<1>0. nms \in Nms /\ chip \in Chips /\ gw \in Gateways /\ TypeOK
  BY DEF TypeInv, TypeOK
<1>1. CASE Timer
  BY <1>0, <1>1, Counting, SteeredKept DEF Timer, Nms
<1>2. CASE LongTimer
  <2>1. nms'.state = nms.state /\ nms'.cmd = nms.cmd
    BY <1>0, <1>2 DEF LongTimer, Nms
  <2>2. /\ chip'.add = chip.add /\ chip'.learn = chip.learn
        /\ (chip'.remove # "off" => chip.remove # "off")
    BY <1>0, <1>2 DEF LongTimer, Chips
  <2>3. gw'.idValid = gw.idValid /\ gw'.locked = gw.locked
    BY <1>0, <1>2 DEF LongTimer, Gateways
  <2> QED
    BY <1>0, <1>2, <2>1, <2>2, <2>3, Counting, SteeredKept DEF LongTimer
<1> QED
  BY <1>1, <1>2

LEMMA SteeredController ==
  ASSUME TypeInv, Ongoing => Steered, Ongoing', IcInitiate \/ SecureDone
  PROVE  Steered'
<1>1. UNCHANGED <<nms, mgr, gw, chip, udp>>
      /\ (UNCHANGED hist \/ hist' = [hist EXCEPT !.initiates = @ + 1])
  BY DEF SecureDone, IcInitiate
<1> QED
  BY <1>1, Counting, SteeredKept DEF TypeInv

LEMMA SteeredPending ==
  ASSUME TypeInv, Ongoing => Steered, Ongoing', SelfPost \/ Ignore
  PROVE  Steered'
<1>1. mgr'.next = mgr.next /\ UNCHANGED <<nms, gw, chip, udp, hist>>
  BY DEF SelfPost, Ignore, TypeInv, EventHalves, Free
<1> QED
  BY <1>1, Counting, SteeredKept DEF TypeInv

LEMMA SteeredManagerAssigns ==
  ASSUME TypeInv, Ongoing => Steered, Ongoing', ManagerAssigns
  PROVE  Steered'
<1>1. Ongoing /\ nms.state = "IDLE"
  BY DEF ManagerAssigns, Overtaken, Ongoing, TypeInv, TypeOK, Histories
<1>2. mgr.next \in {"WAITING_FOR_ADD", "LEARN_MODE", "PROXY_INCLUSION_WAIT_NIF"}
  BY DEF ManagerAssigns, TypeInv, EventHalves
<1>3. Timed(mgr.next) = [nms EXCEPT !.state = mgr.next, !.timer = TRUE] /\ nms \in Nms
  BY DEF Timed, TypeInv, TypeOK
<1>4. nms'.state = mgr.next
  BY <1>2, <1>3 DEF ManagerAssigns, Nms
<1>5. chip'.add = chip.add /\ chip'.remove = chip.remove
      /\ (chip'.learn # "off" => chip.learn # "off" \/ mgr.next = "LEARN_MODE")
  BY <1>2 DEF ManagerAssigns, TypeInv, TypeOK, Chips, Learn
<1>6. UNCHANGED <<gw, udp>>
  BY DEF ManagerAssigns
<1>7. ~gw.locked /\ gw.idValid /\ chip.learn = "off"
      /\ (chip.add # "off" => mgr.next = "WAITING_FOR_ADD")
      /\ (chip.remove # "off" => udp.next = "WAITING_FOR_NODE_REMOVAL")
  BY <1>1, IdleFields
<1> QED
  BY <1>2, <1>4, <1>5, <1>6, <1>7 DEF Steered, ModeOfState, IdOfState, LockOfState, Learning

(* manager_t has nothing left to do once it took an event, and what it      *)
(* posts afterwards is no state to assign.                                  *)
LEMMA PostsFields ==
  ASSUME mgr = Free
  PROVE  /\ mgr.next = NoEvent
         /\ \A e : Posts(e) => mgr'.next = NoEvent /\ mgr'.post = e
         /\ PostsNothing => mgr'.next = NoEvent
         /\ \A s : AssignsLater(s) => mgr'.next = s /\ mgr'.post = NoEvent
BY DEF Posts, PostsNothing, AssignsLater, Free

LEMMA IncludedFields ==
  ASSUME mgr = Free, NEW n \in Nms, Included(n)
  PROVE  /\ nms'.cmd = n.cmd /\ mgr'.next = NoEvent
         /\ \/ nms'.state = "PREPARE_SUC_INCLUSION" /\ nms'.timer = TRUE
            \/ nms'.state = "WAIT_FOR_SECURE_ADD" /\ nms'.timer = n.timer
BY PostsFields DEF Included, Nms

LEMMA ChipFields ==
  ASSUME TypeOK
  PROVE  /\ AddStopped.add = "off" /\ AddStopped.remove = chip.remove /\ AddStopped.learn = chip.learn
         /\ AddStopping.add = "stopping" /\ AddStopping.remove = chip.remove
         /\ AddStopping.learn = chip.learn
         /\ \A b \in BOOLEAN : Learn(b).add = chip.add /\ Learn(b).remove = chip.remove
         /\ Learn(FALSE).learn = "off" /\ chip \in Chips
BY DEF TypeOK, Chips, AddStopped, AddStopping, Learn

LEMMA StateFields ==
  ASSUME TypeOK, NEW s
  PROVE  /\ Timed(s).state = s /\ Timed(s).cmd = nms.cmd /\ Timed(s).timer = TRUE
         /\ To(s).state = s /\ To(s).cmd = nms.cmd /\ To(s).timer = nms.timer
BY DEF TypeOK, Nms, Timed, To

LEMMA NodeKnownFields ==
  ASSUME TypeOK, NodeKnown
  PROVE  nms'.state \in {"NODE_FOUND", "WAIT_FOR_PROTOCOL"} /\ mgr'.next = NoEvent
<1>1. nms.state = "NODE_FOUND" /\ mgr = Free
  BY DEF NodeKnown, Take
<1>2. CASE nms' = Timed("WAIT_FOR_PROTOCOL") /\ PostsNothing
  BY <1>1, <1>2, PostsFields, StateFields
<1>3. CASE Posts("FAILED") /\ UNCHANGED nms
  BY <1>1, <1>3, PostsFields
<1> QED
  BY <1>2, <1>3 DEF NodeKnown

LEMMA AddNodeDoneFields ==
  ASSUME TypeOK, AddNodeDone
  PROVE  /\ mgr'.next = NoEvent
         /\ nms'.state \in {"PREPARE_SUC_INCLUSION", "WAIT_FOR_SECURE_ADD"}
<1> DEFINE n == [nms EXCEPT !.timer = TRUE]
<1>1. mgr = Free
  BY DEF AddNodeDone, Take
<1>2. n \in Nms
  BY NmsTyped DEF TypeOK
<1>3. \/ nms' = Timed("WAIT_FOR_SECURE_ADD") /\ Posts("SECURITY_DONE")
      \/ Included(n)
  BY DEF AddNodeDone
<1> HIDE DEF n
<1>4. CASE nms' = Timed("WAIT_FOR_SECURE_ADD") /\ Posts("SECURITY_DONE")
  BY <1>1, <1>4, PostsFields, StateFields
<1>5. CASE Included(n)
  BY <1>1, <1>2, <1>5, IncludedFields
<1> QED
  BY <1>3, <1>4, <1>5

LEMMA SteeredTakes ==
  ASSUME TypeInv, Ongoing => Steered, Ongoing',
         \/ NodeAdd \/ IdleAddStop \/ StartProxy \/ LearnSet \/ LearnCancel
         \/ ReplaceStart \/ IdleReplaceStop \/ ReplaceEnds \/ ReplaceDone
         \/ WaitingAddStop \/ NodeFound \/ NodeKnown \/ AddFails
         \/ ProtocolDone \/ SkippedNeighbors \/ AddNodeDone
         \/ SecureAddDone \/ NeighborUpdateDone
  PROVE  Steered'
<1>0. nms \in Nms /\ chip \in Chips /\ gw \in Gateways /\ TypeOK
  BY DEF TypeInv, TypeOK
<1>1. UNCHANGED hist
  BY DEF NodeAdd, IdleAddStop, StartProxy, LearnSet, LearnCancel,
         ReplaceStart, IdleReplaceStop, ReplaceEnds, ReplaceDone, WaitingAddStop, NodeFound,
         NodeKnown, AddFails, ProtocolDone, SkippedNeighbors, AddNodeDone,
         SecureAddDone, NeighborUpdateDone
<1>2. Steered
  BY <1>0, <1>1, Counting
<1> USE <1>0, <1>2, PostsFields, ChipFields, StateFields DEF Take, Steered, ModeOfState, IdOfState, LockOfState,
    Learning, Locking, NoEvent
<1>3. CASE NodeAdd
  <2>1. chip'.remove = chip.remove /\ chip'.learn = chip.learn
    BY <1>3 DEF NodeAdd, Chips
  <2> QED
    BY <1>3, <2>1 DEF NodeAdd
<1>4. CASE IdleAddStop
  BY <1>4 DEF IdleAddStop
<1>5. CASE StartProxy
  <2>1. nms'.state = "IDLE"
    BY <1>5 DEF StartProxy, Nms
  <2> QED
    BY <1>5, <2>1 DEF StartProxy
<1>7. CASE LearnSet
  <2>1. chip'.remove = chip.remove /\ chip'.learn = chip.learn
        /\ (chip'.add # "off" => chip.add # "off")
    BY <1>7 DEF LearnSet
  <2> QED
    BY <1>7, <2>1 DEF LearnSet
<1>8. CASE LearnCancel
  <2>1. gw'.idValid = gw.idValid /\ (gw'.locked => gw.locked)
    BY <1>8 DEF LearnCancel, LearnTimerExpired, Gateways
  <2>2. chip'.add = chip.add /\ chip'.remove = chip.remove
    BY <1>8 DEF LearnCancel, LearnTimerExpired
  <2> QED
    BY <1>8, <2>1, <2>2 DEF LearnCancel
<1>10. CASE ReplaceStart
  <2>1. nms'.state = "REPLACE_FAILED_REQ" /\ nms'.cmd = "replace"
    BY <1>10 DEF ReplaceStart, Timed, To, Nms
  <2>2. chip'.add = "off" /\ chip'.remove = chip.remove /\ chip'.learn = chip.learn
    BY <1>10 DEF ReplaceStart, AddStopped, Chips
  <2> QED
    BY <1>10, <2>1, <2>2 DEF ReplaceStart
<1>11. CASE IdleReplaceStop
  <2>1. nms'.state = "REPLACE_FAILED_REQ" /\ nms'.cmd = "replace"
    BY <1>11 DEF IdleReplaceStop, To, Nms
  <2> QED
    BY <1>11, <2>1 DEF IdleReplaceStop
<1>12. CASE ReplaceEnds
  BY <1>12 DEF ReplaceEnds
<1>13. CASE ReplaceDone
  <2>1. /\ nms'.cmd = nms.cmd /\ mgr'.next = NoEvent
        /\ nms'.state \in {"PREPARE_SUC_INCLUSION", "WAIT_FOR_SECURE_ADD"}
    BY <1>13, IncludedFields DEF ReplaceDone
  <2>2. gw'.idValid = gw.idValid
    BY <1>13 DEF ReplaceDone, Gateways
  <2> QED
    BY <1>13, <2>1, <2>2 DEF ReplaceDone
<1>14. CASE WaitingAddStop
  BY <1>14 DEF WaitingAddStop
<1>15. CASE NodeFound
  BY <1>15 DEF NodeFound
<1>16. CASE NodeKnown
  <2>1. nms'.state \in {"NODE_FOUND", "WAIT_FOR_PROTOCOL"} /\ mgr'.next = NoEvent
    BY <1>16, NodeKnownFields
  <2> QED
    BY <1>16, <2>1 DEF NodeKnown
<1>17. CASE AddFails
  <2>1. gw'.idValid = gw.idValid /\ (gw'.locked => gw.locked)
    BY <1>17 DEF AddFails, Gateways
  <2> QED
    BY <1>17, <2>1 DEF AddFails
<1>18. CASE ProtocolDone
  BY <1>18 DEF ProtocolDone
<1>19. CASE SkippedNeighbors
  <2>1. gw'.idValid = gw.idValid /\ gw'.locked = gw.locked
    BY <1>19 DEF SkippedNeighbors, Gateways
  <2> QED
    BY <1>19, <2>1 DEF SkippedNeighbors
<1>20. CASE AddNodeDone
  <2>1. /\ mgr'.next = NoEvent
        /\ nms'.state \in {"PREPARE_SUC_INCLUSION", "WAIT_FOR_SECURE_ADD"}
    BY <1>20, AddNodeDoneFields
  <2>2. gw'.idValid = gw.idValid
    BY <1>20 DEF AddNodeDone, Gateways
  <2> QED
    BY <1>20, <2>1, <2>2 DEF AddNodeDone
<1>24. CASE SecureAddDone
  <2>1. nms'.state = IF gw.delayed THEN "WAIT_FOR_NEIGHBOR_UPDATE" ELSE "WAIT_FOR_PROBE_AFTER_ADD"
    BY <1>24 DEF SecureAddDone, Nms, Timed, To
  <2>2. /\ gw'.idValid = gw.idValid /\ (gw'.locked => gw.delayed)
        /\ chip'.add = chip.add /\ chip'.remove = chip.remove /\ chip'.learn = chip.learn
    BY <1>24 DEF SecureAddDone, Gateways, Chips
  <2> QED
    BY <1>24, <2>1, <2>2 DEF SecureAddDone
<1>25. CASE NeighborUpdateDone
  <2>1. gw'.idValid = gw.idValid /\ ~gw'.locked
    BY <1>25 DEF NeighborUpdateDone, Gateways
  <2> QED
    BY <1>25, <2>1 DEF NeighborUpdateDone
<1> QED
  BY <1>3, <1>4, <1>5, <1>7, <1>8, <1>10, <1>11, <1>12, <1>13, <1>14, <1>15, <1>16,
     <1>17, <1>18, <1>19, <1>20, <1>24, <1>25

-----------------------------------------------------------------------------
(* A step that is not overtaken starts from a state that was not.           *)
LEMMA OngoingBefore == ASSUME TypeInv, [Next]_vars, Ongoing' PROVE Ongoing
<1>1. \/ UNCHANGED hist \/ hist' = Counted
      \/ hist' = [hist EXCEPT !.initiates = @ + 1]
      \/ \E b \in BOOLEAN : hist' = Overtaken(b)
  <2>1. CASE UNCHANGED vars
    BY <2>1 DEF vars
  <2>2. CASE Manager
    BY <2>2 DEF Manager, SelfPost, ManagerAssigns, Ignore, NodeAdd, IdleAddStop, StartProxy,
      LearnSet, LearnCancel, ReplaceStart, IdleReplaceStop, ReplaceEnds, ReplaceDone,
      WaitingAddStop, NodeFound, NodeKnown, AddFails, ProtocolDone, SkippedNeighbors, AddNodeDone,
      SecureAddDone, NeighborUpdateDone
  <2>3. CASE ClientStep
    BY <2>3 DEF ClientStep, CommandPost, Start, NodeInformationSend, NetworkUpdate, NodeRemove,
      NodeRemoveStop, AssignState
  <2>4. CASE ChipStep
    BY <2>4 DEF ChipStep, AddReport, RemoveReport, NodeInformationSent, NetworkUpdateDone,
      ReplaceReport, NeighborReport, LearnStarted, LearnDone, LearnFailed
  <2>5. CASE IcInitiate \/ Timer \/ LongTimer \/ SecureDone
    BY <2>5 DEF IcInitiate, Timer, LongTimer, SecureDone
  <2> QED
    BY <2>1, <2>2, <2>3, <2>4, <2>5 DEF Next, Runs
<1> QED
  BY <1>1, Counting, Overtaking DEF TypeInv

LEMMA SteeredNext ==
  ASSUME TypeInv, Ongoing => Steered, [Next]_vars, Ongoing'
  PROVE  Steered'
<1>1. CASE UNCHANGED vars
  BY <1>1, SteeredKept, OngoingBefore DEF vars
<1>2. CASE Manager
  BY <1>2, SteeredPending, SteeredManagerAssigns, SteeredTakes DEF Manager
<1>3. CASE ClientStep
  BY <1>3, SteeredCommands, SteeredAssignState DEF ClientStep
<1> QED
  BY <1>1, <1>2, <1>3, SteeredChip, SteeredTimers, SteeredController DEF Next, Runs

THEOREM Invariance == Spec => []IInv
<1>1. Init => TypeInv
  BY TypeInit
<1>2. Init => Steered
  BY DEF Init, Steered, ModeOfState, IdOfState, LockOfState, Learning
<1>3. IInv /\ [Next]_vars => IInv'
  BY TypeNext, OngoingBefore, SteeredNext DEF IInv
<1>4. Init => IInv
  BY <1>1, <1>2 DEF IInv
<1> QED
  BY <1>3, <1>4, PTL DEF Spec

(* The probe lock is held only while a node that was added or replaced is   *)
(* made secure: of all that assigns nms.state or probe_lock, only           *)
(* nm_net_replace_failed_req_handler and sli_nm_net_wait_add_node_done_handler*)
(* take it, and every way on from there gives it back.                      *)
THEOREM LockOnlyWhileAddingHolds == Spec => []LockOnlyWhileAdding
<1>1. IInv => LockOnlyWhileAdding
  BY DEF IInv, Steered, LockOfState, Locking, LockOnlyWhileAdding
<1> QED
  BY <1>1, Invariance, PTL

(* The gateway is without an identifier only while it is learning one       *)
(* (nm_learn_mode_status_update).                                           *)
THEOREM InvalidIdOnlyLearningHolds == Spec => []InvalidIdOnlyLearning
<1>1. IInv => InvalidIdOnlyLearning
  BY DEF IInv, Steered, IdOfState, InvalidIdOnlyLearning
<1> QED
  BY <1>1, Invariance, PTL

(* Adding, removing and learning exclude each other on the chip, between    *)
(* the two halves of the commands and events that begin and end them.       *)
THEOREM OneChipModeHolds == Spec => []OneChipMode
<1>1. ASSUME IInv PROVE OneChipMode
  <2> SUFFICES ASSUME Ongoing, udp = NoCommand, mgr.next = NoEvent
               PROVE  Cardinality({m \in {"add", "remove", "learn"} : chip[m] # "off"}) <= 1
    BY DEF OneChipMode
  <2> DEFINE on == {m \in {"add", "remove", "learn"} : chip[m] # "off"}
  <2>1. /\ chip.add # "off" => nms.state \in {"WAITING_FOR_ADD", "NODE_FOUND", "WAIT_FOR_PROTOCOL"}
        /\ chip.remove # "off" => nms.state = "WAITING_FOR_NODE_REMOVAL"
        /\ chip.learn # "off" => nms.state \in {"LEARN_MODE", "LEARN_MODE_STARTED"}
    BY <1>1 DEF IInv, Steered, ModeOfState, Learning, NoCommand, NoEvent
  <2>2. on = {} \/ \E m : on = {m}
    <3>1. CASE chip.add # "off"
      BY <2>1, <3>1
    <3>2. CASE chip.remove # "off"
      BY <2>1, <3>2
    <3>3. CASE chip.add = "off" /\ chip.remove = "off"
      BY <3>3
    <3> QED
      BY <3>1, <3>2, <3>3
  <2>3. Cardinality(on) \in {0, 1}
    BY <2>2, FS_EmptySet, FS_Singleton
  <2> QED
    BY <2>3
<1> QED
  BY <1>1, Invariance, PTL
=============================================================================
