------------------------------ MODULE IpBridge ------------------------------
(***************************************************************************)
(* A Z/IP packet on its way through tcpip_t: the loop of                   *)
(* sl_tcpip_handler.c, which takes the next packet only when the last one  *)
(* has been completed, the handler of sl_classic_zip_node.c and the IP     *)
(* associations of sl_bridge_ip_assoc.c.                                   *)
(*                                                                         *)
(* What a packet starts goes on in callbacks: of frames in tcpip_t, of the *)
(* chip's virtual nodes and return routes in sapi_t.  None of them says    *)
(* which packet it is for; they answer whoever is in sl_zwc and complete   *)
(* whatever waits in cbCompletedFunc.  The model numbers the packets and   *)
(* keeps with every callback the packet that caused it.                    *)
(*                                                                         *)
(* A callback or a packet is handled to its end before the next one: "todo"*)
(* holds the calls that are still to be made, innermost first.             *)
(*                                                                         *)
(* Left out, because no client of the LAN reaches it in this build: the    *)
(* forwarding of sli_zipudp_association_process and the match of           *)
(* ip_assoc_find_existing, which look for a virtual node or a HAN node at  *)
(* the address the packet comes from.                                      *)
(***************************************************************************)
EXTENDS Naturals, Sequences, SequencesExt, FiniteSets

CONSTANTS
  Nodes,       \* HAN nodes packets are sent to
  Resources,   \* what an association points to: address, endpoint, grouping
  PoolSize,    \* MAX_IP_ASSOCIATIONS
  VirtualIds,  \* ids the chip has for virtual nodes, numbers above 0
  MaxPackets,  \* bound: packets taken
  MaxLoose,    \* bound: the same once a packet left work behind
  MaxFaults    \* bound: calls refused, responses missed, and callbacks that
               \* report a failure, or come once more, or never

ASSUME IpBridgeAssumption ==
  /\ PoolSize \in Nat \ {0} /\ VirtualIds \subseteq Nat \ {0}
  /\ {MaxPackets, MaxLoose, MaxFaults} \subseteq Nat /\ MaxLoose <= MaxPackets

VARIABLES
  taken,      \* packets taken so far: the last one is in the uIP buffers
  bufNode,    \* sl_uip_buf_dst_addr: the node that one is for
  zwSending,  \* zw_sending
  owner,      \* the packet cbCompletedFunc was set for, 0 when it is NULL
  conn,       \* sl_zwc and cur_flags0: the packet answered, whether it asked
  nakTimer,   \* nak_wait_timer: the packet that started it, 0 when stopped
  pool,       \* the memory of ip_association_pool
  used,       \* the slots that are allocated
  table,      \* ip_association_table
  marked,     \* number_of_ip_assocs_marked_for_removal
  creating,   \* ip_assoc_create_complete_cb
  addCmd,     \* ip_assoc_virtual_add_callback_state
  routeFor,   \* ip_association_for_assign_return_route_cb
  learnCb,    \* cbFuncZWSetSlaveLearnMode
  pending,    \* callbacks to come, with the packet that caused them
  virtuals,   \* virtual nodes the chip has
  todo,       \* calls to be made before anything else runs
  faults,     \* refusals and failures so far
  sent,       \* history: answers, to whom and because of whom
  asked,      \* history: the last Remove that marked something
  hist        \* history: what happened that the properties allow for

assoc == <<pool, used, table, marked, creating, addCmd, routeFor, learnCb>>
packet == <<taken, bufNode, zwSending, owner, conn, nakTimer>>
vars == <<packet, assoc, pending, virtuals, todo, faults, sent, asked, hist>>

-----------------------------------------------------------------------------
Packets == 1..MaxPackets
Slots == 1..PoolSize
None == 0
Types == {"LOCAL", "PERMANENT", "PROXY"}
Blank == [type |-> "none", node |-> "none", res |-> "none", mark |-> FALSE,
          virt |-> 0]
Associations ==
  {Blank} \cup [type : Types, node : Nodes, res : Resources \cup {"none"},
                mark : BOOLEAN, virt : VirtualIds \cup {0}]

(* The calls that are still to be made, each with the packet it is due to. *)
Report(p) == [do |-> "report", of |-> p]        \* report_send_completed
Complete(p) == [do |-> "complete", of |-> p]    \* CallSendCompleted_cb alone
SendSet(a, p) == [do |-> "sendSet", a |-> a, of |-> p]
SendRemove(p) == [do |-> "sendRemove", of |-> p]
RemoveAssoc(a, p, why) == [do |-> "remove", a |-> a, of |-> p, why |-> why]
Continue(p) == [do |-> "continue", of |-> p]
Free(a) == [do |-> "free", a |-> a]
Abort(a, p) ==                                  \* ip_assoc_abort
  IF a = None THEN <<Report(p)>> ELSE <<RemoveAssoc(a, p, "undo"), Report(p)>>
CallsOf(p) ==
  {Report(p), Complete(p), SendRemove(p), Continue(p)}
  \cup {SendSet(a, p) : a \in Slots}
  \cup {RemoveAssoc(a, p, w) : a \in Slots, w \in {"undo", "asked"}}
Calls == {Free(a) : a \in Slots} \cup (UNION {CallsOf(p) : p \in Packets})

(* What calls back, and whether it is the same as others that are to come. *)
Frame(cb, a, p) == [kind |-> "frame", cb |-> cb, a |-> a, of |-> p, copy |-> 0]
Learn(mode, v, p) ==
  [kind |-> "learn", mode |-> mode, virt |-> v, of |-> p, copy |-> 0]
Route(p) == [kind |-> "route", of |-> p, copy |-> 0]
Copy(w, n) == [w EXCEPT !.copy = n]
Single ==
  {Frame(cb, a, p) : cb \in {"temp", "set", "remove"}, a \in Slots \cup {None},
                     p \in Packets}
  \cup {Learn(m, v, p) : m \in {"add", "remove"}, v \in VirtualIds \cup {0},
                         p \in Packets}
  \cup {Route(p) : p \in Packets}
Callbacks == {Copy(w, n) : w \in Single, n \in 0..MaxFaults}
Awaited(w) ==
  \E n \in 0..MaxFaults :
    /\ Copy(w, n) \notin pending /\ \A m \in 0..n - 1 : Copy(w, m) \in pending
    /\ pending' = pending \cup {Copy(w, n)}

Idle == todo = <<>>
Now == Head(todo)
Doing(call) == ~Idle /\ Now.do = call
Fails(n) == faults + n <= MaxFaults /\ faults' = faults + n
Outcome(ok) == IF ok THEN UNCHANGED faults ELSE Fails(1)

TypeOK ==
  /\ taken \in 0..MaxPackets /\ owner \in 0..taken /\ nakTimer \in 0..taken
  /\ bufNode \in Nodes \cup {"none"}
  /\ zwSending = (owner # None)
  /\ conn \in [no : 0..taken, ack : BOOLEAN]
  /\ pool \in [Slots -> Associations]
  /\ used \subseteq Slots
  /\ table \in Seq(Slots)
  /\ marked \in Nat
  /\ creating \in {"none", "PERMANENT", "PROXY"}
  /\ addCmd \in [no : 0..taken, type : {"none", "PERMANENT", "PROXY"}]
  /\ routeFor \in Slots \cup {None}
  /\ learnCb \in {"none", "add", "continue"}
  /\ pending \subseteq Callbacks
  /\ virtuals \subseteq VirtualIds
  /\ todo \in Seq(Calls)
  /\ faults \in 0..MaxFaults
  /\ sent \in [answered : BOOLEAN, wrong : SUBSET {"crossed", "twice"}]

(* A packet was completed while calls it had made were still to come back: *)
(* a supervised command; a failed Set whose virtual node the chip is still *)
(* removing, or which went on with what a failed Remove had marked; a      *)
(* Remove that could not send one of several frames.  Or the chip did what *)
(* its missed response made the host take for a refusal, called back more  *)
(* than once, or did not call back.                                        *)
Clean ==
  hist \cap {"supervised", "undone", "refused", "missed", "update", "silent"} = {}

Init ==
  /\ taken = 0 /\ bufNode = "none" /\ zwSending = FALSE /\ owner = None
  /\ conn = [no |-> 0, ack |-> FALSE] /\ nakTimer = None
  /\ pool = [a \in Slots |-> Blank] /\ used = {} /\ table = <<>> /\ marked = 0
  /\ creating = "none" /\ addCmd = [no |-> None, type |-> "none"]
  /\ routeFor = None /\ learnCb = "none"
  /\ pending = {} /\ virtuals = {} /\ todo = <<>> /\ faults = 0
  /\ sent = [answered |-> FALSE, wrong |-> {}] /\ asked = {} /\ hist = {}

-----------------------------------------------------------------------------
(* sl_tcpip_thread takes the next packet.  A handler that completes it in  *)
(* the same call leaves zw_sending and cbCompletedFunc as they were.       *)
Take(n) ==
  /\ Idle /\ ~zwSending /\ taken < (IF Clean THEN MaxPackets ELSE MaxLoose)
  /\ taken' = taken + 1 /\ bufNode' = n
Enters(ack) == conn' = [no |-> taken + 1, ack |-> ack]
AtOnce == UNCHANGED <<zwSending, owner, pending, todo>>
Waits == zwSending' = TRUE /\ owner' = taken + 1
(* An answer because of packet p, to whoever is in sl_zwc.                 *)
Answered(p, final) ==
  sent' = [answered |-> sent.answered \/ final,
           wrong |-> sent.wrong
             \cup (IF p # conn.no THEN {"crossed"} ELSE {})
             \cup (IF final /\ sent.answered THEN {"twice"} ELSE {})]
(* The first answer to the packet that is just taken, or none.             *)
FirstAnswer(final) == sent' = [sent EXCEPT !.answered = final]
(* The timer runs on when it is started again.                             *)
StartNakTimer(ack) ==
  nakTimer' = IF ack /\ nakTimer = None THEN taken + 1 ELSE nakTimer

(* A node that is no node, the other direction, an unknown port.           *)
TakeUndeliverable ==
  /\ \E n \in Nodes : Take(n)
  /\ AtOnce
  /\ UNCHANGED <<conn, nakTimer, assoc, virtuals, faults, sent, asked, hist>>

(* sli_zipudp_drop_frame and sli_zipudp_error_frame.                       *)
TakeDropped ==
  /\ \E n \in Nodes : Take(n)
  /\ \E ack \in BOOLEAN :
       /\ Enters(ack)
       /\ FirstAnswer(ack)
  /\ nakTimer' = None
  /\ AtOnce /\ UNCHANGED <<assoc, virtuals, faults, asked, hist>>

(* handle_version: it completes the packet without report_send_completed.  *)
TakeVersion ==
  /\ \E n \in Nodes : Take(n)
  /\ \E ack \in BOOLEAN :
       /\ Enters(ack)
       /\ FirstAnswer(ack)
  /\ AtOnce
  /\ UNCHANGED <<nakTimer, assoc, virtuals, faults, asked, hist>>

(* sli_handle_ip_association_get: acknowledged in any case.                *)
TakeGet ==
  /\ \E n \in Nodes : Take(n)
  /\ \E ack \in BOOLEAN : Enters(ack)
  /\ FirstAnswer(TRUE)
  /\ nakTimer' = None
  /\ AtOnce /\ UNCHANGED <<assoc, virtuals, faults, asked, hist>>

(* sli_zipudp_temp_association_process and send_using_temp_assoc.          *)
TakeSend ==
  /\ \E n \in Nodes : Take(n)
  /\ \E ack \in BOOLEAN :
       /\ Enters(ack)
       /\ \/ /\ Waits                       \* NACK_WAIT goes out at once
             /\ pending' = pending \cup {Frame("temp", None, taken + 1)}
             /\ FirstAnswer(FALSE)
             /\ UNCHANGED <<nakTimer, todo, faults>>
          \/ /\ Fails(1)                    \* the send layer is full
             /\ FirstAnswer(ack)
             /\ nakTimer' = None /\ AtOnce
          \/ /\ Fails(1)                    \* no temporary association
             /\ nakTimer' = None /\ AtOnce /\ FirstAnswer(FALSE)
  /\ UNCHANGED <<assoc, virtuals, asked, hist>>

(* proxy_supervision_command_handler: a supervised command is completed by *)
(* its report once the handler inside has returned.                        *)
Handle(calls, sup) ==
  /\ Waits
  /\ todo' = calls \o (IF sup THEN <<Complete(taken + 1)>> ELSE <<>>)
  /\ FirstAnswer(FALSE) /\ UNCHANGED virtuals

(* memb_alloc; sli_ip_assoc_create_local does not clear the memory, so the *)
(* mark and the virtual id are those of the association that was there.    *)
FreeSlots == Slots \ used
FirstFree == CHOOSE a \in FreeSlots : \A b \in FreeSlots : a <= b
Put(a, x) == pool' = [pool EXCEPT ![a] = x]
IsKnown(x) == \E i \in DOMAIN table : pool[table[i]] = x
(* ip_assoc_add_to_association_table: what is there already goes back to   *)
(* the pool; the caller keeps its pointer.                                 *)
Enlist(a, x) ==
  IF IsKnown(x) THEN used' = used \ {a} /\ UNCHANGED table
  ELSE used' = used \cup {a} /\ table' = Append(table, a)

(* sli_handle_ip_association_set with an address in the PAN.               *)
CreateLocal(n, sup) ==
  LET a == FirstFree
      x == [type |-> "LOCAL", node |-> n, res |-> "none",
            mark |-> pool[a].mark, virt |-> pool[a].virt]
  IN \E r \in Resources :
       /\ FreeSlots # {}
       /\ Put(a, [x EXCEPT !.res = r]) /\ Enlist(a, [x EXCEPT !.res = r])
       /\ Handle(<<SendSet(a, taken + 1)>>, sup)
       /\ hist' = hist \cup (IF x.mark THEN {"stale"} ELSE {})
                       \cup (IF sup THEN {"supervised"} ELSE {})
       /\ UNCHANGED <<marked, creating, addCmd, routeFor, learnCb, pending,
                      faults, asked>>

(* sli_ip_assoc_create: the chip is asked for a virtual node.  When its    *)
(* response is missed it calls back although it seems to have refused.     *)
Missed(w) == pending' = pending \cup {w}
CreateVirtual(type, sup) ==
  /\ creating = "none"
  /\ learnCb' = "add"
  /\ \/ /\ creating' = type /\ addCmd' = [no |-> taken + 1, type |-> type]
        /\ pending' = pending \cup {Learn("add", 0, taken + 1)}
        /\ Handle(<<>>, sup) /\ UNCHANGED faults
     \/ /\ Fails(1)                \* refused: completed here and by the caller
        /\ Handle(Append(Abort(None, taken + 1), Report(taken + 1)), sup)
        /\ addCmd' = [no |-> None, type |-> type]
        /\ UNCHANGED pending \/ Missed(Learn("add", 0, taken + 1))
        /\ UNCHANGED creating
  /\ hist' = hist \cup (IF sup THEN {"supervised"} ELSE {})
                  \cup (IF creating' = "none" /\ pending' # pending THEN {"missed"}
                        ELSE {})
  /\ UNCHANGED <<pool, used, table, marked, routeFor, asked>>

(* A Set that is refused: an endpoint or class the node does not have, no  *)
(* memory, another creation under way.  No answer: bSendNAck is FALSE.     *)
RefuseSet(sup) ==
  /\ Handle(<<Report(taken + 1)>>, sup)
  /\ UNCHANGED <<assoc, pending, faults, asked, hist>>

TakeSet ==
  \E n \in Nodes, ack \in BOOLEAN, sup \in BOOLEAN :
    /\ Take(n) /\ Enters(ack) /\ StartNakTimer(ack)
    /\ \/ CreateLocal(n, sup)
       \/ \E type \in {"PERMANENT", "PROXY"} : CreateVirtual(type, sup)
       \/ RefuseSet(sup)

(* ip_assoc_find_and_mark_for_removal; the zero address matches them all.  *)
Matching(n, r) ==
  {a \in ToSet(table) : pool[a].node = n /\ (r = "any" \/ pool[a].res = r)}
Marks(as) ==
  /\ pool' = [a \in Slots |-> IF a \in as THEN [pool[a] EXCEPT !.mark = TRUE]
                              ELSE pool[a]]
  /\ marked' = Cardinality({i \in DOMAIN table : table[i] \in as})

(* sli_handle_ip_association_remove.                                       *)
TakeRemove ==
  \E n \in Nodes, r \in Resources \cup {"any"}, ack \in BOOLEAN, sup \in BOOLEAN :
    LET as == Matching(n, r) IN
    /\ Take(n) /\ Enters(ack)
    /\ \/ /\ marked # 0                     \* one is still under way
          /\ nakTimer' = None
          /\ AtOnce
          /\ FirstAnswer(FALSE)
          /\ UNCHANGED <<pool, marked, asked, hist, virtuals>>
       \/ /\ marked = 0 /\ as = {}
          /\ marked' = 0
          /\ FirstAnswer(TRUE) /\ nakTimer' = None
          /\ AtOnce
          /\ UNCHANGED <<pool, asked, hist, virtuals>>
       \/ /\ marked = 0 /\ as # {}
          /\ Marks(as) /\ asked' = as
          /\ StartNakTimer(ack)
          /\ Handle(<<SendRemove(taken + 1)>>, sup)
          /\ hist' = hist \cup (IF sup THEN {"supervised"} ELSE {})
          /\ UNCHANGED pending
    /\ UNCHANGED <<used, table, creating, addCmd, routeFor, learnCb, faults>>

-----------------------------------------------------------------------------
(* The calls that are to be made.                                          *)
Then(calls) == todo' = calls \o Tail(todo)
(* Mutation: the callback stays set.                                       *)
CompletedKept == zwSending' = FALSE /\ UNCHANGED owner
Completed == zwSending' = FALSE /\ owner' = None

DoReport ==
  /\ Doing("report") /\ Completed /\ nakTimer' = None /\ Then(<<>>)
  /\ UNCHANGED <<taken, bufNode, conn, assoc, pending, virtuals, faults, sent,
                 asked, hist>>

DoComplete ==
  /\ Doing("complete") /\ Completed /\ Then(<<>>)
  /\ UNCHANGED <<taken, bufNode, conn, nakTimer, assoc, pending, virtuals,
                 faults, sent, asked, hist>>

(* send_ip_association_cmd.                                                *)
DoSendSet ==
  /\ Doing("sendSet")
  /\ \/ /\ pending' = pending \cup {Frame("set", Now.a, Now.of)}
        /\ Then(<<>>) /\ UNCHANGED faults
     \/ Fails(1) /\ Then(Abort(Now.a, Now.of)) /\ UNCHANGED pending
  /\ UNCHANGED <<packet, assoc, virtuals, sent, asked, hist>>

(* ip_assoc_remove_all_marked_for_removal and                              *)
(* ip_assoc_setup_and_send_assoc_remove_cmd for the first one with a mark. *)
(* Mutation: the head of the table, marked or not.                         *)
IsMarkedAny(a) == TRUE
IsMarked(a) == pool[a].mark
DoSendRemove ==
  LET first == SelectInSeq(table, IsMarked)
      a == table[first]
  IN /\ Doing("sendRemove")
     /\ IF first = 0
        THEN /\ Answered(Now.of, TRUE) /\ Then(Abort(None, Now.of))
             /\ UNCHANGED <<pending, faults, hist>>
        ELSE /\ \/ /\ Awaited(Frame("remove", a, Now.of))
                   /\ Then(<<>>) /\ UNCHANGED <<faults, hist>>
                \/ /\ Fails(1)          \* the node is gone
                   /\ Then(<<RemoveAssoc(a, Now.of, "asked")>>)
                   /\ UNCHANGED <<pending, hist>>
                \/ /\ Fails(1)          \* the send layer is full
                   /\ Then(<<RemoveAssoc(a, Now.of, "asked"), Report(Now.of)>>)
                   /\ hist' = IF marked > 1 \/ pool[a].type = "PERMANENT"
                               THEN hist \cup {"refused"} ELSE hist
                   /\ UNCHANGED pending
             /\ UNCHANGED sent
     /\ UNCHANGED <<packet, assoc, virtuals, asked>>

(* Mutation: the association is freed but stays in the table.              *)
DoRemoveFrees ==
  /\ Doing("remove")
  /\ Then(<<Continue(Now.of), Free(Now.a)>>)
  /\ asked' = asked \ {Now.a}
  /\ UNCHANGED <<packet, assoc, pending, virtuals, faults, sent, hist>>

(* A failed Set reports although what its undoing started goes on, with   *)
(* the chip, or with the marks that a removal that failed has left.        *)
Undone(goesOn) ==
  hist' = IF Now.why = "undo" /\ goesOn THEN hist \cup {"undone"} ELSE hist

(* ip_assoc_remove; the memory is freed when all it calls has returned.    *)
DoRemove ==
  LET a == Now.a
      next == <<Continue(Now.of), Free(a)>>
  IN /\ Doing("remove")
     /\ table' = RemoveFirst(table, a)
     /\ IF pool[a].type = "PERMANENT"
        THEN /\ learnCb' = "continue"
             /\ \/ /\ Awaited(Learn("remove", pool[a].virt, Now.of))
                   /\ Then(<<Free(a)>>) /\ Undone(TRUE) /\ UNCHANGED faults
                \/ Fails(1) /\ Then(next) /\ Undone(marked > 1)
                   /\ UNCHANGED pending
                \/ /\ Fails(1) /\ Then(next)     \* the response is missed
                   /\ Awaited(Learn("remove", pool[a].virt, Now.of))
                   /\ hist' = hist \cup {"missed"}
        ELSE /\ Then(next) /\ Undone(marked > 1)
             /\ UNCHANGED <<learnCb, pending, faults>>
     /\ asked' = asked \ {a}
     /\ UNCHANGED <<packet, pool, used, marked, creating, addCmd, routeFor,
                    virtuals, sent>>

(* ip_assoc_continue_with_next_marked_for_removal.                         *)
DoContinue ==
  /\ Doing("continue")
  /\ marked' = IF marked > 0 THEN marked - 1 ELSE 0
  /\ IF marked' > 0 THEN Then(<<SendRemove(Now.of)>>) /\ UNCHANGED sent
     ELSE Then(<<Report(Now.of)>>) /\ Answered(Now.of, TRUE)
  /\ UNCHANGED <<packet, pool, used, table, creating, addCmd, routeFor,
                 learnCb, pending, virtuals, faults, asked, hist>>

DoFree ==
  /\ Doing("free") /\ used' = used \ {Now.a} /\ Then(<<>>)
  /\ UNCHANGED <<packet, pool, table, marked, creating, addCmd, routeFor,
                 learnCb, pending, virtuals, faults, sent, asked, hist>>

-----------------------------------------------------------------------------
(* The callbacks.                                                          *)
Fires(w) == Idle /\ w \in pending
IsFrame(w, cb) == w.kind = "frame" /\ w.cb = cb

(* send_using_temp_assoc_callback_ex: OK, no acknowledge or failure.       *)
TempFrameDone(w) ==
  /\ Fires(w) /\ IsFrame(w, "temp")
  /\ pending' = pending \ {w}
  /\ \/ IF conn.ack THEN Answered(w.of, TRUE) ELSE UNCHANGED sent
     \/ UNCHANGED sent
  /\ Completed /\ nakTimer' = None
  /\ UNCHANGED <<taken, bufNode, conn, assoc, virtuals, todo, faults, asked,
                 hist>>

(* Mutation: the packet is completed when the return route is asked for.   *)
SetFrameDoneEarly(w) ==
  /\ Fires(w) /\ IsFrame(w, "set")
  /\ pending' = (pending \ {w}) \cup {Route(w.of)}
  /\ routeFor' = w.a /\ todo' = <<Report(w.of)>>
  /\ UNCHANGED <<packet, pool, used, table, marked, creating, addCmd, learnCb,
                 virtuals, faults, sent, asked, hist>>

(* send_ip_association_cmd_callback.                                       *)
SetFrameDone(w) ==
  /\ Fires(w) /\ IsFrame(w, "set")
  /\ \/ /\ pending' = (pending \ {w}) \cup {Route(w.of)}
        /\ routeFor' = w.a /\ UNCHANGED <<todo, faults, hist>>
     \/ /\ Fails(1)             \* ZW_AssignReturnRoute is refused
        /\ pending' = pending \ {w} /\ routeFor' = None
        /\ todo' = Abort(w.a, w.of) /\ UNCHANGED hist
     \/ /\ Fails(1)             \* its response is missed and reads as FALSE
        /\ pending' = (pending \ {w}) \cup {Route(w.of)} /\ routeFor' = None
        /\ todo' = Abort(w.a, w.of) /\ hist' = hist \cup {"missed"}
     \/ /\ Fails(1)             \* not OK
        /\ pending' = pending \ {w} /\ todo' = Abort(w.a, w.of)
        /\ UNCHANGED <<routeFor, hist>>
  /\ UNCHANGED <<packet, pool, used, table, marked, creating, addCmd, learnCb,
                 virtuals, sent, asked>>

(* assign_return_route_callback.                                           *)
RouteDone(w) ==
  /\ Fires(w) /\ w.kind = "route"
  /\ pending' = pending \ {w} /\ routeFor' = None
  /\ \/ /\ Answered(w.of, TRUE) /\ todo' = <<Report(w.of)>>
        /\ UNCHANGED faults
     \/ Fails(1) /\ todo' = Abort(routeFor, w.of) /\ UNCHANGED sent
  /\ UNCHANGED <<packet, pool, used, table, marked, creating, addCmd, learnCb,
                 virtuals, asked, hist>>

(* ip_assoc_remove_callback; a failure leaves the marks and their number.  *)
RemoveFrameDone(w) ==
  /\ Fires(w) /\ IsFrame(w, "remove")
  /\ pending' = pending \ {w}
  /\ \/ todo' = <<RemoveAssoc(w.a, w.of, "asked")>> /\ UNCHANGED <<faults, hist>>
     \/ Fails(1) /\ todo' = <<Report(w.of)>> /\ hist' = hist \cup {"failed"}
  /\ UNCHANGED <<packet, assoc, virtuals, sent, asked>>

NakFires ==
  /\ Idle /\ nakTimer # None
  /\ Answered(nakTimer, FALSE) /\ nakTimer' = None
  /\ UNCHANGED <<taken, bufNode, zwSending, owner, conn, assoc, pending,
                 virtuals, todo, faults, asked, hist>>

(* The chip adds or removes a virtual node; whether it could, and which id *)
(* a new node got, 0 for one removed.                                      *)
ChipLearns(w, done, id) ==
  IF w.mode = "add"
  THEN \/ /\ done = TRUE /\ id \in VirtualIds \ virtuals
          /\ virtuals' = virtuals \cup {id} /\ UNCHANGED faults
       \/ done = FALSE /\ id = 0 /\ Outcome(VirtualIds \subseteq virtuals)
          /\ UNCHANGED virtuals
  ELSE done = TRUE /\ id = 0 /\ virtuals' = virtuals \ {w.virt}
       /\ UNCHANGED faults

(* ip_assoc_call_create_complete_cb with NULL.                             *)
CreateFailed(p) ==
  /\ creating' = "none"
  /\ todo' = IF creating = "none" THEN <<>> ELSE Abort(None, p)

(* ip_assoc_virtual_add_callback with the status that ends an addition or  *)
(* the one that says it failed.  The command it reads is on a stack that   *)
(* is long gone: the resource is any.  The node is that of the packet now  *)
(* in the buffers, and the length that is checked is the length of that.   *)
VirtualAdded(w, done, id) ==
  LET p == IF addCmd.no = None THEN w.of ELSE addCmd.no
      hasRoom == done /\ addCmd.no # None /\ FreeSlots # {}
      x(r) == [type |-> addCmd.type, node |-> bufNode, res |-> r,
               mark |-> FALSE, virt |-> id]
  IN /\ addCmd' = [addCmd EXCEPT !.no = None]
     /\ \/ /\ hasRoom
           /\ \E r \in Resources :
                Put(FirstFree, x(r)) /\ Enlist(FirstFree, x(r))
           /\ creating' = "none"
           /\ todo' = IF creating = "none" THEN <<>>
                      ELSE <<SendSet(FirstFree, p)>>
        \/ /\ hasRoom                               \* the packet is too short
           /\ Put(FirstFree, x("none")) /\ CreateFailed(p)
           /\ UNCHANGED <<used, table>>
        \/ /\ ~hasRoom /\ (done => addCmd.no # None)
           /\ CreateFailed(p) /\ UNCHANGED <<pool, used, table>>
        \/ /\ done /\ addCmd.no = None              \* ASSERT, and return
           /\ todo' = <<>> /\ UNCHANGED <<creating, pool, used, table>>

LearnDone(w) ==
  /\ Fires(w) /\ w.kind = "learn"
  /\ pending' = pending \ {w}
  /\ \E done \in BOOLEAN, id \in VirtualIds \cup {0} :
       /\ ChipLearns(w, done, id)
       /\ IF learnCb = "add" THEN VirtualAdded(w, done, id)
          ELSE /\ todo' = <<Continue(w.of)>>
               /\ UNCHANGED <<pool, used, table, creating, addCmd>>
  /\ UNCHANGED <<packet, marked, routeFor, learnCb, sent, asked, hist>>

(* The same with the status that says how far the chip is, another to come:*)
(* an addition forgets its command, and nobody is told; to a removal every *)
(* status is the end.                                                      *)
LearnUpdate(w) ==
  /\ Fires(w) /\ w.kind = "learn" /\ Fails(1)
  /\ IF learnCb = "add" THEN addCmd' = [addCmd EXCEPT !.no = None] /\ UNCHANGED todo
     ELSE todo' = <<Continue(w.of)>> /\ UNCHANGED addCmd
  /\ hist' = hist \cup {"update"}
  /\ UNCHANGED <<packet, pool, used, table, marked, creating, routeFor, learnCb,
                 pending, virtuals, sent, asked>>

(* No timer guards what the chip was asked for.                            *)
ChipSilent(w) ==
  /\ Fires(w) /\ w.kind \in {"learn", "route"} /\ Fails(1)
  /\ pending' = pending \ {w}
  /\ hist' = hist \cup {"silent"}
  /\ UNCHANGED <<packet, assoc, virtuals, todo, sent, asked>>

-----------------------------------------------------------------------------
TakePacket ==
  \/ TakeUndeliverable \/ TakeDropped \/ TakeVersion \/ TakeGet \/ TakeSend
  \/ TakeSet \/ TakeRemove
Calling ==
  \/ DoReport \/ DoComplete \/ DoSendSet \/ DoSendRemove \/ DoRemove
  \/ DoContinue \/ DoFree
Callback ==
  \E w \in pending : \/ TempFrameDone(w) \/ SetFrameDone(w) \/ RouteDone(w)
                     \/ RemoveFrameDone(w) \/ LearnDone(w) \/ LearnUpdate(w)
Next ==
  \/ TakePacket \/ Calling \/ Callback \/ NakFires
  \/ \E w \in pending : ChipSilent(w)

Spec == Init /\ [][Next]_vars

-----------------------------------------------------------------------------
(* While no packet has left work behind and the chip did what it said, an  *)
(* answer goes to the packet it is about, and each packet gets at most one *)
(* ACK or NACK, though answers go to whatever is in sl_zwc (send_zip_ack,  *)
(* nak_wait_timeout) and an abort acknowledges through ip_assoc_continue...*)
AnswersOwn == Clean => sent.wrong = {}

(* An association in the table holds its slot of the pool, and no slot is  *)
(* in the table twice, whatever packets have left behind: a local duplicate*)
(* that went back to the pool is freed again by an abort, which must not   *)
(* free, or unlink, the slot of another association.                       *)
TableOwnsSlots ==
  /\ ToSet(table) \subseteq used
  /\ Cardinality(ToSet(table)) = Len(table)

(* A Remove takes away only associations it named, although it goes by the *)
(* first mark in the table and a count that failed Sets count down too;    *)
(* but a failed removal leaves marks behind, and a local association is    *)
(* born with the mark of the one whose memory it gets.                     *)
RemovesWhatWasAsked ==
  [][\A a \in ToSet(table) :
       /\ Clean /\ hist \cap {"stale", "failed"} = {}
       /\ a \notin ToSet(table') /\ Now.why = "asked"
       => a \in asked]_vars

(* Every packet lets go of zw_sending, whatever else is left undone, unless*)
(* the chip never called back or first said how far it was.  And a creation*)
(* or a removal under way, which keeps others out, ends, as long as no     *)
(* packet left work behind, the chip did what it said and no removal       *)
(* failed.                                                                 *)
Settles ==
  /\ zwSending ~> ~zwSending \/ hist \cap {"silent", "update"} # {}
  /\ (creating # "none" \/ marked # 0)
       ~> \/ creating = "none" /\ marked = 0
          \/ ~Clean \/ "failed" \in hist

(* The send layer, the chip and the tasks get on.                          *)
LiveSpec == Spec /\ WF_vars(Calling) /\ WF_vars(Callback)
=============================================================================
