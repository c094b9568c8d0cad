----------------------------- MODULE SerialHost -----------------------------
(***************************************************************************)
(* The host side of the serial link to the Z-Wave chip: SendFrame,         *)
(* SendFrameWithResponse, the receive queue and SerialAPI_Poll of          *)
(* apps/SerialAPI/Serialapi.c on the frame receiver of sl_serial.c, called *)
(* from sapi_t (which also polls) and from other threads.                  *)
(*                                                                         *)
(* A step is what runs between two places where another thread can come in *)
(* and touch what this one uses.  sapi_t has a higher priority than the    *)
(* other callers, so it may take a frame from the queue between any two of *)
(* their steps; all else it shares with them is behind sl_cmd_mutex, but   *)
(* for the parameter buffer sl_ser_tx_buf, which a function fills before   *)
(* it locks and reads its answer from after it has unlocked.               *)
(*                                                                         *)
(* Calls are numbered.  A frame to the chip is a function and the call     *)
(* whose parameters it carries; the response is about those.  Time is not  *)
(* modelled: a wait of 10 ms may end whenever there is nothing to read.    *)
(***************************************************************************)
EXTENDS Naturals, Sequences, FiniteSets

CONSTANTS
  Threads,     \* the callers of the serial functions
  Sapi,        \* the one among them that polls
  NoThread,    \* none of them
  Funcs,       \* the functions called, among "SendData", "Query", "Plain"
  QueueLen,    \* MAX_RXQUEUE_LEN
  TxTries,     \* the 20 rounds of sl_send_frame_no_mutex
  RxTries,     \* the 3 rounds of SendFrameWithResponse
  MaxCalls,    \* bound: calls made
  MaxFaults    \* bound: commands and frames lost, garbled, repeated or
               \* answered late, and requests nobody asked for

ASSUME SerialHostAssumption ==
  /\ Sapi \in Threads /\ NoThread \notin Threads
  /\ Funcs \subseteq {"SendData", "Query", "Plain"}
  /\ {QueueLen, RxTries} \subseteq Nat \ {0}
  /\ TxTries \in Nat \ {0, 1}
  /\ {MaxCalls, MaxFaults} \subseteq Nat

VARIABLES
  pc,       \* where each thread is
  call,     \* the call it makes, 0 while it polls
  fn,       \* the functions of the calls made so far
  lock,     \* owner of sl_cmd_mutex, or NoThread
  reading,  \* how far the owner is with a frame it receives
  tries,    \* the loop counter of the owner
  needAck,  \* sl_ack_nack_needed
  serBuf,   \* the frame in sl_ser_buf
  txBuf,    \* what is in sl_ser_tx_buf
  cbFunc,   \* the call whose callback cbFuncZWSendDataBridge is, 0 for NULL
  rxQueue,  \* rxQueue
  walk,     \* QueueFrame's pointer into it, and the frames it has counted
  uart,     \* bytes from the chip that are not read yet, as frames
  chip,     \* the chip: commands to come, responses to send, the call
            \* it transmits for
  faults,   \* how many of these events there were
  owed,     \* history: requests acknowledged and not dispatched, in order
  hist      \* history: what happened that the properties have to allow for

host == <<pc, call, fn, lock, reading, tries, needAck, serBuf, txBuf, cbFunc,
          rxQueue, walk>>
vars == <<host, uart, chip, faults, owed, hist>>

-----------------------------------------------------------------------------
Calls == 1..MaxCalls
Garbage == MaxCalls + 1    \* parameters that are those of no call
(* ZW_SendData_Bridge and others that wait for a response; those that do not. *)
Answers(f) == f # "Plain"

Nothing == [kind |-> "none"]
Ack == [kind |-> "ACK"]
Nak == [kind |-> "NAK"]                              \* F_NAK, or F_CAN
Res(f, c, ok) == [kind |-> "RES", fn |-> f, call |-> c, ok |-> ok]
Req(k) == [kind |-> "REQ", no |-> k]                 \* unsolicited
Done(c) == [kind |-> "REQ", call |-> c]              \* a callback
Params(c) == [kind |-> "PAR", call |-> c]
False == [kind |-> "FALSE"]

Requests == {Req(k) : k \in 1..MaxFaults} \cup {Done(c) : c \in 1..Garbage}
Responses ==
  {Res(f, c, ok) : f \in {"SendData", "Query"}, c \in 1..Garbage, ok \in BOOLEAN}
Frames == Requests \cup Responses
IsFrame(f) == f.kind \in {"REQ", "RES"}
IsRequest(f) == f.kind = "REQ"
IsResponse(f, g) == f.kind = "RES" /\ f.fn = g
IsDone(f) == f.kind = "REQ" /\ "call" \in DOMAIN f

(* The places of sl_send_frame_no_mutex, SendFrameWithResponse and the     *)
(* functions around them; "served" is sapi_t when it has dispatched.       *)
Places == {"idle", "poll", "served", "lock", "drain", "send", "ack", "backoff",
           "answer", "result", "failed"}
Home(t) == IF t = Sapi THEN "served" ELSE "idle"
Returned(t) == pc[t] \in {"idle", "poll", "served"}
InCall == {t \in Threads : ~Returned(t) /\ call[t] # 0}

(* A frame being received: its length is read; it is checked and           *)
(* acknowledged; it is a request that was copied and is to be linked to the*)
(* queue; it is the response of the right function.                        *)
NotReading == [at |-> "no"]
Body(f) == [at |-> "body", frame |-> f]
Checked == [at |-> "checked"]
Link(f) == [at |-> "link", frame |-> f]
Copy == [at |-> "copy"]
Half(f) == [kind |-> "half", of |-> f]
Received ==
  IF reading.at = "no" THEN <<>>
  ELSE IF reading.at \in {"body", "link"} THEN <<reading.frame>> ELSE <<serBuf>>
InHand ==
  IF reading.at = "checked" /\ IsRequest(serBuf) THEN <<serBuf>>
  ELSE IF reading.at = "link" THEN <<reading.frame>> ELSE <<>>

(* The pointer of rxQueue_Len and of the loop in QueueFrame: not set yet,  *)
(* at the frame with this number, or past the last one; or at a node that  *)
(* was freed.                                                              *)
AtStart == [node |-> 0, freed |-> FALSE, len |-> 0]

Items(q) == {q[i] : i \in DOMAIN q}
(* Something an earlier call of function f caused is still on its way.     *)
InFlight(f) ==
  \/ \E c \in Items(chip.in) : c.fn = f
  \/ \E x \in Items(chip.owes \o uart \o Received) : IsResponse(x, f)
  \/ /\ f = "SendData"
     /\ \/ chip.sending # 0
        \/ \E x \in Items(uart \o rxQueue \o Received) : IsDone(x)

TypeOK ==
  /\ pc \in [Threads -> Places]
  /\ call \in [Threads -> 0..MaxCalls]
  /\ fn \in Seq(Funcs) /\ Len(fn) <= MaxCalls
  /\ lock \in Threads \cup {NoThread}
  /\ reading \in {NotReading, Checked, Copy} \cup {Body(f) : f \in Frames}
                 \cup {Link(f) : f \in Requests}
  /\ tries \in 0..(IF TxTries > RxTries THEN TxTries ELSE RxTries) - 1
  /\ needAck \in BOOLEAN
  /\ serBuf \in {Nothing} \cup Frames \cup {Half(f) : f \in Frames}
  /\ txBuf \in {False} \cup {Params(c) : c \in 1..Garbage} \cup Frames
  /\ cbFunc \in 0..MaxCalls
  /\ rxQueue \in Seq(Requests) /\ Len(rxQueue) <= QueueLen
  /\ walk \in [node : 0..QueueLen + 1, freed : BOOLEAN, len : Nat]
  /\ uart \in Seq(Frames \cup {Ack, Nak})
  /\ chip \in [in : Seq([fn : Funcs, of : 1..Garbage]), owes : Seq(Responses),
               sending : 0..Garbage]
  /\ faults \in 0..MaxFaults
  /\ owed \in Seq(Requests)
  /\ hist \subseteq {"overlap", "early", "raced", "unsure"}

Init ==
  /\ pc = [t \in Threads |-> IF t = Sapi THEN "poll" ELSE "idle"]
  /\ call = [t \in Threads |-> 0]
  /\ fn = <<>>
  /\ lock = NoThread
  /\ reading = NotReading
  /\ tries = 0
  /\ needAck = FALSE
  /\ serBuf = Nothing
  /\ txBuf = Params(Garbage)
  /\ cbFunc = 0
  /\ rxQueue = <<>> /\ walk = AtStart
  /\ uart = <<>>
  /\ chip = [in |-> <<>>, owes |-> <<>>, sending |-> 0]
  /\ faults = 0
  /\ owed = <<>>
  /\ hist = {}

-----------------------------------------------------------------------------
Fault == faults < MaxFaults /\ faults' = faults + 1
Record(h) == hist' = hist \cup h

(* sapi_t takes the first frame of the queue, puts it into sl_ser_buf,     *)
(* which another thread may be receiving in, dispatches and frees it; the  *)
(* callback of ZW_SendData is cleared before it is called.  It does not    *)
(* know of a pointer another thread has into the queue.                    *)
Races == reading.at \in {"checked", "copy"} \/ walk.node = 1
Behind == IF walk.node = 0 THEN walk
          ELSE IF walk.node = 1 THEN [walk EXCEPT !.freed = TRUE]
          ELSE [walk EXCEPT !.node = @ - 1]

SerialAPI_Poll ==
  /\ pc[Sapi] = "poll"
  /\ pc' = [pc EXCEPT ![Sapi] = "served"]
  /\ IF rxQueue = <<>> THEN UNCHANGED <<rxQueue, walk, serBuf, cbFunc, owed, hist>>
     ELSE LET f == Head(rxQueue) IN
       /\ rxQueue' = Tail(rxQueue)
       /\ walk' = Behind
       /\ serBuf' = f
       /\ cbFunc' = IF IsDone(f) THEN 0 ELSE cbFunc
       /\ Record(IF Races THEN {"raced"} ELSE {})
       /\ owed' = IF "raced" \in hist' THEN <<>> ELSE SubSeq(owed, 2, Len(owed))
  /\ UNCHANGED <<call, fn, lock, reading, tries, needAck, txBuf, uart, chip, faults>>

(* ... and then drains the serial port under the lock.                     *)
PollDrain ==
  /\ pc[Sapi] = "served"
  /\ pc' = [pc EXCEPT ![Sapi] = "lock"]
  /\ call' = [call EXCEPT ![Sapi] = 0]
  /\ UNCHANGED <<fn, lock, reading, tries, needAck, serBuf, txBuf, cbFunc, rxQueue,
                 walk, uart, chip, faults, owed, hist>>

(* A function fills sl_ser_tx_buf and then calls SendFrame or              *)
(* SendFrameWithResponse.  ZW_SendData_Bridge also stores its callback.  It *)
(* is called by the send layer only, which waits for the callback, or for  *)
(* the emergency timer.                                                    *)
Emergency(f) == f = "SendData" /\ cbFunc # 0
Call(t, f) ==
  /\ pc[t] = Home(t) /\ Len(fn) < MaxCalls
  /\ f = "SendData" => t # Sapi
  /\ IF Emergency(f) THEN Fault ELSE UNCHANGED faults
  /\ fn' = Append(fn, f)
  /\ call' = [call EXCEPT ![t] = Len(fn')]
  /\ pc' = [pc EXCEPT ![t] = "lock"]
  /\ txBuf' = Params(Len(fn'))
  /\ cbFunc' = IF f = "SendData" THEN Len(fn') ELSE cbFunc
  /\ Record((IF InCall # {} THEN {"overlap"} ELSE {})
            \cup (IF InFlight(f) THEN {"early"} ELSE {})
            \cup (IF Emergency(f) THEN {"unsure"} ELSE {}))
  /\ UNCHANGED <<lock, reading, tries, needAck, serBuf, rxQueue, walk, uart, chip, owed>>

(* sl_serial_lock; DrainRX reads only when there is something to read.     *)
Locking(t) ==
  /\ pc[t] = "lock" /\ lock = NoThread
  /\ UNCHANGED <<call, fn, reading, tries, needAck, serBuf, txBuf, cbFunc, rxQueue,
                 walk, uart, chip, faults, owed, hist>>
Lock(t) ==
  /\ Locking(t)
  /\ uart # <<>>
  /\ lock' = t
  /\ pc' = [pc EXCEPT ![t] = "drain"]
LockQuiet(t) ==
  /\ Locking(t)
  /\ uart = <<>>
  /\ lock' = IF call[t] = 0 THEN NoThread ELSE t
  /\ pc' = [pc EXCEPT ![t] = IF call[t] = 0 THEN "poll" ELSE "send"]

(* sl_serial_tx_frame                                                      *)
Command(t) == [fn |-> fn[call[t]],
               of |-> IF txBuf.kind = "PAR" THEN txBuf.call ELSE Garbage]
Transmit(t) ==
  /\ chip' = [chip EXCEPT !.in = Append(chip.in, Command(t))]
  /\ needAck' = TRUE
  /\ UNCHANGED <<call, fn, reading, serBuf, txBuf, cbFunc, rxQueue, walk, uart, faults,
                 owed>>
Send(t) ==
  /\ pc[t] = "send"
  /\ Transmit(t)
  /\ tries' = 0
  /\ pc' = [pc EXCEPT ![t] = "ack"]
  /\ UNCHANGED <<lock, hist>>

(* Mutations: an unsuccessful call keeps the lock; one round too many.     *)
Unlocked(t, p) == lock' = NoThread /\ pc' = [pc EXCEPT ![t] = p]
KeepsLock(t) ==
  /\ pc' = [pc EXCEPT ![t] = IF fn[call[t]] = "Plain" THEN Home(t) ELSE "failed"]
  /\ UNCHANGED lock
RetransmitOnceMore(t) ==
  /\ pc[t] = "backoff"
  /\ Transmit(t)
  /\ tries' = tries + 1 /\ pc' = [pc EXCEPT ![t] = "ack"]
  /\ UNCHANGED <<lock, hist>>

(* After 2 s the parameters, that is what sl_ser_tx_buf now holds, are     *)
(* sent again; nobody waits for the ACK of the last retransmission, which  *)
(* a later call may take for its own.                                      *)
Failed(t) == Unlocked(t, IF fn[call[t]] = "Plain" THEN Home(t) ELSE "failed")
Retransmit(t) ==
  /\ pc[t] = "backoff"
  /\ Transmit(t)
  /\ IF tries + 1 = TxTries THEN tries' = 0 /\ Failed(t) /\ Record({"unsure"})
     ELSE /\ tries' = tries + 1 /\ pc' = [pc EXCEPT ![t] = "ack"]
          /\ UNCHANGED <<lock, hist>>

-----------------------------------------------------------------------------
(* What a call to sl_serial_rx_frame that brings no frame leads to: the    *)
(* drain is over, a transmission is repeated, a try for a response is gone. *)
TryAgain(t) ==
  IF tries + 1 = RxTries THEN tries' = 0 /\ Unlocked(t, "failed")
  ELSE tries' = tries + 1 /\ UNCHANGED <<pc, lock>>
NoFrame(t) ==
  CASE pc[t] = "drain" /\ call[t] = 0 -> Unlocked(t, "poll") /\ UNCHANGED tries
    [] pc[t] = "drain" /\ call[t] # 0 ->
         pc' = [pc EXCEPT ![t] = "send"] /\ UNCHANGED <<lock, tries>>
    [] pc[t] = "ack" -> pc' = [pc EXCEPT ![t] = "backoff"] /\ UNCHANGED <<lock, tries>>
    [] pc[t] = "answer" -> TryAgain(t)

(* What a frame leads to once it is queued or dropped.  While an ACK is    *)
(* awaited it costs a round only if it is the first.                       *)
NextFrame(t) ==
  CASE pc[t] = "drain" -> UNCHANGED <<pc, lock, tries>>
    [] pc[t] = "ack" -> tries' = (IF tries = 0 THEN 1 ELSE tries) /\ UNCHANGED <<pc, lock>>
    [] pc[t] = "answer" -> TryAgain(t)

Receiving(t) ==
  /\ lock = t /\ reading = NotReading
  /\ pc[t] \in {"drain", "ack", "answer"}
  /\ UNCHANGED <<call, fn, txBuf, cbFunc, rxQueue, walk, chip, owed>>

(* A byte other than SOF that nobody waits for.                            *)
SkipByte(t) ==
  /\ Receiving(t)
  /\ ~needAck /\ uart # <<>> /\ ~IsFrame(Head(uart))
  /\ uart' = Tail(uart)
  /\ UNCHANGED <<pc, lock, tries, reading, needAck, serBuf, faults, hist>>

(* ACK: conFrameSent, which ends the sending.  NAK and CAN: conTxErr and   *)
(* conTxWait.  Both end a drain that meets the answer to a frame given up. *)
ReadControl(t) ==
  /\ Receiving(t)
  /\ needAck /\ uart # <<>> /\ ~IsFrame(Head(uart))
  /\ uart' = Tail(uart)
  /\ needAck' = FALSE
  /\ IF pc[t] = "ack" /\ Head(uart) = Ack
     THEN /\ tries' = 0
          /\ IF Answers(fn[call[t]])
             THEN pc' = [pc EXCEPT ![t] = "answer"] /\ UNCHANGED lock
             ELSE Unlocked(t, Home(t))
     ELSE NoFrame(t)
  /\ UNCHANGED <<reading, serBuf, faults, hist>>

(* conTxTimeout, or conIdle when no ACK is awaited: the command or what    *)
(* answers it is lost, or the chip is late.                                *)
Late(t) ==
  \/ pc[t] = "ack" /\ chip.in # <<>>
  \/ pc[t] = "answer" /\ chip.owes # <<>>
ReadTimeout(t) ==
  /\ Receiving(t)
  /\ uart = <<>>
  /\ IF Late(t) THEN Fault /\ Record({"unsure"})
     ELSE UNCHANGED <<faults, hist>>
  /\ needAck' = FALSE
  /\ NoFrame(t)
  /\ UNCHANGED <<uart, reading, serBuf>>

(* SOF and length; sl_serial_read_buf_block then waits for the rest, which *)
(* goes into sl_ser_buf.                                                   *)
ReadHead(t) ==
  /\ Receiving(t)
  /\ uart # <<>> /\ IsFrame(Head(uart))
  /\ uart' = Tail(uart)
  /\ reading' = Body(Head(uart))
  /\ serBuf' = Half(Head(uart))
  /\ UNCHANGED <<pc, lock, tries, needAck, faults, hist>>

ReadingBody(t) ==
  /\ lock = t /\ reading.at = "body"
  /\ UNCHANGED <<call, fn, needAck, txBuf, cbFunc, rxQueue, walk, chip>>

(* The checksum is right: ACK.  The chip repeats the frame when the ACK is *)
(* late, for instance because the owner of the lock slept, or is lost.     *)
ReadGood(t) ==
  /\ ReadingBody(t)
  /\ serBuf = Half(reading.frame)
  /\ serBuf' = reading.frame
  /\ reading' = Checked
  /\ \/ UNCHANGED <<uart, faults, hist>>
     \/ Fault /\ uart' = <<reading.frame>> \o uart /\ Record({"unsure"})
  /\ owed' = IF IsRequest(reading.frame) /\ "raced" \notin hist
             THEN Append(owed, reading.frame) ELSE owed
  /\ UNCHANGED <<pc, lock, tries>>

(* It is not, because of the line or because sapi_t has written into       *)
(* sl_ser_buf meanwhile: NAK, and the chip repeats the frame or gives up.  *)
ReadBad(t) ==
  /\ ReadingBody(t)
  /\ LET again == <<reading.frame>> \o uart IN
     \/ serBuf # Half(reading.frame) /\ uart' = again /\ UNCHANGED faults
     \/ uart' \in {uart, again} /\ Fault
  /\ Record(IF pc[t] = "ack" \/ uart' = uart THEN {"unsure"} ELSE {})
  /\ reading' = NotReading
  /\ NoFrame(t)
  /\ UNCHANGED <<serBuf, owed>>

(* Where the pointer goes from here.  A node that was freed holds its old  *)
(* successor, which is now the first, or reads as the last.  (The node is  *)
(* written to when a frame is linked to it; the model takes the outcome in *)
(* which nobody misses what was there.)                                    *)
NextNodes == IF walk.freed THEN {1, Len(rxQueue) + 1} ELSE {walk.node + 1}
AtEnd == walk.freed \/ walk.node = Len(rxQueue)

(* Mutations: a request received while an ACK is awaited is not queued, a  *)
(* request is linked by the receiver and by its caller, or to the first    *)
(* frame; a response is taken without a look at its function.              *)
LinksAs(t, end, q) ==
  /\ lock = t /\ reading.at = "link" /\ end
  /\ reading' = NotReading /\ walk' = AtStart
  /\ rxQueue' = IF walk.freed THEN rxQueue ELSE q
  /\ NextFrame(t)
  /\ UNCHANGED <<call, fn, needAck, serBuf, txBuf, cbFunc, uart, chip, faults, owed, hist>>
LinkFrameInAck(t) ==
  LinksAs(t, AtEnd, IF pc[t] = "ack" THEN rxQueue ELSE Append(rxQueue, reading.frame))
LinkFrameTwice(t) == LinksAs(t, AtEnd, rxQueue \o <<reading.frame, reading.frame>>)
LinkFrameToFirst(t) ==
  LinksAs(t, AtEnd \/ walk.node = 1,
          Append(SubSeq(rxQueue, 1, walk.node), reading.frame))
WantedAny(t) == pc[t] = "answer"

(* The frame in sl_ser_buf is looked at: QueueFrame for a request; a       *)
(* response is dropped unless it is awaited.                               *)
Handling(t) == lock = t /\ UNCHANGED <<call, fn, needAck, cbFunc, uart, chip, faults, hist>>
Counting == reading = Checked /\ IsRequest(serBuf)

(* rxQueue_Len                                                             *)
CountFrame(t) ==
  /\ Handling(t) /\ Counting
  /\ walk.freed \/ walk.node <= Len(rxQueue)
  /\ \E n \in NextNodes :
       walk' = [node |-> n, freed |-> FALSE,
                len |-> IF walk.node = 0 THEN 0 ELSE walk.len + 1]
  /\ UNCHANGED <<pc, lock, reading, tries, serBuf, txBuf, rxQueue, owed>>

(* The frame is dropped when it counted a full queue, or else copied.      *)
HandleRequest(t) ==
  /\ Handling(t) /\ Counting
  /\ ~walk.freed /\ walk.node = Len(rxQueue) + 1
  /\ walk' = AtStart
  /\ IF walk.len < QueueLen
     THEN reading' = Link(serBuf) /\ UNCHANGED <<owed, pc, lock, tries>>
     ELSE /\ reading' = NotReading
          /\ owed' = SubSeq(owed, 1, Len(owed) - 1)
          /\ NextFrame(t)
  /\ UNCHANGED <<rxQueue, txBuf, serBuf>>

(* The loop to the last frame, which the new one is then linked to.        *)
WalkQueue(t) ==
  /\ Handling(t) /\ reading.at = "link"
  /\ \E n \in NextNodes :
       n <= Len(rxQueue) /\ walk' = [walk EXCEPT !.node = n, !.freed = FALSE]
  /\ UNCHANGED <<pc, lock, reading, tries, serBuf, txBuf, rxQueue, owed>>
LinkFrame(t) ==
  /\ Handling(t) /\ reading.at = "link" /\ AtEnd
  /\ reading' = NotReading /\ walk' = AtStart
  /\ rxQueue' = IF walk.freed THEN rxQueue ELSE Append(rxQueue, reading.frame)
  /\ NextFrame(t)
  /\ UNCHANGED <<serBuf, txBuf, owed>>

Wanted(t) == pc[t] = "answer" /\ IsResponse(serBuf, fn[call[t]])
HandleResponse(t) ==
  /\ Handling(t) /\ reading = Checked /\ ~IsRequest(serBuf)
  /\ IF Wanted(t) THEN reading' = Copy /\ UNCHANGED <<pc, lock, tries>>
     ELSE reading' = NotReading /\ NextFrame(t)
  /\ UNCHANGED <<rxQueue, walk, serBuf, txBuf, owed>>

CopyResponse(t) ==
  /\ Handling(t) /\ reading = Copy
  /\ reading' = NotReading
  /\ txBuf' = serBuf
  /\ tries' = 0
  /\ Unlocked(t, "result")
  /\ UNCHANGED <<rxQueue, walk, serBuf, owed>>

(* The function reads its answer from sl_ser_tx_buf.  ZW_SendData_Bridge   *)
(* forgets its callback unless the answer is TRUE; what is there instead   *)
(* of an answer may read as TRUE.                                          *)
Result(t) ==
  /\ pc[t] \in {"result", "failed"}
  /\ pc' = [pc EXCEPT ![t] = Home(t)]
  /\ IF fn[call[t]] # "SendData" THEN UNCHANGED <<txBuf, cbFunc>>
     ELSE IF pc[t] = "failed" THEN txBuf' = False /\ cbFunc' = 0
     ELSE /\ UNCHANGED txBuf
          /\ cbFunc' \in IF txBuf.kind = "RES"
                        THEN {IF txBuf.ok THEN cbFunc ELSE 0}
                        ELSE {cbFunc, 0}
  /\ Record(IF pc[t] = "failed" THEN {"unsure"} ELSE {})
  /\ UNCHANGED <<call, fn, lock, reading, tries, needAck, serBuf, rxQueue, walk, uart,
                 chip, faults, owed>>

-----------------------------------------------------------------------------
(* The chip.  It takes a command, acknowledges it, then sends its          *)
(* response, and transmits one frame over the air at a time.               *)
Chip == UNCHANGED <<host, owed, hist>>
Granted(c) ==
  IF c.fn # "SendData" THEN {TRUE} ELSE IF chip.sending = 0 THEN BOOLEAN ELSE {FALSE}
ChipTakes ==
  /\ Chip /\ chip.in # <<>>
  /\ UNCHANGED faults
  /\ LET c == Head(chip.in) IN
     \E ok \in Granted(c) :
       /\ uart' = Append(uart, Ack)
       /\ chip' = [chip EXCEPT
            !.in = Tail(chip.in),
            !.owes = IF Answers(c.fn) THEN Append(@, Res(c.fn, c.of, ok)) ELSE @,
            !.sending = IF c.fn = "SendData" /\ ok THEN c.of ELSE @]

ChipAnswers ==
  /\ Chip /\ chip.owes # <<>>
  /\ uart' = Append(uart, Head(chip.owes))
  /\ chip' = [chip EXCEPT !.owes = Tail(chip.owes)]
  /\ UNCHANGED faults

(* It refuses a garbled command, or one that meets a frame of its own, or  *)
(* does not hear it.                                                       *)
ChipDrops ==
  /\ Chip /\ chip.in # <<>>
  /\ Fault
  /\ uart' \in {uart, Append(uart, Nak)}
  /\ chip' = [chip EXCEPT !.in = Tail(chip.in)]

ChipDone ==
  /\ Chip /\ chip.sending # 0 /\ chip.owes = <<>>
  /\ chip' = [chip EXCEPT !.sending = 0]
  /\ uart' = Append(uart, Done(chip.sending))
  /\ UNCHANGED faults

ChipRequest ==
  /\ Chip /\ Fault
  /\ uart' = Append(uart, Req(faults'))
  /\ UNCHANGED chip

-----------------------------------------------------------------------------
Receive(t) ==
  \/ SkipByte(t) \/ ReadControl(t) \/ ReadTimeout(t)
  \/ ReadHead(t) \/ ReadGood(t) \/ ReadBad(t)
  \/ CountFrame(t) \/ HandleRequest(t) \/ WalkQueue(t) \/ LinkFrame(t)
  \/ HandleResponse(t) \/ CopyResponse(t)
Acquire(t) == Lock(t) \/ LockQuiet(t)
Run(t) == Send(t) \/ Retransmit(t) \/ Receive(t) \/ Result(t)
Next ==
  \/ SerialAPI_Poll \/ PollDrain
  \/ \E t \in Threads : Acquire(t) \/ Run(t) \/ \E f \in Funcs : Call(t, f)
  \/ ChipTakes \/ ChipAnswers \/ ChipDrops \/ ChipDone \/ ChipRequest

Spec == Init /\ [][Next]_vars

(* The threads are scheduled, waits end, a thread that waits for the lock  *)
(* gets it in the end: sapi_t sleeps between two polls.  A chip that takes *)
(* no command at all is one that loses or answers late each one, which the *)
(* bound on these events allows for.                                       *)
LiveSpec ==
  /\ Spec
  /\ WF_vars(SerialAPI_Poll) /\ WF_vars(PollDrain) /\ WF_vars(ChipTakes \/ ChipAnswers)
  /\ \A t \in Threads : WF_vars(Run(t)) /\ SF_vars(Acquire(t))

-----------------------------------------------------------------------------
(* The requests acknowledged to the chip, which therefore never repeats    *)
(* them, are the ones in the receive queue and the one in the hands of the *)
(* thread that receives, in order: none is lost, queued twice or overtaken *)
(* by another, however polls come between the steps of a walk to the end of*)
(* the queue, unless the queue was full, or sapi_t took a frame from the   *)
(* queue while a thread was looking at the shared frame buffer or at the   *)
(* frame taken.                                                            *)
QueueIsOwed == "raced" \notin hist => owed = rxQueue \o InHand

(* The response a caller of SendFrameWithResponse finds in sl_ser_tx_buf   *)
(* is about its own parameters and for its own function, whatever is lost, *)
(* late or repeated, as long as no other call is made meanwhile, nothing   *)
(* of an earlier call of the same function was still on its way (a frame   *)
(* has no number to tell), and sapi_t did not write into the frame buffer. *)
OwnAnswer ==
  \A t \in Threads :
    pc[t] = "result" /\ hist \cap {"early", "overlap", "raced"} = {} =>
      txBuf = Res(fn[call[t]], call[t], TRUE) \/ txBuf = Res(fn[call[t]], call[t], FALSE)

(* The callback of ZW_SendData_Bridge, which is found without a look at    *)
(* the identifier in the frame, is called for the transmission it was      *)
(* given for, whatever commands are lost or garbled and frames garbled, as *)
(* long as no call was given up, the chip took no command twice, no frame  *)
(* was repeated after an ACK and no response was missed.                   *)
OwnCallback ==
  [][\A c \in Calls :
       rxQueue # <<>> /\ rxQueue' = Tail(rxQueue) /\ Head(rxQueue) = Done(c)
         /\ hist \cap {"unsure", "overlap", "raced"} = {}
         => cbFunc \in {0, c}]_vars

(* Every call, and every poll of sapi_t, returns: the loops that wait for  *)
(* an ACK and a response end, however frames cross, and no way out of them *)
(* keeps the lock.                                                         *)
CallReturns == \A t \in Threads : ~Returned(t) ~> Returned(t)
=============================================================================
