--------------------------- MODULE SerialHostProofs ---------------------------
(* Theorems about SerialHost, for every set of threads, any number of calls *)
(* and faults, and every length of the queue and of the loops.  IInv is the *)
(* invariant, in five parts: the types and places, which hold always; what  *)
(* the receive queue is; and, each for as long as the history allows, whose *)
(* answer is on the way, what sl_ser_tx_buf holds, and what the chip does   *)
(* for whom.  One lemma shows that a step keeps a part.                     *)
EXTENDS SerialHost, SequenceTheorems, TLAPS

-----------------------------------------------------------------------------
(* The places between sl_serial_lock and sl_serial_unlock, those from which *)
(* sl_serial_rx_frame is called, and those of a call that has transmitted.  *)
Holding == {"drain", "send", "ack", "backoff", "answer"}
Listening == {"drain", "ack", "answer"}
Transmitting == {"send", "ack", "backoff", "answer", "result", "failed"}

LockHeld ==
  \A t \in Threads : pc[t] \in Holding <=> lock = t
Numbered ==
  \A t \in Threads : /\ call[t] \in 0..Len(fn)
                     /\ pc[t] \in Transmitting => call[t] # 0
TriesLeft ==
  \A t \in Threads : /\ pc[t] \in {"ack", "backoff"} => tries < TxTries
                     /\ pc[t] = "answer" => tries < RxTries
(* The loops know where they are and what they hold.                        *)
Control ==
  /\ pc \in [Threads -> Places] /\ lock \in Threads \cup {NoThread}
  /\ tries \in 0..(IF TxTries > RxTries THEN TxTries ELSE RxTries) - 1
  /\ LockHeld /\ TriesLeft

(* A frame is in the hands of the owner of the lock, and once checked it is *)
(* one; there is room for a request that is to be linked, because only      *)
(* sapi_t comes in between, and it takes frames away.                       *)
Reception ==
  /\ reading # NotReading => \E t \in Threads : lock = t /\ pc[t] \in Listening
  /\ reading = Copy => \A t \in Threads : lock = t => pc[t] = "answer"
  /\ reading \in {Checked, Copy} => serBuf \in Frames
  /\ reading.at = "link" => Len(rxQueue) < QueueLen

(* The walker is in the queue or just past it, and has counted all that is  *)
(* before it, unless sapi_t has meanwhile made room.                        *)
Walked ==
  /\ walk.node <= Len(rxQueue) + 1
  /\ walk.freed => Len(rxQueue) < QueueLen
  /\ walk.node <= walk.len + 1 \/ Len(rxQueue) < QueueLen
TypeInv == TypeOK /\ Control /\ Numbered /\ Reception /\ Walked

(* The queue is what is owed, and nobody frees the node the walker is at.   *)
Queued == QueueIsOwed /\ ("raced" \notin hist => ~walk.freed)

(* A call that is under way is the only one, and all that is on its way to  *)
(* it or from it and concerns its function carries its number.              *)
Alone == \A t, u \in InCall : t = u
OwnCommands(t) == \A c \in Items(chip.in) : c.fn = fn[call[t]] => c.of = call[t]
Arriving == chip.owes \o uart \o Received
OwnResponses(t) ==
  \A x \in Items(Arriving) : IsResponse(x, fn[call[t]]) => x.call = call[t]
OwnBuffer(t) ==
  /\ pc[t] # "result" => txBuf = Params(call[t])
  /\ pc[t] = "result" => \E ok \in BOOLEAN : txBuf = Res(fn[call[t]], call[t], ok)
OwnCopy(t) ==
  reading = Copy => pc[t] = "answer" /\ IsResponse(serBuf, fn[call[t]])
Answering ==
  /\ Alone
  /\ \A t \in InCall : OwnCommands(t) /\ OwnResponses(t) /\ OwnBuffer(t) /\ OwnCopy(t)
Apart == hist \cap {"early", "overlap", "raced"} = {}

(* The same without a look at the call a response is about.                *)
Filled(t) ==
  /\ pc[t] # "result" => txBuf = Params(call[t])
  /\ pc[t] = "result" => txBuf \in Responses /\ IsResponse(txBuf, fn[call[t]])
  /\ OwnCopy(t)
Single == Alone /\ \A t \in InCall : Filled(t)
Lone == hist \cap {"overlap", "raced"} = {}

(* What the chip has sent and sapi_t has not dispatched, oldest first.      *)
Stream == rxQueue \o Received \o uart
Dones == {Done(c) : c \in 1..Garbage}
Controls == {Ack, Nak}
FreeIn(s, F) == \A i \in DOMAIN s : s[i] \notin F
OnceIn(s, F) == \A i, j \in DOMAIN s : s[i] \in F /\ s[j] \in F => i = j
OrderedIn(s, F, G) == \A i, j \in DOMAIN s : s[i] \in F /\ s[j] \in G => i < j
Free(F) == FreeIn(Stream, F)
Once(F) == OnceIn(Stream, F)

(* The chip transmits, or has called back, for the call whose callback is   *)
(* set, and for none when it refused it.                                    *)
NoTransmission == chip.sending = 0 /\ Free(Dones)
Transmission ==
  /\ Once(Dones) /\ Free(Dones \ {Done(cbFunc)})
  /\ chip.sending # 0 => chip.sending = cbFunc /\ Free(Dones)
Refusals == {Res("SendData", c, FALSE) : c \in 1..Garbage}
NoRefusal ==
  /\ Free(Refusals) /\ FreeIn(chip.owes, Refusals)
  /\ \A t \in Threads : pc[t] = "result" => txBuf \notin Refusals
Refused == NoTransmission \/ NoRefusal

(* A command is answered once; between two calls the line is quiet.         *)
Quiet == chip.in = <<>> /\ chip.owes = <<>> /\ Free(Controls \cup Responses)
OneResponse ==
  /\ Len(chip.owes) <= 1 /\ Once(Responses)
  /\ chip.owes # <<>> => Free(Responses)
Started(t) == fn[call[t]] = "SendData" => cbFunc = call[t] /\ NoTransmission
Unanswered(t) == chip.owes = <<>> /\ Free(Responses) /\ Started(t)
AwaitsAck(t) ==
  /\ needAck /\ Len(chip.in) <= 1 /\ Once(Controls) /\ OneResponse
  /\ chip.in # <<>> =>
       chip.in[1] = [fn |-> fn[call[t]], of |-> call[t]] /\ Free(Controls)
  /\ OrderedIn(Stream, {Ack}, Responses)
  /\ Free({Ack}) => Unanswered(t)
  /\ ~Answers(fn[call[t]]) => chip.owes = <<>> /\ Free(Responses)
AwaitsAnswer == chip.in = <<>> /\ Free(Controls) /\ OneResponse
GaveUp == chip.in = <<>> /\ Free(Controls)

Line ==
  /\ (\A t \in Threads : pc[t] \notin {"ack", "answer", "failed"}) => Quiet
  /\ \A t \in Threads :
       /\ pc[t] = "ack" => AwaitsAck(t)
       /\ pc[t] = "answer" => AwaitsAnswer
       /\ pc[t] = "failed" => GaveUp
       /\ pc[t] \in {"send", "backoff"} => Unanswered(t)
       /\ pc[t] \in {"lock", "drain"} /\ call[t] # 0 => Started(t)
Certain == hist \cap {"unsure", "overlap", "raced"} = {}
Following == Transmission /\ Refused /\ Line

IInv ==
  /\ TypeInv /\ Queued
  /\ Apart => Answering
  /\ Lone => Single
  /\ Certain => Following

-----------------------------------------------------------------------------
(* Types.                                                                  *)
Rounds == 0..(IF TxTries > RxTries THEN TxTries ELSE RxTries) - 1

LEMMA RoundsAre ==
  /\ \A k \in Nat : k < TxTries \/ k < RxTries => k \in Rounds
  /\ Rounds \subseteq Nat /\ 0 \in Rounds /\ 0 < TxTries /\ 1 < TxTries /\ 0 < RxTries
  /\ TxTries \in Nat /\ RxTries \in Nat /\ QueueLen \in Nat /\ QueueLen > 0
  /\ MaxCalls \in Nat /\ MaxFaults \in Nat
<1>1. TxTries \in Nat /\ TxTries > 1 /\ RxTries \in Nat /\ RxTries > 0
  BY SerialHostAssumption
<1>2. QueueLen \in Nat /\ QueueLen > 0 /\ MaxCalls \in Nat /\ MaxFaults \in Nat
  BY SerialHostAssumption
<1> QED
  BY <1>1, <1>2 DEF Rounds

(* The owner of the lock goes on to place p.                               *)
Moves(t, p) ==
  /\ pc' = [pc EXCEPT ![t] = p]
  /\ lock' = IF p \in Holding THEN t ELSE NoThread
  /\ tries' \in Rounds
  /\ p \in {"ack", "backoff"} => tries' < TxTries
  /\ p = "answer" => tries' < RxTries
  /\ p \in Transmitting => call[t] # 0

LEMMA MovesControl ==
  ASSUME TypeInv, NEW t \in Threads, lock = t, NEW p \in Places, Moves(t, p),
         UNCHANGED <<call, fn>>
  PROVE  /\ Control' /\ Numbered'
         /\ pc' \in [Threads -> Places] /\ lock' \in Threads \cup {NoThread}
         /\ tries' \in Rounds
<1>1. pc \in [Threads -> Places] /\ LockHeld /\ Numbered /\ NoThread \notin Threads
  BY SerialHostAssumption DEF TypeInv, TypeOK, Control
<1>2. pc' \in [Threads -> Places] /\ pc'[t] = p /\ \A u \in Threads \ {t} : pc'[u] = pc[u]
  BY <1>1 DEF Moves
<1>3. \A u \in Threads \ {t} : pc[u] \notin Holding
  BY <1>1 DEF LockHeld
<1>4. LockHeld'
  BY <1>1, <1>2, <1>3 DEF LockHeld, Moves
<1>5. TriesLeft'
  BY <1>2, <1>3 DEF TriesLeft, Moves, Holding
<1>6. Numbered'
  BY <1>1, <1>2 DEF Numbered, Moves
<1> QED
  BY <1>1, <1>2, <1>4, <1>5, <1>6 DEF Control, Moves, Rounds

LEMMA OwnerListens ==
  ASSUME TypeInv, NEW t \in Threads, lock = t
  PROVE  pc[t] \in Holding
BY DEF TypeInv, Control, LockHeld

LEMMA NoFrameMoves ==
  ASSUME TypeInv, NEW t \in Threads, lock = t, pc[t] \in Listening, NoFrame(t)
  PROVE  \E p \in {"poll", "send", "backoff", "answer", "failed"} :
           /\ Moves(t, p)
           /\ pc[t] = "drain" => p = IF call[t] = 0 THEN "poll" ELSE "send"
           /\ pc[t] = "ack" => p = "backoff"
           /\ pc[t] = "answer" => p \in {"answer", "failed"}
<1>1. /\ pc \in [Threads -> Places] /\ Numbered /\ TriesLeft /\ tries \in Rounds
      /\ tries \in Nat
  BY RoundsAre DEF TypeInv, TypeOK, Control, Rounds
<1>2. CASE pc[t] = "drain" /\ call[t] = 0
  <2>1. Moves(t, "poll")
    BY <1>1, <1>2 DEF NoFrame, Unlocked, Moves, Holding, Transmitting
  <2> QED
    BY <1>2, <2>1
<1>3. CASE pc[t] = "drain" /\ call[t] # 0
  <2>1. Moves(t, "send")
    BY <1>1, <1>3 DEF NoFrame, Moves, Holding, Transmitting
  <2> QED
    BY <1>3, <2>1
<1>4. CASE pc[t] = "ack"
  <2>1. Moves(t, "backoff")
    BY <1>1, <1>4 DEF NoFrame, Moves, Holding, Transmitting, TriesLeft, Numbered
  <2> QED
    BY <1>4, <2>1
<1>5. CASE pc[t] = "answer"
  <2>1. TryAgain(t) /\ call[t] # 0 /\ tries < RxTries
    BY <1>1, <1>5 DEF NoFrame, TriesLeft, Numbered, Transmitting
  <2>2. CASE tries + 1 = RxTries
    <3>1. Moves(t, "failed")
      BY <1>1, <2>1, <2>2, RoundsAre DEF TryAgain, Unlocked, Moves, Holding
    <3> QED
      BY <1>5, <3>1
  <2>3. CASE tries + 1 # RxTries
    <3>1. tries + 1 < RxTries /\ tries + 1 \in Rounds
      BY <1>1, <2>1, <2>3, RoundsAre
    <3>2. pc' = [pc EXCEPT ![t] = "answer"]
      BY <1>1, <1>5, <2>1, <2>3 DEF TryAgain
    <3>3. Moves(t, "answer")
      BY <2>1, <2>3, <3>1, <3>2 DEF TryAgain, Moves, Holding
    <3> QED
      BY <1>5, <3>3
  <2> QED
    BY <2>2, <2>3
<1> QED
  BY <1>2, <1>3, <1>4, <1>5 DEF Listening

LEMMA NextFrameMoves ==
  ASSUME TypeInv, NEW t \in Threads, lock = t, pc[t] \in Listening, NextFrame(t)
  PROVE  \E p \in {"drain", "ack", "answer", "failed"} :
           /\ Moves(t, p)
           /\ pc[t] \in {"drain", "ack"} => p = pc[t]
           /\ pc[t] = "answer" => p \in {"answer", "failed"}
<1>1. /\ pc \in [Threads -> Places] /\ Numbered /\ TriesLeft /\ tries \in Rounds
      /\ tries \in Nat
  BY RoundsAre DEF TypeInv, TypeOK, Control, Rounds
<1>2. CASE pc[t] = "drain"
  <2>1. Moves(t, "drain")
    BY <1>1, <1>2 DEF NextFrame, Moves, Holding, Transmitting
  <2> QED
    BY <1>2, <2>1
<1>3. CASE pc[t] = "ack"
  <2>1. tries' \in Rounds /\ tries' < TxTries
    BY <1>1, <1>3, RoundsAre DEF NextFrame, TriesLeft
  <2>2. Moves(t, "ack")
    BY <1>1, <1>3, <2>1 DEF NextFrame, Moves, Holding, Transmitting, Numbered
  <2> QED
    BY <1>3, <2>2
<1>4. CASE pc[t] = "answer"
  <2>1. NoFrame(t)
    BY <1>4 DEF NextFrame, NoFrame
  <2> QED
    BY <1>4, <2>1, NoFrameMoves DEF Listening
<1> QED
  BY <1>2, <1>3, <1>4 DEF Listening

(* The frames by their kind.                                               *)
LEMMA FramesAre ==
  /\ \A f \in Frames : f.kind \in {"REQ", "RES"}
  /\ \A f \in Frames : IsRequest(f) <=> f \in Requests
  /\ \A f \in Frames : ~IsRequest(f) <=> f \in Responses
  /\ \A f \in Frames : f \notin {Ack, Nak, Nothing, False}
  /\ \A x \in Frames \cup {Ack, Nak} : IsFrame(x) <=> x \in Frames
  /\ \A x \in Frames \cup {Ack, Nak} : ~IsFrame(x) <=> x \in {Ack, Nak}
  /\ Ack # Nak /\ Requests \subseteq Frames /\ Responses \subseteq Frames
BY DEF Frames, Requests, Responses, IsRequest, IsFrame, Req, Done, Res, Ack, Nak, Nothing, False

LEMMA ReadingIs ==
  ASSUME TypeOK
  PROVE  /\ reading.at \in {"no", "body", "checked", "link", "copy"}
         /\ reading.at = "no" <=> reading = NotReading
         /\ reading.at = "checked" <=> reading = Checked
         /\ reading.at = "copy" <=> reading = Copy
         /\ reading.at = "body" => reading.frame \in Frames /\ reading = Body(reading.frame)
         /\ reading.at = "link" => reading.frame \in Requests /\ reading = Link(reading.frame)
         /\ \A f : Body(f).at = "body" /\ Body(f).frame = f
         /\ \A f : Link(f).at = "link" /\ Link(f).frame = f
BY DEF TypeOK, NotReading, Checked, Copy, Body, Link

(* The walker, at rest and on its way.                                     *)
LEMMA AtStartTyped ==
  /\ AtStart \in [node : 0..QueueLen + 1, freed : BOOLEAN, len : Nat]
  /\ \A q \in Seq(Requests) : walk' = AtStart /\ rxQueue' = q => Walked'
BY RoundsAre DEF AtStart, Walked

LEMMA WalkedKept == ASSUME Walked, UNCHANGED <<walk, rxQueue>> PROVE Walked'
BY DEF Walked

LEMMA WalkTyped ==
  ASSUME TypeOK
  PROVE  /\ walk.node \in Nat /\ walk.freed \in BOOLEAN /\ walk.len \in Nat
         /\ Len(rxQueue) \in Nat /\ rxQueue \in Seq(Requests) /\ Len(rxQueue) <= QueueLen
         /\ \A n \in 0..QueueLen + 1, b \in BOOLEAN, k \in Nat :
              [node |-> n, freed |-> b, len |-> k]
                \in [node : 0..QueueLen + 1, freed : BOOLEAN, len : Nat]
BY DEF TypeOK

(* A step of the walker changes nothing else.                              *)
WalkStep(t) == CountFrame(t) \/ WalkQueue(t)
Walkless == <<pc, call, fn, lock, reading, tries, needAck, serBuf, txBuf, cbFunc, rxQueue,
              uart, chip, faults, owed, hist>>

LEMMA WalkStepIs ==
  ASSUME NEW t \in Threads, WalkStep(t)
  PROVE  UNCHANGED Walkless
BY DEF WalkStep, CountFrame, WalkQueue, Handling, Walkless

LEMMA TypeWalkStep ==
  ASSUME TypeInv, NEW t \in Threads, WalkStep(t)
  PROVE  TypeInv'
<1>1. UNCHANGED Walkless
  BY WalkStepIs
<1>2. /\ walk.node \in Nat /\ walk.freed \in BOOLEAN /\ walk.len \in Nat
      /\ Len(rxQueue) \in Nat /\ Len(rxQueue) <= QueueLen /\ QueueLen \in Nat
      /\ Len(rxQueue') = Len(rxQueue) /\ Walked
  BY <1>1, WalkTyped, RoundsAre DEF TypeInv, Walkless
<1>3. CASE CountFrame(t)
  <2>1. PICK n \in NextNodes :
          walk' = [node |-> n, freed |-> FALSE,
                   len |-> IF walk.node = 0 THEN 0 ELSE walk.len + 1]
    BY <1>3 DEF CountFrame
  <2>2. /\ n \in Nat /\ n <= Len(rxQueue) + 1
        /\ walk.freed => Len(rxQueue) < QueueLen
        /\ ~walk.freed => n = walk.node + 1
    BY <1>2, <1>3, <2>1 DEF CountFrame, NextNodes, Walked
  <2>3. /\ walk'.node = n /\ walk'.freed = FALSE
        /\ walk'.len = IF walk.node = 0 THEN 0 ELSE walk.len + 1
    BY <2>1
  <2>4. Walked'
    BY <1>2, <2>2, <2>3 DEF Walked
  <2>5. walk' \in [node : 0..QueueLen + 1, freed : BOOLEAN, len : Nat]
    BY <1>2, <2>1, <2>2
  <2> QED
    BY <1>1, <2>4, <2>5
    DEF Walkless, TypeInv, TypeOK, Control, LockHeld, TriesLeft, Numbered, Reception
<1>4. CASE WalkQueue(t)
  <2>1. PICK n \in NextNodes : n <= Len(rxQueue) /\ walk' = [walk EXCEPT !.node = n, !.freed = FALSE]
    BY <1>4 DEF WalkQueue
  <2>2. n \in Nat /\ Len(rxQueue) < QueueLen
    BY <1>2, <1>4, <2>1 DEF WalkQueue, NextNodes, TypeInv, Reception
  <2>3. walk \in [node : 0..QueueLen + 1, freed : BOOLEAN, len : Nat]
    BY DEF TypeInv, TypeOK
  <2>4. walk' \in [node : 0..QueueLen + 1, freed : BOOLEAN, len : Nat]
    <3>1. n \in 0..QueueLen + 1
      BY <1>2, <2>1, <2>2
    <3> QED
      BY <2>1, <2>3, <3>1
  <2>5. Walked'
    <3>1. walk'.node = n /\ walk'.freed = FALSE
      BY <2>1, <2>3
    <3> QED
      BY <1>2, <2>1, <2>2, <3>1 DEF Walked
  <2> QED
    BY <1>1, <2>4, <2>5
    DEF Walkless, TypeInv, TypeOK, Control, LockHeld, TriesLeft, Numbered, Reception
<1> QED
  BY <1>3, <1>4 DEF WalkStep

(* The variables that a step of the link layer in one thread leaves alone,  *)
(* or changes within their types.                                          *)
LEMMA TypeReception ==
  ASSUME TypeInv, NEW t \in Threads, lock = t, pc[t] \in Listening,
         UNCHANGED <<call, fn, cbFunc, chip>>, needAck' \in BOOLEAN,
         serBuf' \in {Nothing} \cup Frames \cup {Half(f) : f \in Frames},
         txBuf' \in {False} \cup {Params(c) : c \in 1..Garbage} \cup Frames,
         rxQueue' \in Seq(Requests), Len(rxQueue') <= QueueLen,
         uart' \in Seq(Frames \cup {Ack, Nak}), faults' \in 0..MaxFaults, owed' \in Seq(Requests),
         hist' \subseteq {"overlap", "early", "raced", "unsure"},
         reading' \in {NotReading, Checked, Copy} \cup {Body(f) : f \in Frames}
                      \cup {Link(f) : f \in Requests},
         reading' \in {Checked, Copy} => serBuf' \in Frames,
         reading'.at = "link" => Len(rxQueue') < QueueLen,
         walk' = AtStart \/ UNCHANGED <<walk, rxQueue>>,
         NEW p \in Places, Moves(t, p), reading' # NotReading => p \in Listening,
         reading' = Copy => p = "answer"
  PROVE  TypeInv'
<1>1. /\ Control' /\ Numbered' /\ pc' \in [Threads -> Places]
      /\ lock' \in Threads \cup {NoThread} /\ tries' \in Rounds
  BY MovesControl
<1>2. TypeOK'
  <2>1. walk' \in [node : 0..QueueLen + 1, freed : BOOLEAN, len : Nat]
    BY AtStartTyped DEF TypeInv, TypeOK
  <2> QED
    BY <1>1, <2>1 DEF TypeInv, TypeOK, Rounds
<1>w. Walked'
  BY WalkedKept, AtStartTyped DEF TypeInv
<1>3. Reception'
  <2>1. reading' # NotReading => lock' = t /\ pc'[t] = p
    BY DEF Moves, Listening, Holding, TypeInv, TypeOK
  <2>2. reading' = Copy => \A u \in Threads : lock' = u => pc'[u] = "answer"
    BY <2>1 DEF Copy, NotReading
  <2> QED
    BY <2>1, <2>2 DEF Reception
<1> QED
  BY <1>1, <1>2, <1>3, <1>w DEF TypeInv

LEMMA StaysMoves ==
  ASSUME TypeInv, NEW t \in Threads, lock = t, pc[t] \in Listening, UNCHANGED <<pc, lock, tries>>
  PROVE  Moves(t, pc[t])
BY RoundsAre DEF TypeInv, TypeOK, Control, Numbered, TriesLeft, Moves, Listening, Holding, Transmitting, Rounds

LEMMA ReaderListens ==
  ASSUME TypeInv, NEW t \in Threads, lock = t, reading # NotReading
  PROVE  pc[t] \in Listening
BY DEF TypeInv, Reception

LEMMA RecordTyped ==
  ASSUME TypeInv, NEW h \in SUBSET {"overlap", "early", "raced", "unsure"}, Record(h)
  PROVE  hist' \subseteq {"overlap", "early", "raced", "unsure"}
BY DEF Record, TypeInv, TypeOK

LEMMA FaultTyped ==
  ASSUME TypeInv, Fault
  PROVE  faults' \in 1..MaxFaults /\ faults' \in 0..MaxFaults
BY RoundsAre DEF Fault, TypeInv, TypeOK

LEMMA PlacesAre ==
  /\ Listening \subseteq Holding /\ Holding \subseteq Places /\ Transmitting \subseteq Places
  /\ {"poll", "served", "idle", "lock", "send", "backoff", "failed"} \subseteq Places
BY DEF Listening, Holding, Transmitting, Places

LEMMA TypeSkipByte ==
  ASSUME TypeInv, NEW t \in Threads, SkipByte(t)
  PROVE  TypeInv'
<1>1. Moves(t, pc[t]) /\ pc[t] \in Listening /\ lock = t
  BY StaysMoves DEF SkipByte, Receiving, Listening
<1>2. uart' \in Seq(Frames \cup {Ack, Nak})
  BY DEF SkipByte, TypeInv, TypeOK
<1> QED
  BY <1>1, <1>2, TypeReception, PlacesAre DEF SkipByte, Receiving, TypeInv, TypeOK, Reception

LEMMA TypeReadControl ==
  ASSUME TypeInv, NEW t \in Threads, ReadControl(t)
  PROVE  TypeInv'
<1>1. pc[t] \in Listening /\ lock = t /\ reading = NotReading
  BY DEF ReadControl, Receiving, Listening
<1>2. uart' \in Seq(Frames \cup {Ack, Nak})
  BY DEF ReadControl, TypeInv, TypeOK
<1>3. PICK p \in Places : Moves(t, p)
  <2>1. CASE pc[t] = "ack" /\ Head(uart) = Ack
    <3>1. call[t] # 0
      BY <2>1 DEF TypeInv, Numbered, Transmitting
    <3>2. CASE Answers(fn[call[t]])
      <4>1. Moves(t, "answer")
        BY <1>1, <2>1, <3>1, <3>2, RoundsAre DEF ReadControl, Moves, Holding, Unlocked
      <4> QED
        BY <4>1, PlacesAre DEF Holding
    <3>3. CASE ~Answers(fn[call[t]])
      <4>1. Moves(t, Home(t))
        BY <1>1, <2>1, <3>1, <3>3, RoundsAre
        DEF ReadControl, Moves, Holding, Unlocked, Home, Transmitting
      <4> QED
        BY <4>1, PlacesAre DEF Home
    <3> QED
      BY <3>2, <3>3
  <2>2. CASE ~(pc[t] = "ack" /\ Head(uart) = Ack)
    <3>1. NoFrame(t)
      BY <2>2 DEF ReadControl
    <3> QED
      BY <1>1, <3>1, NoFrameMoves, PlacesAre DEF Listening, Holding
  <2> QED
    BY <2>1, <2>2
<1> QED
  BY <1>1, <1>2, <1>3, TypeReception, ReadingIs
  DEF ReadControl, Receiving, TypeInv, TypeOK, NotReading

LEMMA TypeReadTimeout ==
  ASSUME TypeInv, NEW t \in Threads, ReadTimeout(t)
  PROVE  TypeInv'
<1>1. pc[t] \in Listening /\ lock = t /\ reading = NotReading /\ NoFrame(t)
  BY DEF ReadTimeout, Receiving, Listening
<1>2. faults' \in 0..MaxFaults /\ hist' \subseteq {"overlap", "early", "raced", "unsure"}
  BY FaultTyped, RecordTyped DEF ReadTimeout, TypeInv, TypeOK
<1>3. PICK p \in Places : Moves(t, p)
  BY <1>1, NoFrameMoves, PlacesAre DEF Listening, Holding
<1> QED
  BY <1>1, <1>2, <1>3, TypeReception, ReadingIs
  DEF ReadTimeout, Receiving, TypeInv, TypeOK, NotReading

LEMMA TypeReadHead ==
  ASSUME TypeInv, NEW t \in Threads, ReadHead(t)
  PROVE  TypeInv'
<1>1. Moves(t, pc[t]) /\ pc[t] \in Listening /\ lock = t
  BY StaysMoves DEF ReadHead, Receiving, Listening
<1>2. uart' \in Seq(Frames \cup {Ack, Nak}) /\ Head(uart) \in Frames
  BY FramesAre DEF ReadHead, TypeInv, TypeOK
<1>3. reading' = Body(Head(uart)) /\ serBuf' = Half(Head(uart))
  BY DEF ReadHead
<1>4. reading' \notin {Checked, Copy} /\ reading'.at # "link"
  BY <1>3 DEF Body, Checked, Copy
<1> QED
  BY <1>1, <1>2, <1>3, <1>4, TypeReception, PlacesAre DEF ReadHead, Receiving, TypeInv, TypeOK

LEMMA TypeReadGood ==
  ASSUME TypeInv, NEW t \in Threads, ReadGood(t)
  PROVE  TypeInv'
<1>1. /\ reading.frame \in Frames /\ reading.at = "body" /\ lock = t /\ reading # NotReading
  BY ReadingIs DEF ReadGood, ReadingBody, TypeInv
<1>2. Moves(t, pc[t]) /\ pc[t] \in Listening
  BY <1>1, StaysMoves, ReaderListens DEF ReadGood
<1>3. uart' \in Seq(Frames \cup {Ack, Nak})
  <2>1. <<reading.frame>> \o uart \in Seq(Frames \cup {Ack, Nak})
    BY <1>1 DEF TypeInv, TypeOK
  <2> QED
    BY <2>1 DEF ReadGood, TypeInv, TypeOK
<1>4. faults' \in 0..MaxFaults /\ hist' \subseteq {"overlap", "early", "raced", "unsure"}
  BY FaultTyped, RecordTyped DEF ReadGood, TypeInv, TypeOK
<1>5. owed' \in Seq(Requests)
  <2>1. IsRequest(reading.frame) => Append(owed, reading.frame) \in Seq(Requests)
    BY <1>1, FramesAre DEF TypeInv, TypeOK
  <2> QED
    BY <2>1 DEF ReadGood, TypeInv, TypeOK
<1>6. /\ reading' = Checked /\ reading' # Copy /\ reading'.at # "link"
      /\ serBuf' = reading.frame
  BY DEF ReadGood, Checked, Copy
<1> QED
  BY <1>1, <1>2, <1>3, <1>4, <1>5, <1>6, TypeReception, PlacesAre
  DEF ReadGood, ReadingBody, TypeInv, TypeOK

LEMMA TypeReadBad ==
  ASSUME TypeInv, NEW t \in Threads, ReadBad(t)
  PROVE  TypeInv'
<1>1. /\ reading.frame \in Frames /\ reading.at = "body" /\ lock = t /\ reading # NotReading
  BY ReadingIs DEF ReadBad, ReadingBody, TypeInv
<1>2. pc[t] \in Listening /\ NoFrame(t)
  BY <1>1, ReaderListens DEF ReadBad
<1>3. PICK p \in Places : Moves(t, p)
  BY <1>1, <1>2, NoFrameMoves, PlacesAre DEF Listening, Holding
<1>4. uart' \in Seq(Frames \cup {Ack, Nak})
  <2>1. <<reading.frame>> \o uart \in Seq(Frames \cup {Ack, Nak})
    BY <1>1 DEF TypeInv, TypeOK
  <2> QED
    BY <2>1 DEF ReadBad, TypeInv, TypeOK
<1>5. faults' \in 0..MaxFaults /\ hist' \subseteq {"overlap", "early", "raced", "unsure"}
  BY FaultTyped, RecordTyped DEF ReadBad, TypeInv, TypeOK
<1>6. reading' = NotReading /\ reading' \notin {Checked, Copy} /\ reading'.at # "link"
  BY DEF ReadBad, NotReading, Checked, Copy
<1> QED
  BY <1>1, <1>2, <1>3, <1>4, <1>5, <1>6, TypeReception DEF ReadBad, ReadingBody, TypeInv, TypeOK

LEMMA NextFrameTyped ==
  ASSUME TypeInv, NEW t \in Threads, lock = t, pc[t] \in Listening, NextFrame(t)
  PROVE  \E p \in Places : Moves(t, p)
BY NextFrameMoves, PlacesAre DEF Listening, Holding

LEMMA TypeHandleRequest ==
  ASSUME TypeInv, NEW t \in Threads, HandleRequest(t)
  PROVE  TypeInv'
<1>1. /\ reading = Checked /\ lock = t /\ reading # NotReading /\ serBuf \in Frames
      /\ serBuf \in Requests
  BY FramesAre DEF HandleRequest, Counting, Handling, Checked, NotReading, TypeInv, Reception
<1>2. pc[t] \in Listening
  BY <1>1, ReaderListens
<1>3. CASE walk.len < QueueLen
  <2>1. Moves(t, pc[t])
    BY <1>1, <1>2, <1>3, StaysMoves DEF HandleRequest
  <2>2. reading' = Link(serBuf) /\ reading' \notin {Checked, Copy}
    BY <1>3 DEF HandleRequest, Link, Checked, Copy
  <2>3. Len(rxQueue) < QueueLen /\ rxQueue' = rxQueue /\ walk' = AtStart
    <3>1. walk.node = Len(rxQueue) + 1 /\ rxQueue' = rxQueue /\ walk' = AtStart
      BY DEF HandleRequest
    <3> QED
      BY <1>3, <3>1, WalkTyped, RoundsAre DEF TypeInv, Walked
  <2> QED
    BY <1>1, <1>2, <1>3, <2>1, <2>2, <2>3, TypeReception, PlacesAre
    DEF HandleRequest, Handling, TypeInv, TypeOK
<1>4. CASE ~(walk.len < QueueLen)
  <2>1. PICK p \in Places : Moves(t, p)
    BY <1>1, <1>2, <1>4, NextFrameTyped DEF HandleRequest
  <2>2. reading' = NotReading /\ reading' \notin {Checked, Copy} /\ reading'.at # "link"
    BY <1>4 DEF HandleRequest, NotReading, Checked, Copy
  <2>4. owed' \in Seq(Requests)
    <3>1. owed \in Seq(Requests) /\ Len(owed) \in Nat
      BY DEF TypeInv, TypeOK
    <3>2. SubSeq(owed, 1, Len(owed) - 1) \in Seq(Requests)
      BY <3>1, SubSeqProperties
    <3> QED
      BY <1>4, <3>1, <3>2 DEF HandleRequest
  <2> QED
    BY <1>1, <1>2, <1>4, <2>1, <2>2, <2>4, TypeReception
    DEF HandleRequest, Handling, TypeInv, TypeOK
<1> QED
  BY <1>3, <1>4

LEMMA TypeLinkFrame ==
  ASSUME TypeInv, NEW t \in Threads, LinkFrame(t)
  PROVE  TypeInv'
<1>1. /\ reading.at = "link" /\ lock = t /\ reading # NotReading /\ reading.frame \in Requests
      /\ Len(rxQueue) < QueueLen
  BY ReadingIs DEF LinkFrame, Handling, TypeInv, Reception
<1>2. pc[t] \in Listening
  BY <1>1, ReaderListens
<1>3. PICK p \in Places : Moves(t, p)
  BY <1>1, <1>2, NextFrameTyped DEF LinkFrame
<1>4. reading' = NotReading /\ reading' \notin {Checked, Copy} /\ reading'.at # "link"
  BY DEF LinkFrame, NotReading, Checked, Copy
<1>5. rxQueue' \in Seq(Requests) /\ Len(rxQueue') <= QueueLen
  <2>1. rxQueue \in Seq(Requests) /\ Len(rxQueue) \in Nat
    BY DEF TypeInv, TypeOK
  <2>2. Append(rxQueue, reading.frame) \in Seq(Requests)
        /\ Len(Append(rxQueue, reading.frame)) = Len(rxQueue) + 1
    BY <1>1, <2>1
  <2> QED
    BY <1>1, <2>1, <2>2, RoundsAre DEF LinkFrame
<1> QED
  BY <1>1, <1>2, <1>3, <1>4, <1>5, TypeReception DEF LinkFrame, Handling, TypeInv, TypeOK

LEMMA TypeHandleResponse ==
  ASSUME TypeInv, NEW t \in Threads, HandleResponse(t)
  PROVE  TypeInv'
<1>1. reading = Checked /\ lock = t /\ reading # NotReading /\ serBuf \in Frames
  BY DEF HandleResponse, Handling, Checked, NotReading, TypeInv, Reception
<1>2. pc[t] \in Listening
  BY <1>1, ReaderListens
<1>3. CASE Wanted(t)
  <2>1. Moves(t, pc[t])
    BY <1>1, <1>2, <1>3, StaysMoves DEF HandleResponse
  <2>2. reading' = Copy /\ reading'.at # "link"
    BY <1>3 DEF HandleResponse, Copy
  <2> QED
    BY <1>1, <1>2, <1>3, <2>1, <2>2, TypeReception, PlacesAre
    DEF HandleResponse, Handling, Wanted, TypeInv, TypeOK
<1>4. CASE ~Wanted(t)
  <2>1. PICK p \in Places : Moves(t, p)
    BY <1>1, <1>2, <1>4, NextFrameTyped DEF HandleResponse
  <2>2. reading' = NotReading /\ reading' \notin {Checked, Copy} /\ reading'.at # "link"
    BY <1>4 DEF HandleResponse, NotReading, Checked, Copy
  <2> QED
    BY <1>1, <1>2, <1>4, <2>1, <2>2, TypeReception DEF HandleResponse, Handling, TypeInv, TypeOK
<1> QED
  BY <1>3, <1>4

LEMMA TypeCopyResponse ==
  ASSUME TypeInv, NEW t \in Threads, CopyResponse(t)
  PROVE  TypeInv'
<1>1. reading = Copy /\ lock = t /\ reading # NotReading /\ serBuf \in Frames
  BY DEF CopyResponse, Handling, Copy, NotReading, TypeInv, Reception
<1>2. pc[t] = "answer" /\ pc[t] \in Listening /\ call[t] # 0
  BY <1>1 DEF TypeInv, Reception, Numbered, Transmitting, Listening
<1>3. Moves(t, "result")
  BY <1>2, RoundsAre DEF CopyResponse, Unlocked, Moves, Holding
<1>4. reading' = NotReading /\ reading' \notin {Checked, Copy} /\ reading'.at # "link"
  BY DEF CopyResponse, NotReading, Checked, Copy
<1> QED
  BY <1>1, <1>2, <1>3, <1>4, TypeReception, PlacesAre
  DEF CopyResponse, Handling, TypeInv, TypeOK, Transmitting

LEMMA TypeReceive ==
  ASSUME TypeInv, NEW t \in Threads, Receive(t)
  PROVE  TypeInv'
BY TypeSkipByte, TypeReadControl, TypeReadTimeout, TypeReadHead, TypeReadGood, TypeReadBad,
   TypeWalkStep, TypeHandleRequest, TypeLinkFrame, TypeHandleResponse, TypeCopyResponse
DEF Receive, WalkStep

(* Steps of a thread outside the reception: the owner is reading nothing,   *)
(* or the thread is not the owner.                                          *)
LEMMA TypeRequest ==
  ASSUME TypeInv, NEW t \in Threads, NEW p \in Places, pc' = [pc EXCEPT ![t] = p],
         pc[t] \notin Listening,
         \/ /\ lock' = NoThread /\ p \notin Holding
            /\ pc[t] \in Holding
         \/ /\ lock' = t /\ p \in Holding
            /\ lock = NoThread \/ pc[t] \in Holding
         \/ lock' = lock /\ pc[t] \notin Holding /\ p \notin Holding,
         tries' \in Rounds,
         pc[t] \notin Holding => tries' = tries,
         p \in {"ack", "backoff"} => tries' < TxTries,
         p # "answer",
         UNCHANGED reading, serBuf' \in Requests \/ serBuf' = serBuf,
         Len(rxQueue') <= Len(rxQueue), rxQueue' \in Seq(Requests)
  PROVE  Control' /\ Reception'
<1>1. pc \in [Threads -> Places] /\ LockHeld /\ TriesLeft /\ NoThread \notin Threads /\ Reception
  BY SerialHostAssumption DEF TypeInv, TypeOK, Control
<1>2. pc' \in [Threads -> Places] /\ pc'[t] = p /\ \A u \in Threads \ {t} : pc'[u] = pc[u]
  BY <1>1
<1>3. \A u \in Threads : pc[u] \in Holding <=> lock = u
  BY <1>1 DEF LockHeld
<1>4. LockHeld' /\ lock' \in Threads \cup {NoThread}
  <2>1. CASE lock' = NoThread /\ p \notin Holding /\ pc[t] \in Holding
    BY <1>1, <1>2, <1>3, <2>1 DEF LockHeld
  <2>2. CASE lock' = t /\ p \in Holding /\ (lock = NoThread \/ pc[t] \in Holding)
    BY <1>1, <1>2, <1>3, <2>2 DEF LockHeld
  <2>3. CASE lock' = lock /\ pc[t] \notin Holding /\ p \notin Holding
    BY <1>1, <1>2, <1>3, <2>3 DEF LockHeld, TypeInv, TypeOK
  <2> QED
    BY <2>1, <2>2, <2>3
<1>5. TriesLeft'
  <2>1. ASSUME NEW u \in Threads, u # t
        PROVE  /\ pc'[u] \in {"ack", "backoff"} => tries' < TxTries
               /\ pc'[u] = "answer" => tries' < RxTries
    <3>1. CASE pc[t] \in Holding
      BY <1>2, <1>3, <2>1, <3>1 DEF Holding
    <3>2. CASE pc[t] \notin Holding
      BY <1>1, <1>2, <2>1, <3>2 DEF TriesLeft
    <3> QED
      BY <3>1, <3>2
  <2> QED
    BY <1>2, <2>1 DEF TriesLeft
<1>6. Reception'
  <2>1. reading' # NotReading =>
          \E u \in Threads : u # t /\ lock = u /\ pc[u] \in Listening
    BY <1>1 DEF Reception
  <2>2. reading' # NotReading => \E u \in Threads : lock' = u /\ pc'[u] \in Listening
    BY <1>2, <1>3, <2>1, SerialHostAssumption DEF Listening, Holding
  <2>3. reading' = Copy => \A u \in Threads : lock' = u => pc'[u] = "answer"
    <3>1. reading' = Copy => \E u \in Threads : u # t /\ lock = u /\ pc[u] = "answer"
      BY <1>1, <2>1 DEF Reception, Copy, NotReading
    <3> QED
      BY <1>2, <1>3, <3>1, SerialHostAssumption DEF Holding
  <2>4. reading' \in {Checked, Copy} => serBuf' \in Frames
    BY <1>1, FramesAre DEF Reception
  <2>5. reading'.at = "link" => Len(rxQueue') < QueueLen
    <3>1. Len(rxQueue) \in Nat /\ Len(rxQueue') \in Nat
      BY DEF TypeInv, TypeOK
    <3> QED
      BY <1>1, <3>1, RoundsAre DEF Reception
  <2> QED
    BY <2>2, <2>3, <2>4, <2>5 DEF Reception
<1> QED
  BY <1>2, <1>4, <1>5, <1>6 DEF Control, Rounds

LEMMA Now ==
  ASSUME TypeInv
  PROVE  /\ rxQueue \in Seq(Requests) /\ Len(rxQueue) \in Nat /\ Len(rxQueue) <= Len(rxQueue)
         /\ tries \in Rounds /\ pc \in [Threads -> Places]
         /\ owed \in Seq(Requests) /\ uart \in Seq(Frames \cup {Ack, Nak})
         /\ \A p \in {"idle", "served", "lock", "poll", "result", "failed"} :
              p \notin Listening /\ p \notin Holding
         /\ \A p \in {"send", "backoff", "ack"} : p \in Holding
         /\ "drain" \in Holding /\ "send" \notin Listening /\ "backoff" \notin Listening
BY DEF TypeInv, TypeOK, Rounds, Listening, Holding

LEMMA TypePoll == ASSUME TypeInv, SerialAPI_Poll PROVE TypeInv'
<1>1. Sapi \in Threads /\ "served" \in Places /\ pc[Sapi] = "poll"
  BY SerialHostAssumption DEF SerialAPI_Poll, Places
<1>2. /\ rxQueue' \in Seq(Requests) /\ Len(rxQueue') <= Len(rxQueue) /\ Len(rxQueue') <= QueueLen
      /\ serBuf' \in Requests \/ serBuf' = serBuf
      /\ cbFunc' \in 0..MaxCalls
      /\ owed' \in Seq(Requests)
      /\ hist' \subseteq {"overlap", "early", "raced", "unsure"}
      /\ walk' \in [node : 0..QueueLen + 1, freed : BOOLEAN, len : Nat] /\ Walked'
  <2>1. CASE rxQueue = <<>>
    <3>1. UNCHANGED <<rxQueue, walk, serBuf, cbFunc, owed, hist>>
      BY <2>1 DEF SerialAPI_Poll
    <3> QED
      BY <3>1, Now, WalkedKept DEF TypeInv, TypeOK
  <2>2. CASE rxQueue # <<>>
    <3>1. /\ rxQueue \in Seq(Requests) /\ Len(rxQueue) \in Nat /\ Len(rxQueue) > 0
          /\ Len(rxQueue) <= QueueLen
      BY <2>2 DEF TypeInv, TypeOK
    <3>2. /\ rxQueue' = Tail(rxQueue) /\ serBuf' = Head(rxQueue)
          /\ cbFunc' = IF IsDone(Head(rxQueue)) THEN 0 ELSE cbFunc
          /\ Record(IF Races THEN {"raced"} ELSE {})
          /\ owed' = IF "raced" \in hist' THEN <<>> ELSE SubSeq(owed, 2, Len(owed))
      BY <2>2 DEF SerialAPI_Poll
    <3>3. /\ Tail(rxQueue) \in Seq(Requests) /\ Len(Tail(rxQueue)) = Len(rxQueue) - 1
          /\ Head(rxQueue) \in Requests
      BY <3>1
    <3>4. SubSeq(owed, 2, Len(owed)) \in Seq(Requests)
      BY SubSeqProperties DEF TypeInv, TypeOK
    <3>5. hist' \subseteq {"overlap", "early", "raced", "unsure"}
      BY <3>2, RecordTyped
    <3>6. cbFunc' \in 0..MaxCalls
      BY <3>2, RoundsAre DEF TypeInv, TypeOK
    <3>7. Len(rxQueue') <= Len(rxQueue) /\ Len(rxQueue') <= QueueLen
      BY <3>1, <3>2, <3>3, RoundsAre
    <3>8. walk' \in [node : 0..QueueLen + 1, freed : BOOLEAN, len : Nat] /\ Walked'
      <4>1. walk' = Behind /\ Len(rxQueue') = Len(rxQueue) - 1
        BY <2>2, <3>2, <3>3 DEF SerialAPI_Poll
      <4>2. walk \in [node : 0..QueueLen + 1, freed : BOOLEAN, len : Nat]
        BY DEF TypeInv, TypeOK
      <4>3. walk' \in [node : 0..QueueLen + 1, freed : BOOLEAN, len : Nat]
        <5>1. walk.node # 0 => walk.node - 1 \in 0..QueueLen + 1
          BY <4>2, RoundsAre
        <5>2. [walk EXCEPT !.freed = TRUE] \in [node : 0..QueueLen + 1, freed : BOOLEAN, len : Nat]
          BY <4>2
        <5>3. \A n \in 0..QueueLen + 1 :
                [walk EXCEPT !.node = n] \in [node : 0..QueueLen + 1, freed : BOOLEAN, len : Nat]
          BY <4>2
        <5> QED
          BY <4>1, <4>2, <5>1, <5>2, <5>3 DEF Behind
      <4>4. walk'.node = IF walk.node <= 1 THEN walk.node ELSE walk.node - 1
        BY <4>1, <4>2 DEF Behind
      <4>5. walk'.node <= Len(rxQueue') + 1 /\ Len(rxQueue') < QueueLen
        BY <3>1, <4>1, <4>4, WalkTyped, RoundsAre DEF TypeInv, Walked
      <4> QED
        BY <4>3, <4>5 DEF Walked
    <3> QED
      BY <3>2, <3>3, <3>4, <3>5, <3>6, <3>7, <3>8
  <2> QED
    BY <2>1, <2>2
<1>3. pc' = [pc EXCEPT ![Sapi] = "served"] /\ UNCHANGED <<call, fn, lock, reading, tries>>
  BY DEF SerialAPI_Poll
<1>4. Control' /\ Reception'
  BY <1>1, <1>2, <1>3, Now, TypeRequest
<1>5. Numbered'
  BY <1>3, <1>1 DEF TypeInv, TypeOK, Numbered, Transmitting
<1>6. serBuf' \in {Nothing} \cup Frames \cup {Half(f) : f \in Frames}
  BY <1>2, FramesAre DEF TypeInv, TypeOK
<1> QED
  BY <1>2, <1>3, <1>4, <1>5, <1>6 DEF SerialAPI_Poll, TypeInv, TypeOK, Control

LEMMA TypePollDrain == ASSUME TypeInv, PollDrain PROVE TypeInv'
<1>1. Sapi \in Threads /\ "lock" \in Places /\ pc[Sapi] = "served"
  BY SerialHostAssumption DEF PollDrain, Places
<1>2. Control' /\ Reception'
  <2>1. pc' = [pc EXCEPT ![Sapi] = "lock"] /\ UNCHANGED <<lock, reading, tries, serBuf, rxQueue>>
    BY DEF PollDrain
  <2> QED
    BY <1>1, <2>1, Now, TypeRequest
<1>3. Numbered' /\ call' \in [Threads -> 0..MaxCalls]
  BY <1>1, RoundsAre DEF PollDrain, TypeInv, TypeOK, Numbered, Transmitting
<1>w. Walked'
  BY WalkedKept DEF TypeInv, PollDrain
<1> QED
  BY <1>2, <1>3, <1>w DEF PollDrain, TypeInv, TypeOK, Control

LEMMA TypeCall ==
  ASSUME TypeInv, NEW t \in Threads, NEW f \in Funcs, Call(t, f)
  PROVE  TypeInv'
<1>1. /\ pc[t] = Home(t) /\ pc[t] \in {"served", "idle"} /\ pc' = [pc EXCEPT ![t] = "lock"]
      /\ UNCHANGED <<lock, reading, tries, needAck, serBuf, rxQueue, walk, uart, chip, owed>>
  BY DEF Call, Home
<1>2. /\ fn' \in Seq(Funcs) /\ Len(fn') = Len(fn) + 1 /\ Len(fn') <= MaxCalls
      /\ Len(fn) \in Nat /\ Len(fn') \in Nat
  BY RoundsAre DEF Call, TypeInv, TypeOK
<1>3. Control' /\ Reception'
  BY <1>1, Now, TypeRequest, PlacesAre
<1>4. call' \in [Threads -> 0..MaxCalls] /\ Numbered'
  <2>1. call' = [call EXCEPT ![t] = Len(fn')]
    BY DEF Call
  <2>2. Len(fn') \in 0..MaxCalls
    BY <1>2, RoundsAre
  <2>3. call \in [Threads -> 0..MaxCalls] /\ pc \in [Threads -> Places]
    BY DEF TypeInv, TypeOK
  <2>4. ASSUME NEW u \in Threads
        PROVE  call'[u] \in 0..Len(fn') /\ (pc'[u] \in Transmitting => call'[u] # 0)
    <3>1. CASE u = t
      BY <1>1, <1>2, <2>1, <2>3, <3>1 DEF Transmitting
    <3>2. CASE u # t
      BY <1>1, <1>2, <2>1, <2>3, <3>2 DEF TypeInv, Numbered
    <3> QED
      BY <3>1, <3>2
  <2> QED
    BY <2>1, <2>2, <2>3, <2>4 DEF Numbered
<1>5. faults' \in 0..MaxFaults
  BY FaultTyped DEF Call, TypeInv, TypeOK
<1>6. hist' \subseteq {"overlap", "early", "raced", "unsure"}
  BY RecordTyped DEF Call
<1>7. /\ txBuf' \in {False} \cup {Params(c) : c \in 1..Garbage} \cup Frames
      /\ cbFunc' \in 0..MaxCalls
  <2>1. Len(fn') \in 1..Garbage /\ Len(fn') \in 0..MaxCalls
    BY <1>2, RoundsAre DEF Garbage
  <2> QED
    BY <2>1 DEF Call, TypeInv, TypeOK
<1>8. pc' \in [Threads -> Places]
  BY <1>3 DEF Control
<1>w. Walked'
  BY <1>1, WalkedKept DEF TypeInv
<1> QED
  BY <1>1, <1>2, <1>3, <1>4, <1>5, <1>6, <1>7, <1>8, <1>w DEF TypeInv, TypeOK

LEMMA TypeAcquire ==
  ASSUME TypeInv, NEW t \in Threads, Acquire(t)
  PROVE  TypeInv'
<1>1. pc[t] = "lock" /\ lock = NoThread /\ Locking(t)
  BY DEF Acquire, Lock, LockQuiet, Locking
<1>2. UNCHANGED <<call, fn, reading, tries, needAck, serBuf, txBuf, cbFunc, rxQueue,
                  walk, uart, chip, faults, owed, hist>>
  BY <1>1 DEF Locking
<1>3. \/ pc' = [pc EXCEPT ![t] = "drain"] /\ lock' = t
      \/ pc' = [pc EXCEPT ![t] = "poll"] /\ lock' = NoThread
      \/ pc' = [pc EXCEPT ![t] = "send"] /\ lock' = t /\ call[t] # 0
  BY <1>1 DEF Acquire, Lock, LockQuiet
<1>4. Control' /\ Reception'
  <2> USE PlacesAre, Now
  <2>1. CASE pc' = [pc EXCEPT ![t] = "drain"] /\ lock' = t
    BY <1>1, <1>2, <2>1, TypeRequest DEF Holding
  <2>2. CASE pc' = [pc EXCEPT ![t] = "poll"] /\ lock' = NoThread
    BY <1>1, <1>2, <2>2, TypeRequest DEF Holding
  <2>3. CASE pc' = [pc EXCEPT ![t] = "send"] /\ lock' = t /\ call[t] # 0
    BY <1>1, <1>2, <2>3, TypeRequest DEF Holding
  <2> QED
    BY <1>3, <2>1, <2>2, <2>3
<1>5. Numbered'
  BY <1>2, <1>3 DEF TypeInv, TypeOK, Numbered, Transmitting
<1>w. Walked'
  BY <1>2, WalkedKept DEF TypeInv
<1> QED
  BY <1>2, <1>4, <1>5, <1>w DEF TypeInv, TypeOK, Control, Rounds

(* The commands of the host and the states of the chip.                     *)
Commands == [fn : Funcs, of : 1..Garbage]
Chips == [in : Seq(Commands), owes : Seq(Responses), sending : 0..Garbage]

LEMMA ChipFields ==
  ASSUME TypeInv
  PROVE  /\ chip \in Chips
         /\ chip.in \in Seq(Commands) /\ chip.owes \in Seq(Responses)
         /\ chip.sending \in 0..Garbage
BY DEF TypeInv, TypeOK, Chips, Commands

LEMMA ChipTyped ==
  ASSUME NEW x \in Chips
  PROVE  /\ \A q \in Seq(Commands) : [x EXCEPT !.in = q] \in Chips
         /\ \A q \in Seq(Responses) : [x EXCEPT !.owes = q] \in Chips
         /\ \A c \in 0..Garbage : [x EXCEPT !.sending = c] \in Chips
         /\ \A q \in Seq(Commands), r \in Seq(Responses), c \in 0..Garbage :
              [x EXCEPT !.in = q, !.owes = r, !.sending = c] \in Chips
BY DEF Chips

LEMMA CommandTyped ==
  ASSUME TypeInv, NEW t \in Threads, call[t] # 0
  PROVE  /\ Command(t) \in Commands
         /\ fn[call[t]] \in Funcs /\ call[t] \in 1..Len(fn) /\ call[t] \in 1..MaxCalls
<1>1. /\ fn \in Seq(Funcs) /\ Len(fn) \in Nat /\ Len(fn) <= MaxCalls
      /\ call[t] \in 0..Len(fn)
  BY DEF TypeInv, TypeOK, Numbered
<1>2. call[t] \in 1..Len(fn) /\ call[t] \in 1..MaxCalls
  BY <1>1, RoundsAre
<1>3. fn[call[t]] \in Funcs
  BY <1>1, <1>2
<1>4. Garbage \in 1..Garbage
  BY RoundsAre DEF Garbage
<1>5. txBuf.kind = "PAR" => txBuf.call \in 1..Garbage
  <2>1. txBuf \in {False} \cup {Params(c) : c \in 1..Garbage} \cup Frames
    BY DEF TypeInv, TypeOK
  <2> QED
    BY <2>1, FramesAre DEF False, Params
<1> QED
  BY <1>2, <1>3, <1>4, <1>5 DEF Command, Commands

LEMMA TypeTransmit ==
  ASSUME TypeInv, NEW t \in Threads, pc[t] \in {"send", "backoff"}, Transmit(t),
         hist' \subseteq {"overlap", "early", "raced", "unsure"},
         NEW p \in Places, pc' = [pc EXCEPT ![t] = p], tries' \in Rounds, p # "answer",
         p \in {"ack", "backoff"} => tries' < TxTries,
         \/ lock' = lock /\ p \in Holding
         \/ lock' = NoThread /\ p \notin Holding
  PROVE  TypeInv'
<1>1. lock = t /\ call[t] # 0
  BY Now DEF TypeInv, Control, LockHeld, Numbered, Transmitting
<1>2. /\ chip' = [chip EXCEPT !.in = Append(chip.in, Command(t))] /\ needAck' = TRUE
      /\ UNCHANGED <<call, fn, reading, serBuf, txBuf, cbFunc, rxQueue, walk, uart, faults,
                     owed>>
  BY DEF Transmit
<1>3. Control' /\ Reception'
  BY <1>1, <1>2, Now, TypeRequest
<1>4. Numbered'
  BY <1>1, <1>2, Now DEF TypeInv, Numbered
<1>5. chip' \in Chips
  <2>1. Append(chip.in, Command(t)) \in Seq(Commands)
    BY <1>1, CommandTyped, ChipFields
  <2> QED
    BY <1>2, <2>1, ChipFields, ChipTyped
<1>w. Walked'
  BY <1>2, WalkedKept DEF TypeInv
<1> QED
  BY <1>2, <1>3, <1>4, <1>5, <1>w DEF TypeInv, TypeOK, Control, Chips, Commands

LEMMA TypeSend ==
  ASSUME TypeInv, NEW t \in Threads, Send(t)
  PROVE  TypeInv'
<1>1. /\ pc[t] = "send" /\ Transmit(t) /\ tries' = 0 /\ pc' = [pc EXCEPT ![t] = "ack"]
      /\ lock' = lock /\ hist' = hist
  BY DEF Send
<1>2. hist' \subseteq {"overlap", "early", "raced", "unsure"} /\ "ack" \in Places /\ 0 \in Rounds
  BY <1>1, RoundsAre DEF TypeInv, TypeOK, Places
<1> QED
  BY <1>1, <1>2, Now, RoundsAre, TypeTransmit

LEMMA TypeRetransmit ==
  ASSUME TypeInv, NEW t \in Threads, Retransmit(t)
  PROVE  TypeInv'
<1>1. /\ pc[t] = "backoff" /\ Transmit(t) /\ lock = t /\ tries < TxTries /\ tries \in Nat
  BY Now, RoundsAre DEF Retransmit, TypeInv, Control, LockHeld, TriesLeft
<1>2. CASE tries + 1 = TxTries
  <2>1. /\ tries' = 0 /\ lock' = NoThread /\ Record({"unsure"})
        /\ \E p \in {"served", "idle", "failed"} : pc' = [pc EXCEPT ![t] = p]
    BY <1>2 DEF Retransmit, Failed, Unlocked, Home
  <2>2. hist' \subseteq {"overlap", "early", "raced", "unsure"}
    BY <2>1, RecordTyped
  <2> QED
    BY <1>1, <2>1, <2>2, Now, RoundsAre, PlacesAre, TypeTransmit
<1>3. CASE tries + 1 # TxTries
  <2>1. /\ tries' = tries + 1 /\ pc' = [pc EXCEPT ![t] = "ack"] /\ lock' = lock /\ hist' = hist
    BY <1>3 DEF Retransmit
  <2>2. /\ hist' \subseteq {"overlap", "early", "raced", "unsure"} /\ "ack" \in Places
        /\ tries' < TxTries /\ tries' \in Rounds
    BY <1>1, <1>3, <2>1, RoundsAre DEF TypeInv, TypeOK, Places
  <2> QED
    BY <1>1, <2>1, <2>2, Now, TypeTransmit
<1> QED
  BY <1>2, <1>3

LEMMA TypeResult ==
  ASSUME TypeInv, NEW t \in Threads, Result(t)
  PROVE  TypeInv'
<1>1. /\ pc[t] \in {"result", "failed"} /\ pc' = [pc EXCEPT ![t] = Home(t)]
      /\ UNCHANGED <<call, fn, lock, reading, tries, needAck, serBuf, rxQueue, walk, uart,
                     chip, faults, owed>>
  BY DEF Result
<1>2. Home(t) \in {"served", "idle"} /\ Home(t) \in Places /\ Home(t) \notin Transmitting
  BY DEF Home, Places, Transmitting
<1>3. Control' /\ Reception'
  BY <1>1, <1>2, Now, TypeRequest
<1>4. Numbered'
  BY <1>1, <1>2, Now DEF TypeInv, Numbered
<1>5. hist' \subseteq {"overlap", "early", "raced", "unsure"}
  BY RecordTyped DEF Result
<1>6. /\ txBuf' \in {False} \cup {Params(c) : c \in 1..Garbage} \cup Frames
      /\ cbFunc' \in 0..MaxCalls
  BY RoundsAre DEF Result, TypeInv, TypeOK
<1>w. Walked'
  BY <1>1, WalkedKept DEF TypeInv
<1> QED
  BY <1>1, <1>3, <1>4, <1>5, <1>6, <1>w DEF TypeInv, TypeOK, Control

-----------------------------------------------------------------------------
(* The chip changes its own state and what is on the line.                  *)
LEMMA TypeChip ==
  ASSUME TypeInv, UNCHANGED host, UNCHANGED <<owed, hist>>,
         uart' \in Seq(Frames \cup {Ack, Nak}), faults' \in 0..MaxFaults,
         chip' \in Chips
  PROVE  TypeInv'
<1>1. UNCHANGED <<pc, call, fn, lock, reading, tries, needAck, serBuf, txBuf, cbFunc, rxQueue,
                  walk>>
  BY DEF host
<1>2. TypeOK'
  BY <1>1 DEF TypeInv, TypeOK, Chips, Commands
<1>3. Control'
  BY <1>1 DEF TypeInv, Control, LockHeld, TriesLeft
<1>4. Numbered' /\ Reception'
  BY <1>1 DEF TypeInv, Numbered, Reception
<1>5. Walked'
  BY <1>1, WalkedKept DEF TypeInv
<1> QED
  BY <1>2, <1>3, <1>4, <1>5 DEF TypeInv

LEMMA TypeChipTakes == ASSUME TypeInv, ChipTakes PROVE TypeInv'
<1> DEFINE c == Head(chip.in)
<1>1. PICK ok \in BOOLEAN :
        chip' = [chip EXCEPT
            !.in = Tail(chip.in),
            !.owes = IF Answers(c.fn) THEN Append(@, Res(c.fn, c.of, ok)) ELSE @,
            !.sending = IF c.fn = "SendData" /\ ok THEN c.of ELSE @]
  BY DEF ChipTakes, Granted
<1>2. /\ chip.in \in Seq(Commands) /\ chip.in # <<>>
      /\ uart' = Append(uart, Ack) /\ faults' = faults
      /\ UNCHANGED host /\ UNCHANGED <<owed, hist>>
  BY ChipFields DEF ChipTakes, Chip
<1>3. c \in Commands /\ Tail(chip.in) \in Seq(Commands)
  BY <1>2 DEF c
<1> HIDE DEF c
<1>4. Answers(c.fn) => Res(c.fn, c.of, ok) \in Responses
  BY <1>3, SerialHostAssumption DEF Answers, Responses, Commands
<1>5. /\ Answers(c.fn) => Append(chip.owes, Res(c.fn, c.of, ok)) \in Seq(Responses)
      /\ c.of \in 0..Garbage
  BY <1>3, <1>4, ChipFields, RoundsAre DEF Garbage, Commands
<1>6. chip' \in Chips
  <2> DEFINE r == IF Answers(c.fn) THEN Append(chip.owes, Res(c.fn, c.of, ok)) ELSE chip.owes
             s == IF c.fn = "SendData" /\ ok THEN c.of ELSE chip.sending
  <2>1. r \in Seq(Responses) /\ s \in 0..Garbage
    BY <1>5, ChipFields
  <2>2. chip' = [chip EXCEPT !.in = Tail(chip.in), !.owes = r, !.sending = s]
    BY <1>1
  <2> HIDE DEF r, s
  <2> QED
    BY <1>3, <2>1, <2>2, ChipFields, ChipTyped
<1>7. uart' \in Seq(Frames \cup {Ack, Nak}) /\ faults' \in 0..MaxFaults
  BY <1>2 DEF TypeInv, TypeOK
<1> QED
  BY <1>2, <1>6, <1>7, TypeChip

LEMMA TypeChipAnswers == ASSUME TypeInv, ChipAnswers PROVE TypeInv'
<1>1. /\ chip.owes # <<>> /\ uart' = Append(uart, Head(chip.owes)) /\ faults' = faults
      /\ chip' = [chip EXCEPT !.owes = Tail(chip.owes)]
      /\ UNCHANGED host /\ UNCHANGED <<owed, hist>>
  BY DEF ChipAnswers, Chip
<1>2. Head(chip.owes) \in Frames /\ Tail(chip.owes) \in Seq(Responses)
  BY <1>1, ChipFields, FramesAre
<1>3. uart' \in Seq(Frames \cup {Ack, Nak}) /\ faults' \in 0..MaxFaults
  BY <1>1, <1>2, Now DEF TypeInv, TypeOK
<1> QED
  BY <1>1, <1>2, <1>3, ChipFields, ChipTyped, TypeChip

LEMMA TypeChipDrops == ASSUME TypeInv, ChipDrops PROVE TypeInv'
<1>1. /\ chip.in # <<>> /\ uart' \in {uart, Append(uart, Nak)} /\ Fault
      /\ chip' = [chip EXCEPT !.in = Tail(chip.in)]
      /\ UNCHANGED host /\ UNCHANGED <<owed, hist>>
  BY DEF ChipDrops, Chip
<1>2. Tail(chip.in) \in Seq(Commands) /\ faults' \in 0..MaxFaults
  <2>1. Tail(chip.in) \in Seq(Commands)
    BY <1>1, ChipFields
  <2> QED
    BY <1>1, <2>1, FaultTyped
<1>3. uart' \in Seq(Frames \cup {Ack, Nak})
  <2>1. Append(uart, Nak) \in Seq(Frames \cup {Ack, Nak})
    BY Now
  <2> QED
    BY <1>1, <2>1, Now
<1> QED
  BY <1>1, <1>2, <1>3, ChipFields, ChipTyped, TypeChip

LEMMA TypeChipDone == ASSUME TypeInv, ChipDone PROVE TypeInv'
<1>1. /\ chip.sending # 0 /\ uart' = Append(uart, Done(chip.sending)) /\ faults' = faults
      /\ chip' = [chip EXCEPT !.sending = 0]
      /\ UNCHANGED host /\ UNCHANGED <<owed, hist>>
  BY DEF ChipDone, Chip
<1>2. Done(chip.sending) \in Requests
  BY <1>1, ChipFields, RoundsAre DEF Requests, Garbage
<1>3. uart' \in Seq(Frames \cup {Ack, Nak})
  BY <1>1, <1>2, FramesAre, Now
<1>4. chip' \in Chips
  <2>1. 0 \in 0..Garbage
    BY RoundsAre DEF Garbage
  <2> QED
    BY <1>1, <2>1, ChipFields, ChipTyped
<1> QED
  BY <1>1, <1>3, <1>4, TypeChip DEF TypeInv, TypeOK

LEMMA TypeChipRequest == ASSUME TypeInv, ChipRequest PROVE TypeInv'
<1>1. /\ uart' = Append(uart, Req(faults')) /\ Fault /\ chip' = chip
      /\ UNCHANGED host /\ UNCHANGED <<owed, hist>>
  BY DEF ChipRequest, Chip
<1>2. faults' \in 0..MaxFaults /\ Req(faults') \in Requests
  BY <1>1, FaultTyped DEF Requests
<1>3. uart' \in Seq(Frames \cup {Ack, Nak})
  BY <1>1, <1>2, FramesAre, Now
<1> QED
  BY <1>1, <1>2, <1>3, ChipFields, TypeChip

-----------------------------------------------------------------------------
LEMMA TypeInit == Init => TypeInv
<1> SUFFICES ASSUME Init PROVE TypeInv
  OBVIOUS
<1>1. /\ pc = [t \in Threads |-> IF t = Sapi THEN "poll" ELSE "idle"]
      /\ call = [t \in Threads |-> 0] /\ lock = NoThread /\ reading = NotReading /\ tries = 0
      /\ fn = <<>> /\ rxQueue = <<>> /\ walk = AtStart
  BY DEF Init
<1>2. pc \in [Threads -> Places] /\ \A t \in Threads : pc[t] \in {"poll", "idle"}
  BY <1>1 DEF Places
<1>3. Control
  BY <1>1, <1>2, RoundsAre, SerialHostAssumption DEF Control, LockHeld, TriesLeft, Holding, Rounds
<1>4. Numbered
  BY <1>1, <1>2 DEF Numbered, Transmitting
<1>5. Reception
  BY <1>1 DEF Reception, NotReading, Checked, Copy
<1>6. /\ txBuf \in {False} \cup {Params(c) : c \in 1..Garbage} \cup Frames
      /\ faults \in 0..MaxFaults /\ cbFunc \in 0..MaxCalls /\ call \in [Threads -> 0..MaxCalls]
      /\ chip \in Chips
  <2>1. Garbage \in 1..Garbage /\ 0 \in 0..Garbage
    BY RoundsAre DEF Garbage
  <2> QED
    BY <2>1, RoundsAre DEF Init, Chips
<1>7. TypeOK
  <2>1. fn \in Seq(Funcs) /\ Len(fn) <= MaxCalls /\ rxQueue \in Seq(Requests) /\ Len(rxQueue) <= QueueLen
    BY <1>1, RoundsAre
  <2>2. uart \in Seq(Frames \cup {Ack, Nak}) /\ owed \in Seq(Requests)
    BY DEF Init
  <2>3. /\ needAck \in BOOLEAN /\ hist \subseteq {"overlap", "early", "raced", "unsure"}
        /\ serBuf \in {Nothing} \cup Frames \cup {Half(f) : f \in Frames}
    BY DEF Init
  <2> QED
    BY <1>1, <1>2, <1>3, <1>6, <2>1, <2>2, <2>3, AtStartTyped DEF TypeOK, Control, Chips, Commands
<1>8. Walked
  BY <1>1, RoundsAre DEF Walked, AtStart
<1> QED
  BY <1>3, <1>4, <1>5, <1>7, <1>8 DEF TypeInv

LEMMA TypeNext == TypeInv /\ [Next]_vars => TypeInv'
<1> SUFFICES ASSUME TypeInv, [Next]_vars PROVE TypeInv'
  OBVIOUS
<1>1. ASSUME NEW t \in Threads, Run(t) PROVE TypeInv'
  BY <1>1, TypeSend, TypeRetransmit, TypeReceive, TypeResult DEF Run
<1>2. CASE ChipTakes \/ ChipAnswers \/ ChipDrops \/ ChipDone \/ ChipRequest
  BY <1>2, TypeChipTakes, TypeChipAnswers, TypeChipDrops, TypeChipDone, TypeChipRequest
<1>3. CASE UNCHANGED vars
  BY <1>3
  DEF vars, host, TypeInv, TypeOK, Control, LockHeld, TriesLeft, Numbered, Reception, Walked
<1> QED
  BY <1>1, <1>2, <1>3, TypePoll, TypePollDrain, TypeAcquire, TypeCall DEF Next

(* The threads know where they are: a thread between sl_serial_lock and     *)
(* sl_serial_unlock holds sl_cmd_mutex and nobody else does, the loops stay *)
(* below their bounds, and the frame being received is its holder's.        *)
THEOREM TypeInvariance == Spec => []TypeInv
BY TypeInit, TypeNext, PTL DEF Spec

(* The threads, the queue, the buffers and the line are typed, and the      *)
(* receive queue never exceeds MAX_RXQUEUE_LEN, although its room is looked *)
(* at in one step and used in another (QueueFrame).                         *)
THEOREM TypeCorrect == Spec => []TypeOK
<1>1. TypeInv => TypeOK
  BY DEF TypeInv
<1> QED
  BY <1>1, TypeInvariance, PTL

-----------------------------------------------------------------------------
(* The queue and what is owed.                                             *)
LEMMA QueueHead ==
  ASSUME NEW q \in Seq(Requests), NEW h \in Seq(Requests), q # <<>>
  PROVE  SubSeq(q \o h, 2, Len(q \o h)) = Tail(q) \o h
<1> DEFINE s == q \o h
           t == Tail(q) \o h
<1>1. /\ s \in Seq(Requests) /\ Len(s) = Len(q) + Len(h) /\ Len(q) \in Nat \ {0} /\ Len(h) \in Nat
      /\ \A i \in 1..Len(q) + Len(h) : s[i] = IF i <= Len(q) THEN q[i] ELSE h[i - Len(q)]
  BY ConcatProperties, LenProperties, EmptySeq
<1>2. /\ Tail(q) \in Seq(Requests) /\ Len(Tail(q)) = Len(q) - 1
      /\ \A i \in 1..Len(q) - 1 : Tail(q)[i] = q[i + 1]
  BY HeadTailProperties
<1>3. /\ t \in Seq(Requests) /\ Len(t) = Len(q) - 1 + Len(h)
      /\ \A i \in 1..Len(q) - 1 + Len(h) :
           t[i] = IF i <= Len(q) - 1 THEN Tail(q)[i] ELSE h[i - (Len(q) - 1)]
  BY <1>1, <1>2, ConcatProperties
<1> HIDE DEF s, t
<1>4. s # <<>> /\ SubSeq(s, 2, Len(s)) = Tail(s)
  <2>1. s # <<>>
    BY <1>1
  <2> QED
    BY <1>1, <2>1, TailIsSubSeq
<1>5. /\ Tail(s) \in Seq(Requests) /\ Len(Tail(s)) = Len(s) - 1
      /\ \A i \in 1..Len(s) - 1 : Tail(s)[i] = s[i + 1]
  BY <1>1, <1>4, HeadTailProperties
<1>6. \A i \in 1..Len(t) : Tail(s)[i] = t[i]
  <2> TAKE i \in 1..Len(t)
  <2>1. i \in Nat /\ i \in 1..Len(s) - 1 /\ i + 1 \in 1..Len(q) + Len(h)
    BY <1>1, <1>3
  <2>2. CASE i <= Len(q) - 1
    <3>1. i \in 1..Len(q) - 1 /\ i + 1 <= Len(q)
      BY <1>1, <2>1, <2>2
    <3> QED
      BY <1>1, <1>2, <1>3, <1>5, <2>1, <2>2, <3>1
  <2>3. CASE ~(i <= Len(q) - 1)
    <3>1. i \in 1..Len(q) - 1 + Len(h) /\ ~(i + 1 <= Len(q)) /\ i + 1 - Len(q) = i - (Len(q) - 1)
      BY <1>1, <1>3, <2>1, <2>3
    <3> QED
      BY <1>1, <1>3, <1>5, <2>1, <2>3, <3>1, SMTT(30)
  <2> QED
    BY <2>2, <2>3
<1>7. Tail(s) = t
  BY <1>1, <1>3, <1>5, <1>6, SeqEqual
<1> QED
  BY <1>4, <1>7 DEF s, t

LEMMA QueueLast ==
  ASSUME NEW q \in Seq(Requests), NEW f \in Requests
  PROVE  SubSeq(q \o <<f>>, 1, Len(q \o <<f>>) - 1) = q
<1>1. <<f>> \in Seq(Requests) /\ Len(<<f>>) = 1
  OBVIOUS
<1>2. Len(q \o <<f>>) = Len(q) + 1 /\ Len(q) \in Nat
  BY <1>1, ConcatProperties, LenProperties
<1>3. CASE q = <<>>
  <2>1. SubSeq(q \o <<f>>, 1, 0) = <<>>
    BY SubSeqEmpty
  <2> QED
    BY <1>2, <1>3, <2>1
<1>4. CASE q # <<>>
  <2>1. Len(q) \in 1..Len(q) /\ 1 \in 1..Len(q)
    BY <1>2, <1>4, EmptySeq
  <2>2. SubSeq(q \o <<f>>, 1, Len(q)) = SubSeq(q, 1, Len(q))
    BY <1>1, <2>1, SubSeqOfConcat1
  <2>3. SubSeq(q, 1, Len(q)) = q
    BY SubSeqFull
  <2> QED
    BY <1>2, <2>2, <2>3
<1> QED
  BY <1>3, <1>4

LEMMA InHandIs ==
  /\ reading.at \in {"no", "body", "copy"} => InHand = <<>>
  /\ reading.at = "checked" => InHand = IF IsRequest(serBuf) THEN <<serBuf>> ELSE <<>>
  /\ reading.at = "link" => InHand = <<reading.frame>>
BY DEF InHand

LEMMA InHandTyped ==
  ASSUME TypeInv
  PROVE  InHand \in Seq(Requests)
<1>1. reading.at \in {"no", "body", "checked", "link", "copy"}
  BY ReadingIs DEF TypeInv
<1>2. reading.at = "checked" /\ IsRequest(serBuf) => serBuf \in Requests
  BY ReadingIs, FramesAre DEF TypeInv, Reception
<1>3. reading.at = "link" => reading.frame \in Requests
  BY ReadingIs DEF TypeInv
<1>4. CASE reading.at \in {"no", "body", "copy"}
  <2>1. InHand = <<>> /\ <<>> \in Seq(Requests)
    BY <1>4, InHandIs
  <2> QED
    BY <2>1
<1>5. CASE reading.at = "checked"
  <2>1. CASE IsRequest(serBuf)
    <3>1. <<serBuf>> \in Seq(Requests)
      BY <1>2, <1>5, <2>1
    <3> QED
      BY <1>5, <2>1, <3>1, InHandIs
  <2>2. CASE ~IsRequest(serBuf)
    <3>1. InHand = <<>> /\ <<>> \in Seq(Requests)
      BY <1>5, <2>2, InHandIs
    <3> QED
      BY <3>1
  <2> QED
    BY <2>1, <2>2
<1>6. CASE reading.at = "link"
  <2>1. <<reading.frame>> \in Seq(Requests)
    BY <1>3, <1>6
  <2> QED
    BY <1>6, <2>1, InHandIs
<1> QED
  BY <1>1, <1>4, <1>5, <1>6

LEMMA QueuedKept ==
  ASSUME Queued, "raced" \notin hist' => "raced" \notin hist, UNCHANGED <<owed, rxQueue, walk>>,
         InHand' = InHand
  PROVE  Queued'
BY DEF Queued, QueueIsOwed

LEMMA QueuedPoll == ASSUME TypeInv, Queued, SerialAPI_Poll PROVE Queued'
<1>1. UNCHANGED reading
  BY DEF SerialAPI_Poll
<1>2. CASE rxQueue = <<>>
  <2>1. UNCHANGED <<rxQueue, walk, serBuf, owed, hist>>
    BY <1>2 DEF SerialAPI_Poll
  <2> QED
    BY <1>1, <2>1, QueuedKept DEF InHand
<1>3. CASE rxQueue # <<>>
  <2>1. /\ rxQueue' = Tail(rxQueue)
        /\ hist' = hist \cup (IF Races THEN {"raced"} ELSE {})
        /\ "raced" \notin hist' => owed' = SubSeq(owed, 2, Len(owed))
    BY <1>3 DEF SerialAPI_Poll, Record
  <2>2. ASSUME "raced" \notin hist' PROVE QueueIsOwed' /\ ~walk'.freed
    <3>1. "raced" \notin hist /\ ~Races /\ owed = rxQueue \o InHand
      BY <2>1, <2>2 DEF Queued, QueueIsOwed
    <3>2. reading.at \in {"no", "body", "link"}
      BY <3>1, ReadingIs DEF Races, TypeInv
    <3>3. InHand' = InHand
      BY <1>1, <3>2, InHandIs DEF InHand
    <3>4. owed' = Tail(rxQueue) \o InHand
      BY <1>3, <2>1, <2>2, <3>1, Now, QueueHead, InHandTyped
    <3>5. ~walk'.freed
      <4>1. walk' = Behind /\ ~walk.freed /\ walk.node # 1
        BY <1>3, <3>1 DEF SerialAPI_Poll, Races, Queued
      <4>2. walk' = IF walk.node = 0 THEN walk ELSE [walk EXCEPT !.node = @ - 1]
        BY <4>1 DEF Behind
      <4> QED
        BY <4>1, <4>2 DEF TypeInv, TypeOK
    <3> QED
      BY <2>1, <3>3, <3>4, <3>5 DEF QueueIsOwed
  <2> QED
    BY <2>2 DEF Queued, QueueIsOwed
<1> QED
  BY <1>2, <1>3

LEMMA QueuedReadGood ==
  ASSUME TypeInv, Queued, NEW t \in Threads, ReadGood(t)
  PROVE  Queued'
<1>1. /\ reading.at = "body" /\ reading.frame \in Frames /\ UNCHANGED <<rxQueue, walk>>
      /\ reading'.at = "checked" /\ serBuf' = reading.frame
  BY ReadingIs DEF ReadGood, ReadingBody, TypeInv, Checked
<1>2. ASSUME "raced" \notin hist' PROVE QueueIsOwed'
  <2>1. "raced" \notin hist
    BY <1>2 DEF ReadGood, Record
  <2>2. owed = rxQueue \o <<>> /\ rxQueue \o <<>> = rxQueue
    BY <1>1, <2>1, InHandIs, Now, ConcatEmptySeq DEF Queued, QueueIsOwed
  <2>3. CASE IsRequest(reading.frame)
    <3>1. owed' = Append(rxQueue, reading.frame)
      BY <2>1, <2>2, <2>3 DEF ReadGood
    <3>2. InHand' = <<reading.frame>>
      BY <1>1, <2>3 DEF InHand
    <3>3. Append(rxQueue, reading.frame) = rxQueue \o <<reading.frame>>
      BY <1>1, <2>3, Now, FramesAre, AppendIsConcat
    <3> QED
      BY <1>1, <3>1, <3>2, <3>3 DEF QueueIsOwed
  <2>4. CASE ~IsRequest(reading.frame)
    <3>1. owed' = owed /\ InHand' = <<>>
      BY <1>1, <2>4 DEF ReadGood, InHand
    <3> QED
      BY <1>1, <2>2, <3>1 DEF QueueIsOwed
  <2> QED
    BY <2>3, <2>4
<1> QED
  BY <1>1, <1>2 DEF Queued, QueueIsOwed, ReadGood, Record

LEMMA QueuedHandleRequest ==
  ASSUME TypeInv, Queued, NEW t \in Threads, HandleRequest(t)
  PROVE  Queued'
<1>1. /\ reading = Checked /\ reading.at = "checked" /\ IsRequest(serBuf) /\ hist' = hist
      /\ serBuf \in Requests
  BY FramesAre DEF HandleRequest, Counting, Handling, Checked, TypeInv, Reception
<1>2. "raced" \notin hist => owed = rxQueue \o <<serBuf>>
  BY <1>1, InHandIs DEF Queued, QueueIsOwed
<1>3. ~walk'.freed /\ rxQueue' = rxQueue
  BY DEF HandleRequest, AtStart
<1>4. CASE walk.len < QueueLen
  <2>1. reading' = Link(serBuf) /\ owed' = owed
    BY <1>4 DEF HandleRequest
  <2>2. InHand' = <<serBuf>>
    BY <2>1 DEF InHand, Link
  <2> QED
    BY <1>1, <1>2, <1>3, <2>1, <2>2 DEF Queued, QueueIsOwed
<1>5. CASE ~(walk.len < QueueLen)
  <2>1. reading' = NotReading /\ owed' = SubSeq(owed, 1, Len(owed) - 1)
    BY <1>5 DEF HandleRequest
  <2>2. InHand' = <<>>
    BY <2>1 DEF InHand, NotReading
  <2>3. SubSeq(rxQueue \o <<serBuf>>, 1, Len(rxQueue \o <<serBuf>>) - 1) = rxQueue
    BY <1>1, Now, QueueLast
  <2>4. rxQueue \o <<>> = rxQueue
    BY Now, ConcatEmptySeq
  <2> QED
    BY <1>1, <1>2, <1>3, <2>1, <2>2, <2>3, <2>4 DEF Queued, QueueIsOwed
<1> QED
  BY <1>4, <1>5

LEMMA QueuedLinkFrame ==
  ASSUME TypeInv, Queued, NEW t \in Threads, LinkFrame(t)
  PROVE  Queued'
<1>1. /\ reading.at = "link" /\ reading.frame \in Requests /\ reading' = NotReading
      /\ hist' = hist /\ owed' = owed
      /\ rxQueue' = IF walk.freed THEN rxQueue ELSE Append(rxQueue, reading.frame)
      /\ walk' = AtStart
  BY ReadingIs DEF LinkFrame, Handling, TypeInv
<1>2. InHand' = <<>> /\ ~walk'.freed
  BY <1>1 DEF InHand, NotReading, AtStart
<1>3. ASSUME "raced" \notin hist PROVE owed = rxQueue'
  <2>1. ~walk.freed /\ owed = rxQueue \o <<reading.frame>>
    BY <1>1, <1>3, InHandIs DEF Queued, QueueIsOwed
  <2> QED
    BY <1>1, <2>1, Now, AppendIsConcat
<1>4. rxQueue' \in Seq(Requests)
  BY TypeLinkFrame DEF TypeInv, TypeOK
<1>5. rxQueue' \o <<>> = rxQueue'
  BY <1>4, ConcatEmptySeq
<1> QED
  BY <1>1, <1>2, <1>3, <1>5 DEF Queued, QueueIsOwed

LEMMA QueuedNext == TypeInv /\ Queued /\ [Next]_vars => Queued'
<1> SUFFICES ASSUME TypeInv, Queued, [Next]_vars PROVE Queued'
  OBVIOUS
<1>1. ASSUME NEW t \in Threads, Receive(t) PROVE Queued'
  <2>1. CASE SkipByte(t) \/ ReadControl(t) \/ ReadTimeout(t)
    BY <2>1, QueuedKept DEF SkipByte, ReadControl, ReadTimeout, Receiving, Record, InHand
  <2>2. CASE ReadHead(t)
    <3>1. reading.at = "no" /\ reading'.at = "body"
      BY <2>2 DEF ReadHead, Receiving, NotReading, Body
    <3>2. InHand = <<>> /\ InHand' = <<>>
      BY <3>1 DEF InHand
    <3> QED
      BY <2>2, <3>1, <3>2, QueuedKept DEF ReadHead, Receiving
  <2>3. CASE ReadBad(t)
    <3>1. reading.at = "body" /\ reading'.at = "no"
      BY <2>3 DEF ReadBad, ReadingBody, NotReading
    <3>2. InHand = <<>> /\ InHand' = <<>>
      BY <3>1 DEF InHand
    <3> QED
      BY <2>3, <3>1, <3>2, QueuedKept DEF ReadBad, ReadingBody, Record
  <2>4. CASE HandleResponse(t)
    <3>1. reading.at = "checked" /\ ~IsRequest(serBuf) /\ reading'.at \in {"copy", "no"}
      BY <2>4 DEF HandleResponse, Checked, Copy, NotReading
    <3>2. InHand = <<>> /\ InHand' = <<>>
      BY <3>1 DEF InHand
    <3> QED
      BY <2>4, <3>1, <3>2, QueuedKept DEF HandleResponse, Handling
  <2>5. CASE CopyResponse(t)
    <3>1. reading.at = "copy" /\ reading'.at = "no"
      BY <2>5 DEF CopyResponse, Copy, NotReading
    <3>2. InHand = <<>> /\ InHand' = <<>>
      BY <3>1 DEF InHand
    <3> QED
      BY <2>5, <3>1, <3>2, QueuedKept DEF CopyResponse, Handling
  <2>6. CASE WalkStep(t)
    <3>1. UNCHANGED <<owed, rxQueue, reading, serBuf, hist>>
      BY <2>6, WalkStepIs DEF Walkless
    <3>2. ~walk'.freed
      <4>1. CASE CountFrame(t)
        BY <4>1 DEF CountFrame
      <4>2. CASE WalkQueue(t)
        BY <4>2 DEF WalkQueue, TypeInv, TypeOK
      <4> QED
        BY <2>6, <4>1, <4>2 DEF WalkStep
    <3> QED
      BY <3>1, <3>2 DEF Queued, QueueIsOwed, InHand
  <2> QED
    BY <1>1, <2>1, <2>2, <2>3, <2>4, <2>5, <2>6, QueuedReadGood, QueuedHandleRequest,
       QueuedLinkFrame
    DEF Receive, WalkStep
<1>2. ASSUME NEW t \in Threads, Acquire(t) PROVE Queued'
  BY <1>2, QueuedKept DEF Acquire, Lock, LockQuiet, Locking, InHand
<1>3. ASSUME NEW t \in Threads, Send(t) \/ Retransmit(t) \/ Result(t) PROVE Queued'
  BY <1>3, QueuedKept DEF Send, Retransmit, Transmit, Result, Record, InHand
<1>4. ASSUME NEW t \in Threads, NEW f \in Funcs, Call(t, f) PROVE Queued'
  BY <1>4, QueuedKept DEF Call, Record, InHand
<1>5. CASE ChipTakes \/ ChipAnswers \/ ChipDrops \/ ChipDone \/ ChipRequest
  BY <1>5, QueuedKept DEF ChipTakes, ChipAnswers, ChipDrops, ChipDone, ChipRequest, Chip, host, InHand
<1>6. CASE PollDrain \/ UNCHANGED vars
  BY <1>6, QueuedKept DEF PollDrain, vars, host, InHand
<1> QED
  BY <1>1, <1>2, <1>3, <1>4, <1>5, <1>6, QueuedPoll DEF Next, Run

LEMMA QueuedInit == Init => Queued
BY DEF Init, Queued, QueueIsOwed, InHand, NotReading, AtStart

(* QueueFrame's walk never goes on from a node that was freed, unless the   *)
(* history says that sapi_t took the frame it was at.                       *)
THEOREM QueuedInvariance == Spec => []Queued
BY QueuedInit, QueuedNext, TypeInvariance, PTL DEF Spec

(* What SerialAPI_Poll will dispatch is, in order, what the receiver has    *)
(* acknowledged to the chip: QueueFrame loses a request only when the queue *)
(* is full, whatever the sizes and however many polls come between the steps*)
(* of its walk, unless one comes at a place the history records: the frame  *)
(* is still in sl_ser_buf, or the walk is at the node that is freed.        *)
THEOREM QueueIsOwedHolds == Spec => []QueueIsOwed
<1>1. Queued => QueueIsOwed
  BY DEF Queued
<1> QED
  BY <1>1, QueuedInvariance, PTL

-----------------------------------------------------------------------------
(* The items of sequences.                                                 *)
LEMMA ItemsOf ==
  ASSUME NEW S, NEW a \in Seq(S)
  PROVE  /\ \A b \in Seq(S) : Items(a \o b) = Items(a) \cup Items(b)
         /\ \A x \in S : Items(Append(a, x)) = Items(a) \cup {x}
         /\ \A x \in S : Items(<<x>>) = {x}
         /\ a # <<>> => Items(Tail(a)) \subseteq Items(a) /\ Head(a) \in Items(a)
         /\ Items(a) \subseteq S
         /\ a = <<>> <=> Items(a) = {}
<1>1. ASSUME NEW b \in Seq(S) PROVE Items(a \o b) = Items(a) \cup Items(b)
  <2>1. /\ Len(a \o b) = Len(a) + Len(b) /\ Len(a) \in Nat /\ Len(b) \in Nat
        /\ DOMAIN a = 1..Len(a) /\ DOMAIN b = 1..Len(b) /\ DOMAIN (a \o b) = 1..Len(a) + Len(b)
        /\ \A i \in 1..Len(a) + Len(b) :
             (a \o b)[i] = IF i <= Len(a) THEN a[i] ELSE b[i - Len(a)]
    BY ConcatProperties, LenProperties
  <2>2. Items(a \o b) \subseteq Items(a) \cup Items(b)
    <3>1. ASSUME NEW i \in DOMAIN (a \o b) PROVE (a \o b)[i] \in Items(a) \cup Items(b)
      <4>1. CASE i <= Len(a)
        <5>1. i \in DOMAIN a /\ (a \o b)[i] = a[i]
          BY <2>1, <4>1
        <5> QED
          BY <5>1 DEF Items
      <4>2. CASE ~(i <= Len(a))
        <5>1. i - Len(a) \in DOMAIN b /\ (a \o b)[i] = b[i - Len(a)]
          BY <2>1, <4>2
        <5> QED
          BY <5>1 DEF Items
      <4> QED
        BY <4>1, <4>2
    <3> QED
      BY <3>1 DEF Items
  <2>3. Items(a) \subseteq Items(a \o b)
    <3>1. ASSUME NEW i \in DOMAIN a PROVE i \in DOMAIN (a \o b) /\ (a \o b)[i] = a[i]
      BY <2>1
    <3> QED
      BY <3>1 DEF Items
  <2>4. Items(b) \subseteq Items(a \o b)
    <3>1. ASSUME NEW i \in DOMAIN b
          PROVE  i + Len(a) \in DOMAIN (a \o b) /\ (a \o b)[i + Len(a)] = b[i]
      BY <2>1
    <3> QED
      BY <3>1 DEF Items
  <2> QED
    BY <2>2, <2>3, <2>4
<1>2. ASSUME NEW x \in S PROVE Items(<<x>>) = {x}
  BY DEF Items
<1>3. ASSUME NEW x \in S PROVE Items(Append(a, x)) = Items(a) \cup {x}
  <2>1. <<x>> \in Seq(S) /\ Append(a, x) = a \o <<x>>
    BY AppendIsConcat
  <2> QED
    BY <1>1, <1>2, <2>1
<1>4. a # <<>> => Items(Tail(a)) \subseteq Items(a) /\ Head(a) \in Items(a)
  <2> SUFFICES ASSUME a # <<>> PROVE Items(Tail(a)) \subseteq Items(a) /\ Head(a) \in Items(a)
    OBVIOUS
  <2>1. /\ Len(Tail(a)) = Len(a) - 1 /\ Len(a) \in Nat \ {0} /\ Head(a) = a[1]
        /\ DOMAIN Tail(a) = 1..Len(a) - 1 /\ DOMAIN a = 1..Len(a)
        /\ \A i \in 1..Len(a) - 1 : Tail(a)[i] = a[i + 1]
    BY HeadTailProperties, LenProperties, EmptySeq
  <2>2. ASSUME NEW i \in DOMAIN Tail(a) PROVE i + 1 \in DOMAIN a /\ Tail(a)[i] = a[i + 1]
    BY <2>1
  <2>3. 1 \in DOMAIN a
    BY <2>1
  <2> QED
    BY <2>1, <2>2, <2>3 DEF Items
<1>5. Items(a) \subseteq S
  BY DEF Items
<1>6. a = <<>> <=> Items(a) = {}
  <2>1. a # <<>> => Items(a) # {}
    BY <1>4
  <2> QED
    BY <2>1 DEF Items
<1> QED
  BY <1>1, <1>2, <1>3, <1>4, <1>5, <1>6

Bytes == Frames \cup {Ack, Nak}
LEMMA ItemsOfThree ==
  ASSUME NEW a \in Seq(Bytes), NEW b \in Seq(Bytes), NEW c \in Seq(Bytes)
  PROVE  Items(a \o b \o c) = Items(a) \cup Items(b) \cup Items(c)
<1>1. a \o b \in Seq(Bytes) /\ Items(a \o b) = Items(a) \cup Items(b)
  BY ItemsOf
<1> DEFINE ab == a \o b
<1>2. ab \in Seq(Bytes) /\ Items(ab) = Items(a) \cup Items(b)
  BY <1>1
<1> HIDE DEF ab
<1>3. Items(ab \o c) = Items(ab) \cup Items(c)
  BY <1>2, ItemsOf
<1> QED
  BY <1>2, <1>3 DEF ab

LEMMA ItemsAgain ==
  ASSUME NEW f \in Bytes, NEW q \in Seq(Bytes)
  PROVE  Items(<<f>> \o q) = {f} \cup Items(q) /\ <<f>> \o q \in Seq(Bytes)
<1> DEFINE one == <<f>>
<1>1. one \in Seq(Bytes) /\ Items(one) = {f}
  BY DEF Items
<1> HIDE DEF one
<1>2. Items(one \o q) = Items(one) \cup Items(q) /\ one \o q \in Seq(Bytes)
  BY <1>1, ItemsOf
<1> QED
  BY <1>1, <1>2 DEF one

LEMMA ReceivedIs ==
  ASSUME TypeInv
  PROVE  /\ Received \in Seq(Frames) /\ Received \in Seq(Bytes)
         /\ reading.at = "no" => Received = <<>>
         /\ reading.at \in {"body", "link"} => Received = <<reading.frame>> /\ reading.frame \in Frames
         /\ reading.at \in {"checked", "copy"} => Received = <<serBuf>> /\ serBuf \in Frames
<1>1. reading.at \in {"body", "link"} => reading.frame \in Frames
  BY ReadingIs, FramesAre DEF TypeInv
<1>2. reading.at \in {"checked", "copy"} => serBuf \in Frames
  BY ReadingIs DEF TypeInv, Reception
<1>3. reading.at \in {"no", "body", "checked", "link", "copy"}
  BY ReadingIs DEF TypeInv
<1>4. /\ reading.at = "no" => Received = <<>>
      /\ reading.at \in {"body", "link"} => Received = <<reading.frame>>
      /\ reading.at \in {"checked", "copy"} => Received = <<serBuf>>
  BY <1>3 DEF Received
<1>5. /\ reading.at \in {"body", "link"} => <<reading.frame>> \in Seq(Frames)
      /\ reading.at \in {"checked", "copy"} => <<serBuf>> \in Seq(Frames)
      /\ <<>> \in Seq(Frames) /\ Seq(Frames) \subseteq Seq(Bytes)
  BY <1>1, <1>2 DEF Bytes
<1>6. Received \in Seq(Frames)
  BY <1>3, <1>4, <1>5
<1> QED
  BY <1>1, <1>2, <1>4, <1>5, <1>6

LEMMA Lined ==
  ASSUME TypeInv
  PROVE  /\ uart \in Seq(Bytes) /\ chip.owes \in Seq(Bytes) /\ chip.owes \in Seq(Responses)
         /\ chip.in \in Seq(Commands) /\ Received \in Seq(Bytes) /\ Seq(Frames) \subseteq Seq(Bytes)
         /\ Items(Arriving) = Items(chip.owes) \cup Items(uart) \cup Items(Received)
<1>1. uart \in Seq(Bytes) /\ Seq(Responses) \subseteq Seq(Bytes) /\ Seq(Frames) \subseteq Seq(Bytes)
  BY FramesAre DEF TypeInv, TypeOK, Bytes
<1>2. chip.owes \in Seq(Responses) /\ chip.in \in Seq(Commands)
  BY ChipFields
<1>3. Received \in Seq(Bytes)
  BY ReceivedIs
<1> QED
  BY <1>1, <1>2, <1>3, ItemsOfThree DEF Arriving

LEMMA ArrivingIs ==
  TypeInv => Items(Arriving) = Items(chip.owes) \cup Items(uart) \cup Items(Received)
BY Lined

-----------------------------------------------------------------------------
(* The answer of a call.                                                   *)
LEMMA AnsweringKept ==
  ASSUME TypeInv, Answering, UNCHANGED fn, InCall' \subseteq InCall,
         \A t \in InCall' : call'[t] = call[t],
         \A t \in InCall', c \in Items(chip'.in) :
           c \in Items(chip.in) \/ c.of = call[t] \/ c.fn # fn[call[t]],
         \A t \in InCall', x \in Items(Arriving') :
           x \in Items(Arriving) \/ ~IsResponse(x, fn[call[t]]) \/ x.call = call[t],
         \A t \in InCall' : OwnBuffer(t)' /\ OwnCopy(t)'
  PROVE  Answering'
<1>1. Alone'
  BY DEF Answering, Alone
<1>2. ASSUME NEW t \in InCall' PROVE OwnCommands(t)' /\ OwnResponses(t)'
  <2>1. t \in InCall /\ call'[t] = call[t] /\ OwnCommands(t) /\ OwnResponses(t)
    BY <1>2 DEF Answering
  <2>2. OwnCommands(t)'
    BY <1>2, <2>1 DEF OwnCommands
  <2>3. OwnResponses(t)'
    BY <1>2, <2>1 DEF OwnResponses
  <2> QED
    BY <2>2, <2>3
<1> QED
  BY <1>1, <1>2 DEF Answering

(* A step that leaves the calls, their buffer and the commands alone.      *)
LEMMA AnsweringStays ==
  ASSUME TypeInv, TypeInv', Answering, UNCHANGED <<fn, call, txBuf>>,
         NEW t \in Threads, \A u \in Threads \ {t} : pc'[u] = pc[u],
         \/ pc[t] = pc'[t] \/ Returned(t)'
         \/ ~Returned(t) /\ pc[t] # "result" /\ pc'[t] # "result",
         Returned(t) => Returned(t)',
         Items(chip'.in) \subseteq Items(chip.in),
         \A x \in Items(chip'.owes) \cup Items(uart') \cup Items(Received') :
           x \in Items(chip.owes) \cup Items(uart) \cup Items(Received) \/ x.kind # "RES",
         reading' = Copy => reading = Copy /\ UNCHANGED <<serBuf, pc>>
  PROVE  Answering'
<1>1. InCall' \subseteq InCall /\ \A u \in InCall' : pc[u] = "result" <=> pc'[u] = "result"
  BY DEF InCall, Returned
<1>2. Items(Arriving') = Items(chip'.owes) \cup Items(uart') \cup Items(Received')
  <2>1. (Items(Arriving) = Items(chip.owes) \cup Items(uart) \cup Items(Received))'
    BY ArrivingIs, PTL
  <2> QED
    BY <2>1
<1>3. \A u \in InCall' : OwnBuffer(u)'
  BY <1>1 DEF Answering, OwnBuffer
<1>4. \A u \in InCall' : OwnCopy(u)'
  BY <1>1 DEF Answering, OwnCopy
<1>5. \A u \in InCall', x \in Items(Arriving') :
        x \in Items(Arriving) \/ ~IsResponse(x, fn[call[u]]) \/ x.call = call[u]
  BY <1>2, Lined DEF IsResponse
<1> QED
  BY <1>1, <1>3, <1>4, <1>5, AnsweringKept

(* The same for the reception of a frame.                                  *)
LEMMA AnsweringReception ==
  ASSUME TypeInv, TypeInv', Answering, UNCHANGED <<fn, call, txBuf, chip>>,
         NEW t \in Threads, pc[t] \in Listening,
         UNCHANGED pc \/ \E p \in Places \ {"result"} : Moves(t, p),
         \A x \in Items(uart') \cup Items(Received') :
           x \in Items(uart) \cup Items(Received) \/ x.kind # "RES",
         reading' # Copy
  PROVE  Answering'
<1>1. pc[t] # "result" /\ ~Returned(t) /\ pc \in [Threads -> Places]
  BY Now DEF Listening, Returned
<1>2. /\ \A u \in Threads \ {t} : pc'[u] = pc[u]
      /\ pc[t] = pc'[t] \/ pc'[t] # "result"
  BY <1>1 DEF Moves
<1>3. \A x \in Items(chip'.owes) \cup Items(uart') \cup Items(Received') :
        x \in Items(chip.owes) \cup Items(uart) \cup Items(Received) \/ x.kind # "RES"
  OBVIOUS
<1> QED
  BY <1>1, <1>2, <1>3, AnsweringStays

LEMMA AnsweringSkipByte ==
  ASSUME TypeInv, Answering, NEW t \in Threads, SkipByte(t)
  PROVE  Answering'
<1>1. /\ pc[t] \in Listening /\ UNCHANGED <<fn, call, txBuf, chip, pc, serBuf, reading>>
      /\ uart' = Tail(uart) /\ uart # <<>> /\ reading = NotReading
  BY DEF SkipByte, Receiving, Listening
<1>2. Items(uart') \subseteq Items(uart) /\ Received' = Received /\ reading' # Copy
  BY <1>1, Lined, ItemsOf DEF Received, NotReading, Copy
<1> QED
  BY <1>1, <1>2, TypeSkipByte, AnsweringReception

LEMMA AnsweringReadControl ==
  ASSUME TypeInv, Answering, NEW t \in Threads, ReadControl(t)
  PROVE  Answering'
<1>1. /\ pc[t] \in Listening /\ UNCHANGED <<fn, call, txBuf, chip, serBuf, reading>>
      /\ uart' = Tail(uart) /\ uart # <<>> /\ reading = NotReading /\ lock = t
      /\ pc \in [Threads -> Places]
  BY Now DEF ReadControl, Receiving, Listening
<1>2. Items(uart') \subseteq Items(uart) /\ Received' = Received /\ reading' # Copy
  BY <1>1, Lined, ItemsOf DEF Received, NotReading, Copy
<1>3. \E p \in {"answer", "idle", "served", "poll", "send", "backoff", "failed"} :
        pc' = [pc EXCEPT ![t] = p]
  <2>1. CASE pc[t] = "ack" /\ Head(uart) = Ack
    BY <2>1 DEF ReadControl, Unlocked, Home
  <2>2. CASE ~(pc[t] = "ack" /\ Head(uart) = Ack)
    <3>1. NoFrame(t)
      BY <2>2 DEF ReadControl
    <3> QED
      BY <1>1, <3>1, NoFrameMoves DEF Moves
  <2> QED
    BY <2>1, <2>2
<1>4. /\ \A u \in Threads \ {t} : pc'[u] = pc[u]
      /\ pc'[t] # "result" /\ pc[t] # "result" /\ ~Returned(t)
  BY <1>1, <1>3 DEF Listening, Returned
<1> QED
  BY <1>1, <1>2, <1>4, TypeReadControl, AnsweringStays

LEMMA AnsweringReadTimeout ==
  ASSUME TypeInv, Answering, NEW t \in Threads, ReadTimeout(t)
  PROVE  Answering'
<1>1. /\ pc[t] \in Listening /\ UNCHANGED <<fn, call, txBuf, chip, serBuf, reading, uart>>
      /\ reading = NotReading /\ lock = t /\ NoFrame(t)
  BY DEF ReadTimeout, Receiving, Listening
<1>2. Received' = Received /\ reading' # Copy
  BY <1>1 DEF Received, NotReading, Copy
<1>3. \E p \in Places \ {"result"} : Moves(t, p)
  BY <1>1, NoFrameMoves, PlacesAre DEF Holding
<1> QED
  BY <1>1, <1>2, <1>3, TypeReadTimeout, AnsweringReception

LEMMA AnsweringReadHead ==
  ASSUME TypeInv, Answering, NEW t \in Threads, ReadHead(t)
  PROVE  Answering'
<1>1. /\ pc[t] \in Listening /\ UNCHANGED <<fn, call, txBuf, chip, pc>>
      /\ uart' = Tail(uart) /\ uart # <<>> /\ reading' = Body(Head(uart))
      /\ Head(uart) \in Bytes
  BY Lined, ItemsOf DEF ReadHead, Receiving, Listening
<1>2. Received' = <<Head(uart)>> /\ reading' # Copy
  BY <1>1 DEF Received, Body, Copy
<1>3. Items(uart') \subseteq Items(uart) /\ Items(Received') = {Head(uart)} /\ Head(uart) \in Items(uart)
  <2>1. Items(<<Head(uart)>>) = {Head(uart)}
    BY DEF Items
  <2> QED
    BY <1>1, <1>2, <2>1, Lined, ItemsOf
<1> QED
  BY <1>1, <1>2, <1>3, TypeReadHead, AnsweringReception

LEMMA AnsweringReadGood ==
  ASSUME TypeInv, Answering, NEW t \in Threads, ReadGood(t)
  PROVE  Answering'
<1>1. /\ UNCHANGED <<fn, call, txBuf, chip, pc>> /\ reading.at = "body" /\ lock = t
      /\ reading' = Checked /\ serBuf' = reading.frame
      /\ uart' = uart \/ uart' = <<reading.frame>> \o uart
  BY DEF ReadGood, ReadingBody
<1>2. /\ Received = <<reading.frame>> /\ reading.frame \in Bytes
      /\ Items(<<reading.frame>>) = {reading.frame}
  BY <1>1, ReceivedIs DEF Bytes, Items
<1>3. Received' = <<reading.frame>> /\ reading' # Copy
  BY <1>1 DEF Received, Checked, Copy
<1>4. Items(uart') \subseteq Items(uart) \cup {reading.frame}
  <2>1. Items(<<reading.frame>> \o uart) = {reading.frame} \cup Items(uart)
    BY <1>2, Lined, ItemsAgain
  <2> QED
    BY <1>1, <2>1
<1>5. pc[t] \in Listening
  BY <1>1, ReaderListens DEF NotReading
<1> QED
  BY <1>1, <1>2, <1>3, <1>4, <1>5, TypeReadGood, AnsweringReception

LEMMA AnsweringReadBad ==
  ASSUME TypeInv, Answering, NEW t \in Threads, ReadBad(t)
  PROVE  Answering'
<1>1. /\ UNCHANGED <<fn, call, txBuf, chip>> /\ reading.at = "body" /\ lock = t
      /\ reading' = NotReading /\ NoFrame(t)
      /\ uart' = uart \/ uart' = <<reading.frame>> \o uart
  BY DEF ReadBad, ReadingBody
<1>2. /\ Received = <<reading.frame>> /\ reading.frame \in Bytes
      /\ Items(<<reading.frame>>) = {reading.frame}
  BY <1>1, ReceivedIs DEF Bytes, Items
<1>3. Received' = <<>> /\ Items(Received') = {} /\ reading' # Copy
  BY <1>1 DEF Received, Items, NotReading, Copy
<1>4. Items(uart') \subseteq Items(uart) \cup {reading.frame}
  <2>1. Items(<<reading.frame>> \o uart) = {reading.frame} \cup Items(uart)
    BY <1>2, Lined, ItemsAgain
  <2> QED
    BY <1>1, <2>1
<1>5. pc[t] \in Listening
  BY <1>1, ReaderListens DEF NotReading
<1>6. \E p \in Places \ {"result"} : Moves(t, p)
  BY <1>1, <1>5, NoFrameMoves, PlacesAre DEF Holding
<1> QED
  BY <1>1, <1>2, <1>3, <1>4, <1>5, <1>6, TypeReadBad, AnsweringReception

LEMMA FrameEnds ==
  ASSUME TypeInv, NEW t \in Threads, lock = t, pc[t] \in Listening,
         NextFrame(t) \/ UNCHANGED <<pc, lock, tries>>
  PROVE  UNCHANGED pc \/ \E p \in Places \ {"result"} : Moves(t, p)
BY NextFrameMoves, PlacesAre DEF Holding

LEMMA AnsweringHandleRequest ==
  ASSUME TypeInv, Answering, NEW t \in Threads, HandleRequest(t)
  PROVE  Answering'
<1>1. /\ UNCHANGED <<fn, call, txBuf, chip, uart, serBuf>> /\ reading.at = "checked" /\ lock = t
      /\ reading' = Link(serBuf) \/ reading' = NotReading
      /\ NextFrame(t) \/ UNCHANGED <<pc, lock, tries>>
  BY DEF HandleRequest, Counting, Handling, Checked
<1>2. Received = <<serBuf>> /\ (Received' = <<serBuf>> \/ Received' = <<>>) /\ reading' # Copy
  BY <1>1 DEF Received, Link, NotReading, Copy
<1>3. Items(Received') \subseteq Items(Received)
  BY <1>2 DEF Items
<1>4. pc[t] \in Listening
  BY <1>1, ReaderListens DEF NotReading
<1> QED
  BY <1>1, <1>2, <1>3, <1>4, FrameEnds, TypeHandleRequest, AnsweringReception

LEMMA AnsweringLinkFrame ==
  ASSUME TypeInv, Answering, NEW t \in Threads, LinkFrame(t)
  PROVE  Answering'
<1>1. /\ UNCHANGED <<fn, call, txBuf, chip, uart, serBuf>> /\ reading.at = "link" /\ lock = t
      /\ reading' = NotReading /\ NextFrame(t)
  BY DEF LinkFrame, Handling
<1>2. Received' = <<>> /\ Items(Received') = {} /\ reading' # Copy
  BY <1>1 DEF Received, Items, NotReading, Copy
<1>3. pc[t] \in Listening
  BY <1>1, ReaderListens DEF NotReading
<1> QED
  BY <1>1, <1>2, <1>3, FrameEnds, TypeLinkFrame, AnsweringReception

LEMMA AnsweringHandleResponse ==
  ASSUME TypeInv, Answering, NEW t \in Threads, HandleResponse(t)
  PROVE  Answering'
<1>1. /\ UNCHANGED <<fn, call, txBuf, chip, uart, serBuf>> /\ reading.at = "checked" /\ lock = t
      /\ reading # NotReading
  BY DEF HandleResponse, Handling, Checked, NotReading
<1>2. pc[t] \in Listening /\ Received = <<serBuf>>
  BY <1>1, ReaderListens DEF Received
<1>3. CASE Wanted(t)
  <2>1. UNCHANGED pc /\ reading' = Copy
    BY <1>3 DEF HandleResponse
  <2>2. Received' = Received /\ Arriving' = Arriving /\ InCall' = InCall
    BY <1>1, <1>2, <2>1 DEF Received, Copy, Arriving, InCall, Returned
  <2>3. t \in InCall
    BY <1>3 DEF Wanted, InCall, Returned, TypeInv, Numbered, Transmitting
  <2>4. \A u \in InCall' : OwnBuffer(u)' /\ OwnCopy(u)'
    <3>1. ASSUME NEW u \in InCall PROVE u = t /\ OwnBuffer(u)
      BY <2>3, <3>1 DEF Answering, Alone
    <3>2. \A u \in InCall : OwnBuffer(u)'
      BY <1>1, <2>1, <3>1 DEF OwnBuffer
    <3>3. OwnCopy(t)'
      BY <1>1, <1>3, <2>1 DEF OwnCopy, Wanted
    <3> QED
      BY <2>2, <3>1, <3>2, <3>3
  <2> QED
    BY <1>1, <2>1, <2>2, <2>4, AnsweringKept
<1>4. CASE ~Wanted(t)
  <2>1. reading' = NotReading /\ NextFrame(t)
    BY <1>4 DEF HandleResponse
  <2>2. Received' = <<>> /\ Items(Received') = {} /\ reading' # Copy
    BY <2>1 DEF Received, Items, NotReading, Copy
  <2> QED
    BY <1>1, <1>2, <2>1, <2>2, FrameEnds, TypeHandleResponse, AnsweringReception
<1> QED
  BY <1>3, <1>4

LEMMA AnsweringCopyResponse ==
  ASSUME TypeInv, Answering, NEW t \in Threads, CopyResponse(t)
  PROVE  Answering'
<1>1. /\ UNCHANGED <<fn, call, chip, uart, serBuf>> /\ reading = Copy /\ lock = t
      /\ reading' = NotReading /\ txBuf' = serBuf /\ pc' = [pc EXCEPT ![t] = "result"]
  BY DEF CopyResponse, Handling, Unlocked
<1>2. /\ pc[t] = "answer" /\ t \in InCall /\ reading.at = "copy" /\ pc \in [Threads -> Places]
      /\ serBuf \in Frames /\ Received = <<serBuf>>
  BY <1>1, Now DEF TypeInv, Reception, InCall, Returned, Numbered, Transmitting, Copy, Received
<1>3. serBuf \in Items(Arriving) /\ IsResponse(serBuf, fn[call[t]])
  <2>1. serBuf \in Items(Received)
    BY <1>2 DEF Items
  <2> QED
    BY <1>1, <1>2, <2>1, Lined DEF Answering, OwnCopy
<1>4. serBuf.call = call[t]
  BY <1>2, <1>3 DEF Answering, OwnResponses
<1>5. \E ok \in BOOLEAN : serBuf = Res(fn[call[t]], call[t], ok)
  <2>1. serBuf \in Responses
    BY <1>2, <1>3, FramesAre DEF IsResponse, IsRequest
  <2>2. PICK f \in {"SendData", "Query"}, c \in 1..Garbage, ok \in BOOLEAN : serBuf = Res(f, c, ok)
    BY <2>1 DEF Responses
  <2> QED
    BY <1>3, <1>4, <2>2 DEF IsResponse, Res
<1>6. InCall' = InCall /\ \A u \in InCall : u = t
  BY <1>1, <1>2 DEF InCall, Returned, Answering, Alone
<1>7. Received' = <<>> /\ Items(Received') = {}
  BY <1>1 DEF Received, Items, NotReading
<1>8. Items(Arriving') \subseteq Items(Arriving)
  <2>1. (Items(Arriving) = Items(chip.owes) \cup Items(uart) \cup Items(Received))'
    BY ArrivingIs, TypeCopyResponse, PTL
  <2> QED
    BY <1>1, <1>7, <2>1, Lined
<1>9. OwnBuffer(t)' /\ OwnCopy(t)'
  BY <1>1, <1>2, <1>5 DEF OwnBuffer, OwnCopy, NotReading, Copy
<1> QED
  BY <1>1, <1>6, <1>8, <1>9, AnsweringKept

LEMMA AnsweringWalkStep ==
  ASSUME TypeInv, Answering, NEW t \in Threads, WalkStep(t)
  PROVE  Answering'
BY WalkStepIs
DEF Walkless, Answering, Alone, OwnCommands, OwnResponses, OwnBuffer, OwnCopy, InCall, Returned,
    Arriving, Received

LEMMA AnsweringReceive ==
  ASSUME TypeInv, Answering, NEW t \in Threads, Receive(t)
  PROVE  Answering'
BY AnsweringSkipByte, AnsweringReadControl, AnsweringReadTimeout, AnsweringReadHead, AnsweringReadGood,
   AnsweringReadBad, AnsweringWalkStep, AnsweringHandleRequest, AnsweringLinkFrame,
   AnsweringHandleResponse, AnsweringCopyResponse DEF Receive, WalkStep

LEMMA AnsweringPoll ==
  ASSUME TypeInv, Answering, SerialAPI_Poll, "raced" \notin hist'
  PROVE  Answering'
<1>1. /\ UNCHANGED <<call, fn, reading, txBuf, uart, chip>> /\ pc[Sapi] = "poll"
      /\ pc' = [pc EXCEPT ![Sapi] = "served"] /\ Sapi \in Threads /\ pc \in [Threads -> Places]
  BY SerialHostAssumption, Now DEF SerialAPI_Poll
<1>2. UNCHANGED serBuf \/ ~Races
  BY DEF SerialAPI_Poll, Record
<1>3. Received' = Received
  BY <1>1, <1>2, ReadingIs DEF Received, Races, TypeInv
<1>4. InCall' = InCall /\ \A u \in InCall : pc'[u] = pc[u]
  BY <1>1 DEF InCall, Returned
<1>5. reading = Copy => UNCHANGED serBuf
  BY <1>2 DEF Races, Copy
<1>6. \A u \in InCall' : OwnBuffer(u)' /\ OwnCopy(u)'
  BY <1>1, <1>4, <1>5 DEF Answering, OwnBuffer, OwnCopy
<1>7. Arriving' = Arriving
  BY <1>1, <1>3 DEF Arriving
<1> QED
  BY <1>1, <1>4, <1>6, <1>7, AnsweringKept

LEMMA AnsweringPollDrain ==
  ASSUME TypeInv, Answering, PollDrain
  PROVE  Answering'
<1>1. /\ UNCHANGED <<fn, reading, txBuf, uart, chip, serBuf>> /\ pc[Sapi] = "served"
      /\ pc' = [pc EXCEPT ![Sapi] = "lock"] /\ Sapi \in Threads /\ pc \in [Threads -> Places]
      /\ call' = [call EXCEPT ![Sapi] = 0] /\ call \in [Threads -> 0..MaxCalls]
  BY SerialHostAssumption, Now DEF PollDrain, TypeInv, TypeOK
<1>2. InCall' = InCall /\ \A u \in InCall : pc'[u] = pc[u] /\ call'[u] = call[u]
  BY <1>1 DEF InCall, Returned
<1>3. \A u \in InCall' : OwnBuffer(u)' /\ OwnCopy(u)'
  BY <1>1, <1>2 DEF Answering, OwnBuffer, OwnCopy
<1>4. Arriving' = Arriving
  BY <1>1 DEF Arriving, Received
<1> QED
  BY <1>1, <1>2, <1>3, <1>4, AnsweringKept

LEMMA AnsweringCall ==
  ASSUME TypeInv, Answering, NEW t \in Threads, NEW f \in Funcs, Call(t, f),
         "overlap" \notin hist', "early" \notin hist'
  PROVE  Answering'
<1>1. /\ UNCHANGED <<reading, uart, chip, serBuf>> /\ pc' = [pc EXCEPT ![t] = "lock"]
      /\ call' = [call EXCEPT ![t] = Len(fn')] /\ fn' = Append(fn, f) /\ txBuf' = Params(Len(fn'))
      /\ pc \in [Threads -> Places] /\ call \in [Threads -> 0..MaxCalls] /\ fn \in Seq(Funcs)
  BY Now DEF Call, TypeInv, TypeOK
<1>2. InCall = {} /\ ~InFlight(f)
  BY DEF Call, Record
<1>3. /\ Len(fn) \in Nat /\ Len(fn') = Len(fn) + 1 /\ fn'[Len(fn')] = f
      /\ call'[t] = Len(fn') /\ fn'[call'[t]] = f
  BY <1>1
<1>4. InCall' \subseteq {t}
  BY <1>1, <1>2 DEF InCall, Returned
<1>5. Alone'
  BY <1>4 DEF Alone
<1>6. OwnCommands(t)'
  BY <1>1, <1>2, <1>3 DEF OwnCommands, InFlight
<1>7. OwnResponses(t)'
  <2>1. Arriving' = Arriving
    BY <1>1 DEF Arriving, Received
  <2>2. \A x \in Items(Arriving) : ~IsResponse(x, f)
    BY <1>2 DEF InFlight, Arriving
  <2> QED
    BY <1>3, <2>1, <2>2 DEF OwnResponses
<1>8. OwnBuffer(t)'
  BY <1>1, <1>3 DEF OwnBuffer
<1>9. reading' # Copy
  <2> SUFFICES ASSUME reading = Copy PROVE FALSE
    BY <1>1
  <2>1. PICK u \in Threads : lock = u /\ pc[u] = "answer"
    BY DEF TypeInv, Reception, Copy, NotReading
  <2>2. u \in InCall
    BY <2>1 DEF InCall, Returned, TypeInv, Numbered, Transmitting
  <2> QED
    BY <1>2, <2>2
<1> QED
  BY <1>4, <1>5, <1>6, <1>7, <1>8, <1>9 DEF Answering, OwnCopy

LEMMA AnsweringAcquire ==
  ASSUME TypeInv, Answering, NEW t \in Threads, Acquire(t)
  PROVE  Answering'
<1>1. /\ UNCHANGED <<call, fn, reading, txBuf, uart, chip, serBuf>> /\ pc[t] = "lock"
      /\ \E p \in {"drain", "send", "poll"} : pc' = [pc EXCEPT ![t] = p]
      /\ pc \in [Threads -> Places]
  BY Now DEF Acquire, Lock, LockQuiet, Locking
<1>2. InCall' \subseteq InCall /\ \A u \in InCall' : pc[u] = "result" <=> pc'[u] = "result"
  BY <1>1 DEF InCall, Returned
<1>3. \A u \in InCall' : OwnBuffer(u)'
  BY <1>1, <1>2 DEF Answering, OwnBuffer
<1>4. \A u \in InCall' : OwnCopy(u)'
  BY <1>1, <1>2 DEF Answering, OwnCopy
<1>5. Arriving' = Arriving
  BY <1>1 DEF Arriving, Received
<1> QED
  BY <1>1, <1>2, <1>3, <1>4, <1>5, AnsweringKept

LEMMA AnsweringTransmit ==
  ASSUME TypeInv, Answering, NEW t \in Threads, Transmit(t), pc[t] \in {"send", "backoff"},
         NEW p \in Places \ {"result"}, pc' = [pc EXCEPT ![t] = p]
  PROVE  Answering'
<1>1. /\ UNCHANGED <<call, fn, reading, txBuf, uart, serBuf>> /\ pc \in [Threads -> Places]
      /\ chip' = [chip EXCEPT !.in = Append(chip.in, Command(t))]
  BY Now DEF Transmit
<1>2. t \in InCall
  BY DEF InCall, Returned, TypeInv, Numbered, Transmitting
<1>3. \A u \in InCall : u = t
  BY <1>2 DEF Answering, Alone
<1>4. InCall' \subseteq InCall
  BY <1>1, <1>2 DEF InCall, Returned
<1>5. Command(t) = [fn |-> fn[call[t]], of |-> call[t]]
  <2>1. txBuf = Params(call[t])
    BY <1>2 DEF Answering, OwnBuffer
  <2> QED
    BY <2>1 DEF Command, Params
<1>6. chip'.in = Append(chip.in, Command(t)) /\ chip'.owes = chip.owes
  BY <1>1, ChipFields
<1>7. Items(chip'.in) \subseteq Items(chip.in) \cup {Command(t)}
  <2>1. Command(t) \in Commands
    BY CommandTyped, <1>2 DEF InCall, TypeInv, Numbered, Transmitting
  <2> QED
    BY <1>6, <2>1, Lined, ItemsOf
<1>8. Arriving' = Arriving
  BY <1>1, <1>6 DEF Arriving, Received
<1>9. reading # Copy
  <2>1. pc[t] \in Holding => lock = t
    BY DEF TypeInv, Control, LockHeld
  <2> QED
    BY <2>1, Now DEF TypeInv, Reception
<1>10. \A u \in InCall' : OwnBuffer(u)' /\ OwnCopy(u)'
  <2>1. OwnBuffer(t)'
    BY <1>1, <1>2 DEF Answering, OwnBuffer
  <2> QED
    BY <1>1, <1>3, <1>4, <1>9, <2>1 DEF OwnCopy
<1>11. \A c \in Items(chip'.in) : c \in Items(chip.in) \/ c.of = call[t]
  BY <1>5, <1>7
<1> QED
  BY <1>1, <1>3, <1>4, <1>8, <1>10, <1>11, AnsweringKept

LEMMA AnsweringSend ==
  ASSUME TypeInv, Answering, NEW t \in Threads, Send(t) \/ Retransmit(t)
  PROVE  Answering'
<1>1. pc[t] \in {"send", "backoff"} /\ Transmit(t)
  BY DEF Send, Retransmit
<1>2. \E p \in {"ack", "served", "idle", "failed"} : pc' = [pc EXCEPT ![t] = p]
  BY DEF Send, Retransmit, Failed, Unlocked, Home
<1> QED
  BY <1>1, <1>2, AnsweringTransmit, PlacesAre DEF Places

LEMMA AnsweringResult ==
  ASSUME TypeInv, Answering, NEW t \in Threads, Result(t)
  PROVE  Answering'
<1>1. /\ UNCHANGED <<call, fn, reading, chip, uart, serBuf>> /\ pc \in [Threads -> Places]
      /\ pc' = [pc EXCEPT ![t] = Home(t)] /\ pc[t] \in {"result", "failed"}
  BY Now DEF Result
<1>2. t \in InCall
  BY <1>1 DEF InCall, Returned, TypeInv, Numbered, Transmitting
<1>3. InCall' = {}
  <2>1. InCall' \subseteq InCall \ {t}
    BY <1>1 DEF InCall, Returned, Home
  <2> QED
    BY <1>2, <2>1 DEF Answering, Alone
<1> QED
  BY <1>3 DEF Answering, Alone

(* Steps of the chip: what it sends next answers what it has taken.        *)
LEMMA AnsweringChip ==
  ASSUME TypeInv, Answering, UNCHANGED host, chip' \in Chips, uart' \in Seq(Bytes),
         Items(chip'.in) \subseteq Items(chip.in),
         \A x \in Items(chip'.owes) \cup Items(uart') :
           \/ x \in Items(chip.owes) \cup Items(uart)
           \/ x.kind # "RES"
           \/ \E c \in Items(chip.in) : x.fn = c.fn /\ x.call = c.of
  PROVE  Answering'
<1>1. /\ UNCHANGED <<call, fn, reading, txBuf, serBuf, pc>>
  BY DEF host
<1>2. InCall' = InCall /\ Received' = Received
  BY <1>1 DEF InCall, Returned, Received
<1>3. \A u \in InCall' : OwnBuffer(u)' /\ OwnCopy(u)'
  BY <1>1, <1>2 DEF Answering, OwnBuffer, OwnCopy
<1>4. Items(Arriving') = Items(chip'.owes) \cup Items(uart') \cup Items(Received)
  <2>1. chip'.owes \in Seq(Bytes)
    BY FramesAre DEF Chips, Bytes
  <2> QED
    BY <1>2, <2>1, Lined, ItemsOfThree DEF Arriving
<1>5. \A u \in InCall', x \in Items(Arriving') :
        x \in Items(Arriving) \/ ~IsResponse(x, fn[call[u]]) \/ x.call = call[u]
  BY <1>2, <1>4, Lined DEF Answering, OwnCommands, IsResponse
<1> QED
  BY <1>1, <1>2, <1>3, <1>5, AnsweringKept

LEMMA ChipNext ==
  ASSUME TypeInv'
  PROVE  chip' \in Chips /\ uart' \in Seq(Bytes)
BY DEF TypeInv, TypeOK, Chips, Commands, Bytes

LEMMA AnsweringChipTakes == ASSUME TypeInv, Answering, ChipTakes PROVE Answering'
<1> DEFINE c == Head(chip.in)
<1>1. PICK ok \in BOOLEAN :
        chip' = [chip EXCEPT
            !.in = Tail(chip.in),
            !.owes = IF Answers(c.fn) THEN Append(@, Res(c.fn, c.of, ok)) ELSE @,
            !.sending = IF c.fn = "SendData" /\ ok THEN c.of ELSE @]
  BY DEF ChipTakes, Granted
<1>2. /\ chip.in # <<>> /\ uart' = Append(uart, Ack) /\ UNCHANGED host
      /\ chip.in \in Seq(Commands) /\ chip.owes \in Seq(Responses) /\ chip \in Chips
      /\ uart \in Seq(Bytes) /\ Ack \in Bytes
  BY ChipFields, Lined DEF ChipTakes, Chip, Bytes
<1>3. c \in Commands /\ c \in Items(chip.in) /\ Items(Tail(chip.in)) \subseteq Items(chip.in)
  BY <1>2, ItemsOf
<1> HIDE DEF c
<1>4. Answers(c.fn) => Res(c.fn, c.of, ok) \in Responses
  <2>1. c.fn \in Funcs /\ c.of \in 1..Garbage
    BY <1>3 DEF Commands
  <2> QED
    BY <2>1, SerialHostAssumption DEF Answers, Responses
<1>5. /\ chip'.in = Tail(chip.in)
      /\ chip'.owes = IF Answers(c.fn) THEN Append(chip.owes, Res(c.fn, c.of, ok)) ELSE chip.owes
  BY <1>1, <1>2 DEF Chips
<1>6. \A x \in Items(chip'.owes) : x \in Items(chip.owes) \/ x = Res(c.fn, c.of, ok)
  BY <1>2, <1>4, <1>5, ItemsOf
<1>7. \A x \in Items(uart') : x \in Items(uart) \/ x = Ack
  BY <1>2, ItemsOf
<1>8. /\ Res(c.fn, c.of, ok).fn = c.fn /\ Res(c.fn, c.of, ok).call = c.of
      /\ Ack.kind # "RES"
  BY DEF Res, Ack
<1>9. \A x \in Items(chip'.owes) \cup Items(uart') :
           \/ x \in Items(chip.owes) \cup Items(uart)
           \/ x.kind # "RES"
           \/ \E d \in Items(chip.in) : x.fn = d.fn /\ x.call = d.of
  BY <1>3, <1>6, <1>7, <1>8
<1> QED
  BY <1>2, <1>3, <1>5, <1>9, TypeChipTakes, ChipNext, AnsweringChip

(* The other steps add nothing the chip does not owe but what is no         *)
(* response.                                                               *)
LEMMA AnsweringSends ==
  ASSUME TypeInv, TypeInv', Answering, UNCHANGED host,
         \/ chip'.in = chip.in
         \/ chip.in # <<>> /\ chip'.in = Tail(chip.in),
         \/ chip'.owes = chip.owes
         \/ chip.owes # <<>> /\ chip'.owes = Tail(chip.owes),
         NEW x \in Bytes,
         \/ x.kind # "RES"
         \/ chip.owes # <<>> /\ x = Head(chip.owes),
         uart' = uart \/ uart' = Append(uart, x)
  PROVE  Answering'
<1>1. chip.in \in Seq(Commands) /\ chip.owes \in Seq(Bytes) /\ uart \in Seq(Bytes)
  BY Lined
<1>2. Items(chip'.in) \subseteq Items(chip.in)
  BY <1>1, ItemsOf
<1>3. Items(chip'.owes) \subseteq Items(chip.owes) /\ (chip.owes # <<>> => Head(chip.owes) \in Items(chip.owes))
  BY <1>1, ItemsOf
<1>4. Items(uart') \subseteq Items(uart) \cup {x}
  <2>1. Items(Append(uart, x)) = Items(uart) \cup {x}
    BY <1>1, ItemsOf
  <2> QED
    BY <2>1
<1>5. \A y \in Items(chip'.owes) \cup Items(uart') :
        y \in Items(chip.owes) \cup Items(uart) \/ y.kind # "RES"
  BY <1>3, <1>4
<1> QED
  BY <1>2, <1>5, ChipNext, AnsweringChip

LEMMA AnsweringChips ==
  ASSUME TypeInv, Answering, ChipTakes \/ ChipAnswers \/ ChipDrops \/ ChipDone \/ ChipRequest
  PROVE  Answering'
<1>1. chip \in Chips /\ Ack \in Bytes /\ Nak \in Bytes /\ Nak.kind # "RES"
  BY ChipFields DEF Bytes, Nak
<1>2. CASE ChipAnswers
  <2>1. /\ chip.owes # <<>> /\ uart' = Append(uart, Head(chip.owes)) /\ UNCHANGED host
        /\ chip' = [chip EXCEPT !.owes = Tail(chip.owes)]
    BY <1>2 DEF ChipAnswers, Chip
  <2>2. chip'.in = chip.in /\ chip'.owes = Tail(chip.owes)
    BY <1>1, <2>1 DEF Chips
  <2>3. Head(chip.owes) \in Bytes
    BY <2>1, Lined
  <2> QED
    BY <1>2, <2>1, <2>2, <2>3, TypeChipAnswers, AnsweringSends
<1>3. CASE ChipDrops
  <2>1. /\ chip.in # <<>> /\ uart' \in {uart, Append(uart, Nak)} /\ UNCHANGED host
        /\ chip' = [chip EXCEPT !.in = Tail(chip.in)]
    BY <1>3 DEF ChipDrops, Chip
  <2>2. chip'.in = Tail(chip.in) /\ chip'.owes = chip.owes
    BY <1>1, <2>1 DEF Chips
  <2> QED
    BY <1>1, <1>3, <2>1, <2>2, TypeChipDrops, AnsweringSends
<1>4. CASE ChipDone
  <2>1. /\ uart' = Append(uart, Done(chip.sending)) /\ UNCHANGED host /\ chip.sending # 0
        /\ chip' = [chip EXCEPT !.sending = 0]
    BY <1>4 DEF ChipDone, Chip
  <2>2. chip'.in = chip.in /\ chip'.owes = chip.owes
    BY <1>1, <2>1 DEF Chips
  <2>3. Done(chip.sending) \in Bytes /\ Done(chip.sending).kind # "RES"
    BY <2>1, ChipFields, RoundsAre DEF Bytes, Frames, Requests, Garbage, Done
  <2> QED
    BY <1>4, <2>1, <2>2, <2>3, TypeChipDone, AnsweringSends
<1>5. CASE ChipRequest
  <2>1. uart' = Append(uart, Req(faults')) /\ UNCHANGED host /\ chip' = chip /\ Fault
    BY <1>5 DEF ChipRequest, Chip
  <2>2. Req(faults') \in Bytes /\ Req(faults').kind # "RES"
    BY <2>1, FaultTyped DEF Bytes, Frames, Requests, Req
  <2> QED
    BY <1>5, <2>1, <2>2, TypeChipRequest, AnsweringSends
<1> QED
  BY <1>2, <1>3, <1>4, <1>5, AnsweringChipTakes

-----------------------------------------------------------------------------
LEMMA HistoryGrows ==
  ASSUME TypeInv, [Next]_vars
  PROVE  hist \subseteq hist'
<1>1. ASSUME NEW t \in Threads, Run(t) PROVE hist \subseteq hist'
  <2>1. CASE Receive(t)
    BY <2>1 DEF Receive, SkipByte, ReadControl, ReadTimeout, ReadHead, ReadGood, ReadBad, CountFrame,
                HandleRequest, WalkQueue, LinkFrame, HandleResponse, CopyResponse, Handling, Record
  <2> QED
    BY <1>1, <2>1 DEF Run, Send, Retransmit, Result, Record
<1>2. ASSUME NEW t \in Threads, NEW f \in Funcs, Call(t, f) PROVE hist \subseteq hist'
  BY <1>2 DEF Call, Record
<1>3. ASSUME NEW t \in Threads, Acquire(t) PROVE hist \subseteq hist'
  BY <1>3 DEF Acquire, Lock, LockQuiet, Locking
<1>4. SerialAPI_Poll \/ PollDrain \/ UNCHANGED vars => hist \subseteq hist'
  BY DEF SerialAPI_Poll, Record, PollDrain, vars
<1>5. ChipTakes \/ ChipAnswers \/ ChipDrops \/ ChipDone \/ ChipRequest => hist \subseteq hist'
  BY DEF ChipTakes, ChipAnswers, ChipDrops, ChipDone, ChipRequest, Chip
<1> QED
  BY <1>1, <1>2, <1>3, <1>4, <1>5 DEF Next

LEMMA AnsweringNext == TypeInv /\ (Apart => Answering) /\ [Next]_vars => (Apart => Answering)'
<1> SUFFICES ASSUME TypeInv, Apart => Answering, [Next]_vars, Apart' PROVE Answering'
  OBVIOUS
<1>1. Answering /\ "raced" \notin hist' /\ "overlap" \notin hist' /\ "early" \notin hist'
  BY HistoryGrows DEF Apart
<1>2. ASSUME NEW t \in Threads, Run(t) PROVE Answering'
  BY <1>1, <1>2, AnsweringSend, AnsweringReceive, AnsweringResult DEF Run
<1>3. ASSUME NEW t \in Threads, Acquire(t) PROVE Answering'
  BY <1>1, <1>3, AnsweringAcquire
<1>4. ASSUME NEW t \in Threads, NEW f \in Funcs, Call(t, f) PROVE Answering'
  BY <1>1, <1>4, AnsweringCall
<1>5. CASE UNCHANGED vars
  BY <1>1, <1>5 DEF vars, host, Answering, Alone, OwnCommands, OwnResponses, OwnBuffer, OwnCopy,
                    InCall, Returned, Arriving, Received
<1>6. SerialAPI_Poll => Answering'
  BY <1>1, AnsweringPoll
<1>7. PollDrain => Answering'
  BY <1>1, AnsweringPollDrain
<1>8. ChipTakes \/ ChipAnswers \/ ChipDrops \/ ChipDone \/ ChipRequest => Answering'
  BY <1>1, AnsweringChips
<1> QED
  BY <1>2, <1>3, <1>4, <1>5, <1>6, <1>7, <1>8 DEF Next

LEMMA AnsweringInit == Init => Answering
<1> SUFFICES ASSUME Init PROVE Answering
  OBVIOUS
<1>1. InCall = {}
  BY DEF Init, InCall, Returned
<1> QED
  BY <1>1 DEF Answering, Alone

(* While calls do not overlap, follow each other too early or meet a poll   *)
(* that writes into sl_ser_buf, all that SendFrameWithResponse could take   *)
(* for its response carries the number of its call, on the whole way from   *)
(* the command to sl_ser_tx_buf.                                            *)
THEOREM AnsweringInvariance == Spec => [](Apart => Answering)
<1>1. Init => (Apart => Answering)
  BY AnsweringInit
<1> QED
  BY <1>1, AnsweringNext, TypeInvariance, PTL DEF Spec

(* Any number of calls and faults: sl_ser_tx_buf holds the answer to the    *)
(* parameters SendFrameWithResponse was given when it returns, under the    *)
(* conditions of OwnAnswer, although the receiver tells responses apart by  *)
(* their function only.                                                    *)
THEOREM OwnAnswerHolds == Spec => []OwnAnswer
<1>1. TypeInv /\ (Apart => Answering) => OwnAnswer
  <2> SUFFICES ASSUME TypeInv, Apart => Answering, NEW t \in Threads, pc[t] = "result",
                      hist \cap {"early", "overlap", "raced"} = {}
               PROVE  \/ txBuf = Res(fn[call[t]], call[t], TRUE)
                      \/ txBuf = Res(fn[call[t]], call[t], FALSE)
    BY DEF OwnAnswer
  <2>1. t \in InCall
    BY DEF InCall, Returned, TypeInv, Numbered, Transmitting
  <2>2. \E ok \in BOOLEAN : txBuf = Res(fn[call[t]], call[t], ok)
    BY <2>1 DEF Apart, Answering, OwnBuffer
  <2> QED
    BY <2>2
<1> QED
  BY <1>1, TypeInvariance, AnsweringInvariance, PTL

-----------------------------------------------------------------------------
(* One call at a time, and its own buffer.                                 *)
LEMMA SingleKept ==
  ASSUME Single, UNCHANGED <<fn, txBuf>>, InCall' \subseteq InCall,
         \A t \in InCall' : call'[t] = call[t] /\ (pc'[t] = "result" <=> pc[t] = "result"),
         \/ reading' # Copy
         \/ reading' = reading /\ serBuf' = serBuf /\ pc' = pc
  PROVE  Single'
<1>1. Alone'
  BY DEF Single, Alone
<1>2. ASSUME NEW t \in InCall' PROVE Filled(t)'
  <2>1. t \in InCall /\ Filled(t)
    BY <1>2 DEF Single
  <2>2. OwnCopy(t)'
    BY <1>2, <2>1 DEF Filled, OwnCopy
  <2> QED
    BY <1>2, <2>1, <2>2 DEF Filled
<1> QED
  BY <1>1, <1>2 DEF Single

(* The steps of a reception that look at no response.                      *)
LEMMA ListenerMoves ==
  ASSUME TypeInv, NEW t \in Threads,
         \/ SkipByte(t) \/ ReadControl(t) \/ ReadTimeout(t) \/ ReadHead(t) \/ ReadGood(t)
         \/ ReadBad(t) \/ HandleRequest(t) \/ LinkFrame(t)
  PROVE  /\ \E p \in Places \ {"result"} : pc' = [pc EXCEPT ![t] = p]
         /\ UNCHANGED <<call, fn, txBuf, chip, cbFunc>> /\ reading' # Copy
         /\ lock = t /\ pc[t] \in Listening
<1>1. UNCHANGED <<call, fn, txBuf, chip, cbFunc>> /\ lock = t
  BY DEF SkipByte, ReadControl, ReadTimeout, ReadHead, ReadGood, ReadBad, HandleRequest, LinkFrame,
         Receiving, ReadingBody, Handling
<1>2. pc[t] \in Listening
  <2>1. CASE SkipByte(t) \/ ReadControl(t) \/ ReadTimeout(t) \/ ReadHead(t)
    BY <2>1 DEF SkipByte, ReadControl, ReadTimeout, ReadHead, Receiving, Listening
  <2>2. CASE ReadGood(t) \/ ReadBad(t) \/ HandleRequest(t) \/ LinkFrame(t)
    <3>1. reading # NotReading
      BY <2>2
      DEF ReadGood, ReadBad, HandleRequest, Counting, LinkFrame, ReadingBody, NotReading, Checked
    <3> QED
      BY <1>1, <3>1, ReaderListens
  <2> QED
    BY <2>1, <2>2
<1>3. reading' # Copy
  BY DEF SkipByte, ReadControl, ReadTimeout, ReadHead, ReadGood, ReadBad, HandleRequest, LinkFrame,
         Receiving, NotReading, Copy, Checked, Body, Link
<1>4. \E p \in Places \ {"result"} : pc' = [pc EXCEPT ![t] = p]
  <2>1. pc[t] \in Places \ {"result"} /\ pc = [pc EXCEPT ![t] = pc[t]]
    BY <1>2, Now DEF Listening
  <2>2. CASE NextFrame(t) \/ NoFrame(t) \/ UNCHANGED pc
    BY <1>1, <1>2, <2>1, <2>2, NoFrameMoves, NextFrameMoves, PlacesAre DEF Moves, Holding
  <2>3. CASE ReadControl(t) /\ ~NoFrame(t)
    <3>1. \E p \in {"answer", "idle", "served"} : pc' = [pc EXCEPT ![t] = p]
      BY <2>3 DEF ReadControl, Unlocked, Home
    <3> QED
      BY <3>1 DEF Places
  <2> QED
    BY <2>2, <2>3
    DEF SkipByte, ReadTimeout, ReadHead, ReadGood, ReadBad, HandleRequest, LinkFrame
<1> QED
  BY <1>1, <1>2, <1>3, <1>4

LEMMA SingleReceive ==
  ASSUME TypeInv, Single, NEW t \in Threads, Receive(t)
  PROVE  Single'
<1>0. pc \in [Threads -> Places]
  BY Now
<1>1. CASE HandleResponse(t)
  <2>1. /\ UNCHANGED <<fn, call, txBuf, chip, serBuf>> /\ reading.at = "checked" /\ lock = t
        /\ reading # NotReading
    BY <1>1 DEF HandleResponse, Handling, Checked, NotReading
  <2>2. pc[t] \in Listening
    BY <2>1, ReaderListens
  <2>3. CASE Wanted(t)
    <3>1. UNCHANGED pc /\ reading' = Copy
      BY <1>1, <2>3 DEF HandleResponse
    <3>2. InCall' = InCall /\ t \in InCall
      BY <2>1, <2>3, <3>1 DEF Wanted, InCall, Returned, TypeInv, Numbered, Transmitting
    <3>3. \A u \in InCall : u = t
      BY <3>2 DEF Single, Alone
    <3>4. OwnCopy(t)'
      BY <2>1, <2>3, <3>1 DEF OwnCopy, Wanted
    <3> QED
      BY <2>1, <3>1, <3>2, <3>3, <3>4 DEF Single, Alone, Filled
  <2>4. CASE ~Wanted(t)
    <3>1. reading' = NotReading /\ NextFrame(t)
      BY <1>1, <2>4 DEF HandleResponse
    <3>2. PICK p \in Places \ {"result"} : pc' = [pc EXCEPT ![t] = p]
      BY <2>1, <2>2, <3>1, NextFrameMoves, PlacesAre DEF Moves, Holding
    <3> QED
      BY <1>0, <2>1, <2>2, <3>1, <3>2, SingleKept DEF InCall, Returned, Listening, NotReading, Copy
  <2> QED
    BY <2>3, <2>4
<1>2. CASE CopyResponse(t)
  <2>1. /\ UNCHANGED <<fn, call, serBuf>> /\ reading = Copy /\ lock = t
        /\ reading' = NotReading /\ txBuf' = serBuf /\ pc' = [pc EXCEPT ![t] = "result"]
    BY <1>2 DEF CopyResponse, Handling, Unlocked
  <2>2. pc[t] = "answer" /\ t \in InCall /\ serBuf \in Frames
    BY <2>1 DEF TypeInv, Reception, InCall, Returned, Numbered, Transmitting, Copy
  <2>3. serBuf \in Responses /\ IsResponse(serBuf, fn[call[t]])
    <3>1. IsResponse(serBuf, fn[call[t]])
      BY <2>1, <2>2 DEF Single, Filled, OwnCopy
    <3> QED
      BY <2>2, <3>1, FramesAre DEF IsResponse, IsRequest
  <2>4. InCall' = InCall /\ \A u \in InCall : u = t
    BY <1>0, <2>1, <2>2 DEF InCall, Returned, Single, Alone
  <2>5. Filled(t)'
    BY <1>0, <2>1, <2>3 DEF Filled, OwnCopy, NotReading, Copy
  <2> QED
    BY <2>4, <2>5 DEF Single, Alone
<1>3. CASE \/ SkipByte(t) \/ ReadControl(t) \/ ReadTimeout(t) \/ ReadHead(t) \/ ReadGood(t)
           \/ ReadBad(t) \/ HandleRequest(t) \/ LinkFrame(t)
  <2>1. PICK p \in Places \ {"result"} : pc' = [pc EXCEPT ![t] = p]
    BY <1>3, ListenerMoves
  <2>2. UNCHANGED <<call, fn, txBuf>> /\ reading' # Copy /\ pc[t] \in Listening
    BY <1>3, ListenerMoves
  <2> QED
    BY <1>0, <2>1, <2>2, SingleKept DEF InCall, Returned, Listening
<1>4. CASE WalkStep(t)
  BY <1>4, WalkStepIs, SingleKept DEF Walkless, InCall, Returned
<1> QED
  BY <1>1, <1>2, <1>3, <1>4 DEF Receive, WalkStep

LEMMA SingleNext == TypeInv /\ (Lone => Single) /\ [Next]_vars => (Lone => Single)'
<1> SUFFICES ASSUME TypeInv, Lone => Single, [Next]_vars, Lone' PROVE Single'
  OBVIOUS
<1>1. Single /\ "raced" \notin hist' /\ "overlap" \notin hist'
  BY HistoryGrows DEF Lone
<1>2. pc \in [Threads -> Places] /\ call \in [Threads -> 0..MaxCalls] /\ fn \in Seq(Funcs)
  BY Now DEF TypeInv, TypeOK
<1>3. ASSUME NEW t \in Threads, Send(t) \/ Retransmit(t) PROVE Single'
  <2>1. /\ UNCHANGED <<call, fn, txBuf, reading, serBuf>>
        /\ pc[t] \in {"send", "backoff"}
        /\ \E p \in {"ack", "served", "idle", "failed"} : pc' = [pc EXCEPT ![t] = p]
    BY <1>3 DEF Send, Retransmit, Transmit, Failed, Unlocked, Home
  <2>2. InCall' \subseteq InCall
    BY <1>2, <2>1 DEF InCall, Returned
  <2>3. reading # Copy
    <3>1. pc[t] \in Holding => lock = t
      BY DEF TypeInv, Control, LockHeld
    <3> QED
      BY <2>1, <3>1, Now DEF TypeInv, Reception
  <2> QED
    BY <1>1, <1>2, <2>1, <2>2, <2>3, SingleKept DEF InCall
<1>4. ASSUME NEW t \in Threads, Result(t) PROVE Single'
  <2>1. /\ UNCHANGED call /\ pc' = [pc EXCEPT ![t] = Home(t)] /\ pc[t] \in {"result", "failed"}
    BY <1>4 DEF Result
  <2>2. t \in InCall /\ InCall' \subseteq InCall \ {t}
    BY <1>2, <2>1 DEF InCall, Returned, Home, TypeInv, Numbered, Transmitting
  <2>3. InCall' = {}
    BY <1>1, <2>2 DEF Single, Alone
  <2> QED
    BY <2>3 DEF Single, Alone
<1>5. ASSUME NEW t \in Threads, Acquire(t) PROVE Single'
  <2>1. /\ UNCHANGED <<call, fn, reading, txBuf, serBuf>> /\ pc[t] = "lock"
        /\ \E p \in {"drain", "send", "poll"} : pc' = [pc EXCEPT ![t] = p]
        /\ lock = NoThread
    BY <1>5 DEF Acquire, Lock, LockQuiet, Locking
  <2>2. InCall' \subseteq InCall
    BY <1>2, <2>1 DEF InCall, Returned
  <2>3. reading # Copy
    BY <2>1, SerialHostAssumption DEF TypeInv, Reception, Copy, NotReading
  <2> QED
    BY <1>1, <1>2, <2>1, <2>2, <2>3, SingleKept DEF InCall
<1>6. ASSUME NEW t \in Threads, NEW f \in Funcs, Call(t, f) PROVE Single'
  <2>1. /\ UNCHANGED <<reading, serBuf>> /\ pc' = [pc EXCEPT ![t] = "lock"]
        /\ call' = [call EXCEPT ![t] = Len(fn')] /\ txBuf' = Params(Len(fn'))
    BY <1>6 DEF Call
  <2>2. InCall = {}
    BY <1>1, <1>6 DEF Call, Record
  <2>3. InCall' \subseteq {t}
    BY <1>2, <2>1, <2>2 DEF InCall, Returned
  <2>4. fn' = Append(fn, f) /\ Len(fn') \in 0..MaxCalls /\ call'[t] = Len(fn')
    <3>1. fn' = Append(fn, f) /\ Len(fn) < MaxCalls
      BY <1>6 DEF Call
    <3> QED
      BY <1>2, <2>1, <3>1, RoundsAre
  <2>5. reading' # Copy
    <3> SUFFICES ASSUME reading = Copy PROVE FALSE
      BY <2>1
    <3>1. PICK u \in Threads : lock = u /\ pc[u] = "answer"
      BY DEF TypeInv, Reception, Copy, NotReading
    <3>2. u \in InCall
      BY <3>1 DEF InCall, Returned, TypeInv, Numbered, Transmitting
    <3> QED
      BY <2>2, <3>2
  <2>6. Filled(t)'
    BY <1>2, <2>1, <2>4, <2>5 DEF Filled, OwnCopy
  <2> QED
    BY <2>3, <2>6 DEF Single, Alone
<1>7. SerialAPI_Poll => Single'
  <2> SUFFICES ASSUME SerialAPI_Poll PROVE Single'
    OBVIOUS
  <2>1. /\ UNCHANGED <<call, fn, reading, txBuf>> /\ pc[Sapi] = "poll" /\ Sapi \in Threads
        /\ pc' = [pc EXCEPT ![Sapi] = "served"]
    BY SerialHostAssumption DEF SerialAPI_Poll
  <2>2. reading = Copy => UNCHANGED serBuf
    BY <1>1 DEF SerialAPI_Poll, Record, Races, Copy
  <2>3. InCall' = InCall /\ \A u \in InCall : pc'[u] = pc[u]
    BY <1>2, <2>1 DEF InCall, Returned
  <2> QED
    BY <1>1, <2>1, <2>2, <2>3 DEF Single, Alone, Filled, OwnCopy
<1>8. PollDrain => Single'
  <2> SUFFICES ASSUME PollDrain PROVE Single'
    OBVIOUS
  <2>1. /\ UNCHANGED <<fn, reading, txBuf, serBuf>> /\ pc[Sapi] = "served" /\ Sapi \in Threads
        /\ pc' = [pc EXCEPT ![Sapi] = "lock"] /\ call' = [call EXCEPT ![Sapi] = 0]
    BY SerialHostAssumption DEF PollDrain
  <2>2. InCall' = InCall /\ \A u \in InCall : pc'[u] = pc[u] /\ call'[u] = call[u]
    BY <1>2, <2>1 DEF InCall, Returned
  <2> QED
    BY <1>1, <2>1, <2>2 DEF Single, Alone, Filled, OwnCopy
<1>9. CASE UNCHANGED host
  BY <1>1, <1>9, SingleKept DEF host, InCall, Returned
<1>10. ChipTakes \/ ChipAnswers \/ ChipDrops \/ ChipDone \/ ChipRequest \/ UNCHANGED vars => UNCHANGED host
  BY DEF ChipTakes, ChipAnswers, ChipDrops, ChipDone, ChipRequest, Chip, vars
<1> QED
  BY <1>1, <1>3, <1>4, <1>5, <1>6, <1>7, <1>8, <1>9, <1>10, SingleReceive DEF Next, Run

LEMMA SingleInit == Init => Single
<1> SUFFICES ASSUME Init PROVE Single
  OBVIOUS
<1>1. InCall = {}
  BY DEF Init, InCall, Returned
<1> QED
  BY <1>1 DEF Single, Alone

(* The same without regard to what is still on the way: sl_ser_tx_buf holds *)
(* the parameters of the one call there is until it holds a response of its *)
(* function.                                                                *)
THEOREM SingleInvariance == Spec => [](Lone => Single)
<1>1. Init => (Lone => Single)
  BY SingleInit
<1> QED
  BY <1>1, SingleNext, TypeInvariance, PTL DEF Spec

-----------------------------------------------------------------------------
(* What is on the way to sapi_t loses an item, or gains one at its end.     *)
Fewer(r, s) ==
  \A F : /\ FreeIn(s, F) => FreeIn(r, F)
         /\ OnceIn(s, F) => OnceIn(r, F)
         /\ \A G : OrderedIn(s, F, G) => OrderedIn(r, F, G)
Removal(r, s, x) ==
  /\ Fewer(r, s)
  /\ \A F : /\ x \notin F /\ FreeIn(r, F) => FreeIn(s, F)
            /\ x \in F /\ OnceIn(s, F) => FreeIn(r, F)
            /\ x \in F => ~FreeIn(s, F)
Extension(r, s, x) ==
  \A F : /\ FreeIn(r, F) <=> FreeIn(s, F) /\ x \notin F
         /\ OnceIn(s, F) /\ x \notin F => OnceIn(r, F)
         /\ FreeIn(s, F) => OnceIn(r, F)
         /\ \A G : /\ OrderedIn(s, F, G) /\ x \notin F => OrderedIn(r, F, G)
                   /\ FreeIn(r, G) => OrderedIn(r, F, G)

LEMMA RemovalIs ==
  ASSUME NEW s, NEW r, NEW n \in Nat \ {0}, DOMAIN s = 1..n, DOMAIN r = 1..n - 1, NEW k \in 1..n,
         \A i \in 1..n - 1 : r[i] = s[IF i < k THEN i ELSE i + 1]
  PROVE  Removal(r, s, s[k])
<1> DEFINE m(i) == IF i < k THEN i ELSE i + 1
<1>1. ASSUME NEW i \in DOMAIN r PROVE m(i) \in DOMAIN s /\ r[i] = s[m(i)] /\ m(i) # k
  BY <1>1
<1>2. ASSUME NEW i \in DOMAIN r, NEW j \in DOMAIN r
      PROVE  /\ m(i) = m(j) => i = j
             /\ m(i) < m(j) => i < j
  BY <1>2
<1>3. ASSUME NEW j \in DOMAIN s, j # k PROVE \E i \in DOMAIN r : m(i) = j
  <2>1. CASE j < k
    <3>1. j \in DOMAIN r /\ m(j) = j
      BY <1>3, <2>1
    <3> QED
      BY <3>1
  <2>2. CASE ~(j < k)
    <3>1. j - 1 \in DOMAIN r /\ m(j - 1) = j
      BY <1>3, <2>2
    <3> QED
      BY <3>1
  <2> QED
    BY <2>1, <2>2
<1>4. k \in DOMAIN s
  OBVIOUS
<1> HIDE DEF m
<1>5. ASSUME NEW F PROVE FreeIn(s, F) => FreeIn(r, F)
  BY <1>1 DEF FreeIn
<1>6. ASSUME NEW F PROVE OnceIn(s, F) => OnceIn(r, F)
  BY <1>1, <1>2 DEF OnceIn
<1>7. ASSUME NEW F, NEW G PROVE OrderedIn(s, F, G) => OrderedIn(r, F, G)
  BY <1>1, <1>2 DEF OrderedIn
<1>8. ASSUME NEW F, s[k] \notin F, FreeIn(r, F) PROVE FreeIn(s, F)
  BY <1>1, <1>3, <1>8 DEF FreeIn
<1>9. ASSUME NEW F, s[k] \in F, OnceIn(s, F) PROVE FreeIn(r, F)
  BY <1>1, <1>4, <1>9 DEF FreeIn, OnceIn
<1>10. ASSUME NEW F, s[k] \in F PROVE ~FreeIn(s, F)
  BY <1>4, <1>10 DEF FreeIn
<1>11. Fewer(r, s)
  BY <1>5, <1>6, <1>7 DEF Fewer
<1>12. ASSUME NEW F
       PROVE  /\ s[k] \notin F /\ FreeIn(r, F) => FreeIn(s, F)
              /\ s[k] \in F /\ OnceIn(s, F) => FreeIn(r, F)
              /\ s[k] \in F => ~FreeIn(s, F)
  BY <1>8, <1>9, <1>10
<1> QED
  BY <1>11, <1>12 DEF Removal

LEMMA WithoutItem ==
  ASSUME NEW a \in Seq(Bytes), NEW b \in Seq(Bytes), NEW x \in Bytes
  PROVE  Removal(a \o b, (a \o <<x>>) \o b, x)
<1> DEFINE ax == a \o <<x>>
           s == ax \o b
           r == a \o b
           n == Len(a) + 1 + Len(b)
           k == Len(a) + 1
<1>1. Len(a) \in Nat /\ Len(b) \in Nat /\ <<x>> \in Seq(Bytes) /\ Len(<<x>>) = 1 /\ <<x>>[1] = x
  BY LenProperties
<1>2. /\ ax \in Seq(Bytes) /\ Len(ax) = Len(a) + 1
      /\ \A i \in 1..Len(a) + 1 : ax[i] = IF i <= Len(a) THEN a[i] ELSE x
  <2>1. /\ ax \in Seq(Bytes) /\ Len(ax) = Len(a) + Len(<<x>>)
        /\ \A i \in 1..Len(a) + Len(<<x>>) : ax[i] = IF i <= Len(a) THEN a[i] ELSE <<x>>[i - Len(a)]
    BY <1>1, ConcatProperties
  <2>2. \A i \in 1..Len(a) + 1 : ~(i <= Len(a)) => i - Len(a) = 1
    BY <1>1
  <2> QED
    BY <1>1, <2>1, <2>2
<1> HIDE DEF ax
<1>3. /\ s \in Seq(Bytes) /\ Len(s) = Len(ax) + Len(b) /\ DOMAIN s = 1..Len(s)
      /\ \A i \in 1..Len(ax) + Len(b) : s[i] = IF i <= Len(ax) THEN ax[i] ELSE b[i - Len(ax)]
  BY <1>2, ConcatProperties, LenProperties
<1>4. /\ r \in Seq(Bytes) /\ Len(r) = Len(a) + Len(b) /\ DOMAIN r = 1..Len(r)
      /\ \A i \in 1..Len(a) + Len(b) : r[i] = IF i <= Len(a) THEN a[i] ELSE b[i - Len(a)]
  BY ConcatProperties, LenProperties
<1> HIDE DEF s, r
<1>5. /\ n \in Nat \ {0} /\ DOMAIN s = 1..n /\ DOMAIN r = 1..n - 1 /\ k \in 1..n
  BY <1>1, <1>2, <1>3, <1>4
<1>6. s[k] = x
  BY <1>1, <1>2, <1>3
<1>7. \A i \in 1..n - 1 : r[i] = s[IF i < k THEN i ELSE i + 1]
  <2> TAKE i \in 1..n - 1
  <2>1. CASE i <= Len(a)
    <3>1. i < k /\ i \in 1..Len(a) + Len(b) /\ i \in 1..Len(ax) + Len(b) /\ i <= Len(ax) /\ i \in 1..Len(a) + 1
      BY <1>1, <1>2, <2>1
    <3> QED
      BY <1>2, <1>3, <1>4, <2>1, <3>1
  <2>2. CASE ~(i <= Len(a))
    <3>1. /\ ~(i < k) /\ i \in 1..Len(a) + Len(b) /\ i + 1 \in 1..Len(ax) + Len(b)
          /\ ~(i + 1 <= Len(ax)) /\ (i + 1) - Len(ax) = i - Len(a)
      BY <1>1, <1>2, <2>2
    <3> QED
      BY <1>3, <1>4, <2>2, <3>1
  <2> QED
    BY <2>1, <2>2
<1> HIDE DEF n, k
<1>8. Removal(r, s, s[k])
  BY <1>5, <1>7, RemovalIs
<1> QED
  BY <1>6, <1>8 DEF r, s, ax

LEMMA ExtensionIs ==
  ASSUME NEW s \in Seq(Bytes), NEW x \in Bytes
  PROVE  Extension(Append(s, x), s, x)
<1> DEFINE r == Append(s, x)
           n == Len(s)
<1>1. /\ n \in Nat /\ DOMAIN s = 1..n /\ DOMAIN r = 1..n + 1
      /\ \A i \in 1..n : r[i] = s[i]
      /\ r[n + 1] = x
  <2>1. /\ r \in Seq(Bytes) /\ Len(r) = n + 1
        /\ \A i \in 1..n : r[i] = s[i]
        /\ r[n + 1] = x
    BY AppendProperties
  <2> QED
    BY <2>1, LenProperties
<1> HIDE DEF r, n
<1>2. \A i \in DOMAIN r :
        \/ i \in DOMAIN s /\ r[i] = s[i]
        \/ i = n + 1 /\ r[i] = x
  <2> TAKE i \in DOMAIN r
  <2>1. i \in 1..n \/ i = n + 1
    BY <1>1
  <2> QED
    BY <1>1, <2>1
<1>3. \A i \in DOMAIN s : i \in DOMAIN r /\ r[i] = s[i] /\ i < n + 1
  BY <1>1
<1>4. n + 1 \in DOMAIN r /\ r[n + 1] = x
  BY <1>1
<1>5. ASSUME NEW F PROVE FreeIn(r, F) <=> FreeIn(s, F) /\ x \notin F
  BY <1>2, <1>3, <1>4 DEF FreeIn
<1>6. ASSUME NEW F, OnceIn(s, F), x \notin F PROVE OnceIn(r, F)
  BY <1>2, <1>6 DEF OnceIn
<1>7. ASSUME NEW F, FreeIn(s, F) PROVE OnceIn(r, F)
  BY <1>2, <1>7 DEF OnceIn, FreeIn
<1>8. ASSUME NEW F, NEW G, OrderedIn(s, F, G), x \notin F PROVE OrderedIn(r, F, G)
  <2> SUFFICES ASSUME NEW i \in DOMAIN r, NEW j \in DOMAIN r, r[i] \in F, r[j] \in G PROVE i < j
    BY DEF OrderedIn
  <2>1. i \in DOMAIN s /\ r[i] = s[i] /\ i < n + 1
    BY <1>2, <1>3, <1>8
  <2> QED
    BY <1>2, <1>8, <2>1 DEF OrderedIn
<1>9. ASSUME NEW F, NEW G, FreeIn(r, G) PROVE OrderedIn(r, F, G)
  BY <1>9 DEF FreeIn, OrderedIn
<1>10. Extension(r, s, x)
  BY <1>5, <1>6, <1>7, <1>8, <1>9 DEF Extension
<1> QED
  BY <1>10 DEF r

LEMMA SameItems == \A s : Fewer(s, s)
BY DEF Fewer

(* The queue, the frame being received and what follows it, in one piece.   *)
LEMMA Regroup ==
  ASSUME NEW x \in Seq(Bytes), NEW y \in Seq(Bytes), NEW z \in Seq(Bytes)
  PROVE  (x \o y) \o z = x \o (y \o z) /\ y \o z \in Seq(Bytes)
BY ConcatAssociative, ConcatProperties

LEMMA Pieces ==
  ASSUME NEW q \in Seq(Bytes), NEW u \in Seq(Bytes), NEW f \in Bytes
  PROVE  /\ (q \o <<>>) \o (<<f>> \o u) = (q \o <<f>>) \o u
         /\ (Append(q, f) \o <<>>) \o u = (q \o <<f>>) \o u
         /\ (q \o <<>>) \o u = q \o u
         /\ Removal((q \o <<>>) \o u, (q \o <<f>>) \o u, f)
<1> DEFINE o == <<f>>
<1>1. o \in Seq(Bytes) /\ q \o <<>> = q
  BY ConcatEmptySeq
<1>2. Append(q, f) = q \o o /\ Append(q, f) \in Seq(Bytes)
  BY AppendIsConcat
<1>3. Removal(q \o u, (q \o o) \o u, f)
  BY WithoutItem
<1> HIDE DEF o
<1>5. q \o (o \o u) = (q \o o) \o u
  BY <1>1, ConcatAssociative
<1>6. (q \o o) \o <<>> = q \o o
  <2>1. q \o o \in Seq(Bytes)
    BY <1>1, ConcatProperties
  <2> DEFINE p == q \o o
  <2> HIDE DEF p
  <2>2. p \o <<>> = p
    BY <2>1, ConcatEmptySeq DEF p
  <2> QED
    BY <2>2 DEF p
<1> QED
  BY <1>1, <1>2, <1>3, <1>5, <1>6 DEF o

LEMMA Requeued ==
  ASSUME NEW q \in Seq(Bytes), NEW u \in Seq(Bytes), NEW f \in Bytes
  PROVE  (Append(q, f) \o <<>>) \o u = (q \o <<f>>) \o u
BY Pieces

LEMMA LongerTail ==
  ASSUME NEW p \in Seq(Bytes), NEW u \in Seq(Bytes), NEW f \in Bytes
  PROVE  p \o Append(u, f) = Append(p \o u, f)
<1> DEFINE o == <<f>>
<1>1. o \in Seq(Bytes) /\ Append(u, f) = u \o o
  BY AppendIsConcat
<1> HIDE DEF o
<1>2. (p \o u) \o o = p \o (u \o o)
  BY <1>1, Regroup, ZenonT(60)
<1> DEFINE w == p \o u
<1>3. w \in Seq(Bytes)
  BY ConcatProperties
<1> HIDE DEF w
<1>4. Append(w, f) = w \o o
  BY <1>3, AppendIsConcat DEF o
<1> QED
  BY <1>1, <1>2, <1>4 DEF w

LEMMA SplitHead ==
  ASSUME NEW q \in Seq(Bytes), q # <<>>
  PROVE  q = <<Head(q)>> \o Tail(q) /\ Head(q) \in Bytes /\ Tail(q) \in Seq(Bytes)
<1>1. Head(q) \in Bytes /\ Tail(q) \in Seq(Bytes)
  BY HeadTailProperties
<1> DEFINE h == Head(q)
           t == Tail(q)
           o == <<h>>
           w == o \o t
<1>2. o \in Seq(Bytes) /\ Len(o) = 1 /\ o[1] = h /\ t \in Seq(Bytes)
  BY <1>1
<1>3. /\ Len(t) = Len(q) - 1 /\ Len(q) \in Nat \ {0} /\ h = q[1]
      /\ \A i \in 1..Len(t) : t[i] = q[i + 1]
  BY HeadTailProperties, LenProperties, EmptySeq
<1> HIDE DEF h, t, o
<1>4. /\ w \in Seq(Bytes) /\ Len(w) = 1 + Len(t)
      /\ \A i \in 1..1 + Len(t) : w[i] = IF i <= 1 THEN o[i] ELSE t[i - 1]
  <2>1. /\ w \in Seq(Bytes) /\ Len(w) = Len(o) + Len(t)
        /\ \A i \in 1..Len(o) + Len(t) : w[i] = IF i <= Len(o) THEN o[i] ELSE t[i - Len(o)]
    BY <1>2, ConcatProperties
  <2> QED
    BY <1>2, <2>1
<1> HIDE DEF w
<1>5. \A i \in 1..Len(q) : w[i] = q[i]
  <2> TAKE i \in 1..Len(q)
  <2>1. CASE i = 1
    BY <1>2, <1>3, <1>4, <2>1
  <2>2. CASE i # 1
    <3>1. i - 1 \in 1..Len(t) /\ ~(i <= 1) /\ i \in 1..1 + Len(t) /\ (i - 1) + 1 = i
      BY <1>3, <2>2
    <3> QED
      BY <1>3, <1>4, <3>1
  <2> QED
    BY <2>1, <2>2
<1>6. w = q
  BY <1>3, <1>4, <1>5, SeqEqual
<1> QED
  BY <1>1, <1>6 DEF w, o, h, t

LEMMA PiecesHead ==
  ASSUME NEW q \in Seq(Bytes), NEW u \in Seq(Bytes), u # <<>>
  PROVE  /\ (q \o <<>>) \o u = (q \o <<Head(u)>>) \o Tail(u)
         /\ Removal((q \o <<>>) \o Tail(u), (q \o <<>>) \o u, Head(u))
         /\ Head(u) \in Bytes /\ Tail(u) \in Seq(Bytes)
<1> DEFINE f == Head(u)
           v == Tail(u)
<1>1. u = <<f>> \o v /\ f \in Bytes /\ v \in Seq(Bytes)
  BY SplitHead
<1> HIDE DEF f, v
<1>2. (q \o <<>>) \o (<<f>> \o v) = (q \o <<f>>) \o v
  BY <1>1, Pieces
<1>3. Removal((q \o <<>>) \o v, (q \o <<f>>) \o v, f)
  BY <1>1, Pieces
<1>4. (q \o <<>>) \o u = (q \o <<f>>) \o v
  BY <1>1, <1>2
<1> QED
  BY <1>1, <1>3, <1>4 DEF f, v

LEMMA PiecesFirst ==
  ASSUME NEW q \in Seq(Bytes), NEW h \in Seq(Bytes), NEW u \in Seq(Bytes), q # <<>>
  PROVE  Removal((Tail(q) \o h) \o u, (q \o h) \o u, Head(q))
<1> DEFINE f == Head(q)
           t == Tail(q)
           one == <<f>>
           none == <<>>
           th == t \o h
           thu == th \o u
<1>1. q = one \o t /\ f \in Bytes /\ t \in Seq(Bytes) /\ one \in Seq(Bytes) /\ none \in Seq(Bytes)
  BY SplitHead
<1>2. \A b \in Seq(Bytes) : Removal(none \o b, (none \o one) \o b, f)
  BY <1>1, WithoutItem
<1> HIDE DEF f, t
<1>3. none \o one = one /\ \A b \in Seq(Bytes) : none \o b = b
  BY <1>1, ConcatEmptySeq
<1> HIDE DEF one, none
<1>4. q \o h = one \o th /\ th \in Seq(Bytes)
  <2>1. one \in Seq(Bytes) /\ t \in Seq(Bytes)
    BY <1>1
  <2>2. (one \o t) \o h = one \o (t \o h) /\ t \o h \in Seq(Bytes)
    BY <2>1, Regroup, ZenonT(60)
  <2> QED
    BY <1>1, <2>2
<1> HIDE DEF th
<1>5. (q \o h) \o u = one \o thu /\ thu \in Seq(Bytes)
  <2>1. one \in Seq(Bytes) /\ th \in Seq(Bytes)
    BY <1>1, <1>4
  <2>2. (one \o th) \o u = one \o (th \o u) /\ th \o u \in Seq(Bytes)
    BY <2>1, Regroup, ZenonT(60)
  <2> QED
    BY <1>4, <2>2
<1> HIDE DEF thu
<1>6. Removal(thu, one \o thu, f)
  BY <1>2, <1>3, <1>5
<1> QED
  BY <1>5, <1>6 DEF thu, th, f, t

-----------------------------------------------------------------------------
(* The steps of a reception, as what they do to the stream.                *)
LEMMA StreamTyped ==
  ASSUME TypeInv
  PROVE  /\ rxQueue \in Seq(Bytes) /\ Received \in Seq(Bytes) /\ uart \in Seq(Bytes)
         /\ rxQueue \o Received \in Seq(Bytes) /\ Stream \in Seq(Bytes)
         /\ Requests \subseteq Bytes /\ Responses \subseteq Bytes /\ Controls \subseteq Bytes
<1>1. rxQueue \in Seq(Bytes)
  <2>1. Requests \subseteq Bytes
    BY FramesAre DEF Bytes
  <2> QED
    BY <2>1, Now, SeqMonotonic
<1>2. Received \in Seq(Bytes) /\ uart \in Seq(Bytes)
  BY Lined
<1>3. rxQueue \o Received \in Seq(Bytes)
  BY <1>1, <1>2, ConcatProperties
<1>4. Stream \in Seq(Bytes)
  <2> DEFINE p == rxQueue \o Received
  <2>1. p \in Seq(Bytes)
    BY <1>3
  <2> HIDE DEF p
  <2>2. p \o uart \in Seq(Bytes)
    BY <1>2, <2>1, ConcatProperties
  <2> QED
    BY <2>2 DEF Stream, p
<1> QED
  BY <1>1, <1>2, <1>3, <1>4, FramesAre DEF Bytes, Controls

LEMMA StreamControl ==
  ASSUME TypeInv, NEW t \in Threads, SkipByte(t) \/ ReadControl(t)
  PROVE  Removal(Stream', Stream, Head(uart)) /\ Head(uart) \in Controls
<1>1. /\ reading = NotReading /\ UNCHANGED <<reading, rxQueue, serBuf>>
      /\ uart # <<>> /\ uart' = Tail(uart) /\ ~IsFrame(Head(uart))
  BY DEF SkipByte, ReadControl, Receiving
<1>2. Received = <<>> /\ Received' = <<>>
  BY <1>1 DEF Received, NotReading
<1>3. Head(uart) \in Bytes /\ Removal((rxQueue \o <<>>) \o Tail(uart), (rxQueue \o <<>>) \o uart, Head(uart))
  BY <1>1, StreamTyped, PiecesHead
<1>4. Stream = (rxQueue \o <<>>) \o uart
  BY <1>2 DEF Stream
<1>5. Stream' = (rxQueue \o <<>>) \o Tail(uart)
  BY <1>1, <1>2 DEF Stream
<1>6. Head(uart) \in Controls
  BY <1>1, <1>3, FramesAre DEF Bytes, Controls
<1> QED
  BY <1>3, <1>4, <1>5, <1>6

LEMMA StreamHead ==
  ASSUME TypeInv, NEW t \in Threads, ReadHead(t)
  PROVE  Stream' = Stream
<1>1. /\ reading = NotReading /\ UNCHANGED rxQueue /\ reading' = Body(Head(uart))
      /\ uart # <<>> /\ uart' = Tail(uart)
  BY DEF ReadHead, Receiving
<1>2. Received = <<>> /\ Received' = <<Head(uart)>>
  BY <1>1 DEF Received, NotReading, Body
<1>3. (rxQueue \o <<>>) \o uart = (rxQueue \o <<Head(uart)>>) \o Tail(uart)
  BY <1>1, StreamTyped, PiecesHead
<1> QED
  BY <1>1, <1>2, <1>3 DEF Stream

LEMMA StreamBody ==
  ASSUME TypeInv, NEW t \in Threads, ReadGood(t) \/ ReadBad(t), Certain'
  PROVE  /\ Stream' = Stream
         /\ ReadBad(t) => pc[t] # "ack"
<1>1. /\ reading.at = "body" /\ UNCHANGED rxQueue /\ reading.frame \in Bytes
      /\ Received = <<reading.frame>>
  BY ReceivedIs DEF ReadGood, ReadBad, ReadingBody, Bytes
<1>2. CASE ReadGood(t)
  <2>1. uart' = uart /\ reading' = Checked /\ serBuf' = reading.frame
    BY <1>2 DEF ReadGood, Certain, Record
  <2> QED
    BY <1>1, <1>2, <2>1 DEF Stream, Received, Checked, ReadGood, ReadBad, NotReading
<1>3. CASE ReadBad(t)
  <2>1. /\ uart' = <<reading.frame>> \o uart /\ reading' = NotReading /\ pc[t] # "ack"
    BY <1>3 DEF ReadBad, Certain, Record
  <2>2. Received' = <<>>
    BY <2>1 DEF Received, NotReading
  <2>3. (rxQueue \o <<>>) \o (<<reading.frame>> \o uart) = (rxQueue \o <<reading.frame>>) \o uart
    BY <1>1, StreamTyped, Pieces
  <2> QED
    BY <1>1, <2>1, <2>2, <2>3 DEF Stream
<1> QED
  BY <1>2, <1>3

(* The frame received is dropped, or queued.                               *)
LEMMA StreamDropped ==
  ASSUME TypeInv, Received' = <<>>, UNCHANGED <<rxQueue, uart>>, NEW f \in Bytes, Received = <<f>>
  PROVE  Removal(Stream', Stream, f)
<1>0. rxQueue \in Seq(Bytes) /\ uart \in Seq(Bytes)
  BY StreamTyped
<1>1. Removal((rxQueue \o <<>>) \o uart, (rxQueue \o <<f>>) \o uart, f)
  BY <1>0, Pieces
<1> QED
  BY <1>1 DEF Stream

LEMMA StreamQueued ==
  ASSUME TypeInv, Received' = <<>>, UNCHANGED uart, NEW f \in Bytes, Received = <<f>>,
         rxQueue' = Append(rxQueue, f)
  PROVE  Stream' = Stream
<1>0. rxQueue \in Seq(Bytes) /\ uart \in Seq(Bytes)
  BY StreamTyped
<1>1. (Append(rxQueue, f) \o <<>>) \o uart = (rxQueue \o <<f>>) \o uart
  BY <1>0, Requeued
<1> QED
  BY <1>1 DEF Stream

LEMMA StreamRequest ==
  ASSUME TypeInv, NEW t \in Threads, HandleRequest(t) \/ LinkFrame(t)
  PROVE  \/ Stream' = Stream
         \/ \E f \in Requests : Removal(Stream', Stream, f)
<1>1. CASE HandleRequest(t)
  <2>1. /\ reading = Checked /\ serBuf \in Requests /\ UNCHANGED <<uart, serBuf>>
        /\ Received = <<serBuf>> /\ serBuf \in Bytes
    BY <1>1, FramesAre, StreamTyped
    DEF HandleRequest, Counting, Handling, Checked, TypeInv, Reception, Received
  <2>2. CASE walk.len < QueueLen
    <3>1. reading' = Link(serBuf) /\ rxQueue' = rxQueue
      BY <1>1, <2>2 DEF HandleRequest
    <3> QED
      BY <2>1, <3>1 DEF Stream, Received, Link
  <2>3. CASE ~(walk.len < QueueLen)
    <3>1. reading' = NotReading /\ rxQueue' = rxQueue
      BY <1>1, <2>3 DEF HandleRequest
    <3>2. Received' = <<>>
      BY <3>1 DEF Received, NotReading
    <3> QED
      BY <2>1, <3>1, <3>2, StreamDropped
  <2> QED
    BY <2>2, <2>3
<1>2. CASE LinkFrame(t)
  <2>1. /\ reading.at = "link" /\ UNCHANGED uart /\ reading' = NotReading
        /\ rxQueue' = IF walk.freed THEN rxQueue ELSE Append(rxQueue, reading.frame)
        /\ reading.frame \in Requests
    BY <1>2, ReadingIs DEF LinkFrame, Handling, TypeInv
  <2>2. Received = <<reading.frame>> /\ Received' = <<>> /\ reading.frame \in Bytes
    BY <2>1, StreamTyped DEF Received, NotReading
  <2>3. CASE walk.freed
    BY <2>1, <2>2, <2>3, StreamDropped
  <2>4. CASE ~walk.freed
    BY <2>1, <2>2, <2>4, StreamQueued
  <2> QED
    BY <2>3, <2>4
<1> QED
  BY <1>1, <1>2

LEMMA StreamResponse ==
  ASSUME TypeInv, NEW t \in Threads, HandleResponse(t) \/ CopyResponse(t)
  PROVE  /\ HandleResponse(t) /\ Wanted(t) => Stream' = Stream
         /\ HandleResponse(t) /\ ~Wanted(t) => Removal(Stream', Stream, serBuf) /\ serBuf \in Responses
         /\ CopyResponse(t) => Removal(Stream', Stream, serBuf)
<1>1. /\ reading \in {Checked, Copy} /\ serBuf \in Frames /\ UNCHANGED <<uart, rxQueue, serBuf>>
      /\ Received = <<serBuf>> /\ serBuf \in Bytes
  BY DEF HandleResponse, CopyResponse, Handling, Checked, Copy, TypeInv, Reception, Received, Bytes
<1>2. HandleResponse(t) /\ Wanted(t) => Stream' = Stream
  <2>1. HandleResponse(t) /\ Wanted(t) => reading' = Copy
    BY DEF HandleResponse
  <2>2. reading' = Copy => Received' = <<serBuf>>
    BY <1>1 DEF Received, Copy
  <2> QED
    BY <1>1, <2>1, <2>2 DEF Stream
<1>3. HandleResponse(t) => serBuf \in Responses
  BY <1>1, FramesAre DEF HandleResponse
<1>4. reading' = NotReading => Removal(Stream', Stream, serBuf)
  <2>1. reading' = NotReading => Received' = <<>>
    BY DEF Received, NotReading
  <2> QED
    BY <1>1, <2>1, StreamDropped
<1> QED
  BY <1>2, <1>3, <1>4 DEF HandleResponse, CopyResponse

LEMMA StreamPoll ==
  ASSUME TypeInv, SerialAPI_Poll, "raced" \notin hist'
  PROVE  \/ rxQueue = <<>> /\ Stream' = Stream
         \/ /\ rxQueue # <<>> /\ rxQueue' = Tail(rxQueue)
            /\ Removal(Stream', Stream, Head(rxQueue)) /\ Head(rxQueue) \in Requests
<1>1. UNCHANGED <<reading, uart>>
  BY DEF SerialAPI_Poll
<1>2. UNCHANGED serBuf \/ ~Races
  BY DEF SerialAPI_Poll, Record
<1>3. Received' = Received
  BY <1>1, <1>2, ReadingIs DEF Received, Races, TypeInv
<1>4. CASE rxQueue = <<>>
  <2>1. UNCHANGED rxQueue
    BY <1>4 DEF SerialAPI_Poll
  <2> QED
    BY <1>1, <1>3, <1>4, <2>1 DEF Stream
<1>5. CASE rxQueue # <<>>
  <2>1. rxQueue' = Tail(rxQueue) /\ Head(rxQueue) \in Requests
    BY <1>5, Now DEF SerialAPI_Poll
  <2>2. Removal((Tail(rxQueue) \o Received) \o uart, (rxQueue \o Received) \o uart, Head(rxQueue))
    BY <1>5, StreamTyped, PiecesFirst
  <2> QED
    BY <1>1, <1>3, <1>5, <2>1, <2>2 DEF Stream
<1> QED
  BY <1>4, <1>5

LEMMA StreamChip ==
  ASSUME TypeInv, UNCHANGED host, NEW x \in Bytes, uart' = Append(uart, x)
  PROVE  Extension(Stream', Stream, x)
<1>1. UNCHANGED rxQueue /\ Received' = Received
  BY DEF host, Received
<1> DEFINE p == rxQueue \o Received
<1>2. p \in Seq(Bytes) /\ uart \in Seq(Bytes)
  BY StreamTyped
<1>3. Stream' = Append(Stream, x)
  <2>1. Stream = p \o uart /\ Stream' = p \o Append(uart, x)
    BY <1>1 DEF Stream
  <2> HIDE DEF p
  <2>2. p \o Append(uart, x) = Append(p \o uart, x)
    BY <1>2, LongerTail
  <2> QED
    BY <2>1, <2>2
<1> QED
  BY <1>3, StreamTyped, ExtensionIs

-----------------------------------------------------------------------------
(* What the line carries.                                                  *)
LEMMA FreeParts ==
  /\ \A s : FreeIn(s, Controls \cup Responses) <=> FreeIn(s, Controls) /\ FreeIn(s, Responses)
  /\ \A s : FreeIn(s, Controls) => FreeIn(s, {Ack})
  /\ \A s : FreeIn(s, Responses) => FreeIn(s, Refusals)
  /\ \A s, c : FreeIn(s, Dones) => FreeIn(s, Dones \ {Done(c)}) /\ OnceIn(s, Dones)
  /\ \A s, F : FreeIn(s, F) => OnceIn(s, F)
  /\ Requests \cap (Controls \cup Responses) = {} /\ Controls \cap Responses = {}
  /\ Dones \subseteq Requests /\ Refusals \subseteq Responses
<1>1. Requests \cap (Controls \cup Responses) = {} /\ Controls \cap Responses = {}
  BY DEF Requests, Controls, Responses, Req, Done, Res, Ack, Nak
<1>2. Dones \subseteq Requests /\ Refusals \subseteq Responses
  <2>1. \A c \in 1..Garbage, ok \in BOOLEAN : Res("SendData", c, ok) \in Responses
    BY DEF Responses
  <2>2. \A c \in 1..Garbage : Res("SendData", c, FALSE) \in Responses
    BY <2>1, Zenon
  <2> QED
    BY <2>2 DEF Requests, Dones, Refusals
<1>3. /\ \A s : FreeIn(s, Controls \cup Responses) <=> FreeIn(s, Controls) /\ FreeIn(s, Responses)
      /\ \A s : FreeIn(s, Controls) => FreeIn(s, {Ack})
      /\ \A s, c : FreeIn(s, Dones) => FreeIn(s, Dones \ {Done(c)}) /\ OnceIn(s, Dones)
      /\ \A s, F : FreeIn(s, F) => OnceIn(s, F)
  BY DEF FreeIn, OnceIn, Controls
<1>4. \A s : FreeIn(s, Responses) => FreeIn(s, Refusals)
  BY <1>2 DEF FreeIn
<1> QED
  BY <1>1, <1>2, <1>3, <1>4

(* A step that takes nothing from the chip and adds nothing to the stream.  *)
Calm ==
  /\ UNCHANGED <<chip, fn>> /\ Fewer(Stream', Stream)
  /\ FreeIn(Stream', {Ack}) => Free({Ack})
  /\ cbFunc' = cbFunc \/ ~NoTransmission

LEMMA CalmKeeps ==
  ASSUME Calm
  PROVE  /\ \A F : Free(F) => FreeIn(Stream', F)
         /\ Quiet => Quiet'
         /\ NoTransmission => NoTransmission'
         /\ GaveUp => GaveUp'
         /\ AwaitsAnswer => AwaitsAnswer'
         /\ \A t : call'[t] = call[t] =>
              /\ Started(t) => Started(t)'
              /\ Unanswered(t) => Unanswered(t)'
              /\ AwaitsAck(t) /\ needAck' => AwaitsAck(t)'
<1>1. /\ \A F : Free(F) => FreeIn(Stream', F)
      /\ \A F : Once(F) => OnceIn(Stream', F)
      /\ \A F, G : OrderedIn(Stream, F, G) => OrderedIn(Stream', F, G)
      /\ chip' = chip /\ fn' = fn
  BY DEF Calm, Fewer, Free, Once
<1>2. Quiet => Quiet'
  BY <1>1 DEF Quiet, Free
<1>3. NoTransmission => NoTransmission'
  BY <1>1 DEF NoTransmission, Free
<1>4. GaveUp => GaveUp'
  BY <1>1 DEF GaveUp, Free
<1>5. OneResponse => OneResponse'
  BY <1>1 DEF OneResponse, Free, Once
<1>6. AwaitsAnswer => AwaitsAnswer'
  BY <1>1, <1>5 DEF AwaitsAnswer, Free
<1>7. ASSUME NEW t, call'[t] = call[t], Started(t) PROVE Started(t)'
  BY <1>1, <1>3, <1>7 DEF Started, Calm
<1>8. ASSUME NEW t, call'[t] = call[t], Unanswered(t) PROVE Unanswered(t)'
  BY <1>1, <1>7, <1>8 DEF Unanswered, Free
<1>9. ASSUME NEW t, call'[t] = call[t], AwaitsAck(t), needAck' PROVE AwaitsAck(t)'
  <2>1. OneResponse' /\ Once(Controls)' /\ OrderedIn(Stream, {Ack}, Responses)'
    BY <1>1, <1>5, <1>9 DEF AwaitsAck, Once
  <2>2. (Free({Ack}) => Unanswered(t))'
    BY <1>8, <1>9 DEF AwaitsAck, Calm, Free
  <2>3. (chip.in # <<>> => chip.in[1] = [fn |-> fn[call[t]], of |-> call[t]] /\ Free(Controls))'
    BY <1>1, <1>9 DEF AwaitsAck, Free
  <2>4. (~Answers(fn[call[t]]) => chip.owes = <<>> /\ Free(Responses))'
    BY <1>1, <1>9 DEF AwaitsAck, Free
  <2> QED
    BY <1>1, <1>9, <2>1, <2>2, <2>3, <2>4 DEF AwaitsAck
<1> QED
  BY <1>1, <1>2, <1>3, <1>4, <1>6, <1>7, <1>8, <1>9

LEMMA CalmRefused ==
  ASSUME Calm, Refused, UNCHANGED txBuf,
         \A t \in Threads : pc'[t] = "result" => pc[t] = "result"
  PROVE  Refused'
<1>1. CASE NoTransmission
  BY <1>1, CalmKeeps DEF Refused
<1>2. CASE NoRefusal
  <2>1. NoRefusal'
    BY <1>2, CalmKeeps DEF NoRefusal, Calm, Free
  <2> QED
    BY <2>1 DEF Refused
<1> QED
  BY <1>1, <1>2 DEF Refused

LEMMA CalmTransmission ==
  ASSUME Calm, Transmission, UNCHANGED cbFunc
  PROVE  Transmission'
<1>1. FreeIn(Stream', Dones \ {Done(cbFunc)}) /\ (Free(Dones) => FreeIn(Stream', Dones))
  BY CalmKeeps DEF Transmission
<1>2. OnceIn(Stream', Dones)
  BY DEF Calm, Fewer, Transmission, Once
<1> QED
  BY <1>1, <1>2 DEF Transmission, Calm, Free, Once

(* The threads that are in a call are one; a caller that gave up does not   *)
(* hold the lock, and leaves no command behind.                            *)
LEMMA Caller ==
  ASSUME TypeInv, Single, NEW t \in Threads, call[t] # 0, ~Returned(t)
  PROVE  \A u \in Threads : ~Returned(u) /\ call[u] # 0 => u = t
BY DEF Single, Alone, InCall

LEMMA InTransmission ==
  ASSUME TypeInv, NEW t \in Threads, pc[t] \in Transmitting
  PROVE  call[t] # 0 /\ ~Returned(t) /\ t \in InCall
BY DEF TypeInv, Numbered, Transmitting, Returned, InCall

LEMMA QuietBefore ==
  ASSUME TypeInv, Single, Line, NEW t \in Threads, call[t] # 0,
         pc[t] \in {"lock", "drain", "send", "backoff", "result"},
         lock = NoThread \/ lock = t \/ pc[t] = "result"
  PROVE  Quiet
<1>1. ~Returned(t)
  BY DEF Returned
<1>2. ASSUME NEW u \in Threads, pc[u] \in {"ack", "answer", "failed"} PROVE FALSE
  <2>1. call[u] # 0 /\ ~Returned(u)
    BY <1>2, InTransmission DEF Transmitting
  <2>2. u = t
    BY <1>1, <2>1, Caller
  <2> QED
    BY <1>2, <2>2
<1> QED
  BY <1>2 DEF Line

LEMMA NoControls ==
  ASSUME TypeInv, Single, Line, NEW t \in Threads, lock = t, pc[t] \in {"drain", "answer"}
  PROVE  Free(Controls)
<1>1. CASE \E u \in Threads : pc[u] = "failed"
  BY <1>1 DEF Line, GaveUp
<1>2. CASE pc[t] = "answer"
  BY <1>2 DEF Line, AwaitsAnswer
<1>3. CASE pc[t] = "drain" /\ \A u \in Threads : pc[u] # "failed"
  <2>1. \A u \in Threads : pc[u] \notin {"ack", "answer"}
    BY <1>3, SerialHostAssumption DEF TypeInv, Control, LockHeld, Holding
  <2>2. Quiet
    BY <1>3, <2>1 DEF Line
  <2> QED
    BY <2>2, FreeParts DEF Quiet, Free
<1> QED
  BY <1>1, <1>2, <1>3

(* The moves that need no news from the chip.                              *)
LEMMA LineMoves ==
  ASSUME TypeInv, Single, Line, Calm, NEW t \in Threads, NEW p \in Places,
         pc' = [pc EXCEPT ![t] = p], UNCHANGED call,
         needAck' = needAck \/ \A u \in Threads : pc[u] # "ack",
         \/ p = pc[t]
         \/ pc[t] = "answer" /\ p = "failed"
         \/ pc[t] \in {"lock", "drain"} /\ p = "poll"
         \/ pc[t] = "lock" /\ p = "drain"
         \/ pc[t] = "poll" /\ p = "served"
         \/ /\ pc[t] \in {"lock", "drain"} /\ p = "send" /\ call[t] # 0
            /\ lock = NoThread \/ lock = t
  PROVE  Line'
<1>1. /\ pc \in [Threads -> Places] /\ pc'[t] = p
      /\ \A u \in Threads \ {t} : pc'[u] = pc[u]
  BY Now
<1>2. ASSUME \A u \in Threads : pc'[u] \notin {"ack", "answer", "failed"} PROVE Quiet'
  <2>1. \A u \in Threads : pc[u] \notin {"ack", "answer", "failed"}
    BY <1>1, <1>2
  <2> QED
    BY <2>1, CalmKeeps DEF Line
<1>3. ASSUME NEW u \in Threads
      PROVE  /\ (pc[u] = "ack" => AwaitsAck(u))'
             /\ (pc[u] = "answer" => AwaitsAnswer)'
             /\ (pc[u] = "failed" => GaveUp)'
             /\ (pc[u] \in {"send", "backoff"} => Unanswered(u))'
             /\ (pc[u] \in {"lock", "drain"} /\ call[u] # 0 => Started(u))'
  <2>1. CASE pc'[u] = pc[u]
    <3>1. pc[u] = "ack" => AwaitsAck(u) /\ needAck'
      <4> SUFFICES ASSUME pc[u] = "ack" PROVE AwaitsAck(u) /\ needAck'
        OBVIOUS
      <4>1. AwaitsAck(u)
        BY DEF Line
      <4>2. needAck
        BY <4>1 DEF AwaitsAck
      <4>3. needAck' = needAck
        OBVIOUS
      <4> QED
        BY <4>1, <4>2, <4>3
    <3> QED
      BY <2>1, <3>1, CalmKeeps DEF Line
  <2>2. CASE u = t /\ pc[t] = "answer" /\ p = "failed"
    <3>1. AwaitsAnswer
      BY <2>2 DEF Line
    <3>2. GaveUp
      BY <3>1 DEF AwaitsAnswer, GaveUp
    <3> QED
      BY <1>1, <2>2, <3>2, CalmKeeps
  <2>3. CASE u = t /\ p \in {"poll", "served"}
    BY <1>1, <2>3
  <2>4. CASE u = t /\ pc[t] = "lock" /\ p = "drain"
    BY <1>1, <2>4, CalmKeeps DEF Line
  <2>5. CASE /\ u = t /\ pc[t] \in {"lock", "drain"} /\ p = "send" /\ call[t] # 0
             /\ lock = NoThread \/ lock = t
    <3>1. Quiet /\ Started(t)
      BY <2>5, QuietBefore DEF Line
    <3>2. Unanswered(t)
      BY <3>1, FreeParts DEF Quiet, Unanswered, Free
    <3> QED
      BY <1>1, <2>5, <3>2, CalmKeeps
  <2> QED
    BY <1>1, <2>1, <2>2, <2>3, <2>4, <2>5
<1> QED
  BY <1>2, <1>3 DEF Line

LEMMA FollowingMoves ==
  ASSUME TypeInv, Single, Following, Calm, NEW t \in Threads, NEW p \in Places,
         pc' = [pc EXCEPT ![t] = p], UNCHANGED <<call, txBuf, cbFunc>>,
         needAck' = needAck \/ \A u \in Threads : pc[u] # "ack",
         \/ p = pc[t]
         \/ pc[t] = "answer" /\ p = "failed"
         \/ pc[t] \in {"lock", "drain"} /\ p = "poll"
         \/ pc[t] = "lock" /\ p = "drain"
         \/ pc[t] = "poll" /\ p = "served"
         \/ /\ pc[t] \in {"lock", "drain"} /\ p = "send" /\ call[t] # 0
            /\ lock = NoThread \/ lock = t
  PROVE  Following'
<1>1. Line'
  BY LineMoves DEF Following
<1>2. Transmission'
  BY CalmTransmission DEF Following
<1>3. \A u \in Threads : pc'[u] = "result" => pc[u] = "result"
  BY Now
<1>4. Refused'
  BY <1>3, CalmRefused DEF Following
<1> QED
  BY <1>1, <1>2, <1>4 DEF Following

LEMMA CalmIs ==
  ASSUME UNCHANGED <<chip, fn, cbFunc>>,
         \/ Stream' = Stream
         \/ \E x \in Requests \cup Responses : Removal(Stream', Stream, x)
  PROVE  Calm
<1>1. CASE Stream' = Stream
  <2>1. Fewer(Stream', Stream)
    BY <1>1, SameItems
  <2> QED
    BY <1>1, <2>1 DEF Calm, Free
<1>2. CASE \E x \in Requests \cup Responses : Removal(Stream', Stream, x)
  <2>1. PICK x \in Requests \cup Responses : Removal(Stream', Stream, x)
    BY <1>2
  <2>2. x \notin {Ack}
    BY FreeParts DEF Controls
  <2> QED
    BY <2>1, <2>2 DEF Calm, Removal, Free
<1> QED
  BY <1>1, <1>2

(* The owner listens on, or gives up.                                      *)
LEMMA FollowingListens ==
  ASSUME TypeInv, Single, Following, Calm, NEW t \in Threads, lock = t, pc[t] \in Listening,
         UNCHANGED <<call, txBuf, cbFunc>>,
         \/ UNCHANGED <<pc, needAck>>
         \/ NextFrame(t) /\ UNCHANGED needAck
         \/ NoFrame(t) /\ pc[t] # "ack"
  PROVE  Following'
<1>1. pc \in [Threads -> Places] /\ pc[t] \in Places
  BY Now
<1>2. CASE UNCHANGED <<pc, needAck>>
  <2>1. pc' = [pc EXCEPT ![t] = pc[t]]
    BY <1>1, <1>2
  <2> QED
    BY <1>1, <1>2, <2>1, FollowingMoves
<1>3. CASE NextFrame(t) /\ UNCHANGED needAck
  <2>1. PICK p \in {"drain", "ack", "answer", "failed"} :
          /\ Moves(t, p)
          /\ pc[t] \in {"drain", "ack"} => p = pc[t]
          /\ pc[t] = "answer" => p \in {"answer", "failed"}
    BY <1>3, NextFrameMoves
  <2>2. p \in Places /\ (p = pc[t] \/ (pc[t] = "answer" /\ p = "failed"))
    BY <2>1 DEF Listening, Places
  <2>3. pc' = [pc EXCEPT ![t] = p]
    BY <2>1 DEF Moves
  <2> QED
    BY <1>3, <2>2, <2>3, FollowingMoves
<1>4. CASE NoFrame(t) /\ pc[t] # "ack"
  <2>1. PICK p \in {"poll", "send", "backoff", "answer", "failed"} :
          /\ Moves(t, p)
          /\ pc[t] = "drain" => p = IF call[t] = 0 THEN "poll" ELSE "send"
          /\ pc[t] = "ack" => p = "backoff"
          /\ pc[t] = "answer" => p \in {"answer", "failed"}
    BY <1>4, NoFrameMoves
  <2>2. /\ p \in Places /\ pc' = [pc EXCEPT ![t] = p]
    BY <2>1 DEF Moves, Places
  <2>3. \A u \in Threads : pc[u] # "ack"
    BY <1>4 DEF TypeInv, Control, LockHeld, Holding
  <2>4. CASE pc[t] = "drain" /\ call[t] = 0
    BY <2>1, <2>2, <2>3, <2>4, FollowingMoves
  <2>5. CASE pc[t] = "drain" /\ call[t] # 0
    BY <2>1, <2>2, <2>3, <2>5, FollowingMoves
  <2>6. CASE pc[t] = "answer"
    BY <2>1, <2>2, <2>3, <2>6, FollowingMoves
  <2> QED
    BY <1>4, <2>4, <2>5, <2>6 DEF Listening
<1> QED
  BY <1>2, <1>3, <1>4

(* No answer to the command: it is sent again, or the ACK is taken.        *)
LEMMA FollowingBackoff ==
  ASSUME TypeInv, Single, Following, Fewer(Stream', Stream), FreeIn(Stream', Controls),
         chip.in = <<>>, Free({Ack}), NEW t \in Threads, pc[t] = "ack",
         pc' = [pc EXCEPT ![t] = "backoff"], UNCHANGED <<chip, fn, call, txBuf, cbFunc>>
  PROVE  Following'
<1>1. Calm
  BY DEF Calm
<1>2. AwaitsAck(t)
  BY DEF Following, Line
<1>3. Unanswered(t)
  BY <1>2 DEF AwaitsAck
<1>4. Quiet'
  <2>1. FreeIn(Stream', Responses)
    BY <1>1, <1>3, CalmKeeps DEF Unanswered
  <2> QED
    BY <1>3, <2>1, FreeParts DEF Quiet, Unanswered, Free
<1>5. Unanswered(t)'
  BY <1>1, <1>3, CalmKeeps
<1>6. pc \in [Threads -> Places] /\ call[t] # 0 /\ ~Returned(t)
  BY Now, InTransmission DEF Transmitting
<1>7. \A u \in Threads \ {t} : pc'[u] = pc[u] /\ (call[u] = 0 \/ Returned(u))
  BY <1>6, Caller
<1>8. Line'
  <2>1. ASSUME NEW u \in Threads \ {t}
        PROVE  /\ pc'[u] \notin {"ack", "answer", "failed", "send", "backoff"}
               /\ pc'[u] \in {"lock", "drain"} => call'[u] = 0
    BY <1>7, InTransmission DEF Transmitting, Returned
  <2> QED
    BY <1>4, <1>5, <1>6, <2>1 DEF Line
<1>9. \A u \in Threads : pc'[u] = "result" => pc[u] = "result"
  BY <1>6
<1> QED
  BY <1>1, <1>8, <1>9, CalmRefused, CalmTransmission DEF Following

LEMMA FollowingControl ==
  ASSUME TypeInv, Single, Following, NEW t \in Threads, SkipByte(t) \/ ReadControl(t)
  PROVE  Following'
<1> DEFINE x == Head(uart)
<1>1. Removal(Stream', Stream, x) /\ x \in Controls
  BY StreamControl
<1> HIDE DEF x
<1>2. /\ UNCHANGED <<call, fn, txBuf, chip, cbFunc>> /\ lock = t
      /\ pc[t] \in {"drain", "ack", "answer"} /\ Line
  BY DEF SkipByte, ReadControl, Receiving, Following
<1>3. ~Free(Controls)
  BY <1>1 DEF Removal, Free
<1>4. pc[t] = "ack" /\ AwaitsAck(t)
  BY <1>2, <1>3, NoControls DEF Line
<1>5. ReadControl(t)
  <2>1. needAck
    BY <1>4 DEF AwaitsAck
  <2> QED
    BY <2>1 DEF SkipByte
<1>6. chip.in = <<>> /\ FreeIn(Stream', Controls) /\ Fewer(Stream', Stream)
  BY <1>1, <1>3, <1>4 DEF AwaitsAck, Removal, Once
<1>7. pc \in [Threads -> Places] /\ call[t] # 0 /\ ~Returned(t)
  BY <1>4, Now, InTransmission DEF Transmitting
<1>8. CASE x = Ack
  <2>1. pc' = [pc EXCEPT ![t] = IF Answers(fn[call[t]]) THEN "answer" ELSE Home(t)]
    BY <1>4, <1>5, <1>8 DEF ReadControl, Unlocked, x
  <2>2. OneResponse'
    BY <1>2, <1>4, <1>6 DEF AwaitsAck, OneResponse, Fewer, Free, Once
  <2>3. \A u \in Threads \ {t} : pc'[u] = pc[u] /\ (call[u] = 0 \/ Returned(u))
    BY <1>7, <2>1, Caller
  <2>4. ASSUME NEW u \in Threads \ {t}
        PROVE  /\ pc'[u] \notin {"ack", "answer", "failed", "send", "backoff"}
               /\ pc'[u] \in {"lock", "drain"} => call'[u] = 0
    BY <1>2, <2>3, InTransmission DEF Transmitting, Returned
  <2>5. Line'
    <3>1. CASE Answers(fn[call[t]])
      <4>1. AwaitsAnswer'
        BY <1>2, <1>6, <2>2 DEF AwaitsAnswer, Free
      <4>2. pc'[t] = "answer"
        BY <1>7, <2>1, <3>1
      <4> QED
        BY <2>4, <4>1, <4>2 DEF Line
    <3>2. CASE ~Answers(fn[call[t]])
      <4>1. pc'[t] \in {"served", "idle"}
        BY <1>7, <2>1, <3>2 DEF Home
      <4>2. chip.owes = <<>> /\ FreeIn(Stream', Responses)
        BY <1>4, <1>6, <3>2 DEF AwaitsAck, Free, Fewer
      <4>3. Quiet'
        BY <1>2, <1>6, <4>2, FreeParts DEF Quiet, Free
      <4> QED
        BY <2>4, <4>1, <4>3 DEF Line
    <3> QED
      BY <3>1, <3>2
  <2>6. Transmission'
    <3>1. /\ OnceIn(Stream', Dones) /\ FreeIn(Stream', Dones \ {Done(cbFunc)})
          /\ Free(Dones) => FreeIn(Stream', Dones)
      BY <1>6 DEF Following, Transmission, Fewer, Free, Once
    <3> QED
      BY <1>2, <3>1 DEF Following, Transmission, Free, Once
  <2>7. Refused'
    <3>1. \A u \in Threads : pc'[u] = "result" => pc[u] = "result"
      BY <1>7, <2>1 DEF Home
    <3>2. NoTransmission => NoTransmission'
      BY <1>2, <1>6 DEF NoTransmission, Fewer, Free
    <3>3. NoRefusal => NoRefusal'
      BY <1>2, <1>6, <3>1 DEF NoRefusal, Fewer, Free
    <3> QED
      BY <3>2, <3>3 DEF Following, Refused
  <2> QED
    BY <2>5, <2>6, <2>7 DEF Following
<1>9. CASE x # Ack
  <2>1. NoFrame(t)
    BY <1>5, <1>9 DEF ReadControl, x
  <2>2. pc' = [pc EXCEPT ![t] = "backoff"]
    BY <1>2, <1>4, <2>1, NoFrameMoves DEF Moves, Listening
  <2>3. Free({Ack})
    <3>1. FreeIn(Stream', {Ack})
      BY <1>6, FreeParts
    <3>2. x \notin {Ack}
      BY <1>9
    <3> QED
      BY <1>1, <3>1, <3>2 DEF Removal, Free
  <2> QED
    BY <1>2, <1>4, <1>6, <2>2, <2>3, FollowingBackoff
<1> QED
  BY <1>8, <1>9

LEMMA FollowingTimeout ==
  ASSUME TypeInv, Single, Following, NEW t \in Threads, ReadTimeout(t), Certain'
  PROVE  Following'
<1>1. /\ UNCHANGED <<call, fn, txBuf, chip, cbFunc, rxQueue, uart, reading, serBuf>> /\ lock = t
      /\ uart = <<>> /\ pc[t] \in Listening /\ NoFrame(t) /\ ~Late(t) /\ reading = NotReading
  BY DEF ReadTimeout, Receiving, Listening, Certain, Record
<1>2. Stream' = Stream /\ Calm
  <2>1. Stream' = Stream
    BY <1>1 DEF Stream, Received
  <2> QED
    BY <1>1, <2>1, CalmIs
<1>3. CASE pc[t] # "ack"
  BY <1>1, <1>2, <1>3, FollowingListens
<1>4. CASE pc[t] = "ack"
  <2>1. chip.in = <<>>
    BY <1>1, <1>4 DEF Late
  <2>2. FreeIn(Stream, Controls)
    <3>1. Stream = rxQueue
      <4>1. Received = <<>>
        BY <1>1 DEF Received, NotReading
      <4>2. rxQueue \o <<>> = rxQueue
        BY StreamTyped, ConcatEmptySeq
      <4> QED
        BY <1>1, <4>1, <4>2 DEF Stream
    <3>2. \A i \in DOMAIN rxQueue : rxQueue[i] \in Requests
      BY Now
    <3> QED
      BY <3>1, <3>2, FreeParts DEF FreeIn
  <2>3. pc' = [pc EXCEPT ![t] = "backoff"]
    BY <1>1, <1>4, NoFrameMoves DEF Moves
  <2>4. Free({Ack}) /\ FreeIn(Stream', Controls) /\ Fewer(Stream', Stream)
    BY <1>2, <2>2, FreeParts, SameItems DEF Free
  <2> QED
    BY <1>1, <1>4, <2>1, <2>3, <2>4, FollowingBackoff
<1> QED
  BY <1>3, <1>4

LEMMA FollowingFrame ==
  ASSUME TypeInv, Single, Following, NEW t \in Threads, Certain',
         \/ ReadHead(t) \/ ReadGood(t) \/ ReadBad(t) \/ HandleRequest(t) \/ LinkFrame(t)
         \/ HandleResponse(t)
  PROVE  Following'
<1>1. CASE ReadHead(t)
  <2>1. /\ UNCHANGED <<call, fn, txBuf, chip, cbFunc, pc, needAck>> /\ lock = t /\ pc[t] \in Listening
    BY <1>1 DEF ReadHead, Receiving, Listening
  <2> QED
    BY <1>1, <2>1, StreamHead, CalmIs, FollowingListens
<1>2. CASE ReadGood(t) \/ ReadBad(t)
  <2>1. /\ UNCHANGED <<call, fn, txBuf, chip, cbFunc, needAck>> /\ lock = t /\ reading # NotReading
        /\ ReadGood(t) => UNCHANGED pc
        /\ ReadBad(t) => NoFrame(t)
    BY <1>2 DEF ReadGood, ReadBad, ReadingBody, NotReading
  <2>2. pc[t] \in Listening
    BY <2>1, ReaderListens
  <2> QED
    BY <1>2, <2>1, <2>2, StreamBody, CalmIs, FollowingListens
<1>3. CASE HandleRequest(t) \/ LinkFrame(t)
  <2>1. /\ UNCHANGED <<call, fn, txBuf, chip, cbFunc, needAck>> /\ lock = t /\ reading # NotReading
        /\ NextFrame(t) \/ UNCHANGED pc
    BY <1>3 DEF HandleRequest, Counting, LinkFrame, Handling, NotReading, Checked
  <2>2. pc[t] \in Listening
    BY <2>1, ReaderListens
  <2>3. Calm
    BY <1>3, <2>1, StreamRequest, CalmIs
  <2> QED
    BY <2>1, <2>2, <2>3, FollowingListens
<1>4. CASE HandleResponse(t)
  <2>1. /\ UNCHANGED <<call, fn, txBuf, chip, cbFunc, needAck>> /\ lock = t /\ reading # NotReading
        /\ NextFrame(t) \/ UNCHANGED pc
    BY <1>4 DEF HandleResponse, Handling, NotReading, Checked
  <2>2. pc[t] \in Listening
    BY <2>1, ReaderListens
  <2>3. Calm
    BY <1>4, <2>1, StreamResponse, CalmIs
  <2> QED
    BY <2>1, <2>2, <2>3, FollowingListens
<1> QED
  BY <1>1, <1>2, <1>3, <1>4

(* The response is taken: nothing more is to come.                         *)
LEMMA FollowingCopy ==
  ASSUME TypeInv, Single, Following, NEW t \in Threads, CopyResponse(t)
  PROVE  Following'
<1>1. /\ UNCHANGED <<call, fn, chip, cbFunc, serBuf>> /\ lock = t /\ reading = Copy
      /\ txBuf' = serBuf /\ pc' = [pc EXCEPT ![t] = "result"]
      /\ Removal(Stream', Stream, serBuf)
  BY StreamResponse DEF CopyResponse, Handling, Unlocked
<1>2. /\ pc[t] = "answer" /\ call[t] # 0 /\ ~Returned(t) /\ t \in InCall /\ serBuf \in Frames
      /\ pc \in [Threads -> Places]
  BY <1>1, Now, InTransmission DEF TypeInv, Reception, Transmitting
<1>3. serBuf \in Responses
  <2>1. IsResponse(serBuf, fn[call[t]])
    BY <1>1, <1>2 DEF Single, Filled, OwnCopy
  <2> QED
    BY <1>2, <2>1, FramesAre DEF IsResponse, IsRequest
<1>4. Calm
  BY <1>1, <1>3, CalmIs
<1>5. AwaitsAnswer
  BY <1>2 DEF Following, Line
<1>6. chip.owes = <<>> /\ FreeIn(Stream', Responses)
  BY <1>1, <1>3, <1>5 DEF AwaitsAnswer, OneResponse, Removal, Free, Once
<1>7. Quiet'
  <2>1. FreeIn(Stream', Controls)
    BY <1>4, <1>5, CalmKeeps DEF AwaitsAnswer
  <2> QED
    BY <1>1, <1>5, <1>6, <2>1, FreeParts DEF Quiet, AwaitsAnswer, Free
<1>8. Line'
  <2>1. \A u \in Threads \ {t} : pc'[u] = pc[u] /\ (call[u] = 0 \/ Returned(u))
    BY <1>1, <1>2, Caller
  <2>2. ASSUME NEW u \in Threads \ {t}
        PROVE  /\ pc'[u] \notin {"ack", "answer", "failed", "send", "backoff"}
               /\ pc'[u] \in {"lock", "drain"} => call'[u] = 0
    BY <1>1, <2>1, InTransmission DEF Transmitting, Returned
  <2> QED
    BY <1>1, <1>2, <1>7, <2>2 DEF Line
<1>9. Refused'
  <2>1. CASE NoTransmission
    BY <1>4, <2>1, CalmKeeps DEF Refused
  <2>2. CASE NoRefusal
    <3>1. serBuf \notin Refusals
      BY <1>1, <2>2 DEF Removal, NoRefusal, Free
    <3>2. FreeIn(Stream', Refusals) /\ FreeIn(chip'.owes, Refusals)
      BY <1>1, <1>4, <2>2, CalmKeeps DEF NoRefusal
    <3> QED
      BY <1>1, <3>1, <3>2 DEF NoRefusal, Refused, Free
  <2> QED
    BY <2>1, <2>2 DEF Following, Refused
<1>10. Transmission'
  BY <1>1, <1>4, CalmTransmission DEF Following
<1> QED
  BY <1>8, <1>9, <1>10 DEF Following

LEMMA FollowingWalkStep ==
  ASSUME TypeInv, Single, Following, NEW t \in Threads, WalkStep(t)
  PROVE  Following'
<1>1. /\ UNCHANGED <<call, fn, txBuf, chip, cbFunc, needAck, pc, rxQueue, uart, serBuf>>
      /\ UNCHANGED reading /\ reading # NotReading /\ lock = t
  <2>1. reading # NotReading /\ lock = t
    <3>1. CASE CountFrame(t)
      BY <3>1 DEF CountFrame, Handling, Counting, NotReading, Checked
    <3>2. CASE WalkQueue(t)
      BY <3>2 DEF WalkQueue, Handling, NotReading
    <3> QED
      BY <3>1, <3>2 DEF WalkStep
  <2> QED
    BY <2>1, WalkStepIs DEF Walkless
<1>2. Stream' = Stream
  BY <1>1 DEF Stream, Received
<1>3. pc[t] \in Listening
  BY <1>1, ReaderListens
<1> QED
  BY <1>1, <1>2, <1>3, CalmIs, FollowingListens

LEMMA FollowingReceive ==
  ASSUME TypeInv, Single, Following, NEW t \in Threads, Receive(t), Certain'
  PROVE  Following'
BY FollowingControl, FollowingTimeout, FollowingFrame, FollowingCopy, FollowingWalkStep
DEF Receive, WalkStep

-----------------------------------------------------------------------------
(* The other steps.                                                        *)
LEMMA FollowingAcquire ==
  ASSUME TypeInv, Single, Following, NEW t \in Threads, Acquire(t)
  PROVE  Following'
<1>1. /\ UNCHANGED <<call, fn, txBuf, chip, cbFunc, needAck, rxQueue, uart, reading, serBuf>>
      /\ pc[t] = "lock" /\ lock = NoThread
  BY DEF Acquire, Lock, LockQuiet, Locking
<1>2. \/ pc' = [pc EXCEPT ![t] = "drain"]
      \/ pc' = [pc EXCEPT ![t] = "poll"]
      \/ pc' = [pc EXCEPT ![t] = "send"] /\ call[t] # 0
  BY DEF Acquire, Lock, LockQuiet
<1>3. Calm
  <2>1. Stream' = Stream
    BY <1>1 DEF Stream, Received
  <2> QED
    BY <1>1, <2>1, CalmIs
<1>4. {"drain", "poll", "send"} \subseteq Places
  BY DEF Places
<1>5. CASE pc' = [pc EXCEPT ![t] = "drain"]
  BY <1>1, <1>3, <1>4, <1>5, FollowingMoves
<1>6. CASE pc' = [pc EXCEPT ![t] = "poll"]
  BY <1>1, <1>3, <1>4, <1>6, FollowingMoves
<1>7. CASE pc' = [pc EXCEPT ![t] = "send"] /\ call[t] # 0
  BY <1>1, <1>3, <1>4, <1>7, FollowingMoves
<1> QED
  BY <1>2, <1>5, <1>6, <1>7

LEMMA FollowingPollDrain ==
  ASSUME TypeInv, Single, Following, PollDrain
  PROVE  Following'
<1>1. /\ UNCHANGED <<fn, txBuf, chip, cbFunc, needAck, rxQueue, uart, reading, serBuf>>
      /\ pc[Sapi] = "served" /\ Sapi \in Threads /\ pc' = [pc EXCEPT ![Sapi] = "lock"]
      /\ call' = [call EXCEPT ![Sapi] = 0]
      /\ pc \in [Threads -> Places] /\ call \in [Threads -> 0..MaxCalls]
  BY SerialHostAssumption, Now DEF PollDrain, TypeInv, TypeOK
<1>2. Calm
  <2>1. Stream' = Stream
    BY <1>1 DEF Stream, Received
  <2> QED
    BY <1>1, <2>1, CalmIs
<1>3. /\ \A u \in Threads \ {Sapi} : pc'[u] = pc[u] /\ call'[u] = call[u]
      /\ pc'[Sapi] = "lock" /\ call'[Sapi] = 0
  BY <1>1
<1>4. ASSUME \A u \in Threads : pc'[u] \notin {"ack", "answer", "failed"} PROVE Quiet'
  <2>1. \A u \in Threads : pc[u] \notin {"ack", "answer", "failed"}
    BY <1>1, <1>3, <1>4
  <2> QED
    BY <1>2, <2>1, CalmKeeps DEF Following, Line
<1>5. ASSUME NEW u \in Threads \ {Sapi}
      PROVE  /\ (pc[u] = "ack" => AwaitsAck(u))'
             /\ (pc[u] = "answer" => AwaitsAnswer)'
             /\ (pc[u] = "failed" => GaveUp)'
             /\ (pc[u] \in {"send", "backoff"} => Unanswered(u))'
             /\ (pc[u] \in {"lock", "drain"} /\ call[u] # 0 => Started(u))'
  <2>1. pc[u] = "ack" => AwaitsAck(u) /\ needAck'
    <3> SUFFICES ASSUME pc[u] = "ack" PROVE AwaitsAck(u) /\ needAck'
      OBVIOUS
    <3>1. AwaitsAck(u)
      BY DEF Following, Line
    <3>2. needAck
      BY <3>1 DEF AwaitsAck
    <3>3. needAck' = needAck
      BY <1>1
    <3> QED
      BY <3>1, <3>2, <3>3
  <2> QED
    BY <1>2, <1>3, <2>1, CalmKeeps DEF Following, Line
<1>6. Line'
  BY <1>3, <1>4, <1>5 DEF Line
<1>7. \A u \in Threads : pc'[u] = "result" => pc[u] = "result"
  BY <1>1
<1> QED
  BY <1>1, <1>2, <1>6, <1>7, CalmRefused, CalmTransmission DEF Following

(* The callback that is dispatched is the only one, and the chip transmits  *)
(* nothing any more.                                                       *)
LEMMA FollowingPoll ==
  ASSUME TypeInv, Single, Following, SerialAPI_Poll, Certain'
  PROVE  Following'
<1>1. /\ UNCHANGED <<call, fn, txBuf, chip, needAck>> /\ pc[Sapi] = "poll" /\ Sapi \in Threads
      /\ pc' = [pc EXCEPT ![Sapi] = "served"] /\ pc \in [Threads -> Places] /\ "served" \in Places
  BY SerialHostAssumption, Now DEF SerialAPI_Poll, Places
<1>2. "raced" \notin hist'
  BY DEF Certain
<1>3. CASE UNCHANGED cbFunc
  <2>1. Calm
    BY <1>1, <1>2, <1>3, StreamPoll, CalmIs
  <2> QED
    BY <1>1, <1>3, <2>1, FollowingMoves
<1>4. CASE ~UNCHANGED cbFunc
  <2> DEFINE f == Head(rxQueue)
  <2>1. rxQueue # <<>> /\ IsDone(f) /\ cbFunc' = 0
    BY <1>4 DEF SerialAPI_Poll
  <2>2. Removal(Stream', Stream, f) /\ f \in Requests
    BY <1>2, <2>1, StreamPoll
  <2> HIDE DEF f
  <2>3. f \in Dones
    BY <2>1, <2>2 DEF IsDone, Requests, Dones, Req, Done
  <2>4. ~Free(Dones) /\ FreeIn(Stream', Dones) /\ f \in Requests \cup Responses /\ f \notin {Ack}
    BY <2>2, <2>3, FreeParts DEF Removal, Following, Transmission, Free, Once, Controls
  <2>5. Calm
    BY <1>1, <2>2, <2>4 DEF Calm, NoTransmission, Removal, Free
  <2>6. Transmission'
    BY <1>1, <2>4, FreeParts DEF Following, Transmission, Free, Once
  <2>7. Line'
    BY <1>1, <2>5, LineMoves DEF Following
  <2>8. Refused'
    BY <1>1, <2>5, CalmRefused DEF Following
  <2> QED
    BY <2>6, <2>7, <2>8 DEF Following
<1> QED
  BY <1>3, <1>4

LEMMA Bystanders ==
  ASSUME TypeInv, Single, NEW t \in Threads, call[t] # 0, ~Returned(t), UNCHANGED call,
         \A u \in Threads \ {t} : pc'[u] = pc[u]
  PROVE  \A u \in Threads \ {t} :
           /\ pc'[u] \notin {"ack", "answer", "failed", "send", "backoff", "result"}
           /\ pc'[u] \in {"lock", "drain"} => call'[u] = 0
<1> SUFFICES ASSUME NEW u \in Threads \ {t}
             PROVE  /\ pc[u] \notin {"ack", "answer", "failed", "send", "backoff", "result"}
                    /\ pc[u] \in {"lock", "drain"} => call[u] = 0
  OBVIOUS
<1>1. call[u] = 0 \/ Returned(u)
  BY Caller
<1> QED
  BY <1>1, InTransmission DEF Transmitting, Returned

(* A command is on its way, to a chip that has nothing else to do for the   *)
(* host.                                                                   *)
LEMMA FollowingSend ==
  ASSUME TypeInv, Single, Following, NEW t \in Threads, Send(t) \/ Retransmit(t), Certain'
  PROVE  Following'
<1>1. /\ UNCHANGED <<call, fn, reading, serBuf, txBuf, cbFunc, rxQueue, uart>>
      /\ chip' = [chip EXCEPT !.in = Append(chip.in, Command(t))]
      /\ pc[t] \in {"send", "backoff"} /\ pc' = [pc EXCEPT ![t] = "ack"]
      /\ pc \in [Threads -> Places]
  BY Now DEF Send, Retransmit, Transmit, Record, Certain
<1>2. needAck'
  BY DEF Send, Retransmit, Transmit
<1>3. lock = t /\ call[t] # 0 /\ ~Returned(t) /\ t \in InCall
  BY <1>1, InTransmission DEF TypeInv, Control, LockHeld, Holding, Transmitting
<1>4. Quiet /\ Unanswered(t)
  BY <1>1, <1>3, QuietBefore DEF Following, Line
<1>5. Command(t) = [fn |-> fn[call[t]], of |-> call[t]] /\ Command(t) \in Commands
  <2>1. txBuf = Params(call[t])
    BY <1>1, <1>3 DEF Single, Filled
  <2> QED
    BY <1>3, <2>1, CommandTyped DEF Command, Params
<1>6. /\ chip'.in = Append(chip.in, Command(t)) /\ chip'.owes = chip.owes
      /\ chip'.sending = chip.sending
  BY <1>1, ChipFields DEF Chips
<1>7. Stream' = Stream
  BY <1>1 DEF Stream, Received
<1>8. Free(Controls)' /\ Free(Responses)' /\ Once(Controls)' /\ Once(Responses)'
  BY <1>4, <1>7, FreeParts DEF Quiet, Free, Once
<1>9. Unanswered(t)'
  <2>1. Started(t)'
    BY <1>1, <1>4, <1>6, <1>7 DEF Unanswered, Started, NoTransmission, Free
  <2> QED
    BY <1>4, <1>6, <1>8, <2>1 DEF Unanswered
<1>10. AwaitsAck(t)'
  <2>1. Len(chip'.in) = 1 /\ chip'.in[1] = [fn |-> fn'[call'[t]], of |-> call'[t]]
    <3>1. chip'.in = Append(<<>>, Command(t))
      BY <1>4, <1>6 DEF Quiet
    <3> QED
      BY <1>1, <1>5, <3>1
  <2>2. OneResponse'
    BY <1>4, <1>6, <1>8 DEF Quiet, OneResponse
  <2>3. OrderedIn(Stream, {Ack}, Responses)'
    BY <1>8 DEF OrderedIn, Free, FreeIn
  <2>4. chip'.owes = <<>>
    BY <1>4, <1>6 DEF Quiet
  <2> QED
    BY <1>2, <1>8, <1>9, <2>1, <2>2, <2>3, <2>4 DEF AwaitsAck
<1>11. Line'
  <2>1. pc'[t] = "ack" /\ \A u \in Threads \ {t} : pc'[u] = pc[u]
    BY <1>1
  <2>2. \A u \in Threads \ {t} :
           /\ pc'[u] \notin {"ack", "answer", "failed", "send", "backoff", "result"}
           /\ pc'[u] \in {"lock", "drain"} => call'[u] = 0
    BY <1>1, <1>3, <2>1, Bystanders
  <2> QED
    BY <1>10, <2>1, <2>2 DEF Line
<1>12. Transmission'
  BY <1>1, <1>6, <1>7 DEF Following, Transmission, Free, Once
<1>13. Refused'
  <2>1. NoTransmission => NoTransmission'
    BY <1>6, <1>7 DEF NoTransmission, Free
  <2>2. NoRefusal => NoRefusal'
    BY <1>1, <1>6, <1>7 DEF NoRefusal, Free
  <2> QED
    BY <2>1, <2>2 DEF Following, Refused
<1> QED
  BY <1>11, <1>12, <1>13 DEF Following

LEMMA DonesDiffer ==
  /\ \A c, d : Done(c) = Done(d) => c = d
  /\ \A c \in 1..Garbage : c # 0
<1>1. ASSUME NEW c, NEW d, Done(c) = Done(d) PROVE c = d
  <2>1. Done(c).call = c /\ Done(d).call = d
    BY DEF Done
  <2> QED
    BY <1>1, <2>1
<1> QED
  BY <1>1

(* A call that meets no other finds the line quiet, and the chip without a  *)
(* transmission when it is to start one.                                   *)
LEMMA FollowingCall ==
  ASSUME TypeInv, Single, Following, NEW t \in Threads, NEW f \in Funcs, Call(t, f), Certain'
  PROVE  Following'
<1>1. /\ UNCHANGED <<reading, uart, chip, serBuf, rxQueue>> /\ pc' = [pc EXCEPT ![t] = "lock"]
      /\ call' = [call EXCEPT ![t] = Len(fn')] /\ fn' = Append(fn, f)
      /\ cbFunc' = (IF f = "SendData" THEN Len(fn') ELSE cbFunc)
      /\ pc \in [Threads -> Places] /\ call \in [Threads -> 0..MaxCalls] /\ fn \in Seq(Funcs)
  BY Now DEF Call, TypeInv, TypeOK
<1>2. InCall = {} /\ (f = "SendData" => cbFunc = 0)
  BY DEF Call, Record, Certain, Emergency
<1>3. /\ call'[t] = Len(fn') /\ fn'[call'[t]] = f
      /\ pc'[t] = "lock" /\ \A u \in Threads \ {t} : pc'[u] = pc[u] /\ call'[u] = call[u]
  BY <1>1
<1>4. \A u \in Threads : pc[u] \notin Transmitting
  BY <1>2, InTransmission
<1>5. Quiet /\ Stream' = Stream
  BY <1>1, <1>4 DEF Following, Line, Transmitting, Stream, Received
<1>6. Quiet'
  BY <1>1, <1>5 DEF Quiet, Free
<1>7. cbFunc = 0 => NoTransmission
  <2> SUFFICES ASSUME cbFunc = 0 PROVE NoTransmission
    OBVIOUS
  <2>1. Done(0) \notin Dones
    BY DonesDiffer DEF Dones
  <2>2. Free(Dones)
    BY <2>1 DEF Following, Transmission, Free, FreeIn
  <2> QED
    BY <2>2 DEF Following, Transmission, NoTransmission
<1>8. NoTransmission => NoTransmission'
  BY <1>1, <1>5 DEF NoTransmission, Free
<1>9. Started(t)'
  BY <1>1, <1>2, <1>3, <1>7, <1>8 DEF Started
<1>10. Line'
  <2>1. ASSUME NEW u \in Threads \ {t}
        PROVE  /\ pc'[u] \notin Transmitting
               /\ pc'[u] \in {"lock", "drain"} => call'[u] = 0
    BY <1>2, <1>3, <1>4 DEF InCall, Returned
  <2> QED
    BY <1>3, <1>6, <1>9, <2>1 DEF Line, Transmitting
<1>11. Transmission'
  <2>1. CASE f = "SendData"
    BY <1>2, <1>7, <1>8, <2>1, FreeParts DEF NoTransmission, Transmission, Free, Once
  <2>2. CASE f # "SendData"
    BY <1>1, <1>5, <2>2 DEF Following, Transmission, Free, Once
  <2> QED
    BY <2>1, <2>2
<1>12. NoRefusal'
  <2>1. \A u \in Threads : pc'[u] # "result"
    BY <1>3, <1>4 DEF Transmitting
  <2>2. FreeIn(chip'.owes, Refusals)
    BY <1>6 DEF Quiet, FreeIn
  <2>3. Free(Refusals)'
    BY <1>6, FreeParts DEF Quiet, Free
  <2> QED
    BY <2>1, <2>2, <2>3 DEF NoRefusal
<1> QED
  BY <1>10, <1>11, <1>12 DEF Following, Refused

LEMMA RefusalIs ==
  ASSUME NEW x \in Responses, IsResponse(x, "SendData"), ~x.ok
  PROVE  x \in Refusals
<1>1. PICK f \in {"SendData", "Query"}, c \in 1..Garbage, ok \in BOOLEAN : x = Res(f, c, ok)
  BY DEF Responses
<1>2. x.fn = f /\ x.fn = "SendData"
  BY <1>1 DEF Res, IsResponse
<1>3. x.ok = ok
  BY <1>1 DEF Res
<1>4. ok = FALSE
  BY <1>3
<1>5. x = Res("SendData", c, FALSE)
  BY <1>1, <1>2, <1>4
<1> QED
  BY <1>5 DEF Refusals

(* The callback is forgotten only when the chip has refused to transmit.   *)
LEMMA FollowingResult ==
  ASSUME TypeInv, Single, Following, NEW t \in Threads, Result(t), Certain'
  PROVE  Following'
<1>1. pc[t] = "result"
  BY DEF Result, Record, Certain
<1>2. /\ UNCHANGED <<call, fn, reading, serBuf, rxQueue, uart, chip, txBuf>>
      /\ pc' = [pc EXCEPT ![t] = Home(t)] /\ pc \in [Threads -> Places]
  BY <1>1, Now DEF Result
<1>3. call[t] # 0 /\ ~Returned(t) /\ t \in InCall
  BY <1>1, InTransmission DEF Transmitting
<1>4. Stream' = Stream
  BY <1>2 DEF Stream, Received
<1>5. Quiet'
  <2>1. Quiet
    BY <1>1, <1>3, QuietBefore DEF Following
  <2> QED
    BY <1>2, <1>4, <2>1 DEF Quiet, Free
<1>6. \A u \in Threads \ {t} :
         /\ pc'[u] \notin {"ack", "answer", "failed", "send", "backoff", "result"}
         /\ pc'[u] \in {"lock", "drain"} => call'[u] = 0
  BY <1>2, <1>3, Bystanders
<1>7. pc'[t] \in {"served", "idle"}
  BY <1>2 DEF Home
<1>8. Line'
  BY <1>5, <1>6, <1>7 DEF Line
<1>9. Refused'
  <2>1. NoTransmission => NoTransmission'
    BY <1>2, <1>4 DEF NoTransmission, Free
  <2>2. NoRefusal => NoRefusal'
    BY <1>2, <1>4, <1>6, <1>7 DEF NoRefusal, Free
  <2> QED
    BY <2>1, <2>2 DEF Following, Refused
<1>10. CASE cbFunc' = cbFunc
  BY <1>2, <1>4, <1>8, <1>9, <1>10 DEF Following, Transmission, Free, Once
<1>11. CASE cbFunc' # cbFunc
  <2>1. txBuf \in Responses /\ IsResponse(txBuf, fn[call[t]])
    BY <1>1, <1>3 DEF Single, Filled
  <2>2. fn[call[t]] = "SendData" /\ ~txBuf.ok /\ cbFunc' = 0
    BY <1>1, <1>11, <2>1 DEF Result, IsResponse
  <2>3. txBuf \in Refusals
    BY <2>1, <2>2, RefusalIs
  <2>4. NoTransmission
    BY <1>1, <2>3 DEF Following, Refused, NoRefusal
  <2>5. Transmission'
    BY <1>2, <1>4, <2>4, FreeParts DEF NoTransmission, Transmission, Free, Once
  <2> QED
    BY <1>8, <1>9, <2>5 DEF Following
<1> QED
  BY <1>10, <1>11

-----------------------------------------------------------------------------
(* The chip.                                                               *)
LEMMA Sends ==
  ASSUME NEW x, Extension(Stream', Stream, x)
  PROVE  /\ \A F : Free(F)' <=> Free(F) /\ x \notin F
         /\ \A F : Once(F) /\ x \notin F => Once(F)'
         /\ \A F : Free(F) => Once(F)'
         /\ \A F, G : OrderedIn(Stream, F, G) /\ x \notin F => OrderedIn(Stream, F, G)'
         /\ \A F, G : Free(G) /\ x \notin G => OrderedIn(Stream, F, G)'
BY DEF Extension, Free, Once

(* A step of the chip that is no news about a transmission.                *)
LEMMA ChipTransmission ==
  ASSUME Transmission, NEW x, Extension(Stream', Stream, x), x \notin Dones,
         UNCHANGED <<chip.sending, cbFunc>>
  PROVE  Transmission' /\ (NoTransmission => NoTransmission')
<1>1. /\ Once(Dones)' /\ (Free(Dones) => Free(Dones)')
      /\ FreeIn(Stream', Dones \ {Done(cbFunc)})
  BY Sends DEF Transmission, Free
<1> QED
  BY <1>1 DEF Transmission, NoTransmission, Free

(* A request leaves the line as it is.                                     *)
LEMMA FollowingRequest ==
  ASSUME TypeInv, Following, UNCHANGED host, NEW x \in Requests, uart' = Append(uart, x),
         UNCHANGED <<chip.in, chip.owes>>, Transmission', NoTransmission' \/ (NoRefusal => NoRefusal'),
         NoTransmission => NoTransmission'
  PROVE  Following'
<1>1. x \notin Controls /\ x \notin Responses /\ x # Ack /\ x \in Bytes
  BY FreeParts, StreamTyped DEF Controls
<1>2. Extension(Stream', Stream, x)
  BY <1>1, StreamChip
<1>3. /\ \A F \in {Controls, Responses, Controls \cup Responses, {Ack}} : Free(F)' <=> Free(F)
      /\ Once(Controls) => Once(Controls)'
      /\ Once(Responses) => Once(Responses)'
      /\ OrderedIn(Stream, {Ack}, Responses) => OrderedIn(Stream, {Ack}, Responses)'
  BY <1>1, <1>2, Sends
<1>4. UNCHANGED <<pc, call, fn, txBuf, cbFunc, needAck>>
  BY DEF host
<1>5. Refused'
  BY DEF Following, Refused
<1>6. /\ Quiet => Quiet'
      /\ OneResponse => OneResponse'
      /\ GaveUp => GaveUp'
  BY <1>3 DEF Quiet, OneResponse, GaveUp
<1>7. ASSUME NEW t PROVE (Started(t) => Started(t)') /\ (Unanswered(t) => Unanswered(t)')
  BY <1>3, <1>4 DEF Started, Unanswered
<1>8. AwaitsAnswer => AwaitsAnswer'
  BY <1>3, <1>6 DEF AwaitsAnswer
<1>9. ASSUME NEW t, AwaitsAck(t) PROVE AwaitsAck(t)'
  <2>1. needAck' /\ OneResponse' /\ (Unanswered(t) => Unanswered(t)')
    <3>1. needAck /\ needAck' = needAck
      BY <1>4, <1>9 DEF AwaitsAck
    <3> QED
      BY <1>6, <1>7, <1>9, <3>1 DEF AwaitsAck
  <2> QED
    BY <1>3, <1>4, <1>9, <2>1 DEF AwaitsAck
<1>10. Line'
  BY <1>4, <1>6, <1>7, <1>8, <1>9 DEF Following, Line
<1> QED
  BY <1>5, <1>10 DEF Following

LEMMA FollowingChipRequest ==
  ASSUME TypeInv, Following, ChipRequest
  PROVE  Following'
<1> DEFINE x == Req(faults')
<1>1. /\ UNCHANGED host /\ chip' = chip /\ uart' = Append(uart, x) /\ x \in Requests /\ x \notin Dones
  <2>1. UNCHANGED host /\ chip' = chip /\ uart' = Append(uart, x) /\ Fault
    BY DEF ChipRequest, Chip
  <2>2. x \in Requests
    BY <2>1, FaultTyped DEF Requests
  <2>3. x \notin Dones
    BY DEF Dones, Done, Req
  <2> QED
    BY <2>1, <2>2, <2>3
<1> HIDE DEF x
<1>2. x \notin Refusals /\ x \in Bytes
  BY <1>1, FreeParts, StreamTyped
<1>3. Extension(Stream', Stream, x) /\ UNCHANGED <<pc, txBuf, cbFunc>>
  BY <1>1, <1>2, StreamChip DEF host
<1>4. Transmission' /\ (NoTransmission => NoTransmission')
  BY <1>1, <1>3, ChipTransmission DEF Following
<1>5. NoRefusal => NoRefusal'
  BY <1>1, <1>2, <1>3, Sends DEF NoRefusal
<1> QED
  BY <1>1, <1>4, <1>5, FollowingRequest

(* The callback of the transmission there was, which nobody waits to start. *)
LEMMA FollowingChipDone ==
  ASSUME TypeInv, Following, ChipDone
  PROVE  Following'
<1> DEFINE x == Done(chip.sending)
<1>1. /\ UNCHANGED host /\ uart' = Append(uart, x) /\ chip.sending # 0
      /\ chip'.in = chip.in /\ chip'.owes = chip.owes /\ chip'.sending = 0
  BY ChipFields DEF ChipDone, Chip, Chips
<1>2. x \in Dones /\ x = Done(cbFunc) /\ Free(Dones)
  <2>1. chip.sending \in 1..Garbage
    BY <1>1, ChipFields, RoundsAre DEF Garbage
  <2> QED
    BY <1>1, <2>1 DEF Following, Transmission, Dones
<1> HIDE DEF x
<1>3. x \in Requests /\ x \notin Refusals /\ x \in Bytes
  BY <1>2, FreeParts, StreamTyped
<1>4. Extension(Stream', Stream, x) /\ UNCHANGED <<pc, txBuf, cbFunc>>
  BY <1>1, <1>3, StreamChip DEF host
<1>5. Transmission'
  <2>1. Once(Dones)'
    BY <1>2, <1>4, Sends
  <2>2. FreeIn(Stream', Dones \ {Done(cbFunc)})
    BY <1>2, <1>4, Sends DEF Following, Transmission, Free
  <2> QED
    BY <1>1, <1>4, <2>1, <2>2 DEF Transmission, Free
<1>6. NoRefusal => NoRefusal'
  BY <1>1, <1>3, <1>4, Sends DEF NoRefusal
<1> QED
  BY <1>1, <1>3, <1>5, <1>6, FollowingRequest DEF NoTransmission

(* The response: the host that is there to take it awaits it, or the ACK   *)
(* before it.                                                              *)
LEMMA FollowingChipAnswers ==
  ASSUME TypeInv, Following, ChipAnswers
  PROVE  Following'
<1> DEFINE x == Head(chip.owes)
<1>1. /\ UNCHANGED host /\ uart' = Append(uart, x) /\ chip.owes # <<>>
      /\ chip'.in = chip.in /\ chip'.owes = Tail(chip.owes) /\ chip'.sending = chip.sending
  BY ChipFields DEF ChipAnswers, Chip, Chips
<1>2. /\ x \in Responses /\ x = chip.owes[1] /\ 1 \in DOMAIN chip.owes /\ Len(chip.owes) \in Nat \ {0}
      /\ \A i \in DOMAIN Tail(chip.owes) : i + 1 \in DOMAIN chip.owes /\ Tail(chip.owes)[i] = chip.owes[i + 1]
      /\ Len(chip.owes) <= 1 => Tail(chip.owes) = <<>>
  BY <1>1, ChipFields
<1> HIDE DEF x
<1>3. x \notin Controls /\ x \notin Dones /\ x # Ack /\ x \in Bytes
  BY <1>2, FreeParts, StreamTyped DEF Controls
<1>4. Extension(Stream', Stream, x)
  BY <1>1, <1>3, StreamChip
<1>5. /\ \A F \in {Controls, {Ack}} : Free(F)' <=> Free(F)
      /\ Once(Controls) => Once(Controls)'
      /\ Free(Responses) => Once(Responses)'
      /\ OrderedIn(Stream, {Ack}, Responses) => OrderedIn(Stream, {Ack}, Responses)'
  BY <1>3, <1>4, Sends
<1>6. UNCHANGED <<pc, call, fn, txBuf, cbFunc, needAck>>
  BY <1>1 DEF host
<1>7. Transmission' /\ (NoTransmission => NoTransmission')
  BY <1>1, <1>3, <1>4, <1>6, ChipTransmission DEF Following
<1>8. NoRefusal => NoRefusal'
  <2> SUFFICES ASSUME NoRefusal PROVE NoRefusal'
    OBVIOUS
  <2>1. x \notin Refusals /\ FreeIn(Tail(chip.owes), Refusals)
    BY <1>2 DEF NoRefusal, FreeIn
  <2> QED
    BY <1>1, <1>4, <1>6, <2>1, Sends DEF NoRefusal
<1>9. /\ ~Quiet
      /\ OneResponse => OneResponse'
      /\ GaveUp => GaveUp'
      /\ \A t : ~Unanswered(t)
      /\ \A t : Started(t) => Started(t)'
  BY <1>1, <1>2, <1>5, <1>6, <1>7 DEF Quiet, OneResponse, GaveUp, Unanswered, Started
<1>10. AwaitsAnswer => AwaitsAnswer'
  BY <1>1, <1>5, <1>9 DEF AwaitsAnswer
<1>11. ASSUME NEW t, AwaitsAck(t) PROVE AwaitsAck(t)'
  <2>1. needAck' /\ OneResponse'
    <3>1. needAck /\ needAck' = needAck
      BY <1>6, <1>11 DEF AwaitsAck
    <3> QED
      BY <1>9, <1>11, <3>1 DEF AwaitsAck
  <2>2. ~Free({Ack}) /\ Answers(fn[call[t]])
    BY <1>1, <1>9, <1>11 DEF AwaitsAck
  <2> QED
    BY <1>1, <1>5, <1>6, <1>11, <2>1, <2>2 DEF AwaitsAck
<1>12. Line'
  BY <1>6, <1>9, <1>10, <1>11 DEF Following, Line
<1> QED
  BY <1>7, <1>8, <1>12 DEF Following, Refused

(* A command that the chip has not taken is that of the host that awaits   *)
(* the ACK, and nothing came back for it.                                  *)
LEMMA Pending ==
  ASSUME TypeInv, Single, Following, chip.in # <<>>
  PROVE  \E t \in Threads :
           /\ pc[t] = "ack" /\ AwaitsAck(t) /\ Unanswered(t) /\ Free(Controls)
           /\ Head(chip.in) = [fn |-> fn[call[t]], of |-> call[t]] /\ Tail(chip.in) = <<>>
           /\ call[t] \in 1..MaxCalls /\ fn[call[t]] \in Funcs
           /\ \A u \in Threads \ {t} :
                /\ pc[u] \notin {"ack", "answer", "failed", "send", "backoff", "result"}
                /\ pc[u] \in {"lock", "drain"} => call[u] = 0
<1>1. PICK t \in Threads : pc[t] \in {"ack", "answer", "failed"}
  BY DEF Following, Line, Quiet
<1>2. pc[t] = "ack" /\ AwaitsAck(t)
  BY <1>1 DEF Following, Line, AwaitsAnswer, GaveUp
<1>3. /\ chip.in[1] = [fn |-> fn[call[t]], of |-> call[t]] /\ Free(Controls) /\ Len(chip.in) <= 1
      /\ Unanswered(t)
  BY <1>2, FreeParts DEF AwaitsAck, Free
<1>4. Head(chip.in) = chip.in[1] /\ Tail(chip.in) = <<>>
  BY <1>3, ChipFields
<1>5. call[t] # 0 /\ ~Returned(t)
  BY <1>2, InTransmission DEF Transmitting
<1>6. call[t] \in 1..MaxCalls /\ fn[call[t]] \in Funcs
  BY <1>5, CommandTyped
<1>7. \A u \in Threads \ {t} :
        /\ pc[u] \notin {"ack", "answer", "failed", "send", "backoff", "result"}
        /\ pc[u] \in {"lock", "drain"} => call[u] = 0
  <2> SUFFICES ASSUME NEW u \in Threads \ {t}
               PROVE  /\ pc[u] \notin {"ack", "answer", "failed", "send", "backoff", "result"}
                      /\ pc[u] \in {"lock", "drain"} => call[u] = 0
    OBVIOUS
  <2>1. call[u] = 0 \/ Returned(u)
    BY <1>5, Caller
  <2> QED
    BY <2>1, InTransmission DEF Transmitting, Returned
<1> QED
  BY <1>2, <1>3, <1>4, <1>6, <1>7

(* The command is gone, and a NAK may have come for it.                    *)
LEMMA FollowingChipDrops ==
  ASSUME TypeInv, Single, Following, ChipDrops
  PROVE  Following'
<1>1. /\ UNCHANGED host /\ chip.in # <<>> /\ uart' \in {uart, Append(uart, Nak)}
      /\ chip'.in = Tail(chip.in) /\ chip'.owes = chip.owes /\ chip'.sending = chip.sending
  BY ChipFields DEF ChipDrops, Chip, Chips
<1>2. PICK t \in Threads :
        /\ pc[t] = "ack" /\ AwaitsAck(t) /\ Unanswered(t) /\ Free(Controls) /\ Tail(chip.in) = <<>>
        /\ \A u \in Threads \ {t} :
             /\ pc[u] \notin {"ack", "answer", "failed", "send", "backoff", "result"}
             /\ pc[u] \in {"lock", "drain"} => call[u] = 0
  BY <1>1, Pending
<1>3. UNCHANGED <<pc, call, fn, txBuf, cbFunc, needAck>>
  BY <1>1 DEF host
<1>4. Stream' = Stream \/ Extension(Stream', Stream, Nak)
  <2>1. uart' = uart => Stream' = Stream
    BY <1>1 DEF host, Stream, Received
  <2>2. Nak \in Bytes
    BY DEF Bytes
  <2> QED
    BY <1>1, <2>1, <2>2, StreamChip
<1>5. Nak \notin Responses /\ Nak \notin Dones /\ Nak \notin {Ack} /\ Nak \notin Refusals
  <2>1. Nak # Ack
    BY DEF Nak, Ack
  <2> QED
    BY <2>1, FreeParts DEF Controls
<1>6. /\ \A F \in {Responses, Dones, {Ack}, Refusals, Dones \ {Done(cbFunc)}} : Free(F) <=> FreeIn(Stream', F)
      /\ Free(Controls) => OnceIn(Stream', Controls)
      /\ \A F \in {Responses, Dones} : Once(F) => OnceIn(Stream', F)
      /\ OrderedIn(Stream, {Ack}, Responses) => OrderedIn(Stream', {Ack}, Responses)
  <2>1. CASE Stream' = Stream
    BY <2>1, FreeParts DEF Free, Once
  <2>2. CASE Extension(Stream', Stream, Nak)
    <3>1. \A F \in {Responses, Dones, {Ack}, Refusals, Dones \ {Done(cbFunc)}} : Nak \notin F
      BY <1>5
    <3> QED
      BY <2>2, <1>5, <3>1 DEF Extension, Free, Once
  <2> QED
    BY <1>4, <2>1, <2>2
<1>7. Transmission' /\ (NoTransmission => NoTransmission') /\ (NoRefusal => NoRefusal')
  BY <1>1, <1>3, <1>6 DEF Following, Transmission, NoTransmission, NoRefusal, Free, Once
<1>8. Unanswered(t)'
  BY <1>1, <1>2, <1>3, <1>6, <1>7 DEF Unanswered, Started, Free
<1>9. AwaitsAck(t)'
  <2>1. needAck'
    <3>1. needAck /\ needAck' = needAck
      BY <1>2, <1>3 DEF AwaitsAck
    <3> QED
      BY <3>1
  <2>2. OneResponse'
    <3>1. OneResponse /\ Free(Responses)
      BY <1>2 DEF AwaitsAck, Unanswered
    <3>2. FreeIn(Stream', Responses) /\ OnceIn(Stream', Responses)
      BY <1>6, <3>1, FreeParts
    <3> QED
      BY <1>1, <3>1, <3>2 DEF OneResponse, Free, Once
  <2>3. chip'.in = <<>>
    BY <1>1, <1>2
  <2>4. Len(chip'.in) <= 1
    BY <2>3
  <2> QED
    BY <1>1, <1>2, <1>3, <1>6, <1>8, <2>1, <2>2, <2>3, <2>4 DEF AwaitsAck, Free, Once
<1>10. Line'
  BY <1>2, <1>3, <1>9 DEF Line
<1> QED
  BY <1>7, <1>10 DEF Following, Refused

(* The chip takes the command, acknowledges it, and transmits for the call  *)
(* whose callback is set.                                                  *)
LEMMA FollowingChipTakes ==
  ASSUME TypeInv, Single, Following, ChipTakes
  PROVE  Following'
<1> DEFINE c == Head(chip.in)
<1>1. PICK ok \in BOOLEAN :
        chip' = [chip EXCEPT
            !.in = Tail(chip.in),
            !.owes = IF Answers(c.fn) THEN Append(@, Res(c.fn, c.of, ok)) ELSE @,
            !.sending = IF c.fn = "SendData" /\ ok THEN c.of ELSE @]
  BY DEF ChipTakes, Granted
<1>2. PICK t \in Threads :
        /\ pc[t] = "ack" /\ AwaitsAck(t) /\ Unanswered(t) /\ Free(Controls)
        /\ c = [fn |-> fn[call[t]], of |-> call[t]] /\ Tail(chip.in) = <<>>
        /\ call[t] \in 1..MaxCalls /\ fn[call[t]] \in Funcs
        /\ \A u \in Threads \ {t} :
             /\ pc[u] \notin {"ack", "answer", "failed", "send", "backoff", "result"}
             /\ pc[u] \in {"lock", "drain"} => call[u] = 0
  BY Pending DEF ChipTakes
<1> DEFINE f == fn[call[t]]
           r == Res(f, call[t], ok)
<1>3. c.fn = f /\ c.of = call[t]
  BY <1>2
<1>4. chip.owes = <<>> /\ Append(<<>>, r) = <<r>>
  BY <1>2 DEF Unanswered
<1>5. /\ chip'.in = <<>>
      /\ chip'.owes = IF Answers(f) THEN <<r>> ELSE <<>>
      /\ chip'.sending = IF f = "SendData" /\ ok THEN call[t] ELSE chip.sending
  BY <1>1, <1>2, <1>3, <1>4, ChipFields DEF Chips
<1> HIDE DEF c
<1>6. UNCHANGED host /\ uart' = Append(uart, Ack)
  BY DEF ChipTakes, Chip
<1>7. UNCHANGED <<pc, call, fn, txBuf, cbFunc, needAck>>
  BY <1>6 DEF host
<1>8. Extension(Stream', Stream, Ack)
  BY <1>6, StreamChip DEF Bytes
<1>9. Ack \notin Responses /\ Ack \notin Dones /\ Ack \notin Refusals
  BY FreeParts DEF Controls
<1>10. /\ Once(Controls)' /\ Free(Responses)' /\ ~Free({Ack})' /\ OrderedIn(Stream, {Ack}, Responses)'
       /\ Once(Responses)' /\ Free(Refusals)'
  BY <1>2, <1>8, <1>9, Sends, FreeParts DEF Unanswered, Free, Once
<1>11. f = "SendData" => cbFunc = call[t] /\ NoTransmission
  BY <1>2 DEF Unanswered, Started
<1>12. r \in Refusals => f = "SendData" /\ ~ok
  <2> SUFFICES ASSUME r \in Refusals PROVE f = "SendData" /\ ~ok
    OBVIOUS
  <2>1. PICK d \in 1..Garbage : r = Res("SendData", d, FALSE)
    BY DEF Refusals
  <2>2. r.fn = f /\ r.fn = "SendData"
    BY <2>1 DEF Res
  <2>3. r.ok = ok /\ r.ok = FALSE
    BY <2>1 DEF Res
  <2> QED
    BY <2>2, <2>3
<1> HIDE DEF r, f
<1>13. ASSUME f = "SendData" /\ ok PROVE Transmission'
  <2>1. Free(Dones)'
    BY <1>8, <1>9, <1>11, <1>13, Sends DEF NoTransmission
  <2>2. OnceIn(Stream', Dones) /\ FreeIn(Stream', Dones \ {Done(cbFunc')})
    BY <2>1, FreeParts DEF Free
  <2>3. chip'.sending = call[t] /\ cbFunc' = call[t]
    BY <1>5, <1>7, <1>11, <1>13
  <2> QED
    BY <2>1, <2>2, <2>3 DEF Transmission, Free, Once
<1>14. ~(f = "SendData" /\ ok) => Transmission' /\ (NoTransmission => NoTransmission')
  BY <1>5, <1>7, <1>8, <1>9, ChipTransmission DEF Following
<1>15. Refused'
  <2>1. CASE f = "SendData" /\ ~ok
    BY <1>11, <1>14, <2>1 DEF Refused
  <2>2. CASE ~(f = "SendData" /\ ~ok)
    <3>1. FreeIn(chip'.owes, Refusals)
      <4>1. CASE Answers(f)
        <5>1. r \notin Refusals /\ chip'.owes = <<r>>
          BY <1>5, <1>12, <2>2, <4>1
        <5> QED
          BY <5>1 DEF FreeIn
      <4>2. CASE ~Answers(f)
        BY <1>5, <4>2 DEF FreeIn
      <4> QED
        BY <4>1, <4>2
    <3>2. \A u \in Threads : pc'[u] # "result"
      BY <1>2, <1>7
    <3> QED
      BY <1>10, <3>1, <3>2 DEF Refused, NoRefusal
  <2> QED
    BY <2>1, <2>2
<1>16. AwaitsAck(t)'
  <2>1. needAck'
    <3>1. needAck /\ needAck' = needAck
      BY <1>2, <1>7 DEF AwaitsAck
    <3> QED
      BY <3>1
  <2>2. Len(chip'.owes) <= 1 /\ Len(chip'.in) <= 1
    BY <1>5
  <2>3. OneResponse'
    BY <1>10, <2>2 DEF OneResponse
  <2>4. (~Answers(fn[call[t]]))' => chip'.owes = <<>>
    BY <1>5, <1>7 DEF f
  <2> QED
    BY <1>5, <1>10, <2>1, <2>2, <2>3, <2>4 DEF AwaitsAck
<1>17. Line'
  BY <1>2, <1>7, <1>16 DEF Line
<1> QED
  BY <1>13, <1>14, <1>15, <1>17 DEF Following

-----------------------------------------------------------------------------
LEMMA FollowingStays ==
  ASSUME Following, UNCHANGED vars
  PROVE  Following'
<1>1. UNCHANGED <<pc, call, fn, needAck, txBuf, cbFunc, chip>> /\ Stream' = Stream
  BY DEF vars, host, Stream, Received
<1>2. /\ Transmission' /\ (NoTransmission => NoTransmission') /\ (NoRefusal => NoRefusal')
      /\ (Quiet => Quiet') /\ (OneResponse => OneResponse') /\ (GaveUp => GaveUp')
  BY <1>1 DEF Following, Transmission, NoTransmission, NoRefusal, Quiet, OneResponse, GaveUp, Free, Once
<1>3. AwaitsAnswer => AwaitsAnswer'
  BY <1>1, <1>2 DEF AwaitsAnswer, Free
<1>4. ASSUME NEW t PROVE (Started(t) => Started(t)') /\ (Unanswered(t) => Unanswered(t)')
  BY <1>1, <1>2 DEF Started, Unanswered, Free
<1>5. ASSUME NEW t, AwaitsAck(t) PROVE AwaitsAck(t)'
  <2>1. needAck /\ needAck' = needAck
    BY <1>1, <1>5 DEF AwaitsAck
  <2>2. needAck' /\ OneResponse' /\ (Unanswered(t) => Unanswered(t)')
    BY <1>2, <1>4, <1>5, <2>1 DEF AwaitsAck
  <2> QED
    BY <1>1, <1>5, <2>2 DEF AwaitsAck, Free, Once
<1>6. Line'
  BY <1>1, <1>2, <1>3, <1>4, <1>5 DEF Following, Line
<1> QED
  BY <1>2, <1>6 DEF Following, Refused

LEMMA FollowingNext ==
  TypeInv /\ (Lone => Single) /\ (Certain => Following) /\ [Next]_vars => (Certain => Following)'
<1> SUFFICES ASSUME TypeInv, Lone => Single, Certain => Following, [Next]_vars, Certain'
             PROVE  Following'
  OBVIOUS
<1>1. Single /\ Following
  BY HistoryGrows DEF Certain, Lone
<1>2. ASSUME NEW t \in Threads, Acquire(t) \/ Run(t) \/ \E f \in Funcs : Call(t, f) PROVE Following'
  BY <1>1, <1>2, FollowingAcquire, FollowingSend, FollowingReceive, FollowingResult, FollowingCall
  DEF Run
<1>3. SerialAPI_Poll \/ PollDrain => Following'
  BY <1>1, FollowingPoll, FollowingPollDrain
<1>4. ChipTakes \/ ChipAnswers \/ ChipDrops \/ ChipDone \/ ChipRequest => Following'
  BY <1>1, FollowingChipTakes, FollowingChipAnswers, FollowingChipDrops, FollowingChipDone,
     FollowingChipRequest
<1> QED
  BY <1>1, <1>2, <1>3, <1>4, FollowingStays DEF Next

LEMMA FollowingInit == Init => Following
<1> SUFFICES ASSUME Init PROVE Following
  OBVIOUS
<1>1. /\ chip.in = <<>> /\ chip.owes = <<>> /\ chip.sending = 0
      /\ \A t \in Threads : pc[t] \in {"poll", "idle"}
  BY DEF Init
<1>2. Stream = <<>>
  BY DEF Init, Stream, Received, NotReading
<1>3. \A F : Free(F) /\ Once(F)
  BY <1>2 DEF Free, Once, FreeIn, OnceIn
<1>4. NoTransmission /\ Transmission /\ Quiet
  BY <1>1, <1>3 DEF NoTransmission, Transmission, Quiet
<1>5. Line
  BY <1>1, <1>4 DEF Line
<1> QED
  BY <1>4, <1>5 DEF Following, Refused

(* What the chip transmits and what is on the line follow from the call     *)
(* under way, until one is given up, two overlap, or a frame is lost to     *)
(* another: ZW_SendData_Bridge clears its callback only when the chip did   *)
(* not start, and a response or an ACK never outlives its command.         *)
THEOREM FollowingInvariance == Spec => [](Certain => Following)
<1>1. Init => (Certain => Following)
  BY FollowingInit
<1> QED
  BY <1>1, FollowingNext, TypeInvariance, SingleInvariance, PTL DEF Spec

LEMMA DispatchesOwn ==
  ASSUME TypeInv, Certain => Following, NEW c \in Calls, rxQueue # <<>>, Head(rxQueue) = Done(c), Certain
  PROVE  cbFunc = c
<1>1. Free(Dones \ {Done(cbFunc)})
  BY DEF Following, Transmission
<1>2. 1 \in DOMAIN Stream /\ Stream[1] = Done(c)
  <2> DEFINE p == rxQueue \o Received
  <2>1. /\ rxQueue \in Seq(Bytes) /\ Received \in Seq(Bytes) /\ uart \in Seq(Bytes) /\ p \in Seq(Bytes)
    BY StreamTyped
  <2>2. 1 \in 1..Len(rxQueue) /\ rxQueue[1] = Done(c)
    BY <2>1
  <2>3. 1 \in 1..Len(p) /\ p[1] = Done(c)
    BY <2>1, <2>2, ConcatProperties
  <2> HIDE DEF p
  <2>4. p \in Seq(Bytes)
    BY <2>1
  <2>5. 1 \in 1..Len(p \o uart) /\ (p \o uart)[1] = Done(c) /\ p \o uart \in Seq(Bytes)
    BY <2>1, <2>3, <2>4, ConcatProperties
  <2> QED
    BY <2>5 DEF Stream, p
<1>3. Done(c) \in Dones
  <2>1. c \in 1..Garbage
    BY RoundsAre DEF Calls, Garbage
  <2> QED
    BY <2>1 DEF Dones
<1>4. Done(c) = Done(cbFunc)
  BY <1>1, <1>2, <1>3 DEF Free, FreeIn
<1> QED
  BY <1>4, DonesDiffer

(* Any number of calls and faults: the callback SerialAPI_Poll finds in     *)
(* cbFuncZWSendDataBridge is that of the transmission the frame reports,    *)
(* under the conditions of OwnCallback, although no identifier is compared. *)
THEOREM OwnCallbackHolds == Spec => OwnCallback
<1>1. ASSUME TypeInv, Certain => Following
      PROVE  \A c \in Calls :
               rxQueue # <<>> /\ rxQueue' = Tail(rxQueue) /\ Head(rxQueue) = Done(c)
                 /\ hist \cap {"unsure", "overlap", "raced"} = {}
                 => cbFunc \in {0, c}
  BY <1>1, DispatchesOwn DEF Certain
<1> QED
  BY <1>1, TypeInvariance, FollowingInvariance, PTL DEF OwnCallback

(* All of it together: the inductive invariant of the serial link.          *)
THEOREM Invariance == Spec => []IInv
BY TypeInvariance, QueuedInvariance, AnsweringInvariance, SingleInvariance, FollowingInvariance, PTL
DEF IInv
=============================================================================
