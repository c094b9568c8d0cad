--------------------------- MODULE SendDataProofs ---------------------------
(* Theorems about SendData, for every set of requests, pool and queue size: *)
(* its types, and where its sessions are.  Each has one place, and whoever  *)
(* frees it or calls its callback is the only one to do so.  From this      *)
(* follow that nobody is called back twice, that the lists are sound, and   *)
(* that SendData implements SendLayer.  The last part is about its locks.   *)
EXTENDS SendData, FiniteSetTheorems, TLAPS

-----------------------------------------------------------------------------
(* Replacing the current step of a context by steps keeps todo typed.       *)
LEMMA ThenTyped ==
  ASSUME todo \in [Contexts -> Seq(Steps)],
         NEW c \in Contexts, NEW next \in Seq(Steps), todo[c] # <<>>,
         Then(c, next)
  PROVE  todo' \in [Contexts -> Seq(Steps)]
<1>1. Tail(todo[c]) \in Seq(Steps)
  OBVIOUS
<1>2. next \o Tail(todo[c]) \in Seq(Steps)
  BY <1>1
<1> QED
  BY <1>2 DEF Then

(* So does pushing steps in front of them.                                  *)
LEMMA PushTyped ==
  ASSUME todo \in [Contexts -> Seq(Steps)],
         NEW c \in Contexts, NEW next \in Seq(Steps),
         Push(c, next)
  PROVE  todo' \in [Contexts -> Seq(Steps)]
<1>1. next \o todo[c] \in Seq(Steps)
  OBVIOUS
<1> QED
  BY <1>1 DEF Push

(* Every step a context can be given is one of Steps.                       *)
LEMMA StepsTyped ==
  /\ \A e \in Events : Post(e) \in Steps
  /\ InUser \in Steps /\ More \in Steps /\ Unlock \in Steps
  /\ GiveUp \in Steps /\ Arm \in Steps
  /\ \A ok \in BOOLEAN : LLDone(ok) \in Steps
  /\ \A s \in Slots : Hand(s) \in Steps
  /\ \A s \in Slots, ok \in BOOLEAN :
       Call(s, ok) \in Steps /\ Complete(s, ok) \in Steps /\ Release(s, ok) \in Steps
BY DEF Steps

(* The step a context is at, by its kind, has the fields of that kind.      *)
LEMMA HeadTyped ==
  ASSUME todo \in [Contexts -> Seq(Steps)], NEW c \in Contexts, ~Idle(c)
  PROVE  /\ Head(todo[c]).op = "post" => Head(todo[c]).ev \in Events
         /\ Head(todo[c]).op = "hand" => Head(todo[c]).slot \in Slots
         /\ Head(todo[c]).op = "lldone" => Head(todo[c]).ok \in BOOLEAN
         /\ Head(todo[c]).op \in {"call", "complete", "release"} =>
              Head(todo[c]).slot \in Slots /\ Head(todo[c]).ok \in BOOLEAN
<1>1. Head(todo[c]) \in Steps
  BY DEF Idle
<1> QED
  BY <1>1 DEF Steps, Post, InUser, More, Unlock, GiveUp, Arm, LLDone, Hand, Call, Complete, Release

(* A block taken from the pool is a slot, and the pool stays typed.         *)
LEMMA AllocateTyped ==
  ASSUME TypeOK, NEW s \in Slots, NEW f \in Frames \cup {NoFrame}, NEW cb \in Callbacks,
         Allocate(s, f, cb)
  PROVE  /\ used' \subseteq Slots
         /\ frame' \in [Slots -> Frames \cup {NoFrame}]
         /\ done' \in [Slots -> Callbacks]
         /\ hijacked' \in BOOLEAN
BY DEF Allocate, TypeOK, Pending

(* The sequences of steps the actions hand to a context are typed.         *)
LEMMA NextTyped ==
  /\ <<>> \in Seq(Steps)
  /\ \A e \in Events : <<Post(e)>> \in Seq(Steps)
  /\ <<InUser>> \in Seq(Steps) /\ <<GiveUp>> \in Seq(Steps) /\ <<Arm>> \in Seq(Steps)
  /\ \A ok \in BOOLEAN : <<LLDone(ok)>> \in Seq(Steps)
  /\ \A s \in Slots : <<Hand(s)>> \in Seq(Steps)
  /\ \A s \in Slots, ok \in BOOLEAN :
       /\ <<Call(s, ok)>> \in Seq(Steps)
       /\ <<Complete(s, ok)>> \in Seq(Steps)
       /\ <<Release(s, ok)>> \in Seq(Steps)
       /\ <<Call(s, ok), More, Unlock>> \in Seq(Steps)
       /\ <<Post("SEND_NEXT"), Release(s, ok)>> \in Seq(Steps)
BY StepsTyped DEF Events

(* Removing an element of a list leaves a list.                             *)
LEMMA WithoutTyped ==
  ASSUME NEW S, NEW q \in Seq(S), NEW i \in 1..Len(q)
  PROVE  Without(q, i) \in Seq(S)
<1>1. SubSeq(q, 1, i - 1) \in Seq(S) /\ SubSeq(q, i + 1, Len(q)) \in Seq(S)
  OBVIOUS
<1> QED
  BY <1>1 DEF Without

(* So do taking its head away and appending to it.                          *)
LEMMA QueueTyped ==
  ASSUME NEW S, NEW q \in Seq(S)
  PROVE  /\ q # <<>> => Head(q) \in S /\ Tail(q) \in Seq(S)
         /\ \A e \in S : Append(q, e) \in Seq(S)
OBVIOUS

(* The initial state is typed.                                             *)
LEMMA TypeInit == ASSUME Init PROVE TypeOK
<1>1. phase \in [Frames -> Phases] /\ calls \in [Requests -> 0..2]
  BY DEF Init, Phases
<1>2. handle \in [Requests -> Slots \cup {0}] /\ used \subseteq Slots
  BY DEF Init
<1>3. /\ frame \in [Slots -> Frames \cup {NoFrame}]
      /\ done \in [Slots -> Callbacks]
  BY DEF Init, Callbacks
<1>4. applQ \in Seq(Slots) /\ llQ \in Seq(Slots) /\ air \in Seq(Slots)
  BY DEF Init
<1>5. events \in Seq(Events) /\ Len(events) <= QueueSize
  BY SendDataAssumption DEF Init
<1>6. todo \in [Contexts -> Seq(Steps)]
  BY DEF Init
<1> QED
  BY <1>1, <1>2, <1>3, <1>4, <1>5, <1>6 DEF Init, TypeOK

(* Every step of a sender keeps the state typed.                           *)
LEMMA TypeSend == ASSUME TypeOK, Send PROVE TypeOK'
<1> USE DEF TypeOK, poolVars, chipVars, timerVars, ghostVars
<1>1. ASSUME NEW c \in Contexts, NEW r \in Requests, SendDataAppl(c, r) PROVE TypeOK'
  <2>1. PICK s \in Slots : Allocate(s, r, UserCb(r)) /\ applQ' = Append(applQ, s)
                            /\ handle' = [handle EXCEPT ![r] = IF r \in Aborted THEN s ELSE 0]
    BY <1>1 DEF SendDataAppl
  <2>2. UserCb(r) \in Callbacks /\ r \in Frames \cup {NoFrame}
    BY DEF Callbacks, Frames
  <2>3. Push(c, <<Post("SEND_NEXT")>>) /\ <<Post("SEND_NEXT")>> \in Seq(Steps)
    BY <1>1, NextTyped DEF SendDataAppl, Events
  <2>4. todo' \in [Contexts -> Seq(Steps)]
    BY <2>3, PushTyped
  <2> QED
    BY <1>1, <2>1, <2>2, <2>4, AllocateTyped DEF SendDataAppl, Phases, Frames
<1>2. ASSUME NEW c \in Contexts, NEW r \in Requests, SendDataApplRefused(c, r) PROVE TypeOK'
  BY <1>2 DEF SendDataApplRefused, Phases
<1>3. ASSUME NEW c \in Contexts, NEW r \in Requests, Abort(c, r) PROVE TypeOK'
  <2>1. PICK i \in 1..Len(applQ) : applQ[i] = handle[r] /\ applQ' = Without(applQ, i)
    BY <1>3 DEF Abort
  <2>2. handle[r] \in Slots
    BY <2>1
  <2>3. Push(c, <<Call(handle[r], FALSE)>>) /\ <<Call(handle[r], FALSE)>> \in Seq(Steps)
    BY <1>3, <2>2, NextTyped DEF Abort
  <2>4. todo' \in [Contexts -> Seq(Steps)]
    BY <2>3, PushTyped
  <2>5. applQ' \in Seq(Slots)
    BY <2>1, WithoutTyped
  <2> QED
    BY <1>3, <2>4, <2>5 DEF Abort
<1>4. ASSUME NEW n \in Reports, SendReport(n) PROVE TypeOK'
  <2>1. PICK s \in Slots : Allocate(s, n, NoCb) /\ llQ' = Append(llQ, s)
    BY <1>4 DEF SendReport
  <2>2. NoCb \in Callbacks /\ n \in Frames \cup {NoFrame}
    BY DEF Callbacks, Frames
  <2>3. Push("sapi", <<Post("SEND_NEXT_LL")>>) /\ <<Post("SEND_NEXT_LL")>> \in Seq(Steps)
    BY <1>4, NextTyped DEF SendReport, Events
  <2>4. todo' \in [Contexts -> Seq(Steps)]
    BY <2>3, PushTyped DEF Contexts
  <2> QED
    BY <1>4, <2>1, <2>2, <2>4, AllocateTyped DEF SendReport, Phases, Frames
<1> QED
  BY <1>1, <1>2, <1>3, <1>4 DEF Send

(* Every step of tcpip_t through the two queues keeps the state typed.      *)
LEMMA TypeTcpip == ASSUME TypeOK, Tcpip PROVE TypeOK'
<1> USE DEF TypeOK, poolVars, chipVars, timerVars, ghostVars
<1>0. "tcpip" \in Contexts
  BY DEF Contexts
<1>1. CASE StartNothing
  <2>1. events' \in Seq(Events) /\ Len(events') <= QueueSize
    BY <1>1, SendDataAssumption DEF StartNothing
  <2> QED
    BY <1>1, <2>1 DEF StartNothing
<1>2. CASE SendFirst
  <2>1. /\ Head(applQ) \in Slots /\ Tail(applQ) \in Seq(Slots)
        /\ events' \in Seq(Events) /\ Len(events') <= QueueSize
    BY <1>2, SendDataAssumption DEF SendFirst
  <2>2. CASE /\ \E s \in Slots :
                  /\ Allocate(s, frame[Head(applQ)], ApplCb(Head(applQ)))
                  /\ llQ' = Append(llQ, s)
             /\ Push("tcpip", <<Post("SEND_NEXT_LL")>>)
    <3>1. PICK s \in Slots : /\ Allocate(s, frame[Head(applQ)], ApplCb(Head(applQ)))
                             /\ llQ' = Append(llQ, s)
      BY <2>2
    <3>2. frame[Head(applQ)] \in Frames \cup {NoFrame} /\ ApplCb(Head(applQ)) \in Callbacks
      BY <2>1 DEF Callbacks
    <3>3. <<Post("SEND_NEXT_LL")>> \in Seq(Steps)
      BY NextTyped DEF Events
    <3>4. todo' \in [Contexts -> Seq(Steps)]
      BY <1>0, <2>2, <3>3, PushTyped
    <3>5. /\ used' \subseteq Slots
          /\ frame' \in [Slots -> Frames \cup {NoFrame}]
          /\ done' \in [Slots -> Callbacks]
          /\ hijacked' \in BOOLEAN
      BY <3>1, <3>2, AllocateTyped
    <3>6. llQ' \in Seq(Slots)
      BY <3>1
    <3> QED
      BY <1>2, <2>1, <3>4, <3>5, <3>6 DEF SendFirst
  <2>3. CASE /\ MayNotAllocate
             /\ Push("tcpip", <<Complete(Head(applQ), FALSE)>>)
             /\ UNCHANGED <<poolVars, llQ, hijacked>>
    <3>1. <<Complete(Head(applQ), FALSE)>> \in Seq(Steps)
      BY <2>1, NextTyped
    <3>2. todo' \in [Contexts -> Seq(Steps)]
      BY <1>0, <2>3, <3>1, PushTyped
    <3> QED
      BY <1>2, <2>1, <2>3, <3>2 DEF SendFirst
  <2> QED
    BY <1>2, <2>2, <2>3 DEF SendFirst
<1>3. CASE NextNothing
  BY <1>3, SendDataAssumption DEF NextNothing
<1>4. CASE SendNext
  <2>1. Head(llQ) \in Slots /\ events' \in Seq(Events) /\ Len(events') <= QueueSize
    BY <1>4, SendDataAssumption DEF SendNext
  <2>2. Push("tcpip", <<Hand(Head(llQ))>>) /\ <<Hand(Head(llQ))>> \in Seq(Steps)
    BY <1>4, <2>1, NextTyped DEF SendNext
  <2>3. todo' \in [Contexts -> Seq(Steps)]
    BY <1>0, <2>2, PushTyped
  <2> QED
    BY <1>4, <2>1, <2>3 DEF SendNext
<1>5. CASE HandOver
  <2>1. todo["tcpip"] # <<>> /\ Head(todo["tcpip"]).slot \in Slots
    BY <1>0, <1>5, HeadTyped DEF HandOver, AtStep, Idle
  <2>2. /\ <<Arm>> \in Seq(Steps) /\ <<GiveUp>> \in Seq(Steps)
        /\ <<LLDone(FALSE)>> \in Seq(Steps)
    BY NextTyped
  <2>3. \/ Then("tcpip", <<Arm>>) \/ Then("tcpip", <<GiveUp>>)
        \/ Then("tcpip", <<LLDone(FALSE)>>)
    BY <1>5 DEF HandOver
  <2>4. todo' \in [Contexts -> Seq(Steps)]
    BY <1>0, <2>1, <2>2, <2>3, ThenTyped
  <2>5. chipCb' \in BOOLEAN /\ late' \in BOOLEAN /\ (air' = air \/ air' = Append(air, Head(todo["tcpip"]).slot))
    BY <1>5 DEF HandOver
  <2>6. air' \in Seq(Slots)
    <3> DEFINE s == Head(todo["tcpip"]).slot
    <3>1. s \in Slots /\ air \in Seq(Slots) /\ (air' = air \/ air' = Append(air, s))
      BY <2>1, <2>5
    <3> HIDE DEF s, TypeOK
    <3> QED
      BY <3>1, QueueTyped
  <2> QED
    BY <1>5, <2>4, <2>5, <2>6 DEF HandOver
<1>6. CASE ArmEmergency
  <2>1. todo["tcpip"] # <<>> /\ Then("tcpip", <<>>) /\ <<>> \in Seq(Steps)
    BY <1>6 DEF ArmEmergency, AtStep, Idle
  <2>2. todo' \in [Contexts -> Seq(Steps)]
    BY <1>0, <2>1, ThenTyped
  <2> QED
    BY <1>6, <2>2 DEF ArmEmergency
<1>7. CASE NoResponse
  <2>1. /\ todo["tcpip"] # <<>> /\ Then("tcpip", <<LLDone(FALSE)>>)
        /\ <<LLDone(FALSE)>> \in Seq(Steps)
    BY <1>7, NextTyped DEF NoResponse, AtStep, Idle
  <2>2. todo' \in [Contexts -> Seq(Steps)]
    BY <1>0, <2>1, ThenTyped
  <2> QED
    BY <1>7, <2>2 DEF NoResponse
<1> QED
  BY <1>1, <1>2, <1>3, <1>4, <1>5, <1>6, <1>7 DEF Tcpip

(* Every step of the chip and the timers keeps the state typed.            *)
LEMMA TypeEnvironment == ASSUME TypeOK, Environment PROVE TypeOK'
<1> USE DEF TypeOK, poolVars, chipVars, timerVars, ghostVars
<1>0. "sapi" \in Contexts /\ "timer" \in Contexts
  BY DEF Contexts
<1>1. ASSUME NEW ok \in BOOLEAN, ChipCallback(ok) PROVE TypeOK'
  <2>1. <<LLDone(ok)>> \in Seq(Steps)
    BY NextTyped
  <2>2. Push("sapi", <<LLDone(ok)>>) \/ todo' = todo
    BY <1>1 DEF ChipCallback
  <2>3. todo' \in [Contexts -> Seq(Steps)]
    BY <1>0, <2>1, <2>2, PushTyped
  <2>4. air # <<>> /\ air' = Tail(air) /\ chipCb' \in BOOLEAN
    BY <1>1 DEF ChipCallback
  <2>5. air' \in Seq(Slots)
    BY <2>4, QueueTyped
  <2> QED
    BY <1>1, <2>3, <2>4, <2>5 DEF ChipCallback
<1>2. CASE ChipLost
  BY <1>2 DEF ChipLost
<1>3. CASE EmergencyTimeout
  <2>1. Push("timer", <<LLDone(FALSE)>>) /\ <<LLDone(FALSE)>> \in Seq(Steps)
    BY <1>3, NextTyped DEF EmergencyTimeout
  <2>2. todo' \in [Contexts -> Seq(Steps)]
    BY <1>0, <2>1, PushTyped
  <2> QED
    BY <1>3, <2>2 DEF EmergencyTimeout
<1>4. CASE BackoffTimeout
  <2>1. Push("timer", <<Post("SEND_NEXT")>>) /\ <<Post("SEND_NEXT")>> \in Seq(Steps)
    BY <1>4, NextTyped DEF BackoffTimeout, Events
  <2>2. todo' \in [Contexts -> Seq(Steps)]
    BY <1>0, <2>1, PushTyped
  <2> QED
    BY <1>4, <2>2 DEF BackoffTimeout
<1>5. CASE RxNotify
  <2>1. Push("sapi", <<Post("SEND_NEXT")>>) /\ <<Post("SEND_NEXT")>> \in Seq(Steps)
    BY <1>5, NextTyped DEF RxNotify, Events
  <2>2. todo' \in [Contexts -> Seq(Steps)]
    BY <1>0, <2>1, PushTyped
  <2> QED
    BY <1>5, <2>2 DEF RxNotify
<1> QED
  BY <1>1, <1>2, <1>3, <1>4, <1>5 DEF Environment

(* Every step of a completion keeps the state typed.                       *)
LEMMA TypeContinue == ASSUME TypeOK, NEW c \in Contexts, Continue(c) PROVE TypeOK'
<1> USE DEF TypeOK, poolVars, chipVars, timerVars, ghostVars
<1>0. todo[c] # <<>>
  BY DEF Continue, PostEvent, LowLevelDone, CallBack, ApplDone, ReleaseAppl,
         ReturnUser, SendMore, UnlockLL, AtStep, Idle
<1>1. CASE PostEvent(c)
  <2>1. Head(todo[c]).ev \in Events
    BY <1>0, <1>1, HeadTyped DEF PostEvent, AtStep, Idle
  <2>2. Then(c, <<>>) /\ <<>> \in Seq(Steps)
    BY <1>1 DEF PostEvent
  <2>3. todo' \in [Contexts -> Seq(Steps)]
    BY <1>0, <2>2, ThenTyped
  <2>4. events' \in Seq(Events) /\ Len(events') <= QueueSize
    <3> DEFINE e == Head(todo[c]).ev
    <3>1. \/ events' = events
          \/ events' = Append(events, e) /\ Len(events) < QueueSize
      BY <1>1 DEF PostEvent
    <3> HIDE DEF e
    <3>2. e \in Events /\ events \in Seq(Events) /\ Len(events) \in Nat
           /\ Len(events) <= QueueSize /\ QueueSize \in Nat
      BY <2>1, SendDataAssumption DEF e
    <3>3. CASE events' = events
      BY <3>2, <3>3
    <3>4. CASE events' = Append(events, e) /\ Len(events) < QueueSize
      <4>1. Append(events, e) \in Seq(Events) /\ Len(Append(events, e)) = Len(events) + 1
        BY <3>2
      <4> QED
        BY <3>2, <3>4, <4>1
    <3> QED
      BY <3>1, <3>3, <3>4
  <2>5. lost' \subseteq Events
    BY <1>1, <2>1 DEF PostEvent
  <2> QED
    BY <1>1, <2>3, <2>4, <2>5 DEF PostEvent
<1>2. CASE LowLevelDone(c)
  <2>1. Head(todo[c]).ok \in BOOLEAN
    BY <1>0, <1>2, HeadTyped DEF LowLevelDone, AtStep, Idle
  <2>2. CASE lockLL /\ llQ # <<>>
    <3>1. Head(llQ) \in Slots /\ Tail(llQ) \in Seq(Slots)
      BY <2>2
    <3>2. <<Call(Head(llQ), Head(todo[c]).ok), More, Unlock>> \in Seq(Steps)
      BY <2>1, <3>1, NextTyped
    <3>3. Then(c, <<Call(Head(llQ), Head(todo[c]).ok), More, Unlock>>)
      BY <1>2, <2>2 DEF LowLevelDone
    <3>4. todo' \in [Contexts -> Seq(Steps)]
      BY <1>0, <3>2, <3>3, ThenTyped
    <3> QED
      BY <1>2, <2>2, <3>1, <3>4 DEF LowLevelDone
  <2>3. CASE ~(lockLL /\ llQ # <<>>)
    <3>1. Then(c, <<>>) /\ <<>> \in Seq(Steps)
      BY <1>2, <2>3 DEF LowLevelDone
    <3>2. todo' \in [Contexts -> Seq(Steps)]
      BY <1>0, <3>1, ThenTyped
    <3> QED
      BY <1>2, <2>3, <3>2 DEF LowLevelDone
  <2> QED
    BY <2>2, <2>3
<1>3. CASE CallBack(c)
  <2> DEFINE ok == Head(todo[c]).ok
             cb == done[Head(todo[c]).slot]
  <2>1. ok \in BOOLEAN /\ cb \in Callbacks
    BY <1>0, <1>3, HeadTyped DEF CallBack, AtStep, Idle
  <2>2. /\ cb.to = "appl" => cb.slot \in Slots
        /\ cb.to = "user" => cb.req \in Requests
        /\ cb.to \in {"none", "appl", "user"}
    <3>1. CASE cb = NoCb
      BY <3>1 DEF NoCb
    <3>2. CASE \E u \in Slots : cb = ApplCb(u)
      BY <3>2 DEF ApplCb
    <3>3. CASE \E r \in Requests : cb = UserCb(r)
      BY <3>3 DEF UserCb
    <3> QED
      BY <2>1, <3>1, <3>2, <3>3 DEF Callbacks
  <2>3. PICK next : /\ Then(c, next)
                    /\ next = CASE cb.to = "none" -> <<>>
                                [] cb.to = "appl" -> <<Complete(cb.slot, ok)>>
                                [] cb.to = "user" -> <<InUser>>
    BY <1>3 DEF CallBack
  <2>4. next \in Seq(Steps)
    BY <2>1, <2>2, <2>3, NextTyped
  <2>5. todo' \in [Contexts -> Seq(Steps)]
    BY <1>0, <2>3, <2>4, ThenTyped
  <2>6. calls' = IF cb.to = "user" /\ calls[cb.req] < 2
                 THEN [calls EXCEPT ![cb.req] = @ + 1] ELSE calls
    BY <1>3 DEF CallBack
  <2>7. calls' \in [Requests -> 0..2]
    <3>1. CASE cb.to = "user" /\ calls[cb.req] < 2
      <4>1. cb.req \in Requests /\ calls[cb.req] \in 0..2
        BY <2>2, <3>1
      <4>2. calls[cb.req] + 1 \in 0..2
        BY <3>1, <4>1
      <4> QED
        BY <2>6, <3>1, <4>1, <4>2
    <3>2. CASE ~(cb.to = "user" /\ calls[cb.req] < 2)
      BY <2>6, <3>2
    <3> QED
      BY <3>1, <3>2
  <2> QED
    BY <1>3, <2>5, <2>7 DEF CallBack
<1>4. CASE ApplDone(c)
  <2>1. Head(todo[c]).slot \in Slots /\ Head(todo[c]).ok \in BOOLEAN
    BY <1>0, <1>4, HeadTyped DEF ApplDone, AtStep, Idle
  <2>2. PICK next \in {<<>>, <<Release(Head(todo[c]).slot, Head(todo[c]).ok)>>,
                       <<Post("SEND_NEXT"), Release(Head(todo[c]).slot, Head(todo[c]).ok)>>} :
          Then(c, next)
    BY <1>4 DEF ApplDone
  <2>3. next \in Seq(Steps)
    BY <2>1, <2>2, NextTyped
  <2>4. todo' \in [Contexts -> Seq(Steps)]
    BY <1>0, <2>2, <2>3, ThenTyped
  <2>5. lock' \in BOOLEAN /\ backoff' \in BOOLEAN
    BY <1>4 DEF ApplDone
  <2> QED
    BY <1>4, <2>4, <2>5 DEF ApplDone
<1>5. CASE ReleaseAppl(c)
  <2>1. Head(todo[c]).slot \in Slots /\ Head(todo[c]).ok \in BOOLEAN
    BY <1>0, <1>5, HeadTyped DEF ReleaseAppl, AtStep, Idle
  <2>2. <<Call(Head(todo[c]).slot, Head(todo[c]).ok)>> \in Seq(Steps)
    BY <2>1, NextTyped
  <2>3. todo' \in [Contexts -> Seq(Steps)]
    BY <1>0, <1>5, <2>2, ThenTyped DEF ReleaseAppl
  <2> QED
    BY <1>5, <2>3 DEF ReleaseAppl
<1>6. CASE ReturnUser(c) \/ UnlockLL(c)
  <2>1. Then(c, <<>>) /\ <<>> \in Seq(Steps)
    BY <1>6 DEF ReturnUser, UnlockLL
  <2>2. todo' \in [Contexts -> Seq(Steps)]
    BY <1>0, <2>1, ThenTyped
  <2> QED
    BY <1>6, <2>2 DEF ReturnUser, UnlockLL
<1>7. CASE SendMore(c)
  <2>1. PICK next \in {<<Post("SEND_NEXT_LL")>>, <<>>} : Then(c, next)
    BY <1>7 DEF SendMore
  <2>2. next \in Seq(Steps)
    BY <2>1, NextTyped DEF Events
  <2>3. todo' \in [Contexts -> Seq(Steps)]
    BY <1>0, <2>1, <2>2, ThenTyped
  <2> QED
    BY <1>7, <2>3 DEF SendMore
<1> QED
  BY <1>1, <1>2, <1>3, <1>4, <1>5, <1>6, <1>7 DEF Continue

(* The state of the send layer is always typed: in particular the event    *)
(* queue never holds more than QueueSize events, the two lists hold blocks *)
(* of session_memb only, and every step of a context is one of the code's. *)
THEOREM TypeCorrect == Spec => []TypeOK
<1>1. ASSUME TypeOK, [Next]_vars PROVE TypeOK'
  <2>1. CASE Next
    BY <1>1, <2>1, TypeSend, TypeTcpip, TypeEnvironment, TypeContinue DEF Next
  <2>2. CASE UNCHANGED vars
    BY <1>1, <2>2 DEF TypeOK, vars
  <2> QED
    BY <1>1, <2>1, <2>2
<1> QED
  BY TypeInit, <1>1, PTL DEF Spec

-----------------------------------------------------------------------------
(* The places of a session: session_list, send_data_list, on the way to its *)
(* callback, or, for an application session, in sli_zw_appl_send_data_cb_ex.*)
SlotOps == {"call", "complete", "release"}
InSteps(ops) ==
  {s \in Slots : \E c \in Contexts : \E i \in 1..Len(todo[c]) :
     todo[c][i].op \in ops /\ todo[c][i].slot = s}
Waiting == SlotsOf(applQ)
Low == SlotsOf(llQ)
Calling == InSteps({"call"})
Ending == InSteps({"complete", "release"})

Once(q) == \A i, j \in 1..Len(q) : q[i] = q[j] => i = j
OneStep ==
  \A c, d \in Contexts : \A i \in 1..Len(todo[c]), j \in 1..Len(todo[d]) :
    /\ todo[c][i].op \in SlotOps /\ todo[d][j].op \in SlotOps
    /\ todo[c][i].slot = todo[d][j].slot
    => c = d /\ i = j

(* No session is in two places, and all but one that is being called back  *)
(* are allocated.                                                          *)
Apart ==
  /\ Waiting \cap Low = {} /\ Waiting \cap Calling = {}
  /\ Waiting \cap Ending = {} /\ Low \cap Calling = {}
  /\ Low \cap Ending = {} /\ Calling \cap Ending = {}
  /\ Waiting \cup Low \cup Ending \subseteq used /\ Calling \cap used = {}

(* Whom the callback of a session belongs to.                              *)
IsUser(s) == \E r \in Requests : done[s] = UserCb(r)
Kinds ==
  /\ \A s \in Waiting : frame[s] \in Requests /\ done[s] = UserCb(frame[s])
  /\ \A s \in Low : done[s] = NoCb \/ \E u \in Slots : done[s] = ApplCb(u)
  /\ \A s \in Ending : IsUser(s)

(* An application session that was handed down has one low-level session,  *)
(* and no other place.                                                     *)
HandedDown ==
  /\ \A t \in Low \cup Calling, u \in Slots : done[t] = ApplCb(u) =>
       u \in used /\ u \notin Waiting \cup Ending /\ IsUser(u)
  /\ \A t, v \in Low \cup Calling, u \in Slots :
       done[t] = ApplCb(u) /\ done[v] = ApplCb(u) => t = v

(* A request has one session, until it is called back.                     *)
Owed ==
  /\ \A s \in used \cup Calling, r \in Requests : done[s] = UserCb(r) =>
       phase[r] = "accepted" /\ calls[r] = 0
  /\ \A s, v \in used \cup Calling, r \in Requests :
       done[s] = UserCb(r) /\ done[v] = UserCb(r) => s = v
  /\ \A r \in Requests :
       calls[r] <= 1 /\ (calls[r] = 1 => phase[r] = "accepted")

Own == Once(applQ) /\ Once(llQ) /\ OneStep /\ Apart /\ Kinds /\ HandedDown /\ Owed
OwnInv == TypeOK /\ (~hijacked => Own)

-----------------------------------------------------------------------------
(* Lists.                                                                  *)
LEMMA AppendOnce ==
  ASSUME NEW S, NEW q \in Seq(S), NEW e \in S
  PROVE  /\ SlotsOf(Append(q, e)) = SlotsOf(q) \cup {e}
         /\ Once(q) /\ e \notin SlotsOf(q) => Once(Append(q, e))
<1>1. /\ Len(Append(q, e)) = Len(q) + 1 /\ Append(q, e)[Len(q) + 1] = e
      /\ \A i \in 1..Len(q) : Append(q, e)[i] = q[i]
  OBVIOUS
<1> QED
  BY <1>1 DEF SlotsOf, Once

(* A list that lost its head.                                              *)
LEMMA TailOnce ==
  ASSUME NEW S, NEW q \in Seq(S), q # <<>>, Once(q)
  PROVE  /\ SlotsOf(Tail(q)) \subseteq SlotsOf(q) \ {Head(q)}
         /\ Once(Tail(q)) /\ Head(q) \in SlotsOf(q)
<1>1. /\ Len(Tail(q)) = Len(q) - 1 /\ Head(q) = q[1] /\ Len(q) \in Nat \ {0}
      /\ \A i \in 1..Len(q) - 1 : Tail(q)[i] = q[i + 1]
  OBVIOUS
<1> QED
  BY <1>1 DEF SlotsOf, Once

(* The elements of two lists in a row.                                     *)
LEMMA Concatenated ==
  ASSUME NEW S, NEW a \in Seq(S), NEW b \in Seq(S)
  PROVE  /\ Len(a \o b) = Len(a) + Len(b)
         /\ \A j \in 1..Len(a) + Len(b) :
              (a \o b)[j] = IF j <= Len(a) THEN a[j] ELSE b[j - Len(a)]
OBVIOUS

(* Lists with the same elements are the same.                              *)
LEMMA SameList ==
  ASSUME NEW S, NEW a \in Seq(S), NEW b \in Seq(S), Len(a) = Len(b),
         \A i \in 1..Len(a) : a[i] = b[i]
  PROVE  a = b
OBVIOUS

(* The elements of a list without its i-th one.                            *)
LEMMA WithoutIndex ==
  ASSUME NEW S, NEW q \in Seq(S), NEW i \in 1..Len(q)
  PROVE  /\ Len(Without(q, i)) = Len(q) - 1
         /\ \A j \in 1..Len(q) - 1 :
              Without(q, i)[j] = IF j < i THEN q[j] ELSE q[j + 1]
<1> DEFINE n == Len(q)
<1>1. n \in Nat /\ i \in Nat /\ 1 <= i /\ i <= n
  OBVIOUS
<1>2. /\ Len(SubSeq(q, 1, i - 1)) = i - 1 /\ SubSeq(q, 1, i - 1) \in Seq(S)
      /\ \A j \in 1..i - 1 : SubSeq(q, 1, i - 1)[j] = q[j]
  BY <1>1
<1>3. /\ Len(SubSeq(q, i + 1, n)) = n - i /\ SubSeq(q, i + 1, n) \in Seq(S)
      /\ \A j \in 1..n - i : SubSeq(q, i + 1, n)[j] = q[i + j]
  BY <1>1
<1>4. /\ Len(Without(q, i)) = n - 1
      /\ \A j \in 1..n - 1 : Without(q, i)[j] = IF j < i THEN q[j] ELSE q[j + 1]
  <2> DEFINE a == SubSeq(q, 1, i - 1)
             b == SubSeq(q, i + 1, n)
  <2>1. /\ Len(a \o b) = Len(a) + Len(b)
        /\ \A j \in 1..Len(a) + Len(b) :
             (a \o b)[j] = IF j <= Len(a) THEN a[j] ELSE b[j - Len(a)]
    <3>1. a \in Seq(S) /\ b \in Seq(S)
      BY <1>2, <1>3
    <3> HIDE DEF a, b
    <3> QED
      BY <3>1, Concatenated
  <2>2. Without(q, i) = a \o b
    BY DEF Without
  <2> HIDE DEF a, b
  <2>3. Len(a) = i - 1 /\ Len(b) = n - i
    BY <1>2, <1>3 DEF a, b
  <2>4. ASSUME NEW j \in 1..n - 1
        PROVE  (a \o b)[j] = IF j < i THEN q[j] ELSE q[j + 1]
    <3>1. CASE j < i
      BY <3>1, <1>1, <1>2, <2>1, <2>3 DEF a
    <3>2. CASE ~(j < i)
      <4>1. j - Len(a) \in 1..n - i /\ i + (j - Len(a)) = j + 1
        BY <3>2, <1>1, <2>3
      <4>2. b[j - Len(a)] = q[i + (j - Len(a))]
        BY <4>1, <1>3 DEF b
      <4>3. j \in 1..Len(a) + Len(b) /\ ~(j <= Len(a))
        BY <3>2, <1>1, <2>3
      <4>4. (a \o b)[j] = b[j - Len(a)]
        BY <4>3, <2>1
      <4> QED
        BY <3>2, <4>1, <4>2, <4>4
    <3> QED
      BY <3>1, <3>2
  <2>5. Len(Without(q, i)) = n - 1
    BY <2>1, <2>2, <2>3, <1>1
  <2> QED
    BY <2>2, <2>4, <2>5
<1> QED
  BY <1>4

(* list_remove of a list that holds each block once takes the block off.   *)
LEMMA WithoutOnce ==
  ASSUME NEW S, NEW q \in Seq(S), NEW i \in 1..Len(q), Once(q)
  PROVE  /\ SlotsOf(Without(q, i)) \subseteq SlotsOf(q) \ {q[i]}
         /\ Once(Without(q, i)) /\ q[i] \in SlotsOf(q)
<1> DEFINE n == Len(q)
<1>1. n \in Nat /\ i \in Nat /\ 1 <= i /\ i <= n
  OBVIOUS
<1>4. /\ Len(Without(q, i)) = n - 1
      /\ \A j \in 1..n - 1 : Without(q, i)[j] = IF j < i THEN q[j] ELSE q[j + 1]
  BY WithoutIndex
<1> HIDE DEF n
<1>5. \A j \in 1..n : q[j] = q[i] => j = i
  BY <1>1 DEF Once, n
<1>6. SlotsOf(Without(q, i)) \subseteq SlotsOf(q) \ {q[i]} /\ q[i] \in SlotsOf(q)
  BY <1>1, <1>4, <1>5 DEF SlotsOf, n
<1>7. Once(Without(q, i))
  BY <1>1, <1>4 DEF Once, n
<1> QED
  BY <1>6, <1>7

-----------------------------------------------------------------------------
(* Steps.  next has at most one step with a session, x.                    *)
OnlyStep(next, x) ==
  /\ \A i \in 1..Len(next) : next[i].op \in SlotOps => next[i] = x
  /\ \A i, j \in 1..Len(next) :
       next[i].op \in SlotOps /\ next[j].op \in SlotOps => i = j

(* A step that works on a session names a slot.                            *)
LEMMA StepSlot == \A y \in Steps : y.op \in SlotOps => y.slot \in Slots
BY DEF Steps, SlotOps, Post, InUser, More, Unlock, GiveUp, Arm, LLDone, Hand, Call, Complete, Release

(* The steps of c after its first one was replaced, by where they came from. *)
LEMMA ThenIndex ==
  ASSUME todo \in [Contexts -> Seq(Steps)],
         NEW c \in Contexts, NEW next \in Seq(Steps), todo[c] # <<>>,
         Then(c, next),
         NEW d \in Contexts, NEW i \in 1..Len(todo'[d])
  PROVE  \/ d = c /\ i \in 1..Len(next) /\ todo'[d][i] = next[i]
         \/ d = c /\ i - Len(next) + 1 \in 2..Len(todo[d])
                  /\ todo'[d][i] = todo[d][i - Len(next) + 1]
         \/ d # c /\ i \in 1..Len(todo[d]) /\ todo'[d][i] = todo[d][i]
<1>1. CASE d = c
  <2>1. todo'[d] = next \o Tail(todo[c])
    BY <1>1 DEF Then
  <2>2. /\ Tail(todo[c]) \in Seq(Steps) /\ Len(Tail(todo[c])) = Len(todo[c]) - 1
        /\ Len(todo[c]) \in Nat \ {0} /\ Len(next) \in Nat
        /\ \A j \in 1..Len(todo[c]) - 1 : Tail(todo[c])[j] = todo[c][j + 1]
    OBVIOUS
  <2>3. /\ Len(todo'[d]) = Len(next) + Len(todo[c]) - 1
        /\ \A j \in 1..Len(next) : todo'[d][j] = next[j]
        /\ \A j \in 1..Len(next) + Len(todo[c]) - 1 :
             j > Len(next) => todo'[d][j] = Tail(todo[c])[j - Len(next)]
    BY <2>1, <2>2
  <2>4. CASE i <= Len(next)
    BY <2>3, <2>4, <2>2, <1>1
  <2>5. CASE i > Len(next)
    <3>1. i - Len(next) \in 1..Len(todo[c]) - 1
      BY <2>2, <2>3, <2>5
    <3>2. todo'[d][i] = todo[c][i - Len(next) + 1]
      BY <3>1, <2>2, <2>3, <2>5
    <3> QED
      BY <3>1, <3>2, <1>1, <2>2
  <2> QED
    BY <2>2, <2>3, <2>4, <2>5
<1>2. CASE d # c
  BY <1>2 DEF Then
<1> QED
  BY <1>1, <1>2

(* The steps of a context after one was replaced: no session is new but    *)
(* that of x, and the session of the step that was replaced is gone.       *)
LEMMA ThenSteps ==
  ASSUME todo \in [Contexts -> Seq(Steps)], OneStep,
         NEW c \in Contexts, NEW next \in Seq(Steps), todo[c] # <<>>,
         Then(c, next), NEW x, OnlyStep(next, x)
  PROVE  /\ \A ops \in SUBSET SlotOps, s \in Slots : s \in InSteps(ops)' =>
              \/ x.op \in ops /\ x.slot = s
              \/ /\ s \in InSteps(ops)
                 /\ ~(Head(todo[c]).op \in SlotOps /\ Head(todo[c]).slot = s)
         /\ (x.op \in SlotOps /\ x.slot \in InSteps(SlotOps) =>
                Head(todo[c]).op \in SlotOps /\ Head(todo[c]).slot = x.slot)
             => OneStep'
<1>0. Head(todo[c]) = todo[c][1] /\ 1 \in 1..Len(todo[c]) /\ Len(next) \in Nat
  OBVIOUS
<1> DEFINE
  Old(d, i, j) == /\ j \in 1..Len(todo[d]) /\ todo'[d][i] = todo[d][j]
                  /\ d = c => j = i - Len(next) + 1 /\ j # 1
                  /\ d # c => j = i
  New(d, i) == d = c /\ i \in 1..Len(next) /\ todo'[d][i] = next[i]
<1>1. ASSUME NEW d \in Contexts, NEW i \in 1..Len(todo'[d])
      PROVE  New(d, i) \/ \E j \in 1..Len(todo[d]) : Old(d, i, j)
  <2>1. \/ New(d, i)
        \/ d = c /\ Old(d, i, i - Len(next) + 1)
           /\ i - Len(next) + 1 \in 1..Len(todo[d])
        \/ d # c /\ Old(d, i, i) /\ i \in 1..Len(todo[d])
    BY ThenIndex, <1>1
  <2> HIDE DEF Old, New
  <2> QED
    BY <2>1
<1>2. ASSUME NEW d \in Contexts, NEW i \in 1..Len(todo'[d]),
             NEW j \in 1..Len(todo[d]), Old(d, i, j),
             todo'[d][i].op \in SlotOps, Head(todo[c]).op \in SlotOps
      PROVE  Head(todo[c]).slot # todo'[d][i].slot
  BY <1>2, <1>0 DEF OneStep
<1>3. ASSUME NEW ops \in SUBSET SlotOps, NEW s, s \in InSteps(ops)'
      PROVE  \/ x.op \in ops /\ x.slot = s
             \/ /\ s \in InSteps(ops)
                /\ ~(Head(todo[c]).op \in SlotOps /\ Head(todo[c]).slot = s)
  <2>1. PICK d \in Contexts : \E i \in 1..Len(todo'[d]) :
          todo'[d][i].op \in ops /\ todo'[d][i].slot = s
    BY <1>3 DEF InSteps
  <2>0. PICK i \in 1..Len(todo'[d]) :
          todo'[d][i].op \in ops /\ todo'[d][i].slot = s
    BY <2>1
  <2>2. CASE New(d, i)
    BY <2>0, <2>2 DEF OnlyStep
  <2>3. ASSUME NEW j \in 1..Len(todo[d]), Old(d, i, j)
        PROVE  s \in InSteps(ops) /\ ~(Head(todo[c]).op \in SlotOps /\ Head(todo[c]).slot = s)
    <3>1. s \in InSteps(ops)
      BY <1>3, <2>0, <2>3 DEF InSteps
    <3> QED
      BY <1>3, <3>1, <2>0, <2>3, <1>2
  <2> QED
    BY <1>1, <2>2, <2>3
<1>4. ASSUME x.op \in SlotOps /\ x.slot \in InSteps(SlotOps) =>
               Head(todo[c]).op \in SlotOps /\ Head(todo[c]).slot = x.slot,
             NEW d \in Contexts, NEW e \in Contexts,
             NEW i \in 1..Len(todo'[d]), NEW k \in 1..Len(todo'[e]),
             todo'[d][i].op \in SlotOps, todo'[e][k].op \in SlotOps,
             todo'[d][i].slot = todo'[e][k].slot, todo'[d][i].slot \in Slots
      PROVE  d = e /\ i = k
  <2>1. CASE New(d, i) /\ New(e, k)
    BY <1>4, <2>1 DEF OnlyStep
  <2>2. ASSUME New(d, i), NEW j \in 1..Len(todo[e]), Old(e, k, j)
        PROVE  FALSE
    <3>1. todo'[e][k].slot = x.slot /\ x.op \in SlotOps
      BY <1>4, <2>2 DEF OnlyStep
    <3>2. x.slot \in InSteps(SlotOps)
      BY <1>4, <2>2, <3>1 DEF InSteps
    <3> QED
      BY <1>4, <1>2, <2>2, <3>1, <3>2
  <2>3. ASSUME New(e, k), NEW j \in 1..Len(todo[d]), Old(d, i, j)
        PROVE  FALSE
    <3>1. todo'[d][i].slot = x.slot /\ x.op \in SlotOps
      BY <1>4, <2>3 DEF OnlyStep
    <3>2. x.slot \in InSteps(SlotOps)
      BY <1>4, <2>3, <3>1 DEF InSteps
    <3> QED
      BY <1>4, <1>2, <2>3, <3>1, <3>2
  <2>4. ASSUME NEW j \in 1..Len(todo[d]), NEW m \in 1..Len(todo[e]),
               Old(d, i, j), Old(e, k, m)
        PROVE  d = e /\ i = k
    <3>1. d = e /\ j = m
      BY <1>4, <2>4 DEF OneStep
    <3> QED
      BY <2>4, <3>1, <1>0
  <2>5. /\ New(d, i) \/ \E j \in 1..Len(todo[d]) : Old(d, i, j)
        /\ New(e, k) \/ \E j \in 1..Len(todo[e]) : Old(e, k, j)
    BY <1>1
  <2> HIDE DEF Old, New
  <2> QED
    BY <2>1, <2>2, <2>3, <2>4, <2>5
<1> HIDE DEF Old, New
<1>6. \A d \in Contexts : \A i \in 1..Len(todo'[d]) :
        todo'[d][i].op \in SlotOps => todo'[d][i].slot \in Slots
  BY ThenTyped, StepSlot
<1>7. (x.op \in SlotOps /\ x.slot \in InSteps(SlotOps) =>
         Head(todo[c]).op \in SlotOps /\ Head(todo[c]).slot = x.slot) => OneStep'
  <2>1. SUFFICES ASSUME x.op \in SlotOps /\ x.slot \in InSteps(SlotOps) =>
                          Head(todo[c]).op \in SlotOps /\ Head(todo[c]).slot = x.slot,
                        NEW d \in Contexts, NEW e \in Contexts,
                        NEW i \in 1..Len(todo'[d]), NEW k \in 1..Len(todo'[e]),
                        todo'[d][i].op \in SlotOps, todo'[e][k].op \in SlotOps,
                        todo'[d][i].slot = todo'[e][k].slot
                 PROVE  d = e /\ i = k
    BY DEF OneStep
  <2>2. todo'[d][i].slot \in Slots
    BY <2>1, <1>6
  <2> QED
    BY <2>1, <2>2, <1>4
<1> QED
  BY <1>3, <1>7

(* The same for steps that are pushed in front of the others.              *)
LEMMA PushSteps ==
  ASSUME todo \in [Contexts -> Seq(Steps)], OneStep,
         NEW c \in Contexts, NEW next \in Seq(Steps),
         Push(c, next), NEW x, OnlyStep(next, x)
  PROVE  /\ \A ops \in SUBSET SlotOps, s \in Slots : s \in InSteps(ops)' =>
              (x.op \in ops /\ x.slot = s) \/ s \in InSteps(ops)
         /\ ~(x.op \in SlotOps /\ x.slot \in InSteps(SlotOps)) => OneStep'
<1> DEFINE
  Old(d, i, j) == /\ j \in 1..Len(todo[d]) /\ todo'[d][i] = todo[d][j]
                  /\ i \in Nat /\ i = IF d = c THEN j + Len(next) ELSE j
  New(d, i) == d = c /\ i \in 1..Len(next) /\ todo'[d][i] = next[i]
<1>0. Len(next) \in Nat
  OBVIOUS
<1>1. ASSUME NEW d \in Contexts, NEW i \in 1..Len(todo'[d])
      PROVE  New(d, i) \/ \E j \in 1..Len(todo[d]) : Old(d, i, j)
  <2>1. CASE d = c
    <3>1. todo'[d] = next \o todo[c] /\ todo[c] \in Seq(Steps)
      BY <2>1 DEF Push
    <3>2. /\ Len(todo'[d]) = Len(next) + Len(todo[c]) /\ Len(todo[c]) \in Nat
          /\ \A j \in 1..Len(next) + Len(todo[c]) :
               todo'[d][j] = IF j <= Len(next) THEN next[j] ELSE todo[c][j - Len(next)]
      BY <3>1, Concatenated
    <3>3. CASE i <= Len(next)
      BY <2>1, <3>2, <3>3, <1>0
    <3>4. CASE i > Len(next)
      <4>1. Old(d, i, i - Len(next)) /\ i - Len(next) \in 1..Len(todo[d])
        BY <2>1, <3>2, <3>4, <1>0
      <4> QED
        BY <4>1
    <3> QED
      BY <3>3, <3>4, <1>0
  <2>2. CASE d # c
    <3>1. Old(d, i, i) /\ i \in 1..Len(todo[d])
      BY <2>2 DEF Push
    <3> QED
      BY <3>1
  <2> QED
    BY <2>1, <2>2
<1>2. ASSUME NEW ops \in SUBSET SlotOps, NEW s \in Slots, s \in InSteps(ops)'
      PROVE  (x.op \in ops /\ x.slot = s) \/ s \in InSteps(ops)
  <2>1. PICK d \in Contexts : \E i \in 1..Len(todo'[d]) :
          todo'[d][i].op \in ops /\ todo'[d][i].slot = s
    BY <1>2 DEF InSteps
  <2>2. PICK i \in 1..Len(todo'[d]) :
          todo'[d][i].op \in ops /\ todo'[d][i].slot = s
    BY <2>1
  <2>3. CASE New(d, i)
    BY <2>2, <2>3 DEF OnlyStep
  <2>4. ASSUME NEW j \in 1..Len(todo[d]), Old(d, i, j)
        PROVE  s \in InSteps(ops)
    BY <1>2, <2>2, <2>4 DEF InSteps
  <2> QED
    BY <1>1, <2>3, <2>4
<1>3. ASSUME ~(x.op \in SlotOps /\ x.slot \in InSteps(SlotOps)),
             NEW d \in Contexts, NEW e \in Contexts,
             NEW i \in 1..Len(todo'[d]), NEW k \in 1..Len(todo'[e]),
             todo'[d][i].op \in SlotOps, todo'[e][k].op \in SlotOps,
             todo'[d][i].slot = todo'[e][k].slot, todo'[d][i].slot \in Slots
      PROVE  d = e /\ i = k
  <2>1. CASE New(d, i) /\ New(e, k)
    BY <1>3, <2>1 DEF OnlyStep
  <2>2. ASSUME New(d, i), NEW j \in 1..Len(todo[e]), Old(e, k, j)
        PROVE  FALSE
    <3>1. todo'[e][k].slot = x.slot /\ x.op \in SlotOps
      BY <1>3, <2>2 DEF OnlyStep
    <3>2. x.slot \in InSteps(SlotOps)
      BY <1>3, <2>2, <3>1 DEF InSteps
    <3> QED
      BY <1>3, <3>1, <3>2
  <2>3. ASSUME New(e, k), NEW j \in 1..Len(todo[d]), Old(d, i, j)
        PROVE  FALSE
    <3>1. todo'[d][i].slot = x.slot /\ x.op \in SlotOps
      BY <1>3, <2>3 DEF OnlyStep
    <3>2. x.slot \in InSteps(SlotOps)
      BY <1>3, <2>3, <3>1 DEF InSteps
    <3> QED
      BY <1>3, <3>1, <3>2
  <2>4. ASSUME NEW j \in 1..Len(todo[d]), NEW m \in 1..Len(todo[e]),
               Old(d, i, j), Old(e, k, m)
        PROVE  d = e /\ i = k
    <3>1. d = e /\ j = m
      BY <1>3, <2>4 DEF OneStep
    <3> QED
      BY <2>4, <3>1, <1>0
  <2>5. /\ New(d, i) \/ \E j \in 1..Len(todo[d]) : Old(d, i, j)
        /\ New(e, k) \/ \E j \in 1..Len(todo[e]) : Old(e, k, j)
    BY <1>1
  <2> HIDE DEF Old, New
  <2> QED
    BY <2>1, <2>2, <2>3, <2>4, <2>5
<1> HIDE DEF Old, New
<1>4. \A d \in Contexts : \A i \in 1..Len(todo'[d]) :
        todo'[d][i].op \in SlotOps => todo'[d][i].slot \in Slots
  BY PushTyped, StepSlot
<1>5. ~(x.op \in SlotOps /\ x.slot \in InSteps(SlotOps)) => OneStep'
  <2>1. SUFFICES ASSUME ~(x.op \in SlotOps /\ x.slot \in InSteps(SlotOps)),
                        NEW d \in Contexts, NEW e \in Contexts,
                        NEW i \in 1..Len(todo'[d]), NEW k \in 1..Len(todo'[e]),
                        todo'[d][i].op \in SlotOps, todo'[e][k].op \in SlotOps,
                        todo'[d][i].slot = todo'[e][k].slot
                 PROVE  d = e /\ i = k
    BY DEF OneStep
  <2>2. todo'[d][i].slot \in Slots
    BY <2>1, <1>4
  <2> QED
    BY <2>1, <2>2, <1>3
<1> QED
  BY <1>2, <1>5

-----------------------------------------------------------------------------
(* Steps without a session leave every session in its place.               *)
NoSession(next) == \A i \in 1..Len(next) : next[i].op \notin SlotOps

(* Replacing the first step of c by steps without a session moves none.    *)
LEMMA QuietThen ==
  ASSUME todo \in [Contexts -> Seq(Steps)], OneStep,
         NEW c \in Contexts, NEW next \in Seq(Steps), todo[c] # <<>>,
         Then(c, next), NoSession(next)
  PROVE  Calling' \subseteq Calling /\ Ending' \subseteq Ending /\ OneStep'
<1>1. OnlyStep(next, More) /\ More.op \notin SlotOps
  BY DEF OnlyStep, NoSession, More, SlotOps
<1>2. {"call"} \in SUBSET SlotOps /\ {"complete", "release"} \in SUBSET SlotOps
  BY DEF SlotOps
<1>3. OneStep' /\ \A ops \in SUBSET SlotOps, s \in Slots :
                   s \in InSteps(ops)' => s \in InSteps(ops)
  BY <1>1, ThenSteps
<1> QED
  BY <1>2, <1>3 DEF Calling, Ending, InSteps

(* Pushing steps without a session moves none.                             *)
LEMMA QuietPush ==
  ASSUME todo \in [Contexts -> Seq(Steps)], OneStep,
         NEW c \in Contexts, NEW next \in Seq(Steps),
         Push(c, next), NoSession(next)
  PROVE  Calling' \subseteq Calling /\ Ending' \subseteq Ending /\ OneStep'
<1>1. OnlyStep(next, More) /\ More.op \notin SlotOps
  BY DEF OnlyStep, NoSession, More, SlotOps
<1>2. {"call"} \in SUBSET SlotOps /\ {"complete", "release"} \in SUBSET SlotOps
  BY DEF SlotOps
<1>3. OneStep' /\ \A ops \in SUBSET SlotOps, s \in Slots :
                   s \in InSteps(ops)' => s \in InSteps(ops)
  BY <1>1, PushSteps
<1> QED
  BY <1>2, <1>3 DEF Calling, Ending, InSteps

(* The steps are as they were, so no session moves.                        *)
LEMMA QuietTodo ==
  ASSUME OneStep, todo' = todo
  PROVE  Calling' \subseteq Calling /\ Ending' \subseteq Ending /\ OneStep'
BY DEF Calling, Ending, InSteps, OneStep

(* The sequences of steps without a session.                               *)
LEMMA NoSessions ==
  /\ NoSession(<<>>) /\ NoSession(<<InUser>>) /\ NoSession(<<GiveUp>>) /\ NoSession(<<Arm>>)
  /\ \A e \in Events : NoSession(<<Post(e)>>)
  /\ \A ok \in BOOLEAN : NoSession(<<LLDone(ok)>>)
  /\ \A s \in Slots : NoSession(<<Hand(s)>>)
BY DEF NoSession, SlotOps, InUser, GiveUp, Arm, Post, LLDone, Hand

(* A step that keeps the lists and the pool, and moves no session.         *)
LEMMA QuietOwn ==
  ASSUME Own, UNCHANGED <<phase, calls, used, frame, done, applQ, llQ>>,
         Calling' \subseteq Calling, Ending' \subseteq Ending, OneStep'
  PROVE  Own'
<1>1. Waiting' = Waiting /\ Low' = Low /\ Once(applQ)' /\ Once(llQ)'
  BY DEF Own, Waiting, Low, SlotsOf, Once
<1>2. Apart'
  BY <1>1 DEF Own, Apart
<1>3. Kinds'
  BY <1>1 DEF Own, Kinds, IsUser
<1>4. HandedDown'
  BY <1>1 DEF Own, HandedDown, IsUser
<1>5. Owed'
  BY <1>1 DEF Own, Owed
<1> QED
  BY <1>1, <1>2, <1>3, <1>4, <1>5 DEF Own

-----------------------------------------------------------------------------
(* tcpip_t, the chip and the timers, but for send_first.                   *)
LEMMA OwnQuiet ==
  ASSUME TypeOK, Own,
         \/ StartNothing \/ NextNothing \/ SendNext \/ HandOver \/ NoResponse
         \/ ArmEmergency \/ Environment
  PROVE  Own'
<1> USE DEF TypeOK, Own, poolVars, chipVars, timerVars, ghostVars
<1>0. /\ "tcpip" \in Contexts /\ "sapi" \in Contexts /\ "timer" \in Contexts
      /\ {"SEND_NEXT", "SEND_NEXT_LL"} \subseteq Events
  BY DEF Contexts, Events
<1>1. CASE StartNothing \/ NextNothing \/ ChipLost
  BY <1>1, QuietTodo, QuietOwn DEF StartNothing, NextNothing, ChipLost
<1>2. CASE SendNext
  <2>1. Head(llQ) \in Slots
    BY <1>2 DEF SendNext
  <2>2. Push("tcpip", <<Hand(Head(llQ))>>) /\ <<Hand(Head(llQ))>> \in Seq(Steps)
    BY <1>2, <2>1, NextTyped DEF SendNext
  <2> QED
    BY <1>0, <1>2, <2>1, <2>2, NoSessions, QuietPush, QuietOwn DEF SendNext
<1>3. CASE HandOver
  <2>1. todo["tcpip"] # <<>>
    BY <1>3 DEF HandOver, AtStep, Idle
  <2>2. \/ Then("tcpip", <<Arm>>) \/ Then("tcpip", <<LLDone(FALSE)>>)
        \/ Then("tcpip", <<GiveUp>>)
    BY <1>3 DEF HandOver
  <2>3. Calling' \subseteq Calling /\ Ending' \subseteq Ending /\ OneStep'
    BY <1>0, <2>1, <2>2, NextTyped, NoSessions, QuietThen
  <2> QED
    BY <1>3, <2>3, QuietOwn DEF HandOver
<1>4. CASE NoResponse
  <2>1. todo["tcpip"] # <<>> /\ Then("tcpip", <<LLDone(FALSE)>>)
    BY <1>4 DEF NoResponse, AtStep, Idle
  <2> QED
    BY <1>0, <1>4, <2>1, NextTyped, NoSessions, QuietThen, QuietOwn DEF NoResponse
<1>5. CASE ArmEmergency
  <2>1. todo["tcpip"] # <<>> /\ Then("tcpip", <<>>)
    BY <1>5 DEF ArmEmergency, AtStep, Idle
  <2> QED
    BY <1>0, <1>5, <2>1, NextTyped, NoSessions, QuietThen, QuietOwn DEF ArmEmergency
<1>6. ASSUME NEW ok \in BOOLEAN, ChipCallback(ok) PROVE Own'
  <2>1. todo' = todo \/ Push("sapi", <<LLDone(ok)>>)
    BY <1>6 DEF ChipCallback
  <2>2. Calling' \subseteq Calling /\ Ending' \subseteq Ending /\ OneStep'
    BY <1>0, <1>6, <2>1, NextTyped, NoSessions, QuietPush, QuietTodo
  <2> QED
    BY <1>6, <2>2, QuietOwn DEF ChipCallback
<1>7. CASE EmergencyTimeout
  <2>1. Push("timer", <<LLDone(FALSE)>>)
    BY <1>7 DEF EmergencyTimeout
  <2> QED
    BY <1>0, <1>7, <2>1, NextTyped, NoSessions, QuietPush, QuietOwn DEF EmergencyTimeout
<1>8. CASE BackoffTimeout
  <2>1. Push("timer", <<Post("SEND_NEXT")>>)
    BY <1>8 DEF BackoffTimeout
  <2> QED
    BY <1>0, <1>8, <2>1, NextTyped, NoSessions, QuietPush, QuietOwn DEF BackoffTimeout
<1>9. CASE RxNotify
  <2>1. Push("sapi", <<Post("SEND_NEXT")>>)
    BY <1>9 DEF RxNotify
  <2> QED
    BY <1>0, <1>9, <2>1, NextTyped, NoSessions, QuietPush, QuietOwn DEF RxNotify
<1> QED
  BY <1>1, <1>2, <1>3, <1>4, <1>5, <1>6, <1>7, <1>8, <1>9 DEF Environment

-----------------------------------------------------------------------------
(* Steps that give the session u a place.                                  *)
SessionOf(x, ops) == IF x.op \in ops THEN {x.slot} ELSE {}

(* A single step is the only one of its sequence.                          *)
LEMMA OneOnly == ASSUME NEW x PROVE OnlyStep(<<x>>, x)
BY DEF OnlyStep

(* The steps with a session are callbacks or ends of application sessions. *)
LEMMA AllSteps == InSteps(SlotOps) = Calling \cup Ending
BY DEF InSteps, SlotOps, Calling, Ending

(* Pushing one step with a session puts it in the place of that step.      *)
LEMMA MovePush ==
  ASSUME todo \in [Contexts -> Seq(Steps)], OneStep,
         NEW c \in Contexts, NEW next \in Seq(Steps),
         Push(c, next), NEW x, OnlyStep(next, x), x.slot \notin Calling \cup Ending
  PROVE  /\ OneStep'
         /\ Calling' \subseteq Calling \cup SessionOf(x, {"call"})
         /\ Ending' \subseteq Ending \cup SessionOf(x, {"complete", "release"})
<1>1. {"call"} \in SUBSET SlotOps /\ {"complete", "release"} \in SUBSET SlotOps
  BY DEF SlotOps
<1>2. /\ OneStep'
      /\ \A ops \in SUBSET SlotOps, s \in Slots : s \in InSteps(ops)' =>
           (x.op \in ops /\ x.slot = s) \/ s \in InSteps(ops)
  <2>1. x.slot \notin InSteps(SlotOps)
    BY AllSteps
  <2>2. /\ \A ops \in SUBSET SlotOps, s \in Slots : s \in InSteps(ops)' =>
             (x.op \in ops /\ x.slot = s) \/ s \in InSteps(ops)
        /\ ~(x.op \in SlotOps /\ x.slot \in InSteps(SlotOps)) => OneStep'
    BY PushSteps
  <2> QED
    BY <2>1, <2>2
<1>3. ASSUME NEW ops \in SUBSET SlotOps
      PROVE  InSteps(ops)' \subseteq InSteps(ops) \cup SessionOf(x, ops)
  <2>1. \A s \in InSteps(ops)' : s \in Slots
    BY DEF InSteps
  <2> QED
    BY <1>2, <2>1 DEF SessionOf
<1>4. Calling' \subseteq Calling \cup SessionOf(x, {"call"})
  BY <1>1, <1>3 DEF Calling
<1>5. Ending' \subseteq Ending \cup SessionOf(x, {"complete", "release"})
  BY <1>1, <1>3 DEF Ending
<1> QED
  BY <1>2, <1>4, <1>5

(* Replacing the first step of c moves a session from its place to another. *)
LEMMA MoveThen ==
  ASSUME todo \in [Contexts -> Seq(Steps)], OneStep,
         NEW c \in Contexts, NEW next \in Seq(Steps), todo[c] # <<>>,
         Then(c, next), NEW x, OnlyStep(next, x),
         x.slot \notin (Calling \cup Ending) \ SessionOf(Head(todo[c]), SlotOps)
  PROVE  /\ OneStep'
         /\ Calling' \subseteq (Calling \ SessionOf(Head(todo[c]), SlotOps))
                              \cup SessionOf(x, {"call"})
         /\ Ending' \subseteq (Ending \ SessionOf(Head(todo[c]), SlotOps))
                             \cup SessionOf(x, {"complete", "release"})
<1>1. {"call"} \in SUBSET SlotOps /\ {"complete", "release"} \in SUBSET SlotOps
  BY DEF SlotOps
<1>2. x.slot \in InSteps(SlotOps) =>
        Head(todo[c]).op \in SlotOps /\ Head(todo[c]).slot = x.slot
  BY AllSteps DEF SessionOf
<1>3. /\ OneStep'
      /\ \A ops \in SUBSET SlotOps, s \in Slots : s \in InSteps(ops)' =>
           \/ x.op \in ops /\ x.slot = s
           \/ /\ s \in InSteps(ops)
              /\ ~(Head(todo[c]).op \in SlotOps /\ Head(todo[c]).slot = s)
  BY <1>2, ThenSteps
<1>4. Calling' \subseteq (Calling \ SessionOf(Head(todo[c]), SlotOps)) \cup SessionOf(x, {"call"})
  <2>1. \A s \in Slots : s \in Calling' =>
           \/ x.op = "call" /\ x.slot = s
           \/ /\ s \in Calling
              /\ ~(Head(todo[c]).op \in SlotOps /\ Head(todo[c]).slot = s)
    BY <1>1, <1>3 DEF Calling
  <2>2. Calling' \subseteq Slots
    BY DEF Calling, InSteps
  <2> QED
    BY <2>1, <2>2 DEF SessionOf
<1>5. Ending' \subseteq (Ending \ SessionOf(Head(todo[c]), SlotOps))
                      \cup SessionOf(x, {"complete", "release"})
  <2>1. \A s \in Slots : s \in Ending' =>
           \/ x.op \in {"complete", "release"} /\ x.slot = s
           \/ /\ s \in Ending
              /\ ~(Head(todo[c]).op \in SlotOps /\ Head(todo[c]).slot = s)
    BY <1>1, <1>3 DEF Ending
  <2>2. Ending' \subseteq Slots
    BY DEF Ending, InSteps
  <2> QED
    BY <2>1, <2>2 DEF SessionOf
<1> QED
  BY <1>3, <1>4, <1>5

(* The step at hand is in its place.                                       *)
LEMMA HeadPlace ==
  ASSUME TypeOK, NEW c \in Contexts, todo[c] # <<>>
  PROVE  /\ Head(todo[c]).op = "call" => Head(todo[c]).slot \in Calling
         /\ Head(todo[c]).op \in {"complete", "release"} => Head(todo[c]).slot \in Ending
<1>1. Head(todo[c]) = todo[c][1] /\ 1 \in 1..Len(todo[c]) /\ todo[c][1] \in Steps
  BY DEF TypeOK
<1>2. todo[c][1].op \in SlotOps => todo[c][1].slot \in Slots
  BY <1>1, StepSlot
<1> QED
  BY <1>1, <1>2 DEF Calling, Ending, InSteps, SlotOps

-----------------------------------------------------------------------------
(* A block that is taken from the pool was in no place, unless its callback *)
(* had still to be read.                                                   *)
LEMMA PendingCalling ==
  ASSUME TypeOK, NEW s \in Slots, ~Pending(s)
  PROVE  s \notin Calling
<1>1. SUFFICES ASSUME NEW c \in Contexts, NEW i \in 1..Len(todo[c]),
                      todo[c][i].op = "call", todo[c][i].slot = s
               PROVE  FALSE
  BY DEF Calling, InSteps
<1>2. todo[c][i] \in Steps
  BY DEF TypeOK
<1>3. \E ok \in BOOLEAN : todo[c][i] = Call(s, ok)
  BY <1>1, <1>2 DEF Steps, Post, InUser, More, Unlock, GiveUp, Arm, LLDone, Hand, Call, Complete, Release
<1>4. todo[c][i] \in {Call(s, TRUE), Call(s, FALSE)}
  <2>1. PICK ok \in BOOLEAN : todo[c][i] = Call(s, ok)
    BY <1>3
  <2>2. ok = TRUE \/ ok = FALSE
    OBVIOUS
  <2> QED
    BY <2>1, <2>2
<1> QED
  BY <1>4 DEF Pending

(* A block that is allocated without confusion had no place before.        *)
LEMMA Taken ==
  ASSUME TypeOK, Own, ~hijacked',
         NEW s \in Slots, NEW f \in Frames, NEW cb \in Callbacks, Allocate(s, f, cb)
  PROVE  /\ s \notin Waiting \cup Low \cup Calling \cup Ending \cup used
         /\ used' = used \cup {s}
         /\ frame'[s] = f /\ done'[s] = cb
         /\ \A t \in Slots \ {s} : frame'[t] = frame[t] /\ done'[t] = done[t]
<1>1. s \notin used /\ ~Pending(s)
  BY DEF Allocate, FirstFree
<1>2. s \notin Waiting \cup Low \cup Calling \cup Ending
  BY <1>1, PendingCalling DEF Own, Apart
<1> QED
  BY <1>1, <1>2 DEF Allocate, TypeOK

(* All places are sets of slots.                                           *)
LEMMA PlacesTyped ==
  ASSUME TypeOK
  PROVE  Waiting \cup Low \cup Calling \cup Ending \subseteq Slots
BY DEF TypeOK, Waiting, Low, SlotsOf, Calling, Ending, InSteps

(* The callbacks of a session are told apart.                              *)
LEMMA CallbacksDiffer ==
  /\ \A u \in Slots : ApplCb(u) # NoCb /\ \A r \in Requests : ApplCb(u) # UserCb(r)
  /\ \A r \in Requests : UserCb(r) # NoCb
  /\ \A u, v \in Slots : ApplCb(u) = ApplCb(v) => u = v
  /\ \A q, r \in Requests : UserCb(q) = UserCb(r) => q = r
<1>1. /\ \A u \in Slots : ApplCb(u).to = "appl" /\ ApplCb(u).slot = u
      /\ \A r \in Requests : UserCb(r).to = "user" /\ UserCb(r).req = r
      /\ NoCb.to = "none"
  BY DEF ApplCb, UserCb, NoCb
<1> QED
  BY <1>1

-----------------------------------------------------------------------------
(* sl_zw_send_data_appl.                                                   *)
LEMMA OwnSendDataAppl ==
  ASSUME TypeOK, Own, ~hijacked', NEW c \in Contexts, NEW r \in Requests, SendDataAppl(c, r)
  PROVE  Own'
<1>1. PICK s \in Slots : Allocate(s, r, UserCb(r)) /\ applQ' = Append(applQ, s)
  BY DEF SendDataAppl
<1>2. r \in Frames /\ UserCb(r) \in Callbacks
  BY DEF Frames, Callbacks
<1>3. /\ s \notin Waiting \cup Low \cup Calling \cup Ending \cup used
      /\ used' = used \cup {s}
      /\ frame'[s] = r /\ done'[s] = UserCb(r)
      /\ \A t \in Slots \ {s} : frame'[t] = frame[t] /\ done'[t] = done[t]
  BY <1>1, <1>2, Taken
<1>4. Calling' \subseteq Calling /\ Ending' \subseteq Ending /\ OneStep'
  <2>1. Push(c, <<Post("SEND_NEXT")>>) /\ "SEND_NEXT" \in Events
    BY DEF SendDataAppl, Events
  <2> QED
    BY <2>1, NextTyped, NoSessions, QuietPush DEF TypeOK, Own
<1>5. Waiting' = Waiting \cup {s} /\ Once(applQ)'
  <2>1. applQ \in Seq(Slots) /\ Once(applQ) /\ s \notin SlotsOf(applQ)
    BY <1>3 DEF TypeOK, Own, Waiting
  <2>2. SlotsOf(Append(applQ, s)) = SlotsOf(applQ) \cup {s} /\ Once(Append(applQ, s))
    BY <2>1, AppendOnce
  <2> QED
    BY <1>1, <2>2 DEF Waiting, Once, SlotsOf
<1>6. Low' = Low /\ Once(llQ)' /\ llQ' = llQ
  BY DEF SendDataAppl, Low, SlotsOf, Own, Once
<1>7. Apart'
  BY <1>3, <1>4, <1>5, <1>6 DEF Own, Apart
<1>8. Waiting \cup Low \cup Calling \cup Ending \subseteq Slots /\ used \subseteq Slots
  BY PlacesTyped DEF TypeOK
<1>9. Kinds'
  BY <1>3, <1>4, <1>5, <1>6, <1>8 DEF Own, Kinds, IsUser
<1>10. HandedDown'
  BY <1>3, <1>4, <1>5, <1>6, <1>8 DEF Own, HandedDown, IsUser
<1>11. /\ phase[r] = "idle" /\ phase' = [phase EXCEPT ![r] = "accepted"] /\ calls' = calls
       /\ phase \in [Frames -> Phases]
  BY DEF SendDataAppl, TypeOK
<1>12. Owed'
  <2>1. calls[r] = 0 /\ \A v \in used \cup Calling : done[v] # UserCb(r)
    <3>1. calls[r] \in 0..2 /\ calls[r] <= 1 /\ calls[r] # 1
      BY <1>11 DEF Own, Owed, TypeOK
    <3>2. \A v \in used \cup Calling : done[v] # UserCb(r)
      BY <1>11 DEF Own, Owed
    <3> QED
      BY <3>1, <3>2
  <2>2. \A q \in Requests : phase'[q] = IF q = r THEN "accepted" ELSE phase[q]
    BY <1>11 DEF Frames
  <2>3. \A v \in used' \cup Calling' : v = s \/ (v \in used \cup Calling /\ done'[v] = done[v])
    BY <1>3, <1>4, <1>8
  <2>4. \A q \in Requests : UserCb(q) = UserCb(r) => q = r
    BY CallbacksDiffer
  <2>5. ASSUME NEW v \in used' \cup Calling', NEW q \in Requests, done'[v] = UserCb(q)
        PROVE  phase'[q] = "accepted" /\ calls'[q] = 0
    BY <1>3, <1>11, <2>1, <2>2, <2>3, <2>4, <2>5 DEF Own, Owed
  <2>6. ASSUME NEW v \in used' \cup Calling', NEW w \in used' \cup Calling',
               NEW q \in Requests, done'[v] = UserCb(q), done'[w] = UserCb(q)
        PROVE  v = w
    BY <1>3, <2>1, <2>3, <2>4, <2>6 DEF Own, Owed
  <2>7. \A q \in Requests : calls'[q] <= 1 /\ (calls'[q] = 1 => phase'[q] = "accepted")
    BY <1>11, <2>2 DEF Own, Owed
  <2> QED
    BY <2>5, <2>6, <2>7 DEF Owed
<1> QED
  BY <1>4, <1>5, <1>6, <1>7, <1>9, <1>10, <1>12 DEF Own

(* A nonce report goes to send_data at once.                               *)
LEMMA OwnSendReport ==
  ASSUME TypeOK, Own, ~hijacked', NEW n \in Reports, SendReport(n)
  PROVE  Own'
<1>1. PICK s \in Slots : Allocate(s, n, NoCb) /\ llQ' = Append(llQ, s)
  BY DEF SendReport
<1>2. n \in Frames /\ NoCb \in Callbacks
  BY DEF Frames, Callbacks
<1>3. /\ s \notin Waiting \cup Low \cup Calling \cup Ending \cup used
      /\ used' = used \cup {s}
      /\ frame'[s] = n /\ done'[s] = NoCb
      /\ \A t \in Slots \ {s} : frame'[t] = frame[t] /\ done'[t] = done[t]
  BY <1>1, <1>2, Taken
<1>4. Calling' \subseteq Calling /\ Ending' \subseteq Ending /\ OneStep'
  <2>1. Push("sapi", <<Post("SEND_NEXT_LL")>>) /\ "SEND_NEXT_LL" \in Events
        /\ "sapi" \in Contexts
    BY DEF SendReport, Events, Contexts
  <2> QED
    BY <2>1, NextTyped, NoSessions, QuietPush DEF TypeOK, Own
<1>5. Low' = Low \cup {s} /\ Once(llQ)'
  <2>1. SlotsOf(Append(llQ, s)) = SlotsOf(llQ) \cup {s} /\ Once(Append(llQ, s))
    BY <1>3, AppendOnce DEF TypeOK, Own, Low
  <2> QED
    BY <1>1, <2>1 DEF Low, Once
<1>6. Waiting' = Waiting /\ Once(applQ)' /\ applQ' = applQ
  BY DEF SendReport, Waiting, SlotsOf, Own, Once
<1>7. Apart'
  BY <1>3, <1>4, <1>5, <1>6 DEF Own, Apart
<1>8. Waiting \cup Low \cup Calling \cup Ending \subseteq Slots /\ used \subseteq Slots
  BY PlacesTyped DEF TypeOK
<1>9. Kinds'
  BY <1>3, <1>4, <1>5, <1>6, <1>8 DEF Own, Kinds, IsUser
<1>10. HandedDown'
  BY <1>3, <1>4, <1>5, <1>6, <1>8, CallbacksDiffer DEF Own, HandedDown, IsUser
<1>11. Owed'
  <2>1. calls' = calls /\ \A q \in Requests : phase'[q] = phase[q]
    BY SendDataAssumption DEF SendReport, TypeOK, Frames
  <2>2. \A v \in used' \cup Calling' : v = s \/ (v \in used \cup Calling /\ done'[v] = done[v])
    BY <1>3, <1>4, <1>8
  <2> QED
    BY <1>3, <2>1, <2>2, CallbacksDiffer DEF Own, Owed
<1> QED
  BY <1>4, <1>5, <1>6, <1>7, <1>9, <1>10, <1>11 DEF Own

(* ZW_SendDataApplAbort of a session that waits.                           *)
LEMMA OwnAbort ==
  ASSUME TypeOK, Own, NEW c \in Contexts, NEW r \in Requests, Abort(c, r)
  PROVE  Own'
<1>1. PICK i \in 1..Len(applQ) : applQ[i] = handle[r] /\ applQ' = Without(applQ, i)
  BY DEF Abort
<1> DEFINE s == handle[r]
<1>2. /\ Waiting' \subseteq Waiting \ {s} /\ Once(applQ)' /\ s \in Waiting
  BY <1>1, WithoutOnce DEF TypeOK, Own, Waiting, Once
<1>3. s \in Slots /\ s \notin Low \cup Calling \cup Ending
  BY <1>2, PlacesTyped DEF Own, Apart
<1>4. OneStep' /\ Calling' \subseteq Calling \cup {s} /\ Ending' \subseteq Ending
  <2> DEFINE x == Call(s, FALSE)
  <2>1. Push(c, <<x>>) /\ <<x>> \in Seq(Steps)
    BY <1>3, NextTyped DEF Abort
  <2>2. OnlyStep(<<x>>, x)
    BY OneOnly
  <2>3. x.slot = s /\ x.op = "call"
    BY DEF Call
  <2> HIDE DEF x
  <2> QED
    BY <1>3, <2>1, <2>2, <2>3, MovePush DEF TypeOK, Own, SessionOf
<1>5. /\ Low' = Low /\ Once(llQ)' /\ used' = used \ {s}
      /\ UNCHANGED <<frame, done, phase, calls>>
  BY DEF Abort, Low, SlotsOf, Own, Once
<1> HIDE DEF s
<1>6. IsUser(s)
  BY <1>2 DEF Own, Kinds, IsUser
<1>7. Apart'
  BY <1>2, <1>3, <1>4, <1>5 DEF Own, Apart
<1>8. Kinds'
  BY <1>2, <1>3, <1>4, <1>5 DEF Own, Kinds, IsUser
<1>9. HandedDown'
  BY <1>2, <1>3, <1>4, <1>5, <1>6, CallbacksDiffer DEF Own, HandedDown, IsUser
<1>10. Owed'
  <2>1. used' \cup Calling' \subseteq used \cup Calling
    BY <1>2, <1>4, <1>5 DEF Own, Apart
  <2> QED
    BY <1>5, <2>1 DEF Own, Owed
<1> QED
  BY <1>2, <1>4, <1>5, <1>7, <1>8, <1>9, <1>10 DEF Own

(* send_first: the session is handed down, or completed at once.           *)
LEMMA OwnSendFirst ==
  ASSUME TypeOK, Own, ~hijacked', SendFirst
  PROVE  Own'
<1> DEFINE u == Head(applQ)
<1>1. u \in Slots /\ applQ # <<>> /\ applQ' = Tail(applQ)
  BY DEF SendFirst, TypeOK
<1>2. Waiting' \subseteq Waiting \ {u} /\ Once(applQ)' /\ u \in Waiting
  <2>1. /\ SlotsOf(Tail(applQ)) \subseteq SlotsOf(applQ) \ {u}
        /\ Once(Tail(applQ)) /\ u \in SlotsOf(applQ)
    BY <1>1, TailOnce DEF TypeOK, Own
  <2> HIDE DEF u
  <2> QED
    BY <1>1, <2>1 DEF Waiting, Once
<1>3. /\ u \notin Low \cup Calling \cup Ending /\ u \in used /\ IsUser(u)
      /\ frame[u] \in Requests /\ u \in Slots
  BY <1>1, <1>2 DEF Own, Apart, Kinds, IsUser
<1>4. UNCHANGED <<phase, calls>> /\ "tcpip" \in Contexts
  BY DEF SendFirst, Contexts
<1>5. Waiting \cup Low \cup Calling \cup Ending \subseteq Slots /\ used \subseteq Slots
  BY PlacesTyped DEF TypeOK
<1>6. \A t \in Low \cup Calling : done[t] # ApplCb(u)
  BY <1>1, <1>2 DEF Own, HandedDown
<1>7. CASE /\ \E s \in Slots : /\ Allocate(s, frame[u], ApplCb(u))
                              /\ llQ' = Append(llQ, s)
           /\ Push("tcpip", <<Post("SEND_NEXT_LL")>>)
  <2>1. PICK s \in Slots : Allocate(s, frame[u], ApplCb(u)) /\ llQ' = Append(llQ, s)
    BY <1>7
  <2>2. frame[u] \in Frames /\ ApplCb(u) \in Callbacks
    BY <1>1, <1>3 DEF Frames, Callbacks
  <2>3. /\ s \notin Waiting \cup Low \cup Calling \cup Ending \cup used
        /\ used' = used \cup {s}
        /\ done'[s] = ApplCb(u)
        /\ \A t \in Slots \ {s} : frame'[t] = frame[t] /\ done'[t] = done[t]
    BY <2>1, <2>2, Taken
  <2>4. Calling' \subseteq Calling /\ Ending' \subseteq Ending /\ OneStep'
    <3>1. "SEND_NEXT_LL" \in Events
      BY DEF Events
    <3> QED
      BY <1>4, <1>7, <3>1, NextTyped, NoSessions, QuietPush DEF TypeOK, Own
  <2>5. Low' = Low \cup {s} /\ Once(llQ)'
    <3>1. SlotsOf(Append(llQ, s)) = SlotsOf(llQ) \cup {s} /\ Once(Append(llQ, s))
      BY <2>3, AppendOnce DEF TypeOK, Own, Low
    <3> QED
      BY <2>1, <3>1 DEF Low, Once
  <2> HIDE DEF u
  <2>6. Apart'
    BY <1>2, <1>3, <2>3, <2>4, <2>5 DEF Own, Apart
  <2>7. Kinds'
    BY <1>1, <1>2, <1>5, <2>3, <2>4, <2>5 DEF Own, Kinds, IsUser
  <2>8. HandedDown'
    <3>1. ASSUME NEW t \in Low' \cup Calling', NEW v \in Slots, done'[t] = ApplCb(v)
          PROVE  /\ v \in used' /\ v \notin Waiting' \cup Ending' /\ IsUser(v)'
                 /\ t = s <=> v = u
      <4>1. CASE t = s
        <5>1. v = u
          BY <1>1, <2>3, <3>1, <4>1, CallbacksDiffer
        <5> QED
          BY <1>2, <1>3, <2>3, <2>4, <4>1, <5>1 DEF IsUser
      <4>2. CASE t # s
        <5>1. t \in Low \cup Calling /\ done[t] = ApplCb(v) /\ v # u
          BY <1>5, <1>6, <2>3, <2>4, <2>5, <3>1, <4>2
        <5>2. v \in used /\ v \notin Waiting \cup Ending /\ IsUser(v) /\ v # s
          BY <2>3, <5>1 DEF Own, HandedDown
        <5> QED
          BY <1>2, <2>3, <2>4, <4>2, <5>1, <5>2 DEF IsUser
      <4> QED
        BY <4>1, <4>2
    <3>2. ASSUME NEW t \in Low' \cup Calling', NEW w \in Low' \cup Calling',
                 NEW v \in Slots, done'[t] = ApplCb(v), done'[w] = ApplCb(v)
          PROVE  t = w
      <4>1. t = s <=> w = s
        BY <3>1, <3>2
      <4>2. CASE t # s
        <5>1. t \in Low \cup Calling /\ done[t] = ApplCb(v) /\ w \in Low \cup Calling /\ done[w] = ApplCb(v)
          BY <1>5, <2>3, <2>4, <2>5, <3>2, <4>1, <4>2
        <5> QED
          BY <5>1 DEF Own, HandedDown
      <4> QED
        BY <4>1, <4>2
    <3> QED
      BY <3>1, <3>2 DEF HandedDown
  <2>9. Owed'
    <3>1. \A v \in used' \cup Calling' : v = s \/ (v \in used \cup Calling /\ done'[v] = done[v])
      BY <1>5, <2>3, <2>4
    <3>2. \A q \in Requests : done'[s] # UserCb(q)
      BY <1>1, <2>3, CallbacksDiffer
    <3> QED
      BY <1>4, <3>1, <3>2 DEF Own, Owed
  <2> QED
    BY <1>2, <2>4, <2>5, <2>6, <2>7, <2>8, <2>9 DEF Own
<1>8. CASE /\ Push("tcpip", <<Complete(u, FALSE)>>)
           /\ UNCHANGED <<poolVars, llQ, hijacked>>
  <2>1. OneStep' /\ Calling' \subseteq Calling /\ Ending' \subseteq Ending \cup {u}
    <3> DEFINE x == Complete(u, FALSE)
    <3>1. Push("tcpip", <<x>>) /\ <<x>> \in Seq(Steps)
      BY <1>1, <1>8, NextTyped
    <3>2. OnlyStep(<<x>>, x)
      BY OneOnly
    <3>3. x.slot = u /\ x.op = "complete"
      BY DEF Complete
    <3> HIDE DEF x, u
    <3> QED
      BY <1>3, <1>4, <3>1, <3>2, <3>3, MovePush DEF TypeOK, Own, SessionOf
  <2>2. Low' = Low /\ Once(llQ)' /\ UNCHANGED <<used, frame, done>>
    BY <1>8 DEF poolVars, Low, SlotsOf, Own, Once
  <2> HIDE DEF u
  <2>3. Apart'
    BY <1>2, <1>3, <2>1, <2>2 DEF Own, Apart
  <2>4. Kinds'
    BY <1>2, <1>3, <2>1, <2>2 DEF Own, Kinds, IsUser
  <2>5. HandedDown'
    BY <1>2, <1>6, <2>1, <2>2 DEF Own, HandedDown, IsUser
  <2>6. Owed'
    BY <1>4, <2>1, <2>2 DEF Own, Owed
  <2> QED
    BY <1>2, <2>1, <2>2, <2>3, <2>4, <2>5, <2>6 DEF Own
<1> QED
  BY <1>7, <1>8 DEF SendFirst

-----------------------------------------------------------------------------
(* send_data_callback_func pops the session it completes.                  *)
LEMMA OwnLowLevelDone ==
  ASSUME TypeOK, Own, NEW c \in Contexts, LowLevelDone(c)
  PROVE  Own'
<1>1. /\ todo[c] # <<>> /\ Head(todo[c]).op = "lldone" /\ Head(todo[c]).ok \in BOOLEAN
      /\ UNCHANGED <<phase, calls, frame, done, applQ>>
  BY HeadTyped DEF LowLevelDone, AtStep, Idle, TypeOK
<1>2. CASE lockLL /\ llQ # <<>>
  <2> DEFINE s == Head(llQ)
             ok == Head(todo[c]).ok
             x == Call(s, ok)
             next == <<x, More, Unlock>>
  <2>1. /\ s \in Slots /\ llQ' = Tail(llQ) /\ used' = used \ {s} /\ Then(c, next)
    BY <1>2 DEF LowLevelDone, TypeOK
  <2>2. Low' \subseteq Low \ {s} /\ Once(llQ)' /\ s \in Low
    <3>1. SlotsOf(Tail(llQ)) \subseteq SlotsOf(llQ) \ {s} /\ Once(Tail(llQ)) /\ s \in SlotsOf(llQ)
      BY <1>2, TailOnce DEF TypeOK, Own
    <3> HIDE DEF s
    <3> QED
      BY <2>1, <3>1 DEF Low, Once
  <2>3. s \notin Waiting \cup Calling \cup Ending
    BY <2>2 DEF Own, Apart
  <2>4. OneStep' /\ Calling' \subseteq Calling \cup {s} /\ Ending' \subseteq Ending
    <3>1. next \in Seq(Steps)
      BY <1>1, <2>1, NextTyped
    <3>2. OnlyStep(next, x)
      <4>1. More.op \notin SlotOps /\ Unlock.op \notin SlotOps
        BY DEF More, Unlock, SlotOps
      <4> HIDE DEF x
      <4> QED
        BY <4>1 DEF OnlyStep
    <3>3. x.slot = s /\ x.op = "call"
      BY DEF Call
    <3>4. SessionOf(Head(todo[c]), SlotOps) = {}
      BY <1>1 DEF SessionOf, SlotOps
    <3> HIDE DEF next, x, s
    <3> QED
      BY <1>1, <2>1, <2>3, <3>1, <3>2, <3>3, <3>4, MoveThen DEF TypeOK, Own, SessionOf
  <2> HIDE DEF s
  <2>5. Waiting' = Waiting /\ Once(applQ)'
    BY <1>1 DEF Waiting, SlotsOf, Own, Once
  <2>7. Apart'
    BY <2>2, <2>3, <2>4, <2>5, <2>1 DEF Own, Apart
  <2>8. Kinds'
    BY <1>1, <2>2, <2>4, <2>5 DEF Own, Kinds, IsUser
  <2>9. HandedDown'
    <3>1. Low' \cup Calling' \subseteq Low \cup Calling
      BY <2>2, <2>4
    <3>2. ~IsUser(s)
      BY <2>1, <2>2, CallbacksDiffer DEF Own, Kinds, IsUser
    <3> QED
      BY <1>1, <2>1, <2>4, <2>5, <3>1, <3>2 DEF Own, HandedDown, IsUser
  <2>10. Owed'
    <3>1. used' \cup Calling' \subseteq used \cup Calling
      BY <2>1, <2>2, <2>4 DEF Own, Apart
    <3> QED
      BY <1>1, <3>1 DEF Own, Owed
  <2> QED
    BY <2>2, <2>4, <2>5, <2>7, <2>8, <2>9, <2>10 DEF Own
<1>3. CASE ~(lockLL /\ llQ # <<>>)
  <2>1. Then(c, <<>>) /\ UNCHANGED <<llQ, used>>
    BY <1>3 DEF LowLevelDone
  <2>2. Calling' \subseteq Calling /\ Ending' \subseteq Ending /\ OneStep'
    BY <1>1, <2>1, NextTyped, NoSessions, QuietThen DEF TypeOK, Own
  <2> QED
    BY <1>1, <2>1, <2>2, QuietOwn
<1> QED
  BY <1>2, <1>3

(* The callback of a session that was freed is called, and it is its own.  *)
LEMMA OwnCallBack ==
  ASSUME TypeOK, Own, NEW c \in Contexts, CallBack(c)
  PROVE  Own'
<1> DEFINE s == Head(todo[c]).slot
           ok == Head(todo[c]).ok
           cb == done[s]
<1>1. /\ todo[c] # <<>> /\ Head(todo[c]).op = "call" /\ s \in Slots /\ ok \in BOOLEAN
      /\ UNCHANGED <<phase, used, frame, done, applQ, llQ>>
  BY HeadTyped DEF CallBack, AtStep, Idle, TypeOK, poolVars
<1>2. s \in Calling /\ s \notin used /\ s \notin Waiting \cup Low \cup Ending
  BY <1>1, HeadPlace DEF Own, Apart
<1>3. SessionOf(Head(todo[c]), SlotOps) = {s}
  BY <1>1 DEF SessionOf, SlotOps
<1>4. cb \in Callbacks
  BY <1>1 DEF TypeOK
<1>5. Waiting' = Waiting /\ Low' = Low /\ Once(applQ)' /\ Once(llQ)'
  BY <1>1 DEF Waiting, Low, SlotsOf, Own, Once
<1>6. ASSUME NEW next \in Seq(Steps), Then(c, next), NoSession(next)
      PROVE  OneStep' /\ Calling' \subseteq Calling \ {s} /\ Ending' \subseteq Ending
  <2>1. OnlyStep(next, More) /\ More.op \notin SlotOps
    BY <1>6 DEF OnlyStep, NoSession, More, SlotOps
  <2>2. /\ OneStep'
        /\ \A ops \in SUBSET SlotOps, t \in Slots : t \in InSteps(ops)' =>
             t \in InSteps(ops) /\ ~(Head(todo[c]).op \in SlotOps /\ s = t)
    BY <1>1, <1>6, <2>1, ThenSteps DEF TypeOK, Own
  <2>3. Head(todo[c]).op \in SlotOps /\ {"call"} \in SUBSET SlotOps
        /\ {"complete", "release"} \in SUBSET SlotOps
    BY <1>1 DEF SlotOps
  <2> HIDE DEF s
  <2>4. \A t \in Slots : (t \in Calling' => t \in Calling /\ t # s) /\ (t \in Ending' => t \in Ending)
    BY <2>2, <2>3 DEF Calling, Ending
  <2>5. Calling' \subseteq Slots /\ Ending' \subseteq Slots
    BY DEF Calling, Ending, InSteps
  <2> QED
    BY <2>2, <2>4, <2>5
<1>7. CASE cb = NoCb \/ \E r \in Requests : cb = UserCb(r)
  <2>1. \/ cb = NoCb /\ Then(c, <<>>) /\ calls' = calls
        \/ \E r \in Requests : /\ cb = UserCb(r) /\ Then(c, <<InUser>>)
                              /\ calls' = IF calls[r] < 2 THEN [calls EXCEPT ![r] = @ + 1]
                                           ELSE calls
    <3>1. CASE cb = NoCb
      BY <3>1 DEF CallBack, NoCb
    <3>2. ASSUME NEW r \in Requests, cb = UserCb(r)
          PROVE  /\ Then(c, <<InUser>>)
                 /\ calls' = IF calls[r] < 2 THEN [calls EXCEPT ![r] = @ + 1] ELSE calls
      <4>1. cb.to = "user" /\ cb.req = r
        BY <3>2 DEF UserCb
      <4> QED
        BY <4>1 DEF CallBack
    <3> QED
      BY <1>7, <3>1, <3>2
  <2>2. OneStep' /\ Calling' \subseteq Calling \ {s} /\ Ending' \subseteq Ending
    BY <1>6, <2>1, NextTyped, NoSessions
  <2> HIDE DEF s, cb
  <2>3. Apart'
    BY <1>1, <1>5, <2>2 DEF Own, Apart
  <2>4. Kinds'
    BY <1>1, <1>5, <2>2 DEF Own, Kinds, IsUser
  <2>5. HandedDown'
    BY <1>1, <1>5, <2>2 DEF Own, HandedDown, IsUser
  <2>6. Owed'
    <3>1. used' \cup Calling' \subseteq (used \cup Calling) \ {s}
      BY <1>1, <1>2, <2>2
    <3>2. CASE calls' = calls
      BY <1>1, <3>1, <3>2 DEF Own, Owed
    <3>3. ASSUME NEW r \in Requests, cb = UserCb(r),
                 calls' = IF calls[r] < 2 THEN [calls EXCEPT ![r] = @ + 1] ELSE calls
          PROVE  Owed'
      <4>1. phase[r] = "accepted" /\ calls[r] = 0
        BY <1>2, <3>3 DEF Own, Owed, cb
      <4>2. calls' = [calls EXCEPT ![r] = 1]
        BY <3>3, <4>1
      <4>3. \A q \in Requests : calls'[q] = IF q = r THEN 1 ELSE calls[q]
        BY <4>2 DEF TypeOK
      <4>4. \A v \in used' \cup Calling' : done[v] # UserCb(r)
        BY <1>2, <3>1, <3>3 DEF Own, Owed, cb
      <4>5. ASSUME NEW v \in used' \cup Calling', NEW q \in Requests, done'[v] = UserCb(q)
            PROVE  phase'[q] = "accepted" /\ calls'[q] = 0
        BY <1>1, <3>1, <4>3, <4>4, <4>5 DEF Own, Owed
      <4>6. ASSUME NEW v \in used' \cup Calling', NEW w \in used' \cup Calling',
                   NEW q \in Requests, done'[v] = UserCb(q), done'[w] = UserCb(q)
            PROVE  v = w
        BY <1>1, <3>1, <4>6 DEF Own, Owed
      <4>7. \A q \in Requests : calls'[q] <= 1 /\ (calls'[q] = 1 => phase'[q] = "accepted")
        BY <1>1, <4>1, <4>3 DEF Own, Owed
      <4> QED
        BY <4>5, <4>6, <4>7 DEF Owed
    <3> QED
      BY <2>1, <3>2, <3>3
  <2> QED
    BY <1>5, <2>2, <2>3, <2>4, <2>5, <2>6 DEF Own
<1>8. ASSUME NEW u \in Slots, cb = ApplCb(u) PROVE Own'
  <2>1. u \in used /\ u \notin Waiting \cup Ending /\ IsUser(u)
    BY <1>2, <1>8 DEF Own, HandedDown
  <2>2. u \notin Low \cup Calling
    BY <2>1, CallbacksDiffer DEF Own, Apart, Kinds, IsUser
  <2>3. /\ Then(c, <<Complete(u, ok)>>) /\ calls' = calls
    <3>1. cb.to = "appl" /\ cb.slot = u
      BY <1>8 DEF ApplCb
    <3> QED
      BY <3>1 DEF CallBack
  <2>4. OneStep' /\ Calling' \subseteq Calling \ {s} /\ Ending' \subseteq Ending \cup {u}
    <3> DEFINE x == Complete(u, ok)
    <3>1. <<x>> \in Seq(Steps)
      BY <1>1, NextTyped
    <3>2. OnlyStep(<<x>>, x)
      BY OneOnly
    <3>3. x.slot = u /\ x.op = "complete"
      BY DEF Complete
    <3> HIDE DEF x, s
    <3>4. Then(c, <<x>>)
      BY <2>3 DEF x
    <3> QED
      BY <1>1, <1>3, <2>1, <2>2, <3>1, <3>2, <3>3, <3>4, MoveThen DEF TypeOK, Own, SessionOf
  <2> HIDE DEF s, ok, cb
  <2>5. Apart'
    BY <1>1, <1>5, <2>1, <2>2, <2>4 DEF Own, Apart
  <2>6. Kinds'
    BY <1>1, <1>5, <2>1, <2>4 DEF Own, Kinds, IsUser
  <2>7. HandedDown'
    <3>1. \A t \in Low' \cup Calling' : t \in Low \cup Calling /\ done[t] # ApplCb(u)
      BY <1>2, <1>5, <1>8, <2>4 DEF Own, HandedDown, cb
    <3> QED
      BY <1>1, <1>5, <2>4, <3>1 DEF Own, HandedDown, IsUser
  <2>8. Owed'
    BY <1>1, <2>3, <2>4 DEF Own, Owed
  <2> QED
    BY <1>5, <2>4, <2>5, <2>6, <2>7, <2>8 DEF Own
<1> QED
  BY <1>4, <1>7, <1>8 DEF Callbacks

(* sli_zw_appl_send_data_cb_ex up to the end of the session it completes.  *)
LEMMA OwnApplDone ==
  ASSUME TypeOK, Own, NEW c \in Contexts, ApplDone(c)
  PROVE  Own'
<1> DEFINE u == Head(todo[c]).slot
           ok == Head(todo[c]).ok
           x == Release(u, ok)
<1>1. /\ todo[c] # <<>> /\ Head(todo[c]).op = "complete" /\ u \in Slots /\ ok \in BOOLEAN
      /\ UNCHANGED <<phase, calls, used, frame, done, applQ, llQ>>
  BY HeadTyped DEF ApplDone, AtStep, Idle, TypeOK, poolVars
<1>2. u \in Ending
  BY <1>1, HeadPlace
<1>3. SessionOf(Head(todo[c]), SlotOps) = {u}
  BY <1>1 DEF SessionOf, SlotOps
<1>4. \/ Then(c, <<>>) \/ Then(c, <<x>>) \/ Then(c, <<Post("SEND_NEXT"), x>>)
  BY DEF ApplDone
<1>5. x.slot = u /\ x.op = "release"
  BY DEF Release
<1>6. /\ <<>> \in Seq(Steps) /\ <<x>> \in Seq(Steps) /\ <<Post("SEND_NEXT"), x>> \in Seq(Steps)
  BY <1>1, NextTyped
<1>7. OnlyStep(<<>>, x) /\ OnlyStep(<<x>>, x) /\ OnlyStep(<<Post("SEND_NEXT"), x>>, x)
  <2>1. Post("SEND_NEXT").op \notin SlotOps
    BY DEF Post, SlotOps
  <2> HIDE DEF x
  <2> QED
    BY <2>1 DEF OnlyStep
<1> HIDE DEF x, ok
<1>8. /\ OneStep' /\ Calling' \subseteq (Calling \ {u}) \cup SessionOf(x, {"call"})
      /\ Ending' \subseteq (Ending \ {u}) \cup SessionOf(x, {"complete", "release"})
  BY <1>1, <1>3, <1>4, <1>5, <1>6, <1>7, MoveThen DEF TypeOK, Own
<1>9. Calling' \subseteq Calling /\ Ending' \subseteq Ending
  BY <1>2, <1>5, <1>8 DEF SessionOf
<1> QED
  BY <1>1, <1>8, <1>9, QuietOwn

(* sli_zw_appl_send_data_cb_ex frees the session it completes, and calls back. *)
LEMMA OwnReleaseAppl ==
  ASSUME TypeOK, Own, NEW c \in Contexts, ReleaseAppl(c)
  PROVE  Own'
<1> DEFINE u == Head(todo[c]).slot
           ok == Head(todo[c]).ok
           x == Call(u, ok)
<1>1. /\ todo[c] # <<>> /\ Head(todo[c]).op = "release" /\ u \in Slots /\ ok \in BOOLEAN
      /\ used' = used \ {u} /\ Then(c, <<x>>)
      /\ UNCHANGED <<phase, calls, frame, done, applQ, llQ>>
  BY HeadTyped DEF ReleaseAppl, AtStep, Idle, TypeOK
<1>2. u \in Ending /\ u \notin Waiting \cup Low \cup Calling /\ IsUser(u)
  BY <1>1, HeadPlace DEF Own, Apart, Kinds
<1>3. SessionOf(Head(todo[c]), SlotOps) = {u}
  BY <1>1 DEF SessionOf, SlotOps
<1>4. x.slot = u /\ x.op = "call"
  BY DEF Call
<1>5. <<x>> \in Seq(Steps) /\ OnlyStep(<<x>>, x)
  BY <1>1, NextTyped, OneOnly
<1> HIDE DEF x, ok
<1>6. OneStep' /\ Calling' \subseteq Calling \cup {u} /\ Ending' \subseteq Ending \ {u}
  BY <1>1, <1>3, <1>4, <1>5, MoveThen DEF TypeOK, Own, SessionOf
<1>7. Waiting' = Waiting /\ Low' = Low /\ Once(applQ)' /\ Once(llQ)'
  BY <1>1 DEF Waiting, Low, SlotsOf, Own, Once
<1> HIDE DEF u
<1>8. Apart'
  BY <1>1, <1>2, <1>6, <1>7 DEF Own, Apart
<1>9. Kinds'
  BY <1>1, <1>6, <1>7 DEF Own, Kinds, IsUser
<1>10. HandedDown'
  <2>1. \A t \in Low' \cup Calling', v \in Slots :
          done[t] = ApplCb(v) => t \in Low \cup Calling /\ v # u
    BY <1>2, <1>6, <1>7, CallbacksDiffer DEF Own, HandedDown, IsUser
  <2> QED
    BY <1>1, <1>6, <1>7, <2>1 DEF Own, HandedDown, IsUser
<1>11. Owed'
  <2>1. used' \cup Calling' \subseteq used \cup Calling
    BY <1>1, <1>2, <1>6 DEF Own, Apart
  <2> QED
    BY <1>1, <2>1 DEF Own, Owed
<1> QED
  BY <1>6, <1>7, <1>8, <1>9, <1>10, <1>11 DEF Own

(* Every step with which a context goes on.                                *)
LEMMA OwnContinue ==
  ASSUME TypeOK, Own, NEW c \in Contexts, Continue(c)
  PROVE  Own'
<1>1. ASSUME PostEvent(c) \/ ReturnUser(c) \/ UnlockLL(c) \/ SendMore(c) PROVE Own'
  <2>1. /\ todo[c] # <<>>
        /\ Then(c, <<>>) \/ Then(c, <<Post("SEND_NEXT_LL")>>)
        /\ UNCHANGED <<phase, calls, used, frame, done, applQ, llQ>>
    BY <1>1 DEF PostEvent, ReturnUser, UnlockLL, SendMore, AtStep, Idle, poolVars
  <2>2. "SEND_NEXT_LL" \in Events
    BY DEF Events
  <2>3. Calling' \subseteq Calling /\ Ending' \subseteq Ending /\ OneStep'
    <3>1. CASE Then(c, <<>>)
      BY <2>1, <3>1, NextTyped, NoSessions, QuietThen DEF TypeOK, Own
    <3>2. CASE Then(c, <<Post("SEND_NEXT_LL")>>)
      BY <2>1, <2>2, <3>2, NextTyped, NoSessions, QuietThen DEF TypeOK, Own
    <3> QED
      BY <2>1, <3>1, <3>2
  <2> QED
    BY <2>1, <2>3, QuietOwn
<1> QED
  BY <1>1, OwnLowLevelDone, OwnCallBack, OwnApplDone, OwnReleaseAppl DEF Continue

-----------------------------------------------------------------------------
(* No session exists at the start.                                         *)
LEMMA OwnInit == ASSUME Init PROVE Own
<1>1. applQ = <<>> /\ llQ = <<>> /\ used = {} /\ \A c \in Contexts : todo[c] = <<>>
  BY DEF Init
<1>2. Waiting = {} /\ Low = {} /\ Calling = {} /\ Ending = {}
  BY <1>1 DEF Waiting, Low, SlotsOf, Calling, Ending, InSteps
<1>3. Once(applQ) /\ Once(llQ) /\ OneStep
  BY <1>1 DEF Once, OneStep
<1>4. Owed
  BY <1>1, <1>2 DEF Owed, Init
<1> QED
  BY <1>1, <1>2, <1>3, <1>4 DEF Own, Apart, Kinds, HandedDown

(* A stuttering step moves nothing.                                        *)
LEMMA OwnUnchanged == ASSUME Own, UNCHANGED vars PROVE Own'
<1>1. todo' = todo /\ UNCHANGED <<phase, calls, used, frame, done, applQ, llQ>>
  BY DEF vars
<1> QED
  BY <1>1, QuietTodo, QuietOwn DEF Own

(* A block that was confused once stays so.                                *)
LEMMA HijackedStays == ASSUME TypeOK, [Next]_vars, hijacked PROVE hijacked'
<1> USE DEF ghostVars
<1>1. CASE Send
  BY <1>1 DEF Send, SendDataAppl, SendDataApplRefused, SendReport, Abort, Allocate
<1>2. CASE Tcpip
  BY <1>2 DEF Tcpip, StartNothing, SendFirst, NextNothing, SendNext, HandOver, NoResponse, ArmEmergency, Allocate
<1>3. CASE Environment
  BY <1>3 DEF Environment, ChipCallback, ChipLost, EmergencyTimeout, BackoffTimeout, RxNotify
<1>4. ASSUME NEW c \in Contexts, Continue(c) PROVE hijacked'
  BY <1>4 DEF Continue, PostEvent, LowLevelDone, CallBack, ApplDone, ReleaseAppl, ReturnUser, SendMore, UnlockLL
<1>5. CASE UNCHANGED vars
  BY <1>5 DEF vars
<1> QED
  BY <1>1, <1>2, <1>3, <1>4, <1>5 DEF Next

(* Every step of SendData keeps each session in one place.                 *)
LEMMA OwnStep == ASSUME TypeOK, Own, ~hijacked', [Next]_vars PROVE Own'
<1>1. CASE Send
  <2>1. ASSUME NEW c \in Contexts, NEW r \in Requests, SendDataApplRefused(c, r) PROVE Own'
    <3>1. /\ todo' = todo /\ UNCHANGED <<calls, used, frame, done, applQ, llQ>>
          /\ phase[r] = "idle" /\ phase' = [phase EXCEPT ![r] = "refused"]
      BY <2>1 DEF SendDataApplRefused, poolVars
    <3>2. \A q \in Requests : phase[q] = "accepted" => phase'[q] = "accepted"
      BY <3>1 DEF TypeOK, Frames
    <3>3. Calling' = Calling /\ Ending' = Ending /\ OneStep'
      BY <3>1 DEF Calling, Ending, InSteps, Own, OneStep
    <3>4. Waiting' = Waiting /\ Low' = Low /\ Once(applQ)' /\ Once(llQ)'
      BY <3>1 DEF Waiting, Low, SlotsOf, Own, Once
    <3>5. Owed'
      BY <3>1, <3>2, <3>3 DEF Own, Owed
    <3>6. Apart' /\ Kinds' /\ HandedDown'
      BY <3>1, <3>3, <3>4 DEF Own, Apart, Kinds, HandedDown, IsUser
    <3> QED
      BY <3>3, <3>4, <3>5, <3>6 DEF Own
  <2> QED
    BY <1>1, <2>1, OwnSendDataAppl, OwnAbort, OwnSendReport DEF Send
<1>2. CASE Tcpip
  BY <1>2, OwnQuiet, OwnSendFirst DEF Tcpip
<1>3. CASE Environment
  BY <1>3, OwnQuiet
<1>4. ASSUME NEW c \in Contexts, Continue(c) PROVE Own'
  BY <1>4, OwnContinue
<1>5. CASE UNCHANGED vars
  BY <1>5, OwnUnchanged
<1> QED
  BY <1>1, <1>2, <1>3, <1>4, <1>5 DEF Next

(* The inductive invariant of the send layer: every session has one place,  *)
(* until a freed block is taken before its callback was read.              *)
THEOREM Ownership == Spec => []OwnInv
<1>1. Init => OwnInv
  BY TypeInit, OwnInit DEF OwnInv
<1>2. OwnInv /\ [Next]_vars /\ TypeOK' => OwnInv'
  BY OwnStep, HijackedStays DEF OwnInv
<1> QED
  BY <1>1, <1>2, TypeCorrect, PTL DEF Spec

(* A list that holds each block once has as many blocks as elements.       *)
LEMMA OnceCounts ==
  ASSUME NEW q \in Seq(Slots), Once(q)
  PROVE  Cardinality(SlotsOf(q)) = Len(q)
<1> DEFINE n == Len(q)
           f == [i \in 1..n |-> q[i]]
<1>1. n \in Nat
  OBVIOUS
<1>2. f \in Bijection(1..n, SlotsOf(q))
  BY DEF SlotsOf, Once, Bijection, Injection, Surjection, IsInjective
<1>3. ExistsBijection(1..n, SlotsOf(q))
  BY <1>2 DEF ExistsBijection
<1> HIDE DEF n
<1> QED
  BY <1>1, <1>3, FS_CountingElements DEF n

(* No sender is called back twice and none whose frame is still queued has *)
(* been: a queued session's callback is its own request's, and the request *)
(* of an allocated session is not called back yet.                         *)
THEOREM CallbackOnce == Spec => []CallbackAtMostOnce
<1>1. OwnInv => CallbackAtMostOnce
  <2>1. SUFFICES ASSUME TypeOK, Own PROVE CallbackAtMostOnce
    BY DEF OwnInv, CallbackAtMostOnce
  <2>2. \A s \in SlotsOf(applQ) : calls[frame[s]] = 0
    BY <2>1 DEF Own, Kinds, Owed, Apart, Waiting
  <2> QED
    BY <2>1, <2>2 DEF CallbackAtMostOnce, Own, Owed
<1> QED
  BY <1>1, Ownership, PTL

(* The two lists hold allocated blocks only, each once and on one list.    *)
THEOREM ListsHold == Spec => []ListsDisjoint
<1>1. OwnInv => ListsDisjoint
  BY OnceCounts DEF OwnInv, ListsDisjoint, Own, Apart, Waiting, Low, TypeOK
<1> QED
  BY <1>1, Ownership, PTL

-----------------------------------------------------------------------------
(* Refinement.                                                             *)
Mapped == [i \in 1..Len(applQ) |-> frame[applQ[i]]]
Known == [r \in Requests |-> phase[r]]

(* SendData starts as SendLayer does.                                      *)
LEMMA LayerInit == ASSUME Init PROVE Layer!Init
<1>1. Known = [r \in Requests |-> "idle"]
  BY DEF Init, Known, Frames
<1>2. Mapped = <<>>
  BY DEF Init, Mapped
<1> QED
  BY <1>1, <1>2 DEF Init, Layer!Init, Known, Mapped

(* A frame is queued for SendLayer while its session is on session_list.   *)
LEMMA Framed ==
  ASSUME NEW q \in Seq(Slots), NEW f, \A s \in SlotsOf(q) : f[s] \in Requests,
         NEW m, m = [i \in 1..Len(q) |-> f[q[i]]]
  PROVE  /\ m \in Seq(Requests) /\ Len(m) = Len(q)
         /\ \A i \in 1..Len(q) : m[i] = f[q[i]]
         /\ q # <<>> => m # <<>>
<1>1. \A i \in 1..Len(q) : f[q[i]] \in Requests
  BY DEF SlotsOf
<1>2. Len(q) \in Nat /\ (q # <<>> => Len(q) # 0)
  OBVIOUS
<1>3. m \in Seq(Requests) /\ Len(m) = Len(q)
  BY <1>1, <1>2
<1>4. q # <<>> => m # <<>>
  BY <1>2, <1>3
<1> QED
  BY <1>3, <1>4

(* The frames that wait are requests.                                      *)
LEMMA MappedTyped ==
  ASSUME TypeOK, Own
  PROVE  /\ Mapped \in Seq(Requests) /\ Len(Mapped) = Len(applQ)
         /\ \A i \in 1..Len(applQ) : Mapped[i] = frame[applQ[i]]
         /\ applQ # <<>> => Mapped # <<>>
<1>1. \A s \in SlotsOf(applQ) : frame[s] \in Requests
  BY DEF Own, Kinds, Waiting
<1>2. applQ \in Seq(Slots) /\ Mapped = [i \in 1..Len(applQ) |-> frame[applQ[i]]]
  BY DEF TypeOK, Mapped
<1> QED
  BY <1>1, <1>2, Framed

(* The same for the next state.                                            *)
LEMMA MappedTypedNext ==
  ASSUME TypeOK', Own'
  PROVE  /\ Mapped' \in Seq(Requests) /\ Len(Mapped') = Len(applQ')
         /\ \A i \in 1..Len(applQ') : Mapped'[i] = frame'[applQ'[i]]
<1>1. \A s \in SlotsOf(applQ') : frame'[s] \in Requests
  BY DEF Own, Kinds, Waiting, SlotsOf
<1>2. applQ' \in Seq(Slots) /\ Mapped' = [i \in 1..Len(applQ') |-> frame'[applQ'[i]]]
  BY DEF TypeOK, Mapped
<1> QED
  BY <1>1, <1>2, Framed

(* While session_list and the frames of its sessions stay, so does the queue. *)
LEMMA MappedKept ==
  ASSUME TypeOK, applQ' = applQ, \A s \in Waiting : frame'[s] = frame[s]
  PROVE  Mapped' = Mapped
BY DEF Mapped, Waiting, SlotsOf

(* What changes neither the knowledge of a sender nor session_list is a    *)
(* stuttering step of SendLayer.                                           *)
LEMMA Stutters ==
  ASSUME TypeOK, hijacked' = hijacked,
         \A r \in Requests : phase'[r] = phase[r], calls' = calls,
         applQ' = applQ, \A s \in Waiting : frame'[s] = frame[s]
  PROVE  UNCHANGED Layer!vars
<1>1. Known' = Known /\ Mapped' = Mapped
  BY MappedKept DEF Known
<1> QED
  BY <1>1 DEF Layer!vars, Known, Mapped

(* sl_zw_send_data_appl that queues a frame accepts it in SendLayer.       *)
LEMMA StepAccept ==
  ASSUME TypeOK, Own, TypeOK', Own', ~hijacked', hijacked' = hijacked,
         NEW c \in Contexts, NEW r \in Requests, SendDataAppl(c, r)
  PROVE  Layer!Next
<1>1. PICK s \in Slots : Allocate(s, r, UserCb(r)) /\ applQ' = Append(applQ, s)
  BY DEF SendDataAppl
<1>2. r \in Frames /\ UserCb(r) \in Callbacks
  BY DEF Frames, Callbacks
<1>3. /\ s \notin Waiting /\ frame'[s] = r
      /\ \A t \in Slots \ {s} : frame'[t] = frame[t]
  BY <1>1, <1>2, Taken
<1>4. /\ Len(applQ') = Len(applQ) + 1 /\ applQ'[Len(applQ) + 1] = s
      /\ \A i \in 1..Len(applQ) : applQ'[i] = applQ[i] /\ applQ'[i] \in Slots \ {s}
      /\ Len(applQ) \in Nat
  BY <1>1, <1>3 DEF TypeOK, Waiting, SlotsOf
<1>5. Mapped' = Append(Mapped, r)
  <2>1. /\ Mapped' \in Seq(Requests) /\ Len(Mapped') = Len(applQ')
        /\ \A i \in 1..Len(applQ') : Mapped'[i] = frame'[applQ'[i]]
    BY MappedTypedNext
  <2>2. Append(Mapped, r) \in Seq(Requests) /\ Len(Append(Mapped, r)) = Len(applQ) + 1
    BY MappedTyped
  <2>3. \A i \in 1..Len(applQ) + 1 : Mapped'[i] = Append(Mapped, r)[i]
    BY <1>3, <1>4, <2>1, MappedTyped
  <2> QED
    BY <1>4, <2>1, <2>2, <2>3
<1>6. Known[r] = "idle" /\ Known' = [Known EXCEPT ![r] = "accepted"]
  BY DEF SendDataAppl, Known, TypeOK, Frames
<1>7. Layer!Accept(r)
  BY <1>5, <1>6 DEF Layer!Accept, Known, Mapped, SendDataAppl
<1> QED
  BY <1>7 DEF Layer!Next

(* sl_zw_send_data_appl that fails refuses the frame.                      *)
LEMMA StepRefuse ==
  ASSUME TypeOK, ~hijacked', hijacked' = hijacked,
         NEW c \in Contexts, NEW r \in Requests, SendDataApplRefused(c, r)
  PROVE  Layer!Next
<1>1. Known[r] = "idle" /\ Known' = [Known EXCEPT ![r] = "refused"]
  BY DEF SendDataApplRefused, Known, TypeOK, Frames
<1>2. Mapped' = Mapped
  BY MappedKept DEF SendDataApplRefused, poolVars
<1>3. Layer!Refuse(r)
  BY <1>1, <1>2 DEF Layer!Refuse, Known, Mapped, SendDataApplRefused
<1> QED
  BY <1>3 DEF Layer!Next

(* send_first takes the oldest frame.                                      *)
LEMMA StepTake ==
  ASSUME TypeOK, Own, TypeOK', Own', ~hijacked', hijacked' = hijacked, SendFirst
  PROVE  Layer!Next
<1>1. /\ applQ # <<>> /\ applQ' = Tail(applQ)
      /\ UNCHANGED <<phase, calls>>
  BY DEF SendFirst
<1>2. \A s \in Waiting : frame'[s] = frame[s]
  <2>1. Head(applQ) \in Slots /\ Head(applQ) \in Waiting
    BY <1>1, TailOnce DEF TypeOK, Own, Waiting
  <2>2. frame[Head(applQ)] \in Frames /\ ApplCb(Head(applQ)) \in Callbacks
    BY <2>1 DEF Own, Kinds, Frames, Callbacks
  <2>3. CASE \E s \in Slots : Allocate(s, frame[Head(applQ)], ApplCb(Head(applQ)))
    BY <2>2, <2>3, Taken, PlacesTyped
  <2> QED
    BY <2>3 DEF SendFirst, poolVars
<1>3. /\ Len(applQ') = Len(applQ) - 1 /\ Len(applQ) \in Nat \ {0}
      /\ \A i \in 1..Len(applQ) - 1 : applQ'[i] = applQ[i + 1] /\ applQ[i + 1] \in Waiting
  BY <1>1 DEF TypeOK, Waiting, SlotsOf
<1>4. Mapped' = Tail(Mapped) /\ Mapped # <<>>
  <2>1. /\ Mapped' \in Seq(Requests) /\ Len(Mapped') = Len(applQ')
        /\ \A i \in 1..Len(applQ') : Mapped'[i] = frame'[applQ'[i]]
    BY MappedTypedNext
  <2>2. /\ Tail(Mapped) \in Seq(Requests) /\ Len(Tail(Mapped)) = Len(applQ) - 1
        /\ \A i \in 1..Len(applQ) - 1 : Tail(Mapped)[i] = Mapped[i + 1]
    BY <1>1, MappedTyped
  <2>3. ASSUME NEW i \in 1..Len(applQ) - 1 PROVE Mapped'[i] = Tail(Mapped)[i]
    <3>1. applQ'[i] = applQ[i + 1] /\ applQ[i + 1] \in Waiting /\ i \in 1..Len(applQ')
      BY <1>3
    <3>2. Mapped'[i] = frame[applQ[i + 1]]
      BY <1>2, <2>1, <3>1
    <3>3. i + 1 \in 1..Len(applQ) /\ Tail(Mapped)[i] = Mapped[i + 1]
      BY <1>3, <2>2
    <3>4. Mapped[i + 1] = frame[applQ[i + 1]]
      BY <3>3, MappedTyped
    <3> QED
      BY <3>2, <3>3, <3>4
  <2>4. Mapped' = Tail(Mapped)
    <3> DEFINE m == Mapped'
               t == Tail(Mapped)
    <3>1. /\ m \in Seq(Requests) /\ t \in Seq(Requests) /\ Len(m) = Len(t)
          /\ \A i \in 1..Len(m) : m[i] = t[i]
      BY <1>3, <2>1, <2>2, <2>3
    <3> HIDE DEF m, t
    <3>2. m = t
      BY <3>1, SameList
    <3> QED
      BY <3>2 DEF m, t
  <2> QED
    BY <1>1, <2>4, MappedTyped
<1>5. Known' = Known
  BY <1>1 DEF Known
<1>6. Layer!Take
  BY <1>1, <1>4, <1>5 DEF Layer!Take, Known, Mapped
<1> QED
  BY <1>6 DEF Layer!Next

(* ZW_SendDataApplAbort withdraws a frame that waits.                      *)
LEMMA StepWithdraw ==
  ASSUME TypeOK, Own, TypeOK', Own', hijacked' = hijacked,
         NEW c \in Contexts, NEW r \in Requests, Abort(c, r)
  PROVE  Layer!Next
<1>1. PICK i \in 1..Len(applQ) : applQ' = Without(applQ, i)
  BY DEF Abort
<1>2. /\ applQ \in Seq(Slots) /\ UNCHANGED <<phase, calls, frame>>
  BY DEF Abort, TypeOK
<1> DEFINE m == SubSeq(Mapped, 1, i - 1) \o SubSeq(Mapped, i + 1, Len(Mapped))
<1>3. i \in 1..Len(Mapped) /\ Mapped \in Seq(Requests)
  BY MappedTyped
<1>4. m = Without(Mapped, i) /\ m \in Seq(Requests)
  <2>1. SubSeq(Mapped, 1, i - 1) \in Seq(Requests)
    BY <1>3
  <2>2. SubSeq(Mapped, i + 1, Len(Mapped)) \in Seq(Requests)
    BY <1>3
  <2> QED
    BY <2>1, <2>2 DEF Without
<1> HIDE DEF m
<1>5. /\ Len(m) = Len(applQ) - 1
      /\ \A j \in 1..Len(applQ) - 1 : m[j] = IF j < i THEN Mapped[j] ELSE Mapped[j + 1]
  BY <1>3, <1>4, WithoutIndex, MappedTyped
<1>6. /\ Len(applQ') = Len(applQ) - 1
      /\ \A j \in 1..Len(applQ) - 1 :
           applQ'[j] = IF j < i THEN applQ[j] ELSE applQ[j + 1]
  BY <1>1, <1>2, WithoutIndex
<1>7. Mapped' = m
  <2>1. Len(applQ) \in Nat
    BY <1>2
  <2>2. ASSUME NEW j \in 1..Len(applQ) - 1
        PROVE  Mapped'[j] = m[j]
    <3>1. j \in 1..Len(applQ') /\ j \in 1..Len(applQ) /\ j + 1 \in 1..Len(applQ)
      BY <2>1, <1>6
    <3>2. Mapped'[j] = frame[applQ'[j]]
      BY <1>2, <3>1, MappedTypedNext
    <3>3. Mapped[j] = frame[applQ[j]] /\ Mapped[j + 1] = frame[applQ[j + 1]]
      BY <3>1, MappedTyped
    <3>4. m[j] = IF j < i THEN Mapped[j] ELSE Mapped[j + 1]
      BY <1>5
    <3>5. applQ'[j] = IF j < i THEN applQ[j] ELSE applQ[j + 1]
      BY <1>6
    <3> QED
      BY <3>2, <3>3, <3>4, <3>5
  <2>3. Mapped' \in Seq(Requests) /\ Len(Mapped') = Len(applQ) - 1
    BY <1>6, MappedTypedNext
  <2> QED
    BY <1>4, <1>5, <2>2, <2>3
<1>8. Known' = Known
  BY <1>2 DEF Known
<1>9. Layer!Withdraw(i)
  BY <1>2, <1>7, <1>8 DEF Layer!Withdraw, Known, Mapped, m
<1> QED
  BY <1>3, <1>9 DEF Layer!Next, Mapped

(* A callback that is read from a session that nobody took over is that of *)
(* an accepted frame, which is not queued and not called back yet.         *)
LEMMA StepAnswer ==
  ASSUME TypeOK, Own, hijacked' = hijacked, NEW c \in Contexts, CallBack(c)
  PROVE  [Layer!Next]_(Layer!vars)
<1> DEFINE s == Head(todo[c]).slot
<1>1. /\ todo[c] # <<>> /\ Head(todo[c]).op = "call"
      /\ UNCHANGED <<phase, applQ, frame>>
      /\ calls' = IF done[s].to = "user" /\ calls[done[s].req] < 2
                  THEN [calls EXCEPT ![done[s].req] = @ + 1] ELSE calls
  BY DEF CallBack, AtStep, Idle, poolVars
<1>2. s \in Calling /\ s \in Slots /\ s \notin Waiting
  BY <1>1, HeadPlace, PlacesTyped DEF Own, Apart
<1>3. done[s] \in Callbacks
  BY <1>2 DEF TypeOK
<1> HIDE DEF s
<1>4. CASE done[s].to = "user"
  <2>1. PICK r \in Requests : done[s] = UserCb(r)
    BY <1>3, <1>4 DEF Callbacks, NoCb, ApplCb, UserCb
  <2>2. done[s].req = r
    BY <2>1 DEF UserCb
  <2>3. phase[r] = "accepted" /\ calls[r] = 0
    BY <1>2, <2>1 DEF Own, Owed
  <2>4. \A i \in 1..Len(applQ) : frame[applQ[i]] # r
    <3>1. SUFFICES ASSUME NEW i \in 1..Len(applQ), frame[applQ[i]] = r PROVE FALSE
      OBVIOUS
    <3>2. applQ[i] \in Waiting /\ done[applQ[i]] = UserCb(r) /\ applQ[i] \in used
      BY <3>1 DEF Own, Kinds, Apart, Waiting, SlotsOf
    <3> QED
      BY <1>2, <2>1, <3>2 DEF Own, Owed
  <2>5. calls' = [calls EXCEPT ![r] = 1]
    BY <1>1, <1>4, <2>2, <2>3
  <2>6. Known' = Known /\ Mapped' = Mapped
    BY <1>1 DEF Known, Mapped
  <2>7. Known[r] = "accepted" /\ \A i \in 1..Len(Mapped) : Mapped[i] # r
    BY <2>3, <2>4, MappedTyped DEF Known
  <2>8. Layer!Answer(r)
    BY <2>3, <2>5, <2>6, <2>7 DEF Layer!Answer, Layer!Queued, Known, Mapped
  <2> QED
    BY <2>8 DEF Layer!Next
<1>5. CASE done[s].to # "user"
  BY <1>1, <1>5, Stutters
<1> QED
  BY <1>4, <1>5

(* A nonce report takes a block that no waiting session has.               *)
LEMMA StepReport ==
  ASSUME TypeOK, Own, ~hijacked', hijacked' = hijacked,
         NEW n \in Reports, SendReport(n)
  PROVE  UNCHANGED Layer!vars
<1>1. PICK s \in Slots : Allocate(s, n, NoCb)
  BY DEF SendReport
<1>2. n \in Frames /\ NoCb \in Callbacks
  BY DEF Frames, Callbacks
<1>3. \A t \in Waiting : frame'[t] = frame[t]
  BY <1>1, <1>2, Taken, PlacesTyped
<1>4. \A r \in Requests : phase'[r] = phase[r]
  BY SendDataAssumption DEF SendReport, TypeOK, Frames
<1> QED
  BY <1>3, <1>4, Stutters DEF SendReport

(* Every step of SendData is a step of SendLayer, or a stutter.            *)
LEMMA LayerStep ==
  ASSUME OwnInv, OwnInv', [Next]_vars
  PROVE  [Layer!Next]_(Layer!vars)
<1>1. CASE hijacked'
  BY <1>1 DEF Layer!Next
<1>2. CASE ~hijacked'
  <2>1. TypeOK /\ Own /\ TypeOK' /\ Own' /\ hijacked' = hijacked
    BY <1>2, HijackedStays DEF OwnInv, TypeOK
  <2>2. CASE Send
    BY <1>2, <2>1, <2>2, StepAccept, StepRefuse, StepWithdraw, StepReport DEF Send
  <2>3. CASE Tcpip
    <3>1. CASE SendFirst
      BY <1>2, <2>1, <3>1, StepTake
    <3>2. CASE ~SendFirst
      <4>1. UNCHANGED <<phase, calls, frame, applQ>>
        BY <2>3, <3>2 DEF Tcpip, StartNothing, NextNothing, SendNext, HandOver, NoResponse, ArmEmergency, poolVars
      <4> QED
        BY <2>1, <4>1, Stutters
    <3> QED
      BY <3>1, <3>2
  <2>4. CASE Environment
    <3>1. UNCHANGED <<phase, calls, frame, applQ>>
      BY <2>4 DEF Environment, ChipCallback, ChipLost, EmergencyTimeout, BackoffTimeout, RxNotify, poolVars
    <3> QED
      BY <2>1, <3>1, Stutters
  <2>5. ASSUME NEW c \in Contexts, Continue(c) PROVE [Layer!Next]_(Layer!vars)
    <3>1. CASE CallBack(c)
      BY <2>1, <3>1, StepAnswer
    <3>2. CASE ~CallBack(c)
      <4>1. UNCHANGED <<phase, calls, frame, applQ>>
        BY <2>5, <3>2 DEF Continue, PostEvent, LowLevelDone, ApplDone, ReleaseAppl, ReturnUser, SendMore, UnlockLL, poolVars
      <4> QED
        BY <2>1, <4>1, Stutters
    <3> QED
      BY <3>1, <3>2
  <2>6. CASE UNCHANGED vars
    <3>1. UNCHANGED <<phase, calls, frame, applQ>>
      BY <2>6 DEF vars
    <3> QED
      BY <2>1, <3>1, Stutters
  <2> QED
    BY <2>2, <2>3, <2>4, <2>5, <2>6 DEF Next
<1> QED
  BY <1>1, <1>2

(* The send layer keeps its promise, whatever the number of senders, the   *)
(* pool, the queue and the failures: SendData implements SendLayer.        *)
THEOREM Implements == Spec => ImplementsSendLayer
<1>1. Init => Layer!Init
  BY LayerInit
<1>2. OwnInv /\ OwnInv' /\ [Next]_vars => [Layer!Next]_(Layer!vars)
  BY LayerStep
<1> QED
  BY <1>1, <1>2, Ownership, PTL DEF Spec, ImplementsSendLayer, Layer!Spec

-----------------------------------------------------------------------------
(* Who holds the locks of SendData, and what will advance its lists, for    *)
(* every set of requests, pool and queue size.  Both are promises about the *)
(* steps the contexts have still to make: a lock is set as long as a step   *)
(* will clear it, and for a list that is not empty an event is due, or the  *)
(* last post of it was refused to a timer.                                  *)

(* The steps of a context, and those that have to do with lock_ll.          *)
StepsOf(c) == SlotsOf(todo[c])
LockSteps == Owning \cup {More}
Locking(c) == StepsOf(c) \cap LockSteps

(* The entry of send_data_callback_func and what happens in ZW_SendData are *)
(* all a context has to do; the end of send_data_callback_func is the end   *)
(* of what it has to do, and the event for the next frame is posted last.   *)
Sound(q) ==
  /\ \A i \in 1..Len(q) :
       q[i].op \in {"lldone", "hand", "giveup", "arm"} => Len(q) = 1
  /\ \A i \in 1..Len(q) :
       q[i].op = "more" => i + 1 = Len(q) /\ q[i + 1] = Unlock
  /\ \A i \in 1..Len(q) : q[i].op = "unlock" =>
       /\ i = Len(q)
       /\ \/ i = 1 \/ q[i - 1] = More
          \/ i = 2 /\ q[1] = Post("SEND_NEXT_LL")

(* Threads of senders complete nothing of the low level, and tcpip_t alone  *)
(* is in ZW_SendData.                                                       *)
Placed ==
  /\ Locking("app") = {}
  /\ \A c \in Contexts \ {"tcpip"} : \A y \in StepsOf(c) :
       y.op \notin {"hand", "giveup", "arm"}
Stacks == Placed /\ \A c \in Contexts : Sound(todo[c])

(* lock_ll with nothing on send_data_list is about to be cleared.           *)
Emptied == lockLL /\ llQ = <<>> => \E c \in Contexts : Unlock \in StepsOf(c)

(* Between the last look at send_data_list and the clearing of lock_ll, an  *)
(* event for what has been queued is still to come.                         *)
PastMore(c) == Unlock \in StepsOf(c) /\ More \notin StepsOf(c)
Woken == llQ # <<>> /\ (\E c \in Contexts : PastMore(c)) => Due("SEND_NEXT_LL")

(* Until the host gives up a frame, one context at a time works for lock_ll,*)
(* and while it completes a frame, or is about to hand one over, the chip   *)
(* has none.                                                                *)
Finishing(c) == StepsOf(c) \cap {Unlock, LLDone(TRUE), LLDone(FALSE)} # {}
OneFrame ==
  ~late =>
    /\ air # <<>> => Len(air) = 1 /\ lockLL /\ chipCb /\ llQ # <<>> /\ Head(llQ) = Head(air)
    /\ \A c \in Contexts : Finishing(c) => air = <<>> /\ lockLL
    /\ \A c, d \in Contexts : Finishing(c) /\ Finishing(d) => c = d
    /\ \A s \in Slots : Hand(s) \in StepsOf("tcpip") =>
         /\ air = <<>> /\ lockLL /\ chipCb /\ llQ # <<>> /\ Head(llQ) = s
         /\ \A c \in Contexts : ~Finishing(c)
    /\ GiveUp \notin StepsOf("tcpip")

LowLevel == LockLLOwned /\ Emptied /\ NoLostWakeupLL /\ Woken /\ OneFrame
LocksInv == TypeOK /\ Stacks /\ LowLevel /\ NoLostWakeup

-----------------------------------------------------------------------------
(* Steps and events.                                                       *)

(* Two steps of different kinds differ, and a kind without fields is one    *)
(* step.                                                                    *)
LEMMA Kinded ==
  /\ \A y \in Steps : /\ y.op = "unlock" <=> y = Unlock
                      /\ y.op = "more" <=> y = More
                      /\ y.op = "giveup" <=> y = GiveUp
                      /\ y.op = "arm" <=> y = Arm
                      /\ y.op = "user" <=> y = InUser
                      /\ y.op = "post" <=> \E e \in Events : y = Post(e)
                      /\ y.op = "hand" <=> \E s \in Slots : y = Hand(s)
                      /\ y.op = "lldone" <=> y \in {LLDone(TRUE), LLDone(FALSE)}
  /\ Post("SEND_NEXT") # Post("SEND_NEXT_LL")
BY DEF Steps, Post, InUser, More, Unlock, GiveUp, Arm, LLDone, Hand, Call, Complete, Release

(* The steps that have to do with lock_ll, by their kind.                  *)
LEMMA LockStepsAre ==
  /\ \A y \in Steps : y \in LockSteps <=>
       y.op \in {"unlock", "more", "arm", "giveup", "lldone", "hand"}
  /\ LockSteps \subseteq Steps
<1>1. LockSteps \subseteq Steps
  BY StepsTyped DEF LockSteps, Owning
<1> QED
  BY <1>1, Kinded DEF LockSteps, Owning, Unlock, More, Arm, GiveUp, LLDone, Hand

LEMMA StepsAreSteps ==
  ASSUME TypeOK, NEW c \in Contexts
  PROVE  StepsOf(c) \subseteq Steps
BY DEF StepsOf, SlotsOf, TypeOK

(* The elements of two lists in a row.                                     *)
LEMMA ElementsOf ==
  ASSUME NEW S, NEW a \in Seq(S), NEW b \in Seq(S)
  PROVE  SlotsOf(a \o b) = SlotsOf(a) \cup SlotsOf(b)
<1>1. /\ Len(a \o b) = Len(a) + Len(b)
      /\ \A j \in 1..Len(a) + Len(b) :
           (a \o b)[j] = IF j <= Len(a) THEN a[j] ELSE b[j - Len(a)]
  BY Concatenated
<1>2. Len(a) \in Nat /\ Len(b) \in Nat
  OBVIOUS
<1>3. ASSUME NEW y, y \in SlotsOf(a \o b) PROVE y \in SlotsOf(a) \cup SlotsOf(b)
  <2>1. PICK j \in 1..Len(a) + Len(b) : (a \o b)[j] = y
    BY <1>1, <1>3 DEF SlotsOf
  <2>2. CASE j <= Len(a)
    BY <1>1, <1>2, <2>1, <2>2 DEF SlotsOf
  <2>3. CASE ~(j <= Len(a))
    <3>1. j - Len(a) \in 1..Len(b) /\ b[j - Len(a)] = y
      BY <1>1, <1>2, <2>1, <2>3
    <3> QED
      BY <3>1 DEF SlotsOf
  <2> QED
    BY <2>2, <2>3
<1>4. ASSUME NEW y, y \in SlotsOf(a) PROVE y \in SlotsOf(a \o b)
  <2>1. PICK j \in 1..Len(a) : a[j] = y
    BY <1>4 DEF SlotsOf
  <2>2. j \in 1..Len(a \o b) /\ (a \o b)[j] = y
    BY <2>1, <1>1, <1>2
  <2> QED
    BY <2>2 DEF SlotsOf
<1>5. ASSUME NEW y, y \in SlotsOf(b) PROVE y \in SlotsOf(a \o b)
  <2>1. PICK j \in 1..Len(b) : b[j] = y
    BY <1>5 DEF SlotsOf
  <2>2. j + Len(a) \in 1..Len(a \o b) /\ (a \o b)[j + Len(a)] = y
    BY <2>1, <1>1, <1>2
  <2> QED
    BY <2>2 DEF SlotsOf
<1> QED
  BY <1>3, <1>4, <1>5

(* Those of short lists.                                                   *)
LEMMA ElementsAre ==
  /\ SlotsOf(<<>>) = {}
  /\ \A x : SlotsOf(<<x>>) = {x}
  /\ \A x, y : SlotsOf(<<x, y>>) = {x, y}
  /\ \A x, y, z : SlotsOf(<<x, y, z>>) = {x, y, z}
<1>1. ASSUME NEW x, NEW y, NEW z PROVE SlotsOf(<<x, y, z>>) = {x, y, z}
  <2>1. 1..Len(<<x, y, z>>) = {1, 2, 3}
    OBVIOUS
  <2> QED
    BY <2>1 DEF SlotsOf
<1>2. ASSUME NEW x, NEW y PROVE SlotsOf(<<x, y>>) = {x, y}
  <2>1. 1..Len(<<x, y>>) = {1, 2}
    OBVIOUS
  <2> QED
    BY <2>1 DEF SlotsOf
<1>3. ASSUME NEW x PROVE SlotsOf(<<x>>) = {x}
  <2>1. 1..Len(<<x>>) = {1}
    OBVIOUS
  <2> QED
    BY <2>1 DEF SlotsOf
<1>4. SlotsOf(<<>>) = {}
  BY DEF SlotsOf
<1> QED
  BY <1>1, <1>2, <1>3, <1>4

(* A list of two.                                                          *)
LEMMA PairOf ==
  ASSUME NEW S, NEW x \in S, NEW y \in S
  PROVE  <<x>> \o <<y>> = <<x, y>>
<1> DEFINE a == <<x>>
           b == <<y>>
           p == <<x, y>>
<1>1. /\ a \in Seq(S) /\ Len(a) = 1 /\ a[1] = x /\ b \in Seq(S) /\ Len(b) = 1 /\ b[1] = y
      /\ p \in Seq(S) /\ Len(p) = 2 /\ p[1] = x /\ p[2] = y
  OBVIOUS
<1> HIDE DEF a, b, p
<1>2. a \o b \in Seq(S) /\ Len(a \o b) = 2 /\ (a \o b)[1] = x /\ (a \o b)[2] = y
  <2>1. /\ Len(a \o b) = 1 + 1
        /\ \A j \in 1..1 + 1 : (a \o b)[j] = IF j <= 1 THEN a[j] ELSE b[j - 1]
    BY <1>1, Concatenated
  <2>2. 1 \in 1..1 + 1 /\ 2 \in 1..1 + 1 /\ 2 - 1 = 1 /\ ~(2 <= 1)
    OBVIOUS
  <2>3. a \o b \in Seq(S)
    BY <1>1
  <2> QED
    BY <1>1, <2>1, <2>2, <2>3
<1>3. \A i \in 1..2 : i = 1 \/ i = 2
  OBVIOUS
<1>4. a \o b = p
  BY <1>1, <1>2, <1>3, SameList
<1> QED
  BY <1>4 DEF a, b, p

(* A list that grew has the same head.                                     *)
LEMMA AppendKeepsHead ==
  ASSUME NEW S, NEW q \in Seq(S), NEW e \in S
  PROVE  Append(q, e) # <<>> /\ (q # <<>> => Head(Append(q, e)) = Head(q))
<1>1. /\ Append(q, e) \in Seq(S) /\ Len(Append(q, e)) = Len(q) + 1 /\ Len(q) \in Nat
      /\ \A i \in 1..Len(q) : Append(q, e)[i] = q[i]
  OBVIOUS
<1>2. q # <<>> => Len(q) > 0 /\ Head(q) = q[1]
  OBVIOUS
<1>3. \A p \in Seq(S) : Len(p) > 0 => p # <<>> /\ Head(p) = p[1]
  OBVIOUS
<1> QED
  BY <1>1, <1>2, <1>3

(* A list is its head and its tail.                                        *)
LEMMA HeadAndTail ==
  ASSUME NEW S, NEW q \in Seq(S), q # <<>>
  PROVE  /\ q = <<Head(q)>> \o Tail(q) /\ Head(q) \in S /\ Tail(q) \in Seq(S)
         /\ SlotsOf(q) = {Head(q)} \cup SlotsOf(Tail(q))
<1>1. /\ q = <<Head(q)>> \o Tail(q) /\ Head(q) \in S /\ Tail(q) \in Seq(S)
      /\ <<Head(q)>> \in Seq(S)
  OBVIOUS
<1>2. SlotsOf(<<Head(q)>> \o Tail(q)) = SlotsOf(<<Head(q)>>) \cup SlotsOf(Tail(q))
  BY <1>1, ElementsOf
<1> QED
  BY <1>1, <1>2, ElementsAre

(* What a context has to do after steps were pushed in front of the others. *)
LEMMA StepsPush ==
  ASSUME TypeOK, NEW c \in Contexts, NEW next \in Seq(Steps), Push(c, next)
  PROVE  /\ StepsOf(c)' = StepsOf(c) \cup SlotsOf(next)
         /\ \A d \in Contexts : d # c => StepsOf(d)' = StepsOf(d)
<1>1. todo[c] \in Seq(Steps) /\ todo'[c] = next \o todo[c]
  BY DEF Push, TypeOK
<1>2. \A d \in Contexts : d # c => todo'[d] = todo[d]
  BY DEF Push, TypeOK
<1> QED
  BY <1>1, <1>2, ElementsOf DEF StepsOf

(* And after its current step was replaced.                                *)
LEMMA StepsThen ==
  ASSUME TypeOK, NEW c \in Contexts, NEW next \in Seq(Steps), todo[c] # <<>>,
         Then(c, next)
  PROVE  /\ StepsOf(c)' = SlotsOf(next) \cup SlotsOf(Tail(todo[c]))
         /\ StepsOf(c) = {Head(todo[c])} \cup SlotsOf(Tail(todo[c]))
         /\ \A d \in Contexts : d # c => StepsOf(d)' = StepsOf(d)
<1>1. todo[c] \in Seq(Steps) /\ todo'[c] = next \o Tail(todo[c])
  BY DEF Then, TypeOK
<1>2. \A d \in Contexts : d # c => todo'[d] = todo[d]
  BY DEF Then, TypeOK
<1>3. /\ Tail(todo[c]) \in Seq(Steps)
      /\ SlotsOf(todo[c]) = {Head(todo[c])} \cup SlotsOf(Tail(todo[c]))
  BY <1>1, HeadAndTail
<1>4. SlotsOf(next \o Tail(todo[c])) = SlotsOf(next) \cup SlotsOf(Tail(todo[c]))
  <2> DEFINE t == Tail(todo[c])
  <2>1. t \in Seq(Steps)
    BY <1>3
  <2> HIDE DEF t
  <2>2. SlotsOf(next \o t) = SlotsOf(next) \cup SlotsOf(t)
    BY <2>1, ElementsOf
  <2> QED
    BY <2>2 DEF t
<1> QED
  BY <1>1, <1>2, <1>3, <1>4 DEF StepsOf

-----------------------------------------------------------------------------
(* Stacks.                                                                 *)

(* A stack in which a callback is being made, and the steps that are no     *)
(* matter of lock_ll.                                                       *)
Open(q) == q # <<>> => Head(q).op \in {"user", "call", "complete", "release"}
Plain == {"post", "user", "call", "complete", "release"}

(* A single step, and the stacks of a completion.                          *)
LEMMA SoundShort ==
  /\ Sound(<<>>)
  /\ \A x \in Steps : x.op # "more" => Sound(<<x>>)
  /\ \A x \in Steps : x.op = "call" => Sound(<<x, More, Unlock>>)
  /\ Sound(<<Post("SEND_NEXT_LL"), Unlock>>)
<1>1. ASSUME NEW x \in Steps, x.op # "more" PROVE Sound(<<x>>)
  <2>1. /\ Len(<<x>>) = 1 /\ <<x>>[1] = x
    OBVIOUS
  <2> QED
    BY <1>1, <2>1 DEF Sound
<1>2. ASSUME NEW x \in Steps, x.op = "call" PROVE Sound(<<x, More, Unlock>>)
  <2> DEFINE q == <<x, More, Unlock>>
  <2>1. /\ Len(q) = 3 /\ q[1] = x /\ q[2] = More /\ q[3] = Unlock /\ 1..3 = {1, 2, 3}
    OBVIOUS
  <2> HIDE DEF q
  <2>2. \A i \in 1..Len(q) : i = 1 \/ i = 2 \/ i = 3
    BY <2>1
  <2>3. Sound(q)
    BY <1>2, <2>1, <2>2 DEF Sound, More, Unlock
  <2> QED
    BY <2>3 DEF q
<1>3. Sound(<<Post("SEND_NEXT_LL"), Unlock>>)
  <2> DEFINE q == <<Post("SEND_NEXT_LL"), Unlock>>
  <2>1. /\ Len(q) = 2 /\ q[1] = Post("SEND_NEXT_LL") /\ q[2] = Unlock /\ 1..2 = {1, 2}
    OBVIOUS
  <2> HIDE DEF q
  <2>2. \A i \in 1..Len(q) : i = 1 \/ i = 2
    BY <2>1
  <2>3. Sound(q)
    BY <2>1, <2>2 DEF Sound, Post, Unlock
  <2> QED
    BY <2>3 DEF q
<1>4. Sound(<<>>)
  BY DEF Sound
<1> QED
  BY <1>1, <1>2, <1>3, <1>4

(* A step pushed in front of others.                                       *)
LEMMA SoundPush ==
  ASSUME NEW q \in Seq(Steps), Sound(q), Open(q),
         NEW x \in Steps, x.op \in Plain
  PROVE  Sound(<<x>> \o q)
<1> DEFINE p == <<x>> \o q
<1>1. /\ Len(p) = Len(q) + 1 /\ p[1] = x /\ Len(q) \in Nat
      /\ \A i \in 2..Len(q) + 1 : p[i] = q[i - 1]
  OBVIOUS
<1>2. Len(q) > 0 => q # <<>> /\ Head(q) = q[1]
  OBVIOUS
<1> HIDE DEF p
<1>3. ASSUME NEW i \in 1..Len(p), p[i].op \notin Plain
      PROVE  i - 1 \in 1..Len(q) /\ p[i] = q[i - 1]
  BY <1>1, <1>3
<1>4. ASSUME NEW i \in 1..Len(p), p[i].op \in {"lldone", "hand", "giveup", "arm"}
      PROVE  Len(p) = 1
  <2>1. i - 1 \in 1..Len(q) /\ p[i] = q[i - 1]
    BY <1>3, <1>4 DEF Plain
  <2>2. Len(q) = 1 /\ q[1].op \in {"lldone", "hand", "giveup", "arm"}
    BY <1>4, <2>1 DEF Sound
  <2> QED
    BY <2>2, <1>2 DEF Open
<1>5. ASSUME NEW i \in 1..Len(p), p[i].op = "more"
      PROVE  i + 1 = Len(p) /\ p[i + 1] = Unlock
  <2>1. i - 1 \in 1..Len(q) /\ p[i] = q[i - 1]
    BY <1>3, <1>5 DEF Plain
  <2>2. i = Len(q) /\ q[i] = Unlock
    BY <1>5, <2>1 DEF Sound
  <2> QED
    BY <2>1, <2>2, <1>1
<1>6. ASSUME NEW i \in 1..Len(p), p[i].op = "unlock"
      PROVE  i = Len(p) /\ p[i - 1] = More
  <2>1. i - 1 \in 1..Len(q) /\ p[i] = q[i - 1]
    BY <1>3, <1>6 DEF Plain
  <2>2. /\ i - 1 = Len(q)
        /\ \/ i - 1 = 1 \/ q[i - 1 - 1] = More
           \/ i - 1 = 2 /\ q[1] = Post("SEND_NEXT_LL")
    BY <1>6, <2>1 DEF Sound
  <2>3. i - 1 # 1
    BY <2>1, <1>2, <1>6 DEF Open
  <2>4. q[1] # Post("SEND_NEXT_LL")
    BY <2>1, <1>2 DEF Open, Post
  <2>5. i - 1 \in 2..Len(q) + 1 /\ q[i - 1 - 1] = More
    BY <2>1, <2>2, <2>3, <2>4
  <2>6. p[i - 1] = q[i - 1 - 1]
    BY <2>5, <1>1
  <2> QED
    BY <2>2, <2>5, <2>6, <1>1
<1>7. Sound(p)
  BY <1>4, <1>5, <1>6 DEF Sound
<1> QED
  BY <1>7 DEF p

(* The rest of a stack once its first step is made.                        *)
LEMMA SoundTail ==
  ASSUME NEW q \in Seq(Steps), Sound(q), q # <<>>
  PROVE  /\ Sound(Tail(q))
         /\ Head(q).op \in {"lldone", "hand", "giveup", "arm", "unlock"} => Tail(q) = <<>>
         /\ Head(q).op = "more" => Tail(q) = <<Unlock>>
<1> DEFINE t == Tail(q)
<1>1. /\ Len(t) = Len(q) - 1 /\ Head(q) = q[1] /\ Len(q) \in Nat \ {0} /\ t \in Seq(Steps)
      /\ \A i \in 1..Len(q) - 1 : t[i] = q[i + 1]
  OBVIOUS
<1> HIDE DEF t
<1>2. ASSUME NEW i \in 1..Len(t), t[i].op \in {"lldone", "hand", "giveup", "arm"}
      PROVE  FALSE
  <2>1. i + 1 \in 1..Len(q) /\ q[i + 1] = t[i]
    BY <1>1, <1>2
  <2>2. Len(q) = 1
    BY <1>2, <2>1 DEF Sound
  <2> QED
    BY <2>1, <2>2
<1>3. ASSUME NEW i \in 1..Len(t), t[i].op = "more"
      PROVE  i + 1 = Len(t) /\ t[i + 1] = Unlock
  <2>1. i + 1 \in 1..Len(q) /\ q[i + 1].op = "more"
    BY <1>1, <1>3
  <2>2. i + 1 + 1 = Len(q) /\ q[i + 1 + 1] = Unlock
    BY <2>1 DEF Sound
  <2> QED
    BY <2>2, <1>1
<1>4. ASSUME NEW i \in 1..Len(t), t[i].op = "unlock"
      PROVE  i = Len(t) /\ (i = 1 \/ t[i - 1] = More)
  <2>1. i + 1 \in 1..Len(q) /\ q[i + 1].op = "unlock"
    BY <1>1, <1>4
  <2>2. /\ i + 1 = Len(q)
        /\ i + 1 = 1 \/ q[i + 1 - 1] = More \/ i + 1 = 2
    BY <2>1 DEF Sound
  <2> QED
    BY <2>2, <1>1
<1>5. Sound(t)
  BY <1>2, <1>3, <1>4 DEF Sound
<1>6. ASSUME q[1].op \in {"lldone", "hand", "giveup", "arm", "unlock"} PROVE Len(q) = 1
  BY <1>1, <1>6 DEF Sound
<1>7. ASSUME q[1].op = "more" PROVE t = <<Unlock>>
  <2>1. 1 + 1 = Len(q) /\ q[1 + 1] = Unlock
    BY <1>1, <1>7 DEF Sound
  <2>2. Len(t) = 1 /\ t[1] = Unlock
    BY <2>1, <1>1
  <2> QED
    BY <2>2, <1>1
<1>8. Len(q) = 1 => t = <<>>
  BY <1>1
<1> QED
  BY <1>1, <1>5, <1>6, <1>7, <1>8 DEF t

(* A step of a callback replaced by another.                               *)
LEMMA SoundReplace ==
  ASSUME NEW q \in Seq(Steps), Sound(q), q # <<>>, Open(q),
         NEW x \in Steps, x.op \in {"user", "call", "complete", "release"}
  PROVE  Sound(<<x>> \o Tail(q))
<1> DEFINE p == <<x>> \o Tail(q)
<1>1. /\ Len(p) = Len(q) /\ p[1] = x /\ Len(q) \in Nat \ {0} /\ Head(q) = q[1]
      /\ \A i \in 2..Len(q) : p[i] = q[i]
  OBVIOUS
<1> HIDE DEF p
<1>2. q[1].op \in {"user", "call", "complete", "release"}
  BY <1>1 DEF Open
<1>3. ASSUME NEW i \in 1..Len(p), p[i].op \notin Plain PROVE i \in 2..Len(q) /\ p[i] = q[i]
  BY <1>1, <1>3 DEF Plain
<1>4. ASSUME NEW i \in 1..Len(p), p[i].op \in {"lldone", "hand", "giveup", "arm"} PROVE FALSE
  <2>1. i \in 2..Len(q) /\ p[i] = q[i]
    BY <1>3, <1>4 DEF Plain
  <2>2. Len(q) = 1
    BY <1>4, <2>1, <1>1 DEF Sound
  <2> QED
    BY <2>1, <2>2
<1>5. ASSUME NEW i \in 1..Len(p), p[i].op = "more" PROVE i + 1 = Len(p) /\ p[i + 1] = Unlock
  <2>1. i \in 2..Len(q) /\ p[i] = q[i]
    BY <1>3, <1>5 DEF Plain
  <2>2. i + 1 = Len(q) /\ q[i + 1] = Unlock
    BY <1>5, <2>1, <1>1 DEF Sound
  <2> QED
    BY <2>1, <2>2, <1>1
<1>6. ASSUME NEW i \in 1..Len(p), p[i].op = "unlock" PROVE i = Len(p) /\ p[i - 1] = More
  <2>1. i \in 2..Len(q) /\ p[i] = q[i]
    BY <1>3, <1>6 DEF Plain
  <2>2. /\ i = Len(q)
        /\ q[i - 1] = More \/ (i = 2 /\ q[1] = Post("SEND_NEXT_LL"))
    BY <1>6, <2>1, <1>1 DEF Sound
  <2>3. q[i - 1] = More /\ i # 2
    BY <2>1, <2>2, <1>2 DEF Post, More
  <2> QED
    BY <2>1, <2>2, <2>3, <1>1
<1>7. Sound(p)
  BY <1>4, <1>5, <1>6 DEF Sound
<1> QED
  BY <1>7 DEF p

-----------------------------------------------------------------------------
(* What a context does outside the low level.                              *)

(* The properties, by the sets of steps.                                   *)
LEMMA BySteps ==
  /\ \A e \in Events : /\ Due(e) <=>
                          \/ e \in SlotsOf(events)
                          \/ \E c \in Contexts : Post(e) \in StepsOf(c)
                          \/ e \in lost
                       /\ Due(e)' <=>
                          \/ e \in SlotsOf(events')
                          \/ \E c \in Contexts : Post(e) \in StepsOf(c)'
                          \/ e \in lost'
  /\ LockLLOwned <=> (lockLL => \/ \E c \in Contexts : StepsOf(c) \cap Owning # {}
                                \/ emergency /\ llQ # <<>>)
  /\ LockLLOwned' <=> (lockLL' => \/ \E c \in Contexts : StepsOf(c)' \cap Owning # {}
                                  \/ emergency' /\ llQ' # <<>>)
BY DEF Due, Coming, LockLLOwned, Holds, StepsOf, SlotsOf

(* Nothing that has to do with lock_ll is to be done by anybody but what    *)
(* was before, and no post is forgotten.                                    *)
SameLocking == \A d \in Contexts : Locking(d)' = Locking(d)
PostsKept ==
  \A d \in Contexts, e \in Events : Post(e) \in StepsOf(d) => Post(e) \in StepsOf(d)'

LEMMA PlainSteps ==
  /\ \A x \in Steps : x.op \in Plain => x \notin LockSteps
  /\ \A e \in Events : Post(e) \in Steps /\ Post(e).op = "post"
BY LockStepsAre, StepsTyped DEF Plain, Post

LEMMA StacksPush ==
  ASSUME TypeOK, Stacks, NEW c \in Contexts, Open(todo[c]),
         NEW x \in Steps, x.op \in Plain, Push(c, <<x>>)
  PROVE  Stacks' /\ SameLocking /\ PostsKept /\ x \in StepsOf(c)'
<1>1. <<x>> \in Seq(Steps) /\ SlotsOf(<<x>>) = {x}
  BY ElementsAre
<1>2. /\ StepsOf(c)' = StepsOf(c) \cup {x}
      /\ \A d \in Contexts : d # c => StepsOf(d)' = StepsOf(d)
  BY <1>1, StepsPush
<1>3. x \notin LockSteps
  BY PlainSteps
<1>4. SameLocking
  BY <1>2, <1>3 DEF SameLocking, Locking
<1>5. Placed'
  <2>1. Locking("app")' = {}
    BY <1>4 DEF SameLocking, Stacks, Placed, Contexts
  <2>2. \A d \in Contexts \ {"tcpip"} : \A y \in StepsOf(d)' :
          y.op \notin {"hand", "giveup", "arm"}
    BY <1>2 DEF Stacks, Placed, Plain
  <2> QED
    BY <2>1, <2>2 DEF Placed
<1>6. ASSUME NEW d \in Contexts PROVE Sound(todo[d])'
  <2>1. CASE d = c
    <3>1. todo[c] \in Seq(Steps) /\ todo'[c] = <<x>> \o todo[c]
      BY DEF TypeOK, Push
    <3>2. Sound(todo[c])
      BY DEF Stacks
    <3>3. Sound(<<x>> \o todo[c])
      BY <3>1, <3>2, SoundPush
    <3> QED
      BY <2>1, <3>1, <3>3
  <2>2. CASE d # c
    BY <2>2 DEF Push, TypeOK, Stacks
  <2> QED
    BY <2>1, <2>2
<1> QED
  BY <1>2, <1>4, <1>5, <1>6 DEF Stacks, PostsKept

(* The rest of a stack is that of its tail.                                *)
LEMMA StacksPop ==
  ASSUME TypeOK, Stacks, NEW c \in Contexts, todo[c] # <<>>,
         Head(todo[c]).op \in Plain, Then(c, <<>>)
  PROVE  /\ Stacks' /\ SameLocking
         /\ \A d \in Contexts, e \in Events :
              Post(e) \in StepsOf(d) /\ Post(e) # Head(todo[c]) => Post(e) \in StepsOf(d)'
<1> DEFINE t == Tail(todo[c])
<1>1. <<>> \in Seq(Steps) /\ SlotsOf(<<>>) = {}
  BY ElementsAre
<1>2. /\ StepsOf(c)' = SlotsOf(t) /\ StepsOf(c) = {Head(todo[c])} \cup SlotsOf(t)
      /\ \A d \in Contexts : d # c => StepsOf(d)' = StepsOf(d)
  BY <1>1, StepsThen
<1>3. todo[c] \in Seq(Steps) /\ t \in Seq(Steps) /\ todo'[c] = <<>> \o t /\ Head(todo[c]) \in Steps
  BY DEF TypeOK, Then
<1>4. Head(todo[c]) \notin LockSteps
  BY <1>3, PlainSteps
<1> HIDE DEF t
<1>5. SameLocking
  BY <1>2, <1>4 DEF SameLocking, Locking
<1>6. Placed'
  <2>1. Locking("app")' = {}
    BY <1>5 DEF SameLocking, Stacks, Placed, Contexts
  <2>2. \A d \in Contexts \ {"tcpip"} : \A y \in StepsOf(d)' :
          y.op \notin {"hand", "giveup", "arm"}
    BY <1>2 DEF Stacks, Placed
  <2> QED
    BY <2>1, <2>2 DEF Placed
<1>7. ASSUME NEW d \in Contexts PROVE Sound(todo[d])'
  <2>1. CASE d = c
    <3>1. todo'[c] = t
      BY <1>3
    <3>2. Sound(t)
      BY <1>3, SoundTail DEF Stacks, t
    <3> QED
      BY <2>1, <3>1, <3>2
  <2>2. CASE d # c
    BY <2>2 DEF Then, TypeOK, Stacks
  <2> QED
    BY <2>1, <2>2
<1> QED
  BY <1>2, <1>5, <1>6, <1>7 DEF Stacks

(* A step of a callback becomes another, with or without a post before it.  *)
LEMMA StacksReplace ==
  ASSUME TypeOK, Stacks, NEW c \in Contexts, todo[c] # <<>>, Open(todo[c]),
         NEW x \in Steps, x.op \in {"user", "call", "complete", "release"},
         NEW e \in Events, Then(c, <<x>>) \/ Then(c, <<Post(e), x>>)
  PROVE  /\ Stacks' /\ SameLocking /\ PostsKept
         /\ Then(c, <<Post(e), x>>) => Post(e) \in StepsOf(c)'
<1> DEFINE t == Tail(todo[c])
<1>0. x.op \in Plain /\ Post(e) \in Steps /\ Post(e).op = "post"
  BY PlainSteps DEF Plain
<1>1. /\ <<x>> \in Seq(Steps) /\ SlotsOf(<<x>>) = {x}
      /\ <<Post(e), x>> \in Seq(Steps) /\ SlotsOf(<<Post(e), x>>) = {Post(e), x}
  BY <1>0, ElementsAre
<1>2. /\ \/ StepsOf(c)' = {x} \cup SlotsOf(t)
         \/ StepsOf(c)' = {Post(e), x} \cup SlotsOf(t)
      /\ Then(c, <<Post(e), x>>) => StepsOf(c)' = {Post(e), x} \cup SlotsOf(t)
      /\ StepsOf(c) = {Head(todo[c])} \cup SlotsOf(t)
      /\ \A d \in Contexts : d # c => StepsOf(d)' = StepsOf(d)
  <2>1. CASE Then(c, <<x>>) /\ ~Then(c, <<Post(e), x>>)
    BY <1>1, <2>1, StepsThen
  <2>2. CASE Then(c, <<Post(e), x>>)
    BY <1>1, <2>2, StepsThen
  <2> QED
    BY <2>1, <2>2
<1>3. todo[c] \in Seq(Steps) /\ t \in Seq(Steps) /\ Head(todo[c]) \in Steps
  BY DEF TypeOK
<1>4. /\ Head(todo[c]).op \in {"user", "call", "complete", "release"}
      /\ Head(todo[c]) \notin LockSteps /\ x \notin LockSteps /\ Post(e) \notin LockSteps
  BY <1>0, <1>3, PlainSteps DEF Open, Plain
<1> HIDE DEF t
<1>5. SameLocking
  BY <1>2, <1>4 DEF SameLocking, Locking
<1>6. Placed'
  <2>1. Locking("app")' = {}
    BY <1>5 DEF SameLocking, Stacks, Placed, Contexts
  <2>2. \A d \in Contexts \ {"tcpip"} : \A y \in StepsOf(d)' :
          y.op \notin {"hand", "giveup", "arm"}
    BY <1>0, <1>2 DEF Stacks, Placed, Plain
  <2> QED
    BY <2>1, <2>2 DEF Placed
<1>7. ASSUME NEW d \in Contexts PROVE Sound(todo[d])'
  <2>1. CASE d = c
    <3>1. Sound(<<x>> \o t) /\ <<x>> \o t \in Seq(Steps) /\ Open(<<x>> \o t)
      <4>1. Sound(<<x>> \o t)
        BY <1>3, SoundReplace DEF Stacks, t
      <4>2. <<x>> \o t \in Seq(Steps) /\ Head(<<x>> \o t) = x
        BY <1>1, <1>3
      <4> QED
        BY <4>1, <4>2 DEF Open
    <3>2. Sound(<<Post(e)>> \o (<<x>> \o t))
      BY <3>1, <1>0, SoundPush DEF Plain
    <3>3. <<Post(e)>> \o (<<x>> \o t) = <<Post(e), x>> \o t
      BY <1>0, <1>3
    <3>4. todo'[c] = <<x>> \o t \/ todo'[c] = <<Post(e), x>> \o t
      BY DEF Then, TypeOK, t
    <3> QED
      BY <2>1, <3>1, <3>2, <3>3, <3>4
  <2>2. CASE d # c
    BY <2>2 DEF Then, TypeOK, Stacks
  <2> QED
    BY <2>1, <2>2
<1>8. PostsKept
  <2>1. \A f \in Events : Post(f) # Head(todo[c])
    BY <1>4 DEF Post
  <2> QED
    BY <1>2, <2>1 DEF PostsKept
<1> QED
  BY <1>2, <1>5, <1>6, <1>7, <1>8 DEF Stacks

(* A context whose stack is replaced by fin.                               *)
LEMMA StackBecomes ==
  ASSUME TypeOK, Stacks, NEW c \in Contexts, NEW fin \in Seq(Steps), Sound(fin),
         todo' = [todo EXCEPT ![c] = fin],
         c = "app" => SlotsOf(fin) \cap LockSteps = {},
         c # "tcpip" => \A y \in SlotsOf(fin) : y.op \notin {"hand", "giveup", "arm"}
  PROVE  /\ Stacks' /\ StepsOf(c)' = SlotsOf(fin)
         /\ \A d \in Contexts : d # c => StepsOf(d)' = StepsOf(d)
<1>1. todo'[c] = fin /\ \A d \in Contexts : d # c => todo'[d] = todo[d]
  BY DEF TypeOK
<1>2. StepsOf(c)' = SlotsOf(fin) /\ \A d \in Contexts : d # c => StepsOf(d)' = StepsOf(d)
  BY <1>1 DEF StepsOf
<1>3. Placed'
  <2>1. Locking("app")' = {}
    BY <1>2 DEF Stacks, Placed, Contexts, Locking
  <2>2. \A d \in Contexts \ {"tcpip"} : \A y \in StepsOf(d)' :
          y.op \notin {"hand", "giveup", "arm"}
    BY <1>2 DEF Stacks, Placed
  <2> QED
    BY <2>1, <2>2 DEF Placed
<1>4. \A d \in Contexts : Sound(todo[d])'
  BY <1>1 DEF Stacks
<1> QED
  BY <1>2, <1>3, <1>4 DEF Stacks

(* A context that was idle, and one whose stack is its current step.       *)
LEMMA OneStepStack ==
  ASSUME TypeOK, NEW c \in Contexts, NEW next \in Seq(Steps)
  PROVE  /\ todo[c] = <<>> /\ Push(c, next) =>
              todo' = [todo EXCEPT ![c] = next] /\ StepsOf(c) = {}
         /\ Tail(todo[c]) = <<>> /\ todo[c] # <<>> /\ Then(c, next) =>
              todo' = [todo EXCEPT ![c] = next] /\ StepsOf(c) = {Head(todo[c])}
<1>1. ASSUME todo[c] = <<>>, Push(c, next)
      PROVE  todo' = [todo EXCEPT ![c] = next] /\ StepsOf(c) = {}
  <2>1. next \o <<>> = next
    OBVIOUS
  <2> QED
    BY <1>1, <2>1, ElementsAre DEF Push, StepsOf
<1>2. ASSUME Tail(todo[c]) = <<>>, todo[c] # <<>>, Then(c, next)
      PROVE  todo' = [todo EXCEPT ![c] = next] /\ StepsOf(c) = {Head(todo[c])}
  <2>1. next \o <<>> = next
    OBVIOUS
  <2>2. todo[c] \in Seq(Steps)
    BY DEF TypeOK
  <2>3. SlotsOf(todo[c]) = {Head(todo[c])} \cup SlotsOf(<<>>)
    BY <1>2, <2>2, HeadAndTail
  <2> QED
    BY <1>2, <2>1, <2>3, ElementsAre DEF Then, StepsOf
<1> QED
  BY <1>1, <1>2

-----------------------------------------------------------------------------
(* The low level is as it was for a step that has nothing to do with it.    *)
LEMMA LockKept ==
  ASSUME TypeOK, LockLLOwned, Emptied, OneFrame, SameLocking,
         UNCHANGED <<lockLL, chipCb, air, emergency, late>>,
         llQ' = llQ \/ \E s \in Slots : llQ' = Append(llQ, s)
  PROVE  LockLLOwned' /\ Emptied' /\ OneFrame'
<1>1. llQ # <<>> => llQ' # <<>> /\ Head(llQ') = Head(llQ)
  BY AppendKeepsHead DEF TypeOK
<1>2. \A d \in Contexts, y \in LockSteps : y \in StepsOf(d)' <=> y \in StepsOf(d)
  BY DEF SameLocking, Locking
<1>3. /\ Owning \subseteq LockSteps /\ Unlock \in Owning /\ LLDone(TRUE) \in Owning
      /\ LLDone(FALSE) \in Owning /\ GiveUp \in Owning /\ \A s \in Slots : Hand(s) \in Owning
  BY DEF LockSteps, Owning
<1>4. LockLLOwned'
  BY <1>1, <1>2, <1>3, BySteps
<1>5. Emptied'
  BY <1>1, <1>2, <1>3 DEF Emptied
<1>6. \A d \in Contexts : Finishing(d)' <=> Finishing(d)
  BY <1>2, <1>3 DEF Finishing
<1>7. OneFrame'
  BY <1>1, <1>2, <1>3, <1>6 DEF OneFrame, Contexts
<1> QED
  BY <1>4, <1>5, <1>7

(* So are the events, if none for the low level is taken.                  *)
LEMMA WakeKept ==
  ASSUME TypeOK, NoLostWakeupLL, Woken, SameLocking, UNCHANGED lockLL,
         Due("SEND_NEXT_LL") => Due("SEND_NEXT_LL")',
         llQ' = llQ \/ Due("SEND_NEXT_LL")'
  PROVE  NoLostWakeupLL' /\ Woken'
<1>1. \A d \in Contexts : PastMore(d)' <=> PastMore(d)
  BY DEF SameLocking, Locking, PastMore, LockSteps, Owning
<1> QED
  BY <1>1 DEF NoLostWakeupLL, Woken

(* The reader of the queue runs only while whoever is past its last look at *)
(* send_data_list waits for room, with its event in hand.                   *)
LEMMA BlockedWakes ==
  ASSUME TypeOK, Stacks, Idle("tcpip"), Runs("tcpip"), NEW c \in Contexts, PastMore(c)
  PROVE  Due("SEND_NEXT_LL") /\ Post("SEND_NEXT_LL") \in StepsOf(c) /\ c # "tcpip"
<1> DEFINE q == todo[c]
<1>1. /\ q \in Seq(Steps) /\ Sound(q) /\ Len(q) \in Nat
      /\ (Len(q) > 0 => q # <<>> /\ Head(q) = q[1])
  BY DEF TypeOK, Stacks
<1>2. PICK i \in 1..Len(q) : q[i] = Unlock
  BY DEF PastMore, StepsOf, SlotsOf
<1>3. c # "app" /\ c # "tcpip"
  <2>1. c # "app"
    BY DEF PastMore, Stacks, Placed, Locking, LockSteps, Owning
  <2>2. todo[c] # <<>>
    BY <1>2
  <2> QED
    BY <2>1, <2>2 DEF Idle
<1>4. Blocked(c)
  BY <1>2, <1>3 DEF Runs, Above, Contexts, Idle
<1>5. q[1].op = "post" /\ 1 \in 1..Len(q)
  BY <1>1, <1>2, <1>4 DEF Blocked
<1>6. i # 1 /\ q[i].op = "unlock"
  BY <1>2, <1>5 DEF Unlock
<1>7. q[i - 1] # More
  BY <1>2, <1>6 DEF PastMore, StepsOf, SlotsOf
<1>8. q[1] = Post("SEND_NEXT_LL")
  BY <1>1, <1>2, <1>6, <1>7 DEF Sound
<1>9. Post("SEND_NEXT_LL") \in StepsOf(c)
  BY <1>5, <1>8 DEF StepsOf, SlotsOf
<1> QED
  BY <1>3, <1>9, BySteps DEF Events

(* An event that was due still is, unless it was taken.                    *)
LEMMA DueKept ==
  ASSUME TypeOK, PostsKept, UNCHANGED lost, NEW e \in Events,
         \/ events' = events
         \/ events # <<>> /\ Head(events) # e /\ events' = Tail(events)
  PROVE  Due(e) => Due(e)'
<1>1. e \in SlotsOf(events) => e \in SlotsOf(events')
  BY HeadAndTail DEF TypeOK
<1> QED
  BY <1>1, BySteps DEF PostsKept

LEMMA LowLevelKept ==
  ASSUME TypeOK, LowLevel, SameLocking, PostsKept,
         UNCHANGED <<lockLL, chipCb, air, emergency, late, lost>>,
         \/ llQ' = llQ
         \/ /\ \E s \in Slots : llQ' = Append(llQ, s)
            /\ \E c \in Contexts : Post("SEND_NEXT_LL") \in StepsOf(c)',
         \/ events' = events
         \/ events # <<>> /\ Head(events) # "SEND_NEXT_LL" /\ events' = Tail(events)
  PROVE  LowLevel'
<1>1. LockLLOwned' /\ Emptied' /\ OneFrame'
  BY LockKept DEF LowLevel
<1>2. /\ Due("SEND_NEXT_LL") => Due("SEND_NEXT_LL")'
      /\ llQ' = llQ \/ Due("SEND_NEXT_LL")'
  BY DueKept, BySteps DEF Events
<1>3. NoLostWakeupLL' /\ Woken'
  BY <1>2, WakeKept DEF LowLevel
<1> QED
  BY <1>1, <1>3 DEF LowLevel

-----------------------------------------------------------------------------
(* Actions that take no part in the low level.                             *)

(* A context that may start something has an open stack.                   *)
LEMMA FreeIsOpen ==
  ASSUME NEW c \in Contexts, Free(c) \/ Idle(c)
  PROVE  Open(todo[c])
BY DEF Free, Idle, Open, InUser

LEMMA SameStacks ==
  ASSUME Stacks, UNCHANGED todo
  PROVE  Stacks' /\ SameLocking /\ PostsKept
BY DEF Stacks, Placed, SameLocking, PostsKept, StepsOf, Locking

LEMMA LocksSend ==
  ASSUME TypeOK, Stacks, LowLevel, NoLostWakeup, Send
  PROVE  Stacks' /\ LowLevel' /\ NoLostWakeup'
<1> USE DEF poolVars, chipVars, timerVars, ghostVars
<1>0. "sapi" \in Contexts /\ "SEND_NEXT" \in Events /\ "SEND_NEXT_LL" \in Events
  BY DEF Contexts, Events
<1>1. ASSUME NEW c \in Contexts, NEW r \in Requests, SendDataAppl(c, r)
      PROVE  Stacks' /\ LowLevel' /\ NoLostWakeup'
  <2>1. Open(todo[c]) /\ Push(c, <<Post("SEND_NEXT")>>)
    BY <1>1, FreeIsOpen DEF SendDataAppl
  <2>2. Post("SEND_NEXT") \in Steps /\ Post("SEND_NEXT").op \in Plain
    BY <1>0, PlainSteps DEF Plain
  <2>3. Stacks' /\ SameLocking /\ PostsKept /\ Post("SEND_NEXT") \in StepsOf(c)'
    BY <2>1, <2>2, StacksPush
  <2>4. UNCHANGED <<lockLL, chipCb, air, emergency, late, llQ, events, lost>>
    BY <1>1 DEF SendDataAppl
  <2>5. LowLevel'
    BY <2>3, <2>4, LowLevelKept
  <2>6. Due("SEND_NEXT")'
    BY <1>0, <2>3, BySteps
  <2> QED
    BY <2>3, <2>5, <2>6 DEF NoLostWakeup
<1>2. ASSUME NEW c \in Contexts, NEW r \in Requests, SendDataApplRefused(c, r)
      PROVE  Stacks' /\ LowLevel' /\ NoLostWakeup'
  <2>1. UNCHANGED <<lockLL, chipCb, air, emergency, late, llQ, events, todo, applQ, lock, backoff, lost>>
    BY <1>2 DEF SendDataApplRefused
  <2>2. Stacks' /\ SameLocking /\ PostsKept
    BY <2>1, SameStacks
  <2>3. LowLevel'
    BY <2>1, <2>2, LowLevelKept
  <2>4. Due("SEND_NEXT") => Due("SEND_NEXT")'
    BY <1>0, <2>1, <2>2, DueKept
  <2> QED
    BY <2>1, <2>2, <2>3, <2>4 DEF NoLostWakeup
<1>3. ASSUME NEW c \in Contexts, NEW r \in Requests, Abort(c, r)
      PROVE  Stacks' /\ LowLevel' /\ NoLostWakeup'
  <2> DEFINE x == Call(handle[r], FALSE)
  <2>1. Open(todo[c]) /\ Push(c, <<x>>)
    BY <1>3, FreeIsOpen DEF Abort
  <2>2. PICK i \in 1..Len(applQ) : applQ[i] = handle[r]
    BY <1>3 DEF Abort
  <2>3. applQ # <<>> /\ handle[r] \in Slots
    BY <2>2 DEF TypeOK
  <2>4. x \in Steps /\ x.op \in Plain
    BY <2>3, StepsTyped DEF Call, Plain
  <2> HIDE DEF x
  <2>5. Stacks' /\ SameLocking /\ PostsKept
    BY <2>1, <2>4, StacksPush
  <2>6. UNCHANGED <<lockLL, chipCb, air, emergency, late, llQ, events, lock, backoff, lost>>
    BY <1>3 DEF Abort
  <2>7. LowLevel'
    BY <2>5, <2>6, LowLevelKept
  <2>8. Due("SEND_NEXT") => Due("SEND_NEXT")'
    BY <1>0, <2>5, <2>6, DueKept
  <2> QED
    BY <2>3, <2>5, <2>6, <2>7, <2>8 DEF NoLostWakeup
<1>4. ASSUME NEW n \in Reports, SendReport(n)
      PROVE  Stacks' /\ LowLevel' /\ NoLostWakeup'
  <2>1. Open(todo["sapi"]) /\ Push("sapi", <<Post("SEND_NEXT_LL")>>)
    BY <1>0, <1>4, FreeIsOpen DEF SendReport
  <2>2. Post("SEND_NEXT_LL") \in Steps /\ Post("SEND_NEXT_LL").op \in Plain
    BY <1>0, PlainSteps DEF Plain
  <2>3. Stacks' /\ SameLocking /\ PostsKept /\ Post("SEND_NEXT_LL") \in StepsOf("sapi")'
    BY <1>0, <2>1, <2>2, StacksPush
  <2>4. /\ UNCHANGED <<lockLL, chipCb, air, emergency, late, events, applQ, lock, backoff, lost>>
        /\ \E s \in Slots : llQ' = Append(llQ, s)
    BY <1>4 DEF SendReport
  <2>5. LowLevel'
    BY <1>0, <2>3, <2>4, LowLevelKept
  <2>6. Due("SEND_NEXT") => Due("SEND_NEXT")'
    BY <1>0, <2>3, <2>4, DueKept
  <2> QED
    BY <2>3, <2>4, <2>5, <2>6 DEF NoLostWakeup
<1> QED
  BY <1>1, <1>2, <1>3, <1>4 DEF Send

LEMMA LocksStart ==
  ASSUME TypeOK, Stacks, LowLevel, NoLostWakeup, StartNothing \/ SendFirst
  PROVE  Stacks' /\ LowLevel' /\ NoLostWakeup'
<1> USE DEF poolVars, chipVars, timerVars, ghostVars
<1>0. "tcpip" \in Contexts /\ "SEND_NEXT" \in Events /\ "SEND_NEXT_LL" \in Events
  BY DEF Contexts, Events
<1>1. CASE StartNothing
  <2>1. /\ UNCHANGED <<lockLL, chipCb, air, emergency, late, llQ, todo, applQ, lock, backoff, lost>>
        /\ events # <<>> /\ Head(events) # "SEND_NEXT_LL" /\ events' = Tail(events)
        /\ lock \/ applQ = <<>>
    BY <1>1 DEF StartNothing
  <2>2. Stacks' /\ SameLocking /\ PostsKept
    BY <2>1, SameStacks
  <2>3. LowLevel'
    BY <2>1, <2>2, LowLevelKept
  <2> QED
    BY <2>1, <2>2, <2>3 DEF NoLostWakeup
<1>2. CASE SendFirst
  <2>1. /\ UNCHANGED <<lockLL, chipCb, air, emergency, late, lost>> /\ lock'
        /\ events # <<>> /\ Head(events) # "SEND_NEXT_LL" /\ events' = Tail(events)
    BY <1>2 DEF SendFirst
  <2>2. Open(todo["tcpip"])
    BY <1>0, <1>2, FreeIsOpen DEF SendFirst
  <2>3. CASE /\ \E s \in Slots : llQ' = Append(llQ, s)
             /\ Push("tcpip", <<Post("SEND_NEXT_LL")>>)
    <3>1. Post("SEND_NEXT_LL") \in Steps /\ Post("SEND_NEXT_LL").op \in Plain
      BY <1>0, PlainSteps DEF Plain
    <3>2. Stacks' /\ SameLocking /\ PostsKept /\ Post("SEND_NEXT_LL") \in StepsOf("tcpip")'
      BY <1>0, <2>2, <2>3, <3>1, StacksPush
    <3>3. LowLevel'
      BY <1>0, <2>1, <2>3, <3>2, LowLevelKept
    <3> QED
      BY <2>1, <3>2, <3>3 DEF NoLostWakeup
  <2>4. CASE Push("tcpip", <<Complete(Head(applQ), FALSE)>>) /\ llQ' = llQ
    <3> DEFINE x == Complete(Head(applQ), FALSE)
    <3>1. Head(applQ) \in Slots
      BY <1>2, QueueTyped DEF SendFirst, TypeOK
    <3>2. x \in Steps /\ x.op \in Plain
      BY <3>1, StepsTyped DEF Complete, Plain
    <3> HIDE DEF x
    <3>3. Stacks' /\ SameLocking /\ PostsKept
      BY <1>0, <2>2, <2>4, <3>2, StacksPush DEF x
    <3>4. LowLevel'
      BY <2>1, <2>4, <3>3, LowLevelKept
    <3> QED
      BY <2>1, <3>3, <3>4 DEF NoLostWakeup
  <2> QED
    BY <1>2, <2>3, <2>4 DEF SendFirst
<1> QED
  BY <1>1, <1>2

-----------------------------------------------------------------------------
(* tcpip_t and the chip.                                                   *)

LEMMA LocksNextNothing ==
  ASSUME TypeOK, Stacks, LowLevel, NoLostWakeup, NextNothing
  PROVE  Stacks' /\ LowLevel' /\ NoLostWakeup'
<1> USE DEF poolVars, chipVars, timerVars, ghostVars
<1>0. "SEND_NEXT" \in Events /\ "SEND_NEXT_LL" \in Events
  BY DEF Events
<1>1. /\ UNCHANGED <<lockLL, chipCb, air, emergency, late, llQ, todo, applQ, lock, backoff, lost>>
      /\ events # <<>> /\ Head(events) # "SEND_NEXT" /\ events' = Tail(events)
      /\ lockLL \/ llQ = <<>>
  BY DEF NextNothing
<1>2. Stacks' /\ SameLocking /\ PostsKept
  BY <1>1, SameStacks
<1>3. LockLLOwned' /\ Emptied' /\ OneFrame'
  BY <1>1, <1>2, LockKept DEF LowLevel
<1>4. Due("SEND_NEXT") => Due("SEND_NEXT")'
  BY <1>0, <1>1, <1>2, DueKept
<1>5. Woken'
  <2>1. ASSUME NEW c \in Contexts, PastMore(c)' PROVE Due("SEND_NEXT_LL")'
    <3>1. PastMore(c)
      BY <2>1, <1>1 DEF PastMore, StepsOf
    <3>2. Post("SEND_NEXT_LL") \in StepsOf(c)
      BY <3>1, BlockedWakes DEF NextNothing
    <3> QED
      BY <3>2, <1>0, <1>2, BySteps DEF PostsKept
  <2> QED
    BY <2>1 DEF Woken
<1> QED
  BY <1>1, <1>2, <1>3, <1>4, <1>5 DEF LowLevel, NoLostWakeupLL, NoLostWakeup

LEMMA LocksSendNext ==
  ASSUME TypeOK, Stacks, LowLevel, NoLostWakeup, SendNext
  PROVE  Stacks' /\ LowLevel' /\ NoLostWakeup'
<1> USE DEF poolVars, chipVars, timerVars, ghostVars
<1> DEFINE h == Head(llQ)
           x == Hand(h)
<1>0. "tcpip" \in Contexts /\ "SEND_NEXT" \in Events /\ "SEND_NEXT_LL" \in Events
  BY DEF Contexts, Events
<1>1. /\ UNCHANGED <<air, emergency, late, llQ, applQ, lock, backoff, lost>> /\ lockLL' /\ chipCb'
      /\ events # <<>> /\ Head(events) # "SEND_NEXT" /\ events' = Tail(events)
      /\ ~lockLL /\ llQ # <<>> /\ todo["tcpip"] = <<>> /\ Push("tcpip", <<x>>)
  BY DEF SendNext, Idle
<1>2. h \in Slots /\ x \in Steps /\ x.op = "hand" /\ x \in Owning
  <2>1. h \in Slots
    BY <1>1, QueueTyped DEF TypeOK
  <2> QED
    BY <2>1, StepsTyped DEF Hand, Owning
<1> HIDE DEF h
<1>3. <<x>> \in Seq(Steps) /\ Sound(<<x>>) /\ SlotsOf(<<x>>) = {x}
  BY <1>2, SoundShort, ElementsAre
<1>4. todo' = [todo EXCEPT !["tcpip"] = <<x>>] /\ StepsOf("tcpip") = {}
  BY <1>0, <1>1, <1>3, OneStepStack
<1>5. /\ Stacks' /\ StepsOf("tcpip")' = {x}
      /\ \A d \in Contexts : d # "tcpip" => StepsOf(d)' = StepsOf(d)
  BY <1>0, <1>3, <1>4, StackBecomes
<1>6. PostsKept
  BY <1>4, <1>5 DEF PostsKept
<1>7. LockLLOwned' /\ Emptied' /\ NoLostWakeupLL'
  BY <1>0, <1>1, <1>2, <1>5, BySteps DEF Emptied, NoLostWakeupLL
<1>8. Woken'
  <2>1. ASSUME NEW c \in Contexts, PastMore(c)' PROVE Due("SEND_NEXT_LL")'
    <3>1. c # "tcpip"
      BY <2>1, <1>5 DEF PastMore, Unlock, Hand
    <3>2. PastMore(c)
      BY <2>1, <3>1, <1>5 DEF PastMore
    <3>3. Post("SEND_NEXT_LL") \in StepsOf(c)
      BY <3>2, BlockedWakes DEF SendNext
    <3> QED
      BY <3>3, <1>0, <1>6, BySteps DEF PostsKept
  <2> QED
    BY <2>1 DEF Woken
<1>9. OneFrame'
  <2> SUFFICES ASSUME ~late' PROVE OneFrame'
    BY DEF OneFrame
  <2>1. /\ air = <<>> /\ \A c \in Contexts : ~Finishing(c)
    BY <1>1 DEF LowLevel, OneFrame
  <2>2. \A c \in Contexts : ~Finishing(c)'
    BY <2>1, <1>5 DEF Finishing, Hand, Unlock, LLDone
  <2>3. \A s \in Slots : Hand(s) \in StepsOf("tcpip")' => s = h
    BY <1>5 DEF Hand
  <2>4. GiveUp \notin StepsOf("tcpip")'
    BY <1>5 DEF GiveUp, Hand
  <2>5. Head(llQ') = h
    BY <1>1 DEF h
  <2> QED
    BY <2>1, <2>2, <2>3, <2>4, <2>5, <1>1 DEF OneFrame
<1>10. Due("SEND_NEXT") => Due("SEND_NEXT")'
  BY <1>0, <1>1, <1>6, DueKept
<1> QED
  BY <1>1, <1>5, <1>7, <1>8, <1>9, <1>10 DEF LowLevel, NoLostWakeup

(* A context without a post to make, past no last look, changes no event.   *)
LEMMA WakeAside ==
  ASSUME TypeOK, NoLostWakeupLL, Woken, NoLostWakeup, NEW c \in Contexts,
         \A d \in Contexts : d # c => StepsOf(d)' = StepsOf(d),
         \A e \in Events : Post(e) \notin StepsOf(c),
         \/ Unlock \notin StepsOf(c)' \/ More \in StepsOf(c)',
         UNCHANGED <<lockLL, events, applQ, lock, backoff, lost>>, llQ # <<>> \/ llQ' = llQ
  PROVE  NoLostWakeupLL' /\ Woken' /\ NoLostWakeup'
<1>1. PostsKept
  BY DEF PostsKept
<1>2. "SEND_NEXT" \in Events /\ "SEND_NEXT_LL" \in Events
  BY DEF Events
<1>3. /\ Due("SEND_NEXT") => Due("SEND_NEXT")'
      /\ Due("SEND_NEXT_LL") => Due("SEND_NEXT_LL")'
  BY <1>1, <1>2, DueKept
<1>4. \A d \in Contexts : PastMore(d)' => PastMore(d)
  BY DEF PastMore
<1> QED
  BY <1>3, <1>4 DEF NoLostWakeupLL, Woken, NoLostWakeup

(* The steps of ZW_SendData.                                               *)
LEMMA LocksHandOver ==
  ASSUME TypeOK, Stacks, LowLevel, NoLostWakeup, HandOver \/ NoResponse
  PROVE  Stacks' /\ LowLevel' /\ NoLostWakeup'
<1> USE DEF poolVars, chipVars, timerVars, ghostVars
<1> DEFINE t == "tcpip"
           h == Head(todo[t])
<1>0. t \in Contexts
  BY DEF Contexts
<1>1. PICK x \in {Arm, LLDone(FALSE), GiveUp} :
        /\ todo[t] # <<>> /\ Then(t, <<x>>) /\ h.op \in {"hand", "giveup"}
        /\ UNCHANGED <<emergency, llQ, events, applQ, lock, lockLL, backoff, lost>>
        /\ \/ h.op = "hand" /\ x = Arm /\ air' = Append(air, h.slot) /\ chipCb' = chipCb
           \/ h.op = "hand" /\ x = LLDone(FALSE) /\ air' = air
           \/ late' = TRUE
           \/ h.op = "giveup"
        /\ late' = TRUE \/ late' = late
  <2>1. CASE HandOver
    BY <2>1 DEF HandOver, AtStep, Idle
  <2>2. CASE NoResponse
    BY <2>2 DEF NoResponse, AtStep, Idle
  <2> QED
    BY <2>1, <2>2
<1>2. /\ todo[t] \in Seq(Steps) /\ h \in Steps /\ x \in Steps /\ x \in Owning
      /\ x.op \in {"arm", "lldone", "giveup"}
  <2>1. todo[t] \in Seq(Steps)
    BY <1>0 DEF TypeOK
  <2>2. h \in Steps
    BY <1>1, <2>1, HeadAndTail
  <2>3. \A y \in {Arm, LLDone(FALSE), GiveUp} :
          y \in Steps /\ y \in Owning /\ y.op \in {"arm", "lldone", "giveup"}
    <3>1. {Arm, LLDone(FALSE), GiveUp} \subseteq Steps
      BY StepsTyped
    <3>2. {Arm, LLDone(FALSE), GiveUp} \subseteq Owning
      BY DEF Owning
    <3>3. Arm.op = "arm" /\ LLDone(FALSE).op = "lldone" /\ GiveUp.op = "giveup"
      BY DEF Arm, LLDone, GiveUp
    <3> QED
      BY <3>1, <3>2, <3>3
  <2>4. x \in Steps /\ x \in Owning /\ x.op \in {"arm", "lldone", "giveup"}
    BY <1>1, <2>3
  <2> HIDE DEF h, t
  <2> QED
    BY <2>1, <2>2, <2>4
<1>3. <<x>> \in Seq(Steps) /\ Sound(<<x>>) /\ SlotsOf(<<x>>) = {x}
  BY <1>2, SoundShort, ElementsAre
<1>4. Tail(todo[t]) = <<>>
  BY <1>0, <1>1, <1>2, SoundTail DEF Stacks
<1>5. todo' = [todo EXCEPT ![t] = <<x>>] /\ StepsOf(t) = {h}
  BY <1>0, <1>1, <1>3, <1>4, OneStepStack
<1>6. /\ Stacks' /\ StepsOf(t)' = {x}
      /\ \A d \in Contexts : d # t => StepsOf(d)' = StepsOf(d)
  BY <1>0, <1>3, <1>5, StackBecomes
<1>7. NoLostWakeupLL' /\ Woken' /\ NoLostWakeup'
  <2>1. \A e \in Events : Post(e) \notin StepsOf(t)
    BY <1>1, <1>5 DEF Post
  <2>2. Unlock \notin StepsOf(t)'
    BY <1>2, <1>6 DEF Unlock
  <2> HIDE DEF t
  <2> QED
    BY <1>0, <1>1, <1>6, <2>1, <2>2, WakeAside DEF LowLevel
<1>8. LockLLOwned'
  BY <1>0, <1>2, <1>6, BySteps
<1>9. Emptied'
  <2>1. Unlock \notin StepsOf(t)
    BY <1>1, <1>5 DEF Unlock
  <2> QED
    BY <2>1, <1>1, <1>6 DEF LowLevel, Emptied
<1>10. OneFrame'
  <2> SUFFICES ASSUME ~late' PROVE OneFrame'
    BY DEF OneFrame
  <2>1. ~late /\ h.op = "hand"
    <3>1. ~late
      BY <1>1
    <3>2. h # GiveUp
      BY <3>1, <1>5 DEF LowLevel, OneFrame
    <3>3. h.op # "giveup"
      BY <1>2, <3>2, Kinded
    <3> HIDE DEF h
    <3> QED
      BY <3>1, <3>3, <1>1
  <2>2. PICK s \in Slots : h = Hand(s)
    BY <2>1, <1>2, Kinded
  <2>3. /\ air = <<>> /\ lockLL /\ chipCb /\ llQ # <<>> /\ Head(llQ) = s
        /\ \A c \in Contexts : ~Finishing(c)
    BY <2>1, <2>2, <1>5 DEF LowLevel, OneFrame
  <2>4. CASE x = Arm /\ air' = Append(air, h.slot) /\ chipCb' = chipCb
    <3>1. h.slot = s /\ air' = <<s>> /\ Len(air') = 1 /\ Head(air') = s
      BY <2>2, <2>3, <2>4 DEF Hand
    <3>2. \A c \in Contexts : ~Finishing(c)'
      BY <1>6, <2>3, <2>4 DEF Finishing, Arm, Unlock, LLDone
    <3>3. \A u \in Slots : Hand(u) \notin StepsOf(t)'
      BY <1>6, <2>4 DEF Hand, Arm
    <3>4. GiveUp \notin StepsOf(t)'
      BY <1>6, <2>4 DEF GiveUp, Arm
    <3> QED
      BY <3>1, <3>2, <3>3, <3>4, <2>3, <2>4, <1>1 DEF OneFrame
  <2>5. CASE x = LLDone(FALSE) /\ air' = air
    <3>1. \A c \in Contexts : Finishing(c)' => c = t
      BY <1>6, <2>3 DEF Finishing
    <3>2. \A u \in Slots : Hand(u) \notin StepsOf(t)'
      BY <1>6, <2>5 DEF Hand, LLDone
    <3>3. GiveUp \notin StepsOf(t)'
      BY <1>6, <2>5 DEF GiveUp, LLDone
    <3> QED
      BY <3>1, <3>2, <3>3, <2>3, <2>5, <1>1 DEF OneFrame
  <2> QED
    BY <2>1, <2>4, <2>5, <1>1
<1> QED
  BY <1>6, <1>7, <1>8, <1>9, <1>10 DEF LowLevel

(* The stack of a context whose current step is the last it has to make.   *)
LEMMA LastStep ==
  ASSUME TypeOK, Stacks, NEW c \in Contexts, todo[c] # <<>>,
         Head(todo[c]).op \in {"lldone", "hand", "giveup", "arm", "unlock"},
         NEW next \in Seq(Steps), Then(c, next)
  PROVE  /\ todo' = [todo EXCEPT ![c] = next] /\ StepsOf(c) = {Head(todo[c])}
         /\ Head(todo[c]) \in Steps
<1>1. todo[c] \in Seq(Steps) /\ Sound(todo[c])
  BY DEF TypeOK, Stacks
<1>2. Tail(todo[c]) = <<>>
  BY <1>1, SoundTail
<1>3. Head(todo[c]) \in Steps
  BY <1>1, HeadAndTail
<1> QED
  BY <1>2, <1>3, OneStepStack

LEMMA LocksArm ==
  ASSUME TypeOK, Stacks, LowLevel, NoLostWakeup, ArmEmergency
  PROVE  Stacks' /\ LowLevel' /\ NoLostWakeup'
<1> USE DEF poolVars, chipVars, timerVars, ghostVars
<1> DEFINE t == "tcpip"
<1>0. t \in Contexts /\ <<>> \in Seq(Steps) /\ Sound(<<>>) /\ SlotsOf(<<>>) = {}
  BY ElementsAre, SoundShort DEF Contexts
<1>1. /\ UNCHANGED <<lockLL, chipCb, air, late, llQ, events, applQ, lock, backoff, lost>>
      /\ emergency' /\ todo[t] # <<>> /\ Head(todo[t]).op = "arm" /\ Then(t, <<>>)
  BY DEF ArmEmergency, AtStep, Idle
<1>2. /\ todo' = [todo EXCEPT ![t] = <<>>] /\ StepsOf(t) = {Head(todo[t])}
      /\ Head(todo[t]) \in Steps
  BY <1>0, <1>1, LastStep
<1>3. StepsOf(t) = {Arm}
  BY <1>1, <1>2, Kinded
<1>4. /\ Stacks' /\ StepsOf(t)' = {}
      /\ \A d \in Contexts : d # t => StepsOf(d)' = StepsOf(d)
  BY <1>0, <1>2, StackBecomes
<1>5. NoLostWakeupLL' /\ Woken' /\ NoLostWakeup'
  <2>1. \A e \in Events : Post(e) \notin StepsOf(t)
    BY <1>3 DEF Post, Arm
  <2> HIDE DEF t
  <2> QED
    BY <1>0, <1>1, <1>4, <2>1, WakeAside DEF LowLevel
<1>6. Emptied'
  <2>1. Unlock \notin StepsOf(t)
    BY <1>3 DEF Unlock, Arm
  <2> QED
    BY <2>1, <1>1, <1>4 DEF LowLevel, Emptied
<1>7. LockLLOwned'
  BY <1>1, <1>6, BySteps DEF Emptied, Owning
<1>8. OneFrame'
  <2>1. \A d \in Contexts : StepsOf(d)' \subseteq StepsOf(d)
    BY <1>4
  <2>2. \A d \in Contexts : Finishing(d)' => Finishing(d)
    BY <2>1 DEF Finishing
  <2> HIDE DEF t
  <2> QED
    BY <1>0, <1>1, <2>1, <2>2 DEF LowLevel, OneFrame, t
<1> QED
  BY <1>4, <1>5, <1>6, <1>7, <1>8 DEF LowLevel

LEMMA OneElement ==
  ASSUME NEW S, NEW q \in Seq(S), q # <<>>, Len(q) = 1
  PROVE  Tail(q) = <<>>
<1> DEFINE t == Tail(q)
<1>1. t \in Seq(S) /\ Len(t) = 0
  OBVIOUS
<1> HIDE DEF t
<1>2. t = <<>>
  BY <1>1
<1> QED
  BY <1>2 DEF t

(* The chip has no frame, or its callback is on its way to the frame.      *)
LEMMA LocksChipCallback ==
  ASSUME TypeOK, Stacks, LowLevel, NoLostWakeup, NEW ok \in BOOLEAN, ChipCallback(ok)
  PROVE  Stacks' /\ LowLevel' /\ NoLostWakeup'
<1> USE DEF poolVars, chipVars, timerVars, ghostVars
<1> DEFINE t == "sapi"
           x == LLDone(ok)
<1>0. t \in Contexts /\ t # "app"
  BY DEF Contexts
<1>1. /\ UNCHANGED <<lockLL, emergency, late, llQ, events, applQ, lock, backoff, lost>>
      /\ air # <<>> /\ air' = Tail(air) /\ chipCb' = FALSE /\ todo[t] = <<>>
      /\ IF chipCb THEN Push(t, <<x>>) ELSE UNCHANGED todo
  BY DEF ChipCallback, Idle
<1>2. x \in Steps /\ x \in Owning /\ x.op = "lldone"
  <2>1. x \in {LLDone(TRUE), LLDone(FALSE)}
    OBVIOUS
  <2>2. x \in Owning
    BY <2>1 DEF Owning
  <2>3. x.op = "lldone"
    BY DEF LLDone
  <2> QED
    BY <2>2, <2>3, LockStepsAre DEF LockSteps
<1>3. <<x>> \in Seq(Steps) /\ Sound(<<x>>) /\ SlotsOf(<<x>>) = {x}
  BY <1>2, SoundShort, ElementsAre
<1>4. StepsOf(t) = {}
  BY <1>1, ElementsAre DEF StepsOf
<1>5. /\ Stacks' /\ StepsOf(t)' = IF chipCb THEN {x} ELSE {}
      /\ \A d \in Contexts : d # t => StepsOf(d)' = StepsOf(d)
  <2>1. CASE chipCb
    <3>1. todo' = [todo EXCEPT ![t] = <<x>>]
      BY <1>0, <1>1, <1>3, <2>1, OneStepStack
    <3> QED
      BY <1>0, <1>2, <1>3, <2>1, <3>1, StackBecomes
  <2>2. CASE ~chipCb
    <3>1. UNCHANGED todo
      BY <1>1, <2>2
    <3> QED
      BY <1>4, <2>2, <3>1, SameStacks DEF StepsOf
  <2> QED
    BY <2>1, <2>2
<1>6. NoLostWakeupLL' /\ Woken' /\ NoLostWakeup'
  <2>1. Unlock \notin StepsOf(t)'
    BY <1>2, <1>5 DEF Unlock
  <2> HIDE DEF t
  <2> QED
    BY <1>0, <1>1, <1>4, <1>5, <2>1, WakeAside DEF LowLevel
<1>7. Emptied' /\ LockLLOwned'
  <2>1. \A d \in Contexts : StepsOf(d) \subseteq StepsOf(d)'
    BY <1>4, <1>5
  <2>2. Emptied'
    BY <1>1, <2>1 DEF LowLevel, Emptied
  <2>3. LockLLOwned
    BY DEF LowLevel
  <2> QED
    BY <1>1, <2>1, <2>2, <2>3, BySteps
<1>8. OneFrame'
  <2> SUFFICES ASSUME ~late' PROVE OneFrame'
    BY DEF OneFrame
  <2>1. ~late
    BY <1>1
  <2>2. /\ chipCb /\ lockLL /\ Len(air) = 1 /\ GiveUp \notin StepsOf("tcpip")
        /\ \A d \in Contexts : ~Finishing(d)
        /\ \A s \in Slots : Hand(s) \notin StepsOf("tcpip")
    BY <1>1, <2>1 DEF LowLevel, OneFrame
  <2>3. air' = <<>>
    BY <1>1, <2>2, OneElement DEF TypeOK
  <2>4. \A d \in Contexts : Finishing(d)' => d = t
    BY <1>5, <2>2 DEF Finishing
  <2>5. StepsOf("tcpip")' = StepsOf("tcpip")
    BY <1>5 DEF Contexts
  <2> QED
    BY <1>1, <2>2, <2>3, <2>4, <2>5 DEF OneFrame
<1> QED
  BY <1>5, <1>6, <1>7, <1>8 DEF LowLevel

LEMMA LocksChipLost ==
  ASSUME TypeOK, Stacks, LowLevel, NoLostWakeup, ChipLost
  PROVE  Stacks' /\ LowLevel' /\ NoLostWakeup'
<1> USE DEF poolVars, chipVars, timerVars, ghostVars
<1>0. "SEND_NEXT" \in Events /\ "SEND_NEXT_LL" \in Events
  BY DEF Events
<1>1. /\ UNCHANGED <<lockLL, emergency, late, llQ, events, applQ, lock, backoff, chipCb, todo, lost>>
      /\ air # <<>> /\ air' = Tail(air)
  BY DEF ChipLost
<1>2. Stacks' /\ SameLocking /\ PostsKept
  BY <1>1, SameStacks
<1>3. /\ Due("SEND_NEXT_LL") => Due("SEND_NEXT_LL")'
      /\ Due("SEND_NEXT") => Due("SEND_NEXT")'
  BY <1>0, <1>1, <1>2, DueKept
<1>4. NoLostWakeupLL' /\ Woken' /\ NoLostWakeup'
  BY <1>1, <1>2, <1>3, WakeKept DEF LowLevel, NoLostWakeup
<1>5. \A d \in Contexts : StepsOf(d)' = StepsOf(d)
  BY <1>1 DEF StepsOf
<1>6. Emptied' /\ LockLLOwned'
  BY <1>1, <1>5, BySteps DEF LowLevel, Emptied
<1>7. OneFrame'
  <2> SUFFICES ASSUME ~late' PROVE OneFrame'
    BY DEF OneFrame
  <2>1. /\ Len(air) = 1 /\ GiveUp \notin StepsOf("tcpip")
        /\ \A d \in Contexts : ~Finishing(d)
        /\ \A s \in Slots : Hand(s) \notin StepsOf("tcpip")
    BY <1>1 DEF LowLevel, OneFrame
  <2>2. air' = <<>>
    BY <1>1, <2>1, OneElement DEF TypeOK
  <2>3. \A d \in Contexts : ~Finishing(d)'
    BY <1>5, <2>1 DEF Finishing
  <2>4. StepsOf("tcpip")' = StepsOf("tcpip")
    BY <1>5 DEF Contexts
  <2> QED
    BY <2>1, <2>2, <2>3, <2>4 DEF OneFrame
<1> QED
  BY <1>2, <1>4, <1>6, <1>7 DEF LowLevel

(* The emergency timer takes over the frame it was started for.            *)
LEMMA LocksEmergency ==
  ASSUME TypeOK, Stacks, LowLevel, NoLostWakeup, EmergencyTimeout
  PROVE  Stacks' /\ LowLevel' /\ NoLostWakeup'
<1> USE DEF poolVars, chipVars, timerVars, ghostVars
<1> DEFINE t == "timer"
           x == LLDone(FALSE)
<1>0. t \in Contexts /\ t # "app"
  BY DEF Contexts
<1>1. /\ UNCHANGED <<lockLL, llQ, events, applQ, lock, backoff, lost>> /\ late'
      /\ todo[t] = <<>> /\ Push(t, <<x>>)
  BY DEF EmergencyTimeout, Idle
<1>2. x \in Steps /\ x \in Owning /\ x.op = "lldone"
  <2>1. x \in Owning
    BY DEF Owning
  <2>2. x.op = "lldone"
    BY DEF LLDone
  <2> QED
    BY <2>1, <2>2, LockStepsAre DEF LockSteps
<1> HIDE DEF x
<1>3. <<x>> \in Seq(Steps) /\ Sound(<<x>>) /\ SlotsOf(<<x>>) = {x}
  BY <1>2, SoundShort, ElementsAre
<1>4. todo' = [todo EXCEPT ![t] = <<x>>] /\ StepsOf(t) = {}
  BY <1>0, <1>1, <1>3, OneStepStack
<1>5. /\ Stacks' /\ StepsOf(t)' = {x}
      /\ \A d \in Contexts : d # t => StepsOf(d)' = StepsOf(d)
  BY <1>0, <1>2, <1>3, <1>4, StackBecomes
<1>6. NoLostWakeupLL' /\ Woken' /\ NoLostWakeup'
  <2>1. Unlock \notin StepsOf(t)'
    BY <1>2, <1>5 DEF Unlock
  <2> HIDE DEF t
  <2> QED
    BY <1>0, <1>1, <1>4, <1>5, <2>1, WakeAside DEF LowLevel
<1>7. Emptied'
  <2>1. \A d \in Contexts : StepsOf(d) \subseteq StepsOf(d)'
    BY <1>4, <1>5
  <2> QED
    BY <1>1, <2>1 DEF LowLevel, Emptied
<1>8. LockLLOwned'
  BY <1>0, <1>2, <1>5, BySteps
<1>9. OneFrame'
  BY <1>1 DEF OneFrame
<1> QED
  BY <1>5, <1>6, <1>7, <1>8, <1>9 DEF LowLevel

LEMMA LocksBackoff ==
  ASSUME TypeOK, Stacks, LowLevel, NoLostWakeup, BackoffTimeout \/ RxNotify
  PROVE  Stacks' /\ LowLevel' /\ NoLostWakeup'
<1> USE DEF poolVars, chipVars, timerVars, ghostVars
<1> DEFINE x == Post("SEND_NEXT")
<1>0. "SEND_NEXT" \in Events
  BY DEF Events
<1>1. PICK c \in Contexts :
        /\ UNCHANGED <<lockLL, chipCb, air, emergency, late, llQ, events, applQ, lock, lost>>
        /\ Idle(c) /\ Push(c, <<x>>)
  <2>1. "timer" \in Contexts /\ "sapi" \in Contexts
    BY DEF Contexts
  <2>2. CASE BackoffTimeout
    BY <2>1, <2>2 DEF BackoffTimeout
  <2>3. CASE RxNotify
    BY <2>1, <2>3 DEF RxNotify
  <2> QED
    BY <2>2, <2>3
<1>2. Open(todo[c]) /\ x \in Steps /\ x.op \in Plain
  <2>1. Open(todo[c])
    BY <1>1, FreeIsOpen
  <2>2. x \in Steps /\ x.op \in Plain
    BY <1>0, PlainSteps DEF Plain
  <2> QED
    BY <2>1, <2>2
<1>3. Stacks' /\ SameLocking /\ PostsKept /\ x \in StepsOf(c)'
  BY <1>1, <1>2, StacksPush
<1>4. LowLevel'
  BY <1>1, <1>3, LowLevelKept
<1>5. Due("SEND_NEXT")'
  BY <1>0, <1>3, BySteps
<1> QED
  BY <1>3, <1>4, <1>5 DEF NoLostWakeup

-----------------------------------------------------------------------------
(* The completion of a frame, in any context.                              *)

(* Whoever has to do with lock_ll is not the thread of a sender.           *)
LEMMA NotASender ==
  ASSUME TypeOK, Stacks, NEW c \in Contexts, todo[c] # <<>>, Head(todo[c]) \in LockSteps
  PROVE  c # "app" /\ Head(todo[c]) \in StepsOf(c)
<1>1. Head(todo[c]) \in StepsOf(c)
  BY HeadAndTail DEF TypeOK, StepsOf
<1> QED
  BY <1>1 DEF Stacks, Placed, Locking

LEMMA LocksLowLevelDone ==
  ASSUME TypeOK, Stacks, LowLevel, NoLostWakeup, NEW c \in Contexts, LowLevelDone(c)
  PROVE  Stacks' /\ LowLevel' /\ NoLostWakeup'
<1> USE DEF poolVars, chipVars, timerVars, ghostVars
<1> DEFINE h == Head(todo[c])
           x == Call(Head(llQ), h.ok)
           takes == lockLL /\ llQ # <<>>
           next == IF takes THEN <<x, More, Unlock>> ELSE <<>>
<1>1. /\ UNCHANGED <<lockLL, late, air, chipCb, events, applQ, lock, backoff, lost>>
      /\ todo[c] # <<>> /\ h.op = "lldone" /\ Then(c, next)
      /\ llQ' = IF takes THEN Tail(llQ) ELSE llQ
      /\ emergency' = (emergency /\ ~lockLL)
  BY DEF LowLevelDone, AtStep, Idle
<1>2. h \in Steps /\ h \in {LLDone(TRUE), LLDone(FALSE)} /\ h \in LockSteps /\ h.ok \in BOOLEAN
  <2>1. h \in Steps
    BY <1>1, HeadAndTail DEF TypeOK
  <2>2. h \in {LLDone(TRUE), LLDone(FALSE)}
    BY <1>1, <2>1, Kinded
  <2>3. LLDone(TRUE).ok \in BOOLEAN /\ LLDone(FALSE).ok \in BOOLEAN
    BY DEF LLDone
  <2> HIDE DEF h
  <2> QED
    BY <2>1, <2>2, <2>3 DEF LockSteps, Owning
<1>3. c # "app"
  BY <1>1, <1>2, NotASender
<1>4. next \in Seq(Steps) /\ Sound(next) /\ SlotsOf(next) = IF takes THEN {x, More, Unlock} ELSE {}
  <2>1. CASE takes
    <3>1. Head(llQ) \in Slots
      BY <2>1, QueueTyped DEF TypeOK
    <3>2. x \in Steps /\ x.op = "call" /\ More \in Steps /\ Unlock \in Steps
      BY <1>2, <3>1, StepsTyped DEF Call
    <3> HIDE DEF x
    <3> QED
      BY <2>1, <3>2, SoundShort, ElementsAre
  <2>2. CASE ~takes
    <3> HIDE DEF x, takes
    <3>1. next = <<>>
      BY <2>2
    <3> QED
      BY <2>2, <3>1, SoundShort, ElementsAre
  <2> QED
    BY <2>1, <2>2
<1>5. todo' = [todo EXCEPT ![c] = next] /\ StepsOf(c) = {h}
  BY <1>1, <1>4, LastStep
<1>6. \A y \in SlotsOf(next) : y.op \notin {"hand", "giveup", "arm"}
  BY <1>4 DEF Call, More, Unlock
<1> HIDE DEF h
<1>7. /\ Stacks' /\ StepsOf(c)' = IF takes THEN {x, More, Unlock} ELSE {}
      /\ \A d \in Contexts : d # c => StepsOf(d)' = StepsOf(d)
  <2> HIDE DEF next
  <2> QED
    BY <1>3, <1>4, <1>5, <1>6, StackBecomes
<1> HIDE DEF x, next
<1>8. NoLostWakeupLL' /\ Woken' /\ NoLostWakeup'
  <2>1. \A e \in Events : Post(e) \notin StepsOf(c)
    <3>1. h.op = "lldone"
      BY <1>2 DEF LLDone
    <3> QED
      BY <3>1, <1>5 DEF Post
  <2>2. Unlock \notin StepsOf(c)' \/ More \in StepsOf(c)'
    BY <1>7
  <2>3. llQ # <<>> \/ llQ' = llQ
    BY <1>1
  <2> QED
    BY <1>1, <1>7, <2>1, <2>2, <2>3, WakeAside DEF LowLevel
<1>9. lockLL' => \E d \in Contexts : Unlock \in StepsOf(d)'
  <2>1. CASE takes
    BY <1>7, <2>1
  <2>2. CASE lockLL /\ llQ = <<>>
    <3>1. PICK d \in Contexts : Unlock \in StepsOf(d)
      BY <2>2 DEF LowLevel, Emptied
    <3>2. d # c
      BY <3>1, <1>2, <1>5 DEF Unlock, LLDone
    <3> QED
      BY <3>1, <3>2, <1>7
  <2> QED
    BY <1>1, <2>1, <2>2
<1>10. Emptied' /\ LockLLOwned'
  BY <1>9, BySteps DEF Emptied, Owning
<1>11. OneFrame'
  <2> SUFFICES ASSUME ~late' PROVE OneFrame'
    BY DEF OneFrame
  <2>1. Finishing(c)
    BY <1>2, <1>5 DEF Finishing
  <2>2. /\ air = <<>> /\ lockLL /\ GiveUp \notin StepsOf("tcpip")
        /\ \A d \in Contexts : Finishing(d) => d = c
        /\ \A s \in Slots : Hand(s) \notin StepsOf("tcpip")
    BY <1>1, <2>1 DEF LowLevel, OneFrame
  <2>3. \A d \in Contexts : Finishing(d)' => d = c
    BY <1>7, <2>2 DEF Finishing
  <2>4. /\ GiveUp \notin StepsOf("tcpip")'
        /\ \A s \in Slots : Hand(s) \notin StepsOf("tcpip")'
    BY <1>7, <2>2 DEF Contexts, x, Call, More, Unlock, Hand, GiveUp
  <2> QED
    BY <1>1, <2>2, <2>3, <2>4 DEF OneFrame
<1> QED
  BY <1>7, <1>8, <1>10, <1>11 DEF LowLevel

LEMMA LocksSendMore ==
  ASSUME TypeOK, Stacks, LowLevel, NoLostWakeup, NEW c \in Contexts, SendMore(c)
  PROVE  Stacks' /\ LowLevel' /\ NoLostWakeup'
<1> USE DEF poolVars, chipVars, timerVars, ghostVars
<1> DEFINE p == Post("SEND_NEXT_LL")
           next == IF llQ # <<>> THEN <<p>> ELSE <<>>
           fin == IF llQ # <<>> THEN <<p, Unlock>> ELSE <<Unlock>>
<1>0. "SEND_NEXT" \in Events /\ "SEND_NEXT_LL" \in Events
  BY DEF Events
<1>1. /\ UNCHANGED <<lockLL, late, air, chipCb, events, applQ, lock, backoff, llQ, emergency, lost>>
      /\ todo[c] # <<>> /\ Head(todo[c]).op = "more" /\ Then(c, next)
  BY DEF SendMore, AtStep, Idle
<1>2. Head(todo[c]) = More /\ More \in LockSteps /\ todo[c] \in Seq(Steps) /\ Sound(todo[c])
  <2>1. todo[c] \in Seq(Steps) /\ Sound(todo[c])
    BY DEF TypeOK, Stacks
  <2>2. Head(todo[c]) \in Steps
    BY <1>1, <2>1, HeadAndTail
  <2> QED
    BY <1>1, <2>1, <2>2, Kinded DEF LockSteps
<1>3. c # "app"
  BY <1>1, <1>2, NotASender
<1>4. Tail(todo[c]) = <<Unlock>>
  BY <1>1, <1>2, SoundTail
<1>5. p \in Steps /\ Unlock \in Steps /\ Unlock.op = "unlock" /\ p.op = "post"
  BY <1>0, StepsTyped DEF Post, Unlock
<1> HIDE DEF p
<1>6. todo' = [todo EXCEPT ![c] = fin] /\ StepsOf(c) = {More, Unlock}
  <2>1. todo' = [todo EXCEPT ![c] = next \o <<Unlock>>]
    BY <1>1, <1>4 DEF Then
  <2>2. next \o <<Unlock>> = fin
    <3>1. <<p>> \o <<Unlock>> = <<p, Unlock>>
      BY <1>5, PairOf
    <3>2. <<>> \o <<Unlock>> = <<Unlock>>
      BY <1>5
    <3>3. llQ # <<>> => next \o <<Unlock>> = fin
      BY <3>1
    <3>4. llQ = <<>> => next \o <<Unlock>> = fin
      BY <3>2
    <3> QED
      BY <3>3, <3>4
  <2>3. StepsOf(c) = {More, Unlock}
    <3>1. SlotsOf(todo[c]) = {More} \cup SlotsOf(<<Unlock>>)
      BY <1>1, <1>2, <1>4, HeadAndTail
    <3>2. SlotsOf(<<Unlock>>) = {Unlock}
      BY ElementsAre
    <3> QED
      BY <3>1, <3>2 DEF StepsOf
  <2> HIDE DEF next, fin
  <2> QED
    BY <2>1, <2>2, <2>3
<1>7. /\ fin \in Seq(Steps) /\ Sound(fin)
      /\ SlotsOf(fin) = IF llQ # <<>> THEN {p, Unlock} ELSE {Unlock}
  <2>1. CASE llQ # <<>>
    <3>1. fin = <<p, Unlock>>
      BY <2>1
    <3>2. Sound(<<p, Unlock>>) /\ SlotsOf(<<p, Unlock>>) = {p, Unlock}
      BY SoundShort, ElementsAre DEF p
    <3> HIDE DEF fin
    <3> QED
      BY <2>1, <3>1, <3>2, <1>5
  <2>2. CASE llQ = <<>>
    <3>1. fin = <<Unlock>>
      BY <2>2
    <3>2. Sound(<<Unlock>>) /\ SlotsOf(<<Unlock>>) = {Unlock}
      BY <1>5, SoundShort, ElementsAre
    <3> HIDE DEF fin
    <3> QED
      BY <2>2, <3>1, <3>2, <1>5
  <2> QED
    BY <2>1, <2>2
<1>8. \A y \in SlotsOf(fin) : y.op \notin {"hand", "giveup", "arm"}
  BY <1>5, <1>7
<1> HIDE DEF fin
<1>9. /\ Stacks' /\ StepsOf(c)' = IF llQ # <<>> THEN {p, Unlock} ELSE {Unlock}
      /\ \A d \in Contexts : d # c => StepsOf(d)' = StepsOf(d)
  BY <1>3, <1>6, <1>7, <1>8, StackBecomes
<1>10. PostsKept
  BY <1>6, <1>9 DEF PostsKept, Post, More, Unlock
<1>11. Due("SEND_NEXT") => Due("SEND_NEXT")'
  BY <1>0, <1>1, <1>10, DueKept
<1>12. llQ # <<>> => Due("SEND_NEXT_LL")'
  BY <1>0, <1>9, BySteps DEF p
<1>13. Emptied' /\ LockLLOwned' /\ NoLostWakeupLL' /\ Woken' /\ NoLostWakeup'
  <2>1. Unlock \in StepsOf(c)'
    BY <1>9
  <2>2. Emptied' /\ LockLLOwned'
    BY <2>1, BySteps DEF Emptied, Owning
  <2> QED
    BY <1>1, <1>11, <1>12, <2>2 DEF NoLostWakeupLL, Woken, NoLostWakeup
<1>14. OneFrame'
  <2> SUFFICES ASSUME ~late' PROVE OneFrame'
    BY DEF OneFrame
  <2>1. Finishing(c)
    BY <1>6 DEF Finishing
  <2>2. /\ air = <<>> /\ lockLL /\ GiveUp \notin StepsOf("tcpip")
        /\ \A d \in Contexts : Finishing(d) => d = c
        /\ \A s \in Slots : Hand(s) \notin StepsOf("tcpip")
    BY <1>1, <2>1 DEF LowLevel, OneFrame
  <2>3. \A d \in Contexts : Finishing(d)' => d = c
    BY <1>9, <2>2 DEF Finishing
  <2>4. /\ GiveUp \notin StepsOf("tcpip")'
        /\ \A s \in Slots : Hand(s) \notin StepsOf("tcpip")'
    <3>1. GiveUp \notin {p, Unlock} /\ \A s \in Slots : Hand(s) \notin {p, Unlock}
      BY DEF p, Post, Unlock, Hand, GiveUp
    <3> QED
      BY <1>9, <2>2, <3>1 DEF Contexts
  <2> QED
    BY <1>1, <2>2, <2>3, <2>4 DEF OneFrame
<1> QED
  BY <1>9, <1>13, <1>14 DEF LowLevel

LEMMA LocksUnlock ==
  ASSUME TypeOK, Stacks, LowLevel, NoLostWakeup, NEW c \in Contexts, UnlockLL(c)
  PROVE  Stacks' /\ LowLevel' /\ NoLostWakeup'
<1> USE DEF poolVars, chipVars, timerVars, ghostVars
<1>0. /\ <<>> \in Seq(Steps) /\ Sound(<<>>) /\ SlotsOf(<<>>) = {}
      /\ "SEND_NEXT" \in Events /\ "SEND_NEXT_LL" \in Events
  BY ElementsAre, SoundShort DEF Events
<1>1. /\ UNCHANGED <<late, air, chipCb, events, applQ, lock, backoff, llQ, emergency, lost>>
      /\ lockLL' = FALSE
      /\ todo[c] # <<>> /\ Head(todo[c]).op = "unlock" /\ Then(c, <<>>)
  BY DEF UnlockLL, AtStep, Idle
<1>2. /\ todo' = [todo EXCEPT ![c] = <<>>] /\ StepsOf(c) = {Unlock}
      /\ Head(todo[c]) = Unlock /\ Unlock \in LockSteps
  <2>1. /\ todo' = [todo EXCEPT ![c] = <<>>] /\ StepsOf(c) = {Head(todo[c])}
        /\ Head(todo[c]) \in Steps
    BY <1>0, <1>1, LastStep
  <2> QED
    BY <1>1, <2>1, Kinded DEF LockSteps, Owning
<1>3. /\ Stacks' /\ StepsOf(c)' = {}
      /\ \A d \in Contexts : d # c => StepsOf(d)' = StepsOf(d)
  BY <1>0, <1>2, StackBecomes
<1>4. PostsKept
  BY <1>2, <1>3 DEF PostsKept, Post, Unlock
<1>5. /\ Due("SEND_NEXT") => Due("SEND_NEXT")'
      /\ Due("SEND_NEXT_LL") => Due("SEND_NEXT_LL")'
  BY <1>0, <1>1, <1>4, DueKept
<1>6. PastMore(c)
  BY <1>2 DEF PastMore, More, Unlock
<1>7. llQ # <<>> => Due("SEND_NEXT_LL")'
  BY <1>5, <1>6 DEF LowLevel, Woken
<1>8. Emptied' /\ LockLLOwned' /\ NoLostWakeupLL' /\ Woken' /\ NoLostWakeup'
  BY <1>1, <1>5, <1>7 DEF Emptied, LockLLOwned, NoLostWakeupLL, Woken, NoLostWakeup
<1>9. OneFrame'
  <2> SUFFICES ASSUME ~late' PROVE OneFrame'
    BY DEF OneFrame
  <2>1. Finishing(c)
    BY <1>2 DEF Finishing
  <2>2. /\ air = <<>> /\ GiveUp \notin StepsOf("tcpip")
        /\ \A d \in Contexts : Finishing(d) => d = c
        /\ \A s \in Slots : Hand(s) \notin StepsOf("tcpip")
    BY <1>1, <2>1 DEF LowLevel, OneFrame
  <2>3. \A d \in Contexts : ~Finishing(d)'
    BY <1>3, <2>2 DEF Finishing
  <2>4. /\ GiveUp \notin StepsOf("tcpip")'
        /\ \A s \in Slots : Hand(s) \notin StepsOf("tcpip")'
    BY <1>3, <2>2 DEF Contexts
  <2> QED
    BY <1>1, <2>2, <2>3, <2>4 DEF OneFrame
<1> QED
  BY <1>3, <1>8, <1>9 DEF LowLevel

(* A step of the application's completion: the stacks keep what has to do   *)
(* with lock_ll, and no post is dropped.                                    *)
LEMMA LocksAside ==
  ASSUME TypeOK, Stacks, LowLevel, NoLostWakeup, NEW c \in Contexts, todo[c] # <<>>,
         Head(todo[c]).op \in {"user", "call", "complete", "release"},
         NEW x \in Steps, x.op \in {"user", "call", "complete", "release"},
         UNCHANGED <<lockLL, chipCb, air, emergency, late, llQ, events, applQ, lost>>,
         \/ /\ Then(c, <<>>) \/ Then(c, <<x>>)
            /\ lock => lock' \/ backoff'
            /\ backoff => backoff'
         \/ Then(c, <<Post("SEND_NEXT"), x>>)
  PROVE  Stacks' /\ LowLevel' /\ NoLostWakeup'
<1>0. "SEND_NEXT" \in Events
  BY DEF Events
<1>1. Stacks' /\ SameLocking /\ PostsKept
  <2>1. CASE Then(c, <<>>)
    <3>1. Head(todo[c]).op \in Plain /\ \A e \in Events : Post(e) # Head(todo[c])
      BY DEF Plain, Post
    <3> QED
      BY <2>1, <3>1, StacksPop DEF PostsKept
  <2>2. CASE Then(c, <<x>>) \/ Then(c, <<Post("SEND_NEXT"), x>>)
    BY <1>0, <2>2, StacksReplace DEF Open
  <2> QED
    BY <2>1, <2>2
<1>2. LowLevel'
  BY <1>1, LowLevelKept
<1>3. Due("SEND_NEXT") => Due("SEND_NEXT")'
  BY <1>0, <1>1, DueKept
<1>4. ASSUME Then(c, <<Post("SEND_NEXT"), x>>) PROVE Due("SEND_NEXT")'
  <2>1. Post("SEND_NEXT") \in StepsOf(c)'
    BY <1>0, <1>4, StacksReplace DEF Open
  <2> QED
    BY <1>0, <2>1, BySteps
<1> QED
  BY <1>1, <1>2, <1>3, <1>4 DEF NoLostWakeup

LEMMA LocksPost ==
  ASSUME TypeOK, Stacks, LowLevel, NoLostWakeup, NEW c \in Contexts, PostEvent(c)
  PROVE  Stacks' /\ LowLevel' /\ NoLostWakeup'
<1> USE DEF poolVars, chipVars, timerVars, ghostVars
<1> DEFINE h == Head(todo[c])
<1>0. "SEND_NEXT" \in Events /\ "SEND_NEXT_LL" \in Events
  BY DEF Events
<1>1. /\ UNCHANGED <<lockLL, chipCb, air, emergency, late, llQ, applQ, lock, backoff>>
      /\ todo[c] # <<>> /\ h.op = "post" /\ Then(c, <<>>)
      /\ \/ lost' = lost \cup {h.ev} /\ events' = events
         \/ lost' = lost \ {h.ev} /\ events' = Append(events, h.ev)
  BY DEF PostEvent, AtStep, Idle
<1>2. PICK e \in Events : h = Post(e)
  <2>1. h \in Steps
    BY <1>1, HeadAndTail DEF TypeOK
  <2> QED
    BY <1>1, <2>1, Kinded
<1>3. /\ Stacks' /\ SameLocking
      /\ \A d \in Contexts, f \in Events :
           Post(f) \in StepsOf(d) /\ Post(f) # h => Post(f) \in StepsOf(d)'
  <2>1. h.op \in Plain
    BY <1>1 DEF Plain
  <2> QED
    BY <1>1, <2>1, StacksPop
<1>4. \/ lost' = lost \cup {e} /\ SlotsOf(events') = SlotsOf(events)
      \/ lost' = lost \ {e} /\ SlotsOf(events') = SlotsOf(events) \cup {e}
  <2>1. h.ev = e /\ events \in Seq(Events)
    BY <1>2 DEF Post, TypeOK
  <2> DEFINE one == <<e>>
  <2>2. one \in Seq(Events) /\ SlotsOf(one) = {e}
    BY ElementsAre
  <2>3. Append(events, e) = events \o one
    BY <2>1
  <2> HIDE DEF one, h
  <2>4. SlotsOf(events \o one) = SlotsOf(events) \cup SlotsOf(one)
    BY <2>1, <2>2, ElementsOf
  <2>5. SlotsOf(Append(events, e)) = SlotsOf(events) \cup {e}
    BY <2>2, <2>3, <2>4
  <2> QED
    BY <1>1, <2>1, <2>5
<1>5. ASSUME NEW f \in Events, Due(f) PROVE Due(f)'
  <2>1. CASE f = e
    BY <1>4, <2>1, BySteps
  <2>2. CASE f # e
    <3>1. Post(f) # h
      BY <1>2, <2>2 DEF Post
    <3> HIDE DEF h
    <3> QED
      BY <1>3, <1>4, <1>5, <2>2, <3>1, BySteps
  <2> QED
    BY <2>1, <2>2
<1> HIDE DEF h
<1>6. LockLLOwned' /\ Emptied' /\ OneFrame'
  BY <1>1, <1>3, LockKept DEF LowLevel
<1>7. NoLostWakeupLL' /\ Woken'
  BY <1>0, <1>1, <1>3, <1>5, WakeKept DEF LowLevel
<1> QED
  BY <1>0, <1>1, <1>3, <1>5, <1>6, <1>7 DEF LowLevel, NoLostWakeup

LEMMA LocksContinue ==
  ASSUME TypeOK, Stacks, LowLevel, NoLostWakeup, NEW c \in Contexts, Continue(c)
  PROVE  Stacks' /\ LowLevel' /\ NoLostWakeup'
<1> USE DEF poolVars, chipVars, timerVars, ghostVars
<1> DEFINE h == Head(todo[c])
<1>0. todo[c] # <<>> => h \in Steps
  BY HeadAndTail DEF TypeOK
<1>1. CASE CallBack(c)
  <2> DEFINE cb == done[h.slot]
  <2>1. /\ todo[c] # <<>> /\ h.op = "call"
        /\ UNCHANGED <<lockLL, chipCb, air, emergency, late, llQ, events, applQ, lock, backoff, lost>>
    BY <1>1 DEF CallBack, AtStep, Idle
  <2>2. h.slot \in Slots /\ h.ok \in BOOLEAN
    BY <2>1, HeadTyped DEF TypeOK, Idle
  <2>3. cb \in Callbacks
    BY <2>2 DEF TypeOK
  <2>4. \/ Then(c, <<>>) \/ Then(c, <<InUser>>)
        \/ cb.slot \in Slots /\ Then(c, <<Complete(cb.slot, h.ok)>>)
    <3>2. PICK next : /\ Then(c, next)
                      /\ next = CASE cb.to = "none" -> <<>>
                                  [] cb.to = "appl" -> <<Complete(cb.slot, h.ok)>>
                                  [] cb.to = "user" -> <<InUser>>
      BY <1>1 DEF CallBack
    <3> HIDE DEF cb, h
    <3>1. cb.to \in {"none", "user"} \/ (cb.to = "appl" /\ cb.slot \in Slots)
      <4>1. CASE cb = NoCb
        BY <4>1 DEF NoCb
      <4>2. CASE \E u \in Slots : cb = ApplCb(u)
        BY <4>2 DEF ApplCb
      <4>3. CASE \E r \in Requests : cb = UserCb(r)
        BY <4>3 DEF UserCb
      <4> QED
        BY <2>3, <4>1, <4>2, <4>3 DEF Callbacks
    <3>3. CASE cb.to = "none"
      BY <3>2, <3>3
    <3>4. CASE cb.to = "user"
      BY <3>2, <3>4
    <3>5. CASE cb.to = "appl" /\ cb.slot \in Slots
      BY <3>2, <3>5
    <3> QED
      BY <3>1, <3>3, <3>4, <3>5
  <2>5. InUser \in Steps /\ InUser.op = "user"
    BY StepsTyped DEF InUser
  <2>6. cb.slot \in Slots => /\ Complete(cb.slot, h.ok) \in Steps
                             /\ Complete(cb.slot, h.ok).op = "complete"
    BY <2>2, StepsTyped DEF Complete
  <2> HIDE DEF h, cb
  <2>7. PICK x \in Steps : /\ x.op \in {"user", "call", "complete", "release"}
                           /\ Then(c, <<>>) \/ Then(c, <<x>>)
    BY <2>4, <2>5, <2>6
  <2> QED
    BY <2>1, <2>7, LocksAside DEF h
<1>2. CASE ApplDone(c)
  <2> DEFINE x == Release(h.slot, h.ok)
  <2>1. /\ todo[c] # <<>> /\ h.op = "complete"
        /\ UNCHANGED <<lockLL, chipCb, air, emergency, late, llQ, events, applQ, lost>>
        /\ \/ Then(c, <<>>) /\ lock' = lock /\ backoff' = backoff
           \/ backoff' = TRUE /\ Then(c, <<x>>)
           \/ Then(c, <<Post("SEND_NEXT"), x>>)
    BY <1>2 DEF ApplDone, AtStep, Idle
  <2>2. h.slot \in Slots /\ h.ok \in BOOLEAN
    BY <2>1, HeadTyped DEF TypeOK, Idle
  <2>3. x \in Steps /\ x.op = "release"
    BY <2>2, StepsTyped DEF Release
  <2> HIDE DEF h, x
  <2> QED
    BY <2>1, <2>3, LocksAside DEF h
<1>3. CASE ReleaseAppl(c)
  <2> DEFINE x == Call(h.slot, h.ok)
  <2>1. /\ todo[c] # <<>> /\ h.op = "release" /\ Then(c, <<x>>)
        /\ UNCHANGED <<lockLL, chipCb, air, emergency, late, llQ, events, applQ, lock, backoff, lost>>
    BY <1>3 DEF ReleaseAppl, AtStep, Idle
  <2>2. h.slot \in Slots /\ h.ok \in BOOLEAN
    BY <2>1, HeadTyped DEF TypeOK, Idle
  <2>3. x \in Steps /\ x.op = "call"
    BY <2>2, StepsTyped DEF Call
  <2> HIDE DEF h, x
  <2> QED
    BY <2>1, <2>3, LocksAside DEF h
<1>4. CASE ReturnUser(c)
  <2>1. /\ todo[c] # <<>> /\ h.op = "user" /\ Then(c, <<>>)
        /\ UNCHANGED <<lockLL, chipCb, air, emergency, late, llQ, events, applQ, lock, backoff, lost>>
    BY <1>4 DEF ReturnUser, AtStep, Idle
  <2> HIDE DEF h
  <2> QED
    BY <1>0, <2>1, LocksAside DEF h
<1> QED
  BY <1>1, <1>2, <1>3, <1>4, LocksPost, LocksLowLevelDone, LocksSendMore, LocksUnlock
     DEF Continue

-----------------------------------------------------------------------------
(* The invariant and what it says.                                         *)
LEMMA LocksInit == ASSUME Init PROVE Stacks /\ LowLevel /\ NoLostWakeup
<1>1. \A c \in Contexts : todo[c] = <<>>
  BY DEF Init
<1>2. \A c \in Contexts : StepsOf(c) = {} /\ Sound(todo[c])
  BY <1>1, ElementsAre, SoundShort DEF StepsOf
<1>3. "app" \in Contexts /\ "tcpip" \in Contexts
  BY DEF Contexts
<1>4. Stacks
  BY <1>2, <1>3 DEF Stacks, Placed, Locking
<1>5. OneFrame
  BY <1>2, <1>3 DEF Init, OneFrame, Finishing
<1> QED
  BY <1>4, <1>5 DEF Init, LowLevel, LockLLOwned, Emptied, NoLostWakeupLL, Woken, NoLostWakeup

LEMMA LocksUnchanged ==
  ASSUME Stacks, LowLevel, NoLostWakeup, UNCHANGED vars
  PROVE  Stacks' /\ LowLevel' /\ NoLostWakeup'
<1> USE DEF vars, poolVars, chipVars, timerVars, ghostVars
<1>1. Stacks'
  BY SameStacks
<1>2. LockLLOwned' /\ Emptied' /\ NoLostWakeupLL' /\ Woken' /\ NoLostWakeup'
  BY DEF LowLevel, LockLLOwned, Emptied, NoLostWakeupLL, Woken, NoLostWakeup, PastMore,
         StepsOf, Due, Coming, Holds
<1>3. OneFrame'
  BY DEF LowLevel, OneFrame, Finishing, StepsOf
<1> QED
  BY <1>1, <1>2, <1>3 DEF LowLevel

LEMMA LocksStep ==
  ASSUME TypeOK, Stacks, LowLevel, NoLostWakeup, [Next]_vars
  PROVE  Stacks' /\ LowLevel' /\ NoLostWakeup'
<1>1. CASE Tcpip
  BY <1>1, LocksStart, LocksNextNothing, LocksSendNext, LocksHandOver, LocksArm DEF Tcpip
<1>2. CASE Environment
  BY <1>2, LocksChipCallback, LocksChipLost, LocksEmergency, LocksBackoff DEF Environment
<1> QED
  BY <1>1, <1>2, LocksSend, LocksContinue, LocksUnchanged DEF Next

(* The locks, the lists and the steps the contexts have still to make fit   *)
(* together in every reachable state.                                       *)
THEOREM LocksHold == Spec => []LocksInv
<1>1. Init => Stacks /\ LowLevel /\ NoLostWakeup
  BY LocksInit
<1>2. TypeOK /\ Stacks /\ LowLevel /\ NoLostWakeup /\ [Next]_vars
      => Stacks' /\ LowLevel' /\ NoLostWakeup'
  BY LocksStep
<1>3. Spec => []TypeOK
  BY TypeCorrect
<1>4. Spec => [](Stacks /\ LowLevel /\ NoLostWakeup)
  BY <1>1, <1>2, <1>3, PTL DEF Spec
<1>5. TypeOK /\ Stacks /\ LowLevel /\ NoLostWakeup => LocksInv
  BY DEF LocksInv
<1> QED
  BY <1>3, <1>4, <1>5, PTL

(* A set lock_ll always has an owner that will clear it.                    *)
THEOREM LockLLIsOwned == Spec => []LockLLOwned
<1>1. LocksInv => LockLLOwned
  BY DEF LocksInv, LowLevel
<1> QED
  BY <1>1, LocksHold, PTL

(* A frame on send_data_list is forgotten only if the post for it was      *)
(* refused to a timer.                                                     *)
THEOREM LLFramesWake == Spec => []NoLostWakeupLL
<1>1. LocksInv => NoLostWakeupLL
  BY DEF LocksInv, LowLevel
<1> QED
  BY <1>1, LocksHold, PTL

(* Nor is a frame on session_list.                                         *)
THEOREM ApplFramesWake == Spec => []NoLostWakeup
<1>1. LocksInv => NoLostWakeup
  BY DEF LocksInv
<1> QED
  BY <1>1, LocksHold, PTL

(* Until the host gives up a frame, the chip's callback completes the frame *)
(* it was sent for.                                                         *)
THEOREM StatusIsOwn == Spec => []OwnStatus
<1>1. LocksInv => OwnStatus
  BY DEF LocksInv, LowLevel, OneFrame, OwnStatus
<1> QED
  BY <1>1, LocksHold, PTL
=============================================================================
