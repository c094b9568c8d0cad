-------------------------- MODULE SecureLearnProofs --------------------------
(* Theorems about SecureLearn, for every set of nodes and all bounds.       *)
EXTENDS SecureLearn, TLAPS

-----------------------------------------------------------------------------
(* The states of an inclusion, and those that it only passes through: the   *)
(* cycles of secure_poll go on until it is over, so that no frame is        *)
(* handled meanwhile.                                                       *)
Passing == {"Fail", "end", "Complete"}
Including == Timed \cup {"Fail", "end"}

(* A value belongs to the event it was raised with.                         *)
EventsHaveValues ==
  /\ "inclusion" \in raised => request \in Nodes
  /\ "report" \in raised => reporter \in Nodes /\ (cycle # "clear" => scheme = "S0")
  /\ "verify" \in raised => verifier \in hasKey
(* A timer that runs is that of the state.                                  *)
TimerOfState == timer # None => timer = state /\ state \in Timed
NeverRests == state \in Passing => cycle = "react" \/ (cycle = "clear" /\ last # state)
TypeInv == TypeOK /\ EventsHaveValues /\ TimerOfState /\ NeverRests

(* The inclusion key is put away, by waitVerify or by the end of a failure. *)
KeyInUse ==
  key = "zero" => state = "SendKey" \/ (state \in {"Fail", "end"} /\ scheme = "failed")
(* A node is registered before it has the key only while it is sent it.     *)
SecureHasKey ==
  \A n \in secure : n \in hasKey \/ (n = node /\ state \in {"SendKey", "waitVerify"})
(* What the machine has reached for the node it includes.                   *)
Outcome ==
  /\ state \in {"SendKey", "waitVerify", "SendInterit"} => scheme = "S0"
  /\ state = "SendInterit" => node \in hasKey
  /\ state = "Fail" => scheme = "failed" /\ node \notin secure
  /\ state = "end" =>
       IF scheme = "S0" THEN node \in secure /\ node \in hasKey
       ELSE scheme = "failed" /\ node \notin secure

(* While no two requests overlapped, the request that was raised and the    *)
(* inclusion that it starts are those the callback's client asked for.      *)
OneRequest ==
  "overlap" \notin hist =>
    /\ state \in Including => node \in Nodes /\ callback \in Clients /\ asked[callback] = node
    /\ "inclusion" \in raised =>
         \/ cycle = "clear"
         \/ state = "Idle" /\ callback \in Clients /\ asked[callback] = request
    /\ manager # None =>
         state \notin Including /\ "inclusion" \notin raised /\ asked["nm"] = manager

IInv == TypeInv /\ KeyInUse /\ SecureHasKey /\ Outcome /\ OneRequest

-----------------------------------------------------------------------------
(* Types.                                                                  *)
LEMMA FrameTyped ==
  ASSUME TypeOK, NEW n \in Nodes, NEW k \in {"get", "key", "inherit", "supported"}
  PROVE  Frame(k, n) \in Frames
BY DEF TypeOK, Frame, Frames

LEMMA SendsTyped ==
  ASSUME TypeOK, NEW f \in Frames, Sends(f)
  PROVE  frames' \subseteq Frames /\ raised' \subseteq raised \cup {"fail"}
BY DEF TypeOK, Sends, Events

(* What a reaction leaves as it was.                                       *)
Kept == UNCHANGED <<request, reporter, verifier, callback, requests, manager, hasKey>>
(* What a reaction is to establish of the variables it may change.          *)
Reacted ==
  /\ state' \in States /\ node' \in Nodes \cup {None}
  /\ scheme' \in {None, "S0", "failed"} /\ isController' \in BOOLEAN
  /\ key' \in {"net", "zero"} /\ secure' \subseteq Nodes
  /\ asked' \in [Clients -> Nodes \cup {None}]
  /\ frames' \subseteq Frames
  /\ raised' \subseteq raised \cup {"fail"}
  /\ timer' # None => timer' = state' /\ state' \in Timed
  /\ state' \in Passing => state' # state

LEMMA ReactedIdle == ASSUME TypeInv, ReactIdle PROVE Reacted
<1> USE SecureLearnAssumption DEF TypeInv, TypeOK, Reacted, ReactIdle, Goes, SendsNothing
<1>1. CASE "inclusion" \in raised
  <2>1. request \in Nodes
    BY <1>1 DEF EventsHaveValues
  <2>2. Frame("get", request) \in Frames
    BY <2>1, FrameTyped
  <2>3. frames' \subseteq Frames /\ raised' \subseteq raised \cup {"fail"}
    BY <1>1, <2>2, SendsTyped
  <2> QED
    BY <1>1, <2>1, <2>3 DEF SetTimer, TimerOfState, States, Timed, Passing
<1>2. CASE "inclusion" \notin raised /\ "supported" \in raised
  <2>1. PICK n \in hasKey : Sends(Frame("supported", n))
    BY <1>2
  <2>2. Frame("supported", n) \in Frames
    BY <2>1, FrameTyped
  <2>3. frames' \subseteq Frames /\ raised' \subseteq raised \cup {"fail"}
    BY <2>1, <2>2, SendsTyped
  <2> QED
    BY <1>2, <2>3 DEF TimerOfState, States, Timed, Passing
<1>3. CASE raised \cap {"inclusion", "supported"} = {}
  BY <1>3 DEF TimerOfState, States, Timed, Passing
<1> QED
  BY <1>1, <1>2, <1>3

LEMMA ReactedFails == ASSUME TypeInv, Fails, state \in Timed PROVE Reacted
BY DEF TypeInv, TypeOK, Reacted, Fails, Goes, StopTimer, Unregisters, SendsNothing, States,
       Timed, Passing

LEMMA ReactedStays == ASSUME TypeInv, Stays, state \in Timed PROVE Reacted
BY DEF TypeInv, TypeOK, Reacted, Stays, iface, TimerOfState, Timed, Passing

LEMMA ReactedSchemeRequest == ASSUME TypeInv, ReactSchemeRequest PROVE Reacted
<1>1. CASE Reported
  <2>1. node \in Nodes
    BY <1>1 DEF Reported, TypeInv, EventsHaveValues
  <2>2. Frame("key", node) \in Frames
    BY <2>1, FrameTyped DEF TypeInv
  <2>3. frames' \subseteq Frames /\ raised' \subseteq raised \cup {"fail"}
    BY <1>1, <2>2, SendsTyped DEF ReactSchemeRequest, TypeInv
  <2> QED
    BY <1>1, <2>1, <2>3
    DEF ReactSchemeRequest, TypeInv, TypeOK, Reacted, Goes, Restart, InstallKey, Registers, States,
        Timed, Passing
<1>2. CASE ~Reported
  BY <1>2, ReactedFails, ReactedStays DEF ReactSchemeRequest, Timed
<1> QED
  BY <1>1, <1>2

LEMMA ReactedSendKey == ASSUME TypeInv, ReactSendKey PROVE Reacted
<1>1. state \in Timed
  BY DEF ReactSendKey, Timed
<1>2. CASE raised \cap {"SendKey", "fail"} # {}
  BY <1>1, <1>2, ReactedFails DEF ReactSendKey
<1>3. CASE raised \cap {"SendKey", "fail"} = {} /\ "done" \in raised
  BY <1>3
  DEF ReactSendKey, TypeInv, TypeOK, Reacted, Goes, Restart, InstallKey, SendsNothing, States,
      Timed, Passing
<1>4. CASE raised \cap {"SendKey", "fail", "done"} = {}
  BY <1>1, <1>4, ReactedStays DEF ReactSendKey
<1> QED
  BY <1>2, <1>3, <1>4 DEF ReactSendKey

LEMMA ReactedWaitVerify == ASSUME TypeInv, ReactWaitVerify PROVE Reacted
<1>1. CASE Verified
  <2>1. node \in Nodes
    BY <1>1 DEF Verified, TypeInv, TypeOK, EventsHaveValues
  <2>2. CASE isController
    <3>1. Frame("inherit", node) \in Frames
      BY <2>1, FrameTyped DEF TypeInv
    <3>2. frames' \subseteq Frames /\ raised' \subseteq raised \cup {"fail"}
      BY <1>1, <2>2, <3>1, SendsTyped DEF ReactWaitVerify, TypeInv
    <3> QED
      BY <1>1, <2>2, <3>2
      DEF ReactWaitVerify, TypeInv, TypeOK, Reacted, Goes, Restart, States, Timed, Passing
  <2>3. CASE ~isController
    BY <1>1, <2>1, <2>3
    DEF ReactWaitVerify, TypeInv, TypeOK, Reacted, Goes, StopTimer, Registers, SendsNothing,
        States, Timed, Passing
  <2> QED
    BY <2>2, <2>3
<1>2. CASE ~Verified
  BY <1>2, ReactedFails, ReactedStays DEF ReactWaitVerify, Timed
<1> QED
  BY <1>1, <1>2

LEMMA ReactedSendInherit == ASSUME TypeInv, ReactSendInherit PROVE Reacted
<1>1. state \in Timed
  BY DEF ReactSendInherit, Timed
<1>2. CASE raised \cap {"SendInterit", "fail"} # {}
  BY <1>1, <1>2, ReactedFails DEF ReactSendInherit
<1>3. CASE raised \cap {"SendInterit", "fail"} = {} /\ Reported
  <2>1. node \in Nodes
    BY <1>3 DEF Reported, TypeInv, EventsHaveValues
  <2> QED
    BY <1>3, <2>1
    DEF ReactSendInherit, TypeInv, TypeOK, Reacted, Goes, StopTimer, Registers, SendsNothing,
        States, Timed, Passing
<1>4. CASE raised \cap {"SendInterit", "fail"} = {} /\ ~Reported
  BY <1>1, <1>4, ReactedStays DEF ReactSendInherit
<1> QED
  BY <1>2, <1>3, <1>4 DEF ReactSendInherit

LEMMA ReactedFailed == ASSUME TypeInv, ReactFailed PROVE Reacted
<1>1. asked' \in [Clients -> Nodes \cup {None}]
  BY DEF ReactFailed, Completes, TypeInv, TypeOK
<1> QED
  BY <1>1
  DEF ReactFailed, Completes, InstallKey, TypeInv, TypeOK, Reacted, Goes, SendsNothing,
      TimerOfState, States, Timed, Passing

LEMMA ReactedSent == ASSUME TypeInv, ReactSent PROVE Reacted
BY DEF ReactSent, TypeInv, TypeOK, Reacted, Goes, SendsNothing, TimerOfState, States, Timed,
       Passing

(* Whether an event is lost says nothing of the requests.                   *)
LEMMA LosesTyped ==
  ASSUME TypeOK, NEW b \in BOOLEAN, Loses(b)
  PROVE  hist' \subseteq {"overlap", "lost"} /\ ("overlap" \in hist' <=> "overlap" \in hist)
BY DEF Loses, TypeOK

LEMMA ReactReacts ==
  ASSUME TypeInv, React
  PROVE  Reacted /\ cycle # "clear" /\ cycle' = "clear" /\ last' = state /\ Kept
         /\ hist' \subseteq {"overlap", "lost"} /\ ("overlap" \in hist' <=> "overlap" \in hist)
<1>1. Reacted
  BY ReactedIdle, ReactedSchemeRequest, ReactedSendKey, ReactedWaitVerify, ReactedSendInherit,
     ReactedFailed, ReactedSent DEF React
<1>2. hist' \subseteq {"overlap", "lost"} /\ ("overlap" \in hist' <=> "overlap" \in hist)
  BY LosesTyped DEF React, TypeInv
<1> QED
  BY <1>1, <1>2 DEF React, Kept

LEMMA TypeReact == ASSUME TypeInv, React PROVE TypeInv'
<1>1. Reacted /\ cycle' = "clear" /\ last' = state /\ Kept /\ hist' \subseteq {"overlap", "lost"}
  BY ReactReacts
<1>2. TypeOK'
  BY <1>1 DEF Reacted, Kept, TypeInv, TypeOK, Active, Timed, Events
<1>3. EventsHaveValues'
  BY <1>1 DEF Reacted, Kept, TypeInv, EventsHaveValues
<1>4. TimerOfState' /\ NeverRests'
  BY <1>1 DEF Reacted, TimerOfState, NeverRests
<1> QED
  BY <1>2, <1>3, <1>4 DEF TypeInv

LEMMA TypeClear == ASSUME TypeInv, Clear PROVE TypeInv'
BY DEF Clear, TypeInv, TypeOK, EventsHaveValues, TimerOfState, NeverRests, Active, iface, clients

LEMMA TypeTimer == ASSUME TypeInv, TimerExpires PROVE TypeInv'
<1>1. timer \in Timed /\ timer' = None /\ raised' = raised \cup {timer}
  BY DEF TimerExpires, TypeInv, TimerOfState
<1>2. hist' \subseteq {"overlap", "lost"}
  BY LosesTyped DEF TimerExpires, TypeInv
<1>3. raised' \subseteq Events
  BY <1>1 DEF TypeInv, TypeOK, Events
<1>4. TypeOK'
  BY <1>1, <1>2, <1>3 DEF TimerExpires, TypeInv, TypeOK, Active, poll, iface, clients
<1> QED
  BY <1>1, <1>4 DEF TimerExpires, TypeInv, EventsHaveValues, TimerOfState, NeverRests, Timed, poll,
                    iface

LEMMA TypeEncrypt == ASSUME TypeInv, NEW f \in frames, Encrypt(f) PROVE TypeInv'
<1>1. [f EXCEPT !.under = key] \in Frames
  BY DEF TypeInv, TypeOK, Frames
<1>2. frames' \subseteq Frames
  BY <1>1 DEF Encrypt, TypeInv, TypeOK
<1> QED
  BY <1>2 DEF Encrypt, TypeInv, TypeOK, EventsHaveValues, TimerOfState, NeverRests, Active, poll,
              iface, events, clients

LEMMA TypeTxDone == ASSUME TypeInv, NEW f \in frames, TxDone(f) PROVE TypeInv'
<1>1. f.to \in Nodes
  BY DEF TypeInv, TypeOK, Frames
<1>2. hasKey \subseteq hasKey' /\ hasKey' \subseteq Nodes /\ raised' \subseteq Events
      /\ raised' \subseteq raised \cup {"done", "fail"}
  BY <1>1 DEF TxDone, TypeInv, TypeOK, Events
<1> QED
  BY <1>2 DEF TxDone, Loses, TypeInv, TypeOK, EventsHaveValues, TimerOfState, NeverRests, Active,
              poll, iface, clients

LEMMA HeardTyped ==
  ASSUME TypeInv, NEW n \in Nodes,
         SchemeReport(n) \/ KeyVerify(n) \/ SupportedGet(n)
  PROVE  TypeInv'
<1> USE SecureLearnAssumption DEF TypeInv, TypeOK, EventsHaveValues, TimerOfState, NeverRests, Active,
    Passing, Decrypted, Registers, SapiRests, poll, iface, clients, Events
<1>1. CASE SchemeReport(n)
  BY <1>1 DEF SchemeReport
<1>2. CASE KeyVerify(n)
  BY <1>2 DEF KeyVerify
<1>3. CASE SupportedGet(n)
  BY <1>3 DEF SupportedGet
<1> QED
  BY <1>1, <1>2, <1>3

LEMMA TypeSchemeGet == ASSUME TypeInv, SchemeGet PROVE TypeInv'
BY DEF SchemeGet, TypeInv, TypeOK, EventsHaveValues, TimerOfState, NeverRests, Active, poll,
       events, clients, SapiRests

LEMMA TypeAsk ==
  ASSUME TypeInv, NEW n \in Nodes, IcBegins(n) \/ NmChecks(n) \/ NmBegins
  PROVE  TypeInv'
<1> USE SecureLearnAssumption DEF TypeInv, TypeOK, EventsHaveValues, TimerOfState, NeverRests, Active,
    MayBegin, Accepts, poll, iface, events, Events, Clients
<1>1. CASE IcBegins(n)
  BY <1>1 DEF IcBegins
<1>2. CASE NmChecks(n)
  BY <1>2 DEF NmChecks
<1>3. CASE NmBegins
  BY <1>3 DEF NmBegins
<1> QED
  BY <1>1, <1>2, <1>3

LEMMA TypeNmBegins == ASSUME TypeInv, NmBegins PROVE TypeInv'
<1>1. manager \in Nodes
  BY DEF NmBegins, TypeInv, TypeOK
<1> QED
  BY <1>1, TypeAsk

LEMMA TypeNext == ASSUME TypeInv, [Next]_vars PROVE TypeInv'
<1>1. CASE UNCHANGED vars
  BY <1>1 DEF vars, poll, iface, events, clients, TypeInv, TypeOK, EventsHaveValues,
              TimerOfState, NeverRests, Active
<1>2. CASE Next
  BY <1>2, TypeReact, TypeClear, TypeTimer, TypeEncrypt, TypeTxDone, HeardTyped, TypeSchemeGet,
     TypeAsk, TypeNmBegins DEF Next, Sapi, Called
<1> QED
  BY <1>1, <1>2

LEMMA TypeInit == ASSUME Init PROVE TypeInv
<1>1. asked \in [Clients -> Nodes \cup {None}]
  BY DEF Init
<1>2. requests \in 0..MaxRequests
  BY SecureLearnAssumption DEF Init
<1>3. state \in States /\ secure \subseteq Nodes /\ hasKey \subseteq Nodes
  BY SecureLearnAssumption DEF Init, States
<1> QED
  BY <1>1, <1>2, <1>3
  DEF Init, TypeInv, TypeOK, EventsHaveValues, TimerOfState, NeverRests, Passing

THEOREM TypeInvariance == Spec => []TypeInv
<1>1. Init => TypeInv
  BY TypeInit
<1>2. TypeInv /\ [Next]_vars => TypeInv'
  BY TypeNext
<1> QED
  BY <1>1, <1>2, PTL DEF Spec

(* The variables keep their types: no event, frame or registration carries  *)
(* a node that is none, and no timer outlives its state (Secure_learn.c).   *)
THEOREM TypeCorrect == Spec => []TypeOK
BY TypeInvariance, PTL DEF TypeInv

-----------------------------------------------------------------------------
(* The key and the registrations.                                          *)
Settled == KeyInUse /\ SecureHasKey /\ Outcome

LEMMA SettledFails == ASSUME TypeInv, Settled, Kept, state \in Timed, Fails PROVE Settled'
BY DEF TypeInv, TypeOK, Settled, KeyInUse, SecureHasKey, Outcome, Kept, Fails, Goes, Unregisters

LEMMA SettledStays == ASSUME Settled, Kept, Stays PROVE Settled'
BY DEF Settled, KeyInUse, SecureHasKey, Outcome, Kept, Stays, iface

LEMMA SettledSchemeRequest ==
  ASSUME TypeInv, Settled, Kept, cycle # "clear", ReactSchemeRequest
  PROVE  Settled'
<1>1. CASE Reported
  <2>1. scheme = "S0"
    BY <1>1 DEF Reported, TypeInv, EventsHaveValues
  <2> QED
    BY <1>1, <2>1
    DEF Settled, KeyInUse, SecureHasKey, Outcome, Kept, ReactSchemeRequest, Goes, Registers
<1>2. CASE ~Reported
  BY <1>2, SettledFails, SettledStays DEF ReactSchemeRequest, Timed
<1> QED
  BY <1>1, <1>2

LEMMA SettledSendKey == ASSUME TypeInv, Settled, Kept, ReactSendKey PROVE Settled'
<1>1. state \in Timed
  BY DEF ReactSendKey, Timed
<1>2. CASE raised \cap {"SendKey", "fail"} # {}
  BY <1>1, <1>2, SettledFails DEF ReactSendKey
<1>3. CASE raised \cap {"SendKey", "fail"} = {} /\ "done" \in raised
  BY <1>3
  DEF Settled, KeyInUse, SecureHasKey, Outcome, Kept, ReactSendKey, Goes, InstallKey
<1>4. CASE raised \cap {"SendKey", "fail", "done"} = {}
  BY <1>4, SettledStays DEF ReactSendKey
<1> QED
  BY <1>2, <1>3, <1>4 DEF ReactSendKey

LEMMA SettledWaitVerify == ASSUME TypeInv, Settled, Kept, ReactWaitVerify PROVE Settled'
<1>1. CASE Verified
  <2>1. node \in hasKey
    BY <1>1 DEF Verified, TypeInv, EventsHaveValues
  <2> QED
    BY <1>1, <2>1
    DEF Settled, KeyInUse, SecureHasKey, Outcome, Kept, ReactWaitVerify, Goes, Registers
<1>2. CASE ~Verified
  BY <1>2, SettledFails, SettledStays DEF ReactWaitVerify, Timed
<1> QED
  BY <1>1, <1>2

LEMMA SettledSendInherit == ASSUME TypeInv, Settled, Kept, ReactSendInherit PROVE Settled'
<1>1. state \in Timed
  BY DEF ReactSendInherit, Timed
<1>2. CASE raised \cap {"SendInterit", "fail"} # {}
  BY <1>1, <1>2, SettledFails DEF ReactSendInherit
<1>3. CASE raised \cap {"SendInterit", "fail"} = {} /\ Reported
  BY <1>3
  DEF Settled, KeyInUse, SecureHasKey, Outcome, Kept, ReactSendInherit, Goes, Registers
<1>4. CASE raised \cap {"SendInterit", "fail"} = {} /\ ~Reported
  BY <1>4, SettledStays DEF ReactSendInherit
<1> QED
  BY <1>2, <1>3, <1>4 DEF ReactSendInherit

LEMMA SettledReact == ASSUME TypeInv, Settled, React PROVE Settled'
<1>1. Kept /\ cycle # "clear"
  BY ReactReacts
<1> USE DEF Settled, KeyInUse, SecureHasKey, Outcome, Kept, Goes
<1>2. CASE ReactIdle
  BY <1>1, <1>2 DEF ReactIdle
<1>3. CASE ReactFailed
  BY <1>1, <1>3 DEF ReactFailed, Completes, InstallKey, TypeInv, TypeOK
<1>4. CASE ReactSent
  BY <1>1, <1>4 DEF ReactSent
<1> QED
  BY <1>1, <1>2, <1>3, <1>4, SettledSchemeRequest, SettledSendKey, SettledWaitVerify,
     SettledSendInherit DEF React

(* A frame is handled between the runs of secure_poll.                      *)
LEMMA SettledHeard ==
  ASSUME TypeInv, Settled, NEW n \in Nodes,
         SchemeReport(n) \/ KeyVerify(n) \/ SupportedGet(n)
  PROVE  Settled'
<1>1. state \notin {"Fail", "end"}
  BY DEF SchemeReport, KeyVerify, SupportedGet, SapiRests, TypeInv, NeverRests, Passing
<1> USE <1>1 DEF Settled, KeyInUse, SecureHasKey, Outcome, Decrypted, Registers, poll, iface
<1>2. CASE SchemeReport(n)
  BY <1>2 DEF SchemeReport
<1>3. CASE KeyVerify(n)
  BY <1>3 DEF KeyVerify
<1>4. CASE SupportedGet(n)
  BY <1>4 DEF SupportedGet
<1> QED
  BY <1>2, <1>3, <1>4

LEMMA SettledSchemeGet == ASSUME TypeInv, Settled, SchemeGet PROVE Settled'
<1>1. state \notin {"Fail", "end"}
  BY DEF SchemeGet, SapiRests, TypeInv, NeverRests, Passing
<1> QED
  BY <1>1 DEF Settled, KeyInUse, SecureHasKey, Outcome, SchemeGet, poll

LEMMA SettledNext == ASSUME TypeInv, Settled, [Next]_vars PROVE Settled'
<1> USE DEF Settled, KeyInUse, SecureHasKey, Outcome, poll, iface
<1>1. CASE UNCHANGED vars
  BY <1>1 DEF vars
<1>2. CASE Clear
  BY <1>2 DEF Clear
<1>3. CASE TimerExpires
  BY <1>3 DEF TimerExpires
<1>4. ASSUME NEW f \in frames, Encrypt(f) PROVE Settled'
  BY <1>4 DEF Encrypt
<1>5. ASSUME NEW f \in frames, TxDone(f) PROVE Settled'
  BY <1>5 DEF TxDone
<1>6. ASSUME NEW n \in Nodes, IcBegins(n) PROVE Settled'
  BY <1>6 DEF IcBegins
<1>7. ASSUME NEW n \in Nodes, NmChecks(n) PROVE Settled'
  BY <1>7 DEF NmChecks
<1>8. CASE NmBegins
  BY <1>8 DEF NmBegins
<1> QED
  BY <1>1, <1>2, <1>3, <1>4, <1>5, <1>6, <1>7, <1>8, SettledReact, SettledHeard, SettledSchemeGet
  DEF Next, Sapi, Called

-----------------------------------------------------------------------------
(* Requests and inclusions.                                                 *)
LEMMA OneRequestReact == ASSUME TypeInv, OneRequest, React PROVE OneRequest'
<1> SUFFICES ASSUME "overlap" \notin hist' PROVE OneRequest'
  BY DEF OneRequest
<1>1. /\ Kept /\ cycle # "clear" /\ cycle' = "clear" /\ "overlap" \notin hist
      /\ raised' \subseteq raised \cup {"fail"}
  BY ReactReacts DEF Reacted
<1> USE DEF OneRequest, Including, Timed, Kept, Goes
<1>2. CASE ReactIdle
  <2>1. CASE "inclusion" \in raised
    BY <1>1, <1>2, <2>1 DEF ReactIdle, TypeInv, EventsHaveValues
  <2>2. CASE "inclusion" \notin raised
    BY <1>1, <1>2, <2>2 DEF ReactIdle
  <2> QED
    BY <2>1, <2>2
<1>3. CASE ReactSchemeRequest \/ ReactSendKey \/ ReactWaitVerify \/ ReactSendInherit
  <2>1. state \in Timed /\ state' \in Timed \cup {"Fail", "end"} /\ UNCHANGED <<node, asked>>
    BY <1>3 DEF ReactSchemeRequest, ReactSendKey, ReactWaitVerify, ReactSendInherit, Fails, Stays,
                iface
  <2> QED
    BY <1>1, <2>1
<1>4. CASE state = "Fail" /\ ReactFailed
  BY <1>1, <1>4 DEF ReactFailed
<1>5. CASE state = "end" /\ ReactFailed
  BY <1>1, <1>5 DEF ReactFailed
<1>6. CASE ReactSent
  BY <1>1, <1>6 DEF ReactSent
<1> QED
  BY <1>2, <1>3, <1>4, <1>5, <1>6 DEF React, ReactFailed

(* A request that overlaps no other one finds no client waiting.            *)
LEMMA AcceptsFirst ==
  ASSUME TypeOK, NEW c \in Clients, NEW n \in Nodes, Accepts(c, n), "overlap" \notin hist'
  PROVE  /\ "overlap" \notin hist /\ \A d \in Clients : asked[d] = None
         /\ asked' = [asked EXCEPT ![c] = n] /\ asked'[c] = n
BY DEF Accepts, TypeOK

LEMMA OneRequestAsks ==
  ASSUME TypeInv, OneRequest, NEW n \in Nodes, IcBegins(n) \/ NmChecks(n)
  PROVE  OneRequest'
<1> SUFFICES ASSUME "overlap" \notin hist' PROVE OneRequest'
  BY DEF OneRequest
<1>1. PICK c \in Clients : Accepts(c, n) /\ (c = "ic" => IcBegins(n)) /\ (c = "nm" => NmChecks(n))
  BY DEF IcBegins, NmChecks, Clients
<1>2. /\ "overlap" \notin hist /\ \A d \in Clients : asked[d] = None
      /\ asked' = [asked EXCEPT ![c] = n] /\ asked'[c] = n
  BY <1>1, AcceptsFirst DEF TypeInv
<1>3. manager = None
  BY <1>2, SecureLearnAssumption DEF OneRequest, TypeInv, TypeOK, Clients
<1>4. state = "Idle" /\ state' = "Idle" /\ state' \notin Including
  BY <1>1 DEF IcBegins, NmChecks, MayBegin, Active, poll, iface, Including, Timed, Clients
<1>5. CASE c = "ic"
  BY <1>1, <1>2, <1>3, <1>4, <1>5 DEF IcBegins, OneRequest, poll, Clients
<1>6. CASE c = "nm"
  <2>1. cycle = "out" /\ cycle' = "out"
    BY <1>1, <1>4, <1>6 DEF NmChecks, ManagerRuns, SapiRests, poll
  <2>2. "inclusion" \notin raised
    BY <1>2, <2>1, SecureLearnAssumption DEF OneRequest, TypeInv, EventsHaveValues
  <2> QED
    BY <1>1, <1>2, <1>4, <1>6, <2>2 DEF NmChecks, events, OneRequest, Clients
<1> QED
  BY <1>5, <1>6 DEF Clients

LEMMA OneRequestBegins == ASSUME TypeInv, OneRequest, NmBegins PROVE OneRequest'
<1> SUFFICES ASSUME "overlap" \notin hist' PROVE OneRequest'
  BY DEF OneRequest
<1>1. "overlap" \notin hist /\ state = "Idle" /\ state' = "Idle" /\ manager' = None
  BY DEF NmBegins, Active, TypeInv, TypeOK
<1>2. callback' = "nm" /\ request' = manager /\ asked'["nm"] = manager
  BY <1>1 DEF NmBegins, OneRequest
<1> QED
  BY <1>1, <1>2 DEF OneRequest, Including, Timed, Clients

(* The steps that ask for nothing and leave the machine where it is.        *)
LEMMA OneRequestKept ==
  ASSUME OneRequest, UNCHANGED <<state, node, callback, asked, manager>>,
         "overlap" \in hist' <=> "overlap" \in hist,
         "inclusion" \in raised' =>
           "inclusion" \in raised /\ cycle' = cycle /\ request' = request
  PROVE  OneRequest'
BY DEF OneRequest

LEMMA OneRequestNext == ASSUME TypeInv, OneRequest, [Next]_vars PROVE OneRequest'
<1> USE DEF poll, iface, events, clients
<1>1. CASE UNCHANGED vars
  BY <1>1, OneRequestKept DEF vars
<1>2. CASE Clear
  BY <1>2, OneRequestKept DEF Clear
<1>3. CASE TimerExpires
  <2>1. timer \in Timed
    BY <1>3 DEF TimerExpires, TypeInv, TimerOfState
  <2>2. "overlap" \in hist' <=> "overlap" \in hist
    BY <1>3, LosesTyped DEF TimerExpires, TypeInv
  <2> QED
    BY <1>3, <2>1, <2>2, OneRequestKept DEF TimerExpires, Timed
<1>4. ASSUME NEW f \in frames, Encrypt(f) PROVE OneRequest'
  BY <1>4, OneRequestKept DEF Encrypt
<1>5. ASSUME NEW f \in frames, TxDone(f) PROVE OneRequest'
  <2>1. "overlap" \in hist' <=> "overlap" \in hist
    BY <1>5, LosesTyped DEF TxDone, TypeInv
  <2> QED
    BY <1>5, <2>1, OneRequestKept DEF TxDone
<1>6. ASSUME NEW n \in Nodes, SchemeReport(n) \/ KeyVerify(n) \/ SupportedGet(n) PROVE OneRequest'
  BY <1>6, OneRequestKept DEF SchemeReport, KeyVerify, SupportedGet
<1>7. CASE SchemeGet
  BY <1>7, OneRequestKept DEF SchemeGet
<1> QED
  BY <1>1, <1>2, <1>3, <1>4, <1>5, <1>6, <1>7, OneRequestReact, OneRequestAsks, OneRequestBegins
  DEF Next, Sapi, Called

-----------------------------------------------------------------------------
THEOREM Invariance == Spec => []IInv
<1>1. Init => Settled /\ OneRequest
  BY SecureLearnAssumption
  DEF Init, Settled, KeyInUse, SecureHasKey, Outcome, OneRequest, Including, Timed
<1>2. Init => IInv
  BY <1>1, TypeInit DEF IInv, Settled
<1>3. IInv /\ [Next]_vars => IInv'
  BY TypeNext, SettledNext, OneRequestNext DEF IInv, Settled
<1> QED
  BY <1>2, <1>3, PTL DEF Spec

(* When no inclusion is under way the network key of Security 0 is          *)
(* installed, and a node registered as secure has it, however the last      *)
(* inclusion ended (secure_learnIface_complete, register_scheme).           *)
THEOREM IdleIsCleanHolds == Spec => []IdleIsClean
<1>1. IInv => IdleIsClean
  BY DEF IInv, TypeInv, TypeOK, KeyInUse, SecureHasKey, IdleIsClean, Active
<1> QED
  BY <1>1, Invariance, PTL

(* The answer of an inclusion is about the node its client asked for, and   *)
(* true of it: a node that is included is registered and has the key, one   *)
(* that failed is not registered (secure_learnIface_complete).              *)
THEOREM AnswersOwnHolds == Spec => AnswersOwn
<1>1. ASSUME IInv, [Next]_vars, state' = "Complete", state # "Complete", callback # None,
             "overlap" \notin hist
      PROVE  /\ asked[callback] = node
             /\ scheme = "S0" <=> node \in secure
             /\ scheme = "S0" => node \in hasKey
  <2>1. state = "end"
    BY <1>1
    DEF Next, Sapi, Called, React, ReactIdle, ReactSchemeRequest, ReactSendKey, ReactWaitVerify,
        ReactSendInherit, ReactFailed, ReactSent, Fails, Stays, Goes, Clear, TimerExpires, Encrypt,
        TxDone, SchemeReport, KeyVerify, SupportedGet, SchemeGet, IcBegins, NmChecks, NmBegins,
        vars, poll, iface
  <2> QED
    BY <1>1, <2>1 DEF IInv, Outcome, OneRequest, Including
<1> DEFINE Own ==
      \/ "overlap" \in hist
      \/ /\ asked[callback] = node
         /\ scheme = "S0" <=> node \in secure
         /\ scheme = "S0" => node \in hasKey
<1>2. IInv /\ [Next]_vars => [state' = "Complete" /\ state # "Complete" /\ callback # None => Own]_vars
  BY <1>1
<1> QED
  BY <1>2, Invariance, PTL DEF Spec, AnswersOwn
=============================================================================
