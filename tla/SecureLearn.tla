----------------------------- MODULE SecureLearn -----------------------------
(***************************************************************************)
(* Secure inclusion with Security 0: the state machine of                  *)
(* apps/transport/Secure_learn.c with what it calls and who drives it in   *)
(* apps/threads/sl_security_layer.c.                                       *)
(*                                                                         *)
(* sapi_t handles frames and runs the cycles of the machine, in turn.  A   *)
(* cycle looks at the events that were raised, reacts, and then clears all *)
(* of them, so what is raised in between is lost.  manager_t asks for an   *)
(* inclusion, in two steps that sapi_t may come between; the inclusion     *)
(* controller asks in sapi_t.  A frame is called back once, as SendLayer   *)
(* promises; the callback raises the same tx_done or tx_fail whichever     *)
(* frame it is for.                                                        *)
(*                                                                         *)
(* Left out: learn mode (security_learn_begin and sec0_abort_inclusion     *)
(* have no caller) and the branch for a node without Security 0, as        *)
(* handle_security_scheme_report sets that bit in every scheme.            *)
(***************************************************************************)
EXTENDS Naturals, FiniteSets

CONSTANTS
  Nodes,       \* nodes of the network
  Secured,     \* those that have the network key from the start
  MaxRequests, \* bound: inclusions asked for and COMMANDS_SUPPORTED_GETs
  MaxFrames    \* bound: frames that await their callback, later ones refused

None == "none"
ASSUME SecureLearnAssumption ==
  /\ Secured \subseteq Nodes /\ None \notin Nodes
  /\ {MaxRequests, MaxFrames} \subseteq Nat

VARIABLES
  cycle,     \* secure_poll: not in it, about to react, or about to clear
  last,      \* s of secure_poll: the state before this cycle
  state,     \* stateConfVector[0]
  raised,    \* the events that are raised, a timer's under its state's name
  request,   \* inclusionRequest_value
  reporter,  \* scheme_report_value
  verifier,  \* key_verify_value
  node,      \* iface.node
  scheme,    \* iface.scheme: "none" for 0, "failed" for -1
  isController,
  timer,     \* the state whose timer runs, or "none"
  callback,  \* callback: the client it belongs to, or "none"
  manager,   \* the node that passed the check of manager_t, or "none"
  key,       \* the key of Security 0: "net", or the inclusion key "zero"
  frames,    \* frames of the machine that were not called back yet
  secure,    \* nodes with NODE_FLAG_SECURITY0
  hasKey,    \* nodes that have the network key
  requests,  \* inclusions accepted and COMMANDS_SUPPORTED_GETs so far
  asked,     \* history: [Clients -> the node it waits for, or "none"]
  hist       \* history: what happened that the properties allow for

events == <<raised, request, reporter, verifier>>
poll == <<cycle, last>>
iface == <<state, node, scheme, isController>>
clients == <<callback, asked, manager>>
vars == <<poll, iface, events, timer, key, clients, frames, secure, hasKey,
          requests, hist>>

-----------------------------------------------------------------------------
Clients == {"nm", "ic"}
Timed == {"SchemeRequest", "SendKey", "waitVerify", "SendInterit"}
States == Timed \cup {"Idle", "Fail", "end", "Complete", "SendReport"}
Events ==
  Timed \cup {"inclusion", "supported", "done", "fail", "report", "verify"}
Active == state # "Idle"                          \* secure_learn_active

(* under: the key a Security 0 frame was encrypted with, once it was.      *)
Frames ==
  [kind : {"get", "key", "inherit", "supported"}, to : Nodes,
   no : 0..MaxRequests, under : {"plain", None, "zero", "net"}]
Frame(kind, n) ==
  [kind |-> kind, to |-> n, no |-> requests,
   under |-> IF kind = "get" THEN "plain" ELSE None]

TypeOK ==
  /\ cycle \in {"out", "react", "clear"} /\ last \in States \cup {None}
  /\ state \in States /\ raised \subseteq Events
  /\ {request, reporter, verifier, node} \subseteq Nodes \cup {None}
  /\ scheme \in {None, "S0", "failed"} /\ isController \in BOOLEAN
  /\ timer \in {None} \cup (IF Active THEN {state} ELSE {})
  /\ callback \in Clients \cup {None}
  /\ manager \in Nodes \cup {None}
  /\ key \in {"net", "zero"}
  /\ frames \subseteq Frames
  /\ secure \subseteq Nodes /\ hasKey \subseteq Nodes
  /\ requests \in 0..MaxRequests
  /\ asked \in [Clients -> Nodes \cup {None}]
  /\ hist \subseteq {"overlap", "lost"}

(* security_init, once the network is up.                                  *)
Init ==
  /\ cycle = "out" /\ last = None /\ state = "Idle" /\ raised = {}
  /\ request = None /\ reporter = None /\ verifier = None
  /\ node = None /\ scheme = None /\ isController = FALSE
  /\ timer = None /\ callback = None
  /\ manager = None
  /\ key = "net" /\ frames = {} /\ secure = Secured /\ hasKey = Secured
  /\ requests = 0
  /\ asked = [c \in Clients |-> None] /\ hist = {}

-----------------------------------------------------------------------------
(* The reactions, in sapi_t.                                               *)
(* Mutation: the state is entered without its timer.                       *)
NoTimer == UNCHANGED timer
SetTimer == timer' = IF timer = None THEN state' ELSE timer
StopTimer == timer' = None
Restart == timer' = state'                      \* unsetTimer, then setTimer
Goes(s) == state' = s
(* send_and_raise: a frame that is refused raises tx_fail at once.         *)
Sends(f) ==
  \/ /\ Cardinality(frames) < MaxFrames
     /\ frames' = frames \cup {f} /\ UNCHANGED raised
  \/ raised' = raised \cup {"fail"} /\ UNCHANGED frames
SendsNothing == UNCHANGED <<frames, raised>>
InstallKey(k) == key' = k
Registers(n) == secure' = secure \cup {n}       \* register_scheme
Unregisters(n) == secure' = secure \ {n}

Stays == UNCHANGED <<iface, timer, key, frames, raised, secure, asked>>
(* Mutation: the timer of the state that failed runs on.                   *)
FailsRunning ==
  /\ Goes("Fail") /\ UNCHANGED timer
  /\ scheme' = "failed" /\ Unregisters(node)
  /\ SendsNothing /\ UNCHANGED <<node, isController, key, asked>>
(* The entry of Fail.                                                      *)
Fails ==
  /\ Goes("Fail") /\ StopTimer
  /\ scheme' = "failed" /\ Unregisters(node)
  /\ SendsNothing /\ UNCHANGED <<node, isController, key, asked>>

ReactIdle ==
  /\ state = "Idle"
  /\ \/ /\ "inclusion" \in raised
        /\ Goes("SchemeRequest") /\ SetTimer /\ node' = request
        /\ Sends(Frame("get", request))
     \/ /\ "inclusion" \notin raised /\ "supported" \in raised
        /\ Goes("SendReport") /\ \E n \in hasKey : Sends(Frame("supported", n))
        /\ UNCHANGED <<timer, node>>
     \/ /\ raised \cap {"inclusion", "supported"} = {}
        /\ Goes("Idle") /\ SendsNothing /\ UNCHANGED <<timer, node>>
  /\ UNCHANGED <<scheme, isController, key, secure, asked>>

Reported == "report" \in raised /\ reporter = node
ReactSchemeRequest ==
  /\ state = "SchemeRequest"
  /\ \/ /\ Reported
        /\ Registers(node)
        /\ Goes("SendKey") /\ Restart
        /\ InstallKey("zero") /\ Sends(Frame("key", node))
        /\ UNCHANGED <<node, scheme, isController, asked>>
     \/ ~Reported /\ raised \cap {"SchemeRequest", "fail"} # {} /\ Fails
     \/ ~Reported /\ raised \cap {"SchemeRequest", "fail"} = {} /\ Stays

ReactSendKey ==
  /\ state = "SendKey"
  /\ \/ raised \cap {"SendKey", "fail"} # {} /\ Fails
     \/ /\ raised \cap {"SendKey", "fail"} = {} /\ "done" \in raised
        /\ Goes("waitVerify") /\ Restart
        /\ InstallKey("net") /\ SendsNothing
        /\ UNCHANGED <<node, scheme, isController, secure, asked>>
     \/ raised \cap {"SendKey", "fail", "done"} = {} /\ Stays

(* Mutation: the key verification of any node will do.                     *)
AnyVerified == "verify" \in raised
Verified == "verify" \in raised /\ verifier = node
ReactWaitVerify ==
  /\ state = "waitVerify"
  /\ \/ /\ Verified /\ isController
        /\ Goes("SendInterit") /\ Restart
        /\ Sends(Frame("inherit", node))
        /\ UNCHANGED <<node, scheme, isController, key, secure, asked>>
     \/ /\ Verified /\ ~isController
        /\ Goes("end") /\ StopTimer /\ Registers(node)
        /\ SendsNothing
        /\ UNCHANGED <<node, scheme, isController, key, asked>>
     \/ ~Verified /\ "waitVerify" \in raised /\ Fails
     \/ ~Verified /\ "waitVerify" \notin raised /\ Stays

ReactSendInherit ==
  /\ state = "SendInterit"
  /\ \/ raised \cap {"SendInterit", "fail"} # {} /\ Fails
     \/ /\ raised \cap {"SendInterit", "fail"} = {} /\ Reported
        /\ Goes("end") /\ StopTimer /\ Registers(node)
        /\ SendsNothing
        /\ UNCHANGED <<node, scheme, isController, key, asked>>
     \/ raised \cap {"SendInterit", "fail"} = {} /\ ~Reported /\ Stays

(* Mutation: the network key is not put back after a failure.              *)
CompletesOnly ==
  /\ UNCHANGED key
  /\ IF callback = None THEN UNCHANGED asked
     ELSE asked' = [asked EXCEPT ![callback] = None]
(* secure_learnIface_complete: the callback is called, and stays set.      *)
Completes ==
  /\ InstallKey(IF scheme = "failed" THEN "net" ELSE key)
  /\ IF callback = None THEN UNCHANGED asked
     ELSE asked' = [asked EXCEPT ![callback] = None]

ReactFailed ==                                  \* Fail and end
  /\ \/ state = "Fail" /\ Goes("end") /\ UNCHANGED <<key, asked>>
     \/ state = "end" /\ Goes("Complete") /\ Completes
  /\ SendsNothing /\ UNCHANGED <<timer, node, scheme, isController, secure>>

ReactSent ==                                    \* Complete and SendReport
  /\ \/ state = "Complete" /\ Goes("Idle")
     \/ /\ state = "SendReport"
        /\ Goes(IF raised \cap {"done", "fail"} # {} THEN "Idle" ELSE state)
  /\ SendsNothing
  /\ UNCHANGED <<timer, node, scheme, isController, secure, key, asked>>

-----------------------------------------------------------------------------
(* secure_poll runs cycles until one leaves the state as it was.           *)
SapiRests == cycle = "out"
(* The event that is raised now is cleared before a reaction looks at it,  *)
(* and the machine waits for nothing else.                                 *)
Loses(b) == hist' = IF b THEN hist \cup {"lost"} ELSE hist

React ==
  /\ cycle # "clear" /\ cycle' = "clear" /\ last' = state
  /\ \/ ReactIdle \/ ReactSchemeRequest \/ ReactSendKey \/ ReactWaitVerify
     \/ ReactSendInherit \/ ReactFailed \/ ReactSent
  /\ Loses(state # "SendReport" /\ state' = "SendReport" /\ frames' = frames)
  /\ UNCHANGED <<request, reporter, verifier, callback, requests, manager,
                 hasKey>>

(* secure_learn_clearInEvents.  A value is read with its event only, so it *)
(* is forgotten as well.                                                   *)
Clear ==
  /\ cycle = "clear" /\ raised' = {}
  /\ cycle' = IF state = last THEN "out" ELSE "react"
  /\ last' = None /\ request' = None /\ reporter' = None /\ verifier' = None
  /\ UNCHANGED <<iface, timer, key, clients, frames, secure, hasKey, requests,
                 hist>>

(* timeout, in the interrupt of the timer.                                 *)
TimerExpires ==
  /\ timer # None
  /\ raised' = raised \cup {timer} /\ timer' = None
  /\ Loses(cycle = "clear")
  /\ UNCHANGED <<poll, iface, request, reporter, verifier, key, clients,
                 frames, secure, hasKey, requests>>

(* Security 0 encrypts a frame when the nonce of the peer has come.        *)
Encrypt(f) ==
  /\ SapiRests /\ f \in frames /\ f.under = None
  /\ frames' = (frames \ {f}) \cup {[f EXCEPT !.under = key]}
  /\ UNCHANGED <<poll, iface, events, timer, key, clients, secure, hasKey,
                 requests, hist>>

(* send_data_callback: OK comes from the chip through sapi_t, a failure    *)
(* from a timer or from tcpip_t as well.  The peer can read the key when   *)
(* it was sent under the inclusion key.                                    *)
TxDone(f) ==
  /\ f \in frames /\ frames' = frames \ {f}
  /\ \/ /\ SapiRests /\ f.under # None
        /\ raised' = raised \cup {"done"}
        /\ hasKey' = IF f.kind = "key" /\ f.under = "zero"
                     THEN hasKey \cup {f.to} ELSE hasKey
     \/ raised' = raised \cup {"fail"} /\ UNCHANGED hasKey
  /\ Loses(cycle = "clear" /\ f.kind = "supported")
  /\ UNCHANGED <<poll, iface, request, reporter, verifier, timer, key, clients,
                 secure, requests>>

-----------------------------------------------------------------------------
(* Frames heard, in sapi_t.                                                *)
(* handle_security_message_encapsulation: a frame under the network key    *)
(* can be read while that key is installed, and its sender is registered.  *)
Decrypted(n) == n \in hasKey /\ key = "net" /\ Registers(n)

SchemeReport(n) ==
  /\ SapiRests
  /\ \/ Decrypted(n)
     \/ state = "SchemeRequest" /\ UNCHANGED secure
  /\ scheme' = "S0"
  /\ raised' = raised \cup {"report"} /\ reporter' = n
  /\ UNCHANGED <<poll, state, node, isController, request, verifier, timer,
                 key, clients, frames, hasKey, requests, hist>>

KeyVerify(n) ==
  /\ SapiRests /\ Decrypted(n)
  /\ raised' = raised \cup {"verify"} /\ verifier' = n
  /\ UNCHANGED <<poll, iface, request, reporter, timer, key, clients, frames,
                 hasKey, requests, hist>>

SupportedGet(n) ==
  /\ SapiRests /\ Decrypted(n)
  /\ requests < MaxRequests /\ requests' = requests + 1
  /\ raised' = raised \cup {"supported"}
  /\ UNCHANGED <<poll, iface, request, reporter, verifier, timer, key, clients,
                 frames, hasKey, hist>>

(* handle_security_scheme_get: only learn mode takes the event.            *)
SchemeGet ==
  /\ SapiRests /\ scheme' = "S0"
  /\ UNCHANGED <<poll, state, node, isController, events, timer, key, clients,
                 frames, secure, hasKey, requests, hist>>

-----------------------------------------------------------------------------
(* security_add_begin.                                                     *)
MayBegin(n) == ~Active /\ n \notin secure /\ requests < MaxRequests
Accepts(c, n) ==
  /\ requests' = requests + 1
  /\ asked' = [asked EXCEPT ![c] = n]
  /\ hist' = IF \E d \in Clients : asked[d] # None THEN hist \cup {"overlap"}
             ELSE hist

(* In sapi_t, for an inclusion controller.                                 *)
IcBegins(n) ==
  /\ SapiRests /\ MayBegin(n) /\ Accepts("ic", n)
  /\ callback' = "ic" /\ isController' \in BOOLEAN
  /\ raised' = raised \cup {"inclusion"} /\ request' = n
  /\ UNCHANGED <<poll, state, node, scheme, reporter, verifier, timer, key,
                 manager, frames, secure, hasKey>>

(* manager_t runs while sapi_t sleeps, or waits within a reaction that     *)
(* sends a frame: until the events are cleared.                            *)
ManagerRuns ==
  SapiRests \/ (cycle = "clear" /\ state # last
                /\ state \in {"SchemeRequest", "SendKey", "SendInterit",
                              "SendReport"})

NmChecks(n) ==
  /\ ManagerRuns /\ manager = None /\ MayBegin(n) /\ Accepts("nm", n)
  /\ manager' = n
  /\ UNCHANGED <<poll, iface, events, timer, key, callback, frames, secure,
                 hasKey>>

(* The machine may have left Idle since the check.                         *)
NmBegins ==
  /\ ManagerRuns /\ manager # None /\ manager' = None
  /\ callback' = "nm" /\ isController' \in BOOLEAN
  /\ raised' = raised \cup {"inclusion"} /\ request' = manager
  /\ hist' = IF Active THEN hist \cup {"overlap"} ELSE hist
  /\ UNCHANGED <<poll, state, node, scheme, reporter, verifier, timer, key,
                 asked, requests, frames, secure, hasKey>>

-----------------------------------------------------------------------------
Sapi == React \/ Clear
Called == \E f \in frames : TxDone(f)
Next ==
  \/ Sapi \/ NmBegins \/ Called \/ TimerExpires \/ SchemeGet
  \/ \E f \in frames : Encrypt(f)
  \/ \E n \in Nodes : \/ SchemeReport(n) \/ KeyVerify(n) \/ SupportedGet(n)
                      \/ IcBegins(n) \/ NmChecks(n)

Spec == Init /\ [][Next]_vars

(* The tasks run, manager_t whenever sapi_t sleeps often enough; timers    *)
(* expire and the send layer calls back.                                   *)
LiveSpec ==
  /\ Spec /\ WF_vars(Sapi) /\ SF_vars(NmBegins) /\ WF_vars(TimerExpires)
  /\ WF_vars(Called)

-----------------------------------------------------------------------------
(* When no inclusion is under way the network key is installed, however    *)
(* the last one ended, and a node that is registered as secure, which is   *)
(* done before it is sent the key, has it.                                 *)
IdleIsClean == ~Active => key = "net" /\ secure \subseteq hasKey

(* The callback tells the client about the node it asked for; a node that  *)
(* is included has the key and is registered, one that failed is not,      *)
(* while no two requests overlapped.                                       *)
AnswersOwn ==
  [][state' = "Complete" /\ state # "Complete" /\ callback # None =>
       \/ "overlap" \in hist
       \/ /\ asked[callback] = node
          /\ scheme = "S0" <=> node \in secure
          /\ scheme = "S0" => node \in hasKey]_vars

(* An inclusion that was accepted is answered, unless another one was      *)
(* asked for meanwhile; and the machine comes back to Idle, unless the     *)
(* expiry of the timer or, in SendReport, the transmit callback came       *)
(* between a reaction and the clearing of the events.                      *)
Settles ==
  /\ \A c \in Clients : asked[c] # None ~> asked[c] = None \/ hist # {}
  /\ Active ~> ~Active \/ "lost" \in hist
=============================================================================
