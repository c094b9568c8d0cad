------------------------------ MODULE SendLayer ------------------------------
(***************************************************************************)
(* What the send layer promises to whoever calls sl_zw_send_data_appl, of  *)
(* which SendData is the implementation: a frame is refused at once, or    *)
(* accepted and then taken from the queue in the order of acceptance, or   *)
(* withdrawn by its sender, and only after that called back, once.         *)
(*                                                                         *)
(* The promise holds until a freed session block is taken over before its  *)
(* callback was read (confused); after that a frame may be called back in  *)
(* the place of another one.                                               *)
(***************************************************************************)
EXTENDS Naturals, Sequences

CONSTANT Requests  \* frames of the application

VARIABLES
  phase,    \* [Requests -> {"idle", "accepted", "refused"}]
  calls,    \* [Requests -> Nat], how often the sender was called back
  queue,    \* accepted frames that were not taken or withdrawn, oldest first
  confused  \* the callbacks may have been mixed up

vars == <<phase, calls, queue, confused>>

Init ==
  /\ phase = [r \in Requests |-> "idle"]
  /\ calls = [r \in Requests |-> 0]
  /\ queue = <<>>
  /\ confused = FALSE

Queued(r) == \E i \in 1..Len(queue) : queue[i] = r

Accept(r) ==
  /\ phase[r] = "idle"
  /\ phase' = [phase EXCEPT ![r] = "accepted"]
  /\ queue' = Append(queue, r)
  /\ UNCHANGED calls

Refuse(r) ==
  /\ phase[r] = "idle"
  /\ phase' = [phase EXCEPT ![r] = "refused"]
  /\ UNCHANGED <<calls, queue>>

Take ==
  /\ queue # <<>>
  /\ queue' = Tail(queue)
  /\ UNCHANGED <<phase, calls>>

Withdraw(i) ==
  /\ queue' = SubSeq(queue, 1, i - 1) \o SubSeq(queue, i + 1, Len(queue))
  /\ UNCHANGED <<phase, calls>>

Answer(r) ==
  /\ phase[r] = "accepted" /\ ~Queued(r) /\ calls[r] = 0
  /\ calls' = [calls EXCEPT ![r] = 1]
  /\ UNCHANGED <<phase, queue>>

Next ==
  \/ confused'
  \/ /\ UNCHANGED confused
     /\ \/ \E r \in Requests : Accept(r) \/ Refuse(r) \/ Answer(r)
        \/ Take
        \/ \E i \in 1..Len(queue) : Withdraw(i)

Spec == Init /\ [][Next]_vars

-----------------------------------------------------------------------------
(* What a sender relies on: it is not called back twice, not for a frame   *)
(* that was refused, and not while its frame may still be withdrawn.       *)
Promise ==
  ~confused =>
    \A r \in Requests :
      /\ calls[r] <= 1
      /\ calls[r] = 1 => phase[r] = "accepted" /\ ~Queued(r)
=============================================================================
