------------------------------ MODULE S0Nonce ------------------------------
(***************************************************************************)
(* The nonces of Security 0: nonce_table and nonce_blacklist of            *)
(* apps/transport/sl_ts_s0.c, with the handlers of sl_security_scheme0.c   *)
(* that use them: sec0_send_nonce, sec0_register_nonce with the encrypt_msg *)
(* it leads to, and the nonce part of sec0_decrypt_message.                *)
(*                                                                         *)
(* The handlers run in sapi_t one after the other.  The periodic nonce     *)
(* timer runs in the RTOS timer task, whose priority is the highest, and   *)
(* only counts timeouts down, so a handler and a tick are steps.           *)
(*                                                                         *)
(* A nonce is its identifier (the first byte, which the receiver of a      *)
(* frame looks it up by) and a number that stands for the other bytes.     *)
(* The random generator never repeats a nonce but may repeat an identifier. *)
(***************************************************************************)
EXTENDS Naturals, Sequences, FiniteSets

CONSTANTS
  Locals,         \* node ids of the gateway
  Peers,          \* nodes it talks to
  Ids,            \* first bytes of nonces
  PeerNonces,     \* the nonces of the peers
  TableSize,      \* NONCE_TABLE_SIZE
  NonceTimeout,   \* NONCE_TIMEOUT
  BlacklistSize,  \* NONCE_BLACKLIST_SIZE
  MaxDrawn        \* bound: how many nonces the gateway draws

Nonce(k, id) == [no |-> k, id |-> id]
Nonces == {Nonce(k, id) : k \in 1..MaxDrawn, id \in Ids}

ASSUME S0NonceAssumption ==
  /\ Locals \cap Peers = {}
  /\ PeerNonces \subseteq Nonces
  /\ TableSize \in Nat
  /\ NonceTimeout \in Nat \ {0}
  /\ BlacklistSize \in Nat \ {0}
  /\ MaxDrawn \in Nat

VARIABLES
  table,      \* nonce_table
  blacklist,  \* nonce_blacklist, the oldest first
  drawn,      \* how many nonces the gateway has drawn
  opened,     \* history: nonces of the gateway a frame was opened with
  spent       \* history: blacklisted nonces a frame was encrypted with

vars == <<table, blacklist, drawn, opened, spent>>

-----------------------------------------------------------------------------
Slots == 1..TableSize
Nodes == Locals \cup Peers

(* timeout = 0 marks a free slot; what else it holds is never read.        *)
Free == [timeout |-> 0]
Entries == [src : Nodes, dst : Nodes, reply : BOOLEAN, nonce : Nonces,
            timeout : 1..NonceTimeout]
Entry(s, d, r, n) ==
  [src |-> s, dst |-> d, reply |-> r, nonce |-> n, timeout |-> NonceTimeout]

Lives(t, i) == t[i].timeout > 0
Live(t, s, d) == {i \in Slots : Lives(t, i) /\ t[i].src = s /\ t[i].dst = d}
FreeSlots(t) == {i \in Slots : ~Lives(t, i)}
Firsts(S) == {i \in S : \A j \in S : i <= j}

(* Mutations: a reply nonce always takes a free slot, so two may live; the *)
(* pair of nodes is swapped; what is drawn is compared with nothing.       *)
PlacesFree(t, s, d, r) == FreeSlots(t)
nonce_clear_swapped(t, s, d) ==
  [i \in Slots |-> IF i \in Live(t, d, s) THEN Free ELSE t[i]]
FreshAny(t, s, d) == Ids

(* register_nonce: a live reply nonce of the pair is overwritten, else the *)
(* first free slot is taken, else the nonce is dropped.  The set of the    *)
(* tables it may leave, of which there is one.                             *)
ReplySlots(t, s, d) == {i \in Live(t, s, d) : t[i].reply}
Places(t, s, d, r) ==
  IF r /\ ReplySlots(t, s, d) # {} THEN ReplySlots(t, s, d) ELSE FreeSlots(t)

register_nonce(t, s, d, r, n) ==
  IF Places(t, s, d, r) = {} THEN {t}
  ELSE {[t EXCEPT ![i] = Entry(s, d, r, n)] : i \in Firsts(Places(t, s, d, r))}

has_three_nonces(t, s, d) == Cardinality(Live(t, s, d)) = 3

(* get_nonce: the slots it may return, by identifier or any.               *)
Matching(t, s, d, id) == {i \in Live(t, s, d) : t[i].nonce.id = id}
get_nonce(t, s, d, id) == Firsts(Matching(t, s, d, id))
get_any_nonce(t, s, d) == Firsts(Live(t, s, d))

(* The identifiers that end the loop which draws a nonce.                  *)
Fresh(t, s, d) == {id \in Ids : get_nonce(t, s, d, id) = {}}

nonce_clear(t, s, d) == [i \in Slots |-> IF i \in Live(t, s, d) THEN Free ELSE t[i]]

(* The blacklist.                                                          *)
Black(s, d, n) == [src |-> s, dst |-> d, nonce |-> n]
BlackSet(b) == {b[i] : i \in 1..Len(b)}

(* Mutations: the blacklist is asked for the wrong direction; it does not  *)
(* wrap around.                                                            *)
BlacklistedSwapped(s, d, n) == Black(d, s, n) \in BlackSet(blacklist)
AddBlackNoWrap(b) == Append(blacklist, b)

is_nonce_blacklisted(s, d, n) == Black(s, d, n) \in BlackSet(blacklist)

AddBlack(b) ==
  Append(IF Len(blacklist) = BlacklistSize THEN Tail(blacklist) ELSE blacklist, b)

-----------------------------------------------------------------------------
(* sec0_init zeroes every timeout of the table and resets the blacklist.   *)
(* security_init calls it once, from sl_router_init.                       *)
Init ==
  /\ table = [i \in Slots |-> Free]
  /\ blacklist = <<>>
  /\ drawn = 0
  /\ opened = {}
  /\ spent = {}

(* sec0_send_nonce from l to p over the table t, unless three nonces are   *)
(* out.  The nonce is registered when send_data took the report.           *)
sec0_send_nonce(t, l, p) ==
  IF has_three_nonces(t, l, p)
  THEN table' = t /\ UNCHANGED drawn
  ELSE /\ drawn < MaxDrawn
       /\ drawn' = drawn + 1
       /\ \E id \in Fresh(t, l, p) :
            \/ table' \in register_nonce(t, l, p, FALSE, Nonce(drawn + 1, id))
            \/ table' = t

NonceGet(p, l) ==
  /\ sec0_send_nonce(table, l, p)
  /\ UNCHANGED <<blacklist, opened, spent>>

(* encrypt_msg from l to p over the table t: any nonce of p is taken, all  *)
(* of them are cleared, and the random half of the initialisation vector   *)
(* becomes the reply nonce of l.  Without a nonce the session fails.  The  *)
(* loop that draws the vector compares it with the nonces of p.            *)
encrypt_msg(t, l, p) ==
  IF Live(t, p, l) = {}
  THEN table' = t /\ UNCHANGED drawn
  ELSE /\ drawn < MaxDrawn
       /\ drawn' = drawn + 1
       /\ \E id \in Fresh(t, p, l) :
            table' \in register_nonce(nonce_clear(t, p, l), l, p, TRUE,
                                      Nonce(drawn + 1, id))

Taken(t, l, p) == {Black(p, l, t[i].nonce) : i \in get_any_nonce(t, p, l)}

(* sec0_register_nonce while a session from l to p exists.  A report the   *)
(* blacklist knows is ignored.  use: the session waits for a nonce, and    *)
(* encrypts at once.                                                       *)
NonceReport(p, l, n, use) ==
  /\ ~is_nonce_blacklisted(p, l, n)
  /\ blacklist' = AddBlack(Black(p, l, n))
  /\ \E t \in register_nonce(table, p, l, FALSE, n) :
       IF use
       THEN /\ encrypt_msg(t, l, p)
            /\ spent' = (spent \cup Taken(t, l, p)) \cap BlackSet(blacklist')
       ELSE /\ table' = t
            /\ spent' = spent \cap BlackSet(blacklist')
            /\ UNCHANGED drawn
  /\ UNCHANGED opened

(* sec0_decrypt_message of a frame from p encrypted with the nonce n, and  *)
(* the nonce report if the frame asks for one (more).  The nonce is looked *)
(* up by its identifier, all nonces of the pair are cleared, and the tag   *)
(* verifies if the nonce found is the one used.                            *)
Encapsulation(p, l, n, more) ==
  LET found == get_nonce(table, l, p, n.id)
      t == IF found = {} THEN table ELSE nonce_clear(table, l, p)
  IN  /\ opened' = IF \E i \in found : table[i].nonce = n
                   THEN opened \cup {n} ELSE opened
      /\ IF more THEN sec0_send_nonce(t, l, p)
         ELSE table' = t /\ UNCHANGED drawn
      /\ UNCHANGED <<blacklist, spent>>

nonce_timer_timeout ==
  /\ table' = [i \in Slots |-> IF table[i].timeout > 1
                               THEN [table[i] EXCEPT !.timeout = @ - 1] ELSE Free]
  /\ UNCHANGED <<blacklist, drawn, opened, spent>>

Next ==
  \/ nonce_timer_timeout
  \/ \E p \in Peers, l \in Locals :
       \/ NonceGet(p, l)
       \/ \E n \in PeerNonces, use \in BOOLEAN : NonceReport(p, l, n, use)
       \/ \E n \in Nonces, more \in BOOLEAN : Encapsulation(p, l, n, more)

Spec == Init /\ [][Next]_vars

-----------------------------------------------------------------------------
TypeOK ==
  /\ table \in [Slots -> Entries \cup {Free}]
  /\ blacklist \in Seq([src : Peers, dst : Locals, nonce : PeerNonces])
  /\ Len(blacklist) <= BlacklistSize
  /\ drawn \in 0..MaxDrawn
  /\ opened \subseteq Nonces
  /\ spent \subseteq [src : Peers, dst : Locals, nonce : Nonces]

(* A pair of nodes has one live reply nonce at most: "Only one reply nonce *)
(* is allowed" in register_nonce, although the overwritten nonce and the   *)
(* new one come from different frames and expire at different times.       *)
OneReplyNonce ==
  \A i, j \in Slots :
    /\ Lives(table, i) /\ Lives(table, j) /\ i # j
    /\ table[i].reply /\ table[j].reply
    => ~(table[i].src = table[j].src /\ table[i].dst = table[j].dst)

(* A nonce of the gateway that a frame was opened with is not live any     *)
(* more, so the frame cannot be opened a second time when it is repeated.  *)
OpenedOnce ==
  \A i \in Slots : Lives(table, i) /\ table[i].src \in Locals
                   => table[i].nonce \notin opened

(* A nonce of a peer that a frame was encrypted with does not come back    *)
(* while the blacklist remembers it, so no two of our frames share it.     *)
SpentOnce ==
  \A i \in Slots : Lives(table, i) /\ table[i].src \in Peers =>
    Black(table[i].src, table[i].dst, table[i].nonce) \notin spent

(* A frame encrypted with a live nonce of the gateway finds that nonce by  *)
(* its identifier.  It finds another only between a reported nonce and a   *)
(* reply nonce, the reply nonce being the later of the two: encrypt_msg    *)
(* draws it without a look at what was reported to that peer, while        *)
(* sec0_send_nonce looks at both kinds.  Never do two reported nonces, or a*)
(* reply nonce and one reported after it, stand in each other's way.       *)
LookupFinds ==
  \A i \in Slots : Lives(table, i) /\ table[i].src \in Locals =>
    \E j \in get_nonce(table, table[i].src, table[i].dst, table[i].nonce.id) :
      \/ j = i
      \/ \E k \in {i, j}, m \in {i, j} :
           table[k].reply /\ ~table[m].reply /\ table[m].nonce.no < table[k].nonce.no

(* sec0_send_nonce: "There are three nonces [...] in table.  Discarding    *)
(* further nonce get requests": a peer never has more than three of them.  *)
AtMostThree ==
  \A l \in Locals, p \in Peers :
    Cardinality({i \in Live(table, l, p) : ~table[i].reply}) <= 3
=============================================================================
