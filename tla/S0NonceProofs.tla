--------------------------- MODULE S0NonceProofs ---------------------------
(* Theorems about S0Nonce, for every number of nodes, nonces and slots.     *)
EXTENDS S0Nonce, WellFoundedInduction, TLAPS

Tables == [Slots -> Entries \cup {Free}]

(* OneReplyNonce, OpenedOnce and SpentOnce of a table t, the                *)
(* count k of nonces drawn, the nonces o opened and the nonces s spent.     *)
OneReply(t) ==
  \A i, j \in Slots :
    /\ Lives(t, i) /\ Lives(t, j) /\ i # j /\ t[i].reply /\ t[j].reply
    => ~(t[i].src = t[j].src /\ t[i].dst = t[j].dst)

Unopened(t, o) ==
  \A i \in Slots : Lives(t, i) /\ t[i].src \in Locals => t[i].nonce \notin o

Unspent(t, s) ==
  \A i \in Slots : Lives(t, i) /\ t[i].src \in Peers =>
    Black(t[i].src, t[i].dst, t[i].nonce) \notin s

Unique(t) ==
  \A i, j \in Slots :
    /\ Lives(t, i) /\ Lives(t, j) /\ i # j
    /\ t[i].src \in Locals /\ ~t[i].reply /\ ~t[j].reply
    /\ t[i].src = t[j].src /\ t[i].dst = t[j].dst
    => t[i].nonce.id # t[j].nonce.id

(* A reply nonce with the identifier of a reported one is the later one.    *)
Later(t) ==
  \A i, j \in Slots :
    /\ Lives(t, i) /\ Lives(t, j)
    /\ t[i].src \in Locals /\ t[i].reply /\ ~t[j].reply
    /\ t[i].src = t[j].src /\ t[i].dst = t[j].dst /\ t[i].nonce.id = t[j].nonce.id
    => t[j].nonce.no < t[i].nonce.no

(* The strengthening: the gateway's live and opened nonces were drawn, and  *)
(* no two slots hold the same one.                                          *)
Drawn(t, k, o) ==
  /\ \A i \in Slots : Lives(t, i) /\ t[i].src \in Locals => t[i].nonce.no <= k
  /\ \A n \in o : n.no <= k
  /\ \A i, j \in Slots :
       /\ Lives(t, i) /\ Lives(t, j) /\ i # j
       /\ t[i].src \in Locals /\ t[j].src \in Locals
       => t[i].nonce.no # t[j].nonce.no

Good(t, k, o, s) ==
  /\ t \in Tables /\ k \in 0..MaxDrawn /\ o \subseteq Nonces
  /\ OneReply(t) /\ Unopened(t, o) /\ Unspent(t, s) /\ Unique(t) /\ Later(t)
  /\ Drawn(t, k, o)

IInv ==
  /\ TypeOK
  /\ Good(table, drawn, opened, spent)
  /\ spent \subseteq BlackSet(blacklist)

-----------------------------------------------------------------------------
(* A live slot holds an entry.                                              *)
LEMMA LiveTyped ==
  ASSUME NEW t \in Tables, NEW i \in Slots, Lives(t, i)
  PROVE  /\ t[i] \in Entries
         /\ t[i].src \in Nodes /\ t[i].dst \in Nodes
         /\ t[i].reply \in BOOLEAN /\ t[i].nonce \in Nonces
<1>1. t[i] # Free
  BY DEF Lives, Free
<1>2. t[i] \in Entries
  BY <1>1 DEF Tables
<1> QED
  BY <1>2 DEF Entries

(* A nonce has an identifier and a number within the bound.                 *)
LEMMA NonceTyped ==
  /\ \A n \in Nonces : n.no \in 1..MaxDrawn /\ n.id \in Ids
  /\ \A k \in 1..MaxDrawn, id \in Ids :
       /\ Nonce(k, id) \in Nonces
       /\ Nonce(k, id).no = k /\ Nonce(k, id).id = id
BY DEF Nonces, Nonce

(* A new entry is an entry, and lives.                                      *)
LEMMA EntryTyped ==
  ASSUME NEW s \in Nodes, NEW d \in Nodes, NEW r \in BOOLEAN, NEW n \in Nonces
  PROVE  /\ Entry(s, d, r, n) \in Entries
         /\ Entry(s, d, r, n).src = s /\ Entry(s, d, r, n).dst = d
         /\ Entry(s, d, r, n).reply = r /\ Entry(s, d, r, n).nonce = n
         /\ Entry(s, d, r, n).timeout > 0
BY S0NonceAssumption DEF Entry, Entries

(* register_nonce writes one slot at most: a free one, or the one with the  *)
(* reply nonce of the pair; a reply nonce takes a free slot only if the     *)
(* pair has no reply nonce.                                                 *)
LEMMA Registered ==
  ASSUME NEW t \in Tables, NEW s \in Nodes, NEW d \in Nodes, NEW r \in BOOLEAN,
         NEW n \in Nonces, NEW u \in register_nonce(t, s, d, r, n), u # t
  PROVE  \E i \in Slots :
           /\ u = [t EXCEPT ![i] = Entry(s, d, r, n)]
           /\ IF r /\ ReplySlots(t, s, d) # {}
              THEN i \in ReplySlots(t, s, d) ELSE ~Lives(t, i)
<1>1. PICK i \in Places(t, s, d, r) : u = [t EXCEPT ![i] = Entry(s, d, r, n)]
  BY DEF register_nonce, Firsts
<1> QED
  BY <1>1 DEF Places, ReplySlots, FreeSlots, Live

(* Among slots there is a first one, so a nonce with an identifier is found,*)
(* and one that is not found is not there.                                  *)
LEMMA FirstExists ==
  ASSUME NEW S \in SUBSET Slots, S # {}
  PROVE  Firsts(S) # {}
<1>1. S \in SUBSET Nat
  BY DEF Slots
<1>2. \E x \in S : \A y \in S : ~ (<<y, x>> \in OpToRel(<, Nat))
  BY <1>1, NatLessThanWellFounded, WFMin
<1>3. PICK x \in S : \A y \in S : ~ (<<y, x>> \in OpToRel(<, Nat))
  BY <1>2
<1>4. \A y \in S : ~ (y < x)
  BY <1>1, <1>3 DEF OpToRel
<1>5. \A y \in S : x <= y
  BY <1>1, <1>4
<1> QED
  BY <1>5 DEF Firsts

LEMMA FreshMatchesNone ==
  ASSUME NEW t, NEW s, NEW d, NEW id \in Fresh(t, s, d)
  PROVE  id \in Ids /\ Matching(t, s, d, id) = {}
<1>1. get_nonce(t, s, d, id) = {} /\ id \in Ids
  BY DEF Fresh
<1>2. Matching(t, s, d, id) \in SUBSET Slots
  BY DEF Matching, Live
<1> QED
  BY <1>1, <1>2, FirstExists DEF get_nonce

(* nonce_clear frees the slots of the pair and touches no other.            *)
LEMMA Cleared ==
  ASSUME NEW t \in Tables, NEW s \in Nodes, NEW d \in Nodes
  PROVE  /\ nonce_clear(t, s, d) \in Tables
         /\ \A i \in Slots : Lives(nonce_clear(t, s, d), i) =>
              /\ Lives(t, i) /\ nonce_clear(t, s, d)[i] = t[i]
              /\ ~(t[i].src = s /\ t[i].dst = d)
BY DEF nonce_clear, Tables, Free, Lives, Live

(* Freeing slots breaks nothing.                                            *)
LEMMA FewerGood ==
  ASSUME NEW t, NEW k, NEW o, NEW s, Good(t, k, o, s), NEW u \in Tables,
         \A i \in Slots : Lives(u, i) => Lives(t, i) /\ u[i] = t[i]
  PROVE  Good(u, k, o, s)
<1> USE DEF Good
<1>1. OneReply(u)
  BY DEF OneReply
<1>2. Unopened(u, o) /\ Unspent(u, s)
  BY DEF Unopened, Unspent
<1>3. Unique(u)
  BY DEF Unique
<1>4. Drawn(u, k, o)
  BY DEF Drawn
<1>5. Later(u)
  BY DEF Later
<1> QED
  BY <1>1, <1>2, <1>3, <1>4, <1>5

(* Registering the nonce the gateway has just drawn, whose identifier no    *)
(* other nonce of the pair has unless it is a reply nonce.                  *)
LEMMA OwnGood ==
  ASSUME NEW t, NEW k, NEW o, NEW s, Good(t, k, o, s), k < MaxDrawn,
         NEW l \in Locals, NEW p \in Peers, NEW r \in BOOLEAN, NEW id \in Ids,
         ~r => Matching(t, l, p, id) = {},
         NEW u \in register_nonce(t, l, p, r, Nonce(k + 1, id))
  PROVE  Good(u, k + 1, o, s)
<1> DEFINE n == Nonce(k + 1, id)
           e == Entry(l, p, r, n)
<1>0. /\ t \in Tables /\ k \in Nat /\ k + 1 \in 1..MaxDrawn /\ MaxDrawn \in Nat
      /\ n \in Nonces /\ n.no = k + 1 /\ n.id = id /\ l \in Nodes /\ p \in Nodes
      /\ l \notin Peers /\ \A m \in Nonces : m.no \in Nat
  BY S0NonceAssumption, NonceTyped DEF Good, Nodes
<1>1. /\ e \in Entries /\ e.src = l /\ e.dst = p /\ e.reply = r /\ e.nonce = n
      /\ e.timeout > 0
  BY <1>0, EntryTyped
<1> HIDE DEF n, e
<1>2. CASE u = t
  <2>1. Drawn(t, k + 1, o)
    BY <1>0, LiveTyped DEF Good, Drawn
  <2> QED
    BY <1>0, <1>2, <2>1 DEF Good
<1>3. CASE u # t
  <2>1. PICK i \in Slots :
          /\ u = [t EXCEPT ![i] = e]
          /\ IF r /\ ReplySlots(t, l, p) # {}
             THEN i \in ReplySlots(t, l, p) ELSE ~Lives(t, i)
    BY <1>0, <1>3, Registered DEF n, e
  <2>2. /\ u \in Tables /\ u[i] = e
        /\ \A j \in Slots : j # i => u[j] = t[j] /\ (Lives(u, j) <=> Lives(t, j))
    BY <1>0, <1>1, <2>1 DEF Tables, Lives
  <2>3. OneReply(u)
    <3>1. ASSUME NEW j \in Slots, j # i, Lives(u, j), u[j].reply, r,
                 u[j].src = l, u[j].dst = p
          PROVE  FALSE
      <4>1. j \in ReplySlots(t, l, p)
        BY <2>2, <3>1 DEF ReplySlots, Live
      <4>2. i \in ReplySlots(t, l, p)
        BY <2>1, <3>1, <4>1
      <4> QED
        BY <2>2, <3>1, <4>1, <4>2 DEF Good, OneReply, ReplySlots, Live
    <3> QED
      BY <1>1, <2>2, <3>1 DEF Good, OneReply
  <2>4. Unopened(u, o)
    BY <1>0, <1>1, <2>2 DEF Good, Unopened, Drawn
  <2>5. Unspent(u, s)
    BY <1>0, <1>1, <2>2 DEF Good, Unspent
  <2>6. Unique(u)
    <3>1. ASSUME NEW j \in Slots, j # i, Lives(u, j), ~u[j].reply, ~r,
                 u[j].src = l, u[j].dst = p, u[j].nonce.id = id
          PROVE  FALSE
      BY <2>2, <3>1 DEF Matching, Live
    <3> QED
      BY <1>0, <1>1, <2>2, <3>1 DEF Good, Unique
  <2>7. Drawn(u, k + 1, o)
    <3>1. \A j \in Slots : Lives(u, j) /\ j # i /\ u[j].src \in Locals => u[j].nonce.no <= k
      BY <2>2 DEF Good, Drawn
    <3>2. \A j \in Slots : Lives(u, j) => u[j].nonce.no \in Nat
      BY <1>0, <2>2, LiveTyped
    <3>3. \A m \in o : m.no \in Nat /\ m.no <= k + 1
      BY <1>0 DEF Good, Drawn
    <3>4. \A j \in Slots : Lives(u, j) /\ u[j].src \in Locals => u[j].nonce.no <= k + 1
      BY <1>0, <1>1, <2>2, <3>1, <3>2
    <3>5. ASSUME NEW j \in Slots, NEW h \in Slots, Lives(u, j), Lives(u, h), j # h,
                 u[j].src \in Locals, u[h].src \in Locals
          PROVE  u[j].nonce.no # u[h].nonce.no
      <4>1. CASE j # i /\ h # i
        BY <2>2, <3>5, <4>1 DEF Good, Drawn
      <4>2. CASE j = i \/ h = i
        BY <1>0, <1>1, <2>2, <3>1, <3>2, <3>5, <4>2
      <4> QED
        BY <4>1, <4>2
    <3> QED
      BY <3>3, <3>4, <3>5 DEF Drawn
  <2>8. Later(u)
    <3>1. SUFFICES ASSUME NEW j \in Slots, NEW h \in Slots, Lives(u, j), Lives(u, h),
                          u[j].src \in Locals, u[j].reply, ~u[h].reply,
                          u[j].src = u[h].src, u[j].dst = u[h].dst,
                          u[j].nonce.id = u[h].nonce.id
                   PROVE  u[h].nonce.no < u[j].nonce.no
      BY DEF Later
    <3>2. CASE j # i /\ h # i
      BY <2>2, <3>1, <3>2 DEF Good, Later
    <3>3. CASE j = i
      <4>1. h # i
        BY <3>1, <3>3
      <4>2. u[h].nonce.no \in Nat /\ u[h].nonce.no <= k
        BY <1>0, <2>2, <3>1, <4>1, LiveTyped DEF Good, Drawn
      <4> QED
        BY <1>0, <1>1, <2>2, <3>3, <4>2
    <3>4. CASE h = i
      <4>1. j # i /\ ~r /\ u[j].src = l /\ u[j].dst = p /\ u[j].nonce.id = id
        BY <1>0, <1>1, <2>2, <3>1, <3>4
      <4>2. j \in Matching(t, l, p, id)
        BY <2>2, <3>1, <4>1 DEF Matching, Live
      <4> QED
        BY <4>1, <4>2
    <3> QED
      BY <3>2, <3>3, <3>4
  <2> QED
    BY <1>0, <2>2, <2>3, <2>4, <2>5, <2>6, <2>7, <2>8 DEF Good
<1> QED
  BY <1>2, <1>3

(* Registering a nonce of a peer that is not a spent one.                   *)
LEMMA PeerGood ==
  ASSUME NEW t, NEW k, NEW o, NEW s, Good(t, k, o, s),
         NEW p \in Peers, NEW l \in Locals, NEW n \in Nonces, Black(p, l, n) \notin s,
         NEW r \in BOOLEAN, ~r, NEW u \in register_nonce(t, p, l, r, n)
  PROVE  Good(u, k, o, s)
<1> DEFINE e == Entry(p, l, r, n)
<1>0. /\ t \in Tables /\ l \in Nodes /\ p \in Nodes /\ p \notin Locals
  BY S0NonceAssumption DEF Good, Nodes
<1>1. /\ e \in Entries /\ e.src = p /\ e.dst = l /\ ~e.reply /\ e.nonce = n
      /\ e.timeout > 0
  BY <1>0, EntryTyped
<1> HIDE DEF e
<1>2. CASE u # t
  <2>1. PICK i \in Slots : u = [t EXCEPT ![i] = e]
    BY <1>0, <1>2, Registered DEF e
  <2>2. /\ u \in Tables /\ u[i] = e
        /\ \A j \in Slots : j # i => u[j] = t[j] /\ (Lives(u, j) <=> Lives(t, j))
    BY <1>0, <1>1, <2>1 DEF Tables, Lives
  <2>3. OneReply(u)
    BY <1>1, <2>2 DEF Good, OneReply
  <2>4. Unopened(u, o)
    BY <1>0, <1>1, <2>2 DEF Good, Unopened
  <2>5. Unspent(u, s)
    BY <1>0, <1>1, <2>2 DEF Good, Unspent
  <2>6. Unique(u)
    BY <1>0, <1>1, <2>2 DEF Good, Unique
  <2>7. Drawn(u, k, o)
    BY <1>0, <1>1, <2>2 DEF Good, Drawn
  <2>8. Later(u)
    BY <1>0, <1>1, <2>2 DEF Good, Later
  <2> QED
    BY <2>2, <2>3, <2>4, <2>5, <2>6, <2>7, <2>8 DEF Good
<1> QED
  BY <1>2

(* Forgetting spent nonces breaks nothing.                                  *)
LEMMA FewerSpent ==
  ASSUME NEW t, NEW k, NEW o, NEW s, Good(t, k, o, s), NEW z, z \subseteq s
  PROVE  Good(t, k, o, z)
BY DEF Good, Unspent

(* Encrypting with nonces of a peer clears all of them.                     *)
LEMMA SpendGood ==
  ASSUME NEW t, NEW k, NEW o, NEW s, Good(t, k, o, s),
         NEW p \in Peers, NEW l \in Locals
  PROVE  Good(nonce_clear(t, p, l), k, o, s \cup Taken(t, l, p))
<1> DEFINE u == nonce_clear(t, p, l)
<1>0. t \in Tables /\ l \in Nodes /\ p \in Nodes
  BY DEF Good, Nodes
<1>1. /\ u \in Tables
      /\ \A i \in Slots : Lives(u, i) =>
           Lives(t, i) /\ u[i] = t[i] /\ ~(t[i].src = p /\ t[i].dst = l)
  BY <1>0, Cleared
<1> HIDE DEF u
<1>2. Good(u, k, o, s)
  BY <1>1, FewerGood
<1>3. \A b \in Taken(t, l, p) : b.src = p /\ b.dst = l
  BY DEF Taken, Black
<1>4. Unspent(u, s \cup Taken(t, l, p))
  <2>1. SUFFICES ASSUME NEW i \in Slots, Lives(u, i), u[i].src \in Peers
                 PROVE  Black(u[i].src, u[i].dst, u[i].nonce) \notin s \cup Taken(t, l, p)
    BY DEF Unspent
  <2>2. Black(u[i].src, u[i].dst, u[i].nonce) \notin s
    BY <1>2, <2>1 DEF Good, Unspent
  <2>3. ~(u[i].src = p /\ u[i].dst = l)
    BY <1>1, <2>1
  <2>4. /\ Black(u[i].src, u[i].dst, u[i].nonce).src = u[i].src
        /\ Black(u[i].src, u[i].dst, u[i].nonce).dst = u[i].dst
    BY DEF Black
  <2> QED
    BY <1>3, <2>2, <2>3, <2>4
<1>5. Good(u, k, o, s \cup Taken(t, l, p))
  BY <1>2, <1>4 DEF Good
<1> QED
  BY <1>5 DEF u

(* Opening a frame with a nonce of the gateway clears all of the pair, and  *)
(* no other pair holds the same nonce.                                      *)
LEMMA OpenGood ==
  ASSUME NEW t, NEW k, NEW o, NEW s, Good(t, k, o, s),
         NEW l \in Locals, NEW p \in Peers, NEW i \in Live(t, l, p)
  PROVE  Good(nonce_clear(t, l, p), k, o \cup {t[i].nonce}, s)
<1> DEFINE u == nonce_clear(t, l, p)
<1>0. t \in Tables /\ l \in Nodes /\ p \in Nodes
  BY DEF Good, Nodes
<1>1. /\ u \in Tables
      /\ \A j \in Slots : Lives(u, j) =>
           Lives(t, j) /\ u[j] = t[j] /\ ~(t[j].src = l /\ t[j].dst = p)
  BY <1>0, Cleared
<1> HIDE DEF u
<1>2. Good(u, k, o, s)
  BY <1>1, FewerGood
<1>3. i \in Slots /\ Lives(t, i) /\ t[i].src = l /\ t[i].dst = p
  BY DEF Live
<1>4. t[i].nonce \in Nonces /\ t[i].nonce.no <= k
  BY <1>0, <1>3, LiveTyped DEF Good, Drawn
<1>5. Unopened(u, o \cup {t[i].nonce})
  <2>1. SUFFICES ASSUME NEW j \in Slots, Lives(u, j), u[j].src \in Locals
                 PROVE  u[j].nonce \notin o \cup {t[i].nonce}
    BY DEF Unopened
  <2>2. u[j].nonce \notin o
    BY <1>2, <2>1 DEF Good, Unopened
  <2>3. j # i /\ u[j] = t[j] /\ Lives(t, j)
    BY <1>1, <1>3, <2>1
  <2>4. t[j].nonce.no # t[i].nonce.no
    BY <1>3, <2>1, <2>3 DEF Good, Drawn
  <2> QED
    BY <2>2, <2>3, <2>4
<1>6. Drawn(u, k, o \cup {t[i].nonce})
  BY <1>2, <1>4 DEF Good, Drawn
<1>7. Good(u, k, o \cup {t[i].nonce}, s)
  BY <1>2, <1>4, <1>5, <1>6 DEF Good
<1> QED
  BY <1>7 DEF u

(* sec0_send_nonce keeps whatever table it is given good.                   *)
LEMMA SendNonceGood ==
  ASSUME NEW t, NEW o, NEW s, Good(t, drawn, o, s),
         NEW l \in Locals, NEW p \in Peers, sec0_send_nonce(t, l, p)
  PROVE  Good(table', drawn', o, s)
<1>1. CASE has_three_nonces(t, l, p)
  BY <1>1 DEF sec0_send_nonce
<1>2. CASE ~has_three_nonces(t, l, p)
  <2>1. PICK id \in Fresh(t, l, p) :
          /\ drawn < MaxDrawn /\ drawn' = drawn + 1
          /\ \/ table' \in register_nonce(t, l, p, FALSE, Nonce(drawn + 1, id))
             \/ table' = t
    BY <1>2 DEF sec0_send_nonce
  <2>2. FALSE \in BOOLEAN /\ id \in Ids /\ Matching(t, l, p, id) = {}
    BY FreshMatchesNone
  <2>3. CASE table' \in register_nonce(t, l, p, FALSE, Nonce(drawn + 1, id))
    BY <2>1, <2>2, <2>3, OwnGood
  <2>4. CASE table' = t
    <3>1. \A n \in Nonces : n.no \in Nat
      BY NonceTyped
    <3>2. drawn \in Nat /\ MaxDrawn \in Nat /\ drawn + 1 \in 0..MaxDrawn
      BY <2>1, S0NonceAssumption DEF Good
    <3>3. Drawn(t, drawn + 1, o)
      BY <3>1, <3>2, LiveTyped DEF Good, Drawn
    <3> QED
      BY <2>1, <2>4, <3>2, <3>3 DEF Good
  <2> QED
    BY <2>1, <2>3, <2>4
<1> QED
  BY <1>1, <1>2

(* encrypt_msg keeps the table good, with the nonces it takes spent.        *)
LEMMA EncryptGood ==
  ASSUME NEW t, NEW o, NEW s, Good(t, drawn, o, s),
         NEW l \in Locals, NEW p \in Peers, encrypt_msg(t, l, p)
  PROVE  Good(table', drawn', o, s \cup Taken(t, l, p))
<1>1. CASE Live(t, p, l) = {}
  <2>1. Taken(t, l, p) = {}
    BY <1>1 DEF Taken, get_any_nonce, Firsts
  <2> QED
    BY <1>1, <2>1 DEF encrypt_msg
<1>2. CASE Live(t, p, l) # {}
  <2>1. PICK id \in Fresh(t, p, l) :
          /\ drawn < MaxDrawn /\ drawn' = drawn + 1
          /\ table' \in register_nonce(nonce_clear(t, p, l), l, p, TRUE, Nonce(drawn + 1, id))
    BY <1>2 DEF encrypt_msg
  <2>2. Good(nonce_clear(t, p, l), drawn, o, s \cup Taken(t, l, p))
    BY SpendGood
  <2>3. TRUE \in BOOLEAN /\ id \in Ids
    BY FreshMatchesNone
  <2> QED
    BY <2>1, <2>2, <2>3, OwnGood
<1> QED
  BY <1>1, <1>2

-----------------------------------------------------------------------------
(* The initial state satisfies the invariant.                               *)
LEMMA InitIInv == ASSUME Init PROVE IInv
<1>1. TypeOK
  BY S0NonceAssumption DEF Init, TypeOK
<1>2. table \in Tables /\ \A i \in Slots : ~Lives(table, i)
  BY DEF Init, Tables, Lives, Free
<1>3. OneReply(table) /\ Unopened(table, opened) /\ Unspent(table, spent) /\ Unique(table)
      /\ Later(table)
  BY <1>2 DEF OneReply, Unopened, Unspent, Unique, Later
<1>4. Drawn(table, drawn, opened)
  BY <1>2 DEF Drawn, Init
<1>5. Good(table, drawn, opened, spent)
  BY <1>1, <1>2, <1>3, <1>4 DEF Good, TypeOK
<1> QED
  BY <1>1, <1>5 DEF IInv, Init

(* A tick keeps the invariant.                                              *)
LEMMA TickIInv == ASSUME IInv, nonce_timer_timeout PROVE IInv'
<1> DEFINE older(i) == [table[i] EXCEPT !.timeout = @ - 1]
<1>0. table \in Tables
  BY DEF IInv, Good
<1>1. ASSUME NEW i \in Slots, table[i].timeout > 1
      PROVE  /\ older(i) \in Entries /\ Lives(table, i) /\ older(i).timeout > 0
             /\ older(i).src = table[i].src /\ older(i).dst = table[i].dst
             /\ older(i).reply = table[i].reply /\ older(i).nonce = table[i].nonce
  <2>1. table[i] \in Entries
    BY <1>0, <1>1 DEF Tables, Free
  <2> QED
    BY <1>1, <2>1, S0NonceAssumption DEF Entries, Lives
<1>2. table' = [i \in Slots |-> IF table[i].timeout > 1 THEN older(i) ELSE Free]
  BY DEF nonce_timer_timeout
<1> HIDE DEF older
<1>3. table' \in Tables
  BY <1>1, <1>2 DEF Tables
<1>4. \A i \in Slots : Lives(table', i) =>
        /\ Lives(table, i)
        /\ table'[i].src = table[i].src /\ table'[i].dst = table[i].dst
        /\ table'[i].reply = table[i].reply /\ table'[i].nonce = table[i].nonce
  BY <1>1, <1>2 DEF Lives, Free
<1>5. OneReply(table') /\ Unique(table') /\ Later(table')
  BY <1>4 DEF IInv, Good, OneReply, Unique, Later
<1>6. Unopened(table', opened) /\ Unspent(table', spent)
  BY <1>4 DEF IInv, Good, Unopened, Unspent
<1>7. Drawn(table', drawn, opened)
  BY <1>4 DEF IInv, Good, Drawn
<1>8. Good(table', drawn', opened', spent')
  BY <1>3, <1>5, <1>6, <1>7 DEF IInv, Good, nonce_timer_timeout
<1>9. TypeOK'
  BY <1>3 DEF IInv, TypeOK, Tables, nonce_timer_timeout
<1> QED
  BY <1>8, <1>9 DEF IInv, nonce_timer_timeout

(* A nonce get keeps the invariant.                                         *)
LEMMA NonceGetIInv ==
  ASSUME IInv, NEW p \in Peers, NEW l \in Locals, NonceGet(p, l) PROVE IInv'
<1>1. Good(table', drawn', opened, spent)
  BY SendNonceGood DEF IInv, NonceGet
<1>2. TypeOK'
  BY <1>1 DEF IInv, TypeOK, Good, Tables, NonceGet
<1> QED
  BY <1>1, <1>2 DEF IInv, NonceGet

(* A nonce report keeps the invariant.                                      *)
LEMMA NonceReportIInv ==
  ASSUME IInv, NEW p \in Peers, NEW l \in Locals, NEW n \in PeerNonces,
         NEW use \in BOOLEAN, NonceReport(p, l, n, use)
  PROVE  IInv'
<1>1. PICK t \in register_nonce(table, p, l, FALSE, n) :
        IF use
        THEN /\ encrypt_msg(t, l, p)
             /\ spent' = (spent \cup Taken(t, l, p)) \cap BlackSet(blacklist')
        ELSE /\ table' = t
             /\ spent' = spent \cap BlackSet(blacklist')
             /\ UNCHANGED drawn
  BY DEF NonceReport, is_nonce_blacklisted
<1>2. n \in Nonces /\ Black(p, l, n) \notin spent /\ FALSE \in BOOLEAN
  BY S0NonceAssumption DEF NonceReport, is_nonce_blacklisted, IInv
<1>3. Good(t, drawn, opened, spent)
  BY <1>1, <1>2, PeerGood DEF IInv
<1>4. Good(table', drawn', opened, spent')
  <2>1. CASE use
    <3>1. Good(table', drawn', opened, spent \cup Taken(t, l, p))
      BY <1>1, <1>3, <2>1, EncryptGood
    <3>2. spent' \subseteq spent \cup Taken(t, l, p)
      BY <1>1, <2>1
    <3> QED
      BY <3>1, <3>2, FewerSpent
  <2>2. CASE ~use
    <3>1. Good(table', drawn', opened, spent) /\ spent' \subseteq spent
      BY <1>1, <1>3, <2>2
    <3> QED
      BY <3>1, FewerSpent
  <2> QED
    BY <2>1, <2>2
<1>5. spent' \subseteq BlackSet(blacklist') /\ opened' = opened
  BY <1>1 DEF NonceReport, is_nonce_blacklisted
<1>6. /\ blacklist' \in Seq([src : Peers, dst : Locals, nonce : PeerNonces])
      /\ Len(blacklist') <= BlacklistSize
  <2> DEFINE B == [src : Peers, dst : Locals, nonce : PeerNonces]
             b == Black(p, l, n)
             q == IF Len(blacklist) = BlacklistSize THEN Tail(blacklist) ELSE blacklist
  <2>1. b \in B /\ blacklist \in Seq(B) /\ Len(blacklist) <= BlacklistSize
    BY DEF Black, IInv, TypeOK
  <2>2. blacklist' = Append(q, b)
    BY DEF NonceReport, is_nonce_blacklisted, AddBlack
  <2> HIDE DEF B, b
  <2>3. q \in Seq(B) /\ Len(q) < BlacklistSize
    BY <2>1, S0NonceAssumption
  <2>4. Append(q, b) \in Seq(B) /\ Len(Append(q, b)) <= BlacklistSize
    BY <2>1, <2>3, S0NonceAssumption
  <2> QED
    BY <2>2, <2>4 DEF B
<1>7. spent' \subseteq [src : Peers, dst : Locals, nonce : Nonces]
  <2> DEFINE B == [src : Peers, dst : Locals, nonce : PeerNonces]
             q == blacklist'
  <2>1. \A i \in 1..Len(q) : q[i] \in B
    <3>1. q \in Seq(B)
      BY <1>6
    <3> HIDE DEF B, q
    <3> QED
      BY <3>1
  <2>2. BlackSet(blacklist') \subseteq [src : Peers, dst : Locals, nonce : Nonces]
    BY <2>1, S0NonceAssumption DEF BlackSet
  <2> QED
    BY <1>5, <2>2
<1>8. TypeOK'
  BY <1>4, <1>5, <1>6, <1>7 DEF IInv, TypeOK, Good, Tables
<1> QED
  BY <1>4, <1>5, <1>8 DEF IInv

(* An encapsulated frame keeps the invariant.                               *)
LEMMA EncapsulationIInv ==
  ASSUME IInv, NEW p \in Peers, NEW l \in Locals, NEW n \in Nonces,
         NEW more \in BOOLEAN, Encapsulation(p, l, n, more)
  PROVE  IInv'
<1> DEFINE found == get_nonce(table, l, p, n.id)
           t == IF found = {} THEN table ELSE nonce_clear(table, l, p)
<1>0. /\ found \subseteq Live(table, l, p)
      /\ table \in Tables /\ l \in Nodes /\ p \in Nodes
  BY DEF get_nonce, Matching, Firsts, IInv, Good, Nodes
<1>1. /\ opened' = IF \E i \in found : table[i].nonce = n THEN opened \cup {n} ELSE opened
      /\ IF more THEN sec0_send_nonce(t, l, p) ELSE table' = t /\ UNCHANGED drawn
      /\ UNCHANGED <<blacklist, spent>>
  BY DEF Encapsulation
<1> HIDE DEF found
<1>2. Good(t, drawn, opened', spent)
  <2>1. CASE \E i \in found : table[i].nonce = n
    <3>1. PICK i \in found : table[i].nonce = n
      BY <2>1
    <3>2. Good(nonce_clear(table, l, p), drawn, opened \cup {n}, spent)
      BY <1>0, <3>1, OpenGood DEF IInv
    <3> QED
      BY <1>1, <3>1, <3>2
  <2>2. CASE ~\E i \in found : table[i].nonce = n
    <3>1. opened' = opened
      BY <1>1, <2>2
    <3>2. Good(nonce_clear(table, l, p), drawn, opened, spent)
      BY <1>0, Cleared, FewerGood DEF IInv
    <3> QED
      BY <3>1, <3>2 DEF IInv
  <2> QED
    BY <2>1, <2>2
<1> HIDE DEF t
<1>3. Good(table', drawn', opened', spent')
  <2>1. CASE more
    BY <1>1, <1>2, <2>1, SendNonceGood
  <2>2. CASE ~more
    BY <1>1, <1>2, <2>2
  <2> QED
    BY <2>1, <2>2
<1>4. TypeOK'
  BY <1>1, <1>3 DEF IInv, TypeOK, Good, Tables
<1> QED
  BY <1>1, <1>3, <1>4 DEF IInv

(* The invariant holds in every state.                                      *)
THEOREM Invariance == Spec => []IInv
<1>1. ASSUME IInv, [Next]_vars PROVE IInv'
  <2>1. CASE UNCHANGED vars
    BY <1>1, <2>1 DEF IInv, TypeOK, vars
  <2>2. CASE Next
    BY <1>1, <2>2, TickIInv, NonceGetIInv, NonceReportIInv,
       EncapsulationIInv DEF Next
  <2> QED
    BY <1>1, <2>1, <2>2
<1> QED
  BY InitIInv, <1>1, PTL DEF Spec

(* The nonce table, the blacklist and the histories are always typed.       *)
THEOREM TypeCorrect == Spec => []TypeOK
<1>1. IInv => TypeOK
  BY DEF IInv
<1> QED
  BY Invariance, <1>1, PTL

(* register_nonce keeps its promise of one reply nonce for a pair, whatever *)
(* the size of the table and the number of nodes.                           *)
THEOREM OneReplyNonceHolds == Spec => []OneReplyNonce
<1>1. IInv => OneReplyNonce
  BY DEF IInv, Good, OneReply, OneReplyNonce
<1> QED
  BY Invariance, <1>1, PTL

(* No frame of a peer is opened twice: a nonce of the gateway that has      *)
(* opened a frame is never in the table again.                              *)
THEOREM OpenedOnceHolds == Spec => []OpenedOnce
<1>1. IInv => OpenedOnce
  BY DEF IInv, Good, Unopened, OpenedOnce
<1> QED
  BY Invariance, <1>1, PTL

(* No nonce of a peer is used for two frames while the blacklist has it.    *)
THEOREM SpentOnceHolds == Spec => []SpentOnce
<1>1. IInv => SpentOnce
  BY DEF IInv, Good, Unspent, SpentOnce
<1> QED
  BY Invariance, <1>1, PTL

(* The lookup by identifier finds the nonce that is meant, unless a reply   *)
(* nonce and one reported before it share the identifier.                   *)
THEOREM LookupFindsHolds == Spec => []LookupFinds
<1>1. ASSUME IInv PROVE LookupFinds
  <2>1. SUFFICES ASSUME NEW i \in Slots, Lives(table, i), table[i].src \in Locals
                 PROVE  \E j \in get_nonce(table, table[i].src, table[i].dst, table[i].nonce.id) :
                          \/ j = i
                          \/ \E k \in {i, j}, m \in {i, j} :
                               /\ table[k].reply /\ ~table[m].reply
                               /\ table[m].nonce.no < table[k].nonce.no
    BY DEF LookupFinds
  <2>2. i \in Matching(table, table[i].src, table[i].dst, table[i].nonce.id)
    BY <2>1 DEF Matching, Live
  <2>3. Matching(table, table[i].src, table[i].dst, table[i].nonce.id) \in SUBSET Slots
    BY DEF Matching, Live
  <2>4. PICK j \in get_nonce(table, table[i].src, table[i].dst, table[i].nonce.id) : TRUE
    BY <2>2, <2>3, FirstExists DEF get_nonce
  <2>5. /\ j \in Slots /\ Lives(table, j) /\ table[j].src = table[i].src
        /\ table[j].dst = table[i].dst /\ table[j].nonce.id = table[i].nonce.id
    BY <2>4 DEF get_nonce, Firsts, Matching, Live
  <2>6. OneReply(table) /\ Unique(table) /\ Later(table)
    BY <1>1 DEF IInv, Good
  <2>7. ASSUME j # i
        PROVE  (table[i].reply /\ ~table[j].reply) \/ (table[j].reply /\ ~table[i].reply)
    <3>1. ~(table[i].reply /\ table[j].reply)
      BY <2>1, <2>5, <2>6, <2>7 DEF OneReply
    <3>2. table[i].reply \/ table[j].reply
      BY <2>1, <2>5, <2>6, <2>7 DEF Unique
    <3> QED
      BY <3>1, <3>2
  <2>8. CASE table[i].reply /\ ~table[j].reply
    <3>1. table[j].nonce.no < table[i].nonce.no
      BY <2>1, <2>5, <2>6, <2>8 DEF Later
    <3> QED
      BY <2>4, <2>8, <3>1
  <2>9. CASE table[j].reply /\ ~table[i].reply
    <3>1. table[i].nonce.no < table[j].nonce.no
      BY <2>1, <2>5, <2>6, <2>9 DEF Later
    <3> QED
      BY <2>4, <2>9, <3>1
  <2> QED
    BY <2>4, <2>7, <2>8, <2>9
<1> QED
  BY Invariance, <1>1, PTL
=============================================================================
