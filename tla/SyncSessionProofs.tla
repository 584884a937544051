------------------------- MODULE SyncSessionProofs -------------------------
(***************************************************************************)
(* The theorems of SyncSession: IInv is inductive, so the safety           *)
(* properties of device sync hold for every set of devices, rows, links,   *)
(* overlapping sessions, clocks and batch ends, and SyncSession implements *)
(* VersionedReplicas.                                                      *)
(***************************************************************************)
EXTENDS SyncInvariantProofs

-----------------------------------------------------------------------------
(* The initial state *)

LEMMA NoSessionFacts ==
  /\ NoBatch \in Batch /\ NoSession \in Session
  /\ \A c, s \in Store, V \in SUBSET Version : SessionInv(c, s, V, NoSession)
<1>1. NoBatch \in Batch
  BY DEF NoBatch, Batch, Record
<1>2. NoSession \in Session
  BY <1>1 DEF NoSession, Session, ClientStage, ServerStage
<1>3. ASSUME NEW c \in Store, NEW s \in Store, NEW V \in SUBSET Version
      PROVE  SessionInv(c, s, V, NoSession)
  <2>1. BatchFrom(NoBatch, V)
    BY DEF BatchFrom, NoBatch, NoRecord, Known
  <2>2. \A t, u \in Store : HasUpTo(t, u, 0) /\ Delivers(t, u, NoBatch)
    <3>1. ASSUME NEW t \in Store, NEW u \in Store
          PROVE  0 <= u.seq /\ \A k \in Key : ~(Known(u.rec[k]) /\ u.rec[k].seq <= 0)
      BY RowFacts DEF Store, Known
    <3> QED BY <3>1 DEF HasUpTo, Delivers, NoBatch
  <2>3. ~PushTaken(NoSession) /\ ~ReplyTaken(NoSession)
    BY DEF PushTaken, ReplyTaken, NoSession
  <2> QED BY <2>1, <2>2, <2>3 DEF SessionInv, NoSession
<1> QED BY <1>1, <1>2, <1>3

LEMMA NothingUpTo0 ==
  ASSUME NEW s \in Store, NEW t \in Store
  PROVE  HasUpTo(s, t, 0)
BY NoSessionFacts DEF SessionInv, NoSession

LEMMA InitFacts == Init => IInv
<1> SUFFICES ASSUME Init PROVE IInv
  OBVIOUS
<1> USE SyncRecordsAssumption, SyncSessionAssumption
<1>1. FirstRecord \in Record /\ NoRecord \in Record
  BY DEF FirstRecord, Record, Content
<1>2. \A d \in Device : InitStore(d) \in Store
  <2>1. ASSUME NEW d \in Device PROVE InitStore(d) \in Store
    <3>1. InitStore(d).live \in [Key -> Content]
      BY DEF InitStore, Content
    <3>2. InitStore(d).rec \in [Key -> Record]
      BY <1>1 DEF InitStore
    <3>3. /\ InitStore(d).hlc \in Nat /\ InitStore(d).seq \in Nat
          /\ InitStore(d).chosen \in BOOLEAN /\ InitStore(d).quar \subseteq Version
      BY DEF InitStore
    <3>4. InitStore(d) = [live |-> InitStore(d).live, chosen |-> InitStore(d).chosen,
                          rec |-> InitStore(d).rec, hlc |-> InitStore(d).hlc,
                          seq |-> InitStore(d).seq, quar |-> InitStore(d).quar]
      BY DEF InitStore
    <3> QED BY <3>1, <3>2, <3>3, <3>4 DEF Store
  <2> QED BY <2>1
<1>3. db \in [Device -> Store] /\ \A d \in Device : db[d] = InitStore(d)
  BY <1>2 DEF Init
<1>4. issued \subseteq Version
  BY DEF Init, FirstRecord, VersionOf, Version, Content
<1>5. TypeOK
  <2>1. peer \in [Device -> [Device -> [paired : BOOLEAN, pulled : Nat, pushed : Nat]]]
    BY DEF Init
  <2>2. sess \in [Link -> [Slot -> Session]]
    BY NoSessionFacts DEF Init
  <2>3. unseen \in [Device -> BOOLEAN] /\ edits \in Nat /\ faults \in Nat
    BY DEF Init
  <2> QED BY <1>3, <1>4, <2>1, <2>2, <2>3 DEF TypeOK
<1>6. World(db, issued)
  <2>1. StampsDistinct(issued)
    BY DEF Init, StampsDistinct
  <2>2. ASSUME NEW d \in Device PROVE StoreInv(db[d], issued)
    <3>1. /\ db[d].rec = [k \in Key |-> IF k = Account THEN FirstRecord ELSE NoRecord]
          /\ db[d].seq = 1 /\ db[d].hlc \in {1, 2}
      <4>1. db[d] = InitStore(d)
        BY <1>3
      <4> QED BY <4>1 DEF InitStore
    <3>2. VersionOf(Account, FirstRecord) \in issued
      BY DEF Init
    <3>3. /\ FirstRecord.seq = 1 /\ FirstRecord.hlc = 1 /\ FirstRecord.val # NoValue
          /\ NoRecord.seq = 0 /\ NoRecord.hlc = 0
      BY DEF FirstRecord, NoRecord
    <3>4. \A k \in Key : db[d].rec[k] = IF k = Account THEN FirstRecord ELSE NoRecord
      BY <3>1
    <3>5. ASSUME NEW k \in Key
          PROVE  /\ db[d].rec[k].seq <= db[d].seq /\ db[d].rec[k].hlc <= db[d].hlc
                 /\ Known(db[d].rec[k]) => VersionOf(k, db[d].rec[k]) \in issued
                 /\ ~Tombstone(db[d].rec[k])
      BY <3>1, <3>2, <3>3, <3>4 DEF Known, Tombstone
    <3> QED BY <3>5 DEF StoreInv
  <2>3. ASSUME NEW v \in issued
        PROVE  v.hlc <= db[v.dev].hlc /\ ~Wins(v.key, v, db[v.dev].rec[v.key])
    <3>1. v = VersionOf(Account, FirstRecord)
      BY DEF Init
    <3>2. v.key = Account /\ v.hlc = 1 /\ v.dev = Host /\ v.val = Password0
      BY <3>1 DEF VersionOf, FirstRecord
    <3>3. db[Host].hlc = 1 /\ db[Host].rec[Account] = FirstRecord
      BY <1>3 DEF InitStore
    <3>4. Stamp(FirstRecord) /\ Known(FirstRecord)
      BY DEF FirstRecord, Stamp, Known
    <3>5. ~Wins(Account, v, FirstRecord)
      BY <3>2, <3>4, SameNeverWins DEF FirstRecord
    <3> QED BY <3>2, <3>3, <3>5
  <2> QED BY <1>3, <1>4, <2>1, <2>2, <2>3 DEF World
<1>7. Cursors
  <2>1. \A d, p \in Device : peer[d][p].pulled = 0 /\ peer[d][p].pushed = 0
    BY DEF Init
  <2> QED BY <1>3, <2>1, NothingUpTo0 DEF Cursors
<1>8. Sessions
  <2>1. \A l \in Link : l[1] \in Device /\ l[2] \in Device
    OBVIOUS
  <2>2. \A l \in Link, i \in Slot : sess[l][i] = NoSession
    BY DEF Init
  <2>3. ASSUME NEW l \in Link, NEW i \in Slot
        PROVE  SessionInv(db[l[1]], db[l[2]], issued, sess[l][i])
    <3>1. db[l[1]] \in Store /\ db[l[2]] \in Store /\ issued \in SUBSET Version
      BY <1>3, <1>4, <2>1
    <3> QED BY <3>1, <2>2, NoSessionFacts
  <2> QED BY <2>3 DEF Sessions
<1> QED BY <1>5, <1>6, <1>7, <1>8 DEF IInv

-----------------------------------------------------------------------------
(* Every step moves the databases forward in the world *)

Move == /\ World(db', issued') /\ issued \subseteq issued'
        /\ db \in [Device -> Store] /\ db' \in [Device -> Store]
        /\ \A d \in Device : Forward(db[d], db'[d])

LEMMA StayMove ==
  ASSUME IInv, UNCHANGED <<db, issued>>
  PROVE  Move
BY ForwardReflexive DEF IInv, World, Move

\* One database replaced by one that is further on.
LEMMA OneMove ==
  ASSUME IInv, NEW d \in Device, NEW t \in Store, Forward(db[d], t),
         db' = [db EXCEPT ![d] = t], World(db', issued'), issued \subseteq issued'
  PROVE  Move
<1>1. db \in [Device -> Store]
  BY DEF IInv, World
<1>2. db' \in [Device -> Store] /\ db'[d] = t /\ \A e \in Device \ {d} : db'[e] = db[e]
  BY <1>1
<1>3. \A e \in Device : Forward(db[e], db'[e])
  BY <1>1, <1>2, ForwardReflexive
<1> QED BY <1>1, <1>2, <1>3 DEF Move

LEMMA EditMove ==
  ASSUME IInv, NEW d \in Device, NEW k \in Key, NEW v \in Content, Edit(d, k, v),
         k \in Recovery => v = NoValue \/ ~Tombstone(db[d].rec[k])
  PROVE  Move
<1> DEFINE c == db[d].chosen \/ k \in Prefs
           t == [db[d] EXCEPT !.live = [@ EXCEPT ![k] = v], !.chosen = c]
<1>1. World(db, issued) /\ db \in [Device -> Store] /\ c \in BOOLEAN
  BY DEF IInv, World, Store
<1>2. db' = [db EXCEPT ![d] = t] /\ issued' = issued
  BY <1>1 DEF Edit
<1>3. /\ t \in Store /\ Forward(db[d], t)
      /\ World([db EXCEPT ![d] = t], issued)
  <2> HIDE DEF c
  <2> QED BY <1>1, EditWorld
<1>4. World(db', issued')
  <2> HIDE DEF t
  <2> QED BY <1>2, <1>3
<1> HIDE DEF t
<1> QED BY <1>2, <1>3, <1>4, OneMove

LEMMA ScanOfMove ==
  ASSUME IInv, NEW d \in Device, NEW now \in Nat, ScanOf(d, now)
  PROVE  Move
<1> DEFINE t == Scan(db[d], d, now)
           V2 == issued \cup Stamped(db[d], d, now)
<1>1. World(db, issued) /\ db' = [db EXCEPT ![d] = t] /\ issued' = V2
  BY DEF IInv, ScanOf
<1>2. t \in Store /\ Forward(db[d], t) /\ World([db EXCEPT ![d] = t], V2)
  <2>1. t = Scan(db[d], d, now) /\ V2 = issued \cup Stamped(db[d], d, now)
    OBVIOUS
  <2> HIDE DEF t, V2
  <2> QED BY <1>1, <2>1, ScanWorld
<1> HIDE DEF t, V2
<1>3. World(db', issued')
  BY <1>1, <1>2
<1>4. issued \subseteq issued'
  BY <1>1 DEF V2
<1> QED BY <1>1, <1>2, <1>3, <1>4, OneMove

\* Both halves of the write transaction of apply_batch.
LEMMA ApplyFacts2 ==
  ASSUME IInv, NEW d \in Device, NEW now \in Nat, NEW b \in Batch, BatchFrom(b, issued),
         NEW t, t = Scan(db[d], d, now), NEW u, u = ApplyScanned(t, d, b, now),
         NEW V2, V2 = issued \cup Stamped(db[d], d, now)
  PROVE  /\ t \in Store /\ Forward(db[d], t)
         /\ u \in Store /\ Forward(t, u) /\ Forward(db[d], u)
         /\ World([db EXCEPT ![d] = u], V2)
         /\ \A k \in Key : Known(b.recs[k]) => Covers(u, k, b.recs[k])
<1> DEFINE D == [db EXCEPT ![d] = t]
<1>1. World(db, issued) /\ db \in [Device -> Store] /\ db[d] \in Store
  BY DEF IInv, World
<1>2. t \in Store /\ Forward(db[d], t) /\ World(D, V2)
  <2>1. t \in Store /\ Forward(db[d], t)
    BY <1>1, ScanWorld
  <2>2. World([db EXCEPT ![d] = t], V2)
    BY <1>1, ScanWorld
  <2> QED BY <2>1, <2>2
<1>3. D[d] = t /\ [D EXCEPT ![d] = u] = [db EXCEPT ![d] = u]
  BY <1>1
<1>4. BatchFrom(b, V2)
  BY DEF BatchFrom
<1> HIDE DEF D
<1>5. /\ u \in Store /\ Forward(t, u) /\ World([D EXCEPT ![d] = u], V2)
      /\ \A k \in Key : Known(b.recs[k]) => Covers(u, k, b.recs[k])
  <2>1. u = ApplyScanned(D[d], d, b, now)
    BY <1>3
  <2> QED BY <1>2, <1>3, <1>4, <2>1, ApplyWorld
<1>6. Forward(db[d], u)
  BY <1>1, <1>2, <1>5, ForwardTransitive
<1> QED BY <1>2, <1>3, <1>5, <1>6

LEMMA ApplyOfMove ==
  ASSUME IInv, NEW d \in Device, NEW now \in Nat, NEW b \in Batch, BatchFrom(b, issued),
         ApplyOf(d, b, now)
  PROVE  /\ Move /\ unseen' \in [Device -> BOOLEAN]
         /\ \A k \in Key : Known(b.recs[k]) => Covers(db'[d], k, b.recs[k])
<1> DEFINE t == Scan(db[d], d, now)
           u == ApplyScanned(t, d, b, now)
           V2 == issued \cup Stamped(db[d], d, now)
<1>1. /\ db' = [db EXCEPT ![d] = u] /\ issued' = V2 /\ db \in [Device -> Store]
  BY DEF ApplyOf, Apply, IInv, World
<1>2. /\ u \in Store /\ Forward(db[d], u)
      /\ World([db EXCEPT ![d] = u], V2)
      /\ \A k \in Key : Known(b.recs[k]) => Covers(u, k, b.recs[k])
  <2> HIDE DEF t, u, V2
  <2> QED BY ApplyFacts2 DEF t, u, V2
<1>3. issued \subseteq V2
  OBVIOUS
<1> HIDE DEF u, V2
<1>4. Move
  <2>1. World(db', issued') /\ issued \subseteq issued'
    BY <1>1, <1>2, <1>3
  <2> QED BY <1>1, <1>2, <2>1, OneMove
<1>5. unseen' \in [Device -> BOOLEAN]
  BY DEF ApplyOf, IInv, TypeOK, AppliesAny
<1>6. db'[d] = u
  BY <1>1
<1> QED BY <1>2, <1>4, <1>5, <1>6

-----------------------------------------------------------------------------
(* What a move leaves of cursors and sessions *)

LEMMA CursorsKept ==
  ASSUME IInv, Move, NEW d \in Device, NEW p \in Device
  PROVE  /\ HasUpTo(db'[d], db'[p], peer[d][p].pulled)
         /\ HasUpTo(db'[p], db'[d], peer[d][p].pushed)
<1>1. peer[d][p].pulled \in Nat /\ peer[d][p].pushed \in Nat
  BY DEF IInv, TypeOK
<1>2. /\ HasUpTo(db[d], db[p], peer[d][p].pulled)
      /\ HasUpTo(db[p], db[d], peer[d][p].pushed)
  BY DEF IInv, Cursors
<1>3. /\ db[d] \in Store /\ db[p] \in Store /\ db'[d] \in Store /\ db'[p] \in Store
      /\ Forward(db[d], db'[d]) /\ Forward(db[p], db'[p])
  BY DEF Move
<1> QED BY <1>1, <1>2, <1>3, HasUpToForward

LEMMA SessionKept ==
  ASSUME IInv, Move, NEW l \in Link, NEW i \in Slot
  PROVE  /\ l[1] \in Device /\ l[2] \in Device /\ l[1] # l[2]
         /\ sess[l][i] \in Session
         /\ SessionInv(db[l[1]], db[l[2]], issued, sess[l][i])
         /\ SessionInv(db'[l[1]], db'[l[2]], issued', sess[l][i])
<1>1. l[1] \in Device /\ l[2] \in Device /\ l[1] # l[2]
  BY SyncSessionAssumption
<1>2. sess[l][i] \in Session
  BY DEF IInv, TypeOK
<1>3. SessionInv(db[l[1]], db[l[2]], issued, sess[l][i])
  BY DEF IInv, Sessions
<1>4. /\ db[l[1]] \in Store /\ db[l[2]] \in Store /\ db'[l[1]] \in Store /\ db'[l[2]] \in Store
      /\ Forward(db[l[1]], db'[l[1]]) /\ Forward(db[l[2]], db'[l[2]])
      /\ issued \subseteq issued'
  BY <1>1 DEF Move
<1> QED BY <1>1, <1>2, <1>3, <1>4, SessionForward

\* A session that changes only where its sides are, and not past what it has
\* handed over.
LEMMA SessionChange ==
  ASSUME NEW c, NEW s, NEW V, NEW x, NEW y, SessionInv(c, s, V, x),
         y.push = x.push, y.reply = x.reply, y.since = x.since, y.base = x.base,
         PushTaken(y) => PushTaken(x), ReplyTaken(y) => ReplyTaken(x)
  PROVE  SessionInv(c, s, V, y)
BY DEF SessionInv

LEMMA TidyFacts ==
  ASSUME NEW c \in Store, NEW s \in Store, NEW V \in SUBSET Version,
         NEW x \in Session, SessionInv(c, s, V, x)
  PROVE  Tidy(x) \in Session /\ SessionInv(c, s, V, Tidy(x))
BY NoSessionFacts DEF Tidy

\* A step that sets one session of one link.
LEMMA SetSessionKeeps ==
  ASSUME IInv, Move, NEW l \in Link, NEW i \in Slot, NEW x \in Session,
         SetSession(l, i, x), SessionInv(db'[l[1]], db'[l[2]], issued', x)
  PROVE  sess' \in [Link -> [Slot -> Session]] /\ Sessions'
<1>1. l[1] \in Device /\ l[2] \in Device
  BY SessionKept
<1>2. db'[l[1]] \in Store /\ db'[l[2]] \in Store /\ issued' \in SUBSET Version
  BY <1>1 DEF Move, World
<1>3. Tidy(x) \in Session /\ SessionInv(db'[l[1]], db'[l[2]], issued', Tidy(x))
  BY <1>2, TidyFacts
<1>4. sess \in [Link -> [Slot -> Session]]
  BY DEF IInv, TypeOK
<1>5. /\ sess' \in [Link -> [Slot -> Session]]
      /\ sess'[l][i] = Tidy(x)
      /\ \A m \in Link, j \in Slot : <<m, j>> # <<l, i>> => sess'[m][j] = sess[m][j]
  BY <1>3, <1>4 DEF SetSession
<1>6. ASSUME NEW m \in Link, NEW j \in Slot
      PROVE  SessionInv(db'[m[1]], db'[m[2]], issued', sess'[m][j])
  <2>1. CASE m = l /\ j = i
    BY <2>1, <1>3, <1>5
  <2>2. CASE ~(m = l /\ j = i)
    <3>1. sess'[m][j] = sess[m][j]
      BY <2>2, <1>5
    <3> QED BY <3>1, SessionKept
  <2> QED BY <2>1, <2>2
<1> QED BY <1>5, <1>6 DEF Sessions

-----------------------------------------------------------------------------
(* The steps *)

LEMMA SamePeer ==
  ASSUME IInv, Move, peer' = peer
  PROVE  Cursors'
BY CursorsKept DEF Cursors

LEMMA SameSessions ==
  ASSUME IInv, Move, sess' = sess
  PROVE  Sessions'
BY SessionKept DEF Sessions

PeerType == peer \in [Device -> [Device -> [paired : BOOLEAN, pulled : Nat, pushed : Nat]]]

LEMMA AckPullKeeps ==
  ASSUME IInv, Move, NEW d \in Device, NEW p \in Device, NEW n \in Nat,
         HasUpTo(db'[d], db'[p], n), AckPull(d, p, n)
  PROVE  PeerType' /\ Cursors'
<1>1. peer \in [Device -> [Device -> [paired : BOOLEAN, pulled : Nat, pushed : Nat]]]
  BY DEF IInv, TypeOK
<1>2. CASE peer' = peer
  BY <1>1, <1>2, SamePeer DEF PeerType
<1>3. CASE peer' = [peer EXCEPT ![d][p].pulled = n]
  <2>1. PeerType'
    <3> DEFINE R == [paired : BOOLEAN, pulled : Nat, pushed : Nat]
               row == [peer[d][p] EXCEPT !.pulled = n]
    <3>1. peer[d] \in [Device -> R] /\ row \in R
      BY <1>1
    <3>2. peer' = [peer EXCEPT ![d] = [peer[d] EXCEPT ![p] = row]]
      BY <1>3
    <3> HIDE DEF row, R
    <3>3. [peer[d] EXCEPT ![p] = row] \in [Device -> R]
      BY <3>1
    <3> QED BY <1>1, <3>2, <3>3 DEF PeerType, R
  <2>2. \A e, q \in Device : /\ peer'[e][q].pushed = peer[e][q].pushed
                            /\ \/ peer'[e][q].pulled = peer[e][q].pulled
                               \/ e = d /\ q = p /\ peer'[e][q].pulled = n
    BY <1>1, <1>3
  <2> QED BY <2>1, <2>2, CursorsKept DEF Cursors
<1> QED BY <1>2, <1>3 DEF AckPull

LEMMA AckPushKeeps ==
  ASSUME IInv, Move, NEW d \in Device, NEW p \in Device, NEW n \in Nat,
         HasUpTo(db'[p], db'[d], n), AckPush(d, p, n)
  PROVE  PeerType' /\ Cursors'
<1>1. peer \in [Device -> [Device -> [paired : BOOLEAN, pulled : Nat, pushed : Nat]]]
  BY DEF IInv, TypeOK
<1>2. CASE peer' = peer
  BY <1>1, <1>2, SamePeer DEF PeerType
<1>3. CASE peer' = [peer EXCEPT ![d][p].pushed = n]
  <2>1. PeerType'
    <3> DEFINE R == [paired : BOOLEAN, pulled : Nat, pushed : Nat]
               row == [peer[d][p] EXCEPT !.pushed = n]
    <3>1. peer[d] \in [Device -> R] /\ row \in R
      BY <1>1
    <3>2. peer' = [peer EXCEPT ![d] = [peer[d] EXCEPT ![p] = row]]
      BY <1>3
    <3> HIDE DEF row, R
    <3>3. [peer[d] EXCEPT ![p] = row] \in [Device -> R]
      BY <3>1
    <3> QED BY <1>1, <3>2, <3>3 DEF PeerType, R
  <2>2. \A e, q \in Device : /\ peer'[e][q].pulled = peer[e][q].pulled
                            /\ \/ peer'[e][q].pushed = peer[e][q].pushed
                               \/ e = d /\ q = p /\ peer'[e][q].pushed = n
    BY <1>1, <1>3
  <2> QED BY <2>1, <2>2, CursorsKept DEF Cursors
<1> QED BY <1>2, <1>3 DEF AckPush

\* What a step has to keep besides the world.
LEMMA StepKeeps ==
  ASSUME IInv, Move, PeerType', Cursors',
         sess' \in [Link -> [Slot -> Session]], Sessions',
         unseen' \in [Device -> BOOLEAN], edits' \in Nat, faults' \in Nat
  PROVE  IInv'
BY DEF IInv, TypeOK, PeerType, Move, World

LEMMA TypeFacts ==
  ASSUME IInv
  PROVE  /\ PeerType /\ sess \in [Link -> [Slot -> Session]]
         /\ unseen \in [Device -> BOOLEAN] /\ edits \in Nat /\ faults \in Nat
         /\ db \in [Device -> Store] /\ issued \subseteq Version
BY DEF IInv, TypeOK, PeerType

LEMMA SamePeerType == ASSUME PeerType, peer' = peer PROVE PeerType'
BY DEF PeerType

\* An edit of the planner rewrites one row, never one of a used recovery code.
SafeEdit(d, k, v) ==
  Edit(d, k, v) /\ (k \in Recovery => v = NoValue \/ ~Tombstone(db[d].rec[k]))

LEMMA LocalEditIsSafe ==
  ASSUME IInv, LocalEdit
  PROVE  \E d \in Device, k \in Key, v \in Content : SafeEdit(d, k, v)
<1> USE DEF SafeEdit
<1>1. PICK d \in Device, k \in Key :
        \/ \E v \in Content : SaveItem(d, k, v) \/ SavePreference(d, k, v)
        \/ \E v \in Value : k = Account /\ ChangePassword(d, v)
        \/ IssueCode(d, k) \/ UseCode(d, k)
  BY DEF LocalEdit
<1>2. NoValue \in Content /\ CodeBody \in Content /\ Value \subseteq Content
  BY SyncSessionAssumption DEF Content
<1>3. CASE \E v \in Content : SaveItem(d, k, v)
  BY <1>3 DEF SaveItem
<1>4. CASE \E v \in Content : SavePreference(d, k, v)
  BY <1>4, SyncRecordsAssumption DEF SavePreference
<1>5. CASE \E v \in Value : k = Account /\ ChangePassword(d, v)
  BY <1>2, <1>5, SyncRecordsAssumption DEF ChangePassword
<1>6. CASE IssueCode(d, k)
  <2>1. Edit(d, k, CodeBody) /\ \A v \in issued : v.key # k
    BY <1>6 DEF IssueCode
  <2>2. Known(db[d].rec[k]) => VersionOf(k, db[d].rec[k]) \in issued
    BY DEF IInv, World, StoreInv
  <2>3. ~Tombstone(db[d].rec[k])
    BY <2>1, <2>2 DEF Tombstone, VersionOf
  <2> QED BY <1>2, <2>1, <2>3
<1>7. CASE UseCode(d, k)
  BY <1>2, <1>7 DEF UseCode
<1> QED BY <1>1, <1>3, <1>4, <1>5, <1>6, <1>7

LEMMA LocalEditStep == IInv /\ LocalEdit => IInv'
<1> SUFFICES ASSUME IInv, LocalEdit PROVE IInv'
  OBVIOUS
<1>1. PICK d \in Device, k \in Key, v \in Content : SafeEdit(d, k, v)
  BY LocalEditIsSafe
<1>2. Move
  BY <1>1, EditMove DEF SafeEdit
<1>3. UNCHANGED <<peer, sess, unseen, faults>> /\ edits' = edits + 1
  BY <1>1 DEF Edit, SafeEdit
<1> QED BY <1>2, <1>3, TypeFacts, SamePeerType, SamePeer, SameSessions, StepKeeps

LEMMA ScanNowStep ==
  ASSUME IInv, NEW d \in Device, NEW now \in Clock, ScanNow(d, now)
  PROVE  IInv'
<1>1. now \in Nat
  BY SyncSessionAssumption
<1>2. Move
  BY <1>1, ScanOfMove DEF ScanNow
<1>3. UNCHANGED <<peer, sess, unseen, edits, faults>>
  BY DEF ScanNow
<1> QED BY <1>2, <1>3, TypeFacts, SamePeerType, SamePeer, SameSessions, StepKeeps

\* A step that leaves the cursors alone and sets one session to y.
LEMMA SessionStep ==
  ASSUME IInv, Move, peer' = peer, NEW l \in Link, NEW i \in Slot, NEW y \in Session,
         SetSession(l, i, y), SessionInv(db'[l[1]], db'[l[2]], issued', y),
         unseen' \in [Device -> BOOLEAN], edits' \in Nat, faults' \in Nat
  PROVE  IInv'
BY TypeFacts, SamePeerType, SamePeer, SetSessionKeeps, StepKeeps

\* A session x that moves on to y with what it holds.
LEMMA StageStep ==
  ASSUME IInv, Move, peer' = peer, NEW l \in Link, NEW i \in Slot, NEW y \in Session,
         SetSession(l, i, y),
         y.push = sess[l][i].push, y.reply = sess[l][i].reply,
         y.since = sess[l][i].since, y.base = sess[l][i].base,
         PushTaken(y) => PushTaken(sess[l][i]), ReplyTaken(y) => ReplyTaken(sess[l][i]),
         unseen' \in [Device -> BOOLEAN], edits' \in Nat, faults' \in Nat
  PROVE  IInv'
<1>1. SessionInv(db'[l[1]], db'[l[2]], issued', sess[l][i])
  BY SessionKept
<1>2. SessionInv(db'[l[1]], db'[l[2]], issued', y)
  BY <1>1, SessionChange
<1> QED BY <1>2, SessionStep

LEMMA ClientScanStep ==
  ASSUME IInv, NEW l \in Link, NEW i \in Slot, NEW now \in Clock, ClientScan(l, i, now)
  PROVE  IInv'
<1> DEFINE c == l[1]
           s == l[2]
           y == [NoSession EXCEPT !.client = "export", !.since = peer[c][s].pulled,
                                  !.base = peer[c][s].pushed]
<1>1. c \in Device /\ s \in Device /\ now \in Nat
  BY SyncSessionAssumption
<1>2. Move
  BY <1>1, ScanOfMove DEF ClientScan
<1>3. peer[c][s].pulled \in Nat /\ peer[c][s].pushed \in Nat
  BY <1>1, TypeFacts DEF PeerType
<1>4. y \in Session
  BY <1>3, NoSessionFacts DEF Session, ClientStage
<1>5. SessionInv(db'[c], db'[s], issued', y)
  <2>1. SessionInv(db'[c], db'[s], issued', NoSession)
    BY <1>1, <1>2, NoSessionFacts DEF Move, World
  <2>2. HasUpTo(db'[s], db'[c], peer[c][s].pushed) /\ HasUpTo(db'[c], db'[s], peer[c][s].pulled)
    BY <1>1, <1>2, CursorsKept
  <2>3. /\ y.push = NoSession.push /\ y.reply = NoSession.reply
        /\ y.base = peer[c][s].pushed /\ y.since = peer[c][s].pulled
        /\ ~PushTaken(y) /\ ~ReplyTaken(y)
    BY DEF NoSession, PushTaken, ReplyTaken
  <2> QED BY <2>1, <2>2, <2>3 DEF SessionInv
<1>6. SetSession(l, i, y) /\ UNCHANGED <<peer, unseen, edits, faults>>
  BY DEF ClientScan
<1> HIDE DEF y
<1> QED BY <1>2, <1>4, <1>5, <1>6, TypeFacts, SessionStep

LEMMA ClientExportStep ==
  ASSUME IInv, NEW l \in Link, NEW i \in Slot, NEW cut \in BatchSizes, ClientExport(l, i, cut)
  PROVE  IInv'
<1> DEFINE x == sess[l][i]
           b == Export(db[l[1]], x.base, l[2], cut)
<1>1. /\ Move /\ peer' = peer /\ db' = db /\ issued' = issued
      /\ unseen' = unseen /\ edits' = edits /\ faults' = faults
  BY StayMove DEF ClientExport
<1>2. /\ l[1] \in Device /\ l[2] \in Device /\ x \in Session
      /\ SessionInv(db'[l[1]], db'[l[2]], issued', x)
  BY <1>1, SessionKept
<1>3. CASE ~ExportStale(db[l[1]], x.base, l[2], cut)
  <2> DEFINE y == [x EXCEPT !.client = "wait", !.server = "request", !.push = b]
  <2>1. SetSession(l, i, y)
    BY <1>3 DEF ClientExport
  <2>2. b \in Batch /\ BatchFrom(b, issued) /\ Delivers(db[l[2]], db[l[1]], b)
    <3>1. World(db, issued) /\ x.base \in Nat /\ cut \in Nat
      BY <1>2, SyncSessionAssumption DEF IInv, Session
    <3>2. HasUpTo(db[l[2]], db[l[1]], x.base)
      BY <1>1, <1>2 DEF SessionInv
    <3> HIDE DEF x
    <3> QED BY <1>2, <3>1, <3>2, ExportDelivers
  <2>3. y \in Session
    BY <1>2, <2>2 DEF Session, ClientStage, ServerStage
  <2>4. /\ y.push = b /\ y.reply = x.reply /\ y.since = x.since /\ y.base = x.base
        /\ ~PushTaken(y) /\ ~ReplyTaken(y)
    BY <1>2 DEF Session, PushTaken, ReplyTaken
  <2> HIDE DEF b, y
  <2>5. SessionInv(db'[l[1]], db'[l[2]], issued', y)
    BY <1>1, <1>2, <2>2, <2>4 DEF SessionInv
  <2> QED BY <1>1, <2>1, <2>3, <2>5, TypeFacts, SessionStep
<1>4. CASE ExportStale(db[l[1]], x.base, l[2], cut)
  <2> DEFINE y == [x EXCEPT !.client = IF x.client = "export" THEN "rescan" ELSE "idle"]
  <2>1. SetSession(l, i, y)
    BY <1>4 DEF ClientExport
  <2>2. /\ y \in Session /\ y.push = x.push /\ y.reply = x.reply
        /\ y.since = x.since /\ y.base = x.base
        /\ (PushTaken(y) => PushTaken(x)) /\ ~ReplyTaken(y)
    BY <1>2 DEF Session, ClientStage, PushTaken, ReplyTaken
  <2> HIDE DEF y
  <2> QED BY <1>1, <2>1, <2>2, TypeFacts, StageStep
<1> QED BY <1>3, <1>4

LEMMA ClientRescanStep ==
  ASSUME IInv, NEW l \in Link, NEW i \in Slot, NEW now \in Clock, ClientRescan(l, i, now)
  PROVE  IInv'
<1> DEFINE x == sess[l][i]
           y == [x EXCEPT !.client = "reexport"]
<1>1. l[1] \in Device /\ now \in Nat /\ x \in Session /\ x.client = "rescan"
  BY SyncSessionAssumption, TypeFacts DEF ClientRescan
<1>2. Move /\ SetSession(l, i, y) /\ UNCHANGED <<peer, unseen, edits, faults>>
  BY <1>1, ScanOfMove DEF ClientRescan
<1>3. /\ y \in Session /\ y.push = x.push /\ y.reply = x.reply
      /\ y.since = x.since /\ y.base = x.base
      /\ (PushTaken(y) => PushTaken(x)) /\ ~ReplyTaken(y)
  BY <1>1 DEF Session, ClientStage, PushTaken, ReplyTaken
<1> HIDE DEF y
<1> QED BY <1>2, <1>3, TypeFacts, StageStep

LEMMA ClientReceiveStep ==
  ASSUME IInv, NEW l \in Link, NEW i \in Slot, ClientReceive(l, i)
  PROVE  IInv'
<1> DEFINE x == sess[l][i]
           y == [x EXCEPT !.server = "none",
                          !.client = IF x.reply.next < x.since THEN "idle" ELSE "apply"]
<1>1. x \in Session /\ x.server = "reply"
  BY TypeFacts DEF ClientReceive
<1>2. Move /\ SetSession(l, i, y) /\ UNCHANGED <<peer, unseen, edits, faults>>
  BY StayMove DEF ClientReceive
<1>3. /\ y \in Session /\ y.push = x.push /\ y.reply = x.reply
      /\ y.since = x.since /\ y.base = x.base
      /\ PushTaken(x) /\ ~ReplyTaken(y)
  BY <1>1 DEF Session, ClientStage, ServerStage, PushTaken, ReplyTaken
<1> HIDE DEF y
<1> QED BY <1>2, <1>3, TypeFacts, StageStep

LEMMA ClientApplyStep ==
  ASSUME IInv, NEW l \in Link, NEW i \in Slot, NEW now \in Clock, ClientApply(l, i, now)
  PROVE  IInv'
<1> DEFINE x == sess[l][i]
           b == x.reply
           y == [x EXCEPT !.client = "ackPull",
                          !.clientApplied = AppliesAny(db[l[1]], l[1], b, now)]
<1>1. /\ l[1] \in Device /\ l[2] \in Device /\ now \in Nat
      /\ x \in Session /\ x.client = "apply" /\ b \in Batch
      /\ BatchFrom(b, issued)
      /\ SessionInv(db[l[1]], db[l[2]], issued, x)
  BY SyncSessionAssumption, TypeFacts DEF ClientApply, IInv, Sessions, SessionInv, Session
<1>2. /\ ApplyOf(l[1], b, now) /\ SetSession(l, i, y)
      /\ UNCHANGED <<peer, edits, faults>>
  BY DEF ClientApply
<1>3. /\ Move /\ unseen' \in [Device -> BOOLEAN]
      /\ \A k \in Key : Known(b.recs[k]) => Covers(db'[l[1]], k, b.recs[k])
  BY <1>1, <1>2, ApplyOfMove
<1>4. /\ y \in Session /\ y.push = x.push /\ y.reply = x.reply
      /\ y.since = x.since /\ y.base = x.base /\ PushTaken(x)
  BY <1>1 DEF Session, ClientStage, PushTaken, AppliesAny
<1>5. SessionInv(db'[l[1]], db'[l[2]], issued', x)
  BY <1>3, SessionKept
<1>6. HasUpTo(db'[l[1]], db'[l[2]], b.next)
  <2>1. /\ db[l[1]] \in Store /\ db'[l[1]] \in Store /\ db'[l[2]] \in Store
        /\ Forward(db'[l[1]], db'[l[1]])
    BY <1>1, <1>3, ForwardReflexive DEF Move
  <2>2. Delivers(db'[l[1]], db'[l[2]], b)
    BY <1>5 DEF SessionInv
  <2> HIDE DEF b
  <2> QED BY <2>1, <2>2, <1>3, ApplyDelivers
<1> HIDE DEF y
<1>7. SessionInv(db'[l[1]], db'[l[2]], issued', y)
  BY <1>4, <1>5, <1>6 DEF SessionInv
<1> QED BY <1>2, <1>3, <1>4, <1>7, TypeFacts, SessionStep

LEMMA ClientAckPullStep ==
  ASSUME IInv, NEW l \in Link, NEW i \in Slot, ClientAckPull(l, i)
  PROVE  IInv'
<1> DEFINE x == sess[l][i]
           y == [x EXCEPT !.client = "ackPush"]
<1>1. Move /\ x \in Session /\ x.client = "ackPull"
  BY StayMove, TypeFacts DEF ClientAckPull
<1>2. /\ AckPull(l[1], l[2], x.reply.next) /\ SetSession(l, i, y)
      /\ UNCHANGED <<unseen, edits, faults>>
  BY DEF ClientAckPull
<1>3. /\ l[1] \in Device /\ l[2] \in Device
      /\ SessionInv(db'[l[1]], db'[l[2]], issued', x)
  BY <1>1, SessionKept
<1>4. /\ y \in Session /\ y.push = x.push /\ y.reply = x.reply
      /\ y.since = x.since /\ y.base = x.base /\ PushTaken(x) /\ ReplyTaken(x)
      /\ x.reply.next \in Nat
  BY <1>1 DEF Session, ClientStage, PushTaken, ReplyTaken, Batch
<1>5. PeerType' /\ Cursors'
  <2>1. HasUpTo(db'[l[1]], db'[l[2]], x.reply.next)
    BY <1>3, <1>4 DEF SessionInv
  <2> QED BY <2>1, <1>1, <1>2, <1>3, <1>4, AckPullKeeps
<1> HIDE DEF y
<1>6. SessionInv(db'[l[1]], db'[l[2]], issued', y)
  BY <1>3, <1>4, SessionChange
<1> QED BY <1>1, <1>2, <1>4, <1>5, <1>6, TypeFacts, SetSessionKeeps, StepKeeps

LEMMA ClientAckPushStep ==
  ASSUME IInv, NEW l \in Link, NEW i \in Slot, ClientAckPush(l, i)
  PROVE  IInv'
<1> DEFINE x == sess[l][i]
           y == [x EXCEPT !.client = "idle"]
<1>1. Move /\ x \in Session /\ x.client = "ackPush"
  BY StayMove, TypeFacts DEF ClientAckPush
<1>2. /\ AckPush(l[1], l[2], x.push.next) /\ SetSession(l, i, y)
      /\ UNCHANGED <<edits, faults>> /\ unseen' \in [Device -> BOOLEAN]
  BY TypeFacts DEF ClientAckPush
<1>3. /\ l[1] \in Device /\ l[2] \in Device
      /\ SessionInv(db'[l[1]], db'[l[2]], issued', x)
  BY <1>1, SessionKept
<1>4. /\ y \in Session /\ y.push = x.push /\ y.reply = x.reply
      /\ y.since = x.since /\ y.base = x.base /\ PushTaken(x) /\ ReplyTaken(x)
      /\ x.push.next \in Nat
  BY <1>1 DEF Session, ClientStage, PushTaken, ReplyTaken, Batch
<1>5. PeerType' /\ Cursors'
  <2>1. HasUpTo(db'[l[2]], db'[l[1]], x.push.next)
    BY <1>3, <1>4 DEF SessionInv
  <2> QED BY <2>1, <1>1, <1>2, <1>3, <1>4, AckPushKeeps
<1> HIDE DEF y
<1>6. SessionInv(db'[l[1]], db'[l[2]], issued', y)
  BY <1>3, <1>4, SessionChange
<1> QED BY <1>1, <1>2, <1>4, <1>5, <1>6, TypeFacts, SetSessionKeeps, StepKeeps

LEMMA ServerAcceptStep ==
  ASSUME IInv, NEW l \in Link, NEW i \in Slot, ServerAccept(l, i)
  PROVE  IInv'
<1> DEFINE x == sess[l][i]
           y == IF peer[l[2]][l[1]].paired
                THEN [x EXCEPT !.server = "apply"]
                ELSE [x EXCEPT !.server = "none", !.client = "idle"]
<1>1. x \in Session /\ x.server = "request"
  BY TypeFacts DEF ServerAccept
<1>2. Move /\ SetSession(l, i, y) /\ UNCHANGED <<peer, unseen, edits, faults>>
  BY StayMove DEF ServerAccept
<1>3. /\ y \in Session /\ y.push = x.push /\ y.reply = x.reply
      /\ y.since = x.since /\ y.base = x.base
      /\ (PushTaken(y) => PushTaken(x)) /\ (ReplyTaken(y) => ReplyTaken(x))
  BY <1>1 DEF Session, ClientStage, ServerStage, PushTaken, ReplyTaken
<1> HIDE DEF y
<1> QED BY <1>2, <1>3, TypeFacts, StageStep

LEMMA ServerApplyStep ==
  ASSUME IInv, NEW l \in Link, NEW i \in Slot, NEW now \in Clock, ServerApply(l, i, now)
  PROVE  IInv'
<1> DEFINE x == sess[l][i]
           b == x.push
           y == [x EXCEPT !.server = "ackPull",
                          !.serverApplied = AppliesAny(db[l[2]], l[2], b, now)]
<1>1. /\ l[1] \in Device /\ l[2] \in Device /\ now \in Nat
      /\ x \in Session /\ x.server = "apply" /\ b \in Batch
      /\ BatchFrom(b, issued)
  BY SyncSessionAssumption, TypeFacts DEF ServerApply, IInv, Sessions, SessionInv, Session
<1>2. /\ ApplyOf(l[2], b, now) /\ SetSession(l, i, y)
      /\ UNCHANGED <<peer, edits, faults>>
  BY DEF ServerApply
<1>3. /\ Move /\ unseen' \in [Device -> BOOLEAN]
      /\ \A k \in Key : Known(b.recs[k]) => Covers(db'[l[2]], k, b.recs[k])
  BY <1>1, <1>2, ApplyOfMove
<1>4. /\ y \in Session /\ y.push = x.push /\ y.reply = x.reply
      /\ y.since = x.since /\ y.base = x.base /\ (ReplyTaken(y) => ReplyTaken(x))
  BY <1>1 DEF Session, ServerStage, ReplyTaken, AppliesAny
<1>5. SessionInv(db'[l[1]], db'[l[2]], issued', x)
  BY <1>3, SessionKept
<1>6. HasUpTo(db'[l[2]], db'[l[1]], b.next)
  <2>1. /\ db'[l[1]] \in Store /\ db'[l[2]] \in Store
        /\ Forward(db'[l[2]], db'[l[2]])
    BY <1>1, <1>3, ForwardReflexive DEF Move
  <2>2. Delivers(db'[l[2]], db'[l[1]], b)
    BY <1>5 DEF SessionInv
  <2> HIDE DEF b
  <2> QED BY <2>1, <2>2, <1>3, ApplyDelivers
<1> HIDE DEF y
<1>7. SessionInv(db'[l[1]], db'[l[2]], issued', y)
  BY <1>4, <1>5, <1>6 DEF SessionInv
<1> QED BY <1>2, <1>3, <1>4, <1>7, TypeFacts, SessionStep

LEMMA ServerAckPullStep ==
  ASSUME IInv, NEW l \in Link, NEW i \in Slot, ServerAckPull(l, i)
  PROVE  IInv'
<1> DEFINE x == sess[l][i]
           y == [x EXCEPT !.server = "ackPush"]
<1>1. Move /\ x \in Session /\ x.server = "ackPull"
  BY StayMove, TypeFacts DEF ServerAckPull
<1>2. /\ AckPull(l[2], l[1], x.push.next) /\ SetSession(l, i, y)
      /\ UNCHANGED <<unseen, edits, faults>>
  BY DEF ServerAckPull
<1>3. /\ l[1] \in Device /\ l[2] \in Device
      /\ SessionInv(db'[l[1]], db'[l[2]], issued', x)
  BY <1>1, SessionKept
<1>4. /\ y \in Session /\ y.push = x.push /\ y.reply = x.reply
      /\ y.since = x.since /\ y.base = x.base /\ PushTaken(x)
      /\ (ReplyTaken(y) => ReplyTaken(x)) /\ x.push.next \in Nat
  BY <1>1 DEF Session, ServerStage, PushTaken, ReplyTaken, Batch
<1>5. PeerType' /\ Cursors'
  <2>1. HasUpTo(db'[l[2]], db'[l[1]], x.push.next)
    BY <1>3, <1>4 DEF SessionInv
  <2> QED BY <2>1, <1>1, <1>2, <1>3, <1>4, AckPullKeeps
<1> HIDE DEF y
<1>6. SessionInv(db'[l[1]], db'[l[2]], issued', y)
  BY <1>3, <1>4, SessionChange
<1> QED BY <1>1, <1>2, <1>4, <1>5, <1>6, TypeFacts, SetSessionKeeps, StepKeeps

LEMMA ServerAckPushStep ==
  ASSUME IInv, NEW l \in Link, NEW i \in Slot, ServerAckPush(l, i)
  PROVE  IInv'
<1> DEFINE x == sess[l][i]
           y == [x EXCEPT !.server = "scan"]
<1>1. Move /\ x \in Session /\ x.server = "ackPush"
  BY StayMove, TypeFacts DEF ServerAckPush
<1>2. /\ AckPush(l[2], l[1], x.since) /\ SetSession(l, i, y)
      /\ UNCHANGED <<unseen, edits, faults>>
  BY DEF ServerAckPush
<1>3. /\ l[1] \in Device /\ l[2] \in Device
      /\ SessionInv(db'[l[1]], db'[l[2]], issued', x)
  BY <1>1, SessionKept
<1>4. /\ y \in Session /\ y.push = x.push /\ y.reply = x.reply
      /\ y.since = x.since /\ y.base = x.base /\ PushTaken(x)
      /\ (ReplyTaken(y) => ReplyTaken(x)) /\ x.since \in Nat
  BY <1>1 DEF Session, ServerStage, PushTaken, ReplyTaken
<1>5. PeerType' /\ Cursors'
  <2>1. HasUpTo(db'[l[1]], db'[l[2]], x.since)
    BY <1>3 DEF SessionInv
  <2> QED BY <2>1, <1>1, <1>2, <1>3, <1>4, AckPushKeeps
<1> HIDE DEF y
<1>6. SessionInv(db'[l[1]], db'[l[2]], issued', y)
  BY <1>3, <1>4, SessionChange
<1> QED BY <1>1, <1>2, <1>4, <1>5, <1>6, TypeFacts, SetSessionKeeps, StepKeeps

LEMMA ServerScanStep ==
  ASSUME IInv, NEW l \in Link, NEW i \in Slot, NEW now \in Clock, ServerScan(l, i, now)
  PROVE  IInv'
<1> DEFINE x == sess[l][i]
           y == [x EXCEPT !.server = IF x.server = "scan" THEN "export" ELSE "reexport"]
<1>1. l[2] \in Device /\ now \in Nat /\ x \in Session /\ x.server \in {"scan", "rescan"}
  BY SyncSessionAssumption, TypeFacts DEF ServerScan
<1>2. Move /\ SetSession(l, i, y) /\ UNCHANGED <<peer, unseen, edits, faults>>
  BY <1>1, ScanOfMove DEF ServerScan
<1>3. /\ y \in Session /\ y.push = x.push /\ y.reply = x.reply
      /\ y.since = x.since /\ y.base = x.base
      /\ PushTaken(x) /\ (ReplyTaken(y) => ReplyTaken(x))
  BY <1>1 DEF Session, ServerStage, PushTaken, ReplyTaken
<1> HIDE DEF y
<1> QED BY <1>2, <1>3, TypeFacts, StageStep

LEMMA ServerExportStep ==
  ASSUME IInv, NEW l \in Link, NEW i \in Slot, NEW cut \in BatchSizes, ServerExport(l, i, cut)
  PROVE  IInv'
<1> DEFINE x == sess[l][i]
           b == Export(db[l[2]], x.since, l[1], cut)
           stale == ExportStale(db[l[2]], x.since, l[1], cut)
<1>1. /\ Move /\ peer' = peer /\ db' = db /\ issued' = issued
      /\ unseen' \in [Device -> BOOLEAN] /\ edits' = edits /\ faults' = faults
  BY StayMove, TypeFacts DEF ServerExport
<1>2. /\ l[1] \in Device /\ l[2] \in Device /\ x \in Session
      /\ SessionInv(db'[l[1]], db'[l[2]], issued', x)
      /\ x.server \in {"export", "reexport"} /\ PushTaken(x)
  BY <1>1, SessionKept DEF ServerExport, PushTaken
<1>3. CASE ~stale /\ x.client = "wait"
  <2> DEFINE y == [x EXCEPT !.server = "reply", !.reply = b]
  <2>1. SetSession(l, i, y)
    BY <1>3 DEF ServerExport
  <2>2. b \in Batch /\ BatchFrom(b, issued) /\ Delivers(db[l[1]], db[l[2]], b)
    <3>1. World(db, issued) /\ x.since \in Nat /\ cut \in Nat
      BY <1>2, SyncSessionAssumption DEF IInv, Session
    <3>2. HasUpTo(db[l[1]], db[l[2]], x.since)
      BY <1>1, <1>2 DEF SessionInv
    <3> HIDE DEF x
    <3> QED BY <1>2, <3>1, <3>2, ExportDelivers
  <2>3. y \in Session
    BY <1>2, <2>2 DEF Session, ServerStage
  <2>4. /\ y.push = x.push /\ y.reply = b /\ y.since = x.since /\ y.base = x.base
        /\ ~ReplyTaken(y)
    BY <1>2, <1>3 DEF Session, ReplyTaken
  <2> HIDE DEF b, y
  <2>5. SessionInv(db'[l[1]], db'[l[2]], issued', y)
    BY <1>1, <1>2, <2>2, <2>4 DEF SessionInv
  <2> QED BY <1>1, <2>1, <2>3, <2>5, TypeFacts, SessionStep
<1>4. CASE ~(~stale /\ x.client = "wait")
  <2>1. PICK y \in {[x EXCEPT !.server = "none"], [x EXCEPT !.server = "rescan"],
                    [x EXCEPT !.server = "none", !.client = "idle"]} : SetSession(l, i, y)
    BY <1>2, <1>4 DEF ServerExport
  <2>2. /\ y \in Session /\ y.push = x.push /\ y.reply = x.reply
        /\ y.since = x.since /\ y.base = x.base
        /\ (ReplyTaken(y) => ReplyTaken(x))
    BY <1>2 DEF Session, ClientStage, ServerStage, ReplyTaken
  <2> QED BY <1>1, <1>2, <2>1, <2>2, TypeFacts, StageStep
<1> QED BY <1>3, <1>4

LEMMA AbandonStep ==
  ASSUME IInv, NEW l \in Link, NEW i \in Slot, Abandon(l, i)
  PROVE  IInv'
<1> DEFINE x == sess[l][i]
           y == [x EXCEPT !.client = "idle", !.server = IF @ = "reply" THEN "none" ELSE @]
           z == [x EXCEPT !.orphan = TRUE]
<1>1. /\ Move /\ UNCHANGED <<peer, unseen, edits>> /\ faults' \in Nat /\ x \in Session
      /\ SetSession(l, i, y) \/ SetSession(l, i, z)
  BY StayMove, TypeFacts DEF Abandon, Fault
<1>2. \A w \in {y, z} :
        /\ w \in Session /\ w.push = x.push /\ w.reply = x.reply
        /\ w.since = x.since /\ w.base = x.base
        /\ (PushTaken(w) => PushTaken(x)) /\ (ReplyTaken(w) => ReplyTaken(x))
  BY <1>1 DEF Session, ClientStage, ServerStage, PushTaken, ReplyTaken
<1> HIDE DEF y, z
<1> QED BY <1>1, <1>2, TypeFacts, StageStep

LEMMA LoseStep ==
  ASSUME IInv, NEW l \in Link, NEW i \in Slot, Lose(l, i)
  PROVE  IInv'
<1> DEFINE x == sess[l][i]
           y == [x EXCEPT !.server = "none", !.client = "idle"]
<1>1. /\ Move /\ UNCHANGED <<peer, unseen, edits>> /\ faults' \in Nat /\ x \in Session
      /\ SetSession(l, i, y)
  BY StayMove, TypeFacts DEF Lose, Fault
<1>2. /\ y \in Session /\ y.push = x.push /\ y.reply = x.reply
      /\ y.since = x.since /\ y.base = x.base /\ ~PushTaken(y) /\ ~ReplyTaken(y)
  BY <1>1 DEF Session, ClientStage, ServerStage, PushTaken, ReplyTaken
<1> HIDE DEF y
<1> QED BY <1>1, <1>2, TypeFacts, StageStep

LEMMA CrashStep ==
  ASSUME IInv, NEW d \in Device, Crash(d)
  PROVE  IInv'
<1>1. /\ Move /\ UNCHANGED <<peer, edits>> /\ faults' \in Nat
      /\ unseen' \in [Device -> BOOLEAN]
  <2>1. /\ UNCHANGED <<db, peer, issued, edits>> /\ faults' = faults + 1
        /\ unseen' = [unseen EXCEPT ![d] = FALSE]
    BY Zenon DEF Crash, Fault
  <2> QED BY <2>1, StayMove, TypeFacts
<1>2. ASSUME NEW l \in Link, NEW i \in Slot
      PROVE  sess'[l][i] \in Session /\ SessionInv(db'[l[1]], db'[l[2]], issued', sess'[l][i])
  <2> DEFINE x == sess[l][i]
             clientDies == l[1] = d
             serverDies == l[2] = d /\ x.server # "none"
             y == [x EXCEPT
                !.client = IF clientDies \/ (serverDies /\ @ = "wait") THEN "idle" ELSE @,
                !.server = IF serverDies \/ (clientDies /\ @ = "reply") THEN "none" ELSE @]
  <2>1. sess'[l][i] = Tidy(y)
    BY DEF Crash
  <2>2. /\ x \in Session /\ l[1] \in Device /\ l[2] \in Device
        /\ SessionInv(db'[l[1]], db'[l[2]], issued', x)
    BY <1>1, SessionKept
  <2>3. /\ y \in Session /\ y.push = x.push /\ y.reply = x.reply
        /\ y.since = x.since /\ y.base = x.base
        /\ (PushTaken(y) => PushTaken(x)) /\ (ReplyTaken(y) => ReplyTaken(x))
    BY <2>2 DEF Session, ClientStage, ServerStage, PushTaken, ReplyTaken
  <2> HIDE DEF x, y
  <2>4. SessionInv(db'[l[1]], db'[l[2]], issued', y)
    BY <2>2, <2>3, SessionChange
  <2>5. db'[l[1]] \in Store /\ db'[l[2]] \in Store /\ issued' \in SUBSET Version
    BY <1>1, <2>2 DEF Move, World
  <2> QED BY <2>1, <2>3, <2>4, <2>5, TidyFacts
<1>3. sess' \in [Link -> [Slot -> Session]]
  <2>1. \A l \in Link, i \in Slot : sess'[l][i] \in Session
    BY <1>2
  <2>2. sess' = [l \in Link |-> [i \in Slot |-> sess'[l][i]]]
    BY DEF Crash
  <2> QED BY <2>1, <2>2
<1>4. Sessions'
  BY <1>2 DEF Sessions
<1> QED BY <1>1, <1>3, <1>4, TypeFacts, SamePeerType, SamePeer, StepKeeps

LEMMA UnlinkStep ==
  ASSUME IInv, NEW d \in Device, NEW p \in Device, Unlink(d, p)
  PROVE  IInv'
<1>1. /\ Move /\ UNCHANGED <<sess, unseen, edits>> /\ faults' \in Nat
      /\ peer' = [peer EXCEPT ![d][p].paired = FALSE]
  BY StayMove, TypeFacts DEF Unlink, Fault
<1>2. PeerType'
  <2> DEFINE R == [paired : BOOLEAN, pulled : Nat, pushed : Nat]
             row == [peer[d][p] EXCEPT !.paired = FALSE]
  <2>0. peer \in [Device -> [Device -> R]]
    BY TypeFacts DEF PeerType
  <2>1. peer \in [Device -> [Device -> R]] /\ peer[d] \in [Device -> R] /\ row \in R
    <3>1. peer[d][p] \in R
      BY <2>0
    <3>2. \A f \in BOOLEAN : [peer[d][p] EXCEPT !.paired = f] \in R
      BY <3>1
    <3>3. row \in R
      BY <3>2, Zenon
    <3> HIDE DEF row, R
    <3> QED BY <2>0, <3>3
  <2>2. peer' = [peer EXCEPT ![d] = [peer[d] EXCEPT ![p] = row]]
    BY <1>1, <2>1
  <2> HIDE DEF row, R
  <2>3. [peer[d] EXCEPT ![p] = row] \in [Device -> R]
    BY <2>1
  <2> QED BY <2>1, <2>2, <2>3 DEF PeerType, R
<1>3. \A e, q \in Device : /\ peer'[e][q].pulled = peer[e][q].pulled
                          /\ peer'[e][q].pushed = peer[e][q].pushed
  BY <1>1, TypeFacts DEF PeerType
<1>4. Cursors'
  BY <1>1, <1>3, CursorsKept DEF Cursors
<1> QED BY <1>1, <1>2, <1>4, TypeFacts, SameSessions, StepKeeps

LEMMA RecordPeerStep ==
  ASSUME IInv, NEW d \in Device, NEW p \in Device, RecordPeer(d, p)
  PROVE  IInv'
<1> DEFINE R == [paired : BOOLEAN, pulled : Nat, pushed : Nat]
           row == [paired |-> TRUE, pulled |-> 0, pushed |-> 0]
<1>1. /\ Move /\ UNCHANGED <<sess, unseen, edits>> /\ faults' \in Nat
      /\ peer' = [peer EXCEPT ![d] = [peer[d] EXCEPT ![p] = row]]
  BY StayMove, TypeFacts DEF RecordPeer, Fault
<1>2. peer \in [Device -> [Device -> R]] /\ row \in R /\ row.pulled = 0 /\ row.pushed = 0
  BY TypeFacts DEF PeerType
<1> HIDE DEF row, R
<1>3. PeerType'
  <2>1. [peer[d] EXCEPT ![p] = row] \in [Device -> R]
    BY <1>2
  <2> QED BY <2>1, <1>1, <1>2 DEF PeerType, R
<1>4. ASSUME NEW e \in Device, NEW q \in Device
      PROVE  /\ HasUpTo(db'[e], db'[q], peer'[e][q].pulled)
             /\ HasUpTo(db'[q], db'[e], peer'[e][q].pushed)
  <2>1. CASE e = d /\ q = p
    <3>1. peer'[e][q] = row /\ db'[e] \in Store /\ db'[q] \in Store
      BY <2>1, <1>1, <1>2 DEF Move
    <3> QED BY <3>1, <1>2, NothingUpTo0
  <2>2. CASE ~(e = d /\ q = p)
    <3>1. peer'[e][q] = peer[e][q]
      BY <2>2, <1>1, <1>2
    <3> QED BY <3>1, <1>1, CursorsKept
  <2> QED BY <2>1, <2>2
<1>5. Cursors'
  BY <1>4 DEF Cursors
<1> QED BY <1>1, <1>3, <1>5, TypeFacts, SameSessions, StepKeeps

-----------------------------------------------------------------------------
(* The theorems *)

LEMMA NextKeeps == IInv /\ [Next]_vars => IInv'
<1> SUFFICES ASSUME IInv, [Next]_vars PROVE IInv'
  OBVIOUS
<1>1. CASE LocalEdit
  BY <1>1, LocalEditStep
<1>2. CASE \E d \in Device, now \in Clock : ScanNow(d, now)
  BY <1>2, ScanNowStep
<1>3. ASSUME NEW l \in Link, NEW i \in Slot, ClientStep(l, i)
      PROVE  IInv'
  BY <1>3, ClientScanStep, ClientRescanStep, ClientApplyStep, ClientExportStep,
     ClientReceiveStep, ClientAckPullStep, ClientAckPushStep DEF ClientStep
<1>4. ASSUME NEW l \in Link, NEW i \in Slot, ServerStep(l, i)
      PROVE  IInv'
  BY <1>4, ServerAcceptStep, ServerApplyStep, ServerAckPullStep, ServerAckPushStep,
     ServerScanStep, ServerExportStep DEF ServerStep
<1>5. CASE \E d, p \in Device : RecordPeer(d, p)
  BY <1>5, RecordPeerStep
<1>6. CASE Disturbance
  BY <1>6, AbandonStep, LoseStep, CrashStep, UnlinkStep DEF Disturbance
<1>7. CASE UNCHANGED vars
  <2>1. /\ Move /\ UNCHANGED <<peer, sess, unseen, edits, faults>>
    BY <1>7, StayMove DEF vars
  <2> QED BY <2>1, TypeFacts, SamePeerType, SamePeer, SameSessions, StepKeeps
<1> QED BY <1>1, <1>2, <1>3, <1>4, <1>5, <1>6, <1>7 DEF Next

\* IInv is inductive: no cursor of any device, and none that a session still
\* carries, runs ahead of what was handed over.
THEOREM Invariant == Spec => []IInv
<1>1. Init => IInv
  BY InitFacts
<1>2. IInv /\ [Next]_vars => IInv'
  BY NextKeeps
<1> QED BY <1>1, <1>2, PTL DEF Spec

\* Databases, cursors, sessions and the versions in the world keep their types.
THEOREM TypeCorrect == Spec => []TypeOK
<1>1. IInv => TypeOK
  BY DEF IInv
<1> QED BY <1>1, Invariant, PTL

\* peers.rs, session.rs: a record below a cursor is never needed again.
THEOREM NothingLost == Spec => []NothingLostBelowCursor
<1>1. IInv => NothingLostBelowCursor
  BY DEF IInv, Cursors, HasUpTo, Covers, NothingLostBelowCursor, Covered
<1> QED BY <1>1, Invariant, PTL

\* clock.rs, apply.rs: a stamp and its device name one version.
THEOREM StampsAgree == Spec => []StampAgreement
<1>1. IInv => StampAgreement
  <2> SUFFICES ASSUME IInv PROVE StampAgreement
    OBVIOUS
  <2>1. \A v, w \in issued : v.hlc = w.hlc /\ v.dev = w.dev => v = w
    BY DEF IInv, World, StampsDistinct
  <2>2. \A d \in Device, k \in Key :
          Known(db[d].rec[k]) => VersionOf(k, db[d].rec[k]) \in issued
    BY DEF IInv, World, StoreInv
  <2>3. \A l \in Link, i \in Slot, k \in Key :
          /\ Known(sess[l][i].push.recs[k]) =>
               VersionOf(k, sess[l][i].push.recs[k]) \in issued
          /\ Known(sess[l][i].reply.recs[k]) =>
               VersionOf(k, sess[l][i].reply.recs[k]) \in issued
    BY DEF IInv, Sessions, SessionInv, BatchFrom
  <2> QED BY <2>1, <2>2, <2>3 DEF StampAgreement
<1> QED BY <1>1, Invariant, PTL

\* Two devices with nothing left to send hold the same planner.
THEOREM SettledEqual == Spec => []SettledMeansEqual
<1>1. IInv => SettledMeansEqual
  <2> SUFFICES ASSUME IInv, NEW d \in Device, NEW p \in Device, Settled(d, p), NEW k \in Key,
                      Known(db[d].rec[k]) \/ Known(db[p].rec[k])
               PROVE  db[d].live[k] = db[p].live[k]
    BY DEF SettledMeansEqual
  <2> DEFINE s == db[d]
             t == db[p]
             r == s.rec[k]
             q == t.rec[k]
  <2>1. /\ s \in Store /\ t \in Store /\ StoreInv(s, issued) /\ StoreInv(t, issued)
        /\ peer[d][p].pulled \in Nat /\ peer[d][p].pushed \in Nat
    BY DEF IInv, World, TypeOK
  <2>2. /\ r.seq \in Nat /\ q.seq \in Nat /\ s.seq \in Nat /\ t.seq \in Nat
        /\ Stamp(r) /\ Stamp(q)
    BY <2>1, RowFacts
  <2>3. Known(q) => ~Wins(k, q, r)
    <3>1. q.seq <= peer[d][p].pulled
      BY <2>1, <2>2 DEF StoreInv, Settled
    <3> QED BY <3>1 DEF IInv, Cursors, HasUpTo, Covers, Settled
  <2>4. Known(r) => ~Wins(k, r, q)
    <3>1. r.seq <= peer[d][p].pushed
      BY <2>1, <2>2 DEF StoreInv, Settled
    <3> QED BY <3>1 DEF IInv, Cursors, HasUpTo, Covers, Settled
  <2>5. Known(r) /\ Known(q)
    BY <2>3, <2>4 DEF Wins
  <2>6. r.val = q.val
    <3>1. CASE r.hlc = q.hlc /\ r.dev = q.dev
      <4>1. VersionOf(k, r) \in issued /\ VersionOf(k, q) \in issued
        BY <2>1, <2>5 DEF StoreInv
      <4>2. VersionOf(k, r) = VersionOf(k, q)
        BY <3>1, <4>1 DEF IInv, World, StampsDistinct, VersionOf
      <4> QED BY <4>2 DEF VersionOf
    <3>2. CASE Later(r, q) \/ Later(q, r)
      BY <3>2, <2>3, <2>4, <2>5 DEF Wins, Tombstone
    <3>3. (r.hlc = q.hlc /\ r.dev = q.dev) \/ Later(r, q) \/ Later(q, r)
      BY <2>2 DEF Later, Stamp
    <3> QED BY <3>1, <3>2, <3>3
  <2>7. s.live[k] = r.val /\ t.live[k] = q.val
    BY <2>5 DEF Settled, Dirty, Changed, Gone, UntouchedDefault
  <2> QED BY <2>6, <2>7
<1> QED BY <1>1, Invariant, PTL

-----------------------------------------------------------------------------
(* What one step does to the databases, and the properties of steps *)

\* Every step is an edit, a scan, the transaction of a batch, or leaves the
\* databases alone.
LEMMA NextCases ==
  ASSUME IInv, Next
  PROVE  \/ UNCHANGED <<db, issued>>
         \/ \E d \in Device, k \in Key, v \in Content : SafeEdit(d, k, v)
         \/ \E d \in Device, now \in Nat : ScanOf(d, now)
         \/ \E d \in Device, now \in Nat, b \in Batch :
              BatchFrom(b, issued) /\ ApplyOf(d, b, now)
<1>1. /\ Clock \subseteq Nat
      /\ \A l \in Link : l[1] \in Device /\ l[2] \in Device
  BY SyncSessionAssumption
<1>2. \A l \in Link, i \in Slot :
        /\ sess[l][i].push \in Batch /\ BatchFrom(sess[l][i].push, issued)
        /\ sess[l][i].reply \in Batch /\ BatchFrom(sess[l][i].reply, issued)
  BY DEF IInv, TypeOK, Session, Sessions, SessionInv
<1>3. CASE LocalEdit
  BY <1>3, LocalEditIsSafe
<1>4. CASE \E d \in Device, now \in Clock : ScanNow(d, now)
  BY <1>1, <1>4 DEF ScanNow
<1>5. ASSUME NEW l \in Link, NEW i \in Slot, NEW now \in Clock,
             \/ ClientScan(l, i, now) \/ ClientRescan(l, i, now) \/ ServerScan(l, i, now)
      PROVE  \E d \in Device : ScanOf(d, now)
  BY <1>1, <1>5 DEF ClientScan, ClientRescan, ServerScan
<1>6. ASSUME NEW l \in Link, NEW i \in Slot, NEW now \in Clock,
             ClientApply(l, i, now) \/ ServerApply(l, i, now)
      PROVE  \E d \in Device, b \in Batch : BatchFrom(b, issued) /\ ApplyOf(d, b, now)
  <2>1. CASE ClientApply(l, i, now)
    BY <1>1, <1>2, <2>1 DEF ClientApply
  <2>2. CASE ServerApply(l, i, now)
    BY <1>1, <1>2, <2>2 DEF ServerApply
  <2> QED BY <1>6, <2>1, <2>2
<1>7. ASSUME NEW l \in Link, NEW i \in Slot,
             \/ ClientReceive(l, i) \/ ClientAckPull(l, i) \/ ClientAckPush(l, i)
             \/ ServerAccept(l, i) \/ ServerAckPull(l, i) \/ ServerAckPush(l, i)
             \/ \E cut \in BatchSizes : ClientExport(l, i, cut) \/ ServerExport(l, i, cut)
             \/ Abandon(l, i) \/ Lose(l, i)
      PROVE  UNCHANGED <<db, issued>>
  BY <1>7 DEF ClientReceive, ClientAckPull, ClientAckPush, ServerAccept, ServerAckPull,
     ServerAckPush, ClientExport, ServerExport, Abandon, Lose
<1>8. ASSUME NEW l \in Link, NEW i \in Slot, ClientStep(l, i) \/ ServerStep(l, i)
      PROVE  \/ UNCHANGED <<db, issued>>
             \/ \E d \in Device, now \in Nat : ScanOf(d, now)
             \/ \E d \in Device, now \in Nat, b \in Batch :
                  BatchFrom(b, issued) /\ ApplyOf(d, b, now)
  BY <1>1, <1>5, <1>6, <1>7, <1>8 DEF ClientStep, ServerStep
<1>9. CASE \E d, p \in Device : RecordPeer(d, p)
  BY <1>9 DEF RecordPeer
<1>10. CASE Disturbance
  <2>1. CASE \E l \in Link, i \in Slot : Abandon(l, i) \/ Lose(l, i)
    BY <2>1, <1>7
  <2>2. CASE \E d \in Device : Crash(d)
    BY <2>2, Zenon DEF Crash
  <2>3. CASE \E d, p \in Device : Unlink(d, p)
    BY <2>3 DEF Unlink
  <2> QED BY <1>10, <2>1, <2>2, <2>3 DEF Disturbance
<1> QED BY <1>3, <1>4, <1>8, <1>9, <1>10, <1>1 DEF Next

LEMMA NextMoves ==
  ASSUME IInv, Next
  PROVE  Move
<1>1. CASE UNCHANGED <<db, issued>>
  BY <1>1, StayMove
<1>2. CASE \E d \in Device, k \in Key, v \in Content : SafeEdit(d, k, v)
  BY <1>2, EditMove DEF SafeEdit
<1>3. CASE \E d \in Device, now \in Nat : ScanOf(d, now)
  BY <1>3, ScanOfMove
<1>4. CASE \E d \in Device, now \in Nat, b \in Batch :
             BatchFrom(b, issued) /\ ApplyOf(d, b, now)
  BY <1>4, ApplyOfMove
<1> QED BY <1>1, <1>2, <1>3, <1>4, NextCases

\* apply.rs: a recovery code that was used stays used.
THEOREM UsedCodes == Spec => UsedCodeStaysUsed
<1> DEFINE A == \A d \in Device, k \in Recovery :
                  Tombstone(db[d].rec[k]) => db'[d].live[k] = NoValue
<1>1. IInv /\ [Next]_vars => [A]_vars
  <2> SUFFICES ASSUME IInv, Next, NEW d \in Device, NEW k \in Recovery,
                      Tombstone(db[d].rec[k])
               PROVE  db'[d].live[k] = NoValue
    BY DEF vars
  <2>1. Move /\ k \in Key
    BY NextMoves, SyncRecordsAssumption
  <2>2. Forward(db[d], db'[d]) /\ StoreInv(db'[d], issued')
    BY <2>1 DEF Move, World
  <2>3. Tombstone(db'[d].rec[k])
    <3>1. CASE db'[d].rec[k] = db[d].rec[k]
      BY <3>1
    <3>2. CASE Known(db'[d].rec[k]) /\ Wins(k, db'[d].rec[k], db[d].rec[k])
      BY <3>2 DEF Wins, Tombstone
    <3> QED BY <2>1, <2>2, <3>1, <3>2 DEF Forward
  <2> QED BY <2>2, <2>3 DEF StoreInv
<1>2. Spec => [][A]_vars
  BY <1>1, Invariant, PTL DEF Spec
<1> QED BY <1>2 DEF UsedCodeStaysUsed

\* What a scan stamps is in the world under the editor's name, with its content.
LEMMA StampedEdit ==
  ASSUME IInv, NEW d \in Device, NEW now \in Nat, NEW k \in Dirty(db[d])
  PROVE  \E v \in (issued \cup Stamped(db[d], d, now)) \ issued :
           v.key = k /\ v.dev = d /\ v.val = db[d].live[k]
<1> DEFINE t == Scan(db[d], d, now)
<1>1. World(db, issued) /\ db[d] \in Store /\ t = Scan(db[d], d, now)
  BY DEF IInv, World
<1>2. VersionOf(k, t.rec[k]) \in (issued \cup Stamped(db[d], d, now)) \ issued
  BY <1>1, ScanWorld
<1>3. t.rec[k].dev = d /\ t.rec[k].val = db[d].live[k]
  <2> HIDE DEF t
  <2> QED BY <1>1, ScanFacts
<1> HIDE DEF t
<1> QED BY <1>2, <1>3 DEF VersionOf

\* scan.rs, apply.rs: a remote record never replaces an edit that has no
\* version of its own.
THEOREM EditsStamped == Spec => EditStampedBeforeOverwrite
<1> DEFINE A == \A d \in Device : \A k \in Dirty(db[d]) :
                  db'[d].rec[k] # db[d].rec[k] =>
                    \E v \in issued' \ issued : /\ v.key = k /\ v.dev = d
                                                /\ v.val = db[d].live[k]
<1>1. IInv /\ [Next]_vars => [A]_vars
  <2> SUFFICES ASSUME IInv, Next, NEW d \in Device, NEW k \in Dirty(db[d]),
                      db'[d].rec[k] # db[d].rec[k]
               PROVE  \E v \in issued' \ issued : /\ v.key = k /\ v.dev = d
                                                  /\ v.val = db[d].live[k]
    OBVIOUS
  <2>1. db \in [Device -> Store]
    BY TypeFacts
  <2>2. CASE UNCHANGED <<db, issued>>
    BY <2>2
  <2>3. CASE \E e \in Device, j \in Key, v \in Content : SafeEdit(e, j, v)
    <3>1. PICK e \in Device, j \in Key, v \in Content :
            db' = [db EXCEPT ![e].live[j] = v, ![e].chosen = @ \/ j \in Prefs]
      BY <2>3 DEF SafeEdit, Edit
    <3>2. db'[d].rec = db[d].rec
      BY <2>1, <3>1 DEF Store
    <3> QED BY <3>2
  <2>4. CASE \E e \in Device, now \in Nat : ScanOf(e, now)
    <3>1. PICK e \in Device, now \in Nat : ScanOf(e, now)
      BY <2>4
    <3>2. e = d /\ issued' = issued \cup Stamped(db[d], d, now)
      BY <2>1, <3>1 DEF ScanOf
    <3> QED BY <3>2, StampedEdit
  <2>5. CASE \E e \in Device, now \in Nat, b \in Batch :
               BatchFrom(b, issued) /\ ApplyOf(e, b, now)
    <3>1. PICK e \in Device, now \in Nat, b \in Batch : ApplyOf(e, b, now)
      BY <2>5
    <3>2. e = d /\ issued' = issued \cup Stamped(db[d], d, now)
      BY <2>1, <3>1 DEF ApplyOf
    <3> QED BY <3>2, StampedEdit
  <2> QED BY <2>2, <2>3, <2>4, <2>5, NextCases
<1>2. Spec => [][A]_vars
  BY <1>1, Invariant, PTL DEF Spec
<1> QED BY <1>2 DEF EditStampedBeforeOverwrite

-----------------------------------------------------------------------------
(* The refinement *)

LEMMA WinsIsNewer ==
  ASSUME NEW k, NEW r, NEW l \in Record, Known(r), Wins(k, r, l)
  PROVE  Replicas!Newer(VersionOf(k, r), VersionOf(k, l))
<1>1. CASE l = NoRecord
  BY <1>1 DEF Replicas!Newer, NoVersion, VersionOf
<1>2. CASE l # NoRecord
  <2>1. Known(l)
    BY <1>2 DEF Record, Known
  <2> QED BY <2>1 DEF Replicas!Newer, VersionOf, Wins, Later, Tombstone
<1> QED BY <1>1, <1>2

LEMMA HeldFacts ==
  ASSUME IInv, NEW d \in Device, NEW k \in Key
  PROVE  /\ Held[d][k] = VersionOf(k, db[d].rec[k])
         /\ Held[d][k] \in issued \cup {NoVersion(k)}
<1>1. Held[d][k] = VersionOf(k, db[d].rec[k])
  BY DEF Held
<1>2. db[d].rec[k] \in Record
  BY TypeFacts, RowFacts
<1>3. CASE db[d].rec[k] = NoRecord
  BY <1>1, <1>3 DEF NoVersion
<1>4. CASE db[d].rec[k] # NoRecord
  <2>1. Known(db[d].rec[k])
    BY <1>2, <1>4 DEF Record, Known
  <2> QED BY <1>1, <2>1 DEF IInv, World, StoreInv
<1> QED BY <1>1, <1>3, <1>4

\* A transaction of device d advances d.
LEMMA TransactionAdvances ==
  ASSUME IInv, Next, NEW d \in Device,
         \A e \in Device \ {d} : db'[e] = db[e],
         \A v \in issued' \ issued : v.dev = d
  PROVE  Replicas!Advance(d)
<1>1. Move /\ IInv'
  BY NextMoves, NextKeeps
<1>2. /\ StampsDistinct(issued') /\ issued \subseteq issued'
      /\ db[d] \in Store /\ db'[d] \in Store /\ Forward(db[d], db'[d])
      /\ StoreInv(db'[d], issued') /\ issued' \subseteq Version
  BY <1>1 DEF Move, World
<1>3. \A e \in Device, k \in Key : /\ Held[e][k] = VersionOf(k, db[e].rec[k])
                                 /\ Held'[e][k] = VersionOf(k, db'[e].rec[k])
  BY DEF Held
<1>4. ASSUME NEW v \in issued' \ issued
      PROVE  Held'[d][v.key] = v \/ Replicas!Newer(Held'[d][v.key], v)
  <2> DEFINE r == db'[d].rec[v.key]
  <2>1. v.key \in Key /\ v.dev = d /\ ~Wins(v.key, v, r) /\ Known(r)
    <3>1. v.key \in Key /\ v.dev = d /\ ~Wins(v.key, v, r)
      BY <1>1, <1>2 DEF Move, World, Version
    <3> QED BY <3>1 DEF Wins
  <2>2. v \in Version /\ v.hlc \in Nat /\ v.dev \in Nat /\ Stamp(r)
    BY <1>2, <2>1, RowFacts, SyncRecordsAssumption DEF Version
  <2>3. VersionOf(v.key, r) \in issued'
    BY <1>2, <2>1 DEF StoreInv
  <2>4. CASE r.hlc = v.hlc /\ r.dev = v.dev
    <3>1. VersionOf(v.key, r) = v
      BY <1>2, <2>3, <2>4 DEF StampsDistinct, VersionOf
    <3> QED BY <3>1, <2>1, <1>3
  <2>5. CASE ~(r.hlc = v.hlc /\ r.dev = v.dev)
    <3>1. Later(r, v) \/ Later(v, r)
      BY <2>2, <2>5 DEF Later, Stamp
    <3>2. Replicas!Newer(VersionOf(v.key, r), v)
      BY <3>1, <2>1 DEF Replicas!Newer, VersionOf, Wins, Later, Tombstone
    <3> QED BY <3>2, <2>1, <1>3
  <2> QED BY <2>4, <2>5
<1>5. ASSUME NEW k \in Key
      PROVE  \/ Held'[d][k] = Held[d][k]
             \/ Held'[d][k] \in issued' /\ Replicas!Newer(Held'[d][k], Held[d][k])
  <2>1. CASE db'[d].rec[k] = db[d].rec[k]
    BY <2>1, <1>3
  <2>2. CASE Known(db'[d].rec[k]) /\ Wins(k, db'[d].rec[k], db[d].rec[k])
    <3>1. VersionOf(k, db'[d].rec[k]) \in issued' /\ db[d].rec[k] \in Record
      BY <1>2, <2>2, RowFacts DEF StoreInv
    <3> QED BY <3>1, <2>2, <1>3, WinsIsNewer
  <2> QED BY <2>1, <2>2, <1>2 DEF Forward
<1>6. \A e \in Device \ {d} : Held'[e] = Held[e]
  BY DEF Held
<1>7. \A v \in issued' \ issued : \A w \in issued' :
        v.hlc = w.hlc /\ v.dev = w.dev => v = w
  BY <1>2 DEF StampsDistinct
<1> QED BY <1>2, <1>4, <1>5, <1>6, <1>7 DEF Replicas!Advance

LEMMA StampedBy ==
  ASSUME IInv, NEW d \in Device, NEW now \in Nat
  PROVE  \A v \in (issued \cup Stamped(db[d], d, now)) \ issued : v.dev = d
<1>1. World(db, issued) /\ db[d] \in Store
  BY DEF IInv, World
<1> DEFINE t == Scan(db[d], d, now)
<1>2. \A k \in Dirty(db[d]) : t.rec[k].dev = d
  BY <1>1, ScanFacts
<1>3. \A v \in Stamped(db[d], d, now) : v.dev = d
  BY <1>2 DEF Stamped, VersionOf
<1> QED BY <1>3

\* The sessions implement VersionedReplicas: each device moves from issued
\* version to newer issued version, whatever is lost, repeated or overlaps.
THEOREM Implements == Spec => ImplementsReplicas
<1>1. Init => Replicas!ReplicasInit
  <2> SUFFICES ASSUME Init PROVE Replicas!ReplicasInit
    OBVIOUS
  <2>1. IInv
    BY InitFacts
  <2> QED BY <2>1, HeldFacts DEF Replicas!ReplicasInit, IInv, World, StampsDistinct
<1>2. IInv /\ [Next]_vars => [\E d \in Device : Replicas!Advance(d)]_<<Held, issued>>
  <2> SUFFICES ASSUME IInv, [Next]_vars
               PROVE  (\E d \in Device : Replicas!Advance(d)) \/ UNCHANGED <<Held, issued>>
    OBVIOUS
  <2>1. db \in [Device -> Store]
    BY TypeFacts
  <2>2. CASE UNCHANGED vars
    BY <2>2 DEF vars, Held
  <2>3. CASE Next /\ UNCHANGED <<db, issued>>
    BY <2>3 DEF Held
  <2>4. CASE \E e \in Device, j \in Key, v \in Content : SafeEdit(e, j, v)
    <3>1. PICK e \in Device, j \in Key, v \in Content :
            /\ db' = [db EXCEPT ![e].live[j] = v, ![e].chosen = @ \/ j \in Prefs]
            /\ issued' = issued
      BY <2>4 DEF SafeEdit, Edit
    <3>2. \A d \in Device : db'[d].rec = db[d].rec
      BY <2>1, <3>1 DEF Store
    <3>3. Held' = Held
      BY <3>2 DEF Held
    <3> QED BY <3>1, <3>3
  <2>5. CASE Next /\ \E d \in Device, now \in Nat : ScanOf(d, now)
    <3>1. PICK d \in Device, now \in Nat : ScanOf(d, now)
      BY <2>5
    <3>2. /\ \A e \in Device \ {d} : db'[e] = db[e]
          /\ issued' = issued \cup Stamped(db[d], d, now)
      BY <2>1, <3>1 DEF ScanOf
    <3>3. \A v \in issued' \ issued : v.dev = d
      BY <3>2, StampedBy
    <3> QED BY <2>5, <3>2, <3>3, TransactionAdvances
  <2>6. CASE Next /\ \E d \in Device, now \in Nat, b \in Batch :
               BatchFrom(b, issued) /\ ApplyOf(d, b, now)
    <3>1. PICK d \in Device, now \in Nat, b \in Batch : ApplyOf(d, b, now)
      BY <2>6
    <3>2. /\ \A e \in Device \ {d} : db'[e] = db[e]
          /\ issued' = issued \cup Stamped(db[d], d, now)
      BY <2>1, <3>1 DEF ApplyOf
    <3>3. \A v \in issued' \ issued : v.dev = d
      BY <3>2, StampedBy
    <3> QED BY <2>6, <3>2, <3>3, TransactionAdvances
  <2> QED BY <2>2, <2>3, <2>4, <2>5, <2>6, NextCases
<1>3. Spec => Replicas!ReplicasSpec
  BY <1>1, <1>2, Invariant, PTL DEF Spec, Replicas!ReplicasSpec
<1> QED BY <1>3 DEF ImplementsReplicas
=============================================================================
