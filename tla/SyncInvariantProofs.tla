------------------------ MODULE SyncInvariantProofs ------------------------
(***************************************************************************)
(* What the transactions of SyncRecords keep of the invariant, stated of   *)
(* databases as values: the order of versions, how a database goes         *)
(* forward, and what an edit, a scan and a batch do to the world.          *)
(***************************************************************************)
EXTENDS SyncInvariant, SyncRecordsProofs

-----------------------------------------------------------------------------
(* The order of versions *)

Stamp(r) == r.hlc \in Nat /\ r.dev \in Nat

\* What lost to l still loses to whatever replaces l.
LEMMA WinsKept ==
  ASSUME NEW k, NEW r, NEW l, NEW m, Stamp(r), Stamp(l), Stamp(m), Known(m),
         Wins(k, m, l), ~Wins(k, r, l)
  PROVE  ~Wins(k, r, m)
<1>1. Later(r, m) /\ Later(m, l) => Later(r, l)
  BY DEF Later, Stamp
<1>2. Later(r, m) => Later(r, l) \/ ~Later(m, l)
  BY <1>1
<1> QED BY <1>2 DEF Wins, Tombstone

LEMMA WinsTransitive ==
  ASSUME NEW k, NEW r, NEW l, NEW m, Stamp(r), Stamp(l), Stamp(m), Known(m),
         Wins(k, m, l), Wins(k, r, m)
  PROVE  Wins(k, r, l)
<1>1. Later(r, m) /\ Later(m, l) => Later(r, l)
  BY DEF Later, Stamp
<1> QED BY <1>1 DEF Wins, Tombstone

LEMMA SameNeverWins ==
  ASSUME NEW k, NEW r, NEW l, Stamp(l), Known(l),
         r.hlc = l.hlc, r.dev = l.dev, r.val = l.val
  PROVE  ~Wins(k, r, l)
BY DEF Wins, Later, Stamp, Tombstone

LEMMA RowFacts ==
  ASSUME NEW s \in Store, NEW k \in Key
  PROVE  /\ s.rec[k] \in Record /\ s.live[k] \in Content
         /\ Stamp(s.rec[k]) /\ s.rec[k].seq \in Nat /\ s.rec[k].val \in Content
         /\ s.hlc \in Nat /\ s.seq \in Nat
         /\ Known(s.rec[k]) => VersionOf(k, s.rec[k]) \in Version
<1>1. s.rec[k] \in Record /\ s.live[k] \in Content /\ s.hlc \in Nat /\ s.seq \in Nat
  BY DEF Store
<1>2. Device \subseteq Nat
  BY SyncRecordsAssumption
<1>3. CASE s.rec[k] = NoRecord
  BY <1>1, <1>3 DEF NoRecord, Stamp, Known, Content
<1>4. CASE s.rec[k] # NoRecord
  <2>1. s.rec[k] \in [hlc : Nat, dev : Device, val : Content, seq : Nat \ {0}]
    BY <1>1, <1>4 DEF Record
  <2> QED BY <2>1, <1>1, <1>2 DEF Stamp, Version, VersionOf
<1> QED BY <1>3, <1>4

-----------------------------------------------------------------------------
(* A database goes forward: rows are only replaced by what wins over them, *)
(* at new places, and nothing that was put aside is forgotten.             *)

Forward(s, t) ==
  /\ s.hlc <= t.hlc /\ s.seq <= t.seq /\ s.quar \subseteq t.quar
  /\ \A k \in Key : \/ t.rec[k] = s.rec[k]
                    \/ /\ Known(t.rec[k]) /\ Wins(k, t.rec[k], s.rec[k])
                       /\ t.rec[k].seq > s.seq

LEMMA ForwardReflexive ==
  ASSUME NEW s \in Store
  PROVE  Forward(s, s)
<1>1. s.hlc \in Nat /\ s.seq \in Nat
  BY DEF Store
<1> QED BY <1>1 DEF Forward

LEMMA ForwardTransitive ==
  ASSUME NEW s \in Store, NEW t \in Store, NEW u \in Store,
         Forward(s, t), Forward(t, u)
  PROVE  Forward(s, u)
<1>1. /\ s.hlc \in Nat /\ t.hlc \in Nat /\ u.hlc \in Nat
      /\ s.seq \in Nat /\ t.seq \in Nat /\ u.seq \in Nat
  BY DEF Store
<1>2. s.hlc <= u.hlc /\ s.seq <= u.seq /\ s.quar \subseteq u.quar
  BY <1>1 DEF Forward
<1>3. ASSUME NEW k \in Key, u.rec[k] # s.rec[k]
      PROVE  Known(u.rec[k]) /\ Wins(k, u.rec[k], s.rec[k]) /\ u.rec[k].seq > s.seq
  <2>1. Stamp(s.rec[k]) /\ Stamp(t.rec[k]) /\ Stamp(u.rec[k]) /\ u.rec[k].seq \in Nat
    BY RowFacts
  <2>2. CASE u.rec[k] = t.rec[k]
    BY <2>2, <1>3 DEF Forward
  <2>3. CASE u.rec[k] # t.rec[k]
    <3>1. Known(u.rec[k]) /\ Wins(k, u.rec[k], t.rec[k]) /\ u.rec[k].seq > t.seq
      BY <2>3 DEF Forward
    <3>2. u.rec[k].seq > s.seq
      BY <3>1, <2>1, <1>1 DEF Forward
    <3>3. CASE t.rec[k] = s.rec[k]
      BY <3>1, <3>2, <3>3
    <3>4. CASE t.rec[k] # s.rec[k]
      <4>1. Known(t.rec[k]) /\ Wins(k, t.rec[k], s.rec[k])
        BY <3>4 DEF Forward
      <4> QED BY <4>1, <3>1, <3>2, <2>1, WinsTransitive
    <3> QED BY <3>3, <3>4
  <2> QED BY <2>2, <2>3
<1> QED BY <1>2, <1>3 DEF Forward

\* What needed nothing of r needs nothing of it later.
LEMMA CoversForward ==
  ASSUME NEW s \in Store, NEW t \in Store, Forward(s, t),
         NEW k \in Key, NEW r, Stamp(r), Covers(s, k, r)
  PROVE  Covers(t, k, r)
<1>1. CASE VersionOf(k, r) \in s.quar
  BY <1>1 DEF Forward, Covers
<1>2. CASE ~Wins(k, r, s.rec[k])
  <2>1. Stamp(s.rec[k]) /\ Stamp(t.rec[k])
    BY RowFacts
  <2>2. CASE t.rec[k] = s.rec[k]
    BY <1>2, <2>2 DEF Covers
  <2>3. CASE t.rec[k] # s.rec[k]
    <3>1. Known(t.rec[k]) /\ Wins(k, t.rec[k], s.rec[k])
      BY <2>3 DEF Forward
    <3> QED BY <3>1, <2>1, <1>2, WinsKept DEF Covers
  <2> QED BY <2>2, <2>3
<1> QED BY <1>1, <1>2 DEF Covers

\* A row of the other side that is at a place already handed over is an old one.
LEMMA OldRow ==
  ASSUME NEW t \in Store, NEW u \in Store, Forward(t, u),
         NEW n \in Nat, n <= t.seq, NEW k \in Key, u.rec[k].seq <= n
  PROVE  u.rec[k] = t.rec[k]
<1>1. u.rec[k].seq \in Nat /\ t.seq \in Nat
  BY RowFacts
<1> QED BY <1>1 DEF Forward

LEMMA HasUpToForward ==
  ASSUME NEW s \in Store, NEW s2 \in Store, Forward(s, s2),
         NEW t \in Store, NEW t2 \in Store, Forward(t, t2),
         NEW n \in Nat, HasUpTo(s, t, n)
  PROVE  HasUpTo(s2, t2, n)
<1>1. n <= t2.seq
  <2>1. t.seq \in Nat /\ t2.seq \in Nat
    BY DEF Store
  <2> QED BY <2>1 DEF Forward, HasUpTo
<1>2. ASSUME NEW k \in Key, Known(t2.rec[k]), t2.rec[k].seq <= n
      PROVE  Covers(s2, k, t2.rec[k])
  <2>1. t2.rec[k] = t.rec[k]
    BY <1>2, OldRow DEF HasUpTo
  <2>2. Stamp(t.rec[k])
    BY RowFacts
  <2>3. Covers(s, k, t.rec[k])
    BY <1>2, <2>1 DEF HasUpTo
  <2> QED BY <2>1, <2>2, <2>3, CoversForward
<1> QED BY <1>1, <1>2 DEF HasUpTo

LEMMA DeliversForward ==
  ASSUME NEW s \in Store, NEW s2 \in Store, Forward(s, s2),
         NEW t \in Store, NEW t2 \in Store, Forward(t, t2),
         NEW b, b.next \in Nat, Delivers(s, t, b)
  PROVE  Delivers(s2, t2, b)
<1>1. b.next <= t2.seq
  <2>1. t.seq \in Nat /\ t2.seq \in Nat
    BY DEF Store
  <2> QED BY <2>1 DEF Forward, Delivers
<1>2. ASSUME NEW k \in Key, Known(t2.rec[k]), t2.rec[k].seq <= b.next,
             b.recs[k] # t2.rec[k]
      PROVE  Covers(s2, k, t2.rec[k])
  <2>1. t2.rec[k] = t.rec[k]
    BY <1>2, OldRow DEF Delivers
  <2>2. Stamp(t.rec[k])
    BY RowFacts
  <2>3. Covers(s, k, t.rec[k])
    BY <1>2, <2>1 DEF Delivers
  <2> QED BY <2>1, <2>2, <2>3, CoversForward
<1> QED BY <1>1, <1>2 DEF Delivers

-----------------------------------------------------------------------------
(* The world: all databases and the versions that were stamped *)

\* One database goes forward and may put versions of its own into the world.
LEMMA WorldStep ==
  ASSUME NEW D, NEW V, World(D, V), NEW d \in Device, NEW t \in Store,
         Forward(D[d], t),
         NEW V2, V \subseteq V2, V2 \subseteq Version, StoreInv(t, V2),
         \A v \in V2 \ V : /\ v.dev = d /\ v.hlc > D[d].hlc /\ v.hlc <= t.hlc
                          /\ ~Wins(v.key, v, t.rec[v.key]),
         \A v, w \in V2 \ V : v.hlc = w.hlc => v = w,
         NEW D2, D2 = [D EXCEPT ![d] = t]
  PROVE  World(D2, V2)
<1>1. D \in [Device -> Store] /\ V \subseteq Version /\ D[d] \in Store
  BY DEF World
<1>2. D2 \in [Device -> Store] /\ D2[d] = t /\ \A e \in Device \ {d} : D2[e] = D[e]
  BY <1>1
<1>3. \A v \in V2 : v.hlc \in Nat /\ v.dev \in Device /\ v.dev \in Nat /\ v.key \in Key
  BY SyncRecordsAssumption DEF Version
<1>4. D[d].hlc \in Nat /\ t.hlc \in Nat /\ D[d].hlc <= t.hlc
  BY <1>1 DEF Store, Forward
<1>5. StampsDistinct(V2)
  <2>1. ASSUME NEW v \in V2, NEW w \in V2, v.hlc = w.hlc, v.dev = w.dev
        PROVE  v = w
    <3>1. CASE v \in V /\ w \in V
      BY <2>1, <3>1 DEF World, StampsDistinct
    <3>2. CASE v \notin V /\ w \notin V
      BY <2>1, <3>2
    <3>3. CASE v \notin V /\ w \in V
      <4>1. w.hlc <= D[d].hlc /\ v.hlc > D[d].hlc
        BY <2>1, <3>3 DEF World
      <4> QED BY <4>1, <2>1, <1>3, <1>4
    <3>4. CASE v \in V /\ w \notin V
      <4>1. v.hlc <= D[d].hlc /\ w.hlc > D[d].hlc
        BY <2>1, <3>4 DEF World
      <4> QED BY <4>1, <2>1, <1>3, <1>4
    <3> QED BY <3>1, <3>2, <3>3, <3>4
  <2> QED BY <2>1 DEF StampsDistinct
<1>6. \A e \in Device : StoreInv(D2[e], V2)
  BY <1>2 DEF World, StoreInv
<1>7. ASSUME NEW v \in V2
      PROVE  v.hlc <= D2[v.dev].hlc /\ ~Wins(v.key, v, D2[v.dev].rec[v.key])
  <2>1. CASE v \notin V
    BY <2>1, <1>2
  <2>2. CASE v \in V /\ v.dev # d
    BY <2>2, <1>2, <1>3 DEF World
  <2>3. CASE v \in V /\ v.dev = d
    <3>1. v.hlc <= D[d].hlc /\ ~Wins(v.key, v, D[d].rec[v.key])
      BY <2>3 DEF World
    <3>2. v.hlc <= t.hlc
      BY <3>1, <1>3, <1>4
    <3>3. Stamp(v) /\ Stamp(D[d].rec[v.key]) /\ Stamp(t.rec[v.key])
      BY <1>1, <1>3, RowFacts DEF Stamp
    <3>4. ~Wins(v.key, v, t.rec[v.key])
      BY <3>1, <3>3, <1>3, WinsKept DEF Forward
    <3> QED BY <3>2, <3>4, <2>3, <1>2
  <2> QED BY <2>1, <2>2, <2>3
<1> QED BY <1>2, <1>5, <1>6, <1>7 DEF World

\* An edit of one row of the planner, of no recovery code that was used.
LEMMA EditWorld ==
  ASSUME NEW D, NEW V, World(D, V), NEW d \in Device, NEW k \in Key, NEW v \in Content,
         NEW c \in BOOLEAN,
         k \in Recovery => v = NoValue \/ ~Tombstone(D[d].rec[k]),
         NEW t, t = [D[d] EXCEPT !.live = [@ EXCEPT ![k] = v], !.chosen = c]
  PROVE  /\ t \in Store /\ Forward(D[d], t)
         /\ World([D EXCEPT ![d] = t], V)
<1>1. D[d] \in Store
  BY DEF World
<1>2. /\ t \in Store /\ t.rec = D[d].rec /\ t.hlc = D[d].hlc /\ t.seq = D[d].seq
      /\ t.quar = D[d].quar /\ t.live = [D[d].live EXCEPT ![k] = v]
  BY <1>1 DEF Store
<1>3. Forward(D[d], t)
  <2>1. Forward(D[d], D[d])
    BY <1>1, ForwardReflexive
  <2> QED BY <2>1, <1>2 DEF Forward
<1>4. StoreInv(t, V)
  <2>1. StoreInv(D[d], V) /\ D[d].live \in [Key -> Content]
    BY <1>1 DEF World, Store
  <2>2. ASSUME NEW j \in Recovery, Tombstone(t.rec[j])
        PROVE  t.live[j] = NoValue
    <3>1. D[d].live[j] = NoValue /\ j \in Key
      BY <2>1, <2>2, <1>2, SyncRecordsAssumption DEF StoreInv
    <3> QED BY <3>1, <2>1, <2>2, <1>2
  <2> QED BY <2>1, <2>2, <1>2 DEF StoreInv
<1>5. World([D EXCEPT ![d] = t], V)
  <2>1. V \subseteq Version /\ V \ V = {}
    BY DEF World
  <2> QED BY <2>1, <1>2, <1>3, <1>4, WorldStep
<1> QED BY <1>2, <1>3, <1>5

\* A scan puts the dirty rows of one database into the world.
LEMMA ScanWorld ==
  ASSUME NEW D, NEW V, World(D, V), NEW d \in Device, NEW now \in Nat
  PROVE  LET t  == Scan(D[d], d, now)
             V2 == V \cup Stamped(D[d], d, now)
         IN  /\ t \in Store /\ Forward(D[d], t)
             /\ World([D EXCEPT ![d] = t], V2)
             /\ \A k \in Dirty(D[d]) : VersionOf(k, t.rec[k]) \in V2 \ V
             /\ \A v \in V2 \ V : /\ v.key \in Key /\ v.dev = d
                                  /\ v = VersionOf(v.key, t.rec[v.key])
                                  /\ Known(t.rec[v.key])
<1> DEFINE s == D[d]
           t == Scan(D[d], d, now)
           V2 == V \cup Stamped(D[d], d, now)
<1>0. t = Scan(D[d], d, now) /\ V2 = V \cup Stamped(D[d], d, now)
  OBVIOUS
<1> HIDE DEF t, V2
<1> USE <1>0
<1>1. /\ s \in Store /\ StoreInv(s, V) /\ s.hlc \in Nat /\ s.seq \in Nat
      /\ Dirty(s) \subseteq Key /\ t = Scan(s, d, now)
  BY DirtyParts DEF World, Store, Dirty
<1> HIDE DEF s
<1>2. /\ t \in Store /\ t.live = s.live /\ t.quar = s.quar
      /\ s.hlc <= t.hlc /\ s.seq <= t.seq
      /\ \A k \in Key \ Dirty(s) : t.rec[k] = s.rec[k]
  BY <1>1, ScanFacts
<1>3. ASSUME NEW k \in Dirty(s)
      PROVE  /\ t.rec[k] \in Record
             /\ t.rec[k].dev = d /\ t.rec[k].val = s.live[k]
             /\ t.rec[k].hlc > s.hlc /\ t.rec[k].hlc <= t.hlc
             /\ t.rec[k].seq > s.seq /\ t.rec[k].seq <= t.seq
             /\ \A j \in Dirty(s) : j # k => t.rec[j].hlc # t.rec[k].hlc
  BY <1>1, <1>3, ScanFacts
<1>4. ASSUME NEW k \in Dirty(s)
      PROVE  /\ Known(t.rec[k]) /\ Stamp(t.rec[k]) /\ VersionOf(k, t.rec[k]) \in Version
             /\ Wins(k, t.rec[k], s.rec[k])
  <2>1. k \in Key /\ Stamp(t.rec[k]) /\ t.rec[k].seq \in Nat /\ Stamp(s.rec[k])
    BY <1>1, <1>2, RowFacts
  <2>2. Known(t.rec[k])
    BY <1>1, <1>3, <2>1 DEF Known
  <2>3. VersionOf(k, t.rec[k]) \in Version
    BY <1>2, <2>1, <2>2, RowFacts
  <2>4. Later(t.rec[k], s.rec[k])
    <3>1. s.rec[k].hlc <= s.hlc
      BY <1>1, <2>1 DEF StoreInv
    <3> QED BY <3>1, <2>1, <1>1, <1>3 DEF Later, Stamp
  <2>5. k \in Recovery /\ Tombstone(s.rec[k]) => t.rec[k].val = NoValue
    BY <1>1, <1>3 DEF StoreInv
  <2> QED BY <2>1, <2>2, <2>3, <2>4, <2>5 DEF Wins
<1>5. Forward(s, t)
  BY <1>2, <1>3, <1>4 DEF Forward
<1>6. V \subseteq Version /\ V2 \subseteq Version /\ V \subseteq V2
  BY <1>4 DEF World, Stamped, s
<1>7. ASSUME NEW k \in Dirty(s)
      PROVE  VersionOf(k, t.rec[k]) \in V2 \ V
  <2>1. VersionOf(k, t.rec[k]) \in V2
    BY <1>7 DEF Stamped, s
  <2>2. ASSUME VersionOf(k, t.rec[k]) \in V PROVE FALSE
    <3>1. VersionOf(k, t.rec[k]).hlc = t.rec[k].hlc /\ VersionOf(k, t.rec[k]).dev = d
      BY <1>3 DEF VersionOf
    <3>2. t.rec[k].hlc <= s.hlc
      BY <2>2, <3>1 DEF World, s
    <3> QED BY <3>2, <1>1, <1>3, <1>4 DEF Stamp
  <2> QED BY <2>1, <2>2
<1>8. ASSUME NEW v \in V2 \ V
      PROVE  /\ v.key \in Dirty(s) /\ v = VersionOf(v.key, t.rec[v.key])
             /\ v.dev = t.rec[v.key].dev /\ v.hlc = t.rec[v.key].hlc
             /\ v.val = t.rec[v.key].val
  BY <1>8 DEF Stamped, VersionOf, s
<1>9. StoreInv(t, V2)
  <2>1. ASSUME NEW k \in Key
        PROVE  /\ t.rec[k].seq <= t.seq /\ t.rec[k].hlc <= t.hlc
               /\ Known(t.rec[k]) => VersionOf(k, t.rec[k]) \in V2
    <3>1. CASE k \in Dirty(s)
      BY <3>1, <1>3, <1>7
    <3>2. CASE k \notin Dirty(s)
      <4>1. /\ s.rec[k].seq <= s.seq /\ s.rec[k].hlc <= s.hlc /\ t.rec[k] = s.rec[k]
            /\ Known(s.rec[k]) => VersionOf(k, s.rec[k]) \in V
        BY <3>2, <1>1, <1>2 DEF StoreInv
      <4>2. /\ t.rec[k].seq \in Nat /\ t.rec[k].hlc \in Nat /\ t.hlc \in Nat /\ t.seq \in Nat
        BY <1>2, RowFacts DEF Stamp
      <4> QED BY <4>1, <4>2, <1>1, <1>2, <1>6
    <3> QED BY <3>1, <3>2
  <2>2. ASSUME NEW k \in Recovery, Tombstone(t.rec[k])
        PROVE  t.live[k] = NoValue
    <3>1. CASE k \in Dirty(s)
      BY <2>2, <3>1, <1>2, <1>3 DEF Tombstone
    <3>2. CASE k \notin Dirty(s)
      BY <2>2, <3>2, <1>1, <1>2, SyncRecordsAssumption DEF StoreInv
    <3> QED BY <3>1, <3>2
  <2> QED BY <2>1, <2>2 DEF StoreInv
<1>10. \A v \in V2 \ V : /\ v.dev = d /\ v.hlc > s.hlc /\ v.hlc <= t.hlc
                         /\ ~Wins(v.key, v, t.rec[v.key])
  BY <1>3, <1>4, <1>8, SameNeverWins
<1>11. \A v, w \in V2 \ V : v.hlc = w.hlc => v = w
  BY <1>3, <1>8
<1>12. World([D EXCEPT ![d] = t], V2)
  BY <1>2, <1>5, <1>6, <1>9, <1>10, <1>11, WorldStep DEF s
<1>13. \A v \in V2 \ V : /\ v.key \in Key /\ v.dev = d
                         /\ v = VersionOf(v.key, t.rec[v.key]) /\ Known(t.rec[v.key])
  BY <1>1, <1>4, <1>8, <1>10
<1> QED BY <1>2, <1>5, <1>7, <1>12, <1>13 DEF s, t, V2

\* A batch of versions of the world moves one database forward.
LEMMA ApplyWorld ==
  ASSUME NEW D, NEW V, World(D, V), NEW d \in Device, NEW now \in Nat,
         NEW b \in Batch, BatchFrom(b, V),
         NEW u, u = ApplyScanned(D[d], d, b, now)
  PROVE  /\ u \in Store /\ Forward(D[d], u)
         /\ World([D EXCEPT ![d] = u], V)
         /\ \A k \in Key : Known(b.recs[k]) => Covers(u, k, b.recs[k])
<1> DEFINE t == D[d]
           taken == Taken(t, d, b, now)
<1>1. t \in Store /\ StoreInv(t, V) /\ t.seq \in Nat /\ u = ApplyScanned(t, d, b, now)
  BY DEF World, Store
<1> HIDE DEF t
<1>2. /\ u \in Store /\ t.quar \subseteq u.quar
      /\ t.hlc <= u.hlc /\ t.seq <= u.seq /\ taken \subseteq Key
      /\ \A k \in Key \ taken : u.rec[k] = t.rec[k]
      /\ \A k \in Key \ (taken \cup Prefs) : u.live[k] = t.live[k]
  BY <1>1, ApplyFacts
<1>3. ASSUME NEW k \in taken
      PROVE  /\ Known(b.recs[k]) /\ Wins(k, b.recs[k], t.rec[k])
             /\ u.rec[k].hlc = b.recs[k].hlc /\ u.rec[k].dev = b.recs[k].dev
             /\ u.rec[k].val = b.recs[k].val /\ u.live[k] = b.recs[k].val
             /\ u.rec[k].hlc <= u.hlc
             /\ u.rec[k].seq > t.seq /\ u.rec[k].seq <= u.seq
  BY <1>1, <1>3, ApplyFacts
<1>4. ASSUME NEW k \in Key, Known(b.recs[k]), b.recs[k].dev # d
      PROVE  \/ k \in taken
             \/ ~Wins(k, b.recs[k], t.rec[k])
             \/ VersionOf(k, b.recs[k]) \in u.quar
  BY <1>1, <1>4, ApplyFacts
<1> HIDE DEF taken
<1>5. ASSUME NEW k \in taken
      PROVE  /\ Known(u.rec[k]) /\ Wins(k, u.rec[k], t.rec[k])
             /\ VersionOf(k, u.rec[k]) = VersionOf(k, b.recs[k])
             /\ VersionOf(k, u.rec[k]) \in V
  <2>1. k \in Key /\ u.rec[k].seq \in Nat
    BY <1>2, RowFacts
  <2>2. Known(u.rec[k])
    BY <2>1, <1>1, <1>3 DEF Known
  <2>3. Wins(k, u.rec[k], t.rec[k])
    BY <1>3 DEF Wins, Later
  <2>4. VersionOf(k, u.rec[k]) = VersionOf(k, b.recs[k])
    BY <1>3 DEF VersionOf
  <2> QED BY <2>1, <2>2, <2>3, <2>4, <1>3 DEF BatchFrom
<1>6. Forward(t, u)
  BY <1>2, <1>3, <1>5 DEF Forward
<1>7. StoreInv(u, V)
  <2>1. ASSUME NEW k \in Key
        PROVE  /\ u.rec[k].seq <= u.seq /\ u.rec[k].hlc <= u.hlc
               /\ Known(u.rec[k]) => VersionOf(k, u.rec[k]) \in V
    <3>1. CASE k \in taken
      BY <3>1, <1>3, <1>5
    <3>2. CASE k \notin taken
      <4>1. /\ t.rec[k].seq <= t.seq /\ t.rec[k].hlc <= t.hlc /\ u.rec[k] = t.rec[k]
            /\ Known(t.rec[k]) => VersionOf(k, t.rec[k]) \in V
        BY <3>2, <1>1, <1>2 DEF StoreInv
      <4>2. /\ u.rec[k].seq \in Nat /\ u.rec[k].hlc \in Nat
            /\ u.hlc \in Nat /\ u.seq \in Nat /\ t.hlc \in Nat
        BY <1>1, <1>2, RowFacts DEF Stamp
      <4> QED BY <4>1, <4>2, <1>1, <1>2
    <3> QED BY <3>1, <3>2
  <2>2. ASSUME NEW k \in Recovery, Tombstone(u.rec[k])
        PROVE  u.live[k] = NoValue
    <3>1. CASE k \in taken
      BY <2>2, <3>1, <1>3 DEF Tombstone
    <3>2. CASE k \notin taken
      BY <2>2, <3>2, <1>1, <1>2, SyncRecordsAssumption DEF StoreInv
    <3> QED BY <3>1, <3>2
  <2> QED BY <2>1, <2>2 DEF StoreInv
<1>8. World([D EXCEPT ![d] = u], V)
  <2>1. V \subseteq Version /\ V \ V = {}
    BY DEF World
  <2> QED BY <2>1, <1>2, <1>6, <1>7, WorldStep DEF t
<1>9. ASSUME NEW k \in Key, Known(b.recs[k])
      PROVE  Covers(u, k, b.recs[k])
  <2>1. Stamp(b.recs[k]) /\ VersionOf(k, b.recs[k]) \in V
    <3>1. VersionOf(k, b.recs[k]) \in V /\ VersionOf(k, b.recs[k]) \in Version
      BY <1>9 DEF BatchFrom, World
    <3>2. b.recs[k].hlc \in Nat /\ b.recs[k].dev \in Device
      BY <3>1 DEF VersionOf, Version
    <3> QED BY <3>1, <3>2, SyncRecordsAssumption DEF Stamp
  <2>2. CASE b.recs[k].dev = d
    <3>1. ~Wins(k, VersionOf(k, b.recs[k]), t.rec[k])
      BY <2>1, <2>2 DEF World, VersionOf, t
    <3>2. Covers(t, k, b.recs[k])
      BY <3>1 DEF Covers, Wins, Later, VersionOf
    <3> QED BY <3>2, <2>1, <1>1, <1>2, <1>6, CoversForward
  <2>3. CASE k \in taken
    <3>1. Stamp(u.rec[k])
      BY <1>2, RowFacts
    <3> QED BY <3>1, <2>3, <1>3, <1>5, SameNeverWins DEF Covers
  <2>4. CASE b.recs[k].dev # d /\ k \notin taken
    <3>1. CASE ~Wins(k, b.recs[k], t.rec[k])
      BY <3>1, <2>1, <1>1, <1>2, <1>6, CoversForward DEF Covers
    <3>2. CASE VersionOf(k, b.recs[k]) \in u.quar
      BY <3>2 DEF Covers
    <3> QED BY <3>1, <3>2, <2>4, <1>4, <1>9
  <2> QED BY <2>2, <2>3, <2>4
<1> QED BY <1>2, <1>6, <1>8, <1>9 DEF t

\* Having applied a batch, s needs nothing of what t had up to its end.
LEMMA ApplyDelivers ==
  ASSUME NEW s \in Store, NEW u \in Store, Forward(s, u), NEW t \in Store, NEW b,
         Delivers(s, t, b),
         \A k \in Key : Known(b.recs[k]) => Covers(u, k, b.recs[k])
  PROVE  HasUpTo(u, t, b.next)
<1>1. ASSUME NEW k \in Key, Known(t.rec[k]), t.rec[k].seq <= b.next
      PROVE  Covers(u, k, t.rec[k])
  <2>1. CASE b.recs[k] = t.rec[k]
    BY <2>1, <1>1
  <2>2. CASE Covers(s, k, t.rec[k])
    BY <2>2, RowFacts, CoversForward
  <2> QED BY <2>1, <2>2, <1>1 DEF Delivers
<1> QED BY <1>1 DEF HasUpTo, Delivers

\* An exported batch delivers: what it passes over, its receiver stamped itself
\* or had before.
LEMMA ExportDelivers ==
  ASSUME NEW D, NEW V, World(D, V), NEW d \in Device, NEW p \in Device,
         NEW since \in Nat, HasUpTo(D[d], D[p], since), NEW cut \in Nat,
         NEW b, b = Export(D[p], since, d, cut)
  PROVE  b \in Batch /\ BatchFrom(b, V) /\ Delivers(D[d], D[p], b)
<1> DEFINE t == D[p]
<1>1. /\ t \in Store /\ StoreInv(t, V) /\ t.seq \in Nat /\ since <= t.seq
      /\ b = Export(t, since, d, cut)
  BY DEF World, Store, HasUpTo
<1> HIDE DEF t
<1>2. /\ b \in Batch
      /\ \A k \in Key : b.recs[k] \in {t.rec[k], NoRecord}
      /\ \A n \in Nat : since <= n /\ (\A k \in Key : t.rec[k].seq <= n) => b.next <= n
      /\ \A k \in Key : /\ since < t.rec[k].seq /\ t.rec[k].seq <= b.next
                        /\ t.rec[k].dev # d
                        => b.recs[k] = t.rec[k]
  BY <1>1, ExportFacts
<1>3. BatchFrom(b, V)
  BY <1>1, <1>2 DEF BatchFrom, StoreInv, Known, NoRecord
<1>4. b.next <= t.seq
  BY <1>1, <1>2 DEF StoreInv
<1>5. ASSUME NEW k \in Key, Known(t.rec[k]), t.rec[k].seq <= b.next, b.recs[k] # t.rec[k]
      PROVE  Covers(D[d], k, t.rec[k])
  <2>1. t.rec[k].seq \in Nat
    BY <1>1, RowFacts
  <2>2. CASE t.rec[k].seq <= since
    BY <2>2, <1>5 DEF HasUpTo, t
  <2>3. CASE ~(t.rec[k].seq <= since)
    <3>1. t.rec[k].dev = d
      BY <2>1, <2>3, <1>2, <1>5
    <3>2. VersionOf(k, t.rec[k]) \in V
      BY <1>1, <1>5 DEF StoreInv
    <3>3. ~Wins(k, VersionOf(k, t.rec[k]), D[d].rec[k])
      BY <3>1, <3>2 DEF World, VersionOf
    <3> QED BY <3>3 DEF Covers, Wins, Later, VersionOf
  <2> QED BY <2>2, <2>3
<1> QED BY <1>2, <1>3, <1>4, <1>5 DEF Delivers, t

\* A session keeps what it holds when databases go forward beside it.
LEMMA SessionForward ==
  ASSUME NEW c \in Store, NEW c2 \in Store, Forward(c, c2),
         NEW s \in Store, NEW s2 \in Store, Forward(s, s2),
         NEW V, NEW V2, V \subseteq V2, NEW x \in Session, SessionInv(c, s, V, x)
  PROVE  SessionInv(c2, s2, V2, x)
<1>1. /\ x.base \in Nat /\ x.since \in Nat /\ x.push.next \in Nat /\ x.reply.next \in Nat
  BY DEF Session, Batch
<1>2. BatchFrom(x.push, V2) /\ BatchFrom(x.reply, V2)
  BY DEF SessionInv, BatchFrom
<1>3. HasUpTo(s2, c2, x.base) /\ HasUpTo(c2, s2, x.since)
  BY <1>1, HasUpToForward DEF SessionInv
<1>4. Delivers(s2, c2, x.push) /\ Delivers(c2, s2, x.reply)
  BY <1>1, DeliversForward DEF SessionInv
<1>5. PushTaken(x) => HasUpTo(s2, c2, x.push.next)
  BY <1>1, HasUpToForward DEF SessionInv
<1>6. ReplyTaken(x) => HasUpTo(c2, s2, x.reply.next)
  BY <1>1, HasUpToForward DEF SessionInv
<1> QED BY <1>2, <1>3, <1>4, <1>5, <1>6 DEF SessionInv
=============================================================================
