--------------------------- MODULE SyncInvariant ---------------------------
(***************************************************************************)
(* The inductive invariant of SyncSession, and the refinement mapping to   *)
(* VersionedReplicas.  The operators speak of databases, sets of versions  *)
(* and sessions as values, so that what holds of them is stated once for   *)
(* every step.                                                             *)
(***************************************************************************)
EXTENDS SyncSession

\* s needs nothing more of version r: what it has is as new, or it put r aside.
Covers(s, k, r) == ~Wins(k, r, s.rec[k]) \/ VersionOf(k, r) \in s.quar

\* s needs nothing of what t has up to place n.
HasUpTo(s, t, n) ==
  /\ n <= t.seq
  /\ \A k \in Key : Known(t.rec[k]) /\ t.rec[k].seq <= n => Covers(s, k, t.rec[k])

\* Taking batch b, s needs nothing of what t has up to b.next.
Delivers(s, t, b) ==
  /\ b.next <= t.seq
  /\ \A k \in Key : Known(t.rec[k]) /\ t.rec[k].seq <= b.next
                      => b.recs[k] = t.rec[k] \/ Covers(s, k, t.rec[k])

-----------------------------------------------------------------------------
(* Databases D and the versions V in the world *)

BatchFrom(b, V) == \A k \in Key : Known(b.recs[k]) => VersionOf(k, b.recs[k]) \in V

StampsDistinct(V) == \A v, w \in V : v.hlc = w.hlc /\ v.dev = w.dev => v = w

\* Every row has its place, its stamp and its origin; used codes have no row.
StoreInv(s, V) ==
  /\ \A k \in Key : /\ s.rec[k].seq <= s.seq /\ s.rec[k].hlc <= s.hlc
                    /\ Known(s.rec[k]) => VersionOf(k, s.rec[k]) \in V
  /\ \A k \in Recovery : Tombstone(s.rec[k]) => s.live[k] = NoValue

\* A device has seen its own stamps, and still has what it stamped or better.
World(D, V) ==
  /\ D \in [Device -> Store] /\ V \subseteq Version
  /\ StampsDistinct(V)
  /\ \A d \in Device : StoreInv(D[d], V)
  /\ \A v \in V : /\ v.hlc <= D[v.dev].hlc
                  /\ ~Wins(v.key, v, D[v.dev].rec[v.key])

-----------------------------------------------------------------------------
(* Sessions x between the database c that dials and s that answers *)

PushTaken(x) == \/ x.server \notin {"none", "request", "apply"}
                \/ x.client \in {"apply", "ackPull", "ackPush"}
ReplyTaken(x) == x.client \in {"ackPull", "ackPush"}

SessionInv(c, s, V, x) ==
  /\ BatchFrom(x.push, V) /\ BatchFrom(x.reply, V)
  /\ HasUpTo(s, c, x.base) /\ HasUpTo(c, s, x.since)
  /\ Delivers(s, c, x.push) /\ Delivers(c, s, x.reply)
  /\ PushTaken(x) => HasUpTo(s, c, x.push.next)
  /\ ReplyTaken(x) => HasUpTo(c, s, x.reply.next)

Cursors == \A d, p \in Device : /\ HasUpTo(db[d], db[p], peer[d][p].pulled)
                                /\ HasUpTo(db[p], db[d], peer[d][p].pushed)

Sessions == \A l \in Link, i \in Slot :
              SessionInv(db[l[1]], db[l[2]], issued, sess[l][i])

\* The inductive invariant: no cursor of a device and no cursor that a session
\* will still write runs ahead of what was handed over (peers.rs, session.rs).
IInv == TypeOK /\ World(db, issued) /\ Cursors /\ Sessions

-----------------------------------------------------------------------------

NoVersion(k) == VersionOf(k, NoRecord)
Held == [d \in Device |-> [k \in Key |-> VersionOf(k, db[d].rec[k])]]

Replicas == INSTANCE VersionedReplicas WITH held <- Held, Nothing <- NoVersion

\* Whatever the sessions do, each device moves from issued version to newer
\* issued version and no stamp names two contents (apply.rs, scan.rs).
ImplementsReplicas == Replicas!ReplicasSpec
=============================================================================
