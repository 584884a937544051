---------------------------- MODULE SyncRecords ----------------------------
(***************************************************************************)
(* The merge core of device sync: what one SQLite database of one account  *)
(* holds (engine/sync/src/schema.rs) and the three functions that work on  *)
(* it inside one transaction each: scan.rs stamps local edits, apply.rs    *)
(* merges the records of a peer, records.rs exports a batch for a peer.    *)
(*                                                                         *)
(* An entity and its key are one member of Key; keys are numbers so that   *)
(* they have the order of the BTreeMap in records.rs.  A body is a member  *)
(* of Value and stands for its own digest; NoValue is "no row".  Device    *)
(* ids are numbers, ordered as the strings of the code are.  Clock         *)
(* readings are numbers too, and a stamp is now * W + counter, W being     *)
(* 2^16 in the code.                                                       *)
(***************************************************************************)
EXTENDS Naturals, FiniteSets, FiniteSetsExt

CONSTANTS
  Device,        \* device ids
  Key,           \* (entity, key) pairs
  Account,       \* the account record, "account/-"
  Prefs,         \* the pref records: columns of the one preferences row
  PlannerPrefs,  \* the prefs that untouched_migration_default lists
  Recovery,      \* the recovery codes
  Value, NoValue,
  Default,       \* the schema default of each pref
  W,             \* stamps per clock tick
  MaxFuture,     \* MAX_FUTURE_MS
  Malformed,     \* bodies that bad() of a device refuses (its build knows less)
  Unwritable     \* bodies whose write fails on a device (a username taken there)

ASSUME SyncRecordsAssumption ==
  /\ Device \subseteq Nat \ {0}
  /\ Key \subseteq Nat /\ IsFiniteSet(Key)
  /\ Account \in Key
  /\ Prefs \subseteq Key /\ PlannerPrefs \subseteq Prefs
  /\ Recovery \subseteq Key
  /\ Account \notin Prefs \cup Recovery /\ Prefs \cap Recovery = {}
  /\ NoValue \notin Value
  /\ Default \in [Prefs -> Value]
  /\ W \in Nat \ {0} /\ MaxFuture \in Nat
  /\ Malformed \in [Device -> SUBSET Value]
  /\ Unwritable \in [Device -> SUBSET Value]

Content == Value \cup {NoValue}

\* A row of sync_record. NoRecord, the only one with seq 0, is a missing row.
NoRecord == [hlc |-> 0, dev |-> 0, val |-> NoValue, seq |-> 0]
Record == [hlc : Nat, dev : Device, val : Content, seq : Nat \ {0}] \cup {NoRecord}

\* What is left of a record without the local cursor: the merge decides on it.
Version == [key : Key, hlc : Nat, dev : Device, val : Content]
VersionOf(k, r) == [key |-> k, hlc |-> r.hlc, dev |-> r.dev, val |-> r.val]

Store == [live : [Key -> Content],    \* the planner's own tables
          chosen : BOOLEAN,           \* preferences.planner_settings_chosen
          rec : [Key -> Record],      \* sync_record
          hlc : Nat, seq : Nat,       \* sync_device.hlc_last, seq_last
          quar : SUBSET Version]      \* sync_quarantine

Batch == [recs : [Key -> Record], lead : BOOLEAN, next : Nat]
NoBatch == [recs |-> [k \in Key |-> NoRecord], lead |-> FALSE, next |-> 0]

Known(r) == r.seq > 0
Tombstone(r) == Known(r) /\ r.val = NoValue

-----------------------------------------------------------------------------
(* clock.rs *)

\* Fault: a clock that stands still gives the same stamp again.
NextHlcStuck(last, now) == IF now * W > last THEN now * W ELSE last
NextHlc(last, now) == IF now * W > last THEN now * W ELSE last + 1

-----------------------------------------------------------------------------
(* The order of versions (apply.rs): newest stamp wins, the device id      *)
(* breaks a tie, and a used recovery code beats an unused one whatever the *)
(* stamps say.                                                             *)

Later(r, l) == r.hlc > l.hlc \/ (r.hlc = l.hlc /\ r.dev > l.dev)

\* Fault: a deleted row counts as no row.
WinsOverDeleted(k, r, l) == l.val = NoValue \/ Later(r, l)

Wins(k, r, l) ==
  \/ ~Known(l)
  \/ k \in Recovery /\ r.val = NoValue /\ ~Tombstone(l)
  \/ /\ k \notin Recovery \/ ~Tombstone(l) \/ r.val = NoValue
     /\ Later(r, l)

-----------------------------------------------------------------------------
(* scan.rs: rows whose content is not what sync_record says get a new      *)
(* stamp, live rows first in key order, then the rows that are gone.       *)

\* Fault: every live row that differs is published.
NeverUntouched(s, k) == FALSE
UntouchedDefault(s, k) ==
  /\ ~s.chosen /\ ~Known(s.rec[k])
  /\ k \in PlannerPrefs /\ s.live[k] = Default[k]

Changed(s) == {k \in Key : /\ s.live[k] # NoValue
                           /\ s.live[k] # s.rec[k].val
                           /\ ~UntouchedDefault(s, k)}
\* Fault: only live rows are compared.
NeverGone(s) == {}

Gone(s) == {k \in Key : s.live[k] = NoValue /\ s.rec[k].val # NoValue}
Dirty(s) == Changed(s) \cup Gone(s)

Rank(k, S) == Cardinality({j \in S : j <= k})
ScanPlace(s, k) == IF k \in Changed(s) THEN Rank(k, Changed(s))
                   ELSE Cardinality(Changed(s)) + Rank(k, Gone(s))

Scan(s, d, now) ==
  LET first == NextHlc(s.hlc, now)
      count == Cardinality(Changed(s)) + Cardinality(Gone(s))
  IN  [s EXCEPT !.rec = [k \in Key |->
                           IF k \in Dirty(s)
                           THEN [hlc |-> first + ScanPlace(s, k) - 1, dev |-> d,
                                 val |-> s.live[k], seq |-> s.seq + ScanPlace(s, k)]
                           ELSE s.rec[k]],
                !.hlc = IF count = 0 THEN @ ELSE first + count - 1,
                !.seq = @ + count]

\* The versions a scan puts into the world.
Stamped(s, d, now) == {VersionOf(k, Scan(s, d, now).rec[k]) : k \in Dirty(s)}

-----------------------------------------------------------------------------
(* records.rs, export_since: the records past a cursor, oldest first,      *)
(* without those of the requester; the first batch leads with the account. *)
(* cut stands for BATCH_LIMIT and for the byte budget, whichever ends the  *)
(* batch first.                                                            *)

Rows(s, since) == {k \in Key : s.rec[k].seq > since}
Foreign(s, since, to) == {k \in Rows(s, since) : s.rec[k].dev # to}
Leads(s, since, to) == since = 0 /\ Account \in Foreign(s, since, to)

ExportPlace(s, since, to, k) ==
  IF k = Account /\ Leads(s, since, to) THEN 1
  ELSE Cardinality({j \in Foreign(s, since, to) :
                      \/ s.rec[j].seq <= s.rec[k].seq
                      \/ j = Account /\ Leads(s, since, to)})

Sent(s, since, to, cut) ==
  {k \in Foreign(s, since, to) : ExportPlace(s, since, to, k) <= cut}

\* "record changed since last scan": the row that ends the batch is checked too.
ExportStale(s, since, to, cut) ==
  \E k \in Sent(s, since, to, cut + 1) :
    s.rec[k].val # NoValue /\ s.live[k] # s.rec[k].val

\* Fault: the leading account row moves the cursor to its own place.
PassedWithLead(s, since, to, cut) ==
  {k \in Rows(s, since) :
     \A j \in Foreign(s, since, to) \ Sent(s, since, to, cut) :
       s.rec[k].seq < s.rec[j].seq \/ (k = Account /\ Leads(s, since, to))}

\* Fault: a batch that was cut short acknowledges every row.
PassedAll(s, since, to, cut) == Rows(s, since)

\* The rows passed before the batch ended, the leading account row apart.
Passed(s, since, to, cut) ==
  {k \in Rows(s, since) :
     /\ ~(k = Account /\ Leads(s, since, to))
     /\ \A j \in Foreign(s, since, to) \ Sent(s, since, to, cut) :
          s.rec[k].seq < s.rec[j].seq}

Export(s, since, to, cut) ==
  [recs |-> [k \in Key |-> IF k \in Sent(s, since, to, cut) THEN s.rec[k]
                           ELSE NoRecord],
   lead |-> Leads(s, since, to),
   next |-> Max({since} \cup {s.rec[k].seq : k \in Passed(s, since, to, cut)})]

-----------------------------------------------------------------------------
(* apply.rs, apply_batch: one write transaction that scans first and then  *)
(* takes the records in the order of the batch.                            *)

Future(r, now) == r.hlc \div W > now + MaxFuture

Bad(d, k, r) == \/ k \in Prefs \cup {Account} /\ r.val = NoValue
                \/ r.val \in Malformed[d]

Winners(t, d, b) ==
  {k \in Key : Known(b.recs[k]) /\ b.recs[k].dev # d /\ Wins(k, b.recs[k], t.rec[k])}

SetAside(t, d, b, now) ==
  {k \in Key : /\ Known(b.recs[k])
               /\ \/ Future(b.recs[k], now)
                  \/ Bad(d, k, b.recs[k])
                  \/ k \in Winners(t, d, b) /\ b.recs[k].val \in Unwritable[d]}

Taken(t, d, b, now) == Winners(t, d, b) \ SetAside(t, d, b, now)

ApplyPlace(b, taken, k) ==
  IF k = Account /\ b.lead THEN 1
  ELSE Cardinality({j \in taken : \/ b.recs[j].seq <= b.recs[k].seq
                                  \/ j = Account /\ b.lead})

\* Fault: the clock does not move past what it has seen.
Unobserved(t, b, taken, now) ==
  IF taken = {} THEN t.hlc ELSE NextHlc(t.hlc, now) + Cardinality(taken) - 1

\* hlc_last after observe() of each taken record in turn.
Observed(t, b, taken, now) ==
  LET count == Cardinality(taken)
  IN  IF taken = {} THEN t.hlc
      ELSE Max({NextHlc(t.hlc, now) + count - 1} \cup
               {b.recs[k].hlc + 1 + count - ApplyPlace(b, taken, k) : k \in taken})

\* Fault: the envelope is stored in place of the body.
LiveEnvelope(t, b, taken) ==
  [k \in Key |-> IF k \in taken THEN b.recs[k] ELSE t.live[k]]

\* The first pref of a device that has no preferences row inserts the whole row.
LiveAfter(t, b, taken) ==
  [k \in Key |-> CASE k \in taken -> b.recs[k].val
                   [] k \in Prefs \ taken /\ t.live[k] = NoValue
                        /\ Prefs \cap taken # {} -> Default[k]
                   [] OTHER -> t.live[k]]

ApplyScanned(t, d, b, now) ==
  LET taken == Taken(t, d, b, now)
  IN  [t EXCEPT !.live = LiveAfter(t, b, taken),
                !.rec = [k \in Key |->
                           IF k \in taken
                           THEN [b.recs[k] EXCEPT !.seq = t.seq + ApplyPlace(b, taken, k)]
                           ELSE t.rec[k]],
                !.hlc = Observed(t, b, taken, now),
                !.seq = @ + Cardinality(taken),
                !.quar = @ \cup {VersionOf(k, b.recs[k]) : k \in SetAside(t, d, b, now)}]

\* Fault: no scan inside the write transaction.
ApplyUnscanned(s, d, b, now) == ApplyScanned(s, d, b, now)

Apply(s, d, b, now) == ApplyScanned(Scan(s, d, now), d, b, now)
AppliesAny(s, d, b, now) == Taken(Scan(s, d, now), d, b, now) # {}
=============================================================================
