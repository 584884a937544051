---------------------------- MODULE SyncSession ----------------------------
(***************************************************************************)
(* Paired devices that edit one account and sync it: net/session.rs and    *)
(* net/service.rs over the merge core of SyncRecords.                      *)
(*                                                                         *)
(* A link is <<c, s>>: c dials (rounds), s answers (serve).  Each exchange *)
(* of rounds() is a session in a slot of its link; both sides do their     *)
(* database work in spawn_blocking tasks that nothing cancels, so a side   *)
(* that was given up still finishes what it had started, beside the        *)
(* sessions begun after it.  Every step is one SQLite transaction or one   *)
(* message, and edits of the account fall between any two steps.           *)
(***************************************************************************)
EXTENDS SyncRecords

CONSTANTS
  Link,          \* which device dials which
  Slot,          \* sessions of one link that may overlap
  Host,          \* the desktop whose account the others were paired into
  Editors,       \* devices whose app edits account, preferences and codes
  Password0, CodeBody,
  Clock,         \* what a device may read from its clock
  BatchSizes,    \* where a batch may end
  MaxEdits, MaxFaults   \* bounds of the model

ASSUME SyncSessionAssumption ==
  /\ Link \subseteq {l \in Device \X Device : l[1] # l[2]}
  /\ Host \in Device /\ Editors \subseteq Device
  /\ Password0 \in Value /\ CodeBody \in Value
  /\ Clock \subseteq Nat
  /\ BatchSizes \subseteq Nat \ {0}
  /\ MaxEdits \in Nat /\ MaxFaults \in Nat

VARIABLES
  db,        \* the database of each device
  peer,      \* sync_peer: is the row not revoked, pulled_seq, pushed_seq
  sess,      \* the sessions of each link
  unseen,    \* a batch changed the data and generation has not risen since
  issued,    \* history: every version that a scan ever stamped
  edits, faults

vars == <<db, peer, sess, unseen, issued, edits, faults>>

-----------------------------------------------------------------------------
(* Sessions *)

ClientStage == {"idle", "export", "rescan", "reexport", "wait",
                "apply", "ackPull", "ackPush"}
ServerStage == {"none", "request", "apply", "ackPull", "ackPush", "scan",
                "export", "rescan", "reexport", "reply"}

Session == [client : ClientStage, server : ServerStage,
            orphan : BOOLEAN,               \* the dialling side gave up waiting
            since : Nat, base : Nat,        \* pulled_seq and pushed_seq as read
            push : Batch, reply : Batch,
            clientApplied : BOOLEAN, serverApplied : BOOLEAN]

NoSession == [client |-> "idle", server |-> "none", orphan |-> FALSE,
              since |-> 0, base |-> 0, push |-> NoBatch, reply |-> NoBatch,
              clientApplied |-> FALSE, serverApplied |-> FALSE]

\* A session in which neither side has anything left to do is over.
Tidy(x) == IF x.client = "idle" /\ x.server = "none" THEN NoSession ELSE x

SetSession(l, i, x) == sess' = [sess EXCEPT ![l][i] = Tidy(x)]

\* acknowledge_pull and acknowledge_push: only ever raised, only while paired.
AckPull(d, p, n) ==
  peer' = IF peer[d][p].paired /\ n > peer[d][p].pulled
          THEN [peer EXCEPT ![d][p].pulled = n] ELSE peer
AckPush(d, p, n) ==
  peer' = IF peer[d][p].paired /\ n > peer[d][p].pushed
          THEN [peer EXCEPT ![d][p].pushed = n] ELSE peer

ScanOf(d, now) ==
  /\ db' = [db EXCEPT ![d] = Scan(@, d, now)]
  /\ issued' = issued \cup Stamped(db[d], d, now)

ApplyOf(d, b, now) ==
  /\ db' = [db EXCEPT ![d] = Apply(@, d, b, now)]
  /\ issued' = issued \cup Stamped(db[d], d, now)
  /\ unseen' = [unseen EXCEPT ![d] = @ \/ AppliesAny(db[d], d, b, now)]

-----------------------------------------------------------------------------
(* The account as the pairing leaves it: the host's password is on every   *)
(* device, everything else is still to come.                               *)

FirstRecord == [hlc |-> 1, dev |-> Host, val |-> Password0, seq |-> 1]

InitStore(d) ==
  [live |-> [k \in Key |-> CASE k = Account -> Password0
                             [] d = Host /\ k \in Prefs -> Default[k]
                             [] OTHER -> NoValue],
   chosen |-> FALSE,
   rec |-> [k \in Key |-> IF k = Account THEN FirstRecord ELSE NoRecord],
   hlc |-> IF d = Host THEN 1 ELSE 2,
   seq |-> 1,
   quar |-> {}]

Init ==
  /\ db = [d \in Device |-> InitStore(d)]
  /\ peer = [d \in Device |-> [p \in Device |->
               [paired |-> <<d, p>> \in Link \/ <<p, d>> \in Link,
                pulled |-> 0, pushed |-> 0]]]
  /\ sess = [l \in Link |-> [i \in Slot |-> NoSession]]
  /\ unseen = [d \in Device |-> FALSE]
  /\ issued = {VersionOf(Account, FirstRecord)}
  /\ edits = 0 /\ faults = 0

-----------------------------------------------------------------------------
(* What the app writes between syncs (engine/store) *)

Edit(d, k, v) ==
  /\ edits < MaxEdits /\ edits' = edits + 1
  /\ db' = [db EXCEPT ![d].live[k] = v,
                      ![d].chosen = @ \/ k \in Prefs]
  /\ UNCHANGED <<peer, sess, unseen, issued, faults>>

\* Homework, blocks, the standing week, routines: saved or deleted anywhere.
SaveItem(d, k, v) ==
  /\ k \notin Prefs \cup Recovery \cup {Account}
  /\ v # db[d].live[k]
  /\ Edit(d, k, v)

ChangePassword(d, v) ==
  /\ d \in Editors /\ v \in Value /\ v # db[d].live[Account]
  /\ Edit(d, Account, v)

\* A save without a preferences row updates nothing.
SavePreference(d, k, v) ==
  /\ d \in Editors /\ k \in Prefs /\ v \in Value
  /\ db[d].live[k] # NoValue
  /\ v # db[d].live[k] \/ ~db[d].chosen
  /\ Edit(d, k, v)

\* Codes are random: a new one has no row anywhere.
IssueCode(d, k) ==
  /\ d \in Editors /\ k \in Recovery
  /\ \A e \in Device : db[e].live[k] = NoValue
  /\ \A v \in issued : v.key # k
  /\ Edit(d, k, CodeBody)

UseCode(d, k) ==
  /\ d \in Editors /\ k \in Recovery /\ db[d].live[k] # NoValue
  /\ Edit(d, k, NoValue)

LocalEdit == \E d \in Device, k \in Key :
               \/ \E v \in Content : SaveItem(d, k, v) \/ SavePreference(d, k, v)
               \/ \E v \in Value : k = Account /\ ChangePassword(d, v)
               \/ IssueCode(d, k) \/ UseCode(d, k)

\* scan_loop on the desktop; the phone scans after its own writes.
ScanNow(d, now) ==
  /\ ScanOf(d, now)
  /\ UNCHANGED <<peer, sess, unseen, edits, faults>>

-----------------------------------------------------------------------------
(* The dialling side (rounds) *)

ClientScan(l, i, now) ==
  /\ sess[l][i] = NoSession
  /\ peer[l[1]][l[2]].paired
  /\ ScanOf(l[1], now)
  /\ SetSession(l, i, [NoSession EXCEPT !.client = "export",
                                        !.since = peer[l[1]][l[2]].pulled,
                                        !.base = peer[l[1]][l[2]].pushed])
  /\ UNCHANGED <<peer, unseen, edits, faults>>

ClientExport(l, i, cut) ==
  LET x == sess[l][i]
      stale == ExportStale(db[l[1]], x.base, l[2], cut)
  IN  /\ x.client \in {"export", "reexport"}
      /\ SetSession(l, i,
           IF ~stale
           THEN [x EXCEPT !.client = "wait", !.server = "request",
                          !.push = Export(db[l[1]], x.base, l[2], cut)]
           ELSE [x EXCEPT !.client = IF x.client = "export" THEN "rescan" ELSE "idle"])
      /\ UNCHANGED <<db, peer, unseen, issued, edits, faults>>

ClientRescan(l, i, now) ==
  /\ sess[l][i].client = "rescan"
  /\ ScanOf(l[1], now)
  /\ SetSession(l, i, [sess[l][i] EXCEPT !.client = "reexport"])
  /\ UNCHANGED <<peer, unseen, edits, faults>>

\* Positions that do not add up end the session.
ClientReceive(l, i) ==
  LET x == sess[l][i]
  IN  /\ x.client = "wait" /\ x.server = "reply"
      /\ SetSession(l, i, [x EXCEPT !.server = "none",
                                    !.client = IF x.reply.next < x.since THEN "idle"
                                               ELSE "apply"])
      /\ UNCHANGED <<db, peer, unseen, issued, edits, faults>>

ClientApply(l, i, now) ==
  LET x == sess[l][i]
  IN  /\ x.client = "apply"
      /\ ApplyOf(l[1], x.reply, now)
      /\ SetSession(l, i, [x EXCEPT !.client = "ackPull",
                             !.clientApplied = AppliesAny(db[l[1]], l[1], x.reply, now)])
      /\ UNCHANGED <<peer, edits, faults>>

ClientAckPull(l, i) ==
  /\ sess[l][i].client = "ackPull"
  /\ AckPull(l[1], l[2], sess[l][i].reply.next)
  /\ SetSession(l, i, [sess[l][i] EXCEPT !.client = "ackPush"])
  /\ UNCHANGED <<db, unseen, issued, edits, faults>>

\* The last write of the round; generation rises unless nobody waits for it.
ClientAckPush(l, i) ==
  LET x == sess[l][i]
  IN  /\ x.client = "ackPush"
      /\ AckPush(l[1], l[2], x.push.next)
      /\ unseen' = IF x.clientApplied /\ ~x.orphan
                   THEN [unseen EXCEPT ![l[1]] = FALSE] ELSE unseen
      /\ SetSession(l, i, [x EXCEPT !.client = "idle"])
      /\ UNCHANGED <<db, issued, edits, faults>>

-----------------------------------------------------------------------------
(* The answering side (respond, serve) *)

\* paired(): a device that was removed is refused.
ServerAccept(l, i) ==
  LET x == sess[l][i]
  IN  /\ x.server = "request"
      /\ SetSession(l, i, IF peer[l[2]][l[1]].paired
                          THEN [x EXCEPT !.server = "apply"]
                          ELSE [x EXCEPT !.server = "none", !.client = "idle"])
      /\ UNCHANGED <<db, peer, unseen, issued, edits, faults>>

ServerApply(l, i, now) ==
  LET x == sess[l][i]
  IN  /\ x.server = "apply"
      /\ ApplyOf(l[2], x.push, now)
      /\ SetSession(l, i, [x EXCEPT !.server = "ackPull",
                             !.serverApplied = AppliesAny(db[l[2]], l[2], x.push, now)])
      /\ UNCHANGED <<peer, edits, faults>>

ServerAckPull(l, i) ==
  /\ sess[l][i].server = "ackPull"
  /\ AckPull(l[2], l[1], sess[l][i].push.next)
  /\ SetSession(l, i, [sess[l][i] EXCEPT !.server = "ackPush"])
  /\ UNCHANGED <<db, unseen, issued, edits, faults>>

\* What the request asks to start after, the client has.
ServerAckPush(l, i) ==
  /\ sess[l][i].server = "ackPush"
  /\ AckPush(l[2], l[1], sess[l][i].since)
  /\ SetSession(l, i, [sess[l][i] EXCEPT !.server = "scan"])
  /\ UNCHANGED <<db, unseen, issued, edits, faults>>

ServerScan(l, i, now) ==
  LET x == sess[l][i]
  IN  /\ x.server \in {"scan", "rescan"}
      /\ ScanOf(l[2], now)
      /\ SetSession(l, i, [x EXCEPT !.server = IF x.server = "scan" THEN "export"
                                               ELSE "reexport"])
      /\ UNCHANGED <<peer, unseen, edits, faults>>

\* The second failure is answered with a refusal, before generation rises.
ServerExport(l, i, cut) ==
  LET x == sess[l][i]
      stale == ExportStale(db[l[2]], x.since, l[1], cut)
  IN  /\ x.server \in {"export", "reexport"}
      /\ SetSession(l, i,
           CASE ~stale /\ x.client = "wait" ->
                  [x EXCEPT !.server = "reply",
                            !.reply = Export(db[l[2]], x.since, l[1], cut)]
             [] ~stale /\ x.client # "wait" -> [x EXCEPT !.server = "none"]
             [] stale /\ x.server = "export" -> [x EXCEPT !.server = "rescan"]
             [] stale /\ x.server = "reexport" ->
                  [x EXCEPT !.server = "none", !.client = "idle"])
      /\ unseen' = IF ~stale /\ x.serverApplied
                   THEN [unseen EXCEPT ![l[2]] = FALSE] ELSE unseen
      /\ UNCHANGED <<db, peer, issued, edits, faults>>

-----------------------------------------------------------------------------
(* What goes wrong *)

Fault == faults < MaxFaults /\ faults' = faults + 1

\* The deadline or cancel_sync ends the wait of the dialling side.  Waiting for
\* the peer ends there; a blocking task goes on, and the answering side too.
Abandon(l, i) ==
  LET x == sess[l][i]
  IN  /\ Fault
      /\ ~x.orphan
      /\ \/ /\ x.client \in {"export", "rescan", "reexport", "wait"}
            /\ SetSession(l, i, [x EXCEPT !.client = "idle",
                                   !.server = IF @ = "reply" THEN "none" ELSE @])
         \/ /\ x.client \in {"apply", "ackPull", "ackPush"}
            /\ SetSession(l, i, [x EXCEPT !.orphan = TRUE])
      /\ UNCHANGED <<db, peer, unseen, issued, edits>>

\* The connection breaks under a message.
Lose(l, i) ==
  /\ Fault
  /\ sess[l][i].server \in {"request", "reply"}
  /\ SetSession(l, i, [sess[l][i] EXCEPT !.server = "none", !.client = "idle"])
  /\ UNCHANGED <<db, peer, unseen, issued, edits>>

\* The app is killed: its tasks are gone, what they committed is not, and the
\* next start loads everything.
Crash(d) ==
  /\ Fault
  /\ sess' = [l \in Link |-> [i \in Slot |->
       LET x == sess[l][i]
           clientDies == l[1] = d
           serverDies == l[2] = d /\ x.server # "none"
       IN  Tidy([x EXCEPT
             !.client = IF clientDies \/ (serverDies /\ @ = "wait") THEN "idle" ELSE @,
             !.server = IF serverDies \/ (clientDies /\ @ = "reply") THEN "none" ELSE @])]]
  /\ unseen' = [unseen EXCEPT ![d] = FALSE]
  /\ UNCHANGED <<db, peer, issued, edits>>

\* unlink(), and the bye it sends, on either device.
Unlink(d, p) ==
  /\ Fault
  /\ peer[d][p].paired
  /\ peer' = [peer EXCEPT ![d][p].paired = FALSE]
  /\ UNCHANGED <<db, sess, unseen, issued, edits>>

\* record_peer(): a pairing starts both cursors at 0, on a side that still had
\* the other as paired too (rare enough to count as a fault).
RecordPeer(d, p) ==
  /\ <<d, p>> \in Link \/ <<p, d>> \in Link
  /\ peer' = [peer EXCEPT ![d][p] = [paired |-> TRUE, pulled |-> 0, pushed |-> 0]]
  /\ IF peer[d][p].paired THEN Fault ELSE UNCHANGED faults
  /\ UNCHANGED <<db, sess, unseen, issued, edits>>

-----------------------------------------------------------------------------

ClientStep(l, i) ==
  \/ \E now \in Clock : \/ ClientScan(l, i, now) \/ ClientRescan(l, i, now)
                        \/ ClientApply(l, i, now)
  \/ \E cut \in BatchSizes : ClientExport(l, i, cut)
  \/ ClientReceive(l, i) \/ ClientAckPull(l, i) \/ ClientAckPush(l, i)

ServerStep(l, i) ==
  \/ \E now \in Clock : ServerApply(l, i, now) \/ ServerScan(l, i, now)
  \/ \E cut \in BatchSizes : ServerExport(l, i, cut)
  \/ ServerAccept(l, i) \/ ServerAckPull(l, i) \/ ServerAckPush(l, i)

Disturbance ==
  \/ \E l \in Link, i \in Slot : Abandon(l, i) \/ Lose(l, i)
  \/ \E d \in Device : Crash(d)
  \/ \E d, p \in Device : Unlink(d, p)

Next ==
  \/ LocalEdit
  \/ \E d \in Device, now \in Clock : ScanNow(d, now)
  \/ \E l \in Link, i \in Slot : ClientStep(l, i) \/ ServerStep(l, i)
  \/ \E d, p \in Device : RecordPeer(d, p)
  \/ Disturbance

Spec == Init /\ [][Next]_vars

\* A task that was started runs, a peer that is asked answers, and both apps
\* sync again and again.
FairSpec ==
  /\ Spec
  /\ \A l \in Link, i \in Slot : WF_vars(ClientStep(l, i)) /\ WF_vars(ServerStep(l, i))

-----------------------------------------------------------------------------
(* Properties *)

TypeOK ==
  /\ db \in [Device -> Store]
  /\ peer \in [Device -> [Device -> [paired : BOOLEAN, pulled : Nat, pushed : Nat]]]
  /\ sess \in [Link -> [Slot -> Session]]
  /\ unseen \in [Device -> BOOLEAN]
  /\ issued \subseteq Version
  /\ edits \in Nat /\ faults \in Nat

\* d needs nothing more of r: what it has for k is as new, or it put r aside.
Covered(d, k, r) == \/ ~Wins(k, r, db[d].rec[k])
                    \/ VersionOf(k, r) \in db[d].quar

\* The cursors are only ever raised (peers.rs), so a record below one is never
\* sent again: the device it is for must have it, whatever sessions overlapped,
\* were given up or ran twice.
NothingLostBelowCursor ==
  \A d, p \in Device, k \in Key :
    LET r == db[p].rec[k]
    IN  Known(r) => /\ r.seq <= peer[d][p].pulled => Covered(d, k, r)
                    /\ r.seq <= peer[p][d].pushed => Covered(d, k, r)

\* "hlc, device" names one version: two devices that compare stamps as equal
\* (apply.rs keeps what it has) hold the same content, and every record in a
\* database or a message was stamped by the device it names.
StampAgreement ==
  /\ \A v, w \in issued : v.hlc = w.hlc /\ v.dev = w.dev => v = w
  /\ \A d \in Device, k \in Key :
       Known(db[d].rec[k]) => VersionOf(k, db[d].rec[k]) \in issued
  /\ \A l \in Link, i \in Slot, k \in Key :
       /\ Known(sess[l][i].push.recs[k]) =>
            VersionOf(k, sess[l][i].push.recs[k]) \in issued
       /\ Known(sess[l][i].reply.recs[k]) =>
            VersionOf(k, sess[l][i].reply.recs[k]) \in issued

\* Two devices with nothing left to send hold the same planner, apart from what
\* either put aside and what nobody chose.
Settled(d, p) ==
  /\ peer[d][p].pulled >= db[p].seq /\ peer[d][p].pushed >= db[d].seq
  /\ Dirty(db[d]) = {} /\ Dirty(db[p]) = {}
  /\ db[d].quar = {} /\ db[p].quar = {}
SettledMeansEqual ==
  \A d, p \in Device : Settled(d, p) =>
    \A k \in Key : \/ db[d].live[k] = db[p].live[k]
                   \/ ~Known(db[d].rec[k]) /\ ~Known(db[p].rec[k])

\* "a remote record can never overwrite a local edit that has not been stamped
\* yet" (scan.rs): whatever replaces an edit, the edit has its own version.
EditStampedBeforeOverwrite ==
  [][\A d \in Device : \A k \in Dirty(db[d]) :
       db'[d].rec[k] # db[d].rec[k] =>
         \E v \in issued' \ issued : /\ v.key = k /\ v.dev = d
                                     /\ v.val = db[d].live[k]]_vars

\* A recovery code used on one device never comes back on one that knows.
UsedCodeStaysUsed ==
  [][\A d \in Device, k \in Recovery :
       Tombstone(db[d].rec[k]) => db'[d].live[k] = NoValue]_vars

\* What a desktop chose is not overwritten for a device that never saved any
\* settings (scan.rs, the comment on untouched defaults).
ChosenSettingsSurvive ==
  [][\A k \in Prefs :
       /\ db[Host].chosen /\ edits' = edits
       /\ db'[Host].live[k] # db[Host].live[k]
       => \E d \in Device \ {Host} : db[d].chosen]_vars

\* generation "rises whenever a batch changed this device's data" (service.rs):
\* until it has, a session that will raise it is running.
ReloadIsComing ==
  \A d \in Device : unseen[d] =>
    \E l \in Link, i \in Slot :
      \/ l[1] = d /\ sess[l][i].clientApplied /\ ~sess[l][i].orphan
      \/ l[2] = d /\ sess[l][i].serverApplied

\* Once the edits are over and the devices stay paired, every device comes to
\* show the same planner.
Agreed == \A l \in Link : \A k \in Key : db[l[1]].live[k] = db[l[2]].live[k]
Converges == <>[](\A l \in Link : peer[l[1]][l[2]].paired /\ peer[l[2]][l[1]].paired)
               => <>[]Agreed
=============================================================================
