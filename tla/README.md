# FlexWeek in TLA+

FlexWeek plans a student's week. A desktop app (PySide6, with a FastAPI backend
in the same process and an engine in Rust) and an Android app (the same engine
behind a binding) each keep a whole account in an SQLite file, and sync it
directly between paired devices. This directory holds TLA+ modules of the
system's logic, the TLC configurations that check them on small instances, and
proofs for the properties that matter most.

    tlc -workers 2 -config SyncCursors.cfg MCSyncSession     # any run below
    tlapm SyncSessionProofs.tla                              # and the two it extends
    tlapm PairingProofs.tla
    tlapm DeskSaveProofs.tla                                 # and RevisionedWeeksProofs
    tlapm RevisionedWeeksProofs.tla
    tlapm AccountsProofs.tla
    tlapm SignInProofs.tla

## Inventory

| Part | State | Operations | Talks to | What is hard |
|---|---|---|---|---|
| Sync merge core (`engine/sync/src`: clock, scan, records, apply) | `sync_device` (clock, place), `sync_record` (stamp, origin, hash, place), `sync_quarantine`, beside the planner's own tables | `scan`, `export_since`, `apply_batch`, each one transaction | store (reads and writes its tables), sessions | edits that no version describes yet, ties, deletions, clocks that differ, used recovery codes, defaults that look like edits |
| Sync sessions (`net/session.rs`, `net/service.rs`, `peers.rs`) | `sync_peer` cursors, `generation`, the exchanges under way | `sync_once`, `sync_all`, `serve`, `cancel_sync`, `unlink`, scan loop | the peer (messages), merge core, desktop (generation) | blocking tasks that outlive their caller, lost answers, kills between transactions, sessions that overlap, cursors that only rise |
| Pairing (`net/pair.rs`, `qr.rs`, `protocol.rs`, `identity.rs`) | the pairing window, the peer rows, the device key | `pair_start`, `pair_dial`, `pair_cancel`, expiry | merge core (the first batch), sessions | two phones, one code; confirmation against two timeouts; cancel during commit |
| Store (`engine/store/src`) | weeks, homework, standing week, routines, preferences, operations, restore points | `apply` (one batch), saves, deletes, restore | backend, MCP server, phone binding | revisions, all-or-nothing batches, retries by operation id, pruning |
| Accounts (`store/accounts.rs`, `backend/app.py`) | users, sessions, recovery codes, attempts | sign in, recover, change password, delete | store, sync (the account is a record) | a password checked outside the lock, let in before it is checked, expiry, throttle |
| Desktop controller (`desktop/native/controller.py`) | week on screen, weeks set aside, pending save, conflict, undo and redo | save, retry, undo, redo, load, move and add across weeks, restore, remote week | backend (requests and callbacks), sync (generation) | answers to requests of another week, retries, edits during a request |
| Desktop sign-in (`controller.py`, `client.py`, `kept.py`) | the account shown, the cookie, the kept-session file | sign in, resume, sign out, change password, delete | backend, the next launch | answers nobody waits for, a quit between two steps, the order of forgetting and asking |
| Planner (`engine/engine/src`: solver, plan, snapshot, time, validate) | none | pure functions | store, controller | best placement against limits, deadlines, repeats |
| Desk logic (`engine/engine/src/desk`) | focus phase, reminders shown, undo steps | focus, pomodoro, reminders, history, clipboard | controller, phone | restarts, late polls, limits |
| MCP server (`engine/mcp`) | session, last change | tools on blocks and homework | store | retry of a tool call |
| Phone app (`android`), bindings (`engine/ffi`, `engine/py`) | screens, updater | calls into the engine | engine | updater download and install |
| Windows, themes, tools, packaging | presentation | | | not modelled |

What makes each part correct: the merge core and sessions must lose no edit,
bring no deleted or used thing back, and bring devices together; pairing must
admit one phone per code and leave no half; the store must apply a batch once
and wholly; the controller must never overwrite what was edited meanwhile;
accounts must check what they authorise at the moment they write; planner and
desk logic are functions with a reference definition.

The hazards, each at its line, are in `PROJECT.json`.

## Modules

| Module | Contents |
|---|---|
| `SyncRecords` | One database of one account as a record `Store`, and the three transactions as operators on it: `Scan`, `Export`, `Apply`. Pure, no variables. |
| `SyncSession` | Devices that edit and sync: variables, one action per transaction or message, faults, properties. |
| `VersionedReplicas` | What sync promises: each device holds one issued version of every key and only ever moves to a newer one. |
| `SyncInvariant` | The inductive invariant `IInv` and the refinement mapping to `VersionedReplicas`. |
| `SyncRecordsProofs`, `SyncInvariantProofs`, `SyncSessionProofs` | Lemmas about the operators, about databases and sessions as values, and the theorems. |
| `MCSyncSession` | Values for the constants of the sync runs. |
| `Pairing` | A desktop's pairing windows and the phones that call them: both sides of `net/pair.rs`, with the slot, `stop` and `limited` of `net/service.rs`. |
| `PairingInvariant`, `PairingProofs` | The inductive invariant of `Pairing`, and the theorems. |
| `MCPairing` | Values for the constants of the pairing runs. |
| `RevisionedWeeks` | What the account's weeks promise to every program that saves them: registers with revisions, and snapshots that are put back. |
| `RevisionedWeeksProofs` | Two theorems about it. |
| `WeekRoutes` | The routes that write weeks, one transaction each, with the remembered operations. |
| `DeskSave` | The desktop window's copy of the open week against `WeekRoutes`: editing, saving, retrying, undoing, moving, reloading. Implements `RevisionedWeeks`. |
| `DeskSaveProofs` | The three inductive invariants of `DeskSave`, and the theorems. |
| `MCDeskSave` | Values for the constants of the desk runs. |
| `Accounts` | The `/api/auth` routes in the two steps each of them takes: users, sessions, requests. |
| `SignIn` | The desktop window's account, cookie and kept session against `Accounts`, with another device. |
| `AccountsProofs` | Theorems about `Accounts`, and that `SignIn` is such a server with its clients. |
| `SignInProofs` | The inductive invariants of `SignIn`: what the window can still be waiting for, and whom its cookies are of; the theorems. |
| `MCSignIn` | Values for the constants of the sign-in run. |

`Pairing` and `SyncSession` meet in `record_peer`: `Commit` and `Link` are where
`Pairing` calls it, `RecordPeer` of `SyncSession` is what it does to the cursors.
They share no state otherwise, so they are checked apart. `DeskSave` and `SignIn`
model the same window from two sides: what is on screen, and whose it is. They
meet in two places only: `DeskSave` has a session that ends (`Expired`, then
`SignIn`, which empty the window), and `SignIn` has a week that is read or saved
(`Work`), whose answer may say that the session has ended. What a sync brings to
the desktop is `Others` in `DeskSave`, with the notice of it (`AcceptRemoteWeek`)
a step of its own.

### From code to model

A pair of entity and key is one member of `Key`, a number, because the code
walks a `BTreeMap`. A body is a model value and stands for its own digest;
`NoValue` is a missing row. `db[d].live` is what `records::live` reads from the
planner's tables; `db[d].rec` is `sync_record`, where `seq` 0 is a missing row;
`hlc` and `seq` are `sync_device.hlc_last` and `seq_last`; `quar` is
`sync_quarantine`. A stamp is `now * W + counter` with `W` = 2^16 in the code.
`peer[d][p]` is the row of `sync_peer` on `d` about `p`.

`Scan` is `scan_in`: live rows that differ, in key order, then rows that are
gone; each gets the next stamp and the next place. `Export` is `export_since`:
`Rows` past the cursor, `Foreign` without the requester's own, the account in
front when the cursor is 0, `Passed` the rows that move `next_since`. `cut` is
where the batch ends, by count or by bytes. `Apply` is `apply_batch` for a known
account: a scan first, then per record the reasons to set it aside, `Wins`, the
write with its savepoint (`Unwritable` bodies fail), `observe`, the row.

A session of link `<<c, s>>` is one exchange of `rounds` on `c` with `serve` on
`s`. Its stages are the transactions of both sides in the order of the code:

    client  export -> [rescan -> reexport] -> wait -> apply -> ackPull -> ackPush
    server  request -> apply -> ackPull -> ackPush -> scan -> export
                    -> [rescan -> reexport] -> reply

Between any two stages any device may edit, scan, start another session, be
killed, or unlink. `Abandon` is the deadline or `cancel_sync`: waiting ends, a
blocking task goes on (`orphan`), and so does the answering side. `Lose` is a
broken connection, `Crash` a killed app, `RecordPeer` a new pairing that puts
both cursors back to 0. `unseen` is a history variable: a batch changed the data
and `generation` has not risen since. `issued` is the set of all versions that
scans ever stamped.

### Pairing

`win[w]` is one `PairState` with its `PairHost` and the `gate` of its handler.
`stage` is how far `start()` is: bound, listed (in the slot), shown (the code is
returned), or refused by `stop()`. `shut` is how far the window's own shutdown
is: due (the host was taken out of the slot), closing (the flag is set), closed
(the router is down). `ended` stands for `cancelled` and for the time being past
`expires_at_ms`: `decide` treats both alike. `spent` is `paired`. `slot` is
`Ctx.pairing`, `stopping` is `Ctx.stopping` and whether `stop` has emptied the
slot.

`call[c]` is one connection with its two ends, and `mail` is the message on its
way; the two streams of the protocol are strictly in turn, so one place is
enough.

    host  none -> hello -> exporting -> pending -> committing -> recorded
               -> answering -> over
    dial  idle -> waiting -> storing -> linking -> confirming -> paired
                                                 -> undoing   -> failed

`hello` waits for the gate; `exporting`, `pending` and the three commit stages
have it. `committing` and `recorded` are the blocking task of `commit`: it
finishes when the handler is aborted (`CloseRouter`), and the gate is gone with
the handler. `storing` and `linking` are the two transactions of the phone's
blocking task; `left` says that `limited` has dropped the dial that waits for
it. Whether a hello is of another version, wrong or right is chosen at `Decide`,
as the code looks at it only there. A phone starts with no account or with
another one; a batch that cannot be stored is `StoreFails`.

Not in it: keys, proofs, the QR text and address hints (`decide` tells proofs
apart only as right or wrong); what a batch contains; unlinking (in
`SyncSession`); a kill of either process in the middle of a pairing, which
leaves nothing but the rows already committed; a clock that is set back after a
code expired.

### The desktop's weeks

A week's body is the set of its blocks; a block is a model value. `desk` is the
window's copy of the open week: `body` is `blocks`, `base` is
`_committed_blocks`, `pending` is `pending_save`, `travel` and `trip` are
`_traveling` and `_travel_step`, `step` is `_pending_step`. `drafts` is
`_drafts`. `call` is the request whose ticket is current; a request that was
superseded or lost on the way there goes to `strays` and may still be carried
out (`StrayRuns`). `log` is the `operations` table, cut to `KeepOps`.

A request has three steps: the window sends it (`Autosave`, `SwitchWeek`, ...),
the server carries it out and answers (`ServerAnswers`), the window takes the
answer (`SaveOk`, `LoadOk`, ...). Between any two the student may edit, another
window or a phone may save (`Others`), the request or its answer may be lost
(`CallFails`) and the session may end. `history` and `era` are history variables
of `RevisionedWeeks`; so is `ghost`: the blocks the student made, those made
while an answer was to replace the screen (`exposed`), those the code gives up
(`excused`), those a move took along (`carried`), and three marks explained
below: `limbo`, `torn` and `misfiled`.

### Accounts and sign-in

A password is the number of the hash that was made of it: every hash has a salt
of its own, and to know a password is to name its number. Recovery codes are a
batch of pairs, tokens are numbers. A request is a record in `requests` with
what its sender knew when it was sent. A route has two steps where the code has
two: `ReadHash` and `OpenSession` of a login (the hash is compared outside the
lock, and again inside it), `Admit` (the dependency `user`) and the route's own
transaction for the routes of a signed-in account. `born` says which registration
a row or session comes from: SQLite gives a row id again after the greatest was
deleted, so the id does not.

The window has one request it waits for (`call`, the current ticket), and others
whose answers only bring a cookie (`Late`) or learn that the session has ended
(`Expired`). `Rotated` is `client._rotate`: the window drops its connections, so
nobody waits for what they carry, and the server goes on with it. `kept` is the
kept-session file, which outlives `Quit`; `Quit` may happen anywhere, with the
requests carried out or not.

Left out: the throttle, renewal of a session on use, the rules for usernames and
passwords, a new password equal to the old one (422), answers that cannot be
read. The deletion of the session a sign-in replaces is one step with the new
session, not a transaction after it.

### What is left out of the desktop's weeks

Homework beside its blocks (`dirty_assignments`), routines, the standing week,
planning and its previews, months and days shown beside the week, repeats and
times of a block, focus credits; the 409 of a restore point that is gone. Blocks
have no contents but their id, so an edit is an addition, a placement or a move.

### What is left out or merged in sync

- The rounds of one connection are sessions of their own; the loop adds only the
  check "not making progress", which ends a session that would change nothing.
- Reading the cursors and the first scan are one step; raising `generation` is
  one step with the last database call before it. Between them nothing reads
  what the other step writes.
- `last_seen`, status texts, address hints.
- A local transaction that writes several rows (a batch, deleting homework with
  its blocks) is several `Edit` steps: sync sees more intermediate states in the
  model than in the code.
- `scan_in` takes deleted rows in no fixed order, `ScanPlace` in key order: no
  property depends on which of two deletions has the smaller stamp. The checks
  of a record against the account (apply.rs 382-391) are among the `Bad` bodies.
- Recovery codes are random, so `IssueCode` takes one that was never used.
- The first batch, which creates the account on the phone, belongs to pairing:
  `Init` is the state a finished pairing leaves. The i64 range of stamps (year
  292 million) is not reached.

## Runs

| Run | Instance | Shows |
|---|---|---|
| `cursors` | 2 devices, 3 records, batches of 2, 2 edits, 1 fault, fairness | `NothingLostBelowCursor`, `SettledMeansEqual`, `EditStampedBeforeOverwrite`, `TypeOK`, `Converges` |
| `relay` | 3 devices in a star, a recovery code, batches of 1 and 2, 2 edits | `StampAgreement`, `NothingLostBelowCursor`, `UsedCodeStaysUsed`, and that the sessions implement `VersionedReplicas` |
| `overlap` | 2 devices, 2 sessions at a time, batches of 1 and 2, clocks at 0 and 2 with one tick of allowed future, a body the phone does not know, planner preferences | the inductive invariant `IInv`; `ChosenSettingsSurvive` |
| `default_prefs` | as `overlap`, with preferences the untouched-default rule does not list | violation of `ChosenSettingsSurvive` |
| `reload` | 2 devices, 3 edits | violation of `ReloadIsComing` |
| `pairing_calls` | 1 window, 2 phones with a call each, 1 try, fairness of the desktop | `OnePhonePerCode`, `NoneAfterTheTries`, `RecordedIsSpent`, `RecordedInOrder`, `TypeOK`; `HelloIsDecided`, `StopEndsWindows` |
| `pairing_windows` | 2 windows, 2 phones with a call each, 1 try | the inductive invariant `IInv`; `NoStrayWindow` |
| `pairing_fails` | as `pairing_calls` | violation of `FailedPhoneLeavesNothing` |
| `desk_saves` | 2 weeks, 5 blocks, 3 acts, 2 mishaps, 1 remembered operation, 1 restore, fairness | `SavedMeansStored`, `OtherEditsKept`, `MovedBlockInOneWeek`, `UndoTakesBackItsStep`, `NoSilentOverwrite`, `UnsavedIsSaved`, and that the window and the routes implement `RevisionedWeeks` |
| `desk_edits` | as `desk_saves`, 2 acts, no mishap | violation of `EditsKept` |
| `desk_redo` | 2 weeks, 1 block to add, 6 acts, no mishap | violation of `NoLaterChangeGone` |
| `sign_in` | 2 names, 1 code in a set, 2 acts, 1 mishap, fairness | `SessionsOfThisPassword`, `PasswordNeedsProof`, `NothingToResume`, `CodesSeenFirst`, `WindowShowsItsAccount`, `KeptIsCurrent`, `RequestsEnd` |

Why the bounds are enough for the cases to happen: three records and batches of
two give a batch that is cut in the middle, behind the leading account record
and before it; batches of one, that a batch carries nothing but that record (a
device that is only ever sent such batches does not converge, so `Converges` is
asked with batches of two); two edits give two devices that edit the same record, one that
edits what it received, and a deletion against an edit; one fault is a timeout,
a lost answer, a kill, or a pairing in the middle of a session; `W` is small so
that the counter of a stamp passes a clock tick; two clock values further apart
than `MaxFuture` give records from the future. In each run the mutant of
`PROJECT.json` (a dropped scan, a clock that stands still, a cursor that counts
the leading record...) violates the property, so each bound reaches the fault it
is there for.

Two calls at one window give a phone that waits at the gate while the other is
in any stage, a wrong proof between a right one and its confirmation, and a code
that is asked for after it was spent; one try is the bound at which a wrong proof
matters. Two windows give a start that replaces, a start that meets `stop`, and a
call to a window that is no longer shown. `pairing_windows` treats the windows,
and the phones with their calls, as alike (`Renaming`): no formula of that run
tells them apart, and it checks no liveness.

Three acts and two mishaps of `desk_saves` give an edit, a save whose answer is
lost and another edit before the retry; a move, its undo and a phone's batch
between; a week set aside while another is saved; an operation that is forgotten
and sent again (one is remembered). `sign_in` starts with one account, signed in
here (kept or not) and on another device. Two acts are two sign-ins at once,
creation and sign-out, or a resumed session and a change of password; the mishap
is the lost answer, the quit, the timed-out session, or what the other device
does between the two steps of a request. Acts count what the student starts:
answers, acknowledgements and launches are not bounded.

The runs of the desktop do not check for deadlock: when acts and mishaps are used
up and everything is answered, nothing is left to do.

The sync runs are finite because `MaxEdits` and `MaxFaults` bound the edits and
faults; sessions and scans are not bounded. They check for deadlock: a device can
always scan. Pairing is finite by itself, a window and a call being used once, and
its runs do not check for deadlock: when `stop` has closed the windows and every
call is over, nothing is left to do.

### What the violations show

`default_prefs`: scan.rs (52-56) leaves untouched defaults unpublished so that a
phone which never saved settings cannot overwrite the desktop's choice, but only
for the five planner settings. `write_real` inserts the whole preferences row,
at schema defaults, with the first pref record that arrives. When the first
transfer ends between two pref records (a batch holds 500 records), the next
scan on the phone stamps the other defaults as edits, and the next exchange
writes them over the desktop's choice.

`reload`: `SyncStatus.generation` "Rises whenever a batch changed this device's
data" (service.rs 172). `serve` commits the batch and then may fail to build its
answer (the desktop saved twice meanwhile); it returns before `generation` is
raised, and no later session raises it for that batch.

`pairing_fails`: `accept` records the peer only after the confirmation, "so a
phone that cannot finish (another account, a deadline, a dropped connection)
leaves nothing behind on this side" (pair.rs 250-252). The phone may fail after
it has confirmed: in the run it sends the confirmation, the desktop commits, and
the phone's deadline drops `pair_dial` before the answer is read. The phone
reports failure; the desktop lists the phone and the code is spent. What does
hold is `RecordedInOrder`: such a phone has the account, and a phone that reports
success is recorded.

`desk_edits`: "The week saves itself shortly after each change." (spec.md 762),
and controller.py (1227-1228) takes care of one kind of edit: "A save already on
its way keeps this move and applies it once that save has landed, so the reply
cannot put the block back where it was." `add_block` and `add_homework` take no
such care: they do not look at `busy`, `save` then does nothing (1904), and the
answer replaces `blocks` by what the server stored and clears `dirty`
(1988-1992). The toolbar is greyed while a request is on its way; an editor that
is open already still commits. `OtherEditsKept` says that every other edit is
kept.

`desk_redo`: "Undo of a block moved to another week no longer throws away later
changes to that week" (CHANGELOG.md 1544). What the window is doing is kept in
`_traveling`, `_travel_step` and `_pending_step`, beside the save
(`pending_save`), and a request or a save that replaces another one does not
reset them. In the run an addition to the other week supersedes an unanswered
Undo; its answer is filed under the Undo, whose step gets the new revision of
that week (2004-2007). When the window has read the week again (Reload), Redo
names that revision, is accepted, and the week is stored without the block that
was added. `NoSilentOverwrite` says that it takes such a step (`misfiled`).

### What the properties leave out, and why

The model shows more than the properties claim. These are behaviours of the code
that a property has to except. Those that come of the cause of `desk_redo`
(`torn`, `misfiled`, `Unrevised`) are no runs of their own; of the others no doc,
comment or test of the repository says otherwise.

- `excused`: unsaved edits of a week set aside go when a save of another week
  writes that week; an addition to another week goes when its save fails and the
  student edits on (`pending_save` is dropped with everything in it); a block let
  go by hand while another week is being loaded is not placed; an Undo that
  fails takes a waiting save with it; Reload gives edits up on purpose.
- `limbo`: when that Reload fails, what was given up is still on screen, not
  marked unsaved, and the next edit stores it.
- `torn`: a preview, a restore or an addition to another week begins a request
  without looking at `busy`; if an Undo was on its way, `_traveling` and
  `_travel_step` stay set. When another week is opened and edited, save() sends
  that week as it is with the undone side of the first one, and a moved block may
  be in both. A save that is accepted though a week of it was not at the revision
  it names (it reads as it is to be already, weeks.rs 55-60), or that is made from
  a week in `limbo`, is `torn` too. So is reading the open week again at the
  revision the window has, with another body (`Mistaken`): a restore point brought
  it back and others saved it as often as the window had. `_load_assignments`
  compares revisions only (917), so the steps of the week that was there stay
  good, and Undo writes one of its versions over the restored week, a block that
  was moved with it. It takes two saves of the phone after the restore;
  `desk_saves` has fewer mishaps.
- `misfiled`: the answer to a save is filed under a step whose own save was given
  up. The step then names revisions that are not those of what it wrote. A step that
  put a block where it was already (`Doubles`), answered by what an earlier try of
  the same save did, is one too.
- `Unrevised`: or none at all. A move to another week fails, an addition to a
  third week is answered and filed under it; Undo of that step stops at
  `entry["revision"]` (1881) before anything is sent, and so does each later save
  while the week is marked unsaved. It takes three weeks; `desk_saves` has two.
- `twice`: a draft from which a block was moved may hold a block its target week
  holds too; the save is refused with 422 and tried again every six seconds.
- After a restore point is put back, revisions come round again with other
  bodies (`era`), so a save made before is accepted. A retry with a new operation
  id after a lost answer gets 409 against the window's own save. Restoring twice
  in a session reuses the operation id and gets 409.
- `aborted` (`SignIn`): Return in a sign-in field does not look at `busy`. A
  sign-in sent while the kept session is tried is dropped without an answer when
  that fails, and the window stays busy until the next try (`RequestsEnd` excepts
  it). Return pressed twice while creating an account supersedes the first
  request: its recovery codes are never shown, and the second is told that the
  name is taken.
- After a change of password whose answer was lost the window has no valid
  session, and neither has the file: both keep the token from before
  (`KeptIsCurrent` holds of it).
- A request of the window that is answered after its own change of password was
  carried out, and before that answer, is told that the session has ended: the
  window signs out.
- A change of password opens its session without `keep`, for seven days, though
  the window keeps its token. Replaced recovery codes may be lost by quitting
  before they are acknowledged: the session is kept already. Undoing a failed
  pairing revokes an earlier, working link of the two devices (pair.rs 655).

## Fairness

`FairSpec` of `SyncSession` asks weak fairness of every step of both sides of every session. A
started step is a task of the runtime's blocking pool, which runs it; a new
session starts again and again because the phone syncs every five seconds while
it is in front (`ForegroundSync.kt`) and from `SyncWorker`, and the desktop
syncs its linked phones on request. A peer that is asked answers, or the
deadline ends the wait, which is a fault. Edits and faults have no fairness, and
`Converges` claims nothing unless both rows stay paired.

`FairSpec` of `Pairing` asks it of the desktop only: of the steps of each handler
(its waits end after 10, 15 or 5 seconds, and tokio's mutex serves those who wait
in order), of a `start()` that has bound its endpoint, of a shutdown (given 2
seconds), and of `stop()` once begun. A phone may fall silent at any point and a
connection may stay open for good.

`DeskSave` asks it of the server (`ServerAnswers`: every request of the local
server is answered, or `CallFails`) and of the window taking an answer, which the
event loop does. The autosave timer fires every six seconds and does nothing
while a request is on its way; as the window is without one again and again, it
gets its turn: strong fairness of `Autosave`. Nothing is asked of the student.

`SignIn` asks weak fairness of the server (`Served`) and of the window taking an
answer (`Replies`). Every request has a timeout of its own (`Loses`), so none is
answered never.

## Proofs

### Sync

`SyncSessionProofs` proves, for any set of devices, records, links, any number
of overlapping sessions, edits and faults, any batch sizes, clocks and bodies
refused or unwritable:

| Theorem | Property |
|---|---|
| `Invariant` | `Spec => []IInv` |
| `TypeCorrect` | `Spec => []TypeOK` |
| `NothingLost` | `Spec => []NothingLostBelowCursor` |
| `StampsAgree` | `Spec => []StampAgreement` |
| `SettledEqual` | `Spec => []SettledMeansEqual` |
| `UsedCodes` | `Spec => UsedCodeStaysUsed` |
| `EditsStamped` | `Spec => EditStampedBeforeOverwrite` |
| `Implements` | `Spec => ImplementsReplicas` |

Assumptions: the ones named in the modules (`SyncRecordsAssumption`,
`SyncSessionAssumption`): device ids are positive numbers, there are finitely
many keys, the account is neither a preference nor a recovery code, defaults are
values, a device does not sync with itself, a batch may hold at least one
record.

The argument. `NothingLostBelowCursor` is not inductive: cursors are raised to
positions that a session has carried for a while, on a device whose database
went on meanwhile. `IInv` adds what a session carries: the positions it read
(`base`, `since`) are covered already, each batch under way *delivers* (taking
it, the receiver needs nothing of the sender up to its position), and past the
stage that applied it, it *has* been delivered. Three facts make that inductive:

1. Every step moves every database *forward* (`Forward`): a row is replaced only
   by a winner at a new place, and the quarantine forgets nothing. So whatever
   was covered stays covered, and a batch that delivers still does, however long
   it is under way (`SessionForward`).
2. An export delivers (`ExportDelivers`): a row that is passed without being
   sent is the receiver's own, which it has or has moved on from (`World`: a
   device still has what it stamped, or better).
3. An apply delivers (`ApplyDelivers`): each record is taken, or loses, or is
   set aside.

`Wins` is transitive along versions with distinct stamps (`WinsTransitive`),
which needs `StampsDistinct`; that needs every scan's stamps to be later than
everything the device has seen, which is what `hlc` in `StoreInv` and `World`
says. The refinement then follows step by step: a database transaction is
`Advance` of one device, everything else a stutter.

Only model-checked: `ChosenSettingsSurvive`, `Converges` (liveness is out of the
prover's reach), and the two violations.

### Pairing

`PairingProofs` proves, for any number of windows, phones, calls and tries, from
`PairingAssumption` (`None` is none of them, every call has a phone, there is at
least one try):

| Theorem | Property |
|---|---|
| `Invariant` | `Spec => []IInv` |
| `TypeCorrect` | `Spec => []TypeOK` |
| `OnePhone` | `Spec => []OnePhonePerCode` |
| `TriesHold` | `Spec => []NoneAfterTheTries` |
| `Spent` | `Spec => []RecordedIsSpent` |
| `InOrder` | `Spec => []RecordedInOrder` |
| `NoStray` | `Spec => []NoStrayWindow` |

The argument. "One handler at a time has the gate" is not inductive, because
closing the router takes the gate from a handler whose commit goes on. `GateInv`
says instead: past the proof a handler has the gate, or its window is closed and
it commits; and two handlers of one window are never both past the proof. The
second follows because a closed window has no call left that could be decided
(`LineInv`). `CodeInv` carries what the handler found at `Decide` (tries left,
not spent) to the moment it spends the code: nobody else of this window can
change either meanwhile. `OrderInv` ties a message to what its sender had done
before, which gives `RecordedInOrder`. `SlotInv` says that the slot holds exactly
the window that listens and that nobody is shutting down.

The proof follows the owners of the state: a step of a handler changes its call
and its window (`HostMove`), a step of a phone its call and that phone's rows
(`PhoneMove`), a step of a window its record and the slot (`WindowMove`). One
lemma for each kind says what cannot have changed for all the others, and one
lemma per action does the rest.

Only model-checked: `HelloIsDecided` and `StopEndsWindows` (liveness), and the
violation.

### Weeks

`RevisionedWeeksProofs` proves, for any sets of weeks and bodies:

| Theorem | Property |
|---|---|
| `RevisionsNameBodies` | `Spec => []RevisionNamesBody` |
| `NoSaveIsStale` | `Spec => SavesReplaceWhatTheyRead` |

The inductive invariant is `RegisterInv`: the stored version of each week is in
the history, and no version of this era has a greater revision; so a save adds
one that is new.

`DeskSaveProofs` proves, for any sets of weeks and blocks, any number of acts,
mishaps, restores and remembered operations:

| Theorem | Property |
|---|---|
| `TypesHold` | `Spec => []TypeOK` |
| `NotUnsavedIsStored` | `Spec => []SavedMeansStored` |
| `SavesReplaceWhatTheyWereMadeFrom` | `Spec => NoSilentOverwrite` |
| `RoutesImplementRegister` | `Spec => ImplementsRegister` |
| `EditsAreKept` | `Spec => []OtherEditsKept` |
| `MovedBlockIsInOneWeek` | `Spec => []MovedBlockInOneWeek` |
| `UndoTakesItsStepBack` | `Spec => []UndoTakesBackItsStep` |

Assumptions: `RoutesAssumption` and `DeskAssumption`. What they ask beyond types:
the blocks of the student, of the others and the movable one are different, and
`None` is no block, no number, no save, no step and neither "undo" nor "redo".

The argument. `DeskInv` is `RegisterInv` of the store with `WindowInv`: whatever
the window keeps of a week (the open one, those set aside, every write of a save
that is waiting, on its way or left behind, every entry of an undo or redo step)
names a version that is in `history`; every answer is about the writes it
answers, also when it is the remembered answer of an earlier try (`LogOK`), and
the writes of a save are of different weeks. Without the last part the answer to
a retry could bring any revision to the screen. An accepted save then names the
stored revision of each week it changes, and as a revision names one body
(`RevisionNamesBody`), the body it was made from is the one it replaces. A step
that is misfiled breaks exactly this, which is why `WriteOK` and `StepOK` are
asked up to `ghost.misfiled`. `RoutesImplementRegister` needs only the routes: a
save is `Save` of the register or nothing, a restore `Restore`.

`OtherEditsKept` is not inductive: a save that is answered takes the open week's
unsaved state away, so the invariant has to know before that its answer brings
the edits back. `EditsInv` (`Covered`) says where the owed work is: in the store,
in the hand move that waits, in a week set aside that is marked unsaved, or in
what survives the answer that is awaited (`Surviving`): of the open week, the
blocks the save on its way writes, and what that save adds to other weeks. Three
facts make that inductive: a save that is sent again says what is on screen
(`Resendable`: an edit forgets the save before it); a week set aside is marked
unsaved (`AsideOK`), so going back to it reads nothing from the server; and the
request that is awaited fits (`CallFits`): a week that is being read is not one
set aside, and a save on its way is the one the window keeps.

`MovedBlockInOneWeek` and `UndoTakesBackItsStep` need more: what the steps on the
two stacks and the saves that may still be carried out do to the weeks. `StepsInv`
says it of every state that is neither `torn` nor `misfiled`. A save that waits,
is on its way or was left behind (`BatchKept`), and each step of a stack
(`StepKept`), leaves the movable block where it is or takes it from one of its
weeks to another; with `DeskInv`, by which an accepted save replaces the bodies it
was made from, the store keeps it in one week (`OneWeek`). The stacks are chains
(`ChainOK`): of two live steps of a week with no live one between, the later found
what the earlier left, and the last one left what the store has of the week, up to
the blocks a move carried along (`carried`: a move takes unsaved edits into its own
step), which do not include the movable one. That is `UndoTakesBackItsStep` for the
step on top, and as the same holds of Redo the other way round, filing a step that
was undone on the redo stack keeps both. A step is on a stack only with the
revisions its answer gave (`Sure`), so the saves of Undo and Redo name all their
weeks. Reading another version of a week makes its steps stale (`ChainMark`); the
step of a save that is not answered yet begins where the chain ends (`StepFits`);
edits only add blocks, and never the movable one (`GrownOK`).

Only model-checked: `UnsavedIsSaved` (liveness), and the violations.

### Accounts

`AccountsProofs` proves, from `AccountsAssumption` (`None` is no number, no row
and no account):

| Theorem | Property |
|---|---|
| `NoSessionOutlivesItsPassword` | `AccountsSpec => []SessionsOfThisPassword` |
| `PasswordsAreProven` | `AccountsSpec => PasswordNeedsProof` |
| `SignInKeepsAccounts` | `SignInSpec => AccountsSpec` and both |

`AccountsSpec` leaves `requests` to the clients: they may ask anything at any
time, take answers, or forget their requests. With the type of the rows,
`SessionsOfThisPassword` is inductive: a route that replaces a row drops every
session of its id before it opens one for the new row (`OneAccount`), and a
route that only adds keeps all rows (`MoreAccounts`). The login needs the second
comparison: without it (the mutant `NotCheckedAgain`) the row that was read in
the first step need not be the one the session is opened for.

`SignInProofs` proves, for any names, codes, acts and mishaps:

| Theorem | Property |
|---|---|
| `NothingLeftToResume` | `SignInSpec => []NothingToResume` |
| `WindowTypes` | `SignInSpec => []TypeOK` |
| `CodesAreSeenFirst` | `SignInSpec => []CodesSeenFirst` |
| `CookieIsOfTheAccountShown` | `SignInSpec => []WindowShowsItsAccount` |
| `KeptIsTheOneUsed` | `SignInSpec => []KeptIsCurrent` |

What could bring a session back after a sign-out is an answer that was on its
way, so the inductive invariant `Quiet` says which answers the window can still
be waiting for: none while FlexWeek is down; none to a sign-in or to the kept
session once a week or codes are shown; and from a sign-out on, no new password
and no kept session, and on the week only the logout itself. Each step is then a
matter of which requests it adds to those awaited (`Begun`, `AskedBeside`), takes
from them (`TakenOne`) or drops (`RotatedAll`); the server changes none
(`ServeAwaits`).

The other four are about cookies and accounts, and follow from one larger
invariant, `WindowOK`, of which `Quiet` is a part:

- `ServerOK` (of any server that takes steps of `AccountsNext`): a token is of one
  registration of one account, no two names have a row of the same id, and every
  password and token was given out already (they are below `fresh`).
- `AnswersOK`: an answer that can still be taken brings a token given out already,
  whose session, if it is still open, is of the account the answer names.
- `ShownOK`: what the properties say, with the sessions of the cookie and of the
  file named by account.
- `MeOK`: while the answer for the kept session is awaited, the window's cookie
  and the kept token are the same, and no other answer can bring a cookie.
- `PwOK`: a change of password that is awaited was let in as the account shown,
  and the password it names was never another registration's. Ids are used again,
  so the id alone would not say that.
- `CallWaits`: a busy window waits for a request it has, unless that was aborted.

The server's half is `ServeDoes`: every route, in either of its two steps, only
goes `Forward` (new sessions and passwords are numbered from `fresh`), and lets
in or answers one request in keeping with `AnswersOK`, `MeOK` and `PwOK`. What
the window knows of old tokens is then not disturbed by new ones
(`ForwardNames`). The window's half is `WindowTells`: no step of it, of the
network or of the other device makes up an answer. What is left is one lemma for
each action. `RequestsEnd` is liveness, and only model-checked.

## Not modelled, and why

- The planner, and the desk logic of focus, pomodoro and reminders: functions
  without shared state, called by one thread; their tests compare results, and a
  small instance of them would not reach the arithmetic that could go wrong.
- The throttle of sign-ins: it refuses before anything else happens, so it only
  removes behaviours.
- MCP server, bindings, Android app: they call the engine, one request at a time.
  Their writes are the batches of `WeekRoutes`, their syncs the sessions of
  `SyncSession`.
- A device restored from a backup (sync counters that go back), the byte budget
  of a batch, the first batch of an unknown account.
- Windows, themes, drawing, tools, packaging: presentation.
