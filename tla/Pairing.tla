------------------------------ MODULE Pairing ------------------------------
(***************************************************************************)
(* Pairing a phone with a signed-in desktop: net/pair.rs, and pair_start,  *)
(* pair_cancel, pair_with_code, limited and stop of net/service.rs.        *)
(*                                                                         *)
(* A window is one code of the desktop with its endpoint; a call is one    *)
(* connection of a phone to a window, with the handler that serves it on   *)
(* the desktop and the pair_dial that made it on the phone.  Database work *)
(* runs in spawn_blocking tasks that finish even when the handler or the   *)
(* dial that waits for them is gone.                                       *)
(***************************************************************************)
EXTENDS Naturals

CONSTANTS
  Window, Call, Phone,
  None,
  PhoneOf,       \* the phone that makes a call
  MaxTries       \* PAIR_MAX_TRIES

ASSUME PairingAssumption ==
  /\ None \notin Window \cup Call \cup Phone
  /\ PhoneOf \in [Call -> Phone]
  /\ MaxTries \in Nat \ {0}

VARIABLES
  slot,          \* Ctx.pairing: the window that pair_status shows
  stopping,      \* how far stop() is
  win,           \* PairState and PairHost of each window
  call,          \* both ends of each connection
  admitted,      \* calls whose phone has a peer row on the desktop
  linked,        \* phones with a live peer row for the desktop
  account        \* the account on each phone

vars == <<slot, stopping, win, call, admitted, linked, account>>

phoneDb == <<linked, account>>

-----------------------------------------------------------------------------
(* State *)

Windows == [stage : {"new", "bound", "listed", "shown", "refused"},
            shut : {"no", "due", "closing", "closed"},
            before : Window \cup {None},     \* the window it replaced
            tries : 0 .. MaxTries,
            spent : Call \cup {None},        \* PairState.paired
            ended : BOOLEAN,                 \* cancelled, or past its time
            gate : Call \cup {None}]         \* who holds PairHandler.gate

HostStage == {"none", "hello", "exporting", "pending", "committing",
              "recorded", "answering", "over"}
DialStage == {"idle", "waiting", "storing", "linking", "confirming",
              "undoing", "paired", "failed"}

Calls == [window : Window \cup {None},
          up : BOOLEAN,
          mail : {"none", "hello", "ok", "refused", "confirm", "yes", "no"},
          host : HostStage, dial : DialStage,
          left : BOOLEAN]                    \* dropped by limited()

Init ==
  /\ slot = None /\ stopping = "no"
  /\ win = [w \in Window |->
              [stage |-> "new", shut |-> "no", before |-> None, tries |-> 0,
               spent |-> None, ended |-> FALSE, gate |-> None]]
  /\ call = [c \in Call |->
               [window |-> None, up |-> FALSE, mail |-> "none",
                host |-> "none", dial |-> "idle", left |-> FALSE]]
  /\ admitted = {} /\ linked = {}
  /\ account \in [Phone -> {"none", "other"}]

W(c) == call[c].window
CallBecomes(c, k) == call' = [call EXCEPT ![c] = k]
WindowBecomes(w, v) == win' = [win EXCEPT ![w] = v]

Hung(k) == [k EXCEPT !.up = FALSE, !.mail = "none"]
Sent(k, m) == [k EXCEPT !.mail = IF k.up THEN m ELSE "none"]

-----------------------------------------------------------------------------
(* The window *)

\* pair::start up to the router: the code is not in the slot yet.
Bind(w) ==
  /\ stopping = "no" /\ win[w].stage = "new"
  /\ WindowBecomes(w, [win[w] EXCEPT !.stage = "bound"])
  /\ UNCHANGED <<slot, stopping, call, admitted, phoneDb>>

\* Fault: a start() that stop() refuses leaves its router running.
PublishForgets(w) ==
  /\ win[w].stage = "bound"
  /\ \/ /\ stopping # "no"
        /\ WindowBecomes(w, [win[w] EXCEPT !.stage = "refused"])
        /\ UNCHANGED slot
     \/ /\ stopping = "no"
        /\ slot' = w
        /\ win' = [v \in Window |->
             IF v = w THEN [win[v] EXCEPT !.stage = "listed", !.before = slot]
             ELSE IF v = slot THEN [win[v] EXCEPT !.shut = "due"]
             ELSE win[v]]
  /\ UNCHANGED <<stopping, call, admitted, phoneDb>>

\* Fault: start() does not look at the flag under the lock.
PublishUnasked(w) ==
  /\ win[w].stage = "bound"
  /\ slot' = w
  /\ win' = [v \in Window |->
       IF v = w THEN [win[v] EXCEPT !.stage = "listed", !.before = slot]
       ELSE IF v = slot THEN [win[v] EXCEPT !.shut = "due"]
       ELSE win[v]]
  /\ UNCHANGED <<stopping, call, admitted, phoneDb>>

\* Under the lock of the slot: refuse when stop() has begun, else replace.
Publish(w) ==
  /\ win[w].stage = "bound"
  /\ \/ /\ stopping # "no"
        /\ WindowBecomes(w, [win[w] EXCEPT !.stage = "refused", !.shut = "due"])
        /\ UNCHANGED slot
     \/ /\ stopping = "no"
        /\ slot' = w
        /\ win' = [v \in Window |->
             IF v = w THEN [win[v] EXCEPT !.stage = "listed", !.before = slot]
             ELSE IF v = slot THEN [win[v] EXCEPT !.shut = "due"]
             ELSE win[v]]
  /\ UNCHANGED <<stopping, call, admitted, phoneDb>>

\* start returns the offer once the replaced window was told to shut down.
Offer(w) ==
  /\ win[w].stage = "listed"
  /\ win[w].before # None => win[win[w].before].shut # "due"
  /\ WindowBecomes(w, [win[w] EXCEPT !.stage = "shown"])
  /\ UNCHANGED <<slot, stopping, call, admitted, phoneDb>>

PairCancel ==
  /\ slot # None
  /\ slot' = None
  /\ WindowBecomes(slot, [win[slot] EXCEPT !.shut = "due"])
  /\ UNCHANGED <<stopping, call, admitted, phoneDb>>

Stop ==
  /\ stopping = "no"
  /\ stopping' = "flagged"
  /\ UNCHANGED <<slot, win, call, admitted, phoneDb>>

StopEmptiesSlot ==
  /\ stopping = "flagged"
  /\ stopping' = "emptied"
  /\ slot' = None
  /\ win' = [w \in Window |->
               IF w = slot THEN [win[w] EXCEPT !.shut = "due"] ELSE win[w]]
  /\ UNCHANGED <<call, admitted, phoneDb>>

\* The reaper takes its own window and no later one.  It sleeps in real
\* time, so the injected clock need not have reached expires_at_ms.
Reap(w) ==
  /\ slot = w
  /\ slot' = None
  /\ WindowBecomes(w, [win[w] EXCEPT !.shut = "closing"])
  /\ UNCHANGED <<stopping, call, admitted, phoneDb>>

Expire(w) ==
  /\ win[w].stage # "new" /\ ~win[w].ended
  /\ WindowBecomes(w, [win[w] EXCEPT !.ended = TRUE])
  /\ UNCHANGED <<slot, stopping, call, admitted, phoneDb>>

\* PairHost::shutdown(true): the flag first, then the router.
Shut(w) ==
  /\ win[w].shut = "due"
  /\ WindowBecomes(w, [win[w] EXCEPT !.shut = "closing", !.ended = TRUE])
  /\ UNCHANGED <<slot, stopping, call, admitted, phoneDb>>

\* Fault: the handler, not the blocking task, marks the code as used.
CloseRouterHalfway(w) ==
  /\ win[w].shut = "closing"
  /\ WindowBecomes(w, [win[w] EXCEPT !.shut = "closed", !.gate = None])
  /\ call' = [c \in Call |->
       IF W(c) # w THEN call[c]
       ELSE [Hung(call[c]) EXCEPT !.host =
               IF @ = "committing" THEN @ ELSE "over"]]
  /\ UNCHANGED <<slot, stopping, admitted, phoneDb>>

\* The router drops the connections and aborts the handlers, and with a
\* handler the gate it holds; a commit under way goes on without it.
CloseRouter(w) ==
  /\ win[w].shut = "closing"
  /\ WindowBecomes(w, [win[w] EXCEPT !.shut = "closed", !.gate = None])
  /\ call' = [c \in Call |->
       IF W(c) # w THEN call[c]
       ELSE [Hung(call[c]) EXCEPT !.host =
               IF @ \in {"committing", "recorded"} THEN @ ELSE "over"]]
  /\ UNCHANGED <<slot, stopping, admitted, phoneDb>>

-----------------------------------------------------------------------------
(* The desktop's handler of a call *)

HearHello(c) ==
  /\ call[c].host = "none" /\ call[c].mail = "hello"
  /\ CallBecomes(c, [call[c] EXCEPT !.host = "hello", !.mail = "none"])
  /\ UNCHANGED <<slot, stopping, win, admitted, phoneDb>>

\* Fault: wrong proofs are counted but never checked.
ClosedUntried(w) == win[w].spent # None \/ win[w].ended

\* Why decide() turns a call away without looking at its proof.
Closed(w) ==
  \/ win[w].spent # None
  \/ win[w].tries >= MaxTries
  \/ win[w].ended

Refuse(c) == CallBecomes(c, [Sent(call[c], "refused") EXCEPT !.host = "over"])

\* Fault: decide() does not wait for the gate.
DecideUngated(c) ==
  /\ call[c].host = "hello"
  /\ \/ Refuse(c) /\ UNCHANGED win
     \/ /\ ~Closed(W(c))
        /\ WindowBecomes(W(c), [win[W(c)] EXCEPT !.tries = @ + 1])
        /\ Refuse(c)
     \/ /\ ~Closed(W(c))
        /\ WindowBecomes(W(c), [win[W(c)] EXCEPT !.gate = c])
        /\ CallBecomes(c, [call[c] EXCEPT !.host = "exporting"])
  /\ UNCHANGED <<slot, stopping, admitted, phoneDb>>

\* decide() with the gate held: the version, the code's state, the proof.
\* Which hello is old, wrong or right is open until here.
Decide(c) ==
  /\ call[c].host = "hello" /\ win[W(c)].gate = None
  /\ \/ Refuse(c) /\ UNCHANGED win
     \/ /\ ~Closed(W(c))
        /\ WindowBecomes(W(c), [win[W(c)] EXCEPT !.tries = @ + 1])
        /\ Refuse(c)
     \/ /\ ~Closed(W(c))
        /\ WindowBecomes(W(c), [win[W(c)] EXCEPT !.gate = c])
        /\ CallBecomes(c, [call[c] EXCEPT !.host = "exporting"])
  /\ UNCHANGED <<slot, stopping, admitted, phoneDb>>

\* Fault: the gate is let go when decide() returns.
ExportLetsGo(c) ==
  /\ call[c].host = "exporting" /\ call[c].up
  /\ WindowBecomes(W(c), [win[W(c)] EXCEPT !.gate = None])
  /\ CallBecomes(c, [call[c] EXCEPT !.host = "pending", !.mail = "ok"])
  /\ UNCHANGED <<slot, stopping, admitted, phoneDb>>

\* decide() goes on: the first batch is exported and the reply written.
Export(c) ==
  /\ call[c].host = "exporting" /\ call[c].up
  /\ CallBecomes(c, [call[c] EXCEPT !.host = "pending", !.mail = "ok"])
  /\ UNCHANGED <<slot, stopping, win, admitted, phoneDb>>

\* The export fails, or the reply cannot be written: the gate is let go.
ExportFails(c) ==
  /\ call[c].host = "exporting"
  /\ WindowBecomes(W(c), [win[W(c)] EXCEPT !.gate = None])
  /\ Refuse(c)
  /\ UNCHANGED <<slot, stopping, admitted, phoneDb>>

\* Fault: the gate stays with a handler that gave up.
StopWaitingKeepsGate(c) ==
  /\ call[c].host = "pending"
  /\ CallBecomes(c, [Hung(call[c]) EXCEPT !.host = "over"])
  /\ UNCHANGED <<slot, stopping, win, admitted, phoneDb>>

\* No confirmation within 15 s, or the connection is lost.
StopWaiting(c) ==
  /\ call[c].host = "pending"
  /\ WindowBecomes(W(c), [win[W(c)] EXCEPT !.gate = None])
  /\ CallBecomes(c, [Hung(call[c]) EXCEPT !.host = "over"])
  /\ UNCHANGED <<slot, stopping, admitted, phoneDb>>

\* Fault: the gate is let go before the commit.
HearConfirmLetsGo(c) ==
  /\ call[c].host = "pending" /\ call[c].mail = "confirm"
  /\ WindowBecomes(W(c), [win[W(c)] EXCEPT !.gate = None])
  /\ CallBecomes(c, [call[c] EXCEPT !.host = "committing", !.mail = "none"])
  /\ UNCHANGED <<slot, stopping, admitted, phoneDb>>

HearConfirm(c) ==
  /\ call[c].host = "pending" /\ call[c].mail = "confirm"
  /\ CallBecomes(c, [call[c] EXCEPT !.host = "committing", !.mail = "none"])
  /\ UNCHANGED <<slot, stopping, win, admitted, phoneDb>>

\* record_peer on the desktop, one transaction.
Commit(c) ==
  /\ call[c].host = "committing"
  /\ admitted' = admitted \cup {c}
  /\ CallBecomes(c, [call[c] EXCEPT !.host = "recorded"])
  /\ UNCHANGED <<slot, stopping, win, phoneDb>>

LetGo(c) ==
  WindowBecomes(W(c), [win[W(c)] EXCEPT !.gate = IF @ = c THEN None ELSE @])

CommitFails(c) ==
  /\ call[c].host = "committing"
  /\ LetGo(c)
  /\ CallBecomes(c, [Sent(call[c], "no") EXCEPT !.host = "over"])
  /\ UNCHANGED <<slot, stopping, admitted, phoneDb>>

\* The same blocking task marks the code as used.
Spend(c) ==
  /\ call[c].host = "recorded"
  /\ WindowBecomes(W(c), [win[W(c)] EXCEPT !.spent = c])
  /\ CallBecomes(c, [call[c] EXCEPT !.host = "answering"])
  /\ UNCHANGED <<slot, stopping, admitted, phoneDb>>

Answer(c) ==
  /\ call[c].host = "answering"
  /\ LetGo(c)
  /\ CallBecomes(c, [Sent(call[c], "yes") EXCEPT !.host = "over"])
  /\ UNCHANGED <<slot, stopping, admitted, phoneDb>>

-----------------------------------------------------------------------------
(* The phone's dial *)

Dial(c, w) ==
  /\ call[c].dial = "idle"
  /\ win[w].stage = "shown" /\ win[w].shut # "closed"
  /\ CallBecomes(c, [call[c] EXCEPT
       !.window = w, !.up = TRUE, !.mail = "hello", !.dial = "waiting"])
  /\ UNCHANGED <<slot, stopping, win, admitted, phoneDb>>

\* Fault: the phone confirms before it has stored anything.
HearReplyConfirms(c) ==
  /\ call[c].dial = "waiting"
  /\ \/ /\ call[c].mail = "ok"
        /\ CallBecomes(c, [Sent(call[c], "confirm") EXCEPT !.dial = "storing"])
     \/ /\ call[c].mail = "refused" \/ ~call[c].up
        /\ CallBecomes(c, [Hung(call[c]) EXCEPT !.dial = "failed"])
  /\ UNCHANGED <<slot, stopping, win, admitted, phoneDb>>

HearReply(c) ==
  /\ call[c].dial = "waiting"
  /\ \/ /\ call[c].mail = "ok"
        /\ CallBecomes(c, [call[c] EXCEPT !.dial = "storing", !.mail = "none"])
     \/ /\ call[c].mail = "refused" \/ ~call[c].up
        /\ CallBecomes(c, [Hung(call[c]) EXCEPT !.dial = "failed"])
  /\ UNCHANGED <<slot, stopping, win, admitted, phoneDb>>

\* The blocking task that stores, first half: apply_batch makes the account,
\* unless the phone has another one or the batch cannot be used.
Store(c) ==
  /\ call[c].dial = "storing" /\ account[PhoneOf[c]] # "other"
  /\ account' = [account EXCEPT ![PhoneOf[c]] = "ours"]
  /\ CallBecomes(c, [call[c] EXCEPT !.dial = "linking"])
  /\ UNCHANGED <<slot, stopping, win, admitted, linked>>

\* Either transaction of the task may fail; the first one's effect stays.
StoreFails(c) ==
  /\ call[c].dial \in {"storing", "linking"}
  /\ CallBecomes(c, [Hung(call[c]) EXCEPT !.dial = "failed", !.left = FALSE])
  /\ UNCHANGED <<slot, stopping, win, admitted, phoneDb>>

\* Second half: record_peer on the phone; then pair_dial confirms, unless
\* limited() has dropped it meanwhile.
Link(c) ==
  /\ call[c].dial = "linking"
  /\ linked' = linked \cup {PhoneOf[c]}
  /\ CallBecomes(c,
       IF call[c].left THEN [call[c] EXCEPT !.dial = "failed", !.left = FALSE]
       ELSE [Sent(call[c], "confirm") EXCEPT !.dial = "confirming"])
  /\ UNCHANGED <<slot, stopping, win, admitted, account>>

HearYes(c) ==
  /\ call[c].dial = "confirming" /\ call[c].mail = "yes"
  /\ CallBecomes(c, [Hung(call[c]) EXCEPT !.dial = "paired"])
  /\ UNCHANGED <<slot, stopping, win, admitted, phoneDb>>

\* The desktop says no, the connection is lost, or 10 s pass.
ConfirmFails(c) ==
  /\ call[c].dial = "confirming"
  /\ CallBecomes(c, [Hung(call[c]) EXCEPT !.dial = "undoing"])
  /\ UNCHANGED <<slot, stopping, win, admitted, phoneDb>>

\* revoke_peer on the phone; its own failure is ignored.
Undo(c) ==
  /\ call[c].dial = "undoing"
  /\ \E gone \in {{}, {PhoneOf[c]}} : linked' = linked \ gone
  /\ CallBecomes(c, [call[c] EXCEPT !.dial = "failed"])
  /\ UNCHANGED <<slot, stopping, win, admitted, account>>

\* limited(): the deadline, cancel_sync or the phone's own stop() drops
\* pair_dial.  A blocking task under way finishes alone.
Leave(c) ==
  /\ \/ /\ call[c].dial \in {"waiting", "confirming"}
        /\ CallBecomes(c, [Hung(call[c]) EXCEPT !.dial = "failed"])
     \/ /\ call[c].dial \in {"storing", "linking"} /\ ~call[c].left
        /\ CallBecomes(c, [Hung(call[c]) EXCEPT !.left = TRUE])
  /\ UNCHANGED <<slot, stopping, win, admitted, phoneDb>>

Lose(c) ==
  /\ call[c].up
  /\ CallBecomes(c, Hung(call[c]))
  /\ UNCHANGED <<slot, stopping, win, admitted, phoneDb>>

-----------------------------------------------------------------------------
WindowStep(w) == Bind(w) \/ Publish(w) \/ Offer(w) \/ Reap(w) \/ Expire(w)
                 \/ Shut(w) \/ CloseRouter(w)

HostStep(c) == HearHello(c) \/ Decide(c) \/ Export(c) \/ ExportFails(c)
               \/ StopWaiting(c) \/ HearConfirm(c) \/ Commit(c)
               \/ CommitFails(c) \/ Spend(c) \/ Answer(c)

DialStep(c) == HearReply(c) \/ Store(c) \/ StoreFails(c) \/ Link(c)
               \/ HearYes(c) \/ ConfirmFails(c) \/ Undo(c) \/ Leave(c)

Next ==
  \/ PairCancel \/ Stop \/ StopEmptiesSlot
  \/ \E w \in Window : WindowStep(w)
  \/ \E c \in Call : HostStep(c) \/ DialStep(c) \/ Lose(c)
  \/ \E c \in Call, w \in Window : Dial(c, w)

Spec == Init /\ [][Next]_vars

\* Fairness of the desktop only: each wait of a handler has a limit, tokio's
\* mutex serves in order, a start() under way goes on, and so does a
\* shutdown (2 s).  A phone may fall silent for good.
FairSpec ==
  /\ Spec
  /\ \A c \in Call : WF_vars(HostStep(c))
  /\ \A w \in Window : WF_vars(Publish(w) \/ Shut(w) \/ CloseRouter(w))
  /\ WF_vars(StopEmptiesSlot)

-----------------------------------------------------------------------------
(* Properties *)

TypeOK ==
  /\ slot \in Window \cup {None}
  /\ stopping \in {"no", "flagged", "emptied"}
  /\ win \in [Window -> Windows]
  /\ call \in [Call -> Calls]
  /\ \A c \in Call : W(c) = None <=> call[c].dial = "idle"
  /\ admitted \subseteq Call /\ linked \subseteq Phone
  /\ account \in [Phone -> {"none", "ours", "other"}]

\* The phone of c has made no other call.
OnlyCall(c) ==
  \A d \in Call : PhoneOf[d] = PhoneOf[c] /\ d # c => call[d].dial = "idle"

\* A code lets one phone in, however its calls interleave and even when the
\* window is shut while a commit runs (PairHandler::gate, commit).
OnePhonePerCode ==
  \A b, c \in admitted : W(b) = W(c) => b = c

\* A code that took MaxTries wrong proofs never lets a phone in afterwards,
\* though the wrong proofs may come between a phone's proof and its
\* confirmation (the gate is held across both).
NoneAfterTheTries ==
  \A c \in admitted : win[W(c)].tries < MaxTries

\* Cancelling, replacing or stopping never separates the recorded phone from
\* the spent code: when the handler is over, pair_status has its phone.
RecordedIsSpent ==
  \A c \in admitted : win[W(c)].spent = c \/ call[c].host = "recorded"

\* A phone is recorded by the desktop only after it has taken the account.
\* When pair_dial reports success, the desktop has recorded the phone and
\* spent the code, and the phone that made no other call has its own row.
RecordedInOrder ==
  /\ \A c \in admitted : account[PhoneOf[c]] = "ours"
  /\ \A c \in Call : call[c].dial = "paired" =>
       /\ c \in admitted /\ win[W(c)].spent = c
       /\ OnlyCall(c) => PhoneOf[c] \in linked

\* A window that listens is in the slot or is being shut down, and after
\* stop() has emptied the slot nothing enters it: no endpoint is left behind.
NoStrayWindow ==
  /\ \A w \in Window :
       win[w].stage \in {"listed", "shown"} /\ win[w].shut = "no" => slot = w
  /\ stopping = "emptied" => slot = None

\* A phone that waits at the gate is decided, whatever the phone before it
\* does (the 15 s limit on the confirmation).
HelloIsDecided ==
  \A c \in Call : call[c].host = "hello" ~> call[c].host # "hello"

\* Once stop() has begun, every window that was opened is closed in the end,
\* also one whose start() is still under way (pair.rs 201-202).
StopEndsWindows ==
  stopping # "no" ~>
    \A w \in Window : win[w].stage = "new" \/ win[w].shut = "closed"

\* pair.rs 250-252: "a phone that cannot finish (another account, a deadline,
\* a dropped connection) leaves nothing behind on this side".
FailedPhoneLeavesNothing ==
  \A c \in Call : call[c].dial = "failed" => c \notin admitted
=============================================================================
