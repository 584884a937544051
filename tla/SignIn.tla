------------------------------- MODULE SignIn -------------------------------
(***************************************************************************)
(* Who the desktop window is signed in as: signing in, the session kept   *)
(* for the next launch, signing out, and the account's own settings,      *)
(* against the server of Accounts, with another device that uses the same *)
(* accounts.                                                               *)
(*                                                                         *)
(* The window waits for one request (`call').  Others it has sent may      *)
(* still be answered: a cookie in an answer is kept, whoever waits for it, *)
(* until the window changes its account and with it its connections.       *)
(***************************************************************************)
EXTENDS Accounts

CONSTANTS
  MaxActs,      \* bound: what the student does
  MaxMishaps    \* bound: lost answers, restarts, and what another device does

ASSUME SignInAssumption ==
  /\ MaxActs \in Nat /\ MaxMishaps \in Nat

VARIABLES
  up,        \* FlexWeek is running
  who,       \* the account shown
  jar,       \* the window's cookie
  kept,      \* the token in the kept-session file
  keep,      \* Keep me signed in, as at the last sign-in
  busy, call,
  page,      \* what the window shows
  theirs,    \* the other device's cookie
  acts, mishaps,
  ghost      \* history: see Fresh

windowVars == <<up, who, jar, kept, keep, busy, call, page, theirs, acts, mishaps, ghost>>
signVars == <<accountVars, windowVars>>

\* Whose codes were acknowledged, or who came in by a password or code typed
\* here; the student signed out and did not sign in since; a request aborted by
\* an earlier one.
Fresh == [acked |-> {1}, out |-> FALSE, aborted |-> FALSE]

SignInInit ==
  /\ AccountsInit
  /\ up = FALSE
  /\ who = None /\ jar = None
  /\ kept \in {None, 1}
  /\ keep = TRUE
  /\ busy = FALSE /\ call = None
  /\ page = "auth"
  /\ theirs = 2
  /\ acts = 0 /\ mishaps = 0
  /\ ghost = Fresh

Acts == acts < MaxActs /\ acts' = acts + 1
Mishap == mishaps < MaxMishaps /\ mishaps' = mishaps + 1
ServerStands == UNCHANGED <<users, sessions, fresh>>

\* Fault: the connections of the account before are kept.
RotatedNot(rs) == rs

\* What still changes something when nobody waits for it.
Matters(q) == q.by = "window" => q.answer = None /\ q.kind \notin {"me", "get"}

\* The window drops its connections: their answers go nowhere.
Rotated(rs) ==
  [n \in {k \in DOMAIN rs : Matters(rs[k])} |->
     IF rs[n].by = "window" THEN [rs[n] EXCEPT !.waits = FALSE] ELSE rs[n]]

FromWindow(kind, name, pass, code, account, cookie) ==
  Request(kind, "window", name, IF account = None THEN None ELSE account.id, pass, code, cookie)

\* Beside rs, the window sends q and waits for it.
Begin(rs, q) ==
  /\ requests' = Asked(rs, q)
  /\ call' = Free(rs)
  /\ busy' = TRUE

Idle(rs) == requests' = rs /\ call' = None /\ busy' = FALSE

\* The week is read again.
Reads(rs, account, cookie) ==
  Begin(rs, FromWindow("get", FirstName, 0, None, account, cookie))

Taken(n) == Without(requests, n)
Heard(kinds, n) ==
  /\ n \in DOMAIN requests
  /\ requests[n].by = "window" /\ requests[n].waits
  /\ requests[n].kind \in kinds /\ requests[n].answer # None

\* What the next launch finds.
Kept(token) == IF keep THEN token ELSE None

Status(n) == requests[n].answer.status
Shown(answer) == [id |-> answer.id, born |-> answer.born]

-----------------------------------------------------------------------------
(* Signing in.                                                             *)

\* Return in one of the fields does not ask whether a request is on its way.
Submit ==
  /\ Acts
  /\ up /\ page = "auth"
  /\ \E name \in Name :
       LET row == users[name]
           q(kind, pass, code) == FromWindow(kind, name, pass, code, None, jar)
       IN \/ \E pass \in {0} \cup (IF row = None THEN {} ELSE {row.pass}) :
               Begin(requests, q("login", pass, None))
          \/ Begin(requests, q("register", 0, None))
          \/ row # None /\ \E code \in row.codes : Begin(requests, q("recover", 0, code))
  /\ keep' \in BOOLEAN
  /\ ghost' = [ghost EXCEPT !.aborted = FALSE]
  /\ ServerStands
  /\ UNCHANGED <<up, who, jar, kept, page, theirs, mishaps>>

SignInOk(n) ==
  /\ Heard({"login", "recover"}, n) /\ n = call /\ Status(n) = "ok"
  /\ LET answer == requests[n].answer
     IN /\ who' = Shown(answer)
        /\ jar' = answer.token
        /\ kept' = Kept(answer.token)
        /\ Reads(Rotated(Taken(n)), who', jar')
        /\ ghost' = [ghost EXCEPT !.acked = @ \cup {answer.born}, !.out = FALSE]
  /\ page' = "week"
  /\ ServerStands
  /\ UNCHANGED <<up, keep, theirs, acts, mishaps>>

\* Fault: the session is kept at registration.
RegisterOkKeeps(n) ==
  /\ Heard({"register"}, n) /\ n = call /\ Status(n) = "ok"
  /\ who' = Shown(requests[n].answer)
  /\ jar' = requests[n].answer.token
  /\ kept' = Kept(jar')
  /\ page' = "codes"
  /\ Idle(Rotated(Taken(n)))
  /\ ServerStands
  /\ UNCHANGED <<up, keep, theirs, acts, mishaps, ghost>>

\* The codes are shown; the session is not kept yet.
RegisterOk(n) ==
  /\ Heard({"register"}, n) /\ n = call /\ Status(n) = "ok"
  /\ who' = Shown(requests[n].answer)
  /\ jar' = requests[n].answer.token
  /\ page' = "codes"
  /\ Idle(Rotated(Taken(n)))
  /\ ServerStands
  /\ UNCHANGED <<up, kept, keep, theirs, acts, mishaps, ghost>>

SignInFails(n) ==
  /\ Heard(SignIns, n) /\ n = call /\ Status(n) # "ok"
  /\ Idle(Taken(n))
  /\ ServerStands
  /\ UNCHANGED <<up, who, jar, kept, keep, page, theirs, acts, mishaps, ghost>>

\* The student has the codes.
Acknowledge ==
  /\ up /\ page = "codes" /\ ~busy
  /\ kept' = Kept(jar)
  /\ page' = "week"
  /\ Reads(requests, who, jar)
  /\ ghost' = [ghost EXCEPT !.acked = @ \cup {who.born}, !.out = FALSE]
  /\ ServerStands
  /\ UNCHANGED <<up, who, jar, keep, theirs, acts, mishaps>>

-----------------------------------------------------------------------------
(* The kept session.                                                       *)
Launch ==
  /\ ~up
  /\ up' = TRUE
  /\ IF kept = None THEN UNCHANGED <<requests, jar, busy, call>>
     ELSE /\ jar' = kept
          /\ Begin(requests, FromWindow("me", FirstName, 0, None, None, kept))
  /\ ServerStands
  /\ UNCHANGED <<who, kept, keep, page, theirs, acts, mishaps, ghost>>

ResumeOk(n) ==
  /\ Heard({"me"}, n) /\ n = call /\ Status(n) = "ok"
  /\ who' = Shown(requests[n].answer)
  /\ keep' = TRUE
  /\ page' = "week"
  /\ Reads(Rotated(Taken(n)), who', jar)
  /\ ServerStands
  /\ UNCHANGED <<up, jar, kept, theirs, acts, mishaps, ghost>>

\* Fault: the window is not told that the request has ended.
ResumeFailsBusy(n) ==
  /\ Heard({"me"}, n) /\ Status(n) # "ok"
  /\ kept' = IF Status(n) = "ended" THEN None ELSE kept
  /\ jar' = None
  /\ requests' = Rotated(Taken(n))
  /\ ghost' = [ghost EXCEPT !.aborted = busy /\ n # call]
  /\ ServerStands
  /\ UNCHANGED <<up, who, keep, busy, call, page, theirs, acts, mishaps>>

\* The connections are dropped even when another request has begun since: that
\* one is not answered then.
ResumeFails(n) ==
  /\ Heard({"me"}, n) /\ Status(n) # "ok"
  /\ kept' = IF Status(n) = "ended" THEN None ELSE kept
  /\ jar' = None
  /\ IF n = call THEN Idle(Rotated(Taken(n))) /\ UNCHANGED ghost
     ELSE /\ requests' = Rotated(Taken(n))
          /\ ghost' = [ghost EXCEPT !.aborted = busy]
          /\ UNCHANGED <<call, busy>>
  /\ ServerStands
  /\ UNCHANGED <<up, who, keep, page, theirs, acts, mishaps>>

-----------------------------------------------------------------------------
(* Signing out, and the account's own settings.                            *)
\* Nothing of the account is left in the window.
SignedOut(rs) ==
  /\ who' = None /\ jar' = None /\ page' = "auth"
  /\ Idle(Rotated(rs))

\* Fault: the kept session is forgotten once the server has answered.
LogOutFirst ==
  /\ Acts
  /\ up /\ page = "week" /\ ~busy
  /\ Begin(requests, FromWindow("logout", FirstName, 0, None, who, jar))
  /\ ghost' = [ghost EXCEPT !.out = TRUE]
  /\ ServerStands
  /\ UNCHANGED <<up, who, jar, kept, keep, page, theirs, mishaps>>

\* The kept session is forgotten before anything is sent.
LogOut ==
  /\ Acts
  /\ up /\ page = "week" /\ ~busy
  /\ kept' = None
  /\ Begin(requests, FromWindow("logout", FirstName, 0, None, who, jar))
  /\ ghost' = [ghost EXCEPT !.out = TRUE]
  /\ ServerStands
  /\ UNCHANGED <<up, who, jar, keep, page, theirs, mishaps>>

LogOutDone(n) ==
  /\ Heard({"logout"}, n) /\ n = call
  /\ SignedOut(Taken(n))
  /\ ServerStands
  /\ UNCHANGED <<up, kept, keep, theirs, acts, mishaps, ghost>>

\* The dialog may be open while the timer saves the week.
Confirm ==
  /\ Acts
  /\ up /\ page = "week"
  /\ busy => requests[call].kind = "get"
  /\ \E kind \in Confirmed, pass \in {0} \cup {row.pass : row \in RowOf(who.id)} :
       Begin(requests, FromWindow(kind, FirstName, pass, None, who, jar))
  /\ ServerStands
  /\ UNCHANGED <<up, who, jar, kept, keep, page, theirs, mishaps, ghost>>

\* Fault: the kept session stays the one before.
PasswordOkForgets(n) ==
  /\ Heard({"password"}, n) /\ n = call /\ Status(n) = "ok"
  /\ jar' = requests[n].answer.token
  /\ Idle(Rotated(Taken(n)))
  /\ ServerStands
  /\ UNCHANGED <<up, who, kept, keep, page, theirs, acts, mishaps, ghost>>

PasswordOk(n) ==
  /\ Heard({"password"}, n) /\ n = call /\ Status(n) = "ok"
  /\ jar' = requests[n].answer.token
  /\ kept' = Kept(jar')
  /\ Idle(Rotated(Taken(n)))
  /\ ServerStands
  /\ UNCHANGED <<up, who, keep, page, theirs, acts, mishaps, ghost>>

CodesOk(n) ==
  /\ Heard({"codes"}, n) /\ n = call /\ Status(n) = "ok"
  /\ page' = "codes"
  /\ Idle(Taken(n))
  /\ ServerStands
  /\ UNCHANGED <<up, who, jar, kept, keep, theirs, acts, mishaps, ghost>>

DeleteOk(n) ==
  /\ Heard({"delete"}, n) /\ n = call /\ Status(n) = "ok"
  /\ kept' = None
  /\ SignedOut(Taken(n))
  /\ ghost' = [ghost EXCEPT !.out = TRUE]
  /\ ServerStands
  /\ UNCHANGED <<up, keep, theirs, acts, mishaps>>

ConfirmFails(n) ==
  /\ Heard(Confirmed, n) /\ n = call /\ Status(n) \in {"wrong", "lost"}
  /\ Idle(Taken(n))
  /\ ServerStands
  /\ UNCHANGED <<up, who, jar, kept, keep, page, theirs, acts, mishaps, ghost>>

-----------------------------------------------------------------------------
(* What goes on while someone is signed in.                                *)
\* The week is saved or another one read; or something is read beside it.
Work ==
  /\ Acts
  /\ up /\ page = "week"
  /\ \/ ~busy /\ Reads(requests, who, jar)
     \/ /\ requests' = Asked(requests, FromWindow("get", FirstName, 0, None, who, jar))
        /\ UNCHANGED <<call, busy>>
  /\ ServerStands
  /\ UNCHANGED <<up, who, jar, kept, keep, page, theirs, mishaps, ghost>>

WorkDone(n) ==
  /\ Heard({"get"}, n) /\ Status(n) # "ended"
  /\ IF n = call THEN Idle(Taken(n)) ELSE requests' = Taken(n) /\ UNCHANGED <<call, busy>>
  /\ ServerStands
  /\ UNCHANGED <<up, who, jar, kept, keep, page, theirs, acts, mishaps, ghost>>

\* Fault: the request that was on its way is still waited for.
ExpiredBusy(n) ==
  /\ Heard(Confirmed \cup {"get"}, n) /\ Status(n) = "ended"
  /\ kept' = None
  /\ who' = None /\ jar' = None /\ page' = "auth"
  /\ requests' = Rotated(Taken(n))
  /\ ghost' = [ghost EXCEPT !.out = TRUE]
  /\ ServerStands
  /\ UNCHANGED <<up, keep, busy, call, theirs, acts, mishaps>>

\* Whichever request learns that the session has ended.
Expired(n) ==
  /\ Heard(Confirmed \cup {"get"}, n) /\ Status(n) = "ended"
  /\ kept' = None
  /\ SignedOut(Taken(n))
  /\ ghost' = [ghost EXCEPT !.out = TRUE]
  /\ ServerStands
  /\ UNCHANGED <<up, keep, theirs, acts, mishaps>>

\* The answer to a request the window no longer waits for: only its cookie counts.
Late(n) ==
  /\ Heard(SignIns \cup {"me"}, n) /\ n # call
  /\ requests[n].kind = "me" => Status(n) = "ok"
  /\ jar' = IF requests[n].answer.token = None THEN jar ELSE requests[n].answer.token
  /\ requests' = Taken(n)
  /\ ServerStands
  /\ UNCHANGED <<up, who, kept, keep, busy, call, page, theirs, acts, mishaps, ghost>>

Replies ==
  \E n \in DOMAIN requests :
    \/ SignInOk(n) \/ RegisterOk(n) \/ SignInFails(n) \/ ResumeOk(n) \/ ResumeFails(n)
    \/ LogOutDone(n) \/ PasswordOk(n) \/ CodesOk(n) \/ DeleteOk(n) \/ ConfirmFails(n)
    \/ WorkDone(n) \/ Expired(n) \/ Late(n)

-----------------------------------------------------------------------------
(* The network, restarts, and another device.                              *)
WaitsFor(q) ==
  /\ q.by = "window" /\ q.waits
  /\ IF q.answer = None THEN TRUE ELSE q.answer.status # "lost"

\* A request times out: it, or its answer, is lost.
Loses ==
  /\ Mishap
  /\ \E n \in DOMAIN requests :
       LET q == requests[n]
           gone == [requests EXCEPT ![n].answer = No("lost")]
       IN /\ WaitsFor(q)
          /\ \/ requests' = gone
             \/ Matters(q) /\ requests' = Asked(gone, [q EXCEPT !.waits = FALSE])
  /\ ServerStands
  /\ UNCHANGED <<up, who, jar, kept, keep, busy, call, page, theirs, acts, ghost>>

\* FlexWeek is quit, or dies.
Quit ==
  /\ Mishap
  /\ up
  /\ up' = FALSE
  /\ who' = None /\ jar' = None /\ page' = "auth" /\ keep' = TRUE
  /\ \/ Idle(Rotated(requests))
     \/ Idle(Restrict(requests, {n \in DOMAIN requests : requests[n].by # "window"}))
  /\ ghost' = [ghost EXCEPT !.aborted = FALSE]
  /\ ServerStands
  /\ UNCHANGED <<kept, theirs, acts>>

OtherAsks ==
  /\ Mishap
  /\ \E name \in Name :
       LET row == users[name]
           q(kind, pass, code) == Request(kind, "other", name, None, pass, code, theirs)
       IN \/ row = None /\ requests' = Asked(requests, q("register", 0, None))
          \/ /\ row # None
             /\ \/ \E code \in row.codes : requests' = Asked(requests, q("recover", 0, code))
                \/ \E kind \in {"password", "delete"} :
                     requests' = Asked(requests, q(kind, row.pass, None))
  /\ ServerStands
  /\ UNCHANGED <<up, who, jar, kept, keep, busy, call, page, theirs, acts, ghost>>

OtherTakes ==
  /\ \E n \in DOMAIN requests :
       /\ requests[n].by = "other" /\ requests[n].answer # None
       /\ theirs' = IF requests[n].answer.token = None THEN theirs ELSE requests[n].answer.token
       /\ requests' = Taken(n)
  /\ ServerStands
  /\ UNCHANGED <<up, who, jar, kept, keep, busy, call, page, acts, mishaps, ghost>>

Served == (\E n \in DOMAIN requests : Serve(n)) /\ UNCHANGED windowVars

TimesOut ==
  /\ Mishap
  /\ SessionTimesOut
  /\ UNCHANGED <<up, who, jar, kept, keep, busy, call, page, theirs, acts, ghost>>

SignInNext ==
  \/ Launch \/ Submit \/ Acknowledge \/ LogOut \/ Confirm \/ Work
  \/ Replies \/ Served
  \/ Loses \/ Quit \/ OtherAsks \/ OtherTakes \/ TimesOut

\* The server serves what it was asked, and the window takes the answers.
SignInSpec ==
  SignInInit /\ [][SignInNext]_signVars /\ WF_signVars(Served) /\ WF_signVars(Replies)

-----------------------------------------------------------------------------
TypeOK ==
  /\ \A name \in Name : users[name] # None => users[name].codes \subseteq Nat \X Code
  /\ page \in {"auth", "codes", "week"}
  /\ page = "auth" <=> who = None
  /\ busy <=> call # None
  /\ busy /\ ~ghost.aborted => /\ call \in DOMAIN requests
                               /\ requests[call].by = "window" /\ requests[call].waits

\* "Forgotten first, so a sign-out that fails to reach the server still leaves
\* nothing to resume": from the moment the student signs out, deletes the
\* account or loses the session, no launch signs anyone in until someone has
\* signed in here, whatever was lost, killed or answered late.
NothingToResume == ghost.out => kept = None

\* "It is kept once a new account's recovery codes are acknowledged": a session
\* that the next launch would open belongs to an account whose codes the student
\* has had, or to one they came into with its password or a code.
CodesSeenFirst == \A s \in sessions : s.token = kept => s.born \in ghost.acked

\* The session the window sends is the session of the account it shows, whatever
\* other sign-ins were on their way when it was opened.
WindowShowsItsAccount ==
  who # None => \A s \in sessions : s.token = jar => s.id = who.id /\ s.born = who.born

\* "Replaced when the password changes": on the week, what is kept for the next
\* launch is the session the window uses, or nothing, whatever answers were lost
\* or came late.
KeptIsCurrent == page = "week" => kept \in {None, jar}

\* The window does not stay busy: every request is answered, or times out.
\* Except for a sign-in sent while the kept session was being tried, which that
\* one aborts when it fails.
RequestsEnd == busy ~> (~busy \/ ghost.aborted)
=============================================================================
