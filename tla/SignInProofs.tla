---------------------------- MODULE SignInProofs ----------------------------
(***************************************************************************)
(* After signing out nothing is left to resume; and the cookie and the     *)
(* kept session are those of the account shown, whose codes were seen: for *)
(* any number of names, acts and mishaps.                                  *)
(*                                                                         *)
(* The window is signed out in two steps, and answers of all kinds may     *)
(* come between and after them.  The invariant says which of them the      *)
(* window can still be waiting for (Quiet), and whom they are about        *)
(* (WindowOK).                                                             *)
(***************************************************************************)
EXTENDS AccountsProofs, FiniteSetTheorems

\* What a request is made of.
IsRequest(q) ==
  q = [kind |-> q.kind, by |-> q.by, name |-> q.name, id |-> q.id, pass |-> q.pass,
       code |-> q.code, cookie |-> q.cookie, waits |-> q.waits, seen |-> q.seen,
       answer |-> q.answer]

IsGhost(g) == g = [acked |-> g.acked, out |-> g.out, aborted |-> g.aborted]

\* The window waits for request n of rs, one of `kinds'.
Awaits(rs, kinds, n) ==
  n \in DOMAIN rs /\ rs[n].by = "window" /\ rs[n].waits /\ rs[n].kind \in kinds

Numbered(rs) ==
  /\ IsFiniteSet(DOMAIN rs) /\ DOMAIN rs \subseteq Nat
  /\ \A n \in DOMAIN rs : IsRequest(rs[n])

Quiet ==
  /\ Numbered(requests)
  /\ IsGhost(ghost)
  /\ busy <=> call # None
  /\ ~up => page = "auth" /\ \A n, kinds : ~Awaits(requests, kinds, n)
  /\ page # "auth" => \A n : ~Awaits(requests, SignIns \cup {"me"}, n)
  /\ Awaits(requests, Confirmed, call) => page = "week"
  /\ ghost.out => /\ kept = None
                  /\ ~Awaits(requests, {"password", "me"}, call)
                  /\ page = "week" => Awaits(requests, {"logout"}, call)

-----------------------------------------------------------------------------
(* Requests.                                                               *)
LEMMA FreeIsFree ==
  ASSUME NEW rs, IsFiniteSet(DOMAIN rs), DOMAIN rs \subseteq Nat
  PROVE  Free(rs) \in Nat /\ Free(rs) \notin DOMAIN rs
<1> DEFINE k == Cardinality(DOMAIN rs)
<1>1. k \in Nat
  BY FS_CardinalityType
<1>2. \E n \in 1 .. k + 1 : n \notin DOMAIN rs
  <2> SUFFICES ASSUME 1 .. k + 1 \subseteq DOMAIN rs PROVE FALSE
    OBVIOUS
  <2>1. Cardinality(1 .. k + 1) = k + 1
    BY <1>1, FS_Interval
  <2>2. Cardinality(1 .. k + 1) <= k
    BY FS_Subset
  <2> QED
    BY <1>1, <2>1, <2>2
<1>3. Free(rs) \in 1 .. k + 1 /\ Free(rs) \notin DOMAIN rs
  BY <1>2 DEF Free
<1> QED
  BY <1>1, <1>3

LEMMA NoneIsNoNumber ==
  ASSUME NEW rs, Numbered(rs), NEW kinds
  PROVE  ~Awaits(rs, kinds, None)
  BY AccountsAssumption DEF Numbered, Awaits

\* One request more, of any sender.
LEMMA AskedOne ==
  ASSUME NEW rs, Numbered(rs), NEW q, IsRequest(q)
  PROVE  /\ Numbered(Asked(rs, q))
         /\ Free(rs) \notin DOMAIN rs /\ Free(rs) # None
         /\ Free(rs) \in DOMAIN Asked(rs, q) /\ Asked(rs, q)[Free(rs)] = q
         /\ \A n, kinds : Awaits(Asked(rs, q), kinds, n) <=>
              \/ Awaits(rs, kinds, n)
              \/ n = Free(rs) /\ q.by = "window" /\ q.waits /\ q.kind \in kinds
<1>1. Free(rs) \in Nat /\ Free(rs) \notin DOMAIN rs
  BY FreeIsFree DEF Numbered
<1>2. DOMAIN Asked(rs, q) = DOMAIN rs \cup {Free(rs)}
  BY DEF Asked
<1>3. IsFiniteSet(DOMAIN rs \cup {Free(rs)})
  BY FS_AddElement DEF Numbered
<1>4. /\ \A n \in DOMAIN rs : Asked(rs, q)[n] = rs[n]
      /\ Asked(rs, q)[Free(rs)] = q
  BY <1>1 DEF Asked
<1>5. Numbered(Asked(rs, q))
  BY <1>1, <1>2, <1>3, <1>4 DEF Numbered
<1>6. Free(rs) # None
  BY <1>1, AccountsAssumption
<1>7. \A n, kinds : Awaits(Asked(rs, q), kinds, n) <=>
        \/ Awaits(rs, kinds, n)
        \/ n = Free(rs) /\ q.by = "window" /\ q.waits /\ q.kind \in kinds
  BY <1>1, <1>2, <1>4 DEF Awaits
<1> QED
  BY <1>1, <1>2, <1>4, <1>5, <1>6, <1>7

\* One request less.
LEMMA TakenOne ==
  ASSUME NEW rs, Numbered(rs), NEW k
  PROVE  /\ Numbered(Without(rs, k))
         /\ \A n, kinds : Awaits(Without(rs, k), kinds, n) <=> n # k /\ Awaits(rs, kinds, n)
<1>1. DOMAIN Without(rs, k) = DOMAIN rs \ {k}
  BY DEF Without, Restrict
<1>2. \A n \in DOMAIN rs \ {k} : Without(rs, k)[n] = rs[n]
  BY DEF Without, Restrict
<1>3. IsFiniteSet(DOMAIN rs \ {k})
  BY FS_RemoveElement DEF Numbered
<1>4. Numbered(Without(rs, k))
  BY <1>1, <1>2, <1>3 DEF Numbered
<1> QED
  BY <1>1, <1>2, <1>4 DEF Awaits

\* Nobody waits on connections that were dropped.
LEMMA RotatedAll ==
  ASSUME NEW rs, Numbered(rs)
  PROVE  /\ Numbered(Rotated(rs))
         /\ \A n, kinds : ~Awaits(Rotated(rs), kinds, n)
<1>1. DOMAIN Rotated(rs) \subseteq DOMAIN rs
  BY DEF Rotated
<1>2. IsFiniteSet(DOMAIN Rotated(rs))
  BY <1>1, FS_Subset DEF Numbered
<1>3. \A n \in DOMAIN Rotated(rs) :
        Rotated(rs)[n] = IF rs[n].by = "window" THEN [rs[n] EXCEPT !.waits = FALSE] ELSE rs[n]
  BY DEF Rotated
<1>4. \A n \in DOMAIN Rotated(rs) :
        /\ IsRequest(Rotated(rs)[n])
        /\ Rotated(rs)[n].by = "window" => ~Rotated(rs)[n].waits
  BY <1>1, <1>3 DEF Numbered, IsRequest
<1>5. Numbered(Rotated(rs))
  BY <1>1, <1>2, <1>4 DEF Numbered
<1> QED
  BY <1>4, <1>5 DEF Awaits

\* The window waits for the same requests.
SameAwaited(rs, rs1) ==
  /\ Numbered(rs1)
  /\ \A n, kinds : Awaits(rs1, kinds, n) <=> Awaits(rs, kinds, n)

\* A request is answered.
LEMMA AnswerOne ==
  ASSUME NEW rs, Numbered(rs), NEW k, NEW x
  PROVE  SameAwaited(rs, [rs EXCEPT ![k].answer = x])
<1> DEFINE rs1 == [rs EXCEPT ![k].answer = x]
<1>1. DOMAIN rs1 = DOMAIN rs
  OBVIOUS
<1>2. \A n \in DOMAIN rs : /\ IsRequest(rs1[n])
                           /\ rs1[n].by = rs[n].by /\ rs1[n].waits = rs[n].waits
                           /\ rs1[n].kind = rs[n].kind
  BY DEF Numbered, IsRequest
<1> QED
  BY <1>1, <1>2 DEF SameAwaited, Numbered, Awaits

\* A request is let in.
LEMMA LetInOne ==
  ASSUME NEW rs, Numbered(rs), NEW k, NEW x
  PROVE  SameAwaited(rs, [rs EXCEPT ![k].seen = x])
<1> DEFINE rs1 == [rs EXCEPT ![k].seen = x]
<1>1. DOMAIN rs1 = DOMAIN rs
  OBVIOUS
<1>2. \A n \in DOMAIN rs : /\ IsRequest(rs1[n])
                           /\ rs1[n].by = rs[n].by /\ rs1[n].waits = rs[n].waits
                           /\ rs1[n].kind = rs[n].kind
  BY DEF Numbered, IsRequest
<1> QED
  BY <1>1, <1>2 DEF SameAwaited, Numbered, Awaits

-----------------------------------------------------------------------------
(* The server changes nothing the window waits for.                        *)
LEMMA AnsweredOne ==
  ASSUME Numbered(requests), NEW n \in DOMAIN requests, NEW answer,
         requests' = Answered(n, answer)
  PROVE  SameAwaited(requests, requests')
<1>1. CASE requests[n].waits
  <2>1. requests' = [requests EXCEPT ![n].answer = answer]
    BY <1>1 DEF Answered
  <2>2. SameAwaited(requests, [requests EXCEPT ![n].answer = answer])
    BY AnswerOne, Zenon
  <2> QED
    BY <2>1, <2>2, Zenon
<1>2. CASE ~requests[n].waits
  <2>1. requests' = Without(requests, n)
    BY <1>2 DEF Answered
  <2>2. \A kinds : ~Awaits(requests, kinds, n)
    BY <1>2 DEF Awaits
  <2> QED
    BY <2>1, <2>2, TakenOne DEF SameAwaited
<1> QED
  BY <1>1, <1>2

LEMMA SeenOne ==
  ASSUME Numbered(requests), NEW n, NEW x, requests' = [requests EXCEPT ![n].seen = x]
  PROVE  SameAwaited(requests, requests')
  BY LetInOne, Zenon

LEMMA ServeAwaits ==
  ASSUME Numbered(requests), NEW n \in DOMAIN requests, Serve(n)
  PROVE  SameAwaited(requests, requests')
<1>0. \A why : Refuse(n, why) => SameAwaited(requests, requests')
  BY AnsweredOne DEF Refuse
<1>1. CASE ReadHash(n)
  <2> DEFINE row == users[requests[n].name]
  <2>1. CASE row # None /\ row.pass = requests[n].pass
    BY <1>1, <2>1, SeenOne DEF ReadHash
  <2>2. CASE ~(row # None /\ row.pass = requests[n].pass)
    BY <1>0, <1>1, <2>2 DEF ReadHash
  <2> QED
    BY <2>1, <2>2
<1>2. CASE OpenSession(n)
  <2>1. CASE CheckedAgain(n) = {}
    BY <1>0, <1>2, <2>1 DEF OpenSession
  <2>2. CASE CheckedAgain(n) # {}
    BY <1>2, <2>2, AnsweredOne DEF OpenSession, SignsIn
  <2> QED
    BY <2>1, <2>2
<1>3. CASE Register(n)
  <2>1. CASE users[requests[n].name] # None
    BY <1>0, <1>3, <2>1 DEF Register
  <2>2. CASE users[requests[n].name] = None
    BY <1>3, <2>2, AnsweredOne DEF Register, SignsIn
  <2> QED
    BY <2>1, <2>2
<1>4. CASE Recover(n)
  <2> DEFINE name == requests[n].name
             code == requests[n].code
  <2>1. CASE users[name] = None
    BY <1>0, <1>4, <2>1 DEF Recover
  <2>2. CASE users[name] # None /\ code \notin users[name].codes
    BY <1>0, <1>4, <2>2 DEF Recover
  <2>3. CASE users[name] # None /\ code \in users[name].codes
    BY <1>4, <2>3, AnsweredOne DEF Recover, SignsIn
  <2> QED
    BY <2>1, <2>2, <2>3
<1>5. CASE Admit(n)
  <2>1. CASE \E answer : requests' = Answered(n, answer)
    BY <2>1, AnsweredOne
  <2>2. CASE \E x : requests' = [requests EXCEPT ![n].seen = x]
    BY <2>2, SeenOne
  <2>3. CASE Refuse(n, "ended")
    BY <1>0, <2>3
  <2> QED
    BY <1>5, <2>1, <2>2, <2>3 DEF Admit
<1>6. CASE WrongPassword(n)
  BY <1>0, <1>6 DEF WrongPassword
<1>7. CASE ChangePassword(n)
  BY <1>7, AnsweredOne DEF ChangePassword, SignsIn
<1>8. CASE ReplaceCodes(n)
  BY <1>8, AnsweredOne DEF ReplaceCodes
<1>9. CASE RemoveAccount(n)
  BY <1>9, AnsweredOne DEF RemoveAccount
<1>10. CASE EndSession(n)
  BY <1>10, AnsweredOne DEF EndSession
<1> QED
  BY <1>1, <1>2, <1>3, <1>4, <1>5, <1>6, <1>7, <1>8, <1>9, <1>10 DEF Serve

LEMMA StillQuiet ==
  ASSUME Quiet, SameAwaited(requests, requests'), UNCHANGED windowVars
  PROVE  Quiet'
  BY DEF Quiet, SameAwaited, windowVars

-----------------------------------------------------------------------------
(* The window.                                                             *)
LEMMA WindowRequest ==
  ASSUME NEW kind, NEW name, NEW pass, NEW code, NEW account, NEW cookie
  PROVE  LET q == FromWindow(kind, name, pass, code, account, cookie)
         IN IsRequest(q) /\ q.by = "window" /\ q.waits /\ q.kind = kind
  BY DEF FromWindow, Request, IsRequest

\* What a new request changes in what the window waits for.
Begun(rs, kind) ==
  /\ Numbered(requests')
  /\ call' # None /\ busy' = TRUE
  /\ \A kinds : ~Awaits(rs, kinds, call')
  /\ \A n, kinds : Awaits(requests', kinds, n) <=>
                     Awaits(rs, kinds, n) \/ (n = call' /\ kind \in kinds)

LEMMA BeginsOne ==
  ASSUME NEW rs, Numbered(rs), NEW q, IsRequest(q), q.by = "window", q.waits, Begin(rs, q)
  PROVE  Begun(rs, q.kind)
<1>1. requests' = Asked(rs, q) /\ call' = Free(rs) /\ busy' = TRUE
  BY DEF Begin
<1>2. Numbered(Asked(rs, q)) /\ Free(rs) \notin DOMAIN rs /\ Free(rs) # None
  BY AskedOne
<1>3. \A n, kinds : Awaits(Asked(rs, q), kinds, n) <=>
        Awaits(rs, kinds, n) \/ (n = Free(rs) /\ q.kind \in kinds)
  BY AskedOne
<1>4. \A kinds : ~Awaits(rs, kinds, Free(rs))
  BY <1>2 DEF Awaits
<1> QED
  BY <1>1, <1>2, <1>3, <1>4 DEF Begun

LEMMA ReadsBegins ==
  ASSUME NEW rs, Numbered(rs), NEW account, NEW cookie, Reads(rs, account, cookie)
  PROVE  Begun(rs, "get")
<1> DEFINE q == FromWindow("get", FirstName, 0, None, account, cookie)
<1>1. IsRequest(q) /\ q.by = "window" /\ q.waits /\ q.kind = "get"
  BY WindowRequest
<1>2. Begin(rs, q)
  BY DEF Reads
<1> HIDE DEF q
<1>3. Begun(rs, q.kind)
  BY <1>1, <1>2, BeginsOne
<1> QED
  BY <1>1, <1>3

\* The connections are dropped and the week is read again.
LEMMA ReadsAfresh ==
  ASSUME Quiet, NEW n, NEW account, NEW cookie, Reads(Rotated(Taken(n)), account, cookie),
         up' = up, up, page' = "week", IsGhost(ghost'), ~ghost'.out
  PROVE  Quiet'
<1>1. Numbered(Taken(n))
  BY TakenOne DEF Taken, Quiet
<1>2. Numbered(Rotated(Taken(n))) /\ \A k, kinds : ~Awaits(Rotated(Taken(n)), kinds, k)
  BY <1>1, RotatedAll
<1>3. Begun(Rotated(Taken(n)), "get")
  BY <1>2, ReadsBegins
<1>4. /\ Numbered(requests') /\ call' # None /\ busy' = TRUE
      /\ \A k, kinds : Awaits(requests', kinds, k) => "get" \in kinds
  BY <1>2, <1>3 DEF Begun
<1>5. "get" \notin SignIns \cup {"me"} /\ "get" \notin Confirmed
  BY DEF SignIns, Confirmed
<1> QED
  BY <1>4, <1>5 DEF Quiet

\* The window waits for nothing, and so for nothing that could bring a session.
LEMMA NothingAwaited ==
  ASSUME NEW rs, Numbered(rs), Idle(rs), IsGhost(ghost'),
         ~up' => page' = "auth" /\ \A n, kinds : ~Awaits(rs, kinds, n),
         page' # "auth" => \A n : ~Awaits(rs, SignIns \cup {"me"}, n),
         ghost'.out => kept' = None /\ page' # "week"
  PROVE  Quiet'
<1>1. requests' = rs /\ call' = None /\ busy' = FALSE
  BY DEF Idle
<1>2. \A kinds : ~Awaits(rs, kinds, None)
  BY NoneIsNoNumber
<1> QED
  BY <1>1, <1>2 DEF Quiet

\* The window goes on waiting for what it did.
LEMMA AskedBeside ==
  ASSUME Quiet, NEW q, IsRequest(q),
         q.by = "window" /\ q.waits => up /\ q.kind = "get",
         requests' = Asked(requests, q),
         UNCHANGED <<up, kept, busy, call, page, ghost>>
  PROVE  Quiet'
<1>1. Numbered(requests')
  BY AskedOne DEF Quiet
<1>2. \A n, kinds : Awaits(requests', kinds, n) <=>
        \/ Awaits(requests, kinds, n)
        \/ n = Free(requests) /\ q.by = "window" /\ q.waits /\ q.kind \in kinds
  BY AskedOne DEF Quiet
<1>3. \A n, kinds : "get" \notin kinds => (Awaits(requests', kinds, n) <=> Awaits(requests, kinds, n))
  BY <1>2
<1>4. /\ \A n : Awaits(requests', SignIns \cup {"me"}, n) <=> Awaits(requests, SignIns \cup {"me"}, n)
      /\ Awaits(requests', Confirmed, call) <=> Awaits(requests, Confirmed, call)
      /\ Awaits(requests', {"password", "me"}, call) <=> Awaits(requests, {"password", "me"}, call)
      /\ Awaits(requests', {"logout"}, call) <=> Awaits(requests, {"logout"}, call)
  <2>1. "get" \notin SignIns \cup {"me"} /\ "get" \notin Confirmed
        /\ "get" \notin {"password", "me"} /\ "get" \notin {"logout"}
    BY DEF SignIns, Confirmed
  <2> QED
    BY <1>3, <2>1
<1>5. ~up => \A n, kinds : ~Awaits(requests', kinds, n)
  BY <1>2 DEF Quiet
<1> QED
  BY <1>1, <1>4, <1>5 DEF Quiet

\* An answer is taken that the window did not wait for.
LEMMA TakenBeside ==
  ASSUME Quiet, NEW n, n # call, requests' = Taken(n),
         UNCHANGED <<up, kept, busy, call, page>>, IsGhost(ghost'), ghost'.out = ghost.out
  PROVE  Quiet'
<1>1. Numbered(requests')
  BY TakenOne DEF Taken, Quiet
<1>2. \A k, kinds : Awaits(requests', kinds, k) <=> k # n /\ Awaits(requests, kinds, k)
  BY TakenOne DEF Taken, Quiet
<1> QED
  BY <1>1, <1>2 DEF Quiet

\* An answer that is heard is one the window waits for.
LEMMA HeardAwaits ==
  ASSUME Quiet, NEW kinds, NEW n, Heard(kinds, n)
  PROVE  Awaits(requests, kinds, n) /\ up
<1>1. Awaits(requests, kinds, n)
  BY DEF Heard, Awaits
<1> QED
  BY <1>1 DEF Quiet

LEMMA GhostParts ==
  ASSUME NEW g, IsGhost(g), NEW x
  PROVE  /\ IsGhost([g EXCEPT !.acked = x]) /\ [g EXCEPT !.acked = x].out = g.out
         /\ IsGhost([g EXCEPT !.aborted = x]) /\ [g EXCEPT !.aborted = x].out = g.out
         /\ IsGhost([g EXCEPT !.out = x]) /\ [g EXCEPT !.out = x].out = x
  BY DEF IsGhost

LEMMA InitQuiet == SignInInit => Quiet
<1> SUFFICES ASSUME SignInInit PROVE Quiet
  OBVIOUS
<1>1. requests = <<>> /\ DOMAIN requests = {}
  BY DEF SignInInit, AccountsInit
<1>2. IsFiniteSet(DOMAIN requests)
  BY <1>1, FS_EmptySet
<1>3. Numbered(requests) /\ \A n, kinds : ~Awaits(requests, kinds, n)
  BY <1>1, <1>2 DEF Numbered, Awaits
<1>4. IsGhost(ghost) /\ ~ghost.out
  BY DEF SignInInit, Fresh, IsGhost
<1> QED
  BY <1>3, <1>4 DEF SignInInit, Quiet

-----------------------------------------------------------------------------
(* One lemma for each step of the window.                                  *)
LEMMA SubmitQuiet == Quiet /\ Submit => Quiet'
<1> SUFFICES ASSUME Quiet, Submit PROVE Quiet'
  OBVIOUS
<1>1. \E kind, name, pass, code :
        kind \in SignIns /\ Begin(requests, FromWindow(kind, name, pass, code, None, jar))
  BY DEF Submit, SignIns
<1>2. PICK kind, name, pass, code :
        kind \in SignIns /\ Begin(requests, FromWindow(kind, name, pass, code, None, jar))
  BY <1>1
<1> DEFINE q == FromWindow(kind, name, pass, code, None, jar)
<1>3. IsRequest(q) /\ q.by = "window" /\ q.waits /\ q.kind = kind
  BY WindowRequest
<1>4. Begin(requests, q)
  BY <1>2
<1> HIDE DEF q
<1>5. Begun(requests, kind)
  BY <1>3, <1>4, BeginsOne DEF Quiet
<1>6. UNCHANGED <<up, kept, page>> /\ page = "auth" /\ up
  BY DEF Submit
<1>7. IsGhost(ghost') /\ ghost'.out = ghost.out
  BY GhostParts DEF Submit, Quiet
<1>8. kind \notin Confirmed /\ kind \notin {"password", "me"}
  BY <1>2 DEF SignIns, Confirmed
<1> QED
  BY <1>5, <1>6, <1>7, <1>8 DEF Quiet, Begun

LEMMA SignInOkQuiet == \A n : Quiet /\ SignInOk(n) => Quiet'
<1> SUFFICES ASSUME NEW n, Quiet, SignInOk(n) PROVE Quiet'
  OBVIOUS
<1>1. up
  BY HeardAwaits DEF SignInOk
<1>2. IsGhost(ghost') /\ ~ghost'.out
  BY DEF SignInOk, Quiet, IsGhost
<1>3. up' = up /\ page' = "week" /\ Reads(Rotated(Taken(n)), who', jar')
  BY DEF SignInOk
<1> QED
  BY <1>1, <1>2, <1>3, ReadsAfresh

LEMMA RegisterOkQuiet == \A n : Quiet /\ RegisterOk(n) => Quiet'
<1> SUFFICES ASSUME NEW n, Quiet, RegisterOk(n) PROVE Quiet'
  OBVIOUS
<1>1. up
  BY HeardAwaits DEF RegisterOk
<1>2. Numbered(Rotated(Taken(n))) /\ \A k, kinds : ~Awaits(Rotated(Taken(n)), kinds, k)
  BY TakenOne, RotatedAll DEF Taken, Quiet
<1>3. /\ Idle(Rotated(Taken(n))) /\ page' = "codes" /\ up' = up
      /\ kept' = kept /\ ghost' = ghost
  BY DEF RegisterOk
<1> QED
  BY <1>1, <1>2, <1>3, NothingAwaited DEF Quiet

LEMMA SignInFailsQuiet == \A n : Quiet /\ SignInFails(n) => Quiet'
<1> SUFFICES ASSUME NEW n, Quiet, SignInFails(n) PROVE Quiet'
  OBVIOUS
<1>1. Awaits(requests, SignIns, call) /\ up
  BY HeardAwaits DEF SignInFails
<1>2. ~Awaits(requests, {"logout"}, call)
  BY <1>1 DEF Awaits, SignIns
<1>3. Numbered(Taken(n)) /\ \A k, kinds : Awaits(Taken(n), kinds, k) => Awaits(requests, kinds, k)
  BY TakenOne DEF Taken, Quiet
<1>4. Idle(Taken(n)) /\ UNCHANGED <<up, kept, page, ghost>>
  BY DEF SignInFails
<1> QED
  BY <1>1, <1>2, <1>3, <1>4, NothingAwaited DEF Quiet

LEMMA AcknowledgeQuiet == Quiet /\ Acknowledge => Quiet'
<1> SUFFICES ASSUME Quiet, Acknowledge PROVE Quiet'
  OBVIOUS
<1>1. Begun(requests, "get")
  BY ReadsBegins DEF Acknowledge, Quiet
<1>2. IsGhost(ghost') /\ ~ghost'.out
  BY DEF Acknowledge, Quiet, IsGhost
<1>3. up' = up /\ up /\ page' = "week" /\ page = "codes"
  BY DEF Acknowledge
<1>4. "get" \notin SignIns \cup {"me"} /\ "get" \notin Confirmed
  BY DEF SignIns, Confirmed
<1> QED
  BY <1>1, <1>2, <1>3, <1>4 DEF Quiet, Begun

LEMMA LaunchQuiet == Quiet /\ Launch => Quiet'
<1> SUFFICES ASSUME Quiet, Launch PROVE Quiet'
  OBVIOUS
<1>1. page = "auth" /\ UNCHANGED <<page, kept, ghost>> /\ up'
  BY DEF Launch, Quiet
<1>2. CASE kept = None
  <2>1. UNCHANGED <<requests, busy, call>>
    BY <1>2 DEF Launch
  <2> QED
    BY <1>1, <2>1 DEF Quiet
<1>3. CASE kept # None
  <2> DEFINE q == FromWindow("me", FirstName, 0, None, None, kept)
  <2>1. IsRequest(q) /\ q.by = "window" /\ q.waits /\ q.kind = "me"
    BY WindowRequest
  <2>2. Begin(requests, q)
    BY <1>3 DEF Launch
  <2> HIDE DEF q
  <2>3. Begun(requests, q.kind)
    BY <2>1, <2>2, BeginsOne DEF Quiet
  <2>4. Begun(requests, "me")
    BY <2>1, <2>3
  <2>5. "me" \notin Confirmed
    BY DEF Confirmed
  <2> QED
    BY <1>1, <1>3, <2>4, <2>5 DEF Quiet, Begun
<1> QED
  BY <1>2, <1>3

LEMMA ResumeOkQuiet == \A n : Quiet /\ ResumeOk(n) => Quiet'
<1> SUFFICES ASSUME NEW n, Quiet, ResumeOk(n) PROVE Quiet'
  OBVIOUS
<1>1. Awaits(requests, {"me"}, call) /\ up
  BY HeardAwaits DEF ResumeOk
<1>2. Awaits(requests, {"password", "me"}, call)
  BY <1>1 DEF Awaits
<1>3. IsGhost(ghost') /\ ~ghost'.out
  BY <1>2 DEF ResumeOk, Quiet
<1>4. up' = up /\ page' = "week" /\ Reads(Rotated(Taken(n)), who', jar)
  BY DEF ResumeOk
<1> QED
  BY <1>1, <1>3, <1>4, ReadsAfresh

LEMMA ResumeFailsQuiet == \A n : Quiet /\ ResumeFails(n) => Quiet'
<1> SUFFICES ASSUME NEW n, Quiet, ResumeFails(n) PROVE Quiet'
  OBVIOUS
<1>1. Awaits(requests, {"me"}, n) /\ up
  BY HeardAwaits DEF ResumeFails
<1>2. Awaits(requests, SignIns \cup {"me"}, n)
  BY <1>1 DEF Awaits
<1>3. page = "auth" /\ page' = page /\ up' = up
  BY <1>2 DEF ResumeFails, Quiet
<1>4. kept = None => kept' = None
  BY DEF ResumeFails
<1>5. Numbered(Rotated(Taken(n))) /\ \A k, kinds : ~Awaits(Rotated(Taken(n)), kinds, k)
  BY TakenOne, RotatedAll DEF Taken, Quiet
<1>6. CASE n = call
  <2>1. Idle(Rotated(Taken(n))) /\ ghost' = ghost
    BY <1>6 DEF ResumeFails
  <2> QED
    BY <1>1, <1>3, <1>4, <1>5, <2>1, NothingAwaited DEF Quiet
<1>7. CASE n # call
  <2>1. requests' = Rotated(Taken(n)) /\ UNCHANGED <<call, busy>>
    BY <1>7 DEF ResumeFails
  <2>2. IsGhost(ghost') /\ ghost'.out = ghost.out
    <3>1. ghost' = [ghost EXCEPT !.aborted = busy]
      BY <1>7 DEF ResumeFails
    <3> QED
      BY <3>1, GhostParts DEF Quiet
  <2>3. Numbered(requests') /\ \A k, kinds : ~Awaits(requests', kinds, k)
    BY <1>5, <2>1
  <2>4. busy' <=> call' # None
    BY <2>1 DEF Quiet
  <2>5. ghost'.out => kept' = None
    BY <1>4, <2>2 DEF Quiet
  <2>6. up' /\ page' = "auth"
    BY <1>1, <1>3
  <2> QED
    BY <2>2, <2>3, <2>4, <2>5, <2>6 DEF Quiet
<1> QED
  BY <1>6, <1>7

LEMMA LogOutQuiet == Quiet /\ LogOut => Quiet'
<1> SUFFICES ASSUME Quiet, LogOut PROVE Quiet'
  OBVIOUS
<1> DEFINE q == FromWindow("logout", FirstName, 0, None, who, jar)
<1>1. IsRequest(q) /\ q.by = "window" /\ q.waits /\ q.kind = "logout"
  BY WindowRequest
<1>2. Begin(requests, q)
  BY DEF LogOut
<1> HIDE DEF q
<1>3. Begun(requests, q.kind)
  BY <1>1, <1>2, BeginsOne DEF Quiet
<1>4. Begun(requests, "logout")
  BY <1>1, <1>3
<1>5. kept' = None /\ page' = page /\ page = "week" /\ up /\ up' = up
  BY DEF LogOut
<1>6. IsGhost(ghost')
  <2>1. ghost' = [ghost EXCEPT !.out = TRUE]
    BY DEF LogOut
  <2> QED
    BY <2>1, GhostParts DEF Quiet
<1>7. "logout" \notin SignIns \cup {"me"} /\ "logout" \notin {"password", "me"}
  BY DEF SignIns
<1> QED
  BY <1>4, <1>5, <1>6, <1>7 DEF Quiet, Begun

\* Signed out, the window waits for nothing.
LEMMA SignedOutQuiet ==
  ASSUME Quiet, NEW n, SignedOut(Taken(n)), IsGhost(ghost'), ghost'.out => kept' = None
  PROVE  Quiet'
<1>1. Numbered(Rotated(Taken(n))) /\ \A k, kinds : ~Awaits(Rotated(Taken(n)), kinds, k)
  BY TakenOne, RotatedAll DEF Taken, Quiet
<1>2. Idle(Rotated(Taken(n))) /\ page' = "auth"
  BY DEF SignedOut
<1> QED
  BY <1>1, <1>2, NothingAwaited

LEMMA LogOutDoneQuiet == \A n : Quiet /\ LogOutDone(n) => Quiet'
<1> SUFFICES ASSUME NEW n, Quiet, LogOutDone(n) PROVE Quiet'
  OBVIOUS
<1>1. SignedOut(Taken(n)) /\ UNCHANGED <<kept, ghost>>
  BY DEF LogOutDone
<1>2. IsGhost(ghost') /\ (ghost'.out => kept' = None)
  BY <1>1 DEF Quiet
<1> QED
  BY <1>1, <1>2, SignedOutQuiet

LEMMA DeleteOkQuiet == \A n : Quiet /\ DeleteOk(n) => Quiet'
<1> SUFFICES ASSUME NEW n, Quiet, DeleteOk(n) PROVE Quiet'
  OBVIOUS
<1>1. SignedOut(Taken(n)) /\ kept' = None /\ ghost' = [ghost EXCEPT !.out = TRUE]
  BY DEF DeleteOk
<1>2. IsGhost(ghost')
  BY <1>1, GhostParts DEF Quiet
<1> QED
  BY <1>1, <1>2, SignedOutQuiet

LEMMA ExpiredQuiet == \A n : Quiet /\ Expired(n) => Quiet'
<1> SUFFICES ASSUME NEW n, Quiet, Expired(n) PROVE Quiet'
  OBVIOUS
<1>1. SignedOut(Taken(n)) /\ kept' = None /\ ghost' = [ghost EXCEPT !.out = TRUE]
  BY DEF Expired
<1>2. IsGhost(ghost')
  BY <1>1, GhostParts DEF Quiet
<1> QED
  BY <1>1, <1>2, SignedOutQuiet

\* While the window waits for anything but the answer to a logout, and shows a
\* week, the student has not signed out.
LEMMA NotOut ==
  ASSUME Quiet, page = "week", ~Awaits(requests, {"logout"}, call)
  PROVE  ~ghost.out
  BY DEF Quiet

LEMMA ConfirmQuiet == Quiet /\ Confirm => Quiet'
<1> SUFFICES ASSUME Quiet, Confirm PROVE Quiet'
  OBVIOUS
<1>1. up /\ page = "week" /\ UNCHANGED <<up, page, kept, ghost>>
  BY DEF Confirm
<1>2. ~Awaits(requests, {"logout"}, call)
  <2>1. CASE busy
    BY <2>1 DEF Confirm, Awaits
  <2>2. CASE ~busy
    BY <2>2, NoneIsNoNumber DEF Quiet
  <2> QED
    BY <2>1, <2>2
<1>3. ~ghost.out
  BY <1>1, <1>2, NotOut
<1>4. PICK kind, pass :
        kind \in Confirmed /\ Begin(requests, FromWindow(kind, FirstName, pass, None, who, jar))
  BY DEF Confirm
<1> DEFINE q == FromWindow(kind, FirstName, pass, None, who, jar)
<1>5. IsRequest(q) /\ q.by = "window" /\ q.waits /\ q.kind = kind
  BY WindowRequest
<1>6. Begin(requests, q)
  BY <1>4
<1> HIDE DEF q
<1>7. Begun(requests, kind)
  BY <1>5, <1>6, BeginsOne DEF Quiet
<1>8. kind \notin SignIns \cup {"me"}
  BY <1>4 DEF SignIns, Confirmed
<1> QED
  BY <1>1, <1>3, <1>7, <1>8 DEF Quiet, Begun

LEMMA PasswordOkQuiet == \A n : Quiet /\ PasswordOk(n) => Quiet'
<1> SUFFICES ASSUME NEW n, Quiet, PasswordOk(n) PROVE Quiet'
  OBVIOUS
<1>1. Awaits(requests, {"password"}, call) /\ up
  BY HeardAwaits DEF PasswordOk
<1>2. Awaits(requests, {"password", "me"}, call)
  BY <1>1 DEF Awaits
<1>3. Numbered(Rotated(Taken(n))) /\ \A k, kinds : ~Awaits(Rotated(Taken(n)), kinds, k)
  BY TakenOne, RotatedAll DEF Taken, Quiet
<1>4. Idle(Rotated(Taken(n))) /\ up' = up /\ ghost' = ghost
  BY DEF PasswordOk
<1>5. IsGhost(ghost') /\ ghost'.out = ghost.out
  BY <1>4 DEF Quiet
<1>6. ~ghost.out
  BY <1>2 DEF Quiet
<1> QED
  BY <1>1, <1>3, <1>4, <1>5, <1>6, NothingAwaited

\* The answer to a request that needed the password leaves nothing to wait for
\* that brings a session.
LEMMA ConfirmedTaken ==
  ASSUME Quiet, NEW n, Awaits(requests, Confirmed, n), n = call
  PROVE  /\ page = "week" /\ ~ghost.out /\ Numbered(Taken(n))
         /\ \A k : ~Awaits(Taken(n), SignIns \cup {"me"}, k)
<1>1. page = "week"
  BY DEF Quiet
<1>2. ~Awaits(requests, {"logout"}, call)
  BY DEF Awaits, Confirmed
<1>3. ~ghost.out
  BY <1>1, <1>2, NotOut
<1>4. Numbered(Taken(n)) /\ \A k, kinds : Awaits(Taken(n), kinds, k) => Awaits(requests, kinds, k)
  BY TakenOne DEF Taken, Quiet
<1>5. \A k : ~Awaits(requests, SignIns \cup {"me"}, k)
  BY <1>1 DEF Quiet
<1> QED
  BY <1>1, <1>3, <1>4, <1>5

LEMMA CodesOkQuiet == \A n : Quiet /\ CodesOk(n) => Quiet'
<1> SUFFICES ASSUME NEW n, Quiet, CodesOk(n) PROVE Quiet'
  OBVIOUS
<1>1. Awaits(requests, {"codes"}, n) /\ up /\ n = call
  BY HeardAwaits DEF CodesOk
<1>2. Awaits(requests, Confirmed, n)
  BY <1>1 DEF Awaits, Confirmed
<1>3. /\ ~ghost.out /\ Numbered(Taken(n))
      /\ \A k : ~Awaits(Taken(n), SignIns \cup {"me"}, k)
  BY <1>1, <1>2, ConfirmedTaken
<1>4. Idle(Taken(n)) /\ up' = up /\ ghost' = ghost
  BY DEF CodesOk
<1>5. IsGhost(ghost') /\ ~ghost'.out
  BY <1>3, <1>4 DEF Quiet
<1> QED
  BY <1>1, <1>3, <1>4, <1>5, NothingAwaited

LEMMA ConfirmFailsQuiet == \A n : Quiet /\ ConfirmFails(n) => Quiet'
<1> SUFFICES ASSUME NEW n, Quiet, ConfirmFails(n) PROVE Quiet'
  OBVIOUS
<1>1. Awaits(requests, Confirmed, n) /\ up /\ n = call
  BY HeardAwaits DEF ConfirmFails
<1>2. /\ ~ghost.out /\ Numbered(Taken(n))
      /\ \A k : ~Awaits(Taken(n), SignIns \cup {"me"}, k)
  BY <1>1, ConfirmedTaken
<1>3. Idle(Taken(n)) /\ up' = up /\ ghost' = ghost
  BY DEF ConfirmFails
<1>4. IsGhost(ghost') /\ ~ghost'.out
  BY <1>2, <1>3 DEF Quiet
<1> QED
  BY <1>1, <1>2, <1>3, <1>4, NothingAwaited

LEMMA WorkQuiet == Quiet /\ Work => Quiet'
<1> SUFFICES ASSUME Quiet, Work PROVE Quiet'
  OBVIOUS
<1>1. up /\ page = "week" /\ UNCHANGED <<up, page, kept, ghost>>
  BY DEF Work
<1>2. CASE ~busy /\ Reads(requests, who, jar)
  <2>1. Begun(requests, "get")
    BY <1>2, ReadsBegins DEF Quiet
  <2>2. ~Awaits(requests, {"logout"}, call)
    BY <1>2, NoneIsNoNumber DEF Quiet
  <2>3. ~ghost.out
    BY <1>1, <2>2, NotOut
  <2>4. "get" \notin SignIns \cup {"me"} /\ "get" \notin Confirmed
    BY DEF SignIns, Confirmed
  <2> QED
    BY <1>1, <2>1, <2>3, <2>4 DEF Quiet, Begun
<1>3. CASE /\ requests' = Asked(requests, FromWindow("get", FirstName, 0, None, who, jar))
           /\ UNCHANGED <<call, busy>>
  <2> DEFINE q == FromWindow("get", FirstName, 0, None, who, jar)
  <2>1. IsRequest(q) /\ q.kind = "get"
    BY WindowRequest
  <2>2. requests' = Asked(requests, q)
    BY <1>3
  <2> HIDE DEF q
  <2> QED
    BY <1>1, <1>3, <2>1, <2>2, AskedBeside
<1> QED
  BY <1>2, <1>3 DEF Work

LEMMA WorkDoneQuiet == \A n : Quiet /\ WorkDone(n) => Quiet'
<1> SUFFICES ASSUME NEW n, Quiet, WorkDone(n) PROVE Quiet'
  OBVIOUS
<1>1. Awaits(requests, {"get"}, n) /\ up
  BY HeardAwaits DEF WorkDone
<1>2. UNCHANGED <<up, page, kept, ghost>>
  BY DEF WorkDone
<1>3. CASE n = call
  <2>1. Idle(Taken(n))
    BY <1>3 DEF WorkDone
  <2>2. Numbered(Taken(n)) /\ \A k, kinds : Awaits(Taken(n), kinds, k) => Awaits(requests, kinds, k)
    BY TakenOne DEF Taken, Quiet
  <2>3. ~Awaits(requests, {"logout"}, call)
    BY <1>1, <1>3 DEF Awaits
  <2>4. page' # "auth" => \A k : ~Awaits(Taken(n), SignIns \cup {"me"}, k)
    BY <1>2, <2>2 DEF Quiet
  <2>5. IsGhost(ghost') /\ (ghost'.out => kept' = None /\ page' # "week")
    BY <1>2, <2>3 DEF Quiet
  <2> QED
    BY <1>1, <1>2, <2>1, <2>2, <2>4, <2>5, NothingAwaited
<1>4. CASE n # call
  <2>1. requests' = Taken(n) /\ UNCHANGED <<call, busy>>
    BY <1>4 DEF WorkDone
  <2>2. IsGhost(ghost') /\ ghost'.out = ghost.out
    BY <1>2 DEF Quiet
  <2> QED
    BY <1>2, <1>4, <2>1, <2>2, TakenBeside
<1> QED
  BY <1>3, <1>4

LEMMA LateQuiet == \A n : Quiet /\ Late(n) => Quiet'
<1> SUFFICES ASSUME NEW n, Quiet, Late(n) PROVE Quiet'
  OBVIOUS
<1>1. n # call /\ requests' = Taken(n) /\ UNCHANGED <<up, kept, busy, call, page, ghost>>
  BY DEF Late
<1>2. IsGhost(ghost') /\ ghost'.out = ghost.out
  BY <1>1 DEF Quiet
<1> QED
  BY <1>1, <1>2, TakenBeside

-----------------------------------------------------------------------------
(* The network, restarts, and another device.                              *)
\* A request nobody waits for any more.
LEMMA LeftOne ==
  ASSUME NEW r, IsRequest(r), NEW x
  PROVE  IsRequest([r EXCEPT !.waits = x]) /\ [r EXCEPT !.waits = x].waits = x
<1>1. IsRequest([r EXCEPT !.waits = x])
  BY DEF IsRequest
<1>2. [r EXCEPT !.waits = x].waits = x
  BY DEF IsRequest
<1> QED
  BY <1>1, <1>2

LEMMA LosesQuiet == Quiet /\ Loses => Quiet'
<1> SUFFICES ASSUME Quiet, Loses PROVE Quiet'
  OBVIOUS
<1>1. UNCHANGED <<up, kept, busy, call, page, ghost>>
  BY DEF Loses
<1>2. PICK n \in DOMAIN requests :
        \/ requests' = [requests EXCEPT ![n].answer = No("lost")]
        \/ requests' = Asked([requests EXCEPT ![n].answer = No("lost")],
                             [requests[n] EXCEPT !.waits = FALSE])
  BY DEF Loses
<1> DEFINE gone == [requests EXCEPT ![n].answer = No("lost")]
           q == [requests[n] EXCEPT !.waits = FALSE]
<1>3. SameAwaited(requests, gone)
  BY AnswerOne, Zenon DEF Quiet
<1>4. IsRequest(q) /\ ~q.waits
  <2>1. IsRequest(requests[n])
    BY DEF Quiet, Numbered
  <2> QED
    BY <2>1, LeftOne
<1>5. requests' = gone \/ requests' = Asked(gone, q)
  BY <1>2
<1> HIDE DEF gone, q
<1>6. Numbered(gone) /\ \A k, kinds : Awaits(gone, kinds, k) <=> Awaits(requests, kinds, k)
  BY <1>3 DEF SameAwaited
<1>7. CASE requests' = Asked(gone, q)
  <2>1. Numbered(Asked(gone, q))
        /\ \A k, kinds : Awaits(Asked(gone, q), kinds, k) <=> Awaits(gone, kinds, k)
    BY <1>4, <1>6, AskedOne
  <2>2. Numbered(requests') /\ \A k, kinds : Awaits(requests', kinds, k) <=> Awaits(requests, kinds, k)
    BY <1>6, <1>7, <2>1
  <2> QED
    BY <1>1, <2>2 DEF Quiet
<1>8. CASE requests' = gone
  <2>1. Numbered(requests') /\ \A k, kinds : Awaits(requests', kinds, k) <=> Awaits(requests, kinds, k)
    BY <1>6, <1>8
  <2> QED
    BY <1>1, <2>1 DEF Quiet
<1> QED
  BY <1>5, <1>7, <1>8

LEMMA QuitQuiet == Quiet /\ Quit => Quiet'
<1> SUFFICES ASSUME Quiet, Quit PROVE Quiet'
  OBVIOUS
<1>1. page' = "auth" /\ kept' = kept /\ ghost' = [ghost EXCEPT !.aborted = FALSE]
  BY DEF Quit
<1>2. IsGhost(ghost') /\ ghost'.out = ghost.out
  BY <1>1, GhostParts DEF Quiet
<1>3. ghost'.out => kept' = None /\ page' # "week"
  BY <1>1, <1>2 DEF Quiet
<1>4. CASE Idle(Rotated(requests))
  <2>1. Numbered(Rotated(requests)) /\ \A n, kinds : ~Awaits(Rotated(requests), kinds, n)
    BY RotatedAll DEF Quiet
  <2> QED
    BY <1>1, <1>2, <1>3, <1>4, <2>1, NothingAwaited
<1> DEFINE others == {n \in DOMAIN requests : requests[n].by # "window"}
           rs == Restrict(requests, others)
<1>5. CASE Idle(rs)
  <2>1. DOMAIN rs = others /\ \A n \in others : rs[n] = requests[n]
    BY DEF Restrict
  <2>2. IsFiniteSet(others)
    BY FS_Subset DEF Quiet, Numbered
  <2>3. Numbered(rs) /\ \A n, kinds : ~Awaits(rs, kinds, n)
    BY <2>1, <2>2 DEF Quiet, Numbered, Awaits
  <2> HIDE DEF rs
  <2> QED
    BY <1>1, <1>2, <1>3, <1>5, <2>3, NothingAwaited
<1> QED
  BY <1>4, <1>5 DEF Quit

LEMMA OtherAsksQuiet == Quiet /\ OtherAsks => Quiet'
<1> SUFFICES ASSUME Quiet, OtherAsks PROVE Quiet'
  OBVIOUS
<1>1. UNCHANGED <<up, kept, busy, call, page, ghost>>
  BY DEF OtherAsks
<1>2. PICK kind, name, pass, code :
        requests' = Asked(requests, Request(kind, "other", name, None, pass, code, theirs))
  BY DEF OtherAsks
<1> DEFINE q == Request(kind, "other", name, None, pass, code, theirs)
<1>3. IsRequest(q) /\ q.by # "window"
  BY DEF Request, IsRequest
<1>4. requests' = Asked(requests, q)
  BY <1>2
<1> HIDE DEF q
<1> QED
  BY <1>1, <1>3, <1>4, AskedBeside

LEMMA OtherTakesQuiet == Quiet /\ OtherTakes => Quiet'
<1> SUFFICES ASSUME Quiet, OtherTakes PROVE Quiet'
  OBVIOUS
<1>1. UNCHANGED windowVars \/ UNCHANGED <<up, kept, busy, call, page, ghost>>
  BY DEF OtherTakes
<1>2. PICK n \in DOMAIN requests : requests[n].by = "other" /\ requests' = Taken(n)
  BY DEF OtherTakes
<1>3. \A kinds : ~Awaits(requests, kinds, n)
  BY <1>2 DEF Awaits
<1>4. Numbered(requests') /\ \A k, kinds : Awaits(requests', kinds, k) <=> Awaits(requests, kinds, k)
  BY <1>2, <1>3, TakenOne DEF Taken, Quiet
<1> QED
  BY <1>1, <1>4 DEF Quiet, windowVars

LEMMA ServedQuiet == Quiet /\ Served => Quiet'
<1> SUFFICES ASSUME Quiet, Served PROVE Quiet'
  OBVIOUS
<1>1. PICK n \in DOMAIN requests : Serve(n)
  BY DEF Served
<1>2. SameAwaited(requests, requests')
  BY <1>1, ServeAwaits DEF Quiet
<1>3. UNCHANGED windowVars
  BY DEF Served
<1> QED
  BY <1>2, <1>3, StillQuiet

LEMMA TimesOutQuiet == Quiet /\ TimesOut => Quiet'
  BY DEF Quiet, TimesOut, SessionTimesOut

-----------------------------------------------------------------------------
LEMMA RepliesQuiet == Quiet /\ Replies => Quiet'
  BY SignInOkQuiet, RegisterOkQuiet, SignInFailsQuiet, ResumeOkQuiet, ResumeFailsQuiet,
     LogOutDoneQuiet, PasswordOkQuiet, CodesOkQuiet, DeleteOkQuiet, ConfirmFailsQuiet,
     WorkDoneQuiet, ExpiredQuiet, LateQuiet
  DEF Replies

LEMMA StepQuiet == Quiet /\ [SignInNext]_signVars => Quiet'
<1> SUFFICES ASSUME Quiet, [SignInNext]_signVars PROVE Quiet'
  OBVIOUS
<1>1. CASE SignInNext
  BY <1>1, LaunchQuiet, SubmitQuiet, AcknowledgeQuiet, LogOutQuiet, ConfirmQuiet, WorkQuiet,
     RepliesQuiet, ServedQuiet, LosesQuiet, QuitQuiet, OtherAsksQuiet, OtherTakesQuiet,
     TimesOutQuiet
  DEF SignInNext
<1>2. CASE UNCHANGED signVars
  BY <1>2 DEF Quiet, signVars, accountVars, windowVars
<1> QED
  BY <1>1, <1>2

\* "Forgotten first, so a sign-out that fails to reach the server still leaves
\* nothing to resume" (the window's Log out, Delete account, and the answer that
\* a session has ended): whatever was on its way, lost or answered late, the
\* next launch finds no session until someone has signed in here.
THEOREM NothingLeftToResume == SignInSpec => []NothingToResume
<1>1. Quiet => NothingToResume
  BY DEF Quiet, NothingToResume
<1> QED
  BY <1>1, InitQuiet, StepQuiet, PTL DEF SignInSpec

-----------------------------------------------------------------------------
(* Who the window shows.                                                   *)
\* What of request n the window could take for an answer of the server.
Tells(rs, n) == n \in DOMAIN rs /\ rs[n].answer # None /\ rs[n].answer # No("lost")

NothingNew(rs, rs1) ==
  \A n : Tells(rs1, n) =>
    \E m : Tells(rs, m) /\ rs[m].kind = rs1[n].kind /\ rs[m].answer = rs1[n].answer

IsYes(answer) == answer # None /\ answer.status = "ok"

AnswersOK ==
  \A n \in DOMAIN requests :
    Tells(requests, n) => Good(sessions, fresh, requests[n].kind, requests[n].answer)

ShownOK ==
  /\ page \in {"auth", "codes", "week"}
  /\ page = "auth" <=> who = None
  /\ page = "week" => who.born \in ghost.acked /\ kept \in {None, jar}
  /\ who # None => Names(sessions, jar, who)
  /\ \A s \in sessions : s.token = kept => s.born \in ghost.acked
  /\ Old(fresh, kept) /\ Old(fresh, jar)

\* While the kept session is tried and nothing else was begun since, the window
\* has no other cookie, and no answer can bring it one.
MeOK ==
  Awaits(requests, {"me"}, call) =>
    /\ requests[call].cookie = jar /\ jar = kept
    /\ \A n : Awaits(requests, SignIns \cup {"me"}, n) => n = call
    /\ IsYes(requests[call].answer) =>
         Names(sessions, jar, requests[call].answer) /\ requests[call].answer.born \in ghost.acked

\* The password that is changed is that of the account shown.
PwOK ==
  Awaits(requests, {"password"}, call) =>
    /\ requests[call].cookie = jar
    /\ requests[call].pass \in Nat /\ requests[call].pass < fresh
    /\ requests[call].seen # None =>
         /\ Same(requests[call].seen, who)
         /\ \A row \in RowOf(who.id) : row.pass = requests[call].pass => row.born = who.born
    /\ IsYes(requests[call].answer) => Same(requests[call].answer, who)

CallWaits == busy /\ ~ghost.aborted => \E kinds : Awaits(requests, kinds, call)

CallOK == MeOK /\ PwOK /\ CallWaits

WindowOK == Quiet /\ ServerOK /\ AnswersOK /\ ShownOK /\ CallOK

-----------------------------------------------------------------------------
(* No step of the window makes up an answer.                               *)
LEMMA NothingNewTwice ==
  ASSUME NEW rs, NEW rs1, NEW rs2, NothingNew(rs, rs1), NothingNew(rs1, rs2)
  PROVE  NothingNew(rs, rs2)
<1> SUFFICES ASSUME NEW n, Tells(rs2, n)
             PROVE  \E m : /\ Tells(rs, m)
                           /\ rs[m].kind = rs2[n].kind /\ rs[m].answer = rs2[n].answer
  BY DEF NothingNew
<1>1. PICK k : Tells(rs1, k) /\ rs1[k].kind = rs2[n].kind /\ rs1[k].answer = rs2[n].answer
  BY DEF NothingNew
<1>2. PICK m : Tells(rs, m) /\ rs[m].kind = rs1[k].kind /\ rs[m].answer = rs1[k].answer
  BY <1>1 DEF NothingNew
<1> QED
  BY <1>1, <1>2

LEMMA AskedKeeps ==
  ASSUME NEW rs, Numbered(rs), NEW q
  PROVE  \A n \in DOMAIN rs : n \in DOMAIN Asked(rs, q) /\ Asked(rs, q)[n] = rs[n]
  BY DEF Asked

LEMMA AskedTells ==
  ASSUME NEW rs, Numbered(rs), NEW q, q.answer = None
  PROVE  NothingNew(rs, Asked(rs, q))
<1>1. DOMAIN Asked(rs, q) = DOMAIN rs \cup {Free(rs)} /\ Free(rs) \notin DOMAIN rs
  BY FreeIsFree DEF Asked, Numbered
<1>2. Asked(rs, q)[Free(rs)] = q
  BY <1>1 DEF Asked
<1>3. \A n \in DOMAIN rs : Asked(rs, q)[n] = rs[n]
  BY AskedKeeps
<1> QED
  BY <1>1, <1>2, <1>3 DEF NothingNew, Tells

LEMMA TakenTells ==
  ASSUME NEW rs, NEW k
  PROVE  NothingNew(rs, Without(rs, k))
  BY DEF Without, Restrict, NothingNew, Tells

LEMMA RotatedTells ==
  ASSUME NEW rs, Numbered(rs)
  PROVE  NothingNew(rs, Rotated(rs))
<1>1. DOMAIN Rotated(rs) \subseteq DOMAIN rs
  BY DEF Rotated
<1>2. \A n \in DOMAIN Rotated(rs) :
        Rotated(rs)[n] = IF rs[n].by = "window" THEN [rs[n] EXCEPT !.waits = FALSE] ELSE rs[n]
  BY DEF Rotated
<1>3. \A n \in DOMAIN Rotated(rs) :
        Rotated(rs)[n].kind = rs[n].kind /\ Rotated(rs)[n].answer = rs[n].answer
  BY <1>1, <1>2 DEF Numbered, IsRequest
<1> QED
  BY <1>1, <1>3 DEF NothingNew, Tells

LEMMA LostTells ==
  ASSUME NEW rs, Numbered(rs), NEW k \in DOMAIN rs
  PROVE  NothingNew(rs, [rs EXCEPT ![k].answer = No("lost")])
<1> DEFINE rs1 == [rs EXCEPT ![k].answer = No("lost")]
<1>1. DOMAIN rs1 = DOMAIN rs
  OBVIOUS
<1>2. rs1[k].answer = No("lost")
  BY DEF Numbered, IsRequest
<1>3. \A n \in DOMAIN rs \ {k} : rs1[n] = rs[n]
  OBVIOUS
<1> HIDE DEF rs1
<1>4. NothingNew(rs, rs1)
  BY <1>1, <1>2, <1>3 DEF NothingNew, Tells
<1> QED
  BY <1>4 DEF rs1

\* What was taken, and dropped.
LEMMA TakenRotatedTells ==
  ASSUME Quiet, NEW n
  PROVE  /\ Numbered(Taken(n)) /\ NothingNew(requests, Taken(n))
         /\ Numbered(Rotated(Taken(n))) /\ NothingNew(requests, Rotated(Taken(n)))
<1>1. Numbered(Taken(n)) /\ NothingNew(requests, Taken(n))
  BY TakenOne, TakenTells DEF Taken, Quiet
<1>2. Numbered(Rotated(Taken(n))) /\ NothingNew(Taken(n), Rotated(Taken(n)))
  BY <1>1, RotatedAll, RotatedTells
<1> QED
  BY <1>1, <1>2, NothingNewTwice

\* Beside what is left, at most one new request.
LEMMA AsksAtMostOne ==
  ASSUME NEW rs, Numbered(rs), NothingNew(requests, rs), NEW q, q.answer = None,
         requests' = rs \/ requests' = Asked(rs, q)
  PROVE  NothingNew(requests, requests')
<1>1. CASE requests' = Asked(rs, q)
  <2>1. NothingNew(rs, Asked(rs, q))
    BY AskedTells
  <2> QED
    BY <1>1, <2>1, NothingNewTwice
<1> QED
  BY <1>1

LEMMA WindowAsks ==
  ASSUME NEW kind, NEW name, NEW pass, NEW code, NEW account, NEW cookie
  PROVE  LET q == FromWindow(kind, name, pass, code, account, cookie)
         IN q.answer = None /\ q.seen = None /\ q.cookie = cookie /\ q.pass = pass
  BY DEF FromWindow, Request

LEMMA BeginTells ==
  ASSUME NEW rs, Numbered(rs), NothingNew(requests, rs),
         NEW kind, NEW name, NEW pass, NEW code, NEW account, NEW cookie,
         Begin(rs, FromWindow(kind, name, pass, code, account, cookie))
  PROVE  NothingNew(requests, requests')
<1> DEFINE q == FromWindow(kind, name, pass, code, account, cookie)
<1>1. q.answer = None
  BY WindowAsks
<1>2. requests' = Asked(rs, q)
  BY DEF Begin
<1> HIDE DEF q
<1> QED
  BY <1>1, <1>2, AsksAtMostOne

LEMMA NothingNewAtAll ==
  ASSUME NEW rs
  PROVE  NothingNew(rs, rs)
  BY DEF NothingNew

LEMMA RepliesTell == \A n : Quiet /\ (\/ SignInOk(n) \/ RegisterOk(n) \/ SignInFails(n)
                                      \/ ResumeOk(n) \/ ResumeFails(n) \/ LogOutDone(n)
                                      \/ PasswordOk(n) \/ CodesOk(n) \/ DeleteOk(n)
                                      \/ ConfirmFails(n) \/ WorkDone(n) \/ Expired(n) \/ Late(n))
                          => NothingNew(requests, requests')
<1> SUFFICES ASSUME NEW n, Quiet,
                    \/ requests' = Taken(n) \/ requests' = Rotated(Taken(n))
                    \/ \E account, cookie : Reads(Rotated(Taken(n)), account, cookie)
             PROVE  NothingNew(requests, requests')
  BY DEF SignInOk, RegisterOk, SignInFails, ResumeOk, ResumeFails, LogOutDone, PasswordOk,
         CodesOk, DeleteOk, ConfirmFails, WorkDone, Expired, Late, Idle, SignedOut
<1>1. CASE \E account, cookie : Reads(Rotated(Taken(n)), account, cookie)
  BY <1>1, TakenRotatedTells, BeginTells DEF Reads
<1> QED
  BY <1>1, TakenRotatedTells

LEMMA WindowTells ==
  Quiet /\ SignInNext /\ ~Served /\ ~TimesOut => NothingNew(requests, requests')
<1> SUFFICES ASSUME Quiet, SignInNext, ~Served, ~TimesOut
             PROVE  NothingNew(requests, requests')
  OBVIOUS
<1>0. Numbered(requests) /\ NothingNew(requests, requests)
  BY NothingNewAtAll DEF Quiet
<1>1. CASE Replies
  BY <1>1, RepliesTell DEF Replies
<1>2. CASE Launch \/ Submit \/ Acknowledge \/ LogOut \/ Confirm
  <2>1. requests' = requests
        \/ \E kind, name, pass, code, account, cookie :
             Begin(requests, FromWindow(kind, name, pass, code, account, cookie))
    BY <1>2 DEF Launch, Submit, Acknowledge, LogOut, Confirm, Reads
  <2> QED
    BY <1>0, <2>1, BeginTells
<1>3. CASE Work
  <2>1. \/ Reads(requests, who, jar)
        \/ requests' = Asked(requests, FromWindow("get", FirstName, 0, None, who, jar))
    BY <1>3 DEF Work
  <2>2. FromWindow("get", FirstName, 0, None, who, jar).answer = None
    BY WindowAsks
  <2> QED
    BY <1>0, <2>1, <2>2, BeginTells, AsksAtMostOne DEF Reads
<1>4. CASE Loses
  <2>1. PICK n \in DOMAIN requests :
          /\ WaitsFor(requests[n])
          /\ \/ requests' = [requests EXCEPT ![n].answer = No("lost")]
             \/ /\ Matters(requests[n])
                /\ requests' = Asked([requests EXCEPT ![n].answer = No("lost")],
                                     [requests[n] EXCEPT !.waits = FALSE])
    BY <1>4 DEF Loses
  <2> DEFINE gone == [requests EXCEPT ![n].answer = No("lost")]
             q == [requests[n] EXCEPT !.waits = FALSE]
  <2>2. NothingNew(requests, gone)
    BY <1>0, LostTells
  <2>3. Numbered(gone)
    BY <1>0, AnswerOne, Zenon DEF SameAwaited
  <2>4. Matters(requests[n]) /\ WaitsFor(requests[n]) => q.answer = None
    <3>1. IsRequest(requests[n])
      BY <1>0 DEF Numbered
    <3> QED
      BY <3>1 DEF Matters, WaitsFor, IsRequest
  <2> HIDE DEF gone, q
  <2> QED
    BY <2>1, <2>2, <2>3, <2>4, AsksAtMostOne DEF gone, q
<1>5. CASE Quit
  <2>1. NothingNew(requests, Rotated(requests))
    BY <1>0, RotatedTells
  <2>2. NothingNew(requests, Restrict(requests, {n \in DOMAIN requests : requests[n].by # "window"}))
    BY DEF Restrict, NothingNew, Tells
  <2> QED
    BY <1>5, <2>1, <2>2 DEF Quit, Idle
<1>6. CASE OtherAsks
  <2>1. PICK kind, name, pass, code :
          requests' = Asked(requests, Request(kind, "other", name, None, pass, code, theirs))
    BY <1>6 DEF OtherAsks
  <2>2. Request(kind, "other", name, None, pass, code, theirs).answer = None
    BY DEF Request
  <2> QED
    BY <1>0, <2>1, <2>2, AsksAtMostOne
<1>7. CASE OtherTakes
  BY <1>7, TakenRotatedTells DEF OtherTakes
<1> QED
  BY <1>1, <1>2, <1>3, <1>4, <1>5, <1>6, <1>7 DEF SignInNext

-----------------------------------------------------------------------------
(* The server, and what the window knows.                                  *)
LEMMA ForwardGood ==
  ASSUME ServerOK, Forward, NEW kind, NEW answer, Good(sessions, fresh, kind, answer)
  PROVE  Good(sessions', fresh', kind, answer)
<1>1. Old(fresh', answer.token) /\ Names(sessions', answer.token, answer)
  BY ForwardNames DEF Good
<1> QED
  BY <1>1 DEF Good

\* An old token is not given to a new session.
LEMMA OldSessions ==
  ASSUME ServerOK, Forward, NEW token, Old(fresh, token)
  PROVE  \A s \in sessions' : s.token = token => s \in sessions
<1>1. fresh \in Nat /\ fresh' \in Nat
  BY DEF ServerOK, AccountsType, Forward
<1>2. \A s \in sessions' \ sessions : s.token \in Nat /\ fresh <= s.token
  BY <1>1, InInterval DEF Forward, NewSessions
<1> QED
  BY <1>1, <1>2, AccountsAssumption DEF Old

LEMMA AnsweredTells ==
  ASSUME Numbered(requests), NEW n \in DOMAIN requests, NEW answer,
         requests' = Answered(n, answer)
  PROVE  \A m : Tells(requests', m) =>
           \/ requests'[m].kind = requests[n].kind /\ requests'[m].answer = answer
           \/ /\ Tells(requests, m)
              /\ requests'[m].kind = requests[m].kind /\ requests'[m].answer = requests[m].answer
<1>1. CASE requests[n].waits
  <2>1. requests' = [requests EXCEPT ![n].answer = answer]
    BY <1>1 DEF Answered
  <2>2. DOMAIN requests' = DOMAIN requests
        /\ \A m \in DOMAIN requests \ {n} : requests'[m] = requests[m]
    BY <2>1
  <2>3. requests'[n].kind = requests[n].kind /\ requests'[n].answer = answer
    BY <2>1 DEF Numbered, IsRequest
  <2> QED
    BY <2>2, <2>3 DEF Tells
<1>2. CASE ~requests[n].waits
  <2>1. requests' = Without(requests, n)
    BY <1>2 DEF Answered
  <2> QED
    BY <2>1 DEF Without, Restrict, Tells
<1> QED
  BY <1>1, <1>2

LEMMA SeenTells ==
  ASSUME Numbered(requests), NEW n, NEW x, requests' = [requests EXCEPT ![n].seen = x]
  PROVE  NothingNew(requests, requests')
<1>1. DOMAIN requests' = DOMAIN requests
  OBVIOUS
<1>2. \A m \in DOMAIN requests :
        requests'[m].kind = requests[m].kind /\ requests'[m].answer = requests[m].answer
  BY DEF Numbered, IsRequest
<1> QED
  BY <1>1, <1>2 DEF NothingNew, Tells

LEMMA NothingNewAnswers ==
  ASSUME ServerOK, Forward, AnswersOK, NothingNew(requests, requests')
  PROVE  AnswersOK'
<1> SUFFICES ASSUME NEW n, Tells(requests', n)
             PROVE  Good(sessions', fresh', requests'[n].kind, requests'[n].answer)
  BY DEF AnswersOK, Tells
<1>1. PICK m : /\ Tells(requests, m)
               /\ requests[m].kind = requests'[n].kind /\ requests[m].answer = requests'[n].answer
  BY DEF NothingNew
<1>2. Good(sessions, fresh, requests'[n].kind, requests'[n].answer)
  BY <1>1 DEF AnswersOK, Tells
<1> QED
  BY <1>2, ForwardGood

LEMMA ServeAnswers ==
  ASSUME Quiet, ServerOK, AnswersOK, NEW n \in DOMAIN requests, Does(n)
  PROVE  AnswersOK'
<1>1. Forward
  BY DEF Does
<1>2. CASE \E x : requests' = [requests EXCEPT ![n].seen = x]
  BY <1>1, <1>2, SeenTells, NothingNewAnswers DEF Quiet
<1>3. ASSUME NEW answer, requests' = Answered(n, answer), Answers(requests[n], answer)
      PROVE  AnswersOK'
  <2> SUFFICES ASSUME NEW m, Tells(requests', m)
               PROVE  Good(sessions', fresh', requests'[m].kind, requests'[m].answer)
    BY DEF AnswersOK, Tells
  <2>1. CASE requests'[m].kind = requests[n].kind /\ requests'[m].answer = answer
    BY <1>3, <2>1 DEF Answers
  <2>2. CASE /\ Tells(requests, m)
             /\ requests'[m].kind = requests[m].kind /\ requests'[m].answer = requests[m].answer
    <3>1. Good(sessions, fresh, requests'[m].kind, requests'[m].answer)
      BY <2>2 DEF AnswersOK, Tells
    <3> QED
      BY <1>1, <3>1, ForwardGood
  <2> QED
    BY <1>3, <2>1, <2>2, AnsweredTells DEF Quiet
<1> QED
  BY <1>2, <1>3 DEF Does

LEMMA StepAnswers ==
  Quiet /\ ServerOK /\ AnswersOK /\ [SignInNext]_signVars => AnswersOK'
<1> SUFFICES ASSUME Quiet, ServerOK, AnswersOK, [SignInNext]_signVars PROVE AnswersOK'
  OBVIOUS
<1>1. Forward
  BY WindowStep, StepForward DEF signVars
<1>2. CASE Served
  BY <1>2, ServeDoes, ServeAnswers DEF Served
<1>3. CASE TimesOut \/ UNCHANGED signVars
  <2>1. requests' = requests
    BY <1>3 DEF TimesOut, SessionTimesOut, signVars, accountVars
  <2> QED
    BY <1>1, <2>1, NothingNewAtAll, NothingNewAnswers
<1>4. CASE SignInNext /\ ~Served /\ ~TimesOut
  BY <1>1, <1>4, WindowTells, NothingNewAnswers
<1> QED
  BY <1>2, <1>3, <1>4

-----------------------------------------------------------------------------
(* What the window waits for.                                              *)
LEMMA GhostKeeps ==
  ASSUME NEW g, IsGhost(g), NEW x
  PROVE  /\ [g EXCEPT !.aborted = x].acked = g.acked /\ [g EXCEPT !.aborted = x].aborted = x
         /\ [g EXCEPT !.out = x].acked = g.acked /\ [g EXCEPT !.out = x].aborted = g.aborted
         /\ [g EXCEPT !.acked = g.acked \cup {x}, !.out = FALSE].acked = g.acked \cup {x}
  BY DEF IsGhost

\* For nothing.
LEMMA NoCall ==
  ASSUME Numbered(requests'), NEW rs, Idle(rs)
  PROVE  CallOK'
<1>1. call' = None /\ ~busy'
  BY DEF Idle
<1>2. \A kinds : ~Awaits(requests', kinds, call')
  BY <1>1, NoneIsNoNumber
<1> QED
  BY <1>1, <1>2 DEF CallOK, MeOK, PwOK, CallWaits

\* For a new request of another kind.
LEMMA OtherCall ==
  ASSUME NEW rs, NEW kind, Begun(rs, kind), kind \notin {"me", "password"}
  PROVE  CallOK'
<1>1. \A kinds : Awaits(requests', kinds, call') <=> kind \in kinds
  BY DEF Begun
<1>2. Awaits(requests', {kind}, call') /\ ~Awaits(requests', {"me"}, call')
      /\ ~Awaits(requests', {"password"}, call')
  BY <1>1
<1> QED
  BY <1>2 DEF CallOK, MeOK, PwOK, CallWaits

\* For the same request, which got an answer at most that it is lost.
SameCall ==
  /\ UNCHANGED <<call, busy>> /\ ghost'.aborted = ghost.aborted
  /\ \A n : Awaits(requests', SignIns \cup {"me"}, n) => Awaits(requests, SignIns \cup {"me"}, n)
  /\ \A kinds : Awaits(requests, kinds, call) => Awaits(requests', kinds, call)
  /\ \A kinds : kinds \subseteq {"me", "password"} /\ Awaits(requests', kinds, call) =>
       /\ Awaits(requests, kinds, call)
       /\ requests'[call].cookie = requests[call].cookie
       /\ requests'[call].pass = requests[call].pass
       /\ requests'[call].seen = requests[call].seen
       /\ requests'[call].answer \in {requests[call].answer, No("lost")}

LEMMA StillCalls ==
  ASSUME CallOK, SameCall, ServerStands, UNCHANGED <<who, jar, kept>>, ghost'.acked = ghost.acked
  PROVE  CallOK'
<1>1. ~IsYes(No("lost"))
  BY DEF IsYes, No
<1>2. MeOK'
  BY <1>1 DEF CallOK, MeOK, SameCall, ServerStands
<1>3. PwOK'
  <2>1. RowOf(who.id)' = RowOf(who.id)
    BY DEF RowOf, Rows, ServerStands
  <2> QED
    BY <1>1, <2>1 DEF CallOK, PwOK, SameCall, ServerStands
<1>4. CallWaits'
  BY DEF CallOK, CallWaits, SameCall
<1> QED
  BY <1>2, <1>3, <1>4 DEF CallOK

LEMMA AskedSameCall ==
  ASSUME Quiet, NEW q, IsRequest(q), q.by = "window" /\ q.waits => q.kind = "get",
         requests' = Asked(requests, q), UNCHANGED <<call, busy, ghost>>
  PROVE  SameCall
<1>1. \A n, kinds : Awaits(requests', kinds, n) <=>
        \/ Awaits(requests, kinds, n)
        \/ n = Free(requests) /\ q.by = "window" /\ q.waits /\ q.kind \in kinds
  BY AskedOne DEF Quiet
<1>2. \A n \in DOMAIN requests : requests'[n] = requests[n]
  BY AskedKeeps DEF Quiet
<1>3. "get" \notin SignIns \cup {"me"} /\ "get" \notin {"me", "password"}
  BY DEF SignIns
<1>4. \A kinds : Awaits(requests, kinds, call) => call \in DOMAIN requests
  BY DEF Awaits
<1> QED
  BY <1>1, <1>2, <1>3, <1>4 DEF SameCall

LEMMA TakenSameCall ==
  ASSUME Quiet, NEW n, requests' = Taken(n), n # call \/ ~(requests[n].by = "window"),
         UNCHANGED <<call, busy, ghost>>
  PROVE  SameCall
<1>1. \A k, kinds : Awaits(requests', kinds, k) <=> k # n /\ Awaits(requests, kinds, k)
  BY TakenOne DEF Taken, Quiet
<1>2. \A k \in DOMAIN requests \ {n} : requests'[k] = requests[k]
  BY DEF Taken, Without, Restrict
<1>3. \A kinds : Awaits(requests, kinds, call) => call \in DOMAIN requests \ {n}
  BY DEF Awaits
<1> QED
  BY <1>1, <1>2, <1>3 DEF SameCall

LEMMA LosesSameCall == Quiet /\ Loses => SameCall
<1> SUFFICES ASSUME Quiet, Loses PROVE SameCall
  OBVIOUS
<1>1. UNCHANGED <<call, busy, ghost>>
  BY DEF Loses
<1>2. PICK n \in DOMAIN requests :
        \/ requests' = [requests EXCEPT ![n].answer = No("lost")]
        \/ requests' = Asked([requests EXCEPT ![n].answer = No("lost")],
                             [requests[n] EXCEPT !.waits = FALSE])
  BY DEF Loses
<1> DEFINE gone == [requests EXCEPT ![n].answer = No("lost")]
           q == [requests[n] EXCEPT !.waits = FALSE]
<1>3. Numbered(gone) /\ \A k, kinds : Awaits(gone, kinds, k) <=> Awaits(requests, kinds, k)
  BY AnswerOne, Zenon DEF Quiet, SameAwaited
<1>4. /\ DOMAIN gone = DOMAIN requests
      /\ \A k \in DOMAIN requests :
           /\ gone[k].cookie = requests[k].cookie /\ gone[k].pass = requests[k].pass
           /\ gone[k].seen = requests[k].seen
           /\ gone[k].answer \in {requests[k].answer, No("lost")}
  BY DEF Quiet, Numbered, IsRequest
<1>5. IsRequest(q) /\ ~q.waits
  BY LeftOne DEF Quiet, Numbered
<1>6. requests' = gone \/ requests' = Asked(gone, q)
  BY <1>2
<1> HIDE DEF gone, q
<1>7. \A k, kinds : Awaits(requests', kinds, k) <=> Awaits(requests, kinds, k)
  <2>1. CASE requests' = Asked(gone, q)
    BY <1>3, <1>5, <2>1, AskedOne
  <2> QED
    BY <1>3, <1>6, <2>1
<1>8. \A k \in DOMAIN requests : requests'[k] = gone[k]
  <2>1. CASE requests' = Asked(gone, q)
    BY <1>3, <1>4, <2>1, AskedKeeps
  <2> QED
    BY <1>6, <2>1
<1>9. \A kinds : Awaits(requests, kinds, call) => call \in DOMAIN requests
  BY DEF Awaits
<1> QED
  BY <1>1, <1>4, <1>7, <1>8, <1>9 DEF SameCall

-----------------------------------------------------------------------------
(* The steps once more, for the account shown and the cookies.             *)
LEMMA ShownStands ==
  ASSUME ShownOK, ServerStands, UNCHANGED <<who, jar, kept, page>>, ghost'.acked = ghost.acked
  PROVE  ShownOK'
  BY DEF ShownOK, ServerStands

\* Nobody is shown, and what is kept is as before or nothing.
LEMMA NobodyShown ==
  ASSUME ServerOK, ShownOK, ServerStands, who' = None, page' = "auth", jar' = None,
         kept' \in {kept, None}, ghost'.acked = ghost.acked
  PROVE  ShownOK'
<1>1. \A s \in sessions : s.token # None
  BY AccountsAssumption DEF ServerOK, OneSessionEach
<1> QED
  BY <1>1 DEF ShownOK, ServerStands, Old

LEMMA SubmitWindow == WindowOK /\ Quiet' /\ Submit => ShownOK' /\ CallOK'
<1> SUFFICES ASSUME WindowOK, Submit PROVE ShownOK' /\ CallOK'
  OBVIOUS
<1>1. PICK kind, name, pass, code :
        kind \in SignIns /\ Begin(requests, FromWindow(kind, name, pass, code, None, jar))
  BY DEF Submit, SignIns
<1> DEFINE q == FromWindow(kind, name, pass, code, None, jar)
<1>2. IsRequest(q) /\ q.by = "window" /\ q.waits /\ q.kind = kind
  BY WindowRequest
<1>3. Begin(requests, q)
  BY <1>1
<1> HIDE DEF q
<1>4. Begun(requests, kind)
  BY <1>2, <1>3, BeginsOne DEF WindowOK, Quiet
<1>5. kind \notin {"me", "password"}
  BY <1>1 DEF SignIns
<1>6. ServerStands /\ UNCHANGED <<who, jar, kept, page>> /\ ghost' = [ghost EXCEPT !.aborted = FALSE]
  BY DEF Submit
<1>7. ghost'.acked = ghost.acked
  BY <1>6, GhostKeeps DEF WindowOK, Quiet
<1> QED
  BY <1>4, <1>5, <1>6, <1>7, OtherCall, ShownStands DEF WindowOK

\* The answer to a request of the window's.
LEMMA HeardGood ==
  ASSUME WindowOK, NEW kinds, NEW n, Heard(kinds, n)
  PROVE  /\ Old(fresh, requests[n].answer.token)
         /\ Status(n) = "ok" =>
              /\ IsYes(requests[n].answer)
              /\ Good(sessions, fresh, requests[n].kind, requests[n].answer)
              /\ requests[n].kind # "logout" => Shown(requests[n].answer) # None
<1>1. n \in DOMAIN requests /\ requests[n].answer # None
  BY DEF Heard
<1>2. CASE requests[n].answer = No("lost")
  BY <1>2 DEF No, Old, Status
<1>3. CASE requests[n].answer # No("lost")
  <2>1. Good(sessions, fresh, requests[n].kind, requests[n].answer)
    BY <1>1, <1>3 DEF WindowOK, AnswersOK, Tells
  <2>2. Status(n) = "ok" /\ requests[n].kind # "logout" => Shown(requests[n].answer) \in AccountSet
    BY <2>1 DEF Good, Shown, AccountSet, Status
  <2> QED
    BY <1>1, <2>1, <2>2, AccountsAssumption DEF Good, IsYes, Status
<1> QED
  BY <1>2, <1>3

LEMMA ShownIs ==
  ASSUME NEW ss, NEW token, NEW answer, Names(ss, token, answer)
  PROVE  Names(ss, token, Shown(answer)) /\ Shown(answer).born = answer.born
  BY DEF Names, Same, Shown

LEMMA SignInOkWindow == \A n : WindowOK /\ Quiet' /\ SignInOk(n) => ShownOK' /\ CallOK'
<1> SUFFICES ASSUME NEW n, WindowOK, SignInOk(n) PROVE ShownOK' /\ CallOK'
  OBVIOUS
<1> DEFINE answer == requests[n].answer
<1>1. Heard({"login", "recover"}, n) /\ Status(n) = "ok"
  BY DEF SignInOk
<1>2. Good(sessions, fresh, requests[n].kind, answer) /\ Shown(answer) # None
  BY <1>1, HeardGood DEF Heard
<1>3. Names(sessions, answer.token, Shown(answer)) /\ Shown(answer).born = answer.born
      /\ Old(fresh, answer.token)
  BY <1>2, ShownIs DEF Good
<1>4. /\ who' = Shown(answer) /\ jar' = answer.token /\ page' = "week"
      /\ kept' = Kept(answer.token) /\ ServerStands
      /\ Reads(Rotated(Taken(n)), who', jar')
      /\ ghost' = [ghost EXCEPT !.acked = @ \cup {answer.born}, !.out = FALSE]
  BY DEF SignInOk
<1> HIDE DEF answer
<1>5. ghost' = [ghost EXCEPT !.acked = ghost.acked \cup {answer.born}, !.out = FALSE]
  BY <1>4
<1>6. ghost'.acked = ghost.acked \cup {answer.born}
  BY <1>5, GhostKeeps DEF WindowOK, Quiet
<1>7. kept' \in {None, answer.token}
  BY <1>4 DEF Kept
<1>8. \A s \in sessions : s.token = answer.token => s.born = answer.born
  BY <1>3 DEF Names, Same
<1>9. \A s \in sessions : s.token # None
  BY AccountsAssumption DEF WindowOK, ServerOK, OneSessionEach
<1>10. ShownOK'
  BY <1>2, <1>3, <1>4, <1>6, <1>7, <1>8, <1>9 DEF ShownOK, ServerStands, Old
<1>11. Begun(Rotated(Taken(n)), "get")
  BY <1>4, TakenRotatedTells, ReadsBegins DEF WindowOK
<1> QED
  BY <1>10, <1>11, OtherCall

LEMMA RegisterOkWindow == \A n : WindowOK /\ Quiet' /\ RegisterOk(n) => ShownOK' /\ CallOK'
<1> SUFFICES ASSUME NEW n, WindowOK, Quiet', RegisterOk(n) PROVE ShownOK' /\ CallOK'
  OBVIOUS
<1> DEFINE answer == requests[n].answer
<1>1. Heard({"register"}, n) /\ Status(n) = "ok"
  BY DEF RegisterOk
<1>2. Good(sessions, fresh, requests[n].kind, answer) /\ Shown(answer) # None
  BY <1>1, HeardGood DEF Heard
<1>3. Names(sessions, answer.token, Shown(answer)) /\ Old(fresh, answer.token)
  BY <1>2, ShownIs DEF Good
<1>4. /\ who' = Shown(answer) /\ jar' = answer.token /\ page' = "codes"
      /\ UNCHANGED <<kept, ghost>> /\ ServerStands /\ Idle(Rotated(Taken(n)))
  BY DEF RegisterOk
<1> HIDE DEF answer
<1>5. ShownOK'
  BY <1>2, <1>3, <1>4 DEF WindowOK, ShownOK, ServerStands
<1>6. CallOK'
  BY <1>4, NoCall DEF Quiet
<1> QED
  BY <1>5, <1>6

LEMMA SignInFailsWindow == \A n : WindowOK /\ Quiet' /\ SignInFails(n) => ShownOK' /\ CallOK'
  BY ShownStands, NoCall DEF WindowOK, Quiet, SignInFails

LEMMA AcknowledgeWindow == WindowOK /\ Quiet' /\ Acknowledge => ShownOK' /\ CallOK'
<1> SUFFICES ASSUME WindowOK, Acknowledge PROVE ShownOK' /\ CallOK'
  OBVIOUS
<1>1. /\ page = "codes" /\ page' = "week" /\ UNCHANGED <<who, jar>> /\ kept' = Kept(jar)
      /\ ServerStands /\ Reads(requests, who, jar)
      /\ ghost' = [ghost EXCEPT !.acked = @ \cup {who.born}, !.out = FALSE]
  BY DEF Acknowledge
<1>2. ghost' = [ghost EXCEPT !.acked = ghost.acked \cup {who.born}, !.out = FALSE]
  BY <1>1
<1>3. ghost'.acked = ghost.acked \cup {who.born}
  BY <1>2, GhostKeeps DEF WindowOK, Quiet
<1>4. kept' \in {None, jar}
  BY <1>1 DEF Kept
<1>5. who # None /\ Names(sessions, jar, who) /\ Old(fresh, jar)
  BY <1>1 DEF WindowOK, ShownOK
<1>6. \A s \in sessions : s.token = jar => s.born = who.born
  BY <1>5 DEF Names, Same
<1>7. \A s \in sessions : s.token # None
  BY AccountsAssumption DEF WindowOK, ServerOK, OneSessionEach
<1>8. ShownOK'
  BY <1>1, <1>3, <1>4, <1>5, <1>6, <1>7 DEF ShownOK, ServerStands, Old
<1>9. Begun(requests, "get")
  BY <1>1, ReadsBegins DEF WindowOK, Quiet
<1> QED
  BY <1>8, <1>9, OtherCall

LEMMA LaunchWindow == WindowOK /\ Quiet' /\ Launch => ShownOK' /\ CallOK'
<1> SUFFICES ASSUME WindowOK, Launch PROVE ShownOK' /\ CallOK'
  OBVIOUS
<1>1. /\ ~up /\ ServerStands /\ UNCHANGED <<who, kept, page, ghost>>
      /\ page = "auth" /\ \A n, kinds : ~Awaits(requests, kinds, n)
  BY DEF Launch, WindowOK, Quiet
<1>2. CASE kept = None
  <2>1. UNCHANGED <<requests, jar, busy, call>>
    BY <1>2 DEF Launch
  <2>2. SameCall
    BY <1>1, <2>1 DEF SameCall
  <2> QED
    BY <1>1, <2>1, <2>2, ShownStands, StillCalls DEF WindowOK
<1>3. CASE kept # None
  <2> DEFINE q == FromWindow("me", FirstName, 0, None, None, kept)
  <2>1. IsRequest(q) /\ q.by = "window" /\ q.waits /\ q.kind = "me"
    BY WindowRequest
  <2>2. q.answer = None /\ q.cookie = kept
    BY WindowAsks
  <2>3. Begin(requests, q) /\ jar' = kept
    BY <1>3 DEF Launch
  <2> HIDE DEF q
  <2>4. Begun(requests, q.kind)
    BY <2>1, <2>3, BeginsOne DEF WindowOK, Quiet
  <2>5. requests'[call'] = q
    BY <2>1, <2>3, AskedOne DEF Begin, WindowOK, Quiet
  <2>6. \A n, kinds : Awaits(requests', kinds, n) <=> n = call' /\ "me" \in kinds
    BY <1>1, <2>1, <2>4 DEF Begun
  <2>7. Awaits(requests', {"me"}, call') /\ ~Awaits(requests', {"password"}, call')
    BY <2>6
  <2>8. ~IsYes(requests'[call'].answer)
    BY <2>2, <2>5 DEF IsYes
  <2>9. MeOK'
    BY <1>1, <2>2, <2>3, <2>5, <2>6, <2>8 DEF MeOK
  <2>10. CallOK'
    BY <2>7, <2>9 DEF CallOK, PwOK, CallWaits
  <2>11. ShownOK'
    BY <1>1, <2>3 DEF WindowOK, ShownOK, ServerStands
  <2> QED
    BY <2>10, <2>11
<1> QED
  BY <1>2, <1>3

LEMMA ResumeOkWindow == \A n : WindowOK /\ Quiet' /\ ResumeOk(n) => ShownOK' /\ CallOK'
<1> SUFFICES ASSUME NEW n, WindowOK, ResumeOk(n) PROVE ShownOK' /\ CallOK'
  OBVIOUS
<1> DEFINE answer == requests[n].answer
<1>1. Heard({"me"}, n) /\ Status(n) = "ok" /\ n = call
  BY DEF ResumeOk
<1>2. IsYes(answer) /\ Shown(answer) # None
  BY <1>1, HeardGood DEF Heard
<1>3. Awaits(requests, {"me"}, call)
  BY <1>1, HeardAwaits DEF WindowOK
<1>4. jar = kept /\ Names(sessions, jar, answer) /\ answer.born \in ghost.acked
  BY <1>1, <1>2, <1>3 DEF WindowOK, CallOK, MeOK
<1>5. Names(sessions, jar, Shown(answer)) /\ Shown(answer).born = answer.born
  BY <1>4, ShownIs
<1>6. /\ who' = Shown(answer) /\ page' = "week" /\ UNCHANGED <<jar, kept, ghost>> /\ ServerStands
      /\ Reads(Rotated(Taken(n)), who', jar)
  BY DEF ResumeOk
<1> HIDE DEF answer
<1>7. ShownOK'
  BY <1>2, <1>4, <1>5, <1>6 DEF WindowOK, ShownOK, ServerStands
<1>8. Begun(Rotated(Taken(n)), "get")
  BY <1>6, TakenRotatedTells, ReadsBegins DEF WindowOK
<1> QED
  BY <1>7, <1>8, OtherCall

LEMMA ResumeFailsWindow == \A n : WindowOK /\ Quiet' /\ ResumeFails(n) => ShownOK' /\ CallOK'
<1> SUFFICES ASSUME NEW n, WindowOK, Quiet', ResumeFails(n) PROVE ShownOK' /\ CallOK'
  OBVIOUS
<1>1. Awaits(requests, {"me"}, n)
  BY HeardAwaits DEF ResumeFails, WindowOK
<1>2. Awaits(requests, SignIns \cup {"me"}, n)
  BY <1>1 DEF Awaits
<1>3. page = "auth" /\ who = None
  BY <1>2 DEF WindowOK, Quiet, ShownOK
<1>4. /\ UNCHANGED <<page, who>> /\ jar' = None /\ kept' \in {kept, None} /\ ServerStands
  BY DEF ResumeFails
<1>5. CASE n = call
  <2>1. Idle(Rotated(Taken(n))) /\ ghost' = ghost
    BY <1>5 DEF ResumeFails
  <2>2. CallOK'
    BY <2>1, NoCall DEF Quiet
  <2> QED
    BY <1>3, <1>4, <2>1, <2>2, NobodyShown DEF WindowOK
<1>6. CASE n # call
  <2>1. requests' = Rotated(Taken(n)) /\ UNCHANGED <<call, busy>>
        /\ ghost' = [ghost EXCEPT !.aborted = busy]
    BY <1>6 DEF ResumeFails
  <2>2. ghost'.acked = ghost.acked /\ ghost'.aborted = busy
    BY <2>1, GhostKeeps DEF WindowOK, Quiet
  <2>3. \A k, kinds : ~Awaits(requests', kinds, k)
    BY <2>1, TakenRotatedTells, TakenOne, RotatedAll DEF WindowOK
  <2>4. CallOK'
    BY <2>1, <2>2, <2>3 DEF CallOK, MeOK, PwOK, CallWaits
  <2> QED
    BY <1>3, <1>4, <2>2, <2>4, NobodyShown DEF WindowOK
<1> QED
  BY <1>5, <1>6

LEMMA LogOutWindow == WindowOK /\ Quiet' /\ LogOut => ShownOK' /\ CallOK'
<1> SUFFICES ASSUME WindowOK, LogOut PROVE ShownOK' /\ CallOK'
  OBVIOUS
<1> DEFINE q == FromWindow("logout", FirstName, 0, None, who, jar)
<1>1. IsRequest(q) /\ q.by = "window" /\ q.waits /\ q.kind = "logout"
  BY WindowRequest
<1>2. Begin(requests, q)
  BY DEF LogOut
<1> HIDE DEF q
<1>3. Begun(requests, "logout")
  BY <1>1, <1>2, BeginsOne DEF WindowOK, Quiet
<1>4. /\ UNCHANGED <<who, jar, page>> /\ kept' = None /\ ServerStands
      /\ ghost' = [ghost EXCEPT !.out = TRUE]
  BY DEF LogOut
<1>5. ghost'.acked = ghost.acked
  BY <1>4, GhostKeeps DEF WindowOK, Quiet
<1>6. \A s \in sessions : s.token # None
  BY AccountsAssumption DEF WindowOK, ServerOK, OneSessionEach
<1>7. ShownOK'
  BY <1>4, <1>5, <1>6 DEF WindowOK, ShownOK, ServerStands, Old
<1> QED
  BY <1>3, <1>7, OtherCall

\* The account is left.
LEMMA SignedOutWindow ==
  ASSUME WindowOK, Quiet', NEW n, SignedOut(Taken(n)), ServerStands, kept' \in {kept, None},
         ghost' = ghost \/ ghost' = [ghost EXCEPT !.out = TRUE]
  PROVE  ShownOK' /\ CallOK'
<1>1. ghost'.acked = ghost.acked
  <2>1. [ghost EXCEPT !.out = TRUE].acked = ghost.acked
    BY GhostKeeps DEF WindowOK, Quiet
  <2> QED
    BY <2>1
<1>2. ShownOK'
  BY <1>1, NobodyShown DEF WindowOK, SignedOut
<1>3. CallOK'
  BY NoCall DEF Quiet, SignedOut
<1> QED
  BY <1>2, <1>3

LEMMA LeavesWindow ==
  \A n : WindowOK /\ Quiet' /\ (LogOutDone(n) \/ DeleteOk(n) \/ Expired(n)) => ShownOK' /\ CallOK'
  BY SignedOutWindow DEF LogOutDone, DeleteOk, Expired

LEMMA ConfirmWindow == WindowOK /\ Quiet' /\ Confirm => ShownOK' /\ CallOK'
<1> SUFFICES ASSUME WindowOK, Confirm PROVE ShownOK' /\ CallOK'
  OBVIOUS
<1>1. PICK kind \in Confirmed, pass \in {0} \cup {row.pass : row \in RowOf(who.id)} :
        Begin(requests, FromWindow(kind, FirstName, pass, None, who, jar))
  BY DEF Confirm
<1> DEFINE q == FromWindow(kind, FirstName, pass, None, who, jar)
<1>2. IsRequest(q) /\ q.by = "window" /\ q.waits /\ q.kind = kind
  BY WindowRequest
<1>3. q.answer = None /\ q.seen = None /\ q.cookie = jar /\ q.pass = pass
  BY WindowAsks
<1>4. Begin(requests, q)
  BY <1>1
<1> HIDE DEF q
<1>5. Begun(requests, kind)
  BY <1>2, <1>4, BeginsOne DEF WindowOK, Quiet
<1>6. requests'[call'] = q
  BY <1>2, <1>4, AskedOne DEF Begin, WindowOK, Quiet
<1>7. ServerStands /\ UNCHANGED <<who, jar, kept, page, ghost>>
  BY DEF Confirm
<1>8. ShownOK'
  BY <1>7, ShownStands DEF WindowOK
<1>9. \A kinds : Awaits(requests', kinds, call') <=> kind \in kinds
  BY <1>5 DEF Begun
<1>10. kind # "me"
  BY DEF Confirmed
<1>11. Awaits(requests', {kind}, call') /\ ~Awaits(requests', {"me"}, call')
  BY <1>9, <1>10
<1>12. pass \in Nat /\ pass < fresh
  <2>1. 0 < fresh /\ \A row \in Rows : row.pass \in Nat /\ row.pass < fresh
    BY RowsAreRows DEF WindowOK, ServerOK, OldPasswords, RowSet
  <2>2. CASE pass = 0
    BY <2>1, <2>2
  <2>3. CASE pass \in {row.pass : row \in RowOf(who.id)}
    BY <2>1, <2>3 DEF RowOf
  <2> QED
    BY <2>2, <2>3
<1>13. PwOK'
  BY <1>3, <1>6, <1>7, <1>12 DEF PwOK, IsYes, ServerStands
<1> QED
  BY <1>8, <1>11, <1>13 DEF CallOK, MeOK, CallWaits

LEMMA PasswordOkWindow == \A n : WindowOK /\ Quiet' /\ PasswordOk(n) => ShownOK' /\ CallOK'
<1> SUFFICES ASSUME NEW n, WindowOK, Quiet', PasswordOk(n) PROVE ShownOK' /\ CallOK'
  OBVIOUS
<1> DEFINE answer == requests[n].answer
<1>1. Heard({"password"}, n) /\ Status(n) = "ok" /\ n = call
  BY DEF PasswordOk
<1>2. IsYes(answer) /\ Good(sessions, fresh, requests[n].kind, answer)
  BY <1>1, HeardGood
<1>3. Awaits(requests, {"password"}, call)
  BY <1>1, HeardAwaits DEF WindowOK
<1>4. Same(answer, who)
  BY <1>1, <1>2, <1>3 DEF WindowOK, CallOK, PwOK
<1>5. Awaits(requests, Confirmed, call)
  BY <1>3 DEF Awaits, Confirmed
<1>6. page = "week"
  BY <1>5 DEF WindowOK, Quiet
<1>7. who # None /\ who.born \in ghost.acked
  BY <1>6 DEF WindowOK, ShownOK
<1>8. /\ jar' = answer.token /\ kept' = Kept(answer.token) /\ ServerStands
      /\ UNCHANGED <<who, page, ghost>> /\ Idle(Rotated(Taken(n)))
  BY DEF PasswordOk
<1> HIDE DEF answer
<1>9. Names(sessions, answer.token, who) /\ Old(fresh, answer.token)
  BY <1>2, <1>4 DEF Good, Names, Same
<1>10. kept' \in {None, answer.token}
  BY <1>8 DEF Kept
<1>11. \A s \in sessions : s.token # None
  BY AccountsAssumption DEF WindowOK, ServerOK, OneSessionEach
<1>12. \A s \in sessions : s.token = answer.token => s.born = who.born
  BY <1>9 DEF Names, Same
<1>13. ShownOK'
  BY <1>6, <1>7, <1>8, <1>9, <1>10, <1>11, <1>12 DEF ShownOK, ServerStands, Old
<1>14. CallOK'
  BY <1>8, NoCall DEF Quiet
<1> QED
  BY <1>13, <1>14

LEMMA CodesOkWindow == \A n : WindowOK /\ Quiet' /\ CodesOk(n) => ShownOK' /\ CallOK'
<1> SUFFICES ASSUME NEW n, WindowOK, Quiet', CodesOk(n) PROVE ShownOK' /\ CallOK'
  OBVIOUS
<1>1. Awaits(requests, {"codes"}, call)
  BY HeardAwaits DEF CodesOk, WindowOK
<1>2. Awaits(requests, Confirmed, call)
  BY <1>1 DEF Awaits, Confirmed
<1>3. who # None
  BY <1>2 DEF WindowOK, Quiet, ShownOK
<1>4. /\ page' = "codes" /\ UNCHANGED <<who, jar, kept, ghost>> /\ ServerStands /\ Idle(Taken(n))
  BY DEF CodesOk
<1>5. ShownOK'
  BY <1>3, <1>4 DEF WindowOK, ShownOK, ServerStands
<1>6. CallOK'
  BY <1>4, NoCall DEF Quiet
<1> QED
  BY <1>5, <1>6

LEMMA ConfirmFailsWindow == \A n : WindowOK /\ Quiet' /\ ConfirmFails(n) => ShownOK' /\ CallOK'
  BY ShownStands, NoCall DEF WindowOK, Quiet, ConfirmFails

LEMMA WorkWindow == WindowOK /\ Quiet' /\ Work => ShownOK' /\ CallOK'
<1> SUFFICES ASSUME WindowOK, Work PROVE ShownOK' /\ CallOK'
  OBVIOUS
<1>1. ServerStands /\ UNCHANGED <<who, jar, kept, page, ghost>>
  BY DEF Work
<1>2. ShownOK'
  BY <1>1, ShownStands DEF WindowOK
<1>3. CASE Reads(requests, who, jar)
  <2>1. Begun(requests, "get")
    BY <1>3, ReadsBegins DEF WindowOK, Quiet
  <2> QED
    BY <1>2, <2>1, OtherCall
<1>4. CASE /\ requests' = Asked(requests, FromWindow("get", FirstName, 0, None, who, jar))
           /\ UNCHANGED <<call, busy>>
  <2> DEFINE q == FromWindow("get", FirstName, 0, None, who, jar)
  <2>1. IsRequest(q) /\ q.kind = "get"
    BY WindowRequest
  <2>2. requests' = Asked(requests, q)
    BY <1>4
  <2> HIDE DEF q
  <2>3. SameCall
    BY <1>1, <1>4, <2>1, <2>2, AskedSameCall DEF WindowOK
  <2> QED
    BY <1>1, <1>2, <2>3, StillCalls DEF WindowOK
<1> QED
  BY <1>3, <1>4 DEF Work

LEMMA WorkDoneWindow == \A n : WindowOK /\ Quiet' /\ WorkDone(n) => ShownOK' /\ CallOK'
<1> SUFFICES ASSUME NEW n, WindowOK, Quiet', WorkDone(n) PROVE ShownOK' /\ CallOK'
  OBVIOUS
<1>1. ServerStands /\ UNCHANGED <<who, jar, kept, page, ghost>>
  BY DEF WorkDone
<1>2. ShownOK'
  BY <1>1, ShownStands DEF WindowOK
<1>3. CASE n = call
  BY <1>2, <1>3, NoCall DEF WorkDone, Quiet
<1>4. CASE n # call
  <2>1. SameCall
    BY <1>1, <1>4, TakenSameCall DEF WorkDone, WindowOK
  <2> QED
    BY <1>1, <1>2, <2>1, StillCalls DEF WindowOK
<1> QED
  BY <1>3, <1>4

LEMMA LateWindow == \A n : WindowOK /\ Quiet' /\ Late(n) => ShownOK' /\ CallOK'
<1> SUFFICES ASSUME NEW n, WindowOK, Late(n) PROVE ShownOK' /\ CallOK'
  OBVIOUS
<1>1. Heard(SignIns \cup {"me"}, n) /\ n # call
  BY DEF Late
<1>2. Awaits(requests, SignIns \cup {"me"}, n)
  BY <1>1, HeardAwaits DEF WindowOK
<1>3. page = "auth" /\ who = None
  BY <1>2 DEF WindowOK, Quiet, ShownOK
<1>4. Old(fresh, requests[n].answer.token)
  BY <1>1, HeardGood
<1>5. /\ ServerStands /\ UNCHANGED <<who, kept, page, call, busy, ghost>>
      /\ requests' = Taken(n) /\ jar' \in {jar, requests[n].answer.token}
  BY DEF Late
<1>6. ShownOK'
  BY <1>3, <1>4, <1>5 DEF WindowOK, ShownOK, ServerStands
<1>7. SameCall
  BY <1>1, <1>5, TakenSameCall DEF WindowOK
<1>8. ~Awaits(requests, {"me"}, call)
  BY <1>1, <1>2 DEF WindowOK, CallOK, MeOK
<1>9. ~Awaits(requests, {"password"}, call)
  BY <1>3 DEF WindowOK, Quiet, Awaits, Confirmed
<1>10. ~Awaits(requests', {"me"}, call) /\ ~Awaits(requests', {"password"}, call)
  BY <1>7, <1>8, <1>9 DEF SameCall
<1>11. CallWaits'
  BY <1>7 DEF WindowOK, CallOK, CallWaits, SameCall
<1> QED
  BY <1>5, <1>6, <1>10, <1>11 DEF CallOK, MeOK, PwOK

LEMMA LosesWindow == WindowOK /\ Quiet' /\ Loses => ShownOK' /\ CallOK'
<1> SUFFICES ASSUME WindowOK, Loses PROVE ShownOK' /\ CallOK'
  OBVIOUS
<1>1. ServerStands /\ UNCHANGED <<who, jar, kept, page, ghost>>
  BY DEF Loses
<1>2. SameCall
  BY LosesSameCall DEF WindowOK
<1> QED
  BY <1>1, <1>2, ShownStands, StillCalls DEF WindowOK

LEMMA QuitWindow == WindowOK /\ Quiet' /\ Quit => ShownOK' /\ CallOK'
<1> SUFFICES ASSUME WindowOK, Quiet', Quit PROVE ShownOK' /\ CallOK'
  OBVIOUS
<1>1. /\ ServerStands /\ who' = None /\ jar' = None /\ page' = "auth" /\ kept' = kept
      /\ ghost' = [ghost EXCEPT !.aborted = FALSE]
  BY DEF Quit
<1>2. ghost'.acked = ghost.acked
  BY <1>1, GhostKeeps DEF WindowOK, Quiet
<1>3. CallOK'
  BY NoCall DEF Quit, Quiet
<1> QED
  BY <1>1, <1>2, <1>3, NobodyShown DEF WindowOK

LEMMA OtherAsksWindow == WindowOK /\ Quiet' /\ OtherAsks => ShownOK' /\ CallOK'
<1> SUFFICES ASSUME WindowOK, OtherAsks PROVE ShownOK' /\ CallOK'
  OBVIOUS
<1>1. ServerStands /\ UNCHANGED <<who, jar, kept, page, call, busy, ghost>>
  BY DEF OtherAsks
<1>2. PICK kind, name, pass, code :
        requests' = Asked(requests, Request(kind, "other", name, None, pass, code, theirs))
  BY DEF OtherAsks
<1> DEFINE q == Request(kind, "other", name, None, pass, code, theirs)
<1>3. IsRequest(q) /\ q.by # "window"
  BY DEF Request, IsRequest
<1>4. requests' = Asked(requests, q)
  BY <1>2
<1> HIDE DEF q
<1>5. SameCall
  BY <1>1, <1>3, <1>4, AskedSameCall DEF WindowOK
<1> QED
  BY <1>1, <1>5, ShownStands, StillCalls DEF WindowOK

LEMMA OtherTakesWindow == WindowOK /\ Quiet' /\ OtherTakes => ShownOK' /\ CallOK'
<1> SUFFICES ASSUME WindowOK, OtherTakes PROVE ShownOK' /\ CallOK'
  OBVIOUS
<1>1. ServerStands /\ UNCHANGED <<who, jar, kept, page, call, busy, ghost>>
  BY DEF OtherTakes
<1>2. PICK n \in DOMAIN requests : requests[n].by = "other" /\ requests' = Taken(n)
  BY DEF OtherTakes
<1>3. SameCall
  BY <1>1, <1>2, TakenSameCall DEF WindowOK
<1> QED
  BY <1>1, <1>3, ShownStands, StillCalls DEF WindowOK

-----------------------------------------------------------------------------
(* The steps of the server.                                                *)
LEMMA ShownForward ==
  ASSUME ServerOK, Forward, ShownOK, UNCHANGED windowVars
  PROVE  ShownOK'
<1>1. UNCHANGED <<who, jar, kept, page, ghost>>
  BY DEF windowVars
<1>2. Old(fresh', jar) /\ Old(fresh', kept)
  <2>1. fresh \in Nat /\ fresh' \in Nat /\ fresh <= fresh'
    BY DEF ServerOK, AccountsType, Forward
  <2> QED
    BY <2>1 DEF ShownOK, Old
<1>3. who # None => Names(sessions', jar, who)
  BY ForwardNames DEF ShownOK
<1>4. \A s \in sessions' : s.token = kept => s.born \in ghost.acked
  BY OldSessions DEF ShownOK
<1> QED
  BY <1>1, <1>2, <1>3, <1>4 DEF ShownOK

\* What a session that is known answers, is about that session.
LEMMA SessionNames ==
  ASSUME ServerOK, NEW s \in sessions, NEW x, Same(x, s)
  PROVE  Names(sessions, s.token, x)
  BY DEF ServerOK, OneSessionEach, Names, Same

\* Passwords that were there before belong to whom they did.
LEMMA OldPassword ==
  ASSUME ServerOK, Forward, NEW id, NEW born, NEW pass, pass < fresh,
         \A row \in RowOf(id) : row.pass = pass => row.born = born
  PROVE  \A row \in RowOf(id)' : row.pass = pass => row.born = born
<1> SUFFICES ASSUME NEW row \in Rows', row.id = id, row.pass = pass
             PROVE  row.born = born
  BY DEF RowOf
<1>1. ~(row.pass \in fresh .. fresh' - 1)
  <2>1. fresh \in Nat /\ fresh' \in Nat
    BY DEF ServerOK, AccountsType, Forward
  <2>2. row.pass \in fresh .. fresh' - 1 => row.pass \in Nat /\ fresh <= row.pass
    BY <2>1, InInterval
  <2> QED
    BY <2>1, <2>2
<1>2. PICK old \in Rows : Same(old, row) /\ old.pass = row.pass
  BY <1>1 DEF Forward, NewPasswords
<1> QED
  BY <1>2 DEF RowOf, Same

LEMMA PassStillOld ==
  ASSUME ServerOK, Forward, NEW pass \in Nat, pass < fresh
  PROVE  pass < fresh'
  BY DEF ServerOK, AccountsType, Forward

\* What a route does to the request it answers or lets in.
LEMMA DoesOne ==
  ASSUME Numbered(requests), NEW n \in DOMAIN requests, Does(n)
  PROVE  \A k \in DOMAIN requests' :
           /\ k \in DOMAIN requests
           /\ requests'[k].cookie = requests[k].cookie /\ requests'[k].pass = requests[k].pass
           /\ \/ /\ requests'[k].seen = requests[k].seen /\ requests'[k].answer = requests[k].answer
              \/ /\ k = n /\ LetsIn(requests[n], requests'[k].seen)
                 /\ requests'[k].answer = requests[k].answer
              \/ /\ k = n /\ Answers(requests[n], requests'[k].answer)
                 /\ requests'[k].seen = requests[k].seen
<1> SUFFICES ASSUME NEW k \in DOMAIN requests'
             PROVE
           /\ k \in DOMAIN requests
           /\ requests'[k].cookie = requests[k].cookie /\ requests'[k].pass = requests[k].pass
           /\ \/ /\ requests'[k].seen = requests[k].seen /\ requests'[k].answer = requests[k].answer
              \/ /\ k = n /\ LetsIn(requests[n], requests'[k].seen)
                 /\ requests'[k].answer = requests[k].answer
              \/ /\ k = n /\ Answers(requests[n], requests'[k].answer)
                 /\ requests'[k].seen = requests[k].seen
  OBVIOUS
<1>1. ASSUME NEW x, requests' = [requests EXCEPT ![n].seen = x], LetsIn(requests[n], x)
      PROVE  /\ k \in DOMAIN requests
             /\ requests'[k].cookie = requests[k].cookie /\ requests'[k].pass = requests[k].pass
             /\ requests'[k].answer = requests[k].answer
             /\ k = n => requests'[k].seen = x
             /\ k # n => requests'[k].seen = requests[k].seen
  BY <1>1 DEF Numbered, IsRequest
<1>2. ASSUME NEW answer, requests' = Answered(n, answer), Answers(requests[n], answer)
      PROVE  /\ k \in DOMAIN requests
             /\ requests'[k].cookie = requests[k].cookie /\ requests'[k].pass = requests[k].pass
             /\ requests'[k].seen = requests[k].seen
             /\ k = n => requests'[k].answer = answer
             /\ k # n => requests'[k].answer = requests[k].answer
  <2>1. CASE requests[n].waits
    <3>1. requests' = [requests EXCEPT ![n].answer = answer]
      BY <1>2, <2>1 DEF Answered
    <3> QED
      BY <3>1 DEF Numbered, IsRequest
  <2>2. CASE ~requests[n].waits
    <3>1. requests' = Without(requests, n)
      BY <1>2, <2>2 DEF Answered
    <3> QED
      BY <3>1 DEF Without, Restrict
  <2> QED
    BY <2>1, <2>2
<1> QED
  BY <1>1, <1>2 DEF Does

LEMMA ServeMe ==
  ASSUME WindowOK, NEW n \in DOMAIN requests, Does(n), SameAwaited(requests, requests'),
         UNCHANGED windowVars
  PROVE  MeOK'
<1> SUFFICES ASSUME Awaits(requests', {"me"}, call)
             PROVE  /\ requests'[call].cookie = jar /\ jar = kept
                    /\ \A k : Awaits(requests', SignIns \cup {"me"}, k) => k = call
                    /\ IsYes(requests'[call].answer) =>
                         /\ Names(sessions', jar, requests'[call].answer)
                         /\ requests'[call].answer.born \in ghost.acked
  BY DEF MeOK, windowVars
<1>1. Awaits(requests, {"me"}, call)
  BY DEF SameAwaited
<1>2. /\ requests[call].cookie = jar /\ jar = kept
      /\ \A k : Awaits(requests, SignIns \cup {"me"}, k) => k = call
  BY <1>1 DEF WindowOK, CallOK, MeOK
<1>3. call \in DOMAIN requests' /\ requests[call].kind = "me"
  BY <1>1 DEF Awaits
<1>4. /\ requests'[call].cookie = requests[call].cookie
      /\ \/ requests'[call].answer = requests[call].answer
         \/ call = n /\ LetsIn(requests[n], requests'[call].seen)
         \/ call = n /\ Answers(requests[n], requests'[call].answer)
  BY <1>3, DoesOne DEF WindowOK, Quiet
<1>5. Forward /\ ServerOK /\ Old(fresh, jar)
  BY DEF Does, WindowOK, ShownOK
<1>6. ASSUME IsYes(requests'[call].answer)
      PROVE  /\ Names(sessions, jar, requests'[call].answer)
             /\ requests'[call].answer.born \in ghost.acked
  <2>1. CASE requests'[call].answer = requests[call].answer
    BY <1>1, <1>6, <2>1 DEF WindowOK, CallOK, MeOK
  <2>2. CASE call = n /\ LetsIn(requests[n], requests'[call].seen)
    BY <1>3, <2>2 DEF LetsIn
  <2>3. CASE call = n /\ Answers(requests[n], requests'[call].answer)
    <3>1. PICK s \in sessions : s.token = jar /\ Same(requests'[call].answer, s)
      BY <1>2, <1>3, <1>6, <2>3 DEF Answers, IsYes
    <3>2. Names(sessions, jar, requests'[call].answer)
      BY <1>5, <3>1, SessionNames
    <3>3. s.born \in ghost.acked
      BY <1>2, <3>1 DEF WindowOK, ShownOK
    <3> QED
      BY <3>1, <3>2, <3>3 DEF Same
  <2> QED
    BY <1>4, <2>1, <2>2, <2>3
<1>7. IsYes(requests'[call].answer) => Names(sessions', jar, requests'[call].answer)
  BY <1>5, <1>6, ForwardNames
<1> QED
  BY <1>2, <1>4, <1>6, <1>7 DEF SameAwaited

LEMMA ServePassword ==
  ASSUME WindowOK, NEW n \in DOMAIN requests, Does(n), SameAwaited(requests, requests'),
         UNCHANGED windowVars
  PROVE  PwOK'
<1> SUFFICES ASSUME Awaits(requests', {"password"}, call)
             PROVE  /\ requests'[call].cookie = jar
                    /\ requests'[call].pass \in Nat /\ requests'[call].pass < fresh'
                    /\ requests'[call].seen # None =>
                         /\ Same(requests'[call].seen, who)
                         /\ \A row \in RowOf(who.id)' :
                              row.pass = requests'[call].pass => row.born = who.born
                    /\ IsYes(requests'[call].answer) => Same(requests'[call].answer, who)
  <2>1. UNCHANGED <<call, jar, who>>
    BY DEF windowVars
  <2>2. RowOf(who.id)' = {row \in Rows' : row.id = who.id}
    BY <2>1 DEF RowOf
  <2> QED
    BY <2>1, <2>2 DEF PwOK, RowOf
<1>1. Awaits(requests, {"password"}, call)
  BY DEF SameAwaited
<1> DEFINE q == requests[call]
<1>2. q.cookie = jar /\ q.pass \in Nat /\ q.pass < fresh
  BY <1>1 DEF WindowOK, CallOK, PwOK
<1>3. call \in DOMAIN requests' /\ q.kind = "password"
  BY <1>1 DEF Awaits
<1>4. /\ requests'[call].cookie = q.cookie /\ requests'[call].pass = q.pass
      /\ \/ requests'[call].seen = q.seen /\ requests'[call].answer = q.answer
         \/ /\ call = n /\ LetsIn(requests[n], requests'[call].seen)
            /\ requests'[call].answer = q.answer
         \/ /\ call = n /\ Answers(requests[n], requests'[call].answer)
            /\ requests'[call].seen = q.seen
  BY <1>3, DoesOne DEF WindowOK, Quiet
<1>5. Forward /\ ServerOK
  BY DEF Does, WindowOK
<1>6. Awaits(requests, Confirmed, call)
  BY <1>1 DEF Awaits, Confirmed
<1>7. Names(sessions, jar, who)
  BY <1>6 DEF WindowOK, Quiet, ShownOK
<1>8. q.pass < fresh'
  BY <1>2, <1>5, PassStillOld
<1>9. ASSUME requests'[call].seen # None
      PROVE  /\ Same(requests'[call].seen, who)
             /\ \A row \in RowOf(who.id) : row.pass = q.pass => row.born = who.born
  <2>1. CASE requests'[call].seen = q.seen
    BY <1>1, <1>9, <2>1 DEF WindowOK, CallOK, PwOK
  <2>2. CASE call = n /\ LetsIn(requests[n], requests'[call].seen)
    <3>1. PICK s \in sessions : s.token = jar /\ Same(requests'[call].seen, s)
      BY <1>2, <1>3, <2>2 DEF LetsIn
    <3>2. Same(s, who)
      BY <1>7, <3>1 DEF Names
    <3>3. \A row \in RowOf(s.id) : Same(row, s)
      BY <1>5, RowOfSession
    <3> QED
      BY <3>1, <3>2, <3>3 DEF Same
  <2> QED
    BY <1>4, <2>1, <2>2
<1>10. ASSUME requests'[call].seen # None
       PROVE  \A row \in RowOf(who.id)' : row.pass = q.pass => row.born = who.born
  <2>1. RowOf(who.id)' = {row \in Rows' : row.id = who.id}
    BY DEF RowOf, windowVars
  <2> QED
    BY <1>2, <1>5, <1>9, <1>10, <2>1, OldPassword DEF RowOf
<1>11. ASSUME IsYes(requests'[call].answer)
       PROVE  Same(requests'[call].answer, who)
  <2>1. CASE requests'[call].answer = q.answer
    BY <1>1, <1>11, <2>1 DEF WindowOK, CallOK, PwOK
  <2>2. CASE call = n /\ Answers(requests[n], requests'[call].answer)
    <3>1. q.seen # None
      BY <1>3, <1>11, <2>2 DEF Answers, IsYes
    <3>2. PICK row \in RowOf(q.seen.id) : row.pass = q.pass /\ Same(requests'[call].answer, row)
      BY <1>3, <1>11, <2>2 DEF Answers, IsYes
    <3>3. /\ Same(q.seen, who)
          /\ \A r \in RowOf(who.id) : r.pass = q.pass => r.born = who.born
      BY <1>1, <3>1 DEF WindowOK, CallOK, PwOK
    <3>4. row.id = who.id /\ row.born = who.born
      BY <3>2, <3>3 DEF Same, RowOf
    <3> QED
      BY <3>2, <3>4 DEF Same
  <2> QED
    BY <1>4, <2>1, <2>2
<1> QED
  BY <1>2, <1>4, <1>8, <1>9, <1>10, <1>11

LEMMA ServedWindow == WindowOK /\ Quiet' /\ Served => ShownOK' /\ CallOK'
<1> SUFFICES ASSUME WindowOK, Served PROVE ShownOK' /\ CallOK'
  OBVIOUS
<1>1. PICK n \in DOMAIN requests : Serve(n)
  BY DEF Served
<1>2. Does(n)
  BY <1>1, ServeDoes DEF WindowOK
<1>3. SameAwaited(requests, requests')
  BY <1>1, ServeAwaits DEF WindowOK, Quiet
<1>4. UNCHANGED windowVars
  BY DEF Served
<1>5. ShownOK'
  BY <1>2, <1>4, ShownForward DEF WindowOK, Does
<1>6. MeOK' /\ PwOK'
  BY <1>2, <1>3, <1>4, ServeMe, ServePassword
<1>7. CallWaits'
  BY <1>3, <1>4 DEF WindowOK, CallOK, CallWaits, SameAwaited, windowVars
<1> QED
  BY <1>5, <1>6, <1>7 DEF CallOK

LEMMA TimesOutWindow == WindowOK /\ Quiet' /\ TimesOut => ShownOK' /\ CallOK'
<1> SUFFICES ASSUME WindowOK, TimesOut PROVE ShownOK' /\ CallOK'
  OBVIOUS
<1>1. /\ UNCHANGED <<users, fresh, requests>> /\ sessions' \subseteq sessions
      /\ UNCHANGED <<who, jar, kept, page, ghost, call, busy>>
  BY DEF TimesOut, SessionTimesOut
<1>2. ShownOK'
  BY <1>1 DEF WindowOK, ShownOK, Names
<1>3. MeOK' /\ CallWaits'
  BY <1>1 DEF WindowOK, CallOK, MeOK, CallWaits, Names
<1>4. PwOK'
  <2>1. RowOf(who.id)' = RowOf(who.id)
    BY <1>1 DEF RowOf, Rows
  <2> QED
    BY <1>1, <2>1 DEF WindowOK, CallOK, PwOK
<1> QED
  BY <1>2, <1>3, <1>4 DEF CallOK

-----------------------------------------------------------------------------
LEMMA InitWindow == SignInInit => WindowOK
<1> SUFFICES ASSUME SignInInit PROVE WindowOK
  OBVIOUS
<1>1. Quiet /\ ServerOK
  BY InitQuiet, InitServer DEF SignInInit
<1>2. requests = <<>> /\ call = None /\ ~busy
  BY DEF SignInInit, AccountsInit
<1>3. AnswersOK
  BY <1>2 DEF AnswersOK
<1>4. CallOK
  BY <1>2 DEF CallOK, MeOK, PwOK, CallWaits, Awaits
<1>5. ghost.acked = {1} /\ fresh = 3 /\ page = "auth" /\ who = None /\ jar = None /\ kept \in {None, 1}
  BY DEF SignInInit, Fresh, AccountsInit
<1>6. \A s \in sessions : s.born = 1
  BY DEF SignInInit, AccountsInit, Session, Row
<1>7. ShownOK
  BY <1>5, <1>6 DEF ShownOK, Old
<1> QED
  BY <1>1, <1>3, <1>4, <1>7 DEF WindowOK

LEMMA RepliesWindow == WindowOK /\ Quiet' /\ Replies => ShownOK' /\ CallOK'
  BY SignInOkWindow, RegisterOkWindow, SignInFailsWindow, ResumeOkWindow, ResumeFailsWindow,
     LeavesWindow, PasswordOkWindow, CodesOkWindow, ConfirmFailsWindow, WorkDoneWindow, LateWindow
  DEF Replies

LEMMA StepWindow == WindowOK /\ [SignInNext]_signVars => WindowOK'
<1> SUFFICES ASSUME WindowOK, [SignInNext]_signVars PROVE WindowOK'
  OBVIOUS
<1>1. Quiet'
  BY StepQuiet DEF WindowOK
<1>2. ServerOK'
  BY WindowStep, StepServer DEF WindowOK, signVars
<1>3. AnswersOK'
  BY StepAnswers DEF WindowOK
<1>4. CASE SignInNext
  <2>1. ShownOK' /\ CallOK'
    BY <1>1, <1>4, LaunchWindow, SubmitWindow, AcknowledgeWindow, LogOutWindow, ConfirmWindow,
       WorkWindow, RepliesWindow, ServedWindow, LosesWindow, QuitWindow, OtherAsksWindow,
       OtherTakesWindow, TimesOutWindow
    DEF SignInNext
  <2> QED
    BY <1>1, <1>2, <1>3, <2>1 DEF WindowOK
<1>5. CASE UNCHANGED signVars
  <2>1. ShownOK'
    BY <1>5 DEF WindowOK, ShownOK, signVars, accountVars, windowVars
  <2>2. MeOK' /\ CallWaits'
    BY <1>5 DEF WindowOK, CallOK, MeOK, CallWaits, signVars, accountVars, windowVars
  <2>3. PwOK'
    BY <1>5 DEF WindowOK, CallOK, PwOK, RowOf, Rows, signVars, accountVars, windowVars
  <2> QED
    BY <1>1, <1>2, <1>3, <2>1, <2>2, <2>3 DEF WindowOK, CallOK
<1> QED
  BY <1>4, <1>5

LEMMA WindowAlways == SignInSpec => []WindowOK
  BY InitWindow, StepWindow, PTL DEF SignInSpec

\* The types of the window's state, and that a busy window waits for a request.
THEOREM WindowTypes == SignInSpec => []TypeOK
<1>1. WindowOK => TypeOK
  <2> SUFFICES ASSUME WindowOK PROVE TypeOK
    OBVIOUS
  <2>1. \A name \in Name : users[name] # None => users[name].codes \subseteq Nat \X Code
    BY DEF WindowOK, ServerOK, AccountsType, RowSet
  <2>2. page \in {"auth", "codes", "week"} /\ (page = "auth" <=> who = None)
    BY DEF WindowOK, ShownOK
  <2>3. busy <=> call # None
    BY DEF WindowOK, Quiet
  <2>4. busy /\ ~ghost.aborted =>
          call \in DOMAIN requests /\ requests[call].by = "window" /\ requests[call].waits
    BY DEF WindowOK, CallOK, CallWaits, Awaits
  <2> QED
    BY <2>1, <2>2, <2>3, <2>4 DEF TypeOK
<1> QED
  BY <1>1, WindowAlways, PTL

\* "It is kept once a new account's recovery codes are acknowledged" (the window
\* after registration): what the next launch would open is never the session of
\* an account whose codes the student may not have.
THEOREM CodesAreSeenFirst == SignInSpec => []CodesSeenFirst
<1>1. WindowOK => CodesSeenFirst
  BY DEF WindowOK, ShownOK, CodesSeenFirst
<1> QED
  BY <1>1, WindowAlways, PTL

\* The window's cookie is of the account it shows, whatever sign-ins were on
\* their way, answered late or carried out without an answer, and whatever ids
\* were used again (the connections dropped at every change of account).
THEOREM CookieIsOfTheAccountShown == SignInSpec => []WindowShowsItsAccount
<1>1. WindowOK => WindowShowsItsAccount
  BY DEF WindowOK, ShownOK, WindowShowsItsAccount, Names, Same
<1> QED
  BY <1>1, WindowAlways, PTL

\* On the week, the kept session is the one the window uses, or there is none
\* (what signing in, acknowledging and a change of password write).
THEOREM KeptIsTheOneUsed == SignInSpec => []KeptIsCurrent
<1>1. WindowOK => KeptIsCurrent
  BY DEF WindowOK, ShownOK, KeptIsCurrent
<1> QED
  BY <1>1, WindowAlways, PTL
=============================================================================
