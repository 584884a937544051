------------------------------ MODULE Accounts ------------------------------
(***************************************************************************)
(* Accounts, their passwords, recovery codes and sessions, as the server's *)
(* /api/auth routes keep them.                                             *)
(*                                                                         *)
(* A route reads the session, or the password's hash, in one transaction   *)
(* and writes in another: between the two any other request may run.  A    *)
(* request that nobody waits for any more is still carried out.            *)
(*                                                                         *)
(* A password is the number of the hash that was made of it, for every     *)
(* hash has a salt of its own.  `born' (which registration a row comes     *)
(* from) and a session's `pass' (the password it was opened with) are      *)
(* history variables; ids are SQLite row ids, which are used again.        *)
(***************************************************************************)
EXTENDS Integers, FiniteSets, Functions

CONSTANTS
  Name,        \* usernames
  FirstName,   \* the one that is registered to begin with
  Code,        \* the codes of one set of recovery codes
  None

RowSet == [id : Nat, pass : Nat, codes : SUBSET (Nat \X Code), born : Nat]

\* What a request, or the window, knows of an account.
AccountSet == [id : Nat, born : Nat]

ASSUME AccountsAssumption ==
  /\ FirstName \in Name
  /\ None \notin Nat \cup RowSet \cup AccountSet

VARIABLES
  users,       \* the row of each username
  sessions,    \* the open sessions
  requests,    \* what was asked and not yet taken, by number
  fresh        \* the next password, token or set of codes

accountVars == <<users, sessions, requests, fresh>>

Row(id, pass, codes, born) == [id |-> id, pass |-> pass, codes |-> codes, born |-> born]
Batch(n) == {n} \X Code
Session(token, row) ==
  [token |-> token, id |-> row.id, pass |-> row.pass, born |-> row.born]

AccountsInit ==
  LET row == Row(1, 1, Batch(1), 1)
  IN /\ users = [n \in Name |-> IF n = FirstName THEN row ELSE None]
     /\ sessions = {Session(1, row), Session(2, row)}
     /\ requests = <<>>
     /\ fresh = 3

Rows == {users[n] : n \in Name} \ {None}
RowOf(id) == {row \in Rows : row.id = id}

\* The row id SQLite gives: one more than the greatest in use.
IsNewId(id) ==
  /\ \A row \in Rows : row.id < id
  /\ id = 1 \/ \E row \in Rows : row.id = id - 1

Without(f, k) == Restrict(f, DOMAIN f \ {k})

-----------------------------------------------------------------------------
(* Requests.                                                               *)
SignIns == {"login", "register", "recover"}
Confirmed == {"password", "codes", "delete"}   \* these need the current password
Signed == Confirmed \cup {"me", "get", "logout"}

\* `id' is the account the sender believes it is, `cookie' its session.
Request(kind, by, name, id, pass, code, cookie) ==
  [kind |-> kind, by |-> by, name |-> name, id |-> id, pass |-> pass, code |-> code,
   cookie |-> cookie, waits |-> TRUE, seen |-> None, answer |-> None]

\* The number of the next request beside those of rs.
Free(rs) == CHOOSE n \in 1 .. Cardinality(DOMAIN rs) + 1 : n \notin DOMAIN rs
Asked(rs, q) ==
  [n \in DOMAIN rs \cup {Free(rs)} |-> IF n \in DOMAIN rs THEN rs[n] ELSE q]

Yes(row, token) == [status |-> "ok", id |-> row.id, born |-> row.born, token |-> token]
No(why) == [status |-> why, id |-> None, born |-> None, token |-> None]

Answered(n, answer) ==
  IF requests[n].waits THEN [requests EXCEPT ![n].answer = answer] ELSE Without(requests, n)

\* What is no username is refused before any route.
Open(kinds, n) ==
  /\ n \in DOMAIN requests
  /\ requests[n].kind \in kinds /\ requests[n].name \in Name
  /\ requests[n].answer = None

Refuse(n, why) ==
  requests' = Answered(n, No(why)) /\ UNCHANGED <<users, sessions, fresh>>

\* A new session for `row', answered with its cookie.
SignsIn(n, row, kept, token) ==
  /\ sessions' = kept \cup {Session(token, row)}
  /\ requests' = Answered(n, Yes(row, token))

OthersThan(id) == {s \in sessions : s.id # id}
Unless(cookie) == {s \in sessions : s.token # cookie}

-----------------------------------------------------------------------------
(* POST /api/auth/login: the hash is read and compared outside the lock.   *)
ReadHash(n) ==
  /\ Open({"login"}, n) /\ requests[n].seen = None
  /\ LET row == users[requests[n].name]
     IN IF row # None /\ row.pass = requests[n].pass
          THEN /\ requests' = [requests EXCEPT ![n].seen = [id |-> row.id, born |-> row.born]]
               /\ UNCHANGED <<users, sessions, fresh>>
          ELSE Refuse(n, "wrong")

\* Fault: the password is not compared again under the lock.
NotCheckedAgain(n) == {[row EXCEPT !.pass = requests[n].pass] : row \in RowOf(requests[n].seen.id)}

\* The account, if its password is still the one that was checked.
CheckedAgain(n) == {row \in RowOf(requests[n].seen.id) : row.pass = requests[n].pass}

OpenSession(n) ==
  /\ Open({"login"}, n) /\ requests[n].seen # None
  /\ IF CheckedAgain(n) = {} THEN Refuse(n, "wrong")
     ELSE /\ \E row \in CheckedAgain(n) : SignsIn(n, row, Unless(requests[n].cookie), fresh)
          /\ fresh' = fresh + 1
          /\ UNCHANGED users

\* POST /api/auth/register
Register(n) ==
  /\ Open({"register"}, n)
  /\ IF users[requests[n].name] # None THEN Refuse(n, "taken")
     ELSE /\ \E id \in {i \in 1 .. fresh : IsNewId(i)} :
               LET row == Row(id, fresh, Batch(fresh), fresh)
               IN /\ users' = [users EXCEPT ![requests[n].name] = row]
                  /\ SignsIn(n, row, Unless(requests[n].cookie), fresh + 1)
          /\ fresh' = fresh + 2

\* The row after a recovery: the code is gone, the password is new.
Used(row, code) == [row EXCEPT !.pass = fresh, !.codes = @ \ {code}]

\* POST /api/auth/recover
Recover(n) ==
  /\ Open({"recover"}, n)
  /\ LET name == requests[n].name
         code == requests[n].code
     IN IF users[name] = None THEN Refuse(n, "wrong")
        ELSE IF code \notin users[name].codes THEN Refuse(n, "wrong")
        ELSE LET row == Used(users[name], code)
             IN /\ users' = [users EXCEPT ![name] = row]
                /\ SignsIn(n, row, OthersThan(row.id), fresh + 1)
                /\ fresh' = fresh + 2

-----------------------------------------------------------------------------
(* The routes of an account that is signed in.                             *)
\* Who is asking.  For a plain read that is all.
Admit(n) ==
  /\ Open(Signed, n) /\ requests[n].seen = None
  /\ LET q == requests[n]
         found == {s \in sessions : s.token = q.cookie /\ q.id \in {None, s.id}}
         row(s) == CHOOSE r \in RowOf(s.id) : TRUE
     IN IF found = {} THEN Refuse(n, "ended")
        ELSE /\ \E s \in found :
                  requests' = IF q.kind \in {"me", "get"} THEN Answered(n, Yes(row(s), None))
                              ELSE [requests EXCEPT ![n].seen = [id |-> s.id, born |-> s.born]]
             /\ UNCHANGED <<users, sessions, fresh>>

NameOf(row) == CHOOSE n \in Name : users[n] = row

\* The request has been let in, and its password is compared under the lock.
Proven(kind, n) == Open({kind}, n) /\ requests[n].seen # None

\* Fault: being let in is enough.
RightAnyway(n) == RowOf(requests[n].seen.id)

Right(n) == {row \in RowOf(requests[n].seen.id) : row.pass = requests[n].pass}

WrongPassword(n) ==
  /\ \E kind \in Confirmed : Proven(kind, n)
  /\ Right(n) = {}
  /\ Refuse(n, "wrong")

\* POST /api/auth/password: every session ends, and the sender gets a new one.
ChangePassword(n) ==
  /\ Proven("password", n)
  /\ \E old \in Right(n) :
       LET row == [old EXCEPT !.pass = fresh]
       IN /\ users' = [users EXCEPT ![NameOf(old)] = row]
          /\ SignsIn(n, row, OthersThan(row.id), fresh + 1)
  /\ fresh' = fresh + 2

\* POST /api/auth/recovery-codes
ReplaceCodes(n) ==
  /\ Proven("codes", n)
  /\ \E row \in Right(n) :
       /\ users' = [users EXCEPT ![NameOf(row)].codes = Batch(fresh)]
       /\ requests' = Answered(n, Yes(row, None))
  /\ fresh' = fresh + 1
  /\ UNCHANGED sessions

\* DELETE /api/auth/account
RemoveAccount(n) ==
  /\ Proven("delete", n)
  /\ \E row \in Right(n) :
       /\ users' = [users EXCEPT ![NameOf(row)] = None]
       /\ sessions' = OthersThan(row.id)
       /\ requests' = Answered(n, Yes(row, None))
  /\ UNCHANGED fresh

\* POST /api/auth/logout
EndSession(n) ==
  /\ Proven("logout", n)
  /\ sessions' = Unless(requests[n].cookie)
  /\ requests' = Answered(n, [No("ok") EXCEPT !.id = requests[n].seen.id])
  /\ UNCHANGED <<users, fresh>>

Serve(n) ==
  \/ ReadHash(n) \/ OpenSession(n) \/ Register(n) \/ Recover(n)
  \/ Admit(n) \/ WrongPassword(n) \/ ChangePassword(n) \/ ReplaceCodes(n)
  \/ RemoveAccount(n) \/ EndSession(n)

\* Seven or thirty days without a use.
SessionTimesOut ==
  /\ \E s \in sessions : sessions' = sessions \ {s}
  /\ UNCHANGED <<users, requests, fresh>>

-----------------------------------------------------------------------------
(* The server by itself: whatever is asked, taken or given up on.          *)
AccountsNext ==
  \/ UNCHANGED <<users, sessions, fresh>>
  \/ SessionTimesOut
  \/ \E n \in DOMAIN requests : Serve(n)

AccountsSpec == AccountsInit /\ [][AccountsNext]_accountVars

\* Every session was opened with the password its account has now: setting a
\* password, by changing it, with a recovery code, or by registering the name
\* again after a deletion, leaves no session of the password before, not even
\* one whose login had been checked and not yet answered.
SessionsOfThisPassword ==
  \A s \in sessions : \E row \in Rows :
    row.id = s.id /\ row.pass = s.pass /\ row.born = s.born

ProvenStep ==
  \A name \in Name :
    LET row == users[name]  now == users'[name]
    IN row # None /\ now # None /\ now.born = row.born /\ now.pass # row.pass =>
         \/ \E code \in row.codes : now.codes = row.codes \ {code}
         \/ \E n \in DOMAIN requests : Proven("password", n) /\ requests[n].pass = row.pass

\* A password is replaced only by a recovery, which costs the account one of its
\* codes, or for someone who names the password it has at that moment: not the
\* one it had when the request was let in.
PasswordNeedsProof == [][ProvenStep]_accountVars
=============================================================================
