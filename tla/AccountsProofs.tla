--------------------------- MODULE AccountsProofs ---------------------------
(***************************************************************************)
(* Two facts about the server's accounts, for any number of names and      *)
(* clients, whatever the clients ask and in whatever order the two halves  *)
(* of their requests run; and that the desktop window and another device   *)
(* are such clients.  Then, for the proofs about the window, what a step   *)
(* of such a server does to sessions, rows and answers.                    *)
(***************************************************************************)
EXTENDS SignIn, TLAPS

AccountsType ==
  /\ users \in [Name -> {None} \cup RowSet]
  /\ fresh \in Nat

LEMMA RowsAreRows ==
  ASSUME AccountsType
  PROVE  /\ Rows \subseteq RowSet
         /\ \A name \in Name : users[name] # None => users[name] \in Rows
  BY DEF AccountsType, Rows

LEMMA NamedRow ==
  ASSUME NEW row \in Rows
  PROVE  NameOf(row) \in Name /\ users[NameOf(row)] = row
  BY DEF Rows, NameOf

LEMMA NewBatch ==
  ASSUME NEW k \in Nat
  PROVE  Batch(k) \in SUBSET (Nat \X Code)
  BY DEF Batch

LEMMA OneRow ==
  ASSUME NEW name, NEW row, users \in [Name -> {None} \cup RowSet],
         name \in Name => row \in {None} \cup RowSet
  PROVE  [users EXCEPT ![name] = row] \in [Name -> {None} \cup RowSet]
  OBVIOUS

-----------------------------------------------------------------------------
LEMMA InitType == AccountsInit => AccountsType
<1> SUFFICES ASSUME AccountsInit PROVE AccountsType
  OBVIOUS
<1>1. Row(1, 1, Batch(1), 1) \in RowSet
  BY NewBatch DEF Row, RowSet
<1> QED
  BY <1>1 DEF AccountsInit, AccountsType

LEMMA StepType == AccountsType /\ [AccountsNext]_accountVars => AccountsType'
<1> SUFFICES ASSUME AccountsType, [AccountsNext]_accountVars PROVE AccountsType'
  OBVIOUS
<1> USE DEF AccountsType
<1>1. CASE UNCHANGED <<users, fresh>>
  BY <1>1
<1>2. CASE \E n \in DOMAIN requests : Serve(n)
  <2> PICK n \in DOMAIN requests : Serve(n)
    BY <1>2
  <2>1. CASE ReadHash(n)
    BY <2>1, <1>1 DEF ReadHash, Refuse
  <2>2. CASE OpenSession(n)
    BY <2>2 DEF OpenSession, Refuse
  <2>3. CASE Register(n)
    <3>1. CASE users[requests[n].name] # None
      BY <2>3, <3>1 DEF Register, Refuse
    <3>2. CASE users[requests[n].name] = None
      <4>1. PICK id \in 1 .. fresh :
              users' = [users EXCEPT ![requests[n].name] = Row(id, fresh, Batch(fresh), fresh)]
        BY <2>3, <3>2 DEF Register
      <4>2. Row(id, fresh, Batch(fresh), fresh) \in RowSet
        BY NewBatch DEF Row, RowSet
      <4>3. fresh' = fresh + 2
        BY <2>3, <3>2 DEF Register
      <4>4. fresh' \in Nat
        BY <4>3
      <4> QED
        BY <4>1, <4>2, <4>4, OneRow
    <3> QED
      BY <3>1, <3>2
  <2>4. CASE Recover(n)
    <3> DEFINE name == requests[n].name
               code == requests[n].code
    <3>1. CASE users[name] = None
      BY <2>4, <3>1 DEF Recover, Refuse
    <3>2. CASE users[name] # None /\ code \notin users[name].codes
      BY <2>4, <3>2 DEF Recover, Refuse
    <3>3. CASE users[name] # None /\ code \in users[name].codes
      <4>1. users' = [users EXCEPT ![name] = Used(users[name], code)] /\ fresh' = fresh + 2
        BY <2>4, <3>3 DEF Recover
      <4>2. name \in Name => Used(users[name], code) \in RowSet
        BY <3>3 DEF Used, RowSet
      <4>3. fresh' \in Nat
        BY <4>1
      <4>4. users' \in [Name -> {None} \cup RowSet]
        <5> HIDE DEF name, code
        <5> QED
          BY <4>1, <4>2, OneRow
      <4> QED
        BY <4>3, <4>4
    <3> QED
      BY <3>1, <3>2, <3>3
  <2>5. CASE Admit(n)
    BY <2>5, <1>1 DEF Admit, Refuse
  <2>6. CASE WrongPassword(n)
    BY <2>6, <1>1 DEF WrongPassword, Refuse
  <2>7. CASE ChangePassword(n)
    <3>1. PICK old \in Right(n) : users' = [users EXCEPT ![NameOf(old)] = [old EXCEPT !.pass = fresh]]
      BY <2>7 DEF ChangePassword
    <3>2. old \in RowSet
      BY RowsAreRows DEF Right, RowOf
    <3>3. [old EXCEPT !.pass = fresh] \in RowSet
      BY <3>2 DEF RowSet
    <3>4. fresh' \in Nat
      BY <2>7 DEF ChangePassword
    <3> QED
      BY <3>1, <3>3, <3>4, OneRow
  <2>8. CASE ReplaceCodes(n)
    <3>1. PICK row \in Right(n) : users' = [users EXCEPT ![NameOf(row)].codes = Batch(fresh)]
      BY <2>8 DEF ReplaceCodes
    <3>2. row \in RowSet /\ NameOf(row) \in Name /\ users[NameOf(row)] = row
      BY RowsAreRows, NamedRow DEF Right, RowOf
    <3>3. [row EXCEPT !.codes = Batch(fresh)] \in RowSet
      BY <3>2, NewBatch DEF RowSet
    <3>4. fresh' = fresh + 1
      BY <2>8 DEF ReplaceCodes
    <3> QED
      BY <3>1, <3>2, <3>3, <3>4
  <2>9. CASE RemoveAccount(n)
    BY <2>9 DEF RemoveAccount
  <2>10. CASE EndSession(n)
    BY <2>10, <1>1 DEF EndSession
  <2> QED
    BY <2>1, <2>2, <2>3, <2>4, <2>5, <2>6, <2>7, <2>8, <2>9, <2>10 DEF Serve
<1> QED
  BY <1>1, <1>2 DEF AccountsNext, SessionTimesOut, accountVars

-----------------------------------------------------------------------------
(* SessionsOfThisPassword.                                                 *)

\* One account's row is replaced, and of its sessions only one of the new row is
\* left.
LEMMA OneAccount ==
  ASSUME AccountsType, SessionsOfThisPassword,
         NEW name \in Name, users[name] # None,
         NEW row \in RowSet, row.id = users[name].id,
         users' = [users EXCEPT ![name] = row],
         NEW token, sessions' = OthersThan(row.id) \cup {Session(token, row)}
  PROVE  SessionsOfThisPassword'
<1>1. users'[name] = row /\ row # None
  BY AccountsAssumption DEF AccountsType
<1>2. row \in Rows'
  BY <1>1 DEF Rows
<1> SUFFICES ASSUME NEW s \in sessions'
             PROVE  \E r \in Rows' : r.id = s.id /\ r.pass = s.pass /\ r.born = s.born
  BY DEF SessionsOfThisPassword
<1>3. CASE s = Session(token, row)
  BY <1>2, <1>3 DEF Session
<1>4. CASE s \in OthersThan(row.id)
  <2>1. PICK old \in Rows : old.id = s.id /\ old.pass = s.pass /\ old.born = s.born
    BY <1>4 DEF OthersThan, SessionsOfThisPassword
  <2>2. PICK other \in Name : users[other] = old /\ old # None
    BY DEF Rows
  <2>3. other # name
    BY <2>1, <2>2, <1>4 DEF OthersThan
  <2>4. users'[other] = old
    BY <2>2, <2>3 DEF AccountsType
  <2>5. old \in Rows'
    BY <2>2, <2>4 DEF Rows
  <2> QED
    BY <2>1, <2>5
<1> QED
  BY <1>3, <1>4

\* No row disappears, and the new sessions are those of a row.
LEMMA MoreAccounts ==
  ASSUME SessionsOfThisPassword, Rows \subseteq Rows',
         \A s \in sessions' \ sessions :
           \E row \in Rows' : row.id = s.id /\ row.pass = s.pass /\ row.born = s.born
  PROVE  SessionsOfThisPassword'
  BY DEF SessionsOfThisPassword

LEMMA StepSessions ==
  AccountsType /\ SessionsOfThisPassword /\ [AccountsNext]_accountVars => SessionsOfThisPassword'
<1> SUFFICES ASSUME AccountsType, SessionsOfThisPassword, [AccountsNext]_accountVars
             PROVE  SessionsOfThisPassword'
  OBVIOUS
<1>1. CASE users' = users /\ sessions' \subseteq sessions
  <2> Rows' = Rows
    BY <1>1 DEF Rows
  <2> QED
    BY <1>1, MoreAccounts
<1>2. CASE \E n \in DOMAIN requests : Serve(n)
  <2> PICK n \in DOMAIN requests : Serve(n)
    BY <1>2
  <2>0. \A why : Refuse(n, why) => users' = users /\ sessions' \subseteq sessions
    BY DEF Refuse
  <2>1. CASE ReadHash(n)
    BY <2>0, <2>1, <1>1 DEF ReadHash
  <2>2. CASE OpenSession(n)
    <3>1. CASE CheckedAgain(n) = {}
      BY <2>0, <2>2, <3>1, <1>1 DEF OpenSession
    <3>2. CASE CheckedAgain(n) # {}
      <4>1. PICK row \in CheckedAgain(n) :
              sessions' = Unless(requests[n].cookie) \cup {Session(fresh, row)}
        BY <2>2, <3>2 DEF OpenSession, SignsIn
      <4>2. users' = users
        BY <2>2, <3>2 DEF OpenSession
      <4>3. Rows' = Rows /\ row \in Rows
        BY <4>2 DEF Rows, CheckedAgain, RowOf
      <4>4. \A s \in sessions' \ sessions : s = Session(fresh, row)
        BY <4>1 DEF Unless
      <4>5. \A s \in sessions' \ sessions :
              row.id = s.id /\ row.pass = s.pass /\ row.born = s.born
        BY <4>4 DEF Session
      <4> QED
        BY <4>3, <4>5, MoreAccounts
    <3> QED
      BY <3>1, <3>2
  <2>3. CASE Register(n)
    <3>1. CASE users[requests[n].name] # None
      BY <2>0, <2>3, <3>1, <1>1 DEF Register
    <3>2. CASE users[requests[n].name] = None
      <4> DEFINE name == requests[n].name
      <4>1. PICK id \in 1 .. fresh :
              LET row == Row(id, fresh, Batch(fresh), fresh)
              IN /\ users' = [users EXCEPT ![name] = row]
                 /\ sessions' = Unless(requests[n].cookie) \cup {Session(fresh + 1, row)}
        BY <2>3, <3>2 DEF Register, SignsIn
      <4> DEFINE row == Row(id, fresh, Batch(fresh), fresh)
      <4>2. row \in RowSet
        BY NewBatch DEF Row, RowSet, AccountsType
      <4>3. name \in Name
        BY <2>3 DEF Register, Open
      <4> HIDE DEF name, row
      <4>4. users'[name] = row /\ row # None
        BY <4>1, <4>2, <4>3, AccountsAssumption DEF AccountsType, row
      <4>5. row \in Rows'
        BY <4>3, <4>4 DEF Rows
      <4>6. Rows \subseteq Rows'
        BY <4>1, <3>2 DEF Rows, AccountsType, name
      <4>7. \A s \in sessions' \ sessions : s = Session(fresh + 1, row)
        BY <4>1 DEF Unless, row
      <4>8. \A s \in sessions' \ sessions :
              row.id = s.id /\ row.pass = s.pass /\ row.born = s.born
        BY <4>7 DEF Session
      <4> QED
        BY <4>5, <4>6, <4>8, MoreAccounts
    <3> QED
      BY <3>1, <3>2
  <2>4. CASE Recover(n)
    <3> DEFINE name == requests[n].name
               code == requests[n].code
               row == Used(users[name], code)
    <3>1. CASE users[name] = None
      BY <2>0, <2>4, <3>1, <1>1 DEF Recover
    <3>2. CASE users[name] # None /\ code \notin users[name].codes
      BY <2>0, <2>4, <3>2, <1>1 DEF Recover
    <3>3. CASE users[name] # None /\ code \in users[name].codes
      <4>1. /\ users' = [users EXCEPT ![name] = row]
            /\ sessions' = OthersThan(row.id) \cup {Session(fresh + 1, row)}
        BY <2>4, <3>3 DEF Recover, SignsIn
      <4>2. name \in Name
        BY <2>4 DEF Recover, Open
      <4>3. row \in RowSet /\ row.id = users[name].id
        BY <3>3, <4>2 DEF Used, RowSet, AccountsType
      <4> QED
        BY <4>1, <4>2, <4>3, <3>3, OneAccount
    <3> QED
      BY <3>1, <3>2, <3>3
  <2>5. CASE Admit(n)
    BY <2>0, <2>5, <1>1 DEF Admit
  <2>6. CASE WrongPassword(n)
    BY <2>0, <2>6, <1>1 DEF WrongPassword
  <2>7. CASE ChangePassword(n)
    <3>1. PICK old \in Right(n) :
            LET row == [old EXCEPT !.pass = fresh]
            IN /\ users' = [users EXCEPT ![NameOf(old)] = row]
               /\ sessions' = OthersThan(row.id) \cup {Session(fresh + 1, row)}
      BY <2>7 DEF ChangePassword, SignsIn
    <3>2. old \in Rows
      BY DEF Right, RowOf
    <3>3. NameOf(old) \in Name /\ users[NameOf(old)] = old /\ old \in RowSet /\ old # None
      BY <3>2, NamedRow, RowsAreRows DEF Rows
    <3> DEFINE row == [old EXCEPT !.pass = fresh]
    <3>4. row \in RowSet /\ row.id = old.id
      BY <3>3 DEF RowSet, AccountsType
    <3> QED
      BY <3>1, <3>3, <3>4, OneAccount
  <2>8. CASE ReplaceCodes(n)
    <3>1. PICK old \in Right(n) : users' = [users EXCEPT ![NameOf(old)].codes = Batch(fresh)]
      BY <2>8 DEF ReplaceCodes
    <3>2. sessions' = sessions
      BY <2>8 DEF ReplaceCodes
    <3>3. old \in Rows
      BY DEF Right, RowOf
    <3>4. NameOf(old) \in Name /\ users[NameOf(old)] = old /\ old \in RowSet /\ old # None
      BY <3>3, NamedRow, RowsAreRows DEF Rows
    <3> DEFINE row == [old EXCEPT !.codes = Batch(fresh)]
               name == NameOf(old)
    <3>5. /\ row \in RowSet
          /\ row.id = old.id /\ row.pass = old.pass /\ row.born = old.born
      BY <3>4, NewBatch DEF RowSet, AccountsType
    <3>6. users' = [users EXCEPT ![name] = row]
      BY <3>1, <3>4
    <3> HIDE DEF row, name
    <3>7. SUFFICES ASSUME NEW s \in sessions
                   PROVE  \E r \in Rows' : r.id = s.id /\ r.pass = s.pass /\ r.born = s.born
      BY <3>2 DEF SessionsOfThisPassword
    <3>8. PICK r \in Rows : r.id = s.id /\ r.pass = s.pass /\ r.born = s.born
      BY DEF SessionsOfThisPassword
    <3>9. PICK other \in Name : users[other] = r /\ r # None
      BY DEF Rows
    <3>10. CASE other = name
      <4>1. users'[other] = row /\ row # None
        BY <3>5, <3>6, <3>10, AccountsAssumption DEF AccountsType
      <4>2. row \in Rows'
        BY <4>1 DEF Rows
      <4> QED
        BY <4>2, <3>4, <3>5, <3>8, <3>9, <3>10 DEF name
    <3>11. CASE other # name
      <4>1. users'[other] = r
        BY <3>6, <3>9, <3>11 DEF AccountsType
      <4>2. r \in Rows'
        BY <4>1, <3>9 DEF Rows
      <4> QED
        BY <4>2, <3>8
    <3> QED
      BY <3>10, <3>11
  <2>9. CASE RemoveAccount(n)
    <3>1. PICK old \in Right(n) : /\ users' = [users EXCEPT ![NameOf(old)] = None]
                                  /\ sessions' = OthersThan(old.id)
      BY <2>9 DEF RemoveAccount
    <3>2. users[NameOf(old)] = old
      BY NamedRow DEF Right, RowOf
    <3>3. SUFFICES ASSUME NEW s \in sessions, s.id # old.id
                   PROVE  \E r \in Rows' : r.id = s.id /\ r.pass = s.pass /\ r.born = s.born
      BY <3>1 DEF SessionsOfThisPassword, OthersThan
    <3>4. PICK r \in Rows : r.id = s.id /\ r.pass = s.pass /\ r.born = s.born
      BY DEF SessionsOfThisPassword
    <3>5. PICK other \in Name : users[other] = r /\ r # None
      BY DEF Rows
    <3>6. users'[other] = r
      BY <3>1, <3>2, <3>3, <3>4, <3>5 DEF AccountsType
    <3>7. r \in Rows'
      BY <3>5, <3>6 DEF Rows
    <3> QED
      BY <3>4, <3>7
  <2>10. CASE EndSession(n)
    BY <2>10, <1>1 DEF EndSession, Unless
  <2> QED
    BY <2>1, <2>2, <2>3, <2>4, <2>5, <2>6, <2>7, <2>8, <2>9, <2>10 DEF Serve
<1> QED
  BY <1>1, <1>2 DEF AccountsNext, SessionTimesOut, accountVars

-----------------------------------------------------------------------------
(* PasswordNeedsProof.                                                     *)
LEMMA StepPassword == AccountsType /\ [AccountsNext]_accountVars => ProvenStep
<1> SUFFICES ASSUME AccountsType, [AccountsNext]_accountVars,
                    NEW name \in Name,
                    users[name] # None, users'[name] # None,
                    users'[name].born = users[name].born, users'[name].pass # users[name].pass
             PROVE  \/ \E code \in users[name].codes :
                         users'[name].codes = users[name].codes \ {code}
                    \/ \E n \in DOMAIN requests :
                         Proven("password", n) /\ requests[n].pass = users[name].pass
  BY DEF ProvenStep
<1>1. users' # users
  OBVIOUS
<1>2. PICK n \in DOMAIN requests : Serve(n)
  BY <1>1 DEF AccountsNext, SessionTimesOut, accountVars
<1>3. \A why : ~Refuse(n, why)
  BY <1>1 DEF Refuse
<1>4. CASE Register(n)
  <2>1. users[requests[n].name] = None
    BY <1>3, <1>4 DEF Register
  <2>2. PICK row : users' = [users EXCEPT ![requests[n].name] = row]
    BY <1>4, <2>1 DEF Register
  <2> QED
    BY <2>1, <2>2 DEF AccountsType
<1>5. CASE Recover(n)
  <2> DEFINE asked == requests[n].name
             code == requests[n].code
  <2>1. users[asked] # None /\ code \in users[asked].codes
    BY <1>3, <1>5 DEF Recover
  <2>2. users' = [users EXCEPT ![asked] = Used(users[asked], code)]
    BY <1>5, <2>1 DEF Recover
  <2>3. asked = name
    BY <2>2 DEF AccountsType
  <2>4. users'[name].codes = users[name].codes \ {code}
    BY <2>2, <2>3 DEF Used, AccountsType, RowSet
  <2> QED
    BY <2>1, <2>3, <2>4
<1>6. CASE ChangePassword(n)
  <2>1. Proven("password", n)
    BY <1>6 DEF ChangePassword
  <2>2. PICK old \in Right(n) : users' = [users EXCEPT ![NameOf(old)] = [old EXCEPT !.pass = fresh]]
    BY <1>6 DEF ChangePassword
  <2>3. users[NameOf(old)] = old /\ old.pass = requests[n].pass
    BY NamedRow DEF Right, RowOf
  <2>4. NameOf(old) = name
    BY <2>2 DEF AccountsType
  <2> QED
    BY <2>1, <2>3, <2>4
<1>7. CASE ReplaceCodes(n)
  <2>1. PICK old \in Right(n) : users' = [users EXCEPT ![NameOf(old)].codes = Batch(fresh)]
    BY <1>7 DEF ReplaceCodes
  <2>2. users'[name].pass = users[name].pass
    BY <2>1 DEF AccountsType, RowSet
  <2> QED
    BY <2>2
<1>8. CASE RemoveAccount(n)
  <2>1. PICK old \in Right(n) : users' = [users EXCEPT ![NameOf(old)] = None]
    BY <1>8 DEF RemoveAccount
  <2> QED
    BY <2>1 DEF AccountsType
<1> QED
  BY <1>1, <1>2, <1>3, <1>4, <1>5, <1>6, <1>7, <1>8
     DEF Serve, ReadHash, OpenSession, Admit, WrongPassword, EndSession

-----------------------------------------------------------------------------
(* The theorems.                                                           *)
LEMMA InitSessions == AccountsInit => SessionsOfThisPassword
<1> SUFFICES ASSUME AccountsInit PROVE SessionsOfThisPassword
  OBVIOUS
<1> DEFINE row == Row(1, 1, Batch(1), 1)
<1>1. row \in RowSet
  BY NewBatch DEF Row, RowSet
<1>2. users[FirstName] = row /\ row # None
  BY <1>1, AccountsAssumption DEF AccountsInit
<1>3. row \in Rows
  BY <1>2, AccountsAssumption DEF Rows
<1> QED
  BY <1>3 DEF AccountsInit, SessionsOfThisPassword, Session

\* Whatever is asked of the server, in whatever order it is answered, no session
\* outlives the password it was opened with.
THEOREM NoSessionOutlivesItsPassword == AccountsSpec => []SessionsOfThisPassword
<1>1. AccountsInit => AccountsType /\ SessionsOfThisPassword
  BY InitType, InitSessions
<1>2. AccountsType /\ SessionsOfThisPassword /\ [AccountsNext]_accountVars
        => (AccountsType /\ SessionsOfThisPassword)'
  BY StepType, StepSessions
<1> QED
  BY <1>1, <1>2, PTL DEF AccountsSpec

\* A password is replaced only with a recovery code or by naming it.
THEOREM PasswordsAreProven == AccountsSpec => PasswordNeedsProof
<1>1. AccountsInit => AccountsType
  BY InitType
<1>2. AccountsType /\ [AccountsNext]_accountVars => AccountsType'
  BY StepType
<1>3. AccountsType /\ [AccountsNext]_accountVars => [ProvenStep]_accountVars
  BY StepPassword
<1> QED
  BY <1>1, <1>2, <1>3, PTL DEF AccountsSpec, PasswordNeedsProof

\* The desktop window and the other device only ask, wait and give up: the window
\* with its server is such a server.
LEMMA WindowStep == SignInNext => AccountsNext
<1> SUFFICES ASSUME SignInNext PROVE AccountsNext
  OBVIOUS
<1>1. CASE Served
  BY <1>1 DEF Served, AccountsNext
<1>2. CASE TimesOut
  BY <1>2 DEF TimesOut, AccountsNext
<1>3. CASE Replies
  <2>1. ServerStands
    BY <1>3 DEF Replies, SignInOk, RegisterOk, SignInFails, ResumeOk, ResumeFails, LogOutDone,
                PasswordOk, CodesOk, DeleteOk, ConfirmFails, WorkDone, Expired, Late
  <2> QED
    BY <2>1 DEF ServerStands, AccountsNext
<1>4. CASE ServerStands
  BY <1>4 DEF ServerStands, AccountsNext
<1> QED
  BY <1>1, <1>2, <1>3, <1>4
     DEF SignInNext, Launch, Submit, Acknowledge, LogOut, Confirm, Work, Loses, Quit,
         OtherAsks, OtherTakes

\* So both hold of the window with its server.
THEOREM SignInKeepsAccounts ==
  SignInSpec => AccountsSpec /\ []SessionsOfThisPassword /\ PasswordNeedsProof
<1>1. SignInInit => AccountsInit
  BY DEF SignInInit
<1>2. [SignInNext]_signVars => [AccountsNext]_accountVars
  BY WindowStep DEF signVars
<1>3. SignInSpec => AccountsSpec
  BY <1>1, <1>2, PTL DEF SignInSpec, AccountsSpec
<1> QED
  BY <1>3, NoSessionOutlivesItsPassword, PasswordsAreProven, PTL

-----------------------------------------------------------------------------
(* What a session token says.                                              *)
Same(a, b) == a.id = b.id /\ a.born = b.born

\* A token given out before f, if any.
Old(f, token) == token # None => token \in Nat /\ token < f

\* Of the sessions ss, those of `token' are sessions of x.
Names(ss, token, x) == \A s \in ss : s.token = token => Same(s, x)

OneSessionEach ==
  \A s \in sessions : s.token \in Nat /\ s.token < fresh /\ Names(sessions, s.token, s)

OneRowEach ==
  \A i, j \in Name : users[i] # None /\ users[j] # None /\ users[i].id = users[j].id => i = j

OldPasswords == 0 < fresh /\ \A row \in Rows : row.pass < fresh

ServerOK ==
  AccountsType /\ SessionsOfThisPassword /\ OneSessionEach /\ OneRowEach /\ OldPasswords

\* What a step does: new passwords and tokens are fresh ones.
NewSessions ==
  /\ \A s \in sessions' \ sessions : s.token \in fresh .. fresh' - 1
  /\ \A s, t \in sessions' \ sessions : s = t

NewPasswords ==
  \A row \in Rows' :
    row.pass \in fresh .. fresh' - 1 \/ \E old \in Rows : Same(old, row) /\ old.pass = row.pass

Forward == fresh' \in Nat /\ fresh <= fresh' /\ NewSessions /\ NewPasswords /\ OneRowEach'

LEMMA ForwardKeeps ==
  ASSUME ServerOK, Forward
  PROVE  OneSessionEach' /\ OneRowEach' /\ OldPasswords'
<1> fresh \in Nat /\ fresh' \in Nat /\ fresh <= fresh'
  BY DEF ServerOK, AccountsType, Forward
<1>1. \A s \in sessions' : s.token \in Nat /\ s.token < fresh'
  BY DEF ServerOK, OneSessionEach, Forward, NewSessions
<1>2. ASSUME NEW s \in sessions', NEW t \in sessions', s.token = t.token
      PROVE  Same(t, s)
  <2>1. CASE s \in sessions /\ t \in sessions
    BY <1>2, <2>1 DEF ServerOK, OneSessionEach, Names
  <2>2. CASE s \notin sessions /\ t \notin sessions
    BY <2>2 DEF Forward, NewSessions, Same
  <2>3. \A r \in sessions : r.token \in Nat /\ r.token < fresh
    BY DEF ServerOK, OneSessionEach
  <2>4. \A r \in sessions' \ sessions : r.token \in Nat /\ fresh <= r.token
    BY DEF Forward, NewSessions
  <2>5. s \in sessions <=> t \in sessions
    BY <1>2, <2>3, <2>4
  <2> QED
    BY <2>1, <2>2, <2>5
<1>3. OneSessionEach'
  BY <1>1, <1>2 DEF OneSessionEach, Names
<1>4. OldPasswords'
  <2>1. \A row \in Rows : row.pass \in Nat /\ row.pass < fresh
    BY RowsAreRows DEF ServerOK, OldPasswords, RowSet
  <2>2. \A row \in Rows' : row.pass < fresh'
    BY <2>1 DEF Forward, NewPasswords
  <2> QED
    BY <2>2 DEF ServerOK, OldPasswords
<1> QED
  BY <1>3, <1>4 DEF Forward

\* What was said with an old token stays true.
LEMMA ForwardNames ==
  ASSUME ServerOK, Forward, NEW token, Old(fresh, token), NEW x, Names(sessions, token, x)
  PROVE  Old(fresh', token) /\ Names(sessions', token, x)
<1> fresh \in Nat /\ fresh' \in Nat /\ fresh <= fresh'
  BY DEF ServerOK, AccountsType, Forward
<1>1. Old(fresh', token)
  BY DEF Old
<1>2. \A s \in sessions' \ sessions : s.token # token
  <2>1. \A s \in sessions' \ sessions : s.token \in Nat /\ fresh <= s.token
    BY DEF Forward, NewSessions
  <2> QED
    BY <2>1, AccountsAssumption DEF Old
<1> QED
  BY <1>1, <1>2 DEF Names

\* The row of a session, and of what was let in with it.
LEMMA RowOfSession ==
  ASSUME ServerOK, NEW s \in sessions
  PROVE  /\ RowOf(s.id) # {}
         /\ \A row \in RowOf(s.id) : row \in RowSet /\ Same(row, s)
<1>1. PICK row \in Rows : row.id = s.id /\ row.born = s.born
  BY DEF ServerOK, SessionsOfThisPassword
<1>2. \A r \in Rows : r.id = row.id => r = row
  BY DEF ServerOK, OneRowEach, Rows
<1>3. Rows \subseteq RowSet
  BY RowsAreRows DEF ServerOK
<1> QED
  BY <1>1, <1>2, <1>3 DEF RowOf, Same

LEMMA ServerStandsForward ==
  ASSUME ServerOK, UNCHANGED <<users, fresh>>, sessions' \subseteq sessions
  PROVE  Forward
<1>1. Rows' = Rows
  BY DEF Rows
<1> QED
  BY <1>1 DEF ServerOK, AccountsType, OneRowEach, Forward, NewSessions, NewPasswords, Same

\* One account's row is replaced, added or removed.
LEMMA OneRowForward ==
  ASSUME ServerOK, fresh' \in Nat, fresh <= fresh',
         NEW name \in Name, NEW row \in {None} \cup RowSet,
         users' = [users EXCEPT ![name] = row],
         row # None => \A j \in Name \ {name} : users[j] # None => users[j].id # row.id,
         row # None => \/ row.pass \in fresh .. fresh' - 1
                       \/ \E old \in Rows : Same(old, row) /\ old.pass = row.pass
  PROVE  OneRowEach' /\ NewPasswords
<1>1. \A j \in Name : users'[j] = IF j = name THEN row ELSE users[j]
  BY DEF ServerOK, AccountsType
<1>2. OneRowEach'
  BY <1>1 DEF ServerOK, OneRowEach
<1>3. \A r \in Rows' : (r = row /\ row # None) \/ r \in Rows
  BY <1>1 DEF Rows
<1>4. NewPasswords
  BY <1>3 DEF NewPasswords, Same
<1> QED
  BY <1>2, <1>4

-----------------------------------------------------------------------------
(* What a route answers.                                                   *)
\* What the sender may make of an answer to a request of this kind.
Good(ss, f, kind, answer) ==
  /\ Old(f, answer.token)
  /\ answer.status = "ok" /\ kind # "logout" => answer.id \in Nat /\ answer.born \in Nat
  /\ Names(ss, answer.token, answer)

\* A request of the session x is let in, and one is answered.
LetsIn(q, x) ==
  /\ q.kind # "me" /\ q.answer = None
  /\ q.kind = "password" => \E s \in sessions : s.token = q.cookie /\ Same(x, s)

Answers(q, answer) ==
  /\ q.answer = None
  /\ Good(sessions', fresh', q.kind, answer)
  /\ answer.status = "ok" =>
       /\ q.kind = "me" => \E s \in sessions : s.token = q.cookie /\ Same(answer, s)
       /\ q.kind = "password" =>
            q.seen # None /\ \E row \in RowOf(q.seen.id) : row.pass = q.pass /\ Same(answer, row)

Does(n) ==
  /\ Forward
  /\ \/ \E x : requests' = [requests EXCEPT ![n].seen = x] /\ LetsIn(requests[n], x)
     \/ \E answer : requests' = Answered(n, answer) /\ Answers(requests[n], answer)

\* Without a token, nothing is said of any session.
LEMMA NoTokenGood ==
  ASSUME NEW kind, NEW answer, answer.token = None, OneSessionEach',
         answer.status = "ok" /\ kind # "logout" => answer.id \in Nat /\ answer.born \in Nat
  PROVE  Good(sessions', fresh', kind, answer)
<1>1. \A s \in sessions' : s.token # None
  BY AccountsAssumption DEF OneSessionEach
<1> QED
  BY <1>1 DEF Good, Old, Names

LEMMA RefuseDoes ==
  ASSUME ServerOK, NEW n, requests[n].answer = None, NEW why, why # "ok", Refuse(n, why)
  PROVE  Does(n)
<1>1. Forward
  BY ServerStandsForward DEF Refuse
<1>2. requests' = Answered(n, No(why))
  BY DEF Refuse
<1>3. No(why).token = None /\ No(why).status # "ok"
  BY DEF No
<1>4. Good(sessions', fresh', requests[n].kind, No(why))
  BY <1>1, <1>3, ForwardKeeps, NoTokenGood
<1>5. Answers(requests[n], No(why))
  BY <1>3, <1>4 DEF Answers
<1> QED
  BY <1>1, <1>2, <1>5 DEF Does

LEMMA InInterval ==
  ASSUME NEW f \in Nat, NEW g \in Nat, NEW k \in f .. g - 1
  PROVE  k \in Nat /\ f <= k /\ k < g
  OBVIOUS

\* A new session, and the answer that brings it.
LEMMA SignsInForward ==
  ASSUME ServerOK, NEW n, NEW row \in RowSet, NEW left, left \subseteq sessions,
         fresh' \in Nat, NEW token \in fresh .. fresh' - 1, SignsIn(n, row, left, token),
         NEW kind
  PROVE  /\ NewSessions
         /\ requests' = Answered(n, Yes(row, token))
         /\ Good(sessions', fresh', kind, Yes(row, token))
<1>0. fresh \in Nat
  BY DEF ServerOK, AccountsType
<1>1. sessions' = left \cup {Session(token, row)} /\ requests' = Answered(n, Yes(row, token))
  BY DEF SignsIn
<1>2. Session(token, row).token = token /\ Same(Session(token, row), Yes(row, token))
  BY DEF Session, Yes, Same
<1>3. \A s \in sessions' \ sessions : s = Session(token, row)
  BY <1>1
<1>4. NewSessions
  BY <1>2, <1>3 DEF NewSessions
<1>5. \A s \in sessions : s.token # token
  BY <1>0 DEF ServerOK, OneSessionEach
<1>6. Names(sessions', token, Yes(row, token))
  BY <1>2, <1>3, <1>5 DEF Names
<1>7. Yes(row, token).token = token /\ Yes(row, token).id \in Nat /\ Yes(row, token).born \in Nat
  BY DEF Yes, RowSet
<1>8. token \in Nat /\ token < fresh'
  BY <1>0, InInterval
<1>9. Old(fresh', token)
  BY <1>8 DEF Old
<1> QED
  BY <1>1, <1>4, <1>6, <1>7, <1>9 DEF Good

LEMMA ReadHashDoes == \A n : ServerOK /\ ReadHash(n) => Does(n)
<1> SUFFICES ASSUME NEW n, ServerOK, ReadHash(n) PROVE Does(n)
  OBVIOUS
<1>1. requests[n].answer = None /\ requests[n].kind = "login"
  BY DEF ReadHash, Open
<1>2. CASE Refuse(n, "wrong")
  BY <1>1, <1>2, RefuseDoes
<1>3. CASE \E x : requests' = [requests EXCEPT ![n].seen = x] /\ ServerStands
  <2>1. Forward
    BY <1>3, ServerStandsForward DEF ServerStands
  <2> QED
    BY <1>1, <1>3, <2>1 DEF Does, LetsIn
<1> QED
  BY <1>2, <1>3 DEF ReadHash, ServerStands

LEMMA OpenSessionDoes == \A n : ServerOK /\ OpenSession(n) => Does(n)
<1> SUFFICES ASSUME NEW n, ServerOK, OpenSession(n) PROVE Does(n)
  OBVIOUS
<1>1. requests[n].answer = None /\ requests[n].kind = "login"
  BY DEF OpenSession, Open
<1>2. CASE CheckedAgain(n) = {}
  BY <1>1, <1>2, RefuseDoes DEF OpenSession
<1>3. CASE CheckedAgain(n) # {}
  <2>1. PICK row \in CheckedAgain(n) : SignsIn(n, row, Unless(requests[n].cookie), fresh)
    BY <1>3 DEF OpenSession
  <2>2. fresh' = fresh + 1 /\ users' = users
    BY <1>3 DEF OpenSession
  <2>3. row \in RowSet
    BY RowsAreRows DEF CheckedAgain, RowOf, ServerOK
  <2>4. fresh \in Nat /\ fresh' \in Nat /\ fresh <= fresh' /\ fresh \in fresh .. fresh' - 1
    BY <2>2 DEF ServerOK, AccountsType
  <2>5. Unless(requests[n].cookie) \subseteq sessions
    BY DEF Unless
  <2>6. /\ NewSessions
        /\ requests' = Answered(n, Yes(row, fresh))
        /\ Good(sessions', fresh', requests[n].kind, Yes(row, fresh))
    BY <2>1, <2>3, <2>4, <2>5, SignsInForward
  <2>7. OneRowEach' /\ NewPasswords
    <3>1. Rows' = Rows
      BY <2>2 DEF Rows
    <3> QED
      BY <2>2, <3>1 DEF ServerOK, OneRowEach, NewPasswords, Same
  <2> QED
    BY <1>1, <2>4, <2>6, <2>7 DEF Does, Forward, Answers
<1> QED
  BY <1>2, <1>3

LEMMA RegisterDoes == \A n : ServerOK /\ Register(n) => Does(n)
<1> SUFFICES ASSUME NEW n, ServerOK, Register(n) PROVE Does(n)
  OBVIOUS
<1> DEFINE name == requests[n].name
<1>1. requests[n].answer = None /\ requests[n].kind = "register" /\ name \in Name
  BY DEF Register, Open
<1>2. CASE users[name] # None
  BY <1>1, <1>2, RefuseDoes DEF Register
<1>3. CASE users[name] = None
  <2>1. PICK id \in 1 .. fresh :
          /\ IsNewId(id)
          /\ users' = [users EXCEPT ![name] = Row(id, fresh, Batch(fresh), fresh)]
          /\ SignsIn(n, Row(id, fresh, Batch(fresh), fresh), Unless(requests[n].cookie), fresh + 1)
    BY <1>3 DEF Register
  <2> DEFINE row == Row(id, fresh, Batch(fresh), fresh)
  <2>2. fresh' = fresh + 2 /\ fresh \in Nat
    BY <1>3 DEF Register, ServerOK, AccountsType
  <2>3. row \in RowSet /\ row.id = id /\ row.pass = fresh
    BY <2>2, NewBatch DEF Row, RowSet
  <2>4. /\ fresh' \in Nat /\ fresh <= fresh'
        /\ fresh + 1 \in fresh .. fresh' - 1 /\ fresh \in fresh .. fresh' - 1
    BY <2>2
  <2>5. users' = [users EXCEPT ![name] = row]
        /\ SignsIn(n, row, Unless(requests[n].cookie), fresh + 1)
    BY <2>1
  <2>6. \A j \in Name : users[j] # None => users[j].id # id
    <3>1. \A j \in Name : users[j] # None => users[j] \in Rows /\ users[j] \in RowSet
      BY RowsAreRows DEF ServerOK
    <3>2. \A j \in Name : users[j] # None => users[j].id \in Nat /\ users[j].id < id
      BY <2>1, <3>1 DEF IsNewId, RowSet
    <3> QED
      BY <3>2
  <2> HIDE DEF name, row
  <2>7. OneRowEach' /\ NewPasswords
    BY <1>1, <2>3, <2>4, <2>5, <2>6, OneRowForward
  <2>8. Unless(requests[n].cookie) \subseteq sessions
    BY DEF Unless
  <2>9. /\ NewSessions
        /\ requests' = Answered(n, Yes(row, fresh + 1))
        /\ Good(sessions', fresh', requests[n].kind, Yes(row, fresh + 1))
    BY <2>3, <2>4, <2>5, <2>8, SignsInForward
  <2> QED
    BY <1>1, <2>4, <2>7, <2>9 DEF Does, Forward, Answers
<1> QED
  BY <1>2, <1>3

\* A row takes the place of another of the same account.
LEMMA SameAccount ==
  ASSUME ServerOK, fresh' \in Nat, fresh <= fresh',
         NEW name \in Name, users[name] # None, NEW row \in RowSet, row.id = users[name].id,
         users' = [users EXCEPT ![name] = row],
         \/ row.pass \in fresh .. fresh' - 1
         \/ Same(users[name], row) /\ row.pass = users[name].pass
  PROVE  OneRowEach' /\ NewPasswords
<1>1. users[name] \in Rows
  BY RowsAreRows DEF ServerOK
<1>2. \A j \in Name \ {name} : users[j] # None => users[j].id # row.id
  BY DEF ServerOK, OneRowEach
<1> QED
  BY <1>1, <1>2, OneRowForward

LEMMA RecoverDoes == \A n : ServerOK /\ Recover(n) => Does(n)
<1> SUFFICES ASSUME NEW n, ServerOK, Recover(n) PROVE Does(n)
  OBVIOUS
<1> DEFINE name == requests[n].name
           code == requests[n].code
           row == Used(users[name], code)
<1>1. requests[n].answer = None /\ requests[n].kind = "recover" /\ name \in Name
  BY DEF Recover, Open
<1>2. CASE users[name] = None
  BY <1>1, <1>2, RefuseDoes DEF Recover
<1>3. CASE users[name] # None /\ code \notin users[name].codes
  BY <1>1, <1>3, RefuseDoes DEF Recover
<1>4. CASE users[name] # None /\ code \in users[name].codes
  <2>1. /\ users' = [users EXCEPT ![name] = row]
        /\ SignsIn(n, row, OthersThan(row.id), fresh + 1)
        /\ fresh' = fresh + 2
    BY <1>4 DEF Recover
  <2>2. fresh \in Nat
    BY DEF ServerOK, AccountsType
  <2>3. row \in RowSet /\ row.id = users[name].id /\ row.pass = fresh
    BY <1>1, <1>4, <2>2 DEF Used, RowSet, ServerOK, AccountsType
  <2>4. /\ fresh' \in Nat /\ fresh <= fresh'
        /\ fresh + 1 \in fresh .. fresh' - 1 /\ fresh \in fresh .. fresh' - 1
    BY <2>1, <2>2
  <2> HIDE DEF name, row
  <2>5. OneRowEach' /\ NewPasswords
    BY <1>1, <1>4, <2>1, <2>3, <2>4, SameAccount
  <2>6. OthersThan(row.id) \subseteq sessions
    BY DEF OthersThan
  <2>7. /\ NewSessions
        /\ requests' = Answered(n, Yes(row, fresh + 1))
        /\ Good(sessions', fresh', requests[n].kind, Yes(row, fresh + 1))
    BY <2>1, <2>3, <2>4, <2>6, SignsInForward
  <2> QED
    BY <1>1, <2>4, <2>5, <2>7 DEF Does, Forward, Answers
<1> QED
  BY <1>2, <1>3, <1>4

LEMMA AdmitDoes == \A n : ServerOK /\ Admit(n) => Does(n)
<1> SUFFICES ASSUME NEW n, ServerOK, Admit(n) PROVE Does(n)
  OBVIOUS
<1> DEFINE q == requests[n]
           found == {s \in sessions : s.token = q.cookie /\ q.id \in {None, s.id}}
           row(s) == CHOOSE r \in RowOf(s.id) : TRUE
<1>1. q.answer = None
  BY DEF Admit, Open
<1>2. CASE found = {}
  BY <1>1, <1>2, RefuseDoes DEF Admit
<1>3. CASE found # {}
  <2>1. PICK s \in found :
          requests' = IF q.kind \in {"me", "get"} THEN Answered(n, Yes(row(s), None))
                      ELSE [requests EXCEPT ![n].seen = [id |-> s.id, born |-> s.born]]
    BY <1>3 DEF Admit
  <2>2. UNCHANGED <<users, sessions, fresh>>
    BY <1>3 DEF Admit
  <2>3. s \in sessions /\ s.token = q.cookie
    OBVIOUS
  <2>4. Forward
    BY <2>2, ServerStandsForward
  <2>5. CASE q.kind \in {"me", "get"}
    <3>1. row(s) \in RowSet /\ Same(row(s), s)
      BY <2>3, RowOfSession
    <3>2. requests' = Answered(n, Yes(row(s), None))
      BY <2>1, <2>5
    <3> HIDE DEF row
    <3>3. /\ Yes(row(s), None).token = None /\ Same(Yes(row(s), None), s)
          /\ Yes(row(s), None).id \in Nat /\ Yes(row(s), None).born \in Nat
      BY <3>1 DEF Yes, Same, RowSet
    <3>4. Good(sessions', fresh', q.kind, Yes(row(s), None))
      BY <2>4, <3>3, ForwardKeeps, NoTokenGood
    <3>5. Answers(q, Yes(row(s), None))
      BY <1>1, <2>3, <2>5, <3>3, <3>4 DEF Answers
    <3> QED
      BY <2>4, <3>2, <3>5 DEF Does
  <2>6. CASE q.kind \notin {"me", "get"}
    <3>1. requests' = [requests EXCEPT ![n].seen = [id |-> s.id, born |-> s.born]]
      BY <2>1, <2>6
    <3>2. Same([id |-> s.id, born |-> s.born], s)
      BY DEF Same
    <3>3. LetsIn(q, [id |-> s.id, born |-> s.born])
      BY <1>1, <2>3, <2>6, <3>2 DEF LetsIn
    <3> QED
      BY <2>4, <3>1, <3>3 DEF Does
  <2> QED
    BY <2>5, <2>6
<1> QED
  BY <1>2, <1>3

LEMMA RightRow ==
  ASSUME ServerOK, NEW n, NEW row \in Right(n)
  PROVE  /\ NameOf(row) \in Name /\ users[NameOf(row)] = row /\ row # None /\ row \in RowSet
         /\ row \in RowOf(requests[n].seen.id) /\ row.pass = requests[n].pass
<1>1. row \in Rows /\ row \in RowOf(requests[n].seen.id) /\ row.pass = requests[n].pass
  BY DEF Right, RowOf
<1> QED
  BY <1>1, NamedRow, RowsAreRows DEF ServerOK, Rows

LEMMA ChangePasswordDoes == \A n : ServerOK /\ ChangePassword(n) => Does(n)
<1> SUFFICES ASSUME NEW n, ServerOK, ChangePassword(n) PROVE Does(n)
  OBVIOUS
<1>1. requests[n].answer = None /\ requests[n].seen # None
  BY DEF ChangePassword, Proven, Open
<1>2. PICK old \in Right(n) :
        /\ users' = [users EXCEPT ![NameOf(old)] = [old EXCEPT !.pass = fresh]]
        /\ SignsIn(n, [old EXCEPT !.pass = fresh], OthersThan([old EXCEPT !.pass = fresh].id),
                   fresh + 1)
  BY DEF ChangePassword
<1> DEFINE row == [old EXCEPT !.pass = fresh]
<1>3. fresh' = fresh + 2 /\ fresh \in Nat
  BY DEF ChangePassword, ServerOK, AccountsType
<1>4. /\ NameOf(old) \in Name /\ users[NameOf(old)] = old /\ old # None /\ old \in RowSet
      /\ old \in RowOf(requests[n].seen.id) /\ old.pass = requests[n].pass
  BY RightRow
<1>5. row \in RowSet /\ row.id = old.id /\ row.pass = fresh /\ row.born = old.born
  BY <1>3, <1>4 DEF RowSet
<1>6. /\ fresh' \in Nat /\ fresh <= fresh'
      /\ fresh + 1 \in fresh .. fresh' - 1 /\ fresh \in fresh .. fresh' - 1
  BY <1>3
<1>7. users' = [users EXCEPT ![NameOf(old)] = row] /\ SignsIn(n, row, OthersThan(row.id), fresh + 1)
  BY <1>2
<1> HIDE DEF row
<1>8. OneRowEach' /\ NewPasswords
  BY <1>4, <1>5, <1>6, <1>7, SameAccount
<1>9. OthersThan(row.id) \subseteq sessions
  BY DEF OthersThan
<1>10. /\ NewSessions
       /\ requests' = Answered(n, Yes(row, fresh + 1))
       /\ Good(sessions', fresh', requests[n].kind, Yes(row, fresh + 1))
  BY <1>5, <1>6, <1>7, <1>9, SignsInForward
<1>11. Same(Yes(row, fresh + 1), old)
  BY <1>5 DEF Yes, Same
<1>12. requests[n].kind = "password"
  BY DEF ChangePassword, Proven, Open
<1>13. Answers(requests[n], Yes(row, fresh + 1))
  BY <1>1, <1>4, <1>10, <1>11, <1>12 DEF Answers
<1> QED
  BY <1>6, <1>8, <1>10, <1>13 DEF Does, Forward

LEMMA ReplaceCodesDoes == \A n : ServerOK /\ ReplaceCodes(n) => Does(n)
<1> SUFFICES ASSUME NEW n, ServerOK, ReplaceCodes(n) PROVE Does(n)
  OBVIOUS
<1>1. requests[n].answer = None /\ requests[n].kind = "codes"
  BY DEF ReplaceCodes, Proven, Open
<1>2. PICK old \in Right(n) :
        /\ users' = [users EXCEPT ![NameOf(old)].codes = Batch(fresh)]
        /\ requests' = Answered(n, Yes(old, None))
  BY DEF ReplaceCodes
<1>3. fresh' = fresh + 1 /\ fresh \in Nat /\ sessions' = sessions
  BY DEF ReplaceCodes, ServerOK, AccountsType
<1>4. NameOf(old) \in Name /\ users[NameOf(old)] = old /\ old # None /\ old \in RowSet
  BY RightRow
<1> DEFINE row == [old EXCEPT !.codes = Batch(fresh)]
<1>5. row \in RowSet /\ row.id = old.id /\ row.pass = old.pass /\ row.born = old.born
  BY <1>3, <1>4, NewBatch DEF RowSet
<1>6. users' = [users EXCEPT ![NameOf(old)] = row]
  BY <1>2, <1>4
<1>7. fresh' \in Nat /\ fresh <= fresh'
  BY <1>3
<1> HIDE DEF row
<1>8. Same(old, row)
  BY <1>5 DEF Same
<1>9. OneRowEach' /\ NewPasswords
  BY <1>4, <1>5, <1>6, <1>7, <1>8, SameAccount
<1>10. Forward
  BY <1>3, <1>7, <1>9 DEF Forward, NewSessions
<1>11. Yes(old, None).token = None /\ Yes(old, None).id \in Nat /\ Yes(old, None).born \in Nat
  BY <1>4 DEF Yes, RowSet
<1>12. Good(sessions', fresh', requests[n].kind, Yes(old, None))
  BY <1>10, <1>11, ForwardKeeps, NoTokenGood
<1> QED
  BY <1>1, <1>2, <1>10, <1>12 DEF Does, Answers

LEMMA RemoveAccountDoes == \A n : ServerOK /\ RemoveAccount(n) => Does(n)
<1> SUFFICES ASSUME NEW n, ServerOK, RemoveAccount(n) PROVE Does(n)
  OBVIOUS
<1>1. requests[n].answer = None /\ requests[n].kind = "delete"
  BY DEF RemoveAccount, Proven, Open
<1>2. PICK old \in Right(n) :
        /\ users' = [users EXCEPT ![NameOf(old)] = None]
        /\ sessions' = OthersThan(old.id)
        /\ requests' = Answered(n, Yes(old, None))
  BY DEF RemoveAccount
<1>3. fresh' \in Nat /\ fresh <= fresh'
  BY DEF RemoveAccount, ServerOK, AccountsType
<1>4. NameOf(old) \in Name /\ old \in RowSet
  BY RightRow
<1>5. OneRowEach' /\ NewPasswords
  BY <1>2, <1>3, <1>4, OneRowForward
<1>6. Forward
  BY <1>2, <1>3, <1>5 DEF Forward, NewSessions, OthersThan
<1>7. Yes(old, None).token = None /\ Yes(old, None).id \in Nat /\ Yes(old, None).born \in Nat
  BY <1>4 DEF Yes, RowSet
<1>8. Good(sessions', fresh', requests[n].kind, Yes(old, None))
  BY <1>6, <1>7, ForwardKeeps, NoTokenGood
<1> QED
  BY <1>1, <1>2, <1>6, <1>8 DEF Does, Answers

LEMMA EndSessionDoes == \A n : ServerOK /\ EndSession(n) => Does(n)
<1> SUFFICES ASSUME NEW n, ServerOK, EndSession(n) PROVE Does(n)
  OBVIOUS
<1> DEFINE answer == [No("ok") EXCEPT !.id = requests[n].seen.id]
<1>1. requests[n].answer = None /\ requests[n].kind = "logout"
  BY DEF EndSession, Proven, Open
<1>2. requests' = Answered(n, answer)
  BY DEF EndSession
<1>3. Forward
  BY ServerStandsForward DEF EndSession, Unless
<1>4. answer.token = None
  BY DEF No
<1> HIDE DEF answer
<1>5. Good(sessions', fresh', requests[n].kind, answer)
  BY <1>1, <1>3, <1>4, ForwardKeeps, NoTokenGood
<1> QED
  BY <1>1, <1>2, <1>3, <1>5 DEF Does, Answers

LEMMA WrongPasswordDoes == \A n : ServerOK /\ WrongPassword(n) => Does(n)
<1> SUFFICES ASSUME NEW n, ServerOK, WrongPassword(n) PROVE Does(n)
  OBVIOUS
<1>1. requests[n].answer = None
  BY DEF WrongPassword, Proven, Open
<1> QED
  BY <1>1, RefuseDoes DEF WrongPassword

LEMMA ServeDoes == \A n : ServerOK /\ Serve(n) => Does(n)
  BY ReadHashDoes, OpenSessionDoes, RegisterDoes, RecoverDoes, AdmitDoes, WrongPasswordDoes,
     ChangePasswordDoes, ReplaceCodesDoes, RemoveAccountDoes, EndSessionDoes
  DEF Serve

LEMMA StepForward == ServerOK /\ [AccountsNext]_accountVars => Forward
<1> SUFFICES ASSUME ServerOK, [AccountsNext]_accountVars PROVE Forward
  OBVIOUS
<1>1. CASE UNCHANGED <<users, fresh>> /\ sessions' \subseteq sessions
  BY <1>1, ServerStandsForward
<1>2. CASE \E n \in DOMAIN requests : Serve(n)
  BY <1>2, ServeDoes DEF Does
<1> QED
  BY <1>1, <1>2 DEF AccountsNext, SessionTimesOut, accountVars

LEMMA StepServer == ServerOK /\ [AccountsNext]_accountVars => ServerOK'
<1> SUFFICES ASSUME ServerOK, [AccountsNext]_accountVars PROVE ServerOK'
  OBVIOUS
<1>1. OneSessionEach' /\ OneRowEach' /\ OldPasswords'
  BY StepForward, ForwardKeeps
<1>2. AccountsType' /\ SessionsOfThisPassword'
  BY StepType, StepSessions DEF ServerOK
<1> QED
  BY <1>1, <1>2 DEF ServerOK

LEMMA InitServer == AccountsInit => ServerOK
<1> SUFFICES ASSUME AccountsInit PROVE ServerOK
  OBVIOUS
<1> DEFINE row == Row(1, 1, Batch(1), 1)
<1>1. AccountsType /\ SessionsOfThisPassword
  BY InitType, InitSessions
<1>2. users = [n \in Name |-> IF n = FirstName THEN row ELSE None] /\ row.pass = 1
  BY DEF AccountsInit, Row
<1>3. sessions = {Session(1, row), Session(2, row)} /\ fresh = 3
  BY DEF AccountsInit
<1>4. Session(1, row).token = 1 /\ Session(2, row).token = 2
      /\ Same(Session(1, row), Session(1, row)) /\ Same(Session(2, row), Session(2, row))
  BY DEF Session, Same
<1> HIDE DEF row
<1>5. OneSessionEach
  BY <1>3, <1>4 DEF OneSessionEach, Names
<1>6. OneRowEach
  BY <1>2 DEF OneRowEach
<1>7. OldPasswords
  BY <1>2, <1>3 DEF OldPasswords, Rows
<1> QED
  BY <1>1, <1>5, <1>6, <1>7 DEF ServerOK
=============================================================================
