------------------------ MODULE RevisionedWeeksProofs ------------------------
(***************************************************************************)
(* Within one era a revision names one body, for every set of weeks and    *)
(* bodies, and so no save replaces what it has not read.                   *)
(***************************************************************************)
EXTENDS RevisionedWeeks, TLAPS

\* What is stored now is a version, and the newest of its week in this era.
CurrentIsVersion == Versions(weeks, era) \subseteq history
NewestIsCurrent ==
  \A v \in history : /\ v.era <= era
                     /\ v.era = era => v.rev <= weeks[v.week].rev

RegisterInv == TypeOK /\ CurrentIsVersion /\ NewestIsCurrent /\ RevisionNamesBody

-----------------------------------------------------------------------------
LEMMA VersionsFields ==
  ASSUME NEW ws, NEW e, NEW v \in Versions(ws, e)
  PROVE  v.week \in Week /\ v.era = e /\ v.rev = ws[v.week].rev /\ v.body = ws[v.week].body
  BY DEF Versions

LEMMA VersionsTyped ==
  ASSUME NEW ws \in [Week -> Stored], NEW e \in Nat
  PROVE  Versions(ws, e) \subseteq [era : Nat, week : Week, rev : Nat, body : Body \cup {Empty}]
<1> SUFFICES ASSUME NEW w \in Week
    PROVE  [era |-> e, week |-> w, rev |-> ws[w].rev, body |-> ws[w].body]
             \in [era : Nat, week : Week, rev : Nat, body : Body \cup {Empty}]
  BY DEF Versions
<1> QED  BY DEF Stored

LEMMA SnapshotsTyped == Snapshots \subseteq [Week -> Stored]
  BY DEF Snapshots

LEMMA InitRegisterInv == Init => RegisterInv
<1> SUFFICES ASSUME Init PROVE RegisterInv
  OBVIOUS
<1> DEFINE none == [w \in Week |-> Nothing]
<1>1. weeks \in [Week -> Stored] /\ none \in [Week -> Stored] /\ era = 0
  BY SnapshotsTyped DEF Init, Nothing, Stored
<1>2. TypeOK
  BY <1>1, VersionsTyped DEF Init, TypeOK
<1>3. CurrentIsVersion
  BY <1>1 DEF Init, CurrentIsVersion
<1>4. ASSUME NEW v \in history
      PROVE  /\ v.week \in Week /\ v.era = 0
             /\ (v.rev = weeks[v.week].rev /\ v.body = weeks[v.week].body)
                \/ (v.rev = 0 /\ v.body = Empty)
  <2>1. CASE v \in Versions(weeks, 0)
    BY <2>1, VersionsFields
  <2>2. CASE v \in Versions(none, 0)
    <3>1. v.week \in Week /\ v.era = 0 /\ v.rev = none[v.week].rev /\ v.body = none[v.week].body
      BY <2>2, VersionsFields
    <3> QED  BY <3>1 DEF Nothing
  <2> QED  BY <2>1, <2>2 DEF Init
<1>5. NewestIsCurrent
  BY <1>1, <1>4 DEF NewestIsCurrent, Stored
<1>6. \A w \in Week : weeks[w].rev = 0 => weeks[w].body = Empty
  BY DEF Init, Snapshots, Nothing
<1>7. RevisionNamesBody
  BY <1>4, <1>6 DEF RevisionNamesBody
<1> QED  BY <1>2, <1>3, <1>5, <1>7 DEF RegisterInv

LEMMA SaveKeepsRegisterInv ==
  ASSUME RegisterInv, NEW S \in SUBSET Week, NEW read \in [S -> history], Save(S, read)
  PROVE  RegisterInv'
<1> USE DEF RegisterInv
<1>1. weeks' \in [Week -> Stored] /\ era' = era /\ era \in Nat
      /\ history' = history \cup Versions(weeks', era)
  BY DEF Save, TypeOK
<1>2. TypeOK'
  BY <1>1, VersionsTyped DEF TypeOK
<1>3. CurrentIsVersion'
  BY <1>1 DEF CurrentIsVersion, Versions
\* The revision of a week only grows, and grows where its body changes.
<1>4. ASSUME NEW w \in Week
      PROVE  /\ weeks[w].rev \in Nat /\ weeks'[w].rev \in Nat
             /\ weeks'[w] = weeks[w] \/ weeks'[w].rev = weeks[w].rev + 1
  BY <1>1 DEF Save, TypeOK, Stored
<1>5. ASSUME NEW v \in history'
      PROVE  v \in history
             \/ /\ v.week \in Week /\ v.era = era
                /\ v.rev = weeks[v.week].rev + 1
                /\ v.body = weeks'[v.week].body /\ v.rev = weeks'[v.week].rev
  <2>1. CASE v \in history
    BY <2>1
  <2>2. CASE v \in Versions(weeks', era)
    <3>1. PICK w \in Week :
            v = [era |-> era, week |-> w, rev |-> weeks'[w].rev, body |-> weeks'[w].body]
      BY <2>2 DEF Versions
    <3>2. CASE weeks'[w] = weeks[w]
      BY <3>1, <3>2 DEF CurrentIsVersion, Versions
    <3>3. CASE weeks'[w].rev = weeks[w].rev + 1
      BY <3>1, <3>3
    <3> QED  BY <3>2, <3>3, <1>4
  <2> QED  BY <2>1, <2>2, <1>1
<1>6. NewestIsCurrent'
  <2> SUFFICES ASSUME NEW v \in history'
      PROVE  v.era <= era /\ (v.era = era => v.rev <= weeks'[v.week].rev)
    BY <1>1 DEF NewestIsCurrent
  <2>1. CASE v \in history
    <3>1. v.week \in Week /\ v.rev \in Nat /\ v.era \in Nat
      BY <2>1 DEF TypeOK
    <3>2. weeks'[v.week].rev >= weeks[v.week].rev
      BY <3>1, <1>4
    <3> QED  BY <2>1, <3>1, <3>2, <1>4 DEF NewestIsCurrent
  <2>2. CASE v \notin history
    BY <2>2, <1>5, <1>4, <1>1
  <2> QED  BY <2>1, <2>2
<1>7. RevisionNamesBody'
  <2> SUFFICES ASSUME NEW u \in history', NEW v \in history',
                      u.era = v.era, u.week = v.week, u.rev = v.rev
      PROVE  u.body = v.body
    BY DEF RevisionNamesBody
  <2>1. ASSUME NEW old \in history, NEW new \in history', new \notin history,
               old.era = new.era, old.week = new.week, old.rev = new.rev
        PROVE  FALSE
    <3>1. new.week \in Week /\ new.era = era /\ new.rev = weeks[new.week].rev + 1
      BY <2>1, <1>5
    <3>2. old.rev <= weeks[new.week].rev
      BY <2>1, <3>1 DEF NewestIsCurrent
    <3> QED  BY <2>1, <3>1, <3>2, <1>4
  <2>2. CASE u \in history /\ v \in history
    BY <2>2 DEF RevisionNamesBody
  <2>3. CASE u \notin history /\ v \notin history
    BY <2>3, <1>5
  <2> QED  BY <2>1, <2>2, <2>3
<1> QED  BY <1>2, <1>3, <1>6, <1>7

LEMMA RestoreKeepsRegisterInv ==
  ASSUME RegisterInv, Restore
  PROVE  RegisterInv'
<1> USE DEF RegisterInv
<1>1. weeks' \in [Week -> Stored] /\ era' = era + 1 /\ era \in Nat
      /\ history' = history \cup Versions(weeks', era')
  BY SnapshotsTyped DEF Restore, TypeOK
<1>2. TypeOK'
  BY <1>1, VersionsTyped DEF TypeOK
<1>3. CurrentIsVersion'
  BY <1>1 DEF CurrentIsVersion
\* No version of the era that begins was stored before.
<1>4. \A v \in history : v.era \in Nat /\ v.era < era'
  BY <1>1 DEF NewestIsCurrent, TypeOK
<1>5. \A v \in history' \ history :
        /\ v.week \in Week /\ v.era = era'
        /\ v.rev = weeks'[v.week].rev /\ v.body = weeks'[v.week].body
  BY <1>1, VersionsFields
<1>6. NewestIsCurrent'
  <2> SUFFICES ASSUME NEW v \in history'
      PROVE  v.era <= era' /\ (v.era = era' => v.rev <= weeks'[v.week].rev)
    BY DEF NewestIsCurrent
  <2>1. CASE v \in history
    BY <2>1, <1>1, <1>4
  <2>2. CASE v \notin history
    BY <2>2, <1>1, <1>5 DEF Stored
  <2> QED  BY <2>1, <2>2
<1>7. RevisionNamesBody'
  <2> SUFFICES ASSUME NEW u \in history', NEW v \in history',
                      u.era = v.era, u.week = v.week, u.rev = v.rev
      PROVE  u.body = v.body
    BY DEF RevisionNamesBody
  <2>1. CASE u \in history /\ v \in history
    BY <2>1 DEF RevisionNamesBody
  <2>2. CASE u \notin history /\ v \notin history
    BY <2>2, <1>5
  <2>3. (u \in history) = (v \in history)
    BY <1>1, <1>4, <1>5
  <2> QED  BY <2>1, <2>2, <2>3
<1> QED  BY <1>2, <1>3, <1>6, <1>7

LEMMA StepKeepsRegisterInv == RegisterInv /\ [Next]_registerVars => RegisterInv'
<1> SUFFICES ASSUME RegisterInv, [Next]_registerVars PROVE RegisterInv'
  OBVIOUS
<1>1. ASSUME NEW S \in SUBSET Week, NEW read \in [S -> history], Save(S, read)
      PROVE  RegisterInv'
  BY <1>1, SaveKeepsRegisterInv
<1>2. CASE Restore
  BY <1>2, RestoreKeepsRegisterInv
<1>3. CASE UNCHANGED registerVars
  BY <1>3 DEF registerVars, RegisterInv, TypeOK, CurrentIsVersion, NewestIsCurrent,
              RevisionNamesBody, Versions
<1> QED  BY <1>1, <1>2, <1>3 DEF Next

LEMMA RegisterInvariant == Spec => []RegisterInv
<1> QED  BY InitRegisterInv, StepKeepsRegisterInv, PTL DEF Spec

\* Whatever saves and restores happen, a revision of a week names one body until
\* a snapshot is put back: the check POST /api/changes makes is enough.
THEOREM RevisionsNameBodies == Spec => []RevisionNamesBody
<1>1. RegisterInv => RevisionNamesBody
  BY DEF RegisterInv
<1> QED  BY <1>1, RegisterInvariant, PTL

\* No save that is accepted replaces a body other than the one it was made from,
\* unless that was read before a snapshot was put back.
THEOREM NoSaveIsStale == Spec => SavesReplaceWhatTheyRead
<1> DEFINE Fresh ==
      \A S \in SUBSET Week : \A read \in [S -> history] :
        (\A w \in S : read[w].era = era) /\ Save(S, read)
        => \A w \in S : read[w].body = weeks[w].body
<1>1. RegisterInv => Fresh
  <2> SUFFICES ASSUME RegisterInv, NEW S \in SUBSET Week, NEW read \in [S -> history],
                      \A w \in S : read[w].era = era, Save(S, read), NEW w \in S
      PROVE  read[w].body = weeks[w].body
    OBVIOUS
  <2> DEFINE now == [era |-> era, week |-> w, rev |-> weeks[w].rev, body |-> weeks[w].body]
  <2>1. now \in history
    BY DEF RegisterInv, CurrentIsVersion, Versions
  <2>2. read[w] \in history /\ read[w].era = era /\ read[w].week = w /\ read[w].rev = weeks[w].rev
    BY DEF Save
  <2> QED  BY <2>1, <2>2 DEF RegisterInv, RevisionNamesBody
<1>2. RegisterInv /\ [Next]_registerVars => [Fresh]_registerVars
  BY <1>1
<1> QED  BY <1>2, RegisterInvariant, PTL DEF Spec, SavesReplaceWhatTheyRead
=============================================================================
