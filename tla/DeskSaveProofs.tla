--------------------------- MODULE DeskSaveProofs ---------------------------
(***************************************************************************)
(* The desktop window's copy of the open week, for any weeks, blocks and   *)
(* bounds, whatever the student, the network and the others do.            *)
(*                                                                         *)
(* Three invariants.  DeskInv says what every copy of a week knows of the  *)
(* store: the version a copy, a write or a step of Undo was made from is   *)
(* one the store has held (`history'), and an answer is about the writes   *)
(* it answers.  EditsInv says where the student's work is: in the store,   *)
(* in a copy that is marked unsaved, or in a save on its way.  StepsInv    *)
(* says how the steps of Undo follow from each other and the week, and     *)
(* that every save moves the block from one week to another or leaves it.  *)
(* The store itself is RevisionedWeeks, whose invariant is proved in       *)
(* RevisionedWeeksProofs and used here through R.                          *)
(***************************************************************************)
EXTENDS DeskSave, TLAPS, SequenceTheorems, FiniteSetTheorems

R == INSTANCE RevisionedWeeksProofs WITH Body <- SUBSET Block, Empty <- {}

Ver(e, w, r, b) == [era |-> e, week |-> w, rev |-> r, body |-> b]

-----------------------------------------------------------------------------
(* H is the history, F says that an answer was filed under another step.   *)

\* A write: the version it was made from was stored.
WriteOK(wr, H, F) ==
  /\ DOMAIN wr = {"week", "body", "rev", "era", "base", "twice"}
  /\ wr.week \in Week /\ wr.body \in SUBSET Block /\ wr.rev \in Nat
  /\ F \/ Ver(wr.era, wr.week, wr.rev, wr.base) \in H

BatchOK(ws, H, F) ==
  /\ ws # {}
  /\ \A wr \in ws : WriteOK(wr, H, F)
  /\ \A x, y \in ws : x.week = y.week => x = y

EntryTyped(e) ==
  /\ DOMAIN e = {"before", "after", "rev", "era"}
  /\ e.before \in SUBSET Block /\ e.after \in SUBSET Block
  /\ e.rev \in Nat \cup {None}

StepTyped(s) ==
  /\ DOMAIN s = {"at", "stale"}
  /\ DOMAIN s.at \subseteq Week
  /\ s.at = [w \in DOMAIN s.at |-> s.at[w]]
  /\ \A w \in DOMAIN s.at : EntryTyped(s.at[w])

\* The revision a step knows of a week is that of what the step left there.
StepOK(s, side, H, F) ==
  /\ StepTyped(s)
  /\ \A w \in DOMAIN s.at :
       s.at[w].rev = None \/ F \/ Ver(s.at[w].era, w, s.at[w].rev, s.at[w][side]) \in H

IsSeq(s) == s \in Seq({s[i] : i \in DOMAIN s})
StepsOK(steps, side, H, F) ==
  /\ IsSeq(steps)
  /\ \A i \in 1 .. Len(steps) : StepOK(steps[i], side, H, F)

NewStep(s) == StepTyped(s) /\ \A w \in DOMAIN s.at : s.at[w].rev = None

Left(travel) == IF travel = "undo" THEN "after" ELSE "before"

DeskTyped(d) ==
  /\ DOMAIN d = {"in", "week", "body", "base", "rev", "era", "dirty", "conflict", "pending",
                 "undo", "redo", "step", "travel", "trip"}
  /\ d.week \in Week /\ d.body \in SUBSET Block /\ d.base \in SUBSET Block /\ d.rev \in Nat
  /\ d.in \in BOOLEAN /\ d.dirty \in BOOLEAN /\ d.conflict \in BOOLEAN
  /\ d.travel \in {None, "undo", "redo"}
  /\ d.travel = None => d.trip = None

DeskOK(d, H, F) ==
  /\ DeskTyped(d)
  /\ Ver(d.era, d.week, d.rev, d.base) \in H
  /\ d.pending = None \/ (DOMAIN d.pending = {"op", "writes", "stay"} /\ BatchOK(d.pending.writes, H, F))
  /\ StepsOK(d.undo, "after", H, F)
  /\ StepsOK(d.redo, "before", H, F)
  /\ d.step = None \/ NewStep(d.step)
  /\ d.travel = None \/ StepOK(d.trip, Left(d.travel), H, F)

\* Nothing unsaved is shown as saved, but for what was just given up.
ShowsBase(d, limbo) == d.dirty \/ d.week \in limbo \/ d.body = d.base

AnswerOK(a, ws, H) ==
  /\ a.stored \subseteq H
  /\ a.status \in {200, 409, 422}
  /\ \A v \in a.stored : \E wr \in ws : wr.week = v.week /\ wr.body = v.body
  /\ a.status = 200 => \A wr \in ws : \E v \in a.stored : v.week = wr.week

IsPost(c, H, F) ==
  /\ DOMAIN c = {"kind", "op", "writes", "to", "answer"}
  /\ c.kind = "post" /\ BatchOK(c.writes, H, F) /\ c.to \in Week \cup {None}
  /\ c.answer = None \/ AnswerOK(c.answer, c.writes, H)
IsLoad(c, H) ==
  /\ DOMAIN c = {"kind", "week", "data"}
  /\ c.kind = "load" /\ c.week \in Week
  /\ c.data = None \/ (c.data \in H /\ c.data.week = c.week)
IsMove(c, H) ==
  /\ DOMAIN c = {"kind", "use", "from", "to", "got", "week", "data"}
  /\ c.kind = "fetch" /\ c.use = "move"
  /\ c.week \in Week /\ c.from \in Week /\ c.to \in Week /\ c.from # c.to
  /\ c.got \subseteq H
  /\ c.data = None \/ (c.data \in H /\ c.data.week = c.week)
IsAdd(c, H) ==
  /\ DOMAIN c = {"kind", "use", "week", "block", "data"}
  /\ c.kind = "fetch" /\ c.use = "add" /\ c.week \in Week /\ c.block \in Block
  /\ c.data = None \/ (c.data \in H /\ c.data.week = c.week)
IsPreview(c) == DOMAIN c = {"kind", "data"} /\ c.kind = "preview"
IsRestore(c) == DOMAIN c = {"kind", "op", "token", "answer"} /\ c.kind = "restore"

CallOK(c, H, F) ==
  \/ c = Idle
  \/ IsLoad(c, H) \/ IsPost(c, H, F) \/ IsMove(c, H) \/ IsAdd(c, H) \/ IsPreview(c) \/ IsRestore(c)

\* What is remembered of a save is what it stored.
RecordOK(r, H) == "writes" \in DOMAIN r.ask => AnswerOK(r.answer, r.ask.writes, H)
LogOK(l, H) == IsSeq(l) /\ Len(l) <= KeepOps /\ \A i \in 1 .. Len(l) : RecordOK(l[i], H)

GhostTyped(g) ==
  /\ DOMAIN g = {"made", "exposed", "excused", "carried", "limbo", "torn", "misfiled"}
  /\ g.misfiled \in BOOLEAN /\ g.torn \in BOOLEAN

\* The week on screen, and those set aside.
CopiesOK(d, ds, limbo, H, F) ==
  /\ DeskOK(d, H, F)
  /\ ShowsBase(d, limbo)
  /\ ds = [w \in DOMAIN ds |-> ds[w]]
  /\ DOMAIN ds \subseteq Week
  /\ \A w \in DOMAIN ds :
       /\ DeskOK(ds[w], H, F)
       /\ ShowsBase(ds[w], limbo)
       /\ ds[w].week = w /\ ds[w].travel = None

SentOK(c, ss, H, F) == CallOK(c, H, F) /\ \A s \in ss : IsPost(s, H, F) \/ IsRestore(s)

WindowInv ==
  /\ GhostTyped(ghost)
  /\ LogOK(log, history)
  /\ Ver(0, FirstWeek, 0, {}) \in history
  /\ CopiesOK(desk, drafts, ghost.limbo, history, ghost.misfiled)
  /\ desk.week \notin DOMAIN drafts
  /\ SentOK(call, strays, history, ghost.misfiled)
  /\ waiting \in Dropped \cup {None}

DeskInv == R!RegisterInv /\ WindowInv

-----------------------------------------------------------------------------
(* The store: every run of a route is a step of RevisionedWeeks.           *)
Stored == R!Stored

LEMMA RegisterTyped ==
  ASSUME R!RegisterInv
  PROVE  /\ weeks \in [Week -> Stored]
         /\ era \in Nat
         /\ Versions(weeks, era) \subseteq history
         /\ \A v \in history : /\ v = Ver(v.era, v.week, v.rev, v.body)
                              /\ v.era \in Nat /\ v.week \in Week /\ v.rev \in Nat
                              /\ v.body \in SUBSET Block
  BY DEF R!RegisterInv, R!TypeOK, R!CurrentIsVersion, R!Versions, Versions, Stored, R!Stored, Ver

LEMMA VersionOfStored ==
  ASSUME R!RegisterInv, NEW w \in Week
  PROVE  VersionOf(w) \in history /\ VersionOf(w) = Ver(era, w, weeks[w].rev, weeks[w].body)
  BY RegisterTyped DEF Versions, VersionOf, Ver

\* What a batch that is accepted leaves in each week.
LEMMA BatchStored ==
  ASSUME R!RegisterInv, NEW ws, NEW F, BatchOK(ws, history, F), \A wr \in ws : Fits(wr)
  PROVE  /\ After(ws) \in [Week -> Stored]
         /\ \A w \in Week :
              \/ After(ws)[w] = weeks[w]
              \/ \E wr \in ws : /\ wr.week = w /\ wr.rev = weeks[w].rev
                               /\ wr.body # weeks[w].body
                               /\ After(ws)[w] = [body |-> wr.body, rev |-> weeks[w].rev + 1]
         /\ \A wr \in ws : After(ws)[wr.week].body = wr.body
<1>1. weeks \in [Week -> Stored]
  BY RegisterTyped
<1>2. ASSUME NEW w \in Week, \E wr \in ws : wr.week = w
      PROVE  \E wr \in ws : /\ wr.week = w
                            /\ After(ws)[w] = StoredBy(wr)
                            /\ WriteOK(wr, history, F) /\ Fits(wr)
  BY <1>2 DEF After, BatchOK
<1>3. ASSUME NEW wr \in ws
      PROVE  /\ wr.week \in Week /\ wr.body \in SUBSET Block
             /\ StoredBy(wr) \in Stored /\ StoredBy(wr).body = wr.body
             /\ \/ StoredBy(wr) = weeks[wr.week]
                \/ /\ wr.rev = weeks[wr.week].rev /\ wr.body # weeks[wr.week].body
                   /\ StoredBy(wr) = [body |-> wr.body, rev |-> weeks[wr.week].rev + 1]
  <2>1. wr.week \in Week /\ wr.body \in SUBSET Block /\ wr.rev \in Nat /\ Fits(wr)
    BY DEF BatchOK, WriteOK
  <2>2. weeks[wr.week] \in Stored
    BY <1>1, <2>1
  <2> QED  BY <2>1, <2>2 DEF StoredBy, Fits, Stored, R!Stored
<1>4. ASSUME NEW w \in Week
      PROVE  After(ws)[w] \in Stored
  BY <1>1, <1>2, <1>3 DEF After
<1>5. After(ws) \in [Week -> Stored]
  BY <1>4 DEF After
<1>6. ASSUME NEW w \in Week
      PROVE  \/ After(ws)[w] = weeks[w]
             \/ \E wr \in ws : /\ wr.week = w /\ wr.rev = weeks[w].rev
                              /\ wr.body # weeks[w].body
                              /\ After(ws)[w] = [body |-> wr.body, rev |-> weeks[w].rev + 1]
  <2>1. CASE \E wr \in ws : wr.week = w
    BY <2>1, <1>2, <1>3
  <2>2. CASE ~\E wr \in ws : wr.week = w
    BY <2>2 DEF After
  <2> QED  BY <2>1, <2>2
<1>7. ASSUME NEW wr \in ws
      PROVE  After(ws)[wr.week].body = wr.body
  <2>1. PICK x \in ws : x.week = wr.week /\ After(ws)[wr.week] = StoredBy(x)
    BY <1>2, <1>3
  <2>2. x = wr
    BY <2>1 DEF BatchOK
  <2> QED  BY <2>1, <2>2, <1>3
<1> QED  BY <1>5, <1>6, <1>7

LEMMA SaveIsRegister ==
  ASSUME R!RegisterInv, weeks' \in [Week -> Stored],
         \A w \in Week : weeks'[w] = weeks[w] \/ weeks'[w].rev = weeks[w].rev + 1,
         history' = history \cup Versions(weeks', era), era' = era
  PROVE  R!Next
<1> DEFINE S == {w \in Week : weeks'[w] # weeks[w]}
           read == [w \in S |-> VersionOf(w)]
<1>1. S \in SUBSET Week /\ read \in [S -> history]
  BY VersionOfStored
<1>2. \A w \in S : read[w].week = w /\ read[w].rev = weeks[w].rev
  BY DEF VersionOf
<1>3. \A w \in Week : IF w \in S THEN weeks'[w].rev = weeks[w].rev + 1 ELSE weeks'[w] = weeks[w]
  OBVIOUS
<1>4. Versions(weeks', era) = R!Versions(weeks', era)
  BY DEF Versions, R!Versions
<1>5. R!Save(S, read)
  BY <1>1, <1>2, <1>3, <1>4 DEF R!Save, Stored
<1> QED  BY <1>1, <1>5 DEF R!Next

LEMMA PostIsRegister ==
  ASSUME R!RegisterInv, NEW op, NEW ws, NEW F, BatchOK(ws, history, F), PostChanges(op, ws)
  PROVE  R!Next \/ UNCHANGED R!registerVars
<1>1. CASE Changes(op, ws).kind = "write"
  <2>1. \A wr \in ws : Fits(wr)
    BY <1>1 DEF Changes, Run
  <2>2. weeks' = After(ws) /\ history' = history \cup Versions(weeks', era) /\ era' = era
    BY <1>1 DEF PostChanges
  <2>3. weeks' \in [Week -> Stored]
    BY <2>1, <2>2, BatchStored
  <2>4. ASSUME NEW w \in Week
        PROVE  weeks'[w] = weeks[w] \/ weeks'[w].rev = weeks[w].rev + 1
    <3>1. \/ After(ws)[w] = weeks[w]
          \/ \E wr \in ws : After(ws)[w] = [body |-> wr.body, rev |-> weeks[w].rev + 1]
      BY <2>1, BatchStored
    <3>2. CASE weeks'[w] = weeks[w]
      BY <3>2
    <3>3. CASE weeks'[w] # weeks[w]
      <4>1. PICK wr \in ws : After(ws)[w] = [body |-> wr.body, rev |-> weeks[w].rev + 1]
        BY <3>1, <3>3, <2>2
      <4> QED  BY <4>1, <2>2
    <3> QED  BY <3>2, <3>3
  <2> QED  BY <2>2, <2>3, <2>4, SaveIsRegister
<1>2. CASE Changes(op, ws).kind # "write"
  BY <1>2 DEF PostChanges, routeVars, R!registerVars
<1> QED  BY <1>1, <1>2

LEMMA PointIsSnapshot == Point \in R!Snapshots
  BY RoutesAssumption DEF Point, R!Snapshots, R!Stored, R!Nothing, Nothing

LEMMA ReplaceIsRegister ==
  ASSUME ReplaceAccount
  PROVE  R!Next
  BY PointIsSnapshot DEF ReplaceAccount, R!Next, R!Restore, R!Versions, Versions

LEMMA RestoreIsRegister ==
  ASSUME NEW op, NEW token, PostRestore(op, token)
  PROVE  R!Next \/ UNCHANGED R!registerVars
  BY ReplaceIsRegister DEF PostRestore, routeVars, R!registerVars

LEMMA OthersIsRegister ==
  ASSUME R!RegisterInv, OtherSaves \/ OtherRestores
  PROVE  R!Next
<1>1. CASE OtherSaves
  <2>1. PICK w \in Week, x \in Theirs \ EverStored :
          /\ weeks' = [weeks EXCEPT ![w] = [body |-> @.body \cup {x}, rev |-> @.rev + 1]]
          /\ history' = history \cup Versions(weeks', era)
          /\ UNCHANGED era
    BY <1>1 DEF OtherSaves
  <2>2. weeks \in [Week -> Stored] /\ x \in Block
    BY RegisterTyped, RoutesAssumption
  <2>3. weeks[w] \in Stored
    BY <2>2
  <2>4. [body |-> weeks[w].body \cup {x}, rev |-> weeks[w].rev + 1] \in Stored
    BY <2>2, <2>3 DEF Stored, R!Stored
  <2>5. weeks' \in [Week -> Stored]
    BY <2>1, <2>2, <2>4
  <2>6. \A u \in Week : weeks'[u] = weeks[u] \/ weeks'[u].rev = weeks[u].rev + 1
    BY <2>1, <2>2
  <2> QED  BY <2>1, <2>5, <2>6, SaveIsRegister
<1>2. CASE OtherRestores
  BY <1>2, ReplaceIsRegister DEF OtherRestores
<1> QED  BY <1>1, <1>2

-----------------------------------------------------------------------------
(* Sequences of steps.                                                     *)

LEMMA SeqFacts ==
  ASSUME NEW s, IsSeq(s)
  PROVE  Len(s) \in Nat /\ DOMAIN s = 1 .. Len(s)
  BY LenProperties DEF IsSeq

LEMMA IsSeqOf ==
  ASSUME NEW S, NEW s \in Seq(S)
  PROVE  IsSeq(s)
<1>1. Len(s) \in Nat /\ DOMAIN s = 1 .. Len(s) /\ s \in [1 .. Len(s) -> S]
  BY LenProperties
<1>2. s \in [1 .. Len(s) -> {s[i] : i \in DOMAIN s}]
  BY <1>1
<1> QED  BY <1>1, <1>2, SeqDef DEF IsSeq

LEMMA AppendIs ==
  ASSUME NEW s, IsSeq(s), NEW e
  PROVE  /\ IsSeq(Append(s, e)) /\ Len(Append(s, e)) = Len(s) + 1
         /\ \A i \in 1 .. Len(s) : Append(s, e)[i] = s[i]
         /\ Append(s, e)[Len(s) + 1] = e
<1> DEFINE S == {s[i] : i \in DOMAIN s} \cup {e}
<1>1. s \in Seq(S) /\ e \in S
  BY SeqMonotonic DEF IsSeq
<1> HIDE DEF S
<1>2. Append(s, e) \in Seq(S) /\ Len(Append(s, e)) = Len(s) + 1
  BY <1>1
<1>3. \A i \in 1 .. Len(s) : Append(s, e)[i] = s[i]
  BY <1>1
<1>4. Append(s, e)[Len(s) + 1] = e
  BY <1>1
<1>5. IsSeq(Append(s, e))
  BY <1>2, IsSeqOf, Zenon
<1> QED  BY <1>2, <1>3, <1>4, <1>5

LEMMA PartIs ==
  ASSUME NEW s, IsSeq(s), NEW m \in 1 .. 2, NEW n \in 0 .. Len(s)
  PROVE  /\ IsSeq(SubSeq(s, m, n)) /\ Len(SubSeq(s, m, n)) <= n
         /\ Len(SubSeq(s, m, n)) \in Nat
         /\ m = 1 => Len(SubSeq(s, m, n)) = n
         /\ \A i \in 1 .. Len(SubSeq(s, m, n)) : SubSeq(s, m, n)[i] = s[m + i - 1] /\ m + i - 1 \in 1 .. Len(s)
<1> DEFINE S == {s[i] : i \in DOMAIN s}
<1>1. Len(s) \in Nat /\ DOMAIN s = 1 .. Len(s)
  BY SeqFacts
<1>2. \A i \in m .. n : s[i] \in S
  BY <1>1
<1> HIDE DEF S
<1>3. /\ SubSeq(s, m, n) \in Seq(S)
      /\ Len(SubSeq(s, m, n)) = IF m <= n THEN n - m + 1 ELSE 0
      /\ \A i \in 1 .. n - m + 1 : SubSeq(s, m, n)[i] = s[m + i - 1]
  BY <1>1, <1>2, SubSeqProperties
<1>4. IsSeq(SubSeq(s, m, n))
  BY <1>3, IsSeqOf, Zenon
<1>5. Len(SubSeq(s, m, n)) <= n /\ Len(SubSeq(s, m, n)) \in Nat /\ (m = 1 => Len(SubSeq(s, m, n)) = n)
  BY <1>1, <1>3
<1>6. ASSUME NEW i \in 1 .. Len(SubSeq(s, m, n))
      PROVE  SubSeq(s, m, n)[i] = s[m + i - 1] /\ m + i - 1 \in 1 .. Len(s)
  <2>1. i \in 1 .. n - m + 1 /\ m + i - 1 \in 1 .. Len(s)
    BY <1>1, <1>3
  <2> QED  BY <1>3, <2>1
<1> QED  BY <1>4, <1>5, <1>6

LEMMA TailIs ==
  ASSUME NEW s, IsSeq(s), s # <<>>
  PROVE  /\ IsSeq(Tail(s)) /\ Len(Tail(s)) = Len(s) - 1
         /\ \A i \in 1 .. Len(Tail(s)) : Tail(s)[i] = s[i + 1]
<1> DEFINE S == {s[i] : i \in DOMAIN s}
<1>1. s \in Seq(S)
  BY DEF IsSeq
<1> HIDE DEF S
<1>2. /\ Tail(s) \in Seq(S) /\ Len(Tail(s)) = Len(s) - 1
      /\ \A i \in 1 .. Len(Tail(s)) : Tail(s)[i] = s[i + 1]
  BY <1>1, HeadTailProperties, Zenon
<1> QED  BY <1>2, IsSeqOf, Zenon

LEMMA EmptyIs == IsSeq(<<>>) /\ Len(<<>>) = 0
<1>1. <<>> \in Seq({})
  BY EmptySeq
<1> QED  BY <1>1, IsSeqOf, EmptySeq

\* A set of places in a sequence has a last one: a smallest counterexample would
\* stay one without one of its elements.
LEMMA LastPlace ==
  ASSUME NEW n \in Nat, NEW S \in SUBSET (1 .. n), S # {}
  PROVE  Max(S) \in S /\ \A i \in S : i <= Max(S)
<1> DEFINE Top(T) == \E k \in T : \A i \in T : k >= i
           B == {T \in FiniteSubsetsOf(S) : T # {} /\ ~Top(T)}
<1>1. B = {}
  <2>1. SUFFICES ASSUME B # {} PROVE FALSE
    OBVIOUS
  <2>2. PICK T \in B : \A U \in B : <<U, T>> \notin StrictSubsetOrdering(S)
    <3>1. IsWellFoundedOn(StrictSubsetOrdering(S), FiniteSubsetsOf(S))
      BY FS_StrictSubsetOrderingWellFounded
    <3>2. B \subseteq FiniteSubsetsOf(S)
      OBVIOUS
    <3> HIDE DEF B
    <3> QED  BY <2>1, <3>1, <3>2, WFMin
  <2>3. T \in SUBSET S /\ IsFiniteSet(T) /\ T # {} /\ ~Top(T)
    BY DEF FiniteSubsetsOf
  <2>4. PICK x \in T : TRUE
    BY <2>3
  <2>5. T \ {x} = {} \/ Top(T \ {x})
    <3>1. IsFiniteSet(T \ {x})
      BY <2>3, FS_RemoveElement
    <3>2. <<T \ {x}, T>> \in StrictSubsetOrdering(S)
      BY <2>3 DEF StrictSubsetOrdering
    <3>3. T \ {x} \notin B
      BY <2>2, <3>2
    <3> QED  BY <2>3, <3>1, <3>3 DEF FiniteSubsetsOf
  <2>6. T \subseteq Nat
    BY <2>3
  <2>7. CASE T \ {x} = {}
    BY <2>3, <2>4, <2>6, <2>7
  <2>8. CASE Top(T \ {x})
    <3>1. PICK k \in T \ {x} : \A i \in T \ {x} : k >= i
      BY <2>8
    <3>2. k \in Nat /\ x \in Nat
      BY <2>4, <2>6
    <3>3. CASE k >= x
      BY <2>3, <3>1, <3>2, <3>3
    <3>4. CASE x >= k
      <4>1. \A i \in T : x >= i
        BY <2>6, <3>1, <3>2, <3>4
      <4> QED  BY <2>3, <4>1
    <3> QED  BY <3>2, <3>3, <3>4
  <2> QED  BY <2>5, <2>7, <2>8
<1>2. IsFiniteSet(S)
  <2>1. IsFiniteSet(1 .. n)
    BY FS_Interval
  <2> QED  BY <2>1, FS_Subset
<1>3. PICK k \in S : \A i \in S : k >= i
  BY <1>1, <1>2 DEF FiniteSubsetsOf
<1>4. Max(S) \in S /\ \A i \in S : Max(S) >= i
  BY <1>3 DEF Max
<1> QED  BY <1>4

-----------------------------------------------------------------------------
(* What holds of a history holds of a longer one; the log of the store.    *)

LEMMA StepMono ==
  ASSUME NEW s, NEW side, NEW H, NEW K, NEW F, NEW G, H \subseteq K, F => G,
         StepOK(s, side, H, F)
  PROVE  StepOK(s, side, K, G)
  BY DEF StepOK

LEMMA BatchMono ==
  ASSUME NEW ws, NEW H, NEW K, NEW F, NEW G, H \subseteq K, F => G, BatchOK(ws, H, F)
  PROVE  BatchOK(ws, K, G)
  BY DEF BatchOK, WriteOK

LEMMA StepsMono ==
  ASSUME NEW steps, NEW side, NEW H, NEW K, NEW F, NEW G, H \subseteq K, F => G,
         StepsOK(steps, side, H, F)
  PROVE  StepsOK(steps, side, K, G)
<1>1. ASSUME NEW i \in 1 .. Len(steps)
      PROVE  StepOK(steps[i], side, K, G)
  BY <1>1, StepMono DEF StepsOK
<1> QED  BY <1>1 DEF StepsOK

LEMMA DeskMono ==
  ASSUME NEW d, NEW H, NEW K, NEW F, NEW G, H \subseteq K, F => G, DeskOK(d, H, F)
  PROVE  DeskOK(d, K, G)
<1>1. d.pending = None \/ (DOMAIN d.pending = {"op", "writes", "stay"} /\ BatchOK(d.pending.writes, K, G))
  BY BatchMono DEF DeskOK
<1>2. StepsOK(d.undo, "after", K, G) /\ StepsOK(d.redo, "before", K, G)
  BY StepsMono DEF DeskOK
<1>3. d.travel = None \/ StepOK(d.trip, Left(d.travel), K, G)
  BY StepMono DEF DeskOK
<1>4. DeskTyped(d) /\ Ver(d.era, d.week, d.rev, d.base) \in K /\ (d.step = None \/ NewStep(d.step))
  BY DEF DeskOK
<1> QED  BY <1>1, <1>2, <1>3, <1>4 DEF DeskOK

LEMMA PostMono ==
  ASSUME NEW c, NEW H, NEW K, NEW F, NEW G, H \subseteq K, F => G, IsPost(c, H, F)
  PROVE  IsPost(c, K, G)
<1>1. BatchOK(c.writes, K, G)
  BY BatchMono DEF IsPost
<1> QED  BY <1>1 DEF IsPost, AnswerOK

LEMMA CallMono ==
  ASSUME NEW c, NEW H, NEW K, NEW F, NEW G, H \subseteq K, F => G, CallOK(c, H, F)
  PROVE  CallOK(c, K, G)
<1>1. IsPost(c, H, F) => IsPost(c, K, G)
  BY PostMono
<1>2. IsLoad(c, H) => IsLoad(c, K)
  BY DEF IsLoad
<1>3. IsMove(c, H) => IsMove(c, K)
  BY DEF IsMove
<1>4. IsAdd(c, H) => IsAdd(c, K)
  BY DEF IsAdd
<1> QED  BY <1>1, <1>2, <1>3, <1>4 DEF CallOK

-----------------------------------------------------------------------------
LEMMA RegisterStepGrows ==
  ASSUME R!RegisterInv, R!Next \/ UNCHANGED R!registerVars
  PROVE  R!RegisterInv' /\ history \subseteq history'
<1>1. [R!Next]_(R!registerVars)
  BY DEF R!registerVars
<1>2. R!RegisterInv'
  BY <1>1, R!StepKeepsRegisterInv
<1>3. history \subseteq history'
  BY DEF R!Next, R!Save, R!Restore, R!registerVars
<1> QED  BY <1>2, <1>3

LEMMA RecordMono ==
  ASSUME NEW r, NEW H, NEW K, H \subseteq K, RecordOK(r, H)
  PROVE  RecordOK(r, K)
  BY DEF RecordOK, AnswerOK

LEMMA RememberKeepsLog ==
  ASSUME NEW H, NEW K, H \subseteq K, LogOK(log, H), NEW op, NEW ask, NEW answer,
         RecordOK([op |-> op, ask |-> ask, answer |-> answer], K),
         log' = Remember(op, ask, answer) \/ log' = log
  PROVE  LogOK(log', K)
<1> DEFINE r == [op |-> op, ask |-> ask, answer |-> answer]
           longer == Append(log, r)
<1>1. /\ IsSeq(log) /\ Len(log) <= KeepOps /\ Len(log) \in Nat
      /\ \A i \in 1 .. Len(log) : RecordOK(log[i], K)
  BY SeqFacts, RecordMono DEF LogOK
<1>2. /\ IsSeq(longer) /\ Len(longer) = Len(log) + 1
      /\ \A i \in 1 .. Len(log) : longer[i] = log[i]
      /\ longer[Len(log) + 1] = r
  <2> HIDE DEF r
  <2> QED  BY <1>1, AppendIs, Zenon
<1>3. ASSUME NEW i \in 1 .. Len(longer)
      PROVE  RecordOK(longer[i], K)
  <2> HIDE DEF r, longer
  <2>1. RecordOK(r, K)
    BY DEF r
  <2>2. CASE i = Len(log) + 1
    BY <1>2, <2>1, <2>2
  <2>3. CASE i \in 1 .. Len(log)
    BY <1>1, <1>2, <2>3
  <2> QED  BY <1>1, <1>2, <2>2, <2>3
<1> HIDE DEF longer
<1>4. KeepOps \in Nat
  BY RoutesAssumption
<1>5. CASE log' = log
  BY <1>1, <1>5 DEF LogOK
<1>6. CASE log' = longer /\ Len(longer) <= KeepOps
  BY <1>2, <1>3, <1>6 DEF LogOK
<1>7. CASE log' = Tail(longer)
  <2>1. longer # <<>>
    BY <1>1, <1>2, EmptyIs
  <2>2. /\ IsSeq(Tail(longer)) /\ Len(Tail(longer)) = Len(longer) - 1
        /\ \A i \in 1 .. Len(Tail(longer)) : Tail(longer)[i] = longer[i + 1]
    BY <1>2, <2>1, TailIs
  <2>3. Len(Tail(longer)) = Len(log)
    BY <1>1, <1>2, <2>2
  <2>4. ASSUME NEW i \in 1 .. Len(log)
        PROVE  RecordOK(Tail(longer)[i], K)
    <3>1. i + 1 \in 1 .. Len(longer)
      BY <1>1, <1>2
    <3> QED  BY <1>3, <2>2, <2>3, <3>1
  <2> QED  BY <1>1, <1>7, <2>2, <2>3, <2>4 DEF LogOK
<1>8. log' = log \/ (log' = longer /\ Len(longer) <= KeepOps) \/ log' = Tail(longer)
  <2>1. Len(longer) > KeepOps \/ Len(longer) <= KeepOps
    BY <1>1, <1>2, <1>4
  <2> QED  BY <2>1 DEF Remember, longer
<1> QED  BY <1>5, <1>6, <1>7, <1>8

\* What a run of the changes route answers is what it stored, or had stored.
LEMMA PayloadAnswers ==
  ASSUME NEW a, NEW ws, NEW H
  PROVE  AnswerOK(a, Payload(ws).writes, H) <=> AnswerOK(a, ws, H)
<1> DEFINE P == {[week |-> wr.week, body |-> wr.body, rev |-> wr.rev] : wr \in ws}
<1>1. Payload(ws).writes = P
  BY DEF Payload
<1>2. \A p \in P : \E wr \in ws : p.week = wr.week /\ p.body = wr.body
  OBVIOUS
<1>3. ASSUME NEW wr \in ws
      PROVE  \E p \in P : p.week = wr.week /\ p.body = wr.body
  <2>1. [week |-> wr.week, body |-> wr.body, rev |-> wr.rev] \in P
    OBVIOUS
  <2> QED  BY <2>1
<1> HIDE DEF P
<1>4. ASSUME AnswerOK(a, P, H) PROVE AnswerOK(a, ws, H)
  <2>1. ASSUME NEW v \in a.stored PROVE \E wr \in ws : wr.week = v.week /\ wr.body = v.body
    BY <1>2, <1>4 DEF AnswerOK
  <2>2. ASSUME a.status = 200, NEW wr \in ws PROVE \E v \in a.stored : v.week = wr.week
    BY <1>3, <1>4, <2>2 DEF AnswerOK
  <2> QED  BY <1>4, <2>1, <2>2 DEF AnswerOK
<1>5. ASSUME AnswerOK(a, ws, H) PROVE AnswerOK(a, P, H)
  <2>1. ASSUME NEW v \in a.stored PROVE \E p \in P : p.week = v.week /\ p.body = v.body
    BY <1>3, <1>5 DEF AnswerOK
  <2>2. ASSUME a.status = 200, NEW p \in P PROVE \E v \in a.stored : v.week = p.week
    BY <1>2, <1>5, <2>2 DEF AnswerOK
  <2> QED  BY <1>5, <2>1, <2>2 DEF AnswerOK
<1> QED  BY <1>1, <1>4, <1>5

LEMMA RefusedOK == \A ws, H : AnswerOK(Refused, ws, H) /\ AnswerOK(Repeats, ws, H)
  BY DEF AnswerOK, Refused, Repeats

LEMMA ChangesAnswer ==
  ASSUME R!RegisterInv, LogOK(log, history), NEW op, NEW ws, NEW F, BatchOK(ws, history, F),
         PostChanges(op, ws)
  PROVE  /\ AnswerOK(Changes(op, ws).answer, ws, history')
         /\ LogOK(log', history')
<1> DEFINE answer == Changes(op, ws).answer
<1>0. history \subseteq history'
  BY PostIsRegister, RegisterStepGrows
<1>1. CASE Changes(op, ws).kind = "write"
  <2> DEFINE stored == {v \in Versions(After(ws), era) : \E wr \in ws : wr.week = v.week}
  <2>1. (\A wr \in ws : Fits(wr)) /\ answer = [status |-> 200, stored |-> stored]
    BY <1>1 DEF Changes, Run
  <2>2. weeks' = After(ws) /\ history' = history \cup Versions(weeks', era)
        /\ log' = Remember(op, Payload(ws), answer)
    BY <1>1 DEF PostChanges
  <2>3. stored \subseteq history'
    BY <2>2
  <2>4. ASSUME NEW v \in stored
        PROVE  \E wr \in ws : wr.week = v.week /\ wr.body = v.body
    <3>1. v.body = After(ws)[v.week].body
      BY DEF Versions
    <3>2. PICK wr \in ws : wr.week = v.week
      OBVIOUS
    <3> QED  BY <2>1, <3>1, <3>2, BatchStored
  <2>5. ASSUME NEW wr \in ws PROVE \E v \in stored : v.week = wr.week
    <3>1. wr.week \in Week
      BY DEF BatchOK, WriteOK
    <3> DEFINE v == [era |-> era, week |-> wr.week, rev |-> After(ws)[wr.week].rev,
                     body |-> After(ws)[wr.week].body]
    <3>2. v \in Versions(After(ws), era) /\ v.week = wr.week
      BY <3>1 DEF Versions
    <3> HIDE DEF v
    <3> QED  BY <3>2
  <2>6. AnswerOK(answer, ws, history')
    <3> HIDE DEF stored, answer
    <3> QED  BY <2>1, <2>3, <2>4, <2>5 DEF AnswerOK
  <2>7. RecordOK([op |-> op, ask |-> Payload(ws), answer |-> answer], history')
    <3> HIDE DEF answer
    <3> QED  BY <2>6, PayloadAnswers DEF RecordOK
  <2>8. LogOK(log', history')
    <3> HIDE DEF answer
    <3> QED  BY <1>0, <2>2, <2>7, RememberKeepsLog
  <2> QED  BY <2>6, <2>8
<1>2. CASE Changes(op, ws).kind # "write"
  <2>1. log' = log /\ history' = history
    BY <1>2 DEF PostChanges, routeVars
  <2>2. LogOK(log', history')
    BY <2>1, Zenon
  <2>3. AnswerOK(answer, ws, history')
    <3>1. CASE answer = Refused \/ answer = Repeats
      <4> HIDE DEF answer
      <4> QED  BY <3>1, RefusedOK, Zenon
    <3>2. CASE ~(answer = Refused \/ answer = Repeats)
      <4>1. PICK r \in Known(op) : answer = r.answer /\ r.ask = Payload(ws)
        BY <1>2, <3>2 DEF Changes, Run
      <4>2. PICK i \in DOMAIN log : r = log[i]
        BY DEF Known, ToSet
      <4>3. i \in 1 .. Len(log)
        BY <4>2, SeqFacts DEF LogOK
      <4>4. RecordOK(r, history')
        BY <4>2, <4>3, <2>1 DEF LogOK
      <4>5. "writes" \in DOMAIN r.ask
        BY <4>1 DEF Payload
      <4>6. AnswerOK(r.answer, Payload(ws).writes, history')
        BY <4>1, <4>4, <4>5 DEF RecordOK
      <4>7. AnswerOK(r.answer, ws, history')
        BY <4>6, PayloadAnswers, Zenon
      <4> HIDE DEF answer
      <4> QED  BY <4>1, <4>7
    <3> QED  BY <3>1, <3>2
  <2> QED  BY <2>2, <2>3
<1> QED  BY <1>1, <1>2

LEMMA RestoreLog ==
  ASSUME LogOK(log, history), NEW op, NEW token, PostRestore(op, token),
         history \subseteq history'
  PROVE  LogOK(log', history')
<1>1. RecordOK([op |-> op, ask |-> Confirmed(token), answer |-> [status |-> 200, stored |-> {}]], history')
  BY DEF RecordOK, Confirmed
<1>2. log' = Remember(op, Confirmed(token), [status |-> 200, stored |-> {}]) \/ log' = log
  BY DEF PostRestore, routeVars
<1> QED  BY <1>1, <1>2, RememberKeepsLog

LEMMA OthersLog ==
  ASSUME LogOK(log, history), OtherSaves \/ OtherRestores, history \subseteq history'
  PROVE  LogOK(log', history')
<1>1. RecordOK([op |-> None, ask |-> Payload({}), answer |-> Refused], history')
  BY RefusedOK DEF RecordOK
<1>2. log' = Remember(None, Payload({}), Refused)
  BY DEF OtherSaves, OtherRestores
<1> QED  BY <1>1, <1>2, RememberKeepsLog

-----------------------------------------------------------------------------
(* What a save says.                                                       *)

LEMMA OpenOK ==
  ASSUME NEW d, NEW H, NEW F, DeskOK(d, H, F), NEW body \in SUBSET Block
  PROVE  WriteOK(Open(d, body), H, F) /\ Open(d, body).week = d.week
  BY DEF DeskOK, DeskTyped, WriteOK, Open, Write

LEMMA TouchedOK ==
  ASSUME NEW d, NEW H, NEW F, DeskOK(d, H, F), NEW body \in SUBSET Block
  PROVE  /\ DeskOK(Touched(d, body), H, F)
         /\ Touched(d, body).dirty /\ Touched(d, body).week = d.week
<1>1. DeskTyped(Touched(d, body))
  BY DEF DeskOK, DeskTyped, Touched
<1> QED  BY <1>1 DEF DeskOK, DeskTyped, Touched

LEMMA TripWritesOK ==
  ASSUME NEW d, NEW H, NEW F, DeskOK(d, H, F), ~Unrevised(d)
  PROVE  /\ \A wr \in TripWrites(d) : WriteOK(wr, H, F) /\ wr.week # d.week
         /\ \A x, y \in TripWrites(d) : x.week = y.week => x = y
<1>1. CASE d.trip = None
  BY <1>1 DEF TripWrites
<1>2. CASE d.trip # None
  <2>1. d.travel # None /\ d.travel \in {"undo", "redo"} /\ StepOK(d.trip, Left(d.travel), H, F)
    BY <1>2 DEF DeskOK, DeskTyped
  <2> DEFINE wrt(w) == IF d.travel = "undo"
             THEN Write(w, d.trip.at[w].before, d.trip.at[w].rev, d.trip.at[w].era, d.trip.at[w].after)
             ELSE Write(w, d.trip.at[w].after, d.trip.at[w].rev, d.trip.at[w].era, d.trip.at[w].before)
  <2>2. ASSUME NEW w \in DOMAIN d.trip.at \ {d.week}
        PROVE  WriteOK(wrt(w), H, F) /\ wrt(w).week = w
    <3>1. EntryTyped(d.trip.at[w]) /\ w \in Week /\ d.trip.at[w].rev # None
      BY <2>1, <1>2 DEF StepOK, StepTyped, Unrevised
    <3>2. F \/ Ver(d.trip.at[w].era, w, d.trip.at[w].rev, d.trip.at[w][Left(d.travel)]) \in H
      BY <2>1, <3>1 DEF StepOK
    <3>3. CASE d.travel = "undo"
      BY <3>1, <3>2, <3>3 DEF Left, EntryTyped, Write, WriteOK
    <3>4. CASE d.travel = "redo"
      BY <3>1, <3>2, <3>4 DEF Left, EntryTyped, Write, WriteOK
    <3> QED  BY <2>1, <3>3, <3>4
  <2>3. TripWrites(d) = {wrt(w) : w \in DOMAIN d.trip.at \ {d.week}}
    BY <1>2 DEF TripWrites
  <2> HIDE DEF wrt
  <2> QED  BY <2>2, <2>3
<1> QED  BY <1>1, <1>2

LEMMA EntryIs ==
  ASSUME NEW b \in SUBSET Block, NEW a \in SUBSET Block
  PROVE  EntryTyped(Entry(b, a)) /\ Entry(b, a).rev = None
  BY DEF Entry, EntryTyped

LEMMA CaptureOK ==
  ASSUME NEW d, NEW H, NEW F, DeskOK(d, H, F)
  PROVE  Capture(d) = None \/ NewStep(Capture(d))
<1>1. d.week \in Week /\ d.body \in SUBSET Block /\ d.base \in SUBSET Block
  BY DEF DeskOK, DeskTyped
<1> DEFINE e == Entry(d.base, d.body)
<1>2. EntryTyped(e) /\ e.rev = None
  BY <1>1, EntryIs
<1> HIDE DEF e
<1>3. NewStep(Step([w \in {d.week} |-> e]))
  BY <1>1, <1>2 DEF NewStep, StepTyped, Step
<1> QED  BY <1>3 DEF Capture, e

LEMMA PreparedOK ==
  ASSUME NEW d, NEW H, NEW F, DeskOK(d, H, F),
         d.pending # None \/ ~Unrevised(d)
  PROVE  /\ DeskOK(Prepared(d), H, F)
         /\ Prepared(d).dirty = d.dirty /\ Prepared(d).week = d.week
         /\ Prepared(d).body = d.body /\ Prepared(d).base = d.base
         /\ DOMAIN Prepared(d).pending = {"op", "writes", "stay"}
         /\ BatchOK(Prepared(d).pending.writes, H, F)
<1>1. CASE d.pending # None /\ Prepared(d) = d
  BY <1>1 DEF DeskOK
<1>2. CASE d.pending = None
  <2> DEFINE ws == {Open(d, d.body)} \cup TripWrites(d)
             p == [op |-> nextOp, writes |-> ws, stay |-> TripWrites(d) # {}]
             s == IF d.travel = None THEN Capture(d) ELSE d.step
  <2>0. DeskTyped(d)
    BY DEF DeskOK
  <2>1. /\ \A wr \in TripWrites(d) : WriteOK(wr, H, F) /\ wr.week # d.week
        /\ \A x, y \in TripWrites(d) : x.week = y.week => x = y
    BY <1>2, TripWritesOK
  <2>2. WriteOK(Open(d, d.body), H, F) /\ Open(d, d.body).week = d.week
    BY <2>0, OpenOK DEF DeskTyped
  <2>3. BatchOK(ws, H, F)
    BY <2>1, <2>2 DEF BatchOK
  <2>4. s = None \/ NewStep(s)
    BY CaptureOK DEF DeskOK
  <2>5. Prepared(d) = [d EXCEPT !.pending = p, !.step = s]
    BY <1>2 DEF Prepared
  <2>6. DOMAIN p = {"op", "writes", "stay"} /\ p.writes = ws
    OBVIOUS
  <2> HIDE DEF ws, p, s
  <2> DEFINE e == [d EXCEPT !.pending = p, !.step = s]
  <2>7. DeskTyped(e)
    BY <2>0 DEF DeskTyped
  <2>8. /\ e.dirty = d.dirty /\ e.week = d.week /\ e.body = d.body /\ e.base = d.base
        /\ e.era = d.era /\ e.rev = d.rev /\ e.undo = d.undo /\ e.redo = d.redo
        /\ e.travel = d.travel /\ e.trip = d.trip /\ e.pending = p /\ e.step = s
    BY <2>0 DEF DeskTyped
  <2>9. DeskOK(e, H, F)
    <3> HIDE DEF e
    <3> QED  BY <2>3, <2>4, <2>6, <2>7, <2>8 DEF DeskOK
  <2> QED  BY <2>3, <2>5, <2>6, <2>8, <2>9
<1> QED  BY <1>1, <1>2 DEF Prepared

LEMMA PostOK ==
  ASSUME NEW d, NEW H, NEW F, DOMAIN d.pending = {"op", "writes", "stay"},
         BatchOK(d.pending.writes, H, F)
  PROVE  IsPost(Post(d), H, F)
<1> DEFINE written == {wr.week : wr \in d.pending.writes}
           to == IF d.week \in written \/ d.pending.stay THEN None
                 ELSE CHOOSE w \in written : TRUE
<1>1. written # {} /\ written \subseteq Week
  BY DEF BatchOK, WriteOK
<1>2. to \in Week \cup {None}
  <2> HIDE DEF written
  <2> QED  BY <1>1
<1>3. Post(d) = [kind |-> "post", op |-> d.pending.op, writes |-> d.pending.writes,
                 to |-> to, answer |-> None]
  BY DEF Post
<1> HIDE DEF to
<1> QED  BY <1>2, <1>3 DEF IsPost

LEMMA SavesOK ==
  ASSUME NEW d, NEW limbo, NEW H, NEW F, DeskOK(d, H, F), ShowsBase(d, limbo),
         CallOK(call, H, F), Saves(d)
  PROVE  /\ DeskOK(desk', H, F) /\ ShowsBase(desk', limbo) /\ desk'.week = d.week
         /\ CallOK(call', H, F)
<1>1. CASE d.conflict \/ (d.pending = None /\ Unrevised(d))
  BY <1>1 DEF Saves
<1>2. CASE ~(d.conflict \/ (d.pending = None /\ Unrevised(d)))
  <2>1. desk' = Prepared(d) /\ call' = Post(desk')
    BY <1>2 DEF Saves
  <2>2. /\ DeskOK(Prepared(d), H, F)
        /\ Prepared(d).dirty = d.dirty /\ Prepared(d).week = d.week
        /\ Prepared(d).body = d.body /\ Prepared(d).base = d.base
        /\ IsPost(Post(Prepared(d)), H, F)
    BY <1>2, PreparedOK, PostOK
  <2>3. ShowsBase(Prepared(d), limbo)
    BY <2>2 DEF ShowsBase
  <2> QED  BY <2>1, <2>2, <2>3 DEF CallOK
<1> QED  BY <1>1, <1>2

-----------------------------------------------------------------------------
(* Weeks set aside, and steps of Undo.                                     *)

LEMMA ParkedOK ==
  ASSUME NEW d, NEW ds, NEW limbo, NEW H, NEW F, CopiesOK(d, ds, limbo, H, F)
  PROVE  /\ CopiesOK(d, Parked(d, ds), limbo, H, F)
         /\ DOMAIN Parked(d, ds) \subseteq DOMAIN ds \cup {d.week}
<1> DEFINE aside == [d EXCEPT !.travel = None, !.trip = None]
           more == [w \in {d.week} \cup DOMAIN ds |-> IF w = d.week THEN aside ELSE ds[w]]
<1>1. DeskOK(d, H, F) /\ DeskTyped(d) /\ ShowsBase(d, limbo)
  BY DEF CopiesOK, DeskOK
<1>2. /\ aside.in = d.in /\ aside.week = d.week /\ aside.body = d.body /\ aside.base = d.base
      /\ aside.rev = d.rev /\ aside.era = d.era /\ aside.dirty = d.dirty
      /\ aside.conflict = d.conflict /\ aside.pending = d.pending /\ aside.undo = d.undo
      /\ aside.redo = d.redo /\ aside.step = d.step /\ aside.travel = None /\ aside.trip = None
      /\ DOMAIN aside = DOMAIN d
  BY <1>1 DEF DeskTyped
<1>3. Parked(d, ds) = more \/ Parked(d, ds) = ds
  BY DEF Parked
<1> HIDE DEF aside
<1>4. DeskTyped(aside)
  BY <1>1, <1>2 DEF DeskTyped
<1>5. DeskOK(aside, H, F)
  BY <1>1, <1>2, <1>4 DEF DeskOK
<1>6. ShowsBase(aside, limbo)
  BY <1>1, <1>2 DEF ShowsBase
<1>7. /\ ds = [w \in DOMAIN ds |-> ds[w]] /\ DOMAIN ds \subseteq Week /\ d.week \in Week
      /\ \A w \in DOMAIN ds : DeskOK(ds[w], H, F) /\ ShowsBase(ds[w], limbo)
                              /\ ds[w].week = w /\ ds[w].travel = None
  BY <1>1 DEF CopiesOK, DeskTyped
<1>8. /\ DOMAIN more = {d.week} \cup DOMAIN ds /\ more = [w \in DOMAIN more |-> more[w]]
      /\ \A w \in DOMAIN more : more[w] = IF w = d.week THEN aside ELSE ds[w]
  OBVIOUS
<1> HIDE DEF more
<1>9. CopiesOK(d, more, limbo, H, F)
  BY <1>1, <1>2, <1>5, <1>6, <1>7, <1>8 DEF CopiesOK
<1> QED  BY <1>3, <1>8, <1>9

LEMMA WithoutOK ==
  ASSUME NEW d, NEW ds, NEW limbo, NEW H, NEW F, CopiesOK(d, ds, limbo, H, F), NEW w
  PROVE  CopiesOK(d, Without(ds, w), limbo, H, F) /\ DOMAIN Without(ds, w) = DOMAIN ds \ {w}
  BY DEF CopiesOK, Without, Restrict

\* Reading a week, or finding it set aside, keeps the copies sound.
LEMMA LoadWeekOK ==
  ASSUME NEW d, NEW ds, NEW limbo, NEW H, NEW F, CopiesOK(d, ds, limbo, H, F),
         NEW w \in Week, NEW discard \in BOOLEAN, d.week \notin DOMAIN ds,
         LoadWeek(d, ds, w, discard)
  PROVE  /\ CopiesOK(desk', drafts', limbo, H, F)
         /\ desk'.week \notin DOMAIN drafts'
         /\ CallOK(call', H, F)
<1>1. CallOK(Idle, H, F) /\ CallOK(Load(w), H, F)
  BY DEF CallOK, IsLoad, Load
<1>2. CASE ~discard /\ w = d.week /\ Held(d)
  BY <1>1, <1>2 DEF LoadWeek
<1>3. CASE /\ ~discard /\ w # d.week /\ w \in DOMAIN ds /\ Held(ds[w])
           /\ ~(~discard /\ w = d.week /\ Held(d))
  <2> DEFINE e == [ds[w] EXCEPT !.travel = d.travel, !.trip = d.trip]
  <2>1. desk' = e /\ drafts' = Without(Parked(d, ds), w) /\ call' = Idle
    BY <1>3 DEF LoadWeek
  <2>2. DeskOK(ds[w], H, F) /\ ShowsBase(ds[w], limbo) /\ ds[w].week = w /\ DeskOK(d, H, F)
    BY <1>3 DEF CopiesOK
  <2>3. DeskTyped(ds[w]) /\ DeskTyped(d)
    BY <2>2 DEF DeskOK
  <2>4. /\ e.in = ds[w].in /\ e.week = ds[w].week /\ e.body = ds[w].body /\ e.base = ds[w].base
        /\ e.rev = ds[w].rev /\ e.era = ds[w].era /\ e.dirty = ds[w].dirty
        /\ e.conflict = ds[w].conflict /\ e.pending = ds[w].pending /\ e.undo = ds[w].undo
        /\ e.redo = ds[w].redo /\ e.step = ds[w].step /\ e.travel = d.travel /\ e.trip = d.trip
        /\ DOMAIN e = DOMAIN ds[w]
    BY <2>3 DEF DeskTyped
  <2> HIDE DEF e
  <2>5. DeskTyped(e)
    BY <2>3, <2>4 DEF DeskTyped
  <2>6. DeskOK(e, H, F)
    BY <2>2, <2>4, <2>5 DEF DeskOK
  <2>7. ShowsBase(e, limbo)
    BY <2>2, <2>4 DEF ShowsBase
  <2>8. CopiesOK(d, Without(Parked(d, ds), w), limbo, H, F)
        /\ DOMAIN Without(Parked(d, ds), w) = DOMAIN Parked(d, ds) \ {w}
    BY ParkedOK, WithoutOK
  <2>9. CopiesOK(e, Without(Parked(d, ds), w), limbo, H, F)
    BY <2>6, <2>7, <2>8 DEF CopiesOK
  <2> QED  BY <1>1, <2>1, <2>2, <2>4, <2>8, <2>9
<1>4. CASE /\ ~(~discard /\ w # d.week /\ w \in DOMAIN ds /\ Held(ds[w]))
           /\ ~(~discard /\ w = d.week /\ Held(d))
  <2>1. desk' = d /\ drafts' = (IF discard THEN Without(ds, w) ELSE ds) /\ call' = Load(w)
    BY <1>4 DEF LoadWeek
  <2>a. CopiesOK(d, Without(ds, w), limbo, H, F) /\ DOMAIN Without(ds, w) = DOMAIN ds \ {w}
    BY WithoutOK, Zenon
  <2>2. CopiesOK(d, drafts', limbo, H, F) /\ DOMAIN drafts' \subseteq DOMAIN ds
    <3>1. CASE drafts' = Without(ds, w)
      BY <2>a, <3>1
    <3>2. CASE drafts' = ds
      BY <3>2
    <3> QED  BY <2>1, <3>1, <3>2
  <2> QED  BY <1>1, <2>1, <2>2
<1> QED  BY <1>2, <1>3, <1>4

LEMMA MarkStaleOK ==
  ASSUME NEW steps, NEW side, NEW H, NEW F, StepsOK(steps, side, H, F), NEW w
  PROVE  StepsOK(MarkStale(steps, w), side, H, F)
<1> DEFINE new == MarkStale(steps, w)
<1>1. Len(steps) \in Nat /\ DOMAIN steps = 1 .. Len(steps) /\ IsSeq(steps)
  BY SeqFacts DEF StepsOK
<1>2. /\ new = [i \in 1 .. Len(steps) |-> new[i]]
      /\ \A i \in 1 .. Len(steps) :
           new[i] = IF w \in DOMAIN steps[i].at THEN [steps[i] EXCEPT !.stale = TRUE] ELSE steps[i]
  BY <1>1 DEF MarkStale
<1> HIDE DEF new
<1>3. new \in Seq({new[i] : i \in 1 .. Len(steps)})
  BY <1>1, <1>2, SeqDef
<1>4. IsSeq(new)
  BY <1>3, IsSeqOf
<1>5. Len(new) = Len(steps)
  BY <1>1, <1>2, <1>3, LenProperties
<1>6. ASSUME NEW i \in 1 .. Len(steps)
      PROVE  StepOK(new[i], side, H, F)
  <2>1. StepOK(steps[i], side, H, F)
    BY DEF StepsOK
  <2>2. DOMAIN steps[i] = {"at", "stale"}
    BY <2>1 DEF StepOK, StepTyped
  <2>3. new[i].at = steps[i].at /\ DOMAIN new[i] = DOMAIN steps[i]
    BY <1>2, <2>2
  <2> QED  BY <2>1, <2>3 DEF StepOK, StepTyped
<1> QED  BY <1>4, <1>5, <1>6 DEF StepsOK, new

\* The step Undo takes, and those that are left.
LEMMA LiveStepsOK ==
  ASSUME NEW steps, NEW side, NEW H, NEW F, StepsOK(steps, side, H, F), LiveSteps(steps) # <<>>
  PROVE  /\ StepOK(Last(LiveSteps(steps)), side, H, F)
         /\ StepsOK(Front(LiveSteps(steps)), side, H, F)
<1> DEFINE live == {i \in DOMAIN steps : ~steps[i].stale}
           kept == LiveSteps(steps)
           n == Len(kept)
<1>1. Len(steps) \in Nat /\ DOMAIN steps = 1 .. Len(steps) /\ IsSeq(steps)
  BY SeqFacts DEF StepsOK
<1>2. live # {} /\ kept = SubSeq(steps, 1, Max(live))
  BY DEF LiveSteps
<1>3. live \in SUBSET (1 .. Len(steps))
  BY <1>1
<1>4. Max(live) \in 1 .. Len(steps)
  <2> HIDE DEF live
  <2> QED  BY <1>1, <1>2, <1>3, LastPlace
<1> HIDE DEF live
<1>5. /\ IsSeq(kept) /\ n = Max(live)
      /\ \A i \in 1 .. n : kept[i] = steps[i]
  <2>1. 1 \in 1 .. 2 /\ Max(live) \in 0 .. Len(steps)
    BY <1>1, <1>4
  <2>2. /\ IsSeq(SubSeq(steps, 1, Max(live))) /\ Len(SubSeq(steps, 1, Max(live))) = Max(live)
        /\ \A i \in 1 .. Len(SubSeq(steps, 1, Max(live))) : SubSeq(steps, 1, Max(live))[i] = steps[1 + i - 1]
    BY <1>1, <2>1, PartIs
  <2>3. IsSeq(kept) /\ n = Max(live) /\ \A i \in 1 .. n : kept[i] = steps[1 + i - 1]
    BY <1>2, <2>2
  <2>4. \A i \in 1 .. n : 1 + i - 1 = i
    BY <1>4, <2>3
  <2> QED  BY <2>3, <2>4
<1> HIDE DEF kept
<1>6. n \in 1 .. Len(steps)
  BY <1>4, <1>5
<1> HIDE DEF n
<1>7. StepOK(Last(kept), side, H, F)
  <2>1. Last(kept) = kept[n] /\ kept[n] = steps[n]
    BY <1>1, <1>5, <1>6 DEF Last, n
  <2> QED  BY <1>6, <2>1 DEF StepsOK
<1>8. StepsOK(Front(kept), side, H, F)
  <2>1. n - 1 \in 0 .. n /\ 1 \in 1 .. 2 /\ n \in Nat
    BY <1>1, <1>6
  <2>2. Front(kept) = SubSeq(kept, 1, n - 1)
    BY DEF Front, n
  <2>3. /\ IsSeq(SubSeq(kept, 1, n - 1)) /\ Len(SubSeq(kept, 1, n - 1)) = n - 1
        /\ \A i \in 1 .. Len(SubSeq(kept, 1, n - 1)) : SubSeq(kept, 1, n - 1)[i] = kept[1 + i - 1]
    BY <1>5, <2>1, PartIs DEF n
  <2>4. ASSUME NEW i \in 1 .. n - 1
        PROVE  StepOK(SubSeq(kept, 1, n - 1)[i], side, H, F)
    <3>1. 1 + i - 1 = i /\ i \in 1 .. n /\ i \in 1 .. Len(steps)
      BY <1>1, <1>6
    <3>2. SubSeq(kept, 1, n - 1)[i] = steps[i]
      BY <1>5, <2>3, <3>1
    <3> QED  BY <3>1, <3>2 DEF StepsOK
  <2> QED  BY <2>2, <2>3, <2>4 DEF StepsOK
<1> QED  BY <1>7, <1>8 DEF kept

-----------------------------------------------------------------------------
(* The answer to a save.                                                   *)

\* A version that was stored, as a fact about its fields.
HistoryTyped(H) ==
  \A v \in H : /\ v = Ver(v.era, v.week, v.rev, v.body)
               /\ v.era \in Nat /\ v.week \in Week /\ v.rev \in Nat /\ v.body \in SUBSET Block

LEMMA StoredAsOK ==
  ASSUME NEW a, NEW ws, NEW H, HistoryTyped(H), AnswerOK(a, ws, H), NEW w \in Answered(a)
  PROVE  /\ StoredAs(a, w) \in a.stored /\ StoredAs(a, w) \in H /\ StoredAs(a, w).week = w
         /\ w \in Week /\ StoredAs(a, w).rev \in Nat /\ StoredAs(a, w).body \in SUBSET Block
         /\ Ver(StoredAs(a, w).era, w, StoredAs(a, w).rev, StoredAs(a, w).body) \in H
<1>1. \E v \in a.stored : v.week = w
  BY DEF Answered
<1>2. StoredAs(a, w) \in a.stored /\ StoredAs(a, w).week = w
  BY <1>1 DEF StoredAs
<1> DEFINE v == StoredAs(a, w)
<1> HIDE DEF v
<1>3. v \in H
  BY <1>2 DEF AnswerOK, v
<1>4. v = Ver(v.era, v.week, v.rev, v.body) /\ v.week \in Week /\ v.rev \in Nat /\ v.body \in SUBSET Block
  BY <1>3 DEF HistoryTyped
<1> QED  BY <1>2, <1>3, <1>4 DEF v

LEMMA ShownOK ==
  ASSUME NEW d, NEW a, NEW ws, NEW H, NEW F, HistoryTyped(H), AnswerOK(a, ws, H),
         DeskOK(d, H, F)
  PROVE  /\ DeskOK(Shown(d, a), H, F)
         /\ Shown(d, a).week = d.week
         /\ d.week \in Answered(a) => Shown(d, a).body = Shown(d, a).base
         /\ d.week \notin Answered(a) => Shown(d, a) = d
         /\ Shown(d, a).step = d.step /\ Shown(d, a).trip = d.trip /\ Shown(d, a).travel = d.travel
         /\ Shown(d, a).undo = d.undo /\ Shown(d, a).redo = d.redo
<1>1. CASE d.week \notin Answered(a)
  BY <1>1 DEF Shown
<1>2. CASE d.week \in Answered(a)
  <2> DEFINE v == StoredAs(a, d.week)
             e == [d EXCEPT !.body = v.body, !.base = v.body, !.rev = v.rev, !.era = v.era,
                            !.dirty = FALSE, !.conflict = FALSE]
  <2>1. Shown(d, a) = e
    BY <1>2 DEF Shown
  <2>2. v.rev \in Nat /\ v.body \in SUBSET Block /\ Ver(v.era, d.week, v.rev, v.body) \in H
    BY <1>2, StoredAsOK
  <2> HIDE DEF v
  <2>3. DeskTyped(d)
    BY DEF DeskOK
  <2>4. /\ e.in = d.in /\ e.week = d.week /\ e.body = v.body /\ e.base = v.body
        /\ e.rev = v.rev /\ e.era = v.era /\ e.dirty = FALSE
        /\ e.conflict = FALSE /\ e.pending = d.pending /\ e.undo = d.undo
        /\ e.redo = d.redo /\ e.step = d.step /\ e.travel = d.travel /\ e.trip = d.trip
        /\ DOMAIN e = DOMAIN d
    BY <2>3 DEF DeskTyped
  <2> HIDE DEF e
  <2>5. DeskTyped(e)
    BY <2>2, <2>3, <2>4 DEF DeskTyped
  <2>6. DeskOK(e, H, F)
    BY <2>2, <2>4, <2>5 DEF DeskOK
  <2> QED  BY <1>2, <2>1, <2>4, <2>6
<1> QED  BY <1>1, <1>2

\* The revisions of an answer belong to what the step made of the weeks, or the
\* answer is another save's.
Makes(s, side, ws) ==
  \A w \in DOMAIN s.at : \E wr \in ws : wr.week = w /\ wr.body = s.at[w][side]

LEMMA KeepRevisionsOK ==
  ASSUME NEW s, NEW a, NEW ws, NEW H, NEW F, NEW side \in {"before", "after"}, HistoryTyped(H),
         AnswerOK(a, ws, H), a.status = 200, BatchOK(ws, H, F), StepTyped(s), F \/ Makes(s, side, ws)
  PROVE  StepOK(KeepRevisions(s, a), side, H, F)
<1> DEFINE ans == Answered(a)
           v(w) == StoredAs(a, w)
           new(w) == IF w \in ans THEN [s.at[w] EXCEPT !.rev = v(w).rev, !.era = v(w).era] ELSE s.at[w]
           at == [w \in DOMAIN s.at |-> new(w)]
           t == KeepRevisions(s, a)
<1>1. DOMAIN s = {"at", "stale"} /\ DOMAIN s.at \subseteq Week
      /\ \A w \in DOMAIN s.at : EntryTyped(s.at[w])
  BY DEF StepTyped
<1>2. t = [s EXCEPT !.at = at]
  BY DEF KeepRevisions
<1>3. \A w \in ans : v(w) \in a.stored /\ v(w).week = w /\ v(w).rev \in Nat
                     /\ Ver(v(w).era, w, v(w).rev, v(w).body) \in H
  BY StoredAsOK
<1> HIDE DEF v, ans
<1>4. ASSUME NEW w \in DOMAIN s.at
      PROVE  /\ EntryTyped(new(w))
             /\ new(w).rev = None \/ F \/ Ver(new(w).era, w, new(w).rev, new(w)[side]) \in H
  <2>1. EntryTyped(s.at[w])
    BY <1>1
  <2>2. CASE w \in ans
    <3>1. /\ DOMAIN new(w) = {"before", "after", "rev", "era"}
          /\ new(w).before = s.at[w].before /\ new(w).after = s.at[w].after
          /\ new(w).rev = v(w).rev /\ new(w).era = v(w).era
      BY <2>1, <2>2 DEF EntryTyped
    <3>2. EntryTyped(new(w))
      BY <1>3, <2>1, <2>2, <3>1 DEF EntryTyped
    <3>3. CASE F
      BY <3>2, <3>3
    <3>4. CASE ~F
      <4>1. PICK wr \in ws : wr.week = w /\ wr.body = s.at[w][side]
        BY <3>4 DEF Makes
      <4>2. PICK x \in ws : x.week = v(w).week /\ x.body = v(w).body
        BY <1>3, <2>2 DEF AnswerOK
      <4>3. x = wr
        BY <1>3, <2>2, <4>1, <4>2 DEF BatchOK
      <4>4. v(w).body = s.at[w][side]
        BY <4>1, <4>2, <4>3
      <4>5. new(w)[side] = s.at[w][side]
        BY <3>1
      <4>6. Ver(new(w).era, w, new(w).rev, new(w)[side]) \in H
        BY <1>3, <2>2, <3>1, <4>4, <4>5
      <4> QED  BY <3>2, <4>6
    <3> QED  BY <3>3, <3>4
  <2>3. CASE w \notin ans
    <3>1. new(w) = s.at[w]
      BY <2>3
    <3>2. F
      <4>1. SUFFICES ASSUME ~F PROVE FALSE
        OBVIOUS
      <4>2. PICK wr \in ws : wr.week = w
        BY <4>1 DEF Makes
      <4>3. \E x \in a.stored : x.week = w
        BY <4>2 DEF AnswerOK
      <4> QED  BY <2>3, <4>3 DEF Answered, ans
    <3> QED  BY <2>1, <3>1, <3>2
  <2> QED  BY <2>2, <2>3
<1> HIDE DEF new
<1>5. /\ DOMAIN t = {"at", "stale"} /\ t.at = at
      /\ DOMAIN at = DOMAIN s.at /\ at = [w \in DOMAIN at |-> at[w]]
      /\ \A w \in DOMAIN at : at[w] = new(w)
  BY <1>1, <1>2
<1> HIDE DEF at, t
<1>6. StepTyped(t)
  BY <1>1, <1>4, <1>5 DEF StepTyped
<1>7. StepOK(t, side, H, F)
  BY <1>4, <1>5, <1>6 DEF StepOK
<1> QED  BY <1>7 DEF t

-----------------------------------------------------------------------------
(* Filing the step that was saved, and giving it up.                       *)

LEMMA NewStepKept ==
  ASSUME NEW s, NEW a, NEW ws, NEW H, NEW F, HistoryTyped(H), AnswerOK(a, ws, H), NewStep(s)
  PROVE  StepOK(KeepRevisions(KeepAfter(s, a), a), "after", H, F)
<1> DEFINE ans == Answered(a)
           v(w) == StoredAs(a, w)
           mid(w) == IF w \in ans THEN [s.at[w] EXCEPT !.after = v(w).body] ELSE s.at[w]
           new(w) == IF w \in ans THEN [mid(w) EXCEPT !.rev = v(w).rev, !.era = v(w).era] ELSE mid(w)
           m == KeepAfter(s, a)
           at == [w \in DOMAIN s.at |-> new(w)]
           t == KeepRevisions(m, a)
<1>1. DOMAIN s = {"at", "stale"} /\ DOMAIN s.at \subseteq Week
      /\ \A w \in DOMAIN s.at : EntryTyped(s.at[w]) /\ s.at[w].rev = None
  BY DEF NewStep, StepTyped
<1>2. \A w \in ans : v(w).rev \in Nat /\ v(w).body \in SUBSET Block
                     /\ Ver(v(w).era, w, v(w).rev, v(w).body) \in H
  BY StoredAsOK
<1>3. m = [s EXCEPT !.at = [w \in DOMAIN s.at |-> mid(w)]]
  BY DEF KeepAfter
<1> HIDE DEF mid
<1>4. /\ DOMAIN m = {"at", "stale"} /\ DOMAIN m.at = DOMAIN s.at
      /\ \A w \in DOMAIN s.at : m.at[w] = mid(w)
  BY <1>1, <1>3
<1> HIDE DEF m
<1>5. /\ DOMAIN t = {"at", "stale"} /\ DOMAIN t.at = DOMAIN s.at
      /\ t.at = [w \in DOMAIN s.at |-> t.at[w]]
      /\ \A w \in DOMAIN s.at : t.at[w] = new(w)
  BY <1>4 DEF KeepRevisions
<1> HIDE DEF v, ans
<1>6. ASSUME NEW w \in DOMAIN s.at
      PROVE  /\ EntryTyped(new(w))
             /\ new(w).rev = None \/ Ver(new(w).era, w, new(w).rev, new(w).after) \in H
  <2>1. EntryTyped(s.at[w]) /\ s.at[w].rev = None
    BY <1>1
  <2>2. CASE w \in ans
    <3>1. /\ DOMAIN mid(w) = {"before", "after", "rev", "era"}
          /\ mid(w).before = s.at[w].before /\ mid(w).after = v(w).body
      BY <2>1, <2>2 DEF EntryTyped, mid
    <3>2. /\ DOMAIN new(w) = {"before", "after", "rev", "era"}
          /\ new(w).before = s.at[w].before /\ new(w).after = v(w).body
          /\ new(w).rev = v(w).rev /\ new(w).era = v(w).era
      BY <2>2, <3>1
    <3>3. EntryTyped(new(w))
      BY <1>2, <2>1, <2>2, <3>2 DEF EntryTyped
    <3> QED  BY <1>2, <2>2, <3>2, <3>3
  <2>3. CASE w \notin ans
    BY <2>1, <2>3 DEF mid
  <2> QED  BY <2>2, <2>3
<1> HIDE DEF new, t
<1>7. StepTyped(t)
  BY <1>1, <1>5, <1>6 DEF StepTyped
<1>8. \A w \in DOMAIN t.at : t.at[w]["after"] = new(w).after /\ t.at[w] = new(w)
  BY <1>5
<1>9. StepOK(t, "after", H, F)
  BY <1>5, <1>6, <1>7, <1>8 DEF StepOK
<1> QED  BY <1>9 DEF t, m

LEMMA AppendStepOK ==
  ASSUME NEW steps, NEW s, NEW side, NEW H, NEW F, StepsOK(steps, side, H, F), StepOK(s, side, H, F)
  PROVE  StepsOK(Append(steps, s), side, H, F)
<1>1. IsSeq(steps) /\ Len(steps) \in Nat
  BY SeqFacts DEF StepsOK
<1>2. /\ IsSeq(Append(steps, s)) /\ Len(Append(steps, s)) = Len(steps) + 1
      /\ \A i \in 1 .. Len(steps) : Append(steps, s)[i] = steps[i]
      /\ Append(steps, s)[Len(steps) + 1] = s
  BY <1>1, AppendIs
<1>3. ASSUME NEW i \in 1 .. Len(steps) + 1
      PROVE  StepOK(Append(steps, s)[i], side, H, F)
  <2>1. CASE i = Len(steps) + 1
    BY <1>2, <2>1
  <2>2. CASE i \in 1 .. Len(steps)
    BY <1>2, <2>2 DEF StepsOK
  <2> QED  BY <1>1, <2>1, <2>2
<1> QED  BY <1>2, <1>3 DEF StepsOK

LEMMA NoStepsOK == \A side, H, F : StepsOK(<<>>, side, H, F)
  BY EmptyIs DEF StepsOK

LEMMA FiledOK ==
  ASSUME NEW d, NEW a, NEW ws, NEW H, NEW F, HistoryTyped(H), AnswerOK(a, ws, H), a.status = 200,
         BatchOK(ws, H, F), DeskOK(d, H, F),
         d.travel = None \/ F \/ Makes(d.trip, IF d.travel = "undo" THEN "before" ELSE "after", ws)
  PROVE  /\ DeskOK(Settled(Filed(d, a)), H, F)
         /\ Settled(Filed(d, a)).week = d.week /\ Settled(Filed(d, a)).dirty = d.dirty
         /\ Settled(Filed(d, a)).body = d.body /\ Settled(Filed(d, a)).base = d.base
<1> DEFINE trip == KeepRevisions(d.trip, a)
           step == KeepRevisions(KeepAfter(d.step, a), a)
           undo == Filed(d, a).undo
           redo == Filed(d, a).redo
           e == Settled(Filed(d, a))
<1>1. DeskTyped(d)
  BY DEF DeskOK
<1>2. d.travel = "undo" => StepOK(trip, "before", H, F)
  <2> SUFFICES ASSUME d.travel = "undo" PROVE StepOK(trip, "before", H, F)
    OBVIOUS
  <2>1. StepTyped(d.trip) /\ (F \/ Makes(d.trip, "before", ws))
    BY DeskAssumption DEF DeskOK, StepOK
  <2> QED  BY <2>1, KeepRevisionsOK
<1>3. d.travel = "redo" => StepOK(trip, "after", H, F)
  <2> SUFFICES ASSUME d.travel = "redo" PROVE StepOK(trip, "after", H, F)
    OBVIOUS
  <2>1. StepTyped(d.trip) /\ (F \/ Makes(d.trip, "after", ws))
    BY DeskAssumption DEF DeskOK, StepOK
  <2> QED  BY <2>1, KeepRevisionsOK
<1>4. d.step # None => StepOK(step, "after", H, F)
  BY NewStepKept DEF DeskOK
<1>5. StepsOK(d.undo, "after", H, F) /\ StepsOK(d.redo, "before", H, F)
  BY DEF DeskOK
<1> HIDE DEF trip, step
<1>6. \/ d.travel = "undo" /\ Filed(d, a) = [d EXCEPT !.redo = Append(@, trip)]
      \/ d.travel = "redo" /\ Filed(d, a) = [d EXCEPT !.undo = Append(@, trip)]
      \/ d.step # None /\ Filed(d, a) = [d EXCEPT !.undo = Append(@, step), !.redo = <<>>]
      \/ Filed(d, a) = d
  BY DEF Filed, trip, step
<1>7. StepsOK(Append(d.redo, trip), "before", H, F) \/ d.travel # "undo"
  BY <1>2, <1>5, AppendStepOK
<1>8. StepsOK(Append(d.undo, trip), "after", H, F) \/ d.travel # "redo"
  BY <1>3, <1>5, AppendStepOK
<1>9. StepsOK(Append(d.undo, step), "after", H, F) \/ d.step = None
  BY <1>4, <1>5, AppendStepOK
<1>10. /\ StepsOK(undo, "after", H, F) /\ StepsOK(redo, "before", H, F)
       /\ DOMAIN Filed(d, a) = DOMAIN d
       /\ Filed(d, a).in = d.in /\ Filed(d, a).week = d.week /\ Filed(d, a).body = d.body
       /\ Filed(d, a).base = d.base /\ Filed(d, a).rev = d.rev /\ Filed(d, a).era = d.era
       /\ Filed(d, a).dirty = d.dirty /\ Filed(d, a).conflict = d.conflict
  <2>1. CASE d.travel = "undo" /\ Filed(d, a) = [d EXCEPT !.redo = Append(@, trip)]
    BY <1>1, <1>5, <1>7, <2>1 DEF DeskTyped
  <2>2. CASE d.travel = "redo" /\ Filed(d, a) = [d EXCEPT !.undo = Append(@, trip)]
    BY <1>1, <1>5, <1>8, <2>2 DEF DeskTyped
  <2>3. CASE d.step # None /\ Filed(d, a) = [d EXCEPT !.undo = Append(@, step), !.redo = <<>>]
    <3>1. StepsOK(Append(d.undo, step), "after", H, F) /\ StepsOK(<<>>, "before", H, F)
      BY <1>9, <2>3, NoStepsOK
    <3> QED  BY <1>1, <2>3, <3>1 DEF DeskTyped
  <2>4. CASE Filed(d, a) = d
    BY <1>5, <2>4
  <2> QED  BY <1>6, <2>1, <2>2, <2>3, <2>4
<1>11. /\ DOMAIN e = DOMAIN d /\ e.in = d.in /\ e.week = d.week /\ e.body = d.body
       /\ e.base = d.base /\ e.rev = d.rev /\ e.era = d.era /\ e.dirty = d.dirty
       /\ e.conflict = d.conflict /\ e.pending = None /\ e.undo = undo /\ e.redo = redo
       /\ e.step = None /\ e.travel = None /\ e.trip = None
  BY <1>1, <1>10 DEF Settled, DeskTyped
<1> HIDE DEF e, undo, redo
<1>12. DeskTyped(e)
  BY <1>1, <1>11 DEF DeskTyped
<1>13. DeskOK(e, H, F)
  BY <1>10, <1>11, <1>12 DEF DeskOK
<1> QED  BY <1>11, <1>13 DEF e

LEMMA PutBackOK ==
  ASSUME NEW d, NEW H, NEW F, DeskOK(d, H, F)
  PROVE  /\ DeskOK(PutBack(d), H, F) /\ PutBack(d).travel = None
         /\ PutBack(d).week = d.week /\ PutBack(d).body = d.body /\ PutBack(d).base = d.base
         /\ PutBack(d).dirty = d.dirty
<1> DEFINE e == PutBack(d)
<1>1. DeskTyped(d) /\ StepsOK(d.undo, "after", H, F) /\ StepsOK(d.redo, "before", H, F)
  BY DEF DeskOK
<1>2. d.travel = "undo" => StepsOK(Append(d.undo, d.trip), "after", H, F)
  BY <1>1, DeskAssumption, AppendStepOK DEF DeskOK, Left
<1>3. d.travel = "redo" => StepsOK(Append(d.redo, d.trip), "before", H, F)
  BY <1>1, DeskAssumption, AppendStepOK DEF DeskOK, Left
<1>4. /\ DOMAIN e = DOMAIN d /\ e.in = d.in /\ e.week = d.week /\ e.body = d.body
      /\ e.base = d.base /\ e.rev = d.rev /\ e.era = d.era /\ e.dirty = d.dirty
      /\ e.conflict = d.conflict /\ e.pending = d.pending
      /\ e.step = d.step /\ e.travel = None /\ e.trip = None
      /\ StepsOK(e.undo, "after", H, F) /\ StepsOK(e.redo, "before", H, F)
  <2>1. CASE d.travel = "undo"
    BY <1>1, <1>2, <2>1 DEF PutBack, DeskTyped
  <2>2. CASE d.travel = "redo"
    BY <1>1, <1>3, <2>2 DEF PutBack, DeskTyped
  <2>3. CASE d.travel = None
    BY <1>1, <2>3, DeskAssumption DEF PutBack, DeskTyped
  <2> QED  BY <1>1, <2>1, <2>2, <2>3 DEF DeskTyped
<1> HIDE DEF e
<1>5. DeskTyped(e)
  BY <1>1, <1>4 DEF DeskTyped
<1>6. DeskOK(e, H, F)
  BY <1>4, <1>5 DEF DeskOK
<1> QED  BY <1>4, <1>6 DEF e

LEMMA SaveUnreachedOK ==
  ASSUME NEW d, NEW limbo, NEW H, NEW F, DeskOK(d, H, F), ShowsBase(d, limbo)
  PROVE  /\ DeskOK(SaveUnreached(d), H, F) /\ ShowsBase(SaveUnreached(d), limbo)
         /\ SaveUnreached(d).week = d.week
<1>1. CASE d.travel = None
  <2> DEFINE e == [d EXCEPT !.conflict = FALSE]
  <2>1. DeskTyped(d)
    BY DEF DeskOK
  <2>2. DeskOK(e, H, F) /\ e.body = d.body /\ e.base = d.base /\ e.dirty = d.dirty /\ e.week = d.week
    BY <2>1 DEF DeskOK, DeskTyped
  <2> HIDE DEF e
  <2>3. ShowsBase(e, limbo)
    BY <2>2 DEF ShowsBase
  <2> QED  BY <1>1, <2>2, <2>3 DEF SaveUnreached, e
<1>2. CASE d.travel # None
  <2> DEFINE b == PutBack(d)
             e == [b EXCEPT !.body = d.base, !.dirty = FALSE, !.pending = None, !.conflict = FALSE]
  <2>1. DeskOK(b, H, F) /\ DeskTyped(b) /\ b.base = d.base /\ b.week = d.week
    BY PutBackOK DEF DeskOK
  <2>2. d.base \in SUBSET Block
    BY DEF DeskOK, DeskTyped
  <2>3. SaveUnreached(d) = e
    BY <1>2 DEF SaveUnreached
  <2> HIDE DEF b
  <2>4. /\ DOMAIN e = DOMAIN b /\ e.in = b.in /\ e.week = b.week /\ e.body = b.base
        /\ e.base = b.base /\ e.rev = b.rev /\ e.era = b.era /\ e.dirty = FALSE
        /\ e.conflict = FALSE /\ e.pending = None /\ e.undo = b.undo /\ e.redo = b.redo
        /\ e.step = b.step /\ e.travel = b.travel /\ e.trip = b.trip
    BY <2>1 DEF DeskTyped
  <2> HIDE DEF e
  <2>5. DeskTyped(e)
    BY <2>1, <2>4 DEF DeskTyped
  <2>6. DeskOK(e, H, F)
    BY <2>1, <2>4, <2>5 DEF DeskOK
  <2>7. ShowsBase(e, limbo)
    BY <2>4 DEF ShowsBase
  <2> QED  BY <2>1, <2>3, <2>4, <2>6, <2>7
<1> QED  BY <1>1, <1>2

-----------------------------------------------------------------------------
(* DeskInv, action by action: reading a week.                              *)

LEMMA CopiesMono ==
  ASSUME NEW d, NEW ds, NEW limbo, NEW H, NEW K, NEW F, NEW G, H \subseteq K, F => G,
         CopiesOK(d, ds, limbo, H, F)
  PROVE  CopiesOK(d, ds, limbo, K, G)
<1>1. DeskOK(d, K, G)
  BY DeskMono DEF CopiesOK
<1>2. \A w \in DOMAIN ds : DeskOK(ds[w], K, G)
  BY DeskMono DEF CopiesOK
<1> QED  BY <1>1, <1>2 DEF CopiesOK

\* Another body of the same week on screen.
LEMMA CopiesFrom ==
  ASSUME NEW d, NEW ds, NEW limbo, NEW more, NEW H, NEW F, CopiesOK(d, ds, limbo, H, F),
         NEW e, DeskOK(e, H, F), ShowsBase(e, more),
         \A w \in DOMAIN ds : w \in limbo => w \in more
  PROVE  CopiesOK(e, ds, more, H, F)
<1>1. ASSUME NEW w \in DOMAIN ds
      PROVE  ShowsBase(ds[w], more)
  BY DEF CopiesOK, ShowsBase
<1> QED  BY <1>1 DEF CopiesOK

LEMMA WindowFacts ==
  ASSUME DeskInv
  PROVE  /\ HistoryTyped(history)
         /\ GhostTyped(ghost) /\ LogOK(log, history) /\ Ver(0, FirstWeek, 0, {}) \in history
         /\ CopiesOK(desk, drafts, ghost.limbo, history, ghost.misfiled)
         /\ DeskOK(desk, history, ghost.misfiled) /\ DeskTyped(desk)
         /\ ShowsBase(desk, ghost.limbo)
         /\ desk.week \notin DOMAIN drafts /\ desk.week \in Week
         /\ CallOK(call, history, ghost.misfiled)
         /\ \A s \in strays : IsPost(s, history, ghost.misfiled) \/ IsRestore(s)
         /\ waiting \in Dropped \cup {None}
<1>1. HistoryTyped(history)
  BY RegisterTyped DEF DeskInv, HistoryTyped
<1> QED  BY <1>1 DEF DeskInv, WindowInv, CopiesOK, SentOK, DeskOK, DeskTyped

LEMMA CallKinds ==
  ASSUME NEW c, NEW H, NEW F, CallOK(c, H, F)
  PROVE  /\ c.kind = "load" => IsLoad(c, H)
         /\ c.kind = "post" => IsPost(c, H, F)
         /\ c.kind = "fetch" /\ c.use = "move" => IsMove(c, H)
         /\ c.kind = "fetch" /\ c.use = "add" => IsAdd(c, H)
         /\ c.kind = "fetch" => IsMove(c, H) \/ IsAdd(c, H)
         /\ c.kind = "preview" => IsPreview(c)
         /\ c.kind = "restore" => IsRestore(c)
  BY DEF CallOK, Idle, IsLoad, IsPost, IsMove, IsAdd, IsPreview, IsRestore

LEMMA LeftBehindOK ==
  ASSUME DeskInv
  PROVE  \A s \in LeftBehind : IsPost(s, history, ghost.misfiled) \/ IsRestore(s)
<1>1. call.kind \in {"post", "restore"} => IsPost(call, history, ghost.misfiled) \/ IsRestore(call)
  BY WindowFacts, CallKinds
<1>2. LeftBehind = strays \/ (call.kind \in {"post", "restore"} /\ LeftBehind = strays \cup {call})
  BY DEF LeftBehind
<1> QED  BY <1>1, <1>2, WindowFacts

\* A step of the window: the store stays as it is.
LEMMA WindowStep ==
  ASSUME DeskInv, UNCHANGED routeVars, GhostTyped(ghost'), ghost'.misfiled = ghost.misfiled,
         CopiesOK(desk', drafts', ghost'.limbo, history, ghost.misfiled),
         desk'.week \notin DOMAIN drafts',
         CallOK(call', history, ghost.misfiled),
         strays' = strays \/ strays' = LeftBehind,
         waiting' \in Dropped \cup {None}
  PROVE  WindowInv'
<1>1. history' = history /\ log' = log
  BY DEF routeVars
<1>2. LogOK(log', history') /\ Ver(0, FirstWeek, 0, {}) \in history'
  BY <1>1, WindowFacts
<1>3. CopiesOK(desk', drafts', ghost'.limbo, history', ghost'.misfiled)
  BY <1>1, Zenon
<1>4. \A s \in strays' : IsPost(s, history, ghost.misfiled) \/ IsRestore(s)
  BY WindowFacts, LeftBehindOK
<1>5. SentOK(call', strays', history', ghost'.misfiled)
  BY <1>1, <1>4 DEF SentOK
<1> QED  BY <1>2, <1>3, <1>5 DEF WindowInv

-----------------------------------------------------------------------------
LEMMA LoadOkKeeps == ASSUME DeskInv, LoadOk PROVE WindowInv'
<1> DEFINE v == call.data
           other == v.week # desk.week
           kept(steps) == IF other THEN <<>>
                          ELSE IF v.rev # desk.rev THEN MarkStale(steps, v.week) ELSE steps
           ku == kept(desk.undo)
           kr == kept(desk.redo)
           e == [desk EXCEPT !.week = v.week, !.body = v.body, !.base = v.body,
                             !.rev = v.rev, !.era = v.era, !.dirty = FALSE,
                             !.conflict = FALSE, !.pending = None, !.step = None,
                             !.undo = ku, !.redo = kr]
           aside == IF other THEN Parked(desk, drafts) ELSE drafts
           H == history
           F == ghost.misfiled
<1>0. v \in H /\ v = Ver(v.era, v.week, v.rev, v.body) /\ v.week \in Week /\ v.rev \in Nat
      /\ v.body \in SUBSET Block
  BY WindowFacts, CallKinds DEF LoadOk, IsLoad, HistoryTyped
<1>1. /\ desk' = e /\ drafts' = Without(aside, v.week) /\ call' = Idle
      /\ ghost' = [ghost EXCEPT !.limbo = @ \ {v.week}, !.torn = @ \/ Mistaken(v)]
      /\ UNCHANGED <<routeVars, strays, waiting>>
  BY DEF LoadOk
<1>2. StepsOK(ku, "after", H, F) /\ StepsOK(kr, "before", H, F)
  <2>1. StepsOK(desk.undo, "after", H, F) /\ StepsOK(desk.redo, "before", H, F)
    BY WindowFacts DEF DeskOK
  <2>2. StepsOK(MarkStale(desk.undo, v.week), "after", H, F)
        /\ StepsOK(MarkStale(desk.redo, v.week), "before", H, F)
    BY <2>1, MarkStaleOK
  <2> QED  BY <2>1, <2>2, NoStepsOK
<1>3. DeskTyped(desk) /\ DeskOK(desk, H, F) /\ CopiesOK(desk, drafts, ghost.limbo, H, F)
  BY WindowFacts
<1>4. CopiesOK(desk, aside, ghost.limbo, H, F)
  BY <1>3, ParkedOK
<1> HIDE DEF v, ku, kr, aside
<1>5. /\ DOMAIN e = DOMAIN desk /\ e.in = desk.in /\ e.week = v.week /\ e.body = v.body
      /\ e.base = v.body /\ e.rev = v.rev /\ e.era = v.era /\ e.dirty = FALSE
      /\ e.conflict = FALSE /\ e.pending = None /\ e.undo = ku /\ e.redo = kr
      /\ e.step = None /\ e.travel = desk.travel /\ e.trip = desk.trip
  BY <1>3 DEF DeskTyped
<1> HIDE DEF e
<1>6. DeskTyped(e)
  BY <1>0, <1>3, <1>5 DEF DeskTyped
<1>7. DeskOK(e, H, F)
  BY <1>0, <1>2, <1>3, <1>5, <1>6 DEF DeskOK
<1>8. GhostTyped(ghost') /\ ghost'.misfiled = ghost.misfiled /\ ghost'.limbo = ghost.limbo \ {v.week}
  BY <1>1, WindowFacts DEF GhostTyped
<1>9. ShowsBase(e, ghost'.limbo)
  BY <1>5 DEF ShowsBase
<1>10. CopiesOK(desk, drafts', ghost.limbo, H, F) /\ DOMAIN drafts' = DOMAIN aside \ {v.week}
  BY <1>1, <1>4, WithoutOK
<1>11. CopiesOK(e, drafts', ghost'.limbo, H, F)
  BY <1>7, <1>8, <1>9, <1>10, CopiesFrom
<1>12. CallOK(call', H, F)
  BY <1>1 DEF CallOK
<1> QED  BY <1>1, <1>5, <1>8, <1>10, <1>11, <1>12, WindowFacts, WindowStep

LEMMA SwitchWeekKeeps == ASSUME DeskInv, SwitchWeek PROVE WindowInv'
<1>1. PICK w \in Week \ {desk.week} : LoadWeek(desk, drafts, w, FALSE)
  BY DEF SwitchWeek
<1>2. UNCHANGED <<routeVars, strays, waiting, ghost>>
  BY DEF SwitchWeek
<1>3. /\ CopiesOK(desk', drafts', ghost.limbo, history, ghost.misfiled)
      /\ desk'.week \notin DOMAIN drafts' /\ CallOK(call', history, ghost.misfiled)
  BY <1>1, WindowFacts, LoadWeekOK
<1> QED  BY <1>2, <1>3, WindowFacts, WindowStep

LEMMA ForgottenOK ==
  ASSUME NEW d, NEW H, NEW F, DeskOK(d, H, F)
  PROVE  LET e == [d EXCEPT !.dirty = FALSE, !.conflict = FALSE, !.pending = None]
         IN DeskOK(e, H, F) /\ e.week = d.week
<1> DEFINE e == [d EXCEPT !.dirty = FALSE, !.conflict = FALSE, !.pending = None]
<1>1. DeskTyped(d)
  BY DEF DeskOK
<1>2. /\ DOMAIN e = DOMAIN d /\ e.in = d.in /\ e.week = d.week /\ e.body = d.body
      /\ e.base = d.base /\ e.rev = d.rev /\ e.era = d.era /\ e.dirty = FALSE
      /\ e.conflict = FALSE /\ e.pending = None /\ e.undo = d.undo /\ e.redo = d.redo
      /\ e.step = d.step /\ e.travel = d.travel /\ e.trip = d.trip
  BY <1>1 DEF DeskTyped
<1> HIDE DEF e
<1>3. DeskTyped(e)
  BY <1>1, <1>2 DEF DeskTyped
<1>4. DeskOK(e, H, F)
  BY <1>2, <1>3 DEF DeskOK
<1> QED  BY <1>2, <1>4 DEF e

LEMMA ReloadKeeps == ASSUME DeskInv, Reload PROVE WindowInv'
<1> DEFINE e == [desk EXCEPT !.dirty = FALSE, !.conflict = FALSE, !.pending = None]
<1>1. LoadWeek(e, drafts, desk.week, TRUE) /\ UNCHANGED <<routeVars, strays, waiting>>
  BY DEF Reload
<1>2. ghost' = [ghost EXCEPT !.excused = @ \cup desk.body \cup Elsewhere(desk),
                             !.limbo = @ \cup {desk.week}]
  BY DEF Reload
<1>3. GhostTyped(ghost') /\ ghost'.misfiled = ghost.misfiled
      /\ ghost'.limbo = ghost.limbo \cup {desk.week}
  BY <1>2, WindowFacts DEF GhostTyped
<1>4. DeskOK(e, history, ghost.misfiled) /\ e.week = desk.week
  BY WindowFacts, ForgottenOK
<1> HIDE DEF e
<1>5. ShowsBase(e, ghost'.limbo)
  BY <1>3, <1>4 DEF ShowsBase
<1>6. CopiesOK(e, drafts, ghost'.limbo, history, ghost.misfiled)
  BY <1>3, <1>4, <1>5, WindowFacts, CopiesFrom
<1>7. e.week \notin DOMAIN drafts /\ desk.week \in Week
  BY <1>4, WindowFacts
<1>8. /\ CopiesOK(desk', drafts', ghost'.limbo, history, ghost.misfiled)
      /\ desk'.week \notin DOMAIN drafts' /\ CallOK(call', history, ghost.misfiled)
  BY <1>1, <1>6, <1>7, LoadWeekOK
<1> QED  BY <1>1, <1>3, <1>8, WindowFacts, WindowStep

LEMMA ConflictOK ==
  ASSUME NEW d, NEW limbo, NEW H, NEW F, DeskOK(d, H, F), ShowsBase(d, limbo)
  PROVE  LET e == [d EXCEPT !.conflict = TRUE]
         IN DeskOK(e, H, F) /\ ShowsBase(e, limbo) /\ e.week = d.week
<1> DEFINE e == [d EXCEPT !.conflict = TRUE]
<1>1. DeskTyped(d)
  BY DEF DeskOK
<1>2. /\ DOMAIN e = DOMAIN d /\ e.in = d.in /\ e.week = d.week /\ e.body = d.body
      /\ e.base = d.base /\ e.rev = d.rev /\ e.era = d.era /\ e.dirty = d.dirty
      /\ e.conflict = TRUE /\ e.pending = d.pending /\ e.undo = d.undo /\ e.redo = d.redo
      /\ e.step = d.step /\ e.travel = d.travel /\ e.trip = d.trip
  BY <1>1 DEF DeskTyped
<1> HIDE DEF e
<1>3. DeskTyped(e)
  BY <1>1, <1>2 DEF DeskTyped
<1>4. DeskOK(e, H, F)
  BY <1>2, <1>3 DEF DeskOK
<1>5. ShowsBase(e, limbo)
  BY <1>2 DEF ShowsBase
<1> QED  BY <1>2, <1>4, <1>5 DEF e

LEMMA AcceptRemoteWeekKeeps == ASSUME DeskInv, AcceptRemoteWeek PROVE WindowInv'
<1>1. UNCHANGED <<routeVars, strays, waiting, ghost>>
  BY DEF AcceptRemoteWeek
<1>2. CASE Held(desk)
  <2> DEFINE e == [desk EXCEPT !.conflict = TRUE]
  <2>1. desk' = e /\ drafts' = drafts /\ call' = call
    BY <1>2 DEF AcceptRemoteWeek
  <2>2. DeskOK(e, history, ghost.misfiled) /\ ShowsBase(e, ghost.limbo) /\ e.week = desk.week
    BY WindowFacts, ConflictOK
  <2> HIDE DEF e
  <2>3. CopiesOK(e, drafts, ghost.limbo, history, ghost.misfiled)
    BY <2>2, WindowFacts, CopiesFrom
  <2> QED  BY <1>1, <2>1, <2>2, <2>3, WindowFacts, WindowStep
<1>3. CASE ~Held(desk)
  <2>1. LoadWeek(desk, drafts, desk.week, TRUE)
    BY <1>3 DEF AcceptRemoteWeek
  <2>2. /\ CopiesOK(desk', drafts', ghost.limbo, history, ghost.misfiled)
        /\ desk'.week \notin DOMAIN drafts' /\ CallOK(call', history, ghost.misfiled)
    BY <2>1, WindowFacts, LoadWeekOK
  <2> QED  BY <1>1, <2>2, WindowFacts, WindowStep
<1> QED  BY <1>2, <1>3

-----------------------------------------------------------------------------
(* DeskInv: editing, undo and redo.                                        *)

LEMMA MadeTyped ==
  ASSUME GhostTyped(ghost), NEW b
  PROVE  GhostTyped(Made(b)) /\ Made(b).misfiled = ghost.misfiled /\ Made(b).limbo = ghost.limbo
  BY DEF GhostTyped, Made

\* An edit of the week on screen, saved at once or by the timer.
LEMMA EditedOK ==
  ASSUME DeskInv, NEW d, DeskOK(d, history, ghost.misfiled), ShowsBase(d, ghost.limbo),
         d.week = desk.week, Saves(d) \/ (desk' = d /\ call' = call), UNCHANGED drafts
  PROVE  /\ CopiesOK(desk', drafts', ghost.limbo, history, ghost.misfiled)
         /\ desk'.week \notin DOMAIN drafts' /\ CallOK(call', history, ghost.misfiled)
<1>1. /\ DeskOK(desk', history, ghost.misfiled) /\ ShowsBase(desk', ghost.limbo)
      /\ desk'.week = d.week /\ CallOK(call', history, ghost.misfiled)
  BY WindowFacts, SavesOK
<1>2. CopiesOK(desk', drafts, ghost.limbo, history, ghost.misfiled)
  BY <1>1, WindowFacts, CopiesFrom
<1> QED  BY <1>1, <1>2, WindowFacts

LEMMA TouchedShows ==
  ASSUME DeskInv, NEW body \in SUBSET Block
  PROVE  /\ DeskOK(Touched(desk, body), history, ghost.misfiled)
         /\ ShowsBase(Touched(desk, body), ghost.limbo) /\ Touched(desk, body).week = desk.week
  BY WindowFacts, TouchedOK DEF ShowsBase

LEMMA AddBlockKeeps == ASSUME DeskInv, AddBlock PROVE WindowInv'
<1>1. PICK b \in Typed : /\ LET d == Touched(desk, desk.body \cup {b})
                            IN IF Busy THEN desk' = d /\ UNCHANGED <<call, nextOp>> ELSE Saves(d)
                         /\ ghost' = Made(b)
  BY DEF AddBlock
<1> DEFINE d == Touched(desk, desk.body \cup {b})
<1>2. UNCHANGED <<routeVars, drafts, strays, waiting>>
  BY DEF AddBlock
<1>3. desk.body \cup {b} \in SUBSET Block
  BY WindowFacts, DeskAssumption DEF DeskTyped
<1>4. DeskOK(d, history, ghost.misfiled) /\ ShowsBase(d, ghost.limbo) /\ d.week = desk.week
  BY <1>3, TouchedShows
<1>5. Saves(d) \/ (desk' = d /\ call' = call)
  BY <1>1
<1> HIDE DEF d
<1>6. /\ CopiesOK(desk', drafts', ghost.limbo, history, ghost.misfiled)
      /\ desk'.week \notin DOMAIN drafts' /\ CallOK(call', history, ghost.misfiled)
  BY <1>2, <1>4, <1>5, EditedOK
<1>7. GhostTyped(ghost') /\ ghost'.misfiled = ghost.misfiled /\ ghost'.limbo = ghost.limbo
  BY <1>1, WindowFacts, MadeTyped
<1> QED  BY <1>2, <1>6, <1>7, WindowFacts, WindowStep

LEMMA PlaceOK ==
  ASSUME DeskInv, NEW b \in Block, Place(b), UNCHANGED drafts
  PROVE  /\ CopiesOK(desk', drafts', ghost'.limbo, history, ghost.misfiled)
         /\ desk'.week \notin DOMAIN drafts' /\ CallOK(call', history, ghost.misfiled)
         /\ GhostTyped(ghost') /\ ghost'.misfiled = ghost.misfiled
<1>1. CASE Movable \in desk.body
  <2> DEFINE d == Touched(desk, desk.body \cup {b})
  <2>1. Saves(d) /\ ghost' = Made(b)
    BY <1>1 DEF Place
  <2>2. desk.body \cup {b} \in SUBSET Block
    BY WindowFacts DEF DeskTyped
  <2>3. DeskOK(d, history, ghost.misfiled) /\ ShowsBase(d, ghost.limbo) /\ d.week = desk.week
    BY <2>2, TouchedShows
  <2> HIDE DEF d
  <2>4. /\ CopiesOK(desk', drafts', ghost.limbo, history, ghost.misfiled)
        /\ desk'.week \notin DOMAIN drafts' /\ CallOK(call', history, ghost.misfiled)
    BY <2>1, <2>3, EditedOK
  <2>5. GhostTyped(ghost') /\ ghost'.misfiled = ghost.misfiled /\ ghost'.limbo = ghost.limbo
    BY <2>1, WindowFacts, MadeTyped
  <2> QED  BY <2>4, <2>5
<1>2. CASE Movable \notin desk.body
  <2>1. ghost' = [ghost EXCEPT !.made = @ \cup {b}, !.excused = @ \cup {b}]
        /\ desk' = desk /\ call' = call
    BY <1>2 DEF Place
  <2>2. GhostTyped(ghost') /\ ghost'.misfiled = ghost.misfiled /\ ghost'.limbo = ghost.limbo
    BY <2>1, WindowFacts DEF GhostTyped
  <2> QED  BY <2>1, <2>2, WindowFacts
<1> QED  BY <1>1, <1>2

LEMMA PlaceBlockKeeps == ASSUME DeskInv, PlaceBlock PROVE WindowInv'
<1>1. PICK b \in Dropped :
         IF Busy
           THEN /\ waiting' = b
                /\ ghost' = [ghost EXCEPT !.made = @ \cup {b}, !.excused = @ \cup ({waiting} \ {None})]
                /\ UNCHANGED <<desk, call, nextOp>>
           ELSE Place(b) /\ UNCHANGED waiting
  BY DEF PlaceBlock
<1>2. UNCHANGED <<routeVars, drafts, strays>> /\ b \in Block
  BY DeskAssumption DEF PlaceBlock
<1>3. CASE Busy
  <2>1. GhostTyped(ghost') /\ ghost'.misfiled = ghost.misfiled /\ ghost'.limbo = ghost.limbo
    BY <1>1, <1>3, WindowFacts DEF GhostTyped
  <2> QED  BY <1>1, <1>2, <1>3, <2>1, WindowFacts, WindowStep
<1>4. CASE ~Busy
  <2>1. /\ CopiesOK(desk', drafts', ghost'.limbo, history, ghost.misfiled)
        /\ desk'.week \notin DOMAIN drafts' /\ CallOK(call', history, ghost.misfiled)
        /\ GhostTyped(ghost') /\ ghost'.misfiled = ghost.misfiled
    BY <1>1, <1>2, <1>4, PlaceOK
  <2> QED  BY <1>1, <1>2, <1>4, <2>1, WindowFacts, WindowStep
<1> QED  BY <1>3, <1>4

LEMMA ResumePlaceKeeps == ASSUME DeskInv, ResumePlace PROVE WindowInv'
<1>1. Place(waiting) /\ waiting' = None /\ waiting # None /\ UNCHANGED <<routeVars, drafts, strays>>
  BY DEF ResumePlace
<1>2. waiting \in Block
  BY <1>1, WindowFacts, DeskAssumption
<1>3. /\ CopiesOK(desk', drafts', ghost'.limbo, history, ghost.misfiled)
      /\ desk'.week \notin DOMAIN drafts' /\ CallOK(call', history, ghost.misfiled)
      /\ GhostTyped(ghost') /\ ghost'.misfiled = ghost.misfiled
  BY <1>1, <1>2, PlaceOK
<1> QED  BY <1>1, <1>3, WindowStep

LEMMA AutosaveKeeps == ASSUME DeskInv, Autosave PROVE WindowInv'
<1>1. Saves(desk) /\ UNCHANGED <<routeVars, drafts, strays, waiting, ghost>>
  BY DEF Autosave
<1>2. /\ CopiesOK(desk', drafts', ghost.limbo, history, ghost.misfiled)
      /\ desk'.week \notin DOMAIN drafts' /\ CallOK(call', history, ghost.misfiled)
  BY <1>1, WindowFacts, EditedOK
<1> QED  BY <1>1, <1>2, WindowFacts, WindowStep

\* What Undo and Redo make of the week on screen, before it is saved.
Travelled(d, body, undo, redo, travel, trip) ==
  [Touched(d, body) EXCEPT !.undo = undo, !.redo = redo, !.travel = travel, !.trip = trip]

TravelReady(d, body, undo, redo, travel, trip, H, F) ==
  /\ DeskOK(d, H, F) /\ body \in SUBSET Block
  /\ StepsOK(undo, "after", H, F) /\ StepsOK(redo, "before", H, F)
  /\ travel \in {"undo", "redo"} /\ StepOK(trip, Left(travel), H, F)

LEMMA TravelOK ==
  ASSUME NEW d, NEW body, NEW undo, NEW redo, NEW travel, NEW trip, NEW H, NEW F,
         TravelReady(d, body, undo, redo, travel, trip, H, F)
  PROVE  /\ DeskOK(Travelled(d, body, undo, redo, travel, trip), H, F)
         /\ Travelled(d, body, undo, redo, travel, trip).dirty
         /\ Travelled(d, body, undo, redo, travel, trip).week = d.week
<1> USE DEF TravelReady
<1> DEFINE b == Touched(d, body)
           e == Travelled(d, body, undo, redo, travel, trip)
<1>1. DeskOK(b, H, F) /\ DeskTyped(b) /\ b.dirty /\ b.week = d.week
  BY TouchedOK DEF DeskOK
<1> HIDE DEF b
<1>2. e = [b EXCEPT !.undo = undo, !.redo = redo, !.travel = travel, !.trip = trip]
  BY DEF b, Travelled
<1> HIDE DEF e
<1>3. /\ DOMAIN e = DOMAIN b /\ e.in = b.in /\ e.week = b.week /\ e.body = b.body
      /\ e.base = b.base /\ e.rev = b.rev /\ e.era = b.era /\ e.dirty = b.dirty
      /\ e.conflict = b.conflict /\ e.pending = b.pending /\ e.undo = undo /\ e.redo = redo
      /\ e.step = b.step /\ e.travel = travel /\ e.trip = trip
  BY <1>1, <1>2 DEF DeskTyped
<1>4. DeskTyped(e)
  BY <1>1, <1>3, DeskAssumption DEF DeskTyped
<1>5. DeskOK(e, H, F)
  BY <1>1, <1>3, <1>4 DEF DeskOK
<1> QED  BY <1>1, <1>3, <1>5 DEF e

LEMMA UndoKeeps == ASSUME DeskInv, Undo PROVE WindowInv'
<1> DEFINE steps == LiveSteps(desk.undo)
           trip == Last(steps)
           d == [Touched(desk, trip.at[desk.week].before) EXCEPT
                   !.undo = Front(steps), !.travel = "undo", !.trip = trip]
<1>1. Saves(d) /\ steps # <<>> /\ desk.week \in DOMAIN trip.at
      /\ UNCHANGED <<routeVars, drafts, strays, waiting, ghost>>
  BY DEF Undo, CanTravel
<1>2. StepsOK(desk.undo, "after", history, ghost.misfiled) /\ StepsOK(desk.redo, "before", history, ghost.misfiled)
      /\ DeskTyped(desk)
  BY WindowFacts DEF DeskOK
<1>3. StepOK(trip, "after", history, ghost.misfiled) /\ StepsOK(Front(steps), "after", history, ghost.misfiled)
  BY <1>1, <1>2, LiveStepsOK
<1>4. trip.at[desk.week].before \in SUBSET Block
  BY <1>1, <1>3 DEF StepOK, StepTyped, EntryTyped
<1> HIDE DEF steps, trip
<1>5. d = Travelled(desk, trip.at[desk.week].before, Front(steps), desk.redo, "undo", trip)
  BY <1>2 DEF Travelled, Touched, DeskTyped
<1> HIDE DEF d
<1>6. TravelReady(desk, trip.at[desk.week].before, Front(steps), desk.redo, "undo", trip,
                  history, ghost.misfiled)
  BY <1>2, <1>3, <1>4, WindowFacts DEF TravelReady, Left
<1>a. DeskOK(d, history, ghost.misfiled) /\ ShowsBase(d, ghost.limbo) /\ d.week = desk.week
  BY <1>5, <1>6, TravelOK DEF ShowsBase
<1>7. /\ CopiesOK(desk', drafts', ghost.limbo, history, ghost.misfiled)
      /\ desk'.week \notin DOMAIN drafts' /\ CallOK(call', history, ghost.misfiled)
  BY <1>1, <1>a, EditedOK
<1> QED  BY <1>1, <1>7, WindowFacts, WindowStep

LEMMA RedoKeeps == ASSUME DeskInv, Redo PROVE WindowInv'
<1> DEFINE steps == LiveSteps(desk.redo)
           trip == Last(steps)
           d == [Touched(desk, trip.at[desk.week].after) EXCEPT
                   !.redo = Front(steps), !.travel = "redo", !.trip = trip]
<1>1. Saves(d) /\ steps # <<>> /\ desk.week \in DOMAIN trip.at
      /\ UNCHANGED <<routeVars, drafts, strays, waiting, ghost>>
  BY DEF Redo, CanTravel
<1>2. StepsOK(desk.undo, "after", history, ghost.misfiled) /\ StepsOK(desk.redo, "before", history, ghost.misfiled)
      /\ DeskTyped(desk)
  BY WindowFacts DEF DeskOK
<1>3. StepOK(trip, "before", history, ghost.misfiled) /\ StepsOK(Front(steps), "before", history, ghost.misfiled)
  BY <1>1, <1>2, LiveStepsOK
<1>4. trip.at[desk.week].after \in SUBSET Block
  BY <1>1, <1>3 DEF StepOK, StepTyped, EntryTyped
<1> HIDE DEF steps, trip
<1>5. d = Travelled(desk, trip.at[desk.week].after, desk.undo, Front(steps), "redo", trip)
  BY <1>2 DEF Travelled, Touched, DeskTyped
<1> HIDE DEF d
<1>6. TravelReady(desk, trip.at[desk.week].after, desk.undo, Front(steps), "redo", trip,
                  history, ghost.misfiled)
  BY <1>2, <1>3, <1>4, WindowFacts DEF TravelReady, Left
<1>a. DeskOK(d, history, ghost.misfiled) /\ ShowsBase(d, ghost.limbo) /\ d.week = desk.week
  BY <1>5, <1>6, TravelOK DEF ShowsBase
<1>7. /\ CopiesOK(desk', drafts', ghost.limbo, history, ghost.misfiled)
      /\ desk'.week \notin DOMAIN drafts' /\ CallOK(call', history, ghost.misfiled)
  BY <1>1, <1>a, EditedOK
<1> QED  BY <1>1, <1>7, WindowFacts, WindowStep

-----------------------------------------------------------------------------
(* DeskInv: work that concerns two weeks.                                  *)

Pended(d, s, p) == [d EXCEPT !.step = s, !.pending = p]

LEMMA PendingOK ==
  ASSUME NEW d, NEW limbo, NEW H, NEW F, DeskOK(d, H, F), ShowsBase(d, limbo), NEW p,
         DOMAIN p = {"op", "writes", "stay"}, BatchOK(p.writes, H, F),
         NEW s, s = None \/ NewStep(s)
  PROVE  /\ DeskOK(Pended(d, s, p), H, F) /\ ShowsBase(Pended(d, s, p), limbo)
         /\ Pended(d, s, p).week = d.week /\ Pended(d, s, p).pending = p
<1> DEFINE e == Pended(d, s, p)
<1>1. DeskTyped(d)
  BY DEF DeskOK
<1>2. /\ DOMAIN e = DOMAIN d /\ e.in = d.in /\ e.week = d.week /\ e.body = d.body
      /\ e.base = d.base /\ e.rev = d.rev /\ e.era = d.era /\ e.dirty = d.dirty
      /\ e.conflict = d.conflict /\ e.pending = p /\ e.undo = d.undo /\ e.redo = d.redo
      /\ e.step = s /\ e.travel = d.travel /\ e.trip = d.trip
  BY <1>1 DEF DeskTyped, Pended
<1> HIDE DEF e
<1>3. DeskTyped(e)
  BY <1>1, <1>2 DEF DeskTyped
<1>4. DeskOK(e, H, F)
  BY <1>2, <1>3 DEF DeskOK
<1>5. ShowsBase(e, limbo)
  BY <1>2 DEF ShowsBase
<1> QED  BY <1>2, <1>4, <1>5 DEF e

LEMMA AsReadOK ==
  ASSUME NEW H, NEW F, HistoryTyped(H), NEW v \in H
  PROVE  WriteOK(AsRead(v), H, F) /\ AsRead(v).week = v.week /\ v.week \in Week
<1>1. v = Ver(v.era, v.week, v.rev, v.body) /\ v.week \in Week /\ v.rev \in Nat /\ v.body \in SUBSET Block
  BY DEF HistoryTyped
<1>2. /\ DOMAIN AsRead(v) = {"week", "body", "rev", "era", "base", "twice"}
      /\ AsRead(v).week = v.week /\ AsRead(v).body = v.body /\ AsRead(v).rev = v.rev
      /\ AsRead(v).era = v.era /\ AsRead(v).base = v.body
  BY DEF AsRead, Write
<1> HIDE DEF AsRead
<1>3. Ver(AsRead(v).era, AsRead(v).week, AsRead(v).rev, AsRead(v).base) \in H
  BY <1>1, <1>2
<1> QED  BY <1>1, <1>2, <1>3 DEF WriteOK

LEMMA BasisOK ==
  ASSUME DeskInv, NEW w \in Week, NEW got, got \subseteq history,
         Local(w) \/ \E v \in got : v.week = w
  PROVE  WriteOK(Basis(w, got), history, ghost.misfiled) /\ Basis(w, got).week = w
<1>1. CASE w = desk.week
  <2>1. desk.body \in SUBSET Block
    BY WindowFacts DEF DeskTyped
  <2> QED  BY <1>1, <2>1, WindowFacts, OpenOK DEF Basis
<1>2. CASE w # desk.week /\ Local(w)
  <2>1. w \in DOMAIN drafts
    BY <1>2 DEF Local
  <2>2. DeskOK(drafts[w], history, ghost.misfiled) /\ drafts[w].week = w
    BY <2>1, WindowFacts DEF CopiesOK
  <2>3. drafts[w].body \in SUBSET Block
    BY <2>2 DEF DeskOK, DeskTyped
  <2> QED  BY <1>2, <2>2, <2>3, OpenOK DEF Basis
<1>3. CASE w # desk.week /\ ~Local(w)
  <2> DEFINE v == CHOOSE v \in got : v.week = w
  <2>1. v \in got /\ v.week = w
    BY <1>3
  <2>2. Basis(w, got) = AsRead(v)
    BY <1>3 DEF Basis
  <2> HIDE DEF v
  <2>3. v \in history
    BY <2>1
  <2> QED  BY <2>1, <2>2, <2>3, WindowFacts, AsReadOK
<1> QED  BY <1>1, <1>2, <1>3

LEMMA CommitMoveOK ==
  ASSUME DeskInv, NEW from \in Week, NEW to \in Week, from # to, NEW op, NEW got, got \subseteq history,
         Unread(from, to, got) = {}, CommitMove(from, to, op, got), UNCHANGED drafts
  PROVE  /\ CopiesOK(desk', drafts', ghost'.limbo, history, ghost.misfiled)
         /\ desk'.week \notin DOMAIN drafts' /\ CallOK(call', history, ghost.misfiled)
         /\ GhostTyped(ghost') /\ ghost'.misfiled = ghost.misfiled
<1> DEFINE source == Basis(from, got)
           dest == Basis(to, got)
           x == [source EXCEPT !.body = @ \ {Movable}]
           y == [dest EXCEPT !.body = @ \cup {Movable}, !.twice = Movable \in dest.body]
           writes == {x, y}
           e1 == Entry(source.body, source.body \ {Movable})
           e2 == Entry(dest.body, dest.body \cup {Movable})
           at == [w \in {from, to} |-> IF w = from THEN e1 ELSE e2]
           s == Step(at)
           p == [op |-> op, writes |-> writes, stay |-> TRUE]
           H == history
           F == ghost.misfiled
<1>1. CASE Movable \notin source.body
  <2>1. call' = Idle /\ desk' = desk /\ ghost' = ghost
    BY <1>1 DEF CommitMove
  <2> QED  BY <2>1, WindowFacts DEF CallOK
<1>2. CASE Movable \in source.body
  <2>1. /\ ghost' = [ghost EXCEPT !.carried = @ \cup (source.body \ source.base)
                                                \cup (dest.body \ dest.base),
                                  !.torn = @ \/ {from, to} \cap ghost.limbo # {}]
        /\ desk' = [desk EXCEPT !.step = s, !.pending = p]
        /\ call' = Post(desk')
    BY <1>2 DEF CommitMove
  <2>2. (Local(from) \/ \E v \in got : v.week = from) /\ (Local(to) \/ \E v \in got : v.week = to)
    BY DEF Unread
  <2>3. WriteOK(source, H, F) /\ source.week = from /\ WriteOK(dest, H, F) /\ dest.week = to
    BY <2>2, BasisOK
  <2> HIDE DEF source, dest
  <2>4. WriteOK(x, H, F) /\ x.week = from /\ WriteOK(y, H, F) /\ y.week = to
    BY <2>3, RoutesAssumption DEF WriteOK
  <2> HIDE DEF x, y
  <2>5. BatchOK(writes, H, F)
    BY <2>4 DEF BatchOK
  <2>6. source.body \in SUBSET Block /\ dest.body \in SUBSET Block
    BY <2>3 DEF WriteOK
  <2>7. EntryTyped(e1) /\ e1.rev = None /\ EntryTyped(e2) /\ e2.rev = None
    BY <2>6, EntryIs, RoutesAssumption
  <2> HIDE DEF e1, e2
  <2>8. NewStep(s)
    BY <2>7 DEF NewStep, StepTyped, Step
  <2>9. DOMAIN p = {"op", "writes", "stay"} /\ p.writes = writes
    OBVIOUS
  <2> HIDE DEF s, p, writes
  <2>10. /\ DeskOK(desk', H, F) /\ ShowsBase(desk', ghost.limbo) /\ desk'.week = desk.week
         /\ desk'.pending = p
    <3>1. desk' = Pended(desk, s, p)
      BY <2>1 DEF Pended
    <3> QED  BY <3>1, <2>5, <2>8, <2>9, WindowFacts, PendingOK
  <2>11. IsPost(call', H, F)
    BY <2>1, <2>5, <2>9, <2>10, PostOK
  <2>12. GhostTyped(ghost') /\ ghost'.misfiled = ghost.misfiled /\ ghost'.limbo = ghost.limbo
    BY <2>1, WindowFacts DEF GhostTyped
  <2>13. CopiesOK(desk', drafts', ghost'.limbo, H, F)
    BY <2>10, <2>12, WindowFacts, CopiesFrom
  <2> QED  BY <2>10, <2>11, <2>12, <2>13, WindowFacts DEF CallOK
<1> QED  BY <1>1, <1>2

LEMMA ReadNextOK ==
  ASSUME NEW H, NEW F, NEW from \in Week, NEW to \in Week, from # to, NEW got, got \subseteq H
  PROVE  CallOK(ReadNext(from, to, got), H, F)
<1>1. IsMove(ReadNext(from, to, got), H)
  BY DEF IsMove, ReadNext
<1> QED  BY <1>1 DEF CallOK

LEMMA MoveToDateKeeps == ASSUME DeskInv, MoveToDate PROVE WindowInv'
<1>1. PICK from \in Week, to \in Week :
        /\ from # to
        /\ LET op == IF keys.move[from] = None THEN nextOp ELSE keys.move[from]
           IN IF Unread(from, to, {}) = {} THEN CommitMove(from, to, op, {})
              ELSE /\ call' = ReadNext(from, to, {})
                   /\ UNCHANGED <<desk, ghost>>
  BY DEF MoveToDate
<1>2. UNCHANGED <<routeVars, drafts, strays, waiting>> /\ {} \subseteq history
  BY DEF MoveToDate
<1>3. CASE Unread(from, to, {}) = {}
  <2> DEFINE op == IF keys.move[from] = None THEN nextOp ELSE keys.move[from]
  <2>1. CommitMove(from, to, op, {})
    BY <1>1, <1>3
  <2> HIDE DEF op
  <2>2. /\ CopiesOK(desk', drafts', ghost'.limbo, history, ghost.misfiled)
        /\ desk'.week \notin DOMAIN drafts' /\ CallOK(call', history, ghost.misfiled)
        /\ GhostTyped(ghost') /\ ghost'.misfiled = ghost.misfiled
    BY <1>1, <1>2, <1>3, <2>1, CommitMoveOK
  <2> QED  BY <1>2, <2>2, WindowFacts, WindowStep
<1>4. CASE Unread(from, to, {}) # {}
  <2>1. call' = ReadNext(from, to, {}) /\ desk' = desk /\ ghost' = ghost
    BY <1>1, <1>4
  <2>2. CallOK(call', history, ghost.misfiled)
    BY <1>1, <1>2, <2>1, ReadNextOK
  <2> QED  BY <1>2, <2>1, <2>2, WindowFacts, WindowStep
<1> QED  BY <1>3, <1>4

LEMMA MoveFetchedKeeps == ASSUME DeskInv, MoveFetched PROVE WindowInv'
<1> DEFINE got == call.got \cup {call.data}
<1>1. IsMove(call, history) /\ call.data # None
  BY WindowFacts, CallKinds DEF MoveFetched
<1>2. got \subseteq history /\ call.from \in Week /\ call.to \in Week /\ call.from # call.to
  BY <1>1 DEF IsMove
<1>3. UNCHANGED <<routeVars, drafts, strays, waiting>>
  BY DEF MoveFetched
<1>4. CASE Unread(call.from, call.to, got) = {}
  <2> DEFINE op == keys.move[call.from]
  <2>1. CommitMove(call.from, call.to, op, got)
    BY <1>4 DEF MoveFetched
  <2> HIDE DEF op, got
  <2>2. /\ CopiesOK(desk', drafts', ghost'.limbo, history, ghost.misfiled)
        /\ desk'.week \notin DOMAIN drafts' /\ CallOK(call', history, ghost.misfiled)
        /\ GhostTyped(ghost') /\ ghost'.misfiled = ghost.misfiled
    BY <1>2, <1>3, <1>4, <2>1, CommitMoveOK
  <2> QED  BY <1>3, <2>2, WindowFacts, WindowStep
<1>5. CASE Unread(call.from, call.to, got) # {}
  <2>1. call' = ReadNext(call.from, call.to, got) /\ desk' = desk /\ ghost' = ghost
    BY <1>5 DEF MoveFetched
  <2> HIDE DEF got
  <2>2. CallOK(call', history, ghost.misfiled)
    BY <1>2, <2>1, ReadNextOK
  <2> QED  BY <1>3, <2>1, <2>2, WindowFacts, WindowStep
<1> QED  BY <1>4, <1>5

LEMMA SupersedeTyped ==
  ASSUME GhostTyped(ghost), Supersede
  PROVE  GhostTyped(ghost') /\ ghost'.misfiled = ghost.misfiled /\ ghost'.limbo = ghost.limbo
         /\ strays' = LeftBehind
  BY DEF GhostTyped, Supersede

LEMMA AddToWeekKeeps == ASSUME DeskInv, AddToWeek PROVE WindowInv'
<1>1. PICK w \in Week, b \in Pasted :
        call' = [kind |-> "fetch", use |-> "add", week |-> w, block |-> b, data |-> None]
  BY DEF AddToWeek
<1>2. Supersede /\ UNCHANGED <<routeVars, desk, drafts, waiting>>
  BY DEF AddToWeek
<1>3. IsAdd(call', history)
  BY <1>1, DeskAssumption DEF IsAdd
<1>4. CallOK(call', history, ghost.misfiled)
  BY <1>3 DEF CallOK
<1> QED  BY <1>2, <1>4, WindowFacts, SupersedeTyped, WindowStep

LEMMA AddFetchedKeeps == ASSUME DeskInv, AddFetched PROVE WindowInv'
<1> DEFINE v == call.data
           wr == [AsRead(v) EXCEPT !.body = @ \cup {call.block}]
           p == [op |-> nextOp, writes |-> {wr}, stay |-> FALSE]
           H == history
           F == ghost.misfiled
<1>1. v \in H /\ call.block \in Block
  BY WindowFacts, CallKinds DEF AddFetched, IsAdd
<1>2. /\ desk' = [desk EXCEPT !.pending = p] /\ call' = Post(desk')
      /\ ghost' = [ghost EXCEPT !.made = @ \cup {call.block},
                                !.excused = @ \cup Elsewhere(desk)]
      /\ UNCHANGED <<routeVars, drafts, strays, waiting>>
  BY DEF AddFetched
<1>3. WriteOK(AsRead(v), H, F)
  <2> HIDE DEF v
  <2> QED  BY <1>1, WindowFacts, AsReadOK
<1>4. WriteOK(wr, H, F)
  BY <1>1, <1>3 DEF WriteOK
<1> HIDE DEF wr
<1>5. BatchOK({wr}, H, F)
  BY <1>4 DEF BatchOK
<1>6. DOMAIN p = {"op", "writes", "stay"} /\ p.writes = {wr}
  OBVIOUS
<1> HIDE DEF p
<1>7. desk.step = None \/ NewStep(desk.step)
  BY WindowFacts DEF DeskOK
<1>8. [desk EXCEPT !.pending = p] = [desk EXCEPT !.step = desk.step, !.pending = p]
  BY WindowFacts DEF DeskTyped
<1>9. /\ DeskOK(desk', H, F) /\ ShowsBase(desk', ghost.limbo) /\ desk'.week = desk.week
      /\ desk'.pending = p
  <2>1. desk' = Pended(desk, desk.step, p)
    BY <1>2, <1>8 DEF Pended
  <2> QED  BY <2>1, <1>5, <1>6, <1>7, WindowFacts, PendingOK
<1>10. IsPost(call', H, F)
  BY <1>2, <1>5, <1>6, <1>9, PostOK
<1>11. GhostTyped(ghost') /\ ghost'.misfiled = ghost.misfiled /\ ghost'.limbo = ghost.limbo
  BY <1>2, WindowFacts DEF GhostTyped
<1>12. CopiesOK(desk', drafts', ghost'.limbo, H, F)
  BY <1>2, <1>9, <1>11, WindowFacts, CopiesFrom
<1>13. CallOK(call', H, F)
  BY <1>10 DEF CallOK
<1> QED  BY <1>2, <1>9, <1>11, <1>12, <1>13, WindowFacts, WindowStep

-----------------------------------------------------------------------------
(* DeskInv: the answers, restore points, signing in again.                 *)

LEMMA RestrictOK ==
  ASSUME NEW d, NEW ds, NEW limbo, NEW H, NEW F, CopiesOK(d, ds, limbo, H, F),
         NEW S, S \subseteq DOMAIN ds
  PROVE  CopiesOK(d, Restrict(ds, S), limbo, H, F) /\ DOMAIN Restrict(ds, S) = S
  BY DEF CopiesOK, Restrict

\* A step of the window that may find an answer filed under another step.
LEMMA FilingStep ==
  ASSUME DeskInv, UNCHANGED routeVars, GhostTyped(ghost'), ghost.misfiled => ghost'.misfiled,
         CopiesOK(desk', drafts', ghost'.limbo, history, ghost'.misfiled),
         desk'.week \notin DOMAIN drafts',
         CallOK(call', history, ghost'.misfiled),
         strays' = strays, waiting' = waiting
  PROVE  WindowInv'
<1>1. history' = history /\ log' = log
  BY DEF routeVars
<1>2. LogOK(log', history') /\ Ver(0, FirstWeek, 0, {}) \in history'
  BY <1>1, WindowFacts
<1>3. CopiesOK(desk', drafts', ghost'.limbo, history', ghost'.misfiled)
  BY <1>1, Zenon
<1>4. \A s \in strays' : IsPost(s, history, ghost'.misfiled) \/ IsRestore(s)
  BY WindowFacts, PostMono
<1>5. SentOK(call', strays', history', ghost'.misfiled)
  BY <1>1, <1>4 DEF SentOK
<1> QED  BY <1>2, <1>3, <1>5, WindowFacts DEF WindowInv

LEMMA SaveOkKeeps == ASSUME DeskInv, SaveOk PROVE WindowInv'
<1> DEFINE a == call.answer
           ws == call.writes
           H == history
           F == ghost.misfiled
           G == ghost.misfiled \/ Misfiled(ws)
           sh == Shown(desk, a)
           d == Settled(Filed(sh, a))
           written == {wr.week : wr \in ws}
           S == DOMAIN drafts \ (written \ {desk.week})
           kept == Restrict(drafts, S)
           limbo == IF desk.week \in Answered(a) THEN ghost.limbo \ {desk.week} ELSE ghost.limbo
<1>1. IsPost(call, H, F) /\ a # None /\ a.status = 200
  BY WindowFacts, CallKinds DEF SaveOk
<1>2. BatchOK(ws, H, F) /\ AnswerOK(a, ws, H) /\ call.to \in Week \cup {None}
  BY <1>1 DEF IsPost
<1>3. /\ IF call.to # None THEN LoadWeek(d, kept, call.to, FALSE)
         ELSE desk' = d /\ drafts' = kept /\ call' = Idle
      /\ UNCHANGED <<routeVars, strays, waiting>>
  BY DEF SaveOk
<1>4. GhostTyped(ghost') /\ ghost'.misfiled = G /\ ghost'.limbo = limbo
  <2> DEFINE gone == (written \ {desk.week}) \cap DOMAIN drafts
             x == UNION {drafts[w].body \cup Elsewhere(drafts[w]) : w \in gone}
             m == Misfiled(ws)
             ans == Answered(a)
  <2>1. ghost' = [ghost EXCEPT !.excused = @ \cup x,
                     !.limbo = IF desk.week \in ans THEN @ \ {desk.week} ELSE @,
                     !.misfiled = @ \/ m]
    BY DEF SaveOk
  <2> HIDE DEF x, m, ans
  <2>2. GhostTyped(ghost)
    BY WindowFacts
  <2>3. /\ DOMAIN ghost' = DOMAIN ghost /\ ghost'.misfiled = (ghost.misfiled \/ m)
        /\ ghost'.limbo = (IF desk.week \in ans THEN ghost.limbo \ {desk.week} ELSE ghost.limbo)
        /\ ghost'.torn = ghost.torn
    BY <2>1, <2>2 DEF GhostTyped
  <2>4. GhostTyped(ghost')
    BY <2>2, <2>3 DEF GhostTyped
  <2> QED  BY <2>3, <2>4 DEF m, ans
<1>5. DeskOK(desk, H, G) /\ BatchOK(ws, H, G) /\ CopiesOK(desk, drafts, ghost.limbo, H, G)
  <2> HIDE DEF a, ws, sh, d, written, S, kept, limbo
  <2>1. F => G
    OBVIOUS
  <2>2. H \subseteq H
    OBVIOUS
  <2>3. CopiesOK(desk, drafts, ghost.limbo, H, F)
    BY WindowFacts
  <2> HIDE DEF G, H, F
  <2> QED  BY <1>2, <2>1, <2>2, <2>3, BatchMono, CopiesMono DEF CopiesOK
<1>6. HistoryTyped(H)
  BY WindowFacts
<1>7. /\ DeskOK(sh, H, G) /\ sh.week = desk.week
      /\ desk.week \in Answered(a) => sh.body = sh.base
      /\ desk.week \notin Answered(a) => sh = desk
      /\ sh.trip = desk.trip /\ sh.travel = desk.travel
  <2> HIDE DEF a, ws, G
  <2> QED  BY <1>2, <1>5, <1>6, ShownOK
<1>8. desk.travel = None \/ G
      \/ Makes(desk.trip, IF desk.travel = "undo" THEN "before" ELSE "after", ws)
  <2>1. SUFFICES ASSUME desk.travel # None, ~Misfiled(ws)
                 PROVE  Makes(desk.trip, IF desk.travel = "undo" THEN "before" ELSE "after", ws)
    OBVIOUS
  <2>2. \A w \in DOMAIN desk.trip.at :
          \E wr \in ws : /\ wr.week = w
                         /\ wr.body = IF desk.travel = "undo" THEN desk.trip.at[w].before
                                                              ELSE desk.trip.at[w].after
    BY <2>1 DEF Misfiled
  <2> QED  BY <2>2 DEF Makes
<1>9. /\ DeskOK(d, H, G) /\ d.week = desk.week /\ d.dirty = sh.dirty /\ d.body = sh.body /\ d.base = sh.base
  <2> HIDE DEF a, ws, G, sh
  <2> QED  BY <1>1, <1>2, <1>5, <1>6, <1>7, <1>8, FiledOK
<1>10. ShowsBase(d, limbo)
  <2>1. CASE desk.week \in Answered(a)
    BY <1>7, <1>9, <2>1 DEF ShowsBase
  <2>2. CASE desk.week \notin Answered(a)
    <3>1. d.dirty = desk.dirty /\ d.body = desk.body /\ d.base = desk.base /\ d.week = desk.week
      BY <1>7, <1>9, <2>2
    <3> QED  BY <2>2, <3>1, WindowFacts DEF ShowsBase
  <2> QED  BY <2>1, <2>2
<1> HIDE DEF d, sh
<1>11. CopiesOK(desk, kept, ghost.limbo, H, G) /\ DOMAIN kept = S /\ S \subseteq DOMAIN drafts
  <2>1. S \subseteq DOMAIN drafts
    OBVIOUS
  <2> HIDE DEF S, G
  <2> QED  BY <1>5, <2>1, RestrictOK
<1>12. desk.week \notin DOMAIN kept
  BY <1>11, WindowFacts
<1> HIDE DEF kept, S
<1>13. CopiesOK(d, kept, limbo, H, G)
  <2>1. \A w \in DOMAIN kept : w \in ghost.limbo => w \in limbo
    BY <1>12
  <2> HIDE DEF limbo, G
  <2> QED  BY <1>9, <1>10, <1>11, <2>1, CopiesFrom
<1> HIDE DEF limbo, G
<1>14. CopiesOK(desk', drafts', limbo, H, G) /\ desk'.week \notin DOMAIN drafts' /\ CallOK(call', H, G)
  <2>1. CASE call.to = None
    BY <1>3, <1>9, <1>12, <1>13, <2>1 DEF CallOK
  <2>2. CASE call.to # None
    <3>1. LoadWeek(d, kept, call.to, FALSE) /\ call.to \in Week
      BY <1>2, <1>3, <2>2
    <3>2. d.week \notin DOMAIN kept
      BY <1>9, <1>12
    <3> QED  BY <1>13, <3>1, <3>2, LoadWeekOK
  <2> QED  BY <2>1, <2>2
<1>15. ghost.misfiled => ghost'.misfiled
  BY <1>4 DEF G
<1> QED  BY <1>3, <1>4, <1>14, <1>15, FilingStep

LEMMA TripDroppedTyped ==
  ASSUME GhostTyped(ghost)
  PROVE  /\ GhostTyped(TripDropped) /\ TripDropped.misfiled = ghost.misfiled
         /\ TripDropped.limbo = ghost.limbo
  BY DEF GhostTyped, TripDropped

LEMMA SaveRefusedKeeps == ASSUME DeskInv, SaveRefused PROVE WindowInv'
<1> DEFINE limbo == IF desk.travel = None THEN ghost.limbo ELSE ghost.limbo \cup {desk.week}
<1>1. UNCHANGED <<routeVars, strays, waiting>>
  BY DEF SaveRefused
<1>2. GhostTyped(ghost') /\ ghost'.misfiled = ghost.misfiled /\ ghost'.limbo = limbo
  <2> DEFINE t == TripDropped
  <2>1. ghost' = [t EXCEPT !.limbo = IF desk.travel = None THEN @ ELSE @ \cup {desk.week}]
    BY DEF SaveRefused
  <2>2. GhostTyped(t) /\ t.misfiled = ghost.misfiled /\ t.limbo = ghost.limbo
    BY WindowFacts, TripDroppedTyped
  <2> HIDE DEF t
  <2> QED  BY <2>1, <2>2 DEF GhostTyped
<1>3. CASE desk.travel = None
  <2> DEFINE e == [desk EXCEPT !.conflict = TRUE]
  <2>1. desk' = e /\ drafts' = drafts /\ call' = Idle
    BY <1>3 DEF SaveRefused
  <2>2. DeskOK(e, history, ghost.misfiled) /\ ShowsBase(e, ghost.limbo) /\ e.week = desk.week
    BY WindowFacts, ConflictOK
  <2> HIDE DEF e
  <2>3. CopiesOK(e, drafts, ghost.limbo, history, ghost.misfiled)
    BY <2>2, WindowFacts, CopiesFrom
  <2>4. CallOK(call', history, ghost.misfiled)
    BY <2>1 DEF CallOK
  <2> QED  BY <1>1, <1>2, <1>3, <2>1, <2>2, <2>3, <2>4, WindowFacts, WindowStep
<1>4. CASE desk.travel # None
  <2> DEFINE b == PutBack(desk)
             e == [b EXCEPT !.dirty = FALSE, !.conflict = FALSE, !.pending = None]
  <2>1. DeskOK(b, history, ghost.misfiled) /\ b.week = desk.week
    BY WindowFacts, PutBackOK
  <2>2. LoadWeek([b EXCEPT !.pending = None, !.dirty = FALSE, !.conflict = FALSE],
                 drafts, desk.week, TRUE)
    BY <1>4 DEF SaveRefused
  <2> HIDE DEF b
  <2>3. DeskOK(e, history, ghost.misfiled) /\ e.week = b.week
    BY <2>1, ForgottenOK
  <2>4. LoadWeek(e, drafts, desk.week, TRUE)
    <3>1. e = [b EXCEPT !.pending = None, !.dirty = FALSE, !.conflict = FALSE]
      BY <2>1 DEF DeskOK, DeskTyped
    <3> HIDE DEF e
    <3> QED  BY <2>2, <3>1
  <2> HIDE DEF e
  <2>5. ShowsBase(e, limbo)
    BY <1>4, <2>1, <2>3 DEF ShowsBase
  <2>6. CopiesOK(e, drafts, limbo, history, ghost.misfiled)
    BY <2>3, <2>5, WindowFacts, CopiesFrom
  <2>7. e.week \notin DOMAIN drafts /\ desk.week \in Week
    BY <2>1, <2>3, WindowFacts
  <2>8. /\ CopiesOK(desk', drafts', limbo, history, ghost.misfiled)
        /\ desk'.week \notin DOMAIN drafts' /\ CallOK(call', history, ghost.misfiled)
    BY <2>4, <2>6, <2>7, LoadWeekOK
  <2> QED  BY <1>1, <1>2, <2>8, WindowFacts, WindowStep
<1> QED  BY <1>3, <1>4

LEMMA UnreachedKeeps ==
  ASSUME DeskInv, desk' = SaveUnreached(desk), ghost' = TripDropped, call' = Idle,
         UNCHANGED <<routeVars, drafts, waiting>>, strays' = strays \/ strays' = LeftBehind
  PROVE  WindowInv'
<1>1. GhostTyped(ghost') /\ ghost'.misfiled = ghost.misfiled /\ ghost'.limbo = ghost.limbo
  BY WindowFacts, TripDroppedTyped
<1>2. DeskOK(desk', history, ghost.misfiled) /\ ShowsBase(desk', ghost.limbo) /\ desk'.week = desk.week
  BY WindowFacts, SaveUnreachedOK
<1>3. CopiesOK(desk', drafts', ghost'.limbo, history, ghost.misfiled)
  BY <1>1, <1>2, WindowFacts, CopiesFrom
<1>4. CallOK(call', history, ghost.misfiled)
  BY DEF CallOK
<1> QED  BY <1>1, <1>2, <1>3, <1>4, WindowFacts, WindowStep

LEMMA SaveRejectedKeeps == ASSUME DeskInv, SaveRejected PROVE WindowInv'
  BY UnreachedKeeps DEF SaveRejected

LEMMA CallFailsKeeps == ASSUME DeskInv, CallFails PROVE WindowInv'
<1>1. UNCHANGED <<routeVars, drafts, waiting>> /\ call' = Idle /\ (strays' = strays \/ strays' = LeftBehind)
  BY DEF CallFails
<1>2. CASE call.kind = "post"
  BY <1>1, <1>2, UnreachedKeeps DEF CallFails
<1>3. CASE call.kind # "post"
  <2>1. desk' = desk /\ ghost' = ghost
    BY <1>3 DEF CallFails
  <2>2. CallOK(call', history, ghost.misfiled)
    BY <1>1 DEF CallOK
  <2> QED  BY <1>1, <2>1, <2>2, WindowFacts, WindowStep
<1> QED  BY <1>2, <1>3

LEMMA RestorePointsKeep ==
  ASSUME DeskInv, PreviewRestorePoint \/ PreviewOk \/ ApplyRestorePoint \/ RestoreRefused
  PROVE  WindowInv'
<1>1. CASE PreviewRestorePoint
  <2>1. call' = [kind |-> "preview", data |-> None] /\ Supersede
        /\ UNCHANGED <<routeVars, desk, drafts, waiting>>
    BY <1>1 DEF PreviewRestorePoint
  <2>2. CallOK(call', history, ghost.misfiled)
    BY <2>1 DEF CallOK, IsPreview
  <2> QED  BY <2>1, <2>2, WindowFacts, SupersedeTyped, WindowStep
<1>2. CASE ApplyRestorePoint
  <2>1. Supersede /\ UNCHANGED <<routeVars, desk, drafts, waiting>>
    BY <1>2 DEF ApplyRestorePoint
  <2>2. IsRestore(call')
    BY <1>2 DEF ApplyRestorePoint, IsRestore
  <2>3. CallOK(call', history, ghost.misfiled)
    BY <2>2 DEF CallOK
  <2> QED  BY <2>1, <2>3, WindowFacts, SupersedeTyped, WindowStep
<1>3. CASE PreviewOk \/ RestoreRefused
  <2>1. UNCHANGED <<routeVars, desk, drafts, strays, waiting, ghost>> /\ call' = Idle
    BY <1>3 DEF PreviewOk, RestoreRefused
  <2>2. CallOK(call', history, ghost.misfiled)
    BY <2>1 DEF CallOK
  <2> QED  BY <2>1, <2>2, WindowFacts, WindowStep
<1> QED  BY <1>1, <1>2, <1>3

LEMMA RestoreOkKeeps == ASSUME DeskInv, RestoreOk PROVE WindowInv'
<1> DEFINE e == [desk EXCEPT !.undo = <<>>, !.redo = <<>>]
<1>1. LoadWeek(e, drafts, desk.week, FALSE) /\ UNCHANGED <<routeVars, strays, waiting, ghost>>
  BY DEF RestoreOk
<1>2. DeskTyped(desk) /\ DeskOK(desk, history, ghost.misfiled)
  BY WindowFacts
<1>3. /\ DOMAIN e = DOMAIN desk /\ e.in = desk.in /\ e.week = desk.week /\ e.body = desk.body
      /\ e.base = desk.base /\ e.rev = desk.rev /\ e.era = desk.era /\ e.dirty = desk.dirty
      /\ e.conflict = desk.conflict /\ e.pending = desk.pending /\ e.undo = <<>> /\ e.redo = <<>>
      /\ e.step = desk.step /\ e.travel = desk.travel /\ e.trip = desk.trip
  BY <1>2 DEF DeskTyped
<1> HIDE DEF e
<1>4. DeskTyped(e)
  BY <1>2, <1>3 DEF DeskTyped
<1>5. DeskOK(e, history, ghost.misfiled)
  BY <1>2, <1>3, <1>4, NoStepsOK DEF DeskOK
<1>6. ShowsBase(e, ghost.limbo)
  BY <1>3, WindowFacts DEF ShowsBase
<1>7. CopiesOK(e, drafts, ghost.limbo, history, ghost.misfiled)
  BY <1>5, <1>6, WindowFacts, CopiesFrom
<1>8. e.week \notin DOMAIN drafts /\ desk.week \in Week
  BY <1>3, WindowFacts
<1>9. /\ CopiesOK(desk', drafts', ghost.limbo, history, ghost.misfiled)
      /\ desk'.week \notin DOMAIN drafts' /\ CallOK(call', history, ghost.misfiled)
  BY <1>1, <1>7, <1>8, LoadWeekOK
<1> QED  BY <1>1, <1>9, WindowFacts, WindowStep

LEMMA SignInKeeps == ASSUME DeskInv, SignIn PROVE WindowInv'
<1> DEFINE e == [desk EXCEPT !.in = TRUE]
<1>1. LoadWeek(e, drafts, desk.week, TRUE) /\ UNCHANGED <<routeVars, strays, waiting, ghost>>
  BY DEF SignIn
<1>2. DeskTyped(desk) /\ DeskOK(desk, history, ghost.misfiled)
  BY WindowFacts
<1>3. /\ DOMAIN e = DOMAIN desk /\ e.in = TRUE /\ e.week = desk.week /\ e.body = desk.body
      /\ e.base = desk.base /\ e.rev = desk.rev /\ e.era = desk.era /\ e.dirty = desk.dirty
      /\ e.conflict = desk.conflict /\ e.pending = desk.pending /\ e.undo = desk.undo
      /\ e.redo = desk.redo
      /\ e.step = desk.step /\ e.travel = desk.travel /\ e.trip = desk.trip
  BY <1>2 DEF DeskTyped
<1> HIDE DEF e
<1>4. DeskTyped(e)
  BY <1>2, <1>3 DEF DeskTyped
<1>5. DeskOK(e, history, ghost.misfiled)
  BY <1>2, <1>3, <1>4 DEF DeskOK
<1>6. ShowsBase(e, ghost.limbo)
  BY <1>3, WindowFacts DEF ShowsBase
<1>7. CopiesOK(e, drafts, ghost.limbo, history, ghost.misfiled)
  BY <1>5, <1>6, WindowFacts, CopiesFrom
<1>8. e.week \notin DOMAIN drafts /\ desk.week \in Week
  BY <1>3, WindowFacts
<1>9. /\ CopiesOK(desk', drafts', ghost.limbo, history, ghost.misfiled)
      /\ desk'.week \notin DOMAIN drafts' /\ CallOK(call', history, ghost.misfiled)
  BY <1>1, <1>7, <1>8, LoadWeekOK
<1> QED  BY <1>1, <1>9, WindowFacts, WindowStep

LEMMA BlankOK ==
  ASSUME NEW H, NEW F, NEW limbo, Ver(0, FirstWeek, 0, {}) \in H
  PROVE  CopiesOK(Blank, <<>>, limbo, H, F) /\ Blank.week \notin DOMAIN <<>>
         /\ CopiesOK([Blank EXCEPT !.in = TRUE], <<>>, limbo, H, F)
<1>1. DOMAIN <<>> = {} /\ <<>> = [w \in {} |-> <<>>[w]]
  BY EmptyIs, SeqFacts
<1>2. ASSUME NEW e, e = Blank \/ e = [Blank EXCEPT !.in = TRUE]
      PROVE  CopiesOK(e, <<>>, limbo, H, F)
  <2> DEFINE b == Blank
  <2>a. /\ DOMAIN b = {"in", "week", "body", "base", "rev", "era", "dirty", "conflict", "pending",
                       "undo", "redo", "step", "travel", "trip"}
        /\ b.in = FALSE /\ b.week = FirstWeek /\ b.body = {} /\ b.base = {} /\ b.rev = 0
        /\ b.era = 0 /\ b.dirty = FALSE /\ b.conflict = FALSE /\ b.pending = None
        /\ b.undo = <<>> /\ b.redo = <<>> /\ b.step = None /\ b.travel = None /\ b.trip = None
    BY DEF Blank
  <2>b. e = b \/ e = [b EXCEPT !.in = TRUE]
    BY <1>2
  <2> HIDE DEF b
  <2>1. /\ DOMAIN e = DOMAIN b /\ e.in \in BOOLEAN /\ e.week = b.week /\ e.body = b.body
        /\ e.base = b.base /\ e.rev = b.rev /\ e.era = b.era /\ e.dirty = b.dirty
        /\ e.conflict = b.conflict /\ e.pending = b.pending /\ e.undo = b.undo
        /\ e.redo = b.redo /\ e.step = b.step /\ e.travel = b.travel /\ e.trip = b.trip
    BY <2>a, <2>b
  <2>2. DeskTyped(e)
    <3>1. e.week \in Week /\ e.body \in SUBSET Block /\ e.base \in SUBSET Block
      BY <2>a, <2>1, RoutesAssumption
    <3>2. e.rev \in Nat
      BY <2>a, <2>1
    <3>3. e.in \in BOOLEAN /\ e.dirty \in BOOLEAN /\ e.conflict \in BOOLEAN
      BY <2>a, <2>1
    <3>4. e.travel \in {None, "undo", "redo"} /\ e.trip = None
      BY <2>a, <2>1
    <3>5. DOMAIN e = {"in", "week", "body", "base", "rev", "era", "dirty", "conflict", "pending",
                       "undo", "redo", "step", "travel", "trip"}
      BY <2>a, <2>1
    <3> QED  BY <3>1, <3>2, <3>3, <3>4, <3>5 DEF DeskTyped
  <2>3. DeskOK(e, H, F)
    BY <2>a, <2>1, <2>2, NoStepsOK DEF DeskOK
  <2>4. ShowsBase(e, limbo)
    BY <2>a, <2>1 DEF ShowsBase
  <2> QED  BY <1>1, <2>3, <2>4 DEF CopiesOK
<1>3. CopiesOK(Blank, <<>>, limbo, H, F)
  BY <1>2, Zenon
<1>4. CopiesOK([Blank EXCEPT !.in = TRUE], <<>>, limbo, H, F)
  BY <1>2, Zenon
<1> QED  BY <1>1, <1>3, <1>4

LEMMA ExpiredKeeps == ASSUME DeskInv, Expired PROVE WindowInv'
<1>1. /\ desk' = Blank /\ drafts' = <<>> /\ call' = Idle /\ waiting' = None
      /\ ghost' = [ghost EXCEPT !.excused = @ \cup ghost.made, !.limbo = {}]
      /\ UNCHANGED <<routeVars, strays>>
  BY DEF Expired
<1>2. GhostTyped(ghost') /\ ghost'.misfiled = ghost.misfiled
  BY <1>1, WindowFacts DEF GhostTyped
<1>3. CopiesOK(desk', drafts', ghost'.limbo, history, ghost.misfiled) /\ desk'.week \notin DOMAIN drafts'
  BY <1>1, WindowFacts, BlankOK
<1>4. CallOK(call', history, ghost.misfiled)
  BY <1>1 DEF CallOK
<1> QED  BY <1>1, <1>2, <1>3, <1>4, WindowStep

-----------------------------------------------------------------------------
(* DeskInv: the store, and the theorems that follow.                       *)

\* A step of the store: the window keeps what it has.
LEMMA ServerStep ==
  ASSUME DeskInv, history \subseteq history', LogOK(log', history'),
         UNCHANGED <<desk, drafts, waiting>>,
         GhostTyped(ghost'), ghost'.misfiled = ghost.misfiled, ghost'.limbo = ghost.limbo,
         CallOK(call', history', ghost.misfiled), strays' \subseteq strays
  PROVE  WindowInv'
<1>1. CopiesOK(desk, drafts, ghost.limbo, history', ghost.misfiled)
  BY WindowFacts, CopiesMono
<1>2. CopiesOK(desk', drafts', ghost'.limbo, history', ghost'.misfiled) /\ desk'.week \notin DOMAIN drafts'
  BY <1>1, WindowFacts
<1>3. \A s \in strays' : IsPost(s, history', ghost.misfiled) \/ IsRestore(s)
  BY WindowFacts, PostMono
<1>4. SentOK(call', strays', history', ghost'.misfiled)
  BY <1>3 DEF SentOK
<1>5. Ver(0, FirstWeek, 0, {}) \in history' /\ waiting' \in Dropped \cup {None}
  BY WindowFacts
<1> QED  BY <1>2, <1>4, <1>5 DEF WindowInv

LEMMA TornTyped ==
  ASSUME GhostTyped(ghost), NEW x, ghost' = [ghost EXCEPT !.torn = @ \/ x]
  PROVE  GhostTyped(ghost') /\ ghost'.misfiled = ghost.misfiled /\ ghost'.limbo = ghost.limbo
  BY DEF GhostTyped

LEMMA PostRuns ==
  ASSUME DeskInv, NEW op, NEW ws, BatchOK(ws, history, ghost.misfiled), PostChanges(op, ws)
  PROVE  /\ R!Next \/ UNCHANGED R!registerVars
         /\ history \subseteq history' /\ LogOK(log', history')
         /\ AnswerOK(Changes(op, ws).answer, ws, history')
<1>1. R!Next \/ UNCHANGED R!registerVars
  BY PostIsRegister DEF DeskInv
<1>2. history \subseteq history'
  BY <1>1, RegisterStepGrows DEF DeskInv
<1>3. LogOK(log', history') /\ AnswerOK(Changes(op, ws).answer, ws, history')
  BY WindowFacts, ChangesAnswer DEF DeskInv
<1> QED  BY <1>1, <1>2, <1>3

LEMMA RestoreRuns ==
  ASSUME DeskInv, NEW op, NEW token, PostRestore(op, token)
  PROVE  /\ R!Next \/ UNCHANGED R!registerVars
         /\ history \subseteq history' /\ LogOK(log', history')
<1>1. R!Next \/ UNCHANGED R!registerVars
  BY RestoreIsRegister
<1>2. history \subseteq history'
  BY <1>1, RegisterStepGrows DEF DeskInv
<1>3. LogOK(log', history')
  BY <1>2, WindowFacts, RestoreLog
<1> QED  BY <1>1, <1>2, <1>3

LEMMA ServerAnswersKeeps ==
  ASSUME DeskInv, ServerAnswers
  PROVE  WindowInv' /\ (R!Next \/ UNCHANGED R!registerVars)
<1>1. UNCHANGED <<desk, drafts, strays, waiting>>
  BY DEF ServerAnswers
<1> DEFINE H == history
           F == ghost.misfiled
<1>2. CASE /\ call.kind \in {"load", "fetch"} /\ call.data = None
           /\ call' = [call EXCEPT !.data = VersionOf(call.week)]
           /\ UNCHANGED <<routeVars, ghost>>
  <2>1. IsLoad(call, H) \/ IsMove(call, H) \/ IsAdd(call, H)
    BY <1>2, WindowFacts, CallKinds
  <2>2. call.week \in Week
    BY <2>1 DEF IsLoad, IsMove, IsAdd
  <2> DEFINE v == VersionOf(call.week)
  <2>3. v \in H /\ v.week = call.week
    BY <2>2, VersionOfStored DEF DeskInv, Ver
  <2> HIDE DEF v
  <2>4. CallOK(call', H, F)
    <3>1. CASE IsLoad(call, H)
      <4>1. IsLoad(call', H)
        BY <1>2, <2>3, <3>1 DEF IsLoad, v
      <4> QED  BY <4>1 DEF CallOK
    <3>2. CASE IsMove(call, H)
      <4>1. IsMove(call', H)
        BY <1>2, <2>3, <3>2 DEF IsMove, v
      <4> QED  BY <4>1 DEF CallOK
    <3>3. CASE IsAdd(call, H)
      <4>1. IsAdd(call', H)
        BY <1>2, <2>3, <3>3 DEF IsAdd, v
      <4> QED  BY <4>1 DEF CallOK
    <3> QED  BY <2>1, <3>1, <3>2, <3>3
  <2>5. WindowInv'
    BY <1>1, <1>2, <2>4, WindowFacts, WindowStep
  <2> QED  BY <1>2, <2>5 DEF routeVars, R!registerVars
<1>3. CASE /\ call.kind = "preview" /\ call.data = None
           /\ call' = [call EXCEPT !.data = weeks]
           /\ UNCHANGED <<routeVars, ghost>>
  <2>1. IsPreview(call)
    BY <1>3, WindowFacts, CallKinds
  <2>2. IsPreview(call')
    BY <1>3, <2>1 DEF IsPreview
  <2>3. CallOK(call', H, F)
    BY <2>2 DEF CallOK
  <2>4. WindowInv'
    BY <1>1, <1>3, <2>3, WindowFacts, WindowStep
  <2> QED  BY <1>3, <2>4 DEF routeVars, R!registerVars
<1>4. CASE /\ call.kind = "post" /\ call.answer = None
           /\ PostChanges(call.op, call.writes)
           /\ call' = [call EXCEPT !.answer = Changes(call.op, call.writes).answer]
           /\ ghost' = [ghost EXCEPT !.torn = @ \/ (weeks' # weeks /\ NotAsRead(call.writes))]
  <2> DEFINE a == Changes(call.op, call.writes).answer
             x == weeks' # weeks /\ NotAsRead(call.writes)
  <2>1. IsPost(call, H, F)
    BY <1>4, WindowFacts, CallKinds
  <2>2. BatchOK(call.writes, H, F)
    BY <2>1 DEF IsPost
  <2>3. /\ R!Next \/ UNCHANGED R!registerVars
        /\ history \subseteq history' /\ LogOK(log', history')
        /\ AnswerOK(a, call.writes, history')
    BY <1>4, <2>2, PostRuns
  <2>4. call' = [call EXCEPT !.answer = a] /\ ghost' = [ghost EXCEPT !.torn = @ \/ x]
    BY <1>4
  <2> HIDE DEF a, x
  <2>5. GhostTyped(ghost') /\ ghost'.misfiled = ghost.misfiled /\ ghost'.limbo = ghost.limbo
    BY <2>4, WindowFacts, TornTyped
  <2>6. IsPost(call, history', F)
    BY <2>1, <2>3, PostMono
  <2>7. IsPost(call', history', F)
    BY <2>3, <2>4, <2>6 DEF IsPost
  <2>8. CallOK(call', history', F)
    BY <2>7 DEF CallOK
  <2> QED  BY <1>1, <2>3, <2>5, <2>8, ServerStep
<1>5. CASE /\ call.kind = "restore" /\ call.answer = None
           /\ PostRestore(call.op, call.token)
           /\ call' = [call EXCEPT !.answer = Restoring(call.op, call.token).answer]
           /\ UNCHANGED ghost
  <2>1. IsRestore(call)
    BY <1>5, WindowFacts, CallKinds
  <2>2. IsRestore(call')
    BY <1>5, <2>1 DEF IsRestore
  <2>3. CallOK(call', history', F)
    BY <2>2 DEF CallOK
  <2>4. /\ R!Next \/ UNCHANGED R!registerVars
        /\ history \subseteq history' /\ LogOK(log', history')
    BY <1>5, RestoreRuns
  <2> QED  BY <1>1, <1>5, <2>3, <2>4, WindowFacts, ServerStep
<1> QED  BY <1>2, <1>3, <1>4, <1>5 DEF ServerAnswers

LEMMA StrayRunsKeeps ==
  ASSUME DeskInv, StrayRuns
  PROVE  WindowInv' /\ (R!Next \/ UNCHANGED R!registerVars)
<1>1. UNCHANGED <<desk, drafts, call, waiting>>
  BY DEF StrayRuns
<1>2. PICK s \in strays :
        /\ strays' = strays \ {s}
        /\ \/ /\ s.kind = "post"
              /\ PostChanges(s.op, s.writes)
              /\ ghost' = [ghost EXCEPT !.torn = @ \/ (weeks' # weeks /\ NotAsRead(s.writes))]
           \/ /\ s.kind = "restore"
              /\ PostRestore(s.op, s.token)
              /\ UNCHANGED ghost
  BY DEF StrayRuns
<1>3. ASSUME history \subseteq history' PROVE CallOK(call', history', ghost.misfiled)
  BY <1>1, <1>3, WindowFacts, CallMono
<1>4. CASE /\ s.kind = "post"
           /\ PostChanges(s.op, s.writes)
           /\ ghost' = [ghost EXCEPT !.torn = @ \/ (weeks' # weeks /\ NotAsRead(s.writes))]
  <2> DEFINE x == weeks' # weeks /\ NotAsRead(s.writes)
  <2>1. IsPost(s, history, ghost.misfiled)
    BY <1>4, WindowFacts DEF IsRestore
  <2>2. BatchOK(s.writes, history, ghost.misfiled)
    BY <2>1 DEF IsPost
  <2>3. /\ R!Next \/ UNCHANGED R!registerVars
        /\ history \subseteq history' /\ LogOK(log', history')
    BY <1>4, <2>2, PostRuns
  <2>4. ghost' = [ghost EXCEPT !.torn = @ \/ x]
    BY <1>4
  <2> HIDE DEF x
  <2>5. GhostTyped(ghost') /\ ghost'.misfiled = ghost.misfiled /\ ghost'.limbo = ghost.limbo
    BY <2>4, WindowFacts, TornTyped
  <2> QED  BY <1>1, <1>2, <1>3, <2>3, <2>5, ServerStep
<1>5. CASE /\ s.kind = "restore"
           /\ PostRestore(s.op, s.token)
           /\ UNCHANGED ghost
  <2>1. /\ R!Next \/ UNCHANGED R!registerVars
        /\ history \subseteq history' /\ LogOK(log', history')
    BY <1>5, RestoreRuns
  <2> QED  BY <1>1, <1>2, <1>3, <1>5, <2>1, WindowFacts, ServerStep
<1> QED  BY <1>2, <1>4, <1>5

LEMMA OthersKeeps ==
  ASSUME DeskInv, Others
  PROVE  WindowInv' /\ R!Next
<1>1. UNCHANGED <<desk, drafts, call, strays, waiting, ghost>> /\ (OtherSaves \/ OtherRestores)
  BY DEF Others
<1>2. R!Next
  BY <1>1, OthersIsRegister DEF DeskInv
<1>3. history \subseteq history'
  BY <1>2, RegisterStepGrows DEF DeskInv
<1>4. LogOK(log', history')
  BY <1>1, <1>3, WindowFacts, OthersLog
<1>5. CallOK(call', history', ghost.misfiled)
  BY <1>1, <1>3, WindowFacts, CallMono
<1> QED  BY <1>1, <1>2, <1>3, <1>4, <1>5, WindowFacts, ServerStep

LEMMA WindowLeavesRoutes == ASSUME Window \/ CallFails \/ Expired PROVE UNCHANGED routeVars
  BY DEF Window, LoadOk, SwitchWeek, Reload, AcceptRemoteWeek, AddBlock, PlaceBlock, ResumePlace,
         Autosave, Undo, Redo, MoveToDate, MoveFetched, AddToWeek, AddFetched, SaveOk, SaveRefused,
         SaveRejected, PreviewRestorePoint, PreviewOk, ApplyRestorePoint, RestoreOk, RestoreRefused,
         SignIn, CallFails, Expired

LEMMA StepKeepsDeskInv ==
  ASSUME DeskInv, [Next]_vars
  PROVE  DeskInv' /\ (R!Next \/ UNCHANGED R!registerVars)
<1>1. ASSUME Window \/ CallFails \/ Expired
      PROVE  WindowInv' /\ UNCHANGED R!registerVars
  <2>1. WindowInv'
    BY <1>1, LoadOkKeeps, SwitchWeekKeeps, ReloadKeeps, AcceptRemoteWeekKeeps, AddBlockKeeps,
       PlaceBlockKeeps, ResumePlaceKeeps, AutosaveKeeps, UndoKeeps, RedoKeeps, MoveToDateKeeps,
       MoveFetchedKeeps, AddToWeekKeeps, AddFetchedKeeps, SaveOkKeeps, SaveRefusedKeeps,
       SaveRejectedKeeps, RestorePointsKeep, RestoreOkKeeps, SignInKeeps, CallFailsKeeps,
       ExpiredKeeps DEF Window
  <2> QED  BY <1>1, <2>1, WindowLeavesRoutes DEF routeVars, R!registerVars
<1>2. ASSUME UNCHANGED vars
      PROVE  WindowInv' /\ UNCHANGED R!registerVars
  <2>1. UNCHANGED <<routeVars, desk, drafts, call, strays, waiting, ghost>>
    BY <1>2 DEF vars, deskVars
  <2>2. WindowInv'
    BY <2>1, WindowFacts, WindowStep
  <2> QED  BY <2>1, <2>2 DEF routeVars, R!registerVars
<1>3. WindowInv' /\ (R!Next \/ UNCHANGED R!registerVars)
  BY <1>1, <1>2, ServerAnswersKeeps, StrayRunsKeeps, OthersKeeps DEF Next
<1>4. R!RegisterInv'
  BY <1>3, RegisterStepGrows DEF DeskInv
<1> QED  BY <1>3, <1>4 DEF DeskInv

LEMMA InitIsRegister == RoutesInit => R!Init
  BY PointIsSnapshot DEF RoutesInit, R!Init, R!Versions, Versions, R!Nothing, Nothing

LEMMA InitDeskInv == ASSUME Init PROVE DeskInv
<1>1. R!RegisterInv
  BY InitIsRegister, R!InitRegisterInv DEF Init
<1>2. Ver(0, FirstWeek, 0, {}) \in history
  <2> DEFINE none == [w \in Week |-> Nothing]
  <2>1. Ver(0, FirstWeek, 0, {}) = [era |-> 0, week |-> FirstWeek, rev |-> none[FirstWeek].rev,
                                    body |-> none[FirstWeek].body]
    BY RoutesAssumption DEF Ver, Nothing
  <2>2. Versions(none, 0) \subseteq history
    BY DEF Init, RoutesInit
  <2> HIDE DEF none
  <2> QED  BY <2>1, <2>2, RoutesAssumption DEF Versions
<1>3. LogOK(log, history)
  <2>1. log = <<>> /\ IsSeq(<<>>) /\ Len(<<>>) = 0 /\ KeepOps \in Nat
    BY EmptyIs, RoutesAssumption DEF Init, RoutesInit
  <2> QED  BY <2>1 DEF LogOK
<1>4. CopiesOK(desk, drafts, ghost.limbo, history, ghost.misfiled) /\ desk.week \notin DOMAIN drafts
  <2>1. desk = [Blank EXCEPT !.in = TRUE] /\ drafts = <<>>
    BY DEF Init
  <2>2. desk.week = Blank.week
    BY <2>1 DEF Blank
  <2> QED  BY <1>2, <2>1, <2>2, BlankOK
<1>5. GhostTyped(ghost)
  BY DEF Init, Fresh, GhostTyped
<1>6. SentOK(call, strays, history, ghost.misfiled)
  BY RoutesAssumption DEF Init, SentOK, CallOK, IsLoad, Load
<1>7. WindowInv
  BY <1>2, <1>3, <1>4, <1>5, <1>6 DEF WindowInv, Init
<1> QED  BY <1>1, <1>7 DEF DeskInv

LEMMA DeskInvariant == Spec => []DeskInv
<1>1. Init => DeskInv
  BY InitDeskInv
<1>2. DeskInv /\ [Next]_vars => DeskInv'
  BY StepKeepsDeskInv
<1> QED  BY <1>1, <1>2, PTL DEF Spec

\* The types of the window and of the store: what is on screen and set aside
\* are weeks and blocks, and an Undo under way names the step it undoes.
THEOREM TypesHold == Spec => []TypeOK
<1>1. DeskInv => TypeOK
  <2> SUFFICES ASSUME DeskInv PROVE TypeOK
    OBVIOUS
  <2>1. weeks \in [Week -> [body : SUBSET Block, rev : Nat]] /\ era \in Nat
    BY RegisterTyped DEF DeskInv, R!Stored, Stored
  <2>2. Len(log) <= KeepOps
    BY WindowFacts DEF LogOK
  <2>3. DeskTyped(desk) /\ CopiesOK(desk, drafts, ghost.limbo, history, ghost.misfiled)
        /\ desk.week \notin DOMAIN drafts
    BY WindowFacts
  <2>4. call.kind \in {"idle", "load", "post", "fetch", "preview", "restore"}
    BY WindowFacts DEF CallOK, Idle, IsLoad, IsPost, IsMove, IsAdd, IsPreview, IsRestore
  <2> QED  BY <2>1, <2>2, <2>3, <2>4, WindowFacts DEF TypeOK, RoutesTypeOK, DeskTyped, CopiesOK
<1> QED  BY <1>1, DeskInvariant, PTL

\* A week that is not marked unsaved is one the store has held, at the revision
\* the window will name in its next save.
THEOREM NotUnsavedIsStored == Spec => []SavedMeansStored
<1>1. DeskInv => SavedMeansStored
  <2> SUFFICES ASSUME DeskInv, ~Held(desk), desk.week \notin ghost.limbo
               PROVE  OnScreen \in history
    BY DEF SavedMeansStored
  <2>1. desk.body = desk.base
    BY WindowFacts DEF ShowsBase, Held
  <2>2. Ver(desk.era, desk.week, desk.rev, desk.base) \in history
    BY WindowFacts DEF DeskOK
  <2> QED  BY <2>1, <2>2 DEF OnScreen, Ver
<1> QED  BY <1>1, DeskInvariant, PTL

LEMMA PostReplacesWhatItRead ==
  ASSUME DeskInv, NEW op, NEW ws, BatchOK(ws, history, ghost.misfiled), PostChanges(op, ws),
         NEW w \in Week, weeks'[w] # weeks[w]
  PROVE  \E wr \in ws : /\ wr.week = w /\ wr.body = weeks'[w].body
                        /\ wr.era = era /\ ~ghost.misfiled => wr.base = weeks[w].body
<1>1. Changes(op, ws).kind = "write"
  BY DEF PostChanges, routeVars
<1>2. (\A wr \in ws : Fits(wr)) /\ weeks' = After(ws)
  BY <1>1 DEF Changes, Run, PostChanges
<1>3. PICK wr \in ws : /\ wr.week = w /\ wr.rev = weeks[w].rev
                       /\ After(ws)[w] = [body |-> wr.body, rev |-> weeks[w].rev + 1]
  <2>1. R!RegisterInv
    BY DEF DeskInv
  <2> QED  BY <1>2, <2>1, BatchStored
<1>4. ASSUME wr.era = era, ~ghost.misfiled
      PROVE  wr.base = weeks[w].body
  <2>1. Ver(era, w, weeks[w].rev, wr.base) \in history
    BY <1>3, <1>4 DEF BatchOK, WriteOK
  <2>2. Ver(era, w, weeks[w].rev, weeks[w].body) \in history
    BY VersionOfStored DEF DeskInv
  <2>3. R!RevisionNamesBody
    BY DEF DeskInv, R!RegisterInv
  <2> QED  BY <2>1, <2>2, <2>3 DEF R!RevisionNamesBody, Ver
<1> QED  BY <1>2, <1>3, <1>4

\* "Stale revisions never silently overwrite newer data": a save of this window
\* that changes a week replaces the body it was made from.
THEOREM SavesReplaceWhatTheyWereMadeFrom == Spec => NoSilentOverwrite
<1> DEFINE Act == \A w \in Week :
       weeks'[w] # weeks[w] /\ era' = era /\ ~OtherSaves =>
         \E s \in Sent : \E wr \in s.writes :
           /\ wr.week = w /\ wr.body = weeks'[w].body
           /\ wr.era = era /\ ~ghost.misfiled => wr.base = weeks[w].body
<1>1. ASSUME DeskInv, [Next]_vars PROVE [Act]_vars
  <2> SUFFICES ASSUME Next, NEW w \in Week, weeks'[w] # weeks[w], era' = era, ~OtherSaves
               PROVE  \E s \in Sent : \E wr \in s.writes :
                        /\ wr.week = w /\ wr.body = weeks'[w].body
                        /\ wr.era = era /\ ~ghost.misfiled => wr.base = weeks[w].body
    BY <1>1
  <2>1. ~ReplaceAccount /\ ~UNCHANGED routeVars
    BY RegisterTyped, <1>1 DEF ReplaceAccount, routeVars, DeskInv
  <2>2. \A op, token : ~PostRestore(op, token)
    BY <2>1 DEF PostRestore
  <2>3. ServerAnswers \/ StrayRuns
    BY <2>1, WindowLeavesRoutes DEF Next, Others, OtherRestores
  <2>4. PICK s \in Sent : PostChanges(s.op, s.writes)
    <3>1. CASE ServerAnswers
      BY <2>1, <2>2, <3>1 DEF ServerAnswers, Sent
    <3>2. CASE StrayRuns
      BY <2>2, <3>2 DEF StrayRuns, Sent
    <3> QED  BY <2>3, <3>1, <3>2
  <2>5. IsPost(s, history, ghost.misfiled)
    BY <1>1, WindowFacts, CallKinds DEF Sent, IsRestore
  <2>6. BatchOK(s.writes, history, ghost.misfiled)
    BY <2>5 DEF IsPost
  <2> QED  BY <1>1, <2>4, <2>6, PostReplacesWhatItRead
<1> HIDE DEF Act
<1>2. Spec => [][Act]_vars
  BY <1>1, DeskInvariant, PTL DEF Spec
<1> QED  BY <1>2 DEF NoSilentOverwrite, Act

LEMMA SameRegister ==
  (R!Init <=> Register!Init) /\ (R!Next <=> Register!Next) /\ (UNCHANGED R!registerVars <=> UNCHANGED Register!registerVars)
<1>1. R!Init <=> Register!Init
  BY DEF R!Init, Register!Init, R!Snapshots, Register!Snapshots, R!Versions, Register!Versions,
         R!Stored, Register!Stored, R!Nothing, Register!Nothing
<1>2. R!Next <=> Register!Next
  BY DEF R!Next, Register!Next, R!Save, Register!Save, R!Restore, Register!Restore,
         R!Snapshots, Register!Snapshots, R!Versions, Register!Versions,
         R!Stored, Register!Stored, R!Nothing, Register!Nothing
<1> QED  BY <1>1, <1>2 DEF R!registerVars, Register!registerVars

\* Every run of a save or restore route, late or repeated as it may be, is a step
\* of RevisionedWeeks: the routes keep what that module promises.
THEOREM RoutesImplementRegister == Spec => ImplementsRegister
<1>1. Init => Register!Init
  BY InitIsRegister, SameRegister DEF Init
<1>2. DeskInv /\ [Next]_vars => [Register!Next]_(Register!registerVars)
  <2> SUFFICES ASSUME DeskInv, [Next]_vars PROVE Register!Next \/ UNCHANGED Register!registerVars
    OBVIOUS
  <2> QED  BY StepKeepsDeskInv, SameRegister
<1>3. Spec => Register!Spec
  BY <1>1, <1>2, DeskInvariant, PTL DEF Spec, Register!Spec
<1> QED  BY <1>3 DEF ImplementsRegister

-----------------------------------------------------------------------------
(* The student's edits.                                                    *)
Bodies(H) == UNION {v.body : v \in H}

\* What the property is about.
Owed(g) == g.made \ (g.excused \cup g.exposed)

\* What a copy keeps that the store may not have had.
Own(d) == IF d.dirty THEN d.body ELSE {}
HoldOf(d) == Own(d) \cup Elsewhere(d)
Aside(ds) == UNION {HoldOf(ds[w]) : w \in DOMAIN ds}

\* What of the open week is not lost when the answer on its way replaces it.
Surviving(d, c) ==
  IF c.kind = "load" /\ c.week = d.week THEN {}
  ELSE IF c.kind = "post"
    THEN {b \in Own(d) : \A wr \in c.writes : wr.week = d.week => b \in wr.body} \cup Elsewhere(d)
  ELSE HoldOf(d)

\* A save that is sent again says what is on screen.
Resendable(d) ==
  d.pending # None => \A wr \in d.pending.writes : wr.week = d.week => d.body \ {Movable} \subseteq wr.body

CallFits(d, ds, c) ==
  /\ c.kind = "load" => c.week \notin DOMAIN ds
  /\ c.kind = "fetch" /\ c.use = "move" => d.pending = None
  /\ c.kind = "fetch" /\ c.use = "add" => c.week # d.week /\ c.block \in Pasted
  /\ c.kind = "post" => d.pending = None \/ d.pending.writes = c.writes

AsideOK(ds) == \A w \in DOMAIN ds : Resendable(ds[w]) /\ Held(ds[w]) /\ ds[w].in

\* The work M of the student is in one of these places.
Covered(M, d, ds, c, wt, S) ==
  /\ Resendable(d)
  /\ AsideOK(ds)
  /\ CallFits(d, ds, c)
  /\ ~d.in => ~Held(d) /\ c = Idle /\ wt = None
  /\ M \subseteq S \cup {wt} \cup Aside(ds) \cup Surviving(d, c)

\* Work that may be anywhere in the copies, before a request begins.
Loose(M, d, ds, wt, S) ==
  /\ Resendable(d)
  /\ AsideOK(ds)
  /\ d.in
  /\ M \subseteq S \cup {wt} \cup Aside(ds) \cup HoldOf(d)

Works(M) == M \subseteq Typed \cup Dropped \cup Pasted

EditsOK(d, ds, c, wt, g, S) == Works(g.made) /\ Covered(Owed(g), d, ds, c, wt, S)

EditsInv == EditsOK(desk, drafts, call, waiting, ghost, Bodies(history)) /\ nextOp \in Nat

LEMMA WorksFacts ==
  ASSUME NEW M, Works(M)
  PROVE  Movable \notin M /\ None \notin M /\ M \subseteq Block
  BY DeskAssumption, RoutesAssumption DEF Works

LEMMA SurvivingIsHeld ==
  ASSUME NEW d, NEW c
  PROVE  /\ Surviving(d, c) \subseteq HoldOf(d)
         /\ Surviving(d, Idle) = HoldOf(d)
         /\ c.kind \notin {"load", "post"} => Surviving(d, c) = HoldOf(d)
         /\ c.kind = "load" /\ c.week # d.week => Surviving(d, c) = HoldOf(d)
  BY DEF Surviving, HoldOf, Idle

LEMMA NothingHeld ==
  ASSUME NEW d, ~Held(d), DeskTyped(d)
  PROVE  HoldOf(d) = {} /\ Resendable(d) /\ d.pending = None /\ d.dirty = FALSE
  BY DEF HoldOf, Own, Elsewhere, Held, Resendable, DeskTyped

LEMMA SameHold ==
  ASSUME NEW d, NEW e, e.week = d.week, e.body = d.body, e.dirty = d.dirty, e.pending = d.pending
  PROVE  /\ HoldOf(e) = HoldOf(d) /\ Own(e) = Own(d) /\ Elsewhere(e) = Elsewhere(d)
         /\ Resendable(e) <=> Resendable(d)
         /\ Held(e) <=> Held(d)
  BY DEF HoldOf, Own, Elsewhere, Held, Resendable

LEMMA IdleCovers ==
  ASSUME NEW M, NEW d, NEW ds, NEW wt, NEW S, Loose(M, d, ds, wt, S)
  PROVE  Covered(M, d, ds, Idle, wt, S)
<1>1. CallFits(d, ds, Idle)
  BY DEF CallFits, Idle
<1> QED  BY <1>1, SurvivingIsHeld DEF Covered, Loose

LEMMA CoveredLoose ==
  ASSUME NEW M, NEW d, NEW ds, NEW c, NEW wt, NEW S, Covered(M, d, ds, c, wt, S), d.in
  PROVE  Loose(M, d, ds, wt, S)
  BY SurvivingIsHeld DEF Covered, Loose
-----------------------------------------------------------------------------
LEMMA ParkedHolds ==
  ASSUME NEW d, NEW ds, DeskTyped(d), AsideOK(ds), Resendable(d), d.in, d.week \notin DOMAIN ds
  PROVE  /\ AsideOK(Parked(d, ds))
         /\ DOMAIN Parked(d, ds) \subseteq DOMAIN ds \cup {d.week}
         /\ DOMAIN ds \subseteq DOMAIN Parked(d, ds)
         /\ \A w \in DOMAIN ds : Parked(d, ds)[w] = ds[w]
         /\ HoldOf(d) \cup Aside(ds) \subseteq Aside(Parked(d, ds))
<1> DEFINE aside == [d EXCEPT !.travel = None, !.trip = None]
           more == [w \in {d.week} \cup DOMAIN ds |-> IF w = d.week THEN aside ELSE ds[w]]
<1>1. CASE Held(d)
  <2>1. Parked(d, ds) = more
    BY <1>1 DEF Parked
  <2>2. /\ aside.in = d.in /\ aside.week = d.week /\ aside.body = d.body
        /\ aside.dirty = d.dirty /\ aside.pending = d.pending
    BY DEF DeskTyped
  <2> HIDE DEF aside
  <2>3. HoldOf(aside) = HoldOf(d) /\ Resendable(aside) /\ Held(aside) /\ aside.in
    BY <1>1, <2>2, SameHold
  <2>4. /\ DOMAIN more = DOMAIN ds \cup {d.week} /\ more[d.week] = aside
        /\ \A w \in DOMAIN ds : more[w] = ds[w]
    OBVIOUS
  <2> HIDE DEF more
  <2>5. AsideOK(more)
    BY <2>3, <2>4 DEF AsideOK
  <2>6. HoldOf(d) \subseteq Aside(more)
    BY <2>3, <2>4 DEF Aside
  <2>7. Aside(ds) \subseteq Aside(more)
    BY <2>4 DEF Aside
  <2> QED  BY <2>1, <2>4, <2>5, <2>6, <2>7
<1>2. CASE ~Held(d)
  <2>1. Parked(d, ds) = ds
    BY <1>2 DEF Parked
  <2> QED  BY <1>2, <2>1, NothingHeld
<1> QED  BY <1>1, <1>2

LEMMA WithoutHolds ==
  ASSUME NEW ds, AsideOK(ds), NEW w
  PROVE  /\ AsideOK(Without(ds, w)) /\ DOMAIN Without(ds, w) = DOMAIN ds \ {w}
         /\ w \notin DOMAIN ds => Aside(ds) \subseteq Aside(Without(ds, w))
         /\ w \in DOMAIN ds => Aside(ds) \subseteq HoldOf(ds[w]) \cup Aside(Without(ds, w))
<1>1. DOMAIN Without(ds, w) = DOMAIN ds \ {w} /\ \A u \in DOMAIN ds \ {w} : Without(ds, w)[u] = ds[u]
  BY DEF Without, Restrict
<1>2. AsideOK(Without(ds, w))
  BY <1>1 DEF AsideOK
<1>3. ASSUME NEW u \in DOMAIN ds, u # w
      PROVE  HoldOf(ds[u]) \subseteq Aside(Without(ds, w))
  BY <1>1, <1>3 DEF Aside
<1>4. w \notin DOMAIN ds => Aside(ds) \subseteq Aside(Without(ds, w))
  BY <1>3 DEF Aside
<1>5. w \in DOMAIN ds => Aside(ds) \subseteq HoldOf(ds[w]) \cup Aside(Without(ds, w))
  BY <1>3 DEF Aside
<1> QED  BY <1>1, <1>2, <1>4, <1>5

LEMMA LoadWeekCovers ==
  ASSUME NEW M, NEW d, NEW ds, NEW wt, NEW S, NEW w, NEW discard \in BOOLEAN,
         Loose(M, d, ds, wt, S), DeskTyped(d), d.week \notin DOMAIN ds,
         \A u \in DOMAIN ds : DeskTyped(ds[u]),
         discard => ~Held(d) /\ w = d.week,
         LoadWeek(d, ds, w, discard)
  PROVE  Covered(M, desk', drafts', call', wt, S)
<1>0. Resendable(d) /\ AsideOK(ds) /\ d.in /\ M \subseteq S \cup {wt} \cup Aside(ds) \cup HoldOf(d)
  BY DEF Loose
<1>1. CASE ~discard /\ w = d.week /\ Held(d)
  <2>1. desk' = d /\ drafts' = ds /\ call' = Idle
    BY <1>1 DEF LoadWeek
  <2> QED  BY <2>1, IdleCovers
<1>2. CASE /\ ~discard /\ w # d.week /\ w \in DOMAIN ds /\ Held(ds[w])
           /\ ~(~discard /\ w = d.week /\ Held(d))
  <2> DEFINE e == [ds[w] EXCEPT !.travel = d.travel, !.trip = d.trip]
             pk == Parked(d, ds)
             new == Without(pk, w)
  <2>1. desk' = e /\ drafts' = new /\ call' = Idle
    BY <1>2 DEF LoadWeek
  <2>2. DeskTyped(ds[w]) /\ Resendable(ds[w]) /\ ds[w].in
    BY <1>0, <1>2 DEF AsideOK
  <2>3. /\ e.in = ds[w].in /\ e.week = ds[w].week /\ e.body = ds[w].body
        /\ e.dirty = ds[w].dirty /\ e.pending = ds[w].pending
    BY <2>2 DEF DeskTyped
  <2> HIDE DEF e
  <2>4. HoldOf(e) = HoldOf(ds[w]) /\ Resendable(e) /\ e.in
    BY <2>2, <2>3, SameHold
  <2>5. /\ AsideOK(pk) /\ w \in DOMAIN pk /\ pk[w] = ds[w]
        /\ HoldOf(d) \cup Aside(ds) \subseteq Aside(pk)
    BY <1>0, <1>2, ParkedHolds
  <2> HIDE DEF pk
  <2>6. AsideOK(new) /\ Aside(pk) \subseteq HoldOf(ds[w]) \cup Aside(new)
    BY <2>5, WithoutHolds
  <2> HIDE DEF new
  <2>7. Loose(M, e, new, wt, S)
    BY <1>0, <2>4, <2>5, <2>6 DEF Loose
  <2> QED  BY <2>1, <2>7, IdleCovers
<1>3. CASE /\ ~(~discard /\ w # d.week /\ w \in DOMAIN ds /\ Held(ds[w]))
           /\ ~(~discard /\ w = d.week /\ Held(d))
  <2> DEFINE new == IF discard THEN Without(ds, w) ELSE ds
  <2>1. desk' = d /\ drafts' = new /\ call' = Load(w)
    BY <1>3 DEF LoadWeek
  <2>2. w \notin DOMAIN ds
    BY <1>0, <1>3 DEF AsideOK
  <2>3. AsideOK(new) /\ DOMAIN new \subseteq DOMAIN ds /\ Aside(ds) \subseteq Aside(new)
    <3>1. /\ AsideOK(Without(ds, w)) /\ DOMAIN Without(ds, w) \subseteq DOMAIN ds
          /\ Aside(ds) \subseteq Aside(Without(ds, w))
      BY <1>0, <2>2, WithoutHolds
    <3>2. CASE discard
      BY <3>1, <3>2
    <3>3. CASE ~discard
      BY <1>0, <3>3
    <3> QED  BY <3>2, <3>3
  <2> HIDE DEF new
  <2>4. Load(w).kind = "load" /\ Load(w).week = w
    BY DEF Load
  <2>5. CallFits(d, new, Load(w))
    BY <2>2, <2>3, <2>4 DEF CallFits
  <2>6. HoldOf(d) \subseteq Surviving(d, Load(w))
    <3>1. CASE w = d.week
      BY <1>3, <3>1, NothingHeld
    <3>2. CASE w # d.week
      BY <2>4, <3>2, SurvivingIsHeld
    <3> QED  BY <3>1, <3>2
  <2>7. Covered(M, d, new, Load(w), wt, S)
    BY <1>0, <2>3, <2>5, <2>6 DEF Covered
  <2> QED  BY <2>1, <2>7
<1> QED  BY <1>1, <1>2, <1>3

LEMMA SavesCovers ==
  ASSUME NEW M, NEW d, NEW ds, NEW wt, NEW S, Loose(M, d, ds, wt, S), DeskTyped(d),
         Movable \notin M, call = Idle, Saves(d)
  PROVE  Covered(M, desk', ds, call', wt, S)
<1>0. Resendable(d) /\ AsideOK(ds) /\ d.in /\ M \subseteq S \cup {wt} \cup Aside(ds) \cup HoldOf(d)
  BY DEF Loose
<1>1. CASE d.conflict \/ (d.pending = None /\ Unrevised(d))
  <2>1. desk' = d /\ call' = Idle
    BY <1>1 DEF Saves
  <2> QED  BY <2>1, IdleCovers
<1>2. CASE ~(d.conflict \/ (d.pending = None /\ Unrevised(d)))
  <2> DEFINE e == Prepared(d)
             ws == {Open(d, d.body)} \cup TripWrites(d)
  <2>1. desk' = e /\ call' = Post(e)
    BY <1>2 DEF Saves
  <2>2. e.in = d.in /\ e.week = d.week /\ e.body = d.body /\ e.dirty = d.dirty
    BY DEF Prepared, DeskTyped
  <2>3. d.pending # None => e.pending = d.pending
    BY DEF Prepared
  <2>4. d.pending = None => e.pending.writes = ws
    <3> DEFINE p == [op |-> nextOp, writes |-> ws, stay |-> TripWrites(d) # {}]
               s == IF d.travel = None THEN Capture(d) ELSE d.step
    <3>1. ASSUME d.pending = None PROVE e = [d EXCEPT !.pending = p, !.step = s]
      BY <3>1 DEF Prepared
    <3>2. p.writes = ws /\ DOMAIN p = {"op", "writes", "stay"}
      OBVIOUS
    <3> HIDE DEF p, s, ws, e
    <3>3. ASSUME d.pending = None PROVE e.pending = p
      BY <3>1, <3>3 DEF DeskTyped
    <3> QED  BY <3>2, <3>3
  <2>5. \A wr \in ws : wr.week = d.week => wr.body = d.body
    <3>1. \A wr \in TripWrites(d) : wr.week # d.week
      BY DEF TripWrites, Write
    <3>2. Open(d, d.body).body = d.body
      BY DEF Open, Write
    <3> QED  BY <3>1, <3>2
  <2> HIDE DEF e, ws
  <2>6. Resendable(e) /\ \A wr \in e.pending.writes : wr.week = d.week => d.body \ {Movable} \subseteq wr.body
    <3>1. CASE d.pending = None
      BY <2>2, <2>4, <2>5, <3>1 DEF Resendable
    <3>2. CASE d.pending # None
      BY <1>0, <2>2, <2>3, <3>2 DEF Resendable
    <3> QED  BY <3>1, <3>2
  <2>7. Post(e).kind = "post" /\ Post(e).writes = e.pending.writes
    BY DEF Post
  <2>8. CallFits(e, ds, Post(e))
    BY <2>7 DEF CallFits
  <2>9. Elsewhere(d) \subseteq Elsewhere(e)
    BY <2>2, <2>3 DEF Elsewhere
  <2>10. Own(e) = Own(d) /\ Own(d) \subseteq d.body
    BY <2>2 DEF Own
  <2>11. \A b \in HoldOf(d) : b # Movable => b \in Surviving(e, Post(e))
    BY <2>2, <2>6, <2>7, <2>9, <2>10 DEF Surviving, HoldOf
  <2>12. Covered(M, e, ds, Post(e), wt, S)
    BY <1>0, <2>2, <2>6, <2>8, <2>11 DEF Covered
  <2> QED  BY <2>1, <2>12
<1> QED  BY <1>1, <1>2

-----------------------------------------------------------------------------
(* EditsInv, action by action: reading a week, editing.                    *)

LEMMA EditsFacts ==
  ASSUME DeskInv, EditsInv
  PROVE  /\ Works(ghost.made) /\ nextOp \in Nat /\ GhostTyped(ghost)
         /\ Movable \notin Owed(ghost) /\ None \notin Owed(ghost)
         /\ Covered(Owed(ghost), desk, drafts, call, waiting, Bodies(history))
         /\ desk.in => Loose(Owed(ghost), desk, drafts, waiting, Bodies(history))
         /\ call # Idle => desk.in
         /\ waiting # None => desk.in
         /\ DeskTyped(desk) /\ desk.week \notin DOMAIN drafts
         /\ \A u \in DOMAIN drafts : DeskTyped(drafts[u])
<1>1. Works(ghost.made) /\ nextOp \in Nat
      /\ Covered(Owed(ghost), desk, drafts, call, waiting, Bodies(history))
  BY DEF EditsInv, EditsOK
<1>2. Owed(ghost) \subseteq ghost.made
  BY DEF Owed
<1>3. Movable \notin ghost.made /\ None \notin ghost.made
  BY <1>1, WorksFacts
<1>4. desk.in => Loose(Owed(ghost), desk, drafts, waiting, Bodies(history))
  BY <1>1, CoveredLoose
<1>5. ~desk.in => call = Idle /\ waiting = None
  BY <1>1 DEF Covered
<1>6. \A u \in DOMAIN drafts : DeskTyped(drafts[u])
  BY WindowFacts DEF CopiesOK, DeskOK
<1> QED  BY <1>1, <1>2, <1>3, <1>4, <1>5, <1>6, WindowFacts

LEMMA WindowEdits ==
  ASSUME UNCHANGED routeVars, Works(ghost'.made), nextOp' \in Nat,
         Covered(Owed(ghost'), desk', drafts', call', waiting', Bodies(history))
  PROVE  EditsInv'
<1>1. Bodies(history') = Bodies(history)
  BY DEF routeVars
<1> QED  BY <1>1 DEF EditsInv, EditsOK

LEMMA LessLoose ==
  ASSUME NEW M, NEW L, L \subseteq M, NEW d, NEW ds, NEW wt, NEW S, Loose(M, d, ds, wt, S)
  PROVE  Loose(L, d, ds, wt, S)
  BY DEF Loose

\* The copy is another, and holds what is still owed.
LEMMA OtherCopy ==
  ASSUME NEW M, NEW L, NEW d, NEW e, NEW ds, NEW wt, NEW S, Loose(M, d, ds, wt, S),
         Resendable(e), e.in, L \subseteq (M \ HoldOf(d)) \cup HoldOf(e)
  PROVE  Loose(L, e, ds, wt, S)
  BY DEF Loose

LEMMA LoadOkEdits == ASSUME DeskInv, EditsInv, LoadOk PROVE EditsInv'
<1> DEFINE v == call.data
           other == v.week # desk.week
           ku == IF other THEN <<>> ELSE IF v.rev # desk.rev THEN MarkStale(desk.undo, v.week) ELSE desk.undo
           kr == IF other THEN <<>> ELSE IF v.rev # desk.rev THEN MarkStale(desk.redo, v.week) ELSE desk.redo
           e == [desk EXCEPT !.week = v.week, !.body = v.body, !.base = v.body,
                             !.rev = v.rev, !.era = v.era, !.dirty = FALSE,
                             !.conflict = FALSE, !.pending = None, !.step = None,
                             !.undo = ku, !.redo = kr]
           pk == IF other THEN Parked(desk, drafts) ELSE drafts
           new == Without(pk, v.week)
           M == Owed(ghost)
           S == Bodies(history)
<1>1. v.week = call.week /\ call.kind = "load"
  BY WindowFacts, CallKinds DEF LoadOk, IsLoad
<1>2. /\ desk' = e /\ drafts' = new /\ call' = Idle
      /\ ghost' = [ghost EXCEPT !.limbo = @ \ {v.week}, !.torn = @ \/ Mistaken(v)]
      /\ UNCHANGED <<routeVars, waiting, nextOp>>
  BY DEF LoadOk
<1>3. call # Idle
  BY <1>1 DEF Idle
<1>4. desk.in /\ Loose(M, desk, drafts, waiting, S) /\ DeskTyped(desk) /\ desk.week \notin DOMAIN drafts
      /\ Covered(M, desk, drafts, call, waiting, S) /\ Works(ghost.made)
  BY <1>3, EditsFacts
<1>5. v.week \notin DOMAIN drafts
  BY <1>1, <1>4 DEF Covered, CallFits
<1>6. Owed(ghost') = M /\ ghost'.made = ghost.made
  BY <1>2, WindowFacts DEF Owed, GhostTyped
<1>7. AsideOK(pk) /\ v.week \notin DOMAIN pk /\ M \subseteq S \cup {waiting} \cup Aside(pk)
  <2>1. CASE other
    <3>1. /\ AsideOK(Parked(desk, drafts)) /\ DOMAIN Parked(desk, drafts) \subseteq DOMAIN drafts \cup {desk.week}
          /\ HoldOf(desk) \cup Aside(drafts) \subseteq Aside(Parked(desk, drafts))
      BY <1>4, ParkedHolds DEF Loose
    <3> QED  BY <1>4, <1>5, <2>1, <3>1 DEF Loose
  <2>2. CASE ~other
    <3>1. Surviving(desk, call) = {}
      BY <1>1, <2>2 DEF Surviving
    <3> QED  BY <1>4, <1>5, <2>2, <3>1 DEF Covered
  <2> QED  BY <2>1, <2>2
<1> HIDE DEF v, ku, kr, pk
<1>8. AsideOK(new) /\ Aside(pk) \subseteq Aside(new)
  BY <1>7, WithoutHolds
<1>9. e.in /\ e.dirty = FALSE /\ e.pending = None /\ DOMAIN e = DOMAIN desk
  BY <1>4 DEF DeskTyped
<1> HIDE DEF e, new
<1>10. Resendable(e)
  BY <1>9 DEF Resendable
<1>11. Loose(M, e, new, waiting, S)
  BY <1>7, <1>8, <1>9, <1>10 DEF Loose
<1>12. Covered(M, e, new, Idle, waiting, S)
  BY <1>11, IdleCovers
<1> QED  BY <1>2, <1>4, <1>6, <1>12, EditsFacts, WindowEdits

LEMMA SwitchWeekEdits == ASSUME DeskInv, EditsInv, SwitchWeek PROVE EditsInv'
<1>1. PICK w \in Week \ {desk.week} : LoadWeek(desk, drafts, w, FALSE)
  BY DEF SwitchWeek
<1>2. UNCHANGED <<routeVars, waiting, ghost, nextOp>> /\ desk.in
  BY DEF SwitchWeek
<1>3. Covered(Owed(ghost), desk', drafts', call', waiting, Bodies(history))
  BY <1>1, <1>2, EditsFacts, LoadWeekCovers
<1> QED  BY <1>2, <1>3, EditsFacts, WindowEdits

LEMMA ReloadEdits == ASSUME DeskInv, EditsInv, Reload PROVE EditsInv'
<1> DEFINE e == [desk EXCEPT !.dirty = FALSE, !.conflict = FALSE, !.pending = None]
<1>1. LoadWeek(e, drafts, desk.week, TRUE) /\ UNCHANGED <<routeVars, waiting, nextOp>> /\ desk.in
  BY DEF Reload
<1>2. ghost' = [ghost EXCEPT !.excused = @ \cup desk.body \cup Elsewhere(desk),
                             !.limbo = @ \cup {desk.week}]
  BY DEF Reload
<1>3. Owed(ghost') \subseteq Owed(ghost) \ HoldOf(desk) /\ ghost'.made = ghost.made
  BY <1>2, WindowFacts DEF Owed, GhostTyped, HoldOf, Own
<1>4. e.in /\ e.dirty = FALSE /\ e.pending = None /\ e.week = desk.week /\ DeskTyped(e)
  BY <1>1, WindowFacts DEF DeskTyped
<1> HIDE DEF e
<1>5. ~Held(e) /\ Resendable(e)
  BY <1>4 DEF Held, Resendable
<1>6. Loose(Owed(ghost'), e, drafts, waiting, Bodies(history))
  BY <1>1, <1>3, <1>4, <1>5, EditsFacts, OtherCopy
<1>7. Covered(Owed(ghost'), desk', drafts', call', waiting, Bodies(history))
  BY <1>1, <1>4, <1>5, <1>6, EditsFacts, LoadWeekCovers
<1> QED  BY <1>1, <1>3, <1>7, EditsFacts, WindowEdits

\* Only a mark of the copy changes.
LEMMA MarkedCovers ==
  ASSUME NEW M, NEW d, NEW e, NEW ds, NEW c, NEW wt, NEW S, Covered(M, d, ds, c, wt, S),
         e.in = d.in, e.week = d.week, e.body = d.body, e.dirty = d.dirty, e.pending = d.pending
  PROVE  Covered(M, e, ds, c, wt, S)
<1>1. /\ HoldOf(e) = HoldOf(d) /\ Own(e) = Own(d) /\ Elsewhere(e) = Elsewhere(d)
      /\ Resendable(e) <=> Resendable(d)
      /\ Held(e) <=> Held(d)
  BY SameHold
<1>2. Surviving(e, c) = Surviving(d, c)
  BY <1>1 DEF Surviving
<1>3. CallFits(e, ds, c) <=> CallFits(d, ds, c)
  BY DEF CallFits
<1> QED  BY <1>1, <1>2, <1>3 DEF Covered

LEMMA AcceptRemoteWeekEdits == ASSUME DeskInv, EditsInv, AcceptRemoteWeek PROVE EditsInv'
<1>1. UNCHANGED <<routeVars, waiting, ghost, nextOp>> /\ desk.in
  BY DEF AcceptRemoteWeek
<1>2. CASE Held(desk)
  <2> DEFINE e == [desk EXCEPT !.conflict = TRUE]
  <2>1. desk' = e /\ drafts' = drafts /\ call' = call
    BY <1>2 DEF AcceptRemoteWeek
  <2>2. e.in = desk.in /\ e.week = desk.week /\ e.body = desk.body /\ e.dirty = desk.dirty
        /\ e.pending = desk.pending
    BY WindowFacts DEF DeskTyped
  <2> HIDE DEF e
  <2>3. Covered(Owed(ghost), e, drafts, call, waiting, Bodies(history))
    BY <2>2, EditsFacts, MarkedCovers
  <2> QED  BY <1>1, <2>1, <2>3, EditsFacts, WindowEdits
<1>3. CASE ~Held(desk)
  <2>1. LoadWeek(desk, drafts, desk.week, TRUE)
    BY <1>3 DEF AcceptRemoteWeek
  <2>2. Covered(Owed(ghost), desk', drafts', call', waiting, Bodies(history))
    BY <1>1, <1>3, <2>1, EditsFacts, LoadWeekCovers
  <2> QED  BY <1>1, <2>2, EditsFacts, WindowEdits
<1> QED  BY <1>2, <1>3

-----------------------------------------------------------------------------
LEMMA TouchedIs ==
  ASSUME NEW d, DeskTyped(d), NEW body \in SUBSET Block
  PROVE  /\ Touched(d, body).in = d.in /\ Touched(d, body).week = d.week
         /\ Touched(d, body).body = body /\ Touched(d, body).dirty = TRUE
         /\ Touched(d, body).pending = None /\ DeskTyped(Touched(d, body))
         /\ HoldOf(Touched(d, body)) = body /\ Elsewhere(Touched(d, body)) = {}
         /\ Own(Touched(d, body)) = body
         /\ Resendable(Touched(d, body))
<1> DEFINE e == Touched(d, body)
<1>1. e.in = d.in /\ e.week = d.week /\ e.body = body /\ e.dirty = TRUE /\ e.pending = None
  BY DEF DeskTyped, Touched
<1>2. DeskTyped(e)
  BY DEF DeskTyped, Touched
<1> HIDE DEF e
<1>3. HoldOf(e) = body /\ Elsewhere(e) = {} /\ Own(e) = body /\ Resendable(e)
  BY <1>1 DEF HoldOf, Own, Elsewhere, Resendable
<1> QED  BY <1>1, <1>2, <1>3 DEF e

LEMMA MadeIs ==
  ASSUME GhostTyped(ghost), NEW b
  PROVE  /\ Made(b).made = ghost.made \cup {b}
         /\ Owed(Made(b)) \subseteq (Owed(ghost) \ Elsewhere(desk)) \cup {b}
         /\ Replacing => b \notin Owed(Made(b))
  BY DEF GhostTyped, Made, Owed

\* Block b is added while nothing is on its way.
LEMMA EditSaved ==
  ASSUME DeskInv, EditsInv, NEW b \in Typed \cup Dropped, call = Idle, desk.in,
         Saves(Touched(desk, desk.body \cup {b})), ghost' = Made(b),
         UNCHANGED <<routeVars, drafts>>, waiting' = waiting \/ (waiting' = None /\ waiting = b),
         nextOp' \in Nat
  PROVE  EditsInv'
<1> DEFINE d == Touched(desk, desk.body \cup {b})
           L == Owed(ghost')
           S == Bodies(history)
<1>1. b \in Block /\ b # Movable /\ desk.body \cup {b} \in SUBSET Block
  BY WindowFacts, DeskAssumption DEF DeskTyped
<1>2. d.in = desk.in /\ DeskTyped(d) /\ HoldOf(d) = desk.body \cup {b} /\ Resendable(d)
  BY <1>1, WindowFacts, TouchedIs
<1>3. ghost'.made = ghost.made \cup {b} /\ L \subseteq (Owed(ghost) \ Elsewhere(desk)) \cup {b}
  BY WindowFacts, MadeIs
<1>4. Works(ghost'.made) /\ Movable \notin L
  BY <1>1, <1>3, EditsFacts DEF Works
<1>5. Loose(Owed(ghost), desk, drafts, waiting, S)
  BY EditsFacts
<1>6. HoldOf(desk) \subseteq desk.body \cup Elsewhere(desk)
  BY DEF HoldOf, Own
<1> HIDE DEF d, L
<1>7. Loose(L, d, drafts, waiting', S)
  BY <1>2, <1>3, <1>5, <1>6 DEF Loose
<1>8. Saves(d)
  BY DEF d
<1>9. Covered(L, desk', drafts, call', waiting', S)
  BY <1>2, <1>4, <1>7, <1>8, SavesCovers
<1> QED  BY <1>4, <1>9, WindowEdits DEF L

LEMMA AddBlockEdits == ASSUME DeskInv, EditsInv, AddBlock PROVE EditsInv'
<1>1. PICK b \in Typed : /\ IF Busy THEN desk' = Touched(desk, desk.body \cup {b}) /\ UNCHANGED <<call, nextOp>>
                            ELSE Saves(Touched(desk, desk.body \cup {b}))
                         /\ ghost' = Made(b)
  BY DEF AddBlock
<1>2. UNCHANGED <<routeVars, drafts, waiting>> /\ desk.in
  BY DEF AddBlock
<1>3. CASE ~Busy
  <2>1. Saves(Touched(desk, desk.body \cup {b})) /\ call = Idle
    BY <1>1, <1>3 DEF Busy
  <2>2. nextOp' \in Nat
    BY <2>1, EditsFacts DEF Saves
  <2> QED  BY <1>1, <1>2, <2>1, <2>2, EditSaved
<1>4. CASE Busy
  <2> DEFINE d == Touched(desk, desk.body \cup {b})
             L == Owed(ghost')
             S == Bodies(history)
  <2>1. desk' = d /\ call' = call /\ nextOp' = nextOp
    BY <1>1, <1>4
  <2>2. b \in Block /\ desk.body \cup {b} \in SUBSET Block
    BY WindowFacts, DeskAssumption DEF DeskTyped
  <2>3. /\ d.in = desk.in /\ d.week = desk.week /\ d.pending = None
        /\ HoldOf(d) = desk.body \cup {b} /\ Own(d) = desk.body \cup {b} /\ Resendable(d)
    <3> DEFINE body == desk.body \cup {b}
    <3>1. DeskTyped(desk) /\ body \in SUBSET Block
      BY <2>2, WindowFacts
    <3> HIDE DEF body
    <3>2. /\ Touched(desk, body).in = desk.in /\ Touched(desk, body).week = desk.week
          /\ Touched(desk, body).pending = None /\ HoldOf(Touched(desk, body)) = body
          /\ Own(Touched(desk, body)) = body /\ Resendable(Touched(desk, body))
      BY <3>1, TouchedIs
    <3> QED  BY <3>2 DEF body
  <2> HIDE DEF d
  <2>4. /\ ghost'.made = ghost.made \cup {b}
        /\ L \subseteq (Owed(ghost) \ Elsewhere(desk)) \cup {b}
        /\ Replacing => b \notin L
    BY <1>1, WindowFacts, MadeIs
  <2> HIDE DEF L
  <2>5. Works(ghost'.made)
    BY <2>4, EditsFacts DEF Works
  <2>6. Covered(Owed(ghost), desk, drafts, call, waiting, S)
    BY EditsFacts
  <2>7. CallFits(d, drafts, call)
    BY <2>3, <2>6 DEF Covered, CallFits
  <2>8. Surviving(desk, call) \ Elsewhere(desk) \subseteq Surviving(d, call)
    BY <2>3 DEF Surviving, HoldOf, Own
  <2>9. b \in L => b \in Surviving(d, call)
    <3>1. CASE call.kind = "load" /\ call.week = desk.week
      BY <2>4, <3>1 DEF Replacing
    <3>2. CASE call.kind = "post"
      <4>1. b \in L => \A wr \in call.writes : wr.week # desk.week
        BY <2>4, <3>2 DEF Replacing
      <4> QED  BY <2>3, <3>2, <4>1 DEF Surviving
    <3>3. CASE ~(call.kind = "load" /\ call.week = desk.week) /\ call.kind # "post"
      BY <2>3, <3>3 DEF Surviving
    <3> QED  BY <3>1, <3>2, <3>3
  <2>10. Covered(L, d, drafts, call, waiting, S)
    BY <1>2, <2>3, <2>4, <2>6, <2>7, <2>8, <2>9 DEF Covered
  <2> QED  BY <1>2, <2>1, <2>5, <2>10, EditsFacts, WindowEdits DEF L
<1> QED  BY <1>3, <1>4

-----------------------------------------------------------------------------
(* EditsInv: placing, undo, work that concerns two weeks.                  *)

LEMMA PlaceEdits ==
  ASSUME DeskInv, EditsInv, NEW b \in Dropped, call = Idle, desk.in, Place(b),
         UNCHANGED <<routeVars, drafts>>, waiting' = waiting \/ (waiting' = None /\ waiting = b)
  PROVE  EditsInv'
<1>1. CASE Movable \in desk.body
  <2>1. Saves(Touched(desk, desk.body \cup {b})) /\ ghost' = Made(b)
    BY <1>1 DEF Place
  <2>2. nextOp' \in Nat
    BY <2>1, EditsFacts DEF Saves
  <2> QED  BY <2>1, <2>2, EditSaved
<1>2. CASE Movable \notin desk.body
  <2>1. ghost' = [ghost EXCEPT !.made = @ \cup {b}, !.excused = @ \cup {b}]
        /\ desk' = desk /\ call' = call /\ nextOp' = nextOp
    BY <1>2 DEF Place
  <2>2. ghost'.made = ghost.made \cup {b} /\ Owed(ghost') \subseteq Owed(ghost) \ {b}
    BY <2>1, WindowFacts DEF GhostTyped, Owed
  <2>3. Works(ghost'.made)
    BY <2>2, EditsFacts DEF Works
  <2>4. Loose(Owed(ghost'), desk, drafts, waiting', Bodies(history))
    BY <2>2, EditsFacts DEF Loose
  <2>5. Covered(Owed(ghost'), desk', drafts', call', waiting', Bodies(history))
    BY <2>1, <2>4, IdleCovers
  <2> QED  BY <2>1, <2>3, <2>5, EditsFacts, WindowEdits
<1> QED  BY <1>1, <1>2

LEMMA PlaceBlockEdits == ASSUME DeskInv, EditsInv, PlaceBlock PROVE EditsInv'
<1>1. PICK b \in Dropped :
         IF Busy
           THEN /\ waiting' = b
                /\ ghost' = [ghost EXCEPT !.made = @ \cup {b}, !.excused = @ \cup ({waiting} \ {None})]
                /\ UNCHANGED <<desk, call, nextOp>>
           ELSE Place(b) /\ UNCHANGED waiting
  BY DEF PlaceBlock
<1>2. UNCHANGED <<routeVars, drafts>> /\ desk.in
  BY DEF PlaceBlock
<1>3. CASE Busy
  <2>1. /\ ghost'.made = ghost.made \cup {b}
        /\ Owed(ghost') \subseteq (Owed(ghost) \cup {b}) \ ({waiting} \ {None})
    <3>1. ghost' = [ghost EXCEPT !.made = @ \cup {b}, !.excused = @ \cup ({waiting} \ {None})]
      BY <1>1, <1>3
    <3>2. GhostTyped(ghost)
      BY WindowFacts
    <3> QED  BY <3>1, <3>2 DEF GhostTyped, Owed
  <2>2. Works(ghost'.made)
    BY <2>1, EditsFacts DEF Works
  <2>3. None \notin Owed(ghost) /\ Covered(Owed(ghost), desk, drafts, call, waiting, Bodies(history))
    BY EditsFacts
  <2>4. Owed(ghost') \subseteq (Owed(ghost) \ {waiting}) \cup {b}
    BY <2>1, <2>3
  <2>5. Covered(Owed(ghost'), desk, drafts, call, b, Bodies(history))
    BY <1>2, <2>3, <2>4 DEF Covered
  <2> QED  BY <1>1, <1>2, <1>3, <2>2, <2>5, EditsFacts, WindowEdits
<1>4. CASE ~Busy
  BY <1>1, <1>2, <1>4, PlaceEdits DEF Busy
<1> QED  BY <1>3, <1>4

LEMMA ResumePlaceEdits == ASSUME DeskInv, EditsInv, ResumePlace PROVE EditsInv'
<1>1. Place(waiting) /\ waiting' = None /\ waiting # None /\ UNCHANGED <<routeVars, drafts>> /\ call = Idle
  BY DEF ResumePlace, Busy
<1>2. waiting \in Dropped
  BY <1>1, WindowFacts
<1> QED  BY <1>1, <1>2, EditsFacts, PlaceEdits

LEMMA AutosaveEdits == ASSUME DeskInv, EditsInv, Autosave PROVE EditsInv'
<1>1. Saves(desk) /\ UNCHANGED <<routeVars, drafts, waiting, ghost>> /\ desk.in /\ call = Idle
  BY DEF Autosave, Busy
<1>2. nextOp' \in Nat
  BY <1>1, EditsFacts DEF Saves
<1>3. Covered(Owed(ghost), desk', drafts, call', waiting, Bodies(history))
  BY <1>1, EditsFacts, SavesCovers
<1> QED  BY <1>1, <1>2, <1>3, EditsFacts, WindowEdits

\* Undo and Redo begin with nothing unsaved on screen.
LEMMA TravelEdits ==
  ASSUME DeskInv, EditsInv, ~Held(desk), desk.in, call = Idle, NEW body \in SUBSET Block,
         NEW undo, NEW redo, NEW travel \in {"undo", "redo"}, NEW trip,
         Saves(Travelled(desk, body, undo, redo, travel, trip)),
         UNCHANGED <<routeVars, drafts, waiting, ghost>>
  PROVE  EditsInv'
<1> DEFINE b == Touched(desk, body)
           e == Travelled(desk, body, undo, redo, travel, trip)
<1>1. b.in = desk.in /\ b.pending = None /\ DeskTyped(b)
  BY WindowFacts, TouchedIs
<1> HIDE DEF b
<1>2. e = [b EXCEPT !.undo = undo, !.redo = redo, !.travel = travel, !.trip = trip]
  BY DEF b, Travelled
<1>3. Saves(e)
  OBVIOUS
<1> HIDE DEF e
<1>4. /\ DOMAIN e = DOMAIN b /\ e.in = b.in /\ e.week = b.week /\ e.body = b.body
      /\ e.base = b.base /\ e.rev = b.rev /\ e.dirty = b.dirty
      /\ e.conflict = b.conflict /\ e.pending = b.pending
      /\ e.travel = travel /\ e.trip = trip
  BY <1>1, <1>2 DEF DeskTyped
<1>5. DeskTyped(e)
  BY <1>1, <1>4, DeskAssumption DEF DeskTyped
<1>6. Resendable(e) /\ HoldOf(desk) = {}
  BY <1>1, <1>4, WindowFacts, NothingHeld DEF Resendable
<1>7. Loose(Owed(ghost), e, drafts, waiting, Bodies(history))
  BY <1>1, <1>4, <1>6, EditsFacts DEF Loose
<1>8. nextOp' \in Nat
  BY <1>3, EditsFacts DEF Saves
<1>9. Covered(Owed(ghost), desk', drafts, call', waiting, Bodies(history))
  BY <1>3, <1>5, <1>7, EditsFacts, SavesCovers
<1> QED  BY <1>8, <1>9, EditsFacts, WindowEdits

LEMMA UndoEdits == ASSUME DeskInv, EditsInv, Undo PROVE EditsInv'
<1> DEFINE steps == LiveSteps(desk.undo)
           trip == Last(steps)
           d == [Touched(desk, trip.at[desk.week].before) EXCEPT
                   !.undo = Front(steps), !.travel = "undo", !.trip = trip]
<1>1. Saves(d) /\ steps # <<>> /\ desk.week \in DOMAIN trip.at /\ ~Held(desk) /\ desk.in /\ call = Idle
      /\ UNCHANGED <<routeVars, drafts, waiting, ghost>>
  BY DEF Undo, CanTravel, Busy
<1>2. StepsOK(desk.undo, "after", history, ghost.misfiled) /\ DeskTyped(desk)
  BY WindowFacts DEF DeskOK
<1>3. StepOK(trip, "after", history, ghost.misfiled)
  BY <1>1, <1>2, LiveStepsOK
<1>4. trip.at[desk.week].before \in SUBSET Block
  BY <1>1, <1>3 DEF StepOK, StepTyped, EntryTyped
<1> HIDE DEF steps, trip
<1>5. d = Travelled(desk, trip.at[desk.week].before, Front(steps), desk.redo, "undo", trip)
  BY <1>2 DEF Travelled, Touched, DeskTyped
<1> HIDE DEF d
<1> QED  BY <1>1, <1>4, <1>5, TravelEdits

LEMMA RedoEdits == ASSUME DeskInv, EditsInv, Redo PROVE EditsInv'
<1> DEFINE steps == LiveSteps(desk.redo)
           trip == Last(steps)
           d == [Touched(desk, trip.at[desk.week].after) EXCEPT
                   !.redo = Front(steps), !.travel = "redo", !.trip = trip]
<1>1. Saves(d) /\ steps # <<>> /\ desk.week \in DOMAIN trip.at /\ ~Held(desk) /\ desk.in /\ call = Idle
      /\ UNCHANGED <<routeVars, drafts, waiting, ghost>>
  BY DEF Redo, CanTravel, Busy
<1>2. StepsOK(desk.redo, "before", history, ghost.misfiled) /\ DeskTyped(desk)
  BY WindowFacts DEF DeskOK
<1>3. StepOK(trip, "before", history, ghost.misfiled)
  BY <1>1, <1>2, LiveStepsOK
<1>4. trip.at[desk.week].after \in SUBSET Block
  BY <1>1, <1>3 DEF StepOK, StepTyped, EntryTyped
<1> HIDE DEF steps, trip
<1>5. d = Travelled(desk, trip.at[desk.week].after, desk.undo, Front(steps), "redo", trip)
  BY <1>2 DEF Travelled, Touched, DeskTyped
<1> HIDE DEF d
<1> QED  BY <1>1, <1>4, <1>5, TravelEdits
-----------------------------------------------------------------------------
LEMMA SameOwed ==
  ASSUME NEW g, g.made = ghost.made, g.excused = ghost.excused, g.exposed = ghost.exposed
  PROVE  Owed(g) = Owed(ghost)
  BY DEF Owed

LEMMA BasisIs ==
  ASSUME DeskInv, NEW w \in Week, NEW got, got \subseteq history,
         Local(w) \/ \E v \in got : v.week = w
  PROVE  /\ DOMAIN Basis(w, got) = {"week", "body", "rev", "era", "base", "twice"}
         /\ Basis(w, got).week = w
         /\ w = desk.week => Basis(w, got).body = desk.body
<1>1. WriteOK(Basis(w, got), history, ghost.misfiled) /\ Basis(w, got).week = w
  BY BasisOK
<1>2. w = desk.week => Basis(w, got).body = desk.body
  BY DEF Basis, Open, Write
<1> QED  BY <1>1, <1>2 DEF WriteOK

LEMMA CommitMoveEdits ==
  ASSUME DeskInv, EditsInv, NEW from \in Week, NEW to \in Week, from # to, NEW op, NEW got,
         got \subseteq history, Unread(from, to, got) = {}, CommitMove(from, to, op, got),
         desk.in, desk.pending = None, UNCHANGED <<routeVars, drafts, waiting>>, nextOp' \in Nat
  PROVE  EditsInv'
<1> DEFINE source == Basis(from, got)
           dest == Basis(to, got)
           x == [source EXCEPT !.body = @ \ {Movable}]
           y == [dest EXCEPT !.body = @ \cup {Movable}, !.twice = Movable \in dest.body]
           writes == {x, y}
           at == [w \in {from, to} |-> IF w = from THEN Entry(source.body, source.body \ {Movable})
                                       ELSE Entry(dest.body, dest.body \cup {Movable})]
           s == Step(at)
           p == [op |-> op, writes |-> writes, stay |-> TRUE]
           M == Owed(ghost)
           S == Bodies(history)
<1>1. CASE Movable \notin source.body
  <2>1. call' = Idle /\ desk' = desk /\ ghost' = ghost
    BY <1>1 DEF CommitMove
  <2>2. Covered(M, desk, drafts, Idle, waiting, S)
    BY EditsFacts, IdleCovers
  <2> QED  BY <2>1, <2>2, EditsFacts, WindowEdits
<1>2. CASE Movable \in source.body
  <2>1. /\ ghost' = [ghost EXCEPT !.carried = @ \cup (source.body \ source.base)
                                                \cup (dest.body \ dest.base),
                                  !.torn = @ \/ {from, to} \cap ghost.limbo # {}]
        /\ desk' = [desk EXCEPT !.step = s, !.pending = p]
        /\ call' = Post(desk')
    BY <1>2 DEF CommitMove
  <2>2. (Local(from) \/ \E v \in got : v.week = from) /\ (Local(to) \/ \E v \in got : v.week = to)
    BY DEF Unread
  <2>3. /\ source.week = from /\ dest.week = to
        /\ from = desk.week => source.body = desk.body
        /\ to = desk.week => dest.body = desk.body
        /\ DOMAIN source = {"week", "body", "rev", "era", "base", "twice"}
        /\ DOMAIN dest = {"week", "body", "rev", "era", "base", "twice"}
    BY <2>2, BasisIs
  <2>4. ghost'.made = ghost.made /\ ghost'.excused = ghost.excused /\ ghost'.exposed = ghost.exposed
    BY <2>1, WindowFacts DEF GhostTyped
  <2> HIDE DEF source, dest
  <2>5. \A wr \in writes : wr.week = desk.week => desk.body \ {Movable} \subseteq wr.body
    <3>1. x.week = from /\ x.body = source.body \ {Movable}
      BY <2>3
    <3>2. y.week = to /\ y.body = dest.body \cup {Movable}
      BY <2>3
    <3> HIDE DEF x, y
    <3> QED  BY <2>3, <3>1, <3>2
  <2>6. p.writes = writes
    OBVIOUS
  <2> HIDE DEF writes, s, p
  <2> DEFINE e == Pended(desk, s, p)
  <2>7. desk' = e
    BY <2>1 DEF Pended
  <2>8. /\ e.in = desk.in /\ e.week = desk.week /\ e.body = desk.body /\ e.dirty = desk.dirty
        /\ e.pending = p
    BY WindowFacts DEF DeskTyped, Pended
  <2> HIDE DEF e
  <2>9. Post(e).kind = "post" /\ Post(e).writes = writes
    BY <2>6, <2>8 DEF Post
  <2>10. CallFits(e, drafts, Post(e)) /\ Resendable(e)
    BY <2>5, <2>6, <2>8, <2>9 DEF CallFits, Resendable
  <2>11. Loose(M, desk, drafts, waiting, S) /\ Movable \notin M
    BY EditsFacts
  <2>12. HoldOf(desk) = Own(desk) /\ Own(e) = Own(desk) /\ Own(desk) \subseteq desk.body
    BY <2>8 DEF HoldOf, Own, Elsewhere
  <2>13. \A b \in Own(desk) : b # Movable => b \in Surviving(e, Post(e))
    BY <2>5, <2>8, <2>9, <2>12 DEF Surviving
  <2>14. Covered(M, e, drafts, Post(e), waiting, S)
    BY <2>8, <2>10, <2>11, <2>12, <2>13 DEF Covered, Loose
  <2>15. Owed(ghost') = M
    BY <2>4, SameOwed
  <2> QED  BY <2>1, <2>4, <2>7, <2>14, <2>15, EditsFacts, WindowEdits
<1> QED  BY <1>1, <1>2

LEMMA ReadNextEdits ==
  ASSUME DeskInv, EditsInv, NEW from, NEW to, NEW got, call' = ReadNext(from, to, got),
         desk.in, desk.pending = None, UNCHANGED <<routeVars, desk, drafts, waiting, ghost>>,
         nextOp' \in Nat
  PROVE  EditsInv'
<1>1. call'.kind = "fetch" /\ call'.use = "move"
  BY DEF ReadNext
<1>2. Surviving(desk, call') = HoldOf(desk)
  BY <1>1, SurvivingIsHeld
<1>3. CallFits(desk, drafts, call')
  BY <1>1 DEF CallFits
<1>4. Covered(Owed(ghost), desk, drafts, call', waiting, Bodies(history))
  BY <1>2, <1>3, EditsFacts DEF Covered, Loose
<1> QED  BY <1>4, EditsFacts, WindowEdits

LEMMA MoveToDateEdits == ASSUME DeskInv, EditsInv, MoveToDate PROVE EditsInv'
<1>1. PICK from \in Week, to \in Week :
        /\ from # to
        /\ LET op == IF keys.move[from] = None THEN nextOp ELSE keys.move[from]
           IN IF Unread(from, to, {}) = {} THEN CommitMove(from, to, op, {})
              ELSE /\ call' = ReadNext(from, to, {})
                   /\ UNCHANGED <<desk, ghost>>
        /\ nextOp' = IF keys.move[from] = None THEN nextOp + 1 ELSE nextOp
  BY DEF MoveToDate
<1>2. UNCHANGED <<routeVars, drafts, waiting>> /\ desk.in /\ desk.pending = None /\ {} \subseteq history
  BY DEF MoveToDate
<1>3. nextOp' \in Nat
  BY <1>1, EditsFacts
<1> DEFINE op == IF keys.move[from] = None THEN nextOp ELSE keys.move[from]
<1>4. CASE Unread(from, to, {}) = {}
  <2>1. CommitMove(from, to, op, {})
    BY <1>1, <1>4
  <2> HIDE DEF op
  <2> QED  BY <1>1, <1>2, <1>3, <1>4, <2>1, CommitMoveEdits
<1>5. CASE Unread(from, to, {}) # {}
  <2>1. call' = ReadNext(from, to, {}) /\ UNCHANGED <<desk, ghost>>
    BY <1>1, <1>5
  <2> QED  BY <1>2, <1>3, <2>1, ReadNextEdits
<1> QED  BY <1>4, <1>5

LEMMA MoveFetchedEdits == ASSUME DeskInv, EditsInv, MoveFetched PROVE EditsInv'
<1> DEFINE got == call.got \cup {call.data}
<1>1. IsMove(call, history) /\ call.data # None
  BY WindowFacts, CallKinds DEF MoveFetched
<1>2. got \subseteq history /\ call.from \in Week /\ call.to \in Week /\ call.from # call.to
  BY <1>1 DEF IsMove
<1>3. UNCHANGED <<routeVars, drafts, waiting, nextOp>> /\ nextOp' \in Nat
  BY EditsFacts DEF MoveFetched
<1>4. desk.in /\ desk.pending = None
  <2>1. call # Idle
    BY <1>1 DEF IsMove, Idle
  <2>2. CallFits(desk, drafts, call)
    BY EditsFacts DEF Covered
  <2> QED  BY <1>1, <2>1, <2>2, EditsFacts DEF IsMove, CallFits
<1>5. CASE Unread(call.from, call.to, got) = {}
  <2> DEFINE op == keys.move[call.from]
  <2>1. CommitMove(call.from, call.to, op, got)
    BY <1>5 DEF MoveFetched
  <2> HIDE DEF op, got
  <2> QED  BY <1>2, <1>3, <1>4, <1>5, <2>1, CommitMoveEdits
<1>6. CASE Unread(call.from, call.to, got) # {}
  <2>1. call' = ReadNext(call.from, call.to, got) /\ UNCHANGED <<desk, ghost>>
    BY <1>6 DEF MoveFetched
  <2> HIDE DEF got
  <2> QED  BY <1>3, <1>4, <2>1, ReadNextEdits
<1> QED  BY <1>5, <1>6

\* A request that leaves the open week alone begins beside another.
LEMMA SupersedeEdits ==
  ASSUME DeskInv, EditsInv, desk.in, Supersede, UNCHANGED <<routeVars, desk, drafts, waiting>>,
         call'.kind \in {"fetch", "preview", "restore"}, CallFits(desk, drafts, call'), nextOp' \in Nat
  PROVE  EditsInv'
<1>1. ghost'.made = ghost.made /\ ghost'.excused = ghost.excused /\ ghost'.exposed = ghost.exposed
  BY WindowFacts DEF Supersede, GhostTyped
<1>2. Surviving(desk, call') = HoldOf(desk)
  BY SurvivingIsHeld
<1>3. Covered(Owed(ghost), desk, drafts, call', waiting, Bodies(history))
  BY <1>2, EditsFacts DEF Covered, Loose
<1>4. Owed(ghost') = Owed(ghost)
  BY <1>1, SameOwed
<1> QED  BY <1>1, <1>3, <1>4, EditsFacts, WindowEdits

LEMMA AddToWeekEdits == ASSUME DeskInv, EditsInv, AddToWeek PROVE EditsInv'
<1>1. PICK w \in Week \ {desk.week}, b \in Pasted :
        call' = [kind |-> "fetch", use |-> "add", week |-> w, block |-> b, data |-> None]
  BY DEF AddToWeek
<1>2. Supersede /\ UNCHANGED <<routeVars, desk, drafts, waiting, nextOp>> /\ desk.in /\ nextOp' \in Nat
  BY EditsFacts DEF AddToWeek
<1>3. call'.kind = "fetch" /\ CallFits(desk, drafts, call')
  BY <1>1 DEF CallFits
<1> QED  BY <1>2, <1>3, SupersedeEdits

LEMMA AddedWrite ==
  ASSUME NEW v, NEW b \in Block, v.era \in Nat, v.week \in Week, v.rev \in Nat, v.body \in SUBSET Block
  PROVE  LET wr == [AsRead(v) EXCEPT !.body = @ \cup {b}]
         IN /\ wr \in [week : Week, body : SUBSET Block, rev : Nat, era : Nat, base : SUBSET Block,
                       twice : BOOLEAN]
            /\ wr.week = v.week /\ wr.body = v.body \cup {b}
<1> DEFINE r == AsRead(v)
           c == r.body \cup {b}
           wr == [r EXCEPT !.body = c]
<1>1. r = [week |-> v.week, body |-> v.body, rev |-> v.rev, era |-> v.era, base |-> v.body, twice |-> FALSE]
  BY DEF AsRead, Write
<1>2. r \in [week : Week, body : SUBSET Block, rev : Nat, era : Nat, base : SUBSET Block, twice : BOOLEAN]
      /\ r.week = v.week /\ r.body = v.body
  <2> HIDE DEF r
  <2> QED  BY <1>1
<1>3. c \in SUBSET Block /\ c = v.body \cup {b}
  BY <1>2
<1> HIDE DEF r, c
<1>4. wr \in [week : Week, body : SUBSET Block, rev : Nat, era : Nat, base : SUBSET Block, twice : BOOLEAN]
      /\ wr.week = v.week /\ wr.body = c
  BY <1>2, <1>3
<1> QED  BY <1>3, <1>4 DEF r, c

LEMMA AddFetchedEdits == ASSUME DeskInv, EditsInv, AddFetched PROVE EditsInv'
<1> DEFINE v == call.data
           wr == [AsRead(v) EXCEPT !.body = @ \cup {call.block}]
           p == [op |-> nextOp, writes |-> {wr}, stay |-> FALSE]
           e == [desk EXCEPT !.pending = p]
           M == Owed(ghost)
           S == Bodies(history)
<1>1. v \in history /\ v.week = call.week /\ call.block \in Block /\ call.kind = "fetch" /\ call.use = "add"
  BY WindowFacts, CallKinds DEF AddFetched, IsAdd
<1>2. /\ desk' = e /\ call' = Post(desk')
      /\ ghost' = [ghost EXCEPT !.made = @ \cup {call.block},
                                !.excused = @ \cup Elsewhere(desk)]
      /\ nextOp' = nextOp + 1
      /\ UNCHANGED <<routeVars, drafts, waiting>>
  BY DEF AddFetched
<1>3. call # Idle
  BY <1>1 DEF Idle
<1>4. desk.in /\ Loose(M, desk, drafts, waiting, S) /\ nextOp \in Nat /\ Works(ghost.made)
      /\ Covered(M, desk, drafts, call, waiting, S)
  BY <1>3, EditsFacts
<1>5. call.week # desk.week /\ call.block \in Pasted
  BY <1>1, <1>4 DEF Covered, CallFits
<1>6. v = Ver(v.era, v.week, v.rev, v.body) /\ v.era \in Nat /\ v.week \in Week /\ v.rev \in Nat
      /\ v.body \in SUBSET Block
  BY <1>1, WindowFacts DEF HistoryTyped
<1> HIDE DEF v
<1>8. /\ wr \in [week : Week, body : SUBSET Block, rev : Nat, era : Nat, base : SUBSET Block, twice : BOOLEAN]
      /\ wr.week = v.week /\ wr.body = v.body \cup {call.block}
  BY <1>1, <1>6, AddedWrite
<1> HIDE DEF wr
<1>9. p \in PendingSaves /\ p.writes = {wr}
  BY <1>4, <1>8 DEF PendingSaves
<1> HIDE DEF p
<1>10. p # None
  BY <1>9, DeskAssumption
<1>11. /\ e.in = desk.in /\ e.week = desk.week /\ e.body = desk.body /\ e.dirty = desk.dirty
       /\ e.pending = p
  BY WindowFacts DEF DeskTyped
<1> HIDE DEF e
<1>12. Elsewhere(e) = v.body \cup {call.block} /\ Own(e) = Own(desk)
  BY <1>1, <1>5, <1>8, <1>9, <1>10, <1>11 DEF Elsewhere, Own
<1>13. Post(e).kind = "post" /\ Post(e).writes = {wr}
  BY <1>9, <1>11 DEF Post
<1>14. wr.week # e.week
  BY <1>1, <1>5, <1>8, <1>11
<1>15. CallFits(e, drafts, Post(e)) /\ Resendable(e)
  BY <1>9, <1>11, <1>13, <1>14 DEF CallFits, Resendable
<1>16. Own(desk) \cup {call.block} \subseteq Surviving(e, Post(e))
  BY <1>12, <1>13, <1>14 DEF Surviving
<1>17. /\ ghost'.made = ghost.made \cup {call.block}
       /\ Owed(ghost') \subseteq (M \ Elsewhere(desk)) \cup {call.block}
  BY <1>2, WindowFacts DEF GhostTyped, Owed
<1>18. Works(ghost'.made)
  BY <1>4, <1>5, <1>17 DEF Works
<1>19. Owed(ghost') \subseteq S \cup {waiting} \cup Aside(drafts) \cup Surviving(e, Post(e))
  BY <1>4, <1>16, <1>17 DEF Loose, HoldOf
<1>20. Covered(Owed(ghost'), e, drafts, Post(e), waiting, S)
  BY <1>4, <1>11, <1>15, <1>19 DEF Covered
<1>21. nextOp' \in Nat
  BY <1>2, <1>4
<1> QED  BY <1>2, <1>18, <1>20, <1>21, WindowEdits

-----------------------------------------------------------------------------
(* EditsInv: the answer to a save.                                         *)

LEMMA SettledIs ==
  ASSUME NEW d, DeskTyped(d), NEW a
  PROVE  /\ Settled(Filed(d, a)).in = d.in /\ Settled(Filed(d, a)).pending = None
         /\ Settled(Filed(d, a)).week = d.week /\ Settled(Filed(d, a)).body = d.body
         /\ Settled(Filed(d, a)).dirty = d.dirty /\ DeskTyped(Settled(Filed(d, a)))
<1> DEFINE trip == KeepRevisions(d.trip, a)
           step == KeepRevisions(KeepAfter(d.step, a), a)
           f == Filed(d, a)
           undo == Append(d.undo, trip)
           redo == Append(d.redo, trip)
           undone == Append(d.undo, step)
<1>1. \/ f = [d EXCEPT !.redo = redo]
      \/ f = [d EXCEPT !.undo = undo]
      \/ f = [d EXCEPT !.undo = undone, !.redo = <<>>]
      \/ f = d
  BY DEF Filed
<1> HIDE DEF f, undo, redo, undone
<1>2. /\ DOMAIN f = DOMAIN d /\ f.in = d.in /\ f.week = d.week /\ f.body = d.body
      /\ f.dirty = d.dirty /\ f.base = d.base /\ f.rev = d.rev /\ f.conflict = d.conflict
  BY <1>1 DEF DeskTyped
<1> DEFINE e == Settled(f)
<1>3. /\ DOMAIN e = DOMAIN f /\ e.in = f.in /\ e.pending = None /\ e.week = f.week
      /\ e.body = f.body /\ e.dirty = f.dirty /\ e.base = f.base /\ e.rev = f.rev
      /\ e.conflict = f.conflict /\ e.travel = None /\ e.trip = None
  BY <1>2 DEF Settled, DeskTyped
<1> HIDE DEF e
<1>4. DeskTyped(e)
  BY <1>2, <1>3 DEF DeskTyped
<1> QED  BY <1>2, <1>3, <1>4 DEF f, e

LEMMA ShownIn ==
  ASSUME NEW d, DeskTyped(d), NEW a
  PROVE  Shown(d, a).in = d.in /\ (d.week \in Answered(a) => Shown(d, a).dirty = FALSE)
<1> DEFINE v == StoredAs(a, d.week)
<1>1. Shown(d, a) = IF d.week \notin Answered(a) THEN d
                    ELSE [d EXCEPT !.body = v.body, !.base = v.body, !.rev = v.rev, !.era = v.era,
                                   !.dirty = FALSE, !.conflict = FALSE]
  BY DEF Shown
<1> HIDE DEF v
<1> QED  BY <1>1 DEF DeskTyped

\* All that an accepted save says is stored.
LEMMA WritesStored ==
  ASSUME NEW a, NEW ws, NEW H, NEW F, AnswerOK(a, ws, H), a.status = 200, BatchOK(ws, H, F)
  PROVE  \A wr \in ws : wr.body \subseteq Bodies(H)
<1> SUFFICES ASSUME NEW wr \in ws PROVE wr.body \subseteq Bodies(H)
  OBVIOUS
<1>1. PICK v \in a.stored : v.week = wr.week
  BY DEF AnswerOK
<1>2. PICK x \in ws : x.week = v.week /\ x.body = v.body
  BY DEF AnswerOK
<1>3. x = wr
  BY <1>1, <1>2 DEF BatchOK
<1>4. v \in H
  BY DEF AnswerOK
<1> QED  BY <1>2, <1>3, <1>4 DEF Bodies

\* What survives the answer to an accepted save.
LEMMA SavedSurvives ==
  ASSUME DeskInv, EditsInv, call.kind = "post", call.answer # None, call.answer.status = 200
  PROVE  /\ Elsewhere(desk) \subseteq Bodies(history)
         /\ desk.week \in Answered(call.answer) => Surviving(desk, call) \subseteq Bodies(history)
         /\ Surviving(desk, call) \subseteq Own(desk) \cup Bodies(history)
<1> DEFINE a == call.answer
           ws == call.writes
<1>1. BatchOK(ws, history, ghost.misfiled) /\ AnswerOK(a, ws, history)
  BY WindowFacts, CallKinds DEF IsPost
<1>2. \A wr \in ws : wr.body \subseteq Bodies(history)
  BY <1>1, WritesStored
<1>3. desk.pending = None \/ desk.pending.writes = ws
  BY EditsFacts DEF Covered, CallFits
<1>4. Elsewhere(desk) \subseteq Bodies(history)
  BY <1>2, <1>3 DEF Elsewhere
<1>5. ASSUME desk.week \in Answered(a) PROVE Surviving(desk, call) \subseteq Bodies(history)
  <2>1. PICK wr \in ws : wr.week = desk.week
    BY <1>1, <1>5 DEF AnswerOK, Answered
  <2> QED  BY <1>2, <1>4, <2>1 DEF Surviving
<1>6. Surviving(desk, call) \subseteq Own(desk) \cup Elsewhere(desk)
  BY SurvivingIsHeld DEF HoldOf
<1> QED  BY <1>4, <1>5, <1>6

LEMMA KeptHolds ==
  ASSUME NEW ds, AsideOK(ds), NEW gone
  PROVE  /\ AsideOK(Restrict(ds, DOMAIN ds \ gone))
         /\ Aside(ds) \subseteq Aside(Restrict(ds, DOMAIN ds \ gone))
                                \cup UNION {ds[w].body \cup Elsewhere(ds[w]) : w \in gone \cap DOMAIN ds}
<1> DEFINE kept == Restrict(ds, DOMAIN ds \ gone)
<1>1. DOMAIN kept = DOMAIN ds \ gone /\ \A w \in DOMAIN ds \ gone : kept[w] = ds[w]
  BY DEF Restrict
<1> HIDE DEF kept
<1>2. AsideOK(kept)
  BY <1>1 DEF AsideOK
<1>3. ASSUME NEW w \in DOMAIN ds, w \notin gone PROVE HoldOf(ds[w]) \subseteq Aside(kept)
  BY <1>1, <1>3 DEF Aside
<1>4. ASSUME NEW w \in DOMAIN ds PROVE HoldOf(ds[w]) \subseteq ds[w].body \cup Elsewhere(ds[w])
  BY DEF HoldOf, Own
<1> QED  BY <1>2, <1>3, <1>4 DEF Aside, kept

LEMMA SaveOkEdits == ASSUME DeskInv, EditsInv, SaveOk PROVE EditsInv'
<1> DEFINE a == call.answer
           ws == call.writes
           S == Bodies(history)
           sh == Shown(desk, a)
           d == Settled(Filed(sh, a))
           written == {wr.week : wr \in ws}
           others == written \ {desk.week}
           kept == Restrict(drafts, DOMAIN drafts \ others)
           x == UNION {drafts[w].body \cup Elsewhere(drafts[w]) : w \in others \cap DOMAIN drafts}
           L == Owed(ghost')
<1>1. call.kind = "post" /\ a # None /\ a.status = 200 /\ IsPost(call, history, ghost.misfiled)
  BY WindowFacts, CallKinds DEF SaveOk
<1>2. AnswerOK(a, ws, history) /\ BatchOK(ws, history, ghost.misfiled) /\ call.to \in Week \cup {None}
  BY <1>1 DEF IsPost
<1>3. /\ IF call.to # None THEN LoadWeek(d, kept, call.to, FALSE)
         ELSE desk' = d /\ drafts' = kept /\ call' = Idle
      /\ UNCHANGED <<routeVars, waiting, nextOp>>
  BY DEF SaveOk
<1>4. ghost'.made = ghost.made /\ L \subseteq Owed(ghost) \ x
  <2> DEFINE m == Misfiled(ws)
             ans == Answered(a)
  <2>1. ghost' = [ghost EXCEPT !.excused = @ \cup x,
                     !.limbo = IF desk.week \in ans THEN @ \ {desk.week} ELSE @,
                     !.misfiled = @ \/ m]
    BY DEF SaveOk
  <2> HIDE DEF x, m, ans
  <2> QED  BY <2>1, WindowFacts DEF GhostTyped, Owed
<1>5. call # Idle
  BY <1>1 DEF Idle
<1>6. /\ desk.in /\ AsideOK(drafts) /\ DeskTyped(desk) /\ nextOp \in Nat /\ Works(ghost.made)
      /\ Owed(ghost) \subseteq S \cup {waiting} \cup Aside(drafts) \cup Surviving(desk, call)
      /\ desk.week \notin DOMAIN drafts /\ \A u \in DOMAIN drafts : DeskTyped(drafts[u])
  BY <1>5, EditsFacts DEF Covered
<1>7. /\ DeskTyped(sh) /\ sh.week = desk.week /\ sh.in = desk.in
      /\ desk.week \notin Answered(a) => sh = desk
      /\ desk.week \in Answered(a) => sh.dirty = FALSE
  <2>1. DeskOK(sh, history, ghost.misfiled) /\ sh.week = desk.week
        /\ (desk.week \notin Answered(a) => sh = desk)
    <3> HIDE DEF a, ws
    <3> QED  BY <1>2, WindowFacts, ShownOK
  <2> QED  BY <1>6, <2>1, ShownIn DEF DeskOK
<1>8. /\ d.in = desk.in /\ d.pending = None /\ d.week = desk.week /\ d.body = sh.body
      /\ d.dirty = sh.dirty /\ DeskTyped(d)
  <2> HIDE DEF sh, a
  <2> QED  BY <1>7, SettledIs
<1>9. Own(desk) \cup S = S \cup Own(d) \/ desk.week \in Answered(a)
  BY <1>7, <1>8 DEF Own
<1>10. Surviving(desk, call) \subseteq S \cup HoldOf(d)
  <2>1. CASE desk.week \in Answered(a)
    BY <1>1, <2>1, SavedSurvives
  <2>2. CASE desk.week \notin Answered(a)
    <3>1. Surviving(desk, call) \subseteq Own(desk) \cup S
      BY <1>1, SavedSurvives
    <3> QED  BY <1>9, <2>2, <3>1 DEF HoldOf
  <2> QED  BY <2>1, <2>2
<1> HIDE DEF d, sh
<1>11. AsideOK(kept) /\ Aside(drafts) \subseteq Aside(kept) \cup x
  <2> HIDE DEF others
  <2> QED  BY <1>6, KeptHolds
<1>12. DOMAIN kept \subseteq DOMAIN drafts /\ \A u \in DOMAIN kept : kept[u] = drafts[u]
  BY DEF Restrict
<1> HIDE DEF kept, x, others, L
<1>13. Resendable(d)
  BY <1>8 DEF Resendable
<1>14. Loose(L, d, kept, waiting, S)
  BY <1>4, <1>6, <1>8, <1>10, <1>11, <1>13 DEF Loose
<1>15. Covered(L, desk', drafts', call', waiting, S)
  <2>1. CASE call.to = None
    BY <1>3, <1>14, <2>1, IdleCovers
  <2>2. CASE call.to # None
    <3>1. LoadWeek(d, kept, call.to, FALSE)
      BY <1>3, <2>2
    <3>2. d.week \notin DOMAIN kept /\ \A u \in DOMAIN kept : DeskTyped(kept[u])
      BY <1>6, <1>8, <1>12
    <3> QED  BY <1>8, <1>14, <3>1, <3>2, LoadWeekCovers
  <2> QED  BY <2>1, <2>2
<1>16. L = Owed(ghost') /\ ghost'.made = ghost.made /\ nextOp' \in Nat /\ UNCHANGED <<routeVars, waiting>>
  BY <1>3, <1>4, <1>6 DEF L
<1>17. Works(ghost'.made)
  BY <1>6, <1>16
<1>18. Covered(Owed(ghost'), desk', drafts', call', waiting', Bodies(history))
  BY <1>15, <1>16
<1> QED  BY <1>16, <1>17, <1>18, WindowEdits

-----------------------------------------------------------------------------
\* An Undo that is given up takes what is on screen with it.
LEMMA TripDroppedOwed ==
  ASSUME GhostTyped(ghost)
  PROVE  /\ TripDropped.made = ghost.made
         /\ desk.travel = None => Owed(TripDropped) = Owed(ghost)
         /\ desk.travel # None => Owed(TripDropped) \subseteq Owed(ghost) \ HoldOf(desk)
<1>1. CASE desk.travel = None
  BY <1>1 DEF TripDropped
<1>2. CASE desk.travel # None
  <2>1. TripDropped = [ghost EXCEPT !.excused = @ \cup desk.body \cup Elsewhere(desk)]
    BY <1>2 DEF TripDropped
  <2> QED  BY <1>2, <2>1 DEF GhostTyped, Owed, HoldOf, Own
<1> QED  BY <1>1, <1>2

LEMMA PutBackIs ==
  ASSUME NEW d, DeskTyped(d)
  PROVE  PutBack(d).in = d.in /\ PutBack(d).week = d.week /\ DeskTyped(PutBack(d))
<1> DEFINE e == PutBack(d)
           undo == Append(d.undo, d.trip)
           redo == Append(d.redo, d.trip)
<1>1. \/ e = [d EXCEPT !.undo = undo, !.travel = None, !.trip = None]
      \/ e = [d EXCEPT !.redo = redo, !.travel = None, !.trip = None]
      \/ e = d
  BY DEF PutBack
<1> HIDE DEF e, undo, redo
<1>2. e.in = d.in /\ e.week = d.week /\ DeskTyped(e)
  <2>1. CASE e = [d EXCEPT !.undo = undo, !.travel = None, !.trip = None]
    BY <2>1 DEF DeskTyped
  <2>2. CASE e = [d EXCEPT !.redo = redo, !.travel = None, !.trip = None]
    BY <2>2 DEF DeskTyped
  <2>3. CASE e = d
    BY <2>3
  <2> QED  BY <1>1, <2>1, <2>2, <2>3
<1> QED  BY <1>2 DEF e

LEMMA SaveRefusedEdits == ASSUME DeskInv, EditsInv, SaveRefused PROVE EditsInv'
<1> DEFINE S == Bodies(history)
<1>1. call.kind = "post" /\ call # Idle /\ UNCHANGED <<routeVars, waiting, nextOp>>
  BY DEF SaveRefused, Idle
<1>2. ghost'.made = ghost.made /\ Owed(ghost') = Owed(TripDropped)
  <2> DEFINE t == TripDropped
  <2>1. ghost' = [t EXCEPT !.limbo = IF desk.travel = None THEN @ ELSE @ \cup {desk.week}]
    BY DEF SaveRefused
  <2>2. GhostTyped(t) /\ t.made = ghost.made
    BY WindowFacts, TripDroppedTyped, TripDroppedOwed
  <2> HIDE DEF t
  <2>3. ghost'.made = t.made /\ ghost'.excused = t.excused /\ ghost'.exposed = t.exposed
    BY <2>1, <2>2 DEF GhostTyped
  <2> QED  BY <2>2, <2>3 DEF Owed, t
<1>3. /\ desk.in /\ Loose(Owed(ghost), desk, drafts, waiting, S) /\ DeskTyped(desk)
      /\ desk.week \notin DOMAIN drafts /\ Works(ghost.made) /\ GhostTyped(ghost)
      /\ nextOp \in Nat /\ \A u \in DOMAIN drafts : DeskTyped(drafts[u])
  BY <1>1, EditsFacts
<1>4. CASE desk.travel = None
  <2> DEFINE e == [desk EXCEPT !.conflict = TRUE]
  <2>1. desk' = e /\ drafts' = drafts /\ call' = Idle
    BY <1>4 DEF SaveRefused
  <2>2. e.in = desk.in /\ e.week = desk.week /\ e.body = desk.body /\ e.dirty = desk.dirty
        /\ e.pending = desk.pending
    BY <1>3 DEF DeskTyped
  <2> HIDE DEF e
  <2>3. Covered(Owed(ghost), desk, drafts, Idle, waiting, S)
    BY <1>3, IdleCovers
  <2>4. Covered(Owed(ghost), e, drafts, Idle, waiting, S)
    BY <2>2, <2>3, MarkedCovers
  <2> QED  BY <1>1, <1>2, <1>3, <1>4, <2>1, <2>4, TripDroppedOwed, WindowEdits
<1>5. CASE desk.travel # None
  <2> DEFINE b == PutBack(desk)
             e == [b EXCEPT !.pending = None, !.dirty = FALSE, !.conflict = FALSE]
  <2>1. LoadWeek(e, drafts, desk.week, TRUE)
    BY <1>5 DEF SaveRefused
  <2>2. b.in = desk.in /\ b.week = desk.week /\ DeskTyped(b)
    BY <1>3, PutBackIs
  <2> HIDE DEF b
  <2>3. e.in = b.in /\ e.week = b.week /\ e.dirty = FALSE /\ e.pending = None /\ DeskTyped(e)
    BY <2>2 DEF DeskTyped
  <2> HIDE DEF e
  <2>4. ~Held(e) /\ Resendable(e)
    BY <2>3 DEF Held, Resendable
  <2>5. Owed(ghost') \subseteq Owed(ghost) \ HoldOf(desk)
    BY <1>2, <1>3, <1>5, TripDroppedOwed
  <2>6. Loose(Owed(ghost'), e, drafts, waiting, S)
    BY <1>3, <2>2, <2>3, <2>4, <2>5, OtherCopy
  <2>7. Covered(Owed(ghost'), desk', drafts', call', waiting, S)
    BY <1>3, <2>1, <2>2, <2>3, <2>4, <2>6, LoadWeekCovers
  <2> QED  BY <1>1, <1>2, <1>3, <2>7, WindowEdits
<1> QED  BY <1>4, <1>5

-----------------------------------------------------------------------------
(* EditsInv: requests that fail, restore points, the store.                *)

LEMMA UnreachedEdits ==
  ASSUME DeskInv, EditsInv, desk.in, desk' = SaveUnreached(desk), ghost' = TripDropped, call' = Idle,
         UNCHANGED <<routeVars, drafts, waiting, nextOp>>
  PROVE  EditsInv'
<1> DEFINE S == Bodies(history)
<1>1. /\ Loose(Owed(ghost), desk, drafts, waiting, S) /\ DeskTyped(desk) /\ Works(ghost.made)
      /\ GhostTyped(ghost) /\ nextOp \in Nat
  BY EditsFacts
<1>2. CASE desk.travel = None
  <2> DEFINE e == [desk EXCEPT !.conflict = FALSE]
  <2>1. desk' = e
    BY <1>2 DEF SaveUnreached
  <2>2. e.in = desk.in /\ e.week = desk.week /\ e.body = desk.body /\ e.dirty = desk.dirty
        /\ e.pending = desk.pending
    BY <1>1 DEF DeskTyped
  <2> HIDE DEF e
  <2>3. Covered(Owed(ghost), desk, drafts, Idle, waiting, S)
    BY <1>1, IdleCovers
  <2>4. Covered(Owed(ghost), e, drafts, Idle, waiting, S)
    BY <2>2, <2>3, MarkedCovers
  <2> QED  BY <1>1, <1>2, <2>1, <2>4, TripDroppedOwed, WindowEdits
<1>3. CASE desk.travel # None
  <2> DEFINE b == PutBack(desk)
             e == [b EXCEPT !.body = desk.base, !.dirty = FALSE, !.pending = None, !.conflict = FALSE]
  <2>1. desk' = e
    BY <1>3 DEF SaveUnreached
  <2>2. b.in = desk.in /\ b.week = desk.week /\ DeskTyped(b)
    BY <1>1, PutBackIs
  <2> HIDE DEF b
  <2>3. e.in = b.in /\ e.dirty = FALSE /\ e.pending = None
    BY <2>2 DEF DeskTyped
  <2> HIDE DEF e
  <2>4. Resendable(e)
    BY <2>3 DEF Resendable
  <2>5. Owed(ghost') \subseteq Owed(ghost) \ HoldOf(desk) /\ ghost'.made = ghost.made
    BY <1>1, <1>3, TripDroppedOwed
  <2>6. Loose(Owed(ghost'), e, drafts, waiting, S)
    BY <1>1, <2>2, <2>3, <2>4, <2>5, OtherCopy
  <2>7. Covered(Owed(ghost'), e, drafts, Idle, waiting, S)
    BY <2>6, IdleCovers
  <2> QED  BY <1>1, <2>1, <2>5, <2>7, WindowEdits
<1> QED  BY <1>2, <1>3

LEMMA SaveRejectedEdits == ASSUME DeskInv, EditsInv, SaveRejected PROVE EditsInv'
<1>1. call # Idle
  BY DEF SaveRejected, Idle
<1>2. desk.in
  BY <1>1, EditsFacts
<1> QED  BY <1>2, UnreachedEdits DEF SaveRejected

\* The request is forgotten, and nothing else.
LEMMA ForgottenCall ==
  ASSUME DeskInv, EditsInv, desk.in, call' = Idle, UNCHANGED <<routeVars, desk, drafts, waiting, nextOp, ghost>>
  PROVE  EditsInv'
<1>1. Covered(Owed(ghost), desk, drafts, Idle, waiting, Bodies(history))
  BY EditsFacts, IdleCovers
<1> QED  BY <1>1, EditsFacts, WindowEdits

LEMMA CallFailsEdits == ASSUME DeskInv, EditsInv, CallFails PROVE EditsInv'
<1>1. call' = Idle /\ UNCHANGED <<routeVars, drafts, waiting, nextOp>> /\ desk.in
  BY EditsFacts DEF CallFails, Busy
<1>2. CASE call.kind = "post"
  BY <1>1, <1>2, UnreachedEdits DEF CallFails
<1>3. CASE call.kind # "post"
  BY <1>1, <1>3, ForgottenCall DEF CallFails
<1> QED  BY <1>2, <1>3

LEMMA RestorePointsEdits ==
  ASSUME DeskInv, EditsInv, PreviewRestorePoint \/ PreviewOk \/ ApplyRestorePoint \/ RestoreRefused
  PROVE  EditsInv'
<1>1. CASE PreviewRestorePoint
  <2>1. Supersede /\ UNCHANGED <<routeVars, desk, drafts, waiting, nextOp>> /\ desk.in /\ nextOp' \in Nat
    BY <1>1, EditsFacts DEF PreviewRestorePoint
  <2>2. call'.kind = "preview" /\ CallFits(desk, drafts, call')
    BY <1>1 DEF PreviewRestorePoint, CallFits
  <2> QED  BY <2>1, <2>2, SupersedeEdits
<1>2. CASE ApplyRestorePoint
  <2>1. Supersede /\ UNCHANGED <<routeVars, desk, drafts, waiting>> /\ desk.in
    BY <1>2 DEF ApplyRestorePoint
  <2>2. nextOp' \in Nat
    BY <1>2, EditsFacts DEF ApplyRestorePoint
  <2>3. call'.kind = "restore" /\ CallFits(desk, drafts, call')
    BY <1>2 DEF ApplyRestorePoint, CallFits
  <2> QED  BY <2>1, <2>2, <2>3, SupersedeEdits
<1>3. CASE PreviewOk \/ RestoreRefused
  <2>1. UNCHANGED <<routeVars, desk, drafts, waiting, nextOp, ghost>> /\ call' = Idle /\ call # Idle
    BY <1>3 DEF PreviewOk, RestoreRefused, Idle
  <2> QED  BY <2>1, EditsFacts, ForgottenCall
<1> QED  BY <1>1, <1>2, <1>3

LEMMA RestoreOkEdits == ASSUME DeskInv, EditsInv, RestoreOk PROVE EditsInv'
<1> DEFINE e == [desk EXCEPT !.undo = <<>>, !.redo = <<>>]
           S == Bodies(history)
<1>1. LoadWeek(e, drafts, desk.week, FALSE) /\ UNCHANGED <<routeVars, waiting, nextOp, ghost>>
  BY DEF RestoreOk
<1>0. call # Idle
  BY DEF RestoreOk, Idle
<1>2. /\ desk.in /\ Loose(Owed(ghost), desk, drafts, waiting, S) /\ DeskTyped(desk)
      /\ desk.week \notin DOMAIN drafts /\ Works(ghost.made) /\ nextOp \in Nat
      /\ \A u \in DOMAIN drafts : DeskTyped(drafts[u])
  BY <1>0, EditsFacts
<1>3. e.in = desk.in /\ e.week = desk.week /\ e.body = desk.body /\ e.dirty = desk.dirty
      /\ e.pending = desk.pending /\ DeskTyped(e)
  BY <1>2 DEF DeskTyped
<1> HIDE DEF e
<1>4. HoldOf(e) = HoldOf(desk) /\ Resendable(e)
  <2>1. HoldOf(e) = HoldOf(desk) /\ (Resendable(e) <=> Resendable(desk))
    BY <1>3, SameHold
  <2> QED  BY <1>2, <2>1 DEF Loose
<1>5. Loose(Owed(ghost), e, drafts, waiting, S)
  BY <1>2, <1>3, <1>4, OtherCopy
<1>6. Covered(Owed(ghost), desk', drafts', call', waiting, S)
  BY <1>1, <1>2, <1>3, <1>5, LoadWeekCovers
<1> QED  BY <1>1, <1>2, <1>6, WindowEdits

LEMMA SignInEdits == ASSUME DeskInv, EditsInv, SignIn PROVE EditsInv'
<1> DEFINE e == [desk EXCEPT !.in = TRUE]
           S == Bodies(history)
<1>1. LoadWeek(e, drafts, desk.week, TRUE) /\ UNCHANGED <<routeVars, waiting, nextOp, ghost>> /\ ~desk.in
  BY DEF SignIn
<1>2. /\ Covered(Owed(ghost), desk, drafts, call, waiting, S) /\ DeskTyped(desk)
      /\ desk.week \notin DOMAIN drafts /\ Works(ghost.made) /\ nextOp \in Nat
      /\ \A u \in DOMAIN drafts : DeskTyped(drafts[u])
  BY EditsFacts
<1>3. e.in /\ e.week = desk.week /\ e.body = desk.body /\ e.dirty = desk.dirty
      /\ e.pending = desk.pending /\ DeskTyped(e)
  BY <1>2 DEF DeskTyped
<1> HIDE DEF e
<1>4. HoldOf(e) = HoldOf(desk) /\ (Resendable(e) <=> Resendable(desk)) /\ (Held(e) <=> Held(desk))
  BY <1>3, SameHold
<1>5. ~Held(e)
  BY <1>1, <1>2, <1>4 DEF Covered
<1>6. Loose(Owed(ghost), e, drafts, waiting, S)
  BY <1>2, <1>3, <1>4, SurvivingIsHeld DEF Covered, Loose
<1>7. Covered(Owed(ghost), desk', drafts', call', waiting, S)
  BY <1>1, <1>2, <1>3, <1>5, <1>6, LoadWeekCovers
<1> QED  BY <1>1, <1>2, <1>7, WindowEdits

\* A window with nothing in it, and nothing owed.
LEMMA BlankCovers ==
  ASSUME NEW S, NEW d, d.pending = None, d.dirty = FALSE
  PROVE  /\ Covered({}, d, <<>>, Idle, None, S)
         /\ d.in => Loose({}, d, <<>>, None, S)
<1>1. DOMAIN <<>> = {}
  BY EmptyIs, SeqFacts
<1>2. AsideOK(<<>>)
  BY <1>1 DEF AsideOK
<1>3. Resendable(d) /\ ~Held(d)
  BY DEF Resendable, Held
<1>4. CallFits(d, <<>>, Idle)
  BY DEF CallFits, Idle
<1> QED  BY <1>2, <1>3, <1>4 DEF Covered, Loose

LEMMA ExpiredEdits == ASSUME DeskInv, EditsInv, Expired PROVE EditsInv'
<1>1. /\ desk' = Blank /\ drafts' = <<>> /\ call' = Idle /\ waiting' = None
      /\ ghost' = [ghost EXCEPT !.excused = @ \cup ghost.made, !.limbo = {}]
      /\ UNCHANGED <<routeVars, nextOp>>
  BY DEF Expired
<1>2. ghost'.made = ghost.made /\ Owed(ghost') = {}
  BY <1>1, EditsFacts DEF GhostTyped, Owed
<1>3. Blank.pending = None /\ Blank.dirty = FALSE
  BY DEF Blank
<1>4. Covered({}, Blank, <<>>, Idle, None, Bodies(history))
  BY <1>3, BlankCovers
<1> QED  BY <1>1, <1>2, <1>4, EditsFacts, WindowEdits

-----------------------------------------------------------------------------
\* A step of the store: it has more, and the window waits for the same.
LEMMA StoreEdits ==
  ASSUME DeskInv, EditsInv, history \subseteq history', UNCHANGED <<desk, drafts, waiting, nextOp>>,
         ghost'.made = ghost.made, Owed(ghost') = Owed(ghost),
         Surviving(desk, call') = Surviving(desk, call),
         CallFits(desk, drafts, call) => CallFits(desk, drafts, call'),
         call = Idle => call' = Idle
  PROVE  EditsInv'
<1>1. Bodies(history) \subseteq Bodies(history')
  BY DEF Bodies
<1>2. Covered(Owed(ghost), desk, drafts, call, waiting, Bodies(history)) /\ Works(ghost.made) /\ nextOp \in Nat
  BY EditsFacts
<1>3. Covered(Owed(ghost), desk, drafts, call', waiting, Bodies(history'))
  BY <1>1, <1>2 DEF Covered
<1> QED  BY <1>2, <1>3 DEF EditsInv, EditsOK

LEMMA TornOwes ==
  ASSUME GhostTyped(ghost), NEW x, ghost' = [ghost EXCEPT !.torn = @ \/ x]
  PROVE  ghost'.made = ghost.made /\ Owed(ghost') = Owed(ghost)
  BY DEF GhostTyped, Owed

LEMMA StoreGrows ==
  ASSUME DeskInv, ServerAnswers \/ StrayRuns \/ Others
  PROVE  history \subseteq history'
<1>1. R!Next \/ UNCHANGED R!registerVars
  BY ServerAnswersKeeps, StrayRunsKeeps, OthersKeeps
<1> QED  BY <1>1, RegisterStepGrows DEF DeskInv

\* The answer of the server, and nothing else of the request.
Answering(f, a) == [call EXCEPT ![f] = a]

LEMMA SameRequest ==
  ASSUME NEW f \in {"data", "answer"}, NEW a, call' = Answering(f, a)
  PROVE  /\ Surviving(desk, call') = Surviving(desk, call)
         /\ CallFits(desk, drafts, call) => CallFits(desk, drafts, call')
<1>1. /\ call'.kind = call.kind /\ call'.week = call.week /\ call'.use = call.use
      /\ call'.writes = call.writes /\ call'.block = call.block
  BY DEF Answering
<1> QED  BY <1>1 DEF Surviving, HoldOf, CallFits

LEMMA ServerAnswersEdits == ASSUME DeskInv, EditsInv, ServerAnswers PROVE EditsInv'
<1>1. UNCHANGED <<desk, drafts, waiting, nextOp>> /\ call # Idle /\ history \subseteq history'
  BY StoreGrows DEF ServerAnswers, Idle
<1>2. ghost'.made = ghost.made /\ Owed(ghost') = Owed(ghost)
  <2> DEFINE x == weeks' # weeks /\ NotAsRead(call.writes)
  <2>1. ghost' = ghost \/ ghost' = [ghost EXCEPT !.torn = @ \/ x]
    BY DEF ServerAnswers
  <2> HIDE DEF x
  <2> QED  BY <2>1, EditsFacts, TornOwes
<1>3. \E f \in {"data", "answer"} : \E a : call' = Answering(f, a)
  BY DEF ServerAnswers, Answering
<1>4. /\ Surviving(desk, call') = Surviving(desk, call)
      /\ CallFits(desk, drafts, call) => CallFits(desk, drafts, call')
  BY <1>3, SameRequest
<1> QED  BY <1>1, <1>2, <1>4, StoreEdits

LEMMA StrayRunsEdits == ASSUME DeskInv, EditsInv, StrayRuns PROVE EditsInv'
<1>1. UNCHANGED <<desk, drafts, call, waiting, nextOp>> /\ history \subseteq history'
  BY StoreGrows DEF StrayRuns
<1>2. PICK s \in strays :
        \/ ghost' = [ghost EXCEPT !.torn = @ \/ (weeks' # weeks /\ NotAsRead(s.writes))]
        \/ ghost' = ghost
  BY DEF StrayRuns
<1>3. ghost'.made = ghost.made /\ Owed(ghost') = Owed(ghost)
  <2> DEFINE x == weeks' # weeks /\ NotAsRead(s.writes)
  <2>1. ghost' = ghost \/ ghost' = [ghost EXCEPT !.torn = @ \/ x]
    BY <1>2
  <2> HIDE DEF x
  <2> QED  BY <2>1, EditsFacts, TornOwes
<1> QED  BY <1>1, <1>3, StoreEdits

LEMMA OthersEdits == ASSUME DeskInv, EditsInv, Others PROVE EditsInv'
<1>1. UNCHANGED <<desk, drafts, call, waiting, nextOp, ghost>> /\ history \subseteq history'
  BY StoreGrows DEF Others
<1> QED  BY <1>1, StoreEdits

LEMMA StepKeepsEditsInv == ASSUME DeskInv, EditsInv, [Next]_vars PROVE EditsInv'
<1>1. CASE Window
  BY <1>1, LoadOkEdits, SwitchWeekEdits, ReloadEdits, AcceptRemoteWeekEdits, AddBlockEdits,
     PlaceBlockEdits, ResumePlaceEdits, AutosaveEdits, UndoEdits, RedoEdits, MoveToDateEdits,
     MoveFetchedEdits, AddToWeekEdits, AddFetchedEdits, SaveOkEdits, SaveRefusedEdits,
     SaveRejectedEdits, RestorePointsEdits, RestoreOkEdits, SignInEdits DEF Window
<1>2. CASE UNCHANGED vars
  <2>1. UNCHANGED <<routeVars, desk, drafts, call, waiting, nextOp, ghost>>
    BY <1>2 DEF vars, deskVars
  <2> QED  BY <2>1, EditsFacts, WindowEdits
<1> QED  BY <1>1, <1>2, ServerAnswersEdits, StrayRunsEdits, CallFailsEdits, ExpiredEdits, OthersEdits DEF Next

LEMMA InitEditsInv == ASSUME Init PROVE EditsInv
<1> DEFINE e == [Blank EXCEPT !.in = TRUE]
           S == Bodies(history)
<1>1. desk = e /\ drafts = <<>> /\ call = Load(FirstWeek) /\ waiting = None /\ nextOp = 1 /\ ghost = Fresh
  BY DEF Init
<1>2. ghost.made = {} /\ Owed(ghost) = {}
  BY <1>1 DEF Fresh, Owed
<1>3. e.in /\ e.pending = None /\ e.dirty = FALSE
  <2> DEFINE b == Blank
  <2>1. b.pending = None /\ b.dirty = FALSE /\ "in" \in DOMAIN b
    BY DEF Blank
  <2> HIDE DEF b
  <2> QED  BY <2>1 DEF b
<1> HIDE DEF e
<1>4. Covered({}, e, <<>>, Idle, None, S)
  BY <1>3, BlankCovers
<1>5. DOMAIN <<>> = {}
  BY EmptyIs, SeqFacts
<1>6. CallFits(e, <<>>, Load(FirstWeek))
  BY <1>5 DEF CallFits, Load
<1>7. Covered({}, e, <<>>, Load(FirstWeek), None, S)
  BY <1>3, <1>4, <1>6 DEF Covered
<1>8. Works({})
  BY DEF Works
<1> QED  BY <1>1, <1>2, <1>7, <1>8 DEF EditsInv, EditsOK

LEMMA EditsInvariant == Spec => []EditsInv
<1>1. Init => EditsInv
  BY InitEditsInv
<1>2. DeskInv /\ EditsInv /\ [Next]_vars => EditsInv'
  BY StepKeepsEditsInv
<1> QED  BY <1>1, <1>2, DeskInvariant, PTL DEF Spec

\* "The week saves itself shortly after each change": what the student adds or
\* places is never lost from the window before the store has had it.
THEOREM EditsAreKept == Spec => []OtherEditsKept
<1>1. DeskInv /\ EditsInv => OtherEditsKept
  <2> SUFFICES ASSUME DeskInv, EditsInv PROVE Owed(ghost) \subseteq Kept
    BY DEF OtherEditsKept, Owed
  <2>1. Owed(ghost) \subseteq Bodies(history) \cup {waiting} \cup Aside(drafts) \cup Surviving(desk, call)
    BY EditsFacts DEF Covered
  <2>2. Bodies(history) = EverStored
    BY DEF Bodies, EverStored
  <2>3. Surviving(desk, call) \subseteq desk.body \cup Elsewhere(desk)
    BY SurvivingIsHeld DEF HoldOf, Own
  <2>4. Aside(drafts) \subseteq UNION {drafts[w].body \cup Elsewhere(drafts[w]) : w \in DOMAIN drafts}
    BY DEF Aside, HoldOf, Own
  <2> QED  BY <2>1, <2>2, <2>3, <2>4 DEF Kept
<1> QED  BY <1>1, DeskInvariant, EditsInvariant, PTL

-----------------------------------------------------------------------------
(* Undo and redo.  The steps of a week lead from one version of it to the  *)
(* next: what a step left is what the next one found, up to what a move    *)
(* carried along (`carried').                                              *)

Right(travel) == IF travel = "undo" THEN "before" ELSE "after"

\* Movable stays where it is; or goes.
Stays(x, y) == Movable \in x <=> Movable \in y
Goes(x, y) == Movable \in x /\ Movable \notin y

\* A step, and a batch, leaves Movable where it is or takes it from one week to another.
StepKept(s) ==
  \/ \A w \in DOMAIN s.at : Stays(s.at[w].before, s.at[w].after)
  \/ \E u, w \in DOMAIN s.at :
       /\ Goes(s.at[u].before, s.at[u].after) /\ Goes(s.at[w].after, s.at[w].before)
       /\ \A v \in DOMAIN s.at \ {u, w} : Stays(s.at[v].before, s.at[v].after)

BatchKept(ws) ==
  \/ \E wr \in ws : wr.twice
  \/ \A wr \in ws : Stays(wr.base, wr.body)
  \/ \E from, to \in ws :
       /\ Goes(from.base, from.body) /\ Goes(to.body, to.base)
       /\ \A wr \in ws \ {from, to} : Stays(wr.base, wr.body)

Within(x, y, C) == x \subseteq y /\ y \ x \subseteq C
Joined(way, x, y, C) == IF way = "undo" THEN Within(x, y, C) ELSE Within(y, x, C)

\* Undo can take back s in week w.
Reaches(s, w) == ~s.stale /\ w \in DOMAIN s.at
NoneBetween(steps, i, j, w) ==
  \A k \in 1 .. Len(steps) : i < k /\ k < j => ~Reaches(steps[k], w)

\* A step that was saved: the answer said the revision of each of its weeks.
Sure(s) == s \in Steps /\ StepKept(s) /\ \A w \in DOMAIN s.at : s.at[w].rev # None

ChainOK(steps, way, w, top, C) ==
  /\ \A i \in 1 .. Len(steps) : Sure(steps[i])
  /\ \A i \in 1 .. Len(steps) :
       Reaches(steps[i], w) /\ NoneBetween(steps, i, Len(steps) + 1, w)
         => Joined(way, steps[i].at[w][Left(way)], top, C)
  /\ \A i, j \in 1 .. Len(steps) :
       i < j /\ Reaches(steps[i], w) /\ Reaches(steps[j], w) /\ NoneBetween(steps, i, j, w)
         => Joined(way, steps[i].at[w][Left(way)], steps[j].at[w][Right(way)], C)

-----------------------------------------------------------------------------
LEMMA JoinedFacts ==
  ASSUME NEW way, NEW x, NEW y, NEW z, NEW C
  PROVE  /\ Joined(way, x, x, C)
         /\ Joined(way, x, y, C) /\ Joined(way, y, z, C) => Joined(way, x, z, C)
         /\ Movable \notin C /\ Joined(way, x, y, C) => Stays(x, y)
<1>1. Within(x, x, C) /\ (Within(x, y, C) /\ Within(y, z, C) => Within(x, z, C))
      /\ (Within(z, y, C) /\ Within(y, x, C) => Within(z, x, C))
  BY DEF Within
<1>2. Movable \notin C /\ (Within(x, y, C) \/ Within(y, x, C)) => Stays(x, y)
  BY DEF Within, Stays
<1> QED  BY <1>1, <1>2 DEF Joined

LEMMA JoinedMono ==
  ASSUME NEW way, NEW x, NEW y, NEW C, NEW D, C \subseteq D, Joined(way, x, y, C)
  PROVE  Joined(way, x, y, D)
BY DEF Joined, Within

LEMMA ChainMono ==
  ASSUME NEW steps, NEW way, NEW w, NEW top, NEW C, NEW D, C \subseteq D,
         ChainOK(steps, way, w, top, C)
  PROVE  ChainOK(steps, way, w, top, D)
<1>1. \A x, y : Joined(way, x, y, C) => Joined(way, x, y, D)
  BY JoinedMono
<1> QED  BY <1>1, Zenon DEF ChainOK

LEMMA ChainEmpty == \A way, w, top, C : ChainOK(<<>>, way, w, top, C)
BY EmptyIs DEF ChainOK

\* The step above is saved: it found what the chain leads to.
LEMMA ChainPush ==
  ASSUME NEW steps, NEW way, NEW w, NEW top, NEW C, ChainOK(steps, way, w, top, C), IsSeq(steps),
         NEW s, Sure(s), Reaches(s, w), Joined(way, top, s.at[w][Right(way)], C)
  PROVE  ChainOK(Append(steps, s), way, w, s.at[w][Left(way)], C)
<1> DEFINE more == Append(steps, s)
           n == Len(steps)
<1>1. n \in Nat /\ Len(more) = n + 1 /\ more[n + 1] = s /\ \A i \in 1 .. n : more[i] = steps[i]
  BY SeqFacts, AppendIs
<1> HIDE DEF more, n
<1>2. ASSUME NEW i \in 1 .. n + 1, i # n + 1
      PROVE  i \in 1 .. n
  BY <1>1, <1>2
<1>3. \A i \in 1 .. n + 1 : Sure(more[i])
  <2>1. \A i \in 1 .. n : Sure(steps[i])
    BY DEF ChainOK, n
  <2> QED  BY <1>1, <1>2, <2>1
<1>4. ASSUME NEW i \in 1 .. n + 1, Reaches(more[i], w), NoneBetween(more, i, n + 2, w)
      PROVE  Joined(way, more[i].at[w][Left(way)], s.at[w][Left(way)], C)
  <2>1. CASE i = n + 1
    BY <1>1, <2>1, JoinedFacts
  <2>2. CASE i # n + 1
    <3>1. n + 1 \in 1 .. Len(more) /\ i < n + 1 /\ n + 1 < n + 2
      BY <1>1, <1>2, <2>2
    <3> QED  BY <1>1, <1>4, <3>1 DEF NoneBetween
  <2> QED  BY <2>1, <2>2
<1>5. ASSUME NEW i \in 1 .. n + 1, NEW j \in 1 .. n + 1, i < j, Reaches(more[i], w),
             Reaches(more[j], w), NoneBetween(more, i, j, w)
      PROVE  Joined(way, more[i].at[w][Left(way)], more[j].at[w][Right(way)], C)
  <2>1. i \in 1 .. n /\ more[i] = steps[i]
    BY <1>1, <1>5
  <2>2. ASSUME NEW k \in 1 .. Len(steps)
        PROVE  k \in 1 .. Len(more) /\ more[k] = steps[k]
    BY <1>1, <2>2 DEF n
  <2>3. NoneBetween(steps, i, j, w)
    BY <1>5, <2>2 DEF NoneBetween
  <2>4. CASE j = n + 1
    <3>1. Joined(way, steps[i].at[w][Left(way)], top, C)
      BY <1>5, <2>1, <2>3, <2>4 DEF ChainOK, n
    <3> QED  BY <1>1, <2>1, <2>4, <3>1, JoinedFacts
  <2>5. CASE j # n + 1
    <3>1. j \in 1 .. n /\ more[j] = steps[j]
      BY <1>1, <1>2, <2>5
    <3> QED  BY <1>5, <2>1, <2>3, <3>1 DEF ChainOK, n
  <2> QED  BY <2>4, <2>5
<1> QED  BY <1>1, <1>3, <1>4, <1>5 DEF ChainOK, more

\* A step of other weeks.
LEMMA ChainPast ==
  ASSUME NEW steps, NEW way, NEW w, NEW top, NEW C, ChainOK(steps, way, w, top, C), IsSeq(steps),
         NEW s, Sure(s), ~Reaches(s, w)
  PROVE  ChainOK(Append(steps, s), way, w, top, C)
<1> DEFINE more == Append(steps, s)
           n == Len(steps)
<1>1. n \in Nat /\ Len(more) = n + 1 /\ more[n + 1] = s /\ \A i \in 1 .. n : more[i] = steps[i]
  BY SeqFacts, AppendIs
<1> HIDE DEF more, n
<1>2. ASSUME NEW i \in 1 .. n + 1, i # n + 1
      PROVE  i \in 1 .. n
  BY <1>1, <1>2
<1>3. \A i \in 1 .. n + 1 : Sure(more[i])
  <2>1. \A i \in 1 .. n : Sure(steps[i])
    BY DEF ChainOK, n
  <2> QED  BY <1>1, <1>2, <2>1
<1>4. ASSUME NEW i \in 1 .. n + 1, Reaches(more[i], w)
      PROVE  i \in 1 .. n /\ more[i] = steps[i]
  BY <1>1, <1>2, <1>4
<1>5. ASSUME NEW i \in 1 .. n + 1, Reaches(more[i], w), NoneBetween(more, i, n + 2, w)
      PROVE  Joined(way, more[i].at[w][Left(way)], top, C)
  <2>1. i \in 1 .. n /\ more[i] = steps[i]
    BY <1>4, <1>5
  <2>2. ASSUME NEW k \in 1 .. Len(steps), k < n + 1
        PROVE  k \in 1 .. Len(more) /\ more[k] = steps[k] /\ k < n + 2
    BY <1>1, <2>2 DEF n
  <2>3. NoneBetween(steps, i, n + 1, w)
    BY <1>5, <2>2 DEF NoneBetween
  <2> QED  BY <1>5, <2>1, <2>3 DEF ChainOK, n
<1>6. ASSUME NEW i \in 1 .. n + 1, NEW j \in 1 .. n + 1, i < j, Reaches(more[i], w),
             Reaches(more[j], w), NoneBetween(more, i, j, w)
      PROVE  Joined(way, more[i].at[w][Left(way)], more[j].at[w][Right(way)], C)
  <2>1. i \in 1 .. n /\ more[i] = steps[i] /\ j \in 1 .. n /\ more[j] = steps[j]
    BY <1>4, <1>6
  <2>2. ASSUME NEW k \in 1 .. Len(steps)
        PROVE  k \in 1 .. Len(more) /\ more[k] = steps[k]
    BY <1>1, <2>2 DEF n
  <2>3. NoneBetween(steps, i, j, w)
    BY <1>6, <2>2 DEF NoneBetween
  <2> QED  BY <1>6, <2>1, <2>3 DEF ChainOK, n
<1> QED  BY <1>1, <1>3, <1>5, <1>6 DEF ChainOK, more

\* The step above is taken back.
LEMMA ChainPop ==
  ASSUME NEW steps, NEW way, NEW w, NEW top, NEW C, NEW s, IsSeq(steps), Reaches(s, w),
         ChainOK(Append(steps, s), way, w, top, C)
  PROVE  /\ ChainOK(steps, way, w, s.at[w][Right(way)], C)
         /\ Joined(way, s.at[w][Left(way)], top, C)
         /\ Sure(s)
<1> DEFINE more == Append(steps, s)
           n == Len(steps)
<1>1. n \in Nat /\ Len(more) = n + 1 /\ more[n + 1] = s /\ \A i \in 1 .. n : more[i] = steps[i]
  BY SeqFacts, AppendIs
<1>2. ChainOK(more, way, w, top, C)
  OBVIOUS
<1> HIDE DEF more, n
<1>3. /\ \A i \in 1 .. n + 1 : Sure(more[i])
      /\ \A i \in 1 .. n + 1 :
           Reaches(more[i], w) /\ NoneBetween(more, i, n + 1 + 1, w)
             => Joined(way, more[i].at[w][Left(way)], top, C)
      /\ \A i, j \in 1 .. n + 1 :
           i < j /\ Reaches(more[i], w) /\ Reaches(more[j], w) /\ NoneBetween(more, i, j, w)
             => Joined(way, more[i].at[w][Left(way)], more[j].at[w][Right(way)], C)
  BY <1>1, <1>2, Zenon DEF ChainOK
<1>4. n + 1 \in 1 .. n + 1 /\ \A i \in 1 .. n : i \in 1 .. n + 1
  BY <1>1
<1>5. Sure(s) /\ \A i \in 1 .. n : Sure(steps[i])
  BY <1>1, <1>3, <1>4
<1>6. Joined(way, s.at[w][Left(way)], top, C)
  <2>1. NoneBetween(more, n + 1, n + 2, w)
    BY <1>1 DEF NoneBetween
  <2> QED  BY <1>1, <1>3, <1>4, <2>1
<1>7. ASSUME NEW i \in 1 .. n, NEW j \in 1 .. n + 1, NoneBetween(steps, i, j, w)
      PROVE  NoneBetween(more, i, j, w)
  <2>1. ASSUME NEW k \in 1 .. Len(more), k < j
        PROVE  k \in 1 .. Len(steps) /\ more[k] = steps[k]
    BY <1>1, <2>1 DEF n
  <2> QED  BY <1>7, <2>1 DEF NoneBetween
<1>8. ASSUME NEW i \in 1 .. n, Reaches(steps[i], w), NoneBetween(steps, i, n + 1, w)
      PROVE  Joined(way, steps[i].at[w][Left(way)], s.at[w][Right(way)], C)
  <2>1. i < n + 1 /\ n + 1 \in 1 .. n + 1
    BY <1>1, <1>4
  <2>2. NoneBetween(more, i, n + 1, w)
    BY <1>7, <1>8, <2>1
  <2> QED  BY <1>1, <1>3, <1>4, <1>8, <2>1, <2>2
<1>9. ASSUME NEW i \in 1 .. n, NEW j \in 1 .. n, i < j, Reaches(steps[i], w),
             Reaches(steps[j], w), NoneBetween(steps, i, j, w)
      PROVE  Joined(way, steps[i].at[w][Left(way)], steps[j].at[w][Right(way)], C)
  BY <1>1, <1>3, <1>4, <1>7, <1>9
<1> QED  BY <1>5, <1>6, <1>8, <1>9 DEF ChainOK, n

\* The last steps may be left out if they are stale.
LEMMA ChainPart ==
  ASSUME NEW steps, NEW more, NEW way, NEW w, NEW top, NEW C, ChainOK(steps, way, w, top, C),
         Len(steps) \in Nat, Len(more) \in 0 .. Len(steps),
         \A i \in 1 .. Len(more) : more[i] = steps[i],
         \A i \in 1 .. Len(steps) : i > Len(more) => steps[i].stale
  PROVE  ChainOK(more, way, w, top, C)
<1> DEFINE n == Len(more)
           m == Len(steps)
<1>1. n \in 0 .. m /\ m \in Nat /\ \A i \in 1 .. n : i \in 1 .. m /\ more[i] = steps[i]
  OBVIOUS
<1>2. \A i \in 1 .. n : Sure(more[i])
  BY <1>1 DEF ChainOK
<1>3. ASSUME NEW i \in 1 .. n, Reaches(more[i], w), NoneBetween(more, i, n + 1, w)
      PROVE  Joined(way, more[i].at[w][Left(way)], top, C)
  <2>1. ASSUME NEW k \in 1 .. m, i < k, k < m + 1
        PROVE  ~Reaches(steps[k], w)
    <3>1. CASE k > n
      BY <3>1 DEF Reaches
    <3>2. CASE ~(k > n)
      <4>1. k \in 1 .. n /\ k < n + 1
        BY <1>1, <3>2
      <4>2. ~Reaches(more[k], w)
        BY <1>3, <2>1, <4>1 DEF NoneBetween
      <4> QED  BY <1>1, <4>1, <4>2
    <3> QED  BY <3>1, <3>2
  <2>2. NoneBetween(steps, i, m + 1, w)
    BY <2>1 DEF NoneBetween
  <2> QED  BY <1>1, <1>3, <2>2 DEF ChainOK
<1>4. ASSUME NEW i \in 1 .. n, NEW j \in 1 .. n, i < j, Reaches(more[i], w),
             Reaches(more[j], w), NoneBetween(more, i, j, w)
      PROVE  Joined(way, more[i].at[w][Left(way)], more[j].at[w][Right(way)], C)
  <2>1. ASSUME NEW k \in 1 .. m, i < k, k < j
        PROVE  ~Reaches(steps[k], w)
    <3>1. k \in 1 .. n
      BY <1>1, <2>1
    <3>2. ~Reaches(more[k], w)
      BY <1>4, <2>1, <3>1 DEF NoneBetween
    <3> QED  BY <1>1, <3>1, <3>2
  <2>2. NoneBetween(steps, i, j, w)
    BY <2>1 DEF NoneBetween
  <2> QED  BY <1>1, <1>4, <2>2 DEF ChainOK
<1> QED  BY <1>2, <1>3, <1>4 DEF ChainOK

\* The step Undo takes is the last one of a chain that is as good.
LEMMA LiveChain ==
  ASSUME NEW steps, NEW side, NEW H, NEW F, StepsOK(steps, side, H, F), LiveSteps(steps) # <<>>,
         NEW way, NEW w, NEW top, NEW C, ChainOK(steps, way, w, top, C)
  PROVE  /\ IsSeq(Front(LiveSteps(steps)))
         /\ ~Last(LiveSteps(steps)).stale
         /\ ChainOK(Append(Front(LiveSteps(steps)), Last(LiveSteps(steps))), way, w, top, C)
<1> DEFINE live == {i \in DOMAIN steps : ~steps[i].stale}
           kept == LiveSteps(steps)
           n == Max(live)
           front == Front(kept)
           more == Append(front, Last(kept))
<1>1. Len(steps) \in Nat /\ DOMAIN steps = 1 .. Len(steps) /\ IsSeq(steps)
  BY SeqFacts DEF StepsOK
<1>2. live # {} /\ kept = SubSeq(steps, 1, n)
  BY DEF LiveSteps
<1>3. live \in SUBSET (1 .. Len(steps))
  BY <1>1
<1>4. n \in 1 .. Len(steps) /\ n \in live /\ \A i \in live : i <= n
  <2> HIDE DEF live
  <2> QED  BY <1>1, <1>2, <1>3, LastPlace
<1>5. ~steps[n].stale /\ \A i \in 1 .. Len(steps) : i > n => steps[i].stale
  <2>1. ~steps[n].stale
    BY <1>4
  <2>2. ASSUME NEW i \in 1 .. Len(steps), i > n, ~steps[i].stale
        PROVE  FALSE
    <3>1. i \in live
      BY <1>1, <2>2
    <3> HIDE DEF live, n
    <3>2. i <= n
      BY <1>4, <3>1
    <3> QED  BY <1>1, <1>4, <2>2, <3>2
  <2> QED  BY <2>1, <2>2
<1> HIDE DEF live, n
<1>6. IsSeq(kept) /\ Len(kept) = n /\ \A i \in 1 .. n : kept[i] = steps[i]
  <2>1. 1 \in 1 .. 2 /\ n \in 0 .. Len(steps)
    BY <1>1, <1>4
  <2>2. /\ IsSeq(SubSeq(steps, 1, n)) /\ Len(SubSeq(steps, 1, n)) = n
        /\ \A i \in 1 .. Len(SubSeq(steps, 1, n)) : SubSeq(steps, 1, n)[i] = steps[1 + i - 1]
    BY <1>1, <2>1, PartIs
  <2>3. \A i \in 1 .. n : 1 + i - 1 = i
    BY <1>4
  <2> QED  BY <1>2, <2>2, <2>3
<1> HIDE DEF kept
<1>7. Last(kept) = steps[n]
  BY <1>1, <1>4, <1>6 DEF Last
<1>8. IsSeq(front) /\ Len(front) = n - 1 /\ \A i \in 1 .. n - 1 : front[i] = steps[i]
  <2>1. n - 1 \in 0 .. n /\ 1 \in 1 .. 2 /\ n \in Nat
    BY <1>1, <1>4
  <2>2. front = SubSeq(kept, 1, n - 1)
    BY <1>6 DEF Front
  <2>3. /\ IsSeq(SubSeq(kept, 1, n - 1)) /\ Len(SubSeq(kept, 1, n - 1)) = n - 1
        /\ \A i \in 1 .. Len(SubSeq(kept, 1, n - 1)) : SubSeq(kept, 1, n - 1)[i] = kept[1 + i - 1]
    BY <1>6, <2>1, PartIs
  <2>4. ASSUME NEW i \in 1 .. n - 1
        PROVE  SubSeq(kept, 1, n - 1)[i] = steps[i]
    <3>1. 1 + i - 1 = i /\ i \in 1 .. n
      BY <2>1
    <3> QED  BY <1>6, <2>3, <2>4, <3>1
  <2> QED  BY <2>2, <2>3, <2>4
<1> HIDE DEF front
<1>9. Len(more) = n /\ \A i \in 1 .. n : more[i] = steps[i]
  <2>1. n - 1 + 1 = n /\ n \in 1 .. Len(steps)
    BY <1>1, <1>4
  <2>2. /\ Len(more) = n - 1 + 1 /\ \A i \in 1 .. n - 1 : more[i] = front[i]
        /\ more[n - 1 + 1] = Last(kept)
    BY <1>8, AppendIs
  <2>3. ASSUME NEW i \in 1 .. n
        PROVE  i \in 1 .. n - 1 \/ i = n
    BY <1>1, <1>4
  <2>4. Len(more) = n /\ more[n] = steps[n]
    BY <1>7, <2>1, <2>2
  <2>5. \A i \in 1 .. n - 1 : more[i] = steps[i]
    BY <1>8, <2>2
  <2> QED  BY <2>3, <2>4, <2>5
<1> HIDE DEF more
<1>10. ChainOK(more, way, w, top, C)
  BY <1>1, <1>4, <1>5, <1>9, ChainPart
<1> QED  BY <1>5, <1>7, <1>8, <1>10 DEF more, front, kept

StepEntries == [before : SUBSET Block, after : SUBSET Block, rev : Nat \cup {None}, era : Nat]

LEMMA StepsFields ==
  ASSUME NEW s \in Steps
  PROVE  /\ s = [at |-> s.at, stale |-> s.stale] /\ s.stale \in BOOLEAN
         /\ DOMAIN s.at \subseteq Week /\ s.at = [w \in DOMAIN s.at |-> s.at[w]]
         /\ \A w \in DOMAIN s.at : s.at[w] \in StepEntries
<1>1. /\ s = [at |-> s.at, stale |-> s.stale] /\ s.stale \in BOOLEAN
      /\ s.at \in UNION {[S -> StepEntries] : S \in SUBSET Week}
  BY DEF Steps, StepEntries
<1>2. PICK S \in SUBSET Week : s.at \in [S -> StepEntries]
  BY <1>1
<1> QED  BY <1>1, <1>2

LEMMA StepsBuilt ==
  ASSUME NEW at, NEW S \in SUBSET Week, at = [w \in S |-> at[w]],
         \A w \in S : at[w] \in StepEntries, NEW b \in BOOLEAN
  PROVE  [at |-> at, stale |-> b] \in Steps
<1>1. at \in [S -> StepEntries]
  OBVIOUS
<1>2. at \in UNION {[T -> StepEntries] : T \in SUBSET Week}
  BY <1>1
<1> QED  BY <1>2 DEF Steps, StepEntries

LEMMA StaleStep ==
  ASSUME NEW s \in Steps, NEW b \in BOOLEAN
  PROVE  [s EXCEPT !.stale = b] \in Steps
<1>1. s = [at |-> s.at, stale |-> s.stale]
  BY StepsFields
<1>2. [s EXCEPT !.stale = b] = [at |-> s.at, stale |-> b]
  BY <1>1
<1>3. [at |-> s.at, stale |-> b] \in Steps
  <2>1. /\ DOMAIN s.at \in SUBSET Week /\ s.at = [w \in DOMAIN s.at |-> s.at[w]]
        /\ \A w \in DOMAIN s.at : s.at[w] \in StepEntries
    BY StepsFields
  <2> QED  BY <2>1, StepsBuilt
<1> QED  BY <1>2, <1>3

\* Another version of week w was read: no step that concerns it is taken back.
LEMMA ChainMark ==
  ASSUME NEW steps, NEW side, NEW H, NEW F, StepsOK(steps, side, H, F),
         NEW way, NEW w, NEW top, NEW C, ChainOK(steps, way, w, top, C), NEW now
  PROVE  ChainOK(MarkStale(steps, w), way, w, now, C)
<1> DEFINE new == MarkStale(steps, w)
<1>1. Len(steps) \in Nat /\ DOMAIN steps = 1 .. Len(steps) /\ IsSeq(steps)
  BY SeqFacts DEF StepsOK
<1>2. /\ new = [i \in 1 .. Len(steps) |-> new[i]]
      /\ \A i \in 1 .. Len(steps) :
           new[i] = IF w \in DOMAIN steps[i].at THEN [steps[i] EXCEPT !.stale = TRUE] ELSE steps[i]
  BY <1>1 DEF MarkStale
<1> HIDE DEF new
<1>3. new \in Seq({new[i] : i \in 1 .. Len(steps)})
  BY <1>1, <1>2, SeqDef
<1>4. Len(new) = Len(steps)
  BY <1>1, <1>2, <1>3, LenProperties
<1>5. ASSUME NEW i \in 1 .. Len(steps)
      PROVE  Sure(new[i]) /\ ~Reaches(new[i], w)
  <2>1. DOMAIN steps[i] = {"at", "stale"} /\ Sure(steps[i])
    BY DEF StepsOK, StepOK, StepTyped, ChainOK
  <2>2. new[i].at = steps[i].at /\ (w \in DOMAIN steps[i].at => new[i].stale = TRUE)
    BY <1>2, <2>1
  <2>3. [steps[i] EXCEPT !.stale = TRUE] \in Steps
    <3>1. steps[i] \in Steps /\ TRUE \in BOOLEAN
      BY <2>1 DEF Sure
    <3> HIDE DEF new
    <3> QED  BY <3>1, StaleStep, Zenon
  <2>4. new[i] \in Steps
    BY <1>2, <2>1, <2>3 DEF Sure
  <2> QED  BY <2>1, <2>2, <2>4 DEF Sure, StepKept, Reaches
<1> QED  BY <1>4, <1>5 DEF ChainOK, new

-----------------------------------------------------------------------------
\* A step that did the same to the same weeks.
Alike(s, t) ==
  /\ t.stale = s.stale /\ DOMAIN t.at = DOMAIN s.at
  /\ \A w \in DOMAIN s.at : t.at[w].before = s.at[w].before /\ t.at[w].after = s.at[w].after

LEMMA KeepRevisionsAlike ==
  ASSUME NEW s, NEW a, StepTyped(s)
  PROVE  /\ Alike(s, KeepRevisions(s, a))
         /\ \A w \in DOMAIN s.at : w \in Answered(a) =>
              KeepRevisions(s, a).at[w].rev = StoredAs(a, w).rev
         /\ DOMAIN KeepRevisions(s, a) = {"at", "stale"}
<1> DEFINE ans == Answered(a)
           v(w) == StoredAs(a, w)
           new(w) == IF w \in ans THEN [s.at[w] EXCEPT !.rev = v(w).rev, !.era = v(w).era] ELSE s.at[w]
           at == [w \in DOMAIN s.at |-> new(w)]
           t == KeepRevisions(s, a)
<1>1. DOMAIN s = {"at", "stale"} /\ \A w \in DOMAIN s.at : EntryTyped(s.at[w])
  BY DEF StepTyped
<1>2. t = [s EXCEPT !.at = at]
  BY DEF KeepRevisions
<1> HIDE DEF v, ans, t
<1>3. ASSUME NEW w \in DOMAIN s.at
      PROVE  /\ new(w).before = s.at[w].before /\ new(w).after = s.at[w].after
             /\ w \in ans => new(w).rev = v(w).rev
  BY <1>1 DEF EntryTyped
<1> HIDE DEF new
<1>4. t.at = at /\ t.stale = s.stale /\ DOMAIN t = {"at", "stale"}
  BY <1>1, <1>2
<1>5. DOMAIN t.at = DOMAIN s.at /\ \A w \in DOMAIN s.at : t.at[w] = new(w)
  BY <1>4
<1> HIDE DEF at
<1>6. Alike(s, t)
  BY <1>3, <1>4, <1>5 DEF Alike
<1>7. \A w \in DOMAIN s.at : w \in ans => t.at[w].rev = v(w).rev
  BY <1>3, <1>5
<1> QED  BY <1>4, <1>6, <1>7 DEF t, ans, v

LEMMA NewStepAlike ==
  ASSUME NEW s, NEW a, StepTyped(s),
         \A w \in DOMAIN s.at : w \in Answered(a) => StoredAs(a, w).body = s.at[w].after
  PROVE  /\ Alike(s, KeepRevisions(KeepAfter(s, a), a))
         /\ \A w \in DOMAIN s.at : w \in Answered(a) =>
              KeepRevisions(KeepAfter(s, a), a).at[w].rev = StoredAs(a, w).rev
<1> DEFINE ans == Answered(a)
           v(w) == StoredAs(a, w)
           mid(w) == IF w \in ans THEN [s.at[w] EXCEPT !.after = v(w).body] ELSE s.at[w]
           new(w) == IF w \in ans THEN [mid(w) EXCEPT !.rev = v(w).rev, !.era = v(w).era] ELSE mid(w)
           m == KeepAfter(s, a)
           t == KeepRevisions(m, a)
<1>1. DOMAIN s = {"at", "stale"} /\ \A w \in DOMAIN s.at : EntryTyped(s.at[w])
  BY DEF StepTyped
<1>2. \A w \in DOMAIN s.at : w \in ans => v(w).body = s.at[w].after
  OBVIOUS
<1>3. m = [s EXCEPT !.at = [w \in DOMAIN s.at |-> mid(w)]]
  BY DEF KeepAfter
<1> HIDE DEF mid
<1>4. /\ DOMAIN m = {"at", "stale"} /\ m.stale = s.stale /\ DOMAIN m.at = DOMAIN s.at
      /\ \A w \in DOMAIN s.at : m.at[w] = mid(w)
  BY <1>1, <1>3
<1> HIDE DEF m
<1>5. /\ t.stale = s.stale /\ DOMAIN t.at = DOMAIN s.at
      /\ \A w \in DOMAIN s.at : t.at[w] = new(w)
  BY <1>4 DEF KeepRevisions
<1> HIDE DEF v, ans
<1>6. ASSUME NEW w \in DOMAIN s.at
      PROVE  /\ new(w).before = s.at[w].before /\ new(w).after = s.at[w].after
             /\ w \in ans => new(w).rev = v(w).rev
  <2>1. EntryTyped(s.at[w])
    BY <1>1
  <2>2. CASE w \in ans
    <3>1. /\ DOMAIN mid(w) = {"before", "after", "rev", "era"}
          /\ mid(w).before = s.at[w].before /\ mid(w).after = v(w).body
      BY <2>1, <2>2 DEF EntryTyped, mid
    <3> QED  BY <1>2, <2>2, <3>1
  <2>3. CASE w \notin ans
    BY <2>1, <2>3 DEF mid
  <2> QED  BY <2>2, <2>3
<1> HIDE DEF new, t
<1>7. Alike(s, t)
  BY <1>5, <1>6 DEF Alike
<1>8. \A w \in DOMAIN s.at : w \in ans => t.at[w].rev = v(w).rev
  BY <1>5, <1>6
<1> QED  BY <1>7, <1>8 DEF t, m, ans, v

\* The step as it is filed.
LEMMA KeepRevisionsStep ==
  ASSUME NEW s \in Steps, NEW a,
         \A w \in Answered(a) : StoredAs(a, w).rev \in Nat /\ StoredAs(a, w).era \in Nat
  PROVE  KeepRevisions(s, a) \in Steps
<1> DEFINE ans == Answered(a)
           v(w) == StoredAs(a, w)
           new(w) == IF w \in ans THEN [s.at[w] EXCEPT !.rev = v(w).rev, !.era = v(w).era] ELSE s.at[w]
           at == [w \in DOMAIN s.at |-> new(w)]
<1>0. \A w \in ans : v(w).rev \in Nat /\ v(w).era \in Nat
  OBVIOUS
<1>1. KeepRevisions(s, a) = [s EXCEPT !.at = at]
  BY DEF KeepRevisions
<1> HIDE DEF v, ans
<1>2. ASSUME NEW w \in DOMAIN s.at
      PROVE  new(w) \in StepEntries
  <2>1. s.at[w] \in StepEntries
    BY StepsFields
  <2> QED  BY <1>0, <2>1 DEF StepEntries
<1> HIDE DEF new
<1>3. /\ DOMAIN s.at \in SUBSET Week /\ at = [w \in DOMAIN s.at |-> at[w]]
      /\ \A w \in DOMAIN s.at : at[w] \in StepEntries
  BY <1>2, StepsFields
<1> HIDE DEF at
<1>4. s = [at |-> s.at, stale |-> s.stale] /\ s.stale \in BOOLEAN
  BY StepsFields
<1>5. [at |-> at, stale |-> s.stale] \in Steps
  BY <1>3, <1>4, StepsBuilt
<1>6. [s EXCEPT !.at = at] = [at |-> at, stale |-> s.stale]
  BY <1>4
<1> QED  BY <1>1, <1>5, <1>6

LEMMA KeepAfterStep ==
  ASSUME NEW s \in Steps, NEW a, \A w \in Answered(a) : StoredAs(a, w).body \in SUBSET Block
  PROVE  KeepAfter(s, a) \in Steps
<1> DEFINE ans == Answered(a)
           v(w) == StoredAs(a, w)
           new(w) == IF w \in ans THEN [s.at[w] EXCEPT !.after = v(w).body] ELSE s.at[w]
           at == [w \in DOMAIN s.at |-> new(w)]
<1>0. \A w \in ans : v(w).body \in SUBSET Block
  OBVIOUS
<1>1. KeepAfter(s, a) = [s EXCEPT !.at = at]
  BY DEF KeepAfter
<1> HIDE DEF v, ans
<1>2. ASSUME NEW w \in DOMAIN s.at
      PROVE  new(w) \in StepEntries
  <2>1. s.at[w] \in StepEntries
    BY StepsFields
  <2> QED  BY <1>0, <2>1 DEF StepEntries
<1> HIDE DEF new
<1>3. /\ DOMAIN s.at \in SUBSET Week /\ at = [w \in DOMAIN s.at |-> at[w]]
      /\ \A w \in DOMAIN s.at : at[w] \in StepEntries
  BY <1>2, StepsFields
<1> HIDE DEF at
<1>4. s = [at |-> s.at, stale |-> s.stale] /\ s.stale \in BOOLEAN
  BY StepsFields
<1>5. [at |-> at, stale |-> s.stale] \in Steps
  BY <1>3, <1>4, StepsBuilt
<1>6. [s EXCEPT !.at = at] = [at |-> at, stale |-> s.stale]
  BY <1>4
<1> QED  BY <1>1, <1>5, <1>6

-----------------------------------------------------------------------------
(* What a copy of a week says of its steps.                                *)

Undos(d) == IF d.travel = "undo" THEN Append(d.undo, d.trip) ELSE d.undo
Redos(d) == IF d.travel = "redo" THEN Append(d.redo, d.trip) ELSE d.redo

ChainsOK(d, C) ==
  /\ ChainOK(Undos(d), "undo", d.week, d.base, C)
  /\ ChainOK(Redos(d), "redo", d.week, d.base, C)
  /\ d.travel # None => Reaches(d.trip, d.week)

\* The step of the save on its way, or of one that was given up.
StepFits(d, C) ==
  d.step # None => /\ d.step \in Steps
                   /\ StepKept(d.step) \/ Doubles(d.step)
                   /\ ~d.step.stale
                   /\ d.week \in DOMAIN d.step.at => Within(d.base, d.step.at[d.week].before, C)

\* A save whose step is not of the open week changes nothing there.
SaveFits(d, ws) ==
  d.travel = None /\ (d.step = None \/ d.week \notin DOMAIN d.step.at)
    => \A wr \in ws : wr.week = d.week => wr.body = d.base

PendingKept(d) == d.pending # None => BatchKept(d.pending.writes) /\ SaveFits(d, d.pending.writes)

\* Edits only add blocks, and none is Movable.
GrownOK(d, limbo) ==
  d.travel = None =>
    IF d.week \in limbo THEN ~d.dirty
    ELSE d.base \subseteq d.body /\ Movable \notin d.body \ d.base

BookOK(d, limbo, C) == ChainsOK(d, C) /\ StepFits(d, C) /\ PendingKept(d) /\ GrownOK(d, limbo)
Books(d, ds, limbo, C) == BookOK(d, limbo, C) /\ \A w \in DOMAIN ds : BookOK(ds[w], limbo, C)

AskOK(d, c) ==
  /\ d.travel # None => c.kind = "post"
  /\ c.kind = "post" => BatchKept(c.writes) /\ SaveFits(d, c.writes)

LeftKept(ss) == \A s \in ss : s.kind = "post" => BatchKept(s.writes)

OneWeek(ws) == \E w \in Week : \A u \in Week : Movable \in ws[u].body <=> u = w

Sound(g) == ~g.torn /\ ~g.misfiled
StepsInv ==
  Sound(ghost) =>
    /\ OneWeek(weeks)
    /\ Movable \notin ghost.carried
    /\ Books(desk, drafts, ghost.limbo, ghost.carried)
    /\ AskOK(desk, call)
    /\ LeftKept(strays)

-----------------------------------------------------------------------------
LEMMA SameChains ==
  ASSUME NEW d, NEW e, NEW C, ChainsOK(d, C), e.week = d.week, e.base = d.base, e.undo = d.undo,
         e.redo = d.redo, e.travel = d.travel, e.trip = d.trip
  PROVE  ChainsOK(e, C)
  BY DEF ChainsOK, Undos, Redos

LEMMA SameStep ==
  ASSUME NEW d, NEW e, NEW C, StepFits(d, C), e.week = d.week, e.base = d.base, e.step = d.step
  PROVE  StepFits(e, C)
  BY DEF StepFits

LEMMA SameSave ==
  ASSUME NEW d, NEW e, e.week = d.week, e.base = d.base, e.step = d.step, e.travel = d.travel
  PROVE  \A ws : SaveFits(d, ws) => SaveFits(e, ws)
  BY DEF SaveFits

LEMMA SamePending ==
  ASSUME NEW d, NEW e, PendingKept(d), e.week = d.week, e.base = d.base, e.step = d.step,
         e.travel = d.travel, e.pending = d.pending
  PROVE  PendingKept(e)
  BY SameSave DEF PendingKept

LEMMA SameGrown ==
  ASSUME NEW d, NEW e, NEW L, GrownOK(d, L), e.week = d.week, e.base = d.base, e.body = d.body,
         e.travel = d.travel, e.dirty = d.dirty
  PROVE  GrownOK(e, L)
  BY DEF GrownOK

LEMMA SameBook ==
  ASSUME NEW d, NEW e, NEW L, NEW C, BookOK(d, L, C), e.week = d.week, e.base = d.base,
         e.body = d.body, e.undo = d.undo, e.redo = d.redo, e.travel = d.travel, e.trip = d.trip,
         e.step = d.step, e.pending = d.pending, e.dirty = d.dirty
  PROVE  BookOK(e, L, C)
  BY SameChains, SameStep, SamePending, SameGrown DEF BookOK

LEMMA BookMono ==
  ASSUME NEW d, NEW L, NEW C, NEW D, C \subseteq D, BookOK(d, L, C)
  PROVE  BookOK(d, L, D)
<1>1. ChainsOK(d, D)
  BY ChainMono DEF ChainsOK, BookOK
<1>2. \A x, y : Within(x, y, C) => Within(x, y, D)
  BY DEF Within
<1>3. StepFits(d, D)
  BY <1>2 DEF StepFits, BookOK
<1> QED  BY <1>1, <1>3 DEF BookOK

\* Other weeks are given up, or answered.
LEMMA BookLimbo ==
  ASSUME NEW d, NEW L, NEW K, NEW C, d.week \in L <=> d.week \in K, BookOK(d, L, C)
  PROVE  BookOK(d, K, C)
  BY DEF BookOK, GrownOK

\* The week on screen is given up.
LEMMA GivenUp ==
  ASSUME NEW d, NEW L, ~d.dirty, d.week \in L
  PROVE  GrownOK(d, L)
  BY DEF GrownOK

LEMMA StepsFacts ==
  ASSUME DeskInv, EditsInv, StepsInv, Sound(ghost)
  PROVE  /\ OneWeek(weeks) /\ Movable \notin ghost.carried
         /\ BookOK(desk, ghost.limbo, ghost.carried)
         /\ \A w \in DOMAIN drafts : BookOK(drafts[w], ghost.limbo, ghost.carried)
         /\ AskOK(desk, call) /\ LeftKept(strays)
         /\ DeskOK(desk, history, FALSE) /\ DeskTyped(desk) /\ desk.week \notin DOMAIN drafts
         /\ \A w \in DOMAIN drafts : /\ DeskOK(drafts[w], history, FALSE) /\ DeskTyped(drafts[w])
                                     /\ drafts[w].week = w /\ drafts[w].travel = None
         /\ call.kind # "post" => desk.travel = None
<1>1. ghost.misfiled = FALSE
  BY WindowFacts DEF Sound, GhostTyped
<1>2. /\ DeskOK(desk, history, FALSE)
      /\ \A w \in DOMAIN drafts : /\ DeskOK(drafts[w], history, FALSE)
                                  /\ drafts[w].week = w /\ drafts[w].travel = None
  BY <1>1, WindowFacts DEF CopiesOK
<1> QED  BY <1>2, WindowFacts DEF StepsInv, Books, AskOK, DeskOK

\* One action of the window.
LEMMA WindowSteps ==
  ASSUME UNCHANGED routeVars, OneWeek(weeks), Movable \notin ghost'.carried,
         BookOK(desk', ghost'.limbo, ghost'.carried),
         \A w \in DOMAIN drafts' : BookOK(drafts'[w], ghost'.limbo, ghost'.carried),
         AskOK(desk', call'), LeftKept(strays')
  PROVE  StepsInv'
  BY DEF StepsInv, Books, routeVars, OneWeek

-----------------------------------------------------------------------------
\* What a load leaves.
LEMMA ParkedBooks ==
  ASSUME NEW d, NEW ds, NEW L, NEW C, DeskTyped(d), d.travel = None, BookOK(d, L, C),
         \A w \in DOMAIN ds : BookOK(ds[w], L, C)
  PROVE  \A w \in DOMAIN Parked(d, ds) : BookOK(Parked(d, ds)[w], L, C)
<1> DEFINE aside == [d EXCEPT !.travel = None, !.trip = None]
           more == [w \in {d.week} \cup DOMAIN ds |-> IF w = d.week THEN aside ELSE ds[w]]
<1>1. CASE Held(d)
  <2>1. Parked(d, ds) = more
    BY <1>1 DEF Parked
  <2>2. /\ aside.week = d.week /\ aside.base = d.base /\ aside.body = d.body
        /\ aside.undo = d.undo /\ aside.redo = d.redo /\ aside.travel = d.travel
        /\ aside.trip = d.trip /\ aside.step = d.step /\ aside.pending = d.pending
        /\ aside.dirty = d.dirty
    BY DEF DeskTyped
  <2> HIDE DEF aside
  <2>3. BookOK(aside, L, C)
    BY <2>2, SameBook
  <2> QED  BY <2>1, <2>3
<1>2. CASE ~Held(d)
  BY <1>2 DEF Parked
<1> QED  BY <1>1, <1>2

LEMMA WithoutBooks ==
  ASSUME NEW ds, NEW w, NEW L, NEW C, \A u \in DOMAIN ds : BookOK(ds[u], L, C)
  PROVE  \A u \in DOMAIN Without(ds, w) : BookOK(Without(ds, w)[u], L, C)
<1>1. DOMAIN Without(ds, w) = DOMAIN ds \ {w} /\ \A u \in DOMAIN ds \ {w} : Without(ds, w)[u] = ds[u]
  BY DEF Without, Restrict
<1> HIDE DEF Without
<1> QED  BY <1>1

LEMMA LoadWeekBooks ==
  ASSUME NEW d, NEW ds, NEW w, NEW discard \in BOOLEAN, NEW L, NEW C, DeskTyped(d),
         d.travel = None, BookOK(d, L, C),
         \A u \in DOMAIN ds : BookOK(ds[u], L, C) /\ DeskTyped(ds[u]) /\ ds[u].travel = None,
         LoadWeek(d, ds, w, discard)
  PROVE  /\ BookOK(desk', L, C) /\ \A u \in DOMAIN drafts' : BookOK(drafts'[u], L, C)
         /\ AskOK(desk', call')
<1>1. CASE desk' = d /\ drafts' = ds /\ call' = Idle
  BY <1>1 DEF AskOK, Idle
<1>2. CASE /\ desk' = [ds[w] EXCEPT !.travel = d.travel, !.trip = d.trip]
           /\ drafts' = Without(Parked(d, ds), w) /\ call' = Idle /\ w \in DOMAIN ds
  <2> DEFINE e == [ds[w] EXCEPT !.travel = d.travel, !.trip = d.trip]
  <2>1. DeskTyped(ds[w]) /\ ds[w].travel = None /\ BookOK(ds[w], L, C) /\ d.trip = None
        /\ ds[w].trip = None
    BY <1>2 DEF DeskTyped
  <2>2. /\ e.week = ds[w].week /\ e.base = ds[w].base /\ e.body = ds[w].body
        /\ e.undo = ds[w].undo /\ e.redo = ds[w].redo /\ e.travel = ds[w].travel
        /\ e.trip = ds[w].trip /\ e.step = ds[w].step /\ e.pending = ds[w].pending
        /\ e.dirty = ds[w].dirty
    BY <2>1 DEF DeskTyped
  <2> HIDE DEF e
  <2>3. BookOK(e, L, C)
    BY <2>1, <2>2, SameBook
  <2>4. \A u \in DOMAIN Without(Parked(d, ds), w) : BookOK(Without(Parked(d, ds), w)[u], L, C)
    BY ParkedBooks, WithoutBooks
  <2>5. desk' = e /\ drafts' = Without(Parked(d, ds), w) /\ call' = Idle /\ e.travel = None
    BY <1>2, <2>1, <2>2 DEF e
  <2> QED  BY <2>3, <2>4, <2>5 DEF AskOK, Idle
<1>3. CASE /\ desk' = d /\ call' = Load(w)
           /\ drafts' = IF discard THEN Without(ds, w) ELSE ds
  <2>1. \A u \in DOMAIN drafts' : BookOK(drafts'[u], L, C)
    BY <1>3, WithoutBooks
  <2> QED  BY <1>3, <2>1 DEF AskOK, Load
<1> QED  BY <1>1, <1>2, <1>3 DEF LoadWeek

-----------------------------------------------------------------------------
(* StepsInv: the store.                                                    *)

\* What a save that was accepted wrote, each week in place of the body it was made from.
LEMMA BatchWrites ==
  ASSUME DeskInv, ~ghost.misfiled, NEW op, NEW ws, BatchOK(ws, history, ghost.misfiled),
         PostChanges(op, ws), weeks' # weeks, ~NotAsRead(ws)
  PROVE  /\ \A wr \in ws : /\ wr.week \in Week /\ ~wr.twice
                           /\ wr.base = weeks[wr.week].body /\ weeks'[wr.week].body = wr.body
         /\ \A u \in Week : (\A wr \in ws : wr.week # u) => weeks'[u] = weeks[u]
<1>1. Changes(op, ws).kind = "write"
  BY DEF PostChanges, routeVars
<1>2. (\A wr \in ws : Fits(wr)) /\ (\A wr \in ws : ~wr.twice) /\ weeks' = After(ws)
  BY <1>1 DEF Changes, Run, PostChanges
<1>3. \A wr \in ws : weeks'[wr.week].body = wr.body
  <2>1. R!RegisterInv
    BY DEF DeskInv
  <2> QED  BY <1>2, <2>1, BatchStored
<1>4. \A u \in Week : (\A wr \in ws : wr.week # u) => weeks'[u] = weeks[u]
  BY <1>2 DEF After
<1>5. ASSUME NEW wr \in ws
      PROVE  wr.week \in Week /\ wr.base = weeks[wr.week].body
  <2>1. wr.era = era /\ wr.rev = weeks[wr.week].rev
    BY DEF NotAsRead
  <2>2. wr.week \in Week /\ Ver(era, wr.week, weeks[wr.week].rev, wr.base) \in history
    BY <2>1 DEF BatchOK, WriteOK
  <2>3. Ver(era, wr.week, weeks[wr.week].rev, weeks[wr.week].body) \in history
    BY <2>2, VersionOfStored DEF DeskInv
  <2>4. R!RevisionNamesBody
    BY DEF DeskInv, R!RegisterInv
  <2> QED  BY <2>2, <2>3, <2>4 DEF R!RevisionNamesBody, Ver
<1> QED  BY <1>2, <1>3, <1>4, <1>5

LEMMA BatchMovesOne ==
  ASSUME DeskInv, ~ghost.misfiled, OneWeek(weeks), NEW op, NEW ws,
         BatchOK(ws, history, ghost.misfiled), BatchKept(ws), PostChanges(op, ws),
         weeks' # weeks => ~NotAsRead(ws)
  PROVE  OneWeek(weeks')
<1>1. CASE weeks' = weeks
  BY <1>1 DEF OneWeek
<1>2. CASE weeks' # weeks
  <2>1. /\ \A wr \in ws : /\ wr.week \in Week /\ ~wr.twice
                          /\ wr.base = weeks[wr.week].body /\ weeks'[wr.week].body = wr.body
        /\ \A u \in Week : (\A wr \in ws : wr.week # u) => weeks'[u] = weeks[u]
    BY <1>2, BatchWrites
  <2>2. PICK w \in Week : \A u \in Week : Movable \in weeks[u].body <=> u = w
    BY DEF OneWeek
  <2>3. ASSUME NEW u \in Week, \A wr \in ws : wr.week = u => Stays(wr.base, wr.body)
        PROVE  Movable \in weeks'[u].body <=> u = w
    BY <2>1, <2>2, <2>3 DEF Stays
  <2>4. CASE \A wr \in ws : Stays(wr.base, wr.body)
    BY <2>3, <2>4 DEF OneWeek
  <2>5. CASE \E from, to \in ws :
               /\ Goes(from.base, from.body) /\ Goes(to.body, to.base)
               /\ \A wr \in ws \ {from, to} : Stays(wr.base, wr.body)
    <3>1. PICK from \in ws, to \in ws :
            /\ Goes(from.base, from.body) /\ Goes(to.body, to.base)
            /\ \A wr \in ws \ {from, to} : Stays(wr.base, wr.body)
      BY <2>5
    <3>2. from.week = w /\ Movable \notin weeks'[from.week].body
      BY <2>1, <2>2, <3>1 DEF Goes
    <3>3. to.week \in Week /\ to.week # w /\ Movable \in weeks'[to.week].body
      BY <2>1, <2>2, <3>1 DEF Goes
    <3>4. ASSUME NEW u \in Week, u # to.week, u # from.week
          PROVE  Movable \notin weeks'[u].body
      <4>1. \A wr \in ws : wr.week = u => Stays(wr.base, wr.body)
        BY <3>1, <3>4
      <4> QED  BY <2>3, <3>2, <3>4, <4>1
    <3>5. \A u \in Week : Movable \in weeks'[u].body <=> u = to.week
      BY <3>2, <3>3, <3>4
    <3> QED  BY <3>3, <3>5 DEF OneWeek
  <2> QED  BY <2>1, <2>4, <2>5 DEF BatchKept
<1> QED  BY <1>1, <1>2

LEMMA ReplacedHasOne == ASSUME ReplaceAccount PROVE OneWeek(weeks')
<1>1. weeks' = Point /\ \A u \in Week : Movable \in Point[u].body <=> u = FirstWeek
  BY DEF ReplaceAccount, Point, Nothing
<1> QED  BY <1>1, RoutesAssumption DEF OneWeek

LEMMA RestoredHasOne ==
  ASSUME OneWeek(weeks), NEW op, NEW token, PostRestore(op, token) PROVE OneWeek(weeks')
<1>1. CASE ReplaceAccount
  BY <1>1, ReplacedHasOne
<1>2. CASE UNCHANGED routeVars
  BY <1>2 DEF routeVars, OneWeek
<1> QED  BY <1>1, <1>2 DEF PostRestore

LEMMA OthersHaveOne ==
  ASSUME DeskInv, OneWeek(weeks), OtherSaves \/ OtherRestores PROVE OneWeek(weeks')
<1>1. CASE OtherSaves
  <2>1. PICK w \in Week, x \in Theirs \ EverStored :
          weeks' = [weeks EXCEPT ![w] = [body |-> @.body \cup {x}, rev |-> @.rev + 1]]
    BY <1>1 DEF OtherSaves
  <2>2. PICK v \in Week : \A u \in Week : Movable \in weeks[u].body <=> u = v
    BY DEF OneWeek
  <2>3. weeks \in [Week -> Stored]
    BY RegisterTyped DEF DeskInv
  <2>4. VersionOf(v) \in history /\ VersionOf(v).body = weeks[v].body
    BY VersionOfStored DEF DeskInv, VersionOf
  <2>5. Movable \in EverStored
    BY <2>2, <2>4 DEF EverStored
  <2>6. ASSUME NEW u \in Week
        PROVE  Movable \in weeks'[u].body <=> Movable \in weeks[u].body
    BY <2>1, <2>3, <2>5
  <2> QED  BY <2>2, <2>6 DEF OneWeek
<1>2. CASE OtherRestores
  BY <1>2, ReplacedHasOne DEF OtherRestores
<1> QED  BY <1>1, <1>2

LEMMA StoreSteps ==
  ASSUME DeskInv, EditsInv, StepsInv, Sound(ghost'), Sound(ghost), OneWeek(weeks'),
         UNCHANGED <<desk, drafts>>, ghost'.carried = ghost.carried, ghost'.limbo = ghost.limbo,
         AskOK(desk, call'), strays' \subseteq strays
  PROVE  StepsInv'
<1>1. LeftKept(strays')
  BY StepsFacts DEF LeftKept
<1> QED  BY <1>1, StepsFacts DEF StepsInv, Books, OneWeek

LEMMA TornIs ==
  ASSUME GhostTyped(ghost), NEW x, ghost' = [ghost EXCEPT !.torn = @ \/ x]
  PROVE  /\ Sound(ghost') => Sound(ghost) /\ ~x
         /\ ghost'.carried = ghost.carried /\ ghost'.limbo = ghost.limbo
<1>1. ghost'.torn = (ghost.torn \/ x) /\ ghost'.misfiled = ghost.misfiled
      /\ ghost'.carried = ghost.carried /\ ghost'.limbo = ghost.limbo
  BY DEF GhostTyped
<1> QED  BY <1>1, Zenon DEF Sound

LEMMA PostSteps ==
  ASSUME DeskInv, EditsInv, StepsInv, UNCHANGED <<desk, drafts>>, strays' \subseteq strays,
         NEW op, NEW ws, BatchOK(ws, history, ghost.misfiled), Sound(ghost) => BatchKept(ws),
         PostChanges(op, ws),
         ghost' = [ghost EXCEPT !.torn = @ \/ (weeks' # weeks /\ NotAsRead(ws))],
         Sound(ghost) => AskOK(desk, call')
  PROVE  StepsInv'
<1> SUFFICES ASSUME Sound(ghost')
             PROVE  StepsInv'
  BY DEF StepsInv
<1>1. Sound(ghost) /\ ~(weeks' # weeks /\ NotAsRead(ws))
      /\ ghost'.carried = ghost.carried /\ ghost'.limbo = ghost.limbo
  BY WindowFacts, TornIs
<1>2. OneWeek(weeks')
  BY <1>1, StepsFacts, BatchMovesOne DEF Sound
<1> QED  BY <1>1, <1>2, StoreSteps

LEMMA RestoreSteps ==
  ASSUME DeskInv, EditsInv, StepsInv, UNCHANGED <<desk, drafts, ghost>>, strays' \subseteq strays,
         Sound(ghost) => AskOK(desk, call'), Sound(ghost) => OneWeek(weeks')
  PROVE  StepsInv'
<1> SUFFICES ASSUME Sound(ghost')
             PROVE  StepsInv'
  BY DEF StepsInv
<1> QED  BY StoreSteps

LEMMA ServerAnswersSteps == ASSUME DeskInv, EditsInv, StepsInv, ServerAnswers PROVE StepsInv'
<1>1. UNCHANGED <<desk, drafts, strays>>
  BY DEF ServerAnswers
<1>2. CASE /\ call.kind \in {"load", "fetch", "preview"} /\ UNCHANGED <<routeVars, ghost>>
           /\ \E x : call' = [call EXCEPT !.data = x]
  <2>1. call'.kind = call.kind
    <3>1. "kind" \in DOMAIN call
      BY <1>2, WindowFacts, CallKinds DEF IsLoad, IsMove, IsAdd, IsPreview
    <3> QED  BY <1>2, <3>1
  <2>2. Sound(ghost) => AskOK(desk, call') /\ OneWeek(weeks')
    BY <1>2, <2>1, StepsFacts DEF AskOK, routeVars, OneWeek
  <2> QED  BY <1>1, <1>2, <2>2, RestoreSteps
<1>3. CASE /\ call.kind = "post" /\ PostChanges(call.op, call.writes)
           /\ call' = [call EXCEPT !.answer = Changes(call.op, call.writes).answer]
           /\ ghost' = [ghost EXCEPT !.torn = @ \/ (weeks' # weeks /\ NotAsRead(call.writes))]
  <2>1. IsPost(call, history, ghost.misfiled)
    BY <1>3, WindowFacts, CallKinds
  <2>2. call'.kind = call.kind /\ call'.writes = call.writes
    BY <1>3, <2>1 DEF IsPost
  <2>3. Sound(ghost) => AskOK(desk, call') /\ BatchKept(call.writes)
    BY <1>3, <2>2, StepsFacts DEF AskOK
  <2>4. BatchOK(call.writes, history, ghost.misfiled)
    BY <2>1 DEF IsPost
  <2> QED  BY <1>1, <1>3, <2>3, <2>4, PostSteps
<1>4. CASE /\ call.kind = "restore" /\ PostRestore(call.op, call.token) /\ UNCHANGED ghost
           /\ call' = [call EXCEPT !.answer = Restoring(call.op, call.token).answer]
  <2>1. call'.kind = call.kind
    BY <1>4, WindowFacts, CallKinds DEF IsRestore
  <2>2. Sound(ghost) => AskOK(desk, call') /\ OneWeek(weeks')
    BY <1>4, <2>1, StepsFacts, RestoredHasOne DEF AskOK
  <2> QED  BY <1>1, <1>4, <2>2, RestoreSteps
<1> QED  BY <1>2, <1>3, <1>4 DEF ServerAnswers

LEMMA StrayRunsSteps == ASSUME DeskInv, EditsInv, StepsInv, StrayRuns PROVE StepsInv'
<1>1. UNCHANGED <<desk, drafts, call>>
  BY DEF StrayRuns
<1>2. PICK s \in strays :
        /\ strays' = strays \ {s}
        /\ \/ /\ s.kind = "post"
              /\ PostChanges(s.op, s.writes)
              /\ ghost' = [ghost EXCEPT !.torn = @ \/ (weeks' # weeks /\ NotAsRead(s.writes))]
           \/ /\ s.kind = "restore"
              /\ PostRestore(s.op, s.token)
              /\ UNCHANGED ghost
  BY DEF StrayRuns
<1>3. Sound(ghost) => AskOK(desk, call') /\ strays' \subseteq strays
  BY <1>1, <1>2, StepsFacts
<1>4. CASE /\ s.kind = "post" /\ PostChanges(s.op, s.writes)
           /\ ghost' = [ghost EXCEPT !.torn = @ \/ (weeks' # weeks /\ NotAsRead(s.writes))]
  <2>1. BatchOK(s.writes, history, ghost.misfiled)
    BY <1>4, WindowFacts DEF IsPost, IsRestore
  <2>2. Sound(ghost) => BatchKept(s.writes)
    BY <1>4, StepsFacts DEF LeftKept
  <2> QED  BY <1>1, <1>2, <1>3, <1>4, <2>1, <2>2, PostSteps
<1>5. CASE s.kind = "restore" /\ PostRestore(s.op, s.token) /\ UNCHANGED ghost
  <2>1. Sound(ghost) => OneWeek(weeks')
    BY <1>5, StepsFacts, RestoredHasOne
  <2> QED  BY <1>1, <1>2, <1>3, <1>5, <2>1, RestoreSteps
<1> QED  BY <1>2, <1>4, <1>5

LEMMA OthersSteps == ASSUME DeskInv, EditsInv, StepsInv, Others PROVE StepsInv'
<1>1. UNCHANGED <<desk, drafts, call, strays, ghost>> /\ (OtherSaves \/ OtherRestores)
  BY DEF Others
<1>2. Sound(ghost) => AskOK(desk, call') /\ OneWeek(weeks')
  BY <1>1, StepsFacts, OthersHaveOne
<1> QED  BY <1>1, <1>2, RestoreSteps

-----------------------------------------------------------------------------
(* StepsInv: requests that fail, restore points, reading a week.           *)

LEMMA LeftBehindKept ==
  ASSUME AskOK(desk, call), LeftKept(strays), strays' = strays \/ strays' = LeftBehind
  PROVE  LeftKept(strays')
<1>1. strays' \subseteq strays \cup {call}
  BY DEF LeftBehind
<1> QED  BY <1>1 DEF LeftKept, AskOK

\* The week on screen stays as it is, and no save begins.
LEMMA QuietSteps ==
  ASSUME DeskInv, EditsInv, StepsInv, Sound(ghost), UNCHANGED <<routeVars, desk, drafts>>,
         ghost'.carried = ghost.carried, ghost'.limbo = ghost.limbo,
         desk.travel = None, call'.kind # "post", strays' = strays \/ strays' = LeftBehind
  PROVE  StepsInv'
<1>1. AskOK(desk', call') /\ LeftKept(strays')
  BY StepsFacts, LeftBehindKept DEF AskOK
<1> QED  BY <1>1, StepsFacts, WindowSteps

LEMMA SupersedeIs ==
  ASSUME DeskInv, Supersede, Sound(ghost')
  PROVE  /\ Sound(ghost) /\ desk.travel = None
         /\ ghost'.carried = ghost.carried /\ ghost'.limbo = ghost.limbo
<1>1. ghost' = [ghost EXCEPT !.torn = @ \/ desk.travel # None]
  BY DEF Supersede
<1> QED  BY <1>1, WindowFacts, TornIs

LEMMA AddToWeekSteps == ASSUME DeskInv, EditsInv, StepsInv, AddToWeek PROVE StepsInv'
<1> SUFFICES ASSUME Sound(ghost')
             PROVE  StepsInv'
  BY DEF StepsInv
<1>1. Supersede /\ UNCHANGED <<routeVars, desk, drafts>> /\ call'.kind = "fetch"
  BY DEF AddToWeek
<1> QED  BY <1>1, SupersedeIs, QuietSteps DEF Supersede

LEMMA RestorePointSteps ==
  ASSUME DeskInv, EditsInv, StepsInv,
         PreviewRestorePoint \/ PreviewOk \/ ApplyRestorePoint \/ RestoreRefused
  PROVE  StepsInv'
<1> SUFFICES ASSUME Sound(ghost')
             PROVE  StepsInv'
  BY DEF StepsInv
<1>1. CASE PreviewRestorePoint \/ ApplyRestorePoint
  <2>1. Supersede /\ UNCHANGED <<routeVars, desk, drafts>> /\ call'.kind # "post"
    BY <1>1 DEF PreviewRestorePoint, ApplyRestorePoint
  <2> QED  BY <2>1, SupersedeIs, QuietSteps DEF Supersede
<1>2. CASE PreviewOk \/ RestoreRefused
  <2>1. UNCHANGED <<routeVars, desk, drafts, strays, ghost>> /\ call' = Idle /\ call.kind # "post"
    BY <1>2 DEF PreviewOk, RestoreRefused
  <2>2. Idle.kind # "post"
    BY DEF Idle
  <2> QED  BY <2>1, <2>2, StepsFacts, QuietSteps
<1> QED  BY <1>1, <1>2

-----------------------------------------------------------------------------
\* A week is loaded, and nothing else happens.
LEMMA LoadingSteps ==
  ASSUME DeskInv, EditsInv, StepsInv, Sound(ghost), UNCHANGED <<routeVars, strays>>,
         NEW L, ghost'.carried = ghost.carried, ghost'.limbo = L,
         NEW d, DeskTyped(d), d.travel = None, BookOK(d, L, ghost.carried),
         NEW ds, \A u \in DOMAIN ds : u \in DOMAIN drafts /\ ds[u] = drafts[u],
         \A u \in DOMAIN drafts : u \in L <=> u \in ghost.limbo,
         NEW w, NEW discard \in BOOLEAN, LoadWeek(d, ds, w, discard)
  PROVE  StepsInv'
<1>1. ASSUME NEW u \in DOMAIN ds
      PROVE  BookOK(ds[u], L, ghost.carried) /\ DeskTyped(ds[u]) /\ ds[u].travel = None
  <2>1. /\ u \in DOMAIN drafts /\ ds[u] = drafts[u] /\ drafts[u].week = u
        /\ BookOK(drafts[u], ghost.limbo, ghost.carried)
        /\ DeskTyped(drafts[u]) /\ drafts[u].travel = None
    BY StepsFacts
  <2>2. drafts[u].week \in ghost.limbo <=> drafts[u].week \in L
    BY <2>1
  <2> QED  BY <2>1, <2>2, BookLimbo
<1>2. /\ BookOK(desk', L, ghost.carried)
      /\ \A u \in DOMAIN drafts' : BookOK(drafts'[u], L, ghost.carried)
      /\ AskOK(desk', call')
  BY <1>1, LoadWeekBooks
<1> QED  BY <1>2, StepsFacts, WindowSteps

LEMMA SwitchWeekSteps == ASSUME DeskInv, EditsInv, StepsInv, SwitchWeek PROVE StepsInv'
<1> SUFFICES ASSUME Sound(ghost')
             PROVE  StepsInv'
  BY DEF StepsInv
<1>1. PICK w \in Week : LoadWeek(desk, drafts, w, FALSE)
  BY DEF SwitchWeek
<1>2. UNCHANGED <<routeVars, strays, ghost>> /\ call = Idle
  BY DEF SwitchWeek, Busy
<1>3. Sound(ghost) /\ desk.travel = None
  BY <1>2, StepsFacts DEF Idle
<1> QED  BY <1>1, <1>2, <1>3, StepsFacts, LoadingSteps

LEMMA ReloadSteps == ASSUME DeskInv, EditsInv, StepsInv, Reload PROVE StepsInv'
<1> SUFFICES ASSUME Sound(ghost')
             PROVE  StepsInv'
  BY DEF StepsInv
<1> DEFINE d == [desk EXCEPT !.dirty = FALSE, !.conflict = FALSE, !.pending = None]
           L == ghost.limbo \cup {desk.week}
<1>1. UNCHANGED <<routeVars, strays>> /\ call = Idle /\ LoadWeek(d, drafts, desk.week, TRUE)
  BY DEF Reload, Busy
<1>2. ghost' = [ghost EXCEPT !.excused = @ \cup desk.body \cup Elsewhere(desk),
                             !.limbo = @ \cup {desk.week}]
  BY DEF Reload
<1>3. Sound(ghost) /\ ghost'.carried = ghost.carried /\ ghost'.limbo = L
  BY <1>2, WindowFacts DEF GhostTyped, Sound
<1>4. desk.travel = None
  BY <1>1, <1>3, StepsFacts DEF Idle
<1>5. /\ d.in = desk.in /\ d.week = desk.week /\ d.body = desk.body /\ d.base = desk.base
      /\ d.rev = desk.rev /\ d.dirty = FALSE /\ d.conflict = FALSE /\ d.pending = None
      /\ d.undo = desk.undo /\ d.redo = desk.redo /\ d.step = desk.step
      /\ d.travel = desk.travel /\ d.trip = desk.trip /\ DOMAIN d = DOMAIN desk
  BY WindowFacts DEF DeskTyped
<1> HIDE DEF d
<1>6. DeskTyped(d)
  BY <1>5, WindowFacts DEF DeskTyped
<1>7. BookOK(d, L, ghost.carried)
  <2>1. BookOK(desk, ghost.limbo, ghost.carried)
    BY <1>3, StepsFacts
  <2>2. ChainsOK(d, ghost.carried) /\ StepFits(d, ghost.carried)
    BY <1>5, <2>1, SameChains, SameStep DEF BookOK
  <2>3. GrownOK(d, L)
    BY <1>5, GivenUp
  <2> QED  BY <1>5, <2>2, <2>3 DEF BookOK, PendingKept
<1>8. \A u \in DOMAIN drafts : u \in L <=> u \in ghost.limbo
  BY WindowFacts
<1> HIDE DEF L
<1> QED  BY <1>1, <1>3, <1>4, <1>5, <1>6, <1>7, <1>8, LoadingSteps

LEMMA AcceptRemoteWeekSteps == ASSUME DeskInv, EditsInv, StepsInv, AcceptRemoteWeek PROVE StepsInv'
<1> SUFFICES ASSUME Sound(ghost')
             PROVE  StepsInv'
  BY DEF StepsInv
<1>1. UNCHANGED <<routeVars, strays, ghost>> /\ call = Idle
  BY DEF AcceptRemoteWeek, Busy
<1>2. desk.travel = None /\ call.kind # "post" /\ Sound(ghost)
  BY <1>1, StepsFacts DEF Idle
<1>3. CASE LoadWeek(desk, drafts, desk.week, TRUE)
  BY <1>1, <1>2, <1>3, StepsFacts, LoadingSteps
<1>4. CASE desk' = [desk EXCEPT !.conflict = TRUE] /\ UNCHANGED <<drafts, call>>
  <2>1. /\ desk'.week = desk.week /\ desk'.base = desk.base /\ desk'.body = desk.body
        /\ desk'.undo = desk.undo /\ desk'.redo = desk.redo /\ desk'.travel = desk.travel
        /\ desk'.trip = desk.trip /\ desk'.step = desk.step /\ desk'.pending = desk.pending
        /\ desk'.dirty = desk.dirty
    BY <1>4, WindowFacts DEF DeskTyped
  <2>2. BookOK(desk', ghost.limbo, ghost.carried)
    BY <1>2, <2>1, StepsFacts, SameBook
  <2>3. AskOK(desk', call')
    BY <1>2, <1>4, <2>1 DEF AskOK
  <2> QED  BY <1>1, <1>2, <1>4, <2>2, <2>3, StepsFacts, WindowSteps
<1> QED  BY <1>3, <1>4 DEF AcceptRemoteWeek

LEMMA RestoreOkSteps == ASSUME DeskInv, EditsInv, StepsInv, RestoreOk PROVE StepsInv'
<1> SUFFICES ASSUME Sound(ghost')
             PROVE  StepsInv'
  BY DEF StepsInv
<1> DEFINE d == [desk EXCEPT !.undo = <<>>, !.redo = <<>>]
<1>1. UNCHANGED <<routeVars, strays, ghost>> /\ LoadWeek(d, drafts, desk.week, FALSE)
      /\ call.kind = "restore"
  BY DEF RestoreOk
<1>2. Sound(ghost) /\ desk.travel = None
  BY <1>1, StepsFacts
<1>3. /\ d.in = desk.in /\ d.week = desk.week /\ d.body = desk.body /\ d.base = desk.base
      /\ d.rev = desk.rev /\ d.dirty = desk.dirty /\ d.conflict = desk.conflict
      /\ d.pending = desk.pending /\ d.undo = <<>> /\ d.redo = <<>> /\ d.step = desk.step
      /\ d.travel = desk.travel /\ d.trip = desk.trip /\ DOMAIN d = DOMAIN desk
  BY WindowFacts DEF DeskTyped
<1> HIDE DEF d
<1>4. DeskTyped(d)
  BY <1>3, WindowFacts DEF DeskTyped
<1>5. BookOK(d, ghost.limbo, ghost.carried)
  <2>1. BookOK(desk, ghost.limbo, ghost.carried)
    BY <1>2, StepsFacts
  <2>2. ChainsOK(d, ghost.carried)
    <3>1. Undos(d) = <<>> /\ Redos(d) = <<>>
      BY <1>2, <1>3, DeskAssumption DEF Undos, Redos
    <3> QED  BY <1>2, <1>3, <3>1, ChainEmpty DEF ChainsOK
  <2>3. StepFits(d, ghost.carried) /\ PendingKept(d) /\ GrownOK(d, ghost.limbo)
    BY <1>3, <2>1, SameStep, SamePending, SameGrown DEF BookOK
  <2> QED  BY <2>2, <2>3 DEF BookOK
<1> QED  BY <1>1, <1>2, <1>3, <1>4, <1>5, LoadingSteps

LEMMA SignInSteps == ASSUME DeskInv, EditsInv, StepsInv, SignIn PROVE StepsInv'
<1> SUFFICES ASSUME Sound(ghost')
             PROVE  StepsInv'
  BY DEF StepsInv
<1> DEFINE d == [desk EXCEPT !.in = TRUE]
<1>1. UNCHANGED <<routeVars, strays, ghost>> /\ LoadWeek(d, drafts, desk.week, TRUE) /\ call = Idle
  BY DEF SignIn, Busy
<1>2. Sound(ghost) /\ desk.travel = None
  BY <1>1, StepsFacts DEF Idle
<1>3. /\ d.in = TRUE /\ d.week = desk.week /\ d.body = desk.body /\ d.base = desk.base
      /\ d.rev = desk.rev /\ d.dirty = desk.dirty /\ d.conflict = desk.conflict
      /\ d.pending = desk.pending /\ d.undo = desk.undo /\ d.redo = desk.redo /\ d.step = desk.step
      /\ d.travel = desk.travel /\ d.trip = desk.trip /\ DOMAIN d = DOMAIN desk
  BY WindowFacts DEF DeskTyped
<1> HIDE DEF d
<1>4. DeskTyped(d)
  BY <1>3, WindowFacts DEF DeskTyped
<1>5. BookOK(d, ghost.limbo, ghost.carried)
  BY <1>2, <1>3, StepsFacts, SameBook
<1> QED  BY <1>1, <1>2, <1>3, <1>4, <1>5, LoadingSteps

LEMMA ExpiredSteps == ASSUME DeskInv, EditsInv, StepsInv, Expired PROVE StepsInv'
<1> SUFFICES ASSUME Sound(ghost')
             PROVE  StepsInv'
  BY DEF StepsInv
<1>1. UNCHANGED <<routeVars, strays>> /\ desk' = Blank /\ drafts' = <<>> /\ call' = Idle
  BY DEF Expired
<1>2. ghost' = [ghost EXCEPT !.excused = @ \cup ghost.made, !.limbo = {}]
  BY DEF Expired
<1>3. Sound(ghost) /\ ghost'.carried = ghost.carried /\ ghost'.limbo = {}
  BY <1>2, WindowFacts DEF GhostTyped, Sound
<1>4. BookOK(Blank, {}, ghost.carried)
  <2>1. /\ Blank.undo = <<>> /\ Blank.redo = <<>> /\ Blank.travel = None /\ Blank.step = None
        /\ Blank.pending = None /\ Blank.base = {} /\ Blank.body = {}
    BY DEF Blank
  <2>2. Undos(Blank) = <<>> /\ Redos(Blank) = <<>>
    BY <2>1, DeskAssumption DEF Undos, Redos
  <2> QED  BY <2>1, <2>2, ChainEmpty DEF BookOK, ChainsOK, StepFits, PendingKept, GrownOK
<1>5. AskOK(Blank, Idle)
  BY DEF AskOK, Blank, Idle
<1>6. \A w \in DOMAIN drafts' : BookOK(drafts'[w], ghost'.limbo, ghost'.carried)
  BY <1>1
<1> QED  BY <1>1, <1>3, <1>4, <1>5, <1>6, StepsFacts, WindowSteps

\* A step that is given back is on its stack again.
LEMMA PutBackBook ==
  ASSUME NEW d, NEW C, DeskTyped(d), ChainsOK(d, C), StepFits(d, C)
  PROVE  /\ ChainsOK(PutBack(d), C) /\ StepFits(PutBack(d), C) /\ DeskTyped(PutBack(d))
         /\ PutBack(d).travel = None /\ PutBack(d).week = d.week /\ PutBack(d).base = d.base
         /\ PutBack(d).step = d.step
<1> DEFINE e == PutBack(d)
           undo == Append(d.undo, d.trip)
           redo == Append(d.redo, d.trip)
<1>1. "undo" # "redo" /\ None # "undo" /\ None # "redo" /\ DeskTyped(e)
  BY DeskAssumption, PutBackIs
<1>2. /\ d.travel = "undo" => e = [d EXCEPT !.undo = undo, !.travel = None, !.trip = None]
      /\ d.travel = "redo" => e = [d EXCEPT !.redo = redo, !.travel = None, !.trip = None]
      /\ d.travel = None => e = d
  BY <1>1 DEF PutBack
<1> HIDE DEF e
<1>3. /\ e.travel = None /\ e.week = d.week /\ e.base = d.base /\ e.step = d.step
      /\ e.undo = Undos(d) /\ e.redo = Redos(d)
  <2> HIDE DEF undo, redo
  <2>1. CASE d.travel = "undo"
    <3>1. Undos(d) = undo /\ Redos(d) = d.redo
      BY <1>1, <2>1 DEF Undos, Redos, undo
    <3> QED  BY <1>2, <2>1, <3>1 DEF DeskTyped
  <2>2. CASE d.travel = "redo"
    <3>1. Undos(d) = d.undo /\ Redos(d) = redo
      BY <1>1, <2>2 DEF Undos, Redos, redo
    <3> QED  BY <1>2, <2>2, <3>1 DEF DeskTyped
  <2>3. CASE d.travel = None
    BY <1>1, <1>2, <2>3 DEF Undos, Redos
  <2> QED  BY <2>1, <2>2, <2>3 DEF DeskTyped
<1>4. Undos(e) = e.undo /\ Redos(e) = e.redo
  BY <1>1, <1>3 DEF Undos, Redos
<1>5. ChainsOK(e, C)
  BY <1>3, <1>4 DEF ChainsOK
<1>6. StepFits(e, C)
  BY <1>3, SameStep
<1> QED  BY <1>1, <1>3, <1>5, <1>6 DEF e

LEMMA TripDroppedKeeps ==
  ASSUME GhostTyped(ghost)
  PROVE  /\ GhostTyped(TripDropped) /\ (Sound(TripDropped) <=> Sound(ghost))
         /\ TripDropped.carried = ghost.carried /\ TripDropped.limbo = ghost.limbo
  BY DEF GhostTyped, TripDropped, Sound

LEMMA SaveRefusedSteps == ASSUME DeskInv, EditsInv, StepsInv, SaveRefused PROVE StepsInv'
<1> SUFFICES ASSUME Sound(ghost')
             PROVE  StepsInv'
  BY DEF StepsInv
<1> DEFINE t == TripDropped
           L == IF desk.travel = None THEN ghost.limbo ELSE ghost.limbo \cup {desk.week}
<1>1. call.kind = "post" /\ UNCHANGED <<routeVars, strays>>
  BY DEF SaveRefused
<1>2. ghost' = [t EXCEPT !.limbo = IF desk.travel = None THEN @ ELSE @ \cup {desk.week}]
  BY DEF SaveRefused
<1>3. GhostTyped(t) /\ (Sound(t) <=> Sound(ghost)) /\ t.carried = ghost.carried
      /\ t.limbo = ghost.limbo
  BY WindowFacts, TripDroppedKeeps
<1> HIDE DEF t
<1>4. Sound(ghost) /\ ghost'.carried = ghost.carried /\ ghost'.limbo = L
  BY <1>2, <1>3 DEF GhostTyped, Sound
<1>5. DeskTyped(desk) /\ BookOK(desk, ghost.limbo, ghost.carried)
  BY <1>4, StepsFacts
<1>6. CASE desk.travel = None
  <2> DEFINE e == [desk EXCEPT !.conflict = TRUE]
  <2>1. desk' = e /\ drafts' = drafts /\ call' = Idle /\ L = ghost.limbo
    BY <1>6 DEF SaveRefused
  <2>2. /\ e.week = desk.week /\ e.base = desk.base /\ e.body = desk.body
        /\ e.undo = desk.undo /\ e.redo = desk.redo /\ e.travel = desk.travel
        /\ e.trip = desk.trip /\ e.step = desk.step /\ e.pending = desk.pending
        /\ e.dirty = desk.dirty
    BY <1>5 DEF DeskTyped
  <2> HIDE DEF e
  <2>3. BookOK(e, ghost.limbo, ghost.carried)
    BY <1>5, <2>2, SameBook
  <2>4. AskOK(e, Idle)
    BY <1>6, <2>2 DEF AskOK, Idle
  <2> QED  BY <1>1, <1>4, <2>1, <2>3, <2>4, StepsFacts, WindowSteps
<1>7. CASE desk.travel # None
  <2> DEFINE b == PutBack(desk)
             e == [b EXCEPT !.pending = None, !.dirty = FALSE, !.conflict = FALSE]
  <2>1. LoadWeek(e, drafts, desk.week, TRUE)
    BY <1>7 DEF SaveRefused
  <2>2. /\ ChainsOK(b, ghost.carried) /\ StepFits(b, ghost.carried) /\ DeskTyped(b)
        /\ b.travel = None /\ b.week = desk.week
    BY <1>5, PutBackBook DEF BookOK
  <2> HIDE DEF b
  <2>3. /\ e.in = b.in /\ e.week = b.week /\ e.body = b.body /\ e.base = b.base /\ e.rev = b.rev
        /\ e.dirty = FALSE /\ e.conflict = FALSE /\ e.pending = None /\ e.undo = b.undo
        /\ e.redo = b.redo /\ e.step = b.step /\ e.travel = b.travel /\ e.trip = b.trip
        /\ DOMAIN e = DOMAIN b
    BY <2>2 DEF DeskTyped
  <2> HIDE DEF e
  <2>4. DeskTyped(e)
    BY <2>2, <2>3 DEF DeskTyped
  <2>5. ChainsOK(e, ghost.carried) /\ StepFits(e, ghost.carried)
    BY <2>2, <2>3, SameChains, SameStep
  <2>6. GrownOK(e, L)
    BY <1>7, <2>2, <2>3, GivenUp
  <2>7. BookOK(e, L, ghost.carried)
    BY <2>3, <2>5, <2>6 DEF BookOK, PendingKept
  <2>8. \A u \in DOMAIN drafts : u \in L <=> u \in ghost.limbo
    BY WindowFacts
  <2>9. e.travel = None
    BY <2>2, <2>3
  <2> HIDE DEF L
  <2> QED  BY <1>1, <1>4, <2>1, <2>4, <2>7, <2>8, <2>9, LoadingSteps
<1> QED  BY <1>6, <1>7

\* No answer: the save is kept, or the Undo is taken off the screen.
LEMMA UnreachedBook ==
  ASSUME NEW d, NEW L, NEW C, DeskTyped(d), BookOK(d, L, C)
  PROVE  BookOK(SaveUnreached(d), L, C) /\ SaveUnreached(d).travel = None
<1>1. CASE d.travel = None
  <2> DEFINE e == [d EXCEPT !.conflict = FALSE]
  <2>1. SaveUnreached(d) = e
    BY <1>1 DEF SaveUnreached
  <2>2. /\ e.week = d.week /\ e.base = d.base /\ e.body = d.body
        /\ e.undo = d.undo /\ e.redo = d.redo /\ e.travel = d.travel
        /\ e.trip = d.trip /\ e.step = d.step /\ e.pending = d.pending /\ e.dirty = d.dirty
    BY DEF DeskTyped
  <2> HIDE DEF e
  <2> QED  BY <1>1, <2>1, <2>2, SameBook
<1>2. CASE d.travel # None
  <2> DEFINE b == PutBack(d)
             base == d.base
             e == [b EXCEPT !.body = base, !.dirty = FALSE, !.pending = None, !.conflict = FALSE]
  <2>1. SaveUnreached(d) = e
    BY <1>2 DEF SaveUnreached
  <2>2. /\ ChainsOK(b, C) /\ StepFits(b, C) /\ DeskTyped(b)
        /\ b.travel = None /\ b.week = d.week /\ b.base = base
    BY PutBackBook DEF BookOK
  <2> HIDE DEF b, base
  <2>3. /\ e.week = b.week /\ e.body = base /\ e.base = b.base /\ e.dirty = FALSE
        /\ e.pending = None /\ e.undo = b.undo /\ e.redo = b.redo /\ e.step = b.step
        /\ e.travel = b.travel /\ e.trip = b.trip
    BY <2>2 DEF DeskTyped
  <2> HIDE DEF e
  <2>4. ChainsOK(e, C) /\ StepFits(e, C)
    BY <2>2, <2>3, SameChains, SameStep
  <2>5. GrownOK(e, L)
    BY <2>2, <2>3 DEF GrownOK
  <2> QED  BY <2>1, <2>2, <2>3, <2>4, <2>5 DEF BookOK, PendingKept
<1> QED  BY <1>1, <1>2

LEMMA UnreachedSteps ==
  ASSUME DeskInv, EditsInv, StepsInv, desk' = SaveUnreached(desk), ghost' = TripDropped,
         call' = Idle, UNCHANGED <<routeVars, drafts>>, strays' = strays \/ strays' = LeftBehind
  PROVE  StepsInv'
<1> SUFFICES ASSUME Sound(ghost')
             PROVE  StepsInv'
  BY DEF StepsInv
<1>1. Sound(ghost) /\ ghost'.carried = ghost.carried /\ ghost'.limbo = ghost.limbo
  BY WindowFacts, TripDroppedKeeps
<1>2. BookOK(desk', ghost.limbo, ghost.carried) /\ desk'.travel = None
  BY <1>1, StepsFacts, UnreachedBook
<1>3. AskOK(desk', call') /\ LeftKept(strays')
  BY <1>1, <1>2, StepsFacts, LeftBehindKept DEF AskOK, Idle
<1> QED  BY <1>1, <1>2, <1>3, StepsFacts, WindowSteps

LEMMA SaveRejectedSteps == ASSUME DeskInv, EditsInv, StepsInv, SaveRejected PROVE StepsInv'
  BY UnreachedSteps DEF SaveRejected

LEMMA CallFailsSteps == ASSUME DeskInv, EditsInv, StepsInv, CallFails PROVE StepsInv'
<1>1. UNCHANGED <<routeVars, drafts>> /\ call' = Idle /\ (strays' = strays \/ strays' = LeftBehind)
  BY DEF CallFails
<1>2. CASE call.kind = "post"
  BY <1>1, <1>2, UnreachedSteps DEF CallFails
<1>3. CASE call.kind # "post"
  <2>1. UNCHANGED <<desk, ghost>>
    BY <1>3 DEF CallFails
  <2>2. CASE Sound(ghost)
    <3>1. desk.travel = None /\ Idle.kind # "post"
      BY <1>3, <2>2, StepsFacts DEF Idle
    <3> QED  BY <1>1, <2>1, <2>2, <3>1, QuietSteps
  <2>3. CASE ~Sound(ghost)
    BY <2>1, <2>3 DEF StepsInv
  <2> QED  BY <2>2, <2>3
<1> QED  BY <1>2, <1>3

\* The steps of the week on screen when a version of it is read.
LEMMA LoadedChain ==
  ASSUME NEW d, NEW v, NEW steps, NEW way, NEW side, NEW H, NEW F, NEW C,
         StepsOK(steps, side, H, F), ChainOK(steps, way, d.week, d.base, C),
         v.week = d.week /\ v.rev = d.rev /\ v.body # d.base => steps = <<>>
  PROVE  ChainOK(IF v.week # d.week THEN <<>>
                 ELSE IF v.rev # d.rev THEN MarkStale(steps, v.week) ELSE steps,
                 way, v.week, v.body, C)
<1>1. CASE v.week # d.week
  BY <1>1, ChainEmpty
<1>2. CASE v.week = d.week /\ v.rev # d.rev
  <2>1. ChainOK(MarkStale(steps, d.week), way, d.week, v.body, C)
    BY ChainMark
  <2> QED  BY <1>2, <2>1
<1>3. CASE v.week = d.week /\ v.rev = d.rev
  <2>1. CASE v.body = d.base
    BY <1>3, <2>1
  <2>2. CASE v.body # d.base
    BY <1>3, <2>2, ChainEmpty
  <2> QED  BY <2>1, <2>2
<1> QED  BY <1>1, <1>2, <1>3

LEMMA LoadOkSteps == ASSUME DeskInv, EditsInv, StepsInv, LoadOk PROVE StepsInv'
<1> SUFFICES ASSUME Sound(ghost')
             PROVE  StepsInv'
  BY DEF StepsInv
<1> DEFINE v == call.data
           other == v.week # desk.week
           ku == IF other THEN <<>> ELSE IF v.rev # desk.rev THEN MarkStale(desk.undo, v.week) ELSE desk.undo
           kr == IF other THEN <<>> ELSE IF v.rev # desk.rev THEN MarkStale(desk.redo, v.week) ELSE desk.redo
           e == [desk EXCEPT !.week = v.week, !.body = v.body, !.base = v.body,
                             !.rev = v.rev, !.era = v.era, !.dirty = FALSE,
                             !.conflict = FALSE, !.pending = None, !.step = None,
                             !.undo = ku, !.redo = kr]
           pk == IF other THEN Parked(desk, drafts) ELSE drafts
           new == Without(pk, v.week)
           L == ghost.limbo \ {v.week}
           C == ghost.carried
<1>1. /\ desk' = e /\ drafts' = new /\ call' = Idle /\ UNCHANGED <<routeVars, strays>>
      /\ ghost' = [ghost EXCEPT !.limbo = @ \ {v.week}, !.torn = @ \/ Mistaken(v)]
  BY DEF LoadOk
<1>2. Sound(ghost) /\ ~Mistaken(v) /\ ghost'.carried = C /\ ghost'.limbo = L
  <2> DEFINE m == Mistaken(v)
  <2>1. ghost' = [ghost EXCEPT !.limbo = @ \ {v.week}, !.torn = @ \/ m]
    BY <1>1
  <2> HIDE DEF m, v
  <2>2. /\ ghost'.torn = (ghost.torn \/ m) /\ ghost'.misfiled = ghost.misfiled
        /\ ghost'.carried = C /\ ghost'.limbo = L
    BY <2>1, WindowFacts DEF GhostTyped
  <2>3. Sound(ghost) /\ ~m
    BY <2>2, Zenon DEF Sound
  <2> QED  BY <2>2, <2>3 DEF m
<1>3. /\ desk.travel = None /\ DeskTyped(desk) /\ DeskOK(desk, history, FALSE)
      /\ BookOK(desk, ghost.limbo, C)
  BY <1>2, StepsFacts DEF LoadOk
<1>4. v.week = desk.week /\ v.rev = desk.rev /\ v.body # desk.base => desk.undo = <<>> /\ desk.redo = <<>>
  BY <1>2 DEF Mistaken
<1>5. Undos(desk) = desk.undo /\ Redos(desk) = desk.redo
  BY <1>3, DeskAssumption DEF Undos, Redos
<1>6. ChainOK(ku, "undo", v.week, v.body, C) /\ ChainOK(kr, "redo", v.week, v.body, C)
  <2>1. StepsOK(desk.undo, "after", history, FALSE) /\ StepsOK(desk.redo, "before", history, FALSE)
    BY <1>3 DEF DeskOK
  <2>2. /\ ChainOK(desk.undo, "undo", desk.week, desk.base, C)
        /\ ChainOK(desk.redo, "redo", desk.week, desk.base, C)
    BY <1>3, <1>5 DEF BookOK, ChainsOK
  <2> HIDE DEF v
  <2> QED  BY <1>4, <2>1, <2>2, LoadedChain
<1> HIDE DEF v, ku, kr
<1>7. /\ e.week = v.week /\ e.body = v.body /\ e.base = v.body /\ e.dirty = FALSE
      /\ e.pending = None /\ e.undo = ku /\ e.redo = kr
      /\ e.step = None /\ e.travel = None
  BY <1>3 DEF DeskTyped
<1> HIDE DEF e
<1>8. BookOK(e, L, C)
  <2>1. Undos(e) = ku /\ Redos(e) = kr
    BY <1>7, DeskAssumption DEF Undos, Redos
  <2>2. ChainsOK(e, C)
    BY <1>6, <1>7, <2>1 DEF ChainsOK
  <2> QED  BY <1>7, <2>2 DEF BookOK, StepFits, PendingKept, GrownOK
<1>9. \A u \in DOMAIN pk : BookOK(pk[u], ghost.limbo, C)
  <2>1. \A u \in DOMAIN drafts : BookOK(drafts[u], ghost.limbo, C)
    BY <1>2, StepsFacts
  <2>2. \A u \in DOMAIN Parked(desk, drafts) : BookOK(Parked(desk, drafts)[u], ghost.limbo, C)
    BY <1>3, <2>1, ParkedBooks
  <2> QED  BY <2>1, <2>2
<1>10. CopiesOK(desk, pk, ghost.limbo, history, ghost.misfiled)
  BY WindowFacts, ParkedOK
<1> HIDE DEF pk
<1>11. /\ \A u \in DOMAIN new : BookOK(new[u], ghost.limbo, C)
       /\ CopiesOK(desk, new, ghost.limbo, history, ghost.misfiled)
       /\ DOMAIN new = DOMAIN pk \ {v.week}
  BY <1>9, <1>10, WithoutBooks, WithoutOK
<1> HIDE DEF new
<1>12. ASSUME NEW u \in DOMAIN new
       PROVE  BookOK(new[u], L, C)
  <2>1. new[u].week = u /\ u # v.week /\ BookOK(new[u], ghost.limbo, C)
    BY <1>11 DEF CopiesOK
  <2>2. new[u].week \in ghost.limbo <=> new[u].week \in L
    BY <2>1
  <2> QED  BY <2>1, <2>2, BookLimbo
<1>13. AskOK(e, Idle)
  BY <1>7 DEF AskOK, Idle
<1> QED  BY <1>1, <1>2, <1>8, <1>12, <1>13, StepsFacts, WindowSteps

-----------------------------------------------------------------------------
(* StepsInv: editing.                                                      *)

\* A new step is a step.
LEMMA NewStepIs ==
  ASSUME NEW S \in SUBSET Week, NEW at, at = [w \in S |-> at[w]],
         \A w \in S : \E b, a \in SUBSET Block : at[w] = Entry(b, a)
  PROVE  /\ Step(at) \in Steps /\ Step(at) # None
         /\ Step(at).at = at /\ Step(at).stale = FALSE
<1> DEFINE E == [before : SUBSET Block, after : SUBSET Block, rev : Nat \cup {None}, era : Nat]
           s == Step(at)
<1>1. s.at = at /\ s.stale = FALSE /\ s = [at |-> s.at, stale |-> s.stale]
  BY DEF Step
<1>2. ASSUME NEW w \in S
      PROVE  at[w] \in E
  <2>1. PICK b \in SUBSET Block, a \in SUBSET Block : at[w] = Entry(b, a)
    OBVIOUS
  <2> QED  BY <2>1 DEF Entry
<1> HIDE DEF E, s
<1>3. at \in [S -> E]
  BY <1>2
<1>4. at \in UNION {[T -> E] : T \in SUBSET Week}
  BY <1>3
<1>5. s \in Steps
  BY <1>1, <1>4 DEF Steps, E
<1> QED  BY <1>1, <1>5, DeskAssumption DEF s

\* The step of an edit.
LEMMA CaptureIs ==
  ASSUME NEW d, DeskTyped(d), d.base \subseteq d.body, Movable \notin d.body \ d.base
  PROVE  /\ Capture(d) = None => d.body = d.base
         /\ Capture(d) # None =>
              /\ Capture(d) \in Steps /\ StepKept(Capture(d)) /\ ~Capture(d).stale
              /\ d.week \in DOMAIN Capture(d).at
              /\ Capture(d).at[d.week].before = d.base
<1> DEFINE e == Entry(d.base, d.body)
           at == [w \in {d.week} |-> e]
           s == Step(at)
<1>1. d.base \in SUBSET Block /\ d.body \in SUBSET Block /\ {d.week} \in SUBSET Week
  BY DEF DeskTyped
<1>2. e.before = d.base /\ e.after = d.body
  BY DEF Entry
<1>3. Stays(d.base, d.body)
  BY DEF Stays
<1>4. \A w \in {d.week} : \E b, a \in SUBSET Block : at[w] = Entry(b, a)
  BY <1>1
<1> HIDE DEF e
<1>5. at = [w \in {d.week} |-> at[w]] /\ DOMAIN at = {d.week} /\ at[d.week] = e
  OBVIOUS
<1> HIDE DEF at
<1>6. s \in Steps /\ s # None /\ s.at = at /\ s.stale = FALSE
  BY <1>1, <1>4, <1>5, NewStepIs
<1>7. StepKept(s)
  BY <1>2, <1>3, <1>5, <1>6 DEF StepKept
<1>8. Capture(d) = IF d.base = d.body THEN None ELSE s
  BY DEF Capture, e, at
<1> HIDE DEF s
<1> QED  BY <1>2, <1>5, <1>6, <1>7, <1>8

\* What save() does to the week on screen, but for Undo and Redo.
LEMMA SavesBook ==
  ASSUME NEW d, NEW L, NEW C, DeskTyped(d), d.travel = None, BookOK(d, L, C),
         d.pending = None => d.base \subseteq d.body /\ Movable \notin d.body \ d.base,
         call = Idle, Saves(d)
  PROVE  BookOK(desk', L, C) /\ AskOK(desk', call')
<1>1. CASE desk' = d /\ call' = call
  BY <1>1 DEF AskOK, Idle
<1>2. CASE desk' = Prepared(d) /\ call' = Post(desk') /\ d.pending # None
  <2>1. desk' = d
    BY <1>2 DEF Prepared
  <2>2. call'.kind = "post" /\ call'.writes = d.pending.writes
    BY <1>2, <2>1 DEF Post
  <2> QED  BY <1>2, <2>1, <2>2 DEF BookOK, PendingKept, AskOK
<1>3. CASE desk' = Prepared(d) /\ call' = Post(desk') /\ d.pending = None
  <2> DEFINE ws == {Open(d, d.body)}
             p == [op |-> nextOp, writes |-> ws, stay |-> FALSE]
             s == Capture(d)
             e == [d EXCEPT !.pending = p, !.step = s]
  <2>1. TripWrites(d) = {}
    BY DEF DeskTyped, TripWrites
  <2>2. ws \cup {} = ws /\ ({} # {}) = FALSE
    OBVIOUS
  <2>3. desk' = e
    BY <1>3, <2>1, <2>2 DEF Prepared
  <2>4. p.writes = ws
    OBVIOUS
  <2>5. \A wr \in ws : wr.base = d.base /\ wr.body = d.body
    BY DEF Open, Write
  <2> HIDE DEF ws, s, p
  <2>6. /\ e.week = d.week /\ e.base = d.base /\ e.body = d.body /\ e.undo = d.undo
        /\ e.redo = d.redo /\ e.travel = d.travel /\ e.trip = d.trip /\ e.dirty = d.dirty
        /\ e.pending = p /\ e.step = s
    BY DEF DeskTyped
  <2> HIDE DEF e
  <2>7. BatchKept(ws)
    <3>1. Stays(d.base, d.body)
      BY <1>3 DEF Stays
    <3> QED  BY <2>5, <3>1 DEF BatchKept
  <2>8. /\ s = None => d.body = d.base
        /\ s # None => /\ s \in Steps /\ StepKept(s) /\ ~s.stale /\ d.week \in DOMAIN s.at
                       /\ s.at[d.week].before = d.base
    BY <1>3, CaptureIs DEF s
  <2>9. SaveFits(e, ws)
    BY <2>5, <2>6, <2>8 DEF SaveFits
  <2>10. StepFits(e, C)
    BY <2>6, <2>8 DEF StepFits, Within
  <2>11. ChainsOK(e, C) /\ GrownOK(e, L)
    BY <2>6, SameChains, SameGrown DEF BookOK
  <2>12. BookOK(e, L, C)
    BY <2>4, <2>6, <2>7, <2>9, <2>10, <2>11 DEF BookOK, PendingKept
  <2>13. call'.kind = "post" /\ call'.writes = ws
    BY <1>3, <2>3, <2>4, <2>6 DEF Post
  <2> QED  BY <2>3, <2>6, <2>7, <2>9, <2>12, <2>13 DEF AskOK
<1> QED  BY <1>1, <1>2, <1>3 DEF Saves

LEMMA MadeCarries ==
  ASSUME GhostTyped(ghost), NEW b, ghost' = Made(b), Sound(ghost')
  PROVE  /\ Sound(ghost) /\ desk.week \notin ghost.limbo
         /\ ghost'.carried = ghost.carried /\ ghost'.limbo = ghost.limbo
<1> DEFINE l == desk.week \in ghost.limbo
           x == Elsewhere(desk)
           r == Replacing
<1>1. ghost' = [ghost EXCEPT !.made = @ \cup {b},
                             !.exposed = IF r THEN @ \cup {b} ELSE @,
                             !.excused = @ \cup x, !.torn = @ \/ l]
  BY DEF Made
<1> HIDE DEF l, x, r
<1>2. /\ ghost'.torn = (ghost.torn \/ l) /\ ghost'.misfiled = ghost.misfiled
      /\ ghost'.carried = ghost.carried /\ ghost'.limbo = ghost.limbo
  BY <1>1 DEF GhostTyped
<1>3. Sound(ghost) /\ ~l
  BY <1>2, Zenon DEF Sound
<1> QED  BY <1>2, <1>3 DEF l

\* The week on screen with one more block.
LEMMA TouchedBook ==
  ASSUME NEW d, NEW L, NEW C, NEW b, b # Movable, DeskTyped(d), BookOK(d, L, C), d.week \notin L
  PROVE  /\ BookOK(Touched(d, d.body \cup {b}), L, C)
         /\ d.travel = None =>
              /\ d.base \subseteq d.body \cup {b}
              /\ Movable \notin (d.body \cup {b}) \ d.base
<1> DEFINE new == d.body \cup {b}
           e == Touched(d, new)
<1>1. d.travel = None => d.base \subseteq new /\ Movable \notin new \ d.base
  BY DEF BookOK, GrownOK
<1> HIDE DEF new
<1>2. /\ e.week = d.week /\ e.base = d.base /\ e.body = new /\ e.undo = d.undo
      /\ e.redo = d.redo /\ e.travel = d.travel /\ e.trip = d.trip
      /\ e.pending = None /\ e.step = d.step
  BY DEF DeskTyped, Touched
<1> HIDE DEF e
<1>3. ChainsOK(e, C) /\ StepFits(e, C)
  BY <1>2, SameChains, SameStep DEF BookOK
<1>4. GrownOK(e, L)
  BY <1>1, <1>2 DEF GrownOK
<1>5. BookOK(e, L, C)
  BY <1>2, <1>3, <1>4 DEF BookOK, PendingKept
<1> QED  BY <1>1, <1>5 DEF e, new

LEMMA EditSteps ==
  ASSUME DeskInv, EditsInv, StepsInv, NEW b \in Typed \cup Dropped, ghost' = Made(b),
         UNCHANGED <<routeVars, drafts, strays>>,
         \/ desk' = Touched(desk, desk.body \cup {b}) /\ call' = call
         \/ call = Idle /\ Saves(Touched(desk, desk.body \cup {b}))
  PROVE  StepsInv'
<1> SUFFICES ASSUME Sound(ghost')
             PROVE  StepsInv'
  BY DEF StepsInv
<1> DEFINE new == desk.body \cup {b}
           d == Touched(desk, new)
           L == ghost.limbo
           C == ghost.carried
<1>1. Sound(ghost) /\ desk.week \notin L /\ ghost'.carried = C /\ ghost'.limbo = L
  BY WindowFacts, MadeCarries
<1>2. b # Movable /\ b \in Block
  BY DeskAssumption
<1>3. DeskTyped(desk) /\ BookOK(desk, L, C) /\ AskOK(desk, call)
  BY <1>1, StepsFacts
<1>4. BookOK(d, L, C)
  BY <1>1, <1>2, <1>3, TouchedBook
<1>5. desk.travel = None => desk.base \subseteq new /\ Movable \notin new \ desk.base
  BY <1>1, <1>2, <1>3, TouchedBook
<1>6. new \in SUBSET Block
  BY <1>2, <1>3 DEF DeskTyped
<1> HIDE DEF new
<1>7. /\ d.week = desk.week /\ d.base = desk.base /\ d.body = new /\ d.step = desk.step
      /\ d.travel = desk.travel
  BY <1>3 DEF DeskTyped, Touched
<1>8. DeskTyped(d)
  BY <1>3, <1>6, TouchedIs
<1>9. (desk' = d /\ call' = call) \/ (call = Idle /\ Saves(d))
  BY DEF new
<1> HIDE DEF d
<1>10. CASE desk' = d /\ call' = call
  <2>1. AskOK(d, call)
    BY <1>3, <1>7, SameSave DEF AskOK
  <2> QED  BY <1>1, <1>4, <1>10, <2>1, StepsFacts, WindowSteps
<1>11. CASE call = Idle /\ Saves(d)
  <2>1. d.travel = None
    BY <1>3, <1>7, <1>11 DEF AskOK, Idle
  <2>2. BookOK(desk', L, C) /\ AskOK(desk', call')
    BY <1>4, <1>5, <1>7, <1>8, <1>11, <2>1, SavesBook
  <2> QED  BY <1>1, <2>2, StepsFacts, WindowSteps
<1> QED  BY <1>9, <1>10, <1>11

LEMMA AddBlockSteps == ASSUME DeskInv, EditsInv, StepsInv, AddBlock PROVE StepsInv'
<1>1. PICK b \in Typed : /\ IF Busy THEN desk' = Touched(desk, desk.body \cup {b}) /\ UNCHANGED <<call, nextOp>>
                            ELSE Saves(Touched(desk, desk.body \cup {b}))
                         /\ ghost' = Made(b)
  BY DEF AddBlock
<1>2. UNCHANGED <<routeVars, drafts, strays>>
  BY DEF AddBlock
<1> QED  BY <1>1, <1>2, EditSteps DEF Busy

\* The student's history changes in ways no step of Undo depends on.
LEMMA SameCarries ==
  ASSUME GhostTyped(ghost), NEW x, NEW y,
         ghost' = [ghost EXCEPT !.made = @ \cup x, !.excused = @ \cup y]
  PROVE  /\ Sound(ghost') <=> Sound(ghost)
         /\ ghost'.carried = ghost.carried /\ ghost'.limbo = ghost.limbo
  BY DEF GhostTyped, Sound

LEMMA UnmovedSteps ==
  ASSUME DeskInv, EditsInv, StepsInv, UNCHANGED <<routeVars, desk, drafts, call, strays>>,
         NEW x, NEW y, ghost' = [ghost EXCEPT !.made = @ \cup x, !.excused = @ \cup y]
  PROVE  StepsInv'
<1> SUFFICES ASSUME Sound(ghost')
             PROVE  StepsInv'
  BY DEF StepsInv
<1>1. Sound(ghost) /\ ghost'.carried = ghost.carried /\ ghost'.limbo = ghost.limbo
  BY WindowFacts, SameCarries
<1> QED  BY <1>1, StepsFacts, WindowSteps

LEMMA PlaceSteps ==
  ASSUME DeskInv, EditsInv, StepsInv, NEW b \in Dropped, Place(b), call = Idle,
         UNCHANGED <<routeVars, drafts, strays>>
  PROVE  StepsInv'
<1>1. CASE Movable \in desk.body
  <2>1. Saves(Touched(desk, desk.body \cup {b})) /\ ghost' = Made(b)
    BY <1>1 DEF Place
  <2> QED  BY <2>1, EditSteps
<1>2. CASE Movable \notin desk.body
  <2>1. /\ ghost' = [ghost EXCEPT !.made = @ \cup {b}, !.excused = @ \cup {b}]
        /\ UNCHANGED <<desk, call>>
    BY <1>2 DEF Place
  <2> QED  BY <2>1, UnmovedSteps
<1> QED  BY <1>1, <1>2

LEMMA PlaceBlockSteps == ASSUME DeskInv, EditsInv, StepsInv, PlaceBlock PROVE StepsInv'
<1>1. PICK b \in Dropped :
         IF Busy
           THEN /\ waiting' = b
                /\ ghost' = [ghost EXCEPT !.made = @ \cup {b}, !.excused = @ \cup ({waiting} \ {None})]
                /\ UNCHANGED <<desk, call, nextOp>>
           ELSE Place(b) /\ UNCHANGED waiting
  BY DEF PlaceBlock
<1>2. UNCHANGED <<routeVars, drafts, strays>>
  BY DEF PlaceBlock
<1>3. CASE Busy
  <2> DEFINE y == {waiting} \ {None}
  <2>1. ghost' = [ghost EXCEPT !.made = @ \cup {b}, !.excused = @ \cup y] /\ UNCHANGED <<desk, call>>
    BY <1>1, <1>3
  <2> HIDE DEF y
  <2> QED  BY <1>2, <2>1, UnmovedSteps
<1>4. CASE ~Busy
  BY <1>1, <1>2, <1>4, PlaceSteps DEF Busy
<1> QED  BY <1>3, <1>4

LEMMA ResumePlaceSteps == ASSUME DeskInv, EditsInv, StepsInv, ResumePlace PROVE StepsInv'
<1>1. Place(waiting) /\ waiting # None /\ call = Idle /\ UNCHANGED <<routeVars, drafts, strays>>
  BY DEF ResumePlace, Busy
<1>2. waiting \in Dropped
  BY <1>1, WindowFacts
<1> QED  BY <1>1, <1>2, PlaceSteps

LEMMA AutosaveSteps == ASSUME DeskInv, EditsInv, StepsInv, Autosave PROVE StepsInv'
<1> SUFFICES ASSUME Sound(ghost')
             PROVE  StepsInv'
  BY DEF StepsInv
<1>1. Saves(desk) /\ Held(desk) /\ call = Idle /\ UNCHANGED <<routeVars, drafts, strays, ghost>>
  BY DEF Autosave, Busy
<1>2. /\ DeskTyped(desk) /\ BookOK(desk, ghost.limbo, ghost.carried) /\ desk.travel = None
  BY <1>1, StepsFacts DEF Idle
<1>3. desk.pending = None => desk.base \subseteq desk.body /\ Movable \notin desk.body \ desk.base
  BY <1>1, <1>2 DEF Held, BookOK, GrownOK
<1>4. BookOK(desk', ghost.limbo, ghost.carried) /\ AskOK(desk', call')
  BY <1>1, <1>2, <1>3, SavesBook
<1> QED  BY <1>1, <1>4, StepsFacts, WindowSteps

-----------------------------------------------------------------------------
(* StepsInv: undo and redo.                                                *)

\* The saves of Undo and Redo: W is the write of each week of step s.
TripMakes(s, way, W) ==
  \A u \in DOMAIN s.at : Stays(W[u].base, s.at[u][Left(way)]) /\ W[u].body = s.at[u][Right(way)]

LEMMA TripKept ==
  ASSUME NEW s, StepKept(s), NEW way \in {"undo", "redo"}, NEW W, TripMakes(s, way, W)
  PROVE  BatchKept({W[u] : u \in DOMAIN s.at})
<1> DEFINE D == DOMAIN s.at
           ws == {W[u] : u \in D}
<1>1. /\ way = "undo" => Left(way) = "after" /\ Right(way) = "before"
      /\ way = "redo" => Left(way) = "before" /\ Right(way) = "after"
  BY DEF Left, Right
<1>2. ASSUME NEW u \in D
      PROVE  /\ Stays(s.at[u].before, s.at[u].after) => Stays(W[u].base, W[u].body)
             /\ Goes(s.at[u].before, s.at[u].after) =>
                  IF way = "redo" THEN Goes(W[u].base, W[u].body) ELSE Goes(W[u].body, W[u].base)
             /\ Goes(s.at[u].after, s.at[u].before) =>
                  IF way = "redo" THEN Goes(W[u].body, W[u].base) ELSE Goes(W[u].base, W[u].body)
  BY <1>1 DEF TripMakes, Stays, Goes
<1>3. CASE \A u \in D : Stays(s.at[u].before, s.at[u].after)
  <2>1. \A wr \in ws : Stays(wr.base, wr.body)
    BY <1>2, <1>3
  <2> QED  BY <2>1 DEF BatchKept
<1>4. CASE \E u, w \in D :
             /\ Goes(s.at[u].before, s.at[u].after) /\ Goes(s.at[w].after, s.at[w].before)
             /\ \A v \in D \ {u, w} : Stays(s.at[v].before, s.at[v].after)
  <2>1. PICK u \in D, w \in D :
             /\ Goes(s.at[u].before, s.at[u].after) /\ Goes(s.at[w].after, s.at[w].before)
             /\ \A v \in D \ {u, w} : Stays(s.at[v].before, s.at[v].after)
    BY <1>4
  <2>2. W[u] \in ws /\ W[w] \in ws
    OBVIOUS
  <2>3. ASSUME NEW wr \in ws, wr # W[u], wr # W[w]
        PROVE  Stays(wr.base, wr.body)
    <3>1. PICK v \in D : wr = W[v]
      OBVIOUS
    <3>2. v \in D \ {u, w}
      BY <2>3, <3>1
    <3> QED  BY <1>2, <2>1, <3>1, <3>2
  <2> HIDE DEF ws
  <2>4. \A wr \in ws \ {W[u], W[w]} : Stays(wr.base, wr.body)
    BY <2>3
  <2>5. CASE way = "redo"
    <3>1. Goes(W[u].base, W[u].body) /\ Goes(W[w].body, W[w].base)
      BY <1>2, <2>1, <2>5
    <3> QED  BY <2>2, <2>4, <3>1 DEF BatchKept, ws
  <2>6. CASE way = "undo"
    <3>1. Goes(W[w].base, W[w].body) /\ Goes(W[u].body, W[u].base)
      BY <1>2, <2>1, <2>6
    <3>2. \A wr \in ws \ {W[w], W[u]} : Stays(wr.base, wr.body)
      BY <2>4
    <3> QED  BY <2>2, <3>1, <3>2 DEF BatchKept, ws
  <2> QED  BY <2>5, <2>6
<1> QED  BY <1>3, <1>4 DEF StepKept

\* A step that may be taken back: what is left of the stacks, and the step itself.
TripFits(undo, redo, way, trip, w, base, C) ==
  /\ ChainOK(IF way = "undo" THEN Append(undo, trip) ELSE undo, "undo", w, base, C)
  /\ ChainOK(IF way = "redo" THEN Append(redo, trip) ELSE redo, "redo", w, base, C)
  /\ Reaches(trip, w) /\ Sure(trip)
  /\ Joined(way, trip.at[w][Left(way)], base, C)

\* What is posted for a step.
LEMMA TripPrepared ==
  ASSUME NEW d, DeskTyped(d), d.travel # None, d.pending = None, d.trip \in Steps, StepKept(d.trip),
         d.week \in DOMAIN d.trip.at, d.body = d.trip.at[d.week][Right(d.travel)],
         Stays(d.base, d.trip.at[d.week][Left(d.travel)])
  PROVE  /\ BatchKept(Prepared(d).pending.writes)
         /\ Prepared(d).week = d.week /\ Prepared(d).base = d.base /\ Prepared(d).undo = d.undo
         /\ Prepared(d).redo = d.redo /\ Prepared(d).travel = d.travel
         /\ Prepared(d).trip = d.trip /\ Prepared(d).step = d.step
<1> DEFINE w == d.week
           s == d.trip
           way == d.travel
           D == DOMAIN s.at
           wrt(u) == IF way = "undo"
                       THEN Write(u, s.at[u].before, s.at[u].rev, s.at[u].era, s.at[u].after)
                       ELSE Write(u, s.at[u].after, s.at[u].rev, s.at[u].era, s.at[u].before)
           W == [u \in D |-> IF u = w THEN Open(d, d.body) ELSE wrt(u)]
           ws == {Open(d, d.body)} \cup TripWrites(d)
           p == [op |-> nextOp, writes |-> ws, stay |-> TripWrites(d) # {}]
           e == [d EXCEPT !.pending = p, !.step = d.step]
<1>1. way \in {"undo", "redo"}
  BY DEF DeskTyped
<1>2. /\ way = "undo" => Left(way) = "after" /\ Right(way) = "before"
      /\ way = "redo" => Left(way) = "before" /\ Right(way) = "after"
  BY DEF Left, Right
<1>3. TripWrites(d) = {wrt(u) : u \in D \ {w}}
  BY DeskAssumption DEF TripWrites
<1>4. Open(d, d.body).base = d.base /\ Open(d, d.body).body = d.body
  BY DEF Open, Write
<1>5. ASSUME NEW u \in D
      PROVE  wrt(u).base = s.at[u][Left(way)] /\ wrt(u).body = s.at[u][Right(way)]
  BY <1>1, <1>2 DEF Write
<1> HIDE DEF wrt
<1>6. ws = {W[u] : u \in D}
  <2>1. W[w] = Open(d, d.body) /\ w \in D
    OBVIOUS
  <2>2. \A u \in D \ {w} : W[u] = wrt(u)
    OBVIOUS
  <2> HIDE DEF W
  <2> QED  BY <1>3, <2>1, <2>2
<1>7. TripMakes(s, way, W)
  <2>1. ASSUME NEW u \in D
        PROVE  Stays(W[u].base, s.at[u][Left(way)]) /\ W[u].body = s.at[u][Right(way)]
    <3>1. CASE u = w
      BY <1>4, <3>1
    <3>2. CASE u # w
      <4>1. W[u] = wrt(u)
        BY <3>2
      <4> QED  BY <1>5, <4>1 DEF Stays
    <3> QED  BY <3>1, <3>2
  <2> HIDE DEF W
  <2> QED  BY <2>1 DEF TripMakes
<1> HIDE DEF W
<1>8. BatchKept(ws)
  BY <1>1, <1>6, <1>7, TripKept
<1>9. Prepared(d) = e
  BY DEF Prepared
<1>10. p.writes = ws
  OBVIOUS
<1> HIDE DEF p, ws
<1>11. /\ e.week = d.week /\ e.base = d.base /\ e.undo = d.undo /\ e.redo = d.redo
       /\ e.travel = d.travel /\ e.trip = d.trip /\ e.step = d.step /\ e.pending = p
  BY DEF DeskTyped
<1> QED  BY <1>8, <1>9, <1>10, <1>11

LEMMA TravelSteps ==
  ASSUME DeskInv, EditsInv, StepsInv, call = Idle, ~desk.conflict,
         UNCHANGED <<routeVars, drafts, strays, ghost>>,
         NEW undo, NEW redo, NEW way \in {"undo", "redo"}, NEW trip,
         Sound(ghost) => TripFits(undo, redo, way, trip, desk.week, desk.base, ghost.carried),
         NEW body \in SUBSET Block, body = trip.at[desk.week][Right(way)],
         Saves(Travelled(desk, body, undo, redo, way, trip))
  PROVE  StepsInv'
<1> SUFFICES ASSUME Sound(ghost')
             PROVE  StepsInv'
  BY DEF StepsInv
<1> DEFINE b == Touched(desk, body)
           d == Travelled(desk, body, undo, redo, way, trip)
           e == Prepared(d)
           w == desk.week
           C == ghost.carried
<1>1. Sound(ghost) /\ TripFits(undo, redo, way, trip, w, desk.base, C)
  OBVIOUS
<1>2. DeskTyped(desk) /\ BookOK(desk, ghost.limbo, C) /\ Movable \notin C
  BY <1>1, StepsFacts
<1>3. DeskTyped(b) /\ b.week = w /\ b.body = body /\ b.base = desk.base /\ b.pending = None
      /\ b.conflict = FALSE /\ b.step = desk.step
  <2>1. DeskTyped(b)
    BY <1>2, TouchedIs
  <2> QED  BY <1>2, <2>1 DEF DeskTyped, Touched
<1> HIDE DEF b
<1>4. d = [b EXCEPT !.undo = undo, !.redo = redo, !.travel = way, !.trip = trip]
  BY DEF b, Travelled
<1>5. Saves(d)
  OBVIOUS
<1> HIDE DEF d
<1>6. /\ DOMAIN d = DOMAIN b /\ d.in = b.in /\ d.week = w /\ d.body = body /\ d.base = desk.base
      /\ d.rev = b.rev /\ d.dirty = b.dirty /\ d.conflict = FALSE /\ d.pending = None
      /\ d.undo = undo /\ d.redo = redo /\ d.step = desk.step /\ d.travel = way /\ d.trip = trip
  BY <1>3, <1>4 DEF DeskTyped
<1>7. DeskTyped(d) /\ d.travel # None
  BY <1>3, <1>6, DeskAssumption DEF DeskTyped
<1>8. ~Unrevised(d)
  BY <1>1, <1>6 DEF Unrevised, TripFits, Sure
<1>9. desk' = e /\ call' = Post(e)
  BY <1>5, <1>6, <1>8 DEF Saves
<1>10. Stays(d.base, trip.at[w][Left(way)])
  <2>1. Stays(trip.at[w][Left(way)], desk.base)
    BY <1>1, <1>2, JoinedFacts DEF TripFits
  <2> QED  BY <1>6, <2>1 DEF Stays
<1>11. /\ BatchKept(e.pending.writes) /\ e.week = w /\ e.base = desk.base /\ e.undo = undo
       /\ e.redo = redo /\ e.travel = way /\ e.trip = trip /\ e.step = desk.step
  <2>1. d.trip \in Steps /\ StepKept(d.trip) /\ d.week \in DOMAIN d.trip.at
    BY <1>1, <1>6 DEF TripFits, Sure, Reaches
  <2>2. d.body = d.trip.at[d.week][Right(d.travel)] /\ Stays(d.base, d.trip.at[d.week][Left(d.travel)])
    BY <1>6, <1>10
  <2> QED  BY <1>6, <1>7, <2>1, <2>2, TripPrepared
<1> HIDE DEF e
<1>12. e.travel # None /\ SaveFits(e, e.pending.writes)
  BY <1>6, <1>7, <1>11 DEF SaveFits
<1>13. ChainsOK(e, C)
  BY <1>1, <1>11 DEF ChainsOK, Undos, Redos, TripFits
<1>14. StepFits(e, C)
  BY <1>2, <1>11, SameStep DEF BookOK
<1>15. BookOK(e, ghost.limbo, C)
  BY <1>11, <1>12, <1>13, <1>14 DEF BookOK, PendingKept, GrownOK
<1>16. Post(e).kind = "post" /\ Post(e).writes = e.pending.writes
  BY DEF Post
<1>17. AskOK(e, Post(e))
  BY <1>11, <1>12, <1>16 DEF AskOK
<1> QED  BY <1>1, <1>9, <1>15, <1>17, StepsFacts, WindowSteps

LEMMA UndoSteps == ASSUME DeskInv, EditsInv, StepsInv, Undo PROVE StepsInv'
<1> DEFINE steps == LiveSteps(desk.undo)
           trip == Last(steps)
           front == Front(steps)
           d == [Touched(desk, trip.at[desk.week].before) EXCEPT
                   !.undo = front, !.travel = "undo", !.trip = trip]
           w == desk.week
           C == ghost.carried
<1>1. Saves(d) /\ steps # <<>> /\ w \in DOMAIN trip.at /\ call = Idle /\ ~desk.conflict
      /\ UNCHANGED <<routeVars, drafts, strays, ghost>>
  BY DEF Undo, CanTravel, Busy
<1>2. StepsOK(desk.undo, "after", history, ghost.misfiled) /\ DeskTyped(desk)
  BY WindowFacts DEF DeskOK
<1>3. StepOK(trip, "after", history, ghost.misfiled)
  BY <1>1, <1>2, LiveStepsOK
<1>4. trip.at[w].before \in SUBSET Block
  BY <1>1, <1>3 DEF StepOK, StepTyped, EntryTyped
<1>5. Sound(ghost) => TripFits(front, desk.redo, "undo", trip, w, desk.base, C)
  <2> SUFFICES ASSUME Sound(ghost)
               PROVE  TripFits(front, desk.redo, "undo", trip, w, desk.base, C)
    OBVIOUS
  <2>1. BookOK(desk, ghost.limbo, C) /\ desk.travel = None
    BY <1>1, StepsFacts DEF Idle
  <2>2. Undos(desk) = desk.undo /\ Redos(desk) = desk.redo
    BY <2>1, DeskAssumption DEF Undos, Redos
  <2>3. ChainOK(desk.undo, "undo", w, desk.base, C) /\ ChainOK(desk.redo, "redo", w, desk.base, C)
    BY <2>1, <2>2 DEF BookOK, ChainsOK
  <2>4. IsSeq(front) /\ ~trip.stale /\ ChainOK(Append(front, trip), "undo", w, desk.base, C)
    BY <1>1, <1>2, <2>3, LiveChain
  <2> HIDE DEF front, trip, steps
  <2>5. Reaches(trip, w)
    BY <1>1, <2>4 DEF Reaches
  <2>6. Joined("undo", trip.at[w][Left("undo")], desk.base, C) /\ Sure(trip)
    BY <2>4, <2>5, ChainPop
  <2> QED  BY <2>3, <2>4, <2>5, <2>6 DEF TripFits
<1> HIDE DEF steps, trip, front
<1>6. d = Travelled(desk, trip.at[w].before, front, desk.redo, "undo", trip)
  BY <1>2 DEF Travelled, Touched, DeskTyped
<1> HIDE DEF d
<1>7. trip.at[w].before = trip.at[w][Right("undo")]
  BY DEF Right
<1> QED  BY <1>1, <1>4, <1>5, <1>6, <1>7, TravelSteps

LEMMA RedoSteps == ASSUME DeskInv, EditsInv, StepsInv, Redo PROVE StepsInv'
<1> DEFINE steps == LiveSteps(desk.redo)
           trip == Last(steps)
           front == Front(steps)
           d == [Touched(desk, trip.at[desk.week].after) EXCEPT
                   !.redo = front, !.travel = "redo", !.trip = trip]
           w == desk.week
           C == ghost.carried
<1>1. Saves(d) /\ steps # <<>> /\ w \in DOMAIN trip.at /\ call = Idle /\ ~desk.conflict
      /\ UNCHANGED <<routeVars, drafts, strays, ghost>>
  BY DEF Redo, CanTravel, Busy
<1>2. StepsOK(desk.redo, "before", history, ghost.misfiled) /\ DeskTyped(desk)
  BY WindowFacts DEF DeskOK
<1>3. StepOK(trip, "before", history, ghost.misfiled)
  BY <1>1, <1>2, LiveStepsOK
<1>4. trip.at[w].after \in SUBSET Block
  BY <1>1, <1>3 DEF StepOK, StepTyped, EntryTyped
<1>5. Sound(ghost) => TripFits(desk.undo, front, "redo", trip, w, desk.base, C)
  <2> SUFFICES ASSUME Sound(ghost)
               PROVE  TripFits(desk.undo, front, "redo", trip, w, desk.base, C)
    OBVIOUS
  <2>1. BookOK(desk, ghost.limbo, C) /\ desk.travel = None
    BY <1>1, StepsFacts DEF Idle
  <2>2. Undos(desk) = desk.undo /\ Redos(desk) = desk.redo
    BY <2>1, DeskAssumption DEF Undos, Redos
  <2>3. ChainOK(desk.undo, "undo", w, desk.base, C) /\ ChainOK(desk.redo, "redo", w, desk.base, C)
    BY <2>1, <2>2 DEF BookOK, ChainsOK
  <2>4. IsSeq(front) /\ ~trip.stale /\ ChainOK(Append(front, trip), "redo", w, desk.base, C)
    BY <1>1, <1>2, <2>3, LiveChain
  <2> HIDE DEF front, trip, steps
  <2>5. Reaches(trip, w)
    BY <1>1, <2>4 DEF Reaches
  <2>6. Joined("redo", trip.at[w][Left("redo")], desk.base, C) /\ Sure(trip)
    BY <2>4, <2>5, ChainPop
  <2> QED  BY <2>3, <2>4, <2>5, <2>6 DEF TripFits
<1> HIDE DEF steps, trip, front
<1>6. d = Travelled(desk, trip.at[w].after, desk.undo, front, "redo", trip)
  BY <1>2 DEF Travelled, Touched, DeskTyped
<1> HIDE DEF d
<1>7. trip.at[w].after = trip.at[w][Right("redo")]
  BY DEF Right
<1> QED  BY <1>1, <1>4, <1>5, <1>6, <1>7, TravelSteps

-----------------------------------------------------------------------------
(* StepsInv: work that concerns two weeks.                                 *)

\* What a move finds in a week that was not given up.
LEMMA BasisGrown ==
  ASSUME DeskInv, EditsInv, StepsInv, Sound(ghost), desk.travel = None,
         NEW w \in Week, w \notin ghost.limbo, NEW got, got \subseteq history,
         Local(w) \/ \E v \in got : v.week = w
  PROVE  /\ DOMAIN Basis(w, got) = {"week", "body", "rev", "era", "base", "twice"}
         /\ Basis(w, got).week = w
         /\ Basis(w, got).body \in SUBSET Block
         /\ Basis(w, got).base \subseteq Basis(w, got).body
         /\ Movable \notin Basis(w, got).body \ Basis(w, got).base
         /\ w = desk.week => Basis(w, got).body = desk.body /\ Basis(w, got).base = desk.base
<1>1. WriteOK(Basis(w, got), history, ghost.misfiled) /\ Basis(w, got).week = w
  BY BasisOK
<1>2. w = desk.week => Basis(w, got).body = desk.body /\ Basis(w, got).base = desk.base
  BY DEF Basis, Open, Write
<1>3. /\ Basis(w, got).base \subseteq Basis(w, got).body
      /\ Movable \notin Basis(w, got).body \ Basis(w, got).base
  <2>1. CASE w = desk.week
    <3>1. GrownOK(desk, ghost.limbo)
      BY StepsFacts DEF BookOK
    <3> QED  BY <1>2, <2>1, <3>1 DEF GrownOK
  <2>2. CASE w # desk.week /\ Local(w)
    <3>1. w \in DOMAIN drafts
      BY <2>2 DEF Local
    <3>2. GrownOK(drafts[w], ghost.limbo) /\ drafts[w].week = w /\ drafts[w].travel = None
      BY <3>1, StepsFacts DEF BookOK
    <3>3. Basis(w, got).body = drafts[w].body /\ Basis(w, got).base = drafts[w].base
      BY <2>2 DEF Basis, Open, Write
    <3> QED  BY <3>2, <3>3 DEF GrownOK
  <2>3. CASE w # desk.week /\ ~Local(w)
    <3>1. Basis(w, got).body = Basis(w, got).base
      BY <2>3 DEF Basis, AsRead, Write
    <3> QED  BY <3>1
  <2> QED  BY <2>1, <2>2, <2>3
<1> QED  BY <1>1, <1>2, <1>3 DEF WriteOK

\* The two writes of a move, and its step.
LEMMA MoveKept ==
  ASSUME NEW x, NEW y, NEW source, NEW dest,
         Movable \in source.body, Movable \notin source.body \ source.base,
         dest.base \subseteq dest.body,
         x.base = source.base, x.body = source.body \ {Movable},
         y.base = dest.base, y.body = dest.body \cup {Movable}, y.twice = (Movable \in dest.body)
  PROVE  BatchKept({x, y})
<1>1. Goes(x.base, x.body)
  BY DEF Goes
<1>2. CASE Movable \in dest.body
  <2>1. y.twice
    BY <1>2
  <2> QED  BY <2>1 DEF BatchKept
<1>3. CASE Movable \notin dest.body
  <2>1. Goes(y.body, y.base)
    BY <1>3 DEF Goes
  <2>2. x \in {x, y} /\ y \in {x, y} /\ {x, y} \ {x, y} = {}
    OBVIOUS
  <2> QED  BY <1>1, <2>1, <2>2 DEF BatchKept
<1> QED  BY <1>2, <1>3

LEMMA MoveStepKept ==
  ASSUME NEW s, NEW from, NEW to, from # to, NEW b, NEW c, DOMAIN s.at = {from, to}, Movable \in b,
         s.at[from].before = b, s.at[from].after = b \ {Movable},
         s.at[to].before = c, s.at[to].after = c \cup {Movable}
  PROVE  StepKept(s) \/ Doubles(s)
<1>1. CASE Movable \in c
  BY <1>1 DEF Doubles
<1>2. CASE Movable \notin c
  <2>1. Goes(s.at[from].before, s.at[from].after) /\ Goes(s.at[to].after, s.at[to].before)
    BY <1>2 DEF Goes
  <2>2. from \in DOMAIN s.at /\ to \in DOMAIN s.at /\ DOMAIN s.at \ {from, to} = {}
    OBVIOUS
  <2> QED  BY <2>1, <2>2 DEF StepKept
<1> QED  BY <1>1, <1>2

LEMMA CommitMoveSteps ==
  ASSUME DeskInv, EditsInv, StepsInv, NEW from \in Week, NEW to \in Week, from # to, NEW op,
         NEW got, got \subseteq history, Unread(from, to, got) = {}, CommitMove(from, to, op, got),
         call.kind # "post", UNCHANGED <<routeVars, drafts, strays>>
  PROVE  StepsInv'
<1> SUFFICES ASSUME Sound(ghost')
             PROVE  StepsInv'
  BY DEF StepsInv
<1> DEFINE source == Basis(from, got)
           dest == Basis(to, got)
           x == [source EXCEPT !.body = @ \ {Movable}]
           y == [dest EXCEPT !.body = @ \cup {Movable}, !.twice = Movable \in dest.body]
           ws == {x, y}
           e1 == Entry(source.body, source.body \ {Movable})
           e2 == Entry(dest.body, dest.body \cup {Movable})
           at == [w \in {from, to} |-> IF w = from THEN e1 ELSE e2]
           s == Step(at)
           p == [op |-> op, writes |-> ws, stay |-> TRUE]
           C == ghost.carried \cup (source.body \ source.base) \cup (dest.body \ dest.base)
           L == ghost.limbo
<1>1. CASE Movable \notin source.body
  <2>1. call' = Idle /\ desk' = desk /\ ghost' = ghost
    BY <1>1 DEF CommitMove
  <2>2. desk.travel = None /\ Idle.kind # "post"
    BY <2>1, StepsFacts DEF Idle
  <2> QED  BY <2>1, <2>2, QuietSteps
<1>2. CASE Movable \in source.body
  <2>1. /\ ghost' = [ghost EXCEPT !.carried = @ \cup (source.body \ source.base)
                                                \cup (dest.body \ dest.base),
                                  !.torn = @ \/ {from, to} \cap ghost.limbo # {}]
        /\ desk' = [desk EXCEPT !.step = s, !.pending = p]
        /\ call' = Post(desk')
    BY <1>2 DEF CommitMove
  <2>2. Sound(ghost) /\ from \notin L /\ to \notin L /\ ghost'.carried = C /\ ghost'.limbo = L
    <3> DEFINE m == {from, to} \cap ghost.limbo # {}
               v == source.body \ source.base
               u == dest.body \ dest.base
    <3>1. ghost' = [ghost EXCEPT !.carried = @ \cup v \cup u, !.torn = @ \/ m]
      BY <2>1
    <3> HIDE DEF m, u, v
    <3>2. /\ ghost'.torn = (ghost.torn \/ m) /\ ghost'.misfiled = ghost.misfiled
          /\ ghost'.carried = ghost.carried \cup v \cup u /\ ghost'.limbo = L
      BY <3>1, WindowFacts DEF GhostTyped
    <3>3. Sound(ghost) /\ ~m
      BY <3>2, Zenon DEF Sound
    <3>4. ghost'.carried = C
      BY <3>2 DEF v, u
    <3> QED  BY <3>2, <3>3, <3>4 DEF m
  <2>3. desk.travel = None /\ DeskTyped(desk) /\ Movable \notin ghost.carried
        /\ BookOK(desk, L, ghost.carried)
        /\ \A w \in DOMAIN drafts : BookOK(drafts[w], L, ghost.carried)
    BY <2>2, StepsFacts
  <2>4. (Local(from) \/ \E v \in got : v.week = from) /\ (Local(to) \/ \E v \in got : v.week = to)
    BY DEF Unread
  <2>5. /\ DOMAIN source = {"week", "body", "rev", "era", "base", "twice"}
        /\ source.week = from /\ source.body \in SUBSET Block
        /\ Movable \notin source.body \ source.base
        /\ from = desk.week => source.body = desk.body /\ source.base = desk.base
    BY <2>2, <2>3, <2>4, BasisGrown
  <2>6. /\ DOMAIN dest = {"week", "body", "rev", "era", "base", "twice"}
        /\ dest.week = to /\ dest.body \in SUBSET Block
        /\ dest.base \subseteq dest.body /\ Movable \notin dest.body \ dest.base
        /\ to = desk.week => dest.body = desk.body /\ dest.base = desk.base
    BY <2>2, <2>3, <2>4, BasisGrown
  <2>7. desk.week \in {from, to} => desk.base \subseteq desk.body
    <3>1. GrownOK(desk, L)
      BY <2>3 DEF BookOK
    <3> QED  BY <2>2, <2>3, <3>1 DEF GrownOK
  <2> HIDE DEF source, dest
  <2>8. x.week = from /\ x.base = source.base /\ x.body = source.body \ {Movable}
    BY <2>5
  <2>9. y.week = to /\ y.base = dest.base /\ y.body = dest.body \cup {Movable}
        /\ y.twice = (Movable \in dest.body)
    BY <2>6
  <2> HIDE DEF x, y
  <2>10. BatchKept(ws)
    BY <1>2, <2>5, <2>6, <2>8, <2>9, MoveKept
  <2>11. \A wr \in ws : wr.week \in {from, to}
    BY <2>8, <2>9
  <2>12. \A w \in {from, to} : \E b, a \in SUBSET Block : at[w] = Entry(b, a)
    BY <2>5, <2>6, RoutesAssumption
  <2>13. /\ e1.before = source.body /\ e1.after = source.body \ {Movable}
         /\ e2.before = dest.body /\ e2.after = dest.body \cup {Movable}
    BY DEF Entry
  <2> HIDE DEF e1, e2
  <2>14. at = [w \in {from, to} |-> at[w]] /\ DOMAIN at = {from, to} /\ at[from] = e1 /\ at[to] = e2
    OBVIOUS
  <2> HIDE DEF at
  <2>15. {from, to} \in SUBSET Week
    OBVIOUS
  <2>16. s \in Steps /\ s # None /\ s.at = at /\ s.stale = FALSE
    BY <2>12, <2>14, <2>15, NewStepIs
  <2>17. StepKept(s) \/ Doubles(s)
    <3>1. s.at = at /\ s.stale = FALSE
      BY <2>16
    <3> HIDE DEF s
    <3> QED  BY <1>2, <2>13, <2>14, <3>1, MoveStepKept
  <2>18. desk.week \in {from, to} => Within(desk.base, s.at[desk.week].before, C)
    BY <2>5, <2>6, <2>7, <2>13, <2>14, <2>16 DEF Within
  <2>19. Movable \notin C /\ ghost.carried \subseteq C
    BY <2>3, <2>5, <2>6
  <2>20. p.writes = ws
    OBVIOUS
  <2> HIDE DEF C, L, s, p, ws
  <2> DEFINE e == [desk EXCEPT !.step = s, !.pending = p]
  <2>21. /\ e.week = desk.week /\ e.base = desk.base /\ e.body = desk.body /\ e.undo = desk.undo
         /\ e.redo = desk.redo /\ e.travel = None /\ e.trip = desk.trip /\ e.dirty = desk.dirty
         /\ e.step = s /\ e.pending = p
    BY <2>3 DEF DeskTyped
  <2>22. desk' = e
    BY <2>1
  <2> HIDE DEF e
  <2>23. BookOK(desk, L, C) /\ \A w \in DOMAIN drafts : BookOK(drafts[w], L, C)
    BY <2>3, <2>19, BookMono
  <2>24. ChainsOK(e, C) /\ GrownOK(e, L)
    BY <2>3, <2>21, <2>23, SameChains, SameGrown DEF BookOK
  <2>25. StepFits(e, C)
    BY <2>14, <2>16, <2>17, <2>18, <2>21 DEF StepFits
  <2>26. SaveFits(e, ws)
    BY <2>11, <2>14, <2>16, <2>21 DEF SaveFits
  <2>27. BookOK(e, L, C)
    BY <2>10, <2>20, <2>21, <2>24, <2>25, <2>26 DEF BookOK, PendingKept
  <2>28. call'.kind = "post" /\ call'.writes = ws
    BY <2>1, <2>20, <2>21, <2>22 DEF Post
  <2>29. AskOK(e, call')
    BY <2>10, <2>21, <2>26, <2>28 DEF AskOK
  <2> QED  BY <2>2, <2>19, <2>22, <2>23, <2>27, <2>29, StepsFacts, WindowSteps
<1> QED  BY <1>1, <1>2

\* A week of a move is read.
LEMMA ReadNextSteps ==
  ASSUME DeskInv, EditsInv, StepsInv, NEW from, NEW to, NEW got, call' = ReadNext(from, to, got),
         call.kind # "post", UNCHANGED <<routeVars, desk, drafts, strays, ghost>>
  PROVE  StepsInv'
<1> SUFFICES ASSUME Sound(ghost')
             PROVE  StepsInv'
  BY DEF StepsInv
<1>1. call'.kind # "post"
  BY DEF ReadNext
<1> QED  BY <1>1, StepsFacts, QuietSteps

LEMMA MoveToDateSteps == ASSUME DeskInv, EditsInv, StepsInv, MoveToDate PROVE StepsInv'
<1>1. PICK from \in Week, to \in Week :
        /\ from # to
        /\ LET op == IF keys.move[from] = None THEN nextOp ELSE keys.move[from]
           IN IF Unread(from, to, {}) = {} THEN CommitMove(from, to, op, {})
              ELSE /\ call' = ReadNext(from, to, {})
                   /\ UNCHANGED <<desk, ghost>>
  BY DEF MoveToDate
<1>2. UNCHANGED <<routeVars, drafts, strays>> /\ {} \subseteq history /\ call.kind # "post"
  BY DEF MoveToDate, Busy, Idle
<1>3. CASE Unread(from, to, {}) = {}
  <2> DEFINE op == IF keys.move[from] = None THEN nextOp ELSE keys.move[from]
  <2>1. CommitMove(from, to, op, {})
    BY <1>1, <1>3
  <2> HIDE DEF op
  <2> QED  BY <1>1, <1>2, <1>3, <2>1, CommitMoveSteps
<1>4. CASE Unread(from, to, {}) # {}
  <2>1. call' = ReadNext(from, to, {}) /\ UNCHANGED <<desk, ghost>>
    BY <1>1, <1>4
  <2> QED  BY <1>2, <2>1, ReadNextSteps
<1> QED  BY <1>3, <1>4

LEMMA MoveFetchedSteps == ASSUME DeskInv, EditsInv, StepsInv, MoveFetched PROVE StepsInv'
<1> DEFINE got == call.got \cup {call.data}
<1>1. IsMove(call, history) /\ call.data # None /\ call.kind # "post"
  BY WindowFacts, CallKinds DEF MoveFetched
<1>2. got \subseteq history /\ call.from \in Week /\ call.to \in Week /\ call.from # call.to
  BY <1>1 DEF IsMove
<1>3. UNCHANGED <<routeVars, drafts, strays>>
  BY DEF MoveFetched
<1>4. CASE Unread(call.from, call.to, got) = {}
  <2> DEFINE op == keys.move[call.from]
  <2>1. CommitMove(call.from, call.to, op, got)
    BY <1>4 DEF MoveFetched
  <2> HIDE DEF op, got
  <2> QED  BY <1>1, <1>2, <1>3, <1>4, <2>1, CommitMoveSteps
<1>5. CASE Unread(call.from, call.to, got) # {}
  <2>1. call' = ReadNext(call.from, call.to, got) /\ UNCHANGED <<desk, ghost>>
    BY <1>5 DEF MoveFetched
  <2> HIDE DEF got
  <2> QED  BY <1>1, <1>3, <2>1, ReadNextSteps
<1> QED  BY <1>4, <1>5

\* Blocks are added to another week: the week on screen stays as it is.
LEMMA AddFetchedSteps == ASSUME DeskInv, EditsInv, StepsInv, AddFetched PROVE StepsInv'
<1> SUFFICES ASSUME Sound(ghost')
             PROVE  StepsInv'
  BY DEF StepsInv
<1> DEFINE v == call.data
           wr == [AsRead(v) EXCEPT !.body = @ \cup {call.block}]
           p == [op |-> nextOp, writes |-> {wr}, stay |-> FALSE]
           e == [desk EXCEPT !.pending = p]
<1>1. /\ desk' = e /\ call' = Post(desk') /\ call.kind = "fetch" /\ call.use = "add"
      /\ ghost' = [ghost EXCEPT !.made = @ \cup {call.block},
                                !.excused = @ \cup Elsewhere(desk)]
      /\ UNCHANGED <<routeVars, drafts, strays>> /\ call.data # None
  BY DEF AddFetched
<1>2. Sound(ghost) /\ ghost'.carried = ghost.carried /\ ghost'.limbo = ghost.limbo
  <2> DEFINE y == Elsewhere(desk)
             b == {call.block}
  <2>1. ghost' = [ghost EXCEPT !.made = @ \cup b, !.excused = @ \cup y]
    BY <1>1
  <2> HIDE DEF y, b
  <2> QED  BY <2>1, WindowFacts, SameCarries
<1>3. desk.travel = None /\ DeskTyped(desk) /\ BookOK(desk, ghost.limbo, ghost.carried)
  BY <1>1, <1>2, StepsFacts
<1>4. call.week # desk.week /\ call.block \in Pasted
  BY <1>1, EditsFacts DEF Covered, CallFits
<1>5. call.block # Movable
  BY <1>4, DeskAssumption
<1>6. v.week = call.week
  BY <1>1, WindowFacts, CallKinds DEF IsAdd
<1>7. wr.week # desk.week /\ Stays(wr.base, wr.body)
  <2>1. wr.week = v.week /\ wr.base = v.body /\ wr.body = v.body \cup {call.block}
    BY DEF AsRead, Write
  <2> HIDE DEF wr, v
  <2> QED  BY <1>4, <1>5, <1>6, <2>1 DEF Stays
<1> HIDE DEF wr
<1>8. BatchKept({wr})
  BY <1>7 DEF BatchKept
<1>9. p.writes = {wr}
  OBVIOUS
<1> HIDE DEF p
<1>10. /\ e.week = desk.week /\ e.base = desk.base /\ e.body = desk.body /\ e.undo = desk.undo
       /\ e.redo = desk.redo /\ e.travel = desk.travel /\ e.trip = desk.trip /\ e.dirty = desk.dirty
       /\ e.step = desk.step /\ e.pending = p
  BY <1>3 DEF DeskTyped
<1> HIDE DEF e
<1>11. SaveFits(e, {wr})
  BY <1>7, <1>10 DEF SaveFits
<1>12. ChainsOK(e, ghost.carried) /\ StepFits(e, ghost.carried) /\ GrownOK(e, ghost.limbo)
  BY <1>3, <1>10, SameChains, SameStep, SameGrown DEF BookOK
<1>13. BookOK(e, ghost.limbo, ghost.carried)
  BY <1>8, <1>9, <1>10, <1>11, <1>12 DEF BookOK, PendingKept
<1>14. call'.kind = "post" /\ call'.writes = {wr}
  BY <1>1, <1>9, <1>10 DEF Post
<1>15. AskOK(e, call')
  BY <1>3, <1>8, <1>10, <1>11, <1>14 DEF AskOK
<1> QED  BY <1>1, <1>2, <1>13, <1>15, StepsFacts, WindowSteps

-----------------------------------------------------------------------------
(* StepsInv: the answer to a save.                                         *)

\* An accepted save is stored as it was written.
LEMMA AnsweredAs ==
  ASSUME NEW a, NEW ws, NEW H, NEW F, HistoryTyped(H), AnswerOK(a, ws, H), a.status = 200,
         BatchOK(ws, H, F)
  PROVE  /\ \A wr \in ws : wr.week \in Answered(a) /\ StoredAs(a, wr.week).body = wr.body
         /\ \A u \in Answered(a) :
              /\ StoredAs(a, u).rev \in Nat /\ StoredAs(a, u).era \in Nat /\ StoredAs(a, u).rev # None
              /\ StoredAs(a, u).body \in SUBSET Block
              /\ \E wr \in ws : wr.week = u /\ wr.body = StoredAs(a, u).body
<1>1. ASSUME NEW u \in Answered(a)
      PROVE  /\ StoredAs(a, u).rev \in Nat /\ StoredAs(a, u).era \in Nat /\ StoredAs(a, u).rev # None
             /\ StoredAs(a, u).body \in SUBSET Block
             /\ \E wr \in ws : wr.week = u /\ wr.body = StoredAs(a, u).body
  <2>1. StoredAs(a, u) \in a.stored /\ StoredAs(a, u).week = u /\ StoredAs(a, u).rev \in Nat
    BY StoredAsOK
  <2>2. \E wr \in ws : wr.week = StoredAs(a, u).week /\ wr.body = StoredAs(a, u).body
    BY <2>1 DEF AnswerOK
  <2>3. StoredAs(a, u).era \in Nat /\ StoredAs(a, u).body \in SUBSET Block
    BY StoredAsOK DEF HistoryTyped
  <2> QED  BY <2>1, <2>2, <2>3, DeskAssumption
<1>2. ASSUME NEW wr \in ws
      PROVE  wr.week \in Answered(a) /\ StoredAs(a, wr.week).body = wr.body
  <2>1. wr.week \in Answered(a)
    BY DEF AnswerOK, Answered
  <2>2. PICK x \in ws : x.week = wr.week /\ x.body = StoredAs(a, wr.week).body
    BY <1>1, <2>1
  <2>3. x = wr
    BY <2>2 DEF BatchOK
  <2> QED  BY <2>1, <2>2, <2>3
<1> QED  BY <1>1, <1>2

LEMMA AlikeKept ==
  ASSUME NEW s, NEW t, Alike(s, t), StepKept(s)
  PROVE  StepKept(t)
<1>1. DOMAIN t.at = DOMAIN s.at
  BY DEF Alike
<1>2. \A w \in DOMAIN s.at : t.at[w].before = s.at[w].before /\ t.at[w].after = s.at[w].after
  BY DEF Alike
<1>3. CASE \A w \in DOMAIN s.at : Stays(s.at[w].before, s.at[w].after)
  BY <1>1, <1>2, <1>3 DEF StepKept
<1>4. CASE \E u, w \in DOMAIN s.at :
             /\ Goes(s.at[u].before, s.at[u].after) /\ Goes(s.at[w].after, s.at[w].before)
             /\ \A v \in DOMAIN s.at \ {u, w} : Stays(s.at[v].before, s.at[v].after)
  <2>1. PICK u, w \in DOMAIN s.at :
             /\ Goes(s.at[u].before, s.at[u].after) /\ Goes(s.at[w].after, s.at[w].before)
             /\ \A v \in DOMAIN s.at \ {u, w} : Stays(s.at[v].before, s.at[v].after)
    BY <1>4
  <2>2. /\ Goes(t.at[u].before, t.at[u].after) /\ Goes(t.at[w].after, t.at[w].before)
        /\ \A v \in DOMAIN t.at \ {u, w} : Stays(t.at[v].before, t.at[v].after)
    BY <1>1, <1>2, <2>1
  <2> QED  BY <1>1, <2>2 DEF StepKept
<1> QED  BY <1>3, <1>4 DEF StepKept

Back(way) == IF way = "undo" THEN "redo" ELSE "undo"

\* A step that was undone is one that can be redone, and the other way round.
LEMMA TripFiled ==
  ASSUME NEW own, NEW other, NEW way \in {"undo", "redo"}, NEW w, NEW top, NEW C, NEW s, NEW t,
         IsSeq(own), IsSeq(other), Reaches(s, w), Alike(s, t), t \in Steps,
         \A u \in DOMAIN t.at : t.at[u].rev # None,
         ChainOK(Append(own, s), way, w, top, C), ChainOK(other, Back(way), w, top, C)
  PROVE  /\ ChainOK(own, way, w, s.at[w][Right(way)], C)
         /\ ChainOK(Append(other, t), Back(way), w, s.at[w][Right(way)], C)
<1>1. /\ ChainOK(own, way, w, s.at[w][Right(way)], C)
      /\ Joined(way, s.at[w][Left(way)], top, C) /\ Sure(s)
  BY ChainPop
<1>2. Reaches(t, w) /\ w \in DOMAIN s.at
  BY DEF Reaches, Alike
<1>3. Sure(t)
  BY <1>1, AlikeKept DEF Sure
<1>4. /\ t.at[w][Left(Back(way))] = s.at[w][Right(way)]
      /\ t.at[w][Right(Back(way))] = s.at[w][Left(way)]
  <2>1. t.at[w].before = s.at[w].before /\ t.at[w].after = s.at[w].after
    BY <1>2 DEF Alike
  <2>2. CASE way = "undo"
    BY <2>1, <2>2 DEF Left, Right, Back
  <2>3. CASE way = "redo"
    BY <2>1, <2>3 DEF Left, Right, Back
  <2> QED  BY <2>2, <2>3
<1>5. Joined(Back(way), top, t.at[w][Right(Back(way))], C)
  <2> DEFINE x == s.at[w][Left(way)]
  <2>1. Joined(way, x, top, C)
    BY <1>1
  <2> HIDE DEF x
  <2>2. Joined(Back(way), top, x, C)
    <3>1. CASE way = "undo"
      BY <2>1, <3>1 DEF Joined, Back
    <3>2. CASE way = "redo"
      BY <2>1, <3>2 DEF Joined, Back
    <3> QED  BY <3>1, <3>2
  <2> QED  BY <1>4, <2>2 DEF x
<1>6. ChainOK(Append(other, t), Back(way), w, t.at[w][Left(Back(way))], C)
  BY <1>2, <1>3, <1>5, ChainPush
<1> QED  BY <1>1, <1>4, <1>6

\* What the answer leaves of the steps.
LEMMA SettledSteps ==
  ASSUME NEW d, DeskTyped(d), NEW a
  PROVE  /\ Settled(Filed(d, a)).travel = None /\ Settled(Filed(d, a)).step = None
         /\ Settled(Filed(d, a)).pending = None /\ Settled(Filed(d, a)).base = d.base
         /\ d.travel = "undo" =>
              /\ Settled(Filed(d, a)).undo = d.undo
              /\ Settled(Filed(d, a)).redo = Append(d.redo, KeepRevisions(d.trip, a))
         /\ d.travel = "redo" =>
              /\ Settled(Filed(d, a)).redo = d.redo
              /\ Settled(Filed(d, a)).undo = Append(d.undo, KeepRevisions(d.trip, a))
         /\ d.travel = None /\ d.step # None =>
              /\ Settled(Filed(d, a)).undo = Append(d.undo, KeepRevisions(KeepAfter(d.step, a), a))
              /\ Settled(Filed(d, a)).redo = <<>>
         /\ d.travel = None /\ d.step = None =>
              Settled(Filed(d, a)).undo = d.undo /\ Settled(Filed(d, a)).redo = d.redo
<1> DEFINE trip == KeepRevisions(d.trip, a)
           step == KeepRevisions(KeepAfter(d.step, a), a)
           f == Filed(d, a)
           undo == Append(d.undo, trip)
           redo == Append(d.redo, trip)
           undone == Append(d.undo, step)
           none == <<>>
<1>0. None # "undo" /\ None # "redo"
  BY DeskAssumption
<1>1. /\ d.travel = "undo" => f = [d EXCEPT !.redo = redo]
      /\ d.travel = "redo" => f = [d EXCEPT !.undo = undo]
      /\ d.travel = None /\ d.step # None => f = [d EXCEPT !.undo = undone, !.redo = none]
      /\ d.travel = None /\ d.step = None => f = d
  BY <1>0 DEF Filed
<1> HIDE DEF f, undo, redo, undone, none
<1>2. /\ DOMAIN f = DOMAIN d /\ f.base = d.base
      /\ d.travel = "undo" => f.undo = d.undo /\ f.redo = redo
      /\ d.travel = "redo" => f.redo = d.redo /\ f.undo = undo
      /\ d.travel = None /\ d.step # None => f.undo = undone /\ f.redo = none
      /\ d.travel = None /\ d.step = None => f.undo = d.undo /\ f.redo = d.redo
  <2>1. CASE d.travel = "undo"
    BY <1>0, <1>1, <2>1 DEF DeskTyped
  <2>2. CASE d.travel = "redo"
    BY <1>0, <1>1, <2>2 DEF DeskTyped
  <2>3. CASE d.travel = None /\ d.step # None
    BY <1>0, <1>1, <2>3 DEF DeskTyped
  <2>4. CASE d.travel = None /\ d.step = None
    BY <1>0, <1>1, <2>4 DEF DeskTyped
  <2> QED  BY <2>1, <2>2, <2>3, <2>4 DEF DeskTyped
<1> DEFINE e == Settled(f)
<1>3. /\ e.travel = None /\ e.step = None /\ e.pending = None /\ e.base = f.base
      /\ e.undo = f.undo /\ e.redo = f.redo
  BY <1>2 DEF Settled, DeskTyped
<1> HIDE DEF e
<1>4. /\ e.travel = None /\ e.step = None /\ e.pending = None /\ e.base = d.base
      /\ d.travel = "undo" => e.undo = d.undo /\ e.redo = redo
      /\ d.travel = "redo" => e.redo = d.redo /\ e.undo = undo
      /\ d.travel = None /\ d.step # None => e.undo = undone /\ e.redo = none
      /\ d.travel = None /\ d.step = None => e.undo = d.undo /\ e.redo = d.redo
  BY <1>2, <1>3
<1> QED  BY <1>4 DEF e, f, undo, redo, undone, none

LEMMA ShownBase ==
  ASSUME NEW d, DeskTyped(d), NEW a
  PROVE  d.week \in Answered(a) => Shown(d, a).base = StoredAs(a, d.week).body
<1> DEFINE v == StoredAs(a, d.week)
<1>1. d.week \in Answered(a) =>
        Shown(d, a) = [d EXCEPT !.body = v.body, !.base = v.body, !.rev = v.rev, !.era = v.era,
                                !.dirty = FALSE, !.conflict = FALSE]
  BY DEF Shown
<1> HIDE DEF v
<1>2. d.week \in Answered(a) => Shown(d, a).base = v.body
  BY <1>1 DEF DeskTyped
<1> QED  BY <1>2 DEF v

\* The save that is answered is that of the step it is filed under.
OwnSave(d, ws) ==
  /\ d.travel # None => Makes(d.trip, Right(d.travel), ws)
  /\ d.travel = None /\ d.step # None => Makes(d.step, "after", ws) /\ ~Doubles(d.step)

\* What the store now has of the week is what the window had, or what it saved.
LEMMA AnsweredBase ==
  ASSUME NEW d, DeskTyped(d), NEW a, NEW ws, NEW H, NEW F, HistoryTyped(H), AnswerOK(a, ws, H),
         a.status = 200, BatchOK(ws, H, F), DeskOK(d, H, F)
  PROVE  /\ d.week \notin Answered(a) => Shown(d, a).base = d.base
         /\ SaveFits(d, ws) /\ d.travel = None /\ (d.step = None \/ d.week \notin DOMAIN d.step.at)
              => Shown(d, a).base = d.base
         /\ \A s, side : Makes(s, side, ws) /\ d.week \in DOMAIN s.at
              => d.week \in Answered(a) /\ Shown(d, a).base = s.at[d.week][side]
<1>1. d.week \notin Answered(a) => Shown(d, a).base = d.base
  BY ShownOK
<1>2. d.week \in Answered(a) =>
        /\ Shown(d, a).base = StoredAs(a, d.week).body
        /\ \E wr \in ws : wr.week = d.week /\ wr.body = StoredAs(a, d.week).body
  BY ShownBase, AnsweredAs
<1>3. ASSUME SaveFits(d, ws), d.travel = None, d.step = None \/ d.week \notin DOMAIN d.step.at
      PROVE  Shown(d, a).base = d.base
  BY <1>1, <1>2, <1>3 DEF SaveFits
<1>4. ASSUME NEW s, NEW side, Makes(s, side, ws), d.week \in DOMAIN s.at
      PROVE  d.week \in Answered(a) /\ Shown(d, a).base = s.at[d.week][side]
  <2>1. PICK wr \in ws : wr.week = d.week /\ wr.body = s.at[d.week][side]
    BY <1>4 DEF Makes
  <2>2. d.week \in Answered(a) /\ StoredAs(a, d.week).body = s.at[d.week][side]
    BY <2>1, AnsweredAs
  <2> QED  BY <1>2, <2>2
<1> QED  BY <1>1, <1>3, <1>4

LEMMA FiledTrip ==
  ASSUME NEW d, NEW a, NEW ws, NEW H, NEW F, HistoryTyped(H), AnswerOK(a, ws, H), a.status = 200,
         BatchOK(ws, H, F), DeskOK(d, H, F), NEW C, ChainsOK(d, C), d.travel # None, OwnSave(d, ws)
  PROVE  /\ d.week \in Answered(a)
         /\ ChainsOK(Settled(Filed(Shown(d, a), a)), C)
<1> DEFINE sh == Shown(d, a)
           e == Settled(Filed(sh, a))
           s == d.trip
           t == KeepRevisions(s, a)
           w == d.week
           mid == s.at[w][Right(d.travel)]
<1>0. None # "undo" /\ None # "redo"
  BY DeskAssumption
<1>1. /\ DeskTyped(d) /\ d.travel \in {"undo", "redo"} /\ StepTyped(s) /\ IsSeq(d.undo) /\ IsSeq(d.redo)
  BY DEF DeskOK, DeskTyped, StepOK, StepsOK
<1>2. Reaches(s, w) /\ Makes(s, Right(d.travel), ws) /\ w \in DOMAIN s.at
  BY DEF ChainsOK, OwnSave, Reaches
<1>3. w \in Answered(a) /\ sh.base = mid
  BY <1>1, <1>2, AnsweredBase
<1>4. /\ DeskTyped(sh) /\ sh.week = w /\ sh.trip = s /\ sh.travel = d.travel
      /\ sh.undo = d.undo /\ sh.redo = d.redo
  <2>1. /\ DeskOK(sh, H, F) /\ sh.week = d.week
        /\ sh.step = d.step /\ sh.trip = d.trip /\ sh.travel = d.travel
        /\ sh.undo = d.undo /\ sh.redo = d.redo
    BY ShownOK
  <2> QED  BY <2>1 DEF DeskOK
<1>5. e.week = w
  BY <1>4, SettledIs
<1>6. /\ e.travel = None /\ e.base = mid
      /\ d.travel = "undo" => e.undo = d.undo /\ e.redo = Append(d.redo, t)
      /\ d.travel = "redo" => e.redo = d.redo /\ e.undo = Append(d.undo, t)
  BY <1>3, <1>4, SettledSteps
<1>7. Alike(s, t) /\ \A u \in DOMAIN t.at : t.at[u].rev # None
  <2>1. /\ Alike(s, t)
        /\ \A u \in DOMAIN s.at : u \in Answered(a) => t.at[u].rev = StoredAs(a, u).rev
    BY <1>1, KeepRevisionsAlike
  <2>2. ASSUME NEW u \in DOMAIN s.at
        PROVE  t.at[u].rev # None
    <3>1. u \in Answered(a)
      BY <1>2, AnsweredAs DEF Makes
    <3>2. StoredAs(a, u).rev # None
      BY <3>1, AnsweredAs
    <3> QED  BY <2>1, <3>1, <3>2
  <2> QED  BY <2>1, <2>2 DEF Alike
<1>8. t \in Steps
  <2>1. s \in Steps
    <3>1. \/ Undos(d) = Append(d.undo, s) /\ ChainOK(Append(d.undo, s), "undo", w, d.base, C)
          \/ Redos(d) = Append(d.redo, s) /\ ChainOK(Append(d.redo, s), "redo", w, d.base, C)
      BY <1>1 DEF ChainsOK, Undos, Redos
    <3>2. Sure(s)
      BY <1>1, <1>2, <3>1, ChainPop
    <3> QED  BY <3>2 DEF Sure
  <2> QED  BY <2>1, AnsweredAs, KeepRevisionsStep
<1> HIDE DEF e, t, mid, sh
<1>9. Undos(e) = e.undo /\ Redos(e) = e.redo
  BY <1>0, <1>6 DEF Undos, Redos
<1>10. CASE d.travel = "undo"
  <2>1. /\ ChainOK(Append(d.undo, s), "undo", w, d.base, C)
        /\ ChainOK(d.redo, "redo", w, d.base, C)
    BY <1>10 DEF ChainsOK, Undos, Redos
  <2>2. ChainOK(d.redo, Back("undo"), w, d.base, C)
    BY <2>1 DEF Back
  <2>3. /\ ChainOK(d.undo, "undo", w, s.at[w][Right("undo")], C)
        /\ ChainOK(Append(d.redo, t), Back("undo"), w, s.at[w][Right("undo")], C)
    BY <1>1, <1>2, <1>7, <1>8, <2>1, <2>2, TripFiled
  <2>4. Back("undo") = "redo" /\ mid = s.at[w][Right("undo")]
    BY <1>10 DEF Back, mid
  <2>5. ChainOK(e.undo, "undo", w, mid, C) /\ ChainOK(e.redo, "redo", w, mid, C)
    BY <1>6, <1>10, <2>3, <2>4
  <2> QED  BY <1>3, <1>5, <1>6, <1>9, <2>5 DEF ChainsOK, e, sh
<1>11. CASE d.travel = "redo"
  <2>1. /\ ChainOK(Append(d.redo, s), "redo", w, d.base, C)
        /\ ChainOK(d.undo, "undo", w, d.base, C)
    BY <1>11 DEF ChainsOK, Undos, Redos
  <2>2. ChainOK(d.undo, Back("redo"), w, d.base, C)
    BY <2>1 DEF Back
  <2>3. /\ ChainOK(d.redo, "redo", w, s.at[w][Right("redo")], C)
        /\ ChainOK(Append(d.undo, t), Back("redo"), w, s.at[w][Right("redo")], C)
    BY <1>1, <1>2, <1>7, <1>8, <2>1, <2>2, TripFiled
  <2>4. Back("redo") = "undo" /\ mid = s.at[w][Right("redo")]
    BY <1>11 DEF Back, mid
  <2>5. ChainOK(e.undo, "undo", w, mid, C) /\ ChainOK(e.redo, "redo", w, mid, C)
    BY <1>6, <1>11, <2>3, <2>4
  <2> QED  BY <1>3, <1>5, <1>6, <1>9, <2>5 DEF ChainsOK, e, sh
<1> QED  BY <1>1, <1>10, <1>11

LEMMA FiledStep ==
  ASSUME NEW d, NEW a, NEW ws, NEW H, NEW F, HistoryTyped(H), AnswerOK(a, ws, H), a.status = 200,
         BatchOK(ws, H, F), DeskOK(d, H, F), NEW C, ChainsOK(d, C), StepFits(d, C), SaveFits(d, ws),
         d.travel = None, OwnSave(d, ws)
  PROVE  ChainsOK(Settled(Filed(Shown(d, a), a)), C)
<1> DEFINE sh == Shown(d, a)
           e == Settled(Filed(sh, a))
           s == d.step
           t == KeepRevisions(KeepAfter(s, a), a)
           w == d.week
<1>0. None # "undo" /\ None # "redo"
  BY DeskAssumption
<1>1. DeskTyped(d) /\ IsSeq(d.undo) /\ (s # None => StepTyped(s))
  BY DEF DeskOK, StepsOK, NewStep
<1>2. /\ ChainOK(d.undo, "undo", w, d.base, C) /\ ChainOK(d.redo, "redo", w, d.base, C)
  BY <1>0 DEF ChainsOK, Undos, Redos
<1>3. /\ DeskTyped(sh) /\ sh.week = w /\ sh.step = s /\ sh.travel = None
      /\ sh.undo = d.undo /\ sh.redo = d.redo
  <2>1. /\ DeskOK(sh, H, F) /\ sh.week = d.week
        /\ sh.step = d.step /\ sh.trip = d.trip /\ sh.travel = d.travel
        /\ sh.undo = d.undo /\ sh.redo = d.redo
    BY ShownOK
  <2> QED  BY <2>1 DEF DeskOK
<1>4. e.week = w
  BY <1>3, SettledIs
<1>5. /\ e.travel = None /\ e.base = sh.base
      /\ s # None => e.undo = Append(d.undo, t) /\ e.redo = <<>>
      /\ s = None => e.undo = d.undo /\ e.redo = d.redo
  BY <1>3, SettledSteps
<1>6. /\ SaveFits(d, ws) /\ d.travel = None /\ (d.step = None \/ d.week \notin DOMAIN d.step.at)
           => Shown(d, a).base = d.base
      /\ \A x, side : Makes(x, side, ws) /\ d.week \in DOMAIN x.at
           => d.week \in Answered(a) /\ Shown(d, a).base = x.at[d.week][side]
  BY <1>1, AnsweredBase
<1>7. s = None \/ w \notin DOMAIN s.at => sh.base = d.base
  BY <1>6
<1>8. s # None /\ w \in DOMAIN s.at => sh.base = s.at[w].after
  BY <1>6 DEF OwnSave
<1>9. ASSUME s # None
      PROVE  Alike(s, t) /\ \A u \in DOMAIN t.at : t.at[u].rev # None
  <2>1. \A u \in DOMAIN s.at : \E wr \in ws : wr.week = u /\ wr.body = s.at[u].after
    BY <1>9 DEF OwnSave, Makes
  <2>2. ASSUME NEW u \in DOMAIN s.at
        PROVE  /\ u \in Answered(a) /\ StoredAs(a, u).body = s.at[u].after
               /\ StoredAs(a, u).rev # None
    <3>1. u \in Answered(a) /\ StoredAs(a, u).body = s.at[u].after
      BY <2>1, AnsweredAs
    <3> QED  BY <3>1, AnsweredAs
  <2>3. /\ Alike(s, t)
        /\ \A u \in DOMAIN s.at : u \in Answered(a) => t.at[u].rev = StoredAs(a, u).rev
    BY <1>1, <1>9, <2>2, NewStepAlike
  <2> QED  BY <2>2, <2>3 DEF Alike
<1> HIDE DEF e, t, sh
<1>10. Undos(e) = e.undo /\ Redos(e) = e.redo
  BY <1>0, <1>5 DEF Undos, Redos
<1>11. ChainOK(e.undo, "undo", w, sh.base, C) /\ ChainOK(e.redo, "redo", w, sh.base, C)
  <2>1. CASE s = None
    BY <1>2, <1>5, <1>7, <2>1
  <2>2. CASE s # None
    <3>1. /\ s \in Steps /\ StepKept(s) /\ ~s.stale
          /\ w \in DOMAIN s.at => Within(d.base, s.at[w].before, C)
      BY <2>2 DEF StepFits, OwnSave
    <3>2. Alike(s, t) /\ Sure(t)
      <4>1. t \in Steps
        BY <3>1, AnsweredAs, KeepAfterStep, KeepRevisionsStep DEF t
      <4> QED  BY <1>9, <2>2, <3>1, <4>1, AlikeKept DEF Sure
    <3>3. ChainOK(<<>>, "redo", w, sh.base, C)
      BY ChainEmpty
    <3>4. CASE w \in DOMAIN s.at
      <4>1. Reaches(t, w) /\ t.at[w].before = s.at[w].before /\ t.at[w].after = s.at[w].after
        BY <3>1, <3>2, <3>4 DEF Alike, Reaches
      <4>2. t.at[w][Right("undo")] = s.at[w].before /\ t.at[w][Left("undo")] = s.at[w].after
        BY <4>1 DEF Right, Left
      <4>3. Joined("undo", d.base, t.at[w][Right("undo")], C)
        BY <3>1, <3>4, <4>2 DEF Joined
      <4>4. ChainOK(Append(d.undo, t), "undo", w, t.at[w][Left("undo")], C)
        BY <1>1, <1>2, <3>2, <4>1, <4>3, ChainPush
      <4> QED  BY <1>5, <1>8, <2>2, <3>3, <3>4, <4>2, <4>4
    <3>5. CASE w \notin DOMAIN s.at
      <4>1. ~Reaches(t, w)
        BY <3>2, <3>5 DEF Alike, Reaches
      <4>2. ChainOK(Append(d.undo, t), "undo", w, d.base, C)
        BY <1>1, <1>2, <3>2, <4>1, ChainPast
      <4> QED  BY <1>5, <1>7, <2>2, <3>3, <3>5, <4>2
    <3> QED  BY <3>4, <3>5
  <2> QED  BY <2>1, <2>2
<1> QED  BY <1>4, <1>5, <1>10, <1>11 DEF ChainsOK, e, sh

LEMMA FiledBook ==
  ASSUME NEW d, NEW a, NEW ws, NEW H, NEW F, HistoryTyped(H), AnswerOK(a, ws, H), a.status = 200,
         BatchOK(ws, H, F), DeskOK(d, H, F), NEW C, NEW L, BookOK(d, L, C), SaveFits(d, ws),
         OwnSave(d, ws)
  PROVE  BookOK(Settled(Filed(Shown(d, a), a)),
                IF d.week \in Answered(a) THEN L \ {d.week} ELSE L, C)
<1> DEFINE sh == Shown(d, a)
           e == Settled(Filed(sh, a))
           K == IF d.week \in Answered(a) THEN L \ {d.week} ELSE L
<1>1. ChainsOK(e, C) /\ (d.travel # None => d.week \in Answered(a))
  BY FiledTrip, FiledStep DEF BookOK
<1>2. /\ DeskTyped(sh) /\ sh.week = d.week /\ DeskTyped(d)
      /\ d.week \in Answered(a) => sh.body = sh.base
      /\ d.week \notin Answered(a) => sh = d
  <2>1. /\ DeskOK(sh, H, F) /\ sh.week = d.week
        /\ d.week \in Answered(a) => sh.body = sh.base
        /\ d.week \notin Answered(a) => sh = d
    BY ShownOK
  <2> QED  BY <2>1 DEF DeskOK
<1>3. /\ e.week = d.week /\ e.body = sh.body /\ e.dirty = sh.dirty
      /\ e.base = sh.base /\ e.step = None /\ e.pending = None /\ e.travel = None
  BY <1>2, SettledIs, SettledSteps
<1> HIDE DEF e, sh
<1>4. GrownOK(e, K)
  <2>1. CASE d.week \in Answered(a)
    BY <1>2, <1>3, <2>1 DEF GrownOK
  <2>2. CASE d.week \notin Answered(a)
    <3>1. d.travel = None /\ sh = d /\ GrownOK(d, L)
      BY <1>1, <1>2, <2>2 DEF BookOK
    <3> QED  BY <1>3, <2>2, <3>1 DEF GrownOK
  <2> QED  BY <2>1, <2>2
<1> HIDE DEF K
<1>5. BookOK(e, K, C)
  BY <1>1, <1>3, <1>4 DEF BookOK, StepFits, PendingKept
<1> QED  BY <1>5 DEF e, sh, K

LEMMA FiledRight ==
  ASSUME DeskTyped(desk), NEW ws, ~Misfiled(ws)
  PROVE  OwnSave(desk, ws)
<1>0. None # "undo" /\ None # "redo"
  BY DeskAssumption
<1>1. ASSUME desk.travel = "undo"
      PROVE  Makes(desk.trip, Right(desk.travel), ws)
  <2>1. \A w \in DOMAIN desk.trip.at : \E wr \in ws : wr.week = w /\ wr.body = desk.trip.at[w].before
    BY <1>0, <1>1 DEF Misfiled
  <2> QED  BY <1>1, <2>1 DEF Makes, Right
<1>2. ASSUME desk.travel = "redo"
      PROVE  Makes(desk.trip, Right(desk.travel), ws)
  <2>1. \A w \in DOMAIN desk.trip.at : \E wr \in ws : wr.week = w /\ wr.body = desk.trip.at[w].after
    BY <1>0, <1>2 DEF Misfiled
  <2> QED  BY <1>2, <2>1 DEF Makes, Right
<1>3. ASSUME desk.travel = None, desk.step # None
      PROVE  Makes(desk.step, "after", ws) /\ ~Doubles(desk.step)
  <2>1. /\ \A w \in DOMAIN desk.step.at : \E wr \in ws : wr.week = w /\ wr.body = desk.step.at[w].after
        /\ ~Doubles(desk.step)
    BY <1>0, <1>3 DEF Misfiled
  <2> QED  BY <2>1 DEF Makes
<1> QED  BY <1>1, <1>2, <1>3 DEF OwnSave, DeskTyped

LEMMA SaveOkGhost ==
  ASSUME DeskInv, SaveOk, Sound(ghost')
  PROVE  /\ Sound(ghost) /\ ~Misfiled(call.writes) /\ ghost'.carried = ghost.carried
         /\ ghost'.limbo = IF desk.week \in Answered(call.answer) THEN ghost.limbo \ {desk.week}
                                                                  ELSE ghost.limbo
<1> DEFINE gone == ({wr.week : wr \in call.writes} \ {desk.week}) \cap DOMAIN drafts
           x == UNION {drafts[w].body \cup Elsewhere(drafts[w]) : w \in gone}
           m == Misfiled(call.writes)
           ans == Answered(call.answer)
<1>1. ghost' = [ghost EXCEPT !.excused = @ \cup x,
                   !.limbo = IF desk.week \in ans THEN @ \ {desk.week} ELSE @,
                   !.misfiled = @ \/ m]
  BY DEF SaveOk
<1> HIDE DEF x, m, ans
<1>2. /\ ghost'.misfiled = (ghost.misfiled \/ m) /\ ghost'.torn = ghost.torn
      /\ ghost'.carried = ghost.carried
      /\ ghost'.limbo = (IF desk.week \in ans THEN ghost.limbo \ {desk.week} ELSE ghost.limbo)
  BY <1>1, WindowFacts DEF GhostTyped
<1>3. Sound(ghost) /\ ~m
  BY <1>2, Zenon DEF Sound
<1> QED  BY <1>2, <1>3 DEF m, ans

LEMMA SaveOkSteps == ASSUME DeskInv, EditsInv, StepsInv, SaveOk PROVE StepsInv'
<1> SUFFICES ASSUME Sound(ghost')
             PROVE  StepsInv'
  BY DEF StepsInv
<1> DEFINE a == call.answer
           ws == call.writes
           d == Settled(Filed(Shown(desk, a), a))
           written == {wr.week : wr \in ws}
           kept == Restrict(drafts, DOMAIN drafts \ (written \ {desk.week}))
           L == IF desk.week \in Answered(a) THEN ghost.limbo \ {desk.week} ELSE ghost.limbo
           C == ghost.carried
<1>1. call.kind = "post" /\ a # None /\ a.status = 200 /\ IsPost(call, history, ghost.misfiled)
  BY WindowFacts, CallKinds DEF SaveOk
<1>2. AnswerOK(a, ws, history) /\ BatchOK(ws, history, ghost.misfiled)
  BY <1>1 DEF IsPost
<1>3. /\ IF call.to # None THEN LoadWeek(d, kept, call.to, FALSE)
         ELSE desk' = d /\ drafts' = kept /\ call' = Idle
      /\ UNCHANGED <<routeVars, strays>>
  BY DEF SaveOk
<1>4. Sound(ghost) /\ ~Misfiled(ws) /\ ghost'.carried = C /\ ghost'.limbo = L
  BY SaveOkGhost
<1>5. /\ BookOK(desk, ghost.limbo, C) /\ SaveFits(desk, ws) /\ DeskTyped(desk)
      /\ desk.week \notin DOMAIN drafts /\ HistoryTyped(history)
      /\ DeskOK(desk, history, ghost.misfiled)
  BY <1>1, <1>4, StepsFacts, WindowFacts DEF AskOK
<1>6. OwnSave(desk, ws)
  BY <1>4, <1>5, FiledRight
<1>7. BookOK(d, L, C)
  <2> HIDE DEF a, ws, C
  <2> QED  BY <1>1, <1>2, <1>5, <1>6, FiledBook
<1>8. DeskTyped(d) /\ d.travel = None /\ d.step = None
  <2>1. DeskTyped(Shown(desk, a))
    <3>1. DeskOK(Shown(desk, a), history, ghost.misfiled)
      <4> HIDE DEF a, ws
      <4> QED  BY <1>2, <1>5, ShownOK
    <3> QED  BY <3>1 DEF DeskOK
  <2> HIDE DEF a
  <2> QED  BY <2>1, SettledIs, SettledSteps
<1> HIDE DEF d
<1>9. ASSUME NEW u \in DOMAIN kept
      PROVE  u \in DOMAIN drafts /\ kept[u] = drafts[u]
  BY DEF Restrict
<1>10. \A u \in DOMAIN drafts : u \in L <=> u \in ghost.limbo
  BY <1>5
<1> HIDE DEF L, kept
<1>11. CASE call.to # None
  <2>1. LoadWeek(d, kept, call.to, FALSE) /\ FALSE \in BOOLEAN
    BY <1>3, <1>11
  <2> QED  BY <1>3, <1>4, <1>7, <1>8, <1>9, <1>10, <2>1, LoadingSteps
<1>12. CASE call.to = None
  <2>1. desk' = d /\ drafts' = kept /\ call' = Idle
    BY <1>3, <1>12
  <2>2. ASSUME NEW u \in DOMAIN kept
        PROVE  BookOK(kept[u], L, C)
    <3>1. u \in DOMAIN drafts /\ kept[u] = drafts[u] /\ drafts[u].week = u
          /\ BookOK(drafts[u], ghost.limbo, C)
      BY <1>4, <1>9, StepsFacts
    <3>2. drafts[u].week \in ghost.limbo <=> drafts[u].week \in L
      BY <1>10, <3>1
    <3> QED  BY <3>1, <3>2, BookLimbo
  <2>3. AskOK(desk', call')
    BY <1>8, <2>1 DEF AskOK, Idle
  <2> QED  BY <1>3, <1>4, <1>7, <2>1, <2>2, <2>3, StepsFacts, WindowSteps
<1> QED  BY <1>11, <1>12

-----------------------------------------------------------------------------
(* StepsInv: every step of the system, and what follows.                   *)

LEMMA SameSteps == ASSUME StepsInv, UNCHANGED vars PROVE StepsInv'
<1>1. /\ weeks' = weeks /\ desk' = desk /\ drafts' = drafts /\ call' = call /\ strays' = strays
      /\ ghost' = ghost
  BY DEF vars, deskVars, routeVars
<1>2. OneWeek(weeks) => OneWeek(weeks')
  BY <1>1
<1>3. Books(desk, drafts, ghost.limbo, ghost.carried)
        => Books(desk', drafts', ghost'.limbo, ghost'.carried)
  BY <1>1
<1>4. (AskOK(desk, call) => AskOK(desk', call')) /\ (LeftKept(strays) => LeftKept(strays'))
  BY <1>1
<1>5. Sound(ghost') => Sound(ghost)
  BY <1>1
<1> QED  BY <1>1, <1>2, <1>3, <1>4, <1>5 DEF StepsInv

LEMMA StepKeepsStepsInv == ASSUME DeskInv, EditsInv, StepsInv, [Next]_vars PROVE StepsInv'
<1>1. CASE Window
  BY <1>1, LoadOkSteps, SwitchWeekSteps, ReloadSteps, AcceptRemoteWeekSteps, AddBlockSteps,
     PlaceBlockSteps, ResumePlaceSteps, AutosaveSteps, UndoSteps, RedoSteps, MoveToDateSteps,
     MoveFetchedSteps, AddToWeekSteps, AddFetchedSteps, SaveOkSteps, SaveRefusedSteps,
     SaveRejectedSteps, RestorePointSteps, RestoreOkSteps, SignInSteps DEF Window
<1>2. CASE UNCHANGED vars
  BY <1>2, SameSteps
<1> QED  BY <1>1, <1>2, ServerAnswersSteps, StrayRunsSteps, CallFailsSteps, ExpiredSteps, OthersSteps DEF Next

LEMMA InitStepsInv == ASSUME Init PROVE StepsInv
<1> DEFINE e == [Blank EXCEPT !.in = TRUE]
<1>1. /\ desk = e /\ drafts = <<>> /\ call = Load(FirstWeek) /\ strays = {} /\ ghost = Fresh
      /\ weeks = Point
  BY DEF Init, RoutesInit
<1>2. /\ e.undo = <<>> /\ e.redo = <<>> /\ e.travel = None /\ e.step = None
      /\ e.pending = None /\ e.base = {} /\ e.body = {} /\ e.dirty = FALSE
  <2> DEFINE b == Blank
             none == <<>>
  <2>1. /\ b.undo = none /\ b.redo = none /\ b.travel = None /\ b.step = None
        /\ b.pending = None /\ b.base = {} /\ b.body = {} /\ b.dirty = FALSE
        /\ "in" \in DOMAIN b
    BY DEF Blank
  <2> HIDE DEF b, none
  <2>2. /\ e.undo = none /\ e.redo = none /\ e.travel = None /\ e.step = None
        /\ e.pending = None /\ e.base = {} /\ e.body = {} /\ e.dirty = FALSE
    BY <2>1 DEF b
  <2> QED  BY <2>2 DEF none
<1> HIDE DEF e
<1>3. BookOK(e, {}, {})
  <2>1. Undos(e) = <<>> /\ Redos(e) = <<>>
    BY <1>2, DeskAssumption DEF Undos, Redos
  <2> QED  BY <1>2, <2>1, ChainEmpty DEF BookOK, ChainsOK, StepFits, PendingKept, GrownOK
<1>4. DOMAIN drafts = {}
  BY <1>1, EmptyIs, SeqFacts
<1>5. OneWeek(weeks)
  <2>1. ASSUME NEW u \in Week
        PROVE  Movable \in Point[u].body <=> u = FirstWeek
    BY DEF Point, Nothing
  <2> QED  BY <1>1, <2>1, RoutesAssumption DEF OneWeek
<1>6. Fresh.carried = {} /\ Fresh.limbo = {}
  BY DEF Fresh
<1>7. AskOK(e, Load(FirstWeek)) /\ LeftKept({})
  BY <1>2 DEF AskOK, LeftKept, Load
<1>8. Books(desk, drafts, ghost.limbo, ghost.carried)
  BY <1>1, <1>3, <1>4, <1>6 DEF Books
<1>9. Movable \notin ghost.carried /\ AskOK(desk, call) /\ LeftKept(strays)
  BY <1>1, <1>6, <1>7
<1> QED  BY <1>5, <1>8, <1>9 DEF StepsInv

LEMMA StepsInvariant == Spec => []StepsInv
<1>1. Init => StepsInv
  BY InitStepsInv
<1>2. DeskInv /\ EditsInv /\ StepsInv /\ [Next]_vars => StepsInv'
  BY StepKeepsStepsInv
<1> QED  BY <1>1, <1>2, DeskInvariant, EditsInvariant, PTL DEF Spec

\* A block moved to another week is in exactly one week of the store: the move,
\* its retry, its undo and its redo write both weeks or neither, whatever else is
\* saved, refused, lost or carried out late.
THEOREM MovedBlockIsInOneWeek == Spec => []MovedBlockInOneWeek
<1>1. StepsInv => MovedBlockInOneWeek
  <2> SUFFICES ASSUME StepsInv, Sound(ghost)
               PROVE  \E w \in Week : {u \in Week : Movable \in weeks[u].body} = {w}
    BY DEF MovedBlockInOneWeek, Sound
  <2>1. PICK w \in Week : \A u \in Week : Movable \in weeks[u].body <=> u = w
    BY DEF StepsInv, OneWeek
  <2>2. {u \in Week : Movable \in weeks[u].body} = {w}
    BY <2>1
  <2> QED  BY <2>2
<1> QED  BY <1>1, StepsInvariant, PTL

\* Undo takes back what its step did and nothing else: what the step left of the
\* week is what the store has of it now, but for what a move carried along.
THEOREM UndoTakesItsStepBack == Spec => []UndoTakesBackItsStep
<1>1. DeskInv /\ EditsInv /\ StepsInv => UndoTakesBackItsStep
  <2>0. SUFFICES ASSUME DeskInv, EditsInv, StepsInv PROVE UndoTakesBackItsStep
    OBVIOUS
  <2> DEFINE steps == LiveSteps(desk.undo)
             s == Last(steps)
             w == desk.week
             C == ghost.carried
  <2>1. SUFFICES ASSUME CanTravel(desk.undo), w \notin ghost.limbo, Sound(ghost)
                 PROVE  /\ desk.body \ s.at[w].before
                             \subseteq (s.at[w].after \ s.at[w].before) \cup C
                        /\ s.at[w].before \ desk.body \subseteq s.at[w].before \ s.at[w].after
    BY DEF UndoTakesBackItsStep, Sound
  <2>2. /\ call = Idle /\ desk.dirty = FALSE /\ steps # <<>> /\ w \in DOMAIN s.at
        /\ DeskTyped(desk)
    BY <2>0, <2>1, WindowFacts DEF CanTravel, Busy, Held, DeskTyped
  <2>3. desk.travel = None /\ DeskOK(desk, history, FALSE) /\ ChainsOK(desk, C)
    BY <2>0, <2>1, <2>2, StepsFacts DEF Idle, BookOK
  <2>4. desk.body = desk.base
    BY <2>0, <2>1, <2>2, WindowFacts DEF ShowsBase
  <2>5. ChainOK(desk.undo, "undo", w, desk.base, C) /\ StepsOK(desk.undo, "after", history, FALSE)
    BY <2>3, DeskAssumption DEF ChainsOK, Undos, DeskOK
  <2>6. /\ IsSeq(Front(steps)) /\ ~s.stale
        /\ ChainOK(Append(Front(steps), s), "undo", w, desk.base, C)
    BY <2>2, <2>5, LiveChain
  <2>7. Reaches(s, w)
    BY <2>2, <2>6 DEF Reaches
  <2> HIDE DEF s, steps
  <2>8. Joined("undo", s.at[w][Left("undo")], desk.base, C)
    BY <2>6, <2>7, ChainPop
  <2>9. Within(s.at[w].after, desk.base, C)
    BY <2>8 DEF Joined, Left
  <2> QED  BY <2>4, <2>9 DEF Within
<1> QED  BY <1>1, DeskInvariant, EditsInvariant, StepsInvariant, PTL
=============================================================================
