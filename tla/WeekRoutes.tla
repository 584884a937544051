----------------------------- MODULE WeekRoutes -----------------------------
(***************************************************************************)
(* The routes of the FlexWeek server that write an account's weeks, each  *)
(* one transaction: POST /api/changes, the restore of a restore point,    *)
(* and what another window or a linked phone saves meanwhile.             *)
(*                                                                         *)
(* A week's body is the set of its blocks.  A version [era, week, rev,    *)
(* body] is a body as it was stored at a revision; `era' and `history'    *)
(* are history variables (see RevisionedWeeks).                           *)
(***************************************************************************)
EXTENDS Integers, Sequences, SequencesExt

CONSTANTS
  Week,       \* the weeks of the account
  Block,      \* the blocks a week may hold
  FirstWeek,  \* the week shown at sign-in
  Movable,    \* the block the account starts with, in FirstWeek
  Theirs,     \* the blocks another window or a phone may add
  KeepOps,    \* how many operations the store remembers (MAX_OPERATIONS)
  MaxEra,     \* bound: how often a snapshot is put back
  None

ASSUME RoutesAssumption ==
  /\ FirstWeek \in Week
  /\ Movable \in Block /\ None \notin Block
  /\ Theirs \subseteq Block
  /\ KeepOps \in Nat \ {0}
  /\ MaxEra \in Nat

VARIABLES weeks, era, history,
          log       \* the remembered operations, oldest first

routeVars == <<weeks, era, history, log>>

Versions(ws, e) ==
  {[era |-> e, week |-> w, rev |-> ws[w].rev, body |-> ws[w].body] : w \in Week}

VersionOf(w) == [era |-> era, week |-> w, rev |-> weeks[w].rev, body |-> weeks[w].body]

\* A week nobody saved is empty, at revision 0.
Nothing == [body |-> {}, rev |-> 0]

\* The account as it stood when its one restore point was made.
Point ==
  [w \in Week |-> IF w = FirstWeek THEN [body |-> {Movable}, rev |-> 1] ELSE Nothing]

RoutesInit ==
  /\ weeks = Point
  /\ era = 0
  /\ history = Versions(weeks, 0) \cup Versions([w \in Week |-> Nothing], 0)
  /\ log = <<>>

-----------------------------------------------------------------------------
\* Fault: the revision is not compared.
FitsAlways(wr) == TRUE

\* The revision check of one week.  A body equal to the stored one is accepted
\* whatever the revision.
Fits(wr) ==
  \/ wr.body = weeks[wr.week].body
  \/ wr.rev = weeks[wr.week].rev

\* Fault: a save keeps the revision it names.
StoredUnrevised(wr) == [body |-> wr.body, rev |-> wr.rev]

StoredBy(wr) ==
  IF wr.body = weeks[wr.week].body THEN weeks[wr.week]
  ELSE [body |-> wr.body, rev |-> wr.rev + 1]

\* The weeks after a batch: all of its writes, for a batch writes a week once.
After(writes) ==
  [w \in Week |-> IF \E wr \in writes : wr.week = w
                    THEN StoredBy(CHOOSE wr \in writes : wr.week = w)
                    ELSE weeks[w]]

\* What the operation's digest is taken over: the fields of the request.
Payload(writes) ==
  [writes |-> {[week |-> wr.week, body |-> wr.body, rev |-> wr.rev] : wr \in writes}]
Confirmed(token) == [token |-> token]

Remember(op, ask, answer) ==
  LET longer == Append(log, [op |-> op, ask |-> ask, answer |-> answer])
  IN IF Len(longer) > KeepOps THEN Tail(longer) ELSE longer

Known(op) == {r \in ToSet(log) : r.op = op}

Refused == [status |-> 409, stored |-> {}]

\* A list that repeats a block id is refused before anything is read.
Repeats == [status |-> 422, stored |-> {}]

\* One run of a route: `kind' says which writes it makes, if any.
Run(kind, answer) == [kind |-> kind, answer |-> answer]

\* POST /api/changes: a known operation is answered from memory; otherwise
\* every write fits and all are stored, or nothing is.
Changes(op, writes) ==
  LET stored == {v \in Versions(After(writes), era) : \E wr \in writes : wr.week = v.week}
  IN IF Known(op) # {}
       THEN LET r == CHOOSE r \in Known(op) : TRUE
            IN Run("none", IF r.ask = Payload(writes) THEN r.answer ELSE Refused)
       ELSE IF \E wr \in writes : wr.twice THEN Run("none", Repeats)
       ELSE IF \A wr \in writes : Fits(wr)
              THEN Run("write", [status |-> 200, stored |-> stored])
              ELSE Run("none", Refused)

PostChanges(op, writes) ==
  IF Changes(op, writes).kind = "write"
    THEN /\ weeks' = After(writes)
         /\ history' = history \cup Versions(weeks', era)
         /\ log' = Remember(op, Payload(writes), Changes(op, writes).answer)
         /\ UNCHANGED era
    ELSE UNCHANGED routeVars

\* POST /api/restore-points/{id}/restore: refused when the account changed
\* since the preview whose token it names.
Restoring(op, token) ==
  IF Known(op) # {}
    THEN LET r == CHOOSE r \in Known(op) : TRUE
         IN Run("none", IF r.ask = Confirmed(token) THEN r.answer ELSE Refused)
    ELSE IF token = weeks THEN Run("write", [status |-> 200, stored |-> {}])
         ELSE Run("none", Refused)

ReplaceAccount ==
  /\ weeks' = Point
  /\ era' = era + 1
  /\ history' = history \cup Versions(weeks', era')

PostRestore(op, token) ==
  IF Restoring(op, token).kind = "write"
    THEN /\ ReplaceAccount
         /\ log' = Remember(op, Confirmed(token), [status |-> 200, stored |-> {}])
    ELSE UNCHANGED routeVars

-----------------------------------------------------------------------------
EverStored == UNION {v.body : v \in history}

\* Another window, or a phone's batch, adds a block to the week as it stands.
OtherSaves ==
  \E w \in Week, x \in Theirs \ EverStored :
    /\ weeks' = [weeks EXCEPT ![w] = [body |-> @.body \cup {x}, rev |-> @.rev + 1]]
    /\ history' = history \cup Versions(weeks', era)
    /\ log' = Remember(None, Payload({}), Refused)
    /\ UNCHANGED era

\* Another window puts the restore point back.
OtherRestores ==
  /\ era < MaxEra
  /\ weeks # Point
  /\ ReplaceAccount
  /\ log' = Remember(None, Payload({}), Refused)

RoutesTypeOK ==
  /\ weeks \in [Week -> [body : SUBSET Block, rev : Nat]]
  /\ era \in Nat
  /\ Len(log) <= KeepOps
=============================================================================
