--------------------------- MODULE RevisionedWeeks ---------------------------
(***************************************************************************)
(* What the account's weeks promise to every program that saves them.     *)
(*                                                                         *)
(* A week is a register of a body and a revision.  A save names, for each *)
(* week it writes, the version it was made from; it is accepted only when *)
(* every one of those revisions is the stored one, and then replaces all  *)
(* of them at once, each one revision further.  Putting a restore point   *)
(* back (or importing a file) replaces every week, revisions included, by *)
(* what a snapshot holds: it begins a new era, in which a revision may    *)
(* come round again with another body.                                    *)
(*                                                                         *)
(* `era' and `history' are history variables: no code keeps them.         *)
(***************************************************************************)
EXTENDS Integers

CONSTANTS Week, Body, Empty

VARIABLES weeks,    \* the stored body and revision of every week
          era,      \* how many times a snapshot replaced the weeks
          history   \* every version that was ever stored

registerVars == <<weeks, era, history>>

Versions(ws, e) ==
  {[era |-> e, week |-> w, rev |-> ws[w].rev, body |-> ws[w].body] : w \in Week}

Stored == [body : Body \cup {Empty}, rev : Nat]

\* A week nobody saved is empty, at revision 0.
Nothing == [body |-> Empty, rev |-> 0]
Snapshots == [Week -> {v \in Stored : v.rev = 0 => v = Nothing}]

Init ==
  /\ weeks \in Snapshots
  /\ era = 0
  /\ history = Versions(weeks, 0) \cup Versions([w \in Week |-> Nothing], 0)

\* The weeks of S are replaced together.  `read' is the version of each that
\* the save was made from, and each of its revisions is the stored one.
Save(S, read) ==
  /\ \A w \in S : read[w].week = w /\ read[w].rev = weeks[w].rev
  /\ weeks' \in [Week -> Stored]
  /\ \A w \in Week :
       IF w \in S THEN weeks'[w].rev = weeks[w].rev + 1 ELSE weeks'[w] = weeks[w]
  /\ history' = history \cup Versions(weeks', era)
  /\ UNCHANGED era

Restore ==
  /\ weeks' \in Snapshots
  /\ era' = era + 1
  /\ history' = history \cup Versions(weeks', era')

Next ==
  \/ \E S \in SUBSET Week : \E read \in [S -> history] : Save(S, read)
  \/ Restore

Spec == Init /\ [][Next]_registerVars

TypeOK ==
  /\ weeks \in [Week -> Stored]
  /\ era \in Nat
  /\ history \subseteq [era : Nat, week : Week, rev : Nat, body : Body \cup {Empty}]

\* Within one era a revision names one body: a program that still holds the
\* revision it read holds what is stored.
RevisionNamesBody ==
  \A u, v \in history :
    u.era = v.era /\ u.week = v.week /\ u.rev = v.rev => u.body = v.body

\* No save replaces what it has not read: unless a snapshot was put back since,
\* the version a save was made from is the version it replaces.
SavesReplaceWhatTheyRead ==
  [][\A S \in SUBSET Week : \A read \in [S -> history] :
       (\A w \in S : read[w].era = era) /\ Save(S, read)
       => \A w \in S : read[w].body = weeks[w].body]_registerVars
=============================================================================
