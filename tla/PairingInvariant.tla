-------------------------- MODULE PairingInvariant --------------------------
(* The inductive invariant of Pairing.                                     *)
EXTENDS Pairing

Holding == {"exporting", "pending"}
Committing == {"committing", "recorded", "answering"}
Inside == Holding \cup Committing

\* Nothing travels on a lost connection; a closed window has no connection
\* and, of its handlers, only commits under way.
LineInv ==
  /\ \A c \in Call : ~call[c].up => call[c].mail = "none"
  /\ \A c \in Call : W(c) = None =>
       ~call[c].up /\ call[c].host = "none" /\ c \notin admitted
  /\ \A c \in Call : W(c) # None /\ win[W(c)].shut = "closed" =>
       ~call[c].up /\ call[c].host \in Committing \cup {"over"}

\* Past the proof, a handler has the gate, or its window is closed and it
\* commits; so one handler of a window at a time is there.
GateInv ==
  /\ \A c \in Call : call[c].host \in Inside =>
       \/ win[W(c)].gate = c
       \/ win[W(c)].shut = "closed" /\ call[c].host \in Committing
  /\ \A b, c \in Call : /\ W(b) = W(c)
                         /\ call[b].host \in Inside /\ call[c].host \in Inside
                         => b = c

\* It found the code open, and the code stays open until it is spent.
CodeInv ==
  /\ \A c \in Call : call[c].host \in Inside =>
       /\ win[W(c)].tries < MaxTries
       /\ win[W(c)].spent = IF call[c].host = "answering" THEN c ELSE None
  /\ \A c \in Call : call[c].host \in {"recorded", "answering"} => c \in admitted
  /\ \A c \in admitted :
       /\ win[W(c)].tries < MaxTries
       /\ \/ call[c].host = "recorded"
          \/ win[W(c)].spent = c /\ call[c].host \in {"answering", "over"}

\* A confirmation comes from a phone with the account, an answer from a
\* desktop that has recorded the phone.
OrderInv ==
  /\ \A c \in Call :
       \/ call[c].mail = "confirm" \/ call[c].host \in Committing
       \/ call[c].dial \in {"linking", "confirming", "paired"} \/ c \in admitted
       => account[PhoneOf[c]] = "ours"
  /\ \A c \in Call :
       call[c].mail = "yes" \/ call[c].dial = "paired" =>
         c \in admitted /\ win[W(c)].spent = c
  /\ \A c \in Call :
       call[c].dial \in {"confirming", "paired"} /\ OnlyCall(c) => PhoneOf[c] \in linked

\* The slot holds the one window that listens and nobody shuts down.
SlotInv ==
  /\ \A w \in Window :
       slot = w <=> win[w].stage \in {"listed", "shown"} /\ win[w].shut = "no"
  /\ \A w \in Window :
       win[w].stage \in {"new", "bound"} => win[w].shut = "no"
  /\ stopping = "emptied" => slot = None

IInv == TypeOK /\ LineInv /\ GateInv /\ CodeInv /\ OrderInv /\ SlotInv
=============================================================================
