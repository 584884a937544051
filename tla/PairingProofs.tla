--------------------------- MODULE PairingProofs ---------------------------
(***************************************************************************)
(* The theorems of Pairing: IInv is inductive, so its safety properties    *)
(* hold for every set of windows, calls and phones and every MaxTries.     *)
(* Each step is first reduced to the fields it changes; the conjuncts of   *)
(* IInv then follow from those fields alone.                               *)
(***************************************************************************)
EXTENDS PairingInvariant, TLAPS
-----------------------------------------------------------------------------
(* Frames *)

\* A call that was not made is blank.
Blank(d) == /\ W(d) = None /\ ~call[d].up /\ call[d].mail = "none"
            /\ call[d].host = "none" /\ call[d].dial = "idle" /\ d \notin admitted

LEMMA MadeOrBlank ==
  ASSUME IInv
  PROVE  /\ \A d \in Call : call[d] \in Calls /\ (W(d) \in Window \/ Blank(d))
         /\ \A w \in Window : win[w] \in Windows
         /\ admitted \subseteq Call
<1>1. TypeOK /\ LineInv
  BY DEF IInv
<1>2. \A d \in Call : W(d) \in Window \cup {None}
  BY <1>1 DEF TypeOK, Calls, W
<1> QED BY <1>1, <1>2 DEF LineInv, TypeOK, Blank

\* Call c becomes k, and its window v or stays v.
Moves(c, k, v) ==
  /\ call' \in [Call -> Calls] /\ call'[c] = k
  /\ \A d \in Call : d # c => call'[d] = call[d]
  /\ win' \in [Window -> Windows] /\ win'[W(c)] = v
  /\ \A w \in Window : w # W(c) => win'[w] = win[w]
  /\ \A d \in Call : W(d)' = W(d)

LEMMA Frame ==
  ASSUME IInv, NEW c \in Call, W(c) \in Window, NEW k \in Calls, NEW v \in Windows,
         k.window = W(c),
         call' = [call EXCEPT ![c] = k],
         \/ win' = [win EXCEPT ![W(c)] = v]
         \/ win' = win /\ v = win[W(c)]
  PROVE  Moves(c, k, v)
<1>1. win \in [Window -> Windows] /\ call \in [Call -> Calls]
  BY DEF IInv, TypeOK
<1>2. /\ call' \in [Call -> Calls] /\ call'[c] = k
      /\ \A d \in Call : d # c => call'[d] = call[d]
  BY <1>1
<1>3. /\ win' \in [Window -> Windows] /\ win'[W(c)] = v
      /\ \A w \in Window : w # W(c) => win'[w] = win[w]
  BY <1>1
<1>4. \A d \in Call : W(d)' = W(d)
  BY <1>2 DEF W
<1> QED BY <1>2, <1>3, <1>4 DEF Moves

-----------------------------------------------------------------------------
(* The desktop's handler *)

Alone(c) == \A d \in Call : d # c /\ W(d) = W(c) => call[d].host \notin Inside

\* What a step of the handler of c keeps to.
HostMove(c, k, v) ==
  /\ k.up => call[c].up
  /\ ~k.up => k.mail = "none"
  /\ k.dial = call[c].dial
  /\ k.mail = "confirm" => call[c].mail = "confirm"
  /\ k.mail = "yes" \/ k.dial = "paired" => c \in admitted' /\ v.spent = c
  /\ k.host \in Committing \/ c \in admitted' => account[PhoneOf[c]] = "ours"
  /\ v.stage = win[W(c)].stage /\ v.shut = win[W(c)].shut
  /\ v.shut = "closed" => k.host \in Committing \cup {"over"}
  /\ v = win[W(c)] \/ Alone(c)
  /\ \/ v.tries = win[W(c)].tries /\ v.spent = win[W(c)].spent
     \/ Alone(c) /\ win[W(c)].spent = None
  /\ k.host \in Inside =>
       /\ Alone(c)
       /\ v.gate = c \/ (v.shut = "closed" /\ k.host \in Committing)
       /\ v.tries < MaxTries
       /\ v.spent = IF k.host = "answering" THEN c ELSE None
  /\ k.host \in {"recorded", "answering"} => c \in admitted'
  /\ c \in admitted' =>
       /\ v.tries < MaxTries
       /\ \/ k.host = "recorded"
          \/ v.spent = c /\ k.host \in {"answering", "over"}
  /\ admitted' = admitted \/ admitted' = admitted \cup {c}
  /\ UNCHANGED <<slot, stopping, linked, account>>

LEMMA HostMoves ==
  ASSUME IInv, NEW c \in Call, W(c) \in Window, NEW k \in Calls, NEW v \in Windows,
         Moves(c, k, v), HostMove(c, k, v)
  PROVE  IInv'
<1> USE PairingAssumption, MadeOrBlank DEF Moves, HostMove
<1>1. TypeOK'
  <2>1. \A d \in Call : W(d)' = None <=> call'[d].dial = "idle"
    BY DEF IInv, TypeOK
  <2> QED BY <2>1 DEF IInv, TypeOK
<1>2. LineInv'
  BY DEF IInv, LineInv, Blank
<1>3. GateInv'
  BY DEF IInv, GateInv, Blank, Alone, Inside, Holding, Committing
<1>4. CodeInv'
  <2>1. \A d \in Call : d # c /\ W(d) \in Window =>
          /\ \/ win'[W(d)] = win[W(d)]
             \/ W(d) = W(c) /\ call[d].host \notin Inside
          /\ call'[d] = call[d] /\ (d \in admitted' <=> d \in admitted)
    BY DEF Alone
  <2>2. \A d \in Call : d # c /\ d \in admitted =>
          /\ win'[W(d)].tries = win[W(d)].tries
          /\ win'[W(d)].spent = win[W(d)].spent
    BY DEF IInv, CodeInv, Blank, Alone, Inside, Holding, Committing
  <2> QED BY <2>1, <2>2 DEF IInv, CodeInv, Blank, Inside, Holding, Committing
<1>5. OrderInv'
  BY DEF IInv, OrderInv, CodeInv, Blank, OnlyCall, Alone, Inside, Holding, Committing
<1>6. SlotInv'
  BY DEF IInv, SlotInv
<1> QED BY <1>1, <1>2, <1>3, <1>4, <1>5, <1>6 DEF IInv

LEMMA ExportFailsStep ==
  ASSUME IInv, NEW c \in Call, ExportFails(c)
  PROVE  IInv'
<1> DEFINE k == [Sent(call[c], "refused") EXCEPT !.host = "over"]
           v == [win[W(c)] EXCEPT !.gate = None]
<1>1. call[c] \in Calls /\ W(c) \in Window /\ win[W(c)] \in Windows
  BY MadeOrBlank DEF ExportFails, Blank
<1>2. /\ k \in Calls /\ k.window = W(c) /\ k.up = call[c].up
      /\ k.mail \in {"refused", "none"} /\ (~k.up => k.mail = "none")
      /\ k.host = "over" /\ k.dial = call[c].dial
  BY <1>1 DEF Calls, HostStage, W, Sent
<1>3. /\ v \in Windows /\ v.stage = win[W(c)].stage /\ v.shut = win[W(c)].shut
      /\ v.tries = win[W(c)].tries /\ v.spent = win[W(c)].spent /\ v.gate = None
  BY <1>1 DEF Windows
<1>4. Moves(c, k, v) /\ UNCHANGED <<slot, stopping, admitted, linked, account>>
  BY <1>1, <1>2, <1>3, Frame
  DEF ExportFails, Refuse, phoneDb, CallBecomes, WindowBecomes
<1> HIDE DEF k, v
<1>5. HostMove(c, k, v)
  BY <1>1, <1>2, <1>3, <1>4
  DEF HostMove, IInv, ExportFails, GateInv, CodeInv, OrderInv, Alone, Inside,
      Holding, Committing
<1> QED BY <1>1, <1>2, <1>3, <1>4, <1>5, HostMoves

LEMMA DecideStep ==
  ASSUME IInv, NEW c \in Call, Decide(c)
  PROVE  IInv'
<1> DEFINE r == [Sent(call[c], "refused") EXCEPT !.host = "over"]
           k == [call[c] EXCEPT !.host = "exporting"]
           t == [win[W(c)] EXCEPT !.tries = @ + 1]
           v == [win[W(c)] EXCEPT !.gate = c]
<1>1. call[c] \in Calls /\ W(c) \in Window /\ win[W(c)] \in Windows
  BY MadeOrBlank DEF Decide, Blank
<1>2. /\ r \in Calls /\ r.window = W(c) /\ r.up = call[c].up
      /\ r.mail \in {"refused", "none"} /\ (~r.up => r.mail = "none")
      /\ r.host = "over" /\ r.dial = call[c].dial
  BY <1>1 DEF Calls, HostStage, W, Sent
<1>3. /\ k \in Calls /\ k.window = W(c) /\ k.up = call[c].up
      /\ k.mail = call[c].mail /\ k.host = "exporting" /\ k.dial = call[c].dial
  BY <1>1 DEF Calls, HostStage, W
<1>4. ~Closed(W(c)) => t \in Windows /\ t.tries \in Nat
  BY <1>1, PairingAssumption DEF Windows, Closed
<1>5. /\ t.stage = win[W(c)].stage /\ t.shut = win[W(c)].shut
      /\ t.spent = win[W(c)].spent /\ t.gate = win[W(c)].gate
  BY <1>1 DEF Windows
<1>6. /\ v \in Windows /\ v.stage = win[W(c)].stage /\ v.shut = win[W(c)].shut
      /\ v.tries = win[W(c)].tries /\ v.spent = win[W(c)].spent /\ v.gate = c
  BY <1>1 DEF Windows
<1>7. UNCHANGED <<slot, stopping, admitted, linked, account>>
  BY DEF Decide, phoneDb
<1>8. /\ call[c].host = "hello" /\ win[W(c)].shut # "closed"
      /\ c \notin admitted /\ Alone(c) /\ ~Blank(c)
      /\ call[c].mail # "yes" /\ call[c].dial # "paired"
      /\ ~call[c].up => call[c].mail = "none"
  <2>1. call[c].host = "hello" /\ win[W(c)].gate = None /\ win[W(c)].shut # "closed"
    BY <1>1, PairingAssumption DEF Decide, IInv, LineInv, Committing
  <2>2. c \notin admitted /\ ~Blank(c)
    BY <2>1 DEF Blank, IInv, CodeInv
  <2>3. Alone(c)
    BY <2>1, PairingAssumption DEF Alone, IInv, GateInv
  <2>4. /\ call[c].mail # "yes" /\ call[c].dial # "paired"
        /\ ~call[c].up => call[c].mail = "none"
    BY <2>2 DEF IInv, OrderInv, LineInv
  <2> QED BY <2>1, <2>2, <2>3, <2>4
<1> HIDE DEF r, k, t, v
<1>9. CASE CallBecomes(c, r) /\ win' = win
  <2>1. Moves(c, r, win[W(c)])
    BY <1>1, <1>2, <1>9, Frame DEF CallBecomes, WindowBecomes
  <2>2. HostMove(c, r, win[W(c)])
    BY <1>2, <1>7, <1>8 DEF HostMove, Inside, Holding, Committing
  <2> QED BY <1>1, <1>2, <2>1, <2>2, HostMoves
<1>10. CASE CallBecomes(c, r) /\ ~Closed(W(c)) /\ WindowBecomes(W(c), t)
  <2>1. Moves(c, r, t)
    BY <1>1, <1>2, <1>4, <1>10, Frame DEF CallBecomes, WindowBecomes
  <2>2. HostMove(c, r, t)
    BY <1>2, <1>5, <1>7, <1>8, <1>10
    DEF HostMove, Closed, Inside, Holding, Committing
  <2> QED BY <1>1, <1>2, <1>4, <1>10, <2>1, <2>2, HostMoves
<1>11. CASE CallBecomes(c, k) /\ ~Closed(W(c)) /\ WindowBecomes(W(c), v)
  <2>1. Moves(c, k, v)
    BY <1>1, <1>3, <1>6, <1>11, Frame DEF CallBecomes, WindowBecomes
  <2>2. win[W(c)].spent = None /\ win[W(c)].tries < MaxTries
    BY <1>1, <1>11, PairingAssumption DEF Closed, Windows
  <2>3. HostMove(c, k, v)
    BY <1>3, <1>6, <1>7, <1>8, <2>2 DEF HostMove, Inside, Holding, Committing
  <2> QED BY <1>1, <1>3, <1>6, <1>11, <2>1, <2>3, HostMoves
<1> QED BY <1>9, <1>10, <1>11 DEF Decide, Refuse, r, k, t, v

LEMMA HearHelloStep ==
  ASSUME IInv, NEW c \in Call, HearHello(c)
  PROVE  IInv'
<1> DEFINE k == [call[c] EXCEPT !.host = "hello", !.mail = "none"]
           v == win[W(c)]
<1>1. call[c] \in Calls /\ W(c) \in Window /\ win[W(c)] \in Windows
  BY MadeOrBlank DEF HearHello, Blank
<1>2. /\ k \in Calls /\ k.window = W(c) /\ k.up = call[c].up
      /\ k.mail = "none" /\ k.host = "hello" /\ k.dial = call[c].dial
  BY <1>1 DEF Calls, HostStage, W
<1>3. Moves(c, k, v) /\ UNCHANGED <<slot, stopping, admitted, linked, account>>
  BY <1>1, <1>2, Frame DEF HearHello, phoneDb, CallBecomes
<1> HIDE DEF k
<1>4. HostMove(c, k, v)
  BY <1>1, <1>2, <1>3, PairingAssumption
  DEF HostMove, HearHello, IInv, LineInv, GateInv, CodeInv, OrderInv, Alone,
      Inside, Holding, Committing
<1> QED BY <1>1, <1>2, <1>3, <1>4, HostMoves

LEMMA ExportStep ==
  ASSUME IInv, NEW c \in Call, Export(c)
  PROVE  IInv'
<1> DEFINE k == [call[c] EXCEPT !.host = "pending", !.mail = "ok"]
           v == win[W(c)]
<1>1. call[c] \in Calls /\ W(c) \in Window /\ win[W(c)] \in Windows
  BY MadeOrBlank DEF Export, Blank
<1>2. /\ k \in Calls /\ k.window = W(c) /\ k.up = call[c].up
      /\ k.mail = "ok" /\ k.host = "pending" /\ k.dial = call[c].dial
  BY <1>1 DEF Calls, HostStage, W
<1>3. Moves(c, k, v) /\ UNCHANGED <<slot, stopping, admitted, linked, account>>
  BY <1>1, <1>2, Frame DEF Export, phoneDb, CallBecomes
<1> HIDE DEF k
<1>4. HostMove(c, k, v)
  BY <1>1, <1>2, <1>3, PairingAssumption
  DEF HostMove, Export, IInv, LineInv, GateInv, CodeInv, OrderInv, Alone,
      Inside, Holding, Committing
<1> QED BY <1>1, <1>2, <1>3, <1>4, HostMoves

LEMMA StopWaitingStep ==
  ASSUME IInv, NEW c \in Call, StopWaiting(c)
  PROVE  IInv'
<1> DEFINE k == [Hung(call[c]) EXCEPT !.host = "over"]
           v == [win[W(c)] EXCEPT !.gate = None]
<1>1. call[c] \in Calls /\ W(c) \in Window /\ win[W(c)] \in Windows
  BY MadeOrBlank DEF StopWaiting, Blank
<1>2. /\ k \in Calls /\ k.window = W(c) /\ ~k.up /\ k.mail = "none"
      /\ k.host = "over" /\ k.dial = call[c].dial
  BY <1>1 DEF Calls, HostStage, W, Hung
<1>3. /\ v \in Windows /\ v.stage = win[W(c)].stage
      /\ v.shut = win[W(c)].shut /\ v.tries = win[W(c)].tries
      /\ v.spent = win[W(c)].spent /\ v.gate = None
  BY <1>1 DEF Windows
<1>4. Moves(c, k, v) /\ UNCHANGED <<slot, stopping, admitted, linked, account>>
  BY <1>1, <1>2, <1>3, Frame DEF StopWaiting, phoneDb, CallBecomes, WindowBecomes
<1> HIDE DEF k, v
<1>5. HostMove(c, k, v)
  BY <1>1, <1>2, <1>3, <1>4, PairingAssumption
  DEF HostMove, StopWaiting, IInv, LineInv, GateInv, CodeInv, OrderInv, Alone,
      Inside, Holding, Committing
<1> QED BY <1>1, <1>2, <1>3, <1>4, <1>5, HostMoves

LEMMA HearConfirmStep ==
  ASSUME IInv, NEW c \in Call, HearConfirm(c)
  PROVE  IInv'
<1> DEFINE k == [call[c] EXCEPT !.host = "committing", !.mail = "none"]
           v == win[W(c)]
<1>1. call[c] \in Calls /\ W(c) \in Window /\ win[W(c)] \in Windows
  BY MadeOrBlank DEF HearConfirm, Blank
<1>2. /\ k \in Calls /\ k.window = W(c) /\ k.up = call[c].up
      /\ k.mail = "none" /\ k.host = "committing" /\ k.dial = call[c].dial
  BY <1>1 DEF Calls, HostStage, W
<1>3. Moves(c, k, v) /\ UNCHANGED <<slot, stopping, admitted, linked, account>>
  BY <1>1, <1>2, Frame DEF HearConfirm, phoneDb, CallBecomes
<1> HIDE DEF k
<1>4. HostMove(c, k, v)
  BY <1>1, <1>2, <1>3, PairingAssumption
  DEF HostMove, HearConfirm, IInv, LineInv, GateInv, CodeInv, OrderInv, Alone,
      Inside, Holding, Committing
<1> QED BY <1>1, <1>2, <1>3, <1>4, HostMoves

LEMMA CommitStep ==
  ASSUME IInv, NEW c \in Call, Commit(c)
  PROVE  IInv'
<1> DEFINE k == [call[c] EXCEPT !.host = "recorded"]
           v == win[W(c)]
<1>1. call[c] \in Calls /\ W(c) \in Window /\ win[W(c)] \in Windows
  BY MadeOrBlank DEF Commit, Blank
<1>2. /\ k \in Calls /\ k.window = W(c) /\ k.up = call[c].up
      /\ k.mail = call[c].mail /\ k.host = "recorded"
      /\ k.dial = call[c].dial
  BY <1>1 DEF Calls, HostStage, W
<1>3. Moves(c, k, v) /\ UNCHANGED <<slot, stopping, linked, account>>
  BY <1>1, <1>2, Frame DEF Commit, phoneDb, CallBecomes
<1> HIDE DEF k
<1>4. HostMove(c, k, v)
  BY <1>1, <1>2, <1>3, PairingAssumption
  DEF HostMove, Commit, IInv, LineInv, GateInv, CodeInv, OrderInv, Alone,
      Inside, Holding, Committing
<1> QED BY <1>1, <1>2, <1>3, <1>4, HostMoves

LEMMA CommitFailsStep ==
  ASSUME IInv, NEW c \in Call, CommitFails(c)
  PROVE  IInv'
<1> DEFINE k == [Sent(call[c], "no") EXCEPT !.host = "over"]
           v == [win[W(c)] EXCEPT !.gate = IF @ = c THEN None ELSE @]
<1>1. call[c] \in Calls /\ W(c) \in Window /\ win[W(c)] \in Windows
  BY MadeOrBlank DEF CommitFails, Blank
<1>2. /\ k \in Calls /\ k.window = W(c) /\ k.up = call[c].up
      /\ k.mail \in {"no", "none"} /\ (~k.up => k.mail = "none")
      /\ k.host = "over" /\ k.dial = call[c].dial
  BY <1>1 DEF Calls, HostStage, W, Sent
<1>3. /\ v \in Windows /\ v.stage = win[W(c)].stage
      /\ v.shut = win[W(c)].shut /\ v.tries = win[W(c)].tries
      /\ v.spent = win[W(c)].spent
      /\ v.gate = IF win[W(c)].gate = c THEN None ELSE win[W(c)].gate
  BY <1>1 DEF Windows
<1>4. Moves(c, k, v) /\ UNCHANGED <<slot, stopping, admitted, linked, account>>
  BY <1>1, <1>2, <1>3, Frame
  DEF CommitFails, phoneDb, CallBecomes, WindowBecomes, LetGo
<1> HIDE DEF k, v
<1>5. HostMove(c, k, v)
  BY <1>1, <1>2, <1>3, <1>4, PairingAssumption
  DEF HostMove, CommitFails, IInv, LineInv, GateInv, CodeInv, OrderInv, Alone,
      Inside, Holding, Committing
<1> QED BY <1>1, <1>2, <1>3, <1>4, <1>5, HostMoves

LEMMA SpendStep ==
  ASSUME IInv, NEW c \in Call, Spend(c)
  PROVE  IInv'
<1> DEFINE k == [call[c] EXCEPT !.host = "answering"]
           v == [win[W(c)] EXCEPT !.spent = c]
<1>1. call[c] \in Calls /\ W(c) \in Window /\ win[W(c)] \in Windows
  BY MadeOrBlank DEF Spend, Blank
<1>2. /\ k \in Calls /\ k.window = W(c) /\ k.up = call[c].up
      /\ k.mail = call[c].mail /\ k.host = "answering"
      /\ k.dial = call[c].dial
  BY <1>1 DEF Calls, HostStage, W
<1>3. /\ v \in Windows /\ v.stage = win[W(c)].stage
      /\ v.shut = win[W(c)].shut /\ v.tries = win[W(c)].tries
      /\ v.spent = c /\ v.gate = win[W(c)].gate
  BY <1>1 DEF Windows
<1>4. Moves(c, k, v) /\ UNCHANGED <<slot, stopping, admitted, linked, account>>
  BY <1>1, <1>2, <1>3, Frame DEF Spend, phoneDb, CallBecomes, WindowBecomes
<1> HIDE DEF k, v
<1>5. HostMove(c, k, v)
  BY <1>1, <1>2, <1>3, <1>4, PairingAssumption
  DEF HostMove, Spend, IInv, LineInv, GateInv, CodeInv, OrderInv, Alone,
      Inside, Holding, Committing
<1> QED BY <1>1, <1>2, <1>3, <1>4, <1>5, HostMoves

LEMMA AnswerStep ==
  ASSUME IInv, NEW c \in Call, Answer(c)
  PROVE  IInv'
<1> DEFINE k == [Sent(call[c], "yes") EXCEPT !.host = "over"]
           v == [win[W(c)] EXCEPT !.gate = IF @ = c THEN None ELSE @]
<1>1. call[c] \in Calls /\ W(c) \in Window /\ win[W(c)] \in Windows
  BY MadeOrBlank DEF Answer, Blank
<1>2. /\ k \in Calls /\ k.window = W(c) /\ k.up = call[c].up
      /\ k.mail \in {"yes", "none"} /\ (~k.up => k.mail = "none")
      /\ k.host = "over" /\ k.dial = call[c].dial
  BY <1>1 DEF Calls, HostStage, W, Sent
<1>3. /\ v \in Windows /\ v.stage = win[W(c)].stage
      /\ v.shut = win[W(c)].shut /\ v.tries = win[W(c)].tries
      /\ v.spent = win[W(c)].spent
      /\ v.gate = IF win[W(c)].gate = c THEN None ELSE win[W(c)].gate
  BY <1>1 DEF Windows
<1>4. Moves(c, k, v) /\ UNCHANGED <<slot, stopping, admitted, linked, account>>
  BY <1>1, <1>2, <1>3, Frame DEF Answer, phoneDb, CallBecomes, WindowBecomes, LetGo
<1> HIDE DEF k, v
<1>5. HostMove(c, k, v)
  BY <1>1, <1>2, <1>3, <1>4, PairingAssumption
  DEF HostMove, Answer, IInv, LineInv, GateInv, CodeInv, OrderInv, Alone,
      Inside, Holding, Committing
<1> QED BY <1>1, <1>2, <1>3, <1>4, <1>5, HostMoves

-----------------------------------------------------------------------------
(* The phone's dial *)

\* What a step of the dial of c keeps to, or a lost connection.
PhoneMove(c, k) ==
  /\ k.up => call[c].up
  /\ ~k.up => k.mail = "none"
  /\ k.host = call[c].host /\ k.dial # "idle"
  /\ k.mail = "yes" \/ k.dial = "paired" => c \in admitted /\ win[W(c)].spent = c
  /\ k.mail = "confirm" \/ k.dial \in {"linking", "confirming", "paired"} =>
       account'[PhoneOf[c]] = "ours"
  /\ account' \in [Phone -> {"none", "ours", "other"}]
  /\ \A p \in Phone : account'[p] = account[p] \/ account'[p] = "ours"
  /\ linked' \subseteq Phone
  /\ k.dial \in {"confirming", "paired"} /\ OnlyCall(c) => PhoneOf[c] \in linked'
  /\ \A p \in Phone : p # PhoneOf[c] => (p \in linked' <=> p \in linked)
  /\ UNCHANGED <<slot, stopping, admitted>>

LEMMA PhoneMoves ==
  ASSUME IInv, NEW c \in Call, W(c) \in Window, NEW k \in Calls,
         Moves(c, k, win[W(c)]), PhoneMove(c, k)
  PROVE  IInv'
<1> USE PairingAssumption, MadeOrBlank DEF Moves, PhoneMove
<1>1. win' = win
  BY DEF IInv, TypeOK
<1>2. call[c].dial # "idle"
  BY PairingAssumption DEF IInv, TypeOK
<1>3. TypeOK'
  BY <1>1, <1>2 DEF IInv, TypeOK
<1>4. LineInv'
  BY <1>1 DEF IInv, LineInv, Blank
<1>5. GateInv'
  BY <1>1 DEF IInv, GateInv, Blank
<1>6. CodeInv'
  BY <1>1 DEF IInv, CodeInv, Blank
<1>7. OrderInv'
  <2>1. \A d \in Call : OnlyCall(d)' => OnlyCall(d)
    BY <1>2 DEF OnlyCall
  <2>2. \A d \in Call : d # c /\ OnlyCall(d) => PhoneOf[d] # PhoneOf[c]
    BY <1>2 DEF OnlyCall
  <2> QED BY <1>1, <2>1, <2>2 DEF IInv, OrderInv, Blank
<1>8. SlotInv'
  BY <1>1 DEF IInv, SlotInv
<1> QED BY <1>3, <1>4, <1>5, <1>6, <1>7, <1>8 DEF IInv

LEMMA HearReplyStep ==
  ASSUME IInv, NEW c \in Call, HearReply(c)
  PROVE  IInv'
<1> DEFINE k == [call[c] EXCEPT !.dial = "storing", !.mail = "none"]
           r == [Hung(call[c]) EXCEPT !.dial = "failed"]
<1>1. call[c] \in Calls /\ W(c) \in Window /\ win[W(c)] \in Windows
  BY MadeOrBlank DEF HearReply, Blank
<1>2. /\ k \in Calls /\ k.window = W(c) /\ k.up = call[c].up
      /\ k.mail = "none" /\ k.host = call[c].host /\ k.dial = "storing"
  BY <1>1 DEF Calls, DialStage, W, Hung
<1>3. /\ r \in Calls /\ r.window = W(c) /\ ~r.up /\ r.mail = "none"
      /\ r.host = call[c].host /\ r.dial = "failed"
  BY <1>1 DEF Calls, DialStage, W, Hung
<1>4. UNCHANGED <<slot, stopping, win, admitted, linked, account>>
  BY DEF HearReply, phoneDb
<1> HIDE DEF k, r
<1>5. CASE CallBecomes(c, k)
  <2>1. Moves(c, k, win[W(c)])
    BY <1>1, <1>2, <1>4, <1>5, Frame DEF CallBecomes
  <2>2. PhoneMove(c, k)
    BY <1>1, <1>2, <1>4, <1>5, PairingAssumption
    DEF PhoneMove, HearReply, IInv, TypeOK, LineInv, OrderInv
  <2> QED BY <1>1, <1>2, <2>1, <2>2, PhoneMoves
<1>6. CASE CallBecomes(c, r)
  <2>1. Moves(c, r, win[W(c)])
    BY <1>1, <1>3, <1>4, <1>6, Frame DEF CallBecomes
  <2>2. PhoneMove(c, r)
    BY <1>1, <1>3, <1>4, <1>6, PairingAssumption
    DEF PhoneMove, HearReply, IInv, TypeOK, LineInv, OrderInv
  <2> QED BY <1>1, <1>3, <2>1, <2>2, PhoneMoves
<1> QED BY <1>5, <1>6 DEF HearReply, k, r

LEMMA StoreStep ==
  ASSUME IInv, NEW c \in Call, Store(c)
  PROVE  IInv'
<1> DEFINE k == [call[c] EXCEPT !.dial = "linking"]
<1>1. call[c] \in Calls /\ W(c) \in Window /\ win[W(c)] \in Windows
  BY MadeOrBlank DEF Store, Blank
<1>2. /\ k \in Calls /\ k.window = W(c) /\ k.up = call[c].up
      /\ k.mail = call[c].mail /\ k.host = call[c].host
      /\ k.dial = "linking"
  BY <1>1 DEF Calls, DialStage, W, Hung
<1>3. UNCHANGED <<slot, stopping, win, admitted, linked>>
  BY DEF Store, phoneDb
<1>4. Moves(c, k, win[W(c)])
  BY <1>1, <1>2, <1>3, Frame DEF Store, CallBecomes
<1> HIDE DEF k
<1>5. PhoneMove(c, k)
  BY <1>1, <1>2, <1>3, PairingAssumption
  DEF PhoneMove, Store, IInv, TypeOK, LineInv, OrderInv
<1> QED BY <1>1, <1>2, <1>4, <1>5, PhoneMoves

LEMMA StoreFailsStep ==
  ASSUME IInv, NEW c \in Call, StoreFails(c)
  PROVE  IInv'
<1> DEFINE k == [Hung(call[c]) EXCEPT !.dial = "failed", !.left = FALSE]
<1>1. call[c] \in Calls /\ W(c) \in Window /\ win[W(c)] \in Windows
  BY MadeOrBlank DEF StoreFails, Blank
<1>2. /\ k \in Calls /\ k.window = W(c) /\ ~k.up /\ k.mail = "none"
      /\ k.host = call[c].host /\ k.dial = "failed"
  BY <1>1 DEF Calls, DialStage, W, Hung
<1>3. UNCHANGED <<slot, stopping, win, admitted, linked, account>>
  BY DEF StoreFails, phoneDb
<1>4. Moves(c, k, win[W(c)])
  BY <1>1, <1>2, <1>3, Frame DEF StoreFails, CallBecomes
<1> HIDE DEF k
<1>5. PhoneMove(c, k)
  BY <1>1, <1>2, <1>3, PairingAssumption
  DEF PhoneMove, StoreFails, IInv, TypeOK, LineInv, OrderInv
<1> QED BY <1>1, <1>2, <1>4, <1>5, PhoneMoves

LEMMA LinkStep ==
  ASSUME IInv, NEW c \in Call, Link(c)
  PROVE  IInv'
<1> DEFINE k == [call[c] EXCEPT !.dial = "failed", !.left = FALSE]
           r == [Sent(call[c], "confirm") EXCEPT !.dial = "confirming"]
<1>1. call[c] \in Calls /\ W(c) \in Window /\ win[W(c)] \in Windows
  BY MadeOrBlank DEF Link, Blank
<1>2. /\ k \in Calls /\ k.window = W(c) /\ k.up = call[c].up
      /\ k.mail = call[c].mail /\ k.host = call[c].host
      /\ k.dial = "failed"
  BY <1>1 DEF Calls, DialStage, W, Sent
<1>3. /\ r \in Calls /\ r.window = W(c) /\ r.up = call[c].up
      /\ r.mail \in {"confirm", "none"} /\ (~r.up => r.mail = "none")
      /\ r.host = call[c].host /\ r.dial = "confirming"
  BY <1>1 DEF Calls, DialStage, W, Sent
<1>4. UNCHANGED <<slot, stopping, win, admitted, account>>
  BY DEF Link, phoneDb
<1> HIDE DEF k, r
<1>5. CASE call[c].left /\ CallBecomes(c, k)
  <2>1. Moves(c, k, win[W(c)])
    BY <1>1, <1>2, <1>4, <1>5, Frame DEF CallBecomes
  <2>2. PhoneMove(c, k)
    BY <1>1, <1>2, <1>4, <1>5, PairingAssumption
    DEF PhoneMove, Link, IInv, TypeOK, LineInv, OrderInv
  <2> QED BY <1>1, <1>2, <2>1, <2>2, PhoneMoves
<1>6. CASE ~call[c].left /\ CallBecomes(c, r)
  <2>1. Moves(c, r, win[W(c)])
    BY <1>1, <1>3, <1>4, <1>6, Frame DEF CallBecomes
  <2>2. PhoneMove(c, r)
    BY <1>1, <1>3, <1>4, <1>6, PairingAssumption
    DEF PhoneMove, Link, IInv, TypeOK, LineInv, OrderInv
  <2> QED BY <1>1, <1>3, <2>1, <2>2, PhoneMoves
<1> QED BY <1>5, <1>6 DEF Link, k, r

LEMMA HearYesStep ==
  ASSUME IInv, NEW c \in Call, HearYes(c)
  PROVE  IInv'
<1> DEFINE k == [Hung(call[c]) EXCEPT !.dial = "paired"]
<1>1. call[c] \in Calls /\ W(c) \in Window /\ win[W(c)] \in Windows
  BY MadeOrBlank DEF HearYes, Blank
<1>2. /\ k \in Calls /\ k.window = W(c) /\ ~k.up /\ k.mail = "none"
      /\ k.host = call[c].host /\ k.dial = "paired"
  BY <1>1 DEF Calls, DialStage, W, Hung
<1>3. UNCHANGED <<slot, stopping, win, admitted, linked, account>>
  BY DEF HearYes, phoneDb
<1>4. Moves(c, k, win[W(c)])
  BY <1>1, <1>2, <1>3, Frame DEF HearYes, CallBecomes
<1> HIDE DEF k
<1>5. PhoneMove(c, k)
  BY <1>1, <1>2, <1>3, PairingAssumption
  DEF PhoneMove, HearYes, IInv, TypeOK, LineInv, OrderInv
<1> QED BY <1>1, <1>2, <1>4, <1>5, PhoneMoves

LEMMA ConfirmFailsStep ==
  ASSUME IInv, NEW c \in Call, ConfirmFails(c)
  PROVE  IInv'
<1> DEFINE k == [Hung(call[c]) EXCEPT !.dial = "undoing"]
<1>1. call[c] \in Calls /\ W(c) \in Window /\ win[W(c)] \in Windows
  BY MadeOrBlank DEF ConfirmFails, Blank
<1>2. /\ k \in Calls /\ k.window = W(c) /\ ~k.up /\ k.mail = "none"
      /\ k.host = call[c].host /\ k.dial = "undoing"
  BY <1>1 DEF Calls, DialStage, W, Hung
<1>3. UNCHANGED <<slot, stopping, win, admitted, linked, account>>
  BY DEF ConfirmFails, phoneDb
<1>4. Moves(c, k, win[W(c)])
  BY <1>1, <1>2, <1>3, Frame DEF ConfirmFails, CallBecomes
<1> HIDE DEF k
<1>5. PhoneMove(c, k)
  BY <1>1, <1>2, <1>3, PairingAssumption
  DEF PhoneMove, ConfirmFails, IInv, TypeOK, LineInv, OrderInv
<1> QED BY <1>1, <1>2, <1>4, <1>5, PhoneMoves

LEMMA UndoStep ==
  ASSUME IInv, NEW c \in Call, Undo(c)
  PROVE  IInv'
<1> DEFINE k == [call[c] EXCEPT !.dial = "failed"]
<1>1. call[c] \in Calls /\ W(c) \in Window /\ win[W(c)] \in Windows
  BY MadeOrBlank DEF Undo, Blank
<1>2. /\ k \in Calls /\ k.window = W(c) /\ k.up = call[c].up
      /\ k.mail = call[c].mail /\ k.host = call[c].host
      /\ k.dial = "failed"
  BY <1>1 DEF Calls, DialStage, W, Hung
<1>3. UNCHANGED <<slot, stopping, win, admitted, account>>
  BY DEF Undo, phoneDb
<1>4. Moves(c, k, win[W(c)])
  BY <1>1, <1>2, <1>3, Frame DEF Undo, CallBecomes
<1> HIDE DEF k
<1>5. PhoneMove(c, k)
  BY <1>1, <1>2, <1>3, PairingAssumption
  DEF PhoneMove, Undo, IInv, TypeOK, LineInv, OrderInv
<1> QED BY <1>1, <1>2, <1>4, <1>5, PhoneMoves

LEMMA LeaveStep ==
  ASSUME IInv, NEW c \in Call, Leave(c)
  PROVE  IInv'
<1> DEFINE k == [Hung(call[c]) EXCEPT !.dial = "failed"]
           r == [Hung(call[c]) EXCEPT !.left = TRUE]
<1>1. call[c] \in Calls /\ W(c) \in Window /\ win[W(c)] \in Windows
  BY MadeOrBlank DEF Leave, Blank
<1>2. /\ k \in Calls /\ k.window = W(c) /\ ~k.up /\ k.mail = "none"
      /\ k.host = call[c].host /\ k.dial = "failed"
  BY <1>1 DEF Calls, DialStage, W, Hung
<1>3. /\ r \in Calls /\ r.window = W(c) /\ ~r.up /\ r.mail = "none"
      /\ r.host = call[c].host /\ r.dial = call[c].dial
  BY <1>1 DEF Calls, DialStage, W, Hung
<1>4. UNCHANGED <<slot, stopping, win, admitted, linked, account>>
  BY DEF Leave, phoneDb
<1> HIDE DEF k, r
<1>5. CASE CallBecomes(c, k)
  <2>1. Moves(c, k, win[W(c)])
    BY <1>1, <1>2, <1>4, <1>5, Frame DEF CallBecomes
  <2>2. PhoneMove(c, k)
    BY <1>1, <1>2, <1>4, <1>5, PairingAssumption
    DEF PhoneMove, Leave, IInv, TypeOK, LineInv, OrderInv
  <2> QED BY <1>1, <1>2, <2>1, <2>2, PhoneMoves
<1>6. CASE call[c].dial \in {"storing", "linking"} /\ CallBecomes(c, r)
  <2>1. Moves(c, r, win[W(c)])
    BY <1>1, <1>3, <1>4, <1>6, Frame DEF CallBecomes
  <2>2. PhoneMove(c, r)
    BY <1>1, <1>3, <1>4, <1>6, PairingAssumption
    DEF PhoneMove, Leave, IInv, TypeOK, LineInv, OrderInv
  <2> QED BY <1>1, <1>3, <2>1, <2>2, PhoneMoves
<1> QED BY <1>5, <1>6 DEF Leave, k, r

LEMMA LoseStep ==
  ASSUME IInv, NEW c \in Call, Lose(c)
  PROVE  IInv'
<1> DEFINE k == Hung(call[c])
<1>1. call[c] \in Calls /\ W(c) \in Window /\ win[W(c)] \in Windows
  BY MadeOrBlank DEF Lose, Blank
<1>2. /\ k \in Calls /\ k.window = W(c) /\ ~k.up /\ k.mail = "none"
      /\ k.host = call[c].host /\ k.dial = call[c].dial
  BY <1>1 DEF Calls, DialStage, W, Hung
<1>3. UNCHANGED <<slot, stopping, win, admitted, linked, account>>
  BY DEF Lose, phoneDb
<1>4. Moves(c, k, win[W(c)])
  BY <1>1, <1>2, <1>3, Frame DEF Lose, CallBecomes
<1> HIDE DEF k
<1>5. PhoneMove(c, k)
  BY <1>1, <1>2, <1>3, PairingAssumption
  DEF PhoneMove, Lose, IInv, TypeOK, LineInv, OrderInv
<1> QED BY <1>1, <1>2, <1>4, <1>5, PhoneMoves

LEMMA DialsStep ==
  ASSUME IInv, NEW c \in Call, NEW w \in Window, Dial(c, w)
  PROVE  IInv'
<1> DEFINE k == [call[c] EXCEPT !.window = w, !.up = TRUE,
                                !.mail = "hello", !.dial = "waiting"]
<1>1. /\ call[c] \in Calls /\ Blank(c) /\ win[w].shut # "closed" /\ w # None
      /\ \A d \in Call : W(d) = None \/ W(d) \in Window
  BY MadeOrBlank, PairingAssumption DEF Dial, Blank, IInv, TypeOK
<1>2. /\ k \in Calls /\ k.window = w /\ k.up /\ k.mail = "hello"
      /\ k.host = "none" /\ k.dial = "waiting"
  BY <1>1 DEF Calls, DialStage, Blank
<1>3. UNCHANGED <<slot, stopping, win, admitted, linked, account>>
  BY DEF Dial, phoneDb
<1>4. /\ call' \in [Call -> Calls] /\ call'[c] = k
      /\ \A d \in Call : d # c => call'[d] = call[d]
  BY <1>2 DEF Dial, CallBecomes, IInv, TypeOK
<1> HIDE DEF k
<1>5. W(c)' = w /\ \A d \in Call : d # c => W(d)' = W(d)
  BY <1>2, <1>4 DEF W
<1>6. \A d \in Call : OnlyCall(d)' => OnlyCall(d)
  BY <1>1, <1>4 DEF OnlyCall, Blank
<1>7. TypeOK'
  BY <1>1, <1>2, <1>3, <1>4, <1>5 DEF IInv, TypeOK
<1>8. LineInv'
  BY <1>1, <1>2, <1>3, <1>4, <1>5 DEF IInv, LineInv, Blank
<1>9. GateInv'
  BY <1>1, <1>2, <1>3, <1>4, <1>5
  DEF IInv, GateInv, Blank, Inside, Holding, Committing
<1>10. CodeInv'
  BY <1>1, <1>2, <1>3, <1>4, <1>5, MadeOrBlank
  DEF IInv, CodeInv, Blank, Inside, Holding, Committing
<1>11. OrderInv'
  BY <1>1, <1>2, <1>3, <1>4, <1>5, <1>6
  DEF IInv, OrderInv, Blank, Committing
<1>12. SlotInv'
  BY <1>3 DEF IInv, SlotInv
<1> QED BY <1>7, <1>8, <1>9, <1>10, <1>11, <1>12 DEF IInv

-----------------------------------------------------------------------------
(* The windows *)

\* What opening, replacing and shutting windows leave alone.
WindowMove ==
  /\ win' \in [Window -> Windows]
  /\ \A w \in Window :
       /\ win'[w].tries = win[w].tries /\ win'[w].spent = win[w].spent
       /\ win'[w].gate = win[w].gate
       /\ win'[w].shut = "closed" <=> win[w].shut = "closed"
  /\ slot' \in Window \cup {None} /\ stopping' \in {"no", "flagged", "emptied"}
  /\ UNCHANGED <<call, admitted, linked, account>>

LEMMA WindowMoves ==
  ASSUME IInv, WindowMove, SlotInv'
  PROVE  IInv'
<1> USE MadeOrBlank DEF WindowMove
<1>1. \A d \in Call : W(d)' = W(d) /\ (OnlyCall(d)' <=> OnlyCall(d))
  BY DEF W, OnlyCall
<1>2. TypeOK'
  BY <1>1 DEF IInv, TypeOK
<1>3. LineInv'
  BY <1>1 DEF IInv, LineInv, Blank
<1>4. GateInv'
  BY <1>1 DEF IInv, GateInv, Blank, Inside, Holding, Committing
<1>5. CodeInv'
  BY <1>1 DEF IInv, CodeInv, Blank, Inside, Holding, Committing
<1>6. OrderInv'
  BY <1>1 DEF IInv, OrderInv, Blank
<1> QED BY <1>2, <1>3, <1>4, <1>5, <1>6 DEF IInv

LEMMA BindStep ==
  ASSUME IInv, NEW w \in Window, Bind(w)
  PROVE  IInv'
<1> DEFINE v == [win[w] EXCEPT !.stage = "bound"]
<1>1. win[w] \in Windows /\ w \in Window
  BY MadeOrBlank DEF Bind, IInv, TypeOK
<1>2. /\ v \in Windows /\ v.stage = "bound" /\ v.shut = win[w].shut
      /\ v.tries = win[w].tries /\ v.spent = win[w].spent
      /\ v.gate = win[w].gate
  BY <1>1 DEF Windows
<1>3. /\ win' \in [Window -> Windows] /\ win'[w] = v
      /\ \A x \in Window : x # w => win'[x] = win[x]
  BY <1>1, <1>2 DEF Bind, WindowBecomes, IInv, TypeOK
<1> HIDE DEF v
<1>4. WindowMove
  BY <1>1, <1>2, <1>3 DEF WindowMove, Bind, phoneDb, IInv, TypeOK, SlotInv
<1>5. SlotInv'
  BY <1>1, <1>2, <1>3, PairingAssumption DEF SlotInv, Bind, IInv
<1> QED BY <1>4, <1>5, WindowMoves

LEMMA PublishStep ==
  ASSUME IInv, NEW w \in Window, Publish(w)
  PROVE  IInv'
<1>1. /\ win \in [Window -> Windows] /\ slot \in Window \cup {None}
      /\ \A x \in Window : win[x] \in Windows
  BY MadeOrBlank DEF IInv, TypeOK
<1>2. CASE stopping # "no"
  <2> DEFINE v == [win[w] EXCEPT !.stage = "refused", !.shut = "due"]
  <2>1. /\ v \in Windows /\ v.stage = "refused" /\ v.shut = "due"
        /\ v.tries = win[w].tries /\ v.spent = win[w].spent
        /\ v.gate = win[w].gate
    BY <1>1 DEF Windows
  <2>2. /\ win' \in [Window -> Windows] /\ win'[w] = v
        /\ \A x \in Window : x # w => win'[x] = win[x]
    BY <1>1, <1>2, <2>1 DEF Publish, WindowBecomes
  <2>3. UNCHANGED <<slot, stopping, call, admitted, linked, account>>
    BY <1>2 DEF Publish, phoneDb
  <2>4. win[w].stage = "bound" /\ win[w].shut = "no"
    BY DEF Publish, IInv, SlotInv
  <2> HIDE DEF v
  <2>5. WindowMove
    BY <2>1, <2>2, <2>3, <2>4 DEF WindowMove, IInv, TypeOK
  <2>6. SlotInv'
    BY <2>1, <2>2, <2>3, <2>4 DEF SlotInv, IInv
  <2> QED BY <2>5, <2>6, WindowMoves
<1>3. CASE stopping = "no"
  <2> DEFINE v == [win[w] EXCEPT !.stage = "listed", !.before = slot]
             u == [win[slot] EXCEPT !.shut = "due"]
  <2>1. /\ v \in Windows /\ v.stage = "listed" /\ v.shut = win[w].shut
        /\ v.tries = win[w].tries /\ v.spent = win[w].spent
        /\ v.gate = win[w].gate
    BY <1>1 DEF Windows
  <2>2. slot \in Window => /\ u \in Windows /\ u.stage = win[slot].stage
          /\ u.shut = "due" /\ u.tries = win[slot].tries
          /\ u.spent = win[slot].spent /\ u.gate = win[slot].gate
    BY <1>1 DEF Windows
  <2>3. /\ win[w].stage = "bound" /\ win[w].shut = "no" /\ slot # w
        /\ slot \in Window => win[slot].shut = "no"
    BY DEF Publish, IInv, SlotInv
  <2>4. /\ win' = [x \in Window |-> IF x = w THEN v ELSE IF x = slot THEN u ELSE win[x]]
        /\ slot' = w
    BY <1>3 DEF Publish
  <2>5. UNCHANGED <<stopping, call, admitted, linked, account>>
    BY DEF Publish, phoneDb
  <2> HIDE DEF v, u
  <2>6. /\ win' \in [Window -> Windows] /\ win'[w] = v
        /\ slot \in Window => win'[slot] = u
        /\ \A x \in Window : x # w /\ x # slot => win'[x] = win[x]
    BY <1>1, <2>1, <2>2, <2>3, <2>4
  <2>7. WindowMove
    BY <1>1, <2>1, <2>2, <2>3, <2>4, <2>5, <2>6 DEF WindowMove, IInv, TypeOK
  <2>8. SlotInv'
    BY <1>1, <1>3, <2>1, <2>2, <2>3, <2>4, <2>5, <2>6 DEF SlotInv, IInv
  <2> QED BY <2>7, <2>8, WindowMoves
<1> QED BY <1>2, <1>3

LEMMA OfferStep ==
  ASSUME IInv, NEW w \in Window, Offer(w)
  PROVE  IInv'
<1> DEFINE v == [win[w] EXCEPT !.stage = "shown"]
<1>1. win[w] \in Windows /\ w \in Window
  BY MadeOrBlank DEF Offer, IInv, TypeOK
<1>2. /\ v \in Windows /\ v.stage = "shown" /\ v.shut = win[w].shut
      /\ v.tries = win[w].tries /\ v.spent = win[w].spent
      /\ v.gate = win[w].gate
  BY <1>1 DEF Windows
<1>3. /\ win' \in [Window -> Windows] /\ win'[w] = v
      /\ \A x \in Window : x # w => win'[x] = win[x]
  BY <1>1, <1>2 DEF Offer, WindowBecomes, IInv, TypeOK
<1> HIDE DEF v
<1>4. WindowMove
  BY <1>1, <1>2, <1>3 DEF WindowMove, Offer, phoneDb, IInv, TypeOK, SlotInv
<1>5. SlotInv'
  BY <1>1, <1>2, <1>3, PairingAssumption DEF SlotInv, Offer, IInv
<1> QED BY <1>4, <1>5, WindowMoves

LEMMA PairCancelStep ==
  ASSUME IInv, PairCancel
  PROVE  IInv'
<1> DEFINE v == [win[slot] EXCEPT !.shut = "due"]
<1>1. win[slot] \in Windows /\ slot \in Window
  BY MadeOrBlank DEF PairCancel, IInv, TypeOK
<1>2. /\ v \in Windows /\ v.stage = win[slot].stage /\ v.shut = "due"
      /\ v.tries = win[slot].tries /\ v.spent = win[slot].spent
      /\ v.gate = win[slot].gate
  BY <1>1 DEF Windows
<1>3. /\ win' \in [Window -> Windows] /\ win'[slot] = v
      /\ \A x \in Window : x # slot => win'[x] = win[x]
  BY <1>1, <1>2 DEF PairCancel, WindowBecomes, IInv, TypeOK
<1> HIDE DEF v
<1>4. WindowMove
  BY <1>1, <1>2, <1>3 DEF WindowMove, PairCancel, phoneDb, IInv, TypeOK, SlotInv
<1>5. SlotInv'
  BY <1>1, <1>2, <1>3, PairingAssumption DEF SlotInv, PairCancel, IInv
<1> QED BY <1>4, <1>5, WindowMoves

LEMMA ReapStep ==
  ASSUME IInv, NEW w \in Window, Reap(w)
  PROVE  IInv'
<1> DEFINE v == [win[w] EXCEPT !.shut = "closing"]
<1>1. win[w] \in Windows /\ w \in Window
  BY MadeOrBlank DEF Reap, IInv, TypeOK
<1>2. /\ v \in Windows /\ v.stage = win[w].stage /\ v.shut = "closing"
      /\ v.tries = win[w].tries /\ v.spent = win[w].spent
      /\ v.gate = win[w].gate
  BY <1>1 DEF Windows
<1>3. /\ win' \in [Window -> Windows] /\ win'[w] = v
      /\ \A x \in Window : x # w => win'[x] = win[x]
  BY <1>1, <1>2 DEF Reap, WindowBecomes, IInv, TypeOK
<1> HIDE DEF v
<1>4. WindowMove
  BY <1>1, <1>2, <1>3 DEF WindowMove, Reap, phoneDb, IInv, TypeOK, SlotInv
<1>5. SlotInv'
  BY <1>1, <1>2, <1>3, PairingAssumption DEF SlotInv, Reap, IInv
<1> QED BY <1>4, <1>5, WindowMoves

LEMMA ExpireStep ==
  ASSUME IInv, NEW w \in Window, Expire(w)
  PROVE  IInv'
<1> DEFINE v == [win[w] EXCEPT !.ended = TRUE]
<1>1. win[w] \in Windows /\ w \in Window
  BY MadeOrBlank DEF Expire, IInv, TypeOK
<1>2. /\ v \in Windows /\ v.stage = win[w].stage /\ v.shut = win[w].shut
      /\ v.tries = win[w].tries /\ v.spent = win[w].spent
      /\ v.gate = win[w].gate
  BY <1>1 DEF Windows
<1>3. /\ win' \in [Window -> Windows] /\ win'[w] = v
      /\ \A x \in Window : x # w => win'[x] = win[x]
  BY <1>1, <1>2 DEF Expire, WindowBecomes, IInv, TypeOK
<1> HIDE DEF v
<1>4. WindowMove
  BY <1>1, <1>2, <1>3 DEF WindowMove, Expire, phoneDb, IInv, TypeOK, SlotInv
<1>5. SlotInv'
  BY <1>1, <1>2, <1>3, PairingAssumption DEF SlotInv, Expire, IInv
<1> QED BY <1>4, <1>5, WindowMoves

LEMMA ShutStep ==
  ASSUME IInv, NEW w \in Window, Shut(w)
  PROVE  IInv'
<1> DEFINE v == [win[w] EXCEPT !.shut = "closing", !.ended = TRUE]
<1>1. win[w] \in Windows /\ w \in Window
  BY MadeOrBlank DEF Shut, IInv, TypeOK
<1>2. /\ v \in Windows /\ v.stage = win[w].stage /\ v.shut = "closing"
      /\ v.tries = win[w].tries /\ v.spent = win[w].spent
      /\ v.gate = win[w].gate
  BY <1>1 DEF Windows
<1>3. /\ win' \in [Window -> Windows] /\ win'[w] = v
      /\ \A x \in Window : x # w => win'[x] = win[x]
  BY <1>1, <1>2 DEF Shut, WindowBecomes, IInv, TypeOK
<1> HIDE DEF v
<1>4. WindowMove
  BY <1>1, <1>2, <1>3 DEF WindowMove, Shut, phoneDb, IInv, TypeOK, SlotInv
<1>5. SlotInv'
  BY <1>1, <1>2, <1>3, PairingAssumption DEF SlotInv, Shut, IInv
<1> QED BY <1>4, <1>5, WindowMoves

LEMMA StopSteps ==
  ASSUME IInv, Stop \/ StopEmptiesSlot
  PROVE  IInv'
<1>1. /\ win \in [Window -> Windows] /\ slot \in Window \cup {None}
      /\ \A x \in Window : win[x] \in Windows
  BY MadeOrBlank DEF IInv, TypeOK
<1>2. CASE Stop
  <2>1. WindowMove
    BY <1>1, <1>2 DEF WindowMove, Stop, phoneDb
  <2>2. SlotInv'
    BY <1>2 DEF SlotInv, Stop, IInv
  <2> QED BY <2>1, <2>2, WindowMoves
<1>3. CASE StopEmptiesSlot
  <2> DEFINE u == [win[slot] EXCEPT !.shut = "due"]
  <2>1. slot \in Window => /\ u \in Windows /\ u.stage = win[slot].stage
          /\ u.shut = "due" /\ u.tries = win[slot].tries
          /\ u.spent = win[slot].spent /\ u.gate = win[slot].gate
    BY <1>1 DEF Windows
  <2>2. /\ win' = [x \in Window |-> IF x = slot THEN u ELSE win[x]]
        /\ slot' = None /\ stopping' = "emptied"
        /\ UNCHANGED <<call, admitted, linked, account>>
    BY <1>3 DEF StopEmptiesSlot, phoneDb
  <2>3. slot \in Window => win[slot].shut = "no" /\ win[slot].stage \in {"listed", "shown"}
    BY DEF IInv, SlotInv
  <2> HIDE DEF u
  <2>4. WindowMove
    BY <1>1, <2>1, <2>2, <2>3 DEF WindowMove
  <2>5. SlotInv'
    BY <1>1, <2>1, <2>2, <2>3, PairingAssumption DEF SlotInv, IInv
  <2> QED BY <2>4, <2>5, WindowMoves
<1> QED BY <1>2, <1>3

LEMMA CloseRouterStep ==
  ASSUME IInv, NEW w \in Window, CloseRouter(w)
  PROVE  IInv'
<1> DEFINE v == [win[w] EXCEPT !.shut = "closed", !.gate = None]
           kept == {"committing", "recorded"}
           k(d) == [Hung(call[d]) EXCEPT !.host = IF @ \in kept THEN @ ELSE "over"]
<1>1. /\ call \in [Call -> Calls] /\ win \in [Window -> Windows]
      /\ \A d \in Call : call[d] \in Calls /\ (W(d) \in Window \/ Blank(d))
      /\ win[w] \in Windows /\ w # None /\ admitted \subseteq Call
  BY MadeOrBlank, PairingAssumption DEF IInv, TypeOK
<1>2. /\ v \in Windows /\ v.stage = win[w].stage /\ v.shut = "closed"
      /\ v.tries = win[w].tries /\ v.spent = win[w].spent /\ v.gate = None
  BY <1>1 DEF Windows
<1>3. \A d \in Call :
        /\ k(d) \in Calls /\ k(d).window = W(d) /\ ~k(d).up
        /\ k(d).mail = "none" /\ k(d).dial = call[d].dial
        /\ k(d).host = IF call[d].host \in kept THEN call[d].host ELSE "over"
  BY <1>1 DEF Calls, HostStage, Hung, W
<1>4. /\ win' \in [Window -> Windows] /\ win'[w] = v
      /\ \A x \in Window : x # w => win'[x] = win[x]
  BY <1>1, <1>2 DEF CloseRouter, WindowBecomes
<1>5. call' = [d \in Call |-> IF W(d) # w THEN call[d] ELSE k(d)]
  BY DEF CloseRouter
<1>6. UNCHANGED <<slot, stopping, admitted, linked, account>> /\ win[w].shut = "closing"
  BY DEF CloseRouter, phoneDb
<1> HIDE DEF v, k
<1>7. /\ call' \in [Call -> Calls]
      /\ \A d \in Call : W(d) # w => call'[d] = call[d]
      /\ \A d \in Call : W(d) = w => call'[d] = k(d)
  BY <1>1, <1>3, <1>5
<1>8. /\ \A d \in Call : W(d)' = W(d) /\ call'[d].dial = call[d].dial
  BY <1>3, <1>7 DEF W
<1>9. \A d \in Call : OnlyCall(d)' <=> OnlyCall(d)
  BY <1>8 DEF OnlyCall
<1>10. TypeOK'
  BY <1>1, <1>4, <1>6, <1>7, <1>8 DEF IInv, TypeOK
<1>11. LineInv'
  BY <1>1, <1>2, <1>3, <1>4, <1>6, <1>7, <1>8 DEF IInv, LineInv, Blank, Committing
<1>12. GateInv'
  BY <1>1, <1>2, <1>3, <1>4, <1>6, <1>7, <1>8
  DEF IInv, GateInv, Blank, Inside, Holding, Committing
<1>13. CodeInv'
  BY <1>1, <1>2, <1>3, <1>4, <1>6, <1>7, <1>8
  DEF IInv, CodeInv, Blank, Inside, Holding, Committing
<1>14. OrderInv'
  BY <1>1, <1>2, <1>3, <1>4, <1>6, <1>7, <1>8, <1>9
  DEF IInv, OrderInv, Blank, Committing
<1>15. SlotInv'
  BY <1>2, <1>4, <1>6 DEF IInv, SlotInv
<1> QED BY <1>10, <1>11, <1>12, <1>13, <1>14, <1>15 DEF IInv

-----------------------------------------------------------------------------
(* The theorems *)

LEMMA InitInv == Init => IInv
<1> SUFFICES ASSUME Init PROVE IInv
  OBVIOUS
<1> USE PairingAssumption
<1>1. \A w \in Window : win[w] \in Windows /\ win[w].stage = "new" /\ win[w].shut = "no"
  <2>1. ASSUME NEW w \in Window
        PROVE  win[w] \in Windows /\ win[w].stage = "new" /\ win[w].shut = "no"
    <3>1. win[w] = [stage |-> "new", shut |-> "no", before |-> None, tries |-> 0,
                    spent |-> None, ended |-> FALSE, gate |-> None]
      BY DEF Init
    <3>2. 0 \in 0 .. MaxTries
      OBVIOUS
    <3> QED BY <3>1, <3>2 DEF Windows
  <2> QED BY <2>1
<1>2. \A c \in Call : call[c] \in Calls /\ Blank(c)
  BY DEF Init, Calls, HostStage, DialStage, Blank, W
<1>3. /\ slot = None /\ stopping = "no" /\ admitted = {} /\ linked = {}
      /\ account \in [Phone -> {"none", "ours", "other"}]
      /\ win \in [Window -> Windows] /\ call \in [Call -> Calls]
  BY <1>1, <1>2 DEF Init
<1>4. TypeOK
  BY <1>2, <1>3 DEF TypeOK, Blank
<1>5. LineInv /\ GateInv /\ CodeInv /\ OrderInv
  BY <1>2, <1>3
  DEF LineInv, GateInv, CodeInv, OrderInv, Blank, Inside, Holding, Committing
<1>6. SlotInv
  BY <1>1, <1>3 DEF SlotInv
<1> QED BY <1>4, <1>5, <1>6 DEF IInv

LEMMA NextInv == IInv /\ [Next]_vars => IInv'
<1> SUFFICES ASSUME IInv, [Next]_vars PROVE IInv'
  OBVIOUS
<1>1. CASE UNCHANGED vars
  BY <1>1
  DEF vars, IInv, TypeOK, LineInv, GateInv, CodeInv, OrderInv, SlotInv,
      OnlyCall, W
<1>2. CASE PairCancel \/ Stop \/ StopEmptiesSlot
  BY <1>2, PairCancelStep, StopSteps
<1>3. ASSUME NEW w \in Window, WindowStep(w) PROVE IInv'
  BY <1>3, BindStep, PublishStep, OfferStep, ReapStep, ExpireStep, ShutStep,
     CloseRouterStep DEF WindowStep
<1>4. ASSUME NEW c \in Call, HostStep(c) PROVE IInv'
  BY <1>4, HearHelloStep, DecideStep, ExportStep, ExportFailsStep, StopWaitingStep,
     HearConfirmStep, CommitStep, CommitFailsStep, SpendStep, AnswerStep DEF HostStep
<1>5. ASSUME NEW c \in Call, DialStep(c) PROVE IInv'
  BY <1>5, HearReplyStep, StoreStep, StoreFailsStep, LinkStep, HearYesStep,
     ConfirmFailsStep, UndoStep, LeaveStep DEF DialStep
<1>6. ASSUME NEW c \in Call, Lose(c) PROVE IInv'
  BY <1>6, LoseStep
<1>7. ASSUME NEW c \in Call, NEW w \in Window, Dial(c, w) PROVE IInv'
  BY <1>7, DialsStep
<1> QED BY <1>1, <1>2, <1>3, <1>4, <1>5, <1>6, <1>7 DEF Next

\* The whole inductive invariant of pairing holds in every reachable state.
THEOREM Invariant == Spec => []IInv
BY InitInv, NextInv, PTL DEF Spec

\* The state of windows, calls and databases keeps its type.
THEOREM TypeCorrect == Spec => []TypeOK
<1>1. IInv => TypeOK
  BY DEF IInv
<1> QED BY <1>1, Invariant, PTL

\* A code never lets two phones in (PairHandler::gate, decide, commit).
THEOREM OnePhone == Spec => []OnePhonePerCode
<1>1. IInv => OnePhonePerCode
  BY PairingAssumption, MadeOrBlank
  DEF IInv, GateInv, CodeInv, OnePhonePerCode, Inside, Committing
<1> QED BY <1>1, Invariant, PTL

\* No phone comes in on a code that took MaxTries wrong proofs, before or
\* after its own proof.
THEOREM TriesHold == Spec => []NoneAfterTheTries
<1>1. IInv => NoneAfterTheTries
  BY DEF IInv, CodeInv, NoneAfterTheTries
<1> QED BY <1>1, Invariant, PTL

\* The recorded phone and the spent code belong together, also when the
\* window is shut in the middle of the commit.
THEOREM Spent == Spec => []RecordedIsSpent
<1>1. IInv => RecordedIsSpent
  BY DEF IInv, CodeInv, RecordedIsSpent
<1> QED BY <1>1, Invariant, PTL

\* The desktop records after the phone took the account, and the phone
\* reports success after the desktop recorded.
THEOREM InOrder == Spec => []RecordedInOrder
<1>1. IInv => RecordedInOrder
  BY MadeOrBlank DEF IInv, OrderInv, RecordedInOrder
<1> QED BY <1>1, Invariant, PTL

\* A listening window is in the slot or being shut, and none after stop().
THEOREM NoStray == Spec => []NoStrayWindow
<1>1. IInv => NoStrayWindow
  BY DEF IInv, SlotInv, NoStrayWindow
<1> QED BY <1>1, Invariant, PTL
=============================================================================
