------------------------------ MODULE DeskSave ------------------------------
(***************************************************************************)
(* The desktop window's copy of the open week: editing it, saving it,     *)
(* undoing, moving a block to another week, and reading it again.         *)
(*                                                                         *)
(* The window runs on one thread and has one request on its way (`call'); *)
(* a request it gave up on may still be carried out by the server         *)
(* (`strays').  The server's routes are those of WeekRoutes.              *)
(***************************************************************************)
EXTENDS WeekRoutes, FiniteSets, Functions

CONSTANTS
  Typed,       \* the blocks the student adds with an editor
  Dropped,     \* the places the student lets Movable go at by hand
  Pasted,      \* the blocks the student adds to another week
  MaxActs,     \* bound: what the student does
  MaxMishaps    \* bound: requests that fail, and what others change

\* What the window keeps of a save until it is answered.
PendingSaves ==
  [op : Nat, stay : BOOLEAN,
   writes : SUBSET [week : Week, body : SUBSET Block, rev : Nat, era : Nat,
                    base : SUBSET Block, twice : BOOLEAN]]

\* A step of Undo: what it did to each of its weeks.
Steps ==
  [at : UNION {[S -> [before : SUBSET Block, after : SUBSET Block, rev : Nat \cup {None}, era : Nat]]
               : S \in SUBSET Week},
   stale : BOOLEAN]

ASSUME DeskAssumption ==
  /\ Typed \cup Dropped \cup Pasted \subseteq Block \ ({Movable} \cup Theirs)
  /\ MaxActs \in Nat /\ MaxMishaps \in Nat
  /\ None \notin {"undo", "redo"} \cup Nat \cup PendingSaves \cup Steps

VARIABLES
  desk,      \* the open week as the window has it
  drafts,    \* weeks set aside with unsaved changes
  call,      \* the request whose answer the window waits for
  strays,    \* requests it no longer waits for, not yet carried out
  waiting,   \* a hand move let go while a request is on its way
  seen,      \* the state token of the last preview of the restore point
  keys,      \* operation ids kept for a second try of the same thing
  news,      \* a phone's edits reached the store and the window was not told yet
  nextOp, mishaps, acts,   \* counters, for the bounds
  ghost      \* history: what the student made, and how some of it may go

deskVars == <<desk, drafts, call, strays, waiting, seen, keys, news, nextOp,
              mishaps, acts, ghost>>
vars == <<routeVars, deskVars>>

Idle == [kind |-> "idle"]
Fresh == [made |-> {}, exposed |-> {}, excused |-> {}, carried |-> {}, limbo |-> {},
          torn |-> FALSE, misfiled |-> FALSE]

Blank ==
  [in |-> FALSE, week |-> FirstWeek, body |-> {}, base |-> {}, rev |-> 0, era |-> 0,
   dirty |-> FALSE, conflict |-> FALSE, pending |-> None,
   undo |-> <<>>, redo |-> <<>>, step |-> None, travel |-> None, trip |-> None]

NoKeys == [move |-> [w \in Week |-> None], moving |-> None, restore |-> None]

Load(w) == [kind |-> "load", week |-> w, data |-> None]

Init ==
  /\ RoutesInit
  /\ desk = [Blank EXCEPT !.in = TRUE]
  /\ drafts = <<>>
  /\ call = Load(FirstWeek)
  /\ strays = {}
  /\ waiting = None
  /\ seen = None
  /\ keys = NoKeys
  /\ news = FALSE
  /\ nextOp = 1 /\ mishaps = 0 /\ acts = 0
  /\ ghost = Fresh

Busy == call # Idle
\* Fault: only a save that failed is thought unsaved.
HeldIfFailed(d) == d.pending # None

Held(d) == d.dirty \/ d.pending # None
\* One thing the student does.
Acts == acts < MaxActs /\ acts' = acts + 1

Without(f, k) == Restrict(f, DOMAIN f \ {k})

\* Only a save or a restore changes anything when the server carries it out late.
LeftBehind ==
  IF call.kind \in {"post", "restore"} /\ call.answer = None THEN strays \cup {call} ELSE strays

\* A request begins without waiting for the one on its way: what that one would
\* have done to the window is not done, and an Undo stays unfinished.
Supersede ==
  /\ strays' = LeftBehind
  /\ ghost' = [ghost EXCEPT !.torn = @ \/ desk.travel # None]

-----------------------------------------------------------------------------
(* What a write says.  `era' and `base' are history: the version it is     *)
(* made from.                                                              *)
Write(w, body, rev, e, base) ==
  [week |-> w, body |-> body, rev |-> rev, era |-> e, base |-> base, twice |-> FALSE]
Open(d, body) == Write(d.week, body, d.rev, d.era, d.base)

\* An edit: the week on screen changes, and a save that failed is forgotten.
Touched(d, body) ==
  [d EXCEPT !.body = body, !.dirty = TRUE, !.conflict = FALSE, !.pending = None]

\* What a forgotten save would have added to another week.
Elsewhere(d) ==
  IF d.pending = None THEN {}
  ELSE UNION {wr.body : wr \in {x \in d.pending.writes : x.week # d.week}}

Step(at) == [at |-> at, stale |-> FALSE]
\* What a step does to one week.  The answer to its save says the revision.
Entry(before, after) == [before |-> before, after |-> after, rev |-> None, era |-> 0]

Capture(d) ==
  IF d.base = d.body THEN None ELSE Step([w \in {d.week} |-> Entry(d.base, d.body)])

\* Fault: undo saves the open week alone.
TripWritesNone(d) == {}

\* The other weeks of the step that is being undone or redone.
TripWrites(d) ==
  LET entry(w) == d.trip.at[w]
  IN IF d.trip = None THEN {}
     ELSE {IF d.travel = "undo"
             THEN Write(w, entry(w).before, entry(w).rev, entry(w).era, entry(w).after)
             ELSE Write(w, entry(w).after, entry(w).rev, entry(w).era, entry(w).before)
           : w \in DOMAIN d.trip.at \ {d.week}}

\* The window just before it posts: a save that failed is sent again as it was.
Prepared(d) ==
  IF d.pending # None THEN d
  ELSE [d EXCEPT
          !.pending = [op |-> nextOp, writes |-> {Open(d, d.body)} \cup TripWrites(d),
                       stay |-> TripWrites(d) # {}],
          !.step = IF d.travel = None THEN Capture(d) ELSE @]

Post(d) ==
  LET written == {wr.week : wr \in d.pending.writes}
  IN [kind |-> "post", op |-> d.pending.op, writes |-> d.pending.writes,
      to |-> IF d.week \in written \/ d.pending.stay THEN None
             ELSE CHOOSE w \in written : TRUE,
      answer |-> None]

\* An undone step of another week has no revision to name: save() stops there.
Unrevised(d) ==
  d.trip # None /\ \E w \in DOMAIN d.trip.at \ {d.week} : d.trip.at[w].rev = None

\* save(), with nothing on its way.
Saves(d) ==
  IF d.conflict \/ (d.pending = None /\ Unrevised(d))
    THEN desk' = d /\ UNCHANGED <<call, nextOp>>
    ELSE /\ desk' = Prepared(d)
         /\ call' = Post(desk')
         /\ nextOp' = IF d.pending = None THEN nextOp + 1 ELSE nextOp

-----------------------------------------------------------------------------
(* Reading a week.                                                         *)
\* Fault: a week with unsaved changes is not set aside.
ParkedNothing(d, kept) == kept

Parked(d, kept) ==
  LET aside == [d EXCEPT !.travel = None, !.trip = None]
  IN IF Held(d) THEN [w \in {d.week} \cup DOMAIN kept |-> IF w = d.week THEN aside ELSE kept[w]]
                ELSE kept

\* load_week(), with nothing on its way.
LoadWeek(d, kept, w, discard) ==
  IF ~discard /\ w = d.week /\ Held(d)
    THEN desk' = d /\ drafts' = kept /\ call' = Idle
    ELSE IF ~discard /\ w # d.week /\ w \in DOMAIN kept /\ Held(kept[w])
      THEN /\ desk' = [kept[w] EXCEPT !.travel = d.travel, !.trip = d.trip]
           /\ drafts' = Without(Parked(d, kept), w)
           /\ call' = Idle
      ELSE /\ desk' = d
           /\ drafts' = IF discard THEN Without(kept, w) ELSE kept
           /\ call' = Load(w)

\* Fault: steps of a week that changed elsewhere stay good.
MarkNothing(steps, w) == steps

MarkStale(steps, w) ==
  [i \in DOMAIN steps |-> IF w \in DOMAIN steps[i].at THEN [steps[i] EXCEPT !.stale = TRUE]
                                                     ELSE steps[i]]

\* A restore may bring a week back to the revision the window knows, with another
\* body: the steps of the week that was there stay good.
Mistaken(v) ==
  /\ v.week = desk.week /\ v.rev = desk.rev /\ v.body # desk.base
  /\ desk.undo # <<>> \/ desk.redo # <<>>

\* A week read from the server takes the place of the week on screen.
LoadOk ==
  /\ call.kind = "load" /\ call.data # None
  /\ LET v == call.data
         other == v.week # desk.week
         kept(steps) == IF other THEN <<>>
                            ELSE IF v.rev # desk.rev THEN MarkStale(steps, v.week) ELSE steps
     IN /\ desk' = [desk EXCEPT !.week = v.week, !.body = v.body, !.base = v.body,
                                !.rev = v.rev, !.era = v.era, !.dirty = FALSE,
                                !.conflict = FALSE, !.pending = None, !.step = None,
                                !.undo = kept(@), !.redo = kept(@)]
        /\ drafts' = Without(IF other THEN Parked(desk, drafts) ELSE drafts, v.week)
  /\ call' = Idle
  /\ ghost' = [ghost EXCEPT !.limbo = @ \ {call.data.week}, !.torn = @ \/ Mistaken(call.data)]
  /\ UNCHANGED <<routeVars, strays, waiting, seen, keys, news, nextOp, mishaps, acts>>

SwitchWeek ==
  /\ Acts
  /\ desk.in /\ ~Busy
  /\ \E w \in Week \ {desk.week} : LoadWeek(desk, drafts, w, FALSE)
  /\ UNCHANGED <<routeVars, strays, waiting, seen, keys, news, nextOp, mishaps, ghost>>

\* Reload this week: what was not saved is given up.
Reload ==
  /\ Acts
  /\ desk.in /\ ~Busy
  /\ LoadWeek([desk EXCEPT !.dirty = FALSE, !.conflict = FALSE, !.pending = None],
              drafts, desk.week, TRUE)
  /\ ghost' = [ghost EXCEPT !.excused = @ \cup desk.body \cup Elsewhere(desk),
                            !.limbo = @ \cup {desk.week}]
  /\ UNCHANGED <<routeVars, strays, waiting, seen, keys, news, nextOp, mishaps>>

\* The window is told of a phone's edits.
AcceptRemoteWeek ==
  /\ desk.in /\ ~Busy /\ news
  /\ news' = FALSE
  /\ IF Held(desk)
       THEN desk' = [desk EXCEPT !.conflict = TRUE] /\ UNCHANGED <<drafts, call>>
       ELSE LoadWeek(desk, drafts, desk.week, TRUE)
  /\ UNCHANGED <<routeVars, strays, waiting, seen, keys, nextOp, mishaps, acts, ghost>>

-----------------------------------------------------------------------------
(* Editing.                                                                *)

\* The answer on its way will replace the week on screen, or an Undo is unfinished.
Replacing ==
  \/ call.kind = "load" /\ call.week = desk.week
  \/ call.kind = "post" /\ \E wr \in call.writes : wr.week = desk.week
  \/ desk.travel # None

\* Block b is the student's work from here on.
Made(b) ==
  [ghost EXCEPT !.made = @ \cup {b},
                !.exposed = IF Replacing THEN @ \cup {b} ELSE @,
                !.excused = @ \cup Elsewhere(desk),
                !.torn = @ \/ desk.week \in ghost.limbo]

\* An editor was accepted: nothing keeps it from being open during a request.
AddBlock ==
  /\ Acts
  /\ desk.in
  /\ \E b \in Typed \ ghost.made :
       LET d == Touched(desk, desk.body \cup {b})
       IN /\ IF Busy THEN desk' = d /\ UNCHANGED <<call, nextOp>> ELSE Saves(d)
          /\ ghost' = Made(b)
  /\ UNCHANGED <<routeVars, drafts, strays, waiting, seen, keys, news, mishaps>>

\* The move let go at place b, with nothing on its way.
Place(b) ==
  IF Movable \in desk.body
    THEN /\ Saves(Touched(desk, desk.body \cup {b}))
         /\ ghost' = Made(b)
    ELSE /\ ghost' = [ghost EXCEPT !.made = @ \cup {b}, !.excused = @ \cup {b}]
         /\ UNCHANGED <<desk, call, nextOp>>

PlaceBlock ==
  /\ Acts
  /\ desk.in
  /\ \E b \in Dropped \ ghost.made :
       IF Busy
         THEN /\ Movable \in desk.body
              /\ waiting' = b
              /\ ghost' = [ghost EXCEPT !.made = @ \cup {b}, !.excused = @ \cup ({waiting} \ {None})]
              /\ UNCHANGED <<desk, call, nextOp>>
         ELSE /\ Movable \in desk.body
              /\ Place(b)
              /\ UNCHANGED waiting
  /\ UNCHANGED <<routeVars, drafts, strays, seen, keys, news, mishaps>>

ResumePlace ==
  /\ ~Busy /\ waiting # None
  /\ waiting' = None
  /\ Place(waiting)
  /\ UNCHANGED <<routeVars, drafts, strays, seen, keys, news, mishaps, acts>>

\* The autosave timer, or Retry save.
Autosave ==
  /\ desk.in /\ ~Busy /\ ~desk.conflict /\ Held(desk)
  /\ Saves(desk)
  /\ UNCHANGED <<routeVars, drafts, strays, waiting, seen, keys, news, mishaps, acts, ghost>>

-----------------------------------------------------------------------------
(* Undo and redo.                                                          *)
LiveSteps(steps) ==
  LET live == {i \in DOMAIN steps : ~steps[i].stale}
  IN IF live = {} THEN <<>> ELSE SubSeq(steps, 1, Max(live))

CanTravel(steps) ==
  /\ desk.in /\ ~Busy /\ ~desk.conflict /\ ~Held(desk)
  /\ LiveSteps(steps) # <<>>
  /\ desk.week \in DOMAIN Last(LiveSteps(steps)).at

\* The step is applied to the week on screen and saved at once.
Undo ==
  /\ Acts
  /\ CanTravel(desk.undo)
  /\ LET steps == LiveSteps(desk.undo)
     IN Saves([Touched(desk, Last(steps).at[desk.week].before) EXCEPT
                 !.undo = Front(steps), !.travel = "undo", !.trip = Last(steps)])
  /\ UNCHANGED <<routeVars, drafts, strays, waiting, seen, keys, news, mishaps, ghost>>

Redo ==
  /\ Acts
  /\ CanTravel(desk.redo)
  /\ LET steps == LiveSteps(desk.redo)
     IN Saves([Touched(desk, Last(steps).at[desk.week].after) EXCEPT
                 !.redo = Front(steps), !.travel = "redo", !.trip = Last(steps)])
  /\ UNCHANGED <<routeVars, drafts, strays, waiting, seen, keys, news, mishaps, ghost>>

-----------------------------------------------------------------------------
(* Work that concerns two weeks.                                           *)

\* The weeks the window has a body of: the one on screen, and one set aside.
Local(w) == w = desk.week \/ (w \in DOMAIN drafts /\ drafts[w].dirty)

\* What the window, or the answers it waited for, say a week holds: a write
\* of it changes nothing yet.
AsRead(v) == Write(v.week, v.body, v.rev, v.era, v.body)
Basis(w, got) ==
  IF w = desk.week THEN Open(desk, desk.body)
  ELSE IF Local(w) THEN Open(drafts[w], drafts[w].body)
  ELSE AsRead(CHOOSE v \in got : v.week = w)

CommitMove(from, to, op, got) ==
  LET source == Basis(from, got)
      dest == Basis(to, got)
      writes == {[source EXCEPT !.body = @ \ {Movable}],
                 [dest EXCEPT !.body = @ \cup {Movable}, !.twice = Movable \in dest.body]}
      step == Step([w \in {from, to} |->
                      IF w = from THEN Entry(source.body, source.body \ {Movable})
                                  ELSE Entry(dest.body, dest.body \cup {Movable})])
  IN IF Movable \notin source.body
       THEN call' = Idle /\ UNCHANGED <<desk, keys, ghost>>
       ELSE /\ ghost' = [ghost EXCEPT !.carried = @ \cup (source.body \ source.base)
                                                     \cup (dest.body \ dest.base),
                                       !.torn = @ \/ {from, to} \cap ghost.limbo # {}]
            /\ desk' = [desk EXCEPT !.step = step,
                                    !.pending = [op |-> op, writes |-> writes, stay |-> TRUE]]
            /\ call' = Post(desk')
            /\ keys' = [keys EXCEPT !.move[from] = op, !.moving = from]

\* The weeks of a move that the window has no body of are read, one at a time.
Unread(from, to, got) == {w \in {from, to} : ~Local(w) /\ \A v \in got : v.week # w}
ReadNext(from, to, got) ==
  [kind |-> "fetch", use |-> "move", from |-> from, to |-> to, got |-> got, data |-> None,
   week |-> IF from \in Unread(from, to, got) THEN from ELSE to]

\* A move to another week keeps its operation id until it is stored or refused.
MoveToDate ==
  /\ Acts
  /\ desk.in /\ ~Busy /\ ~desk.conflict /\ desk.pending = None
  /\ \E from, to \in Week :
       LET op == IF keys.move[from] = None THEN nextOp ELSE keys.move[from]
       IN /\ from # to
          /\ Local(from) => Movable \in Basis(from, {}).body
          /\ IF Unread(from, to, {}) = {} THEN CommitMove(from, to, op, {})
             ELSE /\ call' = ReadNext(from, to, {})
                  /\ keys' = [keys EXCEPT !.move[from] = op]
                  /\ UNCHANGED <<desk, ghost>>
          /\ nextOp' = IF keys.move[from] = None THEN nextOp + 1 ELSE nextOp
  /\ UNCHANGED <<routeVars, drafts, strays, waiting, seen, news, mishaps>>

MoveFetched ==
  /\ call.kind = "fetch" /\ call.use = "move" /\ call.data # None
  /\ LET got == call.got \cup {call.data}
     IN IF Unread(call.from, call.to, got) = {}
          THEN CommitMove(call.from, call.to, keys.move[call.from], got)
          ELSE call' = ReadNext(call.from, call.to, got) /\ UNCHANGED <<desk, keys, ghost>>
  /\ UNCHANGED <<routeVars, drafts, strays, waiting, seen, news, nextOp, mishaps, acts>>

\* Blocks confirmed for a week that is not open: it is read first.  A request
\* already on its way is not waited for.
AddToWeek ==
  /\ Acts
  /\ desk.in /\ ~desk.conflict
  /\ \E w \in Week \ {desk.week}, b \in Pasted \ ghost.made :
       call' = [kind |-> "fetch", use |-> "add", week |-> w, block |-> b, data |-> None]
  /\ Supersede
  /\ UNCHANGED <<routeVars, desk, drafts, waiting, seen, keys, news, nextOp, mishaps>>

AddFetched ==
  /\ call.kind = "fetch" /\ call.use = "add" /\ call.data # None
  /\ LET v == call.data
         write == [AsRead(v) EXCEPT !.body = @ \cup {call.block}]
     IN /\ desk' = [desk EXCEPT !.pending = [op |-> nextOp, writes |-> {write}, stay |-> FALSE]]
        /\ call' = Post(desk')
        /\ ghost' = [ghost EXCEPT !.made = @ \cup {call.block},
                                  !.excused = @ \cup Elsewhere(desk)]
  /\ nextOp' = nextOp + 1
  /\ UNCHANGED <<routeVars, drafts, strays, waiting, seen, keys, news, mishaps, acts>>

\* An Undo that fails takes the save it finds waiting with it, and what is on
\* screen by then.
TripDropped ==
  IF desk.travel = None THEN ghost
  ELSE [ghost EXCEPT !.excused = @ \cup desk.body \cup Elsewhere(desk)]

-----------------------------------------------------------------------------
(* The answer to a save.                                                   *)
StoredAs(answer, w) == CHOOSE v \in answer.stored : v.week = w
Answered(answer) == {v.week : v \in answer.stored}

KeepRevisions(step, answer) ==
  [step EXCEPT !.at = [w \in DOMAIN @ |->
     IF w \in Answered(answer)
       THEN [@[w] EXCEPT !.rev = StoredAs(answer, w).rev, !.era = StoredAs(answer, w).era]
       ELSE @[w]]]

KeepAfter(step, answer) ==
  [step EXCEPT !.at = [w \in DOMAIN @ |->
     IF w \in Answered(answer) THEN [@[w] EXCEPT !.after = StoredAs(answer, w).body] ELSE @[w]]]

\* Where the step that was saved goes.
Filed(d, answer) ==
  LET trip == KeepRevisions(d.trip, answer)
      step == KeepRevisions(KeepAfter(d.step, answer), answer)
  IN IF d.travel = "undo" THEN [d EXCEPT !.redo = Append(@, trip)]
     ELSE IF d.travel = "redo" THEN [d EXCEPT !.undo = Append(@, trip)]
     ELSE IF d.step # None THEN [d EXCEPT !.undo = Append(@, step), !.redo = <<>>]
     ELSE d

\* Fault: the window keeps the revision it had.
ShownUnrevised(d, answer) ==
  IF d.week \notin Answered(answer) THEN d
  ELSE LET v == StoredAs(answer, d.week)
       IN [d EXCEPT !.body = v.body, !.base = v.body, !.dirty = FALSE, !.conflict = FALSE]

\* The open week as the store has it.
Shown(d, answer) ==
  IF d.week \notin Answered(answer) THEN d
  ELSE LET v == StoredAs(answer, d.week)
       IN [d EXCEPT !.body = v.body, !.base = v.body, !.rev = v.rev, !.era = v.era,
                    !.dirty = FALSE, !.conflict = FALSE]

\* The answer to a save of these writes is filed under a step that did something
\* else: the window had given that step's own save up, and kept the step.  Or the
\* step put Movable where it already was, and the answer is that of an earlier try.
Doubles(step) ==
  \E u, w \in DOMAIN step.at :
    u # w /\ Movable \in step.at[u].before /\ Movable \in step.at[w].before
Misfiled(writes) ==
  LET step == IF desk.travel = None THEN desk.step ELSE desk.trip
      made(e) == IF desk.travel = "undo" THEN e.before ELSE e.after
  IN /\ desk.travel # None \/ step # None
     /\ \/ \E w \in DOMAIN step.at : ~\E wr \in writes : wr.week = w /\ wr.body = made(step.at[w])
        \/ Doubles(step)

Settled(d) == [d EXCEPT !.travel = None, !.trip = None, !.step = None, !.pending = None]
KeyUsed == [keys EXCEPT !.moving = None,
                        !.move = [w \in Week |-> IF w = keys.moving THEN None ELSE @[w]]]

SaveOk ==
  /\ call.kind = "post" /\ call.answer # None /\ call.answer.status = 200
  /\ LET d == Settled(Filed(Shown(desk, call.answer), call.answer))
         written == {wr.week : wr \in call.writes}
         gone == (written \ {desk.week}) \cap DOMAIN drafts
         kept == Restrict(drafts, DOMAIN drafts \ (written \ {desk.week}))
     IN /\ IF call.to # None THEN LoadWeek(d, kept, call.to, FALSE)
           ELSE desk' = d /\ drafts' = kept /\ call' = Idle
        /\ ghost' = [ghost EXCEPT !.excused = @ \cup UNION {drafts[w].body \cup Elsewhere(drafts[w]) : w \in gone},
                                  !.limbo = IF desk.week \in Answered(call.answer) THEN @ \ {desk.week} ELSE @,
                                  !.misfiled = @ \/ Misfiled(call.writes)]
  /\ keys' = KeyUsed
  /\ UNCHANGED <<routeVars, strays, waiting, seen, news, nextOp, mishaps, acts>>

\* Fault: the step that was put back is still the one being undone.
PutBackHeld(d) ==
  IF d.travel = "undo" THEN [d EXCEPT !.undo = Append(@, d.trip), !.travel = None]
  ELSE IF d.travel = "redo" THEN [d EXCEPT !.redo = Append(@, d.trip), !.travel = None]
  ELSE d

PutBack(d) ==
  IF d.travel = "undo" THEN [d EXCEPT !.undo = Append(@, d.trip), !.travel = None, !.trip = None]
  ELSE IF d.travel = "redo" THEN [d EXCEPT !.redo = Append(@, d.trip), !.travel = None, !.trip = None]
  ELSE d

\* 409: the student has to reload, unless it was Undo, which is given up.
SaveRefused ==
  /\ call.kind = "post" /\ call.answer # None /\ call.answer.status = 409
  /\ IF desk.travel = None
       THEN /\ desk' = [desk EXCEPT !.conflict = TRUE]
            /\ call' = Idle
            /\ UNCHANGED drafts
       ELSE LoadWeek([PutBack(desk) EXCEPT !.pending = None, !.dirty = FALSE, !.conflict = FALSE],
                     drafts, desk.week, TRUE)
  /\ ghost' = [TripDropped EXCEPT !.limbo = IF desk.travel = None THEN @ ELSE @ \cup {desk.week}]
  /\ keys' = KeyUsed
  /\ UNCHANGED <<routeVars, strays, waiting, seen, news, nextOp, mishaps, acts>>

\* No answer: a save is kept for another try, an Undo is taken off the screen.
SaveUnreached(d) ==
  IF d.travel = None THEN [d EXCEPT !.conflict = FALSE]
  ELSE [PutBack(d) EXCEPT !.body = d.base, !.dirty = FALSE, !.pending = None, !.conflict = FALSE]

SaveRejected ==
  /\ call.kind = "post" /\ call.answer # None /\ call.answer.status = 422
  /\ desk' = SaveUnreached(desk)
  /\ ghost' = TripDropped
  /\ call' = Idle
  /\ UNCHANGED <<routeVars, drafts, strays, waiting, seen, keys, news, nextOp, mishaps, acts>>

-----------------------------------------------------------------------------
(* Restore points.  Neither request waits for the one on its way.          *)
PreviewRestorePoint ==
  /\ Acts
  /\ desk.in
  /\ call' = [kind |-> "preview", data |-> None]
  /\ Supersede
  /\ UNCHANGED <<routeVars, desk, drafts, waiting, seen, keys, news, nextOp, mishaps>>

PreviewOk ==
  /\ call.kind = "preview" /\ call.data # None
  /\ seen' = call.data
  /\ call' = Idle
  /\ UNCHANGED <<routeVars, desk, drafts, strays, waiting, keys, news, nextOp, mishaps, acts, ghost>>

ApplyRestorePoint ==
  /\ Acts
  /\ desk.in /\ seen # None
  /\ LET op == IF keys.restore = None THEN nextOp ELSE keys.restore
     IN /\ call' = [kind |-> "restore", op |-> op, token |-> seen, answer |-> None]
        /\ keys' = [keys EXCEPT !.restore = op]
        /\ nextOp' = IF keys.restore = None THEN nextOp + 1 ELSE nextOp
  /\ Supersede
  /\ UNCHANGED <<routeVars, desk, drafts, waiting, seen, news, mishaps>>

\* The week is read again only if nothing on it is unsaved.
RestoreOk ==
  /\ call.kind = "restore" /\ call.answer # None /\ call.answer.status = 200
  /\ seen' = None
  /\ LoadWeek([desk EXCEPT !.undo = <<>>, !.redo = <<>>], drafts, desk.week, FALSE)
  /\ UNCHANGED <<routeVars, strays, waiting, keys, news, nextOp, mishaps, acts, ghost>>

RestoreRefused ==
  /\ call.kind = "restore" /\ call.answer # None /\ call.answer.status = 409
  /\ seen' = None
  /\ call' = Idle
  /\ UNCHANGED <<routeVars, desk, drafts, strays, waiting, keys, news, nextOp, mishaps, acts, ghost>>

-----------------------------------------------------------------------------
(* The server, the network and the others.                                 *)
\* The server accepts a save though a week of it is not at the version it was made
\* from: a restore point was put back, or that week reads as it is to be already.
NotAsRead(writes) == \E wr \in writes : wr.era # era \/ wr.rev # weeks[wr.week].rev

ServerAnswers ==
  /\ \/ /\ call.kind \in {"load", "fetch"} /\ call.data = None
        /\ call' = [call EXCEPT !.data = VersionOf(call.week)]
        /\ UNCHANGED <<routeVars, ghost>>
     \/ /\ call.kind = "preview" /\ call.data = None
        /\ call' = [call EXCEPT !.data = weeks]
        /\ UNCHANGED <<routeVars, ghost>>
     \/ /\ call.kind = "post" /\ call.answer = None
        /\ PostChanges(call.op, call.writes)
        /\ call' = [call EXCEPT !.answer = Changes(call.op, call.writes).answer]
        /\ ghost' = [ghost EXCEPT !.torn = @ \/ (weeks' # weeks /\ NotAsRead(call.writes))]
     \/ /\ call.kind = "restore" /\ call.answer = None
        /\ PostRestore(call.op, call.token)
        /\ call' = [call EXCEPT !.answer = Restoring(call.op, call.token).answer]
        /\ UNCHANGED ghost
  /\ UNCHANGED <<desk, drafts, strays, waiting, seen, keys, news, nextOp, mishaps, acts>>

\* A request the window gave up on may be carried out after all.
StrayRuns ==
  /\ \E s \in strays :
       /\ strays' = strays \ {s}
       /\ \/ /\ s.kind = "post"
             /\ PostChanges(s.op, s.writes)
             /\ ghost' = [ghost EXCEPT !.torn = @ \/ (weeks' # weeks /\ NotAsRead(s.writes))]
          \/ /\ s.kind = "restore"
             /\ PostRestore(s.op, s.token)
             /\ UNCHANGED ghost
  /\ UNCHANGED <<desk, drafts, call, waiting, seen, keys, news, nextOp, mishaps, acts>>

\* A request times out, cannot be made, or its answer is lost.
CallFails ==
  /\ Busy /\ mishaps < MaxMishaps
  /\ strays' \in {strays, LeftBehind}
  /\ IF call.kind = "post"
       THEN desk' = SaveUnreached(desk) /\ ghost' = TripDropped
       ELSE UNCHANGED <<desk, ghost>>
  /\ call' = Idle
  /\ mishaps' = mishaps + 1
  /\ UNCHANGED <<routeVars, drafts, waiting, seen, keys, news, nextOp, acts>>

\* The session ended: the server answers 401, and the window forgets the account.
Expired ==
  /\ Busy /\ desk.in /\ mishaps < MaxMishaps
  /\ desk' = Blank
  /\ drafts' = <<>>
  /\ call' = Idle
  /\ waiting' = None
  /\ seen' = None
  /\ keys' = NoKeys
  /\ mishaps' = mishaps + 1
  /\ ghost' = [ghost EXCEPT !.excused = @ \cup ghost.made, !.limbo = {}]
  /\ UNCHANGED <<routeVars, strays, news, nextOp, acts>>

SignIn ==
  /\ ~desk.in /\ ~Busy
  /\ LoadWeek([desk EXCEPT !.in = TRUE], drafts, desk.week, TRUE)
  /\ UNCHANGED <<routeVars, strays, waiting, seen, keys, news, nextOp, mishaps, acts, ghost>>

Others ==
  /\ mishaps < MaxMishaps /\ mishaps' = mishaps + 1
  /\ \/ OtherSaves /\ news' = TRUE
     \/ OtherRestores /\ UNCHANGED news
  /\ UNCHANGED <<desk, drafts, call, strays, waiting, seen, keys, nextOp, acts, ghost>>

Window ==
  \/ LoadOk \/ SwitchWeek \/ Reload \/ AcceptRemoteWeek
  \/ AddBlock \/ PlaceBlock \/ ResumePlace \/ Autosave \/ Undo \/ Redo
  \/ MoveToDate \/ MoveFetched \/ AddToWeek \/ AddFetched
  \/ SaveOk \/ SaveRefused \/ SaveRejected
  \/ PreviewRestorePoint \/ PreviewOk \/ ApplyRestorePoint \/ RestoreOk \/ RestoreRefused
  \/ SignIn

Next == Window \/ ServerAnswers \/ StrayRuns \/ CallFails \/ Expired \/ Others

\* The server answers, the window takes the answer, and the autosave timer
\* finds a moment without a request.
Fairness ==
  /\ WF_vars(ServerAnswers)
  /\ WF_vars(LoadOk \/ MoveFetched \/ AddFetched \/ SaveOk \/ SaveRefused \/ SaveRejected
              \/ PreviewOk \/ RestoreOk \/ RestoreRefused)
  /\ SF_vars(Autosave)

Spec == Init /\ [][Next]_vars /\ Fairness

-----------------------------------------------------------------------------
TypeOK ==
  /\ RoutesTypeOK
  /\ desk.week \in Week /\ desk.body \in SUBSET Block /\ desk.base \in SUBSET Block
  /\ desk.travel \in {None, "undo", "redo"} /\ (desk.travel = None => desk.trip = None)
  /\ DOMAIN drafts \subseteq Week \ {desk.week}
  /\ call.kind \in {"idle", "load", "post", "fetch", "preview", "restore"}
  /\ waiting \in Dropped \cup {None}

OnScreen == [era |-> desk.era, week |-> desk.week, rev |-> desk.rev, body |-> desk.body]

\* A week that is not marked unsaved is one the store has held, at the revision
\* the window will name in its next save, whatever answers came late, were
\* lost, or were for another week.  Except while a reload that gave the
\* student's edits up has not been answered: the edits stay on screen, and
\* nothing marks them.
SavedMeansStored == ~Held(desk) /\ desk.week \notin ghost.limbo => OnScreen \in history

\* Where a block the student made may be.
Kept ==
  EverStored \cup desk.body \cup {waiting} \cup Elsewhere(desk)
  \cup UNION {drafts[w].body \cup Elsewhere(drafts[w]) : w \in DOMAIN drafts}

\* "The week saves itself shortly after each change": what the student adds or
\* places stays in the window until the store has had it.  The exceptions the
\* code takes on purpose or without a word are `excused'.
EditsKept == ghost.made \ ghost.excused \subseteq Kept

\* The same of every edit that was not made while the answer on its way was to
\* replace the week on screen: setting weeks aside, reading them again, failed
\* and repeated saves, undo and moves lose none of them.
OtherEditsKept == ghost.made \ (ghost.excused \cup ghost.exposed) \subseteq Kept

\* "Stale revisions never silently overwrite newer data": when a save of this
\* window changes a week, the body it was made from is the one it replaces,
\* however late or however often it is carried out, unless a restore point was
\* put back since the window read the week.
Sent == {s \in strays \cup {call} : s.kind = "post"}
NoSilentOverwrite ==
  [][\A w \in Week :
       weeks'[w] # weeks[w] /\ era' = era /\ ~OtherSaves =>
         \E s \in Sent : \E wr \in s.writes :
           /\ wr.week = w /\ wr.body = weeks'[w].body
           /\ wr.era = era /\ ~ghost.misfiled => wr.base = weeks[w].body]_vars

\* The same with no excuse: what the code means, and a step filed under another
\* save's answer breaks.
NoLaterChangeGone ==
  [][\A w \in Week :
       weeks'[w] # weeks[w] /\ era' = era /\ ~OtherSaves =>
         \E s \in Sent : \E wr \in s.writes :
           /\ wr.week = w /\ wr.body = weeks'[w].body
           /\ wr.era = era => wr.base = weeks[w].body]_vars

\* A block moved to another week is in exactly one week of the store: the move,
\* its retry and its undo write both weeks or neither.  Except once the window
\* has dropped half of such a save for another request, kept an undone week on
\* screen, or saved over a restored account (`torn').
MovedBlockInOneWeek ==
  ghost.torn \/ ghost.misfiled \/ \E w \in Week : {u \in Week : Movable \in weeks[u].body} = {w}

\* Undo takes back what its step did and nothing else: no block that came to
\* the week otherwise (from a phone, a reload, a later save) goes, and none
\* that went comes back.  A move made while edits were unsaved takes them into
\* its own step (`carried').
UndoTakesBackItsStep ==
  CanTravel(desk.undo) /\ desk.week \notin ghost.limbo /\ ~ghost.torn /\ ~ghost.misfiled =>
    LET e == Last(LiveSteps(desk.undo)).at[desk.week]
    IN   /\ desk.body \ e.before \subseteq (e.after \ e.before) \cup ghost.carried
         /\ e.before \ desk.body \subseteq e.before \ e.after

\* A save that repeats a block's id is refused each time it is sent.
Unstorable == desk.pending # None /\ \E wr \in desk.pending.writes : wr.twice

\* "The week saves itself shortly after each change": an unsaved week does not
\* stay so, the timer and the answers bring it to the store, or to a conflict the
\* student is told of.  Except that save() stops each time at a step it has no
\* revision for (`Unrevised').
UnsavedIsSaved == desk.dirty ~> (~desk.dirty \/ desk.conflict \/ Unstorable \/ Unrevised(desk))

\* The routes and the window together keep what RevisionedWeeks promises.
Register == INSTANCE RevisionedWeeks WITH Body <- SUBSET Block, Empty <- {}
ImplementsRegister == Register!Spec
=============================================================================
