---------------------------------- MODULE Player ----------------------------------
(***************************************************************************)
(* The player of the HTML viewer: one position among the recorded steps,   *)
(* moved by buttons, keys, the slider, the chips of the runs and the ticks *)
(* of the play interval, in any order.  The page is not drawn from         *)
(* scratch: the operations of a run are listed again only when the         *)
(* position enters another run.                                            *)
(*                                                                         *)
(* Positions start at 0 as in the viewer and at[i + 1] is the run of the   *)
(* step at position i.  A run without operations has a chip and no step.   *)
(***************************************************************************)
EXTENDS Integers, Sequences

CONSTANTS
  Traces,        \* the runs of each step, for every trace that is viewed
  Runs,          \* run.index of every run, those without steps included
  Intervals,     \* what setInterval returns
  NoTimer,       \* null
  Slid           \* the values the user drags the slider to

ASSUME PlayerAssumption ==
  /\ Runs \subseteq Nat
  /\ \A trace \in Traces :
       /\ trace \in Seq(Runs)
       /\ \A i, j \in DOMAIN trace : i <= j => trace[i] <= trace[j]
  /\ NoTimer \notin Intervals
  /\ Slid \subseteq Int

VARIABLES
  at,
  idx,
  curRunIdx,
  page,          \* what the reader sees
  timer,
  live           \* the intervals that keep ticking

playerVars == <<at, idx, curRunIdx, page, timer, live>>

Last == Len(at) - 1
Positions == 0..Last
StepsOf(run) == {i \in Positions : at[i + 1] = run}

Page == [ops : SUBSET Nat, chip : Runs, cur : SUBSET Nat, slider : Int,
         disabled : SUBSET {"first", "prev", "next", "last"}, playing : BOOLEAN]

Disabled(i) ==
  (IF i = 0 THEN {"first", "prev"} ELSE {})
    \cup (IF i = Last THEN {"next", "last"} ELSE {})

\* Mutant: the operations are listed again only when a later run is entered.
Entered_Later(run) == run > curRunIdx

Entered(run) == run # curRunIdx

\* render, with the play button left alone.
Drawn(i, playing) ==
  LET run == at[i + 1]
      ops == IF Entered(run) THEN StepsOf(run) ELSE page.ops
  IN  [ops      |-> ops,
       chip     |-> IF Entered(run) THEN run ELSE page.chip,
       cur      |-> ops \cap {i},
       slider   |-> i,
       disabled |-> Disabled(i),
       playing  |-> playing]

Clamp(i) == IF i < 0 THEN 0 ELSE IF i > Last THEN Last ELSE i

goto(i) ==
  /\ idx' = Clamp(i)
  /\ curRunIdx' = at[idx' + 1]
  /\ page' = Drawn(idx', page.playing)
  /\ UNCHANGED <<at, timer, live>>

--------------------------------------------------------------------------------
\* Without steps the viewer shows the transaction and adds no controls, so a
\* trace has at least one.
PlayerInit ==
  /\ at \in Traces \ {<<>>}
  /\ idx = 0
  /\ curRunIdx = at[1]
  /\ page = [ops |-> StepsOf(at[1]), chip |-> at[1], cur |-> {0}, slider |-> 0,
             disabled |-> Disabled(0), playing |-> FALSE]
  /\ timer = NoTimer
  /\ live = {}

Targets == [first |-> 0, prev |-> idx - 1, next |-> idx + 1, last |-> Last]

\* A disabled button takes no clicks.  Its key is not disabled.
Button(b) == b \notin page.disabled /\ goto(Targets[b])

Key(b) == goto(Targets[b])

Slider(value) == value \in Positions /\ goto(value)

\* A chip leads to the first step of its run, if it has one.
Chip(run) ==
  \E i \in StepsOf(run) :
    /\ \A j \in StepsOf(run) : i <= j
    /\ goto(i)

Stopped ==
  /\ live' = live \ {timer}
  /\ timer' = NoTimer
  /\ page' = [page EXCEPT !.playing = FALSE]
  /\ UNCHANGED <<at, idx, curRunIdx>>

Start ==
  \E id \in Intervals \ live :
    /\ timer' = id
    /\ live' = live \cup {id}
    /\ page' = [page EXCEPT !.playing = TRUE]
    /\ UNCHANGED <<at, idx, curRunIdx>>

\* Mutant: playing starts another interval.
Play_Again == Start

\* The play button, and the space bar.
Play == IF timer = NoTimer THEN Start ELSE Stopped

\* Mutant: the tick at the last step forgets to clear its interval.
Tick_Runs(id) == id \in live /\ goto(idx + 1)

\* The callback of an interval stops the interval that timer names.
Tick(id) ==
  /\ id \in live
  /\ IF idx >= Last THEN Stopped ELSE goto(idx + 1)

Reader ==
  \/ \E b \in DOMAIN Targets : Button(b) \/ Key(b)
  \/ \E value \in Slid : Slider(value)
  \/ \E run \in Runs : Chip(run)
  \/ Play

PlayerNext ==
  \/ Reader
  \/ \E id \in Intervals : Tick(id)

\* An interval that is not cleared keeps firing.
PlayerSpec ==
  /\ PlayerInit /\ [][PlayerNext]_playerVars
  /\ \A id \in Intervals : WF_playerVars(Tick(id))

--------------------------------------------------------------------------------
\* What is on the page is drawn for the current position: the operations and
\* the chip of its run, one highlighted line, the slider, and exactly the
\* buttons that would not move are disabled.
ShowsPosition ==
  /\ idx \in Positions
  /\ curRunIdx = at[idx + 1]
  /\ page.ops = StepsOf(at[idx + 1])
  /\ page.chip = at[idx + 1]
  /\ page.cur = {idx}
  /\ page.slider = idx
  /\ page.disabled = {b \in DOMAIN Targets : Clamp(Targets[b]) = idx}

\* The interval that ticks is the one that the play button would clear, and
\* the button says so.
OneInterval ==
  /\ live = (IF timer = NoTimer THEN {} ELSE {timer})
  /\ page.playing <=> timer # NoTimer

\* However buttons, keys, slider, chips and ticks interleave, the page shows the
\* step at the current position and nothing left of another run, and no interval
\* keeps moving it once playing has stopped (viewer.html, render and play).
PlayerConsistent == ShowsPosition /\ OneInterval

\* Once the reader leaves the page alone, playing ends and no interval is left
\* behind, from whatever position and run (viewer.html, the callback of
\* setInterval).
PlayEnds ==
  (<>[][\E id \in Intervals : Tick(id)]_playerVars)
    => <>[](timer = NoTimer /\ live = {})
==============================================================================
