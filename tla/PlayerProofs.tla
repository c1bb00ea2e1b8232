------------------------------- MODULE PlayerProofs -------------------------------
(***************************************************************************)
(* The page of the player is always the page of its position, for every    *)
(* trace and every interleaving of the reader with the play interval.      *)
(***************************************************************************)
EXTENDS Player, TLAPS

PlayerTypeOK ==
  /\ at \in Traces \ {<<>>}
  /\ page \in Page
  /\ timer \in Intervals \cup {NoTimer}

PlayerInv == PlayerTypeOK /\ PlayerConsistent

\* The positions of a trace that has steps.
LEMMA TraceFacts ==
  ASSUME PlayerTypeOK
  PROVE  /\ Last \in Nat
         /\ 0 \in Positions /\ Last \in Positions
         /\ \A i \in Positions : at[i + 1] \in Runs /\ i \in StepsOf(at[i + 1])
<1>1. at \in Seq(Runs) /\ at # <<>>  BY PlayerAssumption DEF PlayerTypeOK
<1>2. Len(at) \in Nat \ {0}  BY <1>1
<1> QED  BY <1>1, <1>2 DEF Last, Positions, StepsOf

\* Clamping leads to a position.
LEMMA ClampFacts ==
  ASSUME PlayerTypeOK, NEW i \in Int
  PROVE  Clamp(i) \in Positions
BY TraceFacts DEF Clamp, Positions

\* The buttons that are disabled are those that would not move.
LEMMA DisabledFacts ==
  ASSUME PlayerTypeOK, idx \in Positions
  PROVE  Disabled(idx) = {b \in DOMAIN Targets : Clamp(Targets[b]) = idx}
<1>1. Last \in Nat /\ idx \in Int /\ 0 <= idx /\ idx <= Last
  BY TraceFacts DEF Positions
<1>2. DOMAIN Targets = {"first", "prev", "next", "last"}  BY DEF Targets
<1>3. /\ Targets["first"] = 0 /\ Targets["prev"] = idx - 1
      /\ Targets["next"] = idx + 1 /\ Targets["last"] = Last
  BY DEF Targets
<1>4. /\ Clamp(0) = idx <=> idx = 0
      /\ Clamp(idx - 1) = idx <=> idx = 0
      /\ Clamp(idx + 1) = idx <=> idx = Last
      /\ Clamp(Last) = idx <=> idx = Last
  BY <1>1 DEF Clamp
<1> QED  BY <1>2, <1>3, <1>4 DEF Disabled

\* Moving draws the page of the new position.
LEMMA GotoKeeps ==
  ASSUME PlayerInv, NEW i \in Int, goto(i)
  PROVE  PlayerInv'
<1> DEFINE run == at[idx' + 1]
<1>1. /\ idx' \in Positions /\ at' = at /\ timer' = timer /\ live' = live
      /\ curRunIdx' = run /\ page' = Drawn(idx', page.playing)
  BY ClampFacts DEF goto, PlayerInv
<1>2. run \in Runs /\ idx' \in StepsOf(run)
  BY <1>1, TraceFacts DEF PlayerInv
<1>3. /\ StepsOf(curRunIdx) = page.ops /\ page.chip = curRunIdx
      /\ page.playing \in BOOLEAN /\ page.chip \in Runs
  BY DEF PlayerInv, PlayerTypeOK, PlayerConsistent, ShowsPosition, Page
<1>4. page' = [ops      |-> StepsOf(run),
               chip     |-> run,
               cur      |-> {idx'},
               slider   |-> idx',
               disabled |-> Disabled(idx'),
               playing  |-> page.playing]
  <2>1. (IF Entered(run) THEN StepsOf(run) ELSE page.ops) = StepsOf(run)
    BY <1>3 DEF Entered
  <2>2. (IF Entered(run) THEN run ELSE page.chip) = run
    BY <1>3 DEF Entered
  <2>3. StepsOf(run) \cap {idx'} = {idx'}
    BY <1>2
  <2> QED  BY <1>1, <2>1, <2>2, <2>3 DEF Drawn
<1>5. /\ Last' = Last /\ Positions' = Positions
      /\ \A r : StepsOf(r)' = StepsOf(r)
      /\ \A j : Disabled(j)' = Disabled(j)
  BY <1>1 DEF Last, Positions, StepsOf, Disabled
<1>6. page' \in Page
  <2>1. StepsOf(run) \in SUBSET Nat /\ {idx'} \in SUBSET Nat /\ idx' \in Int
    BY <1>1, TraceFacts DEF StepsOf, Positions, PlayerInv
  <2>2. Disabled(idx') \in SUBSET {"first", "prev", "next", "last"}
    BY DEF Disabled
  <2> QED  BY <1>2, <1>3, <1>4, <2>1, <2>2 DEF Page
<1>7. PlayerTypeOK'
  BY <1>1, <1>6 DEF PlayerInv, PlayerTypeOK
<1>8. Disabled(idx') = {b \in DOMAIN Targets : Clamp(Targets[b]) = idx}'
  <2>1. (idx \in Positions)'  BY <1>1, <1>5
  <2>2. (Disabled(idx) = {b \in DOMAIN Targets : Clamp(Targets[b]) = idx})'
    BY <1>7, <2>1, DisabledFacts, PTL
  <2> QED  BY <2>2, <1>5
<1>9. ShowsPosition'
  BY <1>1, <1>4, <1>5, <1>8 DEF ShowsPosition
<1>10. OneInterval'
  BY <1>1, <1>4 DEF PlayerInv, PlayerConsistent, OneInterval
<1> QED  BY <1>7, <1>9, <1>10 DEF PlayerInv, PlayerConsistent

\* Starting and stopping leave what is shown of the position.
LEMMA TogglingShows ==
  ASSUME PlayerInv, NEW playing \in BOOLEAN,
         page' = [page EXCEPT !.playing = playing],
         UNCHANGED <<at, idx, curRunIdx>>
  PROVE  ShowsPosition' /\ page' \in Page /\ page'.playing = playing
<1>1. page \in Page /\ ShowsPosition
  BY DEF PlayerInv, PlayerTypeOK, PlayerConsistent
<1>2. /\ page' \in Page /\ page'.playing = playing
      /\ page'.ops = page.ops /\ page'.chip = page.chip /\ page'.cur = page.cur
      /\ page'.slider = page.slider /\ page'.disabled = page.disabled
  BY <1>1 DEF Page
<1>3. /\ Last' = Last /\ Positions' = Positions
      /\ StepsOf(at[idx + 1])' = StepsOf(at[idx + 1])
      /\ {b \in DOMAIN Targets : Clamp(Targets[b]) = idx}'
           = {b \in DOMAIN Targets : Clamp(Targets[b]) = idx}
  BY DEF Last, Positions, StepsOf, Targets, Clamp
<1> QED  BY <1>1, <1>2, <1>3 DEF ShowsPosition

LEMMA StartKeeps ==
  ASSUME PlayerInv, timer = NoTimer, Start
  PROVE  PlayerInv'
<1>1. PICK id \in Intervals :
        /\ timer' = id /\ live' = live \cup {id}
        /\ page' = [page EXCEPT !.playing = TRUE]
        /\ UNCHANGED <<at, idx, curRunIdx>>
  BY DEF Start
<1>2. ShowsPosition' /\ page' \in Page /\ page'.playing = TRUE
  BY <1>1, TogglingShows
<1>3. timer' # NoTimer  BY <1>1, PlayerAssumption
<1>4. live' = {timer'}
  BY <1>1 DEF PlayerInv, PlayerConsistent, OneInterval
<1> QED  BY <1>1, <1>2, <1>3, <1>4
         DEF PlayerInv, PlayerTypeOK, PlayerConsistent, OneInterval

LEMMA StoppedKeeps ==
  ASSUME PlayerInv, Stopped
  PROVE  PlayerInv'
<1>1. ShowsPosition' /\ page' \in Page /\ page'.playing = FALSE
  BY TogglingShows DEF Stopped
<1>2. live' = {} /\ timer' = NoTimer /\ at' = at
  BY DEF Stopped, PlayerInv, PlayerConsistent, OneInterval
<1> QED  BY <1>1, <1>2
         DEF PlayerInv, PlayerTypeOK, PlayerConsistent, OneInterval

\* The page opens consistent.
LEMMA PlayerInitially ==
  ASSUME PlayerInit
  PROVE  PlayerInv
<1>1. at \in Traces \ {<<>>} /\ at \in Seq(Runs)
  BY PlayerAssumption DEF PlayerInit
<1>2. Len(at) \in Nat \ {0} /\ 0 \in Positions /\ at[1] \in Runs
  BY <1>1 DEF Positions, Last
<1>3. StepsOf(at[1]) \in SUBSET Nat /\ Disabled(0) \in SUBSET {"first", "prev", "next", "last"}
  BY <1>2 DEF StepsOf, Disabled, Positions, Last
<1>4. page \in Page
  BY <1>2, <1>3 DEF PlayerInit, Page
<1>5. PlayerTypeOK
  BY <1>1, <1>4 DEF PlayerInit, PlayerTypeOK
<1>6. ShowsPosition
  <2>1. idx \in Positions  BY <1>2 DEF PlayerInit
  <2>2. Disabled(idx) = {b \in DOMAIN Targets : Clamp(Targets[b]) = idx}
    BY <1>5, <2>1, DisabledFacts
  <2> QED  BY <2>1, <2>2 DEF PlayerInit, ShowsPosition
<1> QED  BY <1>5, <1>6 DEF PlayerInit, PlayerInv, PlayerConsistent, OneInterval

LEMMA PlayerStep ==
  ASSUME PlayerInv, [PlayerNext]_playerVars
  PROVE  PlayerInv'
<1>1. idx \in Int /\ Last \in Int /\ Positions \subseteq Int
  BY TraceFacts DEF PlayerInv, PlayerConsistent, ShowsPosition, Positions
<1>2. \A b \in DOMAIN Targets : Targets[b] \in Int
  BY <1>1 DEF Targets
<1>3. CASE \E b \in DOMAIN Targets : Button(b) \/ Key(b)
  BY <1>2, <1>3, GotoKeeps DEF Button, Key
<1>4. CASE \E value \in Slid : Slider(value)
  BY <1>1, <1>4, GotoKeeps DEF Slider
<1>5. CASE \E run \in Runs : Chip(run)
  BY <1>1, <1>5, GotoKeeps DEF Chip, StepsOf
<1>6. CASE Play
  BY <1>6, StartKeeps, StoppedKeeps DEF Play
<1>7. CASE \E id \in Intervals : Tick(id)
  <2>1. idx + 1 \in Int  BY <1>1
  <2> QED  BY <1>7, <2>1, GotoKeeps, StoppedKeeps DEF Tick
<1>8. CASE UNCHANGED playerVars
  BY <1>8 DEF playerVars, PlayerInv, PlayerTypeOK, PlayerConsistent, ShowsPosition,
              OneInterval, Last, Positions, StepsOf, Targets, Clamp
<1> QED  BY <1>3, <1>4, <1>5, <1>6, <1>7, <1>8 DEF PlayerNext, Reader

\* However the reader and the ticks interleave, the page shows the current
\* position and only the interval that the play button would clear is live
\* (viewer.html, render and play), for every trace.
THEOREM PageIsConsistent == PlayerSpec => []PlayerConsistent
<1>1. PlayerInit => PlayerInv  BY PlayerInitially
<1>2. PlayerInv /\ [PlayerNext]_playerVars => PlayerInv'  BY PlayerStep
<1>3. PlayerInv => PlayerConsistent  BY DEF PlayerInv
<1> QED  BY <1>1, <1>2, <1>3, PTL DEF PlayerSpec
==============================================================================
