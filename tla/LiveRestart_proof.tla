------------------------- MODULE LiveRestart_proof -------------------------
(***************************************************************************)
(* Proofs about the countdown: the sync (PcoSync), the takes (ItemTimers)  *)
(* and the restart (LiveRestart), for any rundown and any bounds.          *)
(*                                                                         *)
(* Pending says why the newest take decides: as long as a countdown names  *)
(* another row, the call of the newest take is still on its way.  TakeOrder *)
(* says why an older call that ends later does not undo it.                *)
(***************************************************************************)
EXTENDS LiveRestart, TLAPS

\* A countdown a take set.
FromTake(v) == v # None /\ v.source = "item"

\* No poll was asked in a generation to come.
FutureUnasked == \A g \in 0 .. MaxGeneration : g > generation => asked[g] = 0

Sync == PcoTypeOK /\ OnePollLoop /\ FutureUnasked /\ LiveSyncOwnsTimer

\* Takes are numbered apart.  One whose channel was found to be followed is
\* not newer than the newest; one still to be looked at is not the newest.
TakeOrder ==
  /\ newest.seq <= takeSeq
  /\ \A t \in takes :
       /\ t.seq <= takeSeq
       /\ \A u \in takes : u.seq = t.seq => u = t
       /\ IF t.at = "followed"
            THEN t.seq # newest.seq
            ELSE /\ t.seq <= newest.seq
                 /\ t.seq = newest.seq => t.row = newest.row

Calls == /\ takeSeq \in 0 .. MaxTakes
         /\ newest \in [seq : 0 .. MaxTakes, row : Rows \cup {None}]
         /\ takes \in SUBSET TakeCalls
         /\ TakeOrder

Screens == air \in [Channels -> Screen] /\ ends \in SUBSET EndCalls

\* The call of the newest take is past its first read.
NewestUnderWay ==
  \E t \in takes : /\ t.seq = newest.seq /\ t.row = newest.row
                   /\ t.at # "followed"

Pending == FromTake(timer) /\ newest.row # None /\ timer.row # newest.row
             => NewestUnderWay

\* Without the setting no take starts a countdown.
SettingOff ==
  ~AutoItemTimer => /\ ~FromTake(timer) /\ ~FromTake(snapshot)
                    /\ \A t \in takes : t.at \in {"followed", "settings"}

Saved == snapshot \in Timers \cup {None} /\ restarts \in 0 .. MaxRestarts

IInv == Sync /\ Calls /\ Screens /\ Pending /\ SettingOff /\ Saved

\* The step starts no take-based countdown.
StartsNone == FromTake(timer') => timer' = timer

LEMMA Typed == IInv => LiveTypeOK
BY DEF IInv, Sync, Calls, Screens, Saved, LiveTypeOK, TypeOK

LEMMA InitHolds == LiveInit => IInv
<1> SUFFICES ASSUME LiveInit PROVE IInv
  OBVIOUS
<1> USE ItemTimersAssumption, RestartAssumption
<1>1. Sync
  <2>1. /\ timer = None /\ sync = Off /\ generation = 0 /\ pollDue = FALSE
        /\ asked = [g \in 0 .. MaxGeneration |-> 0] /\ starts = {}
    BY DEF LiveInit, Init, PcoInit
  <2>2. sync.show = None /\ sync.view = None /\ sync.error = "none"
    BY <2>1 DEF Off
  <2>3. sync \in [show : Shows \cup {None}, view : Views \cup {None}, error : Errors]
    BY <2>1 DEF Off, Errors
  <2>4. PcoTypeOK /\ FutureUnasked
    <3>1. asked \in [0 .. MaxGeneration -> Nat]
      BY <2>1
    <3>2. MaxGeneration \in Nat /\ generation \in 0 .. MaxGeneration
      BY <2>1
    <3>3. FutureUnasked
      BY <2>1 DEF FutureUnasked
    <3>. QED
      BY <2>1, <2>3, <3>1, <3>2, <3>3 DEF PcoTypeOK
  <2>5. OnePollLoop
    BY <2>1, <2>2 DEF OnePollLoop, Enabled
  <2>6. LiveSyncOwnsTimer
    BY <2>1 DEF LiveSyncOwnsTimer
  <2>. QED
    BY <2>4, <2>5, <2>6 DEF Sync
<1>2. Calls
  BY DEF LiveInit, Init, Calls, TakeOrder
<1>3. Screens
  BY DEF LiveInit, Init, Screens, Screen, Dark
<1>4. Pending /\ SettingOff /\ Saved
  BY DEF LiveInit, Init, PcoInit, Pending, SettingOff, Saved, FromTake
<1>. QED
  BY <1>1, <1>2, <1>3, <1>4 DEF IInv

----------------------------------------------------------------------------
\* The sync.

LEMMA TimerTyped ==
  /\ \A r \in Rows : Timer("item", r) \in Timers
  /\ \A i \in Items : Timer("pco", i) \in Timers
BY DEF Timer, Timers

LEMMA StartKeeps ==
  ASSUME Sync, NEW r, Start(r)
  PROVE  Sync' /\ StartsNone
<1> USE ItemTimersAssumption
<1> DEFINE carried == Enabled /\ sync.show = r.show
<1>1. r \in Starts /\ r.show \in Shows /\ r.show # None
  BY DEF Start, Sync, PcoTypeOK, Starts
<1>2. generation' = generation + 1 /\ generation' \in 0 .. MaxGeneration
      /\ generation \in Nat
  BY DEF Start, CancelLoop, Sync, PcoTypeOK
<1>3. timer' = timer \/ timer' = None
  BY DEF Start, ClearItem
<1>4. sync' = [show |-> r.show, error |-> "none",
               view |-> IF carried THEN sync.view ELSE None]
  BY DEF Start
<1>5. asked' = [asked EXCEPT ![generation'] = @ + 1] /\ ~pollDue' /\ pollDue' \in BOOLEAN
  BY DEF Start, CancelLoop
<1>6. asked[generation'] = 0
  BY <1>2 DEF Sync, FutureUnasked
<1>7. PcoTypeOK'
  <2>1. asked' \in [0 .. MaxGeneration -> Nat]
    BY <1>2, <1>5, <1>6 DEF Sync, PcoTypeOK
  <2>2. sync' \in [show : Shows \cup {None}, view : Views \cup {None}, error : Errors]
    BY <1>1, <1>4 DEF Sync, PcoTypeOK, Errors
  <2>3. starts' \in SUBSET Starts
    BY DEF Start, Sync, PcoTypeOK
  <2>. QED
    BY <1>2, <1>3, <1>5, <2>1, <2>2, <2>3 DEF Sync, PcoTypeOK
<1>8. OnePollLoop'
  <2>1. asked'[generation'] = 1
    BY <1>2, <1>5, <1>6 DEF Sync, PcoTypeOK
  <2>. QED
    BY <1>1, <1>4, <1>5, <2>1 DEF OnePollLoop, Enabled
<1>9. FutureUnasked'
  BY <1>2, <1>5 DEF Sync, PcoTypeOK, FutureUnasked
<1>10. LiveSyncOwnsTimer'
  <2>1. CASE carried
    BY <1>1, <1>3, <1>4, <2>1 DEF Sync, LiveSyncOwnsTimer, External, Enabled
  <2>2. CASE ~carried
    BY <1>4, <2>2 DEF LiveSyncOwnsTimer, External
  <2>. QED
    BY <2>1, <2>2
<1>. QED
  BY <1>3, <1>7, <1>8, <1>9, <1>10 DEF Sync, StartsNone, FromTake

LEMMA StopKeeps ==
  ASSUME Sync, generation < MaxGeneration, Stop
  PROVE  Sync' /\ StartsNone
<1> USE ItemTimersAssumption
<1>1. generation' = generation + 1 /\ generation' \in 0 .. MaxGeneration
      /\ generation \in Nat /\ pollDue' = FALSE /\ asked' = asked
      /\ starts' = starts /\ sync' = Off
  BY DEF Stop, CancelLoop, Sync, PcoTypeOK
<1>2. timer' = timer \/ timer' = None
  BY DEF Stop, ClearItem
<1>3. PcoTypeOK'
  BY <1>1, <1>2 DEF Sync, PcoTypeOK, Off, Errors
<1>4. asked[generation'] = 0
  BY <1>1 DEF Sync, FutureUnasked
<1>5. OnePollLoop' /\ LiveSyncOwnsTimer'
  BY <1>1, <1>4 DEF OnePollLoop, LiveSyncOwnsTimer, Enabled, External, Off
<1>6. FutureUnasked'
  BY <1>1 DEF Sync, FutureUnasked
<1>. QED
  BY <1>2, <1>3, <1>5, <1>6 DEF Sync, StartsNone, FromTake

\* An answer of the current generation was the one poll of the loop.
LEMMA AnswerEndsThePoll ==
  ASSUME Sync, Answered
  PROVE  /\ asked' \in [0 .. MaxGeneration -> Nat]
         /\ asked'[generation'] = 0 /\ ~pollDue
         /\ Enabled /\ sync.error # "refused"
         /\ FutureUnasked'
<1>1. asked \in [0 .. MaxGeneration -> Nat] /\ generation \in 0 .. MaxGeneration
      /\ generation' = generation /\ generation \in Nat
  BY DEF Sync, PcoTypeOK, Answered
<1>2. asked[generation] > 0 /\ asked[generation] \in Nat
  BY <1>1 DEF Answered
<1>3. Enabled /\ sync.error # "refused" /\ asked[generation] = 1 /\ ~pollDue
  BY <1>2 DEF Sync, OnePollLoop
<1>4. asked' = [asked EXCEPT ![generation] = 0]
  BY <1>1, <1>3 DEF Answered
<1>. QED
  BY <1>1, <1>3, <1>4 DEF Sync, FutureUnasked

LEMMA PollKeeps ==
  ASSUME Sync,
         PollSucceeds \/ PollRefused \/ PollNotUnderstood \/ PollFails
  PROVE  Sync' /\ StartsNone
<1> USE ItemTimersAssumption
<1>0. Answered /\ generation' = generation /\ starts' = starts
  BY DEF PollSucceeds, PollRefused, PollNotUnderstood, PollFails, Answered
<1>1. /\ asked' \in [0 .. MaxGeneration -> Nat]
      /\ asked'[generation'] = 0 /\ ~pollDue
      /\ Enabled /\ sync.error # "refused" /\ FutureUnasked'
  BY <1>0, AnswerEndsThePoll
<1>2. sync \in [show : Shows \cup {None}, view : Views \cup {None}, error : Errors]
      /\ sync.show # None /\ timer \in Timers \cup {None}
  BY <1>1 DEF Sync, PcoTypeOK, Enabled
<1> DEFINE Synced == sync' \in [show : Shows \cup {None}, view : Views \cup {None},
                                error : Errors]
<1>3. CASE PollSucceeds
  <2>1. PICK view \in {NotLive} \cup {Live(i) : i \in Items \cup {None}} :
          /\ sync' = [sync EXCEPT !.view = view, !.error = "none"]
          /\ DriveItemTimer(view)
    BY <1>3 DEF PollSucceeds
  <2>2. view \in Views /\ view.item \in Items \cup {None} /\ pollDue' = TRUE
    <3>1. pollDue' = TRUE
      BY <1>3 DEF PollSucceeds
    <3>2. CASE view = NotLive
      BY <3>1, <3>2 DEF NotLive, Views
    <3>3. ASSUME NEW i \in Items \cup {None}, view = Live(i)
          PROVE  view \in Views /\ view.item \in Items \cup {None}
      BY <3>3 DEF Live, Views
    <3>. QED
      BY <2>1, <3>1, <3>2, <3>3
  <2>3. Synced /\ sync'.view = view /\ sync'.error = "none" /\ sync'.show # None
    BY <1>2, <2>1, <2>2 DEF Errors
  <2>4. \/ timer' = timer /\ view.status # "live"
        \/ timer' = None
        \/ timer' = Timer("pco", view.item) /\ view.item \in Items
    BY <2>1, <2>2 DEF DriveItemTimer, ClearItem
  <2>5. timer' \in Timers \cup {None} /\ StartsNone
    BY <1>2, <2>4, TimerTyped DEF StartsNone, FromTake, Timer
  <2>6. LiveSyncOwnsTimer'
    BY <2>3, <2>4 DEF LiveSyncOwnsTimer, External
  <2>7. OnePollLoop'
    BY <1>1, <2>2, <2>3 DEF OnePollLoop, Enabled
  <2>. QED
    BY <1>0, <1>1, <2>2, <2>3, <2>5, <2>6, <2>7 DEF Sync, PcoTypeOK
<1>4. ASSUME NEW e \in {"refused", "notUnderstood"}, Fail(e),
             e = "refused" => UNCHANGED pollDue,
             e = "notUnderstood" => pollDue' = TRUE
      PROVE  Sync' /\ StartsNone
  <2>1. sync' = [sync EXCEPT !.error = e,
                   !.view = IF @ = None THEN None ELSE [@ EXCEPT !.status = "error"]]
    BY <1>4 DEF Fail
  <2>2. Synced /\ sync'.error = e /\ sync'.show # None
    BY <1>2, <2>1 DEF Errors, Views
  <2>3. sync'.view # None => sync'.view.status = "error"
    BY <1>2, <2>1 DEF Views
  <2>4. timer' = timer \/ timer' = None
    BY <1>4 DEF Fail, ClearItem
  <2>5. LiveSyncOwnsTimer'
    BY <2>3 DEF LiveSyncOwnsTimer, External
  <2>6. pollDue' \in BOOLEAN /\ OnePollLoop'
    <3>1. CASE e = "refused"
      <4>1. pollDue' = pollDue
        BY <1>4, <3>1
      <4>. QED
        BY <1>1, <2>2, <3>1, <4>1 DEF Sync, PcoTypeOK, OnePollLoop
    <3>2. CASE e = "notUnderstood"
      BY <1>1, <1>4, <2>2, <3>2 DEF OnePollLoop, Enabled
    <3>. QED
      BY <3>1, <3>2
  <2>. QED
    BY <1>0, <1>1, <1>2, <2>2, <2>4, <2>5, <2>6
    DEF Sync, PcoTypeOK, StartsNone, FromTake
<1>5. CASE PollFails
  <2>1. sync' = [sync EXCEPT !.error = "network"] /\ pollDue' = TRUE /\ timer' = timer
    BY <1>5 DEF PollFails
  <2>2. Synced /\ sync'.error = "network" /\ sync'.show = sync.show
        /\ sync'.view = sync.view
    BY <1>2, <2>1 DEF Errors
  <2>3. OnePollLoop' /\ LiveSyncOwnsTimer'
    BY <1>1, <1>2, <2>1, <2>2 DEF Sync, OnePollLoop, LiveSyncOwnsTimer, Enabled,
       External
  <2>. QED
    BY <1>0, <1>1, <1>2, <2>1, <2>2, <2>3 DEF Sync, PcoTypeOK, StartsNone
<1>. QED
  BY <1>3, <1>4, <1>5 DEF PollRefused, PollNotUnderstood

LEMMA SyncKeeps ==
  ASSUME Sync, PcoNext
  PROVE  Sync' /\ StartsNone
<1>1. ASSUME NEW s \in Shows, StartLiveSync(s)
      PROVE  Sync' /\ StartsNone
  BY <1>1 DEF StartLiveSync, Sync, PcoTypeOK, Starts, OnePollLoop, FutureUnasked,
     LiveSyncOwnsTimer, Enabled, External, StartsNone
<1>2. ASSUME NEW r, StartDropped(r)
      PROVE  Sync' /\ StartsNone
  BY <1>2 DEF StartDropped, Sync, PcoTypeOK, OnePollLoop, FutureUnasked,
     LiveSyncOwnsTimer, Enabled, External, StartsNone
<1>3. CASE DeleteTimer
  BY <1>3 DEF DeleteTimer, Sync, PcoTypeOK, OnePollLoop, FutureUnasked,
     LiveSyncOwnsTimer, Enabled, External, StartsNone, FromTake
<1>4. CASE PollTimer
  <2>1. asked \in [0 .. MaxGeneration -> Nat] /\ generation \in 0 .. MaxGeneration
        /\ generation \in Nat
    BY DEF Sync, PcoTypeOK
  <2>2. asked[generation] = 0 /\ Enabled /\ sync.error # "refused"
    BY <1>4, <2>1 DEF PollTimer, Sync, OnePollLoop
  <2>3. asked' = [asked EXCEPT ![generation] = 1]
    BY <1>4, <2>1, <2>2 DEF PollTimer
  <2>4. OnePollLoop' /\ FutureUnasked'
    BY <1>4, <2>1, <2>2, <2>3 DEF PollTimer, Sync, OnePollLoop, FutureUnasked,
       Enabled
  <2>5. asked' \in [0 .. MaxGeneration -> Nat]
    BY <2>1, <2>3
  <2>6. PcoTypeOK' /\ LiveSyncOwnsTimer' /\ StartsNone
    BY <1>4, <2>5 DEF PollTimer, Sync, PcoTypeOK, LiveSyncOwnsTimer, Enabled,
       External, StartsNone
  <2>. QED
    BY <2>4, <2>6 DEF Sync
<1>5. ASSUME NEW g \in 0 .. MaxGeneration, PollIgnored(g)
      PROVE  Sync' /\ StartsNone
  <2>1. asked \in [0 .. MaxGeneration -> Nat] /\ generation \in 0 .. MaxGeneration
    BY DEF Sync, PcoTypeOK
  <2>2. /\ asked[g] \in Nat /\ asked[g] > 0 /\ g # generation
        /\ asked' = [asked EXCEPT ![g] = asked[g] - 1]
        /\ UNCHANGED <<timer, sync, generation, pollDue, starts>>
    BY <1>5, <2>1 DEF PollIgnored
  <2>3. asked' \in [0 .. MaxGeneration -> Nat] /\ asked'[generation'] = asked[generation]
    BY <2>1, <2>2
  <2>4. FutureUnasked'
    BY <2>1, <2>2 DEF Sync, FutureUnasked
  <2>. QED
    BY <2>2, <2>3, <2>4 DEF Sync, PcoTypeOK, OnePollLoop, LiveSyncOwnsTimer,
       Enabled, External, StartsNone
<1>. QED
  BY <1>1, <1>2, <1>3, <1>4, <1>5, StartKeeps, StopKeeps, PollKeeps
  DEF PcoNext, StopLiveSync

----------------------------------------------------------------------------
\* Steps of the takes.  Those that leave the calls and the sync alone:

LEMMA RowsOfScreens ==
  ASSUME NEW s \in Screen
  PROVE  RowsOnAir(s) \subseteq Rows
BY ItemTimersAssumption DEF Screen, RowsOnAir

LEMMA AirsKeeps ==
  ASSUME Screens, NEW c \in Channels, NEW s \in Screen,
         NEW seq \in 0 .. MaxTakes, Airs(c, s, seq)
  PROVE  Screens'
<1>1. air[c] \in Screen
  BY DEF Screens
<1>2. air' \in [Channels -> Screen]
  BY DEF Airs, Screens
<1>3. Ended(air[c], s) \subseteq Rows
  BY <1>1, RowsOfScreens DEF Ended
<1>4. \A r \in Ended(air[c], s) : [seq |-> seq, channel |-> c, row |-> r] \in EndCalls
  BY <1>3 DEF EndCalls
<1>5. ends' \in SUBSET EndCalls
  BY <1>4 DEF Airs, Screens
<1>. QED
  BY <1>2, <1>5 DEF Screens

\* What a step does not touch it keeps.
LEMMA SyncStays ==
  ASSUME Sync, UNCHANGED pcoVars
  PROVE  Sync'
BY DEF pcoVars, Sync, PcoTypeOK, OnePollLoop, FutureUnasked, LiveSyncOwnsTimer,
   Enabled, External

LEMMA CallsStay ==
  ASSUME Calls, UNCHANGED <<takeSeq, newest, takes>>
  PROVE  Calls'
BY DEF Calls, TakeOrder

\* No call moves and no take-based countdown starts.
LEMMA PendingStays ==
  ASSUME Pending, SettingOff, StartsNone,
         UNCHANGED <<newest, takes, snapshot>>
  PROVE  Pending' /\ SettingOff'
<1>1. Pending'
  BY DEF Pending, StartsNone, NewestUnderWay, FromTake
<1>2. SettingOff'
  BY DEF SettingOff, StartsNone, FromTake
<1>. QED
  BY <1>1, <1>2

LEMMA SavedStays ==
  ASSUME Saved, UNCHANGED <<snapshot, restarts>>
  PROVE  Saved'
BY DEF Saved

LEMMA SyncSteps ==
  ASSUME IInv, PcoNext, UNCHANGED takeVars, UNCHANGED <<snapshot, restarts>>
  PROVE  IInv'
<1>1. Sync' /\ StartsNone
  BY SyncKeeps DEF IInv
<1>2. Calls' /\ Screens' /\ Saved'
  BY CallsStay, SavedStays DEF IInv, takeVars, Screens
<1>3. Pending' /\ SettingOff'
  BY <1>1, PendingStays DEF IInv, takeVars
<1>. QED
  BY <1>1, <1>2, <1>3 DEF IInv

\* The screen of a channel changes without a take.
LEMMA ChangesKeeps ==
  ASSUME IInv, NEW c \in Channels,
         ClearGraphic(c) \/ AutoOut(c) \/ Sweep(c) \/ ClipEnds(c),
         UNCHANGED <<snapshot, restarts>>
  PROVE  IInv'
<1>1. air[c] \in Screen /\ takeSeq \in 0 .. MaxTakes
  BY DEF IInv, Screens, Calls
<1>2. PICK s \in Screen : Changes(c, s)
  <2>1. /\ [air[c] EXCEPT !.graphic = None] \in Screen
        /\ [air[c] EXCEPT !.fading = TRUE] \in Screen
        /\ [air[c] EXCEPT !.graphic = None, !.fading = FALSE] \in Screen
        /\ [air[c] EXCEPT !.clip = None] \in Screen
    BY <1>1 DEF Screen
  <2>. QED
    BY <2>1 DEF ClearGraphic, AutoOut, Sweep, ClipEnds
<1>3. Airs(c, s, takeSeq) /\ UNCHANGED <<pcoVars, takeSeq, newest, takes>>
  BY <1>2 DEF Changes
<1>4. Screens'
  BY <1>1, <1>3, AirsKeeps DEF IInv
<1>5. StartsNone
  BY <1>3 DEF StartsNone, pcoVars
<1>. QED
  BY <1>3, <1>4, <1>5, SyncStays, CallsStay, PendingStays, SavedStays DEF IInv

\* A take: one more call, the last of all, still to be looked at.
LEMMA TakeKeeps ==
  ASSUME IInv, NEW c \in Channels, NEW r \in Rows, Take(c, r),
         UNCHANGED <<snapshot, restarts>>
  PROVE  IInv'
<1> DEFINE call == [seq |-> takeSeq', channel |-> c, row |-> r, at |-> "followed"]
<1>1. /\ takeSeq \in 0 .. MaxTakes /\ takeSeq' = takeSeq + 1
      /\ takeSeq' \in 0 .. MaxTakes /\ takeSeq' > 0
      /\ takes' = takes \cup {call} /\ newest' = newest
  BY ItemTimersAssumption DEF Take, IInv, Calls
<1>2. Sync' /\ StartsNone
  <2>1. CASE UNCHANGED pcoVars
    BY <2>1, SyncStays DEF IInv, StartsNone, pcoVars
  <2>2. CASE generation < MaxGeneration /\ Stop
    BY <2>2, StopKeeps DEF IInv
  <2>. QED
    BY <2>1, <2>2 DEF Take
<1>3. Screens'
  <2>1. air[c] \in Screen
    BY DEF IInv, Screens
  <2>2. /\ r \in Clips => [air[c] EXCEPT !.clip = r] \in Screen
        /\ [air[c] EXCEPT !.graphic = r, !.fading = FALSE] \in Screen
    BY <2>1 DEF Screen
  <2>3. PICK s \in Screen : Airs(c, s, takeSeq')
    BY <2>2 DEF Take
  <2>. QED
    BY <1>1, <2>3, AirsKeeps DEF IInv
<1>4. Calls'
  <2>1. call \in TakeCalls
    BY <1>1 DEF TakeCalls
  <2>2. \A t \in takes : t.seq \in Nat /\ t.seq <= takeSeq
    BY DEF IInv, Calls, TakeOrder, TakeCalls
  <2>3. newest.seq \in Nat /\ newest.seq <= takeSeq
    BY DEF IInv, Calls, TakeOrder
  <2>4. TakeOrder'
    <3>1. newest'.seq <= takeSeq'
      BY <1>1, <2>3
    <3>2. ASSUME NEW t \in takes'
          PROVE  /\ t.seq <= takeSeq'
                 /\ \A u \in takes' : u.seq = t.seq => u = t
                 /\ IF t.at = "followed"
                      THEN t.seq # newest'.seq
                      ELSE /\ t.seq <= newest'.seq
                           /\ t.seq = newest'.seq => t.row = newest'.row
      <4>1. CASE t \in takes
        BY <1>1, <2>2, <4>1 DEF IInv, Calls, TakeOrder
      <4>2. CASE t = call
        BY <1>1, <2>2, <2>3, <4>2
      <4>. QED
        BY <1>1, <4>1, <4>2
    <3>. QED
      BY <3>1, <3>2 DEF TakeOrder
  <2>. QED
    BY <1>1, <2>1, <2>4 DEF IInv, Calls
<1>5. Pending'
  <2>1. NewestUnderWay => NewestUnderWay'
    BY <1>1 DEF NewestUnderWay
  <2>. QED
    BY <1>1, <1>2, <2>1 DEF IInv, Pending, StartsNone, FromTake
<1>6. SettingOff'
  <2>1. ~AutoItemTimer => \A t \in takes' : t.at \in {"followed", "settings"}
    BY <1>1 DEF IInv, SettingOff
  <2>. QED
    BY <1>2, <2>1 DEF IInv, SettingOff, StartsNone, FromTake
<1>. QED
  BY <1>2, <1>3, <1>4, <1>5, <1>6, SavedStays DEF IInv

----------------------------------------------------------------------------
\* The reads of onRowTaken.

\* A call that moves past its first read, or one that was past it and moves or
\* returns, leaves the order of the takes as it was.
LEMMA MovesKeepOrder ==
  ASSUME Calls, NEW t \in takes, t.at # "followed",
         NEW step \in {"settings", "show", "lookup"},
         At(t, step) \/ Returns(t), UNCHANGED <<takeSeq, newest>>
  PROVE  Calls'
<1> DEFINE moved == [t EXCEPT !.at = step]
<1>1. t \in TakeCalls
  BY DEF Calls
<1>2. moved \in TakeCalls /\ moved.seq = t.seq /\ moved.row = t.row
      /\ moved.at # "followed"
  BY <1>1 DEF TakeCalls
<1>3. takes' \subseteq (takes \ {t}) \cup {moved}
  BY DEF At, Returns
<1> HIDE DEF moved
<1>4. TakeOrder'
  BY <1>2, <1>3 DEF Calls, TakeOrder
<1>. QED
  BY <1>2, <1>3, <1>4 DEF Calls

LEMMA MovesKeepNewest ==
  ASSUME Calls, NEW t \in takes, NEW step \in {"settings", "show", "lookup"},
         At(t, step), UNCHANGED newest, NewestUnderWay
  PROVE  NewestUnderWay'
<1> DEFINE moved == [t EXCEPT !.at = step]
<1>1. moved.seq = t.seq /\ moved.row = t.row /\ moved.at # "followed"
  BY DEF Calls, TakeCalls
<1>2. moved \in takes' /\ \A u \in takes : u # t => u \in takes'
  BY DEF At
<1> HIDE DEF moved
<1>3. PICK u \in takes : /\ u.seq = newest.seq /\ u.row = newest.row
                         /\ u.at # "followed"
  BY DEF NewestUnderWay
<1>. QED
  BY <1>1, <1>2, <1>3 DEF NewestUnderWay

LEMMA FollowedKeeps ==
  ASSUME IInv, NEW t \in takes, FollowedRead(t), UNCHANGED <<snapshot, restarts>>
  PROVE  IInv'
<1> DEFINE moved == [t EXCEPT !.at = "settings"]
<1>0. UNCHANGED <<pcoVars, air, takeSeq, ends>> /\ t.at = "followed"
  BY DEF FollowedRead
<1>1. t \in TakeCalls /\ t.seq \in Nat /\ t.seq <= takeSeq /\ t.row \in Rows
      /\ t.seq \in 0 .. MaxTakes /\ t.seq # newest.seq /\ newest.seq \in Nat
  BY <1>0 DEF IInv, Calls, TakeOrder, TakeCalls
<1>2. moved \in TakeCalls /\ moved.seq = t.seq /\ moved.row = t.row
      /\ moved.at = "settings"
  BY <1>1 DEF TakeCalls
<1>3. \A u \in takes : u.seq \in Nat
  BY DEF IInv, Calls, TakeCalls
<1>4. Sync' /\ Screens' /\ Saved' /\ UNCHANGED timer
  BY <1>0, SyncStays, SavedStays DEF IInv, Screens, pcoVars
<1>5. takes' \subseteq (takes \ {t}) \cup {moved}
  BY DEF FollowedRead, At, Returns
<1>6. \A u \in takes : u # t => u \in takes'
  BY DEF FollowedRead, At, Returns
<1>7. \/ newest' = newest /\ takes' = takes \ {t}
      \/ newest' = newest /\ t.seq < newest.seq
      \/ newest' = [seq |-> t.seq, row |-> t.row] /\ t.seq > newest.seq
         /\ moved \in takes'
  BY <1>0, <1>1 DEF FollowedRead, At, Returns
<1> HIDE DEF moved
<1>8. Calls'
  <2>1. newest' \in [seq : 0 .. MaxTakes, row : Rows \cup {None}]
        /\ newest'.seq <= takeSeq
    BY <1>1, <1>7 DEF IInv, Calls, TakeOrder
  <2>2. ASSUME NEW u \in takes'
        PROVE  /\ u.seq <= takeSeq'
               /\ \A v \in takes' : v.seq = u.seq => v = u
               /\ IF u.at = "followed"
                    THEN u.seq # newest'.seq
                    ELSE /\ u.seq <= newest'.seq
                         /\ u.seq = newest'.seq => u.row = newest'.row
    <3>1. u.seq <= takeSeq' /\ \A v \in takes' : v.seq = u.seq => v = u
      BY <1>0, <1>1, <1>2, <1>5 DEF IInv, Calls, TakeOrder
    <3>2. CASE u = moved
      <4>1. takes' # takes \ {t}
        BY <1>2, <3>2 DEF IInv, Calls, TakeOrder
      <4>. QED
        BY <1>1, <1>2, <1>7, <3>1, <3>2, <4>1
    <3>3. CASE u \in takes /\ u # t /\ newest' = newest
      BY <3>1, <3>3 DEF IInv, Calls, TakeOrder
    <3>4. CASE u \in takes /\ u # t /\ newest' # newest
      <4>1. newest'.seq = t.seq /\ t.seq > newest.seq
        BY <1>7, <3>4
      <4>2. u.seq # t.seq /\ u.seq \in Nat
        BY <1>3, <3>4 DEF IInv, Calls, TakeOrder
      <4>3. u.at # "followed" => u.seq <= newest.seq
        BY <3>4 DEF IInv, Calls, TakeOrder
      <4>. QED
        BY <1>1, <3>1, <4>1, <4>2, <4>3
    <3>. QED
      BY <1>5, <3>1, <3>2, <3>3, <3>4
  <2>3. TakeOrder'
    BY <1>0, <2>1, <2>2 DEF TakeOrder
  <2>. QED
    BY <1>0, <1>2, <1>5, <2>1, <2>3 DEF IInv, Calls
<1>9. Pending'
  <2>1. CASE newest' = newest
    <3>1. NewestUnderWay => NewestUnderWay'
      BY <1>0, <1>6, <2>1 DEF NewestUnderWay
    <3>. QED
      BY <1>4, <2>1, <3>1 DEF IInv, Pending, FromTake
  <2>2. CASE newest' = [seq |-> t.seq, row |-> t.row] /\ moved \in takes'
    BY <1>2, <2>2 DEF Pending, NewestUnderWay
  <2>. QED
    BY <1>7, <2>1, <2>2
<1>10. SettingOff'
  BY <1>2, <1>4, <1>5 DEF IInv, SettingOff, FromTake
<1>. QED
  BY <1>4, <1>8, <1>9, <1>10 DEF IInv

\* While the sync shows a live item no countdown is a take's.
LEMMA LiveIsNotTaken == IInv /\ External => ~FromTake(timer)
BY DEF IInv, Sync, LiveSyncOwnsTimer, FromTake, Timer

LEMMA SettingsKeeps ==
  ASSUME IInv, NEW t \in takes, SettingsRead(t), UNCHANGED <<snapshot, restarts>>
  PROVE  IInv'
<1>0. UNCHANGED <<pcoVars, air, takeSeq, newest, ends>> /\ t.at = "settings"
  BY DEF SettingsRead
<1>1. Sync' /\ Screens' /\ Saved' /\ UNCHANGED timer
  BY <1>0, SyncStays, SavedStays DEF IInv, Screens, pcoVars
<1>2. Calls'
  BY <1>0, MovesKeepOrder DEF SettingsRead, IInv
<1>3. CASE AutoItemTimer /\ At(t, "show")
  <2>1. NewestUnderWay => NewestUnderWay'
    BY <1>0, <1>3, MovesKeepNewest DEF IInv
  <2>. QED
    BY <1>0, <1>1, <1>2, <1>3, <2>1 DEF IInv, Pending, FromTake, SettingOff
<1>4. CASE Returns(t) /\ ~(AutoItemTimer /\ ~External)
  <2>1. ~FromTake(timer)
    BY <1>4, LiveIsNotTaken DEF IInv, SettingOff
  <2>. QED
    BY <1>0, <1>1, <1>2, <1>4, <2>1 DEF IInv, Pending, FromTake, SettingOff, Returns
<1>. QED
  BY <1>3, <1>4 DEF SettingsRead

\* A countdown set by a take or cleared, while the sync lets it.
LEMMA SetKeeps ==
  ASSUME Sync, NEW v \in Timers \cup {None}, SetTimer(v),
         External => v = timer \/ v = None
  PROVE  Sync'
BY DEF SetTimer, Sync, PcoTypeOK, OnePollLoop, FutureUnasked, LiveSyncOwnsTimer,
   Enabled, External

\* What a call whose reads are over makes of the countdown.
LEMMA Decides ==
  ASSUME IInv, NEW t \in takes, t.at # "followed",
         Returns(t), SetTimer(Decide(t)), UNCHANGED newest
  PROVE  Sync' /\ Pending'
<1>1. t \in TakeCalls /\ t.row \in Rows
  BY DEF IInv, Calls, TakeCalls
<1>2. timer' = Decide(t)
  BY DEF SetTimer
<1>3. Sync'
  <2>1. Decide(t) \in Timers \cup {None} /\ (External => Decide(t) = timer)
    BY <1>1, TimerTyped DEF Decide, IInv, Sync, PcoTypeOK
  <2>. QED
    BY <2>1, SetKeeps DEF IInv
<1>4. CASE Superseded(t)
  <2>1. timer' = timer
    BY <1>2, <1>4 DEF Decide
  <2>2. NewestUnderWay => NewestUnderWay'
    BY <1>1, <1>4 DEF Superseded, NewestUnderWay, Returns, TakeCalls
  <2>. QED
    BY <1>3, <2>1, <2>2 DEF IInv, Pending, FromTake
<1>5. CASE External
  <2>1. timer' = timer /\ ~FromTake(timer)
    BY <1>2, <1>5, LiveIsNotTaken DEF Decide
  <2>. QED
    BY <1>3, <2>1 DEF Pending, FromTake
<1>6. CASE ~Superseded(t) /\ ~External
  <2>1. timer'.row = t.row
    BY <1>2, <1>6 DEF Decide, Timer
  <2>2. t.seq \in Nat /\ newest.seq \in Nat /\ t.seq <= newest.seq
        /\ (t.seq = newest.seq => t.row = newest.row)
    BY DEF IInv, Calls, TakeOrder, TakeCalls
  <2>3. newest.row = t.row
    BY <1>6, <2>2 DEF Superseded
  <2>. QED
    BY <1>3, <2>1, <2>3 DEF Pending
<1>. QED
  BY <1>4, <1>5, <1>6

LEMMA ShowKeeps ==
  ASSUME IInv, NEW t \in takes, ShowRead(t), UNCHANGED <<snapshot, restarts>>
  PROVE  IInv'
<1>0. UNCHANGED <<air, takeSeq, newest, ends>> /\ t.at = "show"
  BY DEF ShowRead
<1>1. AutoItemTimer
  BY <1>0 DEF IInv, SettingOff
<1>2. Screens' /\ Saved' /\ SettingOff'
  BY <1>0, <1>1, SavedStays DEF IInv, Screens, SettingOff
<1>3. Calls'
  BY <1>0, MovesKeepOrder DEF ShowRead, IInv
<1>4. t \in TakeCalls
  BY DEF IInv, Calls
<1>5. Sync' /\ Pending'
  <2>1. CASE Superseded(t) /\ Returns(t) /\ UNCHANGED pcoVars
    <3>1. NewestUnderWay => NewestUnderWay'
      BY <1>0, <1>4, <2>1 DEF Superseded, NewestUnderWay, Returns, TakeCalls
    <3>. QED
      BY <1>0, <2>1, <3>1, SyncStays DEF IInv, Pending, FromTake, pcoVars
  <2>2. CASE Returns(t) /\ SetTimer(ClearItem("item"))
    <3>1. timer' = ClearItem("item") /\ ~FromTake(timer')
      BY <2>2 DEF SetTimer, ClearItem, FromTake
    <3>2. ClearItem("item") \in Timers \cup {None}
          /\ ClearItem("item") \in {timer, None}
      BY DEF ClearItem, IInv, Sync, PcoTypeOK
    <3>. QED
      BY <2>2, <3>1, <3>2, SetKeeps DEF IInv, Pending, FromTake
  <2>3. CASE At(t, "lookup") /\ UNCHANGED pcoVars
    <3>1. NewestUnderWay => NewestUnderWay'
      BY <1>0, <2>3, MovesKeepNewest DEF IInv
    <3>. QED
      BY <1>0, <2>3, <3>1, SyncStays DEF IInv, Pending, FromTake, pcoVars
  <2>4. CASE Returns(t) /\ SetTimer(Decide(t))
    BY <1>0, <2>4, Decides
  <2>. QED
    BY <2>1, <2>2, <2>3, <2>4 DEF ShowRead
<1>. QED
  BY <1>2, <1>3, <1>5 DEF IInv

LEMMA LookupKeeps ==
  ASSUME IInv, NEW t \in takes, LookupRead(t), UNCHANGED <<snapshot, restarts>>
  PROVE  IInv'
<1>0. UNCHANGED <<air, takeSeq, newest, ends>> /\ t.at = "lookup" /\ Returns(t)
      /\ SetTimer(Decide(t))
  BY DEF LookupRead
<1>1. AutoItemTimer
  BY <1>0 DEF IInv, SettingOff
<1>2. Screens' /\ Saved' /\ SettingOff'
  BY <1>0, <1>1, SavedStays DEF IInv, Screens, SettingOff
<1>3. Calls'
  BY <1>0, MovesKeepOrder DEF IInv
<1>. QED
  BY <1>0, <1>2, <1>3, Decides DEF IInv

\* onRowEnded clears the countdown or leaves it.
LEMMA EndKeeps ==
  ASSUME IInv, NEW e \in ends, EndRead(e), UNCHANGED <<snapshot, restarts>>
  PROVE  IInv'
<1> DEFINE v == IF e.channel \in Followed /\ timer = Timer("item", e.row)
                  THEN None ELSE timer
<1>1. SetTimer(v) /\ UNCHANGED <<air, takeSeq, newest, takes>> /\ ends' \subseteq ends
  BY DEF EndRead
<1>2. v \in {timer, None} /\ v \in Timers \cup {None}
  BY DEF IInv, Sync, PcoTypeOK
<1> HIDE DEF v
<1>3. Sync' /\ StartsNone
  BY <1>1, <1>2, SetKeeps DEF IInv, StartsNone, FromTake, SetTimer
<1>4. Screens'
  BY <1>1 DEF IInv, Screens
<1>. QED
  BY <1>1, <1>3, <1>4, CallsStay, PendingStays, SavedStays DEF IInv

----------------------------------------------------------------------------
\* The restart.

LEMMA SaveKeeps ==
  ASSUME IInv, Save
  PROVE  IInv'
<1>1. UNCHANGED <<pcoVars, takeVars>> /\ snapshot' = timer /\ timer' = timer
      /\ restarts' = restarts
  BY DEF Save, vars, pcoVars
<1>2. Sync' /\ Calls' /\ Screens'
  BY <1>1, SyncStays, CallsStay DEF IInv, takeVars, Screens
<1>3. Pending' /\ SettingOff'
  BY <1>1 DEF IInv, Pending, NewestUnderWay, SettingOff, FromTake, takeVars
<1>4. Saved'
  BY <1>1 DEF IInv, Saved, Sync, PcoTypeOK
<1>. QED
  BY <1>2, <1>3, <1>4 DEF IInv

LEMMA RestartKeeps ==
  ASSUME IInv, Restart
  PROVE  IInv'
<1> USE ItemTimersAssumption, RestartAssumption
<1>1. /\ timer' \in {snapshot, None} /\ sync' = Off /\ generation' = 0
      /\ pollDue' = FALSE /\ starts' = {} /\ snapshot' = snapshot
      /\ asked' = [g \in DOMAIN asked |-> 0]
      /\ DOMAIN asked = 0 .. MaxGeneration
  BY DEF Restart, IInv, Sync, PcoTypeOK
<1>2. Sync'
  <2>1. timer' \in Timers \cup {None}
    BY <1>1 DEF IInv, Saved
  <2>2. sync' \in [show : Shows \cup {None}, view : Views \cup {None}, error : Errors]
    BY <1>1 DEF Off, Errors
  <2>3. asked' \in [0 .. MaxGeneration -> Nat] /\ generation' \in 0 .. MaxGeneration
    BY <1>1
  <2>4. PcoTypeOK'
    BY <1>1, <2>1, <2>2, <2>3 DEF PcoTypeOK
  <2>5. OnePollLoop' /\ FutureUnasked'
    BY <1>1 DEF OnePollLoop, FutureUnasked, Enabled, Off
  <2>6. LiveSyncOwnsTimer'
    BY <1>1 DEF LiveSyncOwnsTimer, External, Enabled, Off
  <2>. QED
    BY <2>4, <2>5, <2>6 DEF Sync
<1>3. Calls'
  BY DEF Restart, Calls, TakeOrder
<1>4. Screens'
  BY DEF Restart, Screens, Screen, Dark
<1>5. Pending' /\ SettingOff'
  BY <1>1 DEF Restart, IInv, Pending, SettingOff, FromTake
<1>6. Saved'
  BY <1>1 DEF Restart, IInv, Saved
<1>. QED
  BY <1>2, <1>3, <1>4, <1>5, <1>6 DEF IInv

LEMMA Steps == IInv /\ [LiveNext]_liveVars => IInv'
<1> SUFFICES ASSUME IInv, [LiveNext]_liveVars PROVE IInv'
  OBVIOUS
<1>1. CASE UNCHANGED liveVars
  <2>1. UNCHANGED <<pcoVars, takeVars>> /\ UNCHANGED <<snapshot, restarts>> /\ StartsNone
    BY <1>1 DEF liveVars, vars, StartsNone, pcoVars
  <2>2. Sync' /\ Calls' /\ Screens' /\ Saved' /\ Pending' /\ SettingOff'
    BY <2>1, SyncStays, CallsStay, SavedStays, PendingStays DEF IInv, takeVars, Screens
  <2>. QED
    BY <2>2 DEF IInv
<1>2. CASE Next /\ UNCHANGED <<snapshot, restarts>>
  BY <1>2, SyncSteps, ChangesKeeps, TakeKeeps, FollowedKeeps, SettingsKeeps,
     ShowKeeps, LookupKeeps, EndKeeps DEF Next, TakesNext
<1>. QED
  BY <1>1, <1>2, SaveKeeps, RestartKeeps DEF LiveNext

\* Every reachable state satisfies the strengthened invariant.
THEOREM Inductive == LiveSpec => []IInv
BY InitHolds, Steps, PTL DEF LiveSpec

\* The variables keep their types, for any rundown, plan and bounds.
THEOREM TypeCorrect == LiveSpec => []LiveTypeOK
BY Inductive, Typed, PTL

\* However starts, stops and late answers cross, the sync has one poll in
\* flight or due while it is on and none when it is off (pcoLive.ts).
THEOREM OneLoop == LiveSpec => []OnePollLoop
<1>1. IInv => OnePollLoop
  BY DEF IInv, Sync
<1>. QED
  BY <1>1, Inductive, PTL

\* While Planning Center shows a live item, no take's countdown replaces it
\* (timers.ts asks the sync again once everything is read).
THEOREM SyncOwnsCountdown == LiveSpec => []LiveSyncOwnsTimer
<1>1. IInv => LiveSyncOwnsTimer
  BY DEF IInv, Sync
<1>. QED
  BY <1>1, Inductive, PTL

\* Once the calls of all takes have returned, a take-based countdown is the
\* newest followed take's, whatever order their reads ended in (timers.ts
\* latestFollowedSeq).
THEOREM NewestDecides == LiveSpec => []NewestTakeDecides
<1>1. IInv => NewestTakeDecides
  BY DEF IInv, Pending, NewestUnderWay, FromTake, NewestTakeDecides
<1>. QED
  BY <1>1, Inductive, PTL

=============================================================================
