------------------------------ MODULE PcoSync ------------------------------
(***************************************************************************)
(* The current-item countdown of the stage monitors and the Planning       *)
(* Center sync that may own it.  The sync polls the Live state of a show's *)
(* plan; every start and stop begins a new generation, and the answer to a *)
(* poll of an older generation is dropped.  How long a poll or a backoff   *)
(* takes is not measured.                                                  *)
(***************************************************************************)
EXTENDS Naturals, FiniteSets

CONSTANTS
  Rows,           \* rows of the shows
  Shows,          \* shows with Planning Center items
  Items,          \* items of a plan
  MaxGeneration,  \* starts and stops of a server run
  MaxStarts,      \* starts awaiting their show at a time
  None

VARIABLES
  timer,       \* the current-item countdown: its source and row, or None
  sync,        \* what the sync publishes
  generation,  \* of the latest start or stop
  asked,       \* polls in flight, by generation
  pollDue,     \* whether the timer of the next poll is set
  starts       \* starts that await their show

pcoVars == <<timer, sync, generation, asked, pollDue, starts>>

\* A view of the plan: live on an item or on one without a length, not live,
\* or an error.
Live(i)  == [status |-> "live", item |-> i]
NotLive  == [status |-> "notLive", item |-> None]
Views    == [status : {"live", "notLive", "error"}, item : Items \cup {None}]

\* error: what polls last came to; a refused one ends the polling.
Errors == {"none", "refused", "notUnderstood", "network"}
Off    == [show |-> None, view |-> None, error |-> "none"]
Enabled == sync.show # None

\* Starts await their show; each remembers the generation it began in.
Starts == [show : Shows, gen : 0 .. MaxGeneration]

Timer(source, row) == [source |-> source, row |-> row]

\* reduceTimers: clearing the countdown of one source, or of any.
ClearItem(source) == IF timer # None /\ timer.source = source THEN None ELSE timer

\* The take-based countdown is suppressed while the sync shows a live item.
External == Enabled /\ sync.view # None /\ sync.view.status = "live"

PcoInit == /\ timer = None
           /\ sync = Off
           /\ generation = 0
           /\ asked = [g \in 0 .. MaxGeneration |-> 0]
           /\ pollDue = FALSE
           /\ starts = {}

\* A slip, for comparison: the loop is cancelled without a new generation.
CancelTimerOnly == /\ generation' = generation
                   /\ pollDue' = FALSE

CancelLoop == /\ generation' = generation + 1
              /\ pollDue' = FALSE

\* pco_live_start: the show is awaited ...
StartLiveSync(s) ==
  /\ Cardinality(starts) < MaxStarts
  /\ starts' = starts \cup {[show |-> s, gen |-> generation]}
  /\ UNCHANGED <<timer, sync, generation, asked, pollDue>>

\* ... and unless another start or stop came first, the first poll is sent.
\* A restart for the same show keeps its view and countdown.
Start(r) ==
  /\ r \in starts /\ starts' = starts \ {r}
  /\ r.gen = generation /\ generation < MaxGeneration
  /\ CancelLoop
  /\ LET carried == Enabled /\ sync.show = r.show
     IN /\ sync' = [show |-> r.show, error |-> "none",
                    view |-> IF carried THEN sync.view ELSE None]
        /\ timer' = IF Enabled /\ ~carried THEN ClearItem("pco") ELSE timer
  /\ asked' = [asked EXCEPT ![generation'] = @ + 1]

\* Superseded, no plan in the show, or not connected: nothing changes.
StartDropped(r) ==
  /\ r \in starts /\ starts' = starts \ {r}
  /\ UNCHANGED <<timer, sync, generation, asked, pollDue>>

Stop == /\ CancelLoop
        /\ timer' = ClearItem("pco")
        /\ sync' = Off
        /\ UNCHANGED <<asked, starts>>

StopLiveSync == generation < MaxGeneration /\ Stop

PollTimer ==
  /\ pollDue /\ pollDue' = FALSE
  /\ asked' = [asked EXCEPT ![generation] = @ + 1]
  /\ UNCHANGED <<timer, sync, generation, starts>>

\* A poll of the current generation is answered.
Answered == /\ asked[generation] > 0
            /\ asked' = [asked EXCEPT ![generation] = @ - 1]
            /\ UNCHANGED <<generation, starts>>

\* driveItemTimer.  DriveAnyLive is a slip, for comparison: an item without a
\* length gets a countdown.
DriveAnyLive(view) ==
  timer' = IF view.status = "live" THEN Timer("pco", view.item)
                                   ELSE ClearItem("pco")

DriveItemTimer(view) ==
  timer' = IF view.status # "live" THEN ClearItem("pco")
           ELSE IF view.item # None THEN Timer("pco", view.item) ELSE None

PollSucceeds ==
  /\ Answered
  /\ \E view \in {NotLive} \cup {Live(i) : i \in Items \cup {None}} :
       /\ sync' = [sync EXCEPT !.view = view, !.error = "none"]
       /\ DriveItemTimer(view)
  /\ pollDue' = TRUE

\* fail: the error is shown and the countdown released.
Fail(error) ==
  /\ timer' = ClearItem("pco")
  /\ sync' = [sync EXCEPT !.error = error,
                !.view = IF @ = None THEN None ELSE [@ EXCEPT !.status = "error"]]

\* A rejected credential ends the polling ...
PollRefused == Answered /\ Fail("refused") /\ UNCHANGED pollDue
\* ... an unreadable answer and a network error do not; the latter keeps the
\* last view.
PollNotUnderstood == Answered /\ Fail("notUnderstood") /\ pollDue' = TRUE
PollFails == /\ Answered
             /\ sync' = [sync EXCEPT !.error = "network"]
             /\ pollDue' = TRUE
             /\ UNCHANGED timer

\* An answer to an older generation.
PollIgnored(g) ==
  /\ g # generation /\ asked[g] > 0
  /\ asked' = [asked EXCEPT ![g] = @ - 1]
  /\ UNCHANGED <<timer, sync, generation, pollDue, starts>>

\* timer_delete names the countdown.
DeleteTimer == /\ timer # None /\ timer' = None
               /\ UNCHANGED <<sync, generation, asked, pollDue, starts>>

PcoNext ==
  \/ \E s \in Shows : StartLiveSync(s)
  \/ \E r \in starts : Start(r) \/ StartDropped(r)
  \/ StopLiveSync \/ DeleteTimer \/ PollTimer
  \/ PollSucceeds \/ PollRefused \/ PollNotUnderstood \/ PollFails
  \/ \E g \in 0 .. MaxGeneration : PollIgnored(g)

----------------------------------------------------------------------------
Timers == [source : {"item"}, row : Rows] \cup [source : {"pco"}, row : Items]

PcoTypeOK ==
  /\ timer \in Timers \cup {None}
  /\ sync \in [show : Shows \cup {None}, view : Views \cup {None}, error : Errors]
  /\ generation \in 0 .. MaxGeneration
  /\ asked \in [0 .. MaxGeneration -> Nat]
  /\ pollDue \in BOOLEAN
  /\ starts \in SUBSET Starts

\* While the sync is on there is one poll in flight or due, however starts,
\* stops and late answers cross; none when it is off, or once Planning Center
\* has refused the credential.
OnePollLoop ==
  IF Enabled /\ sync.error # "refused"
    THEN asked[generation] + (IF pollDue THEN 1 ELSE 0) = 1
    ELSE asked[generation] = 0 /\ ~pollDue

\* While the sync shows a live item, the countdown is that item's, or there is
\* none: no take, however late its reads, starts one of its own.
LiveSyncOwnsTimer ==
  External /\ timer # None => timer = Timer("pco", sync.view.item)

=============================================================================
