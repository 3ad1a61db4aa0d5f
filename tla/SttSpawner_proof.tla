-------------------------- MODULE SttSpawner_proof --------------------------
(***************************************************************************)
(* Proofs about SttSpawner, for any number of process names.  Captures     *)
(* alone says why: the only process alive is the one the spawner knows, a  *)
(* start is queued only behind that process, and the cooldown is entered   *)
(* only when it is gone.  From this follows as well that what is reported  *)
(* up has a capture alive or on its way.                                   *)
(***************************************************************************)
EXTENDS SttSpawner, TLAPS, FiniteSetTheorems

\* Whoever is alive is the known child.
Alone == DOMAIN procs = IF child = None THEN {} ELSE {child}

\* A queued start waits for the child or for the cooldown, never for both,
\* and only while the spawner is up.
Queue == /\ pending # None => Up /\ child # None
         /\ cooldown # None => Up /\ child = None

\* A configuration whose capture may run beside a probe.
Spared(cfg) == cfg.boot \/ cfg.mode = "channels"

\* What waits for the orphans is the boot start, for the device list channel
\* capture ...
AsksApart == \A a \in asks : /\ a.on = "orphans" => a.cfg.boot
                             /\ a.on = "devices" => a.cfg.mode = "channels"
\* ... and what is queued while a probe runs may run beside it.
QueueSpared == probe => /\ pending # None => Spared(pending)
                        /\ cooldown # None => Spared(cooldown)

\* The parts a start, a launch or an exit may disturb, the parts only the
\* requests and probes may, and what relates the two.
Held == /\ state \in States /\ child \in Ids \cup {None}
        /\ DOMAIN procs \subseteq Ids /\ \A i \in DOMAIN procs : procs[i] \in Process
        /\ pending \in Configs \cup {None} /\ cooldown \in Configs \cup {None}
        /\ readyTimer \in BOOLEAN
        /\ Alone /\ Queue /\ StopHolds

Quiet == /\ late \in BOOLEAN /\ probe \in BOOLEAN /\ asks \subseteq Ask
         /\ AsksApart

Sparing == QueueSpared /\ ProbeSparesCapture

IInv == Held /\ Quiet /\ Sparing

LEMMA Typed == IInv => TypeOK
BY DEF IInv, Held, Quiet, TypeOK

LEMMA Starts == Init => IInv
<1> SUFFICES ASSUME Init PROVE IInv
  OBVIOUS
<1>1. DOMAIN procs = {} /\ child = None /\ pending = None /\ cooldown = None
      /\ state = "idle" /\ ~readyTimer /\ ~late /\ ~probe
  BY DEF Init
<1>2. asks \subseteq {[cfg |-> cfg, on |-> "orphans"] : cfg \in {c \in Configs : c.boot}}
  BY DEF Init
<1>3. \A a \in asks : a \in Ask /\ a.on = "orphans" /\ a.cfg.boot
  BY <1>2 DEF Ask
<1>4. Held
  BY <1>1 DEF Init, Held, States, Alone, Queue, StopHolds
<1>5. Quiet
  BY <1>1, <1>3 DEF Init, Quiet, AsksApart
<1>6. Sparing
  BY <1>1 DEF Sparing, QueueSpared, ProbeSparesCapture
<1>. QED
  BY <1>4, <1>5, <1>6 DEF IInv

\* A launch with no child alive: one child, or an error and none.
LEMMA Launches ==
  ASSUME Held, NEW cfg \in Configs, child = None, Launch(cfg)
  PROVE  \/ /\ state' = "starting" /\ readyTimer' \in BOOLEAN
            /\ child' \in Ids /\ child' # None
            /\ DOMAIN procs' = {child'}
            /\ procs'[child'] = [cfg |-> cfg, killed |-> FALSE]
         \/ /\ state' = "error" /\ readyTimer' \in BOOLEAN
            /\ child' = None /\ DOMAIN procs' = {}
BY SpawnerAssumption DEF Held, Alone, Launch, Fallback

LEMMA LaunchHolds ==
  ASSUME Held, NEW cfg \in Configs, child = None, Launch(cfg),
         pending = None, pending' = None, cooldown' = None
  PROVE  Held'
<1>1. [cfg |-> cfg, killed |-> FALSE] \in Process
  BY DEF Process
<1>2. CASE /\ state' = "starting" /\ readyTimer' \in BOOLEAN
           /\ child' \in Ids /\ child' # None
           /\ DOMAIN procs' = {child'}
           /\ procs'[child'] = [cfg |-> cfg, killed |-> FALSE]
  <2>1. \A i \in DOMAIN procs' : procs'[i] \in Process
    BY <1>1, <1>2
  <2>2. Alone' /\ Queue' /\ StopHolds'
    BY <1>2 DEF Alone, Queue, StopHolds, Up
  <2>. QED
    BY <1>2, <2>1, <2>2 DEF Held, States
<1>3. CASE /\ state' = "error" /\ readyTimer' \in BOOLEAN
           /\ child' = None /\ DOMAIN procs' = {}
  BY <1>3 DEF Held, States, Alone, Queue, StopHolds, Up
<1>. QED
  BY <1>2, <1>3, Launches

\* A launched process may run beside a probe if its configuration may.
LEMMA LaunchSpares ==
  ASSUME Held, NEW cfg \in Configs, child = None, Launch(cfg),
         pending' = None, cooldown' = None, probe' => Spared(cfg)
  PROVE  Sparing'
<1>1. \/ /\ DOMAIN procs' = {child'}
         /\ procs'[child'] = [cfg |-> cfg, killed |-> FALSE]
      \/ DOMAIN procs' = {}
  BY Launches
<1>2. \A i \in DOMAIN procs' : procs'[i] = [cfg |-> cfg, killed |-> FALSE]
  BY <1>1
<1>3. \A i \in DOMAIN procs' : procs'[i].cfg = cfg
  BY <1>2
<1>. QED
  BY <1>3 DEF Sparing, QueueSpared, ProbeSparesCapture, Spared

\* start, whatever else the step does.
LEMMA StartHolds ==
  ASSUME IInv, NEW cfg \in Configs, Start(cfg), UNCHANGED cooldown
  PROVE  Held'
<1>0. Held
  BY DEF IInv
<1>1. CASE Up
  BY <1>0, <1>1 DEF Start, Up, Held, Alone, Queue, StopHolds
<1>2. CASE ~Up /\ child # None
  BY <1>0, <1>2 DEF Start, Up, Held, Alone, Queue, StopHolds, States
<1>3. CASE ~Up /\ child = None
  <2>1. Launch(cfg) /\ UNCHANGED pending
    BY <1>3 DEF Start
  <2>2. pending = None /\ cooldown = None
    BY <1>0, <1>3 DEF Held, Queue
  <2>. QED
    BY <1>0, <1>3, <2>1, <2>2, LaunchHolds
<1>. QED
  BY <1>1, <1>2, <1>3

LEMMA StartSpares ==
  ASSUME IInv, NEW cfg \in Configs, Start(cfg), UNCHANGED cooldown,
         probe' => probe /\ Spared(cfg)
  PROVE  Sparing'
<1>0. Held /\ Sparing
  BY DEF IInv
<1>1. CASE Up
  BY <1>0, <1>1 DEF Start, Sparing, QueueSpared, ProbeSparesCapture
<1>2. CASE ~Up /\ child # None
  BY <1>0, <1>2 DEF Start, Sparing, QueueSpared, ProbeSparesCapture
<1>3. CASE ~Up /\ child = None
  <2>1. Launch(cfg) /\ UNCHANGED pending
    BY <1>3 DEF Start
  <2>2. pending = None /\ cooldown = None
    BY <1>0, <1>3 DEF Held, Queue
  <2>. QED
    BY <1>0, <1>3, <2>1, <2>2, LaunchSpares
<1>. QED
  BY <1>1, <1>2, <1>3

\* A start that goes on: at once, or when the devices are listed.
LEMMA GoOnKeeps ==
  ASSUME IInv, NEW cfg \in Configs, NEW rest \in SUBSET asks,
         GoOn(cfg, rest), UNCHANGED probe, probe => Spared(cfg)
  PROVE  IInv'
<1>1. CASE cfg.mode = "channels"
  <2>1. UNCHANGED spawner /\ asks' = rest \cup {[cfg |-> cfg, on |-> "devices"]}
    BY <1>1 DEF GoOn
  <2>2. Held' /\ Sparing'
    BY <2>1 DEF spawner, IInv, Held, Alone, Queue, StopHolds, Up, Sparing,
       QueueSpared, ProbeSparesCapture
  <2>3. [cfg |-> cfg, on |-> "devices"] \in Ask
    BY DEF Ask
  <2>4. AsksApart'
    BY <1>1, <2>1 DEF IInv, Quiet, AsksApart
  <2>5. Quiet'
    BY <2>1, <2>3, <2>4 DEF spawner, IInv, Quiet
  <2>. QED
    BY <2>2, <2>5 DEF IInv
<1>2. CASE cfg.mode # "channels"
  <2>1. Start(cfg) /\ asks' = rest /\ UNCHANGED <<cooldown, late, probe>>
    BY <1>2 DEF GoOn
  <2>2. Held' /\ Sparing'
    BY <2>1, StartHolds, StartSpares
  <2>3. Quiet'
    BY <2>1 DEF IInv, Quiet, AsksApart
  <2>. QED
    BY <2>2, <2>3 DEF IInv
<1>. QED
  BY <1>1, <1>2

LEMMA ReadyKeeps ==
  ASSUME IInv, MarkReady \/ UNCHANGED <<state, readyTimer>>,
         UNCHANGED <<child, procs, pending, cooldown, probe, asks>>,
         late' \in BOOLEAN
  PROVE  IInv'
<1>1. Held'
  BY DEF IInv, Held, MarkReady, States, Alone, Queue, StopHolds, Up
<1>2. Quiet' /\ Sparing'
  BY DEF IInv, Quiet, AsksApart, Sparing, QueueSpared, ProbeSparesCapture
<1>. QED
  BY <1>1, <1>2 DEF IInv

LEMMA StopKeeps ==
  ASSUME IInv, Stop
  PROVE  IInv'
<1>1. DOMAIN procs' = DOMAIN procs
  BY DEF Stop
<1>2. \A i \in DOMAIN procs : i = child
  BY DEF IInv, Held, Alone
<1>3. \A i \in DOMAIN procs : /\ procs'[i] = [procs[i] EXCEPT !.killed = TRUE]
                              /\ procs[i] \in Process
  BY <1>2 DEF Stop, IInv, Held
<1>4. \A i \in DOMAIN procs' : procs'[i] \in Process /\ procs'[i].killed
  BY <1>1, <1>3 DEF Process
<1>5. Alone' /\ Queue' /\ StopHolds' /\ Sparing'
  BY <1>1, <1>4 DEF Stop, IInv, Held, Alone, Queue, StopHolds, Sparing,
     QueueSpared, ProbeSparesCapture
<1>6. Held'
  BY <1>1, <1>4, <1>5 DEF Stop, IInv, Held, States
<1>7. Quiet'
  BY DEF Stop, IInv, Quiet, AsksApart
<1>. QED
  BY <1>5, <1>6, <1>7 DEF IInv

LEMMA ExitKeeps ==
  ASSUME IInv, NEW i \in Ids, Exit(i)
  PROVE  IInv'
<1>1. i = child /\ DOMAIN procs = {child} /\ DOMAIN procs' = {}
  BY DEF Exit, IInv, Held, Alone
<1>2. PICK clean \in BOOLEAN : Finalize(i, clean)
  BY <1>1 DEF Exit
<1>3. i # None
  BY SpawnerAssumption
<1>4. child' = None /\ readyTimer' = FALSE /\ UNCHANGED <<probe, asks>> /\ late' = TRUE
  BY <1>1, <1>2 DEF Exit, Finalize
<1>5. cooldown = None
  BY <1>1, <1>3 DEF IInv, Held, Queue
<1>6. CASE pending # None
  <2>1. cooldown' = pending /\ pending' = None /\ UNCHANGED state
    BY <1>2, <1>6 DEF Finalize
  <2>2. Held'
    BY <1>1, <1>4, <1>6, <2>1 DEF IInv, Held, Alone, Queue, StopHolds, Up
  <2>. QED
    BY <1>1, <1>4, <2>1, <2>2 DEF IInv, Quiet, AsksApart, Sparing, QueueSpared,
       ProbeSparesCapture
<1>7. CASE pending = None
  <2>1. UNCHANGED <<pending, cooldown>> /\ state' \in {"stopped", "error"}
    BY <1>2, <1>7 DEF Finalize
  <2>2. Held'
    BY <1>1, <1>4, <1>5, <1>7, <2>1 DEF IInv, Held, Alone, Queue, StopHolds,
       States
  <2>. QED
    BY <1>1, <1>4, <1>5, <1>7, <2>1, <2>2 DEF IInv, Quiet, AsksApart, Sparing,
       QueueSpared, ProbeSparesCapture
<1>. QED
  BY <1>6, <1>7

LEMMA CooldownKeeps ==
  ASSUME IInv, CooldownEnds
  PROVE  IInv'
<1>1. /\ cooldown \in Configs /\ child = None /\ pending = None
      /\ Launch(cooldown) /\ pending' = None /\ cooldown' = None
      /\ UNCHANGED <<late, probe, asks>> /\ Held
  BY DEF CooldownEnds, IInv, Held, Queue
<1>2. probe' => Spared(cooldown)
  BY <1>1 DEF CooldownEnds, IInv, Sparing, QueueSpared
<1>3. Held' /\ Sparing'
  BY <1>1, <1>2, LaunchHolds, LaunchSpares
<1>4. Quiet'
  BY <1>1 DEF IInv, Quiet, AsksApart
<1>. QED
  BY <1>3, <1>4 DEF IInv

LEMMA RequestKeeps ==
  ASSUME IInv, NEW cfg \in Configs, Request(cfg)
  PROVE  IInv'
<1>1. CASE probe
  <2>1. asks' = asks \cup {[cfg |-> cfg, on |-> "probe"]} /\ UNCHANGED spawner
        /\ UNCHANGED probe
    BY <1>1 DEF Request
  <2>2. Held' /\ Sparing'
    BY <2>1 DEF spawner, IInv, Held, Alone, Queue, StopHolds, Up, Sparing,
       QueueSpared, ProbeSparesCapture
  <2>3. [cfg |-> cfg, on |-> "probe"] \in Ask
    BY DEF Ask
  <2>4. AsksApart'
    BY <2>1 DEF IInv, Quiet, AsksApart
  <2>5. Quiet'
    BY <2>1, <2>3, <2>4 DEF spawner, IInv, Quiet
  <2>. QED
    BY <2>2, <2>5 DEF IInv
<1>2. CASE ~probe
  BY <1>2, GoOnKeeps DEF Request
<1>. QED
  BY <1>1, <1>2

LEMMA OrphansKeep ==
  ASSUME IInv, OrphansReaped
  PROVE  IInv'
<1>1. PICK a \in asks : a.on = "orphans" /\ GoOn(a.cfg, asks \ {a})
  BY DEF OrphansReaped
<1>2. a.cfg \in Configs /\ Spared(a.cfg) /\ UNCHANGED probe
  BY <1>1 DEF OrphansReaped, IInv, Quiet, AsksApart, Ask, Spared
<1>. QED
  BY <1>1, <1>2, GoOnKeeps

LEMMA DevicesKeep ==
  ASSUME IInv, DevicesListed
  PROVE  IInv'
<1>1. PICK a \in asks : a.on = "devices" /\ Start(a.cfg) /\ asks' = asks \ {a}
  BY DEF DevicesListed
<1>2. a.cfg \in Configs /\ Spared(a.cfg) /\ UNCHANGED <<cooldown, late, probe>>
  BY <1>1 DEF DevicesListed, IInv, Quiet, AsksApart, Ask, Spared
<1>3. Held' /\ Sparing'
  BY <1>1, <1>2, StartHolds, StartSpares
<1>4. Quiet'
  BY <1>1, <1>2 DEF IInv, Quiet, AsksApart
<1>. QED
  BY <1>3, <1>4 DEF IInv

\* A probe begins when nothing is queued and what lives is being killed.
LEMMA EnumerateKeeps ==
  ASSUME IInv, Enumerate
  PROVE  IInv'
<1>1. pending = None /\ cooldown = None /\ \A i \in DOMAIN procs : procs[i].killed
  BY DEF Enumerate, IInv, Held, StopHolds
<1>2. Sparing'
  BY <1>1 DEF Enumerate, spawner, Sparing, QueueSpared, ProbeSparesCapture
<1>3. Held' /\ Quiet'
  BY DEF Enumerate, spawner, IInv, Held, Alone, Queue, StopHolds, Up, Quiet,
     AsksApart
<1>. QED
  BY <1>2, <1>3 DEF IInv

LEMMA ProbeEndsKeeps ==
  ASSUME IInv, ProbeEnds
  PROVE  IInv'
<1> DEFINE waiting == {a \in asks : a.on = "probe"}
           listing == {[cfg |-> a.cfg, on |-> "devices"] :
                         a \in {b \in waiting : b.cfg.mode = "channels"}}
<1>1. asks' = (asks \ waiting) \cup listing /\ probe' = FALSE
  BY DEF ProbeEnds
<1>2. \A a \in listing : a \in Ask /\ a.on = "devices" /\ a.cfg.mode = "channels"
  BY DEF IInv, Quiet, Ask
<1>3. AsksApart'
  <2> HIDE DEF listing
  <2>0. asks' \subseteq asks \cup listing
    BY <1>1
  <2>1. \A a \in asks' : a \in asks \/ (a.on = "devices" /\ a.cfg.mode = "channels")
    BY <2>0, <1>2
  <2>. QED
    BY <2>1 DEF IInv, Quiet, AsksApart
<1>4. asks' \subseteq Ask
  BY <1>1, <1>2 DEF IInv, Quiet
<1>5. CASE \E a \in waiting : a.cfg.mode = "plain"
  <2>1. PICK a \in waiting : Start(a.cfg) /\ UNCHANGED <<cooldown, late>>
    BY <1>5 DEF ProbeEnds
  <2>2. a.cfg \in Configs
    BY DEF IInv, Quiet, Ask
  <2>3. Held' /\ Sparing'
    BY <1>1, <2>1, <2>2, StartHolds, StartSpares
  <2>. QED
    BY <1>1, <1>3, <1>4, <2>1, <2>3 DEF IInv, Quiet
<1>6. CASE ~ \E a \in waiting : a.cfg.mode = "plain"
  <2>1. UNCHANGED spawner
    BY <1>6 DEF ProbeEnds
  <2>2. Held' /\ Sparing'
    BY <1>1, <2>1 DEF spawner, IInv, Held, Alone, Queue, StopHolds, Up, Sparing,
       QueueSpared, ProbeSparesCapture
  <2>. QED
    BY <1>1, <1>3, <1>4, <2>1, <2>2 DEF spawner, IInv, Quiet
<1>. QED
  BY <1>5, <1>6

LEMMA Steps == IInv /\ [Next]_vars => IInv'
<1> SUFFICES ASSUME IInv, [Next]_vars PROVE IInv'
  OBVIOUS
<1>1. CASE UNCHANGED vars
  BY <1>1 DEF vars, IInv, Held, Alone, Queue, StopHolds, Up, Quiet, AsksApart,
     Sparing, QueueSpared, ProbeSparesCapture
<1>2. CASE ReadyLine \/ LateLine \/ ReadyFallback
  <2>1. late' \in BOOLEAN
    BY <1>2 DEF ReadyLine, LateLine, ReadyFallback, IInv, Quiet
  <2>. QED
    BY <1>2, <2>1, ReadyKeeps DEF ReadyLine, LateLine, ReadyFallback
<1>3. CASE \E cfg \in Configs : Request(cfg)
  BY <1>3, RequestKeeps
<1>4. CASE \E i \in Ids : Exit(i)
  BY <1>4, ExitKeeps
<1>. QED
  BY <1>1, <1>2, <1>3, <1>4, OrphansKeep, DevicesKeep, StopKeeps, CooldownKeeps,
     EnumerateKeeps, ProbeEndsKeeps DEF Next

\* Every reachable state satisfies the strengthened invariant.
THEOREM Inductive == Spec => []IInv
BY Starts, Steps, PTL DEF Spec

\* The variables keep their types, for any set of process names.
THEOREM TypeCorrect == Spec => []TypeOK
BY Inductive, Typed, PTL

\* start and the exit handler never put a second capture beside the first.
THEOREM NoCompetingCapture == Spec => []OneCapture
<1>1. IInv => OneCapture
  <2> SUFFICES ASSUME IInv PROVE OneCapture
    OBVIOUS
  <2>1. DOMAIN procs = {} \/ DOMAIN procs = {child}
    BY DEF IInv, Held, Alone
  <2>2. Cardinality({}) = 0 /\ Cardinality({child}) = 1
    BY FS_EmptySet, FS_Singleton
  <2>3. Cardinality(DOMAIN procs) \in {0, 1}
    BY <2>1, <2>2
  <2>. QED
    BY <2>3 DEF OneCapture
<1>. QED
  BY <1>1, Inductive, PTL

\* A stop wins over the queue, the cooldown and the child.
THEOREM StopWins == Spec => []StopHolds
<1>1. IInv => StopHolds
  BY DEF IInv, Held
<1>. QED
  BY <1>1, Inductive, PTL

\* No probe of the capture devices runs beside an operator's plain capture.
THEOREM ProbesAlone == Spec => []ProbeSparesCapture
<1>1. IInv => ProbeSparesCapture
  BY DEF IInv, Sparing
<1>. QED
  BY <1>1, Inductive, PTL

----------------------------------------------------------------------------
(***************************************************************************)
(* What is reported up: each step that leaves the spawner up leaves it a   *)
(* capture.                                                                *)
(***************************************************************************)
LEMMA LaunchedHasCapture ==
  ASSUME Held, NEW cfg \in Configs, child = None, Launch(cfg)
  PROVE  UpHasCapture'
<1>1. CASE state' = "error"
  BY <1>1 DEF UpHasCapture, Up
<1>2. CASE state' # "error"
  <2>1. PICK i \in Ids \ DOMAIN procs :
          /\ child' = i
          /\ procs' = [j \in DOMAIN procs \cup {i} |->
                         IF j = i THEN [cfg |-> cfg, killed |-> FALSE]
                                  ELSE procs[j]]
          /\ readyTimer' = (cfg.mode = "plain")
    BY <1>2 DEF Launch, Fallback
  <2>2. child' # None /\ procs'[child'] = [cfg |-> cfg, killed |-> FALSE]
    BY <2>1, SpawnerAssumption
  <2>3. cfg.mode \in {"plain", "channels"}
    BY DEF Configs
  <2>4. ~procs'[child'].killed /\ procs'[child'].cfg.mode = cfg.mode
    BY <2>2
  <2>. QED
    BY <2>1, <2>2, <2>3, <2>4 DEF UpHasCapture
<1>. QED
  BY <1>1, <1>2

\* A child behind which a start is queued is one that a stop has killed.
LEMMA StartHasCapture ==
  ASSUME IInv, UpHasCapture, NEW cfg \in Configs, Start(cfg), UNCHANGED cooldown
  PROVE  UpHasCapture'
<1>1. CASE Up
  BY <1>1 DEF Start, UpHasCapture, Up
<1>2. CASE ~Up /\ child # None
  <2>1. child \in DOMAIN procs /\ procs[child].killed
    BY <1>2 DEF IInv, Held, Alone, StopHolds
  <2>2. pending' = cfg /\ cfg # None /\ UNCHANGED <<child, procs>>
    BY <1>2, SpawnerAssumption DEF Start
  <2>. QED
    BY <1>2, <2>1, <2>2 DEF UpHasCapture
<1>3. CASE ~Up /\ child = None
  BY <1>3, LaunchedHasCapture DEF Start, IInv
<1>. QED
  BY <1>1, <1>2, <1>3

LEMMA CaptureSteps == IInv /\ UpHasCapture /\ [Next]_vars => UpHasCapture'
<1> SUFFICES ASSUME IInv, UpHasCapture, [Next]_vars PROVE UpHasCapture'
  OBVIOUS
<1>1. CASE UNCHANGED spawner
  BY <1>1 DEF spawner, UpHasCapture, Up
<1>2. CASE \E cfg \in Configs : Start(cfg) /\ UNCHANGED cooldown
  BY <1>2, StartHasCapture
<1>3. CASE ReadyLine \/ LateLine \/ ReadyFallback
  BY <1>3 DEF ReadyLine, LateLine, ReadyFallback, MarkReady, UpHasCapture, Up
<1>4. CASE Stop
  BY <1>4 DEF Stop, UpHasCapture, Up
<1>5. ASSUME NEW i \in Ids, Exit(i)
      PROVE  UpHasCapture'
  <2>1. PICK clean \in BOOLEAN : Finalize(i, clean)
    BY <1>5 DEF Exit, IInv, Held, Alone
  <2>. QED
    BY <2>1 DEF Finalize, UpHasCapture, Up
<1>6. CASE CooldownEnds
  BY <1>6, LaunchedHasCapture DEF CooldownEnds, IInv, Held, Queue
<1>7. \A a \in asks : a.cfg \in Configs
  BY DEF IInv, Quiet, Ask
<1>8. CASE Enumerate \/ UNCHANGED vars
  BY <1>1, <1>8 DEF Enumerate, vars, spawner
<1>9. CASE OrphansReaped \/ DevicesListed \/ ProbeEnds
           \/ \E cfg \in Configs : Request(cfg)
  BY <1>1, <1>2, <1>7, <1>9 DEF OrphansReaped, DevicesListed, ProbeEnds, Request,
     GoOn
<1>. QED
  BY <1>3, <1>4, <1>5, <1>6, <1>8, <1>9 DEF Next

\* A spawner that reports starting or running always has a capture alive or on
\* its way: the safety behind StartIsAnswered.
THEOREM ReportedIsUnderWay == Spec => []UpHasCapture
<1>1. Init => UpHasCapture
  BY DEF Init, UpHasCapture, Up
<1>. QED
  BY <1>1, Starts, Steps, CaptureSteps, PTL DEF Spec

=============================================================================
