----------------------------- MODULE SttSpawner -----------------------------
(***************************************************************************)
(* The capture pipeline of speech-to-text: one child process that holds    *)
(* the microphone, started and stopped by operators and at boot, and the   *)
(* probe that lists capture devices, which opens the microphone as well.   *)
(*                                                                         *)
(* A killed child dies later, and what it wrote may be read later still.   *)
(* Durations are not measured: a timer that is set may fire at any moment. *)
(***************************************************************************)
EXTENDS Naturals, FiniteSets

CONSTANTS None,
          Ids    \* names for the processes alive at one time

VARIABLES
  state,      \* status.state, as broadcast to clients
  child,      \* the process the spawner knows of, or None
  procs,      \* the capture processes that are alive: what each runs
  pending,    \* the configuration queued behind a dying child, or None
  cooldown,   \* the one to launch when the cooldown timer fires, or None
  readyTimer, \* the fallback that takes a silent child for a ready one
  late,       \* output of a child that has exited is still to be read
  probe,      \* a device probe is in flight
  asks        \* start requests that wait for something first

vars == <<state, child, procs, pending, cooldown, readyTimer, late, probe, asks>>
spawner == <<state, child, procs, pending, cooldown, readyTimer, late>>

\* Channel capture reads some input channels of a device; boot: auto-started.
Configs == [mode : {"plain", "channels"}, boot : BOOLEAN]

\* Absence is neither a process nor a configuration.
ASSUME SpawnerAssumption == None \notin Ids /\ None \notin Configs

Process == [cfg : Configs, killed : BOOLEAN]
Ask     == [cfg : Configs, on : {"orphans", "probe", "devices"}]
States  == {"idle", "starting", "running", "stopped", "error"}

Up == state \in {"starting", "running"}

Init == /\ state = "idle"
        /\ child = None /\ procs = [i \in {} |-> None]
        /\ pending = None /\ cooldown = None
        /\ readyTimer = FALSE /\ late = FALSE /\ probe = FALSE
        /\ \/ asks = {}
           \/ \E cfg \in Configs :
                cfg.boot /\ asks = {[cfg |-> cfg, on |-> "orphans"]}

----------------------------------------------------------------------------
\* Whether a timer is set that takes a silent child for a ready one: channel
\* capture is trusted to report.  NoFallback is a slip, for comparison.
NoFallback(cfg) == FALSE
Fallback(cfg) == cfg.mode = "plain"

\* launch: the child is spawned, or spawning it throws.
Launch(cfg) ==
  \/ \E i \in Ids \ DOMAIN procs :
       /\ child' = i
       /\ procs' = [j \in DOMAIN procs \cup {i} |->
                      IF j = i THEN [cfg |-> cfg, killed |-> FALSE] ELSE procs[j]]
       /\ state' = "starting"
       /\ readyTimer' = Fallback(cfg)
  \/ /\ child' = None /\ state' = "error"
     /\ UNCHANGED <<procs, readyTimer>>

\* start.  StartAtOnce is a slip, for comparison: nothing is queued.
StartAtOnce(cfg) ==
  IF Up
    THEN UNCHANGED <<state, child, procs, pending, readyTimer>>
    ELSE Launch(cfg) /\ UNCHANGED pending

Start(cfg) ==
  IF Up
    THEN UNCHANGED <<state, child, procs, pending, readyTimer>>
  ELSE IF child # None
    THEN /\ state' = "starting" /\ pending' = cfg
         /\ UNCHANGED <<child, procs, readyTimer>>
    ELSE Launch(cfg) /\ UNCHANGED pending

\* A start whose waits are over but for the device list, which only channel
\* capture needs: cfg goes on, the requests in rest still wait.
GoOn(cfg, rest) ==
  IF cfg.mode = "channels"
    THEN /\ asks' = rest \cup {[cfg |-> cfg, on |-> "devices"]}
         /\ UNCHANGED spawner
    ELSE Start(cfg) /\ asks' = rest /\ UNCHANGED <<cooldown, late>>

\* stt_spawner_start: after a probe in flight.  RequestBlind is a slip, for
\* comparison: the probe is not waited for.
RequestBlind(cfg) == ~cfg.boot /\ GoOn(cfg, asks) /\ UNCHANGED probe

Request(cfg) ==
  /\ ~cfg.boot
  /\ IF probe
       THEN /\ asks' = asks \cup {[cfg |-> cfg, on |-> "probe"]}
            /\ UNCHANGED spawner
       ELSE GoOn(cfg, asks)
  /\ UNCHANGED probe

\* At boot the auto-start waits until leftover pipelines are killed.
OrphansReaped ==
  /\ \E a \in asks : a.on = "orphans" /\ GoOn(a.cfg, asks \ {a})
  /\ UNCHANGED probe

DevicesListed ==
  /\ \E a \in asks :
       a.on = "devices" /\ Start(a.cfg) /\ asks' = asks \ {a}
  /\ UNCHANGED <<cooldown, late, probe>>

\* stop.  StopLeavesCooldown is a slip, for comparison.
StopLeavesCooldown ==
  /\ pending' = None /\ readyTimer' = FALSE
  /\ state' = "stopped"
  /\ procs' = [i \in DOMAIN procs |->
                 IF i = child THEN [procs[i] EXCEPT !.killed = TRUE] ELSE procs[i]]
  /\ UNCHANGED <<child, cooldown, late, probe, asks>>

Stop ==
  /\ pending' = None /\ cooldown' = None /\ readyTimer' = FALSE
  /\ state' = "stopped"
  /\ procs' = [i \in DOMAIN procs |->
                 IF i = child THEN [procs[i] EXCEPT !.killed = TRUE] ELSE procs[i]]
  /\ UNCHANGED <<child, late, probe, asks>>

----------------------------------------------------------------------------
\* markReady: only a start still under way becomes a running one.
MarkReady == /\ readyTimer' = FALSE
             /\ state' = IF state = "starting" THEN "running" ELSE state

\* A child writes that it listens; the line of one that has exited may come
\* after a new start, or never.
ReadyLine == /\ DOMAIN procs # {} /\ MarkReady
             /\ UNCHANGED <<child, procs, pending, cooldown, late, probe, asks>>

LateLine == /\ late /\ late' = FALSE
            /\ MarkReady \/ UNCHANGED <<state, readyTimer>>
            /\ UNCHANGED <<child, procs, pending, cooldown, probe, asks>>

ReadyFallback ==
  /\ readyTimer /\ MarkReady
  /\ UNCHANGED <<child, procs, pending, cooldown, late, probe, asks>>

\* finalize: the child exits, by itself or killed.  A queued start waits for
\* the cooldown; otherwise the end is published.
\* FinalizeForgets is a slip, for comparison: the queued start is dropped.
FinalizeForgets(i, clean) ==
  /\ child' = None /\ readyTimer' = FALSE /\ pending' = None
  /\ state' = IF pending # None THEN state
              ELSE IF state = "stopped" \/ clean THEN "stopped" ELSE "error"
  /\ UNCHANGED cooldown

Finalize(i, clean) ==
  /\ child' = None /\ readyTimer' = FALSE
  /\ IF pending # None
       THEN /\ cooldown' = pending /\ pending' = None
            /\ UNCHANGED state
       ELSE /\ state' = IF state = "stopped" \/ clean THEN "stopped" ELSE "error"
            /\ UNCHANGED <<pending, cooldown>>

Exit(i) ==
  /\ i \in DOMAIN procs
  /\ procs' = [j \in DOMAIN procs \ {i} |-> procs[j]]
  /\ late' = TRUE
  /\ IF i = child
       THEN \E clean \in BOOLEAN : Finalize(i, clean)
       ELSE UNCHANGED <<state, child, pending, cooldown, readyTimer>>
  /\ UNCHANGED <<probe, asks>>

CooldownEnds ==
  /\ cooldown # None /\ cooldown' = None
  /\ Launch(cooldown)
  /\ UNCHANGED <<pending, late, probe, asks>>

----------------------------------------------------------------------------
\* stt_enumerate_capture_devices: no probe while the spawner is up, and never
\* two.  Its end resumes the start requests that wait for it, in one turn.
Enumerate == /\ ~Up /\ ~probe /\ probe' = TRUE
             /\ UNCHANGED <<spawner, asks>>

ProbeEnds ==
  /\ probe /\ probe' = FALSE
  /\ LET waiting == {a \in asks : a.on = "probe"}
         listing == {[cfg |-> a.cfg, on |-> "devices"] :
                       a \in {b \in waiting : b.cfg.mode = "channels"}}
     IN  /\ asks' = (asks \ waiting) \cup listing
         /\ IF \E a \in waiting : a.cfg.mode = "plain"
              THEN \E a \in waiting : /\ a.cfg.mode = "plain" /\ Start(a.cfg)
                                      /\ UNCHANGED <<cooldown, late>>
              ELSE UNCHANGED spawner

Next == \/ \E cfg \in Configs : Request(cfg)
        \/ OrphansReaped \/ DevicesListed \/ Stop
        \/ ReadyLine \/ LateLine \/ ReadyFallback \/ CooldownEnds
        \/ \E i \in Ids : Exit(i)
        \/ Enumerate \/ ProbeEnds

\* Timers fire, probes and lists end, a killed child exits.  A child that is
\* not killed owes nothing: it may stay silent and live on, channel capture too
\* (channels.mjs gives up on missing audio only after a first chunk of it).
Killed == child # None /\ procs[child].killed

Fairness ==
  /\ WF_vars(ReadyFallback) /\ WF_vars(CooldownEnds)
  /\ WF_vars(ProbeEnds) /\ WF_vars(DevicesListed) /\ WF_vars(OrphansReaped)
  /\ WF_vars(Killed /\ Exit(child))

Spec == Init /\ [][Next]_vars /\ Fairness

----------------------------------------------------------------------------
TypeOK ==
  /\ state \in States /\ child \in Ids \cup {None}
  /\ DOMAIN procs \subseteq Ids /\ \A i \in DOMAIN procs : procs[i] \in Process
  /\ pending \in Configs \cup {None} /\ cooldown \in Configs \cup {None}
  /\ readyTimer \in BOOLEAN /\ late \in BOOLEAN /\ probe \in BOOLEAN
  /\ asks \subseteq Ask

\* No two capture processes fight for the microphone, however fast starts and
\* stops follow each other (sttSpawner.ts start, "don't spawn a competing
\* whisper-stream", and the exit handler that relaunches).
OneCapture == Cardinality(DOMAIN procs) <= 1

\* A stop wins over everything the spawner had accepted: nothing is queued,
\* nothing is about to be launched and whatever lives is being killed
\* (sttSpawner.ts stop, "so a stop always wins"), until the next start.
StopHolds == ~Up => /\ pending = None /\ cooldown = None
                    /\ \A i \in DOMAIN procs : procs[i].killed

\* An operator's plain capture never runs beside a device probe: the start
\* waits for the probe, and no probe begins from its acceptance to its end
\* (sttInstaller.ts enumerationInFlight).
ProbeSparesCapture ==
  probe => \A i \in DOMAIN procs :
             LET p == procs[i]
             IN  p.killed \/ p.cfg.boot \/ p.cfg.mode = "channels"

\* What is reported starting or running has a capture to show for it: one that
\* is about to be launched, one queued behind a child that is being killed, or
\* one that lives and, as long as it only starts, has the fallback timer set or
\* is a channel capture, which has none (sttSpawner.ts start, finalize, launch,
\* markReady).
UpHasCapture ==
  Up => \/ cooldown # None
        \/ /\ child # None
           /\ IF procs[child].killed
                THEN pending # None
                ELSE state = "starting" =>
                       readyTimer \/ procs[child].cfg.mode = "channels"

\* A start that was accepted comes to a child of its own, an error or a stop,
\* whatever exits, queues and cooldowns come between; and a plain child that
\* lives is reported running even if it never says a word (sttSpawner.ts
\* finalize, launch and the ready fallback).  Only a channel capture may be left
\* starting, for as long as it is silent.
StartIsAnswered ==
  state = "starting" ~>
    \/ state \in {"error", "stopped"}
    \/ /\ child # None /\ ~Killed
       /\ state = "running" \/ procs[child].cfg.mode = "channels"
=============================================================================
