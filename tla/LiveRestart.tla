---------------------------- MODULE LiveRestart ----------------------------
(***************************************************************************)
(* The countdown across a restart of the server.  Every change schedules a *)
(* debounced save of the live state; a server that starts again brings     *)
(* back the last save, unless it is too old or unreadable.                 *)
(***************************************************************************)
EXTENDS ItemTimers

CONSTANT MaxRestarts  \* restarts of a behaviour

VARIABLES
  snapshot,  \* the countdown as last saved
  restarts

liveVars == <<vars, snapshot, restarts>>

ASSUME RestartAssumption == MaxRestarts \in Nat

LiveInit == Init /\ snapshot = None /\ restarts = 0

Save == /\ snapshot' = timer
        /\ UNCHANGED <<vars, restarts>>

\* The sync is off after a restart.  A restored graphic has no row, sessions
\* and video do not come back: no row is on air.
Restart ==
  /\ restarts < MaxRestarts /\ restarts' = restarts + 1
  /\ timer' \in {snapshot, None}
  /\ sync' = Off /\ generation' = 0 /\ pollDue' = FALSE /\ starts' = {}
  /\ asked' = [g \in DOMAIN asked |-> 0]
  /\ air' = [c \in Channels |-> Dark]
  /\ takeSeq' = 0 /\ newest' = [seq |-> 0, row |-> None]
  /\ takes' = {} /\ ends' = {}
  /\ UNCHANGED snapshot

LiveNext == \/ Next /\ UNCHANGED <<snapshot, restarts>>
            \/ Save \/ Restart

LiveSpec == LiveInit /\ [][LiveNext]_liveVars

----------------------------------------------------------------------------
LiveTypeOK == /\ TypeOK
              /\ snapshot \in Timers \cup {None}
              /\ restarts \in 0 .. MaxRestarts
=============================================================================
