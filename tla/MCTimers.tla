------------------------------ MODULE MCTimers ------------------------------
(***************************************************************************)
(* Two days at the desk.  "takes": rows go up and down on two channels, no *)
(* Planning Center, and the server restarts.  "sync": one channel whose    *)
(* takes meet a Planning Center sync.                                      *)
(***************************************************************************)
EXTENDS LiveRestart

CONSTANTS song, strap, clip

VARIABLE plan

\* The strap opens the next show.
MCShowOf == [r \in Rows |-> IF r = strap THEN "youth" ELSE "sunday"]

In(p) == plan = p /\ UNCHANGED plan

PlanInit == LiveInit /\ plan \in {"takes", "sync"}

PlanNext ==
  \/ TakesNext /\ UNCHANGED <<snapshot, restarts>> /\ In("takes")
  \/ Save /\ In("takes")
  \/ Restart /\ In("takes")
  \/ /\ Next /\ UNCHANGED <<snapshot, restarts>> /\ In("sync")
     /\ takeSeq' <= 2
     /\ \A t \in takes' : t.channel = "program" /\ t.row \in {song, strap}

PlanSpec == PlanInit /\ [][PlanNext]_<<liveVars, plan>>
=============================================================================
