------------------------------- MODULE MCSync -------------------------------
(***************************************************************************)
(* Cloud sync of a show, whose lossy copies are not pulled and whose rows  *)
(* web clients delete, and a deck, whose stored copy is read again before  *)
(* a pull.  Either one desktop with web clients, old clients and faults,   *)
(* or two desktops that share the deck while nothing fails, or one desktop *)
(* and the show with an old client, on one stamp more; each signs in once  *)
(* and for all where nothing fails, before or after a save.                *)
(***************************************************************************)
EXTENDS CloudSync

CONSTANTS show, deck, laptop, desk

VARIABLE plan

ShowsAndDecks == <<"shows", "decks">>
MCTableOf == [k \in Records |-> IF k = show THEN "shows" ELSE "decks"]

AloneNext ==
  \/ \E k \in Records :
       \/ WebSave(k) \/ OldClientSave(k) \/ WebDelete(k)
       \/ Save(laptop, k) \/ Delete(laptop, k) \/ PushFails(laptop, k)
  \/ Saved(laptop) \/ KickTimer(laptop) \/ IntervalTimer(laptop)
  \/ SyncRequest(laptop) \/ ListFails(laptop) \/ PassStep(laptop)
  \/ SignIn(laptop) \/ SessionSet(laptop) \/ SessionRefused(laptop)
  \/ SignOut(laptop) \/ SignedOut(laptop) \/ Restart(laptop)

TogetherNext ==
  \/ Delete(laptop, deck)
  \/ \E d \in Devices :
       \/ Save(d, deck) \/ Saved(d)
       \/ ctl[d] = Idle /\ SignIn(d)
       \/ SessionSet(d) \/ KickTimer(d) \/ IntervalTimer(d) \/ PassStep(d)

OldClientNext ==
  \/ \E k \in In("shows") :
       \/ WebSave(k) \/ OldClientSave(k) \/ WebDelete(k)
       \/ Save(laptop, k) \/ Delete(laptop, k)
  \/ Saved(laptop)
  \/ ctl[laptop] = Idle /\ SignIn(laptop)
  \/ SessionSet(laptop) \/ KickTimer(laptop) \/ IntervalTimer(laptop)
  \/ PassStep(laptop)

FewStamps == stamps' \subseteq 1 .. 2

PlanInit == Init /\ plan \in {"alone", "together", "old client"}

PlanNext ==
  \/ AloneNext /\ FewStamps /\ plan = "alone" /\ UNCHANGED plan
  \/ TogetherNext /\ FewStamps /\ plan = "together" /\ UNCHANGED plan
  \/ OldClientNext /\ plan = "old client" /\ UNCHANGED plan

PlanSpec == PlanInit /\ [][PlanNext]_<<vars, plan>> /\ Fairness
=============================================================================
