---------------------------- MODULE StageOutput ----------------------------
(***************************************************************************)
(* What an output window promises about its stage.  It is asked for one    *)
(* graphic at a time or for none.  A new wish takes the graphic that is up *)
(* out at once, unless the new one reuses its template; only the graphic   *)
(* asked for last is ever put up, however late its template loads; and a   *)
(* graphic asked for whose load fails leaves the stage empty.              *)
(***************************************************************************)
CONSTANTS Graphics,   \* graphics: a take and its template
          TemplateOf, \* [Graphics -> template]
          None

VARIABLES wanted,  \* the graphic asked for last, or None
          up       \* the graphic that is up and not going out, or None

Init == wanted = None /\ up = None

Ask == /\ wanted' \in Graphics
       /\ up' \in {None} \cup {g \in {up} \ {None} :
                                 TemplateOf[g] = TemplateOf[wanted']}
Withdraw == wanted' = None /\ up' = None
PutUp    == wanted # None /\ up' = wanted /\ UNCHANGED wanted

Next == Ask \/ Withdraw \/ PutUp

Spec == Init /\ [][Next]_<<wanted, up>>
=============================================================================
