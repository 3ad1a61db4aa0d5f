-------------------------- MODULE CloudSync_proof --------------------------
(***************************************************************************)
(* Proof, for any number of devices, records and tables, that no edit made *)
(* while signed in waits for the five-minute tick, and that a file goes    *)
(* back to an older version only by the operator's own save or by a pull   *)
(* that has not read the file since its last save.  For the first, a       *)
(* record that waits is in a table the running pass has yet to list, or    *)
(* the pass is to run again, or the debounced timer is set; for the        *)
(* second, what a pass knows of a file is true unless it is in raced.      *)
(***************************************************************************)
EXTENDS CloudSync, TLAPS

Flags == [tokens : BOOLEAN, ticking : BOOLEAN, kick : BOOLEAN,
          rerun : BOOLEAN, joining : BOOLEAN, leaving : BOOLEAN]
Stored == Versions \cup {None}

\* What a pass lists is of its current table, and it moves records of that
\* table once both sides are listed.
Shaped(p) ==
  /\ p \in Passes
  /\ p.here # None => p.left # <<>> /\ p.here \in [In(Head(p.left)) -> Stored]
  /\ p.there # None => p.left # <<>> /\ p.there \in [In(Head(p.left)) -> Stored]
  /\ p.todo # {} => p.here # None /\ p.there # None /\ p.todo \subseteq In(Head(p.left))

\* Record k is of a table that pass p has yet to list here.
ToCome(p, k) ==
  \E i \in DOMAIN p.left : /\ p.left[i] = TableOf[k]
                           /\ p.here # None => i # 1

\* With flags c, pass p and the records w waiting: nothing waits without
\* tokens, and what waits is due.
Due(c, p, w) ==
  IF c.tokens
    THEN c.ticking /\ w # {} =>
           c.kick \/ c.rerun \/ (p # None /\ \A k \in w : ToCome(p, k))
    ELSE w = {}

Stores == /\ local \in [Devices -> Copies] /\ registry \in [Devices -> Copies]
          /\ cloud \in Copies /\ stamps \subseteq 1 .. MaxAt
          /\ saving \in [Devices -> Records \cup {None}]

Control == /\ ctl \in [Devices -> Flags]
           /\ pass \in [Devices -> Passes \cup {None}]
           /\ waiting \in [Devices -> SUBSET Records]
           /\ \A d \in Devices : /\ pass[d] # None => Shaped(pass[d])
                                 /\ Due(ctl[d], pass[d], waiting[d])

Counts == raced \in [Devices -> SUBSET Records] /\ faults \in 0 .. MaxFaults

IInv == Stores /\ Control /\ Counts

LEMMA Implies == IInv => TypeOK /\ EditsDoNotWait
<1> SUFFICES ASSUME IInv PROVE TypeOK /\ EditsDoNotWait
  OBVIOUS
<1>1. TypeOK
  BY DEF IInv, Stores, Control, Counts, TypeOK, Flags
<1>2. EditsDoNotWait
  BY DEF IInv, Control, Due, ToCome, EditsDoNotWait
<1>. QED
  BY <1>1, <1>2

\* Every table is to come in a new pass.
LEMMA NewPasses ==
  /\ Shaped(NewPass) /\ NewPass \in Passes /\ NewPass # None
  /\ \A k \in Records : ToCome(NewPass, k)
<1>1. NewPass.left = Tables /\ NewPass.here = None /\ NewPass.there = None
      /\ NewPass.todo = {}
  BY DEF NewPass
<1>2. NewPass \in Passes
  BY CloudAssumption DEF NewPass, Passes, Listings
<1>3. \A k \in Records : \E i \in DOMAIN Tables : Tables[i] = TableOf[k]
  BY CloudAssumption DEF TableSet
<1>. QED
  BY <1>1, <1>2, <1>3, PassAssumption DEF ToCome, Shaped

LEMMA InitHolds == Init => IInv
<1> SUFFICES ASSUME Init PROVE IInv
  OBVIOUS
<1>1. [k \in Records |-> None] \in Copies
  BY DEF Copies
<1>2. Stores /\ Counts
  BY <1>1, CloudAssumption DEF Init, Stores, Counts
<1>3. Idle \in Flags /\ ~Idle.tokens
  BY DEF Idle, Flags
<1>4. Control
  BY <1>3 DEF Init, Control, Due
<1>. QED
  BY <1>2, <1>4 DEF IInv

----------------------------------------------------------------------------
\* What a step does to the control of one device.
LEMMA OneDevice ==
  ASSUME Control, NEW d \in Devices,
         NEW c \in Flags, NEW p \in Passes \cup {None}, NEW w \in SUBSET Records,
         ctl' = [ctl EXCEPT ![d] = c], pass' = [pass EXCEPT ![d] = p],
         waiting' = [waiting EXCEPT ![d] = w],
         p # None => Shaped(p), Due(c, p, w)
  PROVE  Control'
<1>1. /\ ctl' \in [Devices -> Flags]
      /\ pass' \in [Devices -> Passes \cup {None}]
      /\ waiting' \in [Devices -> SUBSET Records]
  BY DEF Control
<1>2. ASSUME NEW e \in Devices
      PROVE  /\ pass'[e] # None => Shaped(pass'[e])
             /\ Due(ctl'[e], pass'[e], waiting'[e])
  <2>1. CASE e = d
    <3>1. ctl'[e] = c /\ pass'[e] = p /\ waiting'[e] = w
      BY <2>1 DEF Control
    <3>. QED
      BY <3>1
  <2>2. CASE e # d
    <3>1. ctl'[e] = ctl[e] /\ pass'[e] = pass[e] /\ waiting'[e] = waiting[e]
      BY <2>2 DEF Control
    <3>. QED
      BY <3>1 DEF Control
  <2>. QED
    BY <2>1, <2>2
<1>. QED
  BY <1>1, <1>2 DEF Control

LEMMA Same ==
  ASSUME Control, NEW d \in Devices
  PROVE  /\ ctl = [ctl EXCEPT ![d] = ctl[d]]
         /\ pass = [pass EXCEPT ![d] = pass[d]]
         /\ waiting = [waiting EXCEPT ![d] = waiting[d]]
         /\ ctl[d] \in Flags /\ pass[d] \in Passes \cup {None}
         /\ waiting[d] \in SUBSET Records
         /\ pass[d] # None => Shaped(pass[d])
         /\ Due(ctl[d], pass[d], waiting[d])
BY DEF Control

LEMMA ControlStays ==
  ASSUME Control, UNCHANGED <<ctl, pass, waiting>>
  PROVE  Control'
BY DEF Control

\* A pass is asked for where the flags are c: nothing stays behind.
LEMMA RunSyncKeeps ==
  ASSUME Control, Counts, NEW d \in Devices, NEW c \in Flags, RunSync(d, c),
         UNCHANGED waiting, ctl[d].tokens = c.tokens
  PROVE  Control' /\ raced' \in [Devices -> SUBSET Records]
<1> USE NewPasses
<1>1. CASE c.tokens /\ pass[d] = None
  <2>1. ctl' = [ctl EXCEPT ![d] = c] /\ pass' = [pass EXCEPT ![d] = NewPass]
        /\ raced' = [raced EXCEPT ![d] = {}]
    BY <1>1 DEF RunSync
  <2>2. Due(c, NewPass, waiting[d])
    BY <1>1, Same DEF Due
  <2>3. Control'
    BY <2>1, <2>2, Same, OneDevice
  <2>. QED
    BY <2>1, <2>3 DEF Counts
<1>2. CASE ~(c.tokens /\ pass[d] = None)
  <2> DEFINE z == IF c.tokens THEN [c EXCEPT !.rerun = TRUE] ELSE c
  <2>1. ctl' = [ctl EXCEPT ![d] = z] /\ pass' = pass /\ raced' = raced
    BY <1>2 DEF RunSync
  <2>2. z \in Flags /\ z.tokens = c.tokens /\ (c.tokens => z.rerun)
    BY DEF Flags
  <2> HIDE DEF z
  <2>3. Due(z, pass[d], waiting[d])
    BY <2>2, Same DEF Due
  <2>4. Control'
    BY <2>1, <2>2, <2>3, Same, OneDevice
  <2>. QED
    BY <2>1, <2>4 DEF Counts
<1>. QED
  BY <1>1, <1>2

\* The pass goes on with p, which is as far as the device's pass or has just
\* listed a table: what waited and still waits is due as before.
LEMMA Continues ==
  ASSUME Control, Counts, NEW d \in Devices, NEW p \in Passes, Shaped(p),
         p.left # <<>>, Continue(d, p), UNCHANGED ctl,
         NEW w \in SUBSET Records, waiting' = [waiting EXCEPT ![d] = w],
         Due(ctl[d], p, w),
         ~ctl[d].kick /\ ~ctl[d].rerun =>
           \A k \in w : ToCome(p, k) => TableOf[k] # Head(p.left) \/ p.here # None
  PROVE  Control' /\ raced' \in [Devices -> SUBSET Records]
<1>1. CASE p.todo # {}
  <2>1. pass' = [pass EXCEPT ![d] = p] /\ raced' = raced
    BY <1>1 DEF Continue
  <2>2. Control'
    BY <2>1, Same, OneDevice
  <2>. QED
    BY <2>1, <2>2 DEF Counts
<1>2. CASE p.todo = {}
  <2> DEFINE z == [p EXCEPT !.left = Tail(@), !.here = None, !.there = None]
  <2>1. pass' = [pass EXCEPT ![d] = z] /\ raced' = [raced EXCEPT ![d] = {}]
    BY <1>2 DEF Continue
  <2>2. p.left \in Seq(TableSet)
    BY DEF Passes
  <2>3. Tail(p.left) \in Seq(TableSet)
    BY <2>2
  <2>4. z \in Passes /\ z.here = None /\ z.there = None /\ z.todo = {}
        /\ z.left = Tail(p.left)
    BY <1>2, <2>3 DEF Passes, Listings
  <2>5. Shaped(z) /\ z # None
    BY <2>4, PassAssumption DEF Shaped
  <2>6. ASSUME NEW k \in w, ToCome(p, k), TableOf[k] # Head(p.left) \/ p.here # None
        PROVE  ToCome(z, k)
    <3>1. PICK i \in DOMAIN p.left : p.left[i] = TableOf[k] /\ i # 1
      BY <2>2, <2>6 DEF ToCome
    <3>2. i - 1 \in DOMAIN Tail(p.left) /\ Tail(p.left)[i - 1] = TableOf[k]
      BY <2>2, <3>1
    <3>. QED
      BY <2>4, <3>2 DEF ToCome
  <2> HIDE DEF z
  <2>7. Due(ctl[d], z, w)
    BY <2>5, <2>6 DEF Due
  <2>8. Control'
    BY <2>1, <2>4, <2>5, <2>7, Same, OneDevice
  <2>. QED
    BY <2>1, <2>8 DEF Counts
<1>. QED
  BY <1>1, <1>2

----------------------------------------------------------------------------
\* Saves and deletes, here and in the cloud.

LEMMA FreshVersions ==
  /\ \A dead, lossy \in BOOLEAN : Fresh(dead, lossy) \subseteq Versions
  /\ \A v \in Stored : Edited(v) \subseteq Versions
<1>1. \A dead, lossy \in BOOLEAN : Fresh(dead, lossy) \subseteq Versions
  BY DEF Fresh, Versions
<1>2. ASSUME NEW v \in Stored, NEW x \in Edited(v)
      PROVE  x \in Versions
  <2>1. PICK lossy \in {FALSE} \cup (IF v = None THEN {} ELSE {v.lossy}) :
          x \in Fresh(FALSE, lossy)
    BY <1>2 DEF Edited
  <2>2. lossy \in BOOLEAN
    BY DEF Stored, Versions
  <2>. QED
    BY <1>1, <2>1, <2>2
<1>. QED
  BY <1>1, <1>2

LEMMA WriteKeeps ==
  ASSUME IInv, NEW d \in Devices, NEW k \in Records, NEW v \in Versions,
         Write(d, k, v)
  PROVE  IInv'
<1>1. UNCHANGED <<ctl, pass, waiting, cloud, faults>>
  BY DEF Write
<1>2. v.at \in 1 .. MaxAt
  BY DEF Versions
<1>3. local' \in [Devices -> Copies] /\ registry' \in [Devices -> Copies]
  BY DEF Write, IInv, Stores, Copies
<1>4. Stores'
  BY <1>1, <1>2, <1>3 DEF Write, IInv, Stores
<1>5. Counts'
  BY <1>1 DEF Write, IInv, Counts
<1>. QED
  BY <1>1, <1>4, <1>5, ControlStays DEF IInv

LEMMA EditsKeep ==
  ASSUME IInv, NEW d \in Devices, NEW k \in Records, Save(d, k) \/ Delete(d, k)
  PROVE  IInv'
<1>1. registry[d][k] \in Stored
  BY DEF IInv, Stores, Copies, Stored
<1>2. PICK v \in Versions : Write(d, k, v)
  <2>1. CASE Save(d, k)
    BY <1>1, <2>1, FreshVersions DEF Save
  <2>2. CASE Delete(d, k)
    <3>1. registry[d][k].lossy \in BOOLEAN
      BY <1>1, <2>2 DEF Delete, Live, Stored, Versions
    <3>. QED
      BY <2>2, <3>1, FreshVersions DEF Delete
  <2>. QED
    BY <2>1, <2>2
<1>. QED
  BY <1>2, WriteKeeps

LEMMA WebKeeps ==
  ASSUME IInv, NEW k \in Records, WebSave(k) \/ OldClientSave(k) \/ WebDelete(k)
  PROVE  IInv'
<1>1. cloud[k] \in Stored
  BY DEF IInv, Stores, Copies, Stored
<1>2. PICK v \in Stored : CloudBecomes(k, v)
  <2>1. CASE WebSave(k)
    BY <1>1, <2>1, FreshVersions DEF WebSave, Stored
  <2>2. CASE OldClientSave(k)
    BY <2>2, FreshVersions DEF OldClientSave, Stored
  <2>3. CASE WebDelete(k)
    <3>1. cloud[k].lossy \in BOOLEAN
      BY <1>1, <2>3 DEF WebDelete, Live, Stored, Versions
    <3>. QED
      BY <2>3, <3>1, FreshVersions DEF WebDelete, Stored
  <2>. QED
    BY <2>1, <2>2, <2>3
<1>3. UNCHANGED <<local, registry, ctl, pass, saving, raced, waiting, faults>>
      /\ cloud' = [cloud EXCEPT ![k] = v]
      /\ stamps' = IF v = None THEN stamps ELSE stamps \cup {v.at}
  BY <1>2 DEF CloudBecomes
<1>4. Stores'
  <2>1. cloud' \in Copies
    BY <1>3 DEF IInv, Stores, Copies, Stored
  <2>2. stamps' \subseteq 1 .. MaxAt
    BY <1>3 DEF IInv, Stores, Stored, Versions
  <2>. QED
    BY <1>3, <2>1, <2>2 DEF IInv, Stores
<1>5. Counts'
  BY <1>3 DEF IInv, Counts
<1>. QED
  BY <1>3, <1>4, <1>5, ControlStays DEF IInv

LEMMA StoresStay == ASSUME Stores, UNCHANGED data PROVE Stores'
BY DEF Stores, data

LEMMA SavedKeeps ==
  ASSUME IInv, NEW d \in Devices, Saved(d)
  PROVE  IInv'
<1>1. saving[d] \in Records
  BY DEF Saved, IInv, Stores
<1>2. Stores' /\ Counts' /\ UNCHANGED pass
  BY DEF Saved, IInv, Stores, Counts
<1>3. Control'
  <2>1. CASE ctl[d].tokens
    <3> DEFINE c == [ctl[d] EXCEPT !.kick = TRUE]
               w == waiting[d] \cup {saving[d]}
    <3>1. ctl' = [ctl EXCEPT ![d] = c] /\ waiting' = [waiting EXCEPT ![d] = w]
      BY <2>1 DEF Saved, ScheduleSync
    <3>2. c \in Flags /\ c.kick /\ w \in SUBSET Records /\ c.tokens
      BY <1>1, <2>1, Same DEF IInv, Flags
    <3> HIDE DEF c, w
    <3>3. Due(c, pass[d], w)
      BY <3>2 DEF Due
    <3>. QED
      BY <1>2, <3>1, <3>2, <3>3, Same, OneDevice DEF IInv
  <2>2. CASE ~ctl[d].tokens
    BY <1>2, <2>2, ControlStays DEF Saved, ScheduleSync, IInv
  <2>. QED
    BY <2>1, <2>2
<1>. QED
  BY <1>2, <1>3 DEF IInv

----------------------------------------------------------------------------
\* Timers, sign-in and sign-out.

LEMMA AsksKeep ==
  ASSUME IInv, NEW d \in Devices,
         KickTimer(d) \/ IntervalTimer(d) \/ SyncRequest(d) \/ SessionSet(d)
  PROVE  IInv'
<1>1. PICK c \in Flags : RunSync(d, c) /\ c.tokens = ctl[d].tokens
  <2>1. ctl[d] \in Flags
    BY DEF IInv, Control
  <2>2. \A z \in {[ctl[d] EXCEPT !.kick = FALSE], ctl[d],
                  [ctl[d] EXCEPT !.joining = FALSE, !.ticking = TRUE]} :
          z \in Flags /\ z.tokens = ctl[d].tokens
    BY <2>1 DEF Flags
  <2>. QED
    BY <2>1, <2>2 DEF KickTimer, IntervalTimer, SyncRequest, SessionSet
<1>2. UNCHANGED <<data, waiting, faults>>
  BY DEF KickTimer, IntervalTimer, SyncRequest, SessionSet
<1>3. Control' /\ raced' \in [Devices -> SUBSET Records]
  BY <1>1, <1>2, RunSyncKeeps DEF IInv
<1>. QED
  BY <1>2, <1>3, StoresStay DEF IInv, Counts

LEMMA Faults ==
  ASSUME Counts, Fault \/ UNCHANGED faults, UNCHANGED raced
  PROVE  Counts'
BY CloudAssumption DEF Counts, Fault

LEMMA SessionKeeps ==
  ASSUME IInv, NEW d \in Devices,
         SignIn(d) \/ SessionRefused(d) \/ SignOut(d) \/ SignedOut(d)
  PROVE  IInv'
<1> DEFINE c == ctl[d]
<1>0. c \in Flags /\ Due(c, pass[d], waiting[d])
  BY Same DEF IInv
<1>1. Stores' /\ Counts' /\ UNCHANGED pass
  BY StoresStay, Faults DEF SignIn, SessionRefused, SignOut, SignedOut, IInv
<1>2. PICK z \in Flags, w \in SUBSET Records :
        /\ ctl' = [ctl EXCEPT ![d] = z] /\ waiting' = [waiting EXCEPT ![d] = w]
        /\ Due(z, pass[d], w)
  <2>1. CASE SignIn(d)
    <3> DEFINE z == [c EXCEPT !.tokens = TRUE, !.joining = TRUE]
    <3>1. ctl' = [ctl EXCEPT ![d] = z] /\ waiting' = [waiting EXCEPT ![d] = waiting[d]]
      BY <2>1, Same DEF SignIn, IInv
    <3>2. z \in Flags /\ z.kick = c.kick /\ z.rerun = c.rerun /\ z.ticking = c.ticking
      BY <1>0 DEF Flags
    <3>3. Due(z, pass[d], waiting[d])
      BY <1>0, <3>2 DEF Due
    <3>. QED
      BY <3>1, <3>2, <3>3, Same DEF IInv
  <2>2. CASE SessionRefused(d)
    <3> DEFINE z == [c EXCEPT !.joining = FALSE]
    <3>1. ctl' = [ctl EXCEPT ![d] = z] /\ waiting' = [waiting EXCEPT ![d] = waiting[d]]
      BY <2>2, Same DEF SessionRefused, IInv
    <3>2. /\ z \in Flags /\ z.kick = c.kick /\ z.rerun = c.rerun
          /\ z.ticking = c.ticking /\ z.tokens = c.tokens
      BY <1>0 DEF Flags
    <3>3. Due(z, pass[d], waiting[d])
      BY <1>0, <3>2 DEF Due
    <3>. QED
      BY <3>1, <3>2, <3>3, Same DEF IInv
  <2>3. CASE SignOut(d)
    <3> DEFINE z == [c EXCEPT !.tokens = FALSE, !.leaving = TRUE]
    <3>1. ctl' = [ctl EXCEPT ![d] = z] /\ waiting' = [waiting EXCEPT ![d] = {}]
      BY <2>3 DEF SignOut, IInv, Control
    <3>2. z \in Flags /\ ~z.tokens
      BY <1>0 DEF Flags
    <3>3. Due(z, pass[d], {})
      BY <3>2 DEF Due
    <3>. QED
      BY <3>1, <3>2, <3>3
  <2>4. CASE SignedOut(d)
    <3> DEFINE z == [c EXCEPT !.leaving = FALSE, !.ticking = FALSE,
                              !.kick = FALSE, !.rerun = FALSE]
    <3>1. ctl' = [ctl EXCEPT ![d] = z] /\ waiting' = [waiting EXCEPT ![d] = waiting[d]]
      BY <2>4, Same DEF SignedOut, IInv
    <3>2. z \in Flags /\ ~z.ticking /\ z.tokens = c.tokens
      BY <1>0 DEF Flags
    <3>3. Due(z, pass[d], waiting[d])
      BY <1>0, <3>2 DEF Due
    <3>. QED
      BY <3>1, <3>2, <3>3, Same DEF IInv
  <2>. QED
    BY <2>1, <2>2, <2>3, <2>4
<1>3. Control'
  BY <1>1, <1>2, Same, OneDevice DEF IInv
<1>. QED
  BY <1>1, <1>3 DEF IInv

LEMMA RestartKeeps ==
  ASSUME IInv, NEW d \in Devices, Restart(d)
  PROVE  IInv'
<1>1. Idle \in Flags /\ ~Idle.tokens
  BY DEF Idle, Flags
<1>2. Due(Idle, None, {})
  BY <1>1 DEF Due
<1>3. Control'
  BY <1>1, <1>2, OneDevice DEF Restart, IInv
<1>4. Stores'
  BY DEF Restart, IInv, Stores
<1>5. Counts'
  BY CloudAssumption DEF Restart, IInv, Counts, Fault
<1>. QED
  BY <1>3, <1>4, <1>5 DEF IInv

----------------------------------------------------------------------------
\* The steps of a pass.

LEMMA ListedKeeps ==
  ASSUME Control, Counts, NEW d \in Devices, NEW p \in Passes, Shaped(p),
         p.left # <<>>, p.todo = {}, Listed(d, p), UNCHANGED ctl,
         NEW w \in SUBSET Records, waiting' = [waiting EXCEPT ![d] = w],
         Due(ctl[d], p, w)
  PROVE  Control' /\ raced' \in [Devices -> SUBSET Records]
<1>1. CASE p.here = None \/ p.there = None
  <2>1. pass' = [pass EXCEPT ![d] = p] /\ raced' = raced
    BY <1>1 DEF Listed
  <2>2. Control'
    BY <2>1, Same, OneDevice
  <2>. QED
    BY <2>1, <2>2 DEF Counts
<1>2. CASE p.here # None /\ p.there # None
  <2> DEFINE moves == {k \in DOMAIN p.here : \/ Pushes(p.here[k], p.there[k])
                                            \/ Pulls(k, p.here[k], p.there[k])}
             z == [p EXCEPT !.todo = moves]
  <2>1. moves \subseteq In(Head(p.left)) /\ moves \subseteq Records
    BY <1>2 DEF Shaped, In
  <2>2. Continue(d, z)
    BY <1>2 DEF Listed
  <2> HIDE DEF moves
  <2>3. z \in Passes /\ z.left = p.left /\ z.here = p.here /\ z.there = p.there
        /\ z.todo = moves
    BY <2>1 DEF Passes
  <2>4. Shaped(z) /\ z # None
    BY <1>2, <2>1, <2>3, PassAssumption DEF Shaped
  <2> HIDE DEF z
  <2>5. \A k \in w : ToCome(p, k) => ToCome(z, k)
    BY <2>3 DEF ToCome
  <2>6. Due(ctl[d], z, w)
    BY <2>4, <2>5 DEF Due
  <2>. QED
    BY <1>2, <2>2, <2>3, <2>4, <2>6, Continues
<1>. QED
  BY <1>1, <1>2

LEMMA ListingPass ==
  ASSUME Control, NEW d \in Devices, Listing(d)
  PROVE  /\ pass[d] \in Passes /\ Shaped(pass[d]) /\ pass[d].left # <<>>
         /\ pass[d].todo = {} /\ Head(pass[d].left) \in TableSet
         /\ pass[d].left \in Seq(TableSet)
<1>1. pass[d] \in Passes /\ Shaped(pass[d]) /\ pass[d].left # <<>>
  BY Same DEF Listing
<1>2. pass[d].todo = {}
  BY <1>1 DEF Listing, Shaped
<1>3. pass[d].left \in Seq(TableSet)
  BY <1>1 DEF Passes
<1>. QED
  BY <1>1, <1>2, <1>3

\* A listing of a table.
LEMMA Lists ==
  ASSUME NEW c \in Copies, NEW t \in TableSet
  PROVE  LET f == [k \in In(t) |-> c[k]] IN f \in [In(t) -> Stored] /\ f \in Listings
<1> DEFINE f == [k \in In(t) |-> c[k]]
<1>1. In(t) \subseteq Records
  BY DEF In
<1>2. f \in [In(t) -> Stored]
  BY <1>1 DEF Copies, Stored
<1> HIDE DEF f
<1>3. f \in Listings
  BY <1>2 DEF Stored, Listings
<1>. QED
  BY <1>2, <1>3 DEF f

LEMMA ListHereKeeps ==
  ASSUME IInv, NEW d \in Devices, ListHere(d)
  PROVE  IInv'
<1> DEFINE q == pass[d]
           t == Head(q.left)
           f == [k \in In(t) |-> local[d][k]]
           p == [q EXCEPT !.here = f]
           w == waiting[d] \ In(t)
<1>1. q \in Passes /\ Shaped(q) /\ q.left # <<>> /\ q.todo = {} /\ t \in TableSet
      /\ q.left \in Seq(TableSet) /\ q.here = None
  BY ListingPass DEF ListHere, IInv
<1>2. f \in [In(t) -> Stored] /\ f \in Listings
  BY <1>1, Lists DEF IInv, Stores
<1>3. Listed(d, p) /\ waiting' = [waiting EXCEPT ![d] = w] /\ UNCHANGED <<data, ctl, faults>>
  BY DEF ListHere, IInv, Control
<1> HIDE DEF f
<1>4. p \in Passes /\ p.left = q.left /\ p.here = f /\ p.there = q.there /\ p.todo = {}
  BY <1>1, <1>2 DEF Passes
<1>5. Shaped(p) /\ p # None
  BY <1>1, <1>2, <1>4, PassAssumption DEF Shaped
<1> HIDE DEF p
<1>6. w \in SUBSET Records /\ w \subseteq waiting[d] /\ \A k \in w : TableOf[k] # t
  BY Same DEF IInv, In
<1>7. \A k \in w : ToCome(q, k) => ToCome(p, k)
  <2>1. t = q.left[1]
    BY <1>1
  <2>. QED
    BY <1>4, <1>6, <2>1 DEF ToCome
<1> HIDE DEF w, q, t
<1>8. Due(ctl[d], p, w)
  <2>1. Due(ctl[d], q, waiting[d])
    BY Same DEF IInv, q
  <2>. QED
    BY <1>5, <1>6, <1>7, <2>1 DEF Due
<1>9. Control' /\ raced' \in [Devices -> SUBSET Records]
  BY <1>1, <1>3, <1>4, <1>5, <1>6, <1>8, ListedKeeps DEF IInv
<1>. QED
  BY <1>3, <1>9, StoresStay DEF IInv, Counts

LEMMA ListThereKeeps ==
  ASSUME IInv, NEW d \in Devices, ListThere(d)
  PROVE  IInv'
<1> DEFINE q == pass[d]
           t == Head(q.left)
           f == [k \in In(t) |-> cloud[k]]
           p == [q EXCEPT !.there = f]
<1>1. q \in Passes /\ Shaped(q) /\ q.left # <<>> /\ q.todo = {} /\ t \in TableSet
  BY ListingPass DEF ListThere, IInv
<1>2. f \in [In(t) -> Stored] /\ f \in Listings
  BY <1>1, Lists DEF IInv, Stores
<1>3. Listed(d, p) /\ UNCHANGED <<data, ctl, waiting, faults>>
  BY DEF ListThere
<1> HIDE DEF f
<1>4. p \in Passes /\ p.left = q.left /\ p.there = f /\ p.here = q.here /\ p.todo = {}
  BY <1>1, <1>2 DEF Passes
<1>5. Shaped(p) /\ p # None
  BY <1>1, <1>2, <1>4, PassAssumption DEF Shaped
<1> HIDE DEF p
<1>6. \A k \in Records : ToCome(q, k) => ToCome(p, k)
  BY <1>4 DEF ToCome
<1>7. Due(ctl[d], p, waiting[d])
  <2>1. Due(ctl[d], q, waiting[d]) /\ waiting[d] \in SUBSET Records
    BY Same DEF IInv
  <2> HIDE DEF q
  <2>. QED
    BY <1>5, <1>6, <2>1 DEF Due
<1> HIDE DEF q, t
<1>8. Control' /\ raced' \in [Devices -> SUBSET Records]
  BY <1>1, <1>3, <1>4, <1>5, <1>7, Same, ListedKeeps DEF IInv
<1>. QED
  BY <1>3, <1>8, StoresStay DEF IInv, Counts

LEMMA ListFailsKeeps ==
  ASSUME IInv, NEW d \in Devices, ListFails(d)
  PROVE  IInv'
<1> DEFINE q == pass[d]
           w == waiting[d] \ In(Head(q.left))
<1>1. q \in Passes /\ Shaped(q) /\ q.left # <<>>
  BY ListingPass DEF ListFails, IInv
<1>2. Continue(d, q) /\ waiting' = [waiting EXCEPT ![d] = w] /\ UNCHANGED <<data, ctl>>
      /\ Fault
  BY DEF ListFails, IInv, Control
<1>3. w \in SUBSET Records /\ w \subseteq waiting[d]
      /\ \A k \in w : TableOf[k] # Head(q.left)
  BY Same DEF IInv, In
<1>4. Due(ctl[d], q, w)
  <2>1. Due(ctl[d], q, waiting[d])
    BY Same DEF IInv
  <2> HIDE DEF q, w
  <2>. QED
    BY <1>3, <2>1 DEF Due
<1> HIDE DEF q, w
<1>5. Control' /\ raced' \in [Devices -> SUBSET Records]
  BY <1>1, <1>2, <1>3, <1>4, Continues DEF IInv
<1>6. faults' \in 0 .. MaxFaults
  BY <1>2, CloudAssumption DEF Fault, IInv, Counts
<1>. QED
  BY <1>2, <1>5, <1>6, StoresStay DEF IInv, Counts

\* A record is dealt with.
LEMMA DoneKeeps ==
  ASSUME IInv, NEW d \in Devices, NEW k \in Records, NEW written \in BOOLEAN,
         Moving(d), Done(d, k, written), UNCHANGED <<ctl, waiting>>
  PROVE  Control' /\ raced' \in [Devices -> SUBSET Records]
<1> DEFINE q == pass[d]
           moved == IF written THEN q.moved \cup {TableOf[k]} ELSE q.moved
           p == [q EXCEPT !.todo = @ \ {k}, !.held = None, !.moved = moved]
<1>1. q \in Passes /\ Shaped(q) /\ q # None /\ q.todo # {}
  BY Same DEF IInv, Moving
<1>2. q.here # None /\ q.there # None /\ q.left # <<>> /\ q.todo \subseteq In(Head(q.left))
  BY <1>1 DEF Shaped
<1>3. moved \in SUBSET TableSet
  BY <1>1, CloudAssumption DEF Passes
<1>4. Continue(d, p)
  BY DEF Done
<1> HIDE DEF moved
<1>5. /\ p \in Passes /\ p.left = q.left /\ p.here = q.here /\ p.there = q.there
      /\ p.todo = q.todo \ {k}
  BY <1>1, <1>3 DEF Passes
<1>6. Shaped(p) /\ p # None
  BY <1>1, <1>2, <1>5, PassAssumption DEF Shaped
<1> HIDE DEF p
<1>7. \A r \in Records : ToCome(q, r) => ToCome(p, r)
  BY <1>5 DEF ToCome
<1>8. Due(ctl[d], p, waiting[d]) /\ waiting[d] \in SUBSET Records
  <2>1. Due(ctl[d], q, waiting[d]) /\ waiting[d] \in SUBSET Records
    BY Same DEF IInv
  <2> HIDE DEF q
  <2>. QED
    BY <1>6, <1>7, <2>1 DEF Due
<1> HIDE DEF q
<1>. QED
  BY <1>2, <1>4, <1>5, <1>6, <1>8, Same, Continues DEF IInv

\* What the pass lists of a record it moves.
LEMMA Moved ==
  ASSUME IInv, NEW d \in Devices, Moving(d), NEW k \in pass[d].todo
  PROVE  pass[d].here[k] \in Stored /\ pass[d].there[k] \in Stored
<1>1. Shaped(pass[d]) /\ pass[d].todo # {}
  BY Same DEF IInv, Moving
<1>. QED
  BY <1>1 DEF Shaped

LEMMA PushKeeps ==
  ASSUME IInv, NEW d \in Devices, NEW k \in Records, Push(d, k) \/ PushFails(d, k)
  PROVE  IInv'
<1>1. /\ Moving(d) /\ k \in pass[d].todo
      /\ \E written \in BOOLEAN : Done(d, k, written)
      /\ UNCHANGED <<local, registry, stamps, saving, ctl, waiting>>
      /\ UNCHANGED faults \/ Fault
      /\ cloud' = cloud \/ cloud' = [cloud EXCEPT ![k] = pass[d].here[k]]
  BY DEF Push, PushFails, Pushing
<1>2. pass[d].here[k] \in Stored
  BY <1>1, Moved
<1>3. Stores'
  BY <1>1, <1>2 DEF IInv, Stores, Copies, Stored
<1>4. Control' /\ raced' \in [Devices -> SUBSET Records]
  BY <1>1, DoneKeeps
<1>5. faults' \in 0 .. MaxFaults
  BY <1>1, CloudAssumption DEF Fault, IInv, Counts
<1>. QED
  BY <1>3, <1>4, <1>5 DEF IInv, Counts

LEMMA PullKeeps ==
  ASSUME IInv, NEW d \in Devices, NEW k \in Records, Pull(d, k)
  PROVE  IInv'
<1>1. /\ Moving(d) /\ k \in pass[d].todo /\ Done(d, k, TRUE)
      /\ UNCHANGED <<registry, cloud, stamps, saving, ctl, waiting, faults>>
      /\ local' = [local EXCEPT ![d][k] = pass[d].there[k]]
  BY DEF Pull, Pulling
<1>2. pass[d].there[k] \in Stored
  BY <1>1, Moved
<1>3. Stores'
  BY <1>1, <1>2 DEF IInv, Stores, Copies, Stored
<1>4. Control' /\ raced' \in [Devices -> SUBSET Records]
  BY <1>1, DoneKeeps
<1>. QED
  BY <1>1, <1>3, <1>4 DEF IInv, Counts

\* A step that changes neither what the pass listed nor what it has to move.
LEMMA AsideKeeps ==
  ASSUME IInv, NEW d \in Devices, pass[d] # None, NEW p \in Passes,
         pass' = [pass EXCEPT ![d] = p],
         p.left = pass[d].left, p.here = pass[d].here,
         p.there = pass[d].there, p.todo = pass[d].todo,
         raced' \in [Devices -> SUBSET Records], UNCHANGED <<ctl, waiting, faults>>
  PROVE  Control' /\ Counts'
<1> DEFINE q == pass[d]
<1>1. Shaped(q) /\ Due(ctl[d], q, waiting[d]) /\ waiting[d] \in SUBSET Records
  BY Same DEF IInv
<1>2. Shaped(p) /\ p # None /\ \A r \in Records : ToCome(q, r) => ToCome(p, r)
  BY <1>1, PassAssumption DEF Shaped, ToCome
<1>3. Due(ctl[d], p, waiting[d])
  <2> HIDE DEF q
  <2>. QED
    BY <1>1, <1>2 DEF Due
<1>4. Control'
  BY <1>2, <1>3, Same, OneDevice DEF IInv
<1>. QED
  BY <1>4 DEF IInv, Counts

LEMMA RecheckKeeps ==
  ASSUME IInv, NEW d \in Devices, NEW k \in Records, Recheck(d, k)
  PROVE  IInv'
<1>1. Moving(d) /\ UNCHANGED <<data, ctl, waiting, faults>>
  BY DEF Recheck, Pulling
<1>2. CASE Done(d, k, TRUE)
  <2>1. Control' /\ raced' \in [Devices -> SUBSET Records]
    BY <1>1, <1>2, DoneKeeps
  <2>. QED
    BY <1>1, <2>1, StoresStay DEF IInv, Counts
<1>3. CASE Hold(d, k)
  <2> DEFINE p == [pass[d] EXCEPT !.held = k]
  <2>1. pass[d] # None /\ pass[d] \in Passes
    BY <1>1, Same DEF Moving, IInv
  <2>2. /\ p \in Passes /\ p.left = pass[d].left /\ p.here = pass[d].here
        /\ p.there = pass[d].there /\ p.todo = pass[d].todo
    BY <2>1 DEF Passes
  <2>3. pass' = [pass EXCEPT ![d] = p]
    BY <1>3 DEF Hold
  <2>4. raced' \in [Devices -> SUBSET Records]
    BY <1>3 DEF Hold, IInv, Counts
  <2> HIDE DEF p
  <2>. QED
    BY <1>1, <2>1, <2>2, <2>3, <2>4, AsideKeeps, StoresStay DEF IInv
<1>. QED
  BY <1>2, <1>3 DEF Recheck

LEMMA ReloadKeeps ==
  ASSUME IInv, NEW d \in Devices,
         SetRegistry(d) \/ \E k \in Records : ReadFiles(d, TableOf[k])
  PROVE  IInv'
<1>1. /\ pass[d] # None /\ pass[d] \in Passes
      /\ UNCHANGED <<ctl, raced, waiting, faults>>
      /\ raced' \in [Devices -> SUBSET Records]
  BY Same DEF SetRegistry, ReadFiles, Reloading, IInv, Counts
<1>2. CASE SetRegistry(d)
  <2> DEFINE p == [pass[d] EXCEPT !.files = None]
             f == pass[d].files
  <2>1. /\ p \in Passes /\ p.left = pass[d].left /\ p.here = pass[d].here
        /\ p.there = pass[d].there /\ p.todo = pass[d].todo
    BY <1>1 DEF Passes, Listings
  <2>2. pass' = [pass EXCEPT ![d] = p]
    BY <1>2 DEF SetRegistry
  <2>3. Control' /\ Counts'
    <3> HIDE DEF p
    <3>. QED
      BY <1>1, <2>1, <2>2, AsideKeeps
  <2>4. f \in Listings /\ f # None
    BY <1>1, <1>2 DEF SetRegistry, Passes
  <2>5. \A k \in DOMAIN f : f[k] \in Stored
    BY <2>4 DEF Listings, Stored
  <2>6. [k \in Records |-> IF k \in DOMAIN f THEN f[k] ELSE registry[d][k]] \in Copies
    BY <2>5 DEF IInv, Stores, Copies, Stored
  <2>7. registry' = [registry EXCEPT ![d] =
          [k \in Records |-> IF k \in DOMAIN f THEN f[k] ELSE registry[d][k]]]
    BY <1>2 DEF SetRegistry, IInv, Stores
  <2>8. Stores'
    BY <1>2, <2>6, <2>7 DEF SetRegistry, IInv, Stores
  <2>. QED
    BY <2>3, <2>8 DEF IInv
<1>3. ASSUME NEW r \in Records, ReadFiles(d, TableOf[r])
      PROVE  IInv'
  <2> DEFINE t == TableOf[r]
             f == [k \in In(t) |-> local[d][k]]
             p == [pass[d] EXCEPT !.files = f, !.moved = @ \ {t}]
  <2>1. t \in TableSet
    BY CloudAssumption
  <2>2. f \in Listings
    BY <2>1 DEF In, IInv, Stores, Copies, Listings
  <2>3. pass' = [pass EXCEPT ![d] = p] /\ UNCHANGED data
    BY <1>3 DEF ReadFiles
  <2> HIDE DEF f, t
  <2>4. /\ p \in Passes /\ p.left = pass[d].left /\ p.here = pass[d].here
        /\ p.there = pass[d].there /\ p.todo = pass[d].todo
    BY <1>1, <2>2 DEF Passes
  <2> HIDE DEF p
  <2>. QED
    BY <1>1, <2>3, <2>4, AsideKeeps, StoresStay DEF IInv
<1>. QED
  BY <1>2, <1>3

LEMMA EndKeeps ==
  ASSUME IInv, NEW d \in Devices, EndPass(d)
  PROVE  IInv'
<1> DEFINE c == [ctl[d] EXCEPT !.rerun = FALSE]
           p == IF ctl[d].rerun /\ ctl[d].tokens THEN NewPass ELSE None
<1>1. /\ pass' = [pass EXCEPT ![d] = p] /\ ctl' = [ctl EXCEPT ![d] = c]
      /\ UNCHANGED <<data, raced, waiting, faults>>
      /\ pass[d] # None /\ pass[d].left = <<>>
  BY DEF EndPass, Reloading
<1>2. ctl[d] \in Flags /\ Due(ctl[d], pass[d], waiting[d]) /\ waiting[d] \in SUBSET Records
  BY Same DEF IInv
<1>3. c \in Flags /\ c.tokens = ctl[d].tokens /\ c.ticking = ctl[d].ticking
      /\ c.kick = ctl[d].kick
  BY <1>2 DEF Flags
<1>4. p \in Passes \cup {None} /\ (p # None => Shaped(p))
  BY NewPasses
<1>5. \A k \in Records : ~ToCome(pass[d], k)
  BY <1>1 DEF ToCome
<1>6. Due(c, p, waiting[d])
  <2>1. CASE ctl[d].rerun /\ ctl[d].tokens
    BY <1>2, <2>1, NewPasses DEF Due
  <2>2. CASE ~ctl[d].tokens
    BY <1>2, <1>3, <2>2 DEF Due
  <2>3. CASE ~ctl[d].rerun
    BY <1>2, <1>3, <1>5, <2>3 DEF Due
  <2>. QED
    BY <2>1, <2>2, <2>3
<1> HIDE DEF c, p
<1>7. Control'
  BY <1>1, <1>3, <1>4, <1>6, Same, OneDevice DEF IInv
<1>. QED
  BY <1>1, <1>7, StoresStay DEF IInv, Counts

----------------------------------------------------------------------------
LEMMA Steps == IInv /\ [Next]_vars => IInv'
<1> SUFFICES ASSUME IInv, [Next]_vars PROVE IInv'
  OBVIOUS
<1>1. CASE UNCHANGED vars
  BY <1>1, StoresStay, ControlStays DEF vars, data, IInv, Counts
<1>2. ASSUME NEW d \in Devices, PassStep(d)
      PROVE  IInv'
  BY <1>2, ListHereKeeps, ListThereKeeps, PushKeeps, RecheckKeeps, PullKeeps,
     ReloadKeeps, EndKeeps DEF PassStep
<1>. QED
  BY <1>1, <1>2, EditsKeep, WebKeeps, SavedKeeps, AsksKeep, SessionKeeps,
     RestartKeeps, ListFailsKeeps, PushKeeps DEF Next

\* Every reachable state satisfies the strengthened invariant.
THEOREM Inductive == Spec => []IInv
BY InitHolds, Steps, PTL DEF Spec

\* The variables keep their types, whatever the devices, records and tables.
THEOREM TypeCorrect == Spec => []TypeOK
BY Inductive, Implies, PTL

\* An edit made while signed in is on its way with every interleaving of
\* saves, timers, passes, sign-ins, failures and restarts (cloudSync.ts
\* runSyncNow, rerunRequested).
THEOREM NoEditWaits == Spec => []EditsDoNotWait
BY Inductive, Implies, PTL

----------------------------------------------------------------------------
(***************************************************************************)
(* What a pull may cost.  Every file of the current table that the pass    *)
(* has read and not yet dealt with is still as it was listed, or was read  *)
(* again and found no newer than the cloud's copy, unless it was saved     *)
(* since it was read last: then its record is in raced.                    *)
(***************************************************************************)
NotAfter(l, v) == l = None \/ ~(l.at > v.at)

Known(f, p, r) ==
  p # None /\ p.here # None =>
    \A k \in DOMAIN p.here \ r :
      /\ p.there = None => f[k] = p.here[k]
      /\ k \in p.todo => \/ f[k] = p.here[k]
                         \/ k = p.held /\ NotAfter(f[k], p.there[k])

AllKnown == \A d \in Devices : Known(local[d], pass[d], raced[d])

\* A pass that has read no file yet knows all it claims.
LEMMA NothingRead ==
  ASSUME NEW f, NEW p, NEW r, p = None \/ p.here = None
  PROVE  Known(f, p, r)
BY DEF Known

\* A step of one device.
LEMMA OneKnown ==
  ASSUME IInv, AllKnown, NEW d \in Devices, NEW f, NEW p, NEW r,
         local' = [local EXCEPT ![d] = f], pass' = [pass EXCEPT ![d] = p],
         raced' = [raced EXCEPT ![d] = r], Known(f, p, r)
  PROVE  AllKnown'
<1>1. /\ local \in [Devices -> Copies] /\ raced \in [Devices -> SUBSET Records]
      /\ pass \in [Devices -> Passes \cup {None}]
  BY DEF IInv, Stores, Control, Counts
<1>2. ASSUME NEW e \in Devices PROVE Known(local'[e], pass'[e], raced'[e])
  <2>1. CASE e = d
    <3>1. local'[e] = f /\ pass'[e] = p /\ raced'[e] = r
      BY <1>1, <2>1
    <3>. QED
      BY <3>1
  <2>2. CASE e # d
    <3>1. local'[e] = local[e] /\ pass'[e] = pass[e] /\ raced'[e] = raced[e]
      BY <1>1, <2>2
    <3>. QED
      BY <3>1 DEF AllKnown
  <2>. QED
    BY <2>1, <2>2
<1>. QED
  BY <1>2 DEF AllKnown

\* What is left alone, as an update.
LEMMA Kept ==
  ASSUME IInv, AllKnown, NEW d \in Devices
  PROVE  /\ local = [local EXCEPT ![d] = local[d]]
         /\ raced = [raced EXCEPT ![d] = raced[d]]
         /\ pass = [pass EXCEPT ![d] = pass[d]]
         /\ local[d] \in Copies /\ raced[d] \in SUBSET Records
         /\ pass[d] # None => Shaped(pass[d]) /\ pass[d] \in Passes
         /\ Known(local[d], pass[d], raced[d])
BY Same DEF IInv, Stores, Counts, AllKnown

\* Continue() forgets what it read of a table once that is done with.
LEMMA ContinueKnown ==
  ASSUME IInv, AllKnown, NEW d \in Devices, NEW p \in Passes, NEW f,
         local' = [local EXCEPT ![d] = f], Known(f, p, raced[d]), Continue(d, p)
  PROVE  AllKnown'
<1>1. CASE p.todo # {}
  <2>1. pass' = [pass EXCEPT ![d] = p] /\ raced' = [raced EXCEPT ![d] = raced[d]]
    BY <1>1, Kept DEF Continue
  <2>. QED
    BY <2>1, OneKnown
<1>2. CASE p.todo = {}
  <2> DEFINE z == [p EXCEPT !.left = Tail(@), !.here = None, !.there = None]
  <2>1. pass' = [pass EXCEPT ![d] = z] /\ raced' = [raced EXCEPT ![d] = {}]
    BY <1>2 DEF Continue
  <2>2. z.here = None
    BY DEF Passes
  <2> HIDE DEF z
  <2>. QED
    BY <2>1, <2>2, NothingRead, OneKnown
<1>. QED
  BY <1>1, <1>2

\* Once both listings are there, what is left to do is among what was read.
LEMMA ListedKnown ==
  ASSUME IInv, AllKnown, NEW d \in Devices, NEW p \in Passes,
         UNCHANGED local, Listed(d, p),
         p.here # None => \A k \in DOMAIN p.here \ raced[d] : local[d][k] = p.here[k]
  PROVE  AllKnown'
<1>1. Known(local[d], p, raced[d])
  BY DEF Known
<1>2. CASE p.here = None \/ p.there = None
  <2>1. pass' = [pass EXCEPT ![d] = p] /\ raced' = [raced EXCEPT ![d] = raced[d]]
    BY <1>2, Kept DEF Listed
  <2>. QED
    BY <1>1, <2>1, Kept, OneKnown
<1>3. CASE p.here # None /\ p.there # None
  <2> DEFINE moves == {k \in DOMAIN p.here : \/ Pushes(p.here[k], p.there[k])
                                            \/ Pulls(k, p.here[k], p.there[k])}
             z == [p EXCEPT !.todo = moves]
  <2>1. Continue(d, z)
    BY <1>3 DEF Listed
  <2>2. ASSUME moves \subseteq Records PROVE AllKnown'
    <3>1. z \in Passes /\ z.here = p.here /\ z.there = p.there
      BY <2>2 DEF Passes
    <3> HIDE DEF z
    <3>2. Known(local[d], z, raced[d])
      BY <3>1, <1>3 DEF Known
    <3>. QED
      BY <2>1, <3>1, <3>2, Kept, ContinueKnown
  <2>3. moves \subseteq Records
    <3>1. p.here \in Listings /\ p.here # None
      BY <1>3 DEF Passes
    <3>2. DOMAIN p.here \subseteq Records
      BY <3>1 DEF Listings, In
    <3>. QED
      BY <3>2
  <2>. QED
    BY <2>2, <2>3
<1>. QED
  BY <1>2, <1>3

\* The listings.
LEMMA ListingsKnown ==
  ASSUME IInv, AllKnown, NEW d \in Devices, ListHere(d) \/ ListThere(d)
  PROVE  AllKnown'
<1> DEFINE q == pass[d]
           t == Head(q.left)
<1>1. q \in Passes /\ Shaped(q) /\ q.left # <<>> /\ q.todo = {} /\ t \in TableSet
  BY ListingPass DEF ListHere, ListThere, IInv
<1>2. UNCHANGED local
  BY DEF ListHere, ListThere, data
<1>3. CASE ListHere(d)
  <2> DEFINE f == [k \in In(t) |-> local[d][k]]
             p == [q EXCEPT !.here = f]
  <2>1. f \in Listings /\ \A k \in DOMAIN f : local[d][k] = f[k]
    BY <1>1, Lists DEF IInv, Stores
  <2>2. Listed(d, p)
    BY <1>3 DEF ListHere
  <2> HIDE DEF f
  <2>3. p \in Passes /\ p.here = f
    BY <1>1, <2>1 DEF Passes
  <2> HIDE DEF p
  <2>. QED
    BY <1>2, <2>1, <2>2, <2>3, ListedKnown
<1>4. CASE ListThere(d)
  <2> DEFINE f == [k \in In(t) |-> cloud[k]]
             p == [q EXCEPT !.there = f]
  <2>1. f \in Listings
    BY <1>1, Lists DEF IInv, Stores
  <2>2. Listed(d, p) /\ q.there = None /\ q # None
    BY <1>4 DEF ListThere, Listing
  <2> HIDE DEF f
  <2>3. p \in Passes /\ p.here = q.here
    BY <1>1, <2>1 DEF Passes
  <2>4. q.here # None => \A k \in DOMAIN q.here \ raced[d] : local[d][k] = q.here[k]
    BY <2>2, Kept DEF Known
  <2> HIDE DEF p, q
  <2>. QED
    BY <1>2, <2>2, <2>3, <2>4, ListedKnown
<1>. QED
  BY <1>3, <1>4

\* A record is dealt with; its own file may have been written.
LEMMA DoneKnown ==
  ASSUME IInv, AllKnown, NEW d \in Devices, NEW k \in Records,
         NEW written \in BOOLEAN, Moving(d), Done(d, k, written),
         pass[d].held \in {None, k}, local' = [local EXCEPT ![d] = local'[d]],
         \A j \in Records \ {k} : local'[d][j] = local[d][j]
  PROVE  AllKnown'
<1>0. PICK f : f = local'[d]
  OBVIOUS
<1> DEFINE q == pass[d]
           moved == IF written THEN q.moved \cup {TableOf[k]} ELSE q.moved
           p == [q EXCEPT !.todo = @ \ {k}, !.held = None, !.moved = moved]
<1>1. q \in Passes /\ Shaped(q) /\ q # None /\ q.todo # {}
  BY Kept DEF Moving
<1>2. q.here # None /\ q.there # None /\ q.todo \subseteq Records
  BY <1>1 DEF Shaped, In
<1>3. moved \in SUBSET TableSet
  BY <1>1, CloudAssumption DEF Passes
<1>4. Continue(d, p)
  BY DEF Done
<1> HIDE DEF moved
<1>5. /\ p \in Passes /\ p.here = q.here /\ p.there = q.there
      /\ p.todo = q.todo \ {k}
  BY <1>1, <1>3 DEF Passes
<1> HIDE DEF p
<1>6. Known(local[d], q, raced[d]) /\ q.held \in {None, k}
  BY Kept
<1> HIDE DEF q
<1>7. Known(f, p, raced[d])
  BY <1>0, <1>1, <1>2, <1>5, <1>6, CloudAssumption DEF Known
<1>8. local' = [local EXCEPT ![d] = f]
  BY <1>0
<1>. QED
  BY <1>4, <1>5, <1>7, <1>8, ContinueKnown

\* A save while the pass has read the record marks it as raced.
LEMMA WriteKnown ==
  ASSUME IInv, AllKnown, NEW d \in Devices, NEW k \in Records, NEW v,
         Write(d, k, v)
  PROVE  AllKnown'
<1> DEFINE f == [local[d] EXCEPT ![k] = v]
           r == IF pass[d] # None /\ k \in Read(pass[d])
                  THEN raced[d] \cup {k} ELSE raced[d]
<1>1. /\ local' = [local EXCEPT ![d] = f] /\ raced' = [raced EXCEPT ![d] = r]
      /\ pass' = [pass EXCEPT ![d] = pass[d]]
  BY Kept DEF Write
<1>2. \A j \in Records \ {k} : f[j] = local[d][j]
  BY Kept DEF Copies
<1>3. pass[d] # None /\ pass[d].here # None => DOMAIN pass[d].here \subseteq Records
  BY Kept DEF Shaped, In
<1>4. raced[d] \subseteq r /\ (pass[d] # None /\ k \in Read(pass[d]) => k \in r)
  OBVIOUS
<1> HIDE DEF f, r
<1>5. Known(f, pass[d], r)
  BY <1>2, <1>3, <1>4, Kept DEF Known, Read
<1>. QED
  BY <1>1, <1>5, OneKnown

\* Asking for a pass, and ending one: a new pass has read nothing.
LEMMA AskKnown ==
  ASSUME IInv, AllKnown, NEW d \in Devices, UNCHANGED local,
         \/ \E c : RunSync(d, c)
         \/ EndPass(d)
         \/ pass' = [pass EXCEPT ![d] = None] /\ raced' = [raced EXCEPT ![d] = {}]
  PROVE  AllKnown'
<1>1. NewPass.here = None
  BY DEF NewPass
<1>2. ASSUME NEW p, NEW r, p = NewPass \/ p = None,
             pass' = [pass EXCEPT ![d] = p], raced' = [raced EXCEPT ![d] = r]
      PROVE  AllKnown'
  BY <1>1, <1>2, Kept, NothingRead, OneKnown
<1>3. CASE UNCHANGED <<pass, raced>>
  BY <1>3, Kept, OneKnown
<1>4. CASE \E c : RunSync(d, c)
  BY <1>2, <1>3, <1>4 DEF RunSync
<1>5. CASE EndPass(d)
  <2> DEFINE p == IF ctl[d].rerun /\ ctl[d].tokens THEN NewPass ELSE None
  <2>1. pass' = [pass EXCEPT ![d] = p] /\ raced' = [raced EXCEPT ![d] = raced[d]]
    BY <1>5, Kept DEF EndPass
  <2>2. p = NewPass \/ p = None
    OBVIOUS
  <2> HIDE DEF p
  <2>. QED
    BY <1>2, <2>1, <2>2
<1>. QED
  BY <1>2, <1>4, <1>5

\* Bookkeeping of the pass beside its listings and what is left to do.
LEMMA AsideKnown ==
  ASSUME IInv, AllKnown, NEW d \in Devices, NEW p, UNCHANGED <<local, raced>>,
         pass[d] # None, pass' = [pass EXCEPT ![d] = p],
         p.here = pass[d].here, p.there = pass[d].there, p.todo = pass[d].todo,
         p.held = pass[d].held
  PROVE  AllKnown'
<1>1. Known(local[d], p, raced[d])
  BY Kept DEF Known
<1>. QED
  BY <1>1, Kept, OneKnown

\* A listing that fails, and the registries read again.
LEMMA FailKnown ==
  ASSUME IInv, AllKnown, NEW d \in Devices, ListFails(d)
  PROVE  AllKnown'
<1>1. Continue(d, pass[d]) /\ UNCHANGED local /\ pass[d] \in Passes
  BY ListingPass DEF ListFails, data, IInv
<1>. QED
  BY <1>1, Kept, ContinueKnown

\* A registry is set from the files read.
LEMMA SetKnown ==
  ASSUME IInv, AllKnown, NEW d \in Devices, SetRegistry(d)
  PROVE  AllKnown'
<1> DEFINE p == [pass[d] EXCEPT !.files = None]
<1>1. /\ pass[d] # None /\ pass' = [pass EXCEPT ![d] = p]
      /\ UNCHANGED <<local, raced>>
  BY DEF SetRegistry, Reloading
<1>2. /\ p.here = pass[d].here /\ p.there = pass[d].there
      /\ p.todo = pass[d].todo /\ p.held = pass[d].held
  BY <1>1, Kept DEF Passes
<1> HIDE DEF p
<1>. QED
  BY <1>1, <1>2, AsideKnown

\* The other steps of a pass.
LEMMA PassKnown ==
  ASSUME IInv, AllKnown, NEW d \in Devices, NEW k \in Records,
         \/ Push(d, k) \/ PushFails(d, k) \/ Recheck(d, k) \/ Pull(d, k)
         \/ ReadFiles(d, TableOf[k])
  PROVE  AllKnown'
<1>0. local[d] \in Copies /\ local = [local EXCEPT ![d] = local[d]]
  BY Kept
<1>1. CASE Push(d, k) \/ PushFails(d, k) \/ (Recheck(d, k) /\ Done(d, k, TRUE))
  <2>1. /\ Moving(d) /\ \E written \in BOOLEAN : Done(d, k, written)
        /\ UNCHANGED local /\ pass[d].held = None
    BY <1>1 DEF Push, PushFails, Recheck, Pushing, Pulling, data
  <2>. QED
    BY <1>0, <2>1, DoneKnown
<1>2. CASE Pull(d, k)
  <2>1. /\ Moving(d) /\ \E written \in BOOLEAN : Done(d, k, written)
        /\ pass[d].held \in {None, k}
    BY <1>2 DEF Pull, Pulling
  <2>2. local' = [local EXCEPT ![d] = [local[d] EXCEPT ![k] = pass[d].there[k]]]
    BY <1>2 DEF Pull
  <2>3. local \in [Devices -> Copies] /\ d \in DOMAIN local
    BY DEF IInv, Stores
  <2>4. local'[d] = [local[d] EXCEPT ![k] = pass[d].there[k]]
    BY <2>2, <2>3
  <2>5. local' = [local EXCEPT ![d] = local'[d]]
    BY <2>2, <2>4
  <2>6. \A j \in Records \ {k} : local'[d][j] = local[d][j]
    BY <1>0, <2>4 DEF Copies
  <2>. QED
    BY <2>1, <2>5, <2>6, DoneKnown
<1>3. CASE Recheck(d, k) /\ ~Done(d, k, TRUE)
  <2> DEFINE p == [pass[d] EXCEPT !.held = k]
             r == raced[d] \ {k}
  <2>1. /\ pass[d] # None /\ pass' = [pass EXCEPT ![d] = p]
        /\ raced' = [raced EXCEPT ![d] = r] /\ UNCHANGED local
        /\ pass[d].held = None /\ pass[d].todo # {}
        /\ NotAfter(local[d][k], pass[d].there[k])
    BY <1>3, Kept DEF Recheck, Hold, Pulling, Moving, data, NotAfter
  <2>2. /\ p.here = pass[d].here /\ p.there = pass[d].there
        /\ p.todo = pass[d].todo /\ p.held = k
    BY <2>1, Kept DEF Passes
  <2>3. pass[d].there # None /\ DOMAIN pass[d].here \subseteq Records
    BY <2>1, Kept DEF Shaped, In
  <2> HIDE DEF p
  <2>4. Known(local[d], p, r)
    BY <2>1, <2>2, <2>3, Kept, CloudAssumption DEF Known
  <2> HIDE DEF r
  <2>. QED
    BY <1>0, <2>1, <2>4, OneKnown
<1>4. CASE ReadFiles(d, TableOf[k])
  <2> DEFINE f == [j \in In(TableOf[k]) |-> local[d][j]]
             p == [pass[d] EXCEPT !.files = f, !.moved = @ \ {TableOf[k]}]
  <2>1. /\ pass[d] # None /\ pass' = [pass EXCEPT ![d] = p]
        /\ UNCHANGED <<local, raced>>
    BY <1>4 DEF ReadFiles, Reloading, data
  <2> HIDE DEF f
  <2>2. /\ p.here = pass[d].here /\ p.there = pass[d].there
        /\ p.todo = pass[d].todo /\ p.held = pass[d].held
    BY <2>1, Kept DEF Passes
  <2> HIDE DEF p
  <2>. QED
    BY <2>1, <2>2, AsideKnown
<1>. QED
  BY <1>1, <1>2, <1>3, <1>4

\* Every step keeps what the passes know true.
LEMMA KnownSteps == IInv /\ AllKnown /\ [Next]_vars => AllKnown'
<1> SUFFICES ASSUME IInv, AllKnown, [Next]_vars PROVE AllKnown'
  OBVIOUS
<1>1. CASE UNCHANGED <<local, pass, raced>>
  BY <1>1 DEF AllKnown
<1>2. ASSUME NEW k \in Records, WebSave(k) \/ OldClientSave(k) \/ WebDelete(k)
      PROVE  AllKnown'
  BY <1>1, <1>2 DEF WebSave, OldClientSave, WebDelete, CloudBecomes
<1>3. ASSUME NEW d \in Devices, NEW k \in Records, Save(d, k) \/ Delete(d, k)
      PROVE  AllKnown'
  BY <1>3, WriteKnown DEF Save, Delete
<1>4. ASSUME NEW d \in Devices,
             \/ KickTimer(d) \/ IntervalTimer(d) \/ SyncRequest(d)
             \/ SessionSet(d) \/ Restart(d) \/ EndPass(d)
      PROVE  AllKnown'
  BY <1>4, AskKnown
  DEF KickTimer, IntervalTimer, SyncRequest, SessionSet, Restart, EndPass, data
<1>5. ASSUME NEW d \in Devices,
             \/ Saved(d) \/ SignIn(d) \/ SessionRefused(d)
             \/ SignOut(d) \/ SignedOut(d)
      PROVE  AllKnown'
  BY <1>1, <1>5 DEF Saved, SignIn, SessionRefused, SignOut, SignedOut, data
<1>6. ASSUME NEW d \in Devices, ListFails(d) PROVE AllKnown'
  BY <1>6, FailKnown
<1>7. ASSUME NEW d \in Devices, PassStep(d) PROVE AllKnown'
  BY <1>4, <1>7, ListingsKnown, PassKnown, SetKnown DEF PassStep
<1>8. ASSUME NEW d \in Devices, NEW k \in Records, PushFails(d, k) PROVE AllKnown'
  BY <1>8, PassKnown
<1>. QED
  BY <1>1, <1>2, <1>3, <1>4, <1>5, <1>6, <1>7, <1>8 DEF Next, vars

\* A pull loses no file that is as the pass knows it.
LEMMA PullSpares ==
  ASSUME IInv, AllKnown, NEW d \in Devices, NEW k \in Records, Pull(d, k),
         k \notin raced[d], local[d][k] # None
  PROVE  local'[d][k] # None /\ ~(local'[d][k].at < local[d][k].at)
<1> DEFINE q == pass[d]
<1>1. Moving(d) /\ k \in q.todo /\ Pulls(k, q.here[k], q.there[k])
  BY DEF Pull, Pulling
<1>2. q # None /\ q.here # None /\ k \in DOMAIN q.here
  BY <1>1, Kept DEF Moving, Shaped
<1>3. local[d][k] = q.here[k] \/ NotAfter(local[d][k], q.there[k])
  BY <1>1, <1>2, Kept DEF Known
<1>4. local'[d][k] = q.there[k]
  BY DEF Pull, IInv, Stores, Copies
<1>5. q.there[k] \in Stored /\ local[d][k] \in Stored
  BY <1>1, Moved, Kept DEF Copies, Stored
<1> HIDE DEF q
<1>6. q.there[k] # None /\ ~(local[d][k].at > q.there[k].at)
  <2>1. local[d][k] = q.here[k] => q.there[k].at > local[d][k].at
    BY <1>1 DEF Pulls
  <2>2. local[d][k].at \in Nat /\ q.there[k] # None /\ q.there[k].at \in Nat
    BY <1>1, <1>5, CloudAssumption DEF Pulls, Stored, Versions
  <2>. QED
    BY <1>3, <2>1, <2>2 DEF NotAfter
<1>7. local[d][k].at \in Nat /\ q.there[k].at \in Nat
  BY <1>5, <1>6, CloudAssumption DEF Stored, Versions
<1>. QED
  BY <1>4, <1>6, <1>7

\* A step that writes no file of a device takes none back.
LEMMA Unwritten ==
  ASSUME IInv, NEW d \in Devices, NEW k \in Records, local[d][k] # None,
         local'[d][k] = local[d][k]
  PROVE  local'[d][k] # None /\ ~(local'[d][k].at < local[d][k].at)
<1>1. local[d][k].at \in Nat
  BY CloudAssumption DEF IInv, Stores, Copies, Versions
<1>. QED
  BY <1>1

\* A file goes back only by the operator's save or by a raced pull.
LEMMA Spared ==
  ASSUME IInv, AllKnown, [Next]_vars, NEW d \in Devices, NEW k \in Records,
         SetBack(d, k)
  PROVE  saving'[d] # saving[d] \/ k \in raced[d]
<1>0. /\ local[d][k] # None
      /\ local'[d][k] = None \/ local'[d][k].at < local[d][k].at
  BY DEF SetBack
<1>1. local'[d][k] # local[d][k]
  BY <1>0, Unwritten
<1>2. PICK e \in Devices, j \in Records :
        (\E v : Write(e, j, v)) \/ Pull(e, j)
  <2>1. CASE UNCHANGED vars
    BY <1>1, <2>1 DEF vars
  <2>2. ASSUME NEW j \in Records, WebSave(j) \/ OldClientSave(j) \/ WebDelete(j)
        PROVE  UNCHANGED local
    BY <2>2 DEF WebSave, OldClientSave, WebDelete, CloudBecomes
  <2>3. ASSUME NEW e \in Devices, PassStep(e), ~(\E j \in Records : Pull(e, j))
        PROVE  UNCHANGED local
    BY <2>3
    DEF PassStep, ListHere, ListThere, SetRegistry, EndPass, Push, Recheck,
        ReadFiles, data
  <2>4. ASSUME NEW e \in Devices,
               \/ Saved(e) \/ KickTimer(e) \/ IntervalTimer(e) \/ SyncRequest(e)
               \/ ListFails(e) \/ SignIn(e) \/ SessionSet(e) \/ SessionRefused(e)
               \/ SignOut(e) \/ SignedOut(e) \/ Restart(e)
               \/ \E j \in Records : PushFails(e, j)
        PROVE  UNCHANGED local
    BY <2>4
    DEF Saved, KickTimer, IntervalTimer, SyncRequest, ListFails, SignIn,
        SessionSet, SessionRefused, SignOut, SignedOut, Restart, PushFails, data
  <2>5. ASSUME NEW e \in Devices, NEW j \in Records, Save(e, j) \/ Delete(e, j)
        PROVE  \E v : Write(e, j, v)
    BY <2>5 DEF Save, Delete
  <2>. QED
    BY <1>1, <2>1, <2>2, <2>3, <2>4, <2>5 DEF Next
<1>3. CASE Pull(e, j)
  <2>1. local' = [local EXCEPT ![e][j] = pass[e].there[j]]
    BY <1>3 DEF Pull
  <2>2. e = d /\ j = k
    BY <1>1, <2>1 DEF IInv, Stores, Copies
  <2>. QED
    BY <1>0, <1>3, <2>2, PullSpares
<1>4. ASSUME NEW v, Write(e, j, v) PROVE saving'[d] # saving[d]
  <2>1. /\ local' = [local EXCEPT ![e][j] = v] /\ saving[e] = None
        /\ saving' = [saving EXCEPT ![e] = j]
    BY <1>4 DEF Write
  <2>2. e = d
    BY <1>1, <2>1 DEF IInv, Stores
  <2>. QED
    BY <2>1, <2>2, CloudAssumption DEF IInv, Stores
<1>. QED
  BY <1>2, <1>3, <1>4

\* Last writer wins on every file: one goes back to an older version only by
\* the operator's own save, or by the pull of a pass that has not read it since
\* it was saved last, in its listing or, where it reads again before it writes,
\* then (syncEngine.ts reconcileTable, fsStorageAdapter.ts storedIsNewer).
THEOREM OnlyRacesLose == Spec => OnlyRacedSavesLost
<1> DEFINE Spares ==
      \A d \in Devices, k \in Records :
        SetBack(d, k) => saving'[d] # saving[d] \/ k \in raced[d]
<1>1. Init => AllKnown
  BY NothingRead DEF Init, AllKnown
<1>2. IInv /\ AllKnown /\ [Next]_vars => [Spares]_vars
  BY Spared
<1>3. IInv /\ AllKnown /\ [Next]_vars => (IInv /\ AllKnown)'
  BY Steps, KnownSteps
<1>. QED
  BY <1>1, <1>2, <1>3, InitHolds, PTL DEF Spec, OnlyRacedSavesLost

=============================================================================
