----------------------------- MODULE CloudSync -----------------------------
(***************************************************************************)
(* Cloud sync.  Every device keeps the records of a production as files    *)
(* and serves them from an in-memory registry.  While it holds tokens it   *)
(* reconciles its files with the cloud, table by table, by last writer     *)
(* wins on the stamp of each record, a deletion being a stamped tombstone. *)
(*                                                                         *)
(* A pass awaits between its listing of the two replicas and each write,   *)
(* so operator saves, other devices and web clients act in between.  The   *)
(* clocks of the writers are not compared: any fresh stamp may be drawn.   *)
(* Faults covered: a listing or a push that fails, a push whose answer is  *)
(* lost, a refused session, a restart.  Disk errors are not.               *)
(***************************************************************************)
EXTENDS Naturals, Sequences

CONSTANTS
  Devices,     \* desktop servers
  Records,     \* record ids
  Tables,      \* the order in which a pass visits the tables, a sequence
  TableOf,     \* [Records -> table]
  PullGuarded, \* tables whose lossy remote copies are not pulled (shows)
  Rechecked,   \* tables whose stored copy is read again before a pull
  HardDeleted, \* tables whose rows a web client deletes outright
  MaxAt,       \* stamps are 1 .. MaxAt, each drawn once
  MaxFaults,   \* failures, sign-outs and restarts of a behaviour
  None

VARIABLES
  local,    \* the files of each device
  registry, \* what each device serves and edits
  cloud,    \* the cloud's rows
  stamps,   \* stamps drawn so far
  ctl,      \* cloudSync.ts: tokens, timers and flags of each device
  pass,     \* the pass a device is in, or None
  saving,   \* the record whose save a device has yet to ask a pass for
  raced,    \* records saved since the running pass last read their files
  waiting,  \* records saved while signed in that no pass has come to since
  faults

vars == <<local, registry, cloud, stamps, ctl, pass, saving, raced, waiting,
          faults>>
data == <<local, registry, cloud, stamps, saving>>

TableSet == {Tables[i] : i \in DOMAIN Tables}

ASSUME CloudAssumption ==
  /\ Tables \in Seq(TableSet)
  /\ \A i, j \in DOMAIN Tables : Tables[i] = Tables[j] => i = j
  /\ TableOf \in [Records -> TableSet]
  /\ MaxAt \in Nat /\ MaxFaults \in Nat
  /\ None \notin Records

\* A version of a record.  lossy: an older client wrote it back without what
\* it could not read.
Versions == [at : 1 .. MaxAt, dead : BOOLEAN, lossy : BOOLEAN]
Copies   == [Records -> Versions \cup {None}]

Live(v) == v # None /\ ~v.dead
In(t)   == {k \in Records : TableOf[k] = t}

\* showPullLossReason: pulling r over l would lose data.
PullLoses(k, l, r) ==
  /\ TableOf[k] \in PullGuarded
  /\ Live(l) /\ Live(r)
  /\ r.lossy /\ ~l.lossy

\* What reconcileTable does with a record it listed as l here and r there.
Pushes(l, r) == l # None /\ (r # None => l.at > r.at)
\* PullsLive is a slip, for comparison: tombstones unknown here are not pulled.
PullsLive(k, l, r) == /\ r # None
                      /\ l = None => ~r.dead
                      /\ l # None => r.at > l.at /\ ~PullLoses(k, l, r)
Pulls(k, l, r) == /\ r # None
                  /\ l # None => r.at > l.at /\ ~PullLoses(k, l, r)

\* A pass: the tables left with the current one first; what it listed of that
\* one here and there; the records still to move; the one whose stored copy
\* was read again; the tables moved; the files a reload has read.
NewPass == [left |-> Tables, here |-> None, there |-> None, todo |-> {},
            held |-> None, moved |-> {}, files |-> None]

\* The records of the current table, once its files are listed.
Read(p) == IF p.here = None THEN {} ELSE DOMAIN p.here

Idle == [tokens |-> FALSE, ticking |-> FALSE, kick |-> FALSE,
         rerun |-> FALSE, joining |-> FALSE, leaving |-> FALSE]

Init == /\ local = [d \in Devices |-> [k \in Records |-> None]]
        /\ registry = local
        /\ cloud = [k \in Records |-> None]
        /\ stamps = {}
        /\ ctl = [d \in Devices |-> Idle]
        /\ pass = [d \in Devices |-> None]
        /\ saving = [d \in Devices |-> None]
        /\ raced = [d \in Devices |-> {}]
        /\ waiting = [d \in Devices |-> {}]
        /\ faults = 0

\* A slip, for comparison: a write that forgets its stamp.
FreshUnstamped(dead, lossy) ==
  {[at |-> n, dead |-> dead, lossy |-> lossy] : n \in (0 .. MaxAt) \ stamps}

Fresh(dead, lossy) ==
  {[at |-> n, dead |-> dead, lossy |-> lossy] : n \in (1 .. MaxAt) \ stamps}

Fault == faults < MaxFaults /\ faults' = faults + 1

----------------------------------------------------------------------------
\* Operators.  A save or delete stamps the record and writes its file; the
\* registry entry is set as the write is answered ...
Write(d, k, v) ==
  /\ saving[d] = None
  /\ local' = [local EXCEPT ![d][k] = v]
  /\ registry' = [registry EXCEPT ![d][k] = v]
  /\ saving' = [saving EXCEPT ![d] = k]
  /\ stamps' = stamps \cup {v.at}
  /\ raced' = IF pass[d] # None /\ k \in Read(pass[d])
                THEN [raced EXCEPT ![d] = @ \cup {k}] ELSE raced
  /\ UNCHANGED <<cloud, ctl, pass, waiting, faults>>

\* Whoever edits a lossy copy may restore what it lost, or not.
Edited(v) == UNION {Fresh(FALSE, lossy) :
                      lossy \in {FALSE} \cup (IF v = None THEN {} ELSE {v.lossy})}

Save(d, k) == \E v \in Edited(registry[d][k]) : Write(d, k, v)

Delete(d, k) ==
  /\ Live(registry[d][k])
  /\ \E v \in Fresh(TRUE, registry[d][k].lossy) : Write(d, k, v)

\* scheduleSync: a debounced pass, when signed in.
ScheduleSync(d, k) ==
  IF ctl[d].tokens
    THEN /\ ctl' = [ctl EXCEPT ![d].kick = TRUE]
         /\ waiting' = [waiting EXCEPT ![d] = @ \cup {k}]
    ELSE UNCHANGED <<ctl, waiting>>

\* ... and when the lists are broadcast the handler asks for a pass.
Saved(d) ==
  /\ saving[d] # None
  /\ ScheduleSync(d, saving[d])
  /\ saving' = [saving EXCEPT ![d] = None]
  /\ UNCHANGED <<local, registry, cloud, stamps, pass, raced, faults>>

\* Web clients write the cloud directly; its trigger stamps what they write.
CloudBecomes(k, v) ==
  /\ cloud' = [cloud EXCEPT ![k] = v]
  /\ stamps' = IF v = None THEN stamps ELSE stamps \cup {v.at}
  /\ UNCHANGED <<local, registry, ctl, pass, saving, raced, waiting, faults>>

WebSave(k) == \E v \in Edited(cloud[k]) : CloudBecomes(k, v)

OldClientSave(k) ==
  /\ TableOf[k] \in PullGuarded /\ Live(cloud[k])
  /\ \E v \in Fresh(FALSE, TRUE) : CloudBecomes(k, v)

WebDelete(k) ==
  /\ Live(cloud[k])
  /\ \/ TableOf[k] \in HardDeleted /\ CloudBecomes(k, None)
     \/ /\ TableOf[k] \notin HardDeleted
        /\ \E v \in Fresh(TRUE, cloud[k].lossy) : CloudBecomes(k, v)

----------------------------------------------------------------------------
\* runSyncNow, called where device d's flags are c: nothing without tokens, a
\* re-run after the running pass, or a pass.  DroppedSync is a slip, for
\* comparison: the request is lost while a pass runs.
DroppedSync(d, c) ==
  /\ ctl' = [ctl EXCEPT ![d] = c]
  /\ IF c.tokens /\ pass[d] = None
       THEN /\ pass' = [pass EXCEPT ![d] = NewPass]
            /\ raced' = [raced EXCEPT ![d] = {}]
       ELSE UNCHANGED <<pass, raced>>

RunSync(d, c) ==
  IF c.tokens /\ pass[d] = None
    THEN /\ ctl' = [ctl EXCEPT ![d] = c]
         /\ pass' = [pass EXCEPT ![d] = NewPass]
         /\ raced' = [raced EXCEPT ![d] = {}]
    ELSE /\ ctl' = [ctl EXCEPT ![d] = IF c.tokens THEN [c EXCEPT !.rerun = TRUE]
                                                  ELSE c]
         /\ UNCHANGED <<pass, raced>>

KickTimer(d) ==
  /\ ctl[d].kick
  /\ RunSync(d, [ctl[d] EXCEPT !.kick = FALSE])
  /\ UNCHANGED <<data, waiting, faults>>

IntervalTimer(d) ==
  /\ ctl[d].ticking
  /\ RunSync(d, ctl[d])
  /\ UNCHANGED <<data, waiting, faults>>

\* A client of the HTTP route asks for a pass.
SyncRequest(d) ==
  /\ RunSync(d, ctl[d])
  /\ UNCHANGED <<data, waiting, faults>>

\* setCloudTokens, up to and after the session is set in the client.  The
\* desktop calls it at sign-in and whenever the tokens are refreshed.
SignIn(d) ==
  /\ ~ctl[d].joining
  /\ ctl' = [ctl EXCEPT ![d].tokens = TRUE, ![d].joining = TRUE]
  /\ UNCHANGED <<data, pass, raced, waiting, faults>>

SessionSet(d) ==
  /\ ctl[d].joining
  /\ RunSync(d, [ctl[d] EXCEPT !.joining = FALSE, !.ticking = TRUE])
  /\ UNCHANGED <<data, waiting, faults>>

SessionRefused(d) ==
  /\ ctl[d].joining /\ Fault
  /\ ctl' = [ctl EXCEPT ![d].joining = FALSE]
  /\ UNCHANGED <<data, pass, raced, waiting>>

\* clearCloudTokens, up to and after the client's sign-out.  A pass goes on.
SignOut(d) ==
  /\ ctl[d].tokens /\ ~ctl[d].leaving /\ Fault
  /\ ctl' = [ctl EXCEPT ![d].tokens = FALSE, ![d].leaving = TRUE]
  /\ waiting' = [waiting EXCEPT ![d] = {}]
  /\ UNCHANGED <<data, pass, raced>>

SignedOut(d) ==
  /\ ctl[d].leaving
  /\ ctl' = [ctl EXCEPT ![d].leaving = FALSE, ![d].ticking = FALSE,
                        ![d].kick = FALSE, ![d].rerun = FALSE]
  /\ UNCHANGED <<data, pass, raced, waiting, faults>>

\* The server starts again: files survive, registries are read from them.
Restart(d) ==
  /\ Fault
  /\ registry' = [registry EXCEPT ![d] = local[d]]
  /\ ctl' = [ctl EXCEPT ![d] = Idle]
  /\ pass' = [pass EXCEPT ![d] = None]
  /\ saving' = [saving EXCEPT ![d] = None]
  /\ raced' = [raced EXCEPT ![d] = {}]
  /\ waiting' = [waiting EXCEPT ![d] = {}]
  /\ UNCHANGED <<local, cloud, stamps>>
----------------------------------------------------------------------------
\* The pass of device d is p from here on, at the next table or at the
\* reloads once nothing is left to do for the current one.
Continue(d, p) ==
  IF p.todo # {}
    THEN pass' = [pass EXCEPT ![d] = p] /\ UNCHANGED raced
    ELSE /\ pass' = [pass EXCEPT ![d] =
                      [p EXCEPT !.left = Tail(@), !.here = None, !.there = None]]
         /\ raced' = [raced EXCEPT ![d] = {}]

Listing(d) == /\ pass[d] # None /\ pass[d].left # <<>>
              /\ pass[d].here = None \/ pass[d].there = None
Moving(d)  == pass[d] # None /\ pass[d].todo # {}

\* A listing of the current table arrives; with both, what differs is known.
Listed(d, p) ==
  IF p.here = None \/ p.there = None
    THEN pass' = [pass EXCEPT ![d] = p] /\ UNCHANGED raced
    ELSE Continue(d, [p EXCEPT !.todo =
           {k \in DOMAIN p.here : \/ Pushes(p.here[k], p.there[k])
                                  \/ Pulls(k, p.here[k], p.there[k])}])

ListHere(d) ==
  /\ Listing(d) /\ pass[d].here = None
  /\ LET t == Head(pass[d].left)
     IN /\ Listed(d, [pass[d] EXCEPT !.here = [k \in In(t) |-> local[d][k]]])
        /\ waiting' = [waiting EXCEPT ![d] = @ \ In(t)]
  /\ UNCHANGED <<data, ctl, faults>>

ListThere(d) ==
  /\ Listing(d) /\ pass[d].there = None
  /\ LET t == Head(pass[d].left)
     IN Listed(d, [pass[d] EXCEPT !.there = [k \in In(t) |-> cloud[k]]])
  /\ UNCHANGED <<data, ctl, waiting, faults>>

\* A listing fails: the pass goes on with the next table.
ListFails(d) ==
  /\ Listing(d) /\ Fault
  /\ Continue(d, pass[d])
  /\ waiting' = [waiting EXCEPT ![d] = @ \ In(Head(pass[d].left))]
  /\ UNCHANGED <<data, ctl>>

\* Record k is dealt with; its table counts as moved when it was written.
Done(d, k, written) ==
  Continue(d, [pass[d] EXCEPT !.todo = @ \ {k}, !.held = None,
                              !.moved = IF written THEN @ \cup {TableOf[k]}
                                                   ELSE @])

\* The pass is at record k, listed here and there.
Pushing(d, k) == /\ Moving(d) /\ k \in pass[d].todo /\ pass[d].held = None
                 /\ Pushes(pass[d].here[k], pass[d].there[k])
Pulling(d, k) == /\ Moving(d) /\ k \in pass[d].todo
                 /\ Pulls(k, pass[d].here[k], pass[d].there[k])

\* A slip, for comparison: a pushed record does not count as moved.
PushUncounted(d, k) ==
  /\ Pushing(d, k)
  /\ cloud' = [cloud EXCEPT ![k] = pass[d].here[k]]
  /\ Done(d, k, FALSE)
  /\ UNCHANGED <<local, registry, stamps, saving, ctl, waiting, faults>>

Push(d, k) ==
  /\ Pushing(d, k)
  /\ cloud' = [cloud EXCEPT ![k] = pass[d].here[k]]
  /\ Done(d, k, TRUE)
  /\ UNCHANGED <<local, registry, stamps, saving, ctl, waiting, faults>>

\* The push throws: it never reached the cloud, or its answer was lost.
PushFails(d, k) ==
  /\ Pushing(d, k) /\ Fault
  /\ cloud' \in {cloud, [cloud EXCEPT ![k] = pass[d].here[k]]}
  /\ Done(d, k, FALSE)
  /\ UNCHANGED <<local, registry, stamps, saving, ctl, waiting>>

\* The stored copy of k was read again and is the one to write over.
Hold(d, k) ==
  /\ pass' = [pass EXCEPT ![d].held = k]
  /\ raced' = [raced EXCEPT ![d] = @ \ {k}]

\* A slip, for comparison: what was read again is not compared.
RecheckBlind(d, k) ==
  /\ Pulling(d, k) /\ pass[d].held = None /\ TableOf[k] \in Rechecked
  /\ Hold(d, k)
  /\ UNCHANGED <<data, ctl, waiting, faults>>

\* storedIsNewer: in some tables the stored copy is read again first ...
Recheck(d, k) ==
  /\ Pulling(d, k) /\ pass[d].held = None /\ TableOf[k] \in Rechecked
  /\ IF local[d][k] # None /\ local[d][k].at > pass[d].there[k].at
       THEN Done(d, k, TRUE) ELSE Hold(d, k)
  /\ UNCHANGED <<data, ctl, waiting, faults>>

\* ... and a pull writes the file, whatever it has become since.
Pull(d, k) ==
  /\ Pulling(d, k)
  /\ pass[d].held = IF TableOf[k] \in Rechecked THEN k ELSE None
  /\ local' = [local EXCEPT ![d][k] = pass[d].there[k]]
  /\ Done(d, k, TRUE)
  /\ UNCHANGED <<registry, cloud, stamps, saving, ctl, waiting, faults>>

\* fanOutSyncWrites: the registry of each moved table is read again.
Reloading(d) == pass[d] # None /\ pass[d].left = <<>>

ReadFiles(d, t) ==
  /\ Reloading(d) /\ pass[d].files = None /\ t \in pass[d].moved
  /\ pass' = [pass EXCEPT ![d].files = [k \in In(t) |-> local[d][k]],
                          ![d].moved = @ \ {t}]
  /\ UNCHANGED <<data, ctl, raced, waiting, faults>>

SetRegistry(d) ==
  /\ Reloading(d) /\ pass[d].files # None
  /\ registry' = [registry EXCEPT ![d] =
        [k \in Records |-> IF k \in DOMAIN pass[d].files
                             THEN pass[d].files[k] ELSE @[k]]]
  /\ pass' = [pass EXCEPT ![d].files = None]
  /\ UNCHANGED <<local, cloud, stamps, saving, ctl, raced, waiting, faults>>

\* The pass ends, and another starts if one was asked for meanwhile.
EndPass(d) ==
  /\ Reloading(d) /\ pass[d].files = None /\ pass[d].moved = {}
  /\ pass' = [pass EXCEPT ![d] = IF ctl[d].rerun /\ ctl[d].tokens
                                   THEN NewPass ELSE None]
  /\ ctl' = [ctl EXCEPT ![d].rerun = FALSE]
  /\ UNCHANGED <<data, raced, waiting, faults>>

PassStep(d) ==
  \/ ListHere(d) \/ ListThere(d) \/ SetRegistry(d) \/ EndPass(d)
  \/ \E k \in Records : Push(d, k) \/ Recheck(d, k) \/ Pull(d, k)
  \/ \E k \in Records : ReadFiles(d, TableOf[k])

Next ==
  \/ \E k \in Records : WebSave(k) \/ OldClientSave(k) \/ WebDelete(k)
  \/ \E d \in Devices, k \in Records :
       Save(d, k) \/ Delete(d, k) \/ PushFails(d, k)
  \/ \E d \in Devices :
       \/ Saved(d) \/ KickTimer(d) \/ IntervalTimer(d) \/ SyncRequest(d)
       \/ ListFails(d) \/ PassStep(d)
       \/ SignIn(d) \/ SessionSet(d) \/ SessionRefused(d)
       \/ SignOut(d) \/ SignedOut(d) \/ Restart(d)

\* Timers fire and awaited reads and writes are answered.  Nobody has to save,
\* to sign in or to stay so.
Fairness == \A d \in Devices :
  /\ WF_vars(PassStep(d)) /\ WF_vars(Saved(d)) /\ WF_vars(SignedOut(d))
  /\ WF_vars(KickTimer(d)) /\ WF_vars(IntervalTimer(d))

Spec == Init /\ [][Next]_vars /\ Fairness

----------------------------------------------------------------------------
Listings == {None} \cup UNION {[In(t) -> Versions \cup {None}] : t \in TableSet}

Passes == [left : Seq(TableSet),
           here : Listings, there : Listings, files : Listings,
           todo : SUBSET Records, held : Records \cup {None},
           moved : SUBSET TableSet]

ASSUME PassAssumption == None \notin Passes

\* The variables have their types.
TypeOK ==
  /\ local \in [Devices -> Copies] /\ registry \in [Devices -> Copies]
  /\ cloud \in Copies
  /\ stamps \subseteq 1 .. MaxAt
  /\ ctl \in [Devices -> [tokens : BOOLEAN, ticking : BOOLEAN, kick : BOOLEAN,
                          rerun : BOOLEAN, joining : BOOLEAN, leaving : BOOLEAN]]
  /\ pass \in [Devices -> Passes \cup {None}]
  /\ saving \in [Devices -> Records \cup {None}]
  /\ raced \in [Devices -> SUBSET Records]
  /\ waiting \in [Devices -> SUBSET Records]
  /\ faults \in 0 .. MaxFaults

\* An edit made while signed in is on its way: a pass is due, or the running
\* one has yet to read its table.  It never waits for the five-minute tick
\* because a pass was in flight (runSyncNow's rerunRequested).
EditsDoNotWait ==
  \A d \in Devices :
    waiting[d] # {} /\ ctl[d].tokens /\ ctl[d].ticking =>
      \/ ctl[d].kick \/ ctl[d].rerun
      \/ /\ pass[d] # None
         /\ \A k \in waiting[d] :
              \E i \in DOMAIN pass[d].left : pass[d].left[i] = TableOf[k]

\* The step takes the file of k back to an older version, or away.
SetBack(d, k) ==
  /\ local[d][k] # None
  /\ local'[d][k] = None \/ local'[d][k].at < local[d][k].at

\* A file goes back to an older version only by the operator's own save, or by
\* the pull of a pass that has not read the file since its last save: where a
\* pull reads the stored copy again, a save that came before that is kept
\* (syncEngine.ts reconcileTable, fsStorageAdapter.ts storedIsNewer).
OnlyRacedSavesLost ==
  [][\A d \in Devices, k \in Records :
       SetBack(d, k) => saving'[d] # saving[d] \/ k \in raced[d]]_vars

\* "An operator save that lands in between must not be overwritten by the older
\* record the pass pulled" (fsStorageAdapter.ts:108-109): nothing but the
\* operator takes a file back to an older version.
SavesOutlivePulls ==
  [][\A d \in Devices, k \in Records :
       SetBack(d, k) => saving'[d] # saving[d]]_vars

\* The cloud's copy of k is refused as lossy.
Refused(d, k) == /\ local[d][k] # None /\ cloud[k] # None
                 /\ PullLoses(k, local[d][k], cloud[k])

\* The two replicas agree about k, as far as they ever will.
Settled(d, k) == local[d][k] = cloud[k] \/ Refused(d, k)

SignedIn(d) == ctl[d].tokens /\ ctl[d].ticking

\* From some time on each device is signed in or left alone, and no web client
\* removes rows.  Stamps being bounded, the saves stop as well.
Steady ==
  /\ <>[](\A d \in Devices : SignedIn(d) \/ ctl[d] = Idle)
  /\ <>[][\A k \in Records : cloud'[k] = None => cloud[k] = None]_vars

\* Then the devices signed in end up with what the cloud has, whatever was
\* saved, lost, failed, deleted or restarted before.
Converges ==
  Steady => <>[](\A d \in Devices, k \in Records : SignedIn(d) => Settled(d, k))

\* When no fault occurs they also end up serving their files: a reload that
\* read them before a save and set the registry after it is made good by the
\* reload after the save is pushed or overtaken.  Not so where the cloud's copy
\* is refused: the pass then moves nothing and no reload comes (cloudSync.ts
\* fanOutSyncWrites, shows.ts reloadShows).
ServesItsFiles ==
  Steady /\ [](faults = 0) =>
    <>[](\A d \in Devices, k \in Records :
           SignedIn(d) => registry[d][k] = local[d][k] \/ Refused(d, k))
=============================================================================
