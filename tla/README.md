# OverlaySys: a verification of the live control plane

OverlaySys puts graphics, song lyrics, scripture, slide decks and video on the
output channels of a live production. This directory holds TLA+ modules of the
parts of it that decide what is on air, what the output windows paint, who owns
the stage countdown, how machines share their records and when the speech
listener may hold the microphone; configurations that check them with TLC; and
proofs of their main invariants for TLAPS.

## 1. The system

A Node server (`server/src`, one event loop, WebSocket clients) owns the state.
Operators, a Companion (button) module and a speech listener send it messages;
renderers and stage monitors are sent each channel's state.

| component | state | operations | talks to | hard part | correct when |
|---|---|---|---|---|---|
| Channel state, `channels.ts` | per channel `states` (active graphic, media, summaries), `autoOutTimers`, `activeSource` | take, takeInternal, clear, update, takePvwToPgm, mediaTake/Clear/Control/Status, setLiveRow | calls the four sessions and is called by them; emits to subscribers | calls re-enter: a clear ends a song, whose end clears; deferred emits; asynchronous template read, sweep and auto-out timers | what clients were sent is what is; summaries mirror sessions; drafts stay on preview; a cleared graphic goes |
| Song session, `songSession.ts`, `sttMatcher.ts` | `sessions`, `queued`, `autoAdvanceTimers`, matcher binding | start, advance, jump, blank, setTrust, end, promoteTo, hypothesis | channels, slides session | arrangements with missing sections, repeats, audibles; speech timer against the operator | screen shows the slide at the cursor |
| Scripture session, `scriptureSession.ts` | `live`, `queued` | takeIntro, takeSlide, advance, goTo, end | channels | ended by many other paths | a live passage is on screen |
| Slides session, `slidesSession.ts` | `sessions` (index, blanked, at end, failed) and hold timers | start, advance, goTo, blank, end, promote, renderer reports | channels (both slots), song session | a deck whose slides are graphics or media in turn | its slide is shown, its media never outlives the slide |
| Media deck session, `mediaDeckSession.ts` | `sessions` (order seen, list, index, starved, failed) and hold timers | start, step, goTo, end, promote, folder change, reports | channels' media slot, live folders | files come and go, fail, or are replaced while playing | it is live exactly while its take is in the slot |
| Row ends and item timers, `itemEnd.ts`, `timers.ts`, core `stageTimers.ts` | one countdown of the current item, the newest take on a followed channel, rows seen on air | onRowTaken, onRowEnded (each reads followed channels, settings, row, label before it acts), delete | channels, shows store, Planning Center | handlers of several takes and ends cross between their reads | the newest take decides; a live Planning Center item is never overruled |
| Planning Center sync, `pco/pcoLiveSync.ts` | show and view published, generation, poll timer, polls and starts in flight | start, stop, poll, its outcomes | item timer, takes of another show | answers of an older generation, starts that overlap | one poll loop while on, none while off |
| Live-state snapshot, `liveState.ts` | a file, a debounce timer | save, restore | channels, timers, stage state | a restart forgets what drove the countdown | takes after a restart decide over what was restored |
| Cloud sync, `cloudSync.ts`, core `syncEngine.ts`, stores (`shows.ts`, `decks.ts`) | files, registries, tokens, kick and interval timers, a running pass; the cloud's rows | save, delete, sign in and out, pass step by step, reload | Supabase, web clients, other desktops | edits during a pass, clocks, tombstones, a step that fails or whose answer is lost, restarts | edits are not left behind; no save is undone but one made since the pass last read its file; replicas converge and are served |
| Renderer, `channelPlayer.ts`, `templateLoader.ts` | mount, generation, loads and out animations in flight | apply a state, retire, load, swap, mount | server state | steps that overlap newer states | shows the latest state |
| Output window, `mirrorSubscription.ts`, subscriptions in `ws.ts` | source, subscriptions, messages in flight both ways | hello, retarget, subscribe, template request, drop, reconnect | server, player | a socket that drops, a configuration that changes meanwhile | paints what the server has on its source |
| Connections, `ws.ts`, `heartbeat.ts` | claims, per-socket queue | claim, close, sweep | all | disconnects in the middle of a queue | one reporter per channel |
| Stage feeds, `stageFeedHub.ts`, `stageLayoutOverride.ts` | feeds, manual layouts | rebuild, arm, clear | channels | many inputs | a feed tells the live state |
| Speech spawner, `sttSpawner.ts`, device probe of `sttInstaller.ts` | child process, status, queued start, cooldown, ready timer, probe, start requests that wait | start, stop, exit, ready line, probe, boot auto-start | a child process, the microphone | stop, start, exit, late output and probe in any order | one capture; a stop holds; every start is answered |
| Desktop host, `apps/desktop` | server process, windows | respawn, reload | server | backoff | neither loops nor gives up |
| Deck conversion, `decksConvert.ts` | undo records | convert, undo | stores | failure between two writes | all or nothing |
| Other stores, importers, operator UI, template engine, Companion | records, views | read, write, render | the messages above | | |

`PROJECT.json` lists them with their status, and under `hazards` what in this
code is hard to test, at its line, with the properties that watch it.

## 2. Modules

Everything runs on event loops, so what interleaves is the order of messages,
timers, answers and steps between awaits. Each module says which steps those
are; a handler that does not await after it has read its records is one action.

**On air.** A handler is an operator from a channel record to the next one, and
an action applies it.

- `Rundown`: the show data as constants (rows of each kind, arrangements,
  decks, folder orders) with their assumptions, and the pure song arithmetic
  (`StepCursor`, `OccurrenceFor`).
- `ChannelState`: one record per channel. `st` is the published `ChannelState`;
  `song`, `songQ`, `scr`, `scrQ`, `slides`, `deck` are the session maps'
  entries; `autoOut`, `lookups`, `sweeps`, `stt` are pending timers and reads;
  `sent` is the state as the last `emit` left it with clients, so a change with
  no emit shows. `match` is the last match sent to the operator, `heard` the
  length of the arrangement the matcher was bound to.
- `MediaSlot`: `mediaTake` and its kin, and all of `mediaDeckSession.ts`.
- `GraphicsSlot`: takes, clears, auto-out and sweeps of `channels.ts`; the
  song, scripture and slides sessions; promotion, renderer reports, panic clear.
- `LiveControl`: the actions: one per client message that changes a channel
  (`...On`), one per timer, read or event; `Spec` and the type invariant.
- `LiveSafety`: the properties.
- `MCLive`, `MCService`, `MCPromote`: instances.

**The output window.**

- `StageOutput`: the abstract promise of a stage: a wish for a graphic or for
  none, and what is up. A new wish takes down what is up unless its template is
  reused; only the last wish is ever put up.
- `ChannelPlayer`: `channelPlayer.ts` as operators on a player record. `apply`
  runs to its first await; a template load, the wait for an out animation and
  the out half of a same-template swap are steps in flight. The generation
  counter is the flag `fresh`: false once a newer state overtook the step.
- `OutputWindow`: the player in a window that mirrors a channel, its socket,
  and the part of the server it talks to (`subs`, `air`, the configuration).
  `Disconnect` empties both directions and the server's subscriptions; the
  window sends them again at the next hello. `Stage` is the refinement mapping.

**The countdown.** Three layers, each with its own variables.

- `PcoSync`: the sync's generations, polls in flight (`asked`, counted by
  generation), the timer of the next poll, starts that await their show.
- `ItemTimers`: composes it with the takes. A channel is the rows it shows;
  every take and every row that leaves starts a call that goes on read by read
  (`FollowedRead`, `SettingsRead`, `ShowRead`, `LookupRead`, `EndRead`).
- `LiveRestart`: the save of the countdown and a restart that restores it.
- `MCTimers`: instance.

**Records.**

- `CloudSync`: devices with files, registry and flags, and the cloud's rows.
  A record is a version: a stamp, whether it is a tombstone, whether an older
  client lost part of it. A pass is a record of where it is: tables left, the
  two listings of the current one, what is left to move, the copy read again,
  the tables to reload. `raced` and `waiting` are history for the properties:
  the records saved since the running pass last read their file, and those
  saved while signed in that no pass has come to since.
- `MCSync`: instance.

**Speech.**

- `SttSpawner`: status, child, the processes alive, the queued start, the
  cooldown, the ready timer, output of an exited child still to be read, the
  device probe and the start requests that wait for it, for the device list or,
  at boot, for leftover pipelines to be killed.

The `_proof` modules hold the proofs (section 5). Operators marked "a slip, for
comparison" are not part of the specifications: each is a plausible bug, and
putting it in the place of the operator below it makes a property fail, which
shows that the property watches that code.

### What is abstracted

- Wording, field values and layout. A graphic says a row, section and slide; an
  operator's edit only marks it.
- Time. `now` is a millisecond reading that takes stamp; a timer that is set
  may fire at any later moment. Two takes in one millisecond do occur.
- Sweeps are a set of the `takenAt` they test: two timers with the same one
  have the same effect.
- Records the handlers read (shows, songs, decks, templates) do not change
  during a run. What a handler does before its last await changes no channel.
- A renderer's reports and the transport controls name any take made so far or
  later, in any order and number. Which socket may report is not modelled.
- Media transport keeps `paused` and `status`, not positions.
- `song_jump_kind` is a jump to a first slide; a song advance of several slides
  is a sequence of single ones; `media_folder_take` starts the row `folder`,
  `slides_goto` by key goes to the index it finds.
- Slides of one deck are distinct; failures are kept by index.
- The recovery of an auto-advance whose render throws, `restoreActive` and
  records of song usage are left out.
- Promotion is between different channels.
- Indexes are 1-based.
- Window: animations and loads have no duration; takes have distinct
  identities; templates are cached once loaded and are not edited; the media
  layer, which follows a video element, is left out.
- Countdown: its length, overtime and label; a countdown is its source and row.
  Rundown, settings and followed channels do not change. Polls have no delay.
- Cloud: content is its stamp. Stamps are drawn once, in any order, as clocks
  of different machines allow. Disk errors and the settings that are no record
  table are left out; a restart keeps the files.
- Spawner: two requests for the same configuration that wait at the same place
  count as one, since the second finds the spawner up. The configuration is its
  mode and whether it is the boot's. Durations are not measured.

## 3. Runs

| run | instance | shows |
|---|---|---|
| `service` | `MCService`, one program channel with auto-out, two clock readings, three media takes. Plan "service": two songs (one with a repeated section, one whose arrangement names a section it lacks), a two-slide passage, cards with and without a row. Plan "songs": the songs with a listener whose hypotheses match any slide the matcher knows, surely or not. Plan "decks": two graphics-slot decks mixing graphic, photo and video slides, one looping; a media deck and a looping live folder that is empty or holds two files; a library clip and a card, without live edits | the live song, passage or deck slide is what is on screen; every change was sent; `activeSource` names the graphic's row; an auto-out is pending as long as its graphic stays; a graphic going out is swept; a pending auto-advance dies with its song and breaks neither blanking nor the lyric; summaries mirror sessions although one hides the other; each deck owns the media it put up; a media deck plays only what can play |
| `promote` | `MCPromote`, preview and program. Plan "songs": songs, a passage, cards and a listener. Plan "decks": decks of both slots, clips, cards. Plan "drafts": drafts and cards, a song intro and a deck, sent to either channel and promoted. Plan "folder": a live folder, cued, promoted and driven while its files come, go and fail | the same across promotion; no draft passes the gate of `take` or of PVW to PGM; a folder resumes at a file that can play; an outgoing graphic goes |
| `window` | `OutputWindow`: two takes of two templates with an update, one edit of the configuration, two faults (drops or failed loads) | the stage implements `StageOutput`; a window at rest paints its source, and in the end it does |
| `timers` | `MCTimers`. Plan "takes": a song, a strap without a length and a clip, three takes on two channels one of which is followed, a restart. Plan "sync": two takes that meet a sync of two generations and two starts in flight | one poll loop; a live item is not overruled; the newest take decides |
| `sync` | `MCSync`. Plan "alone": one desktop, a show and a deck, web and old clients, one fault. Plan "together": two desktops share the deck, nothing fails. Plan "old client": one desktop and the show, nothing fails, on three stamps; the others have two | edits are not left for the next tick, only a save made since the running pass last read its file is undone, replicas converge and are served, except for copies that are refused |
| `spawner` | `SttSpawner`, two process names, all configurations | one capture, a stop holds, a probe spares a capture, what is reported up has a capture alive or coming, a start comes to a child, an error or a stop and a silent plain child is taken for ready |
| `song_over_deck`, `stale_auto_out`, `speech_disagrees`, `mirror_cleared`, `stale_source`, `save_lost` | the smallest instances | the six disagreements of section 6 |

### Bounds

All bounds are guards of the specifications, so every handler is reached below
them.

- `MaxNow` stops the clock and `MaxAt` bounds media take identities. Two clock
  readings suffice for an older timer to meet a take of the same or of a later
  millisecond; three media takes for a deck, another owner and the deck again,
  or for a folder's take before, by and after a promotion. The other plans of
  `promote` make two, the promoted one and the one it replaces. A report may
  name a take below the bound or one above those made, so it may be late.
  One passage, card and clip suffice because every handler compares a row with
  the live one only for equality, and two songs or decks supply a different
  one. `MCService` and `MCPromote` restrict which messages are sent together,
  not what a handler, timer or read does; no handler but a promotion, a panic
  clear or a hypothesis touches two channels.
- `MaxTakes`: two takes for a window (the older one's steps against the newer
  one's), three for the countdown (two whose reads cross and one on the other
  channel or after a restart). `MaxData`: a graphic and one update of it.
  `MaxFaults` in `window`: two, so that a reconnect can fail again or a load
  fail after it. `MaxEdits`: the mirror is set once; section 6 says what setting
  it back does.
- `MaxGeneration`, `MaxStarts`: a start, and a second start or a stop over it;
  two starts that await their show at a time. Polls of each generation are
  counted without bound.
- `MaxAt` in `sync`: two stamps, an older and a newer version, drawn in either
  order by operators and web clients; three in the plan with an old client,
  whose lossy copy may be newer than a save that crossed a reload. One fault: a failure, a sign-out or a
  restart at every point of a pass. A pass treats records one by one and
  tables one after the other, so one record in each of two tables with the
  different guards (`PullGuarded`, `Rechecked`, `HardDeleted`) shows them all.
- `Ids`: two names suffice to see a second process; no third can be needed
  before that.

### Fairness

- `promote`: weak fairness of `SweepTimer` alone. Node runs an expired timer,
  and the sweep is never cancelled. Clients, renderers and reads owe nothing.
- `window`: the socket reconnects, messages are handled, loads and animations
  end (`wsClient.ts` retries for ever; the player's awaits are timers and
  promises that settle). Nobody has to take or clear anything, and faults are
  bounded. Once takes, edits and faults are used up nothing need happen: the
  run does not check deadlock.
- `sync`: timers fire, awaited answers come, a sign-out ends. Nobody has to
  save, sign in or stay so; `Converges` assumes that at some time they no
  longer change that (`Steady`).
- `spawner`: timers fire, probes and lists end, a killed child exits. A child
  that is not killed owes nothing, neither a line nor an exit: the ready
  fallback answers for a plain one, and channel capture may stay silent.

All other runs check safety only. Every run but `window` and `mirror_cleared`
checks deadlock.

## 4. Properties

On air (`LiveSafety`):

- `NothingUnsent`: each handler that defers its emit relies on a later call to
  publish; this says that some call always does.
- `SummariesMirrorSessions`: published queues and sessions equal the private
  maps, including the media deck's summary behind a graphics deck's.
- `SongOnScreen`, `ScriptureOnScreen`, `SlidesOnScreen`: the live session is
  what the slot shows. A song and a deck that are both live (section 6) are
  excluded by hypothesis, and a cursor that names no slide draws nothing.
- `LoopOwnsItsMedia`, `NoOrphanedSlideMedia`: the media slot's owner is the live
  deck and the take it waits for. Reports of earlier takes reach the channel,
  where `mediaStatus` drops them by the take they name, and each session
  compares that name with its own take once more.
- `PlaysWhatCan`: what a media deck puts on air has not failed and is still in
  its folder, whichever step, timer, wrap, report, folder change or promotion
  puts it there. Stepping back from the end is exempt: the code shows the last
  file again without asking whether it can play.
- `NoDraftOnAir`: drafts are on preview in `promote`, so the gates of `take` and
  of both branches of PVW to PGM are what keeps them off program.
- `AdvanceHasASong`, `BlankIsDark`: the delayed speech advance against the
  operator. It may still reach another song started over the live one within
  its delay, and one whose trust was switched off since: the code lets it, and
  no document says otherwise.
- `SourceNamesTheGraphic` is checked where nothing is promoted; across promotion
  the code does not keep it (`stale_source`, section 6).
- `AutoOutIsPending`, `OutgoingIsSwept`, `OutgoingGoes`: as their comments say.

Output window: `StagePromise` is the refinement of `StageOutput`.
`OutputFollows` says that in the end the window paints its configured source's
graphic with its latest data, or nothing when that take's template failed to
load. `RestFollows` is the safety behind it: a window that is connected, with no
message under way, no animation running and every step waiting for a template,
already paints that. In particular it never waits for a template nobody will
send.

Countdown: `OnePollLoop`, `LiveSyncOwnsTimer` and `NewestTakeDecides`. The last
speaks of moments at which every take has been handled; between, an older
countdown may show.

Records: `EditsDoNotWait` (a save made during a pass is not left for the
five-minute tick), `OnlyRacedSavesLost` (a file goes back to an older version
only by the operator, or by a pull that has not read the file since its last
save; where the stored copy is read again before the write, as for decks, a
save that came before that second read is kept), `Converges`, and
`ServesItsFiles`. A comment promises more than the second, that no such save is
overwritten at all: that is `SavesOutlivePulls`, which `save_lost` refutes.
`ServesItsFiles` says that a registry reload that crossed a save is made good by
a later one. It is claimed of behaviours without faults, since a push whose
answer is lost does not count as moved and the reload may not come; and not of
a record whose cloud copy is refused as lossy, for which no pass moves
anything (section 6).

Speech: `OneCapture`, `StopHolds`, `ProbeSparesCapture`, `UpHasCapture` (what is
reported starting or running has a capture alive or on its way, and one that
starts has what will report it ready), `StartIsAnswered` (a start comes to a
child of its own, an error or a stop, and a plain child that stays alive is
reported running although it never says a word). Channel capture has no ready
fallback and may stay "starting" for as long as it is silent (section 6). The
boot's auto-start and channel capture do run beside a probe: the code waits for
neither, and the properties say so.

## 5. Proofs

TLAPS proves, for every value of the constants that satisfies the named
assumptions (TLC evaluates these in the runs):

| module | theorems | assumptions |
|---|---|---|
| `LiveControl_proof` | `TypeCorrect` (`TypeOK`), `DraftsStayOnPreview` (`NoDraftOnAir`), `NothingLingers` (`OutgoingIsSwept`) | `TemplatesAssumption`, `SongsAssumption`, `ScriptureAssumption`, `DecksAssumption`, `LoopsAssumption`, `InputsAssumption` |
| `MediaSlot_proof` | lemmas only: what the media slot and its decks do to a channel | the same |
| `LiveSafety_proof` | `EverythingIsSent` (`NothingUnsent`), `SummariesAgree` (`SummariesMirrorSessions`), `AdvancesMoveASong` (`AdvanceHasASong`), `DecksOwnTheirMedia` (`LoopOwnsItsMedia`), `SlideMediaGoesWithItsSlide` (`NoOrphanedSlideMedia`), `PassagesAreShown` (`ScriptureOnScreen`), `SongsAreShown` (`SongOnScreen`), `DecksAreShown` (`SlidesOnScreen`), `BlankStaysDark` (`BlankIsDark`), `AutoOutIsNotForgotten` (`AutoOutIsPending`), `SourceIsNamed` (`SourceNamesTheGraphic`, with `[]Apart` as its hypothesis), `SessionsStayApart` | the same and `NoneAssumption` |
| `OutputWindow_proof` | `StageKept` (`StagePromise`, the refinement), `TypeCorrect` | `WindowAssumption` |
| `WindowRest_proof` | `RestsOnSource` (`RestFollows`) | the same, and `MaxEdits <= 1` as a hypothesis of the theorem |
| `LiveRestart_proof` | `TypeCorrect`, `OneLoop` (`OnePollLoop`), `SyncOwnsCountdown` (`LiveSyncOwnsTimer`), `NewestDecides` (`NewestTakeDecides`) | `ItemTimersAssumption`, `RestartAssumption` |
| `CloudSync_proof` | `TypeCorrect`, `NoEditWaits` (`EditsDoNotWait`), `OnlyRacesLose` (`OnlyRacedSavesLost`, an action property) | `CloudAssumption`, `PassAssumption` |
| `SttSpawner_proof` | `TypeCorrect`, `NoCompetingCapture` (`OneCapture`), `StopWins` (`StopHolds`), `ProbesAlone` (`ProbeSparesCapture`), `ReportedIsUnderWay` (`UpHasCapture`) | `SpawnerAssumption` |

Each module's `Inductive` is `Spec => []IInv`, from which its theorems follow;
`LiveSafety_proof` builds on that of `LiveControl_proof` and has a second one,
`AlwaysGood`; `WindowRest_proof` strengthens that of `OutputWindow_proof` to
`RestInv`.

**On air.** `TypeOK` is not inductive: a deck's index is used to look up its
slide, so the type of what is shown needs the index to be within the row, and a
draft is kept off air because what a handler leaves on screen was either there
or passed the gate. `IInv` therefore says that every channel record is in
`Sound(k)`: typed, named `k`, airing nothing `k` may not air, its decks' indexes
within their lists, its outgoing graphic swept. The argument follows the code:
one lemma per operator says that it maps `Sound(k)` to itself, by updates of
single fields (`Put`, `StPut`), and an operator that calls others is sound by
their lemmas, so the mutual calls of the sessions are followed only once. The
least playable slide of a list exists by well-foundedness of the naturals.
Draft freedom of songs, passages and decks rests on the assumption that rows
are designed with saved templates, which is what the designer's row editors
offer; takes and promotions rest on `refuseDraft` alone.

**Between sessions, published state and screen.** The first ten properties of
`LiveSafety_proof` depend on each other, and handlers break and restore them on
the way: a take ends the sessions before it puts up its graphic, and several
calls change the state and leave the emit to the next one. `Good(c)` is the
conjunction that every handler restores:

- `Told`: what was sent is the state.
- `MediaGood`: the media slot shows the take of the media deck that is live
  (`LoopOwns`); the media of a slides deck is of the slide it is on (`NoStray`);
  the published deck is the slides deck's (`DeckShown`) or, without one, the
  media deck's (`LoopShown`); a media deck with its timer armed is not at its
  end (`LoopRests`). The last is a strengthening: the timer's callback disarms
  itself first, and one that could not move the deck would leave that
  unpublished.
- `Mirrors`: songs, passages and queues are published as they are, an
  auto-advance has a song, and a slides deck that ended by itself is at its end
  (`EndsAtEnd`), for a step back from the first slide would otherwise take the
  mark back unpublished.
- `Screen`: each live session is on screen; a deck has no passage beside it
  (`DeckAlone`), since one on a photo or a blanked slide takes down whatever
  graphic is up; without a session the auto-out of what is up is pending.

The proof follows the calls. One lemma per operator says which fields it leaves
alone (`KeepsScreen`, `KeepsSong`, `KeepsQueues`, `KeepsPassage`, `KeepsDecks`),
which parts of `Good` survive it and which it establishes, so a handler is good
by the lemmas of its calls in their order; a promotion is two such chains, on
its two channels. `MediaSlot_proof` does the same for the media slot alone.
`NoneAssumption` says that absence is not itself a graphic, a take or a session.
The hypotheses of `SongOnScreen` and `SlidesOnScreen` (no song beside a deck) are
those of the properties: section 6 shows that the code lets both be live.

**The source.** `SourceNamesTheGraphic` needs `Named` beside `Good`: a source is
none or the row of the live song or deck (`SongNamed`, `DeckNamed`), of a queue
that is alone (`QueueNamed`), and without any of these the row of the graphic up
(`GraphicNamed`). A promotion reads the graphic of the other channel before that
channel's session is moved, so on a channel that is promoted from a live song's
graphic must already be of its row. `SourceIsNamed` therefore has a hypothesis,
`[]Apart`: where there are promotions they leave no song beside a deck, no queue
under a deck, and no song that is live on a channel promoted from is off its
slides. The first two are what findings 1 and 5 show promotions to do. The third
fails for a song whose first section is empty: it becomes the source and draws
nothing, so the former graphic stays up, and PVW to PGM carries that graphic with
the song's row, while `channels.ts:49` says the source is that of the take that
owns the graphic (section 6). `Apart` is no condition where nothing is promoted:
`SessionsStayApart` proves that sessions then stay apart and the source names the
graphic, with no hypothesis on the behaviour. In `promote` neither `Apart` nor the
conclusion holds, for its promotions reach finding 5; the theorem says that one
of the three cases must have come before.

**Window.** A step that goes on late may put up only what is asked for now, so
the invariant speaks of the steps in flight: `Sound` says that a fresh step is
for the graphic wanted, that a fresh swap has a mount of its template, and that
without a wish nothing is mounted. The player tells takes apart by identity
alone, while the promise is about templates too; `Agree` says that a take keeps
the template it was taken with in `air`, in every message in flight and in
`latest`, and a reconnected window may receive states in any order of takes. A
step of the window then is a step of `StageOutput` or a stutter.

**Window at rest.** `RestFollows` speaks of quiet moments, so `RestInv` says, of
all the others, what is still to come. Three groups of facts carry it.

- What is due (`Dues`): what the window does not have yet is on its way. The
  edit, the source's present state (`StateDue`) and each template waited for
  (`TemplatesDue`) are in the queue to the window, asked for by a request that
  the server has not read, or asked for again by what a hello will make the
  window send. A socket that drops moves each of them to the last place, and
  this is why `OnHello` resends the requests.
- Lines (`Lines`): several states of one channel may be in flight, because a
  subscription is answered with a state beside those broadcast. `Ordered` says
  that, ended by the state the channel has now, they never return to a take
  they left; `Caught` says the same of the window's own history, so the last
  one to arrive is the one to draw.
- What is drawn (`Draws`, `Waiting`): the player has mounted the state accepted
  last, or holds one fresh step that will, or lost it to a template that failed.

At rest nothing is due, so the state accepted last is the source's, and no step
is left but it is drawn. The hypothesis `MaxEdits <= 1` is needed: with a second
edit the window may be pointed away and back, which breaks `Caught` and
`StateDue`: section 6 describes both behaviours, one of them the run
`mirror_cleared`. The run takes on the mirrored channel only; the theorem
covers takes on every channel, the window's own among them.

**Countdown.** `NewestTakeDecides` speaks of quiet moments and so is not
inductive. `Pending` fills the time between: as long as a take-based countdown
names another row, the newest take's call is past its first read and still on
its way. `TakeOrder` says why a call that ends later does not undo it: a call
whose number is the newest's is of the newest's row. `SettingOff` covers the
setting, without which no call would come to decide. `OnePollLoop` needs
`FutureUnasked`: no poll was asked in a generation to come, so a new one starts
with none in flight.

**Records.** `EditsDoNotWait` needs where the pass stands: `Shaped` says that
listings and moves are of the current table, `ToCome` that a record's table is
still to be listed, and `Due` that every waiting record has its table to come,
or a pass to come. The conclusion uses only `RunSync`'s re-run flag and that a
listing takes its table's records off the list.

`OnlyRacedSavesLost` is proved from `AllKnown`: of every file of the current
table that a pass has read and not dealt with, the device still has the version
read, unless a save since marked it as raced; and the one file that was read
again (`held`) is no newer than the cloud's row that is about to replace it
(`NotAfter`), with the same exception. A pull takes a newer row than the version
read only, so it can lower a file's stamp only if the file is in `raced`. No
other step but the operator's own save or delete writes a file.

**Speech.** `Alone` (whoever is alive is the child the spawner knows) makes
`OneCapture` inductive together with `Queue` (a start waits behind a child or
for the cooldown, never both, and only while the spawner is up). A probe is
spared by `QueueSpared` and `AsksApart`: what is queued while one runs is the
boot's or channel capture. `UpHasCapture` is inductive beside these: a start is
queued only behind a child that a stop has killed, whose exit moves it to the
cooldown. It is the safety half of `StartIsAnswered`: a start under way always
has a step to wait for, be it a word from a channel capture that may never come.

Only model-checked:

- The liveness properties (`OutgoingGoes`, `OutputFollows`, `Converges`,
  `ServesItsFiles`, `StartIsAnswered`), which are outside the prover's reach.
  Proved is the safety behind three of them: `OutgoingIsSwept`, `RestFollows`,
  `UpHasCapture`.
- The runs that expect a violation.

Folder orders are recursive in the code and constants here, with an assumption
on what they return.

## 6. Where the code and its documentation disagree

1. `song_over_deck`: `songSession.promoteTo` does not end the slides session
   live on its destination, as `start` does and says (`songSession.ts:152`).
   Both sessions are live; the deck's next step draws over the song.
2. `stale_auto_out`: the template read of an auto-out can answer while its
   graphic is already going out; the timer it sets is not cancelled by a deck
   whose slide is a photo, and fires on it if the auto-out is shorter than the
   sweep. The comment at `channels.ts:46` says such a timer never fires.
3. `speech_disagrees`: a hypothesis that disagrees does not cancel the pending
   auto-advance, as the comment at `songSession.ts:510` and
   `docs/superpowers/specs/2026-05-07-live-lyrics-design.md:187` say they do.
4. `mirror_cleared`: a window whose mirror is cleared goes back to its own
   channel without subscribing again, so it is sent no state and keeps painting
   the former source until its own channel changes. The file says the source
   follows the configuration "including reverting to self"
   (`mirrorSubscription.ts:24`).
5. `stale_source`: PVW to PGM of a slides deck leaves a song queued on the
   destination, where a deck's start drops it (`slidesSession.ts:230`) and the
   test at `songSession.test.ts:515` says that PVW to PGM of something else
   drops program's stale queued song. The next song advance ends the deck and
   puts that song up without recording it as the source: `activeSource` and the
   published row are still the deck's, while `channels.ts:49` says the source is
   that of the take that owns the graphic.
6. `save_lost`: `saveDeck` reads the stored deck, finds it older than the pulled
   one and awaits its write; an operator's save that completes in between is
   overwritten by the older record and stays lost. The tables without a second
   read lose any save made since the listing. The comment at
   `fsStorageAdapter.ts:108` says that such a save must not be overwritten.

Met while modelling, without a run of its own:

- A window pointed at an idle channel and back, while the first channel's
  graphic is still up, stays dark: the player remembers the take as shown
  (`channelPlayer.ts:111`). With `MaxEdits` at 3 and an idle channel among the
  mirrors, `OutputFollows` fails.
- A song whose first section is empty (`arr |-> <<>>`) becomes the source of its
  channel and draws nothing, so the former graphic stays up; PVW to PGM carries
  it with the song's row, and `SourceNamesTheGraphic` fails there too.
- A registry that a reload set from files read before a save stays stale if the
  cloud's copy is then a newer lossy one of an older client: it is neither
  pulled nor pushed over (`syncEngine.ts:445-449`), no table counts as moved and
  no reload comes. It takes three stamps.
- Channel capture whose process delivers nothing stays "starting". The comment
  at `sttSpawner.ts:290` says it always prints its readiness line, but the check
  for missing audio in `src/apps/lyric-listener/src/channels.mjs:243-247` waits
  for a first chunk.

## 7. Not modelled

- The graphic a restart brings back (`restoreActive`): the channel model begins
  with a fresh server, and a restored graphic has no session, row or timer.
- The stage state and the manual timers: single synchronous steps on state
  nothing else reads.
- Which renderer may report media (`claimMediaReporter`): reports in any number
  and order are modelled whoever sends them.
- The renderer's media layer and playback synchronisation: they follow a video
  element and clocks.
- Stage feeds and manual layouts: functions of all live state, whose awaits are
  of records in memory.
- The desktop host's respawn: a backoff over wall-clock windows, of which
  nothing is left without time.
- Deck conversion: file writes with a best-effort rollback that logs what it
  could not undo. It promises little that could be checked.
- The stores of the other record kinds, which have the shape of shows or decks;
  migrations, bundles, asset files, importers and HTTP routes; the template
  engine, the operator UI and the Companion module.
