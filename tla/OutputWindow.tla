---------------------------- MODULE OutputWindow ----------------------------
(***************************************************************************)
(* A renderer window and the server.  The window paints its source, which  *)
(* is its own channel or the one its configuration mirrors.  It subscribes *)
(* over a socket that may drop at any time, losing what is in flight both  *)
(* ways; the server then forgets its subscriptions, and the window sends   *)
(* them again on the next hello.  Both directions are in order.            *)
(*                                                                         *)
(* A half-open socket that the heartbeat drops is one more dropped socket. *)
(***************************************************************************)
EXTENDS ChannelPlayer, Sequences, SequencesExt

CONSTANTS
  Channels,  \* channels of the server
  Used,      \* those that are taken to
  Own,       \* the one in the window's URL
  Mirrors,   \* what the configuration may come to mirror; Own is no mirror
  MaxEdits,  \* edits of the configuration of a behaviour
  MaxFaults  \* dropped sockets and failed loads of a behaviour

VARIABLES
  air,       \* the server: each channel's graphic,
  mirrorOf,  \* the window's configured source,
  edits,     \* edits of it so far,
  taken,     \* takes so far, numbered,
  subs,      \* the socket's subscriptions
  open,      \* whether the socket is up
  toServer, toWindow,
  source,    \* the window: the source it accepts,
  latest,    \* the last state it accepted,
  player,    \* the stage,
  cached,    \* templates it holds
  asked,     \* and those it waits for
  lost,      \* takes whose template did not load in time
  faults

server == <<air, mirrorOf, edits, taken, subs>>
window == <<source, latest, player, cached, asked, lost>>
vars   == <<server, open, toServer, toWindow, window, faults>>

ASSUME WindowAssumption ==
  /\ Own \in Channels /\ Used \subseteq Channels /\ Mirrors \subseteq Channels
  /\ MaxFaults \in Nat /\ MaxEdits \in Nat
  /\ None \notin Takes /\ None \notin Templates /\ None \notin Data
  /\ None \notin Graphic \cup Mount \cup [take : Takes, tpl : Templates]
  /\ MaxTakes \in Nat /\ MaxData \in Nat \ {0} /\ IsFiniteSet(Templates)

ToServer == [type : {"subscribe"}, channel : Channels]
            \cup [type : {"get_channel"}]
            \cup [type : {"get_template"}, id : Templates]
ToWindow == [type : {"hello"}]
            \cup [type : {"config"}, mirrorOf : Channels]
            \cup [type : {"template"}, id : Templates]
            \cup [type : {"state"}, channel : Channels,
                  state : Graphic \cup {None}]

Hello        == [type |-> "hello"]
Config(m)    == [type |-> "config", mirrorOf |-> m]
State(c, g)  == [type |-> "state", channel |-> c, state |-> g]
Subscribe(c) == [type |-> "subscribe", channel |-> c]
GetTemplate(t) == [type |-> "get_template", id |-> t]

Init == /\ air = [c \in Channels |-> None]
        /\ mirrorOf = Own /\ edits = 0
        /\ taken = 0 /\ subs = {}
        /\ open = FALSE /\ toServer = <<>> /\ toWindow = <<>>
        /\ source = Own /\ latest = None
        /\ player = InitPlayer
        /\ cached = {} /\ asked = {} /\ lost = {}
        /\ faults = 0

----------------------------------------------------------------------------
\* The server.  Channel c becomes g and its subscribers are told.
Becomes(c, g) ==
  /\ air' = [air EXCEPT ![c] = g]
  /\ toWindow' = IF c \in subs THEN Append(toWindow, State(c, g)) ELSE toWindow
  /\ UNCHANGED <<mirrorOf, edits, subs, open, toServer, window, faults>>

TakeOn(c) ==
  \E t \in Templates :
    /\ taken < MaxTakes /\ taken' = taken + 1
    /\ Becomes(c, [take |-> taken', tpl |-> t, data |-> 1, phase |-> "in"])

UpdateOn(c) ==
  /\ air[c] # None /\ air[c].phase = "in"
  /\ air[c].data < MaxData
  /\ Becomes(c, [air[c] EXCEPT !.data = @ + 1])
  /\ UNCHANGED taken

\* A clear, and the sweep after it.
ClearOn(c) ==
  /\ air[c] # None /\ air[c].phase = "in"
  /\ Becomes(c, [air[c] EXCEPT !.phase = "out"])
  /\ UNCHANGED taken
SweepOn(c) ==
  /\ air[c] # None /\ air[c].phase = "out"
  /\ Becomes(c, None)
  /\ UNCHANGED taken

\* The window's configuration is edited or pulled: every socket gets the list.
Configure(m) ==
  /\ m # mirrorOf /\ mirrorOf' = m
  /\ edits < MaxEdits /\ edits' = edits + 1
  /\ toWindow' = IF open THEN Append(toWindow, Config(m)) ELSE toWindow
  /\ UNCHANGED <<air, taken, subs, open, toServer, window, faults>>

\* A message of the window is handled.  A channel subscribed to again answers
\* with its state as well.
ServerHandles ==
  /\ toServer # <<>> /\ toServer' = Tail(toServer)
  /\ LET m == Head(toServer)
     IN \/ /\ m.type = "subscribe"
           /\ subs' = subs \cup {m.channel}
           /\ toWindow' = Append(toWindow, State(m.channel, air[m.channel]))
        \/ /\ m.type = "get_channel"
           /\ toWindow' = Append(toWindow, Config(mirrorOf))
           /\ UNCHANGED subs
        \/ /\ m.type = "get_template"
           /\ toWindow' = Append(toWindow, [type |-> "template", id |-> m.id])
           /\ UNCHANGED subs
  /\ UNCHANGED <<air, mirrorOf, edits, taken, open, window, faults>>

\* The socket.
Connect == /\ ~open /\ open' = TRUE
           /\ toWindow' = <<Hello>>
           /\ UNCHANGED <<server, toServer, window, faults>>

Disconnect == /\ open /\ open' = FALSE
              /\ faults < MaxFaults /\ faults' = faults + 1
              /\ toServer' = <<>> /\ toWindow' = <<>> /\ subs' = {}
              /\ UNCHANGED <<air, mirrorOf, edits, taken, window>>

----------------------------------------------------------------------------
\* The window.
Sends(ms) == toServer' = toServer \o ms

\* hello(): subscriptions and unanswered template requests are sent again.
\* Slips, for comparison: the source "has not changed", or the requests "are on
\* their way".
OwnOnly == /\ Head(toWindow).type = "hello"
           /\ Sends(<<Subscribe(Own), [type |-> "get_channel"]>>)
           /\ UNCHANGED window
NoRequests == /\ Head(toWindow).type = "hello"
              /\ Sends(<<Subscribe(Own), Subscribe(source),
                         [type |-> "get_channel"]>>)
              /\ UNCHANGED window

OnHello ==
  /\ Head(toWindow).type = "hello"
  /\ Sends((IF source = Own THEN <<Subscribe(Own)>>
                            ELSE <<Subscribe(Own), Subscribe(source)>>)
           \o <<[type |-> "get_channel"]>>
           \o SetToSeq({GetTemplate(t) : t \in asked}))
  /\ UNCHANGED window

\* retarget: a new source is subscribed to, the own channel already is.
OnConfig ==
  /\ Head(toWindow).type = "config"
  /\ LET wanted == Head(toWindow).mirrorOf
     IN /\ source' = wanted
        /\ Sends(IF wanted \in {source, Own} THEN <<>>
                                             ELSE <<Subscribe(wanted)>>)
  /\ UNCHANGED <<latest, player, cached, asked, lost>>

\* A state of the source is applied; a take may need a template.
OnState ==
  /\ Head(toWindow).type = "state" /\ Head(toWindow).channel = source
  /\ LET g == Head(toWindow).state
     IN /\ latest' = g
        /\ \E remount \in BOOLEAN :
             player' = Apply(player, g, g # None /\ g.tpl \in cached, remount)
        /\ LET missing == {s.tpl : s \in {x \in player'.steps : ~x.loaded}}
           IN /\ asked' = asked \cup missing
              /\ Sends(SetToSeq({GetTemplate(t) : t \in missing \ asked}))
  /\ UNCHANGED <<source, cached, lost>>

OnOtherState ==
  /\ Head(toWindow).type = "state" /\ Head(toWindow).channel # source
  /\ UNCHANGED <<toServer, window>>

OnTemplate ==
  /\ Head(toWindow).type = "template"
  /\ LET t == Head(toWindow).id
     IN /\ player' = Loaded(player, t)
        /\ cached' = cached \cup {t} /\ asked' = asked \ {t}
  /\ UNCHANGED <<toServer, source, latest, lost>>

WindowHandles ==
  /\ toWindow # <<>> /\ toWindow' = Tail(toWindow)
  /\ OnHello \/ OnConfig \/ OnState \/ OnOtherState \/ OnTemplate
  /\ UNCHANGED <<server, open, faults>>

\* A template request fails: not found, or no answer in five seconds.
LoadFails(t) ==
  /\ t \in asked /\ asked' = asked \ {t}
  /\ faults < MaxFaults /\ faults' = faults + 1
  /\ player' = LoadFailed(player, t)
  /\ lost' = lost \cup LostTo(player, t)
  /\ UNCHANGED <<server, open, toServer, toWindow, source, latest, cached>>

PlayerBecomes(p) ==
  /\ player' = p
  /\ UNCHANGED <<server, open, toServer, toWindow, source, latest, cached,
                 asked, lost, faults>>

MountStep == \E s \in player.steps :
  CanMount(player, s) /\ PlayerBecomes(Mounted(player, s))
SwapStep == \E s \in player.steps :
  s.kind = "swap" /\ PlayerBecomes(Swapped(player, s))
OutStep == \E m \in player.retiring : PlayerBecomes(OutEnds(player, m))

Next ==
  \/ \E c \in Used : TakeOn(c) \/ UpdateOn(c) \/ ClearOn(c) \/ SweepOn(c)
  \/ \E m \in Mirrors : Configure(m)
  \/ \E t \in Templates : LoadFails(t)
  \/ ServerHandles \/ WindowHandles \/ Connect \/ Disconnect
  \/ MountStep \/ SwapStep \/ OutStep

\* The window reconnects, messages are handled, animations end.  Nobody has to
\* take or clear anything.
Fairness ==
  /\ WF_vars(Connect) /\ WF_vars(ServerHandles) /\ WF_vars(WindowHandles)
  /\ WF_vars(MountStep) /\ WF_vars(SwapStep) /\ WF_vars(OutStep)

Spec == Init /\ [][Next]_vars /\ Fairness

----------------------------------------------------------------------------
TypeOK ==
  /\ air \in [Channels -> Graphic \cup {None}]
  /\ mirrorOf \in Channels /\ source \in Channels
  /\ taken \in 0 .. MaxTakes /\ lost \in SUBSET Takes
  /\ subs \in SUBSET Channels /\ open \in BOOLEAN
  /\ \A i \in DOMAIN toServer : toServer[i] \in ToServer
  /\ \A i \in DOMAIN toWindow : toWindow[i] \in ToWindow
  /\ latest \in Graphic \cup {None}
  /\ player.current \in Mount \cup {None}
  /\ player.last \in Takes \cup {None} /\ player.data \in Data \cup {None}
  /\ player.steps \subseteq Step /\ player.retiring \subseteq Takes
  /\ cached \in SUBSET Templates /\ asked \in SUBSET Templates
  /\ faults \in 0 .. MaxFaults /\ edits \in 0 .. MaxEdits

\* The stage keeps its promise: what the window asks for is the last state it
\* accepted, what is up is the current mount.
Stage == INSTANCE StageOutput WITH
  Graphics <- [take : Takes, tpl : Templates],
  TemplateOf <- [g \in [take : Takes, tpl : Templates] |-> g.tpl],
  wanted <- IF latest = None \/ latest.phase = "out" THEN None
            ELSE [take |-> latest.take, tpl |-> latest.tpl],
  up <- IF player.current = None THEN None
        ELSE [take |-> player.current.take, tpl |-> player.current.tpl]

StagePromise == Stage!Spec

\* The stage paints the configured source as the server has it, or nothing when
\* that take's template did not load.
Follows ==
  LET g == air[mirrorOf]
  IN player.current = IF g = None \/ g.phase = "out" \/ g.take \in lost
                        THEN None
                        ELSE [take |-> g.take, tpl |-> g.tpl, data |-> g.data]

\* Connected, with nothing under way: no message, no animation, no step that
\* could go on.
AtRest == /\ open /\ toServer = <<>> /\ toWindow = <<>>
          /\ player.retiring = {}
          /\ \A s \in player.steps : s.kind = "load" /\ ~s.loaded

\* A window at rest paints its source: however subscriptions, states, templates
\* and reconnects interleaved, no state was missed for good, none was applied
\* out of order and no template is waited for that nobody will send.
RestFollows == AtRest => Follows

\* The window ends up painting its configured source, whatever was dropped,
\* loaded late or reconfigured before.
OutputFollows == <>[]Follows
=============================================================================
