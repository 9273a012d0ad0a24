---------------------------- MODULE WsTransport ----------------------------
(***************************************************************************)
(* UniversalWsTransport: handles that send commands over an unbounded      *)
(* channel, and the driver task that dials, authenticates, replays         *)
(* active_subs, serves commands and dials again when the connection is     *)
(* lost.  The connection and the exchange behind it are the environment;   *)
(* frames that carry market data are left out, they change no state here.  *)
(***************************************************************************)
EXTENDS Integers, Sequences

CONSTANTS
  Specs,        \* the StreamSpecs the protocol has a subscribe frame for
  NoSpec,       \* what a command without a StreamSpec carries
  MaxAttempts,  \* ReconnectConfig::max_attempts, 0 = infinite
  AuthModes,    \* whether the driver has credentials to authenticate with
  MayRefuse,    \* unsubscribe_frame may return Err, or name a channel that is gone
  MaxFails,     \* bound: failures of the network and the exchange
  MaxCmds       \* bound: commands ever sent

ASSUME TransportAssumption ==
  /\ NoSpec \notin Specs
  /\ MaxAttempts \in Nat /\ MaxFails \in Nat /\ MaxCmds \in Nat
  /\ AuthModes \subseteq BOOLEAN /\ MayRefuse \in BOOLEAN

VARIABLES
  auth,      \* credentials are configured
  pc,        \* where the driver is
  state,     \* the TransportState every handle reads
  attempt,   \* BackoffState::attempt
  active,    \* active_subs
  cmds,      \* the command channel
  todo,      \* subscriptions still to be replayed on this connection
  writes,    \* frames handed to the write task and not sent yet
  wire,      \* the connection: none, up, broken (error or EOF) or mute
  server,    \* what the exchange streams on this connection
  leftover,  \* history: of that, what active_subs dropped and no frame took back
  dropped,   \* every handle is gone: the command channel is closed
  asked,     \* history: a Shutdown was sent
  wanted,    \* history: what the commands accepted before it amount to
  fails,     \* failures so far
  sent       \* commands sent so far

link == <<todo, writes, wire, server, leftover>>
history == <<asked, wanted, sent>>
vars == <<auth, pc, state, attempt, active, cmds, link, dropped, history, fails>>

Ops == [op : {"subscribe", "unsubscribe"}, spec : Specs]
Commands == Ops \cup [op : {"connect", "shutdown"}, spec : {NoSpec}]
Online == {"auth", "replay", "loop"}

Init ==
  /\ auth \in AuthModes
  /\ pc = "sleep" /\ state = "Disconnected" /\ attempt = 0
  /\ active = {} /\ cmds = <<>>
  /\ todo = {} /\ writes = <<>> /\ wire = "none" /\ server = {} /\ leftover = {}
  /\ dropped = FALSE /\ asked = FALSE /\ wanted = {}
  /\ fails = 0 /\ sent = 0

\* Is s in the set once the operations in the queue are applied to it in order?
Outcome(s, set, queue) ==
  LET about == {i \in DOMAIN queue : queue[i].spec = s}
  IN  IF about = {} THEN s \in set
      ELSE \E i \in about : queue[i].op = "subscribe" /\ \A j \in about : j <= i

Apply(set, o) ==
  CASE o.op = "subscribe" -> set \cup {o.spec}
    [] o.op = "unsubscribe" -> set \ {o.spec}
    [] OTHER -> set

-----------------------------------------------------------------------------
(* The handles: connect, subscribe, unsubscribe, disconnect, drop.           *)

\* Accepted while the driver lives, whatever the connection is doing.
Send(o) ==
  /\ pc # "off" /\ ~dropped
  /\ sent < MaxCmds
  /\ cmds' = Append(cmds, o)
  /\ sent' = sent + 1
  /\ asked' = (asked \/ o.op = "shutdown")
  /\ wanted' = IF asked THEN wanted ELSE Apply(wanted, o)
  /\ UNCHANGED <<auth, pc, state, attempt, active, link, dropped, fails>>

DropHandles ==
  /\ ~dropped
  /\ dropped' = TRUE
  /\ UNCHANGED <<auth, pc, state, attempt, active, cmds, link, history, fails>>

-----------------------------------------------------------------------------
(* The environment.                                                          *)

MayFail == fails < MaxFails /\ fails' = fails + 1

\* The connection ends with an error or EOF, or falls silent.
LoseWire ==
  /\ wire = "up" /\ MayFail
  /\ wire' \in {"broken", "mute"}
  /\ UNCHANGED <<auth, pc, state, attempt, active, cmds, todo, writes, server, leftover,
                 dropped, history>>

-----------------------------------------------------------------------------
(* The driver, outside its message loop.                                     *)

Hangup ==
  todo' = {} /\ writes' = <<>> /\ wire' = "none" /\ server' = {} /\ leftover' = {}

\* next_delay: count the attempt and sleep.
Backoff == attempt' = attempt + 1 /\ pc' = "sleep"

\* The top of run's loop.
Wake ==
  /\ pc = "sleep"
  /\ state' = IF attempt > 0 THEN "Reconnecting" ELSE "Connecting"
  /\ pc' = "dial"
  /\ UNCHANGED <<auth, attempt, active, cmds, link, dropped, history, fails>>

HookFails ==
  /\ pc = "dial" /\ MayFail
  /\ state' = "Reconnecting"
  /\ Backoff
  /\ UNCHANGED <<auth, active, cmds, link, dropped, history>>

DialFails ==
  /\ pc = "dial" /\ MayFail
  /\ Backoff
  /\ UNCHANGED <<auth, state, active, cmds, link, dropped, history>>

\* Mutant: a connection starts with what the callers ask on it.
DialOk_NoReplay ==
  /\ pc = "dial"
  /\ pc' = IF auth THEN "auth" ELSE "replay"
  /\ wire' = "up"
  /\ UNCHANGED <<auth, state, attempt, active, cmds, todo, writes, server, leftover, dropped,
                 history, fails>>

DialOk ==
  /\ pc = "dial"
  /\ pc' = IF auth THEN "auth" ELSE "replay"
  /\ wire' = "up" /\ todo' = active
  /\ UNCHANGED <<auth, state, attempt, active, cmds, writes, server, leftover, dropped, history,
                 fails>>

AuthOk ==
  /\ pc = "auth" /\ wire = "up"
  /\ pc' = "replay"
  /\ UNCHANGED <<auth, state, attempt, active, cmds, link, dropped, history, fails>>

\* Refused, not sent or not acknowledged in time: a fixed delay, no attempt.
AuthFails ==
  /\ pc = "auth"
  /\ IF wire = "up" THEN MayFail ELSE UNCHANGED fails
  /\ Hangup
  /\ pc' = "sleep"
  /\ UNCHANGED <<auth, state, attempt, active, cmds, dropped, history>>

\* A subscribe frame that cannot be sent is only logged.
Replay(s) ==
  /\ pc = "replay" /\ s \in todo
  /\ todo' = todo \ {s}
  /\ server' = IF wire = "up" THEN server \cup {s} ELSE server
  /\ UNCHANGED <<auth, pc, state, attempt, active, cmds, writes, wire, leftover, dropped,
                 history, fails>>

Connected ==
  /\ pc = "replay" /\ todo = {}
  /\ pc' = "loop" /\ state' = "Connected" /\ attempt' = 0
  /\ UNCHANGED <<auth, active, cmds, link, dropped, history, fails>>

-----------------------------------------------------------------------------
(* The message loop: one select! over commands, frames and the watchdog.     *)

\* The frame of a command goes to the write task and will be obeyed.
Frames(o) == /\ writes' = Append(writes, o)
             /\ leftover' = leftover \ {o.spec}

\* Mutant: Unsubscribe sends its frame and forgets active_subs.
TakeCmd_KeepsSub ==
  /\ pc = "loop" /\ cmds # <<>> /\ Head(cmds).op # "shutdown"
  /\ LET o == Head(cmds)
     IN  /\ active' = IF o.op = "subscribe" THEN active \cup {o.spec} ELSE active
         /\ IF o.op = "connect" THEN UNCHANGED <<writes, leftover>> ELSE Frames(o)
  /\ cmds' = Tail(cmds)
  /\ UNCHANGED <<auth, pc, state, attempt, todo, wire, server, dropped, history, fails>>

\* Mutant: a Connect is answered with a frame like the other commands.
TakeCmd_SendsConnect ==
  /\ pc = "loop" /\ cmds # <<>> /\ Head(cmds).op # "shutdown"
  /\ active' = Apply(active, Head(cmds))
  /\ Frames(Head(cmds))
  /\ cmds' = Tail(cmds)
  /\ UNCHANGED <<auth, pc, state, attempt, todo, wire, server, dropped, history, fails>>

\* Subscribe, Unsubscribe or Connect: active_subs first, then the frame.  Where the
\* protocol can build no frame for an unsubscribe (Upbit never, Bitfinex not before
\* the subscription's ack), or names a channel of an earlier connection (Bitfinex),
\* the driver warns at most, and the exchange streams on.
TakeCmd ==
  /\ pc = "loop" /\ cmds # <<>> /\ Head(cmds).op # "shutdown"
  /\ LET o == Head(cmds)
     IN  /\ active' = Apply(active, o)
         /\ \/ o.op \in {"subscribe", "unsubscribe"} /\ Frames(o)
            \/ o.op = "connect" /\ UNCHANGED <<writes, leftover>>
            \/ /\ o.op = "unsubscribe" /\ MayRefuse
               /\ leftover' = leftover \cup ({o.spec} \cap active)
               /\ UNCHANGED writes
  /\ cmds' = Tail(cmds)
  /\ UNCHANGED <<auth, pc, state, attempt, todo, wire, server, dropped, history, fails>>

\* Mutant: Shutdown closes the connection and nothing more.
TakeShutdown_Closes ==
  /\ pc = "loop" /\ cmds # <<>> /\ Head(cmds).op = "shutdown"
  /\ cmds' = Tail(cmds)
  /\ wire' = "broken"
  /\ UNCHANGED <<auth, pc, state, attempt, active, todo, writes, server, leftover, dropped,
                 history, fails>>

\* The driver returns; the commands behind the Shutdown are lost with cmd_rx.
TakeShutdown ==
  /\ pc = "loop" /\ cmds # <<>> /\ Head(cmds).op = "shutdown"
  /\ pc' = "off" /\ state' = "Disconnected"
  /\ cmds' = <<>>
  /\ Hangup
  /\ UNCHANGED <<auth, attempt, active, dropped, history, fails>>

\* The write task: a send that fails is ignored.
WriteFrame ==
  /\ pc = "loop" /\ writes # <<>>
  /\ writes' = Tail(writes)
  /\ server' = IF wire = "up" THEN Apply(server, Head(writes)) ELSE server
  /\ UNCHANGED <<auth, pc, state, attempt, active, cmds, todo, wire, leftover, dropped, history,
                 fails>>

\* Mutant: a new connection starts from an empty active_subs.
LoopExit_Forgets ==
  /\ pc = "loop"
  /\ wire \in {"broken", "mute"} \/ (dropped /\ cmds = <<>>)
  /\ Hangup
  /\ active' = {}
  /\ Backoff
  /\ UNCHANGED <<auth, state, cmds, dropped, history, fails>>

\* Error, EOF, the watchdog, or the command channel closed and drained.
LoopExit ==
  /\ pc = "loop"
  /\ wire \in {"broken", "mute"} \/ (dropped /\ cmds = <<>>)
  /\ Hangup
  /\ IF MaxAttempts > 0 /\ attempt >= MaxAttempts
       THEN pc' = "off" /\ state' = "Disconnected" /\ cmds' = <<>> /\ UNCHANGED attempt
       ELSE Backoff /\ UNCHANGED <<state, cmds>>
  /\ UNCHANGED <<auth, active, dropped, history, fails>>

-----------------------------------------------------------------------------
Dialing == Wake \/ HookFails \/ DialFails \/ DialOk \/ AuthOk \/ AuthFails
           \/ (\E s \in Specs : Replay(s)) \/ Connected
Take == TakeCmd \/ TakeShutdown

Next == \/ \E o \in Commands : Send(o)
        \/ DropHandles \/ LoseWire
        \/ Dialing \/ Take \/ WriteFrame \/ LoopExit

Spec == Init /\ [][Next]_vars

\* The driver and its write task run; every sleep and timeout ends.  The
\* failures are bounded by MaxFails: after the last of them dialing succeeds.
Fairness == WF_vars(Dialing) /\ WF_vars(Take) /\ WF_vars(WriteFrame) /\ WF_vars(LoopExit)
FairSpec == Spec /\ Fairness

-----------------------------------------------------------------------------
\* Only subscribe and unsubscribe make frames: a Connect leaves nothing in the
\* write task's queue.  The attempt counter runs at most one ahead of the
\* failures, because a connection that was lost counts as an attempt.
TypeOK ==
  /\ auth \in AuthModes
  /\ pc \in {"sleep", "dial", "off"} \cup Online
  /\ state \in {"Disconnected", "Connecting", "Connected", "Reconnecting"}
  /\ attempt \in 0 .. MaxFails + 1
  /\ active \subseteq Specs /\ todo \subseteq Specs /\ server \subseteq Specs
  /\ leftover \subseteq Specs
  /\ cmds \in Seq(Commands) /\ writes \in Seq(Ops)
  /\ wire \in {"none", "up", "broken", "mute"}
  /\ {dropped, asked} \subseteq BOOLEAN /\ wanted \subseteq Specs
  /\ fails \in 0 .. MaxFails /\ sent \in 0 .. MaxCmds

\* "Subscriptions are replayed on every successful reconnect": on a connection
\* that still works the exchange streams, once the write task has caught up,
\* active_subs and, of what was unsubscribed on this very connection, only that
\* for which no frame could be built: nothing else, whatever was subscribed and
\* unsubscribed while the driver was away or its frames were on their way.
ExchangeAgrees ==
  pc = "loop" /\ wire = "up" =>
    \A s \in Specs : Outcome(s, server, writes) <=> s \in active \cup leftover

\* No subscribe or unsubscribe that was accepted before a Shutdown is forgotten
\* by a reconnect: active_subs and the queued commands still amount to it.
NothingForgotten ==
  pc # "off" /\ ~asked => \A s \in Specs : Outcome(s, active, cmds) <=> s \in wanted

\* Once the network behaves, the transport ends up connected with what its callers
\* asked for, and with more only where no frame could take it back since the last
\* reconnect, unless they shut it down or let go of it.
WantedIsServed ==
  <>[](asked \/ dropped
       \/ (state = "Connected" /\ wire = "up" /\ server = wanted \cup leftover))

\* disconnect(): "Graceful shutdown".  It takes effect once the driver can
\* connect; commands and reconnects that come before it do not swallow it.
ShutdownStops == asked ~> (pc = "off" /\ state = "Disconnected" /\ wire = "none")
=============================================================================
