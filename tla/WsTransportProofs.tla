------------------------- MODULE WsTransportProofs -------------------------
(***************************************************************************)
(* What WsTransport guarantees for every set of streams, every number of   *)
(* commands and failures and every attempt limit: no accepted command is   *)
(* forgotten, and a working connection streams what active_subs says, and  *)
(* more only where no frame could be built to take a subscription back.    *)
(***************************************************************************)
EXTENDS WsTransport, TLAPS

-----------------------------------------------------------------------------
(* Queues of commands.                                                       *)

USE TransportAssumption DEF TransportAssumption

LEMMA OutcomeEmpty ==
  ASSUME NEW s \in Specs, NEW set
  PROVE  Outcome(s, set, <<>>) <=> s \in set
BY DEF Outcome

LEMMA OpsAreCommands ==
  /\ Ops \subseteq Commands
  /\ \A o \in Commands : o.spec \in Specs => o \in Ops
BY DEF Ops, Commands

LEMMA AppendKeepsType ==
  ASSUME NEW T, NEW q \in Seq(T), NEW o \in T
  PROVE  Append(q, o) \in Seq(T)
OBVIOUS

LEMMA TailKeepsType ==
  ASSUME NEW T, NEW q \in Seq(T), q # <<>>
  PROVE  Tail(q) \in Seq(T) /\ Head(q) \in T
OBVIOUS

\* A command at the end of the queue decides about its own stream and no other.
LEMMA OutcomeAppend ==
  ASSUME NEW s \in Specs, NEW set, NEW q \in Seq(Commands), NEW o \in Commands
  PROVE  Outcome(s, set, Append(q, o))
           <=> (IF o.spec = s THEN o.op = "subscribe" ELSE Outcome(s, set, q))
<1> DEFINE p == Append(q, o)
           n == Len(q)
<1>1. /\ n \in Nat /\ DOMAIN p = 1 .. n + 1 /\ DOMAIN q = 1 .. n
      /\ \A i \in 1 .. n : p[i] = q[i]
      /\ p[n + 1] = o
  OBVIOUS
<1>2. CASE o.spec = s
  BY <1>1, <1>2 DEF Outcome
<1>3. CASE o.spec # s
  <2>1. \A i \in 1 .. n + 1 : p[i].spec = s <=> i \in 1 .. n /\ q[i].spec = s
    BY <1>1, <1>3
  <2>2. {i \in DOMAIN p : p[i].spec = s} = {i \in DOMAIN q : q[i].spec = s}
    BY <1>1, <2>1
  <2>3. \A i \in {j \in DOMAIN q : q[j].spec = s} : p[i].op = q[i].op
    BY <1>1
  <2> HIDE DEF p
  <2> DEFINE about == {i \in DOMAIN q : q[i].spec = s}
  <2>4. Outcome(s, set, q)
          <=> IF about = {} THEN s \in set
              ELSE \E i \in about : q[i].op = "subscribe" /\ \A j \in about : j <= i
    BY Zenon DEF Outcome
  <2>5. Outcome(s, set, p)
          <=> IF about = {} THEN s \in set
              ELSE \E i \in about : p[i].op = "subscribe" /\ \A j \in about : j <= i
    BY <2>2, Zenon DEF Outcome
  <2> HIDE DEF about
  <2>6. \A i \in about : p[i].op = q[i].op
    BY <2>3 DEF about
  <2>7. Outcome(s, set, p) <=> Outcome(s, set, q)
    BY <2>4, <2>5, <2>6
  <2> QED BY <1>3, <2>7 DEF p
<1> QED BY <1>2, <1>3

\* Applying the first command at once changes nothing about the outcome.
LEMMA OutcomeHead ==
  ASSUME NEW s \in Specs, NEW set, NEW q \in Seq(Commands), q # <<>>
  PROVE  Outcome(s, set, q) <=> Outcome(s, Apply(set, Head(q)), Tail(q))
<1> DEFINE t == Tail(q)
           o == Head(q)
           n == Len(q)
<1>1. /\ n \in Nat /\ n >= 1 /\ DOMAIN q = 1 .. n /\ DOMAIN t = 1 .. n - 1
      /\ \A i \in 1 .. n - 1 : t[i] = q[i + 1]
      /\ q[1] = o /\ o \in Commands
  OBVIOUS
<1> HIDE DEF t, o, n
<1>2. CASE \E i \in DOMAIN t : t[i].spec = s
  <2>1. Outcome(s, Apply(set, o), t)
          <=> \E i \in 1 .. n - 1 : /\ t[i].spec = s /\ t[i].op = "subscribe"
                                    /\ \A j \in 1 .. n - 1 : t[j].spec = s => j <= i
    BY <1>1, <1>2 DEF Outcome
  <2>2. PICK k \in 1 .. n - 1 : q[k + 1].spec = s
    BY <1>1, <1>2
  <2>3. k + 1 \in 2 .. n
    BY <1>1
  <2>4. Outcome(s, set, q)
          <=> \E i \in 1 .. n : /\ q[i].spec = s /\ q[i].op = "subscribe"
                                /\ \A j \in 1 .. n : q[j].spec = s => j <= i
    <3>1. k + 1 \in {i \in DOMAIN q : q[i].spec = s}
      BY <1>1, <2>2, <2>3
    <3>2. {i \in DOMAIN q : q[i].spec = s} # {}
      BY <3>1
    <3>3. DOMAIN q = 1 .. n
      BY <1>1
    <3> QED BY <3>2, <3>3, Zenon DEF Outcome
  <2>5. ASSUME NEW i \in 1 .. n, q[i].spec = s, q[i].op = "subscribe",
               \A j \in 1 .. n : q[j].spec = s => j <= i
        PROVE  Outcome(s, Apply(set, o), t)
    <3>1. i - 1 \in 1 .. n - 1 /\ t[i - 1] = q[i]
      BY <1>1, <2>2, <2>3, <2>5
    <3>2. \A j \in 1 .. n - 1 : t[j].spec = s => j <= i - 1
      BY <1>1, <2>5
    <3> QED BY <2>1, <2>5, <3>1, <3>2
  <2>6. ASSUME NEW i \in 1 .. n - 1, t[i].spec = s, t[i].op = "subscribe",
               \A j \in 1 .. n - 1 : t[j].spec = s => j <= i
        PROVE  Outcome(s, set, q)
    <3>1. i + 1 \in 1 .. n /\ t[i] = q[i + 1]
      BY <1>1
    <3>2. \A j \in 1 .. n : q[j].spec = s => j <= i + 1
      <4> TAKE j \in 1 .. n
      <4>1. CASE j = 1 BY <4>1
      <4>2. CASE j # 1
        <5>1. j - 1 \in 1 .. n - 1 /\ t[j - 1] = q[j]
          BY <1>1, <4>2
        <5> QED BY <5>1, <2>6
      <4> QED BY <4>1, <4>2
    <3> QED BY <2>4, <2>6, <3>1, <3>2
  <2> QED BY <2>1, <2>4, <2>5, <2>6 DEF t, o
<1>3. CASE \A i \in DOMAIN t : t[i].spec # s
  <2>1. Outcome(s, Apply(set, o), t) <=> s \in Apply(set, o)
    BY <1>3 DEF Outcome
  <2>2. \A i \in 1 .. n : q[i].spec = s => i = 1
    <3> SUFFICES ASSUME NEW i \in 1 .. n, i # 1 PROVE q[i].spec # s
      OBVIOUS
    <3>1. i - 1 \in 1 .. n - 1 /\ t[i - 1] = q[i]
      BY <1>1
    <3> QED BY <1>1, <1>3, <3>1
  <2>3. CASE o.spec = s
    <3>1. Outcome(s, set, q) <=> o.op = "subscribe"
      BY <1>1, <2>2, <2>3 DEF Outcome
    <3>2. o.op \in {"subscribe", "unsubscribe"}
      BY <1>1, <2>3 DEF Commands, Ops
    <3> QED BY <2>1, <2>3, <3>1, <3>2 DEF Apply, t, o
  <2>4. CASE o.spec # s
    <3>1. \A i \in 1 .. n : q[i].spec # s
      BY <1>1, <2>2, <2>4
    <3>2. Outcome(s, set, q) <=> s \in set
      BY <1>1, <3>1 DEF Outcome
    <3>3. s \in Apply(set, o) <=> s \in set
      BY <2>4 DEF Apply
    <3> QED BY <2>1, <3>2, <3>3 DEF t, o
  <2> QED BY <2>3, <2>4
<1> QED BY <1>2, <1>3

LEMMA ApplyKeepsType ==
  ASSUME NEW set \in SUBSET Specs, NEW o \in Commands
  PROVE  Apply(set, o) \in SUBSET Specs
BY DEF Apply, Commands, Ops

-----------------------------------------------------------------------------
(* The strengthening.  A connection starts with nothing subscribed and       *)
(* nothing queued, and replay brings it to active_subs, which only the       *)
(* message loop changes.                                                     *)

\* A connected driver has counted no attempt; the failures bound the others.
Attempts == attempt <= fails + 1 /\ (pc = "loop" => attempt = 0)

\* Between two connections, and while one is dialed, nothing of it exists.
Offline ==
  pc \in {"sleep", "dial"} => writes = <<>> /\ server = {} /\ todo = {} /\ leftover = {}

\* What a working connection does not stream yet is still to be replayed.
Replaying ==
  pc \in {"auth", "replay"} =>
    /\ writes = <<>> /\ leftover = {} /\ todo \subseteq active
    /\ wire = "up" => server \cup todo = active

LinkInv == TypeOK /\ Attempts /\ Offline /\ Replaying /\ ExchangeAgrees /\ NothingForgotten

LEMMA LinkInvInit == Init => LinkInv
<1> SUFFICES ASSUME Init PROVE LinkInv
  OBVIOUS
<1>1. cmds \in Seq(Commands) /\ writes \in Seq(Ops)
  BY DEF Init
<1>2. TypeOK
  <2>1. dropped \in BOOLEAN /\ asked \in BOOLEAN
    BY Zenon DEF Init
  <2>2. {dropped, asked} \subseteq BOOLEAN
    BY <2>1, Zenon
  <2> QED BY <1>1, <2>2 DEF Init, TypeOK
<1>3. Attempts /\ Offline /\ Replaying /\ ExchangeAgrees
  BY DEF Init, Attempts, Offline, Replaying, ExchangeAgrees
<1>4. NothingForgotten
  BY OutcomeEmpty DEF Init, NothingForgotten
<1> QED BY <1>2, <1>3, <1>4 DEF LinkInv

-----------------------------------------------------------------------------
(* Type correctness.                                                         *)

LEMMA TypeStep == LinkInv /\ [Next]_vars => TypeOK' /\ Attempts'
<1> SUFFICES ASSUME LinkInv, [Next]_vars PROVE TypeOK' /\ Attempts'
  OBVIOUS
<1> USE DEF LinkInv, TypeOK, Attempts, Online, link, history, Hangup, Backoff, MayFail
<1>e. \A T : <<>> \in Seq(T)
  OBVIOUS
<1>1. ASSUME NEW o \in Commands, Send(o) PROVE TypeOK' /\ Attempts'
  <2>1. cmds' \in Seq(Commands)
    BY <1>1, AppendKeepsType DEF Send
  <2>2. wanted' \subseteq Specs
    BY <1>1, ApplyKeepsType DEF Send
  <2> QED BY <1>1, <2>1, <2>2 DEF Send
<1>2. CASE DropHandles BY <1>2 DEF DropHandles
<1>3. CASE LoseWire BY <1>3 DEF LoseWire
<1>4. CASE Wake BY <1>4 DEF Wake
<1>5. CASE HookFails BY <1>5 DEF HookFails
<1>6. CASE DialFails BY <1>6 DEF DialFails
<1>7. CASE DialOk BY <1>7 DEF DialOk
<1>8. CASE AuthOk BY <1>8 DEF AuthOk
<1>9. CASE AuthFails BY <1>9, <1>e DEF AuthFails
<1>10. ASSUME NEW s \in Specs, Replay(s) PROVE TypeOK' /\ Attempts'
  BY <1>10 DEF Replay
<1>11. CASE Connected BY <1>11 DEF Connected
<1>12. CASE TakeCmd
  <2>1. Tail(cmds) \in Seq(Commands) /\ Head(cmds) \in Commands
    BY <1>12, TailKeepsType DEF TakeCmd
  <2>2. active' \subseteq Specs
    BY <1>12, <2>1, ApplyKeepsType DEF TakeCmd
  <2>3. Head(cmds).op # "connect" => Head(cmds) \in Ops
    BY <1>12, <2>1 DEF TakeCmd, Commands, Ops
  <2>4. writes' \in Seq(Ops) /\ leftover' \subseteq Specs
    <3>1. CASE Head(cmds) \in Ops /\ Frames(Head(cmds))
      BY <3>1, AppendKeepsType DEF Frames
    <3>2. CASE UNCHANGED writes /\ leftover' \subseteq leftover \cup active
      BY <3>2
    <3> QED BY <1>12, <2>3, <3>1, <3>2 DEF TakeCmd
  <2> QED BY <1>12, <2>1, <2>2, <2>4 DEF TakeCmd
<1>13. CASE TakeShutdown BY <1>13, <1>e DEF TakeShutdown
<1>14. CASE WriteFrame
  <2>1. Tail(writes) \in Seq(Ops) /\ Head(writes) \in Commands
    BY <1>14, TailKeepsType, OpsAreCommands DEF WriteFrame
  <2>2. server' \subseteq Specs
    BY <1>14, <2>1, ApplyKeepsType DEF WriteFrame
  <2> QED BY <1>14, <2>1, <2>2 DEF WriteFrame
<1>15. CASE LoopExit BY <1>15, <1>e DEF LoopExit
<1>16. CASE UNCHANGED vars BY <1>16 DEF vars
<1> QED BY <1>1, <1>2, <1>3, <1>4, <1>5, <1>6, <1>7, <1>8, <1>9, <1>10, <1>11, <1>12, <1>13,
           <1>14, <1>15, <1>16 DEF Next, Dialing, Take

-----------------------------------------------------------------------------
(* What the connection streams.                                              *)

LEMMA OfflineStep == LinkInv /\ [Next]_vars => Offline' /\ Replaying'
<1> SUFFICES ASSUME LinkInv, [Next]_vars PROVE Offline' /\ Replaying'
  OBVIOUS
<1> USE DEF LinkInv, Offline, Replaying, link, history, Hangup, Backoff
<1>1. ASSUME NEW o \in Commands, Send(o) PROVE Offline' /\ Replaying'
  BY <1>1 DEF Send
<1>2. CASE DropHandles BY <1>2 DEF DropHandles
<1>3. CASE LoseWire BY <1>3 DEF LoseWire
<1>4. CASE Wake BY <1>4 DEF Wake
<1>5. CASE HookFails BY <1>5 DEF HookFails
<1>6. CASE DialFails BY <1>6 DEF DialFails
<1>7. CASE DialOk BY <1>7 DEF DialOk
<1>8. CASE AuthOk BY <1>8 DEF AuthOk
<1>9. CASE AuthFails BY <1>9 DEF AuthFails
<1>10. ASSUME NEW s \in Specs, Replay(s) PROVE Offline' /\ Replaying'
  BY <1>10 DEF Replay
<1>11. CASE Connected BY <1>11 DEF Connected
<1>12. CASE TakeCmd BY <1>12 DEF TakeCmd
<1>13. CASE TakeShutdown BY <1>13 DEF TakeShutdown
<1>14. CASE WriteFrame BY <1>14 DEF WriteFrame
<1>15. CASE LoopExit BY <1>15 DEF LoopExit
<1>16. CASE UNCHANGED vars BY <1>16 DEF vars
<1> QED BY <1>1, <1>2, <1>3, <1>4, <1>5, <1>6, <1>7, <1>8, <1>9, <1>10, <1>11, <1>12, <1>13,
           <1>14, <1>15, <1>16 DEF Next, Dialing, Take

LEMMA QueuesAreCommands == TypeOK => cmds \in Seq(Commands) /\ writes \in Seq(Commands)
BY OpsAreCommands DEF TypeOK

LEMMA AgreesStep == LinkInv /\ [Next]_vars => ExchangeAgrees'
<1> SUFFICES ASSUME LinkInv, [Next]_vars, (pc = "loop" /\ wire = "up")', NEW s \in Specs
             PROVE  (Outcome(s, server, writes) <=> s \in active \cup leftover)'
  BY DEF ExchangeAgrees
<1>q. cmds \in Seq(Commands) /\ writes \in Seq(Commands)
  BY QueuesAreCommands DEF LinkInv
<1>k. CASE UNCHANGED <<pc, wire, server, writes, active, leftover>>
  BY <1>k DEF LinkInv, ExchangeAgrees, Outcome
<1>1. ASSUME NEW o \in Commands, Send(o) PROVE UNCHANGED <<pc, wire, server, writes, active, leftover>>
  BY <1>1 DEF Send, link
<1>2. CASE DropHandles BY <1>2, <1>k DEF DropHandles, link
<1>3. CASE Connected
  <2>1. /\ writes = <<>> /\ leftover = {} /\ server = active
        /\ UNCHANGED <<writes, server, active, leftover>>
    BY <1>3 DEF Connected, LinkInv, Replaying, link
  <2> QED BY <2>1, OutcomeEmpty
<1>4. CASE TakeCmd
  <2> DEFINE o == Head(cmds)
  <2>1. o \in Commands /\ o.op # "shutdown"
    BY <1>4, <1>q DEF TakeCmd
  <2>2. Outcome(s, server, writes) <=> s \in active \cup leftover
    BY <1>4 DEF TakeCmd, LinkInv, ExchangeAgrees, link
  <2>3. server' = server /\ active' = Apply(active, o)
    BY <1>4 DEF TakeCmd
  <2>4. CASE o.op = "connect" /\ UNCHANGED <<writes, leftover>>
    BY <2>2, <2>3, <2>4 DEF Apply
  <2>5. CASE o.op \in {"subscribe", "unsubscribe"} /\ Frames(o)
    <3>1. writes' = Append(writes, o) /\ leftover' = leftover \ {o.spec}
      BY <2>5 DEF Frames
    <3>2. Outcome(s, server, Append(writes, o))
            <=> (IF o.spec = s THEN o.op = "subscribe" ELSE Outcome(s, server, writes))
      BY <1>q, <2>1, OutcomeAppend
    <3>3. s \in Apply(active, o)
            <=> (IF o.spec = s THEN o.op = "subscribe" ELSE s \in active)
      BY <2>5 DEF Apply
    <3> QED BY <2>2, <2>3, <3>1, <3>2, <3>3
  <2>6. CASE o.op = "unsubscribe" /\ leftover' = leftover \cup ({o.spec} \cap active)
             /\ UNCHANGED writes
    BY <2>2, <2>3, <2>6 DEF Apply
  <2> QED BY <1>4, <2>4, <2>5, <2>6 DEF TakeCmd
<1>5. CASE WriteFrame
  <2>1. Outcome(s, server, writes) <=> s \in active \cup leftover
    BY <1>5 DEF WriteFrame, LinkInv, ExchangeAgrees
  <2>2. Outcome(s, server, writes) <=> Outcome(s, Apply(server, Head(writes)), Tail(writes))
    BY <1>5, <1>q, OutcomeHead DEF WriteFrame
  <2>3. server' = Apply(server, Head(writes)) /\ writes' = Tail(writes) /\ active' = active
        /\ leftover' = leftover
    BY <1>5 DEF WriteFrame
  <2> QED BY <2>1, <2>2, <2>3
<1>6. ~(LoseWire \/ Wake \/ HookFails \/ DialFails \/ DialOk \/ AuthOk \/ AuthFails
        \/ (\E r \in Specs : Replay(r)) \/ TakeShutdown \/ LoopExit)
  BY DEF LoseWire, Wake, HookFails, DialFails, DialOk, AuthOk, AuthFails, Replay, TakeShutdown,
         LoopExit, Backoff, Hangup
<1>7. CASE UNCHANGED vars BY <1>7, <1>k DEF vars, link
<1> QED BY <1>k, <1>1, <1>2, <1>3, <1>4, <1>5, <1>6, <1>7 DEF Next, Dialing, Take

-----------------------------------------------------------------------------
(* What the callers asked for.                                               *)

LEMMA ForgottenStep == LinkInv /\ [Next]_vars => NothingForgotten'
<1> SUFFICES ASSUME LinkInv, [Next]_vars, (pc # "off" /\ ~asked)', NEW s \in Specs
             PROVE  (Outcome(s, active, cmds) <=> s \in wanted)'
  BY DEF NothingForgotten
<1>q. cmds \in Seq(Commands)
  BY QueuesAreCommands DEF LinkInv
<1>k. ASSUME pc # "off", ~asked, UNCHANGED <<active, cmds, wanted>>
      PROVE  (Outcome(s, active, cmds) <=> s \in wanted)'
  BY <1>k DEF LinkInv, NothingForgotten, Outcome
<1>1. ASSUME NEW o \in Commands, Send(o)
      PROVE  (Outcome(s, active, cmds) <=> s \in wanted)'
  <2>1. ~asked /\ o.op # "shutdown"
    BY <1>1 DEF Send, LinkInv, TypeOK
  <2>2. Outcome(s, active, cmds) <=> s \in wanted
    BY <1>1, <2>1 DEF Send, LinkInv, NothingForgotten
  <2>3. active' = active /\ cmds' = Append(cmds, o) /\ wanted' = Apply(wanted, o)
    BY <1>1, <2>1 DEF Send
  <2>4. Outcome(s, active, Append(cmds, o))
          <=> (IF o.spec = s THEN o.op = "subscribe" ELSE Outcome(s, active, cmds))
    BY <1>q, OutcomeAppend
  <2>5. s \in Apply(wanted, o)
          <=> (IF o.spec = s THEN o.op = "subscribe" ELSE s \in wanted)
    <3>1. o.spec = s => o.op \in {"subscribe", "unsubscribe"}
      BY DEF Commands, Ops
    <3> QED BY <3>1 DEF Apply
  <2> QED BY <2>2, <2>3, <2>4, <2>5
<1>2. CASE TakeCmd
  <2>1. Outcome(s, active, cmds) <=> s \in wanted
    BY <1>2 DEF TakeCmd, LinkInv, NothingForgotten, history
  <2>2. Outcome(s, active, cmds) <=> Outcome(s, Apply(active, Head(cmds)), Tail(cmds))
    BY <1>2, <1>q, OutcomeHead DEF TakeCmd
  <2>3. active' = Apply(active, Head(cmds)) /\ cmds' = Tail(cmds) /\ wanted' = wanted
    BY <1>2 DEF TakeCmd, history
  <2> QED BY <2>1, <2>2, <2>3
<1>3. ASSUME DropHandles \/ LoseWire \/ Dialing \/ WriteFrame \/ UNCHANGED vars
      PROVE  pc # "off" /\ ~asked /\ UNCHANGED <<active, cmds, wanted>>
  BY <1>3 DEF DropHandles, LoseWire, Dialing, Wake, HookFails, DialFails, DialOk, AuthOk,
              AuthFails, Replay, Connected, WriteFrame, vars, history, Backoff
<1>4. CASE LoopExit
  <2>1. pc # "off" /\ ~asked /\ UNCHANGED <<active, cmds, wanted>>
    BY <1>4 DEF LoopExit, history, Backoff
  <2> QED BY <1>k, <2>1
<1>5. ~TakeShutdown
  BY DEF TakeShutdown
<1> QED BY <1>k, <1>1, <1>2, <1>3, <1>4, <1>5 DEF Next, Take

-----------------------------------------------------------------------------
\* The inductive invariant of the transport: types, attempts, what a connection
\* starts with and what replay still owes it, and the two agreements.
THEOREM LinkInvHolds == Spec => []LinkInv
<1>1. LinkInv /\ [Next]_vars => LinkInv'
  BY TypeStep, OfflineStep, AgreesStep, ForgottenStep DEF LinkInv
<1> QED BY LinkInvInit, <1>1, PTL DEF Spec

\* Every variable of the transport keeps its type; only subscribe and unsubscribe
\* commands become frames, and attempts run at most one ahead of the failures.
THEOREM LinkTypeCorrect == Spec => []TypeOK
<1>1. LinkInv => TypeOK
  BY DEF LinkInv
<1> QED BY <1>1, LinkInvHolds, PTL

\* On a connection that works the exchange streams, once the queued frames are
\* applied, active_subs and what an unsubscribe without a frame left behind on this
\* connection, through every reconnect and replay.
THEOREM ExchangeAgreesHolds == Spec => []ExchangeAgrees
<1>1. LinkInv => ExchangeAgrees
  BY DEF LinkInv
<1> QED BY <1>1, LinkInvHolds, PTL

\* No accepted subscribe or unsubscribe is lost by a reconnect before a shutdown.
THEOREM NothingForgottenHolds == Spec => []NothingForgotten
<1>1. LinkInv => NothingForgotten
  BY DEF LinkInv
<1> QED BY <1>1, LinkInvHolds, PTL
=============================================================================
