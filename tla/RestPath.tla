------------------------------ MODULE RestPath ------------------------------
(***************************************************************************)
(* The way of a REST call of one connector: the wait for the shared weight *)
(* limiter, the attempts of HttpClient over a network that loses requests  *)
(* and answers, and the report of the exchange that corrects the limiter:  *)
(* get, post and delete bring it back, put and patch do not.               *)
(* Time passes in ticks; what the code stamps with an Instant has an age   *)
(* here, which stops at Window, where everything has expired.              *)
(***************************************************************************)
EXTENDS Integers, Sequences, FiniteSets, SequencesExt, Functions

CONSTANTS
  Tasks,        \* concurrent callers of the connector
  Essential,    \* those that place, amend and cancel orders
  Weight,       \* the weight of each task's endpoint
  MaxWeight, Window,   \* of the limiter, and of the exchange
  MaxAttempts,  \* RetryConfig::max_attempts
  MaxCalls,     \* bound: calls of each task
  MaxLost       \* bound: requests and answers the network loses or delays

ASSUME RestAssumption ==
  /\ IsFiniteSet(Tasks) /\ Essential \subseteq Tasks
  /\ MaxWeight \in Nat \ {0} /\ Window \in Nat \ {0} /\ MaxAttempts \in Nat \ {0}
  /\ Weight \in [Tasks -> 1 .. MaxWeight]
  /\ MaxCalls \in Nat /\ MaxLost \in Nat

VARIABLES
  entries,   \* WeightRateLimiter: what was admitted, oldest first, each [age, w]
  report,    \* last_server_used and last_server_update
  pc,        \* of a task: idle, ask, sleep, send, away, back or backoff
  wake,      \* ticks left of its sleep
  attempt,   \* attempts made in its call
  answer,    \* what the exchange answered
  calls,     \* bound: its calls so far
  used,      \* the exchange: what it accepted, each [age, w]
  strays,    \* requests given up by the client that may still arrive, by task
  lost,      \* bound: what the network lost
  amended    \* history: tasks whose last good answer was that of a put or a patch

limiter == <<entries, report>>
exchange == <<used, strays>>
vars == <<limiter, pc, wake, attempt, answer, calls, exchange, lost, amended>>

NoReport == [used |-> 0, age |-> Window]
NoAnswer == [status |-> "none", used |-> 0]

Total(s) == FoldLeft(LAMBDA sum, e : sum + e.w, 0, s)
\* What a log that is kept oldest first still holds when its front has been cleared
\* of all that is not younger than limit.
Younger(s, limit) ==
  LET young == {i \in DOMAIN s : s[i].age < limit}
  IN  IF young = {} THEN <<>> ELSE SubSeq(s, Min(young), Len(s))
Alive(s) == Younger(s, Window)
Older(s) == [i \in DOMAIN s |-> [s[i] EXCEPT !.age = IF @ = Window THEN @ ELSE @ + 1]]

Init ==
  /\ entries = <<>> /\ report = NoReport
  /\ pc = [t \in Tasks |-> "idle"] /\ wake = [t \in Tasks |-> 0]
  /\ attempt = [t \in Tasks |-> 0] /\ answer = [t \in Tasks |-> NoAnswer]
  /\ calls = [t \in Tasks |-> 0]
  /\ used = <<>> /\ strays = [t \in Tasks |-> 0] /\ lost = 0 /\ amended = {}

Tick ==
  /\ entries' = Older(entries) /\ used' = Older(Alive(used))
  /\ report' = [report EXCEPT !.age = IF @ = Window THEN @ ELSE @ + 1]
  /\ wake' = [t \in Tasks |-> IF wake[t] = 0 THEN 0 ELSE wake[t] - 1]
  /\ UNCHANGED <<pc, attempt, answer, calls, strays, lost, amended>>

-----------------------------------------------------------------------------
(* WeightRateLimiter and the pressure of RateLimitMonitor.                   *)

\* Mutant: a report never expires.
Current_Forever(es) == IF report # NoReport THEN report.used ELSE Total(Alive(es))

\* Mutant: goes by its own entries only.
Current_Own(es) == Total(Alive(es))

\* current_weight: a report that is younger than the window replaces the sum.
Current(es) == IF report.age < Window THEN report.used ELSE Total(Alive(es))

Cutoff == Current(entries) * 10 >= MaxWeight * 9

\* Mutant: the newest entry comes first.
Admit_First(w) == <<[age |-> 0, w |-> w]>> \o Alive(entries)

Admit(w) == Append(Alive(entries), [age |-> 0, w |-> w])

\* Mutant: waits for more than it needs.
TimeUntilReady_Late(w) ==
  LET es == Alive(entries)
      needed == Current(es) + w - MaxWeight
      enough == {i \in DOMAIN es : Total(SubSeq(es, 1, i)) > needed}
  IN  IF needed <= 0 \/ enough = {} THEN 0 ELSE Window - es[Min(enough)].age

\* Zero when the entries do not explain what the exchange reported.
TimeUntilReady(w) ==
  LET es == Alive(entries)
      needed == Current(es) + w - MaxWeight
      enough == {i \in DOMAIN es : Total(SubSeq(es, 1, i)) >= needed}
  IN  IF needed <= 0 \/ enough = {} THEN 0 ELSE Window - es[Min(enough)].age

-----------------------------------------------------------------------------
(* rate_limit_wait and the call around it.                                   *)

Call(t) ==
  /\ pc[t] = "idle" /\ calls[t] < MaxCalls
  /\ pc' = [pc EXCEPT ![t] = "ask"]
  /\ calls' = [calls EXCEPT ![t] = @ + 1]
  /\ attempt' = [attempt EXCEPT ![t] = 0]
  /\ UNCHANGED <<limiter, wake, answer, exchange, lost, amended>>

\* One turn of the loop, under both locks.  A task that is refused and told to wait
\* no time asks again at once, without giving up its thread.
Ask(t) ==
  /\ pc[t] = "ask"
  /\ \/ /\ Cutoff /\ t \notin Essential
        /\ pc' = [pc EXCEPT ![t] = "idle"]
        /\ entries' = Alive(entries)
        /\ UNCHANGED wake
     \/ /\ ~Cutoff \/ t \in Essential
        /\ IF Current(entries) + Weight[t] <= MaxWeight
           THEN /\ entries' = Admit(Weight[t])
                /\ pc' = [pc EXCEPT ![t] = "send"]
                /\ UNCHANGED wake
           ELSE /\ entries' = Alive(entries)
                /\ wake' = [wake EXCEPT ![t] = TimeUntilReady(Weight[t])]
                /\ pc' = [pc EXCEPT ![t] = IF wake'[t] = 0 THEN "ask" ELSE "sleep"]
  /\ UNCHANGED <<report, attempt, answer, calls, exchange, lost, amended>>

Wake(t) ==
  /\ pc[t] = "sleep" /\ wake[t] = 0
  /\ pc' = [pc EXCEPT ![t] = "ask"]
  /\ UNCHANGED <<limiter, wake, attempt, answer, calls, exchange, lost, amended>>

Send(t) ==
  /\ pc[t] \in {"send", "backoff"}
  /\ pc' = [pc EXCEPT ![t] = "away"]
  /\ attempt' = [attempt EXCEPT ![t] = @ + 1]
  /\ UNCHANGED <<limiter, wake, answer, calls, exchange, lost, amended>>

\* The exchange counts what it accepts and refuses (429) what is too much; it may
\* also be out of order (5xx).
Arrive(t) ==
  /\ pc[t] = "away"
  /\ pc' = [pc EXCEPT ![t] = "back"]
  /\ LET load == Total(Alive(used)) + Weight[t]
     IN  \/ /\ load <= MaxWeight
            /\ used' = Append(Alive(used), [age |-> 0, w |-> Weight[t]])
            /\ answer' = [answer EXCEPT ![t] = [status |-> "ok", used |-> load]]
            /\ UNCHANGED lost
         \/ /\ load > MaxWeight
            /\ answer' = [answer EXCEPT ![t] = [status |-> "refused", used |-> 0]]
            /\ UNCHANGED <<used, lost>>
         \/ /\ lost < MaxLost /\ lost' = lost + 1
            /\ answer' = [answer EXCEPT ![t] = [status |-> "broken", used |-> 0]]
            /\ UNCHANGED used
  /\ UNCHANGED <<limiter, wake, attempt, calls, strays, amended>>

ArriveStray(t) ==
  /\ strays[t] > 0
  /\ strays' = [strays EXCEPT ![t] = @ - 1]
  /\ used' = IF Total(Alive(used)) + Weight[t] <= MaxWeight
             THEN Append(Alive(used), [age |-> 0, w |-> Weight[t]]) ELSE used
  /\ UNCHANGED <<limiter, pc, wake, attempt, answer, calls, lost, amended>>

\* A network error or a timeout: the request was lost, is late, or its answer is.
\* What reqwest calls a request error is not tried again, and once the status has
\* been read, a body that breaks off ends the call at once too.
Fail(t) ==
  /\ pc[t] \in {"away", "back"} /\ lost < MaxLost
  /\ lost' = lost + 1
  /\ \/ pc[t] = "away" /\ strays' = [strays EXCEPT ![t] = @ + 1]
     \/ UNCHANGED strays
  /\ \/ attempt[t] < MaxAttempts /\ pc' = [pc EXCEPT ![t] = "backoff"]
     \/ pc' = [pc EXCEPT ![t] = "idle"]
  /\ answer' = [answer EXCEPT ![t] = NoAnswer]
  /\ UNCHANGED <<limiter, wake, attempt, calls, used, amended>>

\* handle_response: whatever the status, an answer ends the call.  A good one brings
\* its header to the limiter, unless the header is missing or no number, or the call
\* was a put or a patch, whose headers nobody reads.
Receive(t) ==
  /\ pc[t] = "back"
  /\ pc' = [pc EXCEPT ![t] = "idle"]
  /\ \/ /\ answer[t].status = "ok"
        /\ report' = [used |-> answer[t].used, age |-> 0]
        /\ amended' = amended \ {t}
        /\ UNCHANGED lost
     \/ /\ answer[t].status = "ok" /\ t \in Essential
        /\ amended' = amended \cup {t}
        /\ UNCHANGED <<report, lost>>
     \/ /\ answer[t].status = "ok" /\ lost < MaxLost /\ lost' = lost + 1
        /\ UNCHANGED <<report, amended>>
     \/ /\ answer[t].status # "ok"
        /\ UNCHANGED <<report, amended, lost>>
  /\ answer' = [answer EXCEPT ![t] = NoAnswer]
  /\ UNCHANGED <<entries, wake, attempt, calls, exchange>>

-----------------------------------------------------------------------------
Next ==
  \/ Tick
  \/ \E t \in Tasks : \/ Call(t) \/ Ask(t) \/ Wake(t) \/ Send(t) \/ Arrive(t)
                      \/ ArriveStray(t) \/ Fail(t) \/ Receive(t)

Spec == Init /\ [][Next]_vars

\* Time passes, the executor polls what is ready, and a request that is neither
\* answered nor lost runs into its timeout.
Fairness ==
  /\ WF_vars(Tick)
  /\ \A t \in Tasks : WF_vars(Ask(t) \/ Wake(t) \/ Send(t) \/ Receive(t) \/ Arrive(t))
FairSpec == Spec /\ Fairness

-----------------------------------------------------------------------------
TypeOK ==
  /\ entries \in Seq([age : 0 .. Window, w : 1 .. MaxWeight])
  /\ \A i \in 1 .. Len(entries) - 1 : entries[i].age >= entries[i + 1].age
  /\ report \in [used : 0 .. MaxWeight, age : 0 .. Window]
  /\ pc \in [Tasks -> {"idle", "ask", "sleep", "send", "away", "back", "backoff"}]
  /\ wake \in [Tasks -> 0 .. Window]
  /\ attempt \in [Tasks -> 0 .. MaxAttempts]
  /\ answer \in [Tasks -> [status : {"none", "ok", "refused", "broken"}, used : 0 .. MaxWeight]]
  /\ calls \in [Tasks -> 0 .. MaxCalls]
  /\ used \in Seq([age : 0 .. Window, w : 1 .. MaxWeight])
  /\ strays \in [Tasks -> 0 .. MaxLost] /\ lost \in 0 .. MaxLost
  /\ amended \subseteq Essential

\* As long as the limiter goes by its own entries, a task that is refused sleeps
\* exactly until its weight fits, if nobody else takes the room.
Later(es, d) == Younger(es, Window - d)
WaitIsExact ==
  report.age = Window =>
    \A t \in Tasks :
      LET d == TimeUntilReady(Weight[t])
      IN  /\ Total(Later(entries, d)) + Weight[t] <= MaxWeight
          /\ d > 0 => Total(Later(entries, d - 1)) + Weight[t] > MaxWeight

\* A caller that has the connector to itself and loses nothing is never refused: a
\* report outlives what it counts, though the limiter's own entries, stamped before
\* the request leaves, expire before the exchange forgets it.  A put or a patch brings
\* no report, and until the next one the caller may be refused.
SoleCallerWelcome ==
  lost = 0 =>
    \A t \in Tasks : t \notin amended /\ (\A u \in Tasks \ {t} : calls[u] = 0)
                      => answer[t].status # "refused"

\* An essential call is never dropped and gets through: no sleep is endless, and a
\* report that the limiter's entries do not explain blocks it no longer than a
\* window.
EssentialServed ==
  \A t \in Essential : pc[t] = "ask" ~> pc[t] \in {"send", "away", "back", "backoff"}
=============================================================================
