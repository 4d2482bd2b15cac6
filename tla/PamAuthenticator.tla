-------------------------- MODULE PamAuthenticator --------------------------
(***************************************************************************)
(* One PAM service of the greeter: class PamAuthenticator                  *)
(* (src/greeter/pamauthenticator.cpp), the worker process that it starts   *)
(* (src/greeter/worker/main.cpp), and the peer-to-peer connection between  *)
(* the two.  PAM itself and the user interface are outside.                *)
(*                                                                         *)
(* The worker does one thing at a time: it is blocked while PAM is at work *)
(* and while it waits for the answer to a prompt.  Calls of Authenticate   *)
(* that arrive meanwhile wait.  The greeter handles what the worker sends  *)
(* in the order in which it was sent, each in a handler of its event loop. *)
(* Texts of prompts and messages, and the prompts' echo, are left out.     *)
(***************************************************************************)
EXTENDS Naturals, Sequences, FiniteSets

CONSTANTS
  RespondsAtOnce,    \* the user interface calls respond() in the prompt's signal
  MaxQuickFailures,  \* more failures in quick succession make it unavailable
  MaxCalls,          \* bound: calls of Authenticate without a handled answer
  MaxDelays          \* bound: failure delays that are not over

ASSUME RespondsAssumption == RespondsAtOnce \in BOOLEAN
ASSUME MaxAssumption ==
  MaxQuickFailures \in Nat /\ MaxCalls \in Nat /\ MaxDelays \in Nat

VARIABLES
  auth,    \* the members of PamAuthenticator
  worker,  \* the worker process
  wire     \* what is under way between them

vars == <<auth, worker, wire>>

Results == {"Failure", "Success", "Unavailable"}   \* WorkerResult::Type

(* What the greeter's event loop gets from the connection, in order.       *)
Messages == Results \cup
  {"NewConnection", "Ping", "Prompt", "StartFailedDelay",
   "Error"}               \* the reply to a call on a connection that is closed

Phases ==
  {"starting",   \* forked, not connected yet
   "idle",       \* in the event loop
   "pam",        \* in pam_authenticate()
   "prompting",  \* in there, blocked until the prompt is answered
   "delay",      \* in there, asleep after a failure
   "dead"}

Auths == [
  ready: BOOLEAN, busy: BOOLEAN, unlocked: BOOLEAN, unavailable: BOOLEAN,
  inPasswordDelay: BOOLEAN,
  timers: 0 .. MaxDelays,       \* single shots of StartFailedDelay that run
  failedCount: Nat,
  pendingPrompt: BOOLEAN,       \* m_pendingPrompt is a message
  connected: BOOLEAN,           \* m_dbusWorker is set
  watchers: 0 .. MaxCalls]      \* calls of Authenticate that are watched

Workers == [
  phase: Phases,
  available: BOOLEAN,           \* m_available
  doomed: BOOLEAN,              \* SIGTERM or SIGKILL is on its way
  granted: BOOLEAN]             \* history: PAM has said yes

Wires == [
  toGreeter: Seq(Messages),
  calls: 0 .. MaxCalls,         \* Authenticate, not taken by the worker yet
  response: BOOLEAN]            \* the answer to a prompt

(* The type invariant.                                                     *)
TypeOK == auth \in Auths /\ worker \in Workers /\ wire \in Wires

(* What the constructor leaves, and a worker before it runs.               *)
Constructed ==
  [ready |-> FALSE, busy |-> FALSE, unlocked |-> FALSE, unavailable |-> FALSE,
   inPasswordDelay |-> FALSE, timers |-> 0, failedCount |-> 0,
   pendingPrompt |-> FALSE, connected |-> FALSE, watchers |-> 0]

NewWorker ==
  [phase |-> "starting", available |-> TRUE, doomed |-> FALSE, granted |-> FALSE]

Silence == [toGreeter |-> << >>, calls |-> 0, response |-> FALSE]

(* Whether the worker has a call of Authenticate in hand.                  *)
InCall == worker.phase \in {"pam", "prompting", "delay"}

Count(S) == Cardinality({i \in DOMAIN wire.toGreeter : wire.toGreeter[i] \in S})

Sent(msgs) == [wire EXCEPT !.toGreeter = @ \o msgs]

-----------------------------------------------------------------------------
(* What the user interface calls.                                          *)

(* Mutant: an unavailable service is tried.                                *)
CanAuthenticateUnavailable == ~auth.busy /\ auth.ready /\ auth.connected

(* The guards of tryUnlock(), past which it calls Authenticate.            *)
CanAuthenticate ==
  ~auth.busy /\ auth.ready /\ auth.connected /\ ~auth.unavailable

TryUnlock ==
  /\ auth' = IF CanAuthenticate
             THEN [auth EXCEPT !.unlocked = FALSE, !.busy = TRUE, !.watchers = @ + 1]
             ELSE [auth EXCEPT !.unlocked = FALSE]
  /\ wire' = IF ~CanAuthenticate THEN wire
             ELSE IF worker.phase = "dead" THEN Sent(<<"Error">>)
             ELSE [wire EXCEPT !.calls = @ + 1]
  /\ UNCHANGED worker

(* Mutant: the prompt that was answered stays pending.                     *)
RespondAgain ==
  /\ auth.pendingPrompt /\ auth.connected
  /\ wire' = [wire EXCEPT !.response = worker.phase # "dead"]
  /\ UNCHANGED <<auth, worker>>

(* Mutant: only a busy authenticator takes a response.                     *)
RespondWhenBusy ==
  /\ auth.pendingPrompt /\ auth.connected /\ auth.busy
  /\ auth' = [auth EXCEPT !.pendingPrompt = FALSE]
  /\ wire' = [wire EXCEPT !.response = worker.phase # "dead"]
  /\ UNCHANGED worker

(* respond().  Without a prompt, or cancelled, it only warns.              *)
Respond ==
  /\ auth.pendingPrompt /\ auth.connected
  /\ auth' = [auth EXCEPT !.pendingPrompt = FALSE]
  /\ wire' = [wire EXCEPT !.response = worker.phase # "dead"]
  /\ UNCHANGED worker

(* cancel() and quitWorkerProcess(): the worker gets Cancel and SIGTERM    *)
(* and, 25 ms later, SIGKILL; it may go on until one of them ends it.      *)
Cancel ==
  /\ auth.connected
  /\ auth' = [auth EXCEPT !.connected = FALSE]
  /\ worker' = [worker EXCEPT !.doomed = TRUE]
  /\ UNCHANGED wire

-----------------------------------------------------------------------------
(* What the greeter gets from the worker.                                  *)

Receives(m) ==
  /\ wire.toGreeter # << >> /\ Head(wire.toGreeter) = m
  /\ wire' = [wire EXCEPT !.toGreeter = Tail(@)]

ConnectWorker ==
  /\ Receives("NewConnection")
  /\ auth' = [auth EXCEPT !.connected = TRUE]
  /\ UNCHANGED worker

(* Ping(), ignored when the authenticator was cancelled before it came.    *)
Ping ==
  /\ Receives("Ping")
  /\ auth' = [auth EXCEPT !.ready = @ \/ auth.connected]
  /\ UNCHANGED worker

(* promptInternal() makes the authenticator not busy and emits its signal. *)
(* Only then it keeps the message: a response given within the signal goes *)
(* to the prompt before, if there is one.                                  *)
PromptInternal ==
  /\ wire.toGreeter # << >> /\ Head(wire.toGreeter) = "Prompt"
  /\ wire' = [wire EXCEPT !.toGreeter = Tail(@),
                          !.response = @ \/ (/\ RespondsAtOnce
                                             /\ auth.pendingPrompt /\ auth.connected
                                             /\ worker.phase # "dead")]
  /\ auth' = [auth EXCEPT !.busy = FALSE, !.pendingPrompt = TRUE]
  /\ UNCHANGED worker

(* StartFailedDelay() and the end of the timer that it starts.             *)
StartFailedDelay ==
  /\ Receives("StartFailedDelay")
  /\ auth' = [auth EXCEPT !.inPasswordDelay = TRUE, !.timers = @ + 1]
  /\ UNCHANGED worker

(* Mutant: only the last timer ends the delay, and is taken for another.   *)
LastDelayEnds ==
  /\ auth.timers > 0
  /\ auth' = [auth EXCEPT !.inPasswordDelay = auth.timers > 0, !.timers = @ - 1]
  /\ UNCHANGED <<worker, wire>>

DelayEnds ==
  /\ auth.timers > 0
  /\ auth' = [auth EXCEPT !.inPasswordDelay = FALSE, !.timers = @ - 1]
  /\ UNCHANGED <<worker, wire>>

(* The watcher of a call has its answer: setBusy(false), whatever it is.   *)
Answered == [auth EXCEPT !.busy = FALSE, !.watchers = @ - 1]

(* Mutant: setBusy(false) is missed for errors.                            *)
ReplyErrorStaysBusy ==
  /\ Receives("Error")
  /\ auth' = [auth EXCEPT !.watchers = @ - 1]
  /\ UNCHANGED worker

(* The call has failed, which says nothing of the user: failed().          *)
ReplyError ==
  /\ Receives("Error")
  /\ auth' = Answered
  /\ UNCHANGED worker

(* Failure less than two seconds after the last one is counted; with too   *)
(* many of them the authenticator is unavailable.  failed() in any case.   *)
ReplyFailure ==
  /\ Receives("Failure")
  /\ \/ auth' = [Answered EXCEPT !.failedCount = @ + 1,
                                 !.unavailable = @ \/ auth.failedCount >= MaxQuickFailures]
     \/ auth' = [Answered EXCEPT !.failedCount = 0]
  /\ UNCHANGED worker

(* succeeded().                                                            *)
ReplySuccess ==
  /\ Receives("Success")
  /\ auth' = [Answered EXCEPT !.unlocked = TRUE]
  /\ UNCHANGED worker

(* availableChanged(), and neither failed() nor succeeded().               *)
ReplyUnavailable ==
  /\ Receives("Unavailable")
  /\ auth' = [Answered EXCEPT !.unavailable = TRUE]
  /\ UNCHANGED worker

-----------------------------------------------------------------------------
(* The worker.                                                             *)

Becomes(phase) == worker' = [worker EXCEPT !.phase = phase]

(* main(): pam_start(), connect, register, and tell the greeter with Ping. *)
WorkerStarts ==
  /\ worker.phase = "starting"
  /\ Becomes("idle")
  /\ wire' = Sent(<<"NewConnection", "Ping">>)
  /\ UNCHANGED auth

(* authenticate(), for the first call that waits.  A service that was      *)
(* unavailable once fails.  m_inAuthenticate is always false here, as no   *)
(* call is taken while another is in hand.                                 *)
Authenticate ==
  /\ worker.phase = "idle" /\ wire.calls > 0
  /\ IF worker.available
     THEN Becomes("pam") /\ wire' = [wire EXCEPT !.calls = @ - 1]
     ELSE UNCHANGED worker /\ wire' = [Sent(<<"Failure">>) EXCEPT !.calls = @ - 1]
  /\ UNCHANGED auth

(* converse() with a prompt, and the answer to it.                         *)
Converse ==
  /\ worker.phase = "pam"
  /\ Becomes("prompting")
  /\ wire' = Sent(<<"Prompt">>)
  /\ UNCHANGED auth

GetResponse ==
  /\ worker.phase = "prompting" /\ wire.response
  /\ Becomes("pam")
  /\ wire' = [wire EXCEPT !.response = FALSE]
  /\ UNCHANGED auth

(* fail_delay(): tells the greeter and goes to sleep.                      *)
FailDelay ==
  /\ worker.phase = "pam"
  /\ Count({"StartFailedDelay"}) + auth.timers < MaxDelays   \* a bound
  /\ Becomes("delay")
  /\ wire' = Sent(<<"StartFailedDelay">>)
  /\ UNCHANGED auth

(* Mutant: the results as the comment on Authenticate in                   *)
(* org.kde.plasma.screenlocker.worker.xml numbers them, 1 for a failure.   *)
PamDeniesWithOne ==
  /\ worker.phase \in {"pam", "delay"}
  /\ Becomes("idle") /\ wire' = Sent(<<"Success">>)
  /\ UNCHANGED auth

(* pam_authenticate() has denied, with or without a delay, or the service  *)
(* is unavailable, which the worker remembers.                             *)
PamDenies ==
  /\ worker.phase \in {"pam", "delay"}
  /\ \/ Becomes("idle") /\ wire' = Sent(<<"Failure">>)
     \/ /\ worker' = [worker EXCEPT !.phase = "idle", !.available = FALSE]
        /\ wire' = Sent(<<"Unavailable">>)
  /\ UNCHANGED auth

PamGrants ==
  /\ worker.phase = "pam"
  /\ worker' = [worker EXCEPT !.phase = "idle", !.granted = TRUE]
  /\ wire' = Sent(<<"Success">>)
  /\ UNCHANGED auth

(* Mutant: the call that the worker has in hand gets no answer.            *)
DiesWithCall ==
  /\ worker.phase # "dead"
  /\ Becomes("dead")
  /\ wire' = [toGreeter |-> wire.toGreeter \o [i \in 1 .. wire.calls |-> "Error"],
              calls |-> 0,
              response |-> FALSE]
  /\ UNCHANGED auth

(* Mutant: calls whose answer is under way get an error, too.              *)
DiesWithAnswers ==
  /\ worker.phase # "dead"
  /\ Becomes("dead")
  /\ wire' = [toGreeter |-> wire.toGreeter \o [i \in 1 .. auth.watchers |-> "Error"],
              calls |-> 0,
              response |-> FALSE]
  /\ UNCHANGED auth

(* The worker ends, told to or not: each call without an answer gets an    *)
(* error when the connection closes.                                       *)
WorkerDies ==
  /\ worker.phase # "dead"
  /\ Becomes("dead")
  /\ wire' = [toGreeter |-> wire.toGreeter
                \o [i \in 1 .. wire.calls + (IF InCall THEN 1 ELSE 0) |-> "Error"],
              calls |-> 0,
              response |-> FALSE]
  /\ UNCHANGED auth

-----------------------------------------------------------------------------
(* The constructor starts the worker.                                      *)
Init == auth = Constructed /\ worker = NewWorker /\ wire = Silence

(* The user interface.  The bound on calls is for the model only.          *)
UserActs ==
  \/ TryUnlock /\ auth.watchers < MaxCalls
  \/ ~RespondsAtOnce /\ Respond
  \/ Cancel

GreeterReceives ==
  \/ ConnectWorker \/ Ping \/ PromptInternal \/ StartFailedDelay
  \/ ReplyError \/ ReplyFailure \/ ReplySuccess \/ ReplyUnavailable

PamActs == Converse \/ FailDelay \/ PamDenies \/ PamGrants

WorkerActs == WorkerStarts \/ Authenticate \/ GetResponse \/ PamActs

Next ==
  \/ UserActs
  \/ GreeterReceives
  \/ DelayEnds
  \/ WorkerActs
  \/ WorkerDies

Spec == Init /\ [][Next]_vars

(* Both event loops run, PAM comes to an end, signals arrive, and the user *)
(* answers a prompt where the user interface lets him.  Nobody has to      *)
(* start an authentication, and the worker need not die unless told to.    *)
FairSpec ==
  /\ Spec
  /\ WF_vars(GreeterReceives) /\ WF_vars(DelayEnds) /\ WF_vars(WorkerActs)
  /\ WF_vars(WorkerDies /\ worker.doomed)
  /\ WF_vars(~RespondsAtOnce /\ Respond)

-----------------------------------------------------------------------------
(* Properties.                                                             *)

(* Every call of Authenticate has exactly one answer to come, whoever has  *)
(* the call now: the wire, the worker, or a connection that closes.        *)
EveryCallIsAnswered ==
  auth.watchers = wire.calls + (IF InCall THEN 1 ELSE 0)
                             + Count(Results \cup {"Error"})

(* A prompt is in one place: on its way, with the greeter, or answered;    *)
(* and none of these when the worker does not wait.  So no response to an  *)
(* old prompt is taken for the answer to a new one, and none gets lost.    *)
PromptIsInOnePlace ==
  worker.phase # "dead" =>
    Count({"Prompt"}) + (IF auth.pendingPrompt THEN 1 ELSE 0)
                      + (IF wire.response THEN 1 ELSE 0)
      = IF worker.phase = "prompting" THEN 1 ELSE 0

(* isUnlocked() and every success under way come from PAM's consent.       *)
OnlyPamUnlocks ==
  auth.unlocked \/ (\E i \in DOMAIN wire.toGreeter : wire.toGreeter[i] = "Success")
    => worker.granted

(* The password delay is shown only while its end is scheduled.            *)
DelayIsScheduled == auth.inPasswordDelay => auth.timers > 0

(* A service that fails over and over is left alone: once it is            *)
(* unavailable only the calls that were made before can still fail.        *)
BrokenServiceIsLeftAlone == auth.failedCount <= MaxQuickFailures + MaxCalls

(* A prompt does not block the worker for good.                            *)
PromptIsAnswered == worker.phase = "prompting" ~> worker.phase # "prompting"

(* The user interface does not stay busy for good.                         *)
BusyEnds == auth.busy ~> ~auth.busy
=============================================================================
