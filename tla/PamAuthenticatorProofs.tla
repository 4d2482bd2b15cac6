----------------------- MODULE PamAuthenticatorProofs ------------------------
(***************************************************************************)
(* Proofs about PamAuthenticator, for every number of calls and of delays, *)
(* and for either way the user interface has to answer a prompt.           *)
(***************************************************************************)
EXTENDS PamAuthenticator, QueueTheorems, TLAPS

-----------------------------------------------------------------------------
(* The invariant.                                                          *)

(* What is under way to the greeter.                                       *)
Queue   == wire.toGreeter
Answers == Results \cup {"Error"}

AnswersComing == Count(Answers)
PromptsComing == Count({"Prompt"})
DelaysComing  == Count({"StartFailedDelay"})
SuccessComing == \E i \in DOMAIN Queue : Queue[i] = "Success"

(* EveryCallIsAnswered, PromptIsInOnePlace and OnlyPamUnlocks, with names  *)
(* for what is under way.                                                  *)
CallsAnswered ==
  auth.watchers = wire.calls + (IF InCall THEN 1 ELSE 0) + AnswersComing

PromptInOnePlace ==
  worker.phase # "dead" =>
    PromptsComing + (IF auth.pendingPrompt THEN 1 ELSE 0) + (IF wire.response THEN 1 ELSE 0)
      = IF worker.phase = "prompting" THEN 1 ELSE 0

PamUnlocks == auth.unlocked \/ SuccessComing => worker.granted

(* The bound of the model on delays, which Auths has for timers, is one on *)
(* those that are announced, too.                                          *)
DelaysBounded == DelaysComing + auth.timers <= MaxDelays

(* What is left to fail: an available service has not failed too often,    *)
(* and one that is unavailable fails only for calls it has got already.    *)
FailuresCounted ==
  auth.failedCount <= IF auth.unavailable
                      THEN MaxQuickFailures + (MaxCalls - auth.watchers)
                      ELSE MaxQuickFailures

(* The inductive invariant.                                                *)
IInv ==
  /\ TypeOK
  /\ CallsAnswered
  /\ PromptInOnePlace
  /\ PamUnlocks
  /\ DelayIsScheduled
  /\ DelaysBounded
  /\ FailuresCounted

-----------------------------------------------------------------------------
(* Messages for the greeter.                                               *)

NumberOf(S, q) == Cardinality(Places(q, S))

(* What is counted are places in the queue, now and after a step.          *)
LEMMA CountIsOfPlaces ==
  ASSUME NEW S
  PROVE  /\ Queue \in Seq(Messages) => Count(S) = NumberOf(S, Queue) /\ Count(S) \in Nat
         /\ Queue' \in Seq(Messages) => Count(S)' = NumberOf(S, Queue')
  <1>1. Queue \in Seq(Messages) => DOMAIN Queue = 1 .. Len(Queue)
    OBVIOUS
  <1>2. Queue' \in Seq(Messages) => DOMAIN Queue' = 1 .. Len(Queue')
    OBVIOUS
  <1>3. Queue \in Seq(Messages) => Count(S) = NumberOf(S, Queue)
    BY <1>1 DEF Count, NumberOf, Places, Queue
  <1>4. Queue' \in Seq(Messages) => Count(S)' = NumberOf(S, Queue')
    BY <1>2 DEF Count, NumberOf, Places, Queue
  <1>5. QED
    BY <1>3, <1>4, PlacesFinite DEF NumberOf

(* Nothing is sent and nothing taken.                                      *)
LEMMA NothingSent ==
  ASSUME Queue \in Seq(Messages), UNCHANGED Queue
  PROVE  /\ AnswersComing' = AnswersComing /\ PromptsComing' = PromptsComing
         /\ DelaysComing' = DelaysComing /\ (SuccessComing' <=> SuccessComing)
         /\ AnswersComing \in Nat /\ PromptsComing \in Nat /\ DelaysComing \in Nat
         /\ Queue' \in Seq(Messages)
  <1>1. \A S : Count(S)' = Count(S) /\ Count(S) \in Nat
    BY CountIsOfPlaces
  <1>2. QED
    BY <1>1 DEF AnswersComing, PromptsComing, DelaysComing, SuccessComing

(* The worker, or the connection, sends some messages.                     *)
LEMMA MessagesSent ==
  ASSUME Queue \in Seq(Messages), NEW msgs \in Seq(Messages), Queue' = Queue \o msgs
  PROVE  /\ AnswersComing' = AnswersComing + NumberOf(Answers, msgs)
         /\ PromptsComing' = PromptsComing + NumberOf({"Prompt"}, msgs)
         /\ DelaysComing' = DelaysComing + NumberOf({"StartFailedDelay"}, msgs)
         /\ SuccessComing' => SuccessComing \/ \E i \in 1 .. Len(msgs) : msgs[i] = "Success"
         /\ AnswersComing \in Nat /\ PromptsComing \in Nat /\ DelaysComing \in Nat
         /\ Queue' \in Seq(Messages)
  <1>1. Queue' \in Seq(Messages)
    BY ConcatProperties
  <1>2. ASSUME NEW S
        PROVE  Count(S)' = Count(S) + NumberOf(S, msgs) /\ Count(S) \in Nat
    BY <1>1, CountIsOfPlaces, PlacesConcat DEF NumberOf
  <1>3. SuccessComing' => SuccessComing \/ \E i \in 1 .. Len(msgs) : msgs[i] = "Success"
    <2> DEFINE q   == Queue
               new == Queue'
    <2>1. /\ Len(new) = Len(q) + Len(msgs) /\ Len(q) \in Nat /\ Len(msgs) \in Nat
          /\ \A i \in 1 .. Len(new) : new[i] = IF i <= Len(q) THEN q[i] ELSE msgs[i - Len(q)]
          /\ DOMAIN q = 1 .. Len(q) /\ DOMAIN new = 1 .. Len(new)
      BY <1>1, ConcatProperties, LenProperties
    <2> HIDE DEF q, new
    <2>2. ASSUME NEW i \in 1 .. Len(new), new[i] = "Success"
          PROVE  \/ \E j \in 1 .. Len(q) : q[j] = "Success"
                 \/ \E j \in 1 .. Len(msgs) : msgs[j] = "Success"
      <3>1. CASE i <= Len(q)
        BY <2>1, <2>2, <3>1
      <3>2. CASE ~(i <= Len(q))
        <4>1. i - Len(q) \in 1 .. Len(msgs) /\ msgs[i - Len(q)] = "Success"
          BY <2>1, <2>2, <3>2
        <4>2. QED
          BY <4>1
      <3>3. QED
        BY <3>1, <3>2
    <2>3. QED
      BY <2>1, <2>2 DEF q, new, SuccessComing
  <1>4. QED
    BY <1>1, <1>2, <1>3 DEF AnswersComing, PromptsComing, DelaysComing

(* One message.                                                            *)
LEMMA MessageSent ==
  ASSUME Queue \in Seq(Messages), NEW m \in Messages, Queue' = Queue \o <<m>>
  PROVE  /\ AnswersComing' = AnswersComing + IF m \in Answers THEN 1 ELSE 0
         /\ PromptsComing' = PromptsComing + IF m = "Prompt" THEN 1 ELSE 0
         /\ DelaysComing' = DelaysComing + IF m = "StartFailedDelay" THEN 1 ELSE 0
         /\ SuccessComing' => SuccessComing \/ m = "Success"
         /\ AnswersComing \in Nat /\ PromptsComing \in Nat /\ DelaysComing \in Nat
         /\ Queue' \in Seq(Messages)
  <1>1. <<m>> \in Seq(Messages) /\ \A i \in 1 .. Len(<<m>>) : <<m>>[i] = m
    OBVIOUS
  <1>2. ASSUME NEW S
        PROVE  NumberOf(S, <<m>>) = IF m \in S THEN 1 ELSE 0
    <2>1. <<m>> = Append(<<>>, m) /\ <<>> \in Seq(Messages)
      OBVIOUS
    <2>2. NumberOf(S, Append(<<>>, m)) = NumberOf(S, <<>>) + IF m \in S THEN 1 ELSE 0
      BY <2>1, PlacesAppend DEF NumberOf
    <2>3. QED
      BY <2>1, <2>2, PlacesEmpty DEF NumberOf
  <1> DEFINE msgs == <<m>>
  <1>3. msgs \in Seq(Messages) /\ Queue' = Queue \o msgs
    BY <1>1
  <1>4. (\E i \in 1 .. Len(msgs) : msgs[i] = "Success") => m = "Success"
    BY <1>1
  <1>5. \A S : NumberOf(S, msgs) = IF m \in S THEN 1 ELSE 0
    BY <1>2
  <1> HIDE DEF msgs
  <1>6. QED
    BY <1>3, <1>4, <1>5, MessagesSent

(* One that answers a call, but does not grant anything.                   *)
LEMMA AnswerSent ==
  ASSUME Queue \in Seq(Messages), NEW m \in Answers, m # "Success", Queue' = Queue \o <<m>>
  PROVE  /\ AnswersComing' = AnswersComing + 1 /\ PromptsComing' = PromptsComing
         /\ DelaysComing' = DelaysComing /\ (SuccessComing' => SuccessComing)
         /\ AnswersComing \in Nat /\ PromptsComing \in Nat /\ DelaysComing \in Nat
         /\ Queue' \in Seq(Messages)
  <1>1. m \in Messages /\ m # "Prompt" /\ m # "StartFailedDelay"
    BY DEF Answers, Results, Messages
  <1>2. /\ AnswersComing' = AnswersComing + 1
        /\ PromptsComing' = PromptsComing + 0 /\ DelaysComing' = DelaysComing + 0
        /\ SuccessComing' => SuccessComing
        /\ AnswersComing \in Nat /\ PromptsComing \in Nat /\ DelaysComing \in Nat
        /\ Queue' \in Seq(Messages)
    BY <1>1, MessageSent
  <1>3. QED
    BY <1>2

(* The greeter handles the oldest message.                                 *)
LEMMA MessageHandled ==
  ASSUME Queue \in Seq(Messages), Queue # <<>>, Queue' = Tail(Queue)
  PROVE  /\ AnswersComing' = AnswersComing - IF Head(Queue) \in Answers THEN 1 ELSE 0
         /\ PromptsComing' = PromptsComing - IF Head(Queue) = "Prompt" THEN 1 ELSE 0
         /\ DelaysComing' = DelaysComing - IF Head(Queue) = "StartFailedDelay" THEN 1 ELSE 0
         /\ SuccessComing' \/ Head(Queue) = "Success" => SuccessComing
         /\ AnswersComing \in Nat /\ PromptsComing \in Nat /\ DelaysComing \in Nat
         /\ AnswersComing' \in Nat /\ PromptsComing' \in Nat /\ DelaysComing' \in Nat
         /\ Queue' \in Seq(Messages)
  <1> DEFINE q   == Queue
             new == Queue'
  <1>1. /\ new \in Seq(Messages) /\ Len(new) = Len(q) - 1 /\ Len(q) \in Nat \ {0}
        /\ \A i \in 1 .. Len(new) : new[i] = q[i + 1]
        /\ q[1] = Head(q) /\ DOMAIN q = 1 .. Len(q) /\ DOMAIN new = 1 .. Len(new)
    BY HeadTailProperties, EmptySeq
  <1>2. ASSUME NEW S
        PROVE  /\ Count(S)' = Count(S) - IF Head(q) \in S THEN 1 ELSE 0
               /\ Count(S) \in Nat /\ Count(S)' \in Nat
    <2>1. Count(S)' = NumberOf(S, new) /\ NumberOf(S, new) \in Nat
      BY <1>1, CountIsOfPlaces, PlacesFinite DEF NumberOf
    <2>2. QED
      BY <1>1, <2>1, CountIsOfPlaces, PlacesTail DEF NumberOf
  <1>3. SuccessComing' \/ Head(q) = "Success" => SuccessComing
    <2> HIDE DEF q, new
    <2>1. 1 \in 1 .. Len(q) /\ \A i \in 1 .. Len(new) : i + 1 \in 1 .. Len(q)
      BY <1>1
    <2>2. (\E i \in 1 .. Len(new) : new[i] = "Success") \/ Head(q) = "Success"
             => \E i \in 1 .. Len(q) : q[i] = "Success"
      BY <1>1, <2>1
    <2>3. QED
      BY <1>1, <2>2 DEF SuccessComing, q, new
  <1>4. QED
    BY <1>1, <1>2, <1>3 DEF AnswersComing, PromptsComing, DelaysComing

-----------------------------------------------------------------------------
(* The steps of the user interface.                                        *)

(* What the invariant says of the types.                                   *)
LEMMA TypesOfState ==
  ASSUME IInv
  PROVE  /\ auth \in Auths /\ worker \in Workers /\ wire \in Wires
         /\ Queue \in Seq(Messages) /\ wire.calls \in Nat
         /\ auth.watchers \in Nat /\ auth.timers \in Nat
         /\ MaxCalls \in Nat /\ MaxDelays \in Nat /\ MaxQuickFailures \in Nat
  BY MaxAssumption DEF IInv, TypeOK, Auths, Wires, Queue

(* One more call is watched, and there is one more place that answers it.  *)
LEMMA OneMoreCall ==
  ASSUME CallsAnswered, UNCHANGED worker, auth'.watchers = auth.watchers + 1,
         wire.calls \in Nat, AnswersComing \in Nat,
         \/ wire'.calls = wire.calls /\ AnswersComing' = AnswersComing + 1
         \/ wire'.calls = wire.calls + 1 /\ AnswersComing' = AnswersComing
  PROVE  CallsAnswered'
  <1>1. InCall' <=> InCall
    BY DEF InCall
  <1>2. PICK n \in {0, 1} : n = (IF InCall THEN 1 ELSE 0) /\ n = (IF InCall' THEN 1 ELSE 0)
    BY <1>1
  <1>3. auth.watchers = wire.calls + n + AnswersComing
    BY <1>2 DEF CallsAnswered
  <1>4. auth'.watchers = wire'.calls + n + AnswersComing'
    BY <1>3
  <1>5. QED
    BY <1>2, <1>4 DEF CallsAnswered

(* The guards of tryUnlock() keep it from calling Authenticate.            *)
LEMMA TryUnlockInVain ==
  ASSUME IInv, TryUnlock, ~CanAuthenticate
  PROVE  IInv'
  <1>1. /\ auth \in Auths /\ worker \in Workers /\ wire \in Wires
        /\ Queue \in Seq(Messages) /\ wire.calls \in Nat
        /\ auth.watchers \in Nat /\ auth.timers \in Nat
        /\ MaxCalls \in Nat /\ MaxDelays \in Nat /\ MaxQuickFailures \in Nat
    BY TypesOfState
  <1>2. UNCHANGED <<worker, wire>> /\ auth' = [auth EXCEPT !.unlocked = FALSE]
    BY DEF TryUnlock
  <1>3. /\ auth'.watchers = auth.watchers /\ auth'.pendingPrompt = auth.pendingPrompt
        /\ auth'.unlocked = FALSE /\ auth'.inPasswordDelay = auth.inPasswordDelay
        /\ auth'.timers = auth.timers /\ auth'.failedCount = auth.failedCount
        /\ auth'.unavailable = auth.unavailable
    BY <1>1, <1>2 DEF Auths
  <1>4. UNCHANGED <<worker, wire, Queue>>
    BY <1>2 DEF Queue
  <1>5. TypeOK'
    BY <1>1, <1>2 DEF TypeOK, Auths
  <1>6. CallsAnswered'
    <2>1. InCall' <=> InCall
      BY <1>1, <1>3, <1>4 DEF InCall
    <2>2. QED
      BY <2>1, <1>1, <1>3, <1>4, NothingSent DEF IInv, CallsAnswered
  <1>7. PromptInOnePlace'
    BY <1>1, <1>3, <1>4, NothingSent DEF IInv, PromptInOnePlace
  <1>8. PamUnlocks'
    BY <1>1, <1>3, <1>4, NothingSent DEF IInv, PamUnlocks
  <1>9. DelayIsScheduled' /\ DelaysBounded'
    BY <1>1, <1>3, <1>4, NothingSent DEF IInv, DelayIsScheduled, DelaysBounded
  <1>10. FailuresCounted'
    BY <1>1, <1>3, <1>4, NothingSent DEF IInv, FailuresCounted
  <1>11. QED
    BY <1>5, <1>6, <1>7, <1>8, <1>9, <1>10 DEF IInv

(* The call is on its way to the worker, or has an error for an answer.    *)
LEMMA TryUnlockCalls ==
  ASSUME IInv, TryUnlock, CanAuthenticate, auth.watchers < MaxCalls
  PROVE  IInv'
  <1>1. /\ auth \in Auths /\ worker \in Workers /\ wire \in Wires
        /\ Queue \in Seq(Messages) /\ wire.calls \in Nat
        /\ auth.watchers \in Nat /\ auth.timers \in Nat
        /\ MaxCalls \in Nat /\ MaxDelays \in Nat /\ MaxQuickFailures \in Nat
    BY TypesOfState
  <1>2. /\ auth' = [auth EXCEPT !.unlocked = FALSE, !.busy = TRUE, !.watchers = @ + 1]
        /\ UNCHANGED worker /\ ~auth.unavailable
    BY DEF TryUnlock, CanAuthenticate
  <1>3. /\ auth'.watchers = auth.watchers + 1 /\ auth'.pendingPrompt = auth.pendingPrompt
        /\ auth'.unlocked = FALSE /\ auth'.inPasswordDelay = auth.inPasswordDelay
        /\ auth'.timers = auth.timers /\ auth'.failedCount = auth.failedCount
        /\ auth'.unavailable = auth.unavailable /\ ~auth.unavailable /\ UNCHANGED worker
    BY <1>1, <1>2 DEF Auths
  <1>4. auth' \in Auths
    <2>1. auth.watchers + 1 \in 0 .. MaxCalls
      BY <1>1
    <2>2. QED
      BY <1>1, <1>2, <2>1 DEF Auths
  <1>5. CASE worker.phase = "dead"
    <2>1. wire' = [wire EXCEPT !.toGreeter = @ \o <<"Error">>]
      BY <1>5 DEF TryUnlock, Sent
    <2>2. /\ Queue' = Queue \o <<"Error">>
          /\ wire'.calls = wire.calls /\ wire'.response = wire.response
      BY <1>1, <2>1 DEF Wires, Queue
    <2>3. /\ AnswersComing' = AnswersComing + 1 /\ PromptsComing' = PromptsComing
          /\ DelaysComing' = DelaysComing /\ (SuccessComing' => SuccessComing)
          /\ AnswersComing \in Nat /\ PromptsComing \in Nat /\ DelaysComing \in Nat
          /\ Queue' \in Seq(Messages)
      <3>1. "Error" \in Answers /\ "Error" # "Success"
        BY DEF Answers
      <3>2. QED
        BY <1>1, <2>2, <3>1, AnswerSent
    <2>4. TypeOK'
      <3>1. wire' \in Wires
        BY <1>1, <2>1, <2>3 DEF Wires, Queue
      <3>2. QED
        BY <1>1, <1>2, <1>4, <3>1 DEF TypeOK
    <2>5. CallsAnswered'
      BY <1>1, <1>3, <2>2, <2>3, OneMoreCall DEF IInv
    <2>6. PromptInOnePlace'
      BY <1>1, <1>3, <2>2, <2>3 DEF IInv, PromptInOnePlace
    <2>7. PamUnlocks'
      BY <1>1, <1>3, <2>2, <2>3 DEF IInv, PamUnlocks
    <2>8. DelayIsScheduled' /\ DelaysBounded'
      BY <1>1, <1>3, <2>2, <2>3 DEF IInv, DelayIsScheduled, DelaysBounded
    <2>9. FailuresCounted'
      BY <1>1, <1>3, <2>2, <2>3 DEF IInv, FailuresCounted
    <2>10. QED
      BY <2>4, <2>5, <2>6, <2>7, <2>8, <2>9 DEF IInv
  <1>6. CASE worker.phase # "dead"
    <2>1. wire' = [wire EXCEPT !.calls = @ + 1]
      BY <1>6 DEF TryUnlock
    <2>2. UNCHANGED Queue /\ wire'.calls = wire.calls + 1 /\ wire'.response = wire.response
      BY <1>1, <2>1 DEF Wires, Queue
    <2>3. TypeOK'
      <3>1. wire.calls + 1 \in 0 .. MaxCalls
        BY <1>1, <2>2, NothingSent DEF IInv, CallsAnswered
      <3>2. wire' \in Wires
        BY <1>1, <2>1, <3>1 DEF Wires
      <3>3. QED
        BY <1>1, <1>2, <1>4, <3>2 DEF TypeOK
    <2>4. CallsAnswered'
      <3>1. AnswersComing \in Nat /\ AnswersComing' = AnswersComing
        BY <1>1, <2>2, NothingSent
      <3>2. QED
        BY <1>1, <1>3, <2>2, <3>1, OneMoreCall DEF IInv
    <2>5. PromptInOnePlace'
      BY <1>1, <1>3, <2>2, NothingSent DEF IInv, PromptInOnePlace
    <2>6. PamUnlocks'
      BY <1>1, <1>3, <2>2, NothingSent DEF IInv, PamUnlocks
    <2>7. DelayIsScheduled' /\ DelaysBounded'
      BY <1>1, <1>3, <2>2, NothingSent DEF IInv, DelayIsScheduled, DelaysBounded
    <2>8. FailuresCounted'
      BY <1>1, <1>3, <2>2, NothingSent DEF IInv, FailuresCounted
    <2>9. QED
      BY <2>3, <2>4, <2>5, <2>6, <2>7, <2>8 DEF IInv
  <1>7. QED
    BY <1>5, <1>6

(* respond(): the prompt that was pending is the one the worker waits for. *)
LEMMA RespondPreserves ==
  ASSUME IInv, Respond
  PROVE  IInv'
  <1>1. /\ auth \in Auths /\ worker \in Workers /\ wire \in Wires
        /\ Queue \in Seq(Messages) /\ wire.calls \in Nat
        /\ auth.watchers \in Nat /\ auth.timers \in Nat
        /\ MaxCalls \in Nat /\ MaxDelays \in Nat /\ MaxQuickFailures \in Nat
    BY TypesOfState
  <1>2. /\ auth' = [auth EXCEPT !.pendingPrompt = FALSE] /\ UNCHANGED worker
        /\ wire' = [wire EXCEPT !.response = worker.phase # "dead"]
        /\ auth.pendingPrompt
    BY DEF Respond
  <1>3. /\ auth'.watchers = auth.watchers /\ auth'.pendingPrompt = FALSE /\ auth.pendingPrompt
        /\ auth'.unlocked = auth.unlocked /\ auth'.inPasswordDelay = auth.inPasswordDelay
        /\ auth'.timers = auth.timers /\ auth'.failedCount = auth.failedCount
        /\ auth'.unavailable = auth.unavailable
    BY <1>1, <1>2 DEF Auths
  <1>4. /\ UNCHANGED Queue /\ wire'.calls = wire.calls
        /\ (wire'.response <=> worker.phase # "dead") /\ UNCHANGED worker
    BY <1>1, <1>2 DEF Wires, Queue
  <1>5. TypeOK'
    BY <1>1, <1>2 DEF TypeOK, Auths, Wires
  <1>6. CallsAnswered'
    <2>1. InCall' <=> InCall
      BY <1>1, <1>3, <1>4 DEF InCall
    <2>2. QED
      BY <2>1, <1>1, <1>3, <1>4, NothingSent DEF IInv, CallsAnswered
  <1>7. PromptInOnePlace'
    BY <1>1, <1>3, <1>4, NothingSent DEF IInv, PromptInOnePlace
  <1>8. PamUnlocks'
    BY <1>1, <1>3, <1>4, NothingSent DEF IInv, PamUnlocks
  <1>9. DelayIsScheduled' /\ DelaysBounded'
    BY <1>1, <1>3, <1>4, NothingSent DEF IInv, DelayIsScheduled, DelaysBounded
  <1>10. FailuresCounted'
    BY <1>1, <1>3, <1>4, NothingSent DEF IInv, FailuresCounted
  <1>11. QED
    BY <1>5, <1>6, <1>7, <1>8, <1>9, <1>10 DEF IInv

(* cancel().                                                               *)
LEMMA CancelPreserves ==
  ASSUME IInv, Cancel
  PROVE  IInv'
  <1>1. /\ auth \in Auths /\ worker \in Workers /\ wire \in Wires
        /\ Queue \in Seq(Messages) /\ wire.calls \in Nat
        /\ auth.watchers \in Nat /\ auth.timers \in Nat
        /\ MaxCalls \in Nat /\ MaxDelays \in Nat /\ MaxQuickFailures \in Nat
    BY TypesOfState
  <1>2. /\ auth' = [auth EXCEPT !.connected = FALSE]
        /\ worker' = [worker EXCEPT !.doomed = TRUE] /\ UNCHANGED wire
    BY DEF Cancel
  <1>3. /\ auth'.watchers = auth.watchers /\ auth'.pendingPrompt = auth.pendingPrompt
        /\ auth'.unlocked = auth.unlocked /\ auth'.inPasswordDelay = auth.inPasswordDelay
        /\ auth'.timers = auth.timers /\ auth'.failedCount = auth.failedCount
        /\ auth'.unavailable = auth.unavailable
    BY <1>1, <1>2 DEF Auths
  <1>4. /\ worker'.phase = worker.phase /\ worker'.granted = worker.granted
        /\ UNCHANGED <<wire, Queue>>
    BY <1>1, <1>2 DEF Workers, Queue
  <1>5. TypeOK'
    BY <1>1, <1>2 DEF TypeOK, Auths, Workers
  <1>6. CallsAnswered'
    <2>1. InCall' <=> InCall
      BY <1>1, <1>3, <1>4 DEF InCall
    <2>2. QED
      BY <2>1, <1>1, <1>3, <1>4, NothingSent DEF IInv, CallsAnswered
  <1>7. PromptInOnePlace'
    BY <1>1, <1>3, <1>4, NothingSent DEF IInv, PromptInOnePlace
  <1>8. PamUnlocks'
    BY <1>1, <1>3, <1>4, NothingSent DEF IInv, PamUnlocks
  <1>9. DelayIsScheduled' /\ DelaysBounded'
    BY <1>1, <1>3, <1>4, NothingSent DEF IInv, DelayIsScheduled, DelaysBounded
  <1>10. FailuresCounted'
    BY <1>1, <1>3, <1>4, NothingSent DEF IInv, FailuresCounted
  <1>11. QED
    BY <1>5, <1>6, <1>7, <1>8, <1>9, <1>10 DEF IInv

-----------------------------------------------------------------------------
(* What the greeter receives.                                              *)

(* The message is taken from the queue.                                    *)
LEMMA ReceivesThen ==
  ASSUME IInv, NEW m, Receives(m)
  PROVE  /\ wire' \in Wires /\ wire'.calls = wire.calls /\ wire'.response = wire.response
         /\ AnswersComing' = AnswersComing - IF m \in Answers THEN 1 ELSE 0
         /\ PromptsComing' = PromptsComing - IF m = "Prompt" THEN 1 ELSE 0
         /\ DelaysComing' = DelaysComing - IF m = "StartFailedDelay" THEN 1 ELSE 0
         /\ SuccessComing' \/ m = "Success" => SuccessComing
         /\ AnswersComing \in Nat /\ PromptsComing \in Nat /\ DelaysComing \in Nat
         /\ AnswersComing' \in Nat /\ PromptsComing' \in Nat /\ DelaysComing' \in Nat
  <1>1. wire \in Wires /\ Queue \in Seq(Messages)
    BY TypesOfState
  <1>2. /\ Queue # <<>> /\ Head(Queue) = m
        /\ wire' = [wire EXCEPT !.toGreeter = Tail(Queue)]
    BY DEF Receives, Queue
  <1>3. Queue' = Tail(Queue) /\ wire'.calls = wire.calls /\ wire'.response = wire.response
    BY <1>1, <1>2 DEF Wires, Queue
  <1>4. wire' \in Wires
    <2>1. Tail(Queue) \in Seq(Messages)
      BY <1>1, <1>2, HeadTailProperties
    <2>2. QED
      BY <1>1, <1>2, <2>1 DEF Wires
  <1>5. QED
    BY <1>1, <1>2, <1>3, <1>4, MessageHandled

(* The connection is there, and the worker is ready.                       *)
LEMMA ConnectionPreserves ==
  ASSUME IInv, ConnectWorker \/ Ping
  PROVE  IInv'
  <1>1. /\ auth \in Auths /\ worker \in Workers /\ wire \in Wires
        /\ Queue \in Seq(Messages) /\ wire.calls \in Nat
        /\ auth.watchers \in Nat /\ auth.timers \in Nat
        /\ MaxCalls \in Nat /\ MaxDelays \in Nat /\ MaxQuickFailures \in Nat
    BY TypesOfState
  <1>2. PICK m \in {"NewConnection", "Ping"} : Receives(m)
    BY DEF ConnectWorker, Ping
  <1>3. /\ wire' \in Wires /\ wire'.calls = wire.calls /\ wire'.response = wire.response
        /\ AnswersComing' = AnswersComing /\ PromptsComing' = PromptsComing
        /\ DelaysComing' = DelaysComing /\ (SuccessComing' => SuccessComing)
        /\ AnswersComing \in Nat /\ PromptsComing \in Nat /\ DelaysComing \in Nat
        /\ UNCHANGED worker
    <2>1. m \notin Answers /\ m # "Prompt" /\ m # "StartFailedDelay"
      BY <1>2 DEF Answers, Results
    <2>2. QED
      BY <1>2, <2>1, ReceivesThen DEF ConnectWorker, Ping
  <1>4. \/ auth' = [auth EXCEPT !.connected = TRUE]
        \/ auth' = [auth EXCEPT !.ready = @ \/ auth.connected]
    BY DEF ConnectWorker, Ping
  <1>5. /\ auth'.watchers = auth.watchers
        /\ auth'.pendingPrompt = auth.pendingPrompt
        /\ auth'.unlocked = auth.unlocked
        /\ auth'.inPasswordDelay = auth.inPasswordDelay
        /\ auth'.timers = auth.timers
        /\ auth'.failedCount = auth.failedCount
        /\ auth'.unavailable = auth.unavailable
    BY <1>1, <1>4 DEF Auths
  <1>6. TypeOK'
    BY <1>1, <1>3, <1>4 DEF TypeOK, Auths
  <1>7. CallsAnswered'
    <2>1. InCall' <=> InCall
      BY <1>1, <1>3, <1>5 DEF InCall
    <2>2. QED
      BY <2>1, <1>1, <1>3, <1>5 DEF IInv, CallsAnswered
  <1>8. PromptInOnePlace'
    BY <1>1, <1>3, <1>5 DEF IInv, PromptInOnePlace
  <1>9. PamUnlocks'
    BY <1>1, <1>3, <1>5 DEF IInv, PamUnlocks
  <1>10. DelayIsScheduled' /\ DelaysBounded'
    BY <1>1, <1>3, <1>5 DEF IInv, DelayIsScheduled, DelaysBounded
  <1>11. FailuresCounted'
    BY <1>1, <1>3, <1>5 DEF IInv, FailuresCounted
  <1>12. QED
    BY <1>6, <1>7, <1>8, <1>9, <1>10, <1>11 DEF IInv

(* A prompt comes to the greeter.  No prompt is pending, as the worker     *)
(* waits for this one: nothing the user interface responds now is taken    *)
(* for the answer to an earlier one.                                       *)
LEMMA PromptPreserves ==
  ASSUME IInv, PromptInternal
  PROVE  IInv'
  <1>1. /\ auth \in Auths /\ worker \in Workers /\ wire \in Wires
        /\ Queue \in Seq(Messages) /\ wire.calls \in Nat
        /\ auth.watchers \in Nat /\ auth.timers \in Nat
        /\ MaxCalls \in Nat /\ MaxDelays \in Nat /\ MaxQuickFailures \in Nat
    BY TypesOfState
  <1>2. /\ Queue # <<>> /\ Head(Queue) = "Prompt" /\ UNCHANGED worker
        /\ auth' = [auth EXCEPT !.busy = FALSE, !.pendingPrompt = TRUE]
        /\ wire' = [wire EXCEPT !.toGreeter = Tail(Queue),
                                !.response = @ \/ (/\ RespondsAtOnce
                                                   /\ auth.pendingPrompt /\ auth.connected
                                                   /\ worker.phase # "dead")]
    BY DEF PromptInternal, Queue
  <1>3. /\ Queue' = Tail(Queue) /\ wire'.calls = wire.calls
        /\ wire'.response <=> \/ wire.response
                              \/ /\ RespondsAtOnce /\ auth.pendingPrompt
                                 /\ auth.connected /\ worker.phase # "dead"
        /\ UNCHANGED worker
    BY <1>1, <1>2 DEF Wires, Queue
  <1>4. /\ auth'.watchers = auth.watchers
        /\ auth'.unlocked = auth.unlocked
        /\ auth'.inPasswordDelay = auth.inPasswordDelay
        /\ auth'.timers = auth.timers
        /\ auth'.failedCount = auth.failedCount
        /\ auth'.unavailable = auth.unavailable
        /\ auth'.pendingPrompt = TRUE
    BY <1>1, <1>2 DEF Auths
  <1>5. /\ AnswersComing' = AnswersComing /\ PromptsComing' = PromptsComing - 1
        /\ DelaysComing' = DelaysComing /\ (SuccessComing' => SuccessComing)
        /\ AnswersComing \in Nat /\ PromptsComing \in Nat /\ DelaysComing \in Nat
        /\ PromptsComing' \in Nat
    <2>1. "Prompt" \notin Answers
      BY DEF Answers, Results
    <2>2. QED
      BY <1>1, <1>2, <1>3, <2>1, MessageHandled
  <1>6. TypeOK'
    <2>1. Tail(Queue) \in Seq(Messages)
      BY <1>1, <1>2, HeadTailProperties
    <2>2. wire' \in Wires
      BY <1>1, <1>2, <2>1 DEF Wires
    <2>3. QED
      BY <1>1, <1>2, <2>2 DEF TypeOK, Auths
  <1>7. CallsAnswered'
    <2>1. InCall' <=> InCall
      BY <1>1, <1>3, <1>4, <1>5 DEF InCall
    <2>2. QED
      BY <2>1, <1>1, <1>3, <1>4, <1>5 DEF IInv, CallsAnswered
  <1>8. PromptInOnePlace'
    BY <1>1, <1>3, <1>4, <1>5 DEF IInv, PromptInOnePlace
  <1>9. PamUnlocks'
    BY <1>1, <1>3, <1>4, <1>5 DEF IInv, PamUnlocks
  <1>10. DelayIsScheduled' /\ DelaysBounded'
    BY <1>1, <1>3, <1>4, <1>5 DEF IInv, DelayIsScheduled, DelaysBounded
  <1>11. FailuresCounted'
    BY <1>1, <1>3, <1>4, <1>5 DEF IInv, FailuresCounted
  <1>12. QED
    BY <1>6, <1>7, <1>8, <1>9, <1>10, <1>11 DEF IInv

(* A delay is announced, and its end is scheduled.                         *)
LEMMA StartFailedDelayPreserves ==
  ASSUME IInv, StartFailedDelay
  PROVE  IInv'
  <1>1. /\ auth \in Auths /\ worker \in Workers /\ wire \in Wires
        /\ Queue \in Seq(Messages) /\ wire.calls \in Nat
        /\ auth.watchers \in Nat /\ auth.timers \in Nat
        /\ MaxCalls \in Nat /\ MaxDelays \in Nat /\ MaxQuickFailures \in Nat
    BY TypesOfState
  <1>2. /\ wire' \in Wires /\ wire'.calls = wire.calls /\ wire'.response = wire.response
        /\ AnswersComing' = AnswersComing /\ PromptsComing' = PromptsComing
        /\ DelaysComing' = DelaysComing - 1 /\ (SuccessComing' => SuccessComing)
        /\ AnswersComing \in Nat /\ PromptsComing \in Nat /\ DelaysComing \in Nat
        /\ DelaysComing' \in Nat /\ UNCHANGED worker
    <2>1. "StartFailedDelay" \notin Answers
      BY DEF Answers, Results
    <2>2. QED
      BY <2>1, ReceivesThen DEF StartFailedDelay
  <1>3. auth' = [auth EXCEPT !.inPasswordDelay = TRUE, !.timers = @ + 1]
    BY DEF StartFailedDelay
  <1>4. /\ auth'.watchers = auth.watchers
        /\ auth'.pendingPrompt = auth.pendingPrompt
        /\ auth'.unlocked = auth.unlocked
        /\ auth'.failedCount = auth.failedCount
        /\ auth'.unavailable = auth.unavailable
        /\ auth'.timers = auth.timers + 1
    BY <1>1, <1>3 DEF Auths
  <1>5. TypeOK'
    <2>1. auth.timers + 1 \in 0 .. MaxDelays
      BY <1>1, <1>2 DEF IInv, DelaysBounded
    <2>2. QED
      BY <1>1, <1>2, <1>3, <2>1 DEF TypeOK, Auths
  <1>6. CallsAnswered'
    <2>1. InCall' <=> InCall
      BY <1>1, <1>2, <1>4 DEF InCall
    <2>2. QED
      BY <2>1, <1>1, <1>2, <1>4 DEF IInv, CallsAnswered
  <1>7. PromptInOnePlace'
    BY <1>1, <1>2, <1>4 DEF IInv, PromptInOnePlace
  <1>8. PamUnlocks'
    BY <1>1, <1>2, <1>4 DEF IInv, PamUnlocks
  <1>9. DelayIsScheduled' /\ DelaysBounded'
    BY <1>1, <1>2, <1>4 DEF IInv, DelayIsScheduled, DelaysBounded
  <1>10. FailuresCounted'
    BY <1>1, <1>2, <1>4 DEF IInv, FailuresCounted
  <1>11. QED
    BY <1>5, <1>6, <1>7, <1>8, <1>9, <1>10 DEF IInv

(* A delay is over, or an older one.                                       *)
LEMMA DelayEndsPreserves ==
  ASSUME IInv, DelayEnds
  PROVE  IInv'
  <1>1. /\ auth \in Auths /\ worker \in Workers /\ wire \in Wires
        /\ Queue \in Seq(Messages) /\ wire.calls \in Nat
        /\ auth.watchers \in Nat /\ auth.timers \in Nat
        /\ MaxCalls \in Nat /\ MaxDelays \in Nat /\ MaxQuickFailures \in Nat
    BY TypesOfState
  <1>2. /\ auth.timers > 0
        /\ auth' = [auth EXCEPT !.inPasswordDelay = FALSE, !.timers = @ - 1]
    BY DEF DelayEnds
  <1>3. UNCHANGED <<worker, wire, Queue>>
    BY DEF DelayEnds, Queue
  <1>4. /\ auth'.watchers = auth.watchers
        /\ auth'.pendingPrompt = auth.pendingPrompt
        /\ auth'.unlocked = auth.unlocked
        /\ auth'.failedCount = auth.failedCount
        /\ auth'.unavailable = auth.unavailable
        /\ auth'.timers = auth.timers - 1 /\ auth'.inPasswordDelay = FALSE
    BY <1>1, <1>2 DEF Auths
  <1>5. TypeOK'
    <2>1. auth.timers - 1 \in 0 .. MaxDelays
      BY <1>1, <1>2 DEF Auths
    <2>2. QED
      BY <1>1, <1>2, <1>3, <2>1 DEF TypeOK, Auths
  <1>6. CallsAnswered'
    <2>1. InCall' <=> InCall
      BY <1>1, <1>3, <1>4 DEF InCall
    <2>2. QED
      BY <2>1, <1>1, <1>3, <1>4, NothingSent DEF IInv, CallsAnswered
  <1>7. PromptInOnePlace'
    BY <1>1, <1>3, <1>4, NothingSent DEF IInv, PromptInOnePlace
  <1>8. PamUnlocks'
    BY <1>1, <1>3, <1>4, NothingSent DEF IInv, PamUnlocks
  <1>9. DelayIsScheduled' /\ DelaysBounded'
    BY <1>1, <1>3, <1>4, NothingSent DEF IInv, DelayIsScheduled, DelaysBounded
  <1>10. FailuresCounted'
    BY <1>1, <1>3, <1>4, NothingSent DEF IInv, FailuresCounted
  <1>11. QED
    BY <1>5, <1>6, <1>7, <1>8, <1>9, <1>10 DEF IInv

(* The answer m to a call: a success comes from PAM's consent, and only a  *)
(* service that is available counts a failure against itself.              *)
LEMMA AnswerPreserves ==
  ASSUME IInv, NEW m \in Answers, Receives(m), UNCHANGED worker,
         auth.watchers - 1 \in 0 .. MaxCalls => auth' \in Auths,
         auth'.watchers = auth.watchers - 1,
         auth'.pendingPrompt = auth.pendingPrompt,
         auth'.inPasswordDelay = auth.inPasswordDelay,
         auth'.timers = auth.timers,
         auth'.unlocked => auth.unlocked \/ m = "Success",
         auth.unavailable => auth'.unavailable,
         auth'.failedCount <= auth.failedCount + 1,
         auth'.failedCount > auth.failedCount /\ auth.failedCount >= MaxQuickFailures
           => auth'.unavailable
  PROVE  IInv'
  <1>1. /\ auth \in Auths /\ worker \in Workers /\ wire \in Wires
        /\ Queue \in Seq(Messages) /\ wire.calls \in Nat
        /\ auth.watchers \in Nat /\ auth.timers \in Nat
        /\ MaxCalls \in Nat /\ MaxDelays \in Nat /\ MaxQuickFailures \in Nat
    BY TypesOfState
  <1>2. /\ wire' \in Wires /\ wire'.calls = wire.calls /\ wire'.response = wire.response
        /\ AnswersComing' = AnswersComing - 1 /\ PromptsComing' = PromptsComing
        /\ DelaysComing' = DelaysComing
        /\ SuccessComing' \/ m = "Success" => SuccessComing
        /\ AnswersComing \in Nat /\ PromptsComing \in Nat /\ DelaysComing \in Nat
        /\ AnswersComing' \in Nat /\ UNCHANGED worker
    <2>1. m # "Prompt" /\ m # "StartFailedDelay"
      BY DEF Answers, Results
    <2>2. QED
      BY <2>1, ReceivesThen
  <1>3. auth.watchers - 1 \in 0 .. MaxCalls
    <2>1. auth.watchers >= 1
      BY <1>1, <1>2 DEF IInv, CallsAnswered
    <2>2. auth.watchers \in 0 .. MaxCalls
      BY <1>1 DEF Auths
    <2>3. QED
      BY <1>1, <2>1, <2>2
  <1>4. auth' \in Auths
    BY <1>3
  <1>5. TypeOK'
    BY <1>1, <1>2, <1>4 DEF TypeOK
  <1>6. CallsAnswered'
    <2>1. InCall' <=> InCall
      BY <1>2 DEF InCall
    <2>2. QED
      BY <2>1, <1>1, <1>2 DEF IInv, CallsAnswered
  <1>7. PromptInOnePlace'
    BY <1>1, <1>2 DEF IInv, PromptInOnePlace
  <1>8. PamUnlocks'
    BY <1>1, <1>2 DEF IInv, PamUnlocks
  <1>9. DelayIsScheduled' /\ DelaysBounded'
    BY <1>1, <1>2 DEF IInv, DelayIsScheduled, DelaysBounded
  <1>10. FailuresCounted'
    <2>1. /\ auth.failedCount \in Nat /\ auth.unavailable \in BOOLEAN
          /\ auth'.failedCount \in Nat /\ auth'.unavailable \in BOOLEAN
          /\ auth.watchers <= MaxCalls
      BY <1>1, <1>4 DEF Auths
    <2>2. CASE auth.unavailable
      <3>1. auth.failedCount <= MaxQuickFailures + (MaxCalls - auth.watchers)
        BY <2>2 DEF IInv, FailuresCounted
      <3>2. auth'.failedCount <= MaxQuickFailures + (MaxCalls - auth'.watchers)
        <4>1. \A limit, calls, w, f, g \in Nat :
                f <= limit + (calls - w) /\ g <= f + 1 => g <= limit + (calls - (w - 1))
          OBVIOUS
        <4>2. QED
          BY <1>1, <2>1, <3>1, <4>1
      <3>3. QED
        BY <2>2, <3>2 DEF FailuresCounted
    <2>3. CASE ~auth.unavailable
      <3>1. auth.failedCount <= MaxQuickFailures
        BY <2>3 DEF IInv, FailuresCounted
      <3> DEFINE more == MaxCalls - auth'.watchers
      <3>a. more \in Nat
        BY <1>1, <1>3
      <3>b. ASSUME auth'.failedCount <= MaxQuickFailures
            PROVE  FailuresCounted'
        <4> HIDE DEF more
        <4>1. auth'.failedCount <= MaxQuickFailures + more
          BY <1>1, <2>1, <3>a, <3>b
        <4>2. QED
          BY <3>b, <4>1 DEF FailuresCounted, more
      <3>2. CASE auth'.failedCount <= auth.failedCount
        BY <1>1, <2>1, <3>1, <3>2, <3>b
      <3>3. CASE auth.failedCount < MaxQuickFailures
        BY <1>1, <2>1, <3>3, <3>b
      <3>4. CASE auth'.failedCount > auth.failedCount /\ auth.failedCount >= MaxQuickFailures
        <4>1. auth'.unavailable /\ auth'.failedCount <= MaxQuickFailures + 1
          BY <1>1, <2>1, <3>1, <3>4
        <4>2. QED
          BY <1>1, <1>2, <2>1, <4>1 DEF FailuresCounted
      <3>5. QED
        BY <1>1, <2>1, <3>2, <3>3, <3>4
    <2>4. QED
      BY <2>2, <2>3
  <1>11. QED
    BY <1>5, <1>6, <1>7, <1>8, <1>9, <1>10 DEF IInv

(* Each of the answers.                                                    *)
LEMMA RepliesPreserve ==
  ASSUME IInv, ReplyError \/ ReplyFailure \/ ReplySuccess \/ ReplyUnavailable
  PROVE  IInv'
  <1>1. auth \in Auths /\ MaxQuickFailures \in Nat /\ auth.failedCount \in Nat
    BY TypesOfState DEF Auths
  <1>2. {"Error", "Failure", "Success", "Unavailable"} = Answers
    BY DEF Answers, Results
  <1>3. CASE ReplyError
    <2>1. auth' = [auth EXCEPT !.busy = FALSE, !.watchers = @ - 1]
      BY <1>3 DEF ReplyError, Answered
    <2>2. /\ auth.watchers - 1 \in 0 .. MaxCalls => auth' \in Auths
          /\ auth'.watchers = auth.watchers - 1
          /\ auth'.pendingPrompt = auth.pendingPrompt
          /\ auth'.inPasswordDelay = auth.inPasswordDelay
          /\ auth'.timers = auth.timers /\ auth'.unlocked = auth.unlocked
          /\ auth'.unavailable = auth.unavailable
          /\ auth'.failedCount = auth.failedCount
      BY <1>1, <2>1 DEF Auths
    <2>3. Receives("Error") /\ UNCHANGED worker
      BY <1>3 DEF ReplyError
    <2>4. QED
      BY <1>1, <1>2, <2>2, <2>3, AnswerPreserves
  <1>4. CASE ReplyFailure
    <2>1. Receives("Failure") /\ UNCHANGED worker
      BY <1>4 DEF ReplyFailure
    <2>2. CASE auth' = [Answered EXCEPT !.failedCount = @ + 1,
                          !.unavailable = @ \/ auth.failedCount >= MaxQuickFailures]
      <3> DEFINE n == auth.unavailable \/ auth.failedCount >= MaxQuickFailures
      <3>1. auth' = [auth EXCEPT !.busy = FALSE, !.watchers = @ - 1,
                                 !.failedCount = @ + 1, !.unavailable = n]
        BY <1>1, <2>2 DEF Answered, Auths
      <3>2. n \in BOOLEAN
        BY <1>1
      <3>3. n <=> auth.unavailable \/ auth.failedCount >= MaxQuickFailures
        OBVIOUS
      <3> HIDE DEF n
      <3>4. ASSUME auth.watchers - 1 \in 0 .. MaxCalls
            PROVE  auth' \in Auths
        <4>1. auth.failedCount + 1 \in Nat
          BY <1>1
        <4> DEFINE w == auth.watchers - 1
                   k == auth.failedCount + 1
        <4>2. auth' = [auth EXCEPT !.busy = FALSE, !.watchers = w,
                                   !.failedCount = k, !.unavailable = n]
          BY <3>1
        <4>3. w \in 0 .. MaxCalls /\ k \in Nat
          BY <3>4, <4>1
        <4> HIDE DEF w, k
        <4>4. QED
          BY <1>1, <3>2, <4>2, <4>3 DEF Auths
      <3>5. /\ auth'.watchers = auth.watchers - 1
            /\ auth'.pendingPrompt = auth.pendingPrompt
            /\ auth'.inPasswordDelay = auth.inPasswordDelay
            /\ auth'.timers = auth.timers /\ auth'.unlocked = auth.unlocked
            /\ auth'.failedCount = auth.failedCount + 1 /\ auth'.unavailable = n
        BY <1>1, <3>1, <3>2 DEF Auths
      <3>6. QED
        BY <1>1, <1>2, <2>1, <3>2, <3>3, <3>4, <3>5, AnswerPreserves
    <2>3. CASE auth' = [Answered EXCEPT !.failedCount = 0]
      <3>1. /\ auth.watchers - 1 \in 0 .. MaxCalls => auth' \in Auths
            /\ auth'.watchers = auth.watchers - 1
            /\ auth'.pendingPrompt = auth.pendingPrompt
            /\ auth'.inPasswordDelay = auth.inPasswordDelay
            /\ auth'.timers = auth.timers /\ auth'.unlocked = auth.unlocked
            /\ auth'.unavailable = auth.unavailable /\ auth'.failedCount = 0
        BY <1>1, <2>3 DEF Answered, Auths
      <3>2. QED
        BY <1>1, <1>2, <2>1, <3>1, AnswerPreserves
    <2>4. QED
      BY <1>4, <2>2, <2>3 DEF ReplyFailure
  <1>5. CASE ReplySuccess
    <2>1. /\ auth.watchers - 1 \in 0 .. MaxCalls => auth' \in Auths
          /\ auth'.watchers = auth.watchers - 1
          /\ auth'.pendingPrompt = auth.pendingPrompt
          /\ auth'.inPasswordDelay = auth.inPasswordDelay
          /\ auth'.timers = auth.timers
          /\ auth'.unavailable = auth.unavailable
          /\ auth'.failedCount = auth.failedCount
      BY <1>1, <1>5 DEF ReplySuccess, Answered, Auths
    <2>2. Receives("Success") /\ UNCHANGED worker
      BY <1>5 DEF ReplySuccess
    <2>3. QED
      BY <1>1, <1>2, <2>1, <2>2, AnswerPreserves
  <1>6. CASE ReplyUnavailable
    <2>1. /\ auth.watchers - 1 \in 0 .. MaxCalls => auth' \in Auths
          /\ auth'.watchers = auth.watchers - 1
          /\ auth'.pendingPrompt = auth.pendingPrompt
          /\ auth'.inPasswordDelay = auth.inPasswordDelay
          /\ auth'.timers = auth.timers /\ auth'.unlocked = auth.unlocked
          /\ auth'.unavailable = TRUE /\ auth'.failedCount = auth.failedCount
      BY <1>1, <1>6 DEF ReplyUnavailable, Answered, Auths
    <2>2. Receives("Unavailable") /\ UNCHANGED worker
      BY <1>6 DEF ReplyUnavailable
    <2>3. QED
      BY <1>1, <1>2, <2>1, <2>2, AnswerPreserves
  <1>7. QED
    BY <1>3, <1>4, <1>5, <1>6

-----------------------------------------------------------------------------
(* The steps of the worker.                                                *)

(* A step of the worker changes nothing of the authenticator.  It keeps    *)
(* the invariant if every call and the prompt are still somewhere, if it   *)
(* sends success only with PAM's consent, and a delay within the bound.    *)
LEMMA WorkerPreserves ==
  ASSUME IInv, UNCHANGED auth, worker' \in Workers, wire' \in Wires,
         wire'.calls + (IF InCall' THEN 1 ELSE 0) + AnswersComing'
           = wire.calls + (IF InCall THEN 1 ELSE 0) + AnswersComing,
         PromptInOnePlace',
         worker.granted => worker'.granted,
         SuccessComing' => SuccessComing \/ worker'.granted,
         DelaysComing' + auth.timers <= MaxDelays
  PROVE  IInv'
  <1>1. TypeOK'
    BY DEF IInv, TypeOK
  <1>2. CallsAnswered'
    BY DEF IInv, CallsAnswered
  <1>3. PamUnlocks'
    BY DEF IInv, PamUnlocks
  <1>4. DelayIsScheduled' /\ DelaysBounded'
    BY DEF IInv, DelayIsScheduled, DelaysBounded
  <1>5. FailuresCounted'
    BY DEF IInv, FailuresCounted
  <1>6. QED
    BY <1>1, <1>2, <1>3, <1>4, <1>5 DEF IInv

(* The worker sends a message, and nothing else on the wire changes.       *)
LEMMA SentThen ==
  ASSUME IInv, NEW m \in Messages, wire' = Sent(<<m>>)
  PROVE  /\ wire' \in Wires /\ wire'.calls = wire.calls /\ wire'.response = wire.response
         /\ AnswersComing' = AnswersComing + IF m \in Answers THEN 1 ELSE 0
         /\ PromptsComing' = PromptsComing + IF m = "Prompt" THEN 1 ELSE 0
         /\ DelaysComing' = DelaysComing + IF m = "StartFailedDelay" THEN 1 ELSE 0
         /\ SuccessComing' => SuccessComing \/ m = "Success"
         /\ AnswersComing \in Nat /\ PromptsComing \in Nat /\ DelaysComing \in Nat
  <1>1. wire \in Wires /\ Queue \in Seq(Messages)
    BY TypesOfState
  <1>2. wire' = [wire EXCEPT !.toGreeter = Queue \o <<m>>]
    BY DEF Sent, Queue
  <1>3. /\ Queue' = Queue \o <<m>>
        /\ wire'.calls = wire.calls /\ wire'.response = wire.response
    BY <1>1, <1>2 DEF Wires, Queue
  <1>4. wire' \in Wires
    <2>1. Queue \o <<m>> \in Seq(Messages)
      BY <1>1, <1>3, MessageSent
    <2>2. QED
      BY <1>1, <1>2, <2>1 DEF Wires
  <1>5. QED
    BY <1>1, <1>3, <1>4, MessageSent

(* The phase of the worker, and what it remembers.                         *)
LEMMA PhaseBecomes ==
  ASSUME IInv, NEW p \in Phases, Becomes(p)
  PROVE  /\ worker' \in Workers /\ worker'.phase = p
         /\ worker'.granted = worker.granted
  <1>1. worker \in Workers
    BY TypesOfState
  <1>2. QED
    BY <1>1 DEF Becomes, Workers

(* The worker is there and says so.                                        *)
LEMMA WorkerStartsPreserves ==
  ASSUME IInv, WorkerStarts
  PROVE  IInv'
  <1>1. /\ auth \in Auths /\ worker \in Workers /\ wire \in Wires
        /\ Queue \in Seq(Messages) /\ wire.calls \in Nat
        /\ auth.watchers \in Nat /\ auth.timers \in Nat
        /\ MaxCalls \in Nat /\ MaxDelays \in Nat /\ MaxQuickFailures \in Nat
    BY TypesOfState
  <1> DEFINE msgs == <<"NewConnection", "Ping">>
  <1>2. /\ worker.phase = "starting" /\ UNCHANGED auth
        /\ wire' = [wire EXCEPT !.toGreeter = Queue \o msgs]
    BY DEF WorkerStarts, Sent, Queue
  <1>3. msgs \in Seq(Messages) /\ Len(msgs) = 2 /\ DOMAIN msgs = 1 .. 2
    BY DEF Messages
  <1>4. \A i \in 1 .. 2 : msgs[i] = "NewConnection" \/ msgs[i] = "Ping"
    OBVIOUS
  <1> HIDE DEF msgs
  <1>5. /\ NumberOf(Answers, msgs) = 0 /\ NumberOf({"Prompt"}, msgs) = 0
        /\ NumberOf({"StartFailedDelay"}, msgs) = 0
    <2>1. /\ \A i \in 1 .. Len(msgs) : msgs[i] \notin Answers
          /\ \A i \in 1 .. Len(msgs) : msgs[i] \notin {"Prompt"}
          /\ \A i \in 1 .. Len(msgs) : msgs[i] \notin {"StartFailedDelay"}
      BY <1>3, <1>4 DEF Answers, Results
    <2>2. QED
      BY <1>3, <2>1, PlacesFinite DEF NumberOf
  <1>6. ~\E i \in 1 .. Len(msgs) : msgs[i] = "Success"
    BY <1>3, <1>4
  <1>7. Queue' = Queue \o msgs /\ wire'.calls = wire.calls /\ wire'.response = wire.response
    BY <1>1, <1>2 DEF Wires, Queue
  <1>8. /\ AnswersComing' = AnswersComing /\ PromptsComing' = PromptsComing
        /\ DelaysComing' = DelaysComing /\ (SuccessComing' => SuccessComing)
        /\ AnswersComing \in Nat /\ PromptsComing \in Nat /\ DelaysComing \in Nat
        /\ Queue' \in Seq(Messages)
    <2>1. /\ AnswersComing' = AnswersComing + NumberOf(Answers, msgs)
          /\ PromptsComing' = PromptsComing + NumberOf({"Prompt"}, msgs)
          /\ DelaysComing' = DelaysComing + NumberOf({"StartFailedDelay"}, msgs)
          /\ AnswersComing \in Nat /\ PromptsComing \in Nat /\ DelaysComing \in Nat
          /\ Queue' \in Seq(Messages)
      BY <1>1, <1>3, <1>7, MessagesSent
    <2>2. SuccessComing' => SuccessComing
      BY <1>1, <1>3, <1>6, <1>7, MessagesSent
    <2>3. QED
      BY <1>5, <2>1, <2>2
  <1>9. wire' \in Wires
    BY <1>1, <1>2, <1>7, <1>8 DEF Wires
  <1>10. worker' \in Workers /\ worker'.phase = "idle" /\ worker'.granted = worker.granted
    <2>1. "idle" \in Phases /\ Becomes("idle")
      BY DEF Phases, WorkerStarts
    <2>2. QED
      BY <2>1, PhaseBecomes
  <1>11. ~InCall /\ ~InCall'
    BY <1>2, <1>10 DEF InCall
  <1>12. PromptInOnePlace'
    BY <1>1, <1>2, <1>7, <1>8, <1>10 DEF IInv, PromptInOnePlace
  <1>13. DelaysComing' + auth.timers <= MaxDelays
    BY <1>8 DEF IInv, DelaysBounded
  <1>14. QED
    BY <1>2, <1>7, <1>8, <1>9, <1>10, <1>11, <1>12, <1>13, WorkerPreserves

(* A call is taken from the wire: into the worker's hand, or answered.     *)
LEMMA AuthenticatePreserves ==
  ASSUME IInv, Authenticate
  PROVE  IInv'
  <1>1. /\ auth \in Auths /\ worker \in Workers /\ wire \in Wires
        /\ Queue \in Seq(Messages) /\ wire.calls \in Nat
        /\ auth.watchers \in Nat /\ auth.timers \in Nat
        /\ MaxCalls \in Nat /\ MaxDelays \in Nat /\ MaxQuickFailures \in Nat
    BY TypesOfState
  <1>2. worker.phase = "idle" /\ wire.calls > 0 /\ UNCHANGED auth /\ ~InCall
    BY DEF Authenticate, InCall
  <1>3. wire.calls - 1 \in 0 .. MaxCalls
    <2>1. wire.calls \in 0 .. MaxCalls
      BY <1>1 DEF Wires
    <2>2. QED
      BY <1>1, <1>2, <2>1
  <1>4. CASE worker.available
    <2>1. Becomes("pam") /\ wire' = [wire EXCEPT !.calls = @ - 1]
      BY <1>4 DEF Authenticate
    <2>2. worker' \in Workers /\ worker'.phase = "pam" /\ worker'.granted = worker.granted
      BY <2>1, PhaseBecomes DEF Phases
    <2>3. /\ wire' \in Wires /\ wire'.calls = wire.calls - 1
          /\ wire'.response = wire.response /\ UNCHANGED Queue
      BY <1>1, <1>3, <2>1 DEF Wires, Queue
    <2>4. /\ AnswersComing' = AnswersComing /\ PromptsComing' = PromptsComing
          /\ DelaysComing' = DelaysComing /\ (SuccessComing' => SuccessComing)
          /\ AnswersComing \in Nat /\ PromptsComing \in Nat /\ DelaysComing \in Nat
      BY <1>1, <2>3, NothingSent
    <2>5. InCall'
      BY <2>2 DEF InCall
    <2>6. wire'.calls + (IF InCall' THEN 1 ELSE 0) + AnswersComing'
            = wire.calls + (IF InCall THEN 1 ELSE 0) + AnswersComing
      BY <1>1, <1>2, <2>3, <2>4, <2>5
    <2>7. PromptInOnePlace'
      BY <1>2, <2>2, <2>3, <2>4 DEF IInv, PromptInOnePlace
    <2>8. DelaysComing' + auth.timers <= MaxDelays
      BY <2>4 DEF IInv, DelaysBounded
    <2>9. QED
      BY <1>2, <2>2, <2>3, <2>4, <2>6, <2>7, <2>8, WorkerPreserves
  <1>5. CASE ~worker.available
    <2>1. UNCHANGED worker /\ wire' = [Sent(<<"Failure">>) EXCEPT !.calls = @ - 1]
      BY <1>5 DEF Authenticate
    <2>2. wire' = [wire EXCEPT !.toGreeter = Queue \o <<"Failure">>, !.calls = @ - 1]
      BY <1>1, <2>1 DEF Sent, Wires, Queue
    <2>3. /\ wire'.calls = wire.calls - 1 /\ wire'.response = wire.response
          /\ Queue' = Queue \o <<"Failure">>
      BY <1>1, <2>2 DEF Wires, Queue
    <2>4. /\ AnswersComing' = AnswersComing + 1 /\ PromptsComing' = PromptsComing
          /\ DelaysComing' = DelaysComing /\ (SuccessComing' => SuccessComing)
          /\ AnswersComing \in Nat /\ PromptsComing \in Nat /\ DelaysComing \in Nat
          /\ Queue' \in Seq(Messages)
      <3>1. "Failure" \in Answers /\ "Failure" # "Success"
        BY DEF Answers, Results
      <3>2. QED
        BY <1>1, <2>3, <3>1, AnswerSent
    <2>5. wire' \in Wires
      BY <1>1, <1>3, <2>2, <2>3, <2>4 DEF Wires
    <2>6. ~InCall'
      BY <1>2, <2>1 DEF InCall
    <2>7. wire'.calls + (IF InCall' THEN 1 ELSE 0) + AnswersComing'
            = wire.calls + (IF InCall THEN 1 ELSE 0) + AnswersComing
      <3>1. (IF InCall' THEN 1 ELSE 0) = 0 /\ (IF InCall THEN 1 ELSE 0) = 0
        BY <1>2, <2>6
      <3>2. wire.calls - 1 + 0 + (AnswersComing + 1) = wire.calls + 0 + AnswersComing
        BY <1>1, <2>4
      <3>3. QED
        BY <2>3, <2>4, <3>1, <3>2
    <2>8. PromptInOnePlace'
      BY <1>2, <2>1, <2>3, <2>4 DEF IInv, PromptInOnePlace
    <2>9. DelaysComing' + auth.timers <= MaxDelays
      BY <2>4 DEF IInv, DelaysBounded
    <2>10. QED
      BY <1>1, <1>2, <2>1, <2>4, <2>5, <2>7, <2>8, <2>9, WorkerPreserves
  <1>6. QED
    BY <1>4, <1>5

(* PAM takes the response to its prompt.                                   *)
LEMMA GetResponsePreserves ==
  ASSUME IInv, GetResponse
  PROVE  IInv'
  <1>1. wire \in Wires /\ Queue \in Seq(Messages)
    BY TypesOfState
  <1>2. /\ worker.phase = "prompting" /\ wire.response /\ UNCHANGED auth
        /\ Becomes("pam") /\ wire' = [wire EXCEPT !.response = FALSE]
    BY DEF GetResponse
  <1>3. worker' \in Workers /\ worker'.phase = "pam" /\ worker'.granted = worker.granted
    BY <1>2, PhaseBecomes DEF Phases
  <1>4. /\ wire' \in Wires /\ wire'.calls = wire.calls
        /\ wire'.response = FALSE /\ UNCHANGED Queue
    BY <1>1, <1>2 DEF Wires, Queue
  <1>5. /\ AnswersComing' = AnswersComing /\ PromptsComing' = PromptsComing
        /\ DelaysComing' = DelaysComing /\ (SuccessComing' => SuccessComing)
        /\ PromptsComing \in Nat
    BY <1>1, <1>4, NothingSent
  <1>6. InCall /\ InCall'
    BY <1>2, <1>3 DEF InCall
  <1>7. wire'.calls + (IF InCall' THEN 1 ELSE 0) + AnswersComing'
          = wire.calls + (IF InCall THEN 1 ELSE 0) + AnswersComing
    BY <1>4, <1>5, <1>6
  <1>8. PromptInOnePlace'
    BY <1>2, <1>3, <1>4, <1>5 DEF IInv, PromptInOnePlace
  <1>9. DelaysComing' + auth.timers <= MaxDelays
    BY <1>5 DEF IInv, DelaysBounded
  <1>10. QED
    BY <1>2, <1>3, <1>4, <1>5, <1>7, <1>8, <1>9, WorkerPreserves

(* What PAM does that the greeter is told: it asks, it delays, or it is    *)
(* through with the call.                                                  *)
LEMMA PamTells ==
  ASSUME IInv, NEW m \in Messages, wire' = Sent(<<m>>), UNCHANGED auth,
         worker.phase \in {"pam", "delay"}, worker' \in Workers,
         \/ m \in Answers /\ worker'.phase = "idle"
         \/ m = "Prompt" /\ worker'.phase = "prompting"
         \/ /\ m = "StartFailedDelay" /\ worker'.phase = "delay"
            /\ DelaysComing + auth.timers < MaxDelays,
         worker.granted => worker'.granted,
         m = "Success" => worker'.granted
  PROVE  IInv'
  <1>1. /\ wire \in Wires /\ wire.calls \in Nat /\ auth.timers \in Nat /\ MaxDelays \in Nat
    BY TypesOfState
  <1>2. /\ wire' \in Wires /\ wire'.calls = wire.calls /\ wire'.response = wire.response
        /\ AnswersComing' = AnswersComing + IF m \in Answers THEN 1 ELSE 0
        /\ PromptsComing' = PromptsComing + IF m = "Prompt" THEN 1 ELSE 0
        /\ DelaysComing' = DelaysComing + IF m = "StartFailedDelay" THEN 1 ELSE 0
        /\ (SuccessComing' => SuccessComing \/ m = "Success")
        /\ AnswersComing \in Nat /\ PromptsComing \in Nat /\ DelaysComing \in Nat
    BY SentThen
  <1>3. "Prompt" \notin Answers /\ "StartFailedDelay" \notin Answers
    BY DEF Answers, Results
  <1>4. /\ InCall
        /\ InCall' <=> worker'.phase \in {"prompting", "delay", "pam"}
    BY DEF InCall
  <1>5. wire'.calls + (IF InCall' THEN 1 ELSE 0) + AnswersComing'
          = wire.calls + (IF InCall THEN 1 ELSE 0) + AnswersComing
    <2>1. (IF InCall THEN 1 ELSE 0) = 1
      BY <1>4
    <2>2. CASE m \in Answers
      <3>1. (IF InCall' THEN 1 ELSE 0) = 0
        BY <1>3, <1>4, <2>2
      <3>2. QED
        BY <1>1, <1>2, <2>1, <2>2, <3>1
    <2>3. CASE m \notin Answers
      <3>1. (IF InCall' THEN 1 ELSE 0) = 1
        BY <1>4, <2>3
      <3>2. QED
        BY <1>1, <1>2, <2>1, <2>3, <3>1
    <2>4. QED
      BY <2>2, <2>3
  <1>6. PromptInOnePlace'
    <2>1. /\ PromptsComing = 0 /\ ~wire.response /\ ~auth.pendingPrompt
      BY <1>2 DEF IInv, PromptInOnePlace
    <2>2. CASE m = "Prompt"
      BY <1>2, <1>3, <2>1, <2>2 DEF PromptInOnePlace
    <2>3. CASE m # "Prompt"
      BY <1>2, <2>1, <2>3 DEF PromptInOnePlace
    <2>4. QED
      BY <2>2, <2>3
  <1>7. DelaysComing' + auth.timers <= MaxDelays
    <2>1. CASE m = "StartFailedDelay"
      BY <1>1, <1>2, <1>3, <2>1
    <2>2. CASE m # "StartFailedDelay"
      BY <1>1, <1>2, <2>2 DEF IInv, DelaysBounded
    <2>3. QED
      BY <2>1, <2>2
  <1>8. SuccessComing' => SuccessComing \/ worker'.granted
    BY <1>2
  <1>9. QED
    BY <1>2, <1>5, <1>6, <1>7, <1>8, WorkerPreserves

(* PAM at work: a prompt, a delay, its denial and its consent.             *)
LEMMA PamPreserves ==
  ASSUME IInv, PamActs
  PROVE  IInv'
  <1>1. worker \in Workers
    BY TypesOfState
  <1>2. /\ {"Prompt", "StartFailedDelay", "Failure", "Success", "Unavailable"} \subseteq Messages
        /\ {"Failure", "Success", "Unavailable"} \subseteq Answers
    BY DEF Messages, Answers, Results
  <1>3. {"prompting", "delay", "idle"} \subseteq Phases
    BY DEF Phases
  <1>4. CASE Converse
    <2>1. /\ worker.phase = "pam" /\ Becomes("prompting")
          /\ wire' = Sent(<<"Prompt">>) /\ UNCHANGED auth
      BY <1>4 DEF Converse
    <2>2. /\ worker' \in Workers /\ worker'.phase = "prompting"
          /\ worker'.granted = worker.granted
      BY <1>3, <2>1, PhaseBecomes
    <2>3. QED
      BY <1>2, <2>1, <2>2, PamTells
  <1>5. CASE FailDelay
    <2>1. /\ worker.phase = "pam" /\ Becomes("delay")
          /\ wire' = Sent(<<"StartFailedDelay">>) /\ UNCHANGED auth
          /\ DelaysComing + auth.timers < MaxDelays
      BY <1>5 DEF FailDelay, DelaysComing
    <2>2. worker' \in Workers /\ worker'.phase = "delay" /\ worker'.granted = worker.granted
      BY <1>3, <2>1, PhaseBecomes
    <2>3. QED
      BY <1>2, <2>1, <2>2, PamTells
  <1>6. CASE PamDenies
    <2>1. worker.phase \in {"pam", "delay"} /\ UNCHANGED auth
      BY <1>6 DEF PamDenies
    <2>2. CASE Becomes("idle") /\ wire' = Sent(<<"Failure">>)
      <3>1. worker' \in Workers /\ worker'.phase = "idle" /\ worker'.granted = worker.granted
        BY <1>3, <2>2, PhaseBecomes
      <3>2. QED
        BY <1>2, <2>1, <2>2, <3>1, PamTells
    <2>3. CASE /\ worker' = [worker EXCEPT !.phase = "idle", !.available = FALSE]
               /\ wire' = Sent(<<"Unavailable">>)
      <3>1. worker' \in Workers /\ worker'.phase = "idle" /\ worker'.granted = worker.granted
        BY <1>1, <1>3, <2>3 DEF Workers
      <3>2. QED
        BY <1>2, <2>1, <2>3, <3>1, PamTells
    <2>4. QED
      BY <1>6, <2>2, <2>3 DEF PamDenies
  <1>7. CASE PamGrants
    <2>1. /\ worker.phase = "pam" /\ wire' = Sent(<<"Success">>) /\ UNCHANGED auth
          /\ worker' = [worker EXCEPT !.phase = "idle", !.granted = TRUE]
      BY <1>7 DEF PamGrants
    <2>2. worker' \in Workers /\ worker'.phase = "idle" /\ worker'.granted = TRUE
      BY <1>1, <1>3, <2>1 DEF Workers
    <2>3. QED
      BY <1>2, <2>1, <2>2, PamTells
  <1>8. QED
    BY <1>4, <1>5, <1>6, <1>7 DEF PamActs

(* The worker ends: the connection answers the calls that it had.          *)
LEMMA WorkerDiesPreserves ==
  ASSUME IInv, WorkerDies
  PROVE  IInv'
  <1>1. wire \in Wires /\ Queue \in Seq(Messages) /\ wire.calls \in Nat /\ MaxCalls \in Nat
    BY TypesOfState
  <1>2. PICK n \in Nat : n = wire.calls + (IF InCall THEN 1 ELSE 0)
    BY <1>1
  <1> DEFINE msgs == [i \in 1 .. n |-> "Error"]
  <1>3. /\ Becomes("dead") /\ UNCHANGED auth
        /\ wire' = [toGreeter |-> Queue \o msgs, calls |-> 0, response |-> FALSE]
    BY <1>2 DEF WorkerDies, Queue
  <1>4. worker' \in Workers /\ worker'.phase = "dead" /\ worker'.granted = worker.granted
    BY <1>3, PhaseBecomes DEF Phases
  <1>5. /\ msgs \in Seq(Messages)
        /\ NumberOf(Answers, msgs) = n
        /\ NumberOf({"StartFailedDelay"}, msgs) = 0
    <2>1. "Error" \in Messages /\ "Error" \in Answers /\ "Error" \notin {"StartFailedDelay"}
      BY DEF Messages, Answers
    <2>2. QED
      BY <2>1, PlacesConstant DEF NumberOf
  <1>6. ~\E i \in 1 .. Len(msgs) : msgs[i] = "Success"
    <2>1. \A i \in 1 .. n : msgs[i] = "Error"
      OBVIOUS
    <2>2. Len(msgs) = n
      BY FunctionIsSequence
    <2>3. QED
      BY <2>1, <2>2
  <1> HIDE DEF msgs
  <1>7. Queue' = Queue \o msgs /\ wire'.calls = 0
    BY <1>3 DEF Queue
  <1>8. /\ AnswersComing' = AnswersComing + n /\ DelaysComing' = DelaysComing
        /\ AnswersComing \in Nat /\ Queue' \in Seq(Messages)
    <2>1. /\ AnswersComing' = AnswersComing + NumberOf(Answers, msgs)
          /\ DelaysComing' = DelaysComing + NumberOf({"StartFailedDelay"}, msgs)
          /\ AnswersComing \in Nat /\ DelaysComing \in Nat /\ Queue' \in Seq(Messages)
      BY <1>1, <1>5, <1>7, MessagesSent
    <2>2. QED
      BY <1>5, <2>1
  <1>9. SuccessComing' => SuccessComing
    BY <1>1, <1>5, <1>6, <1>7, MessagesSent
  <1>10. wire' \in Wires
    <2>1. Queue \o msgs \in Seq(Messages) /\ 0 \in 0 .. MaxCalls
      BY <1>1, <1>7, <1>8
    <2>2. QED
      BY <1>3, <2>1 DEF Wires
  <1>11. wire'.calls + (IF InCall' THEN 1 ELSE 0) + AnswersComing'
           = wire.calls + (IF InCall THEN 1 ELSE 0) + AnswersComing
    <2>1. (IF InCall' THEN 1 ELSE 0) = 0
      BY <1>4 DEF InCall
    <2>2. 0 + 0 + (AnswersComing + n) = n + AnswersComing
      BY <1>8
    <2>3. QED
      BY <1>2, <1>7, <1>8, <2>1, <2>2
  <1>12. PromptInOnePlace'
    BY <1>4 DEF PromptInOnePlace
  <1>13. DelaysComing' + auth.timers <= MaxDelays
    BY <1>8 DEF IInv, DelaysBounded
  <1>14. QED
    BY <1>3, <1>4, <1>9, <1>10, <1>11, <1>12, <1>13, WorkerPreserves

-----------------------------------------------------------------------------
(* The invariant, and what it is for.                                      *)

(* An authenticator that has just been made, with its worker or without    *)
(* one, and with nothing on the wire.                                      *)
Made == auth = Constructed /\ wire = Silence /\ worker.phase \in {"starting", "dead"}

(* The invariant holds when that is what there is at first,                *)
LEMMA MadeEstablishes ==
  ASSUME Made, worker \in Workers
  PROVE  IInv
  <1>1. auth = Constructed /\ wire = Silence
    BY DEF Made
  <1>2. /\ 0 \in 0 .. MaxCalls /\ 0 \in 0 .. MaxDelays
        /\ MaxCalls \in Nat /\ MaxDelays \in Nat /\ MaxQuickFailures \in Nat
    BY MaxAssumption
  <1>3. Queue = <<>> /\ wire.calls = 0 /\ wire.response = FALSE
    BY <1>1 DEF Silence, Queue
  <1>4. /\ auth.watchers = 0 /\ auth.pendingPrompt = FALSE /\ auth.unlocked = FALSE
        /\ auth.inPasswordDelay = FALSE /\ auth.timers = 0 /\ auth.failedCount = 0
        /\ auth.unavailable = FALSE
    BY <1>1 DEF Constructed
  <1>5. worker.phase # "prompting" /\ ~InCall
    BY DEF Made, InCall
  <1>6. TypeOK
    <2>1. auth \in Auths
      BY <1>1, <1>2 DEF Constructed, Auths
    <2>2. wire \in Wires
      BY <1>1, <1>2 DEF Silence, Wires
    <2>3. QED
      BY <2>1, <2>2 DEF TypeOK
  <1>7. AnswersComing = 0 /\ PromptsComing = 0 /\ DelaysComing = 0 /\ ~SuccessComing
    <2>1. Queue \in Seq(Messages) /\ DOMAIN Queue = {}
      BY <1>3
    <2>2. ASSUME NEW S
          PROVE  Count(S) = 0
      BY <1>3, <2>1, CountIsOfPlaces, PlacesEmpty DEF NumberOf
    <2>3. QED
      BY <2>1, <2>2 DEF AnswersComing, PromptsComing, DelaysComing, SuccessComing
  <1>8. QED
    BY <1>2, <1>3, <1>4, <1>5, <1>6, <1>7
       DEF IInv, CallsAnswered, PromptInOnePlace, PamUnlocks, DelayIsScheduled,
           DelaysBounded, FailuresCounted

(* and when it is what a step has made.                                    *)
LEMMA MadeAnew ==
  ASSUME Made', worker' \in Workers
  PROVE  IInv'
  <1>1. auth' = Constructed /\ wire' = Silence
    BY DEF Made
  <1>2. /\ 0 \in 0 .. MaxCalls /\ 0 \in 0 .. MaxDelays
        /\ MaxCalls \in Nat /\ MaxDelays \in Nat /\ MaxQuickFailures \in Nat
    BY MaxAssumption
  <1>3. Queue' = <<>> /\ wire'.calls = 0 /\ wire'.response = FALSE
    BY <1>1 DEF Silence, Queue
  <1>4. /\ auth'.watchers = 0 /\ auth'.pendingPrompt = FALSE /\ auth'.unlocked = FALSE
        /\ auth'.inPasswordDelay = FALSE /\ auth'.timers = 0 /\ auth'.failedCount = 0
        /\ auth'.unavailable = FALSE
    BY <1>1 DEF Constructed
  <1>5. worker'.phase # "prompting" /\ ~InCall'
    BY DEF Made, InCall
  <1>6. TypeOK'
    <2>1. auth' \in Auths
      BY <1>1, <1>2 DEF Constructed, Auths
    <2>2. wire' \in Wires
      BY <1>1, <1>2 DEF Silence, Wires
    <2>3. QED
      BY <2>1, <2>2 DEF TypeOK
  <1>7. AnswersComing' = 0 /\ PromptsComing' = 0 /\ DelaysComing' = 0 /\ ~SuccessComing'
    <2>1. Queue' \in Seq(Messages) /\ DOMAIN Queue' = {}
      BY <1>3
    <2>2. ASSUME NEW S
          PROVE  Count(S)' = 0
      BY <1>3, <2>1, CountIsOfPlaces, PlacesEmpty DEF NumberOf
    <2>3. QED
      BY <2>1, <2>2 DEF AnswersComing, PromptsComing, DelaysComing, SuccessComing
  <1>8. QED
    BY <1>2, <1>3, <1>4, <1>5, <1>6, <1>7
       DEF IInv, CallsAnswered, PromptInOnePlace, PamUnlocks, DelayIsScheduled,
           DelaysBounded, FailuresCounted

(* A step that leaves everything as it is.                                 *)
LEMMA StutterPreserves ==
  ASSUME IInv, UNCHANGED vars
  PROVE  IInv'
  <1>1. UNCHANGED <<auth, worker, wire>>
    BY DEF vars
  <1>2. Queue \in Seq(Messages) /\ UNCHANGED Queue
    BY <1>1, TypesOfState DEF Queue
  <1>3. /\ AnswersComing' = AnswersComing /\ PromptsComing' = PromptsComing
        /\ DelaysComing' = DelaysComing /\ (SuccessComing' <=> SuccessComing)
    BY <1>2, NothingSent
  <1>4. InCall' <=> InCall
    BY <1>1 DEF InCall
  <1>5. PromptInOnePlace'
    BY <1>1, <1>3 DEF IInv, PromptInOnePlace
  <1>6. worker' \in Workers /\ wire' \in Wires
    BY <1>1, TypesOfState
  <1>7. DelaysComing' + auth.timers <= MaxDelays
    BY <1>3 DEF IInv, DelaysBounded
  <1>8. wire'.calls + (IF InCall' THEN 1 ELSE 0) + AnswersComing'
          = wire.calls + (IF InCall THEN 1 ELSE 0) + AnswersComing
    BY <1>1, <1>3, <1>4
  <1>9. QED
    BY <1>1, <1>3, <1>5, <1>6, <1>7, <1>8, WorkerPreserves

(* Every step of the authenticator and of its worker.                      *)
LEMMA NextPreserves ==
  ASSUME IInv, [Next]_vars
  PROVE  IInv'
  <1>1. CASE UserActs
    <2>1. CASE TryUnlock /\ auth.watchers < MaxCalls
      BY <2>1, TryUnlockInVain, TryUnlockCalls
    <2>2. CASE ~RespondsAtOnce /\ Respond
      BY <2>2, RespondPreserves
    <2>3. CASE Cancel
      BY <2>3, CancelPreserves
    <2>4. QED
      BY <1>1, <2>1, <2>2, <2>3 DEF UserActs
  <1>2. CASE GreeterReceives
    <2>1. CASE ConnectWorker \/ Ping
      BY <2>1, ConnectionPreserves
    <2>2. CASE PromptInternal
      BY <2>2, PromptPreserves
    <2>3. CASE StartFailedDelay
      BY <2>3, StartFailedDelayPreserves
    <2>4. CASE ReplyError \/ ReplyFailure \/ ReplySuccess \/ ReplyUnavailable
      BY <2>4, RepliesPreserve
    <2>5. QED
      BY <1>2, <2>1, <2>2, <2>3, <2>4 DEF GreeterReceives
  <1>3. CASE DelayEnds
    BY <1>3, DelayEndsPreserves
  <1>4. CASE WorkerActs
    <2>1. CASE WorkerStarts
      BY <2>1, WorkerStartsPreserves
    <2>2. CASE Authenticate
      BY <2>2, AuthenticatePreserves
    <2>3. CASE GetResponse
      BY <2>3, GetResponsePreserves
    <2>4. CASE PamActs
      BY <2>4, PamPreserves
    <2>5. QED
      BY <1>4, <2>1, <2>2, <2>3, <2>4 DEF WorkerActs
  <1>5. CASE WorkerDies
    BY <1>5, WorkerDiesPreserves
  <1>6. CASE UNCHANGED vars
    BY <1>6, StutterPreserves
  <1>7. QED
    BY <1>1, <1>2, <1>3, <1>4, <1>5, <1>6 DEF Next

(* The invariant holds of the states that the authenticator and its worker *)
(* can be in.                                                              *)
THEOREM Inductive == Spec => []IInv
  <1>1. Init => IInv
    <2>1. Init => Made /\ worker \in Workers
      BY DEF Init, Made, NewWorker, Workers, Phases
    <2>2. QED
      BY <2>1, MadeEstablishes
  <1>2. IInv /\ [Next]_vars => IInv'
    BY NextPreserves
  <1>3. QED
    BY <1>1, <1>2, PTL DEF Spec

(* The members of PamAuthenticator, the worker and the wire have their     *)
(* types: no delay or call beyond the bounds of the model.                 *)
THEOREM TypeCorrect == Spec => []TypeOK
  <1>1. IInv => TypeOK
    BY DEF IInv
  <1>2. QED
    BY <1>1, Inductive, PTL

(* Every call of Authenticate that the greeter watches has exactly one     *)
(* answer to come, wherever the call is and whenever the worker dies.      *)
THEOREM CallsAreAnswered == Spec => []EveryCallIsAnswered
  <1>1. IInv => EveryCallIsAnswered
    BY DEF IInv, CallsAnswered, EveryCallIsAnswered, AnswersComing, Answers
  <1>2. QED
    BY <1>1, Inductive, PTL

(* A prompt is on its way, pending or answered, and never two of these; so *)
(* a response is taken for the answer to the prompt that it was given to.  *)
THEOREM PromptsAreInOnePlace == Spec => []PromptIsInOnePlace
  <1>1. IInv => PromptIsInOnePlace
    BY DEF IInv, PromptInOnePlace, PromptIsInOnePlace, PromptsComing
  <1>2. QED
    BY <1>1, Inductive, PTL

(* isUnlocked(), and a success on its way to it, come from PAM's consent.  *)
THEOREM UnlockedByPam == Spec => []OnlyPamUnlocks
  <1>1. IInv => OnlyPamUnlocks
    BY DEF IInv, PamUnlocks, OnlyPamUnlocks, SuccessComing, Queue
  <1>2. QED
    BY <1>1, Inductive, PTL

(* The password delay is shown only while a timer runs that ends it.       *)
THEOREM DelaysEnd == Spec => []DelayIsScheduled
  <1>1. IInv => DelayIsScheduled
    BY DEF IInv
  <1>2. QED
    BY <1>1, Inductive, PTL

(* A service that fails in quick succession gets no more calls: what is    *)
(* still counted are the calls that it had before it was unavailable.      *)
THEOREM LeftAlone == Spec => []BrokenServiceIsLeftAlone
  <1>1. ASSUME IInv
        PROVE  BrokenServiceIsLeftAlone
    <2>1. /\ MaxCalls \in Nat /\ MaxQuickFailures \in Nat /\ auth.watchers \in Nat
          /\ auth.failedCount \in Nat /\ auth.unavailable \in BOOLEAN
      BY <1>1, TypesOfState DEF Auths
    <2>2. CASE auth.unavailable
      BY <1>1, <2>1, <2>2 DEF IInv, FailuresCounted, BrokenServiceIsLeftAlone
    <2>3. CASE ~auth.unavailable
      BY <1>1, <2>1, <2>3 DEF IInv, FailuresCounted, BrokenServiceIsLeftAlone
    <2>4. QED
      BY <2>1, <2>2, <2>3
  <1>2. QED
    BY <1>1, Inductive, PTL

-----------------------------------------------------------------------------
(* What steps of the authenticator do, for those who keep several.         *)

(* Only PAM's consent changes whether PAM has consented.                   *)
LEMMA OnlyPamGrants ==
  ASSUME IInv, UserActs \/ GreeterReceives \/ UNCHANGED vars
  PROVE  worker'.granted = worker.granted
  <1>1. worker \in Workers
    BY TypesOfState
  <1>2. CASE Cancel
    BY <1>1, <1>2 DEF Cancel, Workers
  <1>3. CASE UNCHANGED worker
    BY <1>3
  <1>4. QED
    BY <1>2, <1>3
       DEF UserActs, TryUnlock, Respond, GreeterReceives, ConnectWorker, Ping, PromptInternal,
           StartFailedDelay, ReplyError, ReplyFailure, ReplySuccess, ReplyUnavailable, vars

(* A success that is handled is one that PAM has consented to.             *)
LEMMA SuccessIsGranted ==
  ASSUME IInv, ReplySuccess
  PROVE  worker.granted
  <1>1. Queue # <<>> /\ Head(Queue) = "Success" /\ Queue \in Seq(Messages)
    BY TypesOfState DEF ReplySuccess, Receives, Queue
  <1>2. 1 \in DOMAIN Queue /\ Queue[1] = "Success"
    BY <1>1, HeadTailProperties, EmptySeq, LenProperties
  <1>3. QED
    BY <1>2 DEF IInv, PamUnlocks, SuccessComing

(* A worker that has ended does nothing any more.                          *)
LEMMA DeadStaysDead ==
  ASSUME IInv, [Next]_vars, worker.phase = "dead"
  PROVE  worker'.phase = "dead"
  <1>1. worker \in Workers
    BY TypesOfState
  <1>2. CASE Cancel
    BY <1>1, <1>2 DEF Cancel, Workers
  <1>3. CASE UNCHANGED worker
    BY <1>3
  <1>4. ~WorkerActs /\ ~WorkerDies
    BY DEF WorkerActs, WorkerStarts, Authenticate, GetResponse, PamActs, Converse, FailDelay,
           PamDenies, PamGrants, WorkerDies
  <1>5. QED
    BY <1>2, <1>3, <1>4
       DEF Next, UserActs, TryUnlock, Respond, GreeterReceives, ConnectWorker, Ping,
           PromptInternal, StartFailedDelay, ReplyError, ReplyFailure, ReplySuccess,
           ReplyUnavailable, DelayEnds, vars

(* Nobody but tryUnlock() makes a call.                                    *)
LEMMA OnlyTryUnlockCalls ==
  ASSUME IInv,
         \/ Respond \/ Cancel \/ GreeterReceives \/ DelayEnds \/ WorkerActs \/ WorkerDies
         \/ UNCHANGED vars
  PROVE  auth'.watchers \in {auth.watchers, auth.watchers - 1}
  <1>1. auth \in Auths /\ auth.watchers \in Nat
    BY TypesOfState
  <1>2. CASE UNCHANGED auth
    BY <1>1, <1>2
  <1>3. CASE Respond \/ Cancel
    BY <1>1, <1>3 DEF Respond, Cancel, Auths
  <1>4. CASE ConnectWorker \/ Ping
    BY <1>1, <1>4 DEF ConnectWorker, Ping, Auths
  <1>5. CASE PromptInternal \/ StartFailedDelay \/ DelayEnds
    <2>1. \/ auth' = [auth EXCEPT !.busy = FALSE, !.pendingPrompt = TRUE]
          \/ auth' = [auth EXCEPT !.inPasswordDelay = TRUE, !.timers = @ + 1]
          \/ auth' = [auth EXCEPT !.inPasswordDelay = FALSE, !.timers = @ - 1]
      BY <1>5, Zenon DEF PromptInternal, StartFailedDelay, DelayEnds
    <2>2. auth'.watchers = auth.watchers
      BY <1>1, <2>1 DEF Auths
    <2>3. QED
      BY <1>1, <2>2
  <1>6. CASE ReplyError \/ ReplyFailure \/ ReplySuccess \/ ReplyUnavailable
    <2>1. auth'.watchers = auth.watchers - 1
      BY <1>1, <1>6
         DEF ReplyError, ReplyFailure, ReplySuccess, ReplyUnavailable, Answered, Auths
    <2>2. QED
      BY <1>1, <2>1
  <1>7. CASE WorkerActs \/ WorkerDies \/ UNCHANGED vars
    <2>1. UNCHANGED auth
      BY <1>7 DEF WorkerActs, WorkerStarts, Authenticate, GetResponse, PamActs, Converse,
                  FailDelay, PamDenies, PamGrants, WorkerDies, vars
    <2>2. QED
      BY <1>2, <2>1
  <1>8. QED
    BY <1>2, <1>3, <1>4, <1>5, <1>6, <1>7 DEF GreeterReceives
=============================================================================
