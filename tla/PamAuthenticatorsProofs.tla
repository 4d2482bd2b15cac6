---------------------- MODULE PamAuthenticatorsProofs -----------------------
(***************************************************************************)
(* Proofs about PamAuthenticators, for every set of authenticators that    *)
(* has the password and the fingerprint.  What is proved of one            *)
(* PamAuthenticator is used for each of the two that the greeter has.      *)
(***************************************************************************)
EXTENDS PamAuthenticators, TLAPS

ActiveProofs == INSTANCE PamAuthenticatorProofs
                  WITH auth <- activeAuth, worker <- activeWorker, wire <- activeWire
ReaderProofs == INSTANCE PamAuthenticatorProofs
                  WITH auth <- readerAuth, worker <- readerWorker, wire <- readerWire

-----------------------------------------------------------------------------
(* The interactive authenticator.                                          *)

(* What the model has for a step of the interactive authenticator is one in*)
(* the proofs about a PamAuthenticator, too.                               *)
LEMMA ActiveSteps ==
  /\ Active!UserActs => ActiveProofs!UserActs
  /\ Active!GreeterReceives => ActiveProofs!GreeterReceives
  /\ Active!DelayEnds => ActiveProofs!DelayEnds
  /\ Active!WorkerActs => ActiveProofs!WorkerActs
  /\ Active!WorkerDies => ActiveProofs!WorkerDies
  /\ Active!Next => ActiveProofs!Next
  /\ Active!Respond => ActiveProofs!Respond
  /\ Active!Cancel => ActiveProofs!Cancel
  /\ Active!ReplySuccess => ActiveProofs!ReplySuccess
  <1>1. Active!TryUnlock => ActiveProofs!TryUnlock
    BY DEF Active!TryUnlock, Active!CanAuthenticate, Active!Sent, ActiveProofs!TryUnlock,
           ActiveProofs!CanAuthenticate, ActiveProofs!Sent
  <1>2. Active!Respond => ActiveProofs!Respond
    BY DEF Active!Respond, ActiveProofs!Respond
  <1>3. Active!Cancel => ActiveProofs!Cancel
    BY DEF Active!Cancel, ActiveProofs!Cancel
  <1>4. Active!ConnectWorker => ActiveProofs!ConnectWorker
    BY DEF Active!ConnectWorker, Active!Receives, ActiveProofs!ConnectWorker,
           ActiveProofs!Receives
  <1>5. Active!Ping => ActiveProofs!Ping
    BY DEF Active!Ping, Active!Receives, ActiveProofs!Ping, ActiveProofs!Receives
  <1>6. Active!PromptInternal => ActiveProofs!PromptInternal
    BY DEF Active!PromptInternal, ActiveProofs!PromptInternal
  <1>7. Active!StartFailedDelay => ActiveProofs!StartFailedDelay
    BY DEF Active!StartFailedDelay, Active!Receives, ActiveProofs!StartFailedDelay,
           ActiveProofs!Receives
  <1>8. Active!ReplyError => ActiveProofs!ReplyError
    BY DEF Active!ReplyError, Active!Receives, Active!Answered, ActiveProofs!ReplyError,
           ActiveProofs!Receives, ActiveProofs!Answered
  <1>9. Active!ReplyFailure => ActiveProofs!ReplyFailure
    BY DEF Active!ReplyFailure, Active!Receives, Active!Answered, ActiveProofs!ReplyFailure,
           ActiveProofs!Receives, ActiveProofs!Answered
  <1>10. Active!ReplySuccess => ActiveProofs!ReplySuccess
    BY DEF Active!ReplySuccess, Active!Receives, Active!Answered, ActiveProofs!ReplySuccess,
           ActiveProofs!Receives, ActiveProofs!Answered
  <1>11. Active!ReplyUnavailable => ActiveProofs!ReplyUnavailable
    BY DEF Active!ReplyUnavailable, Active!Receives, Active!Answered,
           ActiveProofs!ReplyUnavailable, ActiveProofs!Receives, ActiveProofs!Answered
  <1>12. Active!DelayEnds => ActiveProofs!DelayEnds
    BY DEF Active!DelayEnds, ActiveProofs!DelayEnds
  <1>13. Active!WorkerStarts => ActiveProofs!WorkerStarts
    BY DEF Active!WorkerStarts, Active!Becomes, Active!Sent, ActiveProofs!WorkerStarts,
           ActiveProofs!Becomes, ActiveProofs!Sent
  <1>14. Active!Authenticate => ActiveProofs!Authenticate
    BY DEF Active!Authenticate, Active!Becomes, Active!Sent, ActiveProofs!Authenticate,
           ActiveProofs!Becomes, ActiveProofs!Sent
  <1>15. Active!Converse => ActiveProofs!Converse
    BY DEF Active!Converse, Active!Becomes, Active!Sent, ActiveProofs!Converse,
           ActiveProofs!Becomes, ActiveProofs!Sent
  <1>16. Active!GetResponse => ActiveProofs!GetResponse
    BY DEF Active!GetResponse, Active!Becomes, ActiveProofs!GetResponse,
           ActiveProofs!Becomes
  <1>17. Active!FailDelay => ActiveProofs!FailDelay
    BY DEF Active!FailDelay, Active!Becomes, Active!Sent, Active!Count, Active!Cardinality,
           ActiveProofs!FailDelay, ActiveProofs!Becomes, ActiveProofs!Sent,
           ActiveProofs!Count, ActiveProofs!Cardinality
  <1>18. Active!PamDenies => ActiveProofs!PamDenies
    BY DEF Active!PamDenies, Active!Becomes, Active!Sent, ActiveProofs!PamDenies,
           ActiveProofs!Becomes, ActiveProofs!Sent
  <1>19. Active!PamGrants => ActiveProofs!PamGrants
    BY DEF Active!PamGrants, Active!Sent, ActiveProofs!PamGrants, ActiveProofs!Sent
  <1>20. Active!WorkerDies => ActiveProofs!WorkerDies
    BY DEF Active!WorkerDies, Active!Becomes, Active!InCall, ActiveProofs!WorkerDies,
           ActiveProofs!Becomes, ActiveProofs!InCall
  <1>21. Active!UserActs => ActiveProofs!UserActs
    BY <1>1, <1>2, <1>3
       DEF Active!UserActs, ActiveProofs!UserActs
  <1>22. Active!GreeterReceives => ActiveProofs!GreeterReceives
    BY <1>4, <1>5, <1>6, <1>7, <1>8, <1>9, <1>10, <1>11
       DEF Active!GreeterReceives, ActiveProofs!GreeterReceives
  <1>23. Active!WorkerActs => ActiveProofs!WorkerActs
    BY <1>13, <1>14, <1>15, <1>16, <1>17, <1>18, <1>19
       DEF Active!WorkerActs, Active!PamActs, ActiveProofs!WorkerActs, ActiveProofs!PamActs
  <1>24. Active!Next => ActiveProofs!Next
    BY <1>21, <1>22, <1>12, <1>23, <1>20
       DEF Active!Next, ActiveProofs!Next
  <1>25. QED
    BY <1>21, <1>22, <1>12, <1>23, <1>20, <1>24, <1>2, <1>3, <1>10

(* The type of the interactive authenticator, as the proofs state it.      *)
LEMMA ActiveTypes ==
  /\ ActiveProofs!IInv => Active!TypeOK /\ activeAuth.watchers \in Nat
  /\ Active!NewWorker \in ActiveProofs!Workers
  /\ [Active!NewWorker EXCEPT !.phase = "dead"] \in ActiveProofs!Workers
  <1>1. ActiveProofs!IInv => Active!TypeOK
    BY DEF Active!TypeOK, Active!Auths, Active!Workers, Active!Wires, Active!Messages,
           Active!Phases, Active!Results, ActiveProofs!TypeOK, ActiveProofs!Auths,
           ActiveProofs!Workers, ActiveProofs!Wires, ActiveProofs!Messages,
           ActiveProofs!Phases, ActiveProofs!Results, ActiveProofs!IInv
  <1>2. ActiveProofs!IInv => activeAuth.watchers \in Nat
    BY ActiveProofs!TypesOfState, AuthenticatorAssumption
  <1>3. /\ Active!NewWorker \in ActiveProofs!Workers
        /\ [Active!NewWorker EXCEPT !.phase = "dead"] \in ActiveProofs!Workers
    BY DEF Active!NewWorker, ActiveProofs!Workers, ActiveProofs!Phases
  <1>4. QED
    BY <1>1, <1>2, <1>3

(* A step of the interactive authenticator, or none.                       *)
LEMMA ActivePreserves ==
  ASSUME ActiveProofs!IInv, Active!Next \/ UNCHANGED active
  PROVE  /\ ActiveProofs!IInv'
         /\ activeWorker.phase = "dead" => activeWorker'.phase = "dead"
  <1>1. [ActiveProofs!Next]_(ActiveProofs!vars)
    BY ActiveSteps DEF active, ActiveProofs!vars
  <1>2. QED
    BY <1>1, ActiveProofs!NextPreserves, ActiveProofs!DeadStaysDead, AuthenticatorAssumption

(* One that has just been made, with its worker or without one.            *)
LEMMA ActiveMade ==
  /\ /\ activeAuth = Active!Constructed /\ activeWire = Active!Silence
     /\ activeWorker = [Active!NewWorker EXCEPT !.phase = "dead"]
     => ActiveProofs!IInv
  /\ /\ activeAuth' = Active!Constructed /\ activeWire' = Active!Silence
     /\ activeWorker' \in {Active!NewWorker, [Active!NewWorker EXCEPT !.phase = "dead"]}
     => ActiveProofs!IInv' /\ ~activeWorker'.granted
  <1> DEFINE dead == [Active!NewWorker EXCEPT !.phase = "dead"]
  <1>1. /\ Active!NewWorker.phase = "starting" /\ dead.phase = "dead"
        /\ ~Active!NewWorker.granted /\ ~dead.granted
    BY DEF Active!NewWorker
  <1>2. Active!Constructed = ActiveProofs!Constructed /\ Active!Silence = ActiveProofs!Silence
    BY DEF Active!Constructed, Active!Silence, ActiveProofs!Constructed,
           ActiveProofs!Silence
  <1>3. ASSUME activeAuth = Active!Constructed, activeWire = Active!Silence, activeWorker = dead
        PROVE  ActiveProofs!IInv
    <2>1. ActiveProofs!Made /\ activeWorker \in ActiveProofs!Workers
      BY <1>1, <1>2, <1>3, ActiveTypes DEF ActiveProofs!Made
    <2>2. QED
      BY <2>1, ActiveProofs!MadeEstablishes, AuthenticatorAssumption
  <1>4. ASSUME activeAuth' = Active!Constructed, activeWire' = Active!Silence,
               activeWorker' \in {Active!NewWorker, dead}
        PROVE  ActiveProofs!IInv' /\ ~activeWorker'.granted
    <2>1. ActiveProofs!Made' /\ activeWorker' \in ActiveProofs!Workers
      BY <1>1, <1>2, <1>4, ActiveTypes DEF ActiveProofs!Made
    <2>2. ActiveProofs!IInv'
      BY <2>1, ActiveProofs!MadeAnew, AuthenticatorAssumption
    <2>3. QED
      BY <1>1, <1>4, <2>2
  <1>5. QED
    BY <1>3, <1>4

(* Nothing the interactive authenticator does or receives gives its worker *)
(* PAM's consent, and a success it handles had that consent.               *)
LEMMA ActiveConsent ==
  ASSUME ActiveProofs!IInv
  PROVE  /\ Active!UserActs \/ Active!GreeterReceives \/ UNCHANGED active
              => activeWorker'.granted = activeWorker.granted
         /\ Active!ReplySuccess => activeWorker.granted
  <1>1. Active!UserActs \/ Active!GreeterReceives \/ UNCHANGED active
          => ActiveProofs!UserActs \/ ActiveProofs!GreeterReceives \/ UNCHANGED ActiveProofs!vars
    BY ActiveSteps DEF active, ActiveProofs!vars
  <1>2. Active!ReplySuccess => ActiveProofs!ReplySuccess
    BY ActiveSteps
  <1>3. QED
    BY <1>1, <1>2, ActiveProofs!OnlyPamGrants, ActiveProofs!SuccessIsGranted,
       AuthenticatorAssumption

(* Nobody but tryUnlock() makes a call of the interactive authenticator.   *)
LEMMA ActiveCalls ==
  ASSUME ActiveProofs!IInv,
         \/ Active!Respond \/ Active!Cancel \/ Active!GreeterReceives
         \/ Active!DelayEnds \/ Active!WorkerActs \/ Active!WorkerDies
         \/ UNCHANGED active
  PROVE  activeAuth'.watchers \in {activeAuth.watchers, activeAuth.watchers - 1}
  <1>1. \/ ActiveProofs!Respond \/ ActiveProofs!Cancel \/ ActiveProofs!GreeterReceives
        \/ ActiveProofs!DelayEnds \/ ActiveProofs!WorkerActs \/ ActiveProofs!WorkerDies
        \/ UNCHANGED ActiveProofs!vars
    BY ActiveSteps DEF active, ActiveProofs!vars
  <1>2. QED
    BY <1>1, ActiveProofs!OnlyTryUnlockCalls, AuthenticatorAssumption

-----------------------------------------------------------------------------
(* The implicit fingerprint reader.                                        *)

(* The same of the reader's steps.                                         *)
LEMMA ReaderSteps ==
  /\ Reader!UserActs => ReaderProofs!UserActs
  /\ Reader!GreeterReceives => ReaderProofs!GreeterReceives
  /\ Reader!DelayEnds => ReaderProofs!DelayEnds
  /\ Reader!WorkerActs => ReaderProofs!WorkerActs
  /\ Reader!WorkerDies => ReaderProofs!WorkerDies
  /\ Reader!Next => ReaderProofs!Next
  /\ Reader!Respond => ReaderProofs!Respond
  /\ Reader!Cancel => ReaderProofs!Cancel
  /\ Reader!ReplySuccess => ReaderProofs!ReplySuccess
  <1>1. Reader!TryUnlock => ReaderProofs!TryUnlock
    BY DEF Reader!TryUnlock, Reader!CanAuthenticate, Reader!Sent, ReaderProofs!TryUnlock,
           ReaderProofs!CanAuthenticate, ReaderProofs!Sent
  <1>2. Reader!Respond => ReaderProofs!Respond
    BY DEF Reader!Respond, ReaderProofs!Respond
  <1>3. Reader!Cancel => ReaderProofs!Cancel
    BY DEF Reader!Cancel, ReaderProofs!Cancel
  <1>4. Reader!ConnectWorker => ReaderProofs!ConnectWorker
    BY DEF Reader!ConnectWorker, Reader!Receives, ReaderProofs!ConnectWorker,
           ReaderProofs!Receives
  <1>5. Reader!Ping => ReaderProofs!Ping
    BY DEF Reader!Ping, Reader!Receives, ReaderProofs!Ping, ReaderProofs!Receives
  <1>6. Reader!PromptInternal => ReaderProofs!PromptInternal
    BY DEF Reader!PromptInternal, ReaderProofs!PromptInternal
  <1>7. Reader!StartFailedDelay => ReaderProofs!StartFailedDelay
    BY DEF Reader!StartFailedDelay, Reader!Receives, ReaderProofs!StartFailedDelay,
           ReaderProofs!Receives
  <1>8. Reader!ReplyError => ReaderProofs!ReplyError
    BY DEF Reader!ReplyError, Reader!Receives, Reader!Answered, ReaderProofs!ReplyError,
           ReaderProofs!Receives, ReaderProofs!Answered
  <1>9. Reader!ReplyFailure => ReaderProofs!ReplyFailure
    BY DEF Reader!ReplyFailure, Reader!Receives, Reader!Answered, ReaderProofs!ReplyFailure,
           ReaderProofs!Receives, ReaderProofs!Answered
  <1>10. Reader!ReplySuccess => ReaderProofs!ReplySuccess
    BY DEF Reader!ReplySuccess, Reader!Receives, Reader!Answered, ReaderProofs!ReplySuccess,
           ReaderProofs!Receives, ReaderProofs!Answered
  <1>11. Reader!ReplyUnavailable => ReaderProofs!ReplyUnavailable
    BY DEF Reader!ReplyUnavailable, Reader!Receives, Reader!Answered,
           ReaderProofs!ReplyUnavailable, ReaderProofs!Receives, ReaderProofs!Answered
  <1>12. Reader!DelayEnds => ReaderProofs!DelayEnds
    BY DEF Reader!DelayEnds, ReaderProofs!DelayEnds
  <1>13. Reader!WorkerStarts => ReaderProofs!WorkerStarts
    BY DEF Reader!WorkerStarts, Reader!Becomes, Reader!Sent, ReaderProofs!WorkerStarts,
           ReaderProofs!Becomes, ReaderProofs!Sent
  <1>14. Reader!Authenticate => ReaderProofs!Authenticate
    BY DEF Reader!Authenticate, Reader!Becomes, Reader!Sent, ReaderProofs!Authenticate,
           ReaderProofs!Becomes, ReaderProofs!Sent
  <1>15. Reader!Converse => ReaderProofs!Converse
    BY DEF Reader!Converse, Reader!Becomes, Reader!Sent, ReaderProofs!Converse,
           ReaderProofs!Becomes, ReaderProofs!Sent
  <1>16. Reader!GetResponse => ReaderProofs!GetResponse
    BY DEF Reader!GetResponse, Reader!Becomes, ReaderProofs!GetResponse,
           ReaderProofs!Becomes
  <1>17. Reader!FailDelay => ReaderProofs!FailDelay
    BY DEF Reader!FailDelay, Reader!Becomes, Reader!Sent, Reader!Count, Reader!Cardinality,
           ReaderProofs!FailDelay, ReaderProofs!Becomes, ReaderProofs!Sent,
           ReaderProofs!Count, ReaderProofs!Cardinality
  <1>18. Reader!PamDenies => ReaderProofs!PamDenies
    BY DEF Reader!PamDenies, Reader!Becomes, Reader!Sent, ReaderProofs!PamDenies,
           ReaderProofs!Becomes, ReaderProofs!Sent
  <1>19. Reader!PamGrants => ReaderProofs!PamGrants
    BY DEF Reader!PamGrants, Reader!Sent, ReaderProofs!PamGrants, ReaderProofs!Sent
  <1>20. Reader!WorkerDies => ReaderProofs!WorkerDies
    BY DEF Reader!WorkerDies, Reader!Becomes, Reader!InCall, ReaderProofs!WorkerDies,
           ReaderProofs!Becomes, ReaderProofs!InCall
  <1>21. Reader!UserActs => ReaderProofs!UserActs
    BY <1>1, <1>2, <1>3
       DEF Reader!UserActs, ReaderProofs!UserActs
  <1>22. Reader!GreeterReceives => ReaderProofs!GreeterReceives
    BY <1>4, <1>5, <1>6, <1>7, <1>8, <1>9, <1>10, <1>11
       DEF Reader!GreeterReceives, ReaderProofs!GreeterReceives
  <1>23. Reader!WorkerActs => ReaderProofs!WorkerActs
    BY <1>13, <1>14, <1>15, <1>16, <1>17, <1>18, <1>19
       DEF Reader!WorkerActs, Reader!PamActs, ReaderProofs!WorkerActs, ReaderProofs!PamActs
  <1>24. Reader!Next => ReaderProofs!Next
    BY <1>21, <1>22, <1>12, <1>23, <1>20
       DEF Reader!Next, ReaderProofs!Next
  <1>25. QED
    BY <1>21, <1>22, <1>12, <1>23, <1>20, <1>24, <1>2, <1>3, <1>10

(* The type of the reader, as the proofs state it.                         *)
LEMMA ReaderTypes ==
  /\ ReaderProofs!IInv => Reader!TypeOK /\ readerAuth.watchers \in Nat
  /\ Reader!NewWorker \in ReaderProofs!Workers
  /\ [Reader!NewWorker EXCEPT !.phase = "dead"] \in ReaderProofs!Workers
  <1>1. ReaderProofs!IInv => Reader!TypeOK
    BY DEF Reader!TypeOK, Reader!Auths, Reader!Workers, Reader!Wires, Reader!Messages,
           Reader!Phases, Reader!Results, ReaderProofs!TypeOK, ReaderProofs!Auths,
           ReaderProofs!Workers, ReaderProofs!Wires, ReaderProofs!Messages,
           ReaderProofs!Phases, ReaderProofs!Results, ReaderProofs!IInv
  <1>2. ReaderProofs!IInv => readerAuth.watchers \in Nat
    BY ReaderProofs!TypesOfState, AuthenticatorAssumption
  <1>3. /\ Reader!NewWorker \in ReaderProofs!Workers
        /\ [Reader!NewWorker EXCEPT !.phase = "dead"] \in ReaderProofs!Workers
    BY DEF Reader!NewWorker, ReaderProofs!Workers, ReaderProofs!Phases
  <1>4. QED
    BY <1>1, <1>2, <1>3

(* A step of the reader, or none.                                          *)
LEMMA ReaderPreserves ==
  ASSUME ReaderProofs!IInv, Reader!Next \/ UNCHANGED reader
  PROVE  /\ ReaderProofs!IInv'
         /\ readerWorker.phase = "dead" => readerWorker'.phase = "dead"
  <1>1. [ReaderProofs!Next]_(ReaderProofs!vars)
    BY ReaderSteps DEF reader, ReaderProofs!vars
  <1>2. QED
    BY <1>1, ReaderProofs!NextPreserves, ReaderProofs!DeadStaysDead, AuthenticatorAssumption

(* One that has just been made, with its worker or without one.            *)
LEMMA ReaderMade ==
  /\ /\ readerAuth = Reader!Constructed /\ readerWire = Reader!Silence
     /\ readerWorker = [Reader!NewWorker EXCEPT !.phase = "dead"]
     => ReaderProofs!IInv
  /\ /\ readerAuth' = Reader!Constructed /\ readerWire' = Reader!Silence
     /\ readerWorker' \in {Reader!NewWorker, [Reader!NewWorker EXCEPT !.phase = "dead"]}
     => ReaderProofs!IInv' /\ ~readerWorker'.granted
  <1> DEFINE dead == [Reader!NewWorker EXCEPT !.phase = "dead"]
  <1>1. /\ Reader!NewWorker.phase = "starting" /\ dead.phase = "dead"
        /\ ~Reader!NewWorker.granted /\ ~dead.granted
    BY DEF Reader!NewWorker
  <1>2. Reader!Constructed = ReaderProofs!Constructed /\ Reader!Silence = ReaderProofs!Silence
    BY DEF Reader!Constructed, Reader!Silence, ReaderProofs!Constructed,
           ReaderProofs!Silence
  <1>3. ASSUME readerAuth = Reader!Constructed, readerWire = Reader!Silence, readerWorker = dead
        PROVE  ReaderProofs!IInv
    <2>1. ReaderProofs!Made /\ readerWorker \in ReaderProofs!Workers
      BY <1>1, <1>2, <1>3, ReaderTypes DEF ReaderProofs!Made
    <2>2. QED
      BY <2>1, ReaderProofs!MadeEstablishes, AuthenticatorAssumption
  <1>4. ASSUME readerAuth' = Reader!Constructed, readerWire' = Reader!Silence,
               readerWorker' \in {Reader!NewWorker, dead}
        PROVE  ReaderProofs!IInv' /\ ~readerWorker'.granted
    <2>1. ReaderProofs!Made' /\ readerWorker' \in ReaderProofs!Workers
      BY <1>1, <1>2, <1>4, ReaderTypes DEF ReaderProofs!Made
    <2>2. ReaderProofs!IInv'
      BY <2>1, ReaderProofs!MadeAnew, AuthenticatorAssumption
    <2>3. QED
      BY <1>1, <1>4, <2>2
  <1>5. QED
    BY <1>3, <1>4

(* The same of the reader and of its worker.                               *)
LEMMA ReaderConsent ==
  ASSUME ReaderProofs!IInv
  PROVE  /\ Reader!UserActs \/ Reader!GreeterReceives \/ UNCHANGED reader
              => readerWorker'.granted = readerWorker.granted
         /\ Reader!ReplySuccess => readerWorker.granted
  <1>1. Reader!UserActs \/ Reader!GreeterReceives \/ UNCHANGED reader
          => ReaderProofs!UserActs \/ ReaderProofs!GreeterReceives \/ UNCHANGED ReaderProofs!vars
    BY ReaderSteps DEF reader, ReaderProofs!vars
  <1>2. Reader!ReplySuccess => ReaderProofs!ReplySuccess
    BY ReaderSteps
  <1>3. QED
    BY <1>1, <1>2, ReaderProofs!OnlyPamGrants, ReaderProofs!SuccessIsGranted,
       AuthenticatorAssumption

-----------------------------------------------------------------------------
(* The invariant.                                                          *)

(* TypeOK, but for the two authenticators.                                 *)
OwnTypes ==
  /\ authenticator \in Types /\ saved \in Types /\ defunct \subseteq Types \ {Regular}
  /\ state \in {"Idle", "Authenticating"}
  /\ graceLocked \in BOOLEAN /\ locked \in BOOLEAN
  /\ enabled \subseteq Types /\ Regular \in enabled
  /\ greeter \in {"running", "unlocked", "crashed"} /\ consent \in BOOLEAN
  /\ present \subseteq {"active", "reader"}

(* The consent that a worker got outlives it, and is the greeter's.        *)
ConsentIsKept == activeWorker.granted \/ readerWorker.granted => consent

(* The inductive invariant.                                                *)
IInv ==
  /\ OwnTypes
  /\ ActiveProofs!IInv /\ ReaderProofs!IInv
  /\ ConsentIsKept
  /\ OnlyConsentUnlocks
  /\ OneUsesTheDevice

(* A step that makes no authenticator and destroys none.                   *)
LEMMA WithinPreserves ==
  ASSUME IInv, Active!Next \/ UNCHANGED active, Reader!Next \/ UNCHANGED reader,
         UNCHANGED <<choice, enabled>>,
         state' \in {"Idle", "Authenticating"}, graceLocked' \in BOOLEAN,
         locked' \in BOOLEAN, saved' \in Types, defunct' \subseteq Types \ {Regular},
         greeter' \in {"running", "unlocked", "crashed"}, consent' \in BOOLEAN,
         activeWorker'.granted \/ readerWorker'.granted => consent',
         ~locked' \/ greeter' = "unlocked" => consent'
  PROVE  IInv'
  <1>1. UNCHANGED <<authenticator, present, enabled>>
    BY DEF choice
  <1>2. OwnTypes'
    BY <1>1 DEF IInv, OwnTypes
  <1>3. ActiveProofs!IInv'
    BY ActivePreserves DEF IInv
  <1>4. ReaderProofs!IInv' /\ (readerWorker.phase = "dead" => readerWorker'.phase = "dead")
    BY ReaderPreserves DEF IInv
  <1>5. ConsentIsKept' /\ OnlyConsentUnlocks'
    BY DEF ConsentIsKept, OnlyConsentUnlocks
  <1>6. OneUsesTheDevice'
    BY <1>1, <1>4 DEF IInv, OneUsesTheDevice
  <1>7. QED
    BY <1>2, <1>3, <1>4, <1>5, <1>6 DEF IInv

(* What the user does with the authenticators that there are.              *)
LEMMA UserPreserves ==
  ASSUME IInv,
         \/ RoomForCalls /\ StartAuthenticating
         \/ StopAuthenticating
         \/ ~RespondsAtOnce /\ RespondActive
         \/ CancelActive
  PROVE  IInv'
  <1>1. /\ Active!UserActs \/ UNCHANGED active
        /\ Reader!UserActs \/ UNCHANGED reader
    BY DEF RoomForCalls, StartAuthenticating, TryActive, TryReader, StopAuthenticating,
           RespondActive, CancelActive, Active!UserActs, Reader!UserActs
  <1>2. /\ activeWorker'.granted = activeWorker.granted
        /\ readerWorker'.granted = readerWorker.granted
    BY <1>1, ActiveConsent, ReaderConsent DEF IInv
  <1>3. /\ Active!Next \/ UNCHANGED active
        /\ Reader!Next \/ UNCHANGED reader
    BY <1>1 DEF Active!Next, Reader!Next
  <1>4. /\ state' \in {"Idle", "Authenticating"}
        /\ UNCHANGED <<choice, graceLocked, lock, model, greeter, consent>>
    BY DEF IInv, OwnTypes, StartAuthenticating, StopAuthenticating, RespondActive, CancelActive
  <1>5. UNCHANGED <<enabled, graceLocked, locked, saved, defunct, greeter, consent>>
    BY <1>4 DEF lock, model
  <1>6. /\ graceLocked \in BOOLEAN /\ locked \in BOOLEAN /\ saved \in Types
        /\ defunct \subseteq Types \ {Regular} /\ consent \in BOOLEAN
        /\ greeter \in {"running", "unlocked", "crashed"}
    BY DEF IInv, OwnTypes
  <1>7. /\ activeWorker'.granted \/ readerWorker'.granted => consent'
        /\ ~locked' \/ greeter' = "unlocked" => consent'
    BY <1>2, <1>5 DEF IInv, ConsentIsKept, OnlyConsentUnlocks
  <1>8. QED
    BY <1>3, <1>4, <1>5, <1>6, <1>7, WithinPreserves

(* The greeter quits, or its grace time ends, or nothing happens.          *)
LEMMA GreeterPreserves ==
  ASSUME IInv, Quit \/ GraceLockEnded \/ UNCHANGED vars
  PROVE  IInv'
  <1>1. /\ UNCHANGED <<active, reader, choice, state, lock, model, consent>>
        /\ \/ ~locked /\ greeter' = "unlocked" /\ UNCHANGED graceLocked
           \/ graceLocked' = FALSE /\ UNCHANGED greeter
           \/ UNCHANGED <<graceLocked, greeter>>
    BY DEF Quit, GraceLockEnded, vars
  <1>2. /\ UNCHANGED <<activeWorker, readerWorker>>
        /\ UNCHANGED <<enabled, locked, saved, defunct, consent, state>>
    BY <1>1 DEF active, reader, lock, model
  <1>3. /\ state \in {"Idle", "Authenticating"}
        /\ graceLocked \in BOOLEAN /\ locked \in BOOLEAN /\ saved \in Types
        /\ defunct \subseteq Types \ {Regular} /\ consent \in BOOLEAN
        /\ greeter \in {"running", "unlocked", "crashed"}
    BY DEF IInv, OwnTypes
  <1>4. /\ graceLocked' \in BOOLEAN
        /\ greeter' \in {"running", "unlocked", "crashed"}
    BY <1>1, <1>3
  <1>5. /\ activeWorker'.granted \/ readerWorker'.granted => consent'
        /\ ~locked' \/ greeter' = "unlocked" => consent'
    BY <1>1, <1>2 DEF IInv, ConsentIsKept, OnlyConsentUnlocks
  <1>6. QED
    BY <1>1, <1>2, <1>3, <1>4, <1>5, WithinPreserves

(* What the interactive authenticator receives, and its worker does.       *)
LEMMA ActiveActsPreserve ==
  ASSUME IInv, ActiveActs
  PROVE  IInv'
  <1>1. /\ state \in {"Idle", "Authenticating"}
        /\ graceLocked \in BOOLEAN /\ locked \in BOOLEAN /\ saved \in Types
        /\ defunct \subseteq Types \ {Regular} /\ consent \in BOOLEAN
        /\ greeter \in {"running", "unlocked", "crashed"} /\ authenticator \in Types
    BY DEF IInv, OwnTypes
  <1>2. CASE ActiveSucceeds
    <2>1. /\ Active!ReplySuccess /\ UNCHANGED <<choice, state, graceLocked, greeter, consent>>
          /\ locked' = FALSE /\ saved' = authenticator /\ UNCHANGED <<enabled, defunct>>
          /\ UNCHANGED reader
      BY <1>2 DEF ActiveSucceeds, Succeeded, model
    <2>2. Active!GreeterReceives /\ Active!Next
      BY <2>1 DEF Active!GreeterReceives, Active!Next
    <2>3. activeWorker'.granted = activeWorker.granted /\ activeWorker.granted
      BY <2>1, <2>2, ActiveConsent DEF IInv
    <2>4. UNCHANGED readerWorker
      BY <2>1 DEF reader
    <2>5. consent'
      BY <2>1, <2>3 DEF IInv, ConsentIsKept
    <2>6. QED
      BY <1>1, <2>1, <2>2, <2>5, WithinPreserves
  <1>3. CASE ActiveFails \/ ActiveUnavailable
    <2>1. /\ Active!ReplyFailure \/ Active!ReplyError \/ Active!ReplyUnavailable
          /\ state' \in {"Idle", "Authenticating"}
          /\ UNCHANGED <<choice, graceLocked, lock, greeter, enabled, consent, reader>>
          /\ MarkDefunct
      BY <1>1, <1>3 DEF ActiveFails, ActiveUnavailable
    <2>2. Active!GreeterReceives /\ Active!Next
      BY <2>1 DEF Active!GreeterReceives, Active!Next
    <2>3. activeWorker'.granted = activeWorker.granted /\ UNCHANGED readerWorker
      BY <2>1, <2>2, ActiveConsent DEF IInv, reader
    <2>4. defunct' \subseteq Types \ {Regular}
      BY <1>1, <2>1 DEF MarkDefunct
    <2>5. UNCHANGED <<locked, saved>>
      BY <2>1 DEF lock
    <2>6. /\ activeWorker'.granted \/ readerWorker'.granted => consent'
          /\ ~locked' \/ greeter' = "unlocked" => consent'
      BY <2>1, <2>3, <2>5 DEF IInv, ConsentIsKept, OnlyConsentUnlocks
    <2>7. QED
      BY <1>1, <2>1, <2>2, <2>4, <2>5, <2>6, WithinPreserves
  <1>4. CASE ActiveStep
    <2>1. /\ UNCHANGED <<choice, state, graceLocked, lock, model, greeter, reader>>
          /\ consent' = (consent \/ activeWorker'.granted)
      BY <1>4 DEF ActiveStep
    <2>2. Active!Next
      BY <1>4 DEF ActiveStep, Active!GreeterReceives, Active!Next
    <2>3. UNCHANGED <<enabled, defunct, locked, saved, readerWorker>>
      BY <2>1 DEF lock, model, reader
    <2>4. /\ activeWorker'.granted \/ readerWorker'.granted => consent'
          /\ ~locked' \/ greeter' = "unlocked" => consent'
      BY <2>1, <2>3 DEF IInv, ConsentIsKept, OnlyConsentUnlocks
    <2>5. consent' \in BOOLEAN
      BY <2>1
    <2>6. QED
      BY <1>1, <2>1, <2>2, <2>3, <2>4, <2>5, WithinPreserves
  <1>5. QED
    BY <1>2, <1>3, <1>4 DEF ActiveActs

(* What the reader receives, and its worker does.                          *)
LEMMA ReaderActsPreserve ==
  ASSUME IInv, ReaderActs
  PROVE  IInv'
  <1>1. /\ state \in {"Idle", "Authenticating"}
        /\ graceLocked \in BOOLEAN /\ locked \in BOOLEAN /\ saved \in Types
        /\ defunct \subseteq Types \ {Regular} /\ consent \in BOOLEAN
        /\ greeter \in {"running", "unlocked", "crashed"} /\ authenticator \in Types
    BY DEF IInv, OwnTypes
  <1>2. CASE ReaderSucceeds
    <2>1. /\ Reader!ReplySuccess /\ UNCHANGED <<choice, state, graceLocked, greeter, consent>>
          /\ locked' = FALSE /\ saved' = authenticator /\ UNCHANGED <<enabled, defunct>>
          /\ UNCHANGED active
      BY <1>2 DEF ReaderSucceeds, Succeeded, model
    <2>2. Reader!Next
      BY <2>1 DEF Reader!GreeterReceives, Reader!Next
    <2>3. readerWorker.granted
      BY <2>1, ReaderConsent DEF IInv
    <2>4. consent'
      BY <2>1, <2>3 DEF IInv, ConsentIsKept
    <2>5. QED
      BY <1>1, <2>1, <2>2, <2>4, WithinPreserves
  <1>3. CASE ReaderStep
    <2>1. /\ UNCHANGED <<choice, state, graceLocked, lock, model, greeter, active>>
          /\ consent' = (consent \/ readerWorker'.granted)
      BY <1>3 DEF ReaderStep
    <2>2. Reader!Next
      BY <1>3 DEF ReaderStep, Reader!GreeterReceives, Reader!Next
    <2>3. UNCHANGED <<enabled, defunct, locked, saved, activeWorker>>
      BY <2>1 DEF lock, model, active
    <2>4. /\ activeWorker'.granted \/ readerWorker'.granted => consent'
          /\ ~locked' \/ greeter' = "unlocked" => consent'
      BY <2>1, <2>3 DEF IInv, ConsentIsKept, OnlyConsentUnlocks
    <2>5. consent' \in BOOLEAN
      BY <2>1
    <2>6. QED
      BY <1>1, <2>1, <2>2, <2>3, <2>4, <2>5, WithinPreserves
  <1>4. QED
    BY <1>2, <1>3 DEF ReaderActs

(* Another authenticator is made.  Its consent is not the one it replaces  *)
(* had, which the greeter keeps; and no reader stays beside a fingerprint  *)
(* authenticator.                                                          *)
LEMMA ChangePreserves ==
  ASSUME IInv, NEW type \in Types, OnAuthenticatorChanged(type), RoomForCalls \/ present = {}
  PROVE  IInv'
  <1>1. /\ authenticator' = type /\ NewActive /\ ReaderFor(type)
        /\ graceLocked' = FALSE /\ state' = "Authenticating"
        /\ greeter' \in {"running", "crashed"}
        /\ UNCHANGED <<locked, saved, enabled, defunct, consent>>
    BY DEF OnAuthenticatorChanged, lock, model
  <1>2. ActiveProofs!IInv' /\ ~activeWorker'.granted
    BY <1>1, ActiveMade DEF NewActive
  <1>3. CASE type = Fingerprint
    <2>1. AbsentReader /\ present' = {"active"}
      BY <1>1, <1>3 DEF ReaderFor
    <2>2. /\ ReaderProofs!IInv' /\ ~readerWorker'.granted
          /\ readerWorker'.phase = "dead"
      BY <2>1, ReaderMade DEF AbsentReader, Reader!NewWorker
    <2>3. OwnTypes'
      BY <1>1, <2>1 DEF IInv, OwnTypes
    <2>4. ConsentIsKept' /\ OnlyConsentUnlocks'
      BY <1>1, <1>2, <2>2 DEF IInv, ConsentIsKept, OnlyConsentUnlocks
    <2>5. OneUsesTheDevice'
      BY <2>1, <2>2 DEF OneUsesTheDevice
    <2>6. QED
      BY <1>2, <2>2, <2>3, <2>4, <2>5 DEF IInv
  <1>4. CASE type # Fingerprint
    <2>1. /\ present' = {"active", "reader"}
          /\ \/ "reader" \in present /\ TryReader
             \/ NewReader
      BY <1>1, <1>4 DEF ReaderFor
    <2>2. /\ ReaderProofs!IInv'
          /\ readerWorker'.granted => consent
      <3>1. CASE "reader" \in present /\ TryReader
        <4>1. Reader!UserActs \/ UNCHANGED reader
          BY <3>1 DEF TryReader, RoomForCalls, Reader!UserActs
        <4>2. Reader!Next \/ UNCHANGED reader
          BY <4>1 DEF Reader!Next
        <4>3. ReaderProofs!IInv' /\ readerWorker'.granted = readerWorker.granted
          BY <4>1, <4>2, ReaderPreserves, ReaderConsent DEF IInv
        <4>4. QED
          BY <4>3 DEF IInv, ConsentIsKept
      <3>2. CASE NewReader
        BY <3>2, ReaderMade DEF NewReader
      <3>3. QED
        BY <2>1, <3>1, <3>2
    <2>3. OwnTypes'
      BY <1>1, <2>1 DEF IInv, OwnTypes
    <2>4. ConsentIsKept' /\ OnlyConsentUnlocks'
      BY <1>1, <1>2, <2>2 DEF IInv, ConsentIsKept, OnlyConsentUnlocks
    <2>5. OneUsesTheDevice'
      BY <1>1, <1>4 DEF OneUsesTheDevice
    <2>6. QED
      BY <1>2, <2>2, <2>3, <2>4, <2>5 DEF IInv
  <1>5. QED
    BY <1>3, <1>4

(* A greeter for the next lock, which nobody has consented to unlock.      *)
LEMMA BeginPreserves ==
  ASSUME IInv, Begin
  PROVE  IInv'
  <1>1. ActiveProofs!IInv' /\ ~activeWorker'.granted
    BY ActiveMade DEF Begin
  <1>2. ReaderProofs!IInv' /\ ~readerWorker'.granted
    BY ReaderMade DEF Begin, AbsentReader
  <1>3. OwnTypes'
    BY DEF Begin, IInv, OwnTypes
  <1>4. ConsentIsKept' /\ OnlyConsentUnlocks'
    BY <1>1, <1>2 DEF Begin, ConsentIsKept, OnlyConsentUnlocks
  <1>5. OneUsesTheDevice'
    BY DEF Begin, OneUsesTheDevice
  <1>6. QED
    BY <1>1, <1>2, <1>3, <1>4, <1>5 DEF IInv

-----------------------------------------------------------------------------
(* What is proved of the greeter.                                          *)

(* The invariant holds of every state of every greeter.                    *)
THEOREM Inductive == Spec => []IInv
  <1>1. Init => IInv
    <2> SUFFICES ASSUME Init
                 PROVE  IInv
      OBVIOUS
    <2>2. ActiveProofs!IInv /\ ReaderProofs!IInv
      BY ActiveMade, ReaderMade DEF Init
    <2>3. OwnTypes
      BY TypesAssumption DEF Init, OwnTypes
    <2>4. ConsentIsKept
      BY DEF Init, ConsentIsKept, Active!NewWorker, Reader!NewWorker
    <2>5. OnlyConsentUnlocks /\ OneUsesTheDevice
      BY DEF Init, OnlyConsentUnlocks, OneUsesTheDevice
    <2>6. QED
      BY <2>2, <2>3, <2>4, <2>5 DEF IInv
  <1>2. IInv /\ [Next]_vars => IInv'
    <2> SUFFICES ASSUME IInv, [Next]_vars
                 PROVE  IInv'
      OBVIOUS
    <2>2. CASE present = {} /\ FirstAuthenticator
      <3>1. PICK type \in Types : type = authenticator
        BY DEF IInv, OwnTypes
      <3>2. OnAuthenticatorChanged(type)
        BY <2>2, <3>1 DEF FirstAuthenticator
      <3>3. QED
        BY <2>2, <3>2, ChangePreserves
    <2>3. CASE \E type \in Types : RoomForCalls /\ ChooseAuthenticator(type)
      BY <2>3, ChangePreserves DEF ChooseAuthenticator
    <2>4. CASE NextGreeter
      BY <2>4, BeginPreserves DEF NextGreeter
    <2>5. QED
      BY <2>2, <2>3, <2>4, UserPreserves, GreeterPreserves, ActiveActsPreserve,
         ReaderActsPreserve DEF Next, UserActs
  <1>3. QED
    BY <1>1, <1>2, PTL DEF Spec

(* What the greeter keeps has its type, and so have both authenticators,   *)
(* whatever is chosen, cancelled and made anew.                            *)
THEOREM TypeCorrect == Spec => []TypeOK
  <1>1. IInv => TypeOK
    BY ActiveTypes, ReaderTypes DEF IInv, OwnTypes, TypeOK
  <1>2. QED
    BY <1>1, Inductive, PTL

(* The greeter is unlocked, and ends with success, only if PAM has said    *)
(* yes to one of its authenticators since it was started.                  *)
THEOREM ConsentUnlocks == Spec => []OnlyConsentUnlocks
  <1>1. IInv => OnlyConsentUnlocks
    BY DEF IInv
  <1>2. QED
    BY <1>1, Inductive, PTL

(* No implicit reader is at work beside an interactive authenticator that  *)
(* reads fingerprints.                                                     *)
THEOREM DeviceHasOneUser == Spec => []OneUsesTheDevice
  <1>1. IInv => OneUsesTheDevice
    BY DEF IInv
  <1>2. QED
    BY <1>1, Inductive, PTL

(* A defunct authenticator is not tried again: no step, of the user or of  *)
(* anybody else, makes a call of it.                                       *)
THEOREM DefunctIsLeftAlone == Spec => DefunctIsNotTried
  <1> DEFINE Spared == authenticator \in defunct /\ UNCHANGED authenticator
                         => ~(activeAuth'.watchers > activeAuth.watchers)
  <1>1. IInv /\ [Next]_vars => Spared
    <2> SUFFICES ASSUME IInv, [Next]_vars, authenticator \in defunct
                 PROVE  ~(activeAuth'.watchers > activeAuth.watchers)
      OBVIOUS
    <2>2. activeAuth.watchers \in Nat
      BY ActiveTypes DEF IInv
    <2>3. CASE activeAuth' = Active!Constructed
      <3>1. activeAuth'.watchers = 0
        BY <2>3 DEF Active!Constructed
      <3>2. QED
        BY <2>2, <3>1
    <2>4. CASE \/ Active!Respond \/ Active!Cancel \/ Active!GreeterReceives
               \/ Active!DelayEnds \/ Active!WorkerActs \/ Active!WorkerDies
               \/ UNCHANGED active
      <3>1. activeAuth'.watchers \in {activeAuth.watchers, activeAuth.watchers - 1}
        BY <2>4, ActiveCalls DEF IInv
      <3>2. QED
        BY <2>2, <3>1
    <2>5. CASE StartAuthenticating \/ StopAuthenticating \/ RespondActive \/ CancelActive
      BY <2>4, <2>5
         DEF StartAuthenticating, TryActive, StopAuthenticating, RespondActive, CancelActive
    <2>6. CASE ActiveActs
      BY <2>4, <2>6
         DEF ActiveActs, ActiveSucceeds, ActiveFails, ActiveUnavailable, ActiveStep,
             Active!GreeterReceives
    <2>7. CASE ReaderActs \/ Quit \/ GraceLockEnded \/ UNCHANGED vars
      BY <2>4, <2>7 DEF ReaderActs, ReaderSucceeds, ReaderStep, Quit, GraceLockEnded, vars
    <2>8. CASE \/ FirstAuthenticator \/ NextGreeter
               \/ \E type \in Types : ChooseAuthenticator(type)
      BY <2>3, <2>8 DEF FirstAuthenticator, ChooseAuthenticator, OnAuthenticatorChanged,
                        NewActive, NextGreeter, Begin
    <2>9. QED
      BY <2>5, <2>6, <2>7, <2>8 DEF Next, UserActs
  <1>2. QED
    BY <1>1, Inductive, PTL DEF Spec, DefunctIsNotTried
=============================================================================
