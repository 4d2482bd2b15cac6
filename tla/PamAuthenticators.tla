------------------------- MODULE PamAuthenticators --------------------------
(***************************************************************************)
(* All of the greeter's PAM services: class PamAuthenticators              *)
(* (src/greeter/pamauthenticators.cpp) with the interactive authenticator  *)
(* that the user has chosen and, beside it, the implicit fingerprint       *)
(* reader, each of them a PamAuthenticator with a worker of its own; the   *)
(* marks that PAMAuthenticatorModel keeps of what is defunct               *)
(* (src/greeter/pamauthenticatormodel.cpp); and the greeter's end          *)
(* (src/greeter/greeterapp.cpp).                                           *)
(*                                                                         *)
(* The handlers of an authenticator's signals run within the step of the   *)
(* authenticator that emits it.  Signals for the user interface only, and  *)
(* texts, are left out.                                                    *)
(***************************************************************************)
EXTENDS Naturals, Sequences

CONSTANTS
  Types,    \* authenticators the user can choose between
  Regular,  \* the password
  Fingerprint,
  RespondsAtOnce, MaxQuickFailures, MaxCalls, MaxDelays  \* see PamAuthenticator

ASSUME TypesAssumption == {Regular, Fingerprint} \subseteq Types
ASSUME AuthenticatorAssumption ==
  /\ RespondsAtOnce \in BOOLEAN
  /\ MaxQuickFailures \in Nat /\ MaxCalls \in Nat /\ MaxDelays \in Nat

VARIABLES
  authenticator,  \* m_authenticator
  state,          \* "Idle" or "Authenticating"
  graceLocked,    \* Private::graceLocked
  locked,         \* Private::locked
  saved,          \* the entry Authenticator in the state configuration
  defunct,        \* the authenticators that markDefunct() was called for
  present,        \* which of "active" and "reader" have been made
  enabled,        \* the descriptors that PAMAuthenticatorModel has
  greeter,        \* "running", "unlocked" when it has quit, or "crashed"
  activeAuth, activeWorker, activeWire,  \* m_activeAuthenticator
  readerAuth, readerWorker, readerWire,  \* m_fingerprintAuthenticator
  consent         \* history: PAM has said yes to this greeter

active == <<activeAuth, activeWorker, activeWire>>
reader == <<readerAuth, readerWorker, readerWire>>
choice == <<authenticator, present>>
model  == <<enabled, defunct>>
lock   == <<locked, saved>>
vars == <<choice, state, graceLocked, lock, model, greeter, consent, active, reader>>

Active == INSTANCE PamAuthenticator
            WITH auth <- activeAuth, worker <- activeWorker, wire <- activeWire
Reader == INSTANCE PamAuthenticator
            WITH auth <- readerAuth, worker <- readerWorker, wire <- readerWire

(* The type invariant.                                                     *)
TypeOK ==
  /\ authenticator \in Types /\ saved \in Types /\ defunct \subseteq Types \ {Regular}
  /\ state \in {"Idle", "Authenticating"}
  /\ graceLocked \in BOOLEAN /\ locked \in BOOLEAN
  /\ enabled \subseteq Types /\ Regular \in enabled
  /\ greeter \in {"running", "unlocked", "crashed"} /\ consent \in BOOLEAN
  /\ present \subseteq {"active", "reader"}
  /\ Active!TypeOK /\ Reader!TypeOK

-----------------------------------------------------------------------------
(* An authenticator that has not been made, or has been destroyed, is one  *)
(* without a worker: calling it has no effect.                             *)
AbsentReader ==
  /\ readerAuth' = Reader!Constructed
  /\ readerWorker' = [Reader!NewWorker EXCEPT !.phase = "dead"]
  /\ readerWire' = Reader!Silence

NewReader ==
  /\ readerAuth' = Reader!Constructed
  /\ readerWorker' = Reader!NewWorker
  /\ readerWire' = Reader!Silence

NewActive ==
  /\ activeAuth' = Active!Constructed
  /\ activeWorker' = Active!NewWorker
  /\ activeWire' = Active!Silence

(* What startAuthenticating() does with each of the two.                   *)
TryReader == IF readerAuth.unavailable THEN UNCHANGED reader ELSE Reader!TryUnlock

(* Mutant: the model is not asked.                                         *)
TryActiveDefunct == Active!TryUnlock

TryActive ==
  IF authenticator \in defunct THEN UNCHANGED active ELSE Active!TryUnlock

StartAuthenticating ==
  /\ ~graceLocked
  /\ TryActive /\ TryReader
  /\ state' = "Authenticating"
  /\ UNCHANGED <<choice, graceLocked, lock, model, greeter, consent>>

(* stopAuthenticating(): both are cancelled for good, as cancel() ends the *)
(* worker and only a constructor starts one.                               *)
StopAuthenticating ==
  /\ IF activeAuth.connected THEN Active!Cancel ELSE UNCHANGED active
  /\ IF readerAuth.connected THEN Reader!Cancel ELSE UNCHANGED reader
  /\ state' = "Idle"
  /\ UNCHANGED <<choice, graceLocked, lock, model, greeter, consent>>

(* respond() and cancel() go to the interactive authenticator.             *)
RespondActive ==
  /\ Active!Respond
  /\ UNCHANGED <<choice, state, graceLocked, lock, model, greeter, consent, reader>>

CancelActive ==
  /\ Active!Cancel
  /\ UNCHANGED <<choice, state, graceLocked, lock, model, greeter, consent, reader>>

(* Mutant: the reader that is there stays, whatever is chosen.             *)
ReaderKept(type) ==
  /\ present' = present \cup (IF type = Fingerprint THEN {"active"} ELSE {"active", "reader"})
  /\ IF "reader" \in present THEN TryReader
     ELSE IF type = Fingerprint THEN AbsentReader
     ELSE NewReader

(* The reader that goes with an interactive authenticator of some type.    *)
ReaderFor(type) ==
  /\ present' = IF type = Fingerprint THEN {"active"} ELSE {"active", "reader"}
  /\ IF type = Fingerprint THEN AbsentReader
     ELSE IF "reader" \in present THEN TryReader
     ELSE NewReader

(* onAuthenticatorChanged() and, at its end, startAuthenticating(), which  *)
(* finds no new authenticator ready: only a reader that stays can be.      *)
(* isFunctional() dereferences a null pointer if the model lacks the type. *)
OnAuthenticatorChanged(type) ==
  /\ authenticator' = type
  /\ NewActive /\ ReaderFor(type)
  /\ graceLocked' = FALSE
  /\ state' = "Authenticating"
  /\ greeter' = IF type \in enabled THEN "running" ELSE "crashed"
  /\ UNCHANGED <<lock, model, consent>>

(* Queued by the constructor, so handled when the event loop starts.       *)
FirstAuthenticator == present = {} /\ OnAuthenticatorChanged(authenticator)

(* The user interface offers what the model has.                           *)
ChooseAuthenticator(type) ==
  /\ type \in enabled \ {authenticator} /\ present # {}
  /\ OnAuthenticatorChanged(type)

(* UnlockApp::graceLockEnded().                                            *)
GraceLockEnded ==
  /\ graceLocked
  /\ graceLocked' = FALSE
  /\ UNCHANGED <<choice, state, lock, model, greeter, consent, active, reader>>

-----------------------------------------------------------------------------
(* Signals of the interactive authenticator.                               *)

(* succeeded() of either: "saved" is the one the user has chosen, even if  *)
(* it was the reader that succeeded.                                       *)
Succeeded == locked' = FALSE /\ saved' = authenticator

(* Mutant: the password is not spared.                                     *)
MarkDefunctAll ==
  defunct' = defunct \cup (IF activeAuth'.unavailable THEN {authenticator} ELSE {})

(* availableChanged() and markDefunct(), which spares the password.        *)
MarkDefunct ==
  defunct' = defunct \cup (IF activeAuth'.unavailable THEN {authenticator} \ {Regular} ELSE {})

ActiveSucceeds ==
  /\ Active!ReplySuccess
  /\ Succeeded
  /\ UNCHANGED <<choice, state, graceLocked, model, greeter, consent, reader>>

(* failed(), after availableChanged() if that was one too many.            *)
ActiveFails ==
  /\ Active!ReplyFailure \/ Active!ReplyError
  /\ MarkDefunct
  /\ state' = "Idle"
  /\ UNCHANGED <<choice, graceLocked, lock, greeter, enabled, consent, reader>>

ActiveUnavailable ==
  /\ Active!ReplyUnavailable
  /\ MarkDefunct
  /\ UNCHANGED <<choice, state, graceLocked, lock, greeter, enabled, consent, reader>>

(* What changes the authenticator only.                                    *)
ActiveStep ==
  /\ \/ Active!ConnectWorker \/ Active!Ping \/ Active!PromptInternal
     \/ Active!StartFailedDelay \/ Active!DelayEnds
     \/ Active!WorkerActs \/ Active!WorkerDies
  /\ consent' = (consent \/ activeWorker'.granted)
  /\ UNCHANGED <<choice, state, graceLocked, lock, model, greeter, reader>>

(* Signals of the reader, whose failures concern the user interface only.  *)
ReaderSucceeds ==
  /\ Reader!ReplySuccess
  /\ Succeeded
  /\ UNCHANGED <<choice, state, graceLocked, model, greeter, consent, active>>

ReaderStep ==
  /\ \/ Reader!ConnectWorker \/ Reader!Ping \/ Reader!PromptInternal
     \/ Reader!StartFailedDelay \/ Reader!DelayEnds
     \/ Reader!ReplyFailure \/ Reader!ReplyError \/ Reader!ReplyUnavailable
     \/ Reader!WorkerActs \/ Reader!WorkerDies
  /\ consent' = (consent \/ readerWorker'.granted)
  /\ UNCHANGED <<choice, state, graceLocked, lock, model, greeter, active>>

(* Mutant: the greeter ends whenever the user interface wants to.          *)
QuitAnyway ==
  /\ greeter' = "unlocked"
  /\ UNCHANGED <<choice, state, graceLocked, lock, model, consent, active, reader>>

(* The user interface quits; the greeter does so when it is unlocked.      *)
Quit ==
  /\ ~locked
  /\ greeter' = "unlocked"
  /\ UNCHANGED <<choice, state, graceLocked, lock, model, consent, active, reader>>

(* A greeter for the next lock.  It reads the state configuration and what *)
(* the user has enabled meanwhile, and main() calls setGraceTime() before  *)
(* the event loop starts.                                                  *)
Begin ==
  /\ authenticator' = saved
  /\ present' = {}
  /\ state' = "Idle"
  /\ graceLocked' \in BOOLEAN
  /\ locked' = TRUE
  /\ enabled' \in {S \in SUBSET Types : Regular \in S}
  /\ defunct' = {}
  /\ greeter' = "running"
  /\ activeAuth' = Active!Constructed
  /\ activeWorker' = [Active!NewWorker EXCEPT !.phase = "dead"]
  /\ activeWire' = Active!Silence
  /\ AbsentReader
  /\ consent' = FALSE
  /\ UNCHANGED saved

NextGreeter == greeter # "running" /\ Begin

Init ==
  /\ saved = Regular /\ authenticator = Regular
  /\ present = {} /\ state = "Idle" /\ graceLocked \in BOOLEAN /\ locked = TRUE
  /\ enabled \in {S \in SUBSET Types : Regular \in S} /\ defunct = {}
  /\ greeter = "running" /\ consent = FALSE
  /\ activeAuth = Active!Constructed /\ readerAuth = Reader!Constructed
  /\ activeWorker = [Active!NewWorker EXCEPT !.phase = "dead"]
  /\ readerWorker = [Reader!NewWorker EXCEPT !.phase = "dead"]
  /\ activeWire = Active!Silence /\ readerWire = Reader!Silence

(* The bound on calls is for the model only.                               *)
RoomForCalls == activeAuth.watchers < MaxCalls /\ readerAuth.watchers < MaxCalls

UserActs ==
  \/ RoomForCalls /\ StartAuthenticating
  \/ StopAuthenticating
  \/ ~RespondsAtOnce /\ RespondActive
  \/ CancelActive
  \/ \E type \in Types : RoomForCalls /\ ChooseAuthenticator(type)
  \/ Quit

ActiveActs == ActiveSucceeds \/ ActiveFails \/ ActiveUnavailable \/ ActiveStep

ReaderActs == ReaderSucceeds \/ ReaderStep

Next ==
  \/ greeter = "running" /\ present = {} /\ (FirstAuthenticator \/ GraceLockEnded)
  \/ greeter = "running" /\ present # {} /\ (UserActs \/ ActiveActs \/ ReaderActs)
  \/ NextGreeter

Spec == Init /\ [][Next]_vars

-----------------------------------------------------------------------------
(* Properties.                                                             *)

(* The greeter is unlocked, and ends with success, only if PAM has said    *)
(* yes to one of its authenticators, whatever was cancelled or chosen      *)
(* meanwhile.                                                              *)
OnlyConsentUnlocks == ~locked \/ greeter = "unlocked" => consent

(* The fingerprint device is never used by two authenticators at a time.   *)
OneUsesTheDevice ==
  authenticator = Fingerprint /\ present # {} =>
    "reader" \notin present /\ readerWorker.phase = "dead"

(* "Never allow a malfunctioning authenticator to unlock unless the state  *)
(* resets": one that is marked defunct is not tried again, not even when   *)
(* the user chooses another and comes back to it.                          *)
DefunctIsNotTried ==
  [][(authenticator \in defunct /\ UNCHANGED authenticator)
       => ~(activeAuth'.watchers > activeAuth.watchers)]_vars

(* "Whether this authenticator may be used at all; enabled by distro +     *)
(* enabled by user": the authenticator in use is an enabled one.           *)
OnlyEnabledIsUsed == present # {} => authenticator \in enabled

=============================================================================
