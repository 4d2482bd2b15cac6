--------------------------- MODULE SessionServices ----------------------------
(***************************************************************************)
(* What lock() and doUnlock() of src/ksldapp.cpp do beyond the daemon:     *)
(* they tell logind the state of the screen (module LogindIntegration) and *)
(* have the shortcuts of the lock screen fetched and forgotten (module     *)
(* GlobalAccel).  Both go over the bus, so that their answers come when    *)
(* the screen may long be in another state.  How the screen comes to be    *)
(* locked and unlocked in between is the subject of module Ksld; here the  *)
(* user may do either at any time, and any lock may fail for want of a     *)
(* greeter process.                                                        *)
(***************************************************************************)
EXTENDS LogindIntegration, GlobalAccel

VARIABLES
  locked,  \* m_lockState is Locked
  failed,  \* the last lock() failed, and told logind of a lock in the end
  unread,  \* the last isLocked() missed the hint, and nothing was told since
  fetch    \* what this lock has made of fetching shortcuts

logindVars == <<client, bus, outbox, inbox>>
screen     == <<locked, failed>>
accelVars  == <<accel, active>>
vars == <<logindVars, accelVars, screen, unread, fetch>>

Fetches == {"own",     \* its own fetch, or the screen is unlocked
            "failed",  \* the same, but one of the calls has failed
            "raced"}   \* none, as that of an earlier lock was under way

(* The states of all three modules are what they are meant to be.          *)
TypeOK ==
  /\ LogindTypeOK /\ AccelTypeOK
  /\ locked \in BOOLEAN /\ failed \in BOOLEAN /\ unread \in BOOLEAN
  /\ fetch \in Fetches

Init ==
  /\ LogindInit /\ AccelInit
  /\ locked = FALSE /\ failed = FALSE /\ unread = FALSE /\ fetch = "own"

-----------------------------------------------------------------------------
(* The daemon's own part.                                                  *)

(* The calls that lock() sends.  Where start() fails, the handler of the   *)
(* error runs doUnlock() from within lock(), and lock() goes on.           *)
LockCalls(isConnected, path, starts) ==
  (IF starts THEN <<>> ELSE SetLocked(isConnected, path, FALSE))
    \o SetLocked(isConnected, path, TRUE)

(* lock() of a screen that is not locked, with the calls told: with a      *)
(* greeter that starts, or with one that does not.                         *)
Establish(starts, told) ==
  /\ ~locked /\ locked' = starts /\ failed' = ~starts
  /\ IF starts \/ updatingInformation = 0 THEN Prepare ELSE Release
  /\ fetch' = IF starts /\ updatingInformation # 0 THEN "raced" ELSE "own"
  /\ lost' = (told = <<>>) /\ unread' = FALSE
  /\ UNCHANGED active

(* lock() of a screen that is locked tells nobody.                         *)
StayAsIs == UNCHANGED <<accelVars, screen, fetch, lost>>

EnsureLocked == locked /\ StayAsIs

(* doUnlock(), with the calls that setLocked(FALSE) sends.                 *)
DoUnlock(told) ==
  /\ locked /\ locked' = FALSE /\ failed' = FALSE
  /\ lost' = (told = <<>>) /\ unread' = FALSE
  /\ Release
  /\ fetch' = "own"
  /\ UNCHANGED active

(* The screen is locked, or unlocked, for any other reason.                *)
UserLocks ==
  \E starts \in BOOLEAN :
    LET told == LockCalls(connected, sessionPath, starts) IN
      /\ HasRoom
      /\ Establish(starts, told)
      /\ outbox' = outbox \o told
      /\ UNCHANGED <<client, owners, hint, refused, inbox>>

UserUnlocks ==
  LET told == SetLocked(connected, sessionPath, FALSE) IN
    /\ HasRoom
    /\ DoUnlock(told)
    /\ outbox' = outbox \o told
    /\ UNCHANGED <<client, owners, hint, refused, inbox>>

(* Signals that have nothing but LogindIntegration's own handlers.         *)
BusReplied ==
  /\ NamesReplied \/ LogindRegistered \/ LogindUnregistered \/ SessionIgnored
  /\ UNCHANGED <<accelVars, screen, unread, fetch>>

(* Mutant: the hint is not asked for.                                      *)
ConnectedOnly ==
  \E path \in Services :
    SessionReplied(path, <<>>) /\ StayAsIs /\ unread' = FALSE

(* connectedChanged(): a session that logind holds to be locked is locked, *)
(* unless the call that asks for it fails.                                 *)
Connected ==
  \E path \in Services :
    \/ \E starts \in BOOLEAN :
         LET told == LockCalls(TRUE, path, starts) IN
           IsLocked(path) /\ Establish(starts, told) /\ SessionReplied(path, told)
    \/ IsLocked(path) /\ EnsureLocked /\ SessionReplied(path, <<>>) /\ unread' = FALSE
    \/ StayAsIs /\ SessionReplied(path, <<>>) /\ unread' = IsLocked(path)

(* requestLock(), and prepareForSleep() if the screen is to lock on resume.*)
LockRequested ==
  \E kind \in {"Lock", "Sleep"} :
    \/ \E starts \in BOOLEAN :
         LET told == LockCalls(connected, sessionPath, starts) IN
           Establish(starts, told) /\ Signalled(kind, told)
    \/ EnsureLocked /\ Signalled(kind, <<>>) /\ UNCHANGED unread
    \/ kind = "Sleep" /\ StayAsIs /\ Signalled(kind, <<>>) /\ UNCHANGED unread

(* requestUnlock(): at once when no greeter runs; otherwise the greeter is *)
(* told to go, and UserUnlocks may follow.                                 *)
UnlockRequested ==
  LET told == SetLocked(connected, sessionPath, FALSE) IN
    \/ DoUnlock(told) /\ Signalled("Unlock", told)
    \/ StayAsIs /\ Signalled("Unlock", <<>>) /\ UNCHANGED unread

Deliver == BusReplied \/ Connected \/ LockRequested \/ UnlockRequested

-----------------------------------------------------------------------------
(* The rest of the session.                                                *)

Bus == (CallArrives \/ Environment) /\ UNCHANGED <<accelVars, screen, unread, fetch>>

AccelReplied ==
  /\ \/ Reply /\ UNCHANGED fetch
     \/ /\ ErrorReplied
        /\ fetch' = IF locked /\ fetch = "own" THEN "failed" ELSE fetch
  /\ UNCHANGED <<logindVars, screen, unread>>

(* "The user cannot interact with the system thus the global shortcut      *)
(* won't change while the screen is locked."                               *)
ComponentsChange ==
  /\ ~locked
  /\ active' \in SUBSET Whitelist \ {active}
  /\ UNCHANGED <<logindVars, accel, screen, unread, fetch>>

Next ==
  UserLocks \/ UserUnlocks \/ Deliver \/ Bus \/ AccelReplied \/ ComponentsChange

Spec == Init /\ [][Next]_vars

(* The event loop of the daemon delivers what has come in, the bus takes   *)
(* what is sent, and kglobalaccel answers or the call times out.           *)
CallTaken == CallArrives /\ UNCHANGED <<accelVars, screen, unread, fetch>>

Fairness == WF_vars(Deliver) /\ WF_vars(CallTaken) /\ WF_vars(AccelReplied)

FairSpec == Spec /\ Fairness

-----------------------------------------------------------------------------
(* Properties.                                                             *)

(* The daemon is connected to logind's session at logind.  One that holds  *)
(* ConsoleKit's path for logind's service, because ConsoleKit's reply was  *)
(* handled after logind had registered, is not.                            *)
InTouch == connected /\ service = "logind" /\ sessionPath = "logind"

Settled == inbox = <<>> /\ outbox = <<>> /\ "logind" \in owners

(* When all messages have come where they were sent, logind's hint is what *)
(* the daemon told it last (setLocked(): "Notify logind of our current     *)
(* state"), even after logind has been away, unless that was dropped for   *)
(* want of a connection, came too late for an instance of logind, or was   *)
(* forgotten by it.  And a hint that the session is locked is right, with  *)
(* two exceptions: a lock() whose greeter failed to start tells logind of  *)
(* the lock after it has been undone, and the daemon may not have been     *)
(* able to read a hint that was there before it.                           *)
HintIsRight ==
  InTouch /\ Settled => /\ hint => locked \/ failed \/ unread
                        /\ ~lost => hint = (locked \/ failed)

(* Without ConsoleKit, a logind that has come to stay is found, however    *)
(* often it came and went before and whatever was under way then: the      *)
(* daemon is connected to the session and hears its signals.  The last     *)
(* answer must not be an error: the daemon does not ask again.             *)
Reconnects ==
  [](owners \subseteq {"logind"}) /\ <>[]("logind" \in owners) /\ <>[]~refused
    => <>[](InTouch /\ {<<"logind", "logind">>, <<"logind", "manager">>} \subseteq rules)

(* The shortcuts of a locked screen are of components that are active now, *)
(* and once all replies have come they are all of them, unless a call has  *)
(* failed: replies to the fetch of an earlier lock, which come after the   *)
(* unlock, are of no consequence.  The exception is the lock that finds    *)
(* such a fetch under way.                                                 *)
ShortcutsAreThisLocks ==
  locked /\ fetch # "raced" =>
    /\ shortcuts \subseteq active
    /\ calls = <<>> /\ fetch = "own" => shortcuts = active
=============================================================================
