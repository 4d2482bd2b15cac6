--------------------------- MODULE KsldRefinement ---------------------------
(***************************************************************************)
(* Ksld implements ScreenLock, provided that a program that fork can start *)
(* can also be executed.  Without that proviso it does not: a request of   *)
(* logind may then outlive its lock.                                       *)
(***************************************************************************)
EXTENDS KsldProofs

(* Nothing fails to execute.                                               *)
NoExecFault == host # "noexec" /\ greeter.phase # "failed"

(* A request of logind that is being carried out has a greeter to wait for.*)
RequestHasGreeter == logindExit /\ ~graceTimeKill => Locked /\ Running

(* The strengthening of the inductive invariant that the refinement needs. *)
RInv ==
  /\ IInv
  /\ NoExecFault
  /\ RequestHasGreeter
  /\ ~initialized => ~Locked

-----------------------------------------------------------------------------
(* What lock() does to the strengthening.                                  *)
LEMMA LockKeepsRequest ==
  ASSUME RInv, NEW how \in {"immediate", "delayed"}, NEW inGrace \in BOOLEAN,
         NEW grace \in Int, Lock(how, inGrace, grace), initialized', host' = host
  PROVE  NoExecFault' /\ RequestHasGreeter' /\ (~initialized' => ~Locked')
  <1> USE DEF RInv, IInv, NoExecFault, RequestHasGreeter, Locked, Running
  <1>1. CASE EnsureLocked(how)
    BY <1>1, SignalledValue DEF EnsureLocked, Lock, flags, Signals
  <1>2. CASE EstablishLock(how, inGrace, grace)
    BY <1>2, NewGreeterValue DEF EstablishLock, Lock, flags
  <1>3. CASE FailToLock
    BY <1>3 DEF FailToLock, Lock, flags
  <1>4. QED
    BY <1>1, <1>2, <1>3 DEF Lock

(* Every step preserves the strengthening.                                 *)
LEMMA StepKeepsRequest ==
  ASSUME "noexec" \notin StartFaults, RInv, [Next]_vars
  PROVE  NoExecFault' /\ RequestHasGreeter' /\ (~initialized' => ~Locked')
  <1> USE DEF RInv, NoExecFault, RequestHasGreeter, Locked, Running
  <1>0. /\ IInv /\ TypeOK
        /\ lockGrace \in Int /\ inGraceTime \in BOOLEAN
        /\ (inGraceTime \/ lockGrace # 0) \in BOOLEAN
        /\ LockGraceOf(settings) \in Int /\ -1 \in Int
    BY ConfigurationsAssumption DEF IInv, TypeOK, LockGraceOf, ConfigurationSet
  <1>1. CASE Initialize
    BY <1>0, <1>1, LockKeepsRequest DEF Initialize, lockVars, flags, world
  <1>2. CASE Configure
    BY <1>2 DEF Configure, lockVars, flags, world
  <1>3. CASE IdleTimeoutReached \/ ShortcutTriggered
    BY <1>0, <1>3, LockKeepsRequest DEF IdleTimeoutReached, ShortcutTriggered, world
  <1>4. CASE DBusLock \/ LogindLock \/ PrepareForSleep \/ SolidSuspend
    BY <1>0, <1>4, LockKeepsRequest
    DEF DBusLock, LogindLock, PrepareForSleep, SolidSuspend, LockImmediately, world
  <1>5. CASE LogindConnected
    BY <1>0, <1>5, LockKeepsRequest DEF LogindConnected, LockImmediately, lockVars, flags
  <1>6. CASE LogindUnlock
    <2>1. UNCHANGED <<initialized, host, graceTimeKill>>
      BY <1>6 DEF LogindUnlock
    <2>2. greeter'.phase # "failed" /\ (Running => greeter'.phase # "none")
      BY <1>0, <1>6, SignalledValue DEF LogindUnlock, Signals
    <2>3. CASE Locked /\ Running
      BY <1>6, <2>1, <2>2, <2>3 DEF LogindUnlock, lockVars
    <2>4. CASE ~(Locked /\ Running)
      <3>1. UNCHANGED logindExit /\ initialized
        BY <1>6, <2>4 DEF LogindUnlock
      <3>2. QED
        BY <2>1, <2>2, <2>4, <3>1
    <2>5. QED
      BY <2>3, <2>4
  <1>7. CASE UserActivity
    BY <1>0, <1>7, SignalledValue DEF UserActivity, DoUnlock, world, Signals
  <1>8. CASE GraceTimeout
    BY <1>8 DEF GraceTimeout, flags, world
  <1>9. CASE ProcessFinished
    <2>1. host' = host /\ initialized' = initialized
      BY <1>9 DEF ProcessFinished, world
    <2>2. CASE GraceKillFinished
      BY <1>0, <2>1, <2>2, GreeterValues DEF GraceKillFinished, lockVars
    <2>3. CASE UnlockFinished
      BY <1>0, <2>1, <2>3, GreeterValues DEF UnlockFinished, DoUnlock
    <2>4. CASE CrashFinished
      BY <1>0, <2>1, <2>4, GreeterValues, NewGreeterValue
      DEF CrashFinished, DoUnlock, lockVars, flags
    <2>5. QED
      BY <1>9, <2>2, <2>3, <2>4 DEF ProcessFinished
  <1>10. CASE StartFailed
    BY <1>10 DEF StartFailed
  <1>11. CASE Greeter
    <2>1. greeter'.phase \in {"up", "exited"} /\ DaemonUnchanged
      BY <1>0, <1>11, GreeterValues
      DEF Greeter, GreeterMasksSignals, GreeterHandlesTerm, GreeterHandlesUsr1,
          GreeterGraceEnds, GreeterAuthenticates, GreeterCrashes, TypeOK, GreeterSet
    <2>2. QED
      BY <1>11, <2>1 DEF DaemonUnchanged, lockVars, flags, world
  <1>12. CASE HostChanges \/ LogindSendsUnlock \/ LogindDisconnected
    <2>1. host' # "noexec"
      BY <1>12 DEF HostChanges, LogindSendsUnlock, LogindDisconnected
    <2>2. UNCHANGED <<initialized, lockVars, flags, greeter>>
      BY <1>12 DEF HostChanges, LogindSendsUnlock, LogindDisconnected
    <2>3. QED
      BY <2>1, <2>2 DEF lockVars, flags
  <1>13. CASE DaemonRestarts
    BY <1>0, <1>13, GreeterValues DEF DaemonRestarts
  <1>14. CASE UNCHANGED vars
    BY <1>14 DEF vars, lockVars, flags, world
  <1>15. QED
    BY <1>1, <1>2, <1>3, <1>4, <1>5, <1>6, <1>7, <1>8, <1>9, <1>10, <1>11, <1>12, <1>13, <1>14
    DEF Next, Daemon, Environment

(* The strengthening holds in every behavior.                              *)
LEMMA RInductive == ASSUME "noexec" \notin StartFaults PROVE Spec => []RInv
  <1>1. Init => RInv
    <2>1. NoGreeter.phase = "none"
      BY DEF NoGreeter
    <2>2. QED
      BY <2>1, InitIInv DEF Init, RInv, NoExecFault, RequestHasGreeter, Locked
  <1>2. RInv /\ [Next]_vars => RInv'
    BY NextPreserves, StepKeepsRequest DEF RInv
  <1>3. QED
    BY <1>1, <1>2, PTL DEF Spec

(* A request of logind to unlock is not left over for the next lock, in    *)
(* which it would turn a crash of the greeter into an unlocking.           *)
THEOREM LogindExitCorrect ==
  ASSUME "noexec" \notin StartFaults
  PROVE  Spec => []LogindExitIsOfThisLock
  <1>1. RInv => LogindExitIsOfThisLock
    BY DEF RInv, RequestHasGreeter, LogindExitIsOfThisLock
  <1>2. QED
    BY <1>1, RInductive, PTL

-----------------------------------------------------------------------------
(* The licences of an abstract state, read off the state of the daemon.    *)
DaemonLicences == IF Locked THEN LockLicences ELSE {}

(* What it takes to be licensed, now and after a step.                     *)
LEMMA LicencesNow ==
  /\ DaemonLicences \subseteq Licensed!Licences
  /\ "grace" \in DaemonLicences <=> Locked /\ inGraceTime
  /\ "nopassword" \in DaemonLicences <=> Locked /\ ~settings.requirePassword
  /\ "nogreeter" \in DaemonLicences <=>
       Locked /\ (host = "nofork" \/ greeter.phase = "failed")
  /\ "unlockSent" \in DaemonLicences <=> Locked /\ unlockSignal
  /\ "unlockTaken" \in DaemonLicences <=> Locked /\ logindExit /\ ~graceTimeKill
  /\ "authenticated" \in DaemonLicences <=>
       Locked /\ greeter.phase = "exited" /\ greeter.regular /\ ~graceTimeKill
  BY DEF DaemonLicences, LockLicences, Licensed!Licences

(* The same for a licence in the next state.                               *)
LEMMA LicencesThen ==
  /\ DaemonLicences' \subseteq Licensed!Licences
  /\ "grace" \in DaemonLicences' <=> Locked' /\ inGraceTime'
  /\ "unlockTaken" \in DaemonLicences' <=> Locked' /\ logindExit' /\ ~graceTimeKill'
  /\ "authenticated" \in DaemonLicences' <=>
       Locked' /\ greeter'.phase = "exited" /\ greeter'.regular /\ ~graceTimeKill'
  /\ ~Locked' => DaemonLicences' = {}
  BY DEF DaemonLicences, LockLicences, Licensed!Licences

(* The four kinds of steps, by what they mean for ScreenLock.              *)
LEMMA MapsToLock ==
  ASSUME ~Locked, Locked', initialized', initialized' \in BOOLEAN,
         ~(logindExit' /\ ~graceTimeKill'),
         ~(greeter'.phase = "exited" /\ greeter'.regular /\ ~graceTimeKill')
  PROVE  Licensed!Lock
  <1>1. DaemonLicences' \in SUBSET Licensed!InitialLicences
    BY LicencesThen DEF Licensed!InitialLicences
  <1>2. Locked' = TRUE /\ initialized' = TRUE
    BY DEF Locked
  <1>3. QED
    BY <1>1, <1>2 DEF Licensed!Lock, DaemonLicences

(* A step within a lock changes licences, and grants no grace time.        *)
LEMMA MapsToChange ==
  ASSUME Locked, Locked', initialized' = initialized, inGraceTime' => inGraceTime,
         logindExit' /\ ~graceTimeKill' => unlockSignal \/ (logindExit /\ ~graceTimeKill)
  PROVE  Licensed!Change
  <1>1. DaemonLicences' \in SUBSET Licensed!Licences
    BY LicencesThen
  <1>2. "grace" \in DaemonLicences' => "grace" \in DaemonLicences
    BY LicencesNow, LicencesThen
  <1>3. "unlockTaken" \in DaemonLicences' =>
          DaemonLicences \cap {"unlockSent", "unlockTaken"} # {}
    BY LicencesNow, LicencesThen
  <1>4. Locked' = Locked
    BY DEF Locked
  <1>5. QED
    BY <1>1, <1>2, <1>3, <1>4 DEF Licensed!Change, DaemonLicences

(* A step that unlocks needs a licence.                                    *)
LEMMA MapsToUnlock ==
  ASSUME Locked, ~Locked', initialized' = initialized,
         \/ inGraceTime \/ ~settings.requirePassword
         \/ host = "nofork" \/ greeter.phase = "failed"
         \/ unlockSignal
         \/ logindExit /\ ~graceTimeKill
         \/ greeter.phase = "exited" /\ greeter.regular /\ ~graceTimeKill
  PROVE  Licensed!Unlock
  <1>1. DaemonLicences # {}
    BY LicencesNow
  <1>2. Locked' = FALSE
    BY DEF Locked
  <1>3. QED
    BY <1>1, <1>2, LicencesThen DEF Licensed!Unlock, DaemonLicences

(* A step that changes neither lock nor licences is invisible.             *)
LEMMA MapsToStutter ==
  ASSUME ~Locked, ~Locked', initialized' = initialized
  PROVE  UNCHANGED Licensed!vars
  BY DEF Licensed!vars, Locked, DaemonLicences

-----------------------------------------------------------------------------
(* lock(), called from any handler, locks, keeps the lock or does nothing. *)
LEMMA LockRefines ==
  ASSUME RInv, NEW how \in {"immediate", "delayed"}, NEW inGrace \in BOOLEAN,
         NEW grace \in Int, Lock(how, inGrace, grace),
         initialized, initialized' = initialized
  PROVE  [Licensed!Next]_Licensed!vars
  <1> USE DEF RInv, IInv, Lock, flags
  <1>1. CASE EnsureLocked(how)
    <2>1. Locked /\ Locked' /\ ~inGraceTime'
      BY <1>1 DEF EnsureLocked, EndGraceTime, Locked
    <2>2. QED
      BY <2>1, MapsToChange DEF Licensed!Next
  <1>2. CASE EstablishLock(how, inGrace, grace)
    <2>1. ~Locked /\ Locked'
      BY <1>2 DEF EstablishLock, Locked
    <2>2. ~(logindExit' /\ ~graceTimeKill')
      BY <2>1 DEF RequestHasGreeter
    <2>3. greeter'.phase = "exited" => graceTimeKill'
      BY <1>2, <2>1, NewGreeterValue DEF EstablishLock, LeftoverGreeterIsDoomed, Running
    <2>4. QED
      BY <2>1, <2>2, <2>3, MapsToLock DEF Licensed!Next, TypeOK
  <1>3. CASE FailToLock
    BY <1>3, MapsToStutter DEF FailToLock, Locked
  <1>4. QED
    BY <1>1, <1>2, <1>3

(* initialize() starts the locker, and may lock at once.                   *)
LEMMA InitializeRefines == ASSUME RInv, Initialize PROVE [Licensed!Next]_Licensed!vars
  <1>1. ~Locked /\ ~initialized /\ initialized' = TRUE
    BY DEF Initialize, RInv
  <1>2. CASE ~Locked'
    BY <1>1, <1>2 DEF Licensed!Next, Licensed!Start, DaemonLicences, Locked
  <1>3. CASE Locked'
    <2>1. EstablishLock("immediate", inGraceTime, LockGraceOf(settings)) /\ UNCHANGED flags
      BY <1>1, <1>3 DEF Initialize, Lock, EnsureLocked, FailToLock, Locked, lockVars
    <2>2. LockGraceOf(settings) \in Int
      BY ConfigurationsAssumption DEF RInv, IInv, TypeOK, LockGraceOf, ConfigurationSet
    <2>3. ~(logindExit' /\ ~graceTimeKill')
      BY <1>1, <2>1 DEF RInv, RequestHasGreeter, flags
    <2>4. greeter'.phase = "exited" => graceTimeKill'
      BY <1>1, <2>1, <2>2, NewGreeterValue
      DEF EstablishLock, LeftoverGreeterIsDoomed, Running, RInv, IInv, flags
    <2>5. QED
      BY <1>1, <1>3, <2>3, <2>4, MapsToLock DEF Licensed!Next
  <1>4. QED
    BY <1>2, <1>3

(* A step that changes neither the lock nor the request to unlock.         *)
LEMMA NeutralRefines ==
  ASSUME UNCHANGED <<initialized, lockState>>, inGraceTime' => inGraceTime,
         logindExit' /\ ~graceTimeKill' => logindExit /\ ~graceTimeKill
  PROVE  [Licensed!Next]_Licensed!vars
  BY MapsToChange, MapsToStutter DEF Locked, Licensed!Next

(* The finished() handler unlocks with a licence.                          *)
LEMMA ProcessFinishedRefines ==
  ASSUME RInv, ProcessFinished PROVE [Licensed!Next]_Licensed!vars
  <1>1. initialized' = initialized /\ greeter.phase = "exited"
    BY DEF ProcessFinished
  <1>2. CASE GraceKillFinished
    BY <1>1, <1>2, NeutralRefines DEF GraceKillFinished, lockVars
  <1>3. CASE UnlockFinished
    <2>1. ~Locked' /\ Locked
      BY <1>1, <1>3, CrashesCount DEF UnlockFinished, DoUnlock, Locked, RInv
    <2>2. QED
      BY <1>1, <1>3, <2>1, MapsToUnlock DEF UnlockFinished, Licensed!Next
  <1>4. CASE CrashFinished
    <2>1. Locked
      BY <1>1, <1>4, CrashesCount DEF CrashFinished, RInv
    <2>2. CASE UNCHANGED lockVars
      BY <1>1, <1>4, <2>2, NeutralRefines DEF CrashFinished, lockVars, flags
    <2>3. CASE DoUnlock /\ host = "nofork"
      BY <1>1, <2>1, <2>3, MapsToUnlock DEF DoUnlock, Locked, Licensed!Next
    <2>4. QED
      BY <1>4, <2>2, <2>3 DEF CrashFinished
  <1>5. QED
    BY <1>2, <1>3, <1>4 DEF ProcessFinished

(* logind's request is a licence from when it is sent.                     *)
LEMMA LogindUnlockRefines ==
  ASSUME RInv, LogindUnlock PROVE [Licensed!Next]_Licensed!vars
  <1>1. /\ UNCHANGED <<initialized, graceTimeKill>>
        /\ unlockSignal
    BY DEF LogindUnlock
  <1>2. CASE Locked /\ Running
    <2>1. UNCHANGED lockVars
      BY <1>2 DEF LogindUnlock, Locked
    <2>2. QED
      BY <1>1, <1>2, <2>1, MapsToChange DEF lockVars, Locked, Licensed!Next
  <1>3. CASE Locked /\ ~Running
    <2>1. DoUnlock
      BY <1>3 DEF LogindUnlock, Locked
    <2>2. QED
      BY <1>1, <1>3, <2>1, MapsToUnlock DEF DoUnlock, Locked, Licensed!Next
  <1>4. CASE ~Locked
    <2>1. UNCHANGED lockVars /\ UNCHANGED logindExit
      BY <1>4 DEF LogindUnlock, Locked
    <2>2. QED
      BY <1>1, <2>1, NeutralRefines DEF lockVars
  <1>5. QED
    BY <1>2, <1>3, <1>4

(* Every step of the daemon, of a greeter and of the environment.          *)
LEMMA StepRefines ==
  ASSUME RInv, [Next]_vars PROVE [Licensed!Next]_Licensed!vars
  <1>0. /\ lockGrace \in Int /\ inGraceTime \in BOOLEAN
        /\ (inGraceTime \/ lockGrace # 0) \in BOOLEAN /\ -1 \in Int
    BY DEF RInv, IInv, TypeOK
  <1>1. CASE IdleTimeoutReached \/ ShortcutTriggered
    BY <1>0, <1>1, LockRefines DEF IdleTimeoutReached, ShortcutTriggered
  <1>2. CASE DBusLock \/ LogindLock \/ PrepareForSleep \/ SolidSuspend
    BY <1>0, <1>2, LockRefines
    DEF DBusLock, LogindLock, PrepareForSleep, SolidSuspend, LockImmediately
  <1>3. CASE LogindConnected
    <2>1. CASE hint
      BY <1>0, <1>3, <2>1, LockRefines DEF LogindConnected, LockImmediately
    <2>2. CASE ~hint
      BY <1>3, <2>2, NeutralRefines DEF LogindConnected, lockVars, flags
    <2>3. QED
      BY <2>1, <2>2
  <1>4. CASE UserActivity
    <2>1. Locked /\ ~Locked' /\ initialized' = initialized
      BY <1>4 DEF UserActivity, DoUnlock, Locked
    <2>2. QED
      BY <1>4, <2>1, MapsToUnlock DEF UserActivity, Licensed!Next
  <1>5. CASE StartFailed
    <2>1. ~Locked' /\ initialized' = initialized /\ greeter.phase = "failed"
      BY <1>5 DEF StartFailed, DoUnlock, Locked
    <2>2. QED
      BY <2>1, MapsToUnlock, MapsToStutter DEF Licensed!Next
  <1>6. CASE Configure
    BY <1>6, NeutralRefines DEF Configure, lockVars, flags
  <1>7. CASE GraceTimeout
    BY <1>7, NeutralRefines DEF GraceTimeout, EndGraceTime, flags
  <1>8. CASE Greeter
    <2>1. DaemonUnchanged
      BY <1>8 DEF Greeter, GreeterMasksSignals, GreeterHandlesTerm, GreeterHandlesUsr1,
                  GreeterGraceEnds, GreeterAuthenticates, GreeterCrashes
    <2>2. QED
      BY <2>1, NeutralRefines DEF DaemonUnchanged, lockVars, flags
  <1>9. CASE HostChanges \/ LogindSendsUnlock \/ LogindDisconnected
    <2>1. UNCHANGED <<initialized, lockVars, flags>>
      BY <1>9 DEF HostChanges, LogindSendsUnlock, LogindDisconnected
    <2>2. QED
      BY <2>1, NeutralRefines DEF lockVars, flags
  <1>10. CASE DaemonRestarts
    <2>1. ~initialized' /\ initialized' = FALSE /\ Locked' = FALSE
      BY <1>10 DEF DaemonRestarts, Locked
    <2>2. QED
      BY <2>1 DEF Licensed!Next, Licensed!Die, DaemonLicences
  <1>11. CASE UNCHANGED vars
    BY <1>11, NeutralRefines DEF vars, lockVars, flags
  <1>12. QED
    BY <1>1, <1>2, <1>3, <1>4, <1>5, <1>6, <1>7, <1>8, <1>9, <1>10, <1>11,
       InitializeRefines, ProcessFinishedRefines, LogindUnlockRefines
    DEF Next, Daemon, Environment

(* The daemon unlocks the screen only with a licence of the current lock:  *)
(* activity in its grace time or without a password, its own greeter's     *)
(* authentication, logind's request, or a greeter that cannot be started.  *)
THEOREM ImplementsScreenLock ==
  ASSUME "noexec" \notin StartFaults
  PROVE  Spec => UnlockedOnlyWithLicence
  <1>1. Init => Licensed!Init
    BY DEF Init, Licensed!Init, Locked
  <1>2. RInv /\ [Next]_vars => [Licensed!Next]_Licensed!vars
    BY StepRefines
  <1>3. QED
    BY <1>1, <1>2, RInductive, PTL DEF Spec, UnlockedOnlyWithLicence, Licensed!Spec
=============================================================================
